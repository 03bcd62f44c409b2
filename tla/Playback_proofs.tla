-------------------------- MODULE Playback_proofs ---------------------------
(***************************************************************************)
(* FlacDecoder never hangs and stamps every chunk with the right time for  *)
(* every size of the bitreader and of the chunks, and for any gaps.  The   *)
(* inductive invariant counts: what is unread of the chunk and of the      *)
(* bitreader is what is left of the frames received; what comes before the *)
(* first read of a chunk was left by the chunk before it.                  *)
(*                                                                         *)
(* Playback has that decoder within it, for every buffer and sample rate.  *)
(* Soft synchronisation moves towards the time of the stream and fills a   *)
(* buffer to its end; and every frame is heard at its time, because the    *)
(* queue leads without a gap to what the decoder comes to next (QueueInv), *)
(* but for chunks that are over (NearInv).                                 *)
(***************************************************************************)
EXTENDS Playback, SequenceTheorems, WellFoundedInduction, TLAPS


----------------------------------------------------------------------------
(* The decoder: its inductive invariant                                    *)

\* No half of a frame is lost or read twice.
CountInv ==
    /\ bitreader + flacChunk + half = 2 * (Len(received) - next + 1)
    /\ state = "metadata" <=> at = "header"
    /\ state # "end_of_stream"
    /\ state # "read_frame" => half = 0
    /\ state = "read_frame" => at = "single"
    /\ at = "single" => next <= Len(received)
    /\ at \in {"header", "idle", "done"} => flacChunk = 0 /\ ~isCachedChunk

\* Until the first read, only frames before the chunk have been decoded; since
\* then only frames of the chunk.
ChunkInv ==
    /\ first <= Len(received) + 1
    /\ isCachedChunk =>
          /\ first <= Len(received) /\ flacChunk = 2 * (Len(received) - first + 1)
          /\ next <= first
          /\ cachedBlocks = Len(pcm)
    /\ ~isCachedChunk =>
          /\ next >= first
          /\ at \in {"loop", "single", "done"} => Len(pcm) - cachedBlocks = next - first
    /\ at \in {"loop", "done"} /\ ~isCachedChunk => next > first

\* From the a-th to the b-th, frames follow each other without a gap.
Contiguous(a, b) == \A j, k \in a .. b : received[k] - received[j] = k - j

\* The frames of a chunk are contiguous, and so are the cached ones.
TimeInv ==
    /\ Contiguous(first, Len(received))
    /\ at \in {"loop", "single", "done"} =>
          /\ next - Len(pcm) >= 1 /\ first <= Len(received)
          /\ \A k \in 1 .. Len(pcm) : pcm[k] = received[next - Len(pcm) + k - 1]
          /\ Contiguous(next - Len(pcm), first - 1)
    /\ at \in {"loop", "single"} => timestamp = received[first]
    /\ at = "done" => timestamp = received[first] - cachedBlocks

Inv == TypeOK /\ CountInv /\ ChunkInv /\ TimeInv

----------------------------------------------------------------------------
(* Every action keeps the invariant                                        *)

\* The initial states satisfy the invariant.
LEMMA InvInit == Init => Inv
<1> SUFFICES ASSUME Init PROVE Inv
    OBVIOUS
<1>1. received = <<>> /\ received \in Seq(Nat) /\ pcm \in Seq(Nat) /\ Len(received) = 0 /\ Len(pcm) = 0
    BY EmptySeq DEF Init
<1>2. TypeOK
  <2>1. header \in BOOLEAN /\ isCachedChunk \in BOOLEAN
      BY Zenon DEF Init
  <2> QED
      BY <1>1, <2>1 DEF Init, TypeOK
<1>3. CountInv /\ ChunkInv
    BY <1>1 DEF Init, CountInv, ChunkInv
<1>4. TimeInv
    BY <1>1 DEF Init, TimeInv, Contiguous
<1> QED
    BY <1>2, <1>3, <1>4 DEF Inv

\* The metadata keeps the invariant: no chunk has come.
LEMMA MetadataInv ==
    ASSUME Inv, ReadHeader \/ EndOfMetadata
    PROVE  Inv'
<1>1. TypeOK'
    BY DEF Inv, ReadHeader, EndOfMetadata, TypeOK
<1>2. CountInv' /\ ChunkInv'
    BY DEF Inv, ReadHeader, EndOfMetadata, CountInv, ChunkInv
<1>3. TimeInv'
    BY DEF Inv, ReadHeader, EndOfMetadata, CountInv, TimeInv, Contiguous
<1> QED
    BY <1>1, <1>2, <1>3 DEF Inv

\* A chunk behind the frames received so far.
LEMMA Extended ==
    ASSUME NEW s \in Seq(Nat), NEW n \in Nat, NEW t \in Nat
    PROVE  /\ s \o [k \in 1 .. n |-> t + k - 1] \in Seq(Nat)
           /\ Len(s \o [k \in 1 .. n |-> t + k - 1]) = Len(s) + n
           /\ \A k \in 1 .. Len(s) : (s \o [m \in 1 .. n |-> t + m - 1])[k] = s[k]
           /\ \A k \in 1 .. n : (s \o [m \in 1 .. n |-> t + m - 1])[Len(s) + k] = t + k - 1
<1> DEFINE r == [k \in 1 .. n |-> t + k - 1]
<1>1. r \in Seq(Nat) /\ Len(r) = n /\ \A k \in 1 .. n : r[k] = t + k - 1
    OBVIOUS
<1> HIDE DEF r
<1>2. /\ s \o r \in Seq(Nat) /\ Len(s \o r) = Len(s) + n
      /\ \A k \in 1 .. Len(s) : (s \o r)[k] = s[k]
      /\ \A k \in 1 .. n : (s \o r)[Len(s) + k] = r[k]
  <2>1. \A k \in Len(s) + 1 .. Len(s) + Len(r) : (s \o r)[k] = r[k - Len(s)]
      BY <1>1, ConcatProperties
  <2>2. ASSUME NEW k \in 1 .. n PROVE (s \o r)[Len(s) + k] = r[k]
    <3>1. Len(s) + k \in Len(s) + 1 .. Len(s) + Len(r) /\ (Len(s) + k) - Len(s) = k
        BY <1>1
    <3> QED
        BY <2>1, <3>1
  <2>3. s \o r \in Seq(Nat) /\ Len(s \o r) = Len(s) + Len(r)
      BY <1>1, ConcatProperties
  <2>4. \A k \in 1 .. Len(s) : (s \o r)[k] = s[k]
      BY <1>1, ConcatProperties
  <2> QED
      BY <1>1, <2>2, <2>3, <2>4
<1> QED
    BY <1>1, <1>2 DEF r

\* A chunk that arrives keeps the invariant.
LEMMA DecodeInv ==
    ASSUME Inv, NEW n \in ChunkSizes, NEW gap \in Gaps, Decode(n, gap)
    PROVE  Inv'
<1> DEFINE t == EndTime + gap
<1>1. n \in Nat \ {0} /\ gap \in Nat
    BY FlacAssumption
<1>2. received \in Seq(Nat) /\ pcm' = <<>> /\ pcm' \in Seq(Nat) /\ Len(pcm') = 0
    BY EmptySeq DEF Inv, TypeOK, Decode
<1>3. EndTime \in Nat /\ t \in Nat
    BY <1>1, <1>2 DEF EndTime
<1>4. received' = received \o [k \in 1 .. n |-> t + k - 1]
    BY DEF Decode
<1> HIDE DEF t
<1>5. /\ received' \in Seq(Nat) /\ Len(received') = Len(received) + n
      /\ \A k \in 1 .. Len(received) : received'[k] = received[k]
      /\ \A k \in 1 .. n : received'[Len(received) + k] = t + k - 1
    BY <1>1, <1>2, <1>3, <1>4, Extended
<1>6. timestamp' = t /\ received'[first'] = t /\ first' = Len(received) + 1
    BY <1>1, <1>3, <1>5 DEF Decode, t
<1>7. TypeOK'
    BY <1>1, <1>2, <1>3, <1>5, <1>6 DEF Inv, TypeOK, Decode
<1>0. /\ Len(received) \in Nat /\ next \in Nat \ {0} /\ first \in Nat \ {0} /\ bitreader \in Nat
      /\ half \in Nat
    BY DEF Inv, TypeOK
<1>00. /\ flacChunk' = 2 * n /\ at' = "loop" /\ at = "idle" /\ isCachedChunk' = TRUE
       /\ cachedBlocks' = 0 /\ next' = next /\ bitreader' = bitreader /\ half' = half
       /\ state' = state
    BY DEF Decode
<1>8. CountInv'
  <2>1. bitreader + 0 + half = 2 * (Len(received) - next + 1) /\ state # "metadata"
        /\ state # "end_of_stream" /\ (state # "read_frame" => half = 0) /\ state # "read_frame"
      BY <1>00 DEF Inv, CountInv
  <2>2. bitreader + 2 * n + half = 2 * ((Len(received) + n) - next + 1)
      BY <2>1, <1>0, <1>1
  <2> QED
      BY <2>1, <2>2, <1>00, <1>5 DEF CountInv
<1>9. ChunkInv'
    BY <1>0, <1>00, <1>1, <1>2, <1>5, <1>6 DEF Inv, CountInv, ChunkInv
<1>10. TimeInv'
  <2>1. Contiguous(first, Len(received))'
    <3>1. ASSUME NEW j \in first' .. Len(received') PROVE received'[j] = t + j - first'
      <4>1. j - Len(received) \in 1 .. n /\ Len(received) + (j - Len(received)) = j
          BY <1>1, <1>2, <1>5, <1>6
      <4> QED
          BY <4>1, <1>2, <1>3, <1>5, <1>6
    <3> QED
      <4> SUFFICES ASSUME NEW j \in first' .. Len(received'), NEW k \in first' .. Len(received')
                   PROVE  received'[k] - received'[j] = k - j
          BY DEF Contiguous
      <4>1. received'[j] = t + j - first' /\ received'[k] = t + k - first'
          BY <3>1
      <4>2. first' \in Nat /\ Len(received') \in Nat
          BY <1>0, <1>1, <1>5, <1>6
      <4>3. j \in Int /\ k \in Int /\ first' \in Int /\ t \in Int
          BY <4>2, <1>3
      <4>4. \A a, b, c, d \in Int : (c + b - d) - (c + a - d) = b - a
          OBVIOUS
      <4>5. (t + k - first') - (t + j - first') = k - j
          BY <4>3, <4>4, ZenonT(40)
      <4> QED
          BY <4>1, <4>5, Zenon
  <2>2. Contiguous(next, first - 1)' /\ next' = next
    <3>1. next >= first /\ Contiguous(first, Len(received))
        BY DEF Inv, ChunkInv, CountInv, TimeInv, Decode
    <3>2. \A j \in next .. Len(received) : j \in first .. Len(received) /\ received'[j] = received[j]
        BY <3>1, <1>0, <1>5
    <3>3. first' - 1 = Len(received)
        BY <1>0, <1>6
    <3> QED
      <4>1. ASSUME NEW j \in next .. Len(received), NEW k \in next .. Len(received)
            PROVE  received'[k] - received'[j] = k - j
          BY <3>1, <3>2 DEF Contiguous
      <4>2. \A j, k \in next' .. first' - 1 : received'[k] - received'[j] = k - j
          BY <4>1, <3>3, <1>00
      <4> QED
          BY <4>2, <1>00 DEF Contiguous
  <2>3. next' - Len(pcm') >= 1 /\ first' <= Len(received') /\ at' = "loop" /\ next' - Len(pcm') = next
      BY <1>0, <1>00, <1>1, <1>2, <1>5, <1>6
  <2>4. \A k \in 1 .. Len(pcm') : FALSE
      BY <1>2
  <2>5. Contiguous(next - Len(pcm), first - 1)'
    <3>1. next' - Len(pcm') = next'
        BY <2>2, <2>3
    <3>2. \A j, k \in next' .. first' - 1 : received'[k] - received'[j] = k - j
        BY <2>2 DEF Contiguous
    <3>3. \A j, k \in next' - Len(pcm') .. first' - 1 : received'[k] - received'[j] = k - j
        BY <3>1, <3>2
    <3> QED
        BY <3>3 DEF Contiguous
  <2> QED
      BY <2>1, <2>3, <2>4, <2>5, <1>6, <1>00 DEF TimeInv, Contiguous
<1> QED
    BY <1>7, <1>8, <1>9, <1>10 DEF Inv

\* A call that decodes keeps the invariant: something is left of a frame.
LEMMA CallSingleInv ==
    ASSUME Inv, CallSingle
    PROVE  Inv'
BY DEF Inv, CallSingle, Loops, TypeOK, CountInv, ChunkInv, TimeInv, Contiguous

\* The end of the loop keeps the invariant: the timestamp is moved back.
LEMMA LeaveLoopInv ==
    ASSUME Inv, LeaveLoop
    PROVE  Inv'
<1>1. TypeOK' /\ CountInv' /\ ChunkInv'
    BY DEF Inv, LeaveLoop, Loops, MovedBack, TypeOK, CountInv, ChunkInv
<1>2. TimeInv'
    BY DEF Inv, LeaveLoop, Loops, MovedBack, TypeOK, TimeInv, Contiguous
<1> QED
    BY <1>1, <1>2 DEF Inv

\* Handing the chunk over keeps the invariant.
LEMMA ReturnInv ==
    ASSUME Inv, Return
    PROVE  Inv'
BY DEF Inv, Return, TypeOK, CountInv, ChunkInv, TimeInv, Contiguous

\* A read finds something of the chunk, and then nothing of an older one is
\* left.
LEMMA ReadCallbackInv ==
    ASSUME Inv, ReadCallback
    PROVE  Inv'
<1> DEFINE data == Minimum(Capacity, flacChunk)
<1>1. data \in 0 .. flacChunk /\ (flacChunk > 0 => data > 0)
    BY FlacAssumption DEF Minimum, Inv, TypeOK
<1>2. flacChunk > 0
    BY DEF Inv, TypeOK, CountInv, ReadCallback, Wants
<1>3. /\ bitreader' = data /\ flacChunk' = flacChunk - data /\ data > 0
      /\ isCachedChunk' = FALSE /\ bitreader = 0 /\ at = "single"
      /\ UNCHANGED <<at, state, header, half, cachedBlocks, timestamp, pcm, received, next, first>>
    BY <1>1, <1>2 DEF ReadCallback, Wants
<1>4. state = "frame_sync" \/ (state = "read_frame" /\ half < 2)
    BY DEF ReadCallback, Wants
<1> HIDE DEF data
<1>5. isCachedChunk => next = first
    BY <1>3, <1>4 DEF Inv, TypeOK, CountInv, ChunkInv
<1>6. /\ flacChunk \in Nat /\ data \in Nat /\ next \in Nat /\ first \in Nat /\ half \in Nat
      /\ Len(received) \in Nat
    BY <1>1 DEF Inv, TypeOK
<1>7. TypeOK'
  <2>1. bitreader' \in Nat /\ flacChunk' \in Nat
      BY <1>1, <1>3, <1>6
  <2> QED
      BY <2>1, <1>3 DEF Inv, TypeOK
<1>8. CountInv'
    BY <1>3, <1>6 DEF Inv, CountInv
<1>9. TimeInv'
    BY <1>3 DEF Inv, TimeInv, Contiguous
<1>10. ChunkInv'
    BY <1>3, <1>5, <1>6 DEF Inv, ChunkInv
<1> QED
    BY <1>7, <1>8, <1>9, <1>10 DEF Inv

\* Reading a frame keeps the invariant.
LEMMA ReadFrameInv ==
    ASSUME Inv, FrameSync \/ ReadFrame
    PROVE  Inv'
<1>1. CASE FrameSync
    BY <1>1 DEF Inv, FrameSync, TypeOK, CountInv, ChunkInv, TimeInv, Contiguous
<1>2. CASE ReadFrame
  <2>1. TypeOK' /\ CountInv'
      BY SMTT(30), <1>2 DEF Inv, ReadFrame, TypeOK, CountInv
  <2>2. ChunkInv' /\ TimeInv'
      BY <1>2 DEF Inv, ReadFrame, ChunkInv, TimeInv, Contiguous
  <2> QED
      BY <2>1, <2>2 DEF Inv
<1> QED
    BY <1>1, <1>2

\* A decoded block comes behind the others.
LEMMA WriteCallbackInv ==
    ASSUME Inv, WriteCallback
    PROVE  Inv'
<1>1. next \in 1 .. Len(received) /\ received[next] \in Nat /\ pcm \in Seq(Nat)
    BY DEF Inv, TypeOK, CountInv, WriteCallback
<1>2. /\ pcm' = Append(pcm, received[next]) /\ pcm' \in Seq(Nat) /\ Len(pcm') = Len(pcm) + 1
      /\ \A k \in 1 .. Len(pcm) : pcm'[k] = pcm[k]
      /\ pcm'[Len(pcm')] = received[next]
    BY <1>1 DEF WriteCallback
<1>3. TypeOK'
    BY <1>1, <1>2 DEF Inv, TypeOK, WriteCallback
<1>0. /\ flacChunk \in Nat /\ bitreader \in Nat /\ first \in Nat /\ Len(received) \in Nat
      /\ next \in Nat /\ cachedBlocks \in Nat /\ Len(pcm) \in Nat
    BY DEF Inv, TypeOK
<1>4. CountInv'
  <2>1. bitreader + flacChunk + 2 = 2 * (Len(received) - next + 1)
      BY DEF Inv, CountInv, WriteCallback
  <2>2. /\ next' = next + 1 /\ half' = 0 /\ at' = "loop" /\ state' = "frame_sync"
        /\ UNCHANGED <<flacChunk, bitreader, received>>
      BY DEF WriteCallback
  <2>3. bitreader + flacChunk + 0 = 2 * (Len(received) - (next + 1) + 1)
      BY <2>1, <1>0
  <2> QED
      BY <2>2, <2>3 DEF CountInv
<1>5. ChunkInv'
  <2>1. next' = next + 1 /\ half' = 0 /\ half = 2 /\ at' = "loop" /\ at = "single"
        /\ UNCHANGED <<flacChunk, isCachedChunk, received, first>>
        /\ cachedBlocks' = IF isCachedChunk THEN cachedBlocks + 1 ELSE cachedBlocks
      BY DEF WriteCallback
  <2>2. bitreader + flacChunk + 2 = 2 * (Len(received) - next + 1)
      BY <2>1 DEF Inv, CountInv
  <2>3. CASE isCachedChunk
    <3>1. next < first
        BY <1>0, <2>2, <2>3 DEF Inv, ChunkInv
    <3> QED
        BY <3>1, <1>0, <1>2, <2>1, <2>3 DEF Inv, ChunkInv
  <2>4. CASE ~isCachedChunk
    <3>1. next >= first /\ Len(pcm) - cachedBlocks = next - first
        BY <2>1, <2>4 DEF Inv, ChunkInv
    <3>2. next + 1 > first /\ (Len(pcm) + 1) - cachedBlocks = (next + 1) - first
        BY <3>1, <1>0
    <3>3. first <= Len(received) + 1
        BY DEF Inv, ChunkInv
    <3> QED
        BY <3>2, <3>3, <1>0, <1>2, <2>1, <2>4 DEF ChunkInv
  <2> QED
      BY <2>3, <2>4 DEF Inv, TypeOK
<1>6. TimeInv'
  <2>1. next' - Len(pcm') = next - Len(pcm) /\ at = "single" /\ at' = "loop"
        /\ UNCHANGED <<received, first, timestamp>>
      BY <1>1, <1>2 DEF WriteCallback, Inv, TypeOK
  <2>2. ASSUME NEW k \in 1 .. Len(pcm') PROVE pcm'[k] = received[next - Len(pcm) + k - 1]
    <3>1. CASE k \in 1 .. Len(pcm)
        BY <3>1, <2>1, <1>2 DEF Inv, TimeInv
    <3>2. CASE k = Len(pcm) + 1
        BY <3>2, <1>1, <1>2
    <3> QED
        BY <3>1, <3>2, <1>1, <1>2
  <2> QED
      BY <2>1, <2>2 DEF Inv, TimeInv, Contiguous
<1> QED
    BY <1>3, <1>4, <1>5, <1>6 DEF Inv

\* Every step keeps the invariant.
LEMMA InvNext == Inv /\ [Next]_vars => Inv'
<1> SUFFICES ASSUME Inv, [Next]_vars PROVE Inv'
    OBVIOUS
<1>1. CASE UNCHANGED vars
    BY <1>1 DEF vars, Inv, TypeOK, CountInv, ChunkInv, TimeInv, Contiguous
<1>2. CASE Step
    BY <1>2, MetadataInv, CallSingleInv, LeaveLoopInv, ReadCallbackInv, ReadFrameInv,
       WriteCallbackInv DEF Step
<1>3. CASE Return \/ (\E n \in ChunkSizes, gap \in Gaps : Decode(n, gap))
    BY <1>3, ReturnInv, DecodeInv
<1> QED
    BY <1>1, <1>2, <1>3 DEF Next

----------------------------------------------------------------------------
(* The theorems                                                            *)

\* The invariant holds in every state of every behaviour.
LEMMA InvHolds == Spec => []Inv
<1> QED
    BY InvInit, InvNext, PTL DEF Spec

\* Every variable has its type.
THEOREM TypeCorrect == Spec => []TypeOK
<1>1. Inv => TypeOK
    BY DEF Inv
<1> QED
    BY <1>1, InvHolds, PTL

\* The stream decoder never takes the end of a chunk for the end of the stream:
\* decode() never hangs, however many bytes the bitreader holds.
THEOREM NeverEndsHolds == Spec => []NeverEnds
<1>1. Inv => NeverEnds
    BY DEF Inv, CountInv, NeverEnds
<1> QED
    BY <1>1, InvHolds, PTL

\* Every decoded chunk has the timestamp of its first block, whatever was left
\* over from the chunk before it.
THEOREM StampExactHolds == Spec => []StampExact
<1>1. Inv => StampExact
  <2> SUFFICES ASSUME Inv, at = "done" PROVE StampExact
      BY DEF StampExact
  <2> DEFINE start == next - Len(pcm)
  <2>1. /\ Len(pcm) \in Nat /\ first \in Nat \ {0} /\ next \in Nat \ {0} /\ cachedBlocks \in Nat
        /\ received \in Seq(Nat)
      BY DEF Inv, TypeOK
  <2>2. /\ ~isCachedChunk /\ next > first /\ Len(pcm) - cachedBlocks = next - first
        /\ next <= Len(received) + 1
      BY DEF Inv, TypeOK, CountInv, ChunkInv
  <2>3. /\ start >= 1 /\ start + cachedBlocks = first /\ cachedBlocks < Len(pcm)
        /\ \A k \in 1 .. Len(pcm) : pcm[k] = received[start + k - 1]
        /\ Contiguous(start, first - 1) /\ Contiguous(first, Len(received))
        /\ timestamp = received[first] - cachedBlocks
      BY <2>1, <2>2 DEF Inv, TimeInv
  <2> HIDE DEF start
  <2>4. start \in Int
      BY <2>1 DEF start
  <2>5. ASSUME NEW k \in 1 .. Len(pcm), k > cachedBlocks PROVE pcm[k] = timestamp + k - 1
    <3>1. start + k - 1 \in first .. Len(received) /\ first \in first .. Len(received)
        BY SMTT(30), <2>1, <2>2, <2>3, <2>4, <2>5
    <3>2. received[start + k - 1] - received[first] = (start + k - 1) - first
        BY <3>1, <2>3 DEF Contiguous
    <3>3. pcm[k] = received[start + k - 1] /\ received[start + k - 1] \in Nat /\ received[first] \in Nat
      <4>1. first \in 1 .. Len(received) /\ start + k - 1 \in 1 .. Len(received)
          BY <3>1, <2>1
      <4>2. pcm[k] = received[start + k - 1]
          BY <2>3
      <4>3. \A m \in 1 .. Len(received) : received[m] \in Nat
          BY <2>1
      <4> QED
          BY <4>1, <4>2, <4>3
    <3>4. (start + k - 1) - first = k - 1 - cachedBlocks
        BY <2>1, <2>3, <2>4
    <3>5. pcm[k] = received[first] + (k - 1 - cachedBlocks)
        BY <3>2, <3>3, <3>4, <2>1
    <3> QED
        BY <3>3, <3>5, <2>1, <2>3
  <2>6. ASSUME NEW k \in 1 .. Len(pcm), k <= cachedBlocks, received[first] = pcm[cachedBlocks] + 1
        PROVE  pcm[k] = timestamp + k - 1
    <3>1. /\ start + k - 1 \in start .. first - 1 /\ first - 1 \in start .. first - 1
          /\ cachedBlocks \in 1 .. Len(pcm) /\ start + cachedBlocks - 1 = first - 1
          /\ start + k - 1 \in 1 .. Len(received) /\ first - 1 \in 1 .. Len(received)
          /\ first \in 1 .. Len(received)
      <4>1. /\ start >= 1 /\ start + cachedBlocks = first /\ cachedBlocks < Len(pcm)
            /\ k \in Nat /\ k >= 1 /\ k <= cachedBlocks /\ next > first /\ next <= Len(received) + 1
            /\ Len(received) \in Nat
          BY <2>1, <2>2, <2>3, <2>6
      <4> QED
          BY <4>1, <2>1, <2>4
    <3>2. received[first - 1] - received[start + k - 1] = (first - 1) - (start + k - 1)
        BY <3>1, <2>3 DEF Contiguous
    <3>3. pcm[cachedBlocks] = received[first - 1] /\ pcm[k] = received[start + k - 1]
        BY <3>1, <2>3
    <3>4. received[start + k - 1] \in Nat /\ received[first] \in Nat /\ received[first - 1] \in Nat
        BY SMTT(30), <3>1, <2>1
    <3>5. (first - 1) - (start + k - 1) = cachedBlocks - k
        BY <2>1, <2>3, <2>4
    <3>6. received[first] = received[first - 1] + 1
        BY <3>3, <2>6
    <3>7. received[start + k - 1] = received[first] - cachedBlocks + k - 1
      <4>1. \A a, b, l, m \in Int : b - a = l - m => a = (b + 1) - l + m - 1
          OBVIOUS
      <4>2. received[first - 1] - received[start + k - 1] = cachedBlocks - k
          BY <3>2, <3>5
      <4>3. cachedBlocks \in Int /\ k \in Int
          BY <2>1
      <4> QED
          BY <4>1, <4>2, <4>3, <3>4, <3>6
    <3> QED
        BY <3>3, <3>7, <2>3
  <2>7. pcm # <<>>
      BY <2>1, <2>3
  <2> QED
      BY <2>1, <2>3, <2>5, <2>6, <2>7 DEF StampExact
<1> QED
    BY <1>1, InvHolds, PTL

----------------------------------------------------------------------------
(* The decoder within the player                                           *)

\* Playing is a behaviour of the decoder: what fills the buffers leaves it alone.
THEOREM ImplementsDecoder == PlaybackSpec => Spec
<1>1. PlaybackInit => Init
    BY DEF PlaybackInit
<1>2. [PlaybackNext]_playbackVars => [Next]_vars
  <2> SUFFICES ASSUME [PlaybackNext]_playbackVars PROVE [Next]_vars
      OBVIOUS
  <2>1. CASE UNCHANGED playbackVars
      BY <2>1 DEF playbackVars
  <2>2. CASE \E n \in ChunkSizes, gap \in Gaps : ChunkArrives(n, gap)
      BY <2>2 DEF ChunkArrives, Next
  <2>3. CASE DecodeStep
      BY <2>3 DEF DecodeStep, Next
  <2>4. CASE ChunkDecoded
      BY <2>4 DEF ChunkDecoded, Next
  <2>5. CASE BufferPlayed \/ (\E d \in Jumps : TimeAnswered(d))
      BY <2>5 DEF BufferPlayed, TimeAnswered
  <2> QED
      BY <2>1, <2>2, <2>3, <2>4, <2>5 DEF PlaybackNext
<1> QED
    BY <1>1, <1>2, PTL DEF PlaybackSpec, Spec

\* While it plays, no chunk is taken for the end of the stream.
THEOREM NeverEndsInPlayback == PlaybackSpec => []NeverEnds
<1> QED
    BY ImplementsDecoder, NeverEndsHolds, PTL

\* While it plays, every chunk that addChunk() gets has the right timestamp.
THEOREM StampExactInPlayback == PlaybackSpec => []StampExact
<1> QED
    BY ImplementsDecoder, StampExactHolds, PTL

----------------------------------------------------------------------------
(* Soft synchronisation                                                    *)

\* What a quotient is, for any positive divisor.
LEMMA DivBounds ==
    ASSUME NEW a \in Nat, NEW b \in Nat \ {0}
    PROVE  /\ a \div b \in Nat
           /\ (a \div b) * b <= a
           /\ a < (a \div b + 1) * b
<1>1. a \div b \in Int
    OBVIOUS
<1>2. b * (a \div b) <= a
    OBVIOUS
<1>3. a < b * (a \div b + 1)
    OBVIOUS
<1>4. a \div b >= 0
    BY <1>1, <1>3
<1> QED
    BY <1>1, <1>2, <1>3, <1>4

\* A quotient is the only number that is one.
LEMMA DivUnique ==
    ASSUME NEW a \in Nat, NEW b \in Nat \ {0}, NEW q \in Nat, q * b <= a, a < (q + 1) * b
    PROVE  a \div b = q
BY DivBounds

\* Ceil rounds up.
LEMMA CeilBounds ==
    ASSUME NEW a \in Nat \ {0}, NEW b \in Nat \ {0}
    PROVE  /\ Ceil(a, b) \in Nat \ {0}
           /\ a <= Ceil(a, b) * b
           /\ Ceil(a, b) * b <= a + b - 1
           /\ Ceil(a, b) <= a
BY DivBounds DEF Ceil

\* A buffer is corrected by what is read more or less: with a frame dropped or
\* inserted after every n-th of r, there are a of them, unless the last of them
\* would come right at the end of the r frames.
LEMMA CorrectionCount ==
    ASSUME NEW r \in Nat \ {0}, NEW a \in Nat \ {0}, a * a <= r
    PROVE  r \div Ceil(r, a + 1) = IF Ceil(r, a + 1) * (a + 1) = r THEN a + 1 ELSE a
<1> DEFINE n == Ceil(r, a + 1)
<1>1. n \in Nat \ {0} /\ r <= n * (a + 1) /\ n * (a + 1) <= r + a
    BY CeilBounds
<1> HIDE DEF n
<1>2. CASE n * (a + 1) = r
  <2>1. (a + 1) * n <= r /\ r < (a + 2) * n
      BY <1>1, <1>2
  <2> QED
      BY <1>1, <1>2, <2>1, DivUnique DEF n
<1>3. CASE n * (a + 1) # r
  <2>1. r < (a + 1) * n
      BY <1>1, <1>3
  <2>2. n >= a
    <3>1. SUFFICES ASSUME n <= a - 1 PROVE FALSE
        BY <1>1
    <3>2. (a + 1) * n <= (a + 1) * (a - 1)
        BY <1>1, <3>1
    <3>3. (a + 1) * (a - 1) = a * a - 1
        OBVIOUS
    <3> QED
        BY <1>1, <2>1, <3>2, <3>3
  <2>3. a * n <= r
    <3>1. a * n + n <= r + a
        BY <1>1
    <3> QED
        BY <1>1, <2>2, <3>1
  <2> QED
      BY <1>1, <1>3, <2>1, <2>3, DivUnique DEF n
<1> QED
    BY <1>2, <1>3 DEF n

\* Soft synchronisation fills a buffer to its end and no further: after the
\* frames it reads, the place is the end of the buffer, for every rate and
\* buffer length at which the frames read cannot be cut into |add| + 1 equal
\* parts.
THEOREM BufferFilledExactly ==
    ASSUME NEW add \in Int \ {0}, Frames + add > 0,
           Absolute(add) * Absolute(add) <= Frames + add,
           Ceil(Frames + add, Absolute(add) + 1) * (Absolute(add) + 1) # Frames + add
    PROVE  Place(0, add, Frames + add + 1) = Frames
<1> DEFINE r == Frames + add
           a == Absolute(add)
<1>1. Frames \in Nat /\ r \in Nat \ {0} /\ a \in Nat \ {0}
    BY AudioAssumption DEF Absolute
<1>2. r \div Ceil(r, a + 1) = a
    BY <1>1, CorrectionCount
<1>3. Corrections(add, r + 1) = IF add > 0 THEN -a ELSE a
  <2>1. (r + 1) - 1 = r
      BY <1>1
  <2> QED
      BY <1>2, <2>1 DEF Corrections
<1> QED
    BY <1>1, <1>3 DEF Place, Absolute

\* Where they can be cut so (as for 2562 frames at 32 kHz), there is one correction
\* too many, right at the end, and it does no harm: the frame that it drops keeps
\* the last place of the buffer, the one that it inserts lies behind the end.
THEOREM OneCorrectionTooMany ==
    ASSUME NEW add \in Int \ {0}, Frames + add > 0,
           Absolute(add) * Absolute(add) <= Frames + add,
           Ceil(Frames + add, Absolute(add) + 1) * (Absolute(add) + 1) = Frames + add
    PROVE  Place(0, add, Frames + add + 1) = IF add > 0 THEN Frames - 1 ELSE Frames + 1
<1> DEFINE r == Frames + add
           a == Absolute(add)
<1>1. Frames \in Nat /\ r \in Nat \ {0} /\ a \in Nat \ {0}
    BY AudioAssumption DEF Absolute
<1>2. r \div Ceil(r, a + 1) = a + 1
    BY <1>1, CorrectionCount
<1>3. Corrections(add, r + 1) = IF add > 0 THEN -(a + 1) ELSE a + 1
  <2>1. (r + 1) - 1 = r
      BY <1>1
  <2> QED
      BY <1>2, <2>1 DEF Corrections
<1> QED
    BY <1>1, <1>3 DEF Place, Absolute

\* Soft synchronisation comes closer: what it adds makes the stream neither later
\* than it was nor early (nor, if it was early, late), and does something unless
\* the difference is a tenth of a millisecond.
THEOREM SoftSyncApproaches ==
    ASSUME NEW age \in Int
    PROVE  /\ AddFrames(age) \in Int
           /\ age >= 0 => AddFrames(age) \in 0 .. age
           /\ age <= 0 => AddFrames(age) \in age .. 0
           /\ 10 * Absolute(age) > MsRate => AddFrames(age) # 0
<1>1. MsRate \in Nat \ {0}
    BY AudioAssumption
<1>2. age > 0 => Ceil(age, MsRate) \in 1 .. age
    BY <1>1, CeilBounds
<1>3. age < 0 => Ceil(-age, MsRate) \in 1 .. -age
    BY <1>1, CeilBounds
<1> QED
    BY <1>1, <1>2, <1>3 DEF AddFrames, Absolute
----------------------------------------------------------------------------
(* Frames of a queue                                                       *)

\* Every set of numbers has a least one: what the inductions below rest on.
LEMMA LeastNumber ==
    ASSUME NEW T \in SUBSET Nat, T # {}
    PROVE  \E m \in T : \A n \in T : m <= n
<1>1. PICK m \in T : \A n \in T : ~(<<n, m>> \in OpToRel(<, Nat))
    BY NatLessThanWellFounded, WFMin
<1>2. ASSUME NEW n \in T PROVE m <= n
  <2>1. SUFFICES ASSUME n < m PROVE FALSE
      OBVIOUS
  <2>2. <<n, m>> \in OpToRel(<, Nat)
      BY <2>1 DEF OpToRel
  <2> QED
      BY <1>1, <2>2
<1> QED
    BY <1>2

\* There is a function that adds up r[1], r[2] and so on.
LEMMA SumsExist ==
    ASSUME NEW L \in Nat, NEW r
    PROVE  \E f : f = [k \in 0 .. L |-> IF k = 0 THEN 0 ELSE f[k - 1] + r[k]]
<1> DEFINE Adds(f, n) == f = [k \in 0 .. n |-> IF k = 0 THEN 0 ELSE f[k - 1] + r[k]]
           T == {n \in Nat : ~(\E f : Adds(f, n))}
<1>1. SUFFICES ASSUME T # {} PROVE FALSE
    OBVIOUS
<1>2. PICK m \in T : \A n \in T : m <= n
  <2>1. T \in SUBSET Nat
      OBVIOUS
  <2> HIDE DEF T
  <2> QED
      BY <1>1, <2>1, LeastNumber
<1>3. m # 0
  <2>1. Adds([k \in 0 .. 0 |-> 0], 0)
      OBVIOUS
  <2> QED
      BY <1>2, <2>1
<1>4. PICK f : Adds(f, m - 1)
  <2>1. m - 1 \in Nat /\ m - 1 \notin T
    <3>1. m \in Nat \ {0}
        BY <1>3
    <3> HIDE DEF T
    <3> QED
        BY <1>2, <3>1
  <2> HIDE DEF Adds
  <2> QED
      BY <2>1
<1> DEFINE g == [k \in 0 .. m |-> IF k = m THEN f[m - 1] + r[m] ELSE f[k]]
<1>5. m \in Nat \ {0}
    BY <1>3
<1>6. ASSUME NEW k \in 0 .. m PROVE g[k] = IF k = 0 THEN 0 ELSE g[k - 1] + r[k]
  <2>1. CASE k = m
      BY <1>5, <2>1
  <2>2. CASE k # m
    <3>1. k \in 0 .. m - 1 /\ g[k] = f[k] /\ (k # 0 => g[k - 1] = f[k - 1])
        BY <1>5, <2>2
    <3>2. f[k] = IF k = 0 THEN 0 ELSE f[k - 1] + r[k]
        BY <1>4, <3>1
    <3> QED
        BY <3>1, <3>2
  <2> QED
      BY <2>1, <2>2
<1>7. Adds(g, m)
    BY <1>6
<1> QED
    BY <1>2, <1>7

Chunks == [time : Int, blocks : Seq(Int), idx : Nat]

\* A chunk whose blocks follow each other from its timestamp on.
Whole(c) ==
    /\ c \in Chunks
    /\ c.idx <= Len(c.blocks) * BlockSize
    /\ \A k \in 1 .. Len(c.blocks) : c.blocks[k] = c.time + (k - 1) * BlockSize

WholeQueue(q) == q \in Seq(Chunks) /\ \A k \in 1 .. Len(q) : Whole(q[k])

EndTimeOf(c) == StartTime(c) + Remaining(c)

\* From the m-th on, each chunk of q ends where the next one begins, and the
\* last ends at e.
ChainFrom(q, m, e) ==
    \A k \in m .. Len(q) : EndTimeOf(q[k]) = IF k = Len(q) THEN e ELSE StartTime(q[k + 1])

Chain(q, e) == ChainFrom(q, 1, e)

\* Times and lengths are numbers.
LEMMA WholeFacts ==
    ASSUME NEW c, Whole(c)
    PROVE  /\ StartTime(c) \in Int /\ Remaining(c) \in Nat /\ EndTimeOf(c) \in Int
           /\ Len(c.blocks) * BlockSize \in Nat
<1>1. c.time \in Int /\ c.idx \in Nat /\ Len(c.blocks) \in Nat /\ BlockSize \in Nat
    BY AudioAssumption DEF Whole, Chunks
<1>2. Len(c.blocks) * BlockSize \in Int
    BY <1>1
<1>3. c.idx <= Len(c.blocks) * BlockSize
    BY DEF Whole
<1>4. StartTime(c) = c.time + c.idx /\ Remaining(c) = Len(c.blocks) * BlockSize - c.idx
    BY DEF StartTime, Remaining
<1> DEFINE f == Len(c.blocks) * BlockSize
<1>5. f \in Nat
  <2> HIDE DEF f
  <2> QED
      BY <1>1, <1>2, <1>3 DEF f
<1> HIDE DEF f
<1>6. StartTime(c) \in Int /\ Remaining(c) \in Nat
    BY <1>1, <1>3, <1>4, <1>5 DEF f
<1> QED
    BY <1>5, <1>6 DEF f, EndTimeOf

\* What is left of a chunk of which n frames are read.
LEMMA ReadFacts ==
    ASSUME NEW c, Whole(c), NEW n \in Nat, n <= Remaining(c)
    PROVE  /\ Whole(Read(c, n))
           /\ StartTime(Read(c, n)) = StartTime(c) + n
           /\ Remaining(Read(c, n)) = Remaining(c) - n
           /\ EndTimeOf(Read(c, n)) = EndTimeOf(c)
<1>1. c.time \in Int /\ c.idx \in Nat /\ Len(c.blocks) * BlockSize \in Nat
    BY WholeFacts DEF Whole, Chunks
<1>2. /\ Read(c, n) \in Chunks
      /\ Read(c, n).time = c.time /\ Read(c, n).blocks = c.blocks /\ Read(c, n).idx = c.idx + n
  <2>1. c \in Chunks
      BY DEF Whole
  <2> QED
      BY <2>1 DEF Chunks, Read
<1>3. c.idx + n <= Len(c.blocks) * BlockSize
    BY <1>1 DEF Remaining
<1> QED
    BY <1>1, <1>2, <1>3 DEF Whole, StartTime, Remaining, EndTimeOf

\* A frame of a chunk is to be heard as many frames after its start as it has
\* frames before it.
LEMMA FrameAtFacts ==
    ASSUME NEW c, Whole(c), NEW n \in Nat, n < Remaining(c)
    PROVE  FrameAt(c, n) = StartTime(c) + n
<1> DEFINE m == c.idx + n
           b == m \div BlockSize
           L == Len(c.blocks)
<1>1. m \in Nat /\ c.time \in Int /\ L \in Nat /\ BlockSize \in Nat \ {0} /\ m < L * BlockSize
    BY WholeFacts, AudioAssumption DEF Whole, Chunks, Remaining
<1>2. b \in Nat /\ b * BlockSize <= m /\ m < (b + 1) * BlockSize
    BY <1>1, DivBounds
<1>3. m % BlockSize = m - b * BlockSize
    BY <1>1
<1>4. b < L
  <2> HIDE DEF b, L, m
  <2>1. SUFFICES ASSUME b >= L PROVE FALSE
      BY <1>1, <1>2
  <2>2. L * BlockSize <= b * BlockSize
      BY <1>1, <1>2, <2>1
  <2> QED
      BY <1>1, <1>2, <2>2
<1>5. c.blocks[b + 1] = c.time + b * BlockSize
  <2>1. b + 1 \in 1 .. L /\ (b + 1) - 1 = b
    <3>1. b \in Nat /\ L \in Nat /\ b < L
        BY <1>1, <1>2, <1>4
    <3> HIDE DEF b, L
    <3> QED
        BY <3>1
  <2> HIDE DEF b
  <2> QED
      BY <2>1 DEF Whole
<1>6. FrameAt(c, n) = c.blocks[b + 1] + (m % BlockSize)
    BY Zenon DEF FrameAt
<1>7. StartTime(c) + n = c.time + m
    BY <1>1 DEF StartTime, Whole, Chunks
<1>8. b * BlockSize \in Int
    BY <1>1, <1>2
<1> HIDE DEF b, m
<1> QED
    BY <1>1, <1>3, <1>5, <1>6, <1>7, <1>8

\* EndOf adds up what remains of the chunks.
LEMMA EndOfFacts ==
    ASSUME NEW q, WholeQueue(q)
    PROVE  /\ EndOf(q)[0] = 0
           /\ \A k \in 1 .. Len(q) : EndOf(q)[k] = EndOf(q)[k - 1] + Remaining(q[k])
           /\ \A k \in 0 .. Len(q) : EndOf(q)[k] \in Nat
<1> DEFINE L == Len(q)
           r == [k \in 1 .. L |-> Remaining(q[k])]
           end == EndOf(q)
<1>1. L \in Nat
    BY DEF WholeQueue
<1>2. PICK f : f = [k \in 0 .. L |-> IF k = 0 THEN 0 ELSE f[k - 1] + r[k]]
  <2> HIDE DEF r
  <2> QED
      BY <1>1, SumsExist
<1>3. f = [k \in 0 .. L |-> IF k = 0 THEN 0 ELSE f[k - 1] + Remaining(q[k])]
  <2>1. \A k \in 0 .. L : k # 0 => r[k] = Remaining(q[k])
      BY <1>1
  <2> HIDE DEF r
  <2> QED
      BY <1>2, <2>1
<1>4. end = [k \in 0 .. L |-> IF k = 0 THEN 0 ELSE end[k - 1] + Remaining(q[k])]
  <2> DEFINE Adds(g) == g = [k \in 0 .. L |-> IF k = 0 THEN 0 ELSE g[k - 1] + Remaining(q[k])]
  <2>1. end = CHOOSE g : Adds(g)
      BY DEF EndOf
  <2>2. Adds(f)
      BY <1>3
  <2> HIDE DEF Adds
  <2>3. Adds(CHOOSE g : Adds(g))
      BY <2>2
  <2> HIDE DEF end
  <2>4. Adds(end)
      BY <2>1, <2>3
  <2> QED
      BY <2>4 DEF Adds
<1> HIDE DEF end
<1>5. end[0] = 0 /\ \A k \in 1 .. L : end[k] = end[k - 1] + Remaining(q[k])
    BY <1>1, <1>4
<1>6. ASSUME NEW T, T = {k \in 0 .. L : end[k] \notin Nat}, T # {} PROVE FALSE
  <2>0. T \in SUBSET Nat
      BY <1>1, <1>6
  <2>1. PICK m \in T : \A n \in T : m <= n
      BY <1>6, <2>0, LeastNumber
  <2>2. m \in 1 .. L /\ m - 1 \notin T
      BY <1>1, <1>5, <1>6, <2>1
  <2>3. end[m - 1] \in Nat /\ Remaining(q[m]) \in Nat
      BY <1>1, <1>6, <2>2, WholeFacts DEF WholeQueue
  <2>4. end[m] \in Nat
      BY <1>5, <2>2, <2>3
  <2> QED
      BY <1>6, <2>1, <2>4
<1> QED
    BY <1>5, <1>6 DEF end

\* In a chain, a chunk starts as many frames after the first as there are before
\* it.
LEMMA EndOfChain ==
    ASSUME NEW q, WholeQueue(q), NEW e, Chain(q, e), q # <<>>
    PROVE  /\ StartTime(q[1]) \in Int
           /\ \A k \in 0 .. Len(q) - 1 : StartTime(q[k + 1]) = StartTime(q[1]) + EndOf(q)[k]
           /\ e = StartTime(q[1]) + EndOf(q)[Len(q)]
<1> DEFINE L == Len(q)
           end == EndOf(q)
           T == {k \in 0 .. L - 1 : StartTime(q[k + 1]) # StartTime(q[1]) + end[k]}
<1>1. L \in Nat \ {0} /\ \A k \in 1 .. L : StartTime(q[k]) \in Int /\ Remaining(q[k]) \in Nat
    BY WholeFacts DEF WholeQueue
<1>2. /\ end[0] = 0 /\ \A k \in 1 .. L : end[k] = end[k - 1] + Remaining(q[k])
      /\ \A k \in 0 .. L : end[k] \in Nat
    BY EndOfFacts
<1>3. \A k \in 1 .. L : StartTime(q[k]) + Remaining(q[k]) = IF k = L THEN e ELSE StartTime(q[k + 1])
    BY DEF Chain, ChainFrom, EndTimeOf
<1> HIDE DEF L, end
<1>4. ASSUME T # {} PROVE FALSE
  <2>1. T \in SUBSET Nat
      BY <1>1
  <2>2. PICK m \in T : \A n \in T : m <= n
    <3> HIDE DEF T
    <3> QED
        BY <1>4, <2>1, LeastNumber
  <2>3. m \in 1 .. L - 1
      BY <1>1, <1>2, <2>2
  <2>4. m - 1 \notin T /\ m - 1 \in 0 .. L - 1 /\ (m - 1) + 1 = m
      BY <1>1, <2>2, <2>3
  <2>5. StartTime(q[m]) = StartTime(q[1]) + end[m - 1]
      BY <2>4
  <2>6. StartTime(q[m]) + Remaining(q[m]) = StartTime(q[m + 1])
      BY <1>1, <1>3, <2>3
  <2>7. end[m] = end[m - 1] + Remaining(q[m]) /\ end[m - 1] \in Nat /\ Remaining(q[m]) \in Nat
      BY <1>1, <1>2, <2>3
  <2>8. StartTime(q[1]) \in Int
      BY <1>1
  <2>9. StartTime(q[m + 1]) = StartTime(q[1]) + end[m]
      BY <2>5, <2>6, <2>7, <2>8
  <2> QED
      BY <2>2, <2>9
<1>5. StartTime(q[L]) = StartTime(q[1]) + end[L - 1]
  <2>1. L - 1 \in 0 .. L - 1 /\ (L - 1) + 1 = L
      BY <1>1
  <2> QED
      BY <1>4, <2>1
<1>6. end[L] = end[L - 1] + Remaining(q[L]) /\ end[L - 1] \in Nat
    BY <1>1, <1>2
<1>7. e = StartTime(q[1]) + end[L]
    BY <1>1, <1>3, <1>5, <1>6
<1>8. \A k \in 0 .. L - 1 : StartTime(q[k + 1]) = StartTime(q[1]) + end[k]
    BY <1>4
<1> QED
    BY <1>1, <1>7, <1>8 DEF L, end

\* The n-th frame of a chain is heard n - 1 frames after its start.
LEMMA FrameOfChain ==
    ASSUME NEW q, WholeQueue(q), NEW e, Chain(q, e), q # <<>>,
           NEW n \in 1 .. EndOf(q)[Len(q)]
    PROVE  FrameOf(q, n) = StartTime(q[1]) + n - 1
<1> DEFINE L == Len(q)
           end == EndOf(q)
           In(j) == j \in 1 .. L /\ end[j - 1] < n /\ n <= end[j]
           k == CHOOSE j \in 1 .. L : end[j - 1] < n /\ n <= end[j]
           T == {j \in 1 .. L : n <= end[j]}
<1>1. /\ L \in Nat \ {0} /\ end[0] = 0
      /\ \A j \in 1 .. L : end[j] = end[j - 1] + Remaining(q[j])
      /\ \A j \in 0 .. L : end[j] \in Nat
    BY EndOfFacts DEF WholeQueue
<1>2. /\ StartTime(q[1]) \in Int
      /\ \A j \in 0 .. L - 1 : StartTime(q[j + 1]) = StartTime(q[1]) + end[j]
    BY EndOfChain
<1>3. n \in Nat \ {0} /\ n <= end[L]
    BY <1>1
<1>f. FrameOf(q, n) = FrameAt(q[k], n - 1 - end[k - 1])
    BY Zenon DEF FrameOf
<1> HIDE DEF L, end
<1>4. \E j : In(j)
  <2>1. T \in SUBSET Nat /\ L \in T
      BY <1>1, <1>3
  <2>2. PICK m \in T : \A j \in T : m <= j
    <3> HIDE DEF T
    <3> QED
        BY <2>1, LeastNumber
  <2>3. m \in 1 .. L /\ n <= end[m]
      OBVIOUS
  <2>4. end[m - 1] < n
    <3>1. CASE m = 1
        BY <1>1, <1>3, <3>1
    <3>2. CASE m > 1
      <4>1. m - 1 \notin T /\ m - 1 \in 1 .. L /\ end[m - 1] \in Nat
          BY <1>1, <2>2, <2>3, <3>2
      <4> QED
          BY <1>3, <4>1
    <3> QED
        BY <2>3, <3>1, <3>2
  <2> QED
      BY <2>3, <2>4
<1>5. In(k)
    BY <1>4
<1> HIDE DEF k
<1>6. k - 1 \in 0 .. L - 1 /\ (k - 1) + 1 = k /\ end[k - 1] \in Nat /\ end[k] \in Nat
    BY <1>1, <1>5
<1>7. n - 1 - end[k - 1] \in Nat /\ n - 1 - end[k - 1] < Remaining(q[k])
  <2>1. end[k] = end[k - 1] + Remaining(q[k]) /\ Remaining(q[k]) \in Nat
      BY <1>1, <1>5, WholeFacts DEF WholeQueue, L
  <2> QED
      BY <1>3, <1>5, <1>6, <2>1
<1>8. FrameAt(q[k], n - 1 - end[k - 1]) = StartTime(q[k]) + (n - 1 - end[k - 1])
    BY <1>5, <1>7, FrameAtFacts DEF WholeQueue, L
<1>9. StartTime(q[k]) = StartTime(q[1]) + end[k - 1]
    BY <1>2, <1>6
<1> QED
    BY <1>2, <1>3, <1>6, <1>8, <1>9, <1>f

\* What follows from the m-th chunk on, with n of its frames read.
Rest(q, m, n) == <<Read(q[m], n)>> \o SubSeq(q, m + 1, Len(q))

\* What follows in a chain, with its first chunk read in part, is a chain.
LEMMA RestOfChain ==
    ASSUME NEW q, WholeQueue(q), NEW e, NEW m \in 1 .. Len(q), ChainFrom(q, m, e),
           NEW n \in Nat, n <= Remaining(q[m])
    PROVE  /\ WholeQueue(Rest(q, m, n)) /\ Chain(Rest(q, m, n), e) /\ Rest(q, m, n) # <<>>
           /\ Len(Rest(q, m, n)) = Len(q) - m + 1
           /\ Rest(q, m, n)[1] = Read(q[m], n)
           /\ \A k \in 2 .. Len(q) - m + 1 : Rest(q, m, n)[k] = q[m + k - 1]
<1> DEFINE r == Rest(q, m, n)
           c == Read(q[m], n)
           L == Len(q)
           s == SubSeq(q, m + 1, L)
<1>1. q \in Seq(Chunks) /\ L \in Nat /\ \A k \in 1 .. L : Whole(q[k]) /\ q[k] \in Chunks
    BY DEF WholeQueue, Whole
<1>2. Whole(c) /\ EndTimeOf(c) = EndTimeOf(q[m])
    BY <1>1, ReadFacts
<1>3. s \in Seq(Chunks) /\ Len(s) = L - m /\ \A k \in 1 .. L - m : s[k] = q[m + k]
  <2>1. CASE m = L
    <3>1. s = <<>>
        BY <1>1, <2>1, SubSeqEmpty
    <3> QED
        BY <1>1, <2>1, <3>1, EmptySeq
  <2>2. CASE m < L
      BY <1>1, <2>2, SubSeqProperties
  <2> QED
      BY <1>1, <2>1, <2>2
<1>4. <<c>> \in Seq(Chunks) /\ Len(<<c>>) = 1 /\ <<c>>[1] = c
    BY <1>2 DEF Whole
<1> HIDE DEF c, s, r
<1>5. /\ r \in Seq(Chunks) /\ Len(r) = L - m + 1
      /\ r[1] = c /\ \A k \in 2 .. L - m + 1 : r[k] = s[k - 1]
  <2>1. r = <<c>> \o s
      BY DEF c, s, r, Rest
  <2>2. /\ r \in Seq(Chunks) /\ Len(r) = 1 + Len(s)
        /\ \A k \in 1 .. 1 + Len(s) : r[k] = IF k <= 1 THEN <<c>>[k] ELSE s[k - 1]
    <3> DEFINE h == <<c>>
    <3>1. h \in Seq(Chunks) /\ s \in Seq(Chunks) /\ Len(h) = 1
        BY <1>3, <1>4
    <3>2. r = h \o s
        BY <2>1
    <3> HIDE DEF h
    <3>3. /\ h \o s \in Seq(Chunks) /\ Len(h \o s) = Len(h) + Len(s)
          /\ \A k \in 1 .. Len(h) + Len(s) : (h \o s)[k] = IF k <= Len(h) THEN h[k] ELSE s[k - Len(h)]
        BY <3>1, ConcatProperties
    <3>4. /\ r \in Seq(Chunks) /\ Len(r) = Len(h) + Len(s)
          /\ \A k \in 1 .. Len(h) + Len(s) : r[k] = IF k <= Len(h) THEN h[k] ELSE s[k - Len(h)]
        BY <3>2, <3>3, Zenon
    <3>5. /\ r \in Seq(Chunks) /\ Len(r) = 1 + Len(s)
          /\ \A k \in 1 .. 1 + Len(s) : r[k] = IF k <= 1 THEN h[k] ELSE s[k - 1]
        BY <3>1, <3>4, Zenon
    <3> QED
        BY <3>5, Zenon DEF h
  <2>3. Len(s) \in Nat /\ 1 + Len(s) = L - m + 1
      BY <1>1, <1>3
  <2>4. r[1] = c
      BY <1>4, <2>2, <2>3
  <2>5. ASSUME NEW k \in 2 .. L - m + 1 PROVE r[k] = s[k - 1]
    <3>1. k \in 1 .. 1 + Len(s) /\ ~(k <= 1)
        BY <1>1, <2>3
    <3> QED
        BY <2>2, <3>1
  <2> QED
      BY <2>2, <2>3, <2>4, <2>5
<1>6. \A k \in 2 .. Len(r) : r[k] = q[m + k - 1]
  <2> TAKE k \in 2 .. Len(r)
  <2>1. k - 1 \in 1 .. L - m /\ m + (k - 1) = m + k - 1
      BY <1>1, <1>5
  <2> QED
      BY <1>3, <1>5, <2>1
<1>7. WholeQueue(r)
  <2>1. ASSUME NEW k \in 1 .. Len(r) PROVE Whole(r[k])
    <3>1. CASE k = 1
        BY <1>2, <1>5, <3>1
    <3>2. CASE k # 1
      <4>1. k \in 2 .. Len(r) /\ m + k - 1 \in 1 .. L
          BY <1>1, <1>5, <3>2
      <4> QED
          BY <1>1, <1>6, <4>1
    <3> QED
        BY <3>1, <3>2
  <2> QED
      BY <1>5, <2>1 DEF WholeQueue
<1>8. Chain(r, e)
  <2>1. ASSUME NEW k \in 1 .. Len(r)
        PROVE  EndTimeOf(r[k]) = IF k = Len(r) THEN e ELSE StartTime(r[k + 1])
    <3>1. m + k - 1 \in m .. L /\ EndTimeOf(r[k]) = EndTimeOf(q[m + k - 1])
      <4>1. CASE k = 1
          BY <1>1, <1>2, <1>5, <4>1
      <4>2. CASE k # 1
          BY <1>1, <1>5, <1>6, <4>2
      <4> QED
          BY <4>1, <4>2
    <3>2. EndTimeOf(q[m + k - 1]) = IF m + k - 1 = L THEN e ELSE StartTime(q[(m + k - 1) + 1])
        BY <3>1 DEF ChainFrom, L
    <3>3. m + k - 1 = L <=> k = Len(r)
        BY <1>1, <1>5
    <3>4. k # Len(r) => r[k + 1] = q[(m + k - 1) + 1]
      <4>1. k \in Nat \ {0} /\ m \in Nat /\ Len(r) \in Nat /\ k <= Len(r)
          BY <1>1, <1>5
      <4>2. m + (k + 1) - 1 = (m + k - 1) + 1
          BY <4>1
      <4>3. k # Len(r) => k + 1 \in 2 .. Len(r)
          BY <4>1
      <4> QED
          BY <1>6, <4>2, <4>3
    <3> QED
        BY <3>1, <3>2, <3>3, <3>4
  <2> QED
      BY <2>1 DEF Chain, ChainFrom
<1>9. r # <<>>
    BY <1>1, <1>5
<1> QED
    BY <1>5, <1>6, <1>7, <1>8, <1>9 DEF c, L, r

\* Reading takes frames from the front of a chain: the rest is a chain that
\* begins as many frames later, of chunks that are otherwise unread.
LEMMA AfterReadingChain ==
    ASSUME NEW q, WholeQueue(q), NEW e, Chain(q, e), q # <<>>,
           NEW n \in 0 .. EndOf(q)[Len(q)]
    PROVE  /\ WholeQueue(AfterReading(q, n)) /\ Chain(AfterReading(q, n), e)
           /\ AfterReading(q, n) # <<>> =>
                 /\ n < EndOf(q)[Len(q)]
                 /\ StartTime(AfterReading(q, n)[1]) = StartTime(q[1]) + n
           /\ \A k \in 2 .. Len(AfterReading(q, n)) :
                 \E j \in 2 .. Len(q) : AfterReading(q, n)[k] = q[j]
<1> DEFINE L == Len(q)
           end == EndOf(q)
           In(j) == j \in 0 .. L /\ end[j] <= n /\ (j < L => end[j + 1] > n)
           k == CHOOSE j \in 0 .. L : end[j] <= n /\ (j < L => end[j + 1] > n)
           T == {j \in 0 .. L : j < L => end[j + 1] > n}
           r == AfterReading(q, n)
<1>1. /\ L \in Nat \ {0} /\ end[0] = 0
      /\ \A j \in 1 .. L : end[j] = end[j - 1] + Remaining(q[j])
      /\ \A j \in 0 .. L : end[j] \in Nat
    BY EndOfFacts DEF WholeQueue
<1>2. /\ StartTime(q[1]) \in Int
      /\ \A j \in 0 .. L - 1 : StartTime(q[j + 1]) = StartTime(q[1]) + end[j]
    BY EndOfChain
<1>3. n \in Nat /\ n <= end[L]
    BY <1>1
<1>r. r = IF k = L THEN <<>> ELSE <<Read(q[k + 1], n - end[k])>> \o SubSeq(q, k + 2, L)
    BY Zenon DEF AfterReading
<1> HIDE DEF L, end, r
<1>4. \E j : In(j)
  <2>1. T \in SUBSET Nat /\ L \in T
      BY <1>1, <1>3
  <2>2. PICK m \in T : \A j \in T : m <= j
    <3> HIDE DEF T
    <3> QED
        BY <2>1, LeastNumber
  <2>3. m \in 0 .. L /\ (m < L => end[m + 1] > n)
      OBVIOUS
  <2>4. end[m] <= n
    <3>1. CASE m = 0
        BY <1>1, <1>3, <3>1
    <3>2. CASE m > 0
      <4>1. m - 1 \in 0 .. L - 1 /\ (m - 1) + 1 = m /\ end[m] \in Nat
          BY <1>1, <2>3, <3>2
      <4>2. m - 1 \notin T
        <5>1. m \in Nat
            BY <2>3
        <5> HIDE DEF T
        <5> QED
            BY <2>2, <5>1
      <4>3. ~(end[(m - 1) + 1] > n)
          BY <1>1, <4>1, <4>2
      <4> QED
          BY <1>3, <4>1, <4>3
    <3> QED
        BY <2>3, <3>1, <3>2
  <2> QED
      BY <2>3, <2>4
<1>5. In(k)
    BY <1>4
<1> HIDE DEF k, T
<1>6. CASE k = L
  <2>1. r = <<>> /\ Len(r) = 0 /\ r \in Seq(Chunks)
      BY <1>6, <1>r, EmptySeq
  <2> QED
      BY <2>1 DEF WholeQueue, Chain, ChainFrom, r
<1>7. CASE k < L
  <2>1. k + 1 \in 1 .. L /\ (k + 1) - 1 = k /\ (k + 1) + 1 = k + 2 /\ end[k] \in Nat
      BY <1>1, <1>5, <1>7
  <2>2. end[k + 1] = end[k] + Remaining(q[k + 1]) /\ Remaining(q[k + 1]) \in Nat
      BY <1>1, <2>1, WholeFacts DEF WholeQueue, L
  <2>3. n - end[k] \in Nat /\ n - end[k] <= Remaining(q[k + 1])
      BY <1>3, <1>5, <1>7, <2>1, <2>2
  <2> DEFINE m == k + 1
             d == n - end[k]
  <2>4. r = Rest(q, m, d)
      BY <1>5, <1>7, <1>1, <1>r, <2>1 DEF Rest, L
  <2>5. /\ WholeQueue(r) /\ Chain(r, e)
        /\ Len(r) = L - m + 1
        /\ r[1] = Read(q[m], d)
        /\ \A i \in 2 .. L - m + 1 : r[i] = q[m + i - 1]
    <3>1. m \in 1 .. Len(q) /\ d \in Nat /\ d <= Remaining(q[m]) /\ ChainFrom(q, m, e)
        BY <1>1, <1>5, <2>1, <2>3 DEF L, Chain, ChainFrom
    <3> HIDE DEF m, d
    <3> QED
        BY <2>4, <3>1, RestOfChain DEF L
  <2>6. StartTime(r[1]) = StartTime(q[1]) + n
    <3>1. StartTime(r[1]) = StartTime(q[k + 1]) + (n - end[k])
        BY <2>1, <2>3, <2>5, ReadFacts DEF WholeQueue, L
    <3>2. StartTime(q[k + 1]) = StartTime(q[1]) + end[k]
        BY <1>2, <1>5, <1>7, <1>1
    <3> QED
        BY <1>2, <1>3, <2>1, <3>1, <3>2
  <2>7. n < end[L]
    <3>1. CASE end[L] = n
      \* Then the (k+1)-st chunk would end behind the last.
      <4> DEFINE S == {j \in k + 1 .. L : end[j] <= n}
      <4>2. S \in SUBSET Nat /\ L \in S
          BY <1>1, <1>3, <2>1, <3>1
      <4>3. PICK z \in S : \A j \in S : z <= j
        <5> HIDE DEF S
        <5> QED
            BY <4>2, LeastNumber
      <4>4. z # k + 1
          BY <1>1, <1>3, <1>5, <1>7, <2>1
      <4>5. z - 1 \in k + 1 .. L /\ z - 1 \notin S
          BY <1>1, <2>1, <4>3, <4>4
      <4>6. end[z - 1] \in Nat /\ end[z] \in Nat /\ Remaining(q[z]) \in Nat
          BY <1>1, <2>1, <4>5, WholeFacts DEF WholeQueue, L
      <4>7. end[z] = end[z - 1] + Remaining(q[z])
          BY <1>1, <2>1, <4>3
      <4> QED
          BY <1>3, <4>3, <4>5, <4>6, <4>7
    <3> QED
        BY <1>1, <1>3, <3>1
  <2>8. \A i \in 2 .. Len(r) : \E j \in 2 .. L : r[i] = q[j]
    <3> TAKE i \in 2 .. Len(r)
    <3>1. m + i - 1 \in 2 .. L
        BY <1>1, <1>5, <2>1, <2>5
    <3> QED
        BY <2>5, <3>1
  <2> QED
      BY <2>5, <2>6, <2>7, <2>8 DEF r, L, end
<1> QED
    BY <1>1, <1>5, <1>6, <1>7

----------------------------------------------------------------------------
(* What getNextBuffer() leaves                                             *)

\* The chunks behind the first have not been touched.
Untouched(q) == \A k \in 2 .. Len(q) : q[k].idx = 0

\* The chunks behind the first of r are chunks behind the first of q.
LaterOf(r, q) == \A k \in 2 .. Len(r) : \E j \in 2 .. Len(q) : r[k] = q[j]

\* A chain, cut into this.chunk and the chunks behind it.
LEMMA SplitQueue ==
    ASSUME NEW q, WholeQueue(q), NEW e, Chain(q, e), Untouched(q)
    PROVE  /\ WholeQueue(Front(q)) /\ Len(Front(q)) <= 1
           /\ WholeQueue(Behind(q)) /\ Chain(Behind(q), e)
           /\ \A k \in 1 .. Len(Behind(q)) : Behind(q)[k].idx = 0
           /\ (Front(q) = <<>>) = (q = <<>>)
           /\ q = <<>> => Behind(q) = <<>>
           /\ Front(q) \o Behind(q) = q
           /\ q # <<>> => EndTimeOf(Front(q)[1]) = IF Behind(q) = <<>> THEN e ELSE StartTime(Behind(q)[1])
<1>1. CASE q = <<>>
  <2>1. Front(q) = <<>> /\ Behind(q) = <<>> /\ Len(<<>>) = 0 /\ <<>> \in Seq(Chunks)
      BY <1>1, EmptySeq DEF Front, Behind
  <2>2. <<>> \o <<>> = <<>>
      OBVIOUS
  <2>3. WholeQueue(<<>>) /\ Chain(<<>>, e)
      BY <2>1 DEF WholeQueue, Chain, ChainFrom
  <2>4. \A k \in 1 .. Len(<<>>) : <<>>[k].idx = 0
      OBVIOUS
  <2> QED
      BY <1>1, <2>1, <2>2, <2>3, <2>4
<1>2. CASE q # <<>>
  <2> DEFINE t == Tail(q)
  <2>1. q \in Seq(Chunks) /\ Len(q) \in Nat \ {0}
      BY <1>2 DEF WholeQueue
  <2>2. t \in Seq(Chunks) /\ Len(t) = Len(q) - 1 /\ \A k \in 1 .. Len(q) - 1 : t[k] = q[k + 1]
      BY <1>2, <2>1, HeadTailProperties
  <2>3. Front(q) = <<Head(q)>> /\ Head(q) = q[1] /\ Behind(q) = t /\ q[1] \in Chunks
      BY <1>2, <2>1 DEF Front, Behind
  <2>4. <<Head(q)>> \o Tail(q) = q
      BY <1>2, <2>1
  <2>5. <<q[1]>> \in Seq(Chunks) /\ Len(<<q[1]>>) = 1 /\ <<q[1]>>[1] = q[1]
      BY <2>3
  <2> HIDE DEF t
  <2>6. WholeQueue(Front(q))
      BY <2>1, <2>3, <2>5 DEF WholeQueue
  <2>7. WholeQueue(t)
      BY <2>1, <2>2 DEF WholeQueue
  <2>8. Chain(t, e)
    <3> SUFFICES ASSUME NEW k \in 1 .. Len(t)
                 PROVE  EndTimeOf(t[k]) = IF k = Len(t) THEN e ELSE StartTime(t[k + 1])
        BY DEF Chain, ChainFrom
    <3>1. k + 1 \in 1 .. Len(q) /\ t[k] = q[k + 1] /\ (k = Len(t)) = (k + 1 = Len(q))
        BY <2>1, <2>2
    <3>2. EndTimeOf(q[k + 1]) = IF k + 1 = Len(q) THEN e ELSE StartTime(q[(k + 1) + 1])
        BY <3>1 DEF Chain, ChainFrom
    <3>3. k # Len(t) => k + 1 \in 1 .. Len(q) - 1
        BY <2>1, <2>2
    <3>4. k # Len(t) => t[k + 1] = q[(k + 1) + 1]
        BY <2>2, <3>3
    <3> QED
        BY <3>1, <3>2, <3>4
  <2>9. \A k \in 1 .. Len(t) : t[k].idx = 0
      BY <2>1, <2>2 DEF Untouched
  <2>10. EndTimeOf(q[1]) = IF t = <<>> THEN e ELSE StartTime(t[1])
    <3>1. EndTimeOf(q[1]) = IF 1 = Len(q) THEN e ELSE StartTime(q[2])
        BY <2>1 DEF Chain, ChainFrom
    <3>2. t = <<>> <=> Len(q) = 1
        BY <2>1, <2>2
    <3>3. Len(q) # 1 => t[1] = q[2]
        BY <2>1, <2>2
    <3> QED
        BY <3>1, <3>2, <3>3
  <2>11. Front(q) # <<>> /\ Len(Front(q)) = 1 /\ Front(q)[1] = q[1]
      BY <2>3, <2>5
  <2> QED
      BY <1>2, <2>3, <2>4, <2>6, <2>7, <2>8, <2>9, <2>10, <2>11 DEF t
<1> QED
    BY <1>1, <1>2

\* Frames that the code wants, if a chain begins with q and is read.
ReadOff(silent, add) == IF Wanted(silent, add) > 0 THEN Wanted(silent, add) ELSE 0

\* What remains of a chain when a buffer has been filled from it.
Left(q, silent, add) ==
    IF Wanted(silent, add) > 0
    THEN AfterReading(q, Least(Wanted(silent, add), EndOf(q)[Len(q)]))
    ELSE q

\* It is a chain that begins behind the frames wanted.
LEMMA LeftOfChain ==
    ASSUME NEW q, WholeQueue(q), NEW e, Chain(q, e), Untouched(q), q # <<>>,
           NEW silent \in Int, NEW add \in Int
    PROVE  /\ WholeQueue(Left(q, silent, add)) /\ Chain(Left(q, silent, add), e)
           /\ Untouched(Left(q, silent, add)) /\ LaterOf(Left(q, silent, add), q)
           /\ Left(q, silent, add) # <<>> =>
                 /\ StartTime(Left(q, silent, add)[1]) = StartTime(q[1]) + ReadOff(silent, add)
                 /\ Wanted(silent, add) <= EndOf(q)[Len(q)]
<1> DEFINE want == Wanted(silent, add)
           total == EndOf(q)[Len(q)]
           got == Least(want, total)
<1>1. want \in Int /\ total \in Nat
  <2>1. Len(q) \in Nat
      BY DEF WholeQueue
  <2> QED
      BY <2>1, EndOfFacts, AudioAssumption DEF Wanted
<1>2. StartTime(q[1]) \in Int
    BY EndOfChain
<1>3. CASE want > 0
  <2>1. got \in 0 .. total /\ (got < total => got = want)
      BY <1>1, <1>3 DEF Least
  <2>2. Left(q, silent, add) = AfterReading(q, got)
      BY <1>3 DEF Left
  <2> HIDE DEF got
  <2>3. /\ WholeQueue(AfterReading(q, got)) /\ Chain(AfterReading(q, got), e)
        /\ AfterReading(q, got) # <<>> =>
              got < total /\ StartTime(AfterReading(q, got)[1]) = StartTime(q[1]) + got
        /\ \A k \in 2 .. Len(AfterReading(q, got)) :
              \E j \in 2 .. Len(q) : AfterReading(q, got)[k] = q[j]
      BY <2>1, AfterReadingChain
  <2>4. Untouched(AfterReading(q, got)) /\ LaterOf(AfterReading(q, got), q)
      BY <2>3 DEF Untouched, LaterOf
  <2> QED
      BY <1>1, <1>3, <2>1, <2>2, <2>3, <2>4 DEF ReadOff
<1>4. CASE ~(want > 0)
  <2>1. LaterOf(q, q)
      BY DEF LaterOf
  <2> QED
      BY <1>1, <1>2, <1>4, <2>1 DEF Left, ReadOff
<1> QED
    BY <1>3, <1>4

\* The k-th frame read is heard at place p.
HeardAt(silent, add, k, p) ==
    \/ Place(silent, add, k) <= p /\ p < Place(silent, add, k + 1)
    \/ k = Wanted(silent, add) /\ p = Place(silent, add, k)

\* Whatever is heard at a place is a frame that has been read for it.
LEMMA FilledFrames ==
    ASSUME NEW q, WholeQueue(q), NEW e, Chain(q, e), q # <<>>,
           NEW silent \in Int, NEW add \in Int, NEW p \in 0 .. Frames - 1
    PROVE  /\ Filled(q, silent, add)[p] # Silence =>
                 \E k \in 1 .. Wanted(silent, add) :
                    /\ Place(silent, add, k) <= p
                    /\ HeardAt(silent, add, k, p)
                    /\ Filled(q, silent, add)[p] = StartTime(q[1]) + k - 1
           /\ Filled(q, silent, add)[p] = Silence =>
                 \A k \in 1 .. Wanted(silent, add) :
                    k <= EndOf(q)[Len(q)] /\ Place(silent, add, k) <= p
                       => ~HeardAt(silent, add, k, p)
<1> DEFINE want == Wanted(silent, add)
           total == EndOf(q)[Len(q)]
           got == Least(want, total)
           Keeps(k) == k = want /\ p = Place(silent, add, k)
           At == {k \in 1 .. got : /\ Place(silent, add, k) <= p
                                   /\ p < Place(silent, add, k + 1) \/ Keeps(k)}
           k0 == CHOOSE k \in At : TRUE
<1>1. want \in Int /\ total \in Nat
  <2>1. Len(q) \in Nat
      BY DEF WholeQueue
  <2> QED
      BY <2>1, EndOfFacts, AudioAssumption DEF Wanted
<1>2. \A k : k \in 1 .. got <=> k \in 1 .. want /\ k <= total
    BY <1>1 DEF Least
<1>3. Filled(q, silent, add)[p] = IF At = {} THEN Silence ELSE FrameOf(q, k0)
    BY DEF Filled
<1>4. ASSUME At # {}
      PROVE  /\ k0 \in At /\ FrameOf(q, k0) = StartTime(q[1]) + k0 - 1
             /\ FrameOf(q, k0) # Silence
  <2>1. k0 \in At
      BY <1>4
  <2>2. k0 \in 1 .. total
      BY <1>2, <2>1, <1>1
  <2> HIDE DEF k0
  <2>3. FrameOf(q, k0) = StartTime(q[1]) + k0 - 1
      BY <2>2, FrameOfChain
  <2>4. StartTime(q[1]) \in Int
      BY EndOfChain
  <2>5. FrameOf(q, k0) \in Int
      BY <1>1, <2>2, <2>3, <2>4
  <2> QED
      BY <2>1, <2>3, <2>5, AudioAssumption
<1>5. \A k : k \in At <=> k \in 1 .. got /\ Place(silent, add, k) <= p /\ HeardAt(silent, add, k, p)
    BY DEF HeardAt
<1> HIDE DEF At, got, k0
<1>6. ASSUME Filled(q, silent, add)[p] # Silence
      PROVE  \E k \in 1 .. want :
                /\ Place(silent, add, k) <= p
                /\ HeardAt(silent, add, k, p)
                /\ Filled(q, silent, add)[p] = StartTime(q[1]) + k - 1
  <2>1. At # {}
      BY <1>3, <1>6
  <2>2. k0 \in 1 .. want /\ Place(silent, add, k0) <= p /\ HeardAt(silent, add, k0, p)
      BY <1>2, <1>4, <1>5, <2>1
  <2> QED
      BY <1>3, <1>4, <2>1, <2>2
<1>7. ASSUME Filled(q, silent, add)[p] = Silence PROVE At = {}
    BY <1>3, <1>4, <1>7
<1> QED
    BY <1>2, <1>5, <1>6, <1>7

----------------------------------------------------------------------------
(* What the decoder hands over                                             *)

\* The first frame of which no audio has been handed over.
Undelivered == IF at \in {"loop", "single", "done"} THEN next - Len(pcm) ELSE next

\* When that frame is to be heard, if the server leaves no gap.
Ahead == (received[1] + Undelivered - 1) * BlockSize

\* Without gaps, a frame is to be heard as many blocks after the first frame as
\* there are frames before it.
LEMMA GaplessFacts ==
    ASSUME received \in Seq(Nat), Gapless
    PROVE  \A j \in 1 .. Len(received) : received[j] = received[1] + j - 1
<1> DEFINE L == Len(received)
           T == {j \in 1 .. L : received[j] # received[1] + j - 1}
<1>1. L \in Nat /\ \A j \in 1 .. L : received[j] \in Nat
    OBVIOUS
<1>2. \A j \in 1 .. L - 1 : received[j + 1] = received[j] + 1
    BY DEF Gapless
<1> HIDE DEF L
<1>3. SUFFICES ASSUME T # {} PROVE FALSE
    BY DEF L
<1>4. PICK m \in T : \A j \in T : m <= j
  <2>1. T \in SUBSET Nat
      BY <1>1
  <2> HIDE DEF T
  <2> QED
      BY <1>3, <2>1, LeastNumber
<1>5. m \in 2 .. L
    BY <1>1
<1>6. m - 1 \notin T /\ m - 1 \in 1 .. L - 1 /\ (m - 1) + 1 = m
    BY <1>1, <1>4, <1>5
<1>7. received[m - 1] = received[1] + (m - 1) - 1 /\ received[m] = received[m - 1] + 1
  <2>1. m - 1 \in 1 .. L
      BY <1>1, <1>6
  <2> QED
      BY <1>2, <1>6, <2>1
<1>8. received[1] \in Nat /\ m \in Int
    BY <1>1, <1>5
<1>9. received[m] = received[1] + m - 1
    BY <1>7, <1>8
<1> QED
    BY <1>4, <1>9

\* What addChunk() gets is a chunk of blocks that follow each other, and without
\* gaps it starts where the one before it ended.
LEMMA DecodedFacts ==
    ASSUME Inv, Gapless, at = "done"
    PROVE  /\ Whole(Decoded) /\ Decoded.idx = 0 /\ received # <<>>
           /\ Len(Decoded.blocks) = Len(pcm)
           /\ StartTime(Decoded) = Ahead
           /\ EndTimeOf(Decoded) = (received[1] + next - 1) * BlockSize
<1> DEFINE B == [k \in 1 .. Len(pcm) |-> pcm[k] * BlockSize]
           start == next - Len(pcm)
           t == received[1] + start - 1
<1>1. /\ received \in Seq(Nat) /\ pcm \in Seq(Nat) /\ next \in Nat \ {0} /\ first \in Nat \ {0}
      /\ cachedBlocks \in Nat /\ Len(received) \in Nat /\ Len(pcm) \in Nat
      /\ BlockSize \in Nat \ {0}
    BY AudioAssumption DEF Inv, TypeOK
<1>2. /\ start >= 1 /\ first <= Len(received) /\ next <= Len(received) + 1
      /\ start + cachedBlocks = first
      /\ \A k \in 1 .. Len(pcm) : pcm[k] = received[start + k - 1]
      /\ timestamp = received[first] - cachedBlocks
    BY <1>1 DEF Inv, TypeOK, CountInv, ChunkInv, TimeInv
<1>3. \A j \in 1 .. Len(received) : received[j] = received[1] + j - 1
    BY <1>1, GaplessFacts
<1>4. 1 \in 1 .. Len(received) /\ received[1] \in Nat /\ start \in Int /\ t \in Int
  <2>1. 1 \in 1 .. Len(received) /\ start \in Int
      BY <1>1, <1>2
  <2>2. received[1] \in Nat
      BY <1>1, <2>1
  <2> QED
      BY <2>1, <2>2
<1>5. timestamp = t
  <2>1. first \in 1 .. Len(received)
      BY <1>1, <1>2
  <2>2. received[first] = received[1] + first - 1
      BY <1>3, <2>1
  <2>3. timestamp = received[first] - cachedBlocks /\ start + cachedBlocks = first
      BY <1>2
  <2>4. t = received[1] + start - 1
      OBVIOUS
  <2>5. (received[1] + first - 1) - cachedBlocks = received[1] + start - 1
    <3> DEFINE a == received[1]
    <3>1. a \in Int /\ start \in Int /\ cachedBlocks \in Int /\ start + cachedBlocks = first
        BY <1>1, <1>4, <2>3
    <3> HIDE DEF start, t, a
    <3>2. (a + (start + cachedBlocks) - 1) - cachedBlocks = a + start - 1
        BY <3>1
    <3>3. (a + first - 1) - cachedBlocks = a + start - 1
        BY <3>1, <3>2, Zenon
    <3> QED
        BY <3>3, Zenon DEF a
  <2>6. timestamp = (received[1] + first - 1) - cachedBlocks
      BY <2>2, <2>3, Zenon
  <2> QED
      BY <2>4, <2>5, <2>6, Zenon
<1>6. ASSUME NEW k \in 1 .. Len(pcm) PROVE pcm[k] = t + (k - 1)
  <2>1. start + k - 1 \in 1 .. Len(received)
    <3>1. start + Len(pcm) = next /\ k \in Nat /\ 1 <= k /\ k <= Len(pcm)
        BY <1>1
    <3> HIDE DEF start
    <3> QED
        BY <1>1, <1>2, <1>4, <3>1
  <2>2. pcm[k] = received[1] + (start + k - 1) - 1
      BY <1>2, <1>3, <2>1
  <2> QED
      BY <1>1, <1>4, <2>2
<1>7. B \in Seq(Int) /\ Len(B) = Len(pcm) /\ \A k \in 1 .. Len(pcm) : B[k] = pcm[k] * BlockSize
  <2>1. \A k \in 1 .. Len(pcm) : pcm[k] * BlockSize \in Int
      BY <1>1
  <2> QED
      BY <1>1, <2>1
<1> HIDE DEF B, start, t
<1>8. /\ Decoded = [time |-> t * BlockSize, blocks |-> B, idx |-> 0]
      /\ Decoded.time = t * BlockSize /\ Decoded.blocks = B /\ Decoded.idx = 0
    BY <1>5 DEF Decoded, NewChunk, B
<1>9. t * BlockSize \in Int /\ Len(pcm) * BlockSize \in Nat
    BY <1>1, <1>4
<1>10. \A k \in 1 .. Len(pcm) : B[k] = t * BlockSize + (k - 1) * BlockSize
  <2> TAKE k \in 1 .. Len(pcm)
  <2>1. (t + (k - 1)) * BlockSize = t * BlockSize + (k - 1) * BlockSize
      BY <1>1, <1>4
  <2> QED
      BY <1>6, <1>7, <2>1
<1>11. Whole(Decoded)
  <2>1. Decoded \in Chunks
      BY <1>7, <1>8, <1>9 DEF Chunks
  <2> QED
      BY <1>7, <1>8, <1>9, <1>10, <2>1 DEF Whole
<1>12. StartTime(Decoded) = Ahead
    BY <1>8, <1>9 DEF StartTime, Ahead, Undelivered, t, start
<1>13. EndTimeOf(Decoded) = (received[1] + next - 1) * BlockSize
  <2>1. EndTimeOf(Decoded) = t * BlockSize + Len(pcm) * BlockSize
      BY <1>7, <1>8, <1>9 DEF EndTimeOf, StartTime, Remaining
  <2>2. t + Len(pcm) = received[1] + next - 1
      BY <1>1, <1>4 DEF t, start
  <2>3. (t + Len(pcm)) * BlockSize = t * BlockSize + Len(pcm) * BlockSize
      BY <1>1, <1>4
  <2> QED
      BY <2>1, <2>2, <2>3
<1>14. received # <<>>
    BY <1>1, <1>4
<1> QED
    BY <1>7, <1>8, <1>11, <1>12, <1>13, <1>14

----------------------------------------------------------------------------
(* The inductive invariant of the queue                                    *)

\* What follows this.chunk: the next chunk, or what the decoder comes to next.
Following == IF chunks = <<>> THEN Ahead ELSE StartTime(chunks[1])

\* Chunks behind this.chunk have been dropped for their age.
Torn == chunk # <<>> /\ EndTimeOf(chunk[1]) # Following

\* By how much the clock can still go back.
Margin(back) == back * (MaxJumps - jumps)

AudioTypes == playTime \in Int /\ bufferTime \in Int /\ jumps \in 0 .. MaxJumps

\* The queue leads without a gap to what the decoder comes to next, except that
\* chunks behind this.chunk may have been dropped; then this.chunk is over for
\* so long that a hard synchronisation drops it, whatever the clock still does.
QueueInv(back) ==
    /\ received = <<>> => chunk = <<>> /\ chunks = <<>>
    /\ WholeQueue(chunk) /\ Len(chunk) <= 1
    /\ WholeQueue(chunks) /\ \A k \in 1 .. Len(chunks) : chunks[k].idx = 0
    /\ Chain(chunks, Ahead)
    /\ Torn => playTime - EndTimeOf(chunk[1]) > SyncFrames + Margin(back)

\* The inductive invariant of playing.
PlaybackInv(back) == Inv /\ AudioTypes /\ (Gapless => QueueInv(back)) /\ OnTime

\* What a buffer is filled from: all of the queue leads to what the decoder comes
\* to next if nothing is missing in it, otherwise what follows this.chunk.
LEMMA QueueFacts ==
    ASSUME NEW back, QueueInv(back)
    PROVE  /\ WholeQueue(Queue) /\ Untouched(Queue)
           /\ \A k \in 2 .. Len(Queue) : \E j \in 1 .. Len(chunks) : Queue[k] = chunks[j]
           /\ ~Torn => Chain(Queue, Ahead)
           /\ chunk # <<>> =>
                 /\ Queue # <<>> /\ Queue[1] = chunk[1]
                 /\ ChainFrom(Queue, 2, Ahead)
                 /\ Len(Queue) # 1 => StartTime(Queue[2]) = Following
<1>0. /\ chunk \in Seq(Chunks) /\ chunks \in Seq(Chunks) /\ Len(chunk) \in Nat /\ Len(chunks) \in Nat
      /\ \A k \in 1 .. Len(chunk) : Whole(chunk[k])
      /\ \A k \in 1 .. Len(chunks) : Whole(chunks[k]) /\ chunks[k].idx = 0
      /\ Len(chunk) <= 1
    BY DEF QueueInv, WholeQueue
<1>1. CASE chunk = <<>>
  <2>1. Queue = chunks
      BY <1>0, <1>1 DEF Queue
  <2>2. \A k \in 2 .. Len(Queue) : k \in 1 .. Len(chunks)
      BY <2>1
  <2> QED
      BY <1>0, <1>1, <2>1, <2>2 DEF QueueInv, Untouched
<1>2. CASE chunk # <<>>
  <2>1. Len(chunk) = 1
    <3>1. Len(chunk) # 0
        BY <1>0, <1>2, EmptySeq
    <3> DEFINE l == Len(chunk)
    <3>2. l \in Nat /\ l <= 1 /\ l # 0
        BY <1>0, <3>1
    <3> HIDE DEF l
    <3>3. l = 1
        BY <3>2
    <3> QED
        BY <3>3 DEF l
  <2> DEFINE q == chunk \o chunks
  <2>2. q \in Seq(Chunks) /\ Len(q) = 1 + Len(chunks)
        /\ \A k \in 1 .. 1 + Len(chunks) : q[k] = IF k <= 1 THEN chunk[k] ELSE chunks[k - 1]
    <3>1. /\ q \in Seq(Chunks) /\ Len(q) = Len(chunk) + Len(chunks)
          /\ \A k \in 1 .. Len(chunk) + Len(chunks) :
                q[k] = IF k <= Len(chunk) THEN chunk[k] ELSE chunks[k - Len(chunk)]
        BY <1>0, ConcatProperties
    <3> HIDE DEF q
    <3> QED
        BY <2>1, <3>1, Zenon
  <2>3. Queue = q
      BY DEF Queue
  <2> HIDE DEF q
  <2>4. q[1] = chunk[1]
      BY <1>0, <2>2
  <2>5. \A k \in 2 .. Len(q) : q[k] = chunks[k - 1] /\ k - 1 \in 1 .. Len(chunks)
      BY <1>0, <2>2
  <2>6. WholeQueue(q)
    <3>1. ASSUME NEW k \in 1 .. Len(q) PROVE Whole(q[k])
      <4>1. CASE k = 1
          BY <1>0, <2>1, <2>4, <4>1
      <4>2. CASE k # 1
          BY <1>0, <2>2, <2>5, <4>2
      <4> QED
          BY <4>1, <4>2
    <3> QED
        BY <2>2, <3>1 DEF WholeQueue
  <2>7. Untouched(q)
      BY <1>0, <2>5 DEF Untouched
  <2>8. ASSUME NEW k \in 2 .. Len(q)
        PROVE  EndTimeOf(q[k]) = IF k = Len(q) THEN Ahead ELSE StartTime(q[k + 1])
    <3>1. k - 1 \in 1 .. Len(chunks) /\ q[k] = chunks[k - 1] /\ (k - 1 = Len(chunks) <=> k = Len(q))
        BY <1>0, <2>2, <2>5
    <3>2. EndTimeOf(chunks[k - 1])
              = IF k - 1 = Len(chunks) THEN Ahead ELSE StartTime(chunks[(k - 1) + 1])
        BY <3>1 DEF QueueInv, Chain, ChainFrom
    <3>3. k # Len(q) => q[k + 1] = chunks[(k - 1) + 1]
      <4>1. k # Len(q) => k + 1 \in 2 .. Len(q) /\ (k + 1) - 1 = (k - 1) + 1
          BY <1>0, <2>2
      <4> QED
          BY <2>5, <4>1
    <3> QED
        BY <3>1, <3>2, <3>3
  <2>9. chunks = <<>> <=> 1 = Len(q)
    <3>1. chunks = <<>> <=> Len(chunks) = 0
        BY <1>0, EmptySeq
    <3> QED
        BY <1>0, <2>2, <3>1
  <2>10. 1 # Len(q) => q[2] = chunks[1]
      BY <1>0, <2>2, <2>5
  <2>11. 1 # Len(q) => StartTime(q[2]) = Following
      BY <2>9, <2>10 DEF Following
  <2>12. ASSUME ~Torn PROVE Chain(q, Ahead)
    <3>1. EndTimeOf(q[1]) = IF 1 = Len(q) THEN Ahead ELSE StartTime(q[1 + 1])
        BY <1>2, <2>4, <2>9, <2>11, <2>12 DEF Torn, Following
    <3>2. ASSUME NEW k \in 1 .. Len(q)
          PROVE  EndTimeOf(q[k]) = IF k = Len(q) THEN Ahead ELSE StartTime(q[k + 1])
      <4>1. k = 1 \/ k \in 2 .. Len(q)
          OBVIOUS
      <4> QED
          BY <2>8, <3>1, <4>1
    <3> QED
        BY <3>2 DEF Chain, ChainFrom
  <2>13. ChainFrom(q, 2, Ahead) /\ q # <<>>
    <3>1. Len(q) # 0
        BY <1>0, <2>2
    <3> QED
        BY <2>8, <3>1 DEF ChainFrom
  <2> QED
      BY <2>3, <2>4, <2>5, <2>6, <2>7, <2>11, <2>12, <2>13
<1> QED
    BY <1>1, <1>2

----------------------------------------------------------------------------
(* Between two buffers                                                     *)

\* As long as nothing that is to be heard has been taken out or put in, the
\* queue leads where it led.
LEMMA QueueUnmoved ==
    ASSUME NEW back, QueueInv(back), UNCHANGED audioVars,
           received' = <<>> => received = <<>>,
           received # <<>> => Ahead' = Ahead
    PROVE  QueueInv(back)'
<1>1. /\ chunk' = chunk /\ chunks' = chunks /\ playTime' = playTime /\ jumps' = jumps
    BY DEF audioVars
<1>2. CASE received = <<>>
  <2>1. chunk = <<>> /\ chunks = <<>> /\ Len(<<>>) = 0
      BY <1>2 DEF QueueInv
  <2>2. Chain(chunks', Ahead') /\ ~(Torn')
      BY <1>1, <2>1 DEF Chain, ChainFrom, Torn
  <2>3. /\ WholeQueue(chunk') /\ Len(chunk') <= 1
        /\ WholeQueue(chunks') /\ \A k \in 1 .. Len(chunks') : chunks'[k].idx = 0
      BY <1>1 DEF QueueInv
  <2> QED
      BY <1>1, <2>1, <2>2, <2>3 DEF QueueInv, Chain, ChainFrom
<1>3. CASE received # <<>>
  <2>1. Ahead' = Ahead /\ received' # <<>>
      BY <1>3
  <2>2. Following' = Following /\ (Torn' <=> Torn) /\ Margin(back)' = Margin(back)
      BY <1>1, <2>1 DEF Following, Torn, Margin
  <2>3. Chain(chunks', Ahead')
      BY <1>1, <2>1 DEF QueueInv
  <2> QED
      BY <1>1, <2>1, <2>2, <2>3 DEF QueueInv, Chain, ChainFrom
<1> QED
    BY <1>2, <1>3

\* A step of the decoder takes what it writes from what is undelivered.
LEMMA DecoderStepAhead ==
    ASSUME Inv, Step
    PROVE  received' = received /\ Ahead' = Ahead
<1>1. received' = received
    BY DEF Step, ReadHeader, EndOfMetadata, CallSingle, LeaveLoop, ReadCallback, FrameSync,
           ReadFrame, WriteCallback
<1>2. Undelivered' = Undelivered
  <2>1. CASE WriteCallback
    <3>1. pcm \in Seq(Nat) /\ received[next] \in Nat /\ next \in Nat
      <4>1. next \in 1 .. Len(received) /\ received \in Seq(Nat)
          BY <2>1 DEF Inv, TypeOK, CountInv, WriteCallback
      <4> QED
          BY <4>1 DEF Inv, TypeOK
    <3>2. Len(pcm') = Len(pcm) + 1 /\ next' = next + 1 /\ at = "single" /\ at' = "loop"
        BY <2>1, <3>1 DEF WriteCallback
    <3> QED
        BY <3>1, <3>2 DEF Undelivered
  <2>2. CASE ReadHeader \/ EndOfMetadata
    <3>1. at' = at \/ (at = "header" /\ at' = "idle")
        BY <2>2 DEF ReadHeader, EndOfMetadata, Inv, CountInv
    <3>2. pcm' = pcm /\ next' = next
        BY <2>2 DEF ReadHeader, EndOfMetadata
    <3> QED
        BY <3>1, <3>2 DEF Undelivered
  <2>3. CASE CallSingle \/ LeaveLoop \/ ReadCallback \/ FrameSync \/ ReadFrame
    <3>1. pcm' = pcm /\ next' = next
        BY <2>3 DEF CallSingle, LeaveLoop, ReadCallback, FrameSync, ReadFrame
    <3>2. at \in {"loop", "single"} /\ at' \in {"loop", "single", "done"}
        BY <2>3 DEF CallSingle, LeaveLoop, ReadCallback, FrameSync, ReadFrame
    <3> QED
        BY <3>1, <3>2 DEF Undelivered
  <2> QED
      BY <2>1, <2>2, <2>3 DEF Step
<1> QED
    BY <1>1, <1>2 DEF Ahead

\* A chunk that arrives is put behind the frames received.
LEMMA ArrivalAhead ==
    ASSUME Inv, NEW n \in ChunkSizes, NEW gap \in Gaps, Decode(n, gap)
    PROVE  /\ received' # <<>>
           /\ Gapless' => Gapless
           /\ received # <<>> => Ahead' = Ahead
<1> DEFINE t == EndTime + gap
           L == Len(received)
<1>1. n \in Nat \ {0} /\ gap \in Nat /\ received \in Seq(Nat) /\ L \in Nat /\ next \in Nat
    BY FlacAssumption DEF Inv, TypeOK
<1>2. t \in Nat
    BY <1>1 DEF EndTime
<1>3. received' = received \o [k \in 1 .. n |-> t + k - 1]
    BY DEF Decode
<1> HIDE DEF t
<1>4. /\ received' \in Seq(Nat) /\ Len(received') = L + n
      /\ \A k \in 1 .. L : received'[k] = received[k]
    BY <1>1, <1>2, <1>3, Extended
<1>5. received' # <<>>
    BY <1>1, <1>4
<1>6. ASSUME Gapless' PROVE Gapless
  <2> SUFFICES ASSUME NEW k \in 1 .. L - 1 PROVE received[k + 1] = received[k] + 1
      BY DEF Gapless
  <2>1. k \in 1 .. Len(received') - 1 /\ k \in 1 .. L /\ k + 1 \in 1 .. L
      BY <1>1, <1>4
  <2>2. received'[k + 1] = received'[k] + 1
      BY <1>6, <2>1 DEF Gapless
  <2> QED
      BY <1>4, <2>1, <2>2
<1>7. ASSUME received # <<>> PROVE Ahead' = Ahead
  <2>1. 1 \in 1 .. L
      BY <1>1, <1>7, EmptySeq
  <2>2. pcm' = <<>> /\ Len(pcm') = 0 /\ next' = next /\ at = "idle" /\ at' = "loop"
      BY DEF Decode
  <2>3. Undelivered' = Undelivered
      BY <1>1, <2>2 DEF Undelivered
  <2>4. received'[1] = received[1]
      BY <1>4, <2>1
  <2> QED
      BY <2>3, <2>4 DEF Ahead
<1> QED
    BY <1>5, <1>6, <1>7

\* The chunks, all with the new one, lead from where they led to what the decoder
\* comes to next; of them the first n - 1, older than MaxAge, are dropped.
Added(all, n) ==
    /\ WholeQueue(all) /\ Len(all) = Len(chunks) + 1
    /\ \A k \in 1 .. Len(all) : all[k].idx = 0
    /\ \A k \in 1 .. Len(chunks) : all[k] = chunks[k]
    /\ all[Len(all)] = Decoded
    /\ Chain(all, Ahead') /\ StartTime(all[1]) = Following
    /\ n \in 1 .. Len(all) + 1
    /\ \A k \in 1 .. n - 1 : playTime - all[k].time > MaxAge
    /\ chunks' \in Seq(Chunks) /\ Len(chunks') = Len(all) - n + 1
    /\ \A k \in 1 .. Len(all) - n + 1 : chunks'[k] = all[n + k - 1]

\* What addChunk() makes of the chunks.
LEMMA ChunkAdded ==
    ASSUME NEW back, Inv, Gapless, QueueInv(back), at = "done", Return, AddChunk(Decoded)
    PROVE  \E all, n : Added(all, n)
<1> DEFINE all == Append(chunks, Decoded)
           L == Len(chunks)
<1>1. /\ chunks \in Seq(Chunks) /\ L \in Nat
      /\ \A k \in 1 .. L : Whole(chunks[k]) /\ chunks[k].idx = 0
      /\ Chain(chunks, Ahead)
    BY DEF QueueInv, WholeQueue
<1>2. /\ Whole(Decoded) /\ Decoded.idx = 0 /\ Decoded \in Chunks
      /\ StartTime(Decoded) = Ahead
      /\ EndTimeOf(Decoded) = (received[1] + next - 1) * BlockSize
    BY DecodedFacts DEF Whole
<1>3. Ahead' = EndTimeOf(Decoded)
  <2>1. received' = received /\ next' = next /\ at' = "idle"
      BY DEF Return
  <2> QED
      BY <1>2, <2>1 DEF Ahead, Undelivered
<1>4. PICK n \in 1 .. Len(all) + 1 :
          /\ \A k \in 1 .. n - 1 : playTime - all[k].time > MaxAge
          /\ chunks' = SubSeq(all, n, Len(all))
    BY DEF AddChunk
<1> DEFINE d == Decoded
<1>5. /\ all \in Seq(Chunks) /\ Len(all) = L + 1
      /\ \A k \in 1 .. L : all[k] = chunks[k]
      /\ all[L + 1] = d
  <2>1. d \in Chunks
      BY <1>2
  <2> HIDE DEF d
  <2>2. all = Append(chunks, d)
      BY DEF d
  <2> HIDE DEF all
  <2>3. /\ Append(chunks, d) \in Seq(Chunks) /\ Len(Append(chunks, d)) = L + 1
        /\ \A k \in 1 .. L : Append(chunks, d)[k] = chunks[k]
        /\ Append(chunks, d)[L + 1] = d
      BY <1>1, <2>1, AppendProperties
  <2> QED
      BY <2>2, <2>3, Zenon
<1> HIDE DEF all, d
<1>6. \A k \in 1 .. L + 1 : Whole(all[k]) /\ all[k].idx = 0
  <2> TAKE k \in 1 .. L + 1
  <2>1. CASE k = L + 1
      BY <1>2, <1>5, <2>1 DEF d
  <2>2. CASE k # L + 1
    <3>1. k \in 1 .. L
        BY <1>1, <2>2
    <3> QED
        BY <1>1, <1>5, <3>1
  <2> QED
      BY <2>1, <2>2
<1>7. Chain(all, Ahead')
  <2> SUFFICES ASSUME NEW k \in 1 .. Len(all)
               PROVE  EndTimeOf(all[k]) = IF k = Len(all) THEN Ahead' ELSE StartTime(all[k + 1])
      BY DEF Chain, ChainFrom
  <2>1. CASE k = L + 1
      BY <1>3, <1>5, <2>1 DEF d
  <2>2. CASE k # L + 1
    <3>1. k \in 1 .. L /\ k + 1 \in 1 .. L + 1 /\ all[k] = chunks[k]
        BY <1>1, <1>5, <2>2
    <3>2. EndTimeOf(chunks[k]) = IF k = L THEN Ahead ELSE StartTime(chunks[k + 1])
        BY <1>1, <3>1 DEF Chain, ChainFrom
    <3>3. CASE k = L
        BY <1>2, <1>5, <2>2, <3>1, <3>2, <3>3 DEF d
    <3>4. CASE k # L
      <4>1. k + 1 \in 1 .. L
          BY <1>1, <3>1, <3>4
      <4> QED
          BY <1>5, <2>2, <3>1, <3>2, <3>4, <4>1
    <3> QED
        BY <3>3, <3>4
  <2> QED
      BY <2>1, <2>2
<1>8. StartTime(all[1]) = Following
  <2>1. CASE chunks = <<>>
    <3>1. L = 0
        BY <2>1
    <3>2. all[1] = Decoded
        BY <1>5, <3>1 DEF d
    <3> QED
        BY <1>2, <2>1, <3>2 DEF Following
  <2>2. CASE chunks # <<>>
    <3>1. 1 \in 1 .. L
        BY <1>1, <2>2, EmptySeq
    <3>2. all[1] = chunks[1]
        BY <1>5, <3>1
    <3> QED
        BY <2>2, <3>2 DEF Following
  <2> QED
      BY <2>1, <2>2
<1>9. /\ chunks' \in Seq(Chunks) /\ Len(chunks') = L + 1 - n + 1
      /\ \A k \in 1 .. L + 1 - n + 1 : chunks'[k] = all[n + k - 1]
  <2>1. n \in 1 .. L + 2 /\ chunks' = SubSeq(all, n, L + 1)
      BY <1>1, <1>4, <1>5
  <2>2. CASE n = L + 2
    <3>1. chunks' = <<>>
        BY <1>1, <1>5, <2>1, <2>2, SubSeqEmpty
    <3> QED
        BY <1>1, <2>2, <3>1, EmptySeq
  <2>3. CASE n # L + 2
    <3>1. n \in 1 .. L + 1
        BY <1>1, <2>1, <2>3
    <3> QED
        BY <1>1, <1>5, <2>1, <3>1, SubSeqProperties
  <2> QED
      BY <2>2, <2>3
<1>10. WholeQueue(all)
    BY <1>5, <1>6 DEF WholeQueue
<1>11. Added(all, n)
    BY <1>1, <1>4, <1>5, <1>6, <1>7, <1>8, <1>9, <1>10 DEF d, Added
<1> QED
    BY <1>11

\* A chunk that is added keeps the invariant: chunks behind this.chunk are only
\* dropped when it is older than MaxAge itself.
LEMMA ChunkAddedQueue ==
    ASSUME NEW back \in Nat, SyncFrames + back * MaxJumps <= MaxAge,
           Inv, AudioTypes, Gapless, QueueInv(back), at = "done", Return, AddChunk(Decoded)
    PROVE  QueueInv(back)'
<1>0. /\ chunk' = chunk /\ playTime' = playTime /\ jumps' = jumps /\ received' = received
    BY DEF AddChunk, Return
<1>p. PICK all, n : Added(all, n)
    BY ChunkAdded
<1> DEFINE L == Len(all)
<1>1. /\ WholeQueue(all) /\ L = Len(chunks) + 1
      /\ \A k \in 1 .. L : all[k].idx = 0
      /\ Chain(all, Ahead') /\ StartTime(all[1]) = Following
      /\ n \in 1 .. L + 1
      /\ \A k \in 1 .. n - 1 : playTime - all[k].time > MaxAge
      /\ chunks' \in Seq(Chunks) /\ Len(chunks') = L - n + 1
      /\ \A k \in 1 .. L - n + 1 : chunks'[k] = all[n + k - 1]
    BY <1>p DEF Added
<1>2. L \in Nat \ {0} /\ \A k \in 1 .. L : Whole(all[k]) /\ all[k] \in Chunks
  <2>1. Len(chunks) \in Nat /\ all \in Seq(Chunks)
      BY <1>1 DEF QueueInv, WholeQueue
  <2> QED
      BY <1>1, <2>1 DEF WholeQueue
<1> HIDE DEF L
<1>3. \A k \in 1 .. L - n + 1 : n + k - 1 \in n .. L /\ n + k - 1 \in 1 .. L /\ chunks'[k] = all[n + k - 1]
  <2>1. L \in Nat /\ n \in 1 .. L + 1
      BY <1>1, <1>2
  <2>2. \A k \in 1 .. L - n + 1 : n + k - 1 \in n .. L /\ n + k - 1 \in 1 .. L
      BY <2>1
  <2> QED
      BY <1>1, <2>2
<1>4. WholeQueue(chunks') /\ \A k \in 1 .. Len(chunks') : chunks'[k].idx = 0
    BY <1>1, <1>2, <1>3 DEF WholeQueue, L
<1>5. Chain(chunks', Ahead')
  <2> SUFFICES ASSUME NEW k \in 1 .. L - n + 1
               PROVE  EndTimeOf(chunks'[k]) = IF k = L - n + 1 THEN Ahead' ELSE StartTime(chunks'[k + 1])
      BY <1>1 DEF Chain, ChainFrom, L
  <2> DEFINE m == n + k - 1
  <2>1. m \in 1 .. L /\ chunks'[k] = all[m] /\ (m = L <=> k = L - n + 1)
      BY <1>1, <1>2, <1>3 DEF L
  <2>2. EndTimeOf(all[m]) = IF m = L THEN Ahead' ELSE StartTime(all[m + 1])
      BY <1>1, <2>1 DEF Chain, ChainFrom, L
  <2>3. k # L - n + 1 => chunks'[k + 1] = all[m + 1]
    <3>1. k # L - n + 1 => k + 1 \in 1 .. L - n + 1 /\ n + (k + 1) - 1 = m + 1
      <4>1. L \in Nat /\ n \in 1 .. L + 1
          BY <1>1, <1>2
      <4> QED
          BY <4>1
    <3> QED
        BY <1>3, <3>1
  <2> QED
      BY <2>1, <2>2, <2>3
<1>6. ASSUME Torn' PROVE playTime - EndTimeOf(chunk[1]) > SyncFrames + Margin(back)
  <2>1. CASE Torn
      BY <2>1 DEF QueueInv
  <2>2. CASE ~Torn
    <3>1. chunk # <<>> /\ EndTimeOf(chunk[1]) = StartTime(all[1]) /\ EndTimeOf(chunk[1]) # Following'
        BY <1>0, <1>1, <1>6, <2>2 DEF Torn
    <3>2. n # 1
      <4>1. SUFFICES ASSUME n = 1 PROVE FALSE
          OBVIOUS
      <4>2. 1 \in 1 .. L - n + 1 /\ n + 1 - 1 = 1 /\ Len(chunks') # 0
          BY <1>1, <1>2, <4>1 DEF L
      <4>3. chunks'[1] = all[1] /\ chunks' # <<>>
          BY <1>3, <4>2
      <4> QED
          BY <3>1, <4>3 DEF Following
    <3>3. playTime - all[1].time > MaxAge
        BY <1>1, <1>2, <3>2 DEF L
    <3>4. StartTime(all[1]) = all[1].time /\ all[1].time \in Int
        BY <1>1, <1>2 DEF StartTime, Chunks, L
    <3>5. SyncFrames + Margin(back) <= SyncFrames + back * MaxJumps
      <4>1. jumps \in Nat /\ MaxJumps \in Nat /\ SyncFrames \in Nat
          BY AudioAssumption DEF AudioTypes, SyncFrames
      <4>2. back * (MaxJumps - jumps) = back * MaxJumps - back * jumps /\ back * jumps \in Nat
          BY <4>1
      <4> QED
          BY <4>1, <4>2 DEF Margin
    <3>6. Margin(back) \in Int /\ SyncFrames \in Int /\ back * MaxJumps \in Int /\ MaxAge \in Int
          /\ playTime \in Int
        BY AudioAssumption DEF AudioTypes, SyncFrames, Margin
    <3> QED
        BY <3>1, <3>3, <3>4, <3>5, <3>6
  <2> QED
      BY <2>1, <2>2
<1>7. received' = <<>> => chunk' = <<>> /\ chunks' = <<>>
    BY <1>0, DecodedFacts
<1>8. WholeQueue(chunk') /\ Len(chunk') <= 1
    BY <1>0 DEF QueueInv
<1>9. Torn' => playTime' - EndTimeOf(chunk'[1]) > SyncFrames + Margin(back)'
    BY <1>0, <1>6 DEF Margin
<1> QED
    BY <1>4, <1>5, <1>7, <1>8, <1>9 DEF QueueInv, Chain, ChainFrom

----------------------------------------------------------------------------
(* A buffer is filled                                                      *)

\* A chain that is cut into this.chunk and the chunks behind it is the queue, and
\* nothing is missing in it.
LEMMA QueueCut ==
    ASSUME NEW back, NEW q, WholeQueue(q), Chain(q, Ahead), Untouched(q),
           received = <<>> => q = <<>>,
           chunk' = Front(q), chunks' = Behind(q), UNCHANGED vars
    PROVE  QueueInv(back)' /\ ~(Torn') /\ Queue' = q
<1>1. received' = received /\ Ahead' = Ahead
    BY DEF vars, Ahead, Undelivered
<1>2. /\ WholeQueue(Front(q)) /\ Len(Front(q)) <= 1
      /\ WholeQueue(Behind(q)) /\ Chain(Behind(q), Ahead)
      /\ \A k \in 1 .. Len(Behind(q)) : Behind(q)[k].idx = 0
      /\ (Front(q) = <<>>) = (q = <<>>)
      /\ q = <<>> => Behind(q) = <<>>
      /\ Front(q) \o Behind(q) = q
      /\ q # <<>> => EndTimeOf(Front(q)[1]) = IF Behind(q) = <<>> THEN Ahead ELSE StartTime(Behind(q)[1])
    BY SplitQueue
<1>3. ~(Torn')
  <2>1. Following' = IF Behind(q) = <<>> THEN Ahead ELSE StartTime(Behind(q)[1])
      BY <1>1 DEF Following
  <2> QED
      BY <1>2, <2>1 DEF Torn
<1>4. Queue' = q
    BY <1>2 DEF Queue
<1>5. Chain(chunks', Ahead') /\ WholeQueue(chunk') /\ WholeQueue(chunks')
    BY <1>1, <1>2
<1>6. QueueInv(back)'
    BY <1>1, <1>2, <1>3, <1>5 DEF QueueInv, Chain, ChainFrom
<1> QED
    BY <1>3, <1>4, <1>6

\* After a buffer has been filled, the queue is what was left of the chain that
\* it was filled from.
LEMMA QueueFilled ==
    ASSUME NEW back, NEW q, WholeQueue(q), Chain(q, Ahead), Untouched(q), q # <<>>,
           received # <<>>, NEW silent \in Int, NEW add \in Int,
           Fill(q, silent, add), UNCHANGED vars
    PROVE  /\ QueueInv(back)' /\ ~(Torn')
           /\ Queue' = Left(q, silent, add) /\ chunks' = Behind(Queue')
<1> DEFINE r == Left(q, silent, add)
<1>1. WholeQueue(r) /\ Chain(r, Ahead) /\ Untouched(r)
    BY LeftOfChain
<1>2. chunk' = Front(r) /\ chunks' = Behind(r)
    BY DEF Fill, Left
<1> HIDE DEF r
<1> QED
    BY <1>1, <1>2, QueueCut DEF r

\* What hard synchronisation fills a buffer from.
Sought(q) ==
    LET left == DropOld(q)
    IN  <<Read(left[1], Skipped(Age(left)))>> \o Tail(left)

\* Hard synchronisation drops chunks that are over, and this.chunk when others
\* are missing behind it.  It is left with a chain that starts at the time of the
\* buffer, or later if its first chunk does; that chunk does not when the
\* queue was late.
LEMMA SoughtFacts ==
    ASSUME NEW back \in Nat, Inv, AudioTypes, QueueInv(back), Queue # <<>>, DropOld(Queue) # <<>>
    PROVE  /\ Age(DropOld(Queue)) \in Int
           /\ WholeQueue(Sought(Queue)) /\ Chain(Sought(Queue), Ahead)
           /\ Untouched(Sought(Queue)) /\ LaterOf(Sought(Queue), Queue) /\ Sought(Queue) # <<>>
           /\ StartTime(Sought(Queue)[1]) = playTime + Silent(Age(DropOld(Queue)))
           /\ Age(Queue) >= 0 /\ (Torn => playTime >= Following) => Silent(Age(DropOld(Queue))) = 0
<1> DEFINE q == Queue
           L == Len(q)
           Over(k) == playTime - StartTime(q[k]) > Remaining(q[k])
           Stops(k) == /\ \A j \in 1 .. k - 1 : Over(j)
                       /\ k <= L => ~Over(k)
           n == CHOOSE k \in 1 .. L + 1 : Stops(k)
           T == {k \in 1 .. L + 1 : k <= L => ~Over(k)}
           left == DropOld(q)
           age == Age(left)
           s == Skipped(age)
<1>1. /\ WholeQueue(q) /\ Untouched(q)
      /\ ~Torn => Chain(q, Ahead)
      /\ chunk # <<>> =>
            q[1] = chunk[1] /\ ChainFrom(q, 2, Ahead) /\ (L # 1 => StartTime(q[2]) = Following)
    BY QueueFacts
<1>2. /\ q \in Seq(Chunks) /\ L \in Nat /\ playTime \in Int
      /\ \A k \in 1 .. L : /\ Whole(q[k]) /\ q[k] \in Chunks
                           /\ StartTime(q[k]) \in Int /\ Remaining(q[k]) \in Nat
                           /\ EndTimeOf(q[k]) = StartTime(q[k]) + Remaining(q[k])
  <2>1. q \in Seq(Chunks) /\ \A k \in 1 .. L : Whole(q[k])
      BY <1>1 DEF WholeQueue
  <2> HIDE DEF q
  <2>2. L \in Nat /\ playTime \in Int
      BY <2>1 DEF AudioTypes
  <2>3. ASSUME NEW k \in 1 .. L
        PROVE  /\ Whole(q[k]) /\ q[k] \in Chunks
               /\ StartTime(q[k]) \in Int /\ Remaining(q[k]) \in Nat
               /\ EndTimeOf(q[k]) = StartTime(q[k]) + Remaining(q[k])
    <3>1. Whole(q[k])
        BY <2>1
    <3> QED
        BY <3>1, WholeFacts DEF Whole, EndTimeOf
  <2> QED
      BY <2>1, <2>2, <2>3
<1>3. left = SubSeq(q, n, L)
    BY DEF DropOld
<1> HIDE DEF q, left
<1>4. \E k \in 1 .. L + 1 : Stops(k)
  <2>1. T \in SUBSET Nat /\ L + 1 \in T
      BY <1>2
  <2>2. PICK m \in T : \A j \in T : m <= j
    <3> HIDE DEF T
    <3> QED
        BY <2>1, LeastNumber
  <2>3. m \in 1 .. L + 1 /\ (m <= L => ~Over(m))
      OBVIOUS
  <2>4. ASSUME NEW j \in 1 .. m - 1 PROVE Over(j)
    <3>1. j \in 1 .. L /\ ~(m <= j)
        BY <1>2, <2>3
    <3>2. j \notin T
      <4> HIDE DEF T
      <4> QED
          BY <2>2, <3>1
    <3> QED
        BY <1>2, <3>1, <3>2
  <2> QED
      BY <2>3, <2>4
<1> HIDE DEF Stops
<1>5. n \in 1 .. L + 1 /\ Stops(n)
    BY <1>4
<1> HIDE DEF n
<1>6. n \in 1 .. L /\ ~Over(n) /\ \A j \in 1 .. n - 1 : Over(j)
  <2>1. n # L + 1
    <3>1. SUFFICES ASSUME n = L + 1 PROVE FALSE
        OBVIOUS
    <3>2. left = <<>>
        BY <1>2, <1>3, <3>1, SubSeqEmpty
    <3> QED
        BY <3>2 DEF left, q
  <2> QED
      BY <1>2, <1>5, <2>1 DEF Stops
<1>7. /\ left \in Seq(Chunks) /\ Len(left) = L - n + 1 /\ left[1] = q[n]
      /\ left # <<>> /\ Tail(left) = SubSeq(q, n + 1, L)
  <2>1. /\ left \in Seq(Chunks) /\ Len(left) = L - n + 1
        /\ \A k \in 1 .. L - n + 1 : left[k] = q[n + k - 1]
      BY <1>2, <1>3, <1>6, SubSeqProperties
  <2>2. n \in Nat /\ 1 \in 1 .. L - n + 1 /\ n + 1 - 1 = n
      BY <1>2, <1>6
  <2>3. left[1] = q[n] /\ left # <<>>
      BY <1>2, <2>1, <2>2
  <2>4. Tail(left) = SubSeq(q, n + 1, L)
    <3>1. \A k \in n .. L : q[k] \in Chunks
        BY <1>2, <1>6
    <3> HIDE DEF L
    <3> QED
        BY <1>2, <1>3, <2>2, <3>1
  <2> QED
      BY <2>1, <2>3, <2>4
<1>8. ASSUME NEW k \in 1 .. n - 1
      PROVE  k \in 1 .. L /\ playTime > EndTimeOf(q[k])
    BY <1>2, <1>6
<1>9. ASSUME Torn PROVE n >= 2 /\ chunk # <<>>
  <2>1. chunk # <<>> /\ q[1] = chunk[1] /\ playTime - EndTimeOf(q[1]) > SyncFrames + Margin(back)
      BY <1>1, <1>9 DEF QueueInv, Torn
  <2>2. SyncFrames + Margin(back) >= 0 /\ SyncFrames \in Int /\ Margin(back) \in Int
      BY AudioAssumption DEF AudioTypes, SyncFrames, Margin
  <2>3. 1 \in 1 .. L
      BY <1>2, <1>6
  <2>4. Over(1)
      BY <1>2, <2>1, <2>2, <2>3
  <2> QED
      BY <1>2, <1>6, <2>1, <2>4
<1>10. ChainFrom(q, n, Ahead)
  <2>1. CASE Torn
      BY <1>1, <1>6, <1>9, <2>1 DEF ChainFrom
  <2>2. CASE ~Torn
      BY <1>1, <1>6, <2>2 DEF Chain, ChainFrom
  <2> QED
      BY <2>1, <2>2
<1>11. age = playTime - StartTime(q[n]) /\ age \in Int /\ age <= Remaining(q[n])
  <2>1. Head(left) = q[n]
      BY <1>7
  <2> QED
      BY <1>2, <1>6, <2>1 DEF Age
<1> HIDE DEF age
<1>12. s \in Nat /\ s <= Remaining(q[n]) /\ age = s - Silent(age) /\ Silent(age) \in Nat
    BY <1>2, <1>6, <1>11 DEF Skipped, Silent
<1> HIDE DEF s
<1>13. Sought(q) = Rest(q, n, s)
    BY <1>7 DEF Sought, Rest, s, age, left
<1>14. /\ WholeQueue(Rest(q, n, s)) /\ Chain(Rest(q, n, s), Ahead) /\ Rest(q, n, s) # <<>>
       /\ Len(Rest(q, n, s)) = L - n + 1
       /\ Rest(q, n, s)[1] = Read(q[n], s)
       /\ \A k \in 2 .. L - n + 1 : Rest(q, n, s)[k] = q[n + k - 1]
    BY <1>1, <1>6, <1>10, <1>12, RestOfChain
<1>15. Untouched(Rest(q, n, s)) /\ LaterOf(Rest(q, n, s), q)
  <2>1. \A k \in 2 .. L - n + 1 : n + k - 1 \in 2 .. L
      BY <1>2, <1>6
  <2>2. \A k \in 2 .. L - n + 1 : q[n + k - 1].idx = 0
      BY <1>1, <2>1 DEF Untouched
  <2> QED
      BY <1>14, <2>1, <2>2 DEF Untouched, LaterOf
<1>16. StartTime(Read(q[n], s)) = playTime + Silent(age)
  <2>1. StartTime(Read(q[n], s)) = StartTime(q[n]) + s
      BY <1>2, <1>6, <1>12, ReadFacts
  <2> DEFINE t == StartTime(q[n])
             w == Silent(age)
  <2>2. t \in Int /\ s \in Nat /\ w \in Nat /\ playTime \in Int /\ playTime - t = s - w
    <3>1. t \in Int
        BY <1>2, <1>6
    <3>2. age = playTime - t /\ age = s - w
        BY <1>11, <1>12
    <3> QED
        BY <1>2, <1>12, <3>1, <3>2
  <2> HIDE DEF t, w
  <2>3. t + s = playTime + w
      BY <2>2
  <2> QED
      BY <2>1, <2>3, Zenon DEF t, w
<1>17. ASSUME Age(q) >= 0, Torn => playTime >= Following PROVE Silent(age) = 0
  <2>1. CASE n = 1
    <3>1. Head(q) = q[n]
        BY <1>2, <1>6, <2>1
    <3> QED
        BY <1>11, <1>17, <3>1 DEF Age, Silent
  <2>2. CASE n # 1
    <3>1. n - 1 \in 1 .. n - 1 /\ (n - 1) + 1 = n /\ n - 1 # L
        BY <1>2, <1>6, <2>2
    <3>2. playTime >= StartTime(q[n])
      <4>1. CASE Torn /\ n = 2
          BY <1>1, <1>6, <1>9, <1>17, <4>1
      <4>2. CASE ~(Torn /\ n = 2)
        <5>1. EndTimeOf(q[n - 1]) = StartTime(q[n])
          <6>1. CASE Torn
            <7>1. n - 1 \in 2 .. L /\ ChainFrom(q, 2, Ahead)
                BY <1>1, <1>2, <1>6, <1>9, <4>2, <6>1
            <7> QED
                BY <3>1, <7>1 DEF ChainFrom
          <6>2. CASE ~Torn
              BY <1>1, <1>2, <1>6, <3>1, <6>2 DEF Chain, ChainFrom
          <6> QED
              BY <6>1, <6>2
        <5>2. playTime > EndTimeOf(q[n - 1])
            BY <1>8, <3>1
        <5>3. EndTimeOf(q[n - 1]) \in Int
            BY <1>2, <1>6, <5>1
        <5> QED
            BY <1>2, <5>1, <5>2, <5>3
      <4> QED
          BY <4>1, <4>2
    <3> QED
        BY <1>2, <1>6, <1>11, <3>2 DEF Silent
  <2> QED
      BY <2>1, <2>2
<1> QED
    BY <1>11, <1>13, <1>14, <1>15, <1>16, <1>17 DEF q, age, left

----------------------------------------------------------------------------
(* When frames are heard                                                   *)

\* While a buffer is filled, no more corrections are made than are wanted.
LEMMA CorrectionBounds ==
    ASSUME NEW r \in Nat \ {0}, NEW a \in Nat, NEW k \in 0 .. r - 1
    PROVE  k \div Ceil(r, a + 1) \in 0 .. a
<1> DEFINE n == Ceil(r, a + 1)
           c == k \div n
<1>1. n \in Nat \ {0} /\ r <= n * (a + 1)
    BY CeilBounds
<1> HIDE DEF n
<1>2. c \in Nat /\ c * n <= k
    BY <1>1, DivBounds
<1> HIDE DEF c
<1>3. SUFFICES ASSUME c >= a + 1 PROVE FALSE
    BY <1>2 DEF c, n
<1>4. n * (a + 1) <= c * n
    BY <1>1, <1>2, <1>3
<1>5. n * (a + 1) \in Nat /\ c * n \in Nat
    BY <1>1, <1>2
<1> QED
    BY <1>1, <1>2, <1>4, <1>5

\* A frame is heard earlier in the buffer than it is read when frames before it
\* have been dropped, and later when frames have been inserted, but by no more
\* frames than that.
LEMMA SoftPlaces ==
    ASSUME NEW add \in Int, NEW k \in 1 .. Frames + add, NEW p \in 0 .. Frames - 1,
           Place(0, add, k) <= p, HeardAt(0, add, k, p)
    PROVE  /\ add >= 0 => p - (k - 1) \in -add .. 0
           /\ add <= 0 => p - (k - 1) \in 0 .. -add
<1> DEFINE r == Frames + add
           a == Absolute(add)
           n == Ceil(r, a + 1)
           c == (k - 1) \div n
           d == k \div n
<1>1. Frames \in Nat \ {0} /\ r \in Nat \ {0} /\ a \in Nat /\ k \in 1 .. r
    BY AudioAssumption DEF Absolute
<1>2. c \in 0 .. a
  <2>1. k - 1 \in 0 .. r - 1
      BY <1>1
  <2> HIDE DEF r, a
  <2> QED
      BY <1>1, <2>1, CorrectionBounds
<1>3. d \in Nat
  <2>1. n \in Nat \ {0} /\ k \in Nat
      BY <1>1, CeilBounds
  <2> HIDE DEF n
  <2> QED
      BY <2>1, DivBounds
<1>4. /\ Place(0, add, k) = k - 1 + (IF add = 0 THEN 0 ELSE IF add > 0 THEN -c ELSE c)
      /\ Place(0, add, k + 1) = k + (IF add = 0 THEN 0 ELSE IF add > 0 THEN -d ELSE d)
  <2>1. /\ Place(0, add, k) = 0 + k - 1 + Corrections(add, k)
        /\ Place(0, add, k + 1) = 0 + (k + 1) - 1 + Corrections(add, k + 1)
      BY DEF Place
  <2>2. /\ Corrections(add, k) = IF add = 0 THEN 0 ELSE IF add > 0 THEN -c ELSE c
        /\ Corrections(add, k + 1) = IF add = 0 THEN 0 ELSE IF add > 0 THEN -d ELSE d
    <3>1. (k + 1) - 1 = k
        BY <1>1
    <3> QED
        BY <3>1 DEF Corrections
  <2>3. 0 + k - 1 = k - 1 /\ 0 + (k + 1) - 1 = k
      BY <1>1
  <2> QED
      BY <2>1, <2>2, <2>3
<1>5. Wanted(0, add) = r
    BY <1>1 DEF Wanted
<1> HIDE DEF c, d, n
<1>6. p < Place(0, add, k + 1) \/ p = Place(0, add, k)
    BY DEF HeardAt
<1>7. CASE add >= 0
    BY <1>1, <1>2, <1>3, <1>4, <1>6, <1>7 DEF Absolute
<1>8. CASE add < 0
  <2>1. p - (k - 1) >= 0
      BY <1>1, <1>2, <1>4, <1>8
  <2>2. p - (k - 1) <= a
    <3>1. CASE k = r
        BY <1>1, <1>8, <3>1 DEF Absolute
    <3>2. CASE k # r
      <4>1. k \in 0 .. r - 1
          BY <1>1, <3>2
      <4>2. d \in 0 .. a
        <5> HIDE DEF r, a
        <5> QED
            BY <1>1, <4>1, CorrectionBounds DEF d, n
      <4> QED
          BY <1>1, <1>2, <1>4, <1>6, <1>8, <4>2
    <3> QED
        BY <3>1, <3>2
  <2> QED
      BY <1>1, <1>8, <2>1, <2>2 DEF Absolute
<1> QED
    BY <1>7, <1>8

\* Without corrections, a frame is heard where it is read.
LEMMA HardPlaces ==
    ASSUME NEW silent \in Int, NEW k \in Int, NEW p \in Int, HeardAt(silent, 0, k, p)
    PROVE  p = silent + k - 1
BY DEF HeardAt, Place, Corrections

\* A buffer filled by soft synchronisation is on time everywhere if it is at its
\* start.
LEMMA SoftOnTime ==
    ASSUME NEW q, WholeQueue(q), NEW e, Chain(q, e), q # <<>>, playTime \in Int,
           Absolute(Age(q)) <= SyncFrames, NEW p \in 0 .. Frames - 1,
           Filled(q, 0, AddFrames(Age(q)))[p] # Silence
    PROVE  Absolute(playTime + p - Filled(q, 0, AddFrames(Age(q)))[p]) <= SyncFrames
<1> DEFINE age == Age(q)
           add == AddFrames(age)
           f == Filled(q, 0, add)[p]
           t == StartTime(q[1])
<1>1. t \in Int /\ age = playTime - t /\ age \in Int
  <2>1. t \in Int
      BY EndOfChain
  <2>2. Head(q) = q[1]
      BY DEF WholeQueue
  <2> QED
      BY <2>1, <2>2 DEF Age
<1>2. /\ add \in Int
      /\ age >= 0 => add \in 0 .. age
      /\ age <= 0 => add \in age .. 0
    BY <1>1, SoftSyncApproaches
<1>3. PICK k \in 1 .. Wanted(0, add) :
          Place(0, add, k) <= p /\ HeardAt(0, add, k, p) /\ f = t + k - 1
  <2>1. 0 \in Int /\ add \in Int
      BY <1>2
  <2> HIDE DEF add
  <2>2. f # Silence
      BY DEF add
  <2> QED
      BY <2>1, <2>2, FilledFrames
<1> HIDE DEF add, f
<1>4. Wanted(0, add) = Frames + add /\ Frames \in Nat
    BY <1>2, AudioAssumption DEF Wanted
<1>5. /\ add >= 0 => p - (k - 1) \in -add .. 0
      /\ add <= 0 => p - (k - 1) \in 0 .. -add
    BY <1>2, <1>3, <1>4, SoftPlaces
<1>6. playTime + p - f = age + (p - (k - 1))
    BY <1>1, <1>3, <1>4
<1>7. Absolute(age) <= SyncFrames /\ SyncFrames \in Int
    BY AudioAssumption DEF SyncFrames
<1> HIDE DEF age, t
<1>8. k \in Int /\ p \in Int
    BY <1>4, <1>2
<1> QED
    BY <1>1, <1>2, <1>5, <1>6, <1>7, <1>8 DEF Absolute, f, add, age

\* A buffer filled by hard synchronisation is exact.
LEMMA HardOnTime ==
    ASSUME NEW q, WholeQueue(q), NEW e, Chain(q, e), q # <<>>, playTime \in Int,
           NEW silent \in Nat, StartTime(q[1]) = playTime + silent,
           NEW p \in 0 .. Frames - 1, Filled(q, silent, 0)[p] # Silence
    PROVE  Filled(q, silent, 0)[p] = playTime + p
<1>1. PICK k \in 1 .. Wanted(silent, 0) :
          HeardAt(silent, 0, k, p) /\ Filled(q, silent, 0)[p] = StartTime(q[1]) + k - 1
  <2>1. silent \in Int /\ 0 \in Int
      OBVIOUS
  <2> QED
      BY <2>1, FilledFrames
<1>2. k \in Int /\ p \in Int
    BY AudioAssumption DEF Wanted
<1>3. p = silent + k - 1
    BY <1>1, <1>2, HardPlaces
<1>4. Filled(q, silent, 0)[p] = (playTime + silent) + k - 1
    BY <1>1, Zenon
<1>5. (playTime + silent) + k - 1 = playTime + p
    BY <1>2, <1>3
<1> QED
    BY <1>4, <1>5

\* In the buffer that is filled, frames are on time.
BufferOnTime ==
    \A p \in 0 .. Frames - 1 :
        buffer'[p] # Silence => Absolute(playTime + p - buffer'[p]) <= SyncFrames

\* With a queue that is late, this.chunk is still the first to be heard from, or
\* is dropped by hard synchronisation.
LEMMA TornIsLate ==
    ASSUME NEW back \in Nat, AudioTypes, QueueInv(back), Torn
    PROVE  Queue # <<>> /\ Age(Queue) > SyncFrames /\ ~Waits(Queue) /\ IsHardSync(Queue)
<1>1. chunk # <<>> /\ Queue # <<>> /\ WholeQueue(Queue) /\ Queue[1] = chunk[1]
    BY QueueFacts DEF Torn
<1> DEFINE c == Queue[1]
           t == StartTime(c)
           r == Remaining(c)
           m == Margin(back)
<1>2. 1 \in 1 .. Len(Queue) /\ Head(Queue) = c
    BY <1>1 DEF WholeQueue
<1>3. t \in Int /\ r \in Nat /\ EndTimeOf(c) = t + r
    BY <1>1, <1>2, WholeFacts DEF WholeQueue, EndTimeOf
<1>4. playTime \in Int /\ SyncFrames \in Nat /\ m \in Nat /\ Frames \in Nat
    BY AudioAssumption DEF AudioTypes, SyncFrames, Margin
<1>5. playTime - EndTimeOf(c) > SyncFrames + m
    BY <1>1 DEF QueueInv
<1> HIDE DEF m
<1>6. Age(Queue) = playTime - t
    BY <1>2 DEF Age
<1> HIDE DEF c, t, r
<1>7. Age(Queue) \in Int /\ Age(Queue) > SyncFrames
    BY <1>3, <1>4, <1>5, <1>6
<1> QED
    BY <1>1, <1>4, <1>7 DEF Waits, IsHardSync, Absolute

\* A buffer that stays silent keeps the queue.
LEMMA WaitQueue ==
    ASSUME NEW back \in Nat, AudioTypes, QueueInv(back), Wait, UNCHANGED vars
    PROVE  /\ QueueInv(back)' /\ BufferOnTime
           /\ ~(Torn') /\ chunks' = Behind(Queue') /\ LaterOf(Queue', Queue)
           /\ Queue' = Queue
<1>1. ~Torn
    BY TornIsLate DEF Wait
<1>2. WholeQueue(Queue) /\ Chain(Queue, Ahead) /\ Untouched(Queue)
    BY <1>1, QueueFacts
<1>3. received = <<>> => Queue = <<>>
  <2>1. <<>> \o <<>> = <<>>
      OBVIOUS
  <2> QED
      BY <2>1 DEF QueueInv, Queue
<1>4. chunk' = Front(Queue) /\ chunks' = Behind(Queue) /\ \A p \in 0 .. Frames - 1 : buffer'[p] = Silence
    BY DEF Wait, Hold
<1> DEFINE q == Queue
<1>5. QueueInv(back)' /\ ~(Torn') /\ Queue' = q
  <2>1. /\ WholeQueue(q) /\ Chain(q, Ahead) /\ Untouched(q) /\ (received = <<>> => q = <<>>)
        /\ chunk' = Front(q) /\ chunks' = Behind(q)
      BY <1>2, <1>3, <1>4
  <2> HIDE DEF q
  <2> QED
      BY <2>1, QueueCut
<1>6. LaterOf(Queue', Queue)
    BY <1>5 DEF LaterOf
<1> QED
    BY <1>4, <1>5, <1>6 DEF BufferOnTime

\* Soft synchronisation keeps the queue, and frames are on time.
LEMMA SoftSyncQueue ==
    ASSUME NEW back \in Nat, AudioTypes, QueueInv(back), Queue # <<>>, SoftSync, UNCHANGED vars
    PROVE  /\ QueueInv(back)' /\ BufferOnTime
           /\ ~(Torn') /\ chunks' = Behind(Queue') /\ LaterOf(Queue', Queue)
           /\ WholeQueue(Queue) /\ Chain(Queue, Ahead) /\ Untouched(Queue)
           /\ Queue' = Left(Queue, 0, AddFrames(Age(Queue)))
<1> DEFINE q == Queue
           age == Age(q)
           add == AddFrames(age)
<1>1. ~Torn
    BY TornIsLate DEF SoftSync
<1>2. WholeQueue(q) /\ Chain(q, Ahead) /\ Untouched(q) /\ q # <<>>
    BY <1>1, QueueFacts
<1>3. received # <<>>
  <2>1. <<>> \o <<>> = <<>>
      OBVIOUS
  <2> QED
      BY <2>1 DEF QueueInv, Queue
<1>4. Fill(q, 0, add) /\ ~IsHardSync(q)
    BY DEF SoftSync
<1>5. playTime \in Int /\ SyncFrames \in Int
    BY AudioAssumption DEF AudioTypes, SyncFrames
<1> HIDE DEF q
<1>6. age \in Int
  <2>1. StartTime(q[1]) \in Int /\ Head(q) = q[1]
      BY <1>2, EndOfChain DEF WholeQueue
  <2> QED
      BY <1>5, <2>1 DEF Age
<1>7. Absolute(age) <= SyncFrames
    BY <1>4, <1>5, <1>6 DEF IsHardSync, Absolute
<1>8. add \in Int /\ 0 \in Int
    BY <1>6, SoftSyncApproaches
<1>9. /\ QueueInv(back)' /\ ~(Torn') /\ Queue' = Left(q, 0, add) /\ chunks' = Behind(Queue')
      /\ LaterOf(Queue', q)
  <2> HIDE DEF add
  <2>1. QueueInv(back)' /\ ~(Torn') /\ Queue' = Left(q, 0, add) /\ chunks' = Behind(Queue')
      BY <1>2, <1>3, <1>4, <1>8, QueueFilled
  <2>2. LaterOf(Left(q, 0, add), q)
      BY <1>2, <1>8, LeftOfChain
  <2> QED
      BY <2>1, <2>2
<1>10. BufferOnTime
  <2> SUFFICES ASSUME NEW p \in 0 .. Frames - 1, buffer'[p] # Silence
               PROVE  Absolute(playTime + p - buffer'[p]) <= SyncFrames
      BY DEF BufferOnTime
  <2>1. buffer' = Filled(q, 0, add)
      BY <1>4 DEF Fill
  <2>2. Filled(q, 0, add)[p] # Silence
      BY <2>1
  <2>3. Absolute(playTime + p - Filled(q, 0, add)[p]) <= SyncFrames
      BY <1>2, <1>5, <1>7, <2>2, SoftOnTime
  <2> QED
      BY <2>1, <2>3
<1> QED
    BY <1>2, <1>9, <1>10 DEF q

\* Hard synchronisation keeps the queue, and frames are on time.
LEMMA HardSyncQueue ==
    ASSUME NEW back \in Nat, Inv, AudioTypes, QueueInv(back), HardSync, UNCHANGED vars
    PROVE  /\ QueueInv(back)' /\ BufferOnTime
           /\ ~(Torn') /\ chunks' = Behind(Queue') /\ LaterOf(Queue', Queue)
           /\ IF DropOld(Queue) = <<>> THEN Queue' = <<>>
              ELSE Queue' = Left(Sought(Queue), Silent(Age(DropOld(Queue))), 0)
<1> DEFINE left == DropOld(Queue)
           silent == Silent(Age(left))
           q == Sought(Queue)
<1>1. CASE left = <<>>
  <2>1. Hold(<<>>)
      BY <1>1 DEF HardSync
  <2>2. /\ chunk' = Front(<<>>) /\ chunks' = Behind(<<>>)
        /\ \A p \in 0 .. Frames - 1 : buffer'[p] = Silence
      BY <2>1 DEF Hold
  <2>3. WholeQueue(<<>>) /\ Chain(<<>>, Ahead) /\ Untouched(<<>>)
    <3>1. Len(<<>>) = 0 /\ <<>> \in Seq(Chunks)
        BY EmptySeq
    <3> QED
        BY <3>1 DEF WholeQueue, Chain, ChainFrom, Untouched
  <2>4. QueueInv(back)' /\ ~(Torn') /\ Queue' = <<>> /\ chunks' = Behind(Queue')
      BY <2>2, <2>3, QueueCut
  <2>5. LaterOf(<<>>, Queue)
      BY DEF LaterOf
  <2> QED
      BY <1>1, <2>2, <2>4, <2>5 DEF BufferOnTime
<1>2. CASE left # <<>>
  <2>1. Fill(q, silent, 0)
      BY <1>2 DEF HardSync, Sought
  <2>2. Queue # <<>> /\ received # <<>>
    <3>1. Queue # <<>>
      <4>1. SUFFICES ASSUME Queue = <<>> PROVE FALSE
          OBVIOUS
      <4>2. Len(<<>>) = 0 /\ \A m : SubSeq(<<>>, m, 0) = <<>> \/ m \notin 1 .. 1
          OBVIOUS
      <4> QED
          BY <1>2, <4>1, <4>2 DEF DropOld
    <3>2. <<>> \o <<>> = <<>>
        OBVIOUS
    <3> QED
        BY <3>1, <3>2 DEF QueueInv, Queue
  <2>3. /\ Age(left) \in Int
        /\ WholeQueue(q) /\ Chain(q, Ahead) /\ Untouched(q) /\ q # <<>>
        /\ StartTime(q[1]) = playTime + silent
      BY <1>2, <2>2, SoughtFacts
  <2>4. silent \in Nat /\ silent \in Int /\ 0 \in Int
      BY <2>3 DEF Silent
  <2>5. /\ QueueInv(back)' /\ ~(Torn')
        /\ Queue' = Left(q, silent, 0) /\ chunks' = Behind(Queue')
    <3> HIDE DEF q, silent
    <3> QED
        BY <2>1, <2>2, <2>3, <2>4, QueueFilled
  <2>6. BufferOnTime
    <3> SUFFICES ASSUME NEW p \in 0 .. Frames - 1, buffer'[p] # Silence
                 PROVE  Absolute(playTime + p - buffer'[p]) <= SyncFrames
        BY DEF BufferOnTime
    <3>1. buffer' = Filled(q, silent, 0)
        BY <2>1 DEF Fill
    <3>2. Filled(q, silent, 0)[p] # Silence
        BY <3>1
    <3>3. playTime \in Int
        BY DEF AudioTypes
    <3>4. Filled(q, silent, 0)[p] = playTime + p
      <4> HIDE DEF q, silent
      <4> QED
          BY <2>3, <2>4, <3>2, <3>3, HardOnTime
    <3>5. buffer'[p] = playTime + p
        BY <3>1, <3>4
    <3>6. Absolute(playTime + p - (playTime + p)) <= SyncFrames
        BY <3>3, AudioAssumption DEF Absolute, SyncFrames
    <3> QED
        BY <3>5, <3>6
  <2>7. LaterOf(Queue', Queue)
    <3>1. LaterOf(q, Queue) /\ LaterOf(Left(q, silent, 0), q)
      <4>1. LaterOf(q, Queue)
          BY <1>2, <2>2, SoughtFacts
      <4> HIDE DEF q, silent
      <4>2. LaterOf(Left(q, silent, 0), q)
          BY <2>3, <2>4, LeftOfChain
      <4> QED
          BY <4>1, <4>2
    <3> DEFINE r == Left(q, silent, 0)
    <3>2. Queue' = r
        BY <2>5
    <3> HIDE DEF r, q
    <3>3. LaterOf(r, Queue)
        BY <3>1 DEF LaterOf, r
    <3> QED
        BY <3>2, <3>3, Zenon
  <2> QED
      BY <1>2, <2>5, <2>6, <2>7
<1> QED
    BY <1>1, <1>2

----------------------------------------------------------------------------
(* Frames are heard on time                                                *)

\* When playing begins nothing is queued and the buffer is silent.
LEMMA PlaybackInvInit ==
    ASSUME NEW back \in Nat, PlaybackInit
    PROVE  PlaybackInv(back)
<1>1. Inv
    BY InvInit DEF PlaybackInit
<1>2. AudioTypes
    BY AudioAssumption DEF PlaybackInit, AudioInit, AudioTypes
<1>3. QueueInv(back)
  <2>1. chunk = <<>> /\ chunks = <<>> /\ Len(<<>>) = 0 /\ <<>> \in Seq(Chunks)
      BY EmptySeq DEF PlaybackInit, AudioInit
  <2>2. WholeQueue(<<>>) /\ Chain(<<>>, Ahead)
      BY <2>1 DEF WholeQueue, Chain, ChainFrom
  <2> QED
      BY <2>1, <2>2 DEF QueueInv, Torn
<1>4. OnTime
    BY DEF PlaybackInit, AudioInit, OnTime
<1> QED
    BY <1>1, <1>2, <1>3, <1>4 DEF PlaybackInv

\* Whatever leaves the buffer alone keeps its frames on time.
LEMMA OnTimeKept ==
    ASSUME OnTime, Gapless' => Gapless, UNCHANGED <<buffer, bufferTime>>
    PROVE  OnTime'
BY DEF OnTime

\* The clock changes by what the margin leaves room for.
LEMMA ClockQueue ==
    ASSUME NEW back \in Nat, NEW d \in Int, -d <= back, AudioTypes, QueueInv(back),
           ClockChanges(d), UNCHANGED vars
    PROVE  AudioTypes' /\ QueueInv(back)' /\ Margin(back)' = Margin(back) - back
<1>1. /\ received' = received /\ Ahead' = Ahead /\ chunk' = chunk /\ chunks' = chunks
      /\ jumps < MaxJumps /\ jumps' = jumps + 1 /\ playTime' = playTime + d
      /\ bufferTime' = bufferTime
    BY DEF ClockChanges, vars, Ahead, Undelivered
<1>2. jumps \in Nat /\ MaxJumps \in Nat /\ playTime \in Int /\ SyncFrames \in Nat
    BY AudioAssumption DEF AudioTypes, SyncFrames
<1>3. AudioTypes'
    BY <1>1, <1>2 DEF AudioTypes
<1>4. Margin(back)' = Margin(back) - back /\ Margin(back) \in Int
  <2>1. back * (MaxJumps - (jumps + 1)) = back * (MaxJumps - jumps) - back
      BY <1>2
  <2> QED
      BY <1>1, <1>2, <2>1 DEF Margin
<1>5. Torn' <=> Torn
    BY <1>1 DEF Torn, Following
<1>6. ASSUME Torn PROVE playTime' - EndTimeOf(chunk'[1]) > SyncFrames + Margin(back)'
  <2> DEFINE e == EndTimeOf(chunk[1])
             m == Margin(back)
  <2>1. playTime - e > SyncFrames + m
      BY <1>6 DEF QueueInv
  <2>2. e \in Int
    <3>1. chunk # <<>> /\ chunk \in Seq(Chunks)
        BY <1>6 DEF Torn, QueueInv, WholeQueue
    <3>2. 1 \in 1 .. Len(chunk)
        BY <3>1, EmptySeq
    <3> QED
        BY <3>2, WholeFacts DEF QueueInv, WholeQueue
  <2> HIDE DEF e, m
  <2>3. (playTime + d) - e > SyncFrames + (m - back)
      BY <1>2, <1>4, <2>1, <2>2 DEF m
  <2> QED
      BY <1>1, <1>4, <2>3 DEF e, m
<1>7. WholeQueue(chunk') /\ WholeQueue(chunks') /\ Chain(chunks', Ahead')
    BY <1>1 DEF QueueInv
<1>8. QueueInv(back)'
    BY <1>1, <1>5, <1>6, <1>7 DEF QueueInv, Chain, ChainFrom
<1> QED
    BY <1>3, <1>4, <1>8

\* Filling a buffer keeps the invariant, whatever happens in it.
LEMMA BufferQueue ==
    ASSUME NEW back \in Nat, Inv, AudioTypes, QueueInv(back), NextBuffer, UNCHANGED vars
    PROVE  QueueInv(back)' /\ BufferOnTime
<1>1. CASE Wait
    BY <1>1, WaitQueue
<1>2. CASE HardSync
    BY <1>2, HardSyncQueue
<1>3. CASE SoftSync
    BY <1>3, SoftSyncQueue DEF SoftSync, Waits
<1> QED
    BY <1>1, <1>2, <1>3 DEF NextBuffer

\* Every step keeps the invariant.
LEMMA PlaybackInvNext ==
    ASSUME NEW back \in Nat, \A d \in Jumps : -d <= back,
           SyncFrames + back * MaxJumps <= MaxAge,
           PlaybackInv(back), [PlaybackNext]_playbackVars
    PROVE  PlaybackInv(back)'
<1>0. Inv /\ AudioTypes /\ (Gapless => QueueInv(back)) /\ OnTime
    BY DEF PlaybackInv
<1>1. CASE UNCHANGED playbackVars
  <2>1. UNCHANGED vars /\ UNCHANGED audioVars
      BY <1>1 DEF playbackVars
  <2>2. received' = received /\ Ahead' = Ahead /\ (Gapless' <=> Gapless)
      BY <2>1 DEF vars, Ahead, Undelivered, Gapless
  <2>3. Inv'
      BY <1>0, <2>1, InvNext
  <2>4. AudioTypes' /\ OnTime'
      BY <1>0, <2>1, <2>2, OnTimeKept DEF audioVars, AudioTypes
  <2> QED
      BY <1>0, <2>1, <2>2, <2>3, <2>4, QueueUnmoved DEF PlaybackInv
<1>2. CASE \E n \in ChunkSizes, gap \in Gaps : ChunkArrives(n, gap)
  <2> PICK n \in ChunkSizes, gap \in Gaps : ChunkArrives(n, gap)
      BY <1>2
  <2>1. Decode(n, gap) /\ UNCHANGED audioVars
      BY DEF ChunkArrives
  <2>2. received' # <<>> /\ (Gapless' => Gapless) /\ (received # <<>> => Ahead' = Ahead)
      BY <1>0, <2>1, ArrivalAhead
  <2>3. Inv'
      BY <1>0, <2>1, DecodeInv
  <2>4. AudioTypes' /\ OnTime'
      BY <1>0, <2>1, <2>2, OnTimeKept DEF audioVars, AudioTypes
  <2> QED
      BY <1>0, <2>1, <2>2, <2>3, <2>4, QueueUnmoved DEF PlaybackInv
<1>3. CASE DecodeStep
  <2>1. Step /\ UNCHANGED audioVars
      BY <1>3 DEF DecodeStep
  <2>2. received' = received /\ Ahead' = Ahead /\ (Gapless' <=> Gapless)
      BY <1>0, <2>1, DecoderStepAhead DEF Gapless
  <2>3. Inv'
      BY <1>0, <2>1, InvNext DEF Next
  <2>4. AudioTypes' /\ OnTime'
      BY <1>0, <2>1, <2>2, OnTimeKept DEF audioVars, AudioTypes
  <2> QED
      BY <1>0, <2>1, <2>2, <2>3, <2>4, QueueUnmoved DEF PlaybackInv
<1>4. CASE ChunkDecoded
  <2>1. Return /\ AddChunk(Decoded) /\ at = "done"
      BY <1>4 DEF ChunkDecoded, Return
  <2>2. Inv' /\ (Gapless' <=> Gapless)
      BY <1>0, <2>1, ReturnInv DEF Return, Gapless
  <2>3. AudioTypes' /\ OnTime'
      BY <1>0, <2>1, <2>2, OnTimeKept DEF AddChunk, AudioTypes
  <2>4. Gapless => QueueInv(back)'
      BY <1>0, <2>1, ChunkAddedQueue
  <2> QED
      BY <2>2, <2>3, <2>4 DEF PlaybackInv
<1>5. CASE BufferPlayed
  <2>1. NextBuffer /\ UNCHANGED vars /\ playTime' = playTime + Frames
        /\ bufferTime' = playTime /\ jumps' = jumps
      BY <1>5 DEF BufferPlayed, NextBuffer
  <2>2. Inv' /\ (Gapless' <=> Gapless)
      BY <1>0, <2>1, InvNext DEF vars, Gapless
  <2>3. AudioTypes'
      BY <1>0, <2>1, AudioAssumption DEF AudioTypes
  <2>4. Gapless => QueueInv(back)' /\ BufferOnTime
      BY <1>0, <2>1, BufferQueue
  <2>5. OnTime'
      BY <2>1, <2>2, <2>4 DEF OnTime, BufferOnTime
  <2> QED
      BY <2>2, <2>3, <2>4, <2>5 DEF PlaybackInv
<1>6. CASE \E d \in Jumps : TimeAnswered(d)
  <2> PICK d \in Jumps : TimeAnswered(d)
      BY <1>6
  <2>1. ClockChanges(d) /\ UNCHANGED vars /\ d \in Int /\ -d <= back
      BY AudioAssumption DEF TimeAnswered
  <2>2. Inv' /\ (Gapless' <=> Gapless)
      BY <1>0, <2>1, InvNext DEF vars, Gapless
  <2>3. AudioTypes'
      BY <1>0, <2>1, AudioAssumption DEF AudioTypes, ClockChanges
  <2>4. OnTime'
      BY <1>0, <2>1, <2>2, OnTimeKept DEF ClockChanges
  <2>5. Gapless => QueueInv(back)'
      BY <1>0, <2>1, ClockQueue
  <2> QED
      BY <2>2, <2>3, <2>4, <2>5 DEF PlaybackInv
<1> QED
    BY <1>1, <1>2, <1>3, <1>4, <1>5, <1>6 DEF PlaybackNext

\* Every frame is heard within SyncMs of its time, however decoding, seeking and
\* correcting interleave: for every bitreader, buffer, rate and block size, and
\* any changes of the clock that do not set it back by as much as addChunk() lets
\* a chunk be late.  (A chunk that addChunk() has dropped from behind this.chunk
\* would be missing in a clock set back behind it, and what follows be heard in
\* its place.)
THEOREM OnTimeHolds ==
    ASSUME NEW back \in Nat, \A d \in Jumps : -d <= back,
           SyncFrames + back * MaxJumps <= MaxAge
    PROVE  PlaybackSpec => []OnTime
<1> DEFINE J == PlaybackInv(back)
<1>1. PlaybackInit => J
    BY PlaybackInvInit
<1>2. J /\ [PlaybackNext]_playbackVars => J'
    BY PlaybackInvNext
<1>3. J => OnTime
    BY DEF PlaybackInv
<1> HIDE DEF J
<1> QED
    BY <1>1, <1>2, <1>3, PTL DEF PlaybackSpec

----------------------------------------------------------------------------
(* What is left when chunks have been dropped                              *)

\* How long a chunk gets: what was left in the bitreader comes out with it.
LengthInv ==
    /\ bitreader <= Capacity
    /\ at \in {"loop", "single", "done"} =>
          /\ 2 * (first - (next - Len(pcm))) <= Capacity
          /\ Len(received) - first + 1 \in ChunkSizes

\* Chunks have at most longest blocks; and what has been dropped behind this.chunk
\* would be over by now, whatever the clock still does.
NearInv(back, longest) ==
    /\ \A k \in 1 .. Len(chunks) : Len(chunks[k].blocks) <= longest
    /\ Torn => playTime - Following > Margin(back)

\* The decoder keeps the bound on what is left in the bitreader.
LEMMA LengthInvNext ==
    ASSUME Inv, LengthInv, [Next]_vars
    PROVE  LengthInv'
<1>0. /\ Capacity \in Nat /\ bitreader \in Nat /\ next \in Nat /\ first \in Nat /\ flacChunk \in Nat
      /\ pcm \in Seq(Nat) /\ Len(pcm) \in Nat /\ received \in Seq(Nat) /\ Len(received) \in Nat
    BY FlacAssumption DEF Inv, TypeOK
<1>1. CASE UNCHANGED vars
    BY <1>1 DEF vars, LengthInv
<1>2. CASE \E n \in ChunkSizes, gap \in Gaps : Decode(n, gap)
  <2> PICK n \in ChunkSizes, gap \in Gaps : Decode(n, gap)
      BY <1>2
  <2>1. n \in Nat \ {0} /\ gap \in Nat /\ EndTime + gap \in Nat
      BY <1>0, FlacAssumption DEF EndTime
  <2>2. Len(received') = Len(received) + n
    <3> DEFINE t == EndTime + gap
    <3>1. received' = received \o [k \in 1 .. n |-> t + k - 1] /\ t \in Nat /\ n \in Nat
        BY <2>1 DEF Decode
    <3> HIDE DEF t
    <3> QED
        BY <1>0, <3>1, Extended
  <2>3. /\ pcm' = <<>> /\ Len(pcm') = 0 /\ next' = next /\ first' = Len(received) + 1
        /\ bitreader' = bitreader /\ at = "idle"
      BY DEF Decode
  <2>4. bitreader = 2 * (Len(received) - next + 1)
    <3>1. flacChunk = 0 /\ half = 0
        BY <2>3 DEF Inv, CountInv
    <3>2. bitreader + flacChunk + half = 2 * (Len(received) - next + 1)
        BY DEF Inv, CountInv
    <3> QED
        BY <1>0, <3>1, <3>2
  <2>5. 2 * (first' - (next' - Len(pcm'))) <= Capacity
    <3>1. first' - (next' - Len(pcm')) = Len(received) - next + 1
        BY <1>0, <2>3
    <3> QED
        BY <2>4, <3>1 DEF LengthInv
  <2>6. Len(received') - first' + 1 \in ChunkSizes
    <3>1. Len(received') - first' + 1 = n
        BY <1>0, <2>1, <2>2, <2>3
    <3> QED
        BY <3>1
  <2> QED
      BY <2>3, <2>5, <2>6 DEF LengthInv
<1>3. CASE Return
    BY <1>3 DEF Return, LengthInv
<1>4. CASE Step
  <2>1. CASE ReadHeader \/ EndOfMetadata
      BY <1>0, <2>1 DEF ReadHeader, EndOfMetadata, LengthInv, Inv, CountInv
  <2>2. CASE CallSingle \/ LeaveLoop \/ FrameSync
      BY <1>0, <2>2 DEF CallSingle, LeaveLoop, FrameSync, LengthInv
  <2>3. CASE ReadCallback \/ ReadFrame
    <3>1. bitreader' <= Capacity
        BY <1>0, <2>3 DEF ReadCallback, ReadFrame, Minimum, LengthInv
    <3>2. at = "single" /\ UNCHANGED <<first, next, pcm, received>>
        BY <2>3 DEF ReadCallback, ReadFrame
    <3> QED
        BY <3>1, <3>2 DEF LengthInv
  <2>4. CASE WriteCallback
    <3>1. received[next] \in Nat
      <4>1. next \in 1 .. Len(received)
          BY <2>4 DEF Inv, TypeOK, CountInv, WriteCallback
      <4> QED
          BY <1>0, <4>1
    <3>2. /\ Len(pcm') = Len(pcm) + 1 /\ next' = next + 1 /\ at = "single"
          /\ first' = first /\ received' = received /\ bitreader' = bitreader
        BY <1>0, <2>4, <3>1 DEF WriteCallback
    <3>3. next' - Len(pcm') = next - Len(pcm)
        BY <1>0, <3>2
    <3> QED
        BY <3>2, <3>3 DEF LengthInv
  <2> QED
      BY <1>4, <2>1, <2>2, <2>3, <2>4 DEF Step
<1> QED
    BY <1>1, <1>2, <1>3, <1>4 DEF Next

\* A decoded chunk is no longer than a chunk of the server and what the bitreader
\* holds.
LEMMA DecodedLength ==
    ASSUME NEW longest \in Nat, \A n \in ChunkSizes : 2 * n + Capacity <= 2 * longest,
           Inv, LengthInv, at = "done"
    PROVE  Len(pcm) <= longest
<1> DEFINE n == Len(received) - first + 1
           cached == first - (next - Len(pcm))
<1>1. /\ Len(received) \in Nat /\ Len(pcm) \in Nat /\ next \in Nat /\ first \in Nat /\ Capacity \in Nat
      /\ next <= Len(received) + 1
    BY FlacAssumption DEF Inv, TypeOK, CountInv
<1>2. n \in ChunkSizes /\ 2 * cached <= Capacity
    BY DEF LengthInv
<1>3. 2 * n + Capacity <= 2 * longest
    BY <1>2
<1>4. Len(pcm) <= n + cached /\ n \in Int /\ cached \in Int
    BY <1>1
<1> HIDE DEF n, cached
<1> QED
    BY <1>1, <1>2, <1>3, <1>4

\* What addChunk() drops is over.
LEMMA ChunkAddedNear ==
    ASSUME NEW back \in Nat, NEW longest \in Nat,
           longest * BlockSize + back * MaxJumps <= MaxAge,
           \A n \in ChunkSizes : 2 * n + Capacity <= 2 * longest,
           Inv, LengthInv, AudioTypes, Gapless, QueueInv(back), NearInv(back, longest),
           at = "done", Return, AddChunk(Decoded)
    PROVE  NearInv(back, longest)'
<1>0. /\ chunk' = chunk /\ playTime' = playTime /\ jumps' = jumps /\ received' = received
    BY DEF AddChunk, Return
<1>p. PICK all, n : Added(all, n)
    BY ChunkAdded
<1> DEFINE L == Len(all)
<1>1. /\ WholeQueue(all) /\ L = Len(chunks) + 1
      /\ \A k \in 1 .. L : all[k].idx = 0
      /\ \A k \in 1 .. Len(chunks) : all[k] = chunks[k]
      /\ all[L] = Decoded
      /\ Chain(all, Ahead') /\ StartTime(all[1]) = Following
      /\ n \in 1 .. L + 1
      /\ \A k \in 1 .. n - 1 : playTime - all[k].time > MaxAge
      /\ chunks' \in Seq(Chunks) /\ Len(chunks') = L - n + 1
      /\ \A k \in 1 .. L - n + 1 : chunks'[k] = all[n + k - 1]
    BY <1>p DEF Added
<1>2. L \in Nat \ {0} /\ Len(chunks) \in Nat /\ \A k \in 1 .. L : Whole(all[k]) /\ all[k] \in Chunks
  <2>1. Len(chunks) \in Nat /\ all \in Seq(Chunks)
      BY <1>1 DEF QueueInv, WholeQueue
  <2> QED
      BY <1>1, <2>1 DEF WholeQueue
<1>c. Chain(all, Ahead') => \A k \in 1 .. L : EndTimeOf(all[k]) = IF k = L THEN Ahead' ELSE StartTime(all[k + 1])
    BY DEF Chain, ChainFrom
<1> HIDE DEF L
<1>3. \A k \in 1 .. L : Len(all[k].blocks) <= longest
  <2> TAKE k \in 1 .. L
  <2>1. CASE k = L
    <3>1. Len(all[k].blocks) = Len(pcm)
        BY <1>1, <2>1, DecodedFacts
    <3> QED
        BY <3>1, DecodedLength
  <2>2. CASE k # L
    <3>1. k \in 1 .. Len(chunks)
        BY <1>1, <1>2, <2>2
    <3> QED
        BY <1>1, <3>1 DEF NearInv
  <2> QED
      BY <2>1, <2>2
<1>4. \A k \in 1 .. Len(chunks') : Len(chunks'[k].blocks) <= longest
  <2>1. L \in Nat /\ n \in 1 .. L + 1
      BY <1>1, <1>2
  <2>2. \A k \in 1 .. L - n + 1 : n + k - 1 \in 1 .. L
      BY <2>1
  <2> QED
      BY <1>1, <1>3, <2>2
<1>5. CASE n = 1
  <2>1. Len(chunks') # 0 /\ 1 \in 1 .. L - n + 1 /\ n + 1 - 1 = 1
      BY <1>1, <1>2, <1>5
  <2>2. chunks' # <<>> /\ chunks'[1] = all[1]
      BY <1>1, <2>1
  <2>3. Following' = Following
      BY <1>1, <2>2 DEF Following
  <2>4. Torn' <=> Torn
      BY <1>0, <2>3 DEF Torn
  <2> QED
      BY <1>0, <1>4, <2>3, <2>4 DEF NearInv, Margin
<1>6. CASE n # 1
  <2> DEFINE c == all[n - 1]
  <2>1. n - 1 \in 1 .. L /\ n - 1 \in 1 .. n - 1 /\ (n - 1) + 1 = n
      BY <1>1, <1>2, <1>6
  <2>2. Following' = EndTimeOf(c)
    <3>1. EndTimeOf(c) = IF n - 1 = L THEN Ahead' ELSE StartTime(all[n])
        BY <1>1, <1>c, <2>1
    <3>2. CASE n - 1 = L
      <4>1. Len(chunks') = 0
          BY <1>1, <1>2, <3>2
      <4>2. chunks' = <<>>
          BY <1>1, <4>1, EmptySeq
      <4> QED
          BY <3>1, <3>2, <4>2 DEF Following
    <3>3. CASE n - 1 # L
      <4>1. 1 \in 1 .. L - n + 1 /\ n + 1 - 1 = n /\ Len(chunks') # 0
          BY <1>1, <1>2, <2>1, <3>3
      <4>2. chunks'[1] = all[n] /\ chunks' # <<>>
          BY <1>1, <4>1
      <4> QED
          BY <3>1, <3>3, <4>2 DEF Following
    <3> QED
        BY <3>2, <3>3
  <2>3. /\ Whole(c) /\ c \in Chunks /\ c.idx = 0 /\ Len(c.blocks) <= longest
        /\ playTime - c.time > MaxAge
      BY <1>1, <1>2, <1>3, <2>1
  <2> HIDE DEF c
  <2>4. c.time \in Int /\ Len(c.blocks) \in Nat /\ BlockSize \in Nat /\ MaxAge \in Nat /\ playTime \in Int
      BY <2>3, AudioAssumption DEF Chunks, AudioTypes
  <2>5. EndTimeOf(c) <= c.time + longest * BlockSize /\ EndTimeOf(c) \in Int
    <3>1. EndTimeOf(c) = c.time + Len(c.blocks) * BlockSize
        BY <2>3, <2>4 DEF EndTimeOf, StartTime, Remaining
    <3>2. Len(c.blocks) * BlockSize <= longest * BlockSize
        BY <2>3, <2>4
    <3> QED
        BY <2>4, <3>1, <3>2
  <2>6. Margin(back) <= back * MaxJumps /\ Margin(back) \in Int
    <3>1. jumps \in Nat /\ MaxJumps \in Nat
        BY AudioAssumption DEF AudioTypes
    <3>2. back * (MaxJumps - jumps) = back * MaxJumps - back * jumps /\ back * jumps \in Nat
        BY <3>1
    <3> QED
        BY <3>1, <3>2 DEF Margin
  <2>7. playTime - EndTimeOf(c) > Margin(back)
    <3>1. longest * BlockSize \in Int /\ back * MaxJumps \in Int
        BY <2>4, AudioAssumption
    <3> QED
        BY <2>3, <2>4, <2>5, <2>6, <3>1
  <2>8. Margin(back)' = Margin(back)
      BY <1>0 DEF Margin
  <2> QED
      BY <1>0, <1>4, <2>2, <2>7, <2>8 DEF NearInv
<1> QED
    BY <1>5, <1>6

\* What follows this.chunk has a time.
LEMMA FollowingType ==
    ASSUME NEW back, Inv, QueueInv(back), chunk # <<>>
    PROVE  Following \in Int
<1>1. CASE chunks = <<>>
  <2>1. received # <<>> /\ received \in Seq(Nat)
      BY DEF QueueInv, Inv, TypeOK
  <2>2. received[1] \in Nat
    <3>1. 1 \in 1 .. Len(received)
        BY <2>1, EmptySeq
    <3> QED
        BY <2>1, <3>1
  <2>3. Undelivered \in Int /\ BlockSize \in Int
      BY AudioAssumption DEF Inv, TypeOK, Undelivered
  <2> QED
      BY <1>1, <2>2, <2>3 DEF Following, Ahead
<1>2. CASE chunks # <<>>
  <2>1. 1 \in 1 .. Len(chunks)
      BY <1>2, EmptySeq DEF QueueInv, WholeQueue
  <2> QED
      BY <1>2, <2>1, WholeFacts DEF Following, QueueInv, WholeQueue
<1> QED
    BY <1>1, <1>2

\* The clock goes on to change by what the margin leaves room for.
LEMMA ClockNear ==
    ASSUME NEW back \in Nat, NEW d \in Int, -d <= back, NEW longest, Inv, AudioTypes,
           QueueInv(back), NearInv(back, longest), ClockChanges(d), UNCHANGED vars
    PROVE  NearInv(back, longest)'
<1>1. chunk' = chunk /\ chunks' = chunks /\ Ahead' = Ahead /\ playTime' = playTime + d
    BY DEF ClockChanges, vars, Ahead, Undelivered
<1>2. Margin(back)' = Margin(back) - back
    BY ClockQueue
<1>3. Following' = Following /\ (Torn' <=> Torn)
    BY <1>1 DEF Following, Torn
<1>4. playTime \in Int /\ Margin(back) \in Int
    BY AudioAssumption DEF AudioTypes, Margin
<1>5. ASSUME Torn PROVE Following \in Int
    BY <1>5, FollowingType DEF Torn
<1>6. ASSUME Torn PROVE playTime' - Following' > Margin(back)'
  <2> DEFINE m == Margin(back)
             f == Following
  <2>1. playTime - f > m /\ f \in Int /\ m \in Int
      BY <1>4, <1>5, <1>6 DEF NearInv
  <2> HIDE DEF m, f
  <2>2. (playTime + d) - f > m - back
      BY <1>4, <2>1
  <2> QED
      BY <1>1, <1>2, <1>3, <2>2 DEF m, f
<1> QED
    BY <1>1, <1>3, <1>6 DEF NearInv

\* Filling a buffer takes chunks from the front.
LEMMA BufferNear ==
    ASSUME NEW back \in Nat, NEW longest, Inv, AudioTypes, QueueInv(back),
           NearInv(back, longest), NextBuffer, UNCHANGED vars
    PROVE  NearInv(back, longest)'
<1>1. QueueInv(back)' /\ ~(Torn') /\ chunks' = Behind(Queue') /\ LaterOf(Queue', Queue)
  <2>1. CASE Wait
      BY <2>1, WaitQueue
  <2>2. CASE HardSync
      BY <2>2, HardSyncQueue
  <2>3. CASE SoftSync
      BY <2>3, SoftSyncQueue DEF SoftSync, Waits
  <2> QED
      BY <2>1, <2>2, <2>3 DEF NextBuffer
<1> DEFINE r == Queue'
<1>2. r \in Seq(Chunks)
  <2>1. chunk' \in Seq(Chunks) /\ chunks' \in Seq(Chunks)
      BY <1>1 DEF QueueInv, WholeQueue
  <2> QED
      BY <2>1, ConcatProperties DEF Queue
<1>3. chunks' = Behind(r) /\ \A k \in 2 .. Len(r) : \E j \in 2 .. Len(Queue) : r[k] = Queue[j]
    BY <1>1 DEF LaterOf
<1> HIDE DEF r
<1>4. ASSUME NEW k \in 1 .. Len(chunks') PROVE \E j \in 1 .. Len(chunks) : chunks'[k] = chunks[j]
  <2>1. CASE r = <<>>
    <3>1. chunks' = <<>> /\ Len(<<>>) = 0
        BY <1>3, <2>1 DEF Behind
    <3> QED
        BY <3>1
  <2>2. CASE r # <<>>
    <3>1. /\ chunks' = Tail(r) /\ Len(Tail(r)) = Len(r) - 1
          /\ \A i \in 1 .. Len(r) - 1 : Tail(r)[i] = r[i + 1]
        BY <1>2, <1>3, <2>2, HeadTailProperties DEF Behind
    <3>2. k + 1 \in 2 .. Len(r) /\ chunks'[k] = r[k + 1]
        BY <1>2, <3>1
    <3>3. PICK j \in 2 .. Len(Queue) : r[k + 1] = Queue[j]
        BY <1>3, <3>2
    <3>4. \E i \in 1 .. Len(chunks) : Queue[j] = chunks[i]
        BY QueueFacts
    <3> QED
        BY <3>2, <3>3, <3>4
  <2> QED
      BY <2>1, <2>2
<1>5. \A k \in 1 .. Len(chunks') : Len(chunks'[k].blocks) <= longest
    BY <1>4 DEF NearInv
<1> QED
    BY <1>1, <1>5 DEF NearInv

\* A step that leaves the queue alone leaves it near.
LEMMA NearUnmoved ==
    ASSUME NEW back, NEW longest, QueueInv(back), NearInv(back, longest), UNCHANGED audioVars,
           received # <<>> => Ahead' = Ahead
    PROVE  NearInv(back, longest)'
<1>1. chunk' = chunk /\ chunks' = chunks /\ playTime' = playTime /\ jumps' = jumps
    BY DEF audioVars
<1>2. ASSUME chunk # <<>> PROVE Following' = Following
    BY <1>1, <1>2 DEF QueueInv, Following
<1>3. (Torn' <=> Torn) /\ Margin(back)' = Margin(back)
    BY <1>1, <1>2 DEF Torn, Margin
<1> QED
    BY <1>1, <1>2, <1>3 DEF NearInv, Torn

\* The inductive invariant of converging.
NearPlaybackInv(back, longest) ==
    PlaybackInv(back) /\ LengthInv /\ (Gapless => NearInv(back, longest))

\* When playing begins nothing has been dropped.
LEMMA NearInvInit ==
    ASSUME NEW back \in Nat, NEW longest, PlaybackInit
    PROVE  NearPlaybackInv(back, longest)
<1>1. LengthInv
    BY FlacAssumption DEF PlaybackInit, Init, LengthInv
<1>2. NearInv(back, longest)
    BY DEF PlaybackInit, AudioInit, NearInv, Torn
<1> QED
    BY <1>1, <1>2, PlaybackInvInit DEF NearPlaybackInv

\* Every step keeps the invariant.
LEMMA NearInvNext ==
    ASSUME NEW back \in Nat, NEW longest \in Nat, \A d \in Jumps : -d <= back,
           SyncFrames + back * MaxJumps <= MaxAge,
           longest * BlockSize + back * MaxJumps <= MaxAge,
           \A n \in ChunkSizes : 2 * n + Capacity <= 2 * longest,
           NearPlaybackInv(back, longest), [PlaybackNext]_playbackVars
    PROVE  NearPlaybackInv(back, longest)'
<1>0. /\ PlaybackInv(back) /\ Inv /\ AudioTypes /\ LengthInv
      /\ Gapless => QueueInv(back) /\ NearInv(back, longest)
    BY DEF NearPlaybackInv, PlaybackInv
<1>1. PlaybackInv(back)'
    BY <1>0, PlaybackInvNext
<1>2. LengthInv'
  <2>1. [Next]_vars
      BY DEF PlaybackNext, playbackVars, ChunkArrives, DecodeStep, ChunkDecoded, BufferPlayed,
             TimeAnswered, Next
  <2> QED
      BY <1>0, <2>1, LengthInvNext
<1>3. Gapless' => NearInv(back, longest)'
  <2>1. CASE UNCHANGED playbackVars
    <3>1. UNCHANGED audioVars /\ (Gapless' <=> Gapless) /\ Ahead' = Ahead
        BY <2>1 DEF playbackVars, vars, Ahead, Undelivered, Gapless
    <3> QED
        BY <1>0, <3>1, NearUnmoved
  <2>2. CASE \E n \in ChunkSizes, gap \in Gaps : ChunkArrives(n, gap)
    <3> PICK n \in ChunkSizes, gap \in Gaps : ChunkArrives(n, gap)
        BY <2>2
    <3>1. Decode(n, gap) /\ UNCHANGED audioVars
        BY DEF ChunkArrives
    <3>2. (Gapless' => Gapless) /\ (received # <<>> => Ahead' = Ahead)
        BY <1>0, <3>1, ArrivalAhead
    <3> QED
        BY <1>0, <3>1, <3>2, NearUnmoved
  <2>3. CASE DecodeStep
    <3>1. Step /\ UNCHANGED audioVars
        BY <2>3 DEF DecodeStep
    <3>2. Ahead' = Ahead /\ (Gapless' <=> Gapless)
        BY <1>0, <3>1, DecoderStepAhead DEF Gapless
    <3> QED
        BY <1>0, <3>1, <3>2, NearUnmoved
  <2>4. CASE ChunkDecoded
    <3>1. Return /\ AddChunk(Decoded) /\ at = "done" /\ (Gapless' <=> Gapless)
        BY <2>4 DEF ChunkDecoded, Return, Gapless
    <3> QED
        BY <1>0, <3>1, ChunkAddedNear
  <2>5. CASE BufferPlayed
    <3>1. NextBuffer /\ UNCHANGED vars /\ (Gapless' <=> Gapless)
        BY <2>5 DEF BufferPlayed, vars, Gapless
    <3> QED
        BY <1>0, <3>1, BufferNear
  <2>6. CASE \E d \in Jumps : TimeAnswered(d)
    <3> PICK d \in Jumps : TimeAnswered(d)
        BY <2>6
    <3>1. ClockChanges(d) /\ UNCHANGED vars /\ d \in Int /\ -d <= back /\ (Gapless' <=> Gapless)
        BY AudioAssumption DEF TimeAnswered, vars, Gapless
    <3> QED
        BY <1>0, <3>1, ClockNear
  <2> QED
      BY <2>1, <2>2, <2>3, <2>4, <2>5, <2>6 DEF PlaybackNext
<1> QED
    BY <1>1, <1>2, <1>3 DEF NearPlaybackInv

----------------------------------------------------------------------------
(* The stream comes to its time                                            *)

\* How late a chain is that begins behind the frames of a buffer.
LEMMA LatenessOfLeft ==
    ASSUME AudioTypes, NEW q, WholeQueue(q), NEW e, Chain(q, e), Untouched(q), q # <<>>,
           NEW silent \in Int, NEW add \in Int,
           Queue' = Left(q, silent, add), Queue' # <<>>, playTime' = playTime + Frames
    PROVE  /\ StartTime(q[1]) \in Int
           /\ Lateness' = (playTime + Frames) - (StartTime(q[1]) + ReadOff(silent, add))
<1> DEFINE r == Left(q, silent, add)
<1>1. WholeQueue(r) /\ (r # <<>> => StartTime(r[1]) = StartTime(q[1]) + ReadOff(silent, add))
    BY LeftOfChain
<1> HIDE DEF r
<1>2. Queue' = r /\ r # <<>> /\ Head(r) = r[1]
    BY <1>1 DEF r, WholeQueue
<1>3. Lateness' = playTime' - StartTime(Head(r))
    BY <1>2 DEF Lateness, StartTime
<1>4. StartTime(q[1]) \in Int
    BY EndOfChain
<1>5. playTime' - StartTime(Head(r)) = (playTime + Frames) - (StartTime(q[1]) + ReadOff(silent, add))
    BY <1>1, <1>2, Zenon
<1> QED
    BY <1>3, <1>4, <1>5, Zenon

\* A queue has a time.
LEMMA LatenessType ==
    ASSUME NEW back, AudioTypes, QueueInv(back), Queue # <<>>
    PROVE  Lateness \in Int /\ Lateness = Age(Queue) /\ Lateness = playTime - StartTime(Queue[1])
           /\ StartTime(Queue[1]) \in Int
<1>1. WholeQueue(Queue) /\ Queue \in Seq(Chunks)
    BY QueueFacts DEF WholeQueue
<1>2. 1 \in 1 .. Len(Queue) /\ Head(Queue) = Queue[1]
    BY <1>1, EmptySeq
<1>3. StartTime(Queue[1]) \in Int
    BY <1>1, <1>2, WholeFacts DEF WholeQueue
<1> QED
    BY <1>2, <1>3 DEF Lateness, Age, AudioTypes

\* Soft synchronisation makes up for what it adds.
LEMMA SoftLateness ==
    ASSUME NEW back \in Nat, AudioTypes, QueueInv(back), Queue # <<>>, SoftSync, UNCHANGED vars,
           Queue' # <<>>, playTime' = playTime + Frames
    PROVE  Lateness' = IF Frames + AddFrames(Lateness) > 0 THEN Lateness - AddFrames(Lateness)
                       ELSE Lateness + Frames
<1> DEFINE q == Queue
           add == AddFrames(Lateness)
           t == StartTime(q[1])
<1>1. Lateness \in Int /\ Lateness = Age(q) /\ Lateness = playTime - t /\ t \in Int
    BY LatenessType
<1>2. /\ WholeQueue(q) /\ Chain(q, Ahead) /\ Untouched(q) /\ q # <<>>
      /\ Queue' = Left(q, 0, add)
    BY <1>1, SoftSyncQueue
<1>3. add \in Int /\ 0 \in Int
    BY <1>1, SoftSyncApproaches
<1> HIDE DEF q, add
<1>4. Lateness' = (playTime + Frames) - (t + ReadOff(0, add))
    BY <1>2, <1>3, LatenessOfLeft
<1>5. ReadOff(0, add) = IF Frames + add > 0 THEN Frames + add ELSE 0
    BY <1>3, AudioAssumption DEF ReadOff, Wanted
<1>6. playTime \in Int /\ Frames \in Int
    BY AudioAssumption DEF AudioTypes
<1> HIDE DEF t
<1> QED
    BY <1>1, <1>3, <1>4, <1>5, <1>6 DEF add

\* Hard synchronisation seeks to the time of the buffer if the stream is late.
LEMMA HardLateness ==
    ASSUME NEW back \in Nat, Inv, AudioTypes, QueueInv(back), Queue # <<>>, Lateness >= 0,
           Torn => playTime >= Following, HardSync, UNCHANGED vars
    PROVE  /\ Queue' # <<>> /\ playTime' = playTime + Frames => Lateness' = 0
           /\ Queue' # <<>> => Fill(Sought(Queue), 0, 0)
<1> SUFFICES ASSUME Queue' # <<>>
             PROVE  /\ playTime' = playTime + Frames => Lateness' = 0
                    /\ Fill(Sought(Queue), 0, 0)
    OBVIOUS
<1> DEFINE q == Sought(Queue)
           left == DropOld(Queue)
<1>1. left # <<>> /\ Queue' = Left(q, Silent(Age(left)), 0)
    BY HardSyncQueue
<1>2. Age(Queue) >= 0
    BY LatenessType
<1>3. /\ WholeQueue(q) /\ Chain(q, Ahead) /\ Untouched(q) /\ q # <<>>
      /\ StartTime(q[1]) = playTime + Silent(Age(left))
      /\ Silent(Age(left)) = 0
    BY <1>1, <1>2, SoughtFacts
<1>4. Fill(q, 0, 0)
  <2>1. Fill(q, Silent(Age(left)), 0)
      BY <1>1 DEF HardSync, Sought
  <2> QED
      BY <1>3, <2>1, Zenon
<1> HIDE DEF q
<1>5. ASSUME playTime' = playTime + Frames PROVE Lateness' = 0
  <2>1. Queue' = Left(q, 0, 0)
      BY <1>1, <1>3, Zenon
  <2>2. Lateness' = (playTime + Frames) - (StartTime(q[1]) + ReadOff(0, 0))
    <3>1. 0 \in Int
        OBVIOUS
    <3> QED
        BY <1>3, <1>5, <2>1, <3>1, LatenessOfLeft
  <2>3. playTime \in Int /\ Frames \in Nat \ {0}
      BY AudioAssumption DEF AudioTypes
  <2>4. ReadOff(0, 0) = Frames
      BY <2>3 DEF ReadOff, Wanted
  <2>5. StartTime(q[1]) = playTime + 0
      BY <1>3, Zenon
  <2> QED
      BY <2>2, <2>3, <2>4, <2>5
<1> QED
    BY <1>4, <1>5 DEF q

\* A step of the stream that fills a buffer, in the invariant.
FillsBuffer(back, longest) == NearPlaybackInv(back, longest) /\ Fills

\* What has been dropped behind this.chunk is over.
LEMMA FillsFacts ==
    ASSUME NEW back \in Nat, NEW longest, FillsBuffer(back, longest)
    PROVE  /\ Inv /\ AudioTypes /\ QueueInv(back) /\ Queue # <<>> /\ Queue' # <<>>
           /\ NextBuffer /\ UNCHANGED vars /\ playTime' = playTime + Frames
           /\ Torn => playTime >= Following /\ Lateness > SyncFrames
           /\ Lateness \in Int /\ Lateness = Age(Queue)
           /\ SyncFrames \in Nat /\ Frames \in Nat \ {0}
<1>1. /\ Inv /\ AudioTypes /\ QueueInv(back) /\ NearInv(back, longest)
      /\ Queue # <<>> /\ Queue' # <<>>
      /\ NextBuffer /\ UNCHANGED vars /\ playTime' = playTime + Frames
    BY DEF FillsBuffer, Fills, NearPlaybackInv, PlaybackInv, BufferPlayed, NextBuffer
<1>2. SyncFrames \in Nat /\ Frames \in Nat \ {0} /\ playTime \in Int
    BY <1>1, AudioAssumption DEF SyncFrames, AudioTypes
<1>3. Lateness \in Int /\ Lateness = Age(Queue)
    BY <1>1, LatenessType
<1>4. ASSUME Torn PROVE playTime >= Following /\ Lateness > SyncFrames
  <2>1. Age(Queue) > SyncFrames
      BY <1>1, <1>4, TornIsLate
  <2>2. playTime - Following > Margin(back) /\ Margin(back) \in Nat
      BY <1>1, <1>4, AudioAssumption DEF NearInv, Margin, AudioTypes
  <2>3. Following \in Int
      BY <1>1, <1>4, FollowingType DEF Torn
  <2>4. playTime >= Following
    <3> DEFINE f == Following
    <3>1. playTime - f > Margin(back) /\ f \in Int
        BY <2>2, <2>3
    <3> HIDE DEF f
    <3>2. playTime >= f
        BY <1>2, <2>2, <3>1
    <3> QED
        BY <3>2 DEF f
  <2> QED
      BY <1>3, <2>1, <2>4
<1> QED
    BY <1>1, <1>2, <1>3, <1>4

\* A buffer that is filled leaves the stream closer to its time, whatever comes
\* between two buffers: from more than SyncMs late, by seeking, exactly at it;
\* otherwise, by dropping or inserting frames, nearer to it from the same side, and
\* never past it.  (A chunk that addChunk() drops is over for long enough if
\* chunks are short against MaxAge.)
THEOREM SyncConvergesHolds ==
    ASSUME NEW back \in Nat, NEW longest \in Nat, \A d \in Jumps : -d <= back,
           SyncFrames + back * MaxJumps <= MaxAge,
           longest * BlockSize + back * MaxJumps <= MaxAge,
           \A n \in ChunkSizes : 2 * n + Capacity <= 2 * longest
    PROVE  PlaybackSpec => SyncConverges
<1> DEFINE J == NearPlaybackInv(back, longest)
           Converges == /\ Lateness > SyncFrames => Lateness' = 0
                        /\ Lateness \in 0 .. SyncFrames => Lateness' \in 0 .. Lateness
                        /\ Lateness \in -SyncFrames .. 0 => Lateness' \in Lateness .. 0
                        /\ Absolute(Lateness) \in 1 .. SyncFrames /\ 10 * Absolute(Lateness) > MsRate
                              => Lateness' # Lateness
<1>1. PlaybackInit => J
    BY NearInvInit
<1>2. J /\ [PlaybackNext]_playbackVars => J'
    BY NearInvNext
<1>3. J /\ [PlaybackNext]_playbackVars => [Fills => Converges]_playbackVars
  <2> SUFFICES ASSUME J, Fills PROVE Converges
      OBVIOUS
  <2>0. FillsBuffer(back, longest)
      BY DEF FillsBuffer
  <2>1. /\ Inv /\ AudioTypes /\ QueueInv(back) /\ Queue # <<>> /\ Queue' # <<>>
        /\ NextBuffer /\ UNCHANGED vars /\ playTime' = playTime + Frames
        /\ Torn => playTime >= Following /\ Lateness > SyncFrames
        /\ Lateness \in Int /\ Lateness = Age(Queue)
        /\ SyncFrames \in Nat /\ Frames \in Nat \ {0}
      BY <2>0, FillsFacts
  <2> HIDE DEF J
  <2>2. CASE Wait
    <3>1. Lateness < -Frames
        BY <2>1, <2>2 DEF Wait, Waits
    <3>2. Lateness' = Lateness + Frames
      <4>1. Queue' = Queue
          BY <2>1, <2>2, WaitQueue
      <4>2. Lateness' = (playTime + Frames) - StartTime(Head(Queue))
          BY <2>1, <4>1, Zenon DEF Lateness, StartTime
      <4>3. Lateness = playTime - StartTime(Queue[1]) /\ StartTime(Queue[1]) \in Int
          BY <2>1, LatenessType
      <4>4. Head(Queue) = Queue[1]
          BY <2>1, QueueFacts DEF WholeQueue
      <4>5. playTime \in Int
          BY <2>1 DEF AudioTypes
      <4> DEFINE t == StartTime(Queue[1])
      <4>6. (playTime + Frames) - t = (playTime - t) + Frames
        <5>1. t \in Int
            BY <4>3
        <5> HIDE DEF t
        <5> QED
            BY <2>1, <4>5, <5>1
      <4> QED
          BY <4>2, <4>3, <4>4, <4>6, Zenon
    <3> QED
        BY <2>1, <3>1, <3>2
  <2>3. CASE HardSync
    <3>1. Absolute(Lateness) > SyncFrames
        BY <2>1, <2>3 DEF HardSync, IsHardSync
    <3>2. CASE Lateness > SyncFrames
      <4>1. Lateness' = 0
          BY <2>1, <2>3, <3>2, HardLateness
      <4> QED
          BY <2>1, <3>2, <4>1 DEF Absolute
    <3>3. CASE ~(Lateness > SyncFrames)
        BY <2>1, <3>1, <3>3 DEF Absolute
    <3> QED
        BY <3>2, <3>3
  <2>4. CASE SoftSync
    <3> DEFINE l == Lateness
               add == AddFrames(l)
    <3>1. Lateness' = IF Frames + add > 0 THEN l - add ELSE l + Frames
        BY <2>1, <2>4, SoftLateness
    <3>2. /\ add \in Int
          /\ l >= 0 => add \in 0 .. l
          /\ l <= 0 => add \in l .. 0
          /\ 10 * Absolute(l) > MsRate => add # 0
        BY <2>1, SoftSyncApproaches
    <3>3. Absolute(l) <= SyncFrames
        BY <2>1, <2>4 DEF SoftSync, IsHardSync, Absolute
    <3>4. l \in Int
        BY <2>1
    <3> HIDE DEF l, add
    <3>5. /\ l > SyncFrames => FALSE
          /\ l >= 0 => Lateness' \in 0 .. l
          /\ l <= 0 => Lateness' \in l .. 0
          /\ 10 * Absolute(l) > MsRate => Lateness' # l
        BY <2>1, <3>1, <3>2, <3>3, <3>4 DEF Absolute
    <3> QED
        BY <2>1, <3>5 DEF l
  <2> QED
      BY <2>1, <2>2, <2>3, <2>4 DEF NextBuffer
<1> HIDE DEF J
<1>4. PlaybackSpec => [][Fills => Converges]_playbackVars
    BY <1>1, <1>2, <1>3, PTL DEF PlaybackSpec
<1> QED
    BY <1>4 DEF SyncConverges

\* A place in a buffer that soft synchronisation fills gets a frame: places follow
\* each other with at most one left out, and none beyond the end is left out.
LEMMA EveryPlaceHeard ==
    ASSUME NEW add \in Int, Frames + add > 0,
           Absolute(add) * Absolute(add) <= Frames + add, NEW p \in 0 .. Frames - 1
    PROVE  \E k \in 1 .. Frames + add : Place(0, add, k) <= p /\ HeardAt(0, add, k, p)
<1> DEFINE r == Frames + add
           a == Absolute(add)
           n == Ceil(r, a + 1)
           pl(k) == Place(0, add, k)
           T == {k \in 1 .. r + 1 : pl(k) > p}
<1>1. Frames \in Nat \ {0} /\ r \in Nat \ {0} /\ a \in Nat /\ p \in Int
    BY AudioAssumption DEF Absolute
<1>2. n \in Nat \ {0}
    BY <1>1, CeilBounds
<1>3. ASSUME NEW k \in 1 .. r + 1
      PROVE  /\ (k - 1) \div n \in Nat
             /\ pl(k) = k - 1 + (IF add = 0 THEN 0
                                 ELSE IF add > 0 THEN -((k - 1) \div n) ELSE (k - 1) \div n)
             /\ pl(k) \in Int
  <2>1. k - 1 \in Nat /\ k \in Int
      BY <1>1
  <2>2. (k - 1) \div n \in Nat
    <3> HIDE DEF n
    <3> QED
        BY <1>2, <2>1, DivBounds
  <2>3. pl(k) = 0 + k - 1 + Corrections(add, k)
      BY DEF Place
  <2>4. Corrections(add, k) = IF add = 0 THEN 0
                              ELSE IF add > 0 THEN -((k - 1) \div n) ELSE (k - 1) \div n
      BY DEF Corrections
  <2> HIDE DEF pl, n
  <2> QED
      BY <2>1, <2>2, <2>3, <2>4
<1>4. pl(1) = 0
  <2>1. 1 \in 1 .. r + 1 /\ 1 - 1 = 0
      BY <1>1
  <2>2. 0 \div n = 0
    <3> HIDE DEF n
    <3>1. 0 * n <= 0 /\ 0 < (0 + 1) * n
        BY <1>2
    <3> QED
        BY <1>2, <3>1, DivUnique
  <2> HIDE DEF pl, n
  <2> QED
      BY <1>3, <2>1, <2>2
<1>5. CASE pl(r + 1) > p
  <2>1. T \in SUBSET Nat /\ r + 1 \in T
      BY <1>1, <1>5
  <2>2. PICK m \in T : \A j \in T : m <= j
    <3> HIDE DEF T
    <3> QED
        BY <2>1, LeastNumber
  <2>3. m \in 1 .. r + 1 /\ pl(m) > p
      OBVIOUS
  <2> HIDE DEF pl
  <2>4. m # 1
      BY <1>4, <2>3
  <2>5. m - 1 \in 1 .. r /\ m - 1 \in 1 .. r + 1 /\ (m - 1) + 1 = m /\ m - 1 \notin T
    <3>1. m - 1 \in 1 .. r /\ m - 1 \in 1 .. r + 1 /\ (m - 1) + 1 = m /\ ~(m <= m - 1)
        BY <1>1, <2>3, <2>4
    <3> HIDE DEF T
    <3> QED
        BY <2>2, <3>1
  <2>6. pl(m - 1) <= p /\ p < pl((m - 1) + 1)
      BY <1>1, <1>3, <2>3, <2>5
  <2> QED
      BY <2>5, <2>6 DEF pl, HeardAt
<1>6. CASE ~(pl(r + 1) > p)
  <2>1. r + 1 \in 1 .. r + 1 /\ (r + 1) - 1 = r
      BY <1>1
  <2>2. pl(r + 1) <= Frames - 1
    <3> HIDE DEF pl
    <3> QED
        BY <1>1, <1>3, <1>6, <2>1
  <2>3. add # 0
    <3>1. SUFFICES ASSUME add = 0 PROVE FALSE
        OBVIOUS
    <3>2. pl(r + 1) = r
      <4> HIDE DEF pl, n
      <4> QED
          BY <1>1, <1>3, <2>1, <3>1
    <3> QED
        BY <1>1, <2>2, <3>1, <3>2
  <2>4. n * (a + 1) = r
    <3>1. SUFFICES ASSUME n * (a + 1) # r PROVE FALSE
        OBVIOUS
    <3>2. pl(r + 1) = Frames
        BY <2>3, <3>1, BufferFilledExactly
    <3> QED
        BY <1>1, <2>2, <3>2
  <2>5. pl(r + 1) = IF add > 0 THEN Frames - 1 ELSE Frames + 1
      BY <2>3, <2>4, OneCorrectionTooMany
  <2>6. add > 0 /\ p = Frames - 1
    <3> HIDE DEF pl
    <3> QED
        BY <1>1, <1>6, <2>2, <2>5
  <2>7. (r - 1) \div n = a
    <3> HIDE DEF n, r, a
    <3>1. a * n <= r - 1 /\ r - 1 < (a + 1) * n
        BY <1>1, <1>2, <2>4
    <3> QED
        BY <1>1, <1>2, <3>1, DivUnique
  <2>8. pl(r) = p
    <3>1. r \in 1 .. r + 1
        BY <1>1
    <3>2. pl(r) = r - 1 + (-a)
      <4> HIDE DEF pl, n, r
      <4> QED
          BY <1>3, <2>6, <2>7, <3>1
    <3> QED
        BY <1>1, <2>6, <3>2 DEF Absolute
  <2>9. Wanted(0, add) = r /\ r \in 1 .. r
      BY <1>1 DEF Wanted
  <2> QED
      BY <1>1, <2>8, <2>9 DEF HeardAt
<1> QED
    BY <1>5, <1>6

\* What is added is at most one frame for each millisecond.
LEMMA AddFramesBound ==
    ASSUME NEW age \in Int, Absolute(age) <= SyncFrames
    PROVE  Absolute(AddFrames(age)) <= SyncMs
<1>1. MsRate \in Nat \ {0} /\ SyncMs \in Nat /\ SyncFrames = SyncMs * MsRate
    BY AudioAssumption DEF SyncFrames
<1>2. ASSUME NEW b \in Nat \ {0}, b <= SyncFrames PROVE Ceil(b, MsRate) \in 0 .. SyncMs
  <2> DEFINE c == Ceil(b, MsRate)
  <2>1. c \in Nat \ {0} /\ c * MsRate <= b + MsRate - 1
      BY <1>1, CeilBounds
  <2> HIDE DEF c
  <2>2. SUFFICES ASSUME c >= SyncMs + 1 PROVE FALSE
      BY <1>1, <2>1 DEF c
  <2>3. (SyncMs + 1) * MsRate <= c * MsRate
      BY <1>1, <2>1, <2>2
  <2>4. (SyncMs + 1) * MsRate = SyncMs * MsRate + MsRate /\ SyncMs * MsRate \in Nat
      BY <1>1
  <2>5. c * MsRate \in Nat
      BY <1>1, <2>1
  <2> QED
      BY <1>1, <1>2, <2>1, <2>3, <2>4, <2>5
<1>3. CASE age > 0
  <2>1. Ceil(age, MsRate) \in 0 .. SyncMs
      BY <1>2, <1>3 DEF Absolute
  <2> QED
      BY <1>1, <1>3, <2>1 DEF AddFrames, Absolute
<1>4. CASE age < 0
  <2>1. Ceil(-age, MsRate) \in 0 .. SyncMs
      BY <1>2, <1>4 DEF Absolute
  <2> QED
      BY <1>1, <1>4, <2>1 DEF AddFrames, Absolute
<1>5. CASE age = 0
    BY <1>1, <1>5 DEF AddFrames, Absolute
<1> QED
    BY <1>3, <1>4, <1>5

\* With frames left over, a place that a frame read falls on is not silent.
LEMMA NotSilent ==
    ASSUME NEW q, WholeQueue(q), NEW e, Chain(q, e), Untouched(q), q # <<>>, NEW add \in Int,
           Left(q, 0, add) # <<>>, NEW p \in 0 .. Frames - 1,
           \E k \in 1 .. Frames + add : Place(0, add, k) <= p /\ HeardAt(0, add, k, p)
    PROVE  Filled(q, 0, add)[p] # Silence
<1>1. 0 \in Int /\ Wanted(0, add) = Frames + add
    BY AudioAssumption DEF Wanted
<1>2. Wanted(0, add) <= EndOf(q)[Len(q)]
    BY <1>1, LeftOfChain
<1>3. PICK k \in 1 .. Wanted(0, add) : Place(0, add, k) <= p /\ HeardAt(0, add, k, p)
    BY <1>1
<1>4. k <= EndOf(q)[Len(q)]
  <2>1. EndOf(q)[Len(q)] \in Nat
      BY EndOfFacts DEF WholeQueue
  <2>2. Wanted(0, add) \in Int
      BY <1>1, AudioAssumption
  <2> QED
      BY <1>2, <2>1, <2>2
<1> QED
    BY <1>1, <1>3, <1>4, FilledFrames

\* With enough chunks no place of a buffer stays silent, for every rate and buffer
\* length: as many frames are inserted as fewer are read, and where the last place
\* would stay empty after a dropped frame, the last one read keeps it.
THEOREM NoHoleHolds ==
    ASSUME NEW back \in Nat, NEW longest \in Nat, \A d \in Jumps : -d <= back,
           SyncFrames + back * MaxJumps <= MaxAge,
           longest * BlockSize + back * MaxJumps <= MaxAge,
           \A n \in ChunkSizes : 2 * n + Capacity <= 2 * longest,
           SyncFrames <= Frames, SyncMs * SyncMs + SyncMs < Frames
    PROVE  PlaybackSpec => NoHole
<1> DEFINE J == NearPlaybackInv(back, longest)
           Full == \A p \in 0 .. Frames - 1 : buffer'[p] # Silence
<1>1. PlaybackInit => J
    BY NearInvInit
<1>2. J /\ [PlaybackNext]_playbackVars => J'
    BY NearInvNext
<1>3. J /\ [PlaybackNext]_playbackVars
          => [Fills /\ Lateness >= -SyncFrames => Full]_playbackVars
  <2> SUFFICES ASSUME J, Fills, Lateness >= -SyncFrames, NEW p \in 0 .. Frames - 1
               PROVE  buffer'[p] # Silence
      OBVIOUS
  <2>0. FillsBuffer(back, longest)
      BY DEF FillsBuffer
  <2>1. /\ Inv /\ AudioTypes /\ QueueInv(back) /\ Queue # <<>> /\ Queue' # <<>>
        /\ NextBuffer /\ UNCHANGED vars /\ playTime' = playTime + Frames
        /\ Torn => playTime >= Following /\ Lateness > SyncFrames
        /\ Lateness \in Int /\ Lateness = Age(Queue)
        /\ SyncFrames \in Nat /\ Frames \in Nat \ {0}
      BY <2>0, FillsFacts
  <2> HIDE DEF J
  <2>2. ~Wait
      BY <2>1 DEF Wait, Waits
  <2>3. CASE HardSync
    <3> DEFINE q == Sought(Queue)
               left == DropOld(Queue)
    <3>1. Lateness >= 0
        BY <2>1, <2>3 DEF HardSync, IsHardSync, Absolute
    <3>2. Fill(q, 0, 0)
        BY <2>1, <2>3, <3>1, HardLateness
    <3>3. left # <<>> /\ Queue' = Left(q, Silent(Age(left)), 0)
        BY <2>1, <2>3, HardSyncQueue
    <3>4. /\ WholeQueue(q) /\ Chain(q, Ahead) /\ Untouched(q) /\ q # <<>>
          /\ Silent(Age(left)) = 0
        BY <2>1, <3>1, <3>3, SoughtFacts
    <3>5. Left(q, 0, 0) # <<>>
        BY <2>1, <3>3, <3>4, Zenon
    <3> HIDE DEF q
    <3>6. \E k \in 1 .. Frames + 0 : Place(0, 0, k) <= p /\ HeardAt(0, 0, k, p)
      <4>1. p + 1 \in 1 .. Frames + 0 /\ (p + 1) - 1 = p
          BY <2>1
      <4>2. Place(0, 0, p + 1) = p /\ Place(0, 0, (p + 1) + 1) = p + 1
          BY <2>1 DEF Place, Corrections
      <4> QED
          BY <2>1, <4>1, <4>2 DEF HeardAt
    <3>7. Filled(q, 0, 0)[p] # Silence
      <4>1. 0 \in Int
          OBVIOUS
      <4> QED
          BY <3>4, <3>5, <3>6, <4>1, NotSilent
    <3> QED
        BY <3>2, <3>7 DEF Fill
  <2>4. CASE SoftSync
    <3> DEFINE q == Queue
               age == Age(q)
               add == AddFrames(age)
               a == Absolute(add)
    <3>1. age \in Int /\ Absolute(age) <= SyncFrames
        BY <2>1, <2>4 DEF SoftSync, IsHardSync, Absolute
    <3>2. add \in Int /\ a \in Nat /\ a <= SyncMs
        BY <3>1, SoftSyncApproaches, AddFramesBound DEF Absolute
    <3>3. a * a <= Frames + add /\ Frames + add > 0
      <4>1. SyncMs \in Nat
          BY AudioAssumption
      <4>2. a * a <= SyncMs * SyncMs /\ a * a \in Nat /\ SyncMs * SyncMs \in Nat
        <5> HIDE DEF a
        <5>1. a * a <= SyncMs * a
            BY <3>2, <4>1
        <5>2. SyncMs * a <= SyncMs * SyncMs
            BY <3>2, <4>1
        <5>3. a * a \in Nat /\ SyncMs * a \in Nat /\ SyncMs * SyncMs \in Nat
            BY <3>2, <4>1
        <5> QED
            BY <5>1, <5>2, <5>3
      <4>3. add >= -a
          BY <3>2 DEF Absolute
      <4> HIDE DEF a, add
      <4> QED
          BY <2>1, <3>2, <4>1, <4>2, <4>3
    <3>4. /\ WholeQueue(q) /\ Chain(q, Ahead) /\ Untouched(q) /\ q # <<>>
          /\ Queue' = Left(q, 0, add)
        BY <2>1, <2>4, SoftSyncQueue
    <3>5. Fill(q, 0, add)
        BY <2>4 DEF SoftSync
    <3> HIDE DEF add, q
    <3>6. \E k \in 1 .. Frames + add : Place(0, add, k) <= p /\ HeardAt(0, add, k, p)
        BY <3>2, <3>3, EveryPlaceHeard
    <3>7. Filled(q, 0, add)[p] # Silence
        BY <2>1, <3>2, <3>4, <3>6, NotSilent
    <3> QED
        BY <3>5, <3>7 DEF Fill
  <2> QED
      BY <2>1, <2>2, <2>3, <2>4 DEF NextBuffer
<1> HIDE DEF J
<1>4. PlaybackSpec => [][Fills /\ Lateness >= -SyncFrames => Full]_playbackVars
    BY <1>1, <1>2, <1>3, PTL DEF PlaybackSpec
<1> QED
    BY <1>4 DEF NoHole
=============================================================================
