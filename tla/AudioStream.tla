----------------------------- MODULE AudioStream ----------------------------
(***************************************************************************)
(* What snapweb plays at which time: AudioStream in snapstream.js, which   *)
(* queues decoded chunks and fills buffers of sound so that every frame is *)
(* heard when its timestamp says.  Up to SyncMs early or late it inserts   *)
(* or drops single frames, beyond that it seeks.                           *)
(*                                                                         *)
(* Time is counted in sample frames of the server's clock.  A frame is     *)
(* represented by the time when it should be heard, which the code does    *)
(* not know: it goes by the timestamp of the chunk.                        *)
(***************************************************************************)
EXTENDS Integers, Sequences

CONSTANTS
    MsRate,     \* frames in a millisecond
    Frames,     \* in a buffer, 80 ms in the code
    SyncMs,     \* where soft synchronisation ends, 5 in the code
    BlockSize,  \* frames in a block
    MaxAge,     \* frames by which addChunk() lets a chunk be older than the
                \* next buffer: 5 s and the buffers played ahead
    Silence,
    Starts,     \* times at which playing may begin
    Jumps,      \* changes of the time difference or the server's buffer
    MaxJumps    \* bound: such changes

ASSUME AudioAssumption ==
    /\ MsRate \in Nat \ {0} /\ Frames \in Nat \ {0} /\ SyncMs \in Nat
    /\ BlockSize \in Nat \ {0} /\ MaxAge \in Nat /\ MaxJumps \in Nat
    /\ Silence \notin Int
    /\ Starts \subseteq Int /\ Jumps \subseteq Int

VARIABLES
    playTime,   \* serverPlayTimeMs of the next buffer
    chunk,      \* this.chunk: no chunk, or one
    chunks,     \* the chunks behind it
    buffer,     \* the last buffer: what is heard at each place
    bufferTime, \* its serverPlayTimeMs
    jumps

audioVars == <<playTime, chunk, chunks, buffer, bufferTime, jumps>>

Least(a, b) == IF a < b THEN a ELSE b
Absolute(a) == IF a < 0 THEN -a ELSE a
Ceil(a, b) == (a + b - 1) \div b

\* A chunk of decoded blocks, each given by the time it should be heard.
NewChunk(time, blocks) == [time |-> time, blocks |-> blocks, idx |-> 0]
Remaining(c) == Len(c.blocks) * BlockSize - c.idx
StartTime(c) == c.time + c.idx
Read(c, n) == [c EXCEPT !.idx = @ + n]
FrameAt(c, n) ==
    c.blocks[(c.idx + n) \div BlockSize + 1] + ((c.idx + n) % BlockSize)

AudioInit ==
    /\ playTime \in Starts
    /\ chunk = <<>> /\ chunks = <<>>
    /\ buffer = [p \in 0 .. Frames - 1 |-> Silence]
    /\ bufferTime = playTime - Frames
    /\ jumps = 0

----------------------------------------------------------------------------
\* addChunk() drops old chunks from the front, up to the first that is not.
AddChunk(c) ==
    /\ LET all == Append(chunks, c)
           Old(k) == playTime - all[k].time > MaxAge
       IN  \E n \in 1 .. Len(all) + 1 :
              /\ \A k \in 1 .. n - 1 : Old(k)
              /\ n <= Len(all) => ~Old(n)
              /\ chunks' = SubSeq(all, n, Len(all))
    /\ UNCHANGED <<playTime, chunk, buffer, bufferTime, jumps>>

\* TimeProvider.setDiff() finds another difference between the clocks, or new
\* settings change bufferMs.
ClockChanges(d) ==
    /\ jumps < MaxJumps /\ jumps' = jumps + 1
    /\ playTime' = playTime + d
    /\ UNCHANGED <<chunk, chunks, buffer, bufferTime>>

----------------------------------------------------------------------------
(* getNextBuffer(), for the queue q of this.chunk and the chunks behind it *)

Queue == chunk \o chunks
Age(q) == playTime - StartTime(Head(q))

\* Too young, or nothing there: the buffer stays silent.
Waits(q) == q # <<>> => Age(q) < -Frames

SyncFrames == SyncMs * MsRate
IsHardSync(q) == Absolute(Age(q)) > SyncFrames

\* Hard synchronisation drops what is over by now ...
DropOld(q) ==
    LET Over(k) == playTime - StartTime(q[k]) > Remaining(q[k])
        n == CHOOSE k \in 1 .. Len(q) + 1 :
                /\ \A j \in 1 .. k - 1 : Over(j)
                /\ k <= Len(q) => ~Over(k)
    IN  SubSeq(q, n, Len(q))

\* ... and skips what is late in the chunk left, or waits for its start.
FaultySkipped(age) == 0
Skipped(age) == IF age > 0 THEN age ELSE 0
Silent(age) == IF age < 0 THEN -age ELSE 0

\* Soft synchronisation: one frame more or less for each millisecond.
FaultyAddFrames(age) ==
    IF 10 * Absolute(age) <= MsRate THEN 0
    ELSE IF age > 0 THEN -Ceil(age, MsRate) ELSE Ceil(-age, MsRate)

AddFrames(age) ==
    IF 10 * Absolute(age) <= MsRate THEN 0
    ELSE IF age > 0 THEN Ceil(age, MsRate) ELSE -Ceil(-age, MsRate)

\* The place in the buffer of the k-th frame read, one more or less after
\* every n-th.
FaultyCorrections(add, k) ==
    LET n == Ceil(Frames + add, Absolute(add))
    IN  IF add = 0 THEN 0 ELSE IF add > 0 THEN -((k - 1) \div n) ELSE (k - 1) \div n

Corrections(add, k) ==
    LET n == Ceil(Frames + add, Absolute(add) + 1)
    IN  IF add = 0 THEN 0 ELSE IF add > 0 THEN -((k - 1) \div n) ELSE (k - 1) \div n

Place(silent, add, k) == silent + k - 1 + Corrections(add, k)

\* Frames up to the end of the k-th chunk of q.
EndOf(q) ==
    LET end[k \in 0 .. Len(q)] ==
            IF k = 0 THEN 0 ELSE end[k - 1] + Remaining(q[k])
    IN  end

\* The first n frames of q are read; chunks at their end are shifted out.
AfterReading(q, n) ==
    LET end == EndOf(q)
        k == CHOOSE j \in 0 .. Len(q) :
                end[j] <= n /\ (j < Len(q) => end[j + 1] > n)
    IN  IF k = Len(q) THEN <<>>
        ELSE <<Read(q[k + 1], n - end[k])>> \o SubSeq(q, k + 2, Len(q))

\* The n-th frame of q.
FrameOf(q, n) ==
    LET end == EndOf(q)
        k == CHOOSE j \in 1 .. Len(q) : end[j - 1] < n /\ n <= end[j]
    IN  FrameAt(q[k], n - 1 - end[k - 1])

\* read starts at silent and readFrames leaves silent out once more.
Wanted(silent, add) == Frames + add - silent - silent

\* Frames read from q: each is heard where the next one is not yet; when the last
\* one wanted is dropped, no other takes its place.
Filled(q, silent, add) ==
    LET got == Least(Wanted(silent, add), EndOf(q)[Len(q)])
        Keeps(k, p) == k = Wanted(silent, add) /\ p = Place(silent, add, k)
        At(p) == {k \in 1 .. got : /\ Place(silent, add, k) <= p
                                   /\ p < Place(silent, add, k + 1) \/ Keeps(k, p)}
    IN  [p \in 0 .. Frames - 1 |->
            IF At(p) = {} THEN Silence ELSE FrameOf(q, CHOOSE k \in At(p) : TRUE)]

\* this.chunk is the first of what is left.
Front(q) == IF q = <<>> THEN <<>> ELSE <<Head(q)>>
Behind(q) == IF q = <<>> THEN <<>> ELSE Tail(q)

Fill(q, silent, add) ==
    LET want == Wanted(silent, add)
        rest == IF want > 0 THEN AfterReading(q, Least(want, EndOf(q)[Len(q)])) ELSE q
    IN  /\ buffer' = Filled(q, silent, add)
        /\ chunk' = Front(rest)
        /\ chunks' = Behind(rest)

Hold(q) ==
    /\ buffer' = [p \in 0 .. Frames - 1 |-> Silence]
    /\ chunk' = Front(q)
    /\ chunks' = Behind(q)

Wait == Waits(Queue) /\ Hold(Queue)

HardSync ==
    /\ ~Waits(Queue) /\ IsHardSync(Queue)
    /\ LET left == DropOld(Queue)
           age == Age(left)
       IN  \/ left = <<>> /\ Hold(<<>>)
           \/ /\ left # <<>>
              /\ Fill(<<Read(left[1], Skipped(age))>> \o Tail(left), Silent(age), 0)

SoftSync ==
    /\ ~Waits(Queue) /\ ~IsHardSync(Queue)
    /\ Fill(Queue, 0, AddFrames(Age(Queue)))

NextBuffer ==
    /\ Wait \/ HardSync \/ SoftSync
    /\ bufferTime' = playTime
    /\ playTime' = playTime + Frames
    /\ UNCHANGED jumps
=============================================================================
