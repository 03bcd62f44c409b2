----------------------------- MODULE SnapStream -----------------------------
(***************************************************************************)
(* The player of snapweb, the web page of the snapserver add-on: the       *)
(* SnapStream objects behind its play button, their web sockets, timers    *)
(* and sound (snapstream.js, with play() and the autoplay of               *)
(* snapcontrol.js).  JavaScript runs one callback at a time: every action  *)
(* is one callback, or a step of the browser or the server between two.    *)
(*                                                                         *)
(* A stopped SnapStream is dropped by the page, but its socket and timers  *)
(* may still call it.  The server is external: it answers a hello with the *)
(* settings and the codec, then sends chunks.  Codec "flac" stands for all *)
(* that have a working decoder, "opus" for those that decode to nothing,   *)
(* "vorbis" for those without a decoder.                                   *)
(***************************************************************************)
EXTENDS Integers, Sequences

CONSTANTS
    Modern,       \* window.AudioContext exists, not only webkitAudioContext
    Streams,      \* the SnapStream objects that may be constructed
    None,
    Formats,      \* sample formats
    Playable,     \* those with two channels of 16 bits
    Offers,       \* what a server may encode: codec and format
    Volumes,      \* volumes in the server's settings
    FullVolume,   \* the gain of a new gain node
    Window,       \* length of diffBuffer, 100 in the code
    MaxInbox,     \* bound: messages on their way to one stream
    MaxChunks,    \* bound: chunks waiting in one AudioStream
    MaxDrops,     \* bound: connections lost after they were open
    MaxChanges    \* bound: codecs and settings beyond those that greet

AudioBufferCount == 3
Codecs == {"flac", "opus", "vorbis"}

ASSUME StreamAssumption ==
    /\ Modern \in BOOLEAN
    /\ None \notin Streams /\ None \notin Formats /\ None \notin Codecs
    /\ None \notin Volumes
    /\ Offers \subseteq [codec : Codecs, format : Formats]
    /\ Playable \subseteq Formats /\ FullVolume \in Volumes
    /\ Window \in Nat \ {0} /\ MaxInbox \in Nat /\ MaxChunks \in Nat
    /\ MaxDrops \in Nat /\ MaxChanges \in Nat

VARIABLES
    snapstream,   \* the stream behind the stop button, or None
    autoplayDone,
    \* Per stream, of its web socket:
    readyState,   \* "none" before the first connect()
    reconnects,   \* onclose is still the handler that reconnects
    retry,        \* a setTimeout(connect) is pending
    syncs,        \* intervals of syncTime that run
    inbox,        \* messages not yet dispatched
    served,       \* what the server encodes at present
    \* Per stream, of its sound:
    settings,     \* serverSettings.volumePercent, None before the first
    gain,         \* gainNode.gain.value
    decoder, sampleFormat,
    stream,       \* the sample format of the AudioStream, or None
    chunks,       \* the chunks it holds, by what the server encoded
    audioBuffers, \* the length of audioBuffers
    armed,        \* sources that will run their onended handler
    clock,        \* 0: performance.now(); n: the clock of the n-th context
    ticking,      \* now() is not 0
    diffBuffer,   \* per sample, the clock that timed its request
    \* Bounds and history:
    drops, changes,
    heard,        \* a codec has come over the present connection
    refused,      \* the last codec was not supported, or its format
    stopped       \* stop(): "no", or whether the socket was "live" or "down"

page == <<snapstream, autoplayDone>>
socket == <<readyState, reconnects, retry, syncs, inbox, served>>
sound == <<settings, gain, decoder, sampleFormat, stream, chunks, audioBuffers, armed>>
time == <<clock, ticking, diffBuffer>>
history == <<heard, refused, stopped>>
bounds == <<drops, changes>>
vars == <<page, socket, sound, time, history, bounds>>

SettingsMsgs == [type : {"settings"}, volume : Volumes]
CodecMsgs == [type : {"codec"}, offer : Offers]
ChunkMsgs == [type : {"chunk"}, format : Formats]
TimeMsgs == [type : {"time"}, clock : Nat]
Messages == SettingsMsgs \union CodecMsgs \union ChunkMsgs \union TimeMsgs

Live == {"connecting", "open"}

\* f with x for the stream i.
Set(f, i, x) == [f EXCEPT ![i] = x]

----------------------------------------------------------------------------
Init ==
    /\ snapstream = None /\ autoplayDone = FALSE
    /\ readyState = [i \in Streams |-> "none"]
    /\ reconnects = [i \in Streams |-> FALSE]
    /\ retry = [i \in Streams |-> FALSE]
    /\ syncs = [i \in Streams |-> 0]
    /\ inbox = [i \in Streams |-> <<>>]
    /\ served = [i \in Streams |-> None]
    /\ settings = [i \in Streams |-> None]
    /\ gain = [i \in Streams |-> FullVolume]
    /\ decoder = [i \in Streams |-> None]
    /\ sampleFormat = [i \in Streams |-> None]
    /\ stream = [i \in Streams |-> None]
    /\ chunks = [i \in Streams |-> <<>>]
    /\ audioBuffers = [i \in Streams |-> 0]
    /\ armed = [i \in Streams |-> 0]
    /\ clock = [i \in Streams |-> 0]
    /\ ticking = [i \in Streams |-> TRUE]
    /\ diffBuffer = [i \in Streams |-> <<>>]
    /\ drops = 0 /\ changes = 0
    /\ heard = [i \in Streams |-> FALSE]
    /\ refused = [i \in Streams |-> FALSE]
    /\ stopped = [i \in Streams |-> "no"]

----------------------------------------------------------------------------
(* The page                                                                *)

\* connect(): a new socket with handlers of its own.
Connect(i) ==
    /\ readyState' = Set(readyState, i, "connecting")
    /\ reconnects' = Set(reconnects, i, TRUE)
    /\ inbox' = Set(inbox, i, <<>>)
    /\ heard' = Set(heard, i, FALSE)

\* play() without a stream: a SnapStream with a context, which connects.
Start(i) ==
    /\ snapstream = None /\ readyState[i] = "none"
    /\ snapstream' = i
    /\ Connect(i)
    /\ UNCHANGED <<retry, syncs, served, sound, time, refused, stopped, bounds>>

ClickPlay(i) ==
    /\ Start(i)
    /\ UNCHANGED autoplayDone

\* show() with #autoplay in the address, once.
Autoplay(i) ==
    /\ ~autoplayDone
    /\ autoplayDone' = TRUE
    /\ Start(i)

\* stopAudio() takes the handlers of the sources in audioBuffers away.
FaultyArmedAfterStop(i) == armed[i]
ArmedAfterStop(i) == armed[i] - audioBuffers[i]

FaultyDetached(i) == readyState[i] = "open"
Detached(i) == readyState[i] \in Live

\* play() with a stream: stop(), after which the page forgets it.
ClickStop(i) ==
    /\ snapstream = i
    /\ snapstream' = None
    /\ syncs' = Set(syncs, i, IF syncs[i] > 0 THEN syncs[i] - 1 ELSE 0)
    /\ audioBuffers' = Set(audioBuffers, i, 0)
    /\ armed' = Set(armed, i, ArmedAfterStop(i))
    /\ \/ /\ Detached(i)
          /\ reconnects' = Set(reconnects, i, FALSE)
          /\ readyState' = Set(readyState, i, "closing")
       \/ /\ ~Detached(i)
          /\ UNCHANGED <<reconnects, readyState>>
    /\ stopped' = Set(stopped, i, IF readyState[i] \in Live THEN "live" ELSE "down")
    /\ UNCHANGED <<autoplayDone, retry, inbox, served, settings, gain, decoder,
                   sampleFormat, stream, chunks, time, heard, refused, bounds>>

----------------------------------------------------------------------------
(* The socket                                                              *)

\* The server greets; both wait for the answer to the first time request.
Greeting(o, v, i) ==
    << [type |-> "settings", volume |-> v],
       [type |-> "codec", offer |-> o],
       [type |-> "time", clock |-> clock[i]] >>

\* onopen: hello, syncTime, and an interval of one second.
Opened(i) ==
    /\ readyState[i] = "connecting"
    /\ readyState' = Set(readyState, i, "open")
    /\ syncs' = Set(syncs, i, syncs[i] + 1)
    /\ \E o \in Offers, v \in Volumes :
          /\ inbox' = Set(inbox, i, Greeting(o, v, i))
          /\ served' = Set(served, i, o.format)
    /\ UNCHANGED <<page, reconnects, retry, sound, time, history, bounds>>

\* The server starts the closing handshake.
ServerCloses(i) ==
    /\ readyState[i] = "open" /\ drops < MaxDrops
    /\ drops' = drops + 1
    /\ readyState' = Set(readyState, i, "closing")
    /\ UNCHANGED <<page, reconnects, retry, syncs, inbox, served, sound, time, history, changes>>

\* onclose: of an attempt that failed, a connection that broke, or one that
\* either side closed.
FaultySyncsAfterClose(i) == syncs[i]
SyncsAfterClose(i) == IF syncs[i] > 0 THEN syncs[i] - 1 ELSE 0

FaultyReconnecting(i) == reconnects[i] /\ readyState[i] # "connecting"
Reconnecting(i) == reconnects[i]

Closed(i) ==
    /\ readyState[i] \in {"connecting", "open", "closing"}
    /\ readyState[i] = "open" => drops < MaxDrops
    /\ drops' = IF readyState[i] = "open" THEN drops + 1 ELSE drops
    /\ readyState' = Set(readyState, i, "closed")
    /\ \/ /\ Reconnecting(i)
          /\ syncs' = Set(syncs, i, SyncsAfterClose(i))
          /\ retry' = Set(retry, i, TRUE)
       \/ /\ ~Reconnecting(i)
          /\ UNCHANGED <<syncs, retry>>
    /\ UNCHANGED <<page, reconnects, inbox, served, sound, time, history, changes>>

\* The timeout of one second after onclose.
Retry(i) ==
    /\ retry[i]
    /\ retry' = Set(retry, i, FALSE)
    /\ Connect(i)
    /\ UNCHANGED <<page, syncs, served, sound, time, refused, stopped, bounds>>

\* syncTime(); sendMessage() sends nothing unless the socket is open.  The
\* bound leaves room for one answer beyond what the server sends by itself.
SyncTime(i) ==
    /\ syncs[i] > 0 /\ readyState[i] = "open" /\ Len(inbox[i]) <= MaxInbox
    /\ inbox' = Set(inbox, i, Append(inbox[i], [type |-> "time", clock |-> clock[i]]))
    /\ UNCHANGED <<page, readyState, reconnects, retry, syncs, served, sound, time, history, bounds>>

----------------------------------------------------------------------------
(* The server, external                                                    *)

Sends(i, m) ==
    /\ readyState[i] = "open" /\ Len(inbox[i]) < MaxInbox
    /\ inbox' = Set(inbox, i, Append(inbox[i], m))
    /\ UNCHANGED <<page, readyState, reconnects, retry, syncs, sound, time, history, drops>>

SendChunk(i) ==
    /\ Sends(i, [type |-> "chunk", format |-> served[i]])
    /\ UNCHANGED <<served, changes>>

\* The group plays another stream.
SendCodec(i, o) ==
    /\ changes < MaxChanges /\ changes' = changes + 1
    /\ Sends(i, [type |-> "codec", offer |-> o])
    /\ served' = Set(served, i, o.format)

SendSettings(i, v) ==
    /\ changes < MaxChanges /\ changes' = changes + 1
    /\ Sends(i, [type |-> "settings", volume |-> v])
    /\ UNCHANGED served

----------------------------------------------------------------------------
(* onMessage: a socket that is not open dispatches nothing.                *)

Receives(i) ==
    /\ readyState[i] = "open" /\ inbox[i] # <<>>
    /\ inbox' = Set(inbox, i, Tail(inbox[i]))
    /\ UNCHANGED <<page, readyState, reconnects, retry, syncs, served, bounds, stopped>>

OnSettings(i) ==
    /\ Receives(i) /\ Head(inbox[i]).type = "settings"
    /\ settings' = Set(settings, i, Head(inbox[i]).volume)
    /\ gain' = Set(gain, i, Head(inbox[i]).volume)
    /\ UNCHANGED <<decoder, sampleFormat, stream, chunks, audioBuffers, armed, time, heard, refused>>

DecoderFor(codec, old) == IF codec = "vorbis" THEN old ELSE codec

\* setHeader(): a decoder that is left from another codec reads anything.
HeaderFormats(o) == IF o.codec = "vorbis" THEN Formats ELSE {o.format}

Offer(i) == Head(inbox[i]).offer

OnCodec(i) ==
    /\ Receives(i) /\ Head(inbox[i]).type = "codec"
    /\ heard' = Set(heard, i, TRUE)

\* No decoder, or setHeader() throws.
CodecUnsupported(i) ==
    /\ OnCodec(i) /\ Offer(i).codec = "vorbis"
    /\ refused' = Set(refused, i, TRUE)
    /\ UNCHANGED <<sound, time>>

\* An alert, but the decoder and the sample format stay.
FormatRefused(i) ==
    /\ OnCodec(i)
    /\ DecoderFor(Offer(i).codec, decoder[i]) # None
    /\ \E f \in HeaderFormats(Offer(i)) \ Playable :
          sampleFormat' = Set(sampleFormat, i, f)
    /\ decoder' = Set(decoder, i, DecoderFor(Offer(i).codec, decoder[i]))
    /\ refused' = Set(refused, i, TRUE)
    /\ UNCHANGED <<settings, gain, stream, chunks, audioBuffers, armed, time>>

FaultyGainAfterCodec(i) == IF Modern THEN FullVolume ELSE gain[i]
GainAfterCodec(i) == settings[i]

\* A new AudioStream, and where it is safe a new context, whose clock starts
\* at 0 some time after resume(); then play().
FaultyChunksAfterCodec(i) == chunks[i]
ChunksAfterCodec(i) == <<>>

\* A page with webkitAudioContext keeps the context of its constructor.
NewClock(i) == Modern \/ clock[i] = 0
FormatAccepted(i) ==
    /\ OnCodec(i)
    /\ DecoderFor(Offer(i).codec, decoder[i]) # None
    /\ \E f \in HeaderFormats(Offer(i)) \intersect Playable :
          /\ sampleFormat' = Set(sampleFormat, i, f)
          /\ stream' = Set(stream, i, f)
    /\ decoder' = Set(decoder, i, DecoderFor(Offer(i).codec, decoder[i]))
    /\ chunks' = Set(chunks, i, ChunksAfterCodec(i))
    /\ audioBuffers' =
          Set(audioBuffers, i, (IF Modern THEN 0 ELSE audioBuffers[i]) + AudioBufferCount)
    /\ armed' =
          Set(armed, i, (IF Modern THEN ArmedAfterStop(i) ELSE armed[i]) + AudioBufferCount)
    /\ gain' = Set(gain, i, GainAfterCodec(i))
    /\ clock' = Set(clock, i, IF NewClock(i) THEN clock[i] + 1 ELSE clock[i])
    /\ ticking' = Set(ticking, i, ticking[i] /\ ~NewClock(i))
    /\ diffBuffer' = Set(diffBuffer, i, <<>>)
    /\ refused' = Set(refused, i, Offer(i).codec = "vorbis")
    /\ UNCHANGED settings

\* A chunk gets the present sample format, the decoder makes something or
\* nothing of it, and addChunk() drops what is too old.
ChunkAdded(i) ==
    /\ Receives(i) /\ Head(inbox[i]).type = "chunk"
    /\ decoder[i] = "flac" /\ stream[i] # None
    /\ LET all == Append(chunks[i], Head(inbox[i]).format)
       IN  \E n \in 1 .. Len(all) + 1 :
              /\ Len(all) - n < MaxChunks
              /\ chunks' = Set(chunks, i, SubSeq(all, n, Len(all)))
    /\ UNCHANGED <<settings, gain, decoder, sampleFormat, stream, audioBuffers, armed, time, heard, refused>>

\* No decoder, nothing decoded, or this.stream undefined, which throws.
ChunkLost(i) ==
    /\ Receives(i) /\ Head(inbox[i]).type = "chunk"
    /\ decoder[i] # "flac" \/ stream[i] = None
    /\ UNCHANGED <<sound, time, heard, refused>>

\* TimeProvider.setDiff(): nothing is learnt while the context stands still.
OnTime(i) ==
    /\ Receives(i) /\ Head(inbox[i]).type = "time"
    /\ LET all == Append(diffBuffer[i], Head(inbox[i]).clock)
       IN  diffBuffer' = Set(diffBuffer, i,
              CASE ~ticking[i] -> <<>>
                [] ticking[i] /\ Len(all) > Window -> Tail(all)
                [] OTHER -> all)
    /\ UNCHANGED <<sound, clock, ticking, heard, refused>>

----------------------------------------------------------------------------
(* The audio context                                                       *)

ClockStarts(i) ==
    /\ ~ticking[i]
    /\ ticking' = Set(ticking, i, TRUE)
    /\ UNCHANGED <<page, socket, sound, clock, diffBuffer, history, bounds>>

\* onended of a source: its buffer leaves audioBuffers, and playNext() puts
\* another one in, filled with what getNextBuffer() takes from the chunks.
Ended(i) ==
    /\ armed[i] > 0 /\ audioBuffers[i] > 0
    /\ \E n \in 1 .. Len(chunks[i]) :
          chunks' = Set(chunks, i, SubSeq(chunks[i], n + 1, Len(chunks[i])))
    /\ UNCHANGED <<page, socket, settings, gain, decoder, sampleFormat, stream,
                   audioBuffers, armed, time, history, bounds>>

----------------------------------------------------------------------------
OnMessage(i) ==
    \/ OnSettings(i) \/ CodecUnsupported(i) \/ FormatRefused(i) \/ FormatAccepted(i)
    \/ ChunkAdded(i) \/ ChunkLost(i) \/ OnTime(i)

Next == \E i \in Streams :
    \/ ClickPlay(i) \/ Autoplay(i) \/ ClickStop(i)
    \/ Opened(i) \/ ServerCloses(i) \/ Closed(i) \/ Retry(i) \/ SyncTime(i)
    \/ SendChunk(i) \/ (\E v \in Volumes : SendSettings(i, v))
    \/ (\E o \in Offers : SendCodec(i, o))
    \/ OnMessage(i)
    \/ ClockStarts(i) \/ Ended(i)

\* Timers fire, messages arrive, a closing socket closes, a resumed context
\* runs; of infinitely many attempts to connect one succeeds.
Fairness == \A i \in Streams :
    /\ WF_vars(Retry(i)) /\ WF_vars(OnMessage(i)) /\ WF_vars(SyncTime(i))
    /\ WF_vars(ClockStarts(i))
    /\ WF_vars(readyState[i] = "closing" /\ Closed(i))
    /\ SF_vars(Opened(i))

Spec == Init /\ [][Next]_vars /\ Fairness
----------------------------------------------------------------------------
(* Properties                                                              *)

PageTypes == snapstream \in Streams \union {None} /\ autoplayDone \in BOOLEAN

SocketTypes ==
    /\ readyState \in [Streams -> {"none", "connecting", "open", "closing", "closed"}]
    /\ reconnects \in [Streams -> BOOLEAN] /\ retry \in [Streams -> BOOLEAN]
    /\ syncs \in [Streams -> Nat]
    /\ inbox \in [Streams -> Seq(Messages)]
    /\ served \in [Streams -> Formats \union {None}]

SoundTypes ==
    /\ settings \in [Streams -> Volumes \union {None}]
    /\ gain \in [Streams -> Volumes]
    /\ decoder \in [Streams -> {"flac", "opus", None}]
    /\ sampleFormat \in [Streams -> Formats \union {None}]
    /\ stream \in [Streams -> Formats \union {None}]
    /\ chunks \in [Streams -> Seq(Formats)]
    /\ audioBuffers \in [Streams -> Nat] /\ armed \in [Streams -> Nat]

TimeTypes ==
    /\ clock \in [Streams -> Nat] /\ ticking \in [Streams -> BOOLEAN]
    /\ diffBuffer \in [Streams -> Seq(Nat)]

HistoryTypes ==
    /\ drops \in Nat /\ changes \in Nat
    /\ heard \in [Streams -> BOOLEAN] /\ refused \in [Streams -> BOOLEAN]
    /\ stopped \in [Streams -> {"no", "live", "down"}]

\* Every variable has its type.
TypeOK == PageTypes /\ SocketTypes /\ SoundTypes /\ TimeTypes /\ HistoryTypes

\* Sound is a loop through three buffers: whatever codecs, drops and stops
\* come, exactly the sources in audioBuffers continue it when they end, and a
\* player with a stream has three of them (more only with webkitAudioContext,
\* where every codec adds three).  A source that kept its handler would play
\* the stream twice as fast for ever.
InFlight == \A i \in Streams :
    /\ armed[i] = audioBuffers[i]
    /\ stream[i] # None /\ stopped[i] = "no" => audioBuffers[i] >= AudioBufferCount
    /\ Modern => audioBuffers[i] \in {0, AudioBufferCount}

\* A player stopped while its socket was connecting or open is over: no late
\* close event, message or timer connects it or makes it sound again.  (One
\* stopped while its connection is down is not: its timeout still fires.)
StoppedStaysQuiet == \A i \in Streams :
    stopped[i] = "live" =>
        /\ snapstream # i
        /\ readyState[i] \in {"closing", "closed"} /\ ~retry[i]
        /\ syncs[i] = 0 /\ audioBuffers[i] = 0 /\ armed[i] = 0

\* Through losses and reconnections there is never a second syncTime interval:
\* an open connection has exactly one, one that is down has none.
OneSyncTimer == \A i \in Streams :
    /\ readyState[i] = "open" => syncs[i] = 1
    /\ readyState[i] = "closing" => syncs[i] \in {0, 1}
    /\ readyState[i] \in {"none", "connecting", "closed"} => syncs[i] = 0

\* Unless the codec was refused, no AudioStream holds a chunk in a format other
\* than the one it plays: none that was still on its way, or still waiting,
\* when the format changed or the connection was lost.  After a codec whose
\* format is refused (the alert "Stream must be stereo with 16 bit depth") this
\* does not hold: the decoder is replaced before the test and the AudioStream
\* stays, so the chunks that follow are decoded in one format and played in
\* another.
SameFormat == \A i \in Streams :
    ~refused[i] => \A k \in DOMAIN chunks[i] : chunks[i][k] = stream[i]

\* What is heard has the volume of the server's latest settings, although
\* every codec may bring a new gain node at full volume.
GainFollows == \A i \in Streams :
    stream[i] # None => gain[i] = settings[i]

\* The median of diffBuffer is taken from a request timed by the clock that
\* now() reads.  Requests that crossed a change of the clock measure a wrong
\* difference; sort() compares them as strings, so that they may stand before
\* all others or behind them.
InSync(i) ==
    /\ diffBuffer[i] # <<>>
    /\ LET n == Len(diffBuffer[i])
           Crossed(k) == diffBuffer[i][k] # clock[i]
       IN  \E k \in 1 .. (n + 1) \div 2 :
              ~Crossed(k) /\ \A j \in k .. n : ~Crossed(j)

Plays(i) ==
    /\ readyState[i] = "open" /\ heard[i]
    /\ ~refused[i] =>
          stream[i] = sampleFormat[i] /\ audioBuffers[i] >= AudioBufferCount /\ InSync(i)

\* A player that is not stopped comes to play, after every loss of the
\* connection again, with a server clock it measured on its present clock,
\* unless the server sends a codec it cannot play.
PlaysAgain == \A i \in Streams :
    (snapstream = i) ~> (snapstream # i \/ Plays(i))
=============================================================================
