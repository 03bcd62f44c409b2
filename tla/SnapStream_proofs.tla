-------------------------- MODULE SnapStream_proofs -------------------------
(***************************************************************************)
(* What SnapStream keeps for every number of players, formats and losses.  *)
(* The inductive invariant Inv says per player what its socket, timers and *)
(* sound allow each other; no player touches another, so that a step of    *)
(* one leaves the others' part as it is.                                   *)
(***************************************************************************)
EXTENDS SnapStream, SequenceTheorems, TLAPS

----------------------------------------------------------------------------
(* The inductive invariant                                                 *)

\* Timers: one interval while open, a retry only after the close; who is
\* stopped in time has no way to connect again.
TimerInv(i) ==
    /\ readyState[i] = "open" => syncs[i] = 1
    /\ readyState[i] = "closing" => syncs[i] \in {0, 1}
    /\ readyState[i] \in {"none", "connecting", "closed"} => syncs[i] = 0
    /\ retry[i] => readyState[i] = "closed"
    /\ readyState[i] \in {"connecting", "open"} => reconnects[i]
    /\ ~reconnects[i] => syncs[i] = 0

StopInv(i) ==
    /\ snapstream = i => stopped[i] = "no" /\ readyState[i] # "none"
    /\ readyState[i] = "none" => stopped[i] = "no"
    /\ stopped[i] = "live" =>
          /\ ~reconnects[i] /\ ~retry[i]
          /\ readyState[i] \in {"closing", "closed"}
          /\ syncs[i] = 0 /\ audioBuffers[i] = 0 /\ armed[i] = 0

SoundInv(i) ==
    /\ armed[i] = audioBuffers[i]
    /\ stream[i] # None /\ stopped[i] = "no" => audioBuffers[i] >= AudioBufferCount
    /\ Modern => audioBuffers[i] \in {0, AudioBufferCount}

\* Settings come first, so that a codec finds a volume.
GainInv(i) ==
    /\ stream[i] # None => settings[i] # None
    /\ settings[i] # None => gain[i] = settings[i]
    /\ readyState[i] = "open" => served[i] # None
    /\ readyState[i] = "open" /\ settings[i] = None =>
          inbox[i] # <<>> /\ inbox[i][1].type = "settings"

StreamInv(i) == TimerInv(i) /\ StopInv(i) /\ SoundInv(i) /\ GainInv(i)

Inv == TypeOK /\ \A i \in Streams : StreamInv(i)

----------------------------------------------------------------------------
\* The initial states satisfy the invariant.
LEMMA InvInit == Init => Inv
<1> SUFFICES ASSUME Init PROVE Inv
    OBVIOUS
<1>1. TypeOK
  <2>1. /\ inbox \in [Streams -> Seq(Messages)]
        /\ chunks \in [Streams -> Seq(Formats)]
        /\ diffBuffer \in [Streams -> Seq(Nat)]
      BY EmptySeq DEF Init
  <2>2. /\ gain \in [Streams -> Volumes]
        /\ settings \in [Streams -> Volumes \union {None}]
        /\ served \in [Streams -> Formats \union {None}]
        /\ sampleFormat \in [Streams -> Formats \union {None}]
        /\ stream \in [Streams -> Formats \union {None}]
        /\ decoder \in [Streams -> {"flac", "opus", None}]
      BY StreamAssumption DEF Init
  <2>3. /\ syncs \in [Streams -> Nat] /\ audioBuffers \in [Streams -> Nat]
        /\ armed \in [Streams -> Nat] /\ clock \in [Streams -> Nat]
        /\ drops \in Nat /\ changes \in Nat
      BY DEF Init
  <2>4. /\ snapstream \in Streams \union {None} /\ autoplayDone \in BOOLEAN
        /\ readyState \in [Streams -> {"none", "connecting", "open", "closing", "closed"}]
        /\ stopped \in [Streams -> {"no", "live", "down"}]
      BY DEF Init
  <2>5. /\ reconnects \in [Streams -> BOOLEAN] /\ retry \in [Streams -> BOOLEAN]
        /\ ticking \in [Streams -> BOOLEAN] /\ heard \in [Streams -> BOOLEAN]
        /\ refused \in [Streams -> BOOLEAN]
      BY DEF Init
  <2> QED
      BY <2>1, <2>2, <2>3, <2>4, <2>5 DEF TypeOK, PageTypes, SocketTypes, SoundTypes, TimeTypes, HistoryTypes
<1>2. ASSUME NEW i \in Streams PROVE StreamInv(i)
    BY StreamAssumption
       DEF Init, StreamInv, TimerInv, StopInv, SoundInv, GainInv, AudioBufferCount
<1> QED
    BY <1>1, <1>2 DEF Inv

\* Set changes a function at one place only.
LEMMA SetAt ==
    ASSUME NEW S, NEW T, NEW f \in [S -> T], NEW i \in S, NEW x \in T
    PROVE  /\ Set(f, i, x) \in [S -> T]
           /\ Set(f, i, x)[i] = x
           /\ \A j \in S \ {i} : Set(f, i, x)[j] = f[j]
BY DEF Set

\* A message that is taken or appended leaves a sequence of messages.
LEMMA InboxTypes ==
    ASSUME NEW s \in Seq(Messages), NEW m \in Messages
    PROVE  /\ Append(s, m) \in Seq(Messages)
           /\ Append(s, m) # <<>>
           /\ s # <<>> => Append(s, m)[1] = s[1]
           /\ s # <<>> => Tail(s) \in Seq(Messages) /\ Head(s) = s[1] /\ Head(s) \in Messages
OBVIOUS

\* The greeting consists of messages and starts with the settings.
LEMMA GreetingTypes ==
    ASSUME NEW o \in Offers, NEW v \in Volumes, NEW i \in Streams, clock[i] \in Nat
    PROVE  Greeting(o, v, i) \in Seq(Messages)
BY DEF Greeting, Messages, SettingsMsgs, CodecMsgs, TimeMsgs

\* What a message carries has the type that its own type says.
LEMMA HeadMessage ==
    ASSUME NEW m \in Messages
    PROVE  /\ m.type = "settings" => m.volume \in Volumes
           /\ m.type = "codec" => m.offer \in Offers
           /\ m.type = "chunk" => m.format \in Formats
           /\ m.type = "time" => m.clock \in Nat
BY DEF Messages, SettingsMsgs, CodecMsgs, ChunkMsgs, TimeMsgs

----------------------------------------------------------------------------
(* The page                                                                *)

\* Starting a stream that never connected keeps the invariant.
LEMMA StartInv ==
    ASSUME Inv, NEW i \in Streams, Start(i), autoplayDone' \in BOOLEAN
    PROVE  Inv'
<1> USE DEF Start, Connect, Set
<1>1. TypeOK'
  <2>1. PageTypes'
      BY DEF Inv, TypeOK, PageTypes
  <2>2. SocketTypes'
      BY EmptySeq DEF Inv, TypeOK, SocketTypes
  <2>3. SoundTypes' /\ TimeTypes' /\ HistoryTypes'
      BY DEF Inv, TypeOK, SoundTypes, TimeTypes, HistoryTypes, sound, time, bounds
  <2> QED
      BY <2>1, <2>2, <2>3 DEF TypeOK
<1>2. ASSUME NEW j \in Streams PROVE StreamInv(j)'
  <2>1. TimerInv(j)'
      BY <1>1 DEF Inv, StreamInv, TypeOK, PageTypes, SocketTypes, SoundTypes, TimerInv
  <2>2. StopInv(j)'
      BY <1>1, StreamAssumption DEF Inv, StreamInv, TypeOK, PageTypes, SocketTypes, SoundTypes, TimerInv, StopInv, sound
  <2>3. SoundInv(j)' /\ GainInv(j)'
      BY DEF Inv, StreamInv, TypeOK, PageTypes, SocketTypes, SoundTypes, TimerInv, StopInv, SoundInv, GainInv, sound
  <2> QED
      BY <2>1, <2>2, <2>3 DEF StreamInv
<1> QED
    BY <1>1, <1>2 DEF Inv

\* stop() keeps the invariant.
LEMMA ClickStopInv ==
    ASSUME Inv, NEW i \in Streams, ClickStop(i)
    PROVE  Inv'
<1> USE DEF ClickStop, ArmedAfterStop, Detached, Live, Set
<1>1. TypeOK'
  <2>1. PageTypes'
      BY DEF Inv, TypeOK, PageTypes
  <2>2. SocketTypes'
    <3>1. /\ readyState' \in [Streams -> {"none", "connecting", "open", "closing", "closed"}]
          /\ reconnects' \in [Streams -> BOOLEAN]
      <4>1. CASE Detached(i)
          BY <4>1 DEF Inv, TypeOK, SocketTypes
      <4>2. CASE ~Detached(i)
          BY <4>2 DEF Inv, TypeOK, SocketTypes
      <4> QED
          BY <4>1, <4>2
    <3>2. /\ syncs' \in [Streams -> Nat]
          /\ UNCHANGED <<retry, inbox, served>>
        BY DEF Inv, TypeOK, SocketTypes
    <3> QED
        BY <3>1, <3>2 DEF Inv, TypeOK, SocketTypes
  <2>3. SoundTypes'
      BY DEF Inv, TypeOK, StreamInv, SoundInv, SoundTypes
  <2>4. TimeTypes' /\ HistoryTypes'
      BY DEF Inv, TypeOK, TimeTypes, HistoryTypes, time, bounds
  <2> QED
      BY <2>1, <2>2, <2>3, <2>4 DEF TypeOK
<1>2. ASSUME NEW j \in Streams PROVE StreamInv(j)'
  <2>1. TimerInv(j)'
      BY DEF Inv, StreamInv, TypeOK, PageTypes, SocketTypes, SoundTypes, TimerInv
  <2>2. StopInv(j)'
      BY <1>1, StreamAssumption DEF Inv, StreamInv, TypeOK, PageTypes, SocketTypes, SoundTypes,
         HistoryTypes, TimerInv, StopInv, SoundInv
  <2>3. SoundInv(j)' /\ GainInv(j)'
      BY DEF Inv, StreamInv, TypeOK, PageTypes, SocketTypes, SoundTypes, HistoryTypes, TimerInv,
         SoundInv, GainInv
  <2> QED
      BY <2>1, <2>2, <2>3 DEF StreamInv
<1> QED
    BY <1>1, <1>2 DEF Inv

----------------------------------------------------------------------------
(* The socket                                                              *)

\* onopen keeps the invariant: the greeting starts with the settings.
LEMMA OpenedInv ==
    ASSUME Inv, NEW i \in Streams, Opened(i)
    PROVE  Inv'
<1> USE DEF Opened, Set, page, sound, time, history, bounds
<1>1. TypeOK'
  <2>1. PageTypes' /\ SoundTypes' /\ TimeTypes' /\ HistoryTypes'
      BY DEF Inv, TypeOK, PageTypes, SoundTypes, TimeTypes, HistoryTypes
  <2>2. SocketTypes'
    <3>1. PICK o \in Offers, v \in Volumes : /\ inbox' = [inbox EXCEPT ![i] = Greeting(o, v, i)]
                                             /\ served' = [served EXCEPT ![i] = o.format]
        OBVIOUS
    <3>2. Greeting(o, v, i) \in Seq(Messages) /\ o.format \in Formats
        BY GreetingTypes, StreamAssumption DEF Inv, TypeOK, TimeTypes
    <3>3. inbox' \in [Streams -> Seq(Messages)] /\ served' \in [Streams -> Formats \union {None}]
        BY <3>1, <3>2 DEF Inv, TypeOK, SocketTypes
    <3>4. /\ readyState' \in [Streams -> {"none", "connecting", "open", "closing", "closed"}]
          /\ syncs' \in [Streams -> Nat]
        BY DEF Inv, TypeOK, SocketTypes
    <3> QED
        BY <3>3, <3>4 DEF Inv, TypeOK, SocketTypes
  <2> QED
      BY <2>1, <2>2 DEF TypeOK
<1>2. ASSUME NEW j \in Streams PROVE StreamInv(j)'
  <2>1. TimerInv(j)'
      BY DEF Inv, StreamInv, TypeOK, PageTypes, SocketTypes, SoundTypes, TimerInv
  <2>2. StopInv(j)' /\ SoundInv(j)'
      BY DEF Inv, StreamInv, TypeOK, PageTypes, SocketTypes, SoundTypes, TimerInv, StopInv, SoundInv
  <2>3. GainInv(j)'
      BY StreamAssumption DEF Inv, StreamInv, TypeOK, PageTypes, SocketTypes, SoundTypes, GainInv, Greeting
  <2> QED
      BY <2>1, <2>2, <2>3 DEF StreamInv
<1> QED
    BY <1>1, <1>2 DEF Inv

\* The server's close keeps the invariant.
LEMMA ServerClosesInv ==
    ASSUME Inv, NEW i \in Streams, ServerCloses(i)
    PROVE  Inv'
<1> USE DEF ServerCloses, Set, page, sound, time, history
<1>1. TypeOK'
  <2>1. PageTypes' /\ SoundTypes' /\ TimeTypes'
      BY DEF Inv, TypeOK, PageTypes, SoundTypes, TimeTypes
  <2>2. SocketTypes'
      BY DEF Inv, TypeOK, SocketTypes
  <2>3. HistoryTypes'
      BY DEF Inv, TypeOK, HistoryTypes
  <2> QED
      BY <2>1, <2>2, <2>3 DEF TypeOK
<1>2. ASSUME NEW j \in Streams PROVE StreamInv(j)'
  <2>1. TimerInv(j)'
      BY DEF Inv, StreamInv, TypeOK, PageTypes, SocketTypes, SoundTypes, TimerInv
  <2>2. StopInv(j)' /\ SoundInv(j)'
      BY DEF Inv, StreamInv, TypeOK, PageTypes, SocketTypes, SoundTypes, TimerInv, StopInv, SoundInv
  <2>3. GainInv(j)'
      BY DEF Inv, StreamInv, TypeOK, PageTypes, SocketTypes, SoundTypes, GainInv
  <2> QED
      BY <2>1, <2>2, <2>3 DEF StreamInv
<1> QED
    BY <1>1, <1>2 DEF Inv

\* onclose keeps the invariant: it stops the interval of the connection.
LEMMA ClosedInv ==
    ASSUME Inv, NEW i \in Streams, Closed(i)
    PROVE  Inv'
<1> USE DEF Closed, SyncsAfterClose, Reconnecting, Set, page, sound, time, history
<1>1. TypeOK'
  <2>1. PageTypes' /\ SoundTypes' /\ TimeTypes'
      BY DEF Inv, TypeOK, PageTypes, SoundTypes, TimeTypes
  <2>2. SocketTypes'
    <3>1. readyState' \in [Streams -> {"none", "connecting", "open", "closing", "closed"}]
        BY DEF Inv, TypeOK, SocketTypes
    <3>2. syncs' \in [Streams -> Nat] /\ retry' \in [Streams -> BOOLEAN]
      <4>1. CASE Reconnecting(i)
        <5>1. SyncsAfterClose(i) \in Nat
            BY DEF Inv, TypeOK, SocketTypes
        <5> HIDE DEF SyncsAfterClose
        <5>2. syncs' = [syncs EXCEPT ![i] = SyncsAfterClose(i)]
              /\ retry' = [retry EXCEPT ![i] = TRUE]
            BY <4>1
        <5> QED
            BY <5>1, <5>2 DEF Inv, TypeOK, SocketTypes
      <4>2. CASE ~Reconnecting(i)
          BY <4>2 DEF Inv, TypeOK, SocketTypes
      <4> QED
          BY <4>1, <4>2
    <3> QED
        BY <3>1, <3>2 DEF Inv, TypeOK, SocketTypes
  <2>3. HistoryTypes'
      BY DEF Inv, TypeOK, HistoryTypes
  <2> QED
      BY <2>1, <2>2, <2>3 DEF TypeOK
<1>2. ASSUME NEW j \in Streams PROVE StreamInv(j)'
  <2>1. TimerInv(j)'
      BY DEF Inv, StreamInv, TypeOK, PageTypes, SocketTypes, SoundTypes, TimerInv
  <2>2. StopInv(j)' /\ SoundInv(j)'
      BY DEF Inv, StreamInv, TypeOK, PageTypes, SocketTypes, SoundTypes, TimerInv, StopInv, SoundInv
  <2>3. GainInv(j)'
      BY DEF Inv, StreamInv, TypeOK, PageTypes, SocketTypes, SoundTypes, GainInv
  <2> QED
      BY <2>1, <2>2, <2>3 DEF StreamInv
<1> QED
    BY <1>1, <1>2 DEF Inv

\* A retry keeps the invariant: it follows a close.
LEMMA RetryInv ==
    ASSUME Inv, NEW i \in Streams, Retry(i)
    PROVE  Inv'
<1> USE DEF Retry, Connect, Set, page, sound, time, bounds
<1>1. TypeOK'
  <2>1. PageTypes' /\ SoundTypes' /\ TimeTypes'
      BY DEF Inv, TypeOK, PageTypes, SoundTypes, TimeTypes
  <2>2. SocketTypes'
      BY EmptySeq DEF Inv, TypeOK, SocketTypes
  <2>3. HistoryTypes'
      BY DEF Inv, TypeOK, HistoryTypes
  <2> QED
      BY <2>1, <2>2, <2>3 DEF TypeOK
<1>2. ASSUME NEW j \in Streams PROVE StreamInv(j)'
  <2>1. TimerInv(j)'
      BY DEF Inv, StreamInv, TypeOK, PageTypes, SocketTypes, SoundTypes, TimerInv
  <2>2. StopInv(j)' /\ SoundInv(j)'
      BY DEF Inv, StreamInv, TypeOK, PageTypes, SocketTypes, SoundTypes, TimerInv, StopInv, SoundInv
  <2>3. GainInv(j)'
      BY DEF Inv, StreamInv, TypeOK, PageTypes, SocketTypes, SoundTypes, GainInv
  <2> QED
      BY <2>1, <2>2, <2>3 DEF StreamInv
<1> QED
    BY <1>1, <1>2 DEF Inv

\* A time request keeps the invariant.
LEMMA SyncTimeInv ==
    ASSUME Inv, NEW i \in Streams, SyncTime(i)
    PROVE  Inv'
<1> USE DEF SyncTime, Set, page, sound, time, history, bounds
<1>1. TypeOK'
  <2>1. PageTypes' /\ SoundTypes' /\ TimeTypes' /\ HistoryTypes'
      BY DEF Inv, TypeOK, PageTypes, SoundTypes, TimeTypes, HistoryTypes
  <2>2. SocketTypes'
      BY InboxTypes DEF Inv, TypeOK, SocketTypes, TimeTypes, Messages, TimeMsgs
  <2> QED
      BY <2>1, <2>2 DEF TypeOK
<1>2. ASSUME NEW j \in Streams PROVE StreamInv(j)'
  <2>1. TimerInv(j)' /\ StopInv(j)' /\ SoundInv(j)'
      BY DEF Inv, StreamInv, TypeOK, PageTypes, SocketTypes, SoundTypes, TimerInv, StopInv, SoundInv
  <2>2. GainInv(j)'
    <3>1. \E m \in Messages : inbox' = [inbox EXCEPT ![i] = Append(inbox[i], m)]
        BY DEF Inv, TypeOK, TimeTypes, Messages, TimeMsgs
    <3>2. /\ inbox[i] \in Seq(Messages) /\ inbox[j] \in Seq(Messages)
          /\ inbox \in [Streams -> Seq(Messages)]
        BY DEF Inv, TypeOK, SocketTypes
    <3>3. inbox[j] # <<>> => inbox'[j] # <<>> /\ inbox'[j][1] = inbox[j][1]
        BY <3>1, <3>2, InboxTypes
    <3>4. UNCHANGED <<stream, settings, gain, readyState, served>>
        OBVIOUS
    <3>5. GainInv(j)
        BY DEF Inv, StreamInv
    <3> HIDE DEF SyncTime, Set, page, sound, time, history, bounds
    <3> QED
        BY <3>3, <3>4, <3>5 DEF GainInv
  <2> QED
      BY <2>1, <2>2 DEF StreamInv
<1> QED
    BY <1>1, <1>2 DEF Inv

----------------------------------------------------------------------------
(* The server                                                              *)

\* A message behind others keeps the invariant.
LEMMA SendsInv ==
    ASSUME Inv, NEW i \in Streams, NEW m \in Messages, Sends(i, m), served' \in [Streams -> Formats \union {None}],
           served[i] # None => served'[i] # None,
           \A j \in Streams \ {i} : served'[j] = served[j], changes' \in Nat
    PROVE  Inv'
<1> USE DEF Sends, Set, page, sound, time, history
<1>1. TypeOK'
  <2>1. PageTypes' /\ SoundTypes' /\ TimeTypes'
      BY DEF Inv, TypeOK, PageTypes, SoundTypes, TimeTypes
  <2>2. SocketTypes'
      BY InboxTypes DEF Inv, TypeOK, SocketTypes
  <2>3. HistoryTypes'
      BY DEF Inv, TypeOK, HistoryTypes
  <2> QED
      BY <2>1, <2>2, <2>3 DEF TypeOK
<1>2. ASSUME NEW j \in Streams PROVE StreamInv(j)'
  <2>1. TimerInv(j)' /\ StopInv(j)' /\ SoundInv(j)'
      BY DEF Inv, StreamInv, TypeOK, PageTypes, SocketTypes, SoundTypes, TimerInv, StopInv, SoundInv
  <2>2. GainInv(j)'
    <3>1. CASE j = i
      <4>1. inbox[i] \in Seq(Messages) /\ inbox'[i] = Append(inbox[i], m)
          BY DEF Inv, TypeOK, SocketTypes
      <4>2. inbox[i] # <<>> => inbox'[i] # <<>> /\ inbox'[i][1] = inbox[i][1]
          BY <4>1, InboxTypes
      <4> QED
          BY <3>1, <4>2 DEF Inv, StreamInv, GainInv
    <3>2. CASE j # i
        BY <3>2 DEF Inv, StreamInv, TypeOK, SocketTypes, GainInv
    <3> QED
        BY <3>1, <3>2
  <2> QED
      BY <2>1, <2>2 DEF StreamInv
<1> QED
    BY <1>1, <1>2 DEF Inv

\* A chunk keeps the invariant: an open connection has served a codec.
LEMMA SendChunkInv ==
    ASSUME Inv, NEW i \in Streams, SendChunk(i)
    PROVE  Inv'
<1>1. served[i] \in Formats
    BY DEF Inv, TypeOK, SocketTypes, StreamInv, GainInv, SendChunk, Sends
<1>2. [type |-> "chunk", format |-> served[i]] \in Messages
    BY <1>1 DEF Messages, ChunkMsgs
<1> QED
    BY <1>2, SendsInv DEF SendChunk, Inv, TypeOK, SocketTypes, HistoryTypes

\* Another codec keeps the invariant.
LEMMA SendCodecInv ==
    ASSUME Inv, NEW i \in Streams, NEW o \in Offers, SendCodec(i, o)
    PROVE  Inv'
<1>1. o.format \in Formats /\ o.format # None
    BY StreamAssumption
<1>2. [type |-> "codec", offer |-> o] \in Messages
    BY DEF Messages, CodecMsgs
<1>3. served' \in [Streams -> Formats \union {None}] /\ served'[i] # None
      /\ \A j \in Streams \ {i} : served'[j] = served[j]
    BY <1>1 DEF SendCodec, Set, Inv, TypeOK, SocketTypes
<1> QED
    BY <1>2, <1>3, SendsInv DEF SendCodec, Inv, TypeOK, HistoryTypes

\* Other settings keep the invariant.
LEMMA SendSettingsInv ==
    ASSUME Inv, NEW i \in Streams, NEW v \in Volumes, SendSettings(i, v)
    PROVE  Inv'
<1>1. [type |-> "settings", volume |-> v] \in Messages
    BY DEF Messages, SettingsMsgs
<1> QED
    BY <1>1, SendsInv DEF SendSettings, Inv, TypeOK, SocketTypes, HistoryTypes

----------------------------------------------------------------------------
(* onMessage()                                                             *)

\* Settings keep the invariant: the gain follows them.
LEMMA OnSettingsInv ==
    ASSUME Inv, NEW i \in Streams, OnSettings(i)
    PROVE  Inv'
<1> USE DEF OnSettings, Receives, Set, page, bounds, time
<1>1. TypeOK'
  <2>1. PageTypes' /\ SocketTypes'
      BY InboxTypes DEF Inv, TypeOK, PageTypes, SocketTypes
  <2>2. SoundTypes'
    <3>1. Head(inbox[i]).volume \in Volumes
        BY HeadMessage, InboxTypes DEF Inv, TypeOK, SocketTypes
    <3> QED
        BY <3>1 DEF Inv, TypeOK, SoundTypes
  <2>3. TimeTypes' /\ HistoryTypes'
      BY DEF Inv, TypeOK, TimeTypes, HistoryTypes
  <2> QED
      BY <2>1, <2>2, <2>3 DEF TypeOK
<1>2. ASSUME NEW j \in Streams PROVE StreamInv(j)'
  <2>1. TimerInv(j)' /\ StopInv(j)' /\ SoundInv(j)'
      BY DEF Inv, StreamInv, TypeOK, PageTypes, SocketTypes, SoundTypes, TimerInv, StopInv, SoundInv
  <2>2. GainInv(j)'
      BY SMTT(30), HeadMessage, StreamAssumption DEF Inv, StreamInv, TypeOK, PageTypes, SocketTypes, SoundTypes, GainInv
  <2> QED
      BY <2>1, <2>2 DEF StreamInv
<1> QED
    BY <1>1, <1>2 DEF Inv

\* A codec without a decoder keeps the invariant.
LEMMA CodecUnsupportedInv ==
    ASSUME Inv, NEW i \in Streams, CodecUnsupported(i)
    PROVE  Inv'
<1> USE DEF CodecUnsupported, OnCodec, Receives, Set, page, bounds, sound, time
<1>1. TypeOK'
  <2>1. PageTypes' /\ SocketTypes'
      BY InboxTypes DEF Inv, TypeOK, PageTypes, SocketTypes
  <2>2. SoundTypes' /\ TimeTypes' /\ HistoryTypes'
      BY DEF Inv, TypeOK, SoundTypes, TimeTypes, HistoryTypes
  <2> QED
      BY <2>1, <2>2 DEF TypeOK
<1>2. ASSUME NEW j \in Streams PROVE StreamInv(j)'
  <2>1. TimerInv(j)' /\ StopInv(j)' /\ SoundInv(j)'
      BY DEF Inv, StreamInv, TypeOK, PageTypes, SocketTypes, SoundTypes, TimerInv, StopInv, SoundInv
  <2>2. GainInv(j)'
      BY DEF Inv, StreamInv, TypeOK, PageTypes, SocketTypes, SoundTypes, GainInv
  <2> QED
      BY <2>1, <2>2 DEF StreamInv
<1> QED
    BY <1>1, <1>2 DEF Inv

\* A format that is refused keeps the invariant: what sounds is not touched.
LEMMA FormatRefusedInv ==
    ASSUME Inv, NEW i \in Streams, FormatRefused(i)
    PROVE  Inv'
<1> USE DEF FormatRefused, OnCodec, DecoderFor, Receives, Set, page, bounds, time
<1>1. TypeOK'
  <2>1. PageTypes' /\ SocketTypes'
      BY InboxTypes DEF Inv, TypeOK, PageTypes, SocketTypes
  <2>2. SoundTypes'
      BY HeadMessage, InboxTypes, StreamAssumption
         DEF Inv, TypeOK, SoundTypes, SocketTypes, Offer, HeaderFormats, Codecs
  <2>3. TimeTypes' /\ HistoryTypes'
      BY DEF Inv, TypeOK, TimeTypes, HistoryTypes
  <2> QED
      BY <2>1, <2>2, <2>3 DEF TypeOK
<1>2. ASSUME NEW j \in Streams PROVE StreamInv(j)'
  <2>1. TimerInv(j)' /\ StopInv(j)' /\ SoundInv(j)'
      BY DEF Inv, StreamInv, TypeOK, PageTypes, SocketTypes, SoundTypes, TimerInv, StopInv, SoundInv
  <2>2. GainInv(j)'
      BY DEF Inv, StreamInv, TypeOK, PageTypes, SocketTypes, SoundTypes, GainInv
  <2> QED
      BY <2>1, <2>2 DEF StreamInv
<1> QED
    BY <1>1, <1>2 DEF Inv

\* A format that is accepted keeps the invariant: three sources, none of the old.
LEMMA FormatAcceptedInv ==
    ASSUME Inv, NEW i \in Streams, FormatAccepted(i)
    PROVE  Inv'
<1> USE DEF FormatAccepted, OnCodec, GainAfterCodec, ChunksAfterCodec, ArmedAfterStop, NewClock,
        Receives, Set, page, bounds
<1>1. TypeOK'
  <2>1. PageTypes' /\ SocketTypes'
      BY InboxTypes DEF Inv, TypeOK, PageTypes, SocketTypes
  <2>2. SoundTypes'
    <3>1. Head(inbox[i]) \in Messages /\ Offer(i) \in Offers
        BY HeadMessage, InboxTypes DEF Inv, TypeOK, SocketTypes, Offer
    <3>2. HeaderFormats(Offer(i)) \subseteq Formats
        BY <3>1, StreamAssumption DEF HeaderFormats
    <3>3. DecoderFor(Offer(i).codec, decoder[i]) \in {"flac", "opus", None}
        BY <3>1, StreamAssumption DEF Inv, TypeOK, SoundTypes, DecoderFor, Codecs
    <3>4. settings[i] \in Volumes
        BY DEF Inv, StreamInv, GainInv, TypeOK, SocketTypes, SoundTypes
    <3>5. /\ sampleFormat' \in [Streams -> Formats \union {None}]
          /\ stream' \in [Streams -> Formats \union {None}]
          /\ decoder' \in [Streams -> {"flac", "opus", None}]
        BY <3>2, <3>3 DEF Inv, TypeOK, SoundTypes
    <3>6. /\ gain' \in [Streams -> Volumes]
          /\ settings' \in [Streams -> Volumes \union {None}]
          /\ chunks' \in [Streams -> Seq(Formats)]
        BY <3>4, EmptySeq DEF Inv, TypeOK, SoundTypes
    <3>7. audioBuffers' \in [Streams -> Nat]
        BY DEF Inv, TypeOK, SoundTypes, AudioBufferCount
    <3>8. armed' \in [Streams -> Nat]
        BY DEF Inv, TypeOK, SoundTypes, StreamInv, SoundInv, AudioBufferCount
    <3> QED
        BY <3>5, <3>6, <3>7, <3>8 DEF SoundTypes
  <2>3. TimeTypes' /\ HistoryTypes'
      BY EmptySeq DEF Inv, TypeOK, TimeTypes, HistoryTypes
  <2> QED
      BY <2>1, <2>2, <2>3 DEF TypeOK
<1>2. ASSUME NEW j \in Streams PROVE StreamInv(j)'
  <2>1. TimerInv(j)' /\ StopInv(j)'
      BY DEF Inv, StreamInv, TypeOK, PageTypes, SocketTypes, SoundTypes, TimerInv, StopInv, SoundInv
  <2>2. SoundInv(j)'
      BY SMTT(30) DEF Inv, StreamInv, TypeOK, PageTypes, SocketTypes, SoundTypes, TimerInv, StopInv, SoundInv, AudioBufferCount
  <2>3. GainInv(j)'
      BY SMTT(30), InboxTypes, StreamAssumption DEF Inv, StreamInv, TypeOK, PageTypes, SocketTypes, SoundTypes, GainInv
  <2> QED
      BY <2>1, <2>2, <2>3 DEF StreamInv
<1> QED
    BY <1>1, <1>2 DEF Inv

\* A chunk that is added keeps the invariant.
LEMMA ChunkAddedInv ==
    ASSUME Inv, NEW i \in Streams, ChunkAdded(i)
    PROVE  Inv'
<1> USE DEF ChunkAdded, Receives, Set, page, bounds, time
<1>1. TypeOK'
  <2>1. PageTypes' /\ SocketTypes'
      BY InboxTypes DEF Inv, TypeOK, PageTypes, SocketTypes
  <2>2. SoundTypes'
    <3>1. Head(inbox[i]).format \in Formats /\ chunks[i] \in Seq(Formats)
        BY HeadMessage, InboxTypes DEF Inv, TypeOK, SocketTypes, SoundTypes
    <3> DEFINE all == Append(chunks[i], Head(inbox[i]).format)
    <3>2. all \in Seq(Formats)
        BY <3>1
    <3>3. ASSUME NEW n \in 1 .. Len(all) + 1 PROVE SubSeq(all, n, Len(all)) \in Seq(Formats)
        BY <3>2, SubSeqProperties
    <3> HIDE DEF all
    <3>4. \E c \in Seq(Formats) : chunks' = [chunks EXCEPT ![i] = c]
        BY <3>3 DEF all
    <3> QED
        BY <3>4 DEF Inv, TypeOK, SoundTypes
  <2>3. TimeTypes' /\ HistoryTypes'
      BY DEF Inv, TypeOK, TimeTypes, HistoryTypes
  <2> QED
      BY <2>1, <2>2, <2>3 DEF TypeOK
<1>2. ASSUME NEW j \in Streams PROVE StreamInv(j)'
  <2>1. TimerInv(j)' /\ StopInv(j)' /\ SoundInv(j)'
      BY DEF Inv, StreamInv, TypeOK, PageTypes, SocketTypes, SoundTypes, TimerInv, StopInv, SoundInv
  <2>2. GainInv(j)'
      BY DEF Inv, StreamInv, TypeOK, PageTypes, SocketTypes, SoundTypes, GainInv
  <2> QED
      BY <2>1, <2>2 DEF StreamInv
<1> QED
    BY <1>1, <1>2 DEF Inv

\* A chunk that is lost keeps the invariant.
LEMMA ChunkLostInv ==
    ASSUME Inv, NEW i \in Streams, ChunkLost(i)
    PROVE  Inv'
<1> USE DEF ChunkLost, Receives, Set, page, bounds, sound, time
<1>1. TypeOK'
  <2>1. PageTypes' /\ SocketTypes'
      BY InboxTypes DEF Inv, TypeOK, PageTypes, SocketTypes
  <2>2. SoundTypes' /\ TimeTypes' /\ HistoryTypes'
      BY DEF Inv, TypeOK, SoundTypes, TimeTypes, HistoryTypes
  <2> QED
      BY <2>1, <2>2 DEF TypeOK
<1>2. ASSUME NEW j \in Streams PROVE StreamInv(j)'
  <2>1. TimerInv(j)' /\ StopInv(j)' /\ SoundInv(j)'
      BY DEF Inv, StreamInv, TypeOK, PageTypes, SocketTypes, SoundTypes, TimerInv, StopInv, SoundInv
  <2>2. GainInv(j)'
      BY DEF Inv, StreamInv, TypeOK, PageTypes, SocketTypes, SoundTypes, GainInv
  <2> QED
      BY <2>1, <2>2 DEF StreamInv
<1> QED
    BY <1>1, <1>2 DEF Inv

\* A time answer keeps the invariant.
LEMMA OnTimeInv ==
    ASSUME Inv, NEW i \in Streams, OnTime(i)
    PROVE  Inv'
<1> USE DEF OnTime, Receives, Set, page, bounds, sound
<1>1. TypeOK'
  <2>1. PageTypes' /\ SocketTypes'
      BY InboxTypes DEF Inv, TypeOK, PageTypes, SocketTypes
  <2>2. SoundTypes' /\ HistoryTypes'
      BY DEF Inv, TypeOK, SoundTypes, HistoryTypes
  <2>3. TimeTypes'
    <3>1. Head(inbox[i]).clock \in Nat /\ diffBuffer[i] \in Seq(Nat)
        BY HeadMessage, InboxTypes DEF Inv, TypeOK, SocketTypes, TimeTypes
    <3> DEFINE all == Append(diffBuffer[i], Head(inbox[i]).clock)
    <3>2. all \in Seq(Nat) /\ Tail(all) \in Seq(Nat) /\ <<>> \in Seq(Nat)
        BY SMTT(30), <3>1
    <3>3. \E b \in Seq(Nat) : diffBuffer' = [diffBuffer EXCEPT ![i] = b]
        BY <3>2
    <3> QED
        BY <3>3 DEF Inv, TypeOK, TimeTypes
  <2> QED
      BY <2>1, <2>2, <2>3 DEF TypeOK
<1>2. ASSUME NEW j \in Streams PROVE StreamInv(j)'
  <2>1. TimerInv(j)' /\ StopInv(j)' /\ SoundInv(j)'
      BY DEF Inv, StreamInv, TypeOK, PageTypes, SocketTypes, SoundTypes, TimerInv, StopInv, SoundInv
  <2>2. GainInv(j)'
      BY DEF Inv, StreamInv, TypeOK, PageTypes, SocketTypes, SoundTypes, GainInv
  <2> QED
      BY <2>1, <2>2 DEF StreamInv
<1> QED
    BY <1>1, <1>2 DEF Inv

----------------------------------------------------------------------------
(* The audio context                                                       *)

\* A clock that starts keeps the invariant.
LEMMA ClockStartsInv ==
    ASSUME Inv, NEW i \in Streams, ClockStarts(i)
    PROVE  Inv'
<1> USE DEF ClockStarts, Set, page, socket, sound, history, bounds
<1>1. TypeOK'
  <2>1. PageTypes' /\ SocketTypes' /\ SoundTypes' /\ HistoryTypes'
      BY DEF Inv, TypeOK, PageTypes, SocketTypes, SoundTypes, HistoryTypes
  <2>2. TimeTypes'
      BY DEF Inv, TypeOK, TimeTypes
  <2> QED
      BY <2>1, <2>2 DEF TypeOK
<1>2. ASSUME NEW j \in Streams PROVE StreamInv(j)'
  <2>1. TimerInv(j)' /\ StopInv(j)' /\ SoundInv(j)' /\ GainInv(j)'
      BY DEF Inv, StreamInv, TypeOK, PageTypes, SocketTypes, SoundTypes, TimerInv, StopInv, SoundInv, GainInv
  <2> QED
      BY <2>1 DEF StreamInv
<1> QED
    BY <1>1, <1>2 DEF Inv

\* A source that ends keeps the invariant: its buffer is replaced.
LEMMA EndedInv ==
    ASSUME Inv, NEW i \in Streams, Ended(i)
    PROVE  Inv'
<1> USE DEF Ended, Set, page, socket, time, history, bounds
<1>1. TypeOK'
  <2>1. PageTypes' /\ SocketTypes' /\ TimeTypes' /\ HistoryTypes'
      BY DEF Inv, TypeOK, PageTypes, SocketTypes, TimeTypes, HistoryTypes
  <2>2. SoundTypes'
      BY DEF Inv, TypeOK, SoundTypes
  <2> QED
      BY <2>1, <2>2 DEF TypeOK
<1>2. ASSUME NEW j \in Streams PROVE StreamInv(j)'
  <2>1. TimerInv(j)' /\ StopInv(j)' /\ SoundInv(j)' /\ GainInv(j)'
      BY DEF Inv, StreamInv, TypeOK, PageTypes, SocketTypes, SoundTypes, TimerInv, StopInv, SoundInv, GainInv
  <2> QED
      BY <2>1 DEF StreamInv
<1> QED
    BY <1>1, <1>2 DEF Inv

----------------------------------------------------------------------------
(* The theorems                                                            *)

\* Every step keeps the invariant.
LEMMA InvNext == Inv /\ [Next]_vars => Inv'
<1> SUFFICES ASSUME Inv, [Next]_vars PROVE Inv'
    OBVIOUS
<1>1. CASE UNCHANGED vars
    BY <1>1 DEF vars, page, socket, sound, time, history, bounds, Inv, TypeOK, PageTypes,
       SocketTypes, SoundTypes, TimeTypes, HistoryTypes, StreamInv, TimerInv, StopInv, SoundInv,
       GainInv
<1>2. CASE Next
  <2>1. PICK i \in Streams :
           \/ ClickPlay(i) \/ Autoplay(i) \/ ClickStop(i)
           \/ Opened(i) \/ ServerCloses(i) \/ Closed(i) \/ Retry(i) \/ SyncTime(i)
           \/ SendChunk(i) \/ (\E v \in Volumes : SendSettings(i, v))
           \/ (\E o \in Offers : SendCodec(i, o))
           \/ OnMessage(i)
           \/ ClockStarts(i) \/ Ended(i)
      BY <1>2 DEF Next
  <2>2. CASE ClickPlay(i)
      BY <2>2, StartInv DEF ClickPlay, Inv, TypeOK, PageTypes
  <2>3. CASE Autoplay(i)
      BY <2>3, StartInv DEF Autoplay
  <2>4. CASE ClickStop(i)
      BY <2>4, ClickStopInv
  <2>5. CASE Opened(i) \/ ServerCloses(i) \/ Closed(i) \/ Retry(i) \/ SyncTime(i)
      BY <2>5, OpenedInv, ServerClosesInv, ClosedInv, RetryInv, SyncTimeInv
  <2>6. CASE SendChunk(i) \/ (\E v \in Volumes : SendSettings(i, v)) \/ (\E o \in Offers : SendCodec(i, o))
      BY <2>6, SendChunkInv, SendSettingsInv, SendCodecInv
  <2>7. CASE OnMessage(i)
      BY <2>7, OnSettingsInv, CodecUnsupportedInv, FormatRefusedInv, FormatAcceptedInv,
         ChunkAddedInv, ChunkLostInv, OnTimeInv DEF OnMessage
  <2>8. CASE ClockStarts(i) \/ Ended(i)
      BY <2>8, ClockStartsInv, EndedInv
  <2> QED
      BY <2>1, <2>2, <2>3, <2>4, <2>5, <2>6, <2>7, <2>8
<1> QED
    BY <1>1, <1>2

\* The invariant holds in every state of every behaviour.
THEOREM InvHolds == Spec => []Inv
<1> QED
    BY InvInit, InvNext, PTL DEF Spec

\* Every variable of every player keeps its type.
THEOREM TypeCorrect == Spec => []TypeOK
<1>1. Inv => TypeOK
    BY DEF Inv
<1> QED
    BY <1>1, InvHolds, PTL

\* Whatever codecs, losses and stops come, exactly the sources in audioBuffers
\* continue the sound, and with a standard audio context there are three or
\* none of them.
THEOREM InFlightHolds == Spec => []InFlight
<1>1. Inv => InFlight
    BY DEF Inv, StreamInv, SoundInv, InFlight
<1> QED
    BY <1>1, InvHolds, PTL

\* A player stopped before its connection broke never connects or sounds again,
\* among any number of players.
THEOREM StoppedStaysQuietHolds == Spec => []StoppedStaysQuiet
<1>1. Inv => StoppedStaysQuiet
    BY DEF Inv, StreamInv, StopInv, StoppedStaysQuiet
<1> QED
    BY <1>1, InvHolds, PTL

\* No number of losses and retries leaves a second syncTime interval.
THEOREM OneSyncTimerHolds == Spec => []OneSyncTimer
<1>1. Inv => OneSyncTimer
    BY DEF Inv, StreamInv, TimerInv, OneSyncTimer
<1> QED
    BY <1>1, InvHolds, PTL

\* What sounds has the volume of the latest settings, for any settings and
\* codecs in any order.
THEOREM GainFollowsHolds == Spec => []GainFollows
<1>1. Inv => GainFollows
    BY DEF Inv, StreamInv, GainInv, GainFollows
<1> QED
    BY <1>1, InvHolds, PTL

----------------------------------------------------------------------------
(* Chunks and their format: what is on its way fits together               *)

IsChunk(m) == m.type = "chunk"
IsCodec(m) == m.type = "codec"

\* Messages that come while format x is decoded and e is what the server
\* encodes at present: every chunk has the format of the last codec before it.
Consistent(q, x, e) ==
    /\ \A k, l \in 1 .. Len(q) :
          l < k /\ IsChunk(q[k]) /\ IsCodec(q[l]) /\ (\A j \in l + 1 .. k - 1 : ~IsCodec(q[j]))
              => q[k].format = q[l].offer.format
    /\ \A k \in 1 .. Len(q) :
          IsChunk(q[k]) /\ (\A j \in 1 .. k - 1 : ~IsCodec(q[j])) => q[k].format = x
    /\ \A l \in 1 .. Len(q) :
          IsCodec(q[l]) /\ (\A j \in l + 1 .. Len(q) : ~IsCodec(q[j])) => e = q[l].offer.format
    /\ (\A j \in 1 .. Len(q) : ~IsCodec(q[j])) => x = e

FormatInv(i) ==
    /\ readyState[i] = "open" =>
          \E x \in Formats \union {None} :
              Consistent(inbox[i], x, served[i]) /\ (~refused[i] => x = stream[i])
    /\ ~refused[i] => \A k \in 1 .. Len(chunks[i]) : chunks[i][k] = stream[i]

\* Taking a message keeps the rest consistent; a chunk has the present format.
LEMMA ConsistentTail ==
    ASSUME NEW q \in Seq(Messages), q # <<>>, NEW x, NEW e, Consistent(q, x, e)
    PROVE  /\ ~IsCodec(q[1]) => Consistent(Tail(q), x, e)
           /\ IsCodec(q[1]) => Consistent(Tail(q), q[1].offer.format, e)
           /\ IsChunk(q[1]) => q[1].format = x
<1> DEFINE t == Tail(q)
<1>1. /\ t \in Seq(Messages) /\ Len(q) \in Nat /\ Len(q) > 0 /\ Len(t) = Len(q) - 1
      /\ \A k \in 1 .. Len(t) : t[k] = q[k + 1]
    BY HeadTailProperties
<1> HIDE DEF t
<1>2. ASSUME NEW k \in 1 .. Len(t), NEW l \in 1 .. Len(t), l < k, IsChunk(t[k]), IsCodec(t[l]),
             \A j \in l + 1 .. k - 1 : ~IsCodec(t[j])
      PROVE  t[k].format = t[l].offer.format
  <2>1. \A j \in (l + 1) + 1 .. (k + 1) - 1 : ~IsCodec(q[j])
    <3>1. ASSUME NEW j \in (l + 1) + 1 .. (k + 1) - 1 PROVE ~IsCodec(q[j])
      <4>1. j - 1 \in l + 1 .. k - 1 /\ j - 1 \in 1 .. Len(t) /\ (j - 1) + 1 = j
          BY <1>1
      <4> QED
          BY <4>1, <1>1, <1>2
    <3> QED
        BY <3>1
  <2>2. k + 1 \in 1 .. Len(q) /\ l + 1 \in 1 .. Len(q) /\ l + 1 < k + 1
      BY <1>1, <1>2
  <2> QED
      BY <2>1, <2>2, <1>1, <1>2 DEF Consistent
<1>3. ASSUME NEW k \in 1 .. Len(t), IsChunk(t[k]), \A j \in 1 .. k - 1 : ~IsCodec(t[j])
      PROVE  t[k].format = IF IsCodec(q[1]) THEN q[1].offer.format ELSE x
  <2>1. \A j \in 1 + 1 .. (k + 1) - 1 : ~IsCodec(q[j])
    <3>1. ASSUME NEW j \in 1 + 1 .. (k + 1) - 1 PROVE ~IsCodec(q[j])
      <4>1. j - 1 \in 1 .. k - 1 /\ j - 1 \in 1 .. Len(t) /\ (j - 1) + 1 = j
          BY <1>1
      <4> QED
          BY <4>1, <1>1, <1>3
    <3> QED
        BY <3>1
  <2>2. k + 1 \in 1 .. Len(q) /\ 1 \in 1 .. Len(q) /\ 1 < k + 1
      BY <1>1
  <2>3. CASE IsCodec(q[1])
      BY <2>1, <2>2, <2>3, <1>1, <1>3 DEF Consistent
  <2>4. CASE ~IsCodec(q[1])
    <3>1. \A j \in 1 .. (k + 1) - 1 : ~IsCodec(q[j])
        BY <2>1, <2>4
    <3> QED
        BY <3>1, <2>2, <2>4, <1>1, <1>3 DEF Consistent
  <2> QED
      BY <2>3, <2>4
<1>4. ASSUME NEW l \in 1 .. Len(t), IsCodec(t[l]), \A j \in l + 1 .. Len(t) : ~IsCodec(t[j])
      PROVE  e = t[l].offer.format
  <2>1. ASSUME NEW j \in (l + 1) + 1 .. Len(q) PROVE ~IsCodec(q[j])
    <3>1. j - 1 \in l + 1 .. Len(t) /\ j - 1 \in 1 .. Len(t) /\ (j - 1) + 1 = j
        BY <1>1
    <3> QED
        BY <3>1, <1>1, <1>4
  <2>2. l + 1 \in 1 .. Len(q)
      BY <1>1
  <2> QED
      BY <2>1, <2>2, <1>1, <1>4 DEF Consistent
<1>5. ASSUME \A j \in 1 .. Len(t) : ~IsCodec(t[j])
      PROVE  e = IF IsCodec(q[1]) THEN q[1].offer.format ELSE x
  <2>1. ASSUME NEW j \in 1 + 1 .. Len(q) PROVE ~IsCodec(q[j])
    <3>1. j - 1 \in 1 .. Len(t) /\ (j - 1) + 1 = j
        BY <1>1
    <3> QED
        BY <3>1, <1>1, <1>5
  <2>2. 1 \in 1 .. Len(q)
      BY <1>1
  <2>3. CASE IsCodec(q[1])
      BY <2>1, <2>2, <2>3 DEF Consistent
  <2>4. CASE ~IsCodec(q[1])
    <3>1. \A j \in 1 .. Len(q) : ~IsCodec(q[j])
        BY <2>1, <2>4
    <3> QED
        BY <3>1, <2>4 DEF Consistent
  <2> QED
      BY <2>3, <2>4
<1>6. IsChunk(q[1]) => q[1].format = x
    BY <1>1 DEF Consistent
<1>7. ASSUME NEW y, y = IF IsCodec(q[1]) THEN q[1].offer.format ELSE x
      PROVE  Consistent(t, y, e)
    BY <1>2, <1>3, <1>4, <1>5, <1>7 DEF Consistent
<1> QED
    BY <1>6, <1>7 DEF t

\* What the server appends is consistent: a chunk of what it encodes, or a
\* codec that says what it encodes from now on.
LEMMA ConsistentAppend ==
    ASSUME NEW q \in Seq(Messages), NEW m \in Messages, NEW x, NEW e, NEW f, Consistent(q, x, e),
           IsChunk(m) => m.format = e,
           f = IF IsCodec(m) THEN m.offer.format ELSE e
    PROVE  Consistent(Append(q, m), x, f)
<1> DEFINE a == Append(q, m)
<1>1. /\ Len(q) \in Nat /\ Len(a) = Len(q) + 1 /\ a[Len(a)] = m
      /\ \A k \in 1 .. Len(q) : a[k] = q[k]
    OBVIOUS
<1>2. ~(IsChunk(m) /\ IsCodec(m))
    BY DEF IsChunk, IsCodec
<1> HIDE DEF a
<1>3. ASSUME NEW k \in 1 .. Len(a), NEW l \in 1 .. Len(a), l < k, IsChunk(a[k]), IsCodec(a[l]),
             \A j \in l + 1 .. k - 1 : ~IsCodec(a[j])
      PROVE  a[k].format = a[l].offer.format
  <2>1. l \in 1 .. Len(q) /\ \A j \in l + 1 .. k - 1 : ~IsCodec(q[j])
      BY <1>1, <1>3
  <2>2. CASE k \in 1 .. Len(q)
      BY <2>1, <2>2, <1>1, <1>3 DEF Consistent
  <2>3. CASE k = Len(a)
      BY <2>1, <2>3, <1>1, <1>3 DEF Consistent
  <2> QED
      BY <2>2, <2>3, <1>1
<1>4. ASSUME NEW k \in 1 .. Len(a), IsChunk(a[k]), \A j \in 1 .. k - 1 : ~IsCodec(a[j])
      PROVE  a[k].format = x
  <2>1. \A j \in 1 .. k - 1 : ~IsCodec(q[j])
      BY <1>1, <1>4
  <2>2. CASE k \in 1 .. Len(q)
      BY <2>1, <2>2, <1>1, <1>4 DEF Consistent
  <2>3. CASE k = Len(a)
      BY <2>1, <2>3, <1>1, <1>4 DEF Consistent
  <2> QED
      BY <2>2, <2>3, <1>1
<1>5. ASSUME NEW l \in 1 .. Len(a), IsCodec(a[l]), \A j \in l + 1 .. Len(a) : ~IsCodec(a[j])
      PROVE  f = a[l].offer.format
  <2>1. CASE l = Len(a)
      BY <2>1, <1>1, <1>5
  <2>2. CASE l \in 1 .. Len(q)
    <3>1. ~IsCodec(m) /\ \A j \in l + 1 .. Len(q) : ~IsCodec(q[j])
        BY <2>2, <1>1, <1>5
    <3> QED
        BY <3>1, <2>2, <1>1, <1>5 DEF Consistent
  <2> QED
      BY <2>1, <2>2, <1>1
<1>6. ASSUME \A j \in 1 .. Len(a) : ~IsCodec(a[j])
      PROVE  x = f
  <2>1. ~IsCodec(m) /\ \A j \in 1 .. Len(q) : ~IsCodec(q[j])
      BY <1>1, <1>6
  <2> QED
      BY <2>1 DEF Consistent
<1>7. Consistent(a, x, f)
    BY <1>3, <1>4, <1>5, <1>6 DEF Consistent
<1> QED
    BY <1>7 DEF a

\* A player keeps FormatInv as long as no message comes or goes and neither
\* stream nor chunks change, or its connection is not open.
LEMMA FormatKept ==
    ASSUME NEW j, FormatInv(j),
           readyState'[j] = "open" => readyState[j] = "open" /\ inbox'[j] = inbox[j],
           served'[j] = served[j], refused'[j] = refused[j], stream'[j] = stream[j],
           chunks'[j] = chunks[j]
    PROVE  FormatInv(j)'
BY DEF FormatInv

\* The greeting is consistent whatever was decoded before.
LEMMA FormatOpened ==
    ASSUME Inv, NEW i \in Streams, FormatInv(i), Opened(i)
    PROVE  FormatInv(i)'
<1>1. PICK o \in Offers, v \in Volumes : /\ inbox'[i] = Greeting(o, v, i)
                                         /\ served'[i] = o.format
    BY DEF Opened, Set, Inv, TypeOK, SocketTypes
<1> DEFINE q == Greeting(o, v, i)
<1>2. Len(q) = 3 /\ ~IsCodec(q[1]) /\ ~IsChunk(q[1]) /\ IsCodec(q[2]) /\ ~IsChunk(q[2])
      /\ ~IsCodec(q[3]) /\ ~IsChunk(q[3]) /\ q[2].offer = o
    BY DEF Greeting, IsCodec, IsChunk
<1> HIDE DEF q
<1>3. Consistent(q, stream[i], o.format)
    BY <1>2 DEF Consistent
<1> QED
    BY <1>1, <1>3 DEF q, FormatInv, Opened, sound, history, Inv, TypeOK, SoundTypes

\* What the server sends is in the format that it encodes.
LEMMA FormatSent ==
    ASSUME Inv, NEW i \in Streams, NEW m \in Messages, NEW j \in Streams, FormatInv(j),
           readyState[i] = "open", inbox' = Set(inbox, i, Append(inbox[i], m)),
           UNCHANGED <<readyState, sound, history>>,
           IsChunk(m) => m.format = served[i],
           served' = Set(served, i, IF IsCodec(m) THEN m.offer.format ELSE served[i])
    PROVE  FormatInv(j)'
<1>1. /\ inbox[i] \in Seq(Messages) /\ inbox'[i] = Append(inbox[i], m)
      /\ served'[i] = IF IsCodec(m) THEN m.offer.format ELSE served[i]
      /\ j # i => inbox'[j] = inbox[j] /\ served'[j] = served[j]
    BY DEF Set, Inv, TypeOK, SocketTypes
<1>2. CASE j # i
    BY <1>1, <1>2 DEF FormatInv, sound, history
<1>3. CASE j = i
  <2>1. PICK x \in Formats \union {None} :
             Consistent(inbox[i], x, served[i]) /\ (~refused[i] => x = stream[i])
      BY <1>3 DEF FormatInv
  <2>2. Consistent(inbox'[i], x, served'[i])
      BY <1>1, <2>1, ConsistentAppend
  <2> QED
      BY <1>3, <2>1, <2>2 DEF FormatInv, sound, history
<1> QED
    BY <1>2, <1>3

\* What a message that is taken leaves, and what it says of the format.
LEMMA FormatTaken ==
    ASSUME Inv, NEW i \in Streams, FormatInv(i), Receives(i)
    PROVE  /\ inbox[i] \in Seq(Messages) /\ inbox[i] # <<>> /\ Head(inbox[i]) = inbox[i][1]
           /\ Head(inbox[i]) \in Messages
           /\ served'[i] = served[i]
           /\ \E x \in Formats \union {None} :
                 /\ ~refused[i] => x = stream[i]
                 /\ ~IsCodec(Head(inbox[i])) => Consistent(inbox'[i], x, served'[i])
                 /\ IsCodec(Head(inbox[i])) =>
                       Consistent(inbox'[i], Head(inbox[i]).offer.format, served'[i])
                 /\ IsChunk(Head(inbox[i])) => Head(inbox[i]).format = x
<1>1. /\ readyState[i] = "open" /\ inbox[i] \in Seq(Messages) /\ inbox[i] # <<>>
      /\ inbox'[i] = Tail(inbox[i]) /\ served'[i] = served[i]
    BY DEF Receives, Set, Inv, TypeOK, SocketTypes
<1>2. PICK x \in Formats \union {None} :
           Consistent(inbox[i], x, served[i]) /\ (~refused[i] => x = stream[i])
    BY <1>1 DEF FormatInv
<1>3. Head(inbox[i]) = inbox[i][1] /\ Head(inbox[i]) \in Messages
    BY <1>1, InboxTypes
<1> QED
    BY <1>1, <1>2, <1>3, ConsistentTail

\* Settings, times and chunks that are lost change no format.
LEMMA FormatOther ==
    ASSUME Inv, NEW i \in Streams, FormatInv(i), OnSettings(i) \/ ChunkLost(i) \/ OnTime(i)
    PROVE  FormatInv(i)'
<1>1. /\ Receives(i) /\ ~IsCodec(Head(inbox[i]))
      /\ UNCHANGED <<stream, chunks, refused>>
    BY DEF OnSettings, ChunkLost, OnTime, IsCodec, sound
<1> QED
    BY <1>1, FormatTaken DEF FormatInv

\* After a codec that is refused nothing is claimed but that it was the last.
LEMMA FormatAfterRefusal ==
    ASSUME Inv, NEW i \in Streams, FormatInv(i), CodecUnsupported(i) \/ FormatRefused(i)
    PROVE  FormatInv(i)'
<1>1. Receives(i) /\ IsCodec(Head(inbox[i])) /\ refused'[i] = TRUE
    BY DEF CodecUnsupported, FormatRefused, OnCodec, IsCodec, Set, Inv, TypeOK, HistoryTypes
<1>2. Head(inbox[i]).offer.format \in Formats
    BY <1>1, FormatTaken, HeadMessage, StreamAssumption DEF IsCodec
<1>3. Consistent(inbox'[i], Head(inbox[i]).offer.format, served'[i])
    BY <1>1, FormatTaken
<1> QED
    BY <1>1, <1>2, <1>3 DEF FormatInv

\* A format that is accepted is that of the codec, and no chunk is left.
LEMMA FormatAfterAcceptance ==
    ASSUME Inv, NEW i \in Streams, FormatInv(i), FormatAccepted(i)
    PROVE  FormatInv(i)'
<1> DEFINE o == Head(inbox[i]).offer
<1>1. Receives(i) /\ IsCodec(Head(inbox[i]))
    BY DEF FormatAccepted, OnCodec, IsCodec
<1>2. o \in Offers /\ o.format \in Formats
    BY <1>1, FormatTaken, HeadMessage, StreamAssumption DEF IsCodec
<1>3. Consistent(inbox'[i], o.format, served'[i])
    BY <1>1, FormatTaken
<1>4. chunks'[i] = <<>>
    BY DEF FormatAccepted, ChunksAfterCodec, Set, Inv, TypeOK, SoundTypes
<1>5. refused'[i] = (o.codec = "vorbis")
    BY DEF FormatAccepted, Offer, Set, Inv, TypeOK, HistoryTypes
<1>6. o.codec # "vorbis" => stream'[i] = o.format
    BY DEF FormatAccepted, Offer, HeaderFormats, Set, Inv, TypeOK, SoundTypes
<1> HIDE DEF o
<1>7. ~refused'[i] => o.format = stream'[i]
    BY <1>5, <1>6
<1> QED
    BY <1>2, <1>3, <1>4, <1>7 DEF FormatInv

\* What is left of a sequence was in it.
LEMMA RestOf ==
    ASSUME NEW S, NEW s \in Seq(S), NEW n \in 1 .. Len(s) + 1, NEW f, \A k \in 1 .. Len(s) : s[k] = f
    PROVE  \A k \in 1 .. Len(SubSeq(s, n, Len(s))) : SubSeq(s, n, Len(s))[k] = f
BY SubSeqProperties

\* A chunk that is added has the format of the stream.
LEMMA FormatAdded ==
    ASSUME Inv, NEW i \in Streams, FormatInv(i), ChunkAdded(i)
    PROVE  FormatInv(i)'
<1> DEFINE m == Head(inbox[i])
           all == Append(chunks[i], m.format)
<1>1. Receives(i) /\ IsChunk(m) /\ ~IsCodec(m) /\ UNCHANGED <<stream, refused>>
    BY DEF ChunkAdded, IsChunk, IsCodec
<1>2. PICK x \in Formats \union {None} :
           /\ ~refused[i] => x = stream[i]
           /\ Consistent(inbox'[i], x, served'[i])
           /\ m.format = x
    BY <1>1, FormatTaken
<1>3. m.format \in Formats /\ chunks[i] \in Seq(Formats)
    BY <1>1, FormatTaken, HeadMessage DEF IsChunk, Inv, TypeOK, SoundTypes
<1>4. PICK n \in 1 .. Len(all) + 1 : chunks'[i] = SubSeq(all, n, Len(all))
    BY DEF ChunkAdded, Set, Inv, TypeOK, SoundTypes
<1>5. all \in Seq(Formats)
    BY <1>3
<1>6. ~refused[i] => \A k \in 1 .. Len(all) : all[k] = stream[i]
    BY <1>2, <1>3 DEF FormatInv
<1> HIDE DEF all
<1>7. ~refused[i] => \A k \in 1 .. Len(chunks'[i]) : chunks'[i][k] = stream[i]
    BY <1>4, <1>5, <1>6, RestOf
<1> QED
    BY <1>1, <1>2, <1>7 DEF FormatInv

\* What is left of the chunks has the format that they had.
LEMMA FormatEnded ==
    ASSUME Inv, NEW i \in Streams, FormatInv(i), Ended(i)
    PROVE  FormatInv(i)'
<1>1. chunks[i] \in Seq(Formats)
    BY DEF Inv, TypeOK, SoundTypes
<1>2. PICK n \in 1 .. Len(chunks[i]) : chunks'[i] = SubSeq(chunks[i], n + 1, Len(chunks[i]))
    BY DEF Ended, Set, Inv, TypeOK, SoundTypes
<1>3. n + 1 \in 1 .. Len(chunks[i]) + 1
    BY <1>1
<1>4. ~refused[i] => \A k \in 1 .. Len(chunks'[i]) : chunks'[i][k] = stream[i]
    BY <1>1, <1>2, <1>3, RestOf DEF FormatInv
<1> QED
    BY <1>4 DEF FormatInv, Ended, socket, history

\* The initial states satisfy FormatInv.
LEMMA FormatInit == Init => \A i \in Streams : FormatInv(i)
BY DEF Init, FormatInv

\* Every step keeps FormatInv.
LEMMA FormatNext ==
    Inv /\ (\A j \in Streams : FormatInv(j)) /\ [Next]_vars => (\A j \in Streams : FormatInv(j))'
<1> SUFFICES ASSUME Inv, \A j \in Streams : FormatInv(j), [Next]_vars, NEW j \in Streams
             PROVE  FormatInv(j)'
    OBVIOUS
<1>1. CASE UNCHANGED vars
    BY <1>1, FormatKept DEF vars, socket, sound, history
<1>2. CASE Next
  <2>1. PICK i \in Streams :
           \/ ClickPlay(i) \/ Autoplay(i) \/ ClickStop(i)
           \/ Opened(i) \/ ServerCloses(i) \/ Closed(i) \/ Retry(i) \/ SyncTime(i)
           \/ SendChunk(i) \/ (\E v \in Volumes : SendSettings(i, v))
           \/ (\E o \in Offers : SendCodec(i, o))
           \/ OnMessage(i)
           \/ ClockStarts(i) \/ Ended(i)
      BY <1>2 DEF Next
  <2>2. CASE ClickPlay(i) \/ Autoplay(i) \/ ClickStop(i) \/ ServerCloses(i) \/ Closed(i)
             \/ Retry(i) \/ ClockStarts(i)
    <3>1. /\ readyState'[j] = "open" => readyState[j] = "open" /\ inbox'[j] = inbox[j]
          /\ served'[j] = served[j] /\ refused'[j] = refused[j]
          /\ stream'[j] = stream[j] /\ chunks'[j] = chunks[j]
        BY <2>2 DEF ClickPlay, Autoplay, Start, Connect, ClickStop, ServerCloses, Closed, Retry,
           ClockStarts, Set, Inv, TypeOK, SocketTypes, socket, sound, history
    <3> QED
        BY <3>1, FormatKept
  <2>3. CASE Opened(i)
    <3>1. j # i => UNCHANGED <<readyState[j], inbox[j], served[j], refused[j], stream[j], chunks[j]>>
        BY <2>3 DEF Opened, Set, Inv, TypeOK, SocketTypes, sound, history
    <3> QED
        BY <3>1, <2>3, FormatOpened, FormatKept
  <2>4. CASE SyncTime(i)
    <3>1. [type |-> "time", clock |-> clock[i]] \in Messages
        BY DEF Messages, TimeMsgs, Inv, TypeOK, TimeTypes
    <3>2. served' = [served EXCEPT ![i] = served[i]]
        BY <2>4 DEF SyncTime, Inv, TypeOK, SocketTypes
    <3> QED
        BY <3>1, <3>2, <2>4, FormatSent DEF SyncTime, Set, IsCodec, IsChunk
  <2>5. CASE SendChunk(i)
    <3>1. served[i] \in Formats
        BY <2>5 DEF Inv, TypeOK, SocketTypes, StreamInv, GainInv, SendChunk, Sends
    <3>2. [type |-> "chunk", format |-> served[i]] \in Messages
        BY <3>1 DEF Messages, ChunkMsgs
    <3>3. served' = [served EXCEPT ![i] = served[i]]
        BY <2>5 DEF SendChunk, Inv, TypeOK, SocketTypes
    <3> QED
        BY <3>2, <3>3, <2>5, FormatSent DEF SendChunk, Sends, Set, IsCodec, IsChunk
  <2>6. CASE \E v \in Volumes : SendSettings(i, v)
    <3>1. PICK v \in Volumes : SendSettings(i, v)
        BY <2>6
    <3>2. [type |-> "settings", volume |-> v] \in Messages
        BY DEF Messages, SettingsMsgs
    <3>3. served' = [served EXCEPT ![i] = served[i]]
        BY <3>1 DEF SendSettings, Inv, TypeOK, SocketTypes
    <3> QED
        BY <3>1, <3>2, <3>3, FormatSent DEF SendSettings, Sends, Set, IsCodec, IsChunk
  <2>7. CASE \E o \in Offers : SendCodec(i, o)
    <3>1. PICK o \in Offers : SendCodec(i, o)
        BY <2>7
    <3>2. [type |-> "codec", offer |-> o] \in Messages
        BY DEF Messages, CodecMsgs
    <3> QED
        BY <3>1, <3>2, FormatSent DEF SendCodec, Sends, Set, IsCodec, IsChunk
  <2>8. CASE OnMessage(i) /\ j = i
      BY <2>8, FormatOther, FormatAfterRefusal, FormatAfterAcceptance, FormatAdded DEF OnMessage
  <2>9. CASE OnMessage(i) /\ j # i
    <3>1. inbox'[j] = inbox[j] /\ readyState'[j] = readyState[j] /\ served'[j] = served[j]
        BY <2>9 DEF OnMessage, OnSettings, CodecUnsupported, FormatRefused, FormatAccepted, OnCodec,
           ChunkAdded, ChunkLost, OnTime, Receives, Set, Inv, TypeOK, SocketTypes
    <3>2. refused'[j] = refused[j]
        BY <2>9 DEF OnMessage, OnSettings, CodecUnsupported, FormatRefused, FormatAccepted, ChunkAdded,
           ChunkLost, OnTime, Set, Inv, TypeOK, HistoryTypes
    <3>3. stream'[j] = stream[j] /\ chunks'[j] = chunks[j]
        BY <2>9 DEF OnMessage, OnSettings, CodecUnsupported, FormatRefused, FormatAccepted, ChunkAdded,
           ChunkLost, OnTime, Set, Inv, TypeOK, SoundTypes, sound
    <3> QED
        BY <3>1, <3>2, <3>3, FormatKept
  <2>10. CASE Ended(i)
    <3>1. j # i => UNCHANGED <<readyState[j], inbox[j], served[j], refused[j], stream[j], chunks[j]>>
        BY <2>10 DEF Ended, Set, Inv, TypeOK, SoundTypes, socket, history
    <3> QED
        BY <3>1, <2>10, FormatEnded, FormatKept
  <2> QED
      BY <2>1, <2>2, <2>3, <2>4, <2>5, <2>6, <2>7, <2>8, <2>9, <2>10
<1> QED
    BY <1>1, <1>2

\* Chunks of any number of formats, codecs and connections are never mixed up:
\* what an AudioStream holds has its format, unless the codec was refused.
THEOREM SameFormatHolds == Spec => []SameFormat
<1> DEFINE FInv == Inv /\ \A j \in Streams : FormatInv(j)
<1>1. Init => FInv
    BY InvInit, FormatInit
<1>2. FInv /\ [Next]_vars => FInv'
    BY InvNext, FormatNext
<1>3. FInv => SameFormat
  <2> SUFFICES ASSUME FInv, NEW i \in Streams, ~refused[i], NEW k \in DOMAIN chunks[i]
               PROVE  chunks[i][k] = stream[i]
      BY DEF SameFormat
  <2>1. DOMAIN chunks[i] = 1 .. Len(chunks[i])
      BY DEF Inv, TypeOK, SoundTypes
  <2> QED
      BY <2>1 DEF FormatInv
<1> QED
    BY <1>1, <1>2, <1>3, PTL DEF Spec
=============================================================================
