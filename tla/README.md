# A formal model of Lakka's build system, boot-time updater and Snapcast web player

Lakka is a Linux distribution that is built from recipes by a set of shell and
Python scripts, and that updates itself from its initramfs.  The thousand
recipes are third-party programs; the core logic that is Lakka's (and
LibreELEC's) own is

* the **multi-threaded build**: a plan generator, a job scheduler with threads
  and queues, and scripts that many jobs run at once on shared directories;
* the **updater**: a script that rewrites the boot partition of a device whose
  power may fail at any moment;
* **snapweb**: the web page of the snapserver add-on, a player that keeps many
  rooms in step over a web socket, and a control page for all of them.

This directory holds TLA+ models of these, TLC configurations that check them on
small instances, and theorems, checked by TLAPS, that hold for every instance.

All paths below are relative to the repository.

## 1. Inventory

### 1.1 How the parts interact

```
 Makefile -> scripts/image -> scripts/build_mt
                                  |
       scripts/pkgjson -> scripts/genbuildplan.py -> plan.json          BuildPlan
                                  |
                         scripts/pkgbuilder.py                    BuildScheduler
                  work queue | threads | complete queue            (TaskGraph)
                                  |
                 scripts/pkgbuild, one process per job
                                  |
               scripts/install -> scripts/build -> scripts/unpack     UnpackLock
                                                        |
                                                  scripts/get         GetArchive
                                                        |
                                                  SOURCES, shared by all builds

 lakka-update.sh or the user -> /storage/.update -> initramfs init    BootUpdate
                                                        |
                                                  /flash (KERNEL, SYSTEM, boot files)

 snapserver (external)
   |  /stream                                   |  /jsonrpc
 snapstream.js: SnapStream          SnapStream  snapcontrol.js        SnapControl
   |                                            |
 FlacDecoder + libflac.js          FlacDecoder  play button -> SnapStream
   |
 AudioStream -> three buffers      AudioStream, Playback
```

`genbuildplan.py` hands its plan to `pkgbuilder.py` in a file; that the plan is
topologically ordered is proved of the one (`BuildPlan_proofs!TopologicalHolds`)
and assumed by the other (`BuildScheduler!PlanAssumption`).  `pkgbuilder.py`
hands jobs to threads through a queue and takes them back through another.
`pkgbuild` processes share the directory of package sources being built
(`PKG_BUILD`), the stamps and the locks directory; builds of different projects
share `SOURCES`.  `init` and the running system share nothing but files.  The two
halves of snapweb meet only in the play button, which makes and stops a
`SnapStream`; each has a web socket of its own.  Chunks go from the socket
through `FlacDecoder` into the `AudioStream`, from which the `onended` handlers
of three buffers take what is heard next.

### 1.2 Components

| component | state | operations | hard behaviour | correct when |
|---|---|---|---|---|
| `scripts/pkgbuilder.py` | jobs to do / active / built / failed, reference counts, two queues, per thread its job and process, stop flags | hand out a job, wait, collect, remove sources, stop; take, spawn, register, report | threads end on failures while jobs are queued; Ctrl-C anywhere; a process not yet visible to `stop()` | every job runs once, after what it wants; the exit status is true; the builder always exits; sources live exactly as long as needed |
| `scripts/genbuildplan.py` | `wantedby` lists, node graph, resolved and unresolved lists | cull, validate, resolve | lists changed while iterated; cycles by package but not by node | plan complete, minimal, ordered; cycles reported exactly |
| `scripts/unpack` with `pkg_lock` | flock and owner file per package, `PKG_BUILD` with or without stamp | lock, unpack dependencies, check stamp, clean, transfer, patch, stamp, unlock | stale owner files, nested locks, failures anywhere, host and target job sharing a directory | lock excludes; nothing half unpacked is used; no unpack is redone under another job |
| `scripts/get`, `get_archive` | file, URL stamp, SHA stamp, flock on the source directory | look, lock, look again, download loop, check, stamp | several builds, kills, two counters | stamps tell the truth; a wanted file stays; wrong files are refused |
| `init` (`check_update`) | `/flash`, `.update` with archive, files, `.tmp`, `.nocheck` | refuse, unpack, check, write three parts, clean up, reboot | power cut between any two steps | the device keeps booting one release; good updates are installed |
| `scripts/build`, `install`, `clean` | build and install stamps, sysroot, image | compare stamp, build, install, clean | stamp computed at the end; clean under a running job | no job skips work it needs; planned, not modelled yet |
| `scripts/get_git` | tarball and one stamp | as `get_archive` without retries | as above | planned |
| `scripts/pkgbuild`, `autoremove`, `build_mt`, `config/multithread` | progress counter, locks directory | run one job, start a build | locks directory emptied at start | in `BuildScheduler` (outcome of a process) and `UnpackLock` (`Rebuild`) as far as they matter |
| snapweb `SnapStream` | socket, reconnect and sync timers, settings, decoder, audio context, three buffers in flight | play, stop, autoplay, hello, codec, settings, chunk, time, reconnect | callbacks of a stopped player; codec, settings and losses in any order; a clock that changes under a request | one loop, one timer, right format and volume, silence after stop, sound after every loss |
| snapweb `FlacDecoder`, libFLAC | chunk, bitreader, frames kept back, timestamp | decode, read, metadata and write callbacks | bytes of one chunk decoded during the next | every chunk has its time; decode returns |
| snapweb `AudioStream` | chunk being played, queue | addChunk, getNextBuffer | hard and soft synchronisation, rounding | every frame at its time, no holes, convergence |
| snapweb `SnapControl` | view of groups and clients, `status_req_id`, slider values | requests, answers, notifications, batches, reconnect | the view changes before the server does; other pages; lost connections | view and server agree once nothing is under way |
| image, add-on, docker, maintenance scripts | files | sequential tool calls | none | not modelled |
| fs-resize, overlays, installer, Kodi start-up, run-time helpers | files | sequential | a reboot between steps (fs-resize) | not modelled |

`PROJECT.json` lists every component with its status and reason, every
hazard of the code at its line with the properties that would catch it going
wrong, and for each definition the source lines it translates.

## 2. Modules

| module | models | instance and proofs |
|---|---|---|
| `TaskGraph` | what a parallel build promises about its jobs (abstract) | |
| `BuildScheduler` | `scripts/pkgbuilder.py` | `MCBuildScheduler`, `BuildScheduler_proofs` |
| `BuildPlan` | `scripts/genbuildplan.py` | `MCBuildPlan`, `BuildPlan_proofs` |
| `UnpackLock` | `config/functions` (`pkg_lock`), `scripts/unpack` | `MCUnpackLock`, `UnpackLock_proofs` |
| `GetArchive` | `scripts/get`, `scripts/get_archive` | `MCGetArchive`, `GetArchive_proofs` |
| `BootUpdate` | `packages/sysutils/busybox/scripts/init` | `MCBootUpdate`, `BootUpdate_proofs` |
| `SnapStream` | `snapstream.js` (`SnapStream`, `TimeProvider`), `play()` and autoplay of `snapcontrol.js` | `MCSnapStream`, `SnapStream_proofs` |
| `FlacDecoder` | `snapstream.js` (`FlacDecoder`), the control flow of libFLAC behind it | in `Playback_proofs` |
| `AudioStream` | `snapstream.js` (`AudioStream`, `PcmChunk`) | |
| `Playback` | `FlacDecoder` and `AudioStream` composed | `MCPlayback`, `Playback_proofs` |
| `SnapControl` | `snapcontrol.js` | `MCSnapControl`, `SnapControl_proofs` |

The JavaScript files are in `packages/addons/service/snapserver/snapweb`.

Operators called `Faulty...` are plausible mistakes in the definition that
follows them.  No action uses them: put in the place of that definition, each
makes TLC report the property it is listed with, which shows that the property
depends on that piece of code.

### 2.1 BuildScheduler

A job is its position in the plan.  `work`, `building`, `built`, `failed`,
`refcount` and `removed` are the dictionaries of `Generator`; `workQ` and
`completeQ` the two `queue.Queue`s; `pc`, `job`, `proc`, `child`, `stopping`
belong to one `BuildProcess` each.  `main` is the position of the main thread:

| code | action |
|---|---|
| `queueWork`, one round of its loop | `SubmitJob` |
| `queueWork` returns True / False | `AwaitActive` / `FinishBuild` |
| `getCompletedJob`, `Generator.completed` | `CollectJob` |
| `autoRemovePackages` | `RemovePackage`, `RemoveDone` |
| `KeyboardInterrupt` in `main` | `Interrupt` |
| `BuildProcess.stop`, its two halves | `StopSignal`, `StopKill` |
| end of the interpreter | `Exit` |
| `BuildProcess.run`, `work.get` | `TakeJob`, `Leave` |
| `BuildProcess.run`, the check of `stopping` | `DropJob`, `BeginJob` |
| `RusagePopen(...)`, `parent.child = ` | `Spawn`, `Register` |
| the `pkgbuild` process | `ProcessEnds` |
| rest of `execute` and `run` | `ReportJob` |

A step is as long as the code that touches shared state once: the two halves of
`stop()` are apart because a thread may register its child in between, and
`TakeJob`, `BeginJob`, `Spawn` and `Register` because `stop()` may look between
any two.  A thread may take a job that lies before its None after it was told to
stop, and one that has passed the check does not look at the flag again before
its job ends.  `unseen`, a history variable, holds the threads that were in that
gap (`InGap`) when `stop()` looked for their process: their jobs outlive the
builder, and `OnlyUnseenSurvive` says that no other does.

`TaskGraph` is the abstract specification: jobs go from "todo" through
"running" to "ok" or "fail", start after all they want have finished, and
succeed only if these did.  The refinement mapping (`JobState`) lets a job run
from the moment its process exists until the process ends, wherever the job
object then is.

### 2.2 BuildPlan

`deps` and `triggers` are the input, chosen from sets of dependency maps and
trigger lists.  `DropReference` is one `delReference` of the culling loop; the
order is left open, because the Python code removes elements from the list it
iterates over and so skips some in a pass.  `ResolveTrigger`, `VisitEdge` and
`ReturnFromNode` are the recursion of `dep_resolve` with its call stack made
explicit.

### 2.3 UnpackLock

One record per `scripts/unpack` process, nested for `PKG_DEPENDS_UNPACK`.
`ReadOwner`, `GetFlock` and `Timeout` are the loop of `pkg_lock`; `Claim` and
`Unlock` write and remove the owner file (`pkg_lock_status`).  `dir` tells
apart what the code can tell apart in `PKG_BUILD`: nothing, sources without a
stamp, a stamp of older sources, a stamp of the current ones.  `Fail` stops a
job anywhere; `Unwind` ends its processes from the inside out, which closes
their lock files, while owner files stay.  `Rebuild` is
`start_multithread_build` once more: it empties the locks directory, and
packages may have been edited in between.

### 2.4 GetArchive

A file is represented by its checksum.  Each test of
`_get_file_already_downloaded`, the removal of the stamps, each download, and
each stamp is a step of its own, so that a build can be killed in between.

### 2.5 BootUpdate

`flash`, `archive`, `files`, `tmp`, `force` survive a power cut; `at`, `step`,
`after` and `source`, which `init` knows, do not.  Every write of a part is two
steps (`StartWrite` leaves it partial), every removal of `do_cleanup` one step
in the order of the code.  Files changed by `mv` and `rm` are assumed to reach
the disk in the order of the calls.

A release has a name or not (`Arch`, the `LIBREELEC_ARCH` of its
`/etc/os-release`) and lets itself be installed over certain names (`CanUpdate`,
its `canupdate.sh`).  `CheckIsCompatible` looks at these alone, as the code does;
whether a release runs on the device is another matter (`Compatible`).  The two
are tied by `NameAssumption`: names and `canupdate.sh` tell the truth.  Without a
name the code has to trust the update, and may trust a foreign one.

Six history variables record what has happened; no guard reads them.  `tried`
and `wanted` are about the update in `.update`.  The others record the four ways
in which a device can be lost, and `NeverBricks` says that there is no fifth:

* `torn`: the power failed between two writes of `/flash`, or where
  `do_cleanup` revives a mix of two releases;
* `risked`: the user switched a check off;
* `trusted`: a release for other hardware was accepted for want of a name (294);
* `cramped`: a KERNEL that had passed the size check was cut short, because the
  old SYSTEM still took its room (923, 947).

Each of them happens in the run `boot`, and with any of them left out of
`NeverBricks` TLC finds a device that is lost without the others.

### 2.6 SnapStream

JavaScript runs one callback at a time, so that each action is one callback, or
something that the browser or the server does between two.  All variables but
two are functions of the player: a stopped `SnapStream` is dropped by the page
but may still be called.

| code | action |
|---|---|
| `play()`, `show()` with `#autoplay` | `ClickPlay`, `Autoplay`, `ClickStop` |
| `connect()` and its `setTimeout` | `Connect` (in `Start`), `Retry` |
| `onopen`, `onclose` | `Opened`, `Closed` |
| `syncTime` | `SyncTime` |
| `onMessage`: settings, chunk, time | `OnSettings`; `ChunkAdded`, `ChunkLost`; `OnTime` |
| `onMessage`: codec | `CodecUnsupported`, `FormatRefused`, `FormatAccepted` |
| `onended` of a buffer | `Ended` |
| the server, the network, a resumed context | `SendChunk`, `SendCodec`, `SendSettings`, `ServerCloses`, `ClockStarts` |

A message is its type and the one thing that matters of it: the volume, the
codec and format, the format a chunk was encoded in, the clock that timed a
request.  `audioBuffers` is the length of that array, `armed` the number of
sources whose `onended` is still set: the code keeps the two equal by taking the
handlers away, and `InFlight` says that it succeeds.

### 2.7 FlacDecoder, AudioStream and Playback

`FlacDecoder` counts bytes in halves of a FLAC frame, enough to tell a frame
that is whole in the bitreader from one that is cut.  `Decode` is the call,
`CallSingle` and `LeaveLoop` its loop, `ReadCallback`, `EndOfMetadata` and
`WriteCallback` the callbacks, `FrameSync` and `ReadFrame` what libFLAC does
between them.  `received` remembers when each frame should be heard.

`AudioStream` counts time in sample frames of the server's clock and represents
a frame by the time it should be heard.  `Wait`, `HardSync` and `SoftSync` are
the three ways through `getNextBuffer`; `Filled` says for every place of the
buffer which frame the loop over `left[pos]` leaves there.

`Playback` joins the two with `decode()` as one uninterrupted call
(buffers are filled, and the clock is set, only while `at = "idle"`).

### 2.8 SnapControl

`server` is what the server has, `view` what the page shows, both with one value
per client (volume, mute, name, latency), one per group (mute, stream), and the
group of each client.  A group exists as long as a client is in it; `Groups` are
the ids groups can get, and an id that has a setting has been taken once and does
not come back, as a server makes up a new one for every client that leaves a
group (`Regrouped`).  `IdsLeft` bounds the model to what the ids allow.

| code | action |
|---|---|
| `connect()`, `onopen`, `onclose` | `Connect`, `Opened`, `Closed`, `Lost` |
| `setVolume`, `setClientName`, `setClientLatency` | `SetVolume` |
| `setStream`, `muteGroup` | `SetGroup` |
| `setGroup`, `setClients` | `MoveClient` |
| `deleteClient` | `DeleteClient` |
| `groupVolumeEnter`, `setGroupVolume` | `GroupVolumeEnter`, `SetGroupVolume` |
| `onMessage`, answer | `AdoptStatus`, `IgnoreAnswer` |
| `onMessage`, notification or batch; `action` | `Notify`; `Did` |
| the server and other pages | `ServerHandles`, `OtherSets...`, `OtherRegroups` |

An exception ends the handler it is thrown in: `action()` throws for a client
or group the view does not have, `send()` while the socket is connecting, and
the handler of an answer for one without a result.  `suspect` is a history
variable: the fields in which the code has lost track of the server, each
for a reason that the comment of `AgreesWhenQuiet` lists; no guard reads it.

## 3. Runs

| run | question | bounds |
|---|---|---|
| `sched_continue` | continue on errors with automatic removal | 5 jobs, 3 threads, chains of unpacked packages, a virtual package, host and target job of one package |
| `sched_drain` | halt on errors, fail after active jobs | 3 jobs that can start at once, 2 threads |
| `plan` | culling, order, cycles | 3 packages, 2 targets, all 512 subsets of 9 dependencies, 3 trigger lists |
| `unpack` | lock, stamps, failures | 3 jobs that all need one package, a package that lists itself, 1 failure, 2 builds |
| `get_archive` | shared source directory | 2 builds, one with CHANGE_HASH, 2 versions of the file, 1 kill, the 10 rounds and 2 checksums of the code |
| `get_wrong_hash` | expected violation (finding 1) | 1 build |
| `boot` | updates and power cuts | 9 releases (installed; good; damaged; foreign with and without a name; of the other architecture of the device; with a KERNEL that fits only beside a smaller SYSTEM; too large; from before releases had names), 2 updates, 2 power cuts |
| `boot_revived` | expected violation (finding 2) | as `boot` |
| `snapstream` | player through losses, codecs, volumes, play and stop | 1 player, 3 formats (one refused), 2 codecs, 2 volumes, 1 loss, 1 change by the server, 2 messages on the way, a window of 2 time samples |
| `playback` | from FLAC chunk to loudspeaker | 5 FLAC frames in chunks of 1 to 3, a gap or none, a bitreader of 2 1/2 frames, blocks of 4 and buffers of 13 sample frames, 2 frames per ms, soft synchronisation up to 2 ms, one change of the clock by -3, 2 or 9 frames |
| `playback_silence` | expected violation (finding 3) | as `playback` |
| `snapcontrol` | view and server | 2 clients (one offline), 4 group ids, 2 acts of the user, 1 of another page, 1 loss |

Why these bounds are enough: three threads are the least with which one thread
can end, one be told to stop and one still hold a job; three jobs ready at once
with two threads are the least with which a slot freed too early would queue a
job that no live thread takes, after which the builder would wait for ever
(`Termination`).  Five jobs hold a chain, a diamond, and two jobs of
one package.  Three packages and two targets hold a cycle among packages that is
none among nodes, one that is both, one nobody needs, and a dangling name.
Three jobs with two nested locks meet every pair of lock operations, a stale
owner file and a third party; a second build meets what the first left.  Two
kills or cuts in a row are covered where the first changes what the second
meets (`boot`: cut in the update, cut in the recovery); one suffices where
everything but the files is lost (`get_archive`).

Players share nothing but the page's variable and the bounds, and one of them
meets a loss while connecting (never counted), while open, while closing, and
before or after a codec; a stopped one meets its late callbacks.  In `playback`
the bitreader holds two and a half frames, so that chunks of one to three leave
a whole frame, half a frame or nothing in it; the jumps of the clock put the
next frame within soft synchronisation, beyond it on both sides, and behind
whole chunks; buffers are longer than chunks of three blocks and shorter than
four; 13 frames are such that one and two corrections divide them once with and
once without remainder.  Two acts of the user, one of another page and one loss
are the least with which a request, the answer to an older one, a notification
and a new connection meet; two clients and four group ids, three of them
new, let a group split, merge and vanish.  The theorems remove these bounds for the
properties of section 4.

Deadlock is checked for the builder, the plan, unpacking and downloads, whose
modules have a stuttering action for the states in which all work is over, and
only for these.  It is not checked for `boot`, where a device that no longer
boots (`at = "broken"`) does stop, nor for the runs of snapweb, where the bounds
on losses, messages, frames and acts end the behaviour.

What the runs show, property by property (the comment above each definition
says it in full):

* `ImplementsTaskGraph`: no job is lost or run twice, or started before what it
  wants has finished.
* `SourcesKept`, `RemovalExact`: a source directory is never removed while an
  unfinished job needs it, and at the end all that may go are gone.
* `ExitStatus`, `DrainedBeforeExit`, `OnlyUnseenSurvive`, `Termination`: the
  ways out of the builder, that a thread that ends leaves no job behind, and
  which jobs outlive an interrupted builder.
* `KeepsRequired`, `LeftoversWanted`, `Topological`, `PlanComplete`,
  `CircularExact`, `Termination`: the plan.
* `MutualExclusion`, `OwnerIsHolder`, `UnpackedForUse`, `StaysUnpacked`,
  `JobsEnd`: unpacking.
* `StampTruthful`, `KeptWhileWanted`, `GetEnds`: downloading.
* `NeverBricks`, `Matched`, `GoodUpdateInstalled`, `ComesUp`: the updater.
* `InFlight`, `OneSyncTimer`, `StoppedStaysQuiet`: no callback of an old
  connection or an old context doubles the sound, the timer or the connection.
* `SameFormat`, `GainFollows`, `PlaysAgain`: what a player plays, and that it
  plays again after every loss, with a clock difference measured on its present
  clock.
* `StampExact`, `OnTime`, `SyncConverges`, `NoHole`, `DecodeReturns`: the way
  of a frame from the server to its place in a buffer.  `OnTime` speaks of a
  stream up to its first gap: what comes after one is played
  right behind what came before it, until the stream is synchronised again.
* `AgreesWhenQuiet`, `FreshConnection`, `EventuallyAgrees`: the control
  page (with `TypeOK`, its types).  The first and the last except the fields in
  `suspect`, and these are just the ones that the rest of a batch that was cut
  short, or a volume that is no number, was about: for these the promise is
  `FreshConnection`, that a reconnection repairs them.

### 3.1 Fairness

* `BuildScheduler`: weak fairness of the main thread, of each thread and of each
  `pkgbuild` process.  The operating system schedules the threads, `queue.Queue`
  wakes a waiting one, and a build step ends (a hanging compiler would hang the
  real builder as well).  `Interrupt` is never forced.
* `BuildPlan`: one sequential process that runs.
* `UnpackLock`, `GetArchive`: weak fairness of each job or build.  A process that
  waits in `flock` can be overtaken by others, but each of these takes a lock
  a bounded number of times, so weak fairness is enough.  Downloads
  end because wget has a timeout and a number of tries (`get_archive:26`).  The
  curl that takes its place where there is no wget limits only the time to connect
  (`get_archive:30`): a transfer that stalls for ever is not covered, and
  `GetEnds` and `JobsEnd` assume that there is none.  Failures,
  kills and new builds are never forced.
* `BootUpdate`: weak fairness of `init`; nothing forces the user, a reboot or a
  power cut, and cuts are finitely many (`MaxCuts`).
* `SnapStream`: weak fairness of timers (`Retry`, `SyncTime`), of messages that
  have arrived, of a closing socket's `onclose` and of a resumed context (`ClockStarts`),
  all of which the browser guarantees, the last one after a click on the page
  only: with `#autoplay` a browser may keep the context suspended until there is
  one, and `PlaysAgain` assumes that it lets it start; strong fairness of `Opened`, since an attempt to
  connect may fail and be made again: of infinitely many one succeeds, or
  nothing could be said of playing.  Losses of open connections are finitely
  many (`MaxDrops`).
* `Playback`: weak fairness of the decoder alone: `decode()` is not interrupted.
* `SnapControl`: weak fairness of timers, of the end of an attempt to connect or
  of a closing socket, of the server and of messages that have arrived.

### 3.2 Findings

1. `AcceptedHash` (`get_wrong_hash`): `NBCHKS` can go from 1 to -1 within a
   round, `-eq 0` misses it, and a file with a wrong checksum gets its stamps.
2. `FailedWasTried` (`boot_revived`): `.tmp` outlives an `.img` update that a
   power cut interrupted, and the next update is deleted untried.
3. `HardSyncExact` (`playback_silence`): when a hard synchronisation starts with
   silence, the silence is left out of the frames to read twice, and the stream
   is late by as much afterwards.

More observations are part of the statement of a property, at the exception that
it makes, or of a hazard in `PROJECT.json`:

* packages that depend on each other in a cycle survive the culling although
  nothing needs them (`LeftoversWanted`);
* the size check of an update adds up old and new files, but the KERNEL is
  written while the old SYSTEM still takes its room, and nobody looks at the
  result of `dd`: an update that passed every check can leave a KERNEL that is
  cut short, and a device that does not boot (`cramped`, which `NeverBricks`
  excepts; what is written after the KERNEL always fits);
* a foreign update without a name, or over a system without one, is written
  without a test (`trusted`, which `NeverBricks` excepts);
* a job that is being started when the user interrupts the builder can outlive
  it (`unseen`, which `OnlyUnseenSurvive` excepts);
* `do_cleanup` removes `.tmp` before KERNEL and SYSTEM (687, 688), so that a cut
  in between can revive files of two releases (`MixRevived`, which `Matched` and
  `NeverBricks` except);
* `stop()` while the connection is down leaves the timeout of `onclose`
  pending: the player that the page has forgotten connects and plays
  (`StoppedStaysQuiet` is about players stopped while connected);
* a codec whose format is refused with an alert has already replaced the
  decoder and the sample format: what follows is decoded in one format and
  played in the other (`SameFormat` excepts it);
* the two changes of the control page that an older message can overwrite, and
  the slider at 100 whose ratio is 0 / 0 (`AgreesWhenQuiet` excepts them).

## 4. Proofs

TLAPS proves the following for every value of the constants that the named
assumptions allow.  In each module the argument is the same: an inductive
invariant `Inv` (`SafeInv` in `BootUpdate_proofs`, several that build on each other
in `SnapControl_proofs`), lemmas that it holds at the beginning and is kept (one lemma
or step per action), and each property from it.

| module | theorems | why the property is not inductive, and what `Inv` adds |
|---|---|---|
| `BuildScheduler_proofs` | `TypeCorrect`, `OnePlace`, `ExitStatusHolds`, `DrainedHolds`, `OnlyUnseenSurviveHolds`, `SourcesKeptHolds`, `RemovalExactHolds`, `Refinement` | places are disjoint only because each of the two queues and the threads holds active jobs without repetition (`WorkQueueInv`, `CompleteQueueInv`, `ThreadInv`); `WantsBuilt`: nothing is handed out before what it wants; `ProcessInv`: a process that succeeds had no failed want; `FailureInv`: collected failures are exactly the reported ones; `StopInv`: until a shutdown no job is dropped. `FinalInv` relates the reason of the end to what was collected. `StoppedInv`: a thread that `stop()` has dealt with has its flag raised, and unless it is in `unseen` it runs no process and is not about to start one. For the removal, `CountInv`: `refcount` of a package is the number of references (pairs of a job and a chain of unpacks, finitely many) that no collected job has given back, so a count of zero leaves nobody; `RemovedInv` and `LeftInv`: what is removed has that count, and what has it is removed. The refinement has one lemma per kind of step: `Spawn` is `Start`, `ProcessEnds` and `StopKill` are `Succeed` or `Fail`, the rest stutters |
| `BuildPlan_proofs` | `TypeCorrect`, `KeepsRequiredHolds`, `LeftoversWantedHolds`, `TopologicalHolds`, `PlanCompleteHolds`, `CircularExactHolds` | `CullInv`: references come from packages that want the package, those from required packages are never dropped; `StackInv`: the call stack is a path of dependencies from a trigger, and each call's visited edges are resolved; `PlanInv`: what is resolved is required, and former triggers are resolved |
| `UnpackLock_proofs` | `TypeCorrect`, `MutualExclusionHolds`, `UnpackedForUseHolds`, `StaysUnpackedHolds`, `OwnerIsHolderHolds` | `HoldInv`: a script inside the lock has the flock itself or runs under one of its own job that has; `OwnerInv`: an owner file naming a running job is backed by the flock; `DirInv`: what a script past its checks relies on is in place; `NestInv`: each script of a job was started by the one below it for a package that one lists, what a script has seen done leads into no circle of `PKG_DEPENDS_UNPACK` (`Grounded`), so none comes back to a package it is still in and removes its owner file early |
| `GetArchive_proofs` | `TypeCorrect`, `StampTruthfulHolds`, `KeptWhileWantedHolds` | `LockInv`: whoever is past the lock holds it; `NoStamps`: there are none while a build downloads; `LoopInv`: the counters in the loop, and a build that leaves it well has the whole file |
| `SnapStream_proofs` | `TypeCorrect`, `InFlightHolds`, `StoppedStaysQuietHolds`, `OneSyncTimerHolds`, `GainFollowsHolds`, `SameFormatHolds` | `TimerInv`: a retry is pending only after a close, and who no longer reconnects has no interval; `StopInv`: a player stopped in time has no way back; `SoundInv`; `GainInv`: settings precede the codec in every greeting. `SameFormatHolds` needs a second invariant, `FormatInv`, over the whole inbox: every chunk on its way has the format of the last codec before it, or what is decoded now. For any number of players, and for pages with and without `window.AudioContext` |
| `Playback_proofs` | `TypeCorrect`, `NeverEndsHolds`, `StampExactHolds` (of `FlacDecoder`); `ImplementsDecoder`, `NeverEndsInPlayback`, `StampExactInPlayback`, `OnTimeHolds`, `SyncConvergesHolds`, `NoHoleHolds`, `BufferFilledExactly`, `OneCorrectionTooMany`, `SoftSyncApproaches` | of the decoder `CountInv`: the halves in chunk and bitreader are those of the frames not decoded; `ChunkInv`: until the first read only frames of older chunks come out; `TimeInv`: the decoded blocks and the cached ones are contiguous; for a bitreader of any size and chunks of any number of frames. Playing implements the decoder's specification, so its invariants carry over; the last three are arithmetic of the corrections for every rate, buffer length and lateness, from one lemma on rounded-up quotients (`CorrectionCount`). The three properties of the stream need to know what the next frame is: see below |
| `SnapControl_proofs` | `TypeCorrect`, `FreshConnectionHolds`, `AgreesWhenQuietHolds` | both properties look at a moment at which nothing is under way, and so need to know what the messages under way will do: see below |
| `BootUpdate_proofs` | `TypeCorrect`, `MatchedHolds`, `NeverBricksHolds`, `GoodUpdateInstalledHolds` | `TmpWhileAtWork`, `MixMarked`: mixed files lie beside `.tmp`; `OneSource`, `SourceThere`: what is written is of one release; `FlashOfOne`: outside the writes `/flash` is of one release or has a part that is cut short (and so does not boot); `SafeInv` adds, unless something is in the history, that what is being written is intact, made for this device and fits in the end (which follows from its name, since what checks it has booted), that its KERNEL is whole before the SYSTEM is written, and both before the boot files. `UpdateInv` follows a good update through the boot, as long as the power stays on: `Waiting` (still in `.update`), `Written`, `Removed`, `OnItsWay` |

**The audio stream.**  `OnTime`, `SyncConverges` and `NoHole` compare the frame that
a buffer gets with the one its place is for, and so need the queue: that its
chunks, each started at its timestamp, lead without a gap to what the decoder
comes to next (`QueueInv`).  This does not hold where `addChunk()` has dropped a
late chunk from behind `this.chunk` (`Torn`): then `this.chunk` was over by more
than `SyncFrames` and all that the clock can still be set back, so that the next
buffer leaves it without playing from it.  Hence a parameter of the invariant,
`back`, how far one change sets the clock back, and a hypothesis of `OnTimeHolds`:
`SyncFrames + back * MaxJumps <= MaxAge`.  `MaxAge` is 5 s in the code and
`SyncMs` 5 ms, so it says that the clock is not set back by seconds while a chunk is
played; TLC shows that it is needed (with `Jumps = {-20, 30}`, `MaxJumps = 2` and
`MaxAge = 10` in `MCPlayback` a chunk behind `this.chunk` is dropped, the clock goes
back, and what follows is heard in its place).  The instance of `MCPlayback`
satisfies it.  `SyncConvergesHolds` and `NoHoleHolds` also bound how long
a chunk is (`longest`, in blocks of the decoder, `LengthInv`), so that a dropped one
is over (`NearInv`): chunks of a server are 20 ms, `MaxAge` is 5 s.  `NoHoleHolds`
assumes besides that a buffer (80 ms in the code) is longer than `SyncMs`
corrections need.  The loops of `readFrames()` are followed by induction over the
place in the buffer, from the library's least elements (`LeastNumber`).

**The control page.**  `FreshInv`: while the user has sent nothing, the status is
asked for, or is on its way, or has been adopted, and the messages behind it lead
through states of a server to the one it has now (`Path`).  For a page whose user
has acted, no such path exists, since messages and the view disagree; there the
argument is made field by field (a client's setting, a group's, or the members).
`LatestInv`: the last message that writes a field tells what the server has, if no
request about the field is still to be handled or answered behind it.
`SettledInv`: once a status has been adopted, a field that is not suspect and that
no message under way writes is in the view as the server will have it, when it has
handled the requests; if it is not to handle any about the field, as the server has
it now (`Due`).  Both need `SoundInv`: an id that the view or a message knows of is
taken, so that no group of the view can be another one at the server, and a setting
of a group that has vanished does no harm.  An earlier version of the model let a new group
take the id of one that had vanished, which servers do not do; there the argument
fails, and the model was corrected.

Assumptions, each named in the module that declares the constants:
`ThreadsAssumption` (at least one thread, `pkgbuilder.py:370-380`);
`PlanAssumption` (topological order, proved for `BuildPlan`);
`PackageAssumption`, `OptionAssumption`, `InputAssumption`, `UnpackAssumption`,
`GetAssumption`, `BootAssumption`, `StreamAssumption`, `FlacAssumption`,
`AudioAssumption`, `ControlAssumption` (types of the constants).
`NameAssumption` says in addition that the names of releases and their
`canupdate.sh` tell the truth; `NeverBricksHolds` needs it, and nothing about
sizes.

Only model-checked, on the instances of section 3:

* liveness (`Termination`, `JobsEnd`, `GetEnds`, `ComesUp`, `PlaysAgain`,
  `DecodeReturns`, `EventuallyAgrees`), which TLAPS cannot derive from fairness
  here, since it does not reason about ENABLED;
* the three expected violations.

No module declares a RECURSIVE operator.  Where a proof needs an induction
(the frames of a buffer, the chunks of a queue, the packages of a circle), it
takes the least counterexample, since the induction rules themselves take an
operator as a parameter, which the installed provers do not instantiate.

## 5. Plan

Order: the scheduler first, because every build depends on it and no test
covers it; then what it assumes (the plan), what its jobs share (lock, sources),
the updater, the one part that can make a device unusable, and snapweb, the one
concurrent program among the add-ons.  These are done.  Left, in this order:

1. `PackageBuild`: `scripts/build`, `install` and `clean` with their stamps under
   `UnpackLock`'s lock and the image update lock.  Properties: a job that ends
   well has its build stamp; a stamp is never newer than what it speaks for
   (the deep hash is calculated at the end); clean never removes the stamp of
   a job that relies on it.
2. `get_git` as a second downloader over the same source directory, and both
   downloaders as implementations of one abstract source store.
3. A composition of `UnpackLock` and `GetArchive`: the job that unpacks waits for
   a file another build fetches.
4. `fs-resize`: the first boot with its reboots and the marker file.

## 6. Not modelled

* Data: contents of packages, logs, wording, progress output, statistics.
* Edits of a package, or another build of the same directory, while a build runs.
  The scripts do not guard against either; `PROJECT.json` lists them as
  hazards without a property.
* `--ignore-invalid` and `--warn-invalid` of the plan generator, which the
  multi-threaded build never passes.
* FAT32-boot and block-device kernels, and the L4T copy of `init`, whose
  `check_update` differs from the modelled one in three strings.
* Loss of unsynchronised file-system metadata at a power cut.
* Image creation, add-on packaging, docker, maintenance tools, the installer, and
  run-time helpers: sequential scripts over external tools, without shared state.
* libFLAC itself.  `libflac.js` is that library compiled to JavaScript, 34,569
  generated lines of a third-party codec and 38 times the size of
  `snapstream.js`; only the control flow that the callbacks see is modelled, in
  `FlacDecoder`.  Damaged streams, which libFLAC reports through its error
  callback, are left out: the web socket delivers what the server sends.
* In snapweb: rendering, the layout of messages, dialogs, cookies and stored
  settings; pages without any audio context; and that the stream decoders of old
  codecs are never deleted, a leak of memory without effect on the rest.
