# A verification development for u1-hw-camera

`u1-hw-camera` replaces the camera stack of a 3D printer. A capture daemon reads
pictures from a V4L2 camera, encodes them in hardware and writes each encoded
picture to the readers of a few Unix sockets. Small servers read those sockets
and give the pictures to browsers (MJPEG, snapshots, WebRTC, RTSP) and to a
detector. An `LD_PRELOAD` library, the *imposter*, gives the vendor's own
program a camera that is in fact a capture daemon's socket. A supervisor and
init scripts start and stop all of it.

This directory models the parts of that system that carry its logic in TLA+,
model-checks them with TLC, and proves the central ones with TLAPS. Paths below
are relative to the repository; `v4l2-mpp` stands for `src/v4l2-mpp`.

## 1. Inventory

| component | state | operations | talks to |
|---|---|---|---|
| **frame sockets** `common/capture-common/sock_ctx.h`, `frame_backlog.h` | client table (fd, `last_time`, frame counts), `num_clients`, `need_keyframe`, listening fd and path | `sock_open`, `sock_accept_clients`, `sock_write_cb` (idle test, drop rule, blocking write with timeout), `sock_close` | main loop (calls), readers (kernel buffers) |
| **capture main loops** `apps/capture-v4l2-{raw,jpeg}-mpp/main.c`, `callback_chain.h` | `running`, sockets, codecs, pacing times, `encoded_any` | set-up, one frame cycle, idle wait, clean-up, `--output` | everything in the daemon |
| **camera buffers** `common/capture-common/v4l2_capture.h` | mapped buffers, which one is out of the driver's queue, fd_set and retry count | open, start, wait, read, release, stop, close | the V4L2 driver |
| **codec wrappers** `mpp_enc_ctx.h`, `mpp_dec_ctx.h` | hardware contexts, frames and packets owned | encode, decode, release | main loop |
| **MJPEG relay** `apps/stream-http/camera-stream.py` | byte buffer, silence clock, seen-a-frame flag, pacer | `frames`, `_reopen`, `extract_jpeg_frames`, `classify_frame`, `sendall` | capture socket, browser |
| **WebRTC server** `apps/stream-webrtc/main.cpp` | viewers, tracks, pongs, splash times | create, relay, splash, ping, clean-up; library callbacks on other threads | h264 socket, browsers |
| **h264 splitting** `common/stream-common` | read buffer and its size | read, cut the bytes into access units, keep the rest | WebRTC and RTSP servers |
| **RTSP server** `apps/stream-rtsp/main.cpp` | the unit being sent and how far, sources, connected clients | open or close the feed on demand, store a unit, give it to the framer | h264 socket, live555 |
| **imposter** `v4l2-imposter/main.c`, `frame_geometry.h` | buffers (mapped, queued), token pipe, connection, streaming flag | the V4L2 ioctls, `mmap`, `poll` | vendor program, capture socket |
| **supervisor** `fake-service/main.c` | child pid, signal flag | fork, restart with a delay, pass a signal on | init scripts, daemons |
| **service scripts** `plugin/files/etc/init.d/s65camera-{hw,usb}` | pid files | start, stop, wait, kill | supervisor |
| **camera controls** `apps/control-v4l2` | the state file and its temporary | get, set, reset, save, restore | `v4l2-ctl`, HTTP server |
| **detection** `apps/detect-http`, `apps/detect-rknn-yolo11` | latest detection, temporary image | fetch, detect, answer | capture socket |
| **wait-for-frame** | none | poll until a frame is served | capture socket |
| players, splash tables, CI, packaging | none | none | none |

What makes the modelled ones correct:

* *Frame sockets.* A reader sees whole pictures or is disconnected. `num_clients`
  is exact. A reader is called idle only when it is. A reader that keeps up is
  never cut, one that never reads goes. The first h264 picture can be decoded.
* *Main loop and buffers.* Every buffer has one owner; the driver never fills one
  that is being written. A signal ends the daemon wherever it lands. A silent
  camera ends it too. Socket paths are there while it serves, gone when it goes,
  and a path left by a kill does not stop the next start. Whoever opens the
  `--output` file finds a whole picture.
* *MJPEG relay.* Pictures are relayed once, in order, and as they were captured. A
  viewer is never left in front of a frozen picture, and a viewer who left gives
  the thread back.
* *Imposter.* A picture is read only into memory that is mapped. The tokens the
  video program polls for are those of the queued buffers. A picture is handed
  over whole or not at all, and a dequeue comes back.
* *WebRTC server.* No tile freezes and none is told a lie. A viewer that answers
  stays, one that vanished gives its place back. Live pictures come back after
  the capture daemon did. The goodbye is the last thing shown.
* *h264 splitting and RTSP server.* Wherever the reads end, no byte of a picture is
  left out, and with reads that end where pictures do every unit is one picture.
  The framer gets each unit from its first byte to its last. The feed is open
  while somebody watches and closed when nobody does.
* *Camera controls.* A request takes effect and is kept as a whole or not at all.
  What was acknowledged survives a kill and is in force after the next start.
  An automatic mode does not keep the values set together with its end from being taken.
* *Supervisor and service scripts.* A stop never misses a living service and a
  start never puts a second one beside it. A stop ends, and frees the camera.

The hard behaviours: the daemon is one thread that blocks in the writes to its
readers, so each of them delays all others and every time it keeps is old by
the time it is used; a connection can be closed at any byte; signals arrive
between any two statements; a daemon can be killed and started again at any
point; chunks read from a socket end anywhere in a picture. `PROJECT.json`
lists every such place with its line, and the properties that watch it.

## 2. What is modelled

### FrameSocket (and FrameFeed): one frame socket and its readers

`FrameSocket.tla` is `sock_ctx.h` as the main loops drive it. `pc` says where
the daemon is:

    pace -> frame -> accept -> visit slot 0 .. MaxClients-1 -> pace
                                  visit -> send <-> nap (usleep) -> visit

| action | code |
|---|---|
| `FrameReady` | the wait and the dequeue at the top of the main loop |
| `AcceptClient`, `NobodyWatches`, `EncodeFails` | `sock_accept_clients`, and the tests of `num_clients` and of the packet in main |
| `OfferFrame`, `EndCallback` | the call of `sock_write_cb`; for h264 it is called again for the access unit delimiter |
| `SkipFree`, `CloseIdle`, `DropFrame`, `BeginWrite` | one turn of the loop over the slots |
| `SendSome`, `SendLast`, `SendBlocked`, `SendTimesOut`, `SendFails` | one `send` in `sock_write_client_fd` and what follows from its result |
| `Connect`, `Take`, `Hangup` | the readers |
| `Tick` | a millisecond passes |

`kind` selects which of the daemon's sockets this is, and with it `one_frame`,
`allow_drops` and the key frame request. The h264 key-frame handshake is part
of the model: a reader accepted sets `need_keyframe`, the encoder honours it
and adds key frames of its own, and main clears it after the encode.

The times are ages: `age[s]` is now minus `last_time` of slot s, saturated at the
idle timeout, which is the only value it is compared with. The variables
`torn`, `sent`, `joined` and `reason` are history and guard nothing but the
readers' hang-up.

`FrameFeed.tla` is what the socket promises: a reader is in or out, pictures
are delivered whole, and a cut one is the last thing on a connection.
`FrameSocket` implements it under the mapping `Phase`, `Frames`, `Cut`.

### CaptureLoop: the daemon around its sockets

`CaptureLoop.tla` follows `main` of both capture programs: opening device,
sockets and encoders in order, starting the stream, the wait with its retries,
dequeue, accept, the sockets in order, requeue, pacing, idle wait, and the one
clean-up all error paths share. The order of the sockets is a constant. A
socket is reduced to "somebody watches it or not"; `FrameSocket` says why a
write to it ends. The driver's two queues are sets, since the order in which
buffers come back changes nothing that is stated here.

With `output` the picture is also written to the `--output` path: `EncodeFails`,
`OpenTmp`, `FillTmp` and `RenameTmp` are `write_output_rename_cb`, `tmp` and `picture` the
two files. They outlive the daemon.

`Signal` can come at any point, `Kill` (SIGKILL) too, and `Restart` runs the
program again in whatever the dead one left. `Faults` names the calls that may
fail; a behaviour has all of them failing at will, all but the full disk, or none,
chosen at the start. `LoopInv` is the conjunction of what holds in every state:
ownership of the buffers, the paths, and the parts that make them inductive.

### MjpegRelay: a viewer of `/stream.mjpg`

`MjpegRelay.tla` is `CaptureStream` with `extract_jpeg_frames`,
`splash_for_silence`, `MjpegPacer` and the blocking `sendall`. A picture is three
pieces: *mark*, the first byte of the SOI marker; *tail*, the last byte of the EOI marker; *head*, what is between.
A read ends anywhere between pieces, so also inside either marker. `extract_jpeg_frames` is a loop of steps on those pieces:
`Receive` appends the chunk to the buffer and begins it, `CutFrame` is one round (from the first
SOI to the next EOI behind it, whatever is in between), and `SplitEnds` is its end: what has no EOI yet
is kept, of what has no SOI only the last byte is, which may be a mark whose head is still to come, and a picture,
not any chunk, ends the silence. The loop is
not a recursive operator, so that the invariant can be proved through its rounds. Of the capture
daemon the module uses what `FrameFeed` promises.

`Stream`, the buffer followed by what is on the wire, is what the invariant speaks of: a cut
takes a prefix off it, a chunk moves it from one part to the other, and only a reconnect leaves a
head, or a lone mark, in it without a tail.

### Imposter (and CaptureQueue): a camera that is not there

`Imposter.tla` is `v4l2-imposter/main.c`. Every entry point holds `state_lock`
from its first test to its return, so a call of the video program is one step
(`Open`, `Close`, `Reqbufs`, `Mmap`, `Munmap`, `Qbuf`, `Streamon`, `Streamoff`).
The dequeue holds the lock too but waits for the capture daemon in the middle;
it is several steps, and the daemon is an actor of its own:

| action | code |
|---|---|
| `DqbufStaleToken` | `handle_dqbuf` drops a token whose slot is gone or not queued |
| `DqbufTakesToken` | `handle_dqbuf` takes the token of a queued buffer and goes into `fetch_frame` |
| `DqbufCannotConnect`, `DqbufConnects` | the end of the blocking `connect`, which needs room in the daemon's listen queue |
| `FetchRead` | one `read_once` inside `read_fully` |
| `FetchSucceeds`, `FetchCutOff`, `FetchTimesOut` | the ends of `fetch_frame`, and what `handle_dqbuf` does with the token |
| `DaemonAccepts`, `DaemonSends`, `DaemonHangsUp`, `DaemonGoes`, `DaemonComes` | the capture daemon |
| `ReaderConnects` | the other readers of its socket, who fill the same listen queue |

`pipe` is the sequence of tokens and `queued` the flags, those of slots past
`buffer_count` included, which outlive a close. `backlog` counts the connections the daemon has
not accepted, with those that were given up meanwhile. A picture is counted in pieces;
`FixedLength` chooses between the raw formats, whose length is known, and
compressed ones. `CaptureQueue.tla` is the V4L2 queue the video program thinks it has:
buffers are queued and come back one at a time with a whole picture, a stop
gives all of them back. `Imposter` implements it under `queued <- Live`.

### WebRtcViewers: the WebRTC server

`WebRtcViewers.tla` is the main loop of `stream-webrtc/main.cpp` in its order,
`poll -> accept -> read -> ping -> cleanup -> feed -> splash`. Each part that
walks the clients does so under `g_clients_mutex` and is a step. The callbacks of
the WebRTC library (`TrackOpens`, `ChannelOpens`, `Pong`, `ConnectionEnds`)
run on other threads and come between any two. A viewer is a record with the fields
of `Client`: how far its connection is, `keepAlive`, `closing`, whether it has seen
a picture, and the ages of its time stamps. A session may be recycled after a time of its own, which in
the run is longer than the timeout, as it is in use. A tick is one second, the unit of
the ping interval, the splash cadence, the flush time and the timeout of `poll`.
The feed is `h264_stream.h` with the capture daemon at its other end: closed,
just opened, running, or hung up.

### H264Stream and RtspServer: from the h264 socket to an RTSP viewer

`H264Stream.tla` is `h264_stream.h` with `h264_frames.h`: `Read` is the read in
`h264_stream_process` with the growth and the emptying of the buffer before it,
`StoreUnit` one round of the loop of `h264_process_frames` and `SplitEnds` its end. The
bytes of a connection are numbered. The data are the NAL units: `Kinds` and `At` say of
what kind each is and where it begins, and a read ends at any byte. `FindNal`,
`IsNewFrame`, `IsAud` and `CutOf` decide what the code decides on the bytes it
has, which is not always what the NAL unit is: a slice whose `first_mb` bit is not
there yet passes for a new picture, a delimiter with anything behind it for nothing.

`RtspServer.tla` is `stream-rtsp/main.cpp` around it: one thread that alternates
between an event of live555 (`ReadSome`, `FeedEnds`, `Play`, `Leave`, `FramerAsks`), opening or closing
the feed, and `rtsp_flush`. live555 is external; the model has of it what the code relies on.
`reuseFirstSource` is true, so all viewers share one source. A descriptor that is closed stays
in live555's `select`, as the code leaves it there.

### Controls (and ControlStore): what the camera was told, over restarts

`Controls.tla` is `control-v4l2.py` started with `--state-file`.

| action | code |
|---|---|
| `Start`, `RestoreNothing`, `RestoreBegins`, `ApplySingle`, `SinglesDone`, `Listen` | `restore_state`, then `serve_socket` |
| `AskSet`, `RequestFails`, `SetBegins`, `ApplyGroup` (twice) | `handle_set_method`: validate, automatic modes, the others |
| `OpenTmp`, `FillTmp`, `FillFails`, `Replace` | `save_state`: the temporary file and `os.replace` |
| `AskReset`, `ResetBegins`, `ApplySingle`, `Unlink` | `handle_reset_method` |
| `SendAnswer` | the answer, and the end of the connection |
| `Replug`, `Drift`, `Kill` | the camera and the world |

`InRange` has the values that pass for each control of a camera, which is all `validate_values` looks
at. `Makes` says which of these the camera takes, and what it makes of them: it may round a value to its step, make 1 of any value of a
switch that is not 0, or refuse an entry its menu lacks. So a valid value can be refused (a set is then an
error, a start or a reset passes it over) or end up as another. An automatic mode that is on
holds the controls that depend on it. A call of `v4l2-ctl` that fails, or is given up after three seconds, may have
set any of the values it was to set. `ControlStore.tla` is the promise: kept
values change by whole requests, and a crash loses none that was acknowledged. `Controls` implements it
under `stored <- file.values`.

### Supervisor: fake-service and the init script

`Supervisor.tla` follows `fake-service/main.c` from statement to statement
wherever a signal between two of them makes a difference: the test of
`received_signal`, the fork, the assignment of `child_pid`, the read of the
daemon's output, `waitpid`, the reset of `child_pid`, the retry delay. `Term` is the
handler with the system call it interrupts. The daemon is `born` until it has
given up the inherited handlers, then `runs` (ends for a TERM) or is `deaf`; an
`orphan` has lost its fake-service. The script is `stop` and `start` of one
service of `s65camera-hw` with its pid file. Of the number in the file the model
keeps whose it is: fake-service's, a stranger's, or a namesake's, another program
started from the same executable, which `start-stop-daemon -x` cannot tell apart.

## 3. The runs

| run | asks | states, time |
|---|---|---|
| `socket_safety` | three readers, two slots, snapshot and MJPEG socket, the CPU lost anywhere, a failing encoder: the table, whole pictures, idleness, one picture per snapshot, the refinement of `FrameFeed` | 2.6 M, about 2 min |
| `socket_readers` | a prompt reader beside a stuck one, h264 and raw socket, under fairness: who is never cut, who goes, that the callback ends, the first picture | 72 k, 10 s |
| `loop_faults` | the daemon's life with every call failing, all but the disk, or none, with and without `--output`, signals, a SIGKILL, restarts | 431 k, 32 s |
| `loop_retry` | finding: is a retry one? (violated) | |
| `relay` | a viewer, who may leave or stop reading, while the capture stalls, cuts pictures, goes and comes back: what it is offered, in which order and how late, and that nothing is lost on the way | 307 k, 50 s |
| `relay_stitched` | finding: is every relayed picture a real one? (violated) | |
| `imposter` | any sequence of calls on three buffers, against a daemon that leaves its listen queue full, stalls, hangs up or ends anywhere: the tokens, the end of every dequeue, and the refinement of `CaptureQueue` | 268 k, 20 s |
| `webrtc` | two viewers taking turns on one place, keeping alive or not, answering or vanishing, beside a capture daemon that comes and goes: the inductive invariant, and what each viewer is shown | 408 k, 80 s |
| `rtsp` | three pictures in reads that end anywhere, two viewers, a capture daemon that comes, goes and drops its reader: the splitting, the framer, the feed | 547 k, 90 s |
| `controls` | sets, resets and starts with a SIGKILL anywhere, a failing call, another camera: the invariant, the values in force, the answers, the refinement of `ControlStore` | 340 k, 31 s |
| `supervisor` | stops and starts at any point in the life of the service, with process numbers reused | 499, 1 s |
| `supervisor_stop` | finding: does a stop free the camera? (violated) | |

`SocketInv`, `LoopInv`, `RelayInv`, `ImposterInv`, `ViewersInv`, `RtspInv`, `ControlsInv` and `SupervisorInv` are
inductive invariants: the conjunctions of the type invariant with the safety properties and with what these
need to be preserved by every step. Their parts are named and commented in the modules.

**Bounds, and why they suffice.**

* `socket_safety`: three readers and two slots make a slot be reused, a reader be
  refused, and two readers wait in front of each other. `Capacity = 2` with
  `FrameSizes = {2, 3}` has a picture that fits the kernel's buffer exactly and
  one that does not, which are the two cases of the drop rule. Timeouts of 1
  and 2 ticks let either end before the other.
* `socket_readers`: pictures of one and of two buffers, `WriteTimeout = 3`, so
  that a prompt reader (one unit per tick) always empties what a write needs:
  a picture of `n` units into `Capacity` blocks for at most `n - Capacity` ticks.
  This is the assumption behind `PromptReaderNeverCut`: a reader that reads at
  least that fast. It does not say what happens to a slower one.
* `CaptureLoop`: `MaxTries` is the code's 5, the sockets are the raw daemon's
  three in its order, two buffers, so that one can be held and another filled; `MaxKills = 1`
  since a second kill meets the same leftovers as the first.
* `MjpegRelay`: `MaxFrame = 3` pictures (one lost, one glued to the next, one
  clean), `WireRoom = 4` pieces (a picture and the first byte of the
  next, so that a read can end with a mark), thresholds that keep the order of the code's
  (the read timeout below the connecting splash or equal to it, below the
  interrupted one, below giving up), a viewer whose buffer holds one picture. Of these orders the
  module assumes `ConnectingAfter <= InterruptedAfter <= GiveUp` (2, 5 and 30 s), on which `NeverFrozen` rests.
* `Imposter`: three buffers make an order among tokens matter; `PipeRoom = 4` is a
  pipe that can fill up once buffers are requested anew under a running stream, and
  holds a token per buffer, as the real one (65536) does. `FrameLen = 3`: one
  read, several, or a cut after any piece; one piece of the next picture may
  follow. `Backlog = 2` (8 in the code) is full with one other reader waiting, or without this one.
* `WebRtcViewers`: viewers meet only in the count of places, in "does anybody
  watch" and in the splash clock, so two, competing for one place, meet in each of
  these ways. The thresholds keep the order of the code's; the module assumes what `ViewersInv` needs of it, that a
  ping has more than one interval to be answered in and that the connecting message comes first of all (2 s). The two times that bound
  the connecting phase and the pong timeout, 30 s each, are one constant. `SessionTimeout = 3` is longer than
  `Timeout = 2`, so that sessions are recycled that neither bound has ended; the theorems hold for either order.
* `RtspServer`: three pictures, the first of two slices, so that a unit can hold two pictures and a third
  still follow. Parameter sets before a slice are left to the proofs: the splitter treats them like a
  further slice, but for the misreading of its `first_mb` bit.
  NAL units are 6 or 7 bytes long, the shortest that the splitter tells apart.
  The reads are one byte, a delimiter, a slice, a picture with its delimiter, and 16, which ends in the
  middle of another. `MinFrame = 16` and `MaxFrame = 30` let the buffer grow, shrink and overflow. `Pieces`
  is less than a unit and more than any. Two viewers are the first and the last of several.
* `Controls`: an automatic mode with the control it drives, a free control and a
  read-only one, and two cameras: the first rounds the driven control to its step and makes 1 of any automatic mode but 0,
  the second lacks a control, a value, and an entry of the automatic mode's menu that is in its range. One failure and one swap: each job has at most a handful of calls, and `upset` excuses what
  happens after the first.
* `Supervisor`: `StopTries = 2` stands for 10. Nothing depends on it but the number of
  rounds, and the theorems hold for any.
* Saturated ages and counters (`age`, `since`, `waited`, `joined`, `silent`, `elapsed`,
  `quiet`) stop at the largest threshold they are compared with, and lose nothing; `start` of a viewer is compared with
  `SessionTimeout` too, and stops at the longer of the two (`Longest`).

**Fairness.** The daemons are single threads that are always runnable and every
call they block in has a timeout, so `WF(Daemon)` (`WF(Relay)`); the clock runs,
`WF(Tick)`; a prompt reader reads, `WF(Take(p))`. In `MjpegRelay` the capture
daemon finishes or cuts a picture it began, since its own write timeout
(100 ms) is below a tick (0.5 s). Nothing is assumed of other readers, of the
camera, or of signals. The time bounds use `Loaded = FALSE` (time passes only
where the daemon sleeps) where they need it; safety is checked, and proved,
with `Loaded` either way.

In `Imposter` a begun dequeue runs on, `SF(Fetch)`: its `poll` has a timeout, and its `connect`, which has none,
is woken when there is room in the listen queue or the listener goes. The fairness is strong because other readers may take that room
first, but not every time. The daemon is owed nothing; `FetchEnds` has as its premise
that the daemon does not, from some time on, live and leave its listen queue full. In `WebRtcViewers` the thread runs on, `WF(Loop)`;
the second passes although signalling connections may keep `poll` from ever
waiting, `SF(Tick)`; the library ends a connection it was told to close, a healthy
browser answers, and key pictures are sent whenever the feed can take them again
and again. In `RtspServer` the thread runs on, `WF(Server)`, and in `Controls` so does a job once it began, `WF(Work)`:
each call of `v4l2-ctl` has a timeout. In `Supervisor` fake-service and a command of the script run on, and a
daemon that was told to end, or was just forked, does so or fails. A `deaf` daemon
need not end.

**Idealisations.** `SIOCOUTQ` and `SO_SNDBUF` count frame units (the kernel's own
count includes its book-keeping) and are always answered. `VIDIOC_DQBUF` does
not say `EAGAIN` right after `select` reported a frame. The splash images exist.
The relay is not starved of the CPU. The `stop` order of the V4L2 stream and the
codecs inside the clean-up is one step.

* WebRTC: a signalling connection sends its line at once, as `stream-http` does;
  the code reads it with a blocking `read`, so one that stays silent stops the
  thread. Remote candidates are not modelled. `AnsweringViewerStays` asks for one
  answered ping, because `last_pong` starts with the request: a data channel
  that takes nearly 30 s to open is timed out with its first ping unanswered.
* RTSP: NAL units have the four-byte start code the encoder writes. A
  descriptor opened after the feed ended has the number of the old one, or another: both are followed.
  The run of `RtspServer` does not check for deadlock, because the program may abort (below).
* Controls: a request is one whole line, sent at once. A SIGKILL loses nothing
  that was written; `save_state` does not `fsync`, and a power cut is not modelled.
* Supervisor: a round of the wait (1 s) is longer than what the others do without
  being kept waiting (`Settled`). A signal for a number that was reaped reaches
  nobody. What a namesake does with a signal meant for another is not followed.
  That a daemon whose output is no longer read dies of SIGPIPE is part of
  `ChildEnds`.

**What the runs show.** Every property of a passing run is violated by a
plausible mutation of the code (operators marked "Mutant", listed in
`PROJECT.json`): a lost reset of `last_time`, a write that gives up without
closing, one drop rule for all sizes, the key frame flag cleared too early, an
unchecked `sock_open`, and so on.

### Findings

1. **The retries of the capture wait cannot see a frame** (`loop_retry`).
   `select` takes the device out of the fd_set when it times out and the set is
   filled only once, before the loop (`v4l2_capture.h:240-247`). After the first
   two seconds the daemon waits eight more for nothing and exits with status 1,
   though the log speaks of a retry (line 257).
2. **The relay glues pictures across a reconnect** (`relay_stitched`). `frames()`
   keeps its buffer, so the half picture of a lost connection is followed by
   the head of the next one's first picture and both are relayed as one JPEG.
   The docstring promises a real frame each time. `StitchedOnlyAtReconnect`
   shows, in the passing run, that it happens nowhere else and once per reconnect.
3. **A stop can leave the camera held** (`supervisor_stop`). The KILL reaches
   fake-service, which passes nothing on, so a daemon that ignored the TERM lives on as
   an orphan; and a TERM that arrives between the test of `received_signal` and
   the assignment of `child_pid` reaches no daemon at all, with the same end. The
   script's comment says that the camera matters more than the service.
   `PoliteStopFreesCamera` shows these are the only ways.

### Observations

These came up while modelling; the models behave like the code, and the properties
are stated so that they hold beside them.

* **A stuck viewer is not declared stale.** The pacer is asked before a send; a viewer
  that stops in the middle of one keeps the thread in `sendall`, and a
  connection to the capture daemon, for ever (`camera-stream.py:373`). `RelayInv` and `NeverFrozen` speak of viewers that read.
* **A daemon that lives but accepts nobody stops the video program.** `connect` in `fetch_frame` is blocking, has no timeout
  and runs under `state_lock` (`v4l2-imposter/main.c:313`). Once the daemon's listen queue is full, the call
  does not return before the daemon accepts or ends, and every other call of the program waits for the lock. `socket_timeout` bounds the
  reads only. `FetchEnds` excepts this, and fails without the exception.
* **A compressed picture that was cut off is handed over.** For a format without a fixed length
  `frame_read_is_whole` accepts any picture that is not empty (`v4l2-imposter/main.c:405`). `ImposterIsACaptureQueue` therefore has the
  condition `FixedLength`; the installed service uses NV12, for which it holds.
* **A unit can be stored twice, and two pictures in one.** When the last unit in the
  buffer has no end yet, `h264_process_frames` returns null and the units it has just stored stay in the
  buffer: the next read stores them again, until a read ends with a delimiter. A unit
  that begins at a slice is cut at the second new picture behind it, so a read that goes past a
  delimiter can make one unit of two pictures; and one that ends on the NAL header of a
  further slice, before its `first_mb` bit, takes it for a new picture and can cut the picture in two (`Misleads`). `WholePictures` is about the reads
  that do neither, `NothingSkipped` about all, and `DrainedAtDelimiter` says when the doubles end.
* **The RTSP server ends with the capture daemon.** When the feed ends, its descriptor is
  closed and not taken out of live555's set. The next `select` fails with EBADF and live555 aborts,
  unless the daemon is back by then and the new connection got the same number. `FeedFollowsStreams` excepts it.
* **`--max-clients` of the RTSP server limits nothing**, since there is never more than one source.
* **One kept name the present camera does not know, or one value out of its range, keeps all others from being restored**, and so does a
  `v4l2-ctl` that fails at the start, until the next start. A kept value in range that the camera refuses,
  an entry its menu lacks, is passed over and the others are restored. In a set such a value is an error of
  `v4l2-ctl`, after `validate_values` let it pass. A set that fails half way may leave the automatic modes applied;
  they are not kept. `InForce` is stated accordingly.
* **`control-v4l2`'s README names a default state file** (line 72); the program has
  none, and the USB init script starts it without `--state-file`, so nothing is kept there.
* **A full disk publishes part of a picture** at the `--output` path, because what `fwrite` and `fclose`
  return is not looked at before the rename. `OutputIsWhole` excepts it.

## 4. The proofs

All proofs are of `Spec`, without fairness.

**`FrameSocketProofs.tla`** proves about `FrameSocket`, for every set of readers,
every number of slots and every timeout, size and capacity (`SocketAssumption`):

| theorem | property |
|---|---|
| `SocketInvariant` | `SocketInv` is an invariant |
| `TypeCorrect`, `CountIsExact`, `ReadersGetWholeFrames`, `SnapshotIsOneFrame` | its parts `TypeOK`, `TableConsistent`, `OnlyWholeFrames`, `OneFrameEach` |
| `IdleReadersOnly` | the action property `IdleMeansIdle` |
| `FirstFrameDecodes` | `FirstFrameIsKey`, if the encoder returns a packet |
| `PromptReadersStay` | `PromptReaderNeverCut`, if `~Loaded` and `PromptIsFastEnough` |
| `SocketImplementsFeed` | the refinement of `FrameFeed` |

None of the safety properties is inductive alone. *Why the strengthening is what
it is:*

* `OnlyWholeFrames` speaks of readers in a slot; to know that a new one in the
  slot is not torn, `OnePlace` keeps a connection in one place only (backlog,
  slot, or closed with a reason) and says a connection that never held a slot
  was sent nothing.
* `TableConsistent` needs `OnePlace` for "no connection in two slots", and
  `OpenSlotFacts` and `CloseSlotFacts` on the cardinality of a set of slots that gains or
  loses one.
* `IdleMeansIdle` needs `AgesHonest`: the age of a slot never exceeds the time its
  reader has held it, and the set of slots found stale at the start of the
  callback still means "full idle timeout" when the loop gets there.
* `FirstFrameIsKey` needs `KeyOwed`: a reader without a frame is owed a key frame by
  the flag, then by the picture being written, until the loop passes its slot.
  `EncoderMayFail` must be false: `main.c` clears `need_keyframe` even when no packet
  came back.
* `PromptReaderNeverCut` needs `PromptDrains`, a budget: what is left of the picture, what its prompt
  reader has not taken, and the ticks waited so far never exceed what the drop rule let the writer
  begin with, `Backlogged(size) + size + 1`. A nap in a full buffer costs a tick, and the reader pays for it with
  the unit it takes. The assumption `PromptIsFastEnough` is that this budget is used up within the write timeout for
  every size of picture, and it is tight: with `WriteTimeout = 2` TLC finds a prompt reader cut. When the
  daemon can lose the CPU (`Loaded`) the timeout may pass while nobody reads, and the property is false.
* The refinement maps every step to a step or a stutter, one lemma per action
  that changes the mapping.

**`ImposterProofs.tla`** proves about `Imposter`, for any number of buffers, any
pipe with room for a token of each, and any length of picture (`ImposterAssumption`):
`ImposterInvariant`, and from it `FillsMappedMemory` (`QueuedIsMapped`), `TokensTellTheTruth`
(`TokensMatchQueue`) and, if `FixedLength`, the refinement `ImposterIsACaptureQueue`, which says among
other things that no picture handed over is a part of one. The invariant adds two things
to the properties: `RoomForToken` (the token a dequeue took can be put back, which is
why a failed fetch never loses a buffer) and `ClosedIsOff`. The part of
`TokensMatchQueue` that says each token is there once is guarded by `mixed`: after a
`REQBUFS` on a running stream there may be stale and double tokens, and only
the weaker first conjunct is inductive. The lemmas on `Append` and `Tail` carry the sets of
tokens through the steps.

**`MjpegRelayProofs.tla`** proves about `MjpegRelay`, for any number of pictures, any chunks, thresholds in the order of
`RelayAssumption`, and any sizes of picture and of the viewer's buffer: `RelayInvariant` (`RelayInv`, of which
`InOrder` and `StitchedOnlyAtReconnect` are parts), `ViewerIsTold` (`NeverFrozen`) and `NothingIsLost` (`NoFrameLost`). *Why the strengthening is what it is:*

* `InOrder` is about what is being yielded. `Numbered` extends it to what is still in `Stream`, whose pieces are in
  the order they were captured in (`AsCaptured`): a picture just cut is older than all that is left, and
  newer than all that was cut before it.
* `StitchedOnlyAtReconnect` needs to know where a picture without a tail can be. `Orphans` says: only in front of the first
  picture of a connection that is not cut out yet (`PatchToCome`), with no tail before it. So the
  first EOI behind an SOI is that SOI's own, but for this one picture. `Phases` supplies that outside the
  splitting the buffer holds no tail, and that a half-sent picture ends the stream.
* `NeverFrozen` needs `Patience`, a bound on `quiet` at each place of the loop. The silence is looked at once per read and back-off,
  so the bound at a place is the one at the place before plus the time that may pass there; a read with something to read takes none.
  Below `GiveUp` the silence of the code is at least that of the viewer, above it the splash is shown without being counted.
* `NoFrameLost` is an action property: a picture whose end has come in, be it on the wire, in the buffer or in the list
  being yielded (`Held`), is in one of them after every step, or the pacer was asked about it. It has two exceptions, which
  are the code's: what comes in between a read timeout and the close it leads to, and the end of the response. From the
  invariant it needs that in the stream every head follows its mark and every tail its head, so that a
  buffer without an SOI holds nothing but marks and only its last byte can belong to a picture still to come, and that nothing is in the list when a read begins. `CutLosesNothing` follows
  the tail that is cut off into the item it ends. `InOrder` says that no picture is offered twice, and this that none is
  left out; both hold across reconnects. A picture whose tail never came is not `Held`.

The splitting loop is proved round by round; each cut is described by facts on `SubSeq` and concatenation
(`SequenceTheorems`), since an induction over the buffer is out of the prover's reach.

**`WebRtcViewersProofs.tla`** proves all safety properties of the `webrtc` run about `WebRtcViewers`, for any finite set of viewers, any number
of places, and any times that respect `ViewersAssumption`:

| theorem | property |
|---|---|
| `ViewersInvariant` | `ViewersInv`, with the limit on the list |
| `NoTileFreezes` | `NeverFrozen` |
| `GoodbyeStays` | `GoodbyeIsLast` |
| `NobodyOverstays` | the part `LetGo` of the invariant, and the end of a goodbye |
| `AnsweringViewersStay` | `AnsweringViewerStays` |

The invariant speaks of one client at a time (`WellKept`), so that each step is a lemma about one record.
*Why the strengthening is what it is:* a second passes in the poll only, so what a client is owed depends on how far the loop is in its
round. `Awake` says that the pings of the last second may still be to come, `Due` that the splashes are; `OlderKeeps` shows that a second
makes both true, `PingKeeps` and `SplashKeeps` that the ping and the splash pay what is owed. With them `ToldInTime` bounds the age of a
picture by that of the silence its splash is chosen by, `SentAway` says that a goodbye is shown by the ping after
the track opens, and nothing after it, and `Answering` that a healthy browser's last answer is at most a
second old, or its ping is on its way. `LetGo` is the safety behind `DeadViewerLeaves`: what the clock makes `Overdue`
the next pings send away, and no callback makes a viewer overdue in between, because `last_pong` is never
before `start_time` (`pong <= start`). A session is over at `SessionTimeout`, shorter or longer than the timeout; `start` is kept
as far as the longer one. That the library then ends the connection is fairness, and stays with TLC. `Unreached` keeps the callbacks of a connection that is
not open yet from mattering to any of these. The limit needs the cardinality of the list when one joins (`OneJoins`).

**`SupervisorProofs.tla`** proves `SupervisorInvariant`, `LivingSupervisorIsNamed` and
`PoliteStopWorks` about `Supervisor`, for any number of rounds (`SupervisorAssumption`: at least one,
without which the KILL could overtake a daemon that is ending). The invariant ties the
daemon's state to the place of fake-service (`ChildMatchesMonitor`), says what a TERM that
missed nobody leaves behind until the script has seen the end (`StopReachesChild`), that the
script has seen it before it removes the file (`StopEndsMonitor`), and that an orphan which
would have ended for a TERM never got one (`orphan = "runs" => missed`).

**`CaptureLoopProofs.tla`** proves `LoopInvariant` (`Spec => []LoopInv`) and `PublishedIsWhole`
(`OutputIsWhole`) about `CaptureLoop`, for any list of sockets, any buffers, faults and number of kills
(`LoopAssumption`). *Why the strengthening is what it is:* `PathsMatchListeners` says that while frames are served every path is
there; to know it when the serving begins, `SetUpInOrder` says which sockets are open at each `turn`. A
socket may be bound and not listen, when `listen` fails behind `bind`: its path exists and only the clean-up removes it. That an
exit leaves no path needs `PathsAreNamed` (a path that exists is one this daemon will remove, unless one was killed).
`OneOwner` needs `DriverAtRest`, or the buffers queued by the start could be owned already.
`WholeBeforeRename` is `OutputIsWhole` one step earlier.

**`ControlsProofs.tla`** proves about `Controls`, for any controls, cameras, requests and number of
faults (`ControlsAssumption`): `ControlsInvariant`, and `KeepsWhatItAnswers`, the refinement of
`ControlStore`. The invariant needs `JobMatchesPlace`, because the store's phase is read off `job` and
`answer`, and that what is to be renamed is the old values with those of the request over them.

On top of it `AlwaysSettled` is a second invariant, about the camera, from which `WhatWasAskedIsInForce` (`InForce`) and
`ErrorsHaveReasons` (`NoNeedlessError`) follow. It says, at each point of a job, that what the job has dealt
with is in the camera (`InForceSoFar`): the modes first, because a value that depends on one can be
refused until it is off, then the others; and that neither group disturbs the other. "In the camera" is what
the camera makes of the value (`Made`); a start and a reset pass over what it does not take (`PassedOver`), and a set ends
with an error for it. The only thing asked of a camera is that it takes the defaults it reports.

**`RtspServerProofs.tla`** proves all safety properties of the `rtsp` run about `RtspServer`, for any
stream of NAL units in which a delimiter stands between two pictures, any buffer sizes, any sizes of read, any number of viewers and
any appetite of the framer (`StreamAssumption`, `RtspAssumption`):

| theorem | property |
|---|---|
| `RtspInvariant` | `RtspInv` |
| `NothingIsSkipped` | the action property `NothingSkipped` |
| `UnitsArePictures` | the action property `WholePictures` |
| `DelimiterDrains` | `DrainedAtDelimiter` |
| `UnitsArriveWhole` | `FramerSeesWholeUnits` |

*Why the strengthening is what it is:* the two action properties speak of the unit the loop finds, which is where
`FindNal` and `CutOf` point in the bytes of this moment. `NeededIsKept` says where the loop can
be: on a NAL unit not behind the first byte that is still to be stored, with that byte in the buffer, or
so near its end that it may be an unread start code. `InStep` adds, for reads that do not mislead, that this byte
begins a picture and that no complete delimiter stands behind it, so that the next cut is at the end of that
picture. The searches are minima over NAL units. `SmallestExists`
gets them from the library's theorem on well-founded relations, in place of an induction over the
stream.

**Only model-checked:** the liveness properties of all modules, which are out of this
prover's reach. Every invariant, action property and refinement that a passing run checks is a theorem, under the
conditions named above.

## 5. Plan

Built, in this order because everything else lives off the frame sockets:
`FrameFeed`, `FrameSocket`, `FrameSocketProofs`, `CaptureLoop`, `MjpegRelay`, `CaptureQueue`, `Imposter`,
`ImposterProofs`, `WebRtcViewers`, `Supervisor`, `SupervisorProofs`, `ControlStore`, `Controls`, `ControlsProofs`,
`H264Stream`, `RtspServer`, `CaptureLoopProofs`, `RtspServerProofs`, `WebRtcViewersProofs`, `MjpegRelayProofs`.

Next:

1. The safety behind the other liveness properties, as `NobodyOverstays` is for `DeadViewerLeaves`: a bound on the
   ticks a callback, a dequeue and a controls job can take.
2. The packets and frames the codec wrappers own, beside the buffer of `CaptureLoop`.
3. The detector's temporary image, which its handler threads share.
4. `Supervisor` with the pipe that a signal closes under the daemon's output.

Composition: `CaptureLoop` with several `FrameSocket`s only adds that a write to
one socket delays the others, which `Loaded` already allows. `MjpegRelay`, `Imposter` and
`WebRtcViewers` (and `RtspServer`, of bytes) stand on what `FrameFeed` promises of a socket instead of on
`FrameSocket`, which the refinement theorem justifies. `Supervisor`'s daemon is
`CaptureLoop`: that it ends for a signal is `StopsWhenAsked`, and a daemon that was
killed is its `Kill`.

## 6. Not modelled, and why

* Pixel data, codecs, the network stacks of WebRTC and live555, the neural network:
  libraries; they appear as the outcomes their callers see.
* Option parsing, logging, HTML pages, splash tables, CI and packaging: no state.
* The HTTP routes other than `/stream.mjpg`: one request, one read, one answer.
* The shutdown of the RTSP server and its SDP description; the shutdown of the controls' socket.
* The detector and `wait-for-frame`: plain I/O but for a temporary image that the
  detector's handler threads share.
* The order in which the init scripts start services, and the second script
  (`s65camera-usb`), which repeats the first's procedure.

## 7. Running

    tlc -config FrameSocketSafety.cfg MCFrameSocket.tla
    tlc -config FrameSocketReaders.cfg MCFrameSocket.tla
    tlc -config CaptureLoopFaults.cfg MCCaptureLoop.tla
    tlc -config MjpegRelay.cfg MjpegRelay.tla
    tlc -config Imposter.cfg Imposter.tla
    tlc -config WebRtcViewers.cfg WebRtcViewers.tla
    tlc -config RtspServer.cfg MCRtspServer.tla
    tlc -config Controls.cfg MCControls.tla
    tlc -config Supervisor.cfg Supervisor.tla
    tlapm FrameSocketProofs.tla
    tlapm ImposterProofs.tla
    tlapm SupervisorProofs.tla
    tlapm CaptureLoopProofs.tla
    tlapm ControlsProofs.tla
    tlapm RtspServerProofs.tla
    tlapm WebRtcViewersProofs.tla
    tlapm MjpegRelayProofs.tla

The three finding runs (`CaptureLoopRetry.cfg`, `MjpegRelayStitched.cfg`,
`SupervisorStop.cfg`) end with a counterexample.
