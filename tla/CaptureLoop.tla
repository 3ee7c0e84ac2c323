------------------------------ MODULE CaptureLoop ------------------------------
(***************************************************************************)
(* The life of a capture daemon around its sockets: setting up, waiting    *)
(* for the camera, lending a buffer out of the driver's queue while it is  *)
(* encoded and written, giving it back, and going down -- because it was   *)
(* asked to, because the camera went silent, or because it was killed.     *)
(* capture-v4l2-{raw,jpeg}-mpp/main.c and v4l2_capture.h.  What happens    *)
(* inside one socket is FrameSocket's subject: here a socket has somebody  *)
(* watching it or not.                                                     *)
(***************************************************************************)
EXTENDS Integers, Sequences, FiniteSets

CONSTANTS
  Order,      \* the sockets the daemon was given, in the order main opens them
  Buffers,    \* the driver's buffers (V4L2_BUFFERS)
  MaxTries,   \* selects in one v4l2_capture_wait_for_frame
  IdleSleep,  \* idle_ms > 0
  Faults,     \* the calls that may fail, if any do
  MaxKills,   \* bound: how often the daemon is killed outright
  NoBuffer

Calls == {"device", "encoder", "socket", "listen", "start", "select", "dequeue", "requeue",
          "decode", "encode", "file", "disk"}

ASSUME LoopAssumption ==
  /\ Order \in Seq({"jpeg", "mjpeg", "h264", "raw"})
  /\ \A i, j \in 1 .. Len(Order) : Order[i] = Order[j] => i = j
  /\ IsFiniteSet(Buffers) /\ NoBuffer \notin Buffers
  /\ MaxTries \in Nat \ {0} /\ MaxKills \in Nat
  /\ IdleSleep \in BOOLEAN
  /\ Faults \subseteq Calls

Sockets == {Order[i] : i \in 1 .. Len(Order)}

VARIABLES
  pc,        \* where the daemon is
  running,   \* the flag the signal handler clears
  status,    \* the exit status, or -1
  turn,      \* the place in Order of the next socket to open or to write
  named,     \* the sockets whose ctx->path is set
  bound,     \* the sockets whose path exists in the file system
  listening, \* the sockets with listen_fd >= 0
  watched,   \* the sockets with num_clients > 0
  encoded,   \* encoded_any
  empty,     \* the buffers in the driver's incoming queue
  filled,    \* the buffers in its outgoing queue, each with a frame
  held,      \* the buffer between DQBUF and QBUF, or NoBuffer
  lost,      \* buffers whose QBUF failed
  tries,     \* retry, in v4l2_capture_wait_for_frame
  armed,     \* the device is still in the fd_set given to select
  tmp,       \* the --output file's temporary: "none", "part" or "whole"
  picture,   \* what is at the --output path, in the same words
  output,    \* a --output file was asked for
  alive,     \* the camera delivers
  faults,    \* the calls that may fail: Faults, with or without a full disk, or none
  kills

process == <<pc, running, status, turn>>
sockets == <<named, bound, listening, watched, encoded>>
driver  == <<empty, filled, held, lost>>
waiting == <<tries, armed>>
files   == <<tmp, picture>>
world   == <<output, alive, faults, kills>>
vars == <<process, sockets, driver, waiting, files, world>>

Positions == {"open", "sockets", "loop", "select", "read", "accept",
              "output", "fill", "rename", "write", "release", "pace", "idle", "close", "exit", "killed"}
Down == pc \in {"exit", "killed"}

TypeOK ==
  /\ pc \in Positions /\ running \in BOOLEAN /\ status \in {-1, 0, 1}
  /\ turn \in 1 .. Len(Order) + 1
  /\ named \subseteq Sockets /\ bound \subseteq Sockets /\ listening \subseteq Sockets /\ watched \subseteq listening
  /\ encoded \in BOOLEAN
  /\ empty \subseteq Buffers /\ filled \subseteq Buffers
  /\ held \in Buffers \cup {NoBuffer} /\ lost \subseteq Buffers
  /\ tries \in 0 .. MaxTries /\ armed \in BOOLEAN
  /\ tmp \in {"none", "part", "whole"} /\ picture \in {"none", "part", "whole"}
  /\ output \in BOOLEAN /\ alive \in BOOLEAN
  /\ faults \in {{}, Faults \ {"disk"}, Faults} /\ kills \in 0 .. MaxKills

Init ==
  /\ pc = "open" /\ running = TRUE /\ status = -1 /\ turn = 1
  /\ named = {} /\ bound = {} /\ listening = {} /\ watched = {} /\ encoded = FALSE
  /\ empty = {} /\ filled = {} /\ held = NoBuffer /\ lost = {}
  /\ tries = 0 /\ armed = FALSE /\ alive = TRUE /\ kills = 0
  /\ tmp = "none" /\ picture = "none"
  /\ output \in BOOLEAN /\ faults \in {{}, Faults \ {"disk"}, Faults}

MayFail(call) == call \in faults

(* goto error or error_stop, or the end of the loop: the clean-up is next *)
GoDown(code) == pc' = "close" /\ status' = code

--------------------------------------------------------------------------------
(* Setting up *)

OpenDevice ==
  /\ pc = "open"
  /\ \/ pc' = "sockets" /\ UNCHANGED status
     \/ MayFail("device") /\ pc' = "exit" /\ status' = 1
  /\ UNCHANGED <<running, turn, sockets, driver, waiting, files, world>>

(* bind makes the path, and refuses one that exists; a listen that fails    *)
(* after it leaves the path behind and no listening socket.                *)
BindSocket(s, paths) ==
  \/ /\ s \notin paths
     /\ bound' = paths \cup {s} /\ listening' = listening \cup {s}
     /\ turn' = turn + 1 /\ UNCHANGED <<pc, status>>
  \/ /\ s \notin paths /\ MayFail("listen")
     /\ bound' = paths \cup {s}
     /\ GoDown(1) /\ UNCHANGED <<listening, turn>>
  \/ /\ s \in paths \/ MayFail("socket")
     /\ bound' = paths
     /\ GoDown(1) /\ UNCHANGED <<listening, turn>>

(* sock_open removes the path first, whoever left it. *)
OpenSocket ==
  /\ pc = "sockets" /\ turn <= Len(Order)
  /\ named' = named \cup {Order[turn]}
  /\ BindSocket(Order[turn], bound \ {Order[turn]})
  /\ UNCHANGED <<running, watched, encoded, driver, waiting, files, world>>

(* The encoders and the decoder are set up between the sockets. *)
EncoderFails ==
  /\ pc = "sockets" /\ MayFail("encoder")
  /\ GoDown(1)
  /\ UNCHANGED <<running, turn, sockets, driver, waiting, files, world>>

(* v4l2_capture_start: every buffer is queued *)
StartCapture ==
  /\ pc = "sockets" /\ turn > Len(Order)
  /\ \/ pc' = "loop" /\ UNCHANGED status
        /\ empty' = Buffers
     \/ MayFail("start") /\ GoDown(1) /\ UNCHANGED empty
  /\ UNCHANGED <<running, turn, sockets, filled, held, lost, waiting, files, world>>

--------------------------------------------------------------------------------
(* v4l2_capture_wait_for_frame *)

(* Mutant: the loop does not look at the flag. *)
LoopTestIgnoresSignal ==
  /\ pc = "loop"
  /\ pc' = "select" /\ tries' = 0 /\ armed' = TRUE
  /\ UNCHANGED <<running, status, turn, sockets, driver, files, world>>

LoopTest ==
  /\ pc = "loop"
  /\ IF running
     THEN pc' = "select" /\ tries' = 0 /\ armed' = TRUE /\ UNCHANGED status
     ELSE GoDown(0) /\ UNCHANGED waiting
  /\ UNCHANGED <<running, turn, sockets, driver, files, world>>

FrameSeen == armed /\ filled # {}

SelectReady ==
  /\ pc = "select" /\ FrameSeen
  /\ pc' = "read"
  /\ UNCHANGED <<running, status, turn, sockets, driver, waiting, files, world>>

(* One round of the retry loop is used up; after the last, 0 is returned. *)
NextTry ==
  /\ tries' = tries + 1
  /\ IF tries + 1 = MaxTries THEN GoDown(1) ELSE UNCHANGED <<pc, status>>

(* Mutant: a silent camera is waited for without end. *)
SelectTimesOutForever ==
  /\ pc = "select" /\ ~FrameSeen
  /\ armed' = TRUE
  /\ UNCHANGED <<process, tries, sockets, driver, files, world>>

(* select reports nothing ready by taking the device out of the set, and   *)
(* the set is filled before the loop only: later rounds wait for nothing.  *)
SelectTimesOut ==
  /\ pc = "select" /\ ~FrameSeen
  /\ NextTry
  /\ armed' = FALSE
  /\ UNCHANGED <<running, turn, sockets, driver, files, world>>

SelectFails ==
  /\ pc = "select" /\ MayFail("select")
  /\ GoDown(1)
  /\ UNCHANGED <<running, turn, sockets, driver, waiting, files, world>>

(* SIGINT or SIGTERM; a select under way comes back with EINTR and the set *)
(* as it was.                                                              *)
Signal ==
  /\ ~Down /\ (running \/ pc = "select")
  /\ running' = FALSE
  /\ IF pc = "select" THEN NextTry ELSE UNCHANGED <<pc, status, tries>>
  /\ UNCHANGED <<turn, sockets, driver, armed, files, world>>

--------------------------------------------------------------------------------
(* One frame *)

(* v4l2_capture_read_frame.  EAGAIN, which would go back to the loop, is    *)
(* what an empty outgoing queue answers, and select has just seen a frame.  *)
ReadFrame ==
  /\ pc = "read"
  /\ \/ /\ \E b \in filled : held' = b /\ filled' = filled \ {b}
        /\ pc' = "accept" /\ UNCHANGED status
     \/ /\ MayFail("dequeue")
        /\ GoDown(1) /\ UNCHANGED <<held, filled>>
  /\ UNCHANGED <<running, turn, sockets, empty, lost, waiting, files, world>>

AcceptClients ==
  /\ pc = "accept"
  /\ pc' = (IF output THEN "output" ELSE "write") /\ turn' = 1
  /\ watched' \in {w \in SUBSET listening : watched \subseteq w}
  /\ encoded' = output
  /\ UNCHANGED <<running, status, named, bound, listening, driver, waiting, files, world>>

(* write_output_rename_cb, the first of jpeg_chain.  The raw daemon's       *)
(* encoder may have returned no packet, and then no JPEG is written.        *)
EncodeFails ==
  /\ pc = "output" /\ MayFail("encode")
  /\ pc' = "write"
  /\ UNCHANGED <<running, status, turn, sockets, driver, waiting, files, world>>

(* Mutant: the picture is written where it is published. *)
OpenTmpInPlace ==
  /\ pc = "output"
  /\ picture' = "part" /\ pc' = "fill"
  /\ UNCHANGED <<running, status, turn, sockets, driver, waiting, tmp, world>>

OpenTmp ==
  /\ pc = "output"
  /\ \/ tmp' = "part" /\ pc' = "fill"
     \/ MayFail("file") /\ pc' = "write" /\ UNCHANGED tmp
  /\ UNCHANGED <<running, status, turn, sockets, driver, waiting, picture, world>>

(* What fwrite and fclose return is not looked at: a full disk leaves a     *)
(* part, which the next step publishes.                                     *)
FillTmp ==
  /\ pc = "fill"
  /\ tmp' = "whole" \/ (MayFail("disk") /\ UNCHANGED tmp)
  /\ pc' = "rename"
  /\ UNCHANGED <<running, status, turn, sockets, driver, waiting, picture, world>>

RenameTmp ==
  /\ pc = "rename"
  /\ \/ picture' = tmp /\ tmp' = "none"
     \/ MayFail("file") /\ UNCHANGED files
  /\ pc' = "write"
  /\ UNCHANGED <<running, status, turn, sockets, driver, waiting, world>>

(* One socket's turn; by its end its readers may all be gone.  Only a       *)
(* picture the jpeg daemon cannot decode leaves encoded_any as it was.      *)
WriteSocket ==
  /\ pc = "write" /\ turn <= Len(Order)
  /\ \/ Order[turn] \notin watched /\ UNCHANGED <<watched, encoded>>
     \/ /\ Order[turn] \in watched
        /\ encoded' \in IF Order[turn] = "h264" /\ MayFail("decode")
                        THEN {encoded, TRUE} ELSE {TRUE}
        /\ watched' \in {watched, watched \ {Order[turn]}}
  /\ turn' = turn + 1
  /\ UNCHANGED <<pc, running, status, named, bound, listening, driver, waiting, files, world>>

WritesDone ==
  /\ pc = "write" /\ turn > Len(Order)
  /\ pc' = "release"
  /\ UNCHANGED <<running, status, turn, sockets, driver, waiting, files, world>>

(* What v4l2_capture_release_frame returns is not looked at: a buffer whose *)
(* QBUF fails is out of the driver's queue for good.                        *)
ReleaseFrame ==
  /\ pc = "release"
  /\ \/ empty' = empty \cup {held} /\ UNCHANGED lost
     \/ MayFail("requeue") /\ lost' = lost \cup {held} /\ UNCHANGED empty
  /\ held' = NoBuffer
  /\ pc' = "pace"
  /\ UNCHANGED <<running, status, turn, sockets, filled, waiting, files, world>>

Pace ==
  /\ pc = "pace"
  /\ pc' = IF ~encoded /\ IdleSleep THEN "idle" ELSE "loop"
  /\ UNCHANGED <<running, status, turn, sockets, driver, waiting, files, world>>

(* sock_wait_fds: a connection, a signal or the timeout ends it *)
IdleWait ==
  /\ pc = "idle"
  /\ pc' = "loop"
  /\ UNCHANGED <<running, status, turn, sockets, driver, waiting, files, world>>

--------------------------------------------------------------------------------
(* Going down, and coming back *)

(* Mutant: only the path of a socket that listens is removed. *)
CloseDownKeepsPath ==
  /\ pc = "close"
  /\ pc' = "exit"
  /\ bound' = bound \ listening /\ named' = {}
  /\ listening' = {} /\ watched' = {}
  /\ empty' = {} /\ filled' = {} /\ held' = NoBuffer /\ lost' = {}
  /\ UNCHANGED <<running, status, turn, encoded, waiting, files, world>>

(* sock_close unlinks every path that was given to sock_open, listening or *)
(* not; the stream stops and the driver takes its buffers back.            *)
CloseDown ==
  /\ pc = "close"
  /\ pc' = "exit"
  /\ bound' = bound \ named /\ named' = {}
  /\ listening' = {} /\ watched' = {}
  /\ empty' = {} /\ filled' = {} /\ held' = NoBuffer /\ lost' = {}
  /\ UNCHANGED <<running, status, turn, encoded, waiting, files, world>>

(* SIGKILL: nothing is cleaned up, the kernel closes what was open *)
Kill ==
  /\ ~Down /\ kills < MaxKills
  /\ kills' = kills + 1
  /\ pc' = "killed"
  /\ named' = {} /\ listening' = {} /\ watched' = {}
  /\ empty' = {} /\ filled' = {} /\ held' = NoBuffer /\ lost' = {}
  /\ UNCHANGED <<running, status, turn, bound, encoded, waiting, files, output, alive, faults>>

(* fake-service, or the next start, runs the program again *)
Restart ==
  /\ Down
  /\ pc' = "open" /\ running' = TRUE /\ status' = -1 /\ turn' = 1
  /\ encoded' = FALSE /\ tries' = 0 /\ armed' = FALSE /\ alive' = TRUE
  /\ UNCHANGED <<named, bound, listening, watched, driver, files, output, faults, kills>>

--------------------------------------------------------------------------------
(* The camera *)

Fill ==
  /\ alive
  /\ \E b \in empty : filled' = filled \cup {b} /\ empty' = empty \ {b}
  /\ UNCHANGED <<process, sockets, held, lost, waiting, files, world>>

FallSilent ==
  /\ alive /\ ~Down
  /\ alive' = FALSE
  /\ UNCHANGED <<process, sockets, driver, waiting, files, output, faults, kills>>

SetUp == OpenDevice \/ OpenSocket \/ EncoderFails \/ StartCapture
Wait  == LoopTest \/ SelectReady \/ SelectTimesOut \/ SelectFails
Publish == EncodeFails \/ OpenTmp \/ FillTmp \/ RenameTmp
Frame == ReadFrame \/ AcceptClients \/ Publish \/ WriteSocket \/ WritesDone \/ ReleaseFrame
Daemon == SetUp \/ Wait \/ Frame \/ Pace \/ IdleWait \/ CloseDown

Next == Daemon \/ Signal \/ Kill \/ Restart \/ Fill \/ FallSilent

Spec == Init /\ [][Next]_vars

(* Every call of the daemon returns: select, usleep and the socket writes   *)
(* all have timeouts.                                                       *)
FairSpec == Spec /\ WF_vars(Daemon)

--------------------------------------------------------------------------------
(* Properties *)

Serving == pc \in {"loop", "select", "read", "accept", "output", "fill", "rename", "write",
                  "release", "pace", "idle"}

(* While frames are served every buffer has one owner: the driver's two     *)
(* queues, the daemon, which keeps it from DQBUF to QBUF, or nobody.  The   *)
(* driver never fills the buffer the readers are being written from.        *)
OneOwner ==
  LET held_set == {held} \ {NoBuffer} IN
  /\ empty \cap filled = {} /\ (empty \cup filled) \cap (held_set \cup lost) = {}
  /\ held_set \cap lost = {}
  /\ Serving => empty \cup filled \cup held_set \cup lost = Buffers
  /\ pc \in {"accept", "output", "fill", "rename", "write", "release"} <=> held # NoBuffer

(* While frames are served every socket that was asked for can be connected *)
(* to; and a daemon that goes down by itself takes its paths with it,       *)
(* however far it had come.                                                 *)
PathsMatchListeners ==
  /\ Serving => listening = Sockets /\ bound = Sockets
  /\ pc = "exit" /\ kills = 0 => bound = {}

(* The paths a killed daemon leaves do not keep the next one from starting: *)
(* if no call fails, the set-up does not.                                   *)
StartsOverStalePaths ==
  faults = {} /\ pc = "close" => listening = Sockets

(* A daemon told to stop stops, wherever the signal finds it: between the   *)
(* test of running and the select, in the select, in a write.               *)
StopsWhenAsked == ~running ~> Down

(* A daemon without frames ends, so that whatever started it can notice:    *)
(* the camera has fallen silent, or every buffer was lost to failed QBUFs.  *)
StarvedDaemonEnds == (~alive \/ lost = Buffers) ~> Down

(* What the log calls a retry is one: a wait is not given up as timed out   *)
(* while a frame is there to be dequeued.                                   *)
RetrySeesFrame ==
  [][pc = "select" /\ pc' = "close" /\ running /\ running' => filled = {}]_vars

(* Whoever opens the --output file finds a whole picture in it, wherever    *)
(* the daemon was killed and however often it started over, unless the disk *)
(* was full (write_output_rename_cb).                                       *)
OutputIsWhole == picture = "part" => "disk" \in faults

--------------------------------------------------------------------------------
(* How far the set-up has come is in turn. *)
SetUpInOrder ==
  /\ pc = "sockets" => named = listening /\ listening = {Order[i] : i \in 1 .. turn - 1}
  /\ pc \in {"open", "exit", "killed"} => named = {} /\ listening = {}
  /\ pc = "open" => turn = 1

(* The driver has no buffer of a daemon that has not started or is down. *)
DriverAtRest ==
  pc \in {"open", "sockets", "exit", "killed"} => empty = {} /\ filled = {} /\ lost = {}

(* A daemon that was never killed finds no path it will not remove. *)
PathsAreNamed == listening \subseteq bound /\ (kills = 0 => bound \subseteq named)

(* A wait has rounds left, and a rename has a whole file before it. *)
RoundsLeft == pc = "select" => tries < MaxTries
WholeBeforeRename == pc = "rename" /\ tmp # "whole" => "disk" \in faults

(* What holds in every state of the daemon's life: the parts above, and     *)
(* what they follow from.                                                   *)
LoopInv ==
  /\ TypeOK
  /\ OneOwner
  /\ PathsMatchListeners
  /\ StartsOverStalePaths
  /\ SetUpInOrder /\ DriverAtRest /\ PathsAreNamed
  /\ RoundsLeft /\ WholeBeforeRename
================================================================================
