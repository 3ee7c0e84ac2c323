------------------------------ MODULE FrameSocket ------------------------------
(***************************************************************************)
(* One of the capture daemon's frame sockets: the client table, the accept *)
(* loop and the write callback of sock_ctx.h, run once per captured frame  *)
(* as the main loops of capture-v4l2-{raw,jpeg}-mpp run them, with the     *)
(* readers at the other end of the connections as independent actors.      *)
(*                                                                         *)
(* Data is counted in units; a unit is whatever fraction of a frame the    *)
(* instance chooses.  Time is counted in ticks, one tick being the         *)
(* usleep(1000) of sock_write_client_fd.  A time the code stores is kept   *)
(* as its age (ticks since), saturated at the one threshold the code ever  *)
(* compares it with, so that no clock has to be bounded.                   *)
(***************************************************************************)
EXTENDS Integers, Sequences, FiniteSets

CONSTANTS
  Peers,          \* connections that may ever be made to the socket
  Prompt,         \* the peers that read at least one unit in every tick
  Stuck,          \* the peers that never read
  MaxClients,     \* SOCK_MAX_CLIENTS
  IdleTimeout,    \* SOCK_IDLE_TIMEOUT_MS, in ticks
  WriteTimeout,   \* SOCK_WRITE_TIMEOUT_MS, in ticks
  Capacity,       \* units the kernel holds for one connection (SO_SNDBUF)
  FrameSizes,     \* sizes of the frames offered, in units
  Kinds,          \* the sockets of the daemon that are looked at
  EncoderMayFail, \* the encoder may return no packet for a frame
  Loaded,         \* the daemon may lose the CPU for a tick and more
  NoFd            \* a free slot: fd = -1

ASSUME SocketAssumption ==
  /\ IsFiniteSet(Peers) /\ NoFd \notin Peers
  /\ Prompt \subseteq Peers
  /\ Stuck \subseteq Peers \ Prompt
  /\ MaxClients \in Nat \ {0}
  /\ IdleTimeout \in Nat \ {0}
  /\ WriteTimeout \in Nat \ {0}
  /\ Capacity \in Nat \ {0}
  /\ FrameSizes \subseteq Nat \ {0}
  /\ Kinds \subseteq {"jpeg", "mjpeg", "h264", "raw"}
  /\ EncoderMayFail \in BOOLEAN
  /\ Loaded \in BOOLEAN

Slots == 0 .. MaxClients - 1

VARIABLES
  kind,          \* which of the daemon's sockets this is
  fd,            \* clients[i].fd: the connection in the slot, or NoFd
  age,           \* ticks since clients[i].last_time
  num_clients,   \* sock_ctx_t.num_clients
  need_keyframe, \* sock_ctx_t.need_keyframe
  pc,            \* where the daemon is
  slot,          \* i, the loop variable of sock_write_cb
  size,          \* size of what is being written
  key,           \* what is being written is a key frame
  aud,           \* it is the access unit delimiter that follows an h264 frame
  stale,         \* the slots whose idle_ms had run out when the callback began
  since,         \* ticks since now, read when the callback began, and before
                 \* the callback since the frame was dequeued
  left,          \* remaining, in sock_write_client_fd
  waited,        \* ticks since start, in sock_write_client_fd
  backlog,       \* connections the kernel has completed, not yet accepted
  link,          \* the peer's own end of its connection
  unsent,        \* units sent that the peer has not taken (SIOCOUTQ)
  took,          \* the prompt peers that have read since the last tick
  torn,          \* history: the peers whose last frame was not sent to its end
  sent,          \* history: the whole frames the peer was sent
  joined,        \* history: ticks the peer has held a slot
  reason         \* history: why the daemon closed the connection

table   == <<fd, age, num_clients, need_keyframe>>
writer  == <<pc, slot, size, key, aud, stale, since, left, waited>>
network == <<backlog, link, unsent, took>>
history == <<torn, sent, joined, reason>>
vars    == <<kind, table, writer, network, history>>

Reasons   == {"none", "idle timeout", "write timeout", "write error",
              "one frame sent", "max reached"}
Links     == {"away", "up", "hungup"}
(* none yet, one that was a key frame, one that was not, more than one *)
Sents     == {"nothing", "key", "other", "many"}
Positions == {"pace", "frame", "accept", "visit", "send", "nap"}

AudSize == 1

(* How main sets the sockets up.  The h264 socket is the one whose          *)
(* need_keyframe is read and whose frames are followed by an access unit    *)
(* delimiter.                                                               *)
OneFrame   == kind = "jpeg"
AllowDrops == kind \in {"mjpeg", "raw"}
H264       == kind = "h264"

Min2(a, b) == IF a <= b THEN a ELSE b
Older(a, limit) == Min2(a + 1, limit)

Open == {s \in Slots : fd[s] # NoFd}
Free == Slots \ Open
Holds(p) == \E s \in Slots : fd[s] = p

TypeOK ==
  /\ kind \in Kinds
  /\ fd \in [Slots -> Peers \cup {NoFd}]
  /\ age \in [Slots -> 0 .. IdleTimeout]
  /\ num_clients \in Nat
  /\ need_keyframe \in BOOLEAN
  /\ pc \in Positions
  /\ slot \in 0 .. MaxClients
  /\ size \in FrameSizes \cup {0, AudSize}
  /\ key \in BOOLEAN /\ aud \in BOOLEAN
  /\ stale \subseteq Slots
  /\ since \in 0 .. IdleTimeout
  /\ left \in 0 .. size
  /\ waited \in 0 .. WriteTimeout
  /\ backlog \in Seq(Peers)
  /\ link \in [Peers -> Links]
  /\ unsent \in [Peers -> 0 .. Capacity]
  /\ took \subseteq Prompt
  /\ torn \subseteq Peers
  /\ sent \in [Peers -> Sents]
  /\ joined \in [Peers -> 0 .. IdleTimeout]
  /\ reason \in [Peers -> Reasons]

(* sock_open, before any frame is captured *)
Init ==
  /\ kind \in Kinds
  /\ fd = [s \in Slots |-> NoFd]
  /\ age = [s \in Slots |-> 0]
  /\ num_clients = 0
  /\ need_keyframe = FALSE
  /\ pc = "frame" /\ slot = 0 /\ size = 0 /\ key = FALSE /\ aud = FALSE
  /\ stale = {} /\ since = 0 /\ left = 0 /\ waited = 0
  /\ backlog = <<>>
  /\ link = [p \in Peers |-> "away"]
  /\ unsent = [p \in Peers |-> 0]
  /\ took = {}
  /\ torn = {}
  /\ sent = [p \in Peers |-> "nothing"]
  /\ joined = [p \in Peers |-> 0]
  /\ reason = [p \in Peers |-> "none"]

--------------------------------------------------------------------------------
(* The readers *)

Connect(p) ==
  /\ link[p] = "away"
  /\ link' = [link EXCEPT ![p] = "up"]
  /\ backlog' = Append(backlog, p)
  /\ UNCHANGED <<kind, table, writer, unsent, took, history>>

Take(p) ==
  /\ p \notin Stuck
  /\ link[p] = "up" /\ unsent[p] > 0
  /\ unsent' = [unsent EXCEPT ![p] = @ - 1]
  /\ took' = took \cup ({p} \cap Prompt)
  /\ UNCHANGED <<kind, table, writer, backlog, link, history>>

(* The kernel frees what the peer will not take any more. *)
Hangup(p) ==
  /\ p \notin Prompt
  /\ link[p] = "up" /\ reason[p] = "none"
  /\ link' = [link EXCEPT ![p] = "hungup"]
  /\ unsent' = [unsent EXCEPT ![p] = 0]
  /\ UNCHANGED <<kind, table, writer, backlog, took, history>>

(* Time passes while the daemon sleeps: in the pacing that keeps two       *)
(* frames a frame period apart, waiting for the camera, in the usleep of a *)
(* blocked send; and at any point at all when it can lose the CPU.  A      *)
(* prompt peer has read by then.                                           *)
Tick ==
  /\ Loaded \/ pc \in {"pace", "frame", "nap"}
  /\ \A p \in Prompt : unsent[p] = 0 \/ p \in took
  /\ age' = [s \in Slots |-> Older(age[s], IdleTimeout)]
  /\ since' = Older(since, IdleTimeout)
  /\ waited' = Older(waited, WriteTimeout)
  /\ joined' = [p \in Peers |-> IF Holds(p) THEN Older(joined[p], IdleTimeout)
                                           ELSE joined[p]]
  /\ pc' = CASE pc = "nap" -> "send" [] pc = "pace" -> "frame" [] OTHER -> pc
  /\ took' = {}
  /\ UNCHANGED <<kind, fd, num_clients, need_keyframe, slot, size, key, aud, stale,
                 left, backlog, link, unsent, torn, sent, reason>>

--------------------------------------------------------------------------------
(* The top of the main loop: a frame was dequeued, new readers are accepted *)

(* A frame period that is already used up is not slept through. *)
FrameReady ==
  /\ pc = "frame" \/ (pc = "pace" /\ (Loaded \/ since > 0))
  /\ pc' = "accept" /\ since' = 0
  /\ UNCHANGED <<kind, table, slot, size, key, aud, stale, left, waited,
                 network, history>>

IsFirstFree(s) == s \in Free /\ \A t \in Free : s <= t

(* Mutant: a reused slot keeps the last_time of the reader before. *)
AcceptClientStaleTime ==
  /\ pc = "accept" /\ backlog # <<>>
  /\ \E s \in Slots :
       /\ IsFirstFree(s)
       /\ fd' = [fd EXCEPT ![s] = Head(backlog)]
  /\ num_clients' = num_clients + 1
  /\ need_keyframe' = TRUE
  /\ joined' = [joined EXCEPT ![Head(backlog)] = 0]
  /\ backlog' = Tail(backlog)
  /\ UNCHANGED <<kind, age, writer, link, unsent, took, torn, sent, reason>>

AcceptClient ==
  /\ pc = "accept" /\ backlog # <<>>
  /\ LET p == Head(backlog) IN
       \/ \E s \in Slots :
          /\ IsFirstFree(s)
          /\ fd' = [fd EXCEPT ![s] = p]
          /\ age' = [age EXCEPT ![s] = 0]
          /\ num_clients' = num_clients + 1
          /\ need_keyframe' = TRUE
          /\ joined' = [joined EXCEPT ![p] = 0]
          /\ UNCHANGED reason
       \/ /\ Free = {}
          /\ reason' = [reason EXCEPT ![p] = "max reached"]
          /\ UNCHANGED <<table, joined>>
  /\ backlog' = Tail(backlog)
  /\ UNCHANGED <<kind, writer, link, unsent, took, torn, sent>>

NobodyWatches ==
  /\ pc = "accept" /\ backlog = <<>> /\ num_clients = 0
  /\ pc' = "pace"
  /\ UNCHANGED <<kind, table, slot, size, key, aud, stale, since, left, waited,
                 network, history>>

(* No packet came back: the raw daemon forgets the key frame it owed, and  *)
(* the jpeg daemon does too unless it was the decoder that failed.         *)
EncodeFails ==
  /\ EncoderMayFail /\ kind # "raw"
  /\ pc = "accept" /\ backlog = <<>> /\ num_clients > 0
  /\ pc' = "pace"
  /\ need_keyframe' \in IF H264 THEN {FALSE, need_keyframe} ELSE {need_keyframe}
  /\ UNCHANGED <<kind, fd, age, num_clients, slot, size, key, aud, stale, since, left,
                 waited, network, history>>

--------------------------------------------------------------------------------
(* sock_write_cb *)

(* Entry of the callback: now is read and the loop starts at slot 0. *)
BeginCallback(n, isAud) ==
  /\ pc' = "visit" /\ slot' = 0 /\ size' = n /\ aud' = isAud
  /\ since' = 0
  /\ stale' = {s \in Slots : age[s] >= IdleTimeout}
  /\ left' = 0 /\ waited' = 0

(* Mutant: need_keyframe is cleared before the encoder is asked. *)
OfferFrameClearsFirst(n) ==
  /\ pc = "accept" /\ backlog = <<>> /\ num_clients > 0
  /\ BeginCallback(n, FALSE)
  /\ need_keyframe' = (need_keyframe /\ ~H264)
  /\ key' \in IF H264 THEN {TRUE, need_keyframe'} ELSE {FALSE}
  /\ UNCHANGED <<kind, fd, age, num_clients, network, history>>

(* The encoder honours need_keyframe and adds key frames of its own. *)
OfferFrame(n) ==
  /\ pc = "accept" /\ backlog = <<>> /\ num_clients > 0
  /\ BeginCallback(n, FALSE)
  /\ key' \in IF H264 THEN {TRUE, need_keyframe} ELSE {FALSE}
  /\ need_keyframe' = (need_keyframe /\ ~H264)
  /\ UNCHANGED <<kind, fd, age, num_clients, network, history>>

EndCallback ==
  /\ pc = "visit" /\ slot = MaxClients
  /\ \/ /\ H264 /\ ~aud
        /\ BeginCallback(AudSize, TRUE)
        /\ UNCHANGED key
     \/ /\ ~H264 \/ aud
        /\ pc' = "pace" /\ slot' = 0 /\ size' = 0 /\ aud' = FALSE /\ key' = FALSE
        /\ stale' = {} /\ left' = 0 /\ waited' = 0
        /\ UNCHANGED since
  /\ UNCHANGED <<kind, table, network, history>>

NextSlot ==
  /\ pc' = "visit" /\ slot' = slot + 1
  /\ left' = 0 /\ waited' = 0
  /\ UNCHANGED <<size, key, aud, stale, since>>

(* Mutant: a client cut off by the write timeout stays in the count. *)
CloseClientMiscounts(s, why) ==
  /\ fd' = [fd EXCEPT ![s] = NoFd]
  /\ num_clients' = IF why = "write timeout" THEN num_clients ELSE num_clients - 1
  /\ reason' = [reason EXCEPT ![fd[s]] = why]
  /\ unsent' = [unsent EXCEPT ![fd[s]] = 0]
  /\ joined' = [joined EXCEPT ![fd[s]] = 0]
  /\ UNCHANGED <<need_keyframe, backlog, link, took>>

(* sock_close_client: what was in flight is no longer the daemon's concern, *)
(* and the history of the slot ends.                                        *)
CloseClient(s, why) ==
  /\ fd' = [fd EXCEPT ![s] = NoFd]
  /\ num_clients' = num_clients - 1
  /\ reason' = [reason EXCEPT ![fd[s]] = why]
  /\ unsent' = [unsent EXCEPT ![fd[s]] = 0]
  /\ joined' = [joined EXCEPT ![fd[s]] = 0]
  /\ UNCHANGED <<need_keyframe, backlog, link, took>>

Visiting == pc = "visit" /\ slot < MaxClients

SkipFree ==
  /\ Visiting /\ fd[slot] = NoFd
  /\ NextSlot
  /\ UNCHANGED <<kind, table, network, history>>

CloseIdle ==
  /\ Visiting /\ fd[slot] # NoFd /\ slot \in stale
  /\ CloseClient(slot, "idle timeout")
  /\ NextSlot
  /\ UNCHANGED <<kind, age, torn, sent>>

(* Mutant: one rule for every frame, however large. *)
CannotTakeWholeAsIfItFits(behind, room, offered) == behind >= offered

(* reader_cannot_take_whole_frame *)
CannotTakeWhole(behind, room, offered) ==
  IF offered > room THEN behind > 0 ELSE behind >= offered

(* sock_client_would_be_torn: both questions to the kernel are answered *)
WouldBeTorn(p) == CannotTakeWhole(unsent[p], Capacity, size)

(* Mutant: a dropped frame counts as served and renews last_time. *)
DropFrameRenewsTime ==
  /\ Visiting /\ fd[slot] # NoFd /\ slot \notin stale
  /\ AllowDrops /\ WouldBeTorn(fd[slot])
  /\ age' = [age EXCEPT ![slot] = since]
  /\ NextSlot
  /\ UNCHANGED <<kind, fd, num_clients, need_keyframe, network, history>>

DropFrame ==
  /\ Visiting /\ fd[slot] # NoFd /\ slot \notin stale
  /\ AllowDrops /\ WouldBeTorn(fd[slot])
  /\ NextSlot
  /\ UNCHANGED <<kind, table, network, history>>

BeginWrite ==
  /\ Visiting /\ fd[slot] # NoFd /\ slot \notin stale
  /\ ~(AllowDrops /\ WouldBeTorn(fd[slot]))
  /\ pc' = "send" /\ left' = size /\ waited' = 0
  /\ UNCHANGED <<kind, table, slot, size, key, aud, stale, since, network, history>>

--------------------------------------------------------------------------------
(* sock_write_client_fd, one send call per action *)

Reader == fd[slot]
Room == Capacity - unsent[Reader]

(* The kernel takes some of what is left. *)
SendSome(k) ==
  /\ pc = "send" /\ link[Reader] = "up"
  /\ k <= Room /\ k < left
  /\ left' = left - k
  /\ unsent' = [unsent EXCEPT ![Reader] = @ + k]
  /\ torn' = torn \cup {Reader}
  /\ UNCHANGED <<kind, table, pc, slot, size, key, aud, stale, since, waited,
                 backlog, link, took, sent, joined, reason>>

(* The kernel takes the last of it: the frame is whole, and a one-frame    *)
(* reader is closed on the spot.                                           *)
SendLast ==
  /\ pc = "send" /\ link[Reader] = "up"
  /\ left <= Room
  /\ torn' = torn \ {Reader}
  /\ sent' = [sent EXCEPT ![Reader] = IF @ # "nothing" THEN "many"
                                      ELSE IF key THEN "key" ELSE "other"]
  /\ age' = [age EXCEPT ![slot] = since]
  /\ \/ /\ OneFrame
        /\ CloseClient(slot, "one frame sent")
     \/ /\ ~OneFrame
        /\ unsent' = [unsent EXCEPT ![Reader] = @ + left]
        /\ UNCHANGED <<fd, num_clients, need_keyframe, backlog, link, took,
                       joined, reason>>
  /\ NextSlot
  /\ UNCHANGED kind

(* Mutant: a full socket ends the write there and then, without an error. *)
SendBlockedGivesUp ==
  /\ pc = "send" /\ link[Reader] = "up"
  /\ Room = 0
  /\ NextSlot
  /\ UNCHANGED <<kind, table, network, history>>

(* Mutant: the write never times out. *)
SendBlockedForever ==
  /\ pc = "send" /\ link[Reader] = "up"
  /\ Room = 0
  /\ pc' = "nap"
  /\ UNCHANGED <<kind, table, slot, size, key, aud, stale, since, left, waited,
                 network, history>>

SendBlocked ==
  /\ pc = "send" /\ link[Reader] = "up"
  /\ Room = 0 /\ waited < WriteTimeout
  /\ pc' = "nap"
  /\ UNCHANGED <<kind, table, slot, size, key, aud, stale, since, left, waited,
                 network, history>>

(* -1 with what was already sent left in the socket, then sock_close_client *)
SendTimesOut ==
  /\ pc = "send" /\ link[Reader] = "up"
  /\ Room = 0 /\ waited >= WriteTimeout
  /\ CloseClient(slot, "write timeout")
  /\ NextSlot
  /\ UNCHANGED <<kind, age, torn, sent>>

SendFails ==
  /\ pc = "send" /\ link[Reader] = "hungup"
  /\ CloseClient(slot, "write error")
  /\ NextSlot
  /\ UNCHANGED <<kind, age, torn, sent>>

--------------------------------------------------------------------------------
Accepting == FrameReady \/ AcceptClient \/ NobodyWatches \/ EncodeFails
Writing ==
  \/ EndCallback \/ SkipFree \/ CloseIdle \/ DropFrame \/ BeginWrite
  \/ \E k \in 1 .. Capacity : SendSome(k)
  \/ SendLast \/ SendBlocked \/ SendTimesOut \/ SendFails
Daemon == Accepting \/ Writing \/ \E n \in FrameSizes : OfferFrame(n)
Readers == \E p \in Peers : Connect(p) \/ Take(p) \/ Hangup(p)

Next == Daemon \/ Readers \/ Tick

Spec == Init /\ [][Next]_vars

(* The daemon is one thread that is always runnable and the clock runs;    *)
(* a prompt peer reads.  Nothing is assumed of the other readers.          *)
Fairness ==
  /\ WF_vars(Daemon)
  /\ WF_vars(Tick)
  /\ \A p \in Prompt : WF_vars(Take(p))
FairSpec == Spec /\ Fairness

--------------------------------------------------------------------------------
(* Properties *)

(* num_clients is what the main loop decides from whether to encode at     *)
(* all, and sock_close_client asserts it: it is the number of open slots,  *)
(* and no connection sits in two of them.                                  *)
TableConsistent ==
  /\ num_clients = Cardinality(Open)
  /\ \A s, t \in Open : fd[s] = fd[t] => s = t

(* A reader that is still connected has only ever been given whole frames, *)
(* except for the one the daemon is sending it at this moment: every path  *)
(* out of sock_write_client_fd that leaves half a frame behind closes it.  *)
OnlyWholeFrames ==
  \A s \in Open : fd[s] \in torn => pc \in {"send", "nap"} /\ slot = s

(* "idle timeout" is never said to a reader connected for less than the    *)
(* timeout, whatever its slot was used for before and however long the     *)
(* callback that last served it took.                                      *)
IdleMeansIdle ==
  [][\A p \in Peers : reason'[p] = "idle timeout" /\ reason[p] # "idle timeout"
       => joined[p] = IdleTimeout]_vars

(* A snapshot reader is sent at most one picture and is not kept after it. *)
OneFrameEach ==
  OneFrame => \A p \in Peers : /\ sent[p] # "many"
                               /\ sent[p] # "nothing" => ~Holds(p)

(* The rule of frame_backlog.h at work: on a socket that may drop frames,  *)
(* a reader that keeps reading is never cut off in the middle of one.      *)
PromptReaderNeverCut ==
  AllowDrops => \A p \in Prompt : reason[p] # "write timeout"

(* An h264 reader's first frame is one its decoder can start on. *)
FirstFrameIsKey ==
  H264 => \A p \in Peers : sent[p] # "other"

(* A reader that is gone, or that never reads, loses its slot: it cannot   *)
(* keep one of the SOCK_MAX_CLIENTS for ever, with or without drops.       *)
DeadReaderLeaves ==
  \A p \in Peers :
    (Holds(p) /\ (p \in Stuck \/ link[p] = "hungup")) ~> ~Holds(p)

(* Whatever the readers do, the daemon gets back to the next frame. *)
CallbackEnds == pc = "visit" ~> pc = "pace"

(* Refinement.  A reader is cut when part of a frame was sent to it and the *)
(* daemon is not at this moment sending it the rest.                        *)
SendingTo(p) == pc \in {"send", "nap"} /\ fd[slot] = p

Phase == [p \in Peers |-> IF Holds(p) THEN "in"
                          ELSE IF reason[p] # "none" THEN "gone" ELSE "out"]
Frames == [p \in Peers |-> IF sent[p] \in {"key", "other"} THEN "one" ELSE sent[p]]
Cut == {p \in torn : ~SendingTo(p)}

Feed == INSTANCE FrameFeed WITH
  phase <- Phase, frames <- Frames, cut <- Cut, single <- OneFrame

(* The socket implements the feed: slots, buffers, drops and timeouts never *)
(* show a reader anything but whole frames, then at most one cut at the end *)
(* of the connection.                                                       *)
ImplementsFeed == Feed!Spec

--------------------------------------------------------------------------------
(* The inductive invariant behind the safety properties *)

Queued(p) == \E i \in 1 .. Len(backlog) : backlog[i] = p
InCallback == pc \in {"visit", "send", "nap"}

(* A connection is in one place only: the kernel's backlog, a slot, or      *)
(* closed by the daemon with a reason.                                      *)
OnePlace ==
  /\ \A i, j \in 1 .. Len(backlog) : backlog[i] = backlog[j] => i = j
  /\ \A p \in Peers :
       /\ link[p] = "away" => ~Queued(p) /\ ~Holds(p) /\ reason[p] = "none"
       /\ Queued(p) => ~Holds(p) /\ reason[p] = "none"
       /\ Holds(p) => reason[p] = "none"
       /\ reason[p] = "none" /\ ~Holds(p) => sent[p] = "nothing" /\ p \notin torn

WriterInSlot ==
  pc \in {"send", "nap"} => slot < MaxClients /\ fd[slot] # NoFd

(* The ages the idle test rests on never exceed the time in the slot. *)
AgesHonest ==
  \A s \in Open :
    /\ age[s] <= joined[fd[s]]
    /\ InCallback => since <= joined[fd[s]]
    /\ InCallback /\ s \in stale /\ slot <= s => age[s] = IdleTimeout

(* An h264 reader still without a frame is owed a key frame, and the frame  *)
(* being written, if it has not reached the reader's slot yet, is one.      *)
KeyOwed ==
  H264 => \A s \in Open : sent[fd[s]] = "nothing" =>
    /\ pc \notin {"pace", "frame"}
    /\ pc = "accept" => need_keyframe
    /\ InCallback => key /\ ~aud /\ slot <= s

(* The most a reader can be behind when a frame of n units is begun.        *)
Backlogged(n) == IF n > Capacity THEN 0 ELSE n - 1

(* A prompt reader, a unit a tick, makes room for any frame before the      *)
(* write times out.                                                         *)
PromptIsFastEnough ==
  \A n \in FrameSizes : Backlogged(n) + n - Capacity < WriteTimeout

(* What is left of a frame and what its prompt reader has not taken shrink  *)
(* by a unit for every tick waited; a unit read in a tick that is not over  *)
(* yet is counted ahead.                                                    *)
PromptDrains ==
  AllowDrops =>
    /\ InCallback => size \in FrameSizes
    /\ pc \in {"send", "nap"} => left > 0
    /\ \A p \in Prompt : pc \in {"send", "nap"} /\ fd[slot] = p =>
         /\ waited + left + unsent[p] + (IF p \in took THEN 1 ELSE 0)
              <= Backlogged(size) + size + 1
         /\ pc = "nap" => p \in took \/ unsent[p] = Capacity

SocketInv ==
  /\ TypeOK
  /\ TableConsistent
  /\ OnePlace
  /\ WriterInSlot
  /\ OnlyWholeFrames
  /\ AgesHonest
  /\ OneFrameEach
================================================================================
