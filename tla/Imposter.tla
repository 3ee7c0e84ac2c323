-------------------------------- MODULE Imposter --------------------------------
(***************************************************************************)
(* The V4L2 imposter: a capture device that is not there, played to the    *)
(* printer's video program inside its own process.  A queued buffer is a   *)
(* one-byte token in a pipe, the pipe's read end is the file descriptor    *)
(* the program polls, and a dequeue takes a token and fetches one picture  *)
(* from a capture daemon's socket.  v4l2-imposter/main.c.                  *)
(*                                                                         *)
(* Every entry point holds state_lock from its first test to its return,   *)
(* so a call is one step; the dequeue, which holds it while it connects to *)
(* the daemon and waits for it, is several.  The daemon is an actor of its *)
(* own.  A picture is counted in pieces.                                   *)
(***************************************************************************)
EXTENDS Integers, Sequences

CONSTANTS
  MaxBuffers,  \* MAX_BUFFERS
  PipeRoom,    \* tokens the pipe holds (65536)
  Backlog,     \* connections that fit the daemon's listen queue (SOCK_MAX_CLIENTS)
  FrameLen,    \* pieces of one picture
  FixedLength  \* the format's pictures all have the same length (NV12, YUYV)

ASSUME ImposterAssumption ==
  /\ MaxBuffers \in Nat \ {0} /\ FrameLen \in Nat \ {0}
  /\ PipeRoom \in Nat /\ PipeRoom >= MaxBuffers
  /\ Backlog \in Nat /\ FixedLength \in BOOLEAN

Slots == 0 .. MaxBuffers - 1

VARIABLES
  opened,    \* frame_pipe_read_fd >= 0
  count,     \* buffer_count
  mapped,    \* the slots with mapped # MAP_FAILED
  queued,    \* the slots with queued set, those past buffer_count too
  streaming,
  pipe,      \* the tokens in the pipe
  pc,        \* "call", or where a dequeue is that holds the lock: "connect", "fetch"
  cur,       \* the slot whose token the dequeue took
  got,       \* pieces read into it
  conn,      \* its connection: "none", "waiting" to be accepted, "open", "hungup"
  sent,      \* pieces the daemon has sent on it
  listens,   \* a daemon listens on the socket's path
  backlog,   \* connections it has not accepted, those given up in the meantime too
  picture,   \* history: pieces in the last buffer handed over, 0 before that
  mixed      \* history: buffers were requested anew while streaming

calls   == <<opened, count, mapped, queued, streaming, pipe>>
fetch   == <<pc, cur, got>>
daemon  == <<conn, sent, listens, backlog>>
history == <<picture, mixed>>
vars    == <<calls, fetch, daemon, history>>

(* A picture of fixed length fills its buffer; another kind has room to    *)
(* spare, and its socket closes behind one picture.                        *)
BufferLen == IF FixedLength THEN FrameLen ELSE FrameLen + 1
MostSent  == IF FixedLength THEN FrameLen + 1 ELSE FrameLen

TokensIn(p) == {p[i] : i \in 1 .. Len(p)}
Live == {s \in queued : s < count}
InHand == IF pc = "call" THEN {} ELSE {cur}

TypeOK ==
  /\ opened \in BOOLEAN /\ count \in 0 .. MaxBuffers
  /\ mapped \subseteq Slots /\ queued \subseteq Slots
  /\ streaming \in BOOLEAN
  /\ pipe \in Seq(Slots) /\ Len(pipe) <= PipeRoom
  /\ pc \in {"call", "connect", "fetch"} /\ cur \in Slots /\ got \in 0 .. BufferLen
  /\ conn \in {"none", "waiting", "open", "hungup"} /\ sent \in 0 .. MostSent
  /\ got <= sent /\ listens \in BOOLEAN /\ backlog \in 0 .. Backlog
  /\ picture \in 0 .. BufferLen /\ mixed \in BOOLEAN

Init ==
  /\ opened = FALSE /\ count = 0 /\ mapped = {} /\ queued = {}
  /\ streaming = FALSE /\ pipe = <<>>
  /\ pc = "call" /\ cur = 0 /\ got = 0
  /\ conn = "none" /\ sent = 0 /\ listens \in BOOLEAN /\ backlog = 0
  /\ picture = 0 /\ mixed = FALSE

--------------------------------------------------------------------------------
(* The program's calls *)

Called == pc = "call" /\ opened

Open ==
  /\ pc = "call" /\ ~opened
  /\ opened' = TRUE /\ pipe' = <<>>
  /\ UNCHANGED <<count, mapped, queued, streaming, fetch, daemon, history>>

(* v4l2_close: free_buffers leaves the queued flags as they are. *)
Close ==
  /\ Called
  /\ opened' = FALSE /\ streaming' = FALSE /\ pipe' = <<>>
  /\ count' = 0 /\ mapped' = {}
  /\ mixed' = FALSE
  /\ UNCHANGED <<queued, fetch, daemon, picture>>

(* handle_reqbufs: what is mapped is unmapped, and the flags of the new    *)
(* buffers are cleared.  The pipe keeps its tokens.                        *)
Reqbufs(n) ==
  /\ Called
  /\ count' = IF n > MaxBuffers THEN MaxBuffers ELSE n
  /\ mapped' = {} /\ queued' = {s \in queued : s >= count'}
  /\ mixed' = (mixed \/ streaming)
  /\ UNCHANGED <<opened, streaming, pipe, fetch, daemon, picture>>

(* QUERYBUF tells the offset and length a buffer is mapped with. *)
Mmap(s) ==
  /\ Called /\ s < count
  /\ mapped' = mapped \cup {s}
  /\ UNCHANGED <<opened, count, queued, streaming, pipe, fetch, daemon, history>>

(* Mutant: a queued buffer can be unmapped. *)
MunmapQueued(s) ==
  /\ Called /\ s < count /\ s \in mapped
  /\ mapped' = mapped \ {s}
  /\ UNCHANGED <<opened, count, queued, streaming, pipe, fetch, daemon, history>>

Munmap(s) ==
  /\ Called /\ s < count /\ s \in mapped /\ s \notin queued
  /\ mapped' = mapped \ {s}
  /\ UNCHANGED <<opened, count, queued, streaming, pipe, fetch, daemon, history>>

(* A full pipe undoes the call. *)
Qbuf(s) ==
  /\ Called /\ s < count /\ s \in mapped /\ s \notin queued
  /\ streaming => Len(pipe) < PipeRoom
  /\ queued' = queued \cup {s}
  /\ pipe' = IF streaming THEN Append(pipe, s) ELSE pipe
  /\ UNCHANGED <<opened, count, mapped, streaming, fetch, daemon, history>>

(* Every queued buffer that is mapped gets its token, in slot order.  The  *)
(* code's path for a full pipe is not one that can be taken: the pipe is   *)
(* empty here, which TokensMatchQueue says, and holds a token per slot.    *)
Streamon ==
  /\ Called /\ ~streaming
  /\ \E order \in [1 .. MaxBuffers -> Slots], n \in 0 .. MaxBuffers :
       /\ {order[i] : i \in 1 .. n} = Live \cap mapped
       /\ \A i, j \in 1 .. n : i < j => order[i] < order[j]
       /\ pipe' = pipe \o SubSeq(order, 1, n)
  /\ streaming' = TRUE
  /\ UNCHANGED <<opened, count, mapped, queued, fetch, daemon, history>>

(* Mutant: the tokens are drained, the flags stay. *)
StreamoffKeepsQueued ==
  /\ Called /\ streaming
  /\ streaming' = FALSE /\ pipe' = <<>> /\ mixed' = FALSE
  /\ UNCHANGED <<opened, count, mapped, queued, fetch, daemon, picture>>

Streamoff ==
  /\ Called /\ streaming
  /\ queued' = queued \ {s \in TokensIn(pipe) : s < count}
  /\ streaming' = FALSE /\ pipe' = <<>> /\ mixed' = FALSE
  /\ UNCHANGED <<opened, count, mapped, fetch, daemon, picture>>

--------------------------------------------------------------------------------
(* handle_dqbuf and fetch_frame *)

Dequeueing == Called /\ streaming /\ pipe # <<>>

(* A token from before a REQBUFS: of a slot that is gone, or not queued. *)
DqbufStaleToken ==
  /\ Dequeueing /\ Head(pipe) \notin Live
  /\ pipe' = Tail(pipe)
  /\ UNCHANGED <<opened, count, mapped, queued, streaming, fetch, daemon, history>>

DqbufTakesToken ==
  /\ Dequeueing /\ Head(pipe) \in Live
  /\ cur' = Head(pipe) /\ pipe' = Tail(pipe)
  /\ pc' = "connect"
  /\ UNCHANGED <<opened, count, mapped, queued, streaming, got, daemon, history>>

(* connect returns when there is room in the listen queue, accepted or not, *)
(* and it has no timeout: while the queue is full it waits, with the lock.  *)
DqbufConnects ==
  /\ pc = "connect" /\ listens /\ backlog < Backlog
  /\ pc' = "fetch" /\ conn' = "waiting" /\ backlog' = backlog + 1
  /\ UNCHANGED <<calls, cur, got, sent, listens, history>>

(* read_once, when poll reports data and no hang-up *)
FetchRead(k) ==
  /\ pc = "fetch" /\ conn = "open"
  /\ got + k <= sent /\ got + k <= BufferLen
  /\ got' = got + k
  /\ UNCHANGED <<calls, pc, cur, daemon, history>>

(* frame_read_is_whole *)
IsWhole(n) == IF FixedLength THEN n = FrameLen ELSE n > 0

(* read_fully is done: the buffer is full, or the daemon has hung up.  A    *)
(* hang-up is looked at before the data that may still be there: what the   *)
(* daemon sent last is lost with it.                                        *)
FetchOver == got = BufferLen \/ conn = "hungup"

Return ==
  /\ pc' = "call" /\ got' = 0 /\ conn' = "none" /\ sent' = 0
  /\ UNCHANGED <<opened, count, mapped, streaming, cur, listens, backlog, mixed>>

FetchSucceeds ==
  /\ pc = "fetch" /\ FetchOver /\ IsWhole(got)
  /\ queued' = queued \ {cur}
  /\ picture' = got
  /\ Return
  /\ UNCHANGED pipe

(* The buffer stays queued and its token goes to the back of the pipe,     *)
(* where there is room since it was taken from the front.                  *)
DropPicture ==
  /\ pipe' = Append(pipe, cur)
  /\ Return
  /\ UNCHANGED <<queued, picture>>

(* Nobody listens, or not any more.  A socket() that fails ends in the same *)
(* way.                                                                     *)
DqbufCannotConnect ==
  /\ pc = "connect" /\ ~listens
  /\ DropPicture

FetchCutOff ==
  /\ pc = "fetch" /\ FetchOver /\ ~IsWhole(got)
  /\ DropPicture

Unanswered == pc = "fetch" /\ conn \in {"waiting", "open"} /\ got = sent /\ got < BufferLen

(* Mutant: poll is given no timeout. *)
FetchWaits == Unanswered /\ UNCHANGED vars

(* The connection that is closed here stays in the daemon's listen queue if *)
(* it was waiting there.                                                    *)
FetchTimesOut == Unanswered /\ DropPicture

--------------------------------------------------------------------------------
(* The capture daemon at the other end: whole pictures one after the other  *)
(* or just one, and the connection closed anywhere.  It accepts all that    *)
(* wait at once, when it comes to it.                                       *)

DaemonAccepts ==
  /\ backlog > 0
  /\ backlog' = 0 /\ conn' = IF conn = "waiting" THEN "open" ELSE conn
  /\ UNCHANGED <<calls, fetch, sent, listens, history>>

DaemonSends ==
  /\ conn = "open" /\ sent < MostSent
  /\ sent' = sent + 1
  /\ UNCHANGED <<calls, fetch, conn, listens, backlog, history>>

DaemonHangsUp ==
  /\ conn = "open"
  /\ conn' = "hungup"
  /\ UNCHANGED <<calls, fetch, sent, listens, backlog, history>>

(* A daemon that ends closes all its connections, the waiting ones too. *)
DaemonGoes ==
  /\ listens
  /\ listens' = FALSE /\ backlog' = 0
  /\ conn' = IF conn = "none" THEN conn ELSE "hungup"
  /\ UNCHANGED <<calls, fetch, sent, history>>

DaemonComes ==
  /\ ~listens
  /\ listens' = TRUE
  /\ UNCHANGED <<calls, fetch, conn, sent, backlog, history>>

(* Another of the socket's readers *)
ReaderConnects ==
  /\ listens /\ backlog < Backlog
  /\ backlog' = backlog + 1
  /\ UNCHANGED <<calls, fetch, conn, sent, listens, history>>

--------------------------------------------------------------------------------
Calls ==
  \/ Open \/ Close \/ Streamon \/ Streamoff
  \/ \E n \in 0 .. MaxBuffers + 1 : Reqbufs(n)
  \/ \E s \in Slots : Mmap(s) \/ Munmap(s) \/ Qbuf(s)
  \/ DqbufStaleToken \/ DqbufTakesToken
Fetch ==
  \/ DqbufConnects \/ DqbufCannotConnect
  \/ \E k \in 1 .. BufferLen : FetchRead(k)
  \/ FetchSucceeds \/ FetchCutOff \/ FetchTimesOut
Daemon ==
  DaemonAccepts \/ DaemonSends \/ DaemonHangsUp \/ DaemonGoes \/ DaemonComes \/ ReaderConnects

Next == Calls \/ Fetch \/ Daemon

Spec == Init /\ [][Next]_vars

(* A dequeue that has begun runs on; poll always comes back.  Strong        *)
(* fairness is for the connect: the kernel wakes it when the queue is taken *)
(* out of or the listener goes, and the socket's other readers do not fill  *)
(* the queue before it every time.                                          *)
FairSpec == Spec /\ SF_vars(Fetch)

--------------------------------------------------------------------------------
(* Properties *)

(* Pictures are read into memory that is there: a queued buffer cannot lose *)
(* its mapping, neither to munmap nor to REQBUFS or close and reopen, which *)
(* unmap everything and leave old flags and tokens behind.                  *)
QueuedIsMapped ==
  /\ Live \subseteq mapped
  /\ pc # "call" => cur \in Live

Once(p) == \A i, j \in 1 .. Len(p) : p[i] = p[j] => i = j

(* The program polls the pipe, so the tokens have to say what is queued: on *)
(* a running stream every queued buffer has one, and unless buffers were    *)
(* requested anew under it there is no other and none is there twice.  A    *)
(* stream that is off has no tokens, so the next one starts clean.          *)
TokensMatchQueue ==
  /\ streaming => Live \subseteq TokensIn(pipe) \cup InHand
  /\ streaming /\ ~mixed => /\ TokensIn(pipe) \cup InHand = Live
                            /\ TokensIn(pipe) \cap InHand = {}
                            /\ Once(pipe)
  /\ ~streaming => pipe = <<>> /\ ~mixed /\ pc = "call"

(* The lock is given back: a dequeue ends, whatever the daemon does, but    *)
(* for one thing: that from some time on it lives and leaves a full listen  *)
(* queue as it is.  A daemon that is silent, slow, goes or comes back does  *)
(* not keep the lock, nor one that stalls for a while.                      *)
FetchEnds ==
  []<>(~listens \/ backlog < Backlog) => (pc # "call" ~> pc = "call")

(* Refinement: tokens, mappings and half pictures never show. *)
Picture == IF picture = 0 THEN "none" ELSE IF picture = FrameLen THEN "whole" ELSE "part"

Queue == INSTANCE CaptureQueue WITH queued <- Live, picture <- Picture

(* The imposter implements a capture queue: no buffer comes back twice or   *)
(* unasked, every stop gives all of them back, every picture is whole.      *)
ImplementsQueue == Queue!Spec

(* A token taken from the pipe finds room to be put back. *)
RoomForToken == pc # "call" => Len(pipe) < PipeRoom

ClosedIsOff == ~opened => ~streaming

ImposterInv ==
  /\ TypeOK
  /\ ClosedIsOff
  /\ QueuedIsMapped
  /\ TokensMatchQueue
  /\ RoomForToken
================================================================================
