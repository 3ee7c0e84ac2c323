------------------------------ MODULE RtspServer ------------------------------
(***************************************************************************)
(* stream-rtsp: one thread that turns a live555 event loop, opens the      *)
(* capture daemon's h264 socket while somebody plays the stream, and hands *)
(* the access units to live555's framer.                                   *)
(*                                                                         *)
(* Of live555 the model has what the code relies on: all viewers share one *)
(* source, made for the first and closed with the last (the subsession is  *)
(* made with reuseFirstSource = True, so g_streams never holds two and     *)
(* close_old_clients never finds too many); the framer takes a unit in as  *)
(* many pieces as it likes and asks for more when it wants to; select on a *)
(* descriptor that is closed ends the program.                             *)
(***************************************************************************)
EXTENDS H264Stream

CONSTANTS
    Reads,      \* the numbers of bytes a read may return
    Pieces,     \* what fMaxSize may be
    MaxViewers  \* bound: viewers at a time

ASSUME RtspAssumption ==
    Reads \subseteq Nat \ {0} /\ Pieces \subseteq Nat \ {0} /\ MaxViewers \in Nat

VARIABLES
    daemon,     \* whether the capture daemon listens
    fd,         \* "none", "open", or "ended" once the daemon has closed it
    watched,    \* the descriptor live555 selects on: "none", "fd" or "closed"
    pc,         \* the main loop: "step", "open", "flush"; "aborted"
    viewers,    \* how many play the stream
    running,    \* the source is in g_streams
    awaiting,   \* isCurrentlyAwaitingData
    current,    \* currentBuffer, as a unit; NoUnit when there is none
    offset,     \* currentOffset
    half        \* history: a unit the framer has only a part of: where that
                \* part ends and where the unit does; NoHalf otherwise

sourceVars == <<viewers, running, awaiting, current, offset, half>>
feedVars == <<daemon, fd, watched>>
vars == <<streamVars, feedVars, sourceVars, pc>>

NoUnit == <<0, 0>>
NoHalf == <<0, 0>>

Init ==
    /\ StreamInit
    /\ daemon \in BOOLEAN
    /\ fd = "none" /\ watched = "none" /\ pc = "step"
    /\ viewers = 0 /\ running = FALSE /\ awaiting = FALSE
    /\ current = NoUnit /\ offset = 0 /\ half = NoHalf

-----------------------------------------------------------------------------
(* The capture daemon *)

DaemonGoes ==
    /\ daemon
    /\ daemon' = FALSE
    /\ fd' = IF fd = "open" THEN "ended" ELSE fd
    /\ UNCHANGED <<streamVars, watched, sourceVars, pc>>

DaemonComes ==
    /\ ~daemon
    /\ daemon' = TRUE
    /\ UNCHANGED <<streamVars, fd, watched, sourceVars, pc>>

\* It closes this reader, which was too slow for it.
DaemonDropsReader ==
    /\ fd = "open"
    /\ fd' = "ended"
    /\ UNCHANGED <<streamVars, daemon, watched, sourceVars, pc>>

-----------------------------------------------------------------------------
(* The source *)

\* Mutant: a new frame takes the place of one that is still being sent.
SendNewFrameReplaces ==
    IF running
    THEN current' = NextUnit /\ offset' = 0
    ELSE UNCHANGED <<current, offset>>

\* store_frame, sendNewFrame: a frame is dropped while another is being sent.
SendNewFrame ==
    IF running /\ current = NoUnit
    THEN current' = NextUnit /\ offset' = 0
    ELSE UNCHANGED <<current, offset>>

\* doGetNextFrame copies up to n bytes, and the framer may ask for more at once.
Deliver(n) ==
    LET begin == At[current[1]] + offset
        end == At[current[2]]
        stop == IF begin + n < end THEN begin + n ELSE end
    IN
    /\ running /\ current # NoUnit
    /\ IF stop = end
       THEN current' = NoUnit /\ offset' = 0 /\ half' = NoHalf
       ELSE current' = current /\ offset' = offset + n /\ half' = <<stop, end>>
    /\ awaiting' \in BOOLEAN
    /\ UNCHANGED <<viewers, running>>

-----------------------------------------------------------------------------
(* SingleStep: one event is handled *)

Step == pc = "step" /\ ~splitting /\ watched # "closed"

NothingHappens ==
    /\ Step
    /\ pc' = "open"
    /\ UNCHANGED <<streamVars, feedVars, sourceVars>>

\* h264_read_handler, with the units it stores one by one.
ReadSome(n) ==
    /\ Step /\ watched = "fd"
    /\ Read(n)
    /\ UNCHANGED <<feedVars, sourceVars, pc>>

Store ==
    /\ StoreUnit
    /\ SendNewFrame
    /\ UNCHANGED <<feedVars, viewers, running, awaiting, half, pc>>

ReadDone ==
    /\ SplitEnds
    /\ pc' = "open"
    /\ UNCHANGED <<feedVars, sourceVars>>

\* read returns 0 or an error: the descriptor is closed, and still selected on.
FeedEnds ==
    /\ Step /\ watched = "fd"
    /\ fd = "ended" \/ Room = 0
    /\ fd' = "none" /\ watched' = "closed"
    /\ pc' = "open"
    /\ UNCHANGED <<streamVars, daemon, sourceVars>>

\* select fails with EBADF, which live555 takes for a bug of the program.
Abort ==
    /\ pc = "step" /\ watched = "closed"
    /\ pc' = "aborted"
    /\ UNCHANGED <<streamVars, feedVars, sourceVars>>

\* PLAY: the first viewer has the source made, and the framer asks it for data,
\* which puts it into g_streams.
Play ==
    /\ Step /\ viewers < MaxViewers
    /\ viewers' = viewers + 1
    /\ running' = TRUE
    /\ awaiting' = (awaiting \/ viewers = 0)
    /\ pc' = "open"
    /\ UNCHANGED <<streamVars, feedVars, current, offset, half>>

\* TEARDOWN or a viewer who is gone: the last takes the source with it.
Leave ==
    /\ Step /\ viewers > 0
    /\ viewers' = viewers - 1
    /\ IF viewers = 1
       THEN /\ running' = FALSE /\ awaiting' = FALSE
            /\ current' = NoUnit /\ offset' = 0 /\ half' = NoHalf
       ELSE UNCHANGED <<running, awaiting, current, offset, half>>
    /\ pc' = "open"
    /\ UNCHANGED <<streamVars, feedVars>>

\* The sink has sent what it had and the framer asks for more.
FramerAsks ==
    /\ Step /\ running /\ ~awaiting
    /\ IF current = NoUnit
       THEN awaiting' = TRUE /\ UNCHANGED <<viewers, running, current, offset, half>>
       ELSE \E n \in Pieces : Deliver(n)
    /\ pc' = "open"
    /\ UNCHANGED <<streamVars, feedVars>>

-----------------------------------------------------------------------------
(* The rest of the main loop *)

\* Mutant: the feed is opened and never closed.
FeedClosesNever ==
    /\ pc = "open" /\ ~running
    /\ pc' = "flush"
    /\ UNCHANGED <<streamVars, feedVars, sourceVars>>

\* h264_stream_open_or_close with nobody in g_streams.
FeedCloses ==
    /\ pc = "open" /\ ~running
    /\ IF fd = "none"
       THEN UNCHANGED <<streamVars, feedVars>>
       ELSE Fresh /\ fd' = "none" /\ watched' = "none" /\ UNCHANGED daemon
    /\ pc' = "flush"
    /\ UNCHANGED sourceVars

\* With somebody: a new descriptor, which has the number of the one just closed
\* unless another connection has freed a lower one meanwhile.
FeedOpens ==
    /\ pc = "open" /\ running
    /\ IF fd = "none" /\ daemon
       THEN /\ Fresh /\ fd' = "open"
            /\ watched' = "fd" \/ (watched = "closed" /\ watched' = "closed")
            /\ UNCHANGED daemon
       ELSE UNCHANGED <<streamVars, feedVars>>
    /\ pc' = "flush"
    /\ UNCHANGED sourceVars

\* rtsp_flush
Flush ==
    /\ pc = "flush"
    /\ IF running /\ awaiting /\ current # NoUnit
       THEN /\ \E n \in Pieces : Deliver(n)
            /\ pc' = IF awaiting' /\ current' # NoUnit THEN "flush" ELSE "step"
       ELSE UNCHANGED sourceVars /\ pc' = "step"
    /\ UNCHANGED <<streamVars, feedVars>>

-----------------------------------------------------------------------------
Server ==
    \/ NothingHappens \/ FeedEnds \/ Abort \/ Store \/ ReadDone
    \/ \E n \in Reads : ReadSome(n)
    \/ FramerAsks \/ FeedCloses \/ FeedOpens \/ Flush

Next ==
    \/ Server
    \/ Play \/ Leave
    \/ DaemonGoes \/ DaemonComes \/ DaemonDropsReader

Spec == Init /\ [][Next]_vars /\ WF_vars(Server)

-----------------------------------------------------------------------------
(* Properties *)

TypeOK ==
    /\ StreamTypeOK
    /\ daemon \in BOOLEAN /\ fd \in {"none", "open", "ended"}
    /\ watched \in {"none", "fd", "closed"}
    /\ pc \in {"step", "open", "flush", "aborted"}
    /\ viewers \in 0..MaxViewers /\ running \in BOOLEAN /\ awaiting \in BOOLEAN
    /\ current = NoUnit \/ \E i, j \in Nals : i < j /\ current = <<i, j>>
    /\ offset \in Nat

\* Only a source that is running holds a frame, of which some is to be sent.
SourceRuns ==
    /\ running <=> viewers > 0
    /\ current # NoUnit \/ awaiting => running
    /\ current # NoUnit => At[current[1]] + offset < At[current[2]]

\* A read always has room, so that a full buffer is never taken for the end of
\* the feed (h264_stream_process); and the buffer holds what is still to be
\* stored.
RtspInv ==
    /\ TypeOK
    /\ SourceRuns
    /\ Room > 0
    /\ NeededIsKept /\ InStep

\* One picture as the daemon sent it, perhaps with the delimiter before it.
OnePicture(u) ==
    /\ AtSeam(u[1])
    /\ Kinds[u[2]] = "aud"
    /\ \A k \in (u[1] + 1)..(u[2] - 1) : Kinds[k] # "aud"

\* While no read ends where it misleads, every unit is exactly one picture, and
\* each picture is stored once and in its turn (h264_process_frames).
WholePictures ==
    [][Store /\ ~late => OnePicture(NextUnit) /\ At[NextUnit[1]] = need]_vars

\* Whatever the reads, no byte from a NAL unit on is left out: a unit begins
\* where the units before it ended or earlier, and what is still to be stored
\* stays in the buffer.  Only a buffer that outgrew MAX_FRAME_SIZE is thrown
\* away, and then the next NAL unit is found (h264_process_frames,
\* h264_stream_process).
NothingSkipped ==
    [][(Store => At[NextUnit[1]] <= need) /\ from' <= need']_vars

\* The framer gets every unit from its first byte to its last, whatever arrives
\* in between (sendNewFrame, doGetNextFrame).
FramerSeesWholeUnits ==
    /\ half # NoHalf => /\ current # NoUnit
                        /\ half = <<At[current[1]] + offset, At[current[2]]>>
    /\ half = NoHalf /\ current # NoUnit => offset = 0

\* The feed is open while somebody watches and the daemon listens, and closed
\* when nobody does, so that the daemon can stop encoding
\* (h264_stream_open_or_close).
FeedFollowsStreams ==
    /\ (running /\ daemon) ~> (fd # "none" \/ ~running \/ ~daemon \/ pc = "aborted")
    /\ ~running ~> (fd = "none" \/ running \/ pc = "aborted")
=============================================================================
