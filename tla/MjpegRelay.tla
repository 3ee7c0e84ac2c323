------------------------------ MODULE MjpegRelay -------------------------------
(***************************************************************************)
(* One viewer of stream-http's /stream.mjpg: CaptureStream reads JPEG      *)
(* frames off the capture daemon's socket and reconnects whenever that     *)
(* socket goes quiet, MjpegPacer decides what the viewer can be sent, and  *)
(* a blocking sendall sends it.  The capture daemon and the viewer are     *)
(* actors of their own; of the daemon this uses what FrameFeed promises:   *)
(* whole frames, and at most one cut frame at the end of a connection.     *)
(*                                                                         *)
(* A frame on the wire is three pieces: its mark is the first byte of the  *)
(* SOI marker, its tail the last byte of the EOI marker, its head what is  *)
(* between.  A write can end, and a read can cut, between any two: also    *)
(* inside either marker.  Time is counted in ticks of half a second (the   *)
(* reconnect back-off).                                                    *)
(***************************************************************************)
EXTENDS Integers, Sequences

CONSTANTS
  MaxFrame,         \* bound: frames the camera captures
  WireRoom,         \* bound: pieces in the socket between capture and relay
  ReadTimeout,      \* CAPTURE_READ_TIMEOUT_S
  Backoff,          \* RECONNECT_BACKOFF_S
  ConnectingAfter,  \* CONNECTING_AFTER_SILENT_S
  InterruptedAfter, \* INTERRUPTED_AFTER_SILENT_S
  GiveUp,           \* GIVE_UP_CONNECTING_S
  SendTimeout,      \* MJPEG_SEND_TIMEOUT_MS
  FrameInterval,    \* 1 / fps, or 0
  FrameSize,        \* units of a frame, or of a splash image
  ViewerRoom        \* units the kernel holds for the viewer (SO_SNDBUF)

ASSUME RelayAssumption ==
  /\ {MaxFrame, WireRoom, ReadTimeout, Backoff, SendTimeout, FrameSize, ViewerRoom}
       \subseteq Nat \ {0}
  /\ ConnectingAfter \in Nat /\ InterruptedAfter \in Nat /\ FrameInterval \in Nat
  /\ GiveUp \in Nat /\ ConnectingAfter <= InterruptedAfter /\ InterruptedAfter <= GiveUp

VARIABLES
  \* the capture daemon and its connection to the relay
  up,        \* it accepts connections
  conn,      \* "none", "open", or "closed" by the daemon
  wire,      \* the pieces sent and not yet read
  captured,  \* the last frame captured
  sent,      \* the last piece sent of it; "tail" also when the rest is given up
  \* CaptureStream
  pc,
  then,      \* where the generator goes on when what it yields is dealt with
  buffer,    \* the bytes of an unfinished frame; remaining
  items,     \* what is being yielded, frames or one splash; the frames cut so far
  silent,    \* ticks since silent_since, up to GiveUp
  seen,      \* seen_live_frame
  waited,    \* ticks in the recv or the sleep under way
  \* MjpegPacer and the blocking sends
  elapsed,   \* ticks since last_sent_at, up to SendTimeout + 1
  last_size, \* last_sent_size; 1 stands for the 1024 it begins with
  left,      \* units of the current sendall still to be taken
  \* the viewer
  viewer,    \* "reading", "stuck" or "gone"
  unsent,    \* units it has not taken
  \* history
  newest,    \* the last frame the pacer was asked about
  patched,   \* the buffer held an unfinished frame at the last reconnect
  quiet      \* ticks since the viewer was last offered anything

capture == <<up, conn, wire, captured, sent>>
stream  == <<then, buffer, items, silent, seen, waited>>
pacer   == <<elapsed, last_size, left>>
watcher == <<viewer, unsent>>
history == <<newest, patched, quiet>>
vars    == <<capture, pc, stream, pacer, watcher, history>>

Pieces    == [id : 1 .. MaxFrame, part : {"mark", "head", "tail"}]
Splashes  == {"connecting", "interrupted"}
Positions == {"connect", "recv", "split", "yield", "sending", "reopen", "backoff", "done"}

(* The longest a viewer may be shown nothing new: the silence is looked at *)
(* once per read and back-off.                                             *)
LongestQuiet == InterruptedAfter + ReadTimeout + Backoff

Older(t, limit) == IF t < limit THEN t + 1 ELSE limit

(* An item is a splash or a frame; a frame is the pieces it was cut out as. *)
Items == [splash : Splashes \cup {"no"}, pieces : Seq(Pieces)]
IsFrame(item) == item.splash = "no"
FrameItem(pieces) == [splash |-> "no", pieces |-> pieces]
SplashItem(s) == [splash |-> s, pieces |-> <<>>]

TypeOK ==
  /\ up \in BOOLEAN /\ conn \in {"none", "open", "closed"}
  /\ wire \in Seq(Pieces) /\ Len(wire) <= WireRoom
  /\ captured \in 0 .. MaxFrame /\ sent \in {"mark", "head", "tail"}
  /\ pc \in Positions /\ then \in {"recv", "reopen"}
  /\ buffer \in Seq(Pieces)
  /\ items \in Seq(Items)
  /\ silent \in 0 .. GiveUp /\ seen \in BOOLEAN
  /\ waited \in 0 .. ReadTimeout + Backoff
  /\ elapsed \in 0 .. SendTimeout + 1
  /\ last_size \in {1, FrameSize} /\ left \in 0 .. FrameSize
  /\ viewer \in {"reading", "stuck", "gone"} /\ unsent \in 0 .. ViewerRoom
  /\ newest \in 0 .. MaxFrame /\ patched \in BOOLEAN
  /\ quiet \in 0 .. LongestQuiet + 1

Init ==
  /\ up \in BOOLEAN /\ conn = "none" /\ wire = <<>> /\ captured = 0 /\ sent = "tail"
  /\ pc = "connect" /\ then = "recv" /\ buffer = <<>> /\ items = <<>>
  /\ silent = 0 /\ seen = FALSE /\ waited = 0
  /\ elapsed = 0 /\ last_size = 1 /\ left = 0
  /\ viewer = "reading" /\ unsent = 0
  /\ newest = 0 /\ patched = FALSE /\ quiet = 0

--------------------------------------------------------------------------------
(* The capture daemon.  It has at most SOCK_WRITE_TIMEOUT_MS for a frame,   *)
(* less than a tick.                                                        *)

Behind(part) == IF part = "mark" THEN "head" ELSE "tail"

CaptureBegins ==
  /\ conn = "open" /\ sent = "tail" /\ captured < MaxFrame /\ Len(wire) < WireRoom
  /\ captured' = captured + 1 /\ sent' = "mark"
  /\ wire' = Append(wire, [id |-> captured + 1, part |-> "mark"])
  /\ UNCHANGED <<up, conn, pc, stream, pacer, watcher, history>>

CaptureGoesOn ==
  /\ conn = "open" /\ sent # "tail" /\ Len(wire) < WireRoom
  /\ sent' = Behind(sent)
  /\ wire' = Append(wire, [id |-> captured, part |-> Behind(sent)])
  /\ UNCHANGED <<up, conn, captured, pc, stream, pacer, watcher, history>>

(* A write or idle timeout, or the daemon going down: what was sent can     *)
(* still be read.                                                           *)
CaptureCloses ==
  /\ up
  /\ up' \in BOOLEAN
  /\ conn' = IF conn = "open" THEN "closed" ELSE conn
  /\ sent' = "tail"
  /\ UNCHANGED <<wire, captured, pc, stream, pacer, watcher, history>>

CaptureComesBack ==
  /\ ~up
  /\ up' = TRUE
  /\ UNCHANGED <<conn, wire, captured, sent, pc, stream, pacer, watcher, history>>

--------------------------------------------------------------------------------
(* The viewer *)

ViewerTakes ==
  /\ viewer = "reading" /\ unsent > 0
  /\ unsent' = unsent - 1
  /\ UNCHANGED <<capture, pc, stream, pacer, viewer, history>>

ViewerSticks ==
  /\ viewer = "reading"
  /\ viewer' = "stuck"
  /\ UNCHANGED <<capture, pc, stream, pacer, unsent, history>>

ViewerGoes ==
  /\ viewer # "gone"
  /\ viewer' = "gone" /\ unsent' = 0
  /\ UNCHANGED <<capture, pc, stream, pacer, history>>

--------------------------------------------------------------------------------
(* CaptureStream *)

(* _open *)
Connect ==
  /\ pc = "connect"
  /\ conn' = IF up THEN "open" ELSE "none"
  /\ pc' = "recv" /\ then' = "recv" /\ waited' = 0
  /\ patched' = (patched \/ buffer # <<>>)
  /\ UNCHANGED <<up, wire, captured, sent, buffer, items, silent, seen, pacer, watcher,
                 newest, quiet>>

(* recv hands over any part of what is there, and extract_jpeg_frames begins. *)
Receive ==
  /\ pc = "recv" /\ wire # <<>>
  /\ \E n \in 1 .. Len(wire) :
       /\ buffer' = buffer \o SubSeq(wire, 1, n)
       /\ wire' = SubSeq(wire, n + 1, Len(wire))
  /\ pc' = "split" /\ items' = <<>>
  /\ then' = "recv" /\ waited' = 0
  /\ UNCHANGED <<up, conn, captured, sent, silent, seen, pacer, watcher, history>>

(* remaining.find(JPEG_SOI), and the first EOI behind it *)
Soi(i) ==
  /\ i \in DOMAIN buffer /\ i + 1 \in DOMAIN buffer
  /\ buffer[i].part = "mark" /\ buffer[i + 1].part = "head"
FirstSoi(i) == Soi(i) /\ \A j \in 1 .. i - 1 : ~Soi(j)
FirstEoi(from, i) ==
  /\ i \in from .. Len(buffer) /\ buffer[i].part = "tail"
  /\ \A j \in from .. i - 1 : buffer[j].part # "tail"

(* Mutant: the search for the next frame goes on behind the SOI. *)
CutFrameBehindSoi ==
  /\ pc = "split"
  /\ \E soi, eoi \in DOMAIN buffer :
       /\ FirstSoi(soi) /\ FirstEoi(soi + 2, eoi)
       /\ items' = Append(items, FrameItem(SubSeq(buffer, soi, eoi)))
       /\ buffer' = SubSeq(buffer, soi + 2, Len(buffer))
  /\ UNCHANGED <<capture, pc, then, silent, seen, waited, pacer, watcher, history>>

(* Nothing before an SOI counts, and what follows one runs to the next EOI, *)
(* whatever is in between.                                                  *)
CutFrame ==
  /\ pc = "split"
  /\ \E soi, eoi \in DOMAIN buffer :
       /\ FirstSoi(soi) /\ FirstEoi(soi + 2, eoi)
       /\ items' = Append(items, FrameItem(SubSeq(buffer, soi, eoi)))
       /\ buffer' = SubSeq(buffer, eoi + 1, Len(buffer))
  /\ UNCHANGED <<capture, pc, then, silent, seen, waited, pacer, watcher, history>>

(* Mutant: without an SOI nothing remains. *)
NothingToCutKeepsNoMark ==
  /\ \A soi, eoi \in DOMAIN buffer : Soi(soi) /\ soi < eoi => buffer[eoi].part # "tail"
  /\ \/ (\A i \in DOMAIN buffer : ~Soi(i)) /\ buffer' = <<>>
     \/ \E soi \in DOMAIN buffer : FirstSoi(soi) /\ buffer' = SubSeq(buffer, soi, Len(buffer))

(* No EOI is left behind an SOI.  What remains begins with the SOI; without *)
(* one it is the last byte, which may be the first of a marker cut in two.  *)
NothingToCut ==
  /\ \A soi, eoi \in DOMAIN buffer : Soi(soi) /\ soi < eoi => buffer[eoi].part # "tail"
  /\ \/ /\ \A i \in DOMAIN buffer : ~Soi(i)
        /\ buffer' = IF buffer = <<>> THEN <<>> ELSE <<buffer[Len(buffer)]>>
     \/ \E soi \in DOMAIN buffer : FirstSoi(soi) /\ buffer' = SubSeq(buffer, soi, Len(buffer))

(* Mutant: any bytes at all end the silence, not just a frame. *)
SplitEndsSilence ==
  /\ pc = "split" /\ NothingToCut
  /\ pc' = IF items = <<>> THEN "recv" ELSE "yield"
  /\ silent' = 0
  /\ seen' = (seen \/ items # <<>>)
  /\ UNCHANGED <<capture, then, items, waited, pacer, watcher, history>>

SplitEnds ==
  /\ pc = "split" /\ NothingToCut
  /\ pc' = IF items = <<>> THEN "recv" ELSE "yield"
  /\ silent' = IF items = <<>> THEN silent ELSE 0
  /\ seen' = (seen \/ items # <<>>)
  /\ UNCHANGED <<capture, then, items, waited, pacer, watcher, history>>

(* splash_for_silence; "no" is CAPTURE_QUIET *)
SplashFor(silent_for, live) ==
  IF live THEN IF silent_for >= InterruptedAfter THEN "interrupted" ELSE "no"
  ELSE CASE silent_for >= GiveUp -> "interrupted"
         [] silent_for < GiveUp /\ silent_for >= ConnectingAfter -> "connecting"
         [] OTHER -> "no"

(* Mutant: a closed socket is given up before it is read to its end. *)
NothingToReadOnceClosed ==
  \/ conn \in {"none", "closed"}
  \/ wire = <<>> /\ waited >= ReadTimeout

(* read_chunk's None: no socket, a closed one read to its end, a timeout *)
NothingToRead ==
  /\ wire = <<>>
  /\ conn \in {"none", "closed"} \/ waited >= ReadTimeout

(* _splash_signal *)
HearNothing ==
  /\ pc = "recv" /\ NothingToRead
  /\ LET splash == SplashFor(silent, seen) IN
       IF splash = "no" THEN pc' = "reopen" /\ items' = <<>>
                        ELSE pc' = "yield" /\ items' = <<SplashItem(splash)>>
  /\ then' = "reopen" /\ waited' = 0
  /\ UNCHANGED <<capture, buffer, silent, seen, pacer, watcher, history>>

(* The consumer has dealt with everything yielded. *)
YieldReturns ==
  /\ pc = "yield" /\ items = <<>>
  /\ pc' = then /\ waited' = 0
  /\ patched' = (patched /\ then = "reopen")
  /\ UNCHANGED <<capture, then, buffer, items, silent, seen, pacer, watcher, newest, quiet>>

(* _reopen: the old socket is closed, whatever has arrived on it since the  *)
(* timeout, but the buffer stays.                                           *)
Reopen ==
  /\ pc = "reopen"
  /\ pc' = "backoff"
  /\ conn' = "none" /\ wire' = <<>> /\ sent' = "tail"
  /\ UNCHANGED <<up, captured, stream, pacer, watcher, history>>

BackoffEnds ==
  /\ pc = "backoff" /\ waited >= Backoff
  /\ pc' = "connect"
  /\ UNCHANGED <<capture, stream, pacer, watcher, history>>

--------------------------------------------------------------------------------
(* MjpegPacer and the sends *)

(* classify_frame *)
Classify(ticks, behind, size) ==
  IF FrameInterval > 0 /\ ticks < FrameInterval THEN "drop"
  ELSE CASE behind < size -> "send"
         [] behind >= size /\ ticks > SendTimeout -> "stale"
         [] OTHER -> "drop"

LastId(item) == item.pieces[Len(item.pieces)].id

(* _relay_frame, up to its sendall *)
Offer ==
  /\ pc = "yield" /\ items # <<>>
  /\ LET decision == Classify(elapsed, unsent, last_size) IN
       /\ pc' = CASE decision = "stale" -> "done"
                  [] decision = "send"  -> "sending"
                  [] decision = "drop"  -> "yield"
       /\ left' = IF decision = "send" THEN FrameSize ELSE 0
       /\ items' = IF decision = "stale" THEN <<>> ELSE Tail(items)
  /\ newest' = IF IsFrame(Head(items)) THEN LastId(Head(items)) ELSE newest
  /\ quiet' = 0
  /\ patched' = (patched /\ ~IsFrame(Head(items)))
  /\ UNCHANGED <<capture, then, buffer, silent, seen, waited, elapsed, last_size, watcher>>

SendSome ==
  /\ pc = "sending" /\ viewer # "gone"
  /\ left > 0 /\ unsent < ViewerRoom
  /\ left' = left - 1 /\ unsent' = unsent + 1
  /\ UNCHANGED <<capture, pc, stream, elapsed, last_size, viewer, history>>

(* note_sent *)
SendEnds ==
  /\ pc = "sending" /\ left = 0
  /\ elapsed' = 0 /\ last_size' = FrameSize
  /\ pc' = "yield"
  /\ UNCHANGED <<capture, stream, left, watcher, history>>

(* Mutant: a failed send is not the end of the response. *)
SendFailsGoesOn ==
  /\ pc = "sending" /\ viewer = "gone"
  /\ pc' = "yield" /\ left' = 0
  /\ UNCHANGED <<capture, stream, elapsed, last_size, watcher, history>>

(* BrokenPipeError or ConnectionResetError ends the response. *)
SendFails ==
  /\ pc = "sending" /\ viewer = "gone"
  /\ pc' = "done" /\ items' = <<>> /\ left' = 0
  /\ UNCHANGED <<capture, then, buffer, silent, seen, waited, elapsed, last_size,
                 watcher, history>>

--------------------------------------------------------------------------------
(* The relay blocks in a recv with nothing to read, in the back-off's sleep *)
(* and in a sendall the viewer leaves no room for.                          *)
Blocked ==
  \/ pc = "recv" /\ conn = "open" /\ wire = <<>> /\ waited < ReadTimeout
  \/ pc = "backoff" /\ waited < Backoff
  \/ pc = "sending" /\ viewer # "gone" /\ left > 0 /\ unsent = ViewerRoom

Tick ==
  /\ Blocked /\ sent = "tail"
  /\ silent' = Older(silent, GiveUp)
  /\ waited' = IF pc \in {"recv", "backoff"} THEN waited + 1 ELSE waited
  /\ elapsed' = Older(elapsed, SendTimeout + 1)
  /\ quiet' = IF pc = "sending" THEN quiet ELSE Older(quiet, LongestQuiet + 1)
  /\ UNCHANGED <<capture, pc, then, buffer, items, seen, last_size, left, watcher,
                 newest, patched>>

Relay ==
  \/ Connect \/ Receive \/ CutFrame \/ SplitEnds
  \/ HearNothing \/ YieldReturns \/ Reopen \/ BackoffEnds
  \/ Offer \/ SendSome \/ SendEnds \/ SendFails
Capture == CaptureBegins \/ CaptureGoesOn \/ CaptureCloses \/ CaptureComesBack
Viewer == ViewerTakes \/ ViewerSticks \/ ViewerGoes

Next == Relay \/ Capture \/ Viewer \/ Tick

Spec == Init /\ [][Next]_vars

(* The relay's thread runs when it can, the clock runs, a frame begun is    *)
(* finished or cut, and a viewer that reads goes on reading.                *)
FairSpec ==
  /\ Spec
  /\ WF_vars(Relay) /\ WF_vars(Tick)
  /\ WF_vars(sent # "tail" /\ (CaptureGoesOn \/ CaptureCloses))
  /\ WF_vars(ViewerTakes)

--------------------------------------------------------------------------------
(* Properties *)

IsWhole(pieces) ==
  /\ Len(pieces) = 3 /\ \A i \in DOMAIN pieces : pieces[i].id = pieces[1].id
  /\ pieces[1].part = "mark" /\ pieces[2].part = "head" /\ pieces[3].part = "tail"

Frames == {i \in DOMAIN items : IsFrame(items[i])}

(* Across any number of reconnects the viewer is offered every frame at     *)
(* most once and in the order they were captured.                           *)
InOrder ==
  \A i \in Frames : /\ LastId(items[i]) > newest
                    /\ \A j \in Frames : j < i => LastId(items[j]) < LastId(items[i])

(* Splitting never runs two frames together on one connection: only the     *)
(* first frame after a reconnect can be anything but a frame as captured.   *)
StitchedOnlyAtReconnect ==
  \A i \in Frames : IsWhole(items[i].pieces) \/ (i = 1 /\ patched)

(* Why these two hold.  What was sent and not yet cut out is in the order it *)
(* was captured in: each mark before anything of a later frame, each other  *)
(* piece right behind the one it follows in its frame.                      *)
Stream == buffer \o wire
Unfinished(s) == s # <<>> /\ s[Len(s)].part # "tail"
NoTail(s) == \A i \in DOMAIN s : s[i].part # "tail"

AsCaptured(s) ==
  /\ \A i, j \in DOMAIN s : i < j =>
       s[i].id <= s[j].id /\ (s[j].part = "mark" => s[i].id < s[j].id)
  /\ \A j \in DOMAIN s : s[j].part # "mark" =>
       /\ j > 1 /\ s[j - 1].id = s[j].id
       /\ s[j - 1].part # "tail" /\ s[j].part = Behind(s[j - 1].part)

(* What was offered, what is yielded and what is still to come follow each   *)
(* other.                                                                   *)
Numbered ==
  /\ AsCaptured(Stream)
  /\ newest <= captured
  /\ \A i \in DOMAIN Stream : newest < Stream[i].id /\ Stream[i].id <= captured
  /\ \A i \in Frames : /\ items[i].pieces # <<>> /\ LastId(items[i]) <= captured
                       /\ \A j \in DOMAIN Stream : LastId(items[i]) < Stream[j].id

(* The first frame of a reconnect is not cut out yet. *)
PatchToCome ==
  patched /\ Frames = {} /\ ~(pc \in {"yield", "sending"} /\ then = "recv")

(* A frame whose tail never comes is the end of a connection: another mark   *)
(* follows it on the next one only.                                         *)
Orphans ==
  /\ \A i \in DOMAIN Stream :
       i > 1 /\ Stream[i].part = "mark" /\ Stream[i - 1].part # "tail" =>
         PatchToCome /\ \A j \in 1 .. i : Stream[j].part # "tail"
  /\ conn = "open" /\ sent = "tail" /\ Unfinished(Stream) =>
       PatchToCome /\ wire = <<>> /\ pc # "split"

(* Where the relay is, and what it holds there. *)
Phases ==
  /\ sent # "tail" => /\ conn = "open" /\ Stream # <<>>
                      /\ Stream[Len(Stream)] = [id |-> captured, part |-> sent]
  /\ pc # "split" => NoTail(buffer)
  /\ pc = "split" => then = "recv" /\ (items = <<>> => buffer # <<>>)
  /\ pc = "split" \/ (pc \in {"yield", "sending"} /\ then = "recv") =>
       \A i \in DOMAIN items : IsFrame(items[i])
  /\ pc \in {"connect", "recv", "reopen", "backoff"} => items = <<>>
  /\ pc \in {"backoff", "connect"} => conn = "none" /\ wire = <<>>

(* How long nothing was offered, at each place of the loop: the silence is   *)
(* looked at once in a cycle, and a chunk without a frame does not start    *)
(* the wait for one over.                                                   *)
Patience ==
  /\ pc \in {"connect", "recv", "split", "reopen", "backoff"} /\ silent < GiveUp =>
       quiet <= silent
  /\ pc \in {"split", "reopen"} => waited = 0
  /\ pc = "reopen" => quiet <= InterruptedAfter
  /\ pc = "backoff" => waited <= Backoff /\ quiet <= InterruptedAfter + waited
  /\ pc = "connect" => quiet <= InterruptedAfter + Backoff
  /\ pc = "recv" => /\ waited <= ReadTimeout
                    /\ \/ quiet <= InterruptedAfter + Backoff + waited
                       \/ conn # "open" \/ sent # "tail" \/ wire # <<>>
  /\ pc = "sending" \/ (pc = "yield" /\ items = <<>>) => quiet = 0
  /\ quiet <= LongestQuiet

(* The wire, the buffer and the responses are what they should be, every    *)
(* frame is offered once and in its turn, and as it was captured but for    *)
(* the first of a reconnect (extract_jpeg_frames, CaptureStream.frames).    *)
RelayInv ==
  /\ TypeOK /\ InOrder /\ StitchedOnlyAtReconnect
  /\ Numbered /\ Orphans /\ Phases /\ Patience

(* While the capture is silent the viewer is told so in time: it is never   *)
(* left with the same picture for longer than the thresholds allow.         *)
NeverFrozen == quiet <= LongestQuiet

(* The frames that have come in to the end and are not offered yet. *)
TailsOf(s) == {s[i].id : i \in {j \in DOMAIN s : s[j].part = "tail"}}
Held == TailsOf(Stream) \cup {LastId(items[i]) : i \in Frames}

(* No frame goes missing between the capture and the pacer, however the      *)
(* reads cut it up: it is held until it is offered.  The exceptions are      *)
(* what arrives between a timeout and the close it leads to, and the end    *)
(* of the response (extract_jpeg_frames, CaptureStream.frames).             *)
NoFrameLost ==
  [][pc' # "done" =>
       \A n \in Held : \/ n \in Held'
                      \/ n = newest'
                      \/ (pc = "reopen" /\ n \in TailsOf(wire))]_vars

(* A frame that has reached the socket the relay is reading from is offered *)
(* to a viewer who is there, even if the capture closes behind it.          *)
WholeFramesAreOffered ==
  \A n \in 1 .. MaxFrame :
    (then = "recv" /\ \E i \in DOMAIN wire : wire[i] = [id |-> n, part |-> "tail"])
      ~> (newest >= n \/ pc = "done" \/ viewer # "reading")

(* The thread of a viewer who went away ends, whether or not the camera     *)
(* delivers anything.                                                       *)
GoneViewerEnds == viewer = "gone" ~> pc = "done"

(* What the docstring of CaptureStream says: a (CAPTURE_FRAME, jpeg) for    *)
(* each real frame.                                                         *)
OnlyRealFrames == \A i \in Frames : IsWhole(items[i].pieces)

================================================================================
