---------------------------- MODULE WebRtcViewers ----------------------------
(***************************************************************************)
(* The WebRTC server: its viewers, what each of them is shown, and the     *)
(* h264 feed it opens while somebody watches.                              *)
(* src/v4l2-mpp/apps/stream-webrtc/main.cpp, with the feed of              *)
(* common/stream-common/h264_stream.h.                                     *)
(*                                                                         *)
(* One thread runs the loop: poll, one signalling connection, one read of  *)
(* the feed, pings, clean-up, the feed's own state, splashes.  Every part  *)
(* of it that walks the list of clients holds g_clients_mutex and is a     *)
(* step; the WebRTC library's callbacks, on threads of their own, come     *)
(* between any two.  A tick is one second: PING_INTERVAL_MS,               *)
(* SPLASH_RESEND_MS, SPLASH_FLUSH_MS and the timeout of poll.              *)
(***************************************************************************)
EXTENDS Naturals, FiniteSets

CONSTANTS
  Viewers,
  MaxClients,        \* g_max_clients
  Timeout,           \* CONNECT_TIMEOUT_MS, PONG_TIMEOUT_MS, GIVE_UP_CONNECTING_MS
  ConnectingAfter,   \* CONNECTING_AFTER_SILENT_MS
  InterruptedAfter,  \* INTERRUPTED_AFTER_SILENT_MS
  SessionTimeout     \* the recycle time a user may choose

ASSUME ViewersAssumption ==
  /\ IsFiniteSet(Viewers) /\ MaxClients \in Nat
  /\ {Timeout, ConnectingAfter, InterruptedAfter, SessionTimeout} \subseteq Nat \ {0}
  /\ Timeout > 1   \* PING_INTERVAL_MS < PONG_TIMEOUT_MS
  /\ ConnectingAfter <= Timeout /\ ConnectingAfter <= InterruptedAfter

(* The longest a live picture may stand still: the silence that counts as   *)
(* an interruption, the splash cadence, and one poll.                       *)
Frozen == InterruptedAfter + 2

(* Ages are counted up to the largest threshold they are compared with; the *)
(* recycle time is minutes, or less than the thirty seconds of Timeout.     *)
Longest == IF SessionTimeout > Timeout THEN SessionTimeout ELSE Timeout

VARIABLES
  client,   \* each viewer's Client, stage "out" for one that is not in g_clients
  recycle,  \* g_session_timeout_s, 0 for never
  loop,     \* where the main thread is
  ready,    \* poll found the feed readable
  slept,    \* poll has waited its second
  resend,   \* now - g_last_splash
  feed,     \* g_h264_stream: "closed", "fresh" (nothing sent yet), "open", "hungup"
  pending,  \* the picture that waits in it: "none", "key", "delta"
  camera    \* a capture daemon listens

server == <<loop, ready, slept, resend>>
source == <<feed, pending, camera>>
vars   == <<client, recycle, server, source>>

Stages == {"out", "new", "agreed", "track", "channel", "dead"}
Client == [
  stage : Stages,                 \* how far its connection is; "dead": Closed or Failed
  keepAlive : BOOLEAN, closing : BOOLEAN, seen : BOOLEAN,
  shut : BOOLEAN,                 \* pc->close() was called
  start : 0 .. Longest,           \* the ages of start_time,
  live : 0 .. InterruptedAfter,   \* last_live_frame,
  pong : 0 .. Timeout,            \* last_pong,
  ping : 0 .. 1,                  \* last_ping
  flush : 0 .. 1,                 \* and of the start of the close
  browser : {"healthy", "free", "gone"},  \* answers at once, when it likes, never
  pinged : BOOLEAN,               \* a ping it may still answer
  shown : {"nothing", "live", "connecting", "interrupted"}, \* history: its last picture
  still : 0 .. Frozen + 1,        \* history: how long it has had no newer one
  answered : BOOLEAN ]            \* history: it has answered a ping

Out == [stage |-> "out", keepAlive |-> FALSE, closing |-> FALSE, seen |-> FALSE,
        shut |-> FALSE, start |-> 0, live |-> 0, pong |-> 0, ping |-> 1, flush |-> 0,
        browser |-> "free", pinged |-> FALSE, shown |-> "nothing", still |-> 0,
        answered |-> FALSE]

Listed   == {v \in Viewers : client[v].stage # "out"}
IsOpen(c) == c.stage \in {"track", "channel"}
Watched  == \E v \in Viewers : IsOpen(client[v])

TypeOK ==
  /\ client \in [Viewers -> Client]
  /\ Cardinality(Listed) <= MaxClients
  /\ recycle \in {0, SessionTimeout}
  /\ loop \in {"poll", "accept", "read", "ping", "cleanup", "feed", "splash"}
  /\ ready \in BOOLEAN /\ slept \in BOOLEAN /\ resend \in 0 .. 1
  /\ feed \in {"closed", "fresh", "open", "hungup"}
  /\ pending \in {"none", "key", "delta"} /\ camera \in BOOLEAN

Init ==
  /\ client = [v \in Viewers |-> Out]
  /\ recycle \in {0, SessionTimeout}
  /\ loop = "poll" /\ ready = FALSE /\ slept = FALSE /\ resend = 0
  /\ feed = "closed" /\ pending = "none" /\ camera \in BOOLEAN

Each(F(_)) == client' = [v \in Viewers |-> F(client[v])]
Sat(n, top) == IF n < top THEN n + 1 ELSE top

--------------------------------------------------------------------------------
(* What a viewer is sent.  send_to_client reaches one whose track is open.   *)

Show(c, what) ==
  IF IsOpen(c) THEN [c EXCEPT !.shown = what, !.still = 0] ELSE c

(* A delta picture shows something behind the live picture it refers to. *)
ShowFrame(c, frame) ==
  IF frame = "key" \/ c.shown = "live"
  THEN [c EXCEPT !.shown = "live", !.still = 0]
  ELSE c

(* Mutant: live pictures reach a viewer that was sent its goodbye. *)
RelayToClosing(c, frame) ==
  IF ~IsOpen(c) THEN c
  ELSE [ShowFrame(c, frame) EXCEPT !.live = 0, !.seen = @ \/ frame = "key"]

(* relay_frame_to *)
Relay(c, frame) ==
  IF c.closing \/ ~IsOpen(c) THEN c
  ELSE [ShowFrame(c, frame) EXCEPT !.live = 0, !.seen = @ \/ frame = "key"]

(* Mutant: only a viewer without a first picture is told something. *)
SplashWhileConnecting(c) ==
  IF c.seen \/ c.start < ConnectingAfter THEN "quiet"
  ELSE IF c.start < Timeout THEN "connecting" ELSE "interrupted"

(* splash_for_viewer, splash_while_connecting *)
SplashFor(c) ==
  CASE ~c.seen /\ c.start >= Timeout -> "interrupted"
    [] ~c.seen /\ c.start \in ConnectingAfter .. Timeout - 1 -> "connecting"
    [] c.seen /\ c.live >= InterruptedAfter -> "interrupted"
    [] OTHER -> "quiet"

BeginClose(c) == Show([c EXCEPT !.closing = TRUE, !.flush = 0], "interrupted")

AdvanceClose(c) ==
  IF c.flush >= 1 THEN [c EXCEPT !.shut = TRUE] ELSE Show(c, "interrupted")

SendPing(c) ==
  IF c.ping >= 1 THEN [c EXCEPT !.ping = 0, !.pinged = c.browser # "gone"] ELSE c

(* Mutant: every viewer's silence is forgiven. *)
ForgiveSilence(c) ==
  CASE c.closing -> AdvanceClose(c)
    [] ~c.closing /\ recycle > 0 /\ c.start >= recycle -> BeginClose(c)
    [] ~c.closing /\ ~(recycle > 0 /\ c.start >= recycle) /\ c.stage # "channel" ->
         IF c.start >= Timeout THEN [c EXCEPT !.shut = TRUE] ELSE c
    [] OTHER -> SendPing([c EXCEPT !.pong = IF @ >= Timeout THEN 0 ELSE @])

(* The body of ping_clients. *)
PingClient(c) ==
  IF c.closing THEN AdvanceClose(c)
  ELSE IF recycle > 0 /\ c.start >= recycle THEN BeginClose(c)
  ELSE IF c.stage # "channel" THEN
    IF c.start >= Timeout THEN [c EXCEPT !.shut = TRUE] ELSE c
  ELSE IF c.pong >= Timeout /\ c.keepAlive THEN BeginClose(c)
  ELSE SendPing([c EXCEPT !.pong = IF @ >= Timeout THEN 0 ELSE @])

CleanupClient(c) == IF c.stage = "dead" THEN Out ELSE c

--------------------------------------------------------------------------------
(* The main loop *)

(* poll comes back for a signalling connection, for the feed, or after its  *)
(* second.                                                                  *)
PollReturns(signalling) ==
  /\ loop = "poll"
  /\ ready' = (pending # "none" \/ feed = "hungup")
  /\ signalling \/ ready' \/ slept
  /\ loop' = IF signalling THEN "accept" ELSE IF ready' THEN "read" ELSE "ping"
  /\ slept' = FALSE
  /\ UNCHANGED <<client, recycle, resend, source>>

Handled ==
  /\ loop = "accept"
  /\ loop' = IF ready THEN "read" ELSE "ping"
  /\ UNCHANGED <<recycle, ready, slept, resend, source>>

Joins(v, list, stage) ==
  \E keep \in BOOLEAN, browser \in {"healthy", "free"} :
    client' = [list EXCEPT ![v] = [Out EXCEPT !.stage = stage, !.keepAlive = keep,
                                              !.browser = browser]]

Room(list) == Cardinality({v \in Viewers : list[v].stage # "out"}) < MaxClients

(* handle_request, one action for each type.  A connection that brings      *)
(* nothing of use, or a candidate, changes nothing here.                    *)
HandleNothing == Handled /\ UNCHANGED client

(* Mutant: one viewer more than allowed. *)
HandleRequestUnbounded(v) ==
  /\ Handled
  /\ client[v].stage = "out"
  /\ Joins(v, client, "new")

HandleRequest(v) ==
  /\ Handled
  /\ client[v].stage = "out" /\ Room(client)
  /\ Joins(v, client, "new")

HandleAnswer(v) ==
  /\ Handled
  /\ client[v].stage = "new" /\ ~client[v].shut
  /\ client' = [client EXCEPT ![v].stage = "agreed"]

(* An offer makes room first. *)
HandleOffer(v) ==
  LET list == [w \in Viewers |-> CleanupClient(client[w])] IN
  /\ Handled
  /\ list[v].stage = "out"
  /\ IF Room(list) THEN Joins(v, list, "agreed") ELSE client' = list

(* Mutant: a feed that ended keeps its descriptor. *)
ReadKeepsEndedFeed ==
  /\ loop = "read" /\ loop' = "ping"
  /\ Each(LAMBDA c : IF pending = "none" THEN c ELSE Relay(c, pending))
  /\ pending' = "none"
  /\ UNCHANGED <<recycle, ready, slept, resend, feed, camera>>

(* h264_stream_process and send_frame; a read that finds the end closes. *)
Read ==
  /\ loop = "read" /\ loop' = "ping"
  /\ Each(LAMBDA c : IF pending = "none" THEN c ELSE Relay(c, pending))
  /\ pending' = "none"
  /\ feed' = IF pending = "none" THEN "closed" ELSE feed
  /\ UNCHANGED <<recycle, ready, slept, resend, camera>>

Ping ==
  /\ loop = "ping" /\ loop' = "cleanup"
  /\ Each(PingClient)
  /\ UNCHANGED <<recycle, ready, slept, resend, source>>

Cleanup ==
  /\ loop = "cleanup" /\ loop' = "feed"
  /\ Each(CleanupClient)
  /\ UNCHANGED <<recycle, ready, slept, resend, source>>

(* h264_stream_open, which may find no daemon, and h264_stream_close *)
OpenOrCloseFeed ==
  /\ loop = "feed" /\ loop' = "splash"
  /\ feed' = CASE Watched /\ feed = "closed" /\ camera -> "fresh"
               [] ~Watched -> "closed"
               [] OTHER -> feed
  /\ pending' = IF feed' = "closed" THEN "none" ELSE pending
  /\ UNCHANGED <<client, recycle, ready, slept, resend, camera>>

(* maybe_send_splash and deliver_splashes *)
Splash ==
  /\ loop = "splash" /\ loop' = "poll"
  /\ IF Watched /\ resend >= 1
     THEN /\ resend' = 0
          /\ Each(LAMBDA c : IF c.closing \/ SplashFor(c) = "quiet" THEN c
                             ELSE Show(c, SplashFor(c)))
     ELSE UNCHANGED <<resend, client>>
  /\ UNCHANGED <<recycle, ready, slept, source>>

--------------------------------------------------------------------------------
(* The library's threads and the browsers *)

Browser(v, c) ==
  /\ client' = [client EXCEPT ![v] = c]
  /\ UNCHANGED <<recycle, server, source>>

TrackOpens(v) ==
  /\ client[v].stage = "agreed" /\ client[v].browser # "gone" /\ ~client[v].shut
  /\ Browser(v, [client[v] EXCEPT !.stage = "track"])

ChannelOpens(v) ==
  /\ client[v].stage = "track" /\ client[v].browser # "gone" /\ ~client[v].shut
  /\ Browser(v, [client[v] EXCEPT !.stage = "channel"])

(* Mutant: an answer is not noted. *)
PongIgnored(v) ==
  /\ client[v].stage = "channel" /\ client[v].pinged /\ client[v].browser # "gone"
  /\ Browser(v, [client[v] EXCEPT !.pinged = FALSE, 
                                     !.answered = client[v].browser = "healthy"])

(* onMessage *)
Pong(v) ==
  /\ client[v].stage = "channel" /\ client[v].pinged /\ client[v].browser # "gone"
  /\ Browser(v, [client[v] EXCEPT !.pong = 0, !.pinged = FALSE, 
                                     !.answered = client[v].browser = "healthy"])

(* A browser is gone without a word. *)
Vanish(v) ==
  /\ client[v].stage \notin {"out", "dead"} /\ client[v].browser = "free"
  /\ Browser(v, [client[v] EXCEPT !.browser = "gone", !.pinged = FALSE])

(* The library ends a connection the server closed, or one whose browser     *)
(* said goodbye or is gone.  Nothing else of the client is looked at again.  *)
ConnectionEnds(v) ==
  /\ client[v].stage \notin {"out", "dead"}
  /\ client[v].shut \/ client[v].browser # "healthy"
  /\ Browser(v, [Out EXCEPT !.stage = "dead", !.keepAlive = client[v].keepAlive,
                            !.browser = client[v].browser])

(* The capture daemon; the first picture of a connection is a key picture. *)
CameraSends(picture) ==
  /\ feed \in {"fresh", "open"} /\ pending = "none"
  /\ feed = "fresh" => picture = "key"
  /\ pending' = picture /\ feed' = "open"
  /\ UNCHANGED <<client, recycle, server, camera>>

CameraGoes ==
  /\ camera /\ camera' = FALSE
  /\ feed' = IF feed \in {"fresh", "open"} THEN "hungup" ELSE feed
  /\ UNCHANGED <<client, recycle, server, pending>>

CameraComes ==
  /\ ~camera /\ camera' = TRUE
  /\ UNCHANGED <<client, recycle, server, feed, pending>>

Older(c) ==
  IF c.stage \in {"out", "dead"} THEN c
  ELSE [c EXCEPT !.start = Sat(@, Longest), !.live = Sat(@, InterruptedAfter),
                 !.pong = Sat(@, Timeout), !.ping = 1,
                 !.flush = IF c.closing THEN 1 ELSE 0,
                 !.still = IF IsOpen(c) /\ c.shown \in {"nothing", "live"}
                           THEN Sat(@, Frozen + 1) ELSE 0]

(* A second passes, at most one in a poll.  The rest of the loop takes no    *)
(* time, which asks of the signallers that they send their line at once.    *)
(* A healthy browser answers a ping within the second.                      *)
Tick ==
  /\ loop = "poll" /\ ~slept
  /\ \A v \in Viewers : client[v].browser = "healthy" => ~client[v].pinged
  /\ slept' = TRUE
  /\ resend' = 1
  /\ Each(Older)
  /\ UNCHANGED <<recycle, loop, ready, source>>

--------------------------------------------------------------------------------
Loop ==
  \/ \E signalling \in BOOLEAN : PollReturns(signalling)
  \/ HandleNothing
  \/ \E v \in Viewers : HandleRequest(v) \/ HandleAnswer(v) \/ HandleOffer(v)
  \/ Read \/ Ping \/ Cleanup \/ OpenOrCloseFeed \/ Splash

Library(v) == TrackOpens(v) \/ ChannelOpens(v) \/ Pong(v) \/ Vanish(v) \/ ConnectionEnds(v)

Next ==
  \/ Loop
  \/ \E v \in Viewers : Library(v)
  \/ \E picture \in {"key", "delta"} : CameraSends(picture)
  \/ CameraGoes \/ CameraComes
  \/ Tick

Spec == Init /\ [][Next]_vars

(* The thread runs on and its clock with it; the library ends what it was    *)
(* told to end; a healthy browser answers; key pictures keep coming.         *)
FairSpec ==
  /\ Spec
  /\ WF_vars(Loop) /\ SF_vars(Tick)
  /\ \A v \in Viewers : /\ WF_vars(client[v].shut /\ ConnectionEnds(v))
                        /\ WF_vars(client[v].browser = "healthy" /\ Pong(v))
  /\ SF_vars(CameraSends("key"))

--------------------------------------------------------------------------------
(* Properties *)

(* No tile freezes: until the server closes its connection, a viewer whose   *)
(* track is open sees a live picture of the last few seconds or a message    *)
(* (main.cpp:40-43, 271-273).                                                *)
NeverFrozen ==
  \A v \in Viewers :
    IsOpen(client[v]) /\ ~client[v].shut => client[v].still <= Frozen

(* Once the server says goodbye, that message is the last thing on the tile: *)
(* neither live video nor a promise covers it (main.cpp:174-175, 287-288).   *)
GoodbyeIsLast ==
  \A v \in Viewers :
    IsOpen(client[v]) /\ client[v].closing => client[v].shown \in {"interrupted", "nothing"}

(* A viewer that has answered a ping and goes on answering is never sent     *)
(* away, unless the user asked for sessions to be recycled.                  *)
AnsweringViewerStays ==
  \A v \in Viewers :
    client[v].browser = "healthy" /\ client[v].answered /\ recycle = 0
      => ~client[v].closing /\ ~client[v].shut

(* Why these three hold, for one client.  A second passes in the poll only,  *)
(* so between two of them the clients are pinged and splashes are sent:     *)
(* Awake, when the pings of the last second may still be to come; Due, when  *)
(* its splashes are, and will be sent.                                      *)
Awake == slept \/ loop \in {"accept", "read", "ping"}
Due == (slept \/ loop # "poll") /\ resend = 1

(* Until its track opens a viewer is shown nothing and not pinged. *)
Unreached(c) ==
  /\ ~IsOpen(c) => c.shown = "nothing" /\ c.still = 0 /\ ~c.seen
  /\ c.pinged \/ c.answered => c.stage = "channel"
  /\ c.pinged => c.browser # "gone"

(* A viewer being sent away is shown the goodbye by the ping after its track  *)
(* opens, unless it is shut by then.  One shut without it never came so far.  *)
SentAway(c, awake) ==
  /\ c.closing => c.shown \in {"nothing", "interrupted"}
  /\ c.closing /\ ~c.shut => c.flush = 0 \/ awake
  /\ c.closing /\ ~c.shut /\ c.shown = "nothing" => c.still <= c.flush
  /\ c.shut /\ ~c.closing => c.stage # "channel"

(* A picture is no older than the silence its splash is chosen by, and that  *)
(* is below the threshold or a splash is due.                               *)
ToldInTime(c, due) ==
  /\ c.shown \in {"connecting", "interrupted"} => c.still = 0
  /\ IsOpen(c) /\ c.shown = "live" =>
       c.seen /\ c.still <= c.live /\ (c.live >= InterruptedAfter => due)
  /\ IsOpen(c) /\ c.shown = "nothing" /\ ~c.closing =>
       /\ ~c.seen /\ c.still <= c.start /\ c.still <= ConnectingAfter
       /\ c.start >= ConnectingAfter => c.still = 0 \/ due

(* A healthy browser is waited for, so its answer is never older than a      *)
(* second, and the ping that asks for the next is out or about to be.       *)
Answering(c, awake) ==
  c.browser = "healthy" /\ recycle = 0 =>
    /\ c.pinged \/ c.answered => ~c.closing /\ ~c.shut
    /\ c.pinged => c.pong < Timeout
    /\ c.answered => \/ c.pong = 0
                     \/ c.pong = 1 /\ (c.pinged \/ (c.ping = 1 /\ awake))

(* Nobody is kept past its time: once the pings of a second are out, one that *)
(* is to be recycled, has not connected in time, or wants to be kept alive    *)
(* and has stopped answering, is being sent away.  last_pong begins with     *)
(* start_time and is never before it.                                       *)
Overdue(c) ==
  \/ recycle > 0 /\ c.start >= recycle
  \/ c.stage # "channel" /\ c.start >= Timeout
  \/ c.stage = "channel" /\ c.keepAlive /\ c.pong >= Timeout

LetGo(c, awake) ==
  /\ c.pong <= c.start
  /\ Overdue(c) => c.closing \/ c.shut \/ awake

WellKept(c, awake, due) ==
  /\ Unreached(c) /\ SentAway(c, awake) /\ LetGo(c, awake)
  /\ ToldInTime(c, due) /\ Answering(c, awake)

(* The list never holds more clients than it may (create_client), and each   *)
(* of them is pinged, told and sent away in time.                           *)
ViewersInv ==
  /\ TypeOK
  /\ slept => loop = "poll"
  /\ \A v \in Viewers : WellKept(client[v], Awake, Due)

(* A viewer that vanished leaves the list without the library's help if it   *)
(* asked to be kept alive, so its place is free again (main.cpp:90-91).  The  *)
(* place may be taken in the same step.                                      *)
DeadViewerLeaves ==
  \A v \in Viewers :
    client[v].browser = "gone" /\ client[v].keepAlive ~> client[v].browser # "gone"

(* While a capture daemon listens and a viewer watches, live pictures come   *)
(* back to it: the feed is opened anew after the daemon went and came back,  *)
(* and a message gives way to the next key picture.                          *)
LiveComesBack ==
  \A v \in Viewers :
    <>[](camera /\ IsOpen(client[v]) /\ ~client[v].closing)
      => []<>(client[v].shown = "live")

================================================================================
