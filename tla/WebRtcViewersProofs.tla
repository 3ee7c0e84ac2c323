-------------------------- MODULE WebRtcViewersProofs --------------------------
(***************************************************************************)
(* WebRtcViewers' safety properties, for any viewers, any limit on them    *)
(* and any thresholds in the order of main.cpp's.                          *)
(*                                                                         *)
(* What a part of the loop does, it does to one client at a time; so each  *)
(* of these functions is shown to keep a client WellKept, and the steps    *)
(* follow.                                                                 *)
(***************************************************************************)
EXTENDS WebRtcViewers, FiniteSetTheorems, TLAPS

USE ViewersAssumption

--------------------------------------------------------------------------------
(* One client *)

LEMMA ThresholdFacts ==
  /\ Timeout \in Nat /\ Timeout > 1
  /\ ConnectingAfter \in Nat /\ ConnectingAfter > 0
  /\ InterruptedAfter \in Nat /\ InterruptedAfter > 0
  /\ SessionTimeout \in Nat
  /\ ConnectingAfter <= Timeout /\ ConnectingAfter <= InterruptedAfter
  /\ Frozen = InterruptedAfter + 2 /\ Frozen \in Nat
  /\ Longest \in Nat /\ Longest >= Timeout /\ Longest >= SessionTimeout
  BY DEF Frozen, Longest

(* Zero is an age like any other. *)
LEMMA ZeroFacts ==
  /\ 0 \in 0 .. Timeout /\ 0 \in 0 .. InterruptedAfter /\ 0 \in 0 .. 1 /\ 1 \in 0 .. 1
  /\ 0 \in 0 .. Frozen + 1 /\ 0 \in 0 .. Longest
  BY ThresholdFacts

(* The fields of a client. *)
LEMMA ClientFacts ==
  ASSUME NEW c \in Client
  PROVE  /\ c.stage \in Stages /\ c.keepAlive \in BOOLEAN /\ c.closing \in BOOLEAN
         /\ c.seen \in BOOLEAN /\ c.shut \in BOOLEAN
         /\ c.start \in 0 .. Longest /\ c.live \in 0 .. InterruptedAfter
         /\ c.pong \in 0 .. Timeout /\ c.ping \in 0 .. 1 /\ c.flush \in 0 .. 1
         /\ c.browser \in {"healthy", "free", "gone"} /\ c.pinged \in BOOLEAN
         /\ c.shown \in {"nothing", "live", "connecting", "interrupted"}
         /\ c.still \in 0 .. Frozen + 1 /\ c.answered \in BOOLEAN
  BY DEF Client

LEMMA OutFacts ==
  /\ Out \in Client
  /\ recycle \in Nat => \A awake, due \in BOOLEAN : WellKept(Out, awake, due)
<1>1. Out \in Client
  BY ThresholdFacts DEF Out, Client, Stages
<1> QED BY <1>1, ThresholdFacts
        DEF Out, WellKept, Unreached, SentAway, LetGo, Overdue, ToldInTime, Answering, IsOpen

(* A new client, and one whose connection ended, are like one that is out. *)
LEMMA FreshFacts ==
  ASSUME NEW stage \in {"new", "agreed", "dead"}, NEW keep \in BOOLEAN,
         NEW browser \in {"healthy", "free", "gone"},
         NEW awake \in BOOLEAN, NEW due \in BOOLEAN, recycle \in Nat
  PROVE  LET c == [Out EXCEPT !.stage = stage, !.keepAlive = keep, !.browser = browser]
         IN  c \in Client /\ WellKept(c, awake, due)
<1> DEFINE c == [Out EXCEPT !.stage = stage, !.keepAlive = keep, !.browser = browser]
<1>1. c \in Client
  BY ZeroFacts DEF Out, Client, Stages
<1>2. WellKept(c, awake, due)
  BY ThresholdFacts DEF Out, WellKept, Unreached, SentAway, LetGo, Overdue, ToldInTime, Answering, IsOpen
<1> QED BY <1>1, <1>2

LEMMA ShowType ==
  ASSUME NEW c \in Client, NEW what \in {"connecting", "interrupted"}
  PROVE  Show(c, what) \in Client
<1>1. [c EXCEPT !.shown = what, !.still = 0] \in Client
  BY ZeroFacts DEF Client
<1> QED BY <1>1 DEF Show

LEMMA PingType ==
  ASSUME NEW c \in Client, NEW answers \in BOOLEAN
  PROVE  [c EXCEPT !.ping = 0, !.pinged = answers] \in Client
  BY ZeroFacts, Zenon DEF Client

LEMMA ShowFrameType ==
  ASSUME NEW c \in Client, NEW frame
  PROVE  ShowFrame(c, frame) \in Client
<1>1. [c EXCEPT !.shown = "live", !.still = 0] \in Client
  BY ZeroFacts DEF Client
<1> QED BY <1>1 DEF ShowFrame

LEMMA RelayKeeps ==
  ASSUME NEW c \in Client, NEW frame \in {"key", "delta"},
         NEW awake \in BOOLEAN, NEW due \in BOOLEAN, WellKept(c, awake, due)
  PROVE  Relay(c, frame) \in Client /\ WellKept(Relay(c, frame), awake, due)
<1>1. Relay(c, frame) \in Client
  <2> DEFINE d == ShowFrame(c, frame)
  <2>1. d \in Client
    BY ShowFrameType
  <2> HIDE DEF d
  <2>2. (d.seen \/ frame = "key") \in BOOLEAN
    OBVIOUS
  <2>3. [d EXCEPT !.live = 0, !.seen = @ \/ frame = "key"] \in Client
    BY <2>1, <2>2, ZeroFacts DEF Client
  <2> QED BY <2>3 DEF Relay, d
<1>2. CASE c.closing \/ ~IsOpen(c)
  BY <1>1, <1>2 DEF Relay
<1>3. CASE ~c.closing /\ IsOpen(c)
  <2> DEFINE d == Relay(c, frame)
  <2>1. /\ d.live = 0 /\ d.start = c.start
        /\ d.seen <=> c.seen \/ frame = "key"
        /\ d.stage = c.stage /\ d.keepAlive = c.keepAlive /\ d.closing = c.closing /\ d.shut = c.shut
        /\ d.pong = c.pong /\ d.ping = c.ping /\ d.flush = c.flush
        /\ d.browser = c.browser /\ d.pinged = c.pinged /\ d.answered = c.answered
        /\ \/ d.shown = "live" /\ d.still = 0 /\ (frame = "key" \/ c.shown = "live")
           \/ d.shown = c.shown /\ d.still = c.still /\ frame # "key" /\ c.shown # "live"
    BY <1>3, ThresholdFacts DEF Relay, ShowFrame, Client
  <2> HIDE DEF d
  <2>2. Unreached(d) /\ Answering(d, awake) /\ LetGo(d, awake)
    BY <1>3, <2>1 DEF WellKept, Unreached, Answering, LetGo, Overdue, IsOpen
  <2>3. SentAway(d, awake)
    BY <1>3, <2>1 DEF WellKept, SentAway
  <2>4. ToldInTime(d, due)
    <3>1. IsOpen(d) /\ ~d.closing
      BY <1>3, <2>1 DEF IsOpen
    <3>2. CASE d.shown = "live" /\ d.still = 0 /\ (frame = "key" \/ c.shown = "live")
      <4>1. d.seen
        BY <1>3, <2>1, <3>2 DEF WellKept, ToldInTime
      <4> QED BY <2>1, <3>2, <4>1, ThresholdFacts DEF ToldInTime
    <3>3. CASE d.shown = c.shown /\ d.still = c.still /\ frame # "key" /\ c.shown # "live"
      BY <1>3, <2>1, <3>1, <3>3 DEF WellKept, ToldInTime
    <3> QED BY <2>1, <3>2, <3>3
  <2> QED BY <1>1, <2>2, <2>3, <2>4 DEF WellKept, d
<1> QED BY <1>2, <1>3

(* After the splashes nothing is due. *)
LEMMA SplashKeeps ==
  ASSUME NEW c \in Client, NEW awake \in BOOLEAN, NEW due \in BOOLEAN,
         WellKept(c, awake, due)
  PROVE  LET d == IF c.closing \/ SplashFor(c) = "quiet" THEN c ELSE Show(c, SplashFor(c))
         IN  d \in Client /\ WellKept(d, awake, FALSE)
<1> USE ThresholdFacts, ClientFacts
<1>1. CASE c.closing
  BY <1>1 DEF WellKept, ToldInTime, SentAway
<1>2. CASE ~c.closing /\ SplashFor(c) = "quiet"
  <2>1. /\ ~c.seen => c.start < ConnectingAfter
        /\ c.seen => c.live < InterruptedAfter
    BY <1>2 DEF SplashFor
  <2> QED BY <1>2, <2>1 DEF WellKept, ToldInTime
<1>3. CASE ~c.closing /\ SplashFor(c) # "quiet"
  <2> DEFINE d == Show(c, SplashFor(c))
  <2>1. SplashFor(c) \in {"connecting", "interrupted"}
    BY <1>3 DEF SplashFor
  <2>2. d \in Client
    BY <2>1, ShowType
  <2>3. CASE ~IsOpen(c)
    BY <1>3, <2>3 DEF Show, WellKept, ToldInTime, Unreached
  <2>4. CASE IsOpen(c)
    <3>1. /\ d.shown \in {"connecting", "interrupted"} /\ d.still = 0
          /\ d.stage = c.stage /\ d.keepAlive = c.keepAlive /\ d.closing = c.closing /\ d.shut = c.shut
          /\ d.seen = c.seen /\ d.start = c.start /\ d.live = c.live
          /\ d.pong = c.pong /\ d.ping = c.ping /\ d.flush = c.flush
          /\ d.browser = c.browser /\ d.pinged = c.pinged /\ d.answered = c.answered
      BY <2>1, <2>4 DEF Show, Client
    <3> HIDE DEF d
    <3>2. WellKept(d, awake, FALSE)
      BY <1>3, <2>4, <3>1 DEF WellKept, Unreached, SentAway, LetGo, Overdue, ToldInTime, Answering, IsOpen
    <3> QED BY <1>3, <2>2, <3>2 DEF d
  <2> QED BY <2>3, <2>4
<1> QED BY <1>1, <1>2, <1>3

(* begin_close, advance_close: the goodbye is shown by a ping or not needed. *)
LEMMA GoodbyeKeeps ==
  ASSUME NEW c \in Client, NEW due \in BOOLEAN, WellKept(c, TRUE, due),
         c.browser = "healthy" /\ recycle = 0 => ~c.pinged /\ ~c.answered
  PROVE  /\ BeginClose(c) \in Client
         /\ ~c.closing => WellKept(BeginClose(c), FALSE, due)
         /\ AdvanceClose(c) \in Client
         /\ c.closing => WellKept(AdvanceClose(c), FALSE, due)
<1> DEFINE b == [c EXCEPT !.closing = TRUE, !.flush = 0]
<1>1. b \in Client
  BY ZeroFacts DEF Client
<1>2. [c EXCEPT !.shut = TRUE] \in Client
  BY DEF Client
<1>3. BeginClose(c) \in Client /\ AdvanceClose(c) \in Client
  <2> HIDE DEF b
  <2> QED BY <1>1, <1>2, ShowType DEF BeginClose, AdvanceClose, b
<1>4. ASSUME ~c.closing PROVE WellKept(BeginClose(c), FALSE, due)
  <2> DEFINE d == BeginClose(c)
  <2>1. /\ d.closing /\ d.flush = 0 /\ d.stage = c.stage
        /\ d.keepAlive = c.keepAlive /\ d.shut = c.shut
        /\ d.seen = c.seen /\ d.start = c.start /\ d.live = c.live
        /\ d.pong = c.pong /\ d.ping = c.ping
        /\ d.browser = c.browser /\ d.pinged = c.pinged /\ d.answered = c.answered
        /\ IsOpen(c) => d.shown = "interrupted" /\ d.still = 0
        /\ ~IsOpen(c) => d.shown = c.shown /\ d.still = c.still
    BY ZeroFacts DEF BeginClose, Show, Client, IsOpen
  <2> HIDE DEF d
  <2>2. WellKept(d, FALSE, due)
    BY <2>1 DEF WellKept, Unreached, SentAway, LetGo, Overdue, ToldInTime, Answering, IsOpen
  <2> QED BY <2>2 DEF d
<1>5. ASSUME c.closing PROVE WellKept(AdvanceClose(c), FALSE, due)
  <2> DEFINE d == AdvanceClose(c)
  <2>1. /\ d.closing = c.closing /\ d.flush = c.flush /\ d.stage = c.stage
        /\ d.keepAlive = c.keepAlive
        /\ d.seen = c.seen /\ d.start = c.start /\ d.live = c.live
        /\ d.pong = c.pong /\ d.ping = c.ping
        /\ d.browser = c.browser /\ d.pinged = c.pinged /\ d.answered = c.answered
    BY DEF AdvanceClose, Show, Client
  <2>2. /\ c.flush >= 1 => d.shut /\ d.shown = c.shown /\ d.still = c.still
        /\ ~(c.flush >= 1) => /\ d.shut = c.shut
                              /\ IsOpen(c) => d.shown = "interrupted" /\ d.still = 0
                              /\ ~IsOpen(c) => d.shown = c.shown /\ d.still = c.still
    BY DEF AdvanceClose, Show, Client
  <2> HIDE DEF d
  <2>3. c.flush \in 0 .. 1
    BY ClientFacts
  <2>4. WellKept(d, FALSE, due)
    BY <1>5, <2>1, <2>2, <2>3
       DEF WellKept, Unreached, SentAway, LetGo, Overdue, ToldInTime, Answering, IsOpen
  <2> QED BY <2>4 DEF d
<1> QED BY <1>3, <1>4, <1>5

(* After the pings nobody has one to come. *)
LEMMA PingKeeps ==
  ASSUME recycle \in Nat, NEW c \in Client, NEW due \in BOOLEAN, WellKept(c, TRUE, due)
  PROVE  PingClient(c) \in Client /\ WellKept(PingClient(c), FALSE, due)
<1> USE ThresholdFacts, ClientFacts
<1> DEFINE e == [c EXCEPT !.pong = IF @ >= Timeout THEN 0 ELSE @]
<1>1. CASE c.closing
  <2>1. c.browser = "healthy" /\ recycle = 0 => ~c.pinged /\ ~c.answered
    BY <1>1 DEF WellKept, Answering
  <2> QED BY <1>1, <2>1, GoodbyeKeeps DEF PingClient
<1>2. CASE ~c.closing /\ recycle > 0 /\ c.start >= recycle
  <2>1. recycle # 0
    BY <1>2
  <2> QED BY <1>2, <2>1, GoodbyeKeeps DEF PingClient
<1>3. CASE ~c.closing /\ ~(recycle > 0 /\ c.start >= recycle) /\ c.stage # "channel"
  <2>1. ~c.pinged /\ ~c.answered
    BY <1>3 DEF WellKept, Unreached
  <2>2. /\ Unreached(c) /\ SentAway(c, FALSE) /\ ToldInTime(c, due) /\ Answering(c, FALSE)
        /\ c.pong <= c.start
    BY <1>3, <2>1 DEF WellKept, Unreached, SentAway, LetGo, ToldInTime, Answering
  <2> DEFINE d == [c EXCEPT !.shut = TRUE]
  <2>3. d \in Client
    BY DEF Client
  <2>4. /\ d.shut /\ d.closing = c.closing /\ d.flush = c.flush /\ d.stage = c.stage
        /\ d.keepAlive = c.keepAlive
        /\ d.seen = c.seen /\ d.start = c.start /\ d.live = c.live
        /\ d.shown = c.shown /\ d.still = c.still /\ d.pong = c.pong /\ d.ping = c.ping
        /\ d.browser = c.browser /\ d.pinged = c.pinged /\ d.answered = c.answered
    BY DEF Client
  <2> HIDE DEF d
  <2>5. WellKept(d, FALSE, due)
    BY <1>3, <2>1, <2>2, <2>4
       DEF WellKept, Unreached, SentAway, LetGo, ToldInTime, Answering, IsOpen
  <2>6. CASE c.start < Timeout
    <3>1. ~Overdue(c)
      BY <1>3, <2>6 DEF Overdue
    <3>2. WellKept(c, FALSE, due)
      BY <2>2, <3>1 DEF WellKept, LetGo
    <3>3. PingClient(c) = c
      BY <1>3, <2>6 DEF PingClient
    <3> QED BY <3>2, <3>3
  <2>7. CASE c.start >= Timeout
    <3>1. PingClient(c) = d
      BY <1>3, <2>7 DEF PingClient, d
    <3> QED BY <2>3, <2>5, <3>1
  <2>8. c.start < Timeout \/ c.start >= Timeout
    <3>1. c.start \in 0 .. Longest
      BY ClientFacts
    <3> QED BY <3>1
  <2> QED BY <2>6, <2>7, <2>8
<1>4. CASE /\ ~c.closing /\ ~(recycle > 0 /\ c.start >= recycle) /\ c.stage = "channel"
           /\ c.pong >= Timeout /\ c.keepAlive
  <2>1. c.browser = "healthy" /\ recycle = 0 => ~c.pinged /\ ~c.answered
    BY <1>4 DEF WellKept, Answering
  <2> QED BY <1>4, <2>1, GoodbyeKeeps DEF PingClient
<1>5. CASE /\ ~c.closing /\ ~(recycle > 0 /\ c.start >= recycle) /\ c.stage = "channel"
           /\ ~(c.pong >= Timeout /\ c.keepAlive)
  <2>1. (IF c.pong >= Timeout THEN 0 ELSE c.pong) \in 0 .. Timeout
    OBVIOUS
  <2>2. e \in Client
    BY <2>1 DEF Client
  <2>3. /\ e.pong = (IF c.pong >= Timeout THEN 0 ELSE c.pong)
        /\ e.closing = c.closing /\ e.flush = c.flush /\ e.stage = c.stage
        /\ e.keepAlive = c.keepAlive
        /\ e.shut = c.shut /\ e.seen = c.seen /\ e.start = c.start /\ e.live = c.live
        /\ e.shown = c.shown /\ e.still = c.still /\ e.ping = c.ping
        /\ e.browser = c.browser /\ e.pinged = c.pinged /\ e.answered = c.answered
    BY DEF Client
  <2> HIDE DEF e
  <2> DEFINE d == SendPing(e)
  <2>4. (e.browser # "gone") \in BOOLEAN
    OBVIOUS
  <2>5. [e EXCEPT !.ping = 0, !.pinged = e.browser # "gone"] \in Client
    BY <2>2, <2>4, PingType
  <2>6. d \in Client
    BY <2>2, <2>5 DEF SendPing
  <2>7. /\ d.pong = e.pong
        /\ d.closing = c.closing /\ d.flush = c.flush /\ d.stage = c.stage
        /\ d.keepAlive = c.keepAlive
        /\ d.shut = c.shut /\ d.seen = c.seen /\ d.start = c.start /\ d.live = c.live
        /\ d.shown = c.shown /\ d.still = c.still
        /\ d.browser = c.browser /\ d.answered = c.answered
    BY <2>2, <2>3 DEF SendPing, Client
  <2>8. /\ c.ping >= 1 => d.ping = 0 /\ (d.pinged <=> c.browser # "gone")
        /\ ~(c.ping >= 1) => d.ping = c.ping /\ d.pinged = c.pinged
    BY <2>2, <2>3 DEF SendPing, Client
  <2> HIDE DEF d
  <2>9. Unreached(d) /\ SentAway(d, FALSE) /\ ToldInTime(d, due)
    BY <1>5, <2>7, <2>8 DEF WellKept, Unreached, SentAway, ToldInTime, IsOpen
  <2>10. ASSUME d.browser = "healthy", recycle = 0
         PROVE  /\ d.pinged \/ d.answered => ~d.closing /\ ~d.shut
                /\ d.pinged => d.pong < Timeout
                /\ d.answered => d.pong = 0 \/ (d.pong = 1 /\ d.pinged)
    <3>1. ~d.closing /\ d.pong < Timeout
      BY <1>5, <2>3, <2>7
    <3>2. ~d.shut
      BY <1>5, <2>7, <2>10 DEF WellKept, SentAway
    <3>3. d.answered => d.pong = 0 \/ (d.pong = 1 /\ d.pinged)
      <4>1. c.answered => c.pong = 0 \/ (c.pong = 1 /\ (c.pinged \/ c.ping = 1))
        BY <2>7, <2>10 DEF WellKept, Answering
      <4> QED BY <2>3, <2>7, <2>8, <2>10, <4>1
    <3> QED BY <3>1, <3>2, <3>3
  <2>11. Answering(d, FALSE)
    BY <2>10 DEF Answering
  <2>12. PingClient(c) = d
    BY <1>5 DEF PingClient, d, e
  <2>13. LetGo(d, FALSE)
    BY <1>5, <2>3, <2>7 DEF WellKept, LetGo, Overdue
  <2> QED BY <2>6, <2>9, <2>11, <2>12, <2>13 DEF WellKept
<1> QED BY <1>1, <1>2, <1>3, <1>4, <1>5

(* A second later the ping and the splash that are needed are to come. *)
LEMMA OlderKeeps ==
  ASSUME NEW c \in Client, WellKept(c, FALSE, FALSE), c.browser = "healthy" => ~c.pinged
  PROVE  Older(c) \in Client /\ WellKept(Older(c), TRUE, TRUE)
<1> USE ThresholdFacts, ClientFacts
<1>1. CASE c.stage \in {"out", "dead"}
  BY <1>1 DEF Older, WellKept, Unreached, SentAway, LetGo, Overdue, ToldInTime, Answering, IsOpen
<1>2. CASE c.stage \notin {"out", "dead"}
  <2> DEFINE d == Older(c)
             still == IF IsOpen(c) /\ c.shown \in {"nothing", "live"}
                      THEN Sat(c.still, Frozen + 1) ELSE 0
             flush == IF c.closing THEN 1 ELSE 0
  <2>1. /\ Sat(c.start, Longest) \in 0 .. Longest /\ Sat(c.pong, Timeout) \in 0 .. Timeout
        /\ Sat(c.live, InterruptedAfter) \in 0 .. InterruptedAfter
        /\ still \in 0 .. Frozen + 1 /\ flush \in 0 .. 1
    BY DEF Sat
  <2>2. d = [c EXCEPT !.start = Sat(c.start, Longest),
                      !.live = Sat(c.live, InterruptedAfter),
                      !.pong = Sat(c.pong, Timeout), !.ping = 1,
                      !.flush = flush, !.still = still]
    BY <1>2 DEF Older
  <2> HIDE DEF still, flush
  <2>3. d \in Client
    <3> HIDE DEF d
    <3> QED BY <2>1, <2>2, ZeroFacts DEF Client
  <2>4. /\ d.start = Sat(c.start, Longest) /\ d.live = Sat(c.live, InterruptedAfter)
        /\ d.pong = Sat(c.pong, Timeout) /\ d.ping = 1
        /\ d.flush = flush /\ d.still = still
        /\ d.stage = c.stage /\ d.keepAlive = c.keepAlive /\ d.closing = c.closing /\ d.shut = c.shut
        /\ d.seen = c.seen /\ d.shown = c.shown /\ d.browser = c.browser
        /\ d.pinged = c.pinged /\ d.answered = c.answered
    BY <2>2 DEF Client
  <2> HIDE DEF d
  <2>5. Unreached(d)
    BY <2>4 DEF WellKept, Unreached, IsOpen, still
  <2>6. SentAway(d, TRUE)
    BY <2>4 DEF WellKept, Unreached, SentAway, IsOpen, still, flush, Sat
  <2>7. ToldInTime(d, TRUE)
    BY <2>4 DEF WellKept, Unreached, SentAway, ToldInTime, IsOpen, still, Sat
  <2>8. Answering(d, TRUE)
    BY <2>4 DEF WellKept, Unreached, Answering, Sat
  <2>9. LetGo(d, TRUE)
    BY <2>4 DEF WellKept, LetGo, Sat
  <2> QED BY <2>3, <2>5, <2>6, <2>7, <2>8, <2>9 DEF WellKept, d
<1> QED BY <1>1, <1>2

(* The ping and the splash to come may be awaited, needed or not. *)
LEMMA MoreToCome ==
  ASSUME NEW c, NEW awake \in BOOLEAN, NEW due \in BOOLEAN, NEW awake2 \in BOOLEAN,
         NEW due2 \in BOOLEAN, awake => awake2, due => due2, WellKept(c, awake, due)
  PROVE  WellKept(c, awake2, due2)
  BY DEF WellKept, SentAway, LetGo, ToldInTime, Answering

LEMMA CleanupKeeps ==
  ASSUME NEW c \in Client, NEW awake \in BOOLEAN, NEW due \in BOOLEAN,
         WellKept(c, awake, due), recycle \in Nat
  PROVE  CleanupClient(c) \in Client /\ WellKept(CleanupClient(c), awake, due)
  BY OutFacts DEF CleanupClient

LEMMA AnswerKeeps ==
  ASSUME NEW c \in Client, NEW awake \in BOOLEAN, NEW due \in BOOLEAN,
         WellKept(c, awake, due), c.stage = "new"
  PROVE  LET d == [c EXCEPT !.stage = "agreed"]
         IN  d \in Client /\ WellKept(d, awake, due)
<1> DEFINE d == [c EXCEPT !.stage = "agreed"]
<1>1. d \in Client
  BY DEF Client, Stages
<1>2. /\ d.stage = "agreed" /\ d.keepAlive = c.keepAlive /\ d.closing = c.closing /\ d.shut = c.shut
      /\ d.seen = c.seen /\ d.start = c.start /\ d.live = c.live
      /\ d.shown = c.shown /\ d.still = c.still /\ d.flush = c.flush
      /\ d.pong = c.pong /\ d.ping = c.ping
      /\ d.browser = c.browser /\ d.pinged = c.pinged /\ d.answered = c.answered
  BY DEF Client
<1> HIDE DEF d
<1>3. WellKept(d, awake, due)
  BY <1>2 DEF WellKept, Unreached, SentAway, LetGo, Overdue, ToldInTime, Answering, IsOpen
<1> QED BY <1>1, <1>3 DEF d

(* A track that opens shows nothing yet, and nothing is late for it. *)
LEMMA TrackKeeps ==
  ASSUME NEW c \in Client, NEW awake \in BOOLEAN, NEW due \in BOOLEAN,
         WellKept(c, awake, due), c.stage = "agreed", ~c.shut
  PROVE  LET d == [c EXCEPT !.stage = "track"]
         IN  d \in Client /\ WellKept(d, awake, due)
<1> USE ThresholdFacts, ClientFacts
<1> DEFINE d == [c EXCEPT !.stage = "track"]
<1>1. d \in Client
  BY DEF Client, Stages
<1>2. /\ d.stage = "track" /\ d.keepAlive = c.keepAlive /\ d.closing = c.closing /\ d.shut = c.shut
      /\ d.seen = c.seen /\ d.start = c.start /\ d.live = c.live
      /\ d.shown = c.shown /\ d.still = c.still /\ d.flush = c.flush
      /\ d.pong = c.pong /\ d.ping = c.ping
      /\ d.browser = c.browser /\ d.pinged = c.pinged /\ d.answered = c.answered
  BY DEF Client
<1> HIDE DEF d
<1>3. WellKept(d, awake, due)
  BY <1>2 DEF WellKept, Unreached, SentAway, LetGo, Overdue, ToldInTime, Answering, IsOpen
<1> QED BY <1>1, <1>3 DEF d

LEMMA ChannelKeeps ==
  ASSUME NEW c \in Client, NEW awake \in BOOLEAN, NEW due \in BOOLEAN,
         WellKept(c, awake, due), c.stage = "track", ~c.shut
  PROVE  LET d == [c EXCEPT !.stage = "channel"]
         IN  d \in Client /\ WellKept(d, awake, due)
<1> DEFINE d == [c EXCEPT !.stage = "channel"]
<1>1. d \in Client
  BY DEF Client, Stages
<1>2. /\ d.stage = "channel" /\ d.keepAlive = c.keepAlive /\ d.closing = c.closing /\ d.shut = c.shut
      /\ d.seen = c.seen /\ d.start = c.start /\ d.live = c.live
      /\ d.shown = c.shown /\ d.still = c.still /\ d.flush = c.flush
      /\ d.pong = c.pong /\ d.ping = c.ping
      /\ d.browser = c.browser /\ d.pinged = c.pinged /\ d.answered = c.answered
  BY DEF Client
<1> HIDE DEF d
<1>3. LetGo(d, awake)
  BY <1>2, ThresholdFacts, ClientFacts DEF WellKept, LetGo, Overdue
<1>4. WellKept(d, awake, due)
  BY <1>2, <1>3 DEF WellKept, Unreached, SentAway, ToldInTime, Answering, IsOpen
<1> QED BY <1>1, <1>4 DEF d

(* An answer is fresh. *)
LEMMA PongKeeps ==
  ASSUME NEW c \in Client, NEW awake \in BOOLEAN, NEW due \in BOOLEAN,
         WellKept(c, awake, due), c.pinged
  PROVE  LET d == [c EXCEPT !.pong = 0, !.pinged = FALSE,
                            !.answered = c.browser = "healthy"]
         IN  d \in Client /\ WellKept(d, awake, due)
<1> DEFINE d == [c EXCEPT !.pong = 0, !.pinged = FALSE,
                          !.answered = c.browser = "healthy"]
<1>1. (c.browser = "healthy") \in BOOLEAN
  OBVIOUS
<1>2. d \in Client
  BY <1>1, ZeroFacts DEF Client
<1>3. /\ d.pong = 0 /\ ~d.pinged /\ (d.answered <=> c.browser = "healthy")
      /\ d.stage = c.stage /\ d.keepAlive = c.keepAlive /\ d.closing = c.closing /\ d.shut = c.shut
      /\ d.seen = c.seen /\ d.start = c.start /\ d.live = c.live
      /\ d.shown = c.shown /\ d.still = c.still /\ d.flush = c.flush
      /\ d.ping = c.ping /\ d.browser = c.browser
  BY DEF Client
<1> HIDE DEF d
<1>4. LetGo(d, awake)
  BY <1>3, ThresholdFacts, ClientFacts DEF WellKept, LetGo, Overdue
<1>5. WellKept(d, awake, due)
  BY <1>3, <1>4 DEF WellKept, Unreached, SentAway, ToldInTime, Answering, IsOpen
<1> QED BY <1>2, <1>5 DEF d

LEMMA VanishKeeps ==
  ASSUME NEW c \in Client, NEW awake \in BOOLEAN, NEW due \in BOOLEAN,
         WellKept(c, awake, due)
  PROVE  LET d == [c EXCEPT !.browser = "gone", !.pinged = FALSE]
         IN  d \in Client /\ WellKept(d, awake, due)
<1> DEFINE d == [c EXCEPT !.browser = "gone", !.pinged = FALSE]
<1>1. d \in Client
  BY DEF Client
<1>2. /\ ~d.pinged /\ d.browser = "gone" /\ d.answered = c.answered /\ d.pong = c.pong
      /\ d.stage = c.stage /\ d.keepAlive = c.keepAlive /\ d.closing = c.closing /\ d.shut = c.shut
      /\ d.seen = c.seen /\ d.start = c.start /\ d.live = c.live
      /\ d.shown = c.shown /\ d.still = c.still /\ d.flush = c.flush
  BY DEF Client
<1> HIDE DEF d
<1>3. LetGo(d, awake)
  <2>1. c.pong <= c.start /\ (Overdue(c) => c.closing \/ c.shut \/ awake)
    BY DEF WellKept, LetGo
  <2>2. Overdue(d) <=> Overdue(c)
    BY <1>2 DEF Overdue
  <2> QED BY <1>2, <2>1, <2>2 DEF LetGo
<1>4. WellKept(d, awake, due)
  BY <1>2, <1>3 DEF WellKept, Unreached, SentAway, ToldInTime, Answering, IsOpen
<1> QED BY <1>1, <1>4 DEF d

--------------------------------------------------------------------------------
(* The list of clients *)

(* Only a new client takes a place in the list. *)
LEMMA StageFacts ==
  ASSUME NEW c \in Client, NEW frame, NEW what
  PROVE  /\ Relay(c, frame).stage = c.stage /\ Show(c, what).stage = c.stage
         /\ PingClient(c).stage = c.stage /\ Older(c).stage = c.stage
<1>1. Relay(c, frame).stage = c.stage
  BY DEF Relay, ShowFrame, Client
<1>2. Show(c, what).stage = c.stage
  BY DEF Show, Client
<1>3. BeginClose(c).stage = c.stage /\ AdvanceClose(c).stage = c.stage
  BY DEF BeginClose, AdvanceClose, Show, IsOpen, Client
<1>4. PingClient(c).stage = c.stage
  BY <1>3 DEF PingClient, SendPing, Client
<1>5. Older(c).stage = c.stage
  BY DEF Older, Client
<1> QED BY <1>1, <1>2, <1>4, <1>5

LEMMA NoneJoins ==
  ASSUME TypeOK, \A v \in Viewers : client'[v].stage # "out" => client[v].stage # "out"
  PROVE  Cardinality(Listed') <= MaxClients
<1>1. Listed' \subseteq Listed
  BY DEF Listed
<1>2. IsFiniteSet(Listed)
  BY FS_Subset DEF Listed
<1>3. Cardinality(Listed') <= Cardinality(Listed) /\ Cardinality(Listed) \in Nat
      /\ Cardinality(Listed') \in Nat
  BY <1>1, <1>2, FS_Subset, FS_CardinalityType
<1> QED BY <1>3 DEF TypeOK

LEMMA OneJoins ==
  ASSUME NEW list, NEW v \in Viewers, Room(list),
         \A w \in Viewers \ {v} : client'[w] = list[w]
  PROVE  Cardinality(Listed') <= MaxClients
<1> DEFINE L == {w \in Viewers : list[w].stage # "out"}
<1>1. IsFiniteSet(L)
  BY FS_Subset
<1>2. Listed' \subseteq L \cup {v}
  BY DEF Listed
<1> HIDE DEF L
<1>3. IsFiniteSet(L \cup {v}) /\ Cardinality(L \cup {v}) <= Cardinality(L) + 1
  <2>1. Cardinality(L) \in Nat
    BY <1>1, FS_CardinalityType
  <2>2. /\ IsFiniteSet(L \cup {v})
        /\ Cardinality(L \cup {v}) = IF v \in L THEN Cardinality(L) ELSE Cardinality(L) + 1
    BY <1>1, FS_AddElement
  <2> QED BY <2>1, <2>2
<1>4. Cardinality(Listed') <= Cardinality(L \cup {v}) /\ Cardinality(Listed') \in Nat
      /\ Cardinality(L) \in Nat /\ Cardinality(L \cup {v}) \in Nat
  BY <1>1, <1>2, <1>3, FS_Subset, FS_CardinalityType
<1>5. Cardinality(L) < MaxClients
  BY DEF Room, L
<1> QED BY <1>3, <1>4, <1>5

--------------------------------------------------------------------------------
(* The steps *)

(* What is left to show of a step. *)
LEMMA KeptNext ==
  ASSUME recycle' = recycle, \A v \in Viewers : WellKept(client'[v], Awake', Due')
  PROVE  (\A v \in Viewers : WellKept(client[v], Awake, Due))'
  BY DEF WellKept, Unreached, SentAway, LetGo, Overdue, ToldInTime, Answering, IsOpen

LEMMA InvFacts ==
  ASSUME ViewersInv
  PROVE  /\ client \in [Viewers -> Client] /\ \A v \in Viewers : client[v] \in Client
         /\ Awake \in BOOLEAN /\ Due \in BOOLEAN /\ recycle \in Nat
         /\ \A v \in Viewers : WellKept(client[v], Awake, Due)
  BY DEF ViewersInv, TypeOK, Awake, Due

LEMMA ServerStep ==
  ASSUME ViewersInv, UNCHANGED recycle,
         client' \in [Viewers -> Client],
         \/ \A v \in Viewers : client'[v].stage # "out" => client[v].stage # "out"
         \/ Cardinality(Listed') <= MaxClients,
         loop' \in {"poll", "accept", "read", "ping", "cleanup", "feed", "splash"},
         ready' \in BOOLEAN, slept' \in BOOLEAN, resend' \in 0 .. 1,
         feed' \in {"closed", "fresh", "open", "hungup"},
         pending' \in {"none", "key", "delta"}, camera' \in BOOLEAN,
         slept' => loop' = "poll",
         \A v \in Viewers : WellKept(client'[v], Awake', Due')
  PROVE  ViewersInv'
<1>1. Cardinality(Listed') <= MaxClients
  BY NoneJoins DEF ViewersInv
<1>2. TypeOK'
  BY <1>1 DEF TypeOK, ViewersInv
<1> QED BY <1>2, KeptNext DEF ViewersInv

LEMMA PollStep ==
  ASSUME ViewersInv, NEW signalling \in BOOLEAN, PollReturns(signalling)
  PROVE  ViewersInv'
<1> USE InvFacts DEF PollReturns, source
<1>1. Awake' = TRUE /\ Due' \in BOOLEAN /\ (Due => Due')
  BY DEF Awake, Due
<1>2. \A v \in Viewers : WellKept(client'[v], Awake', Due')
  BY <1>1, MoreToCome
<1> QED BY <1>2, ServerStep DEF ViewersInv, TypeOK

LEMMA HandledFacts ==
  ASSUME ViewersInv, Handled
  PROVE  /\ Awake /\ Awake' = Awake /\ Due' = Due /\ recycle' = recycle
         /\ loop' \in {"read", "ping"}
         /\ ready' \in BOOLEAN /\ slept' = FALSE /\ resend' \in 0 .. 1
         /\ feed' \in {"closed", "fresh", "open", "hungup"}
         /\ pending' \in {"none", "key", "delta"} /\ camera' \in BOOLEAN
  BY DEF ViewersInv, TypeOK, Handled, source, Awake, Due

(* What any other part of the loop may do to the list: nobody joins. *)
LEMMA HandlingStep ==
  ASSUME ViewersInv, Handled, client' \in [Viewers -> Client],
         \/ \A v \in Viewers : client'[v].stage # "out" => client[v].stage # "out"
         \/ Cardinality(Listed') <= MaxClients,
         \A v \in Viewers : WellKept(client'[v], Awake, Due)
  PROVE  ViewersInv'
<1>1. \A v \in Viewers : WellKept(client'[v], Awake', Due')
  BY HandledFacts
<1> QED BY <1>1, HandledFacts, ServerStep

LEMMA HandleNothingStep == ASSUME ViewersInv, HandleNothing PROVE ViewersInv'
  BY InvFacts, HandlingStep DEF HandleNothing

(* The new client is typed and kept. *)
LEMMA JoinsFacts ==
  ASSUME NEW list \in [Viewers -> Client], NEW v \in Viewers,
         NEW stage \in {"new", "agreed"}, Joins(v, list, stage), Room(list),
         NEW awake \in BOOLEAN, NEW due \in BOOLEAN, recycle \in Nat,
         \A w \in Viewers : WellKept(list[w], awake, due)
  PROVE  /\ client' \in [Viewers -> Client]
         /\ Cardinality(Listed') <= MaxClients
         /\ \A w \in Viewers : WellKept(client'[w], awake, due)
<1>1. PICK keep \in BOOLEAN, browser \in {"healthy", "free"} :
        client' = [list EXCEPT ![v] = [Out EXCEPT !.stage = stage, !.keepAlive = keep,
                                                  !.browser = browser]]
  BY DEF Joins
<1> DEFINE c == [Out EXCEPT !.stage = stage, !.keepAlive = keep, !.browser = browser]
<1>2. c \in Client /\ WellKept(c, awake, due)
  BY FreshFacts
<1> HIDE DEF c
<1>3. client' = [list EXCEPT ![v] = c]
  BY <1>1 DEF c
<1>4. client' \in [Viewers -> Client]
  BY <1>2, <1>3
<1>5. client'[v] = c /\ \A w \in Viewers \ {v} : client'[w] = list[w]
  BY <1>3
<1>6. Cardinality(Listed') <= MaxClients
  BY <1>5, OneJoins
<1>7. \A w \in Viewers : WellKept(client'[w], awake, due)
  BY <1>2, <1>5
<1> QED BY <1>4, <1>6, <1>7

LEMMA HandleRequestStep ==
  ASSUME ViewersInv, NEW v \in Viewers, HandleRequest(v) PROVE ViewersInv'
<1>1. /\ client' \in [Viewers -> Client] /\ Cardinality(Listed') <= MaxClients
      /\ \A w \in Viewers : WellKept(client'[w], Awake, Due)
  BY InvFacts, JoinsFacts DEF HandleRequest
<1> QED BY <1>1, HandlingStep DEF HandleRequest

LEMMA HandleAnswerStep ==
  ASSUME ViewersInv, NEW v \in Viewers, HandleAnswer(v) PROVE ViewersInv'
<1> USE InvFacts DEF HandleAnswer
<1> DEFINE c == [client[v] EXCEPT !.stage = "agreed"]
<1>1. c \in Client /\ WellKept(c, Awake, Due)
  BY AnswerKeeps
<1>2. client' = [client EXCEPT ![v] = c]
  OBVIOUS
<1> HIDE DEF c
<1>3. client' \in [Viewers -> Client]
  BY <1>1, <1>2
<1>4. client'[v] = c /\ \A w \in Viewers \ {v} : client'[w] = client[w]
  BY <1>2
<1>5. \A w \in Viewers : WellKept(client'[w], Awake, Due)
  BY <1>1, <1>4
<1>6. \A w \in Viewers : client'[w].stage # "out" => client[w].stage # "out"
  BY <1>4
<1> QED BY <1>3, <1>5, <1>6, HandlingStep

LEMMA HandleOfferStep ==
  ASSUME ViewersInv, NEW v \in Viewers, HandleOffer(v) PROVE ViewersInv'
<1> USE InvFacts
<1> DEFINE list == [w \in Viewers |-> CleanupClient(client[w])]
<1>1. list \in [Viewers -> Client] /\ \A w \in Viewers : WellKept(list[w], Awake, Due)
  BY CleanupKeeps
<1>2. Handled /\ IF Room(list) THEN Joins(v, list, "agreed") ELSE client' = list
  BY DEF HandleOffer
<1>3. \A w \in Viewers : list[w].stage # "out" => client[w].stage # "out"
  BY DEF CleanupClient, Out
<1> HIDE DEF list
<1>4. CASE Room(list)
  <2>1. /\ client' \in [Viewers -> Client] /\ Cardinality(Listed') <= MaxClients
        /\ \A w \in Viewers : WellKept(client'[w], Awake, Due)
    BY <1>1, <1>2, <1>4, JoinsFacts
  <2> QED BY <1>2, <2>1, HandlingStep
<1>5. CASE ~Room(list)
  <2>1. client' = list
    BY <1>2, <1>5
  <2> QED BY <1>1, <1>2, <1>3, <2>1, HandlingStep
<1> QED BY <1>4, <1>5

LEMMA ReadStep == ASSUME ViewersInv, Read PROVE ViewersInv'
<1> USE InvFacts
<1> DEFINE R(c) == IF pending = "none" THEN c ELSE Relay(c, pending)
<1>1. client' = [v \in Viewers |-> R(client[v])]
  BY DEF Read, Each
<1>2. ASSUME NEW v \in Viewers
      PROVE  /\ R(client[v]) \in Client /\ WellKept(R(client[v]), Awake, Due)
             /\ R(client[v]).stage = client[v].stage
  <2>1. pending # "none" => pending \in {"key", "delta"}
    BY DEF ViewersInv, TypeOK
  <2> QED BY <2>1, RelayKeeps, StageFacts
<1> HIDE DEF R
<1>3. client' \in [Viewers -> Client] /\ \A v \in Viewers : client'[v] = R(client[v])
  BY <1>1, <1>2
<1>4. Awake' = Awake /\ Due' = Due
  BY DEF Read, Awake, Due, ViewersInv
<1>5. \A v \in Viewers : WellKept(client'[v], Awake', Due')
  BY <1>2, <1>3, <1>4
<1>6. \A v \in Viewers : client'[v].stage # "out" => client[v].stage # "out"
  BY <1>2, <1>3
<1> QED BY <1>3, <1>5, <1>6, ServerStep DEF Read, ViewersInv, TypeOK

LEMMA PingStep == ASSUME ViewersInv, Ping PROVE ViewersInv'
<1> USE InvFacts
<1>1. client' = [v \in Viewers |-> PingClient(client[v])]
  BY DEF Ping, Each
<1>2. Awake = TRUE /\ Awake' = FALSE /\ Due' = Due
  BY DEF Ping, Awake, Due, ViewersInv, source
<1>3. ASSUME NEW v \in Viewers
      PROVE  /\ PingClient(client[v]) \in Client /\ WellKept(PingClient(client[v]), FALSE, Due)
             /\ PingClient(client[v]).stage = client[v].stage
  BY <1>2, PingKeeps, StageFacts
<1>4. client' \in [Viewers -> Client] /\ \A v \in Viewers : client'[v] = PingClient(client[v])
  BY <1>1, <1>3
<1>5. \A v \in Viewers : WellKept(client'[v], Awake', Due')
  BY <1>2, <1>3, <1>4
<1>6. \A v \in Viewers : client'[v].stage # "out" => client[v].stage # "out"
  BY <1>3, <1>4
<1> QED BY <1>4, <1>5, <1>6, ServerStep DEF Ping, source, ViewersInv, TypeOK

LEMMA CleanupStep == ASSUME ViewersInv, Cleanup PROVE ViewersInv'
<1> USE InvFacts
<1>1. client' = [v \in Viewers |-> CleanupClient(client[v])]
  BY DEF Cleanup, Each
<1>2. Awake' = Awake /\ Due' = Due
  BY DEF Cleanup, Awake, Due, ViewersInv, source
<1>3. client' \in [Viewers -> Client]
      /\ \A v \in Viewers : client'[v] = CleanupClient(client[v])
  BY <1>1, CleanupKeeps
<1>4. \A v \in Viewers : WellKept(client'[v], Awake', Due')
  BY <1>2, <1>3, CleanupKeeps
<1>5. \A v \in Viewers : client'[v].stage # "out" => client[v].stage # "out"
  BY <1>3 DEF CleanupClient, Out
<1> QED BY <1>3, <1>4, <1>5, ServerStep DEF Cleanup, source, ViewersInv, TypeOK

LEMMA FeedStep == ASSUME ViewersInv, OpenOrCloseFeed PROVE ViewersInv'
<1> USE InvFacts DEF OpenOrCloseFeed
<1>1. Awake' = Awake /\ Due' = Due
  BY DEF Awake, Due, ViewersInv
<1>2. \A v \in Viewers : WellKept(client'[v], Awake', Due')
  BY <1>1
<1>3. feed' \in {"closed", "fresh", "open", "hungup"}
  BY DEF ViewersInv, TypeOK
<1>4. pending' \in {"none", "key", "delta"}
  BY DEF ViewersInv, TypeOK
<1> QED BY <1>2, <1>3, <1>4, ServerStep DEF ViewersInv, TypeOK

LEMMA SplashStep == ASSUME ViewersInv, Splash PROVE ViewersInv'
<1> USE InvFacts
<1> DEFINE S(c) == IF c.closing \/ SplashFor(c) = "quiet" THEN c ELSE Show(c, SplashFor(c))
<1>1. Awake = FALSE /\ Awake' = FALSE /\ Due' = FALSE /\ (Due <=> resend = 1)
  BY DEF Splash, Awake, Due, ViewersInv
<1>2. resend \in 0 .. 1 /\ resend' \in 0 .. 1
  BY DEF Splash, ViewersInv, TypeOK
<1>3. /\ client' \in [Viewers -> Client]
      /\ \A v \in Viewers : client'[v].stage # "out" => client[v].stage # "out"
      /\ \A v \in Viewers : WellKept(client'[v], FALSE, FALSE)
  <2>1. CASE Watched /\ resend >= 1
    <3>1. client' = [v \in Viewers |-> S(client[v])]
      BY <2>1 DEF Splash, Each
    <3>2. ASSUME NEW v \in Viewers
          PROVE  /\ S(client[v]) \in Client /\ WellKept(S(client[v]), FALSE, FALSE)
                 /\ S(client[v]).stage = client[v].stage
      BY <1>1, SplashKeeps, StageFacts
    <3> HIDE DEF S
    <3>3. client' \in [Viewers -> Client] /\ \A v \in Viewers : client'[v] = S(client[v])
      BY <3>1, <3>2
    <3> QED BY <3>2, <3>3
  <2>2. CASE ~(Watched /\ resend >= 1)
    <3>1. client' = client
      BY <2>2 DEF Splash
    <3>2. ASSUME NEW v \in Viewers PROVE WellKept(client[v], FALSE, FALSE)
      <4>1. CASE Due = FALSE
        BY <1>1, <4>1
      <4>2. CASE ~IsOpen(client[v])
        BY <1>1, <4>2 DEF WellKept, ToldInTime
      <4>3. resend >= 1 => resend = 1
        BY <1>2
      <4>4. resend = 1 => resend >= 1
        OBVIOUS
      <4> QED BY <1>1, <2>2, <4>1, <4>2, <4>3, <4>4 DEF Watched
    <3> QED BY <3>1, <3>2
  <2> QED BY <2>1, <2>2
<1> QED BY <1>1, <1>2, <1>3, ServerStep DEF Splash, source, ViewersInv, TypeOK

(* A step of one viewer, outside of the loop. *)
LEMMA BrowserStep ==
  ASSUME ViewersInv, NEW v \in Viewers, NEW c \in Client, Browser(v, c),
         client[v].stage # "out", WellKept(c, Awake, Due)
  PROVE  ViewersInv'
<1> USE InvFacts DEF Browser, server, source
<1>1. client' \in [Viewers -> Client]
  OBVIOUS
<1>2. client'[v] = c /\ \A w \in Viewers \ {v} : client'[w] = client[w]
  OBVIOUS
<1>3. Awake' = Awake /\ Due' = Due
  BY DEF Awake, Due
<1>4. \A w \in Viewers : WellKept(client'[w], Awake', Due')
  BY <1>2, <1>3
<1>5. \A w \in Viewers : client'[w].stage # "out" => client[w].stage # "out"
  BY <1>2
<1> QED BY <1>1, <1>4, <1>5, ServerStep DEF ViewersInv, TypeOK

LEMMA LibraryStep ==
  ASSUME ViewersInv, NEW v \in Viewers, Library(v)
  PROVE  ViewersInv'
<1> USE InvFacts
<1>1. CASE TrackOpens(v)
  BY <1>1, TrackKeeps, BrowserStep DEF TrackOpens
<1>2. CASE ChannelOpens(v)
  BY <1>2, ChannelKeeps, BrowserStep DEF ChannelOpens
<1>3. CASE Pong(v)
  BY <1>3, PongKeeps, BrowserStep DEF Pong
<1>4. CASE Vanish(v)
  BY <1>4, VanishKeeps, BrowserStep DEF Vanish
<1>5. CASE ConnectionEnds(v)
  <2>1. client[v].keepAlive \in BOOLEAN /\ client[v].browser \in {"healthy", "free", "gone"}
    BY ClientFacts
  <2>2. LET c == [Out EXCEPT !.stage = "dead", !.keepAlive = client[v].keepAlive,
                             !.browser = client[v].browser]
        IN  c \in Client /\ WellKept(c, Awake, Due)
    BY <2>1, FreshFacts
  <2> QED BY <1>5, <2>2, BrowserStep DEF ConnectionEnds
<1> QED BY <1>1, <1>2, <1>3, <1>4, <1>5 DEF Library

LEMMA CameraStep ==
  ASSUME ViewersInv, (\E picture \in {"key", "delta"} : CameraSends(picture))
                     \/ CameraGoes \/ CameraComes
  PROVE  ViewersInv'
<1> USE InvFacts DEF CameraSends, CameraGoes, CameraComes, server
<1>1. Awake' = Awake /\ Due' = Due
  BY DEF Awake, Due
<1>2. \A w \in Viewers : WellKept(client'[w], Awake', Due')
  BY <1>1
<1>3. /\ feed' \in {"closed", "fresh", "open", "hungup"}
      /\ pending' \in {"none", "key", "delta"} /\ camera' \in BOOLEAN
  BY DEF ViewersInv, TypeOK
<1> QED BY <1>2, <1>3, ServerStep DEF ViewersInv, TypeOK

LEMMA TickStep == ASSUME ViewersInv, Tick PROVE ViewersInv'
<1> USE InvFacts
<1>1. client' = [v \in Viewers |-> Older(client[v])]
  BY DEF Tick, Each
<1>2. Awake = FALSE /\ Due = FALSE /\ Awake' = TRUE /\ Due' = TRUE
  BY DEF Tick, Awake, Due
<1>3. ASSUME NEW v \in Viewers
      PROVE  /\ Older(client[v]) \in Client /\ WellKept(Older(client[v]), TRUE, TRUE)
             /\ Older(client[v]).stage = client[v].stage
  BY <1>2, OlderKeeps, StageFacts DEF Tick
<1>4. client' \in [Viewers -> Client] /\ \A v \in Viewers : client'[v] = Older(client[v])
  BY <1>1, <1>3
<1>5. \A v \in Viewers : WellKept(client'[v], Awake', Due')
  BY <1>2, <1>3, <1>4
<1>6. \A v \in Viewers : client'[v].stage # "out" => client[v].stage # "out"
  BY <1>3, <1>4
<1> QED BY <1>4, <1>5, <1>6, ServerStep DEF Tick, source, ViewersInv, TypeOK

LEMMA StutterStep == ASSUME ViewersInv, UNCHANGED vars PROVE ViewersInv'
<1> USE InvFacts DEF vars, server, source
<1>1. Awake' = Awake /\ Due' = Due
  BY DEF Awake, Due
<1>2. \A w \in Viewers : WellKept(client'[w], Awake', Due')
  BY <1>1
<1> QED BY <1>2, ServerStep DEF ViewersInv, TypeOK

LEMMA LoopStep == ASSUME ViewersInv, Loop PROVE ViewersInv'
  BY PollStep, HandleNothingStep, HandleRequestStep, HandleAnswerStep, HandleOfferStep,
     ReadStep, PingStep, CleanupStep, FeedStep, SplashStep DEF Loop

LEMMA InitOK == Init => ViewersInv
<1> SUFFICES ASSUME Init PROVE ViewersInv
  OBVIOUS
<1>1. client \in [Viewers -> Client] /\ \A v \in Viewers : client[v] = Out
  BY OutFacts DEF Init
<1>2. Listed = {}
  BY <1>1 DEF Listed, Out
<1>3. Cardinality(Listed) <= MaxClients
  <2>1. Cardinality(Listed) = 0
    BY <1>2, FS_EmptySet
  <2> QED BY <2>1
<1>4. TypeOK
  <2>1. resend \in 0 .. 1 /\ recycle \in {0, SessionTimeout}
    BY DEF Init
  <2> QED BY <1>1, <1>3, <2>1 DEF Init, TypeOK
<1>5. Awake \in BOOLEAN /\ Due \in BOOLEAN
  BY DEF Awake, Due
<1>6. recycle \in Nat
  BY DEF Init
<1> QED BY <1>1, <1>4, <1>5, <1>6, OutFacts DEF ViewersInv, Init

--------------------------------------------------------------------------------
(* The theorems *)

(* The list holds no more than MaxClients clients, and each is pinged, told  *)
(* and sent away in time: the inductive invariant.                          *)
THEOREM ViewersInvariant == Spec => []ViewersInv
<1>1. ViewersInv /\ [Next]_vars => ViewersInv'
  BY LoopStep, LibraryStep, CameraStep, TickStep, StutterStep DEF Next
<1> QED BY <1>1, InitOK, PTL DEF Spec

(* No tile freezes: as long as the thread runs on, a viewer whose track is   *)
(* open has a picture no older than Frozen, be it live or a message, until   *)
(* the server closes its connection.                                        *)
THEOREM NoTileFreezes == Spec => []NeverFrozen
<1>1. ASSUME ViewersInv, NEW v \in Viewers, IsOpen(client[v]), ~client[v].shut
      PROVE  client[v].still <= Frozen
  <2> USE InvFacts, ThresholdFacts, ClientFacts
  <2>1. CASE client[v].shown = "nothing"
    BY <1>1, <2>1 DEF WellKept, SentAway, ToldInTime
  <2>2. CASE client[v].shown = "live"
    BY <1>1, <2>2 DEF WellKept, ToldInTime
  <2>3. CASE client[v].shown \in {"connecting", "interrupted"}
    BY <1>1, <2>3 DEF WellKept, ToldInTime
  <2> QED BY <1>1, <2>1, <2>2, <2>3
<1>2. ViewersInv => NeverFrozen
  BY <1>1 DEF NeverFrozen
<1> QED BY <1>2, ViewersInvariant, PTL

(* The goodbye stays the last thing on the tile. *)
THEOREM GoodbyeStays == Spec => []GoodbyeIsLast
<1>1. ViewersInv => GoodbyeIsLast
  BY DEF ViewersInv, GoodbyeIsLast, WellKept, SentAway
<1> QED BY <1>1, ViewersInvariant, PTL

(* A viewer that has to go goes: once the pings of a second are out, nobody   *)
(* is left alone whose session is to be recycled, whose connection was not   *)
(* made in time or who wants to be kept alive and has stopped answering, and  *)
(* a goodbye begun a second ago or more is over.                             *)
THEOREM NobodyOverstays ==
  Spec => [](\A v \in Viewers :
               /\ Overdue(client[v]) => client[v].closing \/ client[v].shut \/ Awake
               /\ client[v].closing /\ client[v].flush >= 1 => client[v].shut \/ Awake)
<1> DEFINE Leaving(c) ==
      /\ Overdue(c) => c.closing \/ c.shut \/ Awake
      /\ c.closing /\ c.flush >= 1 => c.shut \/ Awake
<1>1. ASSUME ViewersInv, NEW v \in Viewers PROVE Leaving(client[v])
  <2>1. WellKept(client[v], Awake, Due)
    BY <1>1 DEF ViewersInv
  <2>2. Overdue(client[v]) => client[v].closing \/ client[v].shut \/ Awake
    BY <2>1 DEF WellKept, LetGo
  <2>3. client[v].closing /\ client[v].flush >= 1 => client[v].shut \/ Awake
    BY <2>1 DEF WellKept, SentAway
  <2> QED BY <2>2, <2>3
<1>2. ViewersInv => \A v \in Viewers : Leaving(client[v])
  BY <1>1
<1> QED BY <1>2, ViewersInvariant, PTL

(* A viewer that answers is not sent away, however long it has been silent   *)
(* before and whatever else the loop does, unless sessions are recycled.    *)
THEOREM AnsweringViewersStay == Spec => []AnsweringViewerStays
<1>1. ViewersInv => AnsweringViewerStays
  BY DEF ViewersInv, AnsweringViewerStays, WellKept, Answering
<1> QED BY <1>1, ViewersInvariant, PTL
================================================================================
