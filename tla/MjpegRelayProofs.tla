--------------------------- MODULE MjpegRelayProofs ----------------------------
(***************************************************************************)
(* MjpegRelay's safety properties, for any camera, any pace and any        *)
(* thresholds in the order of camera-stream.py's.                          *)
(*                                                                         *)
(* The stream is what was sent and not yet cut out.  A step leaves it      *)
(* alone, adds a piece, drops what is on the wire or cuts a frame off its  *)
(* front; each of these keeps it as captured.                              *)
(***************************************************************************)
EXTENDS MjpegRelay, SequenceTheorems, TLAPS

--------------------------------------------------------------------------------
(* Sequences of pieces *)

LEMMA Constants ==
  /\ MaxFrame \in Nat /\ MaxFrame > 0 /\ WireRoom \in Nat /\ ReadTimeout \in Nat
  /\ ReadTimeout > 0 /\ Backoff \in Nat /\ Backoff > 0
  /\ ConnectingAfter \in Nat /\ InterruptedAfter \in Nat /\ GiveUp \in Nat
  /\ ConnectingAfter <= InterruptedAfter /\ InterruptedAfter <= GiveUp
  /\ SendTimeout \in Nat /\ FrameSize \in Nat /\ FrameSize > 0 /\ ViewerRoom \in Nat
  /\ LongestQuiet = InterruptedAfter + ReadTimeout + Backoff /\ LongestQuiet \in Nat
  BY RelayAssumption DEF LongestQuiet

LEMMA PieceFacts ==
  ASSUME NEW s \in Seq(Pieces)
  PROVE  /\ Len(s) \in Nat /\ DOMAIN s = 1 .. Len(s)
         /\ s # <<>> <=> Len(s) > 0
         /\ \A i \in 1 .. Len(s) :
              s[i].id \in 1 .. MaxFrame /\ s[i].part \in {"mark", "head", "tail"}
<1>1. Len(s) \in Nat /\ DOMAIN s = 1 .. Len(s)
  BY LenProperties
<1>2. s # <<>> <=> Len(s) > 0
  BY EmptySeq
<1>3. \A i \in 1 .. Len(s) : s[i] \in Pieces
  BY ElementOfSeq
<1> QED BY <1>1, <1>2, <1>3 DEF Pieces

LEMMA RestFacts ==
  ASSUME NEW s \in Seq(Pieces), NEW m \in Int, 1 <= m
  PROVE  /\ SubSeq(s, m, Len(s)) \in Seq(Pieces)
         /\ Len(SubSeq(s, m, Len(s))) = IF m <= Len(s) THEN Len(s) - m + 1 ELSE 0
         /\ \A i \in 1 .. Len(s) - m + 1 : SubSeq(s, m, Len(s))[i] = s[m + i - 1]
<1>1. Len(s) \in Int /\ \A i \in m .. Len(s) : s[i] \in Pieces
  BY PieceFacts, ElementOfSeq
<1> QED BY <1>1, SubSeqProperties

LEMMA SameSequence ==
  ASSUME NEW s \in Seq(Pieces), NEW t \in Seq(Pieces), Len(t) = Len(s),
         \A i \in 1 .. Len(t) : t[i] = s[i]
  PROVE  t = s
  BY SeqEqual

(* A part of t that moves to s. *)
LEMMA MovesOver ==
  ASSUME NEW s \in Seq(Pieces), NEW t \in Seq(Pieces),
         NEW u \in Seq(Pieces), NEW v \in Seq(Pieces), t = u \o v
  PROVE  (s \o u) \o v = s \o t
  BY ConcatAssociative

LEMMA AppendKeepsOrder ==
  ASSUME NEW s \in Seq(Pieces), AsCaptured(s), NEW p \in Pieces,
         \/ p.part = "mark" /\ \A i \in DOMAIN s : s[i].id < p.id
         \/ /\ p.part = Behind(s[Len(s)].part)
            /\ Unfinished(s) /\ s[Len(s)].id = p.id
  PROVE  AsCaptured(Append(s, p))
<1> DEFINE t == Append(s, p)
<1>1. /\ Len(t) = Len(s) + 1 /\ t[Len(s) + 1] = p
      /\ \A i \in 1 .. Len(s) : t[i] = s[i]
      /\ Len(s) \in Nat /\ DOMAIN s = 1 .. Len(s) /\ t \in Seq(Pieces)
  BY AppendProperties, PieceFacts
<1>2. DOMAIN t = 1 .. Len(s) + 1
  BY <1>1, PieceFacts
<1>3. p.id \in Nat /\ \A i \in 1 .. Len(s) : s[i].id \in Nat
  <2>1. \A i \in 1 .. Len(s) : s[i].id \in 1 .. MaxFrame
    BY PieceFacts
  <2>2. p.id \in 1 .. MaxFrame
    BY DEF Pieces
  <2> QED BY <2>1, <2>2, Constants
<1> HIDE DEF t
<1>4. p.part # "mark" =>
        /\ Len(s) > 0 /\ s[Len(s)].id = p.id /\ s[Len(s)].part # "tail"
        /\ p.part = Behind(s[Len(s)].part)
  BY PieceFacts DEF Unfinished
<1>5. ASSUME NEW i \in DOMAIN t, NEW j \in DOMAIN t, i < j
      PROVE  t[i].id <= t[j].id /\ (t[j].part = "mark" => t[i].id < t[j].id)
  <2>1. CASE j <= Len(s)
    BY <1>1, <1>2, <1>5, <2>1 DEF AsCaptured
  <2>2. CASE j = Len(s) + 1
    <3>1. i \in 1 .. Len(s) /\ t[i] = s[i] /\ t[j] = p
      BY <1>1, <1>2, <1>5, <2>2
    <3>2. CASE p.part = "mark"
      <4>1. s[i].id < p.id
        BY <1>1, <3>1, <3>2 DEF Behind
      <4> QED BY <1>3, <3>1, <4>1
    <3>3. CASE p.part # "mark"
      <4>1. s[Len(s)].id = p.id /\ s[i].id <= s[Len(s)].id
        BY <1>1, <1>3, <1>4, <3>1, <3>3 DEF AsCaptured
      <4> QED BY <3>1, <3>3, <4>1
    <3> QED BY <3>2, <3>3
  <2> QED BY <1>1, <1>2, <2>1, <2>2
<1>6. ASSUME NEW j \in DOMAIN t, t[j].part # "mark"
      PROVE  /\ j > 1 /\ t[j - 1].id = t[j].id
             /\ t[j - 1].part # "tail" /\ t[j].part = Behind(t[j - 1].part)
  <2>1. CASE j <= Len(s)
    <3>1. /\ j > 1 /\ s[j - 1].id = s[j].id
          /\ s[j - 1].part # "tail" /\ s[j].part = Behind(s[j - 1].part)
      BY <1>1, <1>2, <1>6, <2>1 DEF AsCaptured
    <3>2. j - 1 \in 1 .. Len(s) /\ j \in 1 .. Len(s)
      BY <1>1, <1>2, <2>1, <3>1
    <3> QED BY <1>1, <3>1, <3>2
  <2>2. CASE j = Len(s) + 1
    <3>1. t[j] = p /\ j - 1 = Len(s)
      BY <1>1, <2>2
    <3>2. Len(s) > 0
      BY <1>4, <1>6, <3>1
    <3>3. t[j - 1] = s[Len(s)] /\ j > 1
      BY <1>1, <2>2, <3>1, <3>2
    <3> QED BY <1>4, <1>6, <3>1, <3>3
  <2> QED BY <1>1, <1>2, <2>1, <2>2
<1> QED BY <1>5, <1>6 DEF AsCaptured, t

(* What is read first is as captured by itself. *)
LEMMA PrefixKeepsOrder ==
  ASSUME NEW s \in Seq(Pieces), NEW t \in Seq(Pieces), AsCaptured(s \o t)
  PROVE  AsCaptured(s)
<1>1. /\ Len(s \o t) = Len(s) + Len(t)
      /\ \A i \in 1 .. Len(s) : (s \o t)[i] = s[i]
  BY ConcatProperties, PieceFacts
<1>2. /\ DOMAIN s = 1 .. Len(s) /\ Len(s) \in Nat /\ Len(t) \in Nat
      /\ DOMAIN (s \o t) = 1 .. Len(s) + Len(t)
  BY <1>1, PieceFacts, ConcatProperties
<1>3. ASSUME NEW i \in DOMAIN s, NEW j \in DOMAIN s, i < j
      PROVE  s[i].id <= s[j].id /\ (s[j].part = "mark" => s[i].id < s[j].id)
  <2>1. i \in DOMAIN (s \o t) /\ j \in DOMAIN (s \o t)
    BY <1>2
  <2>2. (s \o t)[i] = s[i] /\ (s \o t)[j] = s[j]
    BY <1>1, <1>2
  <2> QED BY <1>3, <2>1, <2>2 DEF AsCaptured
<1>4. ASSUME NEW j \in DOMAIN s, s[j].part # "mark"
      PROVE  /\ j > 1 /\ s[j - 1].id = s[j].id
             /\ s[j - 1].part # "tail" /\ s[j].part = Behind(s[j - 1].part)
  <2>1. j \in DOMAIN (s \o t) /\ (s \o t)[j] = s[j]
    BY <1>1, <1>2
  <2>2. /\ j > 1 /\ (s \o t)[j - 1].id = s[j].id
        /\ (s \o t)[j - 1].part # "tail" /\ s[j].part = Behind((s \o t)[j - 1].part)
    BY <1>4, <2>1 DEF AsCaptured
  <2>3. j - 1 \in 1 .. Len(s)
    BY <1>2, <2>2
  <2>4. (s \o t)[j - 1] = s[j - 1]
    BY <1>1, <2>3
  <2> QED BY <2>2, <2>4
<1> QED BY <1>3, <1>4 DEF AsCaptured

(* What begins with a mark is as captured by itself. *)
LEMMA SuffixKeepsOrder ==
  ASSUME NEW s \in Seq(Pieces), AsCaptured(s), NEW k \in 0 .. Len(s),
         k < Len(s) => s[k + 1].part = "mark",
         NEW t \in Seq(Pieces), Len(t) = Len(s) - k,
         \A i \in 1 .. Len(t) : t[i] = s[k + i]
  PROVE  AsCaptured(t)
<1>1. /\ DOMAIN s = 1 .. Len(s) /\ Len(s) \in Nat /\ DOMAIN t = 1 .. Len(t) /\ Len(t) \in Nat
  BY PieceFacts
<1>2. \A i \in DOMAIN t : k + i \in DOMAIN s /\ t[i] = s[k + i]
  BY <1>1
<1>3. ASSUME NEW i \in DOMAIN t, NEW j \in DOMAIN t, i < j
      PROVE  t[i].id <= t[j].id /\ (t[j].part = "mark" => t[i].id < t[j].id)
  <2>1. k + i < k + j
    BY <1>1, <1>3
  <2>2. /\ s[k + i].id <= s[k + j].id
        /\ s[k + j].part = "mark" => s[k + i].id < s[k + j].id
    BY <1>2, <2>1 DEF AsCaptured
  <2> QED BY <1>2, <2>2
<1>4. ASSUME NEW j \in DOMAIN t, t[j].part # "mark"
      PROVE  /\ j > 1 /\ t[j - 1].id = t[j].id
             /\ t[j - 1].part # "tail" /\ t[j].part = Behind(t[j - 1].part)
  <2>1. s[k + j].part # "mark"
    BY <1>2, <1>4
  <2>2. /\ s[(k + j) - 1].id = s[k + j].id
        /\ s[(k + j) - 1].part # "tail" /\ s[k + j].part = Behind(s[(k + j) - 1].part)
    BY <1>2, <2>1 DEF AsCaptured
  <2>3. j # 1
    <3>1. j = 1 => k + j = k + 1 /\ k < Len(s)
      BY <1>1
    <3> QED BY <2>1, <3>1
  <2>4. j - 1 \in DOMAIN t /\ (k + j) - 1 = k + (j - 1) /\ j > 1
    BY <1>1, <2>3
  <2>5. t[j - 1] = s[(k + j) - 1] /\ t[j] = s[k + j]
    BY <1>2, <2>4
  <2> QED BY <2>2, <2>4, <2>5
<1> QED BY <1>3, <1>4 DEF AsCaptured

(* What is behind a tail begins with a mark, and is later than that tail. *)
LEMMA BehindATail ==
  ASSUME NEW s \in Seq(Pieces), AsCaptured(s), NEW k \in DOMAIN s, s[k].part = "tail"
  PROVE  /\ k < Len(s) => s[k + 1].part = "mark"
         /\ \A i \in DOMAIN s : k < i => s[k].id < s[i].id
<1>1. /\ DOMAIN s = 1 .. Len(s) /\ Len(s) \in Nat
      /\ \A i \in 1 .. Len(s) : s[i].id \in 1 .. MaxFrame
  BY PieceFacts
<1>2. ASSUME k < Len(s) PROVE s[k + 1].part = "mark" /\ k + 1 \in DOMAIN s
  <2>1. k + 1 \in DOMAIN s /\ (k + 1) - 1 = k
    BY <1>1, <1>2
  <2> QED BY <2>1 DEF AsCaptured
<1>3. ASSUME NEW i \in DOMAIN s, k < i PROVE s[k].id < s[i].id
  <2>1. k < Len(s) /\ k < k + 1
    BY <1>1, <1>3
  <2>2. s[k].id < s[k + 1].id
    BY <1>2, <2>1 DEF AsCaptured
  <2>3. i = k + 1 \/ k + 1 < i
    BY <1>1, <1>3
  <2>4. i = k + 1 \/ s[k + 1].id <= s[i].id
    BY <1>2, <2>1, <2>3 DEF AsCaptured
  <2>5. s[k].id \in Int /\ s[k + 1].id \in Int /\ s[i].id \in Int
    BY <1>1, <1>2, <2>1
  <2> QED BY <2>2, <2>4, <2>5
<1> QED BY <1>2, <1>3

--------------------------------------------------------------------------------
(* The stream *)

LEMMA StreamFacts ==
  ASSUME TypeOK
  PROVE  /\ Stream \in Seq(Pieces) /\ Len(Stream) = Len(buffer) + Len(wire)
         /\ Len(buffer) \in Nat /\ Len(wire) \in Nat
         /\ DOMAIN Stream = 1 .. Len(buffer) + Len(wire)
         /\ DOMAIN buffer = 1 .. Len(buffer) /\ DOMAIN wire = 1 .. Len(wire)
         /\ \A i \in 1 .. Len(buffer) : Stream[i] = buffer[i]
         /\ \A i \in 1 .. Len(wire) : Stream[Len(buffer) + i] = wire[i]
<1>1. buffer \in Seq(Pieces) /\ wire \in Seq(Pieces)
  BY DEF TypeOK
<1>2. /\ Len(buffer) \in Nat /\ Len(wire) \in Nat
      /\ DOMAIN buffer = 1 .. Len(buffer) /\ DOMAIN wire = 1 .. Len(wire)
  BY <1>1, PieceFacts
<1>3. /\ Stream \in Seq(Pieces) /\ Len(Stream) = Len(buffer) + Len(wire)
      /\ \A i \in 1 .. Len(buffer) + Len(wire) :
           Stream[i] = IF i <= Len(buffer) THEN buffer[i] ELSE wire[i - Len(buffer)]
  BY <1>1, ConcatProperties DEF Stream
<1>4. DOMAIN Stream = 1 .. Len(buffer) + Len(wire)
  BY <1>3, PieceFacts
<1>5. \A i \in 1 .. Len(buffer) : Stream[i] = buffer[i]
  BY <1>2, <1>3
<1>6. ASSUME NEW i \in 1 .. Len(wire) PROVE Stream[Len(buffer) + i] = wire[i]
  <2>1. Len(buffer) + i \in 1 .. Len(buffer) + Len(wire) /\ ~(Len(buffer) + i <= Len(buffer))
        /\ (Len(buffer) + i) - Len(buffer) = i
    BY <1>2
  <2> QED BY <1>3, <2>1
<1> QED BY <1>2, <1>3, <1>4, <1>5, <1>6

(* As long as there is no SOI, there are only marks, each of them all that   *)
(* came of its frame.                                                       *)
LEMMA OnlyMarks ==
  ASSUME TypeOK, AsCaptured(Stream), NEW n \in 1 .. Len(buffer),
         \A j \in 1 .. n - 1 : ~Soi(j)
  PROVE  \A j \in 1 .. n : buffer[j].part = "mark"
<1>1. buffer \in Seq(Pieces) /\ Len(buffer) \in Nat /\ DOMAIN buffer = 1 .. Len(buffer)
  BY PieceFacts DEF TypeOK
<1>2. ASSUME NEW j \in 1 .. n, buffer[j].part # "mark"
      PROVE  /\ j - 1 \in 1 .. n - 1 /\ buffer[j - 1].part \in {"mark", "head"}
             /\ buffer[j].part = Behind(buffer[j - 1].part)
  <2>1. j \in DOMAIN Stream /\ Stream[j] = buffer[j]
    BY <1>1, StreamFacts
  <2>2. /\ j > 1 /\ Stream[j - 1].part # "tail"
        /\ Stream[j].part = Behind(Stream[j - 1].part)
    BY <1>2, <2>1 DEF AsCaptured
  <2>3. j - 1 \in 1 .. n - 1 /\ j - 1 \in 1 .. Len(buffer)
    BY <1>1, <2>2
  <2>4. Stream[j - 1] = buffer[j - 1] /\ buffer[j - 1].part \in {"mark", "head", "tail"}
    BY <1>1, <2>3, StreamFacts, PieceFacts
  <2> QED BY <2>1, <2>2, <2>3, <2>4
<1>3. ASSUME NEW j \in 1 .. n PROVE buffer[j].part # "head"
  <2>1. SUFFICES ASSUME buffer[j].part = "head" PROVE FALSE
    OBVIOUS
  <2>2. j - 1 \in 1 .. n - 1 /\ buffer[j - 1].part = "mark"
    BY <1>2, <2>1 DEF Behind
  <2>3. j - 1 \in DOMAIN buffer /\ (j - 1) + 1 \in DOMAIN buffer /\ (j - 1) + 1 = j
    BY <1>1, <2>2
  <2>4. Soi(j - 1)
    BY <2>1, <2>2, <2>3 DEF Soi
  <2> QED BY <2>2, <2>4
<1>4. ASSUME NEW j \in 1 .. n PROVE buffer[j].part # "tail"
  <2>1. SUFFICES ASSUME buffer[j].part = "tail" PROVE FALSE
    OBVIOUS
  <2>2. j - 1 \in 1 .. n - 1 /\ buffer[j - 1].part = "head"
    BY <1>2, <2>1 DEF Behind
  <2>3. j - 1 \in 1 .. n
    BY <1>1, <2>2
  <2> QED BY <1>3, <2>2, <2>3
<1>5. ASSUME NEW j \in 1 .. n PROVE buffer[j].part \in {"mark", "head", "tail"}
  <2>1. j \in 1 .. Len(buffer)
    BY <1>1
  <2> QED BY <1>1, <2>1, PieceFacts
<1> QED BY <1>3, <1>4, <1>5

(* Reading moves pieces from the wire to the buffer. *)
LEMMA ReceiveKeeps ==
  ASSUME TypeOK, Receive
  PROVE  /\ Stream' = Stream /\ buffer' # <<>>
         /\ buffer' \in Seq(Pieces) /\ wire' \in Seq(Pieces) /\ Len(wire') <= WireRoom
<1>1. PICK n \in 1 .. Len(wire) :
        /\ buffer' = buffer \o SubSeq(wire, 1, n)
        /\ wire' = SubSeq(wire, n + 1, Len(wire))
  BY DEF Receive
<1>2. buffer \in Seq(Pieces) /\ wire \in Seq(Pieces) /\ Len(wire) \in Nat /\ Len(wire) <= WireRoom
  BY PieceFacts DEF TypeOK
<1>3. \A i \in 1 .. Len(wire) : wire[i] \in Pieces
  BY <1>2, ElementOfSeq
<1>4. SubSeq(wire, 1, n) \in Seq(Pieces) /\ Len(SubSeq(wire, 1, n)) = n
  <2>1. \A i \in 1 .. n : wire[i] \in Pieces
    BY <1>2, <1>3
  <2> QED BY <1>2, <2>1, SubSeqProperties
<1>5. wire' \in Seq(Pieces) /\ Len(wire') = Len(wire) - n
  <2>1. \A i \in n + 1 .. Len(wire) : wire[i] \in Pieces
    BY <1>2, <1>3
  <2>2. n + 1 \in Int /\ Len(wire) \in Int
    BY <1>2
  <2>3. /\ SubSeq(wire, n + 1, Len(wire)) \in Seq(Pieces)
        /\ Len(SubSeq(wire, n + 1, Len(wire)))
             = IF n + 1 <= Len(wire) THEN Len(wire) - (n + 1) + 1 ELSE 0
    BY <2>1, <2>2, SubSeqProperties
  <2> QED BY <1>1, <1>2, <2>3
<1>6. buffer' \in Seq(Pieces) /\ buffer' # <<>>
  <2>1. buffer' \in Seq(Pieces) /\ Len(buffer') = Len(buffer) + n
    BY <1>1, <1>2, <1>4, ConcatProperties
  <2>2. Len(buffer) \in Nat
    BY <1>2, PieceFacts
  <2> QED BY <1>2, <2>1, <2>2, PieceFacts
<1>7. SubSeq(wire, 1, n) \o wire' = wire
  <2>1. 1 \in 1 .. Len(wire) + 1 /\ n \in 0 .. Len(wire) /\ Len(wire) \in n .. Len(wire)
        /\ 1 - 1 = 0
    BY <1>2
  <2>2. SubSeq(wire, 1, n) \o SubSeq(wire, n + 1, Len(wire)) = SubSeq(wire, 1, Len(wire))
    BY <1>2, <2>1, ConcatAdjacentSubSeq
  <2> QED BY <1>1, <1>2, <2>2, SubSeqFull
<1>8. Stream' = Stream
  <2> DEFINE chunk == SubSeq(wire, 1, n)
  <2>1. chunk \in Seq(Pieces) /\ wire = chunk \o wire' /\ buffer' = buffer \o chunk
    BY <1>1, <1>4, <1>7
  <2> HIDE DEF chunk
  <2>2. buffer' \o wire' = buffer \o wire
    BY <1>2, <1>5, <2>1, MovesOver
  <2> QED BY <2>2 DEF Stream
<1> QED BY Constants, <1>2, <1>5, <1>6, <1>8

(* What is dropped are marks of which no more came, never the last piece,    *)
(* and what remains begins with a mark and has no tail.                     *)
LEMMA SplitFacts ==
  ASSUME TypeOK, AsCaptured(Stream), NothingToCut
  PROVE  \E k \in 0 .. Len(buffer) :
           /\ \A j \in 1 .. k : buffer[j].part = "mark"
           /\ k < Len(buffer) => buffer[k + 1].part = "mark"
           /\ k > 0 => k < Len(buffer)
           /\ buffer' \in Seq(Pieces) /\ Len(buffer') = Len(buffer) - k
           /\ \A i \in 1 .. Len(buffer') : buffer'[i] = buffer[k + i]
           /\ NoTail(buffer')
<1>1. buffer \in Seq(Pieces) /\ Len(buffer) \in Nat /\ DOMAIN buffer = 1 .. Len(buffer)
  BY PieceFacts DEF TypeOK
<1>2. CASE buffer = <<>>
  <2>1. DOMAIN buffer = {} /\ Len(buffer) = 0
    BY <1>2
  <2>2. buffer' = <<>>
    BY <1>2, <2>1 DEF NothingToCut
  <2>3. buffer' \in Seq(Pieces) /\ Len(buffer') = 0 /\ DOMAIN buffer' = {}
    BY <2>2, EmptySeq
  <2>4. NoTail(buffer')
    BY <2>3 DEF NoTail
  <2>5. 0 \in 0 .. Len(buffer) /\ 1 .. 0 = {} /\ Len(buffer') = Len(buffer) - 0 /\ ~(0 > 0)
        /\ ~(0 < Len(buffer)) /\ 1 .. Len(buffer') = {}
    BY <2>1, <2>3
  <2> QED BY <2>3, <2>4, <2>5
<1>3. CASE buffer # <<>> /\ \A i \in DOMAIN buffer : ~Soi(i)
  <2> DEFINE n == Len(buffer)
  <2>1. n \in 1 .. Len(buffer) /\ \A j \in 1 .. n - 1 : j \in DOMAIN buffer
    BY <1>1, <1>3, PieceFacts
  <2>2. \A j \in 1 .. n : buffer[j].part = "mark"
    BY <1>3, <2>1, OnlyMarks
  <2>3. buffer' = <<buffer[n]>>
    BY <1>3 DEF NothingToCut, FirstSoi
  <2>4. buffer[n] \in Pieces
    BY <1>1, <2>1, ElementOfSeq
  <2>5. /\ buffer' \in Seq(Pieces) /\ Len(buffer') = 1 /\ DOMAIN buffer' = 1 .. 1
        /\ buffer'[1] = buffer[n]
    BY <2>3, <2>4
  <2>6. n - 1 \in 0 .. n /\ (n - 1) + 1 = n /\ n - (n - 1) = 1 /\ n - 1 < n
        /\ \A j \in 1 .. n - 1 : j \in 1 .. n
    BY <2>1
  <2>7. NoTail(buffer')
    BY <2>2, <2>1, <2>5 DEF NoTail
  <2>8. \A i \in 1 .. 1 : i = 1
    OBVIOUS
  <2> HIDE DEF n
  <2>9. \A i \in 1 .. Len(buffer') : buffer'[i] = buffer[(n - 1) + i]
    BY <2>5, <2>6, <2>8
  <2>10. n = Len(buffer)
    BY DEF n
  <2> QED BY <2>1, <2>2, <2>5, <2>6, <2>7, <2>9, <2>10
<1>4. CASE \E i \in DOMAIN buffer : Soi(i)
  <2>1. PICK soi \in DOMAIN buffer :
          FirstSoi(soi) /\ buffer' = SubSeq(buffer, soi, Len(buffer))
    BY <1>4 DEF NothingToCut
  <2>2. Soi(soi) /\ soi \in 1 .. Len(buffer)
    BY <1>1, <2>1 DEF FirstSoi
  <2>3. \A j \in 1 .. soi : buffer[j].part = "mark"
    BY <2>1, <2>2, OnlyMarks DEF FirstSoi
  <2>4. /\ buffer' \in Seq(Pieces) /\ Len(buffer') = Len(buffer) - soi + 1
        /\ \A i \in 1 .. Len(buffer) - soi + 1 : buffer'[i] = buffer[soi + i - 1]
    <3>1. soi \in Int /\ 1 <= soi /\ soi <= Len(buffer)
      BY <1>1, <2>2
    <3> QED BY <1>1, <2>1, <3>1, RestFacts
  <2> DEFINE k == soi - 1
  <2>5. /\ k \in 0 .. Len(buffer) /\ k < Len(buffer) /\ k + 1 = soi
        /\ Len(buffer) - soi + 1 = Len(buffer) - k
        /\ \A i \in 1 .. Len(buffer) - k : soi + i - 1 = k + i
        /\ \A j \in 1 .. k : j \in 1 .. soi
        /\ soi \in 1 .. soi
    BY <1>1, <2>2
  <2> HIDE DEF k
  <2>6. Len(buffer') = Len(buffer) - k /\ \A i \in 1 .. Len(buffer') : buffer'[i] = buffer[k + i]
    BY <2>4, <2>5
  <2>7. ASSUME NEW i \in DOMAIN buffer' PROVE buffer'[i].part # "tail"
    <3>1. i \in 1 .. Len(buffer) - k
      BY <2>4, <2>6, PieceFacts
    <3>2. buffer'[i] = buffer[k + i]
      BY <2>6, <3>1
    <3>5. k \in Int /\ i \in Int /\ soi = k + 1 /\ 1 <= i /\ 0 <= k /\ i <= Len(buffer) - k
      BY <1>1, <2>5, <3>1
    <3>6. k + i \in 1 .. Len(buffer) /\ (k + i = soi \/ soi < k + i)
      BY <1>1, <3>5
    <3>3. buffer[soi].part = "mark"
      BY <2>3, <2>5
    <3>4. soi < k + i => buffer[k + i].part # "tail"
      BY <2>2, <1>1, <3>6 DEF NothingToCut
    <3> QED BY <3>2, <3>3, <3>4, <3>6
  <2>8. NoTail(buffer')
    BY <2>7 DEF NoTail
  <2> QED BY <2>3, <2>4, <2>5, <2>6, <2>8
<1> QED BY <1>2, <1>3, <1>4

(* A frame is cut off the front of the stream: it begins with the first SOI, *)
(* only marks are before that, and it ends with the first tail.             *)
LEMMA CutFacts ==
  ASSUME TypeOK, AsCaptured(Stream), CutFrame
  PROVE  \E soi \in 1 .. Len(buffer), k \in 1 .. Len(buffer) :
           /\ soi + 2 <= k /\ buffer[k].part = "tail" /\ buffer[soi + 1].part = "head"
           /\ \A j \in 1 .. soi : buffer[j].part = "mark"
           /\ \A j \in 1 .. k - 1 : buffer[j].part # "tail"
           /\ items' = Append(items, FrameItem(SubSeq(buffer, soi, k)))
           /\ buffer' \in Seq(Pieces) /\ Len(buffer') = Len(buffer) - k
           /\ \A i \in 1 .. Len(buffer') : buffer'[i] = buffer[k + i]
<1>1. buffer \in Seq(Pieces) /\ Len(buffer) \in Nat /\ DOMAIN buffer = 1 .. Len(buffer)
  BY PieceFacts DEF TypeOK
<1>2. PICK soi \in DOMAIN buffer, k \in DOMAIN buffer :
        /\ FirstSoi(soi) /\ FirstEoi(soi + 2, k)
        /\ items' = Append(items, FrameItem(SubSeq(buffer, soi, k)))
        /\ buffer' = SubSeq(buffer, k + 1, Len(buffer))
  BY DEF CutFrame
<1>3. soi \in 1 .. Len(buffer) /\ buffer[soi + 1].part = "head"
  BY <1>1, <1>2 DEF FirstSoi, Soi
<1>4. \A j \in 1 .. soi : buffer[j].part = "mark"
  BY <1>2, <1>3, OnlyMarks DEF FirstSoi
<1>5. /\ k \in 1 .. Len(buffer) /\ soi + 2 <= k /\ buffer[k].part = "tail"
      /\ \A j \in soi + 2 .. k - 1 : buffer[j].part # "tail"
  BY <1>1, <1>2, <1>3 DEF FirstEoi
<1>6. \A j \in 1 .. k - 1 : buffer[j].part # "tail"
  <2>1. \A j \in 1 .. k - 1 : j \in 1 .. soi \/ j = soi + 1 \/ j \in soi + 2 .. k - 1
    BY <1>3, <1>5
  <2> QED BY <1>3, <1>4, <1>5, <2>1
<1>7. /\ buffer' \in Seq(Pieces) /\ Len(buffer') = Len(buffer) - k
      /\ \A i \in 1 .. Len(buffer') : buffer'[i] = buffer[k + i]
  <2>1. /\ buffer' \in Seq(Pieces)
        /\ Len(buffer') = IF k + 1 <= Len(buffer) THEN Len(buffer) - (k + 1) + 1 ELSE 0
        /\ \A i \in 1 .. Len(buffer) - (k + 1) + 1 : buffer'[i] = buffer[(k + 1) + i - 1]
    <3> DEFINE m == k + 1
    <3>1. m \in Int /\ 1 <= m
      BY <1>1
    <3>2. buffer' = SubSeq(buffer, m, Len(buffer))
      BY <1>2
    <3> HIDE DEF m
    <3>3. /\ buffer' \in Seq(Pieces)
          /\ Len(buffer') = IF m <= Len(buffer) THEN Len(buffer) - m + 1 ELSE 0
          /\ \A i \in 1 .. Len(buffer) - m + 1 : buffer'[i] = buffer[m + i - 1]
      BY <1>1, <3>1, <3>2, RestFacts
    <3> QED BY <3>3 DEF m
  <2>2. Len(buffer') = Len(buffer) - k /\ Len(buffer) - (k + 1) + 1 = Len(buffer) - k
    BY <1>1, <1>5, <2>1
  <2>3. \A i \in 1 .. Len(buffer') : (k + 1) + i - 1 = k + i
    BY <1>1
  <2> QED BY <2>1, <2>2, <2>3
<1> QED BY <1>2, <1>3, <1>4, <1>5, <1>6, <1>7

(* The stream behind what is cut off it. *)
LEMMA CutStream ==
  ASSUME TypeOK, UNCHANGED wire, NEW k \in 0 .. Len(buffer),
         buffer' \in Seq(Pieces), Len(buffer') = Len(buffer) - k,
         \A i \in 1 .. Len(buffer') : buffer'[i] = buffer[k + i]
  PROVE  /\ Stream' \in Seq(Pieces) /\ Len(Stream') = Len(Stream) - k
         /\ DOMAIN Stream' = 1 .. Len(Stream')
         /\ \A i \in 1 .. Len(Stream') : Stream'[i] = Stream[k + i]
<1>1. wire \in Seq(Pieces)
  BY DEF TypeOK
<1>2. /\ Stream' \in Seq(Pieces) /\ Len(Stream') = Len(buffer') + Len(wire)
      /\ \A i \in 1 .. Len(buffer') + Len(wire) :
           Stream'[i] = IF i <= Len(buffer') THEN buffer'[i] ELSE wire[i - Len(buffer')]
  BY <1>1, ConcatProperties DEF Stream
<1>3. Len(Stream') = Len(Stream) - k
  BY <1>2, StreamFacts
<1>4. DOMAIN Stream' = 1 .. Len(Stream')
  BY <1>2, LenProperties
<1>5. ASSUME NEW i \in 1 .. Len(Stream') PROVE Stream'[i] = Stream[k + i]
  <2>1. CASE i <= Len(buffer')
    <3>1. k + i \in 1 .. Len(buffer) /\ i \in 1 .. Len(buffer')
      BY <1>2, <2>1, StreamFacts
    <3> QED BY <1>2, <2>1, <3>1, StreamFacts
  <2>2. CASE ~(i <= Len(buffer'))
    <3>1. i - Len(buffer') \in 1 .. Len(wire) /\ k + i = Len(buffer) + (i - Len(buffer'))
      BY <1>2, <2>2, StreamFacts
    <3>2. Stream[Len(buffer) + (i - Len(buffer'))] = wire[i - Len(buffer')]
      BY <3>1, StreamFacts
    <3> QED BY <1>2, <2>2, <3>1, <3>2
  <2> QED BY <2>1, <2>2
<1> QED BY <1>2, <1>3, <1>4, <1>5

--------------------------------------------------------------------------------
(* What the steps have in common *)

(* The items in the way they are used. *)
LEMMA LastIdFact ==
  ASSUME NEW item \in Items, item.pieces # <<>>
  PROVE  LastId(item) \in Nat
<1>1. item.pieces \in Seq(Pieces)
  BY DEF Items
<1>2. Len(item.pieces) \in 1 .. Len(item.pieces)
  BY <1>1, PieceFacts
<1>3. item.pieces[Len(item.pieces)].id \in 1 .. MaxFrame
  BY <1>1, <1>2, PieceFacts
<1> QED BY <1>3, Constants DEF LastId

LEMMA ItemFacts ==
  ASSUME TypeOK
  PROVE  /\ Len(items) \in Nat /\ DOMAIN items = 1 .. Len(items)
         /\ items # <<>> <=> Len(items) > 0
         /\ \A i \in 1 .. Len(items) : items[i] \in Items /\ items[i].pieces \in Seq(Pieces)
<1>1. items \in Seq(Items)
  BY DEF TypeOK
<1>2. \A i \in 1 .. Len(items) : items[i] \in Items
  BY <1>1, ElementOfSeq
<1> QED BY <1>1, <1>2, LenProperties, EmptySeq DEF Items

(* The stream, and what of it was offered, stays in order where neither is   *)
(* touched.                                                                 *)
LEMMA OrderKept ==
  ASSUME Numbered, InOrder, Stream' = Stream, UNCHANGED <<items, newest, captured>>
  PROVE  Numbered' /\ InOrder'
<1>1. Frames' = Frames
  BY DEF Frames, IsFrame
<1>2. InOrder'
  BY <1>1 DEF InOrder, LastId
<1>3. Numbered'
  BY <1>1 DEF Numbered, AsCaptured, LastId
<1> QED BY <1>2, <1>3

LEMMA StitchedKept ==
  ASSUME StitchedOnlyAtReconnect, UNCHANGED items, patched => patched'
  PROVE  StitchedOnlyAtReconnect'
<1>1. Frames' = Frames
  BY DEF Frames, IsFrame
<1> QED BY <1>1 DEF StitchedOnlyAtReconnect, IsWhole

(* Frames that are gone cannot be wrong. *)
LEMMA NoFrames ==
  ASSUME Numbered, Stream' = Stream, UNCHANGED <<newest, captured>>, Frames' = {}
  PROVE  Numbered' /\ InOrder' /\ StitchedOnlyAtReconnect'
  BY DEF Numbered, AsCaptured, InOrder, StitchedOnlyAtReconnect

LEMMA OrphansKept ==
  ASSUME Orphans, Stream' = Stream, PatchToCome => PatchToCome',
         /\ conn' = "open" /\ sent' = "tail" /\ Unfinished(Stream) =>
              \/ conn = "open" /\ sent = "tail" /\ (wire = <<>> => wire' = <<>>) /\ pc' # "split"
              \/ PatchToCome' /\ wire' = <<>> /\ pc' # "split"
  PROVE  Orphans'
  BY DEF Orphans, Unfinished

(* The steps of others that leave the relay and its socket alone. *)
LEMMA ElsewhereStep ==
  ASSUME RelayInv, TypeOK', UNCHANGED <<conn, wire, captured, sent, pc, stream, history>>
  PROVE  RelayInv'
<1> USE DEF RelayInv, stream, history
<1>1. Stream' = Stream
  BY DEF Stream
<1>2. Numbered' /\ InOrder'
  BY <1>1, OrderKept
<1>3. StitchedOnlyAtReconnect'
  BY StitchedKept
<1>4. PatchToCome' <=> PatchToCome
  BY DEF PatchToCome, Frames, IsFrame
<1>5. Orphans'
  <2>1. pc' = pc /\ wire' = wire /\ conn' = conn /\ sent' = sent
    OBVIOUS
  <2> QED BY <1>1, <1>4, <2>1 DEF Orphans, Unfinished
<1>6. Phases'
  BY <1>1 DEF Phases, Unfinished, NoTail, IsFrame
<1>7. Patience'
  BY DEF Patience
<1> QED BY <1>2, <1>3, <1>5, <1>6, <1>7

--------------------------------------------------------------------------------
(* The capture daemon and the viewer *)

LEMMA BeginsStep ==
  ASSUME RelayInv, CaptureBegins PROVE RelayInv'
<1> USE DEF RelayInv, CaptureBegins, stream, pacer, watcher, history
<1> DEFINE n == captured + 1
           p == [id |-> n, part |-> "mark"]
<1>1. n \in 1 .. MaxFrame /\ p \in Pieces
  BY Constants DEF TypeOK, Pieces
<1>2. wire \in Seq(Pieces) /\ wire' = Append(wire, p) /\ Len(wire) < WireRoom
  BY DEF TypeOK
<1>3. wire' \in Seq(Pieces) /\ Len(wire') = Len(wire) + 1 /\ Len(wire) \in Nat
  BY <1>1, <1>2, AppendProperties, PieceFacts
<1>4. TypeOK'
  BY <1>1, <1>2, <1>3, Constants DEF TypeOK
<1>5. Stream' = Append(Stream, p)
  <2>1. buffer \in Seq(Pieces)
    BY DEF TypeOK
  <2>2. buffer' = buffer
    OBVIOUS
  <2> QED BY <1>1, <1>2, <2>1, <2>2 DEF Stream
<1>6. Stream \in Seq(Pieces) /\ AsCaptured(Stream) /\ \A i \in DOMAIN Stream : Stream[i].id < n
  <2>1. \A i \in DOMAIN Stream : Stream[i].id \in 1 .. MaxFrame /\ Stream[i].id <= captured
    BY StreamFacts, PieceFacts DEF Numbered
  <2>2. captured \in 0 .. MaxFrame
    BY DEF TypeOK
  <2> QED BY <2>1, <2>2, StreamFacts, Constants DEF Numbered
<1>7. AsCaptured(Stream')
  BY <1>1, <1>5, <1>6, AppendKeepsOrder
<1>8. /\ Len(Stream) \in Nat /\ Len(Stream') = Len(Stream) + 1
      /\ DOMAIN Stream = 1 .. Len(Stream) /\ DOMAIN Stream' = 1 .. Len(Stream) + 1
      /\ \A i \in 1 .. Len(Stream) : Stream'[i] = Stream[i]
      /\ Stream'[Len(Stream) + 1] = p /\ p.id = n /\ p.part = "mark"
  <2>1. Stream' \in Seq(Pieces)
    BY <1>1, <1>5, <1>6, AppendProperties
  <2> QED BY <1>1, <1>5, <1>6, <2>1, AppendProperties, PieceFacts
<1> HIDE DEF p
<1>9. items' = items /\ newest' = newest /\ captured' = n /\ captured \in Nat /\ n = captured + 1
      /\ sent = "tail" /\ sent' = "mark"
  BY DEF TypeOK
<1>10. Frames' = Frames
  BY <1>9 DEF Frames, IsFrame
<1> HIDE DEF n
<1>11. Numbered'
  <2>1. newest' <= captured' /\ newest' < n
    <3>1. newest \in Nat /\ newest <= captured
      BY DEF Numbered, TypeOK
    <3> QED BY <1>9, <3>1
  <2>2. \A i \in DOMAIN Stream' : newest' < Stream'[i].id /\ Stream'[i].id <= captured'
    <3>1. \A i \in 1 .. Len(Stream) : newest < Stream[i].id /\ Stream[i].id <= captured
                                      /\ Stream[i].id \in Nat
      BY <1>6, <1>8, PieceFacts DEF Numbered
    <3>2. \A i \in 1 .. Len(Stream) + 1 : i \in 1 .. Len(Stream) \/ i = Len(Stream) + 1
      BY <1>8
    <3> QED BY <1>8, <1>9, <2>1, <3>1, <3>2
  <2>3. ASSUME NEW i \in Frames
        PROVE  /\ items[i].pieces # <<>> /\ LastId(items[i]) <= n
               /\ \A j \in DOMAIN Stream' : LastId(items[i]) < Stream'[j].id
    <3>1. /\ items[i].pieces # <<>> /\ LastId(items[i]) <= captured
          /\ \A j \in DOMAIN Stream : LastId(items[i]) < Stream[j].id
      BY DEF Numbered
    <3>2. LastId(items[i]) \in Nat
      <4>1. items[i] \in Items
        BY ItemFacts DEF Frames
      <4> QED BY <3>1, <4>1, LastIdFact
    <3>3. \A j \in 1 .. Len(Stream) + 1 : j \in 1 .. Len(Stream) \/ j = Len(Stream) + 1
      BY <1>8
    <3> QED BY <1>8, <1>9, <3>1, <3>2, <3>3
  <2>4. AsCaptured(Stream)'
    BY <1>7 DEF AsCaptured
  <2> QED BY <1>9, <1>10, <2>1, <2>2, <2>3, <2>4 DEF Numbered, LastId
<1>12. InOrder'
  BY <1>9, <1>10 DEF InOrder, LastId
<1>13. StitchedOnlyAtReconnect'
  BY StitchedKept
<1>14. Orphans'
  <2>1. sent' # "tail"
    BY <1>9
  <2>2. PatchToCome => PatchToCome'
    BY <1>10 DEF PatchToCome
  <2>3. ASSUME NEW i \in DOMAIN Stream', i > 1,
               Stream'[i].part = "mark", Stream'[i - 1].part # "tail"
        PROVE  PatchToCome /\ \A j \in 1 .. i : Stream'[j].part # "tail"
    <3>1. CASE i \in 1 .. Len(Stream)
      <4>1. /\ i - 1 \in 1 .. Len(Stream)
            /\ \A j \in 1 .. i : j \in 1 .. Len(Stream)
        BY <2>3, <3>1, <1>8
      <4>2. Stream[i].part = "mark" /\ Stream[i - 1].part # "tail"
        BY <1>8, <2>3, <3>1, <4>1
      <4>3. PatchToCome /\ \A j \in 1 .. i : Stream[j].part # "tail"
        BY <1>8, <2>3, <3>1, <4>2 DEF Orphans
      <4> QED BY <1>8, <4>1, <4>3
    <3>2. CASE i = Len(Stream) + 1
      <4>1. Len(Stream) \in 1 .. Len(Stream) /\ i - 1 = Len(Stream)
        BY <1>8, <2>3, <3>2
      <4>2. Unfinished(Stream)
        <5>1. Stream # <<>>
          BY <1>6, <4>1, PieceFacts
        <5> QED BY <1>8, <2>3, <4>1, <5>1 DEF Unfinished
      <4>3. PatchToCome /\ wire = <<>> /\ pc # "split"
        BY <1>9, <4>2 DEF Orphans
      <4>4. NoTail(buffer) /\ Len(wire) = 0
        BY <4>3 DEF Phases
      <4>5. Len(buffer) = Len(Stream)
        BY <4>4, StreamFacts
      <4>6. \A j \in 1 .. Len(Stream) : Stream[j].part # "tail"
        BY <4>4, <4>5, StreamFacts DEF NoTail
      <4>7. \A j \in 1 .. i : j \in 1 .. Len(Stream) \/ j = i
        BY <1>8, <3>2
      <4> QED BY <1>8, <2>3, <4>3, <4>6, <4>7
    <3> QED BY <1>8, <3>1, <3>2
  <2> QED BY <2>1, <2>2, <2>3 DEF Orphans
<1>15. Phases'
  <2>1. Stream' # <<>>
    BY <1>5, <1>6, <1>1, AppendProperties DEF p
  <2>2. pc \notin {"backoff", "connect"}
    BY DEF Phases
  <2>3. Stream'[Len(Stream')] = [id |-> captured', part |-> sent']
    BY <1>8, <1>9 DEF p, n
  <2> QED BY <1>9, <2>1, <2>2, <2>3 DEF Phases, NoTail, IsFrame
<1>16. Patience'
  BY <1>3, EmptySeq DEF Patience
<1> QED BY <1>4, <1>11, <1>12, <1>13, <1>14, <1>15, <1>16

(* A frame under way is the last thing in the stream. *)
LEMMA UnderWay ==
  ASSUME TypeOK, Phases, sent # "tail"
  PROVE  /\ Unfinished(Stream) /\ Stream[Len(Stream)].id = captured
         /\ Stream[Len(Stream)].part = sent /\ conn = "open" /\ captured \in 1 .. MaxFrame
<1>1. /\ Stream # <<>> /\ conn = "open"
      /\ Stream[Len(Stream)] = [id |-> captured, part |-> sent]
  BY DEF Phases
<1>2. Stream \in Seq(Pieces) /\ Len(Stream) \in 1 .. Len(Stream)
  BY <1>1, StreamFacts, PieceFacts
<1>3. Stream[Len(Stream)].id \in 1 .. MaxFrame
  BY <1>2, PieceFacts
<1> QED BY <1>1, <1>3 DEF Unfinished

LEMMA GoesOnStep ==
  ASSUME RelayInv, CaptureGoesOn PROVE RelayInv'
<1> USE DEF RelayInv, CaptureGoesOn, stream, pacer, watcher, history
<1> DEFINE p == [id |-> captured, part |-> Behind(sent)]
<1>0. /\ Unfinished(Stream) /\ Stream[Len(Stream)].id = captured
      /\ Stream[Len(Stream)].part = sent /\ captured \in 1 .. MaxFrame
  BY UnderWay
<1>1. p \in Pieces /\ sent' = Behind(sent) /\ sent' \in {"mark", "head", "tail"}
  BY <1>0 DEF Pieces, Behind
<1>2. wire \in Seq(Pieces) /\ wire' = Append(wire, p) /\ Len(wire) < WireRoom
  BY DEF TypeOK
<1>3. wire' \in Seq(Pieces) /\ Len(wire') = Len(wire) + 1 /\ Len(wire) \in Nat
  BY <1>1, <1>2, AppendProperties, PieceFacts
<1>4. TypeOK'
  BY <1>0, <1>1, <1>2, <1>3, Constants DEF TypeOK
<1>5. Stream' = Append(Stream, p)
  <2>1. buffer \in Seq(Pieces)
    BY DEF TypeOK
  <2>2. buffer' = buffer
    OBVIOUS
  <2> QED BY <1>1, <1>2, <2>1, <2>2 DEF Stream
<1>6. /\ Stream \in Seq(Pieces) /\ AsCaptured(Stream) /\ Unfinished(Stream)
      /\ Stream[Len(Stream)].id = p.id /\ p.part = Behind(Stream[Len(Stream)].part)
  BY <1>0, StreamFacts DEF Numbered
<1>7. AsCaptured(Stream')
  BY <1>1, <1>5, <1>6, AppendKeepsOrder
<1>8. /\ Len(Stream) \in Nat /\ Len(Stream') = Len(Stream) + 1 /\ Len(Stream) > 0
      /\ DOMAIN Stream = 1 .. Len(Stream) /\ DOMAIN Stream' = 1 .. Len(Stream) + 1
      /\ \A i \in 1 .. Len(Stream) : Stream'[i] = Stream[i]
      /\ Stream'[Len(Stream) + 1] = p /\ p.id = captured /\ p.part = sent'
  <2>1. Stream' \in Seq(Pieces)
    BY <1>1, <1>5, <1>6, AppendProperties
  <2> QED BY <1>1, <1>5, <1>6, <2>1, AppendProperties, PieceFacts DEF Unfinished
<1> HIDE DEF p
<1>9. items' = items /\ newest' = newest /\ captured' = captured
  OBVIOUS
<1>10. Frames' = Frames
  BY <1>9 DEF Frames, IsFrame
<1>11. \A j \in DOMAIN Stream' :
         \E i \in DOMAIN Stream : Stream'[j].id = Stream[i].id
  <2>1. ASSUME NEW j \in DOMAIN Stream' PROVE \E i \in DOMAIN Stream : Stream'[j].id = Stream[i].id
    <3>1. j \in 1 .. Len(Stream) \/ j = Len(Stream) + 1
      BY <1>8
    <3>2. Len(Stream) \in DOMAIN Stream
      BY <1>8
    <3> QED BY <1>6, <1>8, <3>1, <3>2
  <2> QED BY <2>1
<1>12. Numbered'
  <2>1. AsCaptured(Stream)'
    BY <1>7 DEF AsCaptured
  <2>2. \A i \in DOMAIN Stream' : newest < Stream'[i].id /\ Stream'[i].id <= captured
    BY <1>11 DEF Numbered
  <2>3. \A i \in Frames : \A j \in DOMAIN Stream' : LastId(items[i]) < Stream'[j].id
    BY <1>11 DEF Numbered
  <2> QED BY <1>9, <1>10, <2>1, <2>2, <2>3 DEF Numbered, LastId
<1>13. InOrder'
  BY <1>9, <1>10 DEF InOrder, LastId
<1>14. StitchedOnlyAtReconnect'
  BY StitchedKept
<1>15. p.part # "mark"
  BY DEF p, Behind
<1>16. Orphans'
  <2>1. conn' = "open" /\ sent' = "tail" => ~Unfinished(Stream)'
    BY <1>8 DEF Unfinished
  <2>2. PatchToCome => PatchToCome'
    BY <1>10 DEF PatchToCome
  <2>3. ASSUME NEW i \in DOMAIN Stream', i > 1,
               Stream'[i].part = "mark", Stream'[i - 1].part # "tail"
        PROVE  PatchToCome /\ \A j \in 1 .. i : Stream'[j].part # "tail"
    <3>1. i \in 1 .. Len(Stream)
      BY <1>8, <1>15, <2>3
    <3>2. /\ i - 1 \in 1 .. Len(Stream)
          /\ \A j \in 1 .. i : j \in 1 .. Len(Stream)
      BY <2>3, <3>1, <1>8
    <3>3. Stream[i].part = "mark" /\ Stream[i - 1].part # "tail"
      BY <1>8, <2>3, <3>1, <3>2
    <3>4. PatchToCome /\ \A j \in 1 .. i : Stream[j].part # "tail"
      BY <1>8, <2>3, <3>1, <3>3 DEF Orphans
    <3> QED BY <1>8, <3>2, <3>4
  <2> QED BY <2>1, <2>2, <2>3 DEF Orphans
<1>17. Phases'
  <2>1. pc \notin {"backoff", "connect"} /\ conn' = "open"
    BY DEF Phases
  <2>2. Stream' # <<>>
    BY <1>1, <1>5, <1>6, AppendProperties
  <2>3. Stream'[Len(Stream')] = [id |-> captured', part |-> sent']
    BY <1>1, <1>8, <1>9 DEF p
  <2> QED BY <1>9, <2>1, <2>2, <2>3 DEF Phases, NoTail, IsFrame
<1>18. Patience'
  <2>1. wire' # <<>>
    BY <1>3, EmptySeq
  <2> QED BY <2>1 DEF Patience
<1> QED BY <1>4, <1>12, <1>13, <1>14, <1>16, <1>17, <1>18

LEMMA ClosesStep ==
  ASSUME RelayInv, CaptureCloses PROVE RelayInv'
<1> USE DEF RelayInv, CaptureCloses, stream, pacer, watcher, history
<1>1. TypeOK'
  BY Constants DEF TypeOK
<1>2. Stream' = Stream
  BY DEF Stream
<1>3. Numbered' /\ InOrder'
  BY <1>2, OrderKept
<1>4. StitchedOnlyAtReconnect'
  BY StitchedKept
<1>5. Orphans'
  <2>1. PatchToCome => PatchToCome'
    BY DEF PatchToCome, Frames, IsFrame
  <2>2. conn' # "open"
    BY DEF TypeOK
  <2> QED BY <1>2, <2>1, <2>2 DEF Orphans
<1>6. Phases'
  BY <1>2 DEF Phases, NoTail, IsFrame
<1>7. Patience'
  BY DEF Patience
<1> QED BY <1>1, <1>3, <1>4, <1>5, <1>6, <1>7

LEMMA CaptureStep ==
  ASSUME RelayInv, Capture PROVE RelayInv'
<1>1. CASE CaptureComesBack
  <2>1. TypeOK'
    BY <1>1 DEF RelayInv, CaptureComesBack, TypeOK, stream, pacer, watcher, history
  <2> QED BY <1>1, <2>1, ElsewhereStep DEF CaptureComesBack, stream, history
<1> QED BY <1>1, BeginsStep, GoesOnStep, ClosesStep DEF Capture

LEMMA ViewerStep ==
  ASSUME RelayInv, Viewer PROVE RelayInv'
<1> USE DEF RelayInv, TypeOK, capture, stream, pacer, history
<1>1. CASE ViewerTakes
  <2>1. unsent' \in 0 .. ViewerRoom
    BY <1>1, Constants DEF ViewerTakes
  <2> QED BY <1>1, <2>1, ElsewhereStep DEF ViewerTakes
<1>2. CASE ViewerSticks
  BY <1>2, ElsewhereStep DEF ViewerSticks
<1>3. CASE ViewerGoes
  <2>1. unsent' \in 0 .. ViewerRoom
    BY <1>3, Constants DEF ViewerGoes
  <2> QED BY <1>3, <2>1, ElsewhereStep DEF ViewerGoes
<1> QED BY <1>1, <1>2, <1>3 DEF Viewer

--------------------------------------------------------------------------------
(* CaptureStream *)

LEMMA ConnectStep ==
  ASSUME RelayInv, Connect PROVE RelayInv'
<1> USE DEF RelayInv, Connect, pacer, watcher
<1>1. TypeOK'
  BY Constants DEF TypeOK, Positions
<1>2. Stream' = Stream /\ wire = <<>> /\ items = <<>> /\ conn = "none" /\ sent = "tail"
  BY DEF Stream, Phases
<1>3. Numbered' /\ InOrder'
  BY <1>2, OrderKept
<1>4. StitchedOnlyAtReconnect'
  BY StitchedKept
<1>5. Frames' = {}
  <2>1. DOMAIN items' = {}
    BY <1>2
  <2> QED BY <2>1 DEF Frames
<1>6. Orphans'
  <2>1. PatchToCome => PatchToCome'
    BY <1>5 DEF PatchToCome
  <2>2. Unfinished(Stream) => PatchToCome'
    <3>1. Stream # <<>> => buffer # <<>>
      BY <1>2 DEF Stream
    <3> QED BY <1>5, <3>1 DEF Unfinished, PatchToCome
  <2> QED BY <1>2, <2>1, <2>2, OrphansKept
<1>7. Phases'
  BY <1>2 DEF Phases, NoTail, IsFrame
<1>8. Patience'
  BY Constants DEF Patience, TypeOK
<1> QED BY <1>1, <1>3, <1>4, <1>6, <1>7, <1>8

LEMMA ReceiveStep ==
  ASSUME RelayInv, Receive PROVE RelayInv'
<1> USE DEF RelayInv, Receive, pacer, watcher, history
<1>1. items = <<>> /\ items' = items
  BY DEF Phases
<1>2. /\ Stream' = Stream /\ buffer' # <<>>
      /\ buffer' \in Seq(Pieces) /\ wire' \in Seq(Pieces) /\ Len(wire') <= WireRoom
  <2> HIDE DEF Receive
  <2> QED BY ReceiveKeeps
<1>3. TypeOK'
  BY <1>1, <1>2, Constants DEF TypeOK, Positions
<1>4. Numbered' /\ InOrder'
  BY <1>1, <1>2, OrderKept
<1>5. StitchedOnlyAtReconnect'
  BY <1>1, StitchedKept
<1>6. Orphans'
  <2>1. PatchToCome => PatchToCome'
    BY <1>1 DEF PatchToCome, Frames, IsFrame
  <2>2. ~(conn = "open" /\ sent = "tail" /\ Unfinished(Stream))
    BY DEF Orphans
  <2> QED BY <1>2, <2>1, <2>2, OrphansKept
<1>7. Phases'
  <2>1. DOMAIN items' = {}
    BY <1>1
  <2> QED BY <1>1, <1>2, <2>1 DEF Phases, Unfinished
<1>8. Patience'
  BY Constants DEF Patience, TypeOK
<1> QED BY <1>3, <1>4, <1>5, <1>6, <1>7, <1>8

LEMMA SplitEndsStep ==
  ASSUME RelayInv, SplitEnds PROVE RelayInv'
<1> USE DEF RelayInv, SplitEnds, capture, pacer, watcher, history
<1>1. PICK k \in 0 .. Len(buffer) :
        /\ \A j \in 1 .. k : buffer[j].part = "mark"
        /\ k < Len(buffer) => buffer[k + 1].part = "mark"
        /\ k > 0 => k < Len(buffer)
        /\ buffer' \in Seq(Pieces) /\ Len(buffer') = Len(buffer) - k
        /\ \A i \in 1 .. Len(buffer') : buffer'[i] = buffer[k + i]
        /\ NoTail(buffer')
  BY SplitFacts DEF Numbered
<1>2. /\ pc = "split" /\ items' = items /\ then' = then /\ wire' = wire /\ conn' = conn
      /\ sent' = sent /\ captured' = captured /\ newest' = newest /\ patched' = patched
      /\ pc' = IF items = <<>> THEN "recv" ELSE "yield"
  OBVIOUS
<1>3. TypeOK'
  BY <1>1, Constants DEF TypeOK, Positions
<1>4. /\ Stream \in Seq(Pieces) /\ Len(Stream) \in Nat /\ DOMAIN Stream = 1 .. Len(Stream)
      /\ k \in 0 .. Len(Stream) /\ Len(buffer) \in Nat /\ Len(buffer) <= Len(Stream)
      /\ \A j \in 1 .. Len(buffer) : Stream[j] = buffer[j]
  BY <1>1, StreamFacts
<1>5. /\ Stream' \in Seq(Pieces) /\ Len(Stream') = Len(Stream) - k
      /\ DOMAIN Stream' = 1 .. Len(Stream')
      /\ \A i \in 1 .. Len(Stream') : Stream'[i] = Stream[k + i]
  BY <1>1, <1>2, CutStream
<1>6. \A i \in DOMAIN Stream' : k + i \in DOMAIN Stream /\ Stream'[i] = Stream[k + i]
  <2>1. k \in Nat /\ \A i \in 1 .. Len(Stream) - k : k + i \in 1 .. Len(Stream)
    BY <1>4
  <2> QED BY <1>4, <1>5, <2>1
<1>0. /\ k \in Nat /\ k <= Len(buffer) /\ Len(Stream') \in Nat
      /\ k = 0 \/ (k > 0 /\ k < Len(Stream))
  BY <1>1, <1>4, <1>5
<1>7. AsCaptured(Stream')
  <2>1. CASE k > 0
    <3>1. k + 1 \in 1 .. Len(buffer)
      BY <1>1, <1>4, <2>1
    <3>2. Stream[k + 1].part = "mark"
      BY <1>1, <1>4, <3>1
    <3> QED BY <1>4, <1>5, <3>2, SuffixKeepsOrder DEF Numbered
  <2>2. CASE k = 0
    <3>1. Stream' = Stream
      <4>1. buffer' = buffer
        BY <1>1, <1>4, <2>2, SameSequence DEF TypeOK
      <4> QED BY <1>2, <4>1 DEF Stream
    <3> QED BY <3>1 DEF Numbered
  <2> QED BY <1>1, <2>1, <2>2
<1>8. Frames' = Frames
  BY <1>2 DEF Frames, IsFrame
<1>9. Numbered'
  <2>1. AsCaptured(Stream)'
    BY <1>7 DEF AsCaptured
  <2>2. \A i \in DOMAIN Stream' : newest < Stream'[i].id /\ Stream'[i].id <= captured
    BY <1>6 DEF Numbered
  <2>3. \A i \in Frames : \A j \in DOMAIN Stream' : LastId(items[i]) < Stream'[j].id
    BY <1>6 DEF Numbered
  <2> QED BY <1>2, <1>8, <2>1, <2>2, <2>3 DEF Numbered, LastId
<1>10. InOrder'
  BY <1>2, <1>8 DEF InOrder, LastId
<1>11. StitchedOnlyAtReconnect'
  BY StitchedKept
<1>12. then = "recv" /\ \A i \in DOMAIN items : IsFrame(items[i])
  BY DEF Phases
<1>13. items # <<>> => Frames # {}
  <2>1. items # <<>> => 1 \in DOMAIN items
    BY ItemFacts
  <2> QED BY <1>12, <2>1 DEF Frames
<1>14. Stream' = <<>> <=> Stream = <<>>
  <2>1. Len(Stream) \in Nat /\ Len(Stream') = Len(Stream) - k
    BY <1>4, <1>5
  <2>2. Len(Stream') = 0 <=> Len(Stream) = 0
    BY <1>0, <2>1
  <2>3. Stream' # <<>> <=> Len(Stream') > 0
    BY <1>5, EmptySeq
  <2>4. Stream # <<>> <=> Len(Stream) > 0
    BY <1>4, EmptySeq
  <2> QED BY <1>0, <2>1, <2>2, <2>3, <2>4
<1>15. Stream # <<>> => Stream'[Len(Stream')] = Stream[Len(Stream)]
  <2>1. ASSUME Stream # <<>> PROVE Stream'[Len(Stream')] = Stream[Len(Stream)]
    <3>1. Len(Stream') \in 1 .. Len(Stream') /\ k + Len(Stream') = Len(Stream)
      BY <1>4, <1>5, <1>14, <2>1, PieceFacts
    <3> QED BY <1>5, <3>1
  <2> QED BY <2>1
<1>16. ~(conn = "open" /\ sent = "tail" /\ Unfinished(Stream))
  BY DEF Orphans
<1>17. Orphans'
  <2>1. PatchToCome => PatchToCome'
    BY <1>2, <1>8, <1>13 DEF PatchToCome
  <2>2. ~(conn' = "open" /\ sent' = "tail" /\ Unfinished(Stream'))
    BY <1>2, <1>14, <1>15, <1>16 DEF Unfinished
  <2>3. ASSUME NEW i \in DOMAIN Stream', i > 1,
               Stream'[i].part = "mark", Stream'[i - 1].part # "tail"
        PROVE  PatchToCome /\ \A j \in 1 .. i : Stream'[j].part # "tail"
    <3> DEFINE m == k + i
    <3>1. m \in DOMAIN Stream /\ Stream[m].part = "mark"
      BY <1>6, <2>3
    <3>2. /\ i \in 1 .. Len(Stream') /\ i - 1 \in 1 .. Len(Stream') /\ k + (i - 1) = m - 1
          /\ m > 1
      <4>1. i \in 1 .. Len(Stream') /\ i > 1
        BY <1>5, <2>3
      <4> QED BY <1>0, <4>1
    <3>3. Stream[m - 1].part # "tail"
      BY <1>5, <2>3, <3>2
    <3>4. PatchToCome /\ \A j \in 1 .. m : Stream[j].part # "tail"
      BY <3>1, <3>2, <3>3 DEF Orphans
    <3>5. \A j \in 1 .. i : j \in 1 .. Len(Stream') /\ k + j \in 1 .. m
      BY <1>4, <1>5, <3>2
    <3> QED BY <1>5, <3>4, <3>5
  <2> QED BY <2>1, <2>2, <2>3 DEF Orphans, Unfinished
<1>18. Phases'
  <2>1. sent' # "tail" => /\ conn' = "open" /\ Stream' # <<>>
                          /\ Stream'[Len(Stream')] = [id |-> captured', part |-> sent']
    BY <1>2, <1>14, <1>15 DEF Phases
  <2> QED BY <1>1, <1>2, <1>12, <2>1 DEF Phases, NoTail, IsFrame
<1>19. Patience'
  <2>1. CASE items # <<>>
    BY <2>1 DEF Patience
  <2>2. CASE items = <<>>
    <3>1. conn # "open" \/ sent # "tail" \/ wire # <<>>
      <4>1. ASSUME wire = <<>> PROVE Unfinished(Stream)
        <5>1. buffer # <<>> /\ Len(wire) = 0
          BY <2>2, <4>1 DEF Phases
        <5>6. Len(Stream) = Len(buffer) /\ Len(Stream) > 0
          <6>1. Len(buffer) > 0
            BY <5>1, PieceFacts DEF TypeOK
          <6> QED BY <5>1, <6>1, StreamFacts
        <5>2. Len(Stream) = Len(buffer) /\ Len(Stream) > 0 /\ Len(Stream') = Len(buffer')
          BY <1>1, <1>5, <5>6
        <5>3. /\ Len(buffer') \in 1 .. Len(buffer') /\ k + Len(buffer') = Len(buffer)
              /\ DOMAIN buffer' = 1 .. Len(buffer')
          BY <1>1, <1>4, <5>2, PieceFacts
        <5>4. buffer'[Len(buffer')] = Stream[Len(Stream)]
          BY <1>1, <1>4, <5>2, <5>3
        <5>5. buffer'[Len(buffer')].part # "tail"
          BY <1>1, <5>3 DEF NoTail
        <5> QED BY <1>4, <5>2, <5>4, <5>5, PieceFacts DEF Unfinished
      <4> QED BY <1>16, <4>1
    <3>2. waited' = waited /\ waited = 0
      BY DEF Patience
    <3> QED BY <2>2, <3>1, <3>2, Constants DEF Patience
  <2> QED BY <2>1, <2>2
<1> QED BY <1>3, <1>9, <1>10, <1>11, <1>17, <1>18, <1>19

(* The frame cut out is whole, or it is the first of a reconnect; and it is  *)
(* later than the frames before it and earlier than what is left.           *)
LEMMA CutFrameStep ==
  ASSUME RelayInv, CutFrame PROVE RelayInv'
<1> USE DEF RelayInv, capture, pacer, watcher, history
<1>1. PICK soi \in 1 .. Len(buffer), k \in 1 .. Len(buffer) :
        /\ soi + 2 <= k /\ buffer[k].part = "tail" /\ buffer[soi + 1].part = "head"
        /\ \A j \in 1 .. soi : buffer[j].part = "mark"
        /\ \A j \in 1 .. k - 1 : buffer[j].part # "tail"
        /\ items' = Append(items, FrameItem(SubSeq(buffer, soi, k)))
        /\ buffer' \in Seq(Pieces) /\ Len(buffer') = Len(buffer) - k
        /\ \A i \in 1 .. Len(buffer') : buffer'[i] = buffer[k + i]
  BY CutFacts DEF Numbered
<1>2. /\ pc = "split" /\ pc' = pc /\ then' = then /\ then = "recv" /\ wire' = wire
      /\ newest' = newest /\ captured' = captured /\ patched' = patched
      /\ conn' = conn /\ sent' = sent
  BY DEF CutFrame, Phases
<1>3. /\ buffer \in Seq(Pieces) /\ Len(buffer) \in Nat /\ DOMAIN buffer = 1 .. Len(buffer)
      /\ k \in 1 .. Len(buffer) /\ k \in 0 .. Len(buffer) /\ soi \in 1 .. k
  <2>1. buffer \in Seq(Pieces)
    BY DEF TypeOK
  <2> QED BY <1>1, <2>1, PieceFacts
<1> DEFINE pieces == SubSeq(buffer, soi, k)
           m == k - soi + 1
           item == FrameItem(pieces)
           n == Len(items)
<1>4. /\ pieces \in Seq(Pieces) /\ Len(pieces) = m /\ pieces # <<>>
      /\ \A i \in 1 .. m : pieces[i] = buffer[soi + i - 1]
      /\ m \in Nat /\ m >= 3 /\ soi + m - 1 = k
  <2>1. \A i \in soi .. k : buffer[i] \in Pieces
    <3>1. \A i \in soi .. k : i \in 1 .. Len(buffer)
      BY <1>3
    <3> QED BY <1>3, <3>1, ElementOfSeq
  <2>2. m \in Nat /\ m >= 3 /\ soi + m - 1 = k /\ soi \in Int /\ k \in Int /\ soi <= k
    BY <1>1, <1>3
  <2>3. /\ pieces \in Seq(Pieces) /\ Len(pieces) = m
        /\ \A i \in 1 .. m : pieces[i] = buffer[soi + i - 1]
    BY <2>1, <2>2, SubSeqProperties
  <2> HIDE DEF pieces, m
  <2>4. pieces # <<>>
    BY <2>2, <2>3, PieceFacts
  <2> QED BY <2>2, <2>3, <2>4
<1> HIDE DEF pieces, m
<1>5. /\ item.pieces = pieces /\ IsFrame(item) /\ item \in Items
      /\ LastId(item) = buffer[k].id
  <2>1. item.pieces = pieces /\ IsFrame(item) /\ item \in Items
    BY <1>4 DEF FrameItem, IsFrame, Items
  <2>2. pieces[m] = buffer[k] /\ m \in 1 .. m
    BY <1>4
  <2> QED BY <1>4, <2>1, <2>2 DEF LastId
<1> HIDE DEF item
<1>6. /\ n \in Nat /\ items \in Seq(Items) /\ items' \in Seq(Items)
      /\ DOMAIN items = 1 .. n /\ DOMAIN items' = 1 .. n + 1
      /\ \A i \in 1 .. n : items'[i] = items[i]
      /\ items'[n + 1] = item /\ items' # <<>>
  <2>1. items' = Append(items, item) /\ items \in Seq(Items)
    BY <1>1 DEF item, pieces, TypeOK
  <2>2. items' \in Seq(Items)
    BY <1>5, <2>1, AppendProperties
  <2> QED BY <1>5, <2>1, <2>2, AppendProperties, LenProperties
<1>7. \A i \in 1 .. n : IsFrame(items[i]) /\ i \in Frames
  BY <1>2, <1>6 DEF Phases, Frames
<1>8. Frames' = 1 .. n + 1
  <2>1. \A i \in 1 .. n + 1 : i \in 1 .. n \/ i = n + 1
    BY <1>6
  <2>2. \A i \in 1 .. n + 1 : IsFrame(items'[i])
    BY <1>5, <1>6, <1>7, <2>1
  <2> QED BY <1>6, <2>2 DEF Frames, IsFrame
<1>9. TypeOK'
  BY <1>1, <1>6, Constants DEF TypeOK, CutFrame
<1>10. /\ Stream \in Seq(Pieces) /\ Len(Stream) \in Nat /\ DOMAIN Stream = 1 .. Len(Stream)
       /\ k \in DOMAIN Stream /\ Stream[k].part = "tail" /\ Stream[k].id = buffer[k].id
       /\ \A j \in 1 .. k : Stream[j] = buffer[j]
  BY <1>1, <1>3, StreamFacts
<1>11. /\ Stream' \in Seq(Pieces) /\ Len(Stream') = Len(Stream) - k
       /\ DOMAIN Stream' = 1 .. Len(Stream')
       /\ \A i \in 1 .. Len(Stream') : Stream'[i] = Stream[k + i]
  BY <1>1, <1>2, <1>3, CutStream
<1>12. \A i \in DOMAIN Stream' : k + i \in DOMAIN Stream /\ Stream'[i] = Stream[k + i]
  <2>1. k \in Nat /\ \A i \in 1 .. Len(Stream) - k : k + i \in 1 .. Len(Stream)
    BY <1>10
  <2> QED BY <1>10, <1>11, <2>1
<1>13. AsCaptured(Stream') /\ \A i \in DOMAIN Stream' : buffer[k].id < Stream'[i].id
  <2>1. AsCaptured(Stream)
    BY DEF Numbered
  <2>2. /\ k < Len(Stream) => Stream[k + 1].part = "mark"
        /\ \A i \in DOMAIN Stream : k < i => Stream[k].id < Stream[i].id
    BY <1>10, <2>1, BehindATail
  <2>3. k \in 0 .. Len(Stream)
    BY <1>10
  <2>4. AsCaptured(Stream')
    BY <1>10, <1>11, <2>1, <2>2, <2>3, SuffixKeepsOrder
  <2>5. \A i \in DOMAIN Stream' : k < k + i
    BY <1>3, <1>11
  <2> QED BY <1>10, <1>12, <2>2, <2>4, <2>5
<1>14. newest < buffer[k].id /\ buffer[k].id <= captured
  BY <1>10 DEF Numbered
<1>15. Numbered'
  <2>1. AsCaptured(Stream)'
    BY <1>13 DEF AsCaptured
  <2>2. \A i \in DOMAIN Stream' : newest < Stream'[i].id /\ Stream'[i].id <= captured
    BY <1>12 DEF Numbered
  <2>3. ASSUME NEW i \in 1 .. n + 1
        PROVE  /\ items'[i].pieces # <<>> /\ LastId(items'[i]) <= captured
               /\ \A j \in DOMAIN Stream' : LastId(items'[i]) < Stream'[j].id
    <3>1. CASE i \in 1 .. n
      <4>1. /\ items[i].pieces # <<>> /\ LastId(items[i]) <= captured
            /\ \A j \in DOMAIN Stream : LastId(items[i]) < Stream[j].id
        BY <1>7, <3>1 DEF Numbered
      <4> QED BY <1>6, <1>12, <3>1, <4>1
    <3>2. CASE i = n + 1
      BY <1>4, <1>5, <1>6, <1>13, <1>14, <3>2
    <3> QED BY <1>6, <3>1, <3>2
  <2> QED BY <1>2, <1>8, <2>1, <2>2, <2>3 DEF Numbered, LastId
<1>16. InOrder'
  <2>1. ASSUME NEW i \in 1 .. n + 1
        PROVE  /\ LastId(items'[i]) > newest
               /\ \A j \in 1 .. n + 1 : j < i => LastId(items'[j]) < LastId(items'[i])
    <3>1. CASE i \in 1 .. n
      <4>1. /\ LastId(items[i]) > newest
            /\ \A j \in 1 .. n : j < i => LastId(items[j]) < LastId(items[i])
        BY <1>7, <3>1 DEF InOrder
      <4>2. \A j \in 1 .. n + 1 : j < i => j \in 1 .. n
        BY <1>6, <3>1
      <4> QED BY <1>6, <3>1, <4>1, <4>2
    <3>2. CASE i = n + 1
      <4>1. \A j \in 1 .. n + 1 : j < i => j \in 1 .. n
        BY <1>6, <3>2
      <4>2. \A j \in 1 .. n : LastId(items[j]) < buffer[k].id
        BY <1>7, <1>10 DEF Numbered
      <4>3. buffer[k].id > newest
        <5>1. buffer[k].id \in Nat /\ newest \in Nat
          <6>1. newest \in Nat
            BY DEF TypeOK
          <6>2. buffer[k].id \in 1 .. MaxFrame
            BY <1>3, PieceFacts
          <6> QED BY <6>1, <6>2
        <5> QED BY <1>14, <5>1
      <4> QED BY <1>5, <1>6, <3>2, <4>1, <4>2, <4>3
    <3> QED BY <1>6, <3>1, <3>2
  <2> QED BY <1>2, <1>8, <2>1 DEF InOrder, LastId
<1>17. ~(soi = 1 /\ k = 3) => PatchToCome
  <2>1. ASSUME soi > 1 PROVE PatchToCome
    <3>1. 2 \in DOMAIN Stream /\ Stream[2].part = "mark" /\ Stream[1].part # "tail"
      BY <1>1, <1>3, <1>10, <2>1
    <3>2. 2 > 1 /\ 2 - 1 = 1
      OBVIOUS
    <3> QED BY <3>1, <3>2 DEF Orphans
  <2>2. ASSUME soi = 1, k # 3 PROVE PatchToCome
    <3>1. /\ 3 \in DOMAIN Stream /\ Stream[3] = buffer[3] /\ 3 \in 1 .. k - 1
          /\ Stream[2] = buffer[2] /\ buffer[2].part = "head" /\ 3 \in 1 .. Len(buffer)
      BY <1>1, <1>3, <1>10, <2>2
    <3>2. 3 > 1 /\ 3 - 1 = 2 /\ Behind("head") = "tail"
      BY DEF Behind
    <3>3. Stream[3].part # "tail"
      BY <1>1, <3>1
    <3>4. Stream[3].part = "mark"
      BY <3>1, <3>2, <3>3 DEF Numbered, AsCaptured
    <3>5. Stream[3 - 1].part # "tail"
      BY <3>1, <3>2
    <3> QED BY <3>1, <3>2, <3>4, <3>5 DEF Orphans
  <2>3. soi = 1 \/ soi > 1
    BY <1>3
  <2> QED BY <2>1, <2>2, <2>3
<1>18. StitchedOnlyAtReconnect'
  <2>1. ASSUME NEW i \in 1 .. n + 1
        PROVE  IsWhole(items'[i].pieces) \/ (i = 1 /\ patched)
    <3>1. CASE i \in 1 .. n
      BY <1>6, <1>7, <3>1 DEF StitchedOnlyAtReconnect
    <3>2. CASE i = n + 1 /\ soi = 1 /\ k = 3
      <4>1. /\ pieces[1] = buffer[1] /\ pieces[2] = buffer[2] /\ pieces[3] = buffer[3]
            /\ m = 3 /\ Len(pieces) = 3 /\ DOMAIN pieces = 1 .. 3
        <5>1. m = 3
          BY <3>2 DEF m
        <5>2. \A l \in 1 .. 3 : soi + l - 1 = l
          BY <3>2
        <5>3. 1 \in 1 .. 3 /\ 2 \in 1 .. 3 /\ 3 \in 1 .. 3
          OBVIOUS
        <5>4. Len(pieces) = 3 /\ \A l \in 1 .. 3 : pieces[l] = buffer[l]
          BY <1>4, <5>1, <5>2
        <5> QED BY <1>4, <5>1, <5>3, <5>4, PieceFacts
      <4>2. buffer[1].part = "mark" /\ buffer[2].part = "head" /\ buffer[3].part = "tail"
        BY <1>1, <3>2
      <4>3. buffer[1].id = buffer[2].id /\ buffer[2].id = buffer[3].id
        <5>1. /\ 2 \in DOMAIN Stream /\ 3 \in DOMAIN Stream /\ 3 - 1 = 2 /\ 2 - 1 = 1
              /\ Stream[1] = buffer[1] /\ Stream[2] = buffer[2] /\ Stream[3] = buffer[3]
          BY <1>10, <3>2
        <5>2. Stream[2 - 1].id = Stream[2].id
          BY <4>2, <5>1 DEF Numbered, AsCaptured
        <5>3. Stream[3 - 1].id = Stream[3].id
          BY <4>2, <5>1 DEF Numbered, AsCaptured
        <5> QED BY <5>1, <5>2, <5>3
      <4>4. items'[i].pieces = pieces
        BY <1>5, <1>6, <3>2
      <4>5. \A l \in 1 .. 3 : l = 1 \/ l = 2 \/ l = 3
        OBVIOUS
      <4> QED BY <4>1, <4>2, <4>3, <4>4, <4>5 DEF IsWhole
    <3>3. CASE i = n + 1 /\ ~(soi = 1 /\ k = 3)
      <4>1. patched /\ Frames = {}
        BY <1>17, <3>3 DEF PatchToCome
      <4>2. ~(1 \in 1 .. n)
        BY <1>7, <4>1
      <4>3. n = 0
        BY <1>6, <4>2
      <4> QED BY <3>3, <4>1, <4>3
    <3> QED BY <1>6, <3>1, <3>2, <3>3
  <2> QED BY <1>2, <1>8, <2>1 DEF StitchedOnlyAtReconnect, IsWhole
<1>19. Unfinished(Stream)' => Unfinished(Stream) /\ Stream'[Len(Stream')] = Stream[Len(Stream)]
  <2>1. ASSUME Stream' # <<>> PROVE Stream'[Len(Stream')] = Stream[Len(Stream)] /\ Stream # <<>>
    <3>1. Len(Stream') \in 1 .. Len(Stream')
      BY <1>11, <2>1, PieceFacts
    <3>2. k + Len(Stream') = Len(Stream)
      BY <1>10, <1>11
    <3> QED BY <1>10, <1>11, <3>1, <3>2, PieceFacts
  <2> QED BY <2>1 DEF Unfinished
<1>20. ~(conn = "open" /\ sent = "tail" /\ Unfinished(Stream))
  BY <1>2 DEF Orphans
<1>21. Orphans'
  <2>1. ASSUME NEW i \in DOMAIN Stream', i > 1,
               Stream'[i].part = "mark", Stream'[i - 1].part # "tail"
        PROVE  FALSE
    <3> DEFINE at == k + i
    <3>1. at \in DOMAIN Stream /\ Stream[at].part = "mark"
      BY <1>12, <2>1
    <3>6. k \in Nat /\ k > 1
      BY <1>1, <1>3
    <3>2. i \in Nat /\ k \in Nat /\ k > 1 /\ Len(Stream') \in Nat /\ i <= Len(Stream')
      BY <1>10, <1>11, <3>6
    <3>3. /\ at > 1 /\ i - 1 \in 1 .. Len(Stream') /\ k + (i - 1) = at - 1
          /\ k \in 1 .. at
      <4>1. at > 1 /\ i - 1 >= 1 /\ i - 1 <= Len(Stream') /\ i - 1 \in Int
        BY <2>1, <3>2
      <4>2. k + (i - 1) = at - 1
        BY <3>2
      <4>3. k >= 1 /\ k <= at /\ at \in Int
        BY <3>2
      <4> QED BY <3>2, <4>1, <4>2, <4>3
    <3>4. Stream[at - 1].part # "tail"
      BY <1>11, <2>1, <3>3
    <3>5. \A j \in 1 .. at : Stream[j].part # "tail"
      BY <3>1, <3>3, <3>4 DEF Orphans
    <3> QED BY <1>10, <3>3, <3>5
  <2> QED BY <1>2, <1>19, <1>20, <2>1 DEF Orphans
<1>22. Phases'
  <2>1. ASSUME sent # "tail"
        PROVE  /\ conn' = "open" /\ Stream' # <<>>
               /\ Stream'[Len(Stream')] = [id |-> captured', part |-> sent']
    <3>1. /\ Unfinished(Stream) /\ conn = "open"
          /\ Stream[Len(Stream)] = [id |-> captured, part |-> sent]
      BY <2>1, UnderWay DEF Phases
    <3>2. Len(Stream) # k
      BY <1>10, <3>1 DEF Unfinished
    <3>3. Len(Stream') > 0 /\ Len(Stream') \in 1 .. Len(Stream') /\ k + Len(Stream') = Len(Stream)
      BY <1>10, <1>11, <3>2
    <3>4. Stream'[Len(Stream')] = Stream[Len(Stream)] /\ Stream' # <<>>
      BY <1>11, <3>3, PieceFacts
    <3> QED BY <1>2, <3>1, <3>4
  <2>2. \A i \in DOMAIN items' : IsFrame(items'[i])
    BY <1>8, <1>6 DEF Frames, IsFrame
  <2> QED BY <1>2, <1>6, <2>1, <2>2 DEF Phases, IsFrame
<1>23. Patience'
  BY <1>2, <1>6 DEF Patience, CutFrame
<1> QED BY <1>9, <1>15, <1>16, <1>18, <1>21, <1>22, <1>23

(* The silence is looked at: one that is long enough is told, and one that   *)
(* is not has not lasted.                                                   *)
LEMMA SplashFacts ==
  ASSUME NEW n \in Nat, NEW live \in BOOLEAN
  PROVE  /\ SplashFor(n, live) \in Splashes \cup {"no"}
         /\ SplashFor(n, live) = "no" => n < GiveUp /\ n <= InterruptedAfter
  BY Constants DEF SplashFor, Splashes

LEMMA HearNothingStep ==
  ASSUME RelayInv, HearNothing PROVE RelayInv'
<1> USE DEF RelayInv, capture, pacer, watcher, history
<1> DEFINE splash == SplashFor(silent, seen)
<1>1. splash \in Splashes \cup {"no"}
      /\ (splash = "no" => silent < GiveUp /\ silent <= InterruptedAfter)
  BY SplashFacts, Constants DEF TypeOK
<1>2. /\ pc = "recv" /\ wire = <<>> /\ then' = "reopen" /\ waited' = 0
      /\ UNCHANGED <<capture, buffer, silent, seen, pacer, watcher, history>>
      /\ \/ splash = "no" /\ pc' = "reopen" /\ items' = <<>>
         \/ splash # "no" /\ pc' = "yield" /\ items' = <<SplashItem(splash)>>
  BY DEF HearNothing, NothingToRead
<1> HIDE DEF splash
<1>3. Stream' = Stream
  BY <1>2 DEF Stream
<1>4. splash # "no" => SplashItem(splash) \in Items /\ ~IsFrame(SplashItem(splash))
  <2>1. <<>> \in Seq(Pieces)
    BY EmptySeq
  <2> QED BY <1>1, <2>1 DEF SplashItem, Items, IsFrame
<1>5. items' \in Seq(Items) /\ \A i \in DOMAIN items' : ~IsFrame(items'[i])
  <2>1. CASE splash = "no"
    <3>1. items' = <<>> /\ DOMAIN <<>> = {}
      BY <1>2, <2>1
    <3>2. <<>> \in Seq(Items)
      BY EmptySeq
    <3> QED BY <3>1, <3>2
  <2>2. CASE splash # "no"
    <3> DEFINE item == SplashItem(splash)
    <3>1. item \in Items /\ ~IsFrame(item) /\ items' = <<item>>
      BY <1>2, <1>4, <2>2
    <3> HIDE DEF item
    <3> QED BY <3>1
  <2> QED BY <2>1, <2>2
<1>6. Frames' = {}
  BY <1>5 DEF Frames, IsFrame
<1>7. TypeOK'
  BY <1>2, <1>5, Constants DEF TypeOK, Positions
<1>8. Numbered' /\ InOrder' /\ StitchedOnlyAtReconnect'
  BY <1>2, <1>3, <1>6, NoFrames
<1>9. Orphans'
  <2>1. PatchToCome => PatchToCome'
    BY <1>2, <1>6 DEF PatchToCome
  <2> QED BY <1>2, <1>3, <2>1, OrphansKept
<1>10. Phases'
  BY <1>2, <1>3 DEF Phases, Unfinished, NoTail
<1>11. quiet <= LongestQuiet
  BY DEF Patience
<1>12. Patience'
  <2>1. CASE splash = "no"
    <3>1. quiet <= silent /\ silent \in Nat /\ quiet \in Nat
      BY <1>1, <1>2, <2>1, Constants DEF Patience, TypeOK
    <3>2. quiet <= InterruptedAfter
      BY <1>1, <2>1, <3>1, Constants
    <3> QED BY <1>2, <1>11, <2>1, <3>1, <3>2 DEF Patience
  <2>2. CASE splash # "no"
    <3>1. items' # <<>>
      BY <1>2, <2>2
    <3> QED BY <1>2, <1>11, <2>2, <3>1 DEF Patience
  <2> QED BY <2>1, <2>2
<1> QED BY <1>7, <1>8, <1>9, <1>10, <1>12

LEMMA YieldReturnsStep ==
  ASSUME RelayInv, YieldReturns PROVE RelayInv'
<1> USE DEF RelayInv, YieldReturns, capture, pacer, watcher
<1>1. TypeOK'
  BY Constants DEF TypeOK, Positions
<1>2. Stream' = Stream
  BY DEF Stream
<1>3. Frames' = {}
  <2>1. DOMAIN items' = {}
    OBVIOUS
  <2> QED BY <2>1 DEF Frames
<1>4. Numbered' /\ InOrder' /\ StitchedOnlyAtReconnect'
  BY <1>2, <1>3, NoFrames
<1>5. then \in {"recv", "reopen"}
  BY DEF TypeOK
<1>6. Orphans'
  <2>1. PatchToCome => PatchToCome'
    BY <1>3, <1>5 DEF PatchToCome
  <2> QED BY <1>2, <1>5, <2>1, OrphansKept
<1>7. Phases'
  BY <1>2, <1>5 DEF Phases, Unfinished, NoTail
<1>8. Patience'
  BY <1>5, Constants DEF Patience, TypeOK
<1> QED BY <1>1, <1>4, <1>6, <1>7, <1>8

(* What is on the wire is lost, and with it the tail of a frame begun. *)
LEMMA ReopenStep ==
  ASSUME RelayInv, Reopen PROVE RelayInv'
<1> USE DEF RelayInv, Reopen, stream, pacer, watcher, history
<1>1. TypeOK'
  <2>1. wire' \in Seq(Pieces) /\ Len(wire') = 0
    BY EmptySeq
  <2> QED BY <2>1, Constants DEF TypeOK, Positions
<1>2. /\ Stream' = buffer /\ buffer \in Seq(Pieces) /\ wire \in Seq(Pieces)
      /\ buffer' = buffer /\ items' = items /\ items = <<>>
      /\ newest' = newest /\ captured' = captured
  BY ConcatEmptySeq DEF Stream, TypeOK, Phases
<1>3. \A i \in DOMAIN buffer : i \in DOMAIN Stream /\ Stream[i] = buffer[i]
  BY StreamFacts
<1>4. AsCaptured(buffer)
  BY <1>2, PrefixKeepsOrder DEF Numbered, Stream
<1>5. Frames' = {} /\ Frames = {}
  <2>1. DOMAIN items = {} /\ DOMAIN items' = {}
    BY <1>2
  <2> QED BY <2>1 DEF Frames
<1>6. Numbered' /\ InOrder' /\ StitchedOnlyAtReconnect'
  <2>1. AsCaptured(Stream)'
    BY <1>2, <1>4 DEF AsCaptured
  <2>2. \A i \in DOMAIN Stream' : newest < Stream'[i].id /\ Stream'[i].id <= captured
    BY <1>2, <1>3 DEF Numbered
  <2>3. newest' <= captured'
    BY <1>2 DEF Numbered
  <2> QED BY <1>2, <1>5, <2>1, <2>2, <2>3 DEF Numbered, InOrder, StitchedOnlyAtReconnect
<1>7. Orphans'
  <2>1. PatchToCome => PatchToCome'
    BY <1>5 DEF PatchToCome
  <2>2. NoTail(buffer) /\ DOMAIN buffer = 1 .. Len(buffer) /\ Len(buffer) \in Nat
    BY <1>2, PieceFacts DEF Phases
  <2>3. ASSUME NEW i \in DOMAIN buffer, i > 1, buffer[i].part = "mark"
        PROVE  PatchToCome /\ \A j \in 1 .. i : buffer[j].part # "tail"
    <3>1. i - 1 \in DOMAIN buffer /\ \A j \in 1 .. i : j \in DOMAIN buffer
      BY <2>2, <2>3
    <3>2. \A j \in DOMAIN buffer : buffer[j].part # "tail"
      BY <2>2 DEF NoTail
    <3>3. Stream[i].part = "mark" /\ Stream[i - 1].part # "tail"
      BY <1>3, <2>3, <3>1, <3>2
    <3>4. PatchToCome
      BY <1>3, <2>3, <3>3 DEF Orphans
    <3> QED BY <3>1, <3>2, <3>4
  <2> QED BY <1>2, <2>1, <2>3 DEF Orphans
<1>8. Phases'
  BY <1>2 DEF Phases, NoTail
<1>9. Patience'
  BY Constants DEF Patience, TypeOK
<1> QED BY <1>1, <1>6, <1>7, <1>8, <1>9

LEMMA BackoffEndsStep ==
  ASSUME RelayInv, BackoffEnds PROVE RelayInv'
<1> USE DEF RelayInv, BackoffEnds, capture, stream, pacer, watcher, history
<1>1. TypeOK'
  BY DEF TypeOK, Positions
<1>2. Stream' = Stream
  BY DEF Stream
<1>3. Numbered' /\ InOrder'
  BY <1>2, OrderKept
<1>4. StitchedOnlyAtReconnect'
  BY StitchedKept
<1>5. Orphans'
  <2>1. PatchToCome => PatchToCome'
    BY DEF PatchToCome, Frames, IsFrame
  <2> QED BY <1>2, <2>1, OrphansKept
<1>6. Phases'
  BY <1>2 DEF Phases, Unfinished, NoTail, IsFrame
<1>7. Patience'
  BY Constants DEF Patience, TypeOK
<1> QED BY <1>1, <1>3, <1>4, <1>5, <1>6, <1>7

--------------------------------------------------------------------------------
(* MjpegPacer and the sends *)

(* The first item is offered: the others move up, or all are dropped. *)
LEMMA OfferStep ==
  ASSUME RelayInv, Offer PROVE RelayInv'
<1> USE DEF RelayInv, capture, watcher
<1> DEFINE item == items[1]
           n == Len(items)
<1>1. /\ items \in Seq(Items) /\ items # <<>> /\ n \in Nat /\ n > 0 /\ DOMAIN items = 1 .. n
      /\ item \in Items /\ item.pieces \in Seq(Pieces) /\ Head(items) = item
  BY ItemFacts DEF TypeOK, Offer
<1>2. /\ pc = "yield" /\ then' = then /\ buffer' = buffer /\ wire' = wire /\ conn' = conn
      /\ sent' = sent /\ captured' = captured /\ waited' = waited /\ silent' = silent
      /\ seen' = seen /\ up' = up /\ elapsed' = elapsed /\ last_size' = last_size
      /\ viewer' = viewer /\ unsent' = unsent /\ quiet' = 0
      /\ patched' = (patched /\ ~IsFrame(item))
      /\ newest' = IF IsFrame(item) THEN LastId(item) ELSE newest
  BY <1>1 DEF Offer
<1>3. /\ pc' \in {"done", "sending", "yield"} /\ left' \in {0, FrameSize}
      /\ items' = <<>> \/ items' = Tail(items)
      /\ pc' = "done" \/ items' = Tail(items)
  BY DEF Offer, Classify
<1> HIDE DEF item
<1>4. \/ items' \in Seq(Items) /\ DOMAIN items' = {}
      \/ /\ items' \in Seq(Items) /\ DOMAIN items' = 1 .. n - 1
         /\ \A i \in DOMAIN items' : items'[i] = items[i + 1] /\ i + 1 \in DOMAIN items
  <2>1. CASE items' = <<>>
    BY <2>1, EmptySeq
  <2>2. CASE items' = Tail(items)
    <3>1. /\ Tail(items) \in Seq(Items) /\ Len(Tail(items)) = n - 1
          /\ \A i \in 1 .. n - 1 : Tail(items)[i] = items[i + 1]
      BY <1>1, HeadTailProperties
    <3>2. DOMAIN Tail(items) = 1 .. n - 1
      BY <3>1, LenProperties
    <3>3. \A i \in 1 .. n - 1 : i + 1 \in 1 .. n
      BY <1>1
    <3> QED BY <1>1, <2>2, <3>1, <3>2, <3>3
  <2> QED BY <1>3, <2>1, <2>2
<1>5. items' \in Seq(Items) /\ \A i \in DOMAIN items' :
         items'[i] = items[i + 1] /\ i + 1 \in DOMAIN items /\ i \in Nat /\ i > 0
  BY <1>1, <1>4
<1>6. \A i \in Frames' : items'[i] = items[i + 1] /\ i + 1 \in Frames /\ i \in Nat /\ i > 0
  BY <1>5 DEF Frames, IsFrame
<1>7. 1 \in Frames <=> IsFrame(item)
  BY <1>1 DEF Frames, item
<1>8. Stream' = Stream
  BY <1>2 DEF Stream
<1>9. IsFrame(item) => LastId(item) \in 1 .. MaxFrame
  BY <1>1, <1>7, PieceFacts DEF Numbered, LastId, item
<1>10. newest' \in 0 .. MaxFrame
  BY <1>2, <1>9, Constants DEF TypeOK
<1>11. TypeOK'
  <2>1. pc' \in Positions
    BY <1>3 DEF Positions
  <2>2. left' \in 0 .. FrameSize
    BY <1>3, Constants
  <2>3. (patched /\ ~IsFrame(item)) \in BOOLEAN
    OBVIOUS
  <2>4. 0 \in 0 .. LongestQuiet + 1
    BY Constants
  <2> QED BY <1>2, <1>5, <1>10, <2>1, <2>2, <2>3, <2>4 DEF TypeOK
<1>12. Numbered'
  <2>1. AsCaptured(Stream)'
    BY <1>8 DEF Numbered, AsCaptured
  <2>2. newest' <= captured /\ \A i \in DOMAIN Stream : newest' < Stream[i].id
    BY <1>2, <1>7 DEF Numbered, item
  <2>3. \A i \in Frames' : /\ items'[i].pieces # <<>> /\ LastId(items'[i]) <= captured
                           /\ \A j \in DOMAIN Stream : LastId(items'[i]) < Stream[j].id
    BY <1>6 DEF Numbered
  <2>4. \A i \in DOMAIN Stream : Stream[i].id <= captured
    BY DEF Numbered
  <2> QED BY <1>2, <1>8, <2>1, <2>2, <2>3, <2>4 DEF Numbered, LastId
<1>13. InOrder'
  <2>1. ASSUME NEW i \in Frames'
        PROVE  /\ LastId(items'[i]) > newest'
               /\ \A j \in Frames' : j < i => LastId(items'[j]) < LastId(items'[i])
    <3>1. items'[i] = items[i + 1] /\ i + 1 \in Frames /\ 1 < i + 1
      BY <1>6
    <3>2. LastId(items[i + 1]) > newest'
      <4>1. CASE IsFrame(item)
        <5>1. LastId(items[1]) < LastId(items[i + 1])
          BY <1>7, <3>1, <4>1 DEF InOrder
        <5>2. LastId(items[i + 1]) \in Nat /\ LastId(item) \in Nat
          <6>1. items[i + 1] \in Items /\ items[i + 1].pieces # <<>>
            BY <3>1, ItemFacts DEF Frames, Numbered
          <6>2. LastId(items[i + 1]) \in Nat
            BY <6>1, LastIdFact
          <6> QED BY <1>9, <4>1, <6>2
        <5> QED BY <1>2, <4>1, <5>1, <5>2 DEF item
      <4>2. CASE ~IsFrame(item)
        BY <1>2, <3>1, <4>2 DEF InOrder
      <4> QED BY <4>1, <4>2
    <3>3. ASSUME NEW j \in Frames', j < i PROVE LastId(items'[j]) < LastId(items'[i])
      <4>1. items'[j] = items[j + 1] /\ j + 1 \in Frames /\ j + 1 < i + 1
        BY <1>6, <3>3
      <4> QED BY <3>1, <4>1 DEF InOrder
    <3> QED BY <3>1, <3>2, <3>3
  <2> QED BY <2>1 DEF InOrder, LastId
<1>14. StitchedOnlyAtReconnect'
  <2>1. ASSUME NEW i \in Frames' PROVE IsWhole(items'[i].pieces)
    <3>1. items'[i] = items[i + 1] /\ i + 1 \in Frames /\ i + 1 # 1
      BY <1>6
    <3> QED BY <3>1 DEF StitchedOnlyAtReconnect
  <2> QED BY <2>1 DEF StitchedOnlyAtReconnect, IsWhole
<1>15. Orphans'
  <2>1. PatchToCome => PatchToCome'
    <3>1. Frames = {} => Frames' = {} /\ ~IsFrame(item)
      BY <1>6, <1>7
    <3> QED BY <1>2, <1>3, <3>1 DEF PatchToCome
  <2>2. pc' # "split"
    BY <1>3
  <2> QED BY <1>2, <1>8, <2>1, <2>2, OrphansKept
<1>16. Phases'
  <2>1. \A i \in DOMAIN items' : IsFrame(items[i + 1]) => IsFrame(items'[i])
    BY <1>5
  <2>2. then = "recv" => \A i \in DOMAIN items' : IsFrame(items'[i])
    BY <1>2, <1>5, <2>1 DEF Phases
  <2> QED BY <1>2, <1>3, <1>8, <2>2 DEF Phases, Unfinished, NoTail, IsFrame
<1>17. Patience'
  BY <1>2, <1>3, Constants DEF Patience
<1> QED BY <1>11, <1>12, <1>13, <1>14, <1>15, <1>16, <1>17

LEMMA SendStep ==
  ASSUME RelayInv, SendSome \/ SendEnds PROVE RelayInv'
<1> USE DEF RelayInv, capture, stream, history, watcher
<1>1. CASE SendSome
  <2>1. left' \in 0 .. FrameSize /\ unsent' \in 0 .. ViewerRoom
    BY <1>1, Constants DEF SendSome, TypeOK
  <2>2. TypeOK'
    BY <1>1, <2>1 DEF SendSome, TypeOK
  <2> QED BY <1>1, <2>2, ElsewhereStep DEF SendSome
<1>2. CASE SendEnds
  <2> USE <1>2 DEF SendEnds
  <2>1. TypeOK'
    BY Constants DEF TypeOK, Positions
  <2>2. Stream' = Stream
    BY DEF Stream
  <2>3. Numbered' /\ InOrder'
    BY <2>2, OrderKept
  <2>4. StitchedOnlyAtReconnect'
    BY StitchedKept
  <2>5. Orphans'
    <3>1. PatchToCome => PatchToCome'
      BY DEF PatchToCome, Frames, IsFrame
    <3> QED BY <2>2, <3>1, OrphansKept
  <2>6. Phases'
    BY <2>2 DEF Phases, Unfinished, NoTail, IsFrame
  <2>7. Patience'
    BY DEF Patience
  <2> QED BY <2>1, <2>3, <2>4, <2>5, <2>6, <2>7
<1> QED BY <1>1, <1>2

LEMMA SendFailsStep ==
  ASSUME RelayInv, SendFails PROVE RelayInv'
<1> USE DEF RelayInv, SendFails, capture, watcher, history
<1>1. TypeOK'
  BY EmptySeq, Constants DEF TypeOK, Positions
<1>2. Stream' = Stream
  BY DEF Stream
<1>3. Frames' = {}
  <2>1. DOMAIN items' = {}
    OBVIOUS
  <2> QED BY <2>1 DEF Frames
<1>4. Numbered' /\ InOrder' /\ StitchedOnlyAtReconnect'
  BY <1>2, <1>3, NoFrames
<1>5. Orphans'
  <2>1. PatchToCome => PatchToCome'
    BY <1>3 DEF PatchToCome
  <2> QED BY <1>2, <2>1, OrphansKept
<1>6. Phases'
  BY <1>2 DEF Phases, Unfinished, NoTail
<1>7. Patience'
  BY DEF Patience
<1> QED BY <1>1, <1>4, <1>5, <1>6, <1>7

LEMMA RelayStep ==
  ASSUME RelayInv, Relay PROVE RelayInv'
  BY ConnectStep, ReceiveStep, CutFrameStep, SplitEndsStep, HearNothingStep,
     YieldReturnsStep, ReopenStep, BackoffEndsStep, OfferStep, SendStep, SendFailsStep
     DEF Relay

(* The clock runs where the relay waits. *)
LEMMA TickStep ==
  ASSUME RelayInv, Tick PROVE RelayInv'
<1> USE DEF RelayInv, Tick, capture, watcher
<1>1. TypeOK'
  <2>1. silent' \in 0 .. GiveUp
    BY Constants DEF TypeOK, Older
  <2>2. waited' \in 0 .. ReadTimeout + Backoff
    BY Constants DEF TypeOK, Blocked
  <2>3. elapsed' \in 0 .. SendTimeout + 1
    BY Constants DEF TypeOK, Older
  <2>4. quiet' \in 0 .. LongestQuiet + 1
    BY Constants DEF TypeOK, Older
  <2> QED BY <2>1, <2>2, <2>3, <2>4 DEF TypeOK
<1>2. Stream' = Stream
  BY DEF Stream
<1>3. Numbered' /\ InOrder'
  BY <1>2, OrderKept
<1>4. StitchedOnlyAtReconnect'
  BY StitchedKept
<1>5. Orphans'
  <2>1. PatchToCome => PatchToCome'
    BY DEF PatchToCome, Frames, IsFrame
  <2>2. pc' # "split" /\ conn' = conn /\ sent' = sent /\ wire' = wire
    BY DEF Blocked
  <2> QED BY <1>2, <2>1, <2>2, OrphansKept
<1>6. Phases'
  BY <1>2 DEF Phases, Unfinished, NoTail, IsFrame
<1>7. Patience'
  <2> USE Constants DEF TypeOK, Patience, Older
  <2>1. CASE pc = "recv" /\ conn = "open" /\ wire = <<>> /\ waited < ReadTimeout
    <3>1. quiet <= InterruptedAfter + Backoff + waited
      BY <2>1
    <3>2. quiet' = quiet + 1 /\ waited' = waited + 1
      BY <2>1, <3>1
    <3>3. silent' < GiveUp => silent' = silent + 1 /\ silent < GiveUp
      OBVIOUS
    <3> QED BY <2>1, <3>1, <3>2, <3>3
  <2>2. CASE pc = "backoff" /\ waited < Backoff
    <3>1. quiet <= InterruptedAfter + waited
      BY <2>2
    <3>2. quiet' = quiet + 1 /\ waited' = waited + 1
      BY <2>2, <3>1
    <3>3. silent' < GiveUp => silent' = silent + 1 /\ silent < GiveUp
      OBVIOUS
    <3> QED BY <2>2, <3>1, <3>2, <3>3
  <2>3. CASE pc = "sending"
    BY <2>3
  <2> QED BY <2>1, <2>2, <2>3 DEF Blocked
<1> QED BY <1>1, <1>3, <1>4, <1>5, <1>6, <1>7

LEMMA InitOK == Init => RelayInv
<1> SUFFICES ASSUME Init PROVE RelayInv
  OBVIOUS
<1> USE DEF Init
<1>1. Stream = <<>> /\ DOMAIN Stream = {} /\ DOMAIN items = {} /\ DOMAIN buffer = {}
  BY DEF Stream
<1>2. Frames = {}
  BY <1>1 DEF Frames
<1>3. TypeOK
  <2>1. /\ 0 \in 0 .. MaxFrame /\ 0 \in 0 .. GiveUp /\ 0 \in 0 .. ReadTimeout + Backoff
        /\ 0 \in 0 .. SendTimeout + 1 /\ 0 \in 0 .. FrameSize /\ 0 \in 0 .. ViewerRoom
        /\ 0 \in 0 .. LongestQuiet + 1
    BY Constants
  <2>2. <<>> \in Seq(Pieces) /\ <<>> \in Seq(Items) /\ Len(<<>>) <= WireRoom
    BY EmptySeq, Constants
  <2> QED BY <2>1, <2>2 DEF TypeOK, Positions
<1>4. Numbered /\ InOrder /\ StitchedOnlyAtReconnect
  BY <1>1, <1>2 DEF Numbered, AsCaptured, InOrder, StitchedOnlyAtReconnect
<1>5. Orphans /\ Phases
  BY <1>1 DEF Orphans, Phases, NoTail, Unfinished
<1>6. Patience
  BY Constants DEF Patience
<1> QED BY <1>3, <1>4, <1>5, <1>6 DEF RelayInv

--------------------------------------------------------------------------------
(* Nothing is lost *)

(* What is held, by where it is. *)
LEMMA HeldFacts ==
  ASSUME NEW n
  PROVE  /\ n \in Held <=>
              \/ \E j \in DOMAIN Stream : Stream[j].part = "tail" /\ Stream[j].id = n
              \/ \E i \in Frames : LastId(items[i]) = n
         /\ n \in Held' <=>
              \/ \E j \in DOMAIN Stream' : Stream'[j].part = "tail" /\ Stream'[j].id = n
              \/ \E i \in Frames' : LastId(items'[i]) = n
  BY DEF Held, TailsOf, LastId

(* The step loses no frame, unless it closes a connection something has just *)
(* come in on.                                                              *)
Keeps ==
  \A n \in Held : n \in Held' \/ n = newest' \/ (pc = "reopen" /\ n \in TailsOf(wire))

LEMMA NothingMoves ==
  ASSUME Stream' = Stream, UNCHANGED items
  PROVE  Keeps
<1>1. Frames' = Frames
  BY DEF Frames, IsFrame
<1> QED BY <1>1, HeldFacts DEF Keeps

(* What the camera sends comes behind what is there. *)
LEMMA CaptureLosesNothing ==
  ASSUME TypeOK, Phases, CaptureBegins \/ CaptureGoesOn PROVE Keeps
<1> USE DEF stream
<1>1. PICK p \in Pieces : wire' = Append(wire, p)
  <2>1. captured < MaxFrame => [id |-> captured + 1, part |-> "mark"] \in Pieces
    BY Constants DEF TypeOK, Pieces
  <2>2. sent # "tail" => [id |-> captured, part |-> Behind(sent)] \in Pieces
    BY UnderWay DEF Pieces, Behind
  <2> QED BY <2>1, <2>2 DEF CaptureBegins, CaptureGoesOn
<1>2. items' = items /\ buffer' = buffer
  BY DEF CaptureBegins, CaptureGoesOn
<1>3. Frames' = Frames
  BY <1>2 DEF Frames, IsFrame
<1>4. buffer \in Seq(Pieces) /\ wire \in Seq(Pieces)
  BY DEF TypeOK
<1>5. Stream' = Append(Stream, p) /\ Stream \in Seq(Pieces)
  BY <1>1, <1>2, <1>4, StreamFacts DEF Stream
<1>6. \A j \in DOMAIN Stream : j \in DOMAIN Stream' /\ Stream'[j] = Stream[j]
  <2>1. /\ Append(Stream, p) \in Seq(Pieces) /\ Len(Append(Stream, p)) = Len(Stream) + 1
        /\ \A j \in 1 .. Len(Stream) : Append(Stream, p)[j] = Stream[j]
    BY <1>5, AppendProperties
  <2>2. /\ DOMAIN Stream = 1 .. Len(Stream) /\ Len(Stream) \in Nat
        /\ DOMAIN Stream' = 1 .. Len(Stream) + 1
    BY <1>5, <2>1, PieceFacts
  <2> QED BY <1>5, <2>1, <2>2
<1> QED BY <1>2, <1>3, <1>6, HeldFacts DEF Keeps

(* The tail that is cut off the stream is the end of the item it becomes. *)
LEMMA CutLosesNothing ==
  ASSUME TypeOK, Numbered, CutFrame PROVE Keeps
<1>1. PICK soi \in 1 .. Len(buffer), k \in 1 .. Len(buffer) :
        /\ soi + 2 <= k /\ buffer[k].part = "tail" /\ buffer[soi + 1].part = "head"
        /\ \A j \in 1 .. soi : buffer[j].part = "mark"
        /\ \A j \in 1 .. k - 1 : buffer[j].part # "tail"
        /\ items' = Append(items, FrameItem(SubSeq(buffer, soi, k)))
        /\ buffer' \in Seq(Pieces) /\ Len(buffer') = Len(buffer) - k
        /\ \A i \in 1 .. Len(buffer') : buffer'[i] = buffer[k + i]
  BY CutFacts DEF Numbered
<1>2. /\ buffer \in Seq(Pieces) /\ Len(buffer) \in Nat /\ k \in 1 .. Len(buffer)
      /\ k \in 0 .. Len(buffer) /\ soi \in 1 .. k /\ items \in Seq(Items) /\ wire' = wire
  <2>1. buffer \in Seq(Pieces) /\ items \in Seq(Items) /\ wire' = wire
    BY DEF TypeOK, CutFrame, capture
  <2> QED BY <1>1, <2>1, PieceFacts
<1> DEFINE pieces == SubSeq(buffer, soi, k)
           m == k - soi + 1
           item == FrameItem(pieces)
<1>3. pieces \in Seq(Pieces) /\ Len(pieces) = m /\ pieces[m] = buffer[k]
  <2>1. \A i \in soi .. k : buffer[i] \in Pieces
    <3>1. \A i \in soi .. k : i \in 1 .. Len(buffer)
      BY <1>2
    <3> QED BY <1>2, <3>1, ElementOfSeq
  <2>2. m \in 1 .. m /\ soi + m - 1 = k /\ soi \in Int /\ k \in Int /\ soi <= k
    BY <1>1, <1>2
  <2>3. /\ pieces \in Seq(Pieces) /\ Len(pieces) = m
        /\ \A i \in 1 .. m : pieces[i] = buffer[soi + i - 1]
    BY <2>1, <2>2, SubSeqProperties
  <2> QED BY <2>2, <2>3
<1> HIDE DEF pieces, m
<1>4. item \in Items /\ IsFrame(item) /\ LastId(item) = buffer[k].id
  BY <1>3 DEF FrameItem, IsFrame, Items, LastId
<1> HIDE DEF item
<1>5. /\ \A i \in Frames : i \in Frames' /\ items'[i] = items[i]
      /\ \E i \in Frames' : LastId(items'[i]) = buffer[k].id
  <2>1. items' = Append(items, item)
    BY <1>1 DEF item, pieces
  <2>2. /\ Len(items) \in Nat /\ DOMAIN items = 1 .. Len(items)
        /\ DOMAIN items' = 1 .. Len(items) + 1
        /\ \A i \in 1 .. Len(items) : items'[i] = items[i]
        /\ items'[Len(items) + 1] = item
    BY <1>2, <1>4, <2>1, AppendProperties, LenProperties
  <2>3. \A i \in Frames : i \in 1 .. Len(items) /\ i \in 1 .. Len(items) + 1
    BY <2>2 DEF Frames
  <2>4. \A i \in Frames : i \in Frames' /\ items'[i] = items[i]
    BY <2>2, <2>3 DEF Frames, IsFrame
  <2>5. Len(items) + 1 \in Frames'
    BY <1>4, <2>2 DEF Frames, IsFrame
  <2> QED BY <1>4, <2>2, <2>4, <2>5
<1>6. /\ Len(Stream') = Len(Stream) - k /\ DOMAIN Stream' = 1 .. Len(Stream')
      /\ \A i \in 1 .. Len(Stream') : Stream'[i] = Stream[k + i]
  BY <1>1, <1>2, CutStream
<1>7. /\ DOMAIN Stream = 1 .. Len(Stream) /\ Len(Stream) \in Nat
      /\ \A j \in 1 .. k : Stream[j] = buffer[j]
  BY <1>2, StreamFacts
<1>8. ASSUME NEW j \in DOMAIN Stream, Stream[j].part = "tail"
      PROVE  Stream[j].id \in Held'
  <2>1. CASE j < k
    <3>1. j \in 1 .. k - 1 /\ j \in 1 .. k
      BY <1>2, <1>7, <2>1
    <3>2. Stream[j].part # "tail"
      BY <1>1, <1>7, <3>1
    <3> QED BY <1>8, <3>2
  <2>2. CASE j = k
    <3>1. Stream[j].id = buffer[k].id
      BY <1>2, <1>7, <2>2
    <3> QED BY <1>5, <3>1, HeldFacts
  <2>3. CASE j > k
    <3>1. j - k \in 1 .. Len(Stream') /\ k + (j - k) = j
      BY <1>2, <1>6, <1>7, <2>3
    <3>2. j - k \in DOMAIN Stream' /\ Stream'[j - k] = Stream[j]
      BY <1>6, <3>1
    <3> QED BY <1>8, <3>2, HeldFacts
  <2> QED BY <1>1, <1>7, <2>1, <2>2, <2>3
<1>9. \A i \in Frames : LastId(items[i]) \in Held'
  <2>1. ASSUME NEW i \in Frames PROVE LastId(items[i]) \in Held'
    BY <1>5, HeldFacts
  <2> QED BY <2>1
<1> QED BY <1>8, <1>9, HeldFacts DEF Keeps

(* Only marks are dropped, and a frame with a tail is all there. *)
LEMMA SplitLosesNothing ==
  ASSUME TypeOK, Numbered, SplitEnds PROVE Keeps
<1>1. PICK k \in 0 .. Len(buffer) :
        /\ \A j \in 1 .. k : buffer[j].part = "mark"
        /\ buffer' \in Seq(Pieces) /\ Len(buffer') = Len(buffer) - k
        /\ \A i \in 1 .. Len(buffer') : buffer'[i] = buffer[k + i]
  BY SplitFacts DEF Numbered, SplitEnds
<1>2. items' = items /\ wire' = wire
  BY DEF SplitEnds, capture
<1>3. Frames' = Frames
  BY <1>2 DEF Frames, IsFrame
<1>4. /\ Len(Stream') = Len(Stream) - k /\ DOMAIN Stream' = 1 .. Len(Stream')
      /\ \A i \in 1 .. Len(Stream') : Stream'[i] = Stream[k + i]
  BY <1>1, <1>2, CutStream
<1>5. /\ DOMAIN Stream = 1 .. Len(Stream) /\ Len(Stream) \in Nat
      /\ Len(buffer) \in Nat /\ \A j \in 1 .. Len(buffer) : Stream[j] = buffer[j]
  BY StreamFacts
<1>6. ASSUME NEW j \in DOMAIN Stream, Stream[j].part = "tail"
      PROVE  Stream[j].id \in Held'
  <2>1. ~(j <= k)
    <3>1. j <= k => j \in 1 .. k /\ j \in 1 .. Len(buffer)
      BY <1>1, <1>5
    <3> QED BY <1>1, <1>5, <1>6, <3>1
  <2>2. j - k \in 1 .. Len(Stream') /\ k + (j - k) = j
    BY <1>1, <1>4, <1>5, <2>1
  <2>3. j - k \in DOMAIN Stream' /\ Stream'[j - k] = Stream[j]
    BY <1>4, <2>2
  <2> QED BY <1>6, <2>3, HeldFacts
<1>7. \A i \in Frames : LastId(items[i]) \in Held'
  BY <1>2, <1>3, HeldFacts
<1> QED BY <1>6, <1>7, HeldFacts DEF Keeps

(* The old connection is closed: what is in the buffer stays. *)
LEMMA ReopenLosesTheWire ==
  ASSUME TypeOK, Phases, Reopen PROVE Keeps
<1> USE DEF Reopen, stream
<1>1. buffer \in Seq(Pieces) /\ buffer' = buffer /\ items' = items /\ wire' = <<>>
  BY DEF TypeOK
<1>2. Stream' = buffer
  BY <1>1, ConcatEmptySeq DEF Stream
<1>3. Frames = {}
  <2>1. items = <<>> /\ DOMAIN items = {}
    BY DEF Phases
  <2> QED BY <2>1 DEF Frames
<1>4. ASSUME NEW j \in DOMAIN Stream, Stream[j].part = "tail"
      PROVE  Stream[j].id \in Held' \/ Stream[j].id \in TailsOf(wire)
  <2>1. CASE j \in DOMAIN buffer
    <3>1. Stream'[j] = Stream[j] /\ j \in DOMAIN Stream'
      BY <1>2, <2>1, StreamFacts
    <3> QED BY <1>4, <3>1, HeldFacts
  <2>2. CASE j \notin DOMAIN buffer
    <3> DEFINE i == j - Len(buffer)
    <3>1. i \in 1 .. Len(wire) /\ j = Len(buffer) + i
      BY <1>4, <2>2, StreamFacts
    <3>2. i \in DOMAIN wire /\ wire[i] = Stream[j]
      BY <3>1, StreamFacts
    <3> QED BY <1>4, <3>2 DEF TailsOf
  <2> QED BY <2>1, <2>2
<1> QED BY <1>3, <1>4, HeldFacts DEF Keeps

(* The first item is asked about, and the others move up. *)
LEMMA OfferLosesNothing ==
  ASSUME TypeOK, Offer, pc' # "done" PROVE Keeps
<1> USE DEF capture
<1>1. /\ items' = Tail(items) /\ items # <<>> /\ Head(items) = items[1]
      /\ newest' = IF IsFrame(items[1]) THEN LastId(items[1]) ELSE newest
      /\ buffer' = buffer /\ wire' = wire
  BY DEF Offer, Classify
<1>2. Stream' = Stream
  BY <1>1 DEF Stream
<1>3. /\ Len(items) \in Nat /\ Len(items) > 0 /\ DOMAIN items = 1 .. Len(items)
      /\ items \in Seq(Items)
  BY <1>1, ItemFacts DEF TypeOK
<1>4. /\ DOMAIN items' = 1 .. Len(items) - 1
      /\ \A i \in 1 .. Len(items) - 1 : items'[i] = items[i + 1]
  <2>1. /\ Tail(items) \in Seq(Items) /\ Len(Tail(items)) = Len(items) - 1
        /\ \A i \in 1 .. Len(items) - 1 : Tail(items)[i] = items[i + 1]
    BY <1>1, <1>3, HeadTailProperties
  <2> QED BY <1>1, <2>1, LenProperties
<1>5. ASSUME NEW i \in Frames
      PROVE  LastId(items[i]) \in Held' \/ LastId(items[i]) = newest'
  <2>1. i \in 1 .. Len(items) /\ IsFrame(items[i])
    BY <1>3 DEF Frames
  <2>2. CASE i = 1
    BY <1>1, <2>1, <2>2
  <2>3. CASE i # 1
    <3> DEFINE m == i - 1
    <3>1. m \in 1 .. Len(items) - 1 /\ m + 1 = i
      BY <1>3, <2>1, <2>3
    <3> HIDE DEF m
    <3>2. m \in DOMAIN items' /\ items'[m] = items[i]
      BY <1>4, <3>1
    <3>3. m \in Frames'
      BY <2>1, <3>2 DEF Frames, IsFrame
    <3> QED BY <3>2, <3>3, HeldFacts
  <2> QED BY <2>2, <2>3
<1>6. \A j \in DOMAIN Stream : Stream[j].part = "tail" => Stream[j].id \in Held'
  BY <1>2, HeldFacts
<1> QED BY <1>5, <1>6, HeldFacts DEF Keeps

LEMMA StepLosesNothing ==
  ASSUME RelayInv, Next, pc' # "done" PROVE Keeps
<1> USE DEF RelayInv
<1>1. CASE CaptureBegins \/ CaptureGoesOn
  BY <1>1, CaptureLosesNothing
<1>2. CASE Receive
  <2>1. Stream' = Stream
    BY <1>2, ReceiveKeeps
  <2>2. items' = items
    BY <1>2 DEF Receive, Phases
  <2> QED BY <2>1, <2>2, NothingMoves
<1>3. CASE CutFrame
  BY <1>3, CutLosesNothing
<1>4. CASE SplitEnds
  BY <1>4, SplitLosesNothing
<1>5. CASE HearNothing
  <2>1. Stream' = Stream
    BY <1>5 DEF HearNothing, Stream, capture
  <2>2. Frames = {}
    <3>1. items = <<>> /\ DOMAIN items = {}
      BY <1>5 DEF HearNothing, Phases
    <3> QED BY <3>1 DEF Frames
  <2> QED BY <2>1, <2>2, HeldFacts DEF Keeps
<1>6. CASE Reopen
  BY <1>6, ReopenLosesTheWire
<1>7. CASE Offer
  BY <1>7, OfferLosesNothing
<1>8. CASE SendFails
  BY <1>8 DEF SendFails
<1>9. CASE \/ CaptureCloses \/ CaptureComesBack \/ Viewer \/ Tick
           \/ Connect \/ YieldReturns \/ BackoffEnds \/ SendSome \/ SendEnds
  <2>1. items' = items /\ buffer' = buffer /\ wire' = wire
    BY <1>9 DEF CaptureCloses, CaptureComesBack, Viewer, ViewerTakes, ViewerSticks,
                ViewerGoes, Tick, Connect, YieldReturns, BackoffEnds, SendSome, SendEnds,
                capture, stream
  <2>2. Stream' = Stream
    BY <2>1 DEF Stream
  <2> QED BY <2>1, <2>2, NothingMoves
<1> QED BY <1>1, <1>2, <1>3, <1>4, <1>5, <1>6, <1>7, <1>8, <1>9
        DEF Next, Relay, Capture

--------------------------------------------------------------------------------
(* The theorems *)

(* Every frame is offered once and in its turn, and as it was captured but   *)
(* for the first of a reconnect, with the inductive invariant this needs.   *)
THEOREM RelayInvariant == Spec => []RelayInv
<1>1. ASSUME RelayInv, UNCHANGED vars PROVE RelayInv'
  <2>1. TypeOK'
    BY <1>1 DEF RelayInv, TypeOK, vars, capture, stream, pacer, watcher, history
  <2> QED BY <1>1, <2>1, ElsewhereStep DEF vars, capture, stream, history
<1>2. RelayInv /\ [Next]_vars => RelayInv'
  BY <1>1, CaptureStep, ViewerStep, RelayStep, TickStep DEF Next
<1> QED BY <1>2, InitOK, PTL DEF Spec

(* A viewer that takes what it is sent is shown something new, or told why   *)
(* there is nothing, in InterruptedAfter and one cycle of the loop.         *)
THEOREM ViewerIsTold == Spec => []NeverFrozen
<1>1. RelayInv => NeverFrozen
  BY DEF RelayInv, Patience, NeverFrozen
<1> QED BY <1>1, RelayInvariant, PTL

(* A frame that has come in to its end is held until the pacer is asked      *)
(* about it, however the reads cut the stream up and across reconnects, but *)
(* for what comes in between a timeout and the close it leads to.           *)
THEOREM NothingIsLost == Spec => NoFrameLost
<1>1. ASSUME RelayInv, [Next]_vars, pc' # "done" PROVE Keeps \/ UNCHANGED vars
  BY <1>1, StepLosesNothing
<1>2. RelayInv /\ [Next]_vars =>
        [pc' # "done" =>
           \A n \in Held : \/ n \in Held'
                          \/ n = newest'
                          \/ (pc = "reopen" /\ n \in TailsOf(wire))]_vars
  BY <1>1 DEF Keeps
<1> QED BY <1>2, RelayInvariant, PTL DEF Spec, NoFrameLost
================================================================================
