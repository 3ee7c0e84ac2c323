----------------------------- MODULE ImposterProofs -----------------------------
(***************************************************************************)
(* The imposter's safety properties, for any number of buffers, any pipe   *)
(* that holds a token per buffer, and pictures of any length.              *)
(***************************************************************************)
EXTENDS Imposter, SequenceTheorems, TLAPS

USE ImposterAssumption

--------------------------------------------------------------------------------
(* Facts about tokens *)

(* A token goes to the back of the pipe. *)
LEMMA AppendFacts ==
  ASSUME NEW p \in Seq(Slots), NEW s \in Slots
  PROVE  /\ Append(p, s) \in Seq(Slots)
         /\ Len(Append(p, s)) = Len(p) + 1
         /\ TokensIn(Append(p, s)) = TokensIn(p) \cup {s}
         /\ Once(p) /\ s \notin TokensIn(p) => Once(Append(p, s))
<1>1. /\ Append(p, s) \in Seq(Slots) /\ Len(Append(p, s)) = Len(p) + 1 /\ Len(p) \in Nat
      /\ \A i \in 1 .. Len(p) : Append(p, s)[i] = p[i]
      /\ Append(p, s)[Len(p) + 1] = s
  OBVIOUS
<1>2. \A i \in 1 .. Len(p) + 1 : i \in 1 .. Len(p) \/ i = Len(p) + 1
  BY <1>1
<1>3. TokensIn(Append(p, s)) = TokensIn(p) \cup {s}
  BY <1>1, <1>2 DEF TokensIn
<1>4. ASSUME Once(p), s \notin TokensIn(p) PROVE Once(Append(p, s))
  BY <1>1, <1>2, <1>4 DEF Once, TokensIn
<1> QED BY <1>1, <1>3, <1>4

(* A token is taken from the front of the pipe. *)
LEMMA TakeFacts ==
  ASSUME NEW p \in Seq(Slots), p # <<>>
  PROVE  /\ Head(p) \in Slots /\ Tail(p) \in Seq(Slots)
         /\ Len(p) \in Nat /\ Len(Tail(p)) = Len(p) - 1
         /\ TokensIn(p) = {Head(p)} \cup TokensIn(Tail(p))
         /\ Once(p) => Once(Tail(p)) /\ Head(p) \notin TokensIn(Tail(p))
<1>1. /\ Head(p) \in Slots /\ Tail(p) \in Seq(Slots) /\ Len(Tail(p)) = Len(p) - 1
      /\ Len(p) \in Nat /\ Len(p) >= 1 /\ Head(p) = p[1]
      /\ \A i \in 1 .. Len(Tail(p)) : Tail(p)[i] = p[i + 1]
  BY HeadTailProperties
<1>2. /\ \A i \in 1 .. Len(Tail(p)) : i + 1 \in 1 .. Len(p) /\ i + 1 # 1
      /\ \A i \in 1 .. Len(p) : i = 1 \/ (i - 1 \in 1 .. Len(Tail(p)) /\ (i - 1) + 1 = i)
      /\ 1 \in 1 .. Len(p)
  BY <1>1
<1>3. TokensIn(p) = {Head(p)} \cup TokensIn(Tail(p))
  <2>1. ASSUME NEW i \in 1 .. Len(p) PROVE p[i] \in {Head(p)} \cup TokensIn(Tail(p))
    <3>1. CASE i = 1
      BY <1>1, <3>1
    <3>2. CASE i - 1 \in 1 .. Len(Tail(p)) /\ (i - 1) + 1 = i
      BY <1>1, <3>2 DEF TokensIn
    <3> QED BY <1>2, <3>1, <3>2
  <2>2. ASSUME NEW i \in 1 .. Len(Tail(p)) PROVE Tail(p)[i] \in TokensIn(p)
    BY <1>1, <1>2 DEF TokensIn
  <2>3. Head(p) \in TokensIn(p)
    BY <1>1, <1>2 DEF TokensIn
  <2> QED BY <2>1, <2>2, <2>3 DEF TokensIn
<1>4. ASSUME Once(p) PROVE Once(Tail(p)) /\ Head(p) \notin TokensIn(Tail(p))
  <2>1. Once(Tail(p))
    <3> SUFFICES ASSUME NEW i \in 1 .. Len(Tail(p)), NEW j \in 1 .. Len(Tail(p)),
                        Tail(p)[i] = Tail(p)[j]
                 PROVE  i = j
      BY DEF Once
    <3>1. i + 1 = j + 1
      BY <1>1, <1>2, <1>4 DEF Once
    <3> QED BY <3>1
  <2>2. ASSUME NEW i \in 1 .. Len(Tail(p)) PROVE Tail(p)[i] # Head(p)
    BY <1>1, <1>2, <1>4 DEF Once
  <2> QED BY <2>1, <2>2 DEF TokensIn
<1> QED BY <1>1, <1>3, <1>4

(* A pipe with no tokens in it. *)
LEMMA EmptyFacts == <<>> \in Seq(Slots) /\ Len(<<>>) = 0 /\ TokensIn(<<>>) = {} /\ Once(<<>>)
  BY DEF TokensIn, Once

(* STREAMON writes each queued buffer's token once. *)
LEMMA StreamonFacts ==
  ASSUME TypeOK, TokensMatchQueue, QueuedIsMapped, Streamon
  PROVE  pipe' \in Seq(Slots) /\ Len(pipe') <= PipeRoom /\ TokensIn(pipe') = Live /\ Once(pipe')
<1>1. pipe = <<>>
  BY DEF Streamon, TokensMatchQueue
<1>2. PICK order \in [1 .. MaxBuffers -> Slots], n \in 0 .. MaxBuffers :
        /\ {order[i] : i \in 1 .. n} = Live \cap mapped
        /\ \A i, j \in 1 .. n : i < j => order[i] < order[j]
        /\ pipe' = pipe \o SubSeq(order, 1, n)
  BY DEF Streamon
<1>3. \A i \in 1 .. n : order[i] \in Slots
  OBVIOUS
<1> DEFINE q == SubSeq(order, 1, n)
<1>4. /\ q \in Seq(Slots) /\ Len(q) = n
      /\ \A i \in 1 .. n : q[i] = order[i]
  <2>1. /\ q \in Seq(Slots)
        /\ Len(q) = IF 1 <= n THEN n - 1 + 1 ELSE 0
        /\ \A i \in 1 .. n - 1 + 1 : q[i] = order[1 + i - 1]
    BY <1>3, SubSeqProperties
  <2> QED BY <2>1
<1> HIDE DEF q
<1>5. pipe' = q
  BY <1>1, <1>2, <1>4, ConcatEmptySeq DEF q
<1>6. Live \cap mapped = Live
  BY DEF QueuedIsMapped
<1>7. TokensIn(q) = Live
  BY <1>2, <1>4, <1>6 DEF TokensIn
<1>8. Once(q)
  <2> SUFFICES ASSUME NEW i \in 1 .. n, NEW j \in 1 .. n, q[i] = q[j]
               PROVE  i = j
    BY <1>4 DEF Once
  <2>1. order[i] = order[j] /\ order[i] \in Int
    BY <1>3, <1>4 DEF Slots
  <2>2. (i < j => order[i] < order[j]) /\ (j < i => order[j] < order[i])
    BY <1>2
  <2> QED BY <2>1, <2>2
<1> QED BY <1>4, <1>5, <1>7, <1>8

--------------------------------------------------------------------------------
(* The inductive invariant *)

(* After close or REQBUFS no buffer that the program has is queued. *)
LEMMA NoneLive ==
  ASSUME TypeOK, TypeOK', (queued' = queued /\ count' = 0) \/ queued' = {s \in queued : s >= count'}
  PROVE  Live' = {}
<1>1. \A s \in queued' : s \in Int /\ s >= 0 /\ count' \in Int
  BY DEF TypeOK, Slots
<1>2. \A s \in queued' : ~(s < count')
  BY <1>1
<1> QED BY <1>2 DEF Live

LEMMA ImposterInit == Init => ImposterInv
<1> SUFFICES ASSUME Init PROVE ImposterInv
  OBVIOUS
<1>1. TypeOK
  <2>1. pipe \in Seq(Slots) /\ Len(pipe) <= PipeRoom
    BY EmptyFacts DEF Init
  <2>2. cur \in Slots
    BY DEF Init, Slots
  <2>3. BufferLen \in Nat /\ MostSent \in Nat
    BY DEF BufferLen, MostSent
  <2>4. /\ got \in 0 .. BufferLen /\ sent \in 0 .. MostSent /\ got <= sent
        /\ picture \in 0 .. BufferLen /\ count \in 0 .. MaxBuffers
        /\ listens \in BOOLEAN /\ backlog \in 0 .. Backlog
    BY <2>3 DEF Init
  <2> QED BY <2>1, <2>2, <2>4 DEF Init, TypeOK
<1>2. ClosedIsOff /\ QueuedIsMapped /\ TokensMatchQueue /\ RoomForToken
  BY DEF Init, ClosedIsOff, QueuedIsMapped, TokensMatchQueue, RoomForToken, Live
<1> QED BY <1>1, <1>2 DEF ImposterInv

(* A dropped picture puts its token back, and the buffer stays queued. *)
LEMMA DropStep ==
  ASSUME ImposterInv, pc # "call", DropPicture
  PROVE  ImposterInv'
<1>1. /\ TypeOK /\ QueuedIsMapped /\ TokensMatchQueue /\ RoomForToken
      /\ pc' = "call" /\ pipe' = Append(pipe, cur) /\ cur \in Slots /\ Live' = Live
  BY DEF DropPicture, Return, ImposterInv, Live, TypeOK
<1>2. /\ pipe' \in Seq(Slots) /\ Len(pipe') = Len(pipe) + 1 /\ Len(pipe) \in Nat
      /\ TokensIn(pipe') = TokensIn(pipe) \cup {cur}
      /\ Once(pipe) /\ cur \notin TokensIn(pipe) => Once(pipe')
  BY <1>1, AppendFacts, LenProperties DEF TypeOK
<1>3. TypeOK'
  BY <1>1, <1>2 DEF DropPicture, Return, TypeOK, RoomForToken, BufferLen, MostSent
<1>4. QueuedIsMapped' /\ RoomForToken'
  BY <1>1 DEF DropPicture, Return, QueuedIsMapped, RoomForToken
<1>5. TokensMatchQueue'
  BY <1>1, <1>2 DEF DropPicture, Return, TokensMatchQueue, InHand
<1>6. ClosedIsOff'
  BY DEF ClosedIsOff, DropPicture, Return, ImposterInv
<1> QED BY <1>3, <1>4, <1>5, <1>6 DEF ImposterInv

LEMMA ImposterStep == ImposterInv /\ [Next]_vars => ImposterInv'
<1> SUFFICES ASSUME ImposterInv, [Next]_vars PROVE ImposterInv'
  OBVIOUS
<1> USE DEF ImposterInv
<1>0. /\ Len(pipe) \in Nat /\ TokensIn(pipe) \subseteq Slots
  <2>1. pipe \in Seq(Slots)
    BY DEF TypeOK
  <2> QED BY <2>1, LenProperties, ElementOfSeq DEF TokensIn
<1>c. ClosedIsOff'
  BY DEF Next, Calls, Fetch, Daemon, ClosedIsOff, Open, Close, Reqbufs, Mmap, Munmap, Qbuf,
         Streamon, Streamoff, DqbufStaleToken, DqbufTakesToken, DqbufConnects,
         DqbufCannotConnect, Called, Dequeueing, FetchRead, FetchSucceeds, FetchCutOff,
         FetchTimesOut, DropPicture, Return, DaemonAccepts, DaemonSends, DaemonHangsUp, DaemonGoes,
         DaemonComes, ReaderConnects, calls, vars
<1>1. CASE Open
  <2>1. TypeOK'
    BY <1>1, EmptyFacts DEF Open, TypeOK, fetch, daemon, history, BufferLen, MostSent
  <2>2. QueuedIsMapped' /\ RoomForToken'
    BY <1>1 DEF Open, QueuedIsMapped, RoomForToken, Live, fetch
  <2>3. TokensMatchQueue'
    <3>1. pc = "call" /\ pc' = "call" /\ streaming' = streaming /\ pipe' = <<>> /\ mixed' = mixed /\ Live' = Live
      BY <1>1 DEF Open, fetch, history, Live
    <3>2. ~streaming
      BY <1>1 DEF Open, ClosedIsOff
    <3> QED BY <3>1, <3>2 DEF TokensMatchQueue
  <2> QED BY <1>c, <1>1, <2>1, <2>2, <2>3 DEF Open, history
<1>2. CASE Close
  <2>1. TypeOK'
    <3>1. pipe' \in Seq(Slots) /\ Len(pipe') <= PipeRoom
      BY <1>2, EmptyFacts DEF Close
    <3>2. UNCHANGED <<pc, cur, got, conn, sent, listens, backlog, picture>> /\ mixed' = FALSE /\ streaming' = FALSE
      BY <1>2 DEF Close, fetch, daemon
    <3>3. /\ opened' = FALSE /\ count' = 0 /\ mapped' = {} /\ queued' = queued
      BY <1>2 DEF Close
    <3>4. count' \in 0 .. MaxBuffers
      BY <3>3
    <3> QED BY <3>1, <3>2, <3>3, <3>4 DEF TypeOK
  <2>2. Live' = {} /\ pc' = "call"
    BY <1>2, <2>1, NoneLive DEF Close, Called, fetch
  <2> QED BY <1>c, <1>2, <2>1, <2>2
       DEF Close, QueuedIsMapped, TokensMatchQueue, RoomForToken
<1>3. ASSUME NEW n \in 0 .. MaxBuffers + 1, Reqbufs(n) PROVE ImposterInv'
  <2>1. TypeOK'
    BY <1>3 DEF Reqbufs, TypeOK, fetch, daemon, BufferLen, MostSent
  <2>2. Live' = {} /\ pc = "call" /\ pc' = "call" /\ pipe' = pipe /\ streaming' = streaming
    BY <1>3, <2>1, NoneLive DEF Reqbufs, Called, fetch
  <2>3. TokensMatchQueue'
    BY <1>3, <2>2 DEF Reqbufs, TokensMatchQueue, InHand, TypeOK
  <2> QED BY <1>c, <1>3, <2>1, <2>2, <2>3 DEF Reqbufs, QueuedIsMapped, RoomForToken
<1>4. ASSUME NEW s \in Slots, Mmap(s) PROVE ImposterInv'
  <2>1. TypeOK'
    BY <1>4 DEF Mmap, TypeOK, fetch, daemon, history, BufferLen, MostSent
  <2>2. Live' = Live /\ UNCHANGED <<pc, cur, pipe, streaming, mixed, picture>> /\ mapped \subseteq mapped'
    BY <1>4 DEF Mmap, Live, fetch, history
  <2> QED BY <1>c, <2>1, <2>2
       DEF QueuedIsMapped, TokensMatchQueue, RoomForToken, InHand
<1>5. ASSUME NEW s \in Slots, Munmap(s) PROVE ImposterInv'
  <2>1. TypeOK'
    BY <1>5 DEF Munmap, TypeOK, fetch, daemon, history, BufferLen, MostSent
  <2>2. /\ Live' = Live /\ UNCHANGED <<pc, cur, pipe, streaming, mixed, picture>>
        /\ mapped' = mapped \ {s} /\ s \notin Live
    BY <1>5 DEF Munmap, Live, fetch, history
  <2> QED BY <1>c, <2>1, <2>2
       DEF QueuedIsMapped, TokensMatchQueue, RoomForToken, InHand
<1>6. ASSUME NEW s \in Slots, Qbuf(s) PROVE ImposterInv'
  <2>1. /\ Live' = Live \cup {s} /\ s \notin Live /\ s \in mapped /\ mapped' = mapped
        /\ UNCHANGED <<pc, cur, streaming, mixed, picture>> /\ pc = "call"
    BY <1>6 DEF Qbuf, Called, Live, fetch, history
  <2>2. CASE ~streaming
    <3>1. pipe' = pipe
      BY <1>6, <2>2 DEF Qbuf
    <3>2. TypeOK'
      BY <1>6, <3>1 DEF Qbuf, TypeOK, fetch, daemon, history, BufferLen, MostSent
    <3> QED BY <1>c, <2>1, <2>2, <3>1, <3>2
         DEF QueuedIsMapped, TokensMatchQueue, RoomForToken, InHand
  <2>3. CASE streaming
    <3>1. pipe' = Append(pipe, s) /\ Len(pipe) < PipeRoom
      BY <1>6, <2>3 DEF Qbuf
    <3>2. /\ pipe' \in Seq(Slots) /\ Len(pipe') = Len(pipe) + 1
          /\ TokensIn(pipe') = TokensIn(pipe) \cup {s}
          /\ Once(pipe) /\ s \notin TokensIn(pipe) => Once(pipe')
      BY <3>1, AppendFacts DEF TypeOK
    <3>3. TypeOK'
      BY <1>0, <1>6, <3>1, <3>2 DEF Qbuf, TypeOK, fetch, daemon, history, BufferLen, MostSent
    <3>4. TokensMatchQueue'
      BY <2>1, <2>3, <3>2 DEF TokensMatchQueue, InHand
    <3> QED BY <1>c, <2>1, <3>3, <3>4 DEF QueuedIsMapped, RoomForToken
  <2> QED BY <1>c, <2>2, <2>3 DEF TypeOK
<1>7. CASE Streamon
  <2>1. /\ pipe' \in Seq(Slots) /\ Len(pipe') <= PipeRoom /\ TokensIn(pipe') = Live /\ Once(pipe')
    BY <1>7, StreamonFacts
  <2>2. /\ Live' = Live /\ pc = "call"
        /\ UNCHANGED <<count, mapped, queued, pc, cur, mixed, picture>> /\ streaming' = TRUE
    BY <1>7 DEF Streamon, Called, Live, fetch, history
  <2>3. TypeOK'
    BY <1>7, <2>1 DEF Streamon, TypeOK, fetch, daemon, history, BufferLen, MostSent
  <2> QED BY <1>c, <2>1, <2>2, <2>3
       DEF QueuedIsMapped, TokensMatchQueue, RoomForToken, InHand
<1>8. CASE Streamoff
  <2>1. TypeOK'
    <3>1. pipe' \in Seq(Slots) /\ Len(pipe') <= PipeRoom
      BY <1>8, EmptyFacts DEF Streamoff
    <3>2. UNCHANGED <<pc, cur, got, conn, sent, listens, backlog, picture>> /\ mixed' = FALSE /\ streaming' = FALSE
      BY <1>8 DEF Streamoff, fetch, daemon
    <3> QED BY <1>8, <3>1, <3>2 DEF Streamoff, TypeOK
  <2>2. /\ Live' \subseteq Live /\ pc = "call" /\ pc' = "call" /\ pipe' = <<>>
        /\ UNCHANGED <<mapped, picture>> /\ ~streaming' /\ ~mixed'
    BY <1>8 DEF Streamoff, Called, Live, fetch
  <2> QED BY <1>c, <2>1, <2>2
       DEF QueuedIsMapped, TokensMatchQueue, RoomForToken
<1>9. CASE DqbufStaleToken
  <2>1. /\ pipe # <<>> /\ streaming /\ Head(pipe) \notin Live /\ pipe' = Tail(pipe) /\ Live' = Live
        /\ pc = "call" /\ UNCHANGED <<mapped, pc, cur, streaming, mixed, picture>>
    BY <1>9 DEF DqbufStaleToken, Dequeueing, Called, Live, fetch, history
  <2>2. /\ pipe' \in Seq(Slots) /\ Len(pipe') = Len(pipe) - 1
        /\ TokensIn(pipe) = {Head(pipe)} \cup TokensIn(pipe')
    BY <2>1, TakeFacts DEF TypeOK
  <2>3. TypeOK'
    BY <1>0, <1>9, <2>2 DEF DqbufStaleToken, TypeOK, fetch, daemon, history, BufferLen, MostSent
  <2>4. TokensMatchQueue'
    BY <2>1, <2>2 DEF TokensMatchQueue, InHand
  <2> QED BY <1>c, <2>1, <2>3, <2>4 DEF QueuedIsMapped, RoomForToken
<1>10. CASE DqbufTakesToken
  <2>1. /\ pipe # <<>> /\ streaming /\ Head(pipe) \in Live /\ cur' = Head(pipe)
        /\ pipe' = Tail(pipe) /\ Live' = Live /\ pc = "call" /\ pc' = "connect"
        /\ UNCHANGED <<mapped, streaming, mixed, picture>>
    BY <1>10 DEF DqbufTakesToken, Dequeueing, Called, Live, history
  <2>2. /\ Head(pipe) \in Slots /\ pipe' \in Seq(Slots) /\ Len(pipe') = Len(pipe) - 1
        /\ TokensIn(pipe) = {Head(pipe)} \cup TokensIn(pipe')
        /\ Once(pipe) => Once(pipe') /\ Head(pipe) \notin TokensIn(pipe')
    BY <2>1, TakeFacts DEF TypeOK
  <2>3. TypeOK'
    BY <1>0, <1>10, <2>1, <2>2 DEF DqbufTakesToken, TypeOK, daemon, history, BufferLen, MostSent
  <2>4. TokensMatchQueue'
    BY <2>1, <2>2 DEF TokensMatchQueue, InHand
  <2>5. RoomForToken'
    BY <1>0, <2>2 DEF RoomForToken, TypeOK
  <2> QED BY <1>c, <2>1, <2>3, <2>4, <2>5 DEF QueuedIsMapped
<1>11. CASE DqbufConnects
  <2>1. TypeOK'
    BY <1>11 DEF DqbufConnects, TypeOK, calls, history, BufferLen, MostSent
  <2>2. /\ Live' = Live /\ pc = "connect" /\ pc' = "fetch"
        /\ UNCHANGED <<mapped, pipe, cur, streaming, mixed>>
    BY <1>11 DEF DqbufConnects, Live, calls, history
  <2>3. TokensMatchQueue'
    BY <2>2 DEF TokensMatchQueue, InHand
  <2> QED BY <1>c, <2>1, <2>2, <2>3 DEF QueuedIsMapped, RoomForToken
<1>12. ASSUME NEW k \in 1 .. BufferLen, FetchRead(k) PROVE ImposterInv'
  <2>1. TypeOK'
    BY <1>12 DEF FetchRead, TypeOK, calls, daemon, history, BufferLen, MostSent
  <2> QED BY <1>c, <1>12, <2>1
       DEF FetchRead, calls, daemon, history, QueuedIsMapped, TokensMatchQueue, RoomForToken,
           InHand, Live
<1>13. CASE FetchSucceeds
  <2>1. /\ pc = "fetch" /\ pc' = "call" /\ Live' = Live \ {cur} /\ cur \in Live
        /\ UNCHANGED <<count, mapped, streaming, pipe, cur, mixed>> /\ streaming
    BY <1>13 DEF FetchSucceeds, Return, Live, QueuedIsMapped, TokensMatchQueue, TypeOK
  <2>2. TypeOK'
    BY <1>13 DEF FetchSucceeds, Return, TypeOK, BufferLen, MostSent
  <2>3. TokensMatchQueue'
    BY <2>1 DEF TokensMatchQueue, InHand
  <2> QED BY <1>c, <2>1, <2>2, <2>3 DEF QueuedIsMapped, RoomForToken
<1>14. CASE FetchCutOff \/ DqbufCannotConnect
  BY <1>14, DropStep DEF FetchCutOff, DqbufCannotConnect
<1>15. CASE FetchTimesOut
  BY <1>15, DropStep DEF FetchTimesOut, Unanswered
<1>16. CASE Daemon
  <2>1. UNCHANGED <<calls, fetch, history>>
    BY <1>16 DEF Daemon, DaemonAccepts, DaemonSends, DaemonHangsUp, DaemonGoes, DaemonComes,
       ReaderConnects
  <2>2. /\ conn' \in {"none", "waiting", "open", "hungup"} /\ sent' \in 0 .. MostSent
        /\ got <= sent' /\ listens' \in BOOLEAN /\ backlog' \in 0 .. Backlog
    <3>1. CASE DaemonSends
      BY <3>1 DEF DaemonSends, TypeOK, BufferLen, MostSent
    <3>2. CASE DaemonAccepts \/ DaemonHangsUp \/ DaemonGoes \/ DaemonComes \/ ReaderConnects
      <4>1. sent' = sent /\ conn' \in {conn, "open", "hungup"} /\ listens' \in {listens, TRUE, FALSE}
        BY <3>2 DEF DaemonAccepts, DaemonHangsUp, DaemonGoes, DaemonComes, ReaderConnects
      <4>2. backlog' \in {backlog, 0} \/ (backlog' = backlog + 1 /\ backlog < Backlog)
        BY <3>2 DEF DaemonAccepts, DaemonHangsUp, DaemonGoes, DaemonComes, ReaderConnects
      <4>3. backlog' \in 0 .. Backlog
        BY <4>2 DEF TypeOK
      <4> QED BY <4>1, <4>3 DEF TypeOK
    <3> QED BY <1>16, <3>1, <3>2 DEF Daemon
  <2>3. TypeOK'
    BY <2>1, <2>2 DEF TypeOK, calls, fetch, history, BufferLen
  <2> QED BY <1>c, <2>1, <2>3
       DEF calls, fetch, history, QueuedIsMapped, TokensMatchQueue, RoomForToken, InHand, Live
<1>18. CASE UNCHANGED vars
  BY <1>c, <1>18 DEF vars, calls, fetch, daemon, history, TypeOK, QueuedIsMapped, TokensMatchQueue,
       RoomForToken, InHand, Live, BufferLen, MostSent
<1> QED
  BY <1>1, <1>2, <1>3, <1>4, <1>5, <1>6, <1>7, <1>8, <1>9, <1>10, <1>11, <1>12, <1>13, <1>14,
     <1>15, <1>16, <1>18 DEF Next, Calls, Fetch

(* Whatever the video program calls in whatever order, and whatever the     *)
(* capture daemon does to a dequeue, the imposter's state is consistent.    *)
THEOREM ImposterInvariant == Spec => []ImposterInv
  BY ImposterInit, ImposterStep, PTL DEF Spec

(* A picture is never read into a buffer that is not mapped. *)
THEOREM FillsMappedMemory == Spec => []QueuedIsMapped
<1>1. ImposterInv => QueuedIsMapped
  BY DEF ImposterInv
<1> QED BY <1>1, ImposterInvariant, PTL

(* What the program polls says what is queued. *)
THEOREM TokensTellTheTruth == Spec => []TokensMatchQueue
<1>1. ImposterInv => TokensMatchQueue
  BY DEF ImposterInv
<1> QED BY <1>1, ImposterInvariant, PTL

--------------------------------------------------------------------------------
(* Refinement *)

(* A step of the imposter is a step of the capture queue or none of its     *)
(* business.                                                                *)
LEMMA QueueStep ==
  ASSUME FixedLength, ImposterInv, ImposterInv', [Next]_vars
  PROVE  [Queue!Next]_(Queue!vars)
<1> USE DEF ImposterInv, Queue!vars
<1>0. count \in 0 .. MaxBuffers /\ queued \subseteq Slots /\ count' \in 0 .. MaxBuffers
  BY DEF TypeOK
<1>1. CASE Open
  BY <1>1 DEF Open, Live, Picture, history
<1>2. CASE Close
  <2>1. Queue!Close
    BY <1>2, NoneLive DEF Close, Picture, Queue!Close
  <2> QED BY <2>1 DEF Queue!Next
<1>3. ASSUME NEW n \in 0 .. MaxBuffers + 1, Reqbufs(n) PROVE [Queue!Next]_(Queue!vars)
  <2>1. Queue!Request(count')
    BY <1>3, NoneLive DEF Reqbufs, Picture, Queue!Request
  <2> QED BY <1>0, <2>1 DEF Queue!Next
<1>4. ASSUME NEW s \in Slots, Mmap(s) \/ Munmap(s) PROVE [Queue!Next]_(Queue!vars)
  BY <1>4 DEF Mmap, Munmap, Live, Picture, history
<1>5. ASSUME NEW s \in Slots, Qbuf(s) PROVE [Queue!Next]_(Queue!vars)
  <2>1. Queue!Queue(s)
    BY <1>0, <1>5 DEF Qbuf, Live, Picture, Queue!Queue, history, Slots
  <2> QED BY <2>1 DEF Queue!Next, Slots
<1>6. CASE Streamon
  <2>1. Queue!Start
    BY <1>6 DEF Streamon, Live, Picture, Queue!Start, history
  <2> QED BY <2>1 DEF Queue!Next
<1>7. CASE Streamoff
  <2>1. Live \subseteq TokensIn(pipe) /\ pc = "call"
    BY <1>7 DEF Streamoff, Called, TokensMatchQueue, InHand
  <2>2. Live' = {}
    BY <1>7, <2>1 DEF Streamoff, Live
  <2>3. Queue!Stop
    BY <1>7, <2>2 DEF Streamoff, Picture, Queue!Stop
  <2> QED BY <2>3 DEF Queue!Next
<1>8. CASE DqbufStaleToken \/ DqbufTakesToken \/ DqbufConnects
  BY <1>8 DEF DqbufStaleToken, DqbufTakesToken, DqbufConnects, Live, Picture, calls, history
<1>9. ASSUME NEW k \in 1 .. BufferLen, FetchRead(k) PROVE [Queue!Next]_(Queue!vars)
  BY <1>9 DEF FetchRead, Live, Picture, history, calls
<1>10. CASE FetchSucceeds
  <2>1. streaming /\ cur \in Live /\ Live' = Live \ {cur}
    BY <1>10 DEF FetchSucceeds, Return, Live, QueuedIsMapped, TokensMatchQueue, TypeOK
  <2>2. Picture' = "whole"
    BY <1>10 DEF FetchSucceeds, IsWhole, Picture
  <2>3. Queue!HandBack(cur)
    BY <1>10, <2>1, <2>2 DEF FetchSucceeds, Return, Queue!HandBack
  <2>4. cur \in 0 .. MaxBuffers - 1
    BY DEF TypeOK, Slots
  <2> QED BY <2>3, <2>4 DEF Queue!Next
<1>11. CASE FetchCutOff \/ FetchTimesOut \/ DqbufCannotConnect
  BY <1>11 DEF FetchCutOff, FetchTimesOut, DqbufCannotConnect, Unanswered, DropPicture, Return,
     Live, Picture
<1>12. CASE Daemon
  BY <1>12 DEF Daemon, DaemonAccepts, DaemonSends, DaemonHangsUp, DaemonGoes, DaemonComes,
     ReaderConnects, Live, Picture, calls, history
<1>13. CASE UNCHANGED vars
  BY <1>13 DEF vars, calls, history, Live, Picture
<1> QED
  BY <1>1, <1>2, <1>3, <1>4, <1>5, <1>6, <1>7, <1>8, <1>9, <1>10, <1>11, <1>12, <1>13
     DEF Next, Calls, Fetch

(* The imposter is a capture queue, when pictures have a fixed length: the *)
(* program it deceives cannot tell that there is no driver behind it.      *)
THEOREM ImposterIsACaptureQueue ==
  ASSUME FixedLength PROVE Spec => ImplementsQueue
<1>1. Init => Queue!Init
  BY DEF Init, Queue!Init, Live, Picture
<1>2. ImposterInv /\ ImposterInv' /\ [Next]_vars => [Queue!Next]_(Queue!vars)
  BY QueueStep
<1> QED BY <1>1, <1>2, ImposterInvariant, PTL DEF Spec, ImplementsQueue, Queue!Spec
================================================================================
