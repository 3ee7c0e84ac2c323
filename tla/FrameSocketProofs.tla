--------------------------- MODULE FrameSocketProofs ---------------------------
(***************************************************************************)
(* FrameSocket's safety properties, for any number of readers and slots,   *)
(* any timeouts, buffer capacity and frame sizes, and every kind of socket. *)
(***************************************************************************)
EXTENDS FrameSocket, FiniteSetTheorems, SequenceTheorems, TLAPS

USE SocketAssumption

--------------------------------------------------------------------------------
(* Facts about the helpers *)

(* Ageing by a tick stays below the limit it saturates at, never goes      *)
(* back, and keeps the order of two ages.                                  *)
LEMMA OlderFacts ==
  ASSUME NEW limit \in Nat, NEW a \in 0 .. limit, NEW b \in 0 .. limit
  PROVE  /\ Older(a, limit) \in 0 .. limit
         /\ a <= Older(a, limit)
         /\ a <= b => Older(a, limit) <= Older(b, limit)
         /\ a = limit => Older(a, limit) = limit
  BY DEF Older, Min2

(* The first connection leaves the queue and the others keep their order.  *)
LEMMA QueueFacts ==
  ASSUME backlog \in Seq(Peers), backlog # <<>>
  PROVE  /\ Head(backlog) \in Peers
         /\ Head(backlog) = backlog[1]
         /\ Tail(backlog) \in Seq(Peers)
         /\ Len(backlog) \in Nat /\ Len(backlog) >= 1
         /\ Len(Tail(backlog)) = Len(backlog) - 1
         /\ \A i \in 1 .. Len(Tail(backlog)) :
              i + 1 \in 1 .. Len(backlog) /\ Tail(backlog)[i] = backlog[i + 1]
  BY HeadTailProperties

(* Slots is finite, so the open slots can be counted. *)
LEMMA OpenFinite == IsFiniteSet(Open) /\ Cardinality(Open) \in Nat
<1>1. IsFiniteSet(Slots)
  BY FS_Interval DEF Slots
<1>2. Open \in SUBSET Slots
  BY DEF Open
<1> QED BY <1>1, <1>2, FS_Subset, FS_CardinalityType

(* Putting a connection in a free slot opens exactly one slot, and the     *)
(* table stays consistent if the connection was in no other.               *)
LEMMA OpenSlotFacts ==
  ASSUME fd \in [Slots -> Peers \cup {NoFd}], TableConsistent,
         NEW s \in Slots, fd[s] = NoFd, NEW p \in Peers, ~Holds(p),
         fd' = [fd EXCEPT ![s] = p], num_clients' = num_clients + 1
  PROVE  Open' = Open \cup {s} /\ TableConsistent'
<1>1. Open' = Open \cup {s}
  BY DEF Open
<1>2. Cardinality(Open') = Cardinality(Open) + 1
  BY <1>1, OpenFinite, FS_AddElement DEF Open
<1>3. \A t, u \in Open' : fd'[t] = fd'[u] => t = u
  BY <1>1 DEF Open, Holds, TableConsistent
<1> QED BY <1>1, <1>2, <1>3 DEF TableConsistent

(* Closing a slot closes exactly that one. *)
LEMMA CloseSlotFacts ==
  ASSUME fd \in [Slots -> Peers \cup {NoFd}], TableConsistent,
         NEW s \in Slots, fd[s] # NoFd,
         fd' = [fd EXCEPT ![s] = NoFd], num_clients' = num_clients - 1
  PROVE  /\ Open' = Open \ {s}
         /\ TableConsistent'
         /\ num_clients' \in Nat
         /\ \A p \in Peers : Holds(p)' <=> Holds(p) /\ p # fd[s]
<1>1. Open' = Open \ {s} /\ s \in Open
  BY DEF Open
<1>2. Cardinality(Open') = Cardinality(Open) - 1
  BY <1>1, OpenFinite, FS_RemoveElement
<1>3. Cardinality(Open) # 0
  BY <1>1, OpenFinite, FS_EmptySet
<1>4. \A t, u \in Open' : fd'[t] = fd'[u] => t = u
  BY <1>1 DEF Open, TableConsistent
<1>5. \A p \in Peers : Holds(p)' <=> Holds(p) /\ p # fd[s]
  BY <1>1 DEF Open, Holds, TableConsistent
<1> QED BY <1>1, <1>2, <1>3, <1>4, <1>5, OpenFinite DEF TableConsistent

(* BeginCallback, NextSlot and CloseClient set their variables in type. *)
LEMMA BeginCallbackType ==
  ASSUME NEW n \in FrameSizes \cup {AudSize}, NEW b \in BOOLEAN,
         BeginCallback(n, b)
  PROVE  /\ pc' \in Positions /\ slot' \in 0 .. MaxClients
         /\ size' \in FrameSizes \cup {0, AudSize} /\ aud' \in BOOLEAN
         /\ since' \in 0 .. IdleTimeout /\ stale' \subseteq Slots
         /\ left' \in 0 .. size' /\ waited' \in 0 .. WriteTimeout
<1>1. n \in Nat
  BY DEF AudSize
<1> QED BY <1>1 DEF BeginCallback, Positions

LEMMA NextSlotType ==
  ASSUME TypeOK, slot < MaxClients, NextSlot
  PROVE  /\ pc' \in Positions /\ slot' \in 0 .. MaxClients
         /\ size' \in FrameSizes \cup {0, AudSize}
         /\ key' \in BOOLEAN /\ aud' \in BOOLEAN
         /\ since' \in 0 .. IdleTimeout /\ stale' \subseteq Slots
         /\ left' \in 0 .. size' /\ waited' \in 0 .. WriteTimeout
<1>1. size \in Nat
  BY DEF TypeOK, AudSize
<1> QED BY <1>1 DEF NextSlot, TypeOK, Positions

LEMMA CloseClientType ==
  ASSUME TypeOK, TableConsistent, NEW s \in Slots, fd[s] # NoFd,
         NEW why \in Reasons, CloseClient(s, why)
  PROVE  /\ fd' \in [Slots -> Peers \cup {NoFd}] /\ num_clients' \in Nat
         /\ need_keyframe' \in BOOLEAN
         /\ backlog' \in Seq(Peers) /\ link' \in [Peers -> Links]
         /\ unsent' \in [Peers -> 0 .. Capacity] /\ took' \subseteq Prompt
         /\ joined' \in [Peers -> 0 .. IdleTimeout]
         /\ reason' \in [Peers -> Reasons]
<1>1. num_clients' \in Nat
  BY CloseSlotFacts DEF CloseClient, TypeOK
<1>2. fd[s] \in Peers
  BY DEF TypeOK
<1> QED BY <1>1, <1>2 DEF CloseClient, TypeOK

(* While a send is under way the loop variable stands on an open slot. *)
LEMMA SendingFacts ==
  ASSUME SocketInv, pc \in {"send", "nap"}
  PROVE  /\ slot \in Slots /\ slot < MaxClients /\ fd[slot] # NoFd
         /\ Reader \in Peers
         /\ size \in Nat /\ left \in Nat
         /\ unsent[Reader] \in 0 .. Capacity /\ Room \in 0 .. Capacity
<1>1. slot \in Slots /\ slot < MaxClients /\ fd[slot] # NoFd
  BY DEF SocketInv, TypeOK, WriterInSlot, Slots
<1>2. Reader \in Peers
  BY <1>1 DEF SocketInv, TypeOK, Reader
<1>3. size \in Nat /\ left \in Nat
  BY DEF SocketInv, TypeOK, AudSize
<1> QED BY <1>1, <1>2, <1>3 DEF SocketInv, TypeOK, Room

(* Every step keeps every variable in its type. *)
LEMMA TypeStep ==
  ASSUME SocketInv, [Next]_vars
  PROVE  TypeOK'
<1>1. ASSUME NEW p \in Peers, Connect(p) PROVE TypeOK'
  BY <1>1
  DEF SocketInv, TypeOK, Connect, table, writer, history, Links
<1>2. ASSUME NEW p \in Peers, Take(p) PROVE TypeOK'
  BY <1>2
  DEF SocketInv, TypeOK, Take, table, writer, history
<1>3. ASSUME NEW p \in Peers, Hangup(p) PROVE TypeOK'
  BY <1>3
  DEF SocketInv, TypeOK, Hangup, table, writer, history, Links
<1>4. CASE Tick
  BY <1>4, OlderFacts
  DEF SocketInv, TypeOK, Tick, Positions, Holds
<1>5. CASE FrameReady
  BY <1>5
  DEF SocketInv, TypeOK, FrameReady, table, network, history, Positions
<1>6. CASE AcceptClient
  <2>1. PICK p \in Peers : p = Head(backlog) /\ Tail(backlog) \in Seq(Peers)
    BY <1>6, QueueFacts DEF AcceptClient, SocketInv, TypeOK
  <2> QED
    <3>1. CASE Free = {}
      BY <1>6, <2>1, <3>1
      DEF SocketInv, TypeOK, AcceptClient, IsFirstFree, table, writer, Reasons
    <3>2. CASE Free # {}
      <4>1. PICK s \in Slots : /\ fd' = [fd EXCEPT ![s] = p]
                               /\ age' = [age EXCEPT ![s] = 0]
                               /\ joined' = [joined EXCEPT ![p] = 0]
                               /\ num_clients' = num_clients + 1
                               /\ need_keyframe' = TRUE /\ reason' = reason
                               /\ backlog' = Tail(backlog)
                               /\ UNCHANGED <<kind, writer, link, unsent, took,
                                              torn, sent>>
        BY <1>6, <2>1, <3>2 DEF AcceptClient
      <4> QED
        BY <2>1, <4>1 DEF SocketInv, TypeOK, writer
    <3> QED BY <3>1, <3>2
<1>7. CASE NobodyWatches
  BY <1>7
  DEF SocketInv, TypeOK, NobodyWatches, table, network, history, Positions
<1>8. CASE EncodeFails
  BY <1>8
  DEF SocketInv, TypeOK, EncodeFails, network, history, Positions
<1>9. ASSUME NEW n \in FrameSizes, OfferFrame(n) PROVE TypeOK'
  <2>1. key' \in BOOLEAN /\ need_keyframe' \in BOOLEAN
    BY <1>9 DEF OfferFrame, SocketInv, TypeOK
  <2> QED
    BY <1>9, <2>1, BeginCallbackType
    DEF SocketInv, TypeOK, OfferFrame, network, history
<1>10. CASE EndCallback
  <2>1. CASE BeginCallback(AudSize, TRUE) /\ UNCHANGED key
    BY <1>10, <2>1, BeginCallbackType
    DEF SocketInv, TypeOK, EndCallback, table, network, history
  <2>2. CASE /\ pc' = "pace" /\ slot' = 0 /\ size' = 0 /\ aud' = FALSE
             /\ key' = FALSE /\ stale' = {} /\ since' = since
             /\ left' = 0 /\ waited' = 0
    <3>1. UNCHANGED <<kind, table, network, history>>
      BY <1>10 DEF EndCallback
    <3>2. /\ pc' \in Positions /\ slot' \in 0 .. MaxClients
          /\ size' \in FrameSizes \cup {0, AudSize} /\ left' \in 0 .. size'
          /\ stale' \subseteq Slots
          /\ since' \in 0 .. IdleTimeout /\ waited' \in 0 .. WriteTimeout
      BY <2>2 DEF Positions, SocketInv, TypeOK
    <3>3. key' \in BOOLEAN /\ aud' \in BOOLEAN
      BY <2>2, Zenon
    <3> QED BY <3>1, <3>2, <3>3 DEF SocketInv, TypeOK, table, network, history
  <2> QED BY <1>10, <2>1, <2>2 DEF EndCallback
<1>11. CASE SkipFree
  BY <1>11, NextSlotType
  DEF SocketInv, TypeOK, SkipFree, Visiting, table, network, history
<1>12. CASE CloseIdle
  <2>1. slot \in Slots /\ slot < MaxClients /\ fd[slot] # NoFd
    BY <1>12 DEF CloseIdle, SocketInv, Visiting, TypeOK, Slots
  <2> QED
    BY <1>12, <2>1, NextSlotType, CloseClientType
    DEF SocketInv, TypeOK, CloseIdle, Reasons
<1>13. CASE DropFrame
  BY <1>13, NextSlotType
  DEF SocketInv, TypeOK, DropFrame, Visiting, table, network, history
<1>14. CASE BeginWrite
  <2>1. pc' \in Positions /\ left' \in 0 .. size' /\ waited' \in 0 .. WriteTimeout
    BY <1>14 DEF BeginWrite, Positions, SocketInv, TypeOK
  <2>2. UNCHANGED <<kind, table, slot, size, key, aud, stale, since, network, history>>
    BY <1>14 DEF BeginWrite
  <2> QED BY <2>1, <2>2 DEF SocketInv, TypeOK, table, network, history
<1>15. ASSUME NEW k \in 1 .. Capacity, SendSome(k) PROVE TypeOK'
  <2>1. Reader \in Peers /\ size \in Nat
    BY <1>15 DEF SendSome, SocketInv, TypeOK, WriterInSlot, Reader, Slots, AudSize
  <2>2. unsent[Reader] + k \in 0 .. Capacity /\ left - k \in 0 .. size
    BY <1>15, <2>1 DEF SendSome, SocketInv, TypeOK, Room
  <2> QED
    BY <1>15, <2>1, <2>2 DEF SocketInv, TypeOK, SendSome, table
<1>16. CASE SendLast
  <2>0. pc = "send"
    BY <1>16 DEF SendLast
  <2>1. /\ slot \in Slots /\ slot < MaxClients /\ fd[slot] # NoFd
        /\ Reader \in Peers /\ left \in Nat
        /\ unsent[Reader] \in 0 .. Capacity /\ Room \in 0 .. Capacity
    BY <2>0, SendingFacts
  <2>2. /\ torn' \subseteq Peers
        /\ age' \in [Slots -> 0 .. IdleTimeout]
        /\ kind' \in Kinds
    BY <1>16, <2>1 DEF SendLast, SocketInv, TypeOK
  <2>3. sent' \in [Peers -> Sents]
    BY <1>16, <2>1 DEF SendLast, SocketInv, TypeOK, Sents
  <2>4. NextSlot
    BY <1>16 DEF SendLast
  <2>5. CASE OneFrame /\ CloseClient(slot, "one frame sent")
    BY <2>1, <2>2, <2>3, <2>4, <2>5, NextSlotType, CloseClientType
    DEF SocketInv, TypeOK, Reasons
  <2>6. CASE ~OneFrame
    <3>1. left <= Room
      BY <1>16 DEF SendLast
    <3>2. unsent[Reader] + left \in 0 .. Capacity
      BY <2>1, <3>1 DEF Room
    <3>3. unsent' = [unsent EXCEPT ![Reader] = unsent[Reader] + left]
      BY <1>16, <2>6 DEF SendLast, OneFrame
    <3>4. unsent' \in [Peers -> 0 .. Capacity]
      <4>1. unsent \in [Peers -> 0 .. Capacity]
        BY DEF SocketInv, TypeOK
      <4> QED BY <2>1, <3>2, <3>3, <4>1
    <3> QED
      BY <1>16, <2>1, <2>2, <2>3, <2>4, <2>6, <3>4, NextSlotType
      DEF SocketInv, TypeOK, SendLast, OneFrame
  <2> QED BY <1>16, <2>5, <2>6 DEF SendLast, OneFrame
<1>17. CASE SendBlocked
  BY <1>17
  DEF SocketInv, TypeOK, SendBlocked, table, network, history, Positions
<1>18. CASE SendTimesOut
  <2>1. pc = "send"
    BY <1>18 DEF SendTimesOut
  <2> QED
    BY <1>18, <2>1, SendingFacts, NextSlotType, CloseClientType
    DEF SocketInv, TypeOK, SendTimesOut, Reasons
<1>19. CASE SendFails
  <2>1. pc = "send"
    BY <1>19 DEF SendFails
  <2> QED
    BY <1>19, <2>1, SendingFacts, NextSlotType, CloseClientType
    DEF SocketInv, TypeOK, SendFails, Reasons
<1>20. CASE UNCHANGED vars
  BY <1>20
  DEF SocketInv, TypeOK, vars, table, writer, network, history
<1> QED
  BY <1>1, <1>2, <1>3, <1>4, <1>5, <1>6, <1>7, <1>8, <1>9, <1>10, <1>11, <1>12, <1>13, <1>14, <1>15, <1>16, <1>17, <1>18, <1>19, <1>20
     DEF Next, Daemon, Accepting, Writing, Readers

(* The connection accept hands out was waiting, and nowhere else; it waits *)
(* no longer, and the others still do, once each.                          *)
LEMMA AcceptFacts ==
  ASSUME SocketInv, AcceptClient, NEW p, p = Head(backlog)
  PROVE  /\ p \in Peers /\ Queued(p) /\ ~Holds(p)
         /\ link[p] # "away" /\ reason[p] = "none"
         /\ sent[p] = "nothing" /\ p \notin torn
         /\ \A q : Queued(q)' => Queued(q) /\ q # p
         /\ \A i, j \in 1 .. Len(backlog') : backlog'[i] = backlog'[j] => i = j
<1>1. backlog \in Seq(Peers) /\ backlog # <<>> /\ backlog' = Tail(backlog)
  BY DEF AcceptClient, SocketInv, TypeOK
<1>2. p \in Peers /\ p = backlog[1] /\ 1 \in 1 .. Len(backlog)
  BY <1>1, QueueFacts
<1>3. Queued(p)
  BY <1>2 DEF Queued
<1>4. /\ ~Holds(p) /\ link[p] # "away" /\ reason[p] = "none"
      /\ sent[p] = "nothing" /\ p \notin torn
  BY <1>2, <1>3 DEF SocketInv, OnePlace
<1>5. \A i, j \in 1 .. Len(backlog) : backlog[i] = backlog[j] => i = j
  BY DEF SocketInv, OnePlace
<1>6. /\ Len(backlog) \in Nat /\ Len(backlog') = Len(backlog) - 1
      /\ \A i \in 1 .. Len(backlog') :
           i + 1 \in 1 .. Len(backlog) /\ backlog'[i] = backlog[i + 1]
  BY <1>1, QueueFacts
<1>7. ASSUME NEW q, Queued(q)' PROVE Queued(q) /\ q # p
  <2>1. PICK i \in 1 .. Len(backlog') : backlog'[i] = q
    BY <1>7 DEF Queued
  <2>2. i + 1 \in 1 .. Len(backlog) /\ backlog[i + 1] = q /\ i + 1 # 1
    BY <1>6, <2>1
  <2> QED BY <1>2, <1>5, <2>2 DEF Queued
<1>8. ASSUME NEW i \in 1 .. Len(backlog'), NEW j \in 1 .. Len(backlog'),
             backlog'[i] = backlog'[j]
      PROVE  i = j
  BY <1>5, <1>6, <1>8
<1> QED BY <1>2, <1>3, <1>4, <1>7, <1>8

(* The count and the slots change together, and only free slots are filled. *)
LEMMA TableStep ==
  ASSUME SocketInv, [Next]_vars
  PROVE  TableConsistent'
<1>1. ASSUME NEW p \in Peers, Connect(p) PROVE TableConsistent'
  BY <1>1 DEF SocketInv, TableConsistent, Open, Connect, table, writer, history
<1>2. ASSUME NEW p \in Peers, Take(p) PROVE TableConsistent'
  BY <1>2 DEF SocketInv, TableConsistent, Open, Take, table, writer, history
<1>3. ASSUME NEW p \in Peers, Hangup(p) PROVE TableConsistent'
  BY <1>3 DEF SocketInv, TableConsistent, Open, Hangup, table, writer, history
<1>4. CASE Tick
  BY <1>4 DEF SocketInv, TableConsistent, Open, Tick
<1>5. CASE FrameReady
  BY <1>5 DEF SocketInv, TableConsistent, Open, FrameReady, table, network, history
<1>6. CASE AcceptClient
  <2>1. CASE UNCHANGED <<fd, num_clients>>
    BY <2>1 DEF SocketInv, TableConsistent, Open
  <2>2. CASE ~UNCHANGED <<fd, num_clients>>
    <3>1. Head(backlog) \in Peers /\ ~Holds(Head(backlog))
      BY <1>6, AcceptFacts
    <3>2. PICK s \in Slots : /\ fd[s] = NoFd
                             /\ fd' = [fd EXCEPT ![s] = Head(backlog)]
                             /\ num_clients' = num_clients + 1
      BY <1>6, <2>2 DEF AcceptClient, IsFirstFree, Free, Open, table
    <3> QED BY <3>1, <3>2, OpenSlotFacts DEF SocketInv, TypeOK
  <2> QED BY <2>1, <2>2
<1>7. CASE NobodyWatches
  BY <1>7 DEF SocketInv, TableConsistent, Open, NobodyWatches, table, network, history
<1>8. CASE EncodeFails
  BY <1>8 DEF SocketInv, TableConsistent, Open, EncodeFails, network, history
<1>9. ASSUME NEW n \in FrameSizes, OfferFrame(n) PROVE TableConsistent'
  BY <1>9 DEF SocketInv, TableConsistent, Open, OfferFrame, BeginCallback, network, history
<1>10. CASE EndCallback
  BY <1>10 DEF SocketInv, TableConsistent, Open, EndCallback, BeginCallback, table, network, history
<1>11. CASE SkipFree
  BY <1>11 DEF SocketInv, TableConsistent, Open, SkipFree, Visiting, NextSlot, table, network, history
<1>12. CASE CloseIdle
  <2>1. slot \in Slots /\ fd[slot] # NoFd
    BY <1>12 DEF CloseIdle, Visiting, SocketInv, TypeOK, Slots
  <2>2. fd' = [fd EXCEPT ![slot] = NoFd] /\ num_clients' = num_clients - 1
    BY <1>12 DEF CloseIdle, CloseClient
  <2> QED BY <2>1, <2>2, CloseSlotFacts DEF SocketInv, TypeOK
<1>13. CASE DropFrame
  BY <1>13 DEF SocketInv, TableConsistent, Open, DropFrame, Visiting, NextSlot, table, network, history
<1>14. CASE BeginWrite
  BY <1>14 DEF SocketInv, TableConsistent, Open, BeginWrite, Visiting, table, network, history
<1>15. ASSUME NEW k \in 1 .. Capacity, SendSome(k) PROVE TableConsistent'
  BY <1>15 DEF SocketInv, TableConsistent, Open, SendSome, Room, Reader, table
<1>16. CASE SendLast
  <2>1. CASE UNCHANGED <<fd, num_clients>>
    BY <2>1 DEF SocketInv, TableConsistent, Open
  <2>2. CASE CloseClient(slot, "one frame sent")
    <3>1. slot \in Slots /\ fd[slot] # NoFd
      BY <1>16, SendingFacts DEF SendLast
    <3> QED BY <2>2, <3>1, CloseSlotFacts DEF CloseClient, SocketInv, TypeOK
  <2> QED BY <1>16, <2>1, <2>2 DEF SendLast
<1>17. CASE SendBlocked
  BY <1>17 DEF SocketInv, TableConsistent, Open, SendBlocked, table, network, history
<1>18. CASE SendTimesOut
  <2>1. slot \in Slots /\ fd[slot] # NoFd
    BY <1>18, SendingFacts DEF SendTimesOut
  <2>2. fd' = [fd EXCEPT ![slot] = NoFd] /\ num_clients' = num_clients - 1
    BY <1>18 DEF SendTimesOut, CloseClient
  <2> QED BY <2>1, <2>2, CloseSlotFacts DEF SocketInv, TypeOK
<1>19. CASE SendFails
  <2>1. slot \in Slots /\ fd[slot] # NoFd
    BY <1>19, SendingFacts DEF SendFails
  <2>2. fd' = [fd EXCEPT ![slot] = NoFd] /\ num_clients' = num_clients - 1
    BY <1>19 DEF SendFails, CloseClient
  <2> QED BY <2>1, <2>2, CloseSlotFacts DEF SocketInv, TypeOK
<1>20. CASE UNCHANGED vars
  BY <1>20 DEF SocketInv, TableConsistent, Open, vars, table, writer, network, history
<1> QED
  BY <1>1, <1>2, <1>3, <1>4, <1>5, <1>6, <1>7, <1>8, <1>9, <1>10, <1>11, <1>12, <1>13, <1>14, <1>15, <1>16, <1>17, <1>18, <1>19, <1>20
     DEF Next, Daemon, Accepting, Writing, Readers

(* A connection does not move when the queue, the slots and the reasons    *)
(* stay as they are and only a reader in a slot is sent anything.          *)
LEMMA PlacesKept ==
  ASSUME OnePlace, UNCHANGED <<fd, backlog, reason>>,
         \A p \in Peers : link'[p] = "away" => link[p] = "away",
         \A p \in Peers : ~Holds(p) => sent'[p] = sent[p] /\ (p \in torn' => p \in torn)
  PROVE  OnePlace'
<1>1. \A p : (Queued(p)' <=> Queued(p)) /\ (Holds(p)' <=> Holds(p))
  BY DEF Queued, Holds
<1>2. \A i, j \in 1 .. Len(backlog') : backlog'[i] = backlog'[j] => i = j
  BY DEF OnePlace
<1> QED BY <1>1, <1>2 DEF OnePlace

(* Closing a slot moves its reader, and nobody else. *)
LEMMA PlacesClosed ==
  ASSUME SocketInv, NEW s \in Slots, fd[s] # NoFd, NEW why \in Reasons \ {"none"},
         CloseClient(s, why),
         \A p \in Peers \ {fd[s]} : sent'[p] = sent[p] /\ (p \in torn' => p \in torn)
  PROVE  OnePlace'
<1>1. fd[s] \in Peers /\ Holds(fd[s])
  BY DEF SocketInv, TypeOK, Holds
<1>2. \A p \in Peers : Holds(p)' <=> Holds(p) /\ p # fd[s]
  BY CloseSlotFacts DEF CloseClient, SocketInv, TypeOK
<1>3. \A p : Queued(p)' <=> Queued(p)
  BY DEF CloseClient, Queued
<1>4. reason'[fd[s]] # "none" /\ \A p \in Peers \ {fd[s]} : reason'[p] = reason[p]
  BY <1>1 DEF CloseClient, SocketInv, TypeOK
<1>5. \A i, j \in 1 .. Len(backlog') : backlog'[i] = backlog'[j] => i = j
  BY DEF SocketInv, OnePlace, CloseClient
<1>6. link' = link
  BY DEF CloseClient
<1> QED BY <1>1, <1>2, <1>3, <1>4, <1>5, <1>6 DEF SocketInv, OnePlace

(* The other cases share what a send and a close have in common. *)
LEMMA CallbackCloses ==
  ASSUME SocketInv, CloseIdle \/ SendTimesOut \/ SendFails
  PROVE  \E why \in Reasons \ {"none"} : CloseClient(slot, why)
<1>1. CASE CloseIdle
  BY <1>1 DEF CloseIdle, Reasons
<1>2. CASE SendTimesOut
  BY <1>2 DEF SendTimesOut, Reasons
<1>3. CASE SendFails
  BY <1>3 DEF SendFails, Reasons
<1> QED BY <1>1, <1>2, <1>3

(* No connection is ever in two places. *)
LEMMA PlaceStep ==
  ASSUME SocketInv, [Next]_vars
  PROVE  OnePlace'
<1>1. ASSUME NEW p \in Peers, Connect(p) PROVE OnePlace'
  <2>1. ~Queued(p) /\ ~Holds(p) /\ reason[p] = "none" /\ backlog \in Seq(Peers)
    BY <1>1 DEF Connect, SocketInv, OnePlace, TypeOK
  <2>2. /\ Len(backlog') = Len(backlog) + 1 /\ Len(backlog) \in Nat
        /\ backlog'[Len(backlog) + 1] = p
        /\ \A i \in 1 .. Len(backlog) : backlog'[i] = backlog[i]
    BY <1>1, <2>1, AppendProperties DEF Connect
  <2>3. \A q : Queued(q)' <=> Queued(q) \/ q = p
    BY <2>2 DEF Queued
  <2>4. \A i, j \in 1 .. Len(backlog') : backlog'[i] = backlog'[j] => i = j
    BY <2>1, <2>2 DEF SocketInv, OnePlace, Queued
  <2>5. UNCHANGED <<fd, sent, torn, reason>> /\ \A q : Holds(q)' <=> Holds(q)
    BY <1>1 DEF Connect, table, history, Holds
  <2>6. \A q \in Peers : link'[q] = IF q = p THEN "up" ELSE link[q]
    BY <1>1 DEF Connect, SocketInv, TypeOK
  <2> QED BY <2>1, <2>3, <2>4, <2>5, <2>6 DEF SocketInv, OnePlace
<1>2. ASSUME NEW p \in Peers, Take(p) PROVE OnePlace'
  BY <1>2, PlacesKept DEF SocketInv, Take, table, writer, history
<1>3. ASSUME NEW p \in Peers, Hangup(p) PROVE OnePlace'
  <2>1. \A q \in Peers : link'[q] = "away" => link[q] = "away"
    BY <1>3 DEF Hangup, SocketInv, TypeOK
  <2> QED BY <1>3, <2>1, PlacesKept DEF Hangup, SocketInv, table, history
<1>4. CASE Tick
  BY <1>4, PlacesKept DEF SocketInv, Tick
<1>5. CASE FrameReady
  BY <1>5, PlacesKept DEF SocketInv, FrameReady, table, network, history
<1>6. CASE AcceptClient
  <2> DEFINE p == Head(backlog)
  <2>1. /\ p \in Peers /\ ~Holds(p) /\ link[p] # "away" /\ reason[p] = "none"
        /\ \A q : Queued(q)' => Queued(q) /\ q # p
        /\ \A i, j \in 1 .. Len(backlog') : backlog'[i] = backlog'[j] => i = j
    BY <1>6, AcceptFacts
  <2>2. UNCHANGED <<link, sent, torn>>
    BY <1>6 DEF AcceptClient
  <2>3. CASE reason' = [reason EXCEPT ![p] = "max reached"] /\ UNCHANGED fd
    <3>1. \A q \in Peers : reason'[q] = IF q = p THEN "max reached" ELSE reason[q]
      BY <2>3 DEF SocketInv, TypeOK
    <3>2. \A q : Holds(q)' <=> Holds(q)
      BY <2>3 DEF Holds
    <3> QED BY <2>1, <2>2, <3>1, <3>2 DEF SocketInv, OnePlace
  <2>4. ASSUME NEW s \in Slots, fd[s] = NoFd, fd' = [fd EXCEPT ![s] = p],
               UNCHANGED reason
        PROVE  OnePlace'
    <3>1. \A q \in Peers : Holds(q)' <=> Holds(q) \/ q = p
      BY <2>1, <2>4 DEF SocketInv, TypeOK, Holds
    <3> QED BY <2>1, <2>2, <2>4, <3>1 DEF SocketInv, OnePlace
  <2> QED
    BY <1>6, <2>3, <2>4 DEF AcceptClient, IsFirstFree, Free, Open, table
<1>7. CASE NobodyWatches
  BY <1>7, PlacesKept DEF SocketInv, NobodyWatches, table, network, history
<1>8. CASE EncodeFails
  BY <1>8, PlacesKept DEF SocketInv, EncodeFails, network, history
<1>9. ASSUME NEW n \in FrameSizes, OfferFrame(n) PROVE OnePlace'
  BY <1>9, PlacesKept DEF SocketInv, OfferFrame, BeginCallback, network, history
<1>10. CASE EndCallback
  BY <1>10, PlacesKept DEF SocketInv, EndCallback, BeginCallback, table, network, history
<1>11. CASE SkipFree
  BY <1>11, PlacesKept DEF SocketInv, SkipFree, Visiting, NextSlot, table, network, history
<1>12. CASE CloseIdle
  <2>1. slot \in Slots /\ fd[slot] # NoFd
    BY <1>12 DEF CloseIdle, Visiting, SocketInv, TypeOK, Slots
  <2>2. PICK why \in Reasons \ {"none"} : CloseClient(slot, why)
    BY <1>12, CallbackCloses
  <2>3. UNCHANGED <<sent, torn>>
    BY <1>12 DEF CloseIdle
  <2> QED BY <2>1, <2>2, <2>3, PlacesClosed
<1>13. CASE DropFrame
  BY <1>13, PlacesKept DEF SocketInv, DropFrame, Visiting, NextSlot, table, network, history
<1>14. CASE BeginWrite
  BY <1>14, PlacesKept DEF SocketInv, BeginWrite, Visiting, table, network, history
<1>15. ASSUME NEW k \in 1 .. Capacity, SendSome(k) PROVE OnePlace'
  <2>1. Reader \in Peers /\ Holds(Reader)
    BY <1>15, SendingFacts DEF SendSome, Holds, Reader
  <2> QED BY <1>15, <2>1, PlacesKept DEF SocketInv, SendSome, table
<1>16. CASE SendLast
  <2>1. slot \in Slots /\ fd[slot] # NoFd /\ Reader \in Peers /\ Holds(Reader)
    BY <1>16, SendingFacts DEF SendLast, Holds, Reader
  <2>2. \A p \in Peers \ {Reader} : sent'[p] = sent[p] /\ (p \in torn' => p \in torn)
    BY <1>16 DEF SendLast, SocketInv, TypeOK
  <2>3. CASE UNCHANGED <<fd, backlog, link, reason>>
    BY <2>1, <2>2, <2>3, PlacesKept DEF SocketInv
  <2>4. CASE CloseClient(slot, "one frame sent")
    BY <2>1, <2>2, <2>4, PlacesClosed DEF Reasons, Reader
  <2> QED BY <1>16, <2>3, <2>4 DEF SendLast
<1>17. CASE SendBlocked
  BY <1>17, PlacesKept DEF SocketInv, SendBlocked, table, network, history
<1>18. CASE SendTimesOut
  <2>1. slot \in Slots /\ fd[slot] # NoFd
    BY <1>18, SendingFacts DEF SendTimesOut
  <2>2. PICK why \in Reasons \ {"none"} : CloseClient(slot, why)
    BY <1>18, CallbackCloses
  <2>3. UNCHANGED <<sent, torn>>
    BY <1>18 DEF SendTimesOut
  <2> QED BY <2>1, <2>2, <2>3, PlacesClosed
<1>19. CASE SendFails
  <2>1. slot \in Slots /\ fd[slot] # NoFd
    BY <1>19, SendingFacts DEF SendFails
  <2>2. PICK why \in Reasons \ {"none"} : CloseClient(slot, why)
    BY <1>19, CallbackCloses
  <2>3. UNCHANGED <<sent, torn>>
    BY <1>19 DEF SendFails
  <2> QED BY <2>1, <2>2, <2>3, PlacesClosed
<1>20. CASE UNCHANGED vars
  BY <1>20, PlacesKept DEF SocketInv, vars, table, writer, network, history
<1> QED
  BY <1>1, <1>2, <1>3, <1>4, <1>5, <1>6, <1>7, <1>8, <1>9, <1>10, <1>11, <1>12, <1>13, <1>14, <1>15, <1>16, <1>17, <1>18, <1>19, <1>20
     DEF Next, Daemon, Accepting, Writing, Readers

(* Closing the slot the loop stands on, and moving to the next. *)
LEMMA CloseAndMoveOn ==
  ASSUME SocketInv, NEW why \in Reasons \ {"none"},
         slot \in Slots, fd[slot] # NoFd, CloseClient(slot, why), NextSlot
  PROVE  /\ \A s \in Slots : fd'[s] = IF s = slot THEN NoFd ELSE fd[s]
         /\ Open' = Open \ {slot}
         /\ pc' = "visit" /\ slot' = slot + 1 /\ slot \in 0 .. MaxClients - 1
         /\ stale' = stale /\ since' = since
<1>1. \A s \in Slots : fd'[s] = IF s = slot THEN NoFd ELSE fd[s]
  BY DEF CloseClient, SocketInv, TypeOK
<1>2. Open' = Open \ {slot}
  BY CloseSlotFacts DEF CloseClient, SocketInv, TypeOK
<1> QED BY <1>1, <1>2 DEF NextSlot, Slots

LEMMA CallbackClosesSlot ==
  ASSUME SocketInv, CloseIdle \/ SendTimesOut \/ SendFails
  PROVE  /\ slot \in Slots /\ fd[slot] # NoFd /\ NextSlot
         /\ UNCHANGED <<kind, age, torn, sent>>
         /\ \E why \in Reasons \ {"none"} : CloseClient(slot, why)
<1>1. CASE CloseIdle
  BY <1>1, CallbackCloses DEF CloseIdle, Visiting, SocketInv, TypeOK, Slots
<1>2. CASE SendTimesOut
  BY <1>2, CallbackCloses, SendingFacts DEF SendTimesOut
<1>3. CASE SendFails
  BY <1>3, CallbackCloses, SendingFacts DEF SendFails
<1> QED BY <1>1, <1>2, <1>3

(* A send is only ever under way on an open slot. *)
LEMMA WriterStep ==
  ASSUME SocketInv, [Next]_vars
  PROVE  WriterInSlot'
<1>1. ASSUME NEW p \in Peers, Connect(p) PROVE WriterInSlot'
  BY <1>1 DEF SocketInv, WriterInSlot, Connect, table, writer, history
<1>2. ASSUME NEW p \in Peers, Take(p) PROVE WriterInSlot'
  BY <1>2 DEF SocketInv, WriterInSlot, Take, table, writer, history
<1>3. ASSUME NEW p \in Peers, Hangup(p) PROVE WriterInSlot'
  BY <1>3 DEF SocketInv, WriterInSlot, Hangup, table, writer, history
<1>4. CASE Tick
  BY <1>4 DEF SocketInv, WriterInSlot, Tick
<1>5. CASE FrameReady
  BY <1>5 DEF SocketInv, WriterInSlot, FrameReady, table, network, history
<1>6. CASE AcceptClient
  BY <1>6 DEF SocketInv, WriterInSlot, AcceptClient, writer, table
<1>7. CASE NobodyWatches
  BY <1>7 DEF SocketInv, WriterInSlot, NobodyWatches, table, network, history
<1>8. CASE EncodeFails
  BY <1>8 DEF SocketInv, WriterInSlot, EncodeFails, network, history
<1>9. ASSUME NEW n \in FrameSizes, OfferFrame(n) PROVE WriterInSlot'
  BY <1>9 DEF SocketInv, WriterInSlot, OfferFrame, BeginCallback, network, history
<1>10. CASE EndCallback
  BY <1>10 DEF SocketInv, WriterInSlot, EndCallback, BeginCallback, table, network, history
<1>11. CASE SkipFree
  BY <1>11 DEF SocketInv, WriterInSlot, SkipFree, Visiting, NextSlot, table, network, history
<1>12. CASE CloseIdle
  BY <1>12 DEF SocketInv, WriterInSlot, CloseIdle, Visiting, NextSlot, CloseClient
<1>13. CASE DropFrame
  BY <1>13 DEF SocketInv, WriterInSlot, DropFrame, Visiting, NextSlot, table, network, history
<1>14. CASE BeginWrite
  BY <1>14 DEF SocketInv, WriterInSlot, BeginWrite, Visiting, table, network, history
<1>15. ASSUME NEW k \in 1 .. Capacity, SendSome(k) PROVE WriterInSlot'
  BY <1>15 DEF SocketInv, WriterInSlot, SendSome, table
<1>16. CASE SendLast
  BY <1>16 DEF SocketInv, WriterInSlot, SendLast, NextSlot, CloseClient
<1>17. CASE SendBlocked
  BY <1>17 DEF SocketInv, WriterInSlot, SendBlocked, table, network, history
<1>18. CASE SendTimesOut
  BY <1>18 DEF SocketInv, WriterInSlot, SendTimesOut, NextSlot, CloseClient
<1>19. CASE SendFails
  BY <1>19 DEF SocketInv, WriterInSlot, SendFails, NextSlot, CloseClient
<1>20. CASE UNCHANGED vars
  BY <1>20 DEF SocketInv, WriterInSlot, vars, table, writer, network, history
<1> QED
  BY <1>1, <1>2, <1>3, <1>4, <1>5, <1>6, <1>7, <1>8, <1>9, <1>10, <1>11, <1>12, <1>13, <1>14, <1>15, <1>16, <1>17, <1>18, <1>19, <1>20
     DEF Next, Daemon, Accepting, Writing, Readers

(* Nobody but the reader being sent to is ever left with part of a frame. *)
LEMMA WholeStep ==
  ASSUME SocketInv, [Next]_vars
  PROVE  OnlyWholeFrames'
<1>1. ASSUME NEW p \in Peers, Connect(p) PROVE OnlyWholeFrames'
  BY <1>1 DEF SocketInv, OnlyWholeFrames, Open, Connect, table, writer, history
<1>2. ASSUME NEW p \in Peers, Take(p) PROVE OnlyWholeFrames'
  BY <1>2 DEF SocketInv, OnlyWholeFrames, Open, Take, table, writer, history
<1>3. ASSUME NEW p \in Peers, Hangup(p) PROVE OnlyWholeFrames'
  BY <1>3 DEF SocketInv, OnlyWholeFrames, Open, Hangup, table, writer, history
<1>4. CASE Tick
  BY <1>4 DEF SocketInv, OnlyWholeFrames, Open, Tick
<1>5. CASE FrameReady
  BY <1>5 DEF SocketInv, OnlyWholeFrames, Open, FrameReady, table, network, history
<1>6. CASE AcceptClient
  <2> DEFINE p == Head(backlog)
  <2>1. p \notin torn /\ torn' = torn
    BY <1>6, AcceptFacts DEF AcceptClient
  <2>2. \A s \in Open : fd[s] \notin torn
    BY <1>6 DEF AcceptClient, SocketInv, OnlyWholeFrames
  <2>3. \A s \in Slots : fd'[s] \in {p, fd[s]}
    BY <1>6 DEF AcceptClient, SocketInv, TypeOK, table
  <2> QED BY <2>1, <2>2, <2>3 DEF OnlyWholeFrames, Open
<1>7. CASE NobodyWatches
  BY <1>7 DEF SocketInv, OnlyWholeFrames, Open, NobodyWatches, table, network, history
<1>8. CASE EncodeFails
  BY <1>8 DEF SocketInv, OnlyWholeFrames, Open, EncodeFails, network, history
<1>9. ASSUME NEW n \in FrameSizes, OfferFrame(n) PROVE OnlyWholeFrames'
  BY <1>9 DEF SocketInv, OnlyWholeFrames, Open, OfferFrame, BeginCallback, network, history
<1>10. CASE EndCallback
  BY <1>10 DEF SocketInv, OnlyWholeFrames, Open, EndCallback, BeginCallback, table, network, history
<1>11. CASE SkipFree
  BY <1>11 DEF SocketInv, OnlyWholeFrames, Open, SkipFree, Visiting, NextSlot, table, network, history
<1>12. CASE CloseIdle
  <2>1. PICK why \in Reasons \ {"none"} : CloseClient(slot, why)
    BY <1>12, CallbackClosesSlot
  <2>2. /\ Open' = Open \ {slot} /\ torn' = torn
        /\ \A s \in Slots : s # slot => fd'[s] = fd[s]
    BY <1>12, <2>1, CallbackClosesSlot, CloseAndMoveOn
  <2> QED BY <2>2 DEF SocketInv, OnlyWholeFrames, Open
<1>13. CASE DropFrame
  BY <1>13 DEF SocketInv, OnlyWholeFrames, Open, DropFrame, Visiting, NextSlot, table, network, history
<1>14. CASE BeginWrite
  BY <1>14 DEF SocketInv, OnlyWholeFrames, Open, BeginWrite, Visiting, table, network, history
<1>15. ASSUME NEW k \in 1 .. Capacity, SendSome(k) PROVE OnlyWholeFrames'
  <2>1. slot \in Slots /\ fd[slot] # NoFd
    BY <1>15, SendingFacts DEF SendSome
  <2> QED
    BY <1>15, <2>1
    DEF SendSome, SocketInv, OnlyWholeFrames, Open, Reader, TableConsistent, table
<1>16. CASE SendLast
  <2>1. slot \in Slots /\ fd[slot] # NoFd
    BY <1>16, SendingFacts DEF SendLast
  <2>2. \A s \in Open : fd[s] \notin torn'
    BY <1>16, <2>1 DEF SendLast, SocketInv, OnlyWholeFrames, Reader
  <2>3. CASE UNCHANGED fd
    BY <2>2, <2>3 DEF OnlyWholeFrames, Open
  <2>4. CASE CloseClient(slot, "one frame sent")
    <3>1. NextSlot
      BY <1>16 DEF SendLast
    <3>2. /\ Open' = Open \ {slot}
          /\ \A s \in Slots : s # slot => fd'[s] = fd[s]
      BY <2>1, <2>4, <3>1, CloseAndMoveOn DEF Reasons
    <3> QED BY <2>2, <3>2 DEF OnlyWholeFrames, Open
  <2> QED BY <1>16, <2>3, <2>4 DEF SendLast
<1>17. CASE SendBlocked
  BY <1>17 DEF SocketInv, OnlyWholeFrames, Open, SendBlocked, table, network, history
<1>18. CASE SendTimesOut
  <2>1. PICK why \in Reasons \ {"none"} : CloseClient(slot, why)
    BY <1>18, CallbackClosesSlot
  <2>2. /\ Open' = Open \ {slot} /\ torn' = torn
        /\ \A s \in Slots : s # slot => fd'[s] = fd[s]
    BY <1>18, <2>1, CallbackClosesSlot, CloseAndMoveOn
  <2> QED BY <2>2 DEF SocketInv, OnlyWholeFrames, Open
<1>19. CASE SendFails
  <2>1. PICK why \in Reasons \ {"none"} : CloseClient(slot, why)
    BY <1>19, CallbackClosesSlot
  <2>2. /\ Open' = Open \ {slot} /\ torn' = torn
        /\ \A s \in Slots : s # slot => fd'[s] = fd[s]
    BY <1>19, <2>1, CallbackClosesSlot, CloseAndMoveOn
  <2> QED BY <2>2 DEF SocketInv, OnlyWholeFrames, Open
<1>20. CASE UNCHANGED vars
  BY <1>20 DEF SocketInv, OnlyWholeFrames, Open, vars, table, writer, network, history
<1> QED
  BY <1>1, <1>2, <1>3, <1>4, <1>5, <1>6, <1>7, <1>8, <1>9, <1>10, <1>11, <1>12, <1>13, <1>14, <1>15, <1>16, <1>17, <1>18, <1>19, <1>20
     DEF Next, Daemon, Accepting, Writing, Readers

(* A callback that begins takes its own clock and a fresh list of idle slots. *)
LEMMA AgesAtCallback ==
  ASSUME SocketInv, NEW n, NEW b, BeginCallback(n, b), UNCHANGED <<fd, age, joined>>
  PROVE  AgesHonest'
<1>1. \A s \in Open : joined[fd[s]] \in Nat /\ age[s] \in 0 .. IdleTimeout
  BY DEF SocketInv, TypeOK, Open
<1> QED BY <1>1 DEF SocketInv, AgesHonest, BeginCallback, InCallback, Open

(* No age the idle test rests on ever exceeds the time in the slot. *)
LEMMA AgesStep ==
  ASSUME SocketInv, [Next]_vars
  PROVE  AgesHonest'
<1>1. ASSUME NEW p \in Peers, Connect(p) PROVE AgesHonest'
  <2>1. slot \in Int /\ slot' \in Int
    BY <1>1, TypeStep DEF SocketInv, TypeOK
  <2>2. UNCHANGED <<fd, age, joined>>
    BY <1>1 DEF Connect, table, writer, history
  <2>3. InCallback' => InCallback /\ slot <= slot' /\ UNCHANGED <<since, stale>>
    BY <1>1, <2>1 DEF InCallback, Connect, table, writer, history
  <2> QED BY <2>1, <2>2, <2>3 DEF SocketInv, AgesHonest, InCallback, Open, TypeOK, Slots
<1>2. ASSUME NEW p \in Peers, Take(p) PROVE AgesHonest'
  <2>1. slot \in Int /\ slot' \in Int
    BY <1>2, TypeStep DEF SocketInv, TypeOK
  <2>2. UNCHANGED <<fd, age, joined>>
    BY <1>2 DEF Take, table, writer, history
  <2>3. InCallback' => InCallback /\ slot <= slot' /\ UNCHANGED <<since, stale>>
    BY <1>2, <2>1 DEF InCallback, Take, table, writer, history
  <2> QED BY <2>1, <2>2, <2>3 DEF SocketInv, AgesHonest, InCallback, Open, TypeOK, Slots
<1>3. ASSUME NEW p \in Peers, Hangup(p) PROVE AgesHonest'
  <2>1. slot \in Int /\ slot' \in Int
    BY <1>3, TypeStep DEF SocketInv, TypeOK
  <2>2. UNCHANGED <<fd, age, joined>>
    BY <1>3 DEF Hangup, table, writer, history
  <2>3. InCallback' => InCallback /\ slot <= slot' /\ UNCHANGED <<since, stale>>
    BY <1>3, <2>1 DEF InCallback, Hangup, table, writer, history
  <2> QED BY <2>1, <2>2, <2>3 DEF SocketInv, AgesHonest, InCallback, Open, TypeOK, Slots
<1>4. CASE Tick
  <2>1. Open' = Open /\ fd' = fd /\ (InCallback' => InCallback)
    BY <1>4 DEF Tick, Open, InCallback
  <2>2. ASSUME NEW s \in Open
        PROVE  /\ s \in Slots /\ fd[s] \in Peers /\ Holds(fd[s])
               /\ age[s] \in 0 .. IdleTimeout /\ joined[fd[s]] \in 0 .. IdleTimeout
               /\ since \in 0 .. IdleTimeout
    BY <2>2 DEF SocketInv, TypeOK, Open, Holds
  <2>3. ASSUME NEW s \in Open
        PROVE  /\ age'[s] = Older(age[s], IdleTimeout)
               /\ joined'[fd[s]] = Older(joined[fd[s]], IdleTimeout)
               /\ since' = Older(since, IdleTimeout)
    BY <1>4, <2>2 DEF Tick
  <2>4. stale' = stale /\ slot' = slot /\ IdleTimeout \in Nat
    BY <1>4 DEF Tick
  <2>5. ASSUME NEW s \in Open
        PROVE  /\ age'[s] <= joined'[fd[s]]
               /\ InCallback => since' <= joined'[fd[s]]
               /\ age[s] = IdleTimeout => age'[s] = IdleTimeout
    BY <2>2, <2>3, <2>4, OlderFacts DEF SocketInv, AgesHonest
  <2> QED BY <2>1, <2>4, <2>5 DEF SocketInv, AgesHonest
<1>5. CASE FrameReady
  <2>1. slot \in Int /\ slot' \in Int
    BY <1>5, TypeStep DEF SocketInv, TypeOK
  <2>2. UNCHANGED <<fd, age, joined>>
    BY <1>5 DEF FrameReady, table, network, history
  <2>3. InCallback' => InCallback /\ slot <= slot' /\ UNCHANGED <<since, stale>>
    BY <1>5, <2>1 DEF InCallback, FrameReady, table, network, history
  <2> QED BY <2>1, <2>2, <2>3 DEF SocketInv, AgesHonest, InCallback, Open, TypeOK, Slots
<1>6. CASE AcceptClient
  <2> DEFINE p == Head(backlog)
  <2>1. p \in Peers /\ ~Holds(p) /\ pc' = "accept"
    BY <1>6, AcceptFacts DEF AcceptClient, writer
  <2>2. CASE UNCHANGED <<fd, age, joined>>
    BY <2>1, <2>2 DEF SocketInv, AgesHonest, InCallback, Open
  <2>3. ASSUME NEW t \in Slots, fd[t] = NoFd, fd' = [fd EXCEPT ![t] = p],
               age' = [age EXCEPT ![t] = 0], joined' = [joined EXCEPT ![p] = 0]
        PROVE  AgesHonest'
    <3>1. ASSUME NEW s \in Open' PROVE age'[s] <= joined'[fd'[s]]
      <4>1. CASE s = t
        BY <2>1, <2>3, <4>1 DEF SocketInv, TypeOK
      <4>2. CASE s # t
        BY <2>1, <2>3, <3>1, <4>2 DEF SocketInv, TypeOK, AgesHonest, Open, Holds
      <4> QED BY <4>1, <4>2
    <3> QED BY <2>1, <3>1 DEF AgesHonest, InCallback
  <2> QED BY <1>6, <2>2, <2>3 DEF AcceptClient, IsFirstFree, Free, Open, table
<1>7. CASE NobodyWatches
  <2>1. slot \in Int /\ slot' \in Int
    BY <1>7, TypeStep DEF SocketInv, TypeOK
  <2>2. UNCHANGED <<fd, age, joined>>
    BY <1>7 DEF NobodyWatches, table, network, history
  <2>3. InCallback' => InCallback /\ slot <= slot' /\ UNCHANGED <<since, stale>>
    BY <1>7, <2>1 DEF InCallback, NobodyWatches, table, network, history
  <2> QED BY <2>1, <2>2, <2>3 DEF SocketInv, AgesHonest, InCallback, Open, TypeOK, Slots
<1>8. CASE EncodeFails
  <2>1. slot \in Int /\ slot' \in Int
    BY <1>8, TypeStep DEF SocketInv, TypeOK
  <2>2. UNCHANGED <<fd, age, joined>>
    BY <1>8 DEF EncodeFails, network, history
  <2>3. InCallback' => InCallback /\ slot <= slot' /\ UNCHANGED <<since, stale>>
    BY <1>8, <2>1 DEF InCallback, EncodeFails, network, history
  <2> QED BY <2>1, <2>2, <2>3 DEF SocketInv, AgesHonest, InCallback, Open, TypeOK, Slots
<1>9. ASSUME NEW n \in FrameSizes, OfferFrame(n) PROVE AgesHonest'
  <2>1. BeginCallback(n, FALSE) /\ UNCHANGED <<fd, age, joined>>
    BY <1>9 DEF OfferFrame, history
  <2> QED BY <2>1, AgesAtCallback
<1>10. CASE EndCallback
  <2>1. UNCHANGED <<fd, age, joined>>
    BY <1>10 DEF EndCallback, table, history
  <2>2. CASE BeginCallback(AudSize, TRUE)
    BY <2>1, <2>2, AgesAtCallback
  <2>3. CASE pc' = "pace"
    BY <2>1, <2>3 DEF SocketInv, AgesHonest, InCallback, Open
  <2> QED BY <1>10, <2>2, <2>3 DEF EndCallback
<1>11. CASE SkipFree
  <2>1. slot \in Int /\ slot' \in Int
    BY <1>11, TypeStep DEF SocketInv, TypeOK
  <2>2. UNCHANGED <<fd, age, joined>>
    BY <1>11 DEF SkipFree, Visiting, NextSlot, table, network, history
  <2>3. InCallback' => InCallback /\ slot <= slot' /\ UNCHANGED <<since, stale>>
    BY <1>11, <2>1 DEF InCallback, SkipFree, Visiting, NextSlot, table, network, history
  <2> QED BY <2>1, <2>2, <2>3 DEF SocketInv, AgesHonest, InCallback, Open, TypeOK, Slots
<1>12. CASE CloseIdle
  <2>0. slot \in Slots /\ fd[slot] # NoFd /\ NextSlot /\ age' = age
    BY <1>12, CallbackClosesSlot
  <2>1. PICK why \in Reasons \ {"none"} : CloseClient(slot, why)
    BY <1>12, CallbackClosesSlot
  <2>2. /\ Open' = Open \ {slot} /\ pc' = "visit" /\ slot' = slot + 1
        /\ stale' = stale /\ since' = since /\ slot \in Slots
        /\ \A s \in Slots : fd'[s] = IF s = slot THEN NoFd ELSE fd[s]
    BY <2>0, <2>1, CloseAndMoveOn
  <2>3. ASSUME NEW s \in Open' PROVE s \in Slots
    BY <2>3 DEF Open
  <2>4. InCallback
    BY <1>12 DEF CloseIdle, Visiting, InCallback
  <2>5. ASSUME NEW s \in Open'
        PROVE  /\ age'[s] <= joined'[fd'[s]] /\ since' <= joined'[fd'[s]]
               /\ s \in stale' /\ slot' <= s => age'[s] = IdleTimeout
    <3>1. fd'[s] = fd[s] /\ s \in Open /\ s # slot /\ s \in Int /\ slot \in Int
      BY <2>2, <2>3 DEF Open, Slots
    <3>2. fd[s] # fd[slot]
      BY <2>0, <3>1 DEF SocketInv, TableConsistent, Open
    <3>3. joined'[fd[s]] = joined[fd[s]]
      BY <2>1, <3>2 DEF CloseClient, SocketInv, TypeOK, Open
    <3> QED BY <2>0, <2>2, <2>4, <3>1, <3>3 DEF SocketInv, AgesHonest
  <2> QED BY <2>5 DEF AgesHonest
<1>13. CASE DropFrame
  <2>1. slot \in Int /\ slot' \in Int
    BY <1>13, TypeStep DEF SocketInv, TypeOK
  <2>2. UNCHANGED <<fd, age, joined>>
    BY <1>13 DEF DropFrame, Visiting, NextSlot, table, network, history
  <2>3. InCallback' => InCallback /\ slot <= slot' /\ UNCHANGED <<since, stale>>
    BY <1>13, <2>1 DEF InCallback, DropFrame, Visiting, NextSlot, table, network, history
  <2> QED BY <2>1, <2>2, <2>3 DEF SocketInv, AgesHonest, InCallback, Open, TypeOK, Slots
<1>14. CASE BeginWrite
  <2>1. slot \in Int /\ slot' \in Int
    BY <1>14, TypeStep DEF SocketInv, TypeOK
  <2>2. UNCHANGED <<fd, age, joined>>
    BY <1>14 DEF BeginWrite, Visiting, table, network, history
  <2>3. InCallback' => InCallback /\ slot <= slot' /\ UNCHANGED <<since, stale>>
    BY <1>14, <2>1 DEF InCallback, BeginWrite, Visiting, table, network, history
  <2> QED BY <2>1, <2>2, <2>3 DEF SocketInv, AgesHonest, InCallback, Open, TypeOK, Slots
<1>15. ASSUME NEW k \in 1 .. Capacity, SendSome(k) PROVE AgesHonest'
  <2>1. slot \in Int /\ slot' \in Int
    BY <1>15, TypeStep DEF SocketInv, TypeOK
  <2>2. UNCHANGED <<fd, age, joined>>
    BY <1>15 DEF SendSome, table
  <2>3. InCallback' => InCallback /\ slot <= slot' /\ UNCHANGED <<since, stale>>
    BY <1>15, <2>1 DEF InCallback, SendSome, table
  <2> QED BY <2>1, <2>2, <2>3 DEF SocketInv, AgesHonest, InCallback, Open, TypeOK, Slots
<1>16. CASE SendLast
  <2>0. slot \in Slots /\ fd[slot] # NoFd /\ NextSlot /\ InCallback
    BY <1>16, SendingFacts DEF SendLast, InCallback
  <2>1. age' = [age EXCEPT ![slot] = since] /\ age \in [Slots -> 0 .. IdleTimeout]
    BY <1>16 DEF SendLast, SocketInv, TypeOK
  <2>2. pc' = "visit" /\ slot' = slot + 1 /\ UNCHANGED <<stale, since>>
    BY <2>0 DEF NextSlot
  <2>3. /\ \A s \in Open' : s \in Open /\ fd'[s] = fd[s]
        /\ \A s \in Open' : joined'[fd[s]] = joined[fd[s]]
    <3>1. CASE CloseClient(slot, "one frame sent")
      <4>1. /\ Open' = Open \ {slot}
            /\ \A s \in Slots : fd'[s] = IF s = slot THEN NoFd ELSE fd[s]
        BY <2>0, <3>1, CloseAndMoveOn DEF Reasons
      <4>2. \A s \in Open \ {slot} : fd[s] # fd[slot]
        BY <2>0 DEF SocketInv, TableConsistent, Open
      <4>3. joined' = [joined EXCEPT ![fd[slot]] = 0] /\ joined \in [Peers -> 0 .. IdleTimeout]
        BY <3>1 DEF CloseClient, SocketInv, TypeOK
      <4>4. \A s \in Open' : s \in Slots /\ s # slot /\ s \in Open /\ fd'[s] = fd[s]
        BY <4>1 DEF Open
      <4>5. \A s \in Open' : fd[s] \in Peers /\ fd[s] # fd[slot]
        BY <4>2, <4>4 DEF SocketInv, TypeOK, Open
      <4> QED BY <4>3, <4>4, <4>5
    <3>2. CASE UNCHANGED <<fd, joined>>
      BY <3>2 DEF Open
    <3> QED BY <1>16, <3>1, <3>2 DEF SendLast
  <2>4. ASSUME NEW s \in Open'
        PROVE  /\ age'[s] <= joined'[fd'[s]] /\ since' <= joined'[fd'[s]]
               /\ s \in stale' /\ slot' <= s => age'[s] = IdleTimeout
    <3>1. /\ s \in Open /\ s \in Slots /\ s \in Int /\ slot \in Int
          /\ fd'[s] = fd[s] /\ joined'[fd[s]] = joined[fd[s]]
      BY <2>0, <2>3 DEF Open, Slots
    <3>2. age'[s] = IF s = slot THEN since ELSE age[s]
      BY <2>1, <3>1
    <3> QED BY <2>0, <2>2, <3>1, <3>2 DEF SocketInv, AgesHonest
  <2> QED BY <2>4 DEF AgesHonest
<1>17. CASE SendBlocked
  <2>1. slot \in Int /\ slot' \in Int
    BY <1>17, TypeStep DEF SocketInv, TypeOK
  <2>2. UNCHANGED <<fd, age, joined>>
    BY <1>17 DEF SendBlocked, table, network, history
  <2>3. InCallback' => InCallback /\ slot <= slot' /\ UNCHANGED <<since, stale>>
    BY <1>17, <2>1 DEF InCallback, SendBlocked, table, network, history
  <2> QED BY <2>1, <2>2, <2>3 DEF SocketInv, AgesHonest, InCallback, Open, TypeOK, Slots
<1>18. CASE SendTimesOut
  <2>0. slot \in Slots /\ fd[slot] # NoFd /\ NextSlot /\ age' = age
    BY <1>18, CallbackClosesSlot
  <2>1. PICK why \in Reasons \ {"none"} : CloseClient(slot, why)
    BY <1>18, CallbackClosesSlot
  <2>2. /\ Open' = Open \ {slot} /\ pc' = "visit" /\ slot' = slot + 1
        /\ stale' = stale /\ since' = since /\ slot \in Slots
        /\ \A s \in Slots : fd'[s] = IF s = slot THEN NoFd ELSE fd[s]
    BY <2>0, <2>1, CloseAndMoveOn
  <2>3. ASSUME NEW s \in Open' PROVE s \in Slots
    BY <2>3 DEF Open
  <2>4. InCallback
    BY <1>18 DEF SendTimesOut, Visiting, InCallback
  <2>5. ASSUME NEW s \in Open'
        PROVE  /\ age'[s] <= joined'[fd'[s]] /\ since' <= joined'[fd'[s]]
               /\ s \in stale' /\ slot' <= s => age'[s] = IdleTimeout
    <3>1. fd'[s] = fd[s] /\ s \in Open /\ s # slot /\ s \in Int /\ slot \in Int
      BY <2>2, <2>3 DEF Open, Slots
    <3>2. fd[s] # fd[slot]
      BY <2>0, <3>1 DEF SocketInv, TableConsistent, Open
    <3>3. joined'[fd[s]] = joined[fd[s]]
      BY <2>1, <3>2 DEF CloseClient, SocketInv, TypeOK, Open
    <3> QED BY <2>0, <2>2, <2>4, <3>1, <3>3 DEF SocketInv, AgesHonest
  <2> QED BY <2>5 DEF AgesHonest
<1>19. CASE SendFails
  <2>0. slot \in Slots /\ fd[slot] # NoFd /\ NextSlot /\ age' = age
    BY <1>19, CallbackClosesSlot
  <2>1. PICK why \in Reasons \ {"none"} : CloseClient(slot, why)
    BY <1>19, CallbackClosesSlot
  <2>2. /\ Open' = Open \ {slot} /\ pc' = "visit" /\ slot' = slot + 1
        /\ stale' = stale /\ since' = since /\ slot \in Slots
        /\ \A s \in Slots : fd'[s] = IF s = slot THEN NoFd ELSE fd[s]
    BY <2>0, <2>1, CloseAndMoveOn
  <2>3. ASSUME NEW s \in Open' PROVE s \in Slots
    BY <2>3 DEF Open
  <2>4. InCallback
    BY <1>19 DEF SendFails, Visiting, InCallback
  <2>5. ASSUME NEW s \in Open'
        PROVE  /\ age'[s] <= joined'[fd'[s]] /\ since' <= joined'[fd'[s]]
               /\ s \in stale' /\ slot' <= s => age'[s] = IdleTimeout
    <3>1. fd'[s] = fd[s] /\ s \in Open /\ s # slot /\ s \in Int /\ slot \in Int
      BY <2>2, <2>3 DEF Open, Slots
    <3>2. fd[s] # fd[slot]
      BY <2>0, <3>1 DEF SocketInv, TableConsistent, Open
    <3>3. joined'[fd[s]] = joined[fd[s]]
      BY <2>1, <3>2 DEF CloseClient, SocketInv, TypeOK, Open
    <3> QED BY <2>0, <2>2, <2>4, <3>1, <3>3 DEF SocketInv, AgesHonest
  <2> QED BY <2>5 DEF AgesHonest
<1>20. CASE UNCHANGED vars
  <2>1. slot \in Int /\ slot' \in Int
    BY <1>20, TypeStep DEF SocketInv, TypeOK
  <2>2. UNCHANGED <<fd, age, joined>>
    BY <1>20 DEF vars, table, writer, network, history
  <2>3. InCallback' => InCallback /\ slot <= slot' /\ UNCHANGED <<since, stale>>
    BY <1>20, <2>1 DEF InCallback, vars, table, writer, network, history
  <2> QED BY <2>1, <2>2, <2>3 DEF SocketInv, AgesHonest, InCallback, Open, TypeOK, Slots
<1> QED
  BY <1>1, <1>2, <1>3, <1>4, <1>5, <1>6, <1>7, <1>8, <1>9, <1>10, <1>11, <1>12, <1>13, <1>14, <1>15, <1>16, <1>17, <1>18, <1>19, <1>20
     DEF Next, Daemon, Accepting, Writing, Readers

(* A one-frame socket lets a reader go with its first frame. *)
LEMMA OneFrameStep ==
  ASSUME SocketInv, [Next]_vars
  PROVE  OneFrameEach'
<1>1. ASSUME NEW p \in Peers, Connect(p) PROVE OneFrameEach'
  BY <1>1 DEF SocketInv, OneFrameEach, OneFrame, Holds, Connect, table, writer, history
<1>2. ASSUME NEW p \in Peers, Take(p) PROVE OneFrameEach'
  BY <1>2 DEF SocketInv, OneFrameEach, OneFrame, Holds, Take, table, writer, history
<1>3. ASSUME NEW p \in Peers, Hangup(p) PROVE OneFrameEach'
  BY <1>3 DEF SocketInv, OneFrameEach, OneFrame, Holds, Hangup, table, writer, history
<1>4. CASE Tick
  BY <1>4 DEF SocketInv, OneFrameEach, OneFrame, Holds, Tick
<1>5. CASE FrameReady
  BY <1>5 DEF SocketInv, OneFrameEach, OneFrame, Holds, FrameReady, table, network, history
<1>6. CASE AcceptClient
  <2> DEFINE p == Head(backlog)
  <2>1. p \in Peers /\ sent[p] = "nothing" /\ UNCHANGED <<sent, kind>>
    BY <1>6, AcceptFacts DEF AcceptClient
  <2>2. \A s \in Slots : fd'[s] \in {p, fd[s]}
    BY <1>6 DEF AcceptClient, SocketInv, TypeOK, table
  <2>3. \A q \in Peers : Holds(q)' => Holds(q) \/ q = p
    BY <2>2 DEF Holds
  <2> QED BY <2>1, <2>3 DEF SocketInv, OneFrameEach, OneFrame
<1>7. CASE NobodyWatches
  BY <1>7 DEF SocketInv, OneFrameEach, OneFrame, Holds, NobodyWatches, table, network, history
<1>8. CASE EncodeFails
  BY <1>8 DEF SocketInv, OneFrameEach, OneFrame, Holds, EncodeFails, network, history
<1>9. ASSUME NEW n \in FrameSizes, OfferFrame(n) PROVE OneFrameEach'
  BY <1>9 DEF SocketInv, OneFrameEach, OneFrame, Holds, OfferFrame, BeginCallback, network, history
<1>10. CASE EndCallback
  BY <1>10 DEF SocketInv, OneFrameEach, OneFrame, Holds, EndCallback, BeginCallback, table, network, history
<1>11. CASE SkipFree
  BY <1>11 DEF SocketInv, OneFrameEach, OneFrame, Holds, SkipFree, Visiting, NextSlot, table, network, history
<1>12. CASE CloseIdle
  <2>1. PICK why \in Reasons \ {"none"} : CloseClient(slot, why)
    BY <1>12, CallbackClosesSlot
  <2>2. \A p \in Peers : Holds(p)' => Holds(p)
    BY <1>12, <2>1, CallbackClosesSlot, CloseSlotFacts DEF CloseClient, SocketInv, TypeOK
  <2> QED BY <1>12, <2>2, CallbackClosesSlot DEF SocketInv, OneFrameEach, OneFrame
<1>13. CASE DropFrame
  BY <1>13 DEF SocketInv, OneFrameEach, OneFrame, Holds, DropFrame, Visiting, NextSlot, table, network, history
<1>14. CASE BeginWrite
  BY <1>14 DEF SocketInv, OneFrameEach, OneFrame, Holds, BeginWrite, Visiting, table, network, history
<1>15. ASSUME NEW k \in 1 .. Capacity, SendSome(k) PROVE OneFrameEach'
  BY <1>15 DEF SocketInv, OneFrameEach, OneFrame, Holds, SendSome, table
<1>16. CASE SendLast
  <2>1. /\ slot \in Slots /\ fd[slot] # NoFd /\ Reader \in Peers
        /\ Holds(Reader) /\ Reader = fd[slot] /\ NextSlot /\ kind' = kind
    BY <1>16, SendingFacts DEF SendLast, Holds, Reader
  <2>2. CASE OneFrame /\ CloseClient(slot, "one frame sent")
    <3>1. \A p \in Peers : Holds(p)' => Holds(p) /\ p # Reader
      BY <2>1, <2>2, CloseSlotFacts DEF CloseClient, SocketInv, TypeOK
    <3>2. sent[Reader] = "nothing" /\ \A p \in Peers \ {Reader} : sent'[p] = sent[p]
      BY <1>16, <2>1, <2>2 DEF SendLast, SocketInv, TypeOK, OneFrameEach
    <3>3. sent'[Reader] # "many"
      BY <1>16, <2>1, <3>2 DEF SendLast, SocketInv, TypeOK
    <3> QED BY <2>1, <2>2, <3>1, <3>2, <3>3 DEF SocketInv, OneFrameEach
  <2>3. CASE ~OneFrame
    BY <2>1, <2>3 DEF OneFrameEach, OneFrame
  <2> QED BY <1>16, <2>2, <2>3 DEF SendLast, OneFrame
<1>17. CASE SendBlocked
  BY <1>17 DEF SocketInv, OneFrameEach, OneFrame, Holds, SendBlocked, table, network, history
<1>18. CASE SendTimesOut
  <2>1. PICK why \in Reasons \ {"none"} : CloseClient(slot, why)
    BY <1>18, CallbackClosesSlot
  <2>2. \A p \in Peers : Holds(p)' => Holds(p)
    BY <1>18, <2>1, CallbackClosesSlot, CloseSlotFacts DEF CloseClient, SocketInv, TypeOK
  <2> QED BY <1>18, <2>2, CallbackClosesSlot DEF SocketInv, OneFrameEach, OneFrame
<1>19. CASE SendFails
  <2>1. PICK why \in Reasons \ {"none"} : CloseClient(slot, why)
    BY <1>19, CallbackClosesSlot
  <2>2. \A p \in Peers : Holds(p)' => Holds(p)
    BY <1>19, <2>1, CallbackClosesSlot, CloseSlotFacts DEF CloseClient, SocketInv, TypeOK
  <2> QED BY <1>19, <2>2, CallbackClosesSlot DEF SocketInv, OneFrameEach, OneFrame
<1>20. CASE UNCHANGED vars
  BY <1>20 DEF SocketInv, OneFrameEach, OneFrame, Holds, vars, table, writer, network, history
<1> QED
  BY <1>1, <1>2, <1>3, <1>4, <1>5, <1>6, <1>7, <1>8, <1>9, <1>10, <1>11, <1>12, <1>13, <1>14, <1>15, <1>16, <1>17, <1>18, <1>19, <1>20
     DEF Next, Daemon, Accepting, Writing, Readers

--------------------------------------------------------------------------------
(* sock_open leaves an empty table, so the invariant holds at first. *)
LEMMA InitInv == Init => SocketInv
<1> SUFFICES ASSUME Init PROVE SocketInv
  OBVIOUS
<1>1. TypeOK
  <2>1. kind \in Kinds /\ slot \in 0 .. MaxClients /\ num_clients \in Nat
    BY DEF Init
  <2>2. /\ since \in 0 .. IdleTimeout /\ waited \in 0 .. WriteTimeout
        /\ size = 0 /\ left \in 0 .. size
    BY DEF Init
  <2>3. /\ fd \in [Slots -> Peers \cup {NoFd}] /\ age \in [Slots -> 0 .. IdleTimeout]
        /\ unsent \in [Peers -> 0 .. Capacity] /\ joined \in [Peers -> 0 .. IdleTimeout]
    BY DEF Init
  <2>4. link \in [Peers -> Links] /\ sent \in [Peers -> Sents] /\ reason \in [Peers -> Reasons]
    BY DEF Init, Links, Sents, Reasons
  <2>5. backlog \in Seq(Peers) /\ pc \in Positions
    BY DEF Init, Positions
  <2>6. /\ need_keyframe \in BOOLEAN /\ key \in BOOLEAN /\ aud \in BOOLEAN
        /\ stale \subseteq Slots /\ took \subseteq Prompt /\ torn \subseteq Peers
    BY DEF Init
  <2> QED BY <2>1, <2>2, <2>3, <2>4, <2>5, <2>6 DEF TypeOK
<1>2. Open = {} /\ \A p \in Peers : ~Holds(p)
  BY DEF Init, Open, Holds
<1>3. TableConsistent
  BY <1>2, FS_EmptySet DEF Init, TableConsistent
<1>4. OnePlace
  BY <1>2 DEF Init, OnePlace, Queued
<1>5. WriterInSlot /\ OnlyWholeFrames /\ AgesHonest /\ OneFrameEach
  BY <1>2 DEF Init, WriterInSlot, OnlyWholeFrames, AgesHonest, OneFrameEach
<1> QED BY <1>1, <1>3, <1>4, <1>5 DEF SocketInv

(* The invariant holds in every reachable state: no step of the daemon, of *)
(* a reader or of the clock breaks any of its parts.                       *)
THEOREM SocketInvariant == Spec => []SocketInv
<1>1. SocketInv /\ [Next]_vars => SocketInv'
  BY TypeStep, TableStep, PlaceStep, WriterStep, WholeStep, AgesStep, OneFrameStep
     DEF SocketInv
<1> QED BY InitInv, <1>1, PTL DEF Spec

(* Every variable of the socket keeps its type, whatever the readers do. *)
THEOREM TypeCorrect == Spec => []TypeOK
<1>1. SocketInv => TypeOK
  BY DEF SocketInv
<1> QED BY <1>1, SocketInvariant, PTL

(* num_clients, which sock_accept_clients and sock_close_client keep by     *)
(* hand, is always the number of open slots.                                *)
THEOREM CountIsExact == Spec => []TableConsistent
<1>1. SocketInv => TableConsistent
  BY DEF SocketInv
<1> QED BY <1>1, SocketInvariant, PTL

(* A connected reader never keeps half a frame: whatever the size of the    *)
(* frames, of the buffers and of the table, every way a write can end short *)
(* of the frame ends the connection.                                        *)
THEOREM ReadersGetWholeFrames == Spec => []OnlyWholeFrames
<1>1. SocketInv => OnlyWholeFrames
  BY DEF SocketInv
<1> QED BY <1>1, SocketInvariant, PTL

(* A snapshot connection carries one picture at most. *)
THEOREM SnapshotIsOneFrame == Spec => []OneFrameEach
<1>1. SocketInv => OneFrameEach
  BY DEF SocketInv
<1> QED BY <1>1, SocketInvariant, PTL

--------------------------------------------------------------------------------
(* The reader closed by the idle test found its slot stale; the ages are    *)
(* honest, so it has held the slot for as long as the timeout.              *)
LEMMA IdleClosed ==
  ASSUME SocketInv, CloseIdle, NEW p \in Peers, reason'[p] # reason[p]
  PROVE  joined[p] = IdleTimeout
<1>1. slot \in Slots /\ fd[slot] # NoFd /\ slot \in stale /\ InCallback
  BY CallbackClosesSlot DEF CloseIdle, Visiting, InCallback
<1>2. PICK why \in Reasons : reason' = [reason EXCEPT ![fd[slot]] = why]
  BY CallbackClosesSlot DEF CloseClient
<1>3. p = fd[slot]
  BY <1>2 DEF SocketInv, TypeOK
<1>4. slot \in Open /\ slot <= slot
  BY <1>1 DEF Open, Slots
<1>5. age[slot] = IdleTimeout /\ age[slot] <= joined[p]
  BY <1>1, <1>3, <1>4 DEF SocketInv, AgesHonest
<1>6. joined[p] \in 0 .. IdleTimeout
  BY DEF SocketInv, TypeOK
<1> QED BY <1>5, <1>6

(* A reader is told it was idle by that step only. *)
LEMMA IdleStep ==
  ASSUME SocketInv, [Next]_vars, NEW p \in Peers,
         reason'[p] = "idle timeout", reason[p] # "idle timeout"
  PROVE  joined[p] = IdleTimeout
<1>1. reason' # reason
  OBVIOUS
<1>2. CASE AcceptClient
  BY <1>1, <1>2 DEF AcceptClient, SocketInv, TypeOK
<1>3. CASE CloseIdle
  BY <1>3, IdleClosed
<1>4. CASE SendLast
  BY <1>1, <1>4 DEF SendLast, CloseClient, SocketInv, TypeOK
<1>5. CASE SendTimesOut
  BY <1>5 DEF SendTimesOut, CloseClient, SocketInv, TypeOK
<1>6. CASE SendFails
  BY <1>6 DEF SendFails, CloseClient, SocketInv, TypeOK
<1>7. CASE Readers \/ Tick
  BY <1>1, <1>7 DEF Readers, Connect, Take, Hangup, Tick, history
<1>8. CASE FrameReady \/ NobodyWatches \/ EncodeFails \/ \E n \in FrameSizes : OfferFrame(n)
  BY <1>1, <1>8 DEF FrameReady, NobodyWatches, EncodeFails, OfferFrame, history
<1>9. CASE \/ EndCallback \/ SkipFree \/ DropFrame \/ BeginWrite \/ SendBlocked
           \/ \E k \in 1 .. Capacity : SendSome(k)
  BY <1>1, <1>9 DEF EndCallback, SkipFree, DropFrame, BeginWrite, SendBlocked, SendSome, history
<1>10. CASE UNCHANGED vars
  BY <1>1, <1>10 DEF vars, history
<1> QED
  BY <1>2, <1>3, <1>4, <1>5, <1>6, <1>7, <1>8, <1>9, <1>10 DEF Next, Daemon, Accepting, Writing

(* "idle timeout" is never said to a reader connected for less than         *)
(* SOCK_IDLE_TIMEOUT_MS, in whatever order slots are reused and however     *)
(* long the callbacks take.                                                 *)
THEOREM IdleReadersOnly == Spec => IdleMeansIdle
<1>1. SocketInv /\ [Next]_vars =>
        [\A p \in Peers : reason'[p] = "idle timeout" /\ reason[p] # "idle timeout"
           => joined[p] = IdleTimeout]_vars
  BY IdleStep
<1> QED BY <1>1, SocketInvariant, PTL DEF Spec, IdleMeansIdle

--------------------------------------------------------------------------------
(* The refinement: FrameSocket implements FrameFeed *)

(* A step that touches neither the slots' connections, nor the reasons, nor *)
(* what was sent whole, and cuts nobody, is invisible in the feed.          *)
LEMMA FeedStutters ==
  ASSUME fd' = fd, reason' = reason, sent' = sent, kind' = kind, Cut' = Cut
  PROVE  UNCHANGED Feed!vars
<1>1. Phase' = Phase /\ Frames' = Frames /\ OneFrame' = OneFrame
  BY DEF Phase, Frames, OneFrame, Holds
<1> QED BY <1>1 DEF Feed!vars

(* Outside a write nobody is being sent to, so the readers cut are the torn *)
(* ones.                                                                    *)
LEMMA CutOutsideWrite ==
  ASSUME pc \notin {"send", "nap"}
  PROVE  Cut = torn
  BY DEF Cut, SendingTo

(* Closing the connection in slot is the reader leaving the feed; it leaves *)
(* cut if the daemon was sending to it and had sent a part.                 *)
LEMMA CloseIsLeave ==
  ASSUME SocketInv, slot \in Slots, fd[slot] # NoFd,
         NEW why \in Reasons \ {"none"}, CloseClient(slot, why),
         kind' = kind, sent' = sent, torn' = torn, pc' = "visit"
  PROVE  Feed!Next
<1> DEFINE r == fd[slot]
<1>1. r \in Peers /\ Holds(r)
  BY DEF Holds, SocketInv, TypeOK
<1>2. \A p \in Peers : Holds(p)' <=> Holds(p) /\ p # r
  BY CloseSlotFacts DEF CloseClient, SocketInv, TypeOK
<1>3. reason' = [reason EXCEPT ![r] = why] /\ why # "none"
  BY DEF CloseClient
<1>4. Phase[r] = "in" /\ Phase' = [Phase EXCEPT ![r] = "gone"]
  <2>1. \A p \in Peers : reason'[p] = IF p = r THEN why ELSE reason[p]
    BY <1>3 DEF SocketInv, TypeOK
  <2>2. \A p \in Peers : Phase'[p] = IF p = r THEN "gone" ELSE Phase[p]
    BY <1>1, <1>2, <1>3, <2>1 DEF Phase
  <2> QED BY <1>1, <2>2 DEF Phase
<1>5. Frames' = Frames /\ OneFrame' = OneFrame
  BY DEF Frames, OneFrame
<1>6. Cut' = torn
  BY CutOutsideWrite DEF Cut, SendingTo
<1>7. Cut = torn \/ (pc \in {"send", "nap"} /\ Cut = torn \ {r})
  BY CutOutsideWrite DEF Cut, SendingTo
<1>8. Cut' \in {Cut, Cut \cup {r}}
  BY <1>6, <1>7
<1>9. Feed!Leave(r)
  BY <1>4, <1>5, <1>8 DEF Feed!Leave
<1> QED BY <1>1, <1>9 DEF Feed!Next

(* Accepting a connection is a reader joining the feed, or being refused    *)
(* when every slot is taken.                                                *)
LEMMA AcceptIsJoin ==
  ASSUME SocketInv, AcceptClient
  PROVE  Feed!Next
<1> DEFINE p == Head(backlog)
<1>1. p \in Peers /\ ~Holds(p) /\ reason[p] = "none" /\ UNCHANGED <<kind, sent, torn, pc>>
  BY AcceptFacts DEF AcceptClient, writer
<1>2. Cut' = Cut
  BY <1>1, CutOutsideWrite DEF AcceptClient, Cut, SendingTo
<1>3. Frames' = Frames /\ OneFrame' = OneFrame /\ Phase[p] = "out"
  BY <1>1 DEF Frames, OneFrame, Phase
<1>4. CASE fd' = fd /\ reason' = [reason EXCEPT ![p] = "max reached"]
  <2>1. Phase' = [Phase EXCEPT ![p] = "gone"]
    BY <1>1, <1>4 DEF Phase, Holds, SocketInv, TypeOK
  <2>2. Feed!Refuse(p)
    BY <1>2, <1>3, <2>1 DEF Feed!Refuse
  <2> QED BY <1>1, <2>2 DEF Feed!Next
<1>5. ASSUME NEW s \in Slots, IsFirstFree(s), fd' = [fd EXCEPT ![s] = p], reason' = reason
      PROVE  Feed!Next
  <2>1. fd[s] = NoFd
    BY <1>5 DEF IsFirstFree, Free, Open
  <2>2. \A q \in Peers : Holds(q)' <=> Holds(q) \/ q = p
    BY <1>1, <1>5, <2>1, SocketAssumption DEF Holds, SocketInv, TypeOK
  <2>3. Phase' = [Phase EXCEPT ![p] = "in"]
    BY <1>1, <1>5, <2>2 DEF Phase
  <2>4. Feed!Join(p)
    BY <1>2, <1>3, <2>3 DEF Feed!Join
  <2> QED BY <1>1, <2>4 DEF Feed!Next
<1> QED BY <1>4, <1>5 DEF AcceptClient, table

(* The last unit of a frame is the feed's delivery, whatever number of send *)
(* calls it took, and on a one-frame socket the reader leaves with it.      *)
LEMMA SendLastIsDeliver ==
  ASSUME SocketInv, SendLast
  PROVE  Feed!Next
<1>1. /\ slot \in Slots /\ fd[slot] # NoFd /\ Reader \in Peers /\ Reader = fd[slot]
      /\ Holds(Reader) /\ pc' = "visit" /\ kind' = kind /\ pc = "send"
  BY SendingFacts DEF SendLast, Holds, Reader, NextSlot
<1>2. Cut' = Cut /\ Reader \notin Cut
  BY <1>1 DEF SendLast, Cut, SendingTo
<1>3. Frames' = [Frames EXCEPT ![Reader] = IF @ = "nothing" THEN "one" ELSE "many"]
  BY <1>1 DEF SendLast, Frames, SocketInv, TypeOK, Sents
<1>4. OneFrame' = OneFrame /\ OneFrame \in BOOLEAN /\ Phase[Reader] = "in"
  BY <1>1 DEF OneFrame, Phase
<1>5. CASE OneFrame /\ CloseClient(slot, "one frame sent")
  <2>1. \A p \in Peers : Holds(p)' <=> Holds(p) /\ p # Reader
    BY <1>1, <1>5, CloseSlotFacts DEF CloseClient, SocketInv, TypeOK
  <2>2. reason' = [reason EXCEPT ![Reader] = "one frame sent"]
    BY <1>1, <1>5 DEF CloseClient
  <2>3. Phase' = [Phase EXCEPT ![Reader] = "gone"]
    BY <1>1, <2>1, <2>2 DEF Phase, SocketInv, TypeOK
  <2>4. Feed!Deliver(Reader)
    BY <1>2, <1>3, <1>4, <1>5, <2>3 DEF Feed!Deliver
  <2> QED BY <1>1, <2>4 DEF Feed!Next
<1>6. CASE ~OneFrame /\ fd' = fd /\ reason' = reason
  <2>1. Phase' = Phase
    BY <1>6 DEF Phase, Holds
  <2>2. Feed!Deliver(Reader)
    BY <1>2, <1>3, <1>4, <1>6, <2>1 DEF Feed!Deliver
  <2> QED BY <1>1, <2>2 DEF Feed!Next
<1> QED BY <1>5, <1>6 DEF SendLast

(* Every step of the socket is a step of the feed or invisible in it. *)
LEMMA FeedStep ==
  ASSUME SocketInv, [Next]_vars
  PROVE  [Feed!Next]_(Feed!vars)
<1>1. CASE AcceptClient
  BY <1>1, AcceptIsJoin
<1>2. CASE SendLast
  BY <1>2, SendLastIsDeliver
<1>3. CASE CloseIdle \/ SendTimesOut \/ SendFails
  <2>1. /\ slot \in Slots /\ fd[slot] # NoFd /\ NextSlot
        /\ UNCHANGED <<kind, torn, sent>>
    BY <1>3, CallbackClosesSlot DEF CloseIdle, SendTimesOut, SendFails
  <2>2. PICK why \in Reasons \ {"none"} : CloseClient(slot, why)
    BY <1>3, CallbackClosesSlot
  <2> QED BY <2>1, <2>2, CloseIsLeave DEF NextSlot
<1>4. CASE BeginWrite
  <2>1. fd[slot] \notin torn /\ pc = "visit"
    BY <1>4 DEF BeginWrite, Visiting, SocketInv, OnlyWholeFrames, Open, TypeOK, Slots
  <2>2. Cut' = Cut
    BY <1>4, <2>1 DEF BeginWrite, Cut, SendingTo, table, history
  <2> QED BY <1>4, <2>2, FeedStutters DEF BeginWrite, table, history
<1>5. ASSUME NEW k \in 1 .. Capacity, SendSome(k) PROVE UNCHANGED Feed!vars
  <2>1. Cut' = Cut
    BY <1>5 DEF SendSome, Cut, SendingTo, table, Reader
  <2> QED BY <1>5, <2>1, FeedStutters DEF SendSome, table
<1>6. CASE FrameReady \/ NobodyWatches \/ EncodeFails \/ \E n \in FrameSizes : OfferFrame(n)
  <2>1. Cut' = Cut
    BY <1>6 DEF FrameReady, NobodyWatches, EncodeFails, OfferFrame, BeginCallback, Cut,
                SendingTo, history
  <2> QED BY <1>6, <2>1, FeedStutters
          DEF FrameReady, NobodyWatches, EncodeFails, OfferFrame, table, history
<1>7. CASE EndCallback \/ SkipFree \/ DropFrame
  <2>1. pc \notin {"send", "nap"} /\ pc' \notin {"send", "nap"}
    BY <1>7 DEF EndCallback, SkipFree, DropFrame, Visiting, NextSlot, BeginCallback
  <2>2. UNCHANGED <<fd, reason, sent, kind, torn>>
    BY <1>7 DEF EndCallback, SkipFree, DropFrame, table, history
  <2>3. Cut' = Cut
    BY <2>1, <2>2 DEF Cut, SendingTo
  <2> QED BY <2>2, <2>3, FeedStutters
<1>8. CASE SendBlocked
  <2>1. Cut' = Cut
    BY <1>8 DEF SendBlocked, Cut, SendingTo, table, history
  <2> QED BY <1>8, <2>1, FeedStutters DEF SendBlocked, table, history
<1>9. CASE Readers
  <2>1. UNCHANGED <<fd, reason, sent, kind, torn, pc, slot>>
    BY <1>9 DEF Readers, Connect, Take, Hangup, table, writer, history
  <2>2. Cut' = Cut
    BY <2>1 DEF Cut, SendingTo
  <2> QED BY <2>1, <2>2, FeedStutters
<1>10. CASE Tick
  <2>1. UNCHANGED <<fd, reason, sent, kind, torn, slot>>
    BY <1>10 DEF Tick
  <2>2. pc \in {"send", "nap"} <=> pc' \in {"send", "nap"}
    BY <1>10 DEF Tick
  <2>3. Cut' = Cut
    BY <2>1, <2>2 DEF Cut, SendingTo
  <2> QED BY <2>1, <2>3, FeedStutters
<1>11. CASE UNCHANGED vars
  <2>1. UNCHANGED <<fd, reason, sent, kind, torn, pc, slot>>
    BY <1>11 DEF vars, table, writer, history
  <2>2. Cut' = Cut
    BY <2>1 DEF Cut, SendingTo
  <2> QED BY <2>1, <2>2, FeedStutters
<1> QED
  BY <1>1, <1>2, <1>3, <1>4, <1>5, <1>6, <1>7, <1>8, <1>9, <1>10, <1>11
     DEF Next, Daemon, Accepting, Writing

(* The frame socket implements the feed: what its readers see of slots,     *)
(* buffers, drops, timeouts and refusals is frames handed over whole, then  *)
(* at most one cut frame, with which their connection ends.                 *)
THEOREM SocketImplementsFeed == Spec => ImplementsFeed
<1>1. Init => Feed!Init
  <2> SUFFICES ASSUME Init PROVE Feed!Init
    OBVIOUS
  <2>1. \A p \in Peers : ~Holds(p)
    BY DEF Init, Holds
  <2>2. Phase = [p \in Peers |-> "out"] /\ Frames = [p \in Peers |-> "nothing"]
    BY <2>1 DEF Init, Phase, Frames
  <2>3. Cut = {} /\ OneFrame \in BOOLEAN
    BY DEF Init, Cut, OneFrame
  <2> QED BY <2>2, <2>3 DEF Feed!Init
<1>2. SocketInv /\ [Next]_vars => [Feed!Next]_(Feed!vars)
  BY FeedStep
<1> QED BY <1>1, <1>2, SocketInvariant, PTL DEF Spec, ImplementsFeed, Feed!Spec

--------------------------------------------------------------------------------
(* The first frame of an h264 reader *)

(* A reader that joins is owed a key frame until one has been offered to    *)
(* its slot: no step forgets the debt, provided the encoder returns a       *)
(* packet when it is asked for one.                                         *)
LEMMA KeyStep ==
  ASSUME ~EncoderMayFail, SocketInv, KeyOwed, FirstFrameIsKey, [Next]_vars
  PROVE  KeyOwed' /\ FirstFrameIsKey'
<1> USE DEF Slots
<1>1. ASSUME NEW p \in Peers, Connect(p) PROVE KeyOwed' /\ FirstFrameIsKey'
  BY <1>1 DEF Connect, KeyOwed, FirstFrameIsKey, H264, Open, InCallback, table, writer, network, history
<1>2. ASSUME NEW p \in Peers, Take(p) PROVE KeyOwed' /\ FirstFrameIsKey'
  BY <1>2 DEF Take, KeyOwed, FirstFrameIsKey, H264, Open, InCallback, table, writer, network, history
<1>3. ASSUME NEW p \in Peers, Hangup(p) PROVE KeyOwed' /\ FirstFrameIsKey'
  BY <1>3 DEF Hangup, KeyOwed, FirstFrameIsKey, H264, Open, InCallback, table, writer, network, history
<1>4. CASE Tick
  BY <1>4 DEF Tick, KeyOwed, FirstFrameIsKey, H264, Open, InCallback
<1>5. CASE FrameReady
  BY <1>5 DEF FrameReady, KeyOwed, FirstFrameIsKey, H264, Open, InCallback, table, network, history
<1>6. CASE AcceptClient
  <2>1. /\ need_keyframe' = TRUE \/ (fd' = fd /\ need_keyframe' = need_keyframe)
        /\ UNCHANGED <<kind, sent, pc>> /\ pc = "accept"
    BY <1>6 DEF AcceptClient, table, writer
  <2> QED BY <2>1 DEF KeyOwed, FirstFrameIsKey, H264, Open, InCallback
<1>7. CASE NobodyWatches
  <2>1. Open = {}
    BY <1>7, OpenFinite, FS_EmptySet DEF NobodyWatches, SocketInv, TableConsistent
  <2> QED BY <1>7, <2>1 DEF NobodyWatches, KeyOwed, FirstFrameIsKey, H264, Open, table, history
<1>8. CASE EncodeFails
  BY <1>8 DEF EncodeFails
<1>9. ASSUME NEW n \in FrameSizes, OfferFrame(n) PROVE KeyOwed' /\ FirstFrameIsKey'
  <2>1. /\ pc = "accept" /\ pc' = "visit" /\ slot' = 0 /\ aud' = FALSE
        /\ H264 /\ need_keyframe => key' = TRUE
        /\ UNCHANGED <<kind, fd, sent>>
    BY <1>9 DEF OfferFrame, BeginCallback, history
  <2>2. \A s \in Slots : 0 <= s
    OBVIOUS
  <2> QED BY <2>1, <2>2 DEF KeyOwed, FirstFrameIsKey, H264, Open, InCallback
<1>10. CASE EndCallback
  <2>1. /\ pc = "visit" /\ slot = MaxClients
        /\ UNCHANGED <<kind, fd, sent>>
    BY <1>10 DEF EndCallback, table, history
  <2>2. H264 => \A s \in Open : sent[fd[s]] # "nothing"
    BY <2>1 DEF KeyOwed, InCallback, Open
  <2> QED BY <2>1, <2>2 DEF KeyOwed, FirstFrameIsKey, H264, Open
<1>11. CASE SkipFree
  <2>1. /\ pc = "visit" /\ pc' = "visit" /\ slot' = slot + 1 /\ fd[slot] = NoFd
        /\ UNCHANGED <<kind, fd, sent, key, aud>>
    BY <1>11 DEF SkipFree, Visiting, NextSlot, table, history
  <2>2. \A s \in Open : s # slot /\ (slot <= s => slot' <= s)
    BY <2>1 DEF Open, SocketInv, TypeOK
  <2> QED BY <2>1, <2>2 DEF KeyOwed, FirstFrameIsKey, H264, Open, InCallback
<1>12. CASE CloseIdle
  <2>1. slot \in Slots /\ NextSlot /\ kind' = kind /\ sent' = sent
    BY <1>12, CallbackClosesSlot
  <2>2. /\ \A s \in Slots : fd'[s] = IF s = slot THEN NoFd ELSE fd[s]
        /\ pc' = "visit" /\ slot' = slot + 1
    BY <1>12, <2>1, CallbackClosesSlot, CloseAndMoveOn
  <2>3. InCallback
    BY <1>12 DEF CloseIdle, Visiting, InCallback
  <2>4. ASSUME H264', NEW s \in Open', sent'[fd'[s]] = "nothing"
        PROVE  key' /\ ~aud' /\ slot' <= s
    <3>1. s \in Open /\ s # slot /\ fd'[s] = fd[s] /\ s \in Int /\ slot \in Int
      BY <2>1, <2>2, <2>4 DEF Open, Slots
    <3>2. key /\ ~aud /\ slot <= s
      BY <2>1, <2>3, <2>4, <3>1 DEF KeyOwed, H264
    <3> QED BY <2>1, <2>2, <3>1, <3>2 DEF NextSlot
  <2>5. KeyOwed'
    BY <2>2, <2>4 DEF KeyOwed, InCallback
  <2> QED BY <2>1, <2>5 DEF FirstFrameIsKey, H264
<1>13. CASE DropFrame
  <2>1. ~H264 /\ UNCHANGED <<kind, sent>>
    BY <1>13 DEF DropFrame, AllowDrops, H264, history
  <2> QED BY <2>1 DEF KeyOwed, FirstFrameIsKey, H264
<1>14. CASE BeginWrite
  BY <1>14 DEF BeginWrite, Visiting, KeyOwed, FirstFrameIsKey, H264, Open, InCallback, table, history
<1>15. ASSUME NEW k \in 1 .. Capacity, SendSome(k) PROVE KeyOwed' /\ FirstFrameIsKey'
  BY <1>15 DEF SendSome, KeyOwed, FirstFrameIsKey, H264, Open, InCallback, table
<1>16. CASE SendLast
  <2>1. /\ slot \in Slots /\ fd[slot] \in Peers /\ Reader = fd[slot] /\ pc = "send"
        /\ fd[slot] # NoFd
    BY <1>16, SendingFacts DEF SendLast, Reader
  <2>2. /\ pc' = "visit" /\ slot' = slot + 1 /\ UNCHANGED <<kind, key, aud>>
        /\ sent' = [sent EXCEPT ![fd[slot]] = IF sent[fd[slot]] # "nothing" THEN "many"
                                              ELSE IF key THEN "key" ELSE "other"]
    BY <1>16 DEF SendLast, NextSlot, Reader
  <2>3. \A s \in Slots : fd'[s] = fd[s] \/ fd'[s] = NoFd
    BY <1>16 DEF SendLast, CloseClient, SocketInv, TypeOK
  <2>4. sent'[fd[slot]] # "nothing"
    BY <2>1, <2>2 DEF SocketInv, TypeOK
  <2>5. ASSUME H264', NEW s \in Open', sent'[fd'[s]] = "nothing"
        PROVE  key' /\ ~aud' /\ slot' <= s
    <3>1. s \in Open /\ fd'[s] = fd[s] /\ s # slot /\ s \in Int /\ slot \in Int
      BY <2>1, <2>3, <2>4, <2>5 DEF Open
    <3>2. sent[fd[s]] = "nothing"
      BY <2>1, <2>2, <2>4, <2>5, <3>1 DEF SocketInv, TypeOK, Open
    <3>3. key /\ ~aud /\ slot <= s
      BY <2>1, <2>2, <2>5, <3>1, <3>2 DEF KeyOwed, H264, InCallback
    <3> QED BY <2>2, <3>1, <3>3
  <2>6. KeyOwed'
    BY <2>2, <2>5 DEF KeyOwed, InCallback
  <2>7. H264 /\ sent[fd[slot]] = "nothing" => key
    BY <2>1 DEF KeyOwed, InCallback, Open
  <2>8. FirstFrameIsKey'
    BY <2>1, <2>2, <2>7 DEF FirstFrameIsKey, H264, SocketInv, TypeOK
  <2> QED BY <2>6, <2>8
<1>17. CASE SendBlocked
  BY <1>17 DEF SendBlocked, KeyOwed, FirstFrameIsKey, H264, Open, InCallback, table, history
<1>18. CASE SendTimesOut
  <2>1. slot \in Slots /\ NextSlot /\ kind' = kind /\ sent' = sent
    BY <1>18, CallbackClosesSlot
  <2>2. /\ \A s \in Slots : fd'[s] = IF s = slot THEN NoFd ELSE fd[s]
        /\ pc' = "visit" /\ slot' = slot + 1
    BY <1>18, <2>1, CallbackClosesSlot, CloseAndMoveOn
  <2>3. InCallback
    BY <1>18 DEF SendTimesOut, Visiting, InCallback
  <2>4. ASSUME H264', NEW s \in Open', sent'[fd'[s]] = "nothing"
        PROVE  key' /\ ~aud' /\ slot' <= s
    <3>1. s \in Open /\ s # slot /\ fd'[s] = fd[s] /\ s \in Int /\ slot \in Int
      BY <2>1, <2>2, <2>4 DEF Open, Slots
    <3>2. key /\ ~aud /\ slot <= s
      BY <2>1, <2>3, <2>4, <3>1 DEF KeyOwed, H264
    <3> QED BY <2>1, <2>2, <3>1, <3>2 DEF NextSlot
  <2>5. KeyOwed'
    BY <2>2, <2>4 DEF KeyOwed, InCallback
  <2> QED BY <2>1, <2>5 DEF FirstFrameIsKey, H264
<1>19. CASE SendFails
  <2>1. slot \in Slots /\ NextSlot /\ kind' = kind /\ sent' = sent
    BY <1>19, CallbackClosesSlot
  <2>2. /\ \A s \in Slots : fd'[s] = IF s = slot THEN NoFd ELSE fd[s]
        /\ pc' = "visit" /\ slot' = slot + 1
    BY <1>19, <2>1, CallbackClosesSlot, CloseAndMoveOn
  <2>3. InCallback
    BY <1>19 DEF SendFails, Visiting, InCallback
  <2>4. ASSUME H264', NEW s \in Open', sent'[fd'[s]] = "nothing"
        PROVE  key' /\ ~aud' /\ slot' <= s
    <3>1. s \in Open /\ s # slot /\ fd'[s] = fd[s] /\ s \in Int /\ slot \in Int
      BY <2>1, <2>2, <2>4 DEF Open, Slots
    <3>2. key /\ ~aud /\ slot <= s
      BY <2>1, <2>3, <2>4, <3>1 DEF KeyOwed, H264
    <3> QED BY <2>1, <2>2, <3>1, <3>2 DEF NextSlot
  <2>5. KeyOwed'
    BY <2>2, <2>4 DEF KeyOwed, InCallback
  <2> QED BY <2>1, <2>5 DEF FirstFrameIsKey, H264
<1>20. CASE UNCHANGED vars
  BY <1>20 DEF KeyOwed, FirstFrameIsKey, H264, Open, InCallback, vars, table, writer, history
<1> QED
  BY <1>1, <1>2, <1>3, <1>4, <1>5, <1>6, <1>7, <1>8, <1>9, <1>10, <1>11, <1>12, <1>13, <1>14, <1>15, <1>16, <1>17, <1>18, <1>19, <1>20
     DEF Next, Daemon, Accepting, Writing, Readers

(* With an encoder that always returns a packet, the first frame an h264    *)
(* reader is sent whole is one its decoder can start on, however many       *)
(* readers join while a frame is being encoded or written.                  *)
THEOREM FirstFrameDecodes ==
  ASSUME ~EncoderMayFail
  PROVE  Spec => []FirstFrameIsKey
<1>1. Init => KeyOwed /\ FirstFrameIsKey
  <2> SUFFICES ASSUME Init PROVE KeyOwed /\ FirstFrameIsKey
    OBVIOUS
  <2>1. Open = {}
    BY DEF Init, Open
  <2> QED BY <2>1 DEF Init, KeyOwed, FirstFrameIsKey
<1>2. SocketInv /\ (KeyOwed /\ FirstFrameIsKey) /\ [Next]_vars
        => (KeyOwed /\ FirstFrameIsKey)'
  BY KeyStep
<1> QED BY <1>1, <1>2, SocketInvariant, PTL DEF Spec

--------------------------------------------------------------------------------
(* The prompt readers *)

(* A write that times out has taken longer than the prompt reader needs.    *)
LEMMA PromptOutruns ==
  ASSUME PromptIsFastEnough, SocketInv, PromptDrains, AllowDrops, SendTimesOut
  PROVE  Reader \notin Prompt
<1> SUFFICES ASSUME Reader \in Prompt PROVE FALSE
  OBVIOUS
<1>1. /\ pc = "send" /\ Room = 0 /\ waited >= WriteTimeout
      /\ unsent[Reader] \in 0 .. Capacity /\ waited \in 0 .. WriteTimeout
  BY SendingFacts DEF SendTimesOut, SocketInv, TypeOK
<1>2. size \in FrameSizes /\ left > 0 /\ left \in Nat
  BY <1>1, SendingFacts DEF PromptDrains, InCallback
<1>3. waited + left + unsent[Reader] <= Backlogged(size) + size + 1
  BY <1>1, <1>2 DEF PromptDrains, Reader, Backlogged
<1>4. unsent[Reader] = Capacity
  BY <1>1 DEF Room
<1>5. Backlogged(size) + size - Capacity < WriteTimeout
  BY <1>2 DEF PromptIsFastEnough
<1>6. Backlogged(size) \in Nat
  BY <1>2 DEF Backlogged
<1> QED BY <1>1, <1>2, <1>3, <1>4, <1>5, <1>6

(* Every tick of a write is paid for with a unit its reader took. *)
LEMMA PromptStep ==
  ASSUME ~Loaded, SocketInv, PromptDrains, [Next]_vars
  PROVE  PromptDrains'
<1> SUFFICES ASSUME AllowDrops' PROVE PromptDrains'
  BY DEF PromptDrains
<1>1. kind' = kind
  BY DEF Next, Daemon, Accepting, Writing, Readers, Connect, Take, Hangup, Tick, FrameReady,
    AcceptClient, NobodyWatches, EncodeFails, OfferFrame, EndCallback, SkipFree, CloseIdle,
    DropFrame, BeginWrite, SendSome, SendLast, SendBlocked, SendTimesOut, SendFails, vars
<1>2. AllowDrops
  BY <1>1 DEF AllowDrops
<1> USE <1>2
<1>3. CASE UNCHANGED <<fd, writer, unsent, took>>
  BY <1>3 DEF PromptDrains, writer, InCallback
<1>4. ASSUME NEW p \in Peers, Take(p) PROVE PromptDrains'
  <2>1. /\ UNCHANGED <<fd, writer>> /\ took \subseteq took'
        /\ unsent[p] > 0 /\ unsent' = [unsent EXCEPT ![p] = @ - 1]
        /\ p \in Prompt => p \in took'
        /\ \A q \in Peers : q # p => (q \in took' <=> q \in took)
    BY <1>4 DEF Take, table
  <2>2. ASSUME NEW q \in Prompt, pc \in {"send", "nap"}, fd[slot] = q
        PROVE  /\ waited + left + unsent'[q] + (IF q \in took' THEN 1 ELSE 0)
                    <= Backlogged(size) + size + 1
               /\ pc = "nap" => q \in took' \/ unsent'[q] = Capacity
    <3>1. /\ waited \in Nat /\ left \in Nat /\ unsent[q] \in Nat
          /\ unsent \in [Peers -> Nat] /\ size \in Nat /\ q \in Peers
      BY <2>2, SendingFacts DEF SocketInv, TypeOK
    <3>2. Backlogged(size) \in Int
      BY <3>1 DEF Backlogged
    <3>3. /\ waited + left + unsent[q] + (IF q \in took THEN 1 ELSE 0)
               <= Backlogged(size) + size + 1
          /\ pc = "nap" => q \in took \/ unsent[q] = Capacity
      BY <2>2 DEF PromptDrains
    <3>4. CASE q = p
      BY <2>1, <3>1, <3>2, <3>3, <3>4
    <3>5. CASE q # p
      BY <2>1, <3>1, <3>3, <3>5
    <3> QED BY <3>4, <3>5
  <2> QED BY <2>1, <2>2 DEF PromptDrains, writer, InCallback
<1>5. ASSUME NEW p \in Peers, Hangup(p) PROVE PromptDrains'
  <2>1. /\ UNCHANGED <<fd, writer, took>>
        /\ \A q \in Prompt : unsent'[q] = unsent[q]
    BY <1>5 DEF Hangup, table, SocketInv, TypeOK
  <2> QED BY <2>1 DEF PromptDrains, writer, InCallback
<1>6. CASE Tick
  <2>1. /\ UNCHANGED <<fd, slot, size, left, unsent>>
        /\ pc \in {"pace", "frame", "nap"} /\ took' = {}
        /\ pc' = (CASE pc = "nap" -> "send" [] pc = "pace" -> "frame" [] OTHER -> pc)
        /\ \A p \in Prompt : unsent[p] = 0 \/ p \in took
    BY <1>6 DEF Tick
  <2>2. CASE pc # "nap"
    BY <2>1, <2>2 DEF PromptDrains, InCallback
  <2>3. CASE pc = "nap"
    <3>1. waited \in Nat /\ waited' \in Nat /\ waited' <= waited + 1
      BY <1>6, OlderFacts DEF Tick, Older, Min2, SocketInv, TypeOK
    <3>2. pc' = "send" /\ size \in FrameSizes /\ left > 0
      BY <2>1, <2>3 DEF PromptDrains, InCallback
    <3>3. ASSUME NEW q \in Prompt, fd[slot] = q
          PROVE  waited' + left + unsent[q] <= Backlogged(size) + size + 1
      <4>1. left \in Nat /\ unsent[q] \in Nat /\ size \in Nat
        BY <2>3, SendingFacts DEF SocketInv, TypeOK
      <4>2. Backlogged(size) \in Int
        BY <4>1 DEF Backlogged
      <4>3. q \in took
        BY <2>1, <2>3, <3>3 DEF PromptDrains
      <4>4. waited + left + unsent[q] + 1 <= Backlogged(size) + size + 1
        BY <2>3, <3>3, <4>3 DEF PromptDrains
      <4> QED BY <3>1, <4>1, <4>2, <4>4
    <3>4. \A q \in Prompt : fd'[slot'] = q =>
            waited' + left' + unsent'[q] + (IF q \in took' THEN 1 ELSE 0)
              <= Backlogged(size') + size' + 1
      <4> SUFFICES ASSUME NEW q \in Prompt, fd'[slot'] = q
                   PROVE  waited' + left' + unsent'[q] + (IF q \in took' THEN 1 ELSE 0)
                            <= Backlogged(size') + size' + 1
        OBVIOUS
      <4>1. waited' + left + unsent[q] <= Backlogged(size) + size + 1
        BY <2>1, <3>3
      <4>2. left \in Nat /\ unsent[q] \in Nat
        BY <2>3, SendingFacts DEF SocketInv, TypeOK
      <4>3. waited' + left' + unsent'[q] + 0 = waited' + left + unsent[q]
        BY <2>1, <3>1, <4>2
      <4> QED BY <2>1, <4>1, <4>3
    <3> QED BY <2>1, <3>2, <3>4 DEF PromptDrains, InCallback
  <2> QED BY <2>2, <2>3
<1>7. CASE FrameReady \/ NobodyWatches \/ EncodeFails
  BY <1>7 DEF FrameReady, NobodyWatches, EncodeFails, PromptDrains, InCallback
<1>8. CASE AcceptClient
  BY <1>8 DEF AcceptClient, writer, PromptDrains, InCallback
<1>9. ASSUME NEW n \in FrameSizes, OfferFrame(n) PROVE PromptDrains'
  BY <1>9 DEF OfferFrame, BeginCallback, PromptDrains, InCallback
<1>10. CASE EndCallback
  <2>1. ~H264
    BY DEF AllowDrops, H264
  <2> QED BY <1>10, <2>1 DEF EndCallback, PromptDrains, InCallback
<1>11. CASE SkipFree \/ CloseIdle \/ DropFrame \/ SendLast \/ SendTimesOut \/ SendFails
  <2>1. NextSlot /\ InCallback
    BY <1>11 DEF SkipFree, CloseIdle, DropFrame, SendLast, SendTimesOut, SendFails, Visiting,
                 InCallback
  <2> QED BY <2>1 DEF NextSlot, PromptDrains, InCallback
<1>12. CASE BeginWrite
  <2>1. /\ pc = "visit" /\ slot \in Slots /\ fd[slot] \in Peers
        /\ pc' = "send" /\ left' = size /\ waited' = 0
        /\ ~WouldBeTorn(fd[slot])
        /\ UNCHANGED <<fd, slot, size, unsent, took>>
    BY <1>12 DEF BeginWrite, Visiting, table, network, SocketInv, TypeOK, Slots
  <2>2. size \in FrameSizes /\ size > 0 /\ size \in Nat
    <3>1. size \in FrameSizes
      BY <2>1 DEF PromptDrains, InCallback
    <3> QED BY <3>1
  <2>3. unsent[fd[slot]] \in Nat /\ unsent[fd[slot]] <= Backlogged(size)
    BY <2>1, <2>2 DEF WouldBeTorn, CannotTakeWhole, Backlogged, SocketInv, TypeOK
  <2>4. Backlogged(size) \in Nat
    BY <2>2 DEF Backlogged
  <2> QED BY <2>1, <2>2, <2>3, <2>4 DEF PromptDrains, InCallback
<1>13. ASSUME NEW k \in 1 .. Capacity, SendSome(k) PROVE PromptDrains'
  <2>1. /\ pc = "send" /\ k < left /\ left' = left - k /\ Reader = fd[slot]
        /\ unsent' = [unsent EXCEPT ![fd[slot]] = @ + k]
        /\ UNCHANGED <<fd, pc, slot, size, waited, took>>
        /\ fd[slot] \in Peers /\ left \in Nat /\ unsent[fd[slot]] \in Nat
        /\ unsent'[fd[slot]] = unsent[fd[slot]] + k
        /\ waited \in Nat /\ size \in Nat
    BY <1>13, SendingFacts DEF SendSome, Reader, table, SocketInv, TypeOK
  <2>2. size \in FrameSizes /\ left' > 0
    BY <2>1 DEF PromptDrains, InCallback
  <2>3. left' + unsent'[fd[slot]] = left + unsent[fd[slot]]
    BY <2>1
  <2>4. ASSUME NEW q \in Prompt, fd[slot] = q
        PROVE  waited + left' + unsent'[q] + (IF q \in took THEN 1 ELSE 0)
                 <= Backlogged(size) + size + 1
    <3>1. waited + left + unsent[q] + (IF q \in took THEN 1 ELSE 0)
            <= Backlogged(size) + size + 1
      BY <2>1, <2>4 DEF PromptDrains
    <3>2. left' \in Int /\ unsent'[q] \in Int /\ Backlogged(size) \in Int
      BY <2>1, <2>4 DEF Backlogged
    <3> QED BY <2>1, <2>3, <2>4, <3>1, <3>2
  <2> QED BY <2>1, <2>2, <2>4 DEF PromptDrains, InCallback
<1>14. CASE SendBlocked
  <2>1. /\ pc = "send" /\ pc' = "nap" /\ Reader = fd[slot] /\ Room = 0
        /\ UNCHANGED <<fd, slot, size, left, waited, unsent, took>>
        /\ unsent[fd[slot]] \in Nat
    BY <1>14, SendingFacts DEF SendBlocked, Reader, table, network
  <2>2. unsent[fd[slot]] = Capacity
    BY <2>1 DEF Room
  <2> QED BY <2>1, <2>2 DEF PromptDrains, InCallback
<1>15. CASE Readers
  <2>1. CASE \E p \in Peers : Connect(p)
    BY <1>3, <2>1 DEF Connect, table
  <2> QED BY <1>4, <1>5, <1>15, <2>1 DEF Readers
<1>16. CASE UNCHANGED vars
  BY <1>3, <1>16 DEF vars, table, network
<1> QED
  BY <1>6, <1>7, <1>8, <1>9, <1>10, <1>11, <1>12, <1>13, <1>14, <1>15, <1>16
     DEF Next, Daemon, Accepting, Writing

(* Only a write that timed out says so. *)
LEMMA NeverCutStep ==
  ASSUME PromptIsFastEnough, SocketInv, PromptDrains, PromptReaderNeverCut, [Next]_vars
  PROVE  PromptReaderNeverCut'
<1> SUFFICES ASSUME AllowDrops', NEW p \in Prompt, reason'[p] = "write timeout"
             PROVE  FALSE
  BY DEF PromptReaderNeverCut
<1>1. kind' = kind
  BY DEF Next, Daemon, Accepting, Writing, Readers, Connect, Take, Hangup, Tick, FrameReady,
    AcceptClient, NobodyWatches, EncodeFails, OfferFrame, EndCallback, SkipFree, CloseIdle,
    DropFrame, BeginWrite, SendSome, SendLast, SendBlocked, SendTimesOut, SendFails, vars
<1>2. AllowDrops /\ reason[p] # "write timeout" /\ reason' # reason
  BY <1>1 DEF AllowDrops, PromptReaderNeverCut
<1>3. CASE AcceptClient
  BY <1>2, <1>3 DEF AcceptClient, SocketInv, TypeOK
<1>4. CASE CloseIdle
  BY <1>2, <1>4 DEF CloseIdle, CloseClient, SocketInv, TypeOK
<1>5. CASE SendLast
  BY <1>2, <1>5 DEF SendLast, CloseClient, SocketInv, TypeOK
<1>6. CASE SendTimesOut
  <2>1. Reader # p
    BY <1>2, <1>6, PromptOutruns
  <2> QED BY <1>2, <1>6, <2>1 DEF SendTimesOut, CloseClient, Reader, SocketInv, TypeOK
<1>7. CASE SendFails
  BY <1>2, <1>7 DEF SendFails, CloseClient, SocketInv, TypeOK
<1>8. CASE Readers \/ Tick
  BY <1>2, <1>8 DEF Readers, Connect, Take, Hangup, Tick, history
<1>9. CASE FrameReady \/ NobodyWatches \/ EncodeFails \/ \E n \in FrameSizes : OfferFrame(n)
  BY <1>2, <1>9 DEF FrameReady, NobodyWatches, EncodeFails, OfferFrame, history
<1>10. CASE \/ EndCallback \/ SkipFree \/ DropFrame \/ BeginWrite \/ SendBlocked
            \/ \E k \in 1 .. Capacity : SendSome(k)
  BY <1>2, <1>10 DEF EndCallback, SkipFree, DropFrame, BeginWrite, SendBlocked, SendSome, history
<1>11. CASE UNCHANGED vars
  BY <1>2, <1>11 DEF vars, history
<1> QED
  BY <1>3, <1>4, <1>5, <1>6, <1>7, <1>8, <1>9, <1>10, <1>11 DEF Next, Daemon, Accepting, Writing

(* On a socket that may drop frames a reader fast enough for the write      *)
(* timeout is never cut off by it, as long as the daemon has the CPU: what  *)
(* the drop rule lets through is what such a reader can take in time        *)
(* (frame_backlog.h, sock_write_client_fd).                                 *)
THEOREM PromptReadersStay ==
  ASSUME ~Loaded, PromptIsFastEnough
  PROVE  Spec => []PromptReaderNeverCut
<1>1. Init => PromptDrains /\ PromptReaderNeverCut
  BY DEF Init, PromptDrains, PromptReaderNeverCut, InCallback
<1>2. SocketInv /\ (PromptDrains /\ PromptReaderNeverCut) /\ [Next]_vars
        => (PromptDrains /\ PromptReaderNeverCut)'
  BY PromptStep, NeverCutStep
<1> QED BY <1>1, <1>2, SocketInvariant, PTL DEF Spec

================================================================================
