--------------------------- MODULE RtspServerProofs ---------------------------
(***************************************************************************)
(* Proofs about H264Stream and RtspServer, for every connection the        *)
(* capture daemon may send, wherever the reads end, and any number of      *)
(* viewers.                                                                *)
(***************************************************************************)
EXTENDS RtspServer, WellFoundedInduction, TLAPS

-----------------------------------------------------------------------------
(* Facts about numbers, and about where NAL units begin *)

LessThan == {ss \in Nat \X Nat : ss[1] < ss[2]}

LEMMA SmallestExists ==
    ASSUME NEW S, S \subseteq Nat, S # {}
    PROVE  \E i \in S : \A j \in S : i <= j
<1>1. IsWellFoundedOn(LessThan, Nat)
    BY NatLessThanWellFounded DEF OpToRel, LessThan
<1>2. PICK i \in S : \A j \in S : ~ (<<j, i>> \in LessThan)
    BY <1>1, WFMin, Zenon
<1>3. ASSUME NEW j \in S PROVE i <= j
    <2>1. i \in Nat /\ j \in Nat /\ <<j, i>> \notin LessThan
        BY <1>2
    <2>2. ~(j < i)
        BY <2>1 DEF LessThan
    <2> QED
        BY <2>1, <2>2
<1> QED
    BY <1>3

LEMMA LeastFacts ==
    ASSUME NEW S, S \subseteq Nals
    PROVE  /\ S # {} => Least(S) \in S /\ \A j \in S : Least(S) <= j
           /\ S = {} => Least(S) = 0
<1>1. ASSUME S # {} PROVE \E i \in S : \A j \in S : i <= j
    <2>1. S \subseteq Nat
        BY DEF Nals
    <2> QED BY <1>1, <2>1, SmallestExists
<1> QED BY <1>1 DEF Least

LEMMA NalFacts ==
    /\ Len(Kinds) \in Nat /\ Total \in Nat
    /\ \A i \in Nals : i \in Nat /\ i # 0 /\ At[i] \in Nat
                       /\ Kinds[i] \in {"params", "first", "more", "aud"}
    /\ 1 \in Nals /\ At[1] = 0
    /\ MinFrame \in Nat /\ MaxFrame \in Nat /\ MinFrame >= 2 /\ MaxFrame >= MinFrame
BY StreamAssumption DEF Nals

(* NAL units are at least six bytes long. *)
LEMMA StartsAscend ==
    \A i, j \in Nals : i < j => At[i] + 6 <= At[j] /\ NalEnd(i) <= At[j]
<1> SUFFICES ASSUME NEW i \in Nals, NEW k \in Nals, i < k,
                    ~(At[i] + 6 <= At[k] /\ NalEnd(i) <= At[k])
             PROVE FALSE
    OBVIOUS
<1> DEFINE Wrong == {j \in Nals : i < j /\ ~(At[i] + 6 <= At[j] /\ NalEnd(i) <= At[j])}
<1>1. PICK j \in Wrong : \A l \in Wrong : j <= l
    <2>1. Wrong \subseteq Nat /\ Wrong # {}
        BY DEF Nals
    <2> QED BY <2>1, SmallestExists
<1>2. j - 1 \in Nals /\ i <= j - 1 /\ j - 1 < Len(Kinds)
    BY NalFacts DEF Nals
<1>3. NalEnd(j - 1) = At[j] /\ At[j - 1] + 6 <= At[j]
    <2>1. NalEnd(j - 1) = At[j]
        BY <1>2, NalFacts DEF NalEnd, Nals
    <2> QED BY <2>1, <1>2, NalFacts, StreamAssumption
<1>4. i # j - 1
    <2>1. NalEnd(i) = At[j] /\ At[i] + 6 <= At[j] => j \notin Wrong
        BY NalFacts
    <2> QED BY <1>1, <1>3, <2>1
<1>5. j - 1 \in Wrong
    <2>1. NalEnd(i) \in Nat
        BY <1>2, <1>4, NalFacts DEF NalEnd, Nals
    <2>2. At[i] \in Nat /\ At[j] \in Nat /\ At[j - 1] \in Nat /\ i < j - 1
        BY <1>2, <1>4, NalFacts
    <2>3. ~(At[i] + 6 <= At[j] /\ NalEnd(i) <= At[j])
        OBVIOUS
    <2> QED BY <1>2, <1>3, <2>1, <2>2, <2>3
<1> QED
    BY <1>1, <1>2, <1>5, NalFacts

LEMMA OrderFacts ==
    ASSUME NEW j \in Nals, NEW k \in Nals, At[j] < At[k] + 6
    PROVE  j <= k
<1>1. j \in Nat /\ k \in Nat /\ At[j] \in Nat /\ At[k] \in Nat
    BY NalFacts
<1>2. ~(k < j)
    <2>1. k < j => At[k] + 6 <= At[j]
        BY StartsAscend
    <2> QED BY <2>1, <1>1
<1> QED BY <1>1, <1>2

LEMMA EndFacts ==
    \A i \in Nals : /\ NalEnd(i) \in Nat /\ NalEnd(i) >= At[i] + 6 /\ NalEnd(i) <= Total
                    /\ Kinds[i] = "aud" => NalEnd(i) = At[i] + 6
                    /\ i # Len(Kinds) => i + 1 \in Nals /\ At[i + 1] = NalEnd(i)
                    /\ i = Len(Kinds) => NalEnd(i) = Total
<1> TAKE i \in Nals
<1>1. /\ i # Len(Kinds) => i + 1 \in Nals /\ At[i + 1] = NalEnd(i)
      /\ i = Len(Kinds) => NalEnd(i) = Total
    BY NalFacts DEF NalEnd, Nals
<1>2. NalEnd(i) \in Nat
    BY <1>1, NalFacts
<1>3. NalEnd(i) >= At[i] + 6 /\ (Kinds[i] = "aud" => NalEnd(i) = At[i] + 6)
    BY <1>2, NalFacts, StreamAssumption
<1>4. NalEnd(i) <= Total
    <2>1. CASE i = Len(Kinds)
        BY <2>1, <1>1, <1>2
    <2>2. CASE i # Len(Kinds)
        <3> DEFINE last == Len(Kinds)
        <3>1. last \in Nals /\ i < last
            BY <2>2, NalFacts DEF Nals
        <3>2. NalEnd(i) <= At[last]
            BY <3>1, StartsAscend
        <3>3. At[last] <= Total
            <4>1. NalEnd(last) = Total
                BY DEF NalEnd
            <4>2. NalEnd(last) >= At[last] + 6
                BY <3>1, <4>1, NalFacts, StreamAssumption
            <4> QED BY <4>1, <4>2, <3>1, NalFacts
        <3> QED BY <1>2, <3>1, <3>2, <3>3, NalFacts
    <2> QED BY <2>1, <2>2
<1> QED
    BY <1>1, <1>2, <1>3, <1>4

-----------------------------------------------------------------------------
(* What the two searches of the loop return *)

LEMMA FindFacts ==
    ASSUME NEW d, NEW t, NEW i, i = FindNal(d, t)
    PROVE  /\ i # 0 => /\ i \in Nals /\ At[i] >= d /\ t > At[i] + 4
                       /\ \A j \in Nals : At[j] >= d /\ t > At[j] + 4 => i <= j
           /\ i = 0 => \A j \in Nals : ~(At[j] >= d /\ t > At[j] + 4)
<1> DEFINE S == {j \in Nals : At[j] >= d /\ t > At[j] + 4}
<1>1. i = Least(S)
    BY DEF FindNal
<1>2. S \subseteq Nals
    OBVIOUS
<1> HIDE DEF S
<1>3. (S # {} => i \in S /\ \A j \in S : i <= j) /\ (S = {} => i = 0)
    BY <1>1, <1>2, LeastFacts
<1>4. i # 0 => S # {}
    BY <1>3
<1>5. i = 0 => S = {}
    BY <1>2, <1>3, NalFacts
<1> QED
    BY <1>3, <1>4, <1>5 DEF S

LEMMA CutFacts ==
    ASSUME NEW i, NEW t, NEW j, j = CutOf(i, t)
    PROVE  /\ j # 0 => /\ j \in Nals /\ j > i /\ t > At[j] + 4
                       /\ \/ IsAud(j, t)
                          \/ /\ IsNewFrame(j, t)
                             /\ \E k \in (i + 1)..(j - 1) : IsNewFrame(k, t)
           /\ j = 0 => \A k \in Nals : k > i => ~IsAud(k, t)
<1> DEFINE Cut(k) == \/ IsAud(k, t)
                     \/ /\ IsNewFrame(k, t)
                        /\ \E l \in (i + 1)..(k - 1) : IsNewFrame(l, t)
           S == {k \in Nals : k > i /\ t > At[k] + 4 /\ Cut(k)}
<1>1. j = Least(S)
    BY DEF CutOf
<1>2. S \subseteq Nals
    OBVIOUS
<1> HIDE DEF S
<1>3. (S # {} => j \in S) /\ (S = {} => j = 0)
    BY <1>1, <1>2, LeastFacts
<1>4. j # 0 => j \in S
    BY <1>3
<1>5. j = 0 => S = {}
    BY <1>2, <1>3, NalFacts
<1>6. \A k \in Nals : k > i /\ IsAud(k, t) => k \in S
    BY NalFacts DEF IsAud, S
<1> QED
    BY <1>4, <1>5, <1>6 DEF S

-----------------------------------------------------------------------------
(* The buffer *)

StreamInv == StreamTypeOK /\ NeededIsKept /\ DrainedAtDelimiter /\ InStep

StreamStep ==
    Fresh \/ (\E n \in Reads : Read(n)) \/ StoreUnit \/ SplitEnds \/ UNCHANGED streamVars

(* The unit that is stored begins where the loop is or behind it, and not      *)
(* behind what is needed.                                                      *)
LEMMA StoreFacts ==
    ASSUME StreamTypeOK, NeededIsKept, StoreUnit,
           NEW i, NEW j, i = NextUnit[1], j = NextUnit[2]
    PROVE  /\ i \in Nals /\ j \in Nals /\ i < j
           /\ data <= At[i] /\ At[i] <= need /\ At[i] + 6 <= At[j]
           /\ At[j] + 4 < to
           /\ data' = At[j] /\ need' = (IF At[j] > need THEN At[j] ELSE need)
           /\ \A k \in Nals : At[k] >= data /\ to > At[k] + 4 => i <= k
           /\ \/ IsAud(j, to)
              \/ IsNewFrame(j, to) /\ \E k \in (i + 1)..(j - 1) : IsNewFrame(k, to)
<1>1. i = FindNal(data, to) /\ j = (IF i = 0 THEN 0 ELSE CutOf(i, to)) /\ j # 0
    BY DEF NextUnit, StoreUnit
<1>2. /\ i \in Nals /\ At[i] >= data /\ to > At[i] + 4
      /\ \A k \in Nals : At[k] >= data /\ to > At[k] + 4 => i <= k
    BY <1>1, FindFacts
<1>3. /\ j \in Nals /\ j > i /\ to > At[j] + 4
      /\ \/ IsAud(j, to)
         \/ IsNewFrame(j, to) /\ \E k \in (i + 1)..(j - 1) : IsNewFrame(k, to)
    BY <1>1, CutFacts
<1>4. data' = At[j] /\ need' = (IF At[j] > need THEN At[j] ELSE need)
    BY DEF StoreUnit
<1>5. At[i] + 6 <= At[j]
    BY <1>2, <1>3, StartsAscend, NalFacts
<1>6. At[i] <= need
    <2>1. to \in Nat /\ to <= Total /\ need \in Nat /\ data \in Nat
        BY NalFacts DEF StreamTypeOK
    <2>2. CASE need = Total
        BY <2>1, <2>2, <1>2, NalFacts
    <2>3. ASSUME NEW k \in Nals, need = At[k] PROVE At[i] <= need
        <3>1. data <= need
            BY DEF NeededIsKept, StoreUnit
        <3>2. CASE to > At[k] + 4
            <4>1. i <= k
                BY <3>1, <3>2, <2>3, <1>2
            <4> QED BY <4>1, <2>3, <1>2, StartsAscend, NalFacts
        <3>3. CASE ~(to > At[k] + 4)
            BY <3>3, <2>1, <2>3, <1>2, NalFacts
        <3> QED BY <3>2, <3>3
    <2> QED BY <2>2, <2>3 DEF NeededIsKept
<1> QED
    BY <1>2, <1>3, <1>4, <1>5, <1>6, NalFacts

LEMMA InitStream == StreamInit => StreamInv
<1> SUFFICES ASSUME StreamInit PROVE StreamInv
    OBVIOUS
<1>1. StreamTypeOK
    <2>1. splitting \in BOOLEAN /\ late \in BOOLEAN
        BY DEF StreamInit
    <2> QED BY <2>1, NalFacts DEF StreamInit, StreamTypeOK
<1>2. NeededIsKept
    BY NalFacts DEF StreamInit, NeededIsKept, NoNalIn
<1>3. DrainedAtDelimiter
    BY NalFacts, EndFacts DEF StreamInit, DrainedAtDelimiter
<1>4. InStep
    <2>1. NoNalIn(from, need)
        BY NalFacts DEF StreamInit, NoNalIn
    <2>2. \A j \in Nals : NalEnd(j) > to
        BY NalFacts, EndFacts DEF StreamInit
    <2>3. need = At[1] /\ AtSeam(1) /\ ~splitting
        BY NalFacts DEF StreamInit, AtSeam
    <2> QED BY <2>1, <2>2, <2>3, NalFacts DEF InStep
<1> QED
    BY <1>1, <1>2, <1>3, <1>4 DEF StreamInv

(* A new connection begins as the first one did. *)
LEMMA FreshStream == Fresh => StreamInv'
<1> SUFFICES ASSUME Fresh PROVE StreamInv'
    OBVIOUS
<1>1. StreamTypeOK'
    <2>1. splitting' \in BOOLEAN /\ late' \in BOOLEAN
        BY DEF Fresh
    <2> QED BY <2>1, NalFacts DEF Fresh, StreamTypeOK
<1>2. NeededIsKept'
    BY NalFacts DEF Fresh, NeededIsKept, NoNalIn
<1>3. DrainedAtDelimiter'
    BY NalFacts, EndFacts DEF Fresh, DrainedAtDelimiter
<1>4. InStep'
    <2>1. NoNalIn(from, need)'
        BY NalFacts DEF Fresh, NoNalIn
    <2>2. \A j \in Nals : NalEnd(j) > to'
        BY NalFacts, EndFacts DEF Fresh
    <2>3. need' = At[1] /\ AtSeam(1) /\ ~splitting'
        BY NalFacts DEF Fresh, AtSeam
    <2> QED BY <2>1, <2>2, <2>3, NalFacts DEF InStep
<1> QED
    BY <1>1, <1>2, <1>3, <1>4 DEF StreamInv

(* A read moves the end of the buffer, and lets its start alone unless the     *)
(* buffer overflowed; then nothing that is kept was needed before.             *)
LEMMA ReadStream ==
    ASSUME StreamInv, NEW n \in Reads, Read(n)
    PROVE  StreamInv'
<1>1. n \in Nat /\ n > 0
    BY RtspAssumption
<1>2. /\ from \in Nat /\ to \in Nat /\ cap \in Nat /\ need \in Nat
      /\ from <= to /\ to <= Total /\ need <= Total /\ Total \in Nat
    BY NalFacts DEF StreamInv, StreamTypeOK
<1>3. /\ to' = to + n /\ to' <= Total /\ splitting' = TRUE /\ data' = from' /\ cap' = Grown
      /\ from' = (IF Overflows THEN to ELSE from) /\ n <= Room /\ ~splitting
      /\ late' = (late \/ Overflows \/ Misleads(to, to'))
    BY DEF Read
<1> DEFINE Later == {i \in Nals : At[i] >= to}
<1>4. /\ ~Overflows => need' = need
      /\ Overflows /\ Later # {} => need' = At[Least(Later)] /\ Least(Later) \in Nals
                                    /\ At[Least(Later)] >= to
                                    /\ \A i \in Nals : At[i] >= to => At[Least(Later)] <= At[i]
      /\ Overflows /\ Later = {} => need' = Total
    <2>1. /\ Later # {} => Least(Later) \in Later /\ \A j \in Later : Least(Later) <= j
        BY LeastFacts
    <2>2. need' = (IF ~Overflows THEN need
                   ELSE IF \E i \in Nals : At[i] >= to THEN At[Least(Later)] ELSE Total)
        BY DEF Read
    <2>3. ASSUME Later # {}, NEW i \in Nals, At[i] >= to PROVE At[Least(Later)] <= At[i]
        <3>1. Least(Later) \in Nals /\ Least(Later) <= i
            BY <2>1, <2>3
        <3> QED BY <3>1, StartsAscend, NalFacts
    <2> QED BY <2>1, <2>2, <2>3
<1>5. need' \in Nat /\ need' <= Total
    <2>1. \A i \in Nals : At[i] \in Nat /\ At[i] <= Total
        BY NalFacts, EndFacts
    <2> QED BY <1>2, <1>4, <2>1
<1>6. StreamTypeOK'
    <2>1. splitting' \in BOOLEAN /\ late' \in BOOLEAN
        BY <1>3 DEF StreamInv, StreamTypeOK
    <2>2. cap' \in Nat /\ (IF Overflows THEN 0 ELSE to - from) + n <= cap'
        <3>1. cap' \in Nat
            BY <1>2, <1>3, NalFacts DEF Grown
        <3> QED BY <1>1, <1>2, <1>3, <3>1 DEF Room
    <2>3. from' \in 0..to' /\ to' \in 0..Total /\ data' \in 0..to' /\ to' - from' <= cap'
        BY <1>1, <1>2, <1>3, <2>2
    <2>4. need' \in 0..Total /\ cap' \in Nat
        BY <1>2, <1>5, <2>2
    <2> QED BY <2>1, <2>3, <2>4, Zenon DEF StreamTypeOK
<1>7. NeededIsKept'
    <2>1. need' = Total \/ \E i \in Nals : need' = At[i]
        BY <1>4 DEF StreamInv, NeededIsKept
    <2>2. from' <= need'
        BY <1>2, <1>3, <1>4, NalFacts DEF StreamInv, NeededIsKept
    <2>3. need' + 4 < to' \/ NoNalIn(from', need')
        <3>1. CASE ~Overflows
            BY <3>1, <1>1, <1>2, <1>3, <1>4 DEF StreamInv, NeededIsKept
        <3>2. CASE Overflows
            <4>1. ASSUME NEW i \in Nals, to <= At[i] PROVE need' <= At[i]
                BY <3>2, <4>1, <1>4
            <4> QED BY <3>2, <4>1, <1>3, <1>5, NalFacts DEF NoNalIn
        <3> QED BY <3>1, <3>2
    <2>4. from' <= data' /\ data' <= need' /\ data' = from'
        BY <2>2, <1>2, <1>3
    <2> QED BY <2>1, <2>2, <2>3, <2>4 DEF NeededIsKept, NoNalIn
<1>8. DrainedAtDelimiter'
    BY <1>3 DEF DrainedAtDelimiter
<1>9. InStep'
    <2> SUFFICES ASSUME ~late' PROVE InStep'
        BY DEF InStep
    <2>1. ~late /\ ~Overflows /\ ~Misleads(to, to') /\ from' = from /\ need' = need
        BY <1>3, <1>4
    <2>2. to # Total
        BY <1>1, <1>2, <1>3
    <2>3. PICK i \in Nals :
              /\ need = At[i] /\ AtSeam(i) /\ NoNalIn(from, need)
              /\ \A j \in Nals : j > i /\ Kinds[j] = "aud" => NalEnd(j) > to
        BY <2>1, <2>2, <1>3 DEF StreamInv, InStep
    <2>4. ASSUME NEW j \in Nals, j > i, Kinds[j] = "aud"
          PROVE  NalEnd(j) > to' \/ NalEnd(j) = to'
        <3>1. NalEnd(j) > to /\ NalEnd(j) \in Nat
            BY <2>3, <2>4, EndFacts
        <3>2. ~(to < NalEnd(j) /\ NalEnd(j) < to')
            BY <2>1, <2>4 DEF Misleads
        <3> QED BY <3>1, <3>2, <1>1, <1>2, <1>3
    <2>5. \A j \in Nals : Kinds[j] = "more" => to' # At[j] + 5
        BY <2>1 DEF Misleads
    <2>6. NoNalIn(from', need')
        BY <2>1, <2>3 DEF NoNalIn
    <2> QED BY <2>1, <2>3, <2>4, <2>5, <2>6, <1>3 DEF InStep, NoNalIn
<1> QED
    BY <1>6, <1>7, <1>8, <1>9 DEF StreamInv

(* While no read misleads, the unit begins with what is needed and ends with   *)
(* the buffer's last NAL unit, the only delimiter behind its beginning.        *)
LEMMA StoresOnePicture ==
    ASSUME StreamInv, StoreUnit, ~late,
           NEW i, NEW j, i = NextUnit[1], j = NextUnit[2]
    PROVE  /\ i \in Nals /\ j \in Nals /\ i < j
           /\ At[i] = need /\ AtSeam(i)
           /\ Kinds[j] = "aud" /\ to = NalEnd(j)
           /\ \A m \in (i + 1)..(j - 1) : Kinds[m] # "aud"
<1>1. /\ i \in Nals /\ j \in Nals /\ i < j
      /\ data <= At[i] /\ At[i] <= need /\ At[j] + 4 < to
      /\ \/ IsAud(j, to)
         \/ IsNewFrame(j, to) /\ \E k \in (i + 1)..(j - 1) : IsNewFrame(k, to)
    BY StoreFacts DEF StreamInv
<1>2. splitting /\ to \in Nat /\ data \in Nat /\ from \in Nat /\ from <= data /\ ~(to < data + 8)
    BY NalFacts DEF StreamInv, StreamTypeOK, NeededIsKept, StoreUnit, LongEnough
<1>3. PICK k \in Nals :
          /\ need = At[k] /\ AtSeam(k) /\ NoNalIn(from, need)
          /\ \A m \in Nals : m > k /\ Kinds[m] = "aud" => NalEnd(m) > to \/ NalEnd(m) = to
          /\ \A m \in Nals : Kinds[m] = "more" => to # At[m] + 5
    BY <1>2 DEF StreamInv, InStep
<1>4. i = k
    <2>1. At[i] = At[k]
        BY <1>1, <1>2, <1>3, NalFacts DEF NoNalIn
    <2>2. At[i] \in Nat /\ At[k] \in Nat /\ i \in Nat /\ k \in Nat
        BY <1>1, <1>3, NalFacts
    <2>3. i <= k /\ k <= i
        BY <2>1, <2>2, <1>1, <1>3, OrderFacts
    <2> QED BY <2>2, <2>3
<1>5. ASSUME NEW m \in Nals, i < m, m < j PROVE Kinds[m] # "aud"
    <2>1. NalEnd(m) <= At[j] /\ NalEnd(m) \in Nat /\ At[j] \in Nat
        BY <1>1, <1>5, StartsAscend, EndFacts, NalFacts
    <2> QED BY <2>1, <1>1, <1>2, <1>3, <1>4, <1>5
<1>6. IsAud(j, to)
    <2> SUFFICES ASSUME IsNewFrame(j, to), NEW l \in (i + 1)..(j - 1), IsNewFrame(l, to)
                 PROVE FALSE
        BY <1>1
    <2>1. l \in Nals /\ i < l /\ l < j
        BY <1>1, NalFacts DEF Nals
    <2>2. Kinds[l] = "first"
        <3>1. At[l] + 6 <= At[j] /\ At[l] \in Nat /\ At[j] \in Nat
            BY <1>1, <2>1, StartsAscend, NalFacts
        <3> QED BY <3>1, <1>1, <1>2 DEF IsNewFrame
    <2>3. Kinds[j] = "first"
        <3>1. Kinds[j] = "more" => to # At[j] + 5
            BY <1>1, <1>3
        <3>2. At[j] \in Nat /\ to > At[j] + 4
            BY <1>1, <1>2, NalFacts
        <3> QED BY <3>1, <3>2, <1>2 DEF IsNewFrame
    <2>4. PICK m \in l..j : Kinds[m] = "aud"
        BY <2>1, <2>2, <2>3, <1>1, StreamAssumption
    <2>5. m \in Nals /\ m # l /\ m # j
        BY <1>1, <2>1, <2>2, <2>3, <2>4, NalFacts DEF Nals
    <2>6. i < m /\ m < j
        <3>1. i \in Nat /\ l \in Nat /\ j \in Nat /\ m \in Nat
            BY <1>1, <2>1, <2>5, NalFacts
        <3> QED BY <3>1, <2>1, <2>4, <2>5
    <2> QED BY <1>5, <2>4, <2>5, <2>6
<1>7. Kinds[j] = "aud" /\ to = NalEnd(j)
    BY <1>1, <1>6, EndFacts DEF IsAud
<1>8. \A m \in (i + 1)..(j - 1) : m \in Nals /\ i < m /\ m < j
    BY <1>1, NalFacts DEF Nals
<1> QED
    BY <1>1, <1>3, <1>4, <1>5, <1>7, <1>8

LEMMA StoreStream ==
    ASSUME StreamInv, StoreUnit
    PROVE  StreamInv'
<1> DEFINE i == NextUnit[1]
           j == NextUnit[2]
<1> HIDE DEF i, j
<1>1. /\ i \in Nals /\ j \in Nals /\ i < j
      /\ data <= At[i] /\ At[i] <= need /\ At[i] + 6 <= At[j] /\ At[j] + 4 < to
      /\ data' = At[j] /\ need' = (IF At[j] > need THEN At[j] ELSE need)
    BY StoreFacts DEF i, j, StreamInv
<1>2. splitting /\ UNCHANGED <<from, to, cap, splitting, late>>
    BY DEF StoreUnit
<1>3. /\ from \in Nat /\ to \in Nat /\ need \in Nat /\ data \in Nat
      /\ to <= Total /\ need <= Total /\ Total \in Nat
      /\ At[i] \in Nat /\ At[j] \in Nat
    BY <1>1, NalFacts DEF StreamInv, StreamTypeOK
<1>4. StreamTypeOK'
    <2>1. data' \in 0..to' /\ need' \in 0..Total
        BY <1>1, <1>2, <1>3
    <2> QED BY <2>1, <1>2, Zenon DEF StreamInv, StreamTypeOK
<1>5. NeededIsKept'
    <2>1. need' = Total \/ \E k \in Nals : need' = At[k]
        BY <1>1 DEF StreamInv, NeededIsKept
    <2>2. from <= data /\ from <= need
        BY <1>2 DEF StreamInv, NeededIsKept
    <2>3. from <= need' /\ from <= data' /\ data' <= need'
        BY <1>1, <1>3, <2>2
    <2>4. need' + 4 < to \/ NoNalIn(from, need')
        BY <1>1, <1>3 DEF StreamInv, NeededIsKept
    <2> QED BY <1>1, <1>2, <2>1, <2>3, <2>4 DEF NeededIsKept, NoNalIn
<1>6. DrainedAtDelimiter'
    BY <1>2 DEF DrainedAtDelimiter
<1>7. InStep'
    <2> SUFFICES ASSUME ~late PROVE InStep'
        BY <1>2 DEF InStep
    <2>1. At[i] = need /\ Kinds[j] = "aud" /\ to = NalEnd(j)
        BY StoresOnePicture DEF i, j
    <2>2. need' = At[j] /\ data' = At[j] /\ AtSeam(j)
        BY <2>1, <1>1, <1>3 DEF AtSeam
    <2>3. to = At[j] + 6 /\ to' < data' + 8
        BY <1>1, <1>2, <1>3, <2>1, <2>2, EndFacts
    <2>4. NoNalIn(data', need')
        <3>1. \A m \in Nals : ~(At[j] <= At[m] /\ At[m] < At[j])
            BY <1>3, NalFacts
        <3> QED BY <3>1, <2>2 DEF NoNalIn
    <2>5. ASSUME NEW m \in Nals, m > j PROVE NalEnd(m) > to'
        <3>1. At[j] + 6 <= At[m] /\ NalEnd(m) >= At[m] + 6 /\ NalEnd(m) \in Nat /\ At[m] \in Nat
            BY <1>1, <2>5, StartsAscend, EndFacts, NalFacts
        <3> QED BY <3>1, <2>3, <1>2, <1>3
    <2>6. \A m \in Nals : Kinds[m] = "more" => to' # At[m] + 5
        <3>1. to # Total \/ splitting
            BY <1>2
        <3> QED BY <1>2, <3>1 DEF StreamInv, InStep
    <2> QED BY <1>1, <1>2, <2>2, <2>3, <2>4, <2>5, <2>6 DEF InStep, NoNalIn
<1> QED
    BY <1>4, <1>5, <1>6, <1>7 DEF StreamInv

(* What leaves the buffer when the loop ends had been stored; and when a       *)
(* delimiter is the last thing read, all before it had.                        *)
LEMMA SplitStream ==
    ASSUME StreamInv, SplitEnds
    PROVE  StreamInv'
<1> DEFINE i == NextUnit[1]
           null == LongEnough /\ i # 0
<1>1. /\ from \in Nat /\ to \in Nat /\ need \in Nat /\ data \in Nat /\ cap \in Nat
      /\ from <= data /\ data <= to /\ to <= Total /\ need <= Total /\ Total \in Nat
      /\ from <= need /\ data <= need /\ to - from <= cap
    BY NalFacts DEF StreamInv, StreamTypeOK, NeededIsKept, SplitEnds
<1>2. /\ splitting /\ splitting' = FALSE /\ data' = 0 /\ to' = to /\ need' = need
      /\ from' = (IF null THEN from ELSE Kept)
      /\ Kept = (IF LongEnough THEN to - 4 ELSE data)
      /\ cap' = (IF ~null /\ cap > MinFrame THEN to - Kept + MinFrame ELSE cap)
      /\ late' = (late /\ \A k \in Nals : Kinds[k] = "aud" => to # NalEnd(k))
      /\ LongEnough <=> to - data >= 8
    BY DEF SplitEnds, Kept, LongEnough
<1>3. /\ i # 0 => /\ i \in Nals /\ At[i] >= data /\ to > At[i] + 4
                  /\ \A m \in Nals : At[m] >= data /\ to > At[m] + 4 => i <= m
      /\ i = 0 => \A m \in Nals : ~(At[m] >= data /\ to > At[m] + 4)
    <2>1. i = FindNal(data, to)
        BY DEF NextUnit
    <2> QED BY <2>1, FindFacts
<1>4. null => \A m \in Nals : m > i => ~IsAud(m, to)
    <2>1. null => CutOf(i, to) = 0
        BY DEF NextUnit, SplitEnds
    <2> QED BY <2>1, CutFacts
<1> HIDE DEF i
<1>5. need = Total \/ \E k \in Nals : need = At[k]
    BY DEF StreamInv, NeededIsKept
<1>6. from <= from' /\ from' <= to /\ from' <= need /\ from' \in Nat
    <2>1. CASE null \/ ~LongEnough
        BY <2>1, <1>1, <1>2
    <2>2. CASE LongEnough /\ i = 0
        <3>1. \A k \in Nals : need = At[k] => to <= need + 4
            BY <2>2, <1>1, <1>3
        <3>2. to <= need + 4
            BY <3>1, <1>1, <1>5
        <3> QED BY <3>2, <2>2, <1>1, <1>2
    <2> QED BY <2>1, <2>2
<1>7. StreamTypeOK'
    <2>1. splitting' \in BOOLEAN /\ late' \in BOOLEAN
        BY <1>2
    <2>2. cap' \in Nat /\ to' - from' <= cap'
        BY <1>1, <1>2, <1>6, NalFacts
    <2>3. from' \in 0..to' /\ to' \in 0..Total /\ data' \in 0..to' /\ need' \in 0..Total
        BY <1>1, <1>2, <1>6
    <2> QED BY <2>1, <2>2, <2>3, Zenon DEF StreamTypeOK
<1>8. NeededIsKept'
    <2>1. NoNalIn(from, need) => NoNalIn(from', need)
        BY <1>1, <1>6, NalFacts DEF NoNalIn
    <2>2. need + 4 < to \/ NoNalIn(from', need)
        BY <2>1 DEF StreamInv, NeededIsKept
    <2> QED BY <2>2, <1>2, <1>5, <1>6 DEF NeededIsKept, NoNalIn
<1>9. ASSUME NEW a \in Nals, Kinds[a] = "aud", to = NalEnd(a)
      PROVE  /\ to = At[a] + 6 /\ IsAud(a, to) /\ At[a] \in Nat /\ a \in Nat
             /\ need >= At[a]
             /\ LongEnough => i = a
    <2>1. to = At[a] + 6 /\ IsAud(a, to) /\ At[a] \in Nat /\ a \in Nat
        BY <1>9, EndFacts, NalFacts DEF IsAud
    <2>2. LongEnough => i = a
        <3> SUFFICES ASSUME LongEnough PROVE i = a
            OBVIOUS
        <3>1. At[a] >= data /\ to > At[a] + 4
            BY <2>1, <1>1, <1>2
        <3>2. i # 0 /\ i <= a /\ i \in Nat
            BY <3>1, <1>3, NalFacts
        <3>3. ~(a > i)
            BY <3>2, <2>1, <1>4
        <3> QED BY <3>2, <3>3, <2>1
    <2>3. need >= At[a]
        <3> SUFFICES ASSUME need < At[a] PROVE FALSE
            BY <2>1, <1>1
        <3>1. PICK k \in Nals : need = At[k]
            BY <2>1, <1>1, <1>5
        <3>2. k \in Nat /\ ~(a < k) /\ a # k
            <4>1. k \in Nat /\ At[k] \in Nat /\ At[a] \in Nat
                BY NalFacts
            <4>2. At[k] < At[a] + 6 /\ At[k] # At[a]
                BY <3>1, <4>1
            <4> QED BY <4>1, <4>2, <2>1, OrderFacts
        <3>3. k < a /\ At[k] + 6 <= At[a]
            BY <3>2, <2>1, StartsAscend
        <3>4. LongEnough
            BY <3>1, <3>3, <2>1, <1>1, <1>2
        <3>5. i <= k
            <4>1. At[k] >= data /\ to > At[k] + 4
                BY <3>1, <3>3, <2>1, <1>1
            <4>2. i # 0
                BY <3>4, <2>2, NalFacts
            <4> QED BY <4>1, <4>2, <1>3
        <3> QED BY <3>3, <3>4, <3>5, <2>1, <2>2
    <2> QED BY <2>1, <2>2, <2>3
<1>10. DrainedAtDelimiter'
    BY <1>2, <1>9 DEF DrainedAtDelimiter
<1>11. ASSUME ~late, \A k \in Nals : Kinds[k] = "aud" => to # NalEnd(k)
       PROVE  InStep'
    <2>1. PICK k \in Nals :
              /\ need = At[k] /\ AtSeam(k)
              /\ NoNalIn(from, need) \/ (to < data + 8 /\ NoNalIn(data, need))
              /\ \A j \in Nals : j > k /\ Kinds[j] = "aud" => NalEnd(j) > to \/ NalEnd(j) = to
        BY <1>2, <1>11 DEF StreamInv, InStep
    <2>2. NoNalIn(from', need)
        <3>1. CASE NoNalIn(from, need)
            BY <3>1, <1>1, <1>6, NalFacts DEF NoNalIn
        <3>2. CASE to < data + 8 /\ NoNalIn(data, need)
            <4>1. from' = data
                BY <3>2, <1>1, <1>2
            <4> QED BY <3>2, <4>1
        <3> QED BY <2>1, <3>1, <3>2
    <2>3. \A j \in Nals : j > k /\ Kinds[j] = "aud" => NalEnd(j) > to
        BY <2>1, <1>11
    <2> QED BY <2>1, <2>2, <2>3, <1>2 DEF InStep, NoNalIn
<1>12. ASSUME NEW a \in Nals, Kinds[a] = "aud", to = NalEnd(a)
       PROVE  InStep'
    <2>1. /\ to = At[a] + 6 /\ IsAud(a, to) /\ At[a] \in Nat /\ a \in Nat /\ need >= At[a]
          /\ LongEnough => i = a
        BY <1>9, <1>12
    <2>2. ASSUME NEW j \in Nals, j > a PROVE NalEnd(j) > to
        <3>1. At[a] + 6 <= At[j] /\ NalEnd(j) >= At[j] + 6 /\ NalEnd(j) \in Nat /\ At[j] \in Nat
            BY <2>2, StartsAscend, EndFacts, NalFacts
        <3> QED BY <3>1, <2>1
    <2>3. CASE need + 4 < to
        <3>1. PICK k \in Nals : need = At[k]
            BY <2>3, <1>1, <1>5
        <3>2. k = a
            <4>1. k \in Nat /\ ~(k < a) /\ ~(a < k)
                <5>1. k \in Nat /\ At[k] \in Nat
                    BY NalFacts
                <5>2. At[k] < At[a] + 6 /\ At[a] < At[k] + 6
                    BY <3>1, <5>1, <2>1, <2>3
                <5> QED BY <5>1, <5>2, <2>1, OrderFacts
            <4> QED BY <4>1, <2>1
        <3>3. NoNalIn(from', need)
            <4> SUFFICES ASSUME NEW m \in Nals, from' <= At[m], At[m] < At[a] PROVE FALSE
                BY <3>1, <3>2 DEF NoNalIn
            <4>1. m < a /\ At[m] + 6 <= At[a] /\ At[m] \in Nat /\ m \in Nat
                <5>1. m \in Nat /\ At[m] \in Nat /\ m # a /\ ~(a < m)
                    BY <2>1, StartsAscend, NalFacts
                <5> QED BY <5>1, <2>1, StartsAscend
            <4>2. CASE ~LongEnough
                BY <4>1, <4>2, <2>1, <1>1, <1>2
            <4>3. CASE LongEnough
                <5>1. i = a /\ i # 0 /\ from' = from
                    BY <4>3, <2>1, <1>2, NalFacts
                <5>2. data = from
                    <6>1. ASSUME NEW j \in Nals, data = At[j] PROVE FALSE
                        <7>1. At[j] + 8 <= to /\ At[j] \in Nat /\ j \in Nat
                            BY <6>1, <4>3, <1>1, <1>2, NalFacts
                        <7>2. a <= j
                            BY <6>1, <7>1, <5>1, <1>1, <1>3
                        <7>3. At[a] <= At[j]
                            BY <7>1, <7>2, <2>1, StartsAscend
                        <7> QED BY <7>1, <7>3, <2>1, <1>1
                    <6> QED BY <6>1, <1>2 DEF StreamInv, NeededIsKept
                <5>3. At[m] >= data /\ to > At[m] + 4
                    BY <4>1, <5>1, <5>2, <2>1, <1>1
                <5>4. a <= m
                    BY <5>1, <5>3, <1>3
                <5> QED BY <5>4, <4>1, <2>1
            <4> QED BY <4>2, <4>3
        <3>4. AtSeam(a)
            BY <1>12 DEF AtSeam
        <3> QED BY <3>1, <3>2, <3>3, <3>4, <2>2, <1>2 DEF InStep, NoNalIn
    <2>4. CASE ~(need + 4 < to)
        <3>1. NoNalIn(from, need)
            BY <2>4 DEF StreamInv, NeededIsKept
        <3>2. NoNalIn(from', need)
            BY <3>1, <1>1, <1>6, NalFacts DEF NoNalIn
        <3>3. CASE to = Total
            BY <3>3, <1>2 DEF InStep
        <3>4. CASE to # Total
            <4>1. a + 1 \in Nals /\ At[a + 1] = to
                BY <3>4, <1>12, EndFacts
            <4>2. need <= to
                BY <3>1, <4>1, <1>1 DEF NoNalIn
            <4>3. PICK k \in Nals : need = At[k]
                BY <3>4, <4>2, <1>1, <1>5
            <4>4. k = a + 1
                <5>1. k \in Nat /\ At[k] \in Nat /\ At[k] >= At[a] + 2 /\ At[k] <= At[a + 1]
                    <6>1. k \in Nat /\ At[k] \in Nat
                        BY <4>3, NalFacts
                    <6>2. At[k] >= At[a] + 2 /\ At[k] <= to
                        BY <2>1, <2>4, <4>2, <4>3, <1>1
                    <6> QED BY <6>1, <6>2, <4>1
                <5>2. ~(k < a) /\ k # a /\ ~(a + 1 < k)
                    <6>1. At[a] < At[k] + 6 /\ At[a] # At[k] /\ At[k] < At[a + 1] + 6
                        BY <5>1, <4>1, <2>1, NalFacts
                    <6>2. a <= k /\ k <= a + 1
                        BY <6>1, <4>1, <4>3, OrderFacts
                    <6> QED BY <6>1, <6>2, <5>1, <2>1
                <5> QED BY <5>1, <5>2, <2>1
            <4>5. AtSeam(k)
                <5>1. k - 1 = a
                    BY <4>4, <2>1
                <5> QED BY <5>1, <1>12 DEF AtSeam
            <4>6. \A j \in Nals : j > k => NalEnd(j) > to
                BY <4>4, <2>1, <2>2, NalFacts
            <4> QED BY <3>2, <4>3, <4>5, <4>6, <1>2 DEF InStep, NoNalIn
        <3> QED BY <3>3, <3>4
    <2> QED BY <2>3, <2>4
<1>13. InStep'
    <2>1. late' \/ ~late \/ \E a \in Nals : Kinds[a] = "aud" /\ to = NalEnd(a)
        BY <1>2
    <2>2. late' => InStep'
        BY DEF InStep
    <2> QED BY <2>1, <2>2, <1>11, <1>12
<1> QED
    BY <1>7, <1>8, <1>10, <1>13 DEF StreamInv

LEMMA StreamStepInv == StreamInv /\ StreamStep => StreamInv'
<1> SUFFICES ASSUME StreamInv, StreamStep PROVE StreamInv'
    OBVIOUS
<1>1. CASE UNCHANGED streamVars
    BY <1>1 DEF StreamInv, StreamTypeOK, NeededIsKept, NoNalIn, DrainedAtDelimiter, InStep,
       streamVars, bufferVars
<1> QED
    BY <1>1, FreshStream, ReadStream, StoreStream, SplitStream DEF StreamStep

-----------------------------------------------------------------------------
(* The server around the buffer *)

(* Whatever the server does, the buffer sees a read, a round of the loop, its  *)
(* end, a new connection, or nothing.                                          *)
LEMMA StepIsStreamStep == [Next]_vars => StreamStep
<1> SUFFICES ASSUME [Next]_vars PROVE StreamStep
    OBVIOUS
<1>1. CASE UNCHANGED vars
    BY <1>1 DEF vars, StreamStep
<1>2. CASE \E n \in Reads : ReadSome(n)
    BY <1>2 DEF ReadSome, StreamStep
<1>3. CASE Store \/ ReadDone
    BY <1>3 DEF Store, ReadDone, StreamStep
<1>4. CASE FeedCloses \/ FeedOpens
    BY <1>4 DEF FeedCloses, FeedOpens, StreamStep
<1>5. CASE NothingHappens \/ FeedEnds \/ Abort \/ FramerAsks \/ Flush
    BY <1>5 DEF NothingHappens, FeedEnds, Abort, FramerAsks, Flush, StreamStep
<1>6. CASE Play \/ Leave
    BY <1>6 DEF Play, Leave, StreamStep
<1>7. CASE DaemonGoes \/ DaemonComes \/ DaemonDropsReader
    BY <1>7 DEF DaemonGoes, DaemonComes, DaemonDropsReader, StreamStep
<1> QED
    BY <1>1, <1>2, <1>3, <1>4, <1>5, <1>6, <1>7 DEF Next, Server

LEMMA AlwaysRoom == StreamTypeOK => Room > 0
<1> SUFFICES ASSUME StreamTypeOK PROVE Room > 0
    OBVIOUS
<1>1. /\ from \in Nat /\ to \in Nat /\ cap \in Nat /\ from <= to /\ to - from <= cap
      /\ MinFrame \in Nat /\ MaxFrame \in Nat /\ MinFrame >= 2 /\ MaxFrame >= 2
    BY NalFacts DEF StreamTypeOK
<1>2. MinFrame \div 2 \in Nat /\ MinFrame \div 2 >= 1
    BY <1>1
<1> QED
    BY <1>1, <1>2 DEF Room, Grown, Overflows

FeedTypeOK ==
    /\ daemon \in BOOLEAN /\ fd \in {"none", "open", "ended"}
    /\ watched \in {"none", "fd", "closed"}
    /\ pc \in {"step", "open", "flush", "aborted"}

LEMMA FeedTypeStep == FeedTypeOK /\ [Next]_vars => FeedTypeOK'
<1> SUFFICES ASSUME FeedTypeOK, [Next]_vars PROVE FeedTypeOK'
    OBVIOUS
<1>1. CASE UNCHANGED vars
    BY <1>1 DEF vars, feedVars, FeedTypeOK
<1>2. CASE \E n \in Reads : ReadSome(n)
    BY <1>2 DEF ReadSome, feedVars, FeedTypeOK
<1>3. CASE Store \/ ReadDone
    BY <1>3 DEF Store, ReadDone, feedVars, FeedTypeOK
<1>4. CASE FeedCloses \/ FeedOpens
    BY <1>4 DEF FeedCloses, FeedOpens, feedVars, FeedTypeOK
<1>5. CASE NothingHappens \/ FeedEnds \/ Abort \/ FramerAsks
    BY <1>5 DEF NothingHappens, FeedEnds, Abort, FramerAsks, feedVars, FeedTypeOK
<1>6. CASE Flush
    BY <1>6 DEF Flush, feedVars, FeedTypeOK
<1>7. CASE Play \/ Leave
    BY <1>7 DEF Play, Leave, feedVars, FeedTypeOK
<1>8. CASE DaemonGoes \/ DaemonComes \/ DaemonDropsReader
    BY <1>8 DEF DaemonGoes, DaemonComes, DaemonDropsReader, feedVars, FeedTypeOK
<1> QED
    BY <1>1, <1>2, <1>3, <1>4, <1>5, <1>6, <1>7, <1>8 DEF Next, Server

-----------------------------------------------------------------------------
(* The source *)

SourceTypeOK ==
    /\ viewers \in 0..MaxViewers /\ running \in BOOLEAN /\ awaiting \in BOOLEAN
    /\ current = NoUnit \/ \E i, j \in Nals : i < j /\ current = <<i, j>>
    /\ offset \in Nat

SourceInv == SourceTypeOK /\ SourceRuns /\ FramerSeesWholeUnits

LEMMA UnitFacts ==
    ASSUME SourceTypeOK, current # NoUnit
    PROVE  /\ current[1] \in Nals /\ current[2] \in Nals
           /\ At[current[1]] \in Nat /\ At[current[2]] \in Nat
BY NalFacts DEF SourceTypeOK

LEMMA DeliverKeeps ==
    ASSUME SourceInv, NEW n \in Pieces, Deliver(n)
    PROVE  SourceInv'
<1> DEFINE begin == At[current[1]] + offset
           end == At[current[2]]
           stop == IF begin + n < end THEN begin + n ELSE end
<1>1. /\ running /\ current # NoUnit /\ awaiting' \in BOOLEAN
      /\ viewers' = viewers /\ running' = running
      /\ IF stop = end
         THEN current' = NoUnit /\ offset' = 0 /\ half' = NoHalf
         ELSE current' = current /\ offset' = offset + n /\ half' = <<stop, end>>
    BY DEF Deliver
<1>2. /\ n \in Nat /\ offset \in Nat
      /\ At[current[1]] \in Nat /\ At[current[2]] \in Nat
    BY <1>1, UnitFacts, RtspAssumption DEF SourceInv, SourceTypeOK
<1>3. CASE stop = end
    <2>1. SourceTypeOK'
        BY <1>1, <1>3 DEF SourceInv, SourceTypeOK
    <2> QED BY <1>1, <1>3, <2>1 DEF SourceInv, SourceRuns, FramerSeesWholeUnits
<1>4. CASE stop # end
    <2>1. begin + n < end /\ stop = begin + n /\ stop = At[current[1]] + (offset + n)
        BY <1>2, <1>4
    <2>2. SourceTypeOK'
        <3>1. offset' \in Nat /\ current' = current
            BY <1>1, <1>2, <1>4
        <3> QED BY <1>1, <3>1 DEF SourceInv, SourceTypeOK
    <2>3. SourceRuns'
        BY <1>1, <1>2, <1>4, <2>1 DEF SourceInv, SourceRuns
    <2>4. FramerSeesWholeUnits'
        <3>1. half' # NoHalf
            BY <1>1, <1>2, <1>4, <2>1 DEF NoHalf
        <3> QED BY <1>1, <1>4, <2>1, <3>1 DEF FramerSeesWholeUnits
    <2> QED BY <2>2, <2>3, <2>4 DEF SourceInv
<1> QED
    BY <1>3, <1>4

LEMMA StoreKeeps ==
    ASSUME SourceInv, StreamInv, Store
    PROVE  SourceInv'
<1> DEFINE i == NextUnit[1]
           j == NextUnit[2]
<1>1. i \in Nals /\ j \in Nals /\ i < j /\ At[i] + 6 <= At[j] /\ NextUnit = <<i, j>>
    BY StoreFacts DEF StreamInv, Store, NextUnit
<1>2. UNCHANGED <<viewers, running, awaiting, half>>
    BY DEF Store
<1>3. CASE UNCHANGED <<current, offset>>
    BY <1>2, <1>3 DEF SourceInv, SourceTypeOK, SourceRuns, FramerSeesWholeUnits
<1>4. CASE running /\ current = NoUnit /\ current' = NextUnit /\ offset' = 0
    <2> HIDE DEF i, j
    <2>1. current' = <<i, j>> /\ At[i] \in Nat /\ At[j] \in Nat /\ half = NoHalf
        BY <1>1, <1>4, NalFacts DEF SourceInv, FramerSeesWholeUnits
    <2>2. SourceTypeOK'
        BY <1>1, <1>2, <1>4, <2>1 DEF SourceInv, SourceTypeOK
    <2>3. SourceRuns'
        BY <1>1, <1>2, <1>4, <2>1 DEF SourceInv, SourceRuns
    <2>4. FramerSeesWholeUnits'
        BY <1>2, <1>4, <2>1 DEF FramerSeesWholeUnits
    <2> QED BY <2>2, <2>3, <2>4 DEF SourceInv
<1> QED
    BY <1>3, <1>4 DEF Store, SendNewFrame

LEMMA SourceStep == SourceInv /\ StreamInv /\ [Next]_vars => SourceInv'
<1> SUFFICES ASSUME SourceInv, StreamInv, [Next]_vars PROVE SourceInv'
    OBVIOUS
<1>1. CASE UNCHANGED sourceVars
    BY <1>1 DEF sourceVars, SourceInv, SourceTypeOK, SourceRuns, FramerSeesWholeUnits
<1>2. CASE Store
    BY <1>2, StoreKeeps
<1>3. CASE Play
    <2>1. viewers \in Nat /\ MaxViewers \in Nat
        BY RtspAssumption DEF SourceInv, SourceTypeOK
    <2>2. viewers' = viewers + 1 /\ running' = TRUE /\ viewers' \in 0..MaxViewers /\ viewers' > 0
        BY <1>3, <2>1 DEF Play
    <2>3. awaiting' \in BOOLEAN /\ UNCHANGED <<current, offset, half>>
        BY <1>3 DEF Play
    <2>4. SourceTypeOK'
        BY <2>2, <2>3 DEF SourceInv, SourceTypeOK
    <2> QED BY <2>2, <2>3, <2>4 DEF SourceInv, SourceRuns, FramerSeesWholeUnits
<1>4. CASE Leave
    <2>1. viewers \in Nat /\ viewers > 0 /\ viewers' = viewers - 1 /\ viewers' \in 0..MaxViewers
        BY <1>4, RtspAssumption DEF Leave, SourceInv, SourceTypeOK
    <2>2. CASE viewers = 1
        <3>1. /\ running' = FALSE /\ awaiting' = FALSE
              /\ current' = NoUnit /\ offset' = 0 /\ half' = NoHalf
            BY <1>4, <2>2 DEF Leave
        <3>2. SourceTypeOK'
            <4>1. running' \in BOOLEAN /\ awaiting' \in BOOLEAN
                BY <3>1
            <4> QED BY <2>1, <3>1, <4>1 DEF SourceTypeOK
        <3>3. ~(viewers' > 0)
            BY <2>1, <2>2
        <3> QED BY <3>1, <3>2, <3>3 DEF SourceInv, SourceRuns, FramerSeesWholeUnits
    <2>3. CASE viewers # 1
        <3>1. UNCHANGED <<running, awaiting, current, offset, half>>
            BY <1>4, <2>3 DEF Leave
        <3>2. SourceTypeOK'
            BY <2>1, <3>1 DEF SourceInv, SourceTypeOK
        <3>3. (viewers' > 0) = (viewers > 0)
            BY <2>1, <2>3
        <3> QED BY <3>1, <3>2, <3>3 DEF SourceInv, SourceRuns, FramerSeesWholeUnits
    <2> QED BY <2>2, <2>3
<1>5. CASE FramerAsks
    <2>1. CASE current = NoUnit
        <3>1. awaiting' = TRUE /\ running /\ UNCHANGED <<viewers, running, current, offset, half>>
            BY <1>5, <2>1 DEF FramerAsks
        <3>2. SourceTypeOK'
            BY <3>1 DEF SourceInv, SourceTypeOK
        <3> QED BY <3>1, <3>2 DEF SourceInv, SourceRuns, FramerSeesWholeUnits
    <2>2. CASE current # NoUnit
        BY <1>5, <2>2, DeliverKeeps DEF FramerAsks
    <2> QED BY <2>1, <2>2
<1>6. CASE Flush
    BY <1>6, <1>1, DeliverKeeps DEF Flush
<1>7. CASE ReadDone \/ \E n \in Reads : ReadSome(n)
    BY <1>7, <1>1 DEF ReadDone, ReadSome
<1>8. CASE NothingHappens \/ FeedEnds \/ Abort \/ FeedCloses \/ FeedOpens
    BY <1>8, <1>1 DEF NothingHappens, FeedEnds, Abort, FeedCloses, FeedOpens
<1>9. CASE DaemonGoes \/ DaemonComes \/ DaemonDropsReader
    BY <1>9, <1>1 DEF DaemonGoes, DaemonComes, DaemonDropsReader
<1> QED
    BY <1>1, <1>2, <1>3, <1>4, <1>5, <1>6, <1>7, <1>8, <1>9 DEF Next, Server, vars

-----------------------------------------------------------------------------
(* The theorems *)

IInv == StreamInv /\ FeedTypeOK /\ SourceInv

LEMMA InitIInv == Init => IInv
<1> SUFFICES ASSUME Init PROVE IInv
    OBVIOUS
<1>1. StreamInv
    BY InitStream DEF Init
<1>2. FeedTypeOK
    BY DEF Init, FeedTypeOK
<1>3. SourceInv
    <2>1. running \in BOOLEAN /\ awaiting \in BOOLEAN
        BY DEF Init
    <2>2. viewers \in 0..MaxViewers /\ ~(viewers > 0)
        BY RtspAssumption DEF Init
    <2> QED BY <2>1, <2>2 DEF Init, SourceInv, SourceTypeOK, SourceRuns, FramerSeesWholeUnits
<1> QED
    BY <1>1, <1>2, <1>3 DEF IInv

LEMMA StepIInv == IInv /\ [Next]_vars => IInv'
BY StepIsStreamStep, StreamStepInv, FeedTypeStep, SourceStep DEF IInv

LEMMA IInvImplies == IInv => RtspInv
<1> SUFFICES ASSUME IInv PROVE RtspInv
    OBVIOUS
<1>1. TypeOK
    BY DEF IInv, StreamInv, FeedTypeOK, SourceInv, SourceTypeOK, TypeOK
<1>2. Room > 0
    BY AlwaysRoom DEF IInv, StreamInv
<1> QED
    BY <1>1, <1>2 DEF IInv, StreamInv, SourceInv, RtspInv

THEOREM AlwaysIInv == Spec => []IInv
BY InitIInv, StepIInv, PTL DEF Spec

(* Types, room for every read, and what the buffer keeps (RtspInv,             *)
(* h264_stream_process).                                                       *)
THEOREM RtspInvariant == Spec => []RtspInv
BY AlwaysIInv, IInvImplies, PTL

(* A read that ends with a delimiter leaves nothing unstored before it         *)
(* (h264_is_aud_frame).                                                        *)
THEOREM DelimiterDrains == Spec => []DrainedAtDelimiter
<1>1. IInv => DrainedAtDelimiter
    BY DEF IInv, StreamInv
<1> QED
    BY <1>1, AlwaysIInv, PTL

(* The framer gets every unit from its first byte to its last (sendNewFrame,   *)
(* doGetNextFrame).                                                            *)
THEOREM UnitsArriveWhole == Spec => []FramerSeesWholeUnits
<1>1. IInv => FramerSeesWholeUnits
    BY DEF IInv, SourceInv
<1> QED
    BY <1>1, AlwaysIInv, PTL

(* Wherever the reads end, no byte from a NAL unit on is left out              *)
(* (h264_process_frames, h264_stream_process).                                 *)
THEOREM NothingIsSkipped == Spec => NothingSkipped
<1>1. IInv /\ Store => At[NextUnit[1]] <= need
    BY StoreFacts DEF IInv, StreamInv, Store
<1>2. IInv' => from' <= need'
    BY DEF IInv, StreamInv, NeededIsKept
<1>3. IInv /\ IInv' => [(Store => At[NextUnit[1]] <= need) /\ from' <= need']_vars
    BY <1>1, <1>2
<1> QED
    BY <1>3, AlwaysIInv, PTL DEF NothingSkipped

(* While no read ends where it misleads, every unit is one picture, stored in  *)
(* its turn (h264_process_frames).                                             *)
THEOREM UnitsArePictures == Spec => WholePictures
<1>1. IInv /\ Store /\ ~late => OnePicture(NextUnit) /\ At[NextUnit[1]] = need
    BY StoresOnePicture DEF IInv, Store, OnePicture
<1>2. IInv => [Store /\ ~late => OnePicture(NextUnit) /\ At[NextUnit[1]] = need]_vars
    BY <1>1
<1> QED
    BY <1>2, AlwaysIInv, PTL DEF WholePictures
=============================================================================
