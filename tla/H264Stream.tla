------------------------------ MODULE H264Stream ------------------------------
(***************************************************************************)
(* h264_stream.h and h264_frames.h: the buffer a server reads the capture  *)
(* daemon's h264 socket into, and how it is cut into access units.         *)
(*                                                                         *)
(* The bytes of a connection are numbered from 0; the buffer holds those   *)
(* from `from` to `to`.  Of the data only the NAL units matter: where each *)
(* begins and of what kind it is.  The daemon sends a picture, which is    *)
(* its parameter sets and slices, and after it an access unit delimiter.   *)
(* A read may end at any byte.                                             *)
(***************************************************************************)
EXTENDS Naturals, Sequences

CONSTANTS
    Kinds,      \* the kinds of the NAL units of a connection, in order:
                \* "params", "first" (the first slice of a picture), "more"
                \* (a further slice) or "aud" (the delimiter)
    At,         \* At[i]: the number of the first byte of NAL unit i
    Total,      \* the number of bytes
    MinFrame,   \* MIN_FRAME_SIZE, scaled down
    MaxFrame    \* MAX_FRAME_SIZE, scaled down

Nals == 1..Len(Kinds)

NalEnd(i) == IF i < Len(Kinds) THEN At[i + 1] ELSE Total

ASSUME StreamAssumption ==
    /\ Kinds \in Seq({"params", "first", "more", "aud"}) /\ Kinds # <<>>
    /\ \A i, j \in Nals : Kinds[i] = "first" /\ Kinds[j] = "first" /\ i < j =>
           \E k \in i..j : Kinds[k] = "aud"
    /\ At \in [Nals -> Nat] /\ Total \in Nat
    /\ At[1] = 0
    /\ \A i \in Nals : IF Kinds[i] = "aud" THEN NalEnd(i) = At[i] + 6
                                          ELSE NalEnd(i) >= At[i] + 6
    /\ MinFrame \in Nat /\ MaxFrame \in Nat
    /\ MinFrame >= 2 /\ MaxFrame >= MinFrame

VARIABLES
    from, to,   \* the bytes in the buffer; stream->size is to - from
    cap,        \* buf.size()
    splitting,  \* h264_process_frames is at work
    data,       \* its position
    need,       \* history: the first byte no unit has held yet
    late        \* history: a read ended where it misleads, and none has ended
                \* with a delimiter since

bufferVars == <<from, to, cap, splitting, data>>
streamVars == <<bufferVars, need, late>>

\* The number of a connection's first byte is 0 again.
Fresh ==
    /\ from' = 0 /\ to' = 0 /\ cap' = 0
    /\ splitting' = FALSE /\ data' = 0
    /\ need' = 0 /\ late' = FALSE

StreamInit ==
    /\ from = 0 /\ to = 0 /\ cap = 0
    /\ splitting = FALSE /\ data = 0
    /\ need = 0 /\ late = FALSE

-----------------------------------------------------------------------------
(* Finding and judging NAL units: t is the end of the buffer *)

\* The smallest number of S, or 0 when there is none.
Least(S) == IF S = {} THEN 0 ELSE CHOOSE i \in S : \A j \in S : i <= j

\* h264_find_nal: the first start code from byte d on with a byte after it.
FindNal(d, t) == Least({i \in Nals : At[i] >= d /\ t > At[i] + 4})

\* A slice with its first_mb bit not read yet passes for a new picture.
IsNewFrame(i, t) ==
    Kinds[i] = "first" \/ (Kinds[i] = "more" /\ t < At[i] + 6)

\* Mutant: a delimiter only counts with something behind it.
IsAudFollowed(i, t) == Kinds[i] = "aud" /\ t > At[i] + 6

\* A delimiter only counts as the last six bytes of the buffer.
IsAud(i, t) == Kinds[i] = "aud" /\ t = At[i] + 6

\* Where the unit that begins with NAL unit i is cut: at a delimiter, or at the
\* second new picture after i; what i itself is does not count.
CutOf(i, t) ==
    Least({j \in Nals :
              /\ j > i /\ t > At[j] + 4
              /\ \/ IsAud(j, t)
                 \/ /\ IsNewFrame(j, t)
                    /\ \E k \in (i + 1)..(j - 1) : IsNewFrame(k, t)})

-----------------------------------------------------------------------------
(* h264_stream_process *)

Overflows == to - from >= MaxFrame

\* Mutant: the buffer gets its size once.
GrownOnce == IF ~Overflows /\ cap = 0 THEN MinFrame ELSE cap

\* The buffer's size at the read.
Grown == IF ~Overflows /\ to - from + MinFrame \div 2 > cap
         THEN to - from + MinFrame ELSE cap

\* The room left for the read; with none it returns 0, as it does at the end.
Room == Grown - (IF Overflows THEN 0 ELSE to - from)

\* A read that goes from byte a to byte b on past a delimiter hides it, and one
\* that ends before the first_mb bit of a further slice shows it as a new picture.
Misleads(a, b) ==
    \E i \in Nals : \/ (Kinds[i] = "aud" /\ a < NalEnd(i) /\ NalEnd(i) < b)
                   \/ (Kinds[i] = "more" /\ b = At[i] + 5)

Read(n) ==
    /\ ~splitting
    /\ n <= Room /\ to + n <= Total
    /\ from' = (IF Overflows THEN to ELSE from)
    /\ to' = to + n
    /\ cap' = Grown
    /\ splitting' = TRUE /\ data' = from'
    /\ need' = IF ~Overflows THEN need
               ELSE IF \E i \in Nals : At[i] >= to
                    THEN At[Least({i \in Nals : At[i] >= to})] ELSE Total
    /\ late' = (late \/ Overflows \/ Misleads(to, to'))

\* Mutant: the loop goes on for anything that could be a NAL unit.
LongEnoughForNal == to - data >= 6

LongEnough == to - data >= 8

\* The unit the loop finds next: the NAL unit it begins with and the one it is
\* cut at, each 0 when there is none.
NextUnit ==
    LET i == FindNal(data, to) IN <<i, IF i = 0 THEN 0 ELSE CutOf(i, to)>>

\* One round of the loop that stores a unit.
StoreUnit ==
    /\ splitting /\ LongEnough
    /\ NextUnit[2] # 0
    /\ data' = At[NextUnit[2]]
    /\ need' = IF data' > need THEN data' ELSE need
    /\ UNCHANGED <<from, to, cap, splitting, late>>

\* Mutant: three bytes are kept, one less than a start code has.
KeptThree == IF LongEnough THEN to - 3 ELSE data

\* What stays in the buffer when the loop ends: without any NAL unit the last
\* four bytes, which may be a start code.
Kept == IF LongEnough THEN to - 4 ELSE data

\* The loop ends, and what it has dealt with leaves the buffer.  A unit without
\* an end yet makes it return null, and then all of the buffer stays, with the
\* units just stored.
SplitEnds ==
    LET null == LongEnough /\ NextUnit[1] # 0 IN
    /\ splitting
    /\ LongEnough => NextUnit[2] = 0
    /\ splitting' = FALSE /\ data' = 0
    /\ from' = IF null THEN from ELSE Kept
    /\ cap' = IF ~null /\ cap > MinFrame THEN to - Kept + MinFrame ELSE cap
    /\ late' = (late /\ \A k \in Nals : Kinds[k] = "aud" => to # NalEnd(k))
    /\ UNCHANGED <<to, need>>

-----------------------------------------------------------------------------
(* Properties *)

StreamTypeOK ==
    /\ from \in 0..to /\ to \in 0..Total /\ cap \in Nat /\ to - from <= cap
    /\ splitting \in BOOLEAN /\ late \in BOOLEAN
    /\ data \in 0..to /\ need \in 0..Total

NoNalIn(a, b) == \A i \in Nals : ~(a <= At[i] /\ At[i] < b)

\* What no unit has held yet begins with a NAL unit and is in the buffer, not
\* before the place where the loop is.
NeededIsKept ==
    /\ need = Total \/ \E i \in Nals : need = At[i]
    /\ from <= need
    /\ need + 4 < to \/ NoNalIn(from, need)
    /\ splitting => /\ from <= data /\ data <= need
                    /\ data = from \/ \E i \in Nals : data = At[i]

\* A read that ends with a delimiter leaves nothing unstored before it: the
\* picture does not wait for the next one, and what had been stored more than
\* once is gone from the buffer (h264_is_aud_frame).
DrainedAtDelimiter ==
    \A i \in Nals : Kinds[i] = "aud" /\ to = NalEnd(i) /\ ~splitting => need >= At[i]

\* The daemon begins a picture here, or ended one.
AtSeam(i) == i = 1 \/ "aud" \in {Kinds[i], Kinds[i - 1]}

\* While no read misleads, what is needed next begins at a seam, nothing stands
\* before it, and no delimiter behind it is complete, unless the loop is about
\* to find it.
InStep ==
    late \/ (~splitting /\ to = Total)
         \/ \E i \in Nals :
              /\ need = At[i] /\ AtSeam(i)
              /\ \/ NoNalIn(from, need)
                 \/ splitting /\ to < data + 8 /\ NoNalIn(data, need)
              /\ \A j \in Nals : j > i /\ Kinds[j] = "aud" =>
                     NalEnd(j) > to \/ (splitting /\ NalEnd(j) = to)
              /\ splitting => \A j \in Nals : Kinds[j] = "more" => to # At[j] + 5
=============================================================================
