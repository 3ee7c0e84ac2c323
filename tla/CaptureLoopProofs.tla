--------------------------- MODULE CaptureLoopProofs ---------------------------
(***************************************************************************)
(* Proofs about CaptureLoop, for every list of sockets, every number of    *)
(* buffers and rounds, every set of calls that may fail and every number   *)
(* of kills.                                                               *)
(***************************************************************************)
EXTENDS CaptureLoop, TLAPS

(* What is proved of every step: the invariant, and that what is published *)
(* stays whole, which rests on it.                                         *)
Safe == LoopInv /\ OutputIsWhole

LEMMA OrderFacts ==
  /\ Len(Order) \in Nat
  /\ \A i \in 1 .. Len(Order) : Order[i] \in Sockets
  /\ Sockets = {Order[i] : i \in 1 .. Len(Order)}
  BY LoopAssumption DEF Sockets

LEMMA LoopInit == Init => Safe
<1> SUFFICES ASSUME Init PROVE Safe
  OBVIOUS
<1>1. TypeOK
  <2>1. /\ turn \in 1 .. Len(Order) + 1 /\ tries \in 0 .. MaxTries /\ kills \in 0 .. MaxKills
        /\ status \in {-1, 0, 1}
    BY OrderFacts, LoopAssumption DEF Init
  <2>2. running \in BOOLEAN /\ encoded \in BOOLEAN /\ armed \in BOOLEAN /\ alive \in BOOLEAN
    BY DEF Init
  <2> QED BY <2>1, <2>2 DEF Init, TypeOK, Positions
<1>2. OneOwner /\ PathsMatchListeners /\ StartsOverStalePaths
  BY DEF Init, OneOwner, PathsMatchListeners, StartsOverStalePaths, Serving
<1> QED
  BY <1>1, <1>2 DEF Init, Safe, LoopInv, SetUpInOrder, DriverAtRest, PathsAreNamed, RoundsLeft,
     WholeBeforeRename, OutputIsWhole

--------------------------------------------------------------------------------
(* Most steps leave most of the parts alone.  Each lemma says which         *)
(* variables a part looks at, so that a step only argues about the others.  *)

LEMMA OwnersStay ==
  ASSUME OneOwner, DriverAtRest, UNCHANGED driver,
         pc' # pc => /\ Serving' => Serving
                     /\ pc' \in {"accept", "output", "fill", "rename", "write", "release"}
                          <=> pc \in {"accept", "output", "fill", "rename", "write", "release"}
                     /\ pc' \in {"open", "sockets", "exit", "killed"}
                          => pc \in {"open", "sockets", "exit", "killed"}
  PROVE  OneOwner' /\ DriverAtRest'
  BY DEF OneOwner, DriverAtRest, Serving, driver

LEMMA PathsStay ==
  ASSUME LoopInv, UNCHANGED <<named, bound, listening, faults, kills>>,
         Serving, Serving' \/ pc' = "close"
  PROVE  PathsMatchListeners' /\ StartsOverStalePaths' /\ SetUpInOrder' /\ PathsAreNamed'
  BY DEF LoopInv, PathsMatchListeners, StartsOverStalePaths, SetUpInOrder, PathsAreNamed, Serving

LEMMA PictureStays ==
  ASSUME Safe, UNCHANGED <<files, faults>>, pc' = "rename" => pc = "rename"
  PROVE  WholeBeforeRename' /\ OutputIsWhole'
  BY DEF Safe, LoopInv, WholeBeforeRename, OutputIsWhole, files

--------------------------------------------------------------------------------
(* Setting up *)

LEMMA SetUpStep == Safe /\ SetUp => Safe'
<1> SUFFICES ASSUME Safe, SetUp PROVE Safe'
  OBVIOUS
<1> USE DEF Safe, LoopInv, process, sockets, driver, waiting, files, world
<1>1. CASE OpenDevice
  <2>1. TypeOK' /\ RoundsLeft'
    BY <1>1 DEF OpenDevice, TypeOK, Positions, RoundsLeft
  <2>2. OneOwner' /\ DriverAtRest'
    BY <1>1 DEF OpenDevice, OneOwner, DriverAtRest, Serving
  <2>3. {Order[i] : i \in 1 .. turn' - 1} = {}
    BY <1>1 DEF OpenDevice, SetUpInOrder
  <2>4. SetUpInOrder' /\ PathsAreNamed'
    BY <1>1, <2>3 DEF OpenDevice, SetUpInOrder, PathsAreNamed
  <2>5. PathsMatchListeners' /\ StartsOverStalePaths'
    BY <1>1 DEF OpenDevice, PathsMatchListeners, StartsOverStalePaths, SetUpInOrder,
       PathsAreNamed, Serving
  <2> QED
    BY <1>1, <2>1, <2>2, <2>4, <2>5, PictureStays DEF OpenDevice
<1>2. CASE OpenSocket
  <2> DEFINE s == Order[turn]
  <2>1. s \in Sockets /\ turn \in 1 .. Len(Order) /\ s \notin bound \ {s}
    BY <1>2, OrderFacts DEF OpenSocket, TypeOK
  <2>2. /\ named' = named \cup {s} /\ UNCHANGED <<running, watched, encoded, kills, faults>>
        /\ \/ /\ bound' = bound \cup {s} /\ listening' = listening \cup {s}
              /\ turn' = turn + 1 /\ pc' = pc /\ status' = status
           \/ /\ MayFail("socket") \/ MayFail("listen")
              /\ bound' \in {bound \ {s}, bound \cup {s}} /\ UNCHANGED <<listening, turn>>
              /\ pc' = "close" /\ status' = 1
    BY <1>2, <2>1 DEF OpenSocket, BindSocket, GoDown
  <2>3. TypeOK' /\ RoundsLeft'
    BY <1>2, <2>1, <2>2, OrderFacts DEF OpenSocket, TypeOK, Positions, RoundsLeft
  <2>4. OneOwner' /\ DriverAtRest'
    BY <1>2, <2>2 DEF OpenSocket, OneOwner, DriverAtRest, Serving
  <2>5. turn' = turn + 1 =>
          {Order[i] : i \in 1 .. turn' - 1} = {Order[i] : i \in 1 .. turn - 1} \cup {s}
    BY <2>1, 1 .. turn = (1 .. turn - 1) \cup {turn}
  <2>6. SetUpInOrder'
    BY <1>2, <2>2, <2>5 DEF OpenSocket, SetUpInOrder
  <2>7. PathsAreNamed'
    <3>1. s \notin listening => listening' \subseteq bound'
      BY <2>2 DEF PathsAreNamed
    <3>2. s \in listening => s \in {Order[i] : i \in 1 .. turn - 1}
      BY <1>2 DEF OpenSocket, SetUpInOrder
    <3>3. s \notin {Order[i] : i \in 1 .. turn - 1}
      BY <2>1, LoopAssumption
    <3> QED BY <2>2, <3>1, <3>2, <3>3 DEF PathsAreNamed
  <2>8. PathsMatchListeners' /\ StartsOverStalePaths'
    BY <1>2, <2>2 DEF OpenSocket, PathsMatchListeners, StartsOverStalePaths, Serving, MayFail
  <2> QED
    BY <1>2, <2>2, <2>3, <2>4, <2>6, <2>7, <2>8, PictureStays DEF OpenSocket
<1>3. CASE EncoderFails
  BY <1>3, PictureStays DEF EncoderFails, GoDown, MayFail, TypeOK, Positions, OneOwner,
     PathsMatchListeners, StartsOverStalePaths, SetUpInOrder, DriverAtRest, PathsAreNamed,
     RoundsLeft, Serving
<1>4. CASE StartCapture
  <2>1. TypeOK' /\ RoundsLeft'
    BY <1>4 DEF StartCapture, GoDown, TypeOK, Positions, RoundsLeft
  <2>2. OneOwner' /\ DriverAtRest'
    BY <1>4 DEF StartCapture, GoDown, OneOwner, DriverAtRest, Serving
  <2>3. turn = Len(Order) + 1 /\ listening = Sockets
    BY <1>4, OrderFacts DEF StartCapture, TypeOK, SetUpInOrder
  <2>4. bound = Sockets
    BY <2>3 DEF TypeOK, PathsAreNamed
  <2>5. /\ PathsMatchListeners' /\ StartsOverStalePaths'
        /\ SetUpInOrder' /\ PathsAreNamed'
    BY <1>4, <2>3, <2>4 DEF StartCapture, GoDown, PathsMatchListeners, StartsOverStalePaths,
       SetUpInOrder, PathsAreNamed, Serving
  <2> QED
    BY <1>4, <2>1, <2>2, <2>5, PictureStays DEF StartCapture, GoDown
<1> QED
  BY <1>1, <1>2, <1>3, <1>4 DEF SetUp

--------------------------------------------------------------------------------
(* Waiting for a frame *)

LEMMA WaitStep == Safe /\ Wait => Safe'
<1> SUFFICES ASSUME Safe, Wait PROVE Safe'
  OBVIOUS
<1> USE DEF Safe, LoopInv
<1>1. /\ pc \in {"loop", "select"} /\ pc' \in {"loop", "select", "read", "close"}
      /\ UNCHANGED <<running, turn, sockets, driver, files, world>>
      /\ status' \in {status, 0, 1}
  BY DEF Wait, LoopTest, SelectReady, SelectTimesOut, SelectFails, NextTry, GoDown, process,
     waiting
<1>2. tries' \in 0 .. MaxTries /\ RoundsLeft'
  <2>1. CASE LoopTest
    BY <2>1, LoopAssumption DEF LoopTest, GoDown, waiting, TypeOK, RoundsLeft
  <2>2. CASE SelectTimesOut
    BY <2>2, LoopAssumption DEF SelectTimesOut, NextTry, GoDown, TypeOK, RoundsLeft
  <2>3. CASE SelectReady \/ SelectFails
    BY <2>3 DEF SelectReady, SelectFails, GoDown, waiting, TypeOK, RoundsLeft
  <2> QED BY <2>1, <2>2, <2>3 DEF Wait
<1>3. TypeOK'
  <2>1. armed' \in BOOLEAN
    BY DEF Wait, LoopTest, SelectReady, SelectTimesOut, SelectFails, waiting, TypeOK
  <2>2. status' \in {-1, 0, 1} /\ pc' \in Positions
    BY <1>1 DEF TypeOK, Positions
  <2> QED BY <1>1, <1>2, <2>1, <2>2 DEF TypeOK, sockets, driver, files, world
<1>4. OneOwner' /\ DriverAtRest'
  BY <1>1, OwnersStay DEF Serving
<1>5. PathsMatchListeners' /\ StartsOverStalePaths' /\ SetUpInOrder' /\ PathsAreNamed'
  BY <1>1, PathsStay DEF Serving, sockets, world
<1>6. WholeBeforeRename' /\ OutputIsWhole'
  BY <1>1, PictureStays DEF world
<1> QED BY <1>2, <1>3, <1>4, <1>5, <1>6

(* A signal in the select uses up a round; elsewhere it sets the flag only. *)
LEMMA SignalStep == Safe /\ Signal => Safe'
<1> SUFFICES ASSUME Safe, Signal PROVE Safe'
  OBVIOUS
<1> USE DEF Safe, LoopInv
<1>1. /\ running' = FALSE /\ UNCHANGED <<turn, sockets, driver, armed, files, world>>
      /\ IF pc = "select"
         THEN /\ tries' = tries + 1 /\ pc' \in {"select", "close"} /\ status' \in {status, 1}
              /\ pc' = "select" => tries + 1 # MaxTries
         ELSE UNCHANGED <<pc, status, tries>>
  BY DEF Signal, NextTry, GoDown
<1>2. tries' \in 0 .. MaxTries /\ RoundsLeft'
  BY <1>1, LoopAssumption DEF TypeOK, RoundsLeft
<1>3. TypeOK'
  <2>1. status' \in {-1, 0, 1} /\ pc' \in Positions
    BY <1>1 DEF TypeOK, Positions
  <2>2. running' \in BOOLEAN
    BY <1>1
  <2> QED BY <1>1, <1>2, <2>1, <2>2 DEF TypeOK, sockets, driver, files, world
<1>4. OneOwner' /\ DriverAtRest'
  BY <1>1, OwnersStay DEF Serving
<1>5. PathsMatchListeners' /\ StartsOverStalePaths' /\ SetUpInOrder' /\ PathsAreNamed'
  <2>1. CASE pc = "select"
    BY <1>1, <2>1, PathsStay DEF Serving, sockets, world
  <2>2. CASE pc # "select"
    BY <1>1, <2>2 DEF PathsMatchListeners, StartsOverStalePaths, SetUpInOrder, PathsAreNamed,
       Serving, sockets, world
  <2> QED BY <2>1, <2>2
<1>6. WholeBeforeRename' /\ OutputIsWhole'
  BY <1>1, PictureStays DEF world
<1> QED BY <1>2, <1>3, <1>4, <1>5, <1>6

--------------------------------------------------------------------------------
(* One frame *)

(* None of these steps opens or closes a path, and none leaves the service  *)
(* but for a failed dequeue.                                                *)
LEMMA FrameStep == Safe /\ (Frame \/ Pace \/ IdleWait) => Safe'
<1> SUFFICES ASSUME Safe, Frame \/ Pace \/ IdleWait PROVE Safe'
  OBVIOUS
<1> USE DEF Safe, LoopInv
<1>1. /\ pc \in {"read", "accept", "output", "fill", "rename", "write", "release", "pace", "idle"}
      /\ pc' \in {"loop", "accept", "output", "fill", "rename", "write", "release", "pace",
                  "idle", "close"}
      /\ UNCHANGED <<named, bound, listening, waiting, world>>
  BY DEF Frame, Publish, ReadFrame, AcceptClients, EncodeFails, OpenTmp, FillTmp, RenameTmp,
     WriteSocket, WritesDone, ReleaseFrame, Pace, IdleWait, GoDown, process, sockets, driver
<1>2. PathsMatchListeners' /\ StartsOverStalePaths' /\ SetUpInOrder' /\ PathsAreNamed'
  BY <1>1, PathsStay DEF Serving, world
<1>3. RoundsLeft'
  BY <1>1 DEF RoundsLeft
<1>4. OneOwner' /\ DriverAtRest'
  <2>1. CASE ReadFrame
    BY <2>1, LoopAssumption DEF ReadFrame, GoDown, TypeOK, OneOwner, DriverAtRest, Serving
  <2>2. CASE ReleaseFrame
    BY <2>2 DEF ReleaseFrame, OneOwner, DriverAtRest, Serving
  <2>3. CASE AcceptClients \/ Publish \/ WriteSocket \/ WritesDone \/ Pace \/ IdleWait
    BY <2>3, OwnersStay DEF AcceptClients, Publish, EncodeFails, OpenTmp, FillTmp, RenameTmp,
       WriteSocket, WritesDone, Pace, IdleWait, Serving
  <2> QED BY <2>1, <2>2, <2>3 DEF Frame
<1>5. WholeBeforeRename' /\ OutputIsWhole'
  <2>1. CASE FillTmp \/ RenameTmp \/ OpenTmp
    BY <2>1 DEF FillTmp, RenameTmp, OpenTmp, files, world, MayFail, WholeBeforeRename,
       OutputIsWhole, TypeOK
  <2>2. CASE ReadFrame \/ AcceptClients \/ EncodeFails \/ WriteSocket \/ WritesDone
               \/ ReleaseFrame \/ Pace \/ IdleWait
    BY <2>2, PictureStays DEF ReadFrame, AcceptClients, EncodeFails, WriteSocket, WritesDone,
       ReleaseFrame, Pace, IdleWait, GoDown, world
  <2> QED BY <2>1, <2>2 DEF Frame, Publish
<1>6. TypeOK'
  <2>1. /\ running' = running /\ status' \in {status, 1} /\ turn' \in 1 .. Len(Order) + 1
        /\ watched' \subseteq listening /\ encoded' \in BOOLEAN
    <3>1. CASE AcceptClients
      BY <3>1, OrderFacts DEF AcceptClients, TypeOK
    <3>2. CASE WriteSocket
      <4>1. UNCHANGED <<running, status, listening>> /\ watched' \subseteq watched
        BY <3>2 DEF WriteSocket
      <4>2. turn' \in 1 .. Len(Order) + 1
        BY <3>2, OrderFacts DEF WriteSocket, TypeOK
      <4>3. encoded' \in BOOLEAN
        BY <3>2 DEF WriteSocket, TypeOK
      <4> QED BY <4>1, <4>2, <4>3 DEF TypeOK
    <3>3. CASE ReadFrame \/ Publish \/ WritesDone \/ ReleaseFrame \/ Pace \/ IdleWait
      BY <3>3 DEF ReadFrame, Publish, EncodeFails, OpenTmp, FillTmp, RenameTmp, WritesDone,
         ReleaseFrame, Pace, IdleWait, GoDown, sockets, TypeOK
    <3> QED BY <3>1, <3>2, <3>3 DEF Frame
  <2>2. /\ empty' \subseteq Buffers /\ filled' \subseteq Buffers
        /\ held' \in Buffers \cup {NoBuffer} /\ lost' \subseteq Buffers
    <3>1. CASE ReadFrame
      BY <3>1 DEF ReadFrame, TypeOK
    <3>2. CASE ReleaseFrame
      BY <3>2 DEF ReleaseFrame, TypeOK, OneOwner
    <3>3. CASE AcceptClients \/ Publish \/ WriteSocket \/ WritesDone \/ Pace \/ IdleWait
      BY <3>3 DEF AcceptClients, Publish, EncodeFails, OpenTmp, FillTmp, RenameTmp, WriteSocket,
         WritesDone, Pace, IdleWait, driver, TypeOK
    <3> QED BY <3>1, <3>2, <3>3 DEF Frame
  <2>3. tmp' \in {"none", "part", "whole"} /\ picture' \in {"none", "part", "whole"}
    BY DEF TypeOK, Frame, Publish, ReadFrame, AcceptClients, EncodeFails, OpenTmp, FillTmp,
       RenameTmp, WriteSocket, WritesDone, ReleaseFrame, Pace, IdleWait, files
  <2> QED BY <1>1, <2>1, <2>2, <2>3 DEF TypeOK, Positions, waiting, world
<1> QED BY <1>2, <1>3, <1>4, <1>5, <1>6

--------------------------------------------------------------------------------
(* Going down and coming back, and the camera *)

LEMMA DownStep == Safe /\ (CloseDown \/ Kill \/ Restart) => Safe'
<1> SUFFICES ASSUME Safe, CloseDown \/ Kill \/ Restart PROVE Safe'
  OBVIOUS
<1> USE DEF Safe, LoopInv
<1>1. CASE CloseDown \/ Kill
  <2>1. /\ pc' \in {"exit", "killed"} /\ UNCHANGED <<running, status, turn, encoded, waiting>>
        /\ named' = {} /\ listening' = {} /\ watched' = {}
        /\ empty' = {} /\ filled' = {} /\ held' = NoBuffer /\ lost' = {}
        /\ UNCHANGED <<files, output, alive, faults>>
    BY <1>1 DEF CloseDown, Kill, world
  <2>2. /\ bound' \subseteq bound /\ kills' \in 0 .. MaxKills
        /\ kills' = 0 => bound' = {} /\ kills = 0
        /\ pc' = "exit" => kills' = kills
    BY <1>1, LoopAssumption DEF CloseDown, Kill, world, TypeOK, PathsAreNamed
  <2>3. TypeOK' /\ RoundsLeft'
    BY <2>1, <2>2 DEF TypeOK, Positions, waiting, files, RoundsLeft
  <2>4. OneOwner' /\ DriverAtRest'
    BY <2>1 DEF OneOwner, DriverAtRest, Serving
  <2>5. PathsMatchListeners' /\ StartsOverStalePaths' /\ SetUpInOrder' /\ PathsAreNamed'
    BY <2>1, <2>2 DEF PathsMatchListeners, StartsOverStalePaths, SetUpInOrder, PathsAreNamed,
       Serving
  <2> QED BY <2>1, <2>3, <2>4, <2>5, PictureStays
<1>2. CASE Restart
  <2>1. TypeOK' /\ RoundsLeft'
    <3>1. /\ turn' \in 1 .. Len(Order) + 1 /\ tries' \in 0 .. MaxTries
          /\ status' \in {-1, 0, 1} /\ pc' = "open"
      BY <1>2, OrderFacts, LoopAssumption DEF Restart
    <3>2. running' \in BOOLEAN /\ encoded' \in BOOLEAN /\ armed' \in BOOLEAN /\ alive' \in BOOLEAN
      BY <1>2 DEF Restart
    <3>3. UNCHANGED <<named, bound, listening, watched, driver, files, output, faults, kills>>
      BY <1>2 DEF Restart
    <3> QED BY <3>1, <3>2, <3>3 DEF TypeOK, Positions, driver, files, RoundsLeft
  <2>2. OneOwner' /\ DriverAtRest'
    BY <1>2 DEF Restart, Down, OneOwner, DriverAtRest, Serving, driver
  <2>3. PathsMatchListeners' /\ StartsOverStalePaths' /\ SetUpInOrder' /\ PathsAreNamed'
    BY <1>2 DEF Restart, Down, PathsMatchListeners, StartsOverStalePaths, SetUpInOrder,
       PathsAreNamed, Serving
  <2> QED BY <1>2, <2>1, <2>2, <2>3, PictureStays DEF Restart
<1> QED BY <1>1, <1>2

LEMMA CameraStep == Safe /\ (Fill \/ FallSilent) => Safe'
<1> SUFFICES ASSUME Safe, Fill \/ FallSilent PROVE Safe'
  OBVIOUS
<1> USE DEF Safe, LoopInv
<1>1. /\ UNCHANGED <<process, sockets, held, lost, waiting, files, output, faults, kills>>
      /\ alive' \in BOOLEAN
      /\ empty' \cup filled' = empty \cup filled
      /\ empty \cap filled = {} => empty' \cap filled' = {}
      /\ empty = {} /\ filled = {} => empty' = {} /\ filled' = {}
  BY DEF Fill, FallSilent, driver, world, TypeOK
<1>2. TypeOK' /\ RoundsLeft'
  BY <1>1 DEF TypeOK, RoundsLeft, process, sockets, waiting, files
<1>3. OneOwner' /\ DriverAtRest'
  BY <1>1 DEF OneOwner, DriverAtRest, Serving, process
<1>4. PathsMatchListeners' /\ StartsOverStalePaths' /\ SetUpInOrder' /\ PathsAreNamed'
  BY <1>1 DEF PathsMatchListeners, StartsOverStalePaths, SetUpInOrder, PathsAreNamed, Serving,
     process, sockets
<1> QED BY <1>1, <1>2, <1>3, <1>4, PictureStays DEF process

--------------------------------------------------------------------------------
LEMMA SafeStep == Safe /\ [Next]_vars => Safe'
<1> SUFFICES ASSUME Safe, [Next]_vars PROVE Safe'
  OBVIOUS
<1>1. CASE UNCHANGED vars
  BY <1>1 DEF vars, process, sockets, driver, waiting, files, world, Safe, LoopInv, TypeOK,
     OneOwner, PathsMatchListeners, StartsOverStalePaths, SetUpInOrder, DriverAtRest,
     PathsAreNamed, RoundsLeft, WholeBeforeRename, OutputIsWhole, Serving
<1>2. CASE Next
  BY <1>2, SetUpStep, WaitStep, SignalStep, FrameStep, DownStep, CameraStep
     DEF Next, Daemon
<1> QED BY <1>1, <1>2

LEMMA AlwaysSafe == Spec => []Safe
  BY LoopInit, SafeStep, PTL DEF Spec

(* Whatever call fails and wherever the daemon is told to stop or killed:   *)
(* every buffer has one owner, the sockets that were asked for are there    *)
(* while frames are served and gone after an orderly end, and the paths a   *)
(* killed daemon left never keep the next one from starting.                *)
THEOREM LoopInvariant == Spec => []LoopInv
<1>1. Safe => LoopInv
  BY DEF Safe
<1> QED BY <1>1, AlwaysSafe, PTL

(* The --output file is never less than a whole picture, wherever the       *)
(* daemon is killed, unless the disk is full.                               *)
THEOREM PublishedIsWhole == Spec => []OutputIsWhole
<1>1. Safe => OutputIsWhole
  BY DEF Safe
<1> QED BY <1>1, AlwaysSafe, PTL
================================================================================
