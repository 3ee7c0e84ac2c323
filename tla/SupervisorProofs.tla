--------------------------- MODULE SupervisorProofs ---------------------------
(***************************************************************************)
(* Proofs about Supervisor, for every number of rounds a stop waits.       *)
(***************************************************************************)
EXTENDS Supervisor, TLAPS

LEMMA SupervisorInit == Init => SupervisorInv
<1> SUFFICES ASSUME Init PROVE SupervisorInv
  OBVIOUS
<1>1. tries \in 0 .. StopTries
  BY SupervisorAssumption DEF Init
<1>2. TypeOK
  BY <1>1 DEF Init, TypeOK
<1> QED BY <1>2 DEF Init, SupervisorInv, SupervisorIsNamed, ChildMatchesMonitor, StopReachesChild, StopEndsMonitor, Alive

(* fake-service on its own: nothing of the script changes. *)
LEMMA MonitorStep == SupervisorInv /\ Monitor => SupervisorInv'
<1> SUFFICES ASSUME SupervisorInv, Monitor PROVE SupervisorInv'
  OBVIOUS
<1> USE DEF SupervisorInv, Goes
<1>1. TypeOK'
  <2>1. /\ monitor' \in {"none", "boot", "test", "fork", "assign", "read", "wait", "reaped",
                          "judge", "sleep", "gone"}
        /\ child' \in Living \cup {"none", "ok", "failed"}
        /\ received' = received /\ (known' = known \/ known' \in BOOLEAN)
    BY DEF TypeOK, Monitor, InstallHandlers, TestSignal, Fork, AssignPid, ReadToEnd, Reap,
      ForgetPid, Judge, SleepOver, Living
  <2>2. UNCHANGED <<orphan, script, tries, wanted, pidfile, missed>>
    BY DEF Monitor, InstallHandlers, TestSignal, Fork, AssignPid, ReadToEnd, Reap,
      ForgetPid, Judge, SleepOver, service
  <2> QED BY <2>1, <2>2 DEF TypeOK
<1>2. SupervisorIsNamed' /\ StopEndsMonitor'
  BY DEF SupervisorIsNamed, StopEndsMonitor, Alive, Monitor, InstallHandlers, TestSignal, Fork,
    AssignPid, ReadToEnd, Reap, ForgetPid, Judge, SleepOver, service
<1>3. (orphan = "runs" => missed)'
  BY DEF Monitor, InstallHandlers, TestSignal, Fork,
    AssignPid, ReadToEnd, Reap, ForgetPid, Judge, SleepOver
<1>4. ChildMatchesMonitor'
  BY DEF TypeOK, ChildMatchesMonitor, Living, Monitor, InstallHandlers, TestSignal, Fork,
    AssignPid, ReadToEnd, Reap, ForgetPid, Judge, SleepOver
<1>5. StopReachesChild'
  BY DEF StopReachesChild, ChildMatchesMonitor, Alive, Living, Monitor, InstallHandlers,
    TestSignal, Fork, AssignPid, ReadToEnd, Reap, ForgetPid, Judge, SleepOver, service
<1> QED BY <1>1, <1>2, <1>3, <1>4, <1>5

LEMMA DaemonStep == SupervisorInv /\ (ChildExecs \/ ChildEnds \/ OrphanEnds) => SupervisorInv'
<1> SUFFICES ASSUME SupervisorInv, ChildExecs \/ ChildEnds \/ OrphanEnds PROVE SupervisorInv'
  OBVIOUS
<1>1. UNCHANGED <<monitor, received, known, script, tries, wanted, pidfile, missed>>
  BY DEF ChildExecs, ChildEnds, Child, OrphanEnds, service, supervisor
<1>2. /\ child' \in {child, "ok", "failed"} \/ (child = "born" /\ child' \in {"runs", "deaf"})
      /\ child' # child => child \in Living
      /\ orphan' \in {orphan, "none"}
  BY DEF ChildExecs, ChildEnds, Child, OrphanEnds, supervisor, Living
<1>3. TypeOK'
  BY <1>1, <1>2 DEF SupervisorInv, TypeOK, Living
<1>4. ChildMatchesMonitor' /\ StopReachesChild'
  BY <1>1, <1>2 DEF SupervisorInv, TypeOK, ChildMatchesMonitor, StopReachesChild, Alive, Living
<1> QED BY <1>1, <1>2, <1>3, <1>4 DEF SupervisorInv, SupervisorIsNamed, StopEndsMonitor, Alive

(* A stop's first signal: what it finds it ends, or it counts as missed. *)
LEMMA StopStep == SupervisorInv /\ Stop => SupervisorInv'
<1> SUFFICES ASSUME SupervisorInv, Stop PROVE SupervisorInv'
  OBVIOUS
<1> USE DEF SupervisorInv, Stop, Signal
<1>1. CASE Matches /\ pidfile = "monitor"
  <2>1. Term
    BY <1>1
  <2>2. TypeOK'
    <3>1. tries' \in 0 .. StopTries
      BY SupervisorAssumption
    <3>2. /\ received' \in BOOLEAN /\ known' \in BOOLEAN /\ missed' \in BOOLEAN
          /\ orphan' = orphan
      BY <2>1 DEF TypeOK, Term
    <3>3. /\ child' \in Living \cup {"none", "ok", "failed"}
          /\ monitor' \in {monitor, "gone", "wait", "test"}
      BY <2>1 DEF TypeOK, Term, Living
    <3> QED BY <2>1, <3>1, <3>2, <3>3 DEF TypeOK
  <2>3. ChildMatchesMonitor'
    BY <2>1 DEF TypeOK, ChildMatchesMonitor, Term, Living
  <2>4. SupervisorIsNamed' /\ StopEndsMonitor'
    BY <1>1, <2>1 DEF SupervisorIsNamed, StopEndsMonitor, Alive
  <2>5. StopReachesChild'
    <3>1. CASE monitor = "boot"
      BY <2>1, <3>1 DEF StopReachesChild, Alive, Term
    <3>2. CASE monitor # "boot" /\ Alive' /\ ~missed'
      <4>1. monitor \notin {"fork", "assign"} /\ child # "born" /\ received' /\ tries' = 0
            /\ script' = "waiting"
        BY <2>1, <3>2 DEF Term
      <4>2. monitor' \in {"test", "read", "wait", "reaped", "judge"}
        BY <2>1, <3>2, <4>1 DEF Term, Alive, TypeOK
      <4>3. child' # "runs" /\ child' # "born"
        BY <2>1, <3>2, <4>1 DEF Term, ChildMatchesMonitor, Living, TypeOK, Alive
      <4> QED BY <4>1, <4>2, <4>3 DEF StopReachesChild
    <3>3. CASE ~(Alive' /\ ~missed')
      BY <3>3 DEF StopReachesChild
    <3> QED BY <3>1, <3>2, <3>3
  <2>6. (orphan = "runs" => missed)'
    BY <2>1 DEF Term
  <2> QED BY <2>2, <2>3, <2>4, <2>5, <2>6
<1>2. CASE ~(Matches /\ pidfile = "monitor")
  <2>1. UNCHANGED <<supervisor, orphan, missed>>
    BY <1>2
  <2>2. ~Alive
    BY <1>2 DEF SupervisorIsNamed, Matches, NumberLives
  <2> QED BY <2>1, <2>2, SupervisorAssumption DEF supervisor, TypeOK, SupervisorIsNamed,
        ChildMatchesMonitor, StopReachesChild, StopEndsMonitor, Alive
<1> QED BY <1>1, <1>2

(* The second signal: what is left of the daemon is deaf or was missed. *)
LEMMA KillStep == SupervisorInv /\ SendKill => SupervisorInv'
<1> SUFFICES ASSUME SupervisorInv, SendKill PROVE SupervisorInv'
  OBVIOUS
<1> USE DEF SupervisorInv, SendKill, Signal
<1>1. CASE Matches /\ pidfile = "monitor"
  <2>1. Kill
    BY <1>1
  <2>2. TypeOK'
    BY <2>1 DEF TypeOK, Kill, Living
  <2>3. ~Alive' /\ child' = "none"
    BY <2>1 DEF Kill, Alive
  <2>4. (orphan = "runs" => missed)'
    <3>1. CASE missed
      BY <3>1, <2>1 DEF Kill
    <3>2. CASE ~missed
      <4>1. child \notin {"born", "runs", "told"}
        BY <1>1, <3>2 DEF StopReachesChild, Matches, NumberLives
      <4> QED BY <2>1, <4>1, <3>2 DEF Kill, Living
    <3> QED BY <3>1, <3>2
  <2>5. monitor' = "gone"
    BY <2>1 DEF Kill
  <2> QED BY <2>1, <2>2, <2>3, <2>4, <2>5 DEF SupervisorIsNamed, ChildMatchesMonitor, StopReachesChild, StopEndsMonitor
<1>2. CASE ~(Matches /\ pidfile = "monitor")
  <2>1. UNCHANGED <<supervisor, orphan, missed>>
    BY <1>2
  <2>2. ~Alive
    BY <1>2 DEF SupervisorIsNamed, Matches, NumberLives
  <2> QED BY <2>1, <2>2 DEF supervisor, TypeOK, SupervisorIsNamed,
        ChildMatchesMonitor, StopReachesChild, StopEndsMonitor, Alive
<1> QED BY <1>1, <1>2

(* The rounds of the wait, each of which finds the daemon at rest. *)
LEMMA WaitStep == SupervisorInv /\ (WaitForExit \/ WaitIsOver) => SupervisorInv'
<1> SUFFICES ASSUME SupervisorInv, WaitForExit \/ WaitIsOver PROVE SupervisorInv'
  OBVIOUS
<1> USE DEF SupervisorInv
<1>1. CASE WaitForExit
  <2>1. TypeOK'
    BY <1>1, SupervisorAssumption DEF WaitForExit, TypeOK, supervisor
  <2>2. StopReachesChild'
    BY <1>1 DEF WaitForExit, StopReachesChild, Settled, Alive, supervisor
  <2> QED BY <1>1, <2>1, <2>2 DEF WaitForExit, supervisor, SupervisorIsNamed, ChildMatchesMonitor, StopEndsMonitor, Alive
<1>2. CASE WaitIsOver
  <2>1. TypeOK'
    BY <1>2, SupervisorAssumption DEF WaitIsOver, TypeOK, supervisor
  <2>2. StopReachesChild'
    <3>1. Alive => tries > 0
      BY <1>2, SupervisorAssumption DEF WaitIsOver, NumberLives, SupervisorIsNamed
    <3> QED BY <1>2, <3>1 DEF WaitIsOver, StopReachesChild, Alive, supervisor
  <2> QED BY <1>2, <2>1, <2>2 DEF WaitIsOver, supervisor, SupervisorIsNamed, ChildMatchesMonitor, StopEndsMonitor, Alive
<1> QED BY <1>1, <1>2

LEMMA FileStep ==
  SupervisorInv /\ (RemovePidfile \/ Start \/ Launch \/ \E p \in {"stranger", "namesake"} : ReuseNumber(p))
    => SupervisorInv'
<1> SUFFICES ASSUME SupervisorInv,
                    RemovePidfile \/ Start \/ Launch \/ \E p \in {"stranger", "namesake"} : ReuseNumber(p)
             PROVE  SupervisorInv'
  OBVIOUS
<1> USE DEF SupervisorInv, TypeOK, SupervisorIsNamed, ChildMatchesMonitor,
      StopReachesChild, StopEndsMonitor, Alive, supervisor
<1>1. CASE RemovePidfile
  BY <1>1 DEF RemovePidfile
<1>2. CASE Start
  BY <1>2 DEF Start, NumberLives
<1>3. CASE Launch
  <2>1. CASE Matches
    BY <1>3, <2>1 DEF Launch, Matches, NumberLives
  <2>2. CASE ~Matches
    <3>1. /\ monitor' = "boot" /\ received' = FALSE /\ known' = FALSE /\ child' = "none"
          /\ pidfile' = "monitor" /\ script' = "idle"
          /\ UNCHANGED <<orphan, tries, wanted, missed>>
      BY <1>3, <2>2 DEF Launch
    <3>2. wanted = "up"
      BY <1>3 DEF Launch
    <3> QED BY <3>1, <3>2
  <2> QED BY <2>1, <2>2
<1>4. CASE \E p \in {"stranger", "namesake"} : ReuseNumber(p)
  BY <1>4 DEF ReuseNumber
<1> QED BY <1>1, <1>2, <1>3, <1>4

(* The inductive invariant holds, however many rounds a stop waits. *)
THEOREM SupervisorInvariant == Spec => []SupervisorInv
<1>1. SupervisorInv /\ [Next]_vars => SupervisorInv'
  <2> SUFFICES ASSUME SupervisorInv, [Next]_vars PROVE SupervisorInv'
    OBVIOUS
  <2>1. CASE UNCHANGED vars
    BY <2>1 DEF vars, supervisor, service, SupervisorInv, TypeOK, SupervisorIsNamed,
      ChildMatchesMonitor, StopReachesChild, StopEndsMonitor, Alive
  <2> QED BY <2>1, MonitorStep, DaemonStep, StopStep, KillStep, WaitStep, FileStep DEF Next, Command
<1> QED BY <1>1, SupervisorInit, PTL DEF Spec

(* A living fake-service is the one the pid file names. *)
THEOREM LivingSupervisorIsNamed == Spec => []SupervisorIsNamed
<1>1. SupervisorInv => SupervisorIsNamed
  BY DEF SupervisorInv
<1> QED BY <1>1, SupervisorInvariant, PTL

(* A stop whose signal found the daemon leaves only one that would not end. *)
THEOREM PoliteStopWorks == Spec => []PoliteStopFreesCamera
<1>1. SupervisorInv => PoliteStopFreesCamera
  BY DEF SupervisorInv, PoliteStopFreesCamera, StopEndsMonitor, ChildMatchesMonitor, Alive,
    Living, TypeOK
<1> QED BY <1>1, SupervisorInvariant, PTL
================================================================================
