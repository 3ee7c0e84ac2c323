------------------------------ MODULE Supervisor ------------------------------
(***************************************************************************)
(* One supervised daemon: fake-service, which starts it, starts it again   *)
(* when it fails and passes signals on, and the init script that starts    *)
(* and stops fake-service through a pid file.                              *)
(* src/fake-service/main.c, src/plugin/files/etc/init.d/s65camera-hw.      *)
(*                                                                         *)
(* fake-service is followed from statement to statement wherever a signal  *)
(* between two of them makes a difference.  A pid file holds a number; of  *)
(* it the model keeps what the number names.                               *)
(***************************************************************************)
EXTENDS Naturals

CONSTANT StopTries  \* STOP_WAIT_TRIES

ASSUME SupervisorAssumption == StopTries \in Nat \ {0}

VARIABLES
  monitor,   \* where fake-service is
  received,  \* received_signal # 0
  known,     \* child_pid > 0
  child,     \* the daemon it started
  orphan,    \* a daemon whose fake-service is dead: "none", "runs", "deaf"
  script,    \* where the init script is
  tries,     \* exit_tries
  wanted,    \* what the last command of the script was to bring about
  pidfile,   \* "none", or whose number it holds: that of fake-service, living
             \* or dead, or by now another program's, or a namesake's
  missed     \* history: a stop came when its signal could reach no daemon

supervisor == <<monitor, received, known, child>>
service    == <<script, tries, wanted, pidfile>>
vars       == <<supervisor, orphan, service, missed>>

Alive == monitor \notin {"none", "gone"}

(* A daemon is "born" until its signals are SIG_DFL and it is exec'ed.  One   *)
(* that "runs" is "told" to end by a TERM, a "deaf" one does not end for it.  *)
(* "ok" and "failed" are how it ended.                                        *)
Living == {"born", "runs", "deaf", "told"}

TypeOK ==
  /\ monitor \in {"none", "boot", "test", "fork", "assign", "read", "wait", "reaped",
                  "judge", "sleep", "gone"}
  /\ received \in BOOLEAN /\ known \in BOOLEAN
  /\ child \in Living \cup {"none", "ok", "failed"}
  /\ orphan \in {"none", "runs", "deaf"}
  /\ script \in {"idle", "waiting", "kill", "remove", "launch"}
  /\ tries \in 0 .. StopTries /\ wanted \in {"up", "down"}
  /\ pidfile \in {"none", "monitor", "stranger", "namesake"}
  /\ missed \in BOOLEAN

Init ==
  /\ monitor = "none" /\ received = FALSE /\ known = FALSE /\ child = "none"
  /\ orphan = "none"
  /\ script = "idle" /\ tries = 0 /\ wanted = "down" /\ pidfile = "none"
  /\ missed = FALSE

--------------------------------------------------------------------------------
(* fake-service *)

Goes(from, to) ==
  /\ monitor = from /\ monitor' = to
  /\ UNCHANGED <<orphan, service, missed>>

InstallHandlers == Goes("boot", "test") /\ UNCHANGED <<received, known, child>>

TestSignal ==
  /\ Goes("test", IF received THEN "gone" ELSE "fork")
  /\ UNCHANGED <<received, known, child>>

Fork == Goes("fork", "assign") /\ child' = "born" /\ UNCHANGED <<received, known>>

AssignPid == Goes("assign", "read") /\ known' = TRUE /\ UNCHANGED <<received, child>>

(* log_child_output reads to the end, which is when the daemon has ended. *)
ReadToEnd ==
  /\ child \notin Living
  /\ Goes("read", "wait") /\ UNCHANGED <<received, known, child>>

Reap ==
  /\ child \notin Living
  /\ Goes("wait", "reaped") /\ UNCHANGED <<received, known, child>>

ForgetPid == Goes("reaped", "judge") /\ known' = FALSE /\ UNCHANGED <<received, child>>

(* A daemon that failed is started again after a delay, unless a signal came. *)
Judge ==
  /\ Goes("judge", IF child = "failed" /\ ~received THEN "sleep" ELSE "gone")
  /\ child' = "none" /\ UNCHANGED <<received, known>>

SleepOver == Goes("sleep", "test") /\ UNCHANGED <<received, known, child>>

(* Mutant: the handler only notes the signal. *)
TermNoted ==
  IF monitor = "boot"
  THEN monitor' = "gone" /\ UNCHANGED <<received, known, child, orphan, missed>>
  ELSE /\ received' = TRUE
       /\ monitor' = CASE monitor = "read" -> "wait"
                       [] monitor = "sleep" -> "test"
                       [] OTHER -> monitor
       /\ UNCHANGED <<known, child, orphan, missed>>

(* signal_handler, and what the signal interrupts: the sleep, and the read  *)
(* of the daemon's output, which is over with that.  Before the handlers    *)
(* are set it ends the program.  It reaches no daemon between the test of   *)
(* received_signal and the assignment of child_pid, nor one that has not    *)
(* yet given up fake-service's own handlers.                                *)
Term ==
  IF monitor = "boot"
  THEN monitor' = "gone" /\ UNCHANGED <<received, known, child, orphan, missed>>
  ELSE /\ received' = TRUE
       /\ child' = IF known /\ child = "runs" THEN "told" ELSE child
       /\ missed' = (missed \/ monitor \in {"fork", "assign"} \/ child = "born")
       /\ monitor' = CASE monitor = "read" -> "wait"
                       [] monitor = "sleep" -> "test"
                       [] OTHER -> monitor
       /\ UNCHANGED <<known, orphan>>

(* KILL passes nothing on: the daemon is left alone. *)
Kill ==
  /\ monitor' = "gone"
  /\ orphan' = CASE orphan # "none" \/ child \notin Living -> orphan
                 [] child = "deaf" -> "deaf"
                 [] OTHER -> "runs"
  /\ child' = "none"
  /\ UNCHANGED <<received, known, missed>>

--------------------------------------------------------------------------------
(* The daemon.  Two cannot hold the camera: beside an orphan it fails.  Its *)
(* output has no reader once its fake-service is gone or was interrupted in *)
(* the read; the next line it writes may end it.                            *)

Child(c) ==
  /\ child' = c
  /\ UNCHANGED <<monitor, received, known, orphan, service, missed>>

ChildExecs == child = "born" /\ orphan = "none" /\ \E c \in {"runs", "deaf"} : Child(c)
ChildEnds ==
  \/ child \in Living /\ Child("failed")
  \/ child \in Living \ {"born"} /\ Child("ok")

OrphanEnds ==
  /\ orphan # "none" /\ orphan' = "none"
  /\ UNCHANGED <<supervisor, service, missed>>

--------------------------------------------------------------------------------
(* The init script *)

NumberLives == pidfile \in {"stranger", "namesake"} \/ (pidfile = "monitor" /\ Alive)

(* start-stop-daemon -p pidfile -x program *)
Matches == NumberLives /\ pidfile # "stranger"

(* signal_the_service; a namesake that gets the signal is not followed here. *)
Signal(effect) ==
  IF Matches /\ pidfile = "monitor" THEN effect ELSE UNCHANGED <<supervisor, orphan, missed>>

Stop ==
  /\ script = "idle" /\ script' = "waiting"
  /\ tries' = 0 /\ wanted' = "down"
  /\ Signal(Term)
  /\ UNCHANGED pidfile

(* A second is longer than what the others do without being kept waiting. *)
Settled ==
  /\ child \notin {"born", "told"}
  /\ ~Alive \/ (monitor \in {"read", "wait"} /\ child \in Living)

(* Mutant: the rounds are not counted. *)
WaitUncounted ==
  /\ script = "waiting" /\ NumberLives /\ Settled
  /\ UNCHANGED vars

(* wait_for_pidfile_process_to_exit *)
WaitForExit ==
  /\ script = "waiting" /\ NumberLives /\ tries < StopTries /\ Settled
  /\ tries' = tries + 1
  /\ UNCHANGED <<supervisor, orphan, script, wanted, pidfile, missed>>

WaitIsOver ==
  /\ script = "waiting" /\ (~NumberLives \/ tries = StopTries)
  /\ script' = "kill" /\ tries' = 0
  /\ UNCHANGED <<supervisor, orphan, wanted, pidfile, missed>>

(* Mutant: no second signal for a service that stays. *)
NoKill ==
  /\ script = "kill" /\ script' = "remove"
  /\ UNCHANGED <<supervisor, orphan, missed, tries, wanted, pidfile>>

SendKill ==
  /\ script = "kill" /\ script' = "remove"
  /\ Signal(Kill)
  /\ UNCHANGED <<tries, wanted, pidfile>>

RemovePidfile ==
  /\ script = "remove" /\ script' = "idle" /\ pidfile' = "none"
  /\ UNCHANGED <<supervisor, orphan, tries, wanted, missed>>

(* start: clear_pidfile_of_dead_process, then start-stop-daemon -S *)
Start ==
  /\ script = "idle" /\ script' = "launch" /\ wanted' = "up"
  /\ pidfile' = IF NumberLives THEN pidfile ELSE "none"
  /\ UNCHANGED <<supervisor, orphan, tries, missed>>

Launch ==
  /\ script = "launch" /\ script' = "idle"
  /\ IF Matches THEN UNCHANGED <<supervisor, pidfile>>
     ELSE /\ monitor' = "boot" /\ received' = FALSE /\ known' = FALSE /\ child' = "none"
          /\ pidfile' = "monitor"
  /\ UNCHANGED <<orphan, tries, wanted, missed>>

(* The kernel hands the number of a dead process to another one. *)
ReuseNumber(p) ==
  /\ pidfile = "monitor" /\ ~Alive /\ pidfile' = p
  /\ UNCHANGED <<supervisor, orphan, script, tries, wanted, missed>>

--------------------------------------------------------------------------------
Monitor == InstallHandlers \/ TestSignal \/ Fork \/ AssignPid \/ ReadToEnd \/ Reap
             \/ ForgetPid \/ Judge \/ SleepOver
Command == WaitForExit \/ WaitIsOver \/ SendKill \/ RemovePidfile \/ Launch

Next ==
  \/ Monitor
  \/ ChildExecs \/ ChildEnds \/ OrphanEnds
  \/ Stop \/ Start \/ Command
  \/ \E p \in {"stranger", "namesake"} : ReuseNumber(p)

Spec == Init /\ [][Next]_vars

(* fake-service and a command of the script run on; a daemon that was told   *)
(* to end does, and one that was forked is exec'ed or fails.                 *)
FairSpec ==
  /\ Spec
  /\ WF_vars(Monitor) /\ WF_vars(Command)
  /\ WF_vars(child \in {"born", "told"} /\ (ChildExecs \/ ChildEnds))

--------------------------------------------------------------------------------
(* Properties *)

(* A fake-service that lives is the one the pid file names, whatever became *)
(* of starts and stops: no stop misses it, no start puts a second beside it *)
(* (s65camera-hw:51-55).                                                    *)
SupervisorIsNamed == Alive => pidfile = "monitor"

(* A stop whose signal found the daemon leaves no daemon behind that would    *)
(* have ended for it.                                                         *)
PoliteStopFreesCamera ==
  script = "idle" /\ wanted = "down" /\ ~missed
    => child \notin Living /\ orphan # "runs"

(* A stop waits for the process to really be gone (s65camera-hw:54): when it  *)
(* is done nobody holds the camera.                                           *)
StopFreesCamera ==
  script = "idle" /\ wanted = "down" => child \notin Living /\ orphan = "none"

(* A command of the script ends, whatever the daemon does. *)
CommandEnds == script # "idle" ~> script = "idle"

(* The inductive invariant: where a daemon can be while fake-service is      *)
(* where it is, that a signal which missed nobody leaves nothing to run on,  *)
(* and that the script has seen the end of what it removes the pid file of.  *)
ChildMatchesMonitor ==
  /\ monitor \in {"none", "gone", "boot", "test", "fork", "sleep"} => child = "none"
  /\ monitor \in {"reaped", "judge"} => child \in {"ok", "failed"}
  /\ monitor \in {"assign", "read", "wait"} => child \in Living \cup {"ok", "failed"}
  /\ monitor \in {"read", "wait"} => known

StopReachesChild ==
  script \in {"waiting", "kill"} /\ Alive /\ ~missed =>
    /\ received /\ monitor \in {"test", "read", "wait", "reaped", "judge"}
    /\ child \notin {"born", "runs"}
    /\ script = "kill" \/ tries > 0 => child # "told"

StopEndsMonitor ==
  /\ script = "remove" \/ (script = "idle" /\ wanted = "down") => ~Alive
  /\ script = "launch" => wanted = "up"

SupervisorInv ==
  /\ TypeOK
  /\ SupervisorIsNamed
  /\ ChildMatchesMonitor
  /\ StopReachesChild
  /\ StopEndsMonitor
  /\ orphan = "runs" => missed
================================================================================
