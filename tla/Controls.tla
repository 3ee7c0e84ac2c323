------------------------------- MODULE Controls -------------------------------
(***************************************************************************)
(* control-v4l2.py: one thread that serves requests to set or reset the    *)
(* camera's controls, keeps what was set in a state file, and puts it back *)
(* when it is started.  Beside it: the camera, whose dependent controls    *)
(* refuse a value while their automatic mode is on, which may be replaced  *)
(* by another at any time; v4l2-ctl, any call of which may fail or time    *)
(* out; and a SIGKILL between any two steps.                               *)
(*                                                                         *)
(* The service is started with --state-file.  A request is one whole line  *)
(* (get, list and info change nothing and are left out).                   *)
(***************************************************************************)
EXTENDS Naturals, FiniteSets, Functions

CONSTANTS
    Controls,       \* the names of controls
    Autos,          \* AUTO_FIRST_CONTROLS
    Dependents,     \* Dependents[a]: what the automatic mode a drives
    ReadOnly,       \* the controls a camera lets nobody set
    Rank,           \* Rank[c]: where c stands in alphabetical order
    Cameras,        \* the cameras that may be plugged in
    InRange,        \* InRange[k][c]: the values that pass for c with camera k, {} if
                    \* it has no c: its minimum to its maximum, or all if it names none
    Makes,          \* Makes[k][c]: what k makes of each of those it takes: rounded to
                    \* its step, or to 0 and 1; it takes no entry its menu lacks
    Default,        \* Default[k][c]: the value c has when k is plugged in
    Requests,       \* the values a client may ask for
    MaxFaults,      \* bound: calls of v4l2-ctl or writes that fail unprovoked
    MaxSwaps        \* bound: times the camera is replaced or loses power

On == 1

\* A function from some of the controls to values.
IsSettings(f) == DOMAIN f \subseteq Controls /\ f \in [DOMAIN f -> Nat]

ASSUME ControlsAssumption ==
    /\ Autos \subseteq Controls /\ ReadOnly \subseteq Controls
    /\ Dependents \in [Autos -> SUBSET (Controls \ Autos)]
    /\ Rank \in [Controls -> Nat]
    /\ \A c, d \in Controls : Rank[c] = Rank[d] => c = d
    /\ InRange \in [Cameras -> [Controls -> SUBSET Nat]]
    /\ Default \in [Cameras -> [Controls -> Nat]]
    /\ \A k \in Cameras : \A c \in Controls :
           /\ Makes[k][c] \in [DOMAIN Makes[k][c] -> Nat]
           /\ DOMAIN Makes[k][c] \subseteq InRange[k][c]
           /\ InRange[k][c] # {} => Default[k][c] \in DOMAIN Makes[k][c]
    /\ \A r \in Requests : IsSettings(r)
    /\ MaxFaults \in Nat /\ MaxSwaps \in Nat

VARIABLES
    camera,     \* the camera plugged in
    device,     \* device[c]: the value of c in the camera
    file,       \* the state file: whether it is whole JSON, and its values;
                \* no file is the same to the program as one without values
    tmp,        \* its ".tmp" sibling
    pc,         \* where the service is
    job,        \* what it is doing: "restore", "set", "reset" or "none"
    asked,      \* the values of the request
    want,       \* the values it is to apply
    todo,       \* the controls still to be applied one by one
    answer,     \* "ok" or "error" once the request is decided, "none" before
    faults, swaps,  \* for the bounds
    upset       \* history: the camera or a call failed during this job

vars == <<camera, device, file, tmp, pc, job, asked, want, todo, answer,
          faults, swaps, upset>>
cameraVars == <<camera, device, swaps>>
fileVars == <<file, tmp>>

Store == INSTANCE ControlStore WITH
    stored <- file.values,
    request <- IF job \in {"set", "reset"}
               THEN [kind |-> job,
                     values |-> Restrict(asked, DOMAIN asked \ ReadOnly)]
               ELSE [kind |-> "none", values |-> [c \in {} |-> 0]],
    phase <- IF job \notin {"set", "reset"} THEN "idle"
             ELSE IF answer = "none" THEN "asked"
             ELSE IF answer = "ok" THEN "done" ELSE "refused"

Nothing == Store!Nothing
Whole(values) == [whole |-> TRUE, values |-> values]
Torn == [whole |-> FALSE, values |-> Nothing]

Init ==
    /\ camera \in Cameras
    /\ device = Default[camera]
    /\ file = Whole(Nothing) /\ tmp = Whole(Nothing)
    /\ pc = "down" /\ job = "none"
    /\ asked = Nothing /\ want = Nothing /\ todo = {} /\ answer = "none"
    /\ faults = 0 /\ swaps = 0 /\ upset = FALSE

-----------------------------------------------------------------------------
(* The camera and v4l2-ctl *)

\* What the automatic modes that are on drive themselves.
Held(d) == UNION {Dependents[a] : a \in {b \in Autos : d[b] = On}}

Offered == {c \in Controls : InRange[camera][c] # {}}

Taken(c) == DOMAIN Makes[camera][c]
Made(c, v) == Makes[camera][c][v]

\* The camera takes the value v for c as it is now.
Takes(c, v) == c \notin Held(device) \cup ReadOnly /\ v \in Taken(c)

\* Something fails that no state of the camera explains.
Fault ==
    /\ faults < MaxFaults
    /\ faults' = faults + 1
    /\ upset' = TRUE

Calm == UNCHANGED <<faults, upset>>

\* Another camera is plugged in, or this one loses power.
Replug(k) ==
    /\ swaps < MaxSwaps
    /\ swaps' = swaps + 1
    /\ camera' = k
    /\ device' = Default[k]
    /\ upset' = TRUE
    /\ UNCHANGED <<fileVars, pc, job, asked, want, todo, answer, faults>>

\* An automatic mode moves what it drives.
Drift(c, v) ==
    /\ c \in Held(device) /\ v \in Range(Makes[camera][c])
    /\ device' = [device EXCEPT ![c] = v]
    /\ UNCHANGED <<camera, swaps, fileVars, pc, job, asked, want, todo, answer>>
    /\ Calm

\* v4l2-ctl --set-ctrl with several values reports success.
Applied(values) ==
    /\ \A c \in DOMAIN values : Takes(c, values[c])
    /\ device' = [c \in Controls |->
                     IF c \in DOMAIN values THEN Made(c, values[c]) ELSE device[c]]
    /\ Calm

\* It reports a failure, or nothing for three seconds: the camera may have
\* taken any of the values it takes, and all of them.
NotApplied(values) ==
    LET accepted == {c \in DOMAIN values : Takes(c, values[c])} IN
    /\ DOMAIN values # {}
    /\ \E S \in SUBSET accepted :
           device' = [c \in Controls |->
                         IF c \in S THEN Made(c, values[c]) ELSE device[c]]
    /\ IF accepted = DOMAIN values THEN Fault ELSE Calm

-----------------------------------------------------------------------------
(* The helpers of control-v4l2.py *)

\* validate_values: one unknown name or one value out of range spoils all.
\* The step and the entries of a menu are not looked at: a valid value may
\* yet be refused by the camera, or rounded.
Valid(values) ==
    \A c \in DOMAIN values :
        /\ c \in Offered
        /\ c \in ReadOnly \/ values[c] \in InRange[camera][c]

Validated(values) == Restrict(values, DOMAIN values \ ReadOnly)

\* Mutant: alphabetical order alone.
BeforeByName(c, d) == Rank[c] < Rank[d]

\* order_controls_by_precedence
Before(c, d) ==
    \/ c \in Autos /\ d \notin Autos
    \/ (c \in Autos <=> d \in Autos) /\ Rank[c] < Rank[d]

IsFirst(c, names) == \A d \in names \ {c} : Before(c, d)

\* load_state: a file that is not JSON counts as none.
LoadState == IF file.whole THEN file.values ELSE Nothing

Idle ==
    /\ pc' = "idle" /\ job' = "none" /\ answer' = "none"
    /\ asked' = Nothing /\ want' = Nothing /\ todo' = {}

Decide(result) == pc' = "answer" /\ answer' = result
Go(label) == pc' = label /\ answer' = answer

-----------------------------------------------------------------------------
(* Starting: restore_state, then serve_socket *)

Start ==
    /\ pc = "down"
    /\ pc' = "restore" /\ job' = "restore"
    /\ upset' = FALSE
    /\ UNCHANGED <<cameraVars, fileVars, asked, want, todo, answer, faults>>

\* Nothing kept, the camera cannot be asked, or a kept value is not valid for
\* it: the service goes on without restoring anything.
RestoreNothing ==
    /\ pc = "restore"
    /\ \/ (LoadState = Nothing \/ ~Valid(LoadState)) /\ Calm
       \/ LoadState # Nothing /\ Fault
    /\ Go("restored")
    /\ UNCHANGED <<cameraVars, fileVars, job, asked, want, todo>>

RestoreBegins ==
    /\ pc = "restore"
    /\ LoadState # Nothing /\ Valid(LoadState)
    /\ want' = Validated(LoadState)
    /\ todo' = DOMAIN want'
    /\ Go("singles")
    /\ Calm
    /\ UNCHANGED <<cameraVars, fileVars, job, asked>>

\* Mutant: what fails is tried again until it works.
ApplySingleRetries ==
    /\ pc = "singles"
    /\ \E c \in todo :
           /\ IsFirst(c, todo)
           /\ \/ Applied(Restrict(want, {c})) /\ todo' = todo \ {c}
              \/ NotApplied(Restrict(want, {c})) /\ todo' = todo
    /\ UNCHANGED <<camera, swaps, fileVars, pc, job, asked, want, answer>>

\* The loop of restore_state and of handle_reset_method: one call for each
\* control, and a failure is only noted.
ApplySingle ==
    /\ pc = "singles"
    /\ \E c \in todo :
           /\ IsFirst(c, todo)
           /\ Applied(Restrict(want, {c})) \/ NotApplied(Restrict(want, {c}))
           /\ todo' = todo \ {c}
    /\ UNCHANGED <<camera, swaps, fileVars, pc, job, asked, want, answer>>

SinglesDone ==
    /\ pc = "singles" /\ todo = {}
    /\ Go(IF job = "reset" THEN "unlink" ELSE "restored")
    /\ Calm
    /\ UNCHANGED <<cameraVars, fileVars, job, asked, want, todo>>

\* serve_socket unlinks the path a killed service left and listens.
Listen ==
    /\ pc = "restored"
    /\ Idle /\ Calm
    /\ UNCHANGED <<cameraVars, fileVars>>

-----------------------------------------------------------------------------
(* Requests *)

\* A connection is accepted and its line read.
AskSet(values) ==
    /\ pc = "idle"
    /\ pc' = "request" /\ job' = "set"
    /\ asked' = values
    /\ upset' = FALSE
    /\ UNCHANGED <<cameraVars, fileVars, want, todo, answer, faults>>

AskReset ==
    /\ pc = "idle"
    /\ pc' = "request" /\ job' = "reset"
    /\ upset' = FALSE
    /\ UNCHANGED <<cameraVars, fileVars, asked, want, todo, answer, faults>>

\* fetch_controls raises, or validate_values does.
RequestFails ==
    /\ pc = "request"
    /\ \/ Fault
       \/ job = "set" /\ ~Valid(asked) /\ Calm
    /\ Decide("error")
    /\ UNCHANGED <<cameraVars, fileVars, job, asked, want, todo>>

SetBegins ==
    /\ pc = "request" /\ job = "set"
    /\ Valid(asked)
    /\ want' = Validated(asked)
    /\ Go("autos")
    /\ Calm
    /\ UNCHANGED <<cameraVars, fileVars, job, asked, todo>>

\* Mutant: the automatic modes are set last.
GroupLate == Restrict(want, IF pc = "rest" THEN DOMAIN want \cap Autos
                                           ELSE DOMAIN want \ Autos)

\* split_controls_by_precedence and the two calls of apply_controls.
Group == Restrict(want, IF pc = "autos" THEN DOMAIN want \cap Autos
                                        ELSE DOMAIN want \ Autos)

ApplyGroup ==
    /\ pc \in {"autos", "rest"}
    /\ \/ Applied(Group) /\ Go(IF pc = "autos" THEN "rest" ELSE "write")
       \/ NotApplied(Group) /\ Decide("error")
    /\ UNCHANGED <<camera, swaps, fileVars, job, asked, want, todo>>

\* Mutant: the state file is written in place.
OpenTmpInPlace ==
    /\ pc = "write"
    /\ file' = Torn
    /\ Go("fill")
    /\ Calm
    /\ UNCHANGED <<cameraVars, tmp, job, asked, want, todo>>

\* save_state: write_text truncates the temporary file, fills it and closes.
OpenTmp ==
    /\ pc = "write"
    /\ tmp' = Torn
    /\ Go("fill")
    /\ Calm
    /\ UNCHANGED <<cameraVars, file, job, asked, want, todo>>

\* Mutant: only the values of this request are saved.
FillTmpAlone ==
    /\ pc = "fill"
    /\ tmp' = Whole(want)
    /\ Go("replace")
    /\ Calm
    /\ UNCHANGED <<cameraVars, file, job, asked, want, todo>>

FillTmp ==
    /\ pc = "fill"
    /\ tmp' = Whole(Store!Updated(LoadState, want))
    /\ Go("replace")
    /\ Calm
    /\ UNCHANGED <<cameraVars, file, job, asked, want, todo>>

\* The disk is full: the exception becomes the answer.
FillFails ==
    /\ pc = "fill"
    /\ Fault
    /\ Decide("error")
    /\ UNCHANGED <<cameraVars, fileVars, job, asked, want, todo>>

Replace ==
    /\ pc = "replace"
    /\ file' = tmp
    /\ Decide("ok")
    /\ Calm
    /\ UNCHANGED <<cameraVars, tmp, job, asked, want, todo>>

ResetBegins ==
    /\ pc = "request" /\ job = "reset"
    /\ want' = Restrict(Default[camera], Offered \ ReadOnly)
    /\ todo' = DOMAIN want'
    /\ Go("singles")
    /\ Calm
    /\ UNCHANGED <<cameraVars, fileVars, job, asked>>

\* The state file is removed, whatever the camera refused.
Unlink ==
    /\ pc = "unlink"
    /\ file' = Whole(Nothing)
    /\ Decide("ok")
    /\ Calm
    /\ UNCHANGED <<cameraVars, tmp, job, asked, want, todo>>

\* The answer is sent, to a client that may be gone, and the connection closed.
SendAnswer ==
    /\ pc = "answer"
    /\ Idle /\ Calm
    /\ UNCHANGED <<cameraVars, fileVars>>

\* SIGKILL: the camera and the files stay as they are.
Kill ==
    /\ pc # "down"
    /\ pc' = "down" /\ job' = "none" /\ answer' = "none"
    /\ asked' = Nothing /\ want' = Nothing /\ todo' = {}
    /\ Calm
    /\ UNCHANGED <<cameraVars, fileVars>>

-----------------------------------------------------------------------------
\* What the service does once it has something to do.
Work ==
    \/ RestoreNothing \/ RestoreBegins \/ ApplySingle \/ SinglesDone \/ Listen
    \/ RequestFails \/ SetBegins \/ ApplyGroup
    \/ OpenTmp \/ FillTmp \/ FillFails \/ Replace
    \/ ResetBegins \/ Unlink \/ SendAnswer

Next ==
    \/ Start \/ Work \/ Kill
    \/ \E values \in Requests : AskSet(values)
    \/ AskReset
    \/ \E k \in Cameras : Replug(k)
    \/ \E c \in Controls : \E v \in Range(Makes[camera][c]) : Drift(c, v)

Spec == Init /\ [][Next]_vars /\ WF_vars(Work)

-----------------------------------------------------------------------------
(* Properties *)

TypeOK ==
    /\ camera \in Cameras /\ device \in [Controls -> Nat]
    /\ file \in {Torn, Whole(file.values)} /\ IsSettings(file.values)
    /\ tmp \in {Torn, Whole(tmp.values)} /\ IsSettings(tmp.values)
    /\ IsSettings(asked) /\ IsSettings(want) /\ todo \in SUBSET DOMAIN want
    /\ pc \in {"down", "restore", "singles", "restored", "idle", "request",
               "autos", "rest", "write", "fill", "replace", "unlink", "answer"}
    /\ job \in {"none", "restore", "set", "reset"}
    /\ answer \in {"none", "ok", "error"}
    /\ faults \in 0..MaxFaults /\ swaps \in 0..MaxSwaps /\ upset \in BOOLEAN

\* Which job each place in the program belongs to.
JobMatchesPlace ==
    /\ job = "none" <=> pc \in {"down", "idle"}
    /\ answer # "none" <=> pc = "answer"
    /\ pc \in {"restore", "restored"} => job = "restore"
    /\ pc \in {"request", "answer"} => job \in {"set", "reset"}
    /\ pc = "unlink" => job = "reset"
    /\ todo # {} => pc = "singles"
    /\ pc = "singles" => job \in {"restore", "reset"}
    /\ pc \in {"autos", "rest", "write", "fill", "replace"} =>
           job = "set" /\ want = Validated(asked)

\* Whenever a SIGKILL comes, the state file is whole JSON, and what is about
\* to replace it is the old values with all those of the request over them
\* (save_state, load_state, handle_set_method).
ControlsInv ==
    /\ TypeOK
    /\ JobMatchesPlace
    /\ file.whole
    /\ pc = "replace" => tmp = Whole(Store!Updated(file.values, want))

\* What is kept is a store that changes by whole requests: acknowledged
\* values survive every SIGKILL and those of a failed request are not kept,
\* though the camera may have taken some of them (handle_set_method,
\* handle_reset_method, save_state).
ImplementsStore == Store!StoreSpec

\* c has the value as this camera makes it, or is driven by an automatic mode.
InPlace(c, value) ==
    c \in Held(device) \/ (value \in Taken(c) /\ device[c] = Made(c, value))

\* A value this camera does not take is passed over when values are applied
\* one by one; a set is refused for it.
PassedOver(c, value) == job # "set" /\ value \notin Taken(c)

Settable == \A c \in DOMAIN want : c \notin ReadOnly /\ want[c] \in InRange[camera][c]

\* The controls the job has dealt with.
Dealt ==
    {c \in DOMAIN want :
        \/ pc = "singles" /\ c \notin todo
        \/ pc = "rest" /\ c \in Autos
        \/ pc \in {"write", "fill", "replace", "unlink"}}

\* As long as nothing failed, what was dealt with is in place and stays there,
\* because the automatic modes come first.
InForceSoFar ==
    ~upset =>
        /\ pc \in {"singles", "autos", "rest"} => Settable
        /\ \A c \in Dealt : InPlace(c, want[c]) \/ PassedOver(c, want[c])
        /\ pc = "singles" => todo \cap Autos = {} \/ DOMAIN want \ todo \subseteq Autos
        /\ pc = "singles" /\ job = "restore" => want = Validated(file.values)

\* The job's values are in force when it ends and nothing failed meanwhile:
\* after a set, those asked for; after a reset, the defaults; after a start,
\* the values kept over the restart, if all of them are in range for this
\* camera, and then those of them it takes, whatever else it refuses.  An
\* automatic mode that is on excuses what it drives (restore_state,
\* handle_set_method, handle_reset_method).
Target ==
    IF pc = "answer" THEN want
    ELSE IF Valid(file.values) THEN Validated(file.values) ELSE Nothing

InForceAtEnd ==
    (pc = "restored" \/ answer = "ok") /\ ~upset =>
        \A c \in DOMAIN Target : InPlace(c, Target[c]) \/ PassedOver(c, Target[c])

InForce == InForceSoFar /\ InForceAtEnd

\* The camera with the values wanted of it, as far as it takes them.
Aimed ==
    [c \in Controls |-> IF c \in DOMAIN want /\ want[c] \in Taken(c)
                        THEN Made(c, want[c]) ELSE device[c]]

\* When nothing fails of itself, a set is refused only because it names a
\* control the camera has not, a value out of range or one the camera does
\* not take, or a control whose automatic mode is on and stays on: to switch
\* a mode off and set what it drove takes one request (README.md:73 of
\* control-v4l2).
NoNeedlessError ==
    answer = "error" /\ ~upset =>
        \/ ~Valid(asked)
        \/ \E c \in DOMAIN want : want[c] \notin Taken(c) \/ c \in Held(Aimed)

\* A request is decided and its client let go, whatever v4l2-ctl does, and a
\* start ends in serving, unless the service is killed.
JobEnds == (job # "none") ~> (pc \in {"idle", "down"})
=============================================================================
