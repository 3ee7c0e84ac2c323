---------------------------- MODULE ControlsProofs ----------------------------
(***************************************************************************)
(* Proofs about Controls: the invariant, and that the service implements   *)
(* ControlStore, for any controls, cameras, requests and number of faults. *)
(***************************************************************************)
EXTENDS Controls, TLAPS

(* Functions from some of the controls stay such under the two operations the
   service has: leaving controls out, and writing over. *)
LEMMA RestrictIsSettings ==
    ASSUME NEW f, IsSettings(f), NEW S, S \subseteq DOMAIN f
    PROVE  IsSettings(Restrict(f, S)) /\ DOMAIN Restrict(f, S) = S
BY DEF IsSettings, Restrict

LEMMA UpdatedIsSettings ==
    ASSUME NEW f, IsSettings(f), NEW g, IsSettings(g)
    PROVE  IsSettings(Store!Updated(f, g))
BY DEF IsSettings, Store!Updated

LEMMA NothingIsSettings == IsSettings(Nothing)
BY DEF IsSettings, Nothing, Store!Nothing

LEMMA ValidatedIsSettings ==
    ASSUME NEW f, IsSettings(f) PROVE IsSettings(Validated(f))
BY RestrictIsSettings DEF Validated

LEMMA WholeIsRecord ==
    ASSUME NEW f
    PROVE  /\ Whole(f).whole = TRUE /\ Whole(f).values = f
           /\ Torn.whole = FALSE /\ Torn.values = Nothing
BY DEF Whole, Torn

-----------------------------------------------------------------------------
LEMMA InitInv == Init => ControlsInv
<1> SUFFICES ASSUME Init PROVE ControlsInv
    OBVIOUS
<1>1. TypeOK
    <2>1. 0 \in 0..MaxFaults /\ 0 \in 0..MaxSwaps
        BY ControlsAssumption
    <2>2. camera \in Cameras /\ device \in [Controls -> Nat]
        BY ControlsAssumption DEF Init
    <2>3. /\ file \in {Torn, Whole(file.values)} /\ IsSettings(file.values)
          /\ tmp \in {Torn, Whole(tmp.values)} /\ IsSettings(tmp.values)
        BY NothingIsSettings, WholeIsRecord DEF Init
    <2> QED
        BY <2>1, <2>2, <2>3, NothingIsSettings DEF Init, TypeOK
<1>2. JobMatchesPlace
    BY DEF Init, JobMatchesPlace
<1>3. file.whole
    BY WholeIsRecord DEF Init
<1> QED
    BY <1>1, <1>2, <1>3 DEF Init, ControlsInv

LEMMA FaultOrCalm ==
    ASSUME TypeOK, Fault \/ Calm
    PROVE  faults' \in 0..MaxFaults /\ upset' \in BOOLEAN
<1>1. faults \in 0..MaxFaults /\ upset \in BOOLEAN /\ MaxFaults \in Nat
    BY ControlsAssumption DEF TypeOK
<1>2. faults' \in 0..MaxFaults
    BY <1>1 DEF Fault, Calm
<1>3. upset' \in BOOLEAN
    BY <1>1 DEF Fault, Calm
<1> QED
    BY <1>2, <1>3

LEMMA MadeIsNat ==
    ASSUME camera \in Cameras, NEW c \in Controls, NEW v \in Taken(c)
    PROVE  Made(c, v) \in Nat
BY ControlsAssumption DEF Taken, Made

(* The camera's part of a call that sets values. *)
LEMMA DeviceStaysTyped ==
    ASSUME TypeOK, NEW values, IsSettings(values),
           Applied(values) \/ NotApplied(values)
    PROVE  /\ device' \in [Controls -> Nat]
           /\ faults' \in 0..MaxFaults /\ upset' \in BOOLEAN
<1>0. \A c \in Controls : Takes(c, values[c]) => Made(c, values[c]) \in Nat
    BY MadeIsNat DEF Takes, TypeOK
<1>1. CASE Applied(values)
    <2>1. device' \in [Controls -> Nat]
        BY <1>0, <1>1 DEF Applied, TypeOK
    <2> QED
        BY <1>1, <2>1 DEF Applied, Calm, TypeOK
<1>2. CASE NotApplied(values)
    <2>1. device' \in [Controls -> Nat]
        <3> DEFINE accepted == {c \in DOMAIN values : Takes(c, values[c])}
        <3>1. PICK S \in SUBSET accepted :
                 device' = [c \in Controls |->
                               IF c \in S THEN Made(c, values[c]) ELSE device[c]]
            BY <1>2 DEF NotApplied
        <3>2. \A c \in S : Takes(c, values[c])
            OBVIOUS
        <3> QED
            BY <1>0, <3>1, <3>2 DEF TypeOK
    <2>2. Fault \/ Calm
        BY <1>2 DEF NotApplied
    <2> QED
        BY <2>1, <2>2, FaultOrCalm
<1> QED
    BY <1>1, <1>2

LEMMA TypeStep == TypeOK /\ JobMatchesPlace /\ [Next]_vars => TypeOK'
<1> SUFFICES ASSUME TypeOK, JobMatchesPlace, [Next]_vars PROVE TypeOK'
    OBVIOUS
<1> USE DEF fileVars, cameraVars
<1>0. IsSettings(Nothing)
    BY NothingIsSettings
<1>1. CASE Start
    BY <1>1 DEF Start, TypeOK, Whole
<1>2. CASE RestoreNothing
    <2>1. Fault \/ Calm
        BY <1>2 DEF RestoreNothing
    <2> QED
        BY <1>2, <2>1, FaultOrCalm DEF RestoreNothing, TypeOK, Go, Whole
<1>3. CASE RestoreBegins
    <2>1. IsSettings(want')
        BY <1>0, <1>3, ValidatedIsSettings DEF RestoreBegins, LoadState, TypeOK
    <2> QED
        BY <1>3, <2>1 DEF RestoreBegins, TypeOK, Go, Calm, Whole
<1>4. CASE ApplySingle
    <2>1. PICK c \in todo : /\ Applied(Restrict(want, {c})) \/ NotApplied(Restrict(want, {c}))
                            /\ todo' = todo \ {c}
        BY <1>4 DEF ApplySingle
    <2>2. IsSettings(Restrict(want, {c}))
        BY <2>1, RestrictIsSettings DEF TypeOK
    <2>3. device' \in [Controls -> Nat] /\ faults' \in 0..MaxFaults /\ upset' \in BOOLEAN
        BY <2>1, <2>2, DeviceStaysTyped
    <2> QED
        BY <1>4, <2>1, <2>3 DEF ApplySingle, TypeOK, Whole
<1>5. CASE SinglesDone
    BY <1>5 DEF SinglesDone, TypeOK, Go, Calm, Whole
<1>6. CASE Listen \/ SendAnswer \/ Kill
    BY <1>0, <1>6 DEF Listen, SendAnswer, Kill, Idle, TypeOK, Calm, Whole
<1>7. CASE RequestFails \/ FillFails
    <2>1. Fault \/ Calm
        BY <1>7 DEF RequestFails, FillFails
    <2> QED
        BY <1>7, <2>1, FaultOrCalm DEF RequestFails, FillFails, TypeOK, Decide, Whole
<1>8. CASE SetBegins
    <2>1. IsSettings(want')
        BY <1>8, ValidatedIsSettings DEF SetBegins, TypeOK
    <2>2. todo = {}
        BY <1>8 DEF SetBegins, JobMatchesPlace
    <2> QED
        BY <1>8, <2>1, <2>2 DEF SetBegins, TypeOK, Go, Calm, Whole
<1>9. CASE ApplyGroup
    <2>1. IsSettings(Group)
        BY RestrictIsSettings DEF Group, TypeOK
    <2>2. device' \in [Controls -> Nat] /\ faults' \in 0..MaxFaults /\ upset' \in BOOLEAN
        BY <1>9, <2>1, DeviceStaysTyped DEF ApplyGroup
    <2> QED
        BY <1>9, <2>2 DEF ApplyGroup, TypeOK, Go, Decide, Whole
<1>10. CASE OpenTmp
    BY <1>0, <1>10, WholeIsRecord DEF OpenTmp, TypeOK, Go, Calm
<1>11. CASE FillTmp
    <2>1. IsSettings(Store!Updated(LoadState, want))
        BY <1>0, UpdatedIsSettings DEF TypeOK, LoadState
    <2> QED
        BY <1>11, <2>1, WholeIsRecord DEF FillTmp, TypeOK, Go, Calm
<1>12. CASE Replace
    BY <1>12 DEF Replace, TypeOK, Decide, Calm, Whole
<1>13. CASE ResetBegins
    <2>1. IsSettings(Default[camera])
        BY ControlsAssumption DEF TypeOK, IsSettings
    <2>2. IsSettings(want')
        BY <1>13, <2>1, RestrictIsSettings, ControlsAssumption
           DEF ResetBegins, TypeOK, Offered
    <2> QED
        BY <1>13, <2>2 DEF ResetBegins, TypeOK, Go, Calm, Whole
<1>14. CASE Unlink
    BY <1>0, <1>14, WholeIsRecord DEF Unlink, TypeOK, Decide, Calm
<1>15. CASE \E values \in Requests : AskSet(values)
    BY <1>15, ControlsAssumption DEF AskSet, TypeOK, Whole
<1>16. CASE AskReset
    BY <1>16 DEF AskReset, TypeOK, Whole
<1>17. CASE \E k \in Cameras : Replug(k)
    BY <1>17, ControlsAssumption DEF Replug, TypeOK, Whole
<1>18. CASE \E c \in Controls : \E v \in Range(Makes[camera][c]) : Drift(c, v)
    <2>1. PICK c \in Controls : \E v \in Range(Makes[camera][c]) : Drift(c, v)
        BY <1>18
    <2> PICK v \in Range(Makes[camera][c]) : Drift(c, v)
        BY <2>1
    <2>2. v \in Nat
        BY MadeIsNat DEF TypeOK, Made, Taken, Range
    <2> QED
        BY <2>2 DEF Drift, TypeOK, Calm, Whole
<1>19. CASE UNCHANGED vars
    BY <1>19 DEF vars, TypeOK, Whole
<1> QED
    BY <1>1, <1>2, <1>3, <1>4, <1>5, <1>6, <1>7, <1>8, <1>9, <1>10, <1>11, <1>12,
       <1>13, <1>14, <1>15, <1>16, <1>17, <1>18, <1>19 DEF Next, Work

(* The places of the program and the jobs they belong to. *)
LEMMA JobStep == JobMatchesPlace /\ [Next]_vars => JobMatchesPlace'
<1> SUFFICES ASSUME JobMatchesPlace, [Next]_vars PROVE JobMatchesPlace'
    OBVIOUS
<1> USE DEF JobMatchesPlace, Go, Decide, Idle, Validated
<1>1. CASE Start \/ RestoreNothing \/ RestoreBegins \/ SinglesDone \/ Listen
    BY <1>1 DEF Start, RestoreNothing, RestoreBegins, SinglesDone, Listen
<1>2. CASE ApplySingle
    BY <1>2 DEF ApplySingle
<1>3. CASE RequestFails \/ SetBegins \/ ApplyGroup
    BY <1>3 DEF RequestFails, SetBegins, ApplyGroup
<1>4. CASE OpenTmp \/ FillTmp \/ FillFails \/ Replace
    BY <1>4 DEF OpenTmp, FillTmp, FillFails, Replace
<1>5. CASE ResetBegins \/ Unlink \/ SendAnswer \/ Kill
    BY <1>5 DEF ResetBegins, Unlink, SendAnswer, Kill
<1>6. CASE AskReset \/ \E values \in Requests : AskSet(values)
    BY <1>6 DEF AskReset, AskSet
<1>7. CASE \E k \in Cameras : Replug(k)
    BY <1>7 DEF Replug
<1>8. CASE \E c \in Controls : \E v \in Range(Makes[camera][c]) : Drift(c, v)
    BY <1>8 DEF Drift
<1>9. CASE UNCHANGED vars
    BY <1>9 DEF vars
<1> QED
    BY <1>1, <1>2, <1>3, <1>4, <1>5, <1>6, <1>7, <1>8, <1>9 DEF Next, Work

(* Only Replace and Unlink touch the state file, and a save that is under way
   starts from the file as it is. *)
LEMMA FileStep ==
    ControlsInv /\ [Next]_vars =>
        /\ file'.whole
        /\ (pc = "replace" => tmp = Whole(Store!Updated(file.values, want)))'
<1> SUFFICES ASSUME ControlsInv, [Next]_vars
             PROVE  /\ file'.whole
                    /\ (pc = "replace" => tmp = Whole(Store!Updated(file.values, want)))'
    OBVIOUS
<1> USE DEF ControlsInv, fileVars, cameraVars
<1>1. CASE Replace
    BY <1>1, WholeIsRecord DEF Replace, Decide
<1>2. CASE Unlink
    BY <1>2, WholeIsRecord DEF Unlink, Decide
<1>3. CASE FillTmp
    BY <1>3 DEF FillTmp, LoadState, Go, Whole, Store!Updated
<1>4. CASE OpenTmp \/ FillFails
    BY <1>4 DEF OpenTmp, FillFails, Go, Decide
<1>5. CASE Start \/ RestoreNothing \/ RestoreBegins \/ SinglesDone \/ Listen
    BY <1>5 DEF Start, RestoreNothing, RestoreBegins, SinglesDone, Listen, Go, Idle
<1>6. CASE ApplySingle \/ RequestFails \/ SetBegins \/ ApplyGroup \/ ResetBegins
    BY <1>6 DEF ApplySingle, RequestFails, SetBegins, ApplyGroup, ResetBegins, Go, Decide
<1>7. CASE SendAnswer \/ Kill \/ AskReset \/ \E values \in Requests : AskSet(values)
    BY <1>7 DEF SendAnswer, Kill, AskReset, AskSet, Idle
<1>8. CASE \E k \in Cameras : Replug(k)
    BY <1>8 DEF Replug, Whole, Store!Updated
<1>9. CASE \E c \in Controls : \E v \in Range(Makes[camera][c]) : Drift(c, v)
    BY <1>9 DEF Drift, Whole, Store!Updated
<1>10. CASE UNCHANGED vars
    BY <1>10 DEF vars, Whole, Store!Updated
<1> QED
    BY <1>1, <1>2, <1>3, <1>4, <1>5, <1>6, <1>7, <1>8, <1>9, <1>10 DEF Next, Work

(* The state file is whole whenever the service may be killed, and what is
   about to replace it has every value of the old one and of the request. *)
THEOREM ControlsInvariant == Spec => []ControlsInv
<1>1. ControlsInv /\ [Next]_vars => ControlsInv'
    BY TypeStep, JobStep, FileStep DEF ControlsInv
<1> QED
    BY InitInv, <1>1, PTL DEF Spec

-----------------------------------------------------------------------------
(* What the service does, as steps of the store. *)
LEMMA StoreStart == Init => Store!StoreInit
BY WholeIsRecord DEF Init, Store!StoreInit, Store!NoRequest, Nothing, Store!Nothing

\* Nothing the store speaks of changes.
LEMMA StoreStutters ==
    ASSUME file' = file, asked' = asked, job' = job, answer' = answer
    PROVE  UNCHANGED Store!storeVars
BY DEF Store!storeVars

LEMMA StoreStep == ControlsInv /\ [Next]_vars => [Store!StoreNext]_(Store!storeVars)
<1> SUFFICES ASSUME ControlsInv, [Next]_vars
             PROVE  Store!StoreNext \/ UNCHANGED Store!storeVars
    OBVIOUS
<1> USE DEF ControlsInv, JobMatchesPlace, fileVars, cameraVars
<1>1. CASE AskReset \/ \E values \in Requests : AskSet(values)
    <2>1. Store!Ask
        BY <1>1 DEF AskReset, AskSet, Store!Ask
    <2> QED
        BY <2>1 DEF Store!StoreNext
<1>2. ASSUME Decide("error"), pc # "answer", job \in {"set", "reset"},
             UNCHANGED <<file, asked, job>>
      PROVE  Store!Decline
    BY <1>2 DEF Decide, Store!Decline
<1>3. CASE RequestFails \/ FillFails
    BY <1>2, <1>3 DEF RequestFails, FillFails, Store!StoreNext
<1>4. CASE ApplyGroup
    <2>1. CASE Decide("error")
        BY <1>2, <1>4, <2>1 DEF ApplyGroup, Store!StoreNext
    <2>2. CASE answer' = answer
        BY <1>4, <2>2, StoreStutters DEF ApplyGroup
    <2> QED
        BY <1>4, <2>1, <2>2 DEF ApplyGroup, Go
<1>5. CASE Replace
    <2>1. file'.values = Store!Updated(file.values, Validated(asked))
        BY <1>5, WholeIsRecord DEF Replace
    <2>2. job = "set" /\ answer = "none" /\ answer' = "ok" /\ UNCHANGED <<job, asked>>
        BY <1>5 DEF Replace, Decide
    <2>3. Store!Commit
        BY <2>1, <2>2 DEF Store!Commit, Store!After, Validated
    <2> QED
        BY <2>3 DEF Store!StoreNext
<1>6. CASE Unlink
    <2>1. file'.values = Nothing
        BY <1>6, WholeIsRecord DEF Unlink
    <2>2. job = "reset" /\ answer = "none" /\ answer' = "ok" /\ UNCHANGED <<job, asked>>
        BY <1>6 DEF Unlink, Decide
    <2>3. Store!Commit
        BY <2>1, <2>2 DEF Store!Commit, Store!After, Nothing
    <2> QED
        BY <2>3 DEF Store!StoreNext
<1>7. CASE SendAnswer
    <2>1. Store!Answer
        BY <1>7 DEF SendAnswer, Idle, Store!Answer, Store!NoRequest, Store!Nothing, TypeOK
    <2> QED
        BY <2>1 DEF Store!StoreNext
<1>8. CASE Kill
    <2>1. Store!Crash
        BY <1>8 DEF Kill, Store!Crash, Store!NoRequest, Store!Nothing
    <2> QED
        BY <2>1 DEF Store!StoreNext
<1>9. CASE Start \/ Listen
    BY <1>9 DEF Start, Listen, Idle, Store!storeVars
<1>10. CASE RestoreNothing \/ RestoreBegins \/ ApplySingle \/ SinglesDone
    BY <1>10, StoreStutters DEF RestoreNothing, RestoreBegins, ApplySingle, SinglesDone, Go
<1>11. CASE SetBegins \/ OpenTmp \/ FillTmp \/ ResetBegins
    BY <1>11, StoreStutters DEF SetBegins, OpenTmp, FillTmp, ResetBegins, Go
<1>12. CASE \E k \in Cameras : Replug(k)
    BY <1>12, StoreStutters DEF Replug
<1>13. CASE \E c \in Controls : \E v \in Range(Makes[camera][c]) : Drift(c, v)
    BY <1>13, StoreStutters DEF Drift
<1>14. CASE UNCHANGED vars
    BY <1>14, StoreStutters DEF vars
<1> QED
    BY <1>1, <1>3, <1>4, <1>5, <1>6, <1>7, <1>8, <1>9, <1>10, <1>11, <1>12, <1>13,
       <1>14 DEF Next, Work

(* What is kept is a store that changes by whole requests, whenever the
   service is killed and whatever the camera refuses. *)
THEOREM KeepsWhatItAnswers == Spec => ImplementsStore
<1> QED
    BY ControlsInvariant, StoreStart, StoreStep, PTL
       DEF Spec, ImplementsStore, Store!StoreSpec

-----------------------------------------------------------------------------
(* What the camera does to what is in place *)

LEMMA HeldByAutos ==
    ASSUME NEW d, NEW e, \A a \in Autos : d[a] = e[a]
    PROVE  Held(d) = Held(e)
BY DEF Held

LEMMA NoAutoIsHeld ==
    ASSUME NEW d, NEW a \in Autos
    PROVE  a \notin Held(d)
BY ControlsAssumption DEF Held

LEMMA DriftFacts ==
    ASSUME TypeOK, NEW c \in Controls, NEW v, Drift(c, v)
    PROVE  /\ Held(device') = Held(device)
           /\ \A x \in Controls \ Held(device) : device'[x] = device[x]
           /\ UNCHANGED <<camera, file, pc, job, asked, want, todo, answer, upset>>
<1>1. c \notin Autos
    BY NoAutoIsHeld DEF Drift
<1>2. \A x \in Controls : x # c => device'[x] = device[x]
    BY DEF Drift, TypeOK
<1>3. Held(device') = Held(device)
    <2>1. \A a \in Autos : device'[a] = device[a]
        BY <1>1, <1>2, ControlsAssumption
    <2> QED BY <2>1, HeldByAutos
<1> QED
    BY <1>2, <1>3 DEF Drift, fileVars, Calm

(* What a failing call that nothing disturbed tells.                           *)
LEMMA NotAppliedFacts ==
    ASSUME TypeOK, Settable, NEW S, S \subseteq DOMAIN want,
           NotApplied(Restrict(want, S)), ~upset'
    PROVE  /\ \E c \in S : c \in Held(device) \/ want[c] \notin Taken(c)
           /\ \A x \in Controls : (x \in S /\ x \notin Held(device)) \/ device'[x] = device[x]
<1> DEFINE values == Restrict(want, S)
           accepted == {c \in DOMAIN values : Takes(c, values[c])}
<1>1. DOMAIN values = S /\ \A c \in S : values[c] = want[c]
    BY DEF Restrict
<1>2. ~Fault
    BY DEF Fault
<1>3. accepted # DOMAIN values
    BY <1>2 DEF NotApplied
<1>4. \A c \in S : c \notin accepted => c \in Held(device) \/ want[c] \notin Taken(c)
    BY <1>1 DEF Settable, Takes
<1>5. PICK T \in SUBSET accepted :
          device' = [c \in Controls |-> IF c \in T THEN Made(c, values[c]) ELSE device[c]]
    BY DEF NotApplied
<1>6. \A c \in accepted : c \in S /\ c \notin Held(device)
    BY <1>1 DEF Takes
<1>7. \A x \in Controls : x \in T \/ device'[x] = device[x]
    BY <1>5
<1>8. \E c \in S : c \in Held(device) \/ want[c] \notin Taken(c)
    BY <1>1, <1>3, <1>4
<1> QED
    BY <1>5, <1>6, <1>7, <1>8

LEMMA AppliedFacts ==
    ASSUME TypeOK, NEW S, S \subseteq DOMAIN want, Applied(Restrict(want, S))
    PROVE  /\ \A x \in Controls \ S : device'[x] = device[x]
           /\ \A x \in S : /\ x \notin Held(device) /\ want[x] \in Taken(x)
                          /\ device'[x] = Made(x, want[x])
           /\ upset' = upset
<1>1. /\ DOMAIN Restrict(want, S) = S /\ \A x \in S : Restrict(want, S)[x] = want[x]
      /\ S \subseteq Controls
    BY DEF Restrict, TypeOK, IsSettings
<1>2. \A x \in S : Takes(x, want[x])
    BY <1>1 DEF Applied
<1>3. /\ \A x \in Controls \ S : device'[x] = device[x]
      /\ \A x \in S : device'[x] = Made(x, want[x])
    BY <1>1 DEF Applied
<1> QED
    BY <1>2, <1>3 DEF Applied, Takes, Calm

\* c has what is wanted of it, or what is wanted is passed over.
Resolved(c) == InPlace(c, want[c]) \/ PassedOver(c, want[c])

(* What is resolved stays so when the value of the control and what is held
   stay as they are. *)
LEMMA StaysResolved ==
    ASSUME NEW x, Resolved(x), UNCHANGED <<camera, want, job>>,
           x \in Held(device) => x \in Held(device'),
           x \notin Held(device) => device'[x] = device[x]
    PROVE  Resolved(x)'
BY DEF Resolved, InPlace, PassedOver, Taken, Made

(* A control that has taken its value is resolved, and so is one whose value
   the camera does not take, unless the job is to set. *)
LEMMA BecomesResolved ==
    ASSUME NEW c, UNCHANGED <<camera, want, job>>,
           \/ c \in Held(device')
           \/ want[c] \in Taken(c) /\ device'[c] = Made(c, want[c])
           \/ want[c] \notin Taken(c) /\ job # "set"
    PROVE  Resolved(c)'
BY DEF Resolved, InPlace, PassedOver, Taken, Made

(* One call for one control, with the modes still to come or all done.         *)
LEMMA ApplySingleKeeps ==
    ASSUME TypeOK, job # "set", ApplySingle, InForceSoFar
    PROVE  InForceSoFar'
<1> SUFFICES ASSUME ~upset' PROVE InForceSoFar'
    BY DEF InForceSoFar
<1>1. PICK c \in todo :
          /\ IsFirst(c, todo)
          /\ Applied(Restrict(want, {c})) \/ NotApplied(Restrict(want, {c}))
          /\ todo' = todo \ {c}
    BY DEF ApplySingle
<1>2. pc = "singles" /\ UNCHANGED <<camera, pc, job, want, file>>
    BY DEF ApplySingle, fileVars
<1>3. ~upset
    BY <1>1 DEF Applied, NotApplied, Fault, Calm, TypeOK
<1>4. /\ Settable
      /\ \A x \in DOMAIN want : x \notin todo => Resolved(x)
      /\ todo \cap Autos = {} \/ DOMAIN want \ todo \subseteq Autos
      /\ job = "restore" => want = Validated(file.values)
    BY <1>2, <1>3 DEF InForceSoFar, Dealt, Resolved
<1>5. c \in DOMAIN want /\ {c} \subseteq DOMAIN want /\ DOMAIN want \subseteq Controls
    BY <1>1 DEF TypeOK, IsSettings
<1>6. c \notin Autos => todo \cap Autos = {}
    BY <1>1 DEF IsFirst, Before
<1>7. /\ \A x \in Controls : x # c => device'[x] = device[x]
      /\ c \in Held(device) => device'[c] = device[c]
      /\ c \notin Held(device) /\ want[c] \in Taken(c) => device'[c] = Made(c, want[c])
    <2>1. CASE Applied(Restrict(want, {c}))
        BY <2>1, <1>5, AppliedFacts
    <2>2. CASE NotApplied(Restrict(want, {c}))
        BY <2>2, <1>4, <1>5, NotAppliedFacts
    <2> QED BY <1>1, <2>1, <2>2
<1>8. ASSUME NEW x \in DOMAIN want, x \notin todo'
      PROVE  Resolved(x)'
    <2>1. CASE c \in Autos
        <3>1. CASE x = c
            <4>1. c \notin Held(device)
                BY <2>1, NoAutoIsHeld
            <4> QED BY <3>1, <4>1, <1>2, <1>7, BecomesResolved
        <3>2. CASE x # c
            <4>1. x \notin todo /\ Resolved(x)
                BY <3>2, <1>1, <1>4, <1>8
            <4>2. x \in Autos
                BY <4>1, <2>1, <1>1, <1>4
            <4>3. device'[x] = device[x] /\ x \notin Held(device)
                BY <3>2, <4>2, <1>5, <1>7, NoAutoIsHeld
            <4> QED BY <4>1, <4>3, <1>2, StaysResolved
        <3> QED BY <3>1, <3>2
    <2>2. CASE c \notin Autos
        <3>1. Held(device') = Held(device)
            <4>1. \A a \in Autos : device'[a] = device[a]
                BY <2>2, <1>7, ControlsAssumption
            <4> QED BY <4>1, HeldByAutos
        <3>2. CASE x = c
            BY <3>1, <3>2, <1>2, <1>7, BecomesResolved
        <3>3. CASE x # c
            <4>1. x \notin todo /\ Resolved(x)
                BY <3>3, <1>1, <1>4, <1>8
            <4>2. device'[x] = device[x]
                BY <3>3, <1>5, <1>7
            <4> QED BY <3>1, <4>1, <4>2, <1>2, StaysResolved
        <3> QED BY <3>2, <3>3
    <2> QED BY <2>1, <2>2
<1>9. todo' \cap Autos = {} \/ DOMAIN want \ todo' \subseteq Autos
    BY <1>1, <1>4, <1>6
<1>10. Settable'
    BY <1>2, <1>4 DEF Settable
<1>11. (job = "restore" => want = Validated(file.values))'
    BY <1>2, <1>4 DEF Validated
<1>12. \A x \in Dealt' : Resolved(x)'
    BY <1>2, <1>8 DEF Dealt
<1> QED
    BY <1>2, <1>9, <1>10, <1>11, <1>12 DEF InForceSoFar, Resolved

(* The modes are set first, so that what they drove can be set after them.     *)
LEMMA ApplyGroupKeeps ==
    ASSUME TypeOK, job = "set", ApplyGroup, InForceSoFar
    PROVE  InForceSoFar'
<1> SUFFICES ASSUME ~upset' PROVE InForceSoFar'
    BY DEF InForceSoFar
<1> DEFINE S == IF pc = "autos" THEN DOMAIN want \cap Autos ELSE DOMAIN want \ Autos
<1>1. S \subseteq DOMAIN want /\ Group = Restrict(want, S) /\ DOMAIN want \subseteq Controls
    BY DEF Group, TypeOK, IsSettings
<1>2. pc \in {"autos", "rest"} /\ UNCHANGED <<camera, want, file, job>>
    BY DEF ApplyGroup, fileVars
<1>3. CASE Decide("error")
    BY <1>3 DEF Decide, InForceSoFar, Dealt
<1>4. CASE Applied(Group) /\ pc' = (IF pc = "autos" THEN "rest" ELSE "write")
    <2>1. /\ \A x \in Controls \ S : device'[x] = device[x]
          /\ \A x \in S : want[x] \in Taken(x) /\ device'[x] = Made(x, want[x])
          /\ upset' = upset
        BY <1>1, <1>4, AppliedFacts
    <2>2. Settable /\ \A x \in Dealt : Resolved(x)
        BY <1>2, <2>1 DEF InForceSoFar, Resolved
    <2>3. Settable'
        BY <1>2, <2>2 DEF Settable
    <2>4. CASE pc = "autos"
        <3>1. \A x \in Dealt' : x \in S
            BY <1>2, <1>4, <2>4 DEF Dealt
        <3>2. \A x \in Dealt' : Resolved(x)'
            BY <1>2, <2>1, <3>1, BecomesResolved
        <3> QED BY <1>4, <2>3, <2>4, <3>2 DEF InForceSoFar, Resolved
    <2>5. CASE pc = "rest"
        <3>1. \A x \in DOMAIN want \ S : x \in Dealt /\ x \in Autos
            <4>1. S = DOMAIN want \ Autos
                BY <2>5
            <4>2. \A x \in DOMAIN want \cap Autos : x \in Dealt
                BY <2>5 DEF Dealt
            <4> QED BY <4>1, <4>2
        <3>2. \A x \in DOMAIN want \ S : Resolved(x)'
            <4>1. \A x \in DOMAIN want \ S : device'[x] = device[x] /\ x \notin Held(device)
                BY <1>1, <2>1, <3>1, NoAutoIsHeld
            <4> QED BY <1>2, <2>2, <3>1, <4>1, StaysResolved
        <3>3. \A x \in S : Resolved(x)'
            BY <1>2, <2>1, BecomesResolved
        <3>4. \A x \in Dealt' : x \in DOMAIN want
            BY <1>2 DEF Dealt
        <3>5. \A x \in Dealt' : Resolved(x)'
            BY <3>2, <3>3, <3>4
        <3> QED BY <1>4, <2>5, <3>5 DEF InForceSoFar, Resolved
    <2> QED BY <1>2, <2>4, <2>5
<1> QED
    BY <1>3, <1>4 DEF ApplyGroup, Go

LEMMA SoFarStep ==
    ControlsInv /\ JobMatchesPlace' /\ InForceSoFar /\ [Next]_vars => InForceSoFar'
<1> SUFFICES ASSUME ControlsInv, JobMatchesPlace', InForceSoFar, [Next]_vars, ~upset'
             PROVE  InForceSoFar'
    BY DEF InForceSoFar
<1> USE DEF fileVars, cameraVars
<1>1. ASSUME pc' \notin {"singles", "autos", "rest", "write", "fill", "replace", "unlink"}
      PROVE  InForceSoFar'
    BY <1>1 DEF InForceSoFar, Dealt
<1>2. CASE Start \/ RestoreNothing \/ Listen \/ AskReset
    BY <1>1, <1>2 DEF Start, RestoreNothing, Listen, AskReset, Go, Idle
<1>3. CASE RequestFails \/ FillFails \/ Replace \/ Unlink \/ SendAnswer \/ Kill
    BY <1>1, <1>3 DEF RequestFails, FillFails, Replace, Unlink, SendAnswer, Kill, Decide, Idle
<1>4. CASE \E values \in Requests : AskSet(values)
    BY <1>1, <1>4 DEF AskSet
<1>5. CASE \E k \in Cameras : Replug(k)
    BY <1>5 DEF Replug
<1>6. CASE RestoreBegins
    <2>1. LoadState = file.values
        BY DEF LoadState, ControlsInv
    <2>2. /\ want' = Validated(file.values) /\ todo' = DOMAIN want' /\ pc' = "singles"
          /\ Valid(file.values) /\ UNCHANGED <<camera, file>>
        BY <1>6, <2>1 DEF RestoreBegins, Go
    <2>3. Settable'
        BY <2>2 DEF Settable, Valid, Validated, Restrict
    <2>4. Dealt' = {}
        BY <2>2 DEF Dealt
    <2>5. (want = Validated(file.values))'
        BY <2>2 DEF Validated
    <2> QED BY <2>2, <2>3, <2>4, <2>5 DEF InForceSoFar
<1>7. CASE ResetBegins
    <2>1. /\ want' = Restrict(Default[camera], Offered \ ReadOnly) /\ todo' = DOMAIN want'
          /\ pc' = "singles" /\ job' = "reset" /\ UNCHANGED camera
        BY <1>7 DEF ResetBegins, Go
    <2>2. camera \in Cameras
        BY DEF ControlsInv, TypeOK
    <2>3. \A c \in Offered \ ReadOnly : Default[camera][c] \in InRange[camera][c]
        BY <2>2, ControlsAssumption DEF Offered
    <2>4. Settable'
        BY <2>1, <2>3 DEF Settable, Restrict
    <2>5. Dealt' = {}
        BY <2>1 DEF Dealt
    <2> QED BY <2>1, <2>4, <2>5 DEF InForceSoFar
<1>8. CASE SetBegins
    <2>1. want' = Validated(asked) /\ pc' = "autos" /\ Valid(asked) /\ UNCHANGED camera
        BY <1>8 DEF SetBegins, Go
    <2>2. Settable'
        BY <2>1 DEF Settable, Valid, Validated, Restrict
    <2>3. Dealt' = {}
        BY <2>1 DEF Dealt
    <2> QED BY <2>1, <2>2, <2>3 DEF InForceSoFar
<1>9. CASE ApplySingle
    <2>1. job # "set"
        BY <1>9 DEF ApplySingle, ControlsInv, JobMatchesPlace
    <2> QED BY <1>9, <2>1, ApplySingleKeeps DEF ControlsInv
<1>10. CASE ApplyGroup
    <2>1. job = "set"
        BY <1>10 DEF ApplyGroup, ControlsInv, JobMatchesPlace
    <2> QED BY <1>10, <2>1, ApplyGroupKeeps DEF ControlsInv
<1>11. CASE SinglesDone
    <2>1. CASE job = "reset"
        <3>1. /\ pc = "singles" /\ todo = {} /\ pc' = "unlink"
              /\ UNCHANGED <<camera, device, want, job, upset>>
            BY <1>11, <2>1 DEF SinglesDone, Go, Calm
        <3>2. Dealt' = Dealt
            BY <3>1 DEF Dealt
        <3>3. \A x \in Dealt' : Resolved(x)'
            BY <3>1, <3>2, StaysResolved DEF InForceSoFar, Resolved
        <3> QED BY <3>1, <3>3 DEF InForceSoFar, Resolved
    <2>2. CASE job # "reset"
        BY <1>1, <1>11, <2>2 DEF SinglesDone, Go
    <2> QED BY <2>1, <2>2
<1>12. CASE OpenTmp \/ FillTmp
    <2>1. /\ pc \in {"write", "fill"} /\ pc' \in {"fill", "replace"}
          /\ UNCHANGED <<camera, device, want, job, upset>>
        BY <1>12 DEF OpenTmp, FillTmp, Go, Calm
    <2>2. Dealt' = Dealt
        BY <2>1 DEF Dealt
    <2>3. \A x \in Dealt' : Resolved(x)'
        BY <2>1, <2>2, StaysResolved DEF InForceSoFar, Resolved
    <2> QED BY <2>1, <2>3 DEF InForceSoFar, Resolved
<1>13. CASE \E c \in Controls : \E v \in Range(Makes[camera][c]) : Drift(c, v)
    <2>1. /\ Held(device') = Held(device)
          /\ \A x \in Controls \ Held(device) : device'[x] = device[x]
          /\ UNCHANGED <<camera, file, pc, job, asked, want, todo, answer, upset>>
        BY <1>13, DriftFacts DEF ControlsInv
    <2>2. Dealt' = Dealt /\ Dealt \subseteq Controls
        BY <2>1 DEF Dealt, ControlsInv, TypeOK, IsSettings
    <2>3. \A x \in Dealt : Resolved(x)
        BY <2>1 DEF InForceSoFar, Resolved
    <2>4. \A x \in Dealt' : Resolved(x)'
        BY <2>1, <2>2, <2>3, StaysResolved
    <2> QED BY <2>1, <2>4 DEF InForceSoFar, Settable, Validated, Resolved
<1>14. CASE UNCHANGED vars
    <2>1. Dealt' = Dealt
        BY <1>14 DEF vars, Dealt
    <2>2. \A x \in Dealt' : Resolved(x)'
        BY <1>14, <2>1, StaysResolved DEF vars, InForceSoFar, Resolved
    <2> QED BY <1>14, <2>2 DEF vars, InForceSoFar, Settable, Validated, Resolved
<1> QED
    BY <1>2, <1>3, <1>4, <1>5, <1>6, <1>7, <1>8, <1>9, <1>10, <1>11, <1>12, <1>13, <1>14
       DEF Next, Work

LEMMA AtEndStep ==
    ControlsInv /\ JobMatchesPlace' /\ InForceSoFar /\ InForceAtEnd /\ [Next]_vars
        => InForceAtEnd'
<1> SUFFICES ASSUME ControlsInv, JobMatchesPlace', InForceSoFar, InForceAtEnd, [Next]_vars,
                    ~upset', (pc = "restored" \/ answer = "ok")'
             PROVE  \A c \in DOMAIN Target' : InPlace(c, Target[c])' \/ PassedOver(c, Target[c])'
    BY DEF InForceAtEnd
<1> USE DEF fileVars, cameraVars
<1>1. pc' = "restored" \/ (pc' = "answer" /\ answer' = "ok")
    BY DEF JobMatchesPlace
<1>2. CASE RestoreNothing
    <2>1. LoadState = file.values
        BY DEF LoadState, ControlsInv
    <2>2. /\ pc' = "restored" /\ UNCHANGED <<file, camera>>
          /\ file.values = Nothing \/ ~Valid(file.values)
        BY <1>2, <2>1 DEF RestoreNothing, Go, Fault
    <2>3. \/ Target' = Validated(file.values) /\ file.values = Nothing
          \/ Target' = Nothing
        BY <2>2 DEF Target, Valid, Validated, Offered, Nothing, Store!Nothing
    <2>4. DOMAIN Nothing = {} /\ DOMAIN Validated(Nothing) = {}
        BY DEF Nothing, Store!Nothing, Validated, Restrict
    <2> QED BY <2>3, <2>4
<1>3. CASE SinglesDone
    <2>1. /\ pc = "singles" /\ todo = {} /\ job = "restore" /\ pc' = "restored"
          /\ UNCHANGED <<camera, device, file, want, job, upset>>
        BY <1>1, <1>3 DEF SinglesDone, Go, Calm, ControlsInv, JobMatchesPlace
    <2>2. want = Validated(file.values) /\ \A c \in DOMAIN want : Resolved(c)
        BY <2>1 DEF InForceSoFar, Dealt, Resolved
    <2>3. Target' = want \/ Target' = Nothing
        BY <2>1, <2>2 DEF Target, Validated, Nothing, Store!Nothing
    <2>4. DOMAIN Nothing = {}
        BY DEF Nothing, Store!Nothing
    <2>5. \A c \in DOMAIN want : Resolved(c)'
        BY <2>1, <2>2, StaysResolved
    <2> QED BY <2>1, <2>3, <2>4, <2>5 DEF Resolved
<1>4. CASE Replace \/ Unlink
    <2>1. /\ pc \in {"replace", "unlink"} /\ pc' = "answer"
          /\ UNCHANGED <<camera, device, want, job, upset>>
        BY <1>4 DEF Replace, Unlink, Decide, Calm
    <2>2. \A c \in DOMAIN want : Resolved(c)
        BY <2>1 DEF InForceSoFar, Dealt, Resolved
    <2>3. \A c \in DOMAIN want : Resolved(c)'
        BY <2>1, <2>2, StaysResolved
    <2> QED BY <2>1, <2>3 DEF Target, Resolved
<1>5. ASSUME UNCHANGED <<camera, file, pc, job, want, answer, upset>>, Held(device') = Held(device),
             \A x \in Controls \ Held(device) : device'[x] = device[x]
      PROVE  \A c \in DOMAIN Target' : InPlace(c, Target[c])' \/ PassedOver(c, Target[c])'
    <2>1. Target' = Target
        BY <1>5 DEF Target, Valid, Validated, Offered, Nothing, Store!Nothing
    <2>2. \A c \in DOMAIN Target : InPlace(c, Target[c]) \/ PassedOver(c, Target[c])
        BY <1>5 DEF InForceAtEnd
    <2>3. DOMAIN Target \subseteq Controls
        BY DEF Target, ControlsInv, TypeOK, IsSettings, Validated, Restrict, Nothing,
           Store!Nothing
    <2> QED BY <1>5, <2>1, <2>2, <2>3 DEF InPlace, PassedOver, Taken, Made
<1>6. CASE \E c \in Controls : \E v \in Range(Makes[camera][c]) : Drift(c, v)
    BY <1>5, <1>6, DriftFacts DEF ControlsInv
<1>7. CASE UNCHANGED vars
    BY <1>5, <1>7 DEF vars
<1>8. ~(Start \/ RestoreBegins \/ ApplySingle \/ Listen \/ RequestFails \/ SetBegins)
    BY <1>1 DEF Start, RestoreBegins, ApplySingle, Listen, RequestFails, SetBegins, Go, Decide,
       Idle
<1>9. ~(OpenTmp \/ FillTmp \/ FillFails \/ ResetBegins \/ SendAnswer \/ Kill)
    BY <1>1 DEF OpenTmp, FillTmp, FillFails, ResetBegins, SendAnswer, Kill, Go, Decide, Idle
<1>10. ~(AskReset \/ (\E values \in Requests : AskSet(values)) \/ \E k \in Cameras : Replug(k))
    BY <1>1 DEF AskReset, AskSet, Replug
<1>11. ~ApplyGroup
    BY <1>1 DEF ApplyGroup, Go, Decide
<1> QED
    BY <1>2, <1>3, <1>4, <1>6, <1>7, <1>8, <1>9, <1>10, <1>11 DEF Next, Work

(* A request is only declined for a reason when no call failed unprovoked.     *)
LEMMA DeclineStep ==
    ControlsInv /\ JobMatchesPlace' /\ InForceSoFar /\ NoNeedlessError /\ [Next]_vars
        => NoNeedlessError'
<1> SUFFICES ASSUME ControlsInv, JobMatchesPlace', InForceSoFar, NoNeedlessError, [Next]_vars,
                    ~upset', answer' = "error"
             PROVE  NoNeedlessError'
    BY DEF NoNeedlessError
<1> USE DEF fileVars, cameraVars
<1>1. pc' = "answer"
    BY DEF JobMatchesPlace
<1>2. CASE RequestFails
    <2>1. ~Valid(asked) /\ UNCHANGED <<asked, camera>>
        BY <1>2 DEF RequestFails, Fault
    <2> QED BY <2>1 DEF NoNeedlessError, Valid, Offered
<1>3. CASE ApplyGroup
    <2> DEFINE S == IF pc = "autos" THEN DOMAIN want \cap Autos ELSE DOMAIN want \ Autos
    <2>1. /\ NotApplied(Group) /\ Group = Restrict(want, S) /\ S \subseteq DOMAIN want
          /\ pc \in {"autos", "rest"} /\ job = "set" /\ UNCHANGED <<camera, want>>
        BY <1>1, <1>3 DEF ApplyGroup, Go, Group, ControlsInv, JobMatchesPlace
    <2>2. ~upset
        BY <2>1 DEF NotApplied, Fault, Calm, ControlsInv, TypeOK
    <2>3. Settable /\ \A x \in Dealt : InPlace(x, want[x])
        BY <2>1, <2>2 DEF InForceSoFar, PassedOver
    <2>4. /\ \E c \in S : c \in Held(device) \/ want[c] \notin Taken(c)
          /\ \A x \in Controls : (x \in S /\ x \notin Held(device)) \/ device'[x] = device[x]
        BY <2>1, <2>3, NotAppliedFacts DEF ControlsInv
    <2>5. PICK c \in S : c \in Held(device) \/ want[c] \notin Taken(c)
        BY <2>4
    <2>6. CASE want[c] \notin Taken(c)
        BY <2>1, <2>5, <2>6 DEF NoNeedlessError, Taken
    <2>7. CASE c \in Held(device)
        <3>1. pc = "rest" /\ S = DOMAIN want \ Autos
            BY <2>1, <2>7, NoAutoIsHeld
        <3>2. \A a \in Autos : device'[a] = device[a]
            BY <2>4, <3>1, ControlsAssumption
        <3>3. \A a \in Autos \cap DOMAIN want : want[a] \in Taken(a) /\ device[a] = Made(a, want[a])
            BY <2>3, <3>1, NoAutoIsHeld DEF Dealt, InPlace
        <3>4. \A a \in Autos : Aimed'[a] = device[a]
            BY <2>1, <3>2, <3>3, ControlsAssumption DEF Aimed, Taken, Made
        <3>5. Held(Aimed') = Held(device)
            BY <3>4, HeldByAutos
        <3>6. Held(Aimed)' = Held(Aimed')
            BY DEF Held
        <3> QED BY <2>1, <2>7, <3>5, <3>6 DEF NoNeedlessError
    <2> QED BY <2>5, <2>6, <2>7
<1>4. ASSUME UNCHANGED <<camera, asked, want, answer, upset>>,
             \A a \in Autos : device'[a] = device[a]
      PROVE  NoNeedlessError'
    <2>1. \A a \in Autos : Aimed'[a] = Aimed[a]
        BY <1>4, ControlsAssumption DEF Aimed, Taken, Made
    <2>2. Held(Aimed') = Held(Aimed)
        BY <2>1, HeldByAutos
    <2>3. Held(Aimed)' = Held(Aimed')
        BY DEF Held
    <2>4. Valid(asked)' <=> Valid(asked)
        BY <1>4 DEF Valid, Offered
    <2> QED BY <1>4, <2>2, <2>3, <2>4 DEF NoNeedlessError, Taken
<1>5. CASE \E c \in Controls : \E v \in Range(Makes[camera][c]) : Drift(c, v)
    <2>1. PICK c \in Controls : \E v \in Range(Makes[camera][c]) : Drift(c, v)
        BY <1>5
    <2>2. /\ UNCHANGED <<camera, asked, want, answer, upset>>
          /\ \A x \in Controls \ Held(device) : device'[x] = device[x]
        BY <2>1, DriftFacts DEF ControlsInv
    <2>3. \A a \in Autos : device'[a] = device[a]
        BY <2>2, NoAutoIsHeld, ControlsAssumption
    <2> QED BY <1>4, <2>2, <2>3
<1>6. CASE UNCHANGED vars
    BY <1>4, <1>6 DEF vars
<1>7. ~(Start \/ RestoreNothing \/ RestoreBegins \/ ApplySingle \/ SinglesDone \/ Listen)
    BY <1>1 DEF Start, RestoreNothing, RestoreBegins, ApplySingle, SinglesDone, Listen, Go, Idle
<1>8. ~(SetBegins \/ OpenTmp \/ FillTmp \/ FillFails \/ Replace \/ ResetBegins \/ Unlink)
    BY <1>1 DEF SetBegins, OpenTmp, FillTmp, FillFails, Replace, ResetBegins, Unlink, Go, Decide,
       Fault
<1>9. ~(SendAnswer \/ Kill \/ AskReset \/ (\E values \in Requests : AskSet(values)))
    BY <1>1 DEF SendAnswer, Kill, AskReset, AskSet, Idle
<1>10. ~ \E k \in Cameras : Replug(k)
    BY DEF Replug
<1> QED
    BY <1>2, <1>3, <1>5, <1>6, <1>7, <1>8, <1>9, <1>10 DEF Next, Work

Settled == ControlsInv /\ InForce /\ NoNeedlessError

LEMMA SettledStep == Settled /\ [Next]_vars => Settled'
<1> SUFFICES ASSUME Settled, [Next]_vars PROVE Settled'
    OBVIOUS
<1>1. ControlsInv'
    BY TypeStep, JobStep, FileStep DEF ControlsInv, Settled
<1>2. InForceSoFar'
    BY <1>1, SoFarStep DEF ControlsInv, Settled, InForce
<1>3. InForceAtEnd'
    BY <1>1, AtEndStep DEF ControlsInv, Settled, InForce
<1>4. NoNeedlessError'
    BY <1>1, DeclineStep DEF ControlsInv, Settled, InForce
<1> QED
    BY <1>1, <1>2, <1>3, <1>4 DEF Settled, InForce

THEOREM AlwaysSettled == Spec => []Settled
<1>1. Init => Settled
    <2>1. Init => InForce /\ NoNeedlessError
        BY DEF Init, InForce, InForceSoFar, InForceAtEnd, NoNeedlessError, Dealt
    <2> QED BY <2>1, InitInv DEF Settled
<1> QED
    BY <1>1, SettledStep, PTL DEF Spec

(* When a job ends and nothing failed meanwhile its values are in force: those
   kept over a restart, as far as the camera takes them, or those of the request. *)
THEOREM WhatWasAskedIsInForce == Spec => []InForce
<1>1. Settled => InForce
    BY DEF Settled
<1> QED
    BY <1>1, AlwaysSettled, PTL

(* A set is refused without a failure only for what it asks. *)
THEOREM ErrorsHaveReasons == Spec => []NoNeedlessError
<1>1. Settled => NoNeedlessError
    BY DEF Settled
<1> QED
    BY <1>1, AlwaysSettled, PTL
=============================================================================
