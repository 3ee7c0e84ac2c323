---------------------------- MODULE ControlStore ----------------------------
(***************************************************************************)
(* What control-v4l2 promises about the values it keeps over a restart: a  *)
(* request takes effect as a whole or not at all, one that is answered     *)
(* with a result has taken effect, one answered with an error has not, and *)
(* a crash loses nothing that has.                                         *)
(***************************************************************************)

VARIABLES
    stored,     \* the kept values: a function from some of the controls
    request,    \* the request being served; NoRequest when there is none
    phase       \* "idle", "asked", "done" or "refused"

storeVars == <<stored, request, phase>>

Nothing == [c \in {} |-> 0]

NoRequest == [kind |-> "none", values |-> Nothing]

\* The kept values f with those of g written over them.
Updated(f, g) ==
    [c \in DOMAIN f \cup DOMAIN g |-> IF c \in DOMAIN g THEN g[c] ELSE f[c]]

\* What a request makes of the kept values: a reset forgets them all.
After(f, r) == IF r.kind = "reset" THEN Nothing ELSE Updated(f, r.values)

StoreInit ==
    /\ stored = Nothing
    /\ request = NoRequest
    /\ phase = "idle"

Ask ==
    /\ phase = "idle"
    /\ phase' = "asked"
    /\ request'.kind \in {"set", "reset"}
    /\ stored' = stored

Commit ==
    /\ phase = "asked"
    /\ phase' = "done"
    /\ stored' = After(stored, request)
    /\ request' = request

Decline ==
    /\ phase = "asked"
    /\ phase' = "refused"
    /\ UNCHANGED <<stored, request>>

\* The answer goes out: a result after "done", an error after "refused".
Answer ==
    /\ phase \in {"done", "refused"}
    /\ phase' = "idle"
    /\ request' = NoRequest
    /\ stored' = stored

\* The service dies: nobody hears of the request, and what is kept stays.
Crash ==
    /\ phase' = "idle"
    /\ request' = NoRequest
    /\ stored' = stored

StoreNext == Ask \/ Commit \/ Decline \/ Answer \/ Crash

StoreSpec == StoreInit /\ [][StoreNext]_storeVars
=============================================================================
