------------------------------- MODULE FrameFeed -------------------------------
(***************************************************************************)
(* What a frame socket promises its readers, without slots, buffers or     *)
(* timeouts: a reader is in or out, it is handed frames whole, and if one  *)
(* is ever cut off in the middle that is the last thing the reader gets.   *)
(***************************************************************************)
EXTENDS Naturals

CONSTANT Peers

VARIABLES
  phase,    \* [Peers -> out, in or gone]
  frames,   \* [Peers -> nothing, one or many]
  cut,      \* the readers left with part of a frame
  single    \* a reader is let go after one frame

vars == <<phase, frames, cut, single>>

Init ==
  /\ phase = [p \in Peers |-> "out"]
  /\ frames = [p \in Peers |-> "nothing"]
  /\ cut = {}
  /\ single \in BOOLEAN

Join(p) ==
  /\ phase[p] = "out"
  /\ phase' = [phase EXCEPT ![p] = "in"]
  /\ UNCHANGED <<frames, cut, single>>

Refuse(p) ==
  /\ phase[p] = "out"
  /\ phase' = [phase EXCEPT ![p] = "gone"]
  /\ UNCHANGED <<frames, cut, single>>

Deliver(p) ==
  /\ phase[p] = "in" /\ p \notin cut
  /\ frames' = [frames EXCEPT ![p] = IF @ = "nothing" THEN "one" ELSE "many"]
  /\ phase' = IF single THEN [phase EXCEPT ![p] = "gone"] ELSE phase
  /\ UNCHANGED <<cut, single>>

(* The reader is let go, between two frames or in the middle of one. *)
Leave(p) ==
  /\ phase[p] = "in"
  /\ phase' = [phase EXCEPT ![p] = "gone"]
  /\ cut' \in {cut, cut \cup {p}}
  /\ UNCHANGED <<frames, single>>

Next == \E p \in Peers : Join(p) \/ Refuse(p) \/ Deliver(p) \/ Leave(p)

Spec == Init /\ [][Next]_vars
================================================================================
