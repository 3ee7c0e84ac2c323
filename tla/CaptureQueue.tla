------------------------------ MODULE CaptureQueue ------------------------------
(***************************************************************************)
(* What a V4L2 capture device promises the program that streams from it,   *)
(* without pipes, mappings or sockets: buffers are queued and handed back, *)
(* one at a time and never twice, each with one whole picture, and         *)
(* stopping the stream or requesting buffers anew gives all of them back.  *)
(***************************************************************************)
EXTENDS Naturals

CONSTANT MaxBuffers

VARIABLES
  count,      \* buffers the program has
  queued,     \* those it has queued
  streaming,
  picture     \* what the last buffer handed back held

vars == <<count, queued, streaming, picture>>

Init == count = 0 /\ queued = {} /\ streaming = FALSE /\ picture = "none"

Request(n) ==
  /\ count' = n /\ queued' = {}
  /\ UNCHANGED <<streaming, picture>>

Queue(b) ==
  /\ b < count /\ b \notin queued
  /\ queued' = queued \cup {b}
  /\ UNCHANGED <<count, streaming, picture>>

HandBack(b) ==
  /\ streaming /\ b \in queued
  /\ queued' = queued \ {b}
  /\ picture' = "whole"
  /\ UNCHANGED <<count, streaming>>

Start == ~streaming /\ streaming' = TRUE /\ UNCHANGED <<count, queued, picture>>
Stop  == streaming /\ streaming' = FALSE /\ queued' = {} /\ UNCHANGED <<count, picture>>
Close == count' = 0 /\ queued' = {} /\ streaming' = FALSE /\ UNCHANGED picture

Next ==
  \/ \E n \in 0 .. MaxBuffers : Request(n)
  \/ \E b \in 0 .. MaxBuffers - 1 : Queue(b) \/ HandBack(b)
  \/ Start \/ Stop \/ Close

Spec == Init /\ [][Next]_vars
================================================================================
