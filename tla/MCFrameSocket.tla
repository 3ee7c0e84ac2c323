----------------------------- MODULE MCFrameSocket -----------------------------
EXTENDS FrameSocket, TLC

(* The readers that are neither prompt nor stuck are interchangeable. *)
Symmetry == Permutations(Peers \ (Prompt \cup Stuck))
================================================================================
