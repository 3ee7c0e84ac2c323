---------------------------- MODULE MCRtspServer ----------------------------
(* Three pictures, the first of two slices, each with its delimiter. *)
EXTENDS RtspServer

MCKinds == <<"first", "more", "aud", "first", "aud", "first", "aud">>
MCAt == <<0, 7, 13, 19, 26, 32, 38>>
MCTotal == 44
=============================================================================
