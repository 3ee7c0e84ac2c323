------------------------------ MODULE MCControls ------------------------------
(* Three controls of two cameras.  The first makes 1 of any automatic mode but   *)
(* 0 and rounds the exposure up to even values; the second lacks a menu entry of *)
(* its automatic mode, has no gain and a shorter exposure.                       *)
EXTENDS Controls, TLC

auto == "exposure_auto"
time == "exposure_absolute"
gain == "gain"
speed == "pixel_rate"    \* read-only

MCControls == {auto, time, gain, speed}
MCDependents == auto :> {time}
MCRank == time :> 1 @@ auto :> 2 @@ gain :> 3 @@ speed :> 4
MCMakes ==
    "mipi" :> (auto :> (0 :> 0 @@ 1 :> 1 @@ 2 :> 1) @@ time :> (0 :> 0 @@ 1 :> 2 @@ 2 :> 2)
                  @@ gain :> (0 :> 0 @@ 1 :> 1) @@ speed :> (0 :> 0))
        @@ "usb" :> (auto :> (0 :> 0 @@ 1 :> 1) @@ time :> (0 :> 0 @@ 1 :> 1)
                        @@ gain :> <<>> @@ speed :> <<>>)
MCInRange ==
    [k \in {"mipi", "usb"} |->
        [c \in MCControls |-> IF k = "usb" /\ c = auto THEN 0..2 ELSE DOMAIN MCMakes[k][c]]]
MCDefault ==
    "mipi" :> (auto :> 1 @@ time :> 0 @@ gain :> 0 @@ speed :> 0)
        @@ "usb" :> (auto :> 0 @@ time :> 0 @@ gain :> 0 @@ speed :> 0)
MCRequests ==
    {auto :> a : a \in 0..2} \cup {auto :> 0 @@ time :> t : t \in {1, 2}}
        \cup {time :> 2, gain :> 1, auto :> 1 @@ gain :> 1, auto :> 0 @@ gain :> 7,
         gain :> 1 @@ speed :> 5}
=============================================================================
