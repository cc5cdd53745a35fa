---------------------------- MODULE RoundTripMC ----------------------------
(***************************************************************************)
(* RoundTrip on one parameter of each conversion, with the settings around *)
(* zero, around multiples of a Step and around the limits of each format.  *)
(***************************************************************************)
EXTENDS RoundTrip

MCNames == {"sp_freq", "Qset", "powup_time", "PRT_Start_count", "kp",
            "Overdrive"}

Around(n) == n - 3 .. n + 3

Limits == {2147483, 2814749, 13421772, 1073741824, IntMax - 4}

MCSettings ==
    [n \in MCNames |->
        -515 .. 515 \cup
        IF n = "sp_freq"
        THEN UNION {Around(v) : v \in {-180000000, 234378, 59765628}}
                \cup {-420000001, -420000000, 60000000, IntMax, IntMin}
        ELSE UNION {Around(v) \cup Around(-v) : v \in Limits}
                \cup IF n = "Overdrive" THEN 1500 .. 2000 ELSE {IntMin}]
=============================================================================
