----------------------------- MODULE RoundTrip -----------------------------
(***************************************************************************)
(* A setting on its way through the driver: writeInt32 converts it to the  *)
(* raw word of the register, the -RB record's readInt32 converts the word  *)
(* back, and an operator (or a save/restore tool) may write back what the  *)
(* -RB record showed.  No record of cpciLLRF.db has drive limits, so every *)
(* epicsInt32 can be written.  One Float64 parameter is among them,        *)
(* Overdrive, with settings in hundred-thousandths.                        *)
(***************************************************************************)
EXTENDS Conversions

CONSTANTS Names,      \* the parameters considered
          Settings    \* Settings[n]: the values an operator writes to n

ASSUME NamesAssumption    == Names \subseteq STRING
ASSUME SettingsAssumption ==
    \A n \in Names : \A v \in Settings[n] : v \in Int32

VARIABLES name,       \* the parameter
          setting,    \* the last value written to it
          raw,        \* the register's word, as an epicsInt32
          shown,      \* what the -RB record shows
          asked       \* history: the first setting, before any restore

vars == <<name, setting, raw, shown, asked>>

ToRaw(n, v) == IF n = "Overdrive" THEN OverdriveToRaw(v) ELSE Int32ToRaw(n, v)
ToEng(n, r) == IF n = "Overdrive" THEN OverdriveToEng(r) ELSE Int32ToEng(n, r)

(* One write of v followed by one read. *)
WriteAndReadBack(v) ==
    /\ setting' = v
    /\ raw' = ToRaw(name, v)
    /\ shown' = ToEng(name, raw')

Init == /\ name \in Names
        /\ setting \in Settings[name]
        /\ raw = ToRaw(name, setting)
        /\ shown = ToEng(name, raw)
        /\ asked = setting

(* Writing back what the -RB record showed. *)
Restore == shown # setting /\ WriteAndReadBack(shown) /\ UNCHANGED <<name, asked>>

Next == Restore

Spec == Init /\ [][Next]_vars /\ WF_vars(Restore)

-----------------------------------------------------------------------------
(* The settings whose raw word fits an epicsInt32. *)
Fits(n, v) ==
    CASE n = "sp_freq"      -> -420000000 <= v /\ v <= 59999999
      [] n = "Qset"         -> -2147483 <= v /\ v <= 2147483
      [] n \in TimeParams   -> -2814749 <= v /\ v <= 2814749
      [] n \in CountParams  -> -13421772 <= v /\ v <= 13421772
      [] OTHER              -> TRUE

(* The steps of a parameter: the settings above zero that survive the round *)
(* trip are their multiples.                                                *)
Step(n) == CASE n \in TimeParams -> 512
             [] n = "sp_freq"    -> 234375
             [] OTHER            -> 1

(* The parameters whose round trip truncates. *)
Truncates(n) == Step(n) > 1 \/ n = "Overdrive"

(* Where the read-back starts to truncate upward. *)
Zero(n) == IF n = "sp_freq" THEN -180000000 ELSE 0

(* The two truncations of a round trip lose at most one unit together: the  *)
(* -RB record of a setting that fits shows the setting or its neighbour     *)
(* toward zero (for sp_freq, whose conversion is offset by 180 MHz, toward  *)
(* the interval -180000000 .. 0), and the setting itself where no           *)
(* conversion truncates.                                                    *)
ReadsBackWithinOne ==
    Fits(name, setting) =>
        shown \in IF ~Truncates(name)       THEN {setting}
                  ELSE IF setting > 0       THEN {setting - 1, setting}
                  ELSE IF setting < Zero(name) THEN {setting, setting + 1}
                  ELSE {setting}

(* A larger setting never gives a smaller raw word. *)
Monotone ==
    (Fits(name, setting) /\ Fits(name, setting + 1)) =>
        raw <= ToRaw(name, setting + 1)

(* Where the decay of a setting v has to stop: at the multiple of the Step  *)
(* next to it toward Zero.                                                  *)
Stop(n, v) == IF Zero(n) <= v /\ v <= 0 THEN v ELSE Quotient(v, Step(n)) * Step(n)

(* The decay ends before a whole step is lost: however often a read-back    *)
(* is written back, the setting stays between the one first asked for and   *)
(* its Stop, and does not move where the Step is one.  Overdrive, which has *)
(* no Step, may sink further.                                               *)
KeepsWithinStep ==
    (Fits(name, asked) /\ name # "Overdrive") =>
        \/ Stop(name, asked) <= setting /\ setting <= asked
        \/ asked <= setting /\ setting <= Stop(name, asked)

(* Restored again and again, a setting reaches a value the driver reads     *)
(* back exactly, which is not the one asked for: a positive setting sinks   *)
(* to a multiple of its Step.                                               *)
RestoreSettles ==
    <>[](/\ shown = setting
         /\ Fits(name, setting) /\ setting > 0 => setting % Step(name) = 0)
=============================================================================
