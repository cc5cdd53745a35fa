---------------------------- MODULE Conversions ----------------------------
(***************************************************************************)
(* The unit conversions of the asyn driver (cpciLLRF.cpp): what readInt32, *)
(* writeInt32, readFloat64 and writeFloat64 compute between the raw word   *)
(* of an FPGA register (an epicsInt32 once cast) and the engineering value *)
(* of the parameter of the same name.                                      *)
(*                                                                         *)
(* The code computes in double and assigns the result to an epicsInt32,    *)
(* which truncates toward zero; for every parameter below the double       *)
(* result truncates to the same integer as the exact rational one, so the  *)
(* conversions are written over integers.  A product is formed in two      *)
(* factors so that no intermediate exceeds 32 bits.                        *)
(*                                                                         *)
(* A Float64 value is counted in ticks, Ticks of them to one raw step of   *)
(* its parameter (180/32768 degree, or 1/4096), so that values between two *)
(* raw steps exist; freq_cal_state, which is only read, is of this kind    *)
(* too (480/2^32).  Overdrive is the one whose double product is inexact   *)
(* where it matters.  Not here: SP_P, SP_P_1 .. 3 and  Ch_VSWR_Hold, which *)
(* are nonlinear or have an irrational factor.                             *)
(***************************************************************************)
EXTENDS Integers

IntMax == 2147483647
IntMin == -2147483647 - 1
Int32  == IntMin .. IntMax

-----------------------------------------------------------------------------
(* Arithmetic as C does it: / truncates toward zero and % takes the sign of *)
(* the dividend.                                                            *)
Quotient(x, d)  == IF x < 0 /\ x % d # 0 THEN x \div d + 1 ELSE x \div d
Remainder(x, d) == x - Quotient(x, d) * d

(* x * m * n / d truncated toward zero, and what the truncation dropped.    *)
Trunc(x, m, n, d) ==
    (Quotient(x, d) * m + Quotient(Remainder(x, d) * m, d)) * n
        + Quotient(Remainder(Remainder(x, d) * m, d) * n, d)
Dropped(x, m, n, d) == Remainder(Remainder(Remainder(x, d) * m, d) * n, d)

(* A double beyond the int range casts to INT_MIN on the x86 target. *)
CastWithin(x, low, high, y) == IF low <= x /\ x <= high THEN y ELSE IntMin

-----------------------------------------------------------------------------
(* Int32 parameters.                                                        *)

TimeParams  == {"powup_time", "powdown_time",
                "powup_hold_time", "powdown_hold_time"}
CountParams == {"PRT_Start_count", "PRT_End_count"}

(* Mutants: the time read back plus one; its scale written as 762.939; the  *)
(* count kept in 16 bits.                                                   *)
TimeToEngNext(r)    == Trunc(r, 512, 1, 390625) + 1
TimeToRawShort(v)   == CastWithin(v, -2814749, 2814749, Trunc(v, 762939, 1, 1000))
CountToRawNarrow(v) == CastWithin(v, -13421772, 13421772, (v % 65536) * 160)

(* One unit of a time parameter is 10^9 / (20 * 2^16) = 390625 / 512 raw. *)
TimeToRaw(v) == CastWithin(v, -2814749, 2814749, Trunc(v, 390625, 1, 512))
TimeToEng(r) == Trunc(r, 512, 1, 390625)

(* One unit of a count parameter is 1000 / 6.25 = 160 raw. *)
CountToRaw(v) == CastWithin(v, -13421772, 13421772, v * 160)
CountToEng(r) == Trunc(r, 1, 1, 160)

(* The centre frequency is offset by 180 MHz; 480 MHz are 2^32 raw, that is *)
(* 234375 Hz are 2^21 raw.  The sum 180000000 + value is an int sum.        *)
FreqToRaw(v) ==
    IF -420000000 <= v /\ v <= 59999999
    THEN Trunc(180000000 + v, 2048, 1024, 234375)
    ELSE IntMin

(* Below zero the (epicsInt32) cast of the difference truncates upward.     *)
FreqToEng(r) ==
    LET hertz == Trunc(r, 375, 625, 2097152) - 180000000
    IN  IF hertz < 0 /\ Dropped(r, 375, 625, 2097152) > 0 THEN hertz + 1
                                                         ELSE hertz

(* value * 1000 in int arithmetic, which wraps modulo 2^32. *)
WrapSum(a, b) == IF b > IntMax - a THEN (a - IntMax - 1) + (b - IntMax - 1)
                                   ELSE a + b
WrappedThousand(v) ==
    LET high == (1000 * (v \div 2097152)) % 2048
        low  == 1000 * (v % 2097152)
    IN  IF high < 1024 THEN WrapSum(high * 2097152, low)
                       ELSE (high - 2048) * 2097152 + low

QsetToRaw(v) == IF -2147483 <= v /\ v <= 2147483 THEN v * 1000
                                                 ELSE WrappedThousand(v)
QsetToEng(r) == Trunc(r, 1, 1, 1000)

(* The strcmp chains of writeInt32 and readInt32. *)
Int32ToRaw(name, v) ==
    IF name = "sp_freq" THEN FreqToRaw(v)
    ELSE IF name = "Qset" THEN QsetToRaw(v)
    ELSE IF name \in TimeParams THEN TimeToRaw(v)
    ELSE IF name \in CountParams THEN CountToRaw(v)
    ELSE v

Int32ToEng(name, r) ==
    IF name = "sp_freq" THEN FreqToEng(r)
    ELSE IF name = "Qset" THEN QsetToEng(r)
    ELSE IF name \in TimeParams THEN TimeToEng(r)
    ELSE IF name \in CountParams THEN CountToEng(r)
    ELSE r

-----------------------------------------------------------------------------
(* Float64 parameters with a linear conversion, in ticks.                   *)

Ticks == 4

Float64ToRaw(t) == Trunc(t, 1, 1, Ticks)
Float64ToEng(r) == r * Ticks

-----------------------------------------------------------------------------
(* Overdrive: value * 100000 and regData / 100000.  The settings considered *)
(* are of five decimals: n stands for the double nearest to n / 100000,     *)
(* which is also what n raw reads back as.  The product of that double and  *)
(* 100000 is n, or, where the double is below n / 100000 by more than half  *)
(* a unit in the last place of n, just short of it, and truncates to n - 1. *)

Exponent(n) == CHOOSE k \in 0 .. 30 : n \div 2 ^ k = 1

(* n * 2^e modulo 100000 *)
Scaled(n, e) ==
    LET m[i \in 0 .. e] == IF i = 0 THEN n % 100000 ELSE (2 * m[i - 1]) % 100000
    IN  m[e]

(* The double is 53 bits of n * 2^e / 100000, where e + Exponent(n) is 68   *)
(* for the mantissas of n from 100000 / 2^16 on and 69 for those below,     *)
(* which never fall short.                                                  *)
FallsShort(n) ==
    LET k == Exponent(n)
    IN  /\ n * 2 ^ (30 - k) >= 1638400000
        /\ Scaled(n, 68 - k) \in 32769 .. 50000

OverdriveToRaw(n) ==
    IF n > 0 /\ FallsShort(n) THEN n - 1
    ELSE IF n < 0 /\ FallsShort(-n) THEN n + 1
    ELSE n
OverdriveToEng(r) == r
=============================================================================
