-------------------------- MODULE RoundTrip_proofs --------------------------
(***************************************************************************)
(* For every epicsInt32 an operator may write to an Int32 parameter, and   *)
(* every setting of Overdrive in hundred-thousandths, where the run takes  *)
(* the settings around zero, multiples of the steps and the limits.  What  *)
(* FallsShort computes is left open: the theorems hold whichever settings  *)
(* of Overdrive the product of doubles falls short of.                     *)
(***************************************************************************)
EXTENDS RoundTrip, TLAPS

(* C's division: toward zero, and the remainder has the sign of x. *)
LEMMA Division ==
    ASSUME NEW x \in Int, NEW d \in Nat \ {0}
    PROVE  /\ Quotient(x, d) \in Int /\ Remainder(x, d) \in Int
           /\ Quotient(x, d) * d + Remainder(x, d) = x
           /\ x >= 0 => 0 <= Remainder(x, d) /\ Remainder(x, d) < d /\ Quotient(x, d) >= 0
           /\ x <= 0 => -d < Remainder(x, d) /\ Remainder(x, d) <= 0 /\ Quotient(x, d) <= 0
<1>1. /\ x \div d \in Int /\ x % d \in 0 .. d - 1
      /\ x = d * (x \div d) + (x % d)
  BY SMT
<1>2. CASE x < 0 /\ x % d # 0
  BY <1>1, <1>2, SMT DEF Quotient, Remainder
<1>3. CASE ~(x < 0 /\ x % d # 0)
  BY <1>1, <1>3, SMT DEF Quotient, Remainder
<1> QED
  BY <1>2, <1>3

(* Trunc is x * m * n / d truncated toward zero, and Dropped the rest, for  *)
(* every scale of the conversions: the two factors lose nothing.            *)
LEMMA Truncation ==
    ASSUME NEW x \in Int, NEW m \in Nat \ {0}, NEW n \in Nat \ {0}, NEW d \in Nat \ {0}
    PROVE  LET t == Trunc(x, m, n, d)
               r == Dropped(x, m, n, d)
           IN  /\ t \in Int /\ r \in Int
               /\ t * d + r = x * m * n
               /\ x >= 0 => 0 <= r /\ r < d
               /\ x <= 0 => -d < r /\ r <= 0
<1> DEFINE q1 == Quotient(x, d)
           r1 == Remainder(x, d)
           q2 == Quotient(r1 * m, d)
           r2 == Remainder(r1 * m, d)
           q3 == Quotient(r2 * n, d)
           r3 == Remainder(r2 * n, d)
<1>1. /\ q1 \in Int /\ r1 \in Int /\ q1 * d + r1 = x
      /\ x >= 0 => r1 >= 0
      /\ x <= 0 => r1 <= 0
  BY Division
<1>2. /\ r1 * m \in Int
      /\ r1 >= 0 => r1 * m >= 0
      /\ r1 <= 0 => r1 * m <= 0
  BY <1>1, SMT
<1>3. /\ q2 \in Int /\ r2 \in Int /\ q2 * d + r2 = r1 * m
      /\ r1 >= 0 => r2 >= 0
      /\ r1 <= 0 => r2 <= 0
  <2> HIDE DEF r1
  <2> QED
    BY <1>2, Division
<1>4. /\ r2 * n \in Int
      /\ r2 >= 0 => r2 * n >= 0
      /\ r2 <= 0 => r2 * n <= 0
  <2> HIDE DEF r2
  <2> QED
    BY <1>3, SMT
<1>5. /\ q3 \in Int /\ r3 \in Int /\ q3 * d + r3 = r2 * n
      /\ r2 >= 0 => 0 <= r3 /\ r3 < d
      /\ r2 <= 0 => -d < r3 /\ r3 <= 0
  <2> HIDE DEF r2
  <2> QED
    BY <1>4, Division
<1>6. Trunc(x, m, n, d) = (q1 * m + q2) * n + q3 /\ Dropped(x, m, n, d) = r3
  BY DEF Trunc, Dropped
<1> HIDE DEF q1, r1, q2, r2, q3, r3
<1>7. ((q1 * m + q2) * n + q3) * d + r3 = x * m * n
  <2>1. ((q1 * m + q2) * n + q3) * d + r3 = (q1 * d) * m * n + (q2 * d) * n + (q3 * d + r3)
    BY <1>1, <1>3, <1>5, SMT
  <2>2. q3 * d + r3 = r2 * n
    BY <1>5
  <2>3. (q2 * d) * n + r2 * n = r1 * m * n
    BY <1>1, <1>3, SMT
  <2>4. (q1 * d) * m * n + r1 * m * n = x * m * n
    BY <1>1, SMT
  <2> QED
    BY <1>1, <1>3, <1>5, <2>1, <2>2, <2>3, <2>4, SMT
<1>8. (q1 * m + q2) * n + q3 \in Int
  BY <1>1, <1>3, <1>5
<1> QED
  BY <1>1, <1>3, <1>5, <1>6, <1>7, <1>8

-----------------------------------------------------------------------------
(* The two directions of a time, and of a frequency, as inequalities.       *)

(* The raw word of a time that fits is not cast out of range, and           *)
(* truncated toward zero (writeInt32, powup_time and the others).           *)
LEMMA TimeRaw ==
    ASSUME NEW v \in Int, -2814749 <= v, v <= 2814749
    PROVE  LET r == TimeToRaw(v)
           IN  /\ r \in Int
               /\ v >= 0 => 512 * r <= 390625 * v /\ 390625 * v < 512 * r + 512
               /\ v <= 0 => 512 * r >= 390625 * v /\ 390625 * v > 512 * r - 512
<1>1. TimeToRaw(v) = Trunc(v, 390625, 1, 512)
  BY SMT DEF TimeToRaw, CastWithin
<1>2. /\ Trunc(v, 390625, 1, 512) \in Int /\ Dropped(v, 390625, 1, 512) \in Int
      /\ Trunc(v, 390625, 1, 512) * 512 + Dropped(v, 390625, 1, 512) = v * 390625 * 1
      /\ v >= 0 => 0 <= Dropped(v, 390625, 1, 512) /\ Dropped(v, 390625, 1, 512) < 512
      /\ v <= 0 => -512 < Dropped(v, 390625, 1, 512) /\ Dropped(v, 390625, 1, 512) <= 0
  BY Truncation, SMT
<1> QED
  BY <1>1, <1>2, SMT

(* A word read back as a time is truncated toward zero (readInt32).         *)
LEMMA TimeEng ==
    ASSUME NEW r \in Int
    PROVE  LET e == TimeToEng(r)
           IN  /\ e \in Int
               /\ r >= 0 => 390625 * e <= 512 * r /\ 512 * r < 390625 * e + 390625
               /\ r <= 0 => 390625 * e >= 512 * r /\ 512 * r > 390625 * e - 390625
<1>1. TimeToEng(r) = Trunc(r, 512, 1, 390625)
  BY SMT DEF TimeToEng
<1>2. /\ Trunc(r, 512, 1, 390625) \in Int /\ Dropped(r, 512, 1, 390625) \in Int
      /\ Trunc(r, 512, 1, 390625) * 390625 + Dropped(r, 512, 1, 390625) = r * 512 * 1
      /\ r >= 0 => 0 <= Dropped(r, 512, 1, 390625) /\ Dropped(r, 512, 1, 390625) < 390625
      /\ r <= 0 => -390625 < Dropped(r, 512, 1, 390625) /\ Dropped(r, 512, 1, 390625) <= 0
  BY Truncation, SMT
<1> QED
  BY <1>1, <1>2, SMT

(* The raw word of a frequency is truncated toward the word of -180 MHz.    *)
LEMMA FreqRaw ==
    ASSUME NEW v \in Int, -420000000 <= v, v <= 59999999
    PROVE  LET h == 180000000 + v
               r == FreqToRaw(v)
           IN  /\ r \in Int
               /\ h >= 0 => 234375 * r <= 2097152 * h /\ 2097152 * h < 234375 * r + 234375
               /\ h <= 0 => 234375 * r >= 2097152 * h /\ 2097152 * h > 234375 * r - 234375
<1> DEFINE h == 180000000 + v
           t == Trunc(h, 2048, 1024, 234375)
           z == Dropped(h, 2048, 1024, 234375)
<1>1. h \in Int /\ FreqToRaw(v) = t
  BY SMT DEF FreqToRaw
<1> HIDE DEF h
<1>2. /\ t \in Int /\ z \in Int
      /\ t * 234375 + z = h * 2048 * 1024
      /\ h >= 0 => 0 <= z /\ z < 234375
      /\ h <= 0 => -234375 < z /\ z <= 0
  BY <1>1, Truncation, SMT
<1> HIDE DEF t, z
<1>3. /\ h >= 0 => 234375 * t <= 2097152 * h /\ 2097152 * h < 234375 * t + 234375
      /\ h <= 0 => 234375 * t >= 2097152 * h /\ 2097152 * h > 234375 * t - 234375
  BY <1>1, <1>2, SMT
<1> QED
  BY <1>1, <1>2, <1>3, SMT DEF h

(* The read-back of a frequency above zero is truncated downward, below it  *)
(* upward, and at zero either way.                                          *)
LEMMA FreqEng ==
    ASSUME NEW r \in Int
    PROVE  LET e == FreqToEng(r)
               h == 180000000 + e
           IN  /\ e \in Int
               /\ e > 0 => 2097152 * h <= 234375 * r /\ 234375 * r < 2097152 * h + 2097152
               /\ e < 0 => 2097152 * h >= 234375 * r /\ 234375 * r > 2097152 * h - 2097152
               /\ e = 0 => /\ 2097152 * h - 2097152 < 234375 * r
                           /\ 234375 * r < 2097152 * h + 2097152
<1> DEFINE t == Trunc(r, 375, 625, 2097152)
           z == Dropped(r, 375, 625, 2097152)
           e == FreqToEng(r)
<1>1. /\ t \in Int /\ z \in Int
      /\ t * 2097152 + z = r * 375 * 625
      /\ r >= 0 => 0 <= z /\ z < 2097152
      /\ r <= 0 => -2097152 < z /\ z <= 0
  BY Truncation, SMT
<1>2. e = IF t - 180000000 < 0 /\ z > 0 THEN t - 180000000 + 1 ELSE t - 180000000
  BY SMT DEF FreqToEng
<1> HIDE DEF t, z, e
<1> QED
  BY <1>1, <1>2, SMT DEF e

-----------------------------------------------------------------------------
(* A round trip, and when it shows a positive setting itself.               *)

(* The two truncations of a time lose at most one unit together, and none   *)
(* if 512 divides it; of a positive setting only then.                      *)
LEMMA TimeBack ==
    ASSUME NEW v \in Int, -2814749 <= v, v <= 2814749
    PROVE  LET e == TimeToEng(TimeToRaw(v))
           IN  /\ v > 0 => e \in {v - 1, v}
               /\ v < 0 => e \in {v, v + 1}
               /\ v = 0 => e = 0
               /\ v % 512 = 0 => e = v
               /\ e = v /\ v > 0 => v % 512 = 0
<1> DEFINE r == TimeToRaw(v)
           e == TimeToEng(r)
<1>1. /\ r \in Int
      /\ v >= 0 => 512 * r <= 390625 * v /\ 390625 * v < 512 * r + 512
      /\ v <= 0 => 512 * r >= 390625 * v /\ 390625 * v > 512 * r - 512
  BY TimeRaw, SMT
<1> HIDE DEF r
<1>2. /\ e \in Int
      /\ r >= 0 => 390625 * e <= 512 * r /\ 512 * r < 390625 * e + 390625
      /\ r <= 0 => 390625 * e >= 512 * r /\ 512 * r > 390625 * e - 390625
  BY <1>1, TimeEng, SMT
<1> HIDE DEF e
<1>3. /\ v > 0 => e \in {v - 1, v}
      /\ v < 0 => e \in {v, v + 1}
      /\ v = 0 => e = 0
  BY <1>1, <1>2, SMT
<1>4. ASSUME e = v, v > 0 PROVE v % 512 = 0
  <2>1. 512 * r = 390625 * v
    BY <1>1, <1>2, <1>4, SMT
  <2> QED
    BY <1>1, <2>1, SMT
<1>5. ASSUME v % 512 = 0 PROVE e = v
  <2>1. PICK k \in Int : v = 512 * k
    BY <1>5, SMT
  <2>2. r = 390625 * k
    BY <1>1, <2>1, SMT
  <2> QED
    BY <1>2, <2>1, <2>2, SMT
<1> QED
  BY <1>3, <1>4, <1>5, SMT DEF e, r

(* The same of a frequency. 45713 inverts 2^21 modulo 234375, which shows   *)
(* that a frequency with an exact word is a multiple of 234375.             *)
LEMMA FreqBack ==
    ASSUME NEW v \in Int, -420000000 <= v, v <= 59999999
    PROVE  LET e == FreqToEng(FreqToRaw(v))
           IN  /\ v > 0 => e \in {v - 1, v}
               /\ v < -180000000 => e \in {v, v + 1}
               /\ -180000000 <= v /\ v <= 0 => e = v
               /\ v % 234375 = 0 => e = v
               /\ e = v /\ v > 0 => v % 234375 = 0
<1> DEFINE r == FreqToRaw(v)
           e == FreqToEng(r)
           h == 180000000 + v
           g == 180000000 + e
<1>1. /\ r \in Int
      /\ h >= 0 => 234375 * r <= 2097152 * h /\ 2097152 * h < 234375 * r + 234375
      /\ h <= 0 => 234375 * r >= 2097152 * h /\ 2097152 * h > 234375 * r - 234375
  BY FreqRaw, SMT
<1> HIDE DEF r
<1>2. /\ e \in Int
      /\ e > 0 => 2097152 * g <= 234375 * r /\ 234375 * r < 2097152 * g + 2097152
      /\ e < 0 => 2097152 * g >= 234375 * r /\ 234375 * r > 2097152 * g - 2097152
      /\ e = 0 => /\ 2097152 * g - 2097152 < 234375 * r
                  /\ 234375 * r < 2097152 * g + 2097152
  BY <1>1, FreqEng, SMT
<1> HIDE DEF e
<1>3. /\ v > 0 => e \in {v - 1, v}
      /\ v < -180000000 => e \in {v, v + 1}
      /\ -180000000 <= v /\ v <= 0 => e = v
  BY <1>1, <1>2, SMT
<1>4. ASSUME e = v, v > 0 PROVE v % 234375 = 0
  <2>1. 234375 * r = 2097152 * (180000000 + v)
    BY <1>1, <1>2, <1>4, SMT
  <2> DEFINE w == 45713 * (r - 1610612736) - 409033 * v
  <2>2. w \in Int /\ v = 234375 * w
    BY <1>1, <2>1, SMT
  <2> HIDE DEF w
  <2> QED
    BY <2>2, SMT
<1>5. ASSUME v % 234375 = 0 PROVE e = v
  <2>1. PICK k \in Int : v = 234375 * k
    BY <1>5, SMT
  <2>2. r = 2097152 * (768 + k)
    BY <1>1, <2>1, SMT
  <2>3. 234375 * r = 2097152 * (180000000 + v)
    BY <2>1, <2>2, SMT
  <2> QED
    BY <1>2, <2>3, SMT
<1> QED
  BY <1>3, <1>4, <1>5, SMT DEF e, r

-----------------------------------------------------------------------------
(* The parameters of RoundTrip, name by name.                               *)

(* No name is in two groups of parameters.                                  *)
LEMMA Disjoint ==
    ASSUME NEW n
    PROVE  /\ n \in TimeParams => /\ n \notin CountParams
                                  /\ n # "sp_freq" /\ n # "Qset" /\ n # "Overdrive"
           /\ n \in CountParams => n # "sp_freq" /\ n # "Qset" /\ n # "Overdrive"
BY DEF TimeParams, CountParams

(* The conversions of each group, and what its Step and Zero are.           *)
LEMMA ByName ==
    ASSUME NEW n, NEW v
    PROVE  /\ n \in TimeParams => /\ ToRaw(n, v) = TimeToRaw(v) /\ ToEng(n, v) = TimeToEng(v)
                                  /\ Step(n) = 512 /\ Zero(n) = 0
           /\ n = "sp_freq" => /\ ToRaw(n, v) = FreqToRaw(v) /\ ToEng(n, v) = FreqToEng(v)
                               /\ Step(n) = 234375 /\ Zero(n) = -180000000
           /\ n = "Qset" => /\ ToRaw(n, v) = QsetToRaw(v) /\ ToEng(n, v) = QsetToEng(v)
                            /\ Step(n) = 1 /\ Zero(n) = 0
           /\ n \in CountParams => /\ ToRaw(n, v) = CountToRaw(v) /\ ToEng(n, v) = CountToEng(v)
                                   /\ Step(n) = 1 /\ Zero(n) = 0
           /\ n = "Overdrive" => /\ ToRaw(n, v) = OverdriveToRaw(v) /\ ToEng(n, v) = v
                                 /\ Step(n) = 1 /\ Zero(n) = 0
           /\ n \notin TimeParams \cup CountParams \cup {"sp_freq", "Qset", "Overdrive"} =>
                /\ ToRaw(n, v) = v /\ ToEng(n, v) = v
                /\ Step(n) = 1 /\ Zero(n) = 0
BY Disjoint, SMT DEF ToRaw, ToEng, Int32ToRaw, Int32ToEng, OverdriveToEng, Step, Zero

(* The range of settings of each group.                                     *)
LEMMA FitsByName ==
    ASSUME NEW n, NEW v \in Int, Fits(n, v)
    PROVE  /\ n \in TimeParams => -2814749 <= v /\ v <= 2814749
           /\ n = "sp_freq" => -420000000 <= v /\ v <= 59999999
           /\ n = "Qset" => -2147483 <= v /\ v <= 2147483
           /\ n \in CountParams => -13421772 <= v /\ v <= 13421772
BY Disjoint, SMT DEF Fits

(* Settings that fit times 1000, or 160, come back as they are.             *)
LEMMA Exact ==
    ASSUME NEW v \in Int
    PROVE  /\ -2147483 <= v /\ v <= 2147483 => QsetToRaw(v) = v * 1000 /\ QsetToEng(v * 1000) = v
           /\ -13421772 <= v /\ v <= 13421772 =>
                CountToRaw(v) = v * 160 /\ CountToEng(v * 160) = v
<1>1. Trunc(v * 1000, 1, 1, 1000) = v /\ Trunc(v * 160, 1, 1, 160) = v
  BY SMT DEF Trunc, Quotient, Remainder
<1>2. QsetToEng(v * 1000) = v /\ CountToEng(v * 160) = v
  BY <1>1, SMT DEF QsetToEng, CountToEng
<1>3. ASSUME -2147483 <= v, v <= 2147483 PROVE QsetToRaw(v) = v * 1000
  BY <1>3, SMT DEF QsetToRaw
<1>4. ASSUME -13421772 <= v, v <= 13421772 PROVE CountToRaw(v) = v * 160
  BY <1>4, SMT DEF CountToRaw, CastWithin
<1> QED
  BY <1>2, <1>3, <1>4, SMT

(* Truncation of the double product of Overdrive is at most one short, and  *)
(* toward zero, whichever settings FallsShort singles out.                  *)
LEMMA OverdriveBack ==
    ASSUME NEW v \in Int
    PROVE  /\ OverdriveToRaw(v) \in Int
           /\ v > 0 => OverdriveToRaw(v) \in {v - 1, v}
           /\ v < 0 => OverdriveToRaw(v) \in {v, v + 1}
           /\ v = 0 => OverdriveToRaw(v) = 0
BY SMT DEF OverdriveToRaw

(* A round trip of any parameter, put together from the groups.             *)
LEMMA BackWithinOne ==
    ASSUME NEW n, NEW v \in Int, Fits(n, v)
    PROVE  LET e == ToEng(n, ToRaw(n, v))
           IN  /\ ~Truncates(n) => e = v
               /\ v > 0 => e \in {v - 1, v}
               /\ v < Zero(n) => e \in {v, v + 1}
               /\ v <= 0 /\ v >= Zero(n) => e = v
               /\ e = v /\ v > 0 => v % Step(n) = 0
<1>1. CASE n \in TimeParams
  <2>1. /\ -2814749 <= v /\ v <= 2814749
        /\ ToEng(n, ToRaw(n, v)) = TimeToEng(TimeToRaw(v)) /\ Step(n) = 512 /\ Zero(n) = 0
    BY <1>1, FitsByName, ByName, SMT
  <2> QED
    BY <2>1, TimeBack, SMT DEF Truncates
<1>2. CASE n = "sp_freq"
  <2>1. /\ -420000000 <= v /\ v <= 59999999
        /\ ToEng(n, ToRaw(n, v)) = FreqToEng(FreqToRaw(v))
        /\ Step(n) = 234375 /\ Zero(n) = -180000000
    BY <1>2, FitsByName, ByName, SMT
  <2> QED
    BY <2>1, FreqBack, SMT DEF Truncates
<1>3. CASE n = "Qset" \/ n \in CountParams
  <2>1. ToEng(n, ToRaw(n, v)) = v /\ Step(n) = 1 /\ Zero(n) = 0
    BY <1>3, FitsByName, ByName, Exact, SMT
  <2> QED
    BY <2>1, SMT
<1>4. CASE n = "Overdrive"
  <2>1. ToEng(n, ToRaw(n, v)) = OverdriveToRaw(v) /\ Step(n) = 1 /\ Zero(n) = 0
    BY <1>4, ByName, SMT
  <2> QED
    BY <1>4, <2>1, OverdriveBack, SMT DEF Truncates
<1>5. CASE n \notin TimeParams \cup CountParams \cup {"sp_freq", "Qset", "Overdrive"}
  <2>1. ToEng(n, ToRaw(n, v)) = v /\ Step(n) = 1 /\ Zero(n) = 0
    BY <1>5, ByName, SMT
  <2> QED
    BY <2>1, SMT
<1> QED
  BY <1>1, <1>2, <1>3, <1>4, <1>5, SMT

(* A multiple of its parameter's Step comes back as it is.                  *)
LEMMA StepsSurvive ==
    ASSUME NEW n, n # "Overdrive", NEW v \in Int, Fits(n, v), v % Step(n) = 0
    PROVE  ToEng(n, ToRaw(n, v)) = v
<1>1. CASE n \in TimeParams
  <2>1. /\ -2814749 <= v /\ v <= 2814749 /\ v % 512 = 0
        /\ ToEng(n, ToRaw(n, v)) = TimeToEng(TimeToRaw(v))
    BY <1>1, FitsByName, ByName, SMT
  <2> QED
    BY <2>1, TimeBack, SMT
<1>2. CASE n = "sp_freq"
  <2>1. /\ -420000000 <= v /\ v <= 59999999 /\ v % 234375 = 0
        /\ ToEng(n, ToRaw(n, v)) = FreqToEng(FreqToRaw(v))
    BY <1>2, FitsByName, ByName, SMT
  <2> QED
    BY <2>1, FreqBack, SMT
<1>3. CASE n \notin TimeParams \cup {"sp_freq"}
  <2>1. Step(n) = 1
    BY <1>3, SMT DEF Step
  <2> QED
    BY <2>1, BackWithinOne, SMT DEF Truncates
<1> QED
  BY <1>1, <1>2, <1>3, SMT

(* The Stop of a setting lies between it and Zero, and is a multiple of the *)
(* Step unless the setting is within Zero already.                          *)
LEMMA StopToward ==
    ASSUME NEW n, NEW v \in Int
    PROVE  LET f == Stop(n, v)
           IN  /\ f \in Int
               /\ v > 0 => 0 <= f /\ f <= v /\ f % Step(n) = 0
               /\ v < Zero(n) => v <= f /\ f <= Zero(n) /\ f % Step(n) = 0
               /\ Zero(n) <= v /\ v <= 0 => f = v
<1> DEFINE d == Step(n)
           q == Quotient(v, d)
           z == Remainder(v, d)
<1>1. \/ d = 1 /\ Zero(n) = 0
      \/ d = 512 /\ Zero(n) = 0
      \/ d = 234375 /\ Zero(n) = -180000000
  BY Disjoint, SMT DEF Step, Zero
<1>2. Stop(n, v) = IF Zero(n) <= v /\ v <= 0 THEN v ELSE q * d
  BY DEF Stop
<1> HIDE DEF d
<1>3. d \in Nat \ {0}
  BY <1>1, SMT
<1>4. /\ q \in Int /\ z \in Int /\ q * d + z = v
      /\ v >= 0 => 0 <= z /\ z < d /\ q >= 0
      /\ v <= 0 => -d < z /\ z <= 0 /\ q <= 0
  BY <1>3, Division
<1> HIDE DEF q, z
<1>5. (q * d) % d = 0
  BY <1>1, <1>4, SMT
<1>6. v > 0 => 0 <= q * d /\ q * d <= v
  BY <1>1, <1>4, SMT
<1>7. v < Zero(n) => v <= q * d /\ q * d <= Zero(n)
  BY <1>1, <1>4, SMT
<1> QED
  BY <1>1, <1>2, <1>4, <1>5, <1>6, <1>7, SMT DEF d

(* What lies between a setting that fits and Zero fits as well.             *)
LEMMA FitsToward ==
    ASSUME NEW n, NEW v \in Int, Fits(n, v), NEW s \in Int,
           \/ 0 <= s /\ s <= v
           \/ v <= s /\ s <= Zero(n)
    PROVE  Fits(n, s)
BY Disjoint, SMT DEF Fits, Zero

(* s is v, or on the way from v to its Stop.                                *)
OnTheWay(n, v, s) ==
    \/ Stop(n, v) <= s /\ s <= v
    \/ v <= s /\ s <= Stop(n, v)

(* A restore does not leave the way of a setting to its Stop.               *)
LEMMA RestoreKeepsWay ==
    ASSUME NEW n, n # "Overdrive", NEW v \in Int, Fits(n, v),
           NEW s \in Int, OnTheWay(n, v, s)
    PROVE  OnTheWay(n, v, ToEng(n, ToRaw(n, s)))
<1> DEFINE f == Stop(n, v)
           e == ToEng(n, ToRaw(n, s))
<1>0. Zero(n) \in Int /\ Zero(n) <= 0
  BY SMT DEF Zero
<1>1. /\ f \in Int
      /\ v > 0 => 0 <= f /\ f <= v /\ f % Step(n) = 0
      /\ v < Zero(n) => v <= f /\ f <= Zero(n) /\ f % Step(n) = 0
      /\ Zero(n) <= v /\ v <= 0 => f = v
  BY StopToward
<1>2. (f <= s /\ s <= v) \/ (v <= s /\ s <= f)
  BY DEF OnTheWay
<1> SUFFICES (f <= e /\ e <= v) \/ (v <= e /\ e <= f)
  BY DEF OnTheWay
<1> HIDE DEF f
<1>3. Fits(n, s)
  BY <1>0, <1>1, <1>2, FitsToward, SMT
<1>4. /\ s > 0 => e \in {s - 1, s}
      /\ s < Zero(n) => e \in {s, s + 1}
      /\ s <= 0 /\ s >= Zero(n) => e = s
  BY <1>3, BackWithinOne
<1>5. s % Step(n) = 0 => e = s
  BY <1>3, StepsSurvive
<1> HIDE DEF e
<1> QED
  BY <1>0, <1>1, <1>2, <1>4, <1>5, SMT

(* Each conversion is monotone where two neighbours fit.                    *)
LEMMA RawMonotone ==
    ASSUME NEW n, NEW v \in Int, Fits(n, v), Fits(n, v + 1)
    PROVE  ToRaw(n, v) <= ToRaw(n, v + 1)
<1> DEFINE w == v + 1
<1>1. w \in Int /\ w = v + 1 /\ Fits(n, w)
  BY SMT
<1> HIDE DEF w
<1>2. CASE n \in TimeParams
  <2>1. /\ -2814749 <= v /\ v <= 2814749 /\ -2814749 <= w /\ w <= 2814749
        /\ ToRaw(n, v) = TimeToRaw(v) /\ ToRaw(n, w) = TimeToRaw(w)
    BY <1>1, <1>2, FitsByName, ByName, SMT
  <2> QED
    BY <1>1, <2>1, TimeRaw, SMT
<1>3. CASE n = "sp_freq"
  <2>1. /\ -420000000 <= v /\ v <= 59999999 /\ -420000000 <= w /\ w <= 59999999
        /\ ToRaw(n, v) = FreqToRaw(v) /\ ToRaw(n, w) = FreqToRaw(w)
    BY <1>1, <1>3, FitsByName, ByName, SMT
  <2> QED
    BY <1>1, <2>1, FreqRaw, SMT
<1>4. CASE n = "Qset" \/ n \in CountParams
  <2>1. \/ ToRaw(n, v) = v * 1000 /\ ToRaw(n, w) = w * 1000
        \/ ToRaw(n, v) = v * 160 /\ ToRaw(n, w) = w * 160
    BY <1>1, <1>4, FitsByName, ByName, Exact, SMT
  <2> QED
    BY <1>1, <2>1, SMT
<1>5. CASE n = "Overdrive"
  <2>1. ToRaw(n, v) = OverdriveToRaw(v) /\ ToRaw(n, w) = OverdriveToRaw(w)
    BY <1>5, ByName, SMT
  <2> QED
    BY <1>1, <2>1, OverdriveBack, SMT
<1>6. CASE n \notin TimeParams \cup CountParams \cup {"sp_freq", "Qset", "Overdrive"}
  <2>1. ToRaw(n, v) = v /\ ToRaw(n, w) = w
    BY <1>6, ByName, SMT
  <2> QED
    BY <1>1, <2>1, SMT
<1> QED
  BY <1>1, <1>2, <1>3, <1>4, <1>5, <1>6, SMT

-----------------------------------------------------------------------------
(* No conversion leaves the epicsInt32 it is assigned to, also for settings *)
(* that do not fit.                                                         *)

Within(x) == x \in Int /\ -2147483648 <= x /\ x <= 2147483647

(* The limits of an epicsInt32, as numerals.                                *)
LEMMA Limits == IntMax = 2147483647 /\ IntMin = -2147483648
BY SMT DEF IntMax, IntMin

(* An epicsInt32 by its limits: the provers reason about inequalities, and  *)
(* not about an interval of 2^32 numbers.                                   *)
LEMMA WithinInt32 == \A x : x \in Int32 <=> Within(x)
<1>1. IntMin \in Int /\ IntMax \in Int
  BY Limits, SMT
<1>2. ASSUME NEW x PROVE x \in Int32 <=> x \in Int /\ IntMin <= x /\ x <= IntMax
  BY <1>1, SMT DEF Int32
<1> QED
  BY <1>2, Limits, SMT DEF Within

(* The wrapped product of Qset is an epicsInt32.                            *)
LEMMA QsetWithin == ASSUME NEW v, Within(v) PROVE Within(QsetToRaw(v))
<1> DEFINE high == (1000 * (v \div 2097152)) % 2048
           low  == 1000 * (v % 2097152)
           a == IF high < 1024 THEN high * 2097152 ELSE (high - 2048) * 2097152
<1>1. /\ high \in Int /\ 0 <= high /\ high <= 2047
      /\ low \in Int /\ 0 <= low /\ low <= 2097151000
  BY SMT DEF Within
<1>2. WrappedThousand(v) = IF high < 1024 THEN WrapSum(high * 2097152, low)
                           ELSE (high - 2048) * 2097152 + low
  BY SMT DEF WrappedThousand
<1> HIDE DEF high, low
<1>3. Within(WrappedThousand(v))
  BY <1>1, <1>2, Limits, SMT DEF WrapSum, Within
<1>4. CASE -2147483 <= v /\ v <= 2147483
  BY <1>4, Exact, SMT DEF Within
<1>5. CASE ~(-2147483 <= v /\ v <= 2147483)
  BY <1>3, <1>5, SMT DEF QsetToRaw
<1> QED
  BY <1>4, <1>5, SMT

(* Every raw word is an epicsInt32, that of a setting out of range too.     *)
LEMMA RawWithin == ASSUME NEW n, NEW v, Within(v) PROVE Within(ToRaw(n, v))
<1> USE Limits
<1>1. CASE n \in TimeParams
  <2>1. CASE -2814749 <= v /\ v <= 2814749
    BY <1>1, <2>1, ByName, TimeRaw, SMT DEF Within
  <2>2. CASE ~(-2814749 <= v /\ v <= 2814749)
    BY <1>1, <2>2, ByName, SMT DEF Within, TimeToRaw, CastWithin
  <2> QED
    BY <2>1, <2>2, SMT
<1>2. CASE n = "sp_freq"
  <2>1. CASE -420000000 <= v /\ v <= 59999999
    BY <1>2, <2>1, ByName, FreqRaw, SMT DEF Within
  <2>2. CASE ~(-420000000 <= v /\ v <= 59999999)
    BY <1>2, <2>2, ByName, SMT DEF Within, FreqToRaw
  <2> QED
    BY <2>1, <2>2, SMT
<1>3. CASE n = "Qset"
  BY <1>3, ByName, QsetWithin, SMT
<1>4. CASE n \in CountParams
  BY <1>4, ByName, SMT DEF Within, CountToRaw, CastWithin
<1>5. CASE n = "Overdrive"
  BY <1>5, ByName, OverdriveBack, SMT DEF Within
<1>6. CASE n \notin TimeParams \cup CountParams \cup {"sp_freq", "Qset", "Overdrive"}
  BY <1>6, ByName, SMT
<1> QED
  BY <1>1, <1>2, <1>3, <1>4, <1>5, <1>6, SMT

(* Every read-back is an epicsInt32.                                        *)
LEMMA EngWithin == ASSUME NEW n, NEW r, Within(r) PROVE Within(ToEng(n, r))
<1>1. CASE n \in TimeParams
  <2>1. ToEng(n, r) = TimeToEng(r) /\ r \in Int
    BY <1>1, ByName, SMT DEF Within
  <2>2. Within(TimeToEng(r))
    BY <2>1, TimeEng, SMT DEF Within
  <2> QED
    BY <2>1, <2>2, SMT
<1>2. CASE n = "sp_freq"
  BY <1>2, ByName, FreqEng, SMT DEF Within
<1>3. CASE n = "Qset"
  BY <1>3, ByName, SMT DEF Within, QsetToEng, Trunc, Quotient, Remainder
<1>4. CASE n \in CountParams
  BY <1>4, ByName, SMT DEF Within, CountToEng, Trunc, Quotient, Remainder
<1>5. CASE n = "Overdrive" \/ n \notin TimeParams \cup CountParams \cup {"sp_freq", "Qset"}
  BY <1>5, ByName, SMT
<1> QED
  BY <1>1, <1>2, <1>3, <1>4, <1>5, SMT

-----------------------------------------------------------------------------
(* Raw word and read-back are those of the last setting written.            *)
Written ==
    /\ name \in Names
    /\ Within(setting) /\ Within(raw) /\ Within(shown)
    /\ raw = ToRaw(name, setting)
    /\ shown = ToEng(name, raw)

(* The inductive invariant of RoundTrip.                                    *)
LEMMA WrittenInvariant == Spec => []Written
<1>1. Init => Written
  <2> SUFFICES ASSUME Init PROVE Written
    OBVIOUS
  <2>1. Within(setting)
    BY SettingsAssumption, WithinInt32 DEF Init
  <2> QED
    BY <2>1, RawWithin, EngWithin DEF Init, Written
<1>2. Written /\ [Next]_vars => Written'
  BY RawWithin, EngWithin DEF Written, Next, Restore, WriteAndReadBack, vars
<1> QED
  BY <1>1, <1>2, PTL DEF Spec

(* Setting, raw word and read-back are epicsInt32 values for every setting, *)
(* beyond the limits of the formats too, where the cast or the wrapped      *)
(* product takes over (writeInt32, readInt32).                              *)
THEOREM StaysInt32 == Spec => [](setting \in Int32 /\ raw \in Int32 /\ shown \in Int32)
<1>1. Written => setting \in Int32 /\ raw \in Int32 /\ shown \in Int32
  BY WithinInt32 DEF Written
<1> QED
  BY <1>1, WrittenInvariant, PTL

(* A setting that fits is shown by the -RB record as it is or as its        *)
(* neighbour toward zero: for every epicsInt32, every Int32 parameter, and  *)
(* Overdrive (writeInt32, writeFloat64 and the reads).                      *)
THEOREM EverySettingReadsBack == Spec => []ReadsBackWithinOne
<1>1. Written => ReadsBackWithinOne
  <2> SUFFICES ASSUME Written, Fits(name, setting)
               PROVE  shown \in IF ~Truncates(name)       THEN {setting}
                                ELSE IF setting > 0       THEN {setting - 1, setting}
                                ELSE IF setting < Zero(name) THEN {setting, setting + 1}
                                ELSE {setting}
    BY SMT DEF ReadsBackWithinOne
  <2>1. setting \in Int /\ shown = ToEng(name, ToRaw(name, setting)) /\ Zero(name) \in Int
    BY SMT DEF Written, Within, Zero
  <2> QED
    BY <2>1, BackWithinOne, SMT
<1> QED
  BY <1>1, WrittenInvariant, PTL

(* A larger setting never gives a smaller raw word, as long as both fit     *)
(* (writeInt32, writeFloat64).                                              *)
THEOREM RawWordsMonotone == Spec => []Monotone
<1>1. Written => Monotone
  BY RawMonotone, SMT DEF Written, Within, Monotone
<1> QED
  BY <1>1, WrittenInvariant, PTL

(* However often what the -RB record shows is written back, a setting that  *)
(* fits loses less than its parameter's Step (all conversions of readInt32  *)
(* and writeInt32).                                                         *)
THEOREM RestoresKeepWithinStep == Spec => []KeepsWithinStep
<1> DEFINE Way == /\ asked \in Int
                  /\ Fits(name, asked) /\ name # "Overdrive" =>
                        OnTheWay(name, asked, setting)
<1>1. Init => Way
  <2> SUFFICES ASSUME Init PROVE Way
    OBVIOUS
  <2>1. asked \in Int /\ setting = asked
    BY SettingsAssumption, WithinInt32 DEF Init, Within
  <2>2. Stop(name, asked) \in Int
    BY <2>1, StopToward
  <2> QED
    BY <2>1, <2>2, SMT DEF OnTheWay
<1>2. Way /\ Written /\ [Next]_vars => Way'
  <2> SUFFICES ASSUME Way, Written, [Next]_vars PROVE Way'
    OBVIOUS
  <2>1. CASE Restore
    <3>1. /\ name' = name /\ asked' = asked
          /\ setting' = ToEng(name, ToRaw(name, setting)) /\ setting \in Int
      BY <2>1 DEF Restore, WriteAndReadBack, Written, Within
    <3> QED
      BY <3>1, RestoreKeepsWay
  <2>2. CASE UNCHANGED vars
    BY <2>2 DEF vars
  <2> QED
    BY <2>1, <2>2 DEF Next
<1>3. Way => KeepsWithinStep
  BY DEF OnTheWay, KeepsWithinStep
<1> QED
  BY <1>1, <1>2, <1>3, WrittenInvariant, PTL DEF Spec

(* A positive setting that survives the round trip is a multiple of its     *)
(* parameter's step.                                                        *)
THEOREM StableSettingsAreSteps ==
    Spec => [](shown = setting /\ Fits(name, setting) /\ setting > 0
                 => setting % Step(name) = 0)
<1>1. Written => (shown = setting /\ Fits(name, setting) /\ setting > 0
                    => setting % Step(name) = 0)
  <2> SUFFICES ASSUME Written, shown = setting, Fits(name, setting), setting > 0
               PROVE  setting % Step(name) = 0
    OBVIOUS
  <2>1. setting \in Int /\ ToEng(name, ToRaw(name, setting)) = setting
    BY SMT DEF Written, Within
  <2> QED
    BY <2>1, BackWithinOne, SMT
<1> QED
  BY <1>1, WrittenInvariant, PTL
=============================================================================
