------------------------------- MODULE HrSize -------------------------------
(***************************************************************************)
(* Deploy.hrSize(size), identical in the three deploy scripts: the size   *)
(* line of printPackageInfo.                                               *)
(*                                                                         *)
(*     i = int(math.log(size) // math.log(1024))                           *)
(*     if i < 1: return '{} B'.format(size)                                *)
(*     units = ['KiB', 'MiB', 'GiB', 'TiB']                                *)
(*     return '{:.2f} {}'.format(size / (1024 ** i), units[i - 1])         *)
(*                                                                         *)
(* A result is the exception raised, or the printed number and unit: the  *)
(* number is the byte count for "B" and the value in hundredths (the two  *)
(* decimals of .2f) for the other units.  Sizes are those TLC's integers  *)
(* hold, below 2^31.                                                       *)
(***************************************************************************)
EXTENDS Naturals, Sequences

Units == <<"KiB", "MiB", "GiB", "TiB">>

Raised(error) == [error |-> error, count |-> 0, unit |-> "B"]

Printed(count, unit) == [error |-> "none", count |-> count, unit |-> unit]

\* The exact exponent: the largest k with 1024^k <= size, for 1 <= size.
Log1024(size) ==
    CHOOSE k \in 0..3 : 1024^k <= size /\ (k = 3 \/ size < 1024^(k + 1))

\* int(math.log(size) // math.log(1024)) in IEEE doubles.  The quotient of
\* the two logarithms is within a few ulps of the exact one; its floor is
\* the exact exponent except where the exact quotient is an integer that
\* the rounding misses: at 1024^3 it is 2.9999999999999996 (at 1024 and
\* 1024^2 it is exactly 1.0 and 2.0; from 1024^5 - 3 on it reaches 5.0,
\* past TLC's integers).
LogQuotientFloor(size) == IF size = 1024^3 THEN 2 ELSE Log1024(size)

\* '{:.2f}'.format(n / d) in hundredths: n / d is exact in a double (d is
\* a power of two and n < 2^53) and .2f rounds it half to even.  The
\* remainder is split off first so that no product leaves TLC's integers.
Hundredths(n, d) ==
    LET t == (n % d) * 100
        f == t \div d
        up == \/ 2 * (t % d) > d
              \/ 2 * (t % d) = d /\ f % 2 = 1
    IN  (n \div d) * 100 + f + (IF up THEN 1 ELSE 0)

\* hrSize(size): math.log(0) raises ValueError; units[i - 1] raises
\* IndexError past TiB.
HrSize(size) ==
    IF size = 0 THEN Raised("ValueError")
    ELSE LET i == LogQuotientFloor(size)
         IN  IF i < 1 THEN Printed(size, "B")
             ELSE IF i > Len(Units) THEN Raised("IndexError")
             ELSE Printed(Hundredths(size, 1024^i), Units[i])

\* What spec section 8 asks of hrSize: "<n> B" below 1024 bytes, otherwise
\* the value in the largest unit it reaches, to two decimals.
SpecHrSize(size) ==
    IF size < 1024 THEN Printed(size, "B")
    ELSE LET k == Log1024(size)
         IN  Printed(Hundredths(size, 1024^k), Units[k])

=============================================================================
