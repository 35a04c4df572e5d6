-------------------------- MODULE TimeServiceProofs ---------------------------
(***************************************************************************)
(* Theorems about TimeService, for every calendar, every width of an int   *)
(* and every years the date picker offers.                                 *)
(***************************************************************************)
EXTENDS TimeService, WellFoundedInduction, TLAPS

-----------------------------------------------------------------------------
(* An int keeps what it can hold. *)

LEMMA SmallModulus ==
  ASSUME NEW a \in Nat, NEW n \in Nat, a < n
  PROVE  a % n = a
OBVIOUS

LEMMA AsIntKeeps ==
  ASSUME NEW x \in Nat, x <= MaxInt
  PROVE  AsInt(x) = x
<1>1. MaxInt \in Nat
  BY RangeAssumption
<1>2. x + MaxInt + 1 \in Nat /\ 2 * (MaxInt + 1) \in Nat
      /\ x + MaxInt + 1 < 2 * (MaxInt + 1)
  BY <1>1
<1>3. (x + MaxInt + 1) % (2 * (MaxInt + 1)) = x + MaxInt + 1
  BY <1>2, SmallModulus
<1> QED BY <1>1, <1>3 DEF AsInt

LEMMA AsIntType ==
  ASSUME NEW x \in Int
  PROVE  AsInt(x) \in Int
<1>1. MaxInt \in Nat
  BY RangeAssumption
<1> QED BY <1>1 DEF AsInt

LEMMA ClampedType ==
  ASSUME NEW x \in Int
  PROVE  /\ Clamped(x) \in Nat
         /\ x \in Nat => Clamped(x) = x
BY DEF Clamped

-----------------------------------------------------------------------------
(* The calendar. *)

LEMMA Units ==
  /\ Seconds \in Nat \ {0} /\ Minutes \in Nat \ {0} /\ Hours \in Nat \ {0}
  /\ YearDays \in Nat \ {0}
  /\ Month = 1 .. Len(MonthStart) /\ Len(MonthStart) \in Nat \ {0}
  /\ \A m \in Month : MonthStart[m] \in Nat
BY CalendarAssumption DEF Month

LEMMA ProductPositive ==
  ASSUME NEW a \in Nat \ {0}, NEW b \in Nat \ {0}
  PROVE  a * b \in Nat \ {0}
OBVIOUS

LEMMA ProductType ==
  ASSUME NEW a \in Int, NEW b \in Int
  PROVE  a * b \in Int
OBVIOUS

LEMMA DivMod ==
  ASSUME NEW a \in Nat, NEW n \in Nat \ {0}
  PROVE  /\ a \div n \in Nat
         /\ a % n \in 0 .. n - 1
OBVIOUS

\* Every day of the year is in some month.
LEMMA MonthExists ==
  ASSUME NEW d \in 0 .. YearDays - 1
  PROVE  \E m \in Month :
            MonthStart[m] <= d /\ d < MonthStart[m] + MonthLength(m)
<1> DEFINE L == Len(MonthStart)
           Ends(m) == MonthStart[m] + MonthLength(m)
           T == {m \in Month : d < Ends(m)}
<1>1. L \in Month /\ 1 \in Month
  BY Units
<1>2. Ends(L) = YearDays
  BY <1>1, Units DEF MonthLength
<1>3. T # {} /\ T \subseteq Nat
  BY <1>1, <1>2, Units
<1>4. PICK m \in T : \A k \in T : ~ (<<k, m>> \in OpToRel(<, Nat))
  BY <1>3, NatLessThanWellFounded, WFMin, Zenon
<1>5. \A k \in T : ~ (k < m)
  BY <1>3, <1>4 DEF OpToRel
<1>6. CASE m = 1
  BY <1>6, CalendarAssumption, Units
<1>7. CASE m # 1
  <2>1. m - 1 \in Month /\ m - 1 < m /\ m - 1 # L
    BY <1>7, Units
  <2>2. Ends(m - 1) = MonthStart[m]
    BY <2>1, Units DEF MonthLength
  <2>3. m - 1 \notin T
    BY <1>5, <2>1
  <2>4. ~ (d < Ends(m - 1))
    BY <2>1, <2>3
  <2>5. MonthStart[m] <= d
    BY <2>2, <2>4, Units
  <2> QED BY <2>5
<1> QED BY <1>6, <1>7

\* The fields of a date, the day perhaps one that its month does not have.
Calendar == [SECOND : Int, MINUTE : Int, HOUR : Int, MDAY : Int,
             MONTH : Month, YEAR : Int]

LEMMA FieldsType ==
  ASSUME NEW t \in Nat
  PROVE  Fields(t) \in Calendar
<1> DEFINE day == t \div (Seconds * Minutes * Hours)
           yday == day % YearDays
           month == CHOOSE m \in Month :
                    MonthStart[m] <= yday /\ yday < MonthStart[m] + MonthLength(m)
<1>1. Seconds * Minutes \in Nat \ {0}
  BY Units, ProductPositive
<1>2. Seconds * Minutes * Hours \in Nat \ {0}
  BY <1>1, Units, ProductPositive
<1>3. day \in Nat
  BY <1>2, DivMod
<1>4. yday \in 0 .. YearDays - 1 /\ day \div YearDays \in Nat
  <2> HIDE DEF day
  <2> QED BY <1>3, Units, DivMod
<1>5. month \in Month
  <2> HIDE DEF yday
  <2> QED BY <1>4, MonthExists
<1>6. t % Seconds \in Int
  BY Units, DivMod
<1>7. (t \div Seconds) % Minutes \in Int
  <2>1. t \div Seconds \in Nat
    BY Units, DivMod
  <2> QED BY <2>1, Units, DivMod
<1>8. (t \div (Seconds * Minutes)) % Hours \in Int
  <2>1. t \div (Seconds * Minutes) \in Nat
    BY <1>1, DivMod
  <2> QED BY <2>1, Units, DivMod
<1>9. yday - MonthStart[month] + 1 \in Int
  <2> HIDE DEF yday, month
  <2> QED BY <1>4, <1>5, Units
<1>10. Fields(t) = [SECOND |-> t % Seconds, MINUTE |-> (t \div Seconds) % Minutes,
                    HOUR |-> (t \div (Seconds * Minutes)) % Hours,
                    MDAY |-> yday - MonthStart[month] + 1,
                    MONTH |-> month, YEAR |-> day \div YearDays]
  BY DEF Fields
<1> HIDE DEF day, yday, month
<1> QED BY <1>4, <1>5, <1>6, <1>7, <1>8, <1>9, <1>10 DEF Calendar

LEMMA MkTimeType ==
  ASSUME NEW f \in Calendar
  PROVE  MkTime(f) \in Int
<1>1. /\ f.YEAR \in Int /\ f.MDAY \in Int /\ f.HOUR \in Int
      /\ f.MINUTE \in Int /\ f.SECOND \in Int /\ MonthStart[f.MONTH] \in Int
  BY Units DEF Calendar
<1> DEFINE day == f.YEAR * YearDays + MonthStart[f.MONTH] + f.MDAY - 1
<1>2. day \in Int
  <2>1. f.YEAR * YearDays \in Int
    BY <1>1, Units, ProductType
  <2> QED BY <2>1, <1>1
<1>3. MkTime(f) = ((day * Hours + f.HOUR) * Minutes + f.MINUTE) * Seconds + f.SECOND
  BY DEF MkTime
<1> HIDE DEF day
<1> QED BY <1>1, <1>2, <1>3, Units

LEMMA DivUnique ==
  ASSUME NEW a \in Nat, NEW n \in Nat \ {0}, NEW q \in Nat, NEW r \in 0 .. n - 1,
         a = q * n + r
  PROVE  a \div n = q /\ a % n = r
OBVIOUS

LEMMA DivParts ==
  ASSUME NEW a \in Nat, NEW n \in Nat \ {0}
  PROVE  a = (a \div n) * n + (a % n)
OBVIOUS

\* A number below a product, by its two digits.
LEMMA TwoDigits ==
  ASSUME NEW m \in Nat \ {0}, NEW n \in Nat \ {0}, NEW a \in 0 .. m - 1, NEW b \in 0 .. n - 1
  PROVE  a * n + b \in 0 .. n * m - 1
<1>1. a * n \in Nat
  OBVIOUS
<1>2. (m - 1 - a) * n \in Nat
  <2>1. m - 1 - a \in Nat
    OBVIOUS
  <2> QED BY <2>1
<1>3. n * m = a * n + (m - 1 - a) * n + n
  OBVIOUS
<1> QED BY <1>1, <1>2, <1>3

LEMMA DivDiv ==
  ASSUME NEW a \in Nat, NEW m \in Nat \ {0}, NEW n \in Nat \ {0}
  PROVE  (a \div m) \div n = a \div (m * n)
<1> DEFINE q == a \div m
           r == a % m
           p == q \div n
           s == q % n
<1>1. q \in Nat /\ r \in 0 .. m - 1 /\ a = q * m + r
  BY DivMod, DivParts
<1>2. p \in Nat /\ s \in 0 .. n - 1 /\ q = p * n + s
  <2> HIDE DEF q
  <2> QED BY <1>1, DivMod, DivParts
<1>3. m * n \in Nat \ {0}
  BY ProductPositive
<1> HIDE DEF q, r, p, s
<1>4. s * m + r \in 0 .. m * n - 1
  BY <1>1, <1>2, TwoDigits
<1>5. a = p * (m * n) + (s * m + r)
  BY <1>1, <1>2
<1>6. a \div (m * n) = p
  BY <1>2, <1>3, <1>4, <1>5, DivUnique, Zenon
<1> QED BY <1>6 DEF q, p

LEMMA MonthLengthInt ==
  ASSUME NEW m \in Month
  PROVE  MonthLength(m) \in Int
<1>1. CASE m = Len(MonthStart)
  BY <1>1, Units DEF MonthLength
<1>2. CASE m # Len(MonthStart)
  <2>1. m + 1 \in Month
    BY <1>2, Units
  <2> QED BY <1>2, <2>1, Units DEF MonthLength
<1> QED BY <1>1, <1>2

\* The months follow one another.
LEMMA MonthsIncrease ==
  ASSUME NEW i \in Month, NEW j \in Month, i < j
  PROVE  MonthStart[i] + MonthLength(i) <= MonthStart[j]
<1> DEFINE T == {k \in Month : i < k /\ ~ (MonthStart[i] + MonthLength(i) <= MonthStart[k])}
<1>1. \A m \in Month : MonthStart[m] \in Nat /\ m \in Nat /\ MonthLength(m) > 0
  BY Units, CalendarAssumption
<1>2. \A m \in Month : m # Len(MonthStart) =>
         m + 1 \in Month /\ MonthStart[m] + MonthLength(m) = MonthStart[m + 1]
  BY Units DEF MonthLength
<1>3. ASSUME T # {} PROVE FALSE
  <2>1. T \subseteq Nat
    BY <1>1
  <2>2. PICK k \in T : \A n \in T : ~ (<<n, k>> \in OpToRel(<, Nat))
    BY <1>3, <2>1, NatLessThanWellFounded, WFMin, Zenon
  <2>3. \A n \in T : ~ (n < k)
    BY <2>1, <2>2 DEF OpToRel
  <2>4. k - 1 \in Month /\ k - 1 # Len(MonthStart) /\ k - 1 < k /\ (k - 1) + 1 = k
    BY Units
  <2>5. MonthStart[k - 1] + MonthLength(k - 1) = MonthStart[k]
    BY <1>2, <2>4
  <2>6. CASE k - 1 = i
    BY <1>1, <2>5, <2>6
  <2>7. CASE k - 1 # i
    <3>1. i < k - 1
      BY <2>4, <2>7, Units
    <3>2. MonthStart[i] + MonthLength(i) <= MonthStart[k - 1]
      BY <2>3, <2>4, <3>1
    <3>3. MonthLength(k - 1) \in Int /\ MonthLength(i) \in Int
      BY <2>4, MonthLengthInt
    <3> QED BY <1>1, <2>4, <2>5, <3>2, <3>3
  <2> QED BY <2>6, <2>7
<1> QED BY <1>3

LEMMA MonthLengthType ==
  ASSUME NEW m \in Month
  PROVE  MonthLength(m) \in Nat \ {0} /\ MonthStart[m] + MonthLength(m) <= YearDays
<1>1. MonthLength(m) \in Int
  BY MonthLengthInt
<1>2. MonthLength(m) > 0
  BY CalendarAssumption
<1>3. CASE m = Len(MonthStart)
  BY <1>1, <1>2, <1>3, Units DEF MonthLength
<1>4. CASE m # Len(MonthStart)
  <2> DEFINE L == Len(MonthStart)
  <2>1. L \in Month /\ m < L
    BY <1>4, Units
  <2>2. MonthStart[m] + MonthLength(m) <= MonthStart[L]
    BY <2>1, MonthsIncrease
  <2>3. MonthStart[L] + MonthLength(L) = YearDays /\ MonthLength(L) > 0
    BY <2>1, Units, CalendarAssumption DEF MonthLength
  <2>4. MonthLength(L) \in Int
    BY Units DEF MonthLength
  <2> HIDE DEF L
  <2> QED BY <1>1, <1>2, <2>1, <2>2, <2>3, <2>4, Units
<1> QED BY <1>3, <1>4

\* The fields of a day that exists.
Proper(f) ==
  /\ f \in Calendar
  /\ f.SECOND \in 0 .. Seconds - 1 /\ f.MINUTE \in 0 .. Minutes - 1
  /\ f.HOUR \in 0 .. Hours - 1 /\ f.MDAY \in 1 .. MonthLength(f.MONTH) /\ f.YEAR \in Nat

DayOf(f) == f.YEAR * YearDays + (MonthStart[f.MONTH] + f.MDAY - 1)
MinuteOf(f) == (DayOf(f) * Hours + f.HOUR) * Minutes + f.MINUTE

\* mktime, when the time of day is one.
LEMMA MkTimeParts ==
  ASSUME NEW f \in Calendar, DayOf(f) \in Nat, f.SECOND \in 0 .. Seconds - 1,
         f.MINUTE \in 0 .. Minutes - 1, f.HOUR \in 0 .. Hours - 1
  PROVE  /\ MkTime(f) = MinuteOf(f) * Seconds + f.SECOND
         /\ MkTime(f) \in Nat
         /\ MkTime(f) % Seconds = f.SECOND
         /\ MkTime(f) \div Seconds = MinuteOf(f)
         /\ MinuteOf(f) % Minutes = f.MINUTE
         /\ MinuteOf(f) \div Minutes = DayOf(f) * Hours + f.HOUR
         /\ (DayOf(f) * Hours + f.HOUR) % Hours = f.HOUR
         /\ (DayOf(f) * Hours + f.HOUR) \div Hours = DayOf(f)
         /\ MinuteOf(f) % (Minutes * Hours) = f.HOUR * Minutes + f.MINUTE
<1> DEFINE d == DayOf(f)
           h == d * Hours + f.HOUR
           n == MinuteOf(f)
<1>0. /\ Seconds \in Nat \ {0} /\ Minutes \in Nat \ {0} /\ Hours \in Nat \ {0}
      /\ Minutes * Hours \in Nat \ {0}
  BY Units, ProductPositive
<1>1. MkTime(f) = n * Seconds + f.SECOND
  <2>1. f.YEAR * YearDays \in Int /\ MonthStart[f.MONTH] \in Int /\ f.MDAY \in Int
    BY Units, ProductType DEF Calendar
  <2>2. f.YEAR * YearDays + MonthStart[f.MONTH] + f.MDAY - 1 = DayOf(f)
    BY <2>1 DEF DayOf
  <2> QED BY <2>2 DEF MkTime, MinuteOf
<1>2. n = h * Minutes + f.MINUTE
  BY DEF MinuteOf
<1>3. d \in Nat /\ h = d * Hours + f.HOUR
  OBVIOUS
<1> HIDE DEF d, n, h
<1>4. h \in Nat
  <2>1. d * Hours \in Nat
    BY <1>0, <1>3
  <2> QED BY <1>0, <1>3, <2>1
<1>5. h % Hours = f.HOUR /\ h \div Hours = d
  BY <1>0, <1>3, <1>4, DivUnique, Zenon
<1>6. n \in Nat
  <2>1. h * Minutes \in Nat
    BY <1>0, <1>4
  <2> QED BY <1>0, <1>2, <2>1
<1>7. n % Minutes = f.MINUTE /\ n \div Minutes = h
  BY <1>0, <1>2, <1>4, <1>6, DivUnique, Zenon
<1>8. MkTime(f) \in Nat
  <2>1. n * Seconds \in Nat
    BY <1>0, <1>6
  <2> QED BY <1>0, <1>1, <2>1
<1>9. MkTime(f) % Seconds = f.SECOND /\ MkTime(f) \div Seconds = n
  BY <1>0, <1>1, <1>6, <1>8, DivUnique, Zenon
<1>10. n % (Minutes * Hours) = f.HOUR * Minutes + f.MINUTE
  <2>1. f.HOUR * Minutes + f.MINUTE \in 0 .. Minutes * Hours - 1
    BY <1>0, TwoDigits
  <2>2. n = d * (Minutes * Hours) + (f.HOUR * Minutes + f.MINUTE)
    BY <1>0, <1>2, <1>3
  <2> DEFINE u == Minutes * Hours
             r == f.HOUR * Minutes + f.MINUTE
  <2>3. u \in Nat \ {0} /\ r \in 0 .. u - 1 /\ n = d * u + r
    BY <1>0, <2>1, <2>2
  <2> HIDE DEF u, r
  <2>4. n % u = r
    BY <1>3, <1>6, <2>3, DivUnique, Zenon
  <2> QED BY <2>4 DEF u, r
<1> QED BY <1>1, <1>5, <1>7, <1>8, <1>9, <1>10 DEF d, h, n

LEMMA DayOfType ==
  ASSUME NEW f \in Calendar, f.YEAR \in Nat, f.MDAY \in Nat \ {0}
  PROVE  DayOf(f) \in Nat
<1>1. f.YEAR * YearDays \in Nat /\ MonthStart[f.MONTH] \in Nat
  BY Units DEF Calendar
<1> QED BY <1>1 DEF DayOf

\* localtime gives the fields of a day that exists, and mktime is its inverse.
LEMMA FieldsProper ==
  ASSUME NEW t \in Nat
  PROVE  Proper(Fields(t)) /\ MkTime(Fields(t)) = t
<1> DEFINE day == t \div (Seconds * Minutes * Hours)
           yday == day % YearDays
           month == CHOOSE m \in Month :
                    MonthStart[m] <= yday /\ yday < MonthStart[m] + MonthLength(m)
           min == t \div Seconds
           hour == min \div Minutes
           F == Fields(t)
<1>0. /\ Seconds \in Nat \ {0} /\ Minutes \in Nat \ {0} /\ Hours \in Nat \ {0}
      /\ YearDays \in Nat \ {0} /\ Seconds * Minutes \in Nat \ {0}
  BY Units, ProductPositive
<1>1. min \in Nat /\ t = min * Seconds + (t % Seconds) /\ t % Seconds \in 0 .. Seconds - 1
  BY <1>0, DivMod, DivParts
<1>2. hour \in Nat /\ min = hour * Minutes + (min % Minutes) /\ min % Minutes \in 0 .. Minutes - 1
  <2> HIDE DEF min
  <2> QED BY <1>0, <1>1, DivMod, DivParts
<1>3. hour = t \div (Seconds * Minutes)
  BY <1>0, DivDiv
<1>4. hour \div Hours = day
  <2> DEFINE u == Seconds * Minutes
  <2>1. u \in Nat \ {0}
    BY <1>0
  <2> HIDE DEF u
  <2>2. (t \div u) \div Hours = t \div (u * Hours)
    BY <1>0, <2>1, DivDiv
  <2> QED BY <1>3, <2>2 DEF u
<1>5. day \in Nat /\ hour = day * Hours + (hour % Hours) /\ hour % Hours \in 0 .. Hours - 1
  <2> HIDE DEF hour, day
  <2> QED BY <1>0, <1>2, <1>4, DivMod, DivParts
<1>6. day \div YearDays \in Nat /\ day = (day \div YearDays) * YearDays + yday
      /\ yday \in 0 .. YearDays - 1
  <2> HIDE DEF day
  <2> QED BY <1>0, <1>5, DivMod, DivParts
<1>7. month \in Month /\ MonthStart[month] <= yday /\ yday < MonthStart[month] + MonthLength(month)
  <2> HIDE DEF yday
  <2> QED BY <1>6, MonthExists
<1>8. F = [SECOND |-> t % Seconds, MINUTE |-> min % Minutes, HOUR |-> hour % Hours,
           MDAY |-> yday - MonthStart[month] + 1, MONTH |-> month, YEAR |-> day \div YearDays]
  BY <1>3 DEF Fields
<1>9. F \in Calendar
  BY FieldsType
<1> HIDE DEF day, yday, month, min, hour, F
<1>10. /\ F.SECOND = t % Seconds /\ F.MINUTE = min % Minutes /\ F.HOUR = hour % Hours
       /\ F.MDAY = yday - MonthStart[month] + 1 /\ F.MONTH = month
       /\ F.YEAR = day \div YearDays
  BY <1>8
<1>11. MonthStart[month] \in Nat /\ MonthLength(month) \in Nat
  BY <1>7, Units, MonthLengthType
<1>12. Proper(F)
  <2>1. F.MDAY \in 1 .. MonthLength(F.MONTH)
    BY <1>6, <1>7, <1>10, <1>11
  <2> QED BY <1>1, <1>2, <1>5, <1>6, <1>9, <1>10, <2>1 DEF Proper
<1>13. DayOf(F) = day
  BY <1>6, <1>10, <1>11 DEF DayOf
<1>14. MinuteOf(F) = min
  <2>1. DayOf(F) * Hours + F.HOUR = hour
    BY <1>5, <1>10, <1>13
  <2> QED BY <1>2, <1>10, <2>1 DEF MinuteOf
<1>15. MkTime(F) = MinuteOf(F) * Seconds + F.SECOND
  BY <1>5, <1>9, <1>12, <1>13, MkTimeParts DEF Proper
<1>16. MkTime(F) = t
  BY <1>1, <1>10, <1>14, <1>15
<1> QED BY <1>12, <1>16 DEF F

LEMMA FieldsOfMkTime ==
  ASSUME NEW f, Proper(f)
  PROVE  MkTime(f) \in Nat /\ Fields(MkTime(f)) = f
<1> DEFINE t == MkTime(f)
           d == DayOf(f)
           y == MonthStart[f.MONTH] + f.MDAY - 1
<1>0. /\ Seconds \in Nat \ {0} /\ Minutes \in Nat \ {0} /\ Hours \in Nat \ {0}
      /\ YearDays \in Nat \ {0} /\ Seconds * Minutes \in Nat \ {0}
  BY Units, ProductPositive
<1>1. f \in Calendar /\ f.MONTH \in Month /\ MonthStart[f.MONTH] \in Nat
      /\ MonthLength(f.MONTH) \in Nat \ {0} /\ f.YEAR \in Nat
      /\ f.MDAY \in 1 .. MonthLength(f.MONTH) /\ f.MDAY \in Int
      /\ MonthStart[f.MONTH] + MonthLength(f.MONTH) <= YearDays
  BY Units, MonthLengthType DEF Proper, Calendar
<1>2. d \in Nat
  BY <1>1, DayOfType
<1>3. /\ t \in Nat /\ t % Seconds = f.SECOND
      /\ (t \div Seconds) % Minutes = f.MINUTE
      /\ ((t \div Seconds) \div Minutes) % Hours = f.HOUR
      /\ ((t \div Seconds) \div Minutes) \div Hours = d
  BY <1>1, <1>2, MkTimeParts DEF Proper
<1> HIDE DEF t
<1>4. (t \div Seconds) \div Minutes = t \div (Seconds * Minutes)
  BY <1>0, <1>3, DivDiv
<1>5. (t \div (Seconds * Minutes)) \div Hours = t \div (Seconds * Minutes * Hours)
  <2> DEFINE u == Seconds * Minutes
  <2>1. u \in Nat \ {0}
    BY <1>0
  <2> HIDE DEF u
  <2>2. (t \div u) \div Hours = t \div (u * Hours)
    BY <1>0, <1>3, <2>1, DivDiv
  <2> QED BY <2>2 DEF u
<1>6. d = t \div (Seconds * Minutes * Hours)
  BY <1>3, <1>4, <1>5, Zenon
<1>7. y \in 0 .. YearDays - 1
  <2> DEFINE a == MonthStart[f.MONTH]
             n == MonthLength(f.MONTH)
             k == f.MDAY
  <2>1. a \in Nat /\ n \in Nat /\ k \in 1 .. n /\ a + n <= YearDays
    BY <1>1
  <2> HIDE DEF a, n, k
  <2>2. a + k - 1 \in 0 .. YearDays - 1
    BY <1>0, <2>1
  <2> QED BY <2>2 DEF a, k
<1>8. d % YearDays = y /\ d \div YearDays = f.YEAR
  <2>1. d = f.YEAR * YearDays + y
    BY DEF DayOf
  <2> HIDE DEF d, y
  <2> QED BY <1>0, <1>1, <1>2, <1>7, <2>1, DivUnique, Zenon
<1>9. ASSUME NEW m \in Month, MonthStart[m] <= y, y < MonthStart[m] + MonthLength(m)
      PROVE  m = f.MONTH
  <2>1. m \in Nat /\ f.MONTH \in Nat /\ MonthStart[m] \in Nat /\ MonthLength(m) \in Nat
    BY <1>1, Units, MonthLengthType
  <2>2. ~ (m < f.MONTH)
    BY <1>1, <1>9, <2>1, MonthsIncrease
  <2>3. ~ (f.MONTH < m)
    BY <1>1, <1>9, <2>1, MonthsIncrease
  <2> QED BY <2>1, <2>2, <2>3
<1>10. MonthStart[f.MONTH] <= y /\ y < MonthStart[f.MONTH] + MonthLength(f.MONTH)
  BY <1>1
<1>11. (CHOOSE m \in Month : MonthStart[m] <= y /\ y < MonthStart[m] + MonthLength(m)) = f.MONTH
  <2> HIDE DEF y
  <2> QED BY <1>1, <1>9, <1>10
<1>12. y - MonthStart[f.MONTH] + 1 = f.MDAY
  BY <1>1
<1>13. Fields(t) = [SECOND |-> f.SECOND, MINUTE |-> f.MINUTE, HOUR |-> f.HOUR,
                    MDAY |-> f.MDAY, MONTH |-> f.MONTH, YEAR |-> f.YEAR]
  <2> HIDE DEF d, y
  <2> QED BY <1>3, <1>4, <1>6, <1>8, <1>11, <1>12 DEF Fields
<1> QED BY <1>1, <1>3, <1>13 DEF Calendar, t

LEMMA FaceType ==
  ASSUME NEW c, NEW t \in Nat
  PROVE  Face(c, t) \in Nat
<1>1. t \div Seconds \in Nat /\ Minutes * Hours \in Nat \ {0}
  BY Units, DivMod, ProductPositive
<1>2. (t \div Seconds) % (Minutes * Hours) \in Nat
  BY <1>1, DivMod
<1> QED BY <1>1, <1>2 DEF Face

-----------------------------------------------------------------------------
(* One field set, then the next. *)

Faces == [Client -> Nat \cup {NotShown}]
Settable == [time : Nat, diff : Int, shown : Faces]

LEMMA RaisedType ==
  ASSUME NEW E, NEW t \in Nat, NEW faces \in Faces
  PROVE  Raised(E, t, faces) \in Faces
BY FaceType DEF Raised, Faces

\* Setting a field moves m_diff by what the time moves, as ints.
LEMMA SetFieldStep ==
  ASSUME NEW s \in Settable, NEW e \in Event, NEW v \in Int,
         e = "MONTH" => v \in Month
  PROVE  /\ SetField(s, e, v) \in Settable
         /\ SetField(s, e, v).diff =
                s.diff + (AsInt(SetField(s, e, v).time) - AsInt(s.time))
<1> DEFINE f == [Fields(s.time) EXCEPT ![e] = v]
           made == MkTime(f)
           new == Clamped(made)
<1>1. s.time \in Nat /\ s.diff \in Int /\ s.shown \in Faces
  BY DEF Settable
<1>2. f \in Calendar
  BY <1>1, FieldsType DEF Calendar, Event
<1>3. made \in Int
  BY <1>2, MkTimeType
<1>4. new \in Nat
  BY <1>3, ClampedType
<1>5. AsInt(new) \in Int /\ AsInt(s.time) \in Int
  BY <1>1, <1>4, AsIntType
<1>6. Raised({e}, new, s.shown) \in Faces
  BY <1>1, <1>4, RaisedType
<1>7. SetField(s, e, v) =
        [time |-> new, diff |-> s.diff + (AsInt(new) - AsInt(s.time)),
         shown |-> IF made = s.time THEN s.shown ELSE Raised({e}, new, s.shown)]
  BY DEF SetField, Difference
<1> HIDE DEF made, new
<1> QED BY <1>1, <1>4, <1>5, <1>6, <1>7 DEF Settable

LEMMA SetDateStep ==
  ASSUME NEW s \in Settable, NEW y \in Int, NEW m \in Month, NEW d \in Int
  PROVE  /\ SetDate(s, y, m, d) \in Settable
         /\ SetDate(s, y, m, d).diff =
                s.diff + (AsInt(SetDate(s, y, m, d).time) - AsInt(s.time))
<1> DEFINE r == SetField(s, "YEAR", y)
           q == SetField(r, "MDAY", d)
           p == SetField(q, "MONTH", m)
<1>1. r \in Settable /\ r.diff = s.diff + (AsInt(r.time) - AsInt(s.time))
  BY SetFieldStep DEF Event
<1>2. q \in Settable /\ q.diff = r.diff + (AsInt(q.time) - AsInt(r.time))
  <2> HIDE DEF r
  <2> QED BY <1>1, SetFieldStep DEF Event
<1>3. p \in Settable /\ p.diff = q.diff + (AsInt(p.time) - AsInt(q.time))
  <2>1. m \in Int
    BY Units
  <2> HIDE DEF q
  <2> QED BY <1>2, <2>1, SetFieldStep DEF Event
<1>4. SetDate(s, y, m, d) = p
  BY DEF SetDate
<1> HIDE DEF p, q, r
<1>5. /\ AsInt(s.time) \in Int /\ AsInt(r.time) \in Int
      /\ AsInt(q.time) \in Int /\ AsInt(p.time) \in Int /\ s.diff \in Int
  BY <1>1, <1>2, <1>3, AsIntType DEF Settable
<1>6. p.diff = s.diff + (AsInt(p.time) - AsInt(s.time))
  BY <1>1, <1>2, <1>3, <1>5
<1> QED BY <1>3, <1>4, <1>6

LEMMA SetTimeStep ==
  ASSUME NEW s \in Settable, NEW h \in Int, NEW mi \in Int
  PROVE  LET p == SetField(SetField(s, "HOUR", h), "MINUTE", mi)
         IN  /\ p \in Settable
             /\ p.diff = s.diff + (AsInt(p.time) - AsInt(s.time))
<1> DEFINE q == SetField(s, "HOUR", h)
           p == SetField(q, "MINUTE", mi)
<1>1. q \in Settable /\ q.diff = s.diff + (AsInt(q.time) - AsInt(s.time))
  BY SetFieldStep DEF Event
<1>2. p \in Settable /\ p.diff = q.diff + (AsInt(p.time) - AsInt(q.time))
  <2> HIDE DEF q
  <2> QED BY <1>1, SetFieldStep DEF Event
<1> HIDE DEF p, q
<1>3. /\ AsInt(s.time) \in Int /\ AsInt(q.time) \in Int
      /\ AsInt(p.time) \in Int /\ s.diff \in Int
  BY <1>1, <1>2, AsIntType DEF Settable
<1>4. p.diff = s.diff + (AsInt(p.time) - AsInt(s.time))
  BY <1>1, <1>2, <1>3
<1> QED BY <1>2, <1>4 DEF p, q

-----------------------------------------------------------------------------
(* The inductive invariant: while the time has stayed in the range of an   *)
(* int, it is the host's clock moved by m_diff.                            *)

IInv == TypeOK /\ SettingKept /\ (inRange => time <= MaxInt)

LEMMA BecomesStep ==
  ASSUME IInv, NEW p \in Settable, p.diff = diff + (AsInt(p.time) - AsInt(time)),
         Becomes(p)
  PROVE  IInv'
<1>1. /\ time' = p.time /\ diff' = p.diff /\ shown' = p.shown
      /\ inRange' = (inRange /\ p.time <= MaxInt)
      /\ handlers' = handlers /\ app' = app /\ clock' = clock
  BY DEF Becomes
<1>2. p.time \in Nat /\ p.diff \in Int /\ p.shown \in Faces
  BY DEF Settable
<1>3. TypeOK'
  BY <1>1, <1>2 DEF IInv, TypeOK, Faces
<1>4. ASSUME inRange'
      PROVE  time' = clock' + diff' /\ time' <= MaxInt
  <2>1. inRange /\ time' \in Nat /\ time' <= MaxInt
    BY <1>1, <1>2, <1>4
  <2>2. time \in Nat /\ time <= MaxInt /\ time = clock + diff
        /\ clock \in Int /\ diff \in Int
    BY <2>1, RangeAssumption DEF IInv, TypeOK, SettingKept
  <2>3. diff' = diff + (time' - time)
    BY <1>1, <2>1, <2>2, AsIntKeeps
  <2> QED BY <1>1, <2>1, <2>2, <2>3
<1> QED BY <1>3, <1>4 DEF IInv, SettingKept

LEMMA TickStep ==
  ASSUME IInv, NEW now \in clock .. MaxClock, Tick(now)
  PROVE  IInv'
<1> DEFINE new == Clamped(AsInt(now + diff))
<1>1. /\ clock' = now /\ time' = new
      /\ inRange' = (inRange /\ now + diff <= MaxInt)
      /\ diff' = diff /\ handlers' = handlers /\ app' = app
      /\ \E E : shown' = Raised(E, new, shown)
  BY DEF Tick
<1>2. /\ clock \in Nat /\ now \in Nat /\ now >= clock /\ diff \in Int
      /\ now \in StartClock .. MaxClock /\ shown \in Faces
  BY RangeAssumption DEF IInv, TypeOK, Faces
<1>3. AsInt(now + diff) \in Int
  BY <1>2, AsIntType
<1>4. new \in Nat
  BY <1>3, ClampedType
<1>5. shown' \in Faces
  <2> HIDE DEF new
  <2> QED BY <1>1, <1>2, <1>4, RaisedType
<1>6. TypeOK'
  <2> HIDE DEF new
  <2> QED BY <1>1, <1>2, <1>4, <1>5 DEF IInv, TypeOK, Faces
<1>7. ASSUME inRange'
      PROVE  time' = clock' + diff' /\ time' <= MaxInt
  <2>1. inRange /\ now + diff <= MaxInt
    BY <1>1, <1>7
  <2>2. time \in Nat /\ time = clock + diff
    BY <2>1 DEF IInv, TypeOK, SettingKept
  <2>3. now + diff \in Nat
    BY <1>2, <2>2
  <2>4. AsInt(now + diff) = now + diff
    BY <2>1, <2>3, AsIntKeeps
  <2>5. new = now + diff
    BY <2>3, <2>4, ClampedType
  <2> QED BY <1>1, <2>1, <2>5
<1> QED BY <1>6, <1>7 DEF IInv, SettingKept

LEMMA NowIsSettable ==
  ASSUME IInv
  PROVE  /\ AsOfNow \in Settable
         /\ AsOfNow.diff = diff /\ AsOfNow.time = time
BY DEF AsOfNow, Settable, Faces, IInv, TypeOK

\* Opening, stopping and destroying the settings leaves the time alone.
LEMMA WindowStep ==
  ASSUME IInv, OpenSettings \/ StopSettings \/ DestroySettings
  PROVE  IInv'
<1>1. time' = time /\ diff' = diff /\ clock' = clock /\ inRange' = inRange
  BY DEF OpenSettings, StopSettings, DestroySettings
<1>2. shown' \in Faces
  BY FaceType DEF OpenSettings, StopSettings, DestroySettings, IInv, TypeOK,
                  Faces
<1>3. handlers' \subseteq Client \X Event
  BY DEF OpenSettings, StopSettings, DestroySettings, IInv, TypeOK, Registered,
         Interests, Client, Event
<1>4. app' \in {"none", "open", "stopped"}
  BY DEF OpenSettings, StopSettings, DestroySettings
<1> QED BY <1>1, <1>2, <1>3, <1>4 DEF IInv, TypeOK, SettingKept, Faces

LEMMA InvariantInit == Init => IInv
<1> SUFFICES ASSUME Init PROVE IInv
  OBVIOUS
<1>1. StartClock \in Nat /\ StartClock <= MaxInt /\ StartClock \in StartClock .. MaxClock
  BY RangeAssumption
<1>2. shown \in Faces
  BY <1>1, FaceType DEF Init, Faces
<1>3. handlers \subseteq Client \X Event
  BY DEF Init, Registered, Interests, Client, Event
<1> QED BY <1>1, <1>2, <1>3 DEF Init, IInv, TypeOK, SettingKept, Faces

LEMMA InvariantStep == IInv /\ [Next]_vars => IInv'
<1> SUFFICES ASSUME IInv, [Next]_vars PROVE IInv'
  OBVIOUS
<1>1. CASE UNCHANGED vars
  BY <1>1 DEF vars, IInv, TypeOK, SettingKept
<1>2. ASSUME NEW y \in Years, NEW m \in Month, NEW d \in 1 .. YearDays,
             PickDate(y, m, d)
      PROVE  IInv'
  <2>1. y \in Int /\ m \in Month /\ d \in Int
    BY <1>2, RangeAssumption, Units
  <2> DEFINE p == SetDate(AsOfNow, y, m, d)
  <2>2. Becomes(p)
    BY <1>2 DEF PickDate
  <2>3. AsOfNow \in Settable /\ AsOfNow.diff = diff /\ AsOfNow.time = time
    BY NowIsSettable
  <2>4. /\ p \in Settable
        /\ p.diff = AsOfNow.diff + (AsInt(p.time) - AsInt(AsOfNow.time))
    <3>1. \A s \in Settable :
             /\ SetDate(s, y, m, d) \in Settable
             /\ SetDate(s, y, m, d).diff =
                    s.diff + (AsInt(SetDate(s, y, m, d).time) - AsInt(s.time))
      BY <2>1, SetDateStep
    <3> QED BY <3>1, <2>3, Zenon
  <2> HIDE DEF p
  <2> QED BY <2>2, <2>3, <2>4, BecomesStep
<1>3. ASSUME NEW h \in 0 .. Hours - 1, NEW mi \in 0 .. Minutes - 1, PickTime(h, mi)
      PROVE  IInv'
  <2>1. h \in Int /\ mi \in Int
    BY Units
  <2> DEFINE p == SetField(SetField(AsOfNow, "HOUR", h), "MINUTE", mi)
  <2>2. Becomes(p)
    BY <1>3 DEF PickTime
  <2>3. AsOfNow \in Settable /\ AsOfNow.diff = diff /\ AsOfNow.time = time
    BY NowIsSettable
  <2>4. /\ p \in Settable
        /\ p.diff = AsOfNow.diff + (AsInt(p.time) - AsInt(AsOfNow.time))
    <3>1. \A s \in Settable :
             LET q == SetField(SetField(s, "HOUR", h), "MINUTE", mi)
             IN  q \in Settable /\ q.diff = s.diff + (AsInt(q.time) - AsInt(s.time))
      BY <2>1, SetTimeStep
    <3> QED BY <3>1, <2>3, Zenon
  <2> HIDE DEF p
  <2> QED BY <2>2, <2>3, <2>4, BecomesStep
<1> QED BY <1>1, <1>2, <1>3, TickStep, WindowStep DEF Next

LEMMA Invariant == Spec => []IInv
BY InvariantInit, InvariantStep, PTL DEF Spec

-----------------------------------------------------------------------------
(* What the clients show.  A client is drawn again whenever what it shows  *)
(* has changed, because it listens to every field its text is made of.     *)

\* Who listens at the moment.
Watching(c) == c = "bar" \/ (c = "list" /\ app # "none") \/ (c = "clock" /\ app = "open")

Listening ==
  \A c \in Client : handlers \cap ({c} \X Event) = IF Watching(c) THEN Registered(c) ELSE {}

Drawn ==
  \A c \in Client :
    /\ Watching(c) => shown[c] = Face(c, time)
    /\ app = "none" /\ c # "bar" => shown[c] = NotShown

SInv == IInv /\ Listening /\ Drawn

LEMMA InterestsAreEvents ==
  ASSUME NEW c \in Client
  PROVE  Interests(c) \subseteq Event /\ Interests(c) # {}
BY DEF Interests, Event

\* A text is made of fields that the client listens to.
LEMMA FaceOfFields ==
  ASSUME NEW t \in Nat, NEW u \in Nat, NEW c \in Client,
         \A e \in Interests(c) : Fields(t)[e] = Fields(u)[e]
  PROVE  Face(c, t) = Face(c, u)
<1> DEFINE f == Fields(t)
           g == Fields(u)
<1>1. f \in Calendar /\ Proper(f) /\ MkTime(f) = t /\ g \in Calendar /\ Proper(g) /\ MkTime(g) = u
  BY FieldsProper DEF Proper
<1>2. f.MINUTE = g.MINUTE /\ f.HOUR = g.HOUR
  BY DEF Interests, Event, Client
<1>3. c = "clock" => f.MDAY = g.MDAY /\ f.MONTH = g.MONTH /\ f.YEAR = g.YEAR
  BY DEF Interests, Event, Client
<1> HIDE DEF f, g
<1>4. DayOf(f) \in Nat /\ DayOf(g) \in Nat
  BY <1>1, MonthLengthType, DayOfType DEF Proper, Calendar
<1>5. /\ t \div Seconds = MinuteOf(f) /\ MinuteOf(f) % (Minutes * Hours) = f.HOUR * Minutes + f.MINUTE
      /\ u \div Seconds = MinuteOf(g) /\ MinuteOf(g) % (Minutes * Hours) = g.HOUR * Minutes + g.MINUTE
  BY <1>1, <1>4, MkTimeParts DEF Proper
<1>6. CASE c = "clock"
  <2>1. MinuteOf(f) = MinuteOf(g)
    BY <1>2, <1>3, <1>6 DEF MinuteOf, DayOf
  <2> QED BY <1>5, <1>6, <2>1 DEF Face
<1>7. CASE c # "clock"
  BY <1>2, <1>5, <1>7 DEF Face
<1> QED BY <1>6, <1>7

\* What set() leaves on the screen when it starts from a screen that is right.
Right(s) == \A c \in Client : IF Watching(c) THEN s.shown[c] = Face(c, s.time)
                                             ELSE s.shown[c] = shown[c]

\* The values the pickers set.
Settles(e, v) ==
  \/ e \in {"HOUR", "MINUTE"} /\ v \in Int
  \/ e = "YEAR" /\ v \in Nat
  \/ e = "MDAY" /\ v \in Nat \ {0}
  \/ e = "MONTH" /\ v \in Month

LEMMA RaisedRight ==
  ASSUME TypeOK, Listening, NEW E, NEW t \in Nat, NEW faces, NEW c \in Client
  PROVE  Raised(E, t, faces)[c] =
           IF Watching(c) /\ E \cap Interests(c) # {} THEN Face(c, t) ELSE faces[c]
<1>1. (\E e \in E : <<c, e>> \in handlers) => Watching(c) /\ E \cap Interests(c) # {}
  <2> SUFFICES ASSUME NEW e \in E, <<c, e>> \in handlers
               PROVE  Watching(c) /\ E \cap Interests(c) # {}
    OBVIOUS
  <2>1. <<c, e>> \in {c} \X Event
    BY DEF TypeOK
  <2> QED BY <2>1 DEF Listening, Registered
<1>2. Watching(c) /\ E \cap Interests(c) # {} => \E e \in E : <<c, e>> \in handlers
  BY DEF Listening, Registered
<1> QED BY <1>1, <1>2 DEF Raised

LEMMA SetFieldRight ==
  ASSUME TypeOK, Listening, NEW s \in Settable, Right(s), NEW e, NEW v, Settles(e, v)
  PROVE  Right(SetField(s, e, v))
<1> DEFINE F == Fields(s.time)
           f == [F EXCEPT ![e] = v]
           made == MkTime(f)
           new == Clamped(made)
           r == SetField(s, e, v)
<1>1. s.time \in Nat /\ F \in Calendar /\ Proper(F) /\ MkTime(F) = s.time
  BY FieldsProper DEF Settable, Proper
<1>2. r.time = new /\ r.shown = IF made = s.time THEN s.shown ELSE Raised({e}, new, s.shown)
  BY DEF SetField
<1>3. v \in Int /\ (e = "MONTH" => v \in Month) /\ e \in Event
  BY Units DEF Settles, Event
<1>4. f \in Calendar
  BY <1>1, <1>3 DEF Calendar, Event
<1>5. made \in Int
  BY <1>4, MkTimeType
<1>6. new \in Nat /\ (made \in Nat => new = made)
  BY <1>5, ClampedType
<1> SUFFICES ASSUME NEW c \in Client
             PROVE  IF Watching(c) THEN r.shown[c] = Face(c, r.time)
                                   ELSE r.shown[c] = shown[c]
  BY DEF Right
<1>7. IF Watching(c) THEN s.shown[c] = Face(c, s.time) ELSE s.shown[c] = shown[c]
  BY DEF Right
<1>8. CASE made = s.time
  BY <1>1, <1>2, <1>6, <1>7, <1>8
<1>9. CASE made # s.time
  <2>1. r.shown[c] = IF Watching(c) /\ {e} \cap Interests(c) # {}
                     THEN Face(c, new) ELSE s.shown[c]
    <3>1. r.shown = Raised({e}, new, s.shown)
      BY <1>2, <1>9
    <3> HIDE DEF r, new
    <3> QED BY <3>1, <1>6, RaisedRight
  <2>2. CASE Watching(c) /\ e \in Interests(c)
    BY <1>2, <2>1, <2>2
  <2>3. CASE ~ Watching(c)
    BY <1>7, <2>1, <2>3
  <2>4. CASE Watching(c) /\ e \notin Interests(c)
    <3>1. c # "clock" /\ e \in {"YEAR", "MDAY", "MONTH"}
      BY <1>3, <2>4 DEF Interests, Settles, Event, Client
    <3>2. f.HOUR = F.HOUR /\ f.MINUTE = F.MINUTE /\ f.SECOND = F.SECOND
      BY <1>1, <3>1 DEF Calendar
    <3>3. f.YEAR \in Nat /\ f.MDAY \in Nat \ {0}
      <4>1. F.YEAR \in Nat /\ F.MDAY \in Nat \ {0}
        BY <1>1, MonthLengthType DEF Proper, Calendar
      <4> QED BY <1>1, <3>1, <4>1 DEF Settles, Calendar
    <3>4. DayOf(f) \in Nat /\ DayOf(F) \in Nat
      BY <1>1, <1>4, <3>3, DayOfType, MonthLengthType DEF Proper, Calendar
    <3>5. /\ MkTime(f) \in Nat
          /\ (MkTime(f) \div Seconds) % (Minutes * Hours) = f.HOUR * Minutes + f.MINUTE
      <4>1. f.SECOND \in 0 .. Seconds - 1 /\ f.MINUTE \in 0 .. Minutes - 1
            /\ f.HOUR \in 0 .. Hours - 1
        BY <1>1, <3>2 DEF Proper
      <4> HIDE DEF f
      <4> QED BY <1>4, <3>4, <4>1, MkTimeParts
    <3>6. (MkTime(F) \div Seconds) % (Minutes * Hours) = F.HOUR * Minutes + F.MINUTE
      <4> HIDE DEF F
      <4> QED BY <1>1, <3>4, MkTimeParts DEF Proper
    <3>7. Face(c, new) = Face(c, s.time)
      BY <1>1, <1>6, <3>1, <3>2, <3>5, <3>6 DEF Face
    <3> QED BY <1>2, <1>7, <2>1, <2>4, <3>7
  <2> QED BY <2>2, <2>3, <2>4
<1> QED BY <1>8, <1>9

LEMMA BecomesRight ==
  ASSUME SInv, NEW p, Right(p), Becomes(p)
  PROVE  Listening' /\ Drawn'
<1>1. /\ time' = p.time /\ shown' = p.shown
      /\ handlers' = handlers /\ app' = app
  BY DEF Becomes
<1>2. \A c \in Client : Watching(c)' <=> Watching(c)
  BY <1>1 DEF Watching
<1>3. Listening'
  BY <1>1, <1>2 DEF Listening, SInv
<1>4. ASSUME NEW c \in Client
      PROVE  /\ Watching(c)' => shown'[c] = Face(c, time')
             /\ app' = "none" /\ c # "bar" => shown'[c] = NotShown
  <2>1. IF Watching(c) THEN p.shown[c] = Face(c, p.time) ELSE p.shown[c] = shown[c]
    BY DEF Right
  <2>2. app = "none" /\ c # "bar" => ~ Watching(c) /\ shown[c] = NotShown
    BY DEF SInv, Drawn, Watching
  <2> QED BY <1>1, <1>2, <2>1, <2>2
<1>5. Drawn'
  BY <1>4 DEF Drawn
<1> QED BY <1>3, <1>5

LEMMA PickDateRight ==
  ASSUME SInv, NEW y \in Years, NEW m \in Month, NEW d \in 1 .. YearDays, PickDate(y, m, d)
  PROVE  Listening' /\ Drawn'
<1> DEFINE r == SetField(AsOfNow, "YEAR", y)
           q == SetField(r, "MDAY", d)
           p == SetField(q, "MONTH", m)
<1>1. TypeOK /\ Listening /\ AsOfNow \in Settable
  BY NowIsSettable DEF SInv, IInv
<1>2. Right(AsOfNow)
  BY DEF Right, AsOfNow, SInv, Drawn
<1>3. y \in Nat /\ d \in Nat \ {0} /\ m \in Month /\ m \in Int
  BY RangeAssumption, Units
<1>4. Settles("YEAR", y) /\ Settles("MDAY", d) /\ Settles("MONTH", m)
  BY <1>3 DEF Settles
<1>5. r \in Settable /\ Right(r)
  BY <1>1, <1>2, <1>3, <1>4, SetFieldStep, SetFieldRight DEF Event
<1>6. q \in Settable /\ Right(q)
  <2> HIDE DEF r
  <2> QED BY <1>1, <1>3, <1>4, <1>5, SetFieldStep, SetFieldRight DEF Event
<1>7. Right(p)
  <2> HIDE DEF q
  <2> QED BY <1>1, <1>4, <1>6, SetFieldRight
<1>8. Becomes(p)
  BY DEF PickDate, SetDate
<1> HIDE DEF p
<1> QED BY <1>7, <1>8, BecomesRight

LEMMA PickTimeRight ==
  ASSUME SInv, NEW h \in 0 .. Hours - 1, NEW mi \in 0 .. Minutes - 1, PickTime(h, mi)
  PROVE  Listening' /\ Drawn'
<1> DEFINE q == SetField(AsOfNow, "HOUR", h)
           p == SetField(q, "MINUTE", mi)
<1>1. TypeOK /\ Listening /\ AsOfNow \in Settable
  BY NowIsSettable DEF SInv, IInv
<1>2. Right(AsOfNow)
  BY DEF Right, AsOfNow, SInv, Drawn
<1>3. h \in Int /\ mi \in Int
  BY Units
<1>4. Settles("HOUR", h) /\ Settles("MINUTE", mi)
  BY <1>3 DEF Settles
<1>5. q \in Settable /\ Right(q)
  BY <1>1, <1>2, <1>3, <1>4, SetFieldStep, SetFieldRight DEF Event
<1>6. Right(p)
  <2> HIDE DEF q
  <2> QED BY <1>1, <1>4, <1>5, SetFieldRight
<1>7. Becomes(p)
  BY DEF PickTime
<1> HIDE DEF p
<1> QED BY <1>6, <1>7, BecomesRight

\* A tick, however late, raises an event for every field that has changed.
LEMMA TickRight ==
  ASSUME SInv, NEW now \in clock .. MaxClock, Tick(now)
  PROVE  Listening' /\ Drawn'
<1> DEFINE new == Clamped(AsInt(now + diff))
           changed == {e \in Event : Fields(new)[e] # Fields(time)[e]}
<1>1. time' = new /\ handlers' = handlers /\ app' = app /\ shown' = Raised(changed, new, shown)
  BY DEF Tick
<1>2. TypeOK /\ time \in Nat /\ diff \in Int /\ now \in Int
  BY RangeAssumption DEF SInv, IInv, TypeOK
<1>3. new \in Nat
  BY <1>2, AsIntType, ClampedType
<1> HIDE DEF new
<1>4. \A c \in Client : Watching(c)' <=> Watching(c)
  BY <1>1 DEF Watching
<1>5. Listening'
  BY <1>1, <1>4 DEF Listening, SInv
<1>6. ASSUME NEW c \in Client
      PROVE  /\ Watching(c)' => shown'[c] = Face(c, time')
             /\ app' = "none" /\ c # "bar" => shown'[c] = NotShown
  <2>1. shown'[c] = IF Watching(c) /\ changed \cap Interests(c) # {}
                    THEN Face(c, new) ELSE shown[c]
    <3> HIDE DEF changed
    <3> QED BY <1>1, <1>2, <1>3, RaisedRight DEF SInv
  <2>2. changed \cap Interests(c) = {} => Face(c, new) = Face(c, time)
    <3>1. Interests(c) \subseteq Event
      BY InterestsAreEvents
    <3>2. changed \cap Interests(c) = {} =>
             \A e \in Interests(c) : Fields(new)[e] = Fields(time)[e]
      BY <3>1
    <3> QED BY <1>2, <1>3, <3>2, FaceOfFields
  <2>3. /\ Watching(c) => shown[c] = Face(c, time)
        /\ app = "none" /\ c # "bar" => ~ Watching(c) /\ shown[c] = NotShown
    BY DEF SInv, Drawn, Watching
  <2> HIDE DEF changed
  <2> QED BY <1>1, <1>4, <2>1, <2>2, <2>3
<1>7. Drawn'
  BY <1>6 DEF Drawn
<1> QED BY <1>5, <1>7

\* The settings register when they are opened, and take themselves off the list
\* of the service before their windows are gone.
LEMMA WindowRight ==
  ASSUME SInv, OpenSettings \/ StopSettings \/ DestroySettings
  PROVE  Listening' /\ Drawn'
<1>1. Listening /\ Drawn /\ handlers \subseteq Client \X Event
  BY DEF SInv, IInv, TypeOK
<1>2. \A c \in Client : Registered(c) \subseteq {c} \X Event
  BY InterestsAreEvents DEF Registered
<1>3. CASE OpenSettings
  <2>1. \A c \in Client : Watching(c)'
    BY <1>3 DEF OpenSettings, Watching, Client
  <2>2. Listening'
    <3> SUFFICES ASSUME NEW c \in Client
                 PROVE  handlers' \cap ({c} \X Event) = Registered(c)
      BY <2>1 DEF Listening
    <3>1. handlers' = handlers \cup Registered("list") \cup Registered("clock")
      BY <1>3 DEF OpenSettings
    <3>2. handlers \cap ({c} \X Event) = IF c = "bar" THEN Registered(c) ELSE {}
      BY <1>1, <1>3 DEF Listening, Watching, OpenSettings, Client
    <3> QED BY <1>2, <3>1, <3>2 DEF Client, Registered
  <2>3. Drawn'
    BY <1>1, <1>3 DEF Drawn, OpenSettings, Watching
  <2> QED BY <2>2, <2>3
<1>4. CASE StopSettings
  <2>1. \A c \in Client : Watching(c)' <=> c # "clock"
    BY <1>4 DEF StopSettings, Watching, Client
  <2>2. Listening'
    <3> SUFFICES ASSUME NEW c \in Client
                 PROVE  handlers' \cap ({c} \X Event) =
                           IF c # "clock" THEN Registered(c) ELSE {}
      BY <2>1 DEF Listening
    <3>1. handlers' = {l \in handlers : l[1] # "clock"}
      BY <1>4 DEF StopSettings
    <3>2. c # "clock" => handlers \cap ({c} \X Event) = Registered(c)
      BY <1>1, <1>4 DEF Listening, Watching, StopSettings, Client
    <3> QED BY <3>1, <3>2
  <2>3. Drawn'
    BY <1>1, <1>4 DEF Drawn, StopSettings, Watching
  <2> QED BY <2>2, <2>3
<1>5. CASE DestroySettings
  <2>1. \A c \in Client : Watching(c)' <=> c = "bar"
    BY <1>5 DEF DestroySettings, Watching, Client
  <2>2. Listening'
    <3> SUFFICES ASSUME NEW c \in Client
                 PROVE  handlers' \cap ({c} \X Event) =
                           IF c = "bar" THEN Registered(c) ELSE {}
      BY <2>1 DEF Listening
    <3>1. handlers' = {l \in handlers : l[1] # "list"}
      BY <1>5 DEF DestroySettings
    <3>2. c # "list" => handlers \cap ({c} \X Event) =
                           IF c = "bar" THEN Registered(c) ELSE {}
      BY <1>1, <1>5 DEF Listening, Watching, DestroySettings, Client
    <3> QED BY <3>1, <3>2 DEF Client
  <2>3. Drawn'
    BY <1>1, <1>5 DEF Drawn, DestroySettings, Watching
  <2> QED BY <2>2, <2>3
<1> QED BY <1>3, <1>4, <1>5

LEMMA ShownInvariant == Spec => []SInv
<1>1. Init => Listening /\ Drawn
  <2> SUFFICES ASSUME Init PROVE Listening /\ Drawn
    OBVIOUS
  <2>1. Registered("bar") \subseteq {"bar"} \X Event
    BY InterestsAreEvents DEF Registered, Client
  <2>2. Listening
    BY <2>1 DEF Init, Listening, Watching, Registered
  <2>3. Drawn
    BY DEF Init, Drawn, Watching
  <2> QED BY <2>2, <2>3
<1>2. SInv /\ [Next]_vars => (Listening /\ Drawn)'
  <2> SUFFICES ASSUME SInv, [Next]_vars PROVE Listening' /\ Drawn'
    OBVIOUS
  <2>1. CASE UNCHANGED vars
    BY <2>1 DEF vars, SInv, Listening, Drawn, Watching
  <2> QED BY <2>1, PickDateRight, PickTimeRight, TickRight, WindowRight DEF Next
<1> QED BY <1>1, <1>2, Invariant, PTL DEF Spec, SInv

-----------------------------------------------------------------------------
(* A date is set field by field.                                           *)

LEMMA ShortestIsLeast ==
  /\ Shortest \in Nat
  /\ \A m \in Month : Shortest <= MonthLength(m)
<1> DEFINE L == {MonthLength(m) : m \in Month}
<1>1. L \subseteq Nat /\ L # {}
  BY Units, MonthLengthType
<1>2. PICK n \in L : \A k \in L : ~ (<<k, n>> \in OpToRel(<, Nat))
  BY <1>1, NatLessThanWellFounded, WFMin, Zenon
<1>3. \A k \in L : n <= k
  <2> HIDE DEF L
  <2>1. \A k \in L : ~ (k < n)
    BY <1>1, <1>2 DEF OpToRel
  <2> QED BY <1>1, <2>1
<1>4. \A m \in Month : n <= MonthLength(m)
  BY <1>3
<1>5. Shortest \in L /\ \A m \in Month : Shortest <= MonthLength(m)
  BY <1>4 DEF Shortest
<1> QED BY <1>1, <1>5

\* A field can be changed alone as long as the month has the day.
LEMMA ProperExcept ==
  ASSUME NEW f, Proper(f), NEW e, NEW v,
         \/ e = "YEAR" /\ v \in Nat
         \/ e = "MDAY" /\ v \in 1 .. MonthLength(f.MONTH)
         \/ e = "MONTH" /\ v \in Month /\ f.MDAY \in 1 .. MonthLength(v)
  PROVE  Proper([f EXCEPT ![e] = v])
<1>1. f \in Calendar
  BY DEF Proper
<1>2. f.MONTH \in Month /\ MonthLength(f.MONTH) \in Nat
  BY <1>1, MonthLengthType DEF Calendar
<1>3. CASE e = "YEAR"
  BY <1>1, <1>3 DEF Proper, Calendar
<1>4. CASE e = "MDAY"
  BY <1>1, <1>2, <1>4 DEF Proper, Calendar
<1>5. CASE e = "MONTH"
  BY <1>1, <1>5 DEF Proper, Calendar
<1> QED BY <1>3, <1>4, <1>5

LEMMA SetFieldProper ==
  ASSUME NEW s, NEW e, NEW v, NEW f, f = [Fields(s.time) EXCEPT ![e] = v], Proper(f)
  PROVE  SetField(s, e, v).time = MkTime(f) /\ Fields(SetField(s, e, v).time) = f
<1>1. MkTime(f) \in Nat /\ Fields(MkTime(f)) = f
  BY FieldsOfMkTime
<1>2. Clamped(MkTime(f)) = MkTime(f)
  BY <1>1, ClampedType
<1>3. SetField(s, e, v).time = MkTime(f)
  BY <1>2 DEF SetField
<1> QED BY <1>1, <1>3

\* The fields F with another date.
Dated(F, y, m, d) == [F EXCEPT !.YEAR = y, !.MONTH = m, !.MDAY = d]

LEMMA SetDateProper ==
  ASSUME NEW s \in Settable, NEW y \in Nat, NEW m \in Month, NEW d \in 1 .. Shortest
  PROVE  SetDate(s, y, m, d).time = MkTime(Dated(Fields(s.time), y, m, d))
<1>1. PICK F : F = Fields(s.time)
  OBVIOUS
<1>2. PICK k : k = [F EXCEPT !["YEAR"] = y]
  OBVIOUS
<1>3. PICK g : g = [k EXCEPT !["MDAY"] = d]
  OBVIOUS
<1>4. PICK h : h = [g EXCEPT !["MONTH"] = m]
  OBVIOUS
<1>5. F \in Calendar /\ Proper(F)
  BY <1>1, FieldsProper DEF Proper, Settable
<1>6. d \in Nat /\ d \in Int /\ m \in Int /\ y \in Int
      /\ \A n \in Month : d \in 1 .. MonthLength(n)
  BY ShortestIsLeast, Units, MonthLengthType
<1>7. k \in Calendar /\ Proper(k)
  BY <1>2, <1>5, ProperExcept DEF Proper
<1>8. k.MONTH \in Month
  BY <1>7 DEF Calendar
<1>9. g \in Calendar /\ Proper(g) /\ g.MDAY = d
  <2>1. Proper(g)
    BY <1>3, <1>6, <1>7, <1>8, ProperExcept
  <2>2. g.MDAY = d
    BY <1>3, <1>7 DEF Calendar
  <2> QED BY <2>1, <2>2 DEF Proper
<1>10. Proper(h)
  BY <1>4, <1>6, <1>9, ProperExcept
<1>11. PICK r : r = SetField(s, "YEAR", y)
  OBVIOUS
<1>12. PICK q : q = SetField(r, "MDAY", d)
  OBVIOUS
<1>13. r.time = MkTime(k) /\ Fields(r.time) = k
  BY <1>1, <1>2, <1>7, <1>11, SetFieldProper
<1>14. q.time = MkTime(g) /\ Fields(q.time) = g
  <2>1. g = [Fields(r.time) EXCEPT !["MDAY"] = d]
    BY <1>3, <1>13
  <2> QED BY <1>9, <1>12, <2>1, SetFieldProper
<1>15. SetField(q, "MONTH", m).time = MkTime(h)
  <2>1. h = [Fields(q.time) EXCEPT !["MONTH"] = m]
    BY <1>4, <1>14
  <2> QED BY <1>10, <2>1, SetFieldProper
<1>16. SetDate(s, y, m, d) = SetField(q, "MONTH", m)
  BY <1>11, <1>12 DEF SetDate
<1>17. h = Dated(F, y, m, d)
  BY <1>2, <1>3, <1>4, <1>5 DEF Calendar, Dated
<1> QED BY <1>1, <1>15, <1>16, <1>17

-----------------------------------------------------------------------------
(* The service never shows a time before the epoch, and every text shown   *)
(* is a time of day or a date (TimeService.cc:280-338).                    *)
THEOREM TypeCorrect == Spec => []TypeOK
<1>1. IInv => TypeOK
  BY DEF IInv
<1> QED BY <1>1, Invariant, PTL

(* While the seconds fit an int, the time is the host's moved by exactly   *)
(* what the user has set, whatever dates and times were picked and however *)
(* late the ticks (TimeService.cc:70-88, 150-170).                         *)
THEOREM SettingIsKept == Spec => []SettingKept
<1>1. IInv => SettingKept
  BY DEF IInv
<1> QED BY <1>1, Invariant, PTL

(* Between two messages every client on the screen shows the time of the   *)
(* service: a late tick raises an event for each field that differs, a     *)
(* set() the one event of its field, and the fields a text is made of are  *)
(* among those its client listens to (TimeService.cc:75-88, 156-221,       *)
(* SettingClockPiece.cc:469-489).                                          *)
THEOREM ShownIsCurrent == Spec => []ShownCurrent
<1>1. SInv => ShownCurrent
  <2> SUFFICES ASSUME SInv, NEW c \in Client
               PROVE  \/ c = "clock" /\ app = "stopped" /\ handlers \cap Registered(c) = {}
                      \/ c # "bar" /\ app = "none" /\ shown[c] = NotShown
                                   /\ handlers \cap Registered(c) = {}
                      \/ shown[c] = Face(c, time)
    BY DEF ShownCurrent
  <2>1. /\ Watching(c) => shown[c] = Face(c, time)
        /\ app = "none" /\ c # "bar" => shown[c] = NotShown
        /\ handlers \cap ({c} \X Event) = IF Watching(c) THEN Registered(c) ELSE {}
        /\ app \in {"none", "open", "stopped"}
    BY DEF SInv, Drawn, Listening, IInv, TypeOK
  <2>2. Registered(c) \subseteq {c} \X Event
    BY InterestsAreEvents DEF Registered
  <2>3. CASE Watching(c)
    BY <2>1, <2>3
  <2>4. CASE ~ Watching(c)
    <3>1. handlers \cap Registered(c) = {}
      BY <2>1, <2>2, <2>4
    <3>2. c # "bar" /\ (app = "none" \/ (c = "clock" /\ app = "stopped"))
      BY <2>1, <2>4 DEF Watching, Client
    <3> QED BY <2>1, <3>1, <3>2
  <2> QED BY <2>3, <2>4
<1> QED BY <1>1, ShownInvariant, PTL

(* A date that every month has is the date set, and the time of day stays, *)
(* in every calendar and from every date: the day is valid in the month    *)
(* that is still set when it is (SettingClockPiece.cc:118-126).            *)
THEOREM PickedDateIsSet == Spec => PickedDateSet
<1>1. ASSUME IInv, NEW y \in Years, NEW m \in Month, NEW d \in 1 .. Shortest, PickDate(y, m, d)
      PROVE  time' = MkTime([Fields(time) EXCEPT !.YEAR = y, !.MONTH = m, !.MDAY = d])
  <2>1. PICK s \in Settable : s = AsOfNow /\ s.time = time
    BY <1>1, NowIsSettable
  <2>2. y \in Nat /\ m \in Month /\ d \in 1 .. Shortest
    BY <1>1, RangeAssumption
  <2>3. time' = SetDate(s, y, m, d).time
    BY <1>1, <2>1 DEF PickDate, Becomes
  <2>4. SetDate(s, y, m, d).time = MkTime(Dated(Fields(s.time), y, m, d))
    BY <2>2, SetDateProper
  <2> QED BY <2>1, <2>3, <2>4 DEF Dated
<1>2. IInv /\ [Next]_vars =>
        [\A y \in Years, m \in Month, d \in 1 .. Shortest :
           PickDate(y, m, d) =>
              time' = MkTime([Fields(time) EXCEPT !.YEAR = y, !.MONTH = m, !.MDAY = d])]_vars
  BY <1>1
<1> QED BY <1>2, Invariant, PTL DEF Spec, PickedDateSet

=============================================================================
