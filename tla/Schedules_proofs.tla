--------------------------- MODULE Schedules_proofs ---------------------------
(* Proofs about ScheduleTimes and Schedules, for any calendar (lengths of a   *)
(* minute, an hour, a day, a week, of the months, any leap rule that           *)
(* MonthLengths and LastDay can say), any schedules, runners, requests and     *)
(* settings, any number of jobs and of crashes.                                *)
(*                                                                             *)
(*   1. NextRun is the first due time after a moment (NextRunIsFirst).         *)
(*   2. SchedulesInv is inductive: types, who holds what, times, due times,    *)
(*      one run at a time, costs, places. Each part has a lemma that a step    *)
(*      keeps it; most steps are dealt with by a frame lemma for steps that    *)
(*      leave alone what the part is about.                                    *)
(*   3. The properties of Schedules that a run checks follow from it.          *)
EXTENDS Schedules, SequenceTheorems, WellFoundedInduction, TLAPS

-----------------------------------------------------------------------------
(* Induction, told with sets: a set of naturals has a least element.        *)

\* Every set of naturals that is not empty has a least element.
LEMMA LeastNatural ==
    ASSUME NEW T, T \subseteq Nat, T # {}
    PROVE  \E x \in T : \A y \in T : x =< y
<1>1. PICK x \in T : \A y \in T : ~ (<<y, x>> \in OpToRel(<, Nat))
  BY NatLessThanWellFounded, WFMin
<1>2. \A y \in T : ~(y < x)
  BY <1>1, Zenon DEF OpToRel
<1> QED BY <1>2

\* Induction over Nat, for a set instead of a predicate.
LEMMA Induction ==
    ASSUME NEW S, 0 \in S, \A n \in Nat : n \in S => n + 1 \in S
    PROVE  Nat \subseteq S
<1> SUFFICES ASSUME Nat \ S # {} PROVE FALSE
  OBVIOUS
<1>1. PICK x \in Nat \ S : \A y \in Nat \ S : x =< y
  BY LeastNatural
<1>2. x # 0 /\ x - 1 \in Nat /\ x - 1 \in S
  BY <1>1
<1> QED BY <1>1, <1>2

-----------------------------------------------------------------------------
(* The calendar.                                                            *)

\* The days of the month before month n.
MonthBefore == [n \in Nat \ {0} |-> MonthLengths[((n - 1) % Len(MonthLengths)) + 1]]
SumsTo(h, n) == /\ h \in [0 .. n -> Nat] /\ h[0] = 0
                /\ \A i \in 1 .. n : h[i] = h[i - 1] + MonthBefore[i]

LEMMA Calendar ==
    /\ SecondsPerMinute \in Nat \ {0} /\ MinutesPerHour \in Nat \ {0} /\ HoursPerDay \in Nat \ {0}
    /\ DaysPerWeek \in Nat \ {0} /\ LastDay \in Nat \ {0}
    /\ Hour \in Nat \ {0} /\ Day \in Nat \ {0}
<1>1. /\ SecondsPerMinute \in Nat \ {0} /\ MinutesPerHour \in Nat \ {0} /\ HoursPerDay \in Nat \ {0}
      /\ DaysPerWeek \in Nat \ {0} /\ LastDay \in Nat \ {0}
  BY CalendarAssumption
<1>2. \A a, b \in Nat \ {0} : a * b \in Nat \ {0}
  OBVIOUS
<1>3. Hour \in Nat \ {0}
  BY <1>1, <1>2 DEF Hour
<1> QED BY <1>1, <1>2, <1>3 DEF Day

LEMMA MonthDays == \A n \in Nat \ {0} : MonthBefore[n] \in Nat \ {0} /\ LastDay =< MonthBefore[n]
<1> SUFFICES ASSUME NEW n \in Nat \ {0} PROVE MonthBefore[n] \in Nat \ {0} /\ LastDay =< MonthBefore[n]
  OBVIOUS
<1> DEFINE len == Len(MonthLengths)
           i == ((n - 1) % len) + 1
<1>1. len \in Nat \ {0}
  BY CalendarAssumption
<1>2. (n - 1) % len \in 0 .. len - 1
  BY <1>1
<1>3. i \in DOMAIN MonthLengths
  BY <1>1, <1>2, CalendarAssumption
<1>4. MonthLengths[i] \in Nat /\ LastDay =< MonthLengths[i] /\ LastDay \in Nat \ {0}
  BY <1>3, CalendarAssumption, Calendar
<1>5. MonthLengths[i] \in Nat \ {0}
  <2> HIDE DEF i
  <2> QED BY <1>4
<1> QED BY <1>4, <1>5 DEF MonthBefore

\* FirstDay is what its definition says: it sums the months.
LEMMA SumsAgree ==
    ASSUME NEW m \in Nat, NEW n \in Nat, NEW g, NEW h, SumsTo(g, m), SumsTo(h, n)
    PROVE  \A i \in Nat : i =< m /\ i =< n => g[i] = h[i]
<1> DEFINE S == {i \in Nat : i =< m /\ i =< n => g[i] = h[i]}
<1>1. 0 \in S
  BY DEF SumsTo
<1>2. ASSUME NEW i \in Nat, i \in S PROVE i + 1 \in S
  <2> SUFFICES ASSUME i + 1 =< m, i + 1 =< n PROVE g[i + 1] = h[i + 1]
    OBVIOUS
  <2>1. g[i] = h[i] /\ i + 1 \in 1 .. m /\ i + 1 \in 1 .. n /\ (i + 1) - 1 = i
    BY <1>2
  <2>2. g[i + 1] = g[(i + 1) - 1] + MonthBefore[i + 1]
    BY <2>1 DEF SumsTo
  <2>3. h[i + 1] = h[(i + 1) - 1] + MonthBefore[i + 1]
    BY <2>1 DEF SumsTo
  <2> QED BY <2>1, <2>2, <2>3
<1> HIDE DEF S
<1>3. Nat \subseteq S
  BY <1>1, <1>2, Induction
<1> QED BY <1>3 DEF S

LEMMA SumsExist == \A n \in Nat : \E h : SumsTo(h, n)
<1> DEFINE S == {n \in Nat : \E h : SumsTo(h, n)}
<1>1. 0 \in S
  <2>1. SumsTo([i \in 0 .. 0 |-> 0], 0)
    BY DEF SumsTo
  <2> QED BY <2>1
<1>2. ASSUME NEW n \in Nat, n \in S PROVE n + 1 \in S
  <2>1. PICK h : SumsTo(h, n)
    BY <1>2
  <2> DEFINE g == [i \in 0 .. n + 1 |-> IF i = n + 1 THEN h[n] + MonthBefore[n + 1] ELSE h[i]]
  <2>2. h[n] + MonthBefore[n + 1] \in Nat
    BY <2>1, MonthDays DEF SumsTo
  <2>3. g \in [0 .. n + 1 -> Nat] /\ g[0] = 0
    BY <2>1, <2>2 DEF SumsTo
  <2>4. ASSUME NEW i \in 1 .. n + 1 PROVE g[i] = g[i - 1] + MonthBefore[i]
    <3>1. CASE i = n + 1
      BY <3>1
    <3>2. CASE i # n + 1
      BY <2>1, <3>2 DEF SumsTo
    <3> QED BY <3>1, <3>2
  <2> HIDE DEF g
  <2>5. SumsTo(g, n + 1)
    BY <2>3, <2>4 DEF SumsTo
  <2> QED BY <2>5
<1> HIDE DEF S
<1>3. Nat \subseteq S
  BY <1>1, <1>2, Induction
<1> QED BY <1>3 DEF S

LEMMA FirstDays ==
    /\ FirstDay \in [Nat -> Nat] /\ FirstDay[0] = 0
    /\ \A n \in Nat : FirstDay[n + 1] = FirstDay[n] + MonthBefore[n + 1]
<1> DEFINE Sum(n) == CHOOSE h : SumsTo(h, n)
           g == [n \in Nat |-> Sum(n)[n]]
           Step(f) == [n \in Nat |-> IF n = 0 THEN 0
                         ELSE f[n - 1] + MonthLengths[((n - 1) % Len(MonthLengths)) + 1]]
<1>1. \A n \in Nat : SumsTo(Sum(n), n)
  BY SumsExist
<1>2. g \in [Nat -> Nat] /\ g[0] = 0
  <2>1. ASSUME NEW n \in Nat PROVE Sum(n)[n] \in Nat
    <3>1. SumsTo(Sum(n), n) /\ n \in 0 .. n
      BY <1>1
    <3> HIDE DEF Sum
    <3> QED BY <3>1 DEF SumsTo
  <2>2. Sum(0)[0] = 0
    <3>1. SumsTo(Sum(0), 0)
      BY <1>1
    <3> HIDE DEF Sum
    <3> QED BY <3>1 DEF SumsTo
  <2> HIDE DEF Sum
  <2> QED BY <2>1, <2>2
<1>3. ASSUME NEW n \in Nat \ {0} PROVE g[n] = g[n - 1] + MonthBefore[n]
  <2>1. SumsTo(Sum(n), n) /\ SumsTo(Sum(n - 1), n - 1) /\ n - 1 \in Nat
    BY <1>1
  <2> HIDE DEF Sum
  <2>2. Sum(n)[n] = Sum(n)[n - 1] + MonthBefore[n]
    BY <2>1 DEF SumsTo
  <2>3. Sum(n)[n - 1] = Sum(n - 1)[n - 1]
    BY <2>1, SumsAgree
  <2> QED BY <2>1, <2>2, <2>3
<1>4. g = Step(g)
  <2>1. ASSUME NEW n \in Nat PROVE g[n] = Step(g)[n]
    <3> HIDE DEF g
    <3>1. CASE n = 0
      BY <1>2, <3>1
    <3>2. CASE n # 0
      BY <1>3, <3>2 DEF MonthBefore
    <3> QED BY <3>1, <3>2
  <2> HIDE DEF Sum
  <2> QED BY <2>1
<1>5. FirstDay = Step(FirstDay)
  <2> HIDE DEF g
  <2> QED BY <1>4 DEF FirstDay
<1>6. FirstDay[0] = 0 /\ \A n \in Nat \ {0} : FirstDay[n] = FirstDay[n - 1] + MonthBefore[n]
  BY <1>5 DEF MonthBefore
<1>7. \A n \in Nat : FirstDay[n + 1] = FirstDay[n] + MonthBefore[n + 1]
  BY <1>6
<1>8. FirstDay \in [Nat -> Nat]
  <2> DEFINE S == {n \in Nat : FirstDay[n] \in Nat}
  <2>1. 0 \in S
    BY <1>6
  <2>2. \A n \in Nat : n \in S => n + 1 \in S
    BY <1>7, MonthDays
  <2> HIDE DEF S
  <2>3. Nat \subseteq S
    BY <2>1, <2>2, Induction
  <2>4. \A n \in Nat : FirstDay[n] \in Nat
    BY <2>3 DEF S
  <2>5. FirstDay = [n \in Nat |-> FirstDay[n]]
    BY <1>5
  <2> QED BY <2>4, <2>5
<1> QED BY <1>6, <1>7, <1>8

LEMMA MonthsGrow == \A n \in Nat : FirstDay[n] \in Nat /\ n =< FirstDay[n] /\ FirstDay[n] < FirstDay[n + 1]
<1>1. ASSUME NEW n \in Nat PROVE FirstDay[n] \in Nat /\ FirstDay[n] < FirstDay[n + 1]
  <2>1. MonthBefore[n + 1] \in Nat \ {0}
    BY MonthDays
  <2> QED BY <2>1, FirstDays
<1> DEFINE S == {n \in Nat : n =< FirstDay[n]}
<1>2. 0 \in S
  BY FirstDays
<1>3. ASSUME NEW n \in Nat, n \in S PROVE n + 1 \in S
  <2>1. FirstDay[n + 1] \in Nat /\ FirstDay[n] \in Nat /\ FirstDay[n] < FirstDay[n + 1]
    BY <1>1
  <2> QED BY <1>3, <2>1
<1> HIDE DEF S
<1>4. Nat \subseteq S
  BY <1>2, <1>3, Induction
<1> QED BY <1>1, <1>4 DEF S

\* Every day is in a month, and MonthOf finds it.
LEMMA MonthOfDay ==
    ASSUME NEW day \in Nat
    PROVE  /\ MonthOf(day) \in 0 .. day
           /\ FirstDay[MonthOf(day)] =< day /\ day < FirstDay[MonthOf(day) + 1]
<1> DEFINE T == {n \in Nat : day < FirstDay[n + 1]}
<1>1. day \in T
  BY MonthsGrow
<1>2. PICK n \in T : \A m \in T : n =< m
  <2> HIDE DEF T
  <2>1. T \subseteq Nat
    BY DEF T
  <2> QED BY <1>1, <2>1, LeastNatural
<1>3. n \in 0 .. day /\ day < FirstDay[n + 1]
  BY <1>1, <1>2
<1>4. FirstDay[n] =< day
  <2>1. CASE n = 0
    BY <2>1, FirstDays
  <2>2. CASE n # 0
    <3>1. n - 1 \in Nat /\ n - 1 \notin T /\ (n - 1) + 1 = n
      BY <1>2, <1>3, <2>2
    <3> QED BY <3>1, MonthsGrow
  <2> QED BY <2>1, <2>2
<1> QED BY <1>3, <1>4 DEF MonthOf

\* Division with remainder by a positive number.
LEMMA Steps ==
    ASSUME NEW a \in Nat, NEW b \in Nat, NEW p \in Nat \ {0}
    PROVE  /\ a * p \in Nat
           /\ a < b => a * p + p =< b * p
<1>1. a * p \in Nat
  OBVIOUS
<1>2. ASSUME a < b PROVE a * p + p =< b * p
  <2>1. PICK k \in Nat : b = a + 1 + k
    <3>1. b - a - 1 \in Nat /\ b = a + 1 + (b - a - 1)
      BY <1>2
    <3> QED BY <3>1
  <2>2. b * p = a * p + p + k * p
    BY <2>1
  <2>3. k * p \in Nat
    OBVIOUS
  <2> QED BY <1>1, <2>2, <2>3
<1> QED BY <1>1, <1>2

LEMMA Divided ==
    ASSUME NEW a \in Nat, NEW p \in Nat \ {0}
    PROVE  /\ a \div p \in Nat /\ a % p \in 0 .. p - 1
           /\ a = (a \div p) * p + (a % p)
OBVIOUS

LEMMA DividedOnce ==
    ASSUME NEW p \in Nat \ {0}, NEW q \in Nat, NEW r \in 0 .. p - 1
    PROVE  (q * p + r) \div p = q /\ (q * p + r) % p = r
<1> DEFINE a == q * p + r
           d == a \div p
           m == a % p
<1>1. q * p \in Nat /\ a \in Nat
  OBVIOUS
<1>2. d \in Nat /\ m \in 0 .. p - 1 /\ a = d * p + m
  BY <1>1, Divided
<1> HIDE DEF d, m
<1>3. ~(d < q)
  <2> SUFFICES ASSUME d < q PROVE FALSE
    OBVIOUS
  <2>1. d * p + p =< q * p /\ d * p \in Nat
    BY <1>2, Steps
  <2> QED BY <1>1, <1>2, <2>1
<1>4. ~(q < d)
  <2> SUFFICES ASSUME q < d PROVE FALSE
    OBVIOUS
  <2>1. q * p + p =< d * p /\ d * p \in Nat
    BY <1>2, Steps
  <2> QED BY <1>1, <1>2, <2>1
<1>5. d = q
  BY <1>2, <1>3, <1>4
<1>6. m = r
  BY <1>1, <1>2, <1>5
<1> QED BY <1>5, <1>6 DEF d, m

\* The hand of a clock that goes round once in c rounds of a smaller hand, of b steps each:
\* it shows where both are.
HandsAgree(a, b, c, x, y) ==
    /\ x * b + y \in 0 .. c * b - 1
    /\ a % (c * b) = x * b + y => a % b = y /\ (a % (c * b)) \div b = x
    /\ a % b = y /\ (a % (c * b)) \div b = x => a % (c * b) = x * b + y
LEMMA Hands ==
    ASSUME NEW a \in Nat, NEW b \in Nat \ {0}, NEW c \in Nat \ {0},
           NEW x \in 0 .. c - 1, NEW y \in 0 .. b - 1
    PROVE  HandsAgree(a, b, c, x, y)
<1> DEFINE p == c * b
<1>0. p \in Nat \ {0} /\ p = c * b
  OBVIOUS
<1> HIDE DEF p
<1>1. x * b \in Nat /\ x * b + b =< p
  BY <1>0, Steps
<1> DEFINE d == a \div p
           r == a % p
           k == r \div b
           z == r % b
<1>2. d \in Nat /\ r \in 0 .. p - 1 /\ a = d * p + r
  BY <1>0, Divided
<1> HIDE DEF d, r
<1>3. k \in Nat /\ z \in 0 .. b - 1 /\ r = k * b + z
  <2>1. r \in Nat
    BY <1>0, <1>2
  <2> QED BY <2>1, Divided
<1>4. a % b = z
  <2> HIDE DEF k, z
  <2>1. d * c + k \in Nat
    BY <1>2, <1>3
  <2>2. d * p = (d * c) * b
    BY <1>0, <1>2
  <2>3. a = (d * c + k) * b + z
    BY <1>2, <1>3, <2>2
  <2> HIDE <2>2
  <2> QED BY <1>3, <2>1, <2>3, DividedOnce
<1>5. r = x * b + y => k = x /\ z = y
  <2> SUFFICES ASSUME r = x * b + y PROVE k = x /\ z = y
    OBVIOUS
  <2>1. x \in Nat
    OBVIOUS
  <2>2. (x * b + y) \div b = x /\ (x * b + y) % b = y
    BY <2>1, DividedOnce
  <2> QED BY <2>2
<1> HIDE DEF k, z
<1>6. k = x /\ z = y => r = x * b + y
  BY <1>3
<1>7. x * b + y \in 0 .. p - 1
  BY <1>0, <1>1
<1>8. (a % p = x * b + y => a % b = y /\ (a % p) \div b = x)
      /\ (a % b = y /\ (a % p) \div b = x => a % p = x * b + y)
  BY <1>4, <1>5, <1>6 DEF k, z, r
<1> QED BY <1>7, <1>8 DEF p, HandsAgree

\* A day has a place for every time of it.
LEMMA TimesOfDay ==
    ASSUME NEW spec \in Specs
    PROVE  /\ TimeOfDay(spec) \in 0 .. Day - 1
           /\ spec.minute * SecondsPerMinute \in 0 .. Hour - 1
           /\ spec.minute \in 0 .. MinutesPerHour - 1
           /\ spec.hour \in 0 .. HoursPerDay - 1
<1>1. /\ spec.minute \in 0 .. MinutesPerHour - 1
      /\ spec.hour \in 0 .. HoursPerDay - 1
  BY Calendar DEF Specs
<1>2. spec.minute * SecondsPerMinute + 0 \in 0 .. Hour - 1
  <2>1. 0 \in 0 .. SecondsPerMinute - 1 /\ 0 \in Nat
    BY Calendar
  <2>2. HandsAgree(0, SecondsPerMinute, MinutesPerHour, spec.minute, 0)
    BY <1>1, <2>1, Calendar, Hands
  <2> QED BY <2>2 DEF HandsAgree, Hour
<1>3. spec.minute * SecondsPerMinute \in 0 .. Hour - 1
  <2>1. spec.minute * SecondsPerMinute \in Nat
    BY <1>1, Calendar, Steps
  <2> QED BY <1>2, <2>1
<1> DEFINE y == spec.minute * SecondsPerMinute
<1> HIDE DEF y
<1>4. spec.hour * Hour + y \in 0 .. Day - 1
  <2>1. y \in 0 .. Hour - 1
    BY <1>3 DEF y
  <2>2. HandsAgree(0, Hour, HoursPerDay, spec.hour, y)
    BY <1>1, <2>1, Calendar, Hands
  <2> QED BY <2>2 DEF HandsAgree, Day
<1> QED BY <1>1, <1>3, <1>4 DEF TimeOfDay, y

\* An hourly schedule is due at one moment of every hour, the others at most once a day.
LEMMA DueEveryHour ==
    ASSUME NEW spec \in Specs, NEW t \in Nat
    PROVE  /\ t % SecondsPerMinute = 0
           /\ (t % Hour) \div SecondsPerMinute = spec.minute
           <=> t % Hour = spec.minute * SecondsPerMinute
<1>1. 0 \in 0 .. SecondsPerMinute - 1 /\ Hour = MinutesPerHour * SecondsPerMinute
  BY Calendar DEF Hour
<1>2. t % Hour = spec.minute * SecondsPerMinute + 0
      <=> t % SecondsPerMinute = 0 /\ (t % Hour) \div SecondsPerMinute = spec.minute
  <2> DEFINE x == spec.minute
             b == SecondsPerMinute
             p == Hour
  <2>1. b \in Nat \ {0} /\ p \in Nat \ {0} /\ x \in 0 .. MinutesPerHour - 1 /\ MinutesPerHour \in Nat \ {0}
    BY Calendar, TimesOfDay
  <2>2. p = MinutesPerHour * b /\ 0 \in 0 .. b - 1
    BY <1>1
  <2> HIDE DEF x, b, p
  <2>3. HandsAgree(t, b, MinutesPerHour, x, 0)
    BY <2>1, <2>2, Hands
  <2> QED BY <2>2, <2>3 DEF x, b, p, HandsAgree
<1>3. spec.minute * SecondsPerMinute + 0 = spec.minute * SecondsPerMinute
  BY TimesOfDay, Calendar
<1> QED BY <1>2, <1>3

LEMMA DueOnDays ==
    ASSUME NEW spec \in Specs, NEW t \in Nat, spec.frequency # "hourly"
    PROVE  IsDue(spec, t) <=> t % Day = TimeOfDay(spec) /\ DayFits(spec, t)
<1> DEFINE y == spec.minute * SecondsPerMinute
<1>1. y \in 0 .. Hour - 1
  BY TimesOfDay
<1>2. t % SecondsPerMinute = 0 /\ (t % Hour) \div SecondsPerMinute = spec.minute <=> t % Hour = y
  BY DueEveryHour
<1> HIDE DEF y
<1>3. t % Day = spec.hour * Hour + y <=> t % Hour = y /\ (t % Day) \div Hour = spec.hour
  <2> DEFINE x == spec.hour
             b == Hour
             p == Day
  <2>1. /\ b \in Nat \ {0} /\ p \in Nat \ {0} /\ x \in 0 .. HoursPerDay - 1 /\ HoursPerDay \in Nat \ {0}
        /\ p = HoursPerDay * b /\ y \in 0 .. b - 1
    BY <1>1, TimesOfDay, Calendar DEF Day
  <2> HIDE DEF x, b, p
  <2>3. HandsAgree(t, b, HoursPerDay, x, y)
    BY <2>1, Hands
  <2> QED BY <2>1, <2>3 DEF x, b, p, HandsAgree
<1> QED BY <1>2, <1>3 DEF IsDue, TimeOfDay, y

LEMMA DueHourly ==
    ASSUME NEW spec \in Specs, NEW t \in Nat, spec.frequency = "hourly"
    PROVE  IsDue(spec, t) <=> t % Hour = spec.minute * SecondsPerMinute
BY DueEveryHour DEF IsDue, DayFits

\* Between a moment of a period and the same one of the next there is no other.
LEMMA OncePerPeriod ==
    ASSUME NEW p \in Nat \ {0}, NEW r \in Nat, NEW a \in Nat, NEW b \in Nat
    PROVE  /\ a < b => a * p + r + p =< b * p + r
           /\ b * p + r > a * p + r => a < b
<1>1. a * p \in Nat /\ b * p \in Nat
  BY Steps
<1>2. a < b => a * p + p =< b * p
  BY Steps
<1>3. b < a => b * p + p =< a * p
  BY Steps
<1> QED BY <1>1, <1>2, <1>3

-----------------------------------------------------------------------------
(* next_run, by frequency.                                                  *)

\* NextHourly, NextDaily, NextWeekly and NextMonthly find the first due time.
LEMMA HourlyIsFirst ==
    ASSUME NEW spec \in Specs, NEW after \in Nat, spec.frequency = "hourly"
    PROVE  NextHourly(spec, after) \in Nat /\ FirstDueAfter(spec, after, NextHourly(spec, after))
<1> DEFINE y == spec.minute * SecondsPerMinute
           h == after \div Hour
           c == h * Hour + y
           t == NextHourly(spec, after)
<1>1. /\ y \in 0 .. Hour - 1 /\ h \in Nat /\ Hour \in Nat \ {0} /\ h * Hour \in Nat /\ c \in Nat
      /\ h * Hour =< after /\ after < h * Hour + Hour
  <2>1. y \in 0 .. Hour - 1 /\ Hour \in Nat \ {0}
    BY TimesOfDay, Calendar
  <2> HIDE DEF y
  <2>2. h \in Nat /\ after % Hour \in 0 .. Hour - 1 /\ after = h * Hour + (after % Hour)
    BY <2>1, Divided
  <2> HIDE DEF h
  <2>3. h * Hour \in Nat
    BY <2>1, <2>2, Steps
  <2> QED BY <2>1, <2>2, <2>3
<1>2. PICK k \in {h, h + 1} : t = k * Hour + y /\ t > after /\ (k = h \/ h * Hour + y =< after)
  <2>1. t = IF c =< after THEN c + Hour ELSE c
    BY DEF NextHourly
  <2>2. (h + 1) * Hour + y = c + Hour
    <3> HIDE DEF h, y
    <3> QED BY <1>1
  <2>3. CASE c =< after
    <3>1. t = (h + 1) * Hour + y
      BY <2>1, <2>2, <2>3
    <3>2. t > after
      <4> HIDE DEF h, y
      <4> QED BY <1>1, <2>1, <2>3
    <3> QED BY <2>3, <3>1, <3>2
  <2>4. CASE ~(c =< after)
    <3>1. t = c
      BY <2>1, <2>4
    <3>2. t > after
      <4> HIDE DEF c
      <4> QED BY <1>1, <2>4, <3>1
    <3> QED BY <3>1, <3>2
  <2> QED BY <2>3, <2>4
<1> HIDE DEF h, y, t
<1>3. k \in Nat /\ k * Hour \in Nat /\ t \in Nat /\ t % Hour = y
  <2>1. k \in Nat
    BY <1>1, <1>2
  <2>2. k * Hour \in Nat
    BY <1>1, <2>1, Steps
  <2>3. (k * Hour + y) % Hour = y
    BY <1>1, <2>1, DividedOnce
  <2> QED BY <1>1, <1>2, <2>1, <2>2, <2>3
<1>4. ASSUME NEW u \in after + 1 .. t - 1, u % Hour = y PROVE FALSE
  <2> DEFINE j == u \div Hour
  <2>1. u \in Nat /\ u > after /\ u < t
    BY <1>3
  <2>2. j \in Nat /\ u = j * Hour + y
    BY <1>1, <1>4, <2>1, Divided
  <2> HIDE DEF j
  <2>3. j * Hour \in Nat
    BY <1>1, <2>2, Steps
  <2>4. j < k
    BY <1>1, <1>2, <1>3, <2>1, <2>2, OncePerPeriod
  <2>5. CASE k = h
    <3>1. j * Hour + y + Hour =< h * Hour + y
      BY <1>1, <2>2, <2>4, <2>5, OncePerPeriod
    <3> QED BY <1>1, <2>1, <2>2, <2>3, <3>1
  <2>6. CASE k # h
    <3>1. h * Hour + y < j * Hour + y
      BY <1>1, <1>2, <2>1, <2>2, <2>3, <2>6
    <3>2. h < j
      BY <1>1, <2>2, <3>1, OncePerPeriod
    <3> QED BY <1>1, <1>2, <2>2, <2>4, <2>6, <3>2
  <2> QED BY <2>5, <2>6
<1>5. \A u \in after + 1 .. t - 1 : ~IsDue(spec, u)
  <2> SUFFICES ASSUME NEW u \in after + 1 .. t - 1, IsDue(spec, u) PROVE FALSE
    OBVIOUS
  <2>1. u \in Nat
    BY <1>3
  <2> QED BY <1>4, <2>1, DueHourly DEF y
<1> QED BY <1>2, <1>3, <1>5, DueHourly DEF FirstDueAfter, t, y

\* The moment of a schedule on a day.
At(spec, day) == day * Day + TimeOfDay(spec)
FitsDay(spec, day) ==
    CASE spec.frequency = "weekly"  -> day % DaysPerWeek = spec.weekday
      [] spec.frequency = "monthly" -> day + 1 = FirstDay[MonthOf(day)] + spec.day_of_month
      [] OTHER -> TRUE

LEMMA AtDays ==
    ASSUME NEW spec \in Specs
    PROVE  /\ \A day \in Nat : /\ At(spec, day) \in Nat /\ DayOf(At(spec, day)) = day
                               /\ At(spec, day) % Day = TimeOfDay(spec)
           /\ \A t \in Nat : t % Day = TimeOfDay(spec) => t = At(spec, DayOf(t))
           /\ \A t \in Nat : DayOf(t) \in Nat
<1> DEFINE y == TimeOfDay(spec)
<1>1. y \in 0 .. Day - 1 /\ Day \in Nat \ {0} /\ y \in Nat
  BY TimesOfDay, Calendar
<1> HIDE DEF y
<1>2. ASSUME NEW day \in Nat
      PROVE  day * Day + y \in Nat /\ (day * Day + y) \div Day = day /\ (day * Day + y) % Day = y
  <2>1. day * Day \in Nat
    BY <1>1, Steps
  <2> QED BY <1>1, <2>1, DividedOnce
<1>3. ASSUME NEW t \in Nat PROVE t \div Day \in Nat /\ (t % Day = y => t = (t \div Day) * Day + y)
  BY <1>1, Divided
<1> QED BY <1>2, <1>3 DEF At, DayOf, y

LEMMA AtInOrder ==
    ASSUME NEW spec \in Specs, NEW i \in Nat, NEW j \in Nat
    PROVE  /\ i < j => At(spec, i) + Day =< At(spec, j)
           /\ At(spec, i) < At(spec, j) => i < j
<1> DEFINE y == TimeOfDay(spec)
<1>1. Day \in Nat \ {0} /\ y \in Nat
  BY TimesOfDay, Calendar
<1> HIDE DEF y
<1>2. /\ i < j => i * Day + y + Day =< j * Day + y
      /\ j * Day + y > i * Day + y => i < j
  BY <1>1, OncePerPeriod
<1>3. i * Day + y \in Nat /\ j * Day + y \in Nat
  BY <1>1, Steps
<1> QED BY <1>2, <1>3 DEF At, y

\* ... and how the days before and after today lie to the moment `after`.
LEMMA AtAround ==
    ASSUME NEW spec \in Specs, NEW after \in Nat, NEW day \in Nat
    PROVE  /\ day < DayOf(after) => At(spec, day) =< after
           /\ day > DayOf(after) => At(spec, day) > after
<1> DEFINE y == TimeOfDay(spec)
           d == after \div Day
<1>1. y \in 0 .. Day - 1 /\ Day \in Nat \ {0} /\ y \in Nat
  BY TimesOfDay, Calendar
<1>2. d \in Nat /\ after % Day \in 0 .. Day - 1 /\ after = d * Day + (after % Day)
  BY <1>1, Divided
<1> HIDE DEF y, d
<1>3. d * Day \in Nat /\ day * Day \in Nat
  BY <1>1, <1>2, Steps
<1>4. day < d => day * Day + Day =< d * Day
  BY <1>1, <1>2, Steps
<1>5. d < day => d * Day + Day =< day * Day
  BY <1>1, <1>2, Steps
<1>6. day < d => day * Day + y =< after
  BY <1>1, <1>2, <1>3, <1>4
<1>7. d < day => day * Day + y > after
  BY <1>1, <1>2, <1>3, <1>5
<1> QED BY <1>2, <1>6, <1>7 DEF At, DayOf, y, d

\* What makes a moment the next one of a schedule that is not hourly.
LEMMA FirstOnDays ==
    ASSUME NEW spec \in Specs, NEW after \in Nat, spec.frequency # "hourly", NEW day \in Nat,
           At(spec, day) > after, FitsDay(spec, day),
           \A j \in Nat : j < day /\ At(spec, j) > after => ~FitsDay(spec, j)
    PROVE  At(spec, day) \in Nat /\ FirstDueAfter(spec, after, At(spec, day))
<1>1. \A t \in Nat : DayFits(spec, t) <=> FitsDay(spec, DayOf(t))
  BY DEF DayFits, FitsDay, WeekdayOf
<1> DEFINE t == At(spec, day)
<1>2. t \in Nat /\ DayOf(t) = day /\ t % Day = TimeOfDay(spec)
  BY AtDays
<1>3. IsDue(spec, t)
  BY <1>1, <1>2, DueOnDays
<1>4. ASSUME NEW u \in after + 1 .. t - 1, IsDue(spec, u) PROVE FALSE
  <2>1. u \in Nat /\ u > after /\ u < t
    BY <1>2
  <2>2. u = At(spec, DayOf(u)) /\ DayOf(u) \in Nat /\ FitsDay(spec, DayOf(u))
    BY <1>1, <1>4, <2>1, AtDays, DueOnDays
  <2>3. DayOf(u) < day
    BY <2>1, <2>2, AtInOrder
  <2> QED BY <2>1, <2>2, <2>3
<1> QED BY <1>2, <1>3, <1>4 DEF FirstDueAfter

LEMMA DailyIsFirst ==
    ASSUME NEW spec \in Specs, NEW after \in Nat, spec.frequency = "daily"
    PROVE  NextDaily(spec, after) \in Nat /\ FirstDueAfter(spec, after, NextDaily(spec, after))
<1> DEFINE d == DayOf(after)
<1>1. d \in Nat /\ Day \in Nat \ {0}
  BY AtDays, Calendar
<1> HIDE DEF d
<1>2. \A j \in Nat : FitsDay(spec, j)
  BY DEF FitsDay
<1>3. ASSUME NEW j \in Nat, At(spec, j) > after PROVE j >= d
  <2>1. At(spec, j) \in Nat
    BY AtDays
  <2>2. j < d => At(spec, j) =< after
    BY AtAround DEF d
  <2> QED BY <1>1, <1>3, <2>1, <2>2
<1>4. CASE At(spec, d) =< after
  <2>1. At(spec, d + 1) > after
    BY <1>1, AtAround DEF d
  <2>2. \A j \in Nat : At(spec, j) > after => ~(j < d + 1)
    BY <1>1, <1>3, <1>4, AtDays
  <2>3. FirstDueAfter(spec, after, At(spec, d + 1)) /\ At(spec, d + 1) \in Nat
    BY <1>1, <1>2, <2>1, <2>2, FirstOnDays
  <2>4. NextDaily(spec, after) = At(spec, d) + Day
    BY <1>4 DEF NextDaily, At, d
  <2>5. At(spec, d) + Day = At(spec, d + 1)
    <3>1. TimeOfDay(spec) \in Nat /\ d * Day \in Nat
      BY <1>1, TimesOfDay, Calendar
    <3>2. (d + 1) * Day = d * Day + Day
      BY <1>1
    <3> HIDE <1>4
    <3> QED BY <1>1, <3>1, <3>2 DEF At
  <2> QED BY <2>3, <2>4, <2>5
<1>5. CASE ~(At(spec, d) =< after)
  <2>1. At(spec, d) > after
    BY <1>1, <1>5, AtDays
  <2>2. \A j \in Nat : At(spec, j) > after => ~(j < d)
    BY <1>1, <1>3
  <2>3. FirstDueAfter(spec, after, At(spec, d)) /\ At(spec, d) \in Nat
    BY <1>1, <1>2, <2>1, <2>2, FirstOnDays
  <2>4. NextDaily(spec, after) = At(spec, d)
    BY <1>5 DEF NextDaily, At, d
  <2> QED BY <2>3, <2>4
<1> QED BY <1>4, <1>5

\* At moves by whole days.
LEMMA AtLater ==
    ASSUME NEW spec \in Specs, NEW day \in Nat, NEW k \in Nat
    PROVE  At(spec, day) + Day * k = At(spec, day + k)
<1> DEFINE y == TimeOfDay(spec)
<1>1. Day \in Nat \ {0} /\ y \in Nat
  BY TimesOfDay, Calendar
<1> HIDE DEF y
<1>2. (day + k) * Day = day * Day + Day * k
  BY <1>1
<1>3. day * Day \in Nat /\ Day * k \in Nat /\ (day + k) * Day \in Nat
  BY <1>1
<1> QED BY <1>1, <1>2, <1>3 DEF At, y

LEMMA WeeklyIsFirst ==
    ASSUME NEW spec \in Specs, NEW after \in Nat, spec.frequency = "weekly"
    PROVE  NextWeekly(spec, after) \in Nat /\ FirstDueAfter(spec, after, NextWeekly(spec, after))
<1> DEFINE d == DayOf(after)
           w == d % DaysPerWeek
           q == d \div DaysPerWeek
           x == spec.weekday
           m == x + DaysPerWeek - w
           delta == m % DaysPerWeek
<1>1. d \in Nat /\ Day \in Nat \ {0} /\ DaysPerWeek \in Nat \ {0} /\ x \in 0 .. DaysPerWeek - 1
  BY AtDays, Calendar DEF Specs
<1> HIDE DEF d, x
<1>2. w \in 0 .. DaysPerWeek - 1 /\ q \in Nat /\ d = q * DaysPerWeek + w
  BY <1>1, Divided
<1> HIDE DEF w, q
<1>3. m \in Nat /\ delta \in 0 .. DaysPerWeek - 1
  <2>1. m \in Nat
    BY <1>1, <1>2
  <2> HIDE DEF m
  <2> QED BY <1>1, <2>1, Divided
<1>4. \E n \in Nat : d + delta = n * DaysPerWeek + x
  <2>1. CASE x < w
    <3>1. m = 0 * DaysPerWeek + m /\ m \in 0 .. DaysPerWeek - 1
      BY <1>1, <1>2, <2>1
    <3>2. delta = m
      <4> HIDE DEF m
      <4> QED BY <1>1, <3>1, DividedOnce
    <3>3. d + delta = q * DaysPerWeek + DaysPerWeek + x
      <4>1. q * DaysPerWeek \in Nat
        BY <1>1, <1>2
      <4> HIDE DEF delta
      <4> QED BY <1>1, <1>2, <3>2, <4>1
    <3>4. q * DaysPerWeek + DaysPerWeek = (q + 1) * DaysPerWeek
      BY <1>1, <1>2
    <3> QED BY <1>2, <3>3, <3>4
  <2>2. CASE ~(x < w)
    <3>1. m = 1 * DaysPerWeek + (x - w) /\ x - w \in 0 .. DaysPerWeek - 1
      BY <1>1, <1>2, <2>2
    <3>2. delta = x - w
      <4> HIDE DEF m
      <4> QED BY <1>1, <3>1, DividedOnce
    <3>3. d + delta = q * DaysPerWeek + x
      <4>1. q * DaysPerWeek \in Nat
        BY <1>1, <1>2
      <4> HIDE DEF delta
      <4> QED BY <1>1, <1>2, <3>2, <4>1
    <3> QED BY <1>2, <3>3
  <2> QED BY <2>1, <2>2
<1> HIDE DEF m, delta
<1>5. PICK n \in Nat : d + delta = n * DaysPerWeek + x
  BY <1>4
<1>6. \A j \in Nat : FitsDay(spec, j) <=> j % DaysPerWeek = x
  BY DEF FitsDay, x
\* Between two days of the weekday there is a week.
<1>7. ASSUME NEW j \in Nat, NEW k \in Nat, FitsDay(spec, j), FitsDay(spec, k), j < k
      PROVE  j + DaysPerWeek =< k
  <2>0. j % DaysPerWeek = x /\ k % DaysPerWeek = x
    BY <1>6, <1>7
  <2>1. PICK a \in Nat : j = a * DaysPerWeek + x
    <3>1. j \div DaysPerWeek \in Nat /\ j = (j \div DaysPerWeek) * DaysPerWeek + (j % DaysPerWeek)
      BY <1>1, Divided
    <3> QED BY <2>0, <3>1
  <2>2. PICK b \in Nat : k = b * DaysPerWeek + x
    <3>1. k \div DaysPerWeek \in Nat /\ k = (k \div DaysPerWeek) * DaysPerWeek + (k % DaysPerWeek)
      BY <1>1, Divided
    <3> QED BY <2>0, <3>1
  <2>3. x \in Nat
    BY <1>1
  <2>4. a < b
    BY <1>1, <1>7, <2>1, <2>2, <2>3, OncePerPeriod
  <2>5. a * DaysPerWeek + x + DaysPerWeek =< b * DaysPerWeek + x
    BY <1>1, <2>3, <2>4, OncePerPeriod
  <2> QED BY <2>1, <2>2, <2>5
<1>8. FitsDay(spec, d + delta) /\ FitsDay(spec, d + delta + DaysPerWeek)
  <2>1. (d + delta) % DaysPerWeek = x
    <3>1. (n * DaysPerWeek + x) % DaysPerWeek = x
      BY <1>1, DividedOnce
    <3> QED BY <1>5, <3>1
  <2>2. (d + delta + DaysPerWeek) % DaysPerWeek = x
    <3>1. ((n + 1) * DaysPerWeek + x) % DaysPerWeek = x
      BY <1>1, DividedOnce
    <3>2. (n + 1) * DaysPerWeek = n * DaysPerWeek + DaysPerWeek
      BY <1>1
    <3>3. n * DaysPerWeek \in Nat
      BY <1>1
    <3>4. d + delta + DaysPerWeek = (n + 1) * DaysPerWeek + x
      BY <1>1, <1>5, <3>2, <3>3
    <3> QED BY <3>1, <3>4
  <2>3. d + delta \in Nat /\ d + delta + DaysPerWeek \in Nat
    BY <1>1, <1>3
  <2> QED BY <1>6, <2>1, <2>2, <2>3
<1>9. ASSUME NEW j \in Nat, At(spec, j) > after PROVE j >= d
  <2>1. At(spec, j) \in Nat
    BY AtDays
  <2>2. j < d => At(spec, j) =< after
    BY AtAround DEF d
  <2> QED BY <1>1, <1>9, <2>1, <2>2
<1>10. NextWeekly(spec, after) = IF At(spec, d + delta) =< after
                                 THEN At(spec, d + delta + DaysPerWeek) ELSE At(spec, d + delta)
  <2>1. DayOf(At(spec, d)) = d
    BY <1>1, AtDays
  <2>2. At(spec, d) + Day * delta = At(spec, d + delta)
    BY <1>1, <1>3, AtLater
  <2>3. At(spec, d + delta) + DaysPerWeek * Day = At(spec, d + delta + DaysPerWeek)
    <3>1. At(spec, d + delta) + Day * DaysPerWeek = At(spec, d + delta + DaysPerWeek)
      <4>1. d + delta \in Nat /\ DaysPerWeek \in Nat
        BY <1>1, <1>3
      <4> QED BY <4>1, AtLater
    <3>2. DaysPerWeek * Day = Day * DaysPerWeek
      BY <1>1
    <3> QED BY <3>1, <3>2
  <2>4. d * Day + TimeOfDay(spec) = At(spec, d)
    BY DEF At
  <2>5. DayOf(after) = d /\ delta = (spec.weekday + DaysPerWeek - (d % DaysPerWeek)) % DaysPerWeek
    BY DEF d, delta, m, x, w
  <2> QED BY ONLY <2>1, <2>2, <2>3, <2>4, <2>5 DEF NextWeekly, WeekdayOf
<1>11. CASE At(spec, d + delta) =< after
  <2>1. delta = 0
    <3>1. ~(d + delta > d)
      <4>1. d + delta \in Nat /\ At(spec, d + delta) \in Nat
        BY <1>1, <1>3, AtDays
      <4>2. d + delta > d => At(spec, d + delta) > after
        BY <4>1, AtAround DEF d
      <4> QED BY <1>11, <4>1, <4>2
    <3> QED BY <1>1, <1>3, <3>1
  <2>2. At(spec, d + delta + DaysPerWeek) > after
    BY <1>1, <1>3, AtAround DEF d
  <2>3. \A j \in Nat : j < d + delta + DaysPerWeek /\ At(spec, j) > after => ~FitsDay(spec, j)
    <3> SUFFICES ASSUME NEW j \in Nat, j < d + delta + DaysPerWeek, At(spec, j) > after, FitsDay(spec, j)
                 PROVE  FALSE
      OBVIOUS
    <3>1. j > d
      <4>1. d + delta = d /\ At(spec, j) \in Nat /\ At(spec, d) \in Nat
        BY <1>1, <2>1, AtDays
      <4>2. j # d
        BY <1>11, <4>1
      <4> QED BY <1>1, <1>9, <4>2
    <3>2. d + DaysPerWeek =< j
      BY <1>1, <1>7, <1>8, <2>1, <3>1
    <3> QED BY <1>1, <2>1, <3>2
  <2>4. d + delta + DaysPerWeek \in Nat
    BY <1>1, <1>3
  <2> QED BY <1>8, <1>10, <1>11, <2>2, <2>3, <2>4, FirstOnDays
<1>12. CASE ~(At(spec, d + delta) =< after)
  <2>1. d + delta \in Nat
    BY <1>1, <1>3
  <2>2. At(spec, d + delta) > after
    BY <1>12, <2>1, AtDays
  <2>3. \A j \in Nat : j < d + delta /\ At(spec, j) > after => ~FitsDay(spec, j)
    <3> SUFFICES ASSUME NEW j \in Nat, j < d + delta, At(spec, j) > after, FitsDay(spec, j)
                 PROVE  FALSE
      OBVIOUS
    <3>1. j + DaysPerWeek =< d + delta
      BY <1>7, <1>8, <2>1
    <3> QED BY <1>1, <1>3, <1>9, <3>1
  <2> QED BY <1>8, <1>10, <1>12, <2>1, <2>2, <2>3, FirstOnDays
<1> QED BY <1>11, <1>12

\* A later month begins after every earlier one is over, so a day is in one month.
LEMMA MonthsInOrder == \A m, n \in Nat : m < n => FirstDay[m + 1] =< FirstDay[n]
<1> SUFFICES ASSUME NEW m \in Nat PROVE \A n \in Nat : m < n => FirstDay[m + 1] =< FirstDay[n]
  OBVIOUS
<1> DEFINE S == {n \in Nat : m < n => FirstDay[m + 1] =< FirstDay[n]}
<1>1. 0 \in S
  OBVIOUS
<1>2. ASSUME NEW n \in Nat, n \in S PROVE n + 1 \in S
  <2> SUFFICES ASSUME m < n + 1 PROVE FirstDay[m + 1] =< FirstDay[n + 1]
    OBVIOUS
  <2>1. /\ FirstDay[n] \in Nat /\ FirstDay[n + 1] \in Nat /\ FirstDay[n] < FirstDay[n + 1]
        /\ FirstDay[m + 1] \in Nat
    BY MonthsGrow
  <2>2. CASE m = n
    BY <2>1, <2>2
  <2>3. CASE m # n
    BY <1>2, <2>1, <2>3
  <2> QED BY <2>2, <2>3
<1> HIDE DEF S
<1>3. Nat \subseteq S
  BY <1>1, <1>2, Induction
<1> QED BY <1>3 DEF S

LEMMA OneMonth ==
    ASSUME NEW day \in Nat, NEW m \in Nat, FirstDay[m] =< day, day < FirstDay[m + 1]
    PROVE  MonthOf(day) = m
<1> DEFINE n == MonthOf(day)
<1>1. n \in Nat /\ FirstDay[n] =< day /\ day < FirstDay[n + 1]
  BY MonthOfDay
<1> HIDE DEF n
<1>2. FirstDay[n] \in Nat /\ FirstDay[m] \in Nat /\ FirstDay[n + 1] \in Nat /\ FirstDay[m + 1] \in Nat
  BY <1>1, MonthsGrow
<1>3. ~(n < m)
  BY <1>1, <1>2, MonthsInOrder
<1>4. ~(m < n)
  BY <1>1, <1>2, MonthsInOrder
<1>5. n = m
  BY <1>1, <1>3, <1>4
<1> QED BY <1>5 DEF n

\* The day of a monthly schedule is in every month.
DayIn(spec, month) == FirstDay[month] + spec.day_of_month - 1

LEMMA DaysOfMonths ==
    ASSUME NEW spec \in Specs, spec.frequency = "monthly", NEW m \in Nat
    PROVE  /\ DayIn(spec, m) \in Nat /\ FirstDay[m] =< DayIn(spec, m)
           /\ DayIn(spec, m) < FirstDay[m + 1]
           /\ MonthOf(DayIn(spec, m)) = m
           /\ FitsDay(spec, DayIn(spec, m))
<1>1. spec.day_of_month \in 1 .. LastDay
  BY DEF Specs
<1>2. FirstDay[m] \in Nat /\ FirstDay[m + 1] \in Nat /\ FirstDay[m + 1] = FirstDay[m] + MonthBefore[m + 1]
  BY FirstDays
<1>3. MonthBefore[m + 1] \in Nat /\ LastDay =< MonthBefore[m + 1]
  BY MonthDays
<1>4. /\ DayIn(spec, m) \in Nat /\ FirstDay[m] =< DayIn(spec, m)
      /\ DayIn(spec, m) < FirstDay[m + 1]
  BY <1>1, <1>2, <1>3, Calendar DEF DayIn
<1>5. MonthOf(DayIn(spec, m)) = m
  BY <1>4, OneMonth
<1>6. DayIn(spec, m) + 1 = FirstDay[m] + spec.day_of_month
  BY <1>1, <1>2, Calendar DEF DayIn
<1> QED BY <1>4, <1>5, <1>6 DEF FitsDay

LEMMA MonthlyIsFirst ==
    ASSUME NEW spec \in Specs, NEW after \in Nat, spec.frequency = "monthly"
    PROVE  NextMonthly(spec, after) \in Nat /\ FirstDueAfter(spec, after, NextMonthly(spec, after))
<1> DEFINE d == DayOf(after)
           m == MonthOf(d)
           D(n) == DayIn(spec, n)
<1>1. d \in Nat
  BY AtDays
<1> HIDE DEF d
<1>2. m \in Nat /\ FirstDay[m] =< d /\ d < FirstDay[m + 1]
  BY <1>1, MonthOfDay
<1> HIDE DEF m
<1>3. NextMonthly(spec, after) = IF At(spec, D(m)) =< after THEN At(spec, D(m + 1)) ELSE At(spec, D(m))
  BY DEF NextMonthly, At, DayIn, m, d
\* The days that fit are those of the months.
<1>4. ASSUME NEW j \in Nat, FitsDay(spec, j)
      PROVE  MonthOf(j) \in Nat /\ j = D(MonthOf(j))
  <2>1. MonthOf(j) \in Nat
    BY MonthOfDay
  <2>2. spec.day_of_month \in Nat /\ FirstDay[MonthOf(j)] \in Nat
    BY <2>1, FirstDays, Calendar DEF Specs
  <2>3. j + 1 = FirstDay[MonthOf(j)] + spec.day_of_month
    BY <1>4 DEF FitsDay
  <2> QED BY <2>1, <2>2, <2>3 DEF DayIn
<1>5. ASSUME NEW k \in Nat, NEW n \in Nat, D(k) < D(n) PROVE k < n
  <2>1. CASE n < k
    <3>1. FirstDay[n + 1] =< FirstDay[k] /\ FirstDay[n + 1] \in Nat /\ FirstDay[k] \in Nat
      BY <2>1, MonthsInOrder, FirstDays
    <3> QED BY <1>5, <3>1, DaysOfMonths
  <2>2. CASE n = k
    BY <1>5, <2>2, DaysOfMonths
  <2> QED BY <2>1, <2>2
<1>6. ASSUME NEW j \in Nat, FitsDay(spec, j), At(spec, j) > after PROVE MonthOf(j) >= m
  <2>1. j >= d
    <3>1. At(spec, j) \in Nat
      BY AtDays
    <3>2. j < d => At(spec, j) =< after
      BY AtAround DEF d
    <3> QED BY <1>1, <1>6, <3>1, <3>2
  <2>2. MonthOf(j) \in Nat /\ j < FirstDay[MonthOf(j) + 1]
    BY MonthOfDay
  <2>3. FirstDay[m] =< j /\ FirstDay[m] \in Nat /\ FirstDay[MonthOf(j) + 1] \in Nat
    BY <1>1, <1>2, <2>1, <2>2, FirstDays
  <2>4. ~(MonthOf(j) < m)
    <3> SUFFICES ASSUME MonthOf(j) < m PROVE FALSE
      OBVIOUS
    <3>1. FirstDay[MonthOf(j) + 1] =< FirstDay[m]
      BY <1>2, <2>2, MonthsInOrder
    <3> QED BY <2>2, <2>3, <3>1
  <2> QED BY <1>2, <2>2, <2>4
<1>7. D(m) \in Nat /\ D(m + 1) \in Nat /\ FitsDay(spec, D(m)) /\ FitsDay(spec, D(m + 1))
      /\ D(m + 1) > d
  <2>1. FirstDay[m + 1] =< D(m + 1) /\ FirstDay[m + 1] \in Nat
    BY <1>2, DaysOfMonths, FirstDays
  <2> QED BY <1>1, <1>2, <2>1, DaysOfMonths
<1>8. CASE At(spec, D(m)) =< after
  <2>1. At(spec, D(m + 1)) > after
    BY <1>7, AtAround DEF d
  <2>2. ASSUME NEW j \in Nat, j < D(m + 1), At(spec, j) > after, FitsDay(spec, j) PROVE FALSE
    <3>1. PICK k \in Nat : k = MonthOf(j) /\ j = D(k) /\ k >= m
      BY <1>4, <1>6, <2>2
    <3>2. k # m
      <4>1. At(spec, j) \in Nat /\ At(spec, D(m)) \in Nat
        BY <1>7, AtDays
      <4> QED BY <1>8, <2>2, <3>1, <4>1
    <3>3. k < m + 1
      BY <1>2, <1>5, <2>2, <3>1
    <3> QED BY <1>2, <3>1, <3>2, <3>3
  <2> HIDE DEF D
  <2>3. FirstDueAfter(spec, after, At(spec, D(m + 1))) /\ At(spec, D(m + 1)) \in Nat
    BY <1>7, <2>1, <2>2, FirstOnDays
  <2> QED BY <1>3, <1>8, <2>3
<1>9. CASE ~(At(spec, D(m)) =< after)
  <2>1. At(spec, D(m)) > after
    BY <1>7, <1>9, AtDays
  <2>2. ASSUME NEW j \in Nat, j < D(m), At(spec, j) > after, FitsDay(spec, j) PROVE FALSE
    <3>1. PICK k \in Nat : k = MonthOf(j) /\ j = D(k) /\ k >= m
      BY <1>4, <1>6, <2>2
    <3>2. k < m
      BY <1>2, <1>5, <2>2, <3>1
    <3> QED BY <1>2, <3>1, <3>2
  <2> HIDE DEF D
  <2>3. FirstDueAfter(spec, after, At(spec, D(m))) /\ At(spec, D(m)) \in Nat
    BY <1>7, <2>1, <2>2, FirstOnDays
  <2> QED BY <1>3, <1>9, <2>3
<1> QED BY <1>8, <1>9

\* Whatever the frequency, the time next_run computes is the first one after the given
\* moment at which the fields of the schedule hold.
THEOREM NextRunIsFirst ==
    ASSUME NEW spec \in Specs, NEW after \in Nat
    PROVE  NextRun(spec, after) \in Nat /\ FirstDueAfter(spec, after, NextRun(spec, after))
<1>1. spec.frequency \in {"hourly", "daily", "weekly", "monthly"}
  BY DEF Specs
<1>2. CASE spec.frequency = "hourly"
  <2>1. NextRun(spec, after) = NextHourly(spec, after)
    BY <1>2 DEF NextRun
  <2> QED BY <1>2, <2>1, HourlyIsFirst
<1>3. CASE spec.frequency = "daily"
  <2>1. NextRun(spec, after) = NextDaily(spec, after)
    BY <1>3 DEF NextRun
  <2> QED BY <1>3, <2>1, DailyIsFirst
<1>4. CASE spec.frequency = "weekly"
  <2>1. NextRun(spec, after) = NextWeekly(spec, after)
    BY <1>4 DEF NextRun
  <2> QED BY <1>4, <2>1, WeeklyIsFirst
<1>5. CASE spec.frequency = "monthly"
  <2>1. NextRun(spec, after) = NextMonthly(spec, after)
    BY <1>5 DEF NextRun
  <2> QED BY <1>5, <2>1, MonthlyIsFirst
<1> QED BY <1>1, <1>2, <1>3, <1>4, <1>5

-----------------------------------------------------------------------------
(* The inductive invariant.                                                 *)

\* Where a process is: before the creation of a job, in it (or after its failure), or with a
\* job that is stored and not recorded.
Resting    == {"idle", "claiming", "found", "claimed"}
Creating   == {"creating", "admitted"}
Making     == Creating \cup {"failed"}
Unrecorded == {"queueing", "recording"}
Places    == {"idle", "claiming", "found", "claimed", "creating", "admitted", "queueing",
              "recording", "failed"}

Egresses == {"free", "confirmed", "refused"}
Asked == Requests \cup {Nothing} \cup {[q EXCEPT !.raw = raw] : q \in Requests, raw \in Egresses}
Pools == {NoOne} \cup {Route(q.src, q.dst, c, size) :
                           q \in Asked, c \in Configs, size \in {"unknown", "small", "large"}}
Fees  == {NoFee} \cup {Assess(q.src, q.dst, Runner(pool, c)) :
                           q \in Asked, pool \in Pools, c \in Configs}
Owners == Schedules \cup {NoOne}

Works == [schedule : Owners, at : Nat, due : Nat, request : Asked, egress : Egresses,
          overwrite : BOOLEAN, job : Nat, last : Nat]
Rows  == [state : {"new", "flushed", "stored", "deleted"}, valid : BOOLEAN, enabled : BOOLEAN,
          spec : Specs \cup {NoSpec}, next : Nat, lastJob : Nat,
          request : Requests \cup {Nothing}, egress : Egresses]
Jobs  == [state : {"PROGRESS", "FAILED", "SUCCESS"}, schedule : Owners, due : Nat,
          request : Asked, egress : Egresses, overwrite : BOOLEAN, pool : Pools, fee : Fees]

ScheduleTypeOK ==
    /\ now \in Nat /\ crashes \in Nat /\ cfg \in Configs
    /\ row \in [Schedules -> Rows]
    /\ jobs \in Seq(Jobs)
    /\ pc \in [Processes -> Places] /\ work \in [Processes -> Works]
    /\ untracked \subseteq Schedules

\* A process that does nothing holds nothing; a runner at work has a schedule that is stored,
\* or was; the owner's request has one that only it sees until the first job is stored.
RunnerHolds(r) ==
    /\ pc[r] = "idle" => work[r] = Idle
    /\ pc[r] = "claiming" => work[r].schedule = NoOne /\ work[r].job = 0
    /\ pc[r] \notin {"idle", "claiming"} =>
          work[r].schedule \in Schedules /\ row[work[r].schedule].state \in {"stored", "deleted"}
OwnerHolds ==
    /\ pc[Web] \in {"idle"} \cup Creating \cup Unrecorded
    /\ pc[Web] = "idle" => work[Web] = Idle
    /\ pc[Web] = "recording" => IsScheduled(Web)
    /\ pc[Web] \in Creating /\ IsScheduled(Web) => row[work[Web].schedule].state = "flushed"
    /\ pc[Web] \in Unrecorded /\ IsScheduled(Web) =>
          row[work[Web].schedule].state \in {"stored", "deleted"}
RowHolds(s) ==
    /\ row[s].state \in {"new", "flushed"} => \A j \in DOMAIN jobs : jobs[j].schedule # s
    /\ row[s].state = "flushed" => pc[Web] \in Creating /\ work[Web].schedule = s
    /\ row[s].state # "new" => row[s].spec \in Specs /\ row[s].request \in Requests
\* A process has no job until it stored one, and then that is one of its schedule.
JobHeld(p) ==
    /\ pc[p] \in {"found", "claimed"} \cup Creating => work[p].job = 0
    /\ pc[p] \in Unrecorded =>
          work[p].job \in DOMAIN jobs /\ jobs[work[p].job].schedule = work[p].schedule
    /\ pc[p] = "failed" /\ work[p].job # 0 => work[p].job \in DOMAIN jobs
HoldsInv ==
    /\ \A r \in Runners : RunnerHolds(r)
    /\ OwnerHolds
    /\ \A s \in Schedules : RowHolds(s)
    /\ \A p \in Processes : JobHeld(p)

\* The next time of a schedule is the first one after a moment that is past.
NextIsFirst(s) ==
    row[s].state # "new" => \E t \in 0 .. now : FirstDueAfter(row[s].spec, t, row[s].next)

\* What is claimed is due, and what runs or has run was due before the next time.
RunnerDues(r) ==
    /\ work[r].at =< now
    /\ pc[r] = "found" => work[r].due =< work[r].at
    /\ \A s \in Schedules : WorksOn(r, s) => work[r].due < row[s].next
JobDues(j) == jobs[j].schedule \in Schedules => jobs[j].due < row[jobs[j].schedule].next
DuesDiffer(s) ==
    /\ \A i, j \in DOMAIN jobs :
          jobs[i].schedule = s /\ jobs[j].schedule = s /\ jobs[i].due = jobs[j].due /\ jobs[i].due > 0
              => i = j
    /\ \A j \in DOMAIN jobs, r \in Runners :
          jobs[j].schedule = s /\ WorksOn(r, s) /\ work[r].job = 0 /\ jobs[j].due > 0
              => jobs[j].due # work[r].due
    /\ \A q, r \in Runners :
          WorksOn(q, s) /\ WorksOn(r, s) /\ work[q].job = 0 /\ work[r].job = 0
              /\ work[q].due = work[r].due /\ work[q].due > 0 => q = r
DuesInv ==
    /\ \A r \in Runners : RunnerDues(r)
    /\ work[Web].due = 0
    /\ \A j \in DOMAIN jobs : JobDues(j)
    /\ \A s \in Schedules : DuesDiffer(s)

\* One process at a time works on a schedule, and it creates a job only while none runs;
\* otherwise the job that runs is the recorded one.
Busy(p, s) ==
    work[p].schedule = s =>
        /\ pc[p] \in Making => RunningOf(s) = {}
        /\ pc[p] \in Unrecorded => RunningOf(s) \subseteq {work[p].job}
AtRest(s) == Stored(s) /\ \A p \in Processes : work[p].schedule = s => pc[p] \in Resting
Alone(s) ==
    /\ \A p, q \in Processes : WorksOn(p, s) /\ WorksOn(q, s) => p = q
    /\ \A p \in Processes : Busy(p, s)
    /\ AtRest(s) => RunningOf(s) \subseteq {row[s].lastJob}
    /\ \A i, j \in RunningOf(s) : i = j
StackInv == \A s \in Schedules \ untracked : Alone(s)

\* What the user confirmed is what the job that is being created needs.
AsksFor(p) == LET q == work[p].request IN Confirmed(q.src, q.dst, cfg, q.raw)
Asks(p) ==
    pc[p] \in {"admitted", "queueing"} =>
        /\ work[p].egress = AsksFor(p)
        /\ pc[p] = "queueing" => jobs[work[p].job].egress = work[p].egress
ChargesInv == ChargesAreConfirmed /\ \A p \in Processes : Asks(p)

\* Every registered place is that of a job, and a job that may overwrite is below one.
Earns(p) == pc[p] = "admitted" /\ work[p].overwrite => EarnsOverwrite(work[p])
PlacesInv ==
    /\ \A place \in places : \E j \in DOMAIN jobs :
          place = Place(jobs[j].request.dst, jobs[j].request.path)
    /\ \A p \in Processes : Earns(p)

SchedulesInv ==
    /\ ScheduleTypeOK
    /\ HoldsInv
    /\ \A s \in Schedules : NextIsFirst(s)
    /\ DuesInv
    /\ StackInv
    /\ ChargesInv
    /\ PlacesInv

-----------------------------------------------------------------------------
(* Types.                                                                   *)

LEMMA Empty ==
    /\ Nothing \in Asked /\ Idle \in Works /\ NoRow \in Rows
    /\ Requests \subseteq Asked
    /\ \A q \in Requests, raw \in Egresses : [q EXCEPT !.raw = raw] \in Asked
<1>1. Nothing \in Asked /\ Requests \subseteq Asked
  BY DEF Asked
<1>2. ASSUME NEW q \in Requests, NEW raw \in Egresses PROVE [q EXCEPT !.raw = raw] \in Asked
  <2>1. [q EXCEPT !.raw = raw] \in {[r EXCEPT !.raw = x] : r \in Requests, x \in Egresses}
    OBVIOUS
  <2> QED BY <2>1 DEF Asked
<1>3. Idle \in Works
  BY <1>1 DEF Idle, Works, Owners, Egresses
<1>4. NoRow \in Rows
  BY DEF NoRow, Rows, Egresses
<1> QED BY <1>1, <1>2, <1>3, <1>4

LEMMA Answers ==
    /\ \A src, dst, c, raw : Confirmed(src, dst, c, raw) \in Egresses
    /\ \A c \in Configs : c.general \in BOOLEAN
    /\ \A p, dst, path, c : c \in Configs => Decide(p, dst, path, c) \in BOOLEAN
<1>1. \A src, dst, c, raw : Confirmed(src, dst, c, raw) \in Egresses
  BY DEF Confirmed, Egresses
<1>2. \A c \in Configs : c.general \in BOOLEAN
  BY ScheduleAssumption
<1> QED BY <1>1, <1>2 DEF Decide

\* A process that goes on, or has done with a schedule.
LEMMA Moves ==
    ASSUME pc \in [Processes -> Places], work \in [Processes -> Works], NEW p \in Processes
    PROVE  /\ \A x \in Places : GoTo(p, x) => pc' \in [Processes -> Places]
           /\ Return(p) => pc' \in [Processes -> Places] /\ work' \in [Processes -> Works]
           /\ NextOne(p) => pc' \in [Processes -> Places] /\ work' \in [Processes -> Works]
           /\ After(p) => pc' \in [Processes -> Places] /\ work' \in [Processes -> Works]
<1>1. \A x \in Places : GoTo(p, x) => pc' \in [Processes -> Places]
  BY DEF GoTo
<1>2. "idle" \in Places /\ "claiming" \in Places
  BY DEF Places
<1>3. [Idle EXCEPT !.at = work[p].at] \in Works
  BY Empty DEF Works
<1>4. Return(p) => pc' \in [Processes -> Places] /\ work' \in [Processes -> Works]
  BY <1>1, <1>2, Empty DEF Return
<1>5. NextOne(p) => pc' \in [Processes -> Places] /\ work' \in [Processes -> Works]
  BY <1>1, <1>2, <1>3 DEF NextOne
<1> QED BY <1>1, <1>4, <1>5 DEF After

\* The job that a failed run is found to have left.
LEMMA LastLeft ==
    ASSUME jobs \in Seq(Jobs), NEW left, left \subseteq DOMAIN jobs, left # {}
    PROVE  /\ (CHOOSE j \in left : \A i \in left : i =< j) \in left
           /\ (CHOOSE j \in left : \A i \in left : i =< j) \in Nat
<1>1. Len(jobs) \in Nat /\ DOMAIN jobs = 1 .. Len(jobs)
  OBVIOUS
<1> DEFINE T == {Len(jobs) - j : j \in left}
<1>2. T \subseteq Nat /\ T # {}
  BY <1>1
<1>3. PICK x \in T : \A y \in T : x =< y
  <2> HIDE DEF T
  <2> QED BY <1>2, LeastNatural
<1>4. PICK j \in left : x = Len(jobs) - j
  BY <1>3
<1>5. \A i \in left : Len(jobs) - i \in T
  OBVIOUS
<1>6. \A i \in left : x =< Len(jobs) - i
  BY <1>3, <1>5
<1> HIDE DEF T
<1>7. \A i \in left : i =< j
  BY <1>1, <1>4, <1>6
<1>8. \E k \in left : \A i \in left : i =< k
  BY <1>7
<1> QED BY <1>1, <1>8

\* Every step keeps the types.
LEMMA TypesKept ==
    ASSUME ScheduleTypeOK, HoldsInv, [ScheduleNext]_scheduleVars
    PROVE  ScheduleTypeOK'
<1>1. ASSUME NEW r \in Runners, StartTick(r) PROVE ScheduleTypeOK'
  <2>1. [Idle EXCEPT !.at = now] \in Works
    BY Empty DEF Works, ScheduleTypeOK
  <2>2. r \in Processes /\ "claiming" \in Places
    BY DEF Processes, Places
  <2> QED BY <1>1, <2>1, <2>2 DEF ScheduleTypeOK, StartTick, GoTo
<1>2. ASSUME NEW r \in Runners, Find(r) PROVE ScheduleTypeOK'
  <2>1. r \in Processes /\ "found" \in Places
    BY DEF Processes, Places
  <2>2. CASE Return(r) /\ UNCHANGED <<now, cfg, row, jobs, places, crashes, untracked>>
    BY <2>1, <2>2, Moves DEF ScheduleTypeOK
  <2>3. ASSUME NEW s \in Schedules, GoTo(r, "found"),
               work' = [work EXCEPT ![r].schedule = s, ![r].due = row[s].next],
               UNCHANGED <<now, cfg, row, jobs, places, crashes, untracked>>
        PROVE  ScheduleTypeOK'
    <3>1. work[r] \in Works /\ row[s].next \in Nat
      BY <2>1 DEF ScheduleTypeOK, Rows
    <3>2. [work[r] EXCEPT !.schedule = s, !.due = row[s].next] \in Works
      BY <3>1 DEF Works, Owners
    <3>3. work' = [work EXCEPT ![r] = [work[r] EXCEPT !.schedule = s, !.due = row[s].next]]
      BY <2>1, <2>3 DEF ScheduleTypeOK
    <3> QED BY <2>1, <2>3, <3>2, <3>3 DEF ScheduleTypeOK, GoTo
  <2> QED BY <1>2, <2>2, <2>3 DEF Find, FirstOf, DueAt
<1>3. ASSUME NEW r \in Runners, Claim(r) PROVE ScheduleTypeOK'
  <2> DEFINE s == work[r].schedule
             next == NextRun(row[s].spec, work[r].at)
  <2>1. r \in Processes /\ "claimed" \in Places /\ work[r] \in Works
    BY DEF Processes, Places, ScheduleTypeOK
  <2>2. s \in Schedules /\ work[r].at \in Nat /\ row[s] \in Rows
    BY <1>3, <2>1 DEF Claim, HoldsInv, RunnerHolds, ScheduleTypeOK, Works
  <2>3. MayClaim(r, s) => next \in Nat
    BY <2>2, NextRunIsFirst DEF MayClaim, Stored, HoldsInv, RowHolds
  <2>4. MayClaim(r, s) => [row[s] EXCEPT !.next = next] \in Rows
    BY <2>2, <2>3 DEF Rows
  <2> HIDE DEF s, next
  <2>5. CASE MayClaim(r, s)
    BY <1>3, <2>1, <2>2, <2>4, <2>5 DEF Claim, ScheduleTypeOK, Set, GoTo, s, next
  <2>6. CASE ~MayClaim(r, s)
    BY <1>3, <2>1, <2>6, Moves DEF Claim, ScheduleTypeOK, s, next
  <2> QED BY <2>5, <2>6
<1>4. ASSUME NEW r \in Runners, ClaimInvalid(r) PROVE ScheduleTypeOK'
  <2> DEFINE s == work[r].schedule
  <2>1. r \in Processes /\ work[r] \in Works
    BY DEF Processes, ScheduleTypeOK
  <2>2. s \in Schedules /\ row[s] \in Rows
    BY <1>4, <2>1 DEF ClaimInvalid, HoldsInv, RunnerHolds, ScheduleTypeOK
  <2>3. [row[s] EXCEPT !.enabled = FALSE] \in Rows
    BY <2>2 DEF Rows
  <2> QED BY <1>4, <2>1, <2>2, <2>3, Moves DEF ClaimInvalid, ScheduleTypeOK, Set
<1>5. ASSUME NEW r \in Runners, RunClaimed(r) PROVE ScheduleTypeOK'
  <2> DEFINE s == work[r].schedule
             w == [work[r] EXCEPT !.request = [row[s].request EXCEPT !.raw = row[s].egress],
                                  !.last = row[s].lastJob]
  <2>1. r \in Processes /\ work[r] \in Works /\ "creating" \in Places
    BY DEF Processes, ScheduleTypeOK, Places
  <2>2. s \in Schedules /\ row[s] \in Rows
    BY <1>5, <2>1 DEF RunClaimed, HoldsInv, RunnerHolds, ScheduleTypeOK
  <2>3. Stored(s) => row[s].request \in Requests /\ row[s].egress \in Egresses /\ row[s].lastJob \in Nat
    BY <2>2 DEF HoldsInv, RowHolds, Rows, Stored
  <2>4. Stored(s) => [row[s].request EXCEPT !.raw = row[s].egress] \in Asked
    BY <2>3, Empty
  <2>5. Stored(s) => w \in Works
    BY <2>1, <2>3, <2>4 DEF Works
  <2>6. CASE GoTo(r, "creating") /\ Stored(s) /\ work' = [work EXCEPT ![r] = w]
             /\ UNCHANGED <<now, cfg, row, jobs, places, crashes, untracked>>
    <3> HIDE DEF w
    <3> QED BY <2>1, <2>5, <2>6 DEF ScheduleTypeOK, GoTo
  <2>7. CASE (Return(r) \/ NextOne(r)) /\ UNCHANGED <<now, cfg, row, jobs, places, crashes, untracked>>
    BY <2>1, <2>7, Moves DEF ScheduleTypeOK
  <2>8. work' = [work EXCEPT ![r].request = [row[s].request EXCEPT !.raw = row[s].egress],
                             ![r].last = row[s].lastJob]
        => work' = [work EXCEPT ![r] = w]
    BY <2>1 DEF ScheduleTypeOK
  <2> HIDE DEF w
  <2> QED BY <1>5, <2>6, <2>7, <2>8 DEF RunClaimed
<1>6. ASSUME NEW r \in Runners, RefuseCost(r) PROVE ScheduleTypeOK'
  <2> DEFINE s == work[r].schedule
  <2>1. r \in Processes /\ work[r] \in Works
    BY DEF Processes, ScheduleTypeOK
  <2>2. s \in Schedules /\ row[s] \in Rows
    BY <1>6, <2>1 DEF RefuseCost, HoldsInv, RunnerHolds, ScheduleTypeOK
  <2>3. [row[s] EXCEPT !.enabled = FALSE] \in Rows
    BY <2>2 DEF Rows
  <2> QED BY <1>6, <2>1, <2>2, <2>3, Moves DEF RefuseCost, ScheduleTypeOK, Set
<1>7. ASSUME NEW r \in Runners, RecordFailure(r) PROVE ScheduleTypeOK'
  <2> DEFINE s    == work[r].schedule
             left == {j \in DOMAIN jobs : jobs[j].schedule = s /\ j > work[r].last}
             last == CHOOSE j \in left : \A i \in left : i =< j
  <2>1. r \in Processes /\ work[r] \in Works
    BY DEF Processes, ScheduleTypeOK
  <2>2. s \in Schedules /\ row[s] \in Rows
    BY <1>7, <2>1 DEF RecordFailure, HoldsInv, RunnerHolds, ScheduleTypeOK
  <2>3. left # {} => last \in Nat
    BY LastLeft DEF ScheduleTypeOK
  <2>4. left # {} => [row[s] EXCEPT !.lastJob = last] \in Rows
    BY <2>2, <2>3 DEF Rows
  <2>5. row' = row \/ (left # {} /\ row' = [row EXCEPT ![s] = [row[s] EXCEPT !.lastJob = last]])
    BY <1>7, <2>2 DEF RecordFailure, ScheduleTypeOK
  <2>6. (NextOne(r) \/ Return(r)) /\ UNCHANGED <<now, cfg, jobs, places, crashes, untracked>>
    BY <1>7 DEF RecordFailure
  <2> HIDE DEF last, left
  <2> QED BY <2>1, <2>2, <2>4, <2>5, <2>6, Moves DEF ScheduleTypeOK
<1>8. ASSUME NEW p \in Processes, Admit(p) PROVE ScheduleTypeOK'
  <2> DEFINE q == work[p].request
             egress == Confirmed(q.src, q.dst, cfg, q.raw)
             over == IF IsScheduled(p) THEN cfg.general ELSE Decide(places, q.dst, q.path, cfg)
             w == [work[p] EXCEPT !.egress = egress, !.overwrite = over]
  <2>1. work[p] \in Works /\ "admitted" \in Places
    BY DEF ScheduleTypeOK, Places
  <2>2. egress \in Egresses /\ over \in BOOLEAN
    BY Answers DEF ScheduleTypeOK
  <2> HIDE DEF egress, over
  <2>3. w \in Works
    BY <2>1, <2>2 DEF Works
  <2>4. work' = [work EXCEPT ![p] = w]
    BY <1>8 DEF Admit, ScheduleTypeOK, egress, over
  <2> HIDE DEF w
  <2> QED BY <1>8, <2>1, <2>3, <2>4 DEF Admit, ScheduleTypeOK, GoTo
<1>9. ASSUME NEW p \in Processes, Refuse(p) PROVE ScheduleTypeOK'
  <2>1. row' \in [Schedules -> Rows]
    BY <1>9, Empty DEF Refuse, ScheduleTypeOK
  <2> QED BY <1>9, <2>1, Moves DEF Refuse, ScheduleTypeOK
<1>10. ASSUME NEW p \in Processes, CreateFails(p) PROVE ScheduleTypeOK'
  <2>1. row' \in [Schedules -> Rows] /\ "failed" \in Places
    BY <1>10, Empty DEF CreateFails, ScheduleTypeOK, Places
  <2> QED BY <1>10, <2>1, Moves DEF CreateFails, ScheduleTypeOK
<1>11. ASSUME NEW p \in Processes, StoreJob(p) PROVE ScheduleTypeOK'
  <2> DEFINE s == work[p].schedule
             q == work[p].request
             job == [state |-> "PROGRESS", schedule |-> s, due |-> work[p].due,
                     request |-> q, egress |-> work[p].egress,
                     overwrite |-> work[p].overwrite, pool |-> NoOne, fee |-> NoFee]
             w == [work[p] EXCEPT !.job = Len(jobs) + 1]
  <2>1. work[p] \in Works /\ "queueing" \in Places /\ Len(jobs) \in Nat
    BY DEF ScheduleTypeOK, Places
  <2>2. job \in Jobs
    BY <2>1 DEF Works, Jobs, Pools, Fees
  <2>3. w \in Works
    BY <2>1 DEF Works
  <2>4. row' \in [Schedules -> Rows]
    <3>1. ASSUME row[s].state = "flushed", IsScheduled(p)
          PROVE  [row EXCEPT ![s].state = "stored"] \in [Schedules -> Rows]
      <4>1. s \in Schedules
        BY <2>1, <3>1 DEF Works, Owners, IsScheduled
      <4>2. row[s] \in Rows
        BY <4>1 DEF ScheduleTypeOK
      <4>3. [row[s] EXCEPT !.state = "stored"] \in Rows
        <5> HIDE DEF s
        <5> QED BY <4>2 DEF Rows
      <4> QED BY <4>1, <4>3 DEF ScheduleTypeOK
    <3> QED BY <1>11, <3>1 DEF StoreJob, ScheduleTypeOK
  <2>5. work' = [work EXCEPT ![p] = w] /\ jobs' = Append(jobs, job)
    BY <1>11 DEF StoreJob, ScheduleTypeOK
  <2>6. jobs' \in Seq(Jobs)
    <3> HIDE DEF job
    <3> QED BY <2>2, <2>5 DEF ScheduleTypeOK
  <2> HIDE DEF w, job
  <2> QED BY <1>11, <2>1, <2>3, <2>4, <2>5, <2>6 DEF StoreJob, ScheduleTypeOK, GoTo
<1>12. ASSUME NEW p \in Processes, QueueTheJob(p) PROVE ScheduleTypeOK'
  <2> DEFINE q == work[p].request
             j == work[p].job
  <2>1. work[p] \in Works /\ "recording" \in Places /\ j \in DOMAIN jobs /\ jobs[j] \in Jobs /\ q \in Asked
    <3>1. j \in DOMAIN jobs
      BY <1>12 DEF QueueTheJob, HoldsInv, JobHeld, Unrecorded
    <3>2. work[p] \in Works
      BY DEF ScheduleTypeOK
    <3> QED BY <3>1, <3>2 DEF ScheduleTypeOK, Places, Works
  <2>2. PICK size \in {"unknown", "small", "large"} :
            jobs' = [jobs EXCEPT ![j].pool = Route(q.src, q.dst, cfg, size),
                                 ![j].fee = Assess(q.src, q.dst, Runner(Route(q.src, q.dst, cfg, size), cfg))]
    BY <1>12 DEF QueueTheJob
  <2> DEFINE pool == Route(q.src, q.dst, cfg, size)
             fee == Assess(q.src, q.dst, Runner(pool, cfg))
             job == [jobs[j] EXCEPT !.pool = pool, !.fee = fee]
  <2>3. pool \in Pools
    <3>1. pool \in {Route(x.src, x.dst, c, z) : x \in Asked, c \in Configs, z \in {"unknown", "small", "large"}}
      BY <2>1 DEF ScheduleTypeOK
    <3> QED BY <3>1 DEF Pools
  <2>4. fee \in Fees
    <3> HIDE DEF pool
    <3>1. fee \in {Assess(x.src, x.dst, Runner(y, c)) : x \in Asked, y \in Pools, c \in Configs}
      BY <2>1, <2>3 DEF ScheduleTypeOK
    <3> QED BY <3>1 DEF Fees
  <2> HIDE DEF pool, fee
  <2>5. job \in Jobs
    BY <2>1, <2>3, <2>4 DEF Jobs
  <2>6. jobs' = [jobs EXCEPT ![j] = job]
    BY <2>1, <2>2 DEF ScheduleTypeOK, pool, fee
  <2> HIDE DEF job, j
  <2>7. jobs' \in Seq(Jobs)
    BY <2>1, <2>5, <2>6, ExceptSeq DEF ScheduleTypeOK
  <2> QED BY <1>12, <2>1, <2>7, Moves DEF QueueTheJob, ScheduleTypeOK
<1>13. ASSUME NEW p \in Processes, QueueingFails(p) PROVE ScheduleTypeOK'
  <2> DEFINE j == work[p].job
             job == [jobs[j] EXCEPT !.state = "FAILED"]
  <2>1. j \in DOMAIN jobs /\ "failed" \in Places
    BY <1>13 DEF QueueingFails, HoldsInv, JobHeld, Unrecorded, Places
  <2>2. jobs[j] \in Jobs
    BY <2>1 DEF ScheduleTypeOK
  <2>3. job \in Jobs
    BY <2>2 DEF Jobs
  <2>4. jobs' = [jobs EXCEPT ![j] = job]
    BY <1>13, <2>1 DEF QueueingFails, ScheduleTypeOK
  <2> HIDE DEF job, j
  <2>5. jobs' \in Seq(Jobs)
    BY <2>1, <2>3, <2>4, ExceptSeq DEF ScheduleTypeOK
  <2> QED BY <1>13, <2>1, <2>5, Moves DEF QueueingFails, ScheduleTypeOK
<1>14. ASSUME NEW p \in Processes, Record(p) PROVE ScheduleTypeOK'
  <2> DEFINE s == work[p].schedule
  <2>1. work[p] \in Works
    BY DEF ScheduleTypeOK
  <2>2. s \in Schedules /\ row[s] \in Rows
    BY <1>14, <2>1 DEF Record, HoldsInv, RunnerHolds, OwnerHolds, IsScheduled, ScheduleTypeOK, Works, Owners, Processes
  <2>3. [row[s] EXCEPT !.lastJob = work[p].job] \in Rows
    BY <2>1, <2>2 DEF Rows, Works
  <2> QED BY <1>14, <2>2, <2>3, Moves DEF Record, ScheduleTypeOK, Set
<1>15. ASSUME NEW s \in Schedules, NEW spec \in Specs, NEW request \in Requests, NEW runNow \in BOOLEAN, CreateSchedule(s, spec, request, runNow) PROVE ScheduleTypeOK'
  <2> DEFINE egress == Confirmed(request.src, request.dst, cfg, request.raw)
             next == NextRun(spec, now)
             flushed == [NoRow EXCEPT !.state = IF runNow THEN "flushed" ELSE "stored",
                             !.enabled = TRUE, !.spec = spec, !.next = next,
                             !.request = request, !.egress = egress]
             w == [Idle EXCEPT !.schedule = s, !.request = [request EXCEPT !.raw = egress]]
  <2>1. egress \in Egresses /\ next \in Nat
    BY Answers, NextRunIsFirst DEF ScheduleTypeOK
  <2> HIDE DEF egress, next
  <2>2. flushed \in Rows
    BY <2>1, Empty DEF Rows
  <2>3. w \in Works
    BY <2>1, Empty DEF Works, Owners
  <2>4. row' = [row EXCEPT ![s] = flushed]
    BY <1>15 DEF CreateSchedule, Set, egress, next
  <2>5. (GoTo(Web, "creating") /\ work' = [work EXCEPT ![Web] = w]) \/ UNCHANGED <<pc, work>>
    BY <1>15 DEF CreateSchedule, egress
  <2>6. Web \in Processes /\ "creating" \in Places /\ UNCHANGED <<now, cfg, jobs, places, crashes, untracked>>
    BY <1>15 DEF CreateSchedule, Processes, Places
  <2> HIDE DEF w, flushed
  <2> QED BY <2>2, <2>3, <2>4, <2>5, <2>6 DEF ScheduleTypeOK, GoTo
<1>16. ASSUME NEW request \in Requests, CreateCopy(request) PROVE ScheduleTypeOK'
  <2>1. [Idle EXCEPT !.request = request] \in Works
    BY Empty DEF Works
  <2>2. Web \in Processes /\ "creating" \in Places
    BY DEF Processes, Places
  <2> QED BY <1>16, <2>1, <2>2 DEF CreateCopy, ScheduleTypeOK, GoTo
<1>17. ASSUME NEW s \in Schedules, Pause(s) PROVE ScheduleTypeOK'
  <2>1. [row[s] EXCEPT !.enabled = FALSE] \in Rows
    BY DEF ScheduleTypeOK, Rows
  <2> QED BY <1>17, <2>1 DEF Pause, ScheduleTypeOK, Set
<1>18. ASSUME NEW s \in Schedules, Resume(s) PROVE ScheduleTypeOK'
  <2>1. NextRun(row[s].spec, now) \in Nat
    BY <1>18, NextRunIsFirst DEF Resume, Stored, HoldsInv, RowHolds, ScheduleTypeOK
  <2>2. [row[s] EXCEPT !.enabled = TRUE, !.next = NextRun(row[s].spec, now)] \in Rows
    BY <2>1 DEF ScheduleTypeOK, Rows
  <2> QED BY <1>18, <2>2 DEF Resume, ScheduleTypeOK, Set
<1>19. ASSUME NEW s \in Schedules, DeleteSchedule(s) PROVE ScheduleTypeOK'
  <2>1. [row[s] EXCEPT !.state = "deleted", !.enabled = FALSE] \in Rows
    BY DEF ScheduleTypeOK, Rows
  <2> QED BY <1>19, <2>1 DEF DeleteSchedule, ScheduleTypeOK, Set
<1>20. ASSUME NEW s \in Schedules, EditByHand(s) PROVE ScheduleTypeOK'
  <2>1. [row[s] EXCEPT !.valid = FALSE] \in Rows
    BY DEF ScheduleTypeOK, Rows
  <2> QED BY <1>20, <2>1 DEF EditByHand, ScheduleTypeOK, Set
<1>21. ASSUME NEW j \in DOMAIN jobs, JobEnds(j) PROVE ScheduleTypeOK'
  <2> DEFINE job == [jobs[j] EXCEPT !.state = "SUCCESS"]
  <2>1. jobs[j] \in Jobs
    BY DEF ScheduleTypeOK
  <2>2. job \in Jobs
    BY <2>1 DEF Jobs
  <2>3. jobs' = [jobs EXCEPT ![j] = job]
    BY <1>21 DEF JobEnds, ScheduleTypeOK
  <2> HIDE DEF job
  <2>4. jobs' \in Seq(Jobs)
    BY <2>2, <2>3, ExceptSeq DEF ScheduleTypeOK
  <2> QED BY <1>21, <2>4 DEF JobEnds, ScheduleTypeOK
<1>22. ASSUME NEW p \in Processes, Crash(p) PROVE ScheduleTypeOK'
  <2>1. row' \in [Schedules -> Rows]
    BY <1>22, Empty DEF Crash, ScheduleTypeOK
  <2>2. untracked' \subseteq Schedules
    BY <1>22 DEF Crash, ScheduleTypeOK, IsScheduled, Works, Owners
  <2> QED BY <1>22, <2>1, <2>2, Moves DEF Crash, ScheduleTypeOK
<1>23. ASSUME Reconfigure PROVE ScheduleTypeOK'
  BY <1>23 DEF Reconfigure, ScheduleTypeOK
<1>24. ASSUME ClockTick PROVE ScheduleTypeOK'
  BY <1>24 DEF ClockTick, ScheduleTypeOK
<1>25. ASSUME UNCHANGED scheduleVars PROVE ScheduleTypeOK'
  BY <1>25 DEF scheduleVars, ScheduleTypeOK
<1> QED
  BY <1>1, <1>2, <1>3, <1>4, <1>5, <1>6, <1>7, <1>8, <1>9, <1>10, <1>11, <1>12, <1>13, <1>14, <1>15, <1>16, <1>17, <1>18, <1>19, <1>20, <1>21, <1>22, <1>23, <1>24, <1>25
     DEF ScheduleNext, RunnerStep, CreateStep, OwnerStep, Processes

-----------------------------------------------------------------------------
(* What a step does to one process, and to one row.                         *)

Becomes(p, where, w) ==
    /\ pc'[p] = where /\ work'[p] = w
    /\ \A q \in Processes \ {p} : pc'[q] = pc[q] /\ work'[q] = work[q]
RowBecomes(s, values) ==
    /\ row'[s] = values
    /\ \A x \in Schedules \ {s} : row'[x] = row[x]
\* A runner goes on with its pass; a process has done.
Passes(p) == p \in Runners /\ Becomes(p, "claiming", [Idle EXCEPT !.at = work[p].at])
Leaves(p) == Becomes(p, "idle", Idle) \/ Passes(p)

\* What the endings of the actions do to the process that takes the step.
LEMMA Moved ==
    ASSUME ScheduleTypeOK, NEW p \in Processes
    PROVE  /\ \A x, w : GoTo(p, x) /\ work' = [work EXCEPT ![p] = w] => Becomes(p, x, w)
           /\ \A x : GoTo(p, x) /\ work' = work => Becomes(p, x, work[p])
           /\ Return(p) => Becomes(p, "idle", Idle)
           /\ NextOne(p) /\ p \in Runners => Passes(p)
           /\ After(p) => Leaves(p)
           /\ p = Web /\ After(p) => Becomes(p, "idle", Idle)
<1>1. \A x, w : GoTo(p, x) /\ work' = [work EXCEPT ![p] = w] => Becomes(p, x, w)
  BY DEF ScheduleTypeOK, GoTo, Becomes
<1>2. \A x : GoTo(p, x) /\ work' = work => Becomes(p, x, work[p])
  BY DEF ScheduleTypeOK, GoTo, Becomes
<1>3. Return(p) => Becomes(p, "idle", Idle)
  BY <1>1 DEF Return
<1>4. NextOne(p) /\ p \in Runners => Passes(p)
  BY <1>1 DEF NextOne, Passes
<1>5. p = Web \/ p \in Runners
  BY DEF Processes
<1> QED BY <1>1, <1>2, <1>3, <1>4, <1>5 DEF After, Leaves

\* What a stored row looks like to the other schedules.
LEMMA RowSet ==
    ASSUME ScheduleTypeOK, NEW s \in Schedules
    PROVE  /\ \A v : Set(s, v) => RowBecomes(s, v)
           /\ \A v : row' = [row EXCEPT ![s] = v] => RowBecomes(s, v)
BY DEF ScheduleTypeOK, Set, RowBecomes

\* The processes of a schedule, and a job of theirs.
LEMMA Held ==
    ASSUME ScheduleTypeOK, HoldsInv
    PROVE  /\ Web \in Processes /\ Web \notin Runners /\ NoOne \notin Schedules
           /\ \A r \in Runners : /\ r \in Processes /\ r # Web
                                 /\ pc[r] \notin {"idle", "claiming"} => IsScheduled(r)
           /\ \A p \in Processes : /\ IsScheduled(p) <=> work[p].schedule \in Schedules
                                   /\ p # Web => p \in Runners
                                   /\ work[p] \in Works
<1>1. Web \notin Runners /\ NoOne \notin Schedules
  BY ScheduleAssumption DEF NoOne
<1>2. \A p \in Processes : work[p] \in Works /\ work[p].schedule \in Owners
  BY DEF ScheduleTypeOK, Works
<1> QED BY <1>1, <1>2 DEF Processes, HoldsInv, RunnerHolds, IsScheduled, Owners

\* What each action does to its process and to its row (the Effect lemmas).
LEMMA StartTickEffect ==
    ASSUME ScheduleTypeOK, HoldsInv, NEW r \in Runners, StartTick(r)
    PROVE  pc[r] = "idle" /\ Becomes(r, "claiming", [Idle EXCEPT !.at = now])
BY Moved, Held DEF StartTick

LEMMA FindEffect ==
    ASSUME ScheduleTypeOK, HoldsInv, NEW r \in Runners, Find(r)
    PROVE  /\ pc[r] = "claiming"
           /\ \/ Becomes(r, "idle", Idle)
              \/ \E s \in Schedules :
                    /\ Stored(s) /\ row[s].next =< work[r].at
                    /\ Becomes(r, "found", [work[r] EXCEPT !.schedule = s, !.due = row[s].next])
<1>1. CASE Return(r)
  BY <1>1, Moved, Held DEF Find
<1>2. ASSUME NEW s \in FirstOf(DueAt(work[r].at)), GoTo(r, "found"),
             work' = [work EXCEPT ![r].schedule = s, ![r].due = row[s].next]
      PROVE  /\ s \in Schedules /\ Stored(s) /\ row[s].next =< work[r].at
             /\ Becomes(r, "found", [work[r] EXCEPT !.schedule = s, !.due = row[s].next])
  <2>1. work' = [work EXCEPT ![r] = [work[r] EXCEPT !.schedule = s, !.due = row[s].next]]
    BY <1>2, Held DEF ScheduleTypeOK
  <2>2. Becomes(r, "found", [work[r] EXCEPT !.schedule = s, !.due = row[s].next])
    BY <1>2, <2>1, Moved, Held
  <2> QED BY <1>2, <2>2 DEF FirstOf, DueAt
<1> QED BY <1>1, <1>2 DEF Find

LEMMA ClaimEffect ==
    ASSUME ScheduleTypeOK, HoldsInv, NEW r \in Runners, Claim(r)
    PROVE  LET s    == work[r].schedule
               next == NextRun(row[s].spec, work[r].at)
           IN  /\ pc[r] = "found" /\ s \in Schedules
               /\ \/ /\ Stored(s) /\ row[s].next = work[r].due
                     /\ RowBecomes(s, [row[s] EXCEPT !.next = next])
                     /\ Becomes(r, "claimed", work[r])
                     /\ untracked' = IF \E p \in Processes \ {r} : WorksOn(p, s)
                                     THEN untracked \cup {s} ELSE untracked
                  \/ Passes(r) /\ UNCHANGED <<row, untracked>>
<1>1. work[r].schedule \in Schedules
  BY DEF Claim, HoldsInv, RunnerHolds
<1> QED BY <1>1, Moved, Held, RowSet DEF Claim, MayClaim

LEMMA ClaimInvalidEffect ==
    ASSUME ScheduleTypeOK, HoldsInv, NEW r \in Runners, ClaimInvalid(r)
    PROVE  LET s == work[r].schedule
           IN  /\ pc[r] = "found" /\ s \in Schedules
               /\ RowBecomes(s, [row[s] EXCEPT !.enabled = FALSE])
               /\ Passes(r)
<1>1. work[r].schedule \in Schedules
  BY DEF ClaimInvalid, HoldsInv, RunnerHolds
<1> QED BY <1>1, Moved, Held, RowSet DEF ClaimInvalid

LEMMA RunClaimedEffect ==
    ASSUME ScheduleTypeOK, HoldsInv, NEW r \in Runners, RunClaimed(r)
    PROVE  LET s == work[r].schedule
           IN  /\ pc[r] = "claimed" /\ s \in Schedules
               /\ \/ Leaves(r)
                  \/ /\ Stored(s) /\ ~InProgress(row[s].lastJob)
                     /\ Becomes(r, "creating", [work[r] EXCEPT !.request = [row[s].request EXCEPT !.raw = row[s].egress],
                                                               !.last = row[s].lastJob])
<1> DEFINE s == work[r].schedule
           w == [work[r] EXCEPT !.request = [row[s].request EXCEPT !.raw = row[s].egress],
                                !.last = row[s].lastJob]
<1>1. s \in Schedules
  BY DEF RunClaimed, HoldsInv, RunnerHolds
<1>2. work' = [work EXCEPT ![r].request = [row[s].request EXCEPT !.raw = row[s].egress],
                           ![r].last = row[s].lastJob]
      => work' = [work EXCEPT ![r] = w]
  BY Held DEF ScheduleTypeOK
<1> HIDE DEF w
<1>3. pc[r] = "claimed" /\ \/ Leaves(r)
                           \/ Stored(s) /\ ~InProgress(row[s].lastJob) /\ Becomes(r, "creating", w)
  BY <1>2, Moved, Held DEF RunClaimed, Leaves
<1> QED BY <1>1, <1>3 DEF w

LEMMA RefuseCostEffect ==
    ASSUME ScheduleTypeOK, HoldsInv, NEW r \in Runners, RefuseCost(r)
    PROVE  LET s == work[r].schedule
           IN  /\ pc[r] = "creating" /\ s \in Schedules
               /\ row' = row \/ RowBecomes(s, [row[s] EXCEPT !.enabled = FALSE])
               /\ Leaves(r)
<1>1. work[r].schedule \in Schedules
  BY DEF RefuseCost, HoldsInv, RunnerHolds
<1> QED BY <1>1, Moved, Held, RowSet DEF RefuseCost, Leaves

LEMMA RecordFailureEffect ==
    ASSUME ScheduleTypeOK, HoldsInv, NEW r \in Runners, RecordFailure(r)
    PROVE  LET s == work[r].schedule
           IN  /\ pc[r] = "failed" /\ s \in Schedules
               /\ row' = row \/ \E j : RowBecomes(s, [row[s] EXCEPT !.lastJob = j])
               /\ Leaves(r)
<1> DEFINE s == work[r].schedule
           left == {j \in DOMAIN jobs : jobs[j].schedule = s /\ j > work[r].last}
           last == CHOOSE j \in left : \A i \in left : i =< j
<1>1. s \in Schedules
  BY DEF RecordFailure, HoldsInv, RunnerHolds
<1>2. row' = row \/ row' = [row EXCEPT ![s] = [row[s] EXCEPT !.lastJob = last]]
  BY <1>1 DEF RecordFailure, ScheduleTypeOK
<1> HIDE DEF last
<1>3. row' = row \/ RowBecomes(s, [row[s] EXCEPT !.lastJob = last])
  BY <1>1, <1>2, RowSet
<1>4. pc[r] = "failed" /\ Leaves(r)
  BY Moved, Held DEF RecordFailure, Leaves
<1> QED BY <1>1, <1>3, <1>4

LEMMA AdmitEffect ==
    ASSUME ScheduleTypeOK, HoldsInv, NEW p \in Processes, Admit(p)
    PROVE  /\ pc[p] = "creating" /\ AsksFor(p) # "refused"
           /\ Becomes(p, "admitted", [work[p] EXCEPT !.egress = AsksFor(p),
                          !.overwrite = IF IsScheduled(p) THEN cfg.general
                                        ELSE Decide(places, work[p].request.dst, work[p].request.path, cfg)])
<1> DEFINE q == work[p].request
           over == IF IsScheduled(p) THEN cfg.general ELSE Decide(places, q.dst, q.path, cfg)
<1>1. /\ pc[p] = "creating" /\ AsksFor(p) # "refused"
      /\ GoTo(p, "admitted") /\ work' = [work EXCEPT ![p].egress = AsksFor(p), ![p].overwrite = over]
  BY DEF Admit, AsksFor
<1> HIDE DEF over
<1>2. work' = [work EXCEPT ![p] = [work[p] EXCEPT !.egress = AsksFor(p), !.overwrite = over]]
  BY <1>1 DEF ScheduleTypeOK
<1>3. Becomes(p, "admitted", [work[p] EXCEPT !.egress = AsksFor(p), !.overwrite = over])
  BY <1>1, <1>2, Moved
<1> QED BY <1>1, <1>3 DEF over

LEMMA RefuseEffect ==
    ASSUME ScheduleTypeOK, HoldsInv, NEW p \in Processes, Refuse(p)
    PROVE  /\ pc[p] = "creating"
           /\ IF p = Web /\ IsScheduled(p) THEN RowBecomes(work[p].schedule, NoRow) ELSE row' = row
           /\ Leaves(p)
<1>1. IsScheduled(p) => work[p].schedule \in Schedules
  BY Held
<1> QED BY <1>1, Moved, RowSet DEF Refuse, Leaves

LEMMA CreateFailsEffect ==
    ASSUME ScheduleTypeOK, HoldsInv, NEW p \in Processes, CreateFails(p)
    PROVE  /\ pc[p] \in Creating
           /\ IF p = Web /\ IsScheduled(p) THEN RowBecomes(work[p].schedule, NoRow) ELSE row' = row
           /\ IF p = Web THEN Becomes(p, "idle", Idle) ELSE Becomes(p, "failed", work[p])
<1>1. IsScheduled(p) => work[p].schedule \in Schedules
  BY Held
<1> QED BY <1>1, Moved, RowSet DEF CreateFails, Creating

LEMMA StoreJobEffect ==
    ASSUME ScheduleTypeOK, HoldsInv, NEW p \in Processes, StoreJob(p)
    PROVE  /\ pc[p] = "admitted"
           /\ jobs' = Append(jobs, [state |-> "PROGRESS", schedule |-> work[p].schedule, due |-> work[p].due,
                                    request |-> work[p].request, egress |-> work[p].egress,
                                    overwrite |-> work[p].overwrite, pool |-> NoOne, fee |-> NoFee])
           /\ IF IsScheduled(p) /\ row[work[p].schedule].state = "flushed"
              THEN RowBecomes(work[p].schedule, [row[work[p].schedule] EXCEPT !.state = "stored"])
              ELSE row' = row
           /\ Becomes(p, "queueing", [work[p] EXCEPT !.job = Len(jobs) + 1])
<1> DEFINE s == work[p].schedule
<1>1. IsScheduled(p) => s \in Schedules
  BY Held
<1>2. work' = [work EXCEPT ![p] = [work[p] EXCEPT !.job = Len(jobs) + 1]] /\ GoTo(p, "queueing")
  BY DEF StoreJob, ScheduleTypeOK
<1>3. Becomes(p, "queueing", [work[p] EXCEPT !.job = Len(jobs) + 1])
  BY <1>2, Moved
<1>4. s \in Schedules => [row EXCEPT ![s].state = "stored"] = [row EXCEPT ![s] = [row[s] EXCEPT !.state = "stored"]]
  BY DEF ScheduleTypeOK
<1>5. IF IsScheduled(p) /\ row[s].state = "flushed"
      THEN RowBecomes(s, [row[s] EXCEPT !.state = "stored"]) ELSE row' = row
  <2>1. CASE IsScheduled(p) /\ row[s].state = "flushed"
    <3>1. row' = [row EXCEPT ![s] = [row[s] EXCEPT !.state = "stored"]]
      BY <1>1, <1>4, <2>1 DEF StoreJob
    <3> HIDE DEF s
    <3> QED BY <1>1, <2>1, <3>1, RowSet
  <2>2. CASE ~(IsScheduled(p) /\ row[s].state = "flushed")
    BY <2>2 DEF StoreJob
  <2> QED BY <2>1, <2>2
<1>6. /\ pc[p] = "admitted"
      /\ jobs' = Append(jobs, [state |-> "PROGRESS", schedule |-> work[p].schedule, due |-> work[p].due,
                                request |-> work[p].request, egress |-> work[p].egress,
                                overwrite |-> work[p].overwrite, pool |-> NoOne, fee |-> NoFee])
  BY DEF StoreJob
<1> QED BY <1>3, <1>5, <1>6

LEMMA QueueTheJobEffect ==
    ASSUME ScheduleTypeOK, HoldsInv, NEW p \in Processes, QueueTheJob(p)
    PROVE  LET j == work[p].job
               q == work[p].request
           IN  /\ pc[p] = "queueing" /\ j \in DOMAIN jobs
               /\ \E size \in {"unknown", "small", "large"} :
                     jobs' = [jobs EXCEPT ![j] = [jobs[j] EXCEPT
                                  !.pool = Route(q.src, q.dst, cfg, size),
                                  !.fee = Assess(q.src, q.dst, Runner(Route(q.src, q.dst, cfg, size), cfg))]]
               /\ IF IsScheduled(p) THEN Becomes(p, "recording", work[p]) ELSE Becomes(p, "idle", Idle)
<1> DEFINE j == work[p].job
           q == work[p].request
<1>1. pc[p] = "queueing" /\ j \in DOMAIN jobs
  BY DEF QueueTheJob, HoldsInv, JobHeld, Unrecorded
<1>2. PICK size \in {"unknown", "small", "large"} :
          jobs' = [jobs EXCEPT ![j].pool = Route(q.src, q.dst, cfg, size),
                               ![j].fee = Assess(q.src, q.dst, Runner(Route(q.src, q.dst, cfg, size), cfg))]
  BY DEF QueueTheJob
<1> DEFINE pool == Route(q.src, q.dst, cfg, size)
           fee == Assess(q.src, q.dst, Runner(pool, cfg))
<1>3. jobs' = [jobs EXCEPT ![j].pool = pool, ![j].fee = fee]
  BY <1>2
<1> HIDE DEF pool, fee
<1>4. jobs' = [jobs EXCEPT ![j] = [jobs[j] EXCEPT !.pool = pool, !.fee = fee]]
  BY <1>1, <1>3 DEF ScheduleTypeOK
<1>5. IF IsScheduled(p) THEN Becomes(p, "recording", work[p]) ELSE Becomes(p, "idle", Idle)
  BY Moved DEF QueueTheJob
<1>6. \E z \in {"unknown", "small", "large"} :
          jobs' = [jobs EXCEPT ![j] = [jobs[j] EXCEPT
                       !.pool = Route(q.src, q.dst, cfg, z),
                       !.fee = Assess(q.src, q.dst, Runner(Route(q.src, q.dst, cfg, z), cfg))]]
  BY <1>4 DEF pool, fee
<1> HIDE DEF q, j
<1> QED BY <1>1, <1>5, <1>6 DEF q, j

LEMMA QueueingFailsEffect ==
    ASSUME ScheduleTypeOK, HoldsInv, NEW p \in Processes, QueueingFails(p)
    PROVE  LET j == work[p].job
           IN  /\ pc[p] = "queueing" /\ j \in DOMAIN jobs
               /\ jobs' = [jobs EXCEPT ![j] = [jobs[j] EXCEPT !.state = "FAILED"]]
               /\ IF p = Web THEN Becomes(p, "idle", Idle) ELSE Becomes(p, "failed", work[p])
<1>1. pc[p] = "queueing" /\ work[p].job \in DOMAIN jobs
  BY DEF QueueingFails, HoldsInv, JobHeld, Unrecorded
<1>2. jobs' = [jobs EXCEPT ![work[p].job] = [jobs[work[p].job] EXCEPT !.state = "FAILED"]]
  BY <1>1 DEF QueueingFails, ScheduleTypeOK
<1> QED BY <1>1, <1>2, Moved DEF QueueingFails

LEMMA RecordEffect ==
    ASSUME ScheduleTypeOK, HoldsInv, NEW p \in Processes, Record(p)
    PROVE  LET s == work[p].schedule
           IN  /\ pc[p] = "recording" /\ s \in Schedules
               /\ IF Stored(s) THEN RowBecomes(s, [row[s] EXCEPT !.lastJob = work[p].job])
                  ELSE row' = row
               /\ Leaves(p)
<1>1. work[p].schedule \in Schedules
  BY Held DEF Record, HoldsInv, OwnerHolds
<1> QED BY <1>1, Moved, RowSet DEF Record, Leaves

LEMMA CreateScheduleEffect ==
    ASSUME ScheduleTypeOK, HoldsInv, NEW s \in Schedules, NEW spec \in Specs, NEW request \in Requests, NEW runNow \in BOOLEAN, CreateSchedule(s, spec, request, runNow)
    PROVE  LET egress == Confirmed(request.src, request.dst, cfg, request.raw)
           IN  /\ pc[Web] = "idle" /\ row[s].state = "new" /\ egress # "refused"
               /\ RowBecomes(s, [NoRow EXCEPT !.state = IF runNow THEN "flushed" ELSE "stored",
                                              !.enabled = TRUE, !.spec = spec, !.next = NextRun(spec, now),
                                              !.request = request, !.egress = egress])
               /\ IF runNow
                  THEN Becomes(Web, "creating", [Idle EXCEPT !.schedule = s,
                                                             !.request = [request EXCEPT !.raw = egress]])
                  ELSE UNCHANGED <<pc, work>>
BY Moved, Held, RowSet DEF CreateSchedule

LEMMA CreateCopyEffect ==
    ASSUME ScheduleTypeOK, HoldsInv, NEW request \in Requests, CreateCopy(request)
    PROVE  /\ pc[Web] = "idle"
           /\ Becomes(Web, "creating", [Idle EXCEPT !.request = request])
BY Moved, Held DEF CreateCopy

LEMMA PauseEffect ==
    ASSUME ScheduleTypeOK, HoldsInv, NEW s \in Schedules, Pause(s)
    PROVE  Stored(s) /\ RowBecomes(s, [row[s] EXCEPT !.enabled = FALSE])
BY RowSet DEF Pause

LEMMA DeleteScheduleEffect ==
    ASSUME ScheduleTypeOK, HoldsInv, NEW s \in Schedules, DeleteSchedule(s)
    PROVE  Stored(s) /\ RowBecomes(s, [row[s] EXCEPT !.state = "deleted", !.enabled = FALSE])
BY RowSet DEF DeleteSchedule

LEMMA EditByHandEffect ==
    ASSUME ScheduleTypeOK, HoldsInv, NEW s \in Schedules, EditByHand(s)
    PROVE  Stored(s) /\ RowBecomes(s, [row[s] EXCEPT !.valid = FALSE])
BY RowSet DEF EditByHand

LEMMA ResumeEffect ==
    ASSUME ScheduleTypeOK, HoldsInv, NEW s \in Schedules, Resume(s)
    PROVE  Stored(s) /\ RowBecomes(s, [row[s] EXCEPT !.enabled = TRUE, !.next = NextRun(row[s].spec, now)])
BY RowSet DEF Resume

LEMMA JobEndsEffect ==
    ASSUME ScheduleTypeOK, HoldsInv, NEW j \in DOMAIN jobs, JobEnds(j)
    PROVE  jobs' = [jobs EXCEPT ![j] = [jobs[j] EXCEPT !.state = "SUCCESS"]]
BY DEF JobEnds, ScheduleTypeOK

LEMMA CrashEffect ==
    ASSUME ScheduleTypeOK, HoldsInv, NEW p \in Processes, Crash(p)
    PROVE  LET s == work[p].schedule
           IN  /\ pc[p] # "idle" /\ Becomes(p, "idle", Idle)
               /\ IF IsScheduled(p) /\ row[s].state = "flushed" THEN RowBecomes(s, NoRow) ELSE row' = row
               /\ untracked' = IF IsScheduled(p) /\ pc[p] \in Unrecorded THEN untracked \cup {s}
                               ELSE untracked
<1>1. IsScheduled(p) => work[p].schedule \in Schedules
  BY Held
<1> QED BY <1>1, Moved, RowSet DEF Crash, Unrecorded

-----------------------------------------------------------------------------
(* Rows, field by field.                                                    *)

RowKeeps(x) ==
    /\ row'[x].state = row[x].state /\ row'[x].spec = row[x].spec
    /\ row'[x].next = row[x].next /\ row'[x].lastJob = row[x].lastJob
    /\ row'[x].request = row[x].request /\ row'[x].egress = row[x].egress
RowsKeep == \A x \in Schedules : RowKeeps(x)
RowsBut(s) == \A x \in Schedules \ {s} : RowKeeps(x)
NextBecomes(s, v) ==
    /\ RowsBut(s) /\ row'[s].next = v
    /\ row'[s].state = row[s].state /\ row'[s].spec = row[s].spec /\ row'[s].lastJob = row[s].lastJob
    /\ row'[s].request = row[s].request /\ row'[s].egress = row[s].egress
LastBecomes(s, v) ==
    /\ RowsBut(s) /\ row'[s].lastJob = v
    /\ row'[s].state = row[s].state /\ row'[s].spec = row[s].spec /\ row'[s].next = row[s].next
    /\ row'[s].request = row[s].request /\ row'[s].egress = row[s].egress
StateBecomes(s, v) ==
    /\ RowsBut(s) /\ row'[s].state = v
    /\ row'[s].lastJob = row[s].lastJob /\ row'[s].spec = row[s].spec /\ row'[s].next = row[s].next
    /\ row'[s].request = row[s].request /\ row'[s].egress = row[s].egress

\* Which fields of the rows a step changes.
LEMMA RowFields ==
    ASSUME ScheduleTypeOK, NEW s \in Schedules
    PROVE  /\ row' = row => RowsKeep
           /\ RowBecomes(s, [row[s] EXCEPT !.enabled = FALSE]) => RowsKeep
           /\ RowBecomes(s, [row[s] EXCEPT !.valid = FALSE]) => RowsKeep
           /\ \A v : RowBecomes(s, [row[s] EXCEPT !.next = v]) => NextBecomes(s, v)
           /\ \A v : RowBecomes(s, [row[s] EXCEPT !.enabled = TRUE, !.next = v]) => NextBecomes(s, v)
           /\ \A v : RowBecomes(s, [row[s] EXCEPT !.lastJob = v]) => LastBecomes(s, v)
           /\ RowBecomes(s, [row[s] EXCEPT !.state = "stored"]) => StateBecomes(s, "stored")
           /\ RowBecomes(s, [row[s] EXCEPT !.state = "deleted", !.enabled = FALSE]) => StateBecomes(s, "deleted")
<1>1. row[s] \in Rows
  BY DEF ScheduleTypeOK
<1>2. /\ row' = row => RowsKeep
      /\ RowBecomes(s, [row[s] EXCEPT !.enabled = FALSE]) => RowsKeep
      /\ RowBecomes(s, [row[s] EXCEPT !.valid = FALSE]) => RowsKeep
  BY <1>1 DEF Rows, RowBecomes, RowsKeep, RowKeeps
<1>3. ASSUME NEW v PROVE
      /\ RowBecomes(s, [row[s] EXCEPT !.next = v]) => NextBecomes(s, v)
      /\ RowBecomes(s, [row[s] EXCEPT !.enabled = TRUE, !.next = v]) => NextBecomes(s, v)
      /\ RowBecomes(s, [row[s] EXCEPT !.lastJob = v]) => LastBecomes(s, v)
  BY <1>1 DEF Rows, RowBecomes, RowsBut, RowKeeps, NextBecomes, LastBecomes
<1>4. /\ RowBecomes(s, [row[s] EXCEPT !.state = "stored"]) => StateBecomes(s, "stored")
      /\ RowBecomes(s, [row[s] EXCEPT !.state = "deleted", !.enabled = FALSE]) => StateBecomes(s, "deleted")
  BY <1>1 DEF Rows, RowBecomes, RowsBut, RowKeeps, StateBecomes
<1> QED BY <1>2, <1>3, <1>4

-----------------------------------------------------------------------------
(* Who holds what.                                                          *)

\* A step of the clock or of the settings.
LEMMA SameHolds ==
    ASSUME HoldsInv, UNCHANGED <<row, jobs, pc, work>>
    PROVE  HoldsInv'
BY DEF HoldsInv, RunnerHolds, OwnerHolds, RowHolds, JobHeld, IsScheduled

\* The jobs as a schedule sees them.
JobsKeep ==
    /\ DOMAIN jobs' = DOMAIN jobs
    /\ \A j \in DOMAIN jobs : jobs'[j].schedule = jobs[j].schedule /\ jobs'[j].due = jobs[j].due
StaysBut(p) == \A q \in Processes \ {p} : pc'[q] = pc[q] /\ work'[q] = work[q]

\* One process moves; rows and jobs keep what the invariant is about.
LEMMA OneMoves ==
    ASSUME ScheduleTypeOK, HoldsInv, NEW p \in Processes,
           \A x \in Schedules : /\ row'[x].state = row[x].state /\ row'[x].spec = row[x].spec
                                /\ row'[x].request = row[x].request,
           JobsKeep, StaysBut(p),
           p \in Runners => RunnerHolds(p)',
           p = Web => /\ OwnerHolds'
                      /\ \A s \in Schedules : row[s].state = "flushed" =>
                            pc'[Web] \in Creating /\ work'[Web].schedule = s,
           JobHeld(p)'
    PROVE  HoldsInv'
<1>1. ASSUME NEW r \in Runners, r # p PROVE RunnerHolds(r)'
  <2>1. pc'[r] = pc[r] /\ work'[r] = work[r] /\ RunnerHolds(r)
    BY <1>1, Held DEF StaysBut, HoldsInv
  <2> QED BY <2>1 DEF RunnerHolds
<1>2. ASSUME p # Web PROVE OwnerHolds' /\ pc'[Web] = pc[Web] /\ work'[Web] = work[Web]
  <2>1. pc'[Web] = pc[Web] /\ work'[Web] = work[Web] /\ OwnerHolds
    BY <1>2, Held DEF StaysBut, HoldsInv
  <2>2. IsScheduled(Web) => work[Web].schedule \in Schedules
    BY Held
  <2> QED BY <2>1, <2>2 DEF OwnerHolds, IsScheduled
<1>3. ASSUME NEW s \in Schedules PROVE RowHolds(s)'
  <2>1. RowHolds(s)
    BY DEF HoldsInv
  <2> QED BY <1>2, <2>1 DEF RowHolds, JobsKeep
<1>4. ASSUME NEW q \in Processes, q # p PROVE JobHeld(q)'
  <2>1. pc'[q] = pc[q] /\ work'[q] = work[q] /\ JobHeld(q)
    BY <1>4 DEF StaysBut, HoldsInv
  <2> QED BY <2>1 DEF JobHeld, JobsKeep
<1> QED BY <1>1, <1>2, <1>3, <1>4 DEF HoldsInv

\* A process that has done with a schedule that others see.
LEMMA LeavesHolds ==
    ASSUME ScheduleTypeOK, HoldsInv, NEW p \in Processes, Leaves(p), JobsKeep,
           \A x \in Schedules : /\ row'[x].state = row[x].state /\ row'[x].spec = row[x].spec
                                /\ row'[x].request = row[x].request,
           p = Web => Becomes(p, "idle", Idle) /\ \A s \in Schedules : row[s].state # "flushed"
    PROVE  HoldsInv'
<1>1. StaysBut(p)
  BY DEF Leaves, Passes, Becomes, StaysBut
<1>2. p \in Runners => RunnerHolds(p)'
  BY DEF Leaves, Passes, Becomes, RunnerHolds, Idle
<1>3. p = Web => OwnerHolds'
  BY DEF Becomes, OwnerHolds, Creating, Unrecorded
<1>4. JobHeld(p)'
  BY DEF Leaves, Passes, Becomes, JobHeld, Creating, Unrecorded
<1> QED BY <1>1, <1>2, <1>3, <1>4, OneMoves

\* The owner's request is given up: its schedule is gone with it.
LEMMA TakenBack ==
    ASSUME ScheduleTypeOK, HoldsInv, JobsKeep, pc[Web] \in Creating, IsScheduled(Web),
           RowBecomes(work[Web].schedule, NoRow), Becomes(Web, "idle", Idle)
    PROVE  HoldsInv'
<1> DEFINE s == work[Web].schedule
<1>1. s \in Schedules /\ Web \in Processes /\ row[s].state = "flushed"
  BY Held DEF HoldsInv, OwnerHolds
<1>2. row'[s].state = "new" /\ \A x \in Schedules \ {s} : row'[x] = row[x]
  BY DEF RowBecomes, NoRow
<1> HIDE DEF s
<1>3. ASSUME NEW r \in Runners PROVE RunnerHolds(r)'
  <2>1. pc'[r] = pc[r] /\ work'[r] = work[r] /\ RunnerHolds(r)
    BY <1>3, Held DEF Becomes, HoldsInv
  <2>2. work[r].schedule \in Schedules /\ row[work[r].schedule].state \in {"stored", "deleted"}
        => work[r].schedule # s
    BY <1>1
  <2> QED BY <1>2, <2>1, <2>2 DEF RunnerHolds
<1>4. OwnerHolds'
  BY DEF OwnerHolds, Becomes, Creating, Unrecorded
<1>5. ASSUME NEW x \in Schedules PROVE RowHolds(x)'
  <2>1. RowHolds(x) /\ RowHolds(s)
    BY <1>1 DEF HoldsInv
  <2>2. CASE x = s
    BY <1>1, <1>2, <2>1, <2>2 DEF RowHolds, JobsKeep
  <2>3. CASE x # s
    <3>1. row[x].state # "flushed"
      BY <2>1, <2>3 DEF RowHolds, s
    <3> QED BY <1>2, <2>1, <2>3, <3>1 DEF RowHolds, JobsKeep
  <2> QED BY <2>2, <2>3
<1>6. ASSUME NEW p \in Processes PROVE JobHeld(p)'
  <2>1. CASE p = Web
    BY <2>1 DEF Becomes, JobHeld, Creating, Unrecorded
  <2>2. CASE p # Web
    <3>1. pc'[p] = pc[p] /\ work'[p] = work[p] /\ JobHeld(p)
      BY <2>2 DEF Becomes, HoldsInv
    <3> QED BY <3>1 DEF JobHeld, JobsKeep
  <2> QED BY <2>1, <2>2
<1> QED BY <1>3, <1>4, <1>5, <1>6 DEF HoldsInv

\* A process that goes on with the creation or the end of its job, and one that has done.
LEMMA GoesOn ==
    ASSUME ScheduleTypeOK, HoldsInv, NEW p \in Processes, JobsKeep, UNCHANGED row, StaysBut(p),
           work'[p].schedule = work[p].schedule, work'[p].job = work[p].job,
           \/ pc[p] \in Creating /\ pc'[p] = "admitted"
           \/ pc[p] \in Unrecorded /\ pc'[p] = "recording" /\ IsScheduled(p)
           \/ pc[p] \in Creating \cup Unrecorded /\ pc'[p] = "failed" /\ p # Web
    PROVE  HoldsInv'
<1>1. /\ p \in Runners => RunnerHolds(p)
      /\ JobHeld(p) /\ OwnerHolds /\ Web \notin Runners
  BY Held DEF HoldsInv
<1>2. p \in Runners => RunnerHolds(p)'
  BY <1>1 DEF RunnerHolds, Creating, Unrecorded
<1>3. p = Web => OwnerHolds'
  BY <1>1 DEF OwnerHolds, Creating, Unrecorded, IsScheduled
<1>4. JobHeld(p)'
  BY <1>1 DEF JobHeld, JobsKeep, Creating, Unrecorded
<1>5. ASSUME NEW s \in Schedules, row[s].state = "flushed", p = Web
      PROVE  pc'[Web] \in Creating /\ work'[Web].schedule = s
  BY <1>5 DEF HoldsInv, RowHolds, Creating, Unrecorded
<1> QED BY <1>2, <1>3, <1>4, <1>5, OneMoves

\* ... after its job was stored.
LEMMA LeavesStored ==
    ASSUME ScheduleTypeOK, HoldsInv, NEW p \in Processes, Leaves(p), JobsKeep, pc[p] \in Unrecorded,
           p = Web => Becomes(p, "idle", Idle),
           \A x \in Schedules : /\ row'[x].state = row[x].state /\ row'[x].spec = row[x].spec
                                /\ row'[x].request = row[x].request
    PROVE  HoldsInv'
<1>1. p = Web => \A s \in Schedules : row[s].state # "flushed"
  BY DEF HoldsInv, RowHolds, Creating, Unrecorded
<1> QED BY <1>1, LeavesHolds

\* ... while it created one.
LEMMA LeavesCreation ==
    ASSUME ScheduleTypeOK, HoldsInv, NEW p \in Processes, Leaves(p), JobsKeep, pc[p] \in Creating,
           p = Web => Becomes(p, "idle", Idle),
           IF p = Web /\ IsScheduled(p) THEN RowBecomes(work[p].schedule, NoRow) ELSE row' = row
    PROVE  HoldsInv'
<1>1. CASE p = Web /\ IsScheduled(p)
  BY <1>1, TakenBack
<1>2. CASE ~(p = Web /\ IsScheduled(p))
  <2>1. p = Web => \A s \in Schedules : row[s].state # "flushed"
    BY <1>2, Held DEF HoldsInv, RowHolds
  <2> QED BY <1>2, <2>1, LeavesHolds
<1> QED BY <1>1, <1>2

\* The owner changes a row, or a job ends.
LEMMA RowsMove ==
    ASSUME ScheduleTypeOK, HoldsInv, JobsKeep, UNCHANGED <<pc, work>>,
           \A x \in Schedules :
               /\ row'[x].spec = row[x].spec /\ row'[x].request = row[x].request
               /\ row'[x].state = row[x].state \/ (row[x].state = "stored" /\ row'[x].state = "deleted")
    PROVE  HoldsInv'
<1>1. \A r \in Runners : RunnerHolds(r)'
  BY DEF HoldsInv, RunnerHolds
<1>2. OwnerHolds'
  BY Held DEF HoldsInv, OwnerHolds, IsScheduled
<1>3. \A s \in Schedules : RowHolds(s)'
  BY DEF HoldsInv, RowHolds, JobsKeep
<1>4. \A p \in Processes : JobHeld(p)'
  BY DEF HoldsInv, JobHeld, JobsKeep
<1> QED BY <1>1, <1>2, <1>3, <1>4 DEF HoldsInv

\* Every step keeps who holds what.
LEMMA HoldsKept ==
    ASSUME ScheduleTypeOK, HoldsInv, [ScheduleNext]_scheduleVars
    PROVE  HoldsInv'
<1>1. ASSUME NEW r \in Runners, StartTick(r) PROVE HoldsInv'
  <2>1. r \in Processes /\ r # Web /\ UNCHANGED row /\ JobsKeep
    BY <1>1, Held DEF StartTick, JobsKeep
  <2>2. Becomes(r, "claiming", [Idle EXCEPT !.at = now])
    BY <1>1, StartTickEffect
  <2>3. StaysBut(r) /\ RunnerHolds(r)' /\ JobHeld(r)'
    BY <2>2 DEF Becomes, StaysBut, RunnerHolds, JobHeld, Idle, Creating, Unrecorded
  <2> QED BY <2>1, <2>3, OneMoves
<1>2. ASSUME NEW r \in Runners, Find(r) PROVE HoldsInv'
  <2>1. r \in Processes /\ r # Web /\ UNCHANGED row /\ JobsKeep /\ work[r] \in Works
    BY <1>2, Held DEF Find, JobsKeep
  <2>2. CASE Becomes(r, "idle", Idle)
    BY <2>1, <2>2, LeavesHolds DEF Leaves
  <2>3. ASSUME NEW s \in Schedules, Stored(s),
               Becomes(r, "found", [work[r] EXCEPT !.schedule = s, !.due = row[s].next])
        PROVE  HoldsInv'
    <3>1. pc[r] = "claiming" /\ work[r].job = 0
      BY <1>2, FindEffect DEF HoldsInv, RunnerHolds
    <3>2. pc'[r] = "found" /\ work'[r].schedule = s /\ work'[r].job = 0 /\ StaysBut(r)
      BY <2>1, <2>3, <3>1 DEF Works, Becomes, StaysBut
    <3>3. RunnerHolds(r)' /\ JobHeld(r)'
      BY <2>1, <2>3, <3>2 DEF RunnerHolds, JobHeld, Stored, Creating, Unrecorded
    <3> QED BY <2>1, <3>2, <3>3, OneMoves
  <2> QED BY <1>2, <2>2, <2>3, FindEffect
<1>3. ASSUME NEW r \in Runners, Claim(r) PROVE HoldsInv'
  <2> DEFINE s == work[r].schedule
             next == NextRun(row[s].spec, work[r].at)
  <2>1. r \in Processes /\ r # Web /\ JobsKeep /\ work[r] \in Works /\ s \in Schedules
    BY <1>3, Held, ClaimEffect DEF Claim, JobsKeep
  <2>2. CASE Passes(r) /\ UNCHANGED row
    BY <2>1, <2>2, LeavesHolds DEF Leaves
  <2>3. CASE Stored(s) /\ NextBecomes(s, next) /\ Becomes(r, "claimed", work[r]) /\ pc[r] = "found"
    <3> HIDE DEF next
    <3>1. \A x \in Schedules : /\ row'[x].state = row[x].state /\ row'[x].spec = row[x].spec
                                /\ row'[x].request = row[x].request
      BY <2>3 DEF NextBecomes, RowsBut, RowKeeps
    <3>2. pc'[r] = "claimed" /\ work'[r] = work[r] /\ StaysBut(r)
      BY <2>3 DEF Becomes, StaysBut
    <3>3. RunnerHolds(r) /\ JobHeld(r)
      BY <2>1 DEF HoldsInv
    <3>4. RunnerHolds(r)' /\ JobHeld(r)'
      BY <2>1, <2>3, <3>1, <3>2, <3>3 DEF RunnerHolds, JobHeld, Creating, Unrecorded
    <3> QED BY <2>1, <3>1, <3>2, <3>4, OneMoves
  <2> HIDE DEF next
  <2>4. Stored(s) /\ RowBecomes(s, [row[s] EXCEPT !.next = next]) => NextBecomes(s, next)
    BY <2>1, RowFields
  <2> QED BY <1>3, <2>2, <2>3, <2>4, ClaimEffect DEF next
<1>4. ASSUME NEW r \in Runners, ClaimInvalid(r) PROVE HoldsInv'
  <2>1. r \in Processes /\ r # Web /\ JobsKeep
    BY <1>4, Held DEF ClaimInvalid, JobsKeep
  <2>2. RowsKeep /\ Leaves(r)
    BY <1>4, ClaimInvalidEffect, RowFields DEF Leaves, ClaimInvalid
  <2> QED BY <2>1, <2>2, LeavesHolds DEF RowsKeep, RowKeeps
<1>5. ASSUME NEW r \in Runners, RunClaimed(r) PROVE HoldsInv'
  <2> DEFINE s == work[r].schedule
             w == [work[r] EXCEPT !.request = [row[s].request EXCEPT !.raw = row[s].egress],
                                  !.last = row[s].lastJob]
  <2>1. r \in Processes /\ r # Web /\ UNCHANGED row /\ JobsKeep /\ work[r] \in Works
    BY <1>5, Held DEF RunClaimed, JobsKeep
  <2>2. CASE Leaves(r)
    BY <2>1, <2>2, LeavesHolds
  <2>3. CASE Stored(s) /\ Becomes(r, "creating", w)
    <3>1. pc[r] = "claimed" /\ RunnerHolds(r) /\ JobHeld(r)
      BY <1>5, <2>1, RunClaimedEffect DEF HoldsInv
    <3>2. w.schedule = s /\ w.job = work[r].job
      BY <2>1 DEF Works
    <3> HIDE DEF w
    <3>3. pc'[r] = "creating" /\ work'[r].schedule = s /\ work'[r].job = work[r].job /\ StaysBut(r)
      BY <2>3, <3>2 DEF Becomes, StaysBut
    <3>4. RunnerHolds(r)' /\ JobHeld(r)'
      BY <2>1, <3>1, <3>3 DEF RunnerHolds, JobHeld, Creating, Unrecorded
    <3> QED BY <2>1, <3>3, <3>4, OneMoves
  <2> QED BY <1>5, <2>2, <2>3, RunClaimedEffect
<1>6. ASSUME NEW r \in Runners, RefuseCost(r) PROVE HoldsInv'
  <2>1. r \in Processes /\ r # Web /\ JobsKeep
    BY <1>6, Held DEF RefuseCost, JobsKeep
  <2>2. RowsKeep /\ Leaves(r)
    BY <1>6, RefuseCostEffect, RowFields DEF Leaves, RefuseCost
  <2> QED BY <2>1, <2>2, LeavesHolds DEF RowsKeep, RowKeeps
<1>7. ASSUME NEW r \in Runners, RecordFailure(r) PROVE HoldsInv'
  <2>1. r \in Processes /\ r # Web /\ JobsKeep
    BY <1>7, Held DEF RecordFailure, JobsKeep
  <2>2. (RowsKeep \/ \E s \in Schedules : \E j : LastBecomes(s, j)) /\ Leaves(r)
    BY <1>7, RecordFailureEffect, RowFields DEF Leaves, RecordFailure
  <2> QED BY <2>1, <2>2, LeavesHolds DEF RowsKeep, RowKeeps, LastBecomes, RowsBut
<1>8. ASSUME NEW p \in Processes, Admit(p) PROVE HoldsInv'
  <2> DEFINE w == [work[p] EXCEPT !.egress = AsksFor(p),
                     !.overwrite = IF IsScheduled(p) THEN cfg.general
                                   ELSE Decide(places, work[p].request.dst, work[p].request.path, cfg)]
  <2>1. UNCHANGED row /\ JobsKeep /\ pc[p] = "creating"
    BY <1>8 DEF Admit, JobsKeep
  <2>2. w.schedule = work[p].schedule /\ w.job = work[p].job
    <3>1. work[p] \in Works
      BY Held
    <3> QED BY <3>1 DEF Works
  <2>3. Becomes(p, "admitted", w)
    BY <1>8, AdmitEffect
  <2> HIDE DEF w
  <2>4. pc'[p] = "admitted" /\ work'[p].schedule = work[p].schedule /\ work'[p].job = work[p].job /\ StaysBut(p)
    BY <2>2, <2>3 DEF Becomes, StaysBut
  <2> QED BY <2>1, <2>4, GoesOn DEF Creating
<1>9. ASSUME NEW p \in Processes, Refuse(p) PROVE HoldsInv'
  <2>1. JobsKeep /\ pc[p] \in Creating
    BY <1>9 DEF Refuse, JobsKeep, Creating
  <2>2. Leaves(p) /\ (p = Web => Becomes(p, "idle", Idle))
    BY <1>9, RefuseEffect, Moved DEF Refuse
  <2>3. IF p = Web /\ IsScheduled(p) THEN RowBecomes(work[p].schedule, NoRow) ELSE row' = row
    BY <1>9, RefuseEffect
  <2> QED BY <2>1, <2>2, <2>3, LeavesCreation
<1>10. ASSUME NEW p \in Processes, CreateFails(p) PROVE HoldsInv'
  <2>1. JobsKeep /\ pc[p] \in Creating
    BY <1>10 DEF CreateFails, JobsKeep, Creating
  <2>2. IF p = Web /\ IsScheduled(p) THEN RowBecomes(work[p].schedule, NoRow) ELSE row' = row
    BY <1>10, CreateFailsEffect
  <2>3. CASE p = Web /\ Becomes(p, "idle", Idle)
    BY <2>1, <2>2, <2>3, LeavesCreation DEF Leaves
  <2>4. CASE p # Web /\ Becomes(p, "failed", work[p])
    BY <2>1, <2>2, <2>4, GoesOn DEF Becomes, StaysBut
  <2> QED BY <1>10, <2>3, <2>4, CreateFailsEffect
<1>11. ASSUME NEW p \in Processes, StoreJob(p) PROVE HoldsInv'
  <2> DEFINE s == work[p].schedule
             n == Len(jobs) + 1
  <2>1. pc[p] = "admitted" /\ Becomes(p, "queueing", [work[p] EXCEPT !.job = n])
    BY <1>11, StoreJobEffect
  <2>2. work[p] \in Works /\ (p = Web \/ p \in Runners) /\ Web \notin Runners /\ Web \in Processes
    BY Held
  <2>3. pc'[p] = "queueing" /\ work'[p].schedule = s /\ work'[p].job = n /\ StaysBut(p)
    BY <2>1, <2>2 DEF Works, Becomes, StaysBut
  <2>4. /\ n \in DOMAIN jobs' /\ jobs'[n].schedule = s
        /\ \A j \in DOMAIN jobs : j \in DOMAIN jobs' /\ jobs'[j] = jobs[j]
        /\ \A j \in DOMAIN jobs' : j \in DOMAIN jobs \/ j = n
    <3> DEFINE job == [state |-> "PROGRESS", schedule |-> work[p].schedule, due |-> work[p].due,
                       request |-> work[p].request, egress |-> work[p].egress,
                       overwrite |-> work[p].overwrite, pool |-> NoOne, fee |-> NoFee]
    <3>1. jobs' = Append(jobs, job) /\ job.schedule = s
      BY <1>11, StoreJobEffect
    <3> HIDE DEF job
    <3> QED BY <3>1 DEF ScheduleTypeOK
  <2> HIDE DEF n
  \* The row of a request is stored with its job.
  <2>5. /\ \A x \in Schedules : /\ row'[x].spec = row[x].spec /\ row'[x].request = row[x].request
                                /\ x # s => row'[x].state = row[x].state
        /\ s \in Schedules => row'[s].state \in {"stored", "deleted"}
    <3>1. CASE IsScheduled(p) /\ row[s].state = "flushed"
      <4>1. s \in Schedules
        BY <3>1, Held
      <4>2. StateBecomes(s, "stored")
        BY <1>11, <3>1, <4>1, StoreJobEffect, RowFields
      <4> QED BY <4>2 DEF StateBecomes, RowsBut, RowKeeps
    <3>2. CASE ~(IsScheduled(p) /\ row[s].state = "flushed")
      <4>1. row' = row
        BY <1>11, <3>2, StoreJobEffect
      <4>2. s \in Schedules => row[s].state \in {"stored", "deleted"}
        <5>1. s \in Schedules => IsScheduled(p)
          BY Held
        <5>2. p \in Runners => RunnerHolds(p)
          BY DEF HoldsInv
        <5> QED BY <2>1, <2>2, <3>2, <5>1, <5>2 DEF HoldsInv, OwnerHolds, RunnerHolds, Creating
      <4> QED BY <4>1, <4>2
    <3> QED BY <3>1, <3>2
  <2> HIDE DEF s
  <2>6. ASSUME NEW r \in Runners PROVE RunnerHolds(r)'
    <3>1. RunnerHolds(r) /\ r \in Processes
      BY Held DEF HoldsInv
    <3>2. CASE r = p
      BY <2>1, <2>3, <2>5, <3>1, <3>2 DEF RunnerHolds, s
    <3>3. CASE r # p
      BY <2>3, <2>5, <3>1, <3>3 DEF RunnerHolds, StaysBut
    <3> QED BY <3>2, <3>3
  <2>7. OwnerHolds'
    <3>1. CASE p = Web
      BY <2>3, <2>5, <3>1, Held DEF OwnerHolds, Creating, Unrecorded, IsScheduled, s
    <3>2. CASE p # Web
      <4>1. pc'[Web] = pc[Web] /\ work'[Web] = work[Web] /\ (IsScheduled(Web) <=> work[Web].schedule \in Schedules)
        BY <2>2, <2>3, <3>2, Held DEF StaysBut
      <4>2. s \in Schedules => row[s].state \in {"stored", "deleted"}
        <5>1. p \in Runners /\ RunnerHolds(p)
          BY <2>2, <3>2 DEF HoldsInv
        <5> QED BY <2>1, <5>1 DEF RunnerHolds, s
      <4>3. OwnerHolds
        BY DEF HoldsInv
      <4> QED BY <2>5, <4>1, <4>2, <4>3 DEF OwnerHolds, IsScheduled
    <3> QED BY <3>1, <3>2
  <2>8. ASSUME NEW x \in Schedules PROVE RowHolds(x)'
    <3>1. RowHolds(x)
      BY DEF HoldsInv
    <3>2. CASE x = s
      <4>1. row'[x].state \in {"stored", "deleted"} /\ row'[x].spec = row[x].spec
            /\ row'[x].request = row[x].request
        BY <2>5, <3>2
      <4>2. row[x].state # "new"
        <5>1. CASE p \in Runners
          <6>1. RunnerHolds(p)
            BY <5>1 DEF HoldsInv
          <6> QED BY <2>1, <3>2, <6>1 DEF RunnerHolds, s
        <5>2. CASE p = Web
          <6>1. IsScheduled(Web)
            BY <2>2, <3>2, <5>2, Held DEF s
          <6>2. OwnerHolds
            BY DEF HoldsInv
          <6> QED BY <2>1, <3>2, <5>2, <6>1, <6>2 DEF OwnerHolds, s, Creating
        <5> QED BY <2>2, <5>1, <5>2
      <4> QED BY <3>1, <4>1, <4>2 DEF RowHolds
    <3>3. CASE x # s
      <4>1. row[x].state = "flushed" => pc'[Web] \in Creating /\ work'[Web].schedule = x
        <5>1. CASE p = Web
          BY <3>1, <3>3, <5>1 DEF RowHolds, s
        <5>2. CASE p # Web
          BY <2>2, <2>3, <3>1, <5>2 DEF RowHolds, StaysBut
        <5> QED BY <5>1, <5>2
      <4>2. row[x].state \in {"new", "flushed"} => \A j \in DOMAIN jobs' : jobs'[j].schedule # x
        BY <2>4, <3>1, <3>3 DEF RowHolds
      <4>3. row'[x].state = row[x].state /\ row'[x].spec = row[x].spec /\ row'[x].request = row[x].request
        BY <2>5, <3>3
      <4> QED BY <3>1, <4>1, <4>2, <4>3 DEF RowHolds
    <3> QED BY <3>2, <3>3
  <2>9. ASSUME NEW q \in Processes PROVE JobHeld(q)'
    <3>1. CASE q = p
      BY <2>3, <2>4, <3>1 DEF JobHeld, Creating, Unrecorded
    <3>2. CASE q # p
      <4>1. pc'[q] = pc[q] /\ work'[q] = work[q] /\ JobHeld(q)
        BY <2>3, <3>2 DEF StaysBut, HoldsInv
      <4> QED BY <2>4, <4>1 DEF JobHeld
    <3> QED BY <3>1, <3>2
  <2> QED BY <2>6, <2>7, <2>8, <2>9 DEF HoldsInv
<1>12. ASSUME NEW p \in Processes, QueueTheJob(p) PROVE HoldsInv'
  <2> DEFINE j == work[p].job
  <2>0. \E pool, fee : jobs' = [jobs EXCEPT ![j] = [jobs[j] EXCEPT !.pool = pool, !.fee = fee]]
    <3> DEFINE q == work[p].request
               poolOf(z) == Route(q.src, q.dst, cfg, z)
               feeOf(z)  == Assess(q.src, q.dst, Runner(poolOf(z), cfg))
    <3>1. PICK z \in {"unknown", "small", "large"} :
              jobs' = [jobs EXCEPT ![j] = [jobs[j] EXCEPT !.pool = poolOf(z), !.fee = feeOf(z)]]
      BY <1>12, QueueTheJobEffect
    <3> HIDE DEF poolOf, feeOf
    <3> QED BY <3>1
  <2>1. UNCHANGED row /\ JobsKeep /\ pc[p] = "queueing"
    <3>1. PICK pool, fee : jobs' = [jobs EXCEPT ![j] = [jobs[j] EXCEPT !.pool = pool, !.fee = fee]]
      BY <2>0
    <3>2. j \in DOMAIN jobs /\ pc[p] = "queueing" /\ UNCHANGED row
      BY <1>12, QueueTheJobEffect DEF QueueTheJob
    <3>3. jobs[j] \in Jobs
      BY <3>2 DEF ScheduleTypeOK
    <3> QED BY <3>1, <3>2, <3>3 DEF JobsKeep, Jobs
  <2>2. CASE IsScheduled(p) /\ Becomes(p, "recording", work[p])
    BY <2>1, <2>2, GoesOn DEF Becomes, StaysBut, Unrecorded
  <2>3. CASE Becomes(p, "idle", Idle)
    BY <2>1, <2>3, LeavesStored DEF Unrecorded, Leaves
  <2> QED BY <1>12, <2>2, <2>3, QueueTheJobEffect
<1>13. ASSUME NEW p \in Processes, QueueingFails(p) PROVE HoldsInv'
  <2>1. UNCHANGED row /\ JobsKeep /\ pc[p] = "queueing"
    BY <1>13, QueueingFailsEffect DEF QueueingFails, JobsKeep, ScheduleTypeOK, Jobs
  <2>2. CASE p # Web /\ Becomes(p, "failed", work[p])
    BY <2>1, <2>2, GoesOn DEF Becomes, StaysBut, Unrecorded
  <2>3. CASE Becomes(p, "idle", Idle)
    BY <2>1, <2>3, LeavesStored DEF Unrecorded, Leaves
  <2> QED BY <1>13, <2>2, <2>3, QueueingFailsEffect
<1>14. ASSUME NEW p \in Processes, Record(p) PROVE HoldsInv'
  <2>1. JobsKeep /\ pc[p] = "recording" /\ work[p].schedule \in Schedules
    BY <1>14, RecordEffect DEF Record, JobsKeep
  <2>2. Leaves(p) /\ (p = Web => Becomes(p, "idle", Idle))
    BY <1>14, RecordEffect, Moved DEF Record
  <2>3. \A x \in Schedules : /\ row'[x].state = row[x].state /\ row'[x].spec = row[x].spec
                              /\ row'[x].request = row[x].request
    <3>1. RowsKeep \/ LastBecomes(work[p].schedule, work[p].job)
      BY <1>14, <2>1, RecordEffect, RowFields
    <3> QED BY <3>1 DEF RowsKeep, RowKeeps, LastBecomes, RowsBut
  <2> QED BY <2>1, <2>2, <2>3, LeavesStored DEF Unrecorded
<1>15. ASSUME NEW s \in Schedules, NEW spec \in Specs, NEW request \in Requests, NEW runNow \in BOOLEAN, CreateSchedule(s, spec, request, runNow) PROVE HoldsInv'
  <2>1. /\ pc[Web] = "idle" /\ row[s].state = "new" /\ UNCHANGED jobs
        /\ Web \in Processes /\ Web \notin Runners
    BY <1>15, CreateScheduleEffect, Held DEF CreateSchedule
  <2> DEFINE next   == NextRun(spec, now)
             egress == Confirmed(request.src, request.dst, cfg, request.raw)
  <2>2. /\ row'[s].state = IF runNow THEN "flushed" ELSE "stored"
        /\ row'[s].spec = spec /\ row'[s].request = request
        /\ \A x \in Schedules \ {s} : row'[x] = row[x]
    <3>1. RowBecomes(s, [NoRow EXCEPT !.state = IF runNow THEN "flushed" ELSE "stored",
                                      !.enabled = TRUE, !.spec = spec, !.next = next,
                                      !.request = request, !.egress = egress])
      BY <1>15, CreateScheduleEffect, ZenonT(30)
    <3> HIDE DEF next, egress
    <3> QED BY <3>1 DEF RowBecomes, NoRow
  <2>3. StaysBut(Web) /\ (runNow => pc'[Web] = "creating" /\ work'[Web].schedule = s /\ work'[Web].job = 0)
        /\ (~runNow => pc'[Web] = pc[Web] /\ work'[Web] = work[Web])
    <3>1. CASE runNow
      <4>1. Becomes(Web, "creating", [Idle EXCEPT !.schedule = s, !.request = [request EXCEPT !.raw = egress]])
        BY <1>15, <3>1, CreateScheduleEffect
      <4> HIDE DEF egress
      <4> QED BY <3>1, <4>1 DEF Becomes, StaysBut, Idle
    <3>2. CASE ~runNow
      <4>1. UNCHANGED <<pc, work>>
        BY <1>15, <3>2, CreateScheduleEffect
      <4> QED BY <3>2, <4>1 DEF StaysBut
    <3> QED BY <3>1, <3>2
  <2>4. ASSUME NEW x \in Schedules PROVE row[x].state # "flushed"
    BY <2>1, <2>4 DEF HoldsInv, RowHolds, Creating
  <2>5. ASSUME NEW r \in Runners PROVE RunnerHolds(r)'
    <3>1. RunnerHolds(r) /\ pc'[r] = pc[r] /\ work'[r] = work[r]
      BY <2>1, <2>3, <2>5, Held DEF HoldsInv, StaysBut
    <3> QED BY <2>1, <2>2, <3>1 DEF RunnerHolds
  <2>6. OwnerHolds'
    BY <2>1, <2>2, <2>3 DEF HoldsInv, OwnerHolds, Creating, Unrecorded, IsScheduled
  <2>7. ASSUME NEW x \in Schedules PROVE RowHolds(x)'
    <3>1. RowHolds(x)
      BY DEF HoldsInv
    <3>2. CASE x = s
      BY <2>1, <2>2, <2>3, <3>1, <3>2 DEF RowHolds, Creating
    <3>3. CASE x # s
      BY <2>1, <2>2, <2>4, <3>1, <3>3 DEF RowHolds
    <3> QED BY <3>2, <3>3
  <2>8. ASSUME NEW q \in Processes PROVE JobHeld(q)'
    <3>1. JobHeld(q)
      BY DEF HoldsInv
    <3>2. CASE q = Web /\ runNow
      BY <2>3, <3>2 DEF JobHeld, Unrecorded
    <3>3. CASE ~(q = Web /\ runNow)
      BY <2>1, <2>3, <3>1, <3>3 DEF JobHeld, StaysBut
    <3> QED BY <3>2, <3>3
  <2> QED BY <2>5, <2>6, <2>7, <2>8 DEF HoldsInv
<1>16. ASSUME NEW request \in Requests, CreateCopy(request) PROVE HoldsInv'
  <2>1. UNCHANGED row /\ JobsKeep /\ Web \in Processes /\ Web \notin Runners
    BY <1>16, Held DEF CreateCopy, JobsKeep
  <2>2. pc[Web] = "idle" /\ Becomes(Web, "creating", [Idle EXCEPT !.request = request])
    BY <1>16, CreateCopyEffect
  <2>3. StaysBut(Web) /\ OwnerHolds' /\ JobHeld(Web)'
    BY <2>2 DEF Becomes, StaysBut, OwnerHolds, JobHeld, Idle, Creating, Unrecorded, IsScheduled
  <2>4. \A s \in Schedules : row[s].state # "flushed"
    BY <2>2 DEF HoldsInv, RowHolds, Creating
  <2> QED BY <2>1, <2>3, <2>4, OneMoves
<1>17. ASSUME NEW s \in Schedules, Pause(s) PROVE HoldsInv'
  <2>1. UNCHANGED <<pc, work>> /\ JobsKeep /\ Stored(s)
    BY <1>17 DEF Pause, JobsKeep
  <2>2. RowsKeep
    BY <1>17, PauseEffect, RowFields
  <2> QED BY <2>1, <2>2, RowsMove DEF RowsKeep, RowKeeps, RowsBut, NextBecomes, StateBecomes, Stored
<1>18. ASSUME NEW s \in Schedules, Resume(s) PROVE HoldsInv'
  <2>1. UNCHANGED <<pc, work>> /\ JobsKeep /\ Stored(s)
    BY <1>18 DEF Resume, JobsKeep
  <2>2. \E v : NextBecomes(s, v)
    BY <1>18, ResumeEffect, RowFields
  <2> QED BY <2>1, <2>2, RowsMove DEF RowsKeep, RowKeeps, RowsBut, NextBecomes, StateBecomes, Stored
<1>19. ASSUME NEW s \in Schedules, DeleteSchedule(s) PROVE HoldsInv'
  <2>1. UNCHANGED <<pc, work>> /\ JobsKeep /\ Stored(s)
    BY <1>19 DEF DeleteSchedule, JobsKeep
  <2>2. StateBecomes(s, "deleted")
    BY <1>19, DeleteScheduleEffect, RowFields
  <2> QED BY <2>1, <2>2, RowsMove DEF RowsKeep, RowKeeps, RowsBut, NextBecomes, StateBecomes, Stored
<1>20. ASSUME NEW s \in Schedules, EditByHand(s) PROVE HoldsInv'
  <2>1. UNCHANGED <<pc, work>> /\ JobsKeep /\ Stored(s)
    BY <1>20 DEF EditByHand, JobsKeep
  <2>2. RowsKeep
    BY <1>20, EditByHandEffect, RowFields
  <2> QED BY <2>1, <2>2, RowsMove DEF RowsKeep, RowKeeps, RowsBut, NextBecomes, StateBecomes, Stored
<1>21. ASSUME NEW j \in DOMAIN jobs, JobEnds(j) PROVE HoldsInv'
  <2>1. UNCHANGED <<pc, work, row>> /\ JobsKeep
    BY <1>21, JobEndsEffect DEF JobEnds, JobsKeep, ScheduleTypeOK, Jobs
  <2> QED BY <2>1, RowsMove
<1>22. ASSUME NEW p \in Processes, Crash(p) PROVE HoldsInv'
  <2> DEFINE s == work[p].schedule
  <2>1. JobsKeep /\ Becomes(p, "idle", Idle)
    BY <1>22, CrashEffect DEF Crash, JobsKeep
  <2>2. IF IsScheduled(p) /\ row[s].state = "flushed" THEN RowBecomes(s, NoRow) ELSE row' = row
    BY <1>22, CrashEffect
  <2>3. CASE p = Web /\ pc[p] \in Creating
    <3>1. IsScheduled(p) => row[s].state = "flushed"
      BY <2>3 DEF HoldsInv, OwnerHolds
    <3> QED BY <2>1, <2>2, <2>3, <3>1, LeavesCreation DEF Leaves
  <2>4. CASE ~(p = Web /\ pc[p] \in Creating)
    <3>1. p \in Runners => RunnerHolds(p)
      BY DEF HoldsInv
    <3>2. IsScheduled(p) => row[s].state # "flushed"
      <4>1. CASE p \in Runners
        BY <1>22, <3>1, <4>1, CrashEffect DEF RunnerHolds, IsScheduled, Idle
      <4>2. CASE p = Web
        BY <1>22, <2>4, <4>2, CrashEffect DEF HoldsInv, OwnerHolds
      <4> QED BY <4>1, <4>2, Held
    <3>3. row' = row
      BY <2>2, <3>2
    <3>4. p = Web => \A x \in Schedules : row[x].state # "flushed"
      BY <2>4 DEF HoldsInv, RowHolds
    <3> QED BY <2>1, <3>3, <3>4, LeavesHolds DEF Leaves
  <2> QED BY <2>3, <2>4
<1>23. ASSUME Reconfigure PROVE HoldsInv'
  <2>1. UNCHANGED <<row, jobs, pc, work>>
    BY <1>23 DEF Reconfigure
  <2> QED BY <2>1, SameHolds
<1>24. ASSUME ClockTick PROVE HoldsInv'
  <2>1. UNCHANGED <<row, jobs, pc, work>>
    BY <1>24 DEF ClockTick
  <2> QED BY <2>1, SameHolds
<1>25. ASSUME UNCHANGED scheduleVars PROVE HoldsInv'
  BY <1>25, SameHolds DEF scheduleVars
<1> QED
  BY <1>1, <1>2, <1>3, <1>4, <1>5, <1>6, <1>7, <1>8, <1>9, <1>10, <1>11, <1>12, <1>13, <1>14, <1>15, <1>16, <1>17, <1>18, <1>19, <1>20, <1>21, <1>22, <1>23, <1>24, <1>25
     DEF ScheduleNext, RunnerStep, CreateStep, OwnerStep, Processes

-----------------------------------------------------------------------------
(* Times: the next one of a schedule, and those its jobs are for.           *)

\* The numbers of a state.
Numbers ==
    /\ now \in Nat
    /\ \A s \in Schedules : row[s].next \in Nat
    /\ \A p \in Processes : work[p].at \in Nat /\ work[p].due \in Nat /\ work[p].job \in Nat
    /\ \A j \in DOMAIN jobs : jobs[j].due \in Nat

LEMMA TypedNumbers ==
    /\ ScheduleTypeOK => Numbers
    /\ ScheduleTypeOK' => Numbers'
<1>1. ASSUME ScheduleTypeOK PROVE Numbers
  <2>1. \A s \in Schedules : row[s] \in Rows
    BY <1>1 DEF ScheduleTypeOK
  <2>2. \A p \in Processes : work[p] \in Works
    BY <1>1 DEF ScheduleTypeOK
  <2>3. \A j \in DOMAIN jobs : jobs[j] \in Jobs
    BY <1>1 DEF ScheduleTypeOK
  <2>4. now \in Nat
    BY <1>1 DEF ScheduleTypeOK
  <2> QED BY <2>1, <2>2, <2>3, <2>4 DEF Numbers, Rows, Works, Jobs
<1>2. ASSUME ScheduleTypeOK' PROVE Numbers'
  <2>1. \A s \in Schedules : row'[s] \in Rows
    BY <1>2 DEF ScheduleTypeOK
  <2>2. \A p \in Processes : work'[p] \in Works
    BY <1>2 DEF ScheduleTypeOK
  <2>3. \A j \in DOMAIN jobs' : jobs'[j] \in Jobs
    BY <1>2 DEF ScheduleTypeOK
  <2>4. now' \in Nat
    BY <1>2 DEF ScheduleTypeOK
  <2> QED BY <2>1, <2>2, <2>3, <2>4 DEF Numbers, Rows, Works, Jobs
<1> QED BY <1>1, <1>2

\* A row keeps its times, or it is taken back before anybody else saw it.
RowWaits(x) ==
    \/ row'[x].state = "new" /\ row[x].state \in {"new", "flushed"}
    \/ /\ row[x].state # "new"
       /\ row'[x].spec = row[x].spec /\ row'[x].next = row[x].next
RowsWait == \A x \in Schedules : RowWaits(x)

\* Changes of a row that leave its times alone.
LEMMA KeptRowsWait ==
    ASSUME NEW s \in Schedules
    PROVE  /\ RowsKeep => RowsWait
           /\ \A v : LastBecomes(s, v) => RowsWait \/ row[s].state = "new"
           /\ \A v : StateBecomes(s, v) => RowsWait \/ row[s].state = "new"
           /\ RowBecomes(s, NoRow) /\ row[s].state = "flushed" => RowsWait
           /\ row' = row => RowsWait
<1>1. RowsKeep => RowsWait
  BY DEF RowsKeep, RowKeeps, RowsWait, RowWaits
<1>2. ASSUME NEW v, LastBecomes(s, v), row[s].state # "new" PROVE RowsWait
  BY <1>2 DEF RowsBut, RowKeeps, RowsWait, RowWaits, LastBecomes
<1>3. ASSUME NEW v, StateBecomes(s, v), row[s].state # "new" PROVE RowsWait
  BY <1>3 DEF RowsBut, RowKeeps, RowsWait, RowWaits, StateBecomes
<1>4. ASSUME RowBecomes(s, NoRow), row[s].state = "flushed" PROVE RowsWait
  <2>1. row'[s].state = "new" /\ \A x \in Schedules \ {s} : row'[x] = row[x]
    BY <1>4 DEF RowBecomes, NoRow
  <2> QED BY <1>4, <2>1 DEF RowsWait, RowWaits
<1>5. row' = row => RowsWait
  BY DEF RowsWait, RowWaits
<1> QED BY <1>1, <1>2, <1>3, <1>4, <1>5

\* What a step does to the times of the schedules.
RowsGo ==
    \/ RowsWait
    \/ \E s \in Schedules, r \in Runners :
          /\ pc[r] = "found" /\ s = work[r].schedule /\ row[s].next = work[r].due
          /\ row[s].state # "new" /\ NextBecomes(s, NextRun(row[s].spec, work[r].at))
    \/ \E s \in Schedules : row[s].state # "new" /\ NextBecomes(s, NextRun(row[s].spec, now))
    \/ \E s \in Schedules, spec \in Specs :
          /\ row[s].state = "new" /\ row'[s].spec = spec /\ row'[s].next = NextRun(spec, now)
          /\ \A x \in Schedules \ {s} : row'[x] = row[x]

\* Only a claim, a resume and the creation of a schedule compute a next time.
LEMMA RowsGoOn ==
    ASSUME ScheduleTypeOK, HoldsInv, [ScheduleNext]_scheduleVars
    PROVE  RowsGo
<1>1. ASSUME NEW r \in Runners, StartTick(r) PROVE RowsGo
  BY <1>1 DEF StartTick, RowsGo, RowsWait, RowWaits
<1>2. ASSUME NEW r \in Runners, Find(r) PROVE RowsGo
  BY <1>2 DEF Find, RowsGo, RowsWait, RowWaits
<1>3. ASSUME NEW r \in Runners, Claim(r) PROVE RowsGo
  <2> DEFINE s == work[r].schedule
             next == NextRun(row[s].spec, work[r].at)
  <2>1. s \in Schedules /\ pc[r] = "found"
    BY <1>3, ClaimEffect
  <2>2. CASE UNCHANGED row
    BY <2>1, <2>2, KeptRowsWait DEF RowsGo
  <2>3. CASE Stored(s) /\ row[s].next = work[r].due /\ RowBecomes(s, [row[s] EXCEPT !.next = next])
    <3> HIDE DEF next
    <3>1. NextBecomes(s, next)
      BY <2>1, <2>3, RowFields
    <3> QED BY <2>1, <2>3, <3>1 DEF RowsGo, Stored, next
  <2> QED BY <1>3, <2>2, <2>3, ClaimEffect
<1>4. ASSUME NEW r \in Runners, ClaimInvalid(r) PROVE RowsGo
  BY <1>4, ClaimInvalidEffect, RowFields, KeptRowsWait DEF RowsGo
<1>5. ASSUME NEW r \in Runners, RunClaimed(r) PROVE RowsGo
  BY <1>5 DEF RunClaimed, RowsGo, RowsWait, RowWaits
<1>6. ASSUME NEW r \in Runners, RefuseCost(r) PROVE RowsGo
  BY <1>6, RefuseCostEffect, RowFields, KeptRowsWait DEF RowsGo
<1>7. ASSUME NEW r \in Runners, RecordFailure(r) PROVE RowsGo
  <2>1. /\ work[r].schedule \in Schedules /\ row[work[r].schedule].state # "new"
        /\ row' = row \/ \E j : RowBecomes(work[r].schedule, [row[work[r].schedule] EXCEPT !.lastJob = j])
    BY <1>7, RecordFailureEffect DEF HoldsInv, RunnerHolds
  <2> QED BY <2>1, RowFields, KeptRowsWait DEF RowsGo
<1>8. ASSUME NEW p \in Processes, Admit(p) PROVE RowsGo
  BY <1>8 DEF Admit, RowsGo, RowsWait, RowWaits
<1>9. ASSUME NEW p \in Processes, Refuse(p) PROVE RowsGo
  <2>1. pc[p] = "creating" /\ IF p = Web /\ IsScheduled(p) THEN RowBecomes(work[p].schedule, NoRow) ELSE row' = row
    BY <1>9, RefuseEffect
  <2> DEFINE s == work[p].schedule
  <2>2. p = Web /\ IsScheduled(p) => s \in Schedules /\ row[s].state = "flushed"
    BY <2>1, Held DEF HoldsInv, OwnerHolds, Creating
  <2> HIDE DEF s
  <2> QED BY <2>1, <2>2, KeptRowsWait DEF RowsGo, RowsWait, RowWaits, s
<1>10. ASSUME NEW p \in Processes, CreateFails(p) PROVE RowsGo
  <2>1. pc[p] \in Creating /\ IF p = Web /\ IsScheduled(p) THEN RowBecomes(work[p].schedule, NoRow) ELSE row' = row
    BY <1>10, CreateFailsEffect
  <2> DEFINE s == work[p].schedule
  <2>2. p = Web /\ IsScheduled(p) => s \in Schedules /\ row[s].state = "flushed"
    BY <2>1, Held DEF HoldsInv, OwnerHolds
  <2> HIDE DEF s
  <2> QED BY <2>1, <2>2, KeptRowsWait DEF RowsGo, RowsWait, RowWaits, s
<1>11. ASSUME NEW p \in Processes, StoreJob(p) PROVE RowsGo
  <2> DEFINE s == work[p].schedule
  <2>1. CASE IsScheduled(p) /\ row[s].state = "flushed"
    <3>1. s \in Schedules /\ RowBecomes(s, [row[s] EXCEPT !.state = "stored"])
      BY <1>11, <2>1, StoreJobEffect, Held
    <3> HIDE DEF s
    <3> QED BY <2>1, <3>1, RowFields, KeptRowsWait DEF RowsGo
  <2>2. CASE ~(IsScheduled(p) /\ row[s].state = "flushed")
    <3>1. row' = row
      BY <1>11, <2>2, StoreJobEffect
    <3> QED BY <3>1 DEF RowsGo, RowsWait, RowWaits
  <2> QED BY <2>1, <2>2
<1>12. ASSUME NEW p \in Processes, QueueTheJob(p) PROVE RowsGo
  BY <1>12 DEF QueueTheJob, RowsGo, RowsWait, RowWaits
<1>13. ASSUME NEW p \in Processes, QueueingFails(p) PROVE RowsGo
  BY <1>13 DEF QueueingFails, RowsGo, RowsWait, RowWaits
<1>14. ASSUME NEW p \in Processes, Record(p) PROVE RowsGo
  <2> DEFINE s == work[p].schedule
  <2>1. s \in Schedules /\ IF Stored(s) THEN RowBecomes(s, [row[s] EXCEPT !.lastJob = work[p].job]) ELSE row' = row
    BY <1>14, RecordEffect
  <2> HIDE DEF s
  <2> QED BY <2>1, RowFields, KeptRowsWait DEF RowsGo, Stored
<1>15. ASSUME NEW s \in Schedules, NEW spec \in Specs, NEW request \in Requests, NEW runNow \in BOOLEAN, CreateSchedule(s, spec, request, runNow) PROVE RowsGo
  <2> DEFINE next   == NextRun(spec, now)
             egress == Confirmed(request.src, request.dst, cfg, request.raw)
  <2>1. row[s].state = "new"
        /\ RowBecomes(s, [NoRow EXCEPT !.state = IF runNow THEN "flushed" ELSE "stored",
                                       !.enabled = TRUE, !.spec = spec, !.next = next,
                                       !.request = request, !.egress = egress])
    BY <1>15, CreateScheduleEffect
  <2> HIDE DEF next, egress
  <2>2. row'[s].spec = spec /\ row'[s].next = next /\ \A x \in Schedules \ {s} : row'[x] = row[x]
    BY <2>1 DEF RowBecomes, NoRow
  <2> QED BY <2>1, <2>2 DEF RowsGo, next
<1>16. ASSUME NEW request \in Requests, CreateCopy(request) PROVE RowsGo
  BY <1>16 DEF CreateCopy, RowsGo, RowsWait, RowWaits
<1>17. ASSUME NEW s \in Schedules, Pause(s) PROVE RowsGo
  BY <1>17, PauseEffect, RowFields, KeptRowsWait DEF RowsGo
<1>18. ASSUME NEW s \in Schedules, Resume(s) PROVE RowsGo
  <2> DEFINE next == NextRun(row[s].spec, now)
  <2>1. Stored(s) /\ RowBecomes(s, [row[s] EXCEPT !.enabled = TRUE, !.next = next])
    BY <1>18, ResumeEffect
  <2> HIDE DEF next
  <2>2. NextBecomes(s, next)
    BY <2>1, RowFields
  <2> QED BY <2>1, <2>2 DEF RowsGo, Stored, next
<1>19. ASSUME NEW s \in Schedules, DeleteSchedule(s) PROVE RowsGo
  BY <1>19, DeleteScheduleEffect, RowFields, KeptRowsWait DEF RowsGo, Stored
<1>20. ASSUME NEW s \in Schedules, EditByHand(s) PROVE RowsGo
  BY <1>20, EditByHandEffect, RowFields, KeptRowsWait DEF RowsGo
<1>21. ASSUME NEW j \in DOMAIN jobs, JobEnds(j) PROVE RowsGo
  BY <1>21 DEF JobEnds, RowsGo, RowsWait, RowWaits
<1>22. ASSUME NEW p \in Processes, Crash(p) PROVE RowsGo
  <2> DEFINE s == work[p].schedule
  <2>1. IF IsScheduled(p) /\ row[s].state = "flushed" THEN RowBecomes(s, NoRow) ELSE row' = row
    BY <1>22, CrashEffect
  <2>2. IsScheduled(p) => s \in Schedules
    BY Held
  <2> HIDE DEF s
  <2> QED BY <2>1, <2>2, KeptRowsWait DEF RowsGo, RowsWait, RowWaits
<1>23. ASSUME Reconfigure PROVE RowsGo
  BY <1>23 DEF Reconfigure, RowsGo, RowsWait, RowWaits
<1>24. ASSUME ClockTick PROVE RowsGo
  BY <1>24 DEF ClockTick, RowsGo, RowsWait, RowWaits
<1>25. ASSUME UNCHANGED scheduleVars PROVE RowsGo
  BY <1>25 DEF scheduleVars, RowsGo, RowsWait, RowWaits
<1> QED
  BY <1>1, <1>2, <1>3, <1>4, <1>5, <1>6, <1>7, <1>8, <1>9, <1>10, <1>11, <1>12, <1>13, <1>14, <1>15, <1>16, <1>17, <1>18, <1>19, <1>20, <1>21, <1>22, <1>23, <1>24, <1>25
     DEF ScheduleNext, RunnerStep, CreateStep, OwnerStep, Processes

\* The clock and the settings move by themselves, and the dates of a schedule only forward.
LEMMA Later ==
    ASSUME ScheduleTypeOK, ScheduleTypeOK', [ScheduleNext]_scheduleVars
    PROVE  now' >= now
<1>1. now \in Nat /\ now' \in Nat
  BY DEF ScheduleTypeOK
<1>2. CASE ClockTick
  BY <1>1, <1>2 DEF ClockTick
<1>3. CASE now' = now
  BY <1>1, <1>3
<1> QED
  BY <1>2, <1>3
  DEF ScheduleNext, RunnerStep, CreateStep, OwnerStep, StartTick, Find, Claim, ClaimInvalid, RunClaimed,
      RefuseCost, RecordFailure, Admit, Refuse, CreateFails, StoreJob, QueueTheJob, QueueingFails, Record,
      CreateSchedule, CreateCopy, Pause, Resume, DeleteSchedule, EditByHand, JobEnds, Crash, Reconfigure,
      scheduleVars

\* A later moment has a later first time.
LEMMA FirstsInOrder ==
    ASSUME NEW spec, NEW t \in Nat, NEW u \in Nat, t =< u, NEW a \in Nat, NEW b \in Nat,
           FirstDueAfter(spec, t, a), FirstDueAfter(spec, u, b)
    PROVE  a =< b
<1>1. SUFFICES ASSUME b < a PROVE FALSE
  OBVIOUS
<1>2. b \in t + 1 .. a - 1 /\ IsDue(spec, b)
  BY <1>1 DEF FirstDueAfter
<1> QED BY <1>2 DEF FirstDueAfter

\* Every step keeps: the next time is the first one after a moment that is past.
LEMMA NextIsKept ==
    ASSUME ScheduleTypeOK, ScheduleTypeOK', HoldsInv, DuesInv, \A s \in Schedules : NextIsFirst(s),
           [ScheduleNext]_scheduleVars
    PROVE  \A s \in Schedules : NextIsFirst(s)'
<1>1. now \in Nat /\ now' \in Nat /\ now' >= now
  BY Later DEF ScheduleTypeOK
<1>2. ASSUME NEW s \in Schedules, RowWaits(s) PROVE NextIsFirst(s)'
  BY <1>1, <1>2 DEF NextIsFirst, RowWaits
<1>3. ASSUME NEW s \in Schedules, NEW spec \in Specs, NEW t \in 0 .. now,
             row'[s].spec = spec, row'[s].next = NextRun(spec, t)
      PROVE  NextIsFirst(s)'
  <2>1. t \in Nat /\ t \in 0 .. now'
    BY <1>1
  <2>2. FirstDueAfter(spec, t, NextRun(spec, t))
    BY <2>1, NextRunIsFirst
  <2> QED BY <1>3, <2>1, <2>2 DEF NextIsFirst
<1>4. ASSUME NEW s \in Schedules, row[s].state # "new" PROVE row[s].spec \in Specs
  BY <1>4 DEF HoldsInv, RowHolds
<1>5. ASSUME NEW s \in Schedules, NEW t \in 0 .. now, row[s].state # "new",
             NextBecomes(s, NextRun(row[s].spec, t)), NEW x \in Schedules
      PROVE  NextIsFirst(x)'
  <2>1. CASE x = s
    <3>1. row'[s].spec = row[s].spec /\ row'[s].next = NextRun(row[s].spec, t)
      BY <1>5 DEF NextBecomes
    <3> QED BY <1>3, <1>4, <1>5, <2>1, <3>1
  <2>2. CASE x # s
    <3>1. RowWaits(x)
      BY <1>5, <2>2 DEF NextBecomes, RowsBut, RowKeeps, RowWaits
    <3> QED BY <1>2, <3>1
  <2> QED BY <2>1, <2>2
<1>6. ASSUME NEW r \in Runners PROVE work[r].at \in 0 .. now
  <2>1. work[r].at \in Nat /\ work[r].at =< now
    BY Held, TypedNumbers DEF Numbers, DuesInv, RunnerDues
  <2> QED BY <1>1, <2>1
<1>7. now \in 0 .. now
  BY <1>1
<1>8. ASSUME NEW s \in Schedules, NEW spec \in Specs, row'[s].spec = spec, row'[s].next = NextRun(spec, now),
             \A x \in Schedules \ {s} : row'[x] = row[x], NEW x \in Schedules
      PROVE  NextIsFirst(x)'
  <2>1. CASE x = s
    BY <1>3, <1>7, <1>8, <2>1
  <2>2. CASE x # s
    BY <1>2, <1>8, <2>2 DEF RowWaits
  <2> QED BY <2>1, <2>2
<1> QED
  BY <1>2, <1>5, <1>6, <1>7, <1>8, RowsGoOn DEF RowsGo, RowsWait

\* The next time of a schedule that somebody may work on does not go back.
NextUp == \A x \in Schedules : row'[x].next >= row[x].next \/ row[x].state \in {"new", "flushed"}

\* No step sets the next time of a schedule back.
LEMMA NextGoesUp ==
    ASSUME ScheduleTypeOK, ScheduleTypeOK', HoldsInv, DuesInv, \A s \in Schedules : NextIsFirst(s),
           [ScheduleNext]_scheduleVars
    PROVE  NextUp
<1>1. now \in Nat /\ \A s \in Schedules : row[s].next \in Nat /\ row'[s].next \in Nat
  BY TypedNumbers DEF Numbers
<1>2. RowsWait => NextUp
  BY <1>1 DEF RowsWait, RowWaits, NextUp
<1>3. ASSUME NEW s \in Schedules, row[s].state # "new" PROVE row[s].spec \in Specs
  BY <1>3 DEF HoldsInv, RowHolds
<1>4. ASSUME NEW s \in Schedules, NextBecomes(s, row'[s].next), row'[s].next >= row[s].next PROVE NextUp
  BY <1>1, <1>4 DEF NextBecomes, RowsBut, RowKeeps, NextUp
<1>5. ASSUME NEW s \in Schedules, NEW r \in Runners, pc[r] = "found", row[s].next = work[r].due,
             row[s].state # "new", NextBecomes(s, NextRun(row[s].spec, work[r].at))
      PROVE  NextUp
  <2>1. work[r].at \in Nat /\ work[r].due \in Nat /\ work[r].due =< work[r].at
    BY <1>5, Held, TypedNumbers DEF Numbers, DuesInv, RunnerDues
  <2>2. row'[s].next = NextRun(row[s].spec, work[r].at) /\ NextBecomes(s, row'[s].next)
    BY <1>5 DEF NextBecomes
  <2>3. row'[s].next > work[r].at
    BY <1>3, <1>5, <2>1, <2>2, NextRunIsFirst DEF FirstDueAfter
  <2>4. row'[s].next >= row[s].next
    BY <1>1, <1>5, <2>1, <2>3
  <2> QED BY <1>4, <2>2, <2>4
<1>6. ASSUME NEW s \in Schedules, row[s].state # "new", NextBecomes(s, NextRun(row[s].spec, now))
      PROVE  NextUp
  <2>1. row'[s].next = NextRun(row[s].spec, now) /\ NextBecomes(s, row'[s].next)
    BY <1>6 DEF NextBecomes
  <2>2. PICK t \in 0 .. now : FirstDueAfter(row[s].spec, t, row[s].next)
    BY <1>6 DEF NextIsFirst
  <2>3. FirstDueAfter(row[s].spec, now, row'[s].next)
    BY <1>1, <1>3, <1>6, <2>1, NextRunIsFirst
  <2>4. t \in Nat /\ t =< now
    BY <1>1
  <2>5. row'[s].next >= row[s].next
    BY <1>1, <2>2, <2>3, <2>4, FirstsInOrder
  <2> QED BY <1>4, <2>1, <2>5
<1>7. ASSUME NEW s \in Schedules, row[s].state = "new", \A x \in Schedules \ {s} : row'[x] = row[x]
      PROVE  NextUp
  BY <1>1, <1>7 DEF NextUp
<1> QED
  BY <1>2, <1>5, <1>6, <1>7, RowsGoOn DEF RowsGo

-----------------------------------------------------------------------------
(* Due times.                                                               *)

\* What a step leaves of the due times a process is at work for.
DuesStay(r) ==
    /\ work'[r].at =< now' /\ (pc'[r] = "found" => work'[r].due =< work'[r].at)
    /\ \A s \in Schedules : WorksOn(r, s)' =>
          WorksOn(r, s) /\ work'[r].due = work[r].due /\ (work'[r].job = 0 => work[r].job = 0)

\* A step after which every runner works for what it worked for, or for nothing.
LEMMA DuesFrame ==
    ASSUME Numbers, Numbers', HoldsInv, DuesInv, JobsKeep, NextUp, work'[Web].due = 0,
           \A r \in Runners : DuesStay(r)
    PROVE  DuesInv'
<1>1. ASSUME NEW r \in Runners PROVE RunnerDues(r)'
  <2>1. ASSUME NEW s \in Schedules, WorksOn(r, s)' PROVE (work[r].due < row[s].next)'
    <3>1. WorksOn(r, s) /\ work'[r].due = work[r].due /\ work[r].due < row[s].next
      BY <2>1 DEF DuesStay, DuesInv, RunnerDues
    <3>2. row[s].state \notin {"new", "flushed"}
      BY <3>1 DEF WorksOn, HoldsInv, RunnerHolds
    <3>3. r \in Processes
      BY DEF Processes
    <3> QED BY <3>1, <3>2, <3>3 DEF NextUp, Numbers
  <2> QED BY <2>1 DEF RunnerDues, DuesStay
<1>2. ASSUME NEW j \in DOMAIN jobs' PROVE JobDues(j)'
  <2>1. j \in DOMAIN jobs /\ jobs'[j].schedule = jobs[j].schedule /\ jobs'[j].due = jobs[j].due /\ JobDues(j)
    BY DEF JobsKeep, DuesInv
  <2>2. ASSUME jobs[j].schedule \in Schedules PROVE row[jobs[j].schedule].state \notin {"new", "flushed"}
    BY <2>1, <2>2 DEF HoldsInv, RowHolds
  <2> QED BY <2>1, <2>2 DEF JobDues, NextUp, Numbers
<1>3. ASSUME NEW s \in Schedules PROVE DuesDiffer(s)'
  <2>1. DuesDiffer(s)
    BY DEF DuesInv
  <2>2. \A r \in Runners : WorksOn(r, s)' /\ work'[r].job = 0 =>
            WorksOn(r, s) /\ work[r].job = 0 /\ work'[r].due = work[r].due
    BY DEF DuesStay
  <2>3. DOMAIN jobs' = DOMAIN jobs
        /\ \A j \in DOMAIN jobs : jobs'[j].schedule = jobs[j].schedule /\ jobs'[j].due = jobs[j].due
    BY DEF JobsKeep
  <2>4. (\A i, j \in DOMAIN jobs :
            jobs[i].schedule = s /\ jobs[j].schedule = s /\ jobs[i].due = jobs[j].due /\ jobs[i].due > 0
                => i = j)'
    BY <2>1, <2>3 DEF DuesDiffer
  <2>5. (\A j \in DOMAIN jobs, r \in Runners :
            jobs[j].schedule = s /\ WorksOn(r, s) /\ work[r].job = 0 /\ jobs[j].due > 0
                => jobs[j].due # work[r].due)'
    BY <2>1, <2>2, <2>3 DEF DuesDiffer
  <2>6. (\A q, r \in Runners :
            WorksOn(q, s) /\ WorksOn(r, s) /\ work[q].job = 0 /\ work[r].job = 0
                /\ work[q].due = work[r].due /\ work[q].due > 0 => q = r)'
    BY <2>1, <2>2 DEF DuesDiffer
  <2> QED BY <2>4, <2>5, <2>6 DEF DuesDiffer
<1> QED BY <1>1, <1>2, <1>3 DEF DuesInv

\* A process is at work for a due time as long as it goes on with the schedule.
LEMMA DuesOfOthers ==
    ASSUME Numbers, Numbers', HoldsInv, DuesInv, NEW p \in Processes, StaysBut(p), now' >= now,
           Web \notin Runners,
           p \in Runners => DuesStay(p), p = Web => work'[Web].due = 0
    PROVE  work'[Web].due = 0 /\ \A r \in Runners : DuesStay(r)
<1>1. ASSUME NEW r \in Runners, r # p PROVE DuesStay(r)
  <2>1. pc'[r] = pc[r] /\ work'[r] = work[r] /\ RunnerDues(r) /\ r \in Processes
    BY <1>1 DEF StaysBut, DuesInv, Processes
  <2> QED BY <2>1 DEF DuesStay, RunnerDues, WorksOn, Numbers
<1>2. work'[Web].due = 0
  BY DEF StaysBut, DuesInv, Processes
<1> QED BY <1>1, <1>2

\* A process that has done works for nothing.
LEMMA DuesLeave ==
    ASSUME Numbers, Numbers', HoldsInv, DuesInv, NEW p \in Processes, Leaves(p), now' >= now,
           Web \notin Runners, JobsKeep, NextUp
    PROVE  DuesInv'
<1>1. StaysBut(p) /\ pc'[p] \in {"idle", "claiming"} /\ work'[p].due = 0
      /\ (work'[p].at = 0 \/ (p \in Runners /\ work'[p].at = work[p].at))
  BY DEF Leaves, Passes, Becomes, StaysBut, Idle
<1>2. p \in Runners => DuesStay(p)
  BY <1>1 DEF DuesStay, WorksOn, DuesInv, RunnerDues, Numbers
<1> QED BY <1>1, <1>2, DuesOfOthers, DuesFrame

\* A process that goes on with its schedule, and keeps its due time.
LEMMA DuesGoOn ==
    ASSUME Numbers, Numbers', HoldsInv, DuesInv, NEW p \in Processes, StaysBut(p), now' >= now,
           Web \notin Runners, JobsKeep, NextUp,
           pc[p] \notin {"idle", "claiming", "found"}, pc'[p] # "found",
           work'[p].schedule = work[p].schedule, work'[p].due = work[p].due, work'[p].at = work[p].at,
           work'[p].job = work[p].job
    PROVE  DuesInv'
<1>1. p \in Runners => DuesStay(p)
  BY DEF DuesStay, WorksOn, DuesInv, RunnerDues, Numbers
<1>2. p = Web => work'[Web].due = 0
  BY DEF DuesInv
<1> QED BY <1>1, <1>2, DuesOfOthers, DuesFrame

-----------------------------------------------------------------------------
(* The steps of a process, field by field.                                  *)

SameTask(p) ==
    /\ work'[p].schedule = work[p].schedule /\ work'[p].due = work[p].due
    /\ work'[p].at = work[p].at /\ work'[p].job = work[p].job

\* What each action does to the fields of its process, of the rows and of the jobs.
LEMMA LeavesFields ==
    ASSUME NEW p \in Processes, Leaves(p)
    PROVE  /\ StaysBut(p) /\ pc'[p] \in {"idle", "claiming"}
           /\ work'[p].schedule = NoOne /\ work'[p].job = 0 /\ work'[p].overwrite = FALSE
BY DEF Leaves, Passes, Becomes, StaysBut, Idle

LEMMA StaysFields ==
    ASSUME NEW p \in Processes, NEW x, Becomes(p, x, work[p])
    PROVE  pc'[p] = x /\ work'[p] = work[p] /\ SameTask(p) /\ StaysBut(p)
BY DEF Becomes, SameTask, StaysBut

LEMMA StartTickFields ==
    ASSUME ScheduleTypeOK, HoldsInv, NEW r \in Runners, StartTick(r)
    PROVE  /\ pc[r] = "idle" /\ pc'[r] = "claiming" /\ StaysBut(r)
           /\ work'[r].schedule = NoOne /\ work'[r].due = 0 /\ work'[r].at = now /\ work'[r].job = 0
<1>1. pc[r] = "idle" /\ Becomes(r, "claiming", [Idle EXCEPT !.at = now])
  BY StartTickEffect
<1> QED BY <1>1 DEF Becomes, StaysBut, Idle

LEMMA FindFields ==
    ASSUME ScheduleTypeOK, HoldsInv, NEW r \in Runners, Find(r)
    PROVE  /\ pc[r] = "claiming"
           /\ \/ Leaves(r)
              \/ \E s \in Schedules :
                    /\ Stored(s) /\ row[s].next =< work[r].at
                    /\ pc'[r] = "found" /\ StaysBut(r)
                    /\ work'[r].schedule = s /\ work'[r].due = row[s].next
                    /\ work'[r].at = work[r].at /\ work'[r].job = 0
<1>1. work[r] \in Works
  BY Held
<1>2. pc[r] = "claiming"
  BY FindEffect
<1>3. work[r].job = 0
  BY <1>2 DEF HoldsInv, RunnerHolds
<1>4. ASSUME NEW s \in Schedules, Becomes(r, "found", [work[r] EXCEPT !.schedule = s, !.due = row[s].next])
      PROVE  /\ pc'[r] = "found" /\ StaysBut(r)
             /\ work'[r].schedule = s /\ work'[r].due = row[s].next
             /\ work'[r].at = work[r].at /\ work'[r].job = 0
  BY <1>1, <1>3, <1>4 DEF Works, Becomes, StaysBut
<1> QED BY <1>2, <1>4, FindEffect DEF Leaves

LEMMA RunClaimedFields ==
    ASSUME ScheduleTypeOK, HoldsInv, NEW r \in Runners, RunClaimed(r)
    PROVE  /\ pc[r] = "claimed" /\ work[r].schedule \in Schedules
           /\ \/ Leaves(r)
              \/ /\ Stored(work[r].schedule) /\ ~InProgress(row[work[r].schedule].lastJob)
                 /\ pc'[r] = "creating" /\ StaysBut(r) /\ SameTask(r)
<1> DEFINE s == work[r].schedule
           w == [work[r] EXCEPT !.request = [row[s].request EXCEPT !.raw = row[s].egress],
                                !.last = row[s].lastJob]
<1>1. w.schedule = work[r].schedule /\ w.due = work[r].due /\ w.at = work[r].at /\ w.job = work[r].job
  <2>1. work[r] \in Works
    BY Held
  <2> QED BY <2>1 DEF Works
<1>2. pc[r] = "claimed" /\ s \in Schedules
      /\ (Leaves(r) \/ (Stored(s) /\ ~InProgress(row[s].lastJob) /\ Becomes(r, "creating", w)))
  BY RunClaimedEffect
<1> HIDE DEF w
<1> QED BY <1>1, <1>2 DEF Becomes, SameTask, StaysBut

LEMMA AdmitFields ==
    ASSUME ScheduleTypeOK, HoldsInv, NEW p \in Processes, Admit(p)
    PROVE  /\ pc[p] = "creating" /\ pc'[p] = "admitted" /\ StaysBut(p) /\ SameTask(p)
           /\ work'[p].request = work[p].request
           /\ work'[p].egress = AsksFor(p) /\ AsksFor(p) # "refused"
           /\ work'[p].overwrite = IF IsScheduled(p) THEN cfg.general
                                   ELSE Decide(places, work[p].request.dst, work[p].request.path, cfg)
<1> DEFINE over == IF IsScheduled(p) THEN cfg.general
                   ELSE Decide(places, work[p].request.dst, work[p].request.path, cfg)
           w == [work[p] EXCEPT !.egress = AsksFor(p), !.overwrite = over]
<1>1. /\ w.schedule = work[p].schedule /\ w.due = work[p].due /\ w.at = work[p].at
      /\ w.job = work[p].job /\ w.request = work[p].request
      /\ w.egress = AsksFor(p) /\ w.overwrite = over
  <2>1. work[p] \in Works
    BY Held
  <2> HIDE DEF over
  <2> QED BY <2>1 DEF Works
<1>2. pc[p] = "creating" /\ AsksFor(p) # "refused" /\ Becomes(p, "admitted", w)
  BY AdmitEffect
<1> HIDE DEF w
<1> QED BY <1>1, <1>2 DEF Becomes, SameTask, StaysBut

\* What JobEnds, QueueTheJob and QueueingFails do to the jobs.
JobChanges(k) ==
    /\ k \in DOMAIN jobs /\ JobsKeep
    /\ \A j \in DOMAIN jobs : /\ jobs'[j].state = "PROGRESS" => jobs[j].state = "PROGRESS"
                              /\ jobs'[j].request = jobs[j].request /\ jobs'[j].egress = jobs[j].egress
                              /\ jobs'[j].overwrite = jobs[j].overwrite
                              /\ j # k => jobs'[j] = jobs[j]

LEMMA QueueTheJobFields ==
    ASSUME ScheduleTypeOK, HoldsInv, NEW p \in Processes, QueueTheJob(p)
    PROVE  LET q == work[p].request
           IN  /\ pc[p] = "queueing" /\ JobChanges(work[p].job)
               /\ \E size \in {"unknown", "small", "large"} :
                     jobs'[work[p].job].fee = Assess(q.src, q.dst, Runner(Route(q.src, q.dst, cfg, size), cfg))
               /\ \/ IsScheduled(p) /\ pc'[p] = "recording" /\ SameTask(p) /\ StaysBut(p)
                  \/ ~IsScheduled(p) /\ Becomes(p, "idle", Idle)
<1> DEFINE q == work[p].request
           j == work[p].job
           poolOf(z) == Route(q.src, q.dst, cfg, z)
           feeOf(z)  == Assess(q.src, q.dst, Runner(poolOf(z), cfg))
<1>1. PICK size \in {"unknown", "small", "large"} :
          jobs' = [jobs EXCEPT ![j] = [jobs[j] EXCEPT !.pool = poolOf(size), !.fee = feeOf(size)]]
  BY QueueTheJobEffect
<1> HIDE DEF poolOf, feeOf
<1>2. pc[p] = "queueing" /\ j \in DOMAIN jobs
  BY QueueTheJobEffect
<1>3. jobs[j] \in Jobs
  BY <1>2 DEF ScheduleTypeOK
<1>4. JobChanges(j) /\ jobs'[j].fee = feeOf(size)
  BY <1>1, <1>2, <1>3 DEF JobChanges, JobsKeep, Jobs
<1>5. \/ IsScheduled(p) /\ pc'[p] = "recording" /\ SameTask(p) /\ StaysBut(p)
      \/ ~IsScheduled(p) /\ Becomes(p, "idle", Idle)
  BY QueueTheJobEffect, StaysFields
<1> QED BY <1>2, <1>4, <1>5 DEF feeOf, poolOf

LEMMA QueueingFailsFields ==
    ASSUME ScheduleTypeOK, HoldsInv, NEW p \in Processes, QueueingFails(p)
    PROVE  /\ pc[p] = "queueing" /\ JobChanges(work[p].job)
           /\ jobs'[work[p].job].state = "FAILED" /\ jobs'[work[p].job].fee = jobs[work[p].job].fee
           /\ IF p = Web THEN Becomes(p, "idle", Idle)
              ELSE pc'[p] = "failed" /\ SameTask(p) /\ StaysBut(p)
<1> DEFINE j == work[p].job
<1>1. pc[p] = "queueing" /\ j \in DOMAIN jobs
      /\ jobs' = [jobs EXCEPT ![j] = [jobs[j] EXCEPT !.state = "FAILED"]]
  BY QueueingFailsEffect
<1>2. jobs[j] \in Jobs
  BY <1>1 DEF ScheduleTypeOK
<1>3. JobChanges(j) /\ jobs'[j].state = "FAILED" /\ jobs'[j].fee = jobs[j].fee
  BY <1>1, <1>2 DEF JobChanges, JobsKeep, Jobs
<1> QED BY <1>1, <1>3, QueueingFailsEffect, StaysFields

LEMMA JobEndsFields ==
    ASSUME ScheduleTypeOK, HoldsInv, NEW j \in DOMAIN jobs, JobEnds(j)
    PROVE  JobChanges(j) /\ jobs'[j].fee = jobs[j].fee
<1>1. jobs[j] \in Jobs /\ jobs' = [jobs EXCEPT ![j] = [jobs[j] EXCEPT !.state = "SUCCESS"]]
  BY JobEndsEffect DEF ScheduleTypeOK
<1> QED BY <1>1 DEF JobChanges, JobsKeep, Jobs

LEMMA StoreJobFields ==
    ASSUME ScheduleTypeOK, HoldsInv, NEW p \in Processes, StoreJob(p)
    PROVE  LET n == Len(jobs) + 1
           IN  /\ n \notin DOMAIN jobs /\ DOMAIN jobs' = DOMAIN jobs \cup {n} /\ n > 0
               /\ \A j \in DOMAIN jobs : jobs'[j] = jobs[j]
               /\ jobs'[n].schedule = work[p].schedule /\ jobs'[n].due = work[p].due
               /\ jobs'[n].request = work[p].request /\ jobs'[n].egress = work[p].egress
               /\ jobs'[n].overwrite = work[p].overwrite /\ jobs'[n].fee = NoFee
               /\ pc[p] = "admitted" /\ pc'[p] = "queueing" /\ StaysBut(p)
               /\ work'[p].schedule = work[p].schedule /\ work'[p].due = work[p].due
               /\ work'[p].at = work[p].at /\ work'[p].job = n
               /\ work'[p].request = work[p].request /\ work'[p].egress = work[p].egress
<1> DEFINE n == Len(jobs) + 1
           job == [state |-> "PROGRESS", schedule |-> work[p].schedule, due |-> work[p].due,
                   request |-> work[p].request, egress |-> work[p].egress,
                   overwrite |-> work[p].overwrite, pool |-> NoOne, fee |-> NoFee]
<1>1. jobs' = Append(jobs, job)
  BY StoreJobEffect
<1>2. /\ job.schedule = work[p].schedule /\ job.due = work[p].due
      /\ job.request = work[p].request /\ job.egress = work[p].egress
      /\ job.overwrite = work[p].overwrite /\ job.fee = NoFee
  OBVIOUS
<1> HIDE DEF job
<1>3. /\ n \notin DOMAIN jobs /\ DOMAIN jobs' = DOMAIN jobs \cup {n} /\ n > 0
      /\ jobs'[n] = job /\ \A j \in DOMAIN jobs : jobs'[j] = jobs[j]
  BY <1>1 DEF ScheduleTypeOK
<1>4. pc[p] = "admitted" /\ Becomes(p, "queueing", [work[p] EXCEPT !.job = n])
  BY StoreJobEffect
<1>5. work[p] \in Works
  BY Held
<1> HIDE DEF n
<1>6. /\ pc'[p] = "queueing" /\ StaysBut(p)
      /\ work'[p].schedule = work[p].schedule /\ work'[p].due = work[p].due
      /\ work'[p].at = work[p].at /\ work'[p].job = n
      /\ work'[p].request = work[p].request /\ work'[p].egress = work[p].egress
  BY <1>4, <1>5 DEF Works, Becomes, StaysBut
<1> QED BY <1>2, <1>3, <1>4, <1>6 DEF n

LEMMA CreateScheduleFields ==
    ASSUME ScheduleTypeOK, HoldsInv, NEW s \in Schedules, NEW spec \in Specs, NEW request \in Requests,
           NEW runNow \in BOOLEAN, CreateSchedule(s, spec, request, runNow)
    PROVE  /\ pc[Web] = "idle" /\ row[s].state = "new" /\ \A x \in Schedules \ {s} : row'[x] = row[x]
           /\ row'[s].state = IF runNow THEN "flushed" ELSE "stored"
           /\ StaysBut(Web)
           /\ IF runNow
              THEN /\ pc'[Web] = "creating" /\ work'[Web].schedule = s /\ work'[Web].due = 0
                   /\ work'[Web].at = 0 /\ work'[Web].job = 0
              ELSE UNCHANGED <<pc, work>>
<1> DEFINE next   == NextRun(spec, now)
           egress == Confirmed(request.src, request.dst, cfg, request.raw)
           w == [Idle EXCEPT !.schedule = s, !.request = [request EXCEPT !.raw = egress]]
<1>1. /\ pc[Web] = "idle" /\ row[s].state = "new"
      /\ RowBecomes(s, [NoRow EXCEPT !.state = IF runNow THEN "flushed" ELSE "stored",
                                     !.enabled = TRUE, !.spec = spec, !.next = next,
                                     !.request = request, !.egress = egress])
      /\ IF runNow THEN Becomes(Web, "creating", w) ELSE UNCHANGED <<pc, work>>
  BY CreateScheduleEffect, ZenonT(30)
<1> HIDE DEF next, egress
<1>2. row'[s].state = (IF runNow THEN "flushed" ELSE "stored") /\ \A x \in Schedules \ {s} : row'[x] = row[x]
  BY <1>1 DEF RowBecomes, NoRow
<1>3. w.schedule = s /\ w.due = 0 /\ w.at = 0 /\ w.job = 0
  BY DEF Idle
<1> HIDE DEF w
<1>4. CASE runNow
  BY <1>1, <1>2, <1>3, <1>4 DEF Becomes, StaysBut
<1>5. CASE ~runNow
  BY <1>1, <1>2, <1>5 DEF StaysBut
<1> QED BY <1>4, <1>5

LEMMA CreateCopyFields ==
    ASSUME ScheduleTypeOK, HoldsInv, NEW request \in Requests, CreateCopy(request)
    PROVE  /\ pc[Web] = "idle" /\ pc'[Web] = "creating" /\ StaysBut(Web)
           /\ work'[Web].schedule = NoOne /\ work'[Web].due = 0 /\ work'[Web].at = 0 /\ work'[Web].job = 0
<1>1. pc[Web] = "idle" /\ Becomes(Web, "creating", [Idle EXCEPT !.request = request])
  BY CreateCopyEffect
<1> QED BY <1>1 DEF Becomes, StaysBut, Idle

\* Nobody moves.
LEMMA DuesRest ==
    ASSUME Numbers, Numbers', HoldsInv, DuesInv, UNCHANGED <<pc, work>>, now' >= now,
           Web \notin Runners, JobsKeep, NextUp
    PROVE  DuesInv'
<1>1. ASSUME NEW r \in Runners PROVE DuesStay(r)
  <2>1. RunnerDues(r) /\ r \in Processes
    BY DEF DuesInv, Processes
  <2> QED BY <2>1 DEF DuesStay, RunnerDues, WorksOn, Numbers
<1> QED BY <1>1, DuesFrame DEF DuesInv

\* A claim moves the schedule on past the time it is for.
LEMMA DuesClaim ==
    ASSUME Numbers, Numbers', HoldsInv, DuesInv, JobsKeep, NextUp, now' = now, Web \notin Runners,
           NEW r \in Runners, NEW s \in Schedules, work[r].schedule = s, pc[r] = "found",
           work[r].job = 0, work[r].due = row[s].next, work[r].due =< work[r].at, row'[s].next > work[r].at,
           pc'[r] = "claimed", work'[r] = work[r], StaysBut(r)
    PROVE  DuesInv'
<1>1. r \in Processes /\ r # Web /\ Web \in Processes
  BY DEF Processes
<1>2. ASSUME NEW q \in Runners, q # r
      PROVE  q \in Processes /\ pc'[q] = pc[q] /\ work'[q] = work[q] /\ RunnerDues(q)
  BY <1>2 DEF StaysBut, DuesInv, Processes
<1>3. ASSUME NEW q \in Runners, NEW x \in Schedules, WorksOn(q, x) PROVE work[q].due < row'[x].next
  <2>1. work[q].due < row[x].next /\ row[x].state \notin {"new", "flushed"} /\ q \in Processes
    BY <1>3 DEF WorksOn, HoldsInv, RunnerHolds, DuesInv, RunnerDues, Processes
  <2> QED BY <2>1 DEF NextUp, Numbers
<1>4. ASSUME NEW q \in Runners PROVE RunnerDues(q)'
  <2>1. CASE q # r
    BY <1>2, <1>3, <2>1 DEF RunnerDues, WorksOn
  <2>2. CASE q = r
    BY <1>1, <2>2 DEF RunnerDues, WorksOn, Numbers, DuesInv
  <2> QED BY <2>1, <2>2
<1>5. work'[Web].due = 0
  BY <1>1 DEF StaysBut, DuesInv
<1>6. ASSUME NEW j \in DOMAIN jobs' PROVE JobDues(j)'
  <2>1. j \in DOMAIN jobs /\ jobs'[j].schedule = jobs[j].schedule /\ jobs'[j].due = jobs[j].due /\ JobDues(j)
    BY DEF JobsKeep, DuesInv
  <2>2. ASSUME jobs[j].schedule \in Schedules PROVE row[jobs[j].schedule].state \notin {"new", "flushed"}
    BY <2>1, <2>2 DEF HoldsInv, RowHolds
  <2> QED BY <2>1, <2>2 DEF JobDues, NextUp, Numbers
<1>7. ASSUME NEW x \in Schedules PROVE DuesDiffer(x)'
  <2>1. DuesDiffer(x)
    BY DEF DuesInv
  <2>2. /\ DOMAIN jobs' = DOMAIN jobs
        /\ \A j \in DOMAIN jobs : jobs'[j].schedule = jobs[j].schedule /\ jobs'[j].due = jobs[j].due
    BY DEF JobsKeep
  <2>3. ASSUME NEW q \in Runners, WorksOn(q, x)' PROVE WorksOn(q, x) \/ (q = r /\ x = s)
    BY <1>2, <2>3 DEF WorksOn
  <2>4. \A q \in Runners : work'[q] = work[q]
    BY <1>2
  <2>5. ASSUME NEW j \in DOMAIN jobs, jobs[j].schedule = s PROVE jobs[j].due # work[r].due
    <3>1. JobDues(j)
      BY DEF DuesInv
    <3> QED BY <1>1, <2>5, <3>1 DEF JobDues, Numbers
  <2>6. ASSUME NEW q \in Runners, WorksOn(q, s) PROVE work[q].due # work[r].due
    BY <1>1, <2>6 DEF DuesInv, RunnerDues, Numbers, Processes
  <2>7. (\A i, j \in DOMAIN jobs :
            jobs[i].schedule = x /\ jobs[j].schedule = x /\ jobs[i].due = jobs[j].due /\ jobs[i].due > 0
                => i = j)'
    BY <2>1, <2>2 DEF DuesDiffer
  <2>8. (\A j \in DOMAIN jobs, q \in Runners :
            jobs[j].schedule = x /\ WorksOn(q, x) /\ work[q].job = 0 /\ jobs[j].due > 0
                => jobs[j].due # work[q].due)'
    BY <2>1, <2>2, <2>3, <2>4, <2>5 DEF DuesDiffer
  <2>9. (\A q, o \in Runners :
            WorksOn(q, x) /\ WorksOn(o, x) /\ work[q].job = 0 /\ work[o].job = 0
                /\ work[q].due = work[o].due /\ work[q].due > 0 => q = o)'
    BY <2>1, <2>3, <2>4, <2>6 DEF DuesDiffer
  <2> QED BY <2>7, <2>8, <2>9 DEF DuesDiffer
<1> QED BY <1>4, <1>5, <1>6, <1>7 DEF DuesInv

\* The job takes the due time over from its runner.
LEMMA DuesStore ==
    ASSUME ScheduleTypeOK, Numbers, Numbers', HoldsInv, DuesInv, \A s \in Schedules : NextIsFirst(s), NextUp,
           Web \notin Runners, now' >= now, NEW p \in Processes, StoreJob(p)
    PROVE  DuesInv'
<1> DEFINE s == work[p].schedule
<1>0. PICK n : n = Len(jobs) + 1
  OBVIOUS
<1>1. /\ n \notin DOMAIN jobs /\ DOMAIN jobs' = DOMAIN jobs \cup {n} /\ n > 0
      /\ \A j \in DOMAIN jobs : jobs'[j] = jobs[j]
      /\ jobs'[n].schedule = work[p].schedule /\ jobs'[n].due = work[p].due
      /\ pc[p] = "admitted" /\ pc'[p] = "queueing" /\ StaysBut(p)
      /\ work'[p].schedule = work[p].schedule /\ work'[p].due = work[p].due
      /\ work'[p].at = work[p].at /\ work'[p].job = n
  BY <1>0, StoreJobFields
<1>2. /\ p = Web \/ (p \in Runners /\ p # Web)
      /\ work[p].job = 0 /\ (p = Web => work[p].due = 0)
      /\ s \in Schedules => WorksOn(p, s)
  BY <1>1 DEF Processes, HoldsInv, JobHeld, Creating, DuesInv, WorksOn
<1>3. ASSUME NEW q \in Runners PROVE DuesStay(q)
  <2>1. q \in Processes /\ RunnerDues(q)
    BY DEF Processes, DuesInv
  <2>2. CASE q # p
    <3>1. pc'[q] = pc[q] /\ work'[q] = work[q]
      BY <1>1, <2>1, <2>2 DEF StaysBut
    <3> QED BY <2>1, <3>1 DEF DuesStay, WorksOn, RunnerDues, Numbers
  <2>3. CASE q = p
    BY <1>1, <1>2, <2>1, <2>3 DEF DuesStay, WorksOn, RunnerDues, Numbers
  <2> QED BY <2>2, <2>3
<1>4. work'[Web].due = 0
  BY <1>1, <1>2 DEF StaysBut, DuesInv, Processes
<1>5. ASSUME NEW q \in Runners PROVE RunnerDues(q)'
  <2>1. ASSUME NEW x \in Schedules, WorksOn(q, x)' PROVE (work[q].due < row[x].next)'
    <3>1. WorksOn(q, x) /\ work'[q].due = work[q].due /\ work[q].due < row[x].next
      BY <1>3, <2>1 DEF DuesStay, DuesInv, RunnerDues
    <3>2. row[x].state \notin {"new", "flushed"}
      BY <3>1 DEF WorksOn, HoldsInv, RunnerHolds
    <3> QED BY <3>1, <3>2 DEF NextUp, Numbers, Processes
  <2> QED BY <1>3, <2>1 DEF RunnerDues, DuesStay
<1>6. ASSUME NEW j \in DOMAIN jobs PROVE JobDues(j)'
  <2>1. jobs'[j] = jobs[j] /\ JobDues(j)
    BY <1>1 DEF DuesInv
  <2>2. ASSUME jobs[j].schedule \in Schedules PROVE row[jobs[j].schedule].state \notin {"new", "flushed"}
    BY <2>2 DEF HoldsInv, RowHolds
  <2> QED BY <2>1, <2>2 DEF JobDues, NextUp, Numbers
<1>7. JobDues(n)'
  <2>1. CASE s \notin Schedules
    BY <1>1, <2>1 DEF JobDues
  <2>2. CASE s \in Schedules /\ p \in Runners
    <3>1. work'[p].due < row'[s].next
      BY <1>1, <2>2, <1>5 DEF RunnerDues, WorksOn
    <3> QED BY <1>1, <3>1 DEF JobDues
  <2>3. CASE s \in Schedules /\ p = Web
    <3>1. row[s].state # "new" /\ row'[s].next = row[s].next
      <4>1. IsScheduled(p) /\ row[s].state = "flushed"
        <5>1. IsScheduled(p)
          BY <2>3, Held
        <5> QED BY <1>1, <2>3, <5>1 DEF HoldsInv, OwnerHolds, Creating
      <4>2. StateBecomes(s, "stored")
        <5>1. RowBecomes(s, [row[s] EXCEPT !.state = "stored"])
          BY <4>1, StoreJobEffect
        <5> HIDE DEF s
        <5> QED BY <2>3, <5>1, RowFields
      <4> QED BY <4>1, <4>2 DEF StateBecomes
    <3>2. PICK t \in 0 .. now : FirstDueAfter(row[s].spec, t, row[s].next)
      BY <2>3, <3>1 DEF NextIsFirst
    <3>3. row[s].next > 0 /\ work[p].due = 0
      BY <1>2, <2>3, <3>2 DEF FirstDueAfter, Numbers
    <3> QED BY <1>1, <2>3, <3>1, <3>3 DEF JobDues
  <2> QED BY <1>2, <2>1, <2>2, <2>3
<1>8. ASSUME NEW x \in Schedules PROVE DuesDiffer(x)'
  <2>1. DuesDiffer(x)
    BY DEF DuesInv
  <2>2. \A q \in Runners : WorksOn(q, x)' /\ work'[q].job = 0 =>
            q # p /\ WorksOn(q, x) /\ work[q].job = 0 /\ work'[q].due = work[q].due
    BY <1>1, <1>3 DEF DuesStay
  \* The new job is for what its runner works for, and nobody else does.
  <2>3. ASSUME jobs'[n].schedule = x, jobs'[n].due > 0
        PROVE  p \in Runners /\ WorksOn(p, x) /\ work[p].job = 0 /\ jobs'[n].due = work[p].due
    BY <1>1, <1>2, <2>3
  <2>4. (\A i, j \in DOMAIN jobs :
            jobs[i].schedule = x /\ jobs[j].schedule = x /\ jobs[i].due = jobs[j].due /\ jobs[i].due > 0
                => i = j)'
    <3>1. ASSUME NEW i \in DOMAIN jobs, jobs[i].schedule = x, jobs'[n].schedule = x, jobs[i].due = jobs'[n].due,
                 jobs[i].due > 0
          PROVE  FALSE
      BY <2>1, <2>3, <3>1 DEF DuesDiffer
    <3> QED BY <1>1, <2>1, <3>1 DEF DuesDiffer
  <2>5. (\A j \in DOMAIN jobs, r \in Runners :
            jobs[j].schedule = x /\ WorksOn(r, x) /\ work[r].job = 0 /\ jobs[j].due > 0
                => jobs[j].due # work[r].due)'
    <3>1. ASSUME NEW r \in Runners, WorksOn(r, x)', work'[r].job = 0, jobs'[n].schedule = x, jobs'[n].due > 0,
                 jobs'[n].due = work'[r].due
          PROVE  FALSE
      BY <2>1, <2>2, <2>3, <3>1 DEF DuesDiffer
    <3> QED BY <1>1, <2>1, <2>2, <3>1 DEF DuesDiffer
  <2>6. (\A q, r \in Runners :
            WorksOn(q, x) /\ WorksOn(r, x) /\ work[q].job = 0 /\ work[r].job = 0
                /\ work[q].due = work[r].due /\ work[q].due > 0 => q = r)'
    BY <2>1, <2>2 DEF DuesDiffer
  <2> QED BY <2>4, <2>5, <2>6 DEF DuesDiffer
<1> QED BY <1>1, <1>4, <1>5, <1>6, <1>7, <1>8 DEF DuesInv

\* Every step keeps the due times apart.
LEMMA DuesKept ==
    ASSUME ScheduleTypeOK, ScheduleTypeOK', HoldsInv, DuesInv, \A s \in Schedules : NextIsFirst(s),
           [ScheduleNext]_scheduleVars
    PROVE  DuesInv'
<1>0. /\ Numbers /\ Numbers' /\ NextUp /\ now' >= now /\ Web \notin Runners
      /\ \A r \in Runners : r \in Processes /\ r # Web
  BY TypedNumbers, NextGoesUp, Later, Held
<1>1. ASSUME NEW r \in Runners, StartTick(r) PROVE DuesInv'
  <2>1. JobsKeep /\ r \in Processes /\ r # Web
    BY <1>1, Held DEF StartTick, JobsKeep
  <2>2. /\ pc'[r] = "claiming" /\ StaysBut(r)
        /\ work'[r].schedule = NoOne /\ work'[r].due = 0 /\ work'[r].at = now
    BY <1>1, StartTickFields
  <2>3. DuesStay(r)
    BY <1>0, <2>2 DEF DuesStay, WorksOn, Numbers
  <2> QED BY <1>0, <2>1, <2>2, <2>3, DuesOfOthers, DuesFrame
<1>2. ASSUME NEW r \in Runners, Find(r) PROVE DuesInv'
  <2>1. JobsKeep /\ r \in Processes /\ r # Web
    BY <1>2, Held DEF Find, JobsKeep
  <2>2. CASE Leaves(r)
    BY <1>0, <2>1, <2>2, DuesLeave
  <2>3. ASSUME NEW s \in Schedules, row[s].next =< work[r].at, pc'[r] = "found", StaysBut(r),
               work'[r].schedule = s, work'[r].due = row[s].next, work'[r].at = work[r].at
        PROVE  DuesInv'
    <3>1. DuesStay(r)
      BY <1>0, <2>1, <2>3 DEF DuesStay, WorksOn, Numbers, DuesInv, RunnerDues
    <3> QED BY <1>0, <2>1, <2>3, <3>1, DuesOfOthers, DuesFrame
  <2> QED BY <1>2, <2>2, <2>3, FindFields
<1>3. ASSUME NEW r \in Runners, Claim(r) PROVE DuesInv'
  <2> DEFINE s == work[r].schedule
             next == NextRun(row[s].spec, work[r].at)
  <2>1. JobsKeep /\ r \in Processes /\ r # Web /\ s \in Schedules /\ pc[r] = "found"
    BY <1>3, ClaimEffect, Held DEF Claim, JobsKeep
  <2>2. CASE Passes(r)
    BY <1>0, <2>1, <2>2, DuesLeave DEF Leaves
  <2>3. CASE /\ Stored(s) /\ row[s].next = work[r].due
             /\ RowBecomes(s, [row[s] EXCEPT !.next = next]) /\ Becomes(r, "claimed", work[r])
    <3>1. FirstDueAfter(row[s].spec, work[r].at, next) /\ next \in Nat
      <4>1. row[s].spec \in Specs
        BY <2>1, <2>3 DEF HoldsInv, RowHolds, Stored
      <4> QED BY <1>0, <2>1, <4>1, NextRunIsFirst DEF Numbers
    <3>2. next > work[r].at /\ next \in Nat
      BY <3>1 DEF FirstDueAfter
    <3> HIDE DEF next
    <3>3. NextBecomes(s, next)
      BY <2>1, <2>3, RowFields
    <3>4. row'[s].next = next /\ pc'[r] = "claimed" /\ work'[r] = work[r] /\ StaysBut(r)
      BY <2>3, <3>3 DEF NextBecomes, Becomes, StaysBut
    <3>5. work[r].due =< work[r].at /\ work[r].due = row[s].next /\ work[r].job = 0 /\ work[r].at =< now
      BY <2>1, <2>3 DEF DuesInv, RunnerDues, HoldsInv, JobHeld
    <3>6. now' = now
      BY <1>3 DEF Claim
    <3> QED BY <1>0, <2>1, <2>3, <3>2, <3>4, <3>5, <3>6, DuesClaim DEF s
  <2> QED BY <1>3, <2>2, <2>3, ClaimEffect
<1>4. ASSUME NEW r \in Runners, ClaimInvalid(r) PROVE DuesInv'
  <2>1. JobsKeep
    BY <1>4 DEF ClaimInvalid, JobsKeep
  <2>2. Leaves(r)
    BY <1>4, ClaimInvalidEffect DEF Leaves
  <2> QED BY <1>0, <2>1, <2>2, DuesLeave, Held
<1>5. ASSUME NEW r \in Runners, RunClaimed(r) PROVE DuesInv'
  <2>1. JobsKeep /\ r \in Processes /\ pc[r] = "claimed"
    BY <1>5, Held, RunClaimedFields DEF RunClaimed, JobsKeep
  <2>2. CASE Leaves(r)
    BY <1>0, <2>1, <2>2, DuesLeave
  <2>3. CASE pc'[r] = "creating" /\ StaysBut(r) /\ SameTask(r)
    BY <1>0, <2>1, <2>3, DuesGoOn DEF SameTask
  <2> QED BY <1>5, <2>2, <2>3, RunClaimedFields
<1>6. ASSUME NEW r \in Runners, RefuseCost(r) PROVE DuesInv'
  <2>1. JobsKeep
    BY <1>6 DEF RefuseCost, JobsKeep
  <2>2. Leaves(r)
    BY <1>6, RefuseCostEffect
  <2> QED BY <1>0, <2>1, <2>2, DuesLeave, Held
<1>7. ASSUME NEW r \in Runners, RecordFailure(r) PROVE DuesInv'
  <2>1. JobsKeep
    BY <1>7 DEF RecordFailure, JobsKeep
  <2>2. Leaves(r)
    BY <1>7, RecordFailureEffect
  <2> QED BY <1>0, <2>1, <2>2, DuesLeave, Held
<1>8. ASSUME NEW p \in Processes, Admit(p) PROVE DuesInv'
  <2>1. JobsKeep
    BY <1>8 DEF Admit, JobsKeep
  <2>2. pc[p] = "creating" /\ pc'[p] = "admitted" /\ StaysBut(p) /\ SameTask(p)
    BY <1>8, AdmitFields
  <2> QED BY <1>0, <2>1, <2>2, DuesGoOn DEF SameTask
<1>9. ASSUME NEW p \in Processes, Refuse(p) PROVE DuesInv'
  <2>1. JobsKeep
    BY <1>9 DEF Refuse, JobsKeep
  <2>2. Leaves(p)
    BY <1>9, RefuseEffect
  <2> QED BY <1>0, <2>1, <2>2, DuesLeave
<1>10. ASSUME NEW p \in Processes, CreateFails(p) PROVE DuesInv'
  <2>1. JobsKeep /\ pc[p] \in Creating
    BY <1>10, CreateFailsEffect DEF CreateFails, JobsKeep
  <2>2. CASE Becomes(p, "idle", Idle)
    BY <1>0, <2>1, <2>2, DuesLeave DEF Leaves
  <2>3. CASE Becomes(p, "failed", work[p])
    <3>1. pc'[p] = "failed" /\ SameTask(p) /\ StaysBut(p)
      BY <2>3, StaysFields
    <3>2. pc[p] \notin {"idle", "claiming", "found"} /\ pc'[p] # "found"
      BY <2>1, <3>1 DEF Creating
    <3> QED BY <1>0, <2>1, <3>1, <3>2, DuesGoOn DEF SameTask
  <2> QED BY <1>10, <2>2, <2>3, CreateFailsEffect
<1>11. ASSUME NEW p \in Processes, StoreJob(p) PROVE DuesInv'
  BY <1>11, <1>0, DuesStore
<1>12. ASSUME NEW p \in Processes, QueueTheJob(p) PROVE DuesInv'
  <2>1. JobsKeep /\ pc[p] = "queueing"
    BY <1>12, QueueTheJobFields DEF JobChanges
  <2>2. CASE Becomes(p, "idle", Idle)
    BY <1>0, <2>1, <2>2, DuesLeave DEF Leaves
  <2>3. CASE pc'[p] = "recording" /\ SameTask(p) /\ StaysBut(p)
    BY <1>0, <2>1, <2>3, DuesGoOn DEF SameTask
  <2> QED BY <1>12, <2>2, <2>3, QueueTheJobFields
<1>13. ASSUME NEW p \in Processes, QueueingFails(p) PROVE DuesInv'
  <2>1. JobsKeep /\ pc[p] = "queueing"
    BY <1>13, QueueingFailsFields DEF JobChanges
  <2>2. CASE Becomes(p, "idle", Idle)
    BY <1>0, <2>1, <2>2, DuesLeave DEF Leaves
  <2>3. CASE pc'[p] = "failed" /\ SameTask(p) /\ StaysBut(p)
    BY <1>0, <2>1, <2>3, DuesGoOn DEF SameTask
  <2> QED BY <1>13, <2>2, <2>3, QueueingFailsFields
<1>14. ASSUME NEW p \in Processes, Record(p) PROVE DuesInv'
  <2>1. JobsKeep
    BY <1>14 DEF Record, JobsKeep
  <2>2. Leaves(p)
    BY <1>14, RecordEffect
  <2> QED BY <1>0, <2>1, <2>2, DuesLeave
<1>15. ASSUME NEW s \in Schedules, NEW spec \in Specs, NEW request \in Requests, NEW runNow \in BOOLEAN, CreateSchedule(s, spec, request, runNow) PROVE DuesInv'
  <2>1. JobsKeep /\ Web \in Processes
    BY <1>15, Held DEF CreateSchedule, JobsKeep
  <2>2. StaysBut(Web) /\ work'[Web].due = 0
    BY <1>15, CreateScheduleFields DEF DuesInv
  <2> QED BY <1>0, <2>1, <2>2, DuesOfOthers, DuesFrame
<1>16. ASSUME NEW request \in Requests, CreateCopy(request) PROVE DuesInv'
  <2>1. JobsKeep /\ Web \in Processes
    BY <1>16, Held DEF CreateCopy, JobsKeep
  <2>2. StaysBut(Web) /\ work'[Web].due = 0
    BY <1>16, CreateCopyFields
  <2> QED BY <1>0, <2>1, <2>2, DuesOfOthers, DuesFrame
<1>17. ASSUME NEW s \in Schedules, Pause(s) PROVE DuesInv'
  <2>1. UNCHANGED <<pc, work>> /\ JobsKeep
    BY <1>17 DEF Pause, JobsKeep
  <2> QED BY <1>0, <2>1, DuesRest
<1>18. ASSUME NEW s \in Schedules, Resume(s) PROVE DuesInv'
  <2>1. UNCHANGED <<pc, work>> /\ JobsKeep
    BY <1>18 DEF Resume, JobsKeep
  <2> QED BY <1>0, <2>1, DuesRest
<1>19. ASSUME NEW s \in Schedules, DeleteSchedule(s) PROVE DuesInv'
  <2>1. UNCHANGED <<pc, work>> /\ JobsKeep
    BY <1>19 DEF DeleteSchedule, JobsKeep
  <2> QED BY <1>0, <2>1, DuesRest
<1>20. ASSUME NEW s \in Schedules, EditByHand(s) PROVE DuesInv'
  <2>1. UNCHANGED <<pc, work>> /\ JobsKeep
    BY <1>20 DEF EditByHand, JobsKeep
  <2> QED BY <1>0, <2>1, DuesRest
<1>21. ASSUME NEW j \in DOMAIN jobs, JobEnds(j) PROVE DuesInv'
  <2>1. UNCHANGED <<pc, work>> /\ JobsKeep
    BY <1>21, JobEndsFields DEF JobEnds, JobChanges
  <2> QED BY <1>0, <2>1, DuesRest
<1>22. ASSUME NEW p \in Processes, Crash(p) PROVE DuesInv'
  <2>1. JobsKeep
    BY <1>22 DEF Crash, JobsKeep
  <2>2. Leaves(p)
    BY <1>22, CrashEffect DEF Leaves
  <2> QED BY <1>0, <2>1, <2>2, DuesLeave
<1>23. ASSUME Reconfigure PROVE DuesInv'
  <2>1. UNCHANGED <<pc, work>> /\ JobsKeep
    BY <1>23 DEF Reconfigure, JobsKeep
  <2> QED BY <1>0, <2>1, DuesRest
<1>24. ASSUME ClockTick PROVE DuesInv'
  <2>1. UNCHANGED <<pc, work>> /\ JobsKeep
    BY <1>24 DEF ClockTick, JobsKeep
  <2> QED BY <1>0, <2>1, DuesRest
<1>25. ASSUME UNCHANGED scheduleVars PROVE DuesInv'
  <2>1. UNCHANGED <<pc, work>> /\ JobsKeep
    BY <1>25 DEF scheduleVars, JobsKeep
  <2> QED BY <1>0, <2>1, DuesRest
<1> QED
  BY <1>1, <1>2, <1>3, <1>4, <1>5, <1>6, <1>7, <1>8, <1>9, <1>10, <1>11, <1>12, <1>13, <1>14, <1>15, <1>16, <1>17, <1>18, <1>19, <1>20, <1>21, <1>22, <1>23, <1>24, <1>25
     DEF ScheduleNext, RunnerStep, CreateStep, OwnerStep, Processes

-----------------------------------------------------------------------------
(* One run at a time.                                                       *)

\* What a step leaves of a row, as far as a running job is concerned.
RowStill(x) == Stored(x)' => Stored(x) /\ row'[x].lastJob = row[x].lastJob
RowsStill == \A x \in Schedules : RowStill(x)
RowsStillBut(s) == \A x \in Schedules \ {s} : RowStill(x)
Shrinks == \A x \in Schedules : RunningOf(x)' \subseteq RunningOf(x)

\* Changes of a row that no job in progress can tell.
LEMMA KeptStill ==
    /\ row' = row => RowsStill
    /\ RowsKeep => RowsStill
    /\ RowsStill => \A s : RowsStillBut(s)
    /\ \A s : \A v : LastBecomes(s, v) => RowsStillBut(s)
    /\ \A s : \A v : RowBecomes(s, v) => RowsStillBut(s)
<1>1. (row' = row => RowsStill) /\ (RowsKeep => RowsStill) /\ (RowsStill => \A s : RowsStillBut(s))
  BY DEF RowsKeep, RowKeeps, RowsStill, RowsStillBut, RowStill, Stored
<1>2. ASSUME NEW s, NEW v PROVE (LastBecomes(s, v) => RowsStillBut(s)) /\ (RowBecomes(s, v) => RowsStillBut(s))
  BY DEF LastBecomes, RowsBut, RowKeeps, RowBecomes, RowsStillBut, RowStill, Stored
<1> QED BY <1>1, <1>2

\* The row of a request that is refused.
LEMMA BackStill ==
    ASSUME NEW p, IF p = Web /\ IsScheduled(p) THEN RowBecomes(work[p].schedule, NoRow) ELSE row' = row
    PROVE  RowsStillBut(work[p].schedule)
<1>1. CASE p = Web /\ IsScheduled(p)
  <2>1. RowBecomes(work[p].schedule, NoRow)
    BY <1>1
  <2> QED BY <2>1, KeptStill
<1>2. CASE ~(p = Web /\ IsScheduled(p))
  <2>1. row' = row
    BY <1>2
  <2> QED BY <2>1, KeptStill
<1> QED BY <1>1, <1>2

\* Steps that start no job.
LEMMA SameJobs ==
    /\ jobs' = jobs => Shrinks
    /\ \A k : JobChanges(k) => Shrinks
<1>1. jobs' = jobs => Shrinks
  BY DEF Shrinks, RunningOf, InProgress
<1>2. ASSUME NEW k, JobChanges(k) PROVE Shrinks
  BY <1>2 DEF JobChanges, JobsKeep, Shrinks, RunningOf, InProgress
<1> QED BY <1>1, <1>2

\* One process moves, and if it is still at work on the schedule it was before.
LEMMA AloneFrame ==
    ASSUME HoldsInv, NEW x \in Schedules, Alone(x),
           NEW p \in Processes, StaysBut(p), RunningOf(x)' \subseteq RunningOf(x),
           WorksOn(p, x)' => WorksOn(p, x), Busy(p, x)',
           AtRest(x)' => RunningOf(x)' \subseteq {row'[x].lastJob}
    PROVE  Alone(x)'
<1>1. ASSUME NEW q \in Processes, WorksOn(q, x)' PROVE WorksOn(q, x)
  BY <1>1 DEF StaysBut, WorksOn
<1>2. (\A q, o \in Processes : WorksOn(q, x) /\ WorksOn(o, x) => q = o)'
  BY <1>1 DEF Alone
<1>3. ASSUME NEW q \in Processes PROVE Busy(q, x)'
  BY DEF Alone, Busy, StaysBut
<1>4. (\A i, j \in RunningOf(x) : i = j)'
  BY DEF Alone
<1> QED BY <1>2, <1>3, <1>4 DEF Alone

\* One process moves that had no job of the schedule in the making, and has none now.
LEMMA Elsewhere1 ==
    ASSUME HoldsInv, NEW x \in Schedules, Alone(x),
           NEW p \in Processes, StaysBut(p), RunningOf(x)' \subseteq RunningOf(x), RowStill(x),
           work[p].schedule = x => pc[p] \in Resting,
           work'[p].schedule = x => pc'[p] \in {"idle", "claiming", "found"}
    PROVE  Alone(x)'
<1>1. ~WorksOn(p, x)' /\ Busy(p, x)'
  BY DEF WorksOn, Busy, Making, Creating, Unrecorded
<1>2. AtRest(x)' => AtRest(x) /\ row'[x].lastJob = row[x].lastJob
  BY DEF AtRest, RowStill, StaysBut
<1>3. AtRest(x)' => RunningOf(x)' \subseteq {row'[x].lastJob}
  BY <1>2 DEF Alone
<1> QED BY <1>1, <1>3, AloneFrame

\* ... when the rows are the same for all schedules.
LEMMA Elsewhere ==
    ASSUME HoldsInv, NEW x \in Schedules, Alone(x),
           NEW p \in Processes, StaysBut(p), Shrinks, RowsStill \/ RowStill(x),
           work[p].schedule = x => pc[p] \in Resting,
           work'[p].schedule = x => pc'[p] \in {"idle", "claiming", "found"}
    PROVE  Alone(x)'
<1>1. RunningOf(x)' \subseteq RunningOf(x) /\ RowStill(x)
  BY DEF Shrinks, RowsStill
<1> QED BY <1>1, Elsewhere1

\* A process leaves a schedule of which it did not create a job.
LEMMA LeavesRest ==
    ASSUME HoldsInv, NEW x \in Schedules, Alone(x),
           NEW p \in Processes, Leaves(p), pc[p] \in Resting, Shrinks, RowsStill
    PROVE  Alone(x)'
<1>1. StaysBut(p) /\ pc'[p] \in {"idle", "claiming"}
  BY LeavesFields
<1> QED BY <1>1, Elsewhere

\* A process goes on with a schedule of which no job runs.
LEMMA EmptyGoesOn ==
    ASSUME HoldsInv, NEW x \in Schedules, Alone(x),
           NEW p \in Processes, StaysBut(p), RunningOf(x)' = {},
           WorksOn(p, x)' => WorksOn(p, x)
    PROVE  Alone(x)'
<1>1. Busy(p, x)'
  BY DEF Busy
<1> QED BY <1>1, AloneFrame

\* A process leaves the creation of a job, or its failure.
LEMMA LeavesMaking ==
    ASSUME HoldsInv, NEW x \in Schedules, Alone(x),
           NEW p \in Processes, Leaves(p), pc[p] \in Making, Shrinks, RowsStillBut(work[p].schedule)
    PROVE  Alone(x)'
<1>1. StaysBut(p) /\ pc'[p] \in {"idle", "claiming"}
  BY LeavesFields
<1>2. CASE work[p].schedule = x
  <2>1. RunningOf(x)' = {} /\ ~WorksOn(p, x)'
    BY <1>1, <1>2 DEF Alone, Busy, Shrinks, WorksOn
  <2> QED BY <1>1, <2>1, EmptyGoesOn
<1>3. CASE work[p].schedule # x
  BY <1>1, <1>3, Elsewhere DEF RowsStillBut
<1> QED BY <1>2, <1>3

\* A runner claims a schedule that nobody is at work on.
LEMMA ClaimAlone ==
    ASSUME NEW x \in Schedules, Alone(x), jobs' = jobs,
           NEW r \in Processes, pc[r] = "found", \A q \in Processes \ {r} : ~WorksOn(q, x),
           pc'[r] = "claimed", work'[r] = work[r], StaysBut(r),
           row'[x].lastJob = row[x].lastJob, row'[x].state = row[x].state
    PROVE  Alone(x)'
<1>1. ASSUME NEW q \in Processes, WorksOn(q, x)' PROVE q = r
  BY <1>1 DEF WorksOn, StaysBut
<1>2. RunningOf(x)' = RunningOf(x)
  BY DEF RunningOf, InProgress
<1>3. ASSUME NEW q \in Processes PROVE Busy(q, x)'
  <2>1. CASE q = r
    BY <2>1 DEF Busy, Making, Creating, Unrecorded
  <2>2. CASE q # r
    BY <1>2, <2>2 DEF Alone, Busy, StaysBut
  <2> QED BY <2>1, <2>2
<1>4. AtRest(x)' => AtRest(x)
  BY DEF AtRest, Stored, StaysBut, Resting
<1>5. (\A q, o \in Processes : WorksOn(q, x) /\ WorksOn(o, x) => q = o)'
  BY <1>1
<1> QED BY <1>2, <1>3, <1>4, <1>5 DEF Alone

\* The only job that runs is the one its creator still holds.
LEMMA StoreAlone ==
    ASSUME HoldsInv, NEW x \in Schedules, Alone(x),
           NEW p \in Processes, StaysBut(p), pc[p] = "admitted", pc'[p] = "queueing",
           work[p].schedule = x, work'[p].schedule = x, RunningOf(x)' \subseteq {work'[p].job}
    PROVE  Alone(x)'
<1>1. WorksOn(p, x)
  BY DEF WorksOn
<1>2. ASSUME NEW q \in Processes, WorksOn(q, x)' PROVE WorksOn(q, x)
  BY <1>1, <1>2 DEF StaysBut, WorksOn
<1>3. (\A q, o \in Processes : WorksOn(q, x) /\ WorksOn(o, x) => q = o)'
  BY <1>2 DEF Alone
<1>4. ASSUME NEW q \in Processes PROVE Busy(q, x)'
  <2>1. CASE q = p
    BY <2>1 DEF Busy, Making, Creating
  <2>2. CASE q # p
    <3>1. ~WorksOn(q, x) /\ pc'[q] = pc[q] /\ work'[q] = work[q]
      BY <1>1, <2>2 DEF Alone, StaysBut
    <3> QED BY <3>1 DEF Busy, WorksOn, Making, Creating, Unrecorded
  <2> QED BY <2>1, <2>2
<1>5. ~AtRest(x)'
  BY DEF AtRest, Resting
<1> QED BY <1>3, <1>4, <1>5 DEF Alone

\* No process moves.
LEMMA AloneRests ==
    ASSUME NEW x \in Schedules, Alone(x), UNCHANGED <<pc, work>>, Shrinks, RowsStill
    PROVE  Alone(x)'
<1>1. \A q \in Processes : WorksOn(q, x)' <=> WorksOn(q, x)
  BY DEF WorksOn
<1>2. RunningOf(x)' \subseteq RunningOf(x) /\ RowStill(x)
  BY DEF Shrinks, RowsStill
<1>3. ASSUME NEW q \in Processes PROVE Busy(q, x)'
  BY <1>2 DEF Alone, Busy
<1>4. AtRest(x)' => AtRest(x) /\ row'[x].lastJob = row[x].lastJob
  BY <1>2 DEF AtRest, RowStill
<1> QED BY <1>1, <1>2, <1>3, <1>4 DEF Alone

\* A schedule that missed a job has missed it for good.
LEMMA StillUntracked ==
    ASSUME [ScheduleNext]_scheduleVars
    PROVE  untracked \subseteq untracked'
BY DEF ScheduleNext, RunnerStep, CreateStep, OwnerStep, StartTick, Find, Claim, ClaimInvalid, RunClaimed,
      RefuseCost, RecordFailure, Admit, Refuse, CreateFails, StoreJob, QueueTheJob, QueueingFails, Record,
      CreateSchedule, CreateCopy, Pause, Resume, DeleteSchedule, EditByHand, JobEnds, Crash, Reconfigure,
      ClockTick, scheduleVars

\* Every step keeps one run at a time, of a schedule that misses none of its jobs.
LEMMA StackKept ==
    ASSUME ScheduleTypeOK, ScheduleTypeOK', HoldsInv, StackInv,
           [ScheduleNext]_scheduleVars, NEW x \in Schedules \ untracked'
    PROVE  Alone(x)'
<1>0. /\ \A r \in Runners : r \in Processes /\ r # Web
      /\ x \in Schedules /\ x \notin untracked' /\ x \notin untracked /\ Alone(x)
  <2>1. untracked \subseteq untracked'
    BY StillUntracked
  <2> QED BY <2>1, Held DEF StackInv
<1>1. ASSUME NEW r \in Runners, StartTick(r) PROVE Alone(x)'
  <2>1. r \in Processes /\ Shrinks /\ RowsStill
    BY <1>1, Held, SameJobs, KeptStill DEF StartTick
  <2>2. pc[r] = "idle" /\ pc'[r] = "claiming" /\ StaysBut(r)
    BY <1>1, StartTickFields
  <2> QED BY <1>0, <2>1, <2>2, Elsewhere DEF Resting
<1>2. ASSUME NEW r \in Runners, Find(r) PROVE Alone(x)'
  <2>1. r \in Processes /\ Shrinks /\ RowsStill /\ pc[r] = "claiming"
    BY <1>2, Held, SameJobs, KeptStill, FindEffect DEF Find
  <2>2. CASE Leaves(r)
    BY <1>0, <2>1, <2>2, LeavesRest DEF Resting
  <2>3. CASE pc'[r] = "found" /\ StaysBut(r)
    BY <1>0, <2>1, <2>3, Elsewhere DEF Resting
  <2> QED BY <1>2, <2>2, <2>3, FindFields
<1>3. ASSUME NEW r \in Runners, Claim(r) PROVE Alone(x)'
  <2> DEFINE s == work[r].schedule
             next == NextRun(row[s].spec, work[r].at)
  <2>1. r \in Processes /\ s \in Schedules /\ pc[r] = "found" /\ jobs' = jobs
    BY <1>3, ClaimEffect, Held DEF Claim
  <2>2. CASE Passes(r) /\ UNCHANGED row
    BY <1>0, <2>1, <2>2, LeavesRest, SameJobs, KeptStill DEF Leaves, Resting
  <2>3. CASE /\ Stored(s) /\ row[s].next = work[r].due
             /\ RowBecomes(s, [row[s] EXCEPT !.next = next]) /\ Becomes(r, "claimed", work[r])
             /\ untracked' = IF \E p \in Processes \ {r} : WorksOn(p, s)
                             THEN untracked \cup {s} ELSE untracked
    <3> HIDE DEF next
    <3>1. NextBecomes(s, next) /\ RowsStillBut(s)
      BY <2>1, <2>3, RowFields, ZenonT(30) DEF NextBecomes, RowsBut, RowKeeps, RowsStillBut, RowStill, Stored
    <3>2. pc'[r] = "claimed" /\ work'[r] = work[r] /\ StaysBut(r)
      BY <2>3 DEF Becomes, StaysBut
    <3>3. CASE x # s
      <4>1. RowStill(x) /\ Shrinks
        BY <2>1, <3>1, <3>3, SameJobs DEF RowsStillBut
      <4> QED BY <1>0, <2>1, <3>2, <3>3, <4>1, Elsewhere DEF Resting
    <3>4. CASE x = s
      <4>1. \A q \in Processes \ {r} : ~WorksOn(q, s)
        BY <1>0, <2>3, <3>4
      <4>2. row'[s].lastJob = row[s].lastJob /\ row'[s].state = row[s].state
        BY <3>1 DEF NextBecomes
      <4> QED BY <1>0, <2>1, <3>2, <3>4, <4>1, <4>2, ClaimAlone
    <3> QED BY <3>3, <3>4
  <2> QED BY <1>3, <2>2, <2>3, ClaimEffect
<1>4. ASSUME NEW r \in Runners, ClaimInvalid(r) PROVE Alone(x)'
  <2>1. /\ r \in Processes /\ pc[r] \in Resting /\ Leaves(r) /\ RowsStill
        /\ Shrinks
    BY <1>4, <1>0, ClaimInvalidEffect, RowFields, KeptStill, SameJobs DEF ClaimInvalid, Leaves, Resting
  <2> QED BY <1>0, <2>1, LeavesRest
<1>5. ASSUME NEW r \in Runners, RunClaimed(r) PROVE Alone(x)'
  <2> DEFINE s == work[r].schedule
  <2>1. r \in Processes /\ s \in Schedules /\ pc[r] = "claimed" /\ Shrinks /\ RowsStill
    BY <1>5, RunClaimedFields, Held, SameJobs, KeptStill DEF RunClaimed
  <2>2. CASE Leaves(r)
    BY <1>0, <2>1, <2>2, LeavesRest DEF Resting
  <2>3. CASE Stored(s) /\ ~InProgress(row[s].lastJob) /\ pc'[r] = "creating" /\ StaysBut(r) /\ SameTask(r)
    <3>1. CASE x # s
      BY <1>0, <2>1, <2>3, <3>1, Elsewhere DEF Resting, SameTask, RowsStill
    <3>2. CASE x = s
      <4>1. WorksOn(r, s) /\ ~InProgress(row[s].lastJob)
        BY <2>1, <2>3 DEF WorksOn
      <4>2. ASSUME NEW q \in Processes, work[q].schedule = s PROVE pc[q] \in Resting
        BY <1>0, <2>1, <3>2, <4>1, <4>2 DEF Alone, WorksOn, Resting
      <4>3. RunningOf(s) \subseteq {row[s].lastJob}
        BY <1>0, <2>3, <3>2, <4>2 DEF Alone, AtRest
      <4>4. RunningOf(s) = {}
        BY <4>1, <4>3 DEF RunningOf
      <4> QED BY <1>0, <2>1, <2>3, <3>2, <4>4, EmptyGoesOn DEF SameTask, Shrinks, WorksOn
    <3> QED BY <3>1, <3>2
  <2> QED BY <1>5, <2>2, <2>3, RunClaimedFields
<1>6. ASSUME NEW r \in Runners, RefuseCost(r) PROVE Alone(x)'
  <2>1. /\ r \in Processes /\ pc[r] \in Making /\ Leaves(r) /\ RowsStillBut(work[r].schedule)
        /\ Shrinks
    BY <1>6, <1>0, RefuseCostEffect, RowFields, KeptStill, SameJobs DEF RefuseCost, Making, Creating
  <2> QED BY <1>0, <2>1, LeavesMaking
<1>7. ASSUME NEW r \in Runners, RecordFailure(r) PROVE Alone(x)'
  <2>1. /\ r \in Processes /\ pc[r] \in Making /\ Leaves(r) /\ RowsStillBut(work[r].schedule)
        /\ Shrinks
    BY <1>7, <1>0, RecordFailureEffect, RowFields, KeptStill, SameJobs DEF RecordFailure, Making
  <2> QED BY <1>0, <2>1, LeavesMaking
<1>8. ASSUME NEW p \in Processes, Admit(p) PROVE Alone(x)'
  <2>1. Shrinks /\ RowsStill
    BY <1>8, SameJobs, KeptStill DEF Admit
  <2>2. pc[p] = "creating" /\ pc'[p] = "admitted" /\ StaysBut(p) /\ SameTask(p)
    BY <1>8, AdmitFields
  <2>3. CASE work[p].schedule # x
    BY <1>0, <2>1, <2>2, <2>3, Elsewhere DEF SameTask, RowsStill
  <2>4. CASE work[p].schedule = x
    BY <1>0, <2>1, <2>2, <2>4, EmptyGoesOn DEF SameTask, Making, Creating, Alone, Busy, WorksOn, Shrinks
  <2> QED BY <2>3, <2>4
<1>9. ASSUME NEW p \in Processes, Refuse(p) PROVE Alone(x)'
  <2>1. /\ p \in Processes /\ pc[p] \in Making /\ Leaves(p) /\ RowsStillBut(work[p].schedule)
        /\ Shrinks
    BY <1>9, RefuseEffect, BackStill, SameJobs DEF Refuse, Making, Creating
  <2> QED BY <1>0, <2>1, LeavesMaking
<1>10. ASSUME NEW p \in Processes, CreateFails(p) PROVE Alone(x)'
  <2>1. /\ Shrinks /\ pc[p] \in Creating /\ pc[p] \in Making
        /\ RowsStillBut(work[p].schedule)
    BY <1>10, CreateFailsEffect, BackStill, SameJobs DEF CreateFails, Making
  <2>2. CASE Leaves(p)
    BY <1>0, <2>1, <2>2, LeavesMaking
  <2>3. CASE pc'[p] = "failed" /\ StaysBut(p) /\ SameTask(p)
    <3>1. CASE work[p].schedule # x
      BY <1>0, <2>1, <2>3, <3>1, Elsewhere DEF SameTask, RowsStillBut
    <3>2. CASE work[p].schedule = x
      BY <1>0, <2>1, <2>3, <3>2, EmptyGoesOn DEF SameTask, Making, Creating, Alone, Busy, WorksOn, Shrinks
    <3> QED BY <3>1, <3>2
  <2> QED BY <1>10, <2>2, <2>3, CreateFailsEffect, StaysFields DEF Leaves
<1>11. ASSUME NEW p \in Processes, StoreJob(p) PROVE Alone(x)'
  <2> DEFINE s == work[p].schedule
  <2>1. PICK n : n = Len(jobs) + 1
    OBVIOUS
  <2>2. /\ n \notin DOMAIN jobs /\ DOMAIN jobs' = DOMAIN jobs \cup {n}
        /\ \A j \in DOMAIN jobs : jobs'[j] = jobs[j]
        /\ jobs'[n].schedule = work[p].schedule
        /\ pc[p] = "admitted" /\ pc'[p] = "queueing" /\ StaysBut(p)
        /\ work'[p].schedule = work[p].schedule /\ work'[p].job = n
    BY <1>11, <2>1, StoreJobFields
  <2>3. now' = now
    BY <1>11 DEF StoreJob
  <2>4. CASE x # s
    <3>1. RunningOf(x)' \subseteq RunningOf(x)
      BY <2>2, <2>4 DEF RunningOf, InProgress
    <3>2. RowStill(x)
      <4>1. CASE IsScheduled(p) /\ row[s].state = "flushed"
        <5>1. RowBecomes(s, [row[s] EXCEPT !.state = "stored"])
          BY <1>11, <4>1, StoreJobEffect
        <5> QED BY <2>4, <5>1 DEF RowBecomes, RowStill, Stored
      <4>2. CASE ~(IsScheduled(p) /\ row[s].state = "flushed")
        <5>1. row' = row
          BY <1>11, <4>2, StoreJobEffect
        <5> QED BY <5>1 DEF RowStill, Stored
      <4> QED BY <4>1, <4>2
    <3> QED BY <1>0, <2>2, <2>3, <2>4, <3>1, <3>2, Elsewhere1
  <2>5. CASE x = s
    <3>1. RunningOf(x) = {}
      BY <1>0, <2>2, <2>5 DEF Alone, Busy, Making, Creating
    <3>2. RunningOf(x)' \subseteq {n}
      BY <2>2, <3>1 DEF RunningOf, InProgress
    <3> QED BY <1>0, <2>2, <2>3, <2>5, <3>2, StoreAlone
  <2> QED BY <2>4, <2>5
<1>12. ASSUME NEW p \in Processes, QueueTheJob(p) PROVE Alone(x)'
  <2>1. pc[p] = "queueing" /\ Shrinks /\ RowsStill
    BY <1>12, QueueTheJobFields, SameJobs, KeptStill DEF QueueTheJob
  <2>2. CASE pc'[p] = "recording" /\ SameTask(p) /\ StaysBut(p)
    <3>1. CASE work[p].schedule # x
      BY <1>0, <2>1, <2>2, <3>1, Elsewhere DEF SameTask, RowsStill
    <3>2. CASE work[p].schedule = x
      <4>1. WorksOn(p, x) /\ RunningOf(x) \subseteq {work[p].job}
        BY <1>0, <2>1, <3>2 DEF WorksOn, Alone, Busy, Unrecorded
      <4>2. Busy(p, x)' /\ ~AtRest(x)'
        BY <1>0, <2>1, <2>2, <3>2, <4>1 DEF Busy, Making, Creating, Unrecorded, SameTask, Shrinks, AtRest, Resting
      <4> QED BY <1>0, <2>1, <2>2, <4>1, <4>2, AloneFrame DEF Shrinks
    <3> QED BY <3>1, <3>2
  <2>3. CASE ~IsScheduled(p) /\ Becomes(p, "idle", Idle)
    <3>1. work[p].schedule # x
      BY <2>3, Held
    <3>2. StaysBut(p) /\ pc'[p] = "idle"
      BY <2>3 DEF Becomes, StaysBut
    <3> QED BY <1>0, <2>1, <3>1, <3>2, Elsewhere DEF RowsStill
  <2> QED BY <1>12, <2>2, <2>3, QueueTheJobFields
<1>13. ASSUME NEW p \in Processes, QueueingFails(p) PROVE Alone(x)'
  <2>1. pc[p] = "queueing" /\ Shrinks /\ RowsStill
    BY <1>13, QueueingFailsFields, SameJobs, KeptStill DEF QueueingFails
  <2>2. ASSUME work[p].schedule = x PROVE WorksOn(p, x) /\ RunningOf(x)' = {}
    <3>1. WorksOn(p, x) /\ RunningOf(x) \subseteq {work[p].job}
      BY <1>0, <2>1, <2>2 DEF WorksOn, Alone, Busy, Unrecorded
    <3>2. jobs'[work[p].job].state = "FAILED"
      BY <1>13, QueueingFailsFields
    <3> QED BY <1>0, <2>1, <3>1, <3>2 DEF Shrinks, RunningOf, InProgress
  <2>3. \/ pc'[p] = "idle" /\ StaysBut(p)
        \/ pc'[p] = "failed" /\ StaysBut(p) /\ SameTask(p)
    BY <1>13, QueueingFailsFields DEF Becomes, StaysBut
  <2>4. CASE work[p].schedule # x
    BY <1>0, <2>1, <2>3, <2>4, Elsewhere DEF SameTask, RowsStill
  <2>5. CASE work[p].schedule = x
    BY <1>0, <2>1, <2>2, <2>3, <2>5, EmptyGoesOn
  <2> QED BY <2>4, <2>5
<1>14. ASSUME NEW p \in Processes, Record(p) PROVE Alone(x)'
  <2> DEFINE s == work[p].schedule
  <2>1. pc[p] = "recording" /\ s \in Schedules /\ Leaves(p) /\ Shrinks
    BY <1>14, RecordEffect, SameJobs DEF Record
  <2>2. pc'[p] \in {"idle", "claiming"} /\ StaysBut(p)
    BY <2>1, LeavesFields
  <2>3. RowsStillBut(s) /\ (row'[s].state = "stored" => row'[s].lastJob = work[p].job)
    <3>1. CASE Stored(s)
      <4>1. LastBecomes(s, work[p].job)
        BY <1>14, <2>1, <3>1, RecordEffect, RowFields
      <4> QED BY <4>1 DEF LastBecomes, RowsBut, RowKeeps, RowsStillBut, RowStill, Stored
    <3>2. CASE ~Stored(s)
      <4>1. row' = row
        BY <1>14, <3>2, RecordEffect
      <4> QED BY <3>2, <4>1 DEF RowsStillBut, RowStill, Stored
    <3> QED BY <3>1, <3>2
  <2>4. CASE x # s
    BY <1>0, <2>1, <2>2, <2>3, <2>4, Elsewhere DEF RowsStillBut
  <2>5. CASE x = s
    <3>1. RunningOf(x)' \subseteq {work[p].job}
      BY <1>0, <2>1, <2>5 DEF Alone, Busy, Unrecorded, Shrinks
    <3>2. ~WorksOn(p, x)' /\ Busy(p, x)'
      BY <2>2 DEF WorksOn, Busy, Making, Creating, Unrecorded
    <3>3. AtRest(x)' => RunningOf(x)' \subseteq {row'[x].lastJob}
      BY <2>3, <2>5, <3>1 DEF AtRest, Stored
    <3> QED BY <1>0, <2>1, <2>2, <3>2, <3>3, AloneFrame DEF Shrinks
  <2> QED BY <2>4, <2>5
<1>15. ASSUME NEW s \in Schedules, NEW spec \in Specs, NEW request \in Requests, NEW runNow \in BOOLEAN, CreateSchedule(s, spec, request, runNow) PROVE Alone(x)'
  <2>1. /\ pc[Web] = "idle" /\ row[s].state = "new" /\ \A y \in Schedules \ {s} : row'[y] = row[y]
        /\ StaysBut(Web)
        /\ \/ work'[Web].schedule = s
           \/ UNCHANGED <<pc, work>>
    BY <1>15, CreateScheduleFields
  <2>2. Shrinks /\ Web \in Processes
    BY <1>15, SameJobs, Held DEF CreateSchedule
  <2>3. CASE x # s
    <3>1. RowStill(x)
      BY <2>1, <2>3 DEF RowStill, Stored
    <3> QED BY <1>0, <2>1, <2>2, <2>3, <3>1, Elsewhere DEF Resting
  <2>4. CASE x = s
    <3>1. RunningOf(x)' = {}
      <4>1. RowHolds(x)
        BY DEF HoldsInv
      <4> QED BY <2>1, <2>2, <2>4, <4>1 DEF RowHolds, RunningOf, Shrinks
    <3>2. ASSUME NEW q \in Processes, WorksOn(q, x)' PROVE q = Web
      <4>1. CASE q # Web
        <5>1. WorksOn(q, x) /\ q \in Runners
          BY <2>1, <3>2, <4>1, Held DEF StaysBut, WorksOn
        <5> QED BY <2>1, <2>4, <5>1 DEF HoldsInv, RunnerHolds, WorksOn
      <4> QED BY <4>1
    <3> QED BY <3>1, <3>2 DEF Alone, Busy
  <2> QED BY <2>3, <2>4
<1>16. ASSUME NEW request \in Requests, CreateCopy(request) PROVE Alone(x)'
  <2>1. pc[Web] = "idle" /\ StaysBut(Web) /\ work'[Web].schedule = NoOne
    BY <1>16, CreateCopyFields
  <2>2. Shrinks /\ RowsStill /\ Web \in Processes /\ NoOne # x
    BY <1>16, SameJobs, KeptStill, Held DEF CreateCopy
  <2> QED BY <1>0, <2>1, <2>2, Elsewhere DEF Resting
<1>17. ASSUME NEW s \in Schedules, Pause(s) PROVE Alone(x)'
  <2>1. UNCHANGED <<pc, work>> /\ Shrinks /\ RowsStill
    BY <1>17, SameJobs, PauseEffect, RowFields, KeptStill DEF Pause
  <2> QED BY <1>0, <2>1, AloneRests
<1>18. ASSUME NEW s \in Schedules, Resume(s) PROVE Alone(x)'
  <2>1. UNCHANGED <<pc, work>> /\ Shrinks
    BY <1>18, SameJobs DEF Resume
  <2>2. \E v : NextBecomes(s, v)
    BY <1>18, ResumeEffect, RowFields
  <2>3. RowsStill
    BY <2>2 DEF NextBecomes, RowsBut, RowKeeps, RowsStill, RowStill, Stored
  <2> QED BY <1>0, <2>1, <2>3, AloneRests
<1>19. ASSUME NEW s \in Schedules, DeleteSchedule(s) PROVE Alone(x)'
  <2>1. UNCHANGED <<pc, work>> /\ Shrinks
    BY <1>19, SameJobs DEF DeleteSchedule
  <2>2. StateBecomes(s, "deleted")
    BY <1>19, DeleteScheduleEffect, RowFields
  <2>3. RowsStill
    BY <2>2 DEF StateBecomes, RowsBut, RowKeeps, RowsStill, RowStill, Stored
  <2> QED BY <1>0, <2>1, <2>3, AloneRests
<1>20. ASSUME NEW s \in Schedules, EditByHand(s) PROVE Alone(x)'
  <2>1. UNCHANGED <<pc, work>> /\ Shrinks /\ RowsStill
    BY <1>20, SameJobs, EditByHandEffect, RowFields, KeptStill DEF EditByHand
  <2> QED BY <1>0, <2>1, AloneRests
<1>21. ASSUME NEW j \in DOMAIN jobs, JobEnds(j) PROVE Alone(x)'
  <2>1. UNCHANGED <<pc, work>> /\ Shrinks /\ RowsStill
    BY <1>21, SameJobs, JobEndsFields, KeptStill DEF JobEnds
  <2> QED BY <1>0, <2>1, AloneRests
<1>22. ASSUME NEW p \in Processes, Crash(p) PROVE Alone(x)'
  <2> DEFINE s == work[p].schedule
  <2>1. pc'[p] = "idle" /\ StaysBut(p) /\ Shrinks
    BY <1>22, CrashEffect, SameJobs DEF Crash, Becomes, StaysBut
  <2>2. /\ IF IsScheduled(p) /\ row[s].state = "flushed" THEN RowBecomes(s, NoRow) ELSE row' = row
        /\ untracked' = IF IsScheduled(p) /\ pc[p] \in Unrecorded THEN untracked \cup {s} ELSE untracked
    BY <1>22, CrashEffect
  <2>3. RowsStill
    <3>1. CASE IsScheduled(p) /\ row[s].state = "flushed"
      BY <2>2, <3>1 DEF RowBecomes, NoRow, RowsStill, RowStill, Stored
    <3>2. CASE ~(IsScheduled(p) /\ row[s].state = "flushed")
      BY <2>2, <3>2, KeptStill
    <3> QED BY <3>1, <3>2
  <2>4. CASE s # x
    BY <1>0, <2>1, <2>3, <2>4, Elsewhere DEF RowsStill
  <2>5. CASE s = x /\ pc[p] \in Resting
    BY <1>0, <2>1, <2>3, <2>5, Elsewhere DEF RowsStill
  <2>6. CASE s = x /\ pc[p] \in Making
    <3>1. RunningOf(x)' = {} /\ ~WorksOn(p, x)'
      BY <1>0, <2>1, <2>6 DEF Alone, Busy, Shrinks, WorksOn
    <3> QED BY <1>0, <2>1, <3>1, EmptyGoesOn
  <2>7. CASE s = x /\ pc[p] \in Unrecorded
    <3>1. IsScheduled(p)
      BY <2>7, Held
    <3> QED BY <2>2, <2>7, <3>1
  <2>8. pc[p] \in Resting \cup Making \cup Unrecorded
    <3>1. pc[p] \in Places
      BY DEF ScheduleTypeOK
    <3> QED BY <3>1 DEF Places, Resting, Making, Creating, Unrecorded
  <2> QED BY <2>4, <2>5, <2>6, <2>7, <2>8
<1>23. ASSUME Reconfigure PROVE Alone(x)'
  <2>1. UNCHANGED <<pc, work>> /\ Shrinks /\ RowsStill
    BY <1>23, SameJobs, KeptStill DEF Reconfigure
  <2> QED BY <1>0, <2>1, AloneRests
<1>24. ASSUME ClockTick PROVE Alone(x)'
  <2>1. UNCHANGED <<pc, work>> /\ Shrinks /\ RowsStill
    BY <1>24, SameJobs, KeptStill DEF ClockTick
  <2> QED BY <1>0, <2>1, AloneRests
<1>25. ASSUME UNCHANGED scheduleVars PROVE Alone(x)'
  <2>1. UNCHANGED <<pc, work>> /\ Shrinks /\ RowsStill
    BY <1>25, SameJobs, KeptStill DEF scheduleVars
  <2> QED BY <1>0, <2>1, AloneRests
<1> QED
  BY <1>1, <1>2, <1>3, <1>4, <1>5, <1>6, <1>7, <1>8, <1>9, <1>10, <1>11, <1>12, <1>13, <1>14, <1>15, <1>16, <1>17, <1>18, <1>19, <1>20, <1>21, <1>22, <1>23, <1>24, <1>25
     DEF ScheduleNext, RunnerStep, CreateStep, OwnerStep, Processes

-----------------------------------------------------------------------------
(* Costs and overwriting.                                                   *)

\* Whatever size the source turns out to have, the machine that the job then gets is one
\* whose cost the user was asked about (JobAdmission's Route and CandidateRunners).
LEMMA EveryRunnerIsAsked ==
    ASSUME NEW src, NEW dst, NEW c, NEW raw, NEW size \in {"unknown", "small", "large"},
           NeedsConfirmation(Assess(src, dst, Runner(Route(src, dst, c, size), c)))
    PROVE  Confirmed(src, dst, c, raw) # "free"
<1>1. Route(src, dst, c, "small") = Route(src, dst, c, "unknown")
  BY DEF Route
<1>2. PICK z \in {"unknown", "large"} : Route(src, dst, c, size) = Route(src, dst, c, z)
  BY <1>1
<1>3. Runner(Route(src, dst, c, size), c) \in CandidateRunners(src, dst, c)
  BY <1>2 DEF CandidateRunners
<1> QED BY <1>3 DEF Confirmed

\* Places are told apart by their storage and by their path.
LEMMA SamePlace ==
    ASSUME NEW d, NEW e, NEW path, NEW folder, Place(d, folder) = Place(e, path)
    PROVE  StorageKey(d) = StorageKey(e) /\ folder = path
<1>1. Place(d, folder).key = Place(e, path).key /\ Place(d, folder).path = Place(e, path).path
  OBVIOUS
<1> QED BY <1>1 DEF Place

\* The requests and the confirmations of the jobs stay.
JobsGrow ==
    \A j \in DOMAIN jobs : /\ j \in DOMAIN jobs'
                           /\ jobs'[j].egress = jobs[j].egress /\ jobs'[j].request = jobs[j].request

LEMMA SameRequests ==
    ASSUME ChargesInv, jobs' = jobs
    PROVE  ChargesAreConfirmed' /\ JobsGrow
BY DEF ChargesInv, ChargesAreConfirmed, JobsGrow

LEMMA ChangedRequests ==
    ASSUME ChargesInv, NEW j \in DOMAIN jobs, JobChanges(j), jobs'[j].fee = jobs[j].fee
    PROVE  ChargesAreConfirmed' /\ JobsGrow
BY DEF ChargesInv, ChargesAreConfirmed, JobsGrow, JobChanges, JobsKeep

\* One process moves, and what the others asked for stays.
LEMMA AsksFrame ==
    ASSUME HoldsInv, ChargesInv, PlacesInv, cfg' = cfg, ChargesAreConfirmed', JobsGrow,
           NEW p \in Processes, StaysBut(p), Asks(p)', Earns(p)',
           \A place \in places' : \/ place \in places
                                  \/ \E j \in DOMAIN jobs' :
                                        place = Place(jobs'[j].request.dst, jobs'[j].request.path)
    PROVE  ChargesInv' /\ PlacesInv'
<1>1. ASSUME NEW q \in Processes, q # p PROVE Asks(q)' /\ Earns(q)'
  <2>1. pc'[q] = pc[q] /\ work'[q] = work[q] /\ Asks(q) /\ Earns(q) /\ JobHeld(q)
    BY <1>1 DEF StaysBut, ChargesInv, PlacesInv, HoldsInv
  <2>2. Asks(q)'
    BY <2>1 DEF Asks, AsksFor, JobsGrow, JobHeld, Unrecorded
  <2>3. Earns(q)'
    BY <2>1 DEF Earns, EarnsOverwrite, Covers, JobsGrow
  <2> QED BY <2>2, <2>3
<1>2. ASSUME NEW place \in places'
      PROVE  \E j \in DOMAIN jobs' : place = Place(jobs'[j].request.dst, jobs'[j].request.path)
  <2>1. CASE place \in places
    <3>1. PICK j \in DOMAIN jobs : place = Place(jobs[j].request.dst, jobs[j].request.path)
      BY <2>1 DEF PlacesInv
    <3> QED BY <3>1 DEF JobsGrow
  <2> QED BY <1>2, <2>1
<1> QED BY <1>1, <1>2 DEF ChargesInv, PlacesInv

\* A process moves that is not between the checks and the queue.
LEMMA AsksElsewhere ==
    ASSUME HoldsInv, ChargesInv, PlacesInv, UNCHANGED <<cfg, places>>, ChargesAreConfirmed', JobsGrow,
           NEW p \in Processes, StaysBut(p),
           pc'[p] \notin {"admitted", "queueing"}
    PROVE  ChargesInv' /\ PlacesInv'
<1>1. Asks(p)' /\ Earns(p)'
  BY DEF Asks, Earns
<1> QED BY <1>1, AsksFrame

\* No process moves.
LEMMA AsksRest ==
    ASSUME HoldsInv, ChargesInv, PlacesInv, UNCHANGED <<cfg, places, pc, work>>, ChargesAreConfirmed', JobsGrow,
           Web \in Processes
    PROVE  ChargesInv' /\ PlacesInv'
<1>1. StaysBut(Web) /\ Asks(Web) /\ Earns(Web) /\ JobHeld(Web)
  BY DEF StaysBut, ChargesInv, PlacesInv, HoldsInv
<1>2. Asks(Web)'
  BY <1>1 DEF Asks, AsksFor, JobsGrow, JobHeld, Unrecorded
<1>3. Earns(Web)'
  BY <1>1 DEF Earns, EarnsOverwrite, Covers, JobsGrow
<1> QED BY <1>1, <1>2, <1>3, AsksFrame

\* Every step keeps costs confirmed and overwriting earned.
LEMMA AsksKept ==
    ASSUME ScheduleTypeOK, HoldsInv, ChargesInv, PlacesInv, [ScheduleNext]_scheduleVars
    PROVE  ChargesInv' /\ PlacesInv'
<1>0. Web \in Processes
  BY Held
<1>1. ASSUME NEW r \in Runners, StartTick(r) PROVE ChargesInv' /\ PlacesInv'
  <2>1. r \in Processes /\ UNCHANGED <<cfg, places, jobs>>
    BY <1>1, Held DEF StartTick
  <2>2. StaysBut(r) /\ pc'[r] \notin {"admitted", "queueing"}
    BY <1>1, StartTickFields
  <2> QED BY <2>1, <2>2, SameRequests, AsksElsewhere
<1>2. ASSUME NEW r \in Runners, Find(r) PROVE ChargesInv' /\ PlacesInv'
  <2>1. r \in Processes /\ UNCHANGED <<cfg, places, jobs>>
    BY <1>2, Held DEF Find
  <2>2. StaysBut(r) /\ pc'[r] \notin {"admitted", "queueing"}
    BY <1>2, FindFields, LeavesFields, Held
  <2> QED BY <2>1, <2>2, SameRequests, AsksElsewhere
<1>3. ASSUME NEW r \in Runners, Claim(r) PROVE ChargesInv' /\ PlacesInv'
  <2>1. r \in Processes /\ UNCHANGED <<cfg, places, jobs>>
    BY <1>3, Held DEF Claim
  <2>2. StaysBut(r) /\ pc'[r] \notin {"admitted", "queueing"}
    <3>1. Leaves(r) \/ Becomes(r, "claimed", work[r])
      BY <1>3, ClaimEffect DEF Leaves
    <3>2. CASE Leaves(r)
      BY <2>1, <3>2, LeavesFields
    <3>3. CASE Becomes(r, "claimed", work[r])
      BY <3>3 DEF Becomes, StaysBut
    <3> QED BY <3>1, <3>2, <3>3
  <2> QED BY <2>1, <2>2, SameRequests, AsksElsewhere
<1>4. ASSUME NEW r \in Runners, ClaimInvalid(r) PROVE ChargesInv' /\ PlacesInv'
  <2>1. r \in Processes /\ UNCHANGED <<cfg, places, jobs>>
    BY <1>4, Held DEF ClaimInvalid
  <2>2. StaysBut(r) /\ pc'[r] \notin {"admitted", "queueing"}
    BY <1>4, ClaimInvalidEffect, LeavesFields, Held DEF Leaves
  <2> QED BY <2>1, <2>2, SameRequests, AsksElsewhere
<1>5. ASSUME NEW r \in Runners, RunClaimed(r) PROVE ChargesInv' /\ PlacesInv'
  <2>1. r \in Processes /\ UNCHANGED <<cfg, places, jobs>>
    BY <1>5, Held DEF RunClaimed
  <2>2. StaysBut(r) /\ pc'[r] \notin {"admitted", "queueing"}
    BY <1>5, RunClaimedFields, LeavesFields, Held
  <2> QED BY <2>1, <2>2, SameRequests, AsksElsewhere
<1>6. ASSUME NEW r \in Runners, RefuseCost(r) PROVE ChargesInv' /\ PlacesInv'
  <2>1. r \in Processes /\ UNCHANGED <<cfg, places, jobs>>
    BY <1>6, Held DEF RefuseCost
  <2>2. StaysBut(r) /\ pc'[r] \notin {"admitted", "queueing"}
    BY <1>6, RefuseCostEffect, LeavesFields, Held
  <2> QED BY <2>1, <2>2, SameRequests, AsksElsewhere
<1>7. ASSUME NEW r \in Runners, RecordFailure(r) PROVE ChargesInv' /\ PlacesInv'
  <2>1. r \in Processes /\ UNCHANGED <<cfg, places, jobs>>
    BY <1>7, Held DEF RecordFailure
  <2>2. StaysBut(r) /\ pc'[r] \notin {"admitted", "queueing"}
    BY <1>7, RecordFailureEffect, LeavesFields, Held
  <2> QED BY <2>1, <2>2, SameRequests, AsksElsewhere
<1>8. ASSUME NEW p \in Processes, Admit(p) PROVE ChargesInv' /\ PlacesInv'
  <2>1. UNCHANGED <<cfg, places, jobs>>
    BY <1>8 DEF Admit
  <2>2. /\ pc[p] = "creating" /\ pc'[p] = "admitted" /\ StaysBut(p)
        /\ work'[p].request = work[p].request /\ work'[p].egress = AsksFor(p)
        /\ work'[p].overwrite = IF IsScheduled(p) THEN cfg.general
                                ELSE Decide(places, work[p].request.dst, work[p].request.path, cfg)
    BY <1>8, AdmitFields
  <2>3. Asks(p)'
    BY <2>1, <2>2 DEF Asks, AsksFor
  <2>4. Earns(p)'
    <3>1. work'[p].overwrite => cfg.general \/ IsMotuzDestination(places, work[p].request.dst, work[p].request.path)
      BY <2>2 DEF Decide
    <3>2. ASSUME IsMotuzDestination(places, work[p].request.dst, work[p].request.path)
          PROVE  \E i \in DOMAIN jobs : Covers(i, work[p])
      <4>1. PICK folder \in Ancestors(work[p].request.path) : Place(work[p].request.dst, folder) \in places
        BY <3>2 DEF IsMotuzDestination
      <4>2. PICK j \in DOMAIN jobs :
                Place(work[p].request.dst, folder) = Place(jobs[j].request.dst, jobs[j].request.path)
        BY <4>1 DEF PlacesInv
      <4>3. StorageKey(work[p].request.dst) = StorageKey(jobs[j].request.dst) /\ folder = jobs[j].request.path
        BY <4>2, SamePlace
      <4> QED BY <4>1, <4>3 DEF Covers
    <3>3. work'[p].overwrite => EarnsOverwrite(work[p])
      BY <3>1, <3>2 DEF EarnsOverwrite
    <3> QED BY <2>1, <2>2, <3>3 DEF Earns, EarnsOverwrite, Covers
  <2> QED BY <2>1, <2>2, <2>3, <2>4, SameRequests, AsksFrame
<1>9. ASSUME NEW p \in Processes, Refuse(p) PROVE ChargesInv' /\ PlacesInv'
  <2>1. p \in Processes /\ UNCHANGED <<cfg, places, jobs>>
    BY <1>9, Held DEF Refuse
  <2>2. StaysBut(p) /\ pc'[p] \notin {"admitted", "queueing"}
    BY <1>9, RefuseEffect, LeavesFields
  <2> QED BY <2>1, <2>2, SameRequests, AsksElsewhere
<1>10. ASSUME NEW p \in Processes, CreateFails(p) PROVE ChargesInv' /\ PlacesInv'
  <2>1. p \in Processes /\ UNCHANGED <<cfg, places, jobs>>
    BY <1>10, Held DEF CreateFails
  <2>2. StaysBut(p) /\ pc'[p] \notin {"admitted", "queueing"}
    BY <1>10, CreateFailsEffect, LeavesFields, StaysFields DEF Leaves
  <2> QED BY <2>1, <2>2, SameRequests, AsksElsewhere
<1>11. ASSUME NEW p \in Processes, StoreJob(p) PROVE ChargesInv' /\ PlacesInv'
  <2>1. PICK n : n = Len(jobs) + 1
    OBVIOUS
  <2>2. /\ DOMAIN jobs' = DOMAIN jobs \cup {n} /\ \A j \in DOMAIN jobs : jobs'[j] = jobs[j]
        /\ jobs'[n].request = work[p].request /\ jobs'[n].egress = work[p].egress /\ jobs'[n].fee = NoFee
        /\ pc[p] = "admitted" /\ pc'[p] = "queueing" /\ StaysBut(p) /\ work'[p].job = n
        /\ work'[p].request = work[p].request /\ work'[p].egress = work[p].egress
    BY <1>11, <2>1, StoreJobFields
  <2>3. cfg' = cfg /\ places' = Register(places, work[p].request.dst, work[p].request.path)
    BY <1>11 DEF StoreJob
  <2>4. Asks(p)'
    <3>1. Asks(p)
      BY DEF ChargesInv
    <3> QED BY <2>2, <2>3, <3>1 DEF Asks, AsksFor
  <2>5. Earns(p)'
    BY <2>2 DEF Earns
  <2>6. ChargesAreConfirmed'
    BY <2>2 DEF ChargesInv, ChargesAreConfirmed, NeedsConfirmation, NoFee
  <2>7. JobsGrow
    BY <2>2 DEF JobsGrow
  <2>8. \A place \in places' : place \in places \/ place = Place(jobs'[n].request.dst, jobs'[n].request.path)
    BY <2>2, <2>3 DEF Register
  <2> QED BY <2>2, <2>3, <2>4, <2>5, <2>6, <2>7, <2>8, AsksFrame
<1>12. ASSUME NEW p \in Processes, QueueTheJob(p) PROVE ChargesInv' /\ PlacesInv'
  <2> DEFINE q == work[p].request
             j == work[p].job
  <2>1. UNCHANGED <<cfg, places>>
    BY <1>12 DEF QueueTheJob
  <2>2. /\ pc[p] = "queueing" /\ JobChanges(j)
        /\ StaysBut(p) /\ pc'[p] \notin {"admitted", "queueing"}
    BY <1>12, QueueTheJobFields DEF Becomes, StaysBut
  <2>3. PICK size \in {"unknown", "small", "large"} :
            jobs'[j].fee = Assess(q.src, q.dst, Runner(Route(q.src, q.dst, cfg, size), cfg))
    BY <1>12, QueueTheJobFields
  <2>4. j \in DOMAIN jobs /\ jobs[j].egress = Confirmed(q.src, q.dst, cfg, q.raw)
    <3>1. Asks(p)
      BY DEF ChargesInv
    <3> QED BY <2>2, <3>1 DEF Asks, AsksFor, JobChanges
  <2>5. NeedsConfirmation(jobs'[j].fee) => jobs[j].egress # "free"
    BY <2>3, <2>4, EveryRunnerIsAsked
  <2> HIDE DEF q, j
  <2>6. ChargesAreConfirmed'
    BY <2>2, <2>5 DEF ChargesInv, ChargesAreConfirmed, JobChanges, JobsKeep
  <2>7. JobsGrow
    BY <2>2 DEF JobsGrow, JobChanges, JobsKeep
  <2> QED BY <2>1, <2>2, <2>6, <2>7, AsksElsewhere
<1>13. ASSUME NEW p \in Processes, QueueingFails(p) PROVE ChargesInv' /\ PlacesInv'
  <2>1. UNCHANGED <<cfg, places>>
    BY <1>13 DEF QueueingFails
  <2>2. /\ JobChanges(work[p].job) /\ StaysBut(p) /\ pc'[p] \notin {"admitted", "queueing"}
    BY <1>13, QueueingFailsFields DEF Becomes, StaysBut
  <2>3. ChargesAreConfirmed' /\ JobsGrow
    BY <1>13, <2>2, QueueingFailsFields, ChangedRequests DEF JobChanges
  <2> QED BY <2>1, <2>2, <2>3, AsksElsewhere
<1>14. ASSUME NEW p \in Processes, Record(p) PROVE ChargesInv' /\ PlacesInv'
  <2>1. p \in Processes /\ UNCHANGED <<cfg, places, jobs>>
    BY <1>14, Held DEF Record
  <2>2. StaysBut(p) /\ pc'[p] \notin {"admitted", "queueing"}
    BY <1>14, RecordEffect, LeavesFields
  <2> QED BY <2>1, <2>2, SameRequests, AsksElsewhere
<1>15. ASSUME NEW s \in Schedules, NEW spec \in Specs, NEW request \in Requests, NEW runNow \in BOOLEAN, CreateSchedule(s, spec, request, runNow) PROVE ChargesInv' /\ PlacesInv'
  <2>1. Web \in Processes /\ UNCHANGED <<cfg, places, jobs>>
    BY <1>15, Held DEF CreateSchedule
  <2>2. StaysBut(Web) /\ (pc'[Web] = "creating" \/ (pc[Web] = "idle" /\ UNCHANGED <<pc, work>>))
    BY <1>15, CreateScheduleFields
  <2> QED BY <2>1, <2>2, SameRequests, AsksElsewhere
<1>16. ASSUME NEW request \in Requests, CreateCopy(request) PROVE ChargesInv' /\ PlacesInv'
  <2>1. Web \in Processes /\ UNCHANGED <<cfg, places, jobs>>
    BY <1>16, Held DEF CreateCopy
  <2>2. StaysBut(Web) /\ pc'[Web] \notin {"admitted", "queueing"}
    BY <1>16, CreateCopyFields
  <2> QED BY <2>1, <2>2, SameRequests, AsksElsewhere
<1>17. ASSUME NEW s \in Schedules, Pause(s) PROVE ChargesInv' /\ PlacesInv'
  <2>1. UNCHANGED <<cfg, places, jobs, pc, work>>
    BY <1>17 DEF Pause
  <2> QED BY <2>1, <1>0, SameRequests, AsksRest
<1>18. ASSUME NEW s \in Schedules, Resume(s) PROVE ChargesInv' /\ PlacesInv'
  <2>1. UNCHANGED <<cfg, places, jobs, pc, work>>
    BY <1>18 DEF Resume
  <2> QED BY <2>1, <1>0, SameRequests, AsksRest
<1>19. ASSUME NEW s \in Schedules, DeleteSchedule(s) PROVE ChargesInv' /\ PlacesInv'
  <2>1. UNCHANGED <<cfg, places, jobs, pc, work>>
    BY <1>19 DEF DeleteSchedule
  <2> QED BY <2>1, <1>0, SameRequests, AsksRest
<1>20. ASSUME NEW s \in Schedules, EditByHand(s) PROVE ChargesInv' /\ PlacesInv'
  <2>1. UNCHANGED <<cfg, places, jobs, pc, work>>
    BY <1>20 DEF EditByHand
  <2> QED BY <2>1, <1>0, SameRequests, AsksRest
<1>21. ASSUME NEW j \in DOMAIN jobs, JobEnds(j) PROVE ChargesInv' /\ PlacesInv'
  <2>1. UNCHANGED <<cfg, places, pc, work>> /\ JobChanges(j) /\ jobs'[j].fee = jobs[j].fee
    BY <1>21, JobEndsFields DEF JobEnds
  <2>2. ChargesAreConfirmed' /\ JobsGrow
    BY <2>1, ChangedRequests
  <2> QED BY <2>1, <1>0, <2>2, AsksRest
<1>22. ASSUME NEW p \in Processes, Crash(p) PROVE ChargesInv' /\ PlacesInv'
  <2>1. p \in Processes /\ UNCHANGED <<cfg, places, jobs>>
    BY <1>22, Held DEF Crash
  <2>2. StaysBut(p) /\ pc'[p] \notin {"admitted", "queueing"}
    BY <1>22, CrashEffect, LeavesFields DEF Leaves
  <2> QED BY <2>1, <2>2, SameRequests, AsksElsewhere
<1>23. ASSUME Reconfigure PROVE ChargesInv' /\ PlacesInv'
  <2>1. UNCHANGED <<places, jobs, pc>> /\ \A p \in Processes : pc[p] = "idle"
    BY <1>23 DEF Reconfigure
  <2> QED BY <2>1 DEF ChargesInv, ChargesAreConfirmed, Asks, PlacesInv, Earns
<1>24. ASSUME ClockTick PROVE ChargesInv' /\ PlacesInv'
  <2>1. UNCHANGED <<cfg, places, jobs, pc, work>>
    BY <1>24 DEF ClockTick
  <2> QED BY <2>1, <1>0, SameRequests, AsksRest
<1>25. ASSUME UNCHANGED scheduleVars PROVE ChargesInv' /\ PlacesInv'
  <2>1. UNCHANGED <<cfg, places, jobs, pc, work>>
    BY <1>25 DEF scheduleVars
  <2> QED BY <1>0, <2>1, SameRequests, AsksRest
<1> QED
  BY <1>1, <1>2, <1>3, <1>4, <1>5, <1>6, <1>7, <1>8, <1>9, <1>10, <1>11, <1>12, <1>13, <1>14, <1>15, <1>16, <1>17, <1>18, <1>19, <1>20, <1>21, <1>22, <1>23, <1>24, <1>25
     DEF ScheduleNext, RunnerStep, CreateStep, OwnerStep, Processes

-----------------------------------------------------------------------------
(* The theorems.                                                            *)

\* The invariant holds at the start.
LEMMA InitHolds == ScheduleInit => SchedulesInv
<1> SUFFICES ASSUME ScheduleInit PROVE SchedulesInv
  OBVIOUS
<1>1. /\ \A s \in Schedules : row[s] = NoRow
      /\ \A p \in Processes : pc[p] = "idle" /\ work[p] = Idle
      /\ jobs = << >> /\ places = {} /\ now = 0 /\ untracked = {} /\ cfg \in Configs
      /\ Web \in Processes /\ Runners \subseteq Processes
  BY DEF ScheduleInit, Processes
<1>2. ScheduleTypeOK
  <2>1. jobs \in Seq(Jobs)
    BY <1>1
  <2>2. "idle" \in Places
    BY DEF Places
  <2> QED BY <2>1, <2>2, Empty DEF ScheduleInit, ScheduleTypeOK
<1>3. DOMAIN jobs = {} /\ \A s : RunningOf(s) = {}
  BY <1>1 DEF RunningOf
<1>4. \A s \in Schedules : row[s].state = "new" /\ row[s].lastJob = 0
  BY <1>1 DEF NoRow
<1>5. \A p \in Processes : work[p].schedule = NoOne /\ work[p].job = 0 /\ work[p].at = 0 /\ work[p].due = 0
  BY <1>1 DEF Idle
<1>6. HoldsInv
  <2>1. \A r \in Runners : RunnerHolds(r)
    BY <1>1 DEF RunnerHolds
  <2>2. OwnerHolds
    BY <1>1 DEF OwnerHolds, Creating, Unrecorded
  <2>3. \A s \in Schedules : RowHolds(s)
    BY <1>3, <1>4 DEF RowHolds
  <2>4. \A p \in Processes : JobHeld(p)
    BY <1>1 DEF JobHeld, Creating, Unrecorded
  <2> QED BY <2>1, <2>2, <2>3, <2>4 DEF HoldsInv
<1>7. \A s \in Schedules : NextIsFirst(s)
  BY <1>4 DEF NextIsFirst
<1>8. \A p \in Processes : \A s : ~WorksOn(p, s)
  BY <1>1 DEF WorksOn
<1>9. DuesInv
  <2>1. \A r \in Runners : RunnerDues(r)
    BY <1>1, <1>5, <1>8 DEF RunnerDues
  <2>2. \A s \in Schedules : DuesDiffer(s)
    BY <1>1, <1>3, <1>8 DEF DuesDiffer
  <2> QED BY <1>1, <1>3, <1>5, <2>1, <2>2 DEF DuesInv
<1>10. StackInv
  BY <1>1, <1>3, <1>8 DEF StackInv, Alone, Busy
<1>11. ChargesInv /\ PlacesInv
  BY <1>1, <1>3 DEF ChargesInv, ChargesAreConfirmed, Asks, PlacesInv, Earns
<1> QED BY <1>2, <1>6, <1>7, <1>9, <1>10, <1>11 DEF SchedulesInv

\* The invariant is inductive.
LEMMA InvIsKept == SchedulesInv /\ [ScheduleNext]_scheduleVars => SchedulesInv'
<1> SUFFICES ASSUME SchedulesInv, [ScheduleNext]_scheduleVars PROVE SchedulesInv'
  OBVIOUS
<1>1. /\ ScheduleTypeOK /\ HoldsInv /\ DuesInv /\ \A s \in Schedules : NextIsFirst(s)
      /\ StackInv /\ ChargesInv /\ PlacesInv
  BY DEF SchedulesInv
<1>2. ScheduleTypeOK'
  BY <1>1, TypesKept
<1>3. HoldsInv'
  BY <1>1, HoldsKept
<1>4. \A s \in Schedules : NextIsFirst(s)'
  BY <1>1, <1>2, NextIsKept
<1>5. DuesInv'
  BY <1>1, <1>2, DuesKept
<1>6. StackInv'
  BY <1>1, <1>2, StackKept DEF StackInv
<1>7. ChargesInv' /\ PlacesInv'
  BY <1>1, AsksKept
<1> QED BY <1>2, <1>3, <1>4, <1>5, <1>6, <1>7 DEF SchedulesInv

\* The inductive invariant, types included, holds in every reachable state.
THEOREM SchedulesInvariant == ScheduleSpec => []SchedulesInv
<1> QED BY InitHolds, InvIsKept, PTL DEF ScheduleSpec

\* "A schedule runs once per due time even with two runners": no two jobs, and no two runners
\* at work, are for the same due time of a schedule.
THEOREM DueTimesRunOnce == ScheduleSpec => []EachDueTimeOnce
<1>1. SchedulesInv => EachDueTimeOnce
  <2> SUFFICES ASSUME SchedulesInv, NEW s \in Schedules, NEW a \in Runs(s), NEW b \in Runs(s),
                      a.due = b.due, a.due > 0
               PROVE  a = b
    BY DEF EachDueTimeOnce
  <2>1. DuesDiffer(s)
    BY DEF SchedulesInv, DuesInv
  <2>2. ASSUME NEW x \in Runs(s)
        PROVE  \/ \E j \in DOMAIN jobs : jobs[j].schedule = s /\ x = [job |-> j, due |-> jobs[j].due]
               \/ \E r \in Runners : WorksOn(r, s) /\ work[r].job = 0 /\ x = [job |-> r, due |-> work[r].due]
    BY DEF Runs
  <2>3. CASE \E i \in DOMAIN jobs : jobs[i].schedule = s /\ a = [job |-> i, due |-> jobs[i].due]
    <3>1. PICK i \in DOMAIN jobs : jobs[i].schedule = s /\ a = [job |-> i, due |-> jobs[i].due]
      BY <2>3
    <3>2. CASE \E j \in DOMAIN jobs : jobs[j].schedule = s /\ b = [job |-> j, due |-> jobs[j].due]
      BY <2>1, <3>1, <3>2 DEF DuesDiffer
    <3>3. CASE \E r \in Runners : WorksOn(r, s) /\ work[r].job = 0 /\ b = [job |-> r, due |-> work[r].due]
      BY <2>1, <3>1, <3>3 DEF DuesDiffer
    <3> QED BY <2>2, <3>2, <3>3
  <2>4. CASE \E q \in Runners : WorksOn(q, s) /\ work[q].job = 0 /\ a = [job |-> q, due |-> work[q].due]
    <3>1. PICK q \in Runners : WorksOn(q, s) /\ work[q].job = 0 /\ a = [job |-> q, due |-> work[q].due]
      BY <2>4
    <3>2. CASE \E j \in DOMAIN jobs : jobs[j].schedule = s /\ b = [job |-> j, due |-> jobs[j].due]
      BY <2>1, <3>1, <3>2 DEF DuesDiffer
    <3>3. CASE \E r \in Runners : WorksOn(r, s) /\ work[r].job = 0 /\ b = [job |-> r, due |-> work[r].due]
      BY <2>1, <3>1, <3>3 DEF DuesDiffer
    <3> QED BY <2>2, <3>2, <3>3
  <2> QED BY <2>2, <2>3, <2>4
<1> QED BY <1>1, SchedulesInvariant, PTL

\* "A run whose previous job is still running is skipped (not stacked)": however the passes of
\* the runners, the owner's requests, crashes and the ends of the jobs come.
THEOREM RunsDoNotStack == ScheduleSpec => []NoStackedRuns
<1>1. SchedulesInv => NoStackedRuns
  BY DEF SchedulesInv, StackInv, Alone, NoStackedRuns
<1> QED BY <1>1, SchedulesInvariant, PTL

\* The time a schedule waits for is the first one after now at which its fields hold, for any
\* calendar: NextRun finds it from whatever moment a claim or a resume asks.
THEOREM WaitsAreFirstDue == ScheduleSpec => []WaitsForFirstDue
<1>1. SchedulesInv => WaitsForFirstDue
  <2> SUFFICES ASSUME SchedulesInv, NEW s \in Schedules, Stored(s), row[s].next > now
               PROVE  FirstDueAfter(row[s].spec, now, row[s].next)
    BY DEF WaitsForFirstDue
  <2>1. PICK t \in 0 .. now : FirstDueAfter(row[s].spec, t, row[s].next)
    BY DEF SchedulesInv, NextIsFirst, Stored
  <2>2. Numbers
    BY TypedNumbers DEF SchedulesInv
  <2>3. now + 1 .. row[s].next - 1 \subseteq t + 1 .. row[s].next - 1
    BY <2>2 DEF Numbers
  <2> QED BY <2>1, <2>3 DEF FirstDueAfter
<1> QED BY <1>1, SchedulesInvariant, PTL

\* No job runs where AWS charges for it unless its user confirmed a cost, whatever the
\* settings and however often they change.
THEOREM ChargesNeedConfirmation == ScheduleSpec => []ChargesAreConfirmed
<1>1. SchedulesInv => ChargesAreConfirmed
  BY DEF SchedulesInv, ChargesInv
<1> QED BY <1>1, SchedulesInvariant, PTL

\* Jobs are created by StoreJob and by nothing else.
LEMMA OnlyStoreJobCreates ==
    ASSUME ScheduleTypeOK, HoldsInv, [ScheduleNext]_scheduleVars
    PROVE  DOMAIN jobs' = DOMAIN jobs \/ \E p \in Processes : StoreJob(p)
<1>1. ASSUME NEW p \in Processes, QueueTheJob(p) PROVE DOMAIN jobs' = DOMAIN jobs
  BY <1>1, QueueTheJobFields DEF JobChanges, JobsKeep
<1>2. ASSUME NEW p \in Processes, QueueingFails(p) PROVE DOMAIN jobs' = DOMAIN jobs
  BY <1>2, QueueingFailsFields DEF JobChanges, JobsKeep
<1>3. ASSUME NEW j \in DOMAIN jobs, JobEnds(j) PROVE DOMAIN jobs' = DOMAIN jobs
  BY <1>3, JobEndsFields DEF JobChanges, JobsKeep
<1>4. Web \in Processes /\ Runners \subseteq Processes
  BY DEF Processes
<1>5. jobs' = jobs \/ (\E p \in Processes : StoreJob(p) \/ QueueTheJob(p) \/ QueueingFails(p))
      \/ (\E j \in DOMAIN jobs : JobEnds(j))
  BY <1>4
  DEF ScheduleNext, RunnerStep, CreateStep, OwnerStep, StartTick, Find, Claim, ClaimInvalid, RunClaimed,
      RefuseCost, RecordFailure, Admit, Refuse, CreateFails, Record,
      CreateSchedule, CreateCopy, Pause, Resume, DeleteSchedule, EditByHand, Crash, Reconfigure,
      ClockTick, scheduleVars
<1> QED BY <1>1, <1>2, <1>3, <1>5

\* A job that is created may overwrite only below what an earlier job wrote: what the policy
\* answered when it was asked is still so when the job is stored.
THEOREM OverwritingIsEarned == ScheduleSpec => OverwriteIsEarned
<1>1. SchedulesInv /\ [ScheduleNext]_scheduleVars =>
          [\A j \in DOMAIN jobs' \ DOMAIN jobs :
              jobs'[j].overwrite => EarnsOverwrite(jobs'[j])]_scheduleVars
  <2> SUFFICES ASSUME SchedulesInv, [ScheduleNext]_scheduleVars, NEW j \in DOMAIN jobs' \ DOMAIN jobs,
                      jobs'[j].overwrite
               PROVE  EarnsOverwrite(jobs'[j])
    OBVIOUS
  <2>1. ScheduleTypeOK /\ HoldsInv /\ PlacesInv
    BY DEF SchedulesInv
  <2>2. PICK p \in Processes : StoreJob(p)
    BY <2>1, OnlyStoreJobCreates
  <2>3. jobs'[j].overwrite = work[p].overwrite /\ jobs'[j].request = work[p].request /\ pc[p] = "admitted"
    <3>1. PICK n : n = Len(jobs) + 1
      OBVIOUS
    <3>2. /\ DOMAIN jobs' = DOMAIN jobs \cup {n} /\ jobs'[n].request = work[p].request
          /\ jobs'[n].overwrite = work[p].overwrite /\ pc[p] = "admitted"
      BY <2>1, <2>2, <3>1, StoreJobFields
    <3> QED BY <3>2
  <2>4. EarnsOverwrite(work[p])
    BY <2>1, <2>3 DEF PlacesInv, Earns
  <2> QED BY <2>3, <2>4 DEF EarnsOverwrite, Covers
<1> QED BY <1>1, SchedulesInvariant, PTL DEF ScheduleSpec, OverwriteIsEarned
=============================================================================
