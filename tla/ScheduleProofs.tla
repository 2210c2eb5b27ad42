--------------------------- MODULE ScheduleProofs ---------------------------
(* Proofs about Projections: whatever edits, pauses and catch-ups the         *)
(* scheduled payments go through, each is made once, the instalments of a     *)
(* purchase add up to it, the balances follow, the totals the client computes *)
(* from all of them agree with each other, its curve of net worth stands      *)
(* still, and the windows it cuts time into tile it.                          *)
EXTENDS Projections, TotalProofs

-----------------------------------------------------------------------------
(* The calendar *)

(* The months are the numbers below a multiple of twelve, each of 28 to 31 days. *)
LEMMA MonthsAre ==
    /\ YearCount \in Nat \ {0} /\ FirstYear \in Nat
    /\ \A m : m \in Months <=> m \in Nat /\ m < 12 * YearCount
    /\ 0 \in Months /\ 12 * YearCount - 1 \in Months
    /\ \A m \in Months : MonthLength[m] \in 28 .. 31
<1>1. YearCount \in Nat \ {0} /\ FirstYear \in Nat
  BY CalendarConstants
<1>2. \A m : m \in Months <=> m \in Nat /\ m < 12 * YearCount
  BY <1>1 DEF Months
<1>3. 0 \in Months /\ 12 * YearCount - 1 \in Months
  BY <1>1 DEF Months
<1>4. ASSUME NEW m \in Months PROVE MonthLength[m] \in 28 .. 31
  BY DEF MonthLength
<1> QED BY <1>1, <1>2, <1>3, <1>4

(* A month starts where the one before it ends. *)
LEMMA FirstDaysAre ==
    \A m \in Months : FirstDays[m] = SpanStart(FirstDays, MonthLength, m)
<1>. DEFINE n == 12 * YearCount
<1>1. n \in Nat /\ Months = 0 .. n - 1
  BY MonthsAre DEF Months
<1>2. FirstDays = CHOOSE g : g = [m \in Months |-> SpanStart(g, MonthLength, m)]
  BY Zenon DEF FirstDays, SpanStart
<1>3. \E g : g = [m \in Months |-> SpanStart(g, MonthLength, m)]
  <2>. HIDE DEF n
  <2>1. \E g : g = [m \in 0 .. n - 1 |-> SpanStart(g, MonthLength, m)]
    BY <1>1, SpansExist
  <2> QED BY <1>1, <2>1
<1>4. FirstDays = [m \in Months |-> SpanStart(FirstDays, MonthLength, m)]
  BY <1>2, <1>3, Zenon
<1> QED BY <1>4, Zenon

(* Months start later and later, each after the days of the ones before it; *)
(* and each day until the end of the last is in one of them.                *)
LEMMA MonthsInOrder ==
    /\ \A m, n \in Months : /\ FirstDays[m] \in Nat
                            /\ m < n => FirstDays[m] + MonthLength[m] <= FirstDays[n]
    /\ \A d \in Nat : d < FirstDays[12 * YearCount - 1] + MonthLength[12 * YearCount - 1] =>
           \E m \in Months : FirstDays[m] <= d /\ d < FirstDays[m] + MonthLength[m]
<1>. DEFINE n == 12 * YearCount
<1>1. /\ n \in Nat /\ n # 0 /\ Months = 0 .. n - 1
      /\ \A m \in 0 .. n - 1 : MonthLength[m] \in Nat
  BY MonthsAre DEF Months
<1>2. \A m \in 0 .. n - 1 : FirstDays[m] = SpanStart(FirstDays, MonthLength, m)
  BY <1>1, FirstDaysAre
<1>. HIDE DEF n
<1>3. \A k \in 0 .. n - 1 :
          /\ FirstDays[k] \in Nat
          /\ \A m \in 0 .. n - 1 : m < k => FirstDays[m] + MonthLength[m] <= FirstDays[k]
  BY <1>1, <1>2, SpansInOrder
<1>4. ASSUME NEW d \in Nat, d < FirstDays[n - 1] + MonthLength[n - 1]
      PROVE  \E m \in 0 .. n - 1 : FirstDays[m] <= d /\ d < FirstDays[m] + MonthLength[m]
  BY <1>1, <1>2, <1>4, SpansTile
<1> QED BY <1>1, <1>3, <1>4 DEF n

(* The first and the last day of a month. *)
LEMMA MonthBounds ==
    \A m \in Months :
        /\ m \in Nat /\ FirstOf[m] = FirstDays[m] /\ FirstOf[m] \in Nat
        /\ MonthLength[m] \in 28 .. 31 /\ LastOf[m] = FirstOf[m] + MonthLength[m] - 1
        /\ LastOf[m] \in Nat /\ FirstOf[m] <= LastOf[m]
<1>. TAKE m \in Months
<1>1. m \in Nat /\ FirstDays[m] \in Nat /\ MonthLength[m] \in 28 .. 31
  BY MonthsAre, MonthsInOrder
<1>2. FirstOf[m] = FirstDays[m] /\ LastOf[m] = FirstDays[m] + MonthLength[m] - 1
  BY DEF FirstOf, LastOf
<1> QED BY <1>1, <1>2

(* A month ends before a later one starts. *)
LEMMA MonthsApart ==
    \A m, n \in Months : m < n => LastOf[m] < FirstOf[n]
<1>. TAKE m, n \in Months
<1>1. m < n => FirstDays[m] + MonthLength[m] <= FirstDays[n]
  BY MonthsInOrder
<1> QED BY <1>1, MonthBounds

(* A month starts the day after the one before it ends. *)
LEMMA MonthFollows ==
    \A m \in Months : m + 1 \in Months => FirstOf[m + 1] = LastOf[m] + 1
<1>. TAKE m \in Months
<1>. HAVE m + 1 \in Months
<1>1. m \in Nat /\ FirstOf[m + 1] \in Nat /\ LastOf[m] \in Nat /\ m < m + 1
  BY MonthBounds
<1>2. LastOf[m] < FirstOf[m + 1]
  BY <1>1, MonthsApart
<1>3. FirstDays[m + 1] = SpanStart(FirstDays, MonthLength, m + 1)
  BY FirstDaysAre
<1>4. m + 1 # 0 /\ (m + 1) - 1 = m
  BY <1>1
<1>5. FirstDays[m + 1] = FirstDays[m] + MonthLength[m]
  BY <1>3, <1>4 DEF SpanStart
<1> QED BY <1>1, <1>5, MonthBounds

(* A month ends four weeks after the one before or later. *)
LEMMA MonthsLong ==
    /\ \A k \in Months : k \in Nat /\ LastOf[k] \in Nat
    /\ \A k \in Months : k + 1 \in Months => LastOf[k] + 28 <= LastOf[k + 1]
<1>1. ASSUME NEW k \in Months, k + 1 \in Months PROVE LastOf[k] + 28 <= LastOf[k + 1]
  <2>1. FirstOf[k + 1] = LastOf[k] + 1 /\ LastOf[k] \in Nat
    BY <1>1, MonthFollows, MonthBounds
  <2>2. MonthLength[k + 1] \in 28 .. 31 /\ LastOf[k + 1] = FirstOf[k + 1] + MonthLength[k + 1] - 1
    BY <1>1, MonthBounds
  <2> QED BY <2>1, <2>2
<1> QED BY <1>1, MonthBounds

(* A day of a month is a date, and of no other month. *)
LEMMA DaysOfMonth ==
    ASSUME NEW m \in Months, NEW d \in FirstOf[m] .. LastOf[m]
    PROVE  d \in Dates /\ d \in Nat /\ MonthOf[d] = m
<1>. DEFINE end == 12 * YearCount - 1
<1>0. end \in Months /\ m <= end /\ m \in Nat /\ end \in Nat
  BY MonthsAre
<1>. HIDE DEF end
<1>1. LastOf[m] <= LastOf[end]
  <2>1. CASE m = end
    BY <2>1, <1>0, MonthBounds
  <2>2. CASE m # end
    <3>1. m < end
      BY <1>0, <2>2
    <3>2. LastOf[m] < FirstOf[end] /\ FirstOf[end] <= LastOf[end]
      BY <1>0, <3>1, MonthsApart, MonthBounds
    <3> QED BY <1>0, <3>2, MonthBounds
  <2> QED BY <2>1, <2>2
<1>2. d \in Nat /\ d <= LastOf[end] /\ LastOf[end] \in Nat
  BY <1>0, <1>1, MonthBounds
<1>3. d \in Dates
  BY <1>2 DEF Dates, end
<1>4. ASSUME NEW n \in Months, d \in FirstOf[n] .. LastOf[n] PROVE n = m
  <2>1. ~(n < m) /\ ~(m < n)
    BY <1>4, MonthsApart, MonthBounds
  <2> QED BY <2>1, MonthBounds
<1>5. MonthOf[d] = CHOOSE n \in Months : d \in FirstOf[n] .. LastOf[n]
  BY <1>3 DEF MonthOf
<1>6. MonthOf[d] \in Months /\ d \in FirstOf[MonthOf[d]] .. LastOf[MonthOf[d]]
  BY <1>5, Zenon
<1> QED BY <1>2, <1>3, <1>4, <1>6

(* Each date is a day of its month. *)
LEMMA DatesHaveMonths ==
    \A d \in Dates : /\ d \in Nat /\ MonthOf[d] \in Months
                     /\ FirstOf[MonthOf[d]] <= d /\ d <= LastOf[MonthOf[d]]
<1>. TAKE d \in Dates
<1>. DEFINE end == 12 * YearCount - 1
<1>1. end \in Months /\ d \in Nat /\ d <= LastOf[end]
  BY MonthsAre, MonthBounds DEF Dates
<1>2. d < FirstDays[end] + MonthLength[end]
  BY <1>1, MonthBounds
<1>3. PICK m \in Months : FirstDays[m] <= d /\ d < FirstDays[m] + MonthLength[m]
  BY <1>1, <1>2, MonthsInOrder
<1>4. FirstOf[m] <= d /\ d <= LastOf[m] /\ d \in FirstOf[m] .. LastOf[m]
  BY <1>1, <1>3, MonthBounds
<1>5. MonthOf[d] = m
  BY <1>4, DaysOfMonth
<1> QED BY <1>1, <1>4, <1>5

(* A date of an earlier month comes earlier, and none later is of an earlier one. *)
LEMMA DatesInOrder ==
    \A d, e \in Dates : /\ MonthOf[d] < MonthOf[e] => d < e
                        /\ d <= e => MonthOf[d] <= MonthOf[e]
<1>. TAKE d, e \in Dates
<1>1. /\ MonthOf[d] \in Months /\ MonthOf[e] \in Months /\ d \in Nat /\ e \in Nat
      /\ d <= LastOf[MonthOf[d]] /\ FirstOf[MonthOf[e]] <= e
      /\ e <= LastOf[MonthOf[e]] /\ FirstOf[MonthOf[d]] <= d
  BY DatesHaveMonths
<1>2. MonthOf[d] < MonthOf[e] => LastOf[MonthOf[d]] < FirstOf[MonthOf[e]]
  BY <1>1, MonthsApart
<1>3. MonthOf[e] < MonthOf[d] => LastOf[MonthOf[e]] < FirstOf[MonthOf[d]]
  BY <1>1, MonthsApart
<1>4. /\ MonthOf[d] \in Nat /\ MonthOf[e] \in Nat
      /\ LastOf[MonthOf[d]] \in Nat /\ FirstOf[MonthOf[e]] \in Nat
      /\ LastOf[MonthOf[e]] \in Nat /\ FirstOf[MonthOf[d]] \in Nat
  BY <1>1, MonthBounds
<1> QED BY <1>1, <1>2, <1>3, <1>4

(* A clamped day is a date of the month it is asked for. *)
LEMMA ClampedDay ==
    ASSUME NEW m \in Months, NEW day \in Nat \ {0}
    PROVE  Clamped(m, day) \in Dates /\ MonthOf[Clamped(m, day)] = m
<1>1. Clamped(m, day) \in FirstOf[m] .. LastOf[m]
  BY MonthBounds DEF Clamped
<1> QED BY <1>1, DaysOfMonth

(* Clamping a date's day to its month gives the date. *)
LEMMA ClampedDate ==
    ASSUME NEW d \in Dates
    PROVE  DayOf(d) \in Nat \ {0} /\ Clamped(MonthOf[d], DayOf(d)) = d
<1>1. /\ d \in Nat /\ MonthOf[d] \in Months
      /\ FirstOf[MonthOf[d]] <= d /\ d <= LastOf[MonthOf[d]]
  BY DatesHaveMonths
<1>2. /\ FirstOf[MonthOf[d]] \in Nat /\ MonthLength[MonthOf[d]] \in Nat
      /\ LastOf[MonthOf[d]] = FirstOf[MonthOf[d]] + MonthLength[MonthOf[d]] - 1
  BY <1>1, MonthBounds
<1> QED BY <1>1, <1>2 DEF DayOf, Clamped

-----------------------------------------------------------------------------
(* The occurrences of a schedule *)

(* The month an occurrence falls in. *)
MonthAt(start, frequency, n) == MonthOf[start] + n * Interval(frequency)

(* An interval is one month or twelve. *)
LEMMA Intervals ==
    ASSUME NEW frequency \in Frequencies
    PROVE  Interval(frequency) \in {1, 12}
  BY DEF Interval

(* Each occurrence comes one interval after the one before. *)
LEMMA MonthsAdvance ==
    ASSUME NEW start \in Dates, NEW frequency \in Frequencies, NEW n \in Int, NEW k \in Int
    PROVE  /\ MonthAt(start, frequency, n) \in Int
           /\ n < k => MonthAt(start, frequency, n) + Interval(frequency)
                       <= MonthAt(start, frequency, k)
<1>1. MonthOf[start] \in Int
  BY DatesHaveMonths, MonthsAre
<1>2. CASE Interval(frequency) = 1
  BY <1>1, <1>2 DEF MonthAt
<1>3. CASE Interval(frequency) = 12
  BY <1>1, <1>3 DEF MonthAt
<1> QED BY <1>2, <1>3, Intervals

(* An occurrence within the calendar is a date of its month; the first is the start. *)
LEMMA OccurrenceIs ==
    ASSUME NEW start \in Dates, NEW frequency \in Frequencies, NEW n \in Nat,
           MonthAt(start, frequency, n) \in Months
    PROVE  /\ Occurrence(start, frequency, n) \in Dates
           /\ MonthOf[Occurrence(start, frequency, n)] = MonthAt(start, frequency, n)
           /\ n = 0 => Occurrence(start, frequency, n) = start
<1>1. Occurrence(start, frequency, n) = Clamped(MonthAt(start, frequency, n), DayOf(start))
  BY DEF Occurrence, MonthAt
<1>2. DayOf(start) \in Nat \ {0} /\ Clamped(MonthOf[start], DayOf(start)) = start
  BY ClampedDate
<1>3. n = 0 => MonthAt(start, frequency, n) = MonthOf[start]
  BY Intervals, DatesHaveMonths, MonthsAre DEF MonthAt
<1> QED BY <1>1, <1>2, <1>3, ClampedDay

(* A later occurrence has a later date. *)
LEMMA OccurrencesInOrder ==
    ASSUME NEW start \in Dates, NEW frequency \in Frequencies, NEW n \in Nat, NEW k \in Nat,
           n < k, MonthAt(start, frequency, k) \in Months
    PROVE  /\ MonthAt(start, frequency, n) \in Months
           /\ Occurrence(start, frequency, n) < Occurrence(start, frequency, k)
<1>1. /\ MonthAt(start, frequency, n) \in Int
      /\ MonthAt(start, frequency, n) + Interval(frequency) <= MonthAt(start, frequency, k)
  BY MonthsAdvance
<1>2. MonthAt(start, frequency, n) = MonthOf[start] + n * Interval(frequency)
  BY DEF MonthAt
<1>3. MonthOf[start] \in Months
  BY DatesHaveMonths
<1>4. n * Interval(frequency) \in Nat
  BY Intervals
<1>5. Interval(frequency) \in {1, 12}
  BY Intervals
<1>6. MonthAt(start, frequency, n) \in Nat
  BY <1>2, <1>3, <1>4, MonthsAre
<1>7. MonthAt(start, frequency, n) < MonthAt(start, frequency, k)
  BY <1>1, <1>5, <1>6, MonthsAre
<1>8. MonthAt(start, frequency, n) \in Months
  BY <1>6, <1>7, MonthsAre
<1>9. /\ Occurrence(start, frequency, n) \in Dates /\ Occurrence(start, frequency, k) \in Dates
      /\ MonthOf[Occurrence(start, frequency, n)] = MonthAt(start, frequency, n)
      /\ MonthOf[Occurrence(start, frequency, k)] = MonthAt(start, frequency, k)
  BY <1>8, OccurrenceIs
<1> QED BY <1>7, <1>8, <1>9, DatesInOrder

(* A stored rule points at the occurrence that comes after those it generated. *)
InStep(rule) ==
    /\ rule \in RuleRows
    /\ MonthAt(rule.start, rule.frequency, rule.occurrences) \in Months
    /\ rule.next = Occurrence(rule.start, rule.frequency, rule.occurrences)
    /\ rule.since <= rule.occurrences

(* The clock leaves room for a year of occurrences. *)
YearAhead(today) == today \in Dates /\ MonthOf[today] + 12 \in Months

(* What is due is a run of occurrences that ends with the last one until today. *)
LEMMA DueIs ==
    ASSUME YearAhead(utc), NEW rule, InStep(rule), rule.next <= utc
    PROVE  LET k     == DueCount(rule)
               At(n) == Occurrence(rule.start, rule.frequency, rule.occurrences + n)
           IN  /\ k \in Nat
               /\ \A n \in 0 .. k : /\ DueDate(rule, n) = At(n)
                                    /\ MonthAt(rule.start, rule.frequency, rule.occurrences + n) \in Months
               /\ \A n \in 0 .. k - 1 : At(n) <= utc
               /\ utc < At(k)
<1>. DEFINE s == rule.start
            f == rule.frequency
            o == rule.occurrences
            I == Interval(f)
            At(n) == Occurrence(s, f, o + n)
            M(n) == MonthAt(s, f, o + n)
            last == (MonthOf[utc] - MonthOf[rule.next]) \div I
            due == {n \in 0 .. last : DueDate(rule, n) <= utc}
<1>1. s \in Dates /\ f \in Frequencies /\ o \in Nat /\ rule.next \in Dates
  BY DEF InStep, RuleRows
<1>2. utc \in Dates /\ MonthOf[utc] \in Months /\ MonthOf[utc] + 12 \in Months
  BY DatesHaveMonths DEF YearAhead
<1>3. I \in {1, 12}
  BY <1>1, Intervals
<1>4. \A n \in Nat : DueDate(rule, n) = At(n)
  BY <1>1 DEF DueDate, InStep
<1>5. M(0) \in Months /\ MonthOf[rule.next] = M(0) /\ M(0) <= MonthOf[utc]
  <2>1. o + 0 = o
    BY <1>1
  <2>2. M(0) \in Months /\ rule.next = Occurrence(s, f, o)
    BY <2>1 DEF InStep
  <2>3. MonthOf[rule.next] = M(0)
    BY <1>1, <2>1, <2>2, OccurrenceIs
  <2> QED BY <1>1, <1>2, <2>2, <2>3, DatesInOrder
<1>6. \A n \in Nat : M(n) = M(0) + n * I
  <2>. TAKE n \in Nat
  <2>1. o + 0 = o
    BY <1>1
  <2>2. MonthOf[s] \in Int
    BY <1>1, DatesHaveMonths, MonthsAre
  <2>. HIDE DEF I
  <2>4. MonthOf[s] + (o + n) * I = MonthOf[s] + o * I + n * I
    <3>1. o \in Nat
      BY <1>1
    <3>. HIDE DEF o, s
    <3>2. CASE I = 1
      BY <2>2, <3>1, <3>2
    <3>3. CASE I = 12
      BY <2>2, <3>1, <3>3
    <3> QED BY <1>3, <3>2, <3>3
  <2>5. MonthAt(s, f, o + n) = MonthAt(s, f, o) + n * I
    BY <2>4 DEF MonthAt, I
  <2> QED BY <2>1, <2>5
<1>7. M(0) \in Nat /\ MonthOf[utc] \in Nat
  BY <1>2, <1>5, MonthsAre
<1>. DEFINE m0 == M(0)
            mu == MonthOf[utc]
<1>8. last = (mu - m0) \div I
  BY <1>5
<1>. HIDE DEF I, last, At, m0, mu
<1>9. last \in Nat /\ last * I <= mu - m0 /\ mu - m0 < (last + 1) * I
  <2>1. mu \in Nat /\ m0 \in Nat /\ m0 <= mu
    BY <1>5, <1>7 DEF m0, mu
  <2>2. CASE I = 1
    BY <1>8, <2>1, <2>2
  <2>3. CASE I = 12
    BY <1>8, <2>1, <2>3
  <2> QED BY <1>3, <2>2, <2>3
<1>10. \A n \in 0 .. last + 1 : M(n) \in Months
  <2>. TAKE n \in 0 .. last + 1
  <2>1. M(n) = m0 + n * I
    BY <1>6, <1>9 DEF m0
  <2>2. m0 \in Nat /\ mu \in Nat
    BY <1>7 DEF m0, mu
  <2>3. m0 + n * I \in Nat /\ m0 + n * I <= mu + 12
    <3>1. CASE I = 1
      BY <1>9, <2>2, <3>1
    <3>2. CASE I = 12
      BY <1>9, <2>2, <3>2
    <3> QED BY <1>3, <3>1, <3>2
  <2> QED BY <1>2, <2>1, <2>2, <2>3, MonthsAre DEF mu
<1>11. \A n \in 0 .. last + 1 : At(n) \in Dates /\ MonthOf[At(n)] = M(n)
  <2>. TAKE n \in 0 .. last + 1
  <2>1. o + n \in Nat /\ M(n) \in Months
    BY <1>1, <1>9, <1>10
  <2> QED BY <1>1, <2>1, OccurrenceIs DEF At
<1>12. \A n \in 0 .. last - 1 : At(n) <= utc
  <2>. TAKE n \in 0 .. last - 1
  <2>1. n \in 0 .. last + 1
    BY <1>9
  <2>2. M(n) = m0 + n * I
    BY <1>6 DEF m0
  <2>3. m0 \in Nat /\ mu \in Nat
    BY <1>7 DEF m0, mu
  <2>4. m0 + n * I < mu
    <3>1. CASE I = 1
      BY <1>9, <2>3, <3>1
    <3>2. CASE I = 12
      BY <1>9, <2>3, <3>2
    <3> QED BY <1>3, <3>1, <3>2
  <2>5. At(n) < utc
    BY <1>2, <1>11, <2>1, <2>2, <2>4, DatesInOrder DEF mu
  <2> QED BY <1>2, <1>11, <2>1, <2>5, DatesHaveMonths
<1>13. utc < At(last + 1)
  <2>1. last + 1 \in 0 .. last + 1 /\ last + 1 \in Nat
    BY <1>9
  <2>2. M(last + 1) = m0 + (last + 1) * I
    BY <1>6, <2>1 DEF m0
  <2>3. m0 \in Nat /\ mu \in Nat
    BY <1>7 DEF m0, mu
  <2>4. mu < m0 + (last + 1) * I
    <3>1. CASE I = 1
      BY <1>9, <2>3, <3>1
    <3>2. CASE I = 12
      BY <1>9, <2>3, <3>2
    <3> QED BY <1>3, <3>1, <3>2
  <2> QED BY <1>2, <1>11, <2>1, <2>2, <2>4, DatesInOrder DEF mu
<1>14. DueCount(rule) = Cardinality(due)
  BY DEF DueCount, last, I
<1>15. due = {n \in 0 .. last : At(n) <= utc}
  BY <1>4, <1>9
<1>. HIDE DEF due
<1>16. PICK k \in {last, last + 1} : /\ due = 0 .. k - 1
                                     /\ \A n \in 0 .. k - 1 : At(n) <= utc
                                     /\ utc < At(k)
  <2>1. At(last) \in Dates /\ At(last) \in Nat /\ utc \in Nat
    BY <1>2, <1>9, <1>11, DatesHaveMonths
  <2>2. CASE At(last) <= utc
    <3>1. \A n \in 0 .. last : At(n) <= utc
      BY <1>9, <1>12, <2>2
    <3>2. due = 0 .. (last + 1) - 1
      BY <1>9, <1>15, <3>1
    <3> QED BY <1>9, <1>13, <3>1, <3>2
  <2>3. CASE ~(At(last) <= utc)
    <3>1. due = 0 .. last - 1
      BY <1>9, <1>12, <1>15, <2>3
    <3> QED BY <1>9, <1>12, <2>1, <2>3, <3>1
  <2> QED BY <2>2, <2>3
<1>17. k \in Nat /\ k <= last + 1
  BY <1>9
<1>18. Cardinality(0 .. k - 1) = k
  BY <1>17, FS_Interval
<1>19. DueCount(rule) = k
  BY <1>14, <1>16, <1>18
<1>20. \A n \in 0 .. k : DueDate(rule, n) = At(n) /\ M(n) \in Months
  BY <1>4, <1>9, <1>10, <1>17
<1> QED BY <1>16, <1>17, <1>19, <1>20 DEF At

(* An aligned schedule goes on with its first occurrence after today. *)
LEMMA AlignedIs ==
    ASSUME NEW today, YearAhead(today), NEW start \in Dates, NEW frequency \in Frequencies
    PROVE  LET n == Aligned(start, frequency, today)
           IN  /\ n \in Nat
               /\ MonthAt(start, frequency, n) \in Months
               /\ today < Occurrence(start, frequency, n)
<1>. DEFINE s == MonthOf[start]
            t == MonthOf[today]
            I == Interval(frequency)
            n == IF frequency = "yearly" THEN YearOf(t) - YearOf(s) ELSE t - s
            first == IF n < 0 THEN 0 ELSE n
            M(k) == MonthAt(start, frequency, k)
            At(k) == Occurrence(start, frequency, k)
<1>1. s \in Months /\ t \in Months /\ t + 12 \in Months /\ today \in Dates
      /\ s \in Nat /\ t \in Nat /\ today \in Nat
  BY DatesHaveMonths, MonthsAre DEF YearAhead
<1>2. Aligned(start, frequency, today) = IF At(first) > today THEN first ELSE first + 1
  BY DEF Aligned
<1>3. \A k \in Nat : M(k) = s + k * I
  BY DEF MonthAt
<1>4. /\ first \in Nat /\ M(first) \in Months
      /\ n < 0 => t < M(first)
      /\ t < M(first + 1)
      /\ M(first) <= t => M(first + 1) \in Months
  <2>. HIDE DEF M
  <2>1. CASE frequency = "yearly"
    <3>1. I = 12 /\ n = t \div 12 - s \div 12
      BY <1>1, <2>1, MonthsAre DEF Interval, YearOf
    <3>. DEFINE q == t \div 12
                p == s \div 12
    <3>2. q \in Nat /\ p \in Nat /\ 12 * q <= t /\ t < 12 * q + 12 /\ 12 * p <= s /\ s < 12 * p + 12
      BY <1>1
    <3>3. t < 12 * YearCount /\ YearCount \in Nat
      BY <1>1, MonthsAre
    <3>. HIDE DEF q, p
    <3>4. 12 * q + 12 <= 12 * YearCount
      BY <3>2, <3>3, <1>1
    <3>5. n = q - p
      BY <3>1 DEF q, p
    <3>. HIDE DEF n
    <3>6. CASE n < 0
      <4>1. first = 0 /\ M(0) = s /\ M(0 + 1) = s + 12
        BY <1>1, <1>3, <3>1, <3>6
      <4>2. t < s
        BY <1>1, <3>2, <3>5, <3>6
      <4> QED BY <1>1, <3>6, <4>1, <4>2
    <3>7. CASE ~(n < 0)
      <4>1. first = n /\ n \in Nat
        BY <3>2, <3>5, <3>7
      <4>2. M(n) = s + 12 * (q - p) /\ M(n + 1) = s + 12 * (q - p) + 12
        BY <1>1, <1>3, <3>1, <3>2, <3>5, <4>1
      <4>3. M(n) \in Nat /\ M(n) < 12 * q + 12 /\ t < M(n + 1)
        BY <1>1, <3>2, <4>2
      <4>4. M(n) \in Months
        BY <3>3, <3>4, <4>3, <3>2, MonthsAre
      <4>5. M(n) <= t => M(n + 1) \in Months
        BY <1>1, <3>2, <4>2, <4>3, MonthsAre
      <4> QED BY <3>7, <4>1, <4>3, <4>4, <4>5
    <3> QED BY <3>6, <3>7
  <2>2. CASE frequency # "yearly"
    <3>1. I = 1 /\ n = t - s
      BY <2>2 DEF Interval
    <3>. HIDE DEF n
    <3>2. \A k \in Nat : M(k) = s + k
      BY <1>1, <1>3, <3>1
    <3>3. CASE n < 0
      <4>1. first = 0 /\ M(0) = s /\ M(0 + 1) = s + 1
        BY <1>1, <3>2, <3>3
      <4> QED BY <1>1, <3>1, <3>3, <4>1, MonthsAre
    <3>4. CASE ~(n < 0)
      <4>1. first = n /\ n \in Nat /\ M(n) = t /\ M(n + 1) = t + 1
        BY <1>1, <3>1, <3>2, <3>4
      <4> QED BY <1>1, <3>4, <4>1, MonthsAre
    <3> QED BY <3>3, <3>4
  <2> QED BY <2>1, <2>2
<1>. HIDE DEF n, first, M
<1>5. At(first) \in Dates /\ MonthOf[At(first)] = M(first) /\ At(first) \in Nat
  BY <1>4, OccurrenceIs, DatesHaveMonths DEF M
<1>6. CASE At(first) > today
  BY <1>2, <1>4, <1>6 DEF M
<1>7. CASE ~(At(first) > today)
  <2>1. At(first) <= today
    BY <1>1, <1>5, <1>7
  <2>2. M(first) <= t
    BY <1>1, <1>5, <2>1, DatesInOrder
  <2>3. first + 1 \in Nat /\ M(first + 1) \in Months
    BY <1>4, <2>2
  <2>4. At(first + 1) \in Dates /\ MonthOf[At(first + 1)] = M(first + 1)
    BY <2>3, OccurrenceIs DEF M
  <2>5. today < At(first + 1)
    BY <1>1, <1>4, <2>4, DatesInOrder
  <2> QED BY <1>2, <1>7, <2>3, <2>5 DEF M
<1> QED BY <1>6, <1>7

-----------------------------------------------------------------------------
(* Lists *)

(* Among lists with some property that the empty one lacks, one loses it with its last element. *)
LEMMA ShortestList ==
    ASSUME NEW S, NEW C, C \subseteq Seq(S), C # {}, <<>> \notin C
    PROVE  \E s \in Seq(S), e \in S : s \notin C /\ Append(s, e) \in C
<1>. DEFINE L == {Len(s) : s \in C}
<1>1. L \subseteq Nat /\ L # {}
  BY LenProperties
<1>2. PICK n \in L : \A m \in L : n <= m
  BY <1>1, SmallestNumber
<1>3. PICK t \in C : Len(t) = n
  BY <1>2
<1>4. PICK s \in Seq(S), e \in S : t = Append(s, e)
  BY <1>3, SequenceEmptyOrAppend
<1>5. Len(s) \in Nat /\ Len(t) = Len(s) + 1
  BY <1>4, AppendProperties, LenProperties
<1>6. s \notin C
  <2>. SUFFICES ASSUME s \in C PROVE FALSE
    OBVIOUS
  <2>1. n <= Len(s)
    BY <1>2
  <2> QED BY <1>3, <1>5, <2>1
<1> QED BY <1>3, <1>4, <1>6

(* What the recursion of FlattenSeq says of its i-th prefix. *)
FlatStep(g, ss, i) == IF i = 1 THEN ss[i] ELSE g[i - 1] \o ss[i]

FlatsOf(g, ss) == g = [i \in 1 .. Len(ss) |-> FlatStep(g, ss, i)]

Flats(ss) == CHOOSE g : FlatsOf(g, ss)

(* The definition of FlattenSeq in these terms. *)
LEMMA FlattenIs ==
    ASSUME NEW ss PROVE FlattenSeq(ss) = IF Len(ss) = 0 THEN ss ELSE Flats(ss)[Len(ss)]
  BY Zenon DEF FlattenSeq, Flats, FlatsOf, FlatStep

(* That recursion defines a function. *)
LEMMA FlatsAre ==
    ASSUME NEW ss, Len(ss) \in Nat
    PROVE  \A i \in 1 .. Len(ss) : Flats(ss)[i] = FlatStep(Flats(ss), ss, i)
<1>. DEFINE I == 1 .. Len(ss)
            Reached(g, n) == /\ g = [i \in I |-> g[i]]
                             /\ \A i \in I : i <= n => g[i] = FlatStep(g, ss, i)
            C == {n \in Nat : \A g : ~Reached(g, n)}
<1>1. C = {}
  <2>. SUFFICES ASSUME C # {} PROVE FALSE
    OBVIOUS
  <2>1. PICK n \in C : \A k \in C : n <= k
    BY SmallestNumber
  <2>2. n \in Nat /\ ~\E g : Reached(g, n)
    BY <2>1
  <2>3. CASE n = 0
    <3>. DEFINE g == [i \in I |-> 0]
    <3>1. g = [i \in I |-> g[i]] /\ \A i \in I : ~(i <= 0)
      OBVIOUS
    <3>2. Reached(g, 0)
      BY <3>1
    <3> QED BY <2>2, <2>3, <3>2
  <2>4. CASE n # 0
    <3>1. n - 1 \in Nat /\ ~(n <= n - 1)
      BY <2>2, <2>4
    <3>2. PICK g : Reached(g, n - 1)
      BY <2>1, <3>1
    <3>. DEFINE h == [i \in I |-> FlatStep(g, ss, i)]
    <3>3. ASSUME NEW i \in I, i <= n PROVE h[i] = FlatStep(h, ss, i)
      <4>1. CASE i = 1
        BY <4>1 DEF FlatStep
      <4>2. CASE i # 1
        <5>1. i - 1 \in I /\ i - 1 <= n - 1
          BY <2>2, <3>3, <4>2
        <5>2. h[i - 1] = g[i - 1]
          BY <3>2, <5>1
        <5> QED BY <4>2, <5>2 DEF FlatStep
      <4> QED BY <4>1, <4>2
    <3>4. Reached(h, n)
      BY <3>3
    <3> QED BY <2>2, <3>4
  <2> QED BY <2>3, <2>4
<1>2. PICK g : Reached(g, Len(ss))
  BY <1>1
<1>3. FlatsOf(g, ss)
  BY <1>2 DEF FlatsOf
<1>4. FlatsOf(Flats(ss), ss)
  BY <1>3, Zenon DEF Flats
<1> QED BY <1>4 DEF FlatsOf

(* A list of lists is flattened one list after the other. *)
LEMMA FlattenAppend ==
    ASSUME NEW S, NEW ss \in Seq(Seq(S)), NEW s \in Seq(S)
    PROVE  FlattenSeq(Append(ss, s)) = FlattenSeq(ss) \o s
<1>. DEFINE tt == Append(ss, s)
            n == Len(ss)
            C == {i \in 1 .. n : Flats(tt)[i] # Flats(ss)[i]}
<1>1. /\ n \in Nat /\ Len(tt) = n + 1 /\ tt[n + 1] = s
      /\ \A i \in 1 .. n : tt[i] = ss[i]
  BY AppendProperties, LenProperties
<1>. HIDE DEF tt, n
<1>2. \A i \in 1 .. n : Flats(ss)[i] = FlatStep(Flats(ss), ss, i)
  BY <1>1, FlatsAre DEF n
<1>3. \A i \in 1 .. n + 1 : Flats(tt)[i] = FlatStep(Flats(tt), tt, i)
  BY <1>1, FlatsAre
<1>4. C = {}
  <2>. SUFFICES ASSUME C # {} PROVE FALSE
    OBVIOUS
  <2>1. C \subseteq Nat
    BY <1>1
  <2>2. PICK i \in C : \A k \in C : i <= k
    BY <2>1, SmallestNumber
  <2>3. i \in 1 .. n /\ Flats(tt)[i] # Flats(ss)[i]
    BY <2>2
  <2>4. CASE i = 1
    BY <1>1, <1>2, <1>3, <2>3, <2>4 DEF FlatStep
  <2>5. CASE i # 1
    <3>1. i - 1 \in 1 .. n /\ ~(i <= i - 1)
      BY <1>1, <2>3, <2>5
    <3>2. Flats(tt)[i - 1] = Flats(ss)[i - 1]
      BY <2>2, <3>1
    <3> QED BY <1>1, <1>2, <1>3, <2>3, <2>5, <3>2 DEF FlatStep
  <2> QED BY <2>4, <2>5
<1>5. FlattenSeq(tt) = Flats(tt)[n + 1]
  BY <1>1, FlattenIs
<1>6. CASE n = 0
  <2>1. Flats(tt)[n + 1] = s
    BY <1>1, <1>3, <1>6 DEF FlatStep
  <2>2. ss = <<>>
    BY <1>6, EmptySeq DEF n
  <2>3. FlattenSeq(ss) = <<>>
    BY <1>6, <2>2, FlattenIs DEF n
  <2>4. <<>> \o s = s
    BY ConcatEmptySeq
  <2> QED BY <1>5, <2>1, <2>3, <2>4 DEF tt
<1>7. CASE n # 0
  <2>1. n \in 1 .. n /\ n + 1 # 1 /\ (n + 1) - 1 = n /\ n + 1 \in 1 .. n + 1
    BY <1>1, <1>7
  <2>2. Flats(tt)[n + 1] = Flats(tt)[n] \o s
    BY <1>1, <1>3, <2>1 DEF FlatStep
  <2>3. Flats(tt)[n] = Flats(ss)[n]
    BY <1>4, <2>1
  <2>4. FlattenSeq(ss) = Flats(ss)[n]
    BY <1>7, FlattenIs DEF n
  <2> QED BY <1>5, <2>2, <2>3, <2>4 DEF tt
<1> QED BY <1>6, <1>7

(* Nothing flattens to nothing. *)
LEMMA FlattenNothing == FlattenSeq(<<>>) = <<>>
<1>1. Len(<<>>) = 0
  BY EmptySeq
<1> QED BY <1>1, FlattenIs

(* Flattening lists over a set gives a list over it. *)
LEMMA FlattenType ==
    ASSUME NEW S, NEW ss \in Seq(Seq(S))
    PROVE  FlattenSeq(ss) \in Seq(S)
<1>. DEFINE C == {tt \in Seq(Seq(S)) : FlattenSeq(tt) \notin Seq(S)}
<1>1. <<>> \notin C
  BY FlattenNothing, EmptySeq
<1>2. C = {}
  <2>. SUFFICES ASSUME C # {} PROVE FALSE
    OBVIOUS
  <2>1. PICK tt \in Seq(Seq(S)), s \in Seq(S) : tt \notin C /\ Append(tt, s) \in C
    BY <1>1, ShortestList
  <2>2. FlattenSeq(tt) \in Seq(S)
    BY <2>1
  <2>3. FlattenSeq(Append(tt, s)) = FlattenSeq(tt) \o s
    BY FlattenAppend
  <2>4. FlattenSeq(tt) \o s \in Seq(S)
    BY <2>2, ConcatProperties
  <2> QED BY <2>1, <2>3, <2>4
<1> QED BY <1>2

-----------------------------------------------------------------------------
(* The movements of a purchase, and the others *)

(* A list of lists made from the elements of another, one from each. *)
LEMMA Pieces ==
    ASSUME NEW S, NEW n \in Nat, NEW f, f = [i \in 1 .. n |-> f[i]],
           \A i \in 1 .. n : f[i] \in Seq(S)
    PROVE  f \in Seq(Seq(S)) /\ Len(f) = n
<1>1. f \in [1 .. n -> Seq(S)]
  OBVIOUS
<1>2. f \in Seq(Seq(S))
  BY <1>1, SeqDef
<1> QED BY <1>1, <1>2, LenProperties

(* A list of one element. *)
LEMMA Single ==
    ASSUME NEW S, NEW e \in S
    PROVE  /\ <<e>> \in Seq(S) /\ <<>> \in Seq(S)
           /\ \A s \in Seq(S) : s \o <<e>> = Append(s, e) /\ s \o <<>> = s
<1>1. <<e>> \in Seq(S) /\ <<>> \in Seq(S)
  OBVIOUS
<1> QED BY <1>1, AppendIsConcat, ConcatEmptySeq

(* Nothing is made for a purchase at first. *)
LEMMA MadeForNothing ==
    ASSUME NEW p PROVE MadeFor(<<>>, p) = <<>> /\ Without(<<>>, p) = <<>>
<1>. DEFINE f == [i \in DOMAIN <<>> |-> IF <<>>[i].purchase = p THEN <<<<>>[i]>> ELSE <<>>]
            g == [i \in DOMAIN <<>> |-> IF <<>>[i].purchase = p THEN <<>> ELSE <<<<>>[i]>>]
<1>1. DOMAIN <<>> = 1 .. 0
  BY EmptySeq
<1>2. f \in Seq(Seq({})) /\ Len(f) = 0 /\ g \in Seq(Seq({})) /\ Len(g) = 0
  BY <1>1, Pieces
<1>3. f = <<>> /\ g = <<>>
  BY <1>2, EmptySeq
<1> QED BY <1>3, FlattenNothing DEF MadeFor, Without

(* A list that is another and an element after it is the other with it added. *)
LEMMA AppendIs ==
    ASSUME NEW S, NEW old \in Seq(S), NEW new \in Seq(S), NEW e \in S,
           Len(new) = Len(old) + 1, new[Len(old) + 1] = e,
           \A i \in 1 .. Len(old) : new[i] = old[i]
    PROVE  new = Append(old, e)
<1>. DEFINE sum == Append(old, e)
            n == Len(old)
<1>1. /\ n \in Nat /\ sum \in Seq(S) /\ Len(sum) = n + 1 /\ sum[n + 1] = e
      /\ \A i \in 1 .. n : sum[i] = old[i]
  BY AppendProperties, LenProperties
<1>2. Len(new) = n + 1 /\ new[n + 1] = e /\ \A i \in 1 .. n : new[i] = old[i]
  OBVIOUS
<1>. HIDE DEF sum, n
<1>3. \A i \in 1 .. n + 1 : i \in 1 .. n \/ i = n + 1
  BY <1>1
<1>4. \A i \in 1 .. Len(new) : new[i] = sum[i]
  BY <1>1, <1>2, <1>3
<1>5. new = sum
  BY <1>1, <1>2, <1>4, SeqEqual
<1> QED BY <1>5 DEF sum

(* A new movement is the last one of its purchase. *)
LEMMA MadeForAppend ==
    ASSUME NEW S, NEW ms \in Seq(S), NEW m \in S, NEW p
    PROVE  /\ MadeFor(ms, p) \in Seq(S) /\ Without(ms, p) \in Seq(S)
           /\ MadeFor(Append(ms, m), p)
              = IF m.purchase = p THEN Append(MadeFor(ms, p), m) ELSE MadeFor(ms, p)
           /\ Without(Append(ms, m), p)
              = IF m.purchase = p THEN Without(ms, p) ELSE Append(Without(ms, p), m)
<1>. DEFINE t == Append(ms, m)
            n == Len(ms)
            f(s) == [i \in DOMAIN s |-> IF s[i].purchase = p THEN <<s[i]>> ELSE <<>>]
            g(s) == [i \in DOMAIN s |-> IF s[i].purchase = p THEN <<>> ELSE <<s[i]>>]
            x == IF m.purchase = p THEN <<m>> ELSE <<>>
            y == IF m.purchase = p THEN <<>> ELSE <<m>>
<1>1. /\ n \in Nat /\ DOMAIN ms = 1 .. n /\ \A i \in 1 .. n : ms[i] \in S
      /\ t \in Seq(S) /\ DOMAIN t = 1 .. n + 1 /\ t[n + 1] = m
      /\ \A i \in 1 .. n : t[i] = ms[i]
  <2>1. t \in Seq(S) /\ Len(t) = n + 1 /\ t[n + 1] = m /\ \A i \in 1 .. n : t[i] = ms[i]
    BY AppendProperties
  <2> QED BY <2>1, LenProperties, ElementOfSeq
<1>2. \A e \in S : <<e>> \in Seq(S) /\ <<>> \in Seq(S)
  BY Single
<1>3. x \in Seq(S) /\ y \in Seq(S)
  BY <1>2
<1>. HIDE DEF t, n
<1>4. f(ms) \in Seq(Seq(S)) /\ Len(f(ms)) = n /\ g(ms) \in Seq(Seq(S)) /\ Len(g(ms)) = n
  <2>1. f(ms) = [i \in 1 .. n |-> f(ms)[i]] /\ \A i \in 1 .. n : f(ms)[i] \in Seq(S)
    BY <1>1, <1>2
  <2>2. g(ms) = [i \in 1 .. n |-> g(ms)[i]] /\ \A i \in 1 .. n : g(ms)[i] \in Seq(S)
    BY <1>1, <1>2
  <2>. HIDE DEF f, g
  <2> QED BY <1>1, <2>1, <2>2, Pieces
<1>5. /\ f(t) \in Seq(Seq(S)) /\ Len(f(t)) = n + 1 /\ g(t) \in Seq(Seq(S)) /\ Len(g(t)) = n + 1
      /\ f(t)[n + 1] = x /\ g(t)[n + 1] = y
      /\ \A i \in 1 .. n : f(t)[i] = f(ms)[i] /\ g(t)[i] = g(ms)[i]
  <2>0. \A i \in 1 .. n + 1 : t[i] \in S
    <3>. TAKE i \in 1 .. n + 1
    <3>1. i \in 1 .. n \/ i = n + 1
      BY <1>1
    <3> QED BY <1>1, <3>1
  <2>1. f(t) = [i \in 1 .. n + 1 |-> f(t)[i]] /\ \A i \in 1 .. n + 1 : f(t)[i] \in Seq(S)
    BY <1>1, <1>2, <2>0
  <2>2. g(t) = [i \in 1 .. n + 1 |-> g(t)[i]] /\ \A i \in 1 .. n + 1 : g(t)[i] \in Seq(S)
    BY <1>1, <1>2, <2>0
  <2>3. /\ f(t)[n + 1] = x /\ g(t)[n + 1] = y
        /\ \A i \in 1 .. n : f(t)[i] = f(ms)[i] /\ g(t)[i] = g(ms)[i]
    BY <1>1
  <2>4. n + 1 \in Nat
    BY <1>1
  <2>. HIDE DEF f, g, x, y
  <2> QED BY <2>1, <2>2, <2>3, <2>4, Pieces
<1>6. MadeFor(ms, p) = FlattenSeq(f(ms)) /\ MadeFor(t, p) = FlattenSeq(f(t))
      /\ Without(ms, p) = FlattenSeq(g(ms)) /\ Without(t, p) = FlattenSeq(g(t))
  BY DEF MadeFor, Without
<1>7. x = (IF m.purchase = p THEN <<m>> ELSE <<>>) /\ y = (IF m.purchase = p THEN <<>> ELSE <<m>>)
  OBVIOUS
<1>. HIDE DEF f, g, x, y
<1>8. f(t) = Append(f(ms), x) /\ g(t) = Append(g(ms), y)
  <2>. DEFINE a == f(ms)
              b == f(t)
              c == g(ms)
              d == g(t)
  <2>1. /\ a \in Seq(Seq(S)) /\ b \in Seq(Seq(S)) /\ Len(b) = Len(a) + 1 /\ b[Len(a) + 1] = x
        /\ \A i \in 1 .. Len(a) : b[i] = a[i]
    BY <1>4, <1>5
  <2>2. /\ c \in Seq(Seq(S)) /\ d \in Seq(Seq(S)) /\ Len(d) = Len(c) + 1 /\ d[Len(c) + 1] = y
        /\ \A i \in 1 .. Len(c) : d[i] = c[i]
    BY <1>4, <1>5
  <2>. HIDE DEF a, b, c, d
  <2>3. b = Append(a, x)
    BY <1>3, <2>1, AppendIs
  <2>4. d = Append(c, y)
    BY <1>3, <2>2, AppendIs
  <2> QED BY <2>3, <2>4 DEF a, b, c, d
<1>9. /\ FlattenSeq(f(ms)) \in Seq(S) /\ FlattenSeq(g(ms)) \in Seq(S)
      /\ FlattenSeq(f(t)) = FlattenSeq(f(ms)) \o x /\ FlattenSeq(g(t)) = FlattenSeq(g(ms)) \o y
  BY <1>3, <1>4, <1>8, FlattenAppend, FlattenType
<1>10. \A s \in Seq(S) : s \o <<m>> = Append(s, m) /\ s \o <<>> = s
  BY Single
<1> QED BY <1>6, <1>7, <1>9, <1>10 DEF t

(* The same of every list at once, by cases. *)
LEMMA MadeForLast ==
    ASSUME NEW S, NEW p
    PROVE  \A ms \in Seq(S) : \A m \in S :
               /\ MadeFor(ms, p) \in Seq(S)
               /\ m.purchase = p => MadeFor(Append(ms, m), p) = Append(MadeFor(ms, p), m)
               /\ m.purchase # p => MadeFor(Append(ms, m), p) = MadeFor(ms, p)
<1>. TAKE ms \in Seq(S)
<1>. TAKE m \in S
<1>1. /\ MadeFor(ms, p) \in Seq(S)
      /\ MadeFor(Append(ms, m), p)
         = IF m.purchase = p THEN Append(MadeFor(ms, p), m) ELSE MadeFor(ms, p)
  BY MadeForAppend
<1>2. CASE m.purchase = p
  BY <1>1, <1>2
<1>3. CASE m.purchase # p
  BY <1>1, <1>3
<1> QED BY <1>2, <1>3

(* An element added to a list joined to another is added to the second. *)
LEMMA AppendJoined ==
    ASSUME NEW S, NEW s \in Seq(S), NEW t \in Seq(S), NEW e \in S
    PROVE  s \o Append(t, e) = Append(s \o t, e)
<1>1. s \o t \in Seq(S) /\ <<e>> \in Seq(S)
  BY ConcatProperties, Single
<1>2. Append(t, e) = t \o <<e>> /\ Append(s \o t, e) = (s \o t) \o <<e>>
  BY <1>1, AppendIsConcat
<1> QED BY <1>1, <1>2, ConcatAssociative

(* The movements of a purchase in two lists are those of one and of the other. *)
LEMMA MadeForJoined ==
    ASSUME NEW S, NEW s \in Seq(S), NEW t \in Seq(S), NEW p
    PROVE  MadeFor(s \o t, p) = MadeFor(s, p) \o MadeFor(t, p)
<1>. DEFINE C == {u \in Seq(S) : MadeFor(s \o u, p) # MadeFor(s, p) \o MadeFor(u, p)}
<1>0. \A u \in Seq(S) : s \o u \in Seq(S) /\ s \o <<>> = s /\ MadeFor(s, p) \o <<>> = MadeFor(s, p)
  <2>1. CASE S = {}
    <3>1. s = <<>>
      BY <2>1
    <3> QED BY <3>1, MadeForNothing, ConcatProperties, ConcatEmptySeq
  <2>2. CASE S # {}
    <3>1. MadeFor(s, p) \in Seq(S)
      BY <2>2, MadeForAppend
    <3> QED BY <3>1, ConcatProperties, ConcatEmptySeq
  <2> QED BY <2>1, <2>2
<1>3. \A u, v \in Seq(S), e \in S : u \o Append(v, e) = Append(u \o v, e)
  <2>. HIDE DEF C
  <2> QED BY AppendJoined, SMTT(30)
<1>1. <<>> \notin C
  BY <1>0, MadeForNothing, EmptySeq
<1>2. C = {}
  <2>. SUFFICES ASSUME C # {} PROVE FALSE
    OBVIOUS
  <2>1. PICK u \in Seq(S), e \in S : u \notin C /\ Append(u, e) \in C
    BY <1>1, ShortestList
  <2>2. MadeFor(s \o u, p) = MadeFor(s, p) \o MadeFor(u, p)
    BY <2>1
  <2>3. MadeFor(s, p) \in Seq(S) /\ MadeFor(u, p) \in Seq(S) /\ s \o u \in Seq(S)
    BY <1>0, MadeForAppend
  <2>4. MadeFor(s \o Append(u, e), p) # MadeFor(s, p) \o MadeFor(Append(u, e), p)
    BY <2>1
  <2>5. s \o Append(u, e) = Append(s \o u, e)
    BY <1>3, Zenon
  <2>6. /\ e.purchase = p => MadeFor(Append(u, e), p) = Append(MadeFor(u, p), e)
        /\ e.purchase # p => MadeFor(Append(u, e), p) = MadeFor(u, p)
    BY MadeForLast
  <2>7. /\ e.purchase = p => MadeFor(Append(s \o u, e), p) = Append(MadeFor(s \o u, p), e)
        /\ e.purchase # p => MadeFor(Append(s \o u, e), p) = MadeFor(s \o u, p)
    <3>. DEFINE v == s \o u
    <3>1. v \in Seq(S)
      BY <2>3
    <3>. HIDE DEF v
    <3>2. /\ e.purchase = p => MadeFor(Append(v, e), p) = Append(MadeFor(v, p), e)
          /\ e.purchase # p => MadeFor(Append(v, e), p) = MadeFor(v, p)
      BY <3>1, MadeForLast
    <3> QED BY <3>2 DEF v
  <2>8. MadeFor(s, p) \o Append(MadeFor(u, p), e) = Append(MadeFor(s, p) \o MadeFor(u, p), e)
    BY <1>3, <2>3, Zenon
  <2> QED BY <2>2, <2>4, <2>5, <2>6, <2>7, <2>8
<1> QED BY <1>2

(* A list without movements of a purchase, and one of nothing else. *)
LEMMA MadeForUniform ==
    ASSUME NEW S, NEW p
    PROVE  /\ \A s \in Seq(S) : (\A i \in 1 .. Len(s) : s[i].purchase # p) => MadeFor(s, p) = <<>>
           /\ \A s \in Seq(S) : (\A i \in 1 .. Len(s) : s[i].purchase = p) => MadeFor(s, p) = s
<1>. DEFINE None_(s) == \A i \in 1 .. Len(s) : s[i].purchase # p
            All_(s) == \A i \in 1 .. Len(s) : s[i].purchase = p
            C == {s \in Seq(S) : ~((None_(s) => MadeFor(s, p) = <<>>) /\ (All_(s) => MadeFor(s, p) = s))}
<1>1. <<>> \notin C
  BY MadeForNothing
<1>2. C = {}
  <2>. SUFFICES ASSUME C # {} PROVE FALSE
    OBVIOUS
  <2>1. PICK u \in Seq(S), e \in S : u \notin C /\ Append(u, e) \in C
    BY <1>1, ShortestList
  <2>2. (None_(u) => MadeFor(u, p) = <<>>) /\ (All_(u) => MadeFor(u, p) = u)
    BY <2>1
  <2>3. MadeFor(Append(u, e), p) = IF e.purchase = p THEN Append(MadeFor(u, p), e) ELSE MadeFor(u, p)
    BY MadeForAppend
  <2>4. /\ Len(u) \in Nat /\ Len(Append(u, e)) = Len(u) + 1
        /\ \A i \in 1 .. Len(u) : Append(u, e)[i] = u[i] /\ i \in 1 .. Len(Append(u, e))
        /\ Append(u, e)[Len(u) + 1] = e /\ Len(u) + 1 \in 1 .. Len(Append(u, e))
    BY AppendProperties, LenProperties
  <2>5. None_(Append(u, e)) => None_(u) /\ e.purchase # p
    BY <2>4
  <2>6. All_(Append(u, e)) => All_(u) /\ e.purchase = p
    BY <2>4
  <2>7. ~(/\ None_(Append(u, e)) => MadeFor(Append(u, e), p) = <<>>
          /\ All_(Append(u, e)) => MadeFor(Append(u, e), p) = Append(u, e))
    BY <2>1
  <2>. HIDE DEF None_, All_
  <2> QED BY <2>2, <2>3, <2>5, <2>6, <2>7
<1> QED BY <1>2

(* Taking the movements of a purchase away leaves those of every other. *)
LEMMA MadeForWithout ==
    ASSUME NEW S, NEW s \in Seq(S), NEW p, NEW q
    PROVE  MadeFor(Without(s, q), p) = IF p = q THEN <<>> ELSE MadeFor(s, p)
<1>. DEFINE C == {u \in Seq(S) : MadeFor(Without(u, q), p) # IF p = q THEN <<>> ELSE MadeFor(u, p)}
<1>1. <<>> \notin C
  BY MadeForNothing
<1>2. C = {}
  <2>. SUFFICES ASSUME C # {} PROVE FALSE
    OBVIOUS
  <2>1. PICK u \in Seq(S), e \in S : u \notin C /\ Append(u, e) \in C
    BY <1>1, ShortestList
  <2>2. MadeFor(Without(u, q), p) = IF p = q THEN <<>> ELSE MadeFor(u, p)
    BY <2>1
  <2>3. MadeFor(Append(u, e), p) = IF e.purchase = p THEN Append(MadeFor(u, p), e) ELSE MadeFor(u, p)
    BY MadeForAppend
  <2>4. /\ Without(u, q) \in Seq(S)
        /\ Without(Append(u, e), q) = IF e.purchase = q THEN Without(u, q) ELSE Append(Without(u, q), e)
    BY MadeForAppend
  <2>5. /\ e.purchase = p
           => MadeFor(Append(Without(u, q), e), p) = Append(MadeFor(Without(u, q), p), e)
        /\ e.purchase # p => MadeFor(Append(Without(u, q), e), p) = MadeFor(Without(u, q), p)
    BY <2>4, MadeForLast
  <2>6. MadeFor(Without(Append(u, e), q), p) # IF p = q THEN <<>> ELSE MadeFor(Append(u, e), p)
    BY <2>1
  <2> QED BY <2>2, <2>3, <2>4, <2>5, <2>6
<1> QED BY <1>2

-----------------------------------------------------------------------------
(* What movements do to balances *)

(* A movement belongs to a rule, to a purchase or to neither; those of a purchase charge     *)
(* nothing; a transfer goes from one account to another, and nothing else has a destination. *)
Movements ==
    {m \in [type : {"expense", "income", "transfer"}, account : Accounts,
            dest : Accounts \cup {None}, amount : Nat \ {0}, date : Dates,
            affects : BOOLEAN, linked : BOOLEAN, category : Categories,
            rule : Rules \cup {None}, purchase : Purchases \cup {None}] :
        /\ m.rule = None \/ m.purchase = None
        /\ m.purchase = None \/ ~m.affects
        /\ IF m.type = "transfer" THEN m.dest \notin {None, m.account}
           ELSE m.dest = None /\ ~m.linked}

(* An effect is a number of cents. *)
LEMMA EffectType == ASSUME NEW m \in Movements, NEW a PROVE Effect(m, a) \in Int
<1>1. m.amount \in Int
  BY DEF Movements
<1> QED BY <1>1 DEF Effect

(* No movement, no effect. *)
LEMMA EffectOfNothing == ASSUME NEW a PROVE EffectOf(<<>>, a) = 0
<1>1. DOMAIN <<>> = {}
  BY EmptySeq
<1>2. DOMAIN [i \in DOMAIN <<>> |-> Effect(<<>>[i], a)] = {}
  BY <1>1
<1> QED BY <1>2, TotalEmpty DEF EffectOf

(* A new movement adds its effect. *)
LEMMA EffectOfAppend ==
    ASSUME NEW s \in Seq(Movements), NEW m \in Movements, NEW a
    PROVE  /\ EffectOf(s, a) \in Int
           /\ EffectOf(Append(s, m), a) = EffectOf(s, a) + Effect(m, a)
<1>. DEFINE f(t) == [i \in DOMAIN t |-> Effect(t[i], a)]
            n == Len(s)
            x == Effect(m, a)
<1>1. /\ n \in Nat /\ DOMAIN s = 1 .. n /\ \A i \in 1 .. n : s[i] \in Movements
      /\ DOMAIN Append(s, m) = 1 .. n + 1 /\ Append(s, m)[n + 1] = m
      /\ \A i \in 1 .. n : Append(s, m)[i] = s[i]
  <2>1. /\ Append(s, m) \in Seq(Movements) /\ Len(Append(s, m)) = n + 1
        /\ Append(s, m)[n + 1] = m /\ \A i \in 1 .. n : Append(s, m)[i] = s[i]
    BY AppendProperties
  <2> QED BY <2>1, LenProperties, ElementOfSeq
<1>2. x \in Int /\ \A i \in 1 .. n : Effect(s[i], a) \in Int
  BY <1>1, EffectType
<1>. HIDE DEF n, x
<1>3. f(s) \in [1 .. n -> Int] /\ f(Append(s, m)) \in [1 .. n + 1 -> Int]
  <2>1. \A i \in 1 .. n + 1 : i \in 1 .. n \/ i = n + 1
    BY <1>1
  <2>2. \A i \in 1 .. n + 1 : Effect(Append(s, m)[i], a) \in Int
    BY <1>1, <1>2, <2>1 DEF x
  <2> QED BY <1>1, <1>2, <2>2
<1>4. f(s) \in Seq(Int) /\ Len(f(s)) = n
      /\ f(Append(s, m)) \in Seq(Int) /\ Len(f(Append(s, m))) = n + 1
  <2>1. n + 1 \in Nat
    BY <1>1
  <2>2. \A k \in Nat : \A g \in [1 .. k -> Int] : g \in Seq(Int)
    BY SeqDef
  <2>3. f(s) \in Seq(Int) /\ f(Append(s, m)) \in Seq(Int)
    BY <1>1, <1>3, <2>1, <2>2
  <2> QED BY <1>1, <1>3, <2>1, <2>3, LenProperties
<1>5. f(Append(s, m))[n + 1] = x /\ \A i \in 1 .. n : f(Append(s, m))[i] = f(s)[i]
  <2>1. \A i \in 1 .. n + 1 : i \in DOMAIN Append(s, m)
    BY <1>1
  <2> QED BY <1>1, <2>1 DEF x
<1>6. EffectOf(s, a) = Total(f(s)) /\ EffectOf(Append(s, m), a) = Total(f(Append(s, m)))
  BY DEF EffectOf
<1>. HIDE DEF f
<1>7. f(Append(s, m)) = Append(f(s), x)
  <2>1. /\ Append(f(s), x) \in Seq(Int) /\ Len(Append(f(s), x)) = n + 1
        /\ Append(f(s), x)[n + 1] = x /\ \A i \in 1 .. n : Append(f(s), x)[i] = f(s)[i]
    BY <1>2, <1>4, AppendProperties
  <2>2. \A i \in 1 .. n + 1 : i \in 1 .. n \/ i = n + 1
    BY <1>1
  <2>3. \A i \in 1 .. n + 1 : f(Append(s, m))[i] = Append(f(s), x)[i]
    BY <1>5, <2>1, <2>2
  <2> QED BY <1>4, <2>1, <2>3, SeqEqual
<1> QED BY <1>2, <1>4, <1>6, <1>7, TotalAppend DEF x

(* The same of every list at once. *)
LEMMA EffectOfLast ==
    ASSUME NEW a
    PROVE  \A s \in Seq(Movements) : \A m \in Movements :
               /\ EffectOf(s, a) \in Int /\ Effect(m, a) \in Int
               /\ EffectOf(Append(s, m), a) = EffectOf(s, a) + Effect(m, a)
<1>. TAKE s \in Seq(Movements)
<1>. TAKE m \in Movements
<1> QED BY EffectOfAppend, EffectType

(* Lists of movements have effects, also where there is nothing to append. *)
LEMMA EffectOfType ==
    ASSUME NEW s \in Seq(Movements), NEW a PROVE EffectOf(s, a) \in Int
<1>1. CASE s = <<>>
  BY <1>1, EffectOfNothing
<1>2. CASE s # <<>>
  <2>1. PICK t \in Seq(Movements), m \in Movements : s = Append(t, m)
    BY <1>2, SequenceEmptyOrAppend
  <2>2. EffectOf(t, a) \in Int /\ Effect(m, a) \in Int /\ EffectOf(s, a) = EffectOf(t, a) + Effect(m, a)
    BY <2>1, EffectOfLast
  <2> QED BY <2>2
<1> QED BY <1>1, <1>2

(* The effect of two lists is that of one and of the other. *)
LEMMA EffectOfJoined ==
    ASSUME NEW s \in Seq(Movements), NEW t \in Seq(Movements), NEW a
    PROVE  EffectOf(s \o t, a) = EffectOf(s, a) + EffectOf(t, a)
<1>. DEFINE C == {u \in Seq(Movements) : EffectOf(s \o u, a) # EffectOf(s, a) + EffectOf(u, a)}
<1>1. <<>> \notin C
  <2>1. s \o <<>> = s /\ EffectOf(<<>>, a) = 0 /\ EffectOf(s, a) \in Int
    BY ConcatEmptySeq, EffectOfNothing, EffectOfType
  <2> QED BY <2>1
<1>2. C = {}
  <2>. SUFFICES ASSUME C # {} PROVE FALSE
    OBVIOUS
  <2>1. PICK u \in Seq(Movements), e \in Movements : u \notin C /\ Append(u, e) \in C
    BY <1>1, ShortestList
  <2>. DEFINE v == s \o u
  <2>2. EffectOf(v, a) = EffectOf(s, a) + EffectOf(u, a)
    BY <2>1
  <2>3. v \in Seq(Movements) /\ s \o Append(u, e) = Append(v, e)
    BY ConcatProperties, AppendJoined
  <2>4. EffectOf(s \o Append(u, e), a) # EffectOf(s, a) + EffectOf(Append(u, e), a)
    BY <2>1
  <2>. HIDE DEF v
  <2>5. EffectOf(Append(v, e), a) = EffectOf(v, a) + Effect(e, a)
    BY <2>3, EffectOfLast
  <2>6. EffectOf(Append(u, e), a) = EffectOf(u, a) + Effect(e, a)
    BY EffectOfLast
  <2>7. EffectOf(s, a) \in Int /\ EffectOf(u, a) \in Int /\ Effect(e, a) \in Int
    BY EffectOfLast
  <2> QED BY <2>2, <2>3, <2>4, <2>5, <2>6, <2>7
<1> QED BY <1>2

(* Instalments change no balance, whether they come or go. *)
LEMMA EffectOfInstalments ==
    ASSUME NEW a
    PROVE  /\ \A s \in Seq(Movements) :
                  (\A i \in 1 .. Len(s) : s[i].purchase # None) => EffectOf(s, a) = 0
           /\ \A p \in Purchases : \A s \in Seq(Movements) :
                  Without(s, p) \in Seq(Movements) /\ EffectOf(Without(s, p), a) = EffectOf(s, a)
<1>0. \A m \in Movements : m.purchase # None => Effect(m, a) = 0
  <2>. TAKE m \in Movements
  <2>1. m.purchase = None \/ ~m.affects
    BY DEF Movements
  <2> QED BY <2>1 DEF Effect
<1>1. ASSUME NEW s \in Seq(Movements), \A i \in 1 .. Len(s) : s[i].purchase # None
      PROVE  EffectOf(s, a) = 0
  <2>. DEFINE Charges(u) == \A i \in 1 .. Len(u) : u[i].purchase # None
              C == {u \in Seq(Movements) : ~(Charges(u) => EffectOf(u, a) = 0)}
  <2>1. <<>> \notin C
    BY EffectOfNothing
  <2>2. C = {}
    <3>. SUFFICES ASSUME C # {} PROVE FALSE
      OBVIOUS
    <3>1. PICK u \in Seq(Movements), e \in Movements : u \notin C /\ Append(u, e) \in C
      BY <2>1, ShortestList
    <3>2. /\ Charges(u) => EffectOf(u, a) = 0
          /\ Charges(Append(u, e)) /\ EffectOf(Append(u, e), a) # 0
      BY <3>1
    <3>3. /\ Len(u) \in Nat /\ Len(Append(u, e)) = Len(u) + 1
          /\ \A i \in 1 .. Len(u) : Append(u, e)[i] = u[i]
          /\ Append(u, e)[Len(u) + 1] = e
      BY AppendProperties, LenProperties
    <3>4. Charges(u) /\ e.purchase # None
      BY <3>2, <3>3
    <3>. HIDE DEF Charges
    <3>5. EffectOf(u, a) = 0 /\ Effect(e, a) = 0
      BY <1>0, <3>2, <3>4
    <3>6. EffectOf(Append(u, e), a) = EffectOf(u, a) + Effect(e, a)
      BY EffectOfLast
    <3> QED BY <3>2, <3>5, <3>6
  <2> QED BY <1>1, <2>2
<1>2. ASSUME NEW p \in Purchases, NEW s \in Seq(Movements)
      PROVE  Without(s, p) \in Seq(Movements) /\ EffectOf(Without(s, p), a) = EffectOf(s, a)
  <2>. DEFINE C == {u \in Seq(Movements) :
                        ~(Without(u, p) \in Seq(Movements) /\ EffectOf(Without(u, p), a) = EffectOf(u, a))}
  <2>0. p # None
    BY SchedulesConstants
  <2>1. <<>> \notin C
    BY MadeForNothing, EmptySeq
  <2>2. C = {}
    <3>. SUFFICES ASSUME C # {} PROVE FALSE
      OBVIOUS
    <3>1. PICK u \in Seq(Movements), e \in Movements : u \notin C /\ Append(u, e) \in C
      BY <2>1, ShortestList
    <3>. DEFINE w == Without(u, p)
    <3>2. w \in Seq(Movements) /\ EffectOf(w, a) = EffectOf(u, a)
      BY <3>1
    <3>3. ~(/\ Without(Append(u, e), p) \in Seq(Movements)
            /\ EffectOf(Without(Append(u, e), p), a) = EffectOf(Append(u, e), a))
      BY <3>1, AppendProperties
    <3>4. Without(Append(u, e), p) = IF e.purchase = p THEN w ELSE Append(w, e)
      BY MadeForAppend
    <3>. HIDE DEF w
    <3>5. EffectOf(Append(w, e), a) = EffectOf(w, a) + Effect(e, a) /\ Append(w, e) \in Seq(Movements)
      BY <3>2, EffectOfLast, AppendProperties
    <3>6. EffectOf(Append(u, e), a) = EffectOf(u, a) + Effect(e, a) /\ EffectOf(u, a) \in Int
      BY EffectOfLast
    <3>7. CASE e.purchase = p
      BY <1>0, <2>0, <3>2, <3>3, <3>4, <3>6, <3>7
    <3>8. CASE e.purchase # p
      BY <3>2, <3>3, <3>4, <3>5, <3>6, <3>8
    <3> QED BY <3>7, <3>8
  <2> QED BY <2>2
<1> QED BY <1>1, <1>2

-----------------------------------------------------------------------------
(* The dates a rule is charged on *)

DatesOf(s, r) == {s[i].date : i \in {j \in DOMAIN s : s[j].rule = r}}

OnceIn(s, r) ==
    \A i, j \in DOMAIN s : s[i].rule = r /\ s[j].rule = r /\ s[i].date = s[j].date => i = j

(* Nothing is charged by no movement. *)
LEMMA DatesOfNothing == ASSUME NEW r PROVE DatesOf(<<>>, r) = {} /\ OnceIn(<<>>, r)
<1>1. DOMAIN <<>> = {}
  BY EmptySeq
<1> QED BY <1>1 DEF DatesOf, OnceIn

(* The dates of two lists are those of both, and none comes twice when they share none. *)
LEMMA DatesJoined ==
    ASSUME NEW S, NEW s \in Seq(S), NEW t \in Seq(S), NEW r
    PROVE  /\ DatesOf(s \o t, r) = DatesOf(s, r) \cup DatesOf(t, r)
           /\ OnceIn(s, r) /\ OnceIn(t, r) /\ DatesOf(s, r) \cap DatesOf(t, r) = {}
              => OnceIn(s \o t, r)
<1>. DEFINE m == Len(s)
            n == Len(t)
            u == s \o t
<1>1. /\ m \in Nat /\ n \in Nat /\ DOMAIN s = 1 .. m /\ DOMAIN t = 1 .. n
      /\ DOMAIN u = 1 .. m + n
      /\ \A i \in 1 .. m + n : u[i] = IF i <= m THEN s[i] ELSE t[i - m]
  <2>1. /\ u \in Seq(S) /\ Len(u) = m + n
        /\ \A i \in 1 .. m + n : u[i] = IF i <= m THEN s[i] ELSE t[i - m]
    BY ConcatProperties
  <2> QED BY <2>1, LenProperties
<1>. HIDE DEF m, n, u
<1>2. /\ \A i \in 1 .. m : i \in 1 .. m + n /\ u[i] = s[i]
      /\ \A i \in 1 .. n : i + m \in 1 .. m + n /\ u[i + m] = t[i]
      /\ \A i \in 1 .. m + n : i \in 1 .. m \/ (i - m \in 1 .. n /\ u[i] = t[i - m])
  <2>1. \A i \in 1 .. m : i \in 1 .. m + n /\ i <= m
    BY <1>1
  <2>2. \A i \in 1 .. n : i + m \in 1 .. m + n /\ ~(i + m <= m) /\ (i + m) - m = i
    BY <1>1
  <2>3. \A i \in 1 .. m + n : i \in 1 .. m \/ (i - m \in 1 .. n /\ ~(i <= m))
    BY <1>1
  <2> QED BY <1>1, <2>1, <2>2, <2>3
<1>3. DatesOf(u, r) \subseteq DatesOf(s, r) \cup DatesOf(t, r)
  <2>. SUFFICES ASSUME NEW d \in DatesOf(u, r) PROVE d \in DatesOf(s, r) \cup DatesOf(t, r)
    OBVIOUS
  <2>1. PICK i \in 1 .. m + n : u[i].rule = r /\ d = u[i].date
    BY <1>1 DEF DatesOf
  <2>2. CASE i \in 1 .. m
    BY <1>1, <1>2, <2>1, <2>2 DEF DatesOf
  <2>3. CASE i \notin 1 .. m
    <3>1. i - m \in 1 .. n /\ u[i] = t[i - m]
      BY <1>2, <2>3
    <3> QED BY <1>1, <2>1, <3>1 DEF DatesOf
  <2> QED BY <2>2, <2>3
<1>4. DatesOf(s, r) \subseteq DatesOf(u, r)
  BY <1>1, <1>2 DEF DatesOf
<1>5. DatesOf(t, r) \subseteq DatesOf(u, r)
  <2>. SUFFICES ASSUME NEW d \in DatesOf(t, r) PROVE d \in DatesOf(u, r)
    OBVIOUS
  <2>1. PICK i \in 1 .. n : t[i].rule = r /\ d = t[i].date
    BY <1>1 DEF DatesOf
  <2>2. i + m \in DOMAIN u /\ u[i + m].rule = r /\ u[i + m].date = d
    BY <1>1, <1>2, <2>1
  <2> QED BY <2>2 DEF DatesOf
<1>6. ASSUME OnceIn(s, r), OnceIn(t, r), DatesOf(s, r) \cap DatesOf(t, r) = {},
             NEW i \in 1 .. m + n, NEW j \in 1 .. m + n,
             u[i].rule = r, u[j].rule = r, u[i].date = u[j].date
      PROVE  i = j
  <2>1. \A k \in 1 .. m : s[k].rule = r => s[k].date \in DatesOf(s, r)
    BY <1>1 DEF DatesOf
  <2>2. \A k \in 1 .. n : t[k].rule = r => t[k].date \in DatesOf(t, r)
    BY <1>1 DEF DatesOf
  <2>3. CASE i \in 1 .. m /\ j \in 1 .. m
    BY <1>1, <1>2, <1>6, <2>3 DEF OnceIn
  <2>4. CASE i \notin 1 .. m /\ j \notin 1 .. m
    <3>1. i - m \in 1 .. n /\ j - m \in 1 .. n /\ u[i] = t[i - m] /\ u[j] = t[j - m]
      BY <1>2, <2>4
    <3>2. i - m = j - m
      BY <1>1, <1>6, <3>1 DEF OnceIn
    <3> QED BY <1>1, <3>2
  <2>5. CASE i \in 1 .. m /\ j \notin 1 .. m
    <3>1. j - m \in 1 .. n /\ u[i] = s[i] /\ u[j] = t[j - m]
      BY <1>2, <2>5
    <3> QED BY <1>6, <2>1, <2>2, <2>5, <3>1
  <2>6. CASE i \notin 1 .. m /\ j \in 1 .. m
    <3>1. i - m \in 1 .. n /\ u[j] = s[j] /\ u[i] = t[i - m]
      BY <1>2, <2>6
    <3> QED BY <1>6, <2>1, <2>2, <2>6, <3>1
  <2> QED BY <2>3, <2>4, <2>5, <2>6
<1>7. OnceIn(s, r) /\ OnceIn(t, r) /\ DatesOf(s, r) \cap DatesOf(t, r) = {} => OnceIn(u, r)
  BY <1>1, <1>6 DEF OnceIn
<1> QED BY <1>3, <1>4, <1>5, <1>7 DEF u

(* The dates of a list of one movement. *)
LEMMA DatesOfOne ==
    ASSUME NEW e, NEW r
    PROVE  DatesOf(<<e>>, r) = (IF e.rule = r THEN {e.date} ELSE {}) /\ OnceIn(<<e>>, r)
<1>1. DOMAIN <<e>> = {1} /\ <<e>>[1] = e
  OBVIOUS
<1> QED BY <1>1 DEF DatesOf, OnceIn

(* What is charged once with one movement more was charged once without it. *)
LEMMA OnceBefore ==
    ASSUME NEW S, NEW s \in Seq(S), NEW e \in S, NEW r
    PROVE  /\ DatesOf(Append(s, e), r) = DatesOf(s, r) \cup (IF e.rule = r THEN {e.date} ELSE {})
           /\ OnceIn(Append(s, e), r)
              <=> OnceIn(s, r) /\ (e.rule = r => e.date \notin DatesOf(s, r))
<1>. DEFINE n == Len(s)
            t == Append(s, e)
<1>1. /\ n \in Nat /\ DOMAIN s = 1 .. n /\ t[n + 1] = e /\ \A i \in 1 .. n : t[i] = s[i]
      /\ DOMAIN t = 1 .. n + 1
  <2>1. t \in Seq(S) /\ Len(t) = n + 1 /\ t[n + 1] = e /\ \A i \in 1 .. n : t[i] = s[i]
    BY AppendProperties
  <2> QED BY <2>1, LenProperties
<1>2. t = s \o <<e>> /\ <<e>> \in Seq(S)
  BY AppendIsConcat, Single
<1>3. DatesOf(<<e>>, r) = (IF e.rule = r THEN {e.date} ELSE {}) /\ OnceIn(<<e>>, r)
  BY DatesOfOne
<1>4. /\ DatesOf(t, r) = DatesOf(s, r) \cup DatesOf(<<e>>, r)
      /\ OnceIn(s, r) /\ DatesOf(s, r) \cap DatesOf(<<e>>, r) = {} => OnceIn(t, r)
  <2>. DEFINE o == <<e>>
  <2>1. o \in Seq(S) /\ t = s \o o /\ OnceIn(o, r)
    BY <1>2, <1>3
  <2>. HIDE DEF o, t
  <2>2. /\ DatesOf(s \o o, r) = DatesOf(s, r) \cup DatesOf(o, r)
        /\ OnceIn(s, r) /\ OnceIn(o, r) /\ DatesOf(s, r) \cap DatesOf(o, r) = {}
           => OnceIn(s \o o, r)
    BY <2>1, DatesJoined
  <2> QED BY <2>1, <2>2 DEF o
<1>. HIDE DEF n, t
<1>5. ASSUME OnceIn(t, r) PROVE OnceIn(s, r) /\ (e.rule = r => e.date \notin DatesOf(s, r))
  <2>0. \A i \in 1 .. n : i \in 1 .. n + 1 /\ i # n + 1
    BY <1>1
  <2>1. OnceIn(s, r)
    BY <1>1, <1>5, <2>0 DEF OnceIn
  <2>2. ASSUME e.rule = r, e.date \in DatesOf(s, r) PROVE FALSE
    <3>1. PICK i \in 1 .. n : s[i].rule = r /\ e.date = s[i].date
      BY <1>1, <2>2 DEF DatesOf
    <3>2. n + 1 \in 1 .. n + 1
      BY <1>1
    <3> QED BY <1>1, <1>5, <2>0, <2>2, <3>1, <3>2 DEF OnceIn
  <2> QED BY <2>1, <2>2
<1> QED BY <1>3, <1>4, <1>5 DEF t

(* Taking instalments away leaves the charges of the rules. *)
LEMMA DatesWithout ==
    ASSUME NEW p \in Purchases, NEW r \in Rules, NEW s \in Seq(Movements)
    PROVE  /\ DatesOf(Without(s, p), r) = DatesOf(s, r)
           /\ OnceIn(s, r) => OnceIn(Without(s, p), r)
<1>. DEFINE Same(u) == /\ DatesOf(Without(u, p), r) = DatesOf(u, r)
                       /\ OnceIn(u, r) => OnceIn(Without(u, p), r)
            C == {u \in Seq(Movements) : ~Same(u)}
<1>0. p # None /\ r # None
  BY SchedulesConstants
<1>1. <<>> \notin C
  BY MadeForNothing
<1>2. C = {}
  <2>. SUFFICES ASSUME C # {} PROVE FALSE
    OBVIOUS
  <2>1. PICK u \in Seq(Movements), e \in Movements : u \notin C /\ Append(u, e) \in C
    BY <1>1, ShortestList
  <2>. DEFINE w == Without(u, p)
  <2>2. Same(u) /\ ~Same(Append(u, e))
    BY <2>1
  <2>3. w \in Seq(Movements)
    BY EffectOfInstalments
  <2>4. Without(Append(u, e), p) = IF e.purchase = p THEN w ELSE Append(w, e)
    BY MadeForAppend
  <2>5. e.purchase = p => e.rule # r
    BY <1>0 DEF Movements
  <2>. HIDE DEF w
  <2>6. /\ DatesOf(Append(u, e), r) = DatesOf(u, r) \cup (IF e.rule = r THEN {e.date} ELSE {})
        /\ OnceIn(Append(u, e), r) <=> OnceIn(u, r) /\ (e.rule = r => e.date \notin DatesOf(u, r))
    BY OnceBefore
  <2>7. /\ DatesOf(Append(w, e), r) = DatesOf(w, r) \cup (IF e.rule = r THEN {e.date} ELSE {})
        /\ OnceIn(Append(w, e), r) <=> OnceIn(w, r) /\ (e.rule = r => e.date \notin DatesOf(w, r))
    BY <2>3, OnceBefore
  <2>8. DatesOf(w, r) = DatesOf(u, r) /\ (OnceIn(u, r) => OnceIn(w, r))
    BY <2>2 DEF w
  <2>9. CASE e.purchase = p
    <3>1. Without(Append(u, e), p) = w
      BY <2>4, <2>9
    <3>2. DatesOf(Append(u, e), r) = DatesOf(u, r) /\ (OnceIn(Append(u, e), r) => OnceIn(u, r))
      BY <2>5, <2>6, <2>9
    <3> QED BY <2>2, <2>8, <3>1, <3>2
  <2>10. CASE e.purchase # p
    <3>1. Without(Append(u, e), p) = Append(w, e)
      BY <2>4, <2>10
    <3> QED BY <2>2, <2>6, <2>7, <2>8, <3>1
  <2> QED BY <2>9, <2>10
<1>3. s \notin C
  BY <1>2
<1> QED BY <1>3

(* When one list at most charges a rule, the lists joined charge what it charges. *)
LEMMA DatesFlattened ==
    ASSUME NEW S, NEW ss \in Seq(Seq(S)), NEW r,
           \A i \in 1 .. Len(ss) : OnceIn(ss[i], r),
           \A i, j \in 1 .. Len(ss) :
               i # j => DatesOf(ss[i], r) = {} \/ DatesOf(ss[j], r) = {}
    PROVE  /\ OnceIn(FlattenSeq(ss), r)
           /\ DatesOf(FlattenSeq(ss), r) = UNION {DatesOf(ss[i], r) : i \in 1 .. Len(ss)}
<1>. DEFINE Single_(tt) == /\ \A i \in 1 .. Len(tt) : OnceIn(tt[i], r)
                           /\ \A i, j \in 1 .. Len(tt) :
                                  i # j => DatesOf(tt[i], r) = {} \/ DatesOf(tt[j], r) = {}
            All(tt) == UNION {DatesOf(tt[i], r) : i \in 1 .. Len(tt)}
            Kept(tt) == OnceIn(FlattenSeq(tt), r) /\ DatesOf(FlattenSeq(tt), r) = All(tt)
            C == {tt \in Seq(Seq(S)) : ~(Single_(tt) => Kept(tt))}
<1>1. <<>> \notin C
  <2>1. FlattenSeq(<<>>) = <<>> /\ Len(<<>>) = 0
    BY FlattenNothing, EmptySeq
  <2>2. OnceIn(<<>>, r) /\ DatesOf(<<>>, r) = {}
    BY DatesOfNothing
  <2> QED BY <2>1, <2>2
<1>2. C = {}
  <2>. SUFFICES ASSUME C # {} PROVE FALSE
    OBVIOUS
  <2>1. PICK tt \in Seq(Seq(S)), s \in Seq(S) : tt \notin C /\ Append(tt, s) \in C
    BY <1>1, ShortestList
  <2>. DEFINE n == Len(tt)
              uu == Append(tt, s)
              f == FlattenSeq(tt)
  <2>2. (Single_(tt) => Kept(tt)) /\ Single_(uu) /\ ~Kept(uu)
    BY <2>1
  <2>3. n \in Nat /\ Len(uu) = n + 1 /\ uu[n + 1] = s /\ \A i \in 1 .. n : uu[i] = tt[i]
    BY AppendProperties, LenProperties
  <2>4. FlattenSeq(uu) = f \o s /\ f \in Seq(S)
    BY FlattenAppend, FlattenType
  <2>. HIDE DEF n, uu, f
  <2>5. \A i \in 1 .. n : i \in 1 .. n + 1 /\ i # n + 1
    BY <2>3
  <2>6. n + 1 \in 1 .. n + 1 /\ \A i \in 1 .. n + 1 : i \in 1 .. n \/ i = n + 1
    BY <2>3
  <2>7. /\ \A i \in 1 .. n : OnceIn(tt[i], r)
        /\ \A i, j \in 1 .. n : i # j => DatesOf(tt[i], r) = {} \/ DatesOf(tt[j], r) = {}
        /\ OnceIn(s, r)
        /\ \A i \in 1 .. n : DatesOf(tt[i], r) = {} \/ DatesOf(s, r) = {}
    <3>1. /\ \A i \in 1 .. n + 1 : OnceIn(uu[i], r)
          /\ \A i, j \in 1 .. n + 1 :
                 i # j => DatesOf(uu[i], r) = {} \/ DatesOf(uu[j], r) = {}
      BY <2>2, <2>3
    <3>2. \A i \in 1 .. n : OnceIn(tt[i], r) /\ (DatesOf(tt[i], r) = {} \/ DatesOf(s, r) = {})
      BY <2>3, <2>5, <2>6, <3>1
    <3>3. \A i, j \in 1 .. n : i # j => DatesOf(tt[i], r) = {} \/ DatesOf(tt[j], r) = {}
      BY <2>3, <2>5, <3>1
    <3>4. OnceIn(s, r)
      BY <2>3, <2>6, <3>1
    <3> QED BY <3>2, <3>3, <3>4
  <2>8. OnceIn(f, r) /\ DatesOf(f, r) = All(tt)
    BY <2>2, <2>7 DEF n, f
  <2>9. All(uu) = All(tt) \cup DatesOf(s, r)
    <3>1. Len(uu) = n + 1 /\ Len(tt) = n
      BY <2>3 DEF n
    <3>2. \A i \in 1 .. n + 1 : (uu[i] = tt[i] /\ i \in 1 .. n) \/ uu[i] = s
      BY <2>3, <2>6
    <3>3. \A d : d \in All(uu) <=> \E i \in 1 .. n + 1 : d \in DatesOf(uu[i], r)
      BY <3>1
    <3>4. \A d : d \in All(tt) <=> \E i \in 1 .. n : d \in DatesOf(tt[i], r)
      BY <3>1
    <3>5. \A d \in All(uu) : d \in All(tt) \/ d \in DatesOf(s, r)
      BY <3>2, <3>3, <3>4
    <3>6. \A d \in All(tt) : d \in All(uu)
      BY <2>3, <2>5, <3>3, <3>4
    <3>7. \A d \in DatesOf(s, r) : d \in All(uu)
      BY <2>3, <2>6, <3>3
    <3>. HIDE DEF All
    <3> QED BY <3>5, <3>6, <3>7
  <2>10. DatesOf(f, r) \cap DatesOf(s, r) = {}
    <3>1. CASE DatesOf(s, r) = {}
      BY <3>1
    <3>2. CASE DatesOf(s, r) # {}
      <4>1. \A i \in 1 .. n : DatesOf(tt[i], r) = {}
        BY <2>7, <3>2
      <4>2. \A d \in All(tt) : \E i \in 1 .. n : d \in DatesOf(tt[i], r)
        BY Zenon DEF n
      <4>. HIDE DEF All
      <4>3. All(tt) = {}
        BY <4>1, <4>2
      <4> QED BY <2>8, <4>3
    <3> QED BY <3>1, <3>2
  <2>11. /\ DatesOf(f \o s, r) = DatesOf(f, r) \cup DatesOf(s, r)
         /\ OnceIn(f \o s, r)
    BY <2>4, <2>7, <2>8, <2>10, DatesJoined
  <2> QED BY <2>2, <2>4, <2>8, <2>9, <2>11
<1>3. ss \notin C /\ Single_(ss)
  BY <1>2
<1> QED BY <1>3

(* The elements of a finite set in some order, each once. *)
LEMMA Ordered ==
    ASSUME NEW S, IsFiniteSet(S)
    PROVE  LET f == SetToSeq(S)
           IN  /\ Cardinality(S) \in Nat /\ f \in [1 .. Cardinality(S) -> S]
               /\ \A i, j \in 1 .. Cardinality(S) : f[i] = f[j] => i = j
               /\ \A x \in S : \E i \in 1 .. Cardinality(S) : f[i] = x
<1>. DEFINE n == Cardinality(S)
            f == SetToSeq(S)
<1>1. n \in Nat /\ ExistsBijection(1 .. n, S)
  BY FS_CardinalityType
<1>. HIDE DEF n
<1>2. \E g \in [1 .. n -> S] : IsInjective(g)
  BY <1>1 DEF ExistsBijection, Bijection, Injection
<1>3. f \in [1 .. n -> S] /\ IsInjective(f)
  BY <1>2 DEF SetToSeq, n
<1>. HIDE DEF f
<1>4. f \in Injection(1 .. n, S)
  BY <1>3 DEF Injection
<1>5. IsFiniteSet(1 .. n) /\ Cardinality(1 .. n) = n
  BY <1>1, FS_Interval
<1>6. f \in Surjection(1 .. n, S)
  BY <1>4, <1>5, FS_Injection DEF n
<1> QED BY <1>1, <1>3, <1>6 DEF IsInjective, Surjection, n, f

-----------------------------------------------------------------------------
(* A rule and what it was charged *)

(* Movements of no purchase. *)
Plain == {m \in Movements : m.purchase = None}

(* The dates a rule is charged on when it catches up. *)
ChargesOf(rule) == {DueDate(rule, n) : n \in 0 .. DueCount(rule) - 1}

(* The dates charged lie before the next one; those since the schedule was aligned are its own. *)
Covers(rule, dates) ==
    LET At(n) == Occurrence(rule.start, rule.frequency, n)
    IN  /\ InStep(rule)
        /\ \A d \in dates : d < rule.next
        /\ {d \in dates : d >= At(rule.since)} = {At(n) : n \in rule.since .. rule.occurrences - 1}

(* The dates charged are past; a rule not made yet has none. *)
RowKept(row, dates, today) ==
    /\ dates \subseteq Dates /\ \A d \in dates : d <= today
    /\ row = Fresh => dates = {}
    /\ Exists(row) => Covers(row, dates)

(* Rows of rules are neither of the marks for no row. *)
LEMMA RowsExist ==
    /\ \A row \in RuleRows : Exists(row) /\ row # Fresh
    /\ \A in \in PurchaseInputs : Exists(in)
    /\ ~Exists(Fresh) /\ ~Exists(Deleted) /\ Fresh # Deleted
  BY SchedulesConstants DEF Exists

(* Catching up makes one movement for each date that is due, and no other. *)
LEMMA MaterializedIs ==
    ASSUME YearAhead(utc), NEW r \in Rules, NEW rule, InStep(rule), rule.next <= utc
    PROVE  /\ Materialized(r, rule) \in Seq(Plain)
           /\ DatesOf(Materialized(r, rule), r) = ChargesOf(rule)
           /\ \A q \in Rules : /\ OnceIn(Materialized(r, rule), q)
                               /\ q # r => DatesOf(Materialized(r, rule), q) = {}
<1>. DEFINE k == DueCount(rule)
            ms == Materialized(r, rule)
            At(n) == Occurrence(rule.start, rule.frequency, rule.occurrences + n)
<1>1. /\ k \in Nat
      /\ \A n \in 0 .. k : /\ DueDate(rule, n) = At(n)
                           /\ MonthAt(rule.start, rule.frequency, rule.occurrences + n) \in Months
  BY DueIs
<1>2. /\ rule.start \in Dates /\ rule.frequency \in Frequencies /\ rule.occurrences \in Nat
      /\ rule.account \in Accounts /\ rule.amount \in Nat \ {0} /\ rule.category \in Categories
  BY DEF InStep, RuleRows
<1>. HIDE DEF k
<1>3. \A n \in 0 .. k : At(n) \in Dates
  <2>. TAKE n \in 0 .. k
  <2>1. rule.occurrences + n \in Nat
    BY <1>1, <1>2
  <2> QED BY <1>1, <1>2, <2>1, OccurrenceIs
<1>4. \A n, j \in 0 .. k : n < j => At(n) < At(j)
  <2>. TAKE n, j \in 0 .. k
  <2>. SUFFICES ASSUME n < j PROVE At(n) < At(j)
    OBVIOUS
  <2>1. /\ rule.occurrences + n \in Nat /\ rule.occurrences + j \in Nat
        /\ rule.occurrences + n < rule.occurrences + j
    BY <1>1, <1>2
  <2> QED BY <1>1, <1>2, <2>1, OccurrencesInOrder
<1>. DEFINE Charge(n) ==
                [type |-> "expense", account |-> rule.account, dest |-> None,
                 amount |-> rule.amount, date |-> DueDate(rule, n - 1), affects |-> TRUE,
                 linked |-> FALSE, category |-> rule.category, rule |-> r, purchase |-> None]
<1>5. ms = [n \in 1 .. k |-> Charge(n)]
  BY DEF Materialized, k
<1>6. \A n \in 1 .. k : n - 1 \in 0 .. k /\ DueDate(rule, n - 1) = At(n - 1) /\ At(n - 1) \in Dates
  BY <1>1, <1>3
<1>7. \A n \in 1 .. k : Charge(n) \in Plain
  <2>. TAKE n \in 1 .. k
  <2>1. DueDate(rule, n - 1) \in Dates
    BY <1>6
  <2>. DEFINE c == Charge(n)
  <2>2. c \in [type : {"expense", "income", "transfer"}, account : Accounts,
            dest : Accounts \cup {None}, amount : Nat \ {0}, date : Dates,
            affects : BOOLEAN, linked : BOOLEAN, category : Categories,
            rule : Rules \cup {None}, purchase : Purchases \cup {None}]
    BY <1>2, <2>1
  <2>3. c.purchase = None /\ c.type # "transfer" /\ c.dest = None /\ c.linked = FALSE
    OBVIOUS
  <2>. HIDE DEF c
  <2>4. c \in Plain
    BY <2>2, <2>3 DEF Plain, Movements
  <2> QED BY <2>4 DEF c
<1>8. \A n \in 1 .. k : Charge(n).rule = r /\ Charge(n).date = At(n - 1)
  BY <1>6
<1>. HIDE DEF Charge, ms, At
<1>9. ms \in Seq(Plain) /\ DOMAIN ms = 1 .. k
  <2>1. ms \in [1 .. k -> Plain]
    BY <1>5, <1>7
  <2> QED BY <1>1, <2>1, SeqDef
<1>10. \A n \in 1 .. k : ms[n].rule = r /\ ms[n].date = At(n - 1)
  BY <1>5, <1>8
<1>11. DatesOf(ms, r) = {At(n - 1) : n \in 1 .. k}
  BY <1>9, <1>10 DEF DatesOf
<1>12. ChargesOf(rule) = {At(n) : n \in 0 .. k - 1}
  <2>1. \A n \in 0 .. k - 1 : DueDate(rule, n) = At(n)
    BY <1>1 DEF At
  <2> QED BY <2>1 DEF ChargesOf, k
<1>13. {At(n - 1) : n \in 1 .. k} = {At(n) : n \in 0 .. k - 1}
  <2>1. \A n \in 1 .. k : n - 1 \in 0 .. k - 1
    BY <1>1
  <2>2. \A n \in 0 .. k - 1 : n + 1 \in 1 .. k /\ (n + 1) - 1 = n
    BY <1>1
  <2> QED BY <2>1, <2>2
<1>14. ASSUME NEW q \in Rules, q # r PROVE DatesOf(ms, q) = {} /\ OnceIn(ms, q)
  BY <1>9, <1>10, <1>14 DEF DatesOf, OnceIn
<1>15. OnceIn(ms, r)
  <2>. SUFFICES ASSUME NEW i \in 1 .. k, NEW j \in 1 .. k, ms[i].date = ms[j].date PROVE i = j
    BY <1>9 DEF OnceIn
  <2>1. /\ i - 1 \in 0 .. k /\ j - 1 \in 0 .. k /\ At(i - 1) = At(j - 1)
        /\ At(i - 1) \in Dates /\ At(j - 1) \in Dates
    BY <1>6, <1>10
  <2>2. ~(i - 1 < j - 1) /\ ~(j - 1 < i - 1)
    BY <1>4, <2>1, DatesHaveMonths DEF At
  <2> QED BY <1>1, <2>1, <2>2
<1> QED BY <1>9, <1>11, <1>12, <1>13, <1>14, <1>15 DEF ms

(* A rule that catches up charges dates it never charged, and all of them are past. *)
LEMMA AdvancedIs ==
    ASSUME YearAhead(utc), NEW rule, Exists(rule), NEW dates, RowKept(rule, dates, utc),
           rule.next <= utc
    PROVE  /\ RowKept(Advanced(rule), dates \cup ChargesOf(rule), utc)
           /\ Advanced(rule) \in RuleRows
           /\ dates \cap ChargesOf(rule) = {}
<1>. DEFINE k == DueCount(rule)
            o == rule.occurrences
            since == rule.since
            At(n) == Occurrence(rule.start, rule.frequency, n)
            new == Advanced(rule)
<1>0. Covers(rule, dates) /\ InStep(rule)
  BY DEF RowKept, Covers
<1>1. /\ k \in Nat
      /\ \A n \in 0 .. k : /\ DueDate(rule, n) = At(o + n)
                           /\ MonthAt(rule.start, rule.frequency, o + n) \in Months
      /\ \A n \in 0 .. k - 1 : At(o + n) <= utc
      /\ utc < At(o + k)
  BY <1>0, DueIs
<1>2. /\ rule \in RuleRows /\ rule.start \in Dates /\ rule.frequency \in Frequencies
      /\ o \in Nat /\ since \in Nat /\ since <= o /\ rule.next = At(o)
  BY <1>0 DEF InStep, RuleRows
<1>3. new = [rule EXCEPT !.occurrences = o + k, !.next = DueDate(rule, k)]
  BY DEF Advanced
<1>4. DueDate(rule, k) = At(o + k)
  BY <1>1
<1>. HIDE DEF k, At, new
<1>5. /\ new.start = rule.start /\ new.frequency = rule.frequency /\ new.since = since
      /\ new.occurrences = o + k /\ new.next = At(o + k)
  BY <1>2, <1>3, <1>4 DEF RuleRows
<1>6. \A n \in 0 .. o + k : MonthAt(rule.start, rule.frequency, n) \in Months /\ At(n) \in Dates
  <2>. TAKE n \in 0 .. o + k
  <2>0. o + k \in Nat /\ n \in Nat /\ n <= o + k /\ MonthAt(rule.start, rule.frequency, o + k) \in Months
    BY <1>1, <1>2
  <2>1. MonthAt(rule.start, rule.frequency, n) \in Months
    <3>1. CASE n = o + k
      BY <2>0, <3>1
    <3>2. CASE n # o + k
      <4>1. n < o + k
        BY <2>0, <3>2
      <4> QED BY <1>2, <2>0, <4>1, OccurrencesInOrder
    <3> QED BY <3>1, <3>2
  <2> QED BY <1>2, <2>0, <2>1, OccurrenceIs DEF At
<1>7. \A m, n \in 0 .. o + k : m < n => At(m) < At(n)
  <2>. TAKE m, n \in 0 .. o + k
  <2>1. m \in Nat /\ n \in Nat
    BY <1>1, <1>2
  <2> QED BY <1>2, <1>6, <2>1, OccurrencesInOrder DEF At
<1>8. new \in RuleRows
  <2>1. o + k \in Nat /\ At(o + k) \in Dates
    BY <1>1, <1>2, <1>6
  <2> QED BY <1>2, <1>3, <1>4, <2>1 DEF RuleRows
<1>9. InStep(new)
  <2>1. o + k \in 0 .. o + k /\ since <= o + k
    BY <1>1, <1>2
  <2>2. MonthAt(rule.start, rule.frequency, o + k) \in Months
    BY <1>6, <2>1
  <2> QED BY <1>5, <1>8, <2>1, <2>2 DEF InStep, At
<1>10. ChargesOf(rule) = {At(n) : n \in o .. o + k - 1}
  <2>1. \A n \in 0 .. k - 1 : DueDate(rule, n) = At(o + n) /\ o + n \in o .. o + k - 1
    BY <1>1, <1>2 DEF At
  <2>2. \A n \in o .. o + k - 1 : n - o \in 0 .. k - 1 /\ o + (n - o) = n
    BY <1>1, <1>2
  <2>3. ChargesOf(rule) = {DueDate(rule, n) : n \in 0 .. k - 1}
    BY DEF ChargesOf, k
  <2> QED BY <2>1, <2>2, <2>3
<1>11. \A d \in ChargesOf(rule) : d \in Dates /\ d <= utc /\ At(o) <= d /\ At(since) <= d
  <2>. TAKE d \in ChargesOf(rule)
  <2>1. PICK n \in o .. o + k - 1 : d = At(n)
    BY <1>10
  <2>2. /\ n \in 0 .. o + k /\ o \in 0 .. o + k /\ since \in 0 .. o + k
        /\ n - o \in 0 .. k - 1 /\ o + (n - o) = n
    BY <1>1, <1>2, <2>1
  <2>3. At(n) \in Dates /\ At(o) \in Dates /\ At(since) \in Dates
    BY <1>6, <2>2
  <2>4. At(n) <= utc
    BY <1>1, <2>2 DEF At
  <2>5. (n = o \/ o < n) /\ (n = since \/ since < n)
    BY <1>2, <2>1, <2>2
  <2>6. At(n) \in Nat /\ At(o) \in Nat /\ At(since) \in Nat
    BY <2>3, DatesHaveMonths
  <2>7. (o < n => At(o) < At(n)) /\ (since < n => At(since) < At(n))
    BY <1>7, <2>2
  <2> QED BY <2>1, <2>3, <2>4, <2>5, <2>6, <2>7
<1>12. \A d \in dates : d \in Dates /\ d \in Nat /\ d <= utc /\ d < At(o)
  BY <1>0, <1>2, DatesHaveMonths DEF RowKept, Covers
<1>13. dates \cap ChargesOf(rule) = {}
  <2>. SUFFICES ASSUME NEW d \in dates, d \in ChargesOf(rule) PROVE FALSE
    OBVIOUS
  <2>1. At(o) \in Nat
    BY <1>1, <1>2, <1>6, DatesHaveMonths
  <2> QED BY <1>11, <1>12, <2>1
<1>14. {d \in dates : d >= At(since)} = {At(n) : n \in since .. o - 1}
  BY <1>0 DEF Covers, At
<1>15. {d \in dates \cup ChargesOf(rule) : d >= At(since)} = {At(n) : n \in since .. o + k - 1}
  <2>1. {d \in ChargesOf(rule) : d >= At(since)} = ChargesOf(rule)
    <3>1. \A d \in ChargesOf(rule) : d >= At(since)
      BY <1>11, <1>1, <1>2, <1>6, DatesHaveMonths
    <3> QED BY <3>1
  <2>2. since .. o + k - 1 = (since .. o - 1) \cup (o .. o + k - 1)
    BY <1>1, <1>2
  <2>3. {d \in dates \cup ChargesOf(rule) : d >= At(since)}
        = {d \in dates : d >= At(since)} \cup {d \in ChargesOf(rule) : d >= At(since)}
    OBVIOUS
  <2>4. {At(n) : n \in since .. o + k - 1}
        = {At(n) : n \in since .. o - 1} \cup {At(n) : n \in o .. o + k - 1}
    BY <2>2
  <2> QED BY <1>10, <1>14, <2>1, <2>3, <2>4
<1>16. \A d \in dates \cup ChargesOf(rule) : d \in Dates /\ d <= utc /\ d < At(o + k)
  <2>1. utc \in Nat /\ At(o + k) \in Nat
    BY <1>1, <1>2, <1>6, DatesHaveMonths DEF YearAhead
  <2>2. utc < At(o + k)
    BY <1>1 DEF At
  <2> QED BY <1>11, <1>12, <2>1, <2>2, DatesHaveMonths
<1>17. Covers(new, dates \cup ChargesOf(rule))
  <2>. DEFINE Bt(n) == Occurrence(new.start, new.frequency, n)
              all == dates \cup ChargesOf(rule)
              From(i) == {d \in all : d >= At(i)}
              Own(i, j) == {At(n) : n \in i .. j - 1}
  <2>1. \A n : Bt(n) = At(n)
    BY <1>5 DEF At
  <2>2. \A d \in all : d < new.next
    BY <1>5, <1>16
  <2>4. From(since) = Own(since, o + k)
    <3>1. (o + k) - 1 = o + k - 1
      BY <1>1, <1>2
    <3> QED BY <1>15, <3>1
  <2>5. From(new.since) = Own(new.since, new.occurrences)
    <3>. HIDE DEF From, Own
    <3> QED BY <1>5, <2>4
  <2>. HIDE DEF Bt, all
  <2>3. {d \in all : d >= Bt(new.since)} = {Bt(n) : n \in new.since .. new.occurrences - 1}
    BY <2>1, <2>5
  <2> QED BY <1>9, <2>2, <2>3 DEF Covers, Bt, all
<1>18. new # Fresh
  BY <1>8, RowsExist
<1> QED BY <1>8, <1>13, <1>16, <1>17, <1>18 DEF RowKept, new

(* An aligned row starts afresh after all that was charged. *)
LEMMA RealignedIs ==
    ASSUME YearAhead(utc), NEW row \in RuleRows, NEW dates, dates \subseteq Dates,
           \A d \in dates : d <= utc,
           row.occurrences = Aligned(row.start, row.frequency, utc),
           row.since = row.occurrences,
           row.next = Occurrence(row.start, row.frequency, row.occurrences)
    PROVE  RowKept(row, dates, utc)
<1>. DEFINE o == row.occurrences
            At(n) == Occurrence(row.start, row.frequency, n)
<1>1. row.start \in Dates /\ row.frequency \in Frequencies /\ row.next \in Dates /\ o \in Nat
  BY DEF RuleRows
<1>2. MonthAt(row.start, row.frequency, o) \in Months /\ utc < At(o)
  BY <1>1, AlignedIs
<1>3. InStep(row)
  BY <1>1, <1>2 DEF InStep
<1>4. \A d \in dates : d < row.next
  BY <1>1, <1>2, DatesHaveMonths DEF YearAhead
<1>5. {d \in dates : d >= At(o)} = {}
  BY <1>1, <1>4, DatesHaveMonths
<1>6. {At(n) : n \in o .. o - 1} = {}
  BY <1>1
<1>7. Covers(row, dates)
  BY <1>3, <1>4, <1>5, <1>6 DEF Covers
<1> QED BY <1>7, RowsExist DEF RowKept

(* An edit that keeps the schedule keeps what is said of it. *)
LEMMA EditedIs ==
    ASSUME NEW today, NEW old, Exists(old), NEW dates, RowKept(old, dates, today), NEW row \in RuleRows,
           row.start = old.start, row.frequency = old.frequency, row.next = old.next,
           row.occurrences = old.occurrences, row.since = old.since
    PROVE  RowKept(row, dates, today)
<1>1. Covers(old, dates)
  BY DEF RowKept
<1>2. InStep(row)
  BY <1>1 DEF Covers, InStep
<1>3. Covers(row, dates)
  BY <1>1, <1>2 DEF Covers
<1> QED BY <1>3, RowsExist DEF RowKept

-----------------------------------------------------------------------------
(* The instalments of a purchase *)

(* Equal instalments sum to their number of times one of them. *)
LEMMA TotalOfEqual ==
    ASSUME NEW q \in Int, NEW n \in Nat
    PROVE  Total([i \in 1 .. n |-> q]) = q * n
<1>. DEFINE f(k) == [i \in 1 .. k |-> q]
            C == {k \in Nat : Total(f(k)) # q * k}
<1>0. \A k \in Nat : f(k) \in Seq(Int) /\ Len(f(k)) = k
  <2>. TAKE k \in Nat
  <2>1. f(k) \in [1 .. k -> Int]
    OBVIOUS
  <2>2. f(k) \in Seq(Int)
    BY <2>1, SeqDef
  <2> QED BY <2>1, <2>2, LenProperties
<1>1. C = {}
  <2>. SUFFICES ASSUME C # {} PROVE FALSE
    OBVIOUS
  <2>1. PICK k \in C : \A j \in C : k <= j
    BY SmallestNumber
  <2>2. k \in Nat /\ Total(f(k)) # q * k
    BY <2>1
  <2>3. CASE k = 0
    <3>1. DOMAIN f(k) = {}
      BY <2>3
    <3>2. Total(f(k)) = 0
      BY <3>1, TotalEmpty
    <3> QED BY <2>2, <2>3, <3>2
  <2>4. CASE k # 0
    <3>. DEFINE j == k - 1
    <3>1. j \in Nat /\ k = j + 1 /\ ~(k <= j)
      BY <2>2, <2>4
    <3>2. Total(f(j)) = q * j
      BY <2>1, <3>1
    <3>3. f(j) \in Seq(Int) /\ Len(f(j)) = j /\ f(k) \in Seq(Int) /\ Len(f(k)) = j + 1
      BY <1>0, <2>2, <3>1
    <3>4. \A i \in 1 .. j : f(j)[i] = q
      OBVIOUS
    <3>5. \A i \in 1 .. j + 1 : f(k)[i] = q
      BY <3>1
    <3>. HIDE DEF f, j
    <3>6. /\ Append(f(j), q) \in Seq(Int) /\ Len(Append(f(j), q)) = j + 1
          /\ \A i \in 1 .. j : Append(f(j), q)[i] = f(j)[i]
          /\ Append(f(j), q)[j + 1] = q
      BY <3>3, AppendProperties
    <3>7. \A i \in 1 .. j + 1 : i \in 1 .. j \/ i = j + 1
      BY <3>1
    <3>8. \A i \in 1 .. j + 1 : f(k)[i] = Append(f(j), q)[i]
      BY <3>4, <3>5, <3>6, <3>7
    <3>9. f(k) = Append(f(j), q)
      BY <3>3, <3>6, <3>8, SeqEqual
    <3>10. Total(f(k)) = q * j + q
      BY <3>2, <3>3, <3>9, TotalAppend
    <3>11. q * j + q = q * (j + 1)
      BY <3>1
    <3> QED BY <2>2, <3>1, <3>10, <3>11
  <2> QED BY <2>3, <2>4
<1> QED BY <1>1

(* The shares of a purchase are positive and add up to it. *)
LEMMA SharesAddUp ==
    ASSUME NEW in \in PurchaseInputs
    PROVE  /\ in.count \in Nat \ {0} /\ in.total \in Nat /\ in.start \in Dates
           /\ in.account \in Accounts /\ in.category \in Categories
           /\ \A n \in 1 .. in.count : Share(in, n) \in Nat \ {0}
           /\ Total([n \in 1 .. in.count |-> Share(in, n)]) = in.total
<1>. DEFINE c == in.count
            t == in.total
            q == InstalmentAmount(in)
            last == t - q * (c - 1)
<1>1. /\ c \in Nat \ {0} /\ t \in Nat /\ t >= c /\ in.start \in Dates
      /\ in.account \in Accounts /\ in.category \in Categories
  BY SchedulesConstants
<1>2. q = t \div c
  BY DEF InstalmentAmount
<1>3. q \in Int /\ c * q <= t /\ t < c * q + c
  <2>1. t \div c \in Int /\ t % c \in 0 .. c - 1 /\ t = c * (t \div c) + (t % c)
    <3>1. t \in Int /\ c \in Nat \ {0}
      BY <1>1
    <3>. HIDE DEF t, c
    <3> QED BY <3>1, Division
  <2>. DEFINE d == t \div c
              e == t % c
  <2>. HIDE DEF d, e, c, t, q
  <2>2. d \in Int /\ e \in 0 .. c - 1 /\ t = c * d + e /\ q = d
    BY <1>2, <2>1 DEF d, e
  <2>3. c * d \in Int
    BY <1>1, <2>2
  <2> QED BY <1>1, <2>2, <2>3
<1>. HIDE DEF c, t, q
<1>4. q >= 1
  <2>. SUFFICES ASSUME q <= 0 PROVE FALSE
    BY <1>3
  <2>1. c * q <= 0
    BY <1>1, <1>3
  <2>2. c * q + c <= c
    BY <1>1, <1>3, <2>1
  <2> QED BY <1>1, <1>3, <2>2
<1>5. last \in Nat \ {0} /\ q * (c - 1) + last = t
  <2>1. q * (c - 1) = c * q - q /\ c * q \in Int
    BY <1>1, <1>3
  <2> QED BY <1>1, <1>3, <1>4, <2>1
<1>6. \A n \in 1 .. c : Share(in, n) = IF n = c THEN last ELSE q
  BY DEF Share, c, t, q
<1>. HIDE DEF last
<1>7. \A n \in 1 .. c : Share(in, n) \in Nat \ {0}
  BY <1>3, <1>4, <1>5, <1>6
<1>8. Total([n \in 1 .. c |-> Share(in, n)]) = t
  <2>. DEFINE j == c - 1
              f == [i \in 1 .. j |-> q]
              g == [n \in 1 .. c |-> Share(in, n)]
  <2>1. j \in Nat /\ c = j + 1
    BY <1>1
  <2>2. f \in [1 .. j -> Int] /\ g \in [1 .. j + 1 -> Int]
    BY <1>3, <1>7, <2>1
  <2>3. f \in Seq(Int) /\ Len(f) = j /\ g \in Seq(Int) /\ Len(g) = j + 1
    <3>1. \A k \in Nat : \A h \in [1 .. k -> Int] : h \in Seq(Int)
      BY SeqDef
    <3>2. j + 1 \in Nat
      BY <2>1
    <3>3. f \in Seq(Int) /\ g \in Seq(Int)
      BY <2>1, <2>2, <3>1, <3>2
    <3> QED BY <2>1, <2>2, <3>2, <3>3, LenProperties
  <2>4. \A i \in 1 .. j : f[i] = q /\ g[i] = q
    BY <1>6, <2>1
  <2>5. g[j + 1] = last
    BY <1>6, <2>1
  <2>6. Total(f) = q * j
    BY <1>3, <2>1, TotalOfEqual
  <2>. HIDE DEF f, g, j
  <2>7. /\ Append(f, last) \in Seq(Int) /\ Len(Append(f, last)) = j + 1
        /\ \A i \in 1 .. j : Append(f, last)[i] = f[i]
        /\ Append(f, last)[j + 1] = last
    BY <1>5, <2>3, AppendProperties
  <2>8. \A i \in 1 .. j + 1 : i \in 1 .. j \/ i = j + 1
    BY <2>1
  <2>9. \A i \in 1 .. j + 1 : g[i] = Append(f, last)[i]
    BY <2>4, <2>5, <2>7, <2>8
  <2>10. g = Append(f, last)
    BY <2>3, <2>7, <2>9, SeqEqual
  <2>11. Total(g) = q * j + last
    BY <1>5, <2>3, <2>6, <2>10, TotalAppend
  <2> QED BY <1>5, <2>11 DEF g, j
<1> QED BY <1>1, <1>7, <1>8 DEF c, t

(* Instalments: one a month, of the purchase alone, charging nothing, adding up to it. *)
LEMMA InstalmentsAre ==
    ASSUME NEW p \in Purchases, NEW in \in PurchaseInputs
    PROVE  LET ms == Instalments(p, in)
           IN  /\ ms \in Seq(Movements) /\ Len(ms) = in.count
               /\ \A i \in 1 .. Len(ms) : ms[i].purchase = p /\ ms[i].rule = None
               /\ Total([i \in DOMAIN ms |-> ms[i].amount]) = in.total
               /\ \A i \in 1 .. Len(ms) - 1 : MonthOf[ms[i + 1].date] = MonthOf[ms[i].date] + 1
<1>. DEFINE c == in.count
            ms == Instalments(p, in)
            m0 == MonthOf[in.start]
            Day(n) == Clamped(m0 + n - 1, DayOf(in.start))
            Instalment(n) ==
                [type |-> "expense", account |-> in.account, dest |-> None,
                 amount |-> Share(in, n), date |-> Day(n),
                 affects |-> FALSE, linked |-> FALSE, category |-> in.category,
                 rule |-> None, purchase |-> p]
<1>1. /\ c \in Nat \ {0} /\ in.total \in Nat /\ in.start \in Dates
      /\ in.account \in Accounts /\ in.category \in Categories
      /\ \A n \in 1 .. c : Share(in, n) \in Nat \ {0}
      /\ Total([n \in 1 .. c |-> Share(in, n)]) = in.total
  BY SharesAddUp
<1>2. m0 \in Nat /\ \A n \in 1 .. c : m0 + n - 1 \in Months
  <2>1. m0 \in Months /\ m0 + c - 1 \in Months
    BY <1>1, CalendarReaches, DatesHaveMonths
  <2>. HIDE DEF m0, c
  <2>2. m0 \in Nat /\ c \in Nat /\ m0 + c - 1 < 12 * YearCount /\ 12 * YearCount \in Nat
    BY <1>1, <2>1, MonthsAre
  <2>3. \A n \in 1 .. c : m0 + n - 1 \in Nat /\ m0 + n - 1 <= m0 + c - 1
    BY <2>2
  <2>4. \A n \in 1 .. c : m0 + n - 1 < 12 * YearCount
    BY <2>2, <2>3
  <2> QED BY <2>2, <2>3, <2>4, MonthsAre
<1>3. DayOf(in.start) \in Nat \ {0}
  BY <1>1, ClampedDate
<1>4. \A n \in 1 .. c : Day(n) \in Dates /\ MonthOf[Day(n)] = m0 + n - 1
  BY <1>2, <1>3, ClampedDay
<1>5. ms = [n \in 1 .. c |-> Instalment(n)]
  BY DEF Instalments
<1>. HIDE DEF Day, m0, c
<1>6. \A n \in 1 .. c : Instalment(n) \in Movements
  <2>. TAKE n \in 1 .. c
  <2>. DEFINE x == Instalment(n)
  <2>1. x \in [type : {"expense", "income", "transfer"}, account : Accounts,
            dest : Accounts \cup {None}, amount : Nat \ {0}, date : Dates,
            affects : BOOLEAN, linked : BOOLEAN, category : Categories,
            rule : Rules \cup {None}, purchase : Purchases \cup {None}]
    BY <1>1, <1>4 DEF c
  <2>2. /\ x.rule = None /\ x.affects = FALSE
        /\ x.type # "transfer" /\ x.dest = None /\ x.linked = FALSE
    OBVIOUS
  <2>. HIDE DEF x
  <2>3. x \in Movements
    BY <2>1, <2>2 DEF Movements
  <2> QED BY <2>3 DEF x
<1>7. \A n \in 1 .. c : /\ Instalment(n).purchase = p /\ Instalment(n).rule = None
                        /\ Instalment(n).amount = Share(in, n) /\ Instalment(n).date = Day(n)
  OBVIOUS
<1>. HIDE DEF Instalment, ms
<1>8. ms \in Seq(Movements) /\ Len(ms) = c /\ DOMAIN ms = 1 .. c
  <2>1. ms \in [1 .. c -> Movements]
    BY <1>5, <1>6
  <2>2. c \in Nat
    BY <1>1 DEF c
  <2>3. ms \in Seq(Movements)
    BY <2>1, <2>2, SeqDef
  <2> QED BY <2>1, <2>2, <2>3, LenProperties
<1>9. \A n \in 1 .. c : /\ ms[n].purchase = p /\ ms[n].rule = None
                        /\ ms[n].amount = Share(in, n) /\ ms[n].date = Day(n)
  BY <1>5, <1>7
<1>10. [i \in DOMAIN ms |-> ms[i].amount] = [n \in 1 .. c |-> Share(in, n)]
  BY <1>8, <1>9
<1>11. \A i \in 1 .. c - 1 : MonthOf[ms[i + 1].date] = MonthOf[ms[i].date] + 1
  <2>. TAKE i \in 1 .. c - 1
  <2>1. i \in 1 .. c /\ i + 1 \in 1 .. c
    BY <1>1 DEF c
  <2>2. MonthOf[ms[i].date] = m0 + i - 1 /\ MonthOf[ms[i + 1].date] = m0 + (i + 1) - 1
    BY <1>4, <1>9, <2>1
  <2>3. i \in Int /\ m0 \in Int
    BY <1>1, <1>2 DEF c
  <2> QED BY <2>2, <2>3
<1> QED BY <1>1, <1>8, <1>9, <1>10, <1>11 DEF ms, c

-----------------------------------------------------------------------------
(* The invariant *)

(* The clock runs from a start day until a last day, the browser's a day behind at most. *)
ClockInv ==
    /\ utc \in Dates /\ local \in Int /\ local \in {utc - 1, utc}
    /\ \E s \in StartDays : s <= local
    /\ \E e \in LastDays : utc <= e

RowsInv ==
    /\ moves \in Seq(Movements)
    /\ value \in [Accounts -> Int]
    /\ rules \in [Rules -> RuleRows \cup {Fresh, Deleted}]
    /\ purchases \in [Purchases -> PurchaseInputs \cup {Fresh, Deleted}]

RulesInv ==
    \A r \in Rules : OnceIn(moves, r) /\ RowKept(rules[r], DatesOf(moves, r), utc)

PurchasesInv ==
    \A p \in Purchases :
        MadeFor(moves, p) = IF Exists(purchases[p]) THEN Instalments(p, purchases[p]) ELSE <<>>

BalancesInv == \A a \in Accounts : BalanceFollows(a)

ScheduleInv == ClockInv /\ RowsInv /\ RulesInv /\ PurchasesInv /\ BalancesInv

(* While the clock runs, the calendar has a year to go. *)
LEMMA ClockAhead == ASSUME ClockInv PROVE YearAhead(utc)
<1>1. PICK e \in LastDays : utc <= e
  BY DEF ClockInv
<1>2. utc \in Dates /\ e \in Dates /\ MonthOf[e] + 12 \in Months
  BY CalendarReaches DEF ClockInv
<1>3. MonthOf[utc] <= MonthOf[e] /\ MonthOf[utc] \in Months /\ MonthOf[e] \in Months
  BY <1>1, <1>2, DatesInOrder, DatesHaveMonths
<1>4. MonthOf[utc] + 12 \in Months
  BY <1>2, <1>3, MonthsAre
<1> QED BY <1>2, <1>4 DEF YearAhead

(* A row that was kept is kept on later days. *)
LEMMA RowKeptLater ==
    ASSUME NEW row, NEW dates, NEW t \in Int, NEW u \in Int, t <= u, RowKept(row, dates, t)
    PROVE  RowKept(row, dates, u)
<1>1. \A d \in dates : d <= u
  BY DatesHaveMonths DEF RowKept
<1> QED BY <1>1 DEF RowKept

(* A kept row is a row of a rule or a mark for none. *)
LEMMA RowKeptType ==
    ASSUME NEW row, NEW dates, NEW today, RowKept(row, dates, today)
    PROVE  row \in RuleRows \cup {Fresh, Deleted}
  BY DEF RowKept, Covers, InStep, Exists

(* What is charged for a row of a purchase. *)
ChargeOf(row, a) == IF Exists(row) THEN Charged(row, a) ELSE 0

(* Charges are whole numbers. *)
LEMMA ChargeType ==
    ASSUME NEW row \in PurchaseInputs \cup {Fresh, Deleted}, NEW a
    PROVE  ChargeOf(row, a) \in Int
<1>1. CASE Exists(row)
  <2>1. row \in PurchaseInputs
    BY <1>1 DEF Exists
  <2>2. row.total \in Nat
    BY <2>1, SharesAddUp
  <2> QED BY <1>1, <2>2 DEF ChargeOf, Charged
<1>2. CASE ~Exists(row)
  BY <1>2 DEF ChargeOf
<1> QED BY <1>1, <1>2

(* A purchase that changes moves what is charged by the difference. *)
LEMMA ChargeMoved ==
    ASSUME RowsInv, NEW p \in Purchases, NEW row \in PurchaseInputs \cup {Fresh, Deleted},
           purchases' = [purchases EXCEPT ![p] = row], NEW a
    PROVE  /\ PurchasesCharged(a) \in Int
           /\ PurchasesCharged(a)' = PurchasesCharged(a) - ChargeOf(purchases[p], a) + ChargeOf(row, a)
<1>. DEFINE f == [q \in Purchases |-> ChargeOf(purchases[q], a)]
            g == [q \in Purchases |-> ChargeOf(purchases'[q], a)]
<1>1. IsFiniteSet(Purchases)
  BY SchedulesConstants
<1>2. /\ \A q \in Purchases : purchases[q] \in PurchaseInputs \cup {Fresh, Deleted}
      /\ purchases'[p] = row /\ \A q \in Purchases \ {p} : purchases'[q] = purchases[q]
  BY DEF RowsInv
<1>3. f \in [Purchases -> Int] /\ g \in [Purchases -> Int]
  BY <1>2, ChargeType
<1>4. f[p] = ChargeOf(purchases[p], a) /\ g[p] = ChargeOf(row, a)
      /\ \A q \in Purchases \ {p} : g[q] = f[q]
  BY <1>2
<1>5. PurchasesCharged(a) = Total(f) /\ PurchasesCharged(a)' = Total(g)
  BY DEF PurchasesCharged, ChargeOf
<1>. HIDE DEF f, g
<1>6. Total(f) \in Int /\ Total(g) = Total(f) - f[p] + g[p]
  BY <1>1, <1>3, <1>4, TotalType, TotalMoved
<1> QED BY <1>4, <1>5, <1>6

(* What is charged is a whole number. *)
LEMMA ChargedType == ASSUME RowsInv, NEW a PROVE PurchasesCharged(a) \in Int
<1>. DEFINE f == [q \in Purchases |-> ChargeOf(purchases[q], a)]
<1>1. IsFiniteSet(Purchases)
  BY SchedulesConstants
<1>2. f \in [Purchases -> Int]
  BY ChargeType DEF RowsInv
<1>3. PurchasesCharged(a) = Total(f)
  BY DEF PurchasesCharged, ChargeOf
<1>. HIDE DEF f
<1> QED BY <1>1, <1>2, <1>3, TotalType

(* Posting movements of no purchase moves the balances by their effects. *)
LEMMA PostKeeps ==
    ASSUME ScheduleInv, NEW ms \in Seq(Plain), Post(ms), purchases' = purchases
    PROVE  /\ moves' \in Seq(Movements) /\ value' \in [Accounts -> Int]
           /\ PurchasesInv' /\ BalancesInv'
           /\ \A r \in Rules : /\ DatesOf(moves', r) = DatesOf(moves, r) \cup DatesOf(ms, r)
                               /\ OnceIn(ms, r) /\ DatesOf(moves, r) \cap DatesOf(ms, r) = {}
                                  => OnceIn(moves', r)
<1>1. /\ moves \in Seq(Movements) /\ value \in [Accounts -> Int] /\ RowsInv
      /\ moves' = moves \o ms /\ value' = [a \in Accounts |-> value[a] + EffectOf(ms, a)]
  BY DEF ScheduleInv, RowsInv, Post
<1>2. Plain \subseteq Movements
  BY DEF Plain
<1>3. ms \in Seq(Movements)
  BY <1>2, SeqMonotonic
<1>4. moves' \in Seq(Movements)
  BY <1>1, <1>3, ConcatProperties
<1>5. \A a \in Accounts : EffectOf(ms, a) \in Int /\ EffectOf(moves, a) \in Int
                          /\ EffectOf(moves', a) = EffectOf(moves, a) + EffectOf(ms, a)
  BY <1>1, <1>3, EffectOfType, EffectOfJoined
<1>6. value' \in [Accounts -> Int]
  BY <1>1, <1>5
<1>7. ASSUME NEW p \in Purchases PROVE MadeFor(moves', p) = MadeFor(moves, p)
  <2>1. \A i \in 1 .. Len(ms) : ms[i].purchase # p
    <3>. TAKE i \in 1 .. Len(ms)
    <3>1. ms[i] \in Plain
      BY ElementOfSeq
    <3> QED BY <3>1, SchedulesConstants DEF Plain
  <2>2. MadeFor(ms, p) = <<>>
    BY <2>1, MadeForUniform
  <2>3. MadeFor(moves', p) = MadeFor(moves, p) \o <<>>
    <3>1. MadeFor(moves \o ms, p) = MadeFor(moves, p) \o MadeFor(ms, p)
      BY <1>1, <1>3, MadeForJoined
    <3>2. MadeFor(moves', p) = MadeFor(moves \o ms, p)
      BY <1>1 DEF MadeFor
    <3> QED BY <2>2, <3>1, <3>2
  <2>4. MadeFor(moves, p) \o <<>> = MadeFor(moves, p)
    <3>1. MadeFor(moves, p) = IF Exists(purchases[p]) THEN Instalments(p, purchases[p]) ELSE <<>>
      BY DEF ScheduleInv, PurchasesInv
    <3>2. Exists(purchases[p]) => purchases[p] \in PurchaseInputs
      BY <1>1 DEF RowsInv, Exists
    <3>3. CASE Exists(purchases[p])
      <4>1. Instalments(p, purchases[p]) \in Seq(Movements)
        BY <3>2, <3>3, InstalmentsAre
      <4>2. MadeFor(moves, p) \in Seq(Movements)
        BY <3>1, <3>3, <4>1
      <4> QED BY <4>2, ConcatEmptySeq
    <3>4. CASE ~Exists(purchases[p])
      <4>1. MadeFor(moves, p) = <<>> /\ <<>> \in Seq(Movements)
        BY <3>1, <3>4, EmptySeq
      <4> QED BY <4>1, ConcatEmptySeq
    <3> QED BY <3>3, <3>4
  <2> QED BY <2>3, <2>4
<1>8. PurchasesInv'
  BY <1>7 DEF ScheduleInv, PurchasesInv, Instalments
<1>9. BalancesInv'
  <2>. SUFFICES ASSUME NEW a \in Accounts PROVE BalanceFollows(a)'
    BY DEF BalancesInv
  <2>1. value[a] = Opening[a] + EffectOf(moves, a) - PurchasesCharged(a)
    BY DEF ScheduleInv, BalancesInv, BalanceFollows
  <2>2. PurchasesCharged(a)' = PurchasesCharged(a)
    BY DEF PurchasesCharged
  <2>3. PurchasesCharged(a) \in Int /\ Opening[a] \in Int
    BY <1>1, ChargedType, SchedulesConstants
  <2>4. value'[a] = value[a] + EffectOf(ms, a)
    BY <1>1
  <2>5. value'[a] = Opening[a] + EffectOf(moves', a) - PurchasesCharged(a)
    BY <1>5, <2>1, <2>3, <2>4
  <2> QED BY <2>2, <2>5 DEF BalanceFollows, EffectOf, Effect
<1>10. \A r \in Rules : /\ DatesOf(moves', r) = DatesOf(moves, r) \cup DatesOf(ms, r)
                        /\ OnceIn(ms, r) /\ OnceIn(moves, r) /\ DatesOf(moves, r) \cap DatesOf(ms, r) = {}
                           => OnceIn(moves', r)
  BY <1>1, <1>3, DatesJoined
<1>11. \A r \in Rules : OnceIn(moves, r)
  BY DEF ScheduleInv, RulesInv
<1> QED BY <1>4, <1>6, <1>8, <1>9, <1>10, <1>11

-----------------------------------------------------------------------------
(* The steps *)

(* Where nothing is posted, what was said of the payments still holds. *)
LEMMA PaymentsStand ==
    ASSUME ScheduleInv, UNCHANGED <<moves, value, purchases>>
    PROVE  /\ moves' \in Seq(Movements) /\ value' \in [Accounts -> Int]
           /\ PurchasesInv' /\ BalancesInv'
           /\ \A r \in Rules : OnceIn(moves', r) /\ DatesOf(moves', r) = DatesOf(moves, r)
<1>1. /\ moves \in Seq(Movements) /\ value \in [Accounts -> Int] /\ PurchasesInv
      /\ \A a \in Accounts : BalanceFollows(a)
      /\ \A r \in Rules : OnceIn(moves, r)
  BY DEF ScheduleInv, RowsInv, RulesInv, BalancesInv
<1>2. moves' = moves /\ value' = value /\ purchases' = purchases
  OBVIOUS
<1>3. PurchasesInv'
  BY <1>1, <1>2 DEF PurchasesInv, MadeFor, Instalments
<1>4. BalancesInv'
  BY <1>1, <1>2 DEF BalancesInv, BalanceFollows, EffectOf, PurchasesCharged
<1>5. \A r \in Rules : OnceIn(moves', r) /\ DatesOf(moves', r) = DatesOf(moves, r)
  BY <1>1, <1>2 DEF OnceIn, DatesOf
<1> QED BY <1>1, <1>2, <1>3, <1>4, <1>5

(* A step that writes the row of one rule has to keep what is said of it. *)
LEMMA RuleChanged ==
    ASSUME ScheduleInv, NEW r \in Rules, NEW row, rules' = [rules EXCEPT ![r] = row],
           UNCHANGED <<utc, local, purchases>>,
           moves' \in Seq(Movements), value' \in [Accounts -> Int], PurchasesInv', BalancesInv',
           \A q \in Rules : OnceIn(moves', q),
           \A q \in Rules : q # r => DatesOf(moves', q) = DatesOf(moves, q),
           RowKept(row, DatesOf(moves', r), utc)
    PROVE  ScheduleInv'
<1>1. row \in RuleRows \cup {Fresh, Deleted}
  BY RowKeptType
<1>2. ClockInv'
  BY DEF ScheduleInv, ClockInv
<1>3. RowsInv'
  BY <1>1 DEF ScheduleInv, RowsInv
<1>4. RulesInv'
  <2>. SUFFICES ASSUME NEW q \in Rules PROVE OnceIn(moves', q) /\ RowKept(rules'[q], DatesOf(moves', q), utc')
    BY DEF RulesInv, OnceIn, DatesOf, RowKept, Covers, InStep, MonthAt, Occurrence
  <2>1. CASE q = r
    <3>1. rules'[q] = row /\ utc' = utc
      BY <2>1 DEF ScheduleInv, RowsInv
    <3> QED BY <2>1, <3>1
  <2>2. CASE q # r
    <3>1. rules'[q] = rules[q] /\ utc' = utc /\ DatesOf(moves', q) = DatesOf(moves, q)
      BY <2>2 DEF ScheduleInv, RowsInv
    <3>2. RowKept(rules[q], DatesOf(moves, q), utc)
      BY DEF ScheduleInv, RulesInv
    <3> QED BY <3>1, <3>2
  <2> QED BY <2>1, <2>2
<1> QED BY <1>2, <1>3, <1>4 DEF ScheduleInv

(* A new rule points at its first occurrence and was charged nothing. *)
LEMMA CreateRuleStep ==
    ASSUME ScheduleInv, NEW r \in Rules, NEW in \in RuleInputs, CreateRule(r, in)
    PROVE  ScheduleInv'
<1>. DEFINE row ==
         [account |-> in.account, category |-> in.category, amount |-> in.amount,
          frequency |-> in.frequency, start |-> in.start, next |-> in.start,
          occurrences |-> 0, active |-> TRUE, since |-> 0]
<1>1. rules[r] = Fresh /\ rules' = [rules EXCEPT ![r] = row]
      /\ UNCHANGED <<moves, value, purchases>> /\ UNCHANGED <<utc, local, purchases>>
  BY DEF CreateRule
<1>2. /\ in.account \in Accounts /\ in.category \in Categories /\ in.amount \in Nat \ {0}
      /\ in.frequency \in Frequencies /\ in.start \in Dates
  BY SchedulesConstants
<1>3. row \in RuleRows
  BY <1>2 DEF RuleRows
<1>4. /\ row.start = in.start /\ row.frequency = in.frequency /\ row.next = in.start
      /\ row.occurrences = 0 /\ row.since = 0
  OBVIOUS
<1>. HIDE DEF row
<1>5. DatesOf(moves', r) = {}
  <2>1. RowKept(rules[r], DatesOf(moves, r), utc)
    BY DEF ScheduleInv, RulesInv
  <2>2. DatesOf(moves', r) = DatesOf(moves, r)
    BY <1>1, PaymentsStand
  <2> QED BY <1>1, <2>1, <2>2 DEF RowKept
<1>6. InStep(row)
  <2>1. Interval(in.frequency) \in Int /\ MonthOf[in.start] \in Months /\ MonthOf[in.start] \in Int
    BY <1>2, Intervals, DatesHaveMonths, MonthsAre
  <2>2. MonthAt(in.start, in.frequency, 0) = MonthOf[in.start]
    BY <2>1 DEF MonthAt
  <2>3. Occurrence(in.start, in.frequency, 0) = in.start
    BY <1>2, <2>1, <2>2, OccurrenceIs
  <2> QED BY <1>3, <1>4, <2>1, <2>2, <2>3 DEF InStep
<1>7. RowKept(row, {}, utc)
  <2>1. {Occurrence(row.start, row.frequency, n) : n \in row.since .. row.occurrences - 1} = {}
    BY <1>4
  <2>2. row # Fresh
    BY <1>3, RowsExist
  <2> QED BY <1>6, <2>1, <2>2 DEF RowKept, Covers
<1>8. RowKept(row, DatesOf(moves', r), utc)
  BY <1>5, <1>7
<1>9. /\ moves' \in Seq(Movements) /\ value' \in [Accounts -> Int]
      /\ PurchasesInv' /\ BalancesInv'
      /\ \A q \in Rules : OnceIn(moves', q) /\ DatesOf(moves', q) = DatesOf(moves, q)
  BY <1>1, PaymentsStand
<1> QED BY <1>1, <1>8, <1>9, RuleChanged

(* A rule that is deleted leaves its charges behind. *)
LEMMA DeleteRuleStep ==
    ASSUME ScheduleInv, NEW r \in Rules, DeleteRule(r)
    PROVE  ScheduleInv'
<1>1. /\ Exists(rules[r]) /\ rules' = [rules EXCEPT ![r] = Deleted]
      /\ UNCHANGED <<moves, value, purchases>> /\ UNCHANGED <<utc, local, purchases>>
  BY DEF DeleteRule
<1>2. /\ moves' \in Seq(Movements) /\ value' \in [Accounts -> Int]
      /\ PurchasesInv' /\ BalancesInv'
      /\ \A q \in Rules : OnceIn(moves', q) /\ DatesOf(moves', q) = DatesOf(moves, q)
  BY <1>1, PaymentsStand
<1>3. RowKept(Deleted, DatesOf(moves', r), utc)
  <2>1. RowKept(rules[r], DatesOf(moves, r), utc)
    BY DEF ScheduleInv, RulesInv
  <2>2. DatesOf(moves', r) = DatesOf(moves, r)
    BY <1>2
  <2>3. ~Exists(Deleted) /\ Deleted # Fresh
    BY RowsExist
  <2> QED BY <2>1, <2>2, <2>3 DEF RowKept
<1> QED BY <1>1, <1>2, <1>3, RuleChanged

(* The row an edit writes over one that ran, aligned afresh or not. *)
Edited(in, active, realign, ran) ==
    LET n == Aligned(in.start, in.frequency, utc)
    IN  [account |-> in.account, category |-> in.category, amount |-> in.amount,
         frequency |-> in.frequency, start |-> in.start, active |-> active,
         next |-> IF realign THEN Occurrence(in.start, in.frequency, n) ELSE ran.next,
         occurrences |-> IF realign THEN n ELSE ran.occurrences,
         since |-> IF realign THEN n ELSE ran.since]

(* Such a row is kept when the one it is written over was. *)
LEMMA EditedKept ==
    ASSUME YearAhead(utc), NEW ran, Exists(ran), NEW dates, RowKept(ran, dates, utc),
           NEW in \in RuleInputs, NEW active \in BOOLEAN, NEW realign \in BOOLEAN,
           ~realign => in.start = ran.start /\ in.frequency = ran.frequency
    PROVE  RowKept(Edited(in, active, realign, ran), dates, utc)
<1>. DEFINE n == Aligned(in.start, in.frequency, utc)
            row == Edited(in, active, realign, ran)
<1>1. /\ in.account \in Accounts /\ in.category \in Categories /\ in.amount \in Nat \ {0}
      /\ in.frequency \in Frequencies /\ in.start \in Dates
  BY SchedulesConstants
<1>2. n \in Nat /\ MonthAt(in.start, in.frequency, n) \in Months
  BY <1>1, AlignedIs
<1>3. ran \in RuleRows /\ dates \subseteq Dates /\ \A d \in dates : d <= utc
  BY DEF RowKept, Covers, InStep
<1>. HIDE DEF n
<1>4. Occurrence(in.start, in.frequency, n) \in Dates
  BY <1>1, <1>2, OccurrenceIs
<1>5. /\ row.start = in.start /\ row.frequency = in.frequency
      /\ realign => row.next = Occurrence(in.start, in.frequency, n) /\ row.occurrences = n /\ row.since = n
      /\ ~realign => row.next = ran.next /\ row.occurrences = ran.occurrences /\ row.since = ran.since
  BY DEF Edited, n
<1>6. row \in RuleRows
  <2>1. /\ ran.next \in Dates /\ ran.occurrences \in Nat /\ ran.since \in Nat
    BY <1>3 DEF RuleRows
  <2> QED BY <1>1, <1>2, <1>4, <2>1 DEF Edited, RuleRows, n
<1>. HIDE DEF row
<1>7. CASE realign
  <2>1. /\ row.occurrences = n /\ row.since = n
        /\ row.next = Occurrence(in.start, in.frequency, n)
    BY <1>5, <1>7
  <2>2. row.occurrences = Aligned(row.start, row.frequency, utc)
    BY <1>5, <2>1 DEF n
  <2>3. row.since = row.occurrences /\ row.next = Occurrence(row.start, row.frequency, row.occurrences)
    BY <1>5, <2>1
  <2>4. RowKept(row, dates, utc)
    BY <1>3, <1>6, <2>2, <2>3, RealignedIs
  <2> QED BY <2>4 DEF row
<1>8. CASE ~realign
  <2>1. /\ row.start = ran.start /\ row.frequency = ran.frequency
        /\ row.next = ran.next /\ row.occurrences = ran.occurrences /\ row.since = ran.since
    BY <1>5, <1>8
  <2>2. RowKept(row, dates, utc)
    BY <1>6, <2>1, EditedIs
  <2> QED BY <2>2 DEF row
<1> QED BY <1>7, <1>8

(* What a rule is charged when it catches up, and the row that is left. *)
LEMMA CaughtUp ==
    ASSUME ScheduleInv, NEW r \in Rules, IsDue(r)
    PROVE  /\ Materialized(r, rules[r]) \in Seq(Plain)
           /\ \A q \in Rules : /\ OnceIn(Materialized(r, rules[r]), q)
                               /\ q # r => DatesOf(Materialized(r, rules[r]), q) = {}
           /\ DatesOf(moves, r) \cap DatesOf(Materialized(r, rules[r]), r) = {}
           /\ Advanced(rules[r]) \in RuleRows
           /\ RowKept(Advanced(rules[r]),
                      DatesOf(moves, r) \cup DatesOf(Materialized(r, rules[r]), r), utc)
<1>. DEFINE rule == rules[r]
            dates == DatesOf(moves, r)
            ms == Materialized(r, rule)
<1>1. Exists(rule) /\ rule.next <= utc
  BY DEF IsDue
<1>2. YearAhead(utc) /\ RowKept(rule, dates, utc)
  BY ClockAhead DEF ScheduleInv, RulesInv
<1>3. InStep(rule)
  BY <1>1, <1>2 DEF RowKept, Covers
<1>. HIDE DEF rule, dates
<1>4. /\ ms \in Seq(Plain) /\ DatesOf(ms, r) = ChargesOf(rule)
      /\ \A q \in Rules : OnceIn(ms, q) /\ (q # r => DatesOf(ms, q) = {})
  BY <1>1, <1>2, <1>3, MaterializedIs
<1>5. /\ RowKept(Advanced(rule), dates \cup ChargesOf(rule), utc)
      /\ Advanced(rule) \in RuleRows /\ dates \cap ChargesOf(rule) = {}
  BY <1>1, <1>2, AdvancedIs
<1>. HIDE DEF ms
<1>6. /\ RowKept(Advanced(rule), dates \cup DatesOf(ms, r), utc)
      /\ Advanced(rule) \in RuleRows /\ dates \cap DatesOf(ms, r) = {}
  BY <1>4, <1>5
<1> QED BY <1>4, <1>6 DEF ms, rule, dates

(* An edit catches the rule up or not, and aligns its schedule afresh or not. *)
LEMMA UpdateRuleStep ==
    ASSUME ScheduleInv, NEW r \in Rules, NEW in \in RuleInputs,
           NEW active \in BOOLEAN, NEW materialize \in BOOLEAN,
           UpdateRule(r, in, active, materialize)
    PROVE  ScheduleInv'
<1>. DEFINE old == rules[r]
            posted == materialize /\ IsDue(r)
            ran == IF posted THEN Advanced(old) ELSE old
            realign == \/ old.frequency # in.frequency \/ old.start # in.start
                       \/ ~old.active /\ active
            row == Edited(in, active, realign, ran)
            ms == Materialized(r, old)
<1>1. /\ Exists(old) /\ rules' = [rules EXCEPT ![r] = row]
      /\ UNCHANGED <<utc, local, purchases>>
      /\ posted => Post(ms)
      /\ ~posted => UNCHANGED <<moves, value, purchases>>
  BY DEF UpdateRule, Edited
<1>2. YearAhead(utc) /\ RowKept(old, DatesOf(moves, r), utc)
  BY ClockAhead DEF ScheduleInv, RulesInv
<1>3. /\ moves' \in Seq(Movements) /\ value' \in [Accounts -> Int] /\ PurchasesInv' /\ BalancesInv'
      /\ \A q \in Rules : OnceIn(moves', q)
      /\ \A q \in Rules : q # r => DatesOf(moves', q) = DatesOf(moves, q)
      /\ Exists(ran) /\ RowKept(ran, DatesOf(moves', r), utc)
      /\ ran.start = old.start /\ ran.frequency = old.frequency
  <2>1. CASE posted
    <3>. HIDE DEF ms
    <3>1. /\ ms \in Seq(Plain)
          /\ \A q \in Rules : OnceIn(ms, q) /\ (q # r => DatesOf(ms, q) = {})
          /\ DatesOf(moves, r) \cap DatesOf(ms, r) = {}
          /\ Advanced(old) \in RuleRows
          /\ RowKept(Advanced(old), DatesOf(moves, r) \cup DatesOf(ms, r), utc)
      BY <2>1, CaughtUp DEF ms
    <3>2. Post(ms) /\ purchases' = purchases
      BY <1>1, <2>1 DEF ms
    <3>3. /\ moves' \in Seq(Movements) /\ value' \in [Accounts -> Int]
          /\ PurchasesInv' /\ BalancesInv'
          /\ \A q \in Rules : /\ DatesOf(moves', q) = DatesOf(moves, q) \cup DatesOf(ms, q)
                              /\ OnceIn(ms, q) /\ DatesOf(moves, q) \cap DatesOf(ms, q) = {}
                                 => OnceIn(moves', q)
      BY <3>1, <3>2, PostKeeps
    <3>4. \A q \in Rules : OnceIn(moves', q)
      <4>. TAKE q \in Rules
      <4>1. DatesOf(moves, q) \cap DatesOf(ms, q) = {}
        BY <3>1
      <4> QED BY <3>1, <3>3, <4>1
    <3>5. \A q \in Rules : q # r => DatesOf(moves', q) = DatesOf(moves, q)
      BY <3>1, <3>3
    <3>6. ran = Advanced(old)
      BY <2>1
    <3>7. RowKept(ran, DatesOf(moves', r), utc)
      BY <3>1, <3>3, <3>6
    <3>8. Exists(ran)
      BY <3>1, <3>6, RowsExist
    <3>9. ran.start = old.start /\ ran.frequency = old.frequency
      <4>1. old \in RuleRows
        BY <1>1, <1>2 DEF RowKept, Covers, InStep
      <4> QED BY <3>6, <4>1 DEF Advanced, RuleRows
    <3> QED BY <3>3, <3>4, <3>5, <3>7, <3>8, <3>9
  <2>2. CASE ~posted
    <3>1. ran = old
      BY <2>2
    <3>2. /\ moves' \in Seq(Movements) /\ value' \in [Accounts -> Int]
          /\ PurchasesInv' /\ BalancesInv'
          /\ \A q \in Rules : OnceIn(moves', q) /\ DatesOf(moves', q) = DatesOf(moves, q)
      BY <1>1, <2>2, PaymentsStand
    <3>3. RowKept(ran, DatesOf(moves', r), utc) /\ Exists(ran)
      BY <1>1, <1>2, <3>1, <3>2
    <3> QED BY <3>1, <3>2, <3>3
  <2> QED BY <2>1, <2>2
<1>4. RowKept(row, DatesOf(moves', r), utc)
  <2>1. realign \in BOOLEAN
    OBVIOUS
  <2>2. ~realign => in.start = ran.start /\ in.frequency = ran.frequency
    <3>1. ~realign => in.start = old.start /\ in.frequency = old.frequency
      OBVIOUS
    <3> QED BY <1>3, <3>1
  <2>. HIDE DEF realign, ran
  <2>3. Exists(ran) /\ RowKept(ran, DatesOf(moves', r), utc)
    BY <1>3
  <2> QED BY <1>2, <2>1, <2>2, <2>3, EditedKept
<1>. HIDE DEF row
<1> QED BY <1>1, <1>3, <1>4, RuleChanged

(* The movements made for the rules that are due: to each rule its own charges. *)
LEMMA ChargedTogether ==
    ASSUME ScheduleInv
    PROVE  LET due == SetToSeq({r \in Rules : IsDue(r)})
               ms  == FlattenSeq([i \in DOMAIN due |-> Materialized(due[i], rules[due[i]])])
           IN  /\ ms \in Seq(Plain)
               /\ \A q \in Rules :
                      /\ OnceIn(ms, q)
                      /\ IsDue(q) => DatesOf(ms, q) = DatesOf(Materialized(q, rules[q]), q)
                      /\ ~IsDue(q) => DatesOf(ms, q) = {}
<1>. DEFINE D == {r \in Rules : IsDue(r)}
            k == Cardinality(D)
            Of(q) == Materialized(q, rules[q])
            due == SetToSeq(D)
            ss == [i \in DOMAIN due |-> Materialized(due[i], rules[due[i]])]
            ms == FlattenSeq(ss)
<1>1. IsFiniteSet(D)
  BY SchedulesConstants, FS_Subset
<1>2. \A q \in D : q \in Rules /\ IsDue(q)
  OBVIOUS
<1>3. \A q \in Rules : IsDue(q) => q \in D
  OBVIOUS
<1>. HIDE DEF D
<1>5. /\ k \in Nat /\ due \in [1 .. k -> D]
      /\ \A i, j \in 1 .. k : due[i] = due[j] => i = j
      /\ \A q \in D : \E i \in 1 .. k : due[i] = q
  BY <1>1, Ordered
<1>. HIDE DEF k, due
<1>4. k \in Nat
  BY <1>5
<1>6. ss = [i \in 1 .. k |-> ss[i]] /\ \A i \in 1 .. k : ss[i] = Of(due[i])
  BY <1>5
<1>7. \A q \in D : /\ Of(q) \in Seq(Plain)
                   /\ \A x \in Rules : OnceIn(Of(q), x) /\ (x # q => DatesOf(Of(q), x) = {})
  BY <1>2, CaughtUp
<1>8. ms = FlattenSeq(ss)
  OBVIOUS
<1>. HIDE DEF ss, Of, ms
<1>9. \A i \in 1 .. k : due[i] \in D /\ ss[i] \in Seq(Plain)
  BY <1>5, <1>6, <1>7
<1>10. ss \in Seq(Seq(Plain)) /\ Len(ss) = k
  BY <1>4, <1>6, <1>9, Pieces
<1>11. ms \in Seq(Plain)
  BY <1>8, <1>10, FlattenType
<1>12. ASSUME NEW q \in Rules
       PROVE  /\ OnceIn(ms, q)
              /\ IsDue(q) => DatesOf(ms, q) = DatesOf(Of(q), q)
              /\ ~IsDue(q) => DatesOf(ms, q) = {}
  <2>1. \A i \in 1 .. k : OnceIn(ss[i], q) /\ (due[i] # q => DatesOf(ss[i], q) = {})
    BY <1>6, <1>7, <1>9
  <2>2. \A i, j \in 1 .. k : i # j => DatesOf(ss[i], q) = {} \/ DatesOf(ss[j], q) = {}
    BY <1>5, <2>1
  <2>3. OnceIn(ms, q) /\ DatesOf(ms, q) = UNION {DatesOf(ss[i], q) : i \in 1 .. k}
    BY <1>8, <1>10, <2>1, <2>2, DatesFlattened
  <2>4. ASSUME IsDue(q) PROVE DatesOf(ms, q) = DatesOf(Of(q), q)
    <3>1. PICK i \in 1 .. k : due[i] = q
      BY <1>3, <1>5, <2>4
    <3>2. \A j \in 1 .. k : j # i => DatesOf(ss[j], q) = {}
      BY <1>5, <2>1, <3>1
    <3>3. UNION {DatesOf(ss[j], q) : j \in 1 .. k} = DatesOf(ss[i], q)
      BY <3>1, <3>2, Zenon
    <3> QED BY <1>6, <2>3, <3>1, <3>3
  <2>5. ASSUME ~IsDue(q) PROVE DatesOf(ms, q) = {}
    <3>1. \A i \in 1 .. k : DatesOf(ss[i], q) = {}
      BY <1>2, <1>9, <2>1, <2>5
    <3> QED BY <2>3, <3>1, Zenon
  <2> QED BY <2>3, <2>4, <2>5
<1> QED BY <1>11, <1>12 DEF Of, D, due, ss, ms

(* Every rule that is due catches up at once. *)
LEMMA ProcessStep == ASSUME ScheduleInv, Process PROVE ScheduleInv'
<1>. DEFINE due == SetToSeq({r \in Rules : IsDue(r)})
            ms == FlattenSeq([i \in DOMAIN due |-> Materialized(due[i], rules[due[i]])])
<1>1. /\ Post(ms) /\ purchases' = purchases /\ utc' = utc /\ local' = local
      /\ rules' = [r \in Rules |-> IF IsDue(r) THEN Advanced(rules[r]) ELSE rules[r]]
  BY DEF Process
<1>2. /\ ms \in Seq(Plain)
      /\ \A q \in Rules :
             /\ OnceIn(ms, q)
             /\ IsDue(q) => DatesOf(ms, q) = DatesOf(Materialized(q, rules[q]), q)
             /\ ~IsDue(q) => DatesOf(ms, q) = {}
  BY ChargedTogether
<1>. HIDE DEF ms, due
<1>3. /\ moves' \in Seq(Movements) /\ value' \in [Accounts -> Int]
      /\ PurchasesInv' /\ BalancesInv'
      /\ \A r \in Rules : /\ DatesOf(moves', r) = DatesOf(moves, r) \cup DatesOf(ms, r)
                          /\ OnceIn(ms, r) /\ DatesOf(moves, r) \cap DatesOf(ms, r) = {}
                             => OnceIn(moves', r)
  BY <1>1, <1>2, PostKeeps
<1>4. ASSUME NEW q \in Rules
      PROVE  OnceIn(moves', q) /\ RowKept(rules'[q], DatesOf(moves', q), utc)
  <2>1. OnceIn(moves, q) /\ RowKept(rules[q], DatesOf(moves, q), utc)
    BY DEF ScheduleInv, RulesInv
  <2>2. CASE IsDue(q)
    <3>1. /\ DatesOf(moves, q) \cap DatesOf(Materialized(q, rules[q]), q) = {}
          /\ RowKept(Advanced(rules[q]),
                     DatesOf(moves, q) \cup DatesOf(Materialized(q, rules[q]), q), utc)
      BY <2>2, CaughtUp
    <3>2. DatesOf(ms, q) = DatesOf(Materialized(q, rules[q]), q) /\ OnceIn(ms, q)
      BY <1>2, <2>2
    <3>3. rules'[q] = Advanced(rules[q])
      BY <1>1, <2>2
    <3> QED BY <1>3, <3>1, <3>2, <3>3
  <2>3. CASE ~IsDue(q)
    <3>1. DatesOf(ms, q) = {} /\ OnceIn(ms, q)
      BY <1>2, <2>3
    <3>2. rules'[q] = rules[q]
      BY <1>1, <2>3
    <3>3. DatesOf(moves', q) = DatesOf(moves, q) /\ OnceIn(moves', q)
      BY <1>3, <3>1
    <3> QED BY <2>1, <3>2, <3>3
  <2> QED BY <2>2, <2>3
<1>5. RulesInv'
  BY <1>1, <1>4 DEF RulesInv, OnceIn, DatesOf, RowKept, Covers, InStep, MonthAt, Occurrence
<1>6. \A q \in Rules : rules'[q] \in RuleRows \cup {Fresh, Deleted}
  BY <1>4, RowKeptType
<1>7. RowsInv'
  <2>1. rules' \in [Rules -> RuleRows \cup {Fresh, Deleted}]
    BY <1>1, <1>6
  <2>2. purchases' \in [Purchases -> PurchaseInputs \cup {Fresh, Deleted}]
    BY <1>1 DEF ScheduleInv, RowsInv
  <2> QED BY <1>3, <2>1, <2>2 DEF RowsInv
<1>8. ClockInv'
  BY <1>1 DEF ScheduleInv, ClockInv
<1> QED BY <1>3, <1>5, <1>7, <1>8 DEF ScheduleInv

(* The movements of a purchase are movements. *)
LEMMA MadeType ==
    ASSUME ScheduleInv, NEW p \in Purchases
    PROVE  MadeFor(moves, p) \in Seq(Movements)
<1>1. MadeFor(moves, p) = IF Exists(purchases[p]) THEN Instalments(p, purchases[p]) ELSE <<>>
  BY DEF ScheduleInv, PurchasesInv
<1>2. CASE Exists(purchases[p])
  <2>1. purchases[p] \in PurchaseInputs
    BY <1>2 DEF ScheduleInv, RowsInv, Exists
  <2>2. Instalments(p, purchases[p]) \in Seq(Movements)
    BY <2>1, InstalmentsAre
  <2> QED BY <1>1, <1>2, <2>2
<1>3. CASE ~Exists(purchases[p])
  BY <1>1, <1>3, EmptySeq
<1> QED BY <1>2, <1>3

(* Of two lists of movements, joined, a purchase's are its in one and its in the other. *)
LEMMA MovementsJoined ==
    ASSUME NEW p
    PROVE  \A s, t \in Seq(Movements) : MadeFor(s \o t, p) = MadeFor(s, p) \o MadeFor(t, p)
  BY MadeForJoined, SMTT(30)

(* A step that writes one purchase replaces its movements and what it charged, and nothing else. *)
LEMMA PurchaseChanged ==
    ASSUME ScheduleInv, NEW p \in Purchases, NEW row \in PurchaseInputs \cup {Fresh, Deleted},
           purchases' = [purchases EXCEPT ![p] = row], UNCHANGED <<utc, local, rules>>,
           NEW kept \in Seq(Movements),
           MadeFor(kept, p) = <<>>,
           \A q \in Purchases : q # p => MadeFor(kept, q) = MadeFor(moves, q),
           \A a \in Accounts : EffectOf(kept, a) = EffectOf(moves, a),
           \A r \in Rules : OnceIn(kept, r) /\ DatesOf(kept, r) = DatesOf(moves, r),
           NEW made,
           Exists(row) => made = Instalments(p, row),
           ~Exists(row) => made = <<>>,
           moves' = kept \o made,
           value' \in [Accounts -> Int],
           \A a \in Accounts : value'[a] = value[a] + ChargeOf(purchases[p], a) - ChargeOf(row, a)
    PROVE  ScheduleInv'
<1>1. /\ made \in Seq(Movements)
      /\ \A i \in 1 .. Len(made) : made[i].purchase = p /\ made[i].rule = None
  <2>1. CASE Exists(row)
    <3>1. row \in PurchaseInputs
      BY <2>1 DEF Exists
    <3>2. /\ Instalments(p, row) \in Seq(Movements)
          /\ \A i \in 1 .. Len(Instalments(p, row)) :
                 Instalments(p, row)[i].purchase = p /\ Instalments(p, row)[i].rule = None
      BY <3>1, InstalmentsAre
    <3> QED BY <2>1, <3>2
  <2>2. CASE ~Exists(row)
    BY <2>2, EmptySeq
  <2> QED BY <2>1, <2>2
<1>2. moves' \in Seq(Movements)
  BY <1>1, ConcatProperties
<1>3. /\ \A q \in Purchases : purchases'[q] = IF q = p THEN row ELSE purchases[q]
      /\ purchases' \in [Purchases -> PurchaseInputs \cup {Fresh, Deleted}]
  BY DEF ScheduleInv, RowsInv
<1>4. ASSUME NEW q \in Purchases
      PROVE  MadeFor(moves', q)
             = IF Exists(purchases'[q]) THEN Instalments(q, purchases'[q]) ELSE <<>>
  <2>1. MadeFor(moves', q) = MadeFor(kept, q) \o MadeFor(made, q)
    <3>1. MadeFor(kept \o made, q) = MadeFor(kept, q) \o MadeFor(made, q)
      BY <1>1, MovementsJoined, Zenon
    <3>2. MadeFor(moves', q) = MadeFor(kept \o made, q)
      BY DEF MadeFor
    <3> QED BY <1>1, <3>1, <3>2
  <2>2. CASE q = p
    <3>1. MadeFor(made, p) = made
      BY <1>1, MadeForUniform
    <3>2. <<>> \o made = made
      BY <1>1, ConcatEmptySeq
    <3>3. MadeFor(moves', q) = made /\ purchases'[q] = row
      BY <1>3, <2>1, <2>2, <3>1, <3>2
    <3> QED BY <2>2, <3>3
  <2>3. CASE q # p
    <3>1. \A i \in 1 .. Len(made) : made[i].purchase # q
      BY <1>1, <2>3
    <3>2. MadeFor(made, q) = <<>>
      BY <1>1, <3>1, MadeForUniform
    <3>3. MadeFor(moves, q) \o <<>> = MadeFor(moves, q)
      BY MadeType, ConcatEmptySeq
    <3>4. MadeFor(moves', q) = MadeFor(moves, q) /\ purchases'[q] = purchases[q]
      BY <1>3, <2>1, <2>3, <3>2, <3>3
    <3>5. MadeFor(moves, q) = IF Exists(purchases[q]) THEN Instalments(q, purchases[q]) ELSE <<>>
      BY DEF ScheduleInv, PurchasesInv
    <3> QED BY <3>4, <3>5
  <2> QED BY <2>2, <2>3
<1>5. PurchasesInv'
  BY <1>4 DEF PurchasesInv, MadeFor, Instalments
<1>6. ASSUME NEW a \in Accounts
      PROVE  value'[a] = Opening[a] + EffectOf(moves', a) - PurchasesCharged(a)'
  <2>1. EffectOf(moves', a) = EffectOf(moves, a)
    <3>1. EffectOf(kept \o made, a) = EffectOf(kept, a) + EffectOf(made, a)
      BY <1>1, EffectOfJoined
    <3>2. \A i \in 1 .. Len(made) : made[i].purchase # None
      BY <1>1, SchedulesConstants
    <3>3. EffectOf(made, a) = 0
      BY <1>1, <3>2, EffectOfInstalments
    <3>4. EffectOf(kept, a) = EffectOf(moves, a) /\ EffectOf(kept, a) \in Int
      BY EffectOfType
    <3>5. EffectOf(moves', a) = EffectOf(kept \o made, a)
      BY DEF EffectOf
    <3> QED BY <3>1, <3>3, <3>4, <3>5
  <2>2. /\ PurchasesCharged(a) \in Int
        /\ PurchasesCharged(a)' = PurchasesCharged(a) - ChargeOf(purchases[p], a) + ChargeOf(row, a)
    BY ChargeMoved DEF ScheduleInv
  <2>3. value[a] = Opening[a] + EffectOf(moves, a) - PurchasesCharged(a)
    BY DEF ScheduleInv, BalancesInv, BalanceFollows
  <2>4. ChargeOf(purchases[p], a) \in Int /\ ChargeOf(row, a) \in Int
    <3>1. purchases[p] \in PurchaseInputs \cup {Fresh, Deleted}
      BY DEF ScheduleInv, RowsInv
    <3> QED BY <3>1, ChargeType
  <2>5. EffectOf(moves, a) \in Int /\ Opening[a] \in Int
    BY EffectOfType, SchedulesConstants DEF ScheduleInv, RowsInv
  <2>6. value'[a] = value[a] + ChargeOf(purchases[p], a) - ChargeOf(row, a)
    OBVIOUS
  <2> QED BY <2>1, <2>2, <2>3, <2>4, <2>5, <2>6
<1>7. BalancesInv'
  BY <1>6 DEF BalancesInv, BalanceFollows, EffectOf
<1>8. ASSUME NEW r \in Rules
      PROVE  OnceIn(moves', r) /\ DatesOf(moves', r) = DatesOf(moves, r)
  <2>1. \A i \in DOMAIN made : made[i].rule # r
    BY <1>1, LenProperties, SchedulesConstants
  <2>2. DatesOf(made, r) = {} /\ OnceIn(made, r)
    BY <2>1 DEF DatesOf, OnceIn
  <2>3. OnceIn(kept, r) /\ DatesOf(kept, r) = DatesOf(moves, r)
    OBVIOUS
  <2>4. DatesOf(kept, r) \cap DatesOf(made, r) = {}
    BY <2>2
  <2>5. /\ DatesOf(kept \o made, r) = DatesOf(kept, r) \cup DatesOf(made, r)
        /\ OnceIn(kept, r) /\ OnceIn(made, r) /\ DatesOf(kept, r) \cap DatesOf(made, r) = {}
           => OnceIn(kept \o made, r)
    BY <1>1, DatesJoined
  <2> QED BY <2>2, <2>3, <2>4, <2>5
<1>9. RulesInv'
  <2>1. \A r \in Rules : OnceIn(moves', r) /\ RowKept(rules'[r], DatesOf(moves', r), utc')
    <3>. TAKE r \in Rules
    <3>1. RowKept(rules[r], DatesOf(moves, r), utc)
      BY DEF ScheduleInv, RulesInv
    <3>2. rules' = rules /\ utc' = utc
      OBVIOUS
    <3> QED BY <1>8, <3>1, <3>2
  <2> QED BY <2>1 DEF RulesInv, OnceIn, DatesOf, RowKept, Covers, InStep, MonthAt, Occurrence
<1>10. RowsInv' /\ ClockInv'
  BY <1>2, <1>3 DEF ScheduleInv, RowsInv, ClockInv
<1> QED BY <1>5, <1>7, <1>9, <1>10 DEF ScheduleInv

(* What taking the instalments of a purchase away leaves. *)
LEMMA WithoutOne ==
    ASSUME ScheduleInv, NEW p \in Purchases
    PROVE  /\ WithoutInstalments(p) \in Seq(Movements)
           /\ MadeFor(WithoutInstalments(p), p) = <<>>
           /\ \A q \in Purchases : q # p => MadeFor(WithoutInstalments(p), q) = MadeFor(moves, q)
           /\ \A a \in Accounts : EffectOf(WithoutInstalments(p), a) = EffectOf(moves, a)
           /\ \A r \in Rules : /\ OnceIn(WithoutInstalments(p), r)
                               /\ DatesOf(WithoutInstalments(p), r) = DatesOf(moves, r)
<1>1. moves \in Seq(Movements) /\ WithoutInstalments(p) = Without(moves, p)
      /\ \A r \in Rules : OnceIn(moves, r)
  BY DEF ScheduleInv, RowsInv, RulesInv, WithoutInstalments
<1>2. \A a \in Accounts : /\ Without(moves, p) \in Seq(Movements)
                          /\ EffectOf(Without(moves, p), a) = EffectOf(moves, a)
  BY <1>1, EffectOfInstalments
<1>3. Without(moves, p) \in Seq(Movements)
  BY <1>1, EffectOfInstalments
<1>4. MadeFor(Without(moves, p), p) = <<>>
  BY <1>1, MadeForWithout
<1>5. \A q \in Purchases : q # p => MadeFor(Without(moves, p), q) = MadeFor(moves, q)
  BY <1>1, MadeForWithout
<1>6. \A r \in Rules : OnceIn(Without(moves, p), r) /\ DatesOf(Without(moves, p), r) = DatesOf(moves, r)
  BY <1>1, DatesWithout
<1> QED BY <1>1, <1>2, <1>3, <1>4, <1>5, <1>6

(* A new purchase charges its card and lists its instalments. *)
LEMMA CreatePurchaseStep ==
    ASSUME ScheduleInv, NEW p \in Purchases, NEW in \in PurchaseInputs, CreatePurchase(p, in)
    PROVE  ScheduleInv'
<1>. DEFINE made == Instalments(p, in)
<1>1. /\ purchases[p] = Fresh /\ purchases' = [purchases EXCEPT ![p] = in]
      /\ value' = [a \in Accounts |-> value[a] - Charged(in, a)]
      /\ moves' = moves \o made /\ UNCHANGED <<utc, local, rules>>
  BY DEF CreatePurchase
<1>2. Exists(in) /\ ~Exists(purchases[p])
  BY <1>1, RowsExist
<1>3. in \in PurchaseInputs \cup {Fresh, Deleted} /\ moves \in Seq(Movements)
      /\ value \in [Accounts -> Int]
  BY DEF ScheduleInv, RowsInv
<1>4. \A a \in Accounts : /\ ChargeOf(in, a) = Charged(in, a) /\ ChargeOf(in, a) \in Int
                          /\ ChargeOf(purchases[p], a) = 0
  BY <1>2, <1>3, ChargeType DEF ChargeOf
<1>5. /\ value' \in [Accounts -> Int]
      /\ \A a \in Accounts : value'[a] = value[a] + ChargeOf(purchases[p], a) - ChargeOf(in, a)
  BY <1>1, <1>3, <1>4
<1>6. MadeFor(moves, p) = <<>> /\ \A r \in Rules : OnceIn(moves, r)
  BY <1>2 DEF ScheduleInv, PurchasesInv, RulesInv
<1>7. /\ Exists(in) => made = Instalments(p, in)
      /\ ~Exists(in) => made = <<>>
  BY <1>2
<1>. HIDE DEF made
<1> QED BY <1>1, <1>3, <1>5, <1>6, <1>7, PurchaseChanged

(* An edited purchase gives back what it charged and charges anew. *)
LEMMA UpdatePurchaseStep ==
    ASSUME ScheduleInv, NEW p \in Purchases, NEW in \in PurchaseInputs, UpdatePurchase(p, in)
    PROVE  ScheduleInv'
<1>. DEFINE made == Instalments(p, in)
            kept == WithoutInstalments(p)
<1>1. /\ Exists(purchases[p]) /\ purchases' = [purchases EXCEPT ![p] = in]
      /\ value' = [a \in Accounts |-> value[a] + Charged(purchases[p], a) - Charged(in, a)]
      /\ moves' = kept \o made /\ UNCHANGED <<utc, local, rules>>
  BY DEF UpdatePurchase
<1>2. Exists(in)
  BY RowsExist
<1>3. /\ in \in PurchaseInputs \cup {Fresh, Deleted} /\ value \in [Accounts -> Int]
      /\ purchases[p] \in PurchaseInputs \cup {Fresh, Deleted}
  BY DEF ScheduleInv, RowsInv
<1>4. \A a \in Accounts : /\ ChargeOf(in, a) = Charged(in, a) /\ ChargeOf(in, a) \in Int
                          /\ ChargeOf(purchases[p], a) = Charged(purchases[p], a)
                          /\ ChargeOf(purchases[p], a) \in Int
  BY <1>1, <1>2, <1>3, ChargeType DEF ChargeOf
<1>5. /\ value' \in [Accounts -> Int]
      /\ \A a \in Accounts : value'[a] = value[a] + ChargeOf(purchases[p], a) - ChargeOf(in, a)
  BY <1>1, <1>3, <1>4
<1>6. /\ kept \in Seq(Movements) /\ MadeFor(kept, p) = <<>>
      /\ \A q \in Purchases : q # p => MadeFor(kept, q) = MadeFor(moves, q)
      /\ \A a \in Accounts : EffectOf(kept, a) = EffectOf(moves, a)
      /\ \A r \in Rules : OnceIn(kept, r) /\ DatesOf(kept, r) = DatesOf(moves, r)
  BY WithoutOne
<1>7. /\ Exists(in) => made = Instalments(p, in)
      /\ ~Exists(in) => made = <<>>
  BY <1>2
<1>. HIDE DEF made, kept
<1> QED BY <1>1, <1>3, <1>5, <1>6, <1>7, PurchaseChanged

(* A deleted purchase gives back what it charged, whatever was paid of it. *)
LEMMA DeletePurchaseStep ==
    ASSUME ScheduleInv, NEW p \in Purchases, DeletePurchase(p)
    PROVE  ScheduleInv'
<1>. DEFINE kept == WithoutInstalments(p)
            made == <<>>
<1>1. /\ Exists(purchases[p]) /\ purchases' = [purchases EXCEPT ![p] = Deleted]
      /\ value' = [a \in Accounts |-> value[a] + Charged(purchases[p], a)]
      /\ moves' = kept /\ UNCHANGED <<utc, local, rules>>
  BY DEF DeletePurchase
<1>2. ~Exists(Deleted)
  BY RowsExist
<1>3. /\ Deleted \in PurchaseInputs \cup {Fresh, Deleted} /\ value \in [Accounts -> Int]
      /\ purchases[p] \in PurchaseInputs \cup {Fresh, Deleted}
  BY DEF ScheduleInv, RowsInv
<1>4. \A a \in Accounts : /\ ChargeOf(Deleted, a) = 0
                          /\ ChargeOf(purchases[p], a) = Charged(purchases[p], a)
                          /\ ChargeOf(purchases[p], a) \in Int
  BY <1>1, <1>2, <1>3, ChargeType DEF ChargeOf
<1>5. /\ value' \in [Accounts -> Int]
      /\ \A a \in Accounts : value'[a] = value[a] + ChargeOf(purchases[p], a) - ChargeOf(Deleted, a)
  BY <1>1, <1>3, <1>4
<1>6. /\ kept \in Seq(Movements) /\ MadeFor(kept, p) = <<>>
      /\ \A q \in Purchases : q # p => MadeFor(kept, q) = MadeFor(moves, q)
      /\ \A a \in Accounts : EffectOf(kept, a) = EffectOf(moves, a)
      /\ \A r \in Rules : OnceIn(kept, r) /\ DatesOf(kept, r) = DatesOf(moves, r)
  BY WithoutOne
<1>. HIDE DEF kept
<1>7. moves' = kept \o made
  BY <1>1, <1>6, ConcatEmptySeq
<1>8. /\ Exists(Deleted) => made = Instalments(p, Deleted)
      /\ ~Exists(Deleted) => made = <<>>
  BY <1>2
<1>. HIDE DEF made
<1> QED BY <1>1, <1>3, <1>5, <1>6, <1>7, <1>8, PurchaseChanged

(* The dates are the numbers from zero to the last day. *)
LEMMA DatesBetween ==
    ASSUME NEW d \in Dates, NEW f \in Dates, NEW e \in Int, d <= e, e <= f
    PROVE  e \in Dates
<1>1. d \in Nat /\ f \in Nat
  BY DatesHaveMonths
<1>2. 12 * YearCount - 1 \in Months
  BY MonthsAre
<1>3. LastOf[12 * YearCount - 1] \in Nat
  BY <1>2, MonthBounds
<1> QED BY <1>1, <1>3 DEF Dates

(* A movement the user records. *)
RecordedAs(x) ==
    [type |-> x.type, account |-> x.account, dest |-> x.dest, amount |-> x.amount,
     date |-> local + x.days, affects |-> x.affects, linked |-> x.linked,
     category |-> x.category, rule |-> None, purchase |-> None]

(* It is one of the movements no rule and no purchase charged. *)
LEMMA RecordedIs ==
    ASSUME ScheduleInv, NEW x \in Recordings
    PROVE  RecordedAs(x) \in Plain /\ RecordedAs(x).rule = None
<1>. DEFINE m == RecordedAs(x)
<1>1. /\ x.type \in {"expense", "income", "transfer"} /\ x.account \in Accounts
      /\ x.dest \in Accounts \cup {None} /\ x.amount \in Nat \ {0} /\ x.days \in Int
      /\ x.affects \in BOOLEAN /\ x.linked \in BOOLEAN /\ x.category \in Categories
  BY SchedulesConstants
<1>2. local + x.days \in Dates
  <2>1. PICK s \in StartDays, e \in LastDays : s <= local /\ utc <= e
    BY DEF ScheduleInv, ClockInv
  <2>2. s + x.days \in Dates /\ e + x.days \in Dates
    BY CalendarReaches
  <2>3. local \in Int /\ local <= utc /\ utc \in Int /\ s \in Int /\ e \in Int
    BY CalendarReaches, DatesHaveMonths DEF ScheduleInv, ClockInv
  <2>4. s + x.days <= local + x.days /\ local + x.days <= e + x.days /\ local + x.days \in Int
    BY <1>1, <2>1, <2>3
  <2> QED BY <2>2, <2>4, DatesBetween
<1>3. m \in [type : {"expense", "income", "transfer"}, account : Accounts,
             dest : Accounts \cup {None}, amount : Nat \ {0}, date : Dates,
             affects : BOOLEAN, linked : BOOLEAN, category : Categories,
             rule : Rules \cup {None}, purchase : Purchases \cup {None}]
  BY <1>1, <1>2 DEF RecordedAs
<1>4. /\ m.rule = None /\ m.purchase = None
      /\ m.type = x.type /\ m.dest = x.dest /\ m.account = x.account /\ m.linked = x.linked
  BY DEF RecordedAs
<1>5. IF x.type = "transfer" THEN x.dest \notin {None, x.account} ELSE x.dest = None /\ ~x.linked
  BY SchedulesConstants
<1>. HIDE DEF m
<1> QED BY <1>3, <1>4, <1>5 DEF Plain, Movements, m

(* A recorded movement is dated within the calendar and belongs to no schedule. *)
LEMMA RecordStep ==
    ASSUME ScheduleInv, NEW x \in Recordings, Record(x)
    PROVE  ScheduleInv'
<1>. DEFINE m == RecordedAs(x)
            ms == <<m>>
<1>1. Post(ms) /\ utc' = utc /\ local' = local /\ rules' = rules /\ purchases' = purchases
  BY DEF Record, RecordedAs
<1>2. m \in Plain /\ m.rule = None
  BY RecordedIs
<1>. HIDE DEF m
<1>3. ms \in Seq(Plain)
  BY <1>2, Single
<1>4. \A r \in Rules : DatesOf(ms, r) = {} /\ OnceIn(ms, r)
  <2>. TAKE r \in Rules
  <2>1. m.rule # r
    BY <1>2, SchedulesConstants
  <2>2. DatesOf(<<m>>, r) = (IF m.rule = r THEN {m.date} ELSE {}) /\ OnceIn(<<m>>, r)
    BY DatesOfOne
  <2> QED BY <2>1, <2>2
<1>. HIDE DEF ms
<1>5. /\ moves' \in Seq(Movements) /\ value' \in [Accounts -> Int]
      /\ PurchasesInv' /\ BalancesInv'
      /\ \A r \in Rules : /\ DatesOf(moves', r) = DatesOf(moves, r) \cup DatesOf(ms, r)
                          /\ OnceIn(ms, r) /\ DatesOf(moves, r) \cap DatesOf(ms, r) = {}
                             => OnceIn(moves', r)
  BY <1>1, <1>3, PostKeeps
<1>6. \A r \in Rules : OnceIn(moves', r) /\ RowKept(rules'[r], DatesOf(moves', r), utc')
  <2>. TAKE r \in Rules
  <2>1. RowKept(rules[r], DatesOf(moves, r), utc)
    BY DEF ScheduleInv, RulesInv
  <2>2. DatesOf(moves', r) = DatesOf(moves, r) /\ OnceIn(moves', r)
    BY <1>4, <1>5
  <2> QED BY <1>1, <2>1, <2>2
<1>7. RulesInv'
  BY <1>6 DEF RulesInv, OnceIn, DatesOf, RowKept, Covers, InStep, MonthAt, Occurrence
<1>8. RowsInv' /\ ClockInv'
  BY <1>1, <1>5 DEF ScheduleInv, RowsInv, ClockInv
<1> QED BY <1>5, <1>7, <1>8 DEF ScheduleInv

(* The clocks move on, and what was charged before them stays before them. *)
LEMMA ClockStep ==
    ASSUME ScheduleInv, UNCHANGED <<value, moves, rules, purchases>>, ClockInv', utc <= utc'
    PROVE  ScheduleInv'
<1>1. /\ moves' = moves /\ value' = value /\ rules' = rules /\ purchases' = purchases
  OBVIOUS
<1>2. /\ moves' \in Seq(Movements) /\ value' \in [Accounts -> Int]
      /\ PurchasesInv' /\ BalancesInv'
      /\ \A r \in Rules : OnceIn(moves', r) /\ DatesOf(moves', r) = DatesOf(moves, r)
  BY <1>1, PaymentsStand
<1>3. utc \in Int /\ utc' \in Int
  <2>1. utc \in Dates /\ (utc \in Dates)'
    BY DEF ScheduleInv, ClockInv
  <2>2. utc' \in Dates
    BY <2>1 DEF Dates
  <2> QED BY <2>1, <2>2, DatesHaveMonths
<1>4. \A r \in Rules : OnceIn(moves', r) /\ RowKept(rules'[r], DatesOf(moves', r), utc')
  <2>. TAKE r \in Rules
  <2>1. RowKept(rules[r], DatesOf(moves, r), utc)
    BY DEF ScheduleInv, RulesInv
  <2>2. RowKept(rules[r], DatesOf(moves, r), utc')
    BY <1>3, <2>1, RowKeptLater
  <2> QED BY <1>1, <1>2, <2>2
<1>5. RulesInv'
  BY <1>4 DEF RulesInv, OnceIn, DatesOf, RowKept, Covers, InStep, MonthAt, Occurrence
<1>6. RowsInv'
  BY <1>1 DEF ScheduleInv, RowsInv
<1> QED BY <1>2, <1>5, <1>6 DEF ScheduleInv

(* The server's day comes first, and not after the last one. *)
LEMMA UtcMidnightStep == ASSUME ScheduleInv, UtcMidnight PROVE ScheduleInv'
<1>1. /\ utc = local /\ utc \notin LastDays /\ utc' = utc + 1 /\ local' = local
      /\ UNCHANGED <<value, moves, rules, purchases>>
  BY DEF UtcMidnight
<1>2. PICK s \in StartDays, e \in LastDays : s <= local /\ utc <= e
  BY DEF ScheduleInv, ClockInv
<1>3. utc \in Dates /\ e \in Dates /\ utc \in Int /\ e \in Int
  BY CalendarReaches, DatesHaveMonths DEF ScheduleInv, ClockInv
<1>4. utc' <= e /\ utc <= utc' /\ utc' \in Int
  BY <1>1, <1>2, <1>3
<1>5. utc' \in Dates
  BY <1>3, <1>4, DatesBetween
<1>6. local' \in Int /\ local' \in {utc' - 1, utc'} /\ s <= local'
  BY <1>1, <1>2, <1>3
<1>7. ClockInv'
  BY <1>2, <1>4, <1>5, <1>6 DEF ClockInv, Dates
<1> QED BY <1>1, <1>4, <1>7, ClockStep

(* The browser's day follows. *)
LEMMA LocalMidnightStep == ASSUME ScheduleInv, LocalMidnight PROVE ScheduleInv'
<1>1. /\ local < utc /\ local' = local + 1 /\ utc' = utc
      /\ UNCHANGED <<value, moves, rules, purchases>>
  BY DEF LocalMidnight
<1>2. PICK s \in StartDays, e \in LastDays : s <= local /\ utc <= e
  BY DEF ScheduleInv, ClockInv
<1>3. utc \in Dates /\ utc \in Int /\ local \in Int /\ local \in {utc - 1, utc} /\ s \in Int
  BY CalendarReaches, DatesHaveMonths DEF ScheduleInv, ClockInv
<1>4. local' \in Int /\ local' = utc' /\ s <= local' /\ utc' <= e /\ utc <= utc'
  BY <1>1, <1>2, <1>3
<1>5. ClockInv'
  BY <1>1, <1>3, <1>4 DEF ClockInv, Dates
<1> QED BY <1>1, <1>4, <1>5, ClockStep

(* At first nothing was scheduled, and nothing recorded. *)
LEMMA ScheduleInit == Init => ScheduleInv
<1>. SUFFICES ASSUME Init PROVE ScheduleInv
  OBVIOUS
<1>1. /\ utc \in StartDays /\ local = utc /\ value = Opening /\ moves = <<>>
      /\ rules = [r \in Rules |-> Fresh] /\ purchases = [p \in Purchases |-> Fresh]
  BY DEF Init, SchedulesInit
<1>2. ClockInv
  <2>1. utc \in Dates /\ utc \in Int /\ \E e \in LastDays : utc <= e
    BY <1>1, CalendarReaches, DatesHaveMonths
  <2> QED BY <1>1, <2>1 DEF ClockInv
<1>3. RowsInv
  <2>1. moves \in Seq(Movements)
    BY <1>1, EmptySeq
  <2> QED BY <1>1, <2>1, SchedulesConstants DEF RowsInv
<1>4. ASSUME NEW r \in Rules PROVE OnceIn(moves, r) /\ RowKept(rules[r], DatesOf(moves, r), utc)
  <2>1. DatesOf(moves, r) = {} /\ OnceIn(moves, r)
    BY <1>1, DatesOfNothing
  <2>2. rules[r] = Fresh /\ ~Exists(Fresh)
    BY <1>1, RowsExist
  <2> QED BY <2>1, <2>2 DEF RowKept
<1>5. ASSUME NEW p \in Purchases
      PROVE  MadeFor(moves, p) = IF Exists(purchases[p]) THEN Instalments(p, purchases[p]) ELSE <<>>
  BY <1>1, RowsExist, MadeForNothing
<1>6. ASSUME NEW a \in Accounts PROVE BalanceFollows(a)
  <2>. DEFINE f == [p \in Purchases |-> ChargeOf(purchases[p], a)]
  <2>1. \A p \in Purchases : ChargeOf(purchases[p], a) = 0
    BY <1>1, RowsExist DEF ChargeOf
  <2>2. DOMAIN f = Purchases /\ f = [p \in Purchases |-> 0] /\ \A p \in Purchases : f[p] = 0
    BY <2>1
  <2>3. PurchasesCharged(a) = Total(f)
    BY DEF PurchasesCharged, ChargeOf
  <2>. HIDE DEF f
  <2>4. PurchasesCharged(a) = 0
    BY <2>2, <2>3, TotalZero, SchedulesConstants
  <2>5. EffectOf(moves, a) = 0 /\ Opening[a] \in Int
    BY <1>1, EffectOfNothing, SchedulesConstants
  <2> QED BY <1>1, <2>4, <2>5 DEF BalanceFollows
<1> QED BY <1>2, <1>3, <1>4, <1>5, <1>6 DEF ScheduleInv, RulesInv, PurchasesInv, BalancesInv

(* No step breaks the invariant: one action at a time. *)
LEMMA ScheduleNext == ScheduleInv /\ [Next]_vars => ScheduleInv'
<1>. SUFFICES ASSUME ScheduleInv, [Next]_vars PROVE ScheduleInv'
  OBVIOUS
<1>1. ASSUME NEW r \in Rules, NEW in \in RuleInputs, CreateRule(r, in) PROVE ScheduleInv'
  BY <1>1, CreateRuleStep
<1>2. ASSUME NEW r \in Rules, NEW in \in RuleInputs, NEW active \in BOOLEAN,
             NEW materialize \in BOOLEAN, UpdateRule(r, in, active, materialize)
      PROVE  ScheduleInv'
  BY <1>2, UpdateRuleStep
<1>3. ASSUME NEW r \in Rules, DeleteRule(r) PROVE ScheduleInv'
  BY <1>3, DeleteRuleStep
<1>4. CASE Process
  BY <1>4, ProcessStep
<1>5. ASSUME NEW p \in Purchases, NEW in \in PurchaseInputs, CreatePurchase(p, in)
      PROVE  ScheduleInv'
  BY <1>5, CreatePurchaseStep
<1>6. ASSUME NEW p \in Purchases, NEW in \in PurchaseInputs, UpdatePurchase(p, in)
      PROVE  ScheduleInv'
  BY <1>6, UpdatePurchaseStep
<1>7. ASSUME NEW p \in Purchases, DeletePurchase(p) PROVE ScheduleInv'
  BY <1>7, DeletePurchaseStep
<1>8. ASSUME NEW x \in Recordings, Record(x) PROVE ScheduleInv'
  BY <1>8, RecordStep
<1>9. CASE UtcMidnight
  BY <1>9, UtcMidnightStep
<1>10. CASE LocalMidnight
  BY <1>10, LocalMidnightStep
<1>11. CASE UNCHANGED vars
  <2>1. /\ UNCHANGED <<value, moves, rules, purchases>> /\ utc' = utc /\ local' = local
    BY <1>11 DEF vars, scheduleVars
  <2>2. ClockInv' /\ utc \in Int
    BY <2>1, DatesHaveMonths DEF ScheduleInv, ClockInv, Dates
  <2>3. utc <= utc'
    BY <2>1, <2>2
  <2> QED BY <2>1, <2>2, <2>3, ClockStep
<1> QED BY <1>1, <1>2, <1>3, <1>4, <1>5, <1>6, <1>7, <1>8, <1>9, <1>10, <1>11 DEF Next, SchedulesNext

-----------------------------------------------------------------------------
(* The theorems *)

(* Whatever is scheduled, edited, paused, caught up with and recorded, and    *)
(* whenever the days pass: a stored rule points at the occurrence after those *)
(* it charged, each of them charged once and before it; a purchase has just   *)
(* its instalments; and each balance is its opening with what was posted.     *)
THEOREM SchedulesInvariant == Spec => []ScheduleInv
<1>1. Init => ScheduleInv
  BY ScheduleInit
<1>2. ScheduleInv /\ [Next]_vars => ScheduleInv'
  BY ScheduleNext
<1> QED BY <1>1, <1>2, PTL DEF Spec

(* A kept rule charges no date twice, and since it was aligned each occurrence before the next. *)
LEMMA ChargedOnceFollows == ASSUME ScheduleInv, NEW r \in Rules PROVE ChargedOnce(r)
<1>1. OnceIn(moves, r) /\ RowKept(rules[r], DatesOf(moves, r), utc)
  BY DEF ScheduleInv, RulesInv
<1>2. RuleDates(r) = DatesOf(moves, r)
  BY DEF RuleDates, DatesOf
<1>3. \A i, j \in DOMAIN moves :
          moves[i].rule = r /\ moves[j].rule = r /\ moves[i].date = moves[j].date => i = j
  BY <1>1 DEF OnceIn
<1>4. ASSUME Exists(rules[r])
      PROVE  /\ rules[r].next = Occurrence(rules[r].start, rules[r].frequency, rules[r].occurrences)
             /\ {d \in RuleDates(r) :
                     d >= Occurrence(rules[r].start, rules[r].frequency, rules[r].since)}
                = {Occurrence(rules[r].start, rules[r].frequency, n) :
                       n \in rules[r].since .. rules[r].occurrences - 1}
  BY <1>1, <1>2, <1>4 DEF RowKept, Covers, InStep
<1> QED BY <1>3, <1>4 DEF ChargedOnce

(* The movements of a purchase are its instalments, which add up to it. *)
LEMMA InstalmentsFollow == ASSUME ScheduleInv, NEW p \in Purchases PROVE InstalmentsAddUp(p)
<1>1. MadeFor(moves, p) = IF Exists(purchases[p]) THEN Instalments(p, purchases[p]) ELSE <<>>
  BY DEF ScheduleInv, PurchasesInv
<1>2. CASE Exists(purchases[p])
  <2>. DEFINE in == purchases[p]
              ms == MadeFor(moves, p)
  <2>1. in \in PurchaseInputs
    BY <1>2 DEF ScheduleInv, RowsInv, Exists
  <2>2. ms = Instalments(p, in)
    BY <1>1, <1>2
  <2>3. /\ Total([i \in DOMAIN Instalments(p, in) |-> Instalments(p, in)[i].amount]) = in.total
        /\ \A i \in 1 .. Len(Instalments(p, in)) - 1 :
               MonthOf[Instalments(p, in)[i + 1].date] = MonthOf[Instalments(p, in)[i].date] + 1
    BY <2>1, InstalmentsAre
  <2>4. /\ Total([i \in DOMAIN ms |-> ms[i].amount]) = in.total
        /\ \A i \in 1 .. Len(ms) - 1 : MonthOf[ms[i + 1].date] = MonthOf[ms[i].date] + 1
    BY <2>2, <2>3
  <2> QED BY <1>2, <2>4 DEF InstalmentsAddUp
<1>3. CASE ~Exists(purchases[p])
  BY <1>1, <1>3 DEF InstalmentsAddUp
<1> QED BY <1>2, <1>3

(* Each payment is made once: no occurrence of a rule is charged twice or     *)
(* left out since its schedule was aligned, instalments fall in successive    *)
(* months and add up to what the card was charged, and balances follow what   *)
(* was posted, whatever edits, pauses, catch-ups and removals there were.     *)
THEOREM SchedulesAreKept == Spec => []SchedulesKept
<1>1. ScheduleInv => SchedulesKept
  BY ChargedOnceFollows, InstalmentsFollow DEF SchedulesKept, ScheduleInv, BalancesInv
<1> QED BY <1>1, SchedulesInvariant, PTL

(* The clocks stay a day apart at most, movements are dated within the        *)
(* calendar and positive, and a schedule points past what it made.            *)
THEOREM ProjectionsTyped == Spec => []ProjectionsTypeOK
<1>1. ScheduleInv => ProjectionsTypeOK
  <2>. SUFFICES ASSUME ScheduleInv PROVE ProjectionsTypeOK
    OBVIOUS
  <2>1. utc \in Dates /\ local \in {utc - 1, utc} /\ value \in [Accounts -> Int]
    BY DEF ScheduleInv, ClockInv, RowsInv
  <2>2. \A i \in DOMAIN moves : moves[i].date \in Dates /\ moves[i].amount > 0
    <3>. TAKE i \in DOMAIN moves
    <3>1. moves \in Seq(Movements) /\ i \in 1 .. Len(moves)
      BY LenProperties DEF ScheduleInv, RowsInv
    <3>2. moves[i] \in Movements
      BY <3>1, ElementOfSeq
    <3>3. moves[i].date \in Dates /\ moves[i].amount \in Nat \ {0}
      BY <3>2 DEF Movements
    <3> QED BY <3>3
  <2>3. \A r \in Rules : rules[r] \in {Fresh, Deleted} \/
            (rules[r].next \in Dates /\ rules[r].since <= rules[r].occurrences)
    <3>. TAKE r \in Rules
    <3>1. RowKept(rules[r], DatesOf(moves, r), utc)
      BY DEF ScheduleInv, RulesInv
    <3>2. CASE Exists(rules[r])
      <4>1. InStep(rules[r])
        BY <3>1, <3>2 DEF RowKept, Covers
      <4>2. rules[r] \in RuleRows /\ rules[r].since <= rules[r].occurrences
        BY <4>1 DEF InStep
      <4>3. rules[r].next \in Dates
        BY <4>2 DEF RuleRows
      <4> QED BY <4>2, <4>3
    <3> QED BY <3>2 DEF Exists
  <2>4. \A p \in Purchases : purchases[p] \in {Fresh, Deleted} \cup PurchaseInputs
    BY DEF ScheduleInv, RowsInv
  <2> QED BY <2>1, <2>2, <2>3, <2>4 DEF ProjectionsTypeOK
<1> QED BY <1>1, SchedulesInvariant, PTL

-----------------------------------------------------------------------------
(* The totals of the client *)

(* There are finitely many movements, each of its shape. *)
LEMMA LinesAre ==
    ASSUME ScheduleInv
    PROVE  IsFiniteSet(DOMAIN moves) /\ \A i \in DOMAIN moves : moves[i] \in Movements
<1>1. moves \in Seq(Movements)
  BY DEF ScheduleInv, RowsInv
<1>2. Len(moves) \in Nat /\ DOMAIN moves = 1 .. Len(moves) /\ \A i \in 1 .. Len(moves) : moves[i] \in Movements
  BY <1>1, LenProperties, ElementOfSeq
<1>3. IsFiniteSet(1 .. Len(moves))
  BY <1>2, FS_Interval
<1> QED BY <1>2, <1>3

(* What the totals read of a movement. *)
LEMMA MovementIs ==
    ASSUME NEW m \in Movements
    PROVE  /\ m.type \in {"expense", "income", "transfer"} /\ m.account \in Accounts
           /\ m.amount \in Nat \ {0} /\ m.date \in Int /\ m.date \in Dates
           /\ m.affects \in BOOLEAN /\ m.linked \in BOOLEAN /\ m.account # None
           /\ m.type = "transfer" => m.dest \in Accounts /\ m.dest # m.account
           /\ m.type # "transfer" => m.dest = None /\ ~m.linked
<1>1. m.date \in Dates
  BY DEF Movements
<1>2. m.date \in Int
  BY <1>1, DatesHaveMonths
<1>3. None \notin Accounts
  BY SchedulesConstants
<1> QED BY <1>1, <1>2, <1>3 DEF Movements

(* A movement changes an account by a number of cents. *)
LEMMA FlowType == ASSUME NEW m \in Movements, NEW a PROVE Flow(m, a) \in Int
<1>1. m.amount \in Int
  BY MovementIs
<1> QED BY <1>1 DEF Flow

(* Balances and limits are numbers of cents. *)
LEMMA CurrentType ==
    ASSUME ScheduleInv, NEW a \in Accounts
    PROVE  CurrentValue(a) \in Int
<1>1. value[a] \in Int
  BY DEF ScheduleInv, RowsInv
<1>2. a \in Cards => Limit[a] \in Int
  BY ProjectionsConstants
<1> QED BY <1>1, <1>2 DEF CurrentValue

(* What an account gains is what flows in: a card's debt is its value with the sign changed. *)
LEMMA ValueChange ==
    ASSUME ScheduleInv, NEW a \in Accounts, NEW d \in Int, NEW e \in Int, d <= e
    PROVE  LET g == [i \in DOMAIN moves |->
                        IF d < moves[i].date /\ moves[i].date <= e THEN Flow(moves[i], a) ELSE 0]
           IN  /\ g \in [DOMAIN moves -> Int] /\ Total(g) \in Int
               /\ ValueAt(a, d) \in Int /\ ValueAt(a, e) \in Int
               /\ a \in Cards => ValueAt(a, d) = ValueAt(a, e) + Total(g)
               /\ a \notin Cards => ValueAt(a, e) = ValueAt(a, d) + Total(g)
<1>. DEFINE S == DOMAIN moves
            g == [i \in S |-> IF d < moves[i].date /\ moves[i].date <= e THEN Flow(moves[i], a) ELSE 0]
            f(t) == [i \in S |-> IF moves[i].date > t THEN Direction(a) * Flow(moves[i], a) ELSE 0]
            c == CurrentValue(a)
<1>1. IsFiniteSet(S) /\ \A i \in S : moves[i].date \in Int /\ Flow(moves[i], a) \in Int
  BY LinesAre, MovementIs, FlowType
<1>2. \A t : ValueAt(a, t) = c - Total(f(t))
  BY DEF ValueAt, SumOf
<1>3. c \in Int
  BY CurrentType
<1>4. Direction(a) \in Int /\ (a \in Cards => Direction(a) = -1) /\ (a \notin Cards => Direction(a) = 1)
  BY DEF Direction
<1>5. \A t \in Int : f(t) \in [S -> Int]
  <2>1. \A n \in Int : Direction(a) * n \in Int
    BY <1>4
  <2> QED BY <1>1, <2>1
<1>6. g \in [S -> Int]
  BY <1>1
<1>7. CASE a \in Cards
  <2>1. \A i \in S : f(e)[i] = f(d)[i] + g[i]
    <3>. TAKE i \in S
    <3>1. moves[i].date \in Int /\ Flow(moves[i], a) \in Int /\ Direction(a) = -1
      BY <1>1, <1>4, <1>7
    <3>. HIDE DEF S
    <3>2. \A n \in Int : (-1) * n = -n /\ 0 = -n + n
      OBVIOUS
    <3> QED BY <3>1, <3>2
  <2>. HIDE DEF f, g, c, S
  <2>2. /\ Total(f(d)) \in Int /\ Total(g) \in Int /\ Total(f(e)) \in Int
        /\ Total(f(e)) = Total(f(d)) + Total(g)
    <3>1. f(d) \in [S -> Int] /\ f(e) \in [S -> Int]
      BY <1>5
    <3>2. \A u, v, w \in [S -> Int] :
              (\A i \in S : w[i] = u[i] + v[i])
              => /\ Total(u) \in Int /\ Total(v) \in Int /\ Total(w) \in Int
                 /\ Total(w) = Total(u) + Total(v)
      BY <1>1, TotalsPlus
    <3> QED BY <1>6, <2>1, <3>1, <3>2, Zenon
  <2>3. /\ ValueAt(a, d) \in Int /\ ValueAt(a, e) \in Int
        /\ ValueAt(a, d) = ValueAt(a, e) + Total(g)
    BY <1>2, <1>3, <2>2
  <2> QED BY <1>6, <1>7, <2>2, <2>3 DEF g, S
<1>8. CASE a \notin Cards
  <2>1. \A i \in S : f(d)[i] = f(e)[i] + g[i]
    <3>. TAKE i \in S
    <3>1. moves[i].date \in Int /\ Flow(moves[i], a) \in Int /\ Direction(a) = 1
      BY <1>1, <1>4, <1>8
    <3>. HIDE DEF S
    <3>2. \A n \in Int : 1 * n = n
      OBVIOUS
    <3> QED BY <3>1, <3>2
  <2>. HIDE DEF f, g, c, S
  <2>2. /\ Total(f(e)) \in Int /\ Total(g) \in Int /\ Total(f(d)) \in Int
        /\ Total(f(d)) = Total(f(e)) + Total(g)
    <3>1. f(e) \in [S -> Int] /\ f(d) \in [S -> Int]
      BY <1>5
    <3>2. \A u, v, w \in [S -> Int] :
              (\A i \in S : w[i] = u[i] + v[i])
              => /\ Total(u) \in Int /\ Total(v) \in Int /\ Total(w) \in Int
                 /\ Total(w) = Total(u) + Total(v)
      BY <1>1, TotalsPlus
    <3> QED BY <1>6, <2>1, <3>1, <3>2, Zenon
  <2>3. /\ ValueAt(a, d) \in Int /\ ValueAt(a, e) \in Int
        /\ ValueAt(a, e) = ValueAt(a, d) + Total(g)
    BY <1>2, <1>3, <2>2
  <2> QED BY <1>6, <1>8, <2>2, <2>3 DEF g, S
<1> QED BY <1>7, <1>8

(* A cycle that has begun gathers the change of the debt, what did not touch it and the payments. *)
LEMMA CycleExplained ==
    ASSUME ScheduleInv, NEW card \in Cards, NEW w, w.start \in Int, w.end \in Int,
           w.start <= w.end + 1, w.start <= local + 1
    PROVE  CycleExplainsDebt(card, w)
<1>. DEFINE S == DOMAIN moves
            past == UpToToday(w)
            d == w.start - 1
            e == past.end
            g == [i \in S |->
                     IF d < moves[i].date /\ moves[i].date <= e THEN Flow(moves[i], card) ELSE 0]
            f == [i \in S |-> IF /\ Touches(moves[i], card) /\ Within(moves[i].date, w)
                                 /\ moves[i].date <= local
                              THEN CycleCharge(moves[i], card) ELSE 0]
            q == [i \in S |-> IF Touches(moves[i], card) /\ Within(moves[i].date, past) /\ ~moves[i].affects
                              THEN CycleCharge(moves[i], card) ELSE 0]
            p == [i \in S |-> IF /\ moves[i].dest = card /\ moves[i].linked /\ moves[i].affects
                                 /\ Within(moves[i].date, past)
                              THEN moves[i].amount ELSE 0]
            h == [i \in S |-> q[i] + p[i]]
<1>1. IsFiniteSet(S) /\ \A i \in S : moves[i] \in Movements
  BY LinesAre
<1>2. local \in Int
  BY DEF ScheduleInv, ClockInv
<1>3. past.start = w.start /\ e = (IF w.end < local THEN w.end ELSE local) /\ e \in Int /\ d \in Int /\ d <= e
  BY <1>2 DEF UpToToday, Window
<1>4. card \in Accounts /\ card # None
  BY SchedulesConstants DEF Cards
<1>5. \A m \in Movements : CycleCharge(m, card) \in Int
  <2>. TAKE m \in Movements
  <2>1. m.amount \in Int
    BY MovementIs
  <2> QED BY <2>1 DEF CycleCharge
<1>6. CycleTotal(card, w, local) = Total(f)
  BY DEF CycleTotal, SumOf
<1>7. Silent(card, past) = Total(q)
  BY DEF Silent, SumOf
<1>8. StatementPayments(card, past) = Total(p)
  BY DEF StatementPayments, SumOf
<1>9. /\ g \in [S -> Int] /\ Total(g) \in Int
      /\ ValueAt(card, d) \in Int /\ ValueAt(card, e) \in Int
      /\ ValueAt(card, d) = ValueAt(card, e) + Total(g)
  <2>. HIDE DEF past, d, e
  <2> QED BY <1>3, <1>4, ValueChange
<1>10. f \in [S -> Int] /\ q \in [S -> Int] /\ p \in [S -> Int] /\ h \in [S -> Int]
  <2>1. \A i \in S : moves[i].amount \in Int
    BY <1>1, MovementIs
  <2>2. f \in [S -> Int] /\ q \in [S -> Int] /\ p \in [S -> Int]
    BY <1>1, <1>5, <2>1
  <2>. HIDE DEF f, q, p
  <2> QED BY <2>2
<1>11. \A i \in S : h[i] = f[i] + g[i]
  <2>. TAKE i \in S
  <2>. DEFINE m == moves[i]
              seen == d < m.date /\ m.date <= e
  <2>1. m \in Movements
    BY <1>1
  <2>. HIDE DEF m
  <2>2. /\ m.type \in {"expense", "income", "transfer"} /\ m.account \in Accounts
        /\ m.amount \in Int /\ m.date \in Int
        /\ m.affects \in BOOLEAN /\ m.linked \in BOOLEAN
        /\ m.type = "transfer" => m.dest \in Accounts /\ m.dest # m.account
        /\ m.type # "transfer" => m.dest = None /\ ~m.linked
    BY <2>1, MovementIs
  <2>3. /\ Within(m.date, past) <=> seen
        /\ Within(m.date, w) /\ m.date <= local <=> seen
    BY <1>2, <1>3, <2>2 DEF Within
  <2>4. /\ g[i] = IF seen THEN Flow(m, card) ELSE 0
        /\ f[i] = IF Touches(m, card) /\ seen THEN CycleCharge(m, card) ELSE 0
        /\ q[i] = IF Touches(m, card) /\ seen /\ ~m.affects THEN CycleCharge(m, card) ELSE 0
        /\ p[i] = IF m.dest = card /\ m.linked /\ m.affects /\ seen THEN m.amount ELSE 0
        /\ h[i] = q[i] + p[i]
    BY <2>3 DEF m
  <2>. HIDE DEF f, g, p, q, h, seen
  <2>5. CASE ~seen
    BY <2>4, <2>5
  <2>6. CASE seen /\ ~m.affects
    <3>1. Flow(m, card) = 0 /\ CycleCharge(m, card) \in Int
      BY <1>5, <2>1, <2>6 DEF Flow
    <3> QED BY <2>4, <2>6, <3>1
  <2>7. CASE seen /\ m.affects /\ ~Touches(m, card)
    <3>1. (Flow(m, card) = 0 /\ m.dest # card) \/ (~m.linked /\ Flow(m, card) = 0)
      BY <1>4, <2>2, <2>7 DEF Flow, Touches
    <3> QED BY <2>4, <2>7, <3>1
  <2>8. CASE seen /\ m.affects /\ Touches(m, card)
    <3>1. CASE m.type = "expense"
      <4>1. Flow(m, card) = -m.amount /\ CycleCharge(m, card) = m.amount /\ m.dest # card
        BY <1>4, <2>2, <2>8, <3>1 DEF Flow, Touches, CycleCharge
      <4> QED BY <2>2, <2>4, <2>8, <4>1
    <3>2. CASE m.type = "income"
      <4>1. Flow(m, card) = m.amount /\ CycleCharge(m, card) = -m.amount /\ m.dest # card
        BY <1>4, <2>2, <2>8, <3>2 DEF Flow, Touches, CycleCharge
      <4> QED BY <2>2, <2>4, <2>8, <4>1
    <3>3. CASE m.type = "transfer" /\ m.dest = card
      <4>1. /\ Flow(m, card) = m.amount
            /\ CycleCharge(m, card) = IF m.linked THEN 0 ELSE -m.amount
        BY <2>2, <2>8, <3>3 DEF Flow, CycleCharge
      <4> QED BY <2>2, <2>4, <2>8, <3>3, <4>1
    <3>4. CASE m.type = "transfer" /\ m.dest # card
      <4>1. Flow(m, card) = -m.amount /\ CycleCharge(m, card) = m.amount
        BY <2>2, <2>8, <3>4 DEF Flow, CycleCharge, Touches
      <4> QED BY <2>2, <2>4, <2>8, <3>4, <4>1
    <3> QED BY <2>2, <3>1, <3>2, <3>3, <3>4
  <2> QED BY <2>2, <2>5, <2>6, <2>7, <2>8
<1>12. \A i \in S : h[i] = q[i] + p[i]
  OBVIOUS
<1>. HIDE DEF S, f, g, h, p, q
<1>13. /\ Total(f) \in Int /\ Total(q) \in Int /\ Total(p) \in Int
       /\ Total(h) = Total(f) + Total(g) /\ Total(h) = Total(q) + Total(p)
  BY <1>1, <1>9, <1>10, <1>11, <1>12, TotalPlus
<1>14. Total(f) = ValueAt(card, e) - ValueAt(card, d) + Total(q) + Total(p)
  <2>. HIDE DEF d, e, past
  <2>1. \A A, B, C, D, E, F \in Int : A = B + C /\ D + C = E + F => D = B - A + E + F
    OBVIOUS
  <2> QED BY <1>9, <1>13, <2>1
<1> QED BY <1>6, <1>7, <1>8, <1>14 DEF CycleExplainsDebt

(* Recorded in all its accounts, an income adds, an expense takes away and a transfer does neither. *)
LEMMA FlowsOf ==
    ASSUME NEW m \in Movements
    PROVE  Total([a \in Accounts |-> Flow(m, a)])
           = IF ~m.affects THEN 0
             ELSE IF m.type = "income" THEN m.amount
             ELSE IF m.type = "expense" THEN -m.amount ELSE 0
<1>. DEFINE f == [a \in Accounts |-> Flow(m, a)]
<1>1. /\ m.type \in {"expense", "income", "transfer"} /\ m.account \in Accounts /\ m.amount \in Int
      /\ m.type = "transfer" => m.dest \in Accounts /\ m.dest # m.account
      /\ m.type # "transfer" => m.dest = None
  BY MovementIs
<1>2. IsFiniteSet(Accounts) /\ f \in [Accounts -> Int] /\ \A a \in Accounts : f[a] = Flow(m, a)
  BY SchedulesConstants, FlowType
<1>3. CASE ~m.affects
  <2>1. f = [a \in Accounts |-> 0]
    BY <1>3 DEF Flow
  <2> QED BY <1>2, <1>3, <2>1, TotalZero
<1>4. CASE m.affects /\ m.type # "transfer"
  <2>1. f[m.account] = (IF m.type = "income" THEN m.amount ELSE -m.amount)
        /\ \A a \in Accounts \ {m.account} : f[a] = 0
    BY <1>1, <1>2, <1>4 DEF Flow
  <2>. HIDE DEF f
  <2>2. Total(f) = f[m.account]
    BY <1>1, <1>2, <2>1, TotalOne
  <2> QED BY <1>1, <1>4, <2>1, <2>2 DEF f
<1>5. CASE m.affects /\ m.type = "transfer"
  <2>. DEFINE out == [a \in Accounts |-> IF a = m.account THEN -m.amount ELSE 0]
              in == [a \in Accounts |-> IF a = m.dest THEN m.amount ELSE 0]
  <2>1. \A a \in Accounts : f[a] = out[a] + in[a]
    BY <1>1, <1>2, <1>5 DEF Flow
  <2>2. /\ out \in [Accounts -> Int] /\ out[m.account] = -m.amount
        /\ \A a \in Accounts \ {m.account} : out[a] = 0
        /\ in \in [Accounts -> Int] /\ in[m.dest] = m.amount
        /\ \A a \in Accounts \ {m.dest} : in[a] = 0
    BY <1>1, <1>5
  <2>. HIDE DEF f, out, in
  <2>3. Total(out) = out[m.account]
    BY <1>1, <1>2, <2>2, TotalOne
  <2>4. Total(in) = in[m.dest]
    BY <1>1, <1>2, <1>5, <2>2, TotalOne
  <2>5. Total(f) = Total(out) + Total(in)
    <3>1. f \in [Accounts -> Int] /\ out \in [Accounts -> Int] /\ in \in [Accounts -> Int]
      BY <1>2, <2>2
    <3>2. IsFiniteSet(Accounts)
      BY <1>2
    <3> QED BY <2>1, <3>1, <3>2, TotalPlus
  <2>6. Total(f) = 0
    BY <1>1, <2>2, <2>3, <2>4, <2>5
  <2> QED BY <1>5, <2>6 DEF f
<1> QED BY <1>3, <1>4, <1>5

(* What an account is worth: a card, the less the more is owed on it. *)
Worth(a, d) == IF a \in Cards THEN -ValueAt(a, d) ELSE ValueAt(a, d)

(* What is worth in all between two dates changes by the income and the expenses in between. *)
LEMMA WorthChange ==
    ASSUME ScheduleInv, NEW d \in Int, NEW e \in Int, d <= e
    PROVE  /\ Total([a \in Accounts |-> Worth(a, d)]) \in Int
           /\ Total([a \in Accounts |-> Worth(a, e)]) \in Int
           /\ Total([a \in Accounts |-> Worth(a, e)]) - Total([a \in Accounts |-> Worth(a, d)])
              = Earned(Window(d + 1, e))
<1>. DEFINE S == DOMAIN moves
            seen(i) == d < moves[i].date /\ moves[i].date <= e
            F == [a \in Accounts |-> [i \in S |-> IF seen(i) THEN Flow(moves[i], a) ELSE 0]]
            old == [a \in Accounts |-> Worth(a, d)]
            new == [a \in Accounts |-> Worth(a, e)]
            gains == [a \in Accounts |-> Total(F[a])]
            flows == [i \in S |-> Total([a \in Accounts |-> F[a][i]])]
            w == Window(d + 1, e)
            Of(type) == [i \in S |-> IF moves[i].type = type /\ Within(moves[i].date, w)
                                     THEN moves[i].amount ELSE 0]
            Quiet(type) == [i \in S |-> IF /\ moves[i].type = type /\ Within(moves[i].date, w)
                                           /\ ~moves[i].affects
                                        THEN moves[i].amount ELSE 0]
            Loud(type) == [i \in S |-> IF /\ moves[i].type = type /\ Within(moves[i].date, w)
                                          /\ moves[i].affects
                                       THEN moves[i].amount ELSE 0]
<1>1. IsFiniteSet(S) /\ IsFiniteSet(Accounts) /\ \A i \in S : moves[i] \in Movements
  BY LinesAre, SchedulesConstants
<1>2. F \in [Accounts -> [S -> Int]]
  BY <1>1, FlowType
<1>3. \A a \in Accounts : /\ Total(F[a]) \in Int /\ Worth(a, d) \in Int
                          /\ Worth(a, e) = Worth(a, d) + Total(F[a])
  <2>. TAKE a \in Accounts
  <2>. DEFINE g == [i \in DOMAIN moves |->
                       IF d < moves[i].date /\ moves[i].date <= e THEN Flow(moves[i], a) ELSE 0]
  <2>1. /\ Total(g) \in Int /\ ValueAt(a, d) \in Int /\ ValueAt(a, e) \in Int
        /\ a \in Cards => ValueAt(a, d) = ValueAt(a, e) + Total(g)
        /\ a \notin Cards => ValueAt(a, e) = ValueAt(a, d) + Total(g)
    BY ValueChange
  <2>2. F[a] = g
    OBVIOUS
  <2>. HIDE DEF F, g
  <2>3. \A x, y, z \in Int : x = y + z => -y = -x + z
    OBVIOUS
  <2>4. CASE a \in Cards
    BY <2>1, <2>2, <2>3, <2>4 DEF Worth
  <2>5. CASE a \notin Cards
    BY <2>1, <2>2, <2>5 DEF Worth
  <2> QED BY <2>4, <2>5
<1>4. /\ old \in [Accounts -> Int] /\ new \in [Accounts -> Int] /\ gains \in [Accounts -> Int]
      /\ \A a \in Accounts : new[a] = old[a] + gains[a]
  <2>. HIDE DEF F
  <2> QED BY <1>3
<1>5. /\ Total(old) \in Int /\ Total(new) \in Int /\ Total(gains) \in Int
      /\ Total(new) = Total(old) + Total(gains)
  <2>. HIDE DEF old, new, gains, F
  <2> QED BY <1>1, <1>4, TotalPlus
<1>6. Total(gains) = Total(flows)
  <2>. HIDE DEF F, S
  <2> QED BY <1>1, <1>2, TotalSwapped
<1>7. \A i \in S : Within(moves[i].date, w) <=> seen(i)
  <2>. TAKE i \in S
  <2>1. moves[i].date \in Int
    BY <1>1, MovementIs
  <2> QED BY <2>1 DEF Within, Window
<1>8. \A i \in S : flows[i] = IF ~seen(i) \/ ~moves[i].affects THEN 0
                              ELSE IF moves[i].type = "income" THEN moves[i].amount
                              ELSE IF moves[i].type = "expense" THEN -moves[i].amount ELSE 0
  <2>. TAKE i \in S
  <2>. DEFINE col == [a \in Accounts |-> F[a][i]]
  <2>1. CASE seen(i)
    <3>1. col = [a \in Accounts |-> Flow(moves[i], a)]
      BY <2>1
    <3>2. moves[i] \in Movements
      BY <1>1
    <3>. HIDE DEF col, F, seen
    <3>3. Total(col) = IF ~moves[i].affects THEN 0
                       ELSE IF moves[i].type = "income" THEN moves[i].amount
                       ELSE IF moves[i].type = "expense" THEN -moves[i].amount ELSE 0
      BY <3>1, <3>2, FlowsOf
    <3> QED BY <2>1, <3>3 DEF col
  <2>2. CASE ~seen(i)
    <3>1. col = [a \in Accounts |-> 0]
      BY <2>2
    <3>. HIDE DEF col, F, seen
    <3>2. Total(col) = 0
      BY <1>1, <3>1, TotalZero
    <3> QED BY <2>2, <3>2 DEF col
  <2> QED BY <2>1, <2>2
<1>9. /\ \A i \in S : moves[i].amount \in Int /\ moves[i].type \in {"expense", "income", "transfer"}
      /\ flows \in [S -> Int]
  <2>1. \A i \in S : moves[i].amount \in Int /\ moves[i].type \in {"expense", "income", "transfer"}
    BY <1>1, MovementIs
  <2>2. \A i \in S : flows[i] \in Int
    <3>. HIDE DEF flows, seen
    <3> QED BY <1>8, <2>1
  <2>3. flows = [i \in S |-> flows[i]]
    OBVIOUS
  <2>. HIDE DEF flows
  <2> QED BY <2>1, <2>2, <2>3
<1>10. \A type : /\ Of(type) \in [S -> Int] /\ Quiet(type) \in [S -> Int] /\ Loud(type) \in [S -> Int]
                 /\ \A i \in S : Of(type)[i] = Quiet(type)[i] + Loud(type)[i]
  <2>. HIDE DEF w, flows, F, seen
  <2> QED BY <1>9
<1>11. \A i \in S : Loud("income")[i] = flows[i] + Loud("expense")[i]
  <2>. TAKE i \in S
  <2>1. \A type : Loud(type)[i] = IF moves[i].type = type /\ seen(i) /\ moves[i].affects
                                  THEN moves[i].amount ELSE 0
    BY <1>7
  <2>. HIDE DEF Loud, flows, seen
  <2> QED BY <1>8, <1>9, <2>1
<1>. HIDE DEF F, old, new, gains, flows, Of, Quiet, Loud, S
<1>12. \A type : /\ Total(Of(type)) \in Int /\ Total(Quiet(type)) \in Int /\ Total(Loud(type)) \in Int
                 /\ Total(Of(type)) = Total(Quiet(type)) + Total(Loud(type))
  BY <1>1, <1>10, TotalPlus
<1>13. /\ Total(flows) \in Int
       /\ Total(Loud("income")) = Total(flows) + Total(Loud("expense"))
  BY <1>1, <1>9, <1>10, <1>11, TotalPlus
<1>14. \A type : TypeTotal(type, w) = Total(Of(type)) /\ SilentTotal(type, w) = Total(Quiet(type))
  BY DEF TypeTotal, SilentTotal, SumOf, Of, Quiet, S
<1>15. Earned(w) = Total(flows)
  <2>. HIDE DEF w
  <2>1. \A A, B, C, D, E, X, Y \in Int : A = B + X /\ C = D + Y /\ X = E + Y => (A - B) - (C - D) = E
    OBVIOUS
  <2> QED BY <1>12, <1>13, <1>14, <2>1 DEF Earned
<1>16. Total(new) - Total(old) = Earned(w)
  <2>. HIDE DEF w
  <2> QED BY <1>5, <1>6, <1>15
<1> QED BY <1>5, <1>16 DEF old, new, w

(* Where all is known and no card is in credit, the chart shows what is worth in all. *)
LEMMA WorthShown ==
    ASSUME ScheduleInv, NEW d \in Int, AllKnown(d)
    PROVE  NetWorthAt(d) = Total([a \in Accounts |-> Worth(a, d)])
<1>1. Known(d) = Accounts /\ \A a \in Cards : ValueAt(a, d) >= 0
  BY DEF AllKnown
<1>2. \A a \in Accounts : ValueAt(a, d) \in Int
  <2>1. d <= d
    OBVIOUS
  <2> QED BY <2>1, ValueChange
<1>3. \A a \in Accounts : Worth(a, d) = IF a \in Cards THEN -AtLeastZero(ValueAt(a, d)) ELSE ValueAt(a, d)
  <2>1. \A n \in Int : n >= 0 => AtLeastZero(n) = n
    BY DEF AtLeastZero
  <2> QED BY <1>1, <1>2, <2>1 DEF Worth
<1>4. [a \in Known(d) |-> IF a \in Cards THEN -AtLeastZero(ValueAt(a, d)) ELSE ValueAt(a, d)]
      = [a \in Accounts |-> Worth(a, d)]
  BY <1>1, <1>3
<1> QED BY <1>4 DEF NetWorthAt

(* Net worth changes over a month by the income and the expenses of the statistics. *)
LEMMA FlowsExplained ==
    ASSUME ScheduleInv, NEW m \in Months, FirstOf[m] <= local
    PROVE  FlowsExplainWorth(m)
<1>. DEFINE w == UpToToday(MonthWindow(m))
            d == w.start - 1
            e == w.end
<1>1. local \in Int
  BY DEF ScheduleInv, ClockInv
<1>2. /\ w.start = FirstOf[m] /\ w.start \in Int
      /\ e = (IF LastOf[m] < local THEN LastOf[m] ELSE local) /\ e \in Int /\ d \in Int /\ d <= e
      /\ w = Window(d + 1, e)
  <2>1. FirstOf[m] \in Int /\ LastOf[m] \in Int /\ FirstOf[m] <= LastOf[m] /\ FirstOf[m] = (FirstOf[m] - 1) + 1
    BY MonthBounds
  <2> QED BY <1>1, <2>1 DEF UpToToday, MonthWindow, Window
<1>. HIDE DEF w, d, e
<1>3. ASSUME AllKnown(d), AllKnown(e)
      PROVE  NetWorthAt(e) - NetWorthAt(d) = Earned(w)
  <2>1. NetWorthAt(d) = Total([a \in Accounts |-> Worth(a, d)])
    BY <1>2, <1>3, WorthShown
  <2>2. NetWorthAt(e) = Total([a \in Accounts |-> Worth(a, e)])
    BY <1>2, <1>3, WorthShown
  <2> QED BY <1>2, <2>1, <2>2, WorthChange
<1> QED BY <1>3 DEF FlowsExplainWorth, w, d, e

(* After the last date of the calendar nothing moves. *)
LEMMA LastValue ==
    ASSUME ScheduleInv, NEW a \in Accounts
    PROVE  ValueAt(a, LastOf[12 * YearCount - 1]) = CurrentValue(a)
<1>. DEFINE S == DOMAIN moves
            last == LastOf[12 * YearCount - 1]
            f == [i \in S |-> IF moves[i].date > last THEN Direction(a) * Flow(moves[i], a) ELSE 0]
<1>1. IsFiniteSet(S) /\ CurrentValue(a) \in Int
  BY LinesAre, CurrentType
<1>2. last \in Int /\ \A i \in S : moves[i].date \in Int /\ moves[i].date <= last
  <2>1. last \in Int
    BY MonthsAre, MonthBounds
  <2>2. \A i \in S : moves[i].date \in Dates
    BY LinesAre, MovementIs
  <2> QED BY <2>1, <2>2 DEF Dates
<1>. HIDE DEF last
<1>3. f = [i \in S |-> 0]
  BY <1>2
<1>4. ValueAt(a, last) = CurrentValue(a) - Total(f)
  BY DEF ValueAt, SumOf
<1>. HIDE DEF f, S
<1>5. Total(f) = 0
  BY <1>1, <1>3, TotalZero
<1> QED BY <1>1, <1>4, <1>5 DEF last

(* The balances of the dashboard are what is worth with all that is dated ahead. *)
LEMMA BalancesAreWorth ==
    ASSUME ScheduleInv
    PROVE  LET last == LastOf[12 * YearCount - 1]
           IN  /\ TotalBalance \in Int /\ TotalDebt \in Int
               /\ TotalBalance - TotalDebt = Total([a \in Accounts |-> Worth(a, last)])
<1>. DEFINE last == LastOf[12 * YearCount - 1]
            Others == Accounts \ Cards
            held == [a \in Accounts |-> IF a \in Cards THEN 0 ELSE CurrentValue(a)]
            owed == [a \in Accounts |-> IF a \in Cards THEN CurrentValue(a) ELSE 0]
            all == [a \in Accounts |-> Worth(a, last)]
<1>1. /\ IsFiniteSet(Accounts) /\ Cards \subseteq Accounts /\ Others \subseteq Accounts
      /\ \A a \in Accounts : CurrentValue(a) \in Int
  BY SchedulesConstants, CurrentType DEF Cards
<1>2. \A a \in Accounts : all[a] = IF a \in Cards THEN -CurrentValue(a) ELSE CurrentValue(a)
  BY LastValue DEF Worth
<1>3. /\ held \in [Accounts -> Int] /\ owed \in [Accounts -> Int] /\ all \in [Accounts -> Int]
      /\ \A a \in Accounts : held[a] = all[a] + owed[a]
  <2>1. \A a \in Accounts : all[a] \in Int
    BY <1>1, <1>2
  <2>2. all = [a \in Accounts |-> all[a]]
    OBVIOUS
  <2>. HIDE DEF all
  <2>3. \A n \in Int : 0 = -n + n /\ n = n + 0
    OBVIOUS
  <2> QED BY <1>1, <1>2, <2>1, <2>2, <2>3
<1>4. /\ [a \in Others |-> held[a]] = [a \in Others |-> CurrentValue(a)]
      /\ [a \in Cards |-> owed[a]] = [a \in Cards |-> CurrentValue(a)]
      /\ (\A a \in Accounts \ Others : held[a] = 0) /\ \A a \in Accounts \ Cards : owed[a] = 0
  BY <1>1
<1>. HIDE DEF held, owed, all, Others
<1>5. Total(held) = Total([a \in Others |-> held[a]])
  <2>1. /\ IsFiniteSet(Accounts) /\ held \in [Accounts -> Int] /\ Others \subseteq Accounts
        /\ \A a \in Accounts \ Others : held[a] = 0
    BY <1>1, <1>3, <1>4
  <2> QED BY <2>1, TotalWithin
<1>6. Total(owed) = Total([a \in Cards |-> owed[a]])
  <2>1. /\ IsFiniteSet(Accounts) /\ owed \in [Accounts -> Int] /\ Cards \subseteq Accounts
        /\ \A a \in Accounts \ Cards : owed[a] = 0
    BY <1>1, <1>3, <1>4
  <2> QED BY <2>1, TotalWithin
<1>7. TotalBalance = Total(held) /\ TotalDebt = Total(owed)
  BY <1>4, <1>5, <1>6 DEF TotalBalance, TotalDebt, Others
<1>8. /\ Total(held) \in Int /\ Total(owed) \in Int /\ Total(all) \in Int
      /\ Total(held) = Total(all) + Total(owed)
  BY <1>1, <1>3, TotalPlus
<1>9. TotalBalance \in Int /\ TotalDebt \in Int /\ TotalBalance - TotalDebt = Total(all)
  BY <1>7, <1>8
<1> QED BY <1>9 DEF all

(* The net worth of the dashboard is that of today with the movements dated ahead. *)
LEMMA AnticipationExplained == ASSUME ScheduleInv PROVE BalancesAnticipate
<1>. DEFINE last == LastOf[12 * YearCount - 1]
            now == Total([a \in Accounts |-> Worth(a, local)])
            then == Total([a \in Accounts |-> Worth(a, last)])
<1>1. local \in Int /\ last \in Int /\ local <= last
  <2>1. last \in Int
    BY MonthsAre, MonthBounds
  <2>2. local \in Int /\ utc \in Int /\ local <= utc /\ utc <= last
    BY <2>1, DatesHaveMonths DEF ScheduleInv, ClockInv, Dates
  <2> QED BY <2>1, <2>2
<1>2. TotalBalance \in Int /\ TotalDebt \in Int /\ TotalBalance - TotalDebt = then
  BY BalancesAreWorth
<1>3. now \in Int /\ then \in Int /\ then - now = Earned(Window(local + 1, last))
  <2>. HIDE DEF last
  <2> QED BY <1>1, WorthChange
<1>4. AllKnown(local) => NetWorthAt(local) = now
  BY <1>1, WorthShown
<1>. HIDE DEF now, then
<1>5. AllKnown(local) => TotalBalance - TotalDebt - NetWorthAt(local) = Earned(Window(local + 1, last))
  BY <1>2, <1>3, <1>4
<1> QED BY <1>5 DEF BalancesAnticipate, last

-----------------------------------------------------------------------------
(* Totals over months *)

(* Today is a date; its month, the two before it and the next are in the calendar. *)
LEMMA TodayIs ==
    ASSUME ScheduleInv
    PROVE  LET m == MonthOf[local]
           IN  /\ local \in Dates /\ local \in Int /\ m \in Int
               /\ m \in Months /\ m - 1 \in Months /\ m - 2 \in Months /\ m + 1 \in Months
               /\ FirstOf[m] \in Int /\ LastOf[m] \in Int
               /\ FirstOf[m] <= local /\ local <= LastOf[m]
<1>. DEFINE m == MonthOf[local]
<1>1. PICK s \in StartDays : s <= local
  BY DEF ScheduleInv, ClockInv
<1>2. s \in Dates /\ utc \in Dates /\ local \in Int /\ local <= utc /\ YearAhead(utc) /\ MonthOf[s] - 2 \in Months
  BY CalendarReaches, ProjectionsConstants, ClockAhead, DatesHaveMonths DEF ScheduleInv, ClockInv
<1>3. local \in Dates
  BY <1>1, <1>2, DatesBetween
<1>4. /\ m \in Months /\ MonthOf[s] \in Months /\ MonthOf[utc] \in Months
      /\ FirstOf[m] <= local /\ local <= LastOf[m] /\ MonthOf[s] <= m /\ m <= MonthOf[utc]
  BY <1>1, <1>2, <1>3, DatesHaveMonths, DatesInOrder
<1>. HIDE DEF m
<1>5. MonthOf[utc] + 12 \in Months
  BY <1>2 DEF YearAhead
<1>6. m \in Int /\ m - 1 \in Months /\ m - 2 \in Months /\ m + 1 \in Months
  BY <1>2, <1>4, <1>5, MonthsAre
<1>7. FirstOf[m] \in Int /\ LastOf[m] \in Int
  BY <1>4, MonthBounds
<1> QED BY <1>2, <1>3, <1>4, <1>6, <1>7 DEF m

(* The total of a window is that of its days until one of them and that of those after it. *)
LEMMA TypeTotalSplit ==
    ASSUME ScheduleInv, NEW type, NEW a \in Int, NEW b \in Int, NEW c \in Int, a <= b + 1, b <= c
    PROVE  /\ TypeTotal(type, Window(a, b)) \in Int /\ TypeTotal(type, Window(b + 1, c)) \in Int
           /\ TypeTotal(type, Window(a, c))
              = TypeTotal(type, Window(a, b)) + TypeTotal(type, Window(b + 1, c))
<1>. DEFINE S == DOMAIN moves
            f(w) == [i \in S |-> IF moves[i].type = type /\ Within(moves[i].date, w)
                                 THEN moves[i].amount ELSE 0]
            all == f(Window(a, c))
            one == f(Window(a, b))
            two == f(Window(b + 1, c))
<1>1. IsFiniteSet(S) /\ \A i \in S : moves[i].amount \in Int /\ moves[i].date \in Int
  BY LinesAre, MovementIs
<1>2. \A w : TypeTotal(type, w) = Total(f(w)) /\ f(w) \in [S -> Int]
  BY <1>1 DEF TypeTotal, SumOf
<1>3. \A i \in S : /\ Within(moves[i].date, Window(a, c)) <=>
                          Within(moves[i].date, Window(a, b)) \/ Within(moves[i].date, Window(b + 1, c))
                   /\ ~(Within(moves[i].date, Window(a, b)) /\ Within(moves[i].date, Window(b + 1, c)))
  BY <1>1 DEF Within, Window
<1>4. \A i \in S : all[i] = one[i] + two[i]
  <2>. TAKE i \in S
  <2>1. \A w : f(w)[i] = IF moves[i].type = type /\ Within(moves[i].date, w) THEN moves[i].amount ELSE 0
    OBVIOUS
  <2>. HIDE DEF f
  <2> QED BY <1>1, <1>3, <2>1
<1>5. all \in [S -> Int] /\ one \in [S -> Int] /\ two \in [S -> Int]
  BY <1>2
<1>6. /\ TypeTotal(type, Window(a, c)) = Total(all) /\ TypeTotal(type, Window(a, b)) = Total(one)
      /\ TypeTotal(type, Window(b + 1, c)) = Total(two)
  BY <1>2
<1>. HIDE DEF all, one, two, f, S
<1>7. Total(one) \in Int /\ Total(two) \in Int /\ Total(all) = Total(one) + Total(two)
  BY <1>1, <1>4, <1>5, TotalPlus
<1> QED BY <1>6, <1>7

(* The pages say the same of this month and of the last one, but for the days each leaves out. *)
LEMMA MonthsSaySame == ASSUME ScheduleInv PROVE SameMonth
<1>. DEFINE m == MonthOf[local]
            month == ResolveRange("month", m, local)
            back == Period(local, -1).asOf
<1>1. /\ local \in Dates /\ local \in Int /\ m \in Int /\ m \in Months /\ m - 1 \in Months
      /\ FirstOf[m] \in Int /\ LastOf[m] \in Int /\ FirstOf[m] <= local /\ local <= LastOf[m]
  BY TodayIs
<1>2. month = Window(FirstOf[m], LastOf[m])
  BY DEF ResolveRange, MonthWindow
<1>3. Period(local, 0).start = FirstOf[m] /\ Period(local, 0).asOf = local
  <2>1. m + 0 = m
    BY <1>1
  <2>2. Clamped(m, DayOf(local)) = local
    BY <1>1, ClampedDate
  <2>3. Period(local, 0).start = FirstOf[m + 0] /\ Period(local, 0).asOf = Clamped(m + 0, DayOf(local))
    BY DEF Period
  <2>. HIDE DEF m
  <2> QED BY <2>1, <2>2, <2>3
<1>4. /\ Period(local, -1).start = FirstOf[m - 1] /\ back \in Int
      /\ FirstOf[m - 1] <= back /\ back <= LastOf[m - 1]
      /\ FirstOf[m - 1] \in Int /\ LastOf[m - 1] \in Int
  <2>1. m + (-1) = m - 1
    BY <1>1
  <2>2. Period(local, -1).start = FirstOf[m + (-1)] /\ back = Clamped(m + (-1), DayOf(local))
    BY DEF Period
  <2>3. DayOf(local) \in Nat \ {0}
    BY <1>1, ClampedDate
  <2>. HIDE DEF m, back
  <2>4. back \in Dates /\ MonthOf[back] = m - 1
    BY <1>1, <2>1, <2>2, <2>3, ClampedDay
  <2>5. back \in Int /\ FirstOf[m - 1] <= back /\ back <= LastOf[m - 1]
    BY <2>4, DatesHaveMonths
  <2>6. FirstOf[m - 1] \in Int /\ LastOf[m - 1] \in Int
    BY <1>1, MonthBounds
  <2> QED BY <2>1, <2>2, <2>5, <2>6
<1>5. LastOf[m - 1] < local
  <2>1. LastOf[m - 1] < FirstOf[m]
    BY <1>1, MonthsApart
  <2>. HIDE DEF m
  <2> QED BY <1>1, <1>4, <2>1
<1>6. UpToToday(month) = Window(FirstOf[m], local)
  <2>1. month.start = FirstOf[m] /\ month.end = LastOf[m]
    BY <1>2 DEF Window
  <2>. HIDE DEF month, m
  <2>2. ~(month.end < local) \/ month.end = local
    BY <1>1, <2>1
  <2> QED BY <2>1, <2>2 DEF UpToToday
<1>7. UpToToday(MonthWindow(m - 1)) = MonthWindow(m - 1) /\ MonthWindow(m - 1) = Window(FirstOf[m - 1], LastOf[m - 1])
  <2>. HIDE DEF m
  <2> QED BY <1>5 DEF UpToToday, MonthWindow, Window
<1>. HIDE DEF m, month, back
<1>8. ASSUME NEW type
      PROVE  /\ DashboardTotal(type, 0) = StatsTotal(type, month)
             /\ CalendarTotal(type, m) - StatsTotal(type, month)
                = TypeTotal(type, Window(local + 1, month.end))
             /\ StatsTotal(type, MonthWindow(m - 1)) = CalendarTotal(type, m - 1)
             /\ StatsTotal(type, MonthWindow(m - 1)) - DashboardTotal(type, -1)
                = TypeTotal(type, Window(back + 1, LastOf[m - 1]))
  <2>1. /\ DashboardTotal(type, 0) = TypeTotal(type, Window(FirstOf[m], local))
        /\ DashboardTotal(type, -1) = TypeTotal(type, Window(FirstOf[m - 1], back))
    BY <1>3, <1>4 DEF DashboardTotal, back
  <2>2. /\ StatsTotal(type, month) = TypeTotal(type, Window(FirstOf[m], local))
        /\ StatsTotal(type, MonthWindow(m - 1)) = TypeTotal(type, Window(FirstOf[m - 1], LastOf[m - 1]))
    BY <1>6, <1>7 DEF StatsTotal
  <2>3. /\ CalendarTotal(type, m) = TypeTotal(type, Window(FirstOf[m], LastOf[m]))
        /\ CalendarTotal(type, m - 1) = TypeTotal(type, Window(FirstOf[m - 1], LastOf[m - 1]))
    BY <1>7 DEF CalendarTotal, MonthWindow
  <2>4. month.end = LastOf[m]
    BY <1>2 DEF Window
  <2>5. /\ TypeTotal(type, Window(FirstOf[m], local)) \in Int
        /\ TypeTotal(type, Window(local + 1, LastOf[m])) \in Int
        /\ TypeTotal(type, Window(FirstOf[m], LastOf[m]))
           = TypeTotal(type, Window(FirstOf[m], local)) + TypeTotal(type, Window(local + 1, LastOf[m]))
    <3>1. FirstOf[m] <= local + 1
      BY <1>1
    <3> QED BY <1>1, <3>1, TypeTotalSplit
  <2>6. /\ TypeTotal(type, Window(FirstOf[m - 1], back)) \in Int
        /\ TypeTotal(type, Window(back + 1, LastOf[m - 1])) \in Int
        /\ TypeTotal(type, Window(FirstOf[m - 1], LastOf[m - 1]))
           = TypeTotal(type, Window(FirstOf[m - 1], back)) + TypeTotal(type, Window(back + 1, LastOf[m - 1]))
    <3>1. FirstOf[m - 1] <= back + 1
      BY <1>4
    <3> QED BY <1>4, <3>1, TypeTotalSplit
  <2> QED BY <2>1, <2>2, <2>3, <2>4, <2>5, <2>6
<1> QED BY <1>8 DEF SameMonth, m, month, back

-----------------------------------------------------------------------------
(* Card cycles *)

(* The last cut and the one before fall in the months before, and today is after the last. *)
LEMMA CyclesAre ==
    ASSUME ScheduleInv, NEW cut \in CutDays
    PROVE  LET c == CreditCardCycles(cut, cut, local)
           IN  /\ c.open.start \in Int /\ c.open.end \in Int
               /\ c.previous.start \in Int /\ c.previous.end \in Int
               /\ c.previous.end + 1 = c.open.start
               /\ c.open.start <= local /\ local <= c.open.end
               /\ c.previous.start <= c.previous.end
<1>. DEFINE m == MonthOf[local]
            end == OpenEnd(cut, local)
            last == CutBefore(end, cut)
            before == CutBefore(last, cut)
            c == CreditCardCycles(cut, cut, local)
<1>1. /\ local \in Dates /\ local \in Int /\ m \in Int /\ m \in Months /\ m - 1 \in Months
      /\ m - 2 \in Months /\ m + 1 \in Months
      /\ FirstOf[m] \in Int /\ LastOf[m] \in Int /\ FirstOf[m] <= local /\ local <= LastOf[m]
  BY TodayIs
<1>2. cut \in Nat \ {0}
  BY ProjectionsConstants
<1>3. /\ c.open.start = last + 1 /\ c.open.end = end
      /\ c.previous.start = before + 1 /\ c.previous.end = last
  BY DEF CreditCardCycles, Cycle
<1>4. \A k \in Months : /\ Clamped(k, cut) \in Dates /\ Clamped(k, cut) \in Int
                        /\ MonthOf[Clamped(k, cut)] = k
  BY <1>2, ClampedDay, DatesHaveMonths
<1>5. \A d, e \in Dates : MonthOf[d] < MonthOf[e] => d < e
  BY DatesInOrder
<1>. HIDE DEF m, c
<1>6. CASE local <= Clamped(m, cut)
  <2>1. end = Clamped(m, cut)
    BY <1>6 DEF OpenEnd, m
  <2>2. MonthOf[end] = m
    BY <1>1, <1>4, <2>1
  <2>3. last = Clamped(m - 1, cut)
    BY <2>2 DEF CutBefore
  <2>4. MonthOf[last] = m - 1 /\ (m - 1) - 1 = m - 2
    BY <1>1, <1>4, <2>3
  <2>5. before = Clamped(m - 2, cut)
    BY <2>4 DEF CutBefore
  <2>. HIDE DEF end, last, before
  <2>6. last < local
    BY <1>1, <1>4, <1>5, <2>3, <2>4 DEF m
  <2>7. before < last
    BY <1>1, <1>4, <1>5, <2>3, <2>5
  <2>8. end \in Int /\ last \in Int /\ before \in Int
    BY <1>1, <1>4, <2>1, <2>3, <2>5
  <2> QED BY <1>1, <1>3, <1>6, <2>1, <2>6, <2>7, <2>8 DEF c
<1>7. CASE ~(local <= Clamped(m, cut))
  <2>1. end = Clamped(m + 1, cut)
    BY <1>7 DEF OpenEnd, m
  <2>2. MonthOf[end] = m + 1 /\ (m + 1) - 1 = m
    BY <1>1, <1>4, <2>1
  <2>3. last = Clamped(m, cut)
    BY <2>2 DEF CutBefore
  <2>4. MonthOf[last] = m
    BY <1>1, <1>4, <2>3
  <2>5. before = Clamped(m - 1, cut)
    BY <2>4 DEF CutBefore
  <2>. HIDE DEF end, last, before
  <2>6. last < local
    BY <1>1, <1>4, <1>7, <2>3
  <2>7. before < last
    BY <1>1, <1>4, <1>5, <2>3, <2>5
  <2>8. local < end
    BY <1>1, <1>4, <1>5, <2>1, <2>2 DEF m
  <2>9. end \in Int /\ last \in Int /\ before \in Int
    BY <1>1, <1>4, <2>1, <2>3, <2>5
  <2> QED BY <1>1, <1>3, <2>6, <2>7, <2>8, <2>9 DEF c
<1> QED BY <1>6, <1>7

(* What a card owes follows from its cycles. *)
LEMMA CyclesExplained ==
    ASSUME ScheduleInv, NEW card \in Cards, NEW cut \in CutDays
    PROVE  LET cycles == CreditCardCycles(cut, cut, local)
           IN  CycleExplainsDebt(card, cycles.open) /\ CycleExplainsDebt(card, cycles.previous)
<1>. DEFINE c == CreditCardCycles(cut, cut, local)
            open == c.open
            previous == c.previous
<1>1. /\ open.start \in Int /\ open.end \in Int /\ previous.start \in Int /\ previous.end \in Int
      /\ previous.end + 1 = open.start /\ open.start <= local /\ local <= open.end
      /\ previous.start <= previous.end /\ local \in Int
  BY CyclesAre, TodayIs
<1>. HIDE DEF open, previous
<1>2. /\ open.start <= open.end + 1 /\ open.start <= local + 1
      /\ previous.start <= previous.end + 1 /\ previous.start <= local + 1
  BY <1>1
<1>3. CycleExplainsDebt(card, open)
  BY <1>1, <1>2, CycleExplained
<1>4. CycleExplainsDebt(card, previous)
  BY <1>1, <1>2, CycleExplained
<1> QED BY <1>3, <1>4 DEF open, previous

-----------------------------------------------------------------------------
(* Budgets *)

(* Of the budgets of one kind, one is the latest. *)
LEMMA LatestIs ==
    ASSUME NEW B, B \subseteq Budgets, B # {}
    PROVE  \E b \in B : Latest(B) = {b}
<1>1. IsFiniteSet(B) /\ \A b \in B : b.start \in Int /\ b.id \in Int
  <2>1. IsFiniteSet(B)
    BY ProjectionsConstants, FS_Subset
  <2>2. \A b \in B : b.start \in Dates /\ b.id \in Nat
    BY ProjectionsConstants
  <2> QED BY <2>1, <2>2, DatesHaveMonths
<1>2. PICK first \in B : \A b \in B : b.start <= first.start
  <2>. DEFINE f == [b \in B |-> b.start]
  <2>1. f \in [B -> Int] /\ \A b \in B : f[b] = b.start
    BY <1>1
  <2>. HIDE DEF f
  <2>2. PICK x \in B : \A b \in B : f[b] <= f[x]
    BY <1>1, <2>1, GreatestValue
  <2> QED BY <2>1, <2>2
<1>3. PICK top \in B : /\ top.start = first.start
                       /\ \A b \in B : b.start = first.start => b.id <= top.id
  <2>. DEFINE ties == {b \in B : b.start = first.start}
              f == [b \in ties |-> b.id]
  <2>1. IsFiniteSet(ties) /\ first \in ties /\ \A b : b \in ties <=> b \in B /\ b.start = first.start
    BY <1>1, <1>2, FS_Subset
  <2>. HIDE DEF ties
  <2>2. f \in [ties -> Int] /\ \A b \in ties : f[b] = b.id
    BY <1>1, <2>1
  <2>. HIDE DEF f
  <2>3. PICK x \in ties : \A b \in ties : f[b] <= f[x]
    BY <2>1, <2>2, GreatestValue
  <2> QED BY <2>1, <2>2, <2>3
<1>4. \A b \in B \ {top} : b.start < top.start \/ (b.start = top.start /\ b.id < top.id)
  <2>. TAKE b \in B \ {top}
  <2>1. b.id # top.id
    BY ProjectionsConstants
  <2> QED BY <1>1, <1>2, <1>3, <2>1
<1>5. \A b \in B \ {top} : IsLaterBudget(top, b) /\ ~IsLaterBudget(b, top)
  BY <1>1, <1>4 DEF IsLaterBudget
<1>6. Latest(B) = {top}
  BY <1>5 DEF Latest
<1> QED BY <1>6

(* The budgets in force: one for all, or no two of a category. *)
LEMMA ApplicableAre ==
    ASSUME NEW today
    PROVE  LET A == ApplicableBudgets(Budgets, today)
           IN  /\ A \subseteq Budgets /\ IsFiniteSet(A) /\ \A b \in A : Begun(b, today)
               /\ (\E b \in A : b.category = "all") => \E b \in A : A = {b} /\ b.category = "all"
               /\ (\A b \in A : b.category # "all") =>
                      \A b, c \in A : b.category = c.category => b = c
<1>. DEFINE A == ApplicableBudgets(Budgets, today)
            begun == {b \in Budgets : Begun(b, today)}
            Of(c) == {b \in begun : b.category = c}
<1>1. \A c : Of(c) \subseteq Budgets /\ \A b \in Of(c) : Begun(b, today) /\ b.category = c
  OBVIOUS
<1>2. A = IF Of("all") # {} THEN Latest(Of("all")) ELSE UNION {Latest(Of(b.category)) : b \in begun}
  BY Zenon DEF ApplicableBudgets
<1>3. \A b : b \in begun => b \in Of(b.category)
  OBVIOUS
<1>. HIDE DEF A, Of, begun
<1>4. \A c : Of(c) # {} => \E b \in Of(c) : Latest(Of(c)) = {b}
  BY <1>1, LatestIs
<1>5. CASE Of("all") # {}
  <2>1. PICK b \in Of("all") : A = {b}
    BY <1>2, <1>4, <1>5
  <2>2. b \in Budgets /\ Begun(b, today) /\ b.category = "all"
    BY <1>1
  <2>3. IsFiniteSet(A)
    BY <2>1, FS_Singleton
  <2> QED BY <2>1, <2>2, <2>3 DEF A
<1>6. CASE Of("all") = {}
  <2>1. A = UNION {Latest(Of(b.category)) : b \in begun}
    BY <1>2, <1>6
  <2>2. \A b \in A : \E x \in begun : b \in Latest(Of(x.category))
    BY <2>1
  <2>3. \A b \in A : b \in Of(b.category) /\ Latest(Of(b.category)) = {b}
    <3>. TAKE b \in A
    <3>1. PICK x \in begun : b \in Latest(Of(x.category))
      BY <2>2
    <3>2. PICK t \in Of(x.category) : Latest(Of(x.category)) = {t}
      BY <1>3, <1>4
    <3>3. b = t /\ b \in Of(x.category) /\ b.category = x.category
      BY <1>1, <3>1, <3>2
    <3> QED BY <3>2, <3>3
  <2>4. \A b \in A : b \in Budgets /\ Begun(b, today) /\ b.category # "all"
    BY <1>1, <1>6, <2>3
  <2>5. \A b, c \in A : b.category = c.category => b = c
    <3>. TAKE b, c \in A
    <3>. HAVE b.category = c.category
    <3>1. {b} = {c}
      BY <2>3
    <3> QED BY <3>1
  <2>6. IsFiniteSet(A)
    BY <2>4, ProjectionsConstants, FS_Subset
  <2> QED BY <2>4, <2>5, <2>6 DEF A
<1> QED BY <1>5, <1>6

(* What is spent in the month is budgeted, unbudgeted or of no category. *)
LEMMA SpendingExplained == ASSUME ScheduleInv PROVE SpendingIsAccountedFor
<1>. DEFINE A == ApplicableBudgets(Budgets, local)
            w == UpToToday(MonthWindow(MonthOf[local]))
            S == DOMAIN moves
            spent(i) == moves[i].type = "expense" /\ Within(moves[i].date, w)
            covered == {b.category : b \in A}
            F == [b \in A |-> [i \in S |-> IF spent(i) /\ b.category \in {"all", moves[i].category}
                                           THEN moves[i].amount ELSE 0]]
            all == [i \in S |-> IF spent(i) THEN moves[i].amount ELSE 0]
            over == [i \in S |-> IF spent(i) /\ moves[i].category \in covered THEN moves[i].amount ELSE 0]
            free == [i \in S |-> IF spent(i) /\ moves[i].category \notin covered \cup {None}
                                 THEN moves[i].amount ELSE 0]
            loose == [i \in S |-> IF /\ moves[i].type = "expense" /\ moves[i].category = None
                                     /\ Within(moves[i].date, w)
                                  THEN moves[i].amount ELSE 0]
            budgeted == [b \in A |-> BudgetSpent(b, local)]
<1>. SUFFICES ASSUME \A b \in A : b.period = "monthly"
              PROVE  TypeTotal("expense", w)
                     = Total(budgeted) + UnbudgetedSpending(w)
                       + (IF \E b \in A : b.category = "all" THEN 0 ELSE Total(loose))
  BY DEF SpendingIsAccountedFor, SumOf
<1>1. IsFiniteSet(S) /\ \A i \in S : moves[i].amount \in Int /\ moves[i].date \in Int
  BY LinesAre, MovementIs
<1>2. /\ A \subseteq Budgets /\ IsFiniteSet(A) /\ \A b \in A : Begun(b, local)
      /\ (\E b \in A : b.category = "all") => \E b \in A : A = {b} /\ b.category = "all"
      /\ (\A b \in A : b.category # "all") => \A b, c \in A : b.category = c.category => b = c
  <2>. HIDE DEF A
  <2> QED BY ApplicableAre DEF A
<1>3. w.end = local /\ \A d \in Int : Within(d, w) <=> Within(d, MonthWindow(MonthOf[local])) /\ d <= local
  <2>. DEFINE m == MonthOf[local]
  <2>1. local \in Int /\ FirstOf[m] \in Int /\ LastOf[m] \in Int /\ local <= LastOf[m]
    BY TodayIs
  <2>. HIDE DEF m
  <2>2. w.start = FirstOf[m] /\ w.end = local
    BY <2>1 DEF UpToToday, MonthWindow, Window, m
  <2>3. MonthWindow(m).start = FirstOf[m] /\ MonthWindow(m).end = LastOf[m]
    BY DEF MonthWindow, Window
  <2>. HIDE DEF w
  <2>4. \A d \in Int : Within(d, w) <=> Within(d, MonthWindow(m)) /\ d <= local
    BY <2>1, <2>2, <2>3 DEF Within
  <2> QED BY <2>2, <2>4 DEF m
<1>4. TypeTotal("expense", w) = Total(all)
  BY DEF TypeTotal, SumOf
<1>. HIDE DEF A, w
<1>5. \A b \in A : BudgetSpent(b, local) = Total(F[b])
  <2>. TAKE b \in A
  <2>. DEFINE f == [i \in S |-> IF /\ moves[i].type = "expense"
                                   /\ Within(moves[i].date, MonthWindow(MonthOf[local]))
                                   /\ moves[i].date <= local
                                   /\ b.category \in {"all", moves[i].category}
                                THEN moves[i].amount ELSE 0]
  <2>1. BudgetCycle(b, local) = MonthWindow(MonthOf[local]) /\ Begun(b, local)
    BY <1>2 DEF BudgetCycle
  <2>2. BudgetSpent(b, local) = Total(f)
    BY <2>1 DEF BudgetSpent, SumOf
  <2>3. f = F[b]
    BY <1>1, <1>3
  <2> QED BY <2>2, <2>3
<1>6. F \in [A -> [S -> Int]]
  BY <1>1
<1>7. budgeted = [b \in A |-> Total(F[b])] /\ budgeted \in [A -> Int]
  <2>1. budgeted = [b \in A |-> Total(F[b])]
    BY <1>5
  <2>2. \A b \in A : Total(F[b]) \in Int
    <3>. HIDE DEF F, S
    <3> QED BY <1>1, <1>6, TotalType
  <2>. HIDE DEF F
  <2> QED BY <2>1, <2>2
<1>8. /\ all \in [S -> Int] /\ over \in [S -> Int] /\ free \in [S -> Int] /\ loose \in [S -> Int]
  BY <1>1
<1>9. CASE \E b \in A : b.category = "all"
  <2>1. PICK b \in A : A = {b} /\ b.category = "all"
    BY <1>2, <1>9
  <2>2. Total(budgeted) = budgeted[b] /\ budgeted[b] = BudgetSpent(b, local)
    <3>1. \A c \in A \ {b} : budgeted[c] = 0
      BY <2>1
    <3>2. budgeted[b] = BudgetSpent(b, local)
      OBVIOUS
    <3>. HIDE DEF budgeted
    <3>3. IsFiniteSet(A) /\ budgeted \in [A -> Int] /\ b \in A
      BY <1>2, <1>7
    <3>4. Total(budgeted) = budgeted[b]
      BY <3>1, <3>3, TotalOne
    <3> QED BY <3>2, <3>4
  <2>3. F[b] = all
    BY <2>1
  <2>4. UnbudgetedSpending(w) = 0
    <3>1. "all" \in {c.category : c \in ApplicableBudgets(Budgets, w.end)}
      BY <1>3, <2>1 DEF A
    <3> QED BY <3>1 DEF UnbudgetedSpending
  <2>. HIDE DEF budgeted, F, all
  <2>5. Total(all) \in Int
    BY <1>1, <1>8, TotalType
  <2>6. Total(budgeted) = Total(all)
    BY <1>5, <2>2, <2>3
  <2> QED BY <1>4, <1>9, <2>4, <2>5, <2>6
<1>10. CASE ~\E b \in A : b.category = "all"
  <2>1. \A b, c \in A : b.category = c.category => b = c
    BY <1>2, <1>10
  <2>2. UnbudgetedSpending(w) = Total(free)
    <3>1. "all" \notin {c.category : c \in ApplicableBudgets(Budgets, w.end)}
      BY <1>3, <1>10 DEF A
    <3>2. {c.category : c \in ApplicableBudgets(Budgets, w.end)} = covered
      BY <1>3 DEF A
    <3>. DEFINE g == [i \in S |-> IF /\ moves[i].type = "expense" /\ Within(moves[i].date, w)
                                     /\ moves[i].category
                                        \notin {c.category : c \in ApplicableBudgets(Budgets, w.end)}
                                               \cup {None}
                                  THEN moves[i].amount ELSE 0]
    <3>3. UnbudgetedSpending(w) = Total(g)
      BY <3>1 DEF UnbudgetedSpending, SumOf
    <3>4. g = free
      <4>. HIDE DEF covered
      <4> QED BY <3>2
    <3> QED BY <3>3, <3>4
  <2>3. None \notin covered
    BY <1>2, ProjectionsConstants
  <2>. DEFINE flows == [i \in S |-> Total([b \in A |-> F[b][i]])]
  <2>4. Total(budgeted) = Total(flows)
    <3>. HIDE DEF F, S
    <3> QED BY <1>1, <1>2, <1>6, <1>7, TotalSwapped
  <2>5. flows = over
    <3>1. \A i \in S : flows[i] = over[i]
      <4>. TAKE i \in S
      <4>. DEFINE col == [b \in A |-> F[b][i]]
      <4>1. col \in [A -> Int] /\ flows[i] = Total(col)
        BY <1>6
      <4>2. \A b \in A : col[b] = IF spent(i) /\ b.category = moves[i].category THEN moves[i].amount ELSE 0
        BY <1>10
      <4>3. CASE spent(i) /\ moves[i].category \in covered
        <5>1. PICK b \in A : b.category = moves[i].category
          BY <4>3
        <5>2. \A c \in A \ {b} : col[c] = 0
          <6>. HIDE DEF col
          <6> QED BY <2>1, <4>2, <5>1
        <5>3. col[b] = moves[i].amount
          <6>. HIDE DEF col
          <6> QED BY <4>2, <4>3, <5>1
        <5>. HIDE DEF col, flows
        <5>4. Total(col) = col[b]
          BY <1>2, <4>1, <5>2, TotalOne
        <5> QED BY <4>1, <4>3, <5>3, <5>4
      <4>4. CASE ~(spent(i) /\ moves[i].category \in covered)
        <5>1. \A b \in A : b.category \in covered
          OBVIOUS
        <5>2. \A b \in A : col[b] = 0
          <6>. HIDE DEF col, covered
          <6> QED BY <4>2, <4>4, <5>1
        <5>3. col = [b \in A |-> 0]
          <6>1. col = [b \in A |-> col[b]]
            OBVIOUS
          <6>. HIDE DEF col
          <6> QED BY <5>2, <6>1
        <5>. HIDE DEF col, flows
        <5>4. Total(col) = 0
          BY <1>2, <5>3, TotalZero
        <5>5. over[i] = 0
          BY <4>4
        <5> QED BY <4>1, <5>4, <5>5
      <4> QED BY <4>3, <4>4
    <3>2. flows = [i \in S |-> flows[i]] /\ over = [i \in S |-> over[i]]
      OBVIOUS
    <3>. HIDE DEF flows, over
    <3> QED BY <3>1, <3>2
  <2>. DEFINE rest == [i \in S |-> free[i] + loose[i]]
  <2>6. \A i \in S : all[i] = over[i] + rest[i]
    <3>. TAKE i \in S
    <3>1. /\ all[i] = (IF spent(i) THEN moves[i].amount ELSE 0)
          /\ over[i] = (IF spent(i) /\ moves[i].category \in covered THEN moves[i].amount ELSE 0)
          /\ free[i] = (IF spent(i) /\ moves[i].category \notin covered \cup {None}
                        THEN moves[i].amount ELSE 0)
          /\ loose[i] = (IF spent(i) /\ moves[i].category = None THEN moves[i].amount ELSE 0)
          /\ rest[i] = free[i] + loose[i]
      OBVIOUS
    <3>. HIDE DEF all, over, free, loose, rest, covered, spent
    <3> QED BY <1>1, <2>3, <3>1
  <2>7. rest \in [S -> Int] /\ \A i \in S : rest[i] = free[i] + loose[i]
    <3>1. \A i \in S : free[i] \in Int /\ loose[i] \in Int
      BY <1>8
    <3>. HIDE DEF free, loose
    <3> QED BY <3>1
  <2>. HIDE DEF budgeted, flows, over, free, loose, all, rest, S
  <2>8. /\ Total(over) \in Int /\ Total(rest) \in Int /\ Total(all) = Total(over) + Total(rest)
    <3>1. IsFiniteSet(S) /\ all \in [S -> Int] /\ over \in [S -> Int] /\ rest \in [S -> Int]
      BY <1>1, <1>8, <2>7
    <3> QED BY <2>6, <3>1, TotalPlus
  <2>9. /\ Total(free) \in Int /\ Total(loose) \in Int /\ Total(rest) = Total(free) + Total(loose)
    BY <1>1, <1>8, <2>7, TotalPlus
  <2>10. TypeTotal("expense", w) = Total(budgeted) + UnbudgetedSpending(w) + Total(loose)
    BY <1>4, <2>2, <2>4, <2>5, <2>8, <2>9
  <2> QED BY <1>10, <2>10
<1> QED BY <1>9, <1>10

-----------------------------------------------------------------------------
(* What the forecast expects *)

(* A rule in force will be charged on a date: that of an occurrence not generated yet. *)
Upcoming(rule, d) ==
    /\ rule.active
    /\ \E n \in Nat : /\ rule.occurrences <= n
                      /\ MonthAt(rule.start, rule.frequency, n) \in Months
                      /\ d = Occurrence(rule.start, rule.frequency, n)

(* Fast-forwarded, a schedule goes on with its first occurrence that is neither made nor past. *)
LEMMA FirstFromIs ==
    ASSUME NEW from, YearAhead(from), NEW rule, InStep(rule)
    PROVE  \E j \in Nat :
               /\ rule.occurrences <= j /\ MonthAt(rule.start, rule.frequency, j) \in Months
               /\ FirstFrom(rule, from) = Occurrence(rule.start, rule.frequency, j)
               /\ from <= Occurrence(rule.start, rule.frequency, j)
               /\ \A n \in Nat : rule.occurrences <= n /\ n < j =>
                      Occurrence(rule.start, rule.frequency, n) < from
<1>. DEFINE s == rule.start
            f == rule.frequency
            o == rule.occurrences
            I == Interval(f)
            m0 == MonthOf[s]
            mf == MonthOf[from]
            At(n) == Occurrence(s, f, n)
            M(n) == MonthAt(s, f, n)
            L == (12 * YearCount - 1 - m0) \div I
            Least(k) == At(k) >= from /\ (k = 1 \/ At(k - 1) < from)
<1>1. /\ s \in Dates /\ f \in Frequencies /\ o \in Nat /\ rule.next \in Dates /\ rule.next \in Nat
      /\ M(o) \in Months /\ rule.next = At(o)
  BY DatesHaveMonths DEF InStep, RuleRows
<1>2. /\ from \in Dates /\ from \in Nat /\ mf \in Months /\ mf + 12 \in Months /\ m0 \in Months
      /\ mf \in Nat /\ m0 \in Nat /\ YearCount \in Nat
  BY <1>1, DatesHaveMonths, MonthsAre DEF YearAhead
<1>3. I \in {1, 12}
  BY <1>1, Intervals
<1>4. \A n \in Nat : M(n) = m0 + n * I
  BY DEF MonthAt
<1>5. Numbers(rule) = 1 .. L
  BY DEF Numbers
<1>6. L \in Int /\ \A k \in Nat : k <= L <=> M(k) \in Months
  <2>. DEFINE last == 12 * YearCount - 1
  <2>1. last \in Int /\ \A m \in Nat : m \in Months <=> m <= last
    BY <1>2, MonthsAre
  <2>. HIDE DEF M, last, I, m0
  <2>2. L = (last - m0) \div I
    BY DEF last
  <2>. HIDE DEF L
  <2>3. CASE I = 1
    <3>1. L = last - m0
      BY <1>2, <2>1, <2>2, <2>3
    <3>2. \A k \in Nat : M(k) = m0 + k /\ M(k) \in Nat
      BY <1>2, <1>4, <2>3
    <3> QED BY <1>2, <2>1, <3>1, <3>2
  <2>4. CASE I = 12
    <3>1. L \in Int /\ 12 * L <= last - m0 /\ last - m0 < 12 * L + 12
      BY <1>2, <2>1, <2>2, <2>4
    <3>2. \A k \in Nat : M(k) = m0 + k * 12 /\ M(k) \in Nat
      BY <1>2, <1>4, <2>4
    <3> QED BY <1>2, <2>1, <3>1, <3>2
  <2> QED BY <1>3, <2>3, <2>4
<1>7. \A k \in Nat : M(k) \in Months => At(k) \in Dates /\ At(k) \in Nat /\ MonthOf[At(k)] = M(k)
  BY <1>1, OccurrenceIs, DatesHaveMonths
<1>8. \A n, k \in Nat : n < k /\ M(k) \in Months => M(n) \in Months /\ At(n) < At(k)
  BY <1>1, OccurrencesInOrder
<1>. HIDE DEF At, M, L, s, f, o, mf, m0, I
<1>9. CASE rule.next >= from
  <2>1. FirstFrom(rule, from) = At(o)
    BY <1>1, <1>9 DEF FirstFrom
  <2>2. \A n \in Nat : ~(o <= n /\ n < o)
    BY <1>1
  <2> QED BY <1>1, <1>9, <2>1, <2>2 DEF At, M, s, f, o
<1>10. CASE ~(rule.next >= from)
  <2>1. At(o) < from
    BY <1>1, <1>2, <1>10
  <2>. DEFINE K == {k \in Nat : k \in 1 .. L /\ At(k) >= from}
  <2>2. \E k \in K : TRUE
    <3>1. PICK k \in Nat : k # 0 /\ mf < M(k) /\ M(k) \in Months
      <4>. DEFINE z == (mf - m0) \div I
      <4>1. m0 <= mf
        <5>1. M(0) = m0
          BY <1>2, <1>3, <1>4
        <5>2. M(0) <= M(o) /\ M(o) \in Nat
          <6>1. M(o) \in Nat /\ o * I \in Nat
            BY <1>1, <1>3, MonthsAre
          <6> QED BY <1>1, <1>2, <1>4, <5>1, <6>1
        <5>3. M(o) <= mf
          BY <1>1, <1>2, <1>7, <2>1, DatesInOrder DEF mf
        <5> QED BY <1>2, <5>1, <5>2, <5>3
      <4>2. CASE I = 1
        <5>. DEFINE j == mf - m0 + 1
        <5>1. j \in Nat /\ j # 0 /\ M(j) = mf + 1
          BY <1>2, <1>4, <4>1, <4>2
        <5>2. M(j) \in Months /\ mf < M(j)
          BY <1>2, <5>1, MonthsAre
        <5> QED BY <5>1, <5>2
      <4>3. CASE I = 12
        <5>. DEFINE j == z + 1
        <5>1. z \in Nat /\ 12 * z <= mf - m0 /\ mf - m0 < 12 * z + 12
          BY <1>2, <4>1, <4>3
        <5>. HIDE DEF z
        <5>2. j \in Nat /\ j # 0 /\ M(j) = m0 + 12 * z + 12
          BY <1>2, <1>4, <4>3, <5>1
        <5>3. M(j) \in Nat /\ mf < M(j) /\ M(j) <= mf + 12
          BY <1>2, <5>1, <5>2
        <5>4. M(j) \in Months
          BY <1>2, <5>3, MonthsAre
        <5> QED BY <5>2, <5>3, <5>4
      <4> QED BY <1>3, <4>2, <4>3
    <3>2. At(k) \in Nat /\ from < At(k)
      BY <1>2, <1>7, <3>1, DatesInOrder DEF mf
    <3>3. k \in 1 .. L /\ At(k) >= from
      BY <1>2, <1>6, <3>1, <3>2
    <3> QED BY <3>3
  <2>3. K \subseteq Nat /\ K # {}
    BY <2>2
  <2>4. PICK k \in K : \A n \in K : k <= n
    BY <2>3, SmallestNumber
  <2>5. k \in Nat /\ k \in 1 .. L /\ At(k) >= from
    BY <2>4
  <2>6. Least(k)
    <3>. SUFFICES ASSUME k # 1 PROVE At(k - 1) < from
      BY <2>5
    <3>1. k - 1 \in Nat /\ k - 1 \in 1 .. L /\ ~(k <= k - 1)
      BY <1>6, <2>5
    <3>2. ~(At(k - 1) >= from)
      BY <2>4, <3>1
    <3>3. At(k - 1) \in Nat
      BY <1>6, <1>7, <3>1
    <3> QED BY <1>2, <3>2, <3>3
  <2>. HIDE DEF K
  <2>. DEFINE j == CHOOSE n \in 1 .. L : Least(n)
  <2>7. j \in 1 .. L /\ Least(j)
    BY <2>5, <2>6, Zenon
  <2>8. FirstFrom(rule, from) = At(j)
    <3>1. \A n : At(n) = Occurrence(rule.start, rule.frequency, n)
      BY DEF At, s, f
    <3> QED BY <1>5, <1>10, Zenon DEF FirstFrom, At, s, f
  <2>. HIDE DEF j
  <2>9. j \in Nat /\ M(j) \in Months /\ At(j) >= from /\ j # 0
    BY <1>6, <2>7
  <2>10. o < j
    <3>. SUFFICES ASSUME ~(o < j) PROVE FALSE
      OBVIOUS
    <3>1. j = o \/ j < o
      BY <1>1, <2>9
    <3>2. At(j) <= At(o) /\ At(j) \in Nat /\ At(o) \in Nat
      BY <1>1, <1>7, <1>8, <2>9, <3>1
    <3> QED BY <1>2, <2>1, <2>9, <3>2
  <2>11. ASSUME NEW n \in Nat, o <= n, n < j PROVE At(n) < from
    <3>1. CASE j = 1
      <4>1. n = o
        BY <1>1, <2>10, <2>11, <3>1
      <4> QED BY <2>1, <4>1
    <3>2. CASE j # 1
      <4>1. At(j - 1) < from /\ j - 1 \in Nat /\ (n = j - 1 \/ n < j - 1) /\ j - 1 < j
        BY <2>7, <2>9, <2>11, <3>2
      <4>2. M(j - 1) \in Months /\ M(n) \in Months
        BY <1>8, <2>9, <2>11, <4>1
      <4>3. At(n) \in Nat /\ At(j - 1) \in Nat /\ At(n) <= At(j - 1)
        BY <1>7, <1>8, <4>1, <4>2
      <4> QED BY <1>2, <4>1, <4>3
    <3> QED BY <3>1, <3>2
  <2>12. o <= j /\ from <= At(j)
    BY <1>1, <1>2, <1>7, <2>9, <2>10
  <2> QED BY <2>8, <2>9, <2>11, <2>12 DEF At, M, s, f, o
<1> QED BY <1>9, <1>10

(* What the forecast lists of a rule are just its upcoming dates. *)
LEMMA OccurrencesAre ==
    ASSUME NEW from, YearAhead(from), NEW to \in Dates, NEW rule, InStep(rule)
    PROVE  RecurringOccurrences(rule, from, to) = {d \in from .. to : Upcoming(rule, d)}
<1>. DEFINE s == rule.start
            f == rule.frequency
            o == rule.occurrences
            I == Interval(f)
            At(n) == Occurrence(s, f, n)
            M(n) == MonthAt(s, f, n)
            first == FirstFrom(rule, from)
            last == (MonthOf[to] - MonthOf[first]) \div I
            After(k) == Clamped(MonthOf[first] + k * I, DayOf(s))
            listed == {d \in {first} \cup {After(k) : k \in 1 .. last} : d <= to}
            all == {d \in from .. to : Upcoming(rule, d)}
<1>1. s \in Dates /\ f \in Frequencies /\ o \in Nat /\ MonthOf[s] \in Nat
  BY DatesHaveMonths, MonthsAre DEF InStep, RuleRows
<1>2. /\ from \in Dates /\ from \in Nat /\ to \in Nat /\ MonthOf[to] \in Months /\ MonthOf[to] \in Nat
  BY DatesHaveMonths, MonthsAre DEF YearAhead
<1>3. I \in {1, 12}
  BY <1>1, Intervals
<1>4. \A k \in Nat : M(k) \in Months => At(k) \in Dates /\ At(k) \in Nat /\ MonthOf[At(k)] = M(k)
  BY <1>1, OccurrenceIs, DatesHaveMonths
<1>5. \A n, k \in Nat : n < k /\ M(k) \in Months => M(n) \in Months /\ At(n) < At(k)
  BY <1>1, OccurrencesInOrder
<1>6. PICK j \in Nat : /\ o <= j /\ M(j) \in Months /\ first = At(j) /\ from <= At(j)
                       /\ \A n \in Nat : o <= n /\ n < j => At(n) < from
  BY FirstFromIs
<1>7. \A k \in Nat : M(j + k) = M(j) + k * I /\ At(j + k) = After(k)
  <2>. TAKE k \in Nat
  <2>1. MonthOf[s] + (j + k) * I = (MonthOf[s] + j * I) + k * I
    <3>. HIDE DEF I, s
    <3>1. CASE I = 1
      BY <1>1, <1>6, <3>1
    <3>2. CASE I = 12
      BY <1>1, <1>6, <3>2
    <3> QED BY <1>3, <3>1, <3>2
  <2>2. M(j + k) = M(j) + k * I
    BY <2>1 DEF MonthAt
  <2>3. MonthOf[first] = M(j)
    BY <1>4, <1>6
  <2>4. At(j + k) = Clamped(M(j + k), DayOf(s))
    BY DEF Occurrence, MonthAt
  <2> QED BY <2>2, <2>3, <2>4
<1>8. last = (MonthOf[to] - M(j)) \div I /\ M(j) \in Nat
  BY <1>4, <1>6, MonthsAre
<1>9. RecurringOccurrences(rule, from, to) = IF ~rule.active THEN {} ELSE listed
  BY DEF RecurringOccurrences
<1>10. \A d : Upcoming(rule, d) <=> /\ rule.active
                                    /\ \E n \in Nat : o <= n /\ M(n) \in Months /\ d = At(n)
  BY DEF Upcoming
<1>. HIDE DEF s, f, o, I, At, M, first, last, Next
<1>11. \A k \in Nat : k <= last <=> M(j) + k * I <= MonthOf[to]
  <2>1. CASE I = 1
    <3>1. last = MonthOf[to] - M(j)
      BY <1>2, <1>8, <2>1
    <3> QED BY <1>2, <1>8, <2>1, <3>1
  <2>2. CASE I = 12
    <3>1. last \in Int /\ 12 * last <= MonthOf[to] - M(j) /\ MonthOf[to] - M(j) < 12 * last + 12
      BY <1>2, <1>8, <2>2
    <3> QED BY <1>2, <1>8, <2>2, <3>1
  <2> QED BY <1>3, <2>1, <2>2
<1>12. last \in Int
  BY <1>2, <1>3, <1>8
<1>13. ASSUME NEW d \in listed, rule.active PROVE d \in all
  <2>1. d <= to /\ (d = first \/ \E k \in 1 .. last : d = After(k))
    OBVIOUS
  <2>2. CASE d = first
    <3>1. d \in Nat /\ d = At(j)
      BY <1>4, <1>6, <2>2
    <3> QED BY <1>2, <1>6, <1>10, <1>13, <2>1, <3>1
  <2>3. ASSUME NEW k \in 1 .. last, d = After(k) PROVE d \in all
    <3>1. k \in Nat /\ k # 0 /\ j + k \in Nat /\ j < j + k /\ o <= j + k
      BY <1>1, <1>6, <1>12
    <3>2. M(j + k) <= MonthOf[to] /\ M(j + k) \in Nat
      <4>1. M(j + k) = M(j) + k * I /\ k <= last
        BY <1>7, <1>12, <3>1
      <4>2. k * I \in Nat
        BY <1>3, <3>1
      <4> QED BY <1>8, <1>11, <3>1, <4>1, <4>2
    <3>3. M(j + k) \in Months
      BY <1>2, <3>2, MonthsAre
    <3>4. d = At(j + k) /\ At(j) < At(j + k) /\ At(j + k) \in Nat /\ At(j) \in Nat
      BY <1>4, <1>5, <1>6, <1>7, <2>3, <3>1, <3>3
    <3>5. from <= d /\ d \in from .. to
      BY <1>2, <1>6, <2>1, <3>4
    <3> QED BY <1>10, <1>13, <3>1, <3>3, <3>4, <3>5
  <2> QED BY <2>1, <2>2, <2>3
<1>14. ASSUME NEW d \in all PROVE d \in listed
  <2>1. d \in from .. to /\ rule.active
    BY <1>10
  <2>2. PICK n \in Nat : o <= n /\ M(n) \in Months /\ d = At(n)
    BY <1>10
  <2>3. d \in Nat /\ from <= d /\ d <= to
    BY <1>2, <2>1
  <2>4. j <= n
    BY <1>2, <1>6, <2>2, <2>3
  <2>5. CASE n = j
    BY <1>6, <2>2, <2>3, <2>5
  <2>6. CASE n # j
    <3>. DEFINE k == n - j
    <3>1. k \in Nat /\ k # 0 /\ j + k = n
      BY <2>4, <2>6
    <3>. HIDE DEF k
    <3>2. M(n) <= MonthOf[to]
      BY <1>4, <2>2, <2>3, DatesInOrder
    <3>3. k <= last
      BY <1>7, <1>11, <3>1, <3>2
    <3>4. k \in 1 .. last /\ d = After(k)
      BY <1>7, <1>12, <2>2, <3>1, <3>3
    <3> QED BY <2>3, <3>4
  <2> QED BY <2>5, <2>6
<1>15. ~rule.active => all = {}
  BY <1>10
<1>. HIDE DEF listed
<1>16. rule.active => listed = all
  <2>. HIDE DEF all
  <2> QED BY <1>13, <1>14
<1> QED BY <1>9, <1>15, <1>16

(* What a rule is charged when it catches up is no longer upcoming; the rest still is. *)
LEMMA NoLongerUpcoming ==
    ASSUME YearAhead(utc), NEW rule, InStep(rule), rule.active, rule.next <= utc
    PROVE  \A d : /\ Upcoming(rule, d) <=> Upcoming(Advanced(rule), d) \/ d \in ChargesOf(rule)
                  /\ ~(Upcoming(Advanced(rule), d) /\ d \in ChargesOf(rule))
<1>. DEFINE o == rule.occurrences
            k == DueCount(rule)
            At(n) == Occurrence(rule.start, rule.frequency, n)
            M(n) == MonthAt(rule.start, rule.frequency, n)
            new == Advanced(rule)
<1>1. rule \in RuleRows /\ rule.start \in Dates /\ rule.frequency \in Frequencies /\ o \in Nat
  BY DEF InStep, RuleRows
<1>2. /\ k \in Nat
      /\ \A n \in 0 .. k : DueDate(rule, n) = At(o + n) /\ M(o + n) \in Months
      /\ \A n \in 0 .. k - 1 : At(o + n) <= utc
      /\ utc < At(o + k)
  BY DueIs
<1>3. new = [rule EXCEPT !.occurrences = o + k, !.next = DueDate(rule, k)]
  BY DEF Advanced
<1>4. \A n, i \in Nat : n < i /\ M(i) \in Months => At(n) < At(i)
  BY <1>1, OccurrencesInOrder
<1>5. \A n \in Nat : M(n) \in Months => At(n) \in Nat
  BY <1>1, OccurrenceIs, DatesHaveMonths
<1>6. ChargesOf(rule) = {DueDate(rule, n) : n \in 0 .. k - 1}
  BY DEF ChargesOf
<1>7. \A d : Upcoming(rule, d) <=> \E n \in Nat : o <= n /\ M(n) \in Months /\ d = At(n)
  BY DEF Upcoming
<1>. HIDE DEF k, new
<1>8. /\ new.start = rule.start /\ new.frequency = rule.frequency /\ new.active = rule.active
      /\ new.occurrences = o + k
  BY <1>1, <1>2, <1>3 DEF RuleRows
<1>9. \A d : Upcoming(new, d) <=> \E n \in Nat : o + k <= n /\ M(n) \in Months /\ d = At(n)
  BY <1>8 DEF Upcoming
<1>. HIDE DEF At, M, o
<1>10. \A d : d \in ChargesOf(rule) <=> \E n \in Nat : o <= n /\ n < o + k /\ M(n) \in Months /\ d = At(n)
  <2>. TAKE d
  <2>1. ASSUME NEW n \in 0 .. k - 1, d = DueDate(rule, n)
        PROVE  o + n \in Nat /\ o <= o + n /\ o + n < o + k /\ M(o + n) \in Months /\ d = At(o + n)
    BY <1>1, <1>2, <2>1
  <2>2. ASSUME NEW n \in Nat, o <= n, n < o + k, d = At(n)
        PROVE  n - o \in 0 .. k - 1 /\ d = DueDate(rule, n - o)
    <3>1. n - o \in 0 .. k - 1 /\ n - o \in 0 .. k /\ o + (n - o) = n
      BY <1>1, <1>2, <2>2
    <3> QED BY <1>2, <2>2, <3>1
  <2> QED BY <1>6, <2>1, <2>2
<1>. HIDE DEF Upcoming
<1>11. ASSUME NEW d, NEW n \in Nat, NEW i \in Nat, n < o + k, o + k <= i,
              M(n) \in Months, M(i) \in Months, d = At(n), d = At(i)
       PROVE  FALSE
  <2>1. n < i
    BY <1>1, <1>2, <1>11
  <2>2. At(n) < At(i) /\ At(n) \in Nat
    BY <1>4, <1>5, <1>11, <2>1
  <2> QED BY <1>11, <2>2
<1>12. \A n \in Nat : o + k <= n \/ n < o + k
  BY <1>1, <1>2
<1>13. \A n \in Nat : o + k <= n => o <= n
  BY <1>1, <1>2
<1>. TAKE d
<1>14. Upcoming(rule, d) <=> Upcoming(new, d) \/ d \in ChargesOf(rule)
  BY <1>7, <1>9, <1>10, <1>12, <1>13
<1>15. ~(Upcoming(new, d) /\ d \in ChargesOf(rule))
  BY <1>9, <1>10, <1>11
<1> QED BY <1>14, <1>15 DEF new

(* The days instalments fall on. *)
InstalmentOn(in, d) ==
    \E i \in 0 .. in.count - 1 : d = Clamped(MonthOf[in.start] + i, DayOf(in.start))

(* The payments of a rule and of a purchase on a date. *)
BillOn(rs, r, d) == [type |-> "recurring", item |-> r, date |-> d, amount |-> rs[r].amount]

ShareOn(ps, p, d) == [type |-> "msi", item |-> p, date |-> d, amount |-> InstalmentAmount(ps[p])]

(* The payments that given rules and purchases promise. *)
PaymentsOf(rs, ps, from, to) ==
    (UNION {{BillOn(rs, r, d) : d \in RecurringOccurrences(rs[r], from, to)} :
            r \in {r \in Rules : Exists(rs[r])}})
    \cup
    (UNION {{ShareOn(ps, p, d) : d \in MSIOccurrences(ps[p], from, to)} :
            p \in {p \in Purchases : Exists(ps[p])}})

(* Rules in step with their schedules, and purchases. *)
KeptRows(rs, ps) ==
    /\ \A r \in Rules : Exists(rs[r]) => InStep(rs[r])
    /\ \A p \in Purchases : Exists(ps[p]) => ps[p] \in PurchaseInputs

(* A payment is of a rule, and one of a purchase. *)
IsBill(rs, pay, from, to) ==
    \E r \in Rules, d \in from .. to : Exists(rs[r]) /\ Upcoming(rs[r], d) /\ pay = BillOn(rs, r, d)

IsShare(ps, pay, from, to) ==
    \E p \in Purchases, d \in from .. to :
        Exists(ps[p]) /\ InstalmentOn(ps[p], d) /\ pay = ShareOn(ps, p, d)

(* Instalments fall on days of the calendar. *)
LEMMA InstalmentDays ==
    ASSUME NEW in \in PurchaseInputs, NEW d, InstalmentOn(in, d)
    PROVE  d \in Nat
<1>1. in.start \in Dates /\ in.count \in Nat \ {0} /\ MonthOf[in.start] + in.count - 1 \in Months
  BY CalendarReaches, SchedulesConstants
<1>2. PICK i \in 0 .. in.count - 1 : d = Clamped(MonthOf[in.start] + i, DayOf(in.start))
  BY DEF InstalmentOn
<1>3. MonthOf[in.start] \in Nat
  BY <1>1, DatesHaveMonths, MonthsAre
<1>4. MonthOf[in.start] + i \in Months
  BY <1>1, <1>3, MonthsAre
<1>5. DayOf(in.start) \in Nat \ {0}
  BY <1>1, ClampedDate
<1> QED BY <1>2, <1>4, <1>5, ClampedDay, DatesHaveMonths

(* The payments of some days are the upcoming dates of the rules and the instalments in them. *)
LEMMA PaymentsListed ==
    ASSUME NEW rs, NEW ps, KeptRows(rs, ps), NEW from, YearAhead(from), NEW to \in Dates
    PROVE  \A pay : pay \in PaymentsOf(rs, ps, from, to)
                    <=> IsBill(rs, pay, from, to) \/ IsShare(ps, pay, from, to)
<1>1. from \in Nat /\ to \in Nat
  BY DatesHaveMonths DEF YearAhead
<1>2. \A r \in Rules : Exists(rs[r]) =>
          RecurringOccurrences(rs[r], from, to) = {d \in from .. to : Upcoming(rs[r], d)}
  BY OccurrencesAre DEF KeptRows
<1>3. \A p \in Purchases : Exists(ps[p]) =>
          \A d : d \in MSIOccurrences(ps[p], from, to) <=> d \in from .. to /\ InstalmentOn(ps[p], d)
  <2>. TAKE p \in Purchases
  <2>. HAVE Exists(ps[p])
  <2>1. ps[p] \in PurchaseInputs
    BY DEF KeptRows
  <2>. TAKE d
  <2>2. d \in MSIOccurrences(ps[p], from, to) <=> from <= d /\ d <= to /\ InstalmentOn(ps[p], d)
    BY DEF MSIOccurrences, InstalmentOn
  <2>3. InstalmentOn(ps[p], d) => d \in Nat
    BY <2>1, InstalmentDays
  <2>4. d \in Nat => (d \in from .. to <=> from <= d /\ d <= to)
    BY <1>1
  <2>5. d \in from .. to => d \in Nat
    BY <1>1
  <2> QED BY <2>2, <2>3, <2>4, <2>5
<1>. TAKE pay
<1>4. pay \in PaymentsOf(rs, ps, from, to)
      <=> \/ \E r \in Rules : /\ Exists(rs[r])
                               /\ \E d \in RecurringOccurrences(rs[r], from, to) : pay = BillOn(rs, r, d)
          \/ \E p \in Purchases : /\ Exists(ps[p])
                                   /\ \E d \in MSIOccurrences(ps[p], from, to) : pay = ShareOn(ps, p, d)
  <2>. DEFINE R == {r \in Rules : Exists(rs[r])}
              P == {p \in Purchases : Exists(ps[p])}
              bills(r) == {BillOn(rs, r, d) : d \in RecurringOccurrences(rs[r], from, to)}
              shares(p) == {ShareOn(ps, p, d) : d \in MSIOccurrences(ps[p], from, to)}
              one == UNION {bills(r) : r \in R}
              two == UNION {shares(p) : p \in P}
  <2>1. PaymentsOf(rs, ps, from, to) = one \cup two
    BY DEF PaymentsOf
  <2>2. \A r : pay \in bills(r) <=> \E d \in RecurringOccurrences(rs[r], from, to) : pay = BillOn(rs, r, d)
    OBVIOUS
  <2>3. \A p : pay \in shares(p) <=> \E d \in MSIOccurrences(ps[p], from, to) : pay = ShareOn(ps, p, d)
    OBVIOUS
  <2>4. (\A r : r \in R <=> r \in Rules /\ Exists(rs[r])) /\ \A p : p \in P <=> p \in Purchases /\ Exists(ps[p])
    OBVIOUS
  <2>. HIDE DEF bills, shares, R, P
  <2>5. pay \in one <=> \E r \in R : pay \in bills(r)
    OBVIOUS
  <2>6. pay \in two <=> \E p \in P : pay \in shares(p)
    OBVIOUS
  <2>. HIDE DEF one, two
  <2> QED BY <2>1, <2>2, <2>3, <2>4, <2>5, <2>6, Zenon
<1>5. (\E r \in Rules : /\ Exists(rs[r])
                        /\ \E d \in RecurringOccurrences(rs[r], from, to) : pay = BillOn(rs, r, d))
      <=> IsBill(rs, pay, from, to)
  <2>1. \A r \in Rules : Exists(rs[r]) =>
            \A d : d \in RecurringOccurrences(rs[r], from, to) <=> d \in from .. to /\ Upcoming(rs[r], d)
    BY <1>2
  <2> QED BY <2>1, Zenon DEF IsBill
<1>6. (\E p \in Purchases : /\ Exists(ps[p])
                            /\ \E d \in MSIOccurrences(ps[p], from, to) : pay = ShareOn(ps, p, d))
      <=> IsShare(ps, pay, from, to)
  BY <1>3, Zenon DEF IsShare
<1> QED BY <1>4, <1>5, <1>6

(* There are finitely many, each of some cents on a day. *)
LEMMA PaymentsCounted ==
    ASSUME NEW rs, NEW ps, KeptRows(rs, ps), NEW from, YearAhead(from), NEW to \in Dates
    PROVE  /\ IsFiniteSet(PaymentsOf(rs, ps, from, to))
           /\ \A pay \in PaymentsOf(rs, ps, from, to) : pay.amount \in Int /\ pay.date \in from .. to
<1>. DEFINE days == from .. to
            f == [x \in Rules \X days |-> BillOn(rs, x[1], x[2])]
            g == [x \in Purchases \X days |-> ShareOn(ps, x[1], x[2])]
            one == {f[x] : x \in Rules \X days}
            two == {g[x] : x \in Purchases \X days}
            A == PaymentsOf(rs, ps, from, to)
<1>1. from \in Nat /\ to \in Nat
  BY DatesHaveMonths DEF YearAhead
<1>2. \A pay : pay \in A <=> IsBill(rs, pay, from, to) \/ IsShare(ps, pay, from, to)
  BY PaymentsListed
<1>. HIDE DEF A
<1>3. \A pay : IsBill(rs, pay, from, to) => pay \in one /\ pay.amount \in Int /\ pay.date \in days
  <2>. SUFFICES ASSUME NEW r \in Rules, NEW d \in days, Exists(rs[r])
                PROVE  LET pay == BillOn(rs, r, d)
                       IN  pay \in one /\ pay.amount \in Int /\ pay.date \in days
    BY DEF IsBill
  <2>1. rs[r] \in RuleRows
    BY DEF KeptRows, InStep
  <2>2. rs[r].amount \in Int
    BY <2>1 DEF RuleRows
  <2>3. <<r, d>> \in Rules \X days /\ f[<<r, d>>] = BillOn(rs, r, d)
    OBVIOUS
  <2>4. BillOn(rs, r, d).amount = rs[r].amount /\ BillOn(rs, r, d).date = d
    BY DEF BillOn
  <2> QED BY <2>2, <2>3, <2>4
<1>4. \A pay : IsShare(ps, pay, from, to) => pay \in two /\ pay.amount \in Int /\ pay.date \in days
  <2>. SUFFICES ASSUME NEW p \in Purchases, NEW d \in days, Exists(ps[p])
                PROVE  LET pay == ShareOn(ps, p, d)
                       IN  pay \in two /\ pay.amount \in Int /\ pay.date \in days
    BY DEF IsShare
  <2>. DEFINE in == ps[p]
  <2>1. in \in PurchaseInputs
    BY DEF KeptRows
  <2>. HIDE DEF in
  <2>2. in.total \in Nat /\ in.count \in Nat \ {0}
    BY <2>1, SharesAddUp
  <2>3. InstalmentAmount(in) \in Int
    BY <2>2, Division DEF InstalmentAmount
  <2>4. <<p, d>> \in Purchases \X days /\ g[<<p, d>>] = ShareOn(ps, p, d)
    OBVIOUS
  <2>5. ShareOn(ps, p, d).amount = InstalmentAmount(in) /\ ShareOn(ps, p, d).date = d
    BY DEF ShareOn, in
  <2> QED BY <2>3, <2>4, <2>5
<1>5. IsFiniteSet(Rules \X days) /\ IsFiniteSet(Purchases \X days)
  <2>1. IsFiniteSet(days) /\ IsFiniteSet(Rules) /\ IsFiniteSet(Purchases)
    BY <1>1, FS_Interval, SchedulesConstants
  <2>. HIDE DEF days
  <2> QED BY <2>1, FS_Product
<1>6. DOMAIN f = Rules \X days /\ f = [x \in Rules \X days |-> f[x]]
      /\ DOMAIN g = Purchases \X days /\ g = [x \in Purchases \X days |-> g[x]]
  OBVIOUS
<1>. HIDE DEF f, g, days
<1>7. IsFiniteSet(one) /\ IsFiniteSet(two)
  BY <1>5, <1>6, FiniteImage
<1>. HIDE DEF one, two
<1>8. A \subseteq one \cup two /\ IsFiniteSet(one \cup two)
  BY <1>2, <1>3, <1>4, <1>7, FS_Union
<1>9. IsFiniteSet(A)
  BY <1>8, FS_Subset
<1> QED BY <1>2, <1>3, <1>4, <1>9 DEF A, days

(* A payment of some days is one of any days that include its date. *)
LEMMA PaymentsRedated ==
    ASSUME NEW rs, NEW ps, KeptRows(rs, ps), NEW from, YearAhead(from), NEW to \in Dates,
           NEW start, YearAhead(start), NEW end \in Dates
    PROVE  \A pay \in PaymentsOf(rs, ps, from, to) :
               pay.date \in start .. end => pay \in PaymentsOf(rs, ps, start, end)
<1>. SUFFICES ASSUME NEW pay \in PaymentsOf(rs, ps, from, to), pay.date \in start .. end
              PROVE  pay \in PaymentsOf(rs, ps, start, end)
  OBVIOUS
<1>1. IsBill(rs, pay, from, to) \/ IsShare(ps, pay, from, to)
  BY PaymentsListed
<1>2. CASE IsBill(rs, pay, from, to)
  <2>1. PICK r \in Rules, d \in from .. to :
            Exists(rs[r]) /\ Upcoming(rs[r], d) /\ pay = BillOn(rs, r, d)
    BY <1>2 DEF IsBill
  <2>2. pay.date = d
    BY <2>1 DEF BillOn
  <2>3. IsBill(rs, pay, start, end)
    BY <2>1, <2>2 DEF IsBill
  <2> QED BY <2>3, PaymentsListed
<1>3. CASE IsShare(ps, pay, from, to)
  <2>1. PICK p \in Purchases, d \in from .. to :
            Exists(ps[p]) /\ InstalmentOn(ps[p], d) /\ pay = ShareOn(ps, p, d)
    BY <1>3 DEF IsShare
  <2>2. pay.date = d
    BY <2>1 DEF ShareOn
  <2>3. IsShare(ps, pay, start, end)
    BY <2>1, <2>2 DEF IsShare
  <2> QED BY <2>3, PaymentsListed
<1> QED BY <1>1, <1>2, <1>3

(* Finitely many payments take some cents. *)
LEMMA OutflowSums ==
    ASSUME NEW A, IsFiniteSet(A), \A pay \in A : pay.amount \in Int, NEW x
    PROVE  LET made == {pay \in A : pay.date <= x}
           IN  /\ IsFiniteSet(made) /\ [pay \in made |-> pay.amount] \in [made -> Int]
               /\ Outflow(A, x) = Total([pay \in made |-> pay.amount])
               /\ Outflow(A, x) \in Int
<1>. DEFINE made == {pay \in A : pay.date <= x}
            f == [pay \in made |-> pay.amount]
<1>1. IsFiniteSet(made)
  BY FS_Subset
<1>2. f \in [made -> Int]
  OBVIOUS
<1>3. Outflow(A, x) = Total(f)
  BY DEF Outflow
<1>. HIDE DEF made, f
<1>4. Total(f) \in Int
  BY <1>1, <1>2, TotalType
<1> QED BY <1>1, <1>2, <1>3, <1>4 DEF made, f

(* What given payments are of. *)
Amounts(pays) == [pay \in pays |-> pay.amount]

(* Payments of two kinds amount to what each kind does. *)
LEMMA AmountsApart ==
    ASSUME NEW S, IsFiniteSet(S), NEW T, IsFiniteSet(T), S \cap T = {}, NEW U, U = S \cup T,
           Amounts(S) \in [S -> Int], Amounts(T) \in [T -> Int], Amounts(U) \in [U -> Int]
    PROVE  Total(Amounts(U)) = Total(Amounts(S)) + Total(Amounts(T))
<1>1. /\ \A pay \in S : Amounts(S)[pay] = Amounts(U)[pay]
      /\ \A pay \in T : Amounts(T)[pay] = Amounts(U)[pay]
  BY DEF Amounts
<1>2. \A f \in [U -> Int], g \in [S -> Int], h \in [T -> Int] :
          (\A x \in S : g[x] = f[x]) /\ (\A x \in T : h[x] = f[x]) => Total(f) = Total(g) + Total(h)
  BY TotalUnion
<1>. DEFINE f == Amounts(U)
            g == Amounts(S)
            h == Amounts(T)
<1>. HIDE DEF f, g, h
<1>3. /\ f \in [U -> Int] /\ g \in [S -> Int] /\ h \in [T -> Int]
      /\ (\A x \in S : g[x] = f[x]) /\ (\A x \in T : h[x] = f[x])
  BY <1>1, Zenon DEF f, g, h
<1>4. Total(f) = Total(g) + Total(h)
  <2>1. \A j \in [S -> Int], k \in [T -> Int] :
            (\A x \in S : j[x] = f[x]) /\ (\A x \in T : k[x] = f[x]) => Total(f) = Total(j) + Total(k)
    BY <1>2, <1>3, Zenon
  <2>2. \A k \in [T -> Int] : (\A x \in T : k[x] = f[x]) => Total(f) = Total(g) + Total(k)
    BY <1>3, <2>1, Zenon
  <2> QED BY <1>3, <2>2, Zenon
<1> QED BY <1>4 DEF f, g, h

(* Payments made at two times take what they take together. *)
LEMMA OutflowApart ==
    ASSUME NEW A, IsFiniteSet(A), \A pay \in A : pay.amount \in Int, NEW k,
           NEW B, IsFiniteSet(B), \A pay \in B : pay.amount \in Int, NEW m,
           NEW C, IsFiniteSet(C), \A pay \in C : pay.amount \in Int, NEW n,
           \A pay : pay \in A /\ pay.date <= k
                    <=> (pay \in B /\ pay.date <= m) \/ (pay \in C /\ pay.date <= n),
           \A pay \in B : pay.date <= m => ~(pay \in C /\ pay.date <= n)
    PROVE  Outflow(A, k) = Outflow(B, m) + Outflow(C, n)
<1>. DEFINE a == {pay \in A : pay.date <= k}
            b == {pay \in B : pay.date <= m}
            c == {pay \in C : pay.date <= n}
<1>1. /\ IsFiniteSet(a) /\ Amounts(a) \in [a -> Int] /\ Outflow(A, k) = Total(Amounts(a))
      /\ IsFiniteSet(b) /\ Amounts(b) \in [b -> Int] /\ Outflow(B, m) = Total(Amounts(b))
      /\ IsFiniteSet(c) /\ Amounts(c) \in [c -> Int] /\ Outflow(C, n) = Total(Amounts(c))
  BY OutflowSums DEF Amounts
<1>2. a = b \cup c /\ b \cap c = {}
  OBVIOUS
<1>. HIDE DEF a, b, c
<1>3. Total(Amounts(a)) = Total(Amounts(b)) + Total(Amounts(c))
  BY <1>1, <1>2, AmountsApart
<1> QED BY <1>1, <1>3

(* When a day passes, the forecast for a date leaves out what was due on that day. *)
LEMMA DayForgotten ==
    ASSUME NEW rs, NEW ps, KeptRows(rs, ps), NEW l \in Nat, YearAhead(l), YearAhead(l + 1),
           NEW h \in Nat, l + h \in Dates, l + 1 + h \in Dates, NEW day \in 1 .. h
    PROVE  /\ Outflow(PaymentsOf(rs, ps, l, l + h), l + day) \in Int
           /\ Outflow(PaymentsOf(rs, ps, l + 1, l + 1 + h), l + 1 + (day - 1)) \in Int
           /\ Outflow(PaymentsOf(rs, ps, l, l), l) \in Int
           /\ Outflow(PaymentsOf(rs, ps, l, l + h), l + day)
              = Outflow(PaymentsOf(rs, ps, l + 1, l + 1 + h), l + 1 + (day - 1))
                + Outflow(PaymentsOf(rs, ps, l, l), l)
<1>. DEFINE m == l + 1
            x == l + h
            y == m + h
            A == PaymentsOf(rs, ps, l, x)
            B == PaymentsOf(rs, ps, m, y)
            C == PaymentsOf(rs, ps, l, l)
            s == l + day
            t == m + (day - 1)
<1>1. l \in Dates /\ YearAhead(m) /\ x \in Dates /\ y \in Dates
  BY DEF YearAhead
<1>2. s = t /\ s \in Int /\ m \in Int /\ l \in Int /\ l < m /\ s >= m /\ s <= x /\ s <= y /\ x \in Int /\ y \in Int
  OBVIOUS
<1>3. \A d \in Int : d >= m <=> d > l
  OBVIOUS
<1>. HIDE DEF m, x, y, s, t
<1>4. /\ IsFiniteSet(A) /\ \A pay \in A : pay.amount \in Int /\ pay.date \in l .. x
      /\ IsFiniteSet(B) /\ \A pay \in B : pay.amount \in Int /\ pay.date \in m .. y
      /\ IsFiniteSet(C) /\ \A pay \in C : pay.amount \in Int /\ pay.date \in l .. l
  BY <1>1, PaymentsCounted
<1>5. \A pay \in A : pay.date \in m .. y => pay \in B
  BY <1>1, PaymentsRedated
<1>6. \A pay \in A : pay.date \in l .. l => pay \in C
  BY <1>1, PaymentsRedated
<1>7. \A pay \in B : pay.date \in l .. x => pay \in A
  BY <1>1, PaymentsRedated
<1>8. \A pay \in C : pay.date \in l .. x => pay \in A
  BY <1>1, PaymentsRedated
<1>. HIDE DEF A, B, C
<1>9. ASSUME NEW pay PROVE pay \in A /\ pay.date <= s
                           <=> (pay \in B /\ pay.date <= t) \/ (pay \in C /\ pay.date <= l)
  <2>1. ASSUME pay \in A, pay.date <= s
        PROVE  (pay \in B /\ pay.date <= t) \/ (pay \in C /\ pay.date <= l)
    <3>1. pay.date \in Int /\ l <= pay.date
      BY <1>2, <1>4, <2>1
    <3>2. CASE pay.date = l
      <4>1. pay.date \in l .. l
        BY <1>2, <3>2
      <4> QED BY <1>2, <1>6, <2>1, <3>2, <4>1
    <3>3. CASE pay.date # l
      <4>1. pay.date \in m .. y
        BY <1>2, <1>3, <2>1, <3>1, <3>3
      <4> QED BY <1>2, <1>5, <2>1, <4>1
    <3> QED BY <3>2, <3>3
  <2>2. ASSUME pay \in B, pay.date <= t PROVE pay \in A /\ pay.date <= s
    <3>1. pay.date \in Int /\ m <= pay.date
      BY <1>2, <1>4, <2>2
    <3>2. pay.date \in l .. x
      BY <1>2, <2>2, <3>1
    <3> QED BY <1>2, <1>7, <2>2, <3>2
  <2>3. ASSUME pay \in C, pay.date <= l PROVE pay \in A /\ pay.date <= s
    <3>1. pay.date = l /\ pay.date \in l .. x
      BY <1>2, <1>4, <2>3
    <3> QED BY <1>2, <1>8, <2>3, <3>1
  <2> QED BY <2>1, <2>2, <2>3
<1>10. ASSUME NEW pay \in B, pay.date <= t PROVE ~(pay \in C /\ pay.date <= l)
  <2>1. pay.date \in Int /\ m <= pay.date
    BY <1>2, <1>4
  <2> QED BY <1>2, <2>1
<1>11. Outflow(A, s) = Outflow(B, t) + Outflow(C, l)
  BY <1>4, <1>9, <1>10, OutflowApart
<1>12. Outflow(A, s) \in Int /\ Outflow(B, t) \in Int /\ Outflow(C, l) \in Int
  BY <1>4, OutflowSums
<1> QED BY <1>11, <1>12 DEF A, B, C, m, x, y, s, t

(* The rows the server keeps are such rows. *)
LEMMA RowsAreKept == ScheduleInv => KeptRows(rules, purchases)
<1>. SUFFICES ASSUME ScheduleInv PROVE KeptRows(rules, purchases)
  OBVIOUS
<1>1. ASSUME NEW r \in Rules, Exists(rules[r]) PROVE InStep(rules[r])
  <2>1. RowKept(rules[r], DatesOf(moves, r), utc)
    BY DEF ScheduleInv, RulesInv
  <2> QED BY <1>1, <2>1 DEF RowKept, Covers
<1>2. ASSUME NEW p \in Purchases, Exists(purchases[p]) PROVE purchases[p] \in PurchaseInputs
  BY <1>2 DEF ScheduleInv, RowsInv, Exists
<1> QED BY <1>1, <1>2 DEF KeptRows

(* A quarter from a day that has a year ahead is in the calendar. *)
LEMMA QuarterAhead ==
    ASSUME NEW d, YearAhead(d), NEW n \in Nat, n <= 90
    PROVE  d + n \in Dates /\ d \in Nat
<1>. DEFINE m == MonthOf[d]
<1>1. d \in Dates /\ d \in Nat /\ m \in Months /\ m + 12 \in Months /\ d <= LastOf[m]
  BY DatesHaveMonths DEF YearAhead
<1>. HIDE DEF m
<1>2. m \in Nat /\ m + 1 \in Months /\ m + 2 \in Months /\ m + 3 \in Months /\ m + 4 \in Months
  BY <1>1, MonthsAre
<1>3. /\ m + 1 + 1 = m + 2 /\ m + 2 + 1 = m + 3 /\ m + 3 + 1 = m + 4
  BY <1>2
<1>4. /\ LastOf[m] \in Nat /\ LastOf[m + 1] \in Nat /\ LastOf[m + 2] \in Nat /\ LastOf[m + 3] \in Nat
      /\ LastOf[m + 4] \in Nat
      /\ LastOf[m] + 28 <= LastOf[m + 1] /\ LastOf[m + 1] + 28 <= LastOf[m + 2]
      /\ LastOf[m + 2] + 28 <= LastOf[m + 3] /\ LastOf[m + 3] + 28 <= LastOf[m + 4]
  BY <1>1, <1>2, <1>3, MonthsLong
<1>5. d + n <= LastOf[m + 4] /\ d + n \in Int /\ d <= d + n
  BY <1>1, <1>4
<1>6. LastOf[m + 4] \in Dates
  <2>1. LastOf[m + 4] \in FirstOf[m + 4] .. LastOf[m + 4]
    BY <1>2, MonthBounds
  <2> QED BY <1>2, <2>1, DaysOfMonth
<1> QED BY <1>1, <1>5, <1>6, DatesBetween

(* The forecast is made on a day with a year ahead, as is the one of the next day. *)
LEMMA ForecastDays ==
    ASSUME ScheduleInv
    PROVE  /\ Horizon \in Nat /\ local \in Nat /\ utc \in Nat /\ YearAhead(local) /\ local + Horizon \in Dates
           /\ YearAhead(utc) /\ utc + Horizon \in Dates /\ utc \in local .. local + Horizon
           /\ utc \in {local, local + 1}
<1>1. Horizon \in {30, 60, 90}
  BY ProjectionsConstants
<1>2. Horizon \in Nat /\ 1 <= Horizon /\ Horizon <= 90
  BY <1>1
<1>3. YearAhead(utc) /\ utc \in Dates /\ utc \in Nat
  BY ClockAhead, DatesHaveMonths DEF ScheduleInv, YearAhead
<1>4. local \in Dates /\ local \in Nat /\ local \in {utc - 1, utc}
  BY TodayIs, DatesHaveMonths DEF ScheduleInv, ClockInv
<1>5. YearAhead(local)
  <2>1. MonthOf[local] <= MonthOf[utc] /\ MonthOf[local] \in Months /\ MonthOf[utc] \in Months
    BY <1>3, <1>4, DatesInOrder, DatesHaveMonths
  <2>2. MonthOf[utc] + 12 \in Months
    BY <1>3 DEF YearAhead
  <2>3. MonthOf[local] + 12 \in Months
    BY <2>1, <2>2, MonthsAre
  <2> QED BY <1>4, <2>3 DEF YearAhead
<1>6. local + Horizon \in Dates /\ utc + Horizon \in Dates
  BY <1>2, <1>3, <1>5, QuarterAhead
<1>7. utc \in local .. local + Horizon /\ utc \in {local, local + 1}
  BY <1>2, <1>3, <1>4
<1> QED BY <1>2, <1>3, <1>4, <1>5, <1>6, <1>7

-----------------------------------------------------------------------------
(* The forecast *)

(* What the payments promised take is a number of cents. *)
LEMMA OutflowType ==
    ASSUME ScheduleInv, NEW last
    PROVE  Outflow(Payments(local, local + Horizon), last) \in Int
<1>. DEFINE A == PaymentsOf(rules, purchases, local, local + Horizon)
<1>1. Payments(local, local + Horizon) = A
  BY DEF Payments, PaymentsOf, BillOn, ShareOn
<1>2. KeptRows(rules, purchases) /\ YearAhead(local) /\ local + Horizon \in Dates
  BY RowsAreKept, ForecastDays
<1>3. IsFiniteSet(A) /\ \A pay \in A : pay.amount \in Int
  BY <1>2, PaymentsCounted
<1>. HIDE DEF A
<1> QED BY <1>1, <1>3, OutflowSums

(* The averages of the last 90 days are numbers of cents. *)
LEMMA RecentType ==
    ASSUME ScheduleInv, NEW today
    PROVE  DailyIncome(today) \in Int /\ DailyExpense(today) \in Int
<1>. DEFINE S == DOMAIN moves
            in == {i \in S : /\ today - 89 <= moves[i].date /\ moves[i].date <= today
                             /\ moves[i].affects /\ moves[i].type = "income" /\ moves[i].account \in Liquid}
            out == {i \in S : /\ today - 89 <= moves[i].date /\ moves[i].date <= today
                              /\ moves[i].affects /\ moves[i].type = "expense"}
            f == [i \in in |-> moves[i].amount]
            g == [i \in out |-> moves[i].amount]
<1>1. IsFiniteSet(S) /\ \A i \in S : moves[i].amount \in Int
  BY LinesAre, MovementIs
<1>2. DailyIncome(today) = RoundDiv(Total(f), 90)
  BY DEF DailyIncome, Recent
<1>3. DailyExpense(today) = RoundDiv(Total(g), 90)
  BY DEF DailyExpense, Recent
<1>4. IsFiniteSet(in) /\ IsFiniteSet(out) /\ f \in [in -> Int] /\ g \in [out -> Int]
  <2>1. in \subseteq S /\ out \subseteq S
    OBVIOUS
  <2>. HIDE DEF S, in, out
  <2> QED BY <1>1, <2>1, FS_Subset
<1>. HIDE DEF f, g, in, out
<1>5. Total(f) \in Int /\ Total(g) \in Int
  BY <1>4, TotalType
<1>6. \A n \in Int : RoundDiv(n, 90) \in Int
  BY DEF RoundDiv
<1> QED BY <1>2, <1>3, <1>5, <1>6

(* The yields an account is promised are whole cents. *)
WholeYields ==
    \A a \in Accounts, balance \in Int, days \in Nat : EstimateYield(a, balance, days) \in Int

(* A whole q of the sign of n that, h times, is off n by half of h at most. *)
Spread(n, h, q) ==
    /\ q \in Int /\ (n <= 0 => q <= 0) /\ (n >= 0 => q >= 0)
    /\ 2 * (h * q - n) <= h /\ 2 * (n - h * q) <= h

(* Spreading a sum over the days, rounded, is off by half a cent a day at most. *)
LEMMA SpreadOut == \A n \in Int, h \in {30, 60, 90} : Spread(n, h, RoundDiv(n, h))
<1>. TAKE n \in Int, h \in {30, 60, 90}
<1>. DEFINE x == 2 * n + h
            m == 2 * h
            q == x \div m
<1>1. x \in Int /\ m \in Nat \ {0} /\ h \in Int /\ m = 2 * h
  OBVIOUS
<1>2. q \in Int /\ m * q <= x /\ x < m * q + m
  <2>. DEFINE p == m * q
  <2>. HIDE DEF x, m
  <2>1. q \in Int /\ x % m \in 0 .. m - 1 /\ x = p + (x % m)
    BY <1>1, Division
  <2>2. p \in Int /\ m \in Int /\ x % m \in Int /\ x % m >= 0 /\ x % m < m
    BY <1>1, <2>1
  <2>. HIDE DEF p, q
  <2>3. p <= x /\ x < p + m
    BY <1>1, <2>1, <2>2
  <2> QED BY <2>1, <2>3 DEF p
<1>3. RoundDiv(n, h) = q
  BY DEF RoundDiv
<1>. HIDE DEF q
<1>4. m * q = 2 * (h * q) /\ h * q \in Int
  BY <1>1, <1>2
<1>5. /\ 2 * (h * q - n) <= h /\ 2 * (n - h * q) <= h
  <2>. DEFINE y == h * q
  <2>1. y \in Int /\ 2 * y <= 2 * n + h /\ 2 * n + h < 2 * y + 2 * h
    BY <1>2, <1>4
  <2>. HIDE DEF y
  <2>2. 2 * (y - n) <= h /\ 2 * (n - y) <= h
    BY <1>1, <2>1
  <2> QED BY <2>2 DEF y
<1>6. (n <= 0 => q <= 0) /\ (n >= 0 => q >= 0)
  <2>1. CASE h = 30
    BY <1>2, <2>1
  <2>2. CASE h = 60
    BY <1>2, <2>2
  <2>3. CASE h = 90
    BY <1>2, <2>3
  <2> QED BY <2>1, <2>2, <2>3
<1> QED BY <1>2, <1>3, <1>5, <1>6 DEF Spread

(* Over the horizon the forecast spends the larger of the bills and the average. *)
LEMMA SpendingOnce == ASSUME ScheduleInv, WholeYields PROVE SpendingCountedOnce
<1>. DEFINE H == Horizon
            pays == Payments(local, local + H)
            bills == Outflow(pays, local + H)
            average == DailyExpense(local)
            income == DailyIncome(local)
            interest == YieldThrough(H)
            burn == BurnRate(average, bills, H)
            start == StartingBalance
            result == Timeline(local, H)[H].realistic
            r == RoundDiv(average * H - bills, H)
<1>1. H \in {30, 60, 90} /\ H \in Nat /\ local \in Int /\ local + H \in Int
  BY ProjectionsConstants, TodayIs
<1>2. bills \in Int /\ average \in Int /\ income \in Int
  BY OutflowType, RecentType
<1>3. start \in Int /\ interest \in Int
  <2>. DEFINE f == [a \in Liquid |-> value[a]]
              g == [a \in Liquid |-> EstimateYield(a, value[a], H)]
  <2>1. IsFiniteSet(Liquid) /\ Liquid \subseteq Accounts
    BY SchedulesConstants, FS_Subset DEF Liquid
  <2>2. \A a \in Accounts : value[a] \in Int
    BY DEF ScheduleInv, RowsInv
  <2>3. \A a \in Liquid : value[a] \in Int /\ EstimateYield(a, value[a], H) \in Int
    BY <1>1, <2>1, <2>2 DEF WholeYields
  <2>4. f \in [Liquid -> Int] /\ g \in [Liquid -> Int]
    BY <2>3
  <2>5. start = Total(f) /\ interest = Total(g)
    BY DEF StartingBalance, YieldThrough
  <2>. HIDE DEF f, g, start, interest
  <2> QED BY <2>1, <2>4, <2>5, TotalType
<1>4. result = (start - bills + interest) + H * (income - burn)
  <2>1. H \in 0 .. H
    BY <1>1
  <2> QED BY <2>1, Zenon DEF Timeline
<1>5. average * H \in Int /\ average * H - bills \in Int
  <2>. HIDE DEF H, average, bills
  <2> QED BY <1>1, <1>2
<1>6. /\ r \in Int /\ (average * H - bills <= 0 => r <= 0) /\ (average * H - bills >= 0 => r >= 0)
      /\ 2 * (H * r - (average * H - bills)) <= H /\ 2 * ((average * H - bills) - H * r) <= H
  <2>. DEFINE n == average * H - bills
  <2>1. n \in Int /\ H \in {30, 60, 90} /\ r = RoundDiv(n, H)
    BY <1>1, <1>5
  <2>. HIDE DEF n, H, r
  <2>2. Spread(n, H, r)
    BY <2>1, SpreadOut
  <2>3. /\ r \in Int /\ (n <= 0 => r <= 0) /\ (n >= 0 => r >= 0)
        /\ 2 * (H * r - n) <= H /\ 2 * (n - H * r) <= H
    BY <2>2, Zenon DEF Spread
  <2> QED BY <2>3 DEF n
<1>7. burn = IF r < 0 THEN 0 ELSE r
  BY DEF BurnRate, AtLeastZero
<1>8. H * (income - burn) = H * income - H * burn /\ H * income = income * H /\ H * burn \in Int
  <2>1. burn \in Int
    BY <1>6, <1>7
  <2>. HIDE DEF burn, income, H
  <2>2. CASE H = 30
    BY <1>2, <2>1, <2>2
  <2>3. CASE H = 60
    BY <1>2, <2>1, <2>3
  <2>4. CASE H = 90
    BY <1>2, <2>1, <2>4
  <2> QED BY <1>1, <2>2, <2>3, <2>4
<1>. DEFINE spent == start + interest + income * H - result
            usual == average * H
            most == IF bills > usual THEN bills ELSE usual
<1>9. spent = bills + H * burn
  <2>. DEFINE x == income * H
              y == H * burn
  <2>1. x \in Int /\ y \in Int /\ H * income = x /\ H * (income - burn) = x - y
    <3>. HIDE DEF H, income, burn
    <3>1. income * H \in Int
      BY <1>1, <1>2
    <3> QED BY <1>8, <3>1
  <2>. HIDE DEF start, interest, bills, result
  <2>2. result = (start - bills + interest) + (x - y)
    <3>. HIDE DEF H, income, burn, x, y
    <3> QED BY <1>4, <2>1
  <2>. HIDE DEF x, y, spent
  <2>3. spent = start + interest + x - result
    BY DEF spent, x
  <2>4. spent = bills + y
    BY <1>2, <1>3, <2>1, <2>2, <2>3
  <2> QED BY <2>4 DEF y
<1>. HIDE DEF spent
<1>10. 2 * (spent - most) <= H /\ 2 * (most - spent) <= H /\ spent \in Int /\ most \in Int
  <2>. DEFINE y == H * burn
              z == H * r
  <2>. HIDE DEF H, bills, average, burn, r
  <2>1. y \in Int /\ spent = bills + y /\ usual \in Int /\ bills \in Int /\ H \in Int /\ H > 0
    BY <1>1, <1>2, <1>5, <1>8, <1>9
  <2>2. /\ r \in Int /\ (usual - bills <= 0 => r <= 0) /\ (usual - bills >= 0 => r >= 0)
        /\ 2 * (z - (usual - bills)) <= H /\ 2 * ((usual - bills) - z) <= H
    BY <1>6
  <2>3. z \in Int
    BY <2>1, <2>2
  <2>4. CASE r > 0
    <3>1. y = z /\ usual >= bills
      <4>1. burn = r
        BY <1>7, <2>2, <2>4
      <4>. HIDE DEF usual
      <4> QED BY <2>1, <2>2, <2>4, <4>1
    <3>. HIDE DEF y, z, usual
    <3>2. 2 * (spent - usual) <= H /\ 2 * (usual - spent) <= H
      BY <2>1, <2>2, <2>3, <3>1
    <3> QED BY <2>1, <3>1, <3>2
  <2>5. CASE ~(r > 0)
    <3>1. y = 0
      <4>1. burn = 0
        BY <1>7, <2>2, <2>5
      <4> QED BY <2>1, <4>1
    <3>2. r = 0 => z = 0
      BY <2>1
    <3>3. r < 0 => usual <= bills
      <4>. HIDE DEF usual, z
      <4> QED BY <2>1, <2>2
    <3>. HIDE DEF y, z, usual
    <3> QED BY <2>1, <2>2, <2>3, <2>5, <3>1, <3>2, <3>3
  <2> QED BY <2>4, <2>5
<1>11. 2 * Abs(spent - most) <= H
  <2>. HIDE DEF most, H
  <2>1. spent - most \in Int /\ Abs(spent - most) \in {spent - most, -(spent - most)}
    BY <1>10 DEF Abs
  <2> QED BY <1>1, <1>10, <2>1
<1> QED BY <1>11 DEF SpendingCountedOnce, spent, most, usual, result, start, interest, income, bills, pays, average, H

(* The totals agree in every state that keeps the invariant. *)
LEMMA TotalsFollow == ASSUME ScheduleInv, WholeYields PROVE TotalsAgree
<1>1. FlowsExplainWorth(MonthOf[local]) /\ FlowsExplainWorth(MonthOf[local] - 1)
  <2>. DEFINE m == MonthOf[local]
  <2>1. m \in Months /\ m - 1 \in Months /\ FirstOf[m] <= local /\ m \in Int /\ local \in Int
    BY TodayIs
  <2>. HIDE DEF m
  <2>2. FirstOf[m - 1] <= local
    <3>1. LastOf[m - 1] < FirstOf[m] /\ FirstOf[m - 1] <= LastOf[m - 1]
      BY <2>1, MonthsApart, MonthBounds
    <3>2. FirstOf[m - 1] \in Int /\ LastOf[m - 1] \in Int /\ FirstOf[m] \in Int
      BY <2>1, MonthBounds
    <3> QED BY <2>1, <3>1, <3>2
  <2> QED BY <2>1, <2>2, FlowsExplained DEF m
<1>2. \A card \in Cards, cut \in CutDays :
          LET cycles == CreditCardCycles(cut, cut, local)
          IN  CycleExplainsDebt(card, cycles.open) /\ CycleExplainsDebt(card, cycles.previous)
  BY CyclesExplained
<1> QED BY <1>1, <1>2, AnticipationExplained, MonthsSaySame, SpendingExplained, SpendingOnce DEF TotalsAgree

(* In every reachable state the totals of the client agree: a card's cycle with the change of  *)
(* its debt, net worth with income and expenses, the dashboard with the statistics and the     *)
(* calendar, budgets with spending, and the forecast with bills and habits -- for every set of *)
(* accounts, rules, purchases, budgets and movements (lib/credit-card-cycle.ts:76,             *)
(* lib/net-worth-timeline.ts:85, routes/stats/StatsPage.tsx:358, lib/cash-flow-forecast.ts).   *)
THEOREM TotalsAlwaysAgree == ASSUME WholeYields PROVE Spec => []TotalsAgree
<1>1. ScheduleInv => TotalsAgree
  BY TotalsFollow
<1>2. Spec => []ScheduleInv
  BY SchedulesInvariant
<1> QED BY <1>1, <1>2, PTL

-----------------------------------------------------------------------------
(* The curve of net worth *)

(* What given balances hold and earn. *)
Held(v) == Total([a \in Liquid |-> v[a]])

Yielded(v, days) == Total([a \in Liquid |-> EstimateYield(a, v[a], days)])

(* A point of the forecast, of given rules, purchases and balances. *)
PointOf(rs, ps, v, l, day) ==
    Held(v) - Outflow(PaymentsOf(rs, ps, l, l + Horizon), l + day) + Yielded(v, day)

(* The forecast is made of such points, now and next. *)
LEMMA LineIs ==
    /\ ForecastLine = [day \in 0 .. Horizon |-> PointOf(rules, purchases, value, local, day)]
    /\ ForecastLine' = [day \in 0 .. Horizon |-> PointOf(rules', purchases', value', local', day)]
<1>1. \A from, to : Payments(from, to) = PaymentsOf(rules, purchases, from, to)
  BY DEF Payments, PaymentsOf, BillOn, ShareOn
<1>2. \A day : YieldThrough(day) = Yielded(value, day)
  BY DEF YieldThrough, Yielded
<1>3. StartingBalance = Held(value)
  BY DEF StartingBalance, Held
<1>4. ForecastLine = [day \in 0 .. Horizon |-> PointOf(rules, purchases, value, local, day)]
  <2>1. \A day \in 0 .. Horizon :
            Timeline(local, Horizon)[day].scheduled
            = StartingBalance - Outflow(Payments(local, local + Horizon), local + day) + YieldThrough(day)
    BY DEF Timeline
  <2>2. \A day \in 0 .. Horizon :
            Timeline(local, Horizon)[day].scheduled = PointOf(rules, purchases, value, local, day)
    BY <1>1, <1>2, <1>3, <2>1 DEF PointOf
  <2> QED BY <2>2 DEF ForecastLine
<1>5. ForecastLine' = [day \in 0 .. Horizon |-> PointOf(rules', purchases', value', local', day)]
  <2>1. (ForecastLine = [day \in 0 .. Horizon |-> PointOf(rules, purchases, value, local, day)])'
    BY <1>4, PTL
  <2> QED BY <2>1
<1> QED BY <1>4, <1>5

(* What is at the end of a list is what was put there. *)
LEMMA EndOfJoined ==
    ASSUME NEW S, NEW s \in Seq(S), NEW t \in Seq(S)
    PROVE  SubSeq(s \o t, Len(s) + 1, Len(s \o t)) = t
<1>. DEFINE m == Len(s)
            n == Len(t)
            u == s \o t
<1>1. /\ m \in Nat /\ n \in Nat /\ Len(u) = m + n
      /\ \A i \in 1 .. m + n : u[i] = IF i <= m THEN s[i] ELSE t[i - m]
      /\ u \in Seq(S) /\ \A i \in 1 .. n : t[i] \in S
  BY ConcatProperties, LenProperties, ElementOfSeq
<1>. HIDE DEF m, n, u
<1>2. \A i \in 1 .. n : m + 1 + i - 1 \in 1 .. m + n /\ u[m + 1 + i - 1] = t[i]
  <2>. TAKE i \in 1 .. n
  <2>1. m + 1 + i - 1 = m + i /\ m + i \in 1 .. m + n /\ ~(m + i <= m) /\ (m + i) - m = i
    BY <1>1
  <2> QED BY <1>1, <2>1
<1>3. \A i \in m + 1 .. m + n : u[i] \in S
  <2>. TAKE i \in m + 1 .. m + n
  <2>1. i - m \in 1 .. n /\ i \in 1 .. m + n /\ ~(i <= m)
    BY <1>1
  <2> QED BY <1>1, <2>1
<1>. DEFINE a == m + 1
            e == m + n
            v == SubSeq(u, a, e)
<1>4. /\ v \in Seq(S) /\ Len(v) = IF a <= e THEN e - a + 1 ELSE 0
      /\ \A i \in 1 .. e - a + 1 : v[i] = u[a + i - 1]
  <2>1. a \in Int /\ e \in Int /\ \A i \in a .. e : u[i] \in S
    BY <1>1, <1>3
  <2>. HIDE DEF a, e
  <2> QED BY <2>1, SubSeqProperties
<1>. HIDE DEF v
<1>5. Len(v) = n /\ e - a + 1 = n
  BY <1>1, <1>4
<1>6. \A i \in 1 .. n : v[i] = t[i]
  BY <1>2, <1>4, <1>5
<1>7. v = t
  BY <1>4, <1>5, <1>6, SeqEqual DEF n
<1> QED BY <1>1, <1>7 DEF v, a, e, u, m

(* What two lists of movements measure is what they do one after the other. *)
SumsUp(s, t, F) ==
    \A f \in [DOMAIN s -> Int], g \in [DOMAIN t -> Int], h \in [DOMAIN (s \o t) -> Int] :
        /\ \A i \in DOMAIN s : f[i] = F[s[i]]
        /\ \A i \in DOMAIN t : g[i] = F[t[i]]
        /\ \A i \in DOMAIN (s \o t) : h[i] = F[(s \o t)[i]]
        => Total(f) \in Int /\ Total(g) \in Int /\ Total(h) = Total(f) + Total(g)

(* That is so of every measure in whole numbers. *)
LEMMA TotalJoined ==
    \A s, t \in Seq(Movements), F \in [Movements -> Int] : SumsUp(s, t, F)
<1>. TAKE s, t \in Seq(Movements), F \in [Movements -> Int]
<1>. DEFINE u == s \o t
<1>. HIDE DEF u
<1>. SUFFICES ASSUME NEW f \in [DOMAIN s -> Int], \A i \in DOMAIN s : f[i] = F[s[i]],
                     NEW g \in [DOMAIN t -> Int], \A i \in DOMAIN t : g[i] = F[t[i]],
                     NEW h \in [DOMAIN u -> Int], \A i \in DOMAIN u : h[i] = F[u[i]]
              PROVE  Total(f) \in Int /\ Total(g) \in Int /\ Total(h) = Total(f) + Total(g)
  BY Zenon DEF u, SumsUp
<1>. DEFINE m == Len(s)
            n == Len(t)
<1>1. /\ m \in Nat /\ n \in Nat /\ DOMAIN s = 1 .. m /\ DOMAIN t = 1 .. n /\ DOMAIN u = 1 .. m + n
      /\ \A i \in 1 .. m + n : u[i] = IF i <= m THEN s[i] ELSE t[i - m]
  BY ConcatProperties, LenProperties DEF u
<1>. HIDE DEF m, n
<1>2. \A i \in 1 .. m : h[i] = f[i]
  <2>. TAKE i \in 1 .. m
  <2>1. i \in 1 .. m + n /\ i <= m
    BY <1>1
  <2>2. u[i] = s[i] /\ i \in DOMAIN u /\ i \in DOMAIN s
    BY <1>1, <2>1
  <2>3. h[i] = F[u[i]] /\ f[i] = F[s[i]]
    BY <2>2, Zenon
  <2> QED BY <2>2, <2>3, Zenon
<1>3. \A i \in 1 .. n : h[i + m] = g[i]
  <2>. TAKE i \in 1 .. n
  <2>1. i + m \in 1 .. m + n /\ ~(i + m <= m) /\ (i + m) - m = i
    BY <1>1
  <2>2. u[i + m] = t[i] /\ i + m \in DOMAIN u /\ i \in DOMAIN t
    BY <1>1, <2>1
  <2> QED BY <2>2
<1>4. \A i \in [1 .. m -> Int], j \in [1 .. n -> Int], k \in [1 .. m + n -> Int] :
          (\A x \in 1 .. m : k[x] = i[x]) /\ (\A x \in 1 .. n : k[x + m] = j[x])
          => Total(i) \in Int /\ Total(j) \in Int /\ Total(k) = Total(i) + Total(j)
  BY <1>1, TotalRow, Zenon
<1>5. f \in [1 .. m -> Int] /\ g \in [1 .. n -> Int] /\ h \in [1 .. m + n -> Int]
  BY <1>1
<1> QED BY <1>2, <1>3, <1>4, <1>5, Zenon

(* What the server posts when it runs the schedules. *)
Posted ==
    LET due == SetToSeq({r \in Rules : IsDue(r)})
    IN  FlattenSeq([i \in DOMAIN due |-> Materialized(due[i], rules[due[i]])])

(* A charge of a rule that is due. *)
Charges ==
    {m \in Plain : /\ m.rule \in Rules /\ IsDue(m.rule)
                   /\ m.type = "expense" /\ m.affects /\ m.dest = None
                   /\ m.amount = rules[m.rule].amount}

(* A rule that catches up posts such charges. *)
LEMMA MaterializedCharges ==
    ASSUME ScheduleInv, NEW r \in Rules, IsDue(r)
    PROVE  Materialized(r, rules[r]) \in Seq(Charges)
<1>. DEFINE ms == Materialized(r, rules[r])
<1>1. ms \in Seq(Plain)
  BY CaughtUp
<1>2. \A i \in DOMAIN ms : /\ ms[i].rule = r /\ ms[i].type = "expense" /\ ms[i].affects = TRUE
                           /\ ms[i].dest = None /\ ms[i].amount = rules[r].amount
  BY DEF Materialized
<1>. HIDE DEF ms
<1>3. Len(ms) \in Nat /\ DOMAIN ms = 1 .. Len(ms) /\ ms = [i \in 1 .. Len(ms) |-> ms[i]]
      /\ \A i \in 1 .. Len(ms) : ms[i] \in Plain
  <2>1. Len(ms) \in Nat /\ ms \in [1 .. Len(ms) -> Plain]
    BY <1>1, LenProperties
  <2> QED BY <2>1
<1>4. \A i \in 1 .. Len(ms) : ms[i] \in Charges
  <2>. TAKE i \in 1 .. Len(ms)
  <2>1. /\ ms[i] \in Plain /\ ms[i].rule = r /\ ms[i].type = "expense" /\ ms[i].affects = TRUE
        /\ ms[i].dest = None /\ ms[i].amount = rules[r].amount
    BY <1>2, <1>3
  <2> QED BY <2>1 DEF Charges
<1>5. ms \in [1 .. Len(ms) -> Charges]
  BY <1>3, <1>4
<1>6. ms \in Seq(Charges)
  BY <1>3, <1>5, SeqDef
<1> QED BY <1>6 DEF ms

(* So the server posts charges of the rules that are due, each of their dates once. *)
LEMMA PostedAre ==
    ASSUME ScheduleInv
    PROVE  /\ Posted \in Seq(Charges)
           /\ \A q \in Rules :
                  /\ OnceIn(Posted, q)
                  /\ IsDue(q) => DatesOf(Posted, q) = ChargesOf(rules[q])
<1>. DEFINE D == {r \in Rules : IsDue(r)}
            k == Cardinality(D)
            due == SetToSeq(D)
            Of(q) == Materialized(q, rules[q])
            ss == [i \in DOMAIN due |-> Of(due[i])]
<1>1. IsFiniteSet(D)
  BY SchedulesConstants, FS_Subset
<1>2. \A q \in D : Of(q) \in Seq(Charges)
  BY MaterializedCharges
<1>3. Posted = FlattenSeq(ss)
  BY DEF Posted
<1>. HIDE DEF D, Of
<1>4. k \in Nat /\ due \in [1 .. k -> D]
  BY <1>1, Ordered
<1>. HIDE DEF k, due
<1>5. ss = [i \in 1 .. k |-> ss[i]] /\ \A i \in 1 .. k : ss[i] \in Seq(Charges)
  BY <1>2, <1>4
<1>. HIDE DEF ss
<1>6. ss \in Seq(Seq(Charges))
  BY <1>4, <1>5, Pieces
<1>7. Posted \in Seq(Charges)
  BY <1>3, <1>6, FlattenType
<1>8. ASSUME NEW q \in Rules
      PROVE  OnceIn(Posted, q) /\ (IsDue(q) => DatesOf(Posted, q) = ChargesOf(rules[q]))
  <2>1. OnceIn(Posted, q) /\ (IsDue(q) => DatesOf(Posted, q) = DatesOf(Materialized(q, rules[q]), q))
    BY ChargedTogether DEF Posted
  <2>2. ASSUME IsDue(q) PROVE DatesOf(Materialized(q, rules[q]), q) = ChargesOf(rules[q])
    <3>1. YearAhead(utc) /\ InStep(rules[q]) /\ rules[q].next <= utc
      BY <2>2, ClockAhead, RowsAreKept DEF ScheduleInv, KeptRows, IsDue
    <3> QED BY <3>1, MaterializedIs
  <2> QED BY <2>1, <2>2
<1> QED BY <1>7, <1>8

(* The rules once the server has run the schedules. *)
RulesRun == [r \in Rules |-> IF IsDue(r) THEN Advanced(rules[r]) ELSE rules[r]]

(* The charges posted that the forecast announced for the coming days. *)
Announced(day) ==
    {i \in DOMAIN Posted : local <= Posted[i].date /\ Posted[i].date <= local + day}

(* The payments they make. *)
Paid(day) == {BillOn(rules, Posted[i].rule, Posted[i].date) : i \in Announced(day)}

(* Each line posted is the charge of a rule, of its amount. *)
LEMMA PostedLines ==
    ASSUME ScheduleInv
    PROVE  /\ IsFiniteSet(DOMAIN Posted) /\ \A i \in DOMAIN Posted : Posted[i] \in Charges
           /\ \A i \in DOMAIN Posted :
                  /\ Posted[i].rule \in Rules /\ IsDue(Posted[i].rule)
                  /\ Posted[i].date \in Int /\ Posted[i].amount \in Int
                  /\ Posted[i].amount = rules[Posted[i].rule].amount
<1>1. Posted \in Seq(Charges)
  BY PostedAre
<1>2. Len(Posted) \in Nat /\ DOMAIN Posted = 1 .. Len(Posted) /\ \A i \in 1 .. Len(Posted) : Posted[i] \in Charges
  BY <1>1, LenProperties, ElementOfSeq
<1>3. IsFiniteSet(1 .. Len(Posted))
  BY <1>2, FS_Interval
<1>4. \A m \in Charges : /\ m \in Movements /\ m.rule \in Rules /\ IsDue(m.rule)
                         /\ m.amount = rules[m.rule].amount
  BY DEF Charges, Plain
<1>5. \A m \in Charges : m.date \in Int /\ m.amount \in Int
  BY <1>4, MovementIs
<1> QED BY <1>2, <1>3, <1>4, <1>5

(* Each is of a rule that is due, and each such charge of the coming days is among them. *)
LEMMA PaidAre ==
    ASSUME ScheduleInv, NEW day
    PROVE  \A pay : pay \in Paid(day) <=>
               \E r \in Rules : \E d \in ChargesOf(rules[r]) :
                   IsDue(r) /\ local <= d /\ d <= local + day /\ pay = BillOn(rules, r, d)
<1>1. \A i \in DOMAIN Posted : Posted[i].rule \in Rules /\ IsDue(Posted[i].rule)
  BY PostedLines
<1>2. \A q \in Rules : IsDue(q) => DatesOf(Posted, q) = ChargesOf(rules[q])
  BY PostedAre
<1>4. \A i : i \in Announced(day) <=>
          i \in DOMAIN Posted /\ local <= Posted[i].date /\ Posted[i].date <= local + day
  BY DEF Announced
<1>. TAKE pay
<1>5. pay \in Paid(day) <=> \E i \in Announced(day) : pay = BillOn(rules, Posted[i].rule, Posted[i].date)
  BY DEF Paid
<1>6. ASSUME NEW i \in Announced(day), pay = BillOn(rules, Posted[i].rule, Posted[i].date)
      PROVE  \E r \in Rules : \E d \in ChargesOf(rules[r]) :
                 IsDue(r) /\ local <= d /\ d <= local + day /\ pay = BillOn(rules, r, d)
  <2>1. /\ i \in DOMAIN Posted /\ local <= Posted[i].date /\ Posted[i].date <= local + day
        /\ Posted[i].rule \in Rules /\ IsDue(Posted[i].rule)
    BY <1>1, <1>4
  <2>2. Posted[i].date \in DatesOf(Posted, Posted[i].rule)
    BY <2>1 DEF DatesOf
  <2>3. DatesOf(Posted, Posted[i].rule) = ChargesOf(rules[Posted[i].rule])
    BY <1>2, <2>1
  <2>4. Posted[i].date \in ChargesOf(rules[Posted[i].rule])
    BY <2>2, <2>3
  <2> QED BY <1>6, <2>1, <2>4, Zenon
<1>7. ASSUME NEW r \in Rules, NEW d \in ChargesOf(rules[r]), IsDue(r), local <= d, d <= local + day,
             pay = BillOn(rules, r, d)
      PROVE  \E i \in Announced(day) : pay = BillOn(rules, Posted[i].rule, Posted[i].date)
  <2>0. d \in DatesOf(Posted, r)
    BY <1>2, <1>7
  <2>1. PICK i \in DOMAIN Posted : Posted[i].rule = r /\ Posted[i].date = d
    BY <2>0 DEF DatesOf
  <2>2. i \in Announced(day)
    BY <1>4, <1>7, <2>1, Zenon
  <2> QED BY <1>7, <2>1, <2>2, Zenon
<1> QED BY <1>5, <1>6, <1>7, Zenon

(* They amount to what was posted for these days. *)
LEMMA PaidAmounts ==
    ASSUME ScheduleInv, NEW day \in Nat
    PROVE  LET f == [i \in DOMAIN Posted |->
                        IF local <= Posted[i].date /\ Posted[i].date <= local + day
                        THEN Posted[i].amount ELSE 0]
           IN  /\ IsFiniteSet(Paid(day)) /\ \A pay \in Paid(day) : pay.amount \in Int /\ pay.date \in Int
               /\ f \in [DOMAIN Posted -> Int] /\ Outflow(Paid(day), local + day) = Total(f)
<1>. DEFINE S == DOMAIN Posted
            I == Announced(day)
            P == Paid(day)
            f == [i \in S |-> IF local <= Posted[i].date /\ Posted[i].date <= local + day
                              THEN Posted[i].amount ELSE 0]
            g == [i \in I |-> f[i]]
            b == [i \in I |-> BillOn(rules, Posted[i].rule, Posted[i].date)]
            a == Amounts(P)
<1>1. /\ IsFiniteSet(S)
      /\ \A i \in S : /\ Posted[i].rule \in Rules /\ Posted[i].date \in Int /\ Posted[i].amount \in Int
                      /\ Posted[i].amount = rules[Posted[i].rule].amount
  BY PostedLines
<1>2. /\ I \subseteq S
      /\ \A i \in S : i \in I <=> local <= Posted[i].date /\ Posted[i].date <= local + day
  BY DEF Announced
<1>3. IsFiniteSet(I)
  BY <1>1, <1>2, FS_Subset
<1>4. f \in [S -> Int]
  BY <1>1
<1>5. (\A i \in S \ I : f[i] = 0) /\ \A i \in I : f[i] = Posted[i].amount /\ g[i] = f[i]
  BY <1>2
<1>6. DOMAIN b = I /\ b = [i \in I |-> b[i]] /\ P = {b[i] : i \in I}
  BY DEF Paid
<1>7. \A i \in I : /\ b[i].item = Posted[i].rule /\ b[i].date = Posted[i].date
                   /\ b[i].amount = rules[Posted[i].rule].amount
  BY DEF BillOn
<1>. HIDE DEF S, I, P, f, b
<1>8. IsFiniteSet(P)
  BY <1>3, <1>6, FiniteImage
<1>9. \A i \in I : b[i].amount = f[i] /\ f[i] \in Int /\ b[i] \in P
  BY <1>1, <1>2, <1>5, <1>6, <1>7
<1>10. \A pay \in P : pay.amount \in Int /\ pay.date \in Int
  BY <1>1, <1>2, <1>6, <1>7, <1>9
<1>11. \A pay \in P : pay.date <= local + day
  BY <1>2, <1>6, <1>7
<1>12. Outflow(P, local + day) = Total(a) /\ a \in [P -> Int]
  <2>. DEFINE made == {pay \in P : pay.date <= local + day}
  <2>1. made = P
    BY <1>11
  <2>2. Outflow(P, local + day) = Total([pay \in made |-> pay.amount])
    BY DEF Outflow
  <2> QED BY <1>10, <2>1, <2>2 DEF Amounts
<1>13. b \in Bijection(I, P)
  <2>1. b \in [I -> P]
    BY <1>6, <1>9
  <2>2. \A z \in P : \E i \in I : b[i] = z
    BY <1>6
  <2>3. \A i, j \in I : b[i] = b[j] => i = j
    <3>. SUFFICES ASSUME NEW i \in I, NEW j \in I, b[i] = b[j] PROVE i = j
      OBVIOUS
    <3>1. i \in S /\ j \in S /\ Posted[i].rule = Posted[j].rule /\ Posted[i].date = Posted[j].date
      BY <1>2, <1>7
    <3>2. OnceIn(Posted, Posted[i].rule)
      BY <1>1, <3>1, PostedAre
    <3> QED BY <3>1, <3>2, Zenon DEF OnceIn, S
  <2> QED BY <2>1, <2>2, <2>3 DEF Bijection, Injection, Surjection, IsInjective
<1>14. Reindexed(a, b) = g
  <2>1. Reindexed(a, b) = [i \in I |-> a[b[i]]]
    BY <1>6 DEF Reindexed
  <2>2. \A i \in I : a[b[i]] = g[i]
    BY <1>9 DEF Amounts
  <2>3. g = [i \in I |-> g[i]]
    OBVIOUS
  <2> QED BY <2>1, <2>2, <2>3
<1>. HIDE DEF a
<1>15. Total(a) = Total(g)
  BY <1>3, <1>8, <1>12, <1>13, <1>14, TotalReindexed
<1>16. Total(f) = Total(g)
  BY <1>1, <1>2, <1>4, <1>5, TotalWithin
<1> QED BY <1>4, <1>8, <1>10, <1>12, <1>15, <1>16 DEF P, f, S

(* What is upcoming of the rules before they are run is what is afterwards, and what was posted. *)
LEMMA UpcomingSplit ==
    ASSUME ScheduleInv, NEW r \in Rules, Exists(rules[r])
    PROVE  /\ Exists(RulesRun[r]) /\ RulesRun[r].amount = rules[r].amount
           /\ \A d : /\ Upcoming(rules[r], d)
                        <=> Upcoming(RulesRun[r], d) \/ (IsDue(r) /\ d \in ChargesOf(rules[r]))
                     /\ ~(Upcoming(RulesRun[r], d) /\ IsDue(r) /\ d \in ChargesOf(rules[r]))
<1>. DEFINE rule == rules[r]
<1>1. YearAhead(utc) /\ InStep(rule)
  BY ForecastDays, RowsAreKept DEF KeptRows
<1>2. CASE IsDue(r)
  <2>1. RulesRun[r] = Advanced(rule) /\ rule.active /\ rule.next <= utc
    BY <1>2 DEF RulesRun, IsDue
  <2>. HIDE DEF rule
  <2>2. \A d : /\ Upcoming(rule, d) <=> Upcoming(Advanced(rule), d) \/ d \in ChargesOf(rule)
               /\ ~(Upcoming(Advanced(rule), d) /\ d \in ChargesOf(rule))
    BY <1>1, <2>1, NoLongerUpcoming
  <2>3. Advanced(rule).amount = rule.amount /\ Advanced(rule) \in RuleRows
    <3>1. Advanced(rule) \in RuleRows
      BY <1>2, CaughtUp DEF rule
    <3>2. rule \in RuleRows
      BY <1>1 DEF InStep
    <3> QED BY <3>1, <3>2 DEF Advanced, RuleRows
  <2>4. Exists(Advanced(rule))
    BY <2>3, RowsExist
  <2> QED BY <1>2, <2>1, <2>2, <2>3, <2>4 DEF rule
<1>3. CASE ~IsDue(r)
  <2>1. RulesRun[r] = rule
    BY <1>3 DEF RulesRun
  <2> QED BY <1>3, <2>1
<1> QED BY <1>2, <1>3

(* The forecast leaves out, once the schedules have run, just what they posted. *)
LEMMA PaymentsMade ==
    ASSUME ScheduleInv, NEW ns, ns = RulesRun, KeptRows(ns, purchases), NEW day \in 0 .. Horizon
    PROVE  LET A == PaymentsOf(rules, purchases, local, local + Horizon)
               B == PaymentsOf(ns, purchases, local, local + Horizon)
               k == local + day
           IN  /\ Outflow(A, k) \in Int /\ Outflow(B, k) \in Int /\ Outflow(Paid(day), k) \in Int
               /\ Outflow(A, k) = Outflow(B, k) + Outflow(Paid(day), k)
<1>. DEFINE l == local
            x == local + Horizon
            k == local + day
            ps == purchases
            A == PaymentsOf(rules, ps, l, x)
            B == PaymentsOf(ns, ps, l, x)
            P == Paid(day)
<1>1. /\ l \in Nat /\ YearAhead(l) /\ x \in Dates /\ x \in Nat /\ k \in Nat /\ day \in Nat
      /\ l <= k /\ k <= x
  BY ForecastDays
<1>2. KeptRows(rules, ps)
  BY RowsAreKept
<1>3. \A r \in Rules : Exists(ns[r]) => Exists(rules[r])
  BY RowsExist DEF RulesRun, IsDue
<1>4. \A r \in Rules : Exists(rules[r]) =>
          /\ Exists(ns[r]) /\ ns[r].amount = rules[r].amount
          /\ \A d : /\ Upcoming(rules[r], d)
                       <=> Upcoming(ns[r], d) \/ (IsDue(r) /\ d \in ChargesOf(rules[r]))
                    /\ ~(Upcoming(ns[r], d) /\ IsDue(r) /\ d \in ChargesOf(rules[r]))
  BY UpcomingSplit
<1>5. \A r \in Rules : IsDue(r) => Exists(rules[r])
  BY DEF IsDue
<1>6. \A pay : pay \in P <=>
               \E r \in Rules : \E d \in ChargesOf(rules[r]) :
                   IsDue(r) /\ l <= d /\ d <= k /\ pay = BillOn(rules, r, d)
  BY PaidAre
<1>7. IsFiniteSet(P) /\ \A pay \in P : pay.amount \in Int /\ pay.date \in Int
  BY <1>1, PaidAmounts
<1>8. /\ \A r, d : BillOn(rules, r, d).date = d /\ BillOn(rules, r, d).item = r
                   /\ BillOn(rules, r, d).type = "recurring"
      /\ \A p, d : ShareOn(ps, p, d).type = "msi"
      /\ \A r, d : ns[r].amount = rules[r].amount => BillOn(ns, r, d) = BillOn(rules, r, d)
  BY DEF BillOn, ShareOn
<1>9. /\ \A pay : pay \in A <=> IsBill(rules, pay, l, x) \/ IsShare(ps, pay, l, x)
      /\ \A pay : pay \in B <=> IsBill(ns, pay, l, x) \/ IsShare(ps, pay, l, x)
  BY <1>1, <1>2, PaymentsListed
<1>10. /\ IsFiniteSet(A) /\ \A pay \in A : pay.amount \in Int /\ pay.date \in l .. x
       /\ IsFiniteSet(B) /\ \A pay \in B : pay.amount \in Int /\ pay.date \in l .. x
  BY <1>1, <1>2, PaymentsCounted
<1>. HIDE DEF l, x, k, ps, A, B, P
<1>11. ASSUME NEW pay, IsBill(rules, pay, l, x), pay.date <= k PROVE IsBill(ns, pay, l, x) \/ pay \in P
  <2>1. PICK r \in Rules, d \in l .. x :
            Exists(rules[r]) /\ Upcoming(rules[r], d) /\ pay = BillOn(rules, r, d)
    BY <1>11 DEF IsBill
  <2>2. l <= d /\ d <= k
    BY <1>1, <1>8, <1>11, <2>1
  <2>3. CASE Upcoming(ns[r], d)
    <3>1. Exists(ns[r]) /\ pay = BillOn(ns, r, d)
      BY <1>4, <1>8, <2>1
    <3> QED BY <2>3, <3>1 DEF IsBill
  <2>4. CASE IsDue(r) /\ d \in ChargesOf(rules[r])
    BY <1>6, <2>1, <2>2, <2>4
  <2> QED BY <1>4, <2>1, <2>3, <2>4
<1>12. ASSUME NEW pay, IsBill(ns, pay, l, x) PROVE IsBill(rules, pay, l, x) /\ pay \notin P
  <2>1. PICK r \in Rules, d \in l .. x : Exists(ns[r]) /\ Upcoming(ns[r], d) /\ pay = BillOn(ns, r, d)
    BY <1>12 DEF IsBill
  <2>2. Exists(rules[r]) /\ Upcoming(rules[r], d) /\ pay = BillOn(rules, r, d)
    BY <1>3, <1>4, <1>8, <2>1
  <2>3. ~(IsDue(r) /\ d \in ChargesOf(rules[r]))
    BY <1>4, <2>1, <2>2
  <2>4. pay.date = d /\ pay.item = r
    BY <1>8, <2>2
  <2>5. pay \notin P
    <3>. SUFFICES ASSUME NEW q \in Rules, NEW e \in ChargesOf(rules[q]), IsDue(q), pay = BillOn(rules, q, e)
                  PROVE  FALSE
      BY <1>6
    <3>1. e = d /\ q = r
      BY <1>8, <2>4
    <3> QED BY <2>3, <3>1
  <2> QED BY <2>2, <2>5 DEF IsBill
<1>13. ASSUME NEW pay \in P PROVE IsBill(rules, pay, l, x) /\ pay.date <= k /\ ~IsShare(ps, pay, l, x)
  <2>1. PICK r \in Rules : \E d \in ChargesOf(rules[r]) :
                   IsDue(r) /\ l <= d /\ d <= k /\ pay = BillOn(rules, r, d)
    BY <1>6
  <2>2. PICK d \in ChargesOf(rules[r]) : IsDue(r) /\ l <= d /\ d <= k /\ pay = BillOn(rules, r, d)
    BY <2>1
  <2>3. pay.date = d /\ d \in Int /\ pay.type = "recurring"
    BY <1>7, <1>8, <2>2
  <2>4. d \in l .. x
    BY <1>1, <2>2, <2>3
  <2>5. Exists(rules[r]) /\ Upcoming(rules[r], d)
    BY <1>4, <1>5, <2>2
  <2>6. IsBill(rules, pay, l, x)
    BY <2>2, <2>4, <2>5 DEF IsBill
  <2>7. ~IsShare(ps, pay, l, x)
    BY <1>8, <2>3 DEF IsShare
  <2> QED BY <2>2, <2>3, <2>6, <2>7
<1>14. \A pay : pay \in A /\ pay.date <= k
                <=> (pay \in B /\ pay.date <= k) \/ (pay \in P /\ pay.date <= k)
  BY <1>9, <1>11, <1>12, <1>13
<1>15. \A pay \in B : pay.date <= k => ~(pay \in P /\ pay.date <= k)
  BY <1>9, <1>12, <1>13
<1>16. Outflow(A, k) = Outflow(B, k) + Outflow(P, k)
  BY <1>7, <1>10, <1>14, <1>15, OutflowApart
<1>17. Outflow(A, k) \in Int /\ Outflow(B, k) \in Int /\ Outflow(P, k) \in Int
  BY <1>7, <1>10, OutflowSums
<1> QED BY <1>16, <1>17 DEF A, B, P, l, x, k, ps

(* Balances hold and earn whole cents. *)
LEMMA HeldType ==
    ASSUME WholeYields, NEW v \in [Accounts -> Int]
    PROVE  /\ IsFiniteSet(Liquid) /\ Liquid \subseteq Accounts
           /\ Held(v) \in Int /\ \A days \in Nat : Yielded(v, days) \in Int
<1>1. IsFiniteSet(Liquid) /\ Liquid \subseteq Accounts
  BY SchedulesConstants, FS_Subset DEF Liquid
<1>2. Held(v) \in Int
  <2>1. [a \in Liquid |-> v[a]] \in [Liquid -> Int]
    BY <1>1
  <2> QED BY <1>1, <2>1, TotalType DEF Held
<1>3. ASSUME NEW days \in Nat PROVE Yielded(v, days) \in Int
  <2>1. \A a \in Liquid : EstimateYield(a, v[a], days) \in Int
    BY <1>1 DEF WholeYields
  <2>2. [a \in Liquid |-> EstimateYield(a, v[a], days)] \in [Liquid -> Int]
    BY <2>1
  <2> QED BY <1>1, <2>2, TotalType DEF Yielded
<1> QED BY <1>1, <1>2, <1>3

(* What is posted takes its amount from the account it is charged to, when that is tracked. *)
LEMMA CashSpent ==
    ASSUME ScheduleInv, WholeYields, NEW w, w = [a \in Accounts |-> value[a] + EffectOf(Posted, a)],
           w \in [Accounts -> Int]
    PROVE  LET c == [i \in DOMAIN Posted |-> IF Cash(Posted[i]) THEN Posted[i].amount ELSE 0]
           IN  /\ c \in [DOMAIN Posted -> Int] /\ Total(c) \in Int
               /\ Held(value) \in Int /\ Held(w) \in Int /\ Held(w) = Held(value) - Total(c)
<1>. DEFINE S == DOMAIN Posted
            c == [i \in S |-> IF Cash(Posted[i]) THEN Posted[i].amount ELSE 0]
            F == [a \in Liquid |-> [i \in S |-> Effect(Posted[i], a)]]
            rows == [a \in Liquid |-> Total(F[a])]
            col(i) == [a \in Liquid |-> F[a][i]]
            cols == [i \in S |-> Total([a \in Liquid |-> F[a][i]])]
            z == [i \in S |-> 0]
            v == [a \in Liquid |-> value[a]]
            u == [a \in Liquid |-> w[a]]
<1>1. IsFiniteSet(S) /\ \A i \in S : Posted[i] \in Charges /\ Posted[i].amount \in Int
  BY PostedLines
<1>2. /\ value \in [Accounts -> Int] /\ IsFiniteSet(Liquid) /\ Liquid \subseteq Accounts
      /\ Held(value) \in Int /\ Held(w) \in Int
  BY HeldType DEF ScheduleInv, RowsInv
<1>3. \A i \in S : \A a \in Liquid :
          Effect(Posted[i], a) = IF a \in Tracked /\ Posted[i].account = a THEN -Posted[i].amount ELSE 0
  <2>. TAKE i \in S
  <2>1. Posted[i].type = "expense" /\ Posted[i].affects /\ Posted[i].amount \in Int
    BY <1>1 DEF Charges
  <2> QED BY <2>1 DEF Effect
<1>4. \A a \in Liquid : F[a] \in [S -> Int]
  <2>1. \A i \in S : \A a \in Liquid : Effect(Posted[i], a) \in Int
    BY <1>1, <1>3
  <2> QED BY <2>1
<1>5. \A i \in S : col(i) \in [Liquid -> Int]
  BY <1>4
<1>6. \A i \in S : c[i] = (IF Posted[i].account \in Liquid \cap Tracked THEN Posted[i].amount ELSE 0) /\ c[i] \in Int
  BY <1>1 DEF Cash
<1>7. \A i \in S : \A a \in Liquid : col(i)[a] = Effect(Posted[i], a)
  OBVIOUS
<1>8. \A a \in Liquid : u[a] = v[a] + rows[a] /\ v[a] \in Int /\ u[a] \in Int
  <2>. TAKE a \in Liquid
  <2>1. EffectOf(Posted, a) = Total(F[a])
    BY DEF EffectOf
  <2>2. a \in Accounts /\ w[a] = value[a] + EffectOf(Posted, a) /\ value[a] \in Int /\ w[a] \in Int
    BY <1>2
  <2> QED BY <2>1, <2>2
<1>9. Held(value) = Total(v) /\ Held(w) = Total(u)
  BY DEF Held
<1>10. F \in [Liquid -> [S -> Int]]
  BY <1>4
<1>11. Total(rows) = Total(cols)
  <2>. HIDE DEF F, S
  <2> QED BY <1>1, <1>2, <1>10, TotalSwapped
<1>. HIDE DEF S, c, F
<1>12. \A i \in S : cols[i] + c[i] = 0 /\ cols[i] \in Int
  <2>. TAKE i \in S
  <2>0. cols[i] = Total(col(i))
    OBVIOUS
  <2>. HIDE DEF cols
  <2>. DEFINE f == col(i)
              b == Posted[i].account
  <2>1. f \in [Liquid -> Int] /\ Posted[i].amount \in Int
    BY <1>1, <1>5
  <2>6. Total(f) \in Int
    BY <1>2, <2>1, TotalType
  <2>2. \A a \in Liquid : f[a] = IF a \in Tracked /\ b = a THEN -Posted[i].amount ELSE 0
    BY <1>3, <1>7
  <2>3. c[i] = IF b \in Liquid \cap Tracked THEN Posted[i].amount ELSE 0
    BY <1>6
  <2>. HIDE DEF f, b
  <2>4. CASE b \in Liquid \cap Tracked
    <3>1. f[b] + c[i] = 0 /\ b \in Liquid /\ \A a \in Liquid \ {b} : f[a] = 0
      <4>. DEFINE n == Posted[i].amount
      <4>1. f[b] = -n /\ c[i] = n /\ n \in Int
        BY <2>1, <2>2, <2>3, <2>4
      <4>. HIDE DEF n
      <4>2. -n + n = 0
        BY <4>1
      <4> QED BY <2>2, <2>4, <4>1, <4>2
    <3>2. Total(f) = f[b]
      BY <1>2, <2>1, <3>1, TotalOne
    <3>3. Total(f) + c[i] = 0
      BY <3>1, <3>2
    <3> QED BY <2>0, <2>6, <3>3 DEF f
  <2>5. CASE b \notin Liquid \cap Tracked
    <3>1. c[i] = 0
      BY <2>3, <2>5
    <3>2. f = [a \in Liquid |-> 0]
      BY <2>1, <2>2, <2>5
    <3>3. Total(f) = 0
      BY <1>2, <3>2, TotalZero
    <3>4. Total(f) + c[i] = 0
      BY <3>1, <3>3
    <3> QED BY <2>0, <2>6, <3>4 DEF f
  <2> QED BY <2>4, <2>5
<1>13. c \in [S -> Int]
  BY <1>6 DEF c
<1>14. cols \in [S -> Int] /\ z \in [S -> Int] /\ \A i \in S : z[i] = c[i] + cols[i]
  <2>1. \A i \in S : cols[i] + c[i] = 0 /\ cols[i] \in Int /\ c[i] \in Int
    BY <1>6, <1>12
  <2> QED BY <2>1
<1>15. rows \in [Liquid -> Int] /\ v \in [Liquid -> Int] /\ u \in [Liquid -> Int]
  <2>1. \A a \in Liquid : Total(F[a]) \in Int
    BY <1>1, <1>4, TotalType
  <2> QED BY <1>8, <2>1
<1>16. Total(z) = 0
  BY <1>1, TotalZero
<1>. HIDE DEF rows, cols, z, v, u
<1>17. Total(c) \in Int /\ Total(cols) \in Int /\ Total(z) = Total(c) + Total(cols)
  BY <1>1, <1>13, <1>14, TotalPlus
<1>18. Total(v) \in Int /\ Total(rows) \in Int /\ Total(u) = Total(v) + Total(rows)
  BY <1>2, <1>8, <1>15, TotalPlus
<1>19. Total(rows) + Total(c) = 0
  BY <1>11, <1>16, <1>17
<1>20. Held(w) = Held(value) - Total(c)
  BY <1>9, <1>17, <1>18, <1>19
<1> QED BY <1>2, <1>13, <1>17, <1>20 DEF c, S

(* What is estimated of the balances, now and next. *)
LEMMA YieldsAre ==
    \A day : YieldThrough(day) = Yielded(value, day) /\ YieldThrough(day)' = Yielded(value', day)
<1>1. \A day : YieldThrough(day) = Yielded(value, day)
  BY DEF YieldThrough, Yielded
<1>2. (\A day : YieldThrough(day) = Yielded(value, day))'
  BY <1>1, PTL
<1> QED BY <1>1, <1>2

(* The rows of the next state are kept as well. *)
LEMMA RowsStayKept == ScheduleInv' => KeptRows(rules', purchases')
<1>1. (ScheduleInv => KeptRows(rules, purchases))'
  BY RowsAreKept, PTL
<1> QED BY <1>1

(* The movements added are those at the end of the list. *)
LEMMA AddedAre ==
    ASSUME ScheduleInv, NEW ms \in Seq(Movements), moves' = moves \o ms
    PROVE  Added = ms
<1>1. moves \in Seq(Movements)
  BY DEF ScheduleInv, RowsInv
<1>2. SubSeq(moves \o ms, Len(moves) + 1, Len(moves \o ms)) = ms
  BY <1>1, EndOfJoined
<1> QED BY <1>2 DEF Added

(* Running the schedules posts what is due. *)
LEMMA ProcessIs ==
    ASSUME ScheduleInv, Process
    PROVE  /\ Posted \in Seq(Movements) /\ moves' = moves \o Posted /\ Added = Posted
           /\ value' = [a \in Accounts |-> value[a] + EffectOf(Posted, a)]
           /\ rules' = RulesRun /\ purchases' = purchases /\ local' = local
<1>1. Posted \in Seq(Movements)
  <2>1. Charges \subseteq Movements
    BY DEF Charges, Plain
  <2> QED BY <2>1, PostedAre, SeqMonotonic
<1>2. /\ moves' = moves \o Posted /\ value' = [a \in Accounts |-> value[a] + EffectOf(Posted, a)]
      /\ rules' = RulesRun /\ purchases' = purchases /\ local' = local
  BY DEF Process, Post, Posted, RulesRun
<1>3. Added = Posted
  BY <1>1, <1>2, AddedAre
<1> QED BY <1>1, <1>2, <1>3

(* What is shifted and what is forgotten make up what was announced and what was paid in cash. *)
LEMMA ShiftIs ==
    ASSUME ScheduleInv, Added = Posted, NEW day \in Nat
    PROVE  LET p == [i \in DOMAIN Posted |->
                        IF local <= Posted[i].date /\ Posted[i].date <= local + day
                        THEN Posted[i].amount ELSE 0]
               c == [i \in DOMAIN Posted |-> IF Cash(Posted[i]) THEN Posted[i].amount ELSE 0]
           IN  /\ Total(p) \in Int /\ Total(c) \in Int
               /\ Shift(day) - Forgotten(local) = Total(p) - Total(c)
<1>. DEFINE S == DOMAIN Posted
            k == local + day
            p == [i \in S |-> IF local <= Posted[i].date /\ Posted[i].date <= k
                              THEN Posted[i].amount ELSE 0]
            c == [i \in S |-> IF Cash(Posted[i]) THEN Posted[i].amount ELSE 0]
            g == [i \in S |-> IF Cash(Posted[i]) /\ Posted[i].date < local THEN Posted[i].amount ELSE 0]
            s == [i \in S |-> IF Posted[i].date < local THEN 0
                              ELSE (IF Posted[i].date <= k THEN Posted[i].amount ELSE 0)
                                   - (IF Cash(Posted[i]) THEN Posted[i].amount ELSE 0)]
            z == [i \in S |-> p[i] + g[i]]
<1>1. IsFiniteSet(S) /\ \A i \in S : Posted[i].date \in Int /\ Posted[i].amount \in Int
  BY PostedLines
<1>2. local \in Int /\ k \in Int
  BY ForecastDays
<1>3. Forgotten(local) = Total(g)
  BY DEF Forgotten, SumOf
<1>4. Shift(day) = Total(s)
  BY DEF Shift, SumOf
<1>. HIDE DEF k
<1>5. \A i \in S : /\ p[i] \in Int /\ c[i] \in Int /\ g[i] \in Int /\ s[i] \in Int
                   /\ s[i] + c[i] = p[i] + g[i]
  <2>. TAKE i \in S
  <2>. DEFINE d == Posted[i].date
              n == Posted[i].amount
  <2>1. d \in Int /\ n \in Int
    BY <1>1
  <2>2. /\ p[i] = IF local <= d /\ d <= k THEN n ELSE 0
        /\ c[i] = IF Cash(Posted[i]) THEN n ELSE 0
        /\ g[i] = IF Cash(Posted[i]) /\ d < local THEN n ELSE 0
        /\ s[i] = IF d < local THEN 0
                  ELSE (IF d <= k THEN n ELSE 0) - (IF Cash(Posted[i]) THEN n ELSE 0)
    OBVIOUS
  <2>. HIDE DEF d, n, p, c, g, s
  <2> QED BY <1>2, <2>1, <2>2
<1>6. /\ p \in [S -> Int] /\ c \in [S -> Int] /\ g \in [S -> Int] /\ s \in [S -> Int]
  BY <1>5
<1>. HIDE DEF p, c, g, s
<1>7. z \in [S -> Int] /\ (\A i \in S : z[i] = p[i] + g[i]) /\ \A i \in S : z[i] = s[i] + c[i]
  BY <1>5
<1>. HIDE DEF z, S
<1>8. Total(p) \in Int /\ Total(g) \in Int /\ Total(z) = Total(p) + Total(g)
  BY <1>1, <1>6, <1>7, TotalPlus
<1>9. Total(s) \in Int /\ Total(c) \in Int /\ Total(z) = Total(s) + Total(c)
  BY <1>1, <1>6, <1>7, TotalPlus
<1>10. Shift(day) - Forgotten(local) = Total(p) - Total(c)
  BY <1>3, <1>4, <1>8, <1>9
<1> QED BY <1>8, <1>9, <1>10 DEF p, c, S, k

(* When the server makes the payments announced, the forecast shifts by what was not cash. *)
LEMMA ProcessKeepsLine ==
    ASSUME ScheduleInv, ScheduleInv', WholeYields, Process, NEW day \in 0 .. Horizon
    PROVE  ForecastLine'[day] - ForecastLine[day]
           = Shift(day) - Forgotten(local) + (YieldThrough(day)' - YieldThrough(day))
<1>. DEFINE A == PaymentsOf(rules, purchases, local, local + Horizon)
            B == PaymentsOf(rules', purchases, local, local + Horizon)
            k == local + day
            p == [i \in DOMAIN Posted |->
                     IF local <= Posted[i].date /\ Posted[i].date <= k THEN Posted[i].amount ELSE 0]
            c == [i \in DOMAIN Posted |-> IF Cash(Posted[i]) THEN Posted[i].amount ELSE 0]
<1>1. /\ value' = [a \in Accounts |-> value[a] + EffectOf(Posted, a)] /\ Added = Posted
      /\ rules' = RulesRun /\ purchases' = purchases /\ local' = local
  BY ProcessIs
<1>2. day \in Nat /\ Horizon \in Nat
  BY ForecastDays
<1>3. /\ ForecastLine[day] = Held(value) - Outflow(A, k) + Yielded(value, day)
      /\ ForecastLine'[day] = Held(value') - Outflow(B, k) + Yielded(value', day)
  BY <1>1, LineIs DEF PointOf
<1>4. KeptRows(rules', purchases)
  BY <1>1, RowsStayKept
<1>5. /\ Outflow(A, k) \in Int /\ Outflow(B, k) \in Int /\ Outflow(Paid(day), k) \in Int
      /\ Outflow(A, k) = Outflow(B, k) + Outflow(Paid(day), k)
  BY <1>1, <1>4, PaymentsMade
<1>6. Outflow(Paid(day), k) = Total(p)
  BY <1>2, PaidAmounts
<1>7. value \in [Accounts -> Int] /\ value' \in [Accounts -> Int]
  BY DEF ScheduleInv, RowsInv
<1>8. Held(value) \in Int /\ Held(value') \in Int /\ Held(value') = Held(value) - Total(c)
  BY <1>1, <1>7, CashSpent
<1>9. Yielded(value, day) \in Int /\ Yielded(value', day) \in Int
  BY <1>2, <1>7, HeldType
<1>10. Total(p) \in Int /\ Total(c) \in Int /\ Shift(day) - Forgotten(local) = Total(p) - Total(c)
  BY <1>1, <1>2, ShiftIs
<1>11. YieldThrough(day) = Yielded(value, day) /\ YieldThrough(day)' = Yielded(value', day)
  BY YieldsAre
<1>. HIDE DEF A, B, k, p, c
<1>12. ForecastLine'[day] - ForecastLine[day]
       = (Total(p) - Total(c)) + (Yielded(value', day) - Yielded(value, day))
  BY <1>3, <1>5, <1>6, <1>8, <1>9, <1>10
<1> QED BY <1>10, <1>11, <1>12, Zenon

(* When a day passes, the forecast for a date forgets what was due on that day. *)
LEMMA MidnightKeepsLine ==
    ASSUME ScheduleInv, WholeYields, LocalMidnight, NEW day \in 1 .. Horizon
    PROVE  ForecastLine'[day - 1] - ForecastLine[day]
           = Outflow(Payments(local, local), local) + YieldThrough(day - 1) - YieldThrough(day)
<1>. DEFINE l == local
            h == Horizon
            a == Outflow(PaymentsOf(rules, purchases, l, l + h), l + day)
            b == Outflow(PaymentsOf(rules, purchases, l + 1, l + 1 + h), l + 1 + (day - 1))
            c == Outflow(PaymentsOf(rules, purchases, l, l), l)
<1>1. /\ local < utc /\ local' = l + 1 /\ value' = value /\ rules' = rules /\ purchases' = purchases
  BY DEF LocalMidnight
<1>2. /\ h \in Nat /\ l \in Nat /\ YearAhead(l) /\ YearAhead(l + 1) /\ l + h \in Dates /\ l + 1 + h \in Dates
  <2>1. utc = l + 1
    BY <1>1, ForecastDays
  <2> QED BY <2>1, ForecastDays
<1>3. KeptRows(rules, purchases)
  BY RowsAreKept
<1>4. day \in 1 .. h /\ day - 1 \in 0 .. h /\ day \in 0 .. h /\ day \in Nat /\ day - 1 \in Nat
  BY <1>2
<1>. HIDE DEF l, h
<1>5. a \in Int /\ b \in Int /\ c \in Int /\ a = b + c
  <2>1. /\ KeptRows(rules, purchases) /\ l \in Nat /\ YearAhead(l) /\ YearAhead(l + 1)
        /\ h \in Nat /\ l + h \in Dates /\ l + 1 + h \in Dates /\ day \in 1 .. h
    BY <1>2, <1>3, <1>4
  <2> QED BY <2>1, DayForgotten, Zenon
<1>6. Outflow(Payments(local, local), local) = c
  <2>1. Payments(l, l) = PaymentsOf(rules, purchases, l, l)
    BY DEF Payments, PaymentsOf, BillOn, ShareOn
  <2> QED BY <2>1 DEF l
<1>7. /\ ForecastLine[day] = Held(value) - a + Yielded(value, day)
      /\ ForecastLine'[day - 1] = Held(value) - b + Yielded(value, day - 1)
  BY <1>1, <1>4, LineIs DEF PointOf, l, h
<1>8. /\ Held(value) \in Int /\ Yielded(value, day) \in Int /\ Yielded(value, day - 1) \in Int
  BY <1>4, HeldType DEF ScheduleInv, RowsInv
<1>9. YieldThrough(day) = Yielded(value, day) /\ YieldThrough(day - 1) = Yielded(value, day - 1)
  BY YieldsAre
<1>. HIDE DEF a, b, c
<1>10. ForecastLine'[day - 1] - ForecastLine[day] = c + Yielded(value, day - 1) - Yielded(value, day)
  BY <1>5, <1>7, <1>8
<1> QED BY <1>6, <1>9, <1>10

(* Both together: what is ahead on the curve stands as the day and the server go on. *)
LEMMA FutureKept ==
    ASSUME ScheduleInv, ScheduleInv', WholeYields
    PROVE  FutureStands
<1>1. ASSUME Process, NEW day \in 0 .. Horizon
      PROVE  ForecastLine'[day] - ForecastLine[day]
             = Shift(day) - Forgotten(local) + (YieldThrough(day)' - YieldThrough(day))
  BY <1>1, ProcessKeepsLine
<1>2. ASSUME LocalMidnight, NEW day \in 1 .. Horizon
      PROVE  ForecastLine'[day - 1] - ForecastLine[day]
             = Outflow(Payments(local, local), local) + YieldThrough(day - 1) - YieldThrough(day)
  BY <1>2, MidnightKeepsLine
<1> QED BY <1>1, <1>2 DEF FutureStands

(* What a movement later than a day adds to an account. *)
LaterFlow(m, a, d) == IF m.date > d THEN Direction(a) * Flow(m, a) ELSE 0

(* The value of a day, of given balances and movements. *)
PastOf(v, ms, a, d) ==
    (IF a \in Cards THEN Limit[a] - v[a] ELSE v[a])
    - Total([i \in DOMAIN ms |-> LaterFlow(ms[i], a, d)])

(* The value of a day is such a value, now and next. *)
LEMMA PastIs ==
    \A a, d : ValueAt(a, d) = PastOf(value, moves, a, d) /\ ValueAt(a, d)' = PastOf(value', moves', a, d)
<1>1. \A a, d : ValueAt(a, d) = PastOf(value, moves, a, d)
  BY DEF ValueAt, SumOf, CurrentValue, PastOf, LaterFlow
<1>2. (\A a, d : ValueAt(a, d) = PastOf(value, moves, a, d))'
  BY <1>1, PTL
<1> QED BY <1>1, <1>2

(* The past changes by the movements dated until then. *)
LEMMA PastKept ==
    ASSUME ScheduleInv, NEW ms \in Seq(Movements), Post(ms), NEW a \in Tracked, NEW d \in Int
    PROVE  PastStands(a, d)
<1>. DEFINE S == DOMAIN ms
            late == [i \in S |-> LaterFlow(ms[i], a, d)]
            past == [i \in S |-> IF ms[i].date <= d THEN Flow(ms[i], a) ELSE 0]
            flow == [i \in S |-> Flow(ms[i], a)]
            L == Total(late)
            P == Total(past)
            E == Total(flow)
            old == [i \in DOMAIN moves |-> LaterFlow(moves[i], a, d)]
            new == [i \in DOMAIN moves' |-> LaterFlow(moves'[i], a, d)]
            v == value[a]
            w == value'[a]
            lim == Limit[a]
<1>1. /\ a \in Accounts /\ moves \in Seq(Movements) /\ value \in [Accounts -> Int]
      /\ moves' = moves \o ms /\ value' = [x \in Accounts |-> value[x] + EffectOf(ms, x)]
  BY SchedulesConstants DEF Post, ScheduleInv, RowsInv
<1>2. Added = ms
  BY <1>1, AddedAre
<1>3. IsFiniteSet(S) /\ \A i \in S : ms[i] \in Movements
  <2>1. Len(ms) \in Nat /\ DOMAIN ms = 1 .. Len(ms) /\ \A i \in 1 .. Len(ms) : ms[i] \in Movements
    BY LenProperties, ElementOfSeq
  <2>2. IsFiniteSet(1 .. Len(ms))
    BY <2>1, FS_Interval
  <2> QED BY <2>1, <2>2
<1>4. \A m \in Movements : m.date \in Int /\ Flow(m, a) \in Int /\ Effect(m, a) = Flow(m, a)
  BY MovementIs, FlowType DEF Effect, Flow
<1>5. (a \in Cards => Direction(a) = -1) /\ (a \notin Cards => Direction(a) = 1)
  BY DEF Direction
<1>6. \A n \in Int : (-1) * n = -n /\ 1 * n = n /\ -n \in Int /\ -n + n = 0 /\ n - n = 0
  OBVIOUS
<1>7. \A m \in Movements : LaterFlow(m, a, d) \in Int
  BY <1>4, <1>5, <1>6 DEF LaterFlow
<1>8. late \in [S -> Int] /\ past \in [S -> Int] /\ flow \in [S -> Int]
  BY <1>3, <1>4, <1>7
<1>9. EffectOf(ms, a) = E
  <2>1. flow = [i \in DOMAIN ms |-> Effect(ms[i], a)]
    BY <1>3, <1>4
  <2>. HIDE DEF flow
  <2> QED BY <2>1 DEF EffectOf
<1>10. /\ Total(old) \in Int /\ L \in Int /\ Total(new) = Total(old) + L
  <2>. DEFINE F == [m \in Movements |-> LaterFlow(m, a, d)]
              u == moves'
  <2>1. F \in [Movements -> Int] /\ \A m \in Movements : F[m] = LaterFlow(m, a, d)
    BY <1>7
  <2>2. u \in Seq(Movements) /\ u = moves \o ms
    BY <1>1, ConcatProperties
  <2>3. /\ \A i \in DOMAIN moves : moves[i] \in Movements
        /\ \A i \in DOMAIN u : u[i] \in Movements
    <3>1. \A s \in Seq(Movements) : \A i \in DOMAIN s : s[i] \in Movements
      BY LenProperties, ElementOfSeq
    <3> QED BY <1>1, <2>2, <3>1
  <2>4. /\ old \in [DOMAIN moves -> Int] /\ \A i \in DOMAIN moves : old[i] = F[moves[i]]
    BY <1>7, <2>1, <2>3
  <2>5. /\ new \in [DOMAIN u -> Int] /\ \A i \in DOMAIN u : new[i] = F[u[i]]
    BY <1>7, <2>1, <2>3
  <2>6. \A i \in DOMAIN ms : late[i] = F[ms[i]]
    BY <1>3, <2>1
  <2>7. late \in [DOMAIN ms -> Int]
    BY <1>8
  <2>. HIDE DEF F, u, old, new, late
  <2>8. Total(old) \in Int /\ Total(late) \in Int /\ Total(new) = Total(old) + Total(late)
    <3>1. /\ F \in [Movements -> Int] /\ moves \in Seq(Movements) /\ u = moves \o ms
          /\ old \in [DOMAIN moves -> Int] /\ late \in [DOMAIN ms -> Int] /\ new \in [DOMAIN u -> Int]
      BY <1>1, <2>1, <2>2, <2>4, <2>5, <2>7
    <3>2. \A i \in DOMAIN moves : old[i] = F[moves[i]]
      BY <2>4
    <3>3. \A i \in DOMAIN u : new[i] = F[u[i]]
      BY <2>5
    <3>4. \A f \in [DOMAIN moves -> Int], g \in [DOMAIN ms -> Int], h \in [DOMAIN u -> Int] :
              /\ \A i \in DOMAIN moves : f[i] = F[moves[i]]
              /\ \A i \in DOMAIN ms : g[i] = F[ms[i]]
              /\ \A i \in DOMAIN u : h[i] = F[u[i]]
              => Total(f) \in Int /\ Total(g) \in Int /\ Total(h) = Total(f) + Total(g)
      <4>1. \A t \in Seq(Movements), G \in [Movements -> Int] : SumsUp(moves, t, G)
        BY <1>1, TotalJoined, Zenon
      <4>2. SumsUp(moves, ms, F)
        BY <2>1, <4>1, Zenon
      <4> QED BY <2>2, <4>2, Zenon DEF SumsUp
    <3> QED BY <2>6, <3>1, <3>2, <3>3, <3>4, Zenon
  <2> QED BY <2>8
<1>11. P \in Int /\ E \in Int
  BY <1>3, <1>8, TotalType
<1>12. /\ ValueAt(a, d) = (IF a \in Cards THEN lim - v ELSE v) - Total(old)
       /\ ValueAt(a, d)' = (IF a \in Cards THEN lim - w ELSE w) - Total(new)
  BY PastIs DEF PastOf
<1>13. v \in Int /\ w = v + E /\ (a \in Cards => lim \in Int)
  BY <1>1, <1>9, ProjectionsConstants
<1>14. \A f, g, h \in [S -> Int] :
           (\A i \in S : h[i] = f[i] + g[i])
           => /\ Total(f) \in Int /\ Total(g) \in Int /\ Total(h) \in Int
              /\ Total(h) = Total(f) + Total(g)
  <2>1. IsFiniteSet(S)
    BY <1>3
  <2>. HIDE DEF S
  <2> QED BY <2>1, TotalsPlus
<1>15. ASSUME a \in Cards PROVE ValueAt(a, d)' - ValueAt(a, d) = Direction(a) * P
  <2>1. \A i \in S : past[i] = flow[i] + late[i]
    <3>. TAKE i \in S
    <3>. DEFINE x == Flow(ms[i], a)
                e == ms[i].date
    <3>1. x \in Int /\ e \in Int /\ Direction(a) * x = -x
      BY <1>3, <1>4, <1>5, <1>6, <1>15
    <3>2. /\ past[i] = (IF e <= d THEN x ELSE 0) /\ flow[i] = x
          /\ late[i] = IF e > d THEN Direction(a) * x ELSE 0
      BY DEF LaterFlow
    <3>. HIDE DEF x, e, past, flow, late
    <3> QED BY <3>1, <3>2
  <2>. HIDE DEF past, flow, late, S
  <2>2. P = E + L
    <3>1. Total(past) = Total(flow) + Total(late)
      BY <1>8, <1>14, <2>1, Zenon
    <3> QED BY <3>1
  <2>. HIDE DEF P, E, L, old, new, v, w, lim
  <2>3. /\ ValueAt(a, d) = (lim - v) - Total(old) /\ ValueAt(a, d)' = (lim - w) - Total(new)
        /\ lim \in Int /\ Direction(a) * P = -P
    BY <1>5, <1>6, <1>11, <1>12, <1>13, <1>15
  <2>4. ((lim - (v + E)) - (Total(old) + L)) - ((lim - v) - Total(old)) = -P
    BY <1>10, <1>11, <1>13, <2>2, <2>3
  <2> QED BY <1>10, <1>13, <2>3, <2>4
<1>16. ASSUME a \notin Cards PROVE ValueAt(a, d)' - ValueAt(a, d) = Direction(a) * P
  <2>1. \A i \in S : flow[i] = past[i] + late[i]
    <3>. TAKE i \in S
    <3>. DEFINE x == Flow(ms[i], a)
                e == ms[i].date
    <3>1. x \in Int /\ e \in Int /\ Direction(a) * x = x
      BY <1>3, <1>4, <1>5, <1>6, <1>16
    <3>2. /\ past[i] = (IF e <= d THEN x ELSE 0) /\ flow[i] = x
          /\ late[i] = IF e > d THEN Direction(a) * x ELSE 0
      BY DEF LaterFlow
    <3>. HIDE DEF x, e, past, flow, late
    <3> QED BY <3>1, <3>2
  <2>. HIDE DEF past, flow, late, S
  <2>2. E = P + L
    <3>1. Total(flow) = Total(past) + Total(late)
      BY <1>8, <1>14, <2>1, Zenon
    <3> QED BY <3>1
  <2>. HIDE DEF P, E, L, old, new, v, w, lim
  <2>3. /\ ValueAt(a, d) = v - Total(old) /\ ValueAt(a, d)' = w - Total(new)
        /\ Direction(a) * P = P
    BY <1>5, <1>6, <1>11, <1>12, <1>16
  <2>4. ((v + E) - (Total(old) + L)) - (v - Total(old)) = P
    BY <1>10, <1>11, <1>13, <2>2
  <2> QED BY <1>10, <1>13, <2>3, <2>4
<1>17. SumOf(LAMBDA m : IF m.date <= d THEN Flow(m, a) ELSE 0, Added) = P
  BY <1>2 DEF SumOf
<1>. HIDE DEF P
<1>18. ValueAt(a, d)' - ValueAt(a, d) = Direction(a) * P
  BY <1>15, <1>16, Zenon
<1> QED BY <1>17, <1>18, Zenon DEF PastStands

(* A step between two states that keep the invariant keeps the curve. *)
LEMMA CurveFollows ==
    ASSUME ScheduleInv, ScheduleInv', WholeYields
    PROVE  KeepsCurve
<1>. DEFINE days == FirstOf[MonthOf[local]] .. LastOf[MonthOf[local]]
<1>1. days \subseteq Int
  <2>1. FirstOf[MonthOf[local]] \in Int /\ LastOf[MonthOf[local]] \in Int
    BY TodayIs
  <2> QED BY <2>1
<1>. HIDE DEF days
<1>2. ASSUME Process, NEW a \in Tracked, NEW d \in days PROVE PastStands(a, d)
  <2>1. Posted \in Seq(Movements) /\ Post(Posted)
    BY <1>2, ProcessIs DEF Post
  <2> QED BY <1>1, <2>1, PastKept
<1>3. ASSUME NEW x \in Recordings, Record(x), NEW a \in Tracked, NEW d \in days PROVE PastStands(a, d)
  <2>1. Post(<<RecordedAs(x)>>)
    BY <1>3 DEF Record, RecordedAs
  <2>2. RecordedAs(x) \in Movements
    BY RecordedIs DEF Plain
  <2>. DEFINE ms == <<RecordedAs(x)>>
  <2>3. ms \in Seq(Movements)
    BY <2>2, Single
  <2>. HIDE DEF ms
  <2> QED BY <1>1, <2>1, <2>3, PastKept DEF ms
<1>4. FutureStands
  BY FutureKept
<1> QED BY <1>2, <1>3, <1>4 DEF KeepsCurve, days

(* In every behaviour the curve of net worth stands still: the value a past day is given moves *)
(* only by the movements of until then, and the forecast of a coming day neither loses nor     *)
(* repeats a payment when the server makes it or the day passes -- for every set of accounts,  *)
(* rules, purchases and movements (lib/net-worth-timeline.ts:66, lib/cash-flow-forecast.ts:139,*)
(* lib/cash-flow-forecast.ts:328).                                                             *)
THEOREM CurveAlwaysStands == ASSUME WholeYields PROVE Spec => CurveStandsStill
<1>1. ASSUME ScheduleInv, ScheduleInv', [Next]_vars PROVE [KeepsCurve]_vars
  BY <1>1, CurveFollows
<1>2. Spec => []ScheduleInv
  BY SchedulesInvariant
<1> QED BY <1>1, <1>2, PTL DEF Spec, CurveStandsStill

-----------------------------------------------------------------------------
(* Days in their months *)

(* A clamped day is a day of its month. *)
LEMMA ClampIs ==
    \A m \in Months, i \in Nat \ {0} :
        /\ Clamped(m, i) \in Dates /\ Clamped(m, i) \in Nat /\ MonthOf[Clamped(m, i)] = m
        /\ FirstOf[m] <= Clamped(m, i) /\ Clamped(m, i) <= LastOf[m]
<1>. TAKE m \in Months, i \in Nat \ {0}
<1>1. Clamped(m, i) \in Dates /\ MonthOf[Clamped(m, i)] = m
  BY ClampedDay
<1> QED BY <1>1, DatesHaveMonths

(* Clamped days are in the order of their months, and within one in their own; *)
(* two that are clamped alike are both past the end of February.               *)
LEMMA ClampsInOrder ==
    \A m, n \in Months, i, j \in Nat \ {0} :
        /\ m < n => Clamped(m, i) < Clamped(n, j)
        /\ i <= j => Clamped(m, i) <= Clamped(m, j)
        /\ Clamped(m, i) < Clamped(m, j) => i < j
        /\ i < j /\ Clamped(m, i) = Clamped(m, j) => i >= 28
<1>. TAKE m, n \in Months, i, j \in Nat \ {0}
<1>1. m < n => Clamped(m, i) < Clamped(n, j)
  BY ClampIs, DatesInOrder
<1>2. FirstOf[m] \in Nat /\ MonthLength[m] \in 28 .. 31
  BY MonthBounds
<1>3. i <= j => Clamped(m, i) <= Clamped(m, j)
  BY <1>2 DEF Clamped
<1>4. Clamped(m, i) < Clamped(m, j) => i < j
  BY <1>2 DEF Clamped
<1>5. i < j /\ Clamped(m, i) = Clamped(m, j) => i >= 28
  BY <1>2 DEF Clamped
<1> QED BY <1>1, <1>3, <1>4, <1>5

(* A month later, a clamped day is at most 31 days later. *)
LEMMA ClampMonthLater ==
    \A m \in Months, i \in Nat \ {0} :
        m + 1 \in Months => Clamped(m + 1, i) <= Clamped(m, i) + 31
<1>. TAKE m \in Months, i \in Nat \ {0}
<1>. HAVE m + 1 \in Months
<1>1. /\ FirstOf[m] \in Nat /\ MonthLength[m] \in 28 .. 31 /\ MonthLength[m + 1] \in 28 .. 31
      /\ FirstOf[m + 1] = FirstOf[m] + MonthLength[m]
  BY MonthBounds, MonthFollows
<1> QED BY <1>1 DEF Clamped

(* The next day is in the same month or in the next. *)
LEMMA NextDay ==
    ASSUME NEW t \in Dates, t + 1 \in Dates
    PROVE  /\ MonthOf[t] \in Months /\ MonthOf[t + 1] \in Months
           /\ MonthOf[t] \in Nat /\ MonthOf[t + 1] \in Nat
           /\ MonthOf[t + 1] = MonthOf[t] \/ (MonthOf[t + 1] = MonthOf[t] + 1 /\ t = LastOf[MonthOf[t]])
<1>. DEFINE m == MonthOf[t]
            n == MonthOf[t + 1]
<1>1. /\ m \in Months /\ n \in Months /\ m \in Nat /\ n \in Nat
      /\ FirstOf[m] \in Nat /\ LastOf[m] \in Nat /\ FirstOf[n] \in Nat /\ LastOf[n] \in Nat
      /\ FirstOf[m] <= t /\ t <= LastOf[m] /\ FirstOf[n] <= t + 1 /\ t + 1 <= LastOf[n] /\ t \in Nat
  BY DatesHaveMonths, MonthBounds
<1>. HIDE DEF m, n
<1>2. ~(n < m)
  <2>1. n < m => LastOf[n] < FirstOf[m]
    BY <1>1, MonthsApart
  <2> QED BY <1>1, <2>1
<1>3. ASSUME m < n PROVE n = m + 1 /\ t = LastOf[m]
  <2>1. LastOf[m] < FirstOf[n]
    BY <1>1, <1>3, MonthsApart
  <2>2. t = LastOf[m]
    BY <1>1, <2>1
  <2>3. m + 1 \in Months
    BY <1>1, <1>3, MonthsAre
  <2>4. FirstOf[m + 1] = t + 1 /\ FirstOf[m + 1] \in Nat /\ LastOf[m + 1] \in Nat /\ m + 1 \in Nat
    BY <1>1, <2>2, <2>3, MonthFollows, MonthBounds
  <2>5. ~(m + 1 < n)
    <3>1. m + 1 < n => LastOf[m + 1] < FirstOf[n]
      BY <1>1, <2>3, <2>4, MonthsApart
    <3>2. FirstOf[m + 1] <= LastOf[m + 1]
      BY <2>3, MonthBounds
    <3> QED BY <1>1, <2>4, <3>1, <3>2
  <2> QED BY <1>1, <1>3, <2>2, <2>5
<1> QED BY <1>1, <1>2, <1>3 DEF m, n

(* Fourteen months are longer than a year. *)
LEMMA YearFits ==
    ASSUME NEW k \in Months, k + 14 \in Months
    PROVE  LastOf[k] + 365 <= LastOf[k + 14]
<1>1. \A j \in Months : j + 2 \in Months => LastOf[j] + 56 <= LastOf[j + 2]
  <2>. TAKE j \in Months
  <2>. HAVE j + 2 \in Months
  <2>1. j + 1 \in Months /\ j \in Nat /\ (j + 1) + 1 = j + 2
    BY MonthsLong, MonthsAre
  <2>2. LastOf[j] + 28 <= LastOf[j + 1] /\ LastOf[j + 1] + 28 <= LastOf[j + 2]
    BY <2>1, MonthsLong
  <2> QED BY <2>1, <2>2, MonthsLong
<1>2. \A j \in Months : j + 4 \in Months => LastOf[j] + 112 <= LastOf[j + 4]
  <2>. TAKE j \in Months
  <2>. HAVE j + 4 \in Months
  <2>1. j + 2 \in Months /\ j \in Nat /\ (j + 2) + 2 = j + 4
    BY MonthsLong, MonthsAre
  <2>2. LastOf[j] + 56 <= LastOf[j + 2] /\ LastOf[j + 2] + 56 <= LastOf[j + 4]
    BY <1>1, <2>1
  <2> QED BY <2>1, <2>2, MonthsLong
<1>3. k \in Nat /\ k + 4 \in Months /\ k + 8 \in Months /\ k + 12 \in Months
  BY MonthsLong, MonthsAre
<1>4. (k + 4) + 4 = k + 8 /\ (k + 8) + 4 = k + 12 /\ (k + 12) + 2 = k + 14
  BY <1>3
<1>5. /\ LastOf[k] + 112 <= LastOf[k + 4] /\ LastOf[k + 4] + 112 <= LastOf[k + 8]
      /\ LastOf[k + 8] + 112 <= LastOf[k + 12]
  BY <1>2, <1>3, <1>4
<1>6. LastOf[k + 12] + 56 <= LastOf[k + 14]
  BY <1>1, <1>3, <1>4
<1>7. /\ LastOf[k] \in Nat /\ LastOf[k + 4] \in Nat /\ LastOf[k + 8] \in Nat
      /\ LastOf[k + 12] \in Nat /\ LastOf[k + 14] \in Nat
  BY <1>3, MonthsLong
<1> QED BY <1>5, <1>6, <1>7

-----------------------------------------------------------------------------
(* The cycles of cards *)

(* The payment of what was gathered until a cut. *)
DueOf(k, cut, due) ==
    IF Clamped(k, due) <= Clamped(k, cut) THEN Clamped(k + 1, due) ELSE Clamped(k, due)

(* The cycle that ends with the cut of a month. *)
CycleOf(k, cut, due) ==
    [start |-> Clamped(k - 1, cut) + 1, end |-> Clamped(k, cut), due |-> DueOf(k, cut, due)]

(* It is what the client makes of its cut. *)
LEMMA CycleIs ==
    ASSUME NEW k \in Months, NEW cut \in Nat \ {0}, NEW due
    PROVE  Cycle(Clamped(k, cut), cut, due) = CycleOf(k, cut, due)
<1>1. MonthOf[Clamped(k, cut)] = k
  BY ClampIs
<1> QED BY <1>1 DEF Cycle, CycleOf, CutBefore, DueDateAfter, DueOf

(* The payment is due within a month of the cut. *)
LEMMA DueIsLater ==
    ASSUME NEW k \in Months, k + 1 \in Months, NEW cut \in 1 .. 31, NEW due \in 1 .. 31
    PROVE  /\ DueOf(k, cut, due) \in Nat /\ Clamped(k, cut) \in Nat
           /\ Clamped(k, cut) < DueOf(k, cut, due)
           /\ DueOf(k, cut, due) <= Clamped(k, cut) + 31
<1>1. /\ k \in Nat /\ k < k + 1 /\ cut \in Nat \ {0} /\ due \in Nat \ {0}
      /\ FirstOf[k] \in Nat /\ LastOf[k] \in Nat /\ LastOf[k] <= FirstOf[k] + 30
  BY MonthBounds
<1>2. /\ Clamped(k, cut) \in Nat /\ Clamped(k, due) \in Nat /\ Clamped(k + 1, due) \in Nat
      /\ FirstOf[k] <= Clamped(k, cut) /\ Clamped(k, due) <= LastOf[k]
  BY <1>1, ClampIs
<1>3. Clamped(k, cut) < Clamped(k + 1, due)
  BY <1>1, ClampsInOrder
<1>4. Clamped(k + 1, due) <= Clamped(k, due) + 31
  BY <1>1, ClampMonthLater
<1>5. CASE Clamped(k, due) <= Clamped(k, cut)
  BY <1>2, <1>3, <1>4, <1>5 DEF DueOf
<1>6. CASE ~(Clamped(k, due) <= Clamped(k, cut))
  BY <1>1, <1>2, <1>6 DEF DueOf
<1> QED BY <1>5, <1>6

(* A day is in the cycle that ends with the first cut from it on. *)
InCycle(t, k, cut) ==
    /\ k \in Months /\ k - 1 \in Months
    /\ Clamped(k - 1, cut) < t /\ t <= Clamped(k, cut)

(* The client finds the cut of the cycle that today is in. *)
LEMMA OpenEndIs ==
    ASSUME NEW t \in Dates, MonthOf[t] - 1 \in Months, MonthOf[t] + 1 \in Months, NEW cut \in Nat \ {0}
    PROVE  \E k \in {MonthOf[t], MonthOf[t] + 1} :
               InCycle(t, k, cut) /\ OpenEnd(cut, t) = Clamped(k, cut)
<1>. DEFINE m == MonthOf[t]
<1>1. m \in Months /\ m \in Nat /\ t \in Nat /\ m + 1 \in Months /\ m - 1 \in Months /\ (m + 1) - 1 = m
  BY DatesHaveMonths, MonthBounds
<1>2. /\ Clamped(m, cut) \in Nat /\ Clamped(m, cut) \in Dates
      /\ Clamped(m - 1, cut) \in Nat /\ Clamped(m + 1, cut) \in Nat
      /\ Clamped(m - 1, cut) < t /\ t < Clamped(m + 1, cut)
  <2>1. /\ Clamped(m, cut) \in Dates /\ Clamped(m - 1, cut) \in Dates /\ Clamped(m + 1, cut) \in Dates
        /\ MonthOf[Clamped(m - 1, cut)] = m - 1 /\ MonthOf[Clamped(m + 1, cut)] = m + 1
    BY <1>1, ClampIs
  <2>2. m - 1 < m /\ m < m + 1
    BY <1>1
  <2>3. Clamped(m - 1, cut) < t /\ t < Clamped(m + 1, cut)
    BY <2>1, <2>2, DatesInOrder
  <2> QED BY <2>1, <2>3, DatesHaveMonths
<1>3. OpenEnd(cut, t) = IF t <= Clamped(m, cut) THEN Clamped(m, cut) ELSE Clamped(m + 1, cut)
  BY DEF OpenEnd
<1>. HIDE DEF m
<1>4. CASE t <= Clamped(m, cut)
  BY <1>1, <1>2, <1>3, <1>4 DEF InCycle, m
<1>5. CASE ~(t <= Clamped(m, cut))
  <2>1. InCycle(t, m + 1, cut) /\ OpenEnd(cut, t) = Clamped(m + 1, cut)
    BY <1>1, <1>2, <1>3, <1>5 DEF InCycle
  <2> QED BY <2>1 DEF m
<1> QED BY <1>4, <1>5

(* A day is in one cycle only; the next day is in the same or, after the cut, in the next. *)
LEMMA CyclesFollow ==
    ASSUME NEW t \in Nat, NEW k, NEW n, NEW cut \in Nat \ {0}, InCycle(t, k, cut), InCycle(t + 1, n, cut)
    PROVE  n = k \/ (n = k + 1 /\ t = Clamped(k, cut))
<1>1. /\ k \in Nat /\ n \in Nat /\ k \in Months /\ n \in Months /\ k - 1 \in Months /\ n - 1 \in Months
      /\ Clamped(k, cut) \in Nat /\ Clamped(n, cut) \in Nat
      /\ Clamped(k - 1, cut) \in Nat /\ Clamped(n - 1, cut) \in Nat
      /\ Clamped(k - 1, cut) < t /\ t <= Clamped(k, cut)
      /\ Clamped(n - 1, cut) < t + 1 /\ t + 1 <= Clamped(n, cut)
  BY ClampIs, MonthBounds DEF InCycle
<1>2. \A x, y \in Months : x <= y => Clamped(x, cut) <= Clamped(y, cut)
  <2>1. \A x, y \in Months : x < y => Clamped(x, cut) < Clamped(y, cut)
    BY ClampsInOrder
  <2>2. \A x \in Months : x \in Nat /\ Clamped(x, cut) \in Nat
    BY ClampIs, MonthBounds
  <2> QED BY <2>1, <2>2
<1>3. ~(n < k)
  <2>1. n < k => n <= k - 1
    BY <1>1
  <2>2. n <= k - 1 => Clamped(n, cut) <= Clamped(k - 1, cut)
    BY <1>1, <1>2
  <2> QED BY <1>1, <2>1, <2>2
<1>4. n > k => t = Clamped(k, cut)
  <2>1. n > k => k <= n - 1
    BY <1>1
  <2>2. k <= n - 1 => Clamped(k, cut) <= Clamped(n - 1, cut)
    BY <1>1, <1>2
  <2> QED BY <1>1, <2>1, <2>2
<1>5. n > k => n = k + 1
  <2>. SUFFICES ASSUME n > k, n # k + 1 PROVE FALSE
    BY <1>1
  <2>1. k < n - 1
    BY <1>1
  <2>2. Clamped(k, cut) < Clamped(n - 1, cut)
    BY <1>1, <2>1, ClampsInOrder
  <2> QED BY <1>1, <2>2
<1> QED BY <1>1, <1>3, <1>4, <1>5

-----------------------------------------------------------------------------
(* Midnights of the browser *)

(* How far local midnights are ahead of a clock that never changes. *)
Ahead(d) == Before(ShortDays, d) - Before(LongDays, d)

(* The browser's zone has a standard time and a summer time, an hour apart. *)
TwoOffsets == \E c \in Int : \A d \in Int : Ahead(d) \in {c, c + 1}

(* The days before a date that change the clock are finitely many. *)
LEMMA BeforeIs ==
    ASSUME NEW days, days \subseteq Nat
    PROVE  /\ \A d \in Int : IsFiniteSet({x \in days : x < d}) /\ Before(days, d) \in Nat
           /\ \A d, e \in Int : d <= e => Before(days, d) <= Before(days, e)
           /\ \A d, e \in Int : d <= e /\ (\A x \in days : ~(d <= x /\ x < e))
                                => Before(days, d) = Before(days, e)
<1>. DEFINE B(d) == {x \in days : x < d}
<1>1. \A d : Before(days, d) = Cardinality(B(d))
  BY DEF Before
<1>2. \A d \in Int : IsFiniteSet(B(d))
  <2>. TAKE d \in Int
  <2>1. B(d) \subseteq 0 .. d
    <3>. SUFFICES ASSUME NEW x \in days, x < d PROVE x \in 0 .. d
      OBVIOUS
    <3>1. x \in Nat
      OBVIOUS
    <3> QED BY <3>1
  <2>2. IsFiniteSet(0 .. d)
    BY FS_Interval
  <2>. HIDE DEF B
  <2> QED BY <2>1, <2>2, FS_Subset
<1>3. \A d, e \in Int : d <= e => B(d) \subseteq B(e)
  <2>. SUFFICES ASSUME NEW d \in Int, NEW e \in Int, d <= e, NEW x \in days, x < d PROVE x < e
    OBVIOUS
  <2>1. x \in Nat
    OBVIOUS
  <2> QED BY <2>1
<1>4. \A d, e \in Int : d <= e /\ (\A x \in days : ~(d <= x /\ x < e)) => B(d) = B(e)
  <2>. TAKE d, e \in Int
  <2>. HAVE d <= e /\ \A x \in days : ~(d <= x /\ x < e)
  <2>1. ASSUME NEW x \in days PROVE x < d <=> x < e
    <3>1. x \in Nat /\ ~(d <= x /\ x < e)
      OBVIOUS
    <3> QED BY <3>1
  <2> QED BY <2>1, Zenon
<1>. HIDE DEF B
<1>5. \A d \in Int : Cardinality(B(d)) \in Nat
  BY <1>2, FS_CardinalityType
<1>6. \A d, e \in Int : d <= e => Cardinality(B(d)) <= Cardinality(B(e))
  <2>. TAKE d, e \in Int
  <2>. HAVE d <= e
  <2> QED BY <1>2, <1>3, FS_Subset
<1>7. \A d \in Int : IsFiniteSet({x \in days : x < d})
  BY <1>2 DEF B
<1> QED BY <1>1, <1>4, <1>5, <1>6, <1>7

(* The days that change the clock are numbers. *)
LEMMA ChangeDays == ShortDays \subseteq Nat /\ LongDays \subseteq Nat
  BY CalendarConstants

(* Midnight in hours. *)
LEMMA MidnightIs ==
    \A d \in Int : /\ Ahead(d) \in Int /\ Midnight(d) \in Int /\ Midnight(d) = 24 * d - Ahead(d)
<1>. TAKE d \in Int
<1>1. Before(ShortDays, d) \in Nat /\ Before(LongDays, d) \in Nat
  BY ChangeDays, BeforeIs
<1> QED BY <1>1 DEF Midnight, Ahead

(* While the clock is not changed, days have 24 hours. *)
LEMMA ClockSteady ==
    ASSUME NEW d \in Int, NEW e \in Int, d <= e, NoClockChange(Window(d, e))
    PROVE  \A f \in d .. e : Ahead(f) = Ahead(d) /\ Midnight(f) = Midnight(d) + 24 * (f - d)
<1>. TAKE f \in d .. e
<1>1. \A x \in ShortDays \cup LongDays : x \in Int /\ ~(d <= x /\ x <= e)
  BY ChangeDays DEF NoClockChange, Within, Window
<1>2. /\ \A x \in ShortDays : ~(d <= x /\ x < f)
      /\ \A x \in LongDays : ~(d <= x /\ x < f)
  BY <1>1
<1>3. Before(ShortDays, d) = Before(ShortDays, f) /\ Before(LongDays, d) = Before(LongDays, f)
  <2>1. f \in Int /\ d <= f
    OBVIOUS
  <2>2. \A days : days \subseteq Nat =>
            \A x, y \in Int : x <= y /\ (\A z \in days : ~(x <= z /\ z < y))
                             => Before(days, x) = Before(days, y)
    BY BeforeIs, Zenon
  <2> QED BY <1>2, <2>1, <2>2, ChangeDays, Zenon
<1>4. Ahead(f) = Ahead(d)
  BY <1>3 DEF Ahead
<1>5. Ahead(d) \in Int /\ Midnight(d) = 24 * d - Ahead(d) /\ Midnight(f) = 24 * f - Ahead(f)
  BY MidnightIs
<1> QED BY <1>4, <1>5

(* While it does not spring forward, midnights get no earlier. *)
LEMMA NoSpring ==
    ASSUME NEW d \in Int, NEW e \in Int, d <= e, \A x \in ShortDays : ~(d <= x /\ x < e)
    PROVE  Ahead(e) <= Ahead(d)
<1>1. Before(ShortDays, d) = Before(ShortDays, e) /\ Before(LongDays, d) <= Before(LongDays, e)
  BY ChangeDays, BeforeIs
<1>2. Before(ShortDays, e) \in Nat /\ Before(LongDays, d) \in Nat /\ Before(LongDays, e) \in Nat
  BY ChangeDays, BeforeIs
<1> QED BY <1>1, <1>2 DEF Ahead

(* Midnights are in the order of their days. *)
LEMMA MidnightsInOrder ==
    ASSUME TwoOffsets
    PROVE  /\ \A d \in Int : Ahead(d) \in -1 .. 1
           /\ \A d, e \in Int : Ahead(d) - Ahead(e) \in -1 .. 1
           /\ \A d, e \in Int : d <= e => Midnight(d) <= Midnight(e)
<1>1. PICK c \in Int : \A d \in Int : Ahead(d) \in {c, c + 1}
  BY DEF TwoOffsets
<1>2. Ahead(0) = 0
  <2>1. \A x \in ShortDays \cup LongDays : ~(x < 0)
    BY ChangeDays
  <2>2. {x \in ShortDays : x < 0} = {} /\ {x \in LongDays : x < 0} = {}
    BY <2>1
  <2>3. Before(ShortDays, 0) = 0 /\ Before(LongDays, 0) = 0
    BY <2>2, FS_EmptySet DEF Before
  <2> QED BY <2>3 DEF Ahead
<1>3. c \in {-1, 0}
  <2>1. Ahead(0) \in {c, c + 1}
    BY <1>1
  <2> QED BY <1>2, <2>1
<1>4. \A d \in Int : Ahead(d) \in -1 .. 1
  BY <1>1, <1>3
<1>5. \A d, e \in Int : Ahead(d) - Ahead(e) \in -1 .. 1
  BY <1>1, <1>3
<1>6. ASSUME NEW d \in Int, NEW e \in Int, d <= e PROVE Midnight(d) <= Midnight(e)
  <2>1. /\ Ahead(d) \in Int /\ Ahead(e) \in Int /\ Ahead(d) - Ahead(e) \in -1 .. 1
        /\ Midnight(d) = 24 * d - Ahead(d) /\ Midnight(e) = 24 * e - Ahead(e)
    BY <1>5, MidnightIs
  <2>2. CASE d = e
    BY <1>6, <2>1, <2>2
  <2>3. CASE d # e
    BY <1>6, <2>1, <2>3
  <2> QED BY <2>2, <2>3
<1> QED BY <1>4, <1>5, <1>6

(* The date of an instant is that of the midnight before it. *)
LEMMA DateAtIs ==
    ASSUME TwoOffsets, NEW d \in Int, NEW h \in Int, Midnight(d) <= h, h < Midnight(d + 1)
    PROVE  DateAt(h) = d
<1>. DEFINE q == h \div 24
            At(x) == Midnight(x) <= h /\ h < Midnight(x + 1)
<1>1. /\ Ahead(d) \in -1 .. 1 /\ Ahead(d + 1) \in -1 .. 1
      /\ Midnight(d) = 24 * d - Ahead(d) /\ Midnight(d + 1) = 24 * (d + 1) - Ahead(d + 1)
  <2>1. d + 1 \in Int
    OBVIOUS
  <2>2. Ahead(d) \in -1 .. 1 /\ Ahead(d + 1) \in -1 .. 1
    BY <2>1, MidnightsInOrder
  <2>3. Midnight(d) = 24 * d - Ahead(d) /\ Midnight(d + 1) = 24 * (d + 1) - Ahead(d + 1)
    BY <2>1, MidnightIs
  <2> QED BY <2>2, <2>3
<1>2. 24 * d - 1 <= h /\ h < 24 * d + 25
  BY <1>1
<1>3. q \in Int /\ 24 * q <= h /\ h < 24 * q + 24
  OBVIOUS
<1>. HIDE DEF q
<1>4. d \in q - 2 .. q + 2
  BY <1>2, <1>3
<1>5. ASSUME NEW x \in q - 2 .. q + 2, At(x) PROVE x = d
  <2>1. x \in Int
    BY <1>3
  <2>2. ~(x < d)
    <3>. SUFFICES ASSUME x < d PROVE FALSE
      OBVIOUS
    <3>1. x + 1 <= d /\ x + 1 \in Int
      BY <2>1
    <3>2. Midnight(x + 1) <= Midnight(d) /\ Midnight(x + 1) \in Int /\ Midnight(d) \in Int
      BY <3>1, MidnightsInOrder, MidnightIs
    <3> QED BY <1>5, <3>2
  <2>3. ~(d < x)
    <3>. SUFFICES ASSUME d < x PROVE FALSE
      OBVIOUS
    <3>1. d + 1 <= x /\ d + 1 \in Int
      BY <2>1
    <3>2. Midnight(d + 1) <= Midnight(x) /\ Midnight(d + 1) \in Int /\ Midnight(x) \in Int
      BY <2>1, <3>1, MidnightsInOrder, MidnightIs
    <3> QED BY <1>5, <3>2
  <2> QED BY <2>1, <2>2, <2>3
<1>6. DateAt(h) = CHOOSE x \in q - 2 .. q + 2 : At(x)
  BY DEF DateAt, q
<1>7. At(d)
  OBVIOUS
<1>. HIDE DEF At
<1>8. DateAt(h) \in q - 2 .. q + 2 /\ At(DateAt(h))
  BY <1>4, <1>6, <1>7, Zenon
<1> QED BY <1>5, <1>8

(* A range is as many days long as it has, whatever hours they have. *)
LEMMA LengthIs ==
    ASSUME TwoOffsets, NEW d \in Int, NEW e \in Int
    PROVE  LengthDays(Window(d, e)) = e - d
<1>. DEFINE x == Ahead(d) - Ahead(e)
            n == e - d
<1>1. x \in -1 .. 1 /\ Midnight(e) - Midnight(d) = 24 * n + x /\ n \in Int
  <2>1. Ahead(d) - Ahead(e) \in -1 .. 1
    BY MidnightsInOrder
  <2>2. /\ Midnight(d) = 24 * d - Ahead(d) /\ Midnight(e) = 24 * e - Ahead(e)
        /\ Ahead(d) \in Int /\ Ahead(e) \in Int
    BY MidnightIs
  <2> QED BY <2>1, <2>2
<1>. HIDE DEF x, n
<1>2. LengthDays(Window(d, e)) = (2 * (24 * n + x) + 24) \div (2 * 24)
  BY <1>1 DEF LengthDays, RoundDiv, Window
<1>3. (2 * (24 * n + x) + 24) \div (2 * 24) = n
  BY <1>1
<1> QED BY <1>2, <1>3 DEF n

(* Unless the clock springs forward, the range before ends where one starts and is as long. *)
LEMMA PreviousTiles ==
    ASSUME TwoOffsets, NEW s \in Int, NEW e \in Int, s <= e,
           NoSpringForward(Window(PreviousRange(Window(s, e)).start - 1, e))
    PROVE  /\ PreviousRange(Window(s, e)).end + 1 = s
           /\ PreviousRange(Window(s, e)).end - PreviousRange(Window(s, e)).start = e - s
<1>. DEFINE n == e - s
            p == s - 1 - n
            r == PreviousRange(Window(s, e))
            h == Midnight(s) - 24
            g == h - 24 * n
<1>1. n \in Nat /\ p \in Int /\ p + 1 <= s /\ p <= s - 1 /\ s - 1 \in Int
  OBVIOUS
<1>2. r = Window(DateAt(g), DateAt(h))
  BY LengthIs DEF PreviousRange, Window
<1>3. r.start = DateAt(g) /\ r.end = DateAt(h)
  BY <1>2 DEF Window
<1>4. h = 24 * (s - 1) - Ahead(s) /\ g = 24 * p - Ahead(s) /\ Ahead(s) \in -1 .. 1
  <2>1. Midnight(s) = 24 * s - Ahead(s) /\ Ahead(s) \in -1 .. 1
    BY MidnightIs, MidnightsInOrder
  <2> QED BY <2>1
<1>5. \A x \in ShortDays : x \in Int /\ ~(r.start - 1 <= x /\ x <= e)
  BY ChangeDays DEF NoSpringForward, Within, Window
<1>. HIDE DEF r, p, n, h, g
<1>6. \A x \in Int : /\ Midnight(x) = 24 * x - Ahead(x) /\ Ahead(x) \in -1 .. 1
                     /\ Ahead(s) - Ahead(x) \in -1 .. 1 /\ Ahead(x) - Ahead(s) \in -1 .. 1
  BY MidnightIs, MidnightsInOrder
<1>7. DateAt(g) \in {p - 1, p}
  <2>1. /\ Midnight(p) = 24 * p - Ahead(p) /\ Midnight(p + 1) = 24 * (p + 1) - Ahead(p + 1)
        /\ Midnight(p - 1) = 24 * (p - 1) - Ahead(p - 1)
        /\ Ahead(p) \in -1 .. 1 /\ Ahead(p + 1) \in -1 .. 1 /\ Ahead(p - 1) \in -1 .. 1
    <3>1. p + 1 \in Int /\ p - 1 \in Int
      BY <1>1
    <3> QED BY <1>1, <1>6, <3>1
  <2>2. CASE Ahead(s) <= Ahead(p)
    <3>1. Midnight(p) <= g /\ g < Midnight(p + 1) /\ g \in Int
      BY <1>1, <1>4, <2>1, <2>2
    <3> QED BY <1>1, <3>1, DateAtIs
  <2>3. CASE ~(Ahead(s) <= Ahead(p))
    <3>1. Midnight(p - 1) <= g /\ g < Midnight(p) /\ g \in Int /\ p - 1 \in Int /\ (p - 1) + 1 = p
      BY <1>1, <1>4, <2>1, <2>3
    <3>2. DateAt(g) = p - 1
      BY <3>1, DateAtIs
    <3> QED BY <3>2
  <2> QED BY <2>2, <2>3
<1>8. \A x \in ShortDays : x \in Int /\ ~(p <= x /\ x <= e)
  BY <1>1, <1>3, <1>5, <1>7
<1>9. Ahead(s) <= Ahead(p) /\ Ahead(s) <= Ahead(s - 1)
  <2>1. /\ \A x \in ShortDays : ~(p <= x /\ x < s)
        /\ \A x \in ShortDays : ~(s - 1 <= x /\ x < s)
    BY <1>1, <1>8
  <2>2. Ahead(s) <= Ahead(p)
    BY <1>1, <2>1, NoSpring
  <2>3. Ahead(s) <= Ahead(s - 1)
    BY <1>1, <2>1, NoSpring
  <2> QED BY <2>2, <2>3
<1>10. DateAt(g) = p
  <2>1. /\ Midnight(p) = 24 * p - Ahead(p) /\ Midnight(p + 1) = 24 * (p + 1) - Ahead(p + 1)
        /\ Ahead(p) \in -1 .. 1 /\ Ahead(p + 1) \in -1 .. 1 /\ p + 1 \in Int
    <3>1. p + 1 \in Int
      BY <1>1
    <3> QED BY <1>1, <1>6, <3>1
  <2>2. Midnight(p) <= g /\ g < Midnight(p + 1) /\ g \in Int
    BY <1>1, <1>4, <1>9, <2>1
  <2> QED BY <1>1, <2>2, DateAtIs
<1>11. DateAt(h) = s - 1
  <2>1. Midnight(s - 1) = 24 * (s - 1) - Ahead(s - 1) /\ Ahead(s - 1) \in -1 .. 1 /\ Midnight(s) = 24 * s - Ahead(s)
    BY <1>1, <1>6
  <2>2. Midnight(s - 1) <= h /\ h < Midnight((s - 1) + 1) /\ h \in Int /\ s - 1 \in Int
    BY <1>4, <1>9, <2>1
  <2> QED BY <2>2, DateAtIs
<1> QED BY <1>1, <1>3, <1>10, <1>11 DEF r, p, n

(* The days left until a date are those there are, while the clock is not changed. *)
LEMMA DaysLeftIs ==
    ASSUME NEW d \in Int, NEW e \in Int, d <= e, NoClockChange(Window(d, e)), NEW c, c.end = e
    PROVE  DaysLeft(c, d) = e - d
<1>. DEFINE n == e - d
<1>1. n \in Nat /\ e = d + n /\ e \in d .. e
  OBVIOUS
<1>2. Midnight(e) = Midnight(d) + 24 * n /\ Midnight(d) \in Int
  BY <1>1, ClockSteady, MidnightIs
<1>. HIDE DEF n
<1>3. Midnight(e) - Midnight(d) = 24 * n
  BY <1>1, <1>2
<1>4. -((-(24 * n)) \div 24) = n
  BY <1>1
<1>5. DaysLeft(c, d) = IF n < 0 THEN 0 ELSE n
  BY <1>3, <1>4 DEF DaysLeft
<1> QED BY <1>1, <1>5 DEF n

-----------------------------------------------------------------------------
(* Windows of cards *)

(* The cycles of a card on a day are the one it is in and the one before. *)
LEMMA CardCyclesAre ==
    ASSUME NEW t \in Dates, MonthOf[t] - 2 \in Months, MonthOf[t] + 1 \in Months,
           NEW cut \in Nat \ {0}, NEW due
    PROVE  \E k \in {MonthOf[t], MonthOf[t] + 1} :
               /\ InCycle(t, k, cut)
               /\ CreditCardCycles(cut, due, t).open = CycleOf(k, cut, due)
               /\ CreditCardCycles(cut, due, t).previous = CycleOf(k - 1, cut, due)
<1>. DEFINE m == MonthOf[t]
<1>1. m \in Months /\ m \in Nat /\ m - 1 \in Months /\ m - 2 \in Months /\ m + 1 \in Months
  <2>1. m \in Months /\ m \in Nat
    BY DatesHaveMonths, MonthBounds
  <2> QED BY <2>1, MonthsAre
<1>2. PICK k \in {m, m + 1} : InCycle(t, k, cut) /\ OpenEnd(cut, t) = Clamped(k, cut)
  BY <1>1, OpenEndIs
<1>3. k \in Months /\ k - 1 \in Months /\ k \in Nat
  BY <1>2, MonthBounds DEF InCycle
<1>4. CutBefore(Clamped(k, cut), cut) = Clamped(k - 1, cut)
  BY <1>3, ClampIs DEF CutBefore
<1>5. CreditCardCycles(cut, due, t).open = CycleOf(k, cut, due)
  BY <1>2, <1>3, CycleIs DEF CreditCardCycles
<1>6. CreditCardCycles(cut, due, t).previous = CycleOf(k - 1, cut, due)
  BY <1>2, <1>3, <1>4, CycleIs DEF CreditCardCycles
<1> QED BY <1>2, <1>5, <1>6

(* What a cycle gathers falls due before what the next one does, or with it when *)
(* both days of the card are past the end of February.                           *)
LEMMA DuesInOrder ==
    ASSUME NEW k \in Months, k - 1 \in Months, k + 1 \in Months, NEW cut \in 1 .. 31, NEW due \in 1 .. 31
    PROVE  /\ DueOf(k - 1, cut, due) <= DueOf(k, cut, due)
           /\ DueOf(k - 1, cut, due) = DueOf(k, cut, due) => due > cut /\ cut >= 28
<1>1. k \in Nat /\ k - 1 < k /\ k < k + 1 /\ (k - 1) + 1 = k /\ cut \in Nat \ {0} /\ due \in Nat \ {0}
  BY MonthBounds
<1>2. /\ Clamped(k - 1, due) \in Nat /\ Clamped(k, due) \in Nat /\ Clamped(k + 1, due) \in Nat
      /\ Clamped(k - 1, cut) \in Nat /\ Clamped(k, cut) \in Nat
  BY <1>1, ClampIs
<1>3. Clamped(k - 1, due) < Clamped(k, due) /\ Clamped(k, due) < Clamped(k + 1, due)
  BY <1>1, ClampsInOrder
<1>4. Clamped(k, cut) < Clamped(k, due) => cut < due
  BY <1>1, ClampsInOrder
<1>5. cut < due => Clamped(k - 1, cut) <= Clamped(k - 1, due)
  BY <1>1, ClampsInOrder
<1>6. cut < due /\ Clamped(k - 1, cut) = Clamped(k - 1, due) => cut >= 28
  BY <1>1, ClampsInOrder
<1>7. /\ DueOf(k - 1, cut, due) =
          IF Clamped(k - 1, due) <= Clamped(k - 1, cut) THEN Clamped(k, due) ELSE Clamped(k - 1, due)
      /\ DueOf(k, cut, due) =
          IF Clamped(k, due) <= Clamped(k, cut) THEN Clamped(k + 1, due) ELSE Clamped(k, due)
  BY <1>1 DEF DueOf
<1> QED BY <1>1, <1>2, <1>3, <1>4, <1>5, <1>6, <1>7

(* The cycles of a card tile time. *)
LEMMA CardsTile ==
    ASSUME NEW t \in Dates, t + 1 \in Dates, MonthOf[t] - 2 \in Months, MonthOf[t] + 2 \in Months,
           NEW cut \in 1 .. 31, NEW due \in 1 .. 31
    PROVE  CardCyclesTile(cut, due, t)
<1>. DEFINE m == MonthOf[t]
            a == CreditCardCycles(cut, due, t)
            b == CreditCardCycles(cut, due, t + 1)
<1>1. /\ m \in Months /\ m \in Nat /\ m - 1 \in Months /\ m - 2 \in Months /\ m + 1 \in Months
      /\ cut \in Nat \ {0} /\ t \in Nat
      /\ MonthOf[t + 1] \in {m, m + 1}
  <2>1. m \in Months /\ m \in Nat /\ MonthOf[t + 1] \in {m, m + 1}
    BY NextDay
  <2> QED BY <2>1, MonthsAre, DatesHaveMonths
<1>2. PICK k \in {m, m + 1} : /\ InCycle(t, k, cut)
                              /\ a.open = CycleOf(k, cut, due) /\ a.previous = CycleOf(k - 1, cut, due)
  BY <1>1, CardCyclesAre
<1>3. \E x \in {MonthOf[t + 1], MonthOf[t + 1] + 1} :
          /\ InCycle(t + 1, x, cut)
          /\ b.open = CycleOf(x, cut, due) /\ b.previous = CycleOf(x - 1, cut, due)
  <2>1. MonthOf[t + 1] - 2 \in Months /\ MonthOf[t + 1] + 1 \in Months
    BY <1>1, MonthsAre
  <2> QED BY <1>1, <2>1, CardCyclesAre
<1>4. PICK n : /\ InCycle(t + 1, n, cut)
               /\ b.open = CycleOf(n, cut, due) /\ b.previous = CycleOf(n - 1, cut, due)
  BY <1>3
<1>5. n = k \/ (n = k + 1 /\ t = Clamped(k, cut))
  BY <1>1, <1>2, <1>4, CyclesFollow
<1>6. /\ k \in Months /\ k \in Nat /\ k - 1 \in Months /\ k + 1 \in Months /\ (k - 1) + 1 = k /\ (k + 1) - 1 = k
      /\ Clamped(k - 1, cut) < t /\ t <= Clamped(k, cut)
      /\ Clamped(k - 1, cut) \in Nat /\ Clamped(k, cut) \in Nat
  <2>1. k \in Months /\ k - 1 \in Months /\ k \in Nat /\ k + 1 \in Months
    BY <1>1, <1>2, MonthsAre DEF InCycle
  <2> QED BY <1>1, <1>2, <2>1, ClampIs DEF InCycle
<1>7. /\ a.open.start = Clamped(k - 1, cut) + 1 /\ a.open.end = Clamped(k, cut)
      /\ a.open.due = DueOf(k, cut, due)
      /\ a.previous.end = Clamped(k - 1, cut) /\ a.previous.due = DueOf(k - 1, cut, due)
  BY <1>2 DEF CycleOf
<1>8. b.open.start = Clamped(n - 1, cut) + 1 /\ b.open.end = Clamped(n, cut)
  BY <1>4 DEF CycleOf
<1>. HIDE DEF a, b, m
<1>9. Follows(a.open, b.open, t)
  <2>1. Within(t, a.open)
    BY <1>1, <1>6, <1>7 DEF Within
  <2>2. CASE n = k
    BY <1>2, <1>4, <2>1, <2>2 DEF Follows
  <2>3. CASE n = k + 1 /\ t = Clamped(k, cut)
    <3>1. b.open.start = Clamped(k, cut) + 1
      BY <1>6, <1>8, <2>3
    <3> QED BY <1>7, <2>1, <2>3, <3>1 DEF Follows
  <2> QED BY <1>5, <2>2, <2>3
<1>10. b.open # a.open => b.previous = a.open
  BY <1>2, <1>4, <1>5, <1>6
<1>11. /\ DueOf(k - 1, cut, due) \in Nat /\ Clamped(k - 1, cut) < DueOf(k - 1, cut, due)
       /\ DueOf(k, cut, due) \in Nat /\ Clamped(k, cut) < DueOf(k, cut, due)
       /\ DueOf(k, cut, due) <= Clamped(k, cut) + 31
  <2>1. Clamped(k - 1, cut) < DueOf(k - 1, cut, due) /\ DueOf(k - 1, cut, due) \in Nat
    BY <1>6, DueIsLater
  <2> QED BY <1>6, <2>1, DueIsLater
<1>12. /\ DueOf(k - 1, cut, due) <= DueOf(k, cut, due)
       /\ DueOf(k - 1, cut, due) = DueOf(k, cut, due) => due > cut /\ cut >= 28
  BY <1>6, DuesInOrder
<1>13. NoClockChange(Window(t, a.open.end)) => DaysLeft(a.open, t) = a.open.end - t
  BY <1>1, <1>6, <1>7, DaysLeftIs
<1> QED BY <1>7, <1>9, <1>10, <1>11, <1>12, <1>13 DEF CardCyclesTile, a, b

-----------------------------------------------------------------------------
(* Windows of budgets *)

(* Where dates that increase are counted, the next day has the same count or, when *)
(* it is the next date, one more.                                                  *)
LEMMA CountsFollow ==
    ASSUME NEW S \in SUBSET Nat, NEW f, \A i \in S : f[i] \in Int,
           \A i, j \in S : i < j => f[i] < f[j],
           NEW n \in S, NEW q \in S, n + 1 \in S, q + 1 \in S, NEW t \in Int,
           f[n] <= t, t < f[n + 1], f[q] <= t + 1, t + 1 < f[q + 1]
    PROVE  q = n \/ (q = n + 1 /\ t + 1 = f[n + 1])
<1>1. /\ n \in Nat /\ q \in Nat
      /\ f[n] \in Int /\ f[q] \in Int /\ f[n + 1] \in Int /\ f[q + 1] \in Int
  OBVIOUS
<1>2. ~(q < n)
  <2>. SUFFICES ASSUME q < n PROVE FALSE
    OBVIOUS
  <2>1. q + 1 = n \/ f[q + 1] < f[n]
    BY <1>1
  <2> QED BY <1>1, <2>1
<1>3. ASSUME n < q PROVE q = n + 1 /\ t + 1 = f[n + 1]
  <2>1. q = n + 1 \/ f[n + 1] < f[q]
    BY <1>1, <1>3
  <2> QED BY <1>1, <2>1
<1> QED BY <1>1, <1>2, <1>3

(* A day is in the week of a budget that the days since its start count. *)
LEMMA WeeklyCount ==
    ASSUME NEW s \in Nat, NEW t \in Nat, s <= t
    PROVE  /\ CycleCount(s, "weekly", t) \in Nat
           /\ AddPeriods(s, "weekly", CycleCount(s, "weekly", t)) <= t
           /\ t < AddPeriods(s, "weekly", CycleCount(s, "weekly", t) + 1)
<1>. DEFINE n == (t - s) \div 7
<1>1. n \in Nat /\ s + 7 * n <= t /\ t < s + 7 * (n + 1)
  OBVIOUS
<1>. HIDE DEF n
<1>2. AddPeriods(s, "weekly", n) = s + 7 * n /\ AddPeriods(s, "weekly", n + 1) = s + 7 * (n + 1)
  BY DEF AddPeriods
<1>3. CycleCount(s, "weekly", t) = n
  BY <1>1, <1>2 DEF CycleCount, n
<1> QED BY <1>1, <1>2, <1>3

(* The years from a date that the calendar has. *)
YearsFrom(s) == {i \in Nat : MonthOf[s] + 12 * i \in Months}

(* Years start on the day the first one did, clamped, and in order. *)
LEMMA YearlyIs ==
    ASSUME NEW s \in Dates
    PROVE  /\ \A i \in YearsFrom(s) : /\ AddPeriods(s, "yearly", i) \in Dates
                                      /\ AddPeriods(s, "yearly", i) \in Nat
                                      /\ MonthOf[AddPeriods(s, "yearly", i)] = MonthOf[s] + 12 * i
           /\ \A i, j \in YearsFrom(s) : i < j => AddPeriods(s, "yearly", i) < AddPeriods(s, "yearly", j)
           /\ 0 \in YearsFrom(s) /\ AddPeriods(s, "yearly", 0) = s
<1>1. MonthOf[s] \in Months /\ MonthOf[s] \in Nat /\ DayOf(s) \in Nat \ {0} /\ Clamped(MonthOf[s], DayOf(s)) = s
  BY DatesHaveMonths, MonthBounds, ClampedDate
<1>2. \A i : AddPeriods(s, "yearly", i) = Clamped(MonthOf[s] + i * 12, DayOf(s))
  BY DEF AddPeriods
<1>3. ASSUME NEW i \in YearsFrom(s)
      PROVE  /\ i \in Nat /\ MonthOf[s] + 12 * i \in Months
             /\ AddPeriods(s, "yearly", i) = Clamped(MonthOf[s] + 12 * i, DayOf(s))
  <2>1. i \in Nat /\ MonthOf[s] + 12 * i \in Months
    BY DEF YearsFrom
  <2>2. i * 12 = 12 * i
    BY <2>1
  <2> QED BY <1>2, <2>1, <2>2
<1>4. ASSUME NEW i \in YearsFrom(s)
      PROVE  /\ AddPeriods(s, "yearly", i) \in Dates /\ AddPeriods(s, "yearly", i) \in Nat
             /\ MonthOf[AddPeriods(s, "yearly", i)] = MonthOf[s] + 12 * i
  BY <1>1, <1>3, ClampIs
<1>5. ASSUME NEW i \in YearsFrom(s), NEW j \in YearsFrom(s), i < j
      PROVE  AddPeriods(s, "yearly", i) < AddPeriods(s, "yearly", j)
  <2>1. i \in Nat /\ j \in Nat
    BY <1>3
  <2>2. MonthOf[s] + 12 * i < MonthOf[s] + 12 * j
    BY <1>1, <1>5, <2>1
  <2>3. Clamped(MonthOf[s] + 12 * i, DayOf(s)) < Clamped(MonthOf[s] + 12 * j, DayOf(s))
    BY <1>1, <1>3, <2>2, ClampsInOrder
  <2> QED BY <1>3, <2>3
<1>6. 0 \in YearsFrom(s) /\ AddPeriods(s, "yearly", 0) = s
  <2>1. MonthOf[s] + 12 * 0 = MonthOf[s] /\ MonthOf[s] + 0 * 12 = MonthOf[s]
    BY <1>1
  <2> QED BY <1>1, <1>2, <2>1 DEF YearsFrom
<1> QED BY <1>4, <1>5, <1>6

(* A day is in the year of a budget that the client counts. *)
LEMMA YearlyCount ==
    ASSUME NEW s \in Dates, NEW t \in Dates, s <= t, MonthOf[t] + 12 \in Months
    PROVE  /\ CycleCount(s, "yearly", t) \in YearsFrom(s)
           /\ CycleCount(s, "yearly", t) + 1 \in YearsFrom(s)
           /\ AddPeriods(s, "yearly", CycleCount(s, "yearly", t)) <= t
           /\ t < AddPeriods(s, "yearly", CycleCount(s, "yearly", t) + 1)
<1>. DEFINE m == MonthOf[s]
            k == MonthOf[t]
            y == k \div 12 - m \div 12
            A(i) == AddPeriods(s, "yearly", i)
<1>1. /\ m \in Nat /\ k \in Nat /\ m \in Months /\ k \in Months /\ k + 12 \in Months /\ m <= k
      /\ s \in Nat /\ t \in Nat
  BY DatesHaveMonths, MonthBounds, DatesInOrder
<1>2. YearOf(k) - YearOf(m) = y
  BY <1>1, CalendarConstants DEF YearOf
<1>3. CycleCount(s, "yearly", t) = IF A(y) > t THEN y - 1 ELSE y
  BY <1>2 DEF CycleCount
<1>4. /\ y \in Nat /\ m + 12 * y <= k + 11 /\ k < m + 12 * (y + 1)
      /\ m + 12 * (y - 1) < k
  BY <1>1
<1>. HIDE DEF y, m, k
<1>5. \A i \in Nat : m + 12 * i <= k + 12 => i \in YearsFrom(s)
  <2>. TAKE i \in Nat
  <2>. HAVE m + 12 * i <= k + 12
  <2>1. m + 12 * i \in Months
    BY <1>1, MonthsAre
  <2> QED BY <2>1 DEF YearsFrom, m
<1>6. y \in YearsFrom(s)
  BY <1>1, <1>4, <1>5
<1>7. \A i \in YearsFrom(s) : /\ A(i) \in Dates /\ A(i) \in Nat /\ MonthOf[A(i)] = m + 12 * i
                              /\ m + 12 * i < k => A(i) < t
                              /\ k < m + 12 * i => t < A(i)
                              /\ A(i) <= t => m + 12 * i <= k
  <2>. TAKE i \in YearsFrom(s)
  <2>1. A(i) \in Dates /\ A(i) \in Nat /\ MonthOf[A(i)] = m + 12 * i
    BY YearlyIs DEF m
  <2> QED BY <2>1, DatesInOrder DEF k
<1>8. A(0) = s
  BY YearlyIs
<1>. HIDE DEF A
<1>9. CASE A(y) > t
  <2>1. y # 0
    BY <1>1, <1>8, <1>9
  <2>2. y - 1 \in Nat /\ m + 12 * (y - 1) <= k + 12 /\ (y - 1) + 1 = y
    BY <1>1, <1>4, <2>1
  <2>3. y - 1 \in YearsFrom(s)
    BY <1>5, <2>2
  <2>4. A(y - 1) <= t
    BY <1>1, <1>4, <1>7, <2>3
  <2>5. CycleCount(s, "yearly", t) = y - 1
    BY <1>3, <1>9
  <2> QED BY <1>6, <1>9, <2>2, <2>3, <2>4, <2>5 DEF A
<1>10. CASE ~(A(y) > t)
  <2>1. A(y) <= t
    BY <1>1, <1>6, <1>7, <1>10
  <2>2. m + 12 * y <= k
    BY <1>6, <1>7, <2>1
  <2>3. y + 1 \in Nat /\ m + 12 * (y + 1) <= k + 12
    BY <1>1, <1>4, <2>2
  <2>4. y + 1 \in YearsFrom(s)
    BY <1>5, <2>3
  <2>5. t < A(y + 1)
    BY <1>4, <1>7, <2>4
  <2>6. CycleCount(s, "yearly", t) = y
    BY <1>3, <1>10
  <2> QED BY <1>6, <2>1, <2>4, <2>5, <2>6 DEF A
<1> QED BY <1>9, <1>10

(* The cycles of a budget tile time. *)
LEMMA BudgetsTile ==
    ASSUME NEW t \in Dates, t + 1 \in Dates, MonthOf[t] + 12 \in Months, MonthOf[t + 1] + 12 \in Months,
           NEW b \in Budgets, Begun(b, t)
    PROVE  Follows(BudgetCycle(b, t), BudgetCycle(b, t + 1), t)
<1>1. /\ b.start \in Dates /\ b.start \in Nat /\ t \in Nat /\ b.start <= t
      /\ b.period \in {"weekly", "monthly", "yearly"}
  BY ProjectionsConstants, DatesHaveMonths DEF Begun
<1>2. CASE b.period = "monthly"
  <2>. DEFINE m == MonthOf[t]
              n == MonthOf[t + 1]
  <2>1. /\ m \in Months /\ n \in Months
        /\ n = m \/ (n = m + 1 /\ t = LastOf[m])
    BY NextDay
  <2>2. FirstOf[m] <= t /\ t <= LastOf[m] /\ LastOf[m] \in Nat
    BY DatesHaveMonths, MonthBounds
  <2>3. BudgetCycle(b, t) = MonthWindow(m) /\ BudgetCycle(b, t + 1) = MonthWindow(n)
    BY <1>2 DEF BudgetCycle
  <2>. HIDE DEF m, n
  <2>4. ASSUME n = m + 1 PROVE FirstOf[n] = LastOf[m] + 1
    <3>1. m + 1 \in Months
      BY <2>1, <2>4
    <3>2. FirstOf[m + 1] = LastOf[m] + 1
      BY <2>1, <3>1, MonthFollows
    <3> QED BY <2>4, <3>2
  <2> QED BY <2>1, <2>2, <2>3, <2>4 DEF Follows, Within, MonthWindow, Window
<1>3. CASE b.period = "weekly"
  <2>. DEFINE s == b.start
              f == [i \in Nat |-> s + 7 * i]
              n == CycleCount(s, "weekly", t)
              q == CycleCount(s, "weekly", t + 1)
  <2>1. \A i \in Nat : f[i] \in Int /\ f[i] = AddPeriods(s, "weekly", i)
    BY <1>1 DEF AddPeriods
  <2>2. \A i, j \in Nat : i < j => f[i] < f[j]
    BY <1>1
  <2>3. /\ n \in Nat /\ AddPeriods(s, "weekly", n) <= t /\ t < AddPeriods(s, "weekly", n + 1)
        /\ q \in Nat /\ AddPeriods(s, "weekly", q) <= t + 1 /\ t + 1 < AddPeriods(s, "weekly", q + 1)
    <3>1. s \in Nat /\ t + 1 \in Nat /\ s <= t /\ s <= t + 1
      BY <1>1
    <3>. HIDE DEF s, n, q
    <3>2. n \in Nat /\ AddPeriods(s, "weekly", n) <= t /\ t < AddPeriods(s, "weekly", n + 1)
      BY <1>1, <3>1, WeeklyCount DEF n
    <3>3. q \in Nat /\ AddPeriods(s, "weekly", q) <= t + 1 /\ t + 1 < AddPeriods(s, "weekly", q + 1)
      BY <3>1, WeeklyCount DEF q
    <3> QED BY <3>2, <3>3
  <2>4. /\ BudgetCycle(b, t) = Window(AddPeriods(s, "weekly", n), AddPeriods(s, "weekly", n + 1) - 1)
        /\ BudgetCycle(b, t + 1) = Window(AddPeriods(s, "weekly", q), AddPeriods(s, "weekly", q + 1) - 1)
    BY <1>3 DEF BudgetCycle
  <2>. HIDE DEF f, n, q, s
  <2>5. n + 1 \in Nat /\ q + 1 \in Nat
    BY <2>3
  <2>6. f[n] <= t /\ t < f[n + 1] /\ f[q] <= t + 1 /\ t + 1 < f[q + 1]
    BY <2>1, <2>3, <2>5
  <2>7. q = n \/ (q = n + 1 /\ t + 1 = f[n + 1])
    BY <1>1, <2>1, <2>2, <2>3, <2>5, <2>6, CountsFollow
  <2>8. /\ BudgetCycle(b, t).start = f[n] /\ BudgetCycle(b, t).end = f[n + 1] - 1
        /\ BudgetCycle(b, t + 1).start = f[q] /\ BudgetCycle(b, t + 1).end = f[q + 1] - 1
    BY <2>1, <2>3, <2>4, <2>5 DEF Window
  <2>9. f[n] \in Int /\ f[n + 1] \in Int
    BY <2>1, <2>3, <2>5
  <2> QED BY <1>1, <2>6, <2>7, <2>8, <2>9 DEF Follows, Within
<1>4. CASE b.period = "yearly"
  <2>. DEFINE s == b.start
              Y == YearsFrom(s)
              f == [i \in Y |-> AddPeriods(s, "yearly", i)]
              n == CycleCount(s, "yearly", t)
              q == CycleCount(s, "yearly", t + 1)
  <2>1. Y \in SUBSET Nat /\ \A i \in Y : f[i] \in Int /\ f[i] = AddPeriods(s, "yearly", i)
    BY <1>1, YearlyIs DEF YearsFrom
  <2>2. \A i, j \in Y : i < j => f[i] < f[j]
    BY <1>1, YearlyIs
  <2>3. /\ n \in Y /\ n + 1 \in Y
        /\ AddPeriods(s, "yearly", n) <= t /\ t < AddPeriods(s, "yearly", n + 1)
    BY <1>1, YearlyCount
  <2>4. /\ q \in Y /\ q + 1 \in Y
        /\ AddPeriods(s, "yearly", q) <= t + 1 /\ t + 1 < AddPeriods(s, "yearly", q + 1)
    BY <1>1, YearlyCount
  <2>5. /\ BudgetCycle(b, t) = Window(AddPeriods(s, "yearly", n), AddPeriods(s, "yearly", n + 1) - 1)
        /\ BudgetCycle(b, t + 1) = Window(AddPeriods(s, "yearly", q), AddPeriods(s, "yearly", q + 1) - 1)
    BY <1>4 DEF BudgetCycle
  <2>. HIDE DEF f, n, q, s, Y
  <2>6. f[n] <= t /\ t < f[n + 1] /\ f[q] <= t + 1 /\ t + 1 < f[q + 1]
    BY <2>1, <2>3, <2>4
  <2>7. q = n \/ (q = n + 1 /\ t + 1 = f[n + 1])
    BY <1>1, <2>1, <2>2, <2>3, <2>4, <2>6, CountsFollow
  <2>8. /\ BudgetCycle(b, t).start = f[n] /\ BudgetCycle(b, t).end = f[n + 1] - 1
        /\ BudgetCycle(b, t + 1).start = f[q] /\ BudgetCycle(b, t + 1).end = f[q + 1] - 1
    BY <2>1, <2>3, <2>4, <2>5 DEF Window
  <2>9. f[n] \in Int /\ f[n + 1] \in Int
    BY <2>1, <2>3
  <2> QED BY <1>1, <2>6, <2>7, <2>8, <2>9 DEF Follows, Within
<1> QED BY <1>1, <1>2, <1>3, <1>4

-----------------------------------------------------------------------------
(* Windows of the statistics *)

(* A statistic ranges from the first of a month to a day of this one. *)
LEMMA RangeIs ==
    ASSUME NEW t \in Dates, MonthOf[t] - 11 \in Months, NEW preset \in Presets
    PROVE  \E k \in Months, e \in Dates :
               /\ MonthOf[e] = MonthOf[t] /\ k <= MonthOf[t]
               /\ ResolveRange(preset, MonthOf[t], t) = Window(FirstOf[k], e)
<1>. DEFINE m == MonthOf[t]
<1>1. m \in Months /\ m \in Nat /\ m - 11 \in Months
  BY DatesHaveMonths, MonthBounds
<1>2. CASE preset = "month"
  <2>1. LastOf[m] \in FirstOf[m] .. LastOf[m]
    BY <1>1, MonthBounds
  <2>2. LastOf[m] \in Dates /\ MonthOf[LastOf[m]] = m
    BY <1>1, <2>1, DaysOfMonth
  <2>3. ResolveRange(preset, m, t) = Window(FirstOf[m], LastOf[m])
    BY <1>2 DEF ResolveRange, MonthWindow
  <2> QED BY <1>1, <2>2, <2>3
<1>3. CASE preset = "ytd"
  <2>. DEFINE k == 12 * (m \div 12)
  <2>1. k \in Nat /\ k <= m
    BY <1>1
  <2>2. ResolveRange(preset, m, t) = Window(FirstOf[k], t)
    BY <1>3 DEF ResolveRange
  <2>. HIDE DEF k
  <2>3. k \in Months
    BY <1>1, <2>1, MonthsAre
  <2> QED BY <2>1, <2>2, <2>3
<1>4. CASE preset \in {"3m", "6m", "12m"}
  <2>. DEFINE k == m - (MonthsOf(preset) - 1)
  <2>1. MonthsOf(preset) \in {3, 6, 12}
    BY <1>4 DEF MonthsOf
  <2>2. ResolveRange(preset, m, t) = Window(FirstOf[k], t)
    BY <1>4 DEF ResolveRange
  <2>3. k \in Int /\ m - 11 <= k /\ k <= m
    BY <1>1, <2>1
  <2>. HIDE DEF k
  <2>4. k \in Months
    BY <1>1, <2>3, MonthsAre
  <2> QED BY <2>2, <2>3, <2>4
<1> QED BY <1>2, <1>3, <1>4 DEF Presets

(* A month starts no later than a day of it or of a later one. *)
LEMMA StartsBefore ==
    ASSUME NEW k \in Months, NEW e \in Dates, k <= MonthOf[e]
    PROVE  FirstOf[k] \in Int /\ e \in Int /\ FirstOf[k] <= e
<1>. DEFINE m == MonthOf[e]
<1>1. /\ m \in Months /\ m \in Nat /\ k \in Nat /\ e \in Nat /\ FirstOf[m] <= e /\ FirstOf[m] \in Nat
      /\ FirstOf[k] \in Nat /\ LastOf[k] \in Nat /\ FirstOf[k] <= LastOf[k]
  BY DatesHaveMonths, MonthBounds
<1>2. k < m => LastOf[k] < FirstOf[m]
  BY <1>1, MonthsApart
<1> QED BY <1>1, <1>2

(* The range a statistic is compared with tiles with it. *)
LEMMA RangesDo ==
    ASSUME TwoOffsets, NEW t \in Dates, MonthOf[t] - 11 \in Months
    PROVE  RangesTile(t)
<1>. SUFFICES ASSUME NEW preset \in Presets
              PROVE  LET range == ResolveRange(preset, MonthOf[t], t)
                         prev  == PreviousRange(range)
                     IN  NoSpringForward(Window(prev.start - 1, range.end)) =>
                             /\ prev.end + 1 = range.start
                             /\ prev.end - prev.start = range.end - range.start
  BY DEF RangesTile
<1>1. PICK k \in Months, e \in Dates : /\ MonthOf[e] = MonthOf[t] /\ k <= MonthOf[t]
                                       /\ ResolveRange(preset, MonthOf[t], t) = Window(FirstOf[k], e)
  BY RangeIs
<1>2. FirstOf[k] \in Int /\ e \in Int /\ FirstOf[k] <= e
  BY <1>1, StartsBefore
<1>3. Window(FirstOf[k], e).start = FirstOf[k] /\ Window(FirstOf[k], e).end = e
  BY DEF Window
<1> QED BY <1>1, <1>2, <1>3, PreviousTiles

(* Dates from a first to a last, none more than 31 days after the one before. *)
NoGap(dates, first, last) ==
    /\ last \in dates /\ \A d \in dates : first <= d /\ d <= last
    /\ \A d \in dates \ {last} : \E f \in dates : d < f /\ f <= d + 31

(* The ends of the months of a range. *)
LEMMA MonthEndsCover ==
    ASSUME NEW k \in Months, NEW e \in Dates, k <= MonthOf[e]
    PROVE  NoGap(MonthEndDates(Window(FirstOf[k], e)), FirstOf[k], e)
<1>. DEFINE n == MonthOf[e]
            dates == MonthEndDates(Window(FirstOf[k], e))
<1>1. /\ n \in Months /\ n \in Nat /\ k \in Nat /\ e \in Nat
      /\ FirstOf[n] <= e /\ e <= LastOf[n] /\ FirstOf[k] \in Nat /\ FirstOf[k] <= e
  BY DatesHaveMonths, MonthBounds, StartsBefore
<1>2. ASSUME NEW m \in k .. n, m # n
      PROVE  /\ m \in Months /\ m + 1 \in Months /\ m + 1 \in k .. n
             /\ LastOf[m] \in Nat /\ FirstOf[k] <= LastOf[m] /\ LastOf[m] < e
             /\ FirstOf[m + 1] = LastOf[m] + 1
             /\ LastOf[m] < LastOf[m + 1] /\ LastOf[m + 1] <= LastOf[m] + 31
  <2>1. m \in Nat /\ m + 1 \in k .. n /\ m < n /\ m <= n /\ m + 1 <= n
    BY <1>1, <1>2
  <2>2. m \in Months /\ m + 1 \in Months
    BY <1>1, <2>1, MonthsAre
  <2>3. LastOf[m] \in Nat /\ LastOf[m] < e
    <3>1. LastOf[m] < FirstOf[n]
      BY <1>1, <2>1, <2>2, MonthsApart
    <3> QED BY <1>1, <2>2, <3>1, MonthBounds
  <2>4. FirstOf[m + 1] = LastOf[m] + 1
    BY <2>2, MonthFollows
  <2>5. LastOf[m] < LastOf[m + 1] /\ LastOf[m + 1] <= LastOf[m] + 31
    <3>1. MonthLength[m + 1] \in 28 .. 31 /\ LastOf[m + 1] = FirstOf[m + 1] + MonthLength[m + 1] - 1
      BY <2>2, MonthBounds
    <3> QED BY <2>3, <2>4, <3>1
  <2>6. FirstOf[k] <= LastOf[m]
    <3>1. LastOf[m] \in FirstOf[m] .. LastOf[m]
      BY <2>2, MonthBounds
    <3>2. LastOf[m] \in Dates /\ MonthOf[LastOf[m]] = m
      BY <2>2, <3>1, DaysOfMonth
    <3>3. k <= m
      BY <1>1
    <3> QED BY <3>2, <3>3, StartsBefore
  <2> QED BY <2>1, <2>2, <2>3, <2>4, <2>5, <2>6
<1>3. dates = {LastOf[m] : m \in (k .. n) \ {n}} \cup {e}
  <2>1. FirstOf[k] \in FirstOf[k] .. LastOf[k]
    BY MonthBounds
  <2>2. MonthOf[FirstOf[k]] = k
    BY <2>1, DaysOfMonth
  <2> QED BY <2>2 DEF MonthEndDates, RangeMonths, Window
<1>. HIDE DEF n, dates
<1>4. ASSUME NEW d \in dates PROVE FirstOf[k] <= d /\ d <= e
  <2>1. CASE d = e
    BY <1>1, <2>1
  <2>2. CASE d # e
    <3>1. PICK m \in k .. n : m # n /\ d = LastOf[m]
      BY <1>3, <2>2
    <3> QED BY <1>1, <1>2, <3>1
  <2> QED BY <2>1, <2>2
<1>5. ASSUME NEW d \in dates, d # e PROVE \E f \in dates : d < f /\ f <= d + 31
  <2>1. PICK m \in k .. n : m # n /\ d = LastOf[m]
    BY <1>3, <1>5
  <2>2. /\ m + 1 \in k .. n /\ LastOf[m] \in Nat /\ LastOf[m] < e
        /\ LastOf[m] < LastOf[m + 1] /\ LastOf[m + 1] <= LastOf[m] + 31
    BY <1>2, <2>1
  <2>3. CASE m + 1 = n
    <3>1. e <= LastOf[m + 1] /\ LastOf[m + 1] \in Nat
      BY <1>1, <2>3, MonthBounds
    <3>2. d < e /\ e <= d + 31
      BY <1>1, <2>1, <2>2, <3>1
    <3> QED BY <1>3, <3>2
  <2>4. CASE m + 1 # n
    <3>1. LastOf[m + 1] \in dates
      BY <1>3, <2>2, <2>4
    <3> QED BY <2>1, <2>2, <3>1
  <2> QED BY <2>3, <2>4
<1> QED BY <1>3, <1>4, <1>5 DEF NoGap, dates

(* The weeks of a range, and its ends. *)
WeekDates(s, e) == {s, e} \cup {DateAt(Midnight(s) + 168 * n) : n \in Weeks(Window(s, e))}

(* The weeks of a range in which the clock is not changed. *)
LEMMA WeeksCover ==
    ASSUME TwoOffsets, NEW s \in Int, NEW e \in Int, s <= e, e - s <= 69,
           NoClockChange(Window(s, e))
    PROVE  NoGap(WeekDates(s, e), s, e)
<1>. DEFINE dates == WeekDates(s, e)
<1>1. Midnight(s) \in Int /\ Midnight(e) = Midnight(s) + 24 * (e - s)
  <2>1. e \in s .. e
    OBVIOUS
  <2> QED BY <2>1, ClockSteady, MidnightIs
<1>2. Weeks(Window(s, e)) = {n \in 1 .. 10 : 7 * n < e - s}
  <2>1. ASSUME NEW n \in 1 .. 10 PROVE Midnight(s) + 168 * n < Midnight(e) <=> 7 * n < e - s
    BY <1>1
  <2> QED BY <2>1 DEF Weeks, Window
<1>3. ASSUME NEW n \in 1 .. 10, 7 * n < e - s PROVE DateAt(Midnight(s) + 168 * n) = s + 7 * n
  <2>1. s + 7 * n \in s .. e /\ s + 7 * n + 1 \in s .. e
    BY <1>3
  <2>2. /\ Midnight(s + 7 * n) = Midnight(s) + 24 * ((s + 7 * n) - s)
        /\ Midnight(s + 7 * n + 1) = Midnight(s) + 24 * ((s + 7 * n + 1) - s)
    BY <2>1, ClockSteady
  <2>3. /\ Midnight(s + 7 * n) <= Midnight(s) + 168 * n
        /\ Midnight(s) + 168 * n < Midnight(s + 7 * n + 1)
        /\ Midnight(s) + 168 * n \in Int /\ s + 7 * n \in Int
    BY <1>1, <2>2
  <2> QED BY <2>3, DateAtIs
<1>4. dates = {s, e} \cup {s + 7 * n : n \in {x \in 1 .. 10 : 7 * x < e - s}}
  <2>. DEFINE W == {x \in 1 .. 10 : 7 * x < e - s}
  <2>1. \A n \in W : DateAt(Midnight(s) + 168 * n) = s + 7 * n
    BY <1>3
  <2>2. dates = {s, e} \cup {DateAt(Midnight(s) + 168 * n) : n \in W}
    BY <1>2 DEF WeekDates
  <2>. HIDE DEF W, dates
  <2>3. {DateAt(Midnight(s) + 168 * n) : n \in W} = {s + 7 * n : n \in W}
    BY <2>1
  <2> QED BY <2>2, <2>3 DEF W
<1>. HIDE DEF dates
<1>5. ASSUME NEW d \in dates PROVE s <= d /\ d <= e
  <2>1. CASE d \in {s, e}
    BY <2>1
  <2>2. CASE d \notin {s, e}
    <3>1. PICK n \in 1 .. 10 : 7 * n < e - s /\ d = s + 7 * n
      BY <1>4, <2>2
    <3> QED BY <3>1
  <2> QED BY <2>1, <2>2
<1>6. ASSUME NEW d \in dates, d # e PROVE \E f \in dates : d < f /\ f <= d + 31
  <2>1. PICK n \in 0 .. 10 : 7 * n < e - s /\ d = s + 7 * n
    <3>1. CASE d = s
      BY <1>6, <3>1
    <3>2. CASE d # s
      <4>1. PICK n \in 1 .. 10 : 7 * n < e - s /\ d = s + 7 * n
        BY <1>4, <1>6, <3>2
      <4> QED BY <4>1
    <3> QED BY <3>1, <3>2
  <2>2. CASE 7 * (n + 1) < e - s
    <3>1. n + 1 \in 1 .. 10
      BY <2>2
    <3>2. s + 7 * (n + 1) \in dates
      BY <1>4, <2>2, <3>1
    <3>3. d < s + 7 * (n + 1) /\ s + 7 * (n + 1) <= d + 31
      BY <2>1
    <3> QED BY <3>2, <3>3
  <2>3. CASE ~(7 * (n + 1) < e - s)
    <3>1. d < e /\ e <= d + 31
      BY <2>1, <2>3
    <3> QED BY <1>4, <3>1
  <2> QED BY <2>2, <2>3
<1> QED BY <1>4, <1>5, <1>6 DEF NoGap, dates

(* The snapshots of a statistic leave no gap. *)
LEMMA SnapshotsDo ==
    ASSUME TwoOffsets, NEW t \in Dates, MonthOf[t] - 11 \in Months
    PROVE  SnapshotsCover(t)
<1>. SUFFICES ASSUME NEW preset \in Presets
              PROVE  LET range == ResolveRange(preset, MonthOf[t], t)
                         dates == SnapshotDates(range)
                     IN  NoClockChange(range) =>
                             /\ range.end \in dates /\ \A d \in dates : Within(d, range)
                             /\ \A d \in dates \ {range.end} : \E e \in dates : d < e /\ e <= d + 31
  BY DEF SnapshotsCover
<1>1. PICK k \in Months, e \in Dates : /\ MonthOf[e] = MonthOf[t] /\ k <= MonthOf[t]
                                       /\ ResolveRange(preset, MonthOf[t], t) = Window(FirstOf[k], e)
  BY RangeIs
<1>. DEFINE s == FirstOf[k]
            r == Window(s, e)
            dates == SnapshotDates(r)
<1>2. s \in Int /\ e \in Int /\ s <= e /\ r.start = s /\ r.end = e /\ MonthOf[s] = k
  <2>1. FirstOf[k] \in FirstOf[k] .. LastOf[k]
    BY MonthBounds
  <2> QED BY <1>1, <2>1, StartsBefore, DaysOfMonth DEF Window
<1>3. RangeDays(r) = e - s + 1
  BY <1>2, LengthIs DEF RangeDays
<1>4. NoClockChange(r) => NoGap(dates, s, e)
  <2>. HAVE NoClockChange(r)
  <2>1. CASE RangeDays(r) > 70
    <3>1. dates = MonthEndDates(Window(s, e))
      BY <2>1 DEF SnapshotDates
    <3> QED BY <1>1, <3>1, MonthEndsCover
  <2>2. CASE ~(RangeDays(r) > 70)
    <3>1. dates = WeekDates(s, e)
      BY <1>2, <2>2 DEF SnapshotDates, WeekDates
    <3>2. e - s <= 69
      BY <1>2, <1>3, <2>2
    <3>3. NoGap(WeekDates(s, e), s, e)
      BY <1>2, <3>2, WeeksCover
    <3> QED BY <3>1, <3>3
  <2> QED BY <2>1, <2>2
<1>. HIDE DEF dates, s
<1>5. NoGap(dates, s, e) => \A d \in dates : Within(d, r)
  BY <1>2 DEF Within, NoGap
<1> QED BY <1>1, <1>2, <1>4, <1>5 DEF NoGap, dates, s

-----------------------------------------------------------------------------
(* A year of windows *)

(* The calendar goes as far as the windows of a year from the clock's dates. *)
WindowsReach ==
    /\ \A s \in StartDays : MonthOf[s] - 11 \in Months
    /\ \A e \in LastDays : MonthOf[e] + 26 \in Months

(* The days of a year from a midnight have their windows in the calendar. *)
LEMMA WindowDays ==
    ASSUME ClockInv, WindowsReach, LocalMidnight, NEW t \in local .. local + 365
    PROVE  /\ t \in Dates /\ t + 1 \in Dates
           /\ MonthOf[t] - 11 \in Months /\ MonthOf[t] + 12 \in Months /\ MonthOf[t + 1] + 12 \in Months
<1>1. PICK s \in StartDays : s <= local
  BY DEF ClockInv
<1>2. PICK e \in LastDays : utc <= e
  BY DEF ClockInv
<1>3. /\ s \in Dates /\ e \in Dates /\ utc \in Dates /\ s \in Nat /\ e \in Nat /\ utc \in Nat
      /\ local \in Int /\ local < utc /\ t \in Int
  BY CalendarReaches, DatesHaveMonths DEF ClockInv, LocalMidnight
<1>. DEFINE m == MonthOf[e]
            n == MonthOf[s]
<1>4. /\ m \in Months /\ m \in Nat /\ n \in Months /\ n \in Nat /\ e <= LastOf[m]
      /\ n - 11 \in Months /\ m + 26 \in Months
  BY <1>3, DatesHaveMonths, MonthBounds DEF WindowsReach
<1>. HIDE DEF m, n
<1>5. m + 14 \in Months
  BY <1>4, MonthsAre
<1>6. /\ LastOf[m + 14] \in Nat /\ LastOf[m] \in Nat /\ LastOf[m] + 365 <= LastOf[m + 14]
      /\ LastOf[m + 14] \in Dates /\ MonthOf[LastOf[m + 14]] = m + 14
  <2>1. LastOf[m + 14] \in FirstOf[m + 14] .. LastOf[m + 14]
    BY <1>5, MonthBounds
  <2> QED BY <1>4, <1>5, <2>1, YearFits, MonthsLong, DaysOfMonth
<1>7. s <= t /\ s <= t + 1 /\ t <= LastOf[m + 14] /\ t + 1 <= LastOf[m + 14] /\ t + 1 \in Int
  BY <1>1, <1>2, <1>3, <1>4, <1>6
<1>8. t \in Dates /\ t + 1 \in Dates
  BY <1>3, <1>6, <1>7, DatesBetween
<1>9. /\ n <= MonthOf[t] /\ MonthOf[t] <= m + 14 /\ MonthOf[t + 1] <= m + 14 /\ n <= MonthOf[t + 1]
  BY <1>3, <1>6, <1>7, <1>8, DatesInOrder DEF n
<1>10. MonthOf[t] \in Nat /\ MonthOf[t + 1] \in Nat /\ MonthOf[t] \in Months /\ MonthOf[t + 1] \in Months
  BY <1>8, DatesHaveMonths, MonthBounds
<1>11. MonthOf[t] - 11 \in Months /\ MonthOf[t] + 12 \in Months /\ MonthOf[t + 1] + 12 \in Months
  BY <1>4, <1>9, <1>10, MonthsAre
<1> QED BY <1>8, <1>11

(* The windows tile at each day that has them in the calendar. *)
LEMMA WindowsDo ==
    ASSUME TwoOffsets, NEW t \in Dates, t + 1 \in Dates,
           MonthOf[t] - 11 \in Months, MonthOf[t] + 12 \in Months, MonthOf[t + 1] + 12 \in Months
    PROVE  WindowsTileAt(t)
<1>1. MonthOf[t] - 2 \in Months /\ MonthOf[t] + 2 \in Months
  <2>1. MonthOf[t] \in Nat
    BY DatesHaveMonths, MonthBounds
  <2> QED BY <2>1, MonthsAre
<1>2. ASSUME NEW cut \in CutDays, NEW due \in DueDays PROVE CardCyclesTile(cut, due, t)
  <2>1. cut \in 1 .. 31 /\ due \in 1 .. 31
    BY ProjectionsConstants
  <2> QED BY <1>1, <2>1, CardsTile
<1>3. ASSUME NEW b \in Budgets, Begun(b, t) PROVE Follows(BudgetCycle(b, t), BudgetCycle(b, t + 1), t)
  BY <1>3, BudgetsTile
<1>4. RangesTile(t) /\ SnapshotsCover(t)
  BY RangesDo, SnapshotsDo
<1> QED BY <1>2, <1>3, <1>4 DEF WindowsTileAt

(* In every behaviour the windows tile time: on each day of the year from a midnight the   *)
(* cycles of the cards and the budgets go on or are followed without a gap or an overlap,  *)
(* what a card gathers falls due after its cut and in order, and the ranges and snapshots  *)
(* of the statistics leave no gap, unless the clock springs forward -- for every card, set *)
(* of budgets and calendar (lib/credit-card-cycle.ts:37, lib/budget-period.ts:38,          *)
(* lib/stats-range.ts:82).                                                                 *)
THEOREM WindowsAlwaysTile == ASSUME WindowsReach, TwoOffsets PROVE Spec => WindowsTile
<1>. DEFINE Tiled == LocalMidnight /\ Untouched => \A today \in local .. local + 365 : WindowsTileAt(today)
<1>1. ASSUME ScheduleInv PROVE Tiled
  <2>1. ASSUME LocalMidnight, NEW t \in local .. local + 365 PROVE WindowsTileAt(t)
    <3>1. ClockInv
      BY <1>1 DEF ScheduleInv
    <3> QED BY <2>1, <3>1, WindowDays, WindowsDo
  <2> QED BY <2>1
<1>2. ScheduleInv => [Tiled]_vars
  BY <1>1
<1>3. Spec => []ScheduleInv
  BY SchedulesInvariant
<1> QED BY <1>2, <1>3, PTL DEF WindowsTile
=============================================================================
