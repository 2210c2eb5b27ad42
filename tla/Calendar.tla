------------------------------ MODULE Calendar ------------------------------
(***************************************************************************)
(* Civil dates.  A date is the number of days since 1 January of FirstYear *)
(* and a month the number of months since then: dates compare as the       *)
(* program's YYYY-MM-DD strings do.  Dates are computed in UTC on the      *)
(* server and, mostly, in the browser's zone on the client; the days on    *)
(* which that zone changes its clock are ShortDays and LongDays.           *)
(***************************************************************************)
EXTENDS Integers, FiniteSets

CONSTANTS
    FirstYear, YearCount,   \* the years the calendar spans
    ShortDays, LongDays     \* dates of 23 and of 25 hours in the browser's zone

ASSUME CalendarConstants ==
    /\ FirstYear \in Nat /\ YearCount \in Nat \ {0}
    /\ ShortDays \subseteq Nat /\ LongDays \subseteq Nat
    /\ ShortDays \cap LongDays = {}

Months == 0 .. 12 * YearCount - 1

YearOf(m) == FirstYear + m \div 12

IsLeap(y) == y % 4 = 0 /\ (y % 100 # 0 \/ y % 400 = 0)

MonthLength ==
    [m \in Months |->
        CASE m % 12 = 1 -> IF IsLeap(YearOf(m)) THEN 29 ELSE 28
          [] m % 12 \in {3, 5, 8, 10} -> 30
          [] OTHER -> 31]

FirstDays[m \in Months] ==
    IF m = 0 THEN 0 ELSE FirstDays[m - 1] + MonthLength[m - 1]

FirstOf == [m \in Months |-> FirstDays[m]]
LastOf  == [m \in Months |-> FirstDays[m] + MonthLength[m] - 1]

Dates == 0 .. LastOf[12 * YearCount - 1]

MonthOf == [d \in Dates |-> CHOOSE m \in Months : d \in FirstOf[m] .. LastOf[m]]

DayOf(d) == d - FirstOf[MonthOf[d]] + 1

(* The day of a month, or its last one when the month is shorter. *)
Clamped(m, day) == FirstOf[m] + (IF day < MonthLength[m] THEN day ELSE MonthLength[m]) - 1

-----------------------------------------------------------------------------
(* A local midnight, in hours; and the local date of an instant. *)
Before(days, d) == Cardinality({x \in days : x < d})

Midnight(d) == 24 * d - Before(ShortDays, d) + Before(LongDays, d)

DateAt(hour) ==
    CHOOSE d \in (hour \div 24) - 2 .. (hour \div 24) + 2 :
        Midnight(d) <= hour /\ hour < Midnight(d + 1)

(* Math.round of a quotient of integers. *)
RoundDiv(a, b) == (2 * a + b) \div (2 * b)
=============================================================================
