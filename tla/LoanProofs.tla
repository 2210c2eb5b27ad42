----------------------------- MODULE LoanProofs -----------------------------
(* Proofs about Loans: whatever the order in which payments are made and      *)
(* undone, the debt, the schedule, the numbers of the payments and the        *)
(* expenses agree (LoanInv); and what is pending is the schedule the engine   *)
(* makes of what is owed, as it was before an event that is undone and as the *)
(* calculator announced it before an extra payment (PlanInv).                 *)
EXTENDS Loans, TotalProofs

-----------------------------------------------------------------------------
(* Lists *)

(* The lists of the model are sequences. *)
IsSequence(s) ==
    /\ Len(s) \in Nat /\ DOMAIN s = 1 .. Len(s)
    /\ s = [i \in 1 .. Len(s) |-> s[i]]

(* A function on 1 .. n is a sequence of that length. *)
LEMMA SequenceOf ==
    ASSUME NEW S, NEW n \in Nat, NEW s \in [1 .. n -> S]
    PROVE  IsSequence(s) /\ Len(s) = n /\ s \in Seq(S)
<1>1. s \in Seq(S)
  BY SeqDef
<1>2. Len(s) = n
  BY <1>1, LenProperties
<1> QED BY <1>1, <1>2 DEF IsSequence

(* What the library says of the sequences over a set holds of every list. *)
LEMMA ListOf ==
    ASSUME NEW s, IsSequence(s), NEW S, \A i \in 1 .. Len(s) : s[i] \in S
    PROVE  s \in Seq(S)
<1>. DEFINE n == Len(s)
<1>1. n \in Nat /\ s \in [1 .. n -> S]
  BY DEF IsSequence
<1>. HIDE DEF n
<1> QED BY <1>1, SequenceOf

(* And conversely. *)
LEMMA OfSequences == ASSUME NEW S, NEW s \in Seq(S) PROVE IsSequence(s)
  BY LenProperties DEF IsSequence

(* The empty list. *)
LEMMA NoList ==
    /\ IsSequence(<<>>) /\ Len(<<>>) = 0 /\ DOMAIN <<>> = {}
    /\ \A s : IsSequence(s) => (s = <<>> <=> Len(s) = 0)
<1>1. \A S : <<>> \in Seq(S) /\ Len(<<>>) = 0 /\ DOMAIN <<>> = {}
  BY EmptySeq
<1>2. IsSequence(<<>>)
  BY <1>1, OfSequences
<1>3. ASSUME NEW s, IsSequence(s), Len(s) = 0 PROVE s = <<>>
  <2>. DEFINE S == {s[i] : i \in 1 .. Len(s)}
  <2>1. s \in Seq(S)
    BY <1>3, ListOf
  <2> QED BY <1>3, <2>1, EmptySeq
<1> QED BY <1>1, <1>2, <1>3

(* An appended element comes last. *)
LEMMA Appended ==
    ASSUME NEW s, IsSequence(s), NEW e
    PROVE  /\ IsSequence(Append(s, e)) /\ Len(Append(s, e)) = Len(s) + 1
           /\ \A i \in 1 .. Len(s) : Append(s, e)[i] = s[i]
           /\ Append(s, e)[Len(s) + 1] = e
<1>. DEFINE S == {s[i] : i \in 1 .. Len(s)} \cup {e}
<1>1. s \in Seq(S) /\ e \in S
  BY ListOf
<1>. HIDE DEF S
<1>2. /\ Append(s, e) \in Seq(S) /\ Len(Append(s, e)) = Len(s) + 1
      /\ \A i \in 1 .. Len(s) : Append(s, e)[i] = s[i]
      /\ Append(s, e)[Len(s) + 1] = e
  BY <1>1, AppendProperties
<1>3. IsSequence(Append(s, e))
  BY <1>2, OfSequences
<1> QED BY <1>2, <1>3

(* An inserted element moves those after it by one place. *)
LEMMA Inserted ==
    ASSUME NEW s, IsSequence(s), NEW p \in 1 .. Len(s) + 1, NEW e
    PROVE  LET t == InsertAt(s, p, e)
           IN  /\ IsSequence(t) /\ Len(t) = Len(s) + 1
               /\ \A i \in 1 .. p - 1 : t[i] = s[i]
               /\ t[p] = e
               /\ \A i \in p + 1 .. Len(s) + 1 : t[i] = s[i - 1]
<1>. DEFINE S == {s[i] : i \in 1 .. Len(s)} \cup {e}
            a == SubSeq(s, 1, p - 1)
            b == SubSeq(s, p, Len(s))
            c == a \o <<e>>
<1>1. Len(s) \in Nat /\ s \in Seq(S) /\ e \in S /\ \A i \in 1 .. Len(s) : s[i] \in S
  BY ListOf DEF IsSequence
<1>. HIDE DEF S
<1>2. /\ a \in Seq(S) /\ Len(a) = p - 1 /\ \A i \in 1 .. p - 1 : a[i] = s[i]
  <2>1. 1 \in Int /\ p - 1 \in Int /\ \A i \in 1 .. p - 1 : s[i] \in S
    BY <1>1
  <2>2. /\ a \in Seq(S) /\ Len(a) = IF 1 <= p - 1 THEN (p - 1) - 1 + 1 ELSE 0
        /\ \A i \in 1 .. (p - 1) - 1 + 1 : a[i] = s[1 + i - 1]
    BY <2>1, SubSeqProperties
  <2>. HIDE DEF a
  <2> QED BY <2>2, <1>1
<1>3. /\ b \in Seq(S) /\ Len(b) = Len(s) + 1 - p /\ \A i \in 1 .. Len(s) + 1 - p : b[i] = s[p + i - 1]
  <2>1. p \in Int /\ Len(s) \in Int /\ \A i \in p .. Len(s) : s[i] \in S
    BY <1>1
  <2>2. /\ b \in Seq(S) /\ Len(b) = IF p <= Len(s) THEN Len(s) - p + 1 ELSE 0
        /\ \A i \in 1 .. Len(s) - p + 1 : b[i] = s[p + i - 1]
    BY <2>1, SubSeqProperties
  <2>. HIDE DEF b
  <2> QED BY <2>2, <1>1
<1>. HIDE DEF a, b
<1>4. <<e>> \in Seq(S) /\ Len(<<e>>) = 1 /\ <<e>>[1] = e
  BY <1>1
<1>5. /\ c \in Seq(S) /\ Len(c) = p /\ c[p] = e
      /\ \A i \in 1 .. p - 1 : c[i] = s[i]
  <2>. DEFINE w == <<e>>
  <2>0. w \in Seq(S) /\ Len(w) = 1 /\ w[1] = e
    BY <1>4
  <2>. HIDE DEF w
  <2>1. /\ a \o w \in Seq(S) /\ Len(a \o w) = Len(a) + Len(w)
        /\ \A i \in 1 .. Len(a) + Len(w) :
               (a \o w)[i] = IF i <= Len(a) THEN a[i] ELSE w[i - Len(a)]
    BY <1>2, <2>0, ConcatProperties
  <2>. DEFINE z == a \o w
  <2>2. z = c
    BY DEF w
  <2>. HIDE DEF z, c
  <2>3. /\ z \in Seq(S) /\ Len(z) = p
        /\ \A i \in 1 .. p : z[i] = IF i <= p - 1 THEN a[i] ELSE w[i - (p - 1)]
    BY <1>1, <1>2, <2>0, <2>1 DEF z
  <2>4. z[p] = e /\ \A i \in 1 .. p - 1 : z[i] = s[i]
    BY <1>1, <1>2, <2>0, <2>3
  <2> QED BY <2>2, <2>3, <2>4
<1>. HIDE DEF c
<1>6. /\ c \o b \in Seq(S) /\ Len(c \o b) = Len(c) + Len(b)
      /\ \A i \in 1 .. Len(c) + Len(b) : (c \o b)[i] = IF i <= Len(c) THEN c[i] ELSE b[i - Len(c)]
  BY <1>3, <1>5, ConcatProperties
<1>. DEFINE t == c \o b
<1>7. InsertAt(s, p, e) = t
  BY DEF InsertAt, a, b, c
<1>8. /\ t \in Seq(S) /\ Len(t) = Len(s) + 1
      /\ \A i \in 1 .. Len(s) + 1 : t[i] = IF i <= p THEN c[i] ELSE b[i - p]
  BY <1>1, <1>3, <1>5, <1>6
<1>. HIDE DEF t
<1>9. IsSequence(t)
  BY <1>8, OfSequences
<1>10. (\A i \in 1 .. p - 1 : t[i] = s[i]) /\ t[p] = e
  BY <1>1, <1>5, <1>8
<1>11. \A i \in p + 1 .. Len(s) + 1 : t[i] = s[i - 1]
  <2>. TAKE i \in p + 1 .. Len(s) + 1
  <2>1. t[i] = b[i - p] /\ i - p \in 1 .. Len(s) + 1 - p /\ p + (i - p) - 1 = i - 1
    BY <1>1, <1>8
  <2> QED BY <1>3, <2>1
<1> QED BY <1>7, <1>8, <1>9, <1>10, <1>11

(* A list without its last element. *)
LEMMA Fronts ==
    ASSUME NEW s, IsSequence(s), s # <<>>
    PROVE  /\ Len(s) \in Nat \ {0}
           /\ IsSequence(Front(s)) /\ Len(Front(s)) = Len(s) - 1
           /\ \A i \in 1 .. Len(s) - 1 : Front(s)[i] = s[i]
<1>. DEFINE S == {s[i] : i \in 1 .. Len(s)}
<1>1. Len(s) \in Nat \ {0}
  BY NoList DEF IsSequence
<1>2. \A i \in 1 .. Len(s) - 1 : s[i] \in S
  BY <1>1
<1>. HIDE DEF S
<1>3. /\ Front(s) \in Seq(S)
      /\ Len(Front(s)) = IF 1 <= Len(s) - 1 THEN (Len(s) - 1) - 1 + 1 ELSE 0
      /\ \A i \in 1 .. (Len(s) - 1) - 1 + 1 : Front(s)[i] = s[1 + i - 1]
  <2>1. 1 \in Int /\ Len(s) - 1 \in Int
    BY <1>1
  <2> QED BY <1>2, <2>1, SubSeqProperties DEF Front
<1>4. IsSequence(Front(s))
  BY <1>3, OfSequences
<1>. DEFINE t == Front(s)
            n == Len(s)
<1>5. /\ n \in Nat \ {0} /\ Len(t) = IF 1 <= n - 1 THEN (n - 1) - 1 + 1 ELSE 0
      /\ \A i \in 1 .. (n - 1) - 1 + 1 : t[i] = s[1 + i - 1]
  BY <1>1, <1>3
<1>. HIDE DEF t, n
<1>6. Len(t) = n - 1 /\ \A i \in 1 .. n - 1 : t[i] = s[i]
  <2>1. Len(t) = n - 1
    BY <1>5
  <2>2. ASSUME NEW i \in 1 .. n - 1 PROVE t[i] = s[i]
    <3>1. i \in 1 .. (n - 1) - 1 + 1 /\ 1 + i - 1 = i
      BY <1>5
    <3> QED BY <1>5, <3>1
  <2> QED BY <2>1, <2>2
<1> QED BY <1>1, <1>4, <1>6 DEF t, n

-----------------------------------------------------------------------------
(* The calendar *)

(* The months are the numbers below a multiple of twelve, each of 28 to 31 days. *)
LEMMA MonthsAre ==
    /\ YearCount \in Nat \ {0} /\ FirstYear \in Nat
    /\ \A m : m \in Months <=> m \in Nat /\ m < 12 * YearCount
    /\ 0 \in Months /\ 12 * YearCount - 1 \in Months
    /\ \A m \in Months : MonthLength[m] \in 28 .. 31
<1>1. YearCount \in Nat \ {0} /\ FirstYear \in Nat
  BY CalendarConstants
<1>2. \A m : m \in Months <=> m \in Nat /\ m < 12 * YearCount
  BY <1>1 DEF Months
<1>3. 0 \in Months /\ 12 * YearCount - 1 \in Months
  BY <1>1 DEF Months
<1>4. ASSUME NEW m \in Months PROVE MonthLength[m] \in 28 .. 31
  BY DEF MonthLength
<1> QED BY <1>1, <1>2, <1>3, <1>4

(* A month starts where the one before it ends. *)
LEMMA FirstDaysAre ==
    \A m \in Months : FirstDays[m] = SpanStart(FirstDays, MonthLength, m)
<1>. DEFINE n == 12 * YearCount
<1>1. n \in Nat /\ Months = 0 .. n - 1
  BY MonthsAre DEF Months
<1>2. FirstDays = CHOOSE g : g = [m \in Months |-> SpanStart(g, MonthLength, m)]
  BY Zenon DEF FirstDays, SpanStart
<1>3. \E g : g = [m \in Months |-> SpanStart(g, MonthLength, m)]
  <2>. HIDE DEF n
  <2>1. \E g : g = [m \in 0 .. n - 1 |-> SpanStart(g, MonthLength, m)]
    BY <1>1, SpansExist
  <2> QED BY <1>1, <2>1
<1>4. FirstDays = [m \in Months |-> SpanStart(FirstDays, MonthLength, m)]
  BY <1>2, <1>3, Zenon
<1> QED BY <1>4, Zenon

(* Months start later and later, each after the days of the ones before it; *)
(* and each day until the end of the last is in one of them.                *)
LEMMA MonthsInOrder ==
    /\ \A m, n \in Months : /\ FirstDays[m] \in Nat
                            /\ m < n => FirstDays[m] + MonthLength[m] <= FirstDays[n]
    /\ \A d \in Nat : d < FirstDays[12 * YearCount - 1] + MonthLength[12 * YearCount - 1] =>
           \E m \in Months : FirstDays[m] <= d /\ d < FirstDays[m] + MonthLength[m]
<1>. DEFINE n == 12 * YearCount
<1>1. /\ n \in Nat /\ n # 0 /\ Months = 0 .. n - 1
      /\ \A m \in 0 .. n - 1 : MonthLength[m] \in Nat
  BY MonthsAre DEF Months
<1>2. \A m \in 0 .. n - 1 : FirstDays[m] = SpanStart(FirstDays, MonthLength, m)
  BY <1>1, FirstDaysAre
<1>. HIDE DEF n
<1>3. \A k \in 0 .. n - 1 :
          /\ FirstDays[k] \in Nat
          /\ \A m \in 0 .. n - 1 : m < k => FirstDays[m] + MonthLength[m] <= FirstDays[k]
  BY <1>1, <1>2, SpansInOrder
<1>4. ASSUME NEW d \in Nat, d < FirstDays[n - 1] + MonthLength[n - 1]
      PROVE  \E m \in 0 .. n - 1 : FirstDays[m] <= d /\ d < FirstDays[m] + MonthLength[m]
  BY <1>1, <1>2, <1>4, SpansTile
<1> QED BY <1>1, <1>3, <1>4 DEF n

(* The first and the last day of a month. *)
LEMMA MonthBounds ==
    \A m \in Months :
        /\ m \in Nat /\ FirstOf[m] = FirstDays[m] /\ FirstOf[m] \in Nat
        /\ MonthLength[m] \in 28 .. 31 /\ LastOf[m] = FirstOf[m] + MonthLength[m] - 1
        /\ LastOf[m] \in Nat /\ FirstOf[m] <= LastOf[m]
<1>. TAKE m \in Months
<1>1. m \in Nat /\ FirstDays[m] \in Nat /\ MonthLength[m] \in 28 .. 31
  BY MonthsAre, MonthsInOrder
<1>2. FirstOf[m] = FirstDays[m] /\ LastOf[m] = FirstDays[m] + MonthLength[m] - 1
  BY DEF FirstOf, LastOf
<1> QED BY <1>1, <1>2

(* A month ends before a later one starts. *)
LEMMA MonthsApart ==
    \A m, n \in Months : m < n => LastOf[m] < FirstOf[n]
<1>. TAKE m, n \in Months
<1>1. m < n => FirstDays[m] + MonthLength[m] <= FirstDays[n]
  BY MonthsInOrder
<1> QED BY <1>1, MonthBounds

(* A day of a month is a date, and of no other month. *)
LEMMA DaysOfMonth ==
    ASSUME NEW m \in Months, NEW d \in FirstOf[m] .. LastOf[m]
    PROVE  d \in Dates /\ d \in Nat /\ MonthOf[d] = m
<1>. DEFINE end == 12 * YearCount - 1
<1>0. end \in Months /\ m <= end /\ m \in Nat /\ end \in Nat
  BY MonthsAre
<1>. HIDE DEF end
<1>1. LastOf[m] <= LastOf[end]
  <2>1. CASE m = end
    BY <2>1, <1>0, MonthBounds
  <2>2. CASE m # end
    <3>1. m < end
      BY <1>0, <2>2
    <3>2. LastOf[m] < FirstOf[end] /\ FirstOf[end] <= LastOf[end]
      BY <1>0, <3>1, MonthsApart, MonthBounds
    <3> QED BY <1>0, <3>2, MonthBounds
  <2> QED BY <2>1, <2>2
<1>2. d \in Nat /\ d <= LastOf[end] /\ LastOf[end] \in Nat
  BY <1>0, <1>1, MonthBounds
<1>3. d \in Dates
  BY <1>2 DEF Dates, end
<1>4. ASSUME NEW n \in Months, d \in FirstOf[n] .. LastOf[n] PROVE n = m
  <2>1. ~(n < m) /\ ~(m < n)
    BY <1>4, MonthsApart, MonthBounds
  <2> QED BY <2>1, MonthBounds
<1>5. MonthOf[d] = CHOOSE n \in Months : d \in FirstOf[n] .. LastOf[n]
  BY <1>3 DEF MonthOf
<1>6. MonthOf[d] \in Months /\ d \in FirstOf[MonthOf[d]] .. LastOf[MonthOf[d]]
  BY <1>5, Zenon
<1> QED BY <1>2, <1>3, <1>4, <1>6

(* Each date is a day of its month. *)
LEMMA DatesHaveMonths ==
    \A d \in Dates : /\ d \in Nat /\ MonthOf[d] \in Months
                     /\ FirstOf[MonthOf[d]] <= d /\ d <= LastOf[MonthOf[d]]
<1>. TAKE d \in Dates
<1>. DEFINE end == 12 * YearCount - 1
<1>1. end \in Months /\ d \in Nat /\ d <= LastOf[end]
  BY MonthsAre, MonthBounds DEF Dates
<1>2. d < FirstDays[end] + MonthLength[end]
  BY <1>1, MonthBounds
<1>3. PICK m \in Months : FirstDays[m] <= d /\ d < FirstDays[m] + MonthLength[m]
  BY <1>1, <1>2, MonthsInOrder
<1>4. FirstOf[m] <= d /\ d <= LastOf[m] /\ d \in FirstOf[m] .. LastOf[m]
  BY <1>1, <1>3, MonthBounds
<1>5. MonthOf[d] = m
  BY <1>4, DaysOfMonth
<1> QED BY <1>1, <1>4, <1>5

(* A clamped day is a date of the month it is asked for. *)
LEMMA ClampedDay ==
    ASSUME NEW m \in Months, NEW day \in Nat \ {0}
    PROVE  Clamped(m, day) \in Dates /\ MonthOf[Clamped(m, day)] = m
<1>1. Clamped(m, day) \in FirstOf[m] .. LastOf[m]
  BY MonthBounds DEF Clamped
<1> QED BY <1>1, DaysOfMonth

-----------------------------------------------------------------------------
(* The schedule of a loan *)

(* A longer numerator makes no smaller a quotient. *)
LEMMA QuotientsGrow ==
    ASSUME NEW x \in Nat, NEW y \in Nat, x <= y, NEW m \in Nat \ {0}
    PROVE  x \div m \in Nat /\ x \div m <= y \div m
<1>. DEFINE a == x \div m
            b == y \div m
            r == x % m
            s == y % m
<1>1. a \in Int /\ b \in Int
  BY Division
<1>2. r \in 0 .. m - 1 /\ s \in 0 .. m - 1 /\ x = m * a + r /\ y = m * b + s
  BY Division
<1>. HIDE DEF a, b, r, s
<1>3. m * a + r <= m * b + s /\ r >= 0 /\ s < m
  BY <1>2
<1>4. a >= 0
  <2>. SUFFICES ASSUME a <= -1 PROVE FALSE
    BY <1>1
  <2>. DEFINE c == m * a
  <2>1. c \in Int /\ c <= -m
    BY <1>1
  <2>. HIDE DEF c
  <2>2. x = c + r
    BY <1>2 DEF c
  <2> QED BY <1>2, <2>1, <2>2
<1>5. a <= b
  <2>. SUFFICES ASSUME a >= b + 1 PROVE FALSE
    BY <1>1
  <2>. DEFINE c == m * a
              d == m * b
  <2>1. c \in Int /\ d \in Int /\ c >= d + m
    BY <1>1
  <2>. HIDE DEF c, d
  <2>2. c + r <= d + s
    BY <1>3 DEF c, d
  <2> QED BY <1>2, <2>1, <2>2
<1> QED BY <1>1, <1>4, <1>5 DEF a, b

(* A smaller debt bears no more interest. *)
LEMMA InterestGrows ==
    ASSUME NEW left \in Nat, NEW owed \in Nat, left <= owed, NEW rate \in Nat
    PROVE  /\ MonthlyInterest(left, rate) \in Nat
           /\ MonthlyInterest(left, rate) <= MonthlyInterest(owed, rate)
<1>1. left * rate \in Nat /\ owed * rate \in Nat /\ left * rate <= owed * rate
  OBVIOUS
<1>. DEFINE x == left * rate + 60000
            y == owed * rate + 60000
<1>2. x \in Nat /\ y \in Nat /\ x <= y
  BY <1>1
<1>. HIDE DEF x, y
<1>3. 120000 \in Nat \ {0}
  OBVIOUS
<1>4. x \div 120000 \in Nat /\ x \div 120000 <= y \div 120000
  BY <1>2, <1>3, QuotientsGrow
<1> QED BY <1>4 DEF MonthlyInterest, x, y

IsTerms(t) == {t.months, t.principal, t.rate, t.payment} \subseteq Nat

(* The principal of a payment is some of what is left. *)
LEMMA PartOfDebt ==
    ASSUME NEW owed \in Nat, NEW left \in Nat, left <= owed, NEW t, IsTerms(t), Amortizes(owed, t)
    PROVE  Part(left, t) \in 0 .. left /\ MonthlyInterest(left, t.rate) \in Nat
<1>. DEFINE i == MonthlyInterest(left, t.rate)
            j == MonthlyInterest(owed, t.rate)
<1>1. i \in Nat /\ i <= j
  BY InterestGrows DEF IsTerms
<1>2. j \in Nat
  <2>1. owed <= owed /\ t.rate \in Nat
    BY DEF IsTerms
  <2> QED BY <2>1, InterestGrows
<1>3. t.payment \in Nat /\ t.payment > j
  BY DEF Amortizes, IsTerms
<1>. HIDE DEF i, j
<1>4. Part(left, t) = LET part == t.payment - i IN IF part > left \/ left - part <= 100 THEN left ELSE part
  BY DEF Part, i
<1> QED BY <1>1, <1>2, <1>3, <1>4 DEF i

(* A row is repaid when its payment is made. *)
LEMMA RepaidAppended ==
    ASSUME NEW rows, IsSequence(rows), \A i \in 1 .. Len(rows) : rows[i].principal \in Int,
           NEW row, row.principal \in Int
    PROVE  /\ Repaid(rows) \in Int
           /\ Repaid(Append(rows, row)) = Repaid(rows) + row.principal
<1>. DEFINE n == Len(rows)
            more == Append(rows, row)
            f == [i \in DOMAIN rows |-> rows[i].principal]
            g == [i \in DOMAIN more |-> more[i].principal]
<1>1. n \in Nat /\ DOMAIN rows = 1 .. n
  BY DEF IsSequence
<1>2. DOMAIN more = 1 .. n + 1 /\ more[n + 1] = row /\ \A i \in 1 .. n : more[i] = rows[i]
  BY Appended DEF IsSequence
<1>. HIDE DEF n, more
<1>3. /\ f \in [1 .. n -> Int] /\ g \in [1 .. n + 1 -> Int] /\ n + 1 \in 1 .. n + 1
      /\ \A i \in 1 .. (n + 1) - 1 : g[i] = f[i]
      /\ \A i \in (n + 1) + 1 .. n + 1 : g[i] = f[i - 1]
      /\ g[n + 1] = row.principal
  BY <1>1, <1>2 DEF n
<1>4. Repaid(rows) = Total(f) /\ Repaid(more) = Total(g)
  BY DEF Repaid
<1>. HIDE DEF f, g
<1>5. Total(g) = Total(f) + g[n + 1] /\ Total(f) \in Int
  BY <1>1, <1>3, TotalInserted
<1> QED BY <1>3, <1>4, <1>5 DEF more

IsRow(row) == row.sequence \in Nat /\ row.principal \in Nat /\ row.interest \in Nat

(* The i-th payment of a schedule that starts in some month. *)
IsPayment(row, i, t, month) ==
    /\ IsRow(row)
    /\ row = [sequence |-> i, due |-> Clamped(month + i - 1, t.day),
              principal |-> row.principal, interest |-> row.interest]

(* What is said of it. *)
LEMMA PaymentIs ==
    ASSUME NEW row, NEW i, NEW t, NEW month, IsPayment(row, i, t, month)
    PROVE  IsRow(row) /\ row.sequence = i /\ row.due = Clamped(month + i - 1, t.day)
<1>. DEFINE p == row.principal
            n == row.interest
            d == Clamped(month + i - 1, t.day)
<1>1. IsRow(row) /\ row = [sequence |-> i, due |-> d, principal |-> p, interest |-> n]
  BY DEF IsPayment
<1>. HIDE DEF p, n, d
<1>2. row.sequence = i /\ row.due = d
  BY <1>1
<1> QED BY <1>1, <1>2 DEF d

(* n months of a schedule: its payments are numbered and due month after     *)
(* month, they repay no more than is owed, and it is the shorter only when   *)
(* nothing is left.                                                          *)
Scheduled(rows, n, owed, t, month) ==
    /\ IsSequence(rows) /\ Len(rows) <= n
    /\ \A i \in 1 .. Len(rows) : IsPayment(rows[i], i, t, month)
    /\ Repaid(rows) \in 0 .. owed
    /\ Repaid(rows) < owed => Len(rows) = n

(* Nothing is repaid by no payments. *)
LEMMA NothingRepaid == Repaid(<<>>) = 0
<1>. DEFINE f == [i \in DOMAIN <<>> |-> <<>>[i].principal]
<1>1. DOMAIN f = {}
  BY NoList
<1>. HIDE DEF f
<1>2. Total(f) = 0
  BY <1>1, TotalEmpty
<1> QED BY <1>2 DEF Repaid, f

(* Another month of a schedule. *)
LEMMA NextPayment ==
    ASSUME NEW owed \in Nat, NEW t, IsTerms(t), Amortizes(owed, t), NEW month,
           NEW n \in Nat \ {0}, NEW rows, Scheduled(rows, n - 1, owed, t, month)
    PROVE  Scheduled(WithPayment(rows, n, owed, t, month), n, owed, t, month)
<1>. DEFINE left == owed - Repaid(rows)
            row == [sequence |-> n, due |-> Clamped(month + n - 1, t.day),
                    principal |-> Part(left, t), interest |-> MonthlyInterest(left, t.rate)]
            more == Append(rows, row)
<1>0. Repaid(rows) \in Int /\ Repaid(rows) >= 0 /\ Repaid(rows) <= owed
  BY DEF Scheduled
<1>1. left \in Nat /\ left <= owed /\ Repaid(rows) = owed - left
  BY <1>0
<1>2. WithPayment(rows, n, owed, t, month) = IF left = 0 THEN rows ELSE more
  BY DEF WithPayment
<1>3. Part(left, t) \in 0 .. left /\ MonthlyInterest(left, t.rate) \in Nat
  BY <1>1, PartOfDebt
<1>4. IsPayment(row, n, t, month) /\ row.principal \in 0 .. left
  <2>1. /\ row.sequence = n /\ row.principal \in 0 .. left /\ row.interest \in Nat
        /\ row = [sequence |-> n, due |-> Clamped(month + n - 1, t.day),
                  principal |-> row.principal, interest |-> row.interest]
    BY <1>3
  <2>. HIDE DEF left, row
  <2> QED BY <1>1, <2>1 DEF IsPayment, IsRow
<1>. HIDE DEF left, row, more
<1>5. CASE left = 0
  <2>1. /\ IsSequence(rows) /\ Len(rows) \in Nat /\ Len(rows) <= n - 1
        /\ \A i \in 1 .. Len(rows) : IsPayment(rows[i], i, t, month)
        /\ Repaid(rows) \in 0 .. owed
    BY DEF Scheduled, IsSequence
  <2>2. Len(rows) <= n /\ ~(Repaid(rows) < owed)
    BY <1>0, <1>1, <1>5, <2>1
  <2> QED BY <1>2, <1>5, <2>1, <2>2 DEF Scheduled
<1>6. CASE left # 0
  <2>1. IsSequence(rows) /\ Len(rows) = n - 1 /\ \A i \in 1 .. Len(rows) : IsPayment(rows[i], i, t, month)
    BY <1>0, <1>1, <1>6 DEF Scheduled
  <2>2. /\ IsSequence(more) /\ Len(more) = Len(rows) + 1
        /\ \A i \in 1 .. Len(rows) : more[i] = rows[i]
        /\ more[Len(rows) + 1] = row
    BY <2>1, Appended DEF more
  <2>3. Len(more) = n /\ more[n] = row /\ \A i \in 1 .. n - 1 : more[i] = rows[i]
    BY <2>1, <2>2
  <2>4. \A i \in 1 .. Len(more) : IsPayment(more[i], i, t, month)
    <3>. TAKE i \in 1 .. Len(more)
    <3>1. CASE i = n
      BY <1>4, <2>3, <3>1
    <3>2. CASE i # n
      <4>1. i \in 1 .. n - 1
        BY <2>3, <3>2
      <4> QED BY <2>1, <2>3, <4>1
    <3> QED BY <3>1, <3>2
  <2>5. Repaid(more) = Repaid(rows) + row.principal
    <3>1. row.principal \in Int /\ \A i \in 1 .. Len(rows) : rows[i].principal \in Int
      BY <1>4, <2>1 DEF IsPayment, IsRow
    <3> QED BY <2>1, <3>1, RepaidAppended DEF more
  <2>6. Repaid(more) \in 0 .. owed
    BY <1>0, <1>1, <1>4, <2>5
  <2> QED BY <1>2, <1>6, <2>2, <2>3, <2>4, <2>6 DEF Scheduled
<1> QED BY <1>5, <1>6

(* The function that BuildSchedule is the last value of. *)
Schedules(g, months, owed, t, month) ==
    g = [n \in 0 .. months |-> IF n = 0 THEN <<>> ELSE WithPayment(g[n - 1], n, owed, t, month)]

(* The definition of BuildSchedule in these terms. *)
LEMMA BuildScheduleIs ==
    ASSUME NEW owed, NEW t, NEW months, NEW month
    PROVE  BuildSchedule(owed, t, months, month) =
               IF Amortizes(owed, t)
               THEN (CHOOSE g : Schedules(g, months, owed, t, month))[months] ELSE <<>>
  BY Zenon DEF BuildSchedule, Schedules

(* Month after month, there is such a function. *)
LEMMA SchedulesExist ==
    ASSUME NEW owed, NEW t, NEW months \in Nat, NEW month
    PROVE  \E g : Schedules(g, months, owed, t, month)
<1>. DEFINE Made(g, n) == IF n = 0 THEN <<>> ELSE WithPayment(g[n - 1], n, owed, t, month)
            Reached(g, k) == /\ g = [n \in 0 .. months |-> g[n]]
                             /\ \A n \in 0 .. months : n <= k => g[n] = Made(g, n)
            C == {k \in Nat : \A g : ~Reached(g, k)}
<1>1. C = {}
  <2>. SUFFICES ASSUME C # {} PROVE FALSE
    OBVIOUS
  <2>1. PICK k \in C : \A j \in C : k <= j
    BY SmallestNumber
  <2>2. CASE k = 0
    <3>. DEFINE g == [n \in 0 .. months |-> <<>>]
    <3>1. Reached(g, 0)
      OBVIOUS
    <3> QED BY <2>1, <2>2, <3>1
  <2>3. CASE k # 0
    <3>1. k \in Nat /\ \A g : ~Reached(g, k)
      BY <2>1
    <3>. HIDE DEF C
    <3>2. k - 1 \in Nat /\ ~(k <= k - 1)
      BY <2>3, <3>1
    <3>3. k - 1 \notin C
      BY <2>1, <3>2
    <3>. USE DEF C
    <3>4. PICK g : Reached(g, k - 1)
      BY <3>2, <3>3
    <3>. HIDE DEF C
    <3>. DEFINE h == [n \in 0 .. months |-> Made(g, n)]
    <3>5. ASSUME NEW n \in 0 .. months, n <= k PROVE h[n] = Made(h, n)
      <4>1. CASE n = 0
        BY <4>1
      <4>2. CASE n # 0
        <5>1. n - 1 \in 0 .. months /\ n - 1 <= k - 1
          BY <3>1, <3>5, <4>2
        <5>2. g[n - 1] = Made(g, n - 1)
          BY <3>4, <5>1
        <5>3. h[n - 1] = Made(g, n - 1) /\ h[n] = Made(g, n)
          BY <5>1
        <5>4. h[n - 1] = g[n - 1]
          BY <5>2, <5>3
        <5> QED BY <4>2, <5>3, <5>4
      <4> QED BY <4>1, <4>2
    <3>6. h = [n \in 0 .. months |-> h[n]]
      OBVIOUS
    <3>7. Reached(h, k)
      BY <3>5, <3>6
    <3> QED BY <3>1, <3>7
  <2> QED BY <2>2, <2>3
<1>2. PICK g : Reached(g, months)
  BY <1>1
<1>3. \A n \in 0 .. months : g[n] = Made(g, n)
  BY <1>2
<1>4. g = [n \in 0 .. months |-> Made(g, n)]
  BY <1>2, <1>3
<1> QED BY <1>4, Zenon DEF Schedules

(* Functions that make the same schedule agree as far as both go. *)
LEMMA SchedulesAgree ==
    ASSUME NEW owed, NEW t, NEW month, NEW a \in Nat, NEW b \in Nat,
           NEW f, Schedules(f, a, owed, t, month), NEW h, Schedules(h, b, owed, t, month)
    PROVE  \A k \in Nat : k <= a /\ k <= b => f[k] = h[k]
<1>. DEFINE C == {k \in Nat : k <= a /\ k <= b /\ f[k] # h[k]}
<1>1. /\ \A k \in 0 .. a : f[k] = IF k = 0 THEN <<>> ELSE WithPayment(f[k - 1], k, owed, t, month)
      /\ \A k \in 0 .. b : h[k] = IF k = 0 THEN <<>> ELSE WithPayment(h[k - 1], k, owed, t, month)
  BY DEF Schedules
<1>2. C = {}
  <2>. SUFFICES ASSUME C # {} PROVE FALSE
    OBVIOUS
  <2>1. PICK k \in C : \A j \in C : k <= j
    BY SmallestNumber
  <2>2. k \in Nat /\ k \in 0 .. a /\ k \in 0 .. b /\ f[k] # h[k]
    BY <2>1
  <2>3. k # 0
    BY <1>1, <2>2
  <2>4. k - 1 \in Nat /\ k - 1 <= a /\ k - 1 <= b /\ ~(k <= k - 1)
    BY <2>2, <2>3
  <2>5. f[k - 1] = h[k - 1]
    BY <2>1, <2>4
  <2> QED BY <1>1, <2>2, <2>3, <2>5
<1> QED BY <1>2

(* A schedule of more months is that of one month less with another payment. *)
LEMMA ScheduleUnfolds ==
    ASSUME NEW owed, NEW t, Amortizes(owed, t), NEW month
    PROVE  /\ BuildSchedule(owed, t, 0, month) = <<>>
           /\ \A n \in Nat \ {0} :
                  BuildSchedule(owed, t, n, month) =
                      WithPayment(BuildSchedule(owed, t, n - 1, month), n, owed, t, month)
<1>. DEFINE g(n) == CHOOSE f : Schedules(f, n, owed, t, month)
<1>1. ASSUME NEW n \in Nat
      PROVE  Schedules(g(n), n, owed, t, month) /\ BuildSchedule(owed, t, n, month) = g(n)[n]
  <2>1. \E f : Schedules(f, n, owed, t, month)
    BY SchedulesExist
  <2>2. BuildSchedule(owed, t, n, month) = g(n)[n]
    BY BuildScheduleIs
  <2> QED BY <2>1, <2>2
<1>. HIDE DEF g
<1>2. BuildSchedule(owed, t, 0, month) = <<>>
  <2>1. g(0)[0] = <<>>
    BY <1>1 DEF Schedules
  <2> QED BY <1>1, <2>1
<1>3. ASSUME NEW n \in Nat \ {0}
      PROVE  BuildSchedule(owed, t, n, month) =
                 WithPayment(BuildSchedule(owed, t, n - 1, month), n, owed, t, month)
  <2>1. n - 1 \in Nat /\ n - 1 <= n /\ n - 1 <= n - 1
    OBVIOUS
  <2>2. Schedules(g(n), n, owed, t, month) /\ Schedules(g(n - 1), n - 1, owed, t, month)
    BY <1>1, <2>1
  <2>3. g(n)[n - 1] = g(n - 1)[n - 1]
    BY <2>1, <2>2, SchedulesAgree
  <2>4. g(n)[n] = WithPayment(g(n)[n - 1], n, owed, t, month)
    BY <2>2 DEF Schedules
  <2>5. BuildSchedule(owed, t, n, month) = g(n)[n]
        /\ BuildSchedule(owed, t, n - 1, month) = g(n - 1)[n - 1]
    BY <1>1, <2>1
  <2> QED BY <2>3, <2>4, <2>5
<1> QED BY <1>2, <1>3

(* So many months of a schedule. *)
LEMMA ScheduleGrows ==
    ASSUME NEW owed \in Nat, NEW t, IsTerms(t), Amortizes(owed, t), NEW month
    PROVE  \A n \in Nat : Scheduled(BuildSchedule(owed, t, n, month), n, owed, t, month)
<1>. DEFINE B(n) == BuildSchedule(owed, t, n, month)
            C == {n \in Nat : ~Scheduled(B(n), n, owed, t, month)}
<1>1. B(0) = <<>> /\ \A n \in Nat \ {0} : B(n) = WithPayment(B(n - 1), n, owed, t, month)
  BY ScheduleUnfolds
<1>. HIDE DEF B
<1>2. C = {}
  <2>. SUFFICES ASSUME C # {} PROVE FALSE
    OBVIOUS
  <2>1. PICK n \in C : \A m \in C : n <= m
    BY SmallestNumber
  <2>2. n \in Nat /\ ~Scheduled(B(n), n, owed, t, month)
    BY <2>1
  <2>3. CASE n = 0
    <3>1. IsSequence(<<>>) /\ Len(<<>>) = 0 /\ \A i \in 1 .. Len(<<>>) : FALSE
      BY NoList
    <3>2. Repaid(<<>>) \in 0 .. owed
      BY NothingRepaid
    <3>3. Scheduled(<<>>, 0, owed, t, month)
      BY <3>1, <3>2 DEF Scheduled
    <3> QED BY <1>1, <2>2, <2>3, <3>3
  <2>4. CASE n # 0
    <3>1. n \in Nat \ {0} /\ n - 1 \in Nat /\ ~(n <= n - 1)
      BY <2>2, <2>4
    <3>2. Scheduled(B(n - 1), n - 1, owed, t, month)
      BY <2>1, <3>1
    <3>3. Scheduled(WithPayment(B(n - 1), n, owed, t, month), n, owed, t, month)
      BY <3>1, <3>2, NextPayment
    <3> QED BY <1>1, <2>2, <3>1, <3>3
  <2> QED BY <2>3, <2>4
<1>3. \A n \in Nat : Scheduled(B(n), n, owed, t, month)
  BY <1>2
<1> QED BY <1>3 DEF B

(* The rows of a schedule are those of a table, of amounts that are not      *)
(* negative; it is no longer than asked for, and only a debt that its terms  *)
(* amortize has one.                                                         *)
LEMMA ScheduleRows ==
    ASSUME NEW owed \in Nat, NEW t, IsTerms(t), NEW months \in Nat, NEW month
    PROVE  LET rows == BuildSchedule(owed, t, months, month)
           IN  /\ IsSequence(rows) /\ Len(rows) <= months
               /\ \A i \in 1 .. Len(rows) : IsPayment(rows[i], i, t, month)
               /\ rows # <<>> => Amortizes(owed, t) /\ owed > 0
<1>. DEFINE rows == BuildSchedule(owed, t, months, month)
<1>1. CASE ~Amortizes(owed, t)
  <2>1. rows = <<>>
    BY <1>1, BuildScheduleIs
  <2>2. IsSequence(<<>>) /\ Len(<<>>) = 0 /\ \A i \in 1 .. Len(<<>>) : FALSE
    BY NoList
  <2>. HIDE DEF rows
  <2>3. /\ IsSequence(rows) /\ rows = <<>> /\ Len(rows) <= months
        /\ \A i \in 1 .. Len(rows) : IsPayment(rows[i], i, t, month)
    BY <2>1, <2>2
  <2> QED BY <2>3 DEF rows
<1>2. CASE Amortizes(owed, t)
  <2>1. Scheduled(rows, months, owed, t, month)
    BY <1>2, ScheduleGrows
  <2>2. owed > 0
    BY <1>2 DEF Amortizes
  <2>. HIDE DEF rows
  <2>3. /\ IsSequence(rows) /\ Len(rows) <= months
        /\ \A i \in 1 .. Len(rows) : IsPayment(rows[i], i, t, month)
    BY <2>1 DEF Scheduled
  <2> QED BY <1>2, <2>2, <2>3 DEF rows
<1> QED BY <1>1, <1>2

(* A schedule is no other for being asked for in months it does not need. *)
LEMMA ScheduleLength ==
    ASSUME NEW owed \in Nat, NEW t, IsTerms(t), Amortizes(owed, t), NEW month
    PROVE  \A n \in Nat :
               LET rows == BuildSchedule(owed, t, n, month)
               IN  BuildSchedule(owed, t, Len(rows), month) = rows
<1>. DEFINE B(n) == BuildSchedule(owed, t, n, month)
            C == {n \in Nat : B(Len(B(n))) # B(n)}
<1>1. B(0) = <<>> /\ \A n \in Nat \ {0} : B(n) = WithPayment(B(n - 1), n, owed, t, month)
  BY ScheduleUnfolds
<1>2. \A n \in Nat : Scheduled(B(n), n, owed, t, month)
  BY ScheduleGrows
<1>. HIDE DEF B
<1>3. C = {}
  <2>. SUFFICES ASSUME C # {} PROVE FALSE
    OBVIOUS
  <2>1. PICK n \in C : \A m \in C : n <= m
    BY SmallestNumber
  <2>2. n \in Nat /\ B(Len(B(n))) # B(n)
    BY <2>1
  <2>3. n # 0
    BY <1>1, <2>2, NoList
  <2>4. n \in Nat \ {0} /\ n - 1 \in Nat /\ ~(n <= n - 1)
    BY <2>2, <2>3
  <2>. DEFINE rows == B(n - 1)
  <2>5. B(Len(rows)) = rows
    BY <2>1, <2>4
  <2>6. Scheduled(rows, n - 1, owed, t, month) /\ B(n) = WithPayment(rows, n, owed, t, month)
    BY <1>1, <1>2, <2>4
  <2>7. B(n) # rows
    BY <2>2, <2>5
  <2>. HIDE DEF rows
  <2>8. /\ IsSequence(rows) /\ Repaid(rows) \in 0 .. owed
        /\ Repaid(rows) < owed => Len(rows) = n - 1
    BY <2>6 DEF Scheduled
  <2>9. owed - Repaid(rows) # 0 /\ \E row : B(n) = Append(rows, row)
    BY <2>6, <2>7 DEF WithPayment
  <2>10. Len(rows) = n - 1
    BY <2>8, <2>9
  <2>11. Len(B(n)) = n
    BY <2>2, <2>8, <2>9, <2>10, Appended
  <2> QED BY <2>2, <2>11
<1>4. \A n \in Nat : B(Len(B(n))) = B(n)
  BY <1>3
<1> QED BY <1>4 DEF B

(* Nor is one that repays the debt, in more months than it was asked for. *)
LEMMA ScheduleSettles ==
    ASSUME NEW owed \in Nat, NEW t, IsTerms(t), Amortizes(owed, t), NEW month, NEW n \in Nat,
           Repaid(BuildSchedule(owed, t, n, month)) = owed
    PROVE  \A k \in Nat : n <= k => BuildSchedule(owed, t, k, month) = BuildSchedule(owed, t, n, month)
<1>. DEFINE B(k) == BuildSchedule(owed, t, k, month)
            C == {k \in Nat : n <= k /\ B(k) # B(n)}
<1>1. \A k \in Nat \ {0} : B(k) = WithPayment(B(k - 1), k, owed, t, month)
  BY ScheduleUnfolds
<1>2. Repaid(B(n)) = owed
  OBVIOUS
<1>. HIDE DEF B
<1>3. C = {}
  <2>. SUFFICES ASSUME C # {} PROVE FALSE
    OBVIOUS
  <2>1. PICK k \in C : \A m \in C : k <= m
    BY SmallestNumber
  <2>2. k \in Nat /\ n <= k /\ B(k) # B(n)
    BY <2>1
  <2>3. k # n
    BY <2>2
  <2>4. k \in Nat \ {0} /\ k - 1 \in Nat /\ n <= k - 1 /\ ~(k <= k - 1)
    BY <2>2, <2>3
  <2>5. B(k - 1) = B(n)
    BY <2>1, <2>4
  <2>6. B(k) = WithPayment(B(n), k, owed, t, month)
    BY <1>1, <2>4, <2>5
  <2>7. owed - Repaid(B(n)) = 0
    BY <1>2
  <2> QED BY <2>2, <2>6, <2>7 DEF WithPayment
<1>4. \A k \in Nat : n <= k => B(k) = B(n)
  BY <1>3
<1> QED BY <1>4 DEF B

(* Schedules of the same amounts. *)
SameAmounts(r, s) ==
    /\ IsSequence(r) /\ IsSequence(s) /\ Len(r) = Len(s)
    /\ \A i \in 1 .. Len(r) : r[i].principal = s[i].principal /\ r[i].interest = s[i].interest

(* These repay the same. *)
LEMMA SameRepaid ==
    ASSUME NEW r, NEW s, SameAmounts(r, s)
    PROVE  Repaid(r) = Repaid(s)
<1>1. DOMAIN r = DOMAIN s /\ \A i \in DOMAIN r : r[i].principal = s[i].principal
  BY DEF SameAmounts, IsSequence
<1>2. [i \in DOMAIN r |-> r[i].principal] = [i \in DOMAIN s |-> s[i].principal]
  BY <1>1
<1> QED BY <1>2, Zenon DEF Repaid

(* Whenever it starts, a schedule is of the same amounts. *)
LEMMA SameSchedule ==
    ASSUME NEW owed \in Nat, NEW t, IsTerms(t), Amortizes(owed, t), NEW month, NEW other
    PROVE  \A n \in Nat : SameAmounts(BuildSchedule(owed, t, n, month), BuildSchedule(owed, t, n, other))
<1>. DEFINE A(n) == BuildSchedule(owed, t, n, month)
            B(n) == BuildSchedule(owed, t, n, other)
            C == {n \in Nat : ~SameAmounts(A(n), B(n))}
<1>1. /\ A(0) = <<>> /\ \A n \in Nat \ {0} : A(n) = WithPayment(A(n - 1), n, owed, t, month)
      /\ B(0) = <<>> /\ \A n \in Nat \ {0} : B(n) = WithPayment(B(n - 1), n, owed, t, other)
  BY ScheduleUnfolds
<1>. HIDE DEF A, B
<1>2. C = {}
  <2>. SUFFICES ASSUME C # {} PROVE FALSE
    OBVIOUS
  <2>1. PICK n \in C : \A m \in C : n <= m
    BY SmallestNumber
  <2>2. n \in Nat /\ ~SameAmounts(A(n), B(n))
    BY <2>1
  <2>3. CASE n = 0
    <3>1. IsSequence(<<>>) /\ \A i \in 1 .. Len(<<>>) : FALSE
      BY NoList
    <3> QED BY <1>1, <2>2, <2>3, <3>1 DEF SameAmounts
  <2>4. CASE n # 0
    <3>1. n \in Nat \ {0} /\ n - 1 \in Nat /\ ~(n <= n - 1)
      BY <2>2, <2>4
    <3>. DEFINE r == A(n - 1)
                s == B(n - 1)
                left == owed - Repaid(r)
                e == [sequence |-> n, due |-> Clamped(month + n - 1, t.day),
                      principal |-> Part(left, t), interest |-> MonthlyInterest(left, t.rate)]
                d == [sequence |-> n, due |-> Clamped(other + n - 1, t.day),
                      principal |-> Part(left, t), interest |-> MonthlyInterest(left, t.rate)]
    <3>2. SameAmounts(r, s)
      BY <2>1, <3>1
    <3>3. A(n) = WithPayment(r, n, owed, t, month) /\ B(n) = WithPayment(s, n, owed, t, other)
      BY <1>1, <3>1
    <3>4. e.principal = d.principal /\ e.interest = d.interest
      OBVIOUS
    <3>. HIDE DEF r, s
    <3>5. Repaid(s) = Repaid(r)
      BY <3>2, SameRepaid
    <3>6. /\ A(n) = IF left = 0 THEN r ELSE Append(r, e)
          /\ B(n) = IF left = 0 THEN s ELSE Append(s, d)
      BY <3>3, <3>5 DEF WithPayment
    <3>. HIDE DEF left, e, d
    <3>7. SameAmounts(Append(r, e), Append(s, d))
      <4>1. /\ IsSequence(r) /\ IsSequence(s) /\ Len(r) = Len(s) /\ Len(r) \in Nat
            /\ \A i \in 1 .. Len(r) : r[i].principal = s[i].principal /\ r[i].interest = s[i].interest
        BY <3>2 DEF SameAmounts, IsSequence
      <4>. DEFINE u == Append(r, e)
                  v == Append(s, d)
      <4>2. /\ IsSequence(u) /\ Len(u) = Len(r) + 1 /\ u[Len(r) + 1] = e
            /\ \A i \in 1 .. Len(r) : u[i] = r[i]
        BY <4>1, Appended
      <4>3. /\ IsSequence(v) /\ Len(v) = Len(r) + 1 /\ v[Len(r) + 1] = d
            /\ \A i \in 1 .. Len(r) : v[i] = s[i]
        BY <4>1, Appended
      <4>. HIDE DEF u, v
      <4>4. ASSUME NEW i \in 1 .. Len(u)
            PROVE  u[i].principal = v[i].principal /\ u[i].interest = v[i].interest
        <5>1. i = Len(r) + 1 \/ i \in 1 .. Len(r)
          BY <4>1, <4>2
        <5> QED BY <3>4, <4>1, <4>2, <4>3, <5>1
      <4> QED BY <4>2, <4>3, <4>4 DEF SameAmounts, u, v
    <3> QED BY <2>2, <3>2, <3>6, <3>7
  <2> QED BY <2>3, <2>4
<1>3. \A n \in Nat : SameAmounts(A(n), B(n))
  BY <1>2
<1> QED BY <1>3 DEF A, B

(* What a payment leaves of a debt. *)
LeftAfter(left, t) == IF left = 0 THEN 0 ELSE left - Part(left, t)

(* A payment leaves no more of a smaller debt. *)
LEMMA LessIsLeft ==
    ASSUME NEW owed \in Nat, NEW t, IsTerms(t), Amortizes(owed, t),
           NEW x \in Nat, NEW y \in Nat, x <= y, y <= owed
    PROVE  /\ LeftAfter(x, t) \in Nat /\ LeftAfter(y, t) \in Nat
           /\ LeftAfter(x, t) <= LeftAfter(y, t)
<1>. DEFINE i == MonthlyInterest(x, t.rate)
            j == MonthlyInterest(y, t.rate)
            p == t.payment
<1>1. i \in Nat /\ i <= j
  BY InterestGrows DEF IsTerms
<1>2. j \in Nat
  <2>1. y <= y /\ t.rate \in Nat
    BY DEF IsTerms
  <2> QED BY <2>1, InterestGrows
<1>3. p \in Nat
  BY DEF IsTerms
<1>4. Part(x, t) \in 0 .. x /\ Part(y, t) \in 0 .. y
  BY PartOfDebt
<1>5. /\ Part(x, t) = LET part == p - i IN IF part > x \/ x - part <= 100 THEN x ELSE part
      /\ Part(y, t) = LET part == p - j IN IF part > y \/ y - part <= 100 THEN y ELSE part
  BY DEF Part
<1>. HIDE DEF i, j, p
<1>6. x - (p - i) <= y - (p - j)
  BY <1>1, <1>2, <1>3
<1>7. x - Part(x, t) <= y - Part(y, t)
  BY <1>1, <1>2, <1>3, <1>4, <1>5, <1>6
<1> QED BY <1>4, <1>7 DEF LeftAfter

(* Another month of a schedule leaves what its payment leaves. *)
LEMMA PaymentLeaves ==
    ASSUME NEW owed \in Nat, NEW t, IsTerms(t), Amortizes(owed, t), NEW month,
           NEW n \in Nat \ {0}, NEW rows, Scheduled(rows, n - 1, owed, t, month)
    PROVE  owed - Repaid(WithPayment(rows, n, owed, t, month)) = LeftAfter(owed - Repaid(rows), t)
<1>. DEFINE left == owed - Repaid(rows)
            row == [sequence |-> n, due |-> Clamped(month + n - 1, t.day),
                    principal |-> Part(left, t), interest |-> MonthlyInterest(left, t.rate)]
<1>0. Repaid(rows) \in 0 .. owed
  BY DEF Scheduled
<1>1. left \in Nat /\ left <= owed /\ Repaid(rows) = owed - left
  BY <1>0
<1>2. WithPayment(rows, n, owed, t, month) = IF left = 0 THEN rows ELSE Append(rows, row)
  BY DEF WithPayment
<1>3. Part(left, t) \in 0 .. left /\ row.principal = Part(left, t)
  BY <1>1, PartOfDebt
<1>. HIDE DEF left, row
<1>4. CASE left = 0
  BY <1>1, <1>2, <1>4 DEF LeftAfter, left
<1>5. CASE left # 0
  <2>0. row.principal \in Int
    BY <1>1, <1>3
  <2>1. IsSequence(rows) /\ \A i \in 1 .. Len(rows) : rows[i].principal \in Int
    <3>1. IsSequence(rows) /\ \A i \in 1 .. Len(rows) : IsPayment(rows[i], i, t, month)
      BY DEF Scheduled
    <3> QED BY <3>1, PaymentIs DEF IsRow
  <2>2. Repaid(Append(rows, row)) = Repaid(rows) + row.principal
    BY <2>0, <2>1, RepaidAppended
  <2>3. Repaid(WithPayment(rows, n, owed, t, month)) = (owed - left) + Part(left, t)
    BY <1>1, <1>2, <1>3, <1>5, <2>2
  <2>4. owed - ((owed - left) + Part(left, t)) = left - Part(left, t)
    BY <1>1, <1>3
  <2> QED BY <1>5, <2>3, <2>4 DEF LeftAfter, left
<1> QED BY <1>4, <1>5

(* A schedule that repays a debt in so many months repays a smaller one. *)
LEMMA LessIsRepaid ==
    ASSUME NEW owed \in Nat, NEW t, IsTerms(t), Amortizes(owed, t), NEW month,
           NEW less \in Nat, less <= owed, Amortizes(less, t)
    PROVE  \A n \in Nat : Repaid(BuildSchedule(owed, t, n, month)) = owed =>
                              Repaid(BuildSchedule(less, t, n, month)) = less
<1>. DEFINE A(n) == BuildSchedule(less, t, n, month)
            B(n) == BuildSchedule(owed, t, n, month)
            x(n) == less - Repaid(A(n))
            y(n) == owed - Repaid(B(n))
            C == {n \in Nat : ~(x(n) <= y(n))}
<1>1. /\ A(0) = <<>> /\ \A n \in Nat \ {0} : A(n) = WithPayment(A(n - 1), n, less, t, month)
      /\ \A n \in Nat : Scheduled(A(n), n, less, t, month)
  BY ScheduleUnfolds, ScheduleGrows
<1>2. /\ B(0) = <<>> /\ \A n \in Nat \ {0} : B(n) = WithPayment(B(n - 1), n, owed, t, month)
      /\ \A n \in Nat : Scheduled(B(n), n, owed, t, month)
  BY ScheduleUnfolds, ScheduleGrows
<1>. HIDE DEF A, B
<1>3. \A n \in Nat : /\ x(n) \in Nat /\ x(n) <= less /\ y(n) \in Nat /\ y(n) <= owed
                     /\ Repaid(A(n)) = less - x(n) /\ Repaid(B(n)) = owed - y(n)
  <2>1. \A n \in Nat : Repaid(A(n)) \in 0 .. less /\ Repaid(B(n)) \in 0 .. owed
    BY <1>1, <1>2 DEF Scheduled
  <2> QED BY <2>1
<1>4. ASSUME NEW n \in Nat \ {0}
      PROVE  x(n) = LeftAfter(x(n - 1), t) /\ y(n) = LeftAfter(y(n - 1), t)
  <2>1. n - 1 \in Nat
    OBVIOUS
  <2>2. x(n) = LeftAfter(x(n - 1), t)
    <3>1. Scheduled(A(n - 1), n - 1, less, t, month) /\ A(n) = WithPayment(A(n - 1), n, less, t, month)
      BY <1>1, <2>1
    <3> QED BY <3>1, PaymentLeaves
  <2>3. y(n) = LeftAfter(y(n - 1), t)
    <3>1. Scheduled(B(n - 1), n - 1, owed, t, month) /\ B(n) = WithPayment(B(n - 1), n, owed, t, month)
      BY <1>2, <2>1
    <3> QED BY <3>1, PaymentLeaves
  <2> QED BY <2>2, <2>3
<1>5. x(0) = less /\ y(0) = owed
  BY <1>1, <1>2, NothingRepaid
<1>. HIDE DEF x, y
<1>6. C = {}
  <2>. SUFFICES ASSUME C # {} PROVE FALSE
    OBVIOUS
  <2>1. PICK n \in C : \A m \in C : n <= m
    BY SmallestNumber
  <2>2. n \in Nat /\ ~(x(n) <= y(n))
    BY <2>1
  <2>3. n # 0
    BY <1>5, <2>2
  <2>4. n \in Nat \ {0} /\ n - 1 \in Nat /\ ~(n <= n - 1)
    BY <2>2, <2>3
  <2>5. x(n - 1) <= y(n - 1)
    BY <2>1, <2>4
  <2>6. LeftAfter(x(n - 1), t) <= LeftAfter(y(n - 1), t)
    BY <1>3, <2>4, <2>5, LessIsLeft
  <2> QED BY <1>4, <2>2, <2>4, <2>6
<1>7. ASSUME NEW n \in Nat, Repaid(B(n)) = owed PROVE Repaid(A(n)) = less
  <2>1. x(n) <= y(n)
    BY <1>6
  <2>2. /\ x(n) \in Nat /\ y(n) \in Nat
        /\ Repaid(A(n)) = less - x(n) /\ Repaid(B(n)) = owed - y(n)
    BY <1>3
  <2>3. y(n) = 0
    BY <1>7, <2>2
  <2>4. x(n) = 0
    BY <2>1, <2>2, <2>3
  <2> QED BY <2>2, <2>4
<1> QED BY <1>7 DEF A, B

(* Numbered from elsewhere, a schedule repays the same. *)
LEMMA RenumberedRows ==
    ASSUME NEW rows, IsSequence(rows), \A i \in 1 .. Len(rows) : IsRow(rows[i]), NEW first \in Nat
    PROVE  LET moved == Renumbered(rows, first)
           IN  /\ IsSequence(moved)
               /\ \A i \in 1 .. Len(moved) : IsRow(moved[i]) /\ moved[i].sequence = first + i
               /\ Repaid(moved) = Repaid(rows)
               /\ Len(moved) = Len(rows)
               /\ \A i \in 1 .. Len(rows) :
                      moved[i] = [sequence |-> first + i, due |-> rows[i].due,
                                  principal |-> rows[i].principal, interest |-> rows[i].interest]
<1>. DEFINE moved == Renumbered(rows, first)
            n == Len(rows)
            S == {moved[i] : i \in 1 .. n}
<1>1. n \in Nat /\ DOMAIN rows = 1 .. n
  BY DEF IsSequence
<1>2. /\ moved \in [1 .. n -> S]
      /\ \A i \in 1 .. n : moved[i] = [sequence |-> first + i, due |-> rows[i].due,
                                       principal |-> rows[i].principal,
                                       interest |-> rows[i].interest]
  <2>1. moved = [i \in 1 .. n |-> [sequence |-> first + i, due |-> rows[i].due,
                                       principal |-> rows[i].principal,
                                       interest |-> rows[i].interest]]
    BY <1>1 DEF Renumbered
  <2>. HIDE DEF moved
  <2> QED BY <2>1
<1>. HIDE DEF moved, S
<1>3. IsSequence(moved) /\ Len(moved) = n
  BY <1>1, <1>2, SequenceOf
<1>4. \A i \in 1 .. n : moved[i].sequence = first + i /\ moved[i].principal = rows[i].principal
                        /\ moved[i].interest = rows[i].interest
  BY <1>2
<1>5. \A i \in 1 .. n : IsRow(moved[i])
  BY <1>1, <1>4 DEF IsRow, n
<1>6. Repaid(moved) = Repaid(rows)
  <2>1. DOMAIN moved = 1 .. n
    BY <1>2
  <2>2. [i \in DOMAIN moved |-> moved[i].principal] = [i \in DOMAIN rows |-> rows[i].principal]
    BY <1>1, <1>4, <2>1
  <2> QED BY <2>2, Zenon DEF Repaid
<1> QED BY <1>2, <1>3, <1>4, <1>5, <1>6 DEF moved

-----------------------------------------------------------------------------
(* The events of a loan *)

(* One list has an element more than another, at p. *)
Inserts(u, s, p) ==
    /\ IsSequence(s) /\ IsSequence(u)
    /\ p \in 1 .. Len(s) + 1 /\ Len(u) = Len(s) + 1
    /\ \A i \in 1 .. p - 1 : u[i] = s[i]
    /\ \A i \in p + 1 .. Len(s) + 1 : u[i] = s[i - 1]

(* Recording an event and undoing one. *)
LEMMA InsertsOne ==
    /\ \A s, e : IsSequence(s) => \A p \in 1 .. Len(s) + 1 :
           Inserts(InsertAt(s, p, e), s, p) /\ InsertAt(s, p, e)[p] = e
    /\ \A s : IsSequence(s) /\ s # <<>> =>
           Inserts(s, Front(s), Len(s)) /\ s[Len(s)] = Last(s)
<1>1. ASSUME NEW s, IsSequence(s), NEW e, NEW p \in 1 .. Len(s) + 1
      PROVE  Inserts(InsertAt(s, p, e), s, p) /\ InsertAt(s, p, e)[p] = e
  BY <1>1, Inserted DEF Inserts
<1>2. ASSUME NEW s, IsSequence(s), s # <<>>
      PROVE  Inserts(s, Front(s), Len(s)) /\ s[Len(s)] = Last(s)
  <2>. DEFINE f == Front(s)
              n == Len(s)
  <2>1. /\ n \in Nat \ {0}
        /\ IsSequence(f) /\ Len(f) = n - 1 /\ \A i \in 1 .. n - 1 : f[i] = s[i]
    BY <1>2, Fronts
  <2>. HIDE DEF f, n
  <2>2. n \in 1 .. Len(f) + 1 /\ n = Len(f) + 1 /\ \A i \in n + 1 .. Len(f) + 1 : FALSE
    BY <2>1
  <2>3. Inserts(s, f, n)
    BY <1>2, <2>1, <2>2 DEF Inserts, n
  <2> QED BY <2>3 DEF f, n, Last
<1> QED BY <1>1, <1>2

(* A payment covers its parts; an adjustment is signed, and costs nothing. *)
IsEvent(e) ==
    \/ /\ e.sequence \in Nat /\ e.account \in Payable
       /\ e.paidPrincipal \in Nat /\ e.paidInterest \in Nat /\ e.paidTotal \in Nat
       /\ e.paidTotal >= e.paidPrincipal + e.paidInterest
    \/ /\ e.sequence = -1 /\ e.account = None
       /\ e.paidPrincipal \in Int \ {0} /\ e.paidTotal = 0

AreEvents(events) == \A i \in 1 .. Len(events) : IsEvent(events[i])

(* The amounts of an event are integers, and so is its number. *)
LEMMA EventAmounts ==
    ASSUME NEW e, IsEvent(e)
    PROVE  e.paidPrincipal \in Int /\ e.paidTotal \in Int /\ e.sequence \in Int
  BY DEF IsEvent

(* All events but one are events. *)
LEMMA EventsOf ==
    ASSUME NEW u, NEW s, NEW p, Inserts(u, s, p)
    PROVE  AreEvents(u) <=> AreEvents(s) /\ IsEvent(u[p])
<1>. DEFINE n == Len(s)
<1>1. n \in Nat /\ p \in 1 .. n + 1 /\ Len(u) = n + 1
  BY DEF Inserts, IsSequence
<1>2. (\A i \in 1 .. p - 1 : u[i] = s[i]) /\ \A i \in p + 1 .. n + 1 : u[i] = s[i - 1]
  BY DEF Inserts
<1>. HIDE DEF n
<1>3. ASSUME AreEvents(u) PROVE AreEvents(s) /\ IsEvent(u[p])
  <2>1. \A i \in 1 .. n + 1 : IsEvent(u[i])
    BY <1>1, <1>3 DEF AreEvents
  <2>2. ASSUME NEW i \in 1 .. n PROVE IsEvent(s[i])
    <3>1. CASE i < p
      <4>1. i \in 1 .. p - 1 /\ i \in 1 .. n + 1
        BY <1>1, <3>1
      <4> QED BY <1>2, <2>1, <4>1
    <3>2. CASE ~(i < p)
      <4>1. i + 1 \in p + 1 .. n + 1 /\ i + 1 \in 1 .. n + 1 /\ (i + 1) - 1 = i
        BY <1>1, <3>2
      <4> QED BY <1>2, <2>1, <4>1
    <3> QED BY <3>1, <3>2
  <2> QED BY <1>1, <2>1, <2>2 DEF AreEvents, n
<1>4. ASSUME AreEvents(s), IsEvent(u[p]) PROVE AreEvents(u)
  <2>1. \A i \in 1 .. n : IsEvent(s[i])
    BY <1>4 DEF AreEvents, n
  <2>2. ASSUME NEW i \in 1 .. n + 1 PROVE IsEvent(u[i])
    <3>1. CASE i < p
      <4>1. i \in 1 .. p - 1 /\ i \in 1 .. n
        BY <1>1, <3>1
      <4> QED BY <1>2, <2>1, <4>1
    <3>2. CASE i = p
      BY <1>4, <3>2
    <3>3. CASE i > p
      <4>1. i \in p + 1 .. n + 1 /\ i - 1 \in 1 .. n
        BY <1>1, <3>3
      <4> QED BY <1>2, <2>1, <4>1
    <3> QED BY <1>1, <3>1, <3>2, <3>3
  <2> QED BY <1>1, <2>2 DEF AreEvents
<1> QED BY <1>3, <1>4

(* The sum of a list of numbers that a list gained. *)
LEMMA SumsInserted ==
    ASSUME NEW u, NEW s, NEW p, Inserts(u, s, p), NEW f, NEW g,
           f \in [DOMAIN s -> Int], g \in [DOMAIN u -> Int],
           \A i \in 1 .. p - 1 : g[i] = f[i],
           \A i \in p + 1 .. Len(s) + 1 : g[i] = f[i - 1]
    PROVE  Total(g) = Total(f) + g[p] /\ Total(f) \in Int /\ g[p] \in Int
<1>. DEFINE n == Len(s)
<1>1. /\ n \in Nat /\ p \in 1 .. n + 1 /\ DOMAIN s = 1 .. n /\ DOMAIN u = 1 .. n + 1
      /\ \A i \in p + 1 .. n + 1 : g[i] = f[i - 1]
  BY DEF Inserts, IsSequence
<1>. HIDE DEF n
<1>2. f \in [1 .. n -> Int] /\ g \in [1 .. n + 1 -> Int]
  BY <1>1
<1> QED BY <1>1, <1>2, TotalInserted

(* What is owed once an event is among those of a loan. *)
LEMMA OwedInserted ==
    ASSUME NEW t, IsTerms(t), NEW u, NEW s, NEW p, Inserts(u, s, p), AreEvents(u)
    PROVE  /\ Owed(t, s) \in Int /\ u[p].paidPrincipal \in Int
           /\ Owed(t, u) = Owed(t, s) - u[p].paidPrincipal
<1>. DEFINE f == [i \in DOMAIN s |-> s[i].paidPrincipal]
            g == [i \in DOMAIN u |-> u[i].paidPrincipal]
<1>1. Owed(t, s) = t.principal - Total(f) /\ Owed(t, u) = t.principal - Total(g)
  BY DEF Owed
<1>2. AreEvents(s)
  BY EventsOf
<1>3. /\ DOMAIN s = 1 .. Len(s) /\ DOMAIN u = 1 .. Len(s) + 1 /\ Len(s) \in Nat /\ p \in 1 .. Len(s) + 1
      /\ Len(u) = Len(s) + 1
  BY DEF Inserts, IsSequence
<1>4. (\A i \in 1 .. p - 1 : u[i] = s[i]) /\ \A i \in p + 1 .. Len(s) + 1 : u[i] = s[i - 1]
  BY DEF Inserts
<1>5. f \in [DOMAIN s -> Int] /\ g \in [DOMAIN u -> Int]
  <2>1. (\A i \in DOMAIN s : s[i].paidPrincipal \in Int) /\ \A i \in DOMAIN u : u[i].paidPrincipal \in Int
    BY <1>2, <1>3, EventAmounts DEF AreEvents
  <2> QED BY <2>1
<1>6. /\ \A i \in 1 .. p - 1 : g[i] = f[i]
      /\ \A i \in p + 1 .. Len(s) + 1 : g[i] = f[i - 1]
      /\ g[p] = u[p].paidPrincipal
  BY <1>3, <1>4
<1>. HIDE DEF f, g
<1>7. Total(g) = Total(f) + g[p] /\ Total(f) \in Int /\ g[p] \in Int
  BY <1>5, <1>6, SumsInserted
<1>8. t.principal \in Int
  BY DEF IsTerms
<1> QED BY <1>1, <1>6, <1>7, <1>8

(* What the events cost an account. *)
Cost(events, a) ==
    Total([i \in DOMAIN events |-> IF events[i].account = a THEN events[i].paidTotal ELSE 0])

(* And what they cost it once there is one more. *)
LEMMA CostInserted ==
    ASSUME NEW a, NEW u, NEW s, NEW p, Inserts(u, s, p), AreEvents(u)
    PROVE  /\ Cost(s, a) \in Int /\ u[p].paidTotal \in Int
           /\ Cost(u, a) = Cost(s, a) + (IF u[p].account = a THEN u[p].paidTotal ELSE 0)
<1>. DEFINE f == [i \in DOMAIN s |-> IF s[i].account = a THEN s[i].paidTotal ELSE 0]
            g == [i \in DOMAIN u |-> IF u[i].account = a THEN u[i].paidTotal ELSE 0]
<1>1. Cost(s, a) = Total(f) /\ Cost(u, a) = Total(g)
  BY DEF Cost
<1>2. AreEvents(s)
  BY EventsOf
<1>3. /\ DOMAIN s = 1 .. Len(s) /\ DOMAIN u = 1 .. Len(s) + 1 /\ Len(s) \in Nat /\ p \in 1 .. Len(s) + 1
      /\ Len(u) = Len(s) + 1
  BY DEF Inserts, IsSequence
<1>4. (\A i \in 1 .. p - 1 : u[i] = s[i]) /\ \A i \in p + 1 .. Len(s) + 1 : u[i] = s[i - 1]
  BY DEF Inserts
<1>5. f \in [DOMAIN s -> Int] /\ g \in [DOMAIN u -> Int] /\ u[p].paidTotal \in Int
  <2>1. (\A i \in DOMAIN s : s[i].paidTotal \in Int) /\ \A i \in DOMAIN u : u[i].paidTotal \in Int
    BY <1>2, <1>3, EventAmounts DEF AreEvents
  <2>2. p \in DOMAIN u
    BY <1>3
  <2> QED BY <2>1, <2>2
<1>6. /\ \A i \in 1 .. p - 1 : g[i] = f[i]
      /\ \A i \in p + 1 .. Len(s) + 1 : g[i] = f[i - 1]
      /\ g[p] = IF u[p].account = a THEN u[p].paidTotal ELSE 0
  BY <1>3, <1>4
<1>. HIDE DEF f, g
<1>7. Total(g) = Total(f) + g[p] /\ Total(f) \in Int /\ g[p] \in Int
  BY <1>5, <1>6, SumsInserted
<1> QED BY <1>1, <1>5, <1>6, <1>7

-----------------------------------------------------------------------------
(* The numbers of the monthly payments *)

(* The library's maximum is the greatest of a finite set of integers. *)
LEMMA GreatestOf ==
    ASSUME NEW S, IsFiniteSet(S), S \subseteq Int, S # {}
    PROVE  Max(S) \in S /\ \A y \in S : y <= Max(S)
<1>2. PICK x \in S : \A y \in S : y <= x
  BY GreatestNumber
<1>3. \A y \in S : x >= y
  BY <1>2
<1>4. Max(S) \in S /\ \A y \in S : Max(S) >= y
  BY <1>3 DEF Max
<1> QED BY <1>4

(* No number is above the last, which is zero or one of them. *)
LEMMA LastNumberIs ==
    ASSUME NEW events, IsSequence(events), AreEvents(events)
    PROVE  /\ LastNumber(events) \in Nat
           /\ \A i \in 1 .. Len(events) : events[i].sequence \in Int
           /\ \A i \in 1 .. Len(events) : events[i].sequence <= LastNumber(events)
           /\ \/ LastNumber(events) = 0
              \/ \E i \in 1 .. Len(events) : events[i].sequence = LastNumber(events)
<1>. DEFINE n == Len(events)
            N == {events[i].sequence : i \in 1 .. n}
            S == {0} \cup N
<1>1. n \in Nat /\ DOMAIN events = 1 .. n
  BY DEF IsSequence
<1>2. \A i \in 1 .. n : events[i].sequence \in Int
  BY EventAmounts DEF AreEvents
<1>. HIDE DEF n
<1>3. IsFiniteSet(S)
  <2>1. IsFiniteSet(1 .. n)
    BY <1>1, FS_Interval
  <2>. DEFINE number == [i \in 1 .. n |-> events[i].sequence]
  <2>2. number \in Surjection(1 .. n, N)
    BY DEF Surjection
  <2>. HIDE DEF N, number
  <2>3. IsFiniteSet(N)
    BY <2>1, <2>2, FS_Surjection
  <2> QED BY <2>3, FS_AddElement, FS_Singleton, FS_Union
<1>4. S \subseteq Int /\ S # {}
  BY <1>2
<1>5. LastNumber(events) = Max(S)
  BY <1>1 DEF LastNumber
<1>6. /\ 0 \in S /\ (\A i \in 1 .. n : events[i].sequence \in S)
      /\ \A x \in S : x = 0 \/ \E i \in 1 .. n : events[i].sequence = x
  OBVIOUS
<1>. HIDE DEF S, N
<1>7. Max(S) \in S /\ \A y \in S : y <= Max(S)
  BY <1>3, <1>4, GreatestOf
<1>8. Max(S) \in Nat
  BY <1>4, <1>6, <1>7
<1> QED BY <1>2, <1>5, <1>6, <1>7, <1>8 DEF n

(* The monthly payments were made in the order of their numbers, and none of *)
(* these is missing: the last event, if it has one, has the highest.          *)
InOrder(events) ==
    /\ \A i, j \in 1 .. Len(events) :
           i < j /\ events[i].sequence > 0 /\ events[j].sequence > 0 =>
               events[i].sequence < events[j].sequence
    /\ \A n \in 1 .. LastNumber(events) : \E i \in 1 .. Len(events) : events[i].sequence = n

(* An event without a number leaves the order as it was, in whatever place. *)
LEMMA UnnumberedInserted ==
    ASSUME NEW u, NEW s, NEW p, Inserts(u, s, p), AreEvents(u), InOrder(s), u[p].sequence <= 0
    PROVE  InOrder(u)
<1>. DEFINE n == Len(s)
            a == LastNumber(s)
            b == LastNumber(u)
            old == [i \in 1 .. n + 1 |-> IF i < p THEN i ELSE i - 1]
            new == [i \in 1 .. n |-> IF i < p THEN i ELSE i + 1]
<1>1. /\ n \in Nat /\ p \in 1 .. n + 1 /\ Len(u) = n + 1 /\ IsSequence(s) /\ IsSequence(u)
      /\ \A i \in 1 .. p - 1 : u[i] = s[i]
      /\ \A i \in p + 1 .. n + 1 : u[i] = s[i - 1]
  BY DEF Inserts, IsSequence
<1>2. AreEvents(s)
  BY EventsOf
<1>3. /\ a \in Nat /\ \A i \in 1 .. n : s[i].sequence \in Int /\ s[i].sequence <= a
  BY <1>1, <1>2, LastNumberIs
<1>4. /\ b \in Nat /\ \A i \in 1 .. n + 1 : u[i].sequence \in Int
      /\ (b = 0 \/ \E i \in 1 .. n + 1 : u[i].sequence = b)
  BY <1>1, LastNumberIs
<1>5. /\ \A i, j \in 1 .. n : i < j /\ s[i].sequence > 0 /\ s[j].sequence > 0 => s[i].sequence < s[j].sequence
      /\ \A m \in 1 .. a : \E i \in 1 .. n : s[i].sequence = m
  BY DEF InOrder
<1>. HIDE DEF n, a, b
<1>6. \A i \in 1 .. n + 1 : i # p => old[i] \in 1 .. n /\ u[i] = s[old[i]]
  <2>. SUFFICES ASSUME NEW i \in 1 .. n + 1, i # p PROVE old[i] \in 1 .. n /\ u[i] = s[old[i]]
    OBVIOUS
  <2>1. CASE i < p
    <3>1. i \in 1 .. p - 1 /\ i \in 1 .. n /\ old[i] = i
      BY <1>1, <2>1
    <3> QED BY <1>1, <3>1
  <2>2. CASE ~(i < p)
    <3>1. i \in p + 1 .. n + 1 /\ i - 1 \in 1 .. n /\ old[i] = i - 1
      BY <1>1, <2>2
    <3> QED BY <1>1, <3>1
  <2> QED BY <2>1, <2>2
<1>7. \A i \in 1 .. n : new[i] \in 1 .. n + 1 /\ u[new[i]] = s[i]
  <2>. SUFFICES ASSUME NEW i \in 1 .. n PROVE new[i] \in 1 .. n + 1 /\ u[new[i]] = s[i]
    OBVIOUS
  <2>1. CASE i < p
    <3>1. i \in 1 .. p - 1 /\ i \in 1 .. n + 1 /\ new[i] = i
      BY <1>1, <2>1
    <3> QED BY <1>1, <3>1
  <2>2. CASE ~(i < p)
    <3>1. i + 1 \in p + 1 .. n + 1 /\ i + 1 \in 1 .. n + 1 /\ new[i] = i + 1 /\ (i + 1) - 1 = i
      BY <1>1, <2>2
    <3> QED BY <1>1, <3>1
  <2> QED BY <2>1, <2>2
<1>8. \A i, j \in 1 .. n + 1 : i # p /\ j # p /\ i < j => old[i] < old[j]
  BY <1>1
<1>. HIDE DEF old, new
<1>9. ASSUME NEW i \in 1 .. n + 1, NEW j \in 1 .. n + 1, i < j, u[i].sequence > 0, u[j].sequence > 0
      PROVE  u[i].sequence < u[j].sequence
  <2>1. i # p /\ j # p
    <3>1. \A x \in Int : ~(x <= 0 /\ x > 0)
      OBVIOUS
    <3> QED BY <1>4, <1>9, <3>1
  <2>2. old[i] \in 1 .. n /\ old[j] \in 1 .. n /\ old[i] < old[j] /\ u[i] = s[old[i]] /\ u[j] = s[old[j]]
    BY <1>6, <1>8, <1>9, <2>1
  <2> QED BY <1>5, <1>9, <2>2
<1>10. b <= a
  <2>1. CASE b = 0
    BY <1>3, <2>1
  <2>2. ASSUME NEW i \in 1 .. n + 1, u[i].sequence = b PROVE b <= a
    <3>1. CASE i = p
      BY <1>3, <1>4, <2>2, <3>1
    <3>2. CASE i # p
      BY <1>3, <1>6, <2>2, <3>2
    <3> QED BY <3>1, <3>2
  <2> QED BY <1>4, <2>1, <2>2
<1>11. ASSUME NEW m \in 1 .. b PROVE \E i \in 1 .. n + 1 : u[i].sequence = m
  <2>1. m \in 1 .. a
    BY <1>3, <1>4, <1>10
  <2>2. PICK i \in 1 .. n : s[i].sequence = m
    BY <1>5, <2>1
  <2> QED BY <1>7, <2>2
<1> QED BY <1>1, <1>9, <1>11 DEF InOrder, b

(* A monthly payment made after all the others takes the next number. *)
LEMMA NumberedAppended ==
    ASSUME NEW u, NEW s, Inserts(u, s, Len(s) + 1), AreEvents(u), InOrder(s),
           u[Len(s) + 1].sequence = LastNumber(s) + 1
    PROVE  InOrder(u)
<1>. DEFINE n == Len(s)
            a == LastNumber(s)
            b == LastNumber(u)
<1>1. /\ n \in Nat /\ Len(u) = n + 1 /\ IsSequence(s) /\ IsSequence(u)
      /\ \A i \in 1 .. n : u[i] = s[i]
  <2>1. /\ n \in Nat /\ Len(u) = n + 1 /\ IsSequence(s) /\ IsSequence(u)
        /\ \A i \in 1 .. (n + 1) - 1 : u[i] = s[i]
    BY DEF Inserts, IsSequence
  <2>. HIDE DEF n
  <2>2. (n + 1) - 1 = n
    BY <2>1
  <2> QED BY <2>1, <2>2
<1>2. AreEvents(s)
  BY EventsOf
<1>3. /\ a \in Nat /\ \A i \in 1 .. n : s[i].sequence \in Int /\ s[i].sequence <= a
  BY <1>1, <1>2, LastNumberIs
<1>4. /\ b \in Nat /\ \A i \in 1 .. n + 1 : u[i].sequence \in Int
      /\ (b = 0 \/ \E i \in 1 .. n + 1 : u[i].sequence = b)
  BY <1>1, LastNumberIs
<1>5. /\ \A i, j \in 1 .. n : i < j /\ s[i].sequence > 0 /\ s[j].sequence > 0 => s[i].sequence < s[j].sequence
      /\ \A m \in 1 .. a : \E i \in 1 .. n : s[i].sequence = m
  BY DEF InOrder
<1>6. u[n + 1].sequence = a + 1
  OBVIOUS
<1>. HIDE DEF n, a, b
<1>7. \A i \in 1 .. n + 1 : i = n + 1 \/ i \in 1 .. n
  BY <1>1
<1>8. \A i \in 1 .. n : i \in 1 .. n + 1
  BY <1>1
<1>9. ASSUME NEW i \in 1 .. n + 1, NEW j \in 1 .. n + 1, i < j, u[i].sequence > 0, u[j].sequence > 0
      PROVE  u[i].sequence < u[j].sequence
  <2>1. i \in 1 .. n
    BY <1>1, <1>9
  <2>2. CASE j = n + 1
    <3>1. u[i].sequence \in Int /\ u[i].sequence <= a /\ u[j].sequence = a + 1
      BY <1>1, <1>3, <1>6, <2>1, <2>2
    <3> QED BY <1>3, <3>1
  <2>3. CASE j \in 1 .. n
    BY <1>1, <1>5, <1>9, <2>1, <2>3
  <2> QED BY <1>7, <2>2, <2>3
<1>10. b <= a + 1
  <2>1. CASE b = 0
    BY <1>3, <2>1
  <2>2. ASSUME NEW i \in 1 .. n + 1, u[i].sequence = b PROVE b <= a + 1
    <3>1. CASE i = n + 1
      BY <1>3, <1>6, <2>2, <3>1
    <3>2. CASE i \in 1 .. n
      <4>1. b <= a
        BY <1>1, <1>3, <2>2, <3>2
      <4> QED BY <1>3, <1>4, <4>1
    <3> QED BY <1>7, <3>1, <3>2
  <2> QED BY <1>4, <2>1, <2>2
<1>11. ASSUME NEW m \in 1 .. b PROVE \E i \in 1 .. n + 1 : u[i].sequence = m
  <2>1. m \in 1 .. a \/ m = a + 1
    BY <1>3, <1>4, <1>10
  <2>2. CASE m \in 1 .. a
    <3>1. PICK i \in 1 .. n : s[i].sequence = m
      BY <1>5, <2>2
    <3> QED BY <1>1, <1>8, <3>1
  <2>3. CASE m = a + 1
    <3>1. n + 1 \in 1 .. n + 1
      BY <1>1
    <3> QED BY <1>6, <2>3, <3>1
  <2> QED BY <2>1, <2>2, <2>3
<1> QED BY <1>1, <1>9, <1>11 DEF InOrder, b

(* Without their last the events are in order too. *)
LEMMA FrontInOrder ==
    ASSUME NEW u, NEW s, Inserts(u, s, Len(s) + 1), AreEvents(u), InOrder(u)
    PROVE  InOrder(s)
<1>. DEFINE n == Len(s)
            a == LastNumber(s)
            b == LastNumber(u)
<1>1. /\ n \in Nat /\ Len(u) = n + 1 /\ IsSequence(s) /\ IsSequence(u)
      /\ \A i \in 1 .. n : u[i] = s[i]
  <2>1. /\ n \in Nat /\ Len(u) = n + 1 /\ IsSequence(s) /\ IsSequence(u)
        /\ \A i \in 1 .. (n + 1) - 1 : u[i] = s[i]
    BY DEF Inserts, IsSequence
  <2>. HIDE DEF n
  <2>2. (n + 1) - 1 = n
    BY <2>1
  <2> QED BY <2>1, <2>2
<1>2. AreEvents(s)
  BY EventsOf
<1>3. /\ a \in Nat /\ (\A i \in 1 .. n : s[i].sequence \in Int)
      /\ (a = 0 \/ \E i \in 1 .. n : s[i].sequence = a)
  BY <1>1, <1>2, LastNumberIs
<1>4. /\ b \in Nat /\ \A i \in 1 .. n + 1 : u[i].sequence \in Int /\ u[i].sequence <= b
  BY <1>1, LastNumberIs
<1>5. /\ \A i, j \in 1 .. n + 1 : i < j /\ u[i].sequence > 0 /\ u[j].sequence > 0 => u[i].sequence < u[j].sequence
      /\ \A m \in 1 .. b : \E i \in 1 .. n + 1 : u[i].sequence = m
  BY <1>1 DEF InOrder
<1>. HIDE DEF n, a, b
<1>7. \A i \in 1 .. n + 1 : i = n + 1 \/ i \in 1 .. n
  BY <1>1
<1>8. \A i \in 1 .. n : i \in 1 .. n + 1
  BY <1>1
<1>9. \A i, j \in 1 .. n : i < j /\ s[i].sequence > 0 /\ s[j].sequence > 0 => s[i].sequence < s[j].sequence
  BY <1>1, <1>5, <1>8
<1>10. ASSUME NEW m \in 1 .. a PROVE \E i \in 1 .. n : s[i].sequence = m
  <2>1. PICK j \in 1 .. n : s[j].sequence = a
    BY <1>3, <1>10
  <2>2. u[j].sequence = a /\ a <= b /\ j \in 1 .. n + 1
    BY <1>1, <1>4, <1>8, <2>1
  <2>3. m \in 1 .. b
    BY <1>3, <1>4, <2>2
  <2>4. PICK i \in 1 .. n + 1 : u[i].sequence = m
    BY <1>5, <2>3
  <2>5. i # n + 1
    <3>. SUFFICES ASSUME i = n + 1 PROVE FALSE
      OBVIOUS
    <3>1. j < i /\ u[j].sequence > 0 /\ u[i].sequence > 0
      BY <1>1, <1>3, <2>2, <2>4
    <3>2. a < m
      BY <1>5, <2>2, <2>4, <3>1
    <3> QED BY <1>3, <3>2
  <2> QED BY <1>1, <1>7, <2>4, <2>5
<1> QED BY <1>9, <1>10 DEF InOrder, n, a

-----------------------------------------------------------------------------
(* What is never overpaid *)

FirstOnes(events, k) == [i \in 1 .. k |-> events[i]]

(* As far as the events are dated in the order in which they took effect, no *)
(* more was repaid than was owed.                                            *)
NeverBelow(t, events) ==
    \A k \in 0 .. Len(events) :
        (\A i \in 1 .. k : events[i].since = i - 1) => Owed(t, FirstOnes(events, k)) >= 0

(* An event that is dated before another does not count for this; the last *)
(* one is to leave no negative debt.                                       *)
LEMMA NeverBelowInserted ==
    ASSUME NEW t, NEW u, NEW s, NEW p, Inserts(u, s, p), NeverBelow(t, s),
           u[p].since = Len(s), p = Len(s) + 1 => Owed(t, u) >= 0
    PROVE  NeverBelow(t, u)
<1>. DEFINE n == Len(s)
<1>1. /\ n \in Nat /\ Len(u) = n + 1 /\ p \in 1 .. n + 1
      /\ u = [i \in 1 .. n + 1 |-> u[i]]
      /\ \A i \in 1 .. p - 1 : u[i] = s[i]
  BY DEF Inserts, IsSequence
<1>2. u[p].since = n /\ (p = n + 1 => Owed(t, u) >= 0)
  OBVIOUS
<1>3. \A k \in 0 .. n : (\A i \in 1 .. k : s[i].since = i - 1) => Owed(t, FirstOnes(s, k)) >= 0
  BY DEF NeverBelow
<1>. HIDE DEF n
<1>4. ASSUME NEW k \in 0 .. n + 1, \A i \in 1 .. k : u[i].since = i - 1
      PROVE  Owed(t, FirstOnes(u, k)) >= 0
  <2>1. CASE k < p
    <3>0. n \in Nat /\ p \in 1 .. n + 1 /\ \A i \in 1 .. k : i \in 1 .. p - 1
      <4>1. n \in Nat /\ p \in 1 .. n + 1
        BY <1>1
      <4> QED BY <2>1, <4>1
    <3>1. \A i \in 1 .. k : u[i] = s[i]
      BY <1>1, <3>0, Zenon
    <3>2. FirstOnes(u, k) = FirstOnes(s, k)
      BY <3>1 DEF FirstOnes
    <3>3. k \in 0 .. n /\ \A i \in 1 .. k : s[i].since = i - 1
      <4>1. k \in 0 .. n
        BY <2>1, <3>0
      <4>2. \A i \in 1 .. k : s[i].since = i - 1
        BY <1>4, <3>1
      <4> QED BY <4>1, <4>2
    <3> QED BY <1>3, <3>2, <3>3
  <2>2. CASE ~(k < p)
    <3>1. p \in 1 .. k
      BY <1>1, <2>2
    <3>2. u[p].since = p - 1
      BY <1>4, <3>1
    <3>3. p = n + 1 /\ k = n + 1
      BY <1>1, <1>2, <2>2, <3>2
    <3>4. FirstOnes(u, k) = u
      BY <1>1, <3>3 DEF FirstOnes
    <3> QED BY <1>2, <3>3, <3>4
  <2> QED BY <2>1, <2>2
<1> QED BY <1>1, <1>4 DEF NeverBelow

(* Nor does undoing the last event. *)
LEMMA NeverBelowFront ==
    ASSUME NEW t, NEW u, NEW s, Inserts(u, s, Len(s) + 1), NeverBelow(t, u)
    PROVE  NeverBelow(t, s)
<1>. DEFINE n == Len(s)
<1>1. /\ n \in Nat /\ Len(u) = n + 1
      /\ \A i \in 1 .. (n + 1) - 1 : u[i] = s[i]
  BY DEF Inserts, IsSequence
<1>2. \A k \in 0 .. n + 1 : (\A i \in 1 .. k : u[i].since = i - 1) => Owed(t, FirstOnes(u, k)) >= 0
  BY <1>1 DEF NeverBelow
<1>. HIDE DEF n
<1>3. ASSUME NEW k \in 0 .. n, \A i \in 1 .. k : s[i].since = i - 1
      PROVE  Owed(t, FirstOnes(s, k)) >= 0
  <2>1. k \in 0 .. n + 1 /\ \A i \in 1 .. k : u[i] = s[i]
    BY <1>1
  <2>2. FirstOnes(u, k) = FirstOnes(s, k)
    BY <2>1 DEF FirstOnes
  <2> QED BY <1>2, <1>3, <2>1, <2>2
<1> QED BY <1>3 DEF NeverBelow, n

-----------------------------------------------------------------------------
(* The inductive invariant *)

AreRows(rows) == \A i \in 1 .. Len(rows) : IsRow(rows[i])

(* LoansTypeOK but for the dates and the signs of the expenses, for which see *)
(* LoansTyped below.                                                          *)
Typed ==
    /\ loan \in LoanRows \cup {Fresh, Deleted}
    /\ IsSequence(pending) /\ AreRows(pending)
    /\ IsSequence(settled) /\ AreEvents(settled)
    /\ receipts \subseteq Keys
    /\ spent \in [Accounts -> Int]
    /\ late \in 0 .. Len(settled) \cup {None}

Follow(rows, n) == \A i \in 1 .. Len(rows) : rows[i].sequence = n + i

(* The pending payments repay what is owed. *)
PendingRepay ==
    Exists => /\ loan.status = "paid_off" <=> Remaining <= 0
              /\ Repaid(pending) = IF Remaining > 0 THEN Remaining ELSE 0

NothingWithoutLoan == ~Exists => settled = <<>> /\ pending = <<>>

ExpensesBooked == \A a \in Accounts : spent[a] = Cost(settled, a)

LoanInv ==
    /\ Typed
    /\ InOrder(settled)
    /\ Follow(pending, LastNumber(settled))
    /\ PendingRepay
    /\ Exists => NeverBelow(loan.terms, settled)
    /\ NothingWithoutLoan
    /\ ExpensesBooked

(* A loan that exists is a row; and the other way round. *)
LEMMA ExistingLoans ==
    /\ loan \in LoanRows \cup {Fresh, Deleted} => (Exists <=> loan \in LoanRows)
    /\ \A l \in LoanRows : IsTerms(l.terms) /\ l.terms \in Terms /\ l.account \in Payable
<1>1. loan \in LoanRows \cup {Fresh, Deleted} => (Exists <=> loan \in LoanRows)
  BY LoansConstants DEF Exists
<1>2. ASSUME NEW l \in LoanRows PROVE IsTerms(l.terms) /\ l.terms \in Terms /\ l.account \in Payable
  <2>1. l.terms \in Terms /\ l.account \in Payable
    BY DEF LoanRows
  <2>2. /\ Periods \in Nat /\ l.terms.months \in 1 .. Periods
        /\ {l.terms.principal, l.terms.rate, l.terms.payment} \subseteq Nat
    BY <2>1, LoansConstants
  <2> QED BY <2>1, <2>2 DEF IsTerms
<1> QED BY <1>1, <1>2

(* With no events the whole principal is owed, and nothing was spent. *)
LEMMA NoEvents ==
    /\ AreEvents(<<>>) /\ InOrder(<<>>) /\ LastNumber(<<>>) = 0
    /\ \A t : IsTerms(t) => Owed(t, <<>>) = t.principal /\ NeverBelow(t, <<>>)
    /\ \A a : Cost(<<>>, a) = 0
<1>1. IsSequence(<<>>) /\ Len(<<>>) = 0 /\ DOMAIN <<>> = {} /\ \A i \in 1 .. Len(<<>>) : FALSE
  BY NoList
<1>2. AreEvents(<<>>)
  BY <1>1 DEF AreEvents
<1>3. LastNumber(<<>>) = 0
  BY <1>1, <1>2, LastNumberIs
<1>4. \A n \in 1 .. LastNumber(<<>>) : FALSE
  BY <1>3
<1>5. InOrder(<<>>)
  BY <1>1, <1>4 DEF InOrder
<1>6. ASSUME NEW t, IsTerms(t) PROVE Owed(t, <<>>) = t.principal
  <2>. DEFINE f == [i \in DOMAIN <<>> |-> <<>>[i].paidPrincipal]
  <2>1. DOMAIN f = {}
    BY <1>1
  <2>. HIDE DEF f
  <2>2. Total(f) = 0
    BY <2>1, TotalEmpty
  <2>3. Owed(t, <<>>) = t.principal - Total(f)
    BY DEF Owed, f
  <2> QED BY <1>6, <2>2, <2>3 DEF IsTerms
<1>7. ASSUME NEW t, IsTerms(t) PROVE NeverBelow(t, <<>>)
  <2>1. ASSUME NEW k \in 0 .. Len(<<>>) PROVE Owed(t, FirstOnes(<<>>, k)) >= 0
    <3>1. k = 0
      BY <1>1, <2>1
    <3>2. DOMAIN FirstOnes(<<>>, k) = {}
      BY <3>1 DEF FirstOnes
    <3>. DEFINE f == [i \in DOMAIN FirstOnes(<<>>, k) |-> FirstOnes(<<>>, k)[i].paidPrincipal]
    <3>3. DOMAIN f = {}
      BY <3>2
    <3>. HIDE DEF f
    <3>4. Total(f) = 0
      BY <3>3, TotalEmpty
    <3>5. Owed(t, FirstOnes(<<>>, k)) = t.principal - Total(f)
      BY DEF Owed, f
    <3> QED BY <1>7, <3>4, <3>5 DEF IsTerms
  <2> QED BY <2>1 DEF NeverBelow
<1>8. ASSUME NEW a PROVE Cost(<<>>, a) = 0
  <2>. DEFINE f == [i \in DOMAIN <<>> |-> IF <<>>[i].account = a THEN <<>>[i].paidTotal ELSE 0]
  <2>1. DOMAIN f = {}
    BY <1>1
  <2>. HIDE DEF f
  <2>2. Total(f) = 0
    BY <2>1, TotalEmpty
  <2> QED BY <2>2 DEF Cost, f
<1> QED BY <1>2, <1>3, <1>5, <1>6, <1>7, <1>8

(* What is owed is a number of cents. *)
LEMMA OwedType ==
    ASSUME NEW t, IsTerms(t), NEW events, IsSequence(events), AreEvents(events)
    PROVE  Owed(t, events) \in Int
<1>. DEFINE f == [i \in DOMAIN events |-> events[i].paidPrincipal]
            n == Len(events)
<1>1. n \in Nat /\ DOMAIN events = 1 .. n
  BY DEF IsSequence
<1>2. \A i \in 1 .. n : events[i].paidPrincipal \in Int
  BY EventAmounts DEF AreEvents
<1>. HIDE DEF n
<1>3. IsFiniteSet(1 .. n)
  BY <1>1, FS_Interval
<1>4. f \in [1 .. n -> Int]
  BY <1>1, <1>2
<1>. HIDE DEF f
<1>5. Total(f) \in Int
  BY <1>3, <1>4, TotalType
<1>6. Owed(t, events) = t.principal - Total(f) /\ t.principal \in Int
  BY DEF Owed, f, IsTerms
<1> QED BY <1>5, <1>6

(* The schedule rebuilt after an event repays what is owed then, and its *)
(* payments follow those made.                                            *)
LEMMA Regenerated ==
    ASSUME Typed, Exists, NEW events, IsSequence(events), AreEvents(events),
           settled' = events, NEW next, NEW fallback, Regenerate(events, next, fallback)
    PROVE  /\ loan' \in LoanRows /\ loan'.terms = loan.terms /\ Exists'
           /\ IsSequence(pending') /\ AreRows(pending')
           /\ Follow(pending', LastNumber(events))
           /\ PendingRepay'
<1>. DEFINE t == loan.terms
            owed == Owed(t, events)
            month == FirstMonth(t, events, next, fallback)
            rows == BuildSchedule(owed, t, Periods, month)
<1>1. loan \in LoanRows /\ IsTerms(t)
  BY ExistingLoans DEF Typed
<1>2. owed \in Int
  BY <1>1, OwedType
<1>3. /\ owed > 0 => Closes(rows, owed)
      /\ pending' = IF owed > 0 THEN Renumbered(rows, LastNumber(events)) ELSE <<>>
      /\ loan' = [loan EXCEPT !.status = IF owed <= 0 THEN "paid_off" ELSE "active"]
  BY DEF Regenerate
<1>. HIDE DEF month, rows, owed
<1>4. /\ loan' \in LoanRows /\ loan'.terms = t
      /\ loan'.status = IF owed <= 0 THEN "paid_off" ELSE "active"
  BY <1>1, <1>3 DEF LoanRows
<1>5. Exists'
  BY <1>4, LoansConstants DEF Exists
<1>6. Remaining' = owed
  BY <1>4 DEF Remaining, owed
<1>7. LastNumber(events) \in Nat
  BY LastNumberIs
<1>8. CASE owed > 0
  <2>1. owed \in Nat /\ Periods \in Nat
    BY <1>2, <1>8, LoansConstants
  <2>2. IsSequence(rows) /\ \A i \in 1 .. Len(rows) : IsPayment(rows[i], i, t, month)
    BY <1>1, <2>1, ScheduleRows DEF rows
  <2>3. \A i \in 1 .. Len(rows) : IsRow(rows[i])
    BY <2>2, PaymentIs
  <2>. DEFINE moved == Renumbered(rows, LastNumber(events))
  <2>4. /\ IsSequence(moved)
        /\ \A i \in 1 .. Len(moved) : IsRow(moved[i]) /\ moved[i].sequence = LastNumber(events) + i
        /\ Repaid(moved) = Repaid(rows)
    BY <1>7, <2>2, <2>3, RenumberedRows
  <2>5. pending' = moved
    BY <1>3, <1>8
  <2>. HIDE DEF moved
  <2>6. Repaid(rows) = owed
    BY <1>3, <1>8 DEF Closes
  <2>7. IsSequence(pending') /\ AreRows(pending') /\ Follow(pending', LastNumber(events))
    BY <2>4, <2>5 DEF AreRows, Follow
  <2>8. Repaid(pending') = owed /\ loan'.status = "active"
    BY <1>2, <1>4, <1>8, <2>4, <2>5, <2>6
  <2>9. PendingRepay'
    BY <1>2, <1>6, <1>8, <2>8 DEF PendingRepay
  <2> QED BY <1>4, <1>5, <2>7, <2>9
<1>9. CASE ~(owed > 0)
  <2>1. pending' = <<>> /\ loan'.status = "paid_off"
    BY <1>2, <1>3, <1>4, <1>9
  <2>2. IsSequence(<<>>) /\ \A i \in 1 .. Len(<<>>) : FALSE
    BY NoList
  <2>3. IsSequence(pending') /\ AreRows(pending') /\ Follow(pending', LastNumber(events))
    BY <2>1, <2>2 DEF AreRows, Follow
  <2>4. Repaid(pending') = 0
    BY <2>1, NothingRepaid
  <2>5. PendingRepay'
    BY <1>2, <1>6, <1>9, <2>1, <2>4 DEF PendingRepay
  <2> QED BY <1>4, <1>5, <2>3, <2>5
<1> QED BY <1>8, <1>9

(* Recording an event keeps the invariant: an extra payment or adjustment, in *)
(* the place of the request, or the next monthly payment, after all others.   *)
LEMMA EventRecorded ==
    ASSUME LoanInv, Exists, NEW waited \in BOOLEAN, Served(waited),
           NEW e, IsEvent(e), e.since = Len(settled), e.paidPrincipal <= Remaining,
           e.sequence <= 0 \/ (~waited /\ e.sequence = LastNumber(settled) + 1),
           settled' = Recorded(e, waited),
           NEW next, NEW fallback, Regenerate(Recorded(e, waited), next, fallback),
           receipts' \subseteq Keys, spent' \in [Accounts -> Int],
           \A a \in Accounts : spent'[a] = spent[a] + (IF e.account = a THEN e.paidTotal ELSE 0)
    PROVE  LoanInv'
<1>. DEFINE u == Recorded(e, waited)
            p == Place(waited) + 1
            n == Len(settled)
            t == loan.terms
<1>1. /\ IsSequence(settled) /\ AreEvents(settled) /\ n \in Nat
      /\ late \in 0 .. n \cup {None}
  BY DEF LoanInv, Typed, IsSequence
<1>2. IsTerms(t)
  BY ExistingLoans DEF LoanInv, Typed
<1>3. Place(waited) \in 0 .. n
  BY <1>1 DEF Place, Served
<1>4. p \in 1 .. n + 1
  BY <1>1, <1>3
<1>5. Inserts(u, settled, p) /\ u[p] = e
  <2>1. Inserts(InsertAt(settled, p, e), settled, p) /\ InsertAt(settled, p, e)[p] = e
    BY <1>1, <1>4, InsertsOne
  <2> QED BY <2>1 DEF Recorded
<1>6. ~waited => p = n + 1
  BY DEF Place
<1>. HIDE DEF u, p, n
<1>7. AreEvents(u)
  BY <1>1, <1>5, EventsOf
<1>8. IsSequence(u) /\ Len(u) = n + 1
  BY <1>5 DEF Inserts, n
<1>9. settled' = u /\ Regenerate(u, next, fallback)
  BY DEF u
<1>10. /\ loan' \in LoanRows /\ loan'.terms = t /\ Exists'
       /\ IsSequence(pending') /\ AreRows(pending')
       /\ Follow(pending', LastNumber(u))
       /\ PendingRepay'
  <2>1. Typed
    BY DEF LoanInv
  <2> QED BY <1>7, <1>8, <1>9, <2>1, Regenerated
<1>11. late' \in 0 .. Len(u) \cup {None}
  BY <1>1, <1>8 DEF Served
<1>12. Typed'
  BY <1>7, <1>8, <1>9, <1>10, <1>11 DEF Typed
<1>13. InOrder(u)
  <2>1. InOrder(settled)
    BY DEF LoanInv
  <2>2. CASE e.sequence <= 0
    BY <1>5, <1>7, <2>1, <2>2, UnnumberedInserted
  <2>3. CASE ~waited /\ e.sequence = LastNumber(settled) + 1
    BY <1>5, <1>6, <1>7, <2>1, <2>3, NumberedAppended DEF n
  <2> QED BY <2>2, <2>3
<1>14. NeverBelow(t, u)
  <2>1. NeverBelow(t, settled)
    BY DEF LoanInv
  <2>2. Owed(t, settled) \in Int /\ e.paidPrincipal \in Int /\ Owed(t, u) = Owed(t, settled) - e.paidPrincipal
    BY <1>2, <1>5, <1>7, OwedInserted
  <2>3. e.paidPrincipal <= Owed(t, settled)
    BY DEF Remaining
  <2>4. Owed(t, u) >= 0
    BY <2>2, <2>3
  <2>5. u[p].since = Len(settled)
    BY <1>5
  <2> QED BY <1>5, <2>1, <2>4, <2>5, NeverBelowInserted
<1>15. ExpensesBooked'
  <2>1. ASSUME NEW a \in Accounts PROVE spent'[a] = Cost(u, a)
    <3>1. Cost(u, a) = Cost(settled, a) + (IF e.account = a THEN e.paidTotal ELSE 0)
      BY <1>5, <1>7, CostInserted
    <3>2. spent[a] = Cost(settled, a)
      BY DEF LoanInv, ExpensesBooked
    <3> QED BY <3>1, <3>2
  <2> QED BY <1>9, <2>1 DEF ExpensesBooked
<1>16. InOrder(settled') /\ Follow(pending', LastNumber(settled'))
  BY <1>9, <1>10, <1>13
<1>17. NeverBelow(loan'.terms, settled')
  BY <1>9, <1>10, <1>14
<1>18. NothingWithoutLoan'
  BY <1>10 DEF NothingWithoutLoan
<1> QED BY <1>10, <1>12, <1>15, <1>16, <1>17, <1>18 DEF LoanInv

(* What the schedule is paid as when the request does not say. *)
LEMMA GivenAmount ==
    ASSUME NEW v \in Nat \cup {None}, NEW s \in Nat
    PROVE  Given(v, s) \in Nat
  BY DEF Given

(* Pay keeps the invariant. *)
LEMMA PayKeeps ==
    ASSUME LoanInv, NEW in \in Overrides, NEW date, Pay(in, date)
    PROVE  LoanInv'
<1>. DEFINE row       == pending[1]
            scheduled == row.principal + row.interest
            total     == Given(in.total, scheduled)
            principal == Given(in.principal, row.principal)
            interest  == Given(in.interest, row.interest)
            e == Event(row.sequence, row.due, principal, interest, total, date, loan.account)
<1>1. /\ Exists /\ pending # <<>> /\ principal <= Remaining
      /\ Covers(total, principal, interest)
      /\ loan.account \in Payable /\ Served(FALSE)
      /\ settled' = Recorded(e, FALSE)
      /\ Regenerate(Recorded(e, FALSE), NextDue(Tail(pending)), None)
      /\ Charge(loan.account, total) /\ UNCHANGED receipts
  BY DEF Pay
<1>2. IsRow(row) /\ row.sequence = LastNumber(settled) + 1
  <2>1. IsSequence(pending) /\ AreRows(pending) /\ Follow(pending, LastNumber(settled))
    BY DEF LoanInv, Typed
  <2>2. 1 \in 1 .. Len(pending)
    BY <1>1, <2>1, NoList DEF IsSequence
  <2> QED BY <2>1, <2>2 DEF AreRows, Follow
<1>. HIDE DEF row
<1>3. principal \in Nat /\ interest \in Nat /\ total \in Nat
  <2>1. /\ in.principal \in Nat \cup {None} /\ in.interest \in Nat \cup {None}
        /\ in.total \in Nat \cup {None}
    BY LoansConstants
  <2>2. row.principal \in Nat /\ row.interest \in Nat /\ scheduled \in Nat
    BY <1>2 DEF IsRow
  <2>. HIDE DEF scheduled
  <2> QED BY <2>1, <2>2, GivenAmount
<1>. HIDE DEF principal, interest, total
<1>4. total >= principal + interest
  BY <1>1, <1>3 DEF Covers
<1>5. /\ e.sequence = row.sequence /\ e.paidPrincipal = principal /\ e.paidInterest = interest
      /\ e.paidTotal = total /\ e.account = loan.account /\ e.since = Len(settled)
  BY DEF Event
<1>. HIDE DEF e
<1>6. IsEvent(e)
  BY <1>1, <1>2, <1>3, <1>4, <1>5 DEF IsEvent, IsRow
<1>7. /\ spent \in [Accounts -> Int] /\ receipts \subseteq Keys
      /\ loan.account \in Accounts
  BY <1>1, LoansConstants DEF LoanInv, Typed
<1>8. spent' = [spent EXCEPT ![loan.account] = @ + total]
  BY <1>1 DEF Charge
<1>9. /\ spent' \in [Accounts -> Int]
      /\ \A a \in Accounts : spent'[a] = spent[a] + (IF e.account = a THEN e.paidTotal ELSE 0)
  BY <1>3, <1>5, <1>7, <1>8
<1>10. receipts' \subseteq Keys
  BY <1>1, <1>7
<1>11. e.paidPrincipal <= Remaining /\ e.sequence = LastNumber(settled) + 1 /\ e.since = Len(settled)
  BY <1>1, <1>2, <1>5
<1>. HIDE DEF LoanInv
<1> QED BY <1>1, <1>6, <1>9, <1>10, <1>11, EventRecorded

(* AddExtraPayment keeps the invariant. *)
LEMMA ExtraKeeps ==
    ASSUME LoanInv, NEW k \in Keys, NEW n \in Int, n > 0, NEW date, NEW waited \in BOOLEAN,
           AddExtraPayment(k, n, date, waited)
    PROVE  LoanInv'
<1>. DEFINE e == Event(0, date, n, 0, n, date, loan.account)
<1>1. /\ Exists /\ n <= Remaining /\ loan.account \in Payable /\ Served(waited)
      /\ settled' = Recorded(e, waited)
      /\ Regenerate(Recorded(e, waited), NextDue(pending), None)
      /\ Charge(loan.account, n) /\ receipts' = receipts \cup {k}
  BY DEF AddExtraPayment
<1>2. /\ e.sequence = 0 /\ e.paidPrincipal = n /\ e.paidInterest = 0
      /\ e.paidTotal = n /\ e.account = loan.account /\ e.since = Len(settled)
  BY DEF Event
<1>. HIDE DEF e
<1>3. IsEvent(e)
  BY <1>1, <1>2 DEF IsEvent
<1>4. /\ spent \in [Accounts -> Int] /\ receipts \subseteq Keys
      /\ loan.account \in Accounts
  BY <1>1, LoansConstants DEF LoanInv, Typed
<1>5. spent' = [spent EXCEPT ![loan.account] = @ + n]
  BY <1>1 DEF Charge
<1>6. /\ spent' \in [Accounts -> Int]
      /\ \A a \in Accounts : spent'[a] = spent[a] + (IF e.account = a THEN e.paidTotal ELSE 0)
  BY <1>2, <1>4, <1>5
<1>7. receipts' \subseteq Keys
  BY <1>1, <1>4
<1>8. e.paidPrincipal <= Remaining /\ e.sequence <= 0 /\ e.since = Len(settled)
  BY <1>1, <1>2
<1>. HIDE DEF LoanInv
<1> QED BY <1>1, <1>3, <1>6, <1>7, <1>8, EventRecorded

(* Reconcile keeps the invariant. *)
LEMMA ReconcileKeeps ==
    ASSUME LoanInv, NEW actual \in Reported, NEW date, NEW waited \in BOOLEAN,
           Reconcile(actual, date, waited)
    PROVE  LoanInv'
<1>. DEFINE e == Event(-1, date, Remaining - actual, 0, 0, date, None)
<1>1. /\ Exists /\ actual # Remaining /\ Served(waited)
      /\ settled' = Recorded(e, waited)
      /\ Regenerate(Recorded(e, waited), NextDue(pending), None)
      /\ UNCHANGED <<spent, receipts>>
  BY DEF Reconcile
<1>2. /\ e.sequence = -1 /\ e.paidPrincipal = Remaining - actual
      /\ e.paidTotal = 0 /\ e.account = None /\ e.since = Len(settled)
  BY DEF Event
<1>. HIDE DEF e
<1>3. Remaining \in Int /\ actual \in Nat
  <2>1. IsTerms(loan.terms) /\ IsSequence(settled) /\ AreEvents(settled)
    BY <1>1, ExistingLoans DEF LoanInv, Typed
  <2> QED BY <2>1, OwedType, LoansConstants DEF Remaining
<1>4. Remaining - actual \in Int \ {0} /\ Remaining - actual <= Remaining
  BY <1>1, <1>3
<1>5. IsEvent(e)
  BY <1>2, <1>4 DEF IsEvent
<1>6. /\ spent' \in [Accounts -> Int] /\ receipts' \subseteq Keys
      /\ \A a \in Accounts : spent'[a] = spent[a] + (IF e.account = a THEN e.paidTotal ELSE 0)
  <2>1. spent \in [Accounts -> Int] /\ receipts \subseteq Keys /\ spent' = spent /\ receipts' = receipts
    BY <1>1 DEF LoanInv, Typed
  <2> QED BY <1>2, <2>1
<1>7. e.paidPrincipal <= Remaining /\ e.sequence <= 0 /\ e.since = Len(settled)
  BY <1>2, <1>4
<1>. HIDE DEF LoanInv
<1> QED BY <1>1, <1>5, <1>6, <1>7, EventRecorded

(* Undo keeps the invariant. *)
LEMMA UndoKeeps == ASSUME LoanInv, Undo PROVE LoanInv'
<1>. DEFINE e == Last(settled)
            s == Front(settled)
            n == Len(settled)
            t == loan.terms
<1>1. /\ Exists /\ settled # <<>> /\ settled' = s
      /\ Regenerate(s, DueAgain(e), e.due)
      /\ IF e.account = None THEN UNCHANGED spent ELSE Charge(e.account, -e.paidTotal)
      /\ late' = IF late = n THEN Len(s) ELSE late
      /\ UNCHANGED receipts
  BY DEF Undo
<1>2. /\ IsSequence(settled) /\ AreEvents(settled) /\ n \in Nat /\ late \in 0 .. n \cup {None}
      /\ spent \in [Accounts -> Int] /\ receipts \subseteq Keys
  BY DEF LoanInv, Typed, IsSequence
<1>3. Inserts(settled, s, n) /\ settled[n] = e
  BY <1>1, <1>2, InsertsOne
<1>4. IsTerms(t)
  BY <1>1, ExistingLoans DEF LoanInv, Typed
<1>. HIDE DEF e, s, n
<1>5. AreEvents(s) /\ IsEvent(e) /\ IsSequence(s) /\ n = Len(s) + 1 /\ Len(s) \in Nat
  <2>1. IsSequence(s) /\ n = Len(s) + 1 /\ Len(s) \in Nat
    BY <1>3 DEF Inserts, IsSequence, n
  <2> QED BY <1>2, <1>3, <2>1, EventsOf
<1>6. /\ loan' \in LoanRows /\ loan'.terms = t /\ Exists'
      /\ IsSequence(pending') /\ AreRows(pending')
      /\ Follow(pending', LastNumber(s))
      /\ PendingRepay'
  <2>1. Typed
    BY DEF LoanInv
  <2> QED BY <1>1, <1>5, <2>1, Regenerated
<1>7. IsEvent(e) /\ None \notin Accounts /\ Payable \subseteq Accounts
  BY <1>5, LoansConstants
<1>8. /\ spent' \in [Accounts -> Int]
      /\ \A a \in Accounts : spent'[a] = spent[a] - (IF e.account = a THEN e.paidTotal ELSE 0)
  <2>1. CASE e.account = None
    BY <1>1, <1>2, <1>7, <2>1
  <2>2. CASE e.account # None
    <3>1. e.account \in Accounts /\ e.paidTotal \in Nat
      BY <1>7, <2>2 DEF IsEvent
    <3>2. spent' = [spent EXCEPT ![e.account] = @ + (-e.paidTotal)]
      BY <1>1, <2>2 DEF Charge
    <3> QED BY <1>2, <3>1, <3>2
  <2> QED BY <2>1, <2>2
<1>9. late' \in 0 .. Len(s) \cup {None}
  BY <1>1, <1>2, <1>5
<1>10. receipts' \subseteq Keys
  BY <1>1, <1>2
<1>11. Typed'
  BY <1>1, <1>5, <1>6, <1>8, <1>9, <1>10 DEF Typed
<1>12. InOrder(s)
  <2>1. InOrder(settled)
    BY DEF LoanInv
  <2> QED BY <1>2, <1>3, <1>5, <2>1, FrontInOrder
<1>13. NeverBelow(t, s)
  <2>1. NeverBelow(t, settled)
    BY <1>1 DEF LoanInv
  <2> QED BY <1>3, <1>5, <2>1, NeverBelowFront
<1>14. ExpensesBooked'
  <2>1. ASSUME NEW a \in Accounts PROVE spent'[a] = Cost(s, a)
    <3>1. Cost(s, a) \in Int /\ e.paidTotal \in Int
          /\ Cost(settled, a) = Cost(s, a) + (IF e.account = a THEN e.paidTotal ELSE 0)
      BY <1>2, <1>3, CostInserted
    <3>2. spent[a] = Cost(settled, a)
      BY DEF LoanInv, ExpensesBooked
    <3>3. spent'[a] = spent[a] - (IF e.account = a THEN e.paidTotal ELSE 0)
      BY <1>8
    <3>. DEFINE x == IF e.account = a THEN e.paidTotal ELSE 0
                c == Cost(s, a)
    <3>4. x \in Int /\ c \in Int /\ spent'[a] = (c + x) - x
      BY <3>1, <3>2, <3>3
    <3>. HIDE DEF x, c
    <3>5. spent'[a] = c
      BY <3>4
    <3> QED BY <3>5 DEF c
  <2> QED BY <1>1, <2>1 DEF ExpensesBooked
<1>15. InOrder(settled') /\ Follow(pending', LastNumber(settled')) /\ NeverBelow(loan'.terms, settled')
  BY <1>1, <1>6, <1>12, <1>13
<1>16. NothingWithoutLoan'
  BY <1>6 DEF NothingWithoutLoan
<1> QED BY <1>6, <1>11, <1>14, <1>15, <1>16 DEF LoanInv

(* Create keeps the invariant. *)
LEMMA CreateKeeps ==
    ASSUME LoanInv, NEW t \in Terms, NEW a, Create(t, a)
    PROVE  LoanInv'
<1>. DEFINE rows == BuildSchedule(t.principal, t, t.months, MonthOf[t.start])
            l == [terms |-> t, account |-> a, status |-> "active"]
<1>1. /\ loan = Fresh /\ a \in Payable /\ Closes(rows, t.principal)
      /\ loan' = l /\ pending' = rows
      /\ settled' = settled /\ receipts' = receipts /\ spent' = spent /\ late' = late
  BY DEF Create
<1>2. /\ l \in LoanRows /\ l.terms = t /\ l.status = "active"
  BY <1>1 DEF LoanRows
<1>3. IsTerms(t)
  BY <1>2, ExistingLoans
<1>4. ~Exists /\ settled = <<>>
  BY <1>1 DEF Exists, LoanInv, NothingWithoutLoan
<1>5. t.principal \in Nat /\ t.months \in Nat
  BY <1>3 DEF IsTerms
<1>. DEFINE month == MonthOf[t.start]
<1>6. /\ IsSequence(rows)
      /\ \A i \in 1 .. Len(rows) : IsRow(rows[i]) /\ rows[i].sequence = i
      /\ rows # <<>> => t.principal > 0
  <2>1. /\ IsSequence(rows)
        /\ \A i \in 1 .. Len(rows) : IsPayment(rows[i], i, t, month)
        /\ rows # <<>> => t.principal > 0
    BY <1>3, <1>5, ScheduleRows
  <2>. HIDE DEF rows
  <2> QED BY <2>1, PaymentIs
<1>. HIDE DEF rows, l
<1>7. rows # <<>> /\ Repaid(rows) = t.principal /\ t.principal > 0
  BY <1>1, <1>6 DEF Closes
<1>8. Exists'
  BY <1>1, <1>2, LoansConstants DEF Exists
<1>9. Remaining' = t.principal
  BY <1>1, <1>2, <1>3, <1>4, NoEvents DEF Remaining
<1>10. AreRows(rows) /\ Follow(rows, 0)
  BY <1>6 DEF AreRows, Follow
<1>11. Typed'
  BY <1>1, <1>2, <1>6, <1>10 DEF LoanInv, Typed
<1>12. InOrder(settled') /\ Follow(pending', LastNumber(settled'))
  BY <1>1, <1>4, <1>10, NoEvents
<1>13. PendingRepay'
  BY <1>1, <1>2, <1>5, <1>7, <1>9 DEF PendingRepay
<1>14. NeverBelow(loan'.terms, settled')
  BY <1>1, <1>2, <1>3, <1>4, NoEvents
<1>15. NothingWithoutLoan'
  BY <1>8 DEF NothingWithoutLoan
<1>16. ExpensesBooked'
  BY <1>1 DEF LoanInv, ExpensesBooked
<1> QED BY <1>8, <1>11, <1>12, <1>13, <1>14, <1>15, <1>16 DEF LoanInv

(* Update changes the account that pays, and nothing of what was paid. *)
LEMMA UpdateKeeps == ASSUME LoanInv, NEW a, Update(a) PROVE LoanInv'
<1>1. /\ Exists /\ a \in Payable /\ loan' = [loan EXCEPT !.account = a]
      /\ settled' = settled /\ pending' = pending /\ receipts' = receipts
      /\ spent' = spent /\ late' = late
  BY DEF Update
<1>2. loan \in LoanRows
  BY <1>1, ExistingLoans DEF LoanInv, Typed
<1>3. loan' \in LoanRows /\ loan'.terms = loan.terms /\ loan'.status = loan.status
  BY <1>1, <1>2 DEF LoanRows
<1>4. Exists'
  BY <1>3, LoansConstants DEF Exists
<1>5. Remaining' = Remaining
  BY <1>1, <1>3 DEF Remaining
<1>6. Typed'
  BY <1>1, <1>3 DEF LoanInv, Typed
<1>7. PendingRepay'
  BY <1>1, <1>3, <1>5 DEF LoanInv, PendingRepay
<1>8. InOrder(settled') /\ Follow(pending', LastNumber(settled')) /\ NeverBelow(loan'.terms, settled')
  BY <1>1, <1>3 DEF LoanInv
<1>9. NothingWithoutLoan' /\ ExpensesBooked'
  BY <1>1, <1>4 DEF LoanInv, NothingWithoutLoan, ExpensesBooked
<1> QED BY <1>6, <1>7, <1>8, <1>9 DEF LoanInv

(* Delete takes a loan without events, and its schedule with it. *)
LEMMA DeleteKeeps == ASSUME LoanInv, Delete PROVE LoanInv'
<1>1. /\ settled = <<>> /\ loan' = Deleted /\ pending' = <<>>
      /\ settled' = settled /\ receipts' = receipts /\ spent' = spent /\ late' = late
  BY DEF Delete
<1>2. ~Exists'
  BY <1>1 DEF Exists
<1>3. IsSequence(<<>>) /\ \A i \in 1 .. Len(<<>>) : FALSE
  BY NoList
<1>4. AreRows(pending') /\ IsSequence(pending') /\ Follow(pending', LastNumber(settled'))
  BY <1>1, <1>3 DEF AreRows, Follow
<1>5. Typed'
  BY <1>1, <1>4 DEF LoanInv, Typed
<1>6. PendingRepay' /\ NothingWithoutLoan' /\ ExpensesBooked'
  BY <1>1, <1>2 DEF LoanInv, PendingRepay, NothingWithoutLoan, ExpensesBooked
<1>7. InOrder(settled')
  BY <1>1 DEF LoanInv
<1> QED BY <1>2, <1>4, <1>5, <1>6, <1>7 DEF LoanInv

(* Whoever waits for the loan, or gives up, changes nothing of it. *)
LEMMA WaitingKeeps ==
    ASSUME LoanInv, UNCHANGED <<loan, settled, pending, receipts, spent>>,
           late' \in 0 .. Len(settled) \cup {None}
    PROVE  LoanInv'
<1>1. Exists' = Exists /\ Remaining' = Remaining
  BY DEF Exists, Remaining
<1>2. Typed'
  BY DEF LoanInv, Typed
<1>3. PendingRepay' /\ NothingWithoutLoan' /\ ExpensesBooked'
  BY <1>1 DEF LoanInv, PendingRepay, NothingWithoutLoan, ExpensesBooked
<1> QED BY <1>1, <1>2, <1>3 DEF LoanInv

(* The invariant holds of a loan that is not there yet. *)
LEMMA LoanInitially == Init => LoanInv
<1>. SUFFICES ASSUME Init PROVE LoanInv
  OBVIOUS
<1>1. /\ loan = Fresh /\ settled = <<>> /\ pending = <<>> /\ receipts = {}
      /\ spent = [a \in Accounts |-> 0] /\ late = None
  BY DEF Init
<1>2. ~Exists
  BY <1>1 DEF Exists
<1>3. IsSequence(<<>>) /\ \A i \in 1 .. Len(<<>>) : FALSE
  BY NoList
<1>4. AreRows(pending) /\ Follow(pending, LastNumber(settled))
  BY <1>1, <1>3 DEF AreRows, Follow
<1>5. Typed
  BY <1>1, <1>3, <1>4, NoEvents DEF Typed
<1>6. PendingRepay /\ NothingWithoutLoan
  BY <1>1, <1>2 DEF PendingRepay, NothingWithoutLoan
<1>7. ExpensesBooked
  BY <1>1, NoEvents DEF ExpensesBooked
<1> QED BY <1>1, <1>2, <1>4, <1>5, <1>6, <1>7, NoEvents DEF LoanInv

(* An extra payment of what is left is one of something. *)
LEMMA LeftToPay ==
    ASSUME LoanInv, Exists, loan.status # "paid_off"
    PROVE  Remaining \in Int /\ Remaining > 0
<1>1. IsTerms(loan.terms) /\ IsSequence(settled) /\ AreEvents(settled)
  BY ExistingLoans DEF LoanInv, Typed
<1>2. Remaining \in Int
  BY <1>1, OwedType DEF Remaining
<1>3. ~(Remaining <= 0)
  BY DEF LoanInv, PendingRepay
<1> QED BY <1>2, <1>3

(* Every step keeps the invariant. *)
LEMMA LoanKept == LoanInv /\ [Next]_vars => LoanInv'
<1>. SUFFICES ASSUME LoanInv, [Next]_vars PROVE LoanInv'
  OBVIOUS
<1>0. \A l \in 0 .. Len(settled) \cup {None} : l = late => late \in 0 .. Len(settled) \cup {None}
  OBVIOUS
<1>1. Len(settled) \in Nat /\ late \in 0 .. Len(settled) \cup {None}
  BY DEF LoanInv, Typed, IsSequence
<1>2. CASE \E a \in Accounts : (\E t \in Terms : Create(t, a)) \/ Update(a)
  BY <1>2, CreateKeeps, UpdateKeeps
<1>3. CASE Delete
  BY <1>3, DeleteKeeps
<1>4. CASE Settling
  <2>1. PICK date \in EventDates :
            \/ \E in \in Overrides : Pay(in, date)
            \/ \E waited \in BOOLEAN :
                   \/ \E k \in Keys : \/ \E n \in Extras : AddExtraPayment(k, n, date, waited)
                                      \/ /\ Exists
                                         /\ AddExtraPayment(k, Remaining, date, waited)
                   \/ \E actual \in Reported : Reconcile(actual, date, waited)
    BY <1>4 DEF Settling
  <2>2. ASSUME NEW in \in Overrides, Pay(in, date) PROVE LoanInv'
    BY <2>2, PayKeeps
  <2>3. ASSUME NEW waited \in BOOLEAN, NEW k \in Keys, NEW n \in Extras,
               AddExtraPayment(k, n, date, waited)
        PROVE  LoanInv'
    <3>1. n \in Int /\ n > 0
      BY LoansConstants
    <3> QED BY <2>3, <3>1, ExtraKeeps
  <2>4. ASSUME NEW waited \in BOOLEAN, NEW k \in Keys, Exists,
               AddExtraPayment(k, Remaining, date, waited)
        PROVE  LoanInv'
    <3>1. loan.status # "paid_off"
      BY <2>4 DEF AddExtraPayment
    <3>2. Remaining \in Int /\ Remaining > 0
      BY <2>4, <3>1, LeftToPay
    <3> QED BY <2>4, <3>2, ExtraKeeps
  <2>5. ASSUME NEW waited \in BOOLEAN, NEW actual \in Reported, Reconcile(actual, date, waited)
        PROVE  LoanInv'
    BY <2>5, ReconcileKeeps
  <2> QED BY <2>1, <2>2, <2>3, <2>4, <2>5
<1>5. CASE Undo
  BY <1>5, UndoKeeps
<1>6. CASE Wait
  <2>1. UNCHANGED <<loan, settled, pending, receipts, spent>> /\ late' \in 0 .. Len(settled) \cup {None}
    BY <1>1, <1>6 DEF Wait
  <2> QED BY <2>1, WaitingKeeps
<1>7. CASE GiveUp
  <2>1. UNCHANGED <<loan, settled, pending, receipts, spent>> /\ late' \in 0 .. Len(settled) \cup {None}
    BY <1>7 DEF GiveUp
  <2> QED BY <2>1, WaitingKeeps
<1>8. CASE UNCHANGED vars
  <2>1. UNCHANGED <<loan, settled, pending, receipts, spent>> /\ late' \in 0 .. Len(settled) \cup {None}
    BY <1>1, <1>8 DEF vars
  <2> QED BY <2>1, WaitingKeeps
<1> QED BY <1>2, <1>3, <1>4, <1>5, <1>6, <1>7, <1>8 DEF Next

(* The invariant always holds. *)
THEOREM LoansInvariant == Spec => []LoanInv
  BY LoanInitially, LoanKept, PTL DEF Spec

(* The numbers of the payments made are those up to the last one. *)
LEMMA NumbersUpToLast ==
    ASSUME LoanInv
    PROVE  /\ LastNumber(settled) \in Nat
           /\ Numbers = 1 .. LastNumber(settled)
           /\ Cardinality(Numbers) = LastNumber(settled)
<1>. DEFINE n == Len(settled)
            a == LastNumber(settled)
<1>1. IsSequence(settled) /\ AreEvents(settled)
  BY DEF LoanInv, Typed
<1>2. n \in Nat /\ DOMAIN settled = 1 .. n
  BY <1>1 DEF IsSequence
<1>3. a \in Nat /\ \A i \in 1 .. n : settled[i].sequence \in Int /\ settled[i].sequence <= a
  BY <1>1, LastNumberIs
<1>4. \A m \in 1 .. a : \E i \in 1 .. n : settled[i].sequence = m
  BY DEF LoanInv, InOrder
<1>. HIDE DEF n, a
<1>5. Numbers = {settled[i].sequence : i \in {j \in 1 .. n : settled[j].sequence > 0}}
  BY <1>2 DEF Numbers
<1>6. Numbers \subseteq 1 .. a
  BY <1>3, <1>5
<1>7. ASSUME NEW m \in 1 .. a PROVE m \in Numbers
  <2>1. PICK i \in 1 .. n : settled[i].sequence = m
    BY <1>4
  <2>2. i \in {j \in 1 .. n : settled[j].sequence > 0}
    BY <1>3, <2>1
  <2> QED BY <1>5, <2>1, <2>2
<1>8. Numbers = 1 .. a
  BY <1>6, <1>7
<1>9. Cardinality(1 .. a) = a
  BY <1>3, FS_Interval
<1> QED BY <1>3, <1>8, <1>9 DEF a

(* The invariant accounts for the debt. *)
LEMMA DebtIsAccounted == LoanInv => DebtAccounted
<1>. SUFFICES ASSUME LoanInv PROVE DebtAccounted
  OBVIOUS
<1>. DEFINE n == Len(settled)
            a == LastNumber(settled)
<1>1. /\ n \in Nat /\ DOMAIN settled = 1 .. n /\ settled = [i \in 1 .. n |-> settled[i]]
      /\ DOMAIN pending = 1 .. Len(pending) /\ AreEvents(settled) /\ IsSequence(settled)
  BY DEF LoanInv, Typed, IsSequence
<1>2. a \in Nat /\ Numbers = 1 .. a /\ Cardinality(Numbers) = a
  BY NumbersUpToLast
<1>3. ASSUME Exists, Chronological PROVE Remaining >= 0
  <2>1. \A i \in 1 .. n : settled[i].since = i - 1
    BY <1>1, <1>3 DEF Chronological
  <2>2. n \in 0 .. n
    BY <1>1
  <2>3. NeverBelow(loan.terms, settled)
    BY <1>3 DEF LoanInv
  <2>4. Owed(loan.terms, FirstOnes(settled, n)) >= 0
    BY <2>1, <2>2, <2>3 DEF NeverBelow
  <2>5. FirstOnes(settled, n) = settled
    BY <1>1 DEF FirstOnes
  <2> QED BY <2>4, <2>5 DEF Remaining
<1>4. Exists => /\ loan.status = "paid_off" <=> Remaining <= 0
                /\ Repaid(pending) = IF Remaining > 0 THEN Remaining ELSE 0
  BY DEF LoanInv, PendingRepay
<1>5. \A i \in DOMAIN pending : pending[i].sequence = Cardinality(Numbers) + i
  BY <1>1, <1>2 DEF LoanInv, Follow
<1>6. ASSUME NEW i \in DOMAIN settled, NEW j \in DOMAIN settled,
             settled[i].sequence > 0, settled[j].sequence = settled[i].sequence
      PROVE  i = j
  <2>1. /\ \A x, y \in 1 .. n :
               x < y /\ settled[x].sequence > 0 /\ settled[y].sequence > 0 =>
                   settled[x].sequence < settled[y].sequence
        /\ \A x \in 1 .. n : settled[x].sequence \in Int
    BY <1>1, LastNumberIs DEF LoanInv, InOrder
  <2>2. i \in 1 .. n /\ j \in 1 .. n
    BY <1>1, <1>6
  <2>. HIDE DEF n
  <2>3. settled[i].sequence \in Int /\ settled[j].sequence > 0
    BY <1>6, <2>1, <2>2
  <2>4. ~(i < j)
    BY <1>6, <2>1, <2>2, <2>3
  <2>5. ~(j < i)
    BY <1>6, <2>1, <2>2, <2>3
  <2> QED BY <2>2, <2>4, <2>5
<1>7. ~Exists => settled = <<>> /\ pending = <<>>
  BY DEF LoanInv, NothingWithoutLoan
<1>8. \A x \in Accounts : spent[x] = Paid(x)
  BY DEF LoanInv, ExpensesBooked, Paid, Cost
<1>9. Numbers = 1 .. Cardinality(Numbers)
  BY <1>2
<1> QED BY <1>3, <1>4, <1>5, <1>6, <1>7, <1>8, <1>9 DEF DebtAccounted

(* Whatever is paid, overpaid, reconciled and undone, the debt is accounted   *)
(* for (store/loans.go): for every plan, amount and order of the events.       *)
THEOREM LoansAccounted == Spec => []DebtAccounted
  BY LoansInvariant, DebtIsAccounted, PTL

(* Only Undo makes the events fewer. *)
LEMMA OnlyUndoTakes ==
    ASSUME LoanInv, Next, Len(settled') < Len(settled)
    PROVE  Undo
<1>1. IsSequence(settled) /\ Len(settled) \in Nat /\ late \in 0 .. Len(settled) \cup {None}
  BY DEF LoanInv, Typed, IsSequence
<1>2. settled' # settled
  BY <1>1
<1>3. ASSUME NEW waited \in BOOLEAN, NEW e, Served(waited), settled' = Recorded(e, waited)
      PROVE  FALSE
  <2>1. Place(waited) \in 0 .. Len(settled)
    BY <1>1, <1>3 DEF Place, Served
  <2>2. Place(waited) + 1 \in 1 .. Len(settled) + 1
    BY <1>1, <2>1
  <2>3. Len(InsertAt(settled, Place(waited) + 1, e)) = Len(settled) + 1
    BY <1>1, <2>2, Inserted
  <2> QED BY <1>1, <1>3, <2>3 DEF Recorded
<1>4. ASSUME NEW t, NEW a, Create(t, a) \/ Update(a) PROVE FALSE
  BY <1>2, <1>4 DEF Create, Update
<1>5. ~Delete /\ ~Wait /\ ~GiveUp
  BY <1>2 DEF Delete, Wait, GiveUp
<1>6. ~Settling
  <2>1. ASSUME NEW in, NEW date, Pay(in, date) PROVE FALSE
    BY <1>3, <2>1 DEF Pay
  <2>2. ASSUME NEW k, NEW n, NEW date, NEW waited \in BOOLEAN, AddExtraPayment(k, n, date, waited) PROVE FALSE
    BY <1>3, <2>2 DEF AddExtraPayment
  <2>3. ASSUME NEW actual, NEW date, NEW waited \in BOOLEAN, Reconcile(actual, date, waited) PROVE FALSE
    BY <1>3, <2>3 DEF Reconcile
  <2> QED BY <2>1, <2>2, <2>3 DEF Settling
<1> QED BY <1>4, <1>5, <1>6 DEF Next

(* Undo adds the principal to what is owed, and gives back what was spent. *)
LEMMA UndoGivesBack ==
    ASSUME LoanInv, Undo
    PROVE  /\ Owed(loan.terms, settled') = Remaining + Last(settled).paidPrincipal
           /\ \A a \in Accounts : spent[a] - spent'[a] =
                  IF a = Last(settled).account THEN Last(settled).paidTotal ELSE 0
<1>. DEFINE e == Last(settled)
            s == Front(settled)
            t == loan.terms
<1>1. /\ Exists /\ settled # <<>> /\ settled' = s
      /\ IF e.account = None THEN UNCHANGED spent ELSE Charge(e.account, -e.paidTotal)
  BY DEF Undo
<1>2. /\ IsSequence(settled) /\ AreEvents(settled) /\ spent \in [Accounts -> Int]
  BY DEF LoanInv, Typed
<1>3. Inserts(settled, s, Len(settled)) /\ settled[Len(settled)] = e
  BY <1>1, <1>2, InsertsOne
<1>4. IsTerms(t)
  BY <1>1, ExistingLoans DEF LoanInv, Typed
<1>. HIDE DEF e, s
<1>5. /\ Owed(t, s) \in Int /\ e.paidPrincipal \in Int
      /\ Owed(t, settled) = Owed(t, s) - e.paidPrincipal
  BY <1>2, <1>3, <1>4, OwedInserted
<1>6. IsEvent(e)
  BY <1>2, <1>3, EventsOf
<1>7. ASSUME NEW a \in Accounts
      PROVE  spent[a] - spent'[a] = IF a = e.account THEN e.paidTotal ELSE 0
  <2>1. CASE e.account = None
    <3>1. spent' = spent /\ a # None /\ spent[a] \in Int
      BY <1>1, <1>2, <2>1, LoansConstants
    <3> QED BY <2>1, <3>1
  <2>2. CASE e.account # None
    <3>1. e.account \in Accounts /\ e.paidTotal \in Nat
      BY <1>6, <2>2, LoansConstants DEF IsEvent
    <3>2. spent' = [spent EXCEPT ![e.account] = @ + (-e.paidTotal)]
      BY <1>1, <2>2 DEF Charge
    <3> QED BY <1>2, <3>1, <3>2
  <2> QED BY <2>1, <2>2
<1>8. Owed(t, settled') = Remaining + e.paidPrincipal
  <2>. DEFINE x == Owed(t, s)
              y == e.paidPrincipal
              z == Owed(t, settled)
  <2>1. x \in Int /\ y \in Int /\ z = x - y
    BY <1>5
  <2>. HIDE DEF x, y, z
  <2>2. x = z + y
    BY <2>1
  <2> QED BY <1>1, <2>2 DEF x, y, z, Remaining
<1> QED BY <1>7, <1>8 DEF e

(* Undo takes back exactly what the event did to the debt and to the account *)
(* (Undo of store/loans.go), whatever was recorded and undone before.         *)
THEOREM UndoesTakeBack == Spec => UndoTakesBack
<1>1. LoanInv /\ [Next]_vars =>
          [Undone =>
               LET e == Last(settled)
               IN  /\ Owed(loan.terms, settled') = Remaining + e.paidPrincipal
                   /\ \A a \in Accounts : spent[a] - spent'[a] =
                          IF a = e.account THEN e.paidTotal ELSE 0]_vars
  <2>. SUFFICES ASSUME LoanInv, Next, Undone
                PROVE  /\ Owed(loan.terms, settled') = Remaining + Last(settled).paidPrincipal
                       /\ \A a \in Accounts : spent[a] - spent'[a] =
                              IF a = Last(settled).account THEN Last(settled).paidTotal ELSE 0
    BY Zenon
  <2>1. Undo
    BY OnlyUndoTakes DEF Undone
  <2> QED BY <2>1, UndoGivesBack
<1> QED BY <1>1, LoansInvariant, PTL DEF Spec, UndoTakesBack

-----------------------------------------------------------------------------
(* The dates of the pending payments *)

(* A month from which the calendar goes on for the rest of the loan: k of its *)
(* payments were made, and each event may put the next one off by a month.    *)
Ahead(m, k) == m \in Months /\ m + (MaxEvents - k) + Periods - 1 \in Months

(* The schedule of what is owed, from some month on and after k payments. *)
IsPlan(rows, t, owed, k) ==
    IF owed > 0
    THEN \E m \in Months :
             LET plan == BuildSchedule(owed, t, Periods, m)
             IN  Ahead(m, k) /\ Closes(plan, owed) /\ rows = Renumbered(plan, k)
    ELSE rows = <<>>

(* What the constants of a loan are. *)
LEMMA LoanBounds ==
    /\ Periods \in Nat /\ MaxEvents \in Nat
    /\ \A t \in Terms : /\ IsTerms(t) /\ Periods # 0 /\ t.months \in 1 .. Periods
                        /\ t.start \in Dates /\ t.day \in Nat \ {0}
                        /\ MonthOf[t.start] \in Months
                        /\ MonthOf[t.start] + MaxEvents + Periods \in Months
    /\ \A date \in EventDates : /\ date \in Dates /\ MonthOf[date] \in Months
                                /\ MonthOf[date] + MaxEvents + Periods \in Months
<1>1. Periods \in Nat /\ MaxEvents \in Nat
  BY LoansConstants
<1>2. ASSUME NEW t \in Terms
      PROVE  /\ IsTerms(t) /\ Periods # 0 /\ t.months \in 1 .. Periods
             /\ t.start \in Dates /\ t.day \in Nat \ {0}
             /\ MonthOf[t.start] \in Months /\ MonthOf[t.start] + MaxEvents + Periods \in Months
  <2>1. /\ t.months \in 1 .. Periods /\ t.start \in Dates /\ t.day \in 1 .. 31
        /\ {t.principal, t.rate, t.payment} \subseteq Nat
    BY LoansConstants
  <2>2. MonthOf[t.start] + MaxEvents + Periods \in Months
    BY CalendarReaches
  <2>3. MonthOf[t.start] \in Months
    BY <2>1, DatesHaveMonths
  <2> QED BY <1>1, <2>1, <2>2, <2>3 DEF IsTerms
<1>3. ASSUME NEW date \in EventDates
      PROVE  /\ date \in Dates /\ MonthOf[date] \in Months
             /\ MonthOf[date] + MaxEvents + Periods \in Months
  BY LoansConstants, CalendarReaches, DatesHaveMonths
<1> QED BY <1>1, <1>2, <1>3

(* The months of a schedule are months of the calendar. *)
LEMMA MonthsAhead ==
    ASSUME NEW m, NEW k \in Nat, k <= MaxEvents, Ahead(m, k)
    PROVE  /\ m \in Months /\ m \in Nat
           /\ \A i \in 1 .. Periods : m + i - 1 \in Months
           /\ k < MaxEvents => \A i \in 2 .. Periods : Ahead(m + 1, k + 1)
<1>1. /\ m \in Nat /\ m + (MaxEvents - k) + Periods - 1 < 12 * YearCount
      /\ Periods \in Nat /\ MaxEvents \in Nat /\ YearCount \in Nat
  BY MonthsAre, LoanBounds DEF Ahead
<1>. DEFINE end == 12 * YearCount
<1>2. end \in Nat
  BY <1>1
<1>3. m + (MaxEvents - k) + Periods - 1 < end
  BY <1>1
<1>. HIDE DEF end
<1>4. ASSUME NEW i \in 1 .. Periods PROVE m + i - 1 \in Months
  <2>1. m + i - 1 \in Nat /\ m + i - 1 < end
    BY <1>1, <1>2, <1>3
  <2> QED BY <2>1, MonthsAre DEF end
<1>5. ASSUME k < MaxEvents, NEW i \in 2 .. Periods PROVE Ahead(m + 1, k + 1)
  <2>1. /\ m + 1 \in Nat /\ m + 1 < end
        /\ (m + 1) + (MaxEvents - (k + 1)) + Periods - 1 \in Nat
        /\ (m + 1) + (MaxEvents - (k + 1)) + Periods - 1 < end
    BY <1>1, <1>2, <1>3, <1>5
  <2> QED BY <2>1, MonthsAre DEF Ahead, end
<1> QED BY <1>1, <1>4, <1>5 DEF Ahead

(* The month of an event, or of the start of the loan, is such a month. *)
LEMMA EventsAhead ==
    ASSUME NEW m \in Months, m + MaxEvents + Periods \in Months, Periods # 0,
           NEW k \in Nat, k <= MaxEvents
    PROVE  Ahead(m, k)
<1>1. /\ m \in Nat /\ m + MaxEvents + Periods < 12 * YearCount
      /\ Periods \in Nat /\ MaxEvents \in Nat /\ YearCount \in Nat
  BY MonthsAre, LoanBounds
<1>. DEFINE end == 12 * YearCount
<1>2. end \in Nat
  BY <1>1
<1>3. m + MaxEvents + Periods < end
  BY <1>1
<1>. HIDE DEF end
<1>4. m + (MaxEvents - k) + Periods - 1 \in Nat /\ m + (MaxEvents - k) + Periods - 1 < end
  BY <1>1, <1>2, <1>3
<1> QED BY <1>4, MonthsAre DEF Ahead, end

(* A month after k others in the calendar, or the one that comes next. *)
LEMMA LaterMonths ==
    ASSUME NEW t \in Terms, NEW k \in Nat, k <= MaxEvents
    PROVE  Ahead(MonthOf[MonthsLater(t.start, k)], k)
<1>. DEFINE m == MonthOf[t.start]
            n == m + k
            d == MonthsLater(t.start, k)
            end == 12 * YearCount
<1>1. /\ m \in Months /\ m + MaxEvents + Periods \in Months /\ t.start \in Dates
      /\ Periods \in Nat \ {0} /\ MaxEvents \in Nat
  BY LoanBounds
<1>2. m \in Nat /\ m + MaxEvents + Periods < end /\ end \in Nat
  BY <1>1, MonthsAre
<1>3. /\ n \in Nat /\ n < end /\ n + 1 < end /\ n + 1 \in Nat
      /\ n + (MaxEvents - k) + Periods - 1 \in Nat /\ n + (MaxEvents - k) + Periods - 1 < end
      /\ (n + 1) + (MaxEvents - k) + Periods - 1 \in Nat
      /\ (n + 1) + (MaxEvents - k) + Periods - 1 < end
  <2>. HIDE DEF m, end
  <2> QED BY <1>1, <1>2
<1>4. Ahead(n, k) /\ Ahead(n + 1, k) /\ n \in Months /\ n + 1 \in Months
  <2>. HIDE DEF n
  <2> QED BY <1>3, MonthsAre DEF Ahead
<1>5. /\ t.start \in Nat /\ FirstOf[m] <= t.start /\ t.start <= LastOf[m]
      /\ FirstOf[m] \in Nat /\ MonthLength[m] \in 28 .. 31
      /\ LastOf[m] = FirstOf[m] + MonthLength[m] - 1
  BY <1>1, DatesHaveMonths, MonthBounds
<1>6. DayOf(t.start) \in 1 .. 31
  <2>1. DayOf(t.start) = t.start - FirstOf[m] + 1
    BY DEF DayOf
  <2> QED BY <1>5, <2>1
<1>7. /\ FirstOf[n] \in Nat /\ MonthLength[n] \in 28 .. 31
      /\ LastOf[n] = FirstOf[n] + MonthLength[n] - 1
      /\ FirstOf[n] = FirstDays[n]
      /\ FirstOf[n + 1] \in Nat /\ MonthLength[n + 1] \in 28 .. 31
      /\ LastOf[n + 1] = FirstOf[n + 1] + MonthLength[n + 1] - 1
      /\ FirstOf[n + 1] = FirstDays[n + 1]
  BY <1>4, MonthBounds
<1>8. FirstDays[n + 1] = FirstDays[n] + MonthLength[n]
  <2>1. n + 1 # 0 /\ (n + 1) - 1 = n
    BY <1>3
  <2>2. FirstDays[n + 1] = SpanStart(FirstDays, MonthLength, n + 1)
    BY <1>4, FirstDaysAre
  <2>. HIDE DEF n
  <2> QED BY <2>1, <2>2 DEF SpanStart
<1>9. d = FirstOf[n] + DayOf(t.start) - 1
  BY DEF MonthsLater
<1>. HIDE DEF d, n, m, end
<1>10. d \in FirstOf[n] .. LastOf[n] \/ d \in FirstOf[n + 1] .. LastOf[n + 1]
  BY <1>6, <1>7, <1>8, <1>9
<1>11. MonthOf[d] = n \/ MonthOf[d] = n + 1
  BY <1>4, <1>10, DaysOfMonth
<1> QED BY <1>4, <1>11 DEF d

(* The payments of a plan are due month after month, and rows of the table. *)
LEMMA PlanIs ==
    ASSUME NEW t \in Terms, NEW owed \in Int, owed > 0, NEW k \in Nat, k <= MaxEvents,
           NEW rows, IsPlan(rows, t, owed, k)
    PROVE  \E m \in Months :
               /\ Ahead(m, k) /\ Amortizes(owed, t)
               /\ Closes(BuildSchedule(owed, t, Periods, m), owed)
               /\ rows = Renumbered(BuildSchedule(owed, t, Periods, m), k)
               /\ IsSequence(rows) /\ rows # <<>> /\ Len(rows) \in 1 .. Periods
               /\ \A i \in 1 .. Len(rows) :
                      /\ rows[i] \in Rows /\ m + i - 1 \in Months
                      /\ rows[i].due = Clamped(m + i - 1, t.day)
                      /\ MonthOf[rows[i].due] = m + i - 1
<1>0. IsTerms(t) /\ Periods \in Nat /\ t.day \in Nat \ {0} /\ owed \in Nat
  BY LoanBounds
<1>1. PICK m \in Months : /\ Ahead(m, k) /\ Closes(BuildSchedule(owed, t, Periods, m), owed)
                          /\ rows = Renumbered(BuildSchedule(owed, t, Periods, m), k)
  BY DEF IsPlan
<1>. DEFINE plan == BuildSchedule(owed, t, Periods, m)
<1>2. /\ IsSequence(plan) /\ Len(plan) <= Periods
      /\ \A i \in 1 .. Len(plan) : IsPayment(plan[i], i, t, m)
      /\ plan # <<>> => Amortizes(owed, t)
  BY <1>0, ScheduleRows
<1>3. plan # <<>> /\ rows = Renumbered(plan, k)
  BY <1>1 DEF Closes
<1>. HIDE DEF plan
<1>4. \A i \in 1 .. Len(plan) : IsRow(plan[i]) /\ plan[i].due = Clamped(m + i - 1, t.day)
  BY <1>2, PaymentIs
<1>5. /\ IsSequence(rows) /\ Len(rows) = Len(plan)
      /\ \A i \in 1 .. Len(plan) :
             rows[i] = [sequence |-> k + i, due |-> plan[i].due,
                        principal |-> plan[i].principal, interest |-> plan[i].interest]
  BY <1>2, <1>3, <1>4, RenumberedRows
<1>6. Len(rows) \in 1 .. Periods /\ rows # <<>>
  <2>1. Len(plan) \in Nat /\ Len(plan) # 0
    BY <1>2, <1>3, NoList DEF IsSequence
  <2>2. Len(rows) # 0
    BY <1>5, <2>1
  <2>3. rows # <<>>
    BY <2>2, NoList
  <2> QED BY <1>0, <1>2, <1>5, <2>1, <2>3
<1>7. ASSUME NEW i \in 1 .. Len(rows)
      PROVE  /\ rows[i] \in Rows /\ m + i - 1 \in Months
             /\ rows[i].due = Clamped(m + i - 1, t.day)
             /\ MonthOf[rows[i].due] = m + i - 1
  <2>1. m + i - 1 \in Months
    <3>1. i \in 1 .. Periods
      BY <1>0, <1>6
    <3> QED BY <1>1, <3>1, MonthsAhead
  <2>. DEFINE date == Clamped(m + i - 1, t.day)
  <2>2. date \in Dates /\ MonthOf[date] = m + i - 1
    BY <1>0, <2>1, ClampedDay
  <2>3. /\ plan[i].due = date /\ plan[i].principal \in Nat /\ plan[i].interest \in Nat
        /\ rows[i] = [sequence |-> k + i, due |-> plan[i].due,
                      principal |-> plan[i].principal, interest |-> plan[i].interest]
    BY <1>4, <1>5 DEF IsRow
  <2>. HIDE DEF date
  <2>4. rows[i].due = date /\ k + i \in Nat \ {0}
    BY <1>6, <2>3
  <2>5. rows[i] \in Rows
    BY <2>2, <2>3, <2>4 DEF Rows
  <2> QED BY <2>1, <2>2, <2>4, <2>5 DEF date
<1> QED BY <1>1, <1>2, <1>3, <1>5, <1>6, <1>7 DEF plan

(* No more payments are numbered than there are events. *)
LEMMA NumbersCounted ==
    ASSUME NEW events, IsSequence(events), AreEvents(events), InOrder(events)
    PROVE  LastNumber(events) <= Len(events)
<1>. DEFINE n == Len(events)
            a == LastNumber(events)
            at == [m \in 1 .. a |-> CHOOSE i \in 1 .. n : events[i].sequence = m]
<1>1. n \in Nat /\ a \in Nat
  BY LastNumberIs DEF IsSequence
<1>2. \A m \in 1 .. a : \E i \in 1 .. n : events[i].sequence = m
  BY DEF InOrder
<1>. HIDE DEF n, a
<1>3. \A m \in 1 .. a : at[m] \in 1 .. n /\ events[at[m]].sequence = m
  BY <1>2
<1>4. at \in [1 .. a -> 1 .. n]
  BY <1>3
<1>. HIDE DEF at
<1>5. at \in Injection(1 .. a, 1 .. n)
  <2>1. \A x, y \in 1 .. a : at[x] = at[y] => x = y
    BY <1>3, Zenon
  <2> QED BY <1>4, <2>1 DEF Injection, IsInjective
<1>6. IsFiniteSet(1 .. n) /\ Cardinality(1 .. n) = n /\ Cardinality(1 .. a) = a
  BY <1>1, FS_Interval
<1>7. Cardinality(1 .. a) <= Cardinality(1 .. n)
  BY <1>5, <1>6, FS_Injection
<1> QED BY <1>6, <1>7 DEF n, a

(* The elements of a list that gained one are those it had, and the new one. *)
LEMMA OldOnes ==
    ASSUME NEW u, NEW s, NEW p, Inserts(u, s, p)
    PROVE  /\ \A i \in 1 .. Len(s) : \E j \in 1 .. Len(u) : u[j] = s[i]
           /\ \A j \in 1 .. Len(u) : j = p \/ \E i \in 1 .. Len(s) : u[j] = s[i]
           /\ p \in 1 .. Len(u)
<1>. DEFINE n == Len(s)
<1>1. /\ n \in Nat /\ p \in 1 .. n + 1 /\ Len(u) = n + 1
      /\ \A i \in 1 .. p - 1 : u[i] = s[i]
      /\ \A i \in p + 1 .. n + 1 : u[i] = s[i - 1]
  BY DEF Inserts, IsSequence
<1>. HIDE DEF n
<1>2. ASSUME NEW i \in 1 .. n PROVE \E j \in 1 .. n + 1 : u[j] = s[i]
  <2>1. CASE i < p
    <3>1. i \in 1 .. p - 1 /\ i \in 1 .. n + 1
      BY <1>1, <2>1
    <3> QED BY <1>1, <3>1
  <2>2. CASE ~(i < p)
    <3>1. i + 1 \in p + 1 .. n + 1 /\ i + 1 \in 1 .. n + 1 /\ (i + 1) - 1 = i
      BY <1>1, <2>2
    <3> QED BY <1>1, <3>1
  <2> QED BY <2>1, <2>2
<1>3. ASSUME NEW j \in 1 .. n + 1, j # p PROVE \E i \in 1 .. n : u[j] = s[i]
  <2>1. CASE j < p
    <3>1. j \in 1 .. p - 1 /\ j \in 1 .. n
      BY <1>1, <2>1
    <3> QED BY <1>1, <3>1
  <2>2. CASE j > p
    <3>1. j \in p + 1 .. n + 1 /\ j - 1 \in 1 .. n
      BY <1>1, <2>2
    <3> QED BY <1>1, <3>1
  <2> QED BY <1>1, <1>3, <2>1, <2>2
<1> QED BY <1>1, <1>2, <1>3 DEF n

(* The number of the last payment once there is an event more. *)
LEMMA LastNumberInserted ==
    ASSUME NEW u, NEW s, NEW p, Inserts(u, s, p), AreEvents(u)
    PROVE  /\ u[p].sequence \in Int /\ LastNumber(s) \in Nat /\ LastNumber(u) \in Nat
           /\ u[p].sequence <= LastNumber(s) => LastNumber(u) = LastNumber(s)
           /\ u[p].sequence >= LastNumber(s) => LastNumber(u) = u[p].sequence
<1>. DEFINE a == LastNumber(s)
            b == LastNumber(u)
            q == u[p].sequence
<1>0. IsSequence(u) /\ IsSequence(s) /\ AreEvents(s) /\ p \in 1 .. Len(u)
  BY EventsOf, OldOnes DEF Inserts
<1>1. /\ a \in Nat /\ (\A i \in 1 .. Len(s) : s[i].sequence \in Int /\ s[i].sequence <= a)
      /\ (a = 0 \/ \E i \in 1 .. Len(s) : s[i].sequence = a)
  BY <1>0, LastNumberIs
<1>2. /\ b \in Nat /\ (\A i \in 1 .. Len(u) : u[i].sequence \in Int /\ u[i].sequence <= b)
      /\ (b = 0 \/ \E i \in 1 .. Len(u) : u[i].sequence = b)
  BY <1>0, LastNumberIs
<1>3. q \in Int /\ q <= b
  BY <1>0, <1>2
<1>. HIDE DEF a, b
<1>4. a <= b
  <2>1. CASE a = 0
    BY <1>2, <2>1
  <2>2. ASSUME NEW i \in 1 .. Len(s), s[i].sequence = a PROVE a <= b
    <3>1. PICK j \in 1 .. Len(u) : u[j] = s[i]
      BY OldOnes
    <3> QED BY <1>2, <2>2, <3>1
  <2> QED BY <1>1, <2>1, <2>2
<1>5. b <= a \/ b = q
  <2>1. CASE b = 0
    BY <1>1, <2>1
  <2>2. ASSUME NEW j \in 1 .. Len(u), u[j].sequence = b PROVE b <= a \/ b = q
    <3>1. CASE j = p
      BY <2>2, <3>1
    <3>2. CASE j # p
      <4>1. PICK i \in 1 .. Len(s) : u[j] = s[i]
        BY <3>2, OldOnes
      <4> QED BY <1>1, <2>2, <4>1
    <3> QED BY <3>1, <3>2
  <2> QED BY <1>2, <2>1, <2>2
<1>. HIDE DEF q
<1>6. (q <= a => b = a) /\ (q >= a => b = q)
  BY <1>1, <1>2, <1>3, <1>4, <1>5
<1> QED BY <1>1, <1>2, <1>3, <1>6 DEF a, b, q

(* Without the last event, if it was a monthly payment, the one before it is. *)
LEMMA LastNumberTaken ==
    ASSUME NEW u, NEW s, Inserts(u, s, Len(s) + 1), AreEvents(u), InOrder(u),
           u[Len(s) + 1].sequence > 0
    PROVE  LastNumber(s) = u[Len(s) + 1].sequence - 1
<1>. DEFINE n == Len(s)
            a == LastNumber(s)
            q == u[n + 1].sequence
<1>0. IsSequence(s) /\ AreEvents(s) /\ IsSequence(u)
  BY EventsOf DEF Inserts
<1>1. /\ n \in Nat /\ Len(u) = n + 1 /\ \A i \in 1 .. (n + 1) - 1 : u[i] = s[i]
  BY <1>0 DEF Inserts, IsSequence
<1>2. /\ a \in Nat /\ (\A i \in 1 .. n : s[i].sequence \in Int /\ s[i].sequence <= a)
      /\ (a = 0 \/ \E i \in 1 .. n : s[i].sequence = a)
  BY <1>0, LastNumberIs
<1>3. /\ \A i, j \in 1 .. n + 1 : i < j /\ u[i].sequence > 0 /\ u[j].sequence > 0 => u[i].sequence < u[j].sequence
      /\ \A m \in 1 .. LastNumber(u) : \E i \in 1 .. n + 1 : u[i].sequence = m
  BY <1>1 DEF InOrder
<1>4. \A i \in 1 .. n + 1 : u[i].sequence \in Int /\ u[i].sequence <= LastNumber(u)
  BY <1>0, <1>1, LastNumberIs
<1>5. LastNumber(u) \in Nat /\ q > 0
  BY <1>0, LastNumberIs
<1>. HIDE DEF n, a
<1>6. n + 1 \in 1 .. n + 1 /\ \A i \in 1 .. n : i \in 1 .. n + 1 /\ i < n + 1 /\ u[i] = s[i]
  BY <1>1
<1>7. q \in Int /\ q <= LastNumber(u)
  BY <1>4, <1>6
<1>8. a <= q - 1
  <2>1. CASE a = 0
    BY <1>5, <1>7, <2>1
  <2>2. CASE a # 0
    <3>1. PICK i \in 1 .. n : s[i].sequence = a
      BY <1>2, <2>2
    <3>2. u[i].sequence = a /\ a > 0
      BY <1>2, <1>6, <2>2, <3>1
    <3>3. a < q
      BY <1>3, <1>5, <1>6, <3>2
    <3> QED BY <1>2, <1>7, <3>3
  <2> QED BY <2>1, <2>2
<1>9. q - 1 <= a
  <2>1. CASE q = 1
    BY <1>2, <2>1
  <2>2. CASE q # 1
    <3>1. q - 1 \in 1 .. LastNumber(u)
      BY <1>5, <1>7, <2>2
    <3>2. PICK i \in 1 .. n + 1 : u[i].sequence = q - 1
      BY <1>3, <3>1
    <3>3. i # n + 1
      BY <1>7, <3>2
    <3>4. i \in 1 .. n
      BY <1>1, <3>3
    <3> QED BY <1>2, <1>6, <3>2, <3>4
  <2> QED BY <2>1, <2>2
<1>10. a = q - 1
  BY <1>2, <1>7, <1>8, <1>9
<1> QED BY <1>10 DEF a, q, n

-----------------------------------------------------------------------------
(* What an event found pending *)

(* An event is dated by its request; a monthly payment settles the first row  *)
(* of what was pending, in a month that leaves room for the others.           *)
PlannedEvent(e) ==
    /\ e.since \in Nat /\ e.paidAt \in EventDates
    /\ e.sequence > 0 => /\ e.due \in Dates /\ Ahead(MonthOf[e.due], e.sequence - 1)
                         /\ e.was # <<>> /\ e.was[1].due = e.due
    /\ e.sequence <= 0 => e.due \in EventDates

(* An event that took effect right after those before it found the schedule of *)
(* what these left.                                                            *)
FoundPlan(t, events, i) ==
    events[i].since = i - 1 =>
        LET before == FirstOnes(events, i - 1)
        IN  IsPlan(events[i].was, t, Owed(t, before), LastNumber(before))

(* Whoever waits for the loan will be dated before those that came since. *)
SinceWaiting(place, events) ==
    \A i \in place + 1 .. Len(events) : events[i].since = i - 1

PlanInv ==
    /\ Len(settled) <= MaxEvents
    /\ Exists => IsPlan(pending, loan.terms, Remaining, LastNumber(settled))
    /\ \A i \in 1 .. Len(settled) : PlannedEvent(settled[i]) /\ FoundPlan(loan.terms, settled, i)
    /\ late # None => SinceWaiting(late, settled)

(* The rebuilt schedule is a plan from the month it starts in. *)
LEMMA RegeneratedPlan ==
    ASSUME Typed, Exists, NEW events, settled' = events,
           NEW next, NEW fallback, Regenerate(events, next, fallback),
           Ahead(FirstMonth(loan.terms, events, next, fallback), LastNumber(events))
    PROVE  /\ loan'.terms = loan.terms
           /\ IsPlan(pending', loan'.terms, Remaining', LastNumber(settled'))
<1>. DEFINE t == loan.terms
            owed == Owed(t, events)
            month == FirstMonth(t, events, next, fallback)
            rows == BuildSchedule(owed, t, Periods, month)
<1>1. loan \in LoanRows
  BY ExistingLoans DEF Typed
<1>2. /\ owed > 0 => Closes(rows, owed)
      /\ pending' = IF owed > 0 THEN Renumbered(rows, LastNumber(events)) ELSE <<>>
      /\ loan' = [loan EXCEPT !.status = IF owed <= 0 THEN "paid_off" ELSE "active"]
  BY DEF Regenerate
<1>3. Ahead(month, LastNumber(events)) /\ month \in Months
  BY DEF Ahead
<1>. HIDE DEF month, owed
<1>4. loan'.terms = t
  BY <1>1, <1>2 DEF LoanRows
<1>5. Remaining' = owed
  BY <1>4 DEF Remaining, owed
<1>6. IsPlan(pending', t, owed, LastNumber(events))
  BY <1>2, <1>3 DEF IsPlan
<1> QED BY <1>4, <1>5, <1>6

(* The month a schedule starts in. *)
LEMMA StartsWith ==
    ASSUME NEW t, NEW events, NEW next, NEW fallback
    PROVE  /\ next # None => FirstMonth(t, events, next, fallback) = MonthOf[next]
           /\ next = None /\ fallback # None => FirstMonth(t, events, next, fallback) = MonthOf[fallback]
           /\ next = None /\ fallback = None =>
                  FirstMonth(t, events, next, fallback) = MonthOf[MonthsLater(t.start, LastNumber(events))]
  BY DEF FirstMonth

(* A date is a value. *)
LEMMA DatesAreGiven == \A d \in Dates : d # None /\ d \in Int
  BY DatesHaveMonths, LoansConstants

(* The events of a loan are so many. *)
LEMMA EventsCount == ASSUME LoanInv PROVE Len(settled) \in Nat
  BY DEF LoanInv, Typed, IsSequence

(* What is owed, and what is pending, of a loan that exists. *)
LEMMA PendingPlan ==
    ASSUME LoanInv, PlanInv, Exists
    PROVE  /\ loan.terms \in Terms /\ Remaining \in Int
           /\ LastNumber(settled) \in Nat /\ LastNumber(settled) <= Len(settled)
           /\ LastNumber(settled) <= MaxEvents
           /\ IsPlan(pending, loan.terms, Remaining, LastNumber(settled))
           /\ pending # <<>> <=> Remaining > 0
<1>1. /\ IsSequence(settled) /\ AreEvents(settled) /\ InOrder(settled)
      /\ loan.terms \in Terms /\ IsTerms(loan.terms)
  BY ExistingLoans DEF LoanInv, Typed
<1>2. Remaining \in Int
  BY <1>1, OwedType DEF Remaining
<1>3. LastNumber(settled) \in Nat /\ LastNumber(settled) <= Len(settled)
  BY <1>1, LastNumberIs, NumbersCounted
<1>4. Len(settled) \in Nat /\ MaxEvents \in Nat /\ Len(settled) <= MaxEvents
  BY <1>1, LoanBounds DEF IsSequence, PlanInv
<1>5. LastNumber(settled) <= MaxEvents
  BY <1>3, <1>4
<1>6. IsPlan(pending, loan.terms, Remaining, LastNumber(settled))
  BY DEF PlanInv
<1>7. Remaining > 0 => pending # <<>>
  BY <1>1, <1>2, <1>3, <1>5, <1>6, PlanIs
<1>8. pending # <<>> => Remaining > 0
  BY <1>6 DEF IsPlan
<1> QED BY <1>1, <1>2, <1>3, <1>5, <1>6, <1>7, <1>8

(* The first of these is due in a month that leaves room for all. *)
LEMMA FirstPending ==
    ASSUME LoanInv, PlanInv, Exists, pending # <<>>
    PROVE  /\ NextDue(pending) = pending[1].due /\ pending[1].due \in Dates
           /\ Ahead(MonthOf[pending[1].due], LastNumber(settled))
           /\ IsSequence(pending) /\ Len(pending) \in 1 .. Periods
           /\ 2 \in 1 .. Len(pending) =>
                  /\ pending[2].due \in Dates
                  /\ MonthOf[pending[2].due] = MonthOf[pending[1].due] + 1
<1>. DEFINE t == loan.terms
            k == LastNumber(settled)
<1>1. /\ t \in Terms /\ Remaining \in Int /\ Remaining > 0 /\ k \in Nat /\ k <= MaxEvents
      /\ IsPlan(pending, t, Remaining, k)
  BY PendingPlan
<1>. HIDE DEF t, k
<1>2. PICK m \in Months :
          /\ Ahead(m, k)
          /\ IsSequence(pending) /\ Len(pending) \in 1 .. Periods
          /\ \A i \in 1 .. Len(pending) :
                 /\ pending[i] \in Rows /\ MonthOf[pending[i].due] = m + i - 1
  BY <1>1, PlanIs
<1>3. m \in Nat
  BY MonthsAre
<1>4. \A i \in 1 .. Len(pending) : pending[i].due \in Dates
  BY <1>2 DEF Rows
<1>5. 1 \in 1 .. Len(pending)
  BY <1>2
<1>6. MonthOf[pending[1].due] = m
  BY <1>2, <1>3, <1>5
<1>7. 2 \in 1 .. Len(pending) => MonthOf[pending[2].due] = m + 1
  BY <1>2, <1>3
<1>8. NextDue(pending) = pending[1].due
  BY DEF NextDue
<1> QED BY <1>2, <1>4, <1>5, <1>6, <1>7, <1>8 DEF k

(* Recording an event keeps the invariant, when the schedule is rebuilt from *)
(* a month that leaves room for it.                                          *)
LEMMA EventFindsPlan ==
    ASSUME LoanInv, PlanInv, Exists, NEW waited \in BOOLEAN, Served(waited),
           NEW e, IsEvent(e), e.since = Len(settled), e.was = pending, PlannedEvent(e),
           settled' = Recorded(e, waited),
           NEW next, NEW fallback, Regenerate(Recorded(e, waited), next, fallback),
           Ahead(FirstMonth(loan.terms, Recorded(e, waited), next, fallback),
                 LastNumber(Recorded(e, waited)))
    PROVE  PlanInv'
<1>. DEFINE u == Recorded(e, waited)
            p == Place(waited) + 1
            n == Len(settled)
            t == loan.terms
<1>1. /\ IsSequence(settled) /\ AreEvents(settled) /\ n \in Nat
      /\ late \in 0 .. n \cup {None}
  BY DEF LoanInv, Typed, IsSequence
<1>2. /\ n <= MaxEvents /\ n < MaxEvents /\ MaxEvents \in Nat
      /\ waited => late # None
      /\ late' = IF waited THEN None ELSE late
  BY LoanBounds DEF PlanInv, Served
<1>3. Place(waited) \in 0 .. n /\ (waited => late \in 0 .. n /\ p = late + 1) /\ (~waited => p = n + 1)
  BY <1>1, <1>2 DEF Place
<1>4. p \in 1 .. n + 1
  BY <1>1, <1>3
<1>5. Inserts(u, settled, p) /\ u[p] = e
  <2>1. Inserts(InsertAt(settled, p, e), settled, p) /\ InsertAt(settled, p, e)[p] = e
    BY <1>1, <1>4, InsertsOne
  <2> QED BY <2>1 DEF Recorded
<1>6. settled' = u /\ Regenerate(u, next, fallback)
      /\ Ahead(FirstMonth(t, u, next, fallback), LastNumber(u))
  OBVIOUS
<1>. HIDE DEF u, p, n, t
<1>7. /\ IsSequence(u) /\ Len(u) = n + 1
      /\ \A i \in 1 .. p - 1 : u[i] = settled[i]
      /\ \A i \in p + 1 .. n + 1 : u[i] = settled[i - 1]
  BY <1>5 DEF Inserts, n
<1>8. loan'.terms = t /\ IsPlan(pending', loan'.terms, Remaining', LastNumber(settled'))
  <2>1. Typed
    BY DEF LoanInv
  <2> QED BY <1>6, <2>1, RegeneratedPlan DEF t
<1>9. \A i \in 1 .. n : PlannedEvent(settled[i]) /\ FoundPlan(t, settled, i)
  BY DEF PlanInv, n, t
<1>10. ASSUME NEW i \in 1 .. n + 1 PROVE PlannedEvent(u[i])
  <2>0. \A j \in 1 .. Len(u) : j = p \/ \E l \in 1 .. Len(settled) : u[j] = settled[l]
    BY <1>5, OldOnes
  <2>1. i = p \/ \E j \in 1 .. Len(settled) : u[i] = settled[j]
    BY <1>7, <2>0
  <2> QED BY <1>5, <1>9, <2>1 DEF n
<1>11. ASSUME NEW i \in 1 .. n + 1 PROVE FoundPlan(t, u, i)
  <2>1. CASE i < p
    <3>1. /\ \A j \in 1 .. i : j \in 1 .. p - 1
          /\ i \in 1 .. i /\ i \in 1 .. n /\ \A j \in 1 .. i - 1 : j \in 1 .. i
      BY <1>1, <1>4, <2>1
    <3>2. \A j \in 1 .. i : u[j] = settled[j]
      BY <1>7, <3>1
    <3>3. FirstOnes(u, i - 1) = FirstOnes(settled, i - 1)
      BY <3>1, <3>2 DEF FirstOnes
    <3>4. u[i] = settled[i] /\ FoundPlan(t, settled, i)
      BY <1>9, <3>1, <3>2
    <3> QED BY <3>3, <3>4 DEF FoundPlan
  <2>2. CASE i = p
    <3>. SUFFICES ASSUME u[i].since = i - 1
                  PROVE  LET before == FirstOnes(u, i - 1)
                         IN  IsPlan(u[i].was, t, Owed(t, before), LastNumber(before))
      BY DEF FoundPlan
    <3>1. i = n + 1 /\ i - 1 = n
      BY <1>1, <1>5, <2>2 DEF n
    <3>2. \A j \in 1 .. n : u[j] = settled[j]
      BY <1>1, <1>7, <2>2, <3>1
    <3>3. FirstOnes(u, i - 1) = settled
      BY <1>1, <3>1, <3>2 DEF FirstOnes, IsSequence, n
    <3>4. IsPlan(pending, t, Owed(t, settled), LastNumber(settled))
      BY DEF PlanInv, Remaining, t
    <3> QED BY <1>5, <2>2, <3>3, <3>4
  <2>3. CASE i > p
    <3>1. i \in p + 1 .. n + 1 /\ i - 1 \in p .. n
      BY <1>1, <1>4, <2>3
    <3>2. waited /\ late \in 0 .. n /\ p = late + 1
      BY <1>1, <1>3, <3>1
    <3>3. SinceWaiting(late, settled)
      BY <1>2, <3>2 DEF PlanInv
    <3>4. settled[i - 1].since = (i - 1) - 1
      BY <3>1, <3>2, <3>3 DEF SinceWaiting, n
    <3>5. u[i].since # i - 1
      BY <1>7, <3>1, <3>4
    <3> QED BY <3>5 DEF FoundPlan
  <2> QED BY <1>4, <2>1, <2>2, <2>3
<1>12. ASSUME late' # None PROVE SinceWaiting(late', u)
  <2>1. ~waited /\ late' = late /\ late \in 0 .. n /\ p = n + 1
    BY <1>1, <1>2, <1>3, <1>12
  <2>2. SinceWaiting(late, settled)
    BY <1>12, <2>1 DEF PlanInv
  <2>3. ASSUME NEW i \in late + 1 .. n + 1 PROVE u[i].since = i - 1
    <3>1. CASE i = n + 1
      BY <1>1, <1>5, <2>1, <3>1 DEF n
    <3>2. CASE i # n + 1
      <4>1. i \in late + 1 .. n /\ i \in 1 .. p - 1
        BY <1>1, <2>1, <3>2
      <4>2. settled[i].since = i - 1
        BY <2>2, <4>1 DEF SinceWaiting, n
      <4> QED BY <1>7, <4>1, <4>2
    <3> QED BY <3>1, <3>2
  <2> QED BY <1>7, <2>1, <2>3 DEF SinceWaiting
<1>13. Len(u) <= MaxEvents
  BY <1>1, <1>2, <1>7
<1> QED BY <1>6, <1>7, <1>8, <1>10, <1>11, <1>12, <1>13 DEF PlanInv

(* Pay settles the first row, and goes on with the next one or, if there is *)
(* none, with the month that follows in the terms.                           *)
LEMMA PayFindsPlan ==
    ASSUME LoanInv, PlanInv, NEW in \in Overrides, NEW date \in EventDates, Pay(in, date)
    PROVE  PlanInv'
<1>. DEFINE row       == pending[1]
            scheduled == row.principal + row.interest
            total     == Given(in.total, scheduled)
            principal == Given(in.principal, row.principal)
            interest  == Given(in.interest, row.interest)
            e == Event(row.sequence, row.due, principal, interest, total, date, loan.account)
            next == NextDue(Tail(pending))
            u == Recorded(e, FALSE)
            k == LastNumber(settled)
            t == loan.terms
<1>1. /\ Exists /\ pending # <<>> /\ principal <= Remaining
      /\ Covers(total, principal, interest)
      /\ loan.account \in Payable /\ Served(FALSE)
      /\ settled' = u /\ Regenerate(u, next, None)
  BY DEF Pay
<1>2. IsRow(row) /\ row.sequence = k + 1
  <2>1. IsSequence(pending) /\ AreRows(pending) /\ Follow(pending, k)
    BY DEF LoanInv, Typed
  <2>2. 1 \in 1 .. Len(pending)
    BY <1>1, <2>1, NoList DEF IsSequence
  <2> QED BY <2>1, <2>2 DEF AreRows, Follow
<1>3. principal \in Nat /\ interest \in Nat /\ total \in Nat
  <2>1. /\ in.principal \in Nat \cup {None} /\ in.interest \in Nat \cup {None}
        /\ in.total \in Nat \cup {None}
    BY LoansConstants
  <2>2. row.principal \in Nat /\ row.interest \in Nat /\ scheduled \in Nat
    BY <1>2 DEF IsRow
  <2>. HIDE DEF scheduled, row
  <2> QED BY <2>1, <2>2, GivenAmount
<1>. HIDE DEF principal, interest, total
<1>4. total >= principal + interest
  BY <1>1, <1>3 DEF Covers
<1>5. /\ e.sequence = row.sequence /\ e.due = row.due /\ e.paidPrincipal = principal
      /\ e.paidInterest = interest /\ e.paidTotal = total /\ e.account = loan.account
      /\ e.paidAt = date /\ e.was = pending /\ e.since = Len(settled)
  BY DEF Event
<1>. HIDE DEF e
<1>6. IsEvent(e)
  BY <1>1, <1>2, <1>3, <1>4, <1>5 DEF IsEvent, IsRow
<1>7. /\ t \in Terms /\ k \in Nat /\ k <= Len(settled) /\ k <= MaxEvents
      /\ row.due \in Dates /\ Ahead(MonthOf[row.due], k)
      /\ IsSequence(pending) /\ Len(pending) \in 1 .. Periods
      /\ 2 \in 1 .. Len(pending) =>
             pending[2].due \in Dates /\ MonthOf[pending[2].due] = MonthOf[row.due] + 1
  BY <1>1, PendingPlan, FirstPending
<1>8. PlannedEvent(e)
  <2>1. e.sequence = k + 1 /\ e.sequence > 0 /\ ~(e.sequence <= 0) /\ e.sequence - 1 = k
    <3>. HIDE DEF k
    <3> QED BY <1>2, <1>5, <1>7
  <2>2. e.due = row.due /\ e.was = pending /\ e.was[1].due = e.due /\ e.paidAt = date
    BY <1>5
  <2>3. e.since \in Nat
    BY <1>5, EventsCount
  <2> QED BY <1>1, <1>7, <2>1, <2>2, <2>3 DEF PlannedEvent
<1>9. k + 1 <= MaxEvents /\ k < MaxEvents
  <2>1. Len(settled) < MaxEvents /\ Len(settled) \in Nat /\ MaxEvents \in Nat
    BY <1>1, LoanBounds DEF Served, LoanInv, Typed, IsSequence
  <2>. HIDE DEF k
  <2> QED BY <1>7, <2>1
<1>10. LastNumber(u) = k + 1
  <2>. DEFINE p == Len(settled) + 1
  <2>1. IsSequence(settled) /\ AreEvents(settled) /\ p \in 1 .. Len(settled) + 1
    BY DEF LoanInv, Typed, IsSequence
  <2>2. u = InsertAt(settled, p, e)
    BY DEF Recorded, Place
  <2>3. Inserts(u, settled, p) /\ u[p] = e
    <3>1. Inserts(InsertAt(settled, p, e), settled, p) /\ InsertAt(settled, p, e)[p] = e
      BY <2>1, InsertsOne
    <3> QED BY <2>2, <3>1
  <2>. HIDE DEF u, p, k
  <2>4. AreEvents(u)
    BY <1>6, <2>1, <2>3, EventsOf
  <2>5. u[p].sequence = k + 1 /\ u[p].sequence >= k
    BY <1>2, <1>5, <1>7, <2>3
  <2> QED BY <2>3, <2>4, <2>5, LastNumberInserted DEF k
<1>. HIDE DEF u, k, t
<1>11. Ahead(FirstMonth(t, u, next, None), k + 1)
  <2>1. CASE 2 \in 1 .. Len(pending)
    <3>1. next = pending[2].due
      <4>. DEFINE S == {pending[i] : i \in 1 .. Len(pending)}
                  rest == Tail(pending)
      <4>1. pending \in Seq(S)
        BY <1>7, ListOf
      <4>. HIDE DEF S
      <4>2. /\ rest \in Seq(S) /\ Len(rest) = Len(pending) - 1
            /\ \A i \in 1 .. Len(rest) : rest[i] = pending[i + 1]
        BY <1>1, <4>1, HeadTailProperties
      <4>. HIDE DEF rest
      <4>3. 1 \in 1 .. Len(rest) /\ Len(rest) # 0 /\ rest[1] = pending[2]
        BY <1>7, <2>1, <4>2
      <4>4. rest # <<>>
        BY <4>3, NoList
      <4> QED BY <4>3, <4>4 DEF NextDue, rest
    <3>2. next # None /\ MonthOf[next] = MonthOf[row.due] + 1
      BY <1>7, <2>1, <3>1, DatesAreGiven
    <3>. HIDE DEF next
    <3>3. 2 \in 2 .. Periods
      BY <1>7, <2>1, LoanBounds
    <3>4. Ahead(MonthOf[row.due] + 1, k + 1)
      BY <1>7, <1>9, <3>3, MonthsAhead
    <3> QED BY <3>2, <3>4, StartsWith
  <2>2. CASE 2 \notin 1 .. Len(pending)
    <3>1. next = None
      <4>. DEFINE S == {pending[i] : i \in 1 .. Len(pending)}
                  rest == Tail(pending)
      <4>1. pending \in Seq(S)
        BY <1>7, ListOf
      <4>. HIDE DEF S
      <4>2. rest \in Seq(S) /\ Len(rest) = Len(pending) - 1
        BY <1>1, <4>1, HeadTailProperties
      <4>. HIDE DEF rest
      <4>3. Len(pending) = 1 /\ Len(rest) = 0
        BY <1>7, <2>2, <4>2, LoanBounds
      <4>4. rest = <<>>
        BY <4>2, <4>3, EmptySeq
      <4> QED BY <4>4 DEF NextDue, rest
    <3>. HIDE DEF next
    <3>2. FirstMonth(t, u, next, None) = MonthOf[MonthsLater(t.start, LastNumber(u))]
      BY <3>1, StartsWith
    <3>3. k + 1 \in Nat
      BY <1>7
    <3>4. Ahead(MonthOf[MonthsLater(t.start, k + 1)], k + 1)
      BY <1>7, <1>9, <3>3, LaterMonths
    <3> QED BY <1>10, <3>2, <3>4
  <2> QED BY <2>1, <2>2
<1>12. Ahead(FirstMonth(loan.terms, Recorded(e, FALSE), next, None), LastNumber(Recorded(e, FALSE)))
  BY <1>10, <1>11 DEF u, t
<1>13. settled' = Recorded(e, FALSE) /\ Regenerate(Recorded(e, FALSE), next, None)
  BY <1>1 DEF u
<1>. HIDE DEF LoanInv, PlanInv, next
<1> QED BY <1>1, <1>5, <1>6, <1>8, <1>12, <1>13, EventFindsPlan

(* An event without a number, in whatever place, leaves the number of the last *)
(* payment.                                                                    *)
LEMMA UnnumberedLast ==
    ASSUME LoanInv, NEW waited \in BOOLEAN, Served(waited), NEW e, IsEvent(e), e.sequence <= 0
    PROVE  LastNumber(Recorded(e, waited)) = LastNumber(settled)
<1>. DEFINE u == Recorded(e, waited)
            p == Place(waited) + 1
            n == Len(settled)
<1>1. /\ IsSequence(settled) /\ AreEvents(settled) /\ n \in Nat
      /\ late \in 0 .. n \cup {None}
  BY DEF LoanInv, Typed, IsSequence
<1>2. p \in 1 .. n + 1
  BY <1>1 DEF Place, Served
<1>3. Inserts(u, settled, p) /\ u[p] = e
  <2>1. Inserts(InsertAt(settled, p, e), settled, p) /\ InsertAt(settled, p, e)[p] = e
    BY <1>1, <1>2, InsertsOne
  <2> QED BY <2>1 DEF Recorded
<1>. HIDE DEF u, p
<1>4. AreEvents(u)
  BY <1>1, <1>3, EventsOf
<1>5. /\ u[p].sequence \in Int /\ LastNumber(settled) \in Nat
      /\ u[p].sequence <= LastNumber(settled) => LastNumber(u) = LastNumber(settled)
  BY <1>3, <1>4, LastNumberInserted
<1>6. u[p].sequence <= LastNumber(settled)
  BY <1>3, <1>5
<1> QED BY <1>5, <1>6 DEF u

(* An extra payment or a reconciliation goes on with the payment due next, or, *)
(* if nothing is pending, with the month that follows in the terms.            *)
LEMMA UnnumberedAhead ==
    ASSUME LoanInv, PlanInv, Exists, NEW u, LastNumber(u) = LastNumber(settled)
    PROVE  Ahead(FirstMonth(loan.terms, u, NextDue(pending), None), LastNumber(u))
<1>. DEFINE t == loan.terms
            k == LastNumber(settled)
            next == NextDue(pending)
<1>1. t \in Terms /\ k \in Nat /\ k <= MaxEvents
  BY PendingPlan
<1>2. CASE pending # <<>>
  <2>1. next = pending[1].due /\ pending[1].due \in Dates /\ Ahead(MonthOf[pending[1].due], k)
    BY <1>2, FirstPending
  <2>2. next # None /\ Ahead(MonthOf[next], k)
    BY <2>1, DatesAreGiven
  <2>. HIDE DEF next, t, k
  <2>3. FirstMonth(t, u, next, None) = MonthOf[next]
    BY <2>2, StartsWith
  <2> QED BY <2>2, <2>3 DEF next, t, k
<1>3. CASE pending = <<>>
  <2>1. next = None
    BY <1>3 DEF NextDue
  <2>. HIDE DEF next
  <2>2. FirstMonth(t, u, next, None) = MonthOf[MonthsLater(t.start, k)]
    BY <2>1, StartsWith
  <2>3. Ahead(MonthOf[MonthsLater(t.start, k)], k)
    BY <1>1, LaterMonths
  <2> QED BY <2>2, <2>3 DEF next
<1> QED BY <1>2, <1>3

(* AddExtraPayment keeps what it finds. *)
LEMMA ExtraFindsPlan ==
    ASSUME LoanInv, PlanInv, NEW k \in Keys, NEW n \in Int, n > 0, NEW date \in EventDates,
           NEW waited \in BOOLEAN, AddExtraPayment(k, n, date, waited)
    PROVE  PlanInv'
<1>. DEFINE e == Event(0, date, n, 0, n, date, loan.account)
<1>1. /\ Exists /\ loan.account \in Payable /\ Served(waited)
      /\ settled' = Recorded(e, waited)
      /\ Regenerate(Recorded(e, waited), NextDue(pending), None)
  BY DEF AddExtraPayment
<1>2. /\ e.sequence = 0 /\ e.due = date /\ e.paidPrincipal = n /\ e.paidInterest = 0
      /\ e.paidTotal = n /\ e.account = loan.account /\ e.paidAt = date
      /\ e.was = pending /\ e.since = Len(settled)
  BY DEF Event
<1>. HIDE DEF e
<1>3. IsEvent(e) /\ PlannedEvent(e)
  BY <1>1, <1>2, EventsCount DEF IsEvent, PlannedEvent
<1>4. LastNumber(Recorded(e, waited)) = LastNumber(settled)
  BY <1>1, <1>2, <1>3, UnnumberedLast
<1>5. Ahead(FirstMonth(loan.terms, Recorded(e, waited), NextDue(pending), None),
            LastNumber(Recorded(e, waited)))
  BY <1>1, <1>4, UnnumberedAhead
<1>. HIDE DEF LoanInv, PlanInv
<1> QED BY <1>1, <1>2, <1>3, <1>5, EventFindsPlan

(* So does Reconcile. *)
LEMMA ReconcileFindsPlan ==
    ASSUME LoanInv, PlanInv, NEW actual \in Reported, NEW date \in EventDates,
           NEW waited \in BOOLEAN, Reconcile(actual, date, waited)
    PROVE  PlanInv'
<1>. DEFINE e == Event(-1, date, Remaining - actual, 0, 0, date, None)
<1>1. /\ Exists /\ actual # Remaining /\ Served(waited)
      /\ settled' = Recorded(e, waited)
      /\ Regenerate(Recorded(e, waited), NextDue(pending), None)
  BY DEF Reconcile
<1>2. /\ e.sequence = -1 /\ e.due = date /\ e.paidPrincipal = Remaining - actual
      /\ e.paidTotal = 0 /\ e.account = None /\ e.paidAt = date
      /\ e.was = pending /\ e.since = Len(settled)
  BY DEF Event
<1>. HIDE DEF e
<1>3. Remaining \in Int /\ actual \in Nat
  BY <1>1, PendingPlan, LoansConstants
<1>4. IsEvent(e) /\ PlannedEvent(e)
  <2>1. Remaining - actual \in Int \ {0}
    BY <1>1, <1>3
  <2> QED BY <1>2, <2>1, EventsCount DEF IsEvent, PlannedEvent
<1>5. e.sequence <= 0
  BY <1>2
<1>6. LastNumber(Recorded(e, waited)) = LastNumber(settled)
  BY <1>1, <1>4, <1>5, UnnumberedLast
<1>7. Ahead(FirstMonth(loan.terms, Recorded(e, waited), NextDue(pending), None),
            LastNumber(Recorded(e, waited)))
  BY <1>1, <1>6, UnnumberedAhead
<1>. HIDE DEF LoanInv, PlanInv
<1> QED BY <1>1, <1>2, <1>4, <1>7, EventFindsPlan

(* Undo goes on from the month of the payment it takes back, or from that of *)
(* the payment due next, or from that of the event.                          *)
LEMMA UndoAhead ==
    ASSUME LoanInv, PlanInv, Undo
    PROVE  LET e == Last(settled)
               s == Front(settled)
           IN  /\ Ahead(FirstMonth(loan.terms, s, DueAgain(e), e.due), LastNumber(s))
               /\ e.sequence > 0 => /\ FirstMonth(loan.terms, s, DueAgain(e), e.due) = MonthOf[e.due]
                                    /\ LastNumber(s) = e.sequence - 1
               /\ e.sequence <= 0 /\ pending # <<>> =>
                      /\ FirstMonth(loan.terms, s, DueAgain(e), e.due) = MonthOf[pending[1].due]
                      /\ LastNumber(s) = LastNumber(settled)
<1>. DEFINE e == Last(settled)
            s == Front(settled)
            n == Len(settled)
            t == loan.terms
            k == LastNumber(s)
            m == FirstMonth(t, s, DueAgain(e), e.due)
<1>1. Exists /\ settled # <<>>
  BY DEF Undo
<1>2. IsSequence(settled) /\ AreEvents(settled) /\ n \in Nat /\ InOrder(settled)
  BY DEF LoanInv, Typed, IsSequence
<1>3. Inserts(settled, s, n) /\ settled[n] = e
  BY <1>1, <1>2, InsertsOne
<1>. HIDE DEF e, s
<1>4. n = Len(s) + 1 /\ n \in 1 .. n /\ settled[Len(s) + 1] = e /\ Inserts(settled, s, Len(s) + 1)
  <2>1. n = Len(s) + 1 /\ n \in 1 .. n
    BY <1>2, <1>3 DEF Inserts, IsSequence, n
  <2> QED BY <1>3, <2>1
<1>5. PlannedEvent(e)
  BY <1>3, <1>4 DEF PlanInv, n
<1>6. /\ e.sequence \in Int /\ LastNumber(settled) \in Nat /\ k \in Nat
      /\ e.sequence <= k => LastNumber(settled) = k
  <2>1. /\ settled[n].sequence \in Int /\ LastNumber(s) \in Nat /\ LastNumber(settled) \in Nat
        /\ settled[n].sequence <= LastNumber(s) => LastNumber(settled) = LastNumber(s)
    BY <1>2, <1>3, LastNumberInserted
  <2> QED BY <1>3, <2>1
<1>7. t \in Terms /\ LastNumber(settled) <= MaxEvents /\ Periods \in Nat /\ MaxEvents \in Nat
  BY <1>1, PendingPlan, LoanBounds
<1>8. CASE e.sequence > 0
  <2>1. k = e.sequence - 1
    BY <1>2, <1>4, <1>8, LastNumberTaken
  <2>2. e.due \in Dates /\ Ahead(MonthOf[e.due], e.sequence - 1) /\ e.due # None
    BY <1>5, <1>8, DatesAreGiven DEF PlannedEvent
  <2>3. DueAgain(e) = e.due
    BY <1>8 DEF DueAgain
  <2>4. m = MonthOf[e.due]
    BY <2>2, <2>3, StartsWith
  <2> QED BY <1>6, <1>8, <2>1, <2>2, <2>4 DEF e, s
<1>9. CASE e.sequence <= 0
  <2>1. ~(e.sequence > 0) /\ e.sequence <= k /\ k = LastNumber(settled) /\ k <= MaxEvents
    BY <1>6, <1>7, <1>9
  <2>2. DueAgain(e) = NextDue(pending)
    BY <2>1 DEF DueAgain
  <2>3. CASE pending # <<>>
    <3>1. NextDue(pending) = pending[1].due /\ pending[1].due \in Dates
          /\ Ahead(MonthOf[pending[1].due], k)
      BY <1>1, <2>1, <2>3, FirstPending
    <3>2. m = MonthOf[pending[1].due]
      BY <2>2, <3>1, StartsWith, DatesAreGiven
    <3> QED BY <2>1, <3>1, <3>2 DEF e, s
  <2>4. CASE pending = <<>>
    <3>1. NextDue(pending) = None
      BY <2>4 DEF NextDue
    <3>2. e.due \in EventDates
      BY <1>5, <1>9 DEF PlannedEvent
    <3>3. /\ e.due # None /\ MonthOf[e.due] \in Months
          /\ MonthOf[e.due] + MaxEvents + Periods \in Months /\ Periods # 0
      BY <1>7, <3>2, LoanBounds, DatesAreGiven
    <3>4. m = MonthOf[e.due]
      BY <2>2, <3>1, <3>3, StartsWith
    <3>5. Ahead(MonthOf[e.due], k)
      BY <1>6, <2>1, <3>3, EventsAhead
    <3> QED BY <2>1, <2>4, <3>4, <3>5 DEF e, s
  <2> QED BY <2>3, <2>4
<1> QED BY <1>6, <1>8, <1>9

(* Undo keeps what the events before it found. *)
LEMMA UndoFindsPlan == ASSUME LoanInv, PlanInv, Undo PROVE PlanInv'
<1>. DEFINE e == Last(settled)
            s == Front(settled)
            n == Len(settled)
            t == loan.terms
<1>1. /\ Exists /\ settled # <<>> /\ settled' = s
      /\ Regenerate(s, DueAgain(e), e.due)
      /\ late' = IF late = n THEN Len(s) ELSE late
  BY DEF Undo
<1>2. /\ IsSequence(settled) /\ n \in Nat /\ late \in 0 .. n \cup {None}
  BY DEF LoanInv, Typed, IsSequence
<1>3. /\ n \in Nat \ {0} /\ IsSequence(s) /\ Len(s) = n - 1
      /\ \A i \in 1 .. n - 1 : s[i] = settled[i]
  BY <1>1, <1>2, Fronts
<1>4. Ahead(FirstMonth(loan.terms, s, DueAgain(e), e.due), LastNumber(s))
  BY UndoAhead
<1>5. loan'.terms = t /\ IsPlan(pending', loan'.terms, Remaining', LastNumber(settled'))
  <2>1. Typed
    BY DEF LoanInv
  <2>. HIDE DEF e, s
  <2> QED BY <1>1, <1>4, <2>1, RegeneratedPlan
<1>6. /\ n <= MaxEvents /\ MaxEvents \in Nat
      /\ \A i \in 1 .. n : PlannedEvent(settled[i]) /\ FoundPlan(t, settled, i)
      /\ late # None => SinceWaiting(late, settled)
  BY LoanBounds DEF PlanInv
<1>. HIDE DEF e, s, n, t
<1>7. ASSUME NEW i \in 1 .. Len(s) PROVE PlannedEvent(s[i]) /\ FoundPlan(t, s, i)
  <2>1. i \in 1 .. n /\ i \in 1 .. n - 1 /\ \A j \in 1 .. i - 1 : j \in 1 .. n - 1
    BY <1>3
  <2>2. s[i] = settled[i] /\ \A j \in 1 .. i - 1 : s[j] = settled[j]
    BY <1>3, <2>1
  <2>3. FirstOnes(s, i - 1) = FirstOnes(settled, i - 1)
    BY <2>2 DEF FirstOnes
  <2>4. PlannedEvent(settled[i]) /\ FoundPlan(t, settled, i)
    BY <1>6, <2>1
  <2> QED BY <2>2, <2>3, <2>4 DEF FoundPlan
<1>8. ASSUME late' # None PROVE SinceWaiting(late', s)
  <2>1. CASE late = n
    <3>1. late' = n - 1 /\ \A i \in (n - 1) + 1 .. n - 1 : FALSE
      BY <1>1, <1>3, <2>1
    <3> QED BY <1>3, <3>1 DEF SinceWaiting
  <2>2. CASE late # n
    <3>1. late' = late /\ late \in 0 .. n /\ SinceWaiting(late, settled)
      BY <1>1, <1>2, <1>6, <1>8, <2>2
    <3>2. ASSUME NEW i \in late + 1 .. Len(s) PROVE s[i].since = i - 1
      <4>1. i \in late + 1 .. n /\ i \in 1 .. n - 1
        BY <1>3, <3>1
      <4> QED BY <1>3, <3>1, <4>1 DEF SinceWaiting, n
    <3> QED BY <3>1, <3>2 DEF SinceWaiting
  <2> QED BY <2>1, <2>2
<1>9. Len(s) <= MaxEvents
  BY <1>3, <1>6
<1> QED BY <1>1, <1>5, <1>7, <1>8, <1>9 DEF PlanInv

(* A created loan has the plan of its terms. *)
LEMMA CreateFindsPlan ==
    ASSUME LoanInv, PlanInv, NEW t \in Terms, NEW a, Create(t, a)
    PROVE  PlanInv'
<1>. DEFINE m == MonthOf[t.start]
            owed == t.principal
            rows == BuildSchedule(owed, t, t.months, m)
            plan == BuildSchedule(owed, t, Periods, m)
            l == [terms |-> t, account |-> a, status |-> "active"]
<1>1. /\ loan = Fresh /\ Closes(rows, owed) /\ loan' = l /\ pending' = rows
      /\ settled' = settled /\ late' = late
  BY DEF Create
<1>2. l.terms = t
  OBVIOUS
<1>. HIDE DEF l
<1>3. settled = <<>> /\ Len(settled) = 0 /\ \A i \in 1 .. Len(settled) : FALSE
  BY <1>1, NoList DEF Exists, LoanInv, NothingWithoutLoan
<1>4. /\ IsTerms(t) /\ Periods \in Nat /\ MaxEvents \in Nat /\ Periods # 0
      /\ t.months \in Nat /\ t.months <= Periods /\ owed \in Nat
      /\ m \in Months /\ m + MaxEvents + Periods \in Months
  <2>1. /\ IsTerms(t) /\ Periods # 0 /\ t.months \in 1 .. Periods /\ m \in Months
        /\ m + MaxEvents + Periods \in Months
    BY LoanBounds
  <2> QED BY <2>1, LoanBounds DEF IsTerms
<1>5. rows # <<>> /\ Repaid(rows) = owed
  BY <1>1 DEF Closes
<1>6. /\ IsSequence(rows) /\ \A i \in 1 .. Len(rows) : IsPayment(rows[i], i, t, m)
      /\ Amortizes(owed, t) /\ owed > 0
  BY <1>4, <1>5, ScheduleRows
<1>7. plan = rows
  BY <1>4, <1>5, <1>6, ScheduleSettles
<1>. HIDE DEF rows, plan, owed, m
<1>8. Renumbered(rows, 0) = rows
  <2>1. DOMAIN rows = 1 .. Len(rows) /\ rows = [i \in 1 .. Len(rows) |-> rows[i]]
    BY <1>6 DEF IsSequence
  <2>2. ASSUME NEW i \in 1 .. Len(rows)
        PROVE  [sequence |-> 0 + i, due |-> rows[i].due,
                principal |-> rows[i].principal, interest |-> rows[i].interest] = rows[i]
    <3>. DEFINE r == rows[i]
                d == Clamped(m + i - 1, t.day)
    <3>1. IsPayment(r, i, t, m) /\ 0 + i = i
      BY <1>6
    <3>2. r.due = d /\ r = [sequence |-> i, due |-> d, principal |-> r.principal, interest |-> r.interest]
      BY <3>1, PaymentIs DEF IsPayment
    <3>. HIDE DEF r, d
    <3>3. [sequence |-> 0 + i, due |-> r.due, principal |-> r.principal, interest |-> r.interest] = r
      BY <3>1, <3>2
    <3> QED BY <3>3 DEF r
  <2>3. Renumbered(rows, 0) =
            [i \in 1 .. Len(rows) |-> [sequence |-> 0 + i, due |-> rows[i].due,
                                       principal |-> rows[i].principal,
                                       interest |-> rows[i].interest]]
    BY <2>1 DEF Renumbered
  <2> QED BY <2>1, <2>2, <2>3
<1>9. Ahead(m, 0)
  BY <1>4, EventsAhead
<1>10. Closes(plan, owed)
  BY <1>5, <1>7 DEF Closes
<1>11. IsPlan(pending', t, owed, 0)
  BY <1>1, <1>4, <1>6, <1>7, <1>8, <1>9, <1>10 DEF IsPlan, plan
<1>12. Remaining' = owed /\ LastNumber(settled') = 0
  BY <1>1, <1>2, <1>3, <1>4, NoEvents DEF Remaining, owed
<1>13. IsPlan(pending', loan'.terms, Remaining', LastNumber(settled'))
  BY <1>1, <1>2, <1>11, <1>12
<1>14. late # None => SinceWaiting(late, settled)
  BY DEF PlanInv
<1> QED BY <1>1, <1>3, <1>4, <1>13, <1>14 DEF PlanInv

(* What neither records nor undoes an event leaves what was found. *)
LEMMA NothingFound ==
    ASSUME LoanInv, PlanInv, Exists' => Exists, loan'.terms = loan.terms \/ settled = <<>>,
           Exists' => loan'.terms = loan.terms /\ pending' = pending, settled' = settled,
           late' # None => late' = late \/ late' = Len(settled)
    PROVE  PlanInv'
<1>1. /\ Len(settled) <= MaxEvents
      /\ Exists => IsPlan(pending, loan.terms, Remaining, LastNumber(settled))
      /\ \A i \in 1 .. Len(settled) : PlannedEvent(settled[i]) /\ FoundPlan(loan.terms, settled, i)
      /\ late # None => SinceWaiting(late, settled)
  BY DEF PlanInv
<1>2. Exists' => IsPlan(pending', loan'.terms, Remaining', LastNumber(settled'))
  BY <1>1 DEF Remaining
<1>3. \A i \in 1 .. Len(settled) : PlannedEvent(settled[i]) /\ FoundPlan(loan'.terms, settled, i)
  <2>1. settled = <<>> => \A i \in 1 .. Len(settled) : FALSE
    BY NoList
  <2> QED BY <1>1, <2>1
<1>4. ASSUME late' # None PROVE SinceWaiting(late', settled)
  <2>1. CASE late' = late
    BY <1>1, <1>4, <2>1
  <2>2. CASE late' = Len(settled)
    <3>1. Len(settled) \in Nat
      BY DEF LoanInv, Typed, IsSequence
    <3>2. \A i \in Len(settled) + 1 .. Len(settled) : FALSE
      BY <3>1
    <3> QED BY <2>2, <3>2 DEF SinceWaiting
  <2> QED BY <1>4, <2>1, <2>2
<1> QED BY <1>1, <1>2, <1>3, <1>4 DEF PlanInv

(* It holds of a loan that is not there yet. *)
LEMMA PlanInitially == Init => PlanInv
<1>. SUFFICES ASSUME Init PROVE PlanInv
  OBVIOUS
<1>1. loan = Fresh /\ settled = <<>> /\ late = None
  BY DEF Init
<1>2. ~Exists /\ Len(settled) = 0 /\ \A i \in 1 .. Len(settled) : FALSE
  BY <1>1, NoList DEF Exists
<1>3. 0 <= MaxEvents
  BY LoanBounds
<1> QED BY <1>1, <1>2, <1>3 DEF PlanInv

(* Every step keeps it. *)
LEMMA PlanKept == LoanInv /\ PlanInv /\ [Next]_vars => PlanInv'
<1>. SUFFICES ASSUME LoanInv, PlanInv, [Next]_vars PROVE PlanInv'
  OBVIOUS
<1>2. ASSUME NEW a \in Accounts, NEW t \in Terms, Create(t, a) PROVE PlanInv'
  BY <1>2, CreateFindsPlan
<1>3. ASSUME NEW a \in Accounts, Update(a) PROVE PlanInv'
  <2>1. /\ Exists /\ loan' = [loan EXCEPT !.account = a]
        /\ settled' = settled /\ pending' = pending /\ late' = late
    BY <1>3 DEF Update
  <2>2. loan'.terms = loan.terms
    <3>1. loan \in LoanRows
      BY <2>1, ExistingLoans DEF LoanInv, Typed
    <3> QED BY <2>1, <3>1 DEF LoanRows
  <2> QED BY <2>1, <2>2, NothingFound
<1>4. CASE Delete
  <2>1. Exists /\ settled = <<>> /\ loan' = Deleted /\ settled' = settled /\ late' = late
    BY <1>4 DEF Delete
  <2>2. ~Exists'
    BY <2>1 DEF Exists
  <2> QED BY <2>1, <2>2, NothingFound
<1>5. CASE Settling
  <2>1. PICK date \in EventDates :
            \/ \E in \in Overrides : Pay(in, date)
            \/ \E waited \in BOOLEAN :
                   \/ \E k \in Keys : \/ \E n \in Extras : AddExtraPayment(k, n, date, waited)
                                      \/ /\ Exists
                                         /\ AddExtraPayment(k, Remaining, date, waited)
                   \/ \E actual \in Reported : Reconcile(actual, date, waited)
    BY <1>5 DEF Settling
  <2>2. ASSUME NEW in \in Overrides, Pay(in, date) PROVE PlanInv'
    BY <2>2, PayFindsPlan
  <2>3. ASSUME NEW waited \in BOOLEAN, NEW k \in Keys, NEW n \in Extras,
               AddExtraPayment(k, n, date, waited)
        PROVE  PlanInv'
    <3>1. n \in Int /\ n > 0
      BY LoansConstants
    <3> QED BY <2>3, <3>1, ExtraFindsPlan
  <2>4. ASSUME NEW waited \in BOOLEAN, NEW k \in Keys, Exists,
               AddExtraPayment(k, Remaining, date, waited)
        PROVE  PlanInv'
    <3>1. loan.status # "paid_off"
      BY <2>4 DEF AddExtraPayment
    <3>2. Remaining \in Int /\ Remaining > 0
      BY <2>4, <3>1, LeftToPay
    <3> QED BY <2>4, <3>2, ExtraFindsPlan
  <2>5. ASSUME NEW waited \in BOOLEAN, NEW actual \in Reported, Reconcile(actual, date, waited)
        PROVE  PlanInv'
    BY <2>5, ReconcileFindsPlan
  <2> QED BY <2>1, <2>2, <2>3, <2>4, <2>5
<1>6. CASE Undo
  BY <1>6, UndoFindsPlan
<1>7. CASE Wait
  <2>1. loan' = loan /\ settled' = settled /\ pending' = pending /\ late' = Len(settled)
    BY <1>7 DEF Wait
  <2>2. Exists' = Exists
    BY <2>1 DEF Exists
  <2> QED BY <2>1, <2>2, NothingFound
<1>8. CASE GiveUp
  <2>1. loan' = loan /\ settled' = settled /\ pending' = pending /\ late' = None
    BY <1>8 DEF GiveUp
  <2>2. Exists' = Exists
    BY <2>1 DEF Exists
  <2> QED BY <2>1, <2>2, NothingFound
<1>9. CASE UNCHANGED vars
  <2>1. loan' = loan /\ settled' = settled /\ pending' = pending /\ late' = late
    BY <1>9 DEF vars
  <2>2. Exists' = Exists
    BY <2>1 DEF Exists
  <2> QED BY <2>1, <2>2, NothingFound
<1> QED BY <1>2, <1>3, <1>4, <1>5, <1>6, <1>7, <1>8, <1>9 DEF Next

(* What is pending is always the schedule of what is owed, from a month of    *)
(* the calendar on, and so was what each event found (regenerateLoanSchedule  *)
(* of store/loans.go).                                                        *)
THEOREM PlansKept == Spec => []PlanInv
<1>1. Init => PlanInv
  BY PlanInitially
<1>2. LoanInv /\ PlanInv /\ [Next]_vars => PlanInv'
  BY PlanKept
<1> QED BY <1>1, <1>2, LoansInvariant, PTL DEF Spec

(* Expenses are not negative: what they add up to is not. *)
LEMMA CostsCount ==
    ASSUME NEW events, IsSequence(events), AreEvents(events), NEW a
    PROVE  Cost(events, a) \in Nat
<1>. DEFINE n == Len(events)
            f == [i \in DOMAIN events |-> IF events[i].account = a THEN events[i].paidTotal ELSE 0]
<1>1. n \in Nat /\ DOMAIN events = 1 .. n
  BY DEF IsSequence
<1>2. \A i \in 1 .. n : events[i].paidTotal \in Nat
  BY DEF AreEvents, IsEvent
<1>. HIDE DEF n
<1>3. IsFiniteSet(1 .. n)
  BY <1>1, FS_Interval
<1>4. f \in [1 .. n -> Nat]
  BY <1>1, <1>2
<1>. HIDE DEF f
<1>5. Total(f) \in Nat
  BY <1>3, <1>4, TotalNatural
<1> QED BY <1>5 DEF Cost, f

(* The two invariants say that the rows are typed. *)
LEMMA LoansAreTyped == LoanInv /\ PlanInv => LoansTypeOK
<1>. SUFFICES ASSUME LoanInv, PlanInv PROVE LoansTypeOK
  OBVIOUS
<1>1. /\ loan \in LoanRows \cup {Fresh, Deleted}
      /\ IsSequence(pending) /\ IsSequence(settled) /\ AreEvents(settled)
      /\ receipts \subseteq Keys /\ spent \in [Accounts -> Int]
      /\ late \in 0 .. Len(settled) \cup {None}
  BY DEF LoanInv, Typed
<1>2. DOMAIN pending = 1 .. Len(pending) /\ DOMAIN settled = 1 .. Len(settled)
  BY <1>1 DEF IsSequence
<1>3. \A i \in DOMAIN pending : pending[i] \in Rows
  <2>1. CASE pending = <<>>
    BY <2>1, NoList
  <2>2. CASE pending # <<>>
    <3>1. Exists
      BY <2>2 DEF LoanInv, NothingWithoutLoan
    <3>. DEFINE k == LastNumber(settled)
                t == loan.terms
    <3>2. /\ t \in Terms /\ Remaining \in Int /\ Remaining > 0
          /\ k \in Nat /\ k <= MaxEvents /\ IsPlan(pending, t, Remaining, k)
      BY <2>2, <3>1, PendingPlan
    <3>. HIDE DEF k, t
    <3> QED BY <1>2, <3>2, PlanIs
  <2> QED BY <2>1, <2>2
<1>4. ASSUME NEW i \in DOMAIN settled
      PROVE  LET e == settled[i]
             IN  /\ {e.due, e.paidAt} \subseteq Dates
                 /\ \/ /\ e.sequence \in Nat /\ e.account \in Payable
                       /\ e.paidPrincipal \in Nat /\ e.paidInterest \in Nat
                       /\ e.paidTotal >= e.paidPrincipal + e.paidInterest
                    \/ /\ e.sequence = -1 /\ e.account = None
                       /\ e.paidPrincipal \in Int \ {0} /\ e.paidTotal = 0
  <2>1. IsEvent(settled[i]) /\ PlannedEvent(settled[i])
    BY <1>1, <1>2 DEF AreEvents, PlanInv
  <2>2. settled[i].sequence \in Int /\ EventDates \subseteq Dates
    BY <2>1, EventAmounts, LoansConstants
  <2>3. settled[i].due \in Dates /\ settled[i].paidAt \in Dates
    BY <2>1, <2>2 DEF PlannedEvent
  <2> QED BY <2>1, <2>3 DEF IsEvent
<1>5. spent \in [Accounts -> Nat]
  <2>1. \A a \in Accounts : spent[a] = Cost(settled, a) /\ Cost(settled, a) \in Nat
    BY <1>1, CostsCount DEF LoanInv, ExpensesBooked
  <2> QED BY <1>1, <2>1
<1> QED BY <1>1, <1>3, <1>4, <1>5 DEF LoansTypeOK

(* Rows keep the types and the CHECKs of migration 00022, whatever is paid,   *)
(* reconciled and undone: no payment falls due outside the calendar, and no   *)
(* account is given back more than it spent.                                  *)
THEOREM LoansTyped == Spec => []LoansTypeOK
  BY LoansInvariant, PlansKept, LoansAreTyped, PTL
-----------------------------------------------------------------------------
(* What an undo restores *)

(* Schedules of the same amounts differ in their dates only. *)
LEMMA SameUndated ==
    ASSUME NEW r, NEW s, SameAmounts(r, s), NEW k
    PROVE  Undated(Renumbered(r, k)) = Undated(Renumbered(s, k))
<1>. DEFINE n == Len(r)
            row(x, i) == [sequence |-> k + i, due |-> x[i].due,
                          principal |-> x[i].principal, interest |-> x[i].interest]
            bare(x, i) == [sequence |-> k + i, due |-> 0,
                           principal |-> x[i].principal, interest |-> x[i].interest]
<1>1. DOMAIN r = 1 .. n /\ DOMAIN s = 1 .. n
  BY DEF SameAmounts, IsSequence
<1>2. \A i \in 1 .. n : r[i].principal = s[i].principal /\ r[i].interest = s[i].interest
  BY DEF SameAmounts
<1>. HIDE DEF n
<1>3. ASSUME NEW x, DOMAIN x = 1 .. n PROVE Undated(Renumbered(x, k)) = [i \in 1 .. n |-> bare(x, i)]
  <2>1. Renumbered(x, k) = [i \in 1 .. n |-> row(x, i)]
    BY <1>3 DEF Renumbered
  <2>. DEFINE y == Renumbered(x, k)
  <2>2. DOMAIN y = 1 .. n /\ \A i \in 1 .. n : y[i] = row(x, i)
    BY <2>1
  <2>3. \A i \in 1 .. n : [row(x, i) EXCEPT !.due = 0] = bare(x, i)
    OBVIOUS
  <2>. HIDE DEF y, row, bare
  <2>4. \A i \in 1 .. n : [y[i] EXCEPT !.due = 0] = bare(x, i)
    BY <2>2, <2>3
  <2>5. Undated(y) = [i \in 1 .. n |-> [y[i] EXCEPT !.due = 0]]
    BY <2>2 DEF Undated
  <2> QED BY <2>4, <2>5 DEF y
<1>4. \A i \in 1 .. n : bare(r, i) = bare(s, i)
  BY <1>2
<1>. HIDE DEF bare
<1> QED BY <1>1, <1>3, <1>4

(* What Undo puts back is what the event found, if it was the last to come,  *)
(* and the next payment stays due when it was.                               *)
LEMMA UndoPutsBack ==
    ASSUME LoanInv, PlanInv, Undo
    PROVE  LET e == Last(settled)
           IN  /\ Newest(e) =>
                      /\ Undated(pending') = Undated(e.was)
                      /\ e.sequence > 0 => pending' = e.was
               /\ e.sequence <= 0 /\ pending # <<>> /\ pending' # <<>> =>
                      NextDue(pending') = NextDue(pending)
<1>. DEFINE e == Last(settled)
            s == Front(settled)
            n == Len(settled)
            t == loan.terms
            k == LastNumber(s)
            m == FirstMonth(t, s, DueAgain(e), e.due)
            owed == Owed(t, s)
            rows == BuildSchedule(owed, t, Periods, m)
<1>1. /\ Exists /\ settled # <<>>
      /\ owed > 0 => Closes(rows, owed)
      /\ pending' = IF owed > 0 THEN Renumbered(rows, k) ELSE <<>>
  BY DEF Undo, Regenerate
<1>2. /\ IsSequence(settled) /\ AreEvents(settled) /\ InOrder(settled)
  BY DEF LoanInv, Typed
<1>3. Inserts(settled, s, n) /\ settled[n] = e
  BY <1>1, <1>2, InsertsOne
<1>4. /\ n \in Nat \ {0} /\ IsSequence(s) /\ Len(s) = n - 1
      /\ \A i \in 1 .. n - 1 : s[i] = settled[i]
  BY <1>1, <1>2, Fronts
<1>5. /\ Ahead(m, k)
      /\ e.sequence > 0 => m = MonthOf[e.due]
      /\ e.sequence <= 0 /\ pending # <<>> => m = MonthOf[pending[1].due] /\ k = LastNumber(settled)
  BY UndoAhead
<1>. HIDE DEF e, s, m
<1>6. /\ t \in Terms /\ IsTerms(t) /\ Periods \in Nat /\ MaxEvents \in Nat /\ n <= MaxEvents
      /\ LastNumber(settled) \in Nat /\ LastNumber(settled) <= MaxEvents /\ Remaining \in Int
  BY <1>1, PendingPlan, LoanBounds DEF PlanInv
<1>7. AreEvents(s) /\ InOrder(s)
  <2>1. n = Len(s) + 1
    BY <1>4
  <2> QED BY <1>2, <1>3, <2>1, EventsOf, FrontInOrder
<1>8. owed \in Int
  BY <1>4, <1>6, <1>7, OwedType
<1>9. k \in Nat /\ k <= MaxEvents
  <2>1. k \in Nat /\ k <= Len(s)
    BY <1>4, <1>7, LastNumberIs, NumbersCounted
  <2>. HIDE DEF k, n
  <2> QED BY <1>4, <1>6, <2>1
<1>10. PlannedEvent(e) /\ FoundPlan(t, settled, n)
  BY <1>3, <1>4 DEF PlanInv
<1>11. m \in Months /\ m \in Nat
  BY <1>5, MonthsAre DEF Ahead
<1>12. ASSUME owed > 0
       PROVE  /\ owed \in Nat /\ Amortizes(owed, t) /\ pending' = Renumbered(rows, k)
              /\ pending'[1].due = Clamped(m, t.day)
  <2>1. owed \in Nat /\ rows # <<>> /\ pending' = Renumbered(rows, k)
    BY <1>1, <1>8, <1>12 DEF Closes
  <2>2. /\ IsSequence(rows) /\ \A i \in 1 .. Len(rows) : IsPayment(rows[i], i, t, m)
        /\ Amortizes(owed, t)
    BY <1>6, <2>1, ScheduleRows
  <2>. HIDE DEF rows, owed, k
  <2>3. 1 \in 1 .. Len(rows)
    BY <2>1, <2>2, NoList DEF IsSequence
  <2>4. rows[1].due = Clamped(m + 1 - 1, t.day) /\ m + 1 - 1 = m
    BY <1>11, <2>2, <2>3, PaymentIs
  <2>5. Renumbered(rows, k)[1].due = rows[1].due
    BY <2>2, <2>3 DEF Renumbered, IsSequence
  <2> QED BY <2>1, <2>2, <2>4, <2>5
<1>13. ASSUME Newest(e)
       PROVE  Undated(pending') = Undated(e.was) /\ (e.sequence > 0 => pending' = e.was)
  <2>1. e.since = n - 1
    <3>1. n = e.since + 1 /\ e.since \in Nat
      BY <1>10, <1>13 DEF Newest, PlannedEvent
    <3> QED BY <1>4, <3>1
  <2>2. FirstOnes(settled, n - 1) = s
    BY <1>4 DEF FirstOnes, IsSequence
  <2>3. IsPlan(e.was, t, owed, k)
    BY <1>3, <1>10, <2>1, <2>2 DEF FoundPlan
  <2>4. CASE owed > 0
    <3>1. PICK o \in Months :
              /\ e.was = Renumbered(BuildSchedule(owed, t, Periods, o), k)
              /\ Len(e.was) \in 1 .. Periods
              /\ \A i \in 1 .. Len(e.was) : MonthOf[e.was[i].due] = o + i - 1
      <4>1. t \in Terms /\ owed \in Int /\ owed > 0 /\ k \in Nat /\ k <= MaxEvents
        BY <1>6, <1>8, <1>9, <2>4
      <4>. HIDE DEF owed, k, t
      <4> QED BY <2>3, <4>1, PlanIs
    <3>2. owed \in Nat /\ Amortizes(owed, t) /\ pending' = Renumbered(rows, k)
      BY <1>12, <2>4
    <3>. DEFINE other == BuildSchedule(owed, t, Periods, o)
    <3>3. SameAmounts(rows, other)
      BY <1>6, <3>2, SameSchedule
    <3>. HIDE DEF rows, other, k
    <3>4. Undated(Renumbered(rows, k)) = Undated(Renumbered(other, k))
      BY <3>3, SameUndated
    <3>5. ASSUME e.sequence > 0 PROVE pending' = e.was
      <4>1. e.was[1].due = e.due /\ m = MonthOf[e.due]
        BY <1>5, <1>10, <3>5 DEF PlannedEvent
      <4>2. 1 \in 1 .. Len(e.was) /\ o \in Nat
        BY <3>1, MonthsAre
      <4>3. MonthOf[e.was[1].due] = o
        BY <3>1, <4>2
      <4>4. o = m
        BY <4>1, <4>3
      <4> QED BY <3>1, <3>2, <4>4 DEF rows
    <3> QED BY <3>1, <3>2, <3>4, <3>5 DEF other
  <2>5. CASE ~(owed > 0)
    <3>1. e.was = <<>>
      BY <2>3, <2>5 DEF IsPlan
    <3> QED BY <1>1, <2>5, <3>1
  <2> QED BY <2>4, <2>5
<1>14. ASSUME e.sequence <= 0, pending # <<>>, pending' # <<>>
       PROVE  NextDue(pending') = NextDue(pending)
  <2>1. owed > 0
    BY <1>1, <1>14
  <2>2. NextDue(pending') = Clamped(m, t.day)
    BY <1>12, <1>14, <2>1 DEF NextDue
  <2>. DEFINE j == LastNumber(settled)
  <2>3. Remaining > 0 /\ IsPlan(pending, t, Remaining, j)
    BY <1>1, <1>14, PendingPlan
  <2>0. t \in Terms /\ Remaining \in Int /\ j \in Nat /\ j <= MaxEvents
    BY <1>6
  <2>. HIDE DEF j, t
  <2>4. PICK o \in Months :
            /\ Len(pending) \in 1 .. Periods
            /\ \A i \in 1 .. Len(pending) : /\ pending[i].due = Clamped(o + i - 1, t.day)
                                            /\ MonthOf[pending[i].due] = o + i - 1
    BY <2>0, <2>3, PlanIs
  <2>5. 1 \in 1 .. Len(pending) /\ o \in Nat /\ o + 1 - 1 = o
    BY <2>4, MonthsAre
  <2>6. pending[1].due = Clamped(o, t.day) /\ MonthOf[pending[1].due] = o
    BY <2>4, <2>5
  <2>7. m = o
    BY <1>5, <1>14, <2>6
  <2> QED BY <1>14, <2>2, <2>6, <2>7 DEF NextDue
<1> QED BY <1>13, <1>14 DEF e

(* When nothing was recorded since, the payments to come are again those the  *)
(* event found, of the same numbers and amounts, and a monthly payment is due *)
(* again when it was (Undo of store/loans.go): for every plan, whatever was   *)
(* recorded and undone before.                                                *)
THEOREM UndoesRestore == Spec => UndoRestores
<1>1. LoanInv /\ PlanInv /\ [Next]_vars =>
          [Undone =>
               LET e == Last(settled)
               IN  /\ Newest(e) =>
                          /\ Undated(pending') = Undated(e.was)
                          /\ e.sequence > 0 => pending' = e.was
                   /\ e.sequence <= 0 /\ pending # <<>> /\ pending' # <<>> =>
                          NextDue(pending') = NextDue(pending)]_vars
  <2>. SUFFICES ASSUME LoanInv, PlanInv, Next, Undone
                PROVE  LET e == Last(settled)
                       IN  /\ Newest(e) =>
                                  /\ Undated(pending') = Undated(e.was)
                                  /\ e.sequence > 0 => pending' = e.was
                           /\ e.sequence <= 0 /\ pending # <<>> /\ pending' # <<>> =>
                                  NextDue(pending') = NextDue(pending)
    BY Zenon
  <2>1. Undo
    BY OnlyUndoTakes DEF Undone
  <2> QED BY <2>1, UndoPutsBack
<1> QED BY <1>1, LoansInvariant, PlansKept, PTL DEF Spec, UndoRestores
-----------------------------------------------------------------------------
(* What the calculator announces *)

(* Without the element it gained, a list is what it was. *)
LEMMA RemovedAgain ==
    ASSUME NEW u, NEW s, NEW p, Inserts(u, s, p)
    PROVE  RemoveAt(u, p) = s
<1>. DEFINE n == Len(s)
            S == {u[i] : i \in 1 .. n + 1}
            a == SubSeq(u, 1, p - 1)
            b == SubSeq(u, p + 1, n + 1)
            c == a \o b
<1>1. /\ n \in Nat /\ p \in 1 .. n + 1 /\ Len(u) = n + 1
      /\ s = [i \in 1 .. n |-> s[i]]
      /\ \A i \in 1 .. p - 1 : u[i] = s[i]
      /\ \A i \in p + 1 .. n + 1 : u[i] = s[i - 1]
  BY DEF Inserts, IsSequence
<1>2. RemoveAt(u, p) = c
  BY <1>1 DEF RemoveAt
<1>. HIDE DEF n
<1>3. \A i \in 1 .. n + 1 : u[i] \in S
  OBVIOUS
<1>. HIDE DEF S
<1>4. a \in Seq(S) /\ Len(a) = p - 1 /\ \A i \in 1 .. p - 1 : a[i] = u[i]
  <2>1. 1 \in Int /\ p - 1 \in Int /\ \A i \in 1 .. p - 1 : u[i] \in S
    BY <1>1, <1>3
  <2>2. /\ a \in Seq(S) /\ Len(a) = IF 1 <= p - 1 THEN (p - 1) - 1 + 1 ELSE 0
        /\ \A i \in 1 .. (p - 1) - 1 + 1 : a[i] = u[1 + i - 1]
    BY <2>1, SubSeqProperties
  <2>. HIDE DEF a
  <2> QED BY <1>1, <2>2
<1>5. b \in Seq(S) /\ Len(b) = n + 1 - p /\ \A i \in 1 .. n + 1 - p : b[i] = u[p + i]
  <2>1. p + 1 \in Int /\ n + 1 \in Int /\ \A i \in p + 1 .. n + 1 : u[i] \in S
    BY <1>1, <1>3
  <2>2. /\ b \in Seq(S) /\ Len(b) = IF p + 1 <= n + 1 THEN (n + 1) - (p + 1) + 1 ELSE 0
        /\ \A i \in 1 .. (n + 1) - (p + 1) + 1 : b[i] = u[(p + 1) + i - 1]
    BY <2>1, SubSeqProperties
  <2>. HIDE DEF b
  <2>3. n \in Nat /\ p \in 1 .. n + 1
    BY <1>1
  <2>4. Len(b) = n + 1 - p
    BY <2>2, <2>3
  <2>5. ASSUME NEW i \in 1 .. n + 1 - p PROVE b[i] = u[p + i]
    <3>1. i \in 1 .. (n + 1) - (p + 1) + 1 /\ (p + 1) + i - 1 = p + i
      BY <2>3
    <3> QED BY <2>2, <3>1
  <2> QED BY <2>2, <2>4, <2>5
<1>. HIDE DEF a, b
<1>6. /\ c \in Seq(S) /\ Len(c) = Len(a) + Len(b)
      /\ \A i \in 1 .. Len(a) + Len(b) : c[i] = IF i <= Len(a) THEN a[i] ELSE b[i - Len(a)]
  BY <1>4, <1>5, ConcatProperties
<1>7. IsSequence(c)
  BY <1>6, OfSequences
<1>. HIDE DEF c
<1>8. Len(c) = n
  BY <1>1, <1>4, <1>5, <1>6
<1>9. ASSUME NEW i \in 1 .. n PROVE c[i] = s[i]
  <2>0. c[i] = IF i <= p - 1 THEN a[i] ELSE b[i - (p - 1)]
    <3>1. n \in Nat /\ p \in 1 .. n + 1 /\ Len(a) = p - 1 /\ Len(b) = n + 1 - p
      BY <1>1, <1>4, <1>5
    <3>2. i \in 1 .. Len(a) + Len(b)
      BY <3>1
    <3>3. c[i] = IF i <= Len(a) THEN a[i] ELSE b[i - Len(a)]
      BY <1>6, <3>2
    <3> QED BY <3>1, <3>3
  <2>1. CASE i <= p - 1
    <3>1. i \in 1 .. p - 1
      BY <1>1, <2>1
    <3> QED BY <1>1, <1>4, <2>0, <2>1, <3>1
  <2>2. CASE ~(i <= p - 1)
    <3>1. /\ i - (p - 1) \in 1 .. n + 1 - p /\ p + (i - (p - 1)) = i + 1
          /\ i + 1 \in p + 1 .. n + 1 /\ (i + 1) - 1 = i
      BY <1>1, <2>2
    <3> QED BY <1>1, <1>5, <2>0, <2>2, <3>1
  <2> QED BY <2>1, <2>2
<1>10. c = [i \in 1 .. n |-> c[i]]
  BY <1>7, <1>8 DEF IsSequence
<1>11. c = s
  BY <1>1, <1>9, <1>10
<1> QED BY <1>2, <1>11

(* Numbering a schedule anew forgets the numbers it had. *)
LEMMA NumberedAnew ==
    ASSUME NEW rows, NEW k, NEW j
    PROVE  Renumbered(Renumbered(rows, k), j) = Renumbered(rows, j)
<1>. DEFINE moved == Renumbered(rows, k)
<1>1. /\ DOMAIN moved = DOMAIN rows
      /\ \A i \in DOMAIN rows :
             moved[i] = [sequence |-> k + i, due |-> rows[i].due,
                         principal |-> rows[i].principal, interest |-> rows[i].interest]
  BY DEF Renumbered
<1>. HIDE DEF moved
<1>2. \A i \in DOMAIN rows : /\ moved[i].due = rows[i].due
                             /\ moved[i].principal = rows[i].principal
                             /\ moved[i].interest = rows[i].interest
  BY <1>1
<1>3. Renumbered(moved, j) = Renumbered(rows, j)
  BY <1>1, <1>2 DEF Renumbered
<1> QED BY <1>3 DEF moved

(* Nothing renumbered is nothing. *)
LEMMA NothingNumbered == ASSUME NEW k PROVE Renumbered(<<>>, k) = <<>>
<1>1. DOMAIN <<>> = {} /\ IsSequence(<<>>)
  BY NoList
<1>2. <<>> = [i \in DOMAIN <<>> |-> <<>>[i]]
  BY <1>1 DEF IsSequence
<1> QED BY <1>1, <1>2 DEF Renumbered

(* Before any payment is due, an extra payment is simulated by rebuilding the *)
(* whole schedule from what is left of the debt.                              *)
LEMMA SimulatedFirst ==
    ASSUME NEW owed, NEW t, NEW months \in Nat, NEW month \in Nat, NEW extra \in Int, extra > 0,
           NEW date \in Int, owed \in Int,
           IsSequence(BuildSchedule(owed, t, months, month)),
           BuildSchedule(owed, t, months, month) # <<>>,
           BuildSchedule(owed, t, months, month)[1].due \in Int,
           date <= BuildSchedule(owed, t, months, month)[1].due
    PROVE  /\ owed - extra <= 0 => ApplyExtraPayment(owed, t, months, month, extra, date) = <<>>
           /\ ~(owed - extra <= 0) /\ IsSequence(BuildSchedule(owed - extra, t, months, month)) =>
                  ApplyExtraPayment(owed, t, months, month, extra, date) =
                      Renumbered(BuildSchedule(owed - extra, t, months, month), 0)
<1>. DEFINE baseline == BuildSchedule(owed, t, months, month)
            made == {n \in 0 .. Len(baseline) : \A i \in 1 .. n : baseline[i].due < date}
            kept == SubSeq(baseline, 1, Max(made))
            left == owed - Repaid(kept) - extra
            rest == BuildSchedule(left, t, months - Len(kept), month + Len(kept))
            x == ApplyExtraPayment(owed, t, months, month, extra, date)
<1>1. x = IF Len(kept) = Len(baseline) \/ extra <= 0 THEN baseline
          ELSE IF left <= 0 THEN kept
          ELSE kept \o Renumbered(rest, Len(kept))
  BY DEF ApplyExtraPayment
<1>2. /\ Len(baseline) \in Nat /\ Len(baseline) # 0
      /\ baseline[1].due \in Int /\ date <= baseline[1].due
  BY NoList DEF IsSequence
<1>. HIDE DEF x, rest, baseline
<1>3. made = {0}
  <2>1. 0 \in made
    BY <1>2
  <2>2. ASSUME NEW n \in made PROVE n = 0
    <3>1. n \in Nat /\ \A i \in 1 .. n : baseline[i].due < date
      BY <1>2
    <3>. SUFFICES ASSUME n # 0 PROVE FALSE
      OBVIOUS
    <3>2. 1 \in 1 .. n
      BY <3>1
    <3>3. baseline[1].due < date
      BY <3>1, <3>2
    <3> QED BY <1>2, <3>3
  <2> QED BY <2>1, <2>2
<1>4. Max(made) = 0
  <2>1. IsFiniteSet({0})
    BY FS_Singleton
  <2>2. {0} \subseteq Int /\ {0} # {}
    OBVIOUS
  <2>3. Max({0}) \in {0}
    BY <2>1, <2>2, GreatestOf
  <2> QED BY <1>3, <2>3
<1>. HIDE DEF made
<1>5. kept = <<>>
  BY <1>4, SubSeqEmpty
<1>. HIDE DEF kept
<1>6. Len(kept) = 0 /\ Repaid(kept) = 0
  BY <1>5, NoList, NothingRepaid
<1>7. left = owed - extra
  BY <1>6
<1>8. months - Len(kept) = months /\ month + Len(kept) = month
  BY <1>6
<1>9. rest = BuildSchedule(owed - extra, t, months, month)
  BY <1>7, <1>8 DEF rest
<1>. HIDE DEF left
<1>10. ~(Len(kept) = Len(baseline) \/ extra <= 0)
  BY <1>2, <1>6
<1>11. ASSUME left <= 0 PROVE x = <<>>
  BY <1>1, <1>5, <1>10, <1>11
<1>12. ASSUME ~(left <= 0), IsSequence(rest) PROVE x = Renumbered(rest, 0)
  <2>. DEFINE moved == Renumbered(rest, 0)
  <2>1. x = <<>> \o moved
    BY <1>1, <1>5, <1>6, <1>10, <1>12
  <2>2. moved \in [1 .. Len(rest) -> {moved[i] : i \in 1 .. Len(rest)}] /\ Len(rest) \in Nat
    BY <1>12 DEF Renumbered, IsSequence
  <2>. HIDE DEF moved
  <2>3. moved \in Seq({moved[i] : i \in 1 .. Len(rest)})
    BY <2>2, SequenceOf
  <2>4. <<>> \o moved = moved
    BY <2>3, ConcatEmptySeq
  <2> QED BY <2>1, <2>4 DEF moved
<1> QED BY <1>7, <1>9, <1>11, <1>12 DEF x
(* A schedule goes on with the months it is counted to take. *)
LEMMA SmallerSchedule ==
    ASSUME NEW owed \in Nat, NEW t, IsTerms(t), Amortizes(owed, t), NEW month, NEW months \in Nat,
           Repaid(BuildSchedule(owed, t, months, month)) = owed,
           NEW less \in Nat, less <= owed, Amortizes(less, t)
    PROVE  LET n == Len(BuildSchedule(owed, t, months, month))
           IN  /\ BuildSchedule(owed, t, n, month) = BuildSchedule(owed, t, months, month)
               /\ BuildSchedule(less, t, n, month) = BuildSchedule(less, t, months, month)
<1>. DEFINE plan == BuildSchedule(owed, t, months, month)
            n == Len(plan)
<1>1. Scheduled(plan, months, owed, t, month)
  BY ScheduleGrows
<1>2. n \in Nat /\ n <= months
  BY <1>1 DEF Scheduled, IsSequence
<1>3. BuildSchedule(owed, t, n, month) = plan
  BY ScheduleLength
<1>4. Repaid(BuildSchedule(owed, t, n, month)) = owed
  BY <1>3
<1>. HIDE DEF n, plan
<1>5. Repaid(BuildSchedule(less, t, n, month)) = less
  BY <1>2, <1>4, LessIsRepaid
<1>6. BuildSchedule(less, t, months, month) = BuildSchedule(less, t, n, month)
  BY <1>2, <1>5, ScheduleSettles
<1> QED BY <1>3, <1>6 DEF n, plan

(* An extra payment leaves the schedule it is simulated to leave. *)
LEMMA ExtraAsSimulated ==
    ASSUME LoanInv, PlanInv, NEW k \in Keys, NEW extra \in Int, extra > 0, NEW date \in EventDates,
           NEW waited \in BOOLEAN, AddExtraPayment(k, extra, date, waited)
    PROVE  \E i \in DOMAIN settled' :
               /\ settled = RemoveAt(settled', i)
               /\ Renumbered(pending', 0) =
                      Simulated(settled'[i].paidPrincipal, settled'[i].paidAt)
<1>. DEFINE e == Event(0, date, extra, 0, extra, date, loan.account)
            u == Recorded(e, waited)
            p == Place(waited) + 1
            n == Len(settled)
            t == loan.terms
            j == LastNumber(settled)
            m == MonthOf[pending[1].due]
            owed == Remaining
            plan == BuildSchedule(owed, t, Periods, m)
            left == Owed(t, u)
            rows == BuildSchedule(left, t, Periods, m)
<1>1. /\ Exists /\ loan.status # "paid_off" /\ (pending # <<>> => date <= pending[1].due)
      /\ extra <= owed /\ loan.account \in Payable /\ Served(waited) /\ settled' = u
      /\ Regenerate(u, NextDue(pending), None)
  BY DEF AddExtraPayment
<1>2. /\ e.sequence = 0 /\ e.paidPrincipal = extra /\ e.paidInterest = 0
      /\ e.paidTotal = extra /\ e.account = loan.account /\ e.paidAt = date
  BY DEF Event
<1>. HIDE DEF e
<1>3. IsEvent(e)
  BY <1>1, <1>2 DEF IsEvent
<1>4. /\ IsSequence(settled) /\ AreEvents(settled) /\ n \in Nat
      /\ late \in 0 .. n \cup {None}
  BY DEF LoanInv, Typed, IsSequence
<1>5. p \in 1 .. n + 1
  BY <1>1, <1>4 DEF Place, Served
<1>6. Inserts(u, settled, p) /\ u[p] = e
  <2>1. Inserts(InsertAt(settled, p, e), settled, p) /\ InsertAt(settled, p, e)[p] = e
    BY <1>4, <1>5, InsertsOne
  <2> QED BY <2>1 DEF Recorded
<1>7. AreEvents(u) /\ RemoveAt(u, p) = settled
  BY <1>3, <1>4, <1>6, EventsOf, RemovedAgain
<1>8. p \in DOMAIN u
  BY <1>5, <1>6 DEF Inserts, IsSequence
<1>. HIDE DEF u, p, n
<1>9. /\ t \in Terms /\ IsTerms(t) /\ Periods \in Nat /\ owed \in Int /\ owed > 0
      /\ j \in Nat /\ j <= MaxEvents /\ IsPlan(pending, t, owed, j) /\ pending # <<>>
  BY <1>1, LeftToPay, PendingPlan, LoanBounds
<1>10. left = owed - extra
  <2>1. u[p].paidPrincipal = extra /\ Owed(t, u) = Owed(t, settled) - u[p].paidPrincipal
    BY <1>2, <1>6, <1>7, <1>9, OwedInserted
  <2> QED BY <2>1 DEF Remaining
<1>11. /\ NextDue(pending) = pending[1].due /\ pending[1].due \in Dates
       /\ pending[1].due \in Int /\ pending[1].due # None /\ date \in Int
  BY <1>1, <1>9, FirstPending, DatesAreGiven, LoanBounds
<1>12. FirstMonth(t, u, NextDue(pending), None) = m
  BY <1>11, StartsWith
<1>13. /\ left > 0 => Closes(rows, left)
       /\ pending' = IF left > 0 THEN Renumbered(rows, LastNumber(u)) ELSE <<>>
  BY <1>1, <1>12 DEF Regenerate
<1>14. /\ m \in Nat /\ Amortizes(owed, t) /\ Closes(plan, owed) /\ pending = Renumbered(plan, j)
       /\ IsSequence(pending)
  <2>. HIDE DEF plan, m, j, t
  <2>1. PICK o \in Months :
            /\ Amortizes(owed, t) /\ Closes(BuildSchedule(owed, t, Periods, o), owed)
            /\ pending = Renumbered(BuildSchedule(owed, t, Periods, o), j)
            /\ IsSequence(pending) /\ Len(pending) \in 1 .. Periods
            /\ \A i \in 1 .. Len(pending) : MonthOf[pending[i].due] = o + i - 1
    BY <1>9, PlanIs
  <2>2. o \in Nat /\ 1 \in 1 .. Len(pending) /\ o + 1 - 1 = o
    BY <2>1, MonthsAre
  <2>3. m = o
    BY <2>1, <2>2 DEF m
  <2> QED BY <2>1, <2>2, <2>3 DEF plan
<1>. HIDE DEF m
<1>15. /\ owed \in Nat /\ plan # <<>> /\ Repaid(plan) = owed
  BY <1>9, <1>14 DEF Closes
<1>16. IsSequence(plan) /\ \A i \in 1 .. Len(plan) : IsPayment(plan[i], i, t, m)
  BY <1>9, <1>15, ScheduleRows
<1>17. BuildSchedule(owed, t, Len(plan), m) = plan
  BY <1>9, <1>14, <1>15, ScheduleLength
<1>18. Len(pending) = Len(plan) /\ pending[1].due = plan[1].due /\ Len(plan) \in Nat
  <2>. HIDE DEF plan, j
  <2>1. \A i \in 1 .. Len(plan) : IsRow(plan[i])
    BY <1>16, PaymentIs
  <2>2. /\ Len(pending) = Len(plan)
        /\ \A i \in 1 .. Len(plan) :
               pending[i] = [sequence |-> j + i, due |-> plan[i].due,
                             principal |-> plan[i].principal, interest |-> plan[i].interest]
    BY <1>9, <1>14, <1>16, <2>1, RenumberedRows
  <2>3. Len(plan) \in Nat /\ 1 \in 1 .. Len(plan)
    BY <1>15, <1>16, NoList DEF IsSequence
  <2>. DEFINE d == plan[1].due
              q == plan[1].principal
              h == plan[1].interest
  <2>4. pending[1] = [sequence |-> j + 1, due |-> d, principal |-> q, interest |-> h]
    BY <2>2, <2>3
  <2>. HIDE DEF d, q, h
  <2>5. pending[1].due = d
    BY <2>4
  <2> QED BY <2>2, <2>3, <2>5 DEF d
<1>. DEFINE months == Len(plan)
            x == ApplyExtraPayment(owed, t, months, m, extra, date)
<1>19. Simulated(extra, date) = x
  BY <1>18 DEF Simulated, m
<1>20. /\ months \in Nat /\ IsSequence(BuildSchedule(owed, t, months, m))
       /\ BuildSchedule(owed, t, months, m) # <<>>
       /\ BuildSchedule(owed, t, months, m)[1].due \in Int
       /\ date <= BuildSchedule(owed, t, months, m)[1].due
  BY <1>1, <1>9, <1>11, <1>15, <1>16, <1>17, <1>18
<1>. HIDE DEF plan, rows, x, left, t
<1>21. Renumbered(pending', 0) = x
  <2>1. CASE left > 0
    <3>1. /\ left \in Nat /\ left <= owed /\ ~(owed - extra <= 0) /\ left = owed - extra
          /\ Repaid(rows) = left /\ rows # <<>>
      BY <1>9, <1>10, <1>13, <2>1 DEF Closes
    <3>2. Amortizes(left, t) /\ IsSequence(rows)
      BY <1>9, <3>1, ScheduleRows DEF rows
    <3>3. BuildSchedule(left, t, months, m) = rows
      BY <1>9, <1>14, <1>15, <3>1, <3>2, SmallerSchedule DEF plan, rows
    <3>4. BuildSchedule(owed - extra, t, months, m) = rows
      BY <3>1, <3>3
    <3>. HIDE DEF months
    <3>5. IsSequence(BuildSchedule(owed - extra, t, months, m))
      BY <3>2, <3>4
    <3>6. ApplyExtraPayment(owed, t, months, m, extra, date) =
              Renumbered(BuildSchedule(owed - extra, t, months, m), 0)
      BY <1>9, <1>11, <1>14, <1>20, <3>1, <3>5, SimulatedFirst
    <3>7. x = Renumbered(rows, 0)
      BY <3>4, <3>6 DEF x
    <3> QED BY <1>13, <2>1, <3>7, NumberedAnew
  <2>2. CASE ~(left > 0)
    <3>1. owed - extra <= 0
      BY <1>9, <1>10, <2>2
    <3>. HIDE DEF months
    <3>2. x = <<>>
      BY <1>9, <1>11, <1>14, <1>20, <3>1, SimulatedFirst DEF x
    <3> QED BY <1>13, <2>2, <3>2, NothingNumbered
  <2> QED BY <2>1, <2>2
<1>22. settled'[p] = e /\ settled = RemoveAt(settled', p) /\ p \in DOMAIN settled'
  BY <1>1, <1>6, <1>7, <1>8
<1> QED BY <1>2, <1>19, <1>21, <1>22

(* Only an extra payment leaves a receipt. *)
LEMMA OnlyExtrasReceipt ==
    ASSUME LoanInv, Next, receipts' # receipts
    PROVE  \E k \in Keys, n \in Int, date \in EventDates, waited \in BOOLEAN :
               n > 0 /\ AddExtraPayment(k, n, date, waited)
<1>1. ~(\E a \in Accounts : (\E t \in Terms : Create(t, a)) \/ Update(a))
  BY DEF Create, Update
<1>2. ~Delete /\ ~Undo /\ ~Wait /\ ~GiveUp
  BY DEF Delete, Undo, Wait, GiveUp
<1>3. Settling
  BY <1>1, <1>2 DEF Next
<1>4. PICK date \in EventDates :
          \/ \E in \in Overrides : Pay(in, date)
          \/ \E waited \in BOOLEAN :
                 \/ \E k \in Keys : \/ \E n \in Extras : AddExtraPayment(k, n, date, waited)
                                    \/ /\ Exists
                                       /\ AddExtraPayment(k, Remaining, date, waited)
                 \/ \E actual \in Reported : Reconcile(actual, date, waited)
  BY <1>3 DEF Settling
<1>5. ~(\E in \in Overrides : Pay(in, date))
  BY DEF Pay
<1>6. ~(\E waited \in BOOLEAN : \E actual \in Reported : Reconcile(actual, date, waited))
  BY DEF Reconcile
<1>7. PICK waited \in BOOLEAN, k \in Keys :
          \/ \E n \in Extras : AddExtraPayment(k, n, date, waited)
          \/ Exists /\ AddExtraPayment(k, Remaining, date, waited)
  BY <1>4, <1>5, <1>6
<1>8. \A n \in Extras : n \in Int /\ n > 0
  BY LoansConstants
<1>9. Exists /\ AddExtraPayment(k, Remaining, date, waited) => Remaining \in Int /\ Remaining > 0
  BY LeftToPay DEF AddExtraPayment
<1> QED BY <1>7, <1>8, <1>9

(* What the calculator announces of an extra payment is what the payment then *)
(* does (httpapi/loans.go and AddExtraPayment of store/loans.go): simulated   *)
(* on the payments still pending, as many as these are, or rebuilt from what  *)
(* is left of the debt, it is the same schedule, for all terms and amounts.   *)
THEOREM ExtrasDoAsSimulated == Spec => ExtrasAsSimulated
<1>1. LoanInv /\ PlanInv /\ [Next]_vars =>
          [receipts' # receipts =>
               \E i \in DOMAIN settled' :
                   /\ settled = RemoveAt(settled', i)
                   /\ Renumbered(pending', 0) =
                          Simulated(settled'[i].paidPrincipal, settled'[i].paidAt)]_vars
  <2>. SUFFICES ASSUME LoanInv, PlanInv, Next, receipts' # receipts
                PROVE  \E i \in DOMAIN settled' :
                           /\ settled = RemoveAt(settled', i)
                           /\ Renumbered(pending', 0) =
                                  Simulated(settled'[i].paidPrincipal, settled'[i].paidAt)
    BY Zenon
  <2>1. PICK k \in Keys, n \in Int, date \in EventDates, waited \in BOOLEAN :
            n > 0 /\ AddExtraPayment(k, n, date, waited)
    BY OnlyExtrasReceipt
  <2> QED BY <2>1, ExtraAsSimulated
<1> QED BY <1>1, LoansInvariant, PlansKept, PTL DEF Spec, ExtrasAsSimulated

(* Together: every step does what was announced of it. *)
THEOREM StepsDoAsAnnounced == Spec => StepsAsAnnounced
  BY UndoesTakeBack, UndoesRestore, ExtrasDoAsSimulated, PTL DEF StepsAsAnnounced
=============================================================================
