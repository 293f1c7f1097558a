-------------------------- MODULE RuntimeCycleProofs --------------------------
(***************************************************************************)
(* Proofs about the scheduler and the run loop, for any number of workers   *)
(* and metrics, any schedule and any time: what due_ticks and next_due_at   *)
(* return, types, the exact schedule, the sleep that ends in time and the   *)
(* windows that a cycle may pass over.                                      *)
(***************************************************************************)
EXTENDS RuntimeCycle, FiniteSetTheorems, FunctionTheorems, WellFoundedInduction, TLAPS

-------------------------------------------------------------------------------
(* Division *)

LEMMA Quotient ==
  ASSUME NEW x \in Int, NEW n \in Nat \ {0}
  PROVE  /\ x \div n \in Int
         /\ x % n \in 0 .. n - 1
         /\ x = n * (x \div n) + (x % n)
  BY Z3

LEMMA TimesMonotone ==
  ASSUME NEW a \in Int, NEW b \in Int, NEW n \in Nat \ {0}, a <= b
  PROVE  n * a <= n * b
  BY Z3

\* A multiple is below x exactly if its factor is at most the quotient.
LEMMA MultipleBelow ==
  ASSUME NEW x \in Int, NEW n \in Nat \ {0}, NEW j \in Int
  PROVE  n * j <= x <=> j <= x \div n
<1> DEFINE q == x \div n
<1>1. q \in Int /\ x % n \in 0 .. n - 1 /\ x = n * q + (x % n)
  BY Quotient
<1> HIDE DEF q
<1>2. ASSUME j <= q PROVE n * j <= x
  <2>1. n * j <= n * q
    BY <1>1, <1>2, TimesMonotone
  <2>2. n * j \in Int /\ n * q \in Int
    BY <1>1
  <2>. QED
    BY <1>1, <2>1, <2>2
<1>3. ASSUME j >= q + 1 PROVE ~ (n * j <= x)
  <2>1. n * (q + 1) <= n * j
    BY <1>1, <1>3, TimesMonotone
  <2>2. n * (q + 1) = n * q + n /\ n * q \in Int /\ n * j \in Int
    BY <1>1
  <2>. QED
    BY <1>1, <2>1, <2>2
<1>4. j <= q \/ j >= q + 1
  BY <1>1
<1>. QED
  BY <1>2, <1>3, <1>4 DEF q

LEMMA ExactQuotient ==
  ASSUME NEW n \in Nat \ {0}, NEW k \in Int
  PROVE  (n * k) \div n = k /\ (n * k) % n = 0
<1> DEFINE x == n * k
           q == x \div n
<1>1. x \in Int /\ n * (k + 1) = x + n
  OBVIOUS
<1>2. q \in Int /\ x % n \in 0 .. n - 1 /\ x = n * q + (x % n)
  BY <1>1, Quotient
<1>3. k <= q
  <2>1. n * k <= x
    BY <1>1
  <2>. QED
    BY <1>1, <2>1, MultipleBelow
<1>4. ~ (k + 1 <= q)
  <2>1. ~ (n * (k + 1) <= x)
    BY <1>1
  <2>. QED
    BY <1>1, <2>1, MultipleBelow
<1>5. q = k
  BY <1>2, <1>3, <1>4
<1>. QED
  BY <1>1, <1>2, <1>5

-------------------------------------------------------------------------------
(* due_ticks, in units of the interval *)

\* The quotient of the latest moment at which a closed window may end.
Ends(date, n) == (date - Lag) \div n

\* The first tick to consider, as a multiple of the interval.
First(cursor, date, n) ==
    IF cursor = None THEN Ends(date, n) - MaxCatchup ELSE cursor \div n + 1

LEMMA Units ==
  ASSUME NEW cursor \in Int \cup {None}, NEW date \in Int, NEW n \in Nat \ {0}
  PROVE  /\ Ends(date, n) \in Int
         /\ First(cursor, date, n) \in Int
         /\ LatestDueTick(date, n) = n * (Ends(date, n) - 1)
         /\ FirstTick(cursor, date, n) = n * First(cursor, date, n)
<1> DEFINE a == Ends(date, n)
<1>1. a \in Int
  BY Quotient, ScheduleAssumption DEF Ends
<1>2. LatestDueTick(date, n) = a * n - n
  BY DEF LatestDueTick, AlignTick, Ends
<1>3. LatestDueTick(date, n) = n * (a - 1)
  <2> HIDE DEF a
  <2>. QED
    BY <1>1, <1>2
<1>4. CASE cursor = None
  <2>1. First(cursor, date, n) = a - MaxCatchup
    BY <1>4 DEF First
  <2>2. FirstTick(cursor, date, n) = n * (a - 1) - (MaxCatchup - 1) * n
    BY <1>3, <1>4 DEF FirstTick
  <2> HIDE DEF a
  <2>3. n * (a - 1) - (MaxCatchup - 1) * n = n * (a - MaxCatchup)
    BY <1>1, ScheduleAssumption
  <2>. QED
    BY <1>1, <1>3, <2>1, <2>2, <2>3, ScheduleAssumption DEF a
<1>5. CASE cursor # None
  <2> DEFINE c == cursor \div n
  <2>1. c \in Int
    BY <1>5, Quotient
  <2>2. First(cursor, date, n) = c + 1
    BY <1>5 DEF First
  <2>3. FirstTick(cursor, date, n) = c * n + n
    BY <1>5 DEF FirstTick, AlignTick
  <2> HIDE DEF c
  <2>4. c * n + n = n * (c + 1)
    BY <2>1
  <2>. QED
    BY <1>1, <1>3, <2>1, <2>2, <2>3, <2>4
<1>. QED
  BY <1>4, <1>5

LEMMA Counts ==
  ASSUME NEW cursor \in Int \cup {None}, NEW date \in Int, NEW n \in Nat \ {0}
  PROVE  LET a == Ends(date, n)
             b == First(cursor, date, n) IN
         TickCount(cursor, date, n) = IF b > a - 1 THEN 0 ELSE a - b
<1> DEFINE a == Ends(date, n)
           b == First(cursor, date, n)
           first == FirstTick(cursor, date, n)
           latest == LatestDueTick(date, n)
<1>1. a \in Int /\ b \in Int /\ latest = n * (a - 1) /\ first = n * b
  BY Units
<1>2. TickCount(cursor, date, n) =
        IF first > latest THEN 0 ELSE (latest - first) \div n + 1
  BY DEF TickCount
<1> HIDE DEF a, b, first, latest
<1>3. latest - first = n * (a - 1 - b)
  BY <1>1
<1>4. (latest - first) \div n = a - 1 - b
  BY <1>1, <1>3, ExactQuotient
<1>5. first > latest <=> b > a - 1
  <2>1. first \in Int /\ latest \in Int
    BY <1>1
  <2>2. first <= latest <=> b <= latest \div n
    BY <1>1, <2>1, MultipleBelow
  <2>3. latest \div n = a - 1
    BY <1>1, ExactQuotient
  <2>. QED
    BY <1>1, <2>1, <2>2, <2>3
<1>6. TickCount(cursor, date, n) = IF b > a - 1 THEN 0 ELSE a - b
  BY <1>1, <1>2, <1>4, <1>5
<1>. QED
  BY <1>6 DEF a, b

-------------------------------------------------------------------------------
(* due_ticks returns the windows that are due *)

\* The multiples of the interval that due_ticks returns.
InRange(j, cursor, date, n) ==
    /\ First(cursor, date, n) <= j
    /\ Ends(date, n) - MaxCatchup <= j
    /\ j <= Ends(date, n) - 1

LEMMA TicksInRange ==
  ASSUME NEW cursor \in Int \cup {None}, NEW date \in Int, NEW n \in Nat \ {0}
  PROVE  DueTicks(cursor, date, n) =
           {n * j : j \in {k \in Int : InRange(k, cursor, date, n)}}
<1> DEFINE a == Ends(date, n)
           b == First(cursor, date, n)
           count == TickCount(cursor, date, n)
           skip == SkippedCount(cursor, date, n)
           good(j) == b <= j /\ a - MaxCatchup <= j /\ j <= a - 1
<1>1. a \in Int /\ b \in Int
  BY Units
<1>2. count = IF b > a - 1 THEN 0 ELSE a - b
  BY Counts
<1>3. skip = IF count > MaxCatchup THEN count - MaxCatchup ELSE 0
  BY DEF SkippedCount
<1>4. DueTicks(cursor, date, n) = {n * b + i * n : i \in skip .. count - 1}
  BY Units DEF DueTicks
<1>5. \A j : InRange(j, cursor, date, n) <=> good(j)
  BY DEF InRange
<1> HIDE DEF a, b, count, skip
<1>6. count \in Int /\ skip \in Int
  BY <1>1, <1>2, <1>3, ScheduleAssumption
<1>7. \A i \in Int : i \in skip .. count - 1 <=> good(b + i)
  BY <1>1, <1>2, <1>3, <1>6, ScheduleAssumption
<1>8. \A i \in Int : n * b + i * n = n * (b + i)
  BY <1>1
<1>9. ASSUME NEW i \in skip .. count - 1
      PROVE  b + i \in Int /\ good(b + i) /\ n * b + i * n = n * (b + i)
  <2>1. i \in Int
    BY <1>6
  <2>2. b + i \in Int
    BY <1>1, <2>1
  <2>3. good(b + i)
    BY <1>7, <1>9, <2>1
  <2>4. n * b + i * n = n * (b + i)
    BY <1>8, <2>1
  <2>. QED
    BY <2>2, <2>3, <2>4
<1>10. ASSUME NEW j \in Int, good(j)
       PROVE  j - b \in skip .. count - 1 /\ n * j = n * b + (j - b) * n
  <2>1. j - b \in Int /\ b + (j - b) = j
    BY <1>1
  <2>2. j - b \in skip .. count - 1
    BY <1>7, <1>10, <2>1
  <2>3. n * b + (j - b) * n = n * (b + (j - b))
    BY <1>8, <2>1
  <2>. QED
    BY <2>1, <2>2, <2>3
<1>11. {n * b + i * n : i \in skip .. count - 1} = {n * j : j \in {k \in Int : good(k)}}
  BY <1>9, <1>10
<1>. QED
  BY <1>4, <1>5, <1>11

LEMMA ClosedInUnits ==
  ASSUME NEW date \in Int, NEW n \in Nat \ {0}, NEW j \in Int
  PROVE  Closed(n * j, date, n) <=> j <= Ends(date, n) - 1
<1> DEFINE a == Ends(date, n)
           t == n * j
           end == date - Lag
<1>1. a \in Int /\ t \in Int /\ end \in Int /\ end \div n = a
  BY Units, ScheduleAssumption DEF Ends
<1>2. n * (j + 1) = t + n /\ t % n = 0
  BY ExactQuotient
<1>3. n * (j + 1) <= end <=> j + 1 <= a
  BY <1>1, MultipleBelow
<1>4. Closed(t, date, n) <=> t + n + Lag <= date
  BY <1>2 DEF Closed
<1>5. Closed(t, date, n) <=> j + 1 <= a
  BY <1>1, <1>2, <1>3, <1>4, ScheduleAssumption
<1> HIDE DEF a
<1>6. j + 1 <= a <=> j <= a - 1
  BY <1>1
<1>. QED
  BY <1>5, <1>6 DEF a

LEMMA WithinInUnits ==
  ASSUME NEW date \in Int, NEW n \in Nat \ {0}, NEW j \in Int
  PROVE  WithinCatchup(n * j, date, n) <=> Ends(date, n) - MaxCatchup <= j
<1> DEFINE a == Ends(date, n)
           t == n * j
           end == date - Lag
<1>1. a \in Int /\ t \in Int /\ end \in Int /\ end \div n = a
  BY Units, ScheduleAssumption DEF Ends
<1>2. n * (j + 1 + MaxCatchup) = t + n + MaxCatchup * n /\ MaxCatchup * n \in Int
  BY ScheduleAssumption
<1>3. n * (j + 1 + MaxCatchup) <= end <=> j + 1 + MaxCatchup <= a
  BY <1>1, MultipleBelow, ScheduleAssumption
<1>4. WithinCatchup(t, date, n) <=> ~ (j + 1 + MaxCatchup <= a)
  BY <1>1, <1>2, <1>3, ScheduleAssumption DEF WithinCatchup
<1> HIDE DEF a
<1>5. ~ (j + 1 + MaxCatchup <= a) <=> a - MaxCatchup <= j
  BY <1>1, ScheduleAssumption
<1>. QED
  BY <1>4, <1>5 DEF a

LEMMA AfterInUnits ==
  ASSUME NEW cursor \in Int, cursor # None, NEW date \in Int, NEW n \in Nat \ {0},
         NEW j \in Int
  PROVE  First(cursor, date, n) <= j <=> n * j > cursor
<1>1. cursor \div n \in Int
  BY Quotient
<1>2. n * j <= cursor <=> j <= cursor \div n
  BY MultipleBelow
<1>3. First(cursor, date, n) = cursor \div n + 1
  BY DEF First
<1>. QED
  BY <1>1, <1>2, <1>3

LEMMA DueInUnits ==
  ASSUME NEW cursor \in Int \cup {None}, NEW date \in Int, NEW n \in Nat \ {0},
         NEW j \in Int
  PROVE  IsDue(n * j, cursor, date, n) <=> InRange(j, cursor, date, n)
<1> DEFINE a == Ends(date, n)
           t == n * j
<1>1. Closed(t, date, n) <=> j <= a - 1
  BY ClosedInUnits
<1>2. WithinCatchup(t, date, n) <=> a - MaxCatchup <= j
  BY WithinInUnits
<1>3. First(cursor, date, n) <= j <=>
        IF cursor = None THEN a - MaxCatchup <= j ELSE t > cursor
  BY AfterInUnits DEF First
<1> HIDE DEF t
<1>4. IsDue(t, cursor, date, n) <=> InRange(j, cursor, date, n)
  BY <1>1, <1>2, <1>3 DEF IsDue, InRange
<1>. QED
  BY <1>4 DEF t

\* scheduling.py: due_ticks returns exactly the closed windows after the
\* cursor, aligned or not, as many of the latest as max_catchup_windows.
THEOREM DueTicksAreDue ==
  ASSUME NEW cursor \in Int \cup {None}, NEW date \in Int, NEW n \in Nat \ {0}
  PROVE  DueTicks(cursor, date, n) = {t \in Int : IsDue(t, cursor, date, n)}
<1>1. DueTicks(cursor, date, n) =
        {n * j : j \in {k \in Int : InRange(k, cursor, date, n)}}
  BY TicksInRange
<1>2. ASSUME NEW t \in Int, IsDue(t, cursor, date, n)
      PROVE  \E j \in Int : t = n * j /\ InRange(j, cursor, date, n)
  <2> DEFINE q == t \div n
  <2>1. t % n = 0
    BY <1>2 DEF IsDue, Closed
  <2>2. q \in Int /\ t = n * q + (t % n)
    BY Quotient
  <2> HIDE DEF q
  <2>3. t = n * q
    BY <2>1, <2>2
  <2>4. InRange(q, cursor, date, n)
    BY <1>2, <2>2, <2>3, DueInUnits
  <2>. QED
    BY <2>2, <2>3, <2>4
<1>3. ASSUME NEW j \in Int, InRange(j, cursor, date, n)
      PROVE  n * j \in Int /\ IsDue(n * j, cursor, date, n)
  BY <1>3, DueInUnits
<1>. QED
  BY <1>1, <1>2, <1>3

\* What the cap leaves out, in units of the interval.
LEMMA SkippedInUnits ==
  ASSUME NEW cursor \in Int \cup {None}, NEW date \in Int, NEW n \in Nat \ {0}
  PROVE  SkippedTicks(cursor, date, n) =
           {n * j : j \in {k \in Int : /\ First(cursor, date, n) <= k
                                      /\ k < Ends(date, n) - MaxCatchup}}
<1> DEFINE a == Ends(date, n)
           b == First(cursor, date, n)
           count == TickCount(cursor, date, n)
           skip == SkippedCount(cursor, date, n)
<1>1. a \in Int /\ b \in Int
  BY Units
<1>2. count = IF b > a - 1 THEN 0 ELSE a - b
  BY Counts
<1>3. skip = IF count > MaxCatchup THEN count - MaxCatchup ELSE 0
  BY DEF SkippedCount
<1>4. SkippedTicks(cursor, date, n) = {n * b + i * n : i \in 0 .. skip - 1}
  BY Units DEF SkippedTicks
<1> HIDE DEF a, b, count, skip
<1>5. \A i \in Int : i \in 0 .. skip - 1 <=> b <= b + i /\ b + i < a - MaxCatchup
  BY <1>1, <1>2, <1>3, ScheduleAssumption
<1>6. \A i \in Int : n * b + i * n = n * (b + i)
  BY <1>1
<1>7. ASSUME NEW i \in 0 .. skip - 1
      PROVE  /\ b + i \in Int /\ b <= b + i /\ b + i < a - MaxCatchup
             /\ n * b + i * n = n * (b + i)
  <2>1. i \in Int
    OBVIOUS
  <2>. QED
    BY <1>1, <1>5, <1>6, <1>7, <2>1
<1>8. ASSUME NEW j \in Int, b <= j, j < a - MaxCatchup
      PROVE  j - b \in 0 .. skip - 1 /\ n * j = n * b + (j - b) * n
  <2>1. j - b \in Int /\ b + (j - b) = j
    BY <1>1
  <2>2. j - b \in 0 .. skip - 1
    BY <1>5, <1>8, <2>1
  <2>. QED
    BY <1>6, <2>1, <2>2
<1>9. {n * b + i * n : i \in 0 .. skip - 1} =
        {n * j : j \in {k \in Int : b <= k /\ k < a - MaxCatchup}}
  BY <1>7, <1>8
<1>. QED
  BY <1>4, <1>9 DEF a, b

\* scheduling.py: skipped_first and skipped_last span exactly the closed windows
\* after the cursor that are older than the catch-up range, so that none of them
\* is dropped without being reported.
THEOREM SkippedTicksAreTooOld ==
  ASSUME NEW cursor \in Int \cup {None}, NEW date \in Int, NEW n \in Nat \ {0}
  PROVE  SkippedTicks(cursor, date, n) = {t \in Int : IsTooOld(t, cursor, date, n)}
<1> DEFINE a == Ends(date, n)
           b == First(cursor, date, n)
<1>1. a \in Int /\ b \in Int
  BY Units
<1>2. ASSUME NEW j \in Int
      PROVE  IsTooOld(n * j, cursor, date, n) <=> b <= j /\ j < a - MaxCatchup
  <2> DEFINE t == n * j
  <2>1. CASE cursor = None
    <3>1. b = a - MaxCatchup
      BY <2>1 DEF First
    <3>. QED
      BY <1>1, <2>1, <3>1, ScheduleAssumption DEF IsTooOld
  <2>2. CASE cursor # None
    <3>1. Closed(t, date, n) <=> j <= a - 1
      BY ClosedInUnits
    <3>2. WithinCatchup(t, date, n) <=> a - MaxCatchup <= j
      BY WithinInUnits
    <3>3. b <= j <=> t > cursor
      BY <2>2, AfterInUnits
    <3>4. j < a - MaxCatchup => j <= a - 1
      BY <1>1, ScheduleAssumption
    <3>5. ~ (a - MaxCatchup <= j) <=> j < a - MaxCatchup
      BY <1>1, ScheduleAssumption
    <3>. QED
      BY <2>2, <3>1, <3>2, <3>3, <3>4, <3>5 DEF IsTooOld
  <2>. QED
    BY <2>1, <2>2
<1>3. ASSUME NEW t \in Int, IsTooOld(t, cursor, date, n)
      PROVE  \E j \in Int : t = n * j
  <2> DEFINE q == t \div n
  <2>1. t % n = 0
    BY <1>3 DEF IsTooOld, Closed
  <2>2. q \in Int /\ t = n * q + (t % n)
    BY Quotient
  <2> HIDE DEF q
  <2>3. n * q \in Int
    BY <2>2
  <2>4. t = n * q
    BY <2>1, <2>2, <2>3
  <2>. QED
    BY <2>2, <2>4
<1>4. \A j \in Int : n * j \in Int
  OBVIOUS
<1> HIDE DEF a, b
<1>5. {t \in Int : IsTooOld(t, cursor, date, n)} =
        {n * j : j \in {k \in Int : b <= k /\ k < a - MaxCatchup}}
  BY <1>2, <1>3, <1>4
<1>. QED
  BY <1>5, SkippedInUnits DEF a, b

\* scheduling.py: due_ticks never returns more than max_catchup_windows.
THEOREM CatchupIsCapped ==
  ASSUME NEW cursor \in Int \cup {None}, NEW date \in Int, NEW n \in Nat \ {0}
  PROVE  /\ IsFiniteSet(DueTicks(cursor, date, n))
         /\ Cardinality(DueTicks(cursor, date, n)) <= MaxCatchup
<1> DEFINE a == Ends(date, n)
           J == {k \in Int : InRange(k, cursor, date, n)}
           R == a - MaxCatchup .. a - 1
           f == [j \in J |-> n * j]
           D == DueTicks(cursor, date, n)
<1>1. a \in Int
  BY Units
<1>2. D = {n * j : j \in J}
  BY TicksInRange
<1>3. J \subseteq R
  BY <1>1, ScheduleAssumption DEF InRange
<1>4. IsFiniteSet(R) /\ Cardinality(R) = MaxCatchup
  <2> HIDE DEF a
  <2>1. a - MaxCatchup \in Int /\ a - 1 \in Int /\ MaxCatchup \in Nat \ {0}
    BY <1>1, ScheduleAssumption
  <2>2. IsFiniteSet(R) /\ Cardinality(R) =
          IF a - MaxCatchup > a - 1 THEN 0 ELSE a - 1 - (a - MaxCatchup) + 1
    BY <2>1, FS_Interval
  <2>. QED
    BY <1>1, <2>1, <2>2
<1>5. IsFiniteSet(J) /\ Cardinality(J) <= MaxCatchup /\ Cardinality(J) \in Nat
  <2> HIDE DEF J, R
  <2>. QED
    BY <1>3, <1>4, FS_Subset, FS_CardinalityType
<1>6. f \in Surjection(J, D)
  <2>1. f \in [J -> D] /\ \A d \in D : \E j \in J : f[j] = d
    BY <1>2
  <2> HIDE DEF f, J, D
  <2>. QED
    BY <2>1, Fun_IsSurj
<1>7. IsFiniteSet(D) /\ Cardinality(D) <= Cardinality(J)
  <2> HIDE DEF f, J, D
  <2>. QED
    BY <1>5, <1>6, FS_Surjection
<1> HIDE DEF J, D
<1>8. Cardinality(D) \in Nat
  BY <1>7, FS_CardinalityType
<1>9. Cardinality(D) <= MaxCatchup
  BY <1>5, <1>7, <1>8, ScheduleAssumption
<1>. QED
  BY <1>7, <1>9 DEF D

\* The next tick becomes due in the future.
LEMMA NextDueLater ==
  ASSUME NEW date \in Int, NEW n \in Nat \ {0}
  PROVE  NextDueAt(date, n) \in Int /\ NextDueAt(date, n) > date
<1> DEFINE a == Ends(date, n)
           end == date - Lag
<1>1. a \in Int /\ LatestDueTick(date, n) = n * (a - 1)
  BY Units
<1>2. NextDueAt(date, n) = n * (a - 1) + 2 * n + Lag
  BY <1>1 DEF NextDueAt
<1>3. end \in Int /\ a = end \div n
  BY ScheduleAssumption DEF Ends
<1> HIDE DEF a
<1>4. n * (a - 1) + 2 * n = n * (a + 1) /\ n * (a + 1) \in Int
  BY <1>1
<1>5. ~ (n * (a + 1) <= end)
  BY <1>1, <1>3, MultipleBelow
<1>. QED
  BY <1>2, <1>3, <1>4, <1>5, ScheduleAssumption

\* scheduling.py: no window becomes due between date and next_due_at.
THEOREM NextDueIsNext ==
  ASSUME NEW date \in Int, NEW n \in Nat \ {0}, NEW d \in Int,
         date < d, d < NextDueAt(date, n)
  PROVE  (d - Lag) % n # 0
<1> DEFINE a == Ends(date, n)
           x == d - Lag
           q == x \div n
<1>1. a \in Int /\ LatestDueTick(date, n) = n * (a - 1)
  BY ScheduleAssumption, Units
<1>2. x \in Int /\ date - Lag \in Int /\ a = (date - Lag) \div n
  BY ScheduleAssumption DEF Ends
<1>3. NextDueAt(date, n) = n * (a - 1) + 2 * n + Lag
  BY <1>1 DEF NextDueAt
<1> SUFFICES ASSUME x % n = 0 PROVE FALSE
  OBVIOUS
<1>4. q \in Int /\ x = n * q
  <2>1. q \in Int /\ x = n * q + (x % n)
    BY <1>2, Quotient
  <2>2. x % n = 0
    OBVIOUS
  <2> HIDE DEF q, x
  <2>3. n * q \in Int
    BY <2>1
  <2>. QED
    BY <2>1, <2>2, <2>3
<1> HIDE DEF a, q
<1>5. n * (a - 1) + 2 * n = n * (a + 1) /\ n * (a + 1) \in Int
  BY <1>1
<1>6. x < n * (a + 1) /\ date - Lag < x
  BY <1>2, <1>3, <1>5, ScheduleAssumption DEF x
<1> HIDE DEF x
<1>7. ~ (a + 1 <= q)
  <2>1. a + 1 <= q => n * (a + 1) <= n * q
    BY <1>1, <1>4, TimesMonotone
  <2>2. ~ (n * (a + 1) <= n * q)
    BY <1>4, <1>5, <1>6
  <2>. QED
    BY <2>1, <2>2
<1>8. n * (a + 1) > date - Lag
  BY <1>2, <1>5, <1>6
<1>9. ~ (n * q <= date - Lag)
  BY <1>2, <1>4, <1>6
<1>10. ~ (q <= a)
  BY <1>2, <1>4, <1>9, MultipleBelow
<1>. QED
  BY <1>1, <1>4, <1>7, <1>10

-------------------------------------------------------------------------------
(* Numbers *)

\* A set of integers with a lower bound has a least element.
LEMMA Least ==
  ASSUME NEW S \in SUBSET Int, NEW lower \in Int, S # {},
         \A x \in S : lower <= x
  PROVE  \E c \in S : \A d \in S : c <= d
<1> DEFINE T == {x - lower : x \in S}
           R == OpToRel(<, Nat)
<1>1. T \subseteq Nat /\ T # {}
  <2>1. \A x \in S : x - lower \in Nat
    OBVIOUS
  <2>. QED
    BY <2>1
<1>2. IsWellFoundedOn(R, Nat)
  BY NatLessThanWellFounded
<1>3. \A x, y \in Nat : x < y => <<x, y>> \in R
  BY DEF OpToRel
<1> HIDE DEF R
<1>4. PICK t \in T : \A u \in T : ~ (<<u, t>> \in R)
  <2> HIDE DEF T
  <2>. QED
    BY <1>1, <1>2, WFMin
<1>5. PICK c \in S : t = c - lower
  OBVIOUS
<1>6. ASSUME NEW d \in S PROVE c <= d
  <2>0. d \in Int /\ c \in Int
    OBVIOUS
  <2>1. d - lower \in T
    OBVIOUS
  <2>2. ~ (d - lower < c - lower)
    BY <1>1, <1>3, <1>4, <1>5, <2>1
  <2>. QED
    BY <2>0, <2>2
<1>. QED
  BY <1>6

\* A power of two is the number of subsets of a finite set.
LEMMA TwoPower == ASSUME NEW n \in Nat PROVE 2 ^ n \in Nat
<1>1. IsFiniteSet(1 .. n) /\ Cardinality(1 .. n) = n
  BY FS_Interval
<1>2. IsFiniteSet(SUBSET (1 .. n)) /\ Cardinality(SUBSET (1 .. n)) = 2 ^ n
  BY <1>1, FS_SUBSET
<1>. QED
  BY <1>2, FS_CardinalityType

LEMMA ErrorDelayType ==
  ASSUME NEW count \in Nat
  PROVE  ErrorDelay(count + 1) \in Nat
<1> DEFINE power == 2 ^ count
<1>1. power \in Nat
  BY TwoPower
<1>2. (count + 1) - 1 = count
  OBVIOUS
<1>3. MinWait * power \in Nat
  <2> HIDE DEF power
  <2>1. \A a, b \in Nat : a * b \in Nat
    OBVIOUS
  <2>. QED
    BY <1>1, <2>1, CycleAssumption
<1>. QED
  BY <1>2, <1>3 DEF ErrorDelay

\* compute_wait is min_wait, or ends by the next window of every metric.
LEMMA WaitType ==
  ASSUME TypeOK, NEW p \in Workers,
         NEW outboxDue \in {None} \cup now .. now + IdleInterval
  PROVE  LET wait == ComputeWait(p, outboxDue) IN
         /\ wait \in Nat
         /\ \/ wait = MinWait
            \/ \A m \in Metrics :
                  now + wait <= NextDueAt(cycleNow[p], Interval[m])
<1> DEFINE next(m) == NextDueAt(cycleNow[p], Interval[m])
           candidates == {now + IdleInterval} \cup {next(m) : m \in Metrics}
                            \cup ({outboxDue} \ {None})
           soonest == CHOOSE c \in candidates : \A d \in candidates : c <= d
<1>1. /\ now \in Nat /\ cycleNow[p] \in Nat
      /\ IdleInterval \in Nat /\ MinWait \in Nat
  BY CycleAssumption DEF TypeOK
<1>2. \A m \in Metrics : next(m) \in Int /\ next(m) > cycleNow[p]
  BY <1>1, CycleAssumption, NextDueLater
<1>3. ComputeWait(p, outboxDue) =
        Larger(MinWait, Smaller(soonest - now, IdleInterval))
  BY DEF ComputeWait
<1>4. candidates \in SUBSET Int /\ candidates # {}
  BY <1>1, <1>2
<1>5. \A c \in candidates : 0 <= c
  BY <1>1, <1>2
<1>6. \A m \in Metrics : next(m) \in candidates
  OBVIOUS
<1> HIDE DEF candidates
<1>7. \E c \in candidates : \A d \in candidates : c <= d
  BY <1>4, <1>5, Least
<1>8. soonest \in candidates /\ \A d \in candidates : soonest <= d
  BY <1>7
<1>9. soonest \in Int /\ \A m \in Metrics : soonest <= next(m)
  BY <1>4, <1>6, <1>8
<1> HIDE DEF soonest, next
<1>10. DEFINE wait == Larger(MinWait, Smaller(soonest - now, IdleInterval))
<1>11. wait \in Nat /\ (wait = MinWait \/ now + wait <= soonest)
  BY <1>1, <1>9 DEF Larger, Smaller
<1> HIDE DEF wait
<1>12. wait = MinWait \/ \A m \in Metrics : now + wait <= next(m)
  BY <1>1, <1>2, <1>9, <1>11
<1>. QED
  BY <1>3, <1>11, <1>12 DEF next, wait

-------------------------------------------------------------------------------
(* Types and the window in process *)

\* The worker that processes has a next window.
HasJob == \A p \in Workers :
             pc[p] = "process" => \E w \in Windows : IsNext(p, w)

LEMMA JobFacts ==
  ASSUME TypeOK, HasJob, NEW p \in Workers, pc[p] = "process"
  PROVE  IsNext(p, Job(p)) /\ Job(p) \in Windows /\ Job(p) \in Remaining(p)
<1>1. PICK w \in Windows : IsNext(p, w)
  BY DEF HasJob
<1>2. w \in Remaining(p) /\ IsNext(p, w)
  BY <1>1 DEF IsNext
<1>3. Job(p) \in Remaining(p) /\ IsNext(p, Job(p))
  BY <1>2 DEF Job
<1>4. Remaining(p) \subseteq Windows
  BY DEF Remaining, TypeOK
<1>. QED
  BY <1>3, <1>4

\* Windows that are due are windows.
LEMMA DueWindowsType ==
  ASSUME TypeOK, \A m \in Metrics : Cursor(m) \in Int \cup {None}
  PROVE  /\ DueWindows \in SUBSET Windows
         /\ \A m \in Metrics : \A t \in Int :
               <<m, t>> \in DueWindows
                 <=> IsDue(t, Cursor(m), now, Interval[m])
<1>1. \A m \in Metrics :
        DueTicks(Cursor(m), now, Interval[m])
          = {t \in Int : IsDue(t, Cursor(m), now, Interval[m])}
  <2> TAKE m \in Metrics
  <2>1. now \in Int /\ Interval[m] \in Nat \ {0}
    BY CycleAssumption DEF TypeOK
  <2>. QED
    BY <2>1, DueTicksAreDue
<1>. QED
  BY <1>1 DEF DueWindows, Windows

\* Some window of a metric is the latest that is committed.
HasCursor == \A m \in Metrics :
                Committed(m) # {} =>
                   \E w \in Committed(m) : \A v \in Committed(m) : v[2] <= w[2]

LEMMA CursorFacts ==
  ASSUME TypeOK, HasCursor, NEW m \in Metrics
  PROVE  /\ Cursor(m) \in Int \cup {None}
         /\ Cursor(m) = None <=> Committed(m) = {}
         /\ \A v \in Committed(m) : v[2] <= Cursor(m)
         /\ Committed(m) # {} => \E v \in Committed(m) : Cursor(m) = v[2]
<1>1. \A v \in Committed(m) : v \in committed /\ v[1] = m /\ v[2] \in Int
  BY DEF Committed, TypeOK, Windows
<1>2. CASE Committed(m) = {}
  BY <1>2 DEF Cursor
<1>3. CASE Committed(m) # {}
  <2> DEFINE last == CHOOSE w \in Committed(m) :
                        \A v \in Committed(m) : v[2] <= w[2]
  <2>1. \E w \in Committed(m) : \A v \in Committed(m) : v[2] <= w[2]
    BY <1>3 DEF HasCursor
  <2>2. last \in Committed(m) /\ \A v \in Committed(m) : v[2] <= last[2]
    BY <2>1
  <2>3. Cursor(m) = last[2]
    BY <1>3 DEF Cursor
  <2> HIDE DEF last
  <2>4. Cursor(m) \in Int
    BY <1>1, <2>2, <2>3
  <2>. QED
    BY <1>3, <2>2, <2>3, <2>4, ScheduleAssumption
<1>. QED
  BY <1>2, <1>3


StoreTypes ==
    /\ now \in 0 .. MaxTime
    /\ committed \subseteq Windows
    /\ claims \subseteq Windows \X Workers
    /\ expired \subseteq {c[1] : c \in claims}
    /\ failed \subseteq Windows \ committed

CycleTypes ==
    /\ cycleNow \in [Workers -> Nat]
    /\ queue \in [Workers -> SUBSET Windows]
    /\ blocked \in [Workers -> SUBSET Metrics]
    /\ skipped \in [Workers -> SUBSET Windows]

RestTypes ==
    /\ pc \in [Workers -> {"sleep", "cycle", "process", "down", "died"}]
    /\ failures \in [Workers -> Nat]
    /\ wakeAt \in [Workers -> Nat]
    /\ fellAsleep \in [Workers -> Nat]

LEMMA TypeParts == TypeOK <=> StoreTypes /\ CycleTypes /\ RestTypes
  BY DEF TypeOK, StoreTypes, CycleTypes, RestTypes

LEMMA TypePartsNext == StoreTypes' /\ CycleTypes' /\ RestTypes' => TypeOK'
  BY DEF TypeOK, StoreTypes, CycleTypes, RestTypes

LEMMA ReleaseTypes ==
  ASSUME StoreTypes, NEW p \in Workers, NEW w \in Windows, Release(p, w)
  PROVE  /\ claims' \subseteq Windows \X Workers
         /\ expired' \subseteq {c[1] : c \in claims'}
<1>1. claims' = claims \ {<<w, p>>} /\ claims \subseteq Windows \X Workers
  BY DEF Release, StoreTypes
<1>2. ASSUME NEW v \in expired' PROVE \E c \in claims' : v = c[1]
  <2>1. v \in expired
    BY <1>2 DEF Release
  <2>2. PICK c \in claims : v = c[1]
    BY <2>1 DEF StoreTypes
  <2>3. c # <<w, p>>
    <3>1. CASE <<w, p>> \in claims
      BY <1>2, <2>2, <3>1 DEF Release
    <3>2. CASE <<w, p>> \notin claims
      BY <2>2, <3>2
    <3>. QED
      BY <3>1, <3>2
  <2>. QED
    BY <1>1, <2>2, <2>3
<1>. QED
  BY <1>1, <1>2

LEMMA SleepTypes ==
  ASSUME StoreTypes, RestTypes, NEW p \in Workers, NEW wait \in Nat,
         Sleep(p, wait)
  PROVE  /\ pc' \in [Workers -> {"sleep", "cycle", "process", "down", "died"}]
         /\ wakeAt' \in [Workers -> Nat]
         /\ fellAsleep' \in [Workers -> Nat]
<1>1. now \in Nat /\ now + wait \in Nat
  BY DEF StoreTypes
<1>. QED
  BY <1>1 DEF Sleep, RestTypes

LEMMA ForgetTypes ==
  ASSUME CycleTypes, NEW p \in Workers, Forget(p)
  PROVE  /\ queue' \in [Workers -> SUBSET Windows]
         /\ blocked' \in [Workers -> SUBSET Metrics]
         /\ skipped' \in [Workers -> SUBSET Windows]
  BY DEF CycleTypes, Forget

LEMMA VanishTypes ==
  ASSUME CycleTypes, RestTypes, NEW p \in Workers, NEW how \in {"down", "died"},
         Vanish(p, how), Forget(p)
  PROVE  CycleTypes' /\ RestTypes'
  BY ForgetTypes DEF CycleTypes, RestTypes, Vanish

\* The claim row is released, or stays.
LEMMA ReleaseOrKeep ==
  ASSUME StoreTypes, NEW p \in Workers, NEW w \in Windows,
         Release(p, w) \/ UNCHANGED <<claims, expired>>
  PROVE  /\ claims' \subseteq Windows \X Workers
         /\ expired' \subseteq {c[1] : c \in claims'}
  BY ReleaseTypes DEF StoreTypes

LEMMA TakeClaimTypes ==
  ASSUME StoreTypes, NEW p \in Workers, NEW w \in Windows, TakeClaim(p, w)
  PROVE  /\ claims' \subseteq Windows \X Workers
         /\ expired' \subseteq {c[1] : c \in claims'}
<1>1. /\ claims' = {c \in claims : c[1] # w} \cup {<<w, p>>}
      /\ expired' = expired \ {w}
  BY DEF TakeClaim
<1>2. claims' \subseteq Windows \X Workers
  BY <1>1 DEF StoreTypes
<1>3. expired' \subseteq {c[1] : c \in claims'}
  BY <1>1 DEF StoreTypes
<1>. QED
  BY <1>2, <1>3

\* process() of one window: claim, commit, skip, fail.
LEMMA WindowTypes ==
  ASSUME TypeOK, HasJob, NEW p \in Workers,
         \/ \E w \in queue[p] : \/ PassWindow(p, w)
                               \/ ClaimWindow(p, w)
                               \/ ClaimRaises(p, w)
         \/ Commit(p) \/ SkipWindow(p) \/ ConflictsRunOut(p)
         \/ FailWindow(p)
  PROVE  TypeOK'
<1> DEFINE w == Job(p)
<1>0. StoreTypes /\ CycleTypes /\ RestTypes
  BY TypeParts
<1>1. ASSUME NEW v \in queue[p], PassWindow(p, v) PROVE TypeOK'
  <2>1. v \in Windows
    BY <1>0 DEF CycleTypes
  <2>2. StoreTypes'
    BY <1>0, <1>1 DEF PassWindow, StoreTypes, store
  <2>3. RestTypes'
    BY <1>0, <1>1 DEF PassWindow, RestTypes, Done, resting
  <2>4. CycleTypes'
    BY <1>0, <1>1, <2>1 DEF PassWindow, CycleTypes, Done
  <2>. QED
    BY <2>2, <2>3, <2>4, TypePartsNext
<1>2. ASSUME NEW v \in queue[p], ClaimWindow(p, v) PROVE TypeOK'
  <2>1. v \in Windows
    BY <1>0 DEF CycleTypes
  <2>2. TakeClaim(p, v) /\ UNCHANGED <<now, committed, failed>>
    BY <1>2 DEF ClaimWindow
  <2>3. StoreTypes'
    BY <1>0, <2>1, <2>2, TakeClaimTypes DEF StoreTypes
  <2>4. RestTypes' /\ CycleTypes'
    BY <1>0, <1>2 DEF ClaimWindow, RestTypes, CycleTypes, cycle, resting
  <2>. QED
    BY <2>3, <2>4, TypePartsNext
<1>3. ASSUME NEW v \in queue[p], ClaimRaises(p, v) PROVE TypeOK'
  <2>1. v \in Windows /\ v[1] \in Metrics
    BY <1>0 DEF CycleTypes, Windows
  <2>2. /\ TakeClaim(p, v) \/ UNCHANGED <<claims, expired>>
        /\ Done(p, v) /\ Defer(p, v)
        /\ UNCHANGED <<now, committed, cycleNow, skipped, resting, failed>>
    BY <1>3 DEF ClaimRaises
  <2>3. StoreTypes'
    BY <1>0, <2>1, <2>2, TakeClaimTypes DEF StoreTypes
  <2>4. RestTypes'
    BY <1>0, <2>2 DEF RestTypes, Done, resting
  <2>5. CycleTypes'
    BY <1>0, <2>1, <2>2 DEF CycleTypes, Done, Defer
  <2>. QED
    BY <2>3, <2>4, <2>5, TypePartsNext
<1>4. CASE Commit(p)
  <2>1. pc[p] = "process" /\ w \in Windows /\ w[1] \in Metrics
    BY <1>4, JobFacts DEF Commit, Windows
  <2>2. /\ committed' = committed \cup {w}
        /\ failed' = {v \in failed : v[1] # w[1] \/ v[2] > w[2]}
        /\ Release(p, w) \/ UNCHANGED <<claims, expired>>
        /\ Done(p, w)
        /\ UNCHANGED blocked \/ Defer(p, w)
        /\ UNCHANGED <<now, cycleNow, skipped, resting>>
    BY <1>4 DEF Commit
  <2>3. w[2] \in Int
    BY <2>1 DEF Windows
  <2> HIDE DEF w
  <2>4. failed' \subseteq Windows \ committed'
    BY <1>0, <2>2, <2>3 DEF StoreTypes
  <2>5. StoreTypes'
    BY <1>0, <2>1, <2>2, <2>4, ReleaseOrKeep DEF StoreTypes
  <2>6. RestTypes'
    BY <1>0, <2>2 DEF RestTypes, Done, resting
  <2>7. CycleTypes'
    BY <1>0, <2>1, <2>2 DEF CycleTypes, Done, Defer
  <2>. QED
    BY <2>5, <2>6, <2>7, TypePartsNext
<1>5. CASE SkipWindow(p) \/ ConflictsRunOut(p)
  <2>1. pc[p] = "process" /\ w \in Windows
    BY <1>5, JobFacts DEF SkipWindow, ConflictsRunOut
  <2>2. /\ Release(p, w) /\ Done(p, w)
        /\ skipped' = [skipped EXCEPT ![p] = @ \cup {w}]
        /\ UNCHANGED <<now, committed, cycleNow, blocked, resting, failed>>
    BY <1>5 DEF SkipWindow, ConflictsRunOut, Skip
  <2> HIDE DEF w
  <2>3. StoreTypes'
    BY <1>0, <2>1, <2>2, ReleaseTypes DEF StoreTypes
  <2>4. RestTypes'
    BY <1>0, <2>2 DEF RestTypes, Done, resting
  <2>5. CycleTypes'
    BY <1>0, <2>1, <2>2 DEF CycleTypes, Done
  <2>. QED
    BY <2>3, <2>4, <2>5, TypePartsNext
<1>6. CASE FailWindow(p)
  <2>1. pc[p] = "process" /\ w \in Windows /\ w[1] \in Metrics
    BY <1>6, JobFacts DEF FailWindow, Windows
  <2>2. /\ Release(p, w) \/ UNCHANGED <<claims, expired>>
        /\ Done(p, w) /\ Defer(p, w)
        /\ failed' = IF Stale(w) THEN failed ELSE failed \cup {w}
        /\ UNCHANGED <<now, committed, cycleNow, skipped, resting>>
    BY <1>6 DEF FailWindow
  <2>7. w \in committed => Stale(w)
    BY <2>1 DEF Stale, Windows
  <2> HIDE DEF w
  <2>3. StoreTypes'
    BY <1>0, <2>1, <2>2, <2>7, ReleaseOrKeep DEF StoreTypes
  <2>4. RestTypes'
    BY <1>0, <2>2 DEF RestTypes, Done, resting
  <2>5. CycleTypes'
    BY <1>0, <2>1, <2>2 DEF CycleTypes, Done, Defer
  <2>. QED
    BY <2>3, <2>4, <2>5, TypePartsNext
<1>. QED
  BY <1>1, <1>2, <1>3, <1>4, <1>5, <1>6

LEMMA NextTypes ==
  ASSUME TypeOK, HasCursor, HasJob, Next
  PROVE  TypeOK'
<1>0. StoreTypes /\ CycleTypes /\ RestTypes
  BY TypeParts
<1>1. ASSUME NEW p \in Workers, BeginCycle(p) PROVE TypeOK'
  <2>1. DueWindows \in SUBSET Windows
    BY CursorFacts, DueWindowsType
  <2>2. now \in Nat
    BY <1>0 DEF StoreTypes
  <2>3. StoreTypes'
    BY <1>0, <1>1 DEF BeginCycle, StoreTypes, store
  <2>4. RestTypes'
    BY <1>0, <1>1 DEF BeginCycle, RestTypes
  <2>5. CycleTypes'
    BY <1>0, <1>1, <2>1, <2>2 DEF BeginCycle, CycleTypes
  <2>. QED
    BY <2>3, <2>4, <2>5, TypePartsNext
<1>2. ASSUME NEW p \in Workers,
             \/ \E w \in queue[p] : \/ PassWindow(p, w)
                                   \/ ClaimWindow(p, w)
                                   \/ ClaimRaises(p, w)
             \/ Commit(p) \/ SkipWindow(p) \/ ConflictsRunOut(p)
             \/ FailWindow(p)
      PROVE  TypeOK'
  BY <1>2, WindowTypes
<1>3. ASSUME NEW p \in Workers,
             NEW outboxDue \in {None} \cup now .. now + IdleInterval,
             EndCycle(p, outboxDue)
      PROVE  TypeOK'
  <2>1. ComputeWait(p, outboxDue) \in Nat
    BY WaitType
  <2>2. /\ Sleep(p, ComputeWait(p, outboxDue)) /\ Forget(p)
        /\ failures' = [failures EXCEPT ![p] = 0]
        /\ UNCHANGED <<now, store, cycleNow, failed>>
    BY <1>3 DEF EndCycle
  <2>3. StoreTypes'
    BY <1>0, <2>2 DEF StoreTypes, store
  <2>4. RestTypes'
    BY <1>0, <2>1, <2>2, SleepTypes DEF RestTypes
  <2>5. CycleTypes'
    BY <1>0, <2>2, ForgetTypes DEF CycleTypes
  <2>. QED
    BY <2>3, <2>4, <2>5, TypePartsNext
<1>4. ASSUME NEW p \in Workers, CycleFails(p) PROVE TypeOK'
  <2> DEFINE wait == Smaller(ErrorDelay(failures[p] + 1), IdleInterval)
  <2>1. failures[p] \in Nat /\ failures[p] + 1 \in Nat
    BY <1>0 DEF RestTypes
  <2>2. wait \in Nat
    BY <2>1, ErrorDelayType, CycleAssumption DEF Smaller
  <2>3. /\ Sleep(p, wait) /\ Forget(p)
        /\ failures' = [failures EXCEPT ![p] = @ + 1]
        /\ UNCHANGED <<now, store, cycleNow, failed>>
    BY <1>4 DEF CycleFails
  <2> HIDE DEF wait
  <2>4. StoreTypes'
    BY <1>0, <2>3 DEF StoreTypes, store
  <2>5. RestTypes'
    BY <1>0, <2>1, <2>2, <2>3, SleepTypes DEF RestTypes
  <2>6. CycleTypes'
    BY <1>0, <2>3, ForgetTypes DEF CycleTypes
  <2>. QED
    BY <2>4, <2>5, <2>6, TypePartsNext
<1>5. ASSUME NEW p \in Workers, LoopEnds(p) \/ Crash(p) PROVE TypeOK'
  <2>1. /\ Vanish(p, "died") \/ Vanish(p, "down")
        /\ Forget(p)
        /\ UNCHANGED <<now, store, failed>>
    BY <1>5 DEF LoopEnds, Crash
  <2>2. StoreTypes'
    BY <1>0, <2>1 DEF StoreTypes, store
  <2>3. CycleTypes' /\ RestTypes'
    BY <1>0, <2>1, VanishTypes
  <2>. QED
    BY <2>2, <2>3, TypePartsNext
<1>6. ASSUME NEW p \in Workers, Start(p) PROVE TypeOK'
  <2>1. Sleep(p, 0) /\ UNCHANGED <<now, store, cycle, failures, failed>>
    BY <1>6 DEF Start
  <2>2. StoreTypes' /\ CycleTypes'
    BY <1>0, <2>1 DEF StoreTypes, CycleTypes, store, cycle
  <2>3. RestTypes'
    BY <1>0, <2>1, SleepTypes DEF RestTypes
  <2>. QED
    BY <2>2, <2>3, TypePartsNext
<1>7. ASSUME NEW c \in claims, ExpireClaim(c[1]) PROVE TypeOK'
  <2>1. /\ expired' = expired \cup {c[1]}
        /\ UNCHANGED <<now, committed, claims, pc, cycle, resting, failed>>
    BY <1>7 DEF ExpireClaim
  <2>2. StoreTypes'
    BY <1>0, <2>1 DEF StoreTypes
  <2>3. CycleTypes' /\ RestTypes'
    BY <1>0, <2>1 DEF CycleTypes, RestTypes, cycle, resting
  <2>. QED
    BY <2>2, <2>3, TypePartsNext
<1>8. CASE AdvanceClock
  <2>1. now' = now + 1 /\ UNCHANGED <<store, pc, cycle, resting, failed>>
    BY <1>8 DEF AdvanceClock
  <2>2. StoreTypes'
    <3>1. now' \in 0 .. MaxTime
      BY <1>0, <1>8, CycleAssumption DEF AdvanceClock, StoreTypes
    <3>. QED
      BY <1>0, <2>1, <3>1 DEF StoreTypes, store
  <2>3. CycleTypes' /\ RestTypes'
    BY <1>0, <2>1 DEF CycleTypes, RestTypes, cycle, resting
  <2>. QED
    BY <2>2, <2>3, TypePartsNext
<1>. QED
  BY <1>1, <1>2, <1>3, <1>4, <1>5, <1>6, <1>7, <1>8 DEF Next, RunOnce

-------------------------------------------------------------------------------
(* Steps of a worker, and of the others *)

Step(p) == RunOnce(p) \/ CycleFails(p) \/ LoopEnds(p) \/ Crash(p) \/ Start(p)

\* What another worker and the clock leave alone.
SameCycle(p) ==
    /\ pc'[p] = pc[p]
    /\ cycleNow'[p] = cycleNow[p]
    /\ queue'[p] = queue[p]
    /\ blocked'[p] = blocked[p]
    /\ skipped'[p] = skipped[p]
    /\ failures'[p] = failures[p]
    /\ wakeAt'[p] = wakeAt[p]
    /\ fellAsleep'[p] = fellAsleep[p]

LEMMA OtherSteps ==
  ASSUME TypeOK, [Next]_vars, NEW p \in Workers, ~ Step(p)
  PROVE  SameCycle(p)
<1>0. CycleTypes /\ RestTypes
  BY TypeParts
<1> USE DEF SameCycle, CycleTypes, RestTypes, resting, cycle
<1>1. ASSUME NEW q \in Workers, q # p, RunOnce(q) PROVE SameCycle(p)
  <2>1. CASE BeginCycle(q)
    BY <1>0, <1>1, <2>1 DEF BeginCycle
  <2>2. ASSUME NEW w \in queue[q], PassWindow(q, w) PROVE SameCycle(p)
    BY <1>0, <1>1, <2>2 DEF PassWindow, Done
  <2>3. ASSUME NEW w \in queue[q], ClaimWindow(q, w) PROVE SameCycle(p)
    BY <1>0, <1>1, <2>3 DEF ClaimWindow
  <2>4. ASSUME NEW w \in queue[q], ClaimRaises(q, w) PROVE SameCycle(p)
    BY <1>0, <1>1, <2>4 DEF ClaimRaises, Done, Defer
  <2>5. CASE Commit(q)
    BY <1>0, <1>1, <2>5 DEF Commit, Done, Defer
  <2>6. CASE SkipWindow(q) \/ ConflictsRunOut(q)
    BY <1>0, <1>1, <2>6 DEF SkipWindow, ConflictsRunOut, Skip, Done
  <2>7. CASE FailWindow(q)
    BY <1>0, <1>1, <2>7 DEF FailWindow, Done, Defer
  <2>8. ASSUME NEW outboxDue, EndCycle(q, outboxDue) PROVE SameCycle(p)
    BY <1>0, <1>1, <2>8 DEF EndCycle, Sleep, Forget
  <2>. QED
    BY <1>1, <2>1, <2>2, <2>3, <2>4, <2>5, <2>6, <2>7, <2>8 DEF RunOnce
<1>2. ASSUME NEW q \in Workers, q # p, CycleFails(q) PROVE SameCycle(p)
  BY <1>0, <1>2 DEF CycleFails, Sleep, Forget
<1>3. ASSUME NEW q \in Workers, q # p, LoopEnds(q) \/ Crash(q)
      PROVE  SameCycle(p)
  BY <1>0, <1>3 DEF LoopEnds, Crash, Vanish, Forget
<1>4. ASSUME NEW q \in Workers, q # p, Start(q) PROVE SameCycle(p)
  BY <1>0, <1>4 DEF Start, Sleep
<1>5. ASSUME NEW w, ExpireClaim(w) PROVE SameCycle(p)
  BY <1>5 DEF ExpireClaim
<1>6. CASE AdvanceClock
  BY <1>6 DEF AdvanceClock
<1>7. CASE UNCHANGED vars
  BY <1>7 DEF vars
<1>. QED
  BY <1>1, <1>2, <1>3, <1>4, <1>5, <1>6, <1>7 DEF Next, Step

LEMMA OnlyCommit ==
  ASSUME [Next]_vars, committed' # committed
  PROVE  \E p \in Workers : Commit(p)
  BY DEF Next, vars, store, RunOnce, BeginCycle, PassWindow, ClaimWindow,
         ClaimRaises, SkipWindow, ConflictsRunOut, Skip, FailWindow, EndCycle,
         CycleFails, LoopEnds, Crash, Start, ExpireClaim, AdvanceClock

\* A window is processed only after it was claimed.
LEMMA NextJob ==
  ASSUME TypeOK, HasJob, [Next]_vars
  PROVE  HasJob'
<1> SUFFICES ASSUME NEW p \in Workers, pc'[p] = "process"
             PROVE  \E w \in Windows : IsNext(p, w)'
  BY DEF HasJob
<1>0. CycleTypes /\ RestTypes
  BY TypeParts
<1>1. CASE SameCycle(p)
  <2>1. PICK w \in Windows : IsNext(p, w)
    BY <1>1 DEF SameCycle, HasJob
  <2>2. IsNext(p, w)'
    BY <1>1, <2>1 DEF SameCycle, IsNext, Remaining
  <2>. QED
    BY <2>2
<1>2. CASE Step(p)
  <2>1. ASSUME ~ \E w \in queue[p] : ClaimWindow(p, w) PROVE pc'[p] # "process"
    BY <1>0, <1>2, <2>1
    DEF Step, RunOnce, RestTypes, BeginCycle, PassWindow, ClaimRaises, Commit,
        SkipWindow, ConflictsRunOut, Skip, FailWindow, EndCycle, CycleFails, LoopEnds,
        Crash, Start, Done, Sleep, Vanish
  <2>2. PICK w \in queue[p] : ClaimWindow(p, w)
    BY <2>1
  <2>3. w \in Windows
    BY <1>0 DEF CycleTypes
  <2>4. IsNext(p, w)'
    BY <2>2 DEF ClaimWindow, IsNext, Remaining, cycle
  <2>. QED
    BY <2>3, <2>4
<1>. QED
  BY <1>1, <1>2, OtherSteps

\* What is committed last is the latest of its metric.
LEMMA NextCursor ==
  ASSUME TypeOK, HasCursor, HasJob, [Next]_vars
  PROVE  HasCursor'
<1>1. CASE committed' = committed
  BY <1>1 DEF HasCursor, Committed
<1>2. CASE committed' # committed
  <2>1. PICK p \in Workers : Commit(p)
    BY <1>2, OnlyCommit
  <2> DEFINE w == Job(p)
  <2>2. w \in Windows
    BY <2>1, JobFacts DEF Commit
  <2>3. committed' = committed \cup {w} /\ ~ Stale(w)
    BY <2>1 DEF Commit
  <2> HIDE DEF w
  <2>4. /\ \A v \in committed : v[1] \in Metrics /\ v[2] \in Int
        /\ w[1] \in Metrics /\ w[2] \in Int
    BY <2>2 DEF TypeOK, Windows
  <2>5. \A v \in committed : v[1] = w[1] => v[2] < w[2]
    BY <2>3, <2>4 DEF Stale
  <2> SUFFICES ASSUME NEW m \in Metrics, Committed(m)' # {}
               PROVE  \E x \in Committed(m)' : \A v \in Committed(m)' : v[2] <= x[2]
    BY DEF HasCursor
  <2>6. CASE m = w[1]
    BY <2>3, <2>4, <2>5, <2>6 DEF Committed
  <2>7. CASE m # w[1]
    <3>1. Committed(m)' = Committed(m)
      BY <2>3, <2>7 DEF Committed
    <3>. QED
      BY <3>1 DEF HasCursor
  <2>. QED
    BY <2>6, <2>7
<1>. QED
  BY <1>1, <1>2

\* The facts about cursors as one state predicate, for the next state too.
CursorIsLast ==
    TypeOK /\ HasCursor =>
       \A m \in Metrics : /\ Cursor(m) \in Int \cup {None}
                          /\ Cursor(m) = None <=> Committed(m) = {}
                          /\ \A v \in Committed(m) : v[2] <= Cursor(m)

LEMMA CursorLast == CursorIsLast
  BY CursorFacts DEF CursorIsLast

\* A cursor only moves forward, and no other window becomes due by that.
LEMMA CursorGrows ==
  ASSUME TypeOK, HasCursor, TypeOK', HasCursor', committed \subseteq committed',
         NEW m \in Metrics, NEW t \in Int, NEW c \in Nat
  PROVE  IsDue(t, Cursor(m)', c, Interval[m]) => IsDue(t, Cursor(m), c, Interval[m])
<1>1. CASE Cursor(m) = None
  BY <1>1 DEF IsDue
<1>2. CASE Cursor(m) # None
  <2>1. PICK v \in Committed(m) : Cursor(m) = v[2]
    BY <1>2, CursorFacts
  <2>2. v \in Committed(m)'
    BY DEF Committed
  <2>3. v[2] <= Cursor(m)' /\ Cursor(m)' # None /\ Cursor(m)' \in Int
    <3>1. CursorIsLast'
      BY CursorLast, PTL
    <3>. QED
      BY <2>2, <3>1, ScheduleAssumption DEF CursorIsLast
  <2>4. Cursor(m) \in Int
    BY <1>2, CursorFacts
  <2>. QED
    BY <2>1, <2>3, <2>4 DEF IsDue
<1>. QED
  BY <1>1, <1>2

-------------------------------------------------------------------------------
(* A cycle accounts for every window that was due when it began *)

Accounted(p) ==
    pc[p] \in {"cycle", "process"} =>
       \A m \in Metrics : \A t \in Int :
          IsDue(t, Cursor(m), cycleNow[p], Interval[m]) =>
             \/ <<m, t>> \in queue[p] \cup skipped[p]
             \/ m \in blocked[p]

NothingLost == \A p \in Workers : Accounted(p)

\* A committed window is not due any more.
LEMMA CommittedNotDue ==
  ASSUME TypeOK, HasCursor, NEW w \in committed, NEW c \in Nat
  PROVE  ~ IsDue(w[2], Cursor(w[1]), c, Interval[w[1]])
<1>1. w \in Windows /\ w[1] \in Metrics /\ w[2] \in Int
  BY DEF TypeOK, Windows
<1>2. w \in Committed(w[1])
  BY DEF Committed
<1>3. /\ Cursor(w[1]) \in Int \cup {None} /\ Cursor(w[1]) # None
      /\ w[2] <= Cursor(w[1])
  BY <1>1, <1>2, CursorFacts
<1>. QED
  BY <1>1, <1>3 DEF IsDue

CommittedIsDone ==
    TypeOK /\ HasCursor =>
       \A w \in committed : \A c \in Nat :
          ~ IsDue(w[2], Cursor(w[1]), c, Interval[w[1]])

LEMMA CommittedDone == CommittedIsDone
  BY CommittedNotDue DEF CommittedIsDone

\* The worker takes w off its queue: w is skipped, committed or blocks m.
LEMMA TakenOff ==
  ASSUME TypeOK, HasCursor, TypeOK', HasCursor', committed \subseteq committed',
         NEW p \in Workers, NEW w \in Windows, Accounted(p),
         pc[p] \in {"cycle", "process"},
         cycleNow' = cycleNow,
         queue' = [queue EXCEPT ![p] = @ \ {w}],
         skipped[p] \subseteq skipped'[p],
         blocked[p] \subseteq blocked'[p],
         w \in committed' \/ w \in skipped'[p] \/ w[1] \in blocked'[p]
  PROVE  Accounted(p)'
<1> SUFFICES ASSUME NEW m \in Metrics, NEW t \in Int,
                    IsDue(t, Cursor(m)', cycleNow[p], Interval[m])
             PROVE  \/ <<m, t>> \in queue'[p] \cup skipped'[p]
                    \/ m \in blocked'[p]
  BY DEF Accounted
<1>1. cycleNow[p] \in Nat /\ queue'[p] = queue[p] \ {w}
  BY DEF TypeOK
<1>2. IsDue(t, Cursor(m), cycleNow[p], Interval[m])
  BY <1>1, CursorGrows
<1>3. <<m, t>> \in queue[p] \cup skipped[p] \/ m \in blocked[p]
  BY <1>2 DEF Accounted
<1>4. <<m, t>> = w => w \notin committed'
  <2>1. CommittedIsDone'
    BY CommittedDone, PTL
  <2>. QED
    BY <1>1, <2>1 DEF CommittedIsDone
<1>5. w = <<w[1], w[2]>>
  BY DEF Windows
<1>6. CASE <<m, t>> = w
  BY <1>4, <1>6
<1>7. CASE <<m, t>> # w
  BY <1>1, <1>3, <1>7
<1>. QED
  BY <1>6, <1>7

\* The worker leaves its queue alone.
LEMMA LeftAlone ==
  ASSUME TypeOK, HasCursor, TypeOK', HasCursor', committed \subseteq committed',
         NEW p \in Workers, Accounted(p),
         pc[p] \in {"cycle", "process"},
         cycleNow'[p] = cycleNow[p], queue'[p] = queue[p],
         skipped'[p] = skipped[p], blocked'[p] = blocked[p]
  PROVE  Accounted(p)'
<1>1. cycleNow[p] \in Nat
  BY DEF TypeOK
<1>. QED
  BY <1>1, CursorGrows DEF Accounted

LEMMA NextAccounted ==
  ASSUME TypeOK, HasCursor, HasJob, NothingLost, TypeOK', HasCursor',
         [Next]_vars
  PROVE  NothingLost'
<1> SUFFICES ASSUME NEW p \in Workers
             PROVE  Accounted(p)'
  BY DEF NothingLost
<1>0. CycleTypes /\ RestTypes /\ Accounted(p)
  BY TypeParts DEF NothingLost
<1>1. committed \subseteq committed'
  BY OnlyCommit DEF Commit
<1>2. CASE SameCycle(p)
  <2>1. CASE pc[p] \in {"cycle", "process"}
    BY <1>0, <1>1, <1>2, <2>1, LeftAlone DEF SameCycle
  <2>2. CASE pc[p] \notin {"cycle", "process"}
    BY <1>2, <2>2 DEF Accounted, SameCycle
  <2>. QED
    BY <2>1, <2>2
<1>3. CASE BeginCycle(p)
  <2>1. /\ cycleNow'[p] = now /\ queue'[p] = DueWindows
        /\ committed' = committed
    BY <1>0, <1>3 DEF BeginCycle, CycleTypes, store
  <2>2. \A m \in Metrics : Cursor(m)' = Cursor(m)
    BY <2>1 DEF Cursor, Committed
  <2>3. \A m \in Metrics : \A t \in Int :
          <<m, t>> \in DueWindows <=> IsDue(t, Cursor(m), now, Interval[m])
    BY CursorFacts, DueWindowsType
  <2>. QED
    BY <2>1, <2>2, <2>3 DEF Accounted
<1>4. ASSUME NEW w \in queue[p], PassWindow(p, w) PROVE Accounted(p)'
  <2>1. w \in Windows
    BY <1>0 DEF CycleTypes
  <2>2. /\ pc[p] = "cycle" /\ cycleNow' = cycleNow /\ blocked' = blocked
        /\ queue' = [queue EXCEPT ![p] = @ \ {w}]
        /\ committed' = committed
        /\ skipped' = IF w \in committed THEN skipped
                                        ELSE [skipped EXCEPT ![p] = @ \cup {w}]
    BY <1>4 DEF PassWindow, Done, store
  <2>3. /\ skipped[p] \subseteq skipped'[p]
        /\ w \in committed' \/ w \in skipped'[p]
    BY <1>0, <2>2 DEF CycleTypes
  <2>. QED
    BY <1>0, <1>1, <2>1, <2>2, <2>3, TakenOff
<1>5. ASSUME NEW w \in queue[p], ClaimWindow(p, w) PROVE Accounted(p)'
  <2>1. /\ pc[p] = "cycle" /\ cycleNow' = cycleNow /\ queue' = queue
        /\ blocked' = blocked /\ skipped' = skipped
    BY <1>5 DEF ClaimWindow, cycle
  <2>. QED
    BY <1>0, <1>1, <2>1, LeftAlone
<1>6. CASE Commit(p)
  <2> DEFINE w == Job(p)
  <2>1. /\ pc[p] = "process" /\ cycleNow' = cycleNow /\ skipped' = skipped
        /\ queue' = [queue EXCEPT ![p] = @ \ {w}]
        /\ committed' = committed \cup {w}
        /\ \/ blocked' = blocked
           \/ blocked' = [blocked EXCEPT ![p] = @ \cup {w[1]}]
    BY <1>6 DEF Commit, Done, Defer
  <2>2. w \in Windows
    BY <2>1, JobFacts
  <2> HIDE DEF w
  <2>3. blocked[p] \subseteq blocked'[p]
    BY <1>0, <2>1 DEF CycleTypes
  <2>. QED
    BY <1>0, <1>1, <2>1, <2>2, <2>3, TakenOff
<1>7. CASE SkipWindow(p) \/ ConflictsRunOut(p)
  <2> DEFINE w == Job(p)
  <2>1. /\ pc[p] = "process" /\ cycleNow' = cycleNow /\ blocked' = blocked
        /\ queue' = [queue EXCEPT ![p] = @ \ {w}]
        /\ skipped' = [skipped EXCEPT ![p] = @ \cup {w}]
    BY <1>7 DEF SkipWindow, ConflictsRunOut, Skip, Done
  <2>2. w \in Windows
    BY <2>1, JobFacts
  <2> HIDE DEF w
  <2>3. w \in skipped'[p] /\ skipped[p] \subseteq skipped'[p]
    BY <1>0, <2>1 DEF CycleTypes
  <2>. QED
    BY <1>0, <1>1, <2>1, <2>2, <2>3, TakenOff
<1>8. CASE FailWindow(p)
  <2> DEFINE w == Job(p)
  <2>1. /\ pc[p] = "process" /\ cycleNow' = cycleNow /\ skipped' = skipped
        /\ queue' = [queue EXCEPT ![p] = @ \ {w}]
        /\ blocked' = [blocked EXCEPT ![p] = @ \cup {w[1]}]
    BY <1>8 DEF FailWindow, Done, Defer
  <2>2. w \in Windows
    BY <2>1, JobFacts
  <2> HIDE DEF w
  <2>3. w[1] \in blocked'[p] /\ blocked[p] \subseteq blocked'[p]
    BY <1>0, <2>1 DEF CycleTypes
  <2>. QED
    BY <1>0, <1>1, <2>1, <2>2, <2>3, TakenOff
<1>9. ASSUME NEW w \in queue[p], ClaimRaises(p, w) PROVE Accounted(p)'
  <2>1. /\ pc[p] = "cycle" /\ cycleNow' = cycleNow /\ skipped' = skipped
        /\ queue' = [queue EXCEPT ![p] = @ \ {w}]
        /\ blocked' = [blocked EXCEPT ![p] = @ \cup {w[1]}]
    BY <1>9 DEF ClaimRaises, Done, Defer
  <2>2. w \in Windows
    BY <1>0 DEF CycleTypes
  <2>3. w[1] \in blocked'[p] /\ blocked[p] \subseteq blocked'[p]
    BY <1>0, <2>1 DEF CycleTypes
  <2>. QED
    BY <1>0, <1>1, <2>1, <2>2, <2>3, TakenOff
<1>10. ASSUME \/ \E outboxDue : EndCycle(p, outboxDue)
             \/ CycleFails(p) \/ LoopEnds(p) \/ Crash(p) \/ Start(p)
      PROVE  Accounted(p)'
  <2>1. pc'[p] \in {"sleep", "down", "died"}
    BY <1>0, <1>10 DEF RestTypes, EndCycle, CycleFails, LoopEnds, Crash, Start,
                      Sleep, Vanish
  <2>. QED
    BY <2>1 DEF Accounted
<1>. QED
  BY <1>2, <1>3, <1>4, <1>5, <1>6, <1>7, <1>8, <1>9, <1>10, OtherSteps
  DEF Step, RunOnce

-------------------------------------------------------------------------------
(* The inductive invariant *)

IInv == TypeOK /\ HasCursor /\ HasJob /\ NothingLost

LEMMA InitInv ==
  ASSUME Init
  PROVE  IInv
<1>1. committed = {} \/ \E w \in Windows : committed = {w}
  BY CycleAssumption DEF Init, Windows
<1>2. TypeOK
  <2>1. now \in 0 .. MaxTime
    BY CycleAssumption DEF Init
  <2>. QED
    BY <1>1, <2>1 DEF Init, TypeOK
<1>3. HasCursor
  <2>1. CASE committed = {}
    BY <2>1 DEF HasCursor, Committed
  <2>2. CASE \E w \in Windows : committed = {w}
    BY <2>2 DEF HasCursor, Committed, Windows
  <2>. QED
    BY <1>1, <2>1, <2>2
<1>4. HasJob /\ NothingLost
  BY DEF Init, HasJob, NothingLost, Accounted
<1>. QED
  BY <1>2, <1>3, <1>4 DEF IInv

LEMMA NextInv ==
  ASSUME IInv, [Next]_vars
  PROVE  IInv'
<1>1. TypeOK'
  <2>1. CASE Next
    BY <2>1, NextTypes DEF IInv
  <2>2. CASE UNCHANGED vars
    BY <2>2 DEF IInv, TypeOK, vars
  <2>. QED
    BY <2>1, <2>2
<1>2. HasCursor'
  BY NextCursor DEF IInv
<1>3. HasJob'
  BY NextJob DEF IInv
<1>4. NothingLost'
  BY <1>1, <1>2, NextAccounted DEF IInv
<1>. QED
  BY <1>1, <1>2, <1>3, <1>4 DEF IInv

THEOREM Invariance == Spec => []IInv
  BY InitInv, NextInv, PTL DEF Spec

\* The state of the store and of every worker keeps its type.
THEOREM TypeCorrect == Spec => []TypeOK
<1>1. IInv => TypeOK
  BY DEF IInv
<1>. QED
  BY <1>1, Invariance, PTL

-------------------------------------------------------------------------------
(* The schedule *)

LEMMA DueBounds ==
  ASSUME NEW c \in Int, NEW n \in Nat \ {0}, NEW cursor,
         NEW t \in Int, IsDue(t, cursor, c, n)
  PROVE  t \in c - (MaxCatchup + 1) * n - Lag .. c
<1>1. t + n + Lag <= c /\ t + n + MaxCatchup * n + Lag > c
  BY DEF IsDue, Closed, WithinCatchup
<1>2. (MaxCatchup + 1) * n = MaxCatchup * n + n /\ MaxCatchup * n \in Int
  BY ScheduleAssumption
<1>. QED
  BY <1>1, <1>2, ScheduleAssumption

\* scheduling.py: at every time of a run due_ticks returns the closed windows
\* after the cursor, as many of the latest as max_catchup_windows, and reports
\* all the others.
THEOREM ExactSchedule == Spec => []ScheduleIsExact
<1>1. ASSUME TypeOK PROVE ScheduleIsExact
  <2>0. now \in 0 .. MaxTime
    BY <1>1 DEF TypeOK
  <2> SUFFICES ASSUME NEW m \in Metrics,
                      NEW oldest, oldest = now - (MaxCatchup + 1) * Interval[m] - Lag,
                      NEW cursor \in {None} \cup oldest - Interval[m] .. now
               PROVE  /\ DueTicks(cursor, now, Interval[m]) =
                            {t \in oldest .. now : IsDue(t, cursor, now, Interval[m])}
                      /\ SkippedTicks(cursor, now, Interval[m]) =
                            {t \in oldest - Interval[m] .. now :
                                IsTooOld(t, cursor, now, Interval[m])}
    BY <2>0 DEF ScheduleIsExact, ExactTimes
  <2> DEFINE n == Interval[m]
  <2>1. now \in Int /\ n \in Nat \ {0} /\ cursor \in Int \cup {None}
    BY <1>1, CycleAssumption DEF TypeOK
  <2>2. oldest \in Int
    BY <2>1, ScheduleAssumption
  <2>3. cursor = None \/ oldest - n <= cursor
    BY <2>1, <2>2
  <2> HIDE DEF n
  <2>4. DueTicks(cursor, now, n) = {t \in Int : IsDue(t, cursor, now, n)}
    BY <2>1, DueTicksAreDue
  <2>5. \A t \in Int : IsDue(t, cursor, now, n) => t \in oldest .. now
    BY <2>1, DueBounds DEF n
  <2>6. SkippedTicks(cursor, now, n) = {t \in Int : IsTooOld(t, cursor, now, n)}
    BY <2>1, SkippedTicksAreTooOld
  <2>7. \A t \in Int : IsTooOld(t, cursor, now, n) => t \in oldest - n .. now
    BY <2>1, <2>2, <2>3, ScheduleAssumption DEF IsTooOld, Closed
  <2>. QED
    BY <2>4, <2>5, <2>6, <2>7 DEF n
<1>. QED
  BY <1>1, TypeCorrect, PTL

\* runtime.py, compute_wait: no window becomes due in a sleep.
LEMMA NextWakes ==
  ASSUME TypeOK, TypeOK', WakesInTime, [Next]_vars
  PROVE  WakesInTime'
<1> SUFFICES ASSUME NEW p \in Workers, pc'[p] = "sleep", failures'[p] = 0,
                    NEW m \in Metrics,
                    NEW d \in cycleNow'[p] + 1 .. wakeAt'[p] - 1,
                    (d - Lag) % Interval[m] = 0
             PROVE  wakeAt'[p] <= fellAsleep'[p] + MinWait
  BY DEF WakesInTime
<1>0. /\ CycleTypes /\ RestTypes /\ now \in Nat /\ MinWait \in Nat
      /\ Interval[m] \in Nat \ {0}
      /\ cycleNow'[p] \in Nat /\ wakeAt'[p] \in Nat
  BY TypeParts, CycleAssumption DEF TypeOK
<1>1. CASE SameCycle(p)
  BY <1>1 DEF SameCycle, WakesInTime
<1>2. ASSUME NEW outboxDue \in {None} \cup now .. now + IdleInterval,
             EndCycle(p, outboxDue)
      PROVE  wakeAt'[p] <= fellAsleep'[p] + MinWait
  <2> DEFINE wait == ComputeWait(p, outboxDue)
  <2>1. /\ wait \in Nat
        /\ \/ wait = MinWait
           \/ now + wait <= NextDueAt(cycleNow[p], Interval[m])
    BY WaitType
  <2> HIDE DEF wait
  <2>2. wakeAt'[p] = now + wait /\ fellAsleep'[p] = now
    BY <1>0, <1>2 DEF EndCycle, Sleep, RestTypes, wait
  <2>3. cycleNow'[p] = cycleNow[p] /\ cycleNow[p] \in Int
    BY <1>0, <1>2 DEF EndCycle
  <2>4. d \in Int /\ cycleNow[p] < d /\ d < now + wait
    BY <1>0, <2>1, <2>2, <2>3
  <2>5. NextDueAt(cycleNow[p], Interval[m]) \in Int
    BY <1>0, <2>3, NextDueLater
  <2>6. ~ (d < NextDueAt(cycleNow[p], Interval[m]))
    BY <1>0, <2>3, <2>4, NextDueIsNext
  <2>7. wait = MinWait
    BY <1>0, <2>1, <2>4, <2>5, <2>6
  <2>. QED
    BY <1>0, <2>2, <2>7
<1>3. ASSUME CycleFails(p) PROVE FALSE
  BY <1>0, <1>3 DEF CycleFails, RestTypes
<1>4. CASE Start(p)
  BY <1>0, <1>4 DEF Start, Sleep, RestTypes
<1>5. ASSUME \/ BeginCycle(p) \/ Commit(p) \/ SkipWindow(p) \/ ConflictsRunOut(p)
             \/ FailWindow(p)
             \/ \E w \in queue[p] : \/ PassWindow(p, w)
                                   \/ ClaimWindow(p, w)
                                   \/ ClaimRaises(p, w)
             \/ LoopEnds(p) \/ Crash(p)
      PROVE  FALSE
  <2>1. CASE SkipWindow(p) \/ ConflictsRunOut(p) \/ FailWindow(p) \/ Commit(p)
    BY <1>0, <2>1
    DEF RestTypes, Commit, SkipWindow, ConflictsRunOut, Skip, FailWindow, Done
  <2>2. CASE BeginCycle(p) \/ \E w \in queue[p] : \/ PassWindow(p, w)
                                               \/ ClaimWindow(p, w)
                                               \/ ClaimRaises(p, w)
    BY <1>0, <2>2 DEF RestTypes, BeginCycle, PassWindow, ClaimWindow, ClaimRaises, Done
  <2>3. CASE LoopEnds(p) \/ Crash(p)
    BY <1>0, <2>3 DEF RestTypes, LoopEnds, Crash, Vanish
  <2>. QED
    BY <1>5, <2>1, <2>2, <2>3
<1>. QED
  BY <1>1, <1>2, <1>3, <1>4, <1>5, OtherSteps DEF Step, RunOnce

THEOREM InTime == Spec => []WakesInTime
<1>1. Init => WakesInTime
  BY DEF Init, WakesInTime
<1>2. TypeOK /\ TypeOK' /\ WakesInTime /\ [Next]_vars => WakesInTime'
  BY NextWakes
<1>. QED
  BY <1>1, <1>2, TypeCorrect, PTL DEF Spec

-------------------------------------------------------------------------------
(* What a cycle may pass over *)

\* runtime.py, run_once: whoever commits a window has tried every earlier one
\* that was due when its cycle began and has seen none of them fail; those that
\* no later commit has passed it has skipped itself, because another worker had
\* them or the attempts to commit them ran out.
THEOREM Passed == Spec => OnlySkippedArePassed
<1>1. ASSUME IInv, NEW p \in Workers, pc[p] = "process", NEW t \in Int,
             t <= Job(p)[2] - 1,
             IsDue(t, Cursor(Job(p)[1]), cycleNow[p], Interval[Job(p)[1]])
      PROVE  <<Job(p)[1], t>> \in skipped[p]
  <2> DEFINE w == Job(p)
             v == <<w[1], t>>
  <2>1. TypeOK /\ HasJob /\ Accounted(p)
    BY <1>1 DEF IInv, NothingLost
  <2>2. IsNext(p, w) /\ w \in Windows /\ w \in Remaining(p)
    BY <1>1, <2>1, JobFacts
  <2>3. w[1] \in Metrics /\ w[2] \in Int /\ w[1] \notin blocked[p]
    BY <2>2 DEF Windows, Remaining
  <2>4. v \in queue[p] \cup skipped[p]
    BY <1>1, <2>1, <2>3 DEF Accounted
  <2>5. v \in queue[p] => v \in Remaining(p)
    BY <2>3 DEF Remaining
  <2>6. v \notin Remaining(p)
    <3>1. v \in Remaining(p) => w[2] < v[2] \/ w[2] = v[2]
      BY <2>2 DEF IsNext
    <3>2. v[2] = t
      OBVIOUS
    <3>3. t <= w[2] - 1
      BY <1>1
    <3> HIDE DEF v, w
    <3>. QED
      BY <2>3, <3>1, <3>2, <3>3
  <2>. QED
    BY <2>4, <2>5, <2>6
<1>2. ASSUME IInv, [Next]_vars
      PROVE  [\A p \in Workers : \A w \in committed' \ committed :
                pc[p] = "process" /\ pc'[p] = "cycle" /\ w = Job(p) =>
                   \A t \in cycleNow[p] - (MaxCatchup + 1) * Interval[w[1]] - Lag
                            .. w[2] - 1 :
                      IsDue(t, Cursor(w[1]), cycleNow[p], Interval[w[1]]) =>
                         <<w[1], t>> \in skipped[p]]_vars
  <2> SUFFICES ASSUME NEW p \in Workers, pc[p] = "process",
                      NEW t \in cycleNow[p]
                                  - (MaxCatchup + 1) * Interval[Job(p)[1]] - Lag
                               .. Job(p)[2] - 1,
                      IsDue(t, Cursor(Job(p)[1]), cycleNow[p], Interval[Job(p)[1]])
               PROVE  <<Job(p)[1], t>> \in skipped[p]
    OBVIOUS
  <2>1. t \in Int /\ t <= Job(p)[2] - 1
    OBVIOUS
  <2>. QED
    BY <1>1, <1>2, <2>1
<1>. QED
  BY <1>2, Invariance, PTL DEF Spec, OnlySkippedArePassed
===============================================================================
