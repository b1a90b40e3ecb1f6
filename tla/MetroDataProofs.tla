--------------------------- MODULE MetroDataProofs ---------------------------
(***************************************************************************)
(* Lemmas about the computations of the presenters, for every dictionary   *)
(* of ascending time sheets: the sorted arrays of hours and minutes behind *)
(* the rows of a table, the readings of the clock and the next train.      *)
(***************************************************************************)
EXTENDS MetroData, FiniteSetTheorems, TLAPS

-----------------------------------------------------------------------------
(* Ranks: the sorted arrays of the presenter are the elements of a set by    *)
(* the number of smaller ones.                                              *)

Rank(S, x) == Cardinality({y \in S : y < x})

LEMMA IntervalCount ==
    ASSUME NEW a \in Int, NEW b \in Int
    PROVE  IsFiniteSet(a..b) /\ (a <= b => Cardinality(a..b) = b - a + 1)
  BY FS_Interval

LEMMA RankGrows ==
    ASSUME NEW S \in SUBSET Int, IsFiniteSet(S), NEW x \in S, NEW z \in S, x < z
    PROVE  /\ Rank(S, x) \in Nat /\ Rank(S, z) \in Nat
           /\ Rank(S, x) < Rank(S, z) /\ Rank(S, z) < Cardinality(S)
<1>. DEFINE A == {y \in S : y < x}
            B == {y \in S : y < z}
<1>. x \in Int /\ z \in Int
  OBVIOUS
<1>1a. ASSUME NEW y \in A PROVE y \in B
  <2>. y \in Int /\ y \in S /\ y < x
    OBVIOUS
  <2>. QED
    OBVIOUS
<1>1b. B \in SUBSET S /\ x \in B /\ x \notin A /\ z \in S /\ z \notin B
  OBVIOUS
<1>1. A \in SUBSET B /\ B \in SUBSET S /\ x \in B /\ x \notin A /\ z \in S /\ z \notin B
  BY <1>1a, <1>1b
<1>. HIDE DEF A, B
<1>2. IsFiniteSet(B) /\ Cardinality(B) <= Cardinality(S) /\ Cardinality(B) # Cardinality(S)
  BY <1>1, FS_Subset
<1>3. IsFiniteSet(A) /\ Cardinality(A) <= Cardinality(B) /\ Cardinality(A) # Cardinality(B)
  BY <1>1, <1>2, FS_Subset
<1>4. Cardinality(A) \in Nat /\ Cardinality(B) \in Nat /\ Cardinality(S) \in Nat
  BY <1>2, <1>3, FS_CardinalityType
<1>5. Cardinality(A) < Cardinality(B) /\ Cardinality(B) < Cardinality(S)
  BY <1>2, <1>3, <1>4
<1>. QED
  BY <1>4, <1>5 DEF A, B, Rank

LEMMA RankBelow ==
    ASSUME NEW S \in SUBSET Int, IsFiniteSet(S), NEW x \in S
    PROVE  Rank(S, x) \in 0..(Cardinality(S) - 1)
<1>. DEFINE A == {y \in S : y < x}
<1>1. A \subseteq S /\ x \in S /\ x \notin A
  OBVIOUS
<1>. HIDE DEF A
<1>2. IsFiniteSet(A) /\ Cardinality(A) <= Cardinality(S) /\ Cardinality(A) # Cardinality(S)
  BY <1>1, FS_Subset
<1>3. Cardinality(A) \in Nat /\ Cardinality(S) \in Nat
  BY <1>2, FS_CardinalityType
<1>4. Cardinality(A) \in 0..(Cardinality(S) - 1)
  BY <1>2, <1>3
<1>. QED
  BY <1>4 DEF A, Rank

LEMMA RankUnique ==
    ASSUME NEW S \in SUBSET Int, IsFiniteSet(S), NEW x \in S, NEW z \in S, Rank(S, x) = Rank(S, z)
    PROVE  x = z
<1>1. ~(x < z)
  BY RankGrows
<1>2. ~(z < x)
  BY RankGrows
<1>. QED
  BY <1>1, <1>2

\* Every place of the sorted array is taken.
LEMMA RankExists ==
    ASSUME NEW S \in SUBSET Int, IsFiniteSet(S), NEW n \in Nat, n < Cardinality(S)
    PROVE  \E x \in S : Rank(S, x) = n
<1>. DEFINE T == 0..(Cardinality(S) - 1)
            f == [x \in S |-> Rank(S, x)]
<1>1. Cardinality(S) \in Nat
  BY FS_CardinalityType
<1>2. IsFiniteSet(T) /\ Cardinality(T) = Cardinality(S)
  <2>. DEFINE first == 0
              last == Cardinality(S) - 1
  <2>1. /\ first \in Int /\ last \in Int /\ first <= last
        /\ last - first + 1 = Cardinality(S)
    BY <1>1
  <2>. HIDE DEF first, last
  <2>2. IsFiniteSet(first..last) /\ Cardinality(first..last) = last - first + 1
    BY <2>1, IntervalCount
  <2>. QED
    BY <2>1, <2>2 DEF first, last
<1>3. f \in [S -> T]
  BY RankBelow
<1>4. \A x, z \in S : f[x] = f[z] => x = z
  BY RankUnique
<1>5. f \in Injection(S, T)
  BY <1>3, <1>4 DEF Injection, IsInjective
<1>6. f \in Surjection(S, T)
  BY <1>2, <1>5, FS_Injection
<1>7. n \in T
  BY <1>1
<1>. QED
  BY <1>6, <1>7 DEF Surjection

-----------------------------------------------------------------------------
(* Rows of a table.                                                        *)

LEMMA HourOfTime == ASSUME NEW t \in Times PROVE t \in Nat /\ t \div Hour \in 0..47
<1>1. 2 * Day - 1 = 48 * Hour - 1 /\ Hour \in Nat /\ Day \in Nat
  BY SMT DEF Day, Hour
<1>2. t \in Int /\ 0 <= t /\ t <= 48 * Hour - 1
  BY <1>1 DEF Times
<1>3. t \div Hour \in 0..47
  BY <1>2, SMT DEF Hour
<1>. QED
  BY <1>2, <1>3

LEMMA FiniteHours == ASSUME NEW H \in SUBSET (0..47) PROVE IsFiniteSet(H) /\ H \in SUBSET Int
<1>. DEFINE first == 0
            last == 47
<1>1. first \in Int /\ last \in Int /\ H \in SUBSET (first..last)
  OBVIOUS
<1>. HIDE DEF first, last
<1>2. IsFiniteSet(first..last)
  BY <1>1, IntervalCount
<1>3. IsFiniteSet(H)
  BY <1>1, <1>2, FS_Subset
<1>4. H \in SUBSET Int
  OBVIOUS
<1>. QED
  BY <1>3, <1>4

\* The hours of a time sheet.
LEMMA HoursOfSheet ==
    ASSUME NEW sheet \in Seq(Times), NEW I \in SUBSET DOMAIN sheet
    PROVE  HourSet(sheet, I) \in SUBSET (0..47) /\ IsFiniteSet(HourSet(sheet, I))
<1>1. \A i \in I : sheet[i] \div Hour \in 0..47
  <2>1. \A i \in I : sheet[i] \in Times
    OBVIOUS
  <2>. QED
    BY <2>1, HourOfTime
<1>2. HourSet(sheet, I) \in SUBSET (0..47)
  BY <1>1 DEF HourSet
<1>. QED
  BY <1>2, FiniteHours

\* hours[row] is an hour of the table, and the text of hourModify is that hour.
LEMMA RowHasHour ==
    ASSUME NEW H \in SUBSET (0..47), NEW row \in Nat, row < Cardinality(H)
    PROVE  /\ HourOfRow(H, row) \in H
           /\ Rank(H, HourOfRow(H, row)) = row
           /\ HourShown(HourOfRow(H, row)) = HourOfRow(H, row) % 24
           /\ HourShown(HourOfRow(H, row)) \in 0..23
<1>1. IsFiniteSet(H) /\ H \in SUBSET Int
  BY FiniteHours
<1>2. \E h \in H : Rank(H, h) = row
  BY <1>1, RankExists
<1>3. HourOfRow(H, row) \in H /\ Rank(H, HourOfRow(H, row)) = row
  BY <1>2 DEF HourOfRow, Rank
<1>4. \A h \in 0..47 : HourShown(h) = h % 24 /\ HourShown(h) \in 0..23
  BY DEF HourShown
<1>. QED
  BY <1>3, <1>4

\* The positions of a set in order: minutes[k] of a row.
NthPosition(P, k) == CHOOSE j \in P : Cardinality({l \in P : l <= j}) = k

LEMMA PositionsInOrder ==
    ASSUME NEW P \in SUBSET Int, IsFiniteSet(P), NEW x \in P
    PROVE  Cardinality({l \in P : l <= x}) = Rank(P, x) + 1
<1>. DEFINE A == {l \in P : l < x}
<1>. x \in Int
  OBVIOUS
<1>1a. \A l \in P : l \in Int /\ (l <= x <=> l < x \/ l = x)
  OBVIOUS
<1>1b. ASSUME NEW l PROVE l \in {m \in P : m <= x} <=> l \in A \cup {x}
  BY <1>1a
<1>1. {l \in P : l <= x} = A \cup {x} /\ x \notin A /\ A \in SUBSET P
  BY <1>1b
<1>. HIDE DEF A
<1>2. IsFiniteSet(A)
  BY <1>1, FS_Subset
<1>3. Cardinality(A \cup {x}) = Cardinality(A) + 1
  BY <1>1, <1>2, FS_AddElement
<1>. QED
  BY <1>1, <1>3 DEF Rank, A

LEMMA NthPositionIs ==
    ASSUME NEW P \in SUBSET Int, IsFiniteSet(P), NEW x \in P
    PROVE  /\ Rank(P, x) + 1 \in 1..Cardinality(P)
           /\ NthPosition(P, Rank(P, x) + 1) = x
<1>1. Rank(P, x) \in 0..(Cardinality(P) - 1) /\ Cardinality(P) \in Nat
  BY RankBelow, FS_CardinalityType
<1>2. \A j \in P : Cardinality({l \in P : l <= j}) = Rank(P, x) + 1 <=> j = x
  <2>. SUFFICES ASSUME NEW j \in P
                PROVE  Cardinality({l \in P : l <= j}) = Rank(P, x) + 1 <=> j = x
    OBVIOUS
  <2>1. Cardinality({l \in P : l <= j}) = Rank(P, j) + 1
    BY PositionsInOrder
  <2>2. Rank(P, j) \in Int
    BY RankBelow
  <2>3. Rank(P, j) = Rank(P, x) => j = x
    BY RankUnique
  <2>. QED
    BY <1>1, <2>1, <2>2, <2>3
<1>. QED
  BY <1>1, <1>2 DEF NthPosition

LEMMA NthPositionExists ==
    ASSUME NEW P \in SUBSET Int, IsFiniteSet(P), NEW k \in 1..Cardinality(P)
    PROVE  NthPosition(P, k) \in P
<1>1. Cardinality(P) \in Nat
  BY FS_CardinalityType
<1>2. PICK x \in P : Rank(P, x) = k - 1
  BY <1>1, RankExists
<1>3. Rank(P, x) + 1 = k
  BY <1>1, <1>2
<1>. QED
  BY <1>3, NthPositionIs

\* A finite set of positions has a first one.
LEMMA FirstPosition ==
    ASSUME NEW P \in SUBSET Int, IsFiniteSet(P), P # {}
    PROVE  \E i \in P : \A j \in P : i <= j
<1>1. Cardinality(P) \in Nat /\ Cardinality(P) # 0
  BY FS_CardinalityType, FS_EmptySet
<1>2. PICK i \in P : Rank(P, i) = 0
  BY <1>1, RankExists
<1>3. {j \in P : j < i} = {}
  <2>1. {j \in P : j < i} \in SUBSET P
    OBVIOUS
  <2>2. IsFiniteSet({j \in P : j < i})
    BY <2>1, FS_Subset
  <2>. QED
    BY <1>2, <2>2, FS_EmptySet DEF Rank
<1>4. \A j \in P : i <= j
  BY <1>3
<1>. QED
  BY <1>4

LEMMA UpcomingPositions ==
    ASSUME NEW sheet \in Seq(Times), NEW I \in SUBSET DOMAIN sheet
    PROVE  I \in SUBSET Int /\ IsFiniteSet(I)
<1>. DEFINE first == 1
            last == Len(sheet)
<1>1. first \in Int /\ last \in Int /\ I \in SUBSET (first..last) /\ I \in SUBSET Int
  OBVIOUS
<1>. HIDE DEF first, last
<1>2. IsFiniteSet(first..last)
  BY <1>1, IntervalCount
<1>3. IsFiniteSet(I)
  BY <1>1, <1>2, FS_Subset
<1>. QED
  BY <1>1, <1>3

MinuteOf(time) == (time % Hour) \div 60

LEMMA MinuteType == ASSUME NEW t \in Int PROVE MinuteOf(t) \in 0..59
  BY SMT DEF MinuteOf, Hour

\* What configureTimeSheetTableViewCell puts into the cell of a row in range.
LEMMA RowCellShows ==
    ASSUME NEW sheet \in Seq(Times), NEW I \in SUBSET DOMAIN sheet,
           NEW row \in Nat, RowInRange(sheet, I, row)
    PROVE  LET cell == RowCell(sheet, I, row)
               hour == HourOfRow(HourSet(sheet, I), row)
               P    == RowPositions(sheet, I, row)
           IN  /\ hour \in HourSet(sheet, I) /\ hour \in 0..47
               /\ Rank(HourSet(sheet, I), hour) = row
               /\ cell.hour = hour % 24 /\ cell.hour \in 0..23
               /\ cell.minutes \in Seq(0..59)
               /\ \A i \in P : \E k \in DOMAIN cell.minutes :
                      cell.minutes[k] = MinuteOf(sheet[i])
               /\ \A i \in P : (\A j \in P : i <= j) =>
                      cell.minutes[1] = MinuteOf(sheet[i])
<1>. DEFINE H == HourSet(sheet, I)
            hour == HourOfRow(H, row)
            P == RowPositions(sheet, I, row)
            count == Cardinality(P)
            minute(k) == MinuteOf(sheet[NthPosition(P, k)])
            minutes == [k \in 1..count |-> minute(k)]
<1>1. RowCell(sheet, I, row) = [hour |-> HourShown(hour), minutes |-> minutes]
  BY DEF RowCell, NthPosition, MinuteOf
<1>2. /\ hour \in H /\ hour \in 0..47 /\ Rank(H, hour) = row
      /\ HourShown(hour) = hour % 24 /\ HourShown(hour) \in 0..23
  <2>1. H \in SUBSET (0..47)
    BY HoursOfSheet
  <2>2. row < Cardinality(H)
    BY DEF RowInRange
  <2>. HIDE DEF H
  <2>. QED
    BY <2>1, <2>2, RowHasHour
<1>3. P \in SUBSET I /\ P \in SUBSET Int /\ IsFiniteSet(P)
  <2>1. P \in SUBSET I /\ P \in SUBSET DOMAIN sheet
    BY DEF RowPositions
  <2>. HIDE DEF P
  <2>. QED
    BY <2>1, UpcomingPositions
<1>4. count \in Nat
  BY <1>3, FS_CardinalityType
<1>5. \A i \in P : sheet[i] \in Int
  <2>1. \A i \in P : sheet[i] \in Times
    BY <1>3
  <2>. QED
    BY <2>1, HourOfTime
<1>. HIDE DEF H, P
<1>6. minutes \in Seq(0..59)
  <2>1. \A k \in 1..count : minute(k) \in 0..59
    BY <1>3, <1>5, NthPositionExists, MinuteType
  <2>. HIDE DEF minute, count
  <2>. QED
    BY <1>4, <2>1
<1>7. \A i \in P : /\ Rank(P, i) + 1 \in DOMAIN minutes
                   /\ minutes[Rank(P, i) + 1] = MinuteOf(sheet[i])
  <2>1. \A i \in P : Rank(P, i) + 1 \in 1..count /\ minute(Rank(P, i) + 1) = MinuteOf(sheet[i])
    BY <1>3, NthPositionIs
  <2>. HIDE DEF minute, count
  <2>2. DOMAIN minutes = 1..count /\ \A k \in 1..count : minutes[k] = minute(k)
    OBVIOUS
  <2>. HIDE DEF minutes
  <2>. QED
    BY <2>1, <2>2
<1>8. ASSUME NEW i \in P, \A j \in P : i <= j PROVE minutes[1] = MinuteOf(sheet[i])
  <2>1. {j \in P : j < i} = {}
    <3>1. \A j \in P : j \in Int /\ i \in Int /\ i <= j
      BY <1>3, <1>8
    <3>2. \A j \in P : ~(j < i)
      BY <3>1
    <3>. QED
      BY <3>2
  <2>2. Rank(P, i) = 0
    BY <2>1, FS_EmptySet DEF Rank
  <2>3. Rank(P, i) + 1 = 1
    BY <2>2
  <2>. QED
    BY <1>7, <2>3
<1>. HIDE DEF hour, minutes
<1>9. RowCell(sheet, I, row).hour = HourShown(hour) /\ RowCell(sheet, I, row).minutes = minutes
  BY <1>1
<1>10. \A i \in P : \E k \in DOMAIN minutes : minutes[k] = MinuteOf(sheet[i])
  BY <1>7
<1>. QED
  BY <1>2, <1>6, <1>8, <1>9, <1>10 DEF hour, H, P

-----------------------------------------------------------------------------
(* The clock and the time sheets.                                          *)

LEMMA Constants ==
    /\ Hour \in Nat /\ Day \in Nat /\ AfterMidnight \in Nat /\ 0 < AfterMidnight
    /\ AfterMidnight < Day
  BY SMT DEF Day, Hour, AfterMidnight

LEMMA TimeOfDay == \A t \in Nat : t % Day \in 0..(Day - 1)
<1>1. Day \in Nat /\ Day > 0
  BY Constants
<1>2. \A d \in Nat : d > 0 => \A t \in Nat : t % d \in 0..(d - 1)
  OBVIOUS
<1>. QED
  BY <1>1, <1>2

LEMMA ClockReading ==
    ASSUME NEW t \in Nat, NEW cur \in CurrentTimeFromStartDay(t)
    PROVE  /\ t % Day \in 0..(Day - 1)
           /\ cur \in -1..(Day - 1) /\ cur <= t % Day /\ (cur = t % Day \/ (cur = -1 /\ t % Day = 0))
<1>1. t % Day \in 0..(Day - 1) /\ Day \in Nat /\ Day > 0
  BY TimeOfDay, Constants
<1>2. cur = t % Day \/ (cur = -1 /\ t % Day = 0)
  BY DEF CurrentTimeFromStartDay
<1>. QED
  BY <1>1, <1>2

LEMMA SameDay ==
    ASSUME NEW t \in Nat, NEW u \in Nat, t <= u, t \div Day = u \div Day
    PROVE  t % Day <= u % Day /\ (t < u => t % Day < u % Day)
<1>1. t % Day <= u % Day
  BY SMT DEF Day, Hour
<1>2. t < u => t % Day < u % Day
  BY SMT DEF Day, Hour
<1>. QED
  BY <1>1, <1>2

LEMMA DaysGrow ==
    ASSUME NEW t \in Nat, NEW u \in Nat, t <= u
    PROVE  t \div Day <= u \div Day /\ t \div Day \in Int
  BY SMT DEF Day, Hour

\* What the guards of the presenters find is a time sheet.
Ascending(sheet) == \A i, j \in DOMAIN sheet : i <= j => sheet[i] <= sheet[j]

LEMMA FoundSheet ==
    ASSUME NEW v \in 0..MaxVersion, NEW day, NEW text, NEW to, SheetFound(v, day, text, to)
    PROVE  TimeSheet(v, day, text, to) \in Seq(Times) /\ Ascending(TimeSheet(v, day, text, to))
<1>. DEFINE station == StationOfText(text)
            direction == DirectionOfText(to)
<1>1. /\ v # NoData /\ day \in DOMAIN Content[v] /\ station \in DOMAIN Content[v][day]
      /\ direction \in DOMAIN Content[v][day][station].sheets
  BY DEF SheetFound, HasSheet, HasStation, HasDay
<1>2. v \in Versions
  BY <1>1, MaxVersionAssumption DEF Versions, NoData
<1>3. TimeSheet(v, day, text, to) = Content[v][day][station].sheets[direction]
  BY DEF TimeSheet, Sheet
<1>. HIDE DEF station, direction
<1>. QED
  BY <1>1, <1>2, <1>3, SheetsAssumption, AscendingAssumption DEF Ascending

\* The remaining departures become fewer.
LEMMA UpcomingShrinks ==
    ASSUME NEW sheet \in Seq(Times), NEW t \in Int, NEW u \in Int, t <= u
    PROVE  /\ Upcoming(sheet, t) \in SUBSET DOMAIN sheet
           /\ Upcoming(sheet, u) \in SUBSET DOMAIN sheet
           /\ Upcoming(sheet, u) \in SUBSET Upcoming(sheet, t)
           /\ HourSet(sheet, Upcoming(sheet, u)) \in SUBSET HourSet(sheet, Upcoming(sheet, t))
<1>1. \A i \in DOMAIN sheet : sheet[i] \in Int
  BY HourOfTime
<1>2. \A i \in DOMAIN sheet : sheet[i] > u => sheet[i] > t
  BY <1>1
<1>3. Upcoming(sheet, u) \in SUBSET Upcoming(sheet, t)
  BY <1>2 DEF Upcoming
<1>4. Upcoming(sheet, t) \in SUBSET DOMAIN sheet /\ Upcoming(sheet, u) \in SUBSET DOMAIN sheet
  BY DEF Upcoming
<1>. QED
  BY <1>3, <1>4 DEF HourSet

LEMMA HHmmType == ASSUME NEW t \in Int PROVE HHmm(t) \in (0..23) \X (0..59)
<1>1. (t \div Hour) % 24 \in 0..23
  BY SMT DEF Hour
<1>2. (t % Hour) \div 60 \in 0..59
  BY SMT DEF Hour
<1>. QED
  BY <1>1, <1>2 DEF HHmm

\* setNextTime announces the first later departure of the sheet.
LEMMA NextTimeIs ==
    ASSUME NEW sheet \in Seq(Times), NEW cur \in Int
    PROVE  LET t == ServiceTime(cur)
               later == Upcoming(sheet, t)
           IN  \/ later = {} /\ NextTime(sheet, cur) = NoTime
               \/ \E i \in later :
                      /\ \A j \in later : i <= j
                      /\ NextTime(sheet, cur) = HHmm(IF t > Day THEN sheet[i] - Day ELSE sheet[i])
                      /\ NextTime(sheet, cur) \in (0..23) \X (0..59)
<1>. DEFINE t == ServiceTime(cur)
            later == Upcoming(sheet, t)
            first == CHOOSE i \in later : \A j \in later : i <= j
<1>1. NextTime(sheet, cur) = IF later = {} THEN NoTime
                             ELSE HHmm(IF t > Day THEN sheet[first] - Day ELSE sheet[first])
  BY DEF NextTime
<1>2. later \in SUBSET DOMAIN sheet
  BY DEF Upcoming
<1>. HIDE DEF later, t
<1>3. ASSUME later # {} PROVE first \in later /\ \A j \in later : first <= j
  <2>1. later \in SUBSET Int /\ IsFiniteSet(later)
    BY <1>2, UpcomingPositions
  <2>2. \E i \in later : \A j \in later : i <= j
    BY <1>3, <2>1, FirstPosition
  <2>. QED
    BY <2>2
<1>. HIDE DEF first
<1>4. ASSUME later # {} PROVE sheet[first] \in Int /\ sheet[first] - Day \in Int
  <2>1. sheet[first] \in Times
    BY <1>2, <1>3, <1>4
  <2>. QED
    BY <2>1, HourOfTime, Constants
<1>5. CASE later = {}
  BY <1>1, <1>5 DEF later, t
<1>6. CASE later # {}
  <2>1. NextTime(sheet, cur) = HHmm(IF t > Day THEN sheet[first] - Day ELSE sheet[first])
    BY <1>1, <1>6
  <2>2. NextTime(sheet, cur) \in (0..23) \X (0..59)
    BY <1>4, <1>6, <2>1, HHmmType
  <2>. QED
    BY <1>3, <1>6, <2>1, <2>2 DEF later, t
<1>. QED
  BY <1>5, <1>6

\* From 00:25 on setNextTime and the table take the same departures.
LEMMA ServiceTimeByDay ==
    ASSUME NEW cur \in Int, cur >= AfterMidnight, cur < Day
    PROVE  ServiceTime(cur) = cur /\ ~(ServiceTime(cur) > Day)
<1>1. Day \in Nat /\ AfterMidnight \in Nat
  BY Constants
<1>2. ServiceTime(cur) = cur
  BY <1>1 DEF ServiceTime
<1>. QED
  BY <1>1, <1>2

LEMMA AnnouncedIfRows ==
    ASSUME NEW sheet \in Seq(Times), NEW cur \in Int, cur >= AfterMidnight, cur < Day
    PROVE  NextTime(sheet, cur) = NoTime <=> RowCount(sheet, Upcoming(sheet, cur)) = 0
<1>. DEFINE I == Upcoming(sheet, cur)
<1>1. \/ I = {} /\ NextTime(sheet, cur) = NoTime
      \/ I # {} /\ NextTime(sheet, cur) \in (0..23) \X (0..59)
  BY ServiceTimeByDay, NextTimeIs
<1>2. NoTime \notin (0..23) \X (0..59)
  BY DEF NoTime
<1>3. I \in SUBSET DOMAIN sheet
  BY DEF Upcoming
<1>. HIDE DEF I
<1>4. IsFiniteSet(HourSet(sheet, I))
  BY <1>3, HoursOfSheet
<1>5. Cardinality(HourSet(sheet, I)) = 0 <=> HourSet(sheet, I) = {}
  BY <1>4, FS_EmptySet
<1>6. HourSet(sheet, I) = {} <=> I = {}
  BY DEF HourSet
<1>7. NextTime(sheet, cur) = NoTime <=> Cardinality(HourSet(sheet, I)) = 0
  BY <1>1, <1>2, <1>5, <1>6
<1>. QED
  BY <1>7 DEF RowCount, I

\* The first position of an ascending sheet is one of the first row.
LEMMA FirstRow ==
    ASSUME NEW sheet \in Seq(Times), Ascending(sheet), NEW I \in SUBSET DOMAIN sheet,
           RowInRange(sheet, I, 0), NEW i \in I, \A j \in I : i <= j
    PROVE  <<RowCell(sheet, I, 0).hour, RowCell(sheet, I, 0).minutes[1]>> = HHmm(sheet[i])
<1>. DEFINE H == HourSet(sheet, I)
            hour == HourOfRow(H, 0)
            P == RowPositions(sheet, I, 0)
<1>1. hour \in H /\ Rank(H, hour) = 0 /\ RowCell(sheet, I, 0).hour = hour % 24
  BY RowCellShows
<1>2. \A k \in P : (\A j \in P : k <= j) => RowCell(sheet, I, 0).minutes[1] = MinuteOf(sheet[k])
  <2>1. 0 \in Nat
    OBVIOUS
  <2>. QED
    BY <2>1, RowCellShows, Zenon
<1>3. H \in SUBSET Int /\ IsFiniteSet(H)
  BY HoursOfSheet, FiniteHours
<1>. DEFINE h == sheet[i] \div Hour
<1>4. h \in H
  BY DEF HourSet
<1>5. h <= hour
  <2>1. PICK j \in I : hour = sheet[j] \div Hour
    BY <1>1 DEF HourSet
  <2>2. sheet[i] <= sheet[j]
    BY DEF Ascending
  <2>3. sheet[i] \in Times /\ sheet[j] \in Times
    OBVIOUS
  <2>4. sheet[i] \in Int /\ sheet[j] \in Int
    BY <2>3, HourOfTime
  <2>5. \A t, u \in Int : t <= u => t \div Hour <= u \div Hour
    BY SMT DEF Hour
  <2>6. sheet[i] \div Hour <= sheet[j] \div Hour
    BY <2>2, <2>4, <2>5
  <2>. QED
    BY <2>1, <2>6
<1>. HIDE DEF H, hour, h
<1>6. ~(h < hour)
  <2>1. h < hour => Rank(H, h) \in Nat /\ Rank(H, h) < Rank(H, hour)
    BY <1>1, <1>3, <1>4, RankGrows
  <2>. QED
    BY <1>1, <2>1
<1>7. sheet[i] \div Hour = hour
  <2>1. h \in Int /\ hour \in Int
    BY <1>1, <1>3, <1>4
  <2>2. h = hour
    BY <1>5, <1>6, <2>1
  <2>. QED
    BY <2>2 DEF h
<1>8. i \in P /\ P \in SUBSET I
  BY <1>7 DEF RowPositions, hour, H
<1>. HIDE DEF P
<1>9. RowCell(sheet, I, 0).minutes[1] = MinuteOf(sheet[i])
  BY <1>2, <1>8
<1>. QED
  BY <1>1, <1>7, <1>9 DEF HHmm, MinuteOf

LEMMA AnnouncedRow ==
    ASSUME NEW sheet \in Seq(Times), Ascending(sheet),
           NEW cur \in Int, cur >= AfterMidnight, cur < Day,
           RowInRange(sheet, Upcoming(sheet, cur), 0)
    PROVE  LET cell == RowCell(sheet, Upcoming(sheet, cur), 0)
           IN  NextTime(sheet, cur) = <<cell.hour, cell.minutes[1]>>
<1>. DEFINE I == Upcoming(sheet, cur)
<1>1. I \in SUBSET DOMAIN sheet
  BY DEF Upcoming
<1>2. \/ I = {}
      \/ \E i \in I : (\A j \in I : i <= j) /\ NextTime(sheet, cur) = HHmm(sheet[i])
  BY ServiceTimeByDay, NextTimeIs
<1>. HIDE DEF I
<1>3. I # {}
  <2>1. ASSUME I = {} PROVE FALSE
    <3>1. HourSet(sheet, I) = {}
      BY <2>1 DEF HourSet
    <3>2. Cardinality(HourSet(sheet, I)) = 0
      BY <3>1, FS_EmptySet
    <3>. QED
      BY <3>2 DEF RowInRange, I
  <2>. QED
    BY <2>1
<1>4. PICK i \in I : (\A j \in I : i <= j) /\ NextTime(sheet, cur) = HHmm(sheet[i])
  BY <1>2, <1>3
<1>5. RowInRange(sheet, I, 0)
  BY DEF I
<1>6. <<RowCell(sheet, I, 0).hour, RowCell(sheet, I, 0).minutes[1]>> = HHmm(sheet[i])
  BY <1>1, <1>4, <1>5, FirstRow
<1>. QED
  BY <1>4, <1>6 DEF I

-----------------------------------------------------------------------------
(* Cells and days.                                                         *)

CellType(cell) == cell.hour \in -1..23 /\ cell.minutes \in Seq(0..59)

\* The cells of the table after one of them was drawn.
LEMMA DrawnCells ==
    ASSUME NEW table, NEW n \in Nat, NEW row \in 0..(n - 1), NEW cell, CellType(cell),
           DOMAIN table \in SUBSET (0..(n - 1)), \A r \in DOMAIN table : CellType(table[r])
    PROVE  /\ DOMAIN Drawn(table, row, cell) \in SUBSET (0..(n - 1))
           /\ \A r \in DOMAIN Drawn(table, row, cell) : CellType(Drawn(table, row, cell)[r])
<1>1. DOMAIN Drawn(table, row, cell) = DOMAIN table \cup {row}
  BY DEF Drawn
<1>2. \A r \in DOMAIN table \cup {row} :
          Drawn(table, row, cell)[r] = IF r = row THEN cell ELSE table[r]
  BY DEF Drawn
<1>. QED
  BY <1>1, <1>2

LEMMA ReusableCells ==
    ASSUME NEW table, \A r \in DOMAIN table : CellType(table[r]), NEW cell \in Reusable(table)
    PROVE  CellType(cell)
<1>1. CellType(BlankRow)
  BY DEF CellType, BlankRow
<1>. QED
  BY <1>1 DEF Reusable

LEMMA DayTypes ==
    ASSUME NEW t \in Int
    PROVE  /\ GmtDayName(t) \in {DayNames[i] : i \in DOMAIN DayNames}
           /\ DayOfWeekKey(GmtDayName(t)) \in Days
           /\ DayOfWeekLabel(GmtDayName(t))
                \in {"weekend schedule", "friday schedule", "weekday schedule"}
<1>1. t - TzOffset \in Int
  BY TzOffsetAssumption
<1>2. \A u \in Int : ((u \div Day) % 7) + 1 \in 1..7
  BY SMT DEF Day, Hour
<1>3. DOMAIN DayNames = 1..7
  BY DEF DayNames
<1>4. GmtDayName(t) \in {DayNames[i] : i \in DOMAIN DayNames}
  BY <1>1, <1>2, <1>3 DEF GmtDayName, DayName
<1>5. DayOfWeekKey(GmtDayName(t)) \in Days
  BY DEF DayOfWeekKey, Days
<1>6. DayOfWeekLabel(GmtDayName(t)) \in {"weekend schedule", "friday schedule", "weekday schedule"}
  BY DEF DayOfWeekLabel
<1>. QED
  BY <1>4, <1>5, <1>6

-----------------------------------------------------------------------------
(* A table with every departure of a sheet.                                *)

\* The hours of a sheet lie within one day.
ServiceDay(sheet) ==
    \A i, j \in DOMAIN sheet : sheet[j] \div Hour - sheet[i] \div Hour < 24

LEMMA FoundServiceDay ==
    ASSUME NEW v \in 0..MaxVersion, NEW day, NEW text, NEW to, SheetFound(v, day, text, to)
    PROVE  ServiceDay(TimeSheet(v, day, text, to))
<1>. DEFINE station == StationOfText(text)
            direction == DirectionOfText(to)
<1>1. /\ v # NoData /\ day \in DOMAIN Content[v] /\ station \in DOMAIN Content[v][day]
      /\ direction \in DOMAIN Content[v][day][station].sheets
  BY DEF SheetFound, HasSheet, HasStation, HasDay
<1>2. v \in Versions
  BY <1>1, MaxVersionAssumption DEF Versions, NoData
<1>3. TimeSheet(v, day, text, to) = Content[v][day][station].sheets[direction]
  BY DEF TimeSheet, Sheet
<1>. HIDE DEF station, direction
<1>. QED
  BY <1>1, <1>2, <1>3, ServiceDayAssumption, Zenon DEF ServiceDay

\* Row by row the table shows every departure, and no hour twice.
LEMMA WholeSheet ==
    ASSUME NEW sheet \in Seq(Times), ServiceDay(sheet), NEW table,
           DOMAIN table = 0..(RowCount(sheet, DOMAIN sheet) - 1),
           \A row \in DOMAIN table : table[row] = RowCell(sheet, DOMAIN sheet, row)
    PROVE  /\ \A i \in DOMAIN sheet :
                 \E row \in DOMAIN table : \E k \in DOMAIN table[row].minutes :
                     HHmm(sheet[i]) = <<table[row].hour, table[row].minutes[k]>>
           /\ \A r, s \in DOMAIN table : table[r].hour = table[s].hour => r = s
<1>. DEFINE I == DOMAIN sheet
            H == HourSet(sheet, I)
<1>1. H \in SUBSET (0..47) /\ IsFiniteSet(H) /\ H \in SUBSET Int
  BY HoursOfSheet, FiniteHours
<1>2. Cardinality(H) \in Nat /\ DOMAIN table = 0..(Cardinality(H) - 1)
  BY <1>1, FS_CardinalityType DEF RowCount
<1>3. ASSUME NEW row \in DOMAIN table
      PROVE  /\ row \in Nat /\ RowInRange(sheet, I, row)
             /\ HourOfRow(H, row) \in H /\ Rank(H, HourOfRow(H, row)) = row
             /\ table[row].hour = HourOfRow(H, row) % 24
             /\ \A i \in RowPositions(sheet, I, row) : \E k \in DOMAIN table[row].minutes :
                    table[row].minutes[k] = MinuteOf(sheet[i])
  <2>0. row \in 0..(Cardinality(H) - 1)
    BY <1>2
  <2>1. row \in Nat /\ row < Cardinality(H)
    <3>. HIDE DEF H
    <3>. QED
      BY <1>2, <2>0
  <2>2. RowInRange(sheet, I, row)
    BY <2>1 DEF RowInRange
  <2>3. table[row] = RowCell(sheet, I, row)
    OBVIOUS
  <2>4. I \in SUBSET DOMAIN sheet
    OBVIOUS
  <2>. HIDE DEF I, H
  <2>. QED
    BY <2>1, <2>2, <2>3, <2>4, RowCellShows DEF H
<1>4. ASSUME NEW i \in DOMAIN sheet
      PROVE  \E row \in DOMAIN table : \E k \in DOMAIN table[row].minutes :
                 HHmm(sheet[i]) = <<table[row].hour, table[row].minutes[k]>>
  <2>. DEFINE h == sheet[i] \div Hour
              row == Rank(H, h)
  <2>1. h \in H
    BY DEF HourSet
  <2>. HIDE DEF H
  <2>2. row \in DOMAIN table
    BY <1>1, <1>2, <2>1, RankBelow
  <2>3. HourOfRow(H, row) \in H /\ Rank(H, HourOfRow(H, row)) = row
    BY <1>3, <2>2
  <2>4. HourOfRow(H, row) = h
    <3>. DEFINE g == HourOfRow(H, row)
    <3>1. g \in H /\ h \in H /\ Rank(H, g) = Rank(H, h)
      BY <2>1, <2>3
    <3>. HIDE DEF g, h
    <3>2. g = h
      BY <1>1, <3>1, RankUnique
    <3>. QED
      BY <3>2 DEF g
  <2>5. i \in RowPositions(sheet, I, row)
    BY <2>4 DEF RowPositions, H
  <2>6. PICK k \in DOMAIN table[row].minutes : table[row].minutes[k] = MinuteOf(sheet[i])
    BY <1>3, <2>2, <2>5
  <2>7. table[row].hour = h % 24
    BY <1>3, <2>2, <2>4
  <2>8. HHmm(sheet[i]) = <<table[row].hour, table[row].minutes[k]>>
    BY <2>6, <2>7 DEF HHmm, MinuteOf
  <2>. QED
    BY <2>2, <2>8
<1>5. ASSUME NEW r \in DOMAIN table, NEW s \in DOMAIN table, table[r].hour = table[s].hour
      PROVE  r = s
  <2>. DEFINE g == HourOfRow(H, r)
              h == HourOfRow(H, s)
  <2>1. g \in H /\ h \in H /\ Rank(H, g) = r /\ Rank(H, h) = s /\ g % 24 = h % 24
    BY <1>3, <1>5
  <2>2. PICK i \in DOMAIN sheet, j \in DOMAIN sheet :
            g = sheet[i] \div Hour /\ h = sheet[j] \div Hour
    BY <2>1 DEF HourSet
  <2>3. g - h < 24 /\ h - g < 24
    BY <2>2 DEF ServiceDay
  <2>4. g \in 0..47 /\ h \in 0..47
    BY <1>1, <2>1
  <2>. HIDE DEF g, h
  <2>5. g = h
    BY <2>1, <2>3, <2>4
  <2>. QED
    BY <2>1, <2>5
<1>. QED
  BY <1>4, <1>5

=============================================================================
