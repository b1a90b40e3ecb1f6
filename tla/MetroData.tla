------------------------------ MODULE MetroData ------------------------------
(***************************************************************************)
(* The schedule dictionary the app downloads and caches, and the pure      *)
(* computations its presenters make on it: the look-up chain of the        *)
(* guards, the weekday switch, the hour rows of a table and the next       *)
(* train.  Times of a time sheet are seconds from the start of the service *)
(* day, so a train after midnight has a time above 86400.                  *)
(***************************************************************************)
EXTENDS Integers, Sequences, FiniteSets

CONSTANTS
    MaxVersion,   \* number of schedules the server publishes, one after another
    Content,      \* Content[v]: the dictionary published as version v
    TzOffset      \* seconds the device's time zone is ahead of GMT

(* Enumerations.  A key of the dictionary is the name of an enum case; a    *)
(* text on the screen is its raw value.                                    *)
Days == {"weekday", "friday", "weekend"}
Directions == {"toKovalskayaTimeSheet", "toUbileynayaTimeSheet"}
Stations == {"kovalskaya", "vokzalnaya", "bogushevicha", "ubileynaya"}

\* StationNamesNumEnum: the case whose raw value is the row (0..3).
StationOfRow == [row \in 0..3 |->
    <<"kovalskaya", "vokzalnaya", "bogushevicha", "ubileynaya">>[row + 1]]

\* StationNamesEnum: the text of each case, and init?(rawValue:).
StationText ==
    [kovalskaya   |-> "Kovalskaya sloboda",
     vokzalnaya   |-> "Vokzalnaya",
     bogushevicha |-> "Pl. Frantishka Bogushevicha",
     ubileynaya   |-> "Yubileynaya ploshchad"]

\* FireBaseFieldsEnum: the titles of the direction buttons, and init?(rawValue:).
DirectionText ==
    [toKovalskayaTimeSheet |-> "Na Kovalskuyu",
     toUbileynayaTimeSheet |-> "Na Yubileynuyu"]
DirectionOfText(text) == CHOOSE d \in Directions : DirectionText[d] = text

IsStationText(text) == \E s \in Stations : StationText[s] = text
StationOfText(text) == CHOOSE s \in Stations : StationText[s] = text

\* DayTypeEnum: the text of each case, and init?(rawValue:).
DayTypeText ==
    [weekday |-> "Budnie dni", weekend |-> "Vykhodnye dni", friday |-> "Pyatnitsa"]
DayOfTypeText(text) == CHOOSE day \in Days : DayTypeText[day] = text

-----------------------------------------------------------------------------
(* The dictionary.  Content[v][day][station] is a record with the text the  *)
(* server gives the station and its time sheets; days, stations and time   *)
(* sheets may be missing, as in a dictionary of type [String:Any].         *)

NoData == 0                \* no "allData" in UserDefaults
Versions == 1..MaxVersion

HasDay(v, day) == v # NoData /\ day \in DOMAIN Content[v]

HasStation(v, day, station) ==
    HasDay(v, day) /\ station \in DOMAIN Content[v][day]

HasSheet(v, day, station, direction) ==
    /\ HasStation(v, day, station)
    /\ direction \in DOMAIN Content[v][day][station].sheets

Sheet(v, day, station, direction) ==
    Content[v][day][station].sheets[direction]

\* The guards shared by the presenters of the time sheets, which are given the
\* texts of a station and of a direction.
SheetFound(v, day, text, to) ==
    /\ IsStationText(text)
    /\ HasSheet(v, day, StationOfText(text), DirectionOfText(to))
TimeSheet(v, day, text, to) ==
    Sheet(v, day, StationOfText(text), DirectionOfText(to))

\* The texts a station can have on the screen.
Texts == UNION {UNION {{Content[v][day][s].name : s \in DOMAIN Content[v][day]} :
                          day \in DOMAIN Content[v]} : v \in Versions}

StationCount(v, day) == Cardinality(DOMAIN Content[v][day])

ASSUME MaxVersionAssumption == MaxVersion \in Nat \ {0}

ASSUME ContentAssumption ==
    \A v \in Versions : \A day \in DOMAIN Content[v] :
        IsFiniteSet(DOMAIN Content[v][day])

ASSUME TzOffsetAssumption == TzOffset \in Int

-----------------------------------------------------------------------------
(* Clock.  An instant is a number of seconds of local civil time, counted   *)
(* from a Thursday midnight like the Unix epoch.                           *)

Hour == 60 * 60
Day == 24 * Hour

\* decoderDt(format: "EEEE"): the formatter's time zone is GMT.
DayNames == <<"Thursday", "Friday", "Saturday", "Sunday",
              "Monday", "Tuesday", "Wednesday">>
DayName(seconds) == DayNames[((seconds \div Day) % 7) + 1]
GmtDayName(now) == DayName(now - TzOffset)

\* The switch of initViewControllers, which chooses the schedule.
DayOfWeekKey(name) ==
    CASE name \in {"Saturday", "Sunday"} -> "weekend"
      [] name = "Friday"                 -> "friday"
      [] OTHER                           -> "weekday"

\* The switch of checkDayOfWeek, which chooses the heading.
DayOfWeekLabel(name) ==
    CASE name \in {"Saturday", "Sunday"} -> "weekend schedule"
      [] name = "Friday"                 -> "friday schedule"
      [] OTHER                           -> "weekday schedule"

\* Int(Date()) - Int(startOfDay(Date())): two readings of the clock.  When
\* midnight falls between them the difference is -1.
CurrentTimeFromStartDay(now) ==
    {now % Day} \cup (IF now % Day = 0 THEN {-1} ELSE {})

\* decoderDt(format: "HH:mm") of a number of seconds.
HHmm(seconds) == <<(seconds \div Hour) % 24, (seconds % Hour) \div 60>>

-----------------------------------------------------------------------------
(* Time sheets.  What the code expects of the server's: hourModify takes off *)
(* 24 hours once, and the hours of a table must differ in its text too;      *)
(* setNextTime takes the first later departure of the sheet for the next one. *)

Times == 0..(2 * Day - 1)

ASSUME SheetsAssumption ==
    \A v \in Versions : \A day \in DOMAIN Content[v] :
        \A station \in DOMAIN Content[v][day] :
            \A direction \in DOMAIN Content[v][day][station].sheets :
                Content[v][day][station].sheets[direction] \in Seq(Times)

ASSUME AscendingAssumption ==
    \A v \in Versions : \A day \in DOMAIN Content[v] :
        \A station \in DOMAIN Content[v][day] :
            \A direction \in DOMAIN Content[v][day][station].sheets :
                LET sheet == Content[v][day][station].sheets[direction]
                IN  \A i, j \in DOMAIN sheet : i <= j => sheet[i] <= sheet[j]

ASSUME ServiceDayAssumption ==
    \A v \in Versions : \A day \in DOMAIN Content[v] :
        \A station \in DOMAIN Content[v][day] :
            \A direction \in DOMAIN Content[v][day][station].sheets :
                LET sheet == Content[v][day][station].sheets[direction]
                IN  \A i, j \in DOMAIN sheet :
                        sheet[j] \div Hour - sheet[i] \div Hour < 24

-----------------------------------------------------------------------------
(* Tables.  A table shows the departures of a set I of positions of a time  *)
(* sheet, one row per hour.                                                *)

\* hoursArrayNext: the positions of the departures after the time cur.
Upcoming(sheet, cur) == {i \in DOMAIN sheet : sheet[i] > cur}

\* Set(hoursArray), and its sorted array indexed by row.
HourSet(sheet, I) == {sheet[i] \div Hour : i \in I}
HourOfRow(hours, row) ==
    CHOOSE h \in hours : Cardinality({g \in hours : g < h}) = row

\* Mutation of HourShown: the comparison is off by one.
HourShownOffByOne(h) == IF h > 24 THEN h - 24 ELSE h

\* hourModify
HourShown(h) == IF h > 23 THEN h - 24 ELSE h

\* The positions behind the minutes of a row, and what the cell shows:
\* the hour and the minutes in the order of the time sheet.
RowPositions(sheet, I, row) ==
    {i \in I : sheet[i] \div Hour = HourOfRow(HourSet(sheet, I), row)}

RowCell(sheet, I, row) ==
    LET P == RowPositions(sheet, I, row)
    IN  [hour    |-> HourShown(HourOfRow(HourSet(sheet, I), row)),
         minutes |-> [k \in 1..Cardinality(P) |->
             LET i == CHOOSE j \in P : Cardinality({l \in P : l <= j}) = k
             IN  (sheet[i] % Hour) \div 60]]

\* Mutation of RowCount: hoursArray.count, with the duplicates.
RowCountWithoutSet(sheet, I) == Cardinality(I)

\* hours.count, the number of rows of the table.
RowCount(sheet, I) == Cardinality(HourSet(sheet, I))

\* hours[row] and minutesAll[row] are in range; both subscripts trap otherwise.
RowInRange(sheet, I, row) == row < Cardinality(HourSet(sheet, I))

\* A cell before its first configureCell, and a table after a row was drawn.
BlankRow == [hour |-> -1, minutes |-> <<>>]
Drawn(table, row, content) ==
    [r \in DOMAIN table \cup {row} |-> IF r = row THEN content ELSE table[r]]
\* What a cell dequeued for reuse may display.
Reusable(table) == {BlankRow} \cup {table[r] : r \in DOMAIN table}

-----------------------------------------------------------------------------
(* Next train, from the time cur read from the clock (setNextTime).         *)

NoTime == <<>>             \* the label still shows "--:--"
AfterMidnight == 25 * 60   \* until 00:25 the service day is yesterday's

\* Mutation of ServiceTime: without the condition for the time after midnight.
ServiceTimeUnshifted(cur) == cur

ServiceTime(cur) == IF cur < AfterMidnight THEN cur + Day ELSE cur

\* Mutation of NextTime: a train that leaves now is still announced.
NextTimeOrNow(sheet, cur) ==
    LET t     == ServiceTime(cur)
        later == {i \in DOMAIN sheet : sheet[i] >= t}
        first == CHOOSE i \in later : \A j \in later : i <= j
    IN  IF later = {} THEN NoTime
        ELSE HHmm(IF t > Day THEN sheet[first] - Day ELSE sheet[first])

NextTime(sheet, cur) ==
    LET t     == ServiceTime(cur)
        later == Upcoming(sheet, t)
        first == CHOOSE i \in later : \A j \in later : i <= j
    IN  IF later = {} THEN NoTime
        ELSE HHmm(IF t > Day THEN sheet[first] - Day ELSE sheet[first])
=============================================================================
