------------------------------ MODULE ThirdLine ------------------------------
(***************************************************************************)
(* The start screen and the download behind it: SceneDelegate and          *)
(* TabBarControllerRouter build a ThirdLineViewController, whose presenter *)
(* asks FireBaseManager for the whole schedule, stores it in UserDefaults, *)
(* and reports the outcome in an alert; the alert's only button retries or *)
(* refreshes the table.  The process may be killed at any step, and the    *)
(* system may release the scene and connect a new one in the same process: *)
(* every connection creates a new view controller with its own download,   *)
(* while the old ones stay alive in their retain cycles and their          *)
(* completions still run.                                                  *)
(***************************************************************************)
EXTENDS MetroData

CONSTANTS
    MaxScreens,   \* scene connections in one process, a bound
    MaxRows,      \* rows the table can have, a bound on the dictionary
    Failure,      \* the answer of getData with error # nil
    Malformed     \* the answer whose snapshot.value is not a [String:Any]

ASSUME MaxScreensAssumption == MaxScreens \in Nat \ {0}

ASSUME MaxRowsAssumption ==
    /\ MaxRows \in Nat
    /\ \A v \in Versions : \A day \in DOMAIN Content[v] :
           StationCount(v, day) <= MaxRows

ASSUME AnswersAssumption ==
    /\ Failure # Malformed
    /\ Versions \cap {Failure, Malformed} = {}

VARIABLES
    published,    \* the version of the schedule the server now holds
    today,        \* the key of the current GMT day
    disk,         \* "allData" in the persistent store
    allData,      \* "allData" as the running process reads it
    dayOfWeek,    \* "dayOfWeek" in UserDefaults
    screen,       \* current ThirdLineViewController, 0 when there is no process
    numberOfRow,  \* its number of rows
    cells,        \* what the cell of each row displays
    inflight,     \* inflight[s]: getData calls of screen s without an answer
    mainQueue,    \* completions dispatched to the main queue
    presented,    \* what the root view controller presents
    timePushed,   \* a TimeViewController is on top of the current screen
    ended,        \* history: how the download of the current screen ended
    savedBy       \* history: the screen that stored allData, 0 for the disk

serverVars == <<published, today>>
storeVars == <<disk, allData, dayOfWeek, savedBy>>
viewVars == <<screen, numberOfRow, cells, timePushed>>
vars == <<serverVars, storeVars, viewVars, inflight, mainQueue, presented, ended>>

Screens == 1..MaxScreens
Rows == 0..(MaxRows - 1)

Answers == Versions \cup {Failure, Malformed}
Completions == [screen : Screens, result : Answers]

\* A cell before its first successful configureCell.
BlankCell == [name |-> "Name", dirs |-> {}]

CellContents == {BlankCell} \cup [name : Texts, dirs : SUBSET Directions]

TypeOK ==
    /\ published \in Versions
    /\ today \in Days
    /\ disk \in 0..MaxVersion
    /\ allData \in 0..MaxVersion
    /\ dayOfWeek \in Days
    /\ screen \in 0..MaxScreens
    /\ numberOfRow \in 0..MaxRows
    /\ cells \in [Rows -> CellContents]
    /\ inflight \in [Screens -> Nat]
    /\ mainQueue \in Seq(Completions)
    /\ presented \in {"none", "error", "success", "full"}
    /\ timePushed \in BOOLEAN
    /\ ended \in {"no", "ok", "malformed", "lost", "refused"}
    /\ savedBy \in 0..MaxScreens

-----------------------------------------------------------------------------
\* Mutation of SetNumberOfRow: one row too many.
SetNumberOfRowOffByOne(v, day, old) ==
    IF HasDay(v, day) THEN StationCount(v, day) + 1 ELSE old

(* The presenter's setNumberOfRow: without the day in the dictionary the    *)
(* row count stays as it was.                                              *)
SetNumberOfRow(v, day, old) ==
    IF HasDay(v, day) THEN StationCount(v, day) ELSE old

\* No process: nothing of the screen is left, the next process reads the disk.
NoProcess ==
    /\ screen' = 0
    /\ numberOfRow' = 0
    /\ cells' = [row \in Rows |-> BlankCell]
    /\ inflight' = [s \in Screens |-> 0]
    /\ mainQueue' = <<>>
    /\ presented' = "none"
    /\ timePushed' = FALSE
    /\ ended' = "no"
    /\ savedBy' = 0

Init ==
    /\ published = 1
    /\ today \in Days
    /\ disk \in {NoData, 1}
    /\ allData = disk
    /\ dayOfWeek \in Days
    /\ screen = 0
    /\ numberOfRow = 0
    /\ cells = [row \in Rows |-> BlankCell]
    /\ inflight = [s \in Screens |-> 0]
    /\ mainQueue = <<>>
    /\ presented = "none"
    /\ timePushed = FALSE
    /\ ended = "no"
    /\ savedBy = 0

\* Mutation of ConnectScene: the cache is cleared before the download starts.
ConnectSceneClearing ==
    /\ screen < MaxScreens
    /\ screen' = screen + 1
    /\ dayOfWeek' = today
    /\ inflight' = [inflight EXCEPT ![screen + 1] = @ + 1]
    /\ numberOfRow' = 0
    /\ cells' = [row \in Rows |-> BlankCell]
    /\ presented' = "none"
    /\ timePushed' = FALSE
    /\ ended' = "no"
    /\ allData' = NoData
    /\ UNCHANGED <<serverVars, disk, savedBy, mainQueue>>

\* Mutation of ConnectScene: the new screen takes over the cells of the old one.
ConnectSceneKeepingCells ==
    /\ screen < MaxScreens
    /\ screen' = screen + 1
    /\ dayOfWeek' = today
    /\ inflight' = [inflight EXCEPT ![screen + 1] = @ + 1]
    /\ numberOfRow' = SetNumberOfRow(allData, today, 0)
    /\ presented' = "none"
    /\ timePushed' = FALSE
    /\ ended' = "no"
    /\ UNCHANGED <<serverVars, disk, allData, savedBy, mainQueue, cells>>

(* scene(_:willConnectTo:), initViewControllers and, when the window becomes *)
(* visible, viewDidLoad: the day is stored, the download starts and the     *)
(* table is sized from the cached schedule.  At launch screen is 0; a later *)
(* connection replaces the window of the previous one.                     *)
ConnectScene ==
    /\ screen < MaxScreens
    /\ screen' = screen + 1
    /\ dayOfWeek' = today
    /\ inflight' = [inflight EXCEPT ![screen + 1] = @ + 1]
    /\ numberOfRow' = SetNumberOfRow(allData, today, 0)
    /\ cells' = [row \in Rows |-> BlankCell]
    /\ presented' = "none"
    /\ timePushed' = FALSE
    /\ ended' = "no"
    /\ UNCHANGED <<serverVars, disk, allData, savedBy, mainQueue>>

\* Mutation of Configurable: the rows of StationNamesNumEnum start at one.
ConfigurableFromOne(row) ==
    /\ row \in DOMAIN StationOfRow \ {0}
    /\ HasStation(allData, dayOfWeek, StationOfRow[row])
    /\ Content[allData][dayOfWeek][StationOfRow[row]].complete

(* tableView(_:cellForRowAt:) with configureThirdLineTableViewCell: when a   *)
(* guard fails the dequeued cell keeps what it displayed before.           *)
Configurable(row) ==
    /\ row \in DOMAIN StationOfRow
    /\ HasStation(allData, dayOfWeek, StationOfRow[row])
    /\ Content[allData][dayOfWeek][StationOfRow[row]].complete

ConfiguredCell(row) ==
    LET station == Content[allData][dayOfWeek][StationOfRow[row]]
    IN  [name |-> station.name, dirs |-> DOMAIN station.sheets \cap Directions]

CellForRowAt(row) ==
    /\ screen # 0
    /\ ~timePushed
    /\ row < numberOfRow
    /\ \/ /\ Configurable(row)
          /\ cells' = [cells EXCEPT ![row] = ConfiguredCell(row)]
       \/ /\ ~Configurable(row)
          /\ \E reused \in {BlankCell} \cup {cells[r] : r \in Rows} :
                 cells' = [cells EXCEPT ![row] = reused]
    /\ UNCHANGED <<serverVars, storeVars, screen, numberOfRow, timePushed,
                   inflight, mainQueue, presented, ended>>

-----------------------------------------------------------------------------
(* The server and the Firebase client.                                     *)

Publish ==
    /\ published < MaxVersion
    /\ published' = published + 1
    /\ UNCHANGED <<today, storeVars, viewVars, inflight, mainQueue, presented, ended>>

DayPasses ==
    /\ today' \in Days
    /\ UNCHANGED <<published, storeVars, viewVars, inflight, mainQueue, presented, ended>>

\* getData is answered; its completion is dispatched to the main queue.
Answer(s, result) ==
    /\ inflight[s] > 0
    /\ inflight' = [inflight EXCEPT ![s] = @ - 1]
    /\ mainQueue' = Append(mainQueue, [screen |-> s, result |-> result])
    /\ UNCHANGED <<serverVars, storeVars, viewVars, presented, ended>>

\* The connection drops after the request was sent: the client forgets the
\* callback and does not send the request again.
LoseAnswer(s) ==
    /\ inflight[s] > 0
    /\ inflight' = [inflight EXCEPT ![s] = @ - 1]
    /\ ended' = IF s = screen THEN "lost" ELSE ended
    /\ UNCHANGED <<serverVars, storeVars, viewVars, mainQueue, presented>>

\* UserDefaults writes to the persistent store after set(_:forKey:) returned.
Flush ==
    /\ screen # 0
    /\ disk # allData
    /\ disk' = allData
    /\ UNCHANGED <<serverVars, allData, dayOfWeek, savedBy, viewVars, inflight,
                   mainQueue, presented, ended>>

Kill ==
    /\ screen # 0
    /\ NoProcess
    /\ allData' = disk
    /\ UNCHANGED <<serverVars, disk, dayOfWeek>>

-----------------------------------------------------------------------------
(* Completions of downloadAllData, on the main queue.                       *)

(* view.present(alert): refused when the root already presents something or *)
(* the screen's window is gone; below a pushed view controller UIKit may   *)
(* show it or refuse it.                                                   *)
Present(s, alert) ==
    \/ /\ s = screen
       /\ presented = "none"
       /\ presented' = alert
       /\ UNCHANGED ended
    \/ /\ s # screen \/ presented # "none" \/ timePushed
       /\ ended' = IF s = screen THEN "refused" ELSE ended
       /\ UNCHANGED presented

\* Mutations of DeliverFailure: the presenter retries while the alert is still up,
\* or fails without an alert.
DeliverFailureRetrying ==
    /\ mainQueue # <<>>
    /\ Head(mainQueue).result = Failure
    /\ mainQueue' = Tail(mainQueue)
    /\ Present(Head(mainQueue).screen, "error")
    /\ inflight' = [inflight EXCEPT ![Head(mainQueue).screen] = @ + 1]
    /\ UNCHANGED <<serverVars, storeVars, viewVars>>

DeliverFailureSilent ==
    /\ mainQueue # <<>>
    /\ Head(mainQueue).result = Failure
    /\ mainQueue' = Tail(mainQueue)
    /\ UNCHANGED <<serverVars, storeVars, viewVars, inflight, presented, ended>>

DeliverFailure ==
    /\ mainQueue # <<>>
    /\ Head(mainQueue).result = Failure
    /\ mainQueue' = Tail(mainQueue)
    /\ Present(Head(mainQueue).screen, "error")
    /\ UNCHANGED <<serverVars, storeVars, viewVars, inflight>>

\* The guard in getAllData returns without calling the completion.
DeliverMalformed ==
    /\ mainQueue # <<>>
    /\ Head(mainQueue).result = Malformed
    /\ mainQueue' = Tail(mainQueue)
    /\ ended' = IF Head(mainQueue).screen = screen THEN "malformed" ELSE ended
    /\ UNCHANGED <<serverVars, storeVars, viewVars, inflight, presented>>

\* Mutation of DeliverData: the completions run on a queue that does not keep
\* their order.
DeliverDataUnordered ==
    \E i \in DOMAIN mainQueue :
        /\ mainQueue[i].result \in Versions
        /\ mainQueue' = SubSeq(mainQueue, 1, i - 1)
                        \o SubSeq(mainQueue, i + 1, Len(mainQueue))
        /\ allData' = mainQueue[i].result
        /\ savedBy' = mainQueue[i].screen
        /\ Present(mainQueue[i].screen, "success")
        /\ UNCHANGED <<serverVars, disk, dayOfWeek, viewVars, inflight>>

DeliverData ==
    /\ mainQueue # <<>>
    /\ Head(mainQueue).result \in Versions
    /\ mainQueue' = Tail(mainQueue)
    /\ allData' = Head(mainQueue).result
    /\ savedBy' = Head(mainQueue).screen
    /\ Present(Head(mainQueue).screen, "success")
    /\ UNCHANGED <<serverVars, disk, dayOfWeek, viewVars, inflight>>

-----------------------------------------------------------------------------
(* The user.                                                               *)

\* Mutation of TapRetry: the button has no handler.
TapRetryForgetting ==
    /\ presented = "error"
    /\ presented' = "none"
    /\ UNCHANGED <<serverVars, storeVars, viewVars, inflight, mainQueue, ended>>

\* The only button of showErrorAlert.
TapRetry ==
    /\ presented = "error"
    /\ presented' = "none"
    /\ inflight' = [inflight EXCEPT ![screen] = @ + 1]
    /\ UNCHANGED <<serverVars, storeVars, viewVars, mainQueue, ended>>

\* Mutation of TapOk: the button has no handler.
TapOkForgetting ==
    /\ presented = "success"
    /\ presented' = "none"
    /\ ended' = "ok"
    /\ UNCHANGED <<serverVars, storeVars, viewVars, inflight, mainQueue>>

\* The only button of showSuccessAlert.
TapOk ==
    /\ presented = "success"
    /\ presented' = "none"
    /\ numberOfRow' = SetNumberOfRow(allData, dayOfWeek, numberOfRow)
    /\ ended' = "ok"
    /\ UNCHANGED <<serverVars, storeVars, screen, cells, timePushed, inflight, mainQueue>>

\* A direction button of a cell, which does nothing before configureCell and is
\* hidden without the time sheet.
ButtonPressed(row, direction) ==
    /\ presented = "none"
    /\ ~timePushed
    /\ row < numberOfRow
    /\ direction \in cells[row].dirs

\* Mutation of OpenTimeVC: the button refreshes the schedule as well.
OpenTimeVCRefreshing(row, direction) ==
    /\ ButtonPressed(row, direction)
    /\ timePushed' = TRUE
    /\ inflight' = [inflight EXCEPT ![screen] = @ + 1]
    /\ UNCHANGED <<serverVars, storeVars, screen, numberOfRow, cells, mainQueue,
                   presented, ended>>

\* router.openTimeVC pushes the time screen.
OpenTimeVC(row, direction) ==
    /\ ButtonPressed(row, direction)
    /\ timePushed' = TRUE
    /\ UNCHANGED <<serverVars, storeVars, screen, numberOfRow, cells, inflight,
                   mainQueue, presented, ended>>

Back ==
    /\ presented = "none"
    /\ timePushed
    /\ timePushed' = FALSE
    /\ UNCHANGED <<serverVars, storeVars, screen, numberOfRow, cells, inflight,
                   mainQueue, presented, ended>>

\* TimeRouter.openWeekdayVC presents the full schedule as a sheet.
OpenFullSchedule ==
    /\ presented = "none"
    /\ timePushed
    /\ presented' = "full"
    /\ UNCHANGED <<serverVars, storeVars, viewVars, inflight, mainQueue, ended>>

DismissFullSchedule ==
    /\ presented = "full"
    /\ presented' = "none"
    /\ UNCHANGED <<serverVars, storeVars, viewVars, inflight, mainQueue, ended>>

-----------------------------------------------------------------------------
Next ==
    \/ ConnectScene \/ Flush \/ Kill
    \/ Publish \/ DayPasses
    \/ \E s \in Screens :
          \/ LoseAnswer(s)
          \/ \E result \in {published, Failure, Malformed} : Answer(s, result)
    \/ DeliverFailure \/ DeliverMalformed \/ DeliverData
    \/ TapRetry \/ TapOk
    \/ \E row \in Rows :
          \/ CellForRowAt(row)
          \/ \E direction \in Directions : OpenTimeVC(row, direction)
    \/ Back \/ OpenFullSchedule \/ DismissFullSchedule

Spec == Init /\ [][Next]_vars
-----------------------------------------------------------------------------
(* Properties.                                                             *)

QueuedScreens == {mainQueue[i].screen : i \in DOMAIN mainQueue}
QueuedOnce ==
    \A i, j \in DOMAIN mainQueue : mainQueue[i].screen = mainQueue[j].screen => i = j
Alerting == presented \in {"error", "success"}

\* A screen never runs two downloads at once, however connections, answers and
\* retries interleave: one getData call in flight, or one completion queued, or
\* the alert of the current screen (downloadAllData from viewDidLoad and Retry).
OneDownloadPerScreen ==
    /\ \A s \in Screens : inflight[s] <= 1 /\ (s \in QueuedScreens => inflight[s] = 0)
    /\ QueuedOnce
    /\ Alerting => inflight[screen] = 0 /\ screen \notin QueuedScreens

\* The download of the current screen is never forgotten by the presenter: until
\* it ends it is in flight, queued or reported by an alert whose button goes on.
\* It can end silently only by a malformed answer, a lost answer or an alert
\* UIKit refused to present.
DownloadIsAccountedFor ==
    screen # 0 /\ ended = "no" =>
        inflight[screen] = 1 \/ screen \in QueuedScreens \/ Alerting

\* The Retry alert can be lost to another presentation only when a schedule is
\* cached already: a first installation is always left with a way to retry.
AlertRefusedOnlyWithSchedule == ended = "refused" => allData # NoData

\* The table is sized for another schedule than the stored one only until the
\* success alert is acknowledged, unless that alert was refused or the download
\* of an earlier scene stored the schedule behind this screen's back.
RowsFollowStore ==
    /\ screen # 0
    /\ HasDay(allData, dayOfWeek)
    /\ numberOfRow # StationCount(allData, dayOfWeek)
    => presented = "success" \/ ended = "refused" \/ savedBy \notin {0, screen}

\* A running process never replaces its schedule by an older one, even when the
\* downloads of two scenes overlap (completions run in the order of the answers).
NeverOlder == [][screen # 0 /\ screen' # 0 => allData' >= allData]_vars

\* Over kills, lost writes and reconnections the persistent store only ever moves
\* forward through published schedules.
Cache == INSTANCE ScheduleCache WITH cache <- disk
CacheSpec == Cache!Spec

\* A row whose station every version publishes for the stored day displays that
\* station or nothing, whatever the reused cells of the other rows held and
\* whenever the schedule was replaced (cellForRowAt leaves a cell as it was when
\* a guard fails).
AlwaysPublished(row) ==
    \A v \in Versions :
        /\ HasStation(v, dayOfWeek, StationOfRow[row])
        /\ Content[v][dayOfWeek][StationOfRow[row]].complete
        /\ Content[v][dayOfWeek][StationOfRow[row]].name = StationText[StationOfRow[row]]

CellShowsItsStation ==
    \A row \in Rows \cap DOMAIN StationOfRow :
        AlwaysPublished(row) /\ cells[row] # BlankCell =>
            cells[row].name = StationText[StationOfRow[row]]

\* showSuccessAlert: "the current schedule is loaded": from then on no two rows show the
\* same station, although a row whose guard fails keeps what its cell showed elsewhere.
LoadedTableShowsEachStationOnce ==
    ended = "ok" /\ savedBy = screen =>
        \A i, j \in Rows :
            /\ i < j /\ j < numberOfRow
            /\ BlankCell \notin {cells[i], cells[j]}
            => cells[i].name # cells[j].name

-----------------------------------------------------------------------------
(* Fairness.  The Firebase client answers or loses every call and the main  *)
(* queue is served.  For retrying to end, the user must go on tapping the   *)
(* only button of the alert that blocks the app, and the network must come  *)
(* back often enough to answer with a schedule at last.                     *)
Fairness ==
    /\ \A s \in Screens :
           WF_vars(LoseAnswer(s) \/ \E r \in {published, Failure, Malformed} : Answer(s, r))
    /\ WF_vars(DeliverFailure \/ DeliverMalformed \/ DeliverData)

FairSpec == Spec /\ Fairness

NetworkRecovers ==
    /\ WF_vars(TapRetry \/ TapOk)
    /\ \A s \in Screens : SF_vars(Answer(s, published))

\* Every download is reported to the user or ends silently in one of the known
\* ways; no failure leaves the screen waiting for ever.
DownloadReported ==
    \A s \in Screens :
        (screen = s /\ ended = "no") ~> (screen # s \/ ended # "no" \/ Alerting)

\* With a network that works again and again and a user who taps the alert's
\* button, retrying ends.
RetryingEnds ==
    NetworkRecovers => \A s \in Screens : (screen = s) ~> (screen # s \/ ended # "no")
=============================================================================
