--------------------------- MODULE ThirdLineProofs ---------------------------
(***************************************************************************)
(* Proofs about ThirdLine, for every dictionary and any number of scenes.  *)
(* The properties of the downloads are not inductive one by one: they hold *)
(* together with the facts below.                                          *)
(***************************************************************************)
EXTENDS ThirdLine, FiniteSetTheorems, SequenceTheorems, TLAPS

\* Screens not created yet have no download.
FutureScreens == \A s \in Screens : s > screen => inflight[s] = 0 /\ s \notin QueuedScreens

\* Without a process nothing is on display.
NoProcessState ==
    screen = 0 => presented = "none" /\ numberOfRow = 0 /\ ~timePushed /\ ended = "no"

\* What only a stored schedule makes possible.
NeedsSchedule ==
    allData = NoData =>
        numberOfRow = 0 /\ ~timePushed /\ presented \in {"none", "error"}

\* A download that ended has left nothing behind.
EndedIsOver ==
    ended # "no" => inflight[screen] = 0 /\ screen \notin QueuedScreens /\ ~Alerting

\* The disk is behind the process, the process behind the queued completions,
\* which are in the order of the answers, and all are behind the server.
Ordered ==
    /\ disk <= allData
    /\ allData <= published
    /\ \A i \in DOMAIN mainQueue : mainQueue[i].result \in Versions =>
          allData <= mainQueue[i].result /\ mainQueue[i].result <= published
    /\ \A i, j \in DOMAIN mainQueue :
          /\ i < j
          /\ mainQueue[i].result \in Versions
          /\ mainQueue[j].result \in Versions
          => mainQueue[i].result <= mainQueue[j].result

\* Where the downloads are, and what the screen shows of them.
Downloads ==
    /\ FutureScreens
    /\ EndedIsOver
    /\ OneDownloadPerScreen
    /\ DownloadIsAccountedFor

Display ==
    /\ NoProcessState
    /\ NeedsSchedule
    /\ AlertRefusedOnlyWithSchedule
    /\ RowsFollowStore

DownloadInv == TypeOK /\ Downloads /\ Display

OrderInv == TypeOK /\ Ordered

-----------------------------------------------------------------------------
(* Types.                                                                  *)

\* The row count setNumberOfRow computes is within the bound on the dictionary.
LEMMA RowCountType ==
    ASSUME NEW v \in 0..MaxVersion, NEW day \in Days, NEW old \in 0..MaxRows
    PROVE  SetNumberOfRow(v, day, old) \in 0..MaxRows
<1>1. CASE HasDay(v, day)
  <2>1. v \in Versions /\ day \in DOMAIN Content[v]
    BY <1>1, MaxVersionAssumption DEF HasDay, Versions, NoData
  <2>2. StationCount(v, day) \in Nat
    BY <2>1, ContentAssumption, FS_CardinalityType DEF StationCount
  <2>3. StationCount(v, day) <= MaxRows
    BY <2>1, MaxRowsAssumption
  <2>. QED
    BY <1>1, <2>2, <2>3, MaxRowsAssumption DEF SetNumberOfRow
<1>2. CASE ~HasDay(v, day)
  BY <1>2 DEF SetNumberOfRow
<1>. QED
  BY <1>1, <1>2

\* What configureCell displays is the text and the directions of some station.
LEMMA ConfiguredCellType ==
    ASSUME allData \in 0..MaxVersion, NEW row \in Rows, Configurable(row)
    PROVE  ConfiguredCell(row) \in CellContents
<1>. DEFINE st == StationOfRow[row]
<1>1. allData \in Versions /\ dayOfWeek \in DOMAIN Content[allData]
      /\ st \in DOMAIN Content[allData][dayOfWeek]
  BY MaxVersionAssumption DEF Configurable, HasStation, HasDay, Versions, NoData
<1>2. Content[allData][dayOfWeek][st].name \in Texts
  BY <1>1 DEF Texts
<1>. QED
  BY <1>2 DEF ConfiguredCell, CellContents

LEMMA TypeInit == Init => TypeOK
<1>. SUFFICES ASSUME Init PROVE TypeOK
  OBVIOUS
<1>1. published \in Versions /\ disk \in 0..MaxVersion
  BY MaxVersionAssumption DEF Init, Versions, NoData
<1>2. cells \in [Rows -> CellContents] /\ inflight \in [Screens -> Nat]
  BY DEF Init, CellContents
<1>3. mainQueue \in Seq(Completions)
  BY DEF Init
<1>4. /\ today \in Days /\ dayOfWeek \in Days /\ allData = disk
      /\ presented = "none" /\ timePushed = FALSE /\ ended = "no"
  BY DEF Init
<1>5. screen \in 0..MaxScreens /\ numberOfRow \in 0..MaxRows /\ savedBy \in 0..MaxScreens
  BY MaxRowsAssumption, MaxScreensAssumption DEF Init
<1>. QED
  BY <1>1, <1>2, <1>3, <1>4, <1>5 DEF TypeOK

LEMMA TypeStep == TypeOK /\ [Next]_vars => TypeOK'
<1>. SUFFICES ASSUME TypeOK, [Next]_vars PROVE TypeOK'
  OBVIOUS
<1>. USE MaxVersionAssumption, MaxRowsAssumption, MaxScreensAssumption
<1>1. CASE ConnectScene
  <2>1. numberOfRow' \in 0..MaxRows
    BY <1>1, RowCountType DEF TypeOK, ConnectScene
  <2>2. cells' \in [Rows -> CellContents]
    BY <1>1 DEF ConnectScene, CellContents
  <2>3. inflight' \in [Screens -> Nat]
    BY <1>1 DEF TypeOK, ConnectScene, Screens
  <2>4. /\ screen' \in 0..MaxScreens
        /\ presented' = "none" /\ timePushed' = FALSE /\ ended' = "no"
        /\ dayOfWeek' = today
        /\ UNCHANGED <<published, today, disk, allData, savedBy, mainQueue>>
    BY <1>1 DEF TypeOK, ConnectScene, serverVars
  <2>. QED
    BY <2>1, <2>2, <2>3, <2>4 DEF TypeOK
<1>2. CASE Flush
  BY <1>2 DEF TypeOK, Flush, serverVars, viewVars
<1>3. CASE Kill
  <2>1. cells' \in [Rows -> CellContents] /\ inflight' \in [Screens -> Nat]
    BY <1>3 DEF Kill, NoProcess, CellContents
  <2>2. mainQueue' \in Seq(Completions)
    BY <1>3 DEF Kill, NoProcess
  <2>3. /\ screen' \in 0..MaxScreens
        /\ numberOfRow' \in 0..MaxRows
        /\ savedBy' \in 0..MaxScreens
        /\ presented' = "none" /\ timePushed' = FALSE /\ ended' = "no"
    BY <1>3 DEF Kill, NoProcess
  <2>4. allData' \in 0..MaxVersion /\ UNCHANGED <<published, today, disk, dayOfWeek>>
    BY <1>3 DEF TypeOK, Kill, serverVars
  <2>. QED
    BY <2>1, <2>2, <2>3, <2>4 DEF TypeOK
<1>4. CASE Publish
  BY <1>4 DEF TypeOK, Publish, Versions, storeVars, viewVars
<1>5. CASE DayPasses
  BY <1>5 DEF TypeOK, DayPasses, storeVars, viewVars
<1>6. ASSUME NEW s \in Screens, LoseAnswer(s) PROVE TypeOK'
  BY <1>6 DEF TypeOK, LoseAnswer, serverVars, storeVars, viewVars
<1>7. ASSUME NEW s \in Screens, NEW result \in {published, Failure, Malformed},
             Answer(s, result)
      PROVE  TypeOK'
  <2>1. [screen |-> s, result |-> result] \in Completions
    BY DEF TypeOK, Answers, Completions
  <2>2. mainQueue' \in Seq(Completions)
    BY <1>7, <2>1, AppendProperties DEF TypeOK, Answer
  <2>. QED
    BY <1>7, <2>2 DEF TypeOK, Answer, serverVars, storeVars, viewVars
<1>8. ASSUME mainQueue # <<>>
      PROVE  /\ Head(mainQueue).screen \in Screens
             /\ Tail(mainQueue) \in Seq(Completions)
  <2>1. Head(mainQueue) \in Completions /\ Tail(mainQueue) \in Seq(Completions)
    BY <1>8, HeadTailProperties DEF TypeOK
  <2>. QED
    BY <2>1 DEF Completions
<1>9. CASE DeliverFailure
  BY <1>8, <1>9 DEF TypeOK, DeliverFailure, Present, serverVars, storeVars, viewVars
<1>10. CASE DeliverMalformed
  BY <1>8, <1>10 DEF TypeOK, DeliverMalformed, serverVars, storeVars, viewVars
<1>11. CASE DeliverData
  BY <1>8, <1>11 DEF TypeOK, DeliverData, Present, Versions, Screens, serverVars, viewVars
<1>12. CASE TapRetry
  <2>1. inflight' \in [Screens -> Nat]
    <3>1. \A s \in Screens : inflight[s] \in Nat /\ inflight[s] + 1 \in Nat
      BY DEF TypeOK
    <3>2. inflight' = [s \in Screens |-> IF s = screen THEN inflight[s] + 1 ELSE inflight[s]]
      BY <1>12 DEF TypeOK, TapRetry
    <3>. QED
      BY <3>1, <3>2
  <2>. QED
    BY <1>12, <2>1 DEF TypeOK, TapRetry, serverVars, storeVars, viewVars
<1>13. CASE TapOk
  BY <1>13, RowCountType DEF TypeOK, TapOk, serverVars, storeVars
<1>14. ASSUME NEW row \in Rows, CellForRowAt(row) PROVE TypeOK'
  <2>1. cells' \in [Rows -> CellContents]
    <3>1. CASE Configurable(row)
      BY <1>14, <3>1, ConfiguredCellType DEF TypeOK, CellForRowAt
    <3>2. CASE ~Configurable(row)
      BY <1>14, <3>2 DEF TypeOK, CellForRowAt, CellContents
    <3>. QED
      BY <3>1, <3>2
  <2>. QED
    BY <1>14, <2>1 DEF TypeOK, CellForRowAt, serverVars, storeVars
<1>15. ASSUME NEW row \in Rows, NEW direction \in Directions, OpenTimeVC(row, direction)
       PROVE  TypeOK'
  BY <1>15 DEF TypeOK, OpenTimeVC, serverVars, storeVars
<1>16. CASE Back
  BY <1>16 DEF TypeOK, Back, serverVars, storeVars
<1>17. CASE OpenFullSchedule
  BY <1>17 DEF TypeOK, OpenFullSchedule, serverVars, storeVars, viewVars
<1>18. CASE DismissFullSchedule
  BY <1>18 DEF TypeOK, DismissFullSchedule, serverVars, storeVars, viewVars
<1>19. CASE UNCHANGED vars
  BY <1>19 DEF TypeOK, vars, serverVars, storeVars, viewVars
<1>. QED
  BY <1>1, <1>2, <1>3, <1>4, <1>5, <1>6, <1>7, <1>9, <1>10, <1>11, <1>12, <1>13, <1>14,
     <1>15, <1>16, <1>17, <1>18, <1>19 DEF Next

\* Every variable keeps its type over all the steps of the start screen, its
\* downloads and its user.
THEOREM TypeCorrect == Spec => []TypeOK
  BY TypeInit, TypeStep, PTL DEF Spec

-----------------------------------------------------------------------------
(* The main queue: what its operations do to the screens queued in it.     *)

LEMMA QueuedScreensType == TypeOK => QueuedScreens \subseteq Screens
<1>. SUFFICES ASSUME TypeOK, NEW i \in DOMAIN mainQueue PROVE mainQueue[i].screen \in Screens
  BY DEF QueuedScreens
<1>1. mainQueue[i] \in Completions
  BY DEF TypeOK
<1>. QED
  BY <1>1 DEF Completions

LEMMA QueueUnchanged ==
    ASSUME UNCHANGED mainQueue
    PROVE  QueuedScreens' = QueuedScreens /\ (QueuedOnce => QueuedOnce')
  BY DEF QueuedScreens, QueuedOnce

LEMMA QueueEmptied ==
    ASSUME mainQueue' = <<>>
    PROVE  QueuedScreens' = {} /\ QueuedOnce'
  BY DEF QueuedScreens, QueuedOnce

\* An answer queues a completion of its screen.
LEMMA QueueAppend ==
    ASSUME TypeOK, NEW s \in Screens, NEW result \in Answers,
           mainQueue' = Append(mainQueue, [screen |-> s, result |-> result])
    PROVE  /\ QueuedScreens' = QueuedScreens \cup {s}
           /\ QueuedOnce /\ s \notin QueuedScreens => QueuedOnce'
<1>. DEFINE c == [screen |-> s, result |-> result]
<1>1. c \in Completions /\ c.screen = s
  BY DEF Completions
<1>. HIDE DEF c
<1>2. mainQueue \in Seq(Completions) /\ mainQueue' = Append(mainQueue, c)
  BY DEF TypeOK, c
<1>3. /\ DOMAIN mainQueue = 1..Len(mainQueue) /\ Len(mainQueue) \in Nat
      /\ DOMAIN mainQueue' = 1..(Len(mainQueue) + 1)
      /\ \A i \in 1..Len(mainQueue) : mainQueue'[i] = mainQueue[i]
      /\ mainQueue'[Len(mainQueue) + 1] = c
  BY <1>1, <1>2, AppendProperties
<1>4. QueuedScreens' = QueuedScreens \cup {s}
  BY <1>1, <1>3 DEF QueuedScreens
<1>5. QueuedOnce /\ s \notin QueuedScreens => QueuedOnce'
  BY <1>1, <1>3 DEF QueuedScreens, QueuedOnce
<1>. QED
  BY <1>4, <1>5

\* A completion that runs leaves the queue, and was the only one of its screen.
LEMMA QueueTail ==
    ASSUME TypeOK, QueuedOnce, mainQueue # <<>>, mainQueue' = Tail(mainQueue)
    PROVE  /\ Head(mainQueue).screen \in QueuedScreens
           /\ QueuedScreens' = QueuedScreens \ {Head(mainQueue).screen}
           /\ QueuedOnce'
<1>1. /\ DOMAIN mainQueue = 1..Len(mainQueue) /\ Len(mainQueue) \in Nat
      /\ Len(mainQueue) >= 1
      /\ Head(mainQueue) = mainQueue[1]
  BY DEF TypeOK
<1>2. /\ DOMAIN mainQueue' = 1..(Len(mainQueue) - 1)
      /\ \A i \in DOMAIN mainQueue' : mainQueue'[i] = mainQueue[i + 1]
  BY HeadTailProperties DEF TypeOK
<1>3. Head(mainQueue).screen \in QueuedScreens
  BY <1>1 DEF QueuedScreens
<1>4. QueuedOnce'
  BY <1>1, <1>2 DEF QueuedOnce
<1>5. ASSUME NEW t PROVE t \in QueuedScreens' <=> t \in QueuedScreens \ {Head(mainQueue).screen}
  <2>1. ASSUME t \in QueuedScreens' PROVE t \in QueuedScreens \ {Head(mainQueue).screen}
    <3>1. PICK i \in DOMAIN mainQueue' : t = mainQueue'[i].screen
      BY <2>1 DEF QueuedScreens
    <3>2. i + 1 \in DOMAIN mainQueue /\ i + 1 # 1 /\ t = mainQueue[i + 1].screen
      BY <1>1, <1>2, <3>1
    <3>. QED
      BY <1>1, <3>2 DEF QueuedScreens, QueuedOnce
  <2>2. ASSUME t \in QueuedScreens, t # Head(mainQueue).screen PROVE t \in QueuedScreens'
    <3>1. PICK i \in DOMAIN mainQueue : t = mainQueue[i].screen
      BY <2>2 DEF QueuedScreens
    <3>2. i # 1 /\ i - 1 \in DOMAIN mainQueue' /\ mainQueue'[i - 1] = mainQueue[i]
      BY <1>1, <1>2, <2>2, <3>1
    <3>. QED
      BY <3>1, <3>2 DEF QueuedScreens
  <2>. QED
    BY <2>1, <2>2
<1>. QED
  BY <1>3, <1>4, <1>5

-----------------------------------------------------------------------------
(* The downloads and the alerts.                                           *)

LEMMA DownloadInit == Init => DownloadInv
<1>. SUFFICES ASSUME Init PROVE DownloadInv
  OBVIOUS
<1>1. TypeOK
  BY TypeInit
<1>2. QueuedScreens = {} /\ QueuedOnce
  BY DEF Init, QueuedScreens, QueuedOnce
<1>3. \A s \in Screens : inflight[s] = 0
  BY DEF Init
<1>4. presented = "none" /\ ended = "no" /\ screen = 0 /\ numberOfRow = 0 /\ timePushed = FALSE
  BY DEF Init
<1>5. FutureScreens /\ EndedIsOver /\ OneDownloadPerScreen /\ DownloadIsAccountedFor
  BY <1>2, <1>3, <1>4 DEF FutureScreens, EndedIsOver, OneDownloadPerScreen,
     DownloadIsAccountedFor, Alerting
<1>6. NoProcessState /\ NeedsSchedule /\ AlertRefusedOnlyWithSchedule /\ RowsFollowStore
  BY <1>4 DEF NoProcessState, NeedsSchedule, AlertRefusedOnlyWithSchedule, RowsFollowStore
<1>. QED
  BY <1>1, <1>5, <1>6 DEF DownloadInv, Downloads, Display

\* A step that leaves the downloads, the alert and its outcome alone.
LEMMA DownloadsUnchanged ==
    ASSUME Downloads, UNCHANGED <<screen, inflight, mainQueue, ended>>, Alerting' = Alerting
    PROVE  Downloads'
<1>1. QueuedScreens' = QueuedScreens /\ (QueuedOnce => QueuedOnce')
  BY QueueUnchanged
<1>. QED
  BY <1>1 DEF Downloads, FutureScreens, EndedIsOver, OneDownloadPerScreen, DownloadIsAccountedFor

\* A completion that runs: the alert is shown, or the download of the current
\* screen ends, or the completion belongs to an earlier screen.
LEMMA DownloadsDelivered ==
    ASSUME TypeOK, Downloads, mainQueue # <<>>, mainQueue' = Tail(mainQueue),
           UNCHANGED <<screen, inflight>>,
           \/ Head(mainQueue).screen = screen /\ Alerting' /\ UNCHANGED ended
           \/ Head(mainQueue).screen = screen /\ UNCHANGED Alerting /\ ended' # "no"
           \/ Head(mainQueue).screen # screen /\ UNCHANGED <<Alerting, ended>>
    PROVE  Downloads'
<1>. DEFINE h == Head(mainQueue).screen
<1>1. QueuedScreens' = QueuedScreens \ {h} /\ h \in QueuedScreens /\ QueuedOnce'
  BY QueueTail DEF Downloads, OneDownloadPerScreen
<1>2. h \in Screens /\ inflight[h] = 0
  BY <1>1, QueuedScreensType DEF Downloads, OneDownloadPerScreen
<1>3. FutureScreens'
  BY <1>1 DEF Downloads, FutureScreens
<1>4. h = screen => ended = "no" /\ ~Alerting
  BY <1>1 DEF Downloads, EndedIsOver, OneDownloadPerScreen
<1>5. EndedIsOver'
  BY <1>1, <1>2, <1>4 DEF Downloads, EndedIsOver
<1>6. OneDownloadPerScreen'
  BY <1>1, <1>2, <1>4 DEF Downloads, OneDownloadPerScreen
<1>7. DownloadIsAccountedFor'
  BY <1>1, <1>2, <1>4 DEF Downloads, DownloadIsAccountedFor
<1>. QED
  BY <1>3, <1>5, <1>6, <1>7 DEF Downloads

LEMMA DownloadsStep == TypeOK /\ Display /\ Downloads /\ [Next]_vars => Downloads'
<1>. SUFFICES ASSUME TypeOK, Display, Downloads, [Next]_vars PROVE Downloads'
  OBVIOUS
<1>. USE MaxScreensAssumption
<1>1. CASE ConnectScene
  <2>1. QueuedScreens' = QueuedScreens /\ (QueuedOnce => QueuedOnce')
    BY <1>1, QueueUnchanged DEF ConnectScene
  <2>2. /\ screen' = screen + 1 /\ screen' \in Screens /\ screen \in Nat
        /\ ~Alerting' /\ ended' = "no"
    BY <1>1 DEF TypeOK, ConnectScene, Screens, Alerting
  <2>3. inflight[screen + 1] = 0 /\ screen + 1 \notin QueuedScreens
    BY <2>2 DEF Downloads, FutureScreens
  <2>4. /\ inflight'[screen + 1] = 1
        /\ \A s \in Screens : s # screen + 1 => inflight'[s] = inflight[s]
    BY <1>1, <2>2, <2>3 DEF TypeOK, ConnectScene
  <2>5. FutureScreens'
    BY <2>1, <2>2, <2>4 DEF Downloads, FutureScreens, Screens
  <2>6. OneDownloadPerScreen'
    BY <2>1, <2>2, <2>3, <2>4 DEF Downloads, OneDownloadPerScreen
  <2>7. EndedIsOver' /\ DownloadIsAccountedFor'
    BY <2>2, <2>4 DEF EndedIsOver, DownloadIsAccountedFor
  <2>. QED
    BY <2>5, <2>6, <2>7 DEF Downloads
<1>2. CASE Kill
  <2>1. QueuedScreens' = {} /\ QueuedOnce'
    BY <1>2, QueueEmptied DEF Kill, NoProcess
  <2>2. screen' = 0 /\ ~Alerting' /\ ended' = "no" /\ \A s \in Screens : inflight'[s] = 0
    BY <1>2 DEF Kill, NoProcess, Alerting
  <2>. QED
    BY <2>1, <2>2 DEF Downloads, FutureScreens, EndedIsOver, OneDownloadPerScreen,
       DownloadIsAccountedFor
<1>3. ASSUME NEW s \in Screens, LoseAnswer(s) PROVE Downloads'
  <2>1. QueuedScreens' = QueuedScreens /\ (QueuedOnce => QueuedOnce')
    BY <1>3, QueueUnchanged DEF LoseAnswer
  <2>2. /\ screen' = screen /\ Alerting' = Alerting
        /\ ended' = IF s = screen THEN "lost" ELSE ended
    BY <1>3 DEF LoseAnswer, viewVars, Alerting
  <2>3. inflight[s] = 1 /\ s \notin QueuedScreens
    BY <1>3 DEF TypeOK, Downloads, OneDownloadPerScreen, LoseAnswer
  <2>4. inflight'[s] = 0 /\ \A t \in Screens : t # s => inflight'[t] = inflight[t]
    BY <1>3, <2>3 DEF TypeOK, LoseAnswer
  <2>5. s = screen => ~Alerting
    BY <2>3 DEF Downloads, OneDownloadPerScreen
  <2>6. screen = 0 \/ screen \in Screens
    BY DEF TypeOK, Screens
  <2>7. FutureScreens'
    BY <2>1, <2>2, <2>4 DEF Downloads, FutureScreens
  <2>8. EndedIsOver'
    BY <2>1, <2>2, <2>3, <2>4, <2>5, <2>6 DEF Downloads, Display, NoProcessState, EndedIsOver
  <2>9. OneDownloadPerScreen'
    BY <2>1, <2>2, <2>3, <2>4, <2>5, <2>6
       DEF Downloads, Display, NoProcessState, OneDownloadPerScreen, Alerting
  <2>10. DownloadIsAccountedFor'
    BY <2>1, <2>2, <2>4, <2>6 DEF Downloads, DownloadIsAccountedFor
  <2>. QED
    BY <2>7, <2>8, <2>9, <2>10 DEF Downloads
<1>4. ASSUME NEW s \in Screens, NEW result \in {published, Failure, Malformed},
             Answer(s, result)
      PROVE  Downloads'
  <2>1. result \in Answers
    BY DEF TypeOK, Answers
  <2>2. inflight[s] = 1 /\ s \notin QueuedScreens
    BY <1>4 DEF TypeOK, Downloads, OneDownloadPerScreen, Answer
  <2>3. QueuedScreens' = QueuedScreens \cup {s} /\ QueuedOnce'
    BY <1>4, <2>1, <2>2, QueueAppend DEF Answer, Downloads, OneDownloadPerScreen
  <2>4. inflight'[s] = 0 /\ \A t \in Screens : t # s => inflight'[t] = inflight[t]
    BY <1>4, <2>2 DEF TypeOK, Answer
  <2>5. screen' = screen /\ Alerting' = Alerting /\ ended' = ended
    BY <1>4 DEF Answer, viewVars, Alerting
  <2>6. s = screen => ~Alerting /\ ended = "no"
    BY <2>2 DEF Downloads, OneDownloadPerScreen, EndedIsOver
  <2>7. screen = 0 \/ screen \in Screens
    BY DEF TypeOK, Screens
  <2>8. FutureScreens'
    BY <2>2, <2>3, <2>4, <2>5 DEF Downloads, FutureScreens
  <2>9. EndedIsOver'
    BY <2>3, <2>4, <2>5, <2>6, <2>7 DEF Downloads, Display, NoProcessState, EndedIsOver
  <2>10. OneDownloadPerScreen'
    BY <2>2, <2>3, <2>4, <2>5, <2>6, <2>7
       DEF Downloads, Display, NoProcessState, OneDownloadPerScreen, Alerting
  <2>11. DownloadIsAccountedFor'
    BY <2>3, <2>4, <2>5, <2>7 DEF Downloads, DownloadIsAccountedFor
  <2>. QED
    BY <2>8, <2>9, <2>10, <2>11 DEF Downloads
<1>5. CASE DeliverFailure
  BY <1>5, DownloadsDelivered DEF DeliverFailure, Present, viewVars, Alerting
<1>6. CASE DeliverMalformed
  BY <1>6, DownloadsDelivered DEF DeliverMalformed, viewVars, Alerting
<1>7. CASE DeliverData
  BY <1>7, DownloadsDelivered DEF DeliverData, Present, viewVars, Alerting
<1>8. CASE TapRetry
  <2>1. QueuedScreens' = QueuedScreens /\ (QueuedOnce => QueuedOnce')
    BY <1>8, QueueUnchanged DEF TapRetry
  <2>2. /\ screen \in Screens /\ screen' = screen /\ ended' = ended
        /\ Alerting /\ ~Alerting'
    BY <1>8 DEF TapRetry, viewVars, TypeOK, Screens, Display, NoProcessState, Alerting
  <2>3. inflight[screen] = 0 /\ screen \notin QueuedScreens /\ ended = "no"
    BY <2>2 DEF Downloads, OneDownloadPerScreen, EndedIsOver
  <2>4. inflight'[screen] = 1 /\ \A t \in Screens : t # screen => inflight'[t] = inflight[t]
    BY <1>8, <2>2, <2>3 DEF TypeOK, TapRetry
  <2>5. FutureScreens'
    BY <2>1, <2>2, <2>4 DEF Downloads, FutureScreens, TypeOK, Screens
  <2>6. OneDownloadPerScreen'
    BY <2>1, <2>2, <2>3, <2>4 DEF Downloads, OneDownloadPerScreen
  <2>7. EndedIsOver' /\ DownloadIsAccountedFor'
    BY <2>2, <2>3, <2>4 DEF EndedIsOver, DownloadIsAccountedFor
  <2>. QED
    BY <2>5, <2>6, <2>7 DEF Downloads
<1>9. CASE TapOk
  <2>1. QueuedScreens' = QueuedScreens /\ (QueuedOnce => QueuedOnce')
    BY <1>9, QueueUnchanged DEF TapOk
  <2>2. Alerting /\ ~Alerting' /\ ended' = "ok" /\ UNCHANGED <<screen, inflight>>
    BY <1>9 DEF TapOk, Alerting
  <2>. QED
    BY <2>1, <2>2 DEF Downloads, FutureScreens, EndedIsOver, OneDownloadPerScreen,
       DownloadIsAccountedFor
<1>10. CASE Flush
  BY <1>10, DownloadsUnchanged DEF Flush, viewVars, Alerting
<1>11. CASE Publish
  BY <1>11, DownloadsUnchanged DEF Publish, viewVars, Alerting
<1>12. CASE DayPasses
  BY <1>12, DownloadsUnchanged DEF DayPasses, viewVars, Alerting
<1>13. ASSUME NEW row \in Rows, CellForRowAt(row) PROVE Downloads'
  BY <1>13, DownloadsUnchanged DEF CellForRowAt, Alerting
<1>14. ASSUME NEW row \in Rows, NEW direction \in Directions, OpenTimeVC(row, direction)
       PROVE  Downloads'
  BY <1>14, DownloadsUnchanged DEF OpenTimeVC, Alerting
<1>15. CASE Back
  BY <1>15, DownloadsUnchanged DEF Back, Alerting
<1>16. CASE OpenFullSchedule
  BY <1>16, DownloadsUnchanged DEF OpenFullSchedule, viewVars, Alerting
<1>17. CASE DismissFullSchedule
  BY <1>17, DownloadsUnchanged DEF DismissFullSchedule, viewVars, Alerting
<1>18. CASE UNCHANGED vars
  BY <1>18, DownloadsUnchanged DEF vars, viewVars, Alerting
<1>. QED
  BY <1>1, <1>2, <1>3, <1>4, <1>5, <1>6, <1>7, <1>8, <1>9, <1>10, <1>11, <1>12, <1>13,
     <1>14, <1>15, <1>16, <1>17, <1>18 DEF Next

\* A step that only moves the alert: none to an error, or to or from the sheet.
LEMMA DisplayUnchanged ==
    ASSUME TypeOK, Display,
           UNCHANGED <<screen, numberOfRow, timePushed, allData, dayOfWeek, savedBy, ended>>,
           \/ UNCHANGED presented
           \/ /\ presented # "success"
              /\ screen # 0
              /\ presented' \in {"none", "error"} \/ (presented' = "full" /\ timePushed)
    PROVE  Display'
<1>1. NoProcessState'
  BY DEF Display, NoProcessState
<1>2. NeedsSchedule'
  BY DEF TypeOK, Display, NeedsSchedule
<1>3. AlertRefusedOnlyWithSchedule'
  BY DEF Display, AlertRefusedOnlyWithSchedule
<1>4. RowsFollowStore'
  BY DEF Display, RowsFollowStore
<1>. QED
  BY <1>1, <1>2, <1>3, <1>4 DEF Display

\* The current screen has a process, and a completion of it finds no alert.
LEMMA DeliveredToIdle ==
    ASSUME TypeOK, Downloads, mainQueue # <<>>, Tail(mainQueue) = mainQueue',
           Head(mainQueue).screen = screen
    PROVE  ended = "no" /\ ~Alerting
<1>1. screen \in QueuedScreens
  BY QueueTail DEF Downloads, OneDownloadPerScreen
<1>. QED
  BY <1>1 DEF Downloads, EndedIsOver, OneDownloadPerScreen

\* Nothing is queued or in flight without a process.
LEMMA ProcessRuns ==
    ASSUME TypeOK, Downloads
    PROVE  /\ \A s \in Screens : inflight[s] > 0 => screen # 0
           /\ mainQueue # <<>> => screen # 0
<1>1. \A s \in Screens : inflight[s] > 0 => screen # 0
  BY DEF TypeOK, Downloads, FutureScreens, Screens
<1>2. ASSUME mainQueue # <<>>, screen = 0 PROVE FALSE
  <2>1. PICK s \in QueuedScreens : TRUE
    <3>1. 1 \in DOMAIN mainQueue
      BY <1>2 DEF TypeOK
    <3>. QED
      BY <3>1 DEF QueuedScreens
  <2>2. s \in Screens /\ s > screen
    BY <1>2, <2>1, QueuedScreensType, MaxScreensAssumption DEF Screens
  <2>. QED
    BY <2>1, <2>2 DEF Downloads, FutureScreens
<1>. QED
  BY <1>1, <1>2

LEMMA DisplayStep == TypeOK /\ Downloads /\ Display /\ [Next]_vars => Display'
<1>. SUFFICES ASSUME TypeOK, Downloads, Display, [Next]_vars PROVE Display'
  OBVIOUS
<1>. USE MaxScreensAssumption
<1>1. CASE ConnectScene
  <2>1. NoProcessState'
    BY <1>1 DEF TypeOK, ConnectScene, NoProcessState
  <2>2. NeedsSchedule'
    BY <1>1 DEF ConnectScene, NeedsSchedule, SetNumberOfRow, HasDay
  <2>3. AlertRefusedOnlyWithSchedule'
    BY <1>1 DEF ConnectScene, AlertRefusedOnlyWithSchedule
  <2>4. RowsFollowStore'
    BY <1>1 DEF ConnectScene, RowsFollowStore, SetNumberOfRow
  <2>. QED
    BY <2>1, <2>2, <2>3, <2>4 DEF Display
<1>2. CASE Kill
  BY <1>2 DEF Kill, NoProcess, Display, NoProcessState, NeedsSchedule,
     AlertRefusedOnlyWithSchedule, RowsFollowStore
<1>3. ASSUME NEW s \in Screens, LoseAnswer(s) PROVE Display'
  <2>1. s = screen => ended = "no"
    BY <1>3 DEF TypeOK, LoseAnswer, Downloads, EndedIsOver
  <2>2. screen # 0
    BY <1>3, ProcessRuns DEF LoseAnswer
  <2>. QED
    BY <1>3, <2>1, <2>2 DEF LoseAnswer, serverVars, storeVars, viewVars, Display,
       NoProcessState, NeedsSchedule, AlertRefusedOnlyWithSchedule, RowsFollowStore
<1>4. ASSUME NEW s \in Screens, NEW result \in {published, Failure, Malformed},
             Answer(s, result)
      PROVE  Display'
  BY <1>4, DisplayUnchanged DEF Answer, storeVars, viewVars
<1>5. CASE DeliverFailure
  <2>1. screen # 0 /\ UNCHANGED <<screen, numberOfRow, timePushed, allData, dayOfWeek, savedBy>>
    BY <1>5, ProcessRuns DEF DeliverFailure, storeVars, viewVars
  <2>2. CASE UNCHANGED ended
    BY <1>5, <2>1, <2>2, DisplayUnchanged DEF DeliverFailure, Present
  <2>3. CASE ended' # ended
    <3>1. /\ ended' = "refused" /\ UNCHANGED presented
          /\ Head(mainQueue).screen = screen
          /\ presented # "none" \/ timePushed
      BY <1>5, <2>3 DEF DeliverFailure, Present
    <3>2. ended = "no" /\ ~Alerting
      BY <1>5, <3>1, DeliveredToIdle DEF DeliverFailure
    <3>3. allData # NoData
      BY <3>1, <3>2 DEF Display, NeedsSchedule, Alerting
    <3>. QED
      BY <2>1, <3>1, <3>3 DEF Display, NoProcessState, NeedsSchedule,
         AlertRefusedOnlyWithSchedule, RowsFollowStore
  <2>. QED
    BY <2>2, <2>3
<1>6. CASE DeliverMalformed
  <2>1. Head(mainQueue).screen = screen => ended = "no"
    BY <1>6, DeliveredToIdle DEF DeliverMalformed
  <2>2. screen # 0
    BY <1>6, ProcessRuns DEF DeliverMalformed
  <2>. QED
    BY <1>6, <2>1, <2>2 DEF DeliverMalformed, storeVars, viewVars, Display,
       NoProcessState, NeedsSchedule, AlertRefusedOnlyWithSchedule, RowsFollowStore
<1>7. CASE DeliverData
  <2>1. screen # 0 /\ UNCHANGED <<screen, numberOfRow, timePushed, dayOfWeek>>
    BY <1>7, ProcessRuns DEF DeliverData, viewVars
  <2>2. allData' # NoData
    BY <1>7 DEF DeliverData, Versions, NoData
  <2>3. savedBy' = Head(mainQueue).screen /\ savedBy' # 0
    <3>1. Head(mainQueue).screen \in QueuedScreens
      BY <1>7, QueueTail DEF DeliverData, Downloads, OneDownloadPerScreen
    <3>. QED
      BY <1>7, <3>1, QueuedScreensType DEF DeliverData, Screens
  <2>4. NoProcessState' /\ NeedsSchedule' /\ AlertRefusedOnlyWithSchedule'
    BY <2>1, <2>2 DEF NoProcessState, NeedsSchedule, AlertRefusedOnlyWithSchedule
  <2>5. savedBy' = screen => presented' = "success" \/ ended' = "refused"
    BY <1>7, <2>3 DEF DeliverData, Present
  <2>6. RowsFollowStore'
    BY <2>1, <2>3, <2>5 DEF RowsFollowStore
  <2>. QED
    BY <2>4, <2>6 DEF Display
<1>8. CASE TapRetry
  BY <1>8, DisplayUnchanged DEF TapRetry, storeVars, viewVars, Display, NoProcessState
<1>9. CASE TapOk
  <2>1. screen # 0 /\ allData # NoData
    BY <1>9 DEF TapOk, Display, NoProcessState, NeedsSchedule
  <2>2. /\ ended' = "ok" /\ numberOfRow' = SetNumberOfRow(allData, dayOfWeek, numberOfRow)
        /\ UNCHANGED <<screen, allData, dayOfWeek>>
    BY <1>9 DEF TapOk, storeVars
  <2>. QED
    BY <2>1, <2>2 DEF Display, NoProcessState, NeedsSchedule, SetNumberOfRow,
       AlertRefusedOnlyWithSchedule, RowsFollowStore
<1>10. CASE Flush
  BY <1>10, DisplayUnchanged DEF Flush, viewVars
<1>11. CASE Publish
  BY <1>11, DisplayUnchanged DEF Publish, storeVars, viewVars
<1>12. CASE DayPasses
  BY <1>12, DisplayUnchanged DEF DayPasses, storeVars, viewVars
<1>13. ASSUME NEW row \in Rows, CellForRowAt(row) PROVE Display'
  BY <1>13, DisplayUnchanged DEF CellForRowAt, storeVars
<1>14. ASSUME NEW row \in Rows, NEW direction \in Directions, OpenTimeVC(row, direction)
       PROVE  Display'
  <2>1. numberOfRow > 0
    BY <1>14, MaxRowsAssumption DEF TypeOK, OpenTimeVC, ButtonPressed, Rows
  <2>2. screen # 0 /\ allData # NoData
    BY <2>1 DEF Display, NoProcessState, NeedsSchedule
  <2>3. UNCHANGED <<screen, numberOfRow, allData, dayOfWeek, savedBy, presented, ended>>
    BY <1>14 DEF OpenTimeVC, storeVars
  <2>. QED
    BY <2>2, <2>3 DEF Display, NoProcessState, NeedsSchedule,
       AlertRefusedOnlyWithSchedule, RowsFollowStore
<1>15. CASE Back
  BY <1>15 DEF Back, storeVars, Display, NoProcessState, NeedsSchedule,
     AlertRefusedOnlyWithSchedule, RowsFollowStore
<1>16. CASE OpenFullSchedule
  BY <1>16, DisplayUnchanged DEF OpenFullSchedule, storeVars, viewVars, Display, NoProcessState
<1>17. CASE DismissFullSchedule
  BY <1>17, DisplayUnchanged DEF DismissFullSchedule, storeVars, viewVars, Display, NoProcessState
<1>18. CASE UNCHANGED vars
  BY <1>18, DisplayUnchanged DEF vars, storeVars, viewVars
<1>. QED
  BY <1>1, <1>2, <1>3, <1>4, <1>5, <1>6, <1>7, <1>8, <1>9, <1>10, <1>11, <1>12, <1>13,
     <1>14, <1>15, <1>16, <1>17, <1>18 DEF Next

LEMMA DownloadInvariance == Spec => []DownloadInv
<1>1. DownloadInv /\ [Next]_vars => DownloadInv'
  BY TypeStep, DownloadsStep, DisplayStep DEF DownloadInv
<1>. QED
  BY <1>1, DownloadInit, PTL DEF Spec

\* However many scenes are connected, and in whatever order answers, losses and
\* retries come, a screen has at most one download under way.
THEOREM OneDownload == Spec => []OneDownloadPerScreen
<1>1. DownloadInv => OneDownloadPerScreen
  BY DEF DownloadInv, Downloads
<1>. QED
  BY <1>1, DownloadInvariance, PTL

\* downloadAllData of the current screen is in flight, queued or alerted until it
\* ends in one of the named ways.
THEOREM DownloadAccounted == Spec => []DownloadIsAccountedFor
<1>1. DownloadInv => DownloadIsAccountedFor
  BY DEF DownloadInv, Downloads
<1>. QED
  BY <1>1, DownloadInvariance, PTL

\* UIKit can refuse the alert of a download only once a schedule is stored.
THEOREM AlertRefused == Spec => []AlertRefusedOnlyWithSchedule
<1>1. DownloadInv => AlertRefusedOnlyWithSchedule
  BY DEF DownloadInv, Display
<1>. QED
  BY <1>1, DownloadInvariance, PTL

\* The table of the start screen is sized from the stored schedule but for the
\* window before the success alert is acknowledged and the two named exceptions.
THEOREM RowsFollow == Spec => []RowsFollowStore
<1>1. DownloadInv => RowsFollowStore
  BY DEF DownloadInv, Display
<1>. QED
  BY <1>1, DownloadInvariance, PTL

-----------------------------------------------------------------------------
(* The cells of the start screen.                                          *)

\* The cells stay and so does the day they are drawn for.
LEMMA CellsUnchanged ==
    ASSUME CellShowsItsStation, UNCHANGED <<cells, dayOfWeek>>
    PROVE  CellShowsItsStation'
  BY DEF CellShowsItsStation, AlwaysPublished

LEMMA CellsStep == DownloadInv /\ CellShowsItsStation /\ [Next]_vars => CellShowsItsStation'
<1>. SUFFICES ASSUME TypeOK, Display, CellShowsItsStation, [Next]_vars
              PROVE  CellShowsItsStation'
  BY DEF DownloadInv
<1>1. CASE ConnectScene \/ Kill
  <2>1. cells' = [row \in Rows |-> BlankCell]
    BY <1>1 DEF ConnectScene, Kill, NoProcess
  <2>. QED
    BY <2>1 DEF CellShowsItsStation
<1>2. ASSUME NEW drawn \in Rows, CellForRowAt(drawn) PROVE CellShowsItsStation'
  <2>1. dayOfWeek' = dayOfWeek /\ drawn < numberOfRow
    BY <1>2 DEF CellForRowAt, storeVars
  <2>2. allData \in Versions
    <3>1. numberOfRow # 0
      BY <2>1, MaxRowsAssumption DEF TypeOK, Rows
    <3>2. allData # NoData
      BY <3>1 DEF Display, NeedsSchedule
    <3>. QED
      BY <3>2, MaxVersionAssumption DEF TypeOK, Versions, NoData
  <2>3. ASSUME NEW row \in Rows \cap DOMAIN StationOfRow, AlwaysPublished(row)',
               cells'[row] # BlankCell
        PROVE  cells'[row].name = StationText[StationOfRow[row]]
    <3>1. AlwaysPublished(row)
      BY <2>1, <2>3 DEF AlwaysPublished
    <3>2. CASE row # drawn
      <4>1. cells'[row] = cells[row]
        BY <1>2, <2>3, <3>2 DEF CellForRowAt, TypeOK
      <4>. QED
        BY <2>3, <3>1, <4>1 DEF CellShowsItsStation
    <3>3. CASE row = drawn
      <4>1. /\ Configurable(row)
            /\ Content[allData][dayOfWeek][StationOfRow[row]].name
                 = StationText[StationOfRow[row]]
        BY <2>2, <2>3, <3>1 DEF AlwaysPublished, Configurable
      <4>2. cells'[row] = ConfiguredCell(row)
        BY <1>2, <2>3, <3>3, <4>1 DEF CellForRowAt, TypeOK
      <4>3. ConfiguredCell(row).name = Content[allData][dayOfWeek][StationOfRow[row]].name
        BY DEF ConfiguredCell
      <4>. QED
        BY <4>1, <4>2, <4>3
    <3>. QED
      BY <3>2, <3>3
  <2>. QED
    BY <2>3 DEF CellShowsItsStation
<1>3. CASE UNCHANGED <<cells, dayOfWeek>>
  BY <1>3, CellsUnchanged
<1>4. \/ ConnectScene \/ Kill \/ \E drawn \in Rows : CellForRowAt(drawn)
      \/ UNCHANGED <<cells, dayOfWeek>>
  BY DEF Next, Flush, Publish, DayPasses, LoseAnswer, Answer, DeliverFailure, DeliverMalformed,
     DeliverData, TapRetry, TapOk, OpenTimeVC, Back, OpenFullSchedule, DismissFullSchedule,
     vars, serverVars, storeVars, viewVars
<1>. QED
  BY <1>1, <1>2, <1>3, <1>4

\* cellForRowAt leaves a dequeued cell as it was when a guard fails.  A row whose
\* station is always published never shows another station all the same: a row
\* exists only once a schedule is stored, and then its guards hold.
THEOREM CellsShowTheirStation == Spec => []CellShowsItsStation
<1>1. Init => CellShowsItsStation
  BY DEF Init, CellShowsItsStation
<1>. QED
  BY <1>1, DownloadInvariance, CellsStep, PTL DEF Spec

-----------------------------------------------------------------------------
(* The order of the schedules.                                             *)

LEMMA OrderInit == Init => OrderInv
<1>. SUFFICES ASSUME Init PROVE Ordered
  BY TypeInit DEF OrderInv
<1>. QED
  BY DEF Init, Ordered, NoData

\* A step that leaves the queue and the schedules alone.
LEMMA OrderUnchanged ==
    ASSUME Ordered, UNCHANGED <<published, disk, allData, mainQueue>>
    PROVE  Ordered'
  BY DEF Ordered

\* A completion that runs without storing a schedule.
LEMMA OrderTail ==
    ASSUME TypeOK, Ordered, mainQueue # <<>>, mainQueue' = Tail(mainQueue),
           UNCHANGED <<published, disk, allData>>
    PROVE  Ordered'
<1>1. /\ DOMAIN mainQueue = 1..Len(mainQueue) /\ Len(mainQueue) \in Nat
      /\ DOMAIN mainQueue' = 1..(Len(mainQueue) - 1)
      /\ \A i \in DOMAIN mainQueue' : mainQueue'[i] = mainQueue[i + 1]
  BY HeadTailProperties DEF TypeOK
<1>2. \A i \in DOMAIN mainQueue' : i \in Int /\ i + 1 \in DOMAIN mainQueue
  BY <1>1
<1>. QED
  BY <1>1, <1>2 DEF Ordered

LEMMA OrderStep == OrderInv /\ [Next]_vars => OrderInv'
<1>. SUFFICES ASSUME TypeOK, Ordered, [Next]_vars PROVE Ordered'
  BY TypeStep DEF OrderInv
<1>. USE MaxVersionAssumption
<1>1. CASE Flush
  BY <1>1 DEF TypeOK, Ordered, Flush, serverVars
<1>2. CASE Kill
  <2>1. mainQueue' = <<>> /\ allData' = disk /\ UNCHANGED <<published, disk>>
    BY <1>2 DEF Kill, NoProcess, serverVars
  <2>. QED
    BY <2>1 DEF TypeOK, Ordered, Versions
<1>3. CASE Publish
  <2>1. published' = published + 1 /\ UNCHANGED <<disk, allData, mainQueue>>
    BY <1>3 DEF Publish, storeVars
  <2>. QED
    BY <2>1 DEF TypeOK, Ordered, Versions
<1>4. ASSUME NEW s \in Screens, NEW result \in {published, Failure, Malformed},
             Answer(s, result)
      PROVE  Ordered'
  <2>. DEFINE c == [screen |-> s, result |-> result]
  <2>1. c \in Completions /\ c.result = result
    BY DEF Completions, Answers, TypeOK
  <2>2. mainQueue' = Append(mainQueue, c) /\ UNCHANGED <<published, disk, allData>>
    BY <1>4 DEF Answer, serverVars, storeVars
  <2>. HIDE DEF c
  <2>3. /\ DOMAIN mainQueue = 1..Len(mainQueue) /\ Len(mainQueue) \in Nat
        /\ DOMAIN mainQueue' = 1..(Len(mainQueue) + 1)
        /\ \A i \in 1..Len(mainQueue) : mainQueue'[i] = mainQueue[i]
        /\ mainQueue'[Len(mainQueue) + 1] = c
    BY <2>1, <2>2, AppendProperties DEF TypeOK
  <2>4. result \in Versions => result = published
    BY AnswersAssumption
  <2>5. \A i \in DOMAIN mainQueue' : mainQueue'[i].result \in Versions =>
            allData <= mainQueue'[i].result /\ mainQueue'[i].result <= published
    BY <2>1, <2>3, <2>4 DEF Ordered, TypeOK, Versions
  <2>6. \A i, j \in DOMAIN mainQueue' :
            i < j /\ mainQueue'[i].result \in Versions /\ mainQueue'[j].result \in Versions
            => mainQueue'[i].result <= mainQueue'[j].result
    <3>. SUFFICES ASSUME NEW i \in DOMAIN mainQueue', NEW j \in DOMAIN mainQueue', i < j,
                         mainQueue'[i].result \in Versions, mainQueue'[j].result \in Versions
                  PROVE  mainQueue'[i].result <= mainQueue'[j].result
      OBVIOUS
    <3>1. i \in DOMAIN mainQueue /\ mainQueue'[i] = mainQueue[i]
      BY <2>3
    <3>2. CASE j \in DOMAIN mainQueue
      BY <2>3, <3>1, <3>2 DEF Ordered
    <3>3. CASE j = Len(mainQueue) + 1
      BY <2>1, <2>3, <2>4, <3>1, <3>3 DEF Ordered
    <3>. QED
      BY <2>3, <3>2, <3>3
  <2>. QED
    BY <2>2, <2>5, <2>6 DEF Ordered
<1>5. CASE DeliverFailure
  BY <1>5, OrderTail DEF DeliverFailure, serverVars, storeVars
<1>6. CASE DeliverMalformed
  BY <1>6, OrderTail DEF DeliverMalformed, serverVars, storeVars
<1>7. CASE DeliverData
  <2>1. /\ DOMAIN mainQueue = 1..Len(mainQueue) /\ Len(mainQueue) \in Nat
        /\ Len(mainQueue) >= 1 /\ Head(mainQueue) = mainQueue[1]
    BY <1>7 DEF DeliverData, TypeOK
  <2>2. /\ DOMAIN mainQueue' = 1..(Len(mainQueue) - 1)
        /\ \A i \in DOMAIN mainQueue' : mainQueue'[i] = mainQueue[i + 1]
    BY <1>7, HeadTailProperties DEF DeliverData, TypeOK
  <2>3. /\ mainQueue[1].result \in Versions /\ allData' = mainQueue[1].result
        /\ UNCHANGED <<published, disk>>
    BY <1>7, <2>1 DEF DeliverData, serverVars
  <2>4. allData <= allData' /\ allData' <= published
    BY <2>1, <2>3 DEF Ordered
  <2>5. disk' <= allData'
    BY <2>3, <2>4 DEF Ordered, TypeOK, Versions
  <2>6. \A i \in DOMAIN mainQueue' :
            i \in Int /\ i + 1 \in DOMAIN mainQueue /\ 1 < i + 1 /\ 1 \in DOMAIN mainQueue
    BY <2>1, <2>2
  <2>. QED
    BY <2>2, <2>3, <2>4, <2>5, <2>6 DEF Ordered
<1>8. CASE UNCHANGED <<published, disk, allData, mainQueue>>
  BY <1>8, OrderUnchanged
<1>9. \/ Flush \/ Kill \/ Publish \/ DeliverFailure \/ DeliverMalformed \/ DeliverData
      \/ \E s \in Screens : \E result \in {published, Failure, Malformed} : Answer(s, result)
      \/ UNCHANGED <<published, disk, allData, mainQueue>>
  BY DEF Next, ConnectScene, DayPasses, LoseAnswer, TapRetry, TapOk, CellForRowAt, OpenTimeVC,
     Back, OpenFullSchedule, DismissFullSchedule, vars, serverVars, storeVars, viewVars
<1>. QED
  BY <1>1, <1>2, <1>3, <1>4, <1>5, <1>6, <1>7, <1>8, <1>9

LEMMA OrderInvariance == Spec => []OrderInv
  BY OrderInit, OrderStep, PTL DEF Spec

\* What a step may do to the schedule of the process: store a newer one, or lose
\* the process with what it did not flush.
LEMMA ScheduleStep ==
    OrderInv /\ [Next]_vars => UNCHANGED allData \/ screen' = 0 \/ allData' >= allData
<1>. SUFFICES ASSUME TypeOK, Ordered, [Next]_vars, allData' # allData, screen' # 0
              PROVE  allData' >= allData
  BY DEF OrderInv
<1>1. DeliverData
  BY DEF Next, ConnectScene, Flush, Kill, NoProcess, Publish, DayPasses, LoseAnswer, Answer,
     DeliverFailure, DeliverMalformed, TapRetry, TapOk, CellForRowAt, OpenTimeVC, Back,
     OpenFullSchedule, DismissFullSchedule, vars, serverVars, storeVars, viewVars
<1>2. 1 \in DOMAIN mainQueue /\ Head(mainQueue) = mainQueue[1]
  BY <1>1 DEF DeliverData, TypeOK
<1>3. allData <= mainQueue[1].result /\ allData' = mainQueue[1].result
  BY <1>1, <1>2 DEF DeliverData, Ordered
<1>. QED
  BY <1>1, <1>3 DEF TypeOK, DeliverData, Versions

\* Completions of overlapping downloads run in the order of their answers, so
\* that a running process never goes back to an older schedule.
THEOREM NoOlderSchedule == Spec => NeverOlder
<1>1. OrderInv /\ [Next]_vars => [screen # 0 /\ screen' # 0 => allData' >= allData]_vars
  <2>. SUFFICES ASSUME OrderInv, [Next]_vars, screen' # 0 PROVE allData' >= allData
    OBVIOUS
  <2>1. CASE UNCHANGED allData
    BY <2>1 DEF OrderInv, TypeOK
  <2>. QED
    BY <2>1, ScheduleStep
<1>. QED
  BY <1>1, OrderInvariance, PTL DEF Spec, NeverOlder

\* Over kills, unflushed writes and reconnections the disk implements the
\* abstract cache: empty or one published schedule, replaced by later ones only.
THEOREM DiskIsCache == Spec => CacheSpec
<1>1. Init => Cache!Init
  BY DEF Init, Cache!Init, NoData
<1>2. OrderInv /\ [Next]_vars => [Cache!Next]_<<published, disk>>
  <2>. SUFFICES ASSUME TypeOK, Ordered, [Next]_vars PROVE [Cache!Next]_<<published, disk>>
    BY DEF OrderInv
  <2>1. CASE Flush
    <3>1. disk' = allData /\ disk # allData /\ published' = published
      BY <2>1 DEF Flush, serverVars
    <3>2. disk' \in (disk + 1)..published
      BY <3>1 DEF Ordered, TypeOK, Versions
    <3>. QED
      BY <3>1, <3>2 DEF Cache!Next, Cache!Store
  <2>2. CASE Publish
    BY <2>2 DEF Publish, storeVars, Cache!Next, Cache!Publish
  <2>3. CASE UNCHANGED <<published, disk>>
    BY <2>3
  <2>4. Flush \/ Publish \/ UNCHANGED <<published, disk>>
    BY DEF Next, ConnectScene, Kill, DayPasses, LoseAnswer, Answer, DeliverFailure,
       DeliverMalformed, DeliverData, TapRetry, TapOk, CellForRowAt, OpenTimeVC, Back,
       OpenFullSchedule, DismissFullSchedule, vars, serverVars, storeVars, viewVars
  <2>. QED
    BY <2>1, <2>2, <2>3, <2>4
<1>. QED
  BY <1>1, <1>2, OrderInvariance, PTL DEF Spec, CacheSpec, Cache!Spec
=============================================================================
