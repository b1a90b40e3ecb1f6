# Minsk metro schedule: TLA+ models

The app shows the schedule of the third line of the Minsk metro. It downloads one
dictionary from a Firebase database when a scene connects, keeps it in `UserDefaults`,
and computes what its three screens show from that copy and from the clock. The app's own
sources are under `src/MinskMetroSchedule/MinskMetroSchedule/`. The one vendored library whose
state machines carry the app's only dependency, the Realtime Database client, is under
`src/MinskMetroSchedule/Pods/FirebaseDatabase/FirebaseDatabase/Sources/`; it is modelled from
`getData` down to the socket, with its repository of writes and transactions.

## The system and its parts

| Part | State | Operations | Hard behaviour |
|---|---|---|---|
| Scene connection: `SceneDelegate`, `TabBarViewControllerRouter`, `ModuleBuilder` | `dayOfWeek` in `UserDefaults` | `scene(_:willConnectTo:)`, `initViewControllers` | runs again in a process that kept running; the day is the GMT day |
| Start screen: `ThirdLineModule` | `numberOfRow`, reused cells, the alert | `viewDidLoad`, `downloadAllData`, `showErrorAlert`, `showSuccessAlert`, `setNumberOfRow`, cells, buttons | asynchronous completions, retries, refused alerts, old screens kept alive by retain cycles |
| Download: `FirebaseManager` | calls in flight, completions on the main queue | `getAllData` | failed, malformed and lost answers |
| Firebase connection: `FPersistentConnection`, `FConnection`, `FIRRetryHelper` | state machine, outstanding gets, puts, listens and onDisconnect operations, credentials, back-off | requests, `onDisconnect`, `restoreState`, interruptions, context fetches | a connection that ends at any step; time-outs racing answers; requests sent again or not; stale fetches |
| Web socket: `FWebSocketConnection`, `FSRWebSocket` | ready state, buffers, assembly of segmented messages, timers | open, handshake, read, send, keep-alive, close, fail | three threads; five ways to end; each end told once |
| Repository: `FRepo`, `FSyncTree`, `FWriteTree`, `FViewProcessor` | server cache, pending and visible writes, tree of transaction queues, event cache | set, transaction, data update, acknowledgement, purge, rerun, abort | local writes over late server data; reruns while others are on their way; callbacks of a lost connection |
| Cache: `UserDefaults` | `allData`, in the process and on disk | `set`, `object` | written to disk later; the process may be killed before |
| Time screen: `TimeModule` | `numberOfRow`, next train, heading, cells | `setNumberOfRow`, `setNextTime`, `checkDayOfWeek`, `configureTimeSheetTableViewCell` | counted once, drawn later: the clock and the schedule move in between |
| Full schedule sheet: `FullScheduleModule` | `numberOfRow`, cells | `setNumberOfRow`, `configureTimeSheetTableViewCell` | counted from one day, drawn from another |
| Enumerations, `Int.decoderDt` | none | raw values, look-ups, formatting | times above 86400, GMT against local time |

The layers of the Firebase client call each other on one serial queue; below the
connection the socket has its own, and a timer on the main thread. The app's parts share `UserDefaults`: a completion stores `allData`, scene connection
stores `dayOfWeek`, every presenter reads both again for each row it draws. A start screen pushes the
time screen; the time screen presents the full schedule on the root, which is what a
late alert then collides with.

Correct means: a download is reported or its silent end is one of a known few; no
download is doubled; the stored schedule never goes back; the rows and cells belong
to the schedule and the hour they stand for; the announced train is the next one;
the table subscripts stay in range, or the exact window in which they do not is known.
For the client: a call completes at most once, and ends; nothing accepted is forgotten over
a reconnect; the layers agree on whether there is a connection, and one is always tried for;
messages are whole and in order; a transaction overwrites nobody, tells the truth in its
completion, and the listener ends up with the server's data.

## Modules

`MetroData` holds the dictionary (a constant `Content`, one per published version), the
enumerations, and the pure computations: guards, weekday switches, clock readings, hour
rows and next train. A schedule is known by its version number; a station is its
text, whether its cell fields are complete, and its time sheets. Texts are
transliterated; wording, colours and layout are left out.

`ScheduleCache` is the abstract specification of the cache: empty or one whole
published schedule, replaced only by later ones.

`ThirdLine` models the start screen, the download and the alerts. `screen` counts the
scene connections of a process, so that the downloads of earlier screens stay
visible: `inflight[s]` are the `getData` calls of screen `s`, `mainQueue` the
dispatched completions. `disk` and `allData` are the two copies of the cache. `ended` and
`savedBy` are history. `LoseAnswer` is what the client does when the
connection drops after a get was sent: `FPersistentConnection.m` clears its callbacks
and does not send the get again. `Present` follows UIKit: refused when the
root already presents something or the window is gone; below a pushed screen both
outcomes are allowed. `reloadData` marks the table; the cells are asked for in the
next layout pass, hence `CellForRowAt` is an action of its own.

`TimeScreen` models one time screen beside the clock (`Tick`), late downloads
(`StoreSchedule`) and scene connections. `OpenTimeVC` is the whole of `viewDidLoad`;
a cell is `ConfigureCell`, `TrapInCell` (a subscript out of range ends the process) or
`ReuseCell` (a guard failed). `opened` and `connectedAt` are history.
`CurrentTimeFromStartDay` includes the reading -1, when midnight falls between the
two `Date()` of the expression.

`FullSchedule` models the sheet the same way, without the clock. In both `Kill` ends the
process from outside, so that they can be composed.

`MetroApp` composes the three screens over one store, one clock and one process: every
step is a step of the screens that take part in it, and a trap in one ends all. It is shown to
be a behaviour of `TimeScreen` and of `FullSchedule` (`TimeSpec`, `FullSpec`), so what was
checked of them alone holds in the app.

`GetService` is the abstract specification of `getData`: a call ends with an error, with a
version no older than at the call and than any earlier completion, or is lost; never twice.
It is what `ThirdLine` assumes with `Answer` and `LoseAnswer`.

`PersistentConnection` models the connection: `connectionState` with the scheduled retry,
the context fetches, the `FConnection` below and its handshake; the dictionaries of gets, puts,
listens and onDisconnect operations with which of them were sent; `requestCBHash`. One action
is one block of the worker queue; what the socket brings waits in `workQueue`. It
implements `GetService`.

`SocketService` is the abstract specification of the socket: messages are delivered whole, in
order and without a gap until one end. `WebSocket` models `FWebSocketConnection` on the
delegate queue, `FSRWebSocket` on its work queue, the stream events, the keep-alive timer of the
main thread and the server, and implements it. Together: `ThirdLine` relies on `GetService`,
implemented by `PersistentConnection`, whose in-order messages are those of `SocketService`,
implemented by `WebSocket`.

`RepoTransactions` models the repository. The database is one log at each child of the
root: a transaction appends its number to the logs at and below its location, a set starts
them anew, another client appends `Foreign`; a lost or repeated update is then visible in the log. A
hash is the value itself. `client.writes` is `allWrites`, `visibleWrites` the compound write
kept beside it and rebuilt only when writes overlap, `cache` the server cache, `event` the
event cache of the listener's view, `tree` the queues, `puts` the outstanding puts and
`wire` what is on its way. An operation on the sync tree returns a repository and its events,
as in the code, and the callers raise them in the code's order. Dictionary orders (`Orders`, the sent
transactions of `Disconnect`) are chosen nondeterministically.

The proofs stand beside the modules: `ThirdLineProofs`; `MetroDataProofs` (lemmas on tables, clock and
sheets), `TimeScreenProofs`, `FullScheduleProofs` and `MetroAppProofs` for the screens;
`PersistentConnectionProofs` for the connection; `WebSocketProofs` for the socket; `RepoTransactionsProofs` for
the repository. The modules beginning with `MC` give the constants their values. Definitions marked "Mutation of" are changed forms of
the definition below them; substituting one must break the property it is listed with
in `PROJECT.json`, which shows that the property depends on that code.

## Runs

| Run | Configuration | What it shows |
|---|---|---|
| `third_line` | `ThirdLine` | types; `OneDownloadPerScreen`; `DownloadIsAccountedFor`; `AlertRefusedOnlyWithSchedule`; `RowsFollowStore`; `CellShowsItsStation`; `NeverOlder`; `CacheSpec` (refinement of `ScheduleCache`); liveness: `DownloadReported`, `RetryingEnds` |
| `time_screen` | `TimeScreen` | `NoTrapBeforeDeparture`, `RowsKeepTheirHour`, `LabelLeadsTableByDay`, `AnnouncedTrainIsNext` |
| `metro_app` | `MetroApp` | `TimeSpec`, `FullSpec` (refinements); `TrapNeedsPendingDownload`: a table traps without an hour passed or a short weekend only if a download was on its way when it opened; `CachedCellsLead`; `WeekdaySheetIsFull` |
| `connection_gets` | `ConnectionGets` | two gets, the build of the app: `KeepsTrying`, `ServiceSpec` (refinement of `GetService`); liveness: `EveryGetEnds`, `Reconnects` |
| `connection_writes` | `ConnectionWrites` | `NothingForgotten`, `TransactionSentOnce`, `AcknowledgedWriteStays`, `ListensServed`, `UnackedListensCounted`, `CompletedAtMostOnce` |
| `connection_auth` | `ConnectionAuth` | with credentials: `LayersAgree`, `CredentialFirst` |
| `socket_ends` | `SocketEnds` | every end of a socket: `SocketSpec` (refinement of `SocketService`); liveness: `AttemptEnds`, `EndIsReported` |
| `socket_writes` | `SocketWrites` | `WrittenInOrder` |
| `transactions` | `Transactions` | `OutcomeIsTrue`, `IdleShowsServer`, `TransactionsInOrder`, `AcksFindTheirWrite`, `LostOnlyToStaleRun` |
| `time_screen_texts` | `TimeScreenTexts` | violated: `ScreenTellsNextTrains` |
| `full_schedule_weekend` | `FullScheduleWeekend` | violated: `FullScheduleIsFull` |
| `repo_enumeration` | `RepoEnumeration` | violated: `NoEnumerationTrap` |

`time_screen_texts`: the day is the GMT day and the time of day the local one (`Int+Extension.swift:14`), so between 00:25 and
03:00 the label announces a morning train of yesterday's schedule. The property also refuses two other disagreements, which
`TimeScreenMidnight` and `TimeScreenOvernight` below show one by one. `full_schedule_weekend`: the full schedule of the
weekend is sized from the weekday (`FullSchedulePresenter.swift:37`): with fewer weekend hours drawing the last row ends the
process, with more the last hours are missing. `repo_enumeration`: a set above transactions at two children empties a queue
while the dictionary of queues is enumerated (`FRepo.m:1459`, `FTree.m:92`), which raises an exception; the app only gets, so
this touches other callers.

### Further configurations

These are kept beside the runs of `PROJECT.json` and run by hand. The ones that hold:

| Configuration | Module | Holds |
|---|---|---|
| `FullScheduleSafety` | `MCFullSchedule` | types, `WeekdayIsFull`, `TrapNeedsFewerHours` of the sheet alone |
| `ConnectionListens` | `MCPersistentConnection` | types, `ListensServed`, `UnackedListensCounted` with credentials that can be revoked |
| `ConnectionWritesEnd` | `MCPersistentConnection` | `EveryWriteIsAnswered` |
| `SocketReleased` | `MCWebSocket` | `Released` |
| `RepoTree` | `MCRepoTransactions` | types, `TransactionsInOrder`, `IdleShowsServer`, `AcksFindTheirWrite` with three transactions |
| `RepoListener`, `RepoSets` | `MCRepoTransactions` | `ListenerSeesServer`: with a transaction, a set and a purge; with three overlapping sets, two of them refused |
| `RepoEnd` | `MCRepoTransactions` | `EveryTransactionEnds` with one set |

And the smallest instances that refute what the texts of the app, or the library's documentation and comments, say or
what a caller would expect:

| Configuration | Refuted | What happens |
|---|---|---|
| `TimeScreenMidnight` | `LabelLeadsTable` | between 00:00 and 00:25 the label announces tonight's last trains and the table starts with the next morning's: the condition the comment in `TimeViewPresenter.swift:82` announces is in `setNextTime` only |
| `TimeScreenOvernight` | `HeadingNamesTable` | in an app kept in memory overnight the heading is that of the new day and the table that of the day the scene was connected (`TabBarViewControllerRouter.swift:39`) |
| `ThirdLineGap` | `LoadedTableShowsEachStationOnce` | a row whose station is missing from the downloaded dictionary, or lacks a field, keeps what its reused cell showed (`ThirdLineViewPresenter.swift:57`): two rows show one station |
| `ConnectionGetCompletes` | `EveryGetCompletes` | a get that was on the wire when its connection broke is never completed, although the client is connected again: its callback is dropped and `sendGet` skips it (`FPersistentConnection.m:402`). `FIRDatabaseReference.h:375` promises the value or an error. It is the silent end of a download |
| `ConnectionWriteCompletes` | `EveryWriteCompletes` | a write answered while listens are unanswered waits for their answers; if the connection breaks and the listen is removed, no answer comes and the committed write is never completed (`FPersistentConnection.m:403`) |
| `ConnectionRevoked` | `RevokedTokenIsRefreshed` | a forced token refresh is taken by the scheduled attempt, not by the one that fetches (`FPersistentConnection.m:480`) |
| `SocketKeepAlive` | `HeaderCountsSegments` | a keep-alive of the main thread gets between the header of a message and its segments (`FWebSocketConnection.m:259`) |
| `RepoBlindRerun` | `NoLostUpdate` | a transaction run again beside an earlier one on its way does not see that one's result, and replaces it when it is sent after the acknowledgement (`FRepo.m:1229`) |
| `RepoShadowedChange` | `ForeignKept` | another client's change under the write of a waiting transaction raises no event, which the code takes for "nothing changed"; the transaction overwrites it (`FRepo.m:743`) |
| `RepoSecondSet` | `EveryTransactionEnds` | a second set, or a purge after a set, over a transaction on its way drops it from its queue; answered "stale", it never ends (`FRepo.m:1523`) |
| `RepoDroppedEvent` | `ListenerSeesServer` | `rerunTransactionQueue` drops the events of every transaction but the first (`FRepo.m:1333`) |
| `RepoHiddenShown` | `HiddenNotShown` | `resetTree` takes hidden writes in, and they stay after their transaction has ended (`FWriteTree.m:502`) |

`LostOnlyToStaleRun` of the run `transactions` says that the two ways to lose an update shown by `RepoBlindRerun`
and `RepoShadowedChange` are the only ones within its bounds.

The passing runs fix where the other weak points begin and end. A time screen can end
the process only after the last train of an hour has left while it stays open, or
after a late download. Its announced train is right when its scene was connected on the
same GMT day, except between 00:25 and 03:00 and for a train of the second of midnight itself; its heading is that of
its table unless the GMT day has changed since (`HeadingNamesSchedule`, proved). The retry alert can be lost only when a
schedule is already cached. A malformed or lost answer ends a download without any message.

### Bounds

Two scene connections let an old download overlap with the current one (with three there are
171783 states and no error either, and the theorems are about any number); two versions let
one answer be older than another; three rows with two known stations and an
unknown one make guards fail. A retry never runs beside another download, so
`inflight` needs no bound. The instants of `MCTimeScreen` are chosen on both sides
of each boundary: a departure, the end of an hour, midnight itself, the shift at 00:25, and the next
day, with a GMT day change between; sheets have two trains in one hour, one alone in the
next, and trains after midnight; the second version has fewer hours on Friday and no weekend, and
one station has a name the app does not know. `MaxRows` only bounds the dictionary. `MetroApp` has two
scene connections, two versions and one row: a download can meet an open screen, and a
kill the unflushed store.

`PersistentConnection`: two gets; two puts (one a transaction) beside two listens of the same
query; a get and an onDisconnect operation with a credential that is refreshed once. `MaxDelay` bounds the steps of the back-off. `requestNumber` counts per connection, since
callbacks never outlive one; messages behind one that ends the connection are not kept, since
nothing reads them. `WebSocket`: messages of one and two segments, one keep-alive, every
fault in `Faults` once; reading with every fault and writing with keep-alives and pings are two
runs, since one instance of both is too large.

`RepoTransactions`: one or two children, up to three transactions and sets; `MaxRetries` is
2 for the code's 25, so that the limit is reached; one or two foreign changes, refusals, lost
connections, one purge. A root and two children give every relation two locations can have:
same, above, below, apart. `Transactions` has one set, and no transactions at two children,
because more runs into the violations above; the exception of `repo_enumeration` cannot occur in it.
`RepoEnd` has one location and no purge: a purge after a set is like a second set (`RepoSecondSet`).

### Fairness

`Fairness` is weak fairness of the Firebase client (each call is answered or lost: a
connect timeout or a disconnect ends it) and of the main queue. `NetworkRecovers`, the
hypothesis of `RetryingEnds`, adds two assumptions about the world rather than the code: the user taps the
only button of the alert that blocks the app, and a call made again and again is
answered at last. Kills, connections, the clock and navigation are not fair.

`PersistentConnection`: weak fairness of the worker queue, the retry and get timers, the
context fetch, and of a server that greets and serves; `Reconnects` has the hypothesis that
a handshake possible again and again succeeds at last, and `EveryWriteIsAnswered` is conditional on
`<>[]canSend`, as are `EveryGetCompletes` and `EveryWriteCompletes`. `WebSocket`: weak fairness of both queues and the timers, strong fairness of a
stream that drains, and a server that was sent a close frame ends the stream or it fails.
`RepoTransactions`: weak fairness of replies arriving, of reconnecting and of the server.

### Assumptions of the models of the client

A stream error ends both streams, and nothing is read after it; a write fails only with such an
error; the end of a stream comes after its data. Weak references are followed by
`Alive`-like guards. One web socket frame is read or written whole; text that is not UTF-8
takes the path of a malformed frame. A malformed frame is one after which the socket reads no more (reserved
bits, a fragmented or long control frame, an unexpected continuation); after a masked frame or an unknown opcode
(`FSRWebSocket.m:1043`, `:914`) it reads on until its own close frame is written, and the modelled server sends
nothing that could be read in that time. `send:` moves the keep-alive date, so a timer does not fire
during its loop but may have fired just before. In the repository a value listener at the root is
always present (its view contains what the transactions' own views see); the server sends a
change to the listener before it answers the writer; a put is lost or served before a
connection drops; after a reconnect the listen is answered first.

## Proofs

The theorems hold for every dictionary, any number of versions, scenes, rows and instants, and for
any numbers of gets, writes, listens, onDisconnect operations and tokens. Each inductive invariant was
checked by TLC on the small instances first. `PROJECT.json` lists the theorems.

### Assumptions

They are named where the constants are declared, and TLC evaluates them on every instance.

- `ContentAssumption`, `MaxVersionAssumption`, `TzOffsetAssumption`, `InstantsAssumption`,
  `AppInstantsAssumption`: finite station sets, one version at least, integers.
- `SheetsAssumption`: a time sheet is a sequence of seconds below 48 hours, because `hourModify` takes
  off 24 hours once (`TimeViewPresenter.swift`).
- `AscendingAssumption`: time sheets ascend. `setNextTime` takes the first later departure it
  finds for the next one, so the code relies on it.
- `ServiceDayAssumption`: the hours of one sheet differ by less than 24; otherwise two rows of a table
  would have the same text. Only the full schedule's theorems use it.

The last three say what the app expects of data it does not check; nothing is proved of a
dictionary that breaks them. A day of service, from the first train in the morning to the last after midnight,
satisfies them.

### Start screen (`ThirdLineProofs`)

- `TypeCorrect`. `TypeOK` is inductive, given that a row count is within `MaxRows` and
  a configured cell shows a text of the dictionary.
- `OneDownload`, `DownloadAccounted`, `AlertRefused`, `RowsFollow`. None is inductive
  alone. `DownloadInv` adds: screens not yet created have no download (else a new
  connection might find one); a download that ended has left nothing behind (else a late
  loss could overwrite how it ended); without a process nothing shows; without a schedule
  there are no rows, no pushed screen and no sheet. The lemmas `QueueAppend` and
  `QueueTail` say what an answer and a completion do to the set of queued screens.
- `NoOlderSchedule` and `DiskIsCache`. `Ordered` says disk <= process <= queued
  completions, ascending <= server. The second theorem is the refinement of
  `ScheduleCache`: a flush is a `Store`, all else stutters or publishes.
- `CellsShowTheirStation`: a row whose station is in every version is always configured anew, so no step
  leaves it with the content of a reused cell.

### Time screen (`TimeScreenProofs`)

A table is a set of hours sorted by the number of smaller ones (`Rank`); `MetroDataProofs` proves that each
row has exactly one hour, that the minutes of a cell are those of its departures in their order, and that the
first cell starts with the train `setNextTime` finds. `ScreenInv` ties the row count, the label and the
heading to the instant, the schedule and the reading of `viewDidLoad`, because the step that draws a cell sees
only their results:

- `TrapNeedsDeparture`: the hours a cell finds are a subset of the counted ones, and a proper one only if an hour has
  passed. `RowsKeepHour`: while it is not proper, every row keeps its hour; a cell drawn earlier
  shows at least the minutes that are left.
- `LabelLeads`: on a fresh screen all readings are equal outside the shift, so both computations see
  the same departures. `HeadingIsOfSchedule`: both switches are made on one name of the day.
- `AnnouncedIsNext` needs `EastOfGmt`: the zone is at least 25 minutes and less than a day ahead of GMT (Minsk: three
  hours). Then, outside the excluded hours, the time `setNextTime` counts is the one that belongs to the GMT day
  (`ServiceClock`), and no train of a neighbouring day comes between. In other zones the service day and the
  GMT day part and the property need not hold. The attempt to prove an earlier form failed at
  the midnight between the two readings of the clock: the label then announces a train of that very second. TLC
  confirmed it with one more instant, and the property now says so.

### Full schedule (`FullScheduleProofs`)

`SheetInv` says which schedule the rows were counted from, that a cell drawn while that schedule is stored shows its
row of the sheet on the label, and what a trap has found. From it, `TrapNeedsFewer` and `WeekdayFull`: the
sheet of the weekday is complete, with a row for every hour and no row twice.

### The app (`MetroAppProofs`)

`StartImplemented`, `TimeImplemented` and `FullImplemented` are refinements, step by step: every action of the app is
one of the screen's own or leaves its variables alone. The time screen and the sheet allow any later schedule to
be stored; that the store of the app only grows within a process is `Ordered` of the start screen, and that
labels are those of a cell is `Pushed`. `TimeP` and `FullP` are the proof modules of the screens under the refinement
mapping, so their theorems are theorems of the app: `WeekdaySheetFull`, `TimeScreenInApp` and `AnnouncedInApp`. Two
theorems are about several screens at once. `CachedCells` needs
`CellsLead`, which says it of every row before it is hit. `TrapNeedsDownload` needs `Quiet`: below a
screen opened without a pending download nothing is downloaded, since only a scene connection and the alert start one
and both remove the screen.

### Connection (`PersistentConnectionProofs`)

First the state machine, the wire and the credential, then the writes, listens and gets.

- `NeverStopsTrying` and `LayersInStep`. `Control` is inductive: a context is fetched exactly for an attempt that is
  under way or given up, the states of both layers match, and what belongs to a connection goes with it.
- `Wire` is what the other theorems rest on: the requests up to some number were served, the rest are on their
  way in order, and each callback waits for exactly one of them or for one answer in the queue, unless a
  broken connection is about to drop all of it.
- `CredentialComesFirst` (`CredentialChecked`): the credential of a connection is
  its first request, and until it is answered no put, get or onDisconnect operation has a callback.
- `NothingIsForgotten` and `TransactionsAreSentOnce` (`Remembered`): the outstanding writes are in the
  order of their numbers, and on a usable connection each has its request or its answer.
- `CompletionsAreCalledOnce` (`AcksPending`, `Operations`): a completion that waits for
  listens was not called, and its write is no longer outstanding; an onDisconnect operation is queued, sent or done.
- `AcknowledgedWritesStay` (`Acknowledged`): the server applies writes in order, and an acknowledged one is older
  than all that can be sent again.
- `UnackedListensAreCounted`: the count is the cardinality of the callbacks of listens.
- `GetsImplementService` is the refinement of `GetService`. `GetsInOrder` is needed for it: the versions in queued
  answers ascend and none is older than when its get was asked.
- `ServerServesListens` (`ListensSecured`): each listen is served or has a request on its way, with no later
  request that removes it, or a refusal, a revocation or the end of the connection waits in the queue.
- `TypeCorrect` of the connection.

### Socket (`WebSocketProofs`)

The theorems hold for any messages in both directions with any numbers of segments, any keep-alives and any faults.
What is on its way lies in several places one behind the other: a message of the client in the loop of `send:`, the queue
of the work queue, the output buffer and the wire; one of the server on the wire, in the
input buffer, in the queue of the connection and in the segments put together. Each place holds a run of consecutive frames
(`Run`), and a step moves frames from one run to the next; the lemmas on runs (cutting, joining, numbering) carry both
directions.

- `TypeCorrect`, and `StateAdvances`: the assertion of `setReadyState`.
- `FramesInOrder` is about the way out (`OutFlow`): the runs lie one behind the other without a gap until the socket is to close.
  From then on `send:` and the output buffer take no frame, so what is lost then is the tail and nothing comes behind the gap. The
  property speaks of the frames of data only; the keep-alives, pongs and close frames between them are skipped by counting
  (`DataUpTo`).
- `SocketServes` is the refinement of `SocketService`, step by step: the frame that completes a message delivers the next one, telling
  or closing is the one end, all else stutters. `InFlow` says the runs of the way in have no gap, `Assembled` that the
  segments kept are the beginning of the message after those delivered. A gap is possible only behind an
  error, and there nothing more is read: `ErrorIsEnd` says that the news of an error is queued only when both
  streams are dead and empty. Without it an error could overtake frames that are delivered after it.
- `EndComesLast` (`ClosingOrder`): no message is queued for the connection once the socket failed or sent its close
  frame. `failed`, `sentClose` and the wish to close after writing hold only in a closing socket, and a block that
  disconnects is queued only behind the close frame, so no path reads again.

`AllFrames`, the frames of the first so many messages, is a recursive function. That each of its values is a
sequence and extends the one before is an induction, which `NumbersByInduction` makes possible: a set of
numbers with 0 and every successor contains all of them, by the well-foundedness of `<` on the naturals.

### Repository (`RepoTransactionsProofs`)

`OutcomesAreTrue`: the completion block of a transaction is called at most once, and what it says of the server is so,
whatever is started, set, refused, lost or purged and in whichever order messages arrive. It holds for any locations, also for
the instances on which the further configurations refute other properties: an update may be lost and a transaction may
never end, but no block is told something false.

The difficulty is that one call of the code runs through many steps that each leave the repository half changed. `Truthful(r, X, ans,
app)` is therefore said of a repository value and not of the state: it holds after every single step inside an operation, where `X` are the puts that
were just answered and not yet dropped, `ans` the answers under way and `app` what was applied. The lemmas climb from an operation on the
sync tree (which leaves transactions, queues and puts as they are: `Same`) over sending, rerunning, aborting and answering a put to the
actions. `IInv` is `Truthful` of the state with what holds between operations. Its parts, and why each is needed:

- `Unsettled` is the claim itself with its future: for a transaction not sent, or told that it failed, the server did not apply it and no put
  that could is on the wire (`NotApplied`). "Not applied yet" alone is not inductive.
- `Awaited` says the same of each put that waits: its transactions are on their way, all of one queue that are on their way belong to it, and an
  answer under way that names it is true. Without the second part an abort of a queue could tell a sent transaction that it failed.
- `AheadOnWay`: those on their way are the first of their queue, because an abort keeps as many of the front of the queue as it marked
  (`abortTransactionsAtNode:error:`).
- `Apart` and `OnWire`: no transaction is in two puts that wait or on the wire twice; so it is applied once and answered once.
- `CutOff`: without a connection nothing is under way and every waiting put is unsent; so reconnecting can send them all.
- `Clean`: between operations no queue holds a transaction that is completed or still to be aborted.

The loops of the code over queues, children and puts are recursive functions in the model, and each loop is an induction by `NumbersByInduction`.

### Only model-checked

- Liveness, and whatever needs `ENABLED`: `DownloadReported`, `RetryingEnds`, `EveryGetEnds`, `Reconnects`, `AttemptEnds`,
  `EndIsReported`. Fairness is out of the prover's reach.
- `RepoTransactions`: `TransactionsInOrder` and `LostOnlyToStaleRun` are about the contents of the data. Those are computed with
  the library's folds (`FoldLeft`, `SelectSeq`), which reach their recursion through operators passed as parameters, and no
  installed prover instantiates such a parameter. `IdleShowsServer` holds with
  one set only: the transaction a second one drops from its queue (`RepoSecondSet`) leaves its write behind. `AcksFindTheirWrite` is
  checked, not proved: it would need an invariant that ties every transaction and put to its write through each
  step inside an operation, as `Truthful` does for the completion blocks.
- The `violation` runs are counterexamples and need no proof.

## Not modelled

- Appearance (colours, constraints, shadows).
- Most of the repository's lines are vendored pods (Firestore, gRPC, BoringSSL, abseil, SnapKit and
  others) that the app links and does not call beyond configuration and layout. They are
  other programs; only the Realtime Database client, which the app calls, is modelled.
- Of that client: `updateChildValues` and merges, queries with filters, limits and tags, adding and
  removing listeners in the sync tree, the onDisconnect trees of `FRepo`, `.info`, server values,
  persistence on disk, statistics, server time, certificate checks, masking and the bytes of
  frames, and the watchOS socket.
- Two branches of `getData` (`FRepo.m:525`, `:545`): the early return of a cached server value needs a listener, and
  the answer from the disk cache needs persistence. The app has neither, so `CallGet` always asks the connection.
- `getTimeSheet`, `getChildCount`, `checkConnection`, `showFullScheduleButtonPressed`: never called.
- Two direction buttons hit at once, which could push two time screens.
- A change of the device's time zone or clock; `TzOffset` is constant and time moves forward.
- A time sheet key whose value is not an array of integers counts as missing.
- Memory: the retain cycles matter only because old completions still run.

## Plan

Done: the app (`MetroData`, `ThirdLine` with `ScheduleCache` and proofs, `TimeScreen`,
`FullSchedule`, `MetroApp`), the connection (`GetService`, `PersistentConnection`), the socket
(`SocketService`, `WebSocket`), the repository (`RepoTransactions`).

Proved: every safety property of the passing runs of `ThirdLine`, `TimeScreen`, `MetroApp`,
`PersistentConnection` and `WebSocket`, `OutcomeIsTrue` of `RepoTransactions`, and the refinements of `ScheduleCache`, `GetService`, `SocketService`, `TimeScreen`
and `FullSchedule`.

Open: `AcksFindTheirWrite` and the order of transactions in the data of `RepoTransactions` as theorems; then `updateChildValues` and listeners that come and go, in the repository.
