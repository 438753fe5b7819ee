# A verification of ufc

This directory holds a TLA+ model of **ufc**, the program that connects cockpit
hardware (USB HID panels, serial panels) to a flight simulator: the library
`libufc-connector` with its command line program `ufctool`, the X-Plane plugin
`ufc-plugin`, and the navigation data and flight plans of `libufc-data` over
the database of `libufc-utils`. Modules are translated from the C++ source;
paths below are relative to the repository.

- [The system](#the-system): components, state, interactions, what is hard
- [The modules](#the-modules): what each one models, and how
- [The runs](#the-runs): what TLC checks, on which instances, and why they are enough
- [Fairness](#fairness)
- [What the runs found](#what-the-runs-found)
- [The proofs](#the-proofs)
- [Limits](#limits): what is only model-checked, and what is not modelled
- [What could follow](#what-could-follow)

Everything is run from this directory:

    tlc -workers 2 -config UFCTool.cfg MCUFCTool      # a run: see the table of runs
    tlapm UFCToolProofs.tla                           # the proofs

## The system

```
   signal handlers     X-Plane's main thread (menu, callbacks, unload)
         |                         |
         v                         v
   +--------------------- FlightConnector ----------------------+
   |  m_running, m_devices, m_devicesMutex, two std::threads    |
   |                                                            |
   |   device thread                     data source thread     |
   |   updateDeviceMain()                updateDataSourceMain() |
   +-----|----------------------------------------|-------------+
         v   command(), setData()                 v
   Device::update() -----------------------> DataSource::update()
   USB HID, serial panels                    X-Plane (web socket, UDP),
         ^                                   plugin, simulator, clock
         |        AircraftState (shared)          |
         +----------- reads <--- writes ----------+

   flight plans  ->  airports, nav aids, airways, procedures
                          |                        |
                     X-Plane's files      Little Navmap's database (SQLite)
```

| Component | State | Operations | Talks to | What is hard |
|---|---|---|---|---|
| FlightConnector (`flightconnector.cpp`) | `m_running`, `m_devices` and its mutex, `m_dataSource`, two `std::thread`s | detect, `start`, `stop`, `wait`, `exit` | calls devices and data source; called by `main()`, signal handlers, the plugin | `stop()` runs in a signal handler on any thread, next to another `stop()` and to a `wait()`; joins that throw are ignored |
| ufctool (`ufctool.cpp`) | the connector | `main()`, SIGINT and SIGTERM | FlightConnector | it must end, once, and leave nothing running |
| X-Plane plugin (`ufcplugin.cpp`) | connector, menu, pending init callback | XPluginStart/Stop, init callback, menu | FlightConnector, X-Plane | X-Plane chooses the order of the calls; detection while the thread runs |
| Plugin data source (`xpplugindatasource.cpp`) | two queues with a mutex each, command definitions | `executeCommand`, `setData` on the device thread; the flight loop on X-Plane's | X-Plane's SDK | a command must be run exactly once, in order, on the other thread |
| X-Plane data source and its clients (`xplane.cpp`, `xplanewsclient.cpp`, `xplaneudpclient.cpp`) | connection, set of web sockets, receive buffer | connect, read, stream, disconnect | X-Plane over the network | frames split anywhere; lost and late datagrams; `disconnect()` from another thread at any step |
| Simulator data source (`simulator.cpp`) | the simulated autopilot, radio, APU, barometer | `update`, 25 commands | aircraft state; commands from the device thread and from main | no lock: a command copies the autopilot, edits the copy and stores all of it back |
| Clock data source (`clock.cpp`) | how the time is shown | `update`, commands | aircraft state | settings change in the middle of a display |
| Aircraft mapping (`aircraftmapping.cpp`) | the definitions, numbered | load defaults and aircraft file, map numbers to values, commands | data sources | values come back from X-Plane by number only |
| Aircraft state (`aircraftstate.*`) | map from names to shared values | `set`, getters | written by the data source, read by devices | no lock on the values |
| Serial devices (`devices/serial`) | port, line buffer, last values | scan, detect, update, close | serial panels, `command()` | lines in pieces, re-scan and close against the update |
| USB HID devices (`devices/usbhidconfig`) | report descriptors, previous report, display image | scan, decode input, encode output | hidapi | bit offsets computed by hand |
| Flight plans (`libufc-data/flightplans`) | route, end points | read a route text, an MSFS plan, a SimBrief plan | navigation data, files, network | names that stand for several places; missing airports; responses in pieces |
| Navigation data (`libufc-data/navdata`, `navaids.h`) | airports, nav aids, procedures: caches filled once | load, find by code, by name near a place, by place | database, X-Plane's files | nested queries on a file that another program rewrites; meaning by the order of lines |
| Great circle, quad tree (`greatcircle.cpp`, `geoutils.h`) | the tree | insert, find nearest; divide a leg | nav aids, route texts | splitting of full nodes; the date line |
| Database (`database.cpp`) | SQLite handle, count of nested transactions | open, close, transactions, statements | SQLite, and through its file another program | results that nobody looks at, retries that give up |

What makes each correct, in the order of importance:

1. **Life cycle.** A program that is told to stop stops: both threads end, each
   `std::thread` is joined exactly once, every device is closed, nothing is
   destroyed under a running thread, however many signals come and wherever
   they land.
2. **Delivery of commands.** What a pilot does on a panel is sent once for each
   change, and X-Plane executes it exactly once and in order; the simulator
   loses nothing of a command that runs alone.
3. **Delivery of values.** The value X-Plane sends reaches the name it belongs
   to, is never mixed with another, a getter never mistakes its type, and a
   display shows the digits of one number.
4. **Teardown of connections.** `disconnect()` at any step ends the stream and
   touches nothing that is freed.
5. **Navigation.** A transaction reaches the file whole or not at all; answers
   about procedures are those of one version of the file; a nav aid is found
   where it is; airports are what their file says; a route leads through its
   points, a flight plan through its fixes.

The complete list of hazards, with the line each bites at and the properties
that cover it, is in `PROJECT.json`.

## The modules

| Component | Module | Run with | Proofs |
|---|---|---|---|
| FlightConnector, ufctool | FlightConnector, UFCTool | MCUFCTool | UFCToolProofs |
| X-Plane plugin | UFCPlugin | MCPlugin | UFCPluginProofs |
| Plugin data source | XPPluginDataSource, CommandChannel (abstract) | MCPlugin | XPPluginDataSourceProofs |
| Aircraft mapping, X-Plane data source | AircraftMapping | MCDataSources | DataSourcesProofs |
| Aircraft state | AircraftState | MCDataSources | DataSourcesProofs |
| Simulator, clock | SimulatorDataSource, ClockDataSource | MCDataSources | DataSourcesProofs |
| Web socket client | XPlaneWebSocketClient | MCXPlaneClients | XPlaneClientsProofs |
| UDP client | XPlaneUDPClient | MCXPlaneClients | XPlaneClientsProofs |
| Serial panels | SerialDevice | MCSerialDevice | SerialDeviceProofs |
| USB panels | USBHIDDevice, BitBuffer | MCUSBHIDDevice | USBHIDDeviceProofs |
| Database | Database | MCNavigation | NavigationProofs |
| Procedures | Procedures | MCNavigation | NavigationProofs |
| X-Plane's navigation files | XPlaneNavData | MCNavigation | NavigationProofs |
| Nav aids, quad tree | NavAids | MCNavigation, MCNavAids | NavigationProofs |
| Route texts, great circle | RouteText, GreatCircle | MCNavigation, MCRouteText | NavigationProofs |
| Flight plan files | FlightPlanFormats | MCNavigation | NavigationProofs |

`MCPlugin`, `MCDataSources`, `MCXPlaneClients` and `MCNavigation` put several
components of one part of the program into one run. These components share no
variable of their models, and every property speaks of one of them only, so
the product of their behaviours would show nothing new: the
variable `driven`, chosen once, says which component a behaviour drives, and
the others stay as they begin. What is proved of these components is proved of
the harness: of `MCSpec`, in which each of them may be the one that is driven.

Definitions whose comment begins with "The bug of" (`NextRow_Released`,
`Publish_Once`...) are not part of any specification: each is the definition
below it with a plausible bug, and the property it is paired with in
`PROJECT.json` ("mutants") fails when the bug is put in.

### FlightConnector, UFCTool

`FlightConnector` holds the state of the object and one action per step of its
operations, each for *whichever flow of control performs it*: a thread or a
signal handler. `UFCTool` and `UFCPlugin` extend it with the program around it.

| TLA+ | C++ |
|---|---|
| `running`, `devices`, `mutex` | `m_running`, `m_devices`, `m_devicesMutex` |
| `source` | `m_dataSource`: created, connected, disconnected; over X-Plane's web sockets (`WebSocket`): neither, `closing` once a stream got the close frame, `missed` when `disconnect()` found none to send it to |
| `First` | the order in which both loops walk `m_devices`: always the same, whichever it is |
| `handle[w]` | the `std::thread` of worker `w`: default-constructed, joinable, joined |
| `joiner[w]` | the waiter glibc records in the thread, which makes a second `pthread_join` fail (EINVAL, EDEADLK) |
| `pc[c]` | where flow `c` is |
| `under[s]`, `host[s]` | the flows a handler interrupted, and its thread |
| `Start`, `Stop`, `Wait` | `start()`, `stop()`, `wait()` |
| `DeviceThread`, `SourceThread` | `updateDeviceMain()`, `updateDataSourceMain()` |
| `InitDevice`, `AddDevice` | `initDevices()`, `addDevice()` from `scanDevices()` |

A signal is delivered to any thread of `SignalHosts`, at any step, also inside
another handler or a half-finished join; the thread goes on only when the
handler has returned. This is where the interesting executions are: a handler
on the device thread joins *itself* (the join throws, the exception is
swallowed), two handlers on two threads each join the other, main's join is
refused because a handler already waits.

With X-Plane's web sockets, `disconnect()` is not one step. It locks
`m_webSocketsMutex`, signals the sockets and unlocks (`LockSockets`,
`SignalSockets`), while the data source thread locks it to register the socket and
to erase it, and opens the connection and streams in between (`Stream`). Who holds the
mutex is a matter of where the flows are (`HoldsSockets`: "signalling", "registering",
"erasing"). It is not recursive, so that a handler that interrupts one of these on
its own thread waits for itself. The details of a stream are those of
`XPlaneWebSocketClient`; of the other data sources `disconnect()` is a step, `Disconnect`.

Signals that are idle arrive in one order (`First` again): SIGINT and SIGTERM have
the same handler, and which of the two is the first changes nothing else.

`UFCTool` is `main()`: devices, data source, connect (with the loop that asks
for X-Plane's version until it answers), `start()`, `wait()`, return.

### UFCPlugin

X-Plane calls one entry point at a time on its main thread: `call` is the entry
point, `menu` what `buildMenu()` last displayed, `initPending` the registered
init callback. Plugging a device in is an action of the environment. A device
that cannot be opened counts as one that is not plugged in. The plugin installs
no exit handler: `NoHandlerAssumption`.

### CommandChannel, XPPluginDataSource

`CommandChannel` is the abstract promise of the plugin's data source: commands
form one first-in first-out queue, each is executed exactly once; of the values
set for a data ref between two callbacks the first is written; everything that
was accepted is served in the end.

`XPPluginDataSource` is the code: mapping loaded by the first callback, command
lookup cached in `m_commandDefs`, two queues, each drained under its mutex, one
command at a time, while the device thread goes on queueing. `Channel ==
INSTANCE CommandChannel WITH ...` is the refinement mapping: the abstract queue
is the code's queue without the commands this callback has already executed
(the code clears the queue only at the end), the abstract set of values is the
code's map as long as it has not been cleared. `ServesInOrder == Channel!Spec`
is checked as a property, liveness included; its safety part is proved.

### XPlaneWebSocketClient

`streamDataRefs()` step by step (ids looked up, easy handle created and
registered in `m_webSockets`, connection opened, subscription, frames
delivered by libcurl whole or in pieces, callback, cleanup, erase) next to
`disconnect()`, which walks the same set from another flow.

### XPlaneUDPClient

`connect()` reads the version and three strings, one data ref per character,
over one socket; `streamDataRefs()` uses another. The network loses, delays and
reorders, so that answers of one read may arrive during the next. The close of
`m_dataSocket` can come between any two steps. `readInt()`'s local variable,
which is not initialised if the loop is never entered, is a nondeterministic
value.

### AircraftMapping, AircraftState

`AircraftMapping` loads a defaults file and an aircraft file entry by entry,
with the override rules of `parseMapping()`, gives each definition its number,
and delivers values by number as `XPlaneDataSource::update()` does. Files are
nondeterministic: *every* sequence of entries up to a bound.

`AircraftState` is the map of shared values, with `set()` as the two stores the
compiler sees (type, then value, in either order: they race) and a getter as
two loads. The constructor stores the barometer setting before any thread
exists, so it is not modelled. `getState()` is documented as returning a copy;
it returns the shared pointer.

### SimulatorDataSource, ClockDataSource

Both run `update()` on the data source thread next to `command()` on the device
thread, and, for the simulator, on main, which sends the commands of a USB panel
it opens or closes. There is no lock.

| TLA+ | C++ |
|---|---|
| `autopilot`, `member` | `m_autopilot`; `m_communication`, `m_apu`, `m_baro` and the switches |
| `caller[c]` | a `command()` under way: its copy of `m_autopilot` and its locals |
| `Begin`, `EditCopy`, `ReadMHz`, ..., `Store` | `command()`, one access of the members at a time |
| `SetCom1`, `SetStandby`, `Publish` | `update()`: the frequencies it stores over what was tuned, and the rounds in which it publishes |
| `hour24`, `showSeconds`, `showYear`, `showYearTime` | the clock's members of those names |
| `Sample`, `PublishManaged`, ... | the clock's `update()`: time read, the display published field by field |

The history variables `alone` and `overlapped` hold the members as they would be
if each command had run by itself, and whether two have met. A frequency is a
`uint32_t` in the code; what `% 1000` makes of one below zero is in `KHz`.

### SerialDevice

A panel on a port: scan over all definitions with the port's USB ids, the
detection dialogue, the line buffer of `SerialPort`, the update loop of the
device thread with `HandleInput` and `Output` (whose `flush()` discards input),
`stop()` closing the port. The bytes of the panel are tokens: a line naming a
switch and its value consists of two, so that it can be cut in half.

### BitBuffer, USBHIDDevice

| TLA+ | C++ |
|---|---|
| `handle[o]`, `queue[o]` | `m_device` of the Device made by the o-th opening of the panel, and hidapi's reports for it |
| `previous[o]` | `previousState` of the input fields |
| `list`, `pass`, `toClose` | `m_devices`, and how far `updateDevices()` and `stop()` have walked it |
| `HidRead`, `TestField`, `StoreField` | `updateInput()`, field by field; the command is sent between the test and the store |
| `CreateDisplayValues`, `UpdateOutput`, `HidWrite` | the digits taken from the state, then `updateOutput()`, one field a step |
| `Scan`, `Start`, `Stop`, `Close`, `HidClose` | the main thread: `scan()` with `init()`, `start()`, `stop()` with `close()` |

Two flows run the same `update()`: the device thread, and main, which blanks the
display in `init()` and `close()` by updating it with an empty aircraft, and so
reads reports and sends their commands too. A panel that is pulled out and
found again is a new Device; the old one stays in the list and still reads
what hidapi had queued for it. After `hid_close()` the device thread's next
call with that handle is undefined, and the model's device thread stops there.
`BitBuffer` is the report under construction, as the sequence of its bits.
The descriptor is a constant: its fields, of every type the code
appends, with the lengths `parseDescriptor()` gives them. Digits are looked up in
`Digit` and `Pattern`. The calls of `appendByte()` for the bytes of one field are one
operator, `AppendBytes`; that it is what one call after the other does is a lemma
(`ByteByByte` in `USBHIDDeviceProofs`).

`PressesSentOnce` counts the presses in the reports that were read, each a pair of the
report and the button, and asks for a numbering of the commands by them: one
command for each press, in their order, and of that button. `FieldsAtOffsets`
compares the report with the offsets, which are the sums of the lengths before.

### Database, Procedures

`Database` is the wrapper with the SQLite it stands on (external): one file, the
connection's lock and that of another program, what is written but not
committed, connections that `close()` could not close and that live on. BEGIN
and COMMIT may fail without anybody noticing; I/O errors roll back; the program
may die at any step, and SQLite's journal undoes what was not committed.
`outer`, `groupOf`, `completed` and `broken` are history: which outermost
transaction each write belongs to, which have reached their end, and which were
broken by an error, by closing the database inside them, or by never having
been begun.

`Procedures` is `getProcedures()` with `fetchProcedures()` below it: a statement
that walks an airport's rows, and for each row two others that read its legs,
while Little Navmap may replace the file whenever nobody reads it. What was
read is kept for ever, an empty answer too; `cut` is the airports whose answer
an error cut short, which the code does not notice.

### XPlaneNavData, NavAids

`XPlaneNavData` reads X-Plane's `apt.dat` line by line. What a line says is
replaced by its number in the file, so that `AirportsAreAsWritten` can compare
what was loaded with what stands between two lines of the file: a
reference definition that looks at the whole file, where the code keeps a current
airport and a current rule. Each of the two files of navigation aids is read in
one step, or fails. That a broken line throws, and that the quad tree aborts, is
`ReadingFails`.

`NavAids` is `NavAids::addNavAid()` over the quad tree, as the set of the
tree's leaves; splitting a leaf and inserting its objects again are steps of
their own. Coordinates are whole numbers, so that a box of size 1 is the
smallest box: doubles come to the same after some fifty halvings.

### RouteText, GreatCircle, FlightPlanFormats

`RouteText` is `loadString()` word by word, with the order in which `tokenise()`
tries what a word may be, the three states of the parser, and then the legs.
The navigation data are a choice: Little Navmap's, whose `isAirway()`
answers true for every word, or the base classes', which the repository's tests
use. The points of a route are added one a step (`AddPoint`, then
`SetRoute`); the history variable `reached` says how long the route was behind each
of them. `GreatCircle` reduces the earth to the equator in whole degrees: whether a
leg is divided, into how many points, and on which side of the date line they are is
all that `RouteText` asks. `FlightPlanFormats` reads the entries of an MSFS plan and
of a SimBrief plan, the latter also from the pieces of a response. Places are minutes
of arc on a line. A nav aid that SimBrief names by its ident gives the way point its
*name*, which Little Navmap's data have beside the ident and X-Plane's leave empty. What
`StringUtils::trim()` returns is dropped everywhere in `msfsiniformat.cpp` and in
`splitString()`, so that blanks stay where the file has them: `blanks` are the parts
of a line that begin with one. A key then matches nothing (`Unhandled`), the type is not
"A" (`IsAirport`), a code is unknown (`AirportOf`), and of a place `dmmToDegrees()`
takes the blank for the hemisphere and the letter for the degrees (`DmmToDegrees`: the
minutes are left). A missing JSON key and a null `getAirports()` or `getNavAids()` are
`LoadFails`.

## The runs

| Run | Module, cfg | Properties | What it shows | States |
|---|---|---|---|---|
| `ufctool` | MCUFCTool, UFCTool.cfg | `DeviceThreadEndsOnlyByStop`, `WorkersDoneAtExit`, `NoJoinableThreadAtExit`, `DevicesClosedAtExit`, `SignalEndsProgram` | two signals anywhere, nested or concurrent: the program ends, once, cleanly, or hangs in one of the ways `Hung` names | 228 872 |
| `plugin` | MCPlugin, MCPlugin.cfg | `NoThreadAfterDelete`, `StartReplacesNoThread`, `MenuMatchesState`, `DevicesStableDuringPass`, `StopReturns`, `ServesInOrder` (refinement), `NothingBeforeReload` | every order of X-Plane's calls against the two threads; the two queues implement the abstract channel | 24 512 |
| `data_sources` | MCDataSources, MCDataSources.cfg | `TypesOK`, `NumbersArePositions`, `ValuesReachTheirNames`, `GettersAnswer`, `AloneAsOrdered`, `CommandsShown`, `FaceShowsTime`, `YearGoesAway` | every small pair of mapping files; unsynchronised stores against loads; commands that meet in the simulator and the clock | 165 746 |
| `xplane_clients` | MCXPlaneClients, MCXPlaneClients.cfg | `EntryOutlivesDisconnect`, `UpdatesDelivered`, `StopEndsOpenStream`, `AnswersReachTheirRequests`, `DisconnectEndsClient` | streaming and teardown; late and lost datagrams | 372 548 |
| `serial_device` | MCSerialDevice, SerialDevice.cfg | `ReadOnce`, `OneReader`, `CommandsAreChanges`, `StopEndsIdleDevice` | lines in pieces, re-scans, unplugging, close | 392 334 |
| `usb_hid` | MCUSBHIDDevice, USBHIDDevice.cfg | `PressesSentOnce`, `FieldsAtOffsets`, `DigitsOfOneNumber` | presses read by either flow, on either object; the bits of the report | 1 255 551 |
| `navigation` | MCNavigation, MCNavigation.cfg | `TypesOK`, `TransactionsAreWhole`, `AnswersAreWhole`, `AidsAreFound`, `AirportsAreAsWritten`, `NearestToPrevious`, `RouteIsWhole`, `PlansAreWhole` | transactions against locks, errors and crashes; a file rewritten between questions; every small tree, apt.dat, route and plan | 513 916 |
| `ufcplugin_late_device` | UFCPlugin, UFCPluginLateDevice.cfg | `LateDeviceStartsConnector` | counterexample, see below | |
| `web_socket_stop` | XPlaneWebSocketClient, WebSocketStop.cfg | `StopStopsStream` | counterexample | |
| `serial_stop` | MCSerialDevice, SerialStop.cfg | `StopEndsDevice` | counterexample | |
| `quad_tree_full` | MCNavAids, QuadTreeFull.cfg | `InsertFindsAChild` | counterexample | |
| `date_line` | MCRouteText, DateLine.cfg | `DateLineLegsAreSplit` | counterexample | |

Some properties of the harnesses are conjunctions of properties of a component,
which are stated and explained there: `AnswersReachTheirRequests` of the UDP
client's `UpdatesAreOfTheMapping`, `TextIsNotGarbled` and `SuccessIsStopped`;
`GettersAnswer` of `ThrowsOnlyOnTypeChange` and `ReadsAreFresh`;
`AnswersAreWhole` with `NamesMatchLists`, `AidsAreFound` with
`EveryAidInOneLeaf`, `RouteIsWhole` with `RoutesNeedAirports`. `TypesOK`
is the types of every component in the run. Those of the other components are not
checked in a run but proved: of `UFCTool`, `UFCPlugin`, `XPlaneWebSocketClient` and
`SerialDevice` as theorems named `TypeCorrect`, of `XPPluginDataSource` and
`USBHIDDevice` as the parts `QueueTypes`, `FlowsOK` and `PressTypes` of their invariants.

### The bounds, and why they are enough

- **ufctool**: two devices, one SIGINT and one SIGTERM, any thread as the host, a
  data source with web sockets and one without.
  Two is the smallest number of devices at which one pass can be cut in two, and
  of handlers at which joins can meet; each signal is blocked while its own
  handler runs, and a signal that comes again after its handler has returned
  finds a connector that is already stopped. The proofs below do not depend on these
  numbers.
- **plugin**: two devices, each plugged in at any time, calls of X-Plane
  unbounded. `MaxCalls = 3` calls of `command()`, over three
  controls: one with commands on either side of a value, one that sets two
  data refs, one of which X-Plane lacks, one with a command alone. Three calls
  give a queue that is drained, refilled while being drained, and refilled again.
- **data_sources**: files of at most two entries each over every kind of
  entry: the shortest in which a later entry overrides an earlier one of the
  same file and of the other file. Two readers, `MaxWrites = 2` writes of a name
  of one type and of a name of two. `MaxCommands = 2` commands of the simulator,
  of every kind one: two can meet. The clock starts at 12:59:57 and
  moves by three seconds for twelve: past the hour, past the minute, and beyond the
  five seconds of the year; `MaxPresses = 2`.
- **xplane_clients**: two data refs, `MaxMessages = 3` updates, each split
  anywhere: one message is lost between two others. Strings of two characters
  (one for the ICAO type), one data
  ref, `MaxArriving = 1` packet under way to each socket, any number over time.
  `ReadOffset = 4` keeps the ranges of indices apart as 100000 does.
- **serial_device**: two definitions, two switches with two positions,
  `MaxAttempts = 2` lines read by the detection, `MaxTokens = 5` tokens sent: a
  greeting and two lines, or a change and half of another.
- **usb_hid**: two buttons, `MaxReports = 2` reports, one of them queued
  (`QueueSize = 1`, so that a report can be lost), `MaxObjects = 2` openings: a
  panel that comes back. The output has a digit that starts inside a byte and one
  that ends a byte, behind a data field and in front of padding; the numbers 9
  and 10 share no digit.
- **navigation**: two writes in `MaxOuter = 2` outermost transactions
  (`MaxDepth = 2`), so that a transaction can be split in two and can be
  confused with the next; one statement, `Tries = 2`, `MaxFailures = 1`. Two
  airports, one without procedures in one of two versions of the file. A tree of
  side 4 whose leaves hold two, with `MaxAids = 4` nav aids on either side of
  every boundary: a leaf is split twice. Every `apt.dat` of
  `MaxLines = 5` lines of eight kinds: an airport with a rule and its condition,
  and the line that ends them. Every route of at most three of nine words, one
  of each thing a word can be, with every pair of end points. Plans of
  `MaxEntries = 2` entries, with a blank before each part that a blank changes, and
  places on both sides of zero, one of them with degrees; an ident of two nav aids,
  one of which has no name; responses of `MaxPieces = 2` pieces.
- **quad_tree_full**: the code's capacity of four, and five nav aids of one
  name. **date_line**: routes of at most two words over the Pacific.

Deadlock checking is off where the system stops by itself: a program that has
exited, a closed device, a finished load.

## Fairness

Fairness is assumed of the parts that the operating system or a timeout drives,
and of nothing else:

- every thread and every handler that is not blocked makes progress, and so
  does a `command()` that has begun;
- `UFCTool` assumes that `update()` and `close()` of a device return, *but for*
  the places where they need not: `UpdateMayHang`, an `update()` whose device was closed
  under it (what `serial_stop` shows of a serial panel, and a USB panel's freed handle),
  and `CloseMayHang`, a handler's `close()` of a USB panel on a thread that may be inside
  hidapi or hold `AircraftState`'s mutex. There the thread or the handler has no
  fairness. A stream is assumed to end only after the close frame has reached it, never
  behind a `disconnect()` that missed it; other data sources return from `update()` once
  they are disconnected, as `DisconnectEndsClient` shows of the UDP client;
- `UFCPlugin` assumes that `update()` of a device returns (`StopEndsIdleDevice` says
  when it does for serial panels, `serial_stop` when not); its data source's `update()`
  only waits a while;
- `select()` in the UDP client and in `SerialPort::read()` times out, after two
  seconds and half a second;
- a connection attempt of the web socket comes to an end, the second frame of
  a message follows the first, X-Plane answers a close frame, and it runs the
  callbacks it has registered;
- *no* fairness makes a signal arrive, a packet get through, a simulator
  answer, a user click, the clock move, or a device be plugged in. `UFCPlugin` assumes that
  a user who is offered "Detect new devices..." picks it in the end, which only
  `LateDeviceStartsConnector` needs.

The harnesses restate the fairness of each component for the behaviours that
drive it, which is why it is written out in `MCFairness`.

A signal that arrives before `start()` is forgotten: `stop()` clears
`m_running` and `start()` sets it again. `SignalEndsProgram` is therefore stated
of the window after `start()` has set the flag.

`SignalEndsProgram` names, in `Hung`, the places where a signal ends nothing:
`UpdateMayHang` and `CloseMayHang`, where fairness stops; `Relocked`, a handler that waits
in `disconnect()` for `m_webSocketsMutex` on the very thread that holds it, be it the
data source thread or another handler; and `StreamMissed`, a stream that opened behind
the `disconnect()` (what `web_socket_stop` shows). Each of the four is needed: without any
one of them TLC finds a counterexample. What the property says is that nothing
*else* keeps the program from ending: two `stop()`s in any order, joins that are refused,
mutual or of oneself, and a mutex that is only held for a while.

## What the runs found

- `serial_stop`: `stop()` closes a serial port while a complete line is in its
  buffer. `available()` keeps reporting it, `readLine()` fails on the closed
  port before it looks at the buffer, and `update()` loops for ever with
  `m_devicesMutex` held; `stop()` hangs in `wait()`.
- `web_socket_stop`: `disconnect()` before the socket is registered or open
  closes nothing and is not remembered; the stream starts all the same.
- `ufcplugin_late_device`: with no device at load time the plugin never starts
  its connector, for the menu offers detection only while it runs, although
  `startFlightConnector()` provides for the case.
- `quad_tree_full`: five nav aids at one place, where a leaf holds four: the leaf is
  split until no quarter contains the place, and the insertion ends the program
  in the branch of which a comment says that it should not happen.
- `date_line`: `handleBigDifference()` takes the list it is to fill by value, so
  that a long leg over the date line vanishes from the route, its end included.

Noted without a run:

- *Connector and devices.* A second signal inside the first one's `disconnect()`, or one
  on the data source thread while it registers or erases its socket, locks
  `m_webSocketsMutex` again on the same thread and hangs (`Relocked`); a handler that
  closes a USB panel on a thread inside hidapi or `AircraftState` may as well
  (`CloseMayHang`); and handlers print and allocate, so that the C library's locks,
  which are not modelled, are further places of the kind. `disconnect()` between `curl_easy_cleanup()` and the erase
  signals a web socket whose handle is freed; `stop()` closes USB panels under the
  device thread, whose pass may then hand hidapi a null pointer; `appendByte()` behind a part of a byte
  adds the highest bit first, unlike every other field, which no definition
  in `data/usbhid` meets; `stop()` returns early, before the threads have ended, when
  another flow is already joining them; a late datagram of the author may be taken
  for the first letters of the ICAO type; the data refs after the hundredth are
  requested over and over by `sendRREF()`, which is harmless; the simulated heading
  goes from 2 down to 365; the first round of the simulator's `update()` tunes
  back what was tuned before.
- *Database.* `executeQuery()` gives each column the value of the first; a failed
  `sqlite3_open()` leaves a handle that is never closed; a file that stays busy
  looks like the end of the rows, and an answer cut short is kept for ever.
- *Route texts.* `loadString(string)` has no origin and always dereferences
  null, although it logs "No origin set" first; Little Navmap's `isAirway()` makes every
  unknown word an airway, and the word behind a way point is consumed as one;
  `findNextAirwayWaypoint()` always answers null, so that airways are never
  expanded; the airport a route begins with does not become the place that the first
  name is looked up near; `parseLatLon()` adds the minutes of a southern or western
  coordinate with the wrong sign.
- *Great circle, quad tree.* `arc()` of two points or fewer gives radians; the answers of
  `checkParent()` are put into a copy; a root that was never split has no
  parent, which is dereferenced.
- *Plans and files.* `trim()`'s result is dropped, so that an MSFS plan with a blank after
  a comma makes a way point of an airport, and of "N51 30" the place 0° 30'; a SimBrief
  way point bears its nav aid's name, an empty one with X-Plane's data; `type` of a
  `RoutePoint` is not initialised for types other than V and I, nor `altitude` in an MSFS
  plan (neither is modelled); a missing JSON key throws, missing nav data are
  dereferenced. A SimBrief fix of another type becomes a nameless point at
  0, 0; a response that is null is parsed; `splitString()` drops empty
  fields; `splitLine()` looks for blanks before tabs; `XPlaneNavDataSource`
  has no procedures and no airways.

## The proofs

Every theorem is of `Spec => ...`, or of the harness's `MCSpec => ...`, for every
value of the constants that meets the module's named assumptions; the runs check the
same formulas on the instances above. Each safety property of a passing run is stated by
a theorem.

| Module | Theorems | Assumptions |
|---|---|---|
| `UFCToolProofs` | `TypeCorrect`, `Invariance`, `WorkersGone` (`WorkersDoneAtExit`), `ThreadsJoined` (`NoJoinableThreadAtExit`), `RunInvariance`, `EndsByStop` (`DeviceThreadEndsOnlyByStop`), `DevicesClosed` (`DevicesClosedAtExit`) | `ContextAssumption`: signals, threads and `None` are different things; `HostAssumption`: signals are delivered to threads |
| `UFCPluginProofs` | `TypeCorrect`, `Invariance`, `ThreadsGone` (`NoThreadAfterDelete`), `NoThreadReplaced` (`StartReplacesNoThread`), `MenuCorrect` (`MenuMatchesState`), `DevicesStable` (`DevicesStableDuringPass`, an action property) | `ContextAssumption`, and `NoHandlerAssumption`: the host handles no signals |
| `XPPluginDataSourceProofs` | `Invariance`, `QueuesImplementChannel` (the safety part of `ServesInOrder`: `Channel!Init /\ [][Channel!Next]_...`), `NothingEarly` (`NothingBeforeReload`, an action property) | `PluginAssumption` |
| `DataSourcesProofs` | `Invariance`, `TypeCorrect`, `Numbered` (`NumbersArePositions`), `Mapped` (`ValuesReachTheirNames`), `Getters` (`GettersAnswer`, an action property), `CommandsLoseNothing` (`AloneAsOrdered`), `FaceCorrect` (`FaceShowsTime`), `TypesCorrect` (`TypesOK`) | `MappingAssumption`, `StateAssumption`, `SimulatorAssumption`, `ClockAssumption` |
| `XPlaneClientsProofs` | `Invariance`, `TypeCorrect`, `EntryOutlives` (`EntryOutlivesDisconnect`), `Delivered` (`UpdatesDelivered`, an action property), `AnswersKeptApart` (`AnswersReachTheirRequests`) | `ClientAssumption`, `UDPAssumption` |
| `SerialDeviceProofs` | `Invariance`, `TypeCorrect`, `EachByteOnce` (`ReadOnce`), `PortHasOneReader` (`OneReader`), `SentInvariance`, `CommandsOfChanges` (`CommandsAreChanges`) | `SerialAssumption` |
| `USBHIDDeviceProofs` | `Invariance`, `OneNumber` (`DigitsOfOneNumber`), `PressInvariance`, `PressesOnce` (`PressesSentOnce`), `PlaceInvariance`, `FieldsPlaced` (`FieldsAtOffsets`) | `USBAssumption`: the buttons are different, the fields have the lengths `parseDescriptor()` gives them, and padding is the last field, as it is in every definition of `data/usbhid` |
| `NavigationProofs` | `Invariance`, `TypesCorrect` (`TypesOK`), `TransactionsWhole` (`TransactionsAreWhole`), `AnswersWhole` (`AnswersAreWhole`), `AidsFound` (`AidsAreFound`), `AirportsWritten` (`AirportsAreAsWritten`), `NearestTaken` (`NearestToPrevious`), `RouteKept` (`RouteIsWhole`), `PlansKept` (`PlansAreWhole`) | `DatabaseConstants`; `ProceduresAssumption`: a key names its airport; `NavAidsAssumption`: the side of the root is a power of two; `FilesAssumption`; `RouteAssumption`: no two places are half the world apart, where "shorter way" has no meaning; airports' names are not those of other points; `PlanAssumption` |

None of these properties is inductive by itself. Each component has a
strengthening, a conjunction of named parts, that holds at first, that every step
keeps (one lemma or step per action), and that implies the properties. It is
called `IInv`, or after its component where a module has several (`StateInv`,
`SimulatorInv`, `ClockInv`, `UDPInv`, `DatabaseInv`, `ProcInv`, `AidsInv`,
`FilesInv`, `RouteInv`, `PlanInv`; the last six make up `NavigationInv`). Where a harness drives several
components, a projection lemma (`StateProjection`, `UDPProjection`, `StepsOfParts`
and so on) says that each step of the harness is a step or a stutter of each of them.

**UFCTool.** That main has left `wait()` says nothing of
the threads, since `wait()` goes on when a join *throws*; the property
holds because a join of main can only fail when some handler is waiting for the same
thread, and because that handler, wherever it is, finishes or keeps main from
returning.

- `PhaseInv`: what main is doing fixes which workers exist;
- `HandleInv`: a worker without a thread object has not been born, one that was
  joined has ended;
- `FrameInv`: a handler interrupts flows of its own thread only, so that a
  worker whose flow is under a live handler cannot end;
- `JoinerInv`: the recorded joiner of a worker is the one flow that is inside
  `pthread_join`, and no two threads are recorded as waiting for each other;
- `MainInv`: what main has passed in `wait()` is joined, or in the hands of a
  handler main cannot overtake.

`InvStep` has a lemma for each kind of step:
`PlainStep` for those that touch no thread, `SpawnStep`, `JoinBeginsStep`,
`JoinEndsStep`, `JoinPassedStep`, `SignalStep`. `RunInv`, proved on top of
`IInv`, adds that only a `stop()` clears `m_running` once `start()` has set it,
and has closed every device by then.

**UFCPlugin.** `HandleInv` and `IdleInv` say that no `std::thread` is joinable
while the connector is stopped and X-Plane's thread outside `stop()`;
`PendingInv`, that the callback that starts the connector is registered only while it
does not run. Together they give `StartReplacesNoThread`; `LockInv` ties the mutex
to the device thread's pass.

**XPPluginDataSource.** `DrainInv`: the callback holds a queue's mutex exactly
while it drains that queue, and leaves nothing half drained; `LoadInv`: without
a mapping nothing is queued. They are `QueueInv`, an invariant of `MCPlugin`,
which adds the thread that calls. With these each action maps: queueing appends to the
abstract queue (`QueueMaps`), executing one command takes its head (`ExecuteMaps`),
clearing the queue is a stutter since all of it has been executed (`ClearMaps`, which
is wrong if a command could be queued between the last execution and the clearing:
the mutex), and the same for values.

**AircraftMapping.** `DefinedInv`: every definition means what the last entries
for its name said; `StreamInv`: what is requested and what is in the state are
those definitions.

**AircraftState.** A getter loads the type, then the value, then casts, while
`set()` stores the two in an order the compiler chooses. `ObjectInv`: both halves hold
only types written under the name, and no value is older than the last completed
write; `WriterInv`: what `set()` has stored so far is of its own write;
`ReaderInv`: the type that a getter has loaded is set if a write was complete when it
began.

**SimulatorDataSource.** `OrderInv`: as long as nothing has overlapped, at most one
command is under way, and the members that the commands make one by one are the
present ones plus what the rest of that command will still do to them
(`AutopilotAfter`, `MemberAfter`: one case per place inside `command()`), so that
each of its accesses leaves the difference as it should be.

**ClockDataSource.** `ClockInv`: from the split of the hour to the end of the round,
the hour and the managed light make up the hour sampled, and the digits published show
it for one value of `showSeconds`, which is the present one unless a press came
between. The rest is arithmetic: hours, minutes and seconds of one sample.

**XPlaneWebSocketClient.** `EntryInv`: an entry is on `m_webSockets` from
registration to erasure, and deleted after that; `MutexInv`: `disconnect()`
signals only under the mutex; `BufferInv`: the buffer holds the first frame of a
message in two frames, or nothing.

**XPlaneUDPClient.** `NetworkInv`: whatever is under way to a socket answers
something that was asked of it, which keeps the stream's indices and those of the
reads apart; `CharsInv`: each character received is zero or of a string, at its own
place, although it may be of the other string; `TextInv`: so are those of the
texts; `FlowInv`: a stream succeeds only after `disconnect()` has closed the data socket.

**SerialDevice.** The invariant is a decomposition of history: the lines read,
then the buffer, are the bytes delivered. `ReadLineStep` cuts the first line
off; that there is a first is the least element of a set of indices
(well-foundedness of `<` on the naturals). `ScanInv`: a scan has no device yet.
`SentInv`, on top of it: `ThreadInv`, without a device nothing was sent and no line
counts; `ValuesInv`, `m_values` holds the value of the last input of each switch, so
that the comparison with it finds a change exactly when there is one; and the
numbering of the commands by the changes, which grows by one with both of them.

**USBHIDDevice.** Three invariants. `DrawInv`: while a flow draws, its digits are
those of one number, and each digit field drawn so far shows one of them, whatever
the state does meanwhile. `PressInv`: by `ListInv` two flows never work on
one object until `stop()` begins, although main opens and initialises a panel while
the device thread serves the others; by `DecodeInv` `previousState` is that of the
last report for the fields in front of the one being looked at and that of the report
before for the rest, so that what is sent is what was pressed. `PlaceInv`:
when a field is about to be drawn, the buffer is as long as the sum of the lengths
before it, and each field already drawn is at its place, where it stays, for the
buffer only grows behind it. The sums are a recursive function;
that there is one, and hence that it satisfies its equation, is proved by
`OffsetsExist` from the least number without one.

**Database.** `OpenInv`: an open transaction that nothing broke is one of
SQLite's and holds back all of its writes; `Together`: the writes of each other
are pending together, stored together or lost together.

**Procedures.** `IndexInv`: a list has each key once, and `procedures` finds by
key what stands in the list, across all versions of the file that have been read;
`FetchInv`: the list so far is the answer for the rows dealt with so far, and the legs
read are the first legs of the present row. An answer never depends on a file that is
rewritten behind it (`AnswerStays`).

**NavAids.** `TreeInv`: boxes of leaves do not overlap and hold what they contain;
`WholeInv`: unless the insertion has lost its way, leaves cover the root and every
object is held or about to be inserted; `RoomInv`: of the objects that a split hands
back, only the new one may split a leaf again, which is why the recursion can be
modelled as a stack. The quarters of a box of even size cover it and do not overlap
(`QuartersFit`); a box of size one has no quarters that contain anything
(`NoQuarter`), which is where `quad_tree_full` ends. Invariant and theorem
include that end: what is proved is that nothing else loses a nav aid.

**XPlaneNavData.** `ReadingInv`: the airports, rules and conditions read so far are
those that the lines up to here say, the one being read included
(`CurrentInv`). The proof appends one line at a time to what "stands under" a line
(`UnderAppend`, `PartAppend`, `ConditionsAppend`), for each kind of line.

**RouteText.** `WordsInv`: the way points so far are the nearest of their names, and
the place to look near is that of the last; `AirportsInv`: an end is missing as long as
it was not given; `PathInv`: the points added stand in the route at `reached`, in
order, nothing between them has a name, and no leg is long unless one crosses
the date line. That the division of a leg leaves short legs is the arithmetic of
longitudes modulo 360 (`Quotient`, `LegIs`, `UnwrappedIs`, `ArcIs`).

**FlightPlanFormats.** `ReadInv`: the points so far are those of the entries so far,
through an order that grows by one with each entry en route (`OrderGrows`), whose point
`PointIs` and `WaypointIs` characterise; that there is a nearest nav aid is
`NearestIs`. The theorem says of blanks what the code does: a line whose key begins
with one has no point, an airport whose type does has one, and of a place that does
only the name is claimed.

## Limits

Only model-checked: the liveness properties (`SignalEndsProgram`, `StopReturns`,
`StopEndsOpenStream`, `DisconnectEndsClient`, `StopEndsIdleDevice`, `CommandsShown`,
`YearGoesAway`, and of the plugin's `LateDeviceStartsConnector` the counterexample) and
the fairness of `ServesInOrder`, for the prover has no fairness and no ENABLED.
What a recursive definition computes for every input would need induction with an
operator as a parameter, which the prover cannot instantiate; where a proof above
needs it, it goes by the least counterexample instead.

Not modelled:

- data races inside containers (`m_commandDefs`, `m_dataRefIds`, the device list
  walked by `stop()`): undefined behaviour below the level of these models, whose
  container operations are single steps;
- configuration files, command line, logging, the crash handler;
- of the data sources, reads of a single data ref, and commands and values that
  are sent to X-Plane as one message whose result nobody uses;
- of USB panels, Lua fields, input fields other than bits (none is in use), and the
  `init` and `close` descriptors, which are parsed and never used;
- of the database, binding of arguments and the reading of the schema; of
  Little Navmap's data, the queries that answer in one row; the splitting of lines and fields;
- floating-point geometry: bearings, tracks, spherical trigonometry. Great
  circles are on the equator, in whole degrees;
- the X-Plane FMS format, which is a header without an implementation;
- `ufc-generate-data`, a generator of static tables; definition files, which
  are data; `data.cpp`, `logger.cpp`, `utils.cpp`, string handling without
  state;
- third-party code: the serial library, `utf8.h`, `base64.cpp`, Lua, libcurl,
  hidapi, SQLite, the X-Plane SDK.
  It appears as what the code relies on: hidapi opens a device only once, so
  that detecting again does not duplicate a USB device, although the manager's
  own look-up by id never finds one.

## What could follow

The order in which the project was built is that of the list under [The
system](#the-system). What is left: great circles off the equator, on a grid of
latitudes; and the locks of the C library that a handler takes, as further places of
`Hung`.
