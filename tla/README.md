# QustomKeyboard: verification project

TLA+ models of QustomKeyboard (C++20, Windows first, a Linux build exists), a desktop
program that turns a USB or serial keypad into macros and doubles as a CAN bus tool, a
UDS client, a small TCP server for sensor data and a backup tool. There are no tests in
the repository; the models are written from the code.

Source lines are quoted as in `src/src/...`. At this commit many files contain blocks of
NUL or foreign bytes. Unreadable as a whole are `StructParser.cpp`, `MacroRecorder.cpp`,
`PathSeparator.cpp`, `gui/CmdExecutorTab.cpp`, `utils/AsyncSerial.cpp`, `Sensors.cpp`,
`CanDeviceLawicel.cpp`, `IdlePowerSaver.cpp`, `DatabaseLogic.cpp`, `Utils.cpp` and
`CmdExecutor.cpp`; in part `CanEntryHandler`, `CanScriptHandler`, `CustomMacro`, `DidHandler`,
`MapConverter`, `Settings`, `CanLogTab`, `gui/mainwindow.cpp` and `libs/isotp/isotp.c`. What is
lost is modelled only as the readable code uses it, or not at all.

## 1. Inventory

| Component | State it keeps | Operations | What is hard | What makes it correct |
|---|---|---|---|---|
| **CAN serial port** (`CanSerialPort`) | transmit queue (100 frames), `is_notification_pending`, worker thread, receive buffer (1024 bytes) | `Init`, `AddToTxQueue`, `OnDataReceived`, `WorkerThread`, `SendPendingCanFrames`, `DestroyWorkerThread` | queue tested, read and popped without the mutex; flag cleared late; notification without the mutex; port failures | never pops an empty queue; frames in order, at most once; lost by overflow, by the overlap of push and pop, or into a failed port only; every frame and byte handled in the end; destruction ends |
| **STM32 device** (`CanDeviceStm32`) | none (works on the buffer) | `ProcessReceivedFrames`, `PrepareSendDataFormat` | resynchronising with a damaged stream, full buffer | only intact frames received, in order; quick recovery |
| **Lawicel device** (`CanDeviceLawicel`) | set-up state | the same interface | unreadable | - |
| **TCP backend** (`Server`, `Session`, `TcpMessageExecutor`) | acceptor, session set, per session: pending messages, write and close flags, timer | accept, read, write, timer, broadcast, start, stop | one handler without the mutex, timer against write, identity of sessions, shutdown races | set holds the open sessions; no message lost or repeated; replies end the session; shutdown ends |
| **CAN entry handler** (`CanEntryHandler`, `CanTab`, `CanLogTab`) | entries to send, received entries, recorded frames, bit mapping; tables that point at them | sending, reception, recording, bit reading and writing, removal | bit arithmetic; tables and iterators that outlive what they point at | a written field reads back; tables show the data they stand for; no recorded frame left out |
| **DID handler** (`DidHandler`, `DidTab`) | pending reads and writes, updated DIDs, last answer; table of DIDs | read, write, abort, worker, show, clear | late answers, endless retries, lists changed while iterated, rows found by number | an answer belongs to its DID; every request ends; no request lost; a row shows its DID |
| **Raw UDS dialog** (`CanUdsRawDialog`) | lines, one buffer, one future, answers | send, receive | one array on the stack for all threads, a future overwritten while its thread runs | a line is sent with its own bytes or those of the next |
| **CAN scripts** (`CanScriptHandler`) | running script, awaited frame, log | run, `WaitForFrame`, `Sleep`, abort | reception against waiting against abort | a wait reports what it has received itself |
| **Bit fields** (`libs/bitfield`) | none | `copy_bits`, get, set | offsets, partial bytes, one byte read beyond the end | bits are copied, the others stay |
| **ISO-TP** (`libs/isotp`) | state of a link | `isotp_poll` | flow control, timers of a clock that wraps | no frame more, and none sooner, than the receiver allows |
| **Keys** (`SerialPort`, `SerialForwarder`, `CorsairHid`) | workers, exit flag, connection, debouncing | start, stop, receive, forward | ports and connections that fail while a key is on its way, focus that changes | a key is executed once, here or there, or lost |
| **Macros** (`CustomMacro`, `MacroRecorder`) | profiles of key bindings | execute | which profile applies to the window in front | the same macro after a restart |
| **Directory backup** (`DirectoryBackup`, `libs/sha256`) | entries, cancel flag, future | backup, rotation, hash, cancel | the source changes meanwhile, failures, cancellation, names of directories | copies that are accepted agree; rotation removes backups of its entry |
| **Application** (`ApplicationBase`, `CSingleton`) | the singletons | `Init`, destructor | use after destruction creates a singleton anew | nothing runs after its destruction |
| **Logger** (`Logger`, `LoggerTab`) | messages kept until the tab exists, the file | log, append, search, clear | any thread logs, a search reads the file meanwhile | no message missing |
| **Crypto prices** (`CryptoPrice`) | prices, future, time of the last read | update, read | read and timer share no mutex | the service is not asked too often |
| **Settings** (`Settings`) | `settings.ini` | load, save | some of it is not written | a restart keeps what matters |
| **Map converter** (`MapConverter`) | input, flags, output | convert | colours of three formats, vehicles that need several lines | the script makes the items of the map |
| **Screenshots** (`PrintScreenSaver`) | future, picture | take, decode, save | layouts of bitmaps, numbers read in two bytes, clipboard that changes | all of it, upright, each colour in its place |
| **Anti-lock** (`AntiLock`) | timeout, exclusions | process | ticks that wrap | disturbs when idle, and only then |
| **Others** | | | | `DatabaseImpl`, `SymlinkCreator`, `TerminalHotkey`, the panels: little state of their own, or pure input and output |

How they meet: the GUI timers, automatic sending, scripts and ISO-TP call
`CanSerialPort::AddToTxQueue`; the worker of the port calls the device, which cuts the
received bytes into frames and passes them (`AddToRxQueue`) to `CanEntryHandler::OnFrameReceived`,
from where ISO-TP answers reach `DidHandler`. `SerialPort` and `CorsairHid` pass keys to
`CustomMacro`. `Server` passes sensor data to `Sensors` and `DatabaseLogic`. All are singletons,
created on first use and destroyed by `ApplicationBase`.

`PROJECT.json` lists, at their lines, the hazards of this code and the properties that
would catch each.

## 2. Modules

| Module | What it is |
|---|---|
| `LossyFifo` | abstract promise of a path for frames: delivered in the order offered, each at most once, any may be lost |
| `CanSerialPort` | transmit queue, worker, notifications, connection, destruction |
| `CanDeviceStm32` | the byte stream, the circular buffer and the parser |
| `TcpBackend` | acceptor, sessions, transfer timer, broadcasts, destruction |
| `DidHandler` | UDS client: pending reads and writes, worker, ECU, the GUI's list of updates |
| `DidGrid` | the table of the DIDs: filling, updates, clear |
| `CanScript` | a running script: sending, waiting, sleeping, abort, log |
| `CanUdsRaw` | the dialog for raw UDS: threads, the array they share, identifiers, answers |
| `BitFields`, `CanBitMapping` | `copy_bits` and what is built on it; the fields of a frame and their editor |
| `CanLogPanel`, `CanGrid` | the recorded frames and their panel; the tables of entries |
| `IsoTpPoll` | sender and receiver timers of an ISO-TP link |
| `KeyInput` | keys from three devices to their macro, here or on another computer |
| `DirectoryBackup`, `Sha256` | backup, rotation, comparison of hashes; the padding and blocks of the hash |
| `LogFile`, `Lifecycle`, `Coins`, `Settings`, `MapConverter`, `Screenshot`, `AntiLock` | one service of the desktop each |
| `Selections` | the elements of a sequence at some of its places, as `std::erase_if` or a filter leaves them |
| `SequenceFacts` | lemmas about sequences; induction, recursive functions and selections |
| `CanSerialPortProofs`, `CanDeviceStm32Proofs`, `TcpBackendProofs`, `DidHandlerProofs` | the theorems about these modules |
| `CanBitMappingProofs`, `CanToolsProofs`, `DesktopProofs` | the theorems about the bit fields, the other tools of `MCCanTools` and the services of `MCDesktop` |
| `MC...` | the instances for TLC |

`CanSerialPort` and `CanDeviceStm32` both implement `LossyFifo`: that is what each of them is for the
component above it. `MCCanTools` and `MCDesktop` extend modules that share no state. A behaviour of
theirs picks one tool or service (`tool`, `service`); the variables of the others stay in one initial state. So what a run
checks there is the definition the theorems name.

In every module an operator `Op_Bug` stands before `Op`: it is `Op` with a plausible bug, used
only to see that a property notices. An action named after a function stands for its whole handler; where a
function is cut into several actions, the cuts are the places at which another thread may come in between.

### CanSerialPort

Each access to shared state that the code makes outside `m_mutex` is a step of its own; what
it does under `m_mutex` is one step, except the wait, where the test of the predicate and the
blocking are two (`TestPredicate`, `Block`), because `OnDataReceived` and the destructor notify
without the mutex. The variable `worker` is the place of the worker in `WorkerThread` and
`SendPendingCanFrames`; the variables with the names of members are those members.

*Undefined behaviour.* `pop()` without the lock races with `push()` under it. `BeginPop` and
`EndPop` bracket it, and `PopResults` are the outcomes: both take effect; the pop writes back the
size it read, which undoes the push; after an overflow both pops remove the same element. Outcomes
that corrupt memory end the program and are not modelled; nor is a `shared_ptr` read by `front()`
while `AddToTxQueue` destroys it.

*Outages.* `SendPendingCanFrames` never looks at the port: what it drains after the port has failed is written to
a dead connection, popped, and counted in `wasted`, not in `written`. The worker notices between two drains; what is queued then stays.
That `AsyncSerial` delivers what a working port was given is outside the model (its source is unreadable).
`Init` replaces the device; its one caller calls it once (`ApplicationBase.cpp:45`), so it is not done to a worker that runs.

*Fairness.* Weak fairness for the worker (the operating system runs it; every wait has a
timeout), and for the two steps that end a destruction. Strong fairness of `WriteFrame` with
`is_remove`: a device does not keep a frame for ever. Nobody is obliged to queue, to receive, or
to destroy.

*Bounds.* Queue of 2: overflow, and the three lengths 0, 1, full. Four frames, so that the
queue can overflow and be refilled around a drain; two faults, an outage within an outage.

### CanDeviceStm32

A byte is the pair of its frame and its place in the frame. A record is 4 bytes instead of 19: a
magic number of one byte, and the CRC is a property of the window (`CrcMatches`: one whole frame).
That a CRC never matches bytes of two frames is an assumption. `MagicPlaces` are the places of
the payload that hold the magic number.

*Bounds.* A buffer of 7 bytes overflows; 5 frames and 3 faults let a second fault fall into the
recovery from the first. *Fairness:* the parser runs again and again, as `CanSerialPort` shows.

### TcpBackend

A handler that locks `m_IoMutex` is one step. `HandleWrite` does not lock it: it is split where it
tests the queue, tests `writeInProgress`, and acts. `BroadcastMessage` is split the same way; it holds
the mutex meanwhile. No readable code calls it, so it is called at any time, from a thread of its
own. `std::queue` operations of the two threads are taken to be atomic, and the strings not torn.
A `transferTimer` may be set anew when its previous wait has expired: `timers` counts the waits that
will still fire. Erasing from the set while another thread goes through it is undefined in C++: the
model goes on, and `IterationIsExclusive` shows where it happens.

*Fairness.* Threads run and obtain the mutex; a write that was started completes or fails; a timer
expires; closing the acceptor ends the accept. No client has to connect or send.

*Bounds.* Three sessions with two addresses (two that share one, and another); three broadcasts
and a reply on one session (two pending behind one that is written).

### DidHandler

`worker` is the place in `HandleDidReading` ("session", "answer", "settle", "clearing", "waiting",
"pause") and `HandleDidWriting` (the same with a "w"). What lies between two waits, or between a look
at the answer and the clearing of its length, is one step. A value is named by the DID that the ECU
was asked for, so that `m_DidList` shows whose answer a DID got. `m_UpdatedDids` is a set: that
a DID is listed twice (lines 145 and 260) makes no difference to the GUI.

The ECU answers in order. A "good" one answers before a wait or a pause is over, except for an
answer it has announced as pending. A "faulty" one also loses requests and answers late; it may
recover. `AddDidToReadQueue`, `WriteDid`, `NotifyDidUpdate`, `AbortDidUpdate` and
`OnIsoTpDataReceived` are unreadable; they do what their callers and `WaitForResponse` rely on.
`refused` remembers an NRC that leaves the DID pending: 22, and, after a pending response, any but 10.
With the latter the worker asks for the DID for ever, so the liveness properties except them.

*Fairness.* The worker runs (all its waits have timeouts); `DidTab` calls `NotifyDidUpdate` after what
it adds; an ECU answers the requests it does not lose, and does not stay faulty for ever.

*Bounds.* Two DIDs and two requests on their way: the answer for one can arrive while the other is
asked for, and a session answer after the next session request. What the GUI does is one of four: two reads and an
abort; two reads and a look at the updates; a read and a write; two writes (`Together`).

### DidGrid

`m_UpdatedDids` and the table change in one step per call of the timer: that the list loses what the worker adds meanwhile is
the subject of `DidHandler`. `did_to_row` makes a 0 for a DID that was never shown, as `operator[]` does. `UpdateDidList` would leave
out rows that do not match `search_pattern`, but that is private and nothing sets it, so the table is always filled with all DIDs. (Nothing calls
`UpdateDidList` at this commit either; the model does.) *Bounds.* Three DIDs, two values.

### CanScript

`place` is where the script thread is in `WaitForFrame`: the name of the awaited frame is set first, the flag of the last wait
cleared after it ("clear"), and reception may come in between. The wait has no other order with the frames than what the mutex gives. Which
frames of its kind came since the wait began is kept as history. *Bounds.* A script with two waits for one frame, and one that
waits for nothing it has sent; two frames on the bus.

### CanUdsRaw

Each line is sent by a `std::async` that gets a pointer to `byte_array`, which each turn of the loop fills anew. The default policy of
`std::async` is taken as a new thread. Assigning the next future waits for the thread of the turn before (`m_isotp_future` is its number), but
by then the array has been filled for the next turn. After the last turn the array is no longer there: a thread reads what is left on the
stack (`Stack`, anything), or what the next click has put there. A line that `unhex` refuses (`NoHex`) leaves the array as it was, and is sent
with the bytes that are in it. What a thread has read is kept in `sent`, with its turn and what the array held when it was started; so
`LinesAreAtMostOneLate` says how wrong a line can be, and that the wait in the assignment keeps it from being more so.
*Bounds.* Inputs of up to three lines, with delays, empty ones and one that is no hex; two clicks; one answer that is late; one identifier besides junk.

### BitFields, CanBitMapping

A byte is the function from its places to bits, so that a shift or a mask says where each bit goes; a `uint64_t` is a number, and
`Whole` and `WholeBytes` are the swaps that lead from one to the other. `copy_bits` may read one byte beyond the end of the
source: `Behind`. `IsBitwiseCopy` is the reference definition. `CanBitMapping` has the conversions of the handler (`std::stoi`, casts) by what they
do to a number. A copy has no state, so `CopyIsBitwise` looks at the data of a frame when the dialog shows it, before anything is typed.
*Bounds.* Bytes of 4 bits: an offset is inside a byte, at its border, and one or two bytes further, for sizes up to 12 bits; fields of 3, 4 and 6 bits that share bytes; values that are negative, fit, do not fit, or are no number.

### CanLogPanel, CanGrid

The timer of the panel looks at the vector without the mutex, finds its iterator ("list") and goes through the rest
("insert"). If the vector moves in between, the iterator is invalid: `panel` becomes "undefined", and nothing is claimed after it. In
`CanGrid` an entry that was removed leaves its address to the next one. *Bounds.* Four frames: the vector moves at 2, 3 and
5 entries; two frames and three addresses; three entries to send, two of them for one frame.

### IsoTpPoll

The clock is a number modulo `Word`, and `IsoTpTimeAfter` compares the difference as a signed number. What starts a transfer
and takes in flow control is unreadable; it is external and does what `isotp.h` describes. `granted` and `gap` are
history: what the receiver still allows, and the ticks since the last frame. *Bounds.* A clock of 6 wraps within a transfer; a
message of three frames, block sizes of 1, 2 and no limit, separation of 0 and 1.

### KeyInput

A key is the chunk of data its device sends. It is on its `wire`, in the `callback`, on the `link` to the other computer, among the
`reports` of the Corsair keyboard, executed, or lost: every failure of a port or connection says which. `CustomMacro` is
unreadable; it counts what it was given. *Bounds.* Two serial keys and two G keys, a report of none, two starts, one failure, three units
of time around the debouncing interval.

### DirectoryBackup, Sha256

A file's content is its version, a hash is the sequence of versions that went into it. Each step that reads or writes a file, and each
that may fail, is an action, so that the source may change, and the user cancel, at any of them. The
order of the hash at the first destination (the copy, then the source again) is the code's. `Sha256` keeps the blocks that
went into the state, and the padding byte by byte. *Bounds.* Two backups to two destinations, of two files, a directory, a
link and an ignored file, with one change, one failure and one cancellation; for the rotation two sources and three backups. Messages up to 150
bytes in pieces of 0, 1, 7, 54 and 64 reach 55, 56, 63 and 64 bytes in the last block.

### The other services

`LogFile`: a message gets its time before the mutex and is written under it; the search reads line by line. Four messages of two
threads (one filtered, one that does not parse), two searches, one clear. `Coins`: the timer's reads and writes of the atomics,
and those of the asynchronous read, are steps. Two prices, five units of time. `Lifecycle`: the orders of `Init` and of
`~ApplicationBase` are sequences, and a thread may ask for a part it uses as long as it runs; three such calls. What a thread has
made anew and nothing destroys is left over: the property asks for threads and calls only. `Settings`: what
`SaveFile` writes is what a restart has; two runs, three profiles; the first
has no name, as no readable code gives it one (line 31 would drop it). `MapConverter`: elements and lines of the script are
records; maps with vehicles of each kind of colour, with an unreadable element, and broken ones; the colours decide which conversions fail, and nothing
is claimed of them otherwise. `Screenshot`: a picture is its
header and pixels that are distinct by their place and colour; widths of 1 to 4 give every padding of a row. `unsigned short` is scaled to 32 and
`unsigned` to 1024, and there are pictures too wide, too high, with a height that is a negative short (once so that the size wraps and the test of line 179 lets it
pass), behind a table of colours that is too long, and with other masks. A search in `LogFile` leaves out each line it cannot parse, which counts
as left out by the search; whether a line is shown twice is not claimed. `AntiLock`: ticks modulo 6, in a run of 8.

## 3. Runs

| Run | Question | Answer |
|---|---|---|
| `can_port` | what may happen to frames when the queue is drained without the lock, and do wiped and lost notifications block anything | `PopFindsAFrame`, `ImplementsLossyFifo`, `LossIsAccounted` hold; frames drained into a failed port are lost; the 5 s timeout makes up for lost wake-ups (`EveryFrameLeaves`, `ReceivedBytesAreParsed`, `DestroyEnds`) |
| `stm32_recovery` | does the parser recover | yes, at the cost of one frame, if payloads do not contain the magic number |
| `stm32_magic_in_payload` | and if they do | **violated**: the parser can stay out of step |
| `tcp_sessions` | do sessions, messages and shutdown behave | the set has the right size; messages survive the unlocked handler and the timer unless a write fails or two are started at once; graph sessions end, the destructor ends |
| `tcp_active_sessions` | does the set hold the sessions that are open | **violated** by two clients with one address |
| `tcp_unlocked_write` | is the set left alone while it is gone through | **violated** by `HandleWrite` |
| `did_both` | does the worker pop and fill the DID it asked for, does the GUI see it, do requests end | yes with a punctual ECU; an update is lost only between the GUI's look and its clear; requests end once a faulty ECU has recovered, but for the exceptions above |
| `did_late_answer` | does a DID get its own value when answers are late | **violated** |
| `did_writes` | is every write sent | **violated** by a `WriteDid` during the loop |
| `can_tools` | do bit fields, scripts, tables, the raw dialog and ISO-TP keep to their data and partners | yes: see the comment over each property of `MCCanTools` |
| `desktop` | do the desktop services survive failures, wraps, restarts and their own threads | yes: see the comment over each property of `MCDesktop` |
| `backup_rotation` | does the rotation of one entry leave the backups of others alone | **violated** when one name begins the other |

No run checks for deadlock: each system may really stop, when the owner is gone or when nothing
more is sent.

### Findings

1. `CanDeviceStm32.cpp:53` drops a whole window after a CRC mismatch. Dropping one byte, as line 58
   does, would keep the recovery that the comment in line 60 describes.
2. `Session.cpp:131` compares IP addresses to find the session itself.
3. `Session.cpp:61`: `HandleWrite` is the one handler that does not lock `m_IoMutex`.
4. `DidHandler.cpp:189` does not compare the DID in the answer with the one asked for.
5. `DidHandler.cpp:370` clears all pending writes, those added during the loop included.
6. `DirectoryBackup.cpp:322` takes every directory whose name begins with the source's name for one of its backups.

Besides, seen while modelling and without a line of the repository that says otherwise, so without a run. The
models do what the code does in each case, or exclude it where the property says so:

- `DidHandler.cpp:233` keeps a DID whose pending response ends with an NRC other than 10, for ever; `DidHandler.cpp:373`
  lets an abort while the worker is idle swallow the next notification.
- `SerialPort.cpp:78`: `to_exit` is never reset, so a port that is stopped and started again ends its worker.
- `TcpMessageExecutor.hpp:34` forms the address of a member of a null session before it is set.
- `MapConverter.cpp`: after a bad colour the loop of line 130 counts towards a moving end; line 159 reads a sixth colour where
  five are enough to come there; the objects of a race map have alpha 0 (line 36), which counts as hidden; line 175 drops the number plate
  of a vehicle that needs nothing else.
- `Settings.cpp:109` and `:151` do not write the size of the window and the backup entries.
- `CanTab.cpp:236`: the bit editor's caller does not write the edited bits back, and line 242 writes them to the table of received frames.
- `CanUdsRawDialog.cpp:263` refills `byte_array` for the next line before the thread of this one has read it, or it goes out of scope; line 264 leaves
  it as it was when `unhex` refuses the line, which is sent all the same.
- `CanSerialPort.cpp:187` goes on draining the queue into a port that has failed.
- `PrintScreenSaver.cpp:165` reads two bytes of the offset of the pixels, so a picture behind a huge table of colours is saved from the wrong place; the
  masks of a picture are skipped and never looked at, so one with other masks than the usual is saved in wrong colours; a picture stored from above is not saved at all. `TakenForGranted` names what the property leaves out.
- `gui/mainwindow.cpp:23` shows the prices it read before the update.
- `AntiLock.cpp:24` takes the last character of a list that may be empty: undefined, and harmless in the model.
- `CorsairHid.cpp:94` closes the handle before the thread that uses it is stopped.

## 4. Proofs

All theorems hold for every value of the constants, under the assumptions each module names. Some say what a constant is (queues
hold at least one frame, bounds are numbers, `NoAddress` is no address, a list is a sequence). The others say what the code
relies on:

- `MappingAssumption`: an `int` is not wider than a word, and a frame is not longer; `ApplyEditingOnFrameId` copies the frame into 8 bytes.
- `IsoTpAssumption`: the word of the clock is even, as `IsoTpTimeAfter` needs for its signed difference, and a separation time
  is neither longer than the time-out nor half a word. In the code the word is 2^32 ms, the time-out 10 s, and a separation time one byte of ms.
- `DidIdsAssumption`: no DID is listed twice; `m_DidList` is a map.
- `OrderAssumption`: every thread `Init` starts is destroyed, and before the parts it uses by pointer, and the logger once and last. The
  comments of `~ApplicationBase` ask for it, and TLC evaluates it on the orders of the code.
- `AntiLockAssumption`: no title holds the separator of the list.
- `ShaAssumption`: the length begins within a block.
- `ShotAssumption`: a short is not longer than an int; of the pictures, what Windows guarantees of a packed bitmap: the width is positive, a header is not shorter than
  `BITMAPINFOHEADER` and announces the masks and colours that are there; and that a picture is smaller than 4 GB, in the clipboard and decoded.
- `MapAssumption`: the name of an element stands for the element, so no map has one twice. The code does not compare names.
- `SettingsAssumption`: no name of a page is part of another's. `ParseUsedPages` looks for each name in the line with
  `find`; the names in the code are such.

Each inductive invariant was model-checked before it was proved. The library's induction theorems take a predicate, which the provers cannot
instantiate. But its theorem that a set of numbers has a least element takes a set. From it `SequenceFacts` proves that a set with
0 and every successor has all numbers (`Upwards`), and that a recursive function is what its equations say (`Recursion`). What loops and filters
compute is proved with these two: the powers and digits of `BitFields`, the fields of `CanBitMapping`, the blocks of `Sha256`, the rows of `CanGrid`, `DidGrid` and `CanLogPanel`, the lines of `LogFile`, `Settings` and `MapConverter`.

**`CanSerialPortProofs`**: `TypeCorrectness`, `NeverPopsEmpty`, `Refinement` (the port implements `LossyFifo`) and
`EachLossHasItsCause`.
`PopFindsAFrame` is not inductive by itself. `IInv` adds: what the counters bound (`CountersInv`);
that the queue, and the copy of it an
overlapped `pop()` may restore, are increasing (`OrderInv`); and how what the worker holds relates to
the queue and to what was written (`HandInv`): before the write, the frame in hand is younger than
all that was written and not younger than the head of the queue; from the write to the end of the
pop, the head of the queue is not older than the last frame written; at all other times it is
younger. Every outcome of `PopResults` leads back to the last case. The proof has one lemma per action that matters and one for the steps that
leave the path alone (`QuietStep`).
`LossIsAccounted` rests on `LossInv`, in which a frame is charged early: one that an overflow took from the queue while the worker holds it is charged
at once, although it is still going to be written; writing it moves the charge to the head of the queue, which the pop then takes (`WritingIsFree`).
A write into a failed port charges its own frame. So while the worker is about to pop, what counts is the queue, or the copy of it, that the pop would leave. `CostGrows` and `QueueingIsCharged` do the counting.

**`TcpBackendProofs`**: `TypeCorrect` and `SetIsBalanced`. `StopAsync` closes one session and erases a session of the same address, which
may be another one. So the set need not be the set of the open sessions (finding 2), but per address it has as many, which is what
`SetCountsOpenSessions` says and `StopKeepsBalance` proves; `QuietKeepsBalance` serves the actions that open and close nothing. `IInv` adds to the types:
a session that writes, or waits for `HandleWrite`, has a message (`Sound`, `MessageInv`), and a session that nobody has connected to has no
address and is in no set (`AddressInv`), which is what `HandleAccept` needs.

**`DidHandlerProofs`**: three results. `PopsWhatItAskedFor`: the GUI only appends, which
keeps the front of a deque that is not empty; a step of the worker either stays within one request (`FrontStays`),
pops what it asked for, or leaves `ReadPlaces` (`FrontLeaves`). `UpdatesAreLostInTheClearOnly` carries along which updates were not shown
(`UpdateInv`). `ValuesAreOfTheirDid` is the positive half of finding 4: answers are not compared with the DID, and yet none goes astray when the ECU is punctual.
`TimeInv` says why: before a session is open, only a request that the ECU announced as pending and that is at its head is no
session request; an open session has at most one request on its way, its last. So what is looked at is what was asked for.

**`CanDeviceStm32Proofs`**: `TypeCorrect`, `DamagedFramesStayOut`, `RecoveryIsBounded` and `StreamRefinement` (the parser implements
`LossyFifo`). `IInv` describes the buffer: it is what is left of the line, so the places of its bytes climb and nothing is missing between two of
them but bytes of damaged frames (`Stream`); and of a damaged frame a byte is past and gone (`Torn`), so that no window is ever all of it. What was received is older than all that is left (`GotInv`). So a window whose CRC
matches is one intact frame, younger than the last, which is both the refinement and `DamagedNotReceived`. That one more frame is lost at most
needs that payloads hold no magic number, and then `BegunInv`: of a frame that is neither damaged, nor received, nor next to a damaged
one before it, the first byte is still in the buffer once it was sent. `MagicPlaces` empty is a
premise of `RecoversAfterOneFrame` itself, because finding 1 is what happens otherwise.

**`TcpBackendProofs`**, further: `MessagesStayInOnePlace`. What a session was given is written, pending, in the write under way, dropped, or lost for a named
reason, and in one of these places only (`KeptSes`). New messages are new: `FreshInv` says that a broadcast under way has not been given to
those it is going to visit, and that a session that reads has no reply.

**`CanBitMappingProofs`**: `CopiesAreBitwise` and `WrittenFieldsReadBack`.
- `CopiedByte` follows one bit of one byte through `copy_bits`, in the cases of its code: the byte is the first, one of the whole ones, the last, or none of
  them. The byte behind the source is read only for bits that a mask takes away again.
- `WholeOfBytes`: shifting a number to the right and reading its last digits, and doubling and adding the digits, are inverse, for numbers below
  `PowerOf2[WordBits]`. With `CopiesAreBitwise` that is `SetThenGet`, for a value that fits, and `SetLeavesOthers`.
- `CastOfWord`: a number that was cast to a type, then to a word, is the same in that type again; a wider word is a multiple of a narrower one (`PowersGrow`).
- `EditedReads` goes through the fields in their order: those written so far read what they were given, the others as in the frame.

The fields must be apart, inside the frame and of types that are written, as `FieldsAreApart` says; nothing in the code sees to it.

**`CanToolsProofs`**:
- `LinesAreSentInTime`: a thread that has not read the array yet is of the last turn or, until the future is assigned, of the one before (`TaskInv`); so the array is
  never more than one turn ahead of its thread.
- `WaitsReportTheirOwnFrame`: while it waits, a frame marked as received was seen since the wait
  began; before `ClearReceived` this does not hold, which is why the order of the two lines in the code does no harm.
- `RowsFindTheirEntries`: addresses of entries are distinct (`Known`), the list of addresses is as long as the table and without
  duplicates, and `ElementsAt` keeps both when a row is removed.
- `RowsAreAPrefix`: the numbers of the recorded frames climb (`RecordInv`); the iterator stands behind
  what was inserted (`PanelInv`); a search keeps the order of the rows.
- `PausesAndGrantsAreKept`: `PauseInv` says that the timer is as far ahead of the clock as the pause is short, with or without one turn of the clock.
- `DidsAreInTheirRows`: the table is the list of DIDs, row by row, and its texts are right or announced.

**`DesktopProofs`**:
- `EachKeyOnce`: the places of a key are disjoint, no sequence holds one twice, and it is executed just if it was pressed and is neither
  under way nor lost.
- `NeverThreeReads`: a read begins only when all but the last began a period ago, because a timer that was told so may act on it late, but only once.
- `NoThreadOutlives`: who runs during the destruction is still to be destroyed, for a singleton made anew has no thread.
- `CopiesAgree`: all that was accepted has the hash the first comparison fixed.
- `EachMessageIsSomewhere`: a line of the file that a search has not come to yet may be missing in the tab (`StillToFind`); no other may.
- `OnlyTheIdleAreDisturbed`: a difference of ticks modulo a word is right within a turn, and names joined and split again are the same names.
- `DigestsAreOfPaddedMessages`: the blocks and the buffer are the message cut into blocks, byte by byte (`HasTaken`); the padding has two cases.
- `ScreenshotsAreUpright`: the pixels begin where `GetPixelDataOffsetForPackedDIB` says, and no row reaches beyond the picture; two bytes hold no more than
  the width and the height (`ShortIsNoMore`), so an image that is large enough for lodepng is as wide and as high as the picture (`NoLargerNoSmaller`).
- `RestartsChangeNothing`: sections are numbered without a gap, so all are read; a profile that is written and read behaves as before.
- `ScriptsMakeTheirMaps`: the items are the supported elements, by types and each once (`ItemsComeFrom`); the lines of an item are of its kind
  (`WrittenAsMade`), for every choice of colours; they stand together in the script, and no other line has their name (`ScriptDescribes`), by induction over the
  items. What follows counts the lines of one place (`DescribedIsOfTheMap`).

Every safety and action property that a passing run checks is proved. Only model-checked is all liveness (`EveryFrameLeaves`,
`ReceivedBytesAreParsed`, `DestroyEnds`, `IntactFramesArrive`, `NothingStaysPending`, `RepliesEndTheSession`, `DestructorEnds`,
`EveryReadEnds`, `EveryWriteEnds`): the prover does not handle it under fairness.

## 5. Not modelled

- Unreadable at this commit: the files named at the top, that is sensors and their part of the database, the power saver, the Lawicel device, the struct
  parser, the path separator, the commands, the macro recorder, the root `mainwindow.cpp`, the rest of `isotp.c`, and the parts of
  `CanEntryHandler`, `CanScriptHandler`, `CustomMacro`, `DidHandler`, `Settings` and `MapConverter` that the modules mark as external.
- `SymlinkCreator`, `TerminalHotkey`, `DatabaseImpl`: single calls of the operating system or of SQLite, without a state to be wrong about.
- The layout of the panels, the text of messages, and third-party code that is only called (`sqlite`, `enumser`, `lodepng`, `boost::asio`).
- Two properties of the TCP backend that do not hold and that no line claims: that a reply is complete before the timer closes its session, and that
  the server accepts again after a failed accept.
