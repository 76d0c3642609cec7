# econt_sw: specification and proofs

`econt_sw` drives the test stand of the ECON-T ASIC: slow control over I2C,
alignment of the links between ASIC, emulator and FPGA, delay scans, and data
taking.  This directory holds TLA+ models of its programs, the TLC runs that
check them on small instances, and TLAPS proofs of their main properties for
every instance.  File names below are relative to `src/econt_sw/`.

To check a run: `tlc -config X.cfg M`, with `X` and `M` from the table of runs;
to check the proofs: `tlapm X_proofs.tla`.

## 1. The system

| Part | Where | State | Operations |
|---|---|---|---|
| I2C board object | `zmq_i2c/econ_interface.py`, `zmq_i2c/translator.py` | write cache, default register map, the chip's registers | initialize, configure, compare, read |
| I2C server and its clients | `zmq_i2c/zmq_server.py`, `testing/zmq_controller.py`, `testing/i2c.py` | REP/REQ sockets in lockstep, place in the dialogue | one- and two-part requests, timeouts |
| Data puller | `sources/analysis/executables/zmq-client.cxx`, `sources/analysis/include/pullerFSM.h` | state machine shared by two threads, reader thread, PULL queue | configure, start, stop, ctrl-C |
| Link server | `sources/main/executables/zmq-server.cxx`, `sources/main/src/LinkAligner.cc` and the block handlers | link status, configuration, registers of the FPGA | configure, start, delay scan, stop |
| Python DAQ | `testing/zmq_server.py`, `testing/hexactrl_interface.py`, `testing/utils/stream_compare.py`, `testing/utils/link_capture.py` | counters of the stream compare, captures, the data kept for `getdata` | startdaq, stopdaq, getdata, emptyfifo, testvector |
| Alignment algorithms | `testing/latency.py`, `testing/set_econt.py`, `testing/eRx.py`, `testing/eTx.py`, `testing/utils/io.py`, `testing/PRBS.py`, `testing/PLL.py` | none of their own, registers of FPGA and ASIC | word alignment, output alignment, latency scan, phase scan |
| Event DAQ, fast control | `sources/main/src/eventDAQ.cc`, `sources/main/src/FastControlManager.cc` | fast command registers | run thread, requests |
| Process web server | `webserver.py` | tables of processes and of websockets, one lock | click, run, broadcast |
| X-ray campaign | `XrayTID_Testing.py` | counts of bad passes and failed resets, what the chip is tuned to | pass, scan at another voltage, ladder of resets |
| Instruments, other scripts of campaigns, register maps, configurations, address tables | `gpib/`, `*_Testing.py`, `testing/*_tests.py`, `zmq_i2c/reg_maps`, `configs/`, `address_table_reference*` | data and pure I/O | one-line commands |

How they interact:

* Test scripts hold one `i2cController` (a REQ socket) for each of the two I2C
  servers, one for the ASIC and one for the emulator.  A `configure` or `read` is a
  dialogue of *two* requests, so the server has a place in a dialogue between
  two receives.
* The I2C server passes each command to its board object, which turns it into
  many bus transfers.  Other programs drive the hard-reset line of the same
  chip (`testing/utils/asic_signals.py`).
* A client configures the link server and the data puller over REQ/REP; a delay
  scan in the link server then pushes three messages for each scan to the data
  puller over PUSH/PULL.
* Inside the data puller the command thread and a reader thread share a state
  machine, the configuration and, if a client starts twice, the socket.
* The web server starts and ends the servers, one thread following each.
* `XrayTID_Testing.py` drives all of the Python side in one loop of weeks, with
  two `i2cController`s for one chip: its own and that of `set_econt.py`.
  Each sends, with every write, all that it has ever been told to write
  (`merge` in `testing/zmq_controller.py:68`, `testing/i2c.py:161-166`), so
  each write of one brings back what the other has changed.

What is hard in it: bus transfers that fail in the middle of a command and
retries of them; resets the software is not told of; dialogues of two requests
over a server that does not know who is talking to it; a state machine whose
events come from two threads and are refused in silence; messages that wait in
a queue while the reader leaves; commands that wait for ever on hardware or a
peer; configurations that fail halfway; tables that handlers and threads change
without a lock, and a lock that an exception does not give back; writes that
bring back old settings; recovery that must neither start on stale counts nor
be forgotten.  `PROJECT.json` lists each of these
hazards at its line.

What makes each part correct:

* board object: the cache says what is in the chip; configure changes what it
  was asked to change and nothing else; compare tells differences;
* dialogue: each call of a client has its own effect, the server survives;
* data puller: one reader, one file for each scan, kept until a later session takes its name; nothing lost that could be seen; stop ends;
* link server: "Running" only after an alignment that succeeded; counters read
  at the delay they are stored under; a scan ends;
* Python DAQ: a stop leaves nothing for the next run, the rows handed out are
  complete and of the stop just reported;
* alignment algorithms: a scan stops only with all links in one row; links
  that can meet do; ASIC and emulator are aligned before they are compared;
* web server: what runs is in the table and can be stopped, pages are told the
  truth, the lock comes back;
* X-ray campaign: errors are counted only of a tuned chip, resets answer to bad
  passes and to nothing else, comparisons are not given up for good.

## 2. The modules

| Component | Specification | Model checking | Proofs |
|---|---|---|---|
| I2C board object | `EconInterface` | `MCEconInterface` | `EconInterface_proofs` |
| I2C dialogue | `I2cDialogue`, abstractly `I2cCalls` | itself | `I2cDialogue_proofs` |
| Data puller | `Puller`, abstractly `DataTaking` | itself | `Puller_proofs` |
| Link server | `LinkServer` | `MCLinkServer` | `LinkServer_proofs` |
| Python DAQ | `DaqServer` | itself | `DaqServer_proofs` |
| Process web server | `WebServer` | itself | `WebServer_proofs` |
| Alignment algorithms | `OutputAlign` | itself | `OutputAlign_proofs` |
| X-ray campaign | `XrayTID` | itself | `XrayTID_proofs` |

### EconInterface

A register is a function from its fields to numbers: the parameters of its map
entry, and `Rest` for the bits no parameter's mask covers.  `chip` is the ASIC,
`writeCache` the attribute of the same name; `phase`, `todo` and `got` stand for
where `configure`, `compare` or `read` is in its loop over registers.
`pairs_from_cfg` and `regVal_from_paramValues` are the functions of
`translator.py` of those names, reduced to what they do to a field: a value
taken whole, a parameter cut to its mask, the previous value kept, the rest
cleared.  Every bus transfer is an action of its own (`ReadReg`, `WriteReg`), as
are its failures (`RetryRead`, `RetryWrite`: the retry is a nested call, so
`depth` counts frames and `Die` is the interpreter's `RecursionError`).  A read
that was retried yields `None`, which is what the code returns.  `HoldReset` and
`ReleaseReset` are the reset line, which another process drives at any moment.
`start`, `disturbed` and `stale` are history variables for the properties.

### I2cDialogue and I2cCalls

Any number of clients and one server over REQ/REP.  A client is in `"command"`
or `"payload"` while it waits for the answer to its first or second request;
`at` is the receive the server is in.  `ServeCommand` and `ServePayload` are the
two receives of the server loop: the second takes whatever comes as the
configuration, and a request the first does not know is left without an answer,
after which the next receive on the REP socket raises and the server is `"dead"`.
`Receive` has the difference between `configure`, which looks at the answer to
its first request, and `read`, which does not.  `Timeout` is `RCVTIMEO`: the
exception ends the program, with its last request perhaps still to be
delivered.  What a configuration does to registers is `EconInterface`'s matter;
here `board` is the last configuration written.  `mixed` records that a
two-part dialogue met another call or was given up, `effect` the clients whose
call was carried out as it was meant.

`I2cCalls` is what clients rely on: a call is carried out once, at one moment between
its beginning and its return, one that was given up at most once, and nothing else
changes the board.  A client waits there while it does in `I2cDialogue`; its call is
pending until it is in `effect` or, if it gave up, while its request is on the way.

### Puller and DataTaking

`fsm` is the state machine with its table; an event without a row is ignored,
as in `pullerFSM.h`.  `cmd` is the place of the command thread, `reader[i]` that of
the thread of the i-th start, down to the single test or receive between which
the other thread can act: in particular the non-blocking receive (`Poll`) and
the look at the state that follows an empty one (`Empty`) are two steps.  The
wire holds the messages of a scan in order: START, one archive, END.  `Leave`
discards what is queued, `Uncaught` is an exception in the reader, which ends
the process.  A file has the name made of the `output_directory` in `config` and of
`fileID[i]`, which every reader counts from 0: `Poll` opens it and with that truncates
what is stored under the name, `Save` closes it.  `disk` has the closed files that are
still there, `saved` all that were ever closed.  `client`, `saved`, `fresh` and
`lost` are history.  The constant `Careful` says whether the client sends configure, start, stop in this
order.

`DataTaking` is what a careful client relies on: between the answers to start
and to stop, scans are stored in the order they are taken, none twice, and at no
other time.  `Puller` implements it with `open <- client = "started"` and
`stored` the scans of the files that hold data.

### LinkServer

`linkstatus`, `elinks`, `fromIO` and `port` are `m_linkstatus`, the links of the
captures, of `m_fromIO`, and `m_port`; a configuration can fail before or after
any of them is replaced (`BadEntries`, `HalfConfigured`).  `align()` goes through
its key presses and the two searches for BX0; what the captures show is any
function from links to positions, so every reading of the hardware is covered.
`findBX0` is the comparison the code makes: links that show nothing drop out
of it.  A delay scan is one action for each link and delay (`SetDelay`,
`TestDelay`), as the delay lines of the other links may still be moving.
`interrupt_handler` sets a flag that is looked at between commands, and breaks a
blocking send or receive.  `earned` and `shown` are history.

### DaqServer

The server loop, the hardware under it and the clients.  `at` is the next
dispatch of the command being carried out, `cmd` and `serving` the command and
its client, `place` the capture and link the loops over captures and links have
come to.  Every dispatch of uHAL is one action (`Arm` to `TakeWords`), since the
firmware goes on between any two: `Mismatch` counts a differing word and, with
`trigger` set, adds a capture to the FIFO of every armed link.  In `get_captured_data`
(`Fetch`) the trigger is off and no other client is served, so it is one action
for each capture.  `Return` and `Die` are the two ends of a command: the
`KeyError` of `stop_daq`, or sending data there are none of, ends the server
with the requests in its queue, and `Restart` starts it with the hardware as it
was.  `fifo` counts captures, not words.  `fired`, `raced`, `told` and the number of a
stop are history.

### WebServer

`pc[p]` is the place of the handler of page `p` in `handle_socket`, `at[t]`
that of the thread of process `t` in `run` and `broadcast`.  `wsocks` and
`procs` are the two tables.  The handlers are greenlets of one thread and give way
only where they receive or send, so while a click is handled (`click` holds its
place) no other handler runs; the threads do, between any two reads of `procs`:
`Look`, `Poll`, `Terminate`, `Spawn` and `StartThread` are the four reads and
the writes of lines 51-55, and `KeyError` is what each read can meet.  `Greet`
and `Send` are loops over a dictionary which another thread may change:
a changed size raises, as does a closed websocket.  A greeting takes two steps for
each name: `GreetWith` picks it from `procs`, `Tell` or `TellFails` sends it, and
threads run in between (`click` then has the step `"tell"`).  An exception in `broadcast`
ends the thread with the lock (`SendFails`).  `Leave` is the browser,
`End` a process that ends, by itself or by SIGTERM.  `shown` is what a page
shows.  `doubled`, `raced`, `late` and `unquiet` are history: each names the one
situation that a property excepts.

### OutputAlign

One call of `output_align` or `bypass_align`.  `offset` is the row at which each link
of ASIC and emulator first shows BX0 without a latency, or `NoRow`: any function,
chosen when `align` begins.  `find_BX0`, `MatchOrbit` and `match_BX0` are the
functions of `latency.py`: the rows of two orbits, and the three answers of
one pass (go on or stop, which links get the next value, the new reference).
`Verdict` with `None` is the answer when no branch is taken; `None` as an index
selects every link, so all of them get the next value.  `TryValue` is one pass
of the loop of `scan_latency`; `FoundASIC` to `FoundReverse` are what `align` does
with what a scan returned.  The number of links is that of the active ones
(`neTx`), and `bypass_align` begins with latencies of 0.

What the model shows of the code besides its properties: with the default
`start_emulator=0` of `output_align` the reverse search has an empty range, returns the
reference it was handed and is logged as "Found latency and BX0 word"
(`latency.py:206-208`) although nothing was moved, which is why `AlignedIf`
has so few cases; `np.any(latency_emulator)>=0` (204) is always true; a
reference of `None` raises in the message of line 205.

Links that start in one row, or in two, always meet in the late one.  Links in three or
more may jump over each other, because a link that sat out a value goes on with the value
of the moment: `InReach` is a condition under which none does, and `LinksMeet` says so.  Other
links may meet in a later row if there are latencies left: of three links in rows 0, 1 and
2 that have latencies up to 4, those meet whose first link is not the early one, and with
5 all do.  Any row that is not the reference soon ends a scan of links that are together
(`latency.py:110-119`): `bypass_align` comes to try 13, perhaps 14, then 12 and perhaps 11,
and finds no emulator but one that is 12 to 14 rows early.

### XrayTID

`at` is the place in the loop, a step for each statement that decides something
or touches the chip; `i` is `i__`, which matters only modulo the period of the
scans.  The variables under `count` and `resets` are the script's, the ones
under `chip` what it has done to the chip: the voltage, the `CapSelect` of the PLL
in the chip (`capSel`) and in the accumulated configuration of the script's client
(`own`), the voltage and `CapSelect` at which the phases, the inputs and the outputs
were found.  `configureASIC(l)` is the function of that name, level -1 included.
`set_econt.py`'s client always brings back the `CapSelect` of `startup.yaml`,
the script's own the last one chosen; each action has the client that writes
last.  `SetVoltage` may give up; `Except` is any exception, `Interrupt` ctrl-C.
`missed` and `streak` are history.  The voltages are those the code sets, 1.32 V half
way through the period and 1.08 V after three quarters; the comments of the flags have
them the other way round (section 3).

## 3. The runs

| Run | Instance | States | What it shows |
|---|---|---|---|
| `econ_interface` | two channels with two parameters, one plain register, 3 configurations, 1 nested retry | 400 000 | `ConfigureIsExact`, `InitializeRestoresDefaults`, `CacheCoherent`, `CompareIsSound`, `NoInventedValue`, `CommandEnds` |
| `econ_interface_retry` | the same | violation | `ConfigureTakesEffect`: a read that was retried leaves its register out of a configure that is answered as done |
| `i2c_dialogue` | 2 clients, 2 calls each | 36 000 | `ServerInStep`, `CallsAreAtomic` (steps of `I2cCalls`), `CallsEnd` |
| `puller` | careful client, 2 starts, 3 scans, 2 output directories, ctrl-C, 1 death of the server | 82 000 | `FilesAreScans`, `NothingVanishes`, `LossIsLate`, `StartNeverRefused`, `SessionSpec` (refinement), `StopEnds`, `InterruptEnds` |
| `puller_careless` | any client, 3 starts, 2 scans, 1 death | 1 260 000 | `RunningHasReader`, `NoScanTwice` |
| `puller_stop` | careful client, 1 start | violation | `StopStops`: a stop that overtakes the reader is refused, and its join waits for ever |
| `link_server` | 2 links, 2 positions, 2 delays | 200 000 | `ReadyIsEarned`, `CountedAtDelay`, `DelayScanEnds` |
| `daq_server` | 2 clients, 5 calls, 2 links, FIFOs of 2 captures, 2 mismatches | 800 000 | `RowsAreWhole`, `StopLeavesNothing`, `StopDiesOnly`, `DataOfTheStop` |
| `web_server` | 1 server, started twice, 2 pages, 2 machines, 1 line of output | 395 000 | `LockIsReturned`, `LiveIsListed`, `OpenIsListed`, `ShownIsTrue`, `StopForgets` |
| `output_align` | 3 links, latencies 0 to 4, offsets 0 to 2 or none, orbit of 12 rows, capture of 13 | 126 000 | `StoppedScanMeets`, `LinksMeet`, `AlignedIf`, `BypassAligns` |
| `xray_tid` | 3 `CapSelect`s, periods of 6, 12 and 24 passes | 225 000 | `CountsTuned`, `RunsBetweenPasses`, `OneFailedLadder`, `LadderIsTimely`, `VoltageOnSchedule`, `ComparisonResumes` |
| `xray_tid_phases` | the same | violation | `PhasesFitCapSel`: after the hard reset of a ladder the chip has the phases of one `CapSelect` and runs with another |

The type invariants `TypeOK`, and `Lockstep`, `OneReader`, `OnlyMergesAreSkipped` and
`BothPhasesTried`, are in no run: they are proved for every instance (section 4).
The runs
that end in a violation each show one disagreement of the code with a comment or
docstring that is quoted under `findings` in `PROJECT.json`.

Five more disagreements are in the models without a run of their own.  A
second start without configure is answered "Data puller running" and its thread
refused (`zmq-client.cxx:131`): that is why `StartNeverRefused` asks for a careful
client.  A link that shows no BX0 drops out of the comparison and does not
keep the link server from "Running" (`LinkAligner.cc:299`): `ReadyIsEarned`
says "in `{target, NoPos}`".  After a delay scan the links stay in the manual mode,
and an alignment goes by them (`LinkAligner.cc:500`).  A client that reads may have its
registers written, if the server takes them for another client's configuration
(`zmq_i2c/zmq_server.py:47`): `CallsAreAtomic` excludes just that, until `mixed`.
The comments of `doPhaseScans_B` and `doPhaseScans_C` (`XrayTID_Testing.py:444-445`)
say "minutes 10-15 (1.08 V)" and "minutes 15-20 (1.32 V)"; the code sets 1.32 V at the
first and 1.08 V at the second (500-533).  `VoltageOnSchedule` states the schedule
of the code and holds; with the schedule of the comments, which is the mutant of its run,
it does not.

**Bounds, and why they are enough.**
*EconInterface*: two registers of one map entry and one without parameters give
every pair of "configured by value / by parameters / not at all"; the three
configurations include a value beyond its mask, one too wide to convert, a
parameter left to its previous value, and the empty configuration; one nested
retry separates "read at once" from "retried" and from "one too many", and the
code tells no more apart.
*I2cDialogue*: two clients with two calls each let a client be met in either
half of a dialogue and come back afterwards; the misdirected read needs a third
client.
*Puller*: two starts give a session after a session, with the output directory of
the first or another; three starts a careless client with two readers in the loop; a
scan that waits, one that is read and one that is being sent are three.  The runs without
a property of files on the disk have one directory.
*LinkServer*: two links are needed to disagree, two positions to disagree about,
two delays for a delay line to lag behind; configurations with too few links
are included.
*DaqServer*: two links are the first and the last of a capture, with a place
between them for a trigger to fall into; two mismatches fill a FIFO; five calls
are configure, start and stop by one client with two of another in between.
The properties say nothing of a counter that rolls over: mismatches are fewer
than 2^32.
*WebServer*: one name started twice has an old thread beside a new process; two pages
of one machine share an entry, two of two do not; one line of output puts a
broadcast between UP and DOWN.
*OutputAlign*: three links are in one row, in two, or in three; five latencies are
more than the offsets span, so a scan that diverges runs to its end;
the second orbit is seen of an offset of 0 and not of the others.
*XrayTID*: the periods keep the proportions of 6, 60 and 120 passes that matter: every
scan is a capture, every capture a comparison, and there are passes with none of them
in between, four between two scans at least.  Three `CapSelect`s are that of
`startup.yaml`, the forced one, and another.
The proofs below cover the safety properties without bounds.

**Fairness.**  *EconInterface*: the server loop goes on (it is one thread with no
wait of its own).  *I2cDialogue*: `Receive` and `Timeout` of a waiting client,
since the receive timeout is set in the constructor; nothing is assumed of the server,
so `CallsEnd` holds also when it is dead.  *Puller*: every thread of the process
is scheduled and the link server goes on with a scan it has begun; clients,
operators and new scans are free not to come.  `StopEnds` and `InterruptEnds`
hold also after deaths of the server and except only `CutOff`: a reader in the receive
of a scan that a death has cut off, which has no timeout.  *LinkServer*: the thread runs, a delay line reaches the
delay it was set to (the code polls for that without limit), and a data puller
connects again and again; as it may also leave, `Send` needs strong
fairness, which a blocking ZeroMQ send to a peer that keeps returning
provides: the send is woken as soon as a peer is there.  *DaqServer* and
*OutputAlign*: none, as only safety is checked there.  *WebServer*: handlers and
threads that can go on do, and a process that was sent SIGTERM ends; nobody has to
come, click or leave.  *XrayTID*: it is one sequential program that never blocks, so a pass goes
on unless something ends it.

## 4. The proofs

All are by induction over `[Next]_vars`; `TypeOK` is proved first, with the
Boolean variables apart as they suit another backend.  Assumptions are the
named `ASSUME`s of the specifications: counts are natural numbers, sentinels
differ from values, default and reset values are words, and
`MapAssumption` that configurations are of the shape the translator accepts.

* **EconInterface.**  None of `CacheCoherent`, `ConfigureIsExact` or
  `CompareIsSound` is inductive: they speak of the end of a loop.  `IInv` says what is
  true in its middle: every register to be read was read (`ReadComplete`) and
  holds what the chip held or `None` (`WhatWasRead`); nothing was written while
  reading (`UntouchedWhileReading`); the cache is the conversion of the
  configuration with what was read (`Converted`); written registers hold the
  cache, the others what they held, and a register whose write is being retried
  either (`WrittenSoFar`); until a command ends "reset since it arrived" and
  "reset since the last configure" are the same (`SameReset`).  With resets in the
  middle of a command `Traced` says where values come from: what was read is what the
  chip held when the command came, or what a reset left.  Theorems
  `TypeCorrect`, `CacheIsCoherent`, `ConfigureExactness`, `DefaultsRestored`,
  `CompareSoundness`, `SkippedMerges`, `ValuesTraced`.  `CommandsRunDown` counts, for a
  finite register map, what is ahead of a command (`Ahead`): every step of the server
  takes something off it or goes one retry deeper, to `RecursionLimit` at most.
* **I2cDialogue.**  `Lockstep` is inductive with `TypeOK`.  `ServerInStep` is not: it
  does not exclude that the server waits for a configuration of one client
  while another's command is on the way.  `IInv` adds, for histories in which
  nothing was mixed, that an open two-part dialogue is alone and that its client
  is at one of four places that fit the server's (`TwoPartClient`).  `FreshInv` says
  that a call whose request is on the way, or that is to send its configuration, has not
  been carried out, so that none is carried out twice; with it each step is one of
  `I2cCalls` or a stutter (`AtomicStep`), and behaviours that never mix implement it.
  Theorems `TypeCorrect`, `SocketsInLockstep`, `ServerStaysInStep`, `CallsCarriedOut`,
  `DialoguesImplementCalls`.
* **Puller.**  `RunningHasReader` is inductive with `TypeOK` for any client.
  For a careful one `SInv` adds `OneReader`, that a configuration comes only
  between sessions (`ConfigApart`), and that the machine is Initialised
  when a reader is about to enter it, unless ctrl-C came (`StartAwaited`).
  `OrderInv` says that what is stored, what is being read and what is queued
  are in the order of the scans; the refinement follows step by step
  (`SessionStep`).  `FileInv` says what a reader may meet next: the messages of the
  connection, with the next one of the server, follow one another as in a scan, save that
  a START may follow anything, and the file being written fits them; and that only
  ctrl-C destroys the machine of a reader that has not found the queue empty, from
  which `LateInv` gets what a disconnect discards.  For any client, with any
  number of readers on the one socket, `OnceInv` says that a message is in the queue or
  in one file (`Taken`), and `Accounted` where the scans are that were begun.
  That a file which was closed stays on the disk is `KeptInv`, of a careful client: the
  active reader is the newest thread, its own files have lower numbers than the one it
  is to open, so a name that is taken a second time was a file of an earlier thread, and
  `NothingVanishes` counts just these as `Overwritten`.  Theorems
  `TypeCorrect`, `ReaderListens`, `SingleReader`, `StartAccepted`,
  `PullerImplementsDataTaking`, `NoneVanishes`, `ScansOnce`, `FilesHoldScans`,
  `LossOnlyLate`.
* **LinkServer.**  `AlignInv`: during an alignment the status is NOT_READY, and
  before the emulator is looked at the ASIC's links agree.  `ScanInv`: a link that
  is not to do any more has the delay of the moment in all three registers, and
  the link under test has been told it.  Theorems `TypeCorrect`,
  `RunningIsEarned`, `ScanCountsAtDelay`.  `ScansRunDown` counts, for finitely many links,
  the steps left at a delay (`StepsLeft`): every step of a scan leaves fewer or goes on
  to the next delay, to `LastTap` at most.
* **DaqServer.**  That `empty_fifo` may give up a capture at its first empty link, and that
  `get_captured_data` may compare just two links, rests on one fact: earlier
  links never hold fewer captures than later ones (`Descending`, with what is
  true of it in the middle of a drain).  It is kept by triggers because links
  are armed in order and a link that ran out of its acquisition is ahead of
  those after it or full (`Arming`).  `Drains` says what a drain leaves behind if no
  trigger falls into it, `Evenly` that without such a race all FIFOs are alike,
  `Dialogue` and `Stops` which client knows of which stop.  Theorems
  `TypeCorrect`, `WholeRows`, `NothingLeft`, `DeathsExplained`, `DataMatch`.
* **WebServer.**  `TableInv`: a page has an address, and the handler of a click is
  open, so that nothing but `Close` and a second page of the address touches its
  entry.  `ProcsInv`: only a thread that has said DOWN deletes, and then its process is
  dead (`DownIsDead`); a thread that may still delete has its own process in the
  table or was overtaken (`PendingIsListed`); a click that comes to spawn has
  found nothing alive (`SpawnIsFree`).  `Quiet`: while no page leaves or comes during a
  broadcast, no websocket is closed, and the table has the size it had when the broadcast
  began.  `ShownInv` follows a broadcast through the pages: a thread past its UP has
  told every page that was greeted, one in the middle of UP or DOWN the pages whose
  address it has passed (`HasTold`), and only the newest thread of a name has a say
  (`Newest`; the listed process is the newest, `ListsNewest`).  A page that has not come
  shows nothing (`Unseen`).  None of this minds a lock that is lost.  Theorems `TypeCorrect`,
  `OpenAlwaysListed`, `LiveAlwaysListed`, `LockAlwaysReturned`, `ShownAlwaysTrue`.
* **OutputAlign.**  `OrbitCases` and `FirstOrbit` are what `match_BX0` answers for
  any rows, with the first link that is not in the reference row.  `ReachInv` says that a
  scan of links in reach is before its first value, has met, or waits: a link that waits
  is not past the late row, the others are there or sit out the second value two rows or more
  before it (`SitsOut`), and so are not taken over it.  `UniformMatch` is what it answers for links that share a row, so that the scan of an
  emulator whose links do tries at most two values; `EmulatorInv` follows these, with
  `Close` for where the emulator has to start.  `PhaseInOrder` says which phases have
  failed.  `BypassInv` names the values a scan of `bypass_align` comes to try
  (`BypassTries`), from the answers to links that share a row (`RulingCases`).  It needs
  `BypassAssumption`: that `bypass_align` does not start at 0, which is 13 in the code, and that the
  first of rows an orbit apart is in the first orbit, so that the second cannot meet the
  ASIC's row by chance (`SecondIsFar`).  Theorems `TypeCorrect`, `PhasesTried`,
  `StoppedMeets`, `LinksAlwaysMeet`, `AlignedExactly`, `BypassAlwaysAligns`.
* **XrayTID.**  `DaqInv` gives the stream compare at each step of the loop.  `TuneInv`:
  outside a scan the chip is `Tuned`, and in it the phases, inputs and outputs become
  so one after the other.  `LadderInv` and `CountInv`: the count of bad passes
  is the streak of them, is at most 3 when a pass begins, and is 4 only in passes that compare no
  registers, since a third bad pass is left standing only by one that does.
  `VoltageInv`: the voltage fits the pass, before or after its scan.  Theorems
  `TypeCorrect`, `AlwaysTuned`, `AlwaysRunning`, `OneLadder`, `TimelyLadder`,
  `ScheduledVoltage`.

**Only model-checked:** the liveness properties `CommandEnds`, `CallsEnd`,
`StopEnds`, `InterruptEnds`, `DelayScanEnds`, `StopForgets`, `ComparisonResumes`, which
are out of the prover's reach.  Of `CommandEnds` and `DelayScanEnds` the part that is
not about fairness is proved: `CommandsRunDown` and `ScansRunDown` bound the steps a command
and a scan can take.  That one of these steps can always be taken, and so is, is left to
TLC.  Every other property of a passing run is a theorem.

## 5. What is not modelled

* Event DAQ and fast control manager: no command of the link server creates the run
  thread that would call them, so there is no use of them to model.
* Of the alignment, the sequences of writes and reads that keep no state: word
  alignment, formatting of phases and words, the phase scan (`testing/PRBS.py`), the
  `CapSelect` scan (`testing/PLL.py`) and the delay scan of the Python IO blocks, which does
  not wait for `delay_ready` (`testing/utils/io.py:121`) as that of `LinkServer`
  does.  What they leave in the chip is in `XrayTID`.
* The scripts of campaigns other than `XrayTID_Testing.py`: straight-line waits, reads
  and files.  Two of them, `ITA_Testing.py` and `TID_Testing.py`, import a name that
  `testing/i2c.py` no longer has, and cannot start.  Of `XrayTID_Testing.py`, the logs, the
  mails, the readings of instruments and the calls that retry them.
* That the controllers of ASIC and emulator may share one dictionary, as `merge` hands back
  its second argument when the first is `None` (`testing/zmq_controller.py:23`).  What it
  means that each client sends all it has ever written is in `XrayTID`.
* Python DAQ: the commands on the PLL counter and on the test vectors; a server
  killed in the middle of a command; other programs that drive the same
  hardware meanwhile (`testing/simpleDAQcompare.py`); the CSV
  files.  The captures have different numbers of links in the code (12 and 13),
  and one number in the model.
* Web server: the page itself, and that a browser may reconnect.
* Formats: YAML text, CSV files, log lines, hexadecimal dumps.
* What becomes of a file that two readers of a careless client have open under one name
  at a time: `NothingVanishes` is about a careful client, `NoScanTwice` about what the
  readers wrote.  Files that were there before the data puller began.
* The `KeyError` of `output_align` when the capture hands back no data for `lc-ASIC`
  (`testing/set_econt.py:229`): the exception ends the alignment before it has scanned
  anything.
* The layout of register maps: which byte and shift a parameter has.  A register
  is its parameters; that masks of different parameters do not overlap is
  assumed by the model of a register as a function.
* `testing/i2c.py`'s expansion of register names; the local mode of
  `i2cController`, which uses the board object without a socket.
* The C++ register values that no decision depends on.
* Instruments, generators of register maps, configurations and address tables: data
  and single commands.

About two thirds of the lines of code in the repository are one notebook,
`zmq_i2c/ECON_D_GenerateYaml/ParseRegisters.ipynb` (5505 of 8709), which holds mostly
printed output of a script that turns a table into YAML; most of the rest outside
the components above are measurement scripts.  The share of lines that the models
stand for is therefore small although the programs with state are modelled.

## 6. What could follow

1. `LinksMeet` with the condition under which links meet in a later row than the late
   one, for any number of rows; it is known for small numbers of links and rows only.
2. The phase scan and the delay scan of the Python side beside that of `LinkServer`, if a
   comparison of the two is wanted.
3. A configuration per client as a module of its own, composed with `I2cDialogue` and
   `EconInterface`; `XrayTID` has the one parameter for which it has been seen to matter.
