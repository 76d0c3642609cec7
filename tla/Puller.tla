-------------------------------- MODULE Puller --------------------------------
(***************************************************************************)
(* The data puller (zmq-client): a command thread that answers configure,  *)
(* start and stop, a reader thread for every start, the state machine they *)
(* share, and the PUSH/PULL connection from the scans of the zmq-server.   *)
(*                                                                         *)
(* A scan is three messages: START_DELAY_SCAN, one archive with its data,  *)
(* END_OF_RUN.  The reader writes one file for each, named after the       *)
(* output directory and a number that every reader counts from 0.          *)
(***************************************************************************)
EXTENDS Naturals, Sequences, FiniteSets, SequencesExt

CONSTANTS
    NReaders,     \* how often the client may send start
    NRuns,        \* how many scans the server may take
    Nobody,       \* no reader thread, no scan
    Dir,          \* the output directories a configuration may name
    Careful,      \* does the client keep to configure, start, stop?
    Interrupts,   \* may the operator press ctrl-C?
    MaxCrashes    \* how often the zmq-server may die in the middle of a scan

\* The reader threads and the scans, each in the order they come.
Reader == 1..NReaders
Run    == 1..NRuns

ASSUME CountAssumption == NReaders \in Nat /\ NRuns \in Nat
ASSUME NobodyAssumption == Nobody \notin Nat
ASSUME DirAssumption == Dir \cap {"none", "bad"} = {}
ASSUME FlagAssumption ==
    /\ Careful \in BOOLEAN /\ Interrupts \in BOOLEAN /\ MaxCrashes \in Nat

VARIABLES
    fsm,         \* state of the shared state machine
    config,      \* m_config: its output_directory, if it has a serverIP
    cmd,         \* where the command thread is
    handle,      \* readdatathread: the thread it stands for
    reader,      \* reader[i]: where reader thread i is
    file,        \* file[i]: the file it is writing
    fileID,      \* fileID[i]: the number of that file
    disk,        \* the files that were closed and are still there
    sig,         \* InterruptSIG
    alive,       \* the process runs
    connected,   \* m_puller is connected to the server
    queue,       \* messages sent on that connection and not received
    scan,        \* the next message the server sends
    crashes,     \* how often the server has died
    client,      \* history: the last answer the client has had
    saved,       \* history: the files closed so far, in order
    fresh,       \* history: scans begun since a reader last polled
    lost         \* history: scans whose first message was discarded

command == << config, cmd, handle, sig, client >>
store   == << fileID, disk >>
readers == << reader, file, saved, store >>
wire    == << connected, queue, scan, crashes, fresh, lost >>
vars    == << fsm, alive, command, readers, wire >>

-----------------------------------------------------------------------------
(***************************************************************************)
(* The state machine (pullerFSM.h)                                         *)
(***************************************************************************)

State == {"Initialised", "Running", "Stopped", "Destroyed"}

\* Mutation: a destroyed machine cannot be reset.
MutantNoReset(event) ==
    CASE event = "start"   -> {<< "Initialised", "Running" >>}
      [] event = "stop"    -> {<< "Running", "Stopped" >>}
      [] event = "destroy" -> {<< s, "Destroyed" >> : s \in State}
      [] event = "reset"   -> {<< "Initialised", "Initialised" >>}

transition_table(event) ==
    CASE event = "start"   -> {<< "Initialised", "Running" >>}
      [] event = "stop"    -> {<< "Running", "Stopped" >>}
      [] event = "destroy" -> {<< s, "Destroyed" >> : s \in State}
      [] event = "reset"   -> {<< s, "Initialised" >> : s \in {"Destroyed", "Initialised"}}

Handles(event) == \E s \in State : << fsm, s >> \in transition_table(event)

\* An event the table has no row for is reported and ignored.
process_event(event) ==
    \/ /\ fsm' \in State
       /\ << fsm, fsm' >> \in transition_table(event)
    \/ ~Handles(event) /\ fsm' = fsm

-----------------------------------------------------------------------------
(***************************************************************************)
(* The scans of the zmq-server (LinkAligner::delayScan)                    *)
(***************************************************************************)

Part == << "START", "DATA", "END" >>
Message == [part : Range(Part), run : Run]

\* The last message of a scan is followed by the first of the next.
Following(s) ==
    IF s.part = 3 THEN [run |-> s.run + 1, part |-> 1]
                  ELSE [run |-> s.run, part |-> s.part + 1]

\* send waits for a peer.
Push ==
    /\ connected
    /\ scan.run \in Run
    /\ queue' = Append(queue, [part |-> Part[scan.part], run |-> scan.run])
    /\ fresh' = IF scan.part = 1 THEN fresh \cup {scan.run} ELSE fresh
    /\ scan' = Following(scan)
    /\ UNCHANGED << fsm, alive, command, readers, connected, crashes, lost >>

\* The server is killed between two messages; the scan is never completed.
ServerDies ==
    /\ crashes < MaxCrashes
    /\ scan.part > 1
    /\ crashes' = crashes + 1
    /\ scan' = [run |-> scan.run + 1, part |-> 1]
    /\ UNCHANGED << fsm, alive, command, readers, connected, queue, fresh, lost >>

-----------------------------------------------------------------------------
(***************************************************************************)
(* The command thread                                                      *)
(***************************************************************************)

Asks(answers) ==
    /\ alive /\ cmd = "idle" /\ ~sig
    /\ Careful => client \in answers

\* reply("ReadyForConfig"), then a blocking receive.
Configure ==
    /\ Asks({"none", "configured", "stopped"})
    /\ cmd' = "config"
    /\ UNCHANGED << fsm, alive, config, handle, sig, client, readers, wire >>

\* m_config is replaced before it is looked at; a string that is no yaml
\* leaves it as it was.
ReceiveConfig ==
    /\ alive /\ cmd = "config"
    /\ cmd' = "idle"
    /\ \/ /\ config' \in Dir
          /\ process_event("reset")
          /\ client' = "configured"
       \/ /\ config' \in {"bad", config}
          /\ client' = "none"
          /\ fsm' = fsm
    /\ UNCHANGED << alive, handle, sig, readers, wire >>

\* The thread that readdatathread stood for, if any, is detached.
Start ==
    /\ Asks({"configured"})
    /\ \E i \in Reader :
          /\ reader[i] = "unborn"
          /\ \A j \in Reader : j < i => reader[j] # "unborn"
          /\ reader' = [reader EXCEPT ![i] = "connect"]
          /\ handle' = i
    /\ client' = "started"
    /\ UNCHANGED << fsm, alive, config, cmd, sig, file, saved, store, wire >>

Stop ==
    /\ Asks({"started"})
    /\ process_event("stop")
    /\ cmd' = "join"
    /\ UNCHANGED << alive, config, handle, sig, client, readers, wire >>

Over(i) == \A j \in Reader : j = i => reader[j] = "ended"

\* Mutation: stop answers without waiting for the reader.
MutantDetach ==
    /\ alive /\ cmd = "join"
    /\ cmd' = "idle"
    /\ handle' = Nobody
    /\ client' = "stopped"
    /\ UNCHANGED << fsm, alive, config, sig, readers, wire >>

\* reply("Data puller stopped").
Joined ==
    /\ alive /\ cmd = "join"
    /\ Over(handle)
    /\ cmd' = "idle"
    /\ handle' = Nobody
    /\ client' = "stopped"
    /\ UNCHANGED << fsm, alive, config, sig, readers, wire >>

interrupt_handler ==
    /\ Interrupts /\ alive /\ ~sig
    /\ sig' = TRUE
    /\ UNCHANGED << fsm, alive, config, cmd, handle, client, readers, wire >>

\* Mutation: ctrl-C asks the reader to stop as the command does.
MutantSoftInterrupt ==
    /\ alive /\ cmd = "idle" /\ sig
    /\ process_event("stop")
    /\ cmd' = "exit"
    /\ UNCHANGED << alive, config, handle, sig, client, readers, wire >>

\* stop(false): the loop has seen InterruptSIG.
Destroy ==
    /\ alive /\ cmd = "idle" /\ sig
    /\ process_event("destroy")
    /\ cmd' = "exit"
    /\ UNCHANGED << alive, config, handle, sig, client, readers, wire >>

\* The process ends: nobody receives what is queued.
Dies ==
    /\ alive' = FALSE
    /\ connected' = FALSE
    /\ queue' = << >>
    /\ lost' = lost \cup {m.run : m \in {n \in Range(queue) : n.part = "START"}}
    /\ UNCHANGED << scan, crashes, fresh >>

\* After the join, or out of a receive that the signal interrupts.
Exit ==
    /\ alive
    /\ \/ cmd = "exit" /\ Over(handle)
       \/ cmd = "config" /\ sig
    /\ Dies
    /\ UNCHANGED << fsm, command, readers >>

-----------------------------------------------------------------------------
(***************************************************************************)
(* A reader thread (readdata)                                              *)
(***************************************************************************)

Goto(i, place) == reader' = [reader EXCEPT ![i] = place]

\* An exception nobody catches ends the process.
Uncaught == Dies /\ UNCHANGED << fsm, command, readers >>

\* Without a serverIP the address cannot be made.
Connect(i) ==
    /\ alive /\ reader[i] = "connect"
    /\ IF config \in Dir
       THEN /\ connected' = TRUE
            /\ Goto(i, "begin")
            /\ UNCHANGED << fsm, alive, command, file, saved, store,
                            queue, scan, crashes, fresh, lost >>
       ELSE Uncaught

\* A refused reader returns and leaves the socket connected.
Begin(i) ==
    /\ alive /\ reader[i] = "begin"
    /\ process_event("start")
    /\ Goto(i, IF Handles("start") THEN "head" ELSE "ended")
    /\ UNCHANGED << alive, command, file, saved, store, wire >>

\* Mutation: the reader does not look at the state when the queue is empty.
MutantKeepsWaiting(i) ==
    /\ alive /\ reader[i] = "empty"
    /\ Goto(i, "head")
    /\ UNCHANGED << fsm, alive, command, file, saved, store, wire >>

\* Mutation: the reader gives up when the queue is empty.
MutantGivesUp(i) ==
    /\ alive /\ reader[i] = "empty"
    /\ Goto(i, "leave")
    /\ UNCHANGED << fsm, alive, command, file, saved, store, wire >>

\* Mutation: a stopped reader leaves without emptying the queue.
MutantLeavesEarly(i) ==
    /\ alive /\ reader[i] = "head"
    /\ Goto(i, IF fsm \in {"Destroyed", "Stopped"} THEN "leave" ELSE "poll")
    /\ UNCHANGED << fsm, alive, command, file, saved, store, wire >>

Loop(i) ==
    /\ alive /\ reader[i] = "head"
    /\ Goto(i, IF fsm = "Destroyed" THEN "leave" ELSE "poll")
    /\ UNCHANGED << fsm, alive, command, file, saved, store, wire >>

\* The file of a scan that reader i opens.
NewFile(i, run) ==
    [run |-> run, data |-> << >>, name |-> << config, fileID[i] >>, by |-> i]

\* Mutation: any message opens a file.
MutantAnyStarts(i) ==
    /\ alive /\ reader[i] = "poll"
    /\ IF queue = << >>
       THEN /\ Goto(i, "empty") /\ fresh' = {}
            /\ UNCHANGED << fsm, alive, command, file, saved, store,
                            connected, queue, scan, crashes, lost >>
       ELSE /\ queue' = Tail(queue)
            /\ Goto(i, "inner")
            /\ file' = [file EXCEPT ![i] = NewFile(i, queue[1].run)]
            /\ UNCHANGED << fsm, alive, command, saved, store,
                            connected, scan, crashes, fresh, lost >>

\* The receive outside a scan does not wait.  Any message but a START is
\* reported and dropped; the name of the file is made from the configuration
\* of the moment, and what was stored under it is truncated.
Poll(i) ==
    /\ alive /\ reader[i] = "poll"
    /\ IF queue = << >>
       THEN /\ Goto(i, "empty") /\ fresh' = {}
            /\ UNCHANGED << fsm, alive, command, file, saved, store,
                            connected, queue, scan, crashes, lost >>
       ELSE LET m == queue[1] IN
            IF m.part = "START" /\ config \notin Dir
            THEN Uncaught
            ELSE /\ queue' = Tail(queue) /\ fresh' = {}
                 /\ IF m.part = "START"
                    THEN /\ Goto(i, "inner")
                         /\ file' = [file EXCEPT ![i] = NewFile(i, m.run)]
                         /\ disk' = {f \in disk : f.name # << config, fileID[i] >>}
                    ELSE Goto(i, "head") /\ UNCHANGED << file, disk >>
                 /\ UNCHANGED << fsm, alive, command, fileID, saved,
                                 connected, scan, crashes, lost >>

\* Only now is the state looked at: scans may have arrived since the receive.
Empty(i) ==
    /\ alive /\ reader[i] = "empty"
    /\ IF fsm = "Stopped" THEN process_event("destroy") ELSE fsm' = fsm
    /\ Goto(i, "head")
    /\ UNCHANGED << alive, command, file, saved, store, wire >>

Inner(i) ==
    /\ alive /\ reader[i] = "inner"
    /\ Goto(i, IF fsm = "Destroyed" THEN "save" ELSE "recv")
    /\ UNCHANGED << fsm, alive, command, file, saved, store, wire >>

\* Mutation: a START within a scan is taken for data without values.
MutantSkipsStart(i) ==
    /\ alive /\ reader[i] = "recv"
    /\ queue # << >>
    /\ LET m == queue[1] IN
       /\ queue' = Tail(queue)
       /\ Goto(i, IF m.part = "END" THEN "save" ELSE "inner")
       /\ file' = IF m.part # "DATA" THEN file
                  ELSE [file EXCEPT ![i].data = Append(@, m.run)]
       /\ UNCHANGED << fsm, alive, command, saved, store,
                       connected, scan, crashes, fresh, lost >>

\* The receive inside a scan waits.  Whatever is not END_OF_RUN is opened as
\* an archive, outside the try: a START of another scan throws.
Recv(i) ==
    /\ alive /\ reader[i] = "recv"
    /\ queue # << >>
    /\ LET m == queue[1] IN
       IF m.part = "START" THEN Uncaught
       ELSE /\ queue' = Tail(queue)
            /\ Goto(i, IF m.part = "END" THEN "save" ELSE "inner")
            /\ file' = IF m.part = "END" THEN file
                       ELSE [file EXCEPT ![i].data = Append(@, m.run)]
            /\ UNCHANGED << fsm, alive, command, saved, store,
                            connected, scan, crashes, fresh, lost >>

\* Mutation: the number is not counted up.
MutantSameNumber(i) ==
    /\ alive /\ reader[i] = "save"
    /\ saved' = Append(saved, file[i])
    /\ disk' = disk \cup {file[i]}
    /\ Goto(i, "head")
    /\ UNCHANGED << fsm, alive, command, file, fileID, wire >>

\* The file is closed, and the next has the next number.
Save(i) ==
    /\ alive /\ reader[i] = "save"
    /\ saved' = Append(saved, file[i])
    /\ disk' = disk \cup {file[i]}
    /\ fileID' = [fileID EXCEPT ![i] = @ + 1]
    /\ Goto(i, "head")
    /\ UNCHANGED << fsm, alive, command, file, wire >>

\* disconnect discards what the socket has not delivered.
Leave(i) ==
    /\ alive /\ reader[i] = "leave"
    /\ Goto(i, "ended")
    /\ connected' = FALSE
    /\ queue' = << >>
    /\ lost' = lost \cup {m.run : m \in {n \in Range(queue) : n.part = "START"}}
    /\ UNCHANGED << fsm, alive, command, file, saved, store,
                    scan, crashes, fresh >>

-----------------------------------------------------------------------------
NoFile == [run |-> Nobody, data |-> << >>, name |-> Nobody, by |-> Nobody]

Init ==
    /\ fsm = "Initialised" /\ alive = TRUE
    /\ config = "none" /\ cmd = "idle" /\ handle = Nobody
    /\ sig = FALSE /\ client = "none"
    /\ reader = [i \in Reader |-> "unborn"]
    /\ file = [i \in Reader |-> NoFile]
    /\ fileID = [i \in Reader |-> 0]
    /\ saved = << >> /\ disk = {}
    /\ connected = FALSE /\ queue = << >>
    /\ scan = [run |-> 1, part |-> 1] /\ crashes = 0
    /\ fresh = {} /\ lost = {}

Client == Configure \/ Start \/ Stop \/ interrupt_handler

Server == ReceiveConfig \/ Joined \/ Destroy \/ Exit

ReaderStep(i) ==
    \/ Connect(i) \/ Begin(i) \/ Loop(i) \/ Poll(i) \/ Empty(i)
    \/ Inner(i) \/ Recv(i) \/ Save(i) \/ Leave(i)

Next == Client \/ Server \/ Push \/ ServerDies \/ \E i \in Reader : ReaderStep(i)

\* Every thread is scheduled, and the zmq-server goes on with its scan; the
\* client, the operator and the next scan come when they come.
Fairness ==
    /\ WF_vars(Server)
    /\ WF_vars(Push /\ scan.part > 1)
    /\ \A i \in Reader : WF_vars(ReaderStep(i))

Spec == Init /\ [][Next]_vars /\ Fairness

-----------------------------------------------------------------------------
Place == {"unborn", "connect", "begin", "head", "poll", "empty",
          "inner", "recv", "save", "leave", "ended"}
File == [run : Run \cup {Nobody}, data : Seq(Run),
         name : (Dir \X Nat) \cup {Nobody}, by : Reader \cup {Nobody}]

\* The type of every variable.
TypeOK ==
    /\ fsm \in State
    /\ alive \in BOOLEAN
    /\ config \in {"none", "bad"} \cup Dir
    /\ cmd \in {"idle", "config", "join", "exit"}
    /\ handle \in Reader \cup {Nobody}
    /\ sig \in BOOLEAN
    /\ client \in {"none", "configured", "started", "stopped"}
    /\ reader \in [Reader -> Place]
    /\ file \in [Reader -> File]
    /\ fileID \in [Reader -> Nat]
    /\ disk \in SUBSET File
    /\ saved \in Seq(File)
    /\ connected \in BOOLEAN
    /\ queue \in Seq(Message)
    /\ scan \in [run : Nat, part : 1..3]
    /\ crashes \in 0..MaxCrashes
    /\ fresh \in SUBSET Run
    /\ lost \in SUBSET Run

Active(i)  == reader[i] \notin {"unborn", "ended"}
Reading(i) == reader[i] \in {"inner", "recv", "save"}

\* With a careful client there is never a second reader: the socket, which
\* is not thread safe, and the state machine belong to the thread that
\* readdatathread stands for, from the answer to start to the answer to stop.
OneReader ==
    Careful => \A i \in Reader : Active(i) => i = handle /\ client = "started"

InLoop(i) == reader[i] \in {"head", "poll", "empty", "inner", "recv", "save"}

\* Whatever the client does, the machine is Running or Stopped only as long
\* as some reader thread is in its loop, and so will see the next event.
RunningHasReader ==
    fsm \in {"Running", "Stopped"} => \E i \in Reader : InLoop(i)

\* Whatever the client does, and with two readers on the one socket, no scan
\* gets two files and no data are in two of them.
NoScanTwice ==
    \A k, n \in DOMAIN saved : k < n =>
        /\ saved[k].run # saved[n].run
        /\ Range(saved[k].data) \cap Range(saved[n].data) = {}

\* A file holds the data of the scan whose START opened it, and of no other;
\* unless ctrl-C cut it short it holds all of them, whatever the server died
\* of in between.
FilesAreScans ==
    Careful => \A f \in Range(saved) :
        \/ f.data = << f.run >>
        \/ sig /\ f.data = << >>

Begun == {r \in Run : r < scan.run \/ (r = scan.run /\ scan.part > 1)}
Held  == {queue[k].run : k \in {n \in DOMAIN queue : queue[n].part = "START"}}
            \cup {file[i].run : i \in {j \in Reader : Reading(j)}}
OnDisk == {f.run : f \in disk}

\* The files whose name another one took, of a later reader thread.
Opened == {file[i] : i \in {j \in Reader : Reading(j)}}
Replaced(f) == \E g \in Range(saved) \cup Opened : g.name = f.name /\ g.by > f.by
Overwritten == {f.run : f \in {g \in Range(saved) : Replaced(g)}}

\* A scan that was begun is in a file on the disk, on its way to one, or was
\* discarded with the connection, while the process lives and its client is
\* careful.  A file that was closed is destroyed only by a later session with
\* the same output directory, whose reader counts from 0 again: within one
\* session, and with a directory for each, every file stays.
NothingVanishes ==
    Careful /\ alive => Begun \subseteq OnDisk \cup Held \cup lost \cup Overwritten

\* Stopping drains: what a disconnect discards was begun after the reader had
\* last looked for one.  Only ctrl-C throws away what was waiting.
LossIsLate ==
    [][Careful /\ alive' /\ ~sig => lost' \ lost \subseteq fresh]_vars

\* A reader thread that the client has started, and that the operator has not
\* interrupted, is let in by the state machine: its refusal "would be a code
\* implementation issue".
StartNeverRefused ==
    [][\A i \in Reader :
        reader[i] = "begin" /\ reader'[i] = "ended" => sig]_vars

\* stop(true) leaves the state machine Stopped, as its comment says.
StopStops == [][cmd # "join" /\ cmd' = "join" => fsm' = "Stopped"]_vars

\* A reader waits for the rest of a scan that the server's death cut off.
CutOff ==
    \E i \in Reader : reader[i] = "recv" /\ queue = << >> /\ file[i].run < scan.run

\* A reader that was told to stop empties the queue and ends, and the command
\* that waits for it is answered, also after a death of the server, unless the
\* reader sits in the receive of the very scan that the death cut off.  A stop
\* that comes before the reader has passed fsm.start() is refused and waits
\* for ever.
Joining == alive /\ cmd = "join"
StopEnds == (Joining /\ fsm \in {"Stopped", "Destroyed"}) ~> (~Joining \/ CutOff)

\* ctrl-C ends the process unless the command thread is already waiting for a
\* reader that no stop has reached, or the reader for a scan that was cut off.
InterruptEnds == (alive /\ sig /\ cmd # "join") ~> (~alive \/ CutOff)

-----------------------------------------------------------------------------
\* The data puller implements the session its client relies on: between the
\* answers to start and to stop, scans with data are stored in their order.
Session ==
    INSTANCE DataTaking WITH
        open <- client = "started",
        stored <- {f.run : f \in {g \in Range(saved) : g.data # << >>}}
SessionSpec == Session!Spec
=============================================================================
