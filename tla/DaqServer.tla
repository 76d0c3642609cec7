------------------------------- MODULE DaqServer -------------------------------
(***************************************************************************)
(* The DAQ server (testing/zmq_server.py over hexactrl_interface.py), its  *)
(* clients (daqController of zmq_controller.py) and the firmware under it. *)
(*                                                                         *)
(* stream_compare counts the words in which ASIC and emulator differ and,  *)
(* if it is set to trigger, makes the three link captures write into the   *)
(* FIFOs of their links.  The server resets and latches the counter and     *)
(* reads the FIFOs link by link, while the firmware goes on: every          *)
(* dispatch of uHAL is a step of its own.                                  *)
(***************************************************************************)
EXTENDS Integers

CONSTANTS
    Client,        \* programs with a socket to the server
    NLinks,        \* links of a capture
    Depth,         \* captures that the FIFO of a link holds
    None,          \* no client, no request
    MaxCalls,      \* bound: calls of all the clients
    MaxMismatches  \* bound: mismatches, below the 2^32 at which the counter rolls over

ASSUME NLinksAssumption == NLinks \in Nat \ {0}
ASSUME DepthAssumption == Depth \in Nat \ {0}
ASSUME BoundsAssumption == MaxCalls \in Nat /\ MaxMismatches \in Nat

VARIABLES
    pc,         \* of a client: the command it waits for, or "free" or "gone"
    calls,      \* history: the calls made so far
    request,    \* its request on the way to the server
    reply,      \* the reply on its way back
    at,         \* where the server is: "idle", "dead" or its next dispatch
    serving,    \* whose request it carries out, or None
    cmd,        \* and which
    place,      \* the capture and link it has come to
    occupancy,  \* the occupancy it read there
    fetched,    \* the captures with data to show for
    err,        \* the number of errors it read
    data,       \* self.data: whose stop it is of, and which one
    trigger,    \* stream_compare.trigger
    errors,     \* the running error counter
    latched,    \* its copy for reading
    armed,      \* of a link: "off", "once" or "on" (continuous acquisition)
    fifo,       \* captures in the FIFO of a link
    mismatches, \* history: mismatches so far
    stops,      \* history: stops with errors so far
    told,       \* history: the last stop with errors that a client was told of
    fired,      \* history: has a trigger been captured since the FIFOs were emptied?
    raced       \* history: during a configure or an emptyfifo, since the last stop?

client   == << pc, calls, told >>
server   == << at, serving, cmd, place, occupancy, fetched, err, data, stops >>
firmware == << trigger, errors, latched, armed, fifo, mismatches >>
history  == << fired, raced >>
vars     == << client, request, reply, server, firmware, history >>

Capture == {"lc-ASIC", "lc-emulator", "lc-input"}
Link    == 1..NLinks
Place   == Capture \X Link

\* Those on the PLL counter and on the test vectors have no part in this.
Command == {"configure", "startdaq", "stopdaq", "getdata", "emptyfifo"}
ASSUME NoneAssumption == None \notin Command /\ None \notin Client

Answer(text, stop) == [text |-> text, stop |-> stop]
NoStop  == [of |-> None, number |-> 0]
NoReply == Answer("none", NoStop)

-----------------------------------------------------------------------------
(***************************************************************************)
(* daqController                                                           *)
(***************************************************************************)

Send(c, command) ==
    /\ pc' = [pc EXCEPT ![c] = command]
    /\ request' = [request EXCEPT ![c] = command]

\* getdata is not called: it is the second half of stop_daq.
Call(c, command) ==
    /\ pc[c] = "free" /\ calls < MaxCalls /\ command # "getdata"
    /\ calls' = calls + 1
    /\ Send(c, command)
    /\ UNCHANGED << told, reply, server, firmware, history >>

\* start_daq repeats itself until it hears "ready"; stop_daq goes on with
\* getdata if the count it hears is not 0.  Any other reply is the end.
Receive(c) ==
    /\ pc[c] \in Command /\ reply[c] # NoReply
    /\ reply' = [reply EXCEPT ![c] = NoReply]
    /\ \/ /\ pc[c] = "startdaq" /\ reply[c].text # "ready"
          /\ Send(c, "startdaq") /\ UNCHANGED told
       \/ /\ pc[c] = "stopdaq" /\ reply[c].text = "errors"
          /\ Send(c, "getdata") /\ told' = [told EXCEPT ![c] = reply[c].stop.number]
       \/ /\ ~ (pc[c] = "startdaq" /\ reply[c].text # "ready")
          /\ ~ (pc[c] = "stopdaq" /\ reply[c].text = "errors")
          /\ pc' = [pc EXCEPT ![c] = "free"] /\ UNCHANGED << request, told >>
    /\ UNCHANGED << calls, server, firmware, history >>

\* RCVTIMEO ends the program.  A request that the server has in its queue is
\* served all the same.
Timeout(c) ==
    /\ pc[c] \in Command /\ reply[c] = NoReply
    /\ pc' = [pc EXCEPT ![c] = "gone"]
    /\ request' = IF at = "dead" THEN [request EXCEPT ![c] = None] ELSE request
    /\ UNCHANGED << calls, told, reply, server, firmware, history >>

-----------------------------------------------------------------------------
(***************************************************************************)
(* The firmware                                                            *)
(***************************************************************************)

Configuring == at \in {"arm", "hold", "run"}
Draining    == at \in {"look", "take"}

\* A word in which ASIC and emulator differ is counted and, with the trigger
\* set, captured by every link that is armed.  A full FIFO takes nothing more.
Mismatch ==
    /\ mismatches < MaxMismatches
    /\ mismatches' = mismatches + 1
    /\ errors' = errors + 1
    /\ IF trigger
       THEN /\ fifo' = [p \in Place |-> IF armed[p] # "off" /\ fifo[p] < Depth
                                        THEN fifo[p] + 1 ELSE fifo[p]]
            /\ armed' = [p \in Place |-> IF armed[p] = "once" THEN "off" ELSE armed[p]]
            /\ fired' = (fired \/ \A p \in Place : armed[p] # "off")
            /\ raced' = (raced \/ Configuring \/ Draining)
       ELSE UNCHANGED << fifo, armed, history >>
    /\ UNCHANGED << client, request, reply, server, trigger, latched >>

-----------------------------------------------------------------------------
(***************************************************************************)
(* The server: the loop over requests                                      *)
(***************************************************************************)

\* Where every command begins, and at which capture.
Begin(command) ==
    CASE command = "configure" -> "arm"
      [] command = "startdaq"  -> "reset"
      [] command = "stopdaq"   -> "latch"
      [] command = "emptyfifo" -> "look"
      [] command = "getdata"   -> "reply"

FirstOf(command) == IF command = "configure" THEN "lc-input" ELSE "lc-ASIC"

Take(c) ==
    /\ at = "idle" /\ request[c] # None
    /\ request' = [request EXCEPT ![c] = None]
    /\ serving' = c /\ cmd' = request[c]
    /\ at' = Begin(request[c])
    /\ place' = << FirstOf(request[c]), 1 >>
    /\ UNCHANGED << client, reply, occupancy, fetched, err, data, stops >>
    /\ UNCHANGED << firmware, history >>

\* The command is over, and its local variables are gone.
Return ==
    /\ serving' = None /\ cmd' = None
    /\ place' = << "lc-ASIC", 1 >> /\ occupancy' = 0 /\ fetched' = {} /\ err' = 0

\* The reply goes to the client whose request was taken, if it is still there.
Reply(text, stop) ==
    /\ at' = "idle" /\ Return
    /\ reply' = [reply EXCEPT ![serving] =
                     IF pc[serving] \in Command THEN Answer(text, stop) ELSE NoReply]

\* The requests in its queue are lost with the server.
Die ==
    /\ at' = "dead" /\ Return
    /\ request' = [c \in Client |-> None]
    /\ UNCHANGED reply

\* getdata sends self.data; there is no answer, and no server, without any.
GetData ==
    /\ at = "reply"
    /\ IF data = NoStop THEN Die ELSE Reply("array", data) /\ UNCHANGED request
    /\ UNCHANGED << client, data, stops, firmware, history >>

\* Somebody starts the server again; the firmware is as it was.
Restart ==
    /\ at = "dead"
    /\ at' = "idle" /\ data' = NoStop
    /\ UNCHANGED << serving, cmd, place, occupancy, fetched, err, stops >>
    /\ UNCHANGED << client, request, reply, firmware, history >>

-----------------------------------------------------------------------------
(***************************************************************************)
(* The server: configure and start_daq                                     *)
(***************************************************************************)

\* The order in which configure goes through the captures.
Configured(capture) == IF capture = "lc-input" THEN "lc-ASIC" ELSE "lc-emulator"

\* On to the next link, or capture, or to what follows the last one.
NextCapture(then) ==
    IF place[1] = "lc-emulator" THEN at' = then /\ place' = << "lc-input", 1 >>
                                ELSE at' = at   /\ place' = << Configured(place[1]), 1 >>

NextPlace(then) ==
    IF place[2] < NLinks THEN at' = at /\ place' = << place[1], place[2] + 1 >>
                         ELSE NextCapture(then)

WorkUnchanged == UNCHANGED << serving, cmd, fetched, err, data, stops >>
PeersUnchanged == UNCHANGED << client, request, reply >>

\* configure_acquire: a dispatch per link.
Arm ==
    /\ at = "arm"
    /\ armed' = [armed EXCEPT ![place] = IF @ = "on" THEN "on" ELSE "once"]
    /\ NextPlace("hold")
    /\ WorkUnchanged /\ PeersUnchanged
    /\ UNCHANGED << occupancy, trigger, errors, latched, fifo, mismatches, history >>

\* stop_continous_capture and do_continous_capture: a dispatch per capture.
Hold ==
    /\ at = "hold"
    /\ armed' = [p \in Place |-> IF p[1] = place[1] /\ armed[p] = "on"
                                 THEN "once" ELSE armed[p]]
    /\ NextCapture("run")
    /\ WorkUnchanged /\ PeersUnchanged
    /\ UNCHANGED << occupancy, trigger, errors, latched, fifo, mismatches, history >>

Run ==
    /\ at = "run"
    /\ armed' = [p \in Place |-> IF p[1] = place[1] THEN "on" ELSE armed[p]]
    /\ NextCapture("enable")
    /\ WorkUnchanged /\ PeersUnchanged
    /\ UNCHANGED << occupancy, trigger, errors, latched, fifo, mismatches, history >>

Reset ==
    /\ at = "reset"
    /\ errors' = 0
    /\ at' = "enable" /\ UNCHANGED place
    /\ WorkUnchanged /\ PeersUnchanged
    /\ UNCHANGED << occupancy, trigger, latched, armed, fifo, mismatches, history >>

\* configure_compare with trigger=True, the end of configure and of start_daq.
Enable ==
    /\ at = "enable"
    /\ trigger' = TRUE
    /\ Reply(IF cmd = "startdaq" THEN "ready" ELSE "conf", NoStop)
    /\ UNCHANGED << client, request, data, stops >>
    /\ UNCHANGED << errors, latched, armed, fifo, mismatches, history >>

-----------------------------------------------------------------------------
(***************************************************************************)
(* The server: stop_daq and empty_fifo                                     *)
(***************************************************************************)

\* The order in which they go through the captures.
Read(capture) == IF capture = "lc-ASIC" THEN "lc-emulator" ELSE "lc-input"

Latch ==
    /\ at = "latch"
    /\ latched' = errors
    /\ at' = "quiet" /\ UNCHANGED place
    /\ WorkUnchanged /\ PeersUnchanged
    /\ UNCHANGED << occupancy, trigger, errors, armed, fifo, mismatches, history >>

\* configure_compare with trigger=False.
Quiet ==
    /\ at = "quiet"
    /\ trigger' = FALSE
    /\ at' = "read" /\ UNCHANGED place
    /\ WorkUnchanged /\ PeersUnchanged
    /\ UNCHANGED << occupancy, errors, latched, armed, fifo, mismatches, history >>

ReadCounters ==
    /\ at = "read"
    /\ err' = latched
    /\ at' = IF latched > 0 THEN "fetch" ELSE "look"
    /\ UNCHANGED << serving, cmd, place, occupancy, fetched, data, stops >>
    /\ PeersUnchanged /\ UNCHANGED << firmware, history >>

\* Mutations: the last link is not compared with the first; a capture must be
\* as long as the FIFO is deep.
MutantAnyLength(capture) == \A l \in Link : fifo[<< capture, l >>] > 0
MutantFullLength(capture) ==
    \A l \in Link : fifo[<< capture, l >>] > 0 /\ fifo[<< capture, l >>] = Depth

\* get_captured_data leaves a capture out if one of its links is empty or if
\* the last link holds another number of words than the first; else it reads
\* that many words from every link.
Complete(capture) ==
    /\ \A l \in Link : fifo[<< capture, l >>] > 0
    /\ fifo[<< capture, NLinks >>] = fifo[<< capture, 1 >>]

\* stop_daq finds out about a capture left out when it indexes the data by name.
Fetch ==
    /\ at = "fetch"
    /\ LET capture == place[1]
           found   == IF Complete(capture) THEN fetched \cup {capture} ELSE fetched
       IN  /\ fifo' = IF Complete(capture)
                      THEN [p \in Place |-> IF p[1] = capture
                                            THEN fifo[p] - fifo[<< capture, NLinks >>]
                                            ELSE fifo[p]]
                      ELSE fifo
           /\ \/ /\ capture = "lc-input" /\ found # Capture
                 /\ Die
              \/ /\ capture = "lc-input" => found = Capture
                 /\ IF capture = "lc-input"
                    THEN at' = "look" /\ place' = << "lc-ASIC", 1 >>
                    ELSE at' = at     /\ place' = << Read(capture), 1 >>
                 /\ fetched' = found
                 /\ UNCHANGED << serving, cmd, occupancy, err, request, reply >>
    /\ UNCHANGED << data, stops, client >>
    /\ UNCHANGED << trigger, errors, latched, armed, mismatches, history >>

\* Mutation: the first data are kept until somebody fetches them.
MutantDrained ==
    /\ fired' = FALSE
    /\ raced' = (raced /\ cmd # "stopdaq")
    /\ IF cmd = "stopdaq" /\ err > 0
       THEN LET stop == [of |-> serving, number |-> stops + 1]
            IN  /\ Reply("errors", stop)
                /\ data' = (IF data = NoStop THEN stop ELSE data) /\ stops' = stops + 1
       ELSE /\ Reply(IF cmd = "stopdaq" THEN "no errors" ELSE "efifo", NoStop)
            /\ UNCHANGED << data, stops >>

\* The FIFOs have been gone through: the end of stop_daq and of emptyfifo.
\* Data are kept only if there were errors.
Drained ==
    /\ fired' = FALSE
    /\ raced' = (raced /\ cmd # "stopdaq")
    /\ IF cmd = "stopdaq" /\ err > 0
       THEN LET stop == [of |-> serving, number |-> stops + 1]
            IN  /\ Reply("errors", stop)
                /\ data' = stop /\ stops' = stops + 1
       ELSE /\ Reply(IF cmd = "stopdaq" THEN "no errors" ELSE "efifo", NoStop)
            /\ UNCHANGED << data, stops >>

OnToNext(nextPlace) ==
    /\ at' = "look" /\ place' = nextPlace /\ occupancy' = 0
    /\ UNCHANGED << serving, cmd, fetched, err, reply, data, stops, history >>

\* A link with words is read; an empty one ends the work on its capture.
Look ==
    /\ at = "look"
    /\ \/ /\ fifo[place] > 0
          /\ at' = "take" /\ occupancy' = fifo[place]
          /\ UNCHANGED << serving, cmd, place, fetched, err, reply, data, stops, history >>
       \/ /\ fifo[place] = 0 /\ place[1] # "lc-input"
          /\ OnToNext(<< Read(place[1]), 1 >>)
       \/ /\ fifo[place] = 0 /\ place[1] = "lc-input"
          /\ Drained
    /\ UNCHANGED << client, request, firmware >>

\* Mutation: one capture is read, however many there are.
MutantTakeWords ==
    /\ at = "take"
    /\ fifo' = [fifo EXCEPT ![place] = @ - 1]
    /\ \/ /\ place[2] < NLinks
          /\ OnToNext(<< place[1], place[2] + 1 >>)
       \/ /\ place[2] = NLinks /\ place[1] # "lc-input"
          /\ OnToNext(<< Read(place[1]), 1 >>)
       \/ /\ place[2] = NLinks /\ place[1] = "lc-input"
          /\ Drained
    /\ UNCHANGED << client, request, trigger, errors, latched, armed, mismatches >>

TakeWords ==
    /\ at = "take"
    /\ fifo' = [fifo EXCEPT ![place] = @ - occupancy]
    /\ \/ /\ place[2] < NLinks
          /\ OnToNext(<< place[1], place[2] + 1 >>)
       \/ /\ place[2] = NLinks /\ place[1] # "lc-input"
          /\ OnToNext(<< Read(place[1]), 1 >>)
       \/ /\ place[2] = NLinks /\ place[1] = "lc-input"
          /\ Drained
    /\ UNCHANGED << client, request, trigger, errors, latched, armed, mismatches >>

-----------------------------------------------------------------------------
Init ==
    /\ pc = [c \in Client |-> "free"]
    /\ calls = 0
    /\ told = [c \in Client |-> 0]
    /\ request = [c \in Client |-> None]
    /\ reply = [c \in Client |-> NoReply]
    /\ at = "idle" /\ serving = None /\ cmd = None
    /\ place = << "lc-ASIC", 1 >> /\ occupancy = 0
    /\ fetched = {} /\ err = 0
    /\ data = NoStop /\ stops = 0
    /\ trigger = FALSE
    /\ errors = 0 /\ latched = 0 /\ mismatches = 0
    /\ armed = [p \in Place |-> "off"]
    /\ fifo = [p \in Place |-> 0]
    /\ fired = FALSE /\ raced = FALSE

ServerStep ==
    \/ GetData
    \/ Arm \/ Hold \/ Run \/ Reset \/ Enable
    \/ Latch \/ Quiet \/ ReadCounters \/ Fetch \/ Look \/ TakeWords

Next ==
    \/ \E c \in Client :
           \/ \E command \in Command : Call(c, command)
           \/ Receive(c)
           \/ Timeout(c)
           \/ Take(c)
    \/ ServerStep
    \/ Restart
    \/ Mismatch

Spec == Init /\ [][Next]_vars

-----------------------------------------------------------------------------
Stop == [of : Client \cup {None}, number : Nat]
Text == {"none", "array", "conf", "ready", "errors", "no errors", "efifo"}
Label == {"idle", "dead", "reply", "arm", "hold", "run", "enable", "reset",
          "latch", "quiet", "read", "fetch", "look", "take"}

\* The type of every variable.
TypeOK ==
    /\ pc \in [Client -> Command \cup {"free", "gone"}]
    /\ calls \in 0..MaxCalls
    /\ told \in [Client -> Nat]
    /\ request \in [Client -> Command \cup {None}]
    /\ reply \in [Client -> [text : Text, stop : Stop]]
    /\ at \in Label
    /\ serving \in Client \cup {None} /\ cmd \in Command \cup {None}
    /\ place \in Place /\ occupancy \in 0..Depth
    /\ fetched \in SUBSET Capture /\ err \in Nat
    /\ data \in Stop /\ stops \in Nat
    /\ errors \in Nat /\ latched \in Nat /\ mismatches \in 0..MaxMismatches
    /\ armed \in [Place -> {"off", "once", "on"}]
    /\ fifo \in [Place -> 0..Depth]
    /\ trigger \in BOOLEAN /\ fired \in BOOLEAN /\ raced \in BOOLEAN

\* "make sure that all links have the same number of words" (link_capture.py:258):
\* comparing the last link with the first is enough, whatever triggers came
\* between the reads of an emptyfifo or the writes of a configure, and however
\* often the server died.
RowsAreWhole ==
    [][\A capture \in Capture :
        at = "fetch" /\ capture \in fetched' \ fetched =>
            \A l \in Link : fifo[<< capture, l >>] = fifo[<< capture, 1 >>]]_vars

\* A stop leaves no word behind for the next run and no trigger to bring new
\* ones, although empty_fifo gives up a capture at its first empty link.
StopLeavesNothing ==
    [][cmd = "stopdaq" /\ Draining /\ at' = "idle" =>
        ~trigger' /\ \A p \in Place : fifo'[p] = 0]_vars

\* The server dies in a stop only if every error it counted came while nothing
\* was captured, or if a trigger fell into an emptyfifo or a configure.
StopDiesOnly == at = "fetch" /\ ~raced /\ fired => Complete(place[1])

\* The data that a client is handed are of no earlier a stop than the one it was
\* told of and, if they are of a stop of its own, of that very one.
DataOfTheStop ==
    \A c \in Client :
        reply[c].text = "array" =>
            /\ reply[c].stop.number >= told[c]
            /\ reply[c].stop.of = c => reply[c].stop.number = told[c]
=============================================================================
