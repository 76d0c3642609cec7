---------------------------- MODULE DaqServer_proofs ----------------------------
(***************************************************************************)
(* Proofs about DaqServer, for any number of clients, links, calls and     *)
(* mismatches and FIFOs of any depth.                                      *)
(***************************************************************************)
EXTENDS DaqServer, TLAPS

\* Which captures a pass has already been through.
Rearmed(capture) ==
    IF capture = "lc-input" THEN {}
    ELSE IF capture = "lc-ASIC" THEN {"lc-input"} ELSE {"lc-input", "lc-ASIC"}

Passed(capture) ==
    IF capture = "lc-ASIC" THEN {}
    ELSE IF capture = "lc-emulator" THEN {"lc-ASIC"} ELSE {"lc-ASIC", "lc-emulator"}

\* A command is carried out by the steps that are its own.
Steps ==
    /\ at \in {"arm", "hold", "run"} => cmd = "configure"
    /\ at \in {"latch", "quiet", "read", "fetch"} => cmd = "stopdaq"
    /\ at = "reply" => cmd = "getdata"
    /\ Draining => cmd \in {"stopdaq", "emptyfifo"}
    /\ at \in {"read", "fetch", "look", "take"} /\ cmd = "stopdaq" => ~trigger
    /\ at \notin {"idle", "dead"} => serving \in Client
    /\ at \in {"latch", "quiet", "read"} => place = << "lc-ASIC", 1 >>
    /\ at \in {"hold", "run", "fetch"} => place[2] = 1

\* The links of a capture are armed together, but for the dispatches of arm; a
\* link that has used up its acquisition is ahead of those after it.
AllOn  == \A p \in Place : armed[p] = "on"
AllOff == \A p \in Place : armed[p] = "off"

Ahead(capture, l, m) == fifo[<< capture, l >>] > fifo[<< capture, m >>] \/ fifo[<< capture, l >>] = Depth

Settled == ~Configuring => AllOn \/ AllOff

Together ==
    \A capture \in Capture :
        \/ \A l \in Link : armed[<< capture, l >>] = "on"
        \/ \A l \in Link : armed[<< capture, l >>] # "on"

Rerun == at = "run" => \A p \in Place : p[1] \in Rearmed(place[1]) => armed[p] = "on"

Unarmed ==
    at = "arm" =>
        \A p \in Place :
            p[1] \notin Rearmed(place[1]) /\ (p[1] = place[1] => p[2] >= place[2])
                => armed[p] # "once"

UsedUp ==
    at = "arm" =>
        \A l, m \in Link :
            l < place[2] /\ place[2] <= m /\ armed[<< place[1], l >>] = "off" =>
                Ahead(place[1], l, m)

InOrder ==
    \A capture \in Capture : \A l, m \in Link :
        l <= m /\ armed[<< capture, l >>] = "off" /\ armed[<< capture, m >>] # "off" =>
            Ahead(capture, l, m)

Arming == Settled /\ Together /\ Rerun /\ Unarmed /\ UsedUp /\ InOrder

\* Earlier links hold no fewer words than later ones.  In a capture that is
\* being drained this holds on either side of the place of the drain, and across
\* it once the words that are about to be read are gone.
Descending ==
    /\ \A capture \in Capture : \A l, m \in Link :
          /\ l <= m
          /\ Draining /\ capture = place[1] => m < place[2] \/ place[2] <= l
          => fifo[<< capture, m >>] <= fifo[<< capture, l >>]
    /\ at = "take" =>
          /\ occupancy > 0
          /\ occupancy <= fifo[place]
          /\ \A l \in Link :
                l < place[2] => fifo[place] - occupancy <= fifo[<< place[1], l >>]

\* What a drain has passed stays empty if no trigger can come, or none came.
Calm == cmd = "stopdaq" \/ ~raced

Drains ==
    Draining /\ Calm =>
        /\ \A p \in Place :
              p[1] \in Passed(place[1]) \/ (p[1] = place[1] /\ p[2] < place[2]) => fifo[p] = 0
        /\ at = "take" => occupancy = fifo[place]

\* Without a race all links hold the same number of captures, and none if there
\* was no trigger.  While a stop fetches them this goes for the captures to come.
Even(captures) ==
    \A p, q \in Place : p[1] \in captures /\ q[1] \in captures => fifo[p] = fifo[q]

Filled(captures) == \A p \in Place : p[1] \in captures => fifo[p] > 0

Blank == \A p \in Place : fifo[p] = 0

ToCome == Capture \ Passed(place[1])

Evenly ==
    ~raced =>
        /\ ~Draining /\ at # "fetch" => Even(Capture) /\ (fired => Filled(Capture))
        /\ at = "fetch" =>
              \/ Blank /\ ~fired
              \/ Even(ToCome) /\ Filled(ToCome) /\ Passed(place[1]) \subseteq fetched

\* Where a client is in its dialogue, and who knows of which stop with errors.
DialogueOf(c) ==
    /\ request[c] # None => pc[c] \in {request[c], "gone"} /\ serving # c
    /\ serving = c => pc[c] \in {cmd, "gone"} /\ cmd \in Command
    /\ pc[c] = "free" => request[c] = None
    /\ pc[c] \notin Command => reply[c] = NoReply
    /\ reply[c] # NoReply => request[c] = None /\ serving # c
    /\ pc[c] # "getdata" => reply[c].text # "array"
    /\ pc[c] # "stopdaq" => reply[c].text # "errors"
    /\ told[c] <= stops
    /\ pc[c] = "getdata" /\ reply[c].text # "array" /\ data.of = c => data.number = told[c]
    /\ reply[c].text = "errors" =>
          /\ reply[c].stop.number <= stops
          /\ data.of = c => data.number = reply[c].stop.number

Dialogue == \A c \in Client : DialogueOf(c)

Stops == data = NoStop \/ data = [of |-> data.of, number |-> stops]

IInv ==
    /\ TypeOK /\ Steps /\ Arming /\ Descending /\ Drains /\ Evenly
    /\ Dialogue /\ Stops /\ DataOfTheStop

-----------------------------------------------------------------------------
BoolOK == trigger \in BOOLEAN /\ fired \in BOOLEAN /\ raced \in BOOLEAN

ClientOK ==
    /\ pc \in [Client -> Command \cup {"free", "gone"}]
    /\ calls \in 0..MaxCalls
    /\ told \in [Client -> Nat]
    /\ request \in [Client -> Command \cup {None}]
    /\ reply \in [Client -> [text : Text, stop : Stop]]

ServerOK ==
    /\ at \in Label
    /\ serving \in Client \cup {None} /\ cmd \in Command \cup {None}
    /\ place \in Place /\ occupancy \in 0..Depth
    /\ fetched \in SUBSET Capture /\ err \in Nat
    /\ data \in Stop /\ stops \in Nat

FirmwareOK ==
    /\ errors \in Nat /\ latched \in Nat /\ mismatches \in 0..MaxMismatches
    /\ armed \in [Place -> {"off", "once", "on"}]
    /\ fifo \in [Place -> 0..Depth]

\* The type invariant is the conjunction of its parts.
LEMMA Parts == TypeOK <=> ClientOK /\ ServerOK /\ FirmwareOK /\ BoolOK
  BY DEF TypeOK, ClientOK, ServerOK, FirmwareOK, BoolOK

\* A place is a capture and a link.
LEMMA Places ==
    /\ \A capture \in Capture, l \in Link : << capture, l >> \in Place
    /\ \A p \in Place : p[1] \in Capture /\ p[2] \in Link /\ p = << p[1], p[2] >>
    /\ \A capture \in Capture : << capture, 1 >> \in Place
    /\ 1 \in Link /\ NLinks \in Link /\ \A l \in Link : l \in Nat /\ 1 <= l /\ l <= NLinks
  BY NLinksAssumption DEF Place, Link, Capture

\* Where a pass goes on.
LEMMA NextPlaces ==
    ASSUME ServerOK
    PROVE  /\ << Configured(place[1]), 1 >> \in Place
           /\ << Read(place[1]), 1 >> \in Place
           /\ place[2] < NLinks => << place[1], place[2] + 1 >> \in Place
  <1>1. place[1] \in Capture /\ place[2] \in Link
    BY Places DEF ServerOK
  <1>2. Configured(place[1]) \in Capture /\ Read(place[1]) \in Capture
    BY DEF Configured, Read, Capture
  <1>3. place[2] < NLinks => place[2] + 1 \in Link
    BY <1>1, NLinksAssumption DEF Link
  <1> QED
    BY <1>1, <1>2, <1>3, Places

LEMMA Subtract == \A a, b \in 0..Depth : b <= a => a - b \in 0..Depth
  BY DepthAssumption

\* The actions that have no part in the work of the server.
Outside(c) == (\E command \in Command : Call(c, command)) \/ Receive(c) \/ Timeout(c)

LEMMA InitIsTyped ==
    ASSUME Init
    PROVE  TypeOK
  <1> USE DepthAssumption, BoundsAssumption
  <1>1. ClientOK
    BY DEF Init, ClientOK, NoReply, NoStop, Answer, Text, Stop
  <1>2. ServerOK
    BY Places DEF Init, ServerOK, Label, Capture, Stop, NoStop
  <1>3. FirmwareOK
    BY DEF Init, FirmwareOK
  <1>4. BoolOK
    BY Zenon DEF Init, BoolOK
  <1> QED
    BY <1>1, <1>2, <1>3, <1>4, Parts

\* The steps of the server that send nothing, and those that may.
Quietly == Arm \/ Hold \/ Run \/ Reset \/ Latch \/ Quiet \/ ReadCounters

\* What a reply is made of, and what becomes of the server that sends it.
LEMMA Replies ==
    ASSUME ClientOK, ServerOK,
           NEW text \in Text, NEW stop \in Stop, Reply(text, stop)
    PROVE  /\ reply' \in [Client -> [text : Text, stop : Stop]]
           /\ at' = "idle" /\ serving' = None /\ cmd' = None
           /\ place' \in Place /\ occupancy' = 0 /\ fetched' = {} /\ err' = 0
  <1>1. NoReply \in [text : Text, stop : Stop]
    BY DEF NoReply, NoStop, Answer, Text, Stop
  <1>2. Answer(text, stop) \in [text : Text, stop : Stop]
    BY DEF Answer
  <1>3. reply' \in [Client -> [text : Text, stop : Stop]]
    BY <1>1, <1>2 DEF Reply, ClientOK
  <1>4. << "lc-ASIC", 1 >> \in Place
    BY Places DEF Capture
  <1> QED
    BY <1>3, <1>4 DEF Reply, Return

\* The end of a drain.
LEMMA Drainings ==
    ASSUME ClientOK, ServerOK, BoolOK, Drained, serving \in Client
    PROVE  /\ reply' \in [Client -> [text : Text, stop : Stop]]
           /\ at' = "idle" /\ serving' = None /\ cmd' = None
           /\ place' \in Place /\ occupancy' = 0 /\ fetched' = {} /\ err' = 0
           /\ data' \in Stop /\ stops' \in Nat
           /\ fired' = FALSE /\ raced' \in BOOLEAN
           /\ raced' <=> raced /\ cmd # "stopdaq"
  <1>1. fired' = FALSE /\ raced' = (raced /\ cmd # "stopdaq")
    BY Zenon DEF Drained
  <1>2. raced' \in BOOLEAN /\ (raced' <=> raced /\ cmd # "stopdaq")
    BY <1>1, Zenon DEF BoolOK
  <1>3. NoStop \in Stop /\ [of |-> serving, number |-> stops + 1] \in Stop
    BY DEF NoStop, Stop, ServerOK
  <1>4. CASE cmd = "stopdaq" /\ err > 0
    <2>1. Reply("errors", [of |-> serving, number |-> stops + 1])
      BY <1>4 DEF Drained
    <2>2. data' = [of |-> serving, number |-> stops + 1] /\ stops' = stops + 1
      BY <1>4 DEF Drained
    <2>3. "errors" \in Text
      BY DEF Text
    <2>4. data' \in Stop /\ stops' \in Nat
      BY <2>2, <1>3 DEF ServerOK
    <2> QED
      BY <2>1, <2>3, <2>4, <1>1, <1>2, <1>3, Replies
  <1>5. CASE ~ (cmd = "stopdaq" /\ err > 0)
    <2>1. PICK text \in Text : Reply(text, NoStop)
      BY <1>5 DEF Drained, Text
    <2>2. data' \in Stop /\ stops' \in Nat
      BY <1>5 DEF Drained, ServerOK
    <2> QED
      BY <2>1, <2>2, <1>1, <1>2, <1>3, Replies
  <1> QED
    BY <1>4, <1>5

\* The clients and the wires.
LEMMA ClientsTyped ==
    ASSUME TypeOK, Steps, [Next]_vars
    PROVE  ClientOK'
  <1>1. ClientOK /\ ServerOK /\ BoolOK
    BY Parts
  <1>2. NoReply \in [text : Text, stop : Stop] /\ NoStop \in Stop /\ data \in Stop
    BY <1>1 DEF NoReply, NoStop, Answer, Text, Stop, ServerOK
  <1>3. ASSUME NEW c \in Client, NEW command \in Command, Call(c, command) PROVE ClientOK'
    BY <1>1, <1>3, BoundsAssumption DEF Call, Send, ClientOK
  <1>4. ASSUME NEW c \in Client, Receive(c) PROVE ClientOK'
    <2>1. reply' \in [Client -> [text : Text, stop : Stop]] /\ calls' = calls
      BY <1>1, <1>2, <1>4 DEF Receive, ClientOK
    <2>2. reply[c].stop.number \in Nat
      BY <1>1 DEF ClientOK, Stop
    <2>3. told' \in [Client -> Nat]
      BY <1>1, <1>4, <2>2 DEF Receive, ClientOK
    <2>4. /\ pc' \in [Client -> Command \cup {"free", "gone"}]
          /\ request' \in [Client -> Command \cup {None}]
      BY <1>1, <1>4 DEF Receive, Send, ClientOK, Command
    <2> QED
      BY <1>1, <2>1, <2>3, <2>4 DEF ClientOK
  <1>5. ASSUME NEW c \in Client, Timeout(c) PROVE ClientOK'
    BY <1>1, <1>5 DEF Timeout, ClientOK
  <1>6. ASSUME NEW c \in Client, Take(c) PROVE ClientOK'
    BY <1>1, <1>6 DEF Take, ClientOK, client
  <1>7. ASSUME UNCHANGED client,
               reply' \in [Client -> [text : Text, stop : Stop]],
               request' \in [Client -> Command \cup {None}]
        PROVE  ClientOK'
    BY <1>1, <1>7 DEF ClientOK, client
  <1>8. reply \in [Client -> [text : Text, stop : Stop]] /\ request \in [Client -> Command \cup {None}]
    BY <1>1 DEF ClientOK
  <1>9. CASE Quietly \/ Restart \/ Mismatch
    <2>1. UNCHANGED << client, request, reply >>
      BY <1>9 DEF Quietly, Arm, Hold, Run, Reset, Latch, Quiet, ReadCounters, Restart, Mismatch,
                  PeersUnchanged
    <2> QED
      BY <2>1, <1>7, <1>8
  <1>10. CASE GetData \/ Enable
    <2>1. UNCHANGED client /\ request' \in [Client -> Command \cup {None}]
      BY <1>10, <1>8 DEF GetData, Enable, Die
    <2>2. \/ reply' = reply
          \/ \E text \in Text, stop \in Stop : Reply(text, stop)
      BY <1>10, <1>2 DEF GetData, Enable, Die, Text
    <2> QED
      BY <2>1, <2>2, <1>1, <1>7, <1>8, Replies
  <1>11. CASE Fetch
    <2>1. UNCHANGED client /\ request' \in [Client -> Command \cup {None}] /\ reply' = reply
      BY <1>11, <1>8 DEF Fetch, Die
    <2> QED
      BY <2>1, <1>7, <1>8
  <1>12. CASE Look \/ TakeWords
    <2>1. UNCHANGED << client, request >> /\ serving \in Client
      BY <1>12 DEF Look, TakeWords, Steps
    <2>2. reply' = reply \/ Drained
      BY <1>12 DEF Look, TakeWords, OnToNext
    <2> QED
      BY <2>1, <2>2, <1>1, <1>7, <1>8, Drainings
  <1>13. CASE UNCHANGED vars
    BY <1>1, <1>13 DEF vars, client, ClientOK
  <1> QED
    BY <1>3, <1>4, <1>5, <1>6, <1>9, <1>10, <1>11, <1>12, <1>13 DEF Next, ServerStep, Quietly

\* The server.
LEMMA ServerTyped ==
    ASSUME TypeOK, Steps, [Next]_vars
    PROVE  ServerOK'
  <1>1. ClientOK /\ ServerOK /\ FirmwareOK /\ BoolOK
    BY Parts
  <1>2. 0 \in 0..Depth /\ << "lc-ASIC", 1 >> \in Place /\ << "lc-input", 1 >> \in Place
    BY DepthAssumption, Places DEF Capture
  <1>3. CASE \/ \E c \in Client : Outside(c)
             \/ Mismatch \/ UNCHANGED vars
    <2>1. UNCHANGED server
      BY <1>3 DEF Outside, Call, Receive, Timeout, Mismatch, vars
    <2> QED
      BY <2>1, <1>1 DEF server, ServerOK
  <1>4. ASSUME NEW c \in Client, Take(c) PROVE ServerOK'
    <2>1. request[c] \in Command
      BY <1>1, <1>4 DEF Take, ClientOK
    <2>2. << FirstOf(request[c]), 1 >> \in Place
      BY <1>2 DEF FirstOf
    <2>3. Begin(request[c]) \in Label
      BY <2>1 DEF Begin, Label, Command
    <2> QED
      BY <1>1, <1>4, <2>1, <2>2, <2>3 DEF Take, ServerOK
  <1>5. ASSUME at' \in Label, Return, UNCHANGED << data, stops >> PROVE ServerOK'
    BY <1>1, <1>2, <1>5 DEF ServerOK, Return
  <1>6. CASE GetData \/ Enable
    BY <1>5, <1>6 DEF GetData, Enable, Reply, Die, Label
  <1>7. CASE Restart
    BY <1>1, <1>7 DEF Restart, ServerOK, Label, Stop, NoStop
  <1>8. CASE Quietly
    <2>1. UNCHANGED << serving, cmd, occupancy, fetched, data, stops >>
      BY <1>8 DEF Quietly, Arm, Hold, Run, Reset, Latch, Quiet, ReadCounters, WorkUnchanged
    <2>2. err' \in Nat
      BY <1>8, <1>1 DEF Quietly, Arm, Hold, Run, Reset, Latch, Quiet, ReadCounters, WorkUnchanged,
                        ServerOK, FirmwareOK
    <2>3. at' \in Label
      BY <1>8, <1>1 DEF Quietly, Arm, Hold, Run, Reset, Latch, Quiet, ReadCounters, NextPlace,
                        NextCapture, ServerOK, Label
    <2>4. place' \in Place
      BY <1>8, <1>1, <1>2, NextPlaces
         DEF Quietly, Arm, Hold, Run, Reset, Latch, Quiet, ReadCounters, NextPlace, NextCapture,
             ServerOK
    <2> QED
      BY <1>1, <2>1, <2>2, <2>3, <2>4 DEF ServerOK
  <1>9. CASE Fetch
    <2> DEFINE found == IF Complete(place[1]) THEN fetched \cup {place[1]} ELSE fetched
    <2>1. found \in SUBSET Capture
      BY <1>1, Places DEF ServerOK
    <2>2. \/ Die
          \/ /\ fetched' = found /\ at' \in {"fetch", "look"}
             /\ place' \in {<< "lc-ASIC", 1 >>, << Read(place[1]), 1 >>}
             /\ UNCHANGED << serving, cmd, occupancy, err >>
      BY <1>9 DEF Fetch
    <2>3. UNCHANGED << data, stops >>
      BY <1>9 DEF Fetch
    <2>4. CASE Die
      BY <2>3, <2>4, <1>5 DEF Die, Label
    <2>5. CASE ~Die
      BY <2>1, <2>2, <2>3, <2>5, <1>1, <1>2, NextPlaces DEF ServerOK, Label
    <2> QED
      BY <2>4, <2>5
  <1>10. CASE Look \/ TakeWords
    <2>1. serving \in Client
      BY <1>10 DEF Look, TakeWords, Steps
    <2>2. CASE Drained
      <3>1. /\ at' = "idle" /\ serving' = None /\ cmd' = None
            /\ place' \in Place /\ occupancy' = 0 /\ fetched' = {} /\ err' = 0
            /\ data' \in Stop /\ stops' \in Nat
        BY <2>1, <2>2, <1>1, Drainings
      <3> QED
        BY <3>1, <1>2 DEF ServerOK, Label
    <2>3. CASE ~Drained
      <3>1. fifo[place] \in 0..Depth
        BY <1>1 DEF FirmwareOK, ServerOK
      <3>2. /\ UNCHANGED << serving, cmd, fetched, err, data, stops >>
            /\ at' \in {"look", "take"} /\ occupancy' \in {0, fifo[place]}
            /\ \/ place' \in {place, << Read(place[1]), 1 >>}
               \/ place[2] < NLinks /\ place' = << place[1], place[2] + 1 >>
        BY <1>10, <2>3 DEF Look, TakeWords, OnToNext
      <3>3. place' \in Place
        BY <3>2, <1>1, NextPlaces DEF ServerOK
      <3>4. occupancy' \in 0..Depth
        BY <3>1, <3>2, <1>2
      <3>5. at' \in Label
        BY <3>2 DEF Label
      <3> QED
        BY <3>2, <3>3, <3>4, <3>5, <1>1 DEF ServerOK
    <2> QED
      BY <2>2, <2>3
  <1> QED
    BY <1>3, <1>4, <1>6, <1>7, <1>8, <1>9, <1>10 DEF Next, ServerStep, Quietly, Outside

\* The firmware.
LEMMA FirmwareTyped ==
    ASSUME TypeOK, Steps, Descending, [Next]_vars
    PROVE  FirmwareOK' /\ BoolOK'
  <1>1. ClientOK /\ ServerOK /\ FirmwareOK /\ BoolOK
    BY Parts
  <1>2. place \in Place
    BY <1>1 DEF ServerOK
  <1>3. CASE \/ \E c \in Client : Outside(c) \/ Take(c)
             \/ GetData \/ Restart \/ UNCHANGED vars
    <2>1. UNCHANGED << firmware, history >>
      BY <1>3 DEF Outside, Call, Receive, Timeout, Take, GetData, Restart, vars
    <2>2. FirmwareOK'
      BY <2>1, <1>1 DEF firmware, FirmwareOK
    <2>3. trigger' = trigger /\ fired' = fired /\ raced' = raced
      BY <2>1 DEF firmware, history
    <2> QED
      BY <2>2, <2>3, <1>1, Zenon DEF BoolOK
  <1>4. CASE Mismatch
    <2>3. armed' \in [Place -> {"off", "once", "on"}]
      BY <1>1, <1>4 DEF Mismatch, FirmwareOK
    <2>4. fifo' \in [Place -> 0..Depth]
      BY <1>1, <1>4, DepthAssumption DEF Mismatch, FirmwareOK
    <2>5. errors' \in Nat /\ latched' \in Nat /\ mismatches' \in 0..MaxMismatches
      BY <1>1, <1>4, BoundsAssumption DEF Mismatch, FirmwareOK
    <2>1. FirmwareOK'
      BY <2>3, <2>4, <2>5 DEF FirmwareOK
    <2>2. BoolOK'
      BY <1>1, <1>4, Zenon DEF Mismatch, BoolOK, history
    <2> QED
      BY <2>1, <2>2
  <1>5. CASE Quietly \/ Enable
    <2>1. UNCHANGED history /\ UNCHANGED mismatches /\ UNCHANGED fifo
      BY <1>5 DEF Quietly, Arm, Hold, Run, Reset, Latch, Quiet, ReadCounters, Enable, firmware
    <2>2. armed' \in [Place -> {"off", "once", "on"}]
      BY <1>5, <1>1, <1>2 DEF Quietly, Arm, Hold, Run, Reset, Latch, Quiet, ReadCounters, Enable,
                              firmware, FirmwareOK
    <2>3. errors' \in Nat /\ latched' \in Nat
      BY <1>5, <1>1 DEF Quietly, Arm, Hold, Run, Reset, Latch, Quiet, ReadCounters, Enable,
                        firmware, FirmwareOK
    <2>4. fired' = fired /\ raced' = raced
      BY <2>1 DEF history
    <2>5. trigger' = trigger \/ trigger' = TRUE \/ trigger' = FALSE
      BY <1>5 DEF Quietly, Arm, Hold, Run, Reset, Latch, Quiet, ReadCounters, Enable, firmware
    <2>6. BoolOK'
      BY <2>4, <2>5, <1>1, Zenon DEF BoolOK
    <2> QED
      BY <2>1, <2>2, <2>3, <2>6, <1>1 DEF FirmwareOK
  <1>6. CASE Fetch
    <2>1. UNCHANGED << trigger, errors, latched, armed, mismatches, history >>
      BY <1>6 DEF Fetch
    <2>2. CASE ~Complete(place[1])
      <3>1. UNCHANGED << firmware, history >>
        BY <2>1, <2>2, <1>6 DEF Fetch, firmware
      <3> QED
        BY <3>1, <1>1 DEF FirmwareOK, BoolOK, firmware, history
    <2>3. CASE Complete(place[1])
      <3>1. fifo' = [p \in Place |-> IF p[1] = place[1]
                                     THEN fifo[p] - fifo[<< place[1], NLinks >>] ELSE fifo[p]]
        BY <2>3, <1>6 DEF Fetch
      <3>2. at = "fetch" /\ place[1] \in Capture
        BY <1>6, <1>2, Places DEF Fetch
      <3>3. ASSUME NEW p \in Place, p[1] = place[1]
            PROVE  fifo[p] - fifo[<< place[1], NLinks >>] \in 0..Depth
        <4>1. p[2] \in Link /\ p = << place[1], p[2] >>
          BY <3>3, Places
        <4>2. fifo[<< place[1], NLinks >>] <= fifo[<< place[1], p[2] >>]
          BY <4>1, <3>2, Places DEF Descending, Draining
        <4>3. fifo[<< place[1], NLinks >>] \in 0..Depth /\ fifo[p] \in 0..Depth
          BY <1>1, <3>2, Places DEF FirmwareOK
        <4>4. fifo[<< place[1], p[2] >>] = fifo[p]
          BY <4>1
        <4>5. fifo[<< place[1], NLinks >>] <= fifo[p]
          BY <4>2, <4>4
        <4> QED
          BY <4>3, <4>5, Subtract
      <3>4. fifo' \in [Place -> 0..Depth]
        BY <3>1, <3>3, <1>1 DEF FirmwareOK
      <3> QED
        BY <3>4, <2>1, <1>1 DEF FirmwareOK, BoolOK, history
    <2> QED
      BY <2>2, <2>3
  <1>7. CASE Look \/ TakeWords
    <2>1. UNCHANGED << trigger, errors, latched, armed, mismatches >> /\ serving \in Client
      BY <1>7 DEF Look, TakeWords, firmware, Steps
    <2>2. fifo' \in [Place -> 0..Depth]
      <3>1. CASE Look
        BY <3>1, <1>1 DEF Look, firmware, FirmwareOK
      <3>2. CASE TakeWords
        <4>1. occupancy <= fifo[place] /\ occupancy \in 0..Depth /\ fifo[place] \in 0..Depth
          BY <3>2, <1>1, <1>2 DEF TakeWords, Descending, ServerOK, FirmwareOK
        <4>2. fifo[place] - occupancy \in 0..Depth
          BY <4>1, DepthAssumption
        <4> QED
          BY <4>2, <3>2, <1>1, <1>2 DEF TakeWords, FirmwareOK
      <3> QED
        BY <1>7, <3>1, <3>2
    <2>3. fired' = FALSE \/ fired' = fired
      BY <1>7 DEF Look, TakeWords, OnToNext, Drained, history
    <2>4. raced' \in BOOLEAN
      <3>1. CASE Drained
        BY <3>1, <2>1, <1>1, Drainings
      <3>2. CASE ~Drained
        BY <3>2, <1>7, <1>1 DEF Look, TakeWords, OnToNext, history, BoolOK
      <3> QED
        BY <3>1, <3>2
    <2>5. BoolOK'
      BY <2>1, <2>3, <2>4, <1>1, Zenon DEF BoolOK
    <2> QED
      BY <2>1, <2>2, <2>5, <1>1 DEF FirmwareOK
  <1> QED
    BY <1>3, <1>4, <1>5, <1>6, <1>7 DEF Next, ServerStep, Quietly, Outside

\* Every step of the server is one of its command.
LEMMA StepsKept ==
    ASSUME TypeOK, Steps, [Next]_vars
    PROVE  Steps'
  <1> USE DEF Steps, Draining
  <1>1. ClientOK /\ ServerOK /\ FirmwareOK /\ BoolOK
    BY Parts
  <1>2. CASE (\E c \in Client : Outside(c)) \/ UNCHANGED vars
    BY <1>2 DEF Outside, Call, Receive, Timeout, vars, server, firmware
  <1>3. ASSUME NEW c \in Client, Take(c) PROVE Steps'
    <2>1. request[c] \in Command
      BY <1>1, <1>3 DEF Take, ClientOK
    <2>2. /\ at' = Begin(request[c]) /\ cmd' = request[c] /\ serving' = c
          /\ place' = << FirstOf(request[c]), 1 >>
      BY <1>3 DEF Take
    <2>3. CASE request[c] = "stopdaq"
      <3>1. at' = "latch" /\ place' = << "lc-ASIC", 1 >>
        BY <2>2, <2>3 DEF Begin, FirstOf
      <3> QED
        BY <3>1, <2>2, <2>3
    <2>4. CASE request[c] # "stopdaq"
      <3>1. /\ at' \in {"arm", "reset", "look", "reply"}
            /\ at' = "arm" => request[c] = "configure"
            /\ at' = "look" => request[c] = "emptyfifo"
            /\ at' = "reply" => request[c] = "getdata"
        BY <2>1, <2>2, <2>4 DEF Begin, Command
      <3> QED
        BY <3>1, <2>2
    <2> QED
      BY <2>3, <2>4
  <1>4. CASE GetData \/ Restart \/ Enable
    BY <1>4 DEF GetData, Restart, Enable, Die, Reply
  <1>5. CASE Mismatch
    BY <1>5 DEF Mismatch, server
  <1>6. CASE Arm \/ Hold \/ Run
    BY <1>6 DEF Arm, Hold, Run, NextPlace, NextCapture, WorkUnchanged
  <1>7. CASE Reset \/ Latch \/ Quiet \/ ReadCounters
    <2>1. UNCHANGED << place, serving, cmd >>
      BY <1>7 DEF Reset, Latch, Quiet, ReadCounters, WorkUnchanged
    <2>2. CASE Reset \/ Latch
      BY <2>1, <2>2 DEF Reset, Latch
    <2>3. CASE Quiet
      BY <2>1, <2>3 DEF Quiet
    <2>4. CASE ReadCounters
      <3>1. at = "read" /\ at' \in {"fetch", "look"} /\ trigger' = trigger
        BY <2>4 DEF ReadCounters, firmware
      <3>2. place'[2] = 1
        BY <2>1, <3>1
      <3> QED
        BY <2>1, <3>1, <3>2
    <2> QED
      BY <1>7, <2>2, <2>3, <2>4
  <1>8. CASE Fetch
    <2>1. CASE Die
      BY <2>1, NoneAssumption DEF Die, Return, Command
    <2>2. CASE ~Die
      <3>1. /\ at' \in {"fetch", "look"} /\ UNCHANGED << serving, cmd, trigger >>
            /\ at = "fetch"
            /\ place' \in {<< "lc-ASIC", 1 >>, << Read(place[1]), 1 >>}
        BY <1>8, <2>2 DEF Fetch
      <3>2. place'[2] = 1
        BY <3>1
      <3> QED
        BY <3>1, <3>2
    <2> QED
      BY <2>1, <2>2
  <1>9. CASE Look \/ TakeWords
    <2>1. (at' \in {"look", "take"} /\ UNCHANGED << serving, cmd, trigger >>) \/ at' = "idle"
      BY <1>9 DEF Look, TakeWords, OnToNext, Drained, Reply, firmware
    <2> QED
      BY <1>9, <2>1 DEF Look, TakeWords
  <1> QED
    BY <1>2, <1>3, <1>4, <1>5, <1>6, <1>7, <1>8, <1>9 DEF Next, ServerStep, Outside

\* Where configure is not at work, being all armed alike is enough.
LEMMA ArmedAlike ==
    ASSUME (AllOn \/ AllOff)', ~Configuring'
    PROVE  Arming'
  <1>1. Together'
    BY Places DEF AllOn, AllOff, Together
  <1>2. InOrder'
    <2> SUFFICES ASSUME NEW capture \in Capture, NEW l \in Link, NEW m \in Link,
                        armed'[<< capture, l >>] = "off", armed'[<< capture, m >>] # "off"
                 PROVE  FALSE
      BY DEF InOrder
    <2>1. << capture, l >> \in Place /\ << capture, m >> \in Place
      BY Places
    <2> QED
      BY <2>1 DEF AllOn, AllOff
  <1> QED
    BY <1>1, <1>2 DEF Arming, Settled, Rerun, Unarmed, UsedUp, Configuring

\* Triggers: a link that captures its last word gets ahead of the links that
\* are still to be armed.
LEMMA ArmingThroughMismatch ==
    ASSUME TypeOK, Arming, Descending, Mismatch
    PROVE  Arming'
  <1>1. ServerOK /\ FirmwareOK
    BY Parts
  <1>2. UNCHANGED << at, place >>
    BY DEF Mismatch, server
  <1>3. CASE ~trigger
    <2>1. UNCHANGED << armed, fifo >>
      BY <1>3 DEF Mismatch
    <2> QED
      BY <1>2, <2>1 DEF Arming, Settled, Together, Rerun, Unarmed, UsedUp, InOrder, Ahead, AllOn,
                        AllOff, Configuring
  <1>4. CASE trigger
    <2>1. /\ fifo' = [p \in Place |-> IF armed[p] # "off" /\ fifo[p] < Depth
                                      THEN fifo[p] + 1 ELSE fifo[p]]
          /\ armed' = [p \in Place |-> IF armed[p] = "once" THEN "off" ELSE armed[p]]
      BY <1>4 DEF Mismatch
    <2>2. /\ \A p \in Place : armed'[p] = IF armed[p] = "once" THEN "off" ELSE armed[p]
          /\ \A p \in Place : fifo'[p] = IF armed[p] # "off" /\ fifo[p] < Depth
                                          THEN fifo[p] + 1 ELSE fifo[p]
      BY <2>1
    <2>3. Settled'
      BY <1>2, <2>2 DEF Arming, Settled, AllOn, AllOff, Configuring
    <2>4. \A capture \in Capture : \A l \in Link :
              /\ armed'[<< capture, l >>] = IF armed[<< capture, l >>] = "once" THEN "off"
                                      ELSE armed[<< capture, l >>]
              /\ fifo'[<< capture, l >>] = IF armed[<< capture, l >>] # "off" /\ fifo[<< capture, l >>] < Depth
                                     THEN fifo[<< capture, l >>] + 1 ELSE fifo[<< capture, l >>]
      BY <2>2, Places
    <2>5. Together'
      BY <2>4 DEF Arming, Together
    <2>6. Rerun' /\ Unarmed'
      BY <1>2, <2>2 DEF Arming, Rerun, Unarmed
    <2>7. InOrder'
      <3> SUFFICES ASSUME NEW capture \in Capture, NEW l \in Link, NEW m \in Link,
                          armed'[<< capture, l >>] = "off", armed'[<< capture, m >>] # "off"
                   PROVE  FALSE
        BY DEF InOrder
      <3>1. armed[<< capture, m >>] \in {"off", "once", "on"} /\ armed[<< capture, l >>] \in {"off", "once", "on"}
        BY <1>1, Places DEF FirmwareOK
      <3>2. armed[<< capture, m >>] = "on" /\ armed[<< capture, l >>] # "on"
        BY <2>4, <3>1
      <3> QED
        BY <3>2 DEF Arming, Together
    <2>8. UsedUp'
      <3> SUFFICES ASSUME at = "arm", NEW l \in Link, NEW m \in Link,
                          l < place[2], place[2] <= m, armed'[<< place[1], l >>] = "off"
                   PROVE  Ahead(place[1], l, m)'
        BY <1>2 DEF UsedUp, Ahead
      <3> DEFINE capture == place[1]
      <3>0. capture \in Capture /\ place[2] \in Link
        BY <1>1, Places DEF ServerOK
      <3>1. << capture, l >> \in Place /\ << capture, m >> \in Place
        BY <3>0, Places
      <3>2. armed[<< capture, m >>] \in {"off", "once", "on"} /\ armed[<< capture, l >>] \in {"off", "once", "on"}
        BY <1>1, <3>1 DEF FirmwareOK
      <3>3. armed[<< capture, l >>] # "on"
        BY <2>4, <3>0, <3>2
      <3>4. armed[<< capture, m >>] # "on"
        BY <3>0, <3>3 DEF Arming, Together
      <3>5. armed[<< capture, m >>] # "once"
        <4>1. capture \notin Rearmed(capture)
          BY <3>0 DEF Rearmed, Capture
        <4> QED
          BY <3>1, <4>1 DEF Arming, Unarmed
      <3>6. armed[<< capture, m >>] = "off" /\ fifo'[<< capture, m >>] = fifo[<< capture, m >>]
        BY <2>4, <3>0, <3>2, <3>4, <3>5
      <3>7. fifo[<< capture, m >>] \in 0..Depth /\ fifo[<< capture, l >>] \in 0..Depth
        BY <1>1, <3>1 DEF FirmwareOK
      <3>8. CASE armed[<< capture, l >>] = "off"
        <4>1. Ahead(capture, l, m)
          BY <3>8 DEF Arming, UsedUp
        <4>2. fifo'[<< capture, l >>] = fifo[<< capture, l >>]
          BY <2>4, <3>0, <3>8
        <4>3. \/ fifo'[<< capture, l >>] > fifo'[<< capture, m >>]
              \/ fifo'[<< capture, l >>] = Depth
          BY <3>6, <4>1, <4>2 DEF Ahead
        <4> QED
          BY <1>2, <4>3 DEF Ahead
      <3>9. CASE armed[<< capture, l >>] = "once"
        <4>1. fifo[<< capture, m >>] <= fifo[<< capture, l >>]
          BY <3>0 DEF Descending, Draining, Link
        <4>2. fifo'[<< capture, l >>] = IF fifo[<< capture, l >>] < Depth THEN fifo[<< capture, l >>] + 1
                                                              ELSE fifo[<< capture, l >>]
          BY <2>4, <3>0, <3>9
        <4>3. fifo'[<< capture, l >>] > fifo'[<< capture, m >>] \/ fifo'[<< capture, l >>] = Depth
          BY <3>6, <3>7, <4>1, <4>2, DepthAssumption
        <4> QED
          BY <1>2, <4>3 DEF Ahead
      <3> QED
        BY <3>2, <3>3, <3>8, <3>9
    <2> QED
      BY <2>3, <2>5, <2>6, <2>7, <2>8 DEF Arming
  <1> QED
    BY <1>1, <1>3, <1>4, Parts, Zenon DEF TypeOK

\* configure itself, link by link and capture by capture.
LEMMA ArmingThroughConfigure ==
    ASSUME TypeOK, Steps, Arming, Arm \/ Hold \/ Run
    PROVE  Arming'
  <1>1. ServerOK /\ FirmwareOK
    BY Parts
  <1>2. UNCHANGED fifo
    BY DEF Arm, Hold, Run
  <1>3. place[1] \in Capture /\ place[2] \in Link /\ place = << place[1], place[2] >>
    BY <1>1, Places DEF ServerOK
  <1>4. ASSUME NEW capture \in Capture, NEW l \in Link
        PROVE  /\ armed[<< capture, l >>] \in {"off", "once", "on"}
               /\ << capture, l >> \in Place
    BY <1>1, Places DEF FirmwareOK
  <1>5. CASE Arm
    <2>1. \A p \in Place : armed'[p] = IF p = place /\ armed[p] # "on" THEN "once" ELSE armed[p]
      BY <1>1, <1>5 DEF Arm, FirmwareOK
    <2>2. \A capture \in Capture : \A l \in Link :
              armed'[<< capture, l >>] =
                  IF capture = place[1] /\ l = place[2] /\ armed[<< capture, l >>] # "on"
                  THEN "once" ELSE armed[<< capture, l >>]
      <3> SUFFICES ASSUME NEW capture \in Capture, NEW l \in Link
                   PROVE  armed'[<< capture, l >>] =
                              IF capture = place[1] /\ l = place[2] /\ armed[<< capture, l >>] # "on"
                              THEN "once" ELSE armed[<< capture, l >>]
        OBVIOUS
      <3>1. << capture, l >> \in Place
        BY <1>4
      <3>2. << capture, l >> = place <=> capture = place[1] /\ l = place[2]
        BY <1>3
      <3> QED
        BY <2>1, <3>1, <3>2
    <2>3. at = "arm" /\ at' \in {"arm", "hold"}
      BY <1>5 DEF Arm, NextPlace, NextCapture
    <2>4. Settled' /\ Rerun'
      BY <2>3 DEF Settled, Rerun, Configuring
    <2>5. Together'
      BY <2>2, <1>3 DEF Arming, Together
    <2>6. InOrder'
      <3> SUFFICES ASSUME NEW capture \in Capture, NEW l \in Link, NEW m \in Link, l <= m,
                          armed'[<< capture, l >>] = "off", armed'[<< capture, m >>] # "off"
                   PROVE  Ahead(capture, l, m)
        BY <1>2 DEF InOrder, Ahead
      <3>1. armed[<< capture, l >>] = "off"
        BY <2>2
      <3>2. CASE armed[<< capture, m >>] # "off"
        BY <3>1, <3>2 DEF Arming, InOrder
      <3>3. CASE armed[<< capture, m >>] = "off"
        <4>1. capture = place[1] /\ m = place[2]
          BY <2>2, <3>3
        <4>2. l # m
          BY <2>2, <3>1, <3>3
        <4>3. l < place[2]
          BY <4>1, <4>2, Places
        <4> QED
          BY <2>3, <3>1, <4>1, <4>3, Places DEF Arming, UsedUp
      <3> QED
        BY <3>2, <3>3
    <2>7. CASE place[2] < NLinks
      <3>1. at' = "arm" /\ place' = << place[1], place[2] + 1 >>
        BY <1>5, <2>3, <2>7 DEF Arm, NextPlace
      <3>2. place'[1] = place[1] /\ place'[2] = place[2] + 1
        BY <3>1
      <3>3. Unarmed'
        <4> SUFFICES ASSUME NEW p \in Place, p[1] \notin Rearmed(place[1]),
                            p[1] = place[1] => p[2] >= place[2] + 1
                     PROVE  armed'[p] # "once"
          BY <3>2 DEF Unarmed, Rearmed
        <4>1. p # place /\ (p[1] = place[1] => p[2] >= place[2])
          BY <1>3, Places
        <4> QED
          BY <2>1, <2>3, <4>1 DEF Arming, Unarmed
      <3>4. UsedUp'
        <4> SUFFICES ASSUME NEW l \in Link, NEW m \in Link, l < place[2] + 1, place[2] + 1 <= m,
                            armed'[<< place[1], l >>] = "off"
                     PROVE  Ahead(place[1], l, m)
          BY <1>2, <3>2 DEF UsedUp, Ahead
        <4>1. l # place[2] /\ armed[<< place[1], l >>] = "off"
          BY <2>2, <1>3, <1>4
        <4>2. l < place[2] /\ place[2] <= m
          BY <4>1, <1>3, Places
        <4> QED
          BY <2>3, <4>1, <4>2 DEF Arming, UsedUp
      <3> QED
        BY <2>4, <2>5, <2>6, <3>3, <3>4 DEF Arming
    <2>8. CASE ~ (place[2] < NLinks) /\ place[1] # "lc-emulator"
      <3>1. at' = "arm" /\ place' = << Configured(place[1]), 1 >>
        BY <1>5, <2>3, <2>8 DEF Arm, NextPlace, NextCapture
      <3>2. place'[1] = Configured(place[1]) /\ place'[2] = 1
        BY <3>1
      <3>3. Unarmed'
        <4> SUFFICES ASSUME NEW p \in Place, p[1] \notin Rearmed(Configured(place[1]))
                     PROVE  armed'[p] # "once"
          BY <3>2 DEF Unarmed, Rearmed
        <4>1. p[1] # place[1] /\ p[1] \notin Rearmed(place[1])
          BY <1>3, <2>8 DEF Rearmed, Configured, Capture
        <4> QED
          BY <2>1, <2>3, <4>1 DEF Arming, Unarmed
      <3>4. UsedUp'
        BY <3>2, Places DEF UsedUp
      <3> QED
        BY <2>4, <2>5, <2>6, <3>3, <3>4 DEF Arming
    <2>9. CASE ~ (place[2] < NLinks) /\ place[1] = "lc-emulator"
      <3>1. at' = "hold"
        BY <1>5, <2>9 DEF Arm, NextPlace, NextCapture
      <3> QED
        BY <3>1, <2>4, <2>5, <2>6 DEF Arming, Unarmed, UsedUp
    <2> QED
      BY <2>7, <2>8, <2>9
  <1>6. CASE Hold
    <2>1. \A capture \in Capture : \A l \in Link :
              armed'[<< capture, l >>] = IF capture = place[1] /\ armed[<< capture, l >>] = "on"
                                         THEN "once" ELSE armed[<< capture, l >>]
      BY <1>4, <1>6 DEF Hold
    <2>2. at' \in {"hold", "run"} /\ (at' = "run" => place' = << "lc-input", 1 >>)
      BY <1>6 DEF Hold, NextCapture
    <2>3. Settled' /\ Unarmed' /\ UsedUp'
      BY <2>2 DEF Settled, Unarmed, UsedUp, Configuring
    <2>4. Rerun'
      BY <2>2 DEF Rerun, Rearmed
    <2>5. Together'
      BY <2>1 DEF Arming, Together
    <2>6. InOrder'
      <3> SUFFICES ASSUME NEW capture \in Capture, NEW l \in Link, NEW m \in Link, l <= m,
                          armed'[<< capture, l >>] = "off", armed'[<< capture, m >>] # "off"
                   PROVE  Ahead(capture, l, m)
        BY <1>2 DEF InOrder, Ahead
      <3>1. armed[<< capture, l >>] = "off" /\ armed[<< capture, m >>] # "off"
        BY <2>1
      <3> QED
        BY <3>1 DEF Arming, InOrder
    <2> QED
      BY <2>3, <2>4, <2>5, <2>6 DEF Arming
  <1>7. CASE Run
    <2>0. \A p \in Place : armed'[p] = IF p[1] = place[1] THEN "on" ELSE armed[p]
      BY <1>7 DEF Run
    <2>1. \A capture \in Capture : \A l \in Link :
              armed'[<< capture, l >>] = IF capture = place[1] THEN "on"
                                         ELSE armed[<< capture, l >>]
      BY <1>4, <1>7 DEF Run
    <2>2. at = "run" /\ at' \in {"run", "enable"}
      BY <1>7 DEF Run, NextCapture
    <2>3. Unarmed' /\ UsedUp'
      BY <2>2 DEF Unarmed, UsedUp
    <2>4. Together'
      BY <2>1 DEF Arming, Together
    <2>5. InOrder'
      <3> SUFFICES ASSUME NEW capture \in Capture, NEW l \in Link, NEW m \in Link, l <= m,
                          armed'[<< capture, l >>] = "off", armed'[<< capture, m >>] # "off"
                   PROVE  Ahead(capture, l, m)
        BY <1>2 DEF InOrder, Ahead
      <3>1. armed[<< capture, l >>] = "off" /\ armed[<< capture, m >>] # "off"
        BY <2>1
      <3> QED
        BY <3>1 DEF Arming, InOrder
    <2>6. CASE place[1] = "lc-emulator"
      <3>1. at' = "enable"
        BY <1>7, <2>6 DEF Run, NextCapture
      <3>2. AllOn'
        <4> SUFFICES ASSUME NEW p \in Place PROVE armed'[p] = "on"
          BY DEF AllOn
        <4>1. p[1] = place[1] \/ p[1] \in Rearmed(place[1])
          BY <2>6, Places DEF Rearmed, Capture
        <4> QED
          BY <2>0, <2>2, <4>1 DEF Arming, Rerun
      <3> QED
        BY <3>1, <3>2, <2>3, <2>4, <2>5 DEF Arming, Settled, Rerun
    <2>7. CASE place[1] # "lc-emulator"
      <3>1. at' = "run" /\ place' = << Configured(place[1]), 1 >>
        BY <1>7, <2>2, <2>7 DEF Run, NextCapture
      <3>2. place'[1] = Configured(place[1])
        BY <3>1
      <3>3. Rerun'
        <4> SUFFICES ASSUME NEW p \in Place, p[1] \in Rearmed(Configured(place[1]))
                     PROVE  armed'[p] = "on"
          BY <3>2 DEF Rerun, Rearmed
        <4>1. p[1] = place[1] \/ p[1] \in Rearmed(place[1])
          BY <1>3, <2>7 DEF Rearmed, Configured, Capture
        <4> QED
          BY <2>0, <2>2, <4>1 DEF Arming, Rerun
      <3>4. Settled'
        BY <3>1 DEF Settled, Configuring
      <3> QED
        BY <3>3, <3>4, <2>3, <2>4, <2>5 DEF Arming
    <2> QED
      BY <2>6, <2>7
  <1> QED
    BY <1>5, <1>6, <1>7

\* The links stay armed as configure leaves them.
LEMMA ArmingKept ==
    ASSUME TypeOK, Steps, Arming, Descending, [Next]_vars
    PROVE  Arming'
  <1>1. ClientOK /\ ServerOK /\ FirmwareOK /\ BoolOK
    BY Parts
  <1>2. CASE (\E c \in Client : Outside(c)) \/ UNCHANGED vars
    <2>1. UNCHANGED << at, place, armed, fifo >>
      BY <1>2 DEF Outside, Call, Receive, Timeout, vars, server, firmware
    <2> QED
      BY <2>1 DEF Arming, Settled, Together, Rerun, Unarmed, UsedUp, InOrder, Ahead, AllOn, AllOff,
                  Configuring
  <1>3. ASSUME NEW c \in Client, Take(c) PROVE Arming'
    <2>1. UNCHANGED << armed, fifo >> /\ at = "idle" /\ place' = << FirstOf(request[c]), 1 >>
      BY <1>3 DEF Take, firmware
    <2>2. AllOn' \/ AllOff'
      BY <2>1 DEF Arming, Settled, AllOn, AllOff, Configuring
    <2>3. at' \notin {"hold", "run"}
      <3>1. request[c] \in Command /\ at' = Begin(request[c])
        BY <1>1, <1>3 DEF Take, ClientOK
      <3> QED
        BY <3>1 DEF Begin, Command
    <2>4. CASE at' # "arm"
      BY <2>2, <2>3, <2>4, ArmedAlike DEF Configuring
    <2>5. CASE at' = "arm"
      <3>1. Together' /\ InOrder'
        BY <2>1 DEF Arming, Together, InOrder, Ahead
      <3>2. Settled' /\ Rerun'
        BY <2>5 DEF Settled, Rerun, Configuring
      <3>3. Unarmed'
        BY <2>2 DEF AllOn, AllOff, Unarmed
      <3>4. place'[2] = 1
        BY <2>1
      <3>5. UsedUp'
        BY <3>4, Places DEF UsedUp
      <3> QED
        BY <3>1, <3>2, <3>3, <3>5 DEF Arming
    <2> QED
      BY <2>4, <2>5
  <1>4. ASSUME UNCHANGED armed, ~Configuring, ~Configuring'
        PROVE  Arming'
    <2>1. AllOn' \/ AllOff'
      BY <1>4 DEF Arming, Settled, AllOn, AllOff
    <2> QED
      BY <1>4, <2>1, ArmedAlike
  <1>5. CASE GetData \/ Restart \/ Reset \/ Enable \/ Latch \/ Quiet \/ ReadCounters
    BY <1>4, <1>5 DEF GetData, Restart, Reset, Enable, Latch, Quiet, ReadCounters, Die, Reply,
                      firmware, Configuring
  <1>6. CASE Fetch
    BY <1>4, <1>6 DEF Fetch, Die, Configuring
  <1>7. CASE Look \/ TakeWords
    BY <1>4, <1>7 DEF Look, TakeWords, OnToNext, Drained, Reply, firmware, Configuring
  <1>8. CASE Mismatch
    BY <1>8, ArmingThroughMismatch
  <1>9. CASE Arm \/ Hold \/ Run
    BY <1>9, ArmingThroughConfigure
  <1> QED
    BY <1>2, <1>3, <1>5, <1>6, <1>7, <1>8, <1>9 DEF Next, ServerStep, Outside

\* Draining is the work of Look and TakeWords alone.
LEMMA DescendingUntouched ==
    ASSUME Descending, ~Draining, ~Draining', UNCHANGED fifo
    PROVE  Descending'
  BY DEF Descending, Draining

\* Triggers.
LEMMA DescendingThroughMismatch ==
    ASSUME TypeOK, Steps, Arming, Descending, Mismatch
    PROVE  Descending'
  <1>1. ServerOK /\ FirmwareOK
    BY Parts
  <1>2. UNCHANGED << at, place, occupancy >>
    BY DEF Mismatch, server
  <1>3. CASE ~trigger
    <2>1. UNCHANGED fifo
      BY <1>3 DEF Mismatch
    <2> QED
      BY <1>2, <2>1 DEF Descending, Draining
  <1>4. CASE trigger
    <2>1. \A p \in Place : fifo'[p] = IF armed[p] # "off" /\ fifo[p] < Depth
                                      THEN fifo[p] + 1 ELSE fifo[p]
      BY <1>4 DEF Mismatch
    <2>2. ASSUME NEW capture \in Capture, NEW l \in Link, NEW m \in Link, l <= m,
                 fifo[<< capture, m >>] <= fifo[<< capture, l >>]
          PROVE  fifo'[<< capture, m >>] <= fifo'[<< capture, l >>]
      <3>1. << capture, l >> \in Place /\ << capture, m >> \in Place
        BY Places
      <3>2. fifo[<< capture, l >>] \in 0..Depth /\ fifo[<< capture, m >>] \in 0..Depth
        BY <1>1, <3>1 DEF FirmwareOK
      <3>3. CASE armed[<< capture, l >>] = "off" /\ armed[<< capture, m >>] # "off"
        <4>1. Ahead(capture, l, m)
          BY <2>2, <3>3 DEF Arming, InOrder
        <4>2. fifo'[<< capture, l >>] = fifo[<< capture, l >>]
          BY <2>1, <3>1, <3>3
        <4>3. fifo'[<< capture, m >>] =
                  IF fifo[<< capture, m >>] < Depth THEN fifo[<< capture, m >>] + 1
                                                    ELSE fifo[<< capture, m >>]
          BY <2>1, <3>1, <3>3
        <4> QED
          BY <3>2, <4>1, <4>2, <4>3, DepthAssumption DEF Ahead
      <3>4. CASE ~ (armed[<< capture, l >>] = "off" /\ armed[<< capture, m >>] # "off")
        BY <2>1, <2>2, <3>1, <3>2, <3>4, DepthAssumption
      <3> QED
        BY <3>3, <3>4
    <2>3. CASE at # "take"
      BY <1>2, <2>2, <2>3 DEF Descending, Draining
    <2>4. CASE at = "take"
      <3>1. \A p \in Place : fifo'[p] = IF AllOn /\ fifo[p] < Depth THEN fifo[p] + 1 ELSE fifo[p]
        BY <2>1, <2>4 DEF Arming, Settled, AllOn, AllOff, Configuring
      <3>2. place \in Place /\ occupancy \in 0..Depth /\ place[1] \in Capture
        BY <1>1, Places DEF ServerOK
      <3>3. fifo[place] \in 0..Depth /\ occupancy > 0 /\ occupancy <= fifo[place]
        BY <1>1, <2>4, <3>2 DEF FirmwareOK, Descending
      <3>4. ASSUME NEW l \in Link, l < place[2]
            PROVE  fifo'[place] - occupancy <= fifo'[<< place[1], l >>]
        <4>1. << place[1], l >> \in Place
          BY <3>2, Places
        <4>2. fifo[<< place[1], l >>] \in 0..Depth
          BY <1>1, <4>1 DEF FirmwareOK
        <4>3. fifo[place] - occupancy <= fifo[<< place[1], l >>]
          BY <2>4, <3>4 DEF Descending
        <4> DEFINE before == fifo[<< place[1], l >>]
        <4>4. fifo'[<< place[1], l >>] = IF AllOn /\ before < Depth THEN before + 1 ELSE before
          BY <3>1, <4>1
        <4>5. fifo'[place] = IF AllOn /\ fifo[place] < Depth THEN fifo[place] + 1 ELSE fifo[place]
          BY <3>1, <3>2
        <4> HIDE DEF before
        <4> QED
          BY <3>2, <3>3, <4>2, <4>3, <4>4, <4>5, DepthAssumption DEF before
      <3>5. occupancy' <= fifo'[place']
        BY <1>2, <3>1, <3>2, <3>3
      <3> QED
        BY <1>2, <2>2, <2>4, <3>3, <3>4, <3>5 DEF Descending, Draining
    <2> QED
      BY <2>3, <2>4
  <1> QED
    BY <1>1, <1>3, <1>4, Parts, Zenon DEF TypeOK

\* What is left of a capture that is fetched or drained is nothing, or descends.
LEMMA DescendingThroughWork ==
    ASSUME TypeOK, Steps, Arming, Descending, Fetch \/ Look \/ TakeWords
    PROVE  Descending'
  <1>1. ServerOK /\ FirmwareOK
    BY Parts
  <1>2. place \in Place /\ place[1] \in Capture /\ place[2] \in Link
        /\ place = << place[1], place[2] >>
    BY <1>1, Places DEF ServerOK
  <1>3. \A capture \in Capture : \A l \in Link :
            << capture, l >> \in Place /\ fifo[<< capture, l >>] \in 0..Depth
    BY <1>1, Places DEF FirmwareOK
  <1>4. CASE Fetch
    <2>1. at = "fetch" /\ at' # "take"
      BY <1>4 DEF Fetch, Die
    <2>2. \A capture \in Capture : \A l, m \in Link :
              l <= m => fifo[<< capture, m >>] <= fifo[<< capture, l >>]
      BY <2>1 DEF Descending, Draining
    <2>3. CASE ~Complete(place[1])
      <3>1. fifo' = fifo
        BY <1>4, <2>3 DEF Fetch
      <3> QED
        BY <2>1, <2>2, <3>1 DEF Descending
    <2>4. CASE Complete(place[1])
      <3> DEFINE words == fifo[<< place[1], NLinks >>]
      <3>1. \A p \in Place : fifo'[p] = IF p[1] = place[1] THEN fifo[p] - words ELSE fifo[p]
        BY <1>4, <2>4 DEF Fetch
      <3>2. words \in 0..Depth
        BY <1>2, <1>3, Places
      <3> HIDE DEF words
      <3>3. ASSUME NEW capture \in Capture, NEW l \in Link
            PROVE  fifo'[<< capture, l >>] = IF capture = place[1]
                                             THEN fifo[<< capture, l >>] - words
                                             ELSE fifo[<< capture, l >>]
        BY <1>3, <3>1
      <3>4. ASSUME NEW capture \in Capture, NEW l \in Link, NEW m \in Link, l <= m
            PROVE  fifo'[<< capture, m >>] <= fifo'[<< capture, l >>]
        <4>1. fifo[<< capture, m >>] <= fifo[<< capture, l >>]
          BY <2>2, <3>4
        <4>2. fifo[<< capture, m >>] \in 0..Depth /\ fifo[<< capture, l >>] \in 0..Depth
          BY <1>3
        <4> QED
          BY <3>2, <3>3, <4>1, <4>2, DepthAssumption
      <3> QED
        BY <2>1, <3>4 DEF Descending
    <2> QED
      BY <2>3, <2>4
  <1>5. CASE Look
    <2>1. at = "look" /\ UNCHANGED fifo
      BY <1>5 DEF Look, firmware
    <2>2. ASSUME NEW capture \in Capture, NEW l \in Link, NEW m \in Link, l <= m,
                 capture = place[1] => m < place[2] \/ place[2] <= l
          PROVE  fifo[<< capture, m >>] <= fifo[<< capture, l >>]
      BY <2>1, <2>2 DEF Descending, Draining
    <2>3. CASE fifo[place] > 0
      <3>1. at' = "take" /\ occupancy' = fifo[place] /\ place' = place
        BY <1>5, <2>3 DEF Look
      <3>2. ASSUME NEW l \in Link, l < place[2]
            PROVE  fifo[place] - fifo[place] <= fifo[<< place[1], l >>]
        <4>1. fifo[place] \in 0..Depth /\ fifo[<< place[1], l >>] \in 0..Depth
          BY <1>2, <1>3
        <4> QED
          BY <4>1, DepthAssumption
      <3>3. fifo[place] <= fifo[place]
        BY <1>2, <1>3, DepthAssumption
      <3> QED
        BY <2>1, <2>2, <2>3, <3>1, <3>2, <3>3 DEF Descending, Draining
    <2>4. CASE fifo[place] = 0
      <3>1. at' # "take"
        <4>1. ~ (fifo[place] > 0)
          BY <2>4
        <4>2. Drained => at' = "idle"
          BY DEF Drained, Reply
        <4> QED
          BY <1>5, <4>1, <4>2 DEF Look, OnToNext
      <3>2. ASSUME NEW l \in Link, NEW m \in Link, l <= m
            PROVE  fifo[<< place[1], m >>] <= fifo[<< place[1], l >>]
        <4>1. fifo[<< place[1], m >>] \in 0..Depth /\ fifo[<< place[1], l >>] \in 0..Depth
          BY <1>2, <1>3
        <4>2. CASE m < place[2] \/ place[2] <= l
          BY <1>2, <2>2, <3>2, <4>2
        <4>3. CASE l < place[2] /\ place[2] <= m
          <5>1. fifo[<< place[1], m >>] <= fifo[<< place[1], place[2] >>]
            BY <1>2, <2>2, <4>3, Places
          <5> QED
            BY <1>2, <2>4, <4>1, <5>1, DepthAssumption
        <4> QED
          BY <1>2, <4>2, <4>3, Places
      <3>3. \A capture \in Capture : \A l, m \in Link :
                l <= m => fifo[<< capture, m >>] <= fifo[<< capture, l >>]
        BY <2>2, <3>2
      <3> QED
        BY <2>1, <3>1, <3>3 DEF Descending
    <2> QED
      BY <1>5, <2>3, <2>4 DEF Look
  <1>6. CASE TakeWords
    <2>1. at = "take" /\ at' # "take"
      BY <1>6 DEF TakeWords, OnToNext, Drained, Reply
    <2> DEFINE left == fifo[place] - occupancy
    <2>2. \A p \in Place : fifo'[p] = IF p = place THEN left ELSE fifo[p]
      BY <1>1, <1>6 DEF TakeWords, FirmwareOK
    <2>3. left \in 0..Depth /\ left <= fifo[place]
      <3>1. occupancy \in 0..Depth /\ fifo[place] \in 0..Depth /\ occupancy <= fifo[place]
        BY <1>1, <1>2, <2>1 DEF ServerOK, FirmwareOK, Descending
      <3> QED
        BY <3>1, DepthAssumption
    <2>4. \A l \in Link : l < place[2] => left <= fifo[<< place[1], l >>]
      BY <2>1 DEF Descending
    <2>5. ASSUME NEW capture \in Capture, NEW l \in Link, NEW m \in Link, l <= m,
                 capture = place[1] => m < place[2] \/ place[2] <= l
          PROVE  fifo[<< capture, m >>] <= fifo[<< capture, l >>]
      BY <2>1, <2>5 DEF Descending, Draining
    <2> HIDE DEF left
    <2>6. ASSUME NEW capture \in Capture, NEW l \in Link
          PROVE  fifo'[<< capture, l >>] = IF capture = place[1] /\ l = place[2] THEN left
                                           ELSE fifo[<< capture, l >>]
      <3>1. << capture, l >> = place <=> capture = place[1] /\ l = place[2]
        BY <1>2
      <3> QED
        BY <1>3, <2>2, <3>1
    <2>7. ASSUME NEW l \in Link, NEW m \in Link, l <= m,
                 m <= place[2] \/ place[2] < l
          PROVE  fifo'[<< place[1], m >>] <= fifo'[<< place[1], l >>]
      <3>1. fifo[<< place[1], m >>] \in 0..Depth /\ fifo[<< place[1], l >>] \in 0..Depth
        BY <1>2, <1>3
      <3>2. CASE m = place[2] /\ l = place[2]
        BY <1>2, <2>3, <2>6, <3>2, DepthAssumption
      <3>3. CASE m = place[2] /\ l # place[2]
        <4>1. l < place[2]
          BY <1>2, <2>7, <3>3, Places
        <4>2. left <= fifo[<< place[1], l >>]
          BY <2>4, <4>1
        <4> QED
          BY <1>2, <2>6, <3>3, <4>2
      <3>4. CASE m # place[2]
        <4>1. l # place[2] /\ (m < place[2] \/ place[2] <= l)
          BY <1>2, <2>7, <3>4, Places
        <4>2. fifo[<< place[1], m >>] <= fifo[<< place[1], l >>]
          BY <1>2, <2>5, <2>7, <4>1
        <4> QED
          BY <1>2, <2>6, <3>4, <4>1, <4>2
      <3> QED
        BY <3>2, <3>3, <3>4
    <2>8. ASSUME NEW capture \in Capture, NEW l \in Link, NEW m \in Link, l <= m,
                 capture # place[1]
          PROVE  fifo'[<< capture, m >>] <= fifo'[<< capture, l >>]
      BY <2>5, <2>6, <2>8
    <2>9. CASE place[2] < NLinks
      <3>1. at' = "look" /\ place' = << place[1], place[2] + 1 >>
        <4>1. place[2] # NLinks
          BY <1>2, <2>9, Places
        <4> QED
          BY <1>6, <4>1 DEF TakeWords, OnToNext
      <3>2. place'[1] = place[1] /\ place'[2] = place[2] + 1
        BY <3>1
      <3>3. ASSUME NEW l \in Link, NEW m \in Link, l <= m, m < place[2] + 1 \/ place[2] + 1 <= l
            PROVE  fifo'[<< place[1], m >>] <= fifo'[<< place[1], l >>]
        <4>1. m <= place[2] \/ place[2] < l
          BY <1>2, <3>3, Places
        <4> QED
          BY <2>7, <3>3, <4>1
      <3> QED
        BY <2>1, <2>8, <3>1, <3>2, <3>3 DEF Descending, Draining
    <2>10. CASE place[2] = NLinks
      <3>1. \A l, m \in Link : l <= m => fifo'[<< place[1], m >>] <= fifo'[<< place[1], l >>]
        BY <2>7, <2>10, Places
      <3> QED
        BY <2>1, <2>8, <3>1 DEF Descending
    <2> QED
      BY <1>6, <2>9, <2>10 DEF TakeWords
  <1> QED
    BY <1>4, <1>5, <1>6

LEMMA DescendingKept ==
    ASSUME TypeOK, Steps, Arming, Descending, [Next]_vars
    PROVE  Descending'
  <1>1. ClientOK /\ ServerOK
    BY Parts
  <1>2. CASE (\E c \in Client : Outside(c)) \/ UNCHANGED vars
    <2>1. UNCHANGED << at, place, occupancy, fifo >>
      BY <1>2 DEF Outside, Call, Receive, Timeout, vars, server, firmware
    <2> QED
      BY <2>1 DEF Descending, Draining
  <1>3. ASSUME NEW c \in Client, Take(c) PROVE Descending'
    <2>1. /\ at = "idle" /\ at' = Begin(request[c]) /\ UNCHANGED fifo
          /\ request[c] \in Command
      BY <1>1, <1>3 DEF Take, firmware, ClientOK
    <2>2. at' # "take"
      BY <2>1 DEF Begin, Command
    <2> QED
      BY <2>1, <2>2 DEF Descending, Draining
  <1>4. CASE GetData \/ Restart \/ Reset \/ Enable \/ Latch \/ Quiet \/ Arm \/ Hold \/ Run
    <2>1. UNCHANGED fifo /\ ~Draining /\ ~Draining'
      BY <1>4 DEF GetData, Restart, Reset, Enable, Latch, Quiet, Arm, Hold, Run, Die, Reply,
                  NextPlace, NextCapture, firmware, Draining
    <2> QED
      BY <2>1, DescendingUntouched
  <1>5. CASE ReadCounters
    <2>1. at = "read" /\ at' \in {"fetch", "look"} /\ UNCHANGED << fifo, place >>
      BY <1>5 DEF ReadCounters, firmware
    <2> QED
      BY <2>1 DEF Descending, Draining
  <1>6. CASE Fetch \/ Look \/ TakeWords
    BY <1>6, DescendingThroughWork
  <1>7. CASE Mismatch
    BY <1>7, DescendingThroughMismatch
  <1> QED
    BY <1>2, <1>3, <1>4, <1>5, <1>6, <1>7 DEF Next, ServerStep, Outside

\* A stop drains what it stopped, in the order of the captures.
LEMMA DrainsKept ==
    ASSUME TypeOK, Steps, Descending, Drains, [Next]_vars
    PROVE  Drains'
  <1>1. ClientOK /\ ServerOK /\ FirmwareOK /\ BoolOK
    BY Parts
  <1>2. place \in Place /\ place[1] \in Capture /\ place[2] \in Link
        /\ place = << place[1], place[2] >>
    BY <1>1, Places DEF ServerOK
  <1>3. CASE (\E c \in Client : Outside(c)) \/ UNCHANGED vars
    <2>1. UNCHANGED << at, cmd, raced, place, occupancy, fifo >>
      BY <1>3 DEF Outside, Call, Receive, Timeout, vars, server, firmware, history
    <2> QED
      BY <2>1 DEF Drains, Draining, Calm
  <1>4. ASSUME NEW p \in Place
        PROVE  ~ (p[1] \in Passed("lc-ASIC") \/ (p[1] = "lc-ASIC" /\ p[2] < 1))
    BY Places DEF Passed
  <1>5. ASSUME at' # "take", at' = "look" => place' = << "lc-ASIC", 1 >> PROVE Drains'
    <2>1. CASE at' = "look"
      <3>1. place'[1] = "lc-ASIC" /\ place'[2] = 1
        BY <1>5, <2>1
      <3> QED
        BY <1>4, <1>5, <3>1 DEF Drains
    <2>2. CASE at' # "look"
      BY <1>5, <2>2 DEF Drains, Draining
    <2> QED
      BY <2>1, <2>2
  <1>6. ASSUME NEW c \in Client, Take(c) PROVE Drains'
    <2>1. at' = Begin(request[c]) /\ place' = << FirstOf(request[c]), 1 >>
          /\ request[c] \in Command
      BY <1>1, <1>6 DEF Take, ClientOK
    <2>2. at' # "take" /\ (at' = "look" => request[c] = "emptyfifo")
      BY <2>1 DEF Begin, Command
    <2> QED
      BY <1>5, <2>1, <2>2 DEF FirstOf
  <1>7. CASE GetData \/ Restart \/ Reset \/ Enable \/ Latch \/ Quiet \/ Arm \/ Hold \/ Run
    <2>1. at' \notin {"look", "take"}
      BY <1>7 DEF GetData, Restart, Reset, Enable, Latch, Quiet, Arm, Hold, Run, Die, Reply,
                  NextPlace, NextCapture
    <2> QED
      BY <1>5, <2>1
  <1>8. CASE ReadCounters
    BY <1>5, <1>8 DEF ReadCounters, Steps
  <1>9. CASE Fetch
    BY <1>5, <1>9 DEF Fetch, Die
  <1>10. CASE Mismatch
    <2>1. UNCHANGED << at, cmd, place, occupancy >>
      BY <1>10 DEF Mismatch, server
    <2>2. CASE ~trigger
      <3>1. UNCHANGED << fifo, raced >>
        BY <1>10, <2>2 DEF Mismatch, history
      <3> QED
        BY <2>1, <3>1 DEF Drains, Draining, Calm
    <2>3. CASE trigger
      <3>1. SUFFICES ASSUME Draining, Calm' PROVE FALSE
        BY <2>1 DEF Drains, Draining
      <3>2. raced'
        BY <1>10, <2>3, <3>1 DEF Mismatch
      <3>3. cmd # "stopdaq"
        BY <2>3, <3>1 DEF Steps, Draining
      <3> QED
        BY <2>1, <3>1, <3>2, <3>3 DEF Calm
    <2> QED
      BY <2>2, <2>3
  <1>11. CASE Look
    <2>1. at = "look" /\ UNCHANGED fifo
      BY <1>11 DEF Look, firmware
    <2>2. CASE Drained
      BY <2>2 DEF Drained, Reply, Drains, Draining
    <2>3. CASE fifo[place] > 0 /\ ~Drained
      <3>1. at' = "take" /\ occupancy' = fifo[place] /\ UNCHANGED << place, cmd, raced >>
        BY <1>11, <2>3 DEF Look, history
      <3> QED
        BY <2>1, <3>1 DEF Drains, Draining, Calm
    <2>4. CASE ~ (fifo[place] > 0) /\ ~Drained
      <3>1. /\ at' = "look" /\ UNCHANGED << cmd, raced >> /\ fifo[place] = 0
            /\ place[1] # "lc-input" /\ place' = << Read(place[1]), 1 >>
        BY <1>11, <2>4 DEF Look, OnToNext, history
      <3>2. place'[1] = Read(place[1]) /\ place'[2] = 1
        BY <3>1
      <3>3. SUFFICES ASSUME Calm, NEW p \in Place,
                            p[1] \in Passed(Read(place[1])) \/ (p[1] = Read(place[1]) /\ p[2] < 1)
                     PROVE  fifo[p] = 0
        BY <2>1, <3>1, <3>2 DEF Drains, Calm
      <3>4. p[1] \in Passed(place[1]) \/ p[1] = place[1]
        BY <1>2, <3>1, <3>3, Places DEF Passed, Read, Capture
      <3>5. CASE p[1] \in Passed(place[1]) \/ (p[1] = place[1] /\ p[2] < place[2])
        BY <2>1, <3>3, <3>5 DEF Drains, Draining
      <3>6. CASE p[1] = place[1] /\ p[2] >= place[2]
        <4>1. p[2] \in Link /\ p = << place[1], p[2] >>
          BY <3>6, Places
        <4>2. fifo[<< place[1], p[2] >>] <= fifo[<< place[1], place[2] >>]
          BY <1>2, <2>1, <3>6, <4>1 DEF Descending, Draining, Link
        <4>3. fifo[p] \in 0..Depth /\ fifo[p] <= fifo[place]
          BY <1>1, <1>2, <4>1, <4>2 DEF FirmwareOK
        <4> QED
          BY <3>1, <4>3, DepthAssumption
      <3> QED
        BY <1>2, <3>4, <3>5, <3>6, Places
    <2> QED
      BY <2>2, <2>3, <2>4
  <1>12. CASE TakeWords
    <2>1. at = "take"
      BY <1>12 DEF TakeWords
    <2>2. CASE Drained
      BY <2>2 DEF Drained, Reply, Drains, Draining
    <2>3. CASE ~Drained
      <3>1. /\ at' = "look" /\ UNCHANGED << cmd, raced >>
            /\ \/ place[2] < NLinks /\ place' = << place[1], place[2] + 1 >>
               \/ place[2] = NLinks /\ place[1] # "lc-input" /\ place' = << Read(place[1]), 1 >>
        BY <1>12, <2>3 DEF TakeWords, OnToNext, history
      <3>2. \A p \in Place : fifo'[p] = IF p = place THEN fifo[place] - occupancy ELSE fifo[p]
        BY <1>1, <1>12 DEF TakeWords, FirmwareOK
      <3>3. SUFFICES ASSUME Calm, NEW p \in Place,
                            p[1] \in Passed(place'[1]) \/ (p[1] = place'[1] /\ p[2] < place'[2])
                     PROVE  fifo'[p] = 0
        BY <3>1 DEF Drains, Calm, Passed
      <3>4. occupancy = fifo[place] /\ fifo[place] \in 0..Depth
        BY <1>1, <1>2, <2>1, <3>3 DEF Drains, Draining, FirmwareOK
      <3>5. p = place \/ p[1] \in Passed(place[1]) \/ (p[1] = place[1] /\ p[2] < place[2])
        <4>1. p[1] \in Capture /\ p[2] \in Link /\ p = << p[1], p[2] >>
          BY Places
        <4>2. CASE place[2] < NLinks /\ place' = << place[1], place[2] + 1 >>
          BY <1>2, <3>3, <4>1, <4>2, Places
        <4>3. CASE /\ place[2] = NLinks /\ place[1] # "lc-input"
                   /\ place' = << Read(place[1]), 1 >>
          <5>1. place'[1] = Read(place[1]) /\ place'[2] = 1
            BY <4>3
          <5>2. p[1] \in Passed(Read(place[1]))
            BY <3>3, <4>1, <5>1, Places
          <5>3. p[1] \in Passed(place[1]) \/ p[1] = place[1]
            BY <1>2, <4>1, <4>3, <5>2 DEF Passed, Read, Capture
          <5>4. p[2] < place[2] \/ p[2] = place[2]
            BY <4>1, <4>3, Places
          <5> QED
            BY <1>2, <4>1, <5>3, <5>4
        <4> QED
          BY <3>1, <4>2, <4>3
      <3>6. p # place => fifo[p] = 0
        BY <2>1, <3>3, <3>5 DEF Drains, Draining
      <3>7. fifo[place] - occupancy = 0
        BY <3>4, DepthAssumption
      <3> QED
        BY <3>2, <3>6, <3>7
    <2> QED
      BY <2>2, <2>3
  <1> QED
    BY <1>3, <1>6, <1>7, <1>8, <1>9, <1>10, <1>11, <1>12 DEF Next, ServerStep, Outside

\* What a drain comes to.
LEMMA DrainedIsEmpty ==
    ASSUME TypeOK, Steps, Descending, Drains, Calm, Look \/ TakeWords, at' = "idle"
    PROVE  Blank'
  <1>1. ServerOK /\ FirmwareOK
    BY Parts
  <1>2. place \in Place /\ place[1] \in Capture /\ place[2] \in Link
        /\ place = << place[1], place[2] >>
    BY <1>1, Places DEF ServerOK
  <1>3. \A p \in Place : fifo[p] \in 0..Depth
    BY <1>1 DEF FirmwareOK
  <1>4. Draining /\ place[1] = "lc-input"
    BY DEF Look, TakeWords, OnToNext, Draining
  <1>5. ASSUME NEW p \in Place
        PROVE  \/ p[1] \in Passed(place[1]) \/ (p[1] = place[1] /\ p[2] < place[2])
               \/ p = place
               \/ p[1] = place[1] /\ p[2] > place[2]
    <2>1. p[1] \in Capture /\ p[2] \in Link /\ p = << p[1], p[2] >>
      BY Places
    <2>2. p[1] = place[1] \/ p[1] \in Passed(place[1])
      BY <1>4, <2>1 DEF Passed, Capture
    <2>3. p[2] < place[2] \/ p[2] = place[2] \/ p[2] > place[2]
      BY <1>2, <2>1, Places
    <2> QED
      BY <1>2, <2>1, <2>2, <2>3
  <1>6. ASSUME NEW p \in Place,
               p[1] \in Passed(place[1]) \/ (p[1] = place[1] /\ p[2] < place[2])
        PROVE  fifo[p] = 0
    BY <1>4, <1>6 DEF Drains
  <1>7. CASE Look
    <2>1. fifo' = fifo /\ fifo[place] = 0 /\ at = "look"
      BY <1>7 DEF Look, firmware
    <2>2. ASSUME NEW p \in Place, p[1] = place[1] /\ p[2] > place[2]
          PROVE  fifo[p] = 0
      <3>1. p[2] \in Link /\ p = << place[1], p[2] >>
        BY <2>2, Places
      <3>2. place[2] <= p[2] /\ place[2] <= place[2]
        BY <1>2, <2>2, <3>1, Places
      <3>3. fifo[<< place[1], p[2] >>] <= fifo[<< place[1], place[2] >>]
        BY <1>2, <3>1, <3>2 DEF Descending
      <3>4. fifo[p] <= fifo[place]
        BY <1>2, <3>1, <3>3
      <3> QED
        BY <1>3, <2>1, <3>4, DepthAssumption
    <2> QED
      BY <1>5, <1>6, <2>1, <2>2 DEF Blank
  <1>8. CASE TakeWords
    <2>1. at = "take" /\ place[2] = NLinks
      BY <1>8 DEF TakeWords, OnToNext
    <2>2. \A p \in Place : fifo'[p] = IF p = place THEN fifo[place] - occupancy ELSE fifo[p]
      BY <1>1, <1>8 DEF TakeWords, FirmwareOK
    <2>3. fifo[place] - occupancy = 0
      <3>1. occupancy = fifo[place] /\ fifo[place] \in 0..Depth
        BY <1>2, <1>3, <1>4, <2>1 DEF Drains
      <3> QED
        BY <3>1, DepthAssumption
    <2>4. ASSUME NEW p \in Place PROVE fifo'[p] = 0
      <3>1. ~ (p[2] > place[2])
        BY <2>1, Places
      <3> QED
        BY <1>5, <1>6, <2>2, <2>3, <3>1
    <2> QED
      BY <2>4 DEF Blank
  <1> QED
    BY <1>7, <1>8

\* Without a race the FIFOs stay even.
LEMMA EvenlyKept ==
    ASSUME TypeOK, Steps, Arming, Descending, Drains, Evenly, [Next]_vars
    PROVE  Evenly'
  <1>1. ClientOK /\ ServerOK /\ FirmwareOK /\ BoolOK
    BY Parts
  <1>2. \A p \in Place : fifo[p] \in 0..Depth /\ p[1] \in Capture
    BY <1>1, Places DEF FirmwareOK
  <1>3. ASSUME UNCHANGED << fifo, fired, raced >>, ~Draining, at # "fetch", at' # "fetch"
        PROVE  Evenly'
    BY <1>3 DEF Evenly, Even, Filled
  <1>4. CASE (\E c \in Client : Outside(c)) \/ UNCHANGED vars
    <2>1. UNCHANGED << at, place, fetched, fifo, fired, raced >>
      BY <1>4 DEF Outside, Call, Receive, Timeout, vars, server, firmware, history
    <2> QED
      BY <2>1 DEF Evenly, Even, Filled, Blank, ToCome, Draining, Passed
  <1>5. ASSUME NEW c \in Client, Take(c) PROVE Evenly'
    <2>1. at' = Begin(request[c]) /\ request[c] \in Command
      BY <1>1, <1>5 DEF Take, ClientOK
    <2>2. at' # "fetch"
      BY <2>1 DEF Begin, Command
    <2> QED
      BY <1>3, <1>5, <2>2 DEF Take, firmware, history, Draining
  <1>6. CASE GetData \/ Restart \/ Reset \/ Enable \/ Latch \/ Quiet \/ Arm \/ Hold \/ Run
    <2>1. /\ UNCHANGED << fifo, history >> /\ ~Draining
          /\ at # "fetch" /\ at' # "fetch"
      BY <1>6 DEF GetData, Restart, Reset, Enable, Latch, Quiet, Arm, Hold, Run, Die, Reply,
                  NextPlace, NextCapture, firmware, Draining
    <2> QED
      BY <1>3, <2>1 DEF history
  <1>7. CASE ReadCounters
    <2>1. /\ at = "read" /\ at' \in {"fetch", "look"}
          /\ UNCHANGED << place, fifo, fired, raced >> /\ place[1] = "lc-ASIC"
      BY <1>7 DEF ReadCounters, Steps, firmware, history
    <2>2. SUFFICES ASSUME ~raced, ~ (Blank /\ ~fired)
                   PROVE  Even(Capture) /\ Filled(Capture)
      BY <2>1 DEF Evenly, Even, Filled, Blank, ToCome, Draining, Passed
    <2>3. Even(Capture) /\ (fired => Filled(Capture))
      BY <2>1, <2>2 DEF Evenly, Draining
    <2>4. CASE fired
      BY <2>3, <2>4
    <2>5. CASE ~fired
      <3>1. PICK p \in Place : fifo[p] # 0
        BY <2>2, <2>5 DEF Blank
      <3>2. ASSUME NEW q \in Place PROVE fifo[q] > 0
        <4>1. fifo[q] = fifo[p]
          BY <1>2, <2>3 DEF Even
        <4> QED
          BY <1>2, <3>1, <4>1
      <3> QED
        BY <2>3, <3>2 DEF Filled
    <2> QED
      BY <2>4, <2>5
  <1>8. CASE Mismatch
    <2>1. UNCHANGED << at, place, fetched >>
      BY <1>8 DEF Mismatch, server
    <2>2. CASE ~trigger
      <3>1. UNCHANGED << fifo, fired, raced >>
        BY <1>8, <2>2 DEF Mismatch, history
      <3> QED
        BY <2>1, <3>1 DEF Evenly, Even, Filled, Blank, ToCome, Draining, Passed
    <2>3. CASE trigger
      <3>1. /\ fifo' = [p \in Place |-> IF armed[p] # "off" /\ fifo[p] < Depth
                                        THEN fifo[p] + 1 ELSE fifo[p]]
            /\ fired' = (fired \/ \A p \in Place : armed[p] # "off")
            /\ raced' = (raced \/ Configuring \/ Draining)
        BY <1>8, <2>3 DEF Mismatch
      <3>2. SUFFICES ASSUME ~raced' PROVE Evenly'
        BY DEF Evenly
      <3>3. ~raced /\ ~Configuring /\ ~Draining
        BY <3>1, <3>2
      <3>4. at # "fetch"
        BY <2>3 DEF Steps
      <3>5. Even(Capture) /\ (fired => Filled(Capture))
        BY <3>3, <3>4 DEF Evenly
      <3>6. CASE AllOff
        <4>1. fifo' = fifo
          BY <1>1, <3>1, <3>6 DEF AllOff, FirmwareOK
        <4>2. << "lc-ASIC", 1 >> \in Place
          BY Places DEF Capture
        <4>3. fired' = fired
          <5>1. ~ \A p \in Place : armed[p] # "off"
            BY <3>6, <4>2 DEF AllOff
          <5> QED
            BY <1>1, <3>1, <5>1, Zenon DEF BoolOK
        <4> QED
          BY <2>1, <3>3, <3>4, <3>5, <4>1, <4>3 DEF Evenly, Even, Filled, Draining
      <3>7. CASE AllOn
        <4>1. \A p \in Place : fifo'[p] = IF fifo[p] < Depth THEN fifo[p] + 1 ELSE fifo[p]
          BY <3>1, <3>7 DEF AllOn
        <4>2. \A p, q \in Place : fifo'[p] = fifo'[q]
          BY <1>2, <3>5, <4>1 DEF Even
        <4>3. \A p \in Place : fifo'[p] > 0
          BY <1>2, <4>1, DepthAssumption
        <4> QED
          BY <2>1, <3>3, <3>4, <4>2, <4>3 DEF Evenly, Even, Filled, Draining
      <3> QED
        BY <3>3, <3>6, <3>7 DEF Arming, Settled
    <2> QED
      BY <1>1, <2>2, <2>3
  <1>9. CASE Fetch
    <2> DEFINE capture == place[1]
    <2>0. capture \in Capture /\ at = "fetch" /\ UNCHANGED << fired, raced >>
      BY <1>1, <1>9, Places DEF ServerOK, Fetch, history
    <2>1. SUFFICES ASSUME ~raced PROVE Evenly'
      BY <2>0 DEF Evenly
    <2>2. capture \notin Passed(capture)
      BY <2>0 DEF Passed, Capture
    <2>3. CASE Blank /\ ~fired
      <3>1. ~Complete(capture)
        BY <2>0, <2>3, Places DEF Blank, Complete
      <3>2. fifo' = fifo /\ at' \in {"fetch", "look", "dead"}
        BY <1>9, <3>1 DEF Fetch, Die
      <3> QED
        BY <2>0, <2>3, <3>2 DEF Evenly, Blank, Even, Draining
    <2>4. CASE Even(ToCome) /\ Filled(ToCome) /\ Passed(capture) \subseteq fetched
      <3>1. Complete(capture)
        <4>1. \A l \in Link : << capture, l >> \in Place /\ << capture, l >>[1] \in ToCome
          BY <2>0, <2>2, Places DEF ToCome
        <4> QED
          BY <2>4, <4>1, Places DEF Complete, Even, Filled
      <3>2. CASE capture = "lc-input"
        <4>1. fetched \cup {capture} = Capture
          BY <1>1, <2>4, <3>2 DEF ServerOK, Passed, Capture
        <4>2. at' = "look"
          BY <1>9, <3>1, <3>2, <4>1 DEF Fetch
        <4> QED
          BY <4>2 DEF Evenly, Draining
      <3>3. CASE capture # "lc-input"
        <4>1. /\ at' = "fetch" /\ place' = << Read(capture), 1 >>
              /\ fetched' = fetched \cup {capture}
          BY <1>9, <2>0, <3>1, <3>3 DEF Fetch
        <4>2. place'[1] = Read(capture)
          BY <4>1
        <4>3. Passed(Read(capture)) = Passed(capture) \cup {capture}
          BY <2>0, <3>3 DEF Passed, Read, Capture
        <4>4. ASSUME NEW p \in Place, p[1] \notin Passed(Read(capture))
              PROVE  fifo'[p] = fifo[p] /\ p[1] \in ToCome
          BY <1>2, <1>9, <3>1, <4>3, <4>4 DEF Fetch, ToCome
        <4>5. Even(ToCome)' /\ Filled(ToCome)'
          BY <2>4, <4>2, <4>4 DEF Even, Filled, ToCome, Passed
        <4>6. (Passed(place[1]) \subseteq fetched)'
          BY <2>4, <4>1, <4>2, <4>3 DEF Passed
        <4> QED
          BY <4>1, <4>5, <4>6 DEF Evenly, Draining
      <3> QED
        BY <3>2, <3>3
    <2> QED
      BY <2>0, <2>1, <2>3, <2>4 DEF Evenly
  <1>10. CASE Look \/ TakeWords
    <2>1. Draining
      BY <1>10 DEF Look, TakeWords, Draining
    <2>2. CASE Drained
      <3>1. /\ at' = "idle" /\ fired' = FALSE
            /\ raced' <=> raced /\ cmd # "stopdaq"
        <4>1. serving \in Client
          BY <2>1 DEF Steps, Draining
        <4> QED
          BY <1>1, <2>2, <4>1, Drainings
      <3>2. SUFFICES ASSUME ~raced' PROVE Evenly'
        BY DEF Evenly
      <3>3. Calm
        BY <3>1, <3>2 DEF Calm
      <3>4. Blank'
        BY <1>10, <3>1, <3>3, DrainedIsEmpty
      <3> QED
        BY <3>1, <3>4 DEF Evenly, Even, Blank
    <2>3. CASE ~Drained
      <3>1. at' \in {"look", "take"}
        BY <1>10, <2>3 DEF Look, TakeWords, OnToNext
      <3> QED
        BY <3>1 DEF Evenly, Draining
    <2> QED
      BY <2>2, <2>3
  <1> QED
    BY <1>4, <1>5, <1>6, <1>7, <1>8, <1>9, <1>10 DEF Next, ServerStep, Outside

-----------------------------------------------------------------------------
LEMMA StopsKept ==
    ASSUME TypeOK, Stops, [Next]_vars
    PROVE  Stops'
  <1>1. CASE UNCHANGED << data, stops >>
    BY <1>1 DEF Stops
  <1>2. CASE Restart
    BY <1>2 DEF Restart, Stops
  <1>3. CASE Drained
    <2>1. CASE UNCHANGED << data, stops >>
      BY <2>1 DEF Stops
    <2>2. CASE ~ (UNCHANGED << data, stops >>)
      <3>1. data' = [of |-> serving, number |-> stops + 1] /\ stops' = stops + 1
        BY <1>3, <2>2 DEF Drained
      <3>2. data'.of = serving
        BY <3>1
      <3>3. data' = [of |-> data'.of, number |-> stops']
        BY <3>1, <3>2
      <3> QED
        BY <3>3 DEF Stops
    <2> QED
      BY <2>1, <2>2
  <1> QED
    BY <1>1, <1>2, <1>3
       DEF Next, ServerStep, vars, server, Call, Receive, Timeout, Take, GetData, Arm, Hold, Run,
           Reset, Enable, Latch, Quiet, ReadCounters, Fetch, Look, TakeWords, OnToNext,
           WorkUnchanged, Mismatch

\* The dialogue when the server replies.
LEMMA DialogueThroughReply ==
    ASSUME TypeOK, Dialogue, serving \in Client, UNCHANGED << client, request >>,
           NEW text \in Text, NEW stop \in Stop, Reply(text, stop),
           \/ data' = data /\ stops' = stops /\ text # "errors"
           \/ data' = stop /\ stops' = stops + 1 /\ stop = [of |-> serving, number |-> stops + 1],
           text = "errors" => cmd = "stopdaq" /\ stop.number <= stops' /\ data' = stop,
           data' # data => cmd = "stopdaq",
           text = "array" => cmd = "getdata"
    PROVE  Dialogue'
  <1>1. /\ UNCHANGED << pc, told, request >> /\ serving' = None /\ cmd' = None
        /\ \A c \in Client :
              reply'[c] = IF c # serving THEN reply[c]
                          ELSE IF pc[c] \in Command THEN Answer(text, stop) ELSE NoReply
    BY DEF Reply, Return, client, TypeOK
  <1>2. SUFFICES ASSUME NEW c \in Client PROVE DialogueOf(c)'
    BY DEF Dialogue
  <1>3. DialogueOf(c) /\ None # c /\ stops \in Nat /\ told[c] \in Nat
    BY NoneAssumption DEF Dialogue, TypeOK
  <1>4. NoReply.text = "none"
    BY DEF NoReply, Answer
  <1>5. CASE c # serving
    <2>1. reply'[c] = reply[c] /\ serving' # c
      BY <1>1, <1>3, <1>5
    <2>2. reply[c].text = "errors" => reply[c].stop.number \in Nat
      BY DEF TypeOK, Stop
    <2>3. CASE data' = data /\ stops' = stops
      BY <1>1, <1>3, <1>5, <2>1, <2>3 DEF DialogueOf
    <2>4. CASE data' = stop /\ stops' = stops + 1 /\ stop = [of |-> serving, number |-> stops + 1]
      <3>1. data'.of = serving
        BY <2>4
      <3>2. stops' = stops + 1
        BY <2>4
      <3> QED
        BY <1>1, <1>3, <1>5, <2>1, <2>2, <3>1, <3>2 DEF DialogueOf
    <2> QED
      BY <2>3, <2>4
  <1>6. CASE c = serving
    <2>1. request[c] = None /\ pc[c] \in {cmd, "gone"} /\ cmd \in Command
      BY <1>3, <1>6 DEF DialogueOf
    <2>2. "gone" \notin Command /\ "free" \notin Command
      BY DEF Command
    <2>3. CASE pc[c] = "gone"
      <3>1. reply'[c] = NoReply
        BY <1>1, <1>6, <2>2, <2>3
      <3>2. told[c] <= stops'
        BY <1>3 DEF DialogueOf
      <3> QED
        BY <1>1, <1>3, <1>4, <2>1, <2>2, <2>3, <3>1, <3>2 DEF DialogueOf
    <2>4. CASE pc[c] # "gone"
      <3>1. pc[c] = cmd /\ reply'[c].text = text /\ reply'[c].stop = stop
        BY <1>1, <1>6, <2>1, <2>4 DEF Answer
      <3>2. told[c] <= stops'
        BY <1>3 DEF DialogueOf
      <3>3. reply[c] = NoReply
        BY <1>3, <1>6 DEF DialogueOf
      <3>4. pc[c] = "getdata" /\ data.of = c => data.number = told[c]
        BY <1>3, <1>4, <3>3 DEF DialogueOf
      <3>5. pc[c] = "getdata" /\ data'.of = c => data'.number = told[c]
        BY <3>1, <3>4
      <3> QED
        BY <1>1, <1>3, <2>1, <2>2, <3>1, <3>2, <3>5 DEF DialogueOf
    <2> QED
      BY <2>3, <2>4
  <1> QED
    BY <1>5, <1>6

\* The dialogue when a client acts.
LEMMA DialogueThroughClients ==
    ASSUME TypeOK, Dialogue, NEW d \in Client, Outside(d) \/ Take(d)
    PROVE  Dialogue'
  <1>1. SUFFICES ASSUME NEW c \in Client PROVE DialogueOf(c)'
    BY DEF Dialogue
  <1>2. /\ DialogueOf(c) /\ DialogueOf(d) /\ None # c
        /\ NoReply.text = "none" /\ None \notin Command
        /\ "gone" \notin Command /\ "free" \notin Command
    BY NoneAssumption DEF Dialogue, NoReply, Answer, Command
  <1>3. UNCHANGED << data, stops >>
    BY DEF Outside, Call, Receive, Timeout, Take, server
  <1>4. ASSUME NEW command \in Command, Call(d, command) PROVE DialogueOf(c)'
    <2>1. /\ UNCHANGED << told, reply, serving, cmd >> /\ command # "getdata" /\ pc[d] = "free"
          /\ pc'[c] = IF c = d THEN command ELSE pc[c]
          /\ request'[c] = IF c = d THEN command ELSE request[c]
      BY <1>4 DEF Call, Send, server, TypeOK
    <2> QED
      BY <1>2, <1>3, <2>1 DEF DialogueOf
  <1>5. CASE Receive(d)
    <2>1. /\ UNCHANGED << serving, cmd >> /\ pc[d] \in Command /\ reply[d] # NoReply
          /\ reply'[c] = IF c = d THEN NoReply ELSE reply[c]
      BY <1>5 DEF Receive, server, TypeOK
    <2>2. CASE c # d
      <3>1. pc'[c] = pc[c] /\ request'[c] = request[c] /\ told'[c] = told[c]
        BY <1>5, <2>2 DEF Receive, Send, TypeOK
      <3> QED
        BY <1>2, <1>3, <2>1, <2>2, <3>1 DEF DialogueOf
    <2>3. CASE c = d
      <3>1. \/ /\ pc'[c] = "startdaq" /\ request'[c] = "startdaq" /\ told'[c] = told[c]
            \/ /\ pc[c] = "stopdaq" /\ reply[c].text = "errors"
               /\ pc'[c] = "getdata" /\ request'[c] = "getdata"
               /\ told'[c] = reply[c].stop.number
            \/ /\ pc'[c] = "free" /\ request'[c] = request[c] /\ told'[c] = told[c]
        BY <1>5, <2>3 DEF Receive, Send, TypeOK
      <3>2. request[c] = None /\ serving # c /\ reply'[c] = NoReply
        BY <1>2, <2>1, <2>3 DEF DialogueOf
      <3> QED
        BY <1>2, <1>3, <2>1, <3>1, <3>2 DEF DialogueOf
    <2> QED
      BY <2>2, <2>3
  <1>6. CASE Timeout(d)
    <2>1. /\ UNCHANGED << told, reply, serving, cmd >> /\ reply[d] = NoReply
          /\ pc'[c] = IF c = d THEN "gone" ELSE pc[c]
          /\ request'[c] = request[c] \/ (c = d /\ request'[c] = None)
      BY <1>6 DEF Timeout, server, TypeOK
    <2> QED
      BY <1>2, <1>3, <2>1 DEF DialogueOf
  <1>7. CASE Take(d)
    <2>1. /\ UNCHANGED << pc, told, reply >> /\ request[d] # None
          /\ serving' = d /\ cmd' = request[d] /\ request[d] \in Command
          /\ request'[c] = IF c = d THEN None ELSE request[c]
      BY <1>7 DEF Take, client, TypeOK
    <2> QED
      BY <1>2, <1>3, <2>1 DEF DialogueOf
  <1> QED
    BY <1>4, <1>5, <1>6, <1>7 DEF Outside

\* The dialogue is kept.
LEMMA DialogueKept ==
    ASSUME TypeOK, Steps, Dialogue, [Next]_vars
    PROVE  Dialogue'
  <1>1. CASE \E c \in Client : Outside(c) \/ Take(c)
    BY <1>1, DialogueThroughClients
  <1>2. CASE UNCHANGED << pc, told, request, reply, serving, cmd, data, stops >>
    BY <1>2 DEF Dialogue, DialogueOf
  <1>3. ASSUME Die, UNCHANGED << client, data, stops >> PROVE Dialogue'
    <2>1. /\ UNCHANGED << pc, told, reply, data, stops >> /\ serving' = None
          /\ \A c \in Client : request'[c] = None /\ None # c
      BY <1>3, NoneAssumption DEF Die, Return, client
    <2> QED
      BY <2>1 DEF Dialogue, DialogueOf
  <1>4. NoStop \in Stop /\ data \in Stop /\ stops \in Nat
    BY DEF NoStop, Stop, TypeOK
  <1>5. CASE GetData
    <2>1. UNCHANGED << client, data, stops >>
      BY <1>5 DEF GetData
    <2>2. CASE Die
      BY <1>3, <2>1, <2>2
    <2>3. CASE ~Die
      <3>1. Reply("array", data) /\ UNCHANGED request
        BY <1>5, <2>3 DEF GetData
      <3>2. serving \in Client /\ cmd = "getdata" /\ "array" \in Text
        BY <1>5 DEF GetData, Steps, Text
      <3> QED
        BY <1>4, <2>1, <3>1, <3>2, DialogueThroughReply
    <2> QED
      BY <2>2, <2>3
  <1>6. CASE Restart
    <2>1. /\ UNCHANGED << pc, told, request, reply, serving, cmd, stops >>
          /\ data'.of = None
      BY <1>6 DEF Restart, client, NoStop
    <2>2. \A c \in Client : None # c
      BY NoneAssumption
    <2> QED
      BY <2>1, <2>2 DEF Dialogue, DialogueOf
  <1>7. CASE Enable
    <2>1. PICK text \in {"ready", "conf"} : Reply(text, NoStop)
      BY <1>7 DEF Enable
    <2>2. UNCHANGED << client, request, data, stops >> /\ serving \in Client
      BY <1>7 DEF Enable, Steps
    <2>3. text \in Text /\ text # "errors" /\ text # "array"
      BY DEF Text
    <2> QED
      BY <1>4, <2>1, <2>2, <2>3, DialogueThroughReply
  <1>8. CASE Fetch
    <2>1. UNCHANGED << client, data, stops >>
      BY <1>8 DEF Fetch
    <2>2. Die \/ UNCHANGED << serving, cmd, request, reply >>
      BY <1>8 DEF Fetch
    <2> QED
      BY <1>2, <1>3, <2>1, <2>2 DEF client
  <1>9. CASE Look \/ TakeWords
    <2>1. UNCHANGED << client, request >> /\ serving \in Client
      BY <1>9 DEF Look, TakeWords, Steps
    <2>2. CASE Drained
      <3>1. CASE cmd = "stopdaq" /\ err > 0
        <4> DEFINE stop == [of |-> serving, number |-> stops + 1]
        <4>1. Reply("errors", stop) /\ data' = stop /\ stops' = stops + 1
          BY <2>2, <3>1 DEF Drained
        <4>2. stop \in Stop /\ "errors" \in Text /\ stop.number <= stops'
          BY <1>4, <2>1, <4>1 DEF Stop, Text
        <4> HIDE DEF stop
        <4> QED
          BY <2>1, <3>1, <4>1, <4>2, DialogueThroughReply DEF stop
      <3>2. CASE ~ (cmd = "stopdaq" /\ err > 0)
        <4>1. PICK text \in {"no errors", "efifo"} : Reply(text, NoStop)
          BY <2>2, <3>2 DEF Drained
        <4>2. UNCHANGED << data, stops >>
          BY <2>2, <3>2 DEF Drained
        <4>3. text \in Text /\ text # "errors" /\ text # "array"
          BY DEF Text
        <4> QED
          BY <1>4, <2>1, <4>1, <4>2, <4>3, DialogueThroughReply
      <3> QED
        BY <3>1, <3>2
    <2>3. CASE ~Drained
      BY <1>2, <1>9, <2>1, <2>3 DEF Look, TakeWords, OnToNext, client
    <2> QED
      BY <2>2, <2>3
  <1> QED
    BY <1>1, <1>2, <1>5, <1>6, <1>7, <1>8, <1>9
       DEF Next, ServerStep, Outside, vars, client, server, Arm, Hold, Run, Reset, Latch, Quiet,
           ReadCounters, WorkUnchanged, PeersUnchanged, Mismatch

\* The data handed out are those the client was told of, or later ones.
LEMMA DataKept ==
    ASSUME TypeOK, Steps, Dialogue, Stops, DataOfTheStop, [Next]_vars
    PROVE  DataOfTheStop'
  <1>1. CASE UNCHANGED << reply, told >>
    BY <1>1 DEF DataOfTheStop
  <1>2. NoReply.text = "none"
    BY DEF NoReply, Answer
  <1>3. ASSUME NEW text, NEW stop, Reply(text, stop), text # "array", UNCHANGED told
        PROVE  DataOfTheStop'
    <2>1. \A c \in Client : reply'[c] = reply[c] \/ reply'[c].text # "array"
      BY <1>2, <1>3 DEF Reply, Answer, TypeOK
    <2> QED
      BY <1>3, <2>1 DEF DataOfTheStop
  <1>4. ASSUME NEW d \in Client, Receive(d) PROVE DataOfTheStop'
    <2>1. \A c \in Client : reply'[c] = IF c = d THEN NoReply ELSE reply[c]
      BY <1>4 DEF Receive, TypeOK
    <2>2. \A c \in Client : c # d => told'[c] = told[c]
      BY <1>4 DEF Receive, TypeOK
    <2> QED
      BY <1>2, <2>1, <2>2 DEF DataOfTheStop
  <1>5. CASE GetData
    <2>1. UNCHANGED told
      BY <1>5 DEF GetData, client
    <2>2. CASE Die
      BY <1>1, <2>1, <2>2 DEF Die
    <2>3. CASE ~Die
      <3>1. Reply("array", data) /\ data # NoStop
        BY <1>5, <2>3 DEF GetData
      <3>2. serving \in Client /\ cmd = "getdata"
        BY <1>5 DEF GetData, Steps
      <3>3. data.number = stops
        BY <3>1 DEF Stops
      <3>4. DialogueOf(serving) /\ told[serving] \in Nat /\ stops \in Nat
        BY <3>2 DEF Dialogue, TypeOK
      <3>5. \A c \in Client :
               reply'[c] = IF c # serving THEN reply[c]
                           ELSE IF pc[c] \in Command THEN Answer("array", data) ELSE NoReply
        BY <3>1 DEF Reply, TypeOK
      <3>6. SUFFICES ASSUME NEW c \in Client, reply'[c].text = "array"
                     PROVE  /\ reply'[c].stop.number >= told[c]
                            /\ reply'[c].stop.of = c => reply'[c].stop.number = told[c]
        BY <2>1 DEF DataOfTheStop
      <3>7. CASE c # serving
        BY <3>5, <3>6, <3>7 DEF DataOfTheStop
      <3>8. CASE c = serving
        <4>1. pc[c] \in Command /\ reply'[c] = Answer("array", data)
          BY <1>2, <3>5, <3>6, <3>8
        <4>2. reply'[c].stop = data
          BY <4>1 DEF Answer
        <4>3. pc[c] = "getdata"
          BY <3>2, <3>4, <3>8, <4>1 DEF DialogueOf, Command
        <4>4. reply[c].text # "array"
          BY <1>2, <3>4, <3>8 DEF DialogueOf
        <4> QED
          BY <3>3, <3>4, <3>8, <4>2, <4>3, <4>4 DEF DialogueOf
      <3> QED
        BY <3>7, <3>8
    <2> QED
      BY <2>2, <2>3
  <1>6. CASE Enable
    BY <1>3, <1>6 DEF Enable, client
  <1>7. CASE Look \/ TakeWords
    <2>1. UNCHANGED told
      BY <1>7 DEF Look, TakeWords, client
    <2>2. CASE Drained
      BY <1>3, <2>1, <2>2 DEF Drained
    <2>3. CASE ~Drained
      BY <1>1, <1>7, <2>1, <2>3 DEF Look, TakeWords, OnToNext
    <2> QED
      BY <2>2, <2>3
  <1> QED
    BY <1>1, <1>4, <1>5, <1>6, <1>7
       DEF Next, ServerStep, vars, client, Call, Timeout, Take, Arm, Hold, Run, Reset, Latch,
           Quiet, ReadCounters, PeersUnchanged, Fetch, Die, Restart, Mismatch

LEMMA InitIsSound ==
    ASSUME Init
    PROVE  IInv
  <1>1. TypeOK
    BY InitIsTyped
  <1>2. at = "idle" /\ ~fired /\ \A p \in Place : armed[p] = "off" /\ fifo[p] = 0
    BY DEF Init
  <1>3. Steps /\ Drains
    BY <1>2 DEF Steps, Drains, Draining
  <1>4. Arming
    <2>1. AllOff /\ ~Configuring
      BY <1>2 DEF AllOff, Configuring
    <2>2. Together /\ InOrder
      BY <1>2, Places DEF Together, InOrder
    <2> QED
      BY <1>2, <2>1, <2>2 DEF Arming, Settled, Rerun, Unarmed, UsedUp
  <1>5. Descending
    <2>1. ASSUME NEW capture \in Capture, NEW l \in Link, NEW m \in Link
          PROVE  fifo[<< capture, m >>] <= fifo[<< capture, l >>]
      <3>1. fifo[<< capture, m >>] = 0 /\ fifo[<< capture, l >>] = 0
        BY <1>2, Places
      <3> QED
        BY <3>1
    <2> QED
      BY <1>2, <2>1 DEF Descending
  <1>6. Evenly
    BY <1>2 DEF Evenly, Even, Draining
  <1>7. Dialogue /\ Stops /\ DataOfTheStop
    <2>1. \A c \in Client : None # c
      BY NoneAssumption
    <2>2. Stops /\ data.of = None /\ stops = 0 /\ serving = None
      BY DEF Init, Stops, NoStop
    <2>3. \A c \in Client : /\ pc[c] = "free" /\ request[c] = None /\ told[c] = 0
                            /\ reply[c] = NoReply /\ reply[c].text = "none"
      BY DEF Init, NoReply, Answer
    <2> QED
      BY <2>1, <2>2, <2>3 DEF Dialogue, DialogueOf, DataOfTheStop
  <1> QED
    BY <1>1, <1>3, <1>4, <1>5, <1>6, <1>7 DEF IInv

LEMMA IInvKept ==
    ASSUME IInv, [Next]_vars
    PROVE  IInv'
  <1>1. TypeOK'
    <2>1. ClientOK' /\ ServerOK' /\ FirmwareOK' /\ BoolOK'
      BY ClientsTyped, ServerTyped, FirmwareTyped DEF IInv
    <2> QED
      BY <2>1 DEF TypeOK, ClientOK, ServerOK, FirmwareOK, BoolOK
  <1>2. Steps' /\ Arming' /\ Descending' /\ Drains' /\ Evenly'
    BY StepsKept, ArmingKept, DescendingKept, DrainsKept, EvenlyKept DEF IInv
  <1>3. Dialogue' /\ Stops' /\ DataOfTheStop'
    BY DialogueKept, StopsKept, DataKept DEF IInv
  <1> QED
    BY <1>1, <1>2, <1>3 DEF IInv

LEMMA Invariance == Spec => []IInv
  BY InitIsSound, IInvKept, PTL DEF Spec

\* The variables keep their types: in particular the server never leaves the
\* captures and links there are, and no FIFO holds more or less than it can.
THEOREM TypeCorrect == Spec => []TypeOK
  <1>1. IInv => TypeOK
    BY DEF IInv
  <1> QED
    BY <1>1, Invariance, PTL

\* link_capture.py:258: what get_captured_data reads of a capture has the same
\* number of words for every link, although it compares the last with the first
\* only.
THEOREM WholeRows == Spec => RowsAreWhole
  <1>1. ASSUME IInv, [Next]_vars
        PROVE  [\A capture \in Capture :
                    at = "fetch" /\ capture \in fetched' \ fetched =>
                        \A l \in Link : fifo[<< capture, l >>] = fifo[<< capture, 1 >>]]_vars
    <2>1. SUFFICES ASSUME NEW capture \in Capture, at = "fetch",
                          capture \in fetched' \ fetched, NEW l \in Link
                   PROVE  fifo[<< capture, l >>] = fifo[<< capture, 1 >>]
      OBVIOUS
    <2>2. Fetch
      <3>1. \A c \in Client : ~Take(c) /\ ~Outside(c)
        BY <2>1 DEF Take, Outside, Call, Receive, Timeout, server
      <3>2. ~ (UNCHANGED vars)
        BY <2>1 DEF vars, server
      <3> QED
        BY <1>1, <2>1, <3>1, <3>2
           DEF Next, ServerStep, Outside, GetData, Arm, Hold, Run, Reset, Enable, Latch, Quiet,
               ReadCounters, Look, TakeWords, Restart, Mismatch, server
    <2>3. Complete(capture)
      BY <2>1, <2>2 DEF Fetch, Die, Return
    <2>4. /\ fifo[<< capture, l >>] \in 0..Depth /\ fifo[<< capture, 1 >>] \in 0..Depth
          /\ fifo[<< capture, NLinks >>] = fifo[<< capture, 1 >>]
      <3>1. \A m \in Link : fifo[<< capture, m >>] \in 0..Depth
        BY <1>1, Places DEF IInv, TypeOK
      <3> QED
        BY <2>3, <3>1, Places DEF Complete
    <2>5. /\ fifo[<< capture, NLinks >>] <= fifo[<< capture, l >>]
          /\ fifo[<< capture, l >>] <= fifo[<< capture, 1 >>]
      BY <1>1, <2>1, Places DEF IInv, Descending, Draining
    <2> QED
      BY <2>4, <2>5, DepthAssumption
  <1> QED
    BY <1>1, Invariance, PTL DEF Spec, RowsAreWhole

\* hexactrl_interface.py:92, link_capture.py:227: when a stop is over, every
\* FIFO is empty and the trigger is off, whatever came between its dispatches.
THEOREM NothingLeft == Spec => StopLeavesNothing
  <1>1. ASSUME IInv, [Next]_vars
        PROVE  [cmd = "stopdaq" /\ Draining /\ at' = "idle" =>
                    ~trigger' /\ \A p \in Place : fifo'[p] = 0]_vars
    <2>1. SUFFICES ASSUME cmd = "stopdaq", Draining, at' = "idle"
                   PROVE  ~trigger' /\ \A p \in Place : fifo'[p] = 0
      OBVIOUS
    <2>2. Look \/ TakeWords
      <3>1. \A c \in Client : ~Take(c) /\ ~Outside(c)
        BY <2>1 DEF Take, Outside, Call, Receive, Timeout, server, Draining
      <3>2. ~ (UNCHANGED vars)
        BY <2>1 DEF vars, server, Draining
      <3> QED
        BY <1>1, <2>1, <3>1, <3>2
           DEF Next, ServerStep, Outside, GetData, Arm, Hold, Run, Reset, Enable, Latch, Quiet,
               ReadCounters, Fetch, Restart, Mismatch, server, Draining
    <2>3. ~trigger /\ UNCHANGED trigger
      BY <1>1, <2>1, <2>2 DEF IInv, Steps, Draining, Look, TakeWords, firmware
    <2>4. Blank'
      BY <1>1, <2>1, <2>2, DrainedIsEmpty DEF IInv, Calm
    <2> QED
      BY <2>3, <2>4 DEF Blank
  <1> QED
    BY <1>1, Invariance, PTL DEF Spec, StopLeavesNothing

\* hexactrl_interface.py:86: when stop_daq reads the captures because of errors,
\* it finds all it looks for, unless nothing was captured since the last stop or
\* a trigger fell into an emptyfifo or a configure.
THEOREM DeathsExplained == Spec => []StopDiesOnly
  <1>1. ASSUME IInv PROVE StopDiesOnly
    <2>1. SUFFICES ASSUME at = "fetch", ~raced, fired PROVE Complete(place[1])
      BY DEF StopDiesOnly
    <2>2. Even(ToCome) /\ Filled(ToCome)
      BY <1>1, <2>1 DEF IInv, Evenly
    <2>3. place[1] \in Capture
      BY <1>1, Places DEF IInv, TypeOK
    <2>4. place[1] \in ToCome
      BY <2>3 DEF ToCome, Passed, Capture
    <2> QED
      BY <2>2, <2>3, <2>4, Places DEF Complete, Even, Filled
  <1> QED
    BY <1>1, Invariance, PTL

\* hexactrl_interface.py:89, zmq_server.py:50: the data a client is handed are
\* those of the stop it was told of, unless another client's stop came after it.
THEOREM DataMatch == Spec => []DataOfTheStop
  <1>1. IInv => DataOfTheStop
    BY DEF IInv
  <1> QED
    BY <1>1, Invariance, PTL
=============================================================================
