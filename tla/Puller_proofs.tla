---------------------------- MODULE Puller_proofs ----------------------------
(***************************************************************************)
(* Proofs about the data puller, for any number of starts, scans and       *)
(* deaths of the server.                                                   *)
(***************************************************************************)
EXTENDS Puller, TLAPS

\* The messages on the wire keep their type.
LEMMA TailType ==
    ASSUME NEW S, NEW q \in Seq(S), q # << >>
    PROVE  q[1] \in S /\ Tail(q) \in Seq(S)
OBVIOUS

\* The scans whose START is in a queue are scans.
LEMMA QueuedType ==
    ASSUME queue \in Seq(Message)
    PROVE  {m.run : m \in {n \in Range(queue) : n.part = "START"}} \subseteq Run
<1>1. Range(queue) \subseteq Message
  BY DEF Range
<1> QED
  BY <1>1 DEF Message

LEMMA EventType ==
    ASSUME NEW event, fsm \in State, process_event(event)
    PROVE  fsm' \in State
BY DEF process_event

LEMMA PartType == Part \in [1..3 -> Range(Part)] /\ Range(Part) = {"START", "DATA", "END"}
BY DEF Part, Range

LEMMA InitType == Init => TypeOK
<1> SUFFICES ASSUME Init PROVE TypeOK
  OBVIOUS
<1> USE CountAssumption, NobodyAssumption, FlagAssumption
<1>1. NoFile \in File
  BY DEF NoFile, File
<1>2. file \in [Reader -> File]
  BY <1>1 DEF Init
<1>3. reader \in [Reader -> Place]
  BY DEF Init, Place
<1>4. fsm \in State
  BY DEF Init, State
<1>5. scan \in [run : Nat, part : 1..3]
  BY DEF Init
<1>6. alive \in BOOLEAN /\ sig \in BOOLEAN /\ connected \in BOOLEAN
  BY Zenon DEF Init
<1>7. /\ config \in {"none", "bad"} \cup Dir /\ cmd \in {"idle", "config", "join", "exit"}
      /\ handle \in Reader \cup {Nobody}
      /\ client \in {"none", "configured", "started", "stopped"}
      /\ crashes \in 0..MaxCrashes /\ fresh \in SUBSET Run /\ lost \in SUBSET Run
  BY DEF Init
<1>8. /\ saved \in Seq(File) /\ queue \in Seq(Message)
      /\ fileID \in [Reader -> Nat] /\ disk \in SUBSET File
  BY DEF Init
<1> QED
  BY <1>2, <1>3, <1>4, <1>5, <1>6, <1>7, <1>8 DEF TypeOK

\* Every step keeps every variable in its type.
LEMMA TypeStep == TypeOK /\ [Next]_vars => TypeOK'
<1> SUFFICES ASSUME TypeOK, [Next]_vars PROVE TypeOK'
  OBVIOUS
<1> USE CountAssumption, NobodyAssumption, FlagAssumption
<1>0. CASE UNCHANGED vars
  BY <1>0 DEF TypeOK, vars, command, readers, store, wire
<1>1. CASE Configure
  BY <1>1 DEF Configure, TypeOK, readers, store, wire
<1>2. CASE ReceiveConfig
  <2>1. fsm' \in State
    BY <1>2, EventType DEF ReceiveConfig, TypeOK
  <2> QED
    BY <1>2, <2>1 DEF ReceiveConfig, TypeOK, readers, store, wire
<1>3. CASE Start
  <2>1. reader' \in [Reader -> Place]
    BY <1>3 DEF Start, TypeOK, Place
  <2> QED
    BY <1>3, <2>1 DEF Start, TypeOK, store, wire
<1>4. CASE Stop
  <2>1. fsm' \in State
    BY <1>4, EventType DEF Stop, TypeOK
  <2> QED
    BY <1>4, <2>1 DEF Stop, TypeOK, readers, store, wire
<1>5. CASE Joined
  BY <1>5 DEF Joined, TypeOK, readers, store, wire
<1>6. CASE interrupt_handler
  BY <1>6 DEF interrupt_handler, TypeOK, readers, store, wire
<1>7. CASE Destroy
  <2>1. fsm' \in State
    BY <1>7, EventType DEF Destroy, TypeOK
  <2> QED
    BY <1>7, <2>1 DEF Destroy, TypeOK, readers, store, wire
<1>d. ASSUME Dies, UNCHANGED << fsm, command, readers >> PROVE TypeOK'
  <2>1. lost' \in SUBSET Run
    BY <1>d, QueuedType DEF Dies, TypeOK
  <2>2. alive' \in BOOLEAN /\ connected' \in BOOLEAN
    BY <1>d, Zenon DEF Dies
  <2>3. queue' = << >> /\ UNCHANGED << scan, crashes, fresh >>
    BY <1>d DEF Dies
  <2> QED
    BY <1>d, <2>1, <2>2, <2>3 DEF TypeOK, command, readers, store
<1>8. CASE Exit
  BY <1>8, <1>d DEF Exit
<1>9. CASE Push
  <2>1. [part |-> Part[scan.part], run |-> scan.run] \in Message
    BY <1>9, PartType DEF Push, TypeOK, Message
  <2>2. queue' \in Seq(Message)
    BY <1>9, <2>1 DEF Push, TypeOK
  <2>3. scan' \in [run : Nat, part : 1..3]
    BY <1>9 DEF Push, TypeOK, Following
  <2> QED
    BY <1>9, <2>2, <2>3 DEF Push, TypeOK, command, readers, store
<1>10. CASE ServerDies
  BY <1>10 DEF ServerDies, TypeOK, command, readers, store
<1>11. ASSUME NEW i \in Reader, ReaderStep(i) PROVE TypeOK'
  <2>g. ASSUME NEW place \in Place, Goto(i, place) PROVE reader' \in [Reader -> Place]
    BY <2>g DEF Goto, TypeOK
  <2>1. CASE Connect(i)
    <3>1. CASE config \notin Dir
      BY <2>1, <3>1, <1>d DEF Connect, Uncaught
    <3>2. CASE config \in Dir
      <4>1. reader' \in [Reader -> Place]
        BY <2>1, <3>2, <2>g DEF Connect, Place
      <4> QED
        BY <2>1, <3>2, <4>1 DEF Connect, TypeOK, command, store
    <3> QED BY <3>1, <3>2
  <2>2. CASE Begin(i)
    <3>1. reader' \in [Reader -> Place]
      BY <2>2 DEF Begin, Place, Goto, TypeOK
    <3>2. fsm' \in State
      BY <2>2, EventType DEF Begin, TypeOK
    <3> QED
      BY <2>2, <3>1, <3>2 DEF Begin, TypeOK, command, store, wire
  <2>3. CASE Loop(i)
    <3>1. reader' \in [Reader -> Place]
      BY <2>3 DEF Loop, Place, Goto, TypeOK
    <3> QED
      BY <2>3, <3>1 DEF Loop, TypeOK, command, store, wire
  <2>4. CASE Poll(i)
    <3>1. CASE queue = << >>
      <4>1. reader' \in [Reader -> Place]
        BY <2>4, <3>1, <2>g DEF Poll, Place
      <4> QED
        BY <2>4, <3>1, <4>1 DEF Poll, TypeOK, command, store
    <3>2. CASE queue # << >> /\ queue[1].part = "START" /\ config \notin Dir
      BY <2>4, <3>2, <1>d DEF Poll, Uncaught
    <3>3. CASE queue # << >> /\ ~(queue[1].part = "START" /\ config \notin Dir)
      <4>1. queue[1] \in Message /\ Tail(queue) \in Seq(Message)
        BY <3>3, TailType DEF TypeOK
      <4>2. queue[1].part = "START" => NewFile(i, queue[1].run) \in File
        <5>1. queue[1].run \in Run /\ fileID[i] \in Nat
          BY <4>1 DEF Message, TypeOK
        <5> QED
          BY <5>1, <3>3 DEF File, NewFile
      <4>3. file' \in [Reader -> File] /\ disk' \in SUBSET File
        <5>1. \/ queue[1].part # "START" /\ UNCHANGED << file, disk >>
              \/ /\ queue[1].part = "START"
                 /\ file' = [file EXCEPT ![i] = NewFile(i, queue[1].run)]
                 /\ disk' = {f \in disk : f.name # << config, fileID[i] >>}
          BY <2>4, <3>3 DEF Poll
        <5>2. file \in [Reader -> File] /\ disk \in SUBSET File
          BY DEF TypeOK
        <5> QED BY <4>2, <5>1, <5>2
      <4>4. reader' \in [Reader -> Place]
        BY <2>4, <3>3 DEF Poll, Place, Goto, TypeOK
      <4> QED
        BY <2>4, <3>3, <4>1, <4>3, <4>4 DEF Poll, TypeOK, command, store
    <3> QED BY <3>1, <3>2, <3>3
  <2>5. CASE Empty(i)
    <3>1. reader' \in [Reader -> Place]
      BY <2>5, <2>g DEF Empty, Place
    <3>2. fsm' \in State
      BY <2>5, EventType DEF Empty, TypeOK
    <3> QED
      BY <2>5, <3>1, <3>2 DEF Empty, TypeOK, command, store, wire
  <2>6. CASE Inner(i)
    <3>1. reader' \in [Reader -> Place]
      BY <2>6 DEF Inner, Place, Goto, TypeOK
    <3> QED
      BY <2>6, <3>1 DEF Inner, TypeOK, command, store, wire
  <2>7. CASE Recv(i)
    <3>1. CASE queue[1].part = "START"
      BY <2>7, <3>1, <1>d DEF Recv, Uncaught
    <3>2. CASE queue[1].part # "START"
      <4>1. queue[1] \in Message /\ Tail(queue) \in Seq(Message)
        BY <2>7, TailType DEF TypeOK, Recv
      <4>2. [file[i] EXCEPT !.data = Append(@, queue[1].run)] \in File
        <5>1. file[i] \in File /\ queue[1].run \in Run
          BY <4>1 DEF Message, TypeOK
        <5>2. Append(file[i].data, queue[1].run) \in Seq(Run)
          BY <5>1 DEF File
        <5> QED
          BY <5>1, <5>2 DEF File
      <4>3. file' \in [Reader -> File]
        BY <2>7, <3>2, <4>2 DEF Recv, TypeOK
      <4>4. reader' \in [Reader -> Place]
        BY <2>7, <3>2 DEF Recv, Place, Goto, TypeOK
      <4> QED
        BY <2>7, <3>2, <4>1, <4>3, <4>4 DEF Recv, TypeOK, command, store
    <3> QED BY <3>1, <3>2
  <2>8. CASE Save(i)
    <3>1. reader' \in [Reader -> Place]
      BY <2>8, <2>g DEF Save, Place
    <3>2. file[i] \in File
      BY DEF TypeOK
    <3>3. saved' \in Seq(File) /\ disk' \in SUBSET File /\ fileID' \in [Reader -> Nat]
      BY <2>8, <3>2 DEF Save, TypeOK
    <3> QED
      BY <2>8, <3>1, <3>3 DEF Save, TypeOK, command, store, wire
  <2>9. CASE Leave(i)
    <3>1. reader' \in [Reader -> Place]
      BY <2>9, <2>g DEF Leave, Place
    <3>2. lost' \in SUBSET Run
      BY <2>9, QueuedType DEF Leave, TypeOK
    <3>3. connected' \in BOOLEAN
      BY <2>9, Zenon DEF Leave
    <3>4. queue' = << >> /\ UNCHANGED << fsm, alive, command, file, saved, store, scan, crashes, fresh >>
      BY <2>9 DEF Leave
    <3> QED
      BY <3>1, <3>2, <3>3, <3>4 DEF TypeOK, command, store
  <2> QED
    BY <1>11, <2>1, <2>2, <2>3, <2>4, <2>5, <2>6, <2>7, <2>8, <2>9 DEF ReaderStep
<1> QED
  BY <1>0, <1>1, <1>2, <1>3, <1>4, <1>5, <1>6, <1>7, <1>8, <1>9, <1>10, <1>11
     DEF Next, Client, Server

\* Every variable keeps its type, whatever the client sends.
THEOREM TypeCorrect == Spec => []TypeOK
BY InitType, TypeStep, PTL DEF Spec

-----------------------------------------------------------------------------
\* The four transitions, one event at a time.
LEMMA Events ==
    ASSUME fsm \in State
    PROVE  /\ process_event("start") =>
                 fsm' = IF fsm = "Initialised" THEN "Running" ELSE fsm
           /\ process_event("stop") =>
                 fsm' = IF fsm = "Running" THEN "Stopped" ELSE fsm
           /\ process_event("destroy") => fsm' = "Destroyed"
           /\ process_event("reset") =>
                 fsm' = IF fsm \in {"Destroyed", "Initialised"} THEN "Initialised" ELSE fsm
           /\ Handles("start") <=> fsm = "Initialised"
BY DEF process_event, Handles, transition_table, State

\* A careful client is not answered "started" while it sends a configuration.
ConfigApart == Careful /\ cmd = "config" => client # "started"

\* Until ctrl-C the machine waits, Initialised, for the start of a configured
\* client and for its reader.
StartAwaited ==
    Careful /\ ~sig =>
        /\ client = "configured" => fsm = "Initialised"
        /\ \A i \in Reader : reader[i] \in {"connect", "begin"} => fsm = "Initialised"

SInv == TypeOK /\ RunningHasReader /\ OneReader /\ ConfigApart /\ StartAwaited

\* The places at which the machine may be Running are not left before it is
\* seen Destroyed.
LEMMA RunningStep == TypeOK /\ RunningHasReader /\ [Next]_vars => RunningHasReader'
<1> SUFFICES ASSUME TypeOK, RunningHasReader, [Next]_vars PROVE RunningHasReader'
  OBVIOUS
<1>t. fsm \in State /\ reader \in [Reader -> Place]
  BY DEF TypeOK
<1>k. ASSUME UNCHANGED << fsm, reader >> PROVE RunningHasReader'
  BY <1>k DEF RunningHasReader, InLoop
<1>e. ASSUME NEW event \in {"stop", "destroy", "reset"}, process_event(event),
             UNCHANGED reader
      PROVE  RunningHasReader'
  BY <1>e, <1>t, Events DEF RunningHasReader, InLoop, State
<1>0. CASE UNCHANGED vars
  BY <1>0, <1>k DEF vars, readers
<1>1. CASE Configure \/ Joined \/ interrupt_handler \/ Push \/ ServerDies
  BY <1>1, <1>k DEF Configure, Joined, interrupt_handler, Push, ServerDies, readers
<1>2. CASE ReceiveConfig
  BY <1>2, <1>k, <1>e DEF ReceiveConfig, readers
<1>3. CASE Start
  <2>1. PICK i \in Reader : reader[i] = "unborn" /\ reader' = [reader EXCEPT ![i] = "connect"]
    BY <1>3 DEF Start
  <2>2. \A j \in Reader : InLoop(j) => InLoop(j)'
    BY <2>1, <1>t DEF InLoop
  <2> QED
    BY <1>3, <2>2 DEF Start, RunningHasReader
<1>4. CASE Stop \/ Destroy
  BY <1>4, <1>e DEF Stop, Destroy, readers
<1>5. CASE Exit
  BY <1>5, <1>k DEF Exit, readers
<1>6. ASSUME NEW i \in Reader, ReaderStep(i) PROVE RunningHasReader'
  <2>g. ASSUME NEW place \in {"head", "poll", "empty", "inner", "recv", "save"},
               Goto(i, place), fsm' = fsm
        PROVE  RunningHasReader'
    BY <2>g, <1>t DEF Goto, RunningHasReader, InLoop
  <2>1. CASE Connect(i)
    <3>1. CASE config \in Dir
      <4>1. \A j \in Reader : InLoop(j) => InLoop(j)'
        BY <2>1, <3>1, <1>t DEF Connect, Goto, InLoop
      <4> QED
        BY <2>1, <3>1, <4>1 DEF Connect, RunningHasReader
    <3>2. CASE config \notin Dir
      BY <2>1, <3>2, <1>k DEF Connect, Uncaught, readers
    <3> QED BY <3>1, <3>2
  <2>2. CASE Begin(i)
    <3>1. CASE fsm = "Initialised"
      <4>1. reader' = [reader EXCEPT ![i] = "head"]
        BY <2>2, <3>1, <1>t, Events DEF Begin, Goto
      <4> QED
        BY <4>1, <1>t DEF RunningHasReader, InLoop
    <3>2. CASE fsm # "Initialised"
      <4>1. fsm' = fsm
        BY <2>2, <3>2, <1>t, Events DEF Begin
      <4>2. \A j \in Reader : InLoop(j) => InLoop(j)'
        BY <2>2, <1>t DEF Begin, Goto, InLoop
      <4> QED
        BY <4>1, <4>2 DEF RunningHasReader
    <3> QED BY <3>1, <3>2
  <2>3. CASE Loop(i)
    <3>1. CASE fsm = "Destroyed"
      BY <2>3, <3>1 DEF Loop, RunningHasReader
    <3>2. CASE fsm # "Destroyed"
      BY <2>3, <3>2, <2>g DEF Loop
    <3> QED BY <3>1, <3>2
  <2>4. CASE Poll(i)
    <3>1. CASE queue = << >>
      BY <2>4, <3>1, <2>g DEF Poll
    <3>2. CASE queue # << >> /\ queue[1].part = "START" /\ config \notin Dir
      BY <2>4, <3>2, <1>k DEF Poll, Uncaught, readers
    <3>3. CASE queue # << >> /\ ~(queue[1].part = "START" /\ config \notin Dir)
      BY <2>4, <3>3, <2>g DEF Poll
    <3> QED BY <3>1, <3>2, <3>3
  <2>5. CASE Empty(i)
    <3>1. CASE fsm = "Stopped"
      BY <2>5, <3>1, <1>t, Events DEF Empty, RunningHasReader
    <3>2. CASE fsm # "Stopped"
      BY <2>5, <3>2, <2>g DEF Empty
    <3> QED BY <3>1, <3>2
  <2>6. CASE Inner(i)
    BY <2>6, <2>g DEF Inner
  <2>7. CASE Recv(i)
    <3>1. CASE queue[1].part = "START"
      BY <2>7, <3>1, <1>k DEF Recv, Uncaught, readers
    <3>2. CASE queue[1].part # "START"
      BY <2>7, <3>2, <2>g DEF Recv
    <3> QED BY <3>1, <3>2
  <2>8. CASE Save(i)
    BY <2>8, <2>g DEF Save
  <2>9. CASE Leave(i)
    <3>1. \A j \in Reader : InLoop(j) => InLoop(j)'
      BY <2>9, <1>t DEF Leave, Goto, InLoop
    <3> QED
      BY <2>9, <3>1 DEF Leave, RunningHasReader
  <2> QED
    BY <1>6, <2>1, <2>2, <2>3, <2>4, <2>5, <2>6, <2>7, <2>8, <2>9 DEF ReaderStep
<1> QED
  BY <1>0, <1>1, <1>2, <1>3, <1>4, <1>5, <1>6 DEF Next, Client, Server

\* For every client and any number of readers: a machine that is Running or
\* Stopped has a reader that will see it.
THEOREM ReaderListens == Spec => []RunningHasReader
<1>1. Init => TypeOK /\ RunningHasReader
  BY InitType DEF Init, RunningHasReader
<1>2. (TypeOK /\ RunningHasReader) /\ [Next]_vars => (TypeOK /\ RunningHasReader)'
  BY TypeStep, RunningStep
<1> QED
  BY <1>1, <1>2, PTL DEF Spec

-----------------------------------------------------------------------------
\* While no reader is active the machine waits for a reset or for a start.
LEMMA QuietMachine ==
    ASSUME TypeOK, RunningHasReader, \A i \in Reader : ~Active(i)
    PROVE  fsm \in {"Initialised", "Destroyed"}
BY DEF TypeOK, State, RunningHasReader, InLoop, Active

\* A step of one reader wakes no other and leaves the client alone.
LEMMA OwnPlace ==
    ASSUME TypeOK, NEW i \in Reader, ReaderStep(i)
    PROVE  /\ \A j \in Reader \ {i} : reader'[j] = reader[j]
           /\ Active(i)
           /\ reader'[i] \notin {"unborn", "connect"} \/ reader' = reader
           /\ UNCHANGED << client, handle, cmd, sig, config >>
<1>t. reader \in [Reader -> Place]
  BY DEF TypeOK
<1>1. ASSUME NEW place \in Place \ {"unborn", "connect"}, Goto(i, place)
      PROVE  /\ \A j \in Reader \ {i} : reader'[j] = reader[j]
             /\ reader'[i] \notin {"unborn", "connect"}
  BY <1>1, <1>t DEF Goto, Place
<1>2. UNCHANGED command
  BY DEF ReaderStep, Connect, Begin, Loop, Poll, Empty, Inner, Recv, Save, Leave, Uncaught
<1>3. Active(i)
  BY DEF Active, ReaderStep, Connect, Begin, Loop, Poll, Empty, Inner, Recv, Save, Leave
<1>4. \/ UNCHANGED readers
      \/ \E place \in Place \ {"unborn", "connect"} : Goto(i, place)
  BY DEF ReaderStep, Connect, Begin, Loop, Poll, Empty, Inner, Recv, Save, Leave, Uncaught, Place
<1> QED
  BY <1>1, <1>2, <1>3, <1>4 DEF command, readers

LEMMA SInvInit == Init => SInv
BY InitType, NobodyAssumption
   DEF Init, SInv, RunningHasReader, OneReader, Active, ConfigApart, StartAwaited

\* The careful client, its reader and the machine stay in step.
LEMMA SInvStep == SInv /\ [Next]_vars => SInv'
<1> SUFFICES ASSUME SInv, [Next]_vars PROVE SInv'
  OBVIOUS
<1>a. TypeOK' /\ RunningHasReader'
  BY TypeStep, RunningStep DEF SInv
<1>b. CASE ~Careful
  BY <1>a, <1>b DEF SInv, OneReader, ConfigApart, StartAwaited
<1>c. CASE Careful
  <2> USE <1>c
  <2>t. fsm \in State /\ reader \in [Reader -> Place] /\ handle \in Reader \cup {Nobody}
    BY DEF SInv, TypeOK
  <2>q. client # "started" => fsm \in {"Initialised", "Destroyed"} /\ \A i \in Reader : ~Active(i)
    BY QuietMachine DEF SInv, OneReader
  <2>k. ASSUME UNCHANGED << fsm, reader, handle, client, cmd, sig >> PROVE SInv'
    BY <1>a, <2>k DEF SInv, OneReader, Active, ConfigApart, StartAwaited
  <2>0. CASE UNCHANGED vars
    BY <2>0, <2>k DEF vars, readers, command
  <2>1. CASE Push \/ ServerDies
    BY <2>1, <2>k DEF Push, ServerDies, readers, command
  <2>2. CASE Configure
    BY <2>2, <1>a, <2>q
       DEF Configure, Asks, readers, SInv, OneReader, Active, ConfigApart, StartAwaited
  <2>3. CASE ReceiveConfig
    <3>1. client # "started" /\ client' # "started" /\ UNCHANGED << reader, handle, sig >>
      BY <2>3 DEF SInv, ConfigApart, ReceiveConfig, readers
    <3>2. client' = "configured" => fsm' = "Initialised"
      BY <2>3, <3>1, <2>q, <2>t, Events DEF ReceiveConfig
    <3> QED
      BY <1>a, <3>1, <3>2, <2>q DEF SInv, OneReader, Active, ConfigApart, StartAwaited
  <2>4. CASE Start
    <3>1. client = "configured" /\ client' = "started" /\ UNCHANGED << fsm, cmd, sig >>
          /\ cmd = "idle"
      BY <2>4 DEF Start, Asks
    <3>2. PICK i \in Reader : reader' = [reader EXCEPT ![i] = "connect"] /\ handle' = i
      BY <2>4 DEF Start
    <3>3. \A j \in Reader : Active(j)' => j = i
      BY <3>1, <3>2, <2>t, <2>q DEF Active
    <3>4. ~sig => fsm' = "Initialised"
      BY <3>1 DEF SInv, StartAwaited
    <3> QED
      BY <1>a, <3>1, <3>2, <3>3, <3>4 DEF SInv, OneReader, ConfigApart, StartAwaited
  <2>5. CASE Stop
    <3>1. /\ UNCHANGED << reader, handle, client, sig >> /\ cmd' = "join"
          /\ client = "started"
          /\ fsm' = IF fsm = "Running" THEN "Stopped" ELSE fsm
      BY <2>5, <2>t, Events DEF Stop, Asks, readers
    <3> QED
      BY <1>a, <3>1 DEF SInv, OneReader, Active, ConfigApart, StartAwaited
  <2>6. CASE Joined
    <3>1. \A i \in Reader : ~Active(i)
      BY <2>6 DEF Joined, Over, SInv, OneReader, Active
    <3>2. client' = "stopped" /\ cmd' = "idle" /\ UNCHANGED << reader, sig >>
      BY <2>6 DEF Joined, readers
    <3> QED
      BY <1>a, <3>1, <3>2 DEF SInv, OneReader, Active, ConfigApart, StartAwaited
  <2>7. CASE interrupt_handler
    BY <2>7, <1>a
       DEF interrupt_handler, readers, SInv, OneReader, Active, ConfigApart, StartAwaited
  <2>8. CASE Destroy
    BY <2>8, <1>a
       DEF Destroy, readers, SInv, OneReader, Active, ConfigApart, StartAwaited
  <2>9. CASE Exit
    BY <2>9, <2>k DEF Exit, command, readers
  <2>10. ASSUME NEW i \in Reader, ReaderStep(i) PROVE SInv'
    <3>1. /\ \A j \in Reader \ {i} : reader'[j] = reader[j] /\ ~Active(j)
          /\ i = handle /\ client = "started"
          /\ UNCHANGED << client, handle, cmd, sig >>
      BY <2>10, OwnPlace DEF SInv, OneReader
    <3>2. OneReader' /\ ConfigApart'
      BY <3>1 DEF SInv, OneReader, Active, ConfigApart
    <3>3. StartAwaited'
      <4>1. CASE Connect(i)
        <5>1. fsm' = fsm /\ reader[i] = "connect"
          BY <4>1 DEF Connect, Uncaught
        <5> QED
          BY <5>1, <3>1 DEF SInv, StartAwaited, Active
      <4>2. CASE ~Connect(i)
        <5>1. reader'[i] \notin {"connect", "begin"} \/ UNCHANGED << fsm, reader >>
          BY <2>10, <4>2, <2>t DEF ReaderStep, Begin, Loop, Poll, Empty, Inner, Recv,
                Save, Leave, Goto, Uncaught, readers
        <5> QED
          BY <5>1, <3>1 DEF SInv, StartAwaited, Active
      <4> QED BY <4>1, <4>2
    <3> QED
      BY <1>a, <3>2, <3>3 DEF SInv
  <2> QED
    BY <2>0, <2>1, <2>2, <2>3, <2>4, <2>5, <2>6, <2>7, <2>8, <2>9, <2>10
       DEF Next, Client, Server
<1> QED
  BY <1>b, <1>c

LEMMA SInvAlways == Spec => []SInv
BY SInvInit, SInvStep, PTL DEF Spec

\* A careful client never has two reader threads, nor one outside a session.
THEOREM SingleReader == Spec => []OneReader
<1>1. SInv => OneReader
  BY DEF SInv
<1> QED
  BY <1>1, SInvAlways, PTL

\* A careful client's reader is let in by the machine unless ctrl-C came.
THEOREM StartAccepted == Careful => (Spec => StartNeverRefused)
<1> SUFFICES ASSUME Careful PROVE Spec => StartNeverRefused
  OBVIOUS
<1>1. SInv /\ [Next]_vars =>
        [\A i \in Reader : reader[i] = "begin" /\ reader'[i] = "ended" => sig]_vars
  <2> SUFFICES ASSUME SInv, Next, NEW i \in Reader,
                      reader[i] = "begin", reader'[i] = "ended", ~sig
               PROVE  FALSE
    BY DEF vars, readers
  <2>t. fsm \in State /\ reader \in [Reader -> Place]
    BY DEF SInv, TypeOK
  <2>1. fsm = "Initialised"
    BY DEF SInv, StartAwaited
  <2>2. PICK j \in Reader : ReaderStep(j)
    BY <2>t DEF Next, Client, Server, Configure, ReceiveConfig, Start, Stop, Joined,
          interrupt_handler, Destroy, Exit, Push, ServerDies, readers
  <2>3. j = i
    BY <2>2, OwnPlace DEF SInv
  <2>4. Begin(i)
    BY <2>2, <2>3 DEF ReaderStep, Connect, Loop, Poll, Empty, Inner, Recv, Save, Leave
  <2>5. reader'[i] = "head"
    BY <2>4, <2>1, <2>t, Events DEF Begin, Goto
  <2> QED
    BY <2>5
<1> QED
  BY <1>1, SInvAlways, PTL DEF Spec, StartNeverRefused

-----------------------------------------------------------------------------
(***************************************************************************)
(* The order of the scans: stored ones come before the one that is read,   *)
(* and that one before those that wait in the queue.                       *)
(***************************************************************************)

Sent(r) == r < scan.run \/ (r = scan.run /\ scan.part > 1)

\* Scan r was begun, before every scan whose START waits in the queue.
Before(r) ==
    /\ r \in Nat
    /\ Sent(r)
    /\ \A k \in DOMAIN queue : queue[k].part = "START" => r < queue[k].run

QueueOrdered ==
    \A k \in DOMAIN queue : queue[k].part = "START" =>
        /\ Sent(queue[k].run)
        /\ \A n \in DOMAIN queue :
              n < k /\ queue[n].part = "START" => queue[n].run < queue[k].run

ReadOrdered == \A i \in Reader : Reading(i) => file[i].run \in Run /\ Before(file[i].run)

StoredRuns == {f.run : f \in {g \in Range(saved) : g.data # << >>}}

StoredOrdered ==
    \A s \in StoredRuns :
        /\ Before(s)
        /\ \A i \in Reader : Reading(i) => s < file[i].run

OrderInv == Careful => QueueOrdered /\ ReadOrdered /\ StoredOrdered

LEMMA QueueRuns ==
    ASSUME TypeOK
    PROVE  /\ Run \subseteq Nat
           /\ \A k \in DOMAIN queue : queue[k] \in Message /\ queue[k].run \in Nat
<1>1. Run \subseteq Nat
  BY CountAssumption DEF Run
<1>2. \A k \in DOMAIN queue : queue[k] \in Message
  BY DEF TypeOK
<1> QED
  BY <1>1, <1>2 DEF Message

\* What an emptied queue, or one that lost its first message, still is.
LEMMA ShorterQueue ==
    ASSUME TypeOK, QueueOrdered, UNCHANGED scan,
           queue' = << >> \/ (queue # << >> /\ queue' = Tail(queue))
    PROVE  QueueOrdered' /\ \A r : Before(r) => Before(r)'
<1>1. CASE queue' = << >>
  BY <1>1 DEF QueueOrdered, Before, Sent
<1>2. CASE queue # << >> /\ queue' = Tail(queue)
  <2>1. /\ queue \in Seq(Message)
        /\ \A k \in DOMAIN queue' : k + 1 \in DOMAIN queue /\ queue'[k] = queue[k + 1]
        /\ \A k \in DOMAIN queue' : k \in Nat
    BY <1>2 DEF TypeOK
  <2> QED
    BY <2>1 DEF QueueOrdered, Before, Sent
<1> QED
  BY <1>1, <1>2

LEMMA OrderInit == Init => OrderInv
BY DEF Init, OrderInv, QueueOrdered, ReadOrdered, Reading, StoredOrdered, StoredRuns, Range

\* A step that changes no file, no place of a reader within a scan, and the
\* queue at most by shortening it.
LEMMA OrderKept ==
    ASSUME TypeOK, OrderInv, Careful, UNCHANGED << scan, file, saved >>,
           \A i \in Reader : Reading(i)' => Reading(i),
           queue' = queue \/ queue' = << >> \/ (queue # << >> /\ queue' = Tail(queue))
    PROVE  OrderInv'
<1>1. QueueOrdered' /\ \A r : Before(r) => Before(r)'
  <2>1. CASE queue' = queue
    BY <2>1 DEF OrderInv, QueueOrdered, Before, Sent
  <2> QED
    BY <2>1, ShorterQueue DEF OrderInv
<1>2. StoredRuns' = StoredRuns
  BY DEF StoredRuns
<1> QED
  BY <1>1, <1>2 DEF OrderInv, ReadOrdered, StoredOrdered

LEMMA OrderStep == SInv /\ OrderInv /\ [Next]_vars => OrderInv'
<1> SUFFICES ASSUME SInv, OrderInv, [Next]_vars, Careful PROVE OrderInv'
  BY DEF OrderInv
<1>t. TypeOK
  BY DEF SInv
<1>r. reader \in [Reader -> Place] /\ file \in [Reader -> File]
  BY <1>t DEF TypeOK
<1>0. CASE UNCHANGED << wire, readers >>
  BY <1>0, <1>t, OrderKept DEF wire, readers, Reading
<1>1. CASE Push
  <2>0. PICK now \in Nat : now = scan.run
    BY <1>t DEF TypeOK
  <2>1. scan.part \in 1..3 /\ \A r \in Nat : r = now \/ Sent(r) => Sent(r)'
    <3>1. scan.part \in 1..3
      BY <1>t DEF TypeOK
    <3>2. CASE scan.part = 3
      BY <1>1, <3>2, <2>0 DEF Push, Following, Sent
    <3>3. CASE scan.part # 3
      BY <1>1, <3>1, <3>3, <2>0 DEF Push, Following, Sent
    <3> QED BY <3>1, <3>2, <3>3
  <2>2. queue \in Seq(Message)
    BY <1>t DEF TypeOK
  <2>3. /\ DOMAIN queue' = 1..(Len(queue) + 1) /\ DOMAIN queue = 1..Len(queue) /\ Len(queue) \in Nat
        /\ \A k \in DOMAIN queue : queue'[k] = queue[k]
        /\ queue'[Len(queue) + 1] = [part |-> Part[scan.part], run |-> now]
    BY <1>1, <2>0, <2>2 DEF Push
  <2>4. Part[scan.part] = "START" => scan.part = 1
    BY <2>1 DEF Part
  <2>5. \A k \in DOMAIN queue : queue[k].run \in Nat
    BY <1>t, QueueRuns
  <2>6. \A r : Before(r) => Before(r)'
    <3> SUFFICES ASSUME NEW r, Before(r) PROVE Before(r)'
      OBVIOUS
    <3>1. Sent(r)'
      BY <2>1 DEF Before
    <3>2. scan.part = 1 => r < now
      BY <2>0 DEF Before, Sent
    <3> QED
      BY <2>3, <2>4, <3>1, <3>2 DEF Before
  <2>7. QueueOrdered'
    <3> SUFFICES ASSUME NEW k \in DOMAIN queue', queue'[k].part = "START"
                 PROVE  /\ Sent(queue[k].run)'
                        /\ \A n \in DOMAIN queue' : n < k /\ queue'[n].part = "START"
                              => queue'[n].run < queue'[k].run
      BY DEF QueueOrdered
    <3>1. CASE k \in DOMAIN queue
      <4>1. PICK r \in Nat : r = queue[k].run /\ r = queue'[k].run
        BY <3>1, <2>3, <2>5
      <4>2. Sent(r)'
        BY <3>1, <4>1, <2>1, <2>3 DEF OrderInv, QueueOrdered
      <4>3. \A n \in DOMAIN queue' : n < k => n \in DOMAIN queue
        BY <3>1, <2>3
      <4> QED
        BY <3>1, <4>1, <4>2, <4>3, <2>3 DEF OrderInv, QueueOrdered, Sent
    <3>2. CASE k = Len(queue) + 1
      <4>1. scan.part = 1 /\ queue'[k].run = now
        BY <3>2, <2>3, <2>4
      <4>2. \A n \in DOMAIN queue : queue[n].part = "START" => queue[n].run < now
        BY <4>1, <2>0, <2>5 DEF OrderInv, QueueOrdered, Sent
      <4>3. Sent(now)'
        BY <2>1
      <4> QED
        BY <3>2, <4>1, <4>2, <4>3, <2>3 DEF Sent
    <3> QED
      BY <3>1, <3>2, <2>3
  <2>8. UNCHANGED << reader, file, saved >>
    BY <1>1 DEF Push, readers
  <2>9. StoredRuns' = StoredRuns
    BY <2>8 DEF StoredRuns
  <2> QED
    BY <2>6, <2>7, <2>8, <2>9 DEF OrderInv, ReadOrdered, StoredOrdered, Reading
<1>2. CASE ServerDies
  <2>1. /\ scan.run \in Nat /\ scan'.run = scan.run + 1
        /\ UNCHANGED << reader, file, saved, queue >>
    BY <1>2, <1>t DEF ServerDies, TypeOK, readers
  <2>2. \A r \in Nat : Sent(r) => Sent(r)'
    BY <2>1 DEF Sent
  <2>3. \A k \in DOMAIN queue : queue[k].run \in Nat
    BY <1>t, QueueRuns
  <2>4. \A r : Before(r) => Before(r)'
    BY <2>1, <2>2 DEF Before
  <2>5. QueueOrdered'
    BY <2>1, <2>2, <2>3 DEF OrderInv, QueueOrdered
  <2>6. StoredRuns' = StoredRuns
    BY <2>1 DEF StoredRuns
  <2> QED
    BY <2>1, <2>4, <2>5, <2>6 DEF OrderInv, ReadOrdered, StoredOrdered, Reading
<1>3. CASE Start
  <2>1. \A i \in Reader : Reading(i)' => Reading(i)
    BY <1>3, <1>r DEF Start, Reading
  <2> QED
    BY <1>3, <1>t, <2>1, OrderKept DEF Start, wire
<1>d. ASSUME Dies, UNCHANGED readers PROVE OrderInv'
  <2>1. queue' = << >> /\ UNCHANGED scan
    BY <1>d DEF Dies
  <2> QED
    BY <1>d, <1>t, <2>1, OrderKept DEF readers, Reading
<1>4. CASE Exit
  BY <1>4, <1>d DEF Exit
<1>5. ASSUME NEW i \in Reader, ReaderStep(i) PROVE OrderInv'
  <2>o. \A j \in Reader \ {i} : ~Reading(j) /\ ~Reading(j)'
    BY <1>5, <1>t, OwnPlace DEF SInv, OneReader, Active, Reading
  <2>u. CASE Uncaught
    BY <2>u, <1>d DEF Uncaught
  <2>1. CASE ~Uncaught /\ (Connect(i) \/ Begin(i) \/ Loop(i) \/ Empty(i) \/ Inner(i) \/ Leave(i))
    <3>1. Reading(i)' => Reading(i)
      BY <2>1, <1>r DEF Connect, Begin, Loop, Empty, Inner, Leave, Goto, Reading
    <3>2. UNCHANGED << scan, file, saved >> /\ (queue' = queue \/ queue' = << >>)
      BY <2>1 DEF Connect, Begin, Loop, Empty, Inner, Leave, wire
    <3> QED
      BY <3>1, <3>2, <2>o, <1>t, OrderKept
  <2>2. CASE ~Uncaught /\ Poll(i)
    <3>1. CASE queue = << >>
      <4>1. Reading(i)' => Reading(i)
        BY <2>2, <3>1, <1>r DEF Poll, Goto, Reading
      <4> QED
        BY <2>2, <3>1, <4>1, <2>o, <1>t, OrderKept DEF Poll
    <3>2. CASE queue # << >> /\ queue[1].part # "START"
      <4>1. Reading(i)' => Reading(i)
        BY <2>2, <3>2, <1>r DEF Poll, Goto, Reading
      <4> QED
        BY <2>2, <3>2, <4>1, <2>o, <1>t, OrderKept DEF Poll
    <3>3. CASE queue # << >> /\ queue[1].part = "START"
      <4>0. PICK now \in Run : now = queue[1].run
        <5>1. queue[1] \in Message
          BY <3>3, <1>t, TailType DEF TypeOK
        <5> QED
          BY <5>1 DEF Message
      <4>1. /\ queue' = Tail(queue) /\ UNCHANGED << scan, saved >>
            /\ file' = [file EXCEPT ![i] = NewFile(i, now)]
        BY <2>2, <3>3, <4>0 DEF Poll
      <4>2. file'[i].run = now
        BY <4>1, <1>r DEF NewFile
      <4>3. QueueOrdered' /\ \A r : Before(r) => Before(r)'
        BY <3>3, <4>1, <1>t, ShorterQueue DEF OrderInv
      <4>4. /\ queue[1] \in Message /\ 1 \in DOMAIN queue
            /\ \A k \in DOMAIN queue' : k + 1 \in DOMAIN queue /\ queue'[k] = queue[k + 1]
            /\ \A k \in DOMAIN queue' : k \in Nat /\ k >= 1
        BY <3>3, <4>1, <1>t DEF TypeOK
      <4>5. Before(now)'
        <5>1. now \in Nat /\ Sent(now)'
          BY <3>3, <4>0, <4>1, <4>4, <1>t, QueueRuns DEF OrderInv, QueueOrdered, Sent
        <5>2. \A k \in DOMAIN queue' : queue'[k].part = "START" => now < queue'[k].run
          BY <3>3, <4>0, <4>4 DEF OrderInv, QueueOrdered
        <5> QED
          BY <5>1, <5>2 DEF Before
      <4>6. ReadOrdered'
        <5>1. \A j \in Reader : Reading(j)' => j = i
          BY <2>o
        <5>2. file'[i].run \in Run /\ Before(file[i].run)'
          BY <4>0, <4>2, <4>5 DEF Before, Sent
        <5> QED
          BY <5>1, <5>2 DEF ReadOrdered
      <4>7. StoredRuns' = StoredRuns
        BY <4>1 DEF StoredRuns
      <4>8. StoredOrdered'
        <5>1. \A s \in StoredRuns : s < now
          BY <3>3, <4>0, <4>4 DEF OrderInv, StoredOrdered, Before
        <5> QED
          BY <2>o, <4>2, <4>3, <4>7, <5>1 DEF OrderInv, StoredOrdered
      <4> QED
        BY <4>3, <4>6, <4>8 DEF OrderInv
    <3> QED BY <3>1, <3>2, <3>3
  <2>3. CASE ~Uncaught /\ Recv(i)
    <3>1. /\ queue # << >> /\ queue' = Tail(queue) /\ UNCHANGED << scan, saved >>
          /\ \/ file' = file
             \/ file' = [file EXCEPT ![i].data = Append(@, queue[1].run)]
          /\ Reading(i)
      BY <2>3 DEF Recv, Reading
    <3>2. file'[i].run = file[i].run
      BY <3>1, <1>r DEF File
    <3>3. QueueOrdered' /\ \A r : Before(r) => Before(r)'
      BY <3>1, <1>t, ShorterQueue DEF OrderInv
    <3>4. StoredRuns' = StoredRuns
      BY <3>1 DEF StoredRuns
    <3> QED
      BY <2>o, <3>1, <3>2, <3>3, <3>4 DEF OrderInv, ReadOrdered, StoredOrdered
  <2>4. CASE ~Uncaught /\ Save(i)
    <3>1. /\ UNCHANGED << queue, scan, file >> /\ saved' = Append(saved, file[i])
          /\ Reading(i) /\ ~Reading(i)'
      BY <2>4, <1>r DEF Save, wire, Reading, Goto
    <3>2. StoredRuns' \subseteq StoredRuns \cup {file[i].run}
      <4>1. Range(saved') \subseteq Range(saved) \cup {file[i]}
        BY <3>1, <1>t DEF TypeOK, Range
      <4> QED
        BY <4>1 DEF StoredRuns
    <3>3. \A r : Before(r) => Before(r)'
      BY <3>1 DEF Before, Sent
    <3>4. Before(file[i].run)
      BY <3>1 DEF OrderInv, ReadOrdered
    <3>5. QueueOrdered'
      BY <3>1 DEF OrderInv, QueueOrdered, Sent
    <3>6. StoredOrdered'
      BY <2>o, <3>1, <3>2, <3>3, <3>4 DEF OrderInv, StoredOrdered
    <3> QED
      BY <2>o, <3>1, <3>5, <3>6 DEF OrderInv, ReadOrdered
  <2> QED
    BY <1>5, <2>u, <2>1, <2>2, <2>3, <2>4 DEF ReaderStep
<1> QED
  BY <1>0, <1>1, <1>2, <1>3, <1>4, <1>5
     DEF Next, Client, Server, Configure, ReceiveConfig, Stop, Joined, interrupt_handler,
         Destroy, vars

LEMMA OrderAlways == Spec => [](SInv /\ OrderInv)
BY SInvInit, SInvStep, OrderInit, OrderStep, PTL DEF Spec

\* Only a save changes what is stored, and only answers open and close.
LEMMA SessionStep ==
    Careful /\ SInv /\ OrderInv /\ [Next]_vars => [Session!Next]_(Session!vars)
<1> SUFFICES ASSUME Careful, SInv, OrderInv, [Next]_vars
             PROVE  [Session!Next]_(Session!vars)
  OBVIOUS
<1>s. Session!vars = << client = "started", StoredRuns >>
  BY DEF Session!vars, StoredRuns
<1>k. ASSUME UNCHANGED saved, client' = client \/ (client # "started" /\ client' # "started")
      PROVE  UNCHANGED Session!vars
  BY <1>k, <1>s DEF StoredRuns, Session!vars
<1>1. CASE Start
  <2>1. client # "started" /\ client' = "started" /\ UNCHANGED saved
    BY <1>1 DEF Start, Asks
  <2> QED
    BY <2>1 DEF Session!Next, Session!Open
<1>2. CASE Joined
  <2>1. client' = "stopped" /\ UNCHANGED saved
    BY <1>2 DEF Joined, readers
  <2>2. CASE client = "started"
    BY <2>1, <2>2 DEF Session!Next, Session!Close
  <2> QED
    BY <2>1, <2>2, <1>k
<1>3. CASE ReceiveConfig
  BY <1>3, <1>k DEF ReceiveConfig, readers, SInv, ConfigApart
<1>4. ASSUME NEW i \in Reader, Save(i) PROVE [Session!Next]_(Session!vars)
  <2>1. Reading(i) /\ saved' = Append(saved, file[i]) /\ UNCHANGED client
    BY <1>4 DEF Save, Reading, command
  <2>2. client = "started" /\ file[i] \in File /\ saved \in Seq(File)
    BY <2>1 DEF SInv, TypeOK, OneReader, Active, Reading
  <2>3. Range(saved') = Range(saved) \cup {file[i]}
    BY <2>1, <2>2 DEF Range
  <2>4. CASE file[i].data = << >>
    <3>1. StoredRuns' = StoredRuns
      BY <2>3, <2>4 DEF StoredRuns
    <3> QED
      BY <3>1, <2>1 DEF StoredRuns, Session!vars
  <2>5. CASE file[i].data # << >>
    <3>1. StoredRuns' = StoredRuns \cup {file[i].run}
      BY <2>3, <2>5 DEF StoredRuns
    <3>2. file[i].run \in Run /\ \A s \in StoredRuns : s < file[i].run
      BY <2>1 DEF OrderInv, ReadOrdered, StoredOrdered
    <3>3. PICK r \in Run : r = file[i].run
      BY <3>2
    <3>4. Session!Store(r)
      BY <3>1, <3>2, <3>3, <2>1, <2>2 DEF Session!Store, StoredRuns
    <3> QED
      BY <3>4 DEF Session!Next
  <2> QED
    BY <2>4, <2>5
<1>5. ASSUME NEW i \in Reader, ReaderStep(i), ~Save(i) PROVE UNCHANGED << saved, client >>
  BY <1>5 DEF ReaderStep, Connect, Begin, Loop, Poll, Empty, Inner, Recv, Leave,
     Uncaught, command, readers
<1>6. CASE Configure \/ Stop \/ interrupt_handler \/ Destroy \/ Exit \/ Push \/ ServerDies
           \/ UNCHANGED vars
  <2>1. UNCHANGED << saved, client >>
    BY <1>6 DEF Configure, Stop, interrupt_handler, Destroy, Exit, Push, ServerDies, vars,
       command, readers
  <2> QED
    BY <2>1, <1>k
<1>7. ASSUME NEW i \in Reader, ReaderStep(i) PROVE [Session!Next]_(Session!vars)
  BY <1>7, <1>4, <1>5, <1>k
<1>8. \/ Configure \/ Stop \/ interrupt_handler \/ Destroy \/ Exit \/ Push \/ ServerDies
      \/ UNCHANGED vars \/ Start \/ Joined \/ ReceiveConfig
      \/ \E i \in Reader : ReaderStep(i)
  BY DEF Next, Client, Server
<1> QED
  BY <1>1, <1>2, <1>3, <1>6, <1>7, <1>8

\* The data puller of a careful client implements DataTaking: nothing is
\* stored outside a session, and scans are stored once and in their order,
\* through deaths of the server, stops and ctrl-C.
THEOREM PullerImplementsDataTaking == Careful => (Spec => SessionSpec)
<1> SUFFICES ASSUME Careful PROVE Spec => SessionSpec
  OBVIOUS
<1>1. Init => Session!Init
  BY DEF Init, Session!Init, Range
<1>2. SInv /\ OrderInv /\ [Next]_vars => [Session!Next]_(Session!vars)
  BY SessionStep
<1> QED
  BY <1>1, <1>2, OrderAlways, PTL DEF Spec, SessionSpec, Session!Spec

-----------------------------------------------------------------------------
(***************************************************************************)
(* What was begun: no scan is forgotten, and no file of a session is       *)
(* destroyed within it.                                                    *)
(***************************************************************************)

Stored  == {f.run : f \in Range(saved)}
Waiting == {queue[k].run : k \in {n \in DOMAIN queue : queue[n].part = "START"}}
OpenRuns == {file[i].run : i \in {j \in Reader : Reading(j)}}

Accounted == alive => Begun \subseteq Stored \cup Waiting \cup OpenRuns \cup lost

LEMMA HeldIs == Held = Waiting \cup OpenRuns
BY DEF Held, Waiting, OpenRuns

\* What waits in a queue that loses its first message, or all.
LEMMA WaitingShrinks ==
    ASSUME TypeOK
    PROVE  /\ Waiting = {m.run : m \in {n \in Range(queue) : n.part = "START"}}
           /\ queue # << >> /\ queue' = Tail(queue) =>
                 Waiting \subseteq Waiting' \cup {queue[1].run}
           /\ queue # << >> /\ queue' = Tail(queue) /\ queue[1].part # "START" =>
                 Waiting \subseteq Waiting'
<1>1. queue \in Seq(Message)
  BY DEF TypeOK
<1>2. Waiting = {m.run : m \in {n \in Range(queue) : n.part = "START"}}
  BY <1>1 DEF Waiting, Range
<1>3. ASSUME queue # << >>, queue' = Tail(queue), NEW k \in DOMAIN queue,
             queue[k].part = "START", k # 1
      PROVE  queue[k].run \in Waiting'
  <2>1. k - 1 \in DOMAIN queue' /\ queue'[k - 1] = queue[k]
    BY <1>1, <1>3
  <2> QED
    BY <2>1, <1>3 DEF Waiting
<1> QED
  BY <1>2, <1>3 DEF Waiting

LEMMA AccountedStep == TypeOK /\ Accounted /\ [Next]_vars => Accounted'
<1> SUFFICES ASSUME TypeOK, Accounted, [Next]_vars, alive'
             PROVE  Begun' \subseteq Stored' \cup Waiting' \cup OpenRuns' \cup lost'
  BY DEF Accounted
<1>r. reader \in [Reader -> Place] /\ file \in [Reader -> File] /\ queue \in Seq(Message)
      /\ saved \in Seq(File) /\ scan.run \in Nat /\ scan.part \in 1..3
  BY DEF TypeOK
<1>a. alive
  <2>1. alive' = alive \/ alive' = FALSE
    BY DEF Next, Client, Server, ReaderStep, Configure, ReceiveConfig, Start, Stop, Joined,
       interrupt_handler, Destroy, Exit, Dies, Push, ServerDies, Connect, Uncaught, Begin,
       Loop, Poll, Empty, Inner, Recv, Save, Leave, vars
  <2> QED BY <2>1
<1>b. Begun \subseteq Stored \cup Waiting \cup OpenRuns \cup lost
  BY <1>a DEF Accounted
<1>k. ASSUME UNCHANGED << scan, queue, lost, saved, file >>,
             \A i \in Reader : Reading(i) => Reading(i)'
      PROVE  Begun' \subseteq Stored' \cup Waiting' \cup OpenRuns' \cup lost'
  <2>1. Begun' = Begun /\ Stored' = Stored /\ Waiting' = Waiting /\ OpenRuns \subseteq OpenRuns'
    BY <1>k DEF Begun, Stored, Waiting, OpenRuns
  <2> QED BY <2>1, <1>b, <1>k
<1>0. CASE UNCHANGED << wire, readers >>
  BY <1>0, <1>k DEF wire, readers, Reading
<1>1. CASE Push
  <2>1. /\ \A k \in DOMAIN queue : k \in DOMAIN queue' /\ queue'[k] = queue[k]
        /\ Len(queue) + 1 \in DOMAIN queue'
        /\ queue'[Len(queue) + 1] = [part |-> Part[scan.part], run |-> scan.run]
        /\ UNCHANGED << reader, file, saved, lost >>
    BY <1>1, <1>r DEF Push, readers
  <2>2. Waiting \subseteq Waiting' /\ Stored' = Stored /\ OpenRuns' = OpenRuns
    BY <2>1 DEF Waiting, Stored, OpenRuns, Reading
  <2>3. Begun' \subseteq Begun \cup (IF scan.part = 1 THEN {scan.run} ELSE {})
    BY <1>1, <1>r, CountAssumption DEF Push, Following, Begun, Run
  <2>4. scan.part = 1 => scan.run \in Waiting'
    BY <2>1 DEF Part, Waiting
  <2> QED
    BY <2>1, <2>2, <2>3, <2>4, <1>b
<1>2. CASE ServerDies
  <2>1. /\ UNCHANGED << reader, file, saved, queue, lost >>
        /\ scan' = [run |-> scan.run + 1, part |-> 1] /\ scan.part > 1
    BY <1>2 DEF ServerDies, readers
  <2>2. Begun' = Begun
    BY <2>1, <1>r, CountAssumption DEF Begun, Run
  <2>3. Stored' = Stored /\ Waiting' = Waiting /\ OpenRuns' = OpenRuns
    BY <2>1 DEF Stored, Waiting, OpenRuns, Reading
  <2> QED BY <2>1, <2>2, <2>3, <1>b
<1>3. CASE Start
  <2>1. \A i \in Reader : Reading(i) => Reading(i)'
    BY <1>3, <1>r DEF Start, Reading
  <2> QED
    BY <1>3, <2>1, <1>k DEF Start, wire
<1>4. CASE Exit \/ Uncaught
  BY <1>4 DEF Exit, Uncaught, Dies
<1>5. ASSUME NEW i \in Reader, ReaderStep(i), ~Uncaught
      PROVE  Begun' \subseteq Stored' \cup Waiting' \cup OpenRuns' \cup lost'
  <2>o. \A j \in Reader \ {i} : Reading(j)' = Reading(j) /\ file'[j] = file[j]
    BY <1>5, <1>r DEF ReaderStep, Connect, Begin, Loop, Poll, Empty, Inner, Recv, Save,
       Leave, Goto, Reading
  <2>s. scan' = scan /\ Begun' = Begun
    BY <1>5 DEF ReaderStep, Connect, Begin, Loop, Poll, Empty, Inner, Recv, Save,
       Leave, wire, Begun
  <2>1. CASE Connect(i) \/ Begin(i) \/ Loop(i) \/ Empty(i) \/ Inner(i)
    <3>1. Reading(i) => Reading(i)'
      BY <2>1, <1>5, <1>r DEF Connect, Begin, Loop, Empty, Inner, Goto, Reading
    <3>2. UNCHANGED << scan, queue, lost, saved, file >>
      BY <2>1, <1>5 DEF Connect, Begin, Loop, Empty, Inner, wire
    <3> QED
      BY <3>1, <3>2, <2>o, <1>k
  <2>2. CASE Poll(i)
    <3>0. ~Reading(i) /\ UNCHANGED << saved, lost >> /\ Stored' = Stored
      BY <2>2, <1>5 DEF Poll, Reading, Stored
    <3>1. OpenRuns \subseteq OpenRuns'
      BY <2>o, <3>0 DEF OpenRuns
    <3>2. CASE queue = << >>
      BY <2>2, <3>2, <3>0, <3>1, <2>s, <1>b DEF Poll, Waiting
    <3>3. CASE queue # << >> /\ queue[1].part # "START"
      <4>1. Waiting \subseteq Waiting'
        BY <2>2, <3>3, WaitingShrinks DEF Poll
      <4> QED BY <4>1, <3>0, <3>1, <2>s, <1>b
    <3>4. CASE queue # << >> /\ queue[1].part = "START"
      <4>1. queue' = Tail(queue) /\ reader' = [reader EXCEPT ![i] = "inner"]
            /\ file' = [file EXCEPT ![i] = NewFile(i, queue[1].run)]
        BY <2>2, <3>4, <1>5 DEF Poll, Goto
      <4>2. queue[1].run \in OpenRuns'
        <5>1. reader'[i] = "inner" /\ file'[i].run = queue[1].run
          BY <4>1, <1>r DEF NewFile
        <5> QED BY <5>1 DEF OpenRuns, Reading
      <4>3. Waiting \subseteq Waiting' \cup {queue[1].run}
        BY <3>4, <4>1, WaitingShrinks
      <4> QED BY <4>2, <4>3, <3>0, <3>1, <2>s, <1>b
    <3> QED BY <3>2, <3>3, <3>4
  <2>3. CASE Recv(i)
    <3>1. /\ queue # << >> /\ queue' = Tail(queue) /\ UNCHANGED << lost, saved >>
          /\ \/ file' = file
             \/ file' = [file EXCEPT ![i].data = Append(@, queue[1].run)]
          /\ Reading(i)' /\ queue[1].part # "START"
      BY <2>3, <1>5, <1>r DEF Recv, Reading, Goto
    <3>2. file'[i].run = file[i].run
      BY <3>1, <1>r DEF File
    <3>3. OpenRuns \subseteq OpenRuns'
      BY <2>o, <3>1, <3>2 DEF OpenRuns
    <3>4. Waiting \subseteq Waiting' /\ Stored' = Stored
      BY <3>1, WaitingShrinks DEF Stored
    <3> QED BY <3>1, <3>3, <3>4, <2>s, <1>b
  <2>4. CASE Save(i)
    <3>1. UNCHANGED << queue, lost, file >> /\ saved' = Append(saved, file[i])
      BY <2>4 DEF Save, wire
    <3>2. Stored \cup {file[i].run} \subseteq Stored'
      <4>1. /\ \A k \in DOMAIN saved : k \in DOMAIN saved' /\ saved'[k] = saved[k]
            /\ Len(saved) + 1 \in DOMAIN saved' /\ saved'[Len(saved) + 1] = file[i]
        BY <3>1, <1>r
      <4> QED BY <4>1 DEF Stored, Range
    <3>3. OpenRuns \subseteq OpenRuns' \cup {file[i].run}
      BY <2>o, <3>1 DEF OpenRuns
    <3>4. Waiting' = Waiting
      BY <3>1 DEF Waiting
    <3> QED BY <3>1, <3>2, <3>3, <3>4, <2>s, <1>b
  <2>5. CASE Leave(i)
    <3>1. UNCHANGED << saved, file >> /\ ~Reading(i)
          /\ lost' = lost \cup {m.run : m \in {n \in Range(queue) : n.part = "START"}}
      BY <2>5 DEF Leave, Reading
    <3>2. OpenRuns \subseteq OpenRuns' /\ Stored' = Stored
      BY <2>o, <3>1 DEF OpenRuns, Stored
    <3> QED BY <3>1, <3>2, <2>s, <1>b, WaitingShrinks
  <2> QED
    BY <1>5, <2>1, <2>2, <2>3, <2>4, <2>5 DEF ReaderStep
<1> QED
  BY <1>0, <1>1, <1>2, <1>3, <1>4, <1>5
     DEF Next, Client, Server, Configure, ReceiveConfig, Stop, Joined, interrupt_handler,
         Destroy, vars

\* A reader thread is the newest while it is active, and each of its files has
\* a number of its own; so a name is only taken again by a later thread.
KeptInv ==
    Careful =>
        /\ \A i, j \in Reader : i < j =>
              /\ reader[i] = "unborn" => reader[j] = "unborn"
              /\ Active(i) => reader[j] = "unborn"
        /\ \A i \in Reader : Reading(i) =>
              file[i].by = i /\ file[i].name \in Dir \X Nat /\ file[i].name[2] = fileID[i]
        /\ \A f \in Range(saved) :
              /\ f.by \in Reader /\ reader[f.by] # "unborn"
              /\ f.name \in Dir \X Nat /\ f.name[2] < fileID[f.by]
              /\ f \in disk \/ Replaced(f)

\* A step that opens no file and closes none.
LEMMA KeptSame ==
    ASSUME KeptInv, Careful, UNCHANGED << saved, store >>,
           \A i \in Reader : Reading(i)' <=> Reading(i),
           \A i \in Reader : file'[i].by = file[i].by /\ file'[i].name = file[i].name,
           \A i, j \in Reader : i < j =>
              /\ reader'[i] = "unborn" => reader'[j] = "unborn"
              /\ Active(i)' => reader'[j] = "unborn",
           \A i \in Reader : reader'[i] = "unborn" => reader[i] = "unborn"
    PROVE  KeptInv'
<1>1. ASSUME NEW f, Replaced(f) PROVE Replaced(f)'
  <2>1. PICK g \in Range(saved) \cup Opened : g.name = f.name /\ g.by > f.by
    BY <1>1 DEF Replaced
  <2>2. CASE g \in Range(saved)
    BY <2>1, <2>2 DEF Replaced
  <2>3. CASE g \in Opened
    <3>1. PICK i \in Reader : Reading(i) /\ g = file[i]
      BY <2>3 DEF Opened
    <3>2. file'[i] \in Opened' /\ file'[i].name = f.name /\ file'[i].by > f.by
      BY <3>1, <2>1 DEF Opened
    <3> QED BY <3>2 DEF Replaced
  <2> QED BY <2>1, <2>2, <2>3
<1> QED BY <1>1 DEF KeptInv, store

LEMMA KeptStep == SInv /\ KeptInv /\ [Next]_vars => KeptInv'
<1> SUFFICES ASSUME SInv, KeptInv, [Next]_vars, Careful PROVE KeptInv'
  BY DEF KeptInv
<1>t. TypeOK
  BY DEF SInv
<1>r. reader \in [Reader -> Place] /\ file \in [Reader -> File] /\ saved \in Seq(File)
      /\ fileID \in [Reader -> Nat] /\ Reader \subseteq Nat
  BY <1>t, CountAssumption DEF TypeOK, Reader
<1>k. ASSUME UNCHANGED readers PROVE KeptInv'
  BY <1>k, KeptSame DEF readers, Reading, Active, KeptInv
<1>1. CASE Start
  <2>1. PICK i \in Reader : /\ reader[i] = "unborn" /\ \A j \in Reader : j < i => reader[j] # "unborn"
                            /\ reader' = [reader EXCEPT ![i] = "connect"]
    BY <1>1 DEF Start
  <2>2. \A j \in Reader : ~Active(j)
    BY <1>1 DEF Start, Asks, SInv, OneReader
  <2>3. /\ \A j \in Reader : Reading(j)' <=> Reading(j)
        /\ \A j \in Reader : reader'[j] = "unborn" => reader[j] = "unborn"
    BY <2>1, <1>r DEF Reading
  <2>4. ASSUME NEW j \in Reader, NEW k \in Reader, j < k
        PROVE  /\ reader'[j] = "unborn" => reader'[k] = "unborn"
               /\ Active(j)' => reader'[k] = "unborn"
    <3>1. reader[j] = "unborn" => reader[k] = "unborn"
      BY <2>4 DEF KeptInv
    <3>2. reader'[j] = "unborn" => k # i
      BY <3>1, <2>1, <2>4, <1>r
    <3>3. Active(j)' => j = i
      BY <2>1, <2>2, <1>r DEF Active
    <3>4. k # j
      BY <2>4, <1>r
    <3> QED BY <3>1, <3>2, <3>3, <3>4, <2>1, <1>r
  <2> QED
    BY <1>1, <2>3, <2>4, KeptSame DEF Start
<1>2. ASSUME NEW i \in Reader, ReaderStep(i), ~Uncaught PROVE KeptInv'
  <2>a. Active(i) /\ \A j \in Reader \ {i} : reader'[j] = reader[j] /\ file'[j] = file[j]
    BY <1>2, <1>r DEF Active, ReaderStep, Connect, Begin, Loop, Poll, Empty, Inner, Recv, Save,
       Leave, Goto
  <2>b. reader'[i] # "unborn" /\ reader[i] # "unborn"
    BY <1>2, <1>r DEF ReaderStep, Connect, Begin, Loop, Poll, Empty, Inner, Recv, Save,
       Leave, Goto
  <2>c. \A j, k \in Reader : j < k =>
           /\ reader'[j] = "unborn" => reader'[k] = "unborn"
           /\ Active(j)' => reader'[k] = "unborn"
    <3> SUFFICES ASSUME NEW j \in Reader, NEW k \in Reader, j < k
                 PROVE  /\ reader'[j] = "unborn" => reader'[k] = "unborn"
                        /\ Active(j)' => reader'[k] = "unborn"
      OBVIOUS
    <3>1. /\ reader[j] = "unborn" => reader[k] = "unborn"
          /\ Active(j) => reader[k] = "unborn"
      BY DEF KeptInv
    <3>2. Active(j)' => Active(j)
      BY <2>a DEF Active
    <3>3. reader[k] = "unborn" => reader'[k] = "unborn"
      BY <2>a, <2>b
    <3>4. reader'[j] = "unborn" => reader[j] = "unborn"
      BY <2>a, <2>b
    <3> QED BY <3>1, <3>2, <3>3, <3>4
  <2>d. \A j \in Reader : reader'[j] = "unborn" => reader[j] = "unborn"
    BY <2>a, <2>b
  <2>k. ASSUME UNCHANGED << saved, store >>, Reading(i)' <=> Reading(i),
               file'[i].by = file[i].by, file'[i].name = file[i].name
        PROVE  KeptInv'
    <3>1. \A j \in Reader : Reading(j)' <=> Reading(j)
      BY <2>a, <2>k DEF Reading
    <3>2. \A j \in Reader : file'[j].by = file[j].by /\ file'[j].name = file[j].name
      BY <2>a, <2>k
    <3> QED BY <3>1, <3>2, <2>c, <2>d, <2>k, KeptSame
  <2>1. CASE Connect(i) \/ Begin(i) \/ Loop(i) \/ Empty(i) \/ Inner(i) \/ Leave(i)
    <3>1. Reading(i)' <=> Reading(i)
      BY <2>1, <1>2, <1>r DEF Connect, Begin, Loop, Empty, Inner, Leave, Goto, Reading
    <3>2. UNCHANGED << saved, store, file >>
      BY <2>1, <1>2 DEF Connect, Begin, Loop, Empty, Inner, Leave
    <3> QED BY <3>1, <3>2, <2>k
  <2>2. CASE Recv(i)
    <3>1. UNCHANGED << saved, store >> /\ (Reading(i)' <=> Reading(i))
          /\ \/ file' = file
             \/ file' = [file EXCEPT ![i].data = Append(@, queue[1].run)]
      BY <2>2, <1>2, <1>r DEF Recv, Goto, Reading
    <3>2. file'[i].by = file[i].by /\ file'[i].name = file[i].name
      BY <3>1, <1>r DEF File
    <3> QED BY <3>1, <3>2, <2>k
  <2>3. CASE Poll(i) /\ ~(queue # << >> /\ queue[1].part = "START")
    <3>1. UNCHANGED << saved, store, file >> /\ (Reading(i)' <=> Reading(i))
      BY <2>3, <1>2, <1>r DEF Poll, Goto, Reading, store
    <3> QED BY <3>1, <2>k
  <2>4. CASE Poll(i) /\ queue # << >> /\ queue[1].part = "START"
    <3>1. /\ file' = [file EXCEPT ![i] = NewFile(i, queue[1].run)] /\ config \in Dir
          /\ disk' = {f \in disk : f.name # << config, fileID[i] >>}
          /\ UNCHANGED << saved, fileID >> /\ ~Reading(i) /\ Reading(i)'
      BY <2>4, <1>2, <1>r DEF Poll, Goto, Reading
    <3>2. /\ file'[i].by = i /\ file'[i].name = << config, fileID[i] >>
          /\ file'[i].name \in Dir \X Nat /\ file'[i].name[2] = fileID[i]
      BY <3>1, <1>r DEF NewFile
    <3>3. file'[i] \in Opened' /\ Opened \subseteq Opened'
      <4>1. \A j \in Reader : Reading(j) => Reading(j)' /\ file'[j] = file[j]
        BY <2>a, <3>1 DEF Reading
      <4> QED BY <4>1, <3>1 DEF Opened
    <3>4. ASSUME NEW f \in Range(saved) PROVE f \in disk' \/ Replaced(f)'
      <4>1. /\ f.by \in Reader /\ reader[f.by] # "unborn" /\ f.name[2] < fileID[f.by]
            /\ f \in disk \/ Replaced(f)
        BY <3>4 DEF KeptInv
      <4>2. CASE Replaced(f)
        BY <4>2, <3>1, <3>3 DEF Replaced
      <4>3. CASE f.name # << config, fileID[i] >>
        BY <4>1, <4>2, <4>3, <3>1
      <4>4. CASE f.name = << config, fileID[i] >>
        <5>1. f.name[2] = fileID[i]
          BY <4>4
        <5>2. f.by # i
          BY <5>1, <4>1, <1>r
        <5>3. ~(i < f.by)
          BY <4>1, <2>a DEF KeptInv
        <5>4. i > f.by
          <6>1. PICK b \in Nat : b = f.by /\ b # i /\ ~(i < b)
            BY <5>2, <5>3, <4>1, <1>r
          <6> QED BY <6>1, <1>r
        <5> QED BY <5>4, <4>4, <3>2, <3>3 DEF Replaced
      <4> QED BY <4>3, <4>4
    <3>5. ASSUME NEW j \in Reader, Reading(j)'
          PROVE  file'[j].by = j /\ file'[j].name \in Dir \X Nat /\ file'[j].name[2] = fileID'[j]
      <4>1. CASE j = i
        BY <4>1, <3>1, <3>2
      <4>2. CASE j # i
        BY <4>2, <3>1, <3>5, <2>a DEF KeptInv, Reading
      <4> QED BY <4>1, <4>2
    <3>6. \A f \in Range(saved) :
             /\ f.by \in Reader /\ reader'[f.by] # "unborn"
             /\ f.name \in Dir \X Nat /\ f.name[2] < fileID'[f.by]
      BY <3>1, <2>d DEF KeptInv
    <3> QED BY <3>1, <3>4, <3>5, <3>6, <2>c DEF KeptInv
  <2>5. CASE Save(i)
    <3>1. /\ saved' = Append(saved, file[i]) /\ disk' = disk \cup {file[i]}
          /\ fileID' = [fileID EXCEPT ![i] = @ + 1] /\ file' = file
          /\ Reading(i) /\ ~Reading(i)'
      BY <2>5, <1>r DEF Save, Goto, Reading
    <3>2. Range(saved') = Range(saved) \cup {file[i]}
      <4>1. file[i] \in File
        BY <1>r
      <4>2. DOMAIN saved' = 1..(Len(saved) + 1) /\ DOMAIN saved = 1..Len(saved)
            /\ Len(saved) \in Nat /\ saved'[Len(saved) + 1] = file[i]
            /\ \A k \in DOMAIN saved : saved'[k] = saved[k]
        BY <3>1, <4>1, <1>r
      <4> QED BY <4>2 DEF Range
    <3>3. file[i].by = i /\ file[i].name \in Dir \X Nat /\ file[i].name[2] = fileID[i]
      BY <3>1 DEF KeptInv
    <3>4. \A j \in Reader : fileID'[j] \in Nat /\ fileID[j] <= fileID'[j]
      BY <3>1, <1>r
    <3>5. fileID[i] < fileID'[i]
      BY <3>1, <1>r
    <3>6. Range(saved) \cup Opened \subseteq Range(saved') \cup Opened'
      <4>1. \A j \in Reader : Reading(j) => j = i \/ Reading(j)'
        BY <2>a DEF Reading
      <4> QED BY <4>1, <3>1, <3>2 DEF Opened
    <3>7. ASSUME NEW f \in Range(saved')
          PROVE  /\ f.by \in Reader /\ reader'[f.by] # "unborn"
                 /\ f.name \in Dir \X Nat /\ f.name[2] < fileID'[f.by]
                 /\ f \in disk' \/ Replaced(f)'
      <4>1. CASE f = file[i]
        BY <4>1, <3>1, <3>3, <3>5, <2>b
      <4>2. CASE f \in Range(saved)
        <5>1. /\ f.by \in Reader /\ reader[f.by] # "unborn" /\ f.name[2] < fileID[f.by]
              /\ f \in disk \/ Replaced(f)
          BY <4>2 DEF KeptInv
        <5>2. Replaced(f) => Replaced(f)'
          BY <3>6 DEF Replaced
        <5>3. f.name \in Dir \X Nat /\ f.name[2] < fileID'[f.by]
          <6>1. f.name \in Dir \X Nat /\ f.name[2] \in Nat
            BY <4>2 DEF KeptInv
          <6>2. PICK j \in Reader : j = f.by
            BY <5>1
          <6>3. fileID[j] \in Nat /\ fileID'[j] \in Nat /\ fileID[j] <= fileID'[j] /\ f.name[2] < fileID[j]
            BY <6>2, <5>1, <3>4, <1>r
          <6>4. f.name[2] < fileID'[j]
            BY <6>1, <6>3
          <6> QED BY <6>1, <6>2, <6>4
        <5> QED BY <5>1, <5>2, <5>3, <3>1, <2>d
      <4> QED BY <4>1, <4>2, <3>2
    <3>8. ASSUME NEW j \in Reader, Reading(j)'
          PROVE  file'[j].by = j /\ file'[j].name \in Dir \X Nat /\ file'[j].name[2] = fileID'[j]
      <4>1. j # i /\ Reading(j)
        BY <3>1, <3>8, <2>a DEF Reading
      <4> QED BY <4>1, <3>1, <1>r DEF KeptInv
    <3> QED BY <3>7, <3>8, <2>c DEF KeptInv
  <2> QED
    BY <1>2, <2>1, <2>2, <2>3, <2>4, <2>5 DEF ReaderStep
<1> QED
  BY <1>k, <1>1, <1>2
     DEF Next, Client, Server, Configure, ReceiveConfig, Stop, Joined, interrupt_handler,
         Destroy, Exit, Push, ServerDies, Uncaught, vars

\* While the process of a careful client lives, every scan that was begun is
\* in a file on the disk, on its way to one, was discarded with the connection,
\* or was in a file whose name a later reader thread has taken again.
THEOREM NoneVanishes == Spec => []NothingVanishes
<1>1. Init => Accounted /\ KeptInv
  BY CountAssumption DEF Init, Accounted, Begun, Run, KeptInv, Active, Reading, Range
<1>2. Accounted /\ KeptInv => NothingVanishes
  <2> SUFFICES ASSUME Accounted, KeptInv, Careful, alive
               PROVE  Begun \subseteq OnDisk \cup Held \cup lost \cup Overwritten
    BY DEF NothingVanishes
  <2>1. Stored \subseteq OnDisk \cup Overwritten
    BY DEF Stored, OnDisk, Overwritten, KeptInv
  <2> QED BY <2>1, HeldIs DEF Accounted
<1> QED
  BY <1>1, <1>2, AccountedStep, KeptStep, TypeCorrect, SInvAlways, PTL DEF Spec

-----------------------------------------------------------------------------
(***************************************************************************)
(* No scan twice, whatever the client does: a message is in the queue, or  *)
(* in one open file, or in one closed file, and is sent once.              *)
(***************************************************************************)

Pushed(m) ==
    \/ m.run < scan.run
    \/ m.run = scan.run /\ \E p \in 1..3 : p < scan.part /\ m.part = Part[p]

\* The messages that made a file what it is.
Taken(f) ==
    {[part |-> "START", run |-> f.run]} \cup {[part |-> "DATA", run |-> r] : r \in Range(f.data)}

Settled(f) == \A m \in Taken(f) : m.run \in Nat /\ Pushed(m) /\ m \notin Range(queue)

Apart(f, g) == Taken(f) \cap Taken(g) = {}

OnceInv ==
    /\ \A m \in Range(queue) : Pushed(m)
    /\ \A k, n \in DOMAIN queue : queue[k] = queue[n] => k = n
    /\ \A i \in Reader : Reading(i) =>
          /\ Settled(file[i])
          /\ \A j \in Reader \ {i} : Reading(j) => Apart(file[i], file[j])
          /\ \A k \in DOMAIN saved : Apart(saved[k], file[i])
    /\ \A k \in DOMAIN saved :
          /\ Settled(saved[k])
          /\ \A n \in DOMAIN saved : k # n => Apart(saved[k], saved[n])

LEMMA AppendRange ==
    ASSUME NEW S, NEW q \in Seq(S), NEW e \in S
    PROVE  Range(Append(q, e)) = Range(q) \cup {e}
<1>1. PICK n \in Nat : n = Len(q) /\ DOMAIN q = 1..n
  OBVIOUS
<1>2. PICK a : a = Append(q, e)
  OBVIOUS
<1>3. DOMAIN a = 1..(n + 1) /\ a[n + 1] = e /\ \A k \in 1..n : a[k] = q[k]
  BY <1>1, <1>2
<1>4. 1..(n + 1) = 1..n \cup {n + 1}
  BY <1>1
<1>5. Range(a) = Range(q) \cup {e}
  BY <1>1, <1>3, <1>4 DEF Range
<1> QED
  BY <1>2, <1>5

\* The first message leaves a queue in which nothing is twice.
LEMMA TailOnce ==
    ASSUME NEW S, NEW q \in Seq(S), q # << >>, \A k, n \in DOMAIN q : q[k] = q[n] => k = n
    PROVE  /\ \A k, n \in DOMAIN Tail(q) : Tail(q)[k] = Tail(q)[n] => k = n
           /\ Range(Tail(q)) \subseteq Range(q) /\ q[1] \in Range(q) /\ q[1] \notin Range(Tail(q))
<1>1. \A k \in DOMAIN Tail(q) : k \in Nat /\ k + 1 \in DOMAIN q /\ Tail(q)[k] = q[k + 1] /\ k # 0
  OBVIOUS
<1>2. 1 \in DOMAIN q
  OBVIOUS
<1> HIDE DEF Range
<1>3. \A k, n \in DOMAIN Tail(q) : Tail(q)[k] = Tail(q)[n] => k = n
  <2> SUFFICES ASSUME NEW k \in DOMAIN Tail(q), NEW n \in DOMAIN Tail(q), Tail(q)[k] = Tail(q)[n]
               PROVE  k = n
    OBVIOUS
  <2>1. k + 1 = n + 1
    BY <1>1
  <2> QED BY <2>1, <1>1
<1>4. \A k \in DOMAIN Tail(q) : Tail(q)[k] \in Range(q) /\ Tail(q)[k] # q[1]
  <2> SUFFICES ASSUME NEW k \in DOMAIN Tail(q)
               PROVE  Tail(q)[k] \in Range(q) /\ Tail(q)[k] # q[1]
    OBVIOUS
  <2>1. k + 1 \in DOMAIN q /\ Tail(q)[k] = q[k + 1] /\ k + 1 # 1
    BY <1>1
  <2> QED BY <2>1, <1>2 DEF Range
<1>5. \A m \in Range(Tail(q)) : \E k \in DOMAIN Tail(q) : m = Tail(q)[k]
  BY DEF Range
<1> QED
  BY <1>2, <1>3, <1>4, <1>5 DEF Range

LEMMA OnceKept ==
    ASSUME OnceInv, UNCHANGED << scan, file, saved >>, queue' = queue \/ queue' = << >>,
           \A i \in Reader : Reading(i)' => Reading(i)
    PROVE  OnceInv'
<1>1. \A m : Pushed(m) => Pushed(m)'
  BY DEF Pushed
<1>2. \A f : Taken(f)' = Taken(f)
  BY DEF Taken
<1>3. \A f : Settled(f) => Settled(f)'
  BY <1>1, <1>2 DEF Settled, Range
<1>4. \A f, g : Apart(f, g) => Apart(f, g)'
  BY DEF Apart, Taken
<1>5. Range(queue') \subseteq Range(queue)
      /\ \A k, n \in DOMAIN queue' : queue'[k] = queue'[n] => k = n
  BY DEF OnceInv, Range
<1> QED
  BY <1>1, <1>3, <1>4, <1>5 DEF OnceInv

LEMMA OnceStep == TypeOK /\ OnceInv /\ [Next]_vars => OnceInv'
<1> SUFFICES ASSUME TypeOK, OnceInv, [Next]_vars PROVE OnceInv'
  OBVIOUS
<1>r. reader \in [Reader -> Place] /\ file \in [Reader -> File] /\ queue \in Seq(Message)
      /\ saved \in Seq(File) /\ scan \in [run : Nat, part : 1..3]
  BY DEF TypeOK
<1>p. ASSUME scan' = Following(scan) \/ scan' = [run |-> scan.run + 1, part |-> 1] \/ scan' = scan
      PROVE  \A m : m.run \in Nat /\ Pushed(m) => Pushed(m)'
  <2>1. \/ scan'.run = scan.run /\ scan'.part >= scan.part
        \/ scan'.run = scan.run + 1
    BY <1>p, <1>r DEF Following
  <2> SUFFICES ASSUME NEW m, m.run \in Nat, Pushed(m) PROVE Pushed(m)'
    OBVIOUS
  <2>2. CASE scan'.run = scan.run + 1
    BY <2>2, <1>r DEF Pushed
  <2>3. CASE scan'.run = scan.run /\ scan'.part >= scan.part
    <3>1. \A p \in 1..3 : p < scan.part => p < scan'.part
      <4>1. scan.part \in 1..3 /\ scan'.part \in 1..3
        BY <1>p, <1>r DEF Following
      <4> QED BY <4>1, <2>3
    <3> QED BY <2>3, <3>1 DEF Pushed
  <2> QED BY <2>1, <2>2, <2>3
<1>q. \A m \in Range(queue) : m \in Message /\ m.run \in Nat /\ Pushed(m)
  <2>1. \A m \in Range(queue) : m \in Message
    BY <1>r DEF Range
  <2> QED BY <2>1, CountAssumption DEF Message, Run, OnceInv
<1>e. \A f, g : Apart(f, g) => Apart(f, g)' /\ Apart(g, f)'
  BY DEF Apart, Taken
<1>0. CASE UNCHANGED << wire, readers >>
  BY <1>0, OnceKept DEF wire, readers, Reading
<1>1. CASE Push
  <2>0. PICK m : m = [part |-> Part[scan.part], run |-> scan.run]
    OBVIOUS
  <2>1. queue' = Append(queue, m) /\ scan' = Following(scan) /\ UNCHANGED << reader, file, saved >>
    BY <1>1, <2>0 DEF Push, readers
  <2>2. ~Pushed(m) /\ Pushed(m)' /\ m \in Message
    <3>1. ~Pushed(m)
      <4>1. PICK p \in 1..3 : p = scan.part
        BY <1>r
      <4>2. \A n \in 1..3 : n < p => Part[n] # Part[p]
        BY DEF Part
      <4> QED BY <4>1, <4>2, <2>0, <1>r DEF Pushed
    <3>2. m \in Message
      BY <1>1, <1>r, <2>0, PartType DEF Message, Push
    <3>3. Pushed(m)'
      <4>1. CASE scan.part = 3
        BY <4>1, <2>0, <2>1, <1>r DEF Pushed, Following
      <4>2. CASE scan.part # 3
        <5>1. scan'.run = scan.run /\ scan'.part = scan.part + 1 /\ scan.part \in 1..3
          BY <4>2, <2>1, <1>r DEF Following
        <5>2. scan.part < scan'.part
          BY <5>1
        <5> QED BY <5>1, <5>2, <2>0 DEF Pushed
      <4> QED BY <4>1, <4>2
    <3> QED BY <3>1, <3>2, <3>3
  <2>3. /\ DOMAIN queue' = 1..(Len(queue) + 1) /\ DOMAIN queue = 1..Len(queue) /\ Len(queue) \in Nat
        /\ \A k \in DOMAIN queue : queue'[k] = queue[k]
        /\ queue'[Len(queue) + 1] = m
    BY <2>1, <2>2, <1>r
  <2>4. Range(queue') = Range(queue) \cup {m}
    BY <2>3 DEF Range
  <2>5. m \notin Range(queue)
    BY <2>2, <1>q
  <2>6. \A k, n \in DOMAIN queue' : queue'[k] = queue'[n] => k = n
    BY <2>3, <2>5 DEF OnceInv, Range
  <2>7. \A x : x.run \in Nat /\ Pushed(x) => Pushed(x)'
    BY <2>1, <1>p
  <2>8. \A f : Settled(f) => Settled(f)'
    BY <2>2, <2>4, <2>7 DEF Settled, Taken
  <2>9. \A x \in Range(queue)' : Pushed(x)'
    BY <2>2, <2>4, <2>7, <1>q
  <2> QED
    BY <2>1, <2>6, <2>8, <2>9, <1>e DEF OnceInv, Reading
<1>2. CASE ServerDies
  <2>1. scan' = [run |-> scan.run + 1, part |-> 1] /\ UNCHANGED << reader, file, saved, queue >>
    BY <1>2 DEF ServerDies, readers
  <2>7. \A x : x.run \in Nat /\ Pushed(x) => Pushed(x)'
    BY <2>1, <1>p
  <2>8. \A f : Settled(f) => Settled(f)'
    BY <2>1, <2>7 DEF Settled, Taken
  <2>9. \A x \in Range(queue)' : Pushed(x)'
    BY <2>1, <2>7, <1>q
  <2> QED
    BY <2>1, <2>8, <2>9, <1>e DEF OnceInv, Reading
<1>3. CASE Start
  <2>1. \A i \in Reader : Reading(i)' => Reading(i)
    BY <1>3, <1>r DEF Start, Reading
  <2> QED BY <1>3, <2>1, OnceKept DEF Start, wire
<1>4. CASE Exit \/ Uncaught
  BY <1>4, OnceKept DEF Exit, Uncaught, Dies, readers, Reading
<1>5. ASSUME NEW i \in Reader, ReaderStep(i), ~Uncaught PROVE OnceInv'
  <2>o. \A j \in Reader \ {i} : Reading(j)' = Reading(j) /\ file'[j] = file[j]
    BY <1>5, <1>r DEF ReaderStep, Connect, Begin, Loop, Poll, Empty, Inner, Recv, Save,
       Leave, Goto, Reading
  <2>1. CASE Connect(i) \/ Begin(i) \/ Loop(i) \/ Empty(i) \/ Inner(i) \/ Leave(i)
    <3>1. Reading(i)' => Reading(i)
      BY <2>1, <1>5, <1>r DEF Connect, Begin, Loop, Empty, Inner, Leave, Goto, Reading
    <3>2. UNCHANGED << scan, saved, file >> /\ (queue' = queue \/ queue' = << >>)
      BY <2>1, <1>5 DEF Connect, Begin, Loop, Empty, Inner, Leave, wire
    <3> QED BY <3>1, <3>2, <2>o, OnceKept
  <2>t. ASSUME queue # << >>, queue' = Tail(queue), UNCHANGED scan
        PROVE  /\ \A m \in Range(queue)' : Pushed(m)'
               /\ \A k, n \in DOMAIN queue' : queue'[k] = queue'[n] => k = n
               /\ queue[1] \in Range(queue) /\ queue[1] \notin Range(queue)'
               /\ Range(queue)' \subseteq Range(queue)
               /\ \A f : Settled(f) => Settled(f)'
               /\ \E h \in Message : h = queue[1] /\ h.run \in Nat /\ Pushed(h)'
    <3>1. /\ \A k, n \in DOMAIN queue' : queue'[k] = queue'[n] => k = n
          /\ queue[1] \in Range(queue) /\ queue[1] \notin Range(queue')
          /\ Range(queue') \subseteq Range(queue)
      <4>1. \A k, n \in DOMAIN queue : queue[k] = queue[n] => k = n
        BY DEF OnceInv
      <4> QED BY <4>1, <2>t, <1>r, TailOnce
    <3>2. \A m : Pushed(m) => Pushed(m)'
      BY <2>t DEF Pushed
    <3>3. \A f : Settled(f) => Settled(f)'
      BY <3>1, <3>2 DEF Settled, Taken
    <3>4. \A m \in Range(queue') : Pushed(m)'
      BY <3>1, <3>2, <1>q
    <3>5. \E h \in Message : h = queue[1] /\ h.run \in Nat /\ Pushed(h)'
      BY <3>1, <3>2, <1>q
    <3> QED BY <3>1, <3>3, <3>4, <3>5
  <2>2. CASE Poll(i)
    <3>0. ~Reading(i) /\ UNCHANGED << saved, scan >>
      BY <2>2, <1>5 DEF Poll, Reading
    <3>1. CASE queue = << >>
      <4>1. UNCHANGED << queue, file >> /\ ~Reading(i)'
        BY <2>2, <3>1, <1>r DEF Poll, Goto, Reading
      <4> QED BY <4>1, <3>0, <2>o, OnceKept
    <3>2. CASE queue # << >> /\ queue[1].part # "START"
      <4>1. queue' = Tail(queue) /\ file' = file /\ ~Reading(i)'
        BY <2>2, <3>2, <1>r DEF Poll, Goto, Reading
      <4> QED BY <4>1, <3>0, <3>2, <2>o, <2>t, <1>e DEF OnceInv
    <3>3. CASE queue # << >> /\ queue[1].part = "START"
      <4>0. queue' = Tail(queue) /\ file' = [file EXCEPT ![i] = NewFile(i, queue[1].run)]
        BY <2>2, <3>3, <1>5 DEF Poll
      <4>1. /\ queue' = Tail(queue)
            /\ file'[i].run = queue[1].run /\ file'[i].data = << >>
        BY <4>0, <1>r DEF NewFile
      <4>h. PICK h \in Message :
            /\ \A m \in Range(queue)' : Pushed(m)'
            /\ \A k, n \in DOMAIN queue' : queue'[k] = queue'[n] => k = n
            /\ h \in Range(queue) /\ h \notin Range(queue)'
            /\ \A f : Settled(f) => Settled(f)'
            /\ h = queue[1] /\ h.run \in Nat /\ Pushed(h)'
        BY <4>1, <3>0, <3>3, <2>t
      <4>2. h = [part |-> "START", run |-> h.run]
        BY <4>h, <3>3 DEF Message
      <4>3. Taken(file[i])' = {h}
        BY <4>1, <4>2, <4>h DEF Taken, Range
      <4>4. Settled(file[i])'
        BY <4>h, <4>3 DEF Settled
      <4>5. \A f : Settled(f) => Apart(f, file[i])' /\ Apart(file[i], f)'
        <5>1. \A f : Settled(f) => Taken(f)' \cap {h} = {}
          BY <4>h DEF Settled, Taken
        <5> QED BY <5>1, <4>3 DEF Apart
      <4>6. \A k \in DOMAIN saved : Settled(saved[k])' /\ Apart(saved[k], file[i])'
        BY <4>h, <4>5, <3>0 DEF OnceInv
      <4>7. \A j \in Reader \ {i} : Reading(j)' =>
               Settled(file[j])' /\ Apart(file[i], file[j])' /\ Apart(file[j], file[i])'
        BY <4>h, <4>5, <2>o DEF OnceInv
      <4> QED BY <4>h, <4>4, <4>6, <4>7, <3>0, <2>o, <1>e DEF OnceInv
    <3> QED BY <3>1, <3>2, <3>3
  <2>3. CASE Recv(i)
    <3>1. /\ queue # << >> /\ queue' = Tail(queue) /\ UNCHANGED << scan, saved >>
          /\ \/ file' = file
             \/ /\ queue[1].part # "START" /\ queue[1].part # "END"
                /\ file' = [file EXCEPT ![i].data = Append(@, queue[1].run)]
          /\ Reading(i)
      BY <2>3, <1>5 DEF Recv, Reading
    <3>2. CASE file' = file
      <4>1. Reading(i)' => Reading(i)
        BY <3>1
      <4> QED BY <4>1, <3>1, <3>2, <2>o, <2>t, <1>e DEF OnceInv
    <3>3. CASE /\ queue[1].part # "START" /\ queue[1].part # "END"
               /\ file' = [file EXCEPT ![i].data = Append(@, queue[1].run)]
      <4>h. PICK h \in Message :
            /\ \A m \in Range(queue)' : Pushed(m)'
            /\ \A k, n \in DOMAIN queue' : queue'[k] = queue'[n] => k = n
            /\ h \in Range(queue) /\ h \notin Range(queue)'
            /\ \A f : Settled(f) => Settled(f)'
            /\ h = queue[1] /\ h.run \in Nat /\ Pushed(h)'
        BY <3>1, <2>t
      <4>1. h = [part |-> "DATA", run |-> h.run]
        BY <3>3, <4>h, PartType DEF Message
      <4>2. file'[i].run = file[i].run /\ file'[i].data = Append(file[i].data, h.run)
        BY <3>3, <4>h, <1>r DEF File
      <4>3. Range(file'[i].data) = Range(file[i].data) \cup {h.run}
        <5>1. file[i].data \in Seq(Run) /\ h.run \in Run
          BY <4>h, <1>r DEF File, Message
        <5> QED BY <4>2, <5>1, AppendRange
      <4>4. Taken(file[i])' = Taken(file[i]) \cup {h}
        BY <4>1, <4>2, <4>3 DEF Taken
      <4>5. Settled(file[i])'
        <5>1. Settled(file[i])
          BY <3>1 DEF OnceInv
        <5>2. \A m \in Taken(file[i]) : m.run \in Nat /\ Pushed(m)' /\ m \notin Range(queue)'
          BY <5>1, <4>h DEF Settled, Taken
        <5> QED BY <5>2, <4>h, <4>4 DEF Settled
      <4>6. \A f : Settled(f) /\ Apart(file[i], f) => Apart(file[i], f)' /\ Apart(f, file[i])'
        <5>1. \A f : Settled(f) => h \notin Taken(f) /\ Taken(f)' = Taken(f)
          BY <4>h DEF Settled, Taken
        <5> QED BY <5>1, <4>4 DEF Apart
      <4>7. \A k \in DOMAIN saved : Settled(saved[k])' /\ Apart(saved[k], file[i])'
        <5>1. \A k \in DOMAIN saved : Settled(saved[k]) /\ Apart(file[i], saved[k])
          BY <3>1 DEF OnceInv, Apart
        <5> QED BY <5>1, <4>h, <4>6, <3>1
      <4>8. \A j \in Reader \ {i} : Reading(j)' =>
               Settled(file[j])' /\ Apart(file[i], file[j])' /\ Apart(file[j], file[i])'
        <5>1. \A j \in Reader \ {i} : Reading(j) => Settled(file[j]) /\ Apart(file[i], file[j])
          BY <3>1 DEF OnceInv
        <5> QED BY <5>1, <4>h, <4>6, <2>o
      <4> QED BY <4>h, <4>5, <4>7, <4>8, <3>1, <2>o, <1>e DEF OnceInv
    <3> QED BY <3>1, <3>2, <3>3
  <2>4. CASE Save(i)
    <3>1. /\ UNCHANGED << queue, scan, file >> /\ saved' = Append(saved, file[i])
          /\ Reading(i) /\ ~Reading(i)'
      BY <2>4, <1>r DEF Save, wire, Reading, Goto
    <3>2. /\ DOMAIN saved' = 1..(Len(saved) + 1) /\ DOMAIN saved = 1..Len(saved)
          /\ Len(saved) \in Nat /\ saved'[Len(saved) + 1] = file[i]
          /\ \A k \in DOMAIN saved : saved'[k] = saved[k]
      <4>1. file[i] \in File
        BY <1>r
      <4> QED BY <3>1, <4>1, <1>r
    <3>3. \A f : Settled(f) => Settled(f)'
      BY <3>1 DEF Settled, Pushed, Taken
    <3>4. Settled(file[i]) /\ \A k \in DOMAIN saved : Apart(saved[k], file[i])
      BY <3>1 DEF OnceInv
    <3>5. \A f, g : Apart(f, g) => Apart(f, g)' /\ Apart(g, f)'
      BY DEF Apart, Taken
    <3>6. \A k \in DOMAIN saved' :
             /\ Settled(saved[k])'
             /\ \A n \in DOMAIN saved' : k # n => Apart(saved[k], saved[n])'
      BY <3>2, <3>3, <3>4, <3>5 DEF OnceInv
    <3>7. ASSUME NEW j \in Reader, Reading(j)'
          PROVE  /\ Settled(file[j])'
                 /\ \A l \in Reader \ {j} : Reading(l)' => Apart(file[j], file[l])'
                 /\ \A k \in DOMAIN saved' : Apart(saved[k], file[j])'
      <4>1. j # i /\ Reading(j) /\ Apart(file[i], file[j])
        BY <3>1, <3>7, <2>o DEF OnceInv
      <4> QED BY <4>1, <3>1, <3>2, <3>3, <3>5, <2>o DEF OnceInv
    <3>8. /\ \A m \in Range(queue)' : Pushed(m)'
          /\ \A k, n \in DOMAIN queue' : queue'[k] = queue'[n] => k = n
      BY <3>1 DEF OnceInv, Pushed
    <3> QED BY <3>6, <3>7, <3>8 DEF OnceInv
  <2> QED
    BY <1>5, <2>1, <2>2, <2>3, <2>4 DEF ReaderStep
<1> QED
  BY <1>0, <1>1, <1>2, <1>3, <1>4, <1>5
     DEF Next, Client, Server, Configure, ReceiveConfig, Stop, Joined, interrupt_handler,
         Destroy, vars

\* No scan gets two files and no data are in two of them, whatever the client
\* does.
THEOREM ScansOnce == Spec => []NoScanTwice
<1>1. Init => OnceInv
  BY DEF Init, OnceInv, Range, Reading
<1>2. TypeOK /\ OnceInv => NoScanTwice
  <2> SUFFICES ASSUME TypeOK, OnceInv, NEW k \in DOMAIN saved, NEW n \in DOMAIN saved, k # n
               PROVE  /\ saved[k].run # saved[n].run
                      /\ Range(saved[k].data) \cap Range(saved[n].data) = {}
    <3>1. TypeOK => \A k \in DOMAIN saved : k \in Nat
      BY DEF TypeOK
    <3>2. \A k, n \in Nat : k < n => k # n
      OBVIOUS
    <3> QED BY <3>1, <3>2 DEF NoScanTwice
  <2>1. Apart(saved[k], saved[n])
    BY DEF OnceInv
  <2>2. saved[k].run # saved[n].run
    <3> SUFFICES ASSUME saved[k].run = saved[n].run PROVE FALSE
      OBVIOUS
    <3>1. /\ [part |-> "START", run |-> saved[k].run] \in Taken(saved[k])
          /\ [part |-> "START", run |-> saved[k].run] \in Taken(saved[n])
      BY DEF Taken
    <3> QED BY <3>1, <2>1 DEF Apart
  <2>3. ASSUME NEW d \in Range(saved[k].data), d \in Range(saved[n].data) PROVE FALSE
    <3>1. /\ [part |-> "DATA", run |-> d] \in Taken(saved[k])
          /\ [part |-> "DATA", run |-> d] \in Taken(saved[n])
      BY <2>3 DEF Taken
    <3> QED BY <3>1, <2>1 DEF Apart
  <2> QED BY <2>2, <2>3
<1> QED
  BY <1>1, <1>2, OnceStep, TypeCorrect, PTL DEF Spec

-----------------------------------------------------------------------------
(***************************************************************************)
(* What a file holds.  The messages of the connection, the next one of the *)
(* server included, come in the order of the scans, which a death of the   *)
(* server may only cut short: a START may follow anything.                 *)
(***************************************************************************)

Coming == [part |-> Part[scan.part], run |-> scan.run]

\* The next message a reader receives, if there is one to come.
Upcoming == IF queue = << >> THEN Coming ELSE queue[1]

Follows(m, n) ==
    \/ n.part = "START"
    \/ m.part = "START" /\ n = [part |-> "DATA", run |-> m.run]
    \/ m.part = "DATA" /\ n = [part |-> "END", run |-> m.run]

InOrder ==
    /\ \A k \in DOMAIN queue : k + 1 \in DOMAIN queue => Follows(queue[k], queue[k + 1])
    /\ queue # << >> => Follows(queue[Len(queue)], Coming)

\* The message a file was last written for.
Written(f) == [part |-> IF f.data = << >> THEN "START" ELSE "DATA", run |-> f.run]

Filling(f) == f.data = << >> \/ f.data = << f.run >>
Filled(f)  == f.data = << f.run >> \/ (sig /\ f.data = << >>)

FileInv ==
    Careful =>
        /\ alive => InOrder
        /\ \A i \in Reader :
              /\ reader[i] \in {"inner", "recv"} => Filling(file[i])
              /\ alive /\ reader[i] \in {"inner", "recv"} =>
                    Follows(Written(file[i]), Upcoming)
              /\ reader[i] = "save" => Filled(file[i])
              /\ reader[i] \in {"poll", "empty", "inner", "recv", "save"} /\ fsm = "Destroyed" => sig
        /\ \A f \in Range(saved) : Filled(f)

LEMMA LastOne ==
    ASSUME NEW S, NEW q \in Seq(S), q # << >>, Tail(q) = << >>
    PROVE  Len(q) = 1
<1>1. Len(Tail(q)) = Len(q) - 1 /\ Len(q) \in Nat
  OBVIOUS
<1>2. Len(<< >>) = 0
  OBVIOUS
<1>3. Len(q) - 1 = 0
  BY <1>1, <1>2, Zenon
<1> QED
  BY <1>3

\* What a receive leaves behind.
LEMMA TailInOrder ==
    ASSUME queue \in Seq(Message), InOrder, queue # << >>, queue' = Tail(queue), UNCHANGED scan
    PROVE  InOrder' /\ Follows(queue[1], Upcoming')
<1>1. /\ \A k \in DOMAIN queue' : k \in Nat /\ k + 1 \in DOMAIN queue /\ queue'[k] = queue[k + 1]
      /\ \A k \in Nat : k + 1 \in DOMAIN queue' => k + 2 \in DOMAIN queue
      /\ Coming' = Coming
  BY DEF Coming
<1>2. \A k \in DOMAIN queue' : k + 1 \in DOMAIN queue' => Follows(queue'[k], queue'[k + 1])
  BY <1>1 DEF InOrder
<1>3. queue' # << >> => Follows(queue'[Len(queue')], Coming')
  <2>1. queue' # << >> => Len(queue') + 1 = Len(queue) /\ Len(queue') \in DOMAIN queue'
    OBVIOUS
  <2> QED BY <2>1, <1>1 DEF InOrder
<1>4. Follows(queue[1], Upcoming')
  <2>1. CASE queue' = << >>
    <3>1. Len(queue) = 1
      BY <2>1, LastOne
    <3> QED BY <2>1, <3>1, <1>1 DEF InOrder, Upcoming
  <2>2. CASE queue' # << >>
    <3>1. 1 \in DOMAIN queue /\ 1 + 1 \in DOMAIN queue /\ queue'[1] = queue[1 + 1]
      BY <2>2
    <3> QED BY <2>2, <3>1 DEF InOrder, Upcoming
  <2> QED BY <2>1, <2>2
<1> QED BY <1>2, <1>3, <1>4 DEF InOrder

\* The server sends what comes next; what follows that is known.
LEMMA ComingFollows ==
    ASSUME scan \in [run : Nat, part : 1..3],
           scan' = Following(scan) \/ scan' = [run |-> scan.run + 1, part |-> 1]
    PROVE  Follows(Coming, Coming') /\ (scan'.part = 1 => \A m : Follows(m, Coming'))
<1>1. CASE scan'.part = 1
  BY <1>1 DEF Coming, Follows, Part
<1>2. CASE scan'.part # 1
  <2>1. scan' = [run |-> scan.run, part |-> scan.part + 1] /\ scan.part \in {1, 2}
    BY <1>2 DEF Following
  <2> QED BY <2>1 DEF Coming, Follows, Part
<1> QED BY <1>1, <1>2

LEMMA FileInvKept ==
    ASSUME FileInv, Careful, UNCHANGED << file, saved, scan >>, alive' => alive, sig => sig',
           alive' => queue' = queue,
           \A i \in Reader : reader'[i] = reader[i],
           fsm' = "Destroyed" => fsm = "Destroyed" \/ sig'
    PROVE  FileInv'
<1>1. alive' => InOrder'
  BY DEF FileInv, InOrder, Coming
<1>2. ASSUME NEW f, Filled(f) PROVE Filled(f)'
  BY <1>2 DEF Filled
<1>3. alive' => Upcoming' = Upcoming
  BY DEF Upcoming, Coming
<1> QED BY <1>1, <1>2, <1>3 DEF FileInv, Filling, Written, Filled

LEMMA FileInvStep == SInv /\ FileInv /\ [Next]_vars => FileInv'
<1> SUFFICES ASSUME SInv, FileInv, [Next]_vars, Careful PROVE FileInv'
  BY DEF FileInv
<1>t. TypeOK
  BY DEF SInv
<1>r. reader \in [Reader -> Place] /\ file \in [Reader -> File] /\ queue \in Seq(Message)
      /\ saved \in Seq(File) /\ scan \in [run : Nat, part : 1..3] /\ fsm \in State
  BY <1>t DEF TypeOK
<1>0. CASE UNCHANGED vars
  BY <1>0, FileInvKept DEF vars, command, readers, wire
<1>1. CASE Configure \/ Joined \/ interrupt_handler
  BY <1>1, FileInvKept DEF Configure, Joined, interrupt_handler, readers, wire
<1>2. CASE ReceiveConfig
  <2>1. fsm' = "Destroyed" => fsm = "Destroyed"
    BY <1>2, <1>r, Events DEF ReceiveConfig
  <2> QED BY <1>2, <2>1, FileInvKept DEF ReceiveConfig, readers, wire
<1>3. CASE Start
  <2>1. PICK i \in Reader : reader[i] = "unborn" /\ reader' = [reader EXCEPT ![i] = "connect"]
    BY <1>3 DEF Start
  <2>2. UNCHANGED << file, saved, scan, queue, alive, sig, fsm >>
    BY <1>3 DEF Start, wire
  <2>3. \A j \in Reader : reader'[j] = reader[j] \/ reader'[j] = "connect"
    BY <2>1, <1>r
  <2> QED
    BY <2>2, <2>3 DEF FileInv, InOrder, Upcoming, Coming, Filling, Filled, Written
<1>4. CASE Stop
  <2>1. fsm' = "Destroyed" => fsm = "Destroyed"
    BY <1>4, <1>r, Events DEF Stop
  <2> QED BY <1>4, <2>1, FileInvKept DEF Stop, readers, wire
<1>5. CASE Destroy
  BY <1>5, FileInvKept DEF Destroy, readers, wire
<1>6. CASE Exit \/ Uncaught
  BY <1>6, FileInvKept DEF Exit, Uncaught, Dies, readers, command
<1>7. CASE Push
  <2>1. /\ queue' = Append(queue, Coming) /\ scan' = Following(scan)
        /\ UNCHANGED << reader, file, saved, alive, sig, fsm >>
    BY <1>7 DEF Push, Coming, readers, command
  <2>2. Follows(Coming, Coming')
    BY <2>1, <1>r, ComingFollows
  <2>3. /\ DOMAIN queue' = 1..(Len(queue) + 1) /\ DOMAIN queue = 1..Len(queue) /\ Len(queue) \in Nat
        /\ \A k \in DOMAIN queue : queue'[k] = queue[k]
        /\ queue'[Len(queue) + 1] = Coming /\ Len(queue') = Len(queue) + 1
    BY <2>1, <1>r
  <2>4. Upcoming' = Upcoming
    <3>1. CASE queue = << >>
      <4>1. queue' # << >> /\ queue'[1] = Coming
        BY <3>1, <2>1
      <4> QED BY <3>1, <4>1 DEF Upcoming
    <3>2. CASE queue # << >>
      <4>1. queue' # << >> /\ queue'[1] = queue[1]
        BY <3>2, <2>1, <1>r
      <4> QED BY <3>2, <4>1 DEF Upcoming
    <3> QED BY <3>1, <3>2
  <2>5. ASSUME InOrder PROVE InOrder'
    <3>1. ASSUME NEW k \in DOMAIN queue', k + 1 \in DOMAIN queue'
          PROVE  Follows(queue'[k], queue'[k + 1])
      <4>1. CASE k = Len(queue)
        BY <4>1, <3>1, <2>3, <2>5, <1>r DEF InOrder
      <4>2. CASE k # Len(queue)
        <5>1. k \in DOMAIN queue /\ k + 1 \in DOMAIN queue
          BY <4>2, <3>1, <2>3
        <5> QED BY <5>1, <2>3, <2>5 DEF InOrder
      <4> QED BY <4>1, <4>2
    <3> QED BY <3>1, <2>2, <2>3 DEF InOrder
  <2> QED
    BY <2>1, <2>4, <2>5 DEF FileInv, Filling, Filled, Written
<1>8. CASE ServerDies
  <2>1. /\ scan' = [run |-> scan.run + 1, part |-> 1]
        /\ UNCHANGED << reader, file, saved, queue, alive, sig, fsm >>
    BY <1>8 DEF ServerDies, readers, command
  <2>2. \A m : Follows(m, Coming')
    BY <2>1, <1>r, ComingFollows
  <2>3. InOrder => InOrder'
    BY <2>1, <2>2 DEF InOrder
  <2>4. \A m : Follows(m, Upcoming) => Follows(m, Upcoming')
    BY <2>1, <2>2 DEF Upcoming
  <2> QED
    BY <2>1, <2>3, <2>4 DEF FileInv, Filling, Filled, Written
<1>9. ASSUME NEW i \in Reader, ReaderStep(i), ~Uncaught PROVE FileInv'
  <2>a. alive /\ InOrder /\ UNCHANGED << alive, sig, scan >>
    BY <1>9 DEF FileInv, ReaderStep, Connect, Begin, Loop, Poll, Empty, Inner, Recv, Save,
       Leave, wire, command
  <2>o. \A j \in Reader \ {i} : reader'[j] = reader[j] /\ reader[j] \in {"unborn", "ended"}
    <3>1. \A j \in Reader \ {i} : reader'[j] = reader[j]
      BY <1>9, <1>r DEF ReaderStep, Connect, Begin, Loop, Poll, Empty, Inner, Recv, Save,
         Leave, Goto
    <3>2. \A j \in Reader \ {i} : ~Active(j)
      BY <1>9, <1>t, OwnPlace DEF SInv, OneReader
    <3> QED BY <3>1, <3>2 DEF Active
  <2>n. SUFFICES ASSUME TRUE
        PROVE  /\ InOrder'
               /\ reader'[i] \in {"inner", "recv"} =>
                     Filling(file[i])' /\ Follows(Written(file[i])', Upcoming')
               /\ reader'[i] = "save" => Filled(file[i])'
               /\ reader'[i] \in {"poll", "empty", "inner", "recv", "save"} /\ fsm' = "Destroyed" => sig'
               /\ \A f \in Range(saved)' : Filled(f)'
    BY <2>o DEF FileInv
  <2>k. ASSUME UNCHANGED << queue, file, saved >>
        PROVE  /\ InOrder' /\ Upcoming' = Upcoming
               /\ \A f \in Range(saved)' : Filled(f)'
               /\ Filling(file[i]) => Filling(file[i])'
               /\ Filled(file[i]) => Filled(file[i])'
               /\ Written(file[i])' = Written(file[i])
    BY <2>k, <2>a DEF InOrder, Upcoming, Coming, Filling, Filled, Written, FileInv
  <2>1. CASE Connect(i) \/ Begin(i)
    <3>1. UNCHANGED << queue, file, saved >>
          /\ reader'[i] \notin {"inner", "recv", "save", "poll", "empty"}
      BY <2>1, <1>9, <1>r DEF Connect, Begin, Goto, wire
    <3> QED BY <3>1, <2>k
  <2>2. CASE Loop(i)
    <3>1. UNCHANGED << queue, file, saved, fsm >>
          /\ reader'[i] = IF fsm = "Destroyed" THEN "leave" ELSE "poll"
      BY <2>2, <1>r DEF Loop, Goto, wire
    <3> QED BY <3>1, <2>k
  <2>3. CASE Poll(i)
    <3>0. reader[i] = "poll" /\ fsm' = fsm /\ saved' = saved
      BY <2>3, <1>9 DEF Poll
    <3>1. CASE queue = << >>
      <4>1. UNCHANGED << queue, file, saved >> /\ reader'[i] = "empty"
        BY <2>3, <3>1, <1>r DEF Poll, Goto
      <4> QED BY <4>1, <3>0, <2>k, <2>a DEF FileInv
    <3>2. CASE queue # << >> /\ queue[1].part # "START"
      <4>1. queue' = Tail(queue) /\ reader'[i] = "head"
        BY <2>3, <3>2, <1>r DEF Poll, Goto
      <4> QED BY <4>1, <3>2, <3>0, <2>a, <1>r, TailInOrder DEF FileInv, Filled
    <3>3. CASE queue # << >> /\ queue[1].part = "START"
      <4>0. /\ queue' = Tail(queue) /\ reader' = [reader EXCEPT ![i] = "inner"]
            /\ file' = [file EXCEPT ![i] = NewFile(i, queue[1].run)]
        BY <2>3, <3>3, <1>9 DEF Poll, Goto
      <4>1. queue' = Tail(queue) /\ reader'[i] = "inner"
            /\ file'[i].run = queue[1].run /\ file'[i].data = << >>
        BY <4>0, <1>r DEF NewFile
      <4>2. queue[1] \in Message
        BY <3>3, <1>r
      <4>3. Written(file[i])' = queue[1] /\ Filling(file[i])'
        BY <4>1, <4>2, <3>3 DEF Written, Filling, Message
      <4>4. InOrder' /\ Follows(queue[1], Upcoming')
        BY <4>1, <3>3, <2>a, <1>r, TailInOrder
      <4> QED BY <4>1, <4>3, <4>4, <3>0, <2>a DEF FileInv, Filled
    <3> QED BY <3>1, <3>2, <3>3
  <2>4. CASE Empty(i)
    <3>1. UNCHANGED << queue, file, saved >> /\ reader'[i] = "head"
      BY <2>4, <1>r DEF Empty, Goto, wire
    <3> QED BY <3>1, <2>k
  <2>5. CASE Inner(i)
    <3>1. UNCHANGED << queue, file, saved, fsm >> /\ reader[i] = "inner"
          /\ reader'[i] = IF fsm = "Destroyed" THEN "save" ELSE "recv"
      BY <2>5, <1>r DEF Inner, Goto, wire
    <3>2. Filling(file[i]) /\ Follows(Written(file[i]), Upcoming) /\ (fsm = "Destroyed" => sig)
      BY <3>1, <2>a DEF FileInv
    <3>3. fsm = "Destroyed" => Filled(file[i])
      <4>1. Filling(file[i])
        BY <3>2
      <4>2. fsm = "Destroyed" => sig
        BY <3>2
      <4> QED BY <4>1, <4>2, Zenon DEF Filling, Filled
    <3> QED BY <3>1, <3>2, <3>3, <2>a, <2>k
  <2>6. CASE Recv(i)
    <3>1. /\ reader[i] = "recv" /\ queue # << >> /\ queue[1].part # "START"
          /\ queue' = Tail(queue) /\ UNCHANGED << saved, fsm >>
          /\ reader'[i] = IF queue[1].part = "END" THEN "save" ELSE "inner"
          /\ file' = IF queue[1].part = "END" THEN file
                     ELSE [file EXCEPT ![i].data = Append(@, queue[1].run)]
      BY <2>6, <1>9, <1>r DEF Recv, Goto
    <3>2. Filling(file[i]) /\ Follows(Written(file[i]), queue[1]) /\ (fsm = "Destroyed" => sig)
      BY <3>1, <2>a DEF FileInv, Upcoming
    <3>3. InOrder' /\ Follows(queue[1], Upcoming')
      BY <3>1, <2>a, <1>r, TailInOrder
    <3>4. file[i] \in File /\ \A f \in Range(saved)' : Filled(f)'
      BY <3>1, <1>r, <2>a DEF FileInv, Filled
    <3>5. CASE queue[1].part = "END"
      <4>1. file[i].data = << file[i].run >>
        BY <3>2, <3>5 DEF Filling, Follows, Written
      <4>2. fsm' = "Destroyed" => sig'
        BY <3>1, <3>2, <2>a
      <4> QED BY <4>1, <4>2, <3>1, <3>3, <3>4, <3>5 DEF Filled
    <3>6. CASE queue[1].part # "END"
      <4>1. file[i].data = << >> /\ queue[1] = [part |-> "DATA", run |-> file[i].run]
        BY <3>1, <3>2, <3>6 DEF Follows, Written
      <4>2. file'[i] = [file[i] EXCEPT !.data = << file[i].run >>]
        BY <4>1, <3>1, <3>6, <1>r
      <4>3. file'[i].run = file[i].run /\ file'[i].data = << file[i].run >>
        BY <4>2, <3>4 DEF File
      <4>4. Filling(file[i])' /\ Written(file[i])' = queue[1]
        BY <4>1, <4>3 DEF Filling, Written
      <4>5. reader'[i] = "inner"
        BY <3>1, <3>6
      <4>6. fsm' = "Destroyed" => sig'
        BY <3>1, <3>2, <2>a
      <4>7. Follows(Written(file[i])', Upcoming')
        BY <3>3, <4>4
      <4> QED BY <4>4, <4>5, <4>6, <4>7, <3>3, <3>4
    <3> QED BY <3>5, <3>6
  <2>7. CASE Save(i)
    <3>1. /\ UNCHANGED << queue, file >> /\ saved' = Append(saved, file[i])
          /\ reader[i] = "save" /\ reader'[i] = "head"
      BY <2>7, <1>r DEF Save, wire, Goto
    <3>2. Range(saved') = Range(saved) \cup {file[i]}
      <4>1. file[i] \in File
        BY <1>r
      <4>2. DOMAIN saved' = 1..(Len(saved) + 1) /\ DOMAIN saved = 1..Len(saved)
            /\ Len(saved) \in Nat /\ saved'[Len(saved) + 1] = file[i]
            /\ \A k \in DOMAIN saved : saved'[k] = saved[k]
        BY <3>1, <4>1, <1>r
      <4> QED BY <4>2 DEF Range
    <3>3. Filled(file[i]) /\ \A f \in Range(saved) : Filled(f)
      BY <3>1 DEF FileInv
    <3>4. InOrder'
      BY <3>1, <2>a DEF InOrder, Coming
    <3> QED BY <3>1, <3>2, <3>3, <3>4, <2>a DEF Filled
  <2>8. CASE Leave(i)
    <3>1. queue' = << >> /\ reader'[i] = "ended" /\ UNCHANGED saved
      BY <2>8, <1>r DEF Leave, Goto
    <3> QED BY <3>1, <2>a DEF InOrder, FileInv, Filled
  <2> QED
    BY <1>9, <2>1, <2>2, <2>3, <2>4, <2>5, <2>6, <2>7, <2>8 DEF ReaderStep
<1> QED
  BY <1>0, <1>1, <1>2, <1>3, <1>4, <1>5, <1>6, <1>7, <1>8, <1>9 DEF Next, Client, Server

LEMMA FileInvAlways == Spec => [](SInv /\ FileInv)
<1>1. Init => FileInv
  BY DEF Init, FileInv, InOrder, Range
<1> QED
  BY <1>1, SInvInit, SInvStep, FileInvStep, PTL DEF Spec

\* A file holds the data of the scan whose START opened it, all of them and of
\* no other, unless ctrl-C cut it short.
THEOREM FilesHoldScans == Spec => []FilesAreScans
<1>1. FileInv => FilesAreScans
  BY DEF FileInv, FilesAreScans, Filled
<1> QED
  BY <1>1, FileInvAlways, PTL

-----------------------------------------------------------------------------
\* A reader that has found the queue empty, and has not looked since, leaves
\* at most scans behind that came after that look.
LateInv ==
    Careful /\ ~sig => \A i \in Reader :
        reader[i] \in {"empty", "leave"} \/ (reader[i] = "head" /\ fsm = "Destroyed")
            => Waiting \subseteq fresh

LEMMA LateStep == SInv /\ FileInv /\ LateInv /\ [Next]_vars => LateInv'
<1> SUFFICES ASSUME SInv, FileInv, LateInv, [Next]_vars, Careful, ~sig' PROVE LateInv'
  BY DEF LateInv
<1>t. TypeOK
  BY DEF SInv
<1>r. reader \in [Reader -> Place] /\ queue \in Seq(Message) /\ fsm \in State
      /\ scan.part \in 1..3
  BY <1>t DEF TypeOK
<1>k. ASSUME ~sig, UNCHANGED << queue, fresh, reader >>,
             fsm' = "Destroyed" => fsm = "Destroyed"
      PROVE  LateInv'
  BY <1>k DEF LateInv, Waiting
<1>0. CASE UNCHANGED vars
  BY <1>0, <1>k DEF vars, command, readers, wire
<1>1. CASE Configure \/ Joined \/ ServerDies
  BY <1>1, <1>k DEF Configure, Joined, ServerDies, readers, wire, command
<1>2. CASE ReceiveConfig
  <2>1. fsm' = "Destroyed" => fsm = "Destroyed"
    BY <1>2, <1>r, Events DEF ReceiveConfig
  <2> QED BY <1>2, <2>1, <1>k DEF ReceiveConfig, readers, wire
<1>3. CASE Start
  <2>1. PICK i \in Reader : reader' = [reader EXCEPT ![i] = "connect"]
    BY <1>3 DEF Start
  <2>2. UNCHANGED << queue, fresh, sig, fsm >>
    BY <1>3 DEF Start, wire
  <2>3. \A j \in Reader : reader'[j] = reader[j] \/ reader'[j] = "connect"
    BY <2>1, <1>r
  <2> QED
    BY <2>2, <2>3 DEF LateInv, Waiting
<1>4. CASE Stop
  <2>1. fsm' = "Destroyed" => fsm = "Destroyed"
    BY <1>4, <1>r, Events DEF Stop
  <2> QED BY <1>4, <2>1, <1>k DEF Stop, readers, wire
<1>5. CASE interrupt_handler \/ Destroy
  BY <1>5 DEF interrupt_handler, Destroy
<1>6. CASE Exit \/ Uncaught
  <2>1. queue' = << >> /\ UNCHANGED << reader, fsm, sig, fresh >>
    BY <1>6 DEF Exit, Uncaught, Dies, readers, command
  <2>2. Waiting' = {}
    BY <2>1 DEF Waiting
  <2> QED BY <2>2 DEF LateInv
<1>7. CASE Push
  <2>1. /\ queue' = Append(queue, [part |-> Part[scan.part], run |-> scan.run])
        /\ fresh' = IF scan.part = 1 THEN fresh \cup {scan.run} ELSE fresh
        /\ UNCHANGED << reader, fsm, sig >>
    BY <1>7 DEF Push, readers, command
  <2>2. /\ \A k \in DOMAIN queue' : k \in DOMAIN queue \/ k = Len(queue) + 1
        /\ \A k \in DOMAIN queue : queue'[k] = queue[k]
        /\ queue'[Len(queue) + 1] = [part |-> Part[scan.part], run |-> scan.run]
    BY <2>1, <1>r
  <2>3. Part[scan.part] = "START" => scan.part = 1
    BY <1>r DEF Part
  <2>4. ASSUME NEW k \in DOMAIN queue', queue'[k].part = "START", Waiting \subseteq fresh
        PROVE  queue'[k].run \in fresh'
    <3>1. CASE k \in DOMAIN queue
      BY <3>1, <2>4, <2>1, <2>2 DEF Waiting
    <3>2. CASE k = Len(queue) + 1
      BY <3>2, <2>4, <2>1, <2>2, <2>3
    <3> QED BY <3>1, <3>2, <2>2
  <2>5. Waiting \subseteq fresh => Waiting' \subseteq fresh'
    BY <2>4 DEF Waiting
  <2> QED
    BY <2>1, <2>5 DEF LateInv
<1>8. ASSUME NEW i \in Reader, ReaderStep(i), ~Uncaught PROVE LateInv'
  <2>o. \A j \in Reader \ {i} : reader'[j] \in {"unborn", "ended"}
    <3>1. \A j \in Reader \ {i} : reader'[j] = reader[j]
      BY <1>8, <1>r DEF ReaderStep, Connect, Begin, Loop, Poll, Empty, Inner, Recv, Save,
         Leave, Goto
    <3>2. \A j \in Reader \ {i} : ~Active(j)
      BY <1>8, <1>t, OwnPlace DEF SInv, OneReader
    <3> QED BY <3>1, <3>2 DEF Active
  <2>s. ~sig
    BY <1>8 DEF ReaderStep, Connect, Begin, Loop, Poll, Empty, Inner, Recv, Save, Leave, command
  <2>n. SUFFICES ASSUME \/ reader'[i] \in {"empty", "leave"}
                        \/ reader'[i] = "head" /\ fsm' = "Destroyed"
                 PROVE  Waiting' \subseteq fresh'
    BY <2>o DEF LateInv
  <2>1. CASE Loop(i)
    <3>1. reader[i] = "head" /\ fsm = "Destroyed" /\ UNCHANGED << queue, fresh >>
      BY <2>1, <2>n, <1>r DEF Loop, Goto, wire
    <3> QED BY <3>1, <2>s DEF LateInv, Waiting
  <2>2. CASE Empty(i)
    <3>1. reader[i] = "empty" /\ UNCHANGED << queue, fresh >>
      BY <2>2 DEF Empty, wire
    <3> QED BY <3>1, <2>s DEF LateInv, Waiting
  <2>3. CASE Poll(i)
    <3>1. reader[i] = "poll" /\ fsm' = fsm
      BY <2>3, <1>8 DEF Poll
    <3>2. fsm' # "Destroyed"
      BY <3>1, <2>s DEF FileInv
    <3>3. queue = << >> /\ queue' = << >>
      BY <2>3, <3>2, <2>n, <1>8, <1>r DEF Poll, Goto
    <3> QED BY <3>3 DEF Waiting
  <2>4. CASE Begin(i)
    <3>1. reader'[i] = "head" /\ Handles("start") /\ fsm' = "Running"
      <4>1. Handles("start") => fsm' = "Running"
        BY <2>4, <1>r, Events DEF Begin
      <4> QED BY <2>4, <4>1, <2>n, <1>r DEF Begin, Goto
    <3> QED BY <3>1, <2>n
  <2>5. CASE Save(i)
    <3>1. reader[i] = "save" /\ fsm' = fsm /\ reader'[i] = "head"
      BY <2>5, <1>r DEF Save, Goto
    <3> QED BY <3>1, <2>s, <2>n DEF FileInv
  <2>6. CASE Connect(i) \/ Inner(i) \/ Recv(i) \/ Leave(i)
    BY <2>6, <2>n, <1>8, <1>r DEF Connect, Inner, Recv, Leave, Goto
  <2> QED
    BY <1>8, <2>1, <2>2, <2>3, <2>4, <2>5, <2>6 DEF ReaderStep
<1> QED
  BY <1>0, <1>1, <1>2, <1>3, <1>4, <1>5, <1>6, <1>7, <1>8 DEF Next, Client, Server

\* Stopping drains: a disconnect discards only what was begun after the reader
\* had last looked, unless ctrl-C came.
THEOREM LossOnlyLate == Spec => LossIsLate
<1>1. Init => LateInv
  BY DEF Init, LateInv
<1>2. SInv /\ LateInv /\ [Next]_vars =>
          [Careful /\ alive' /\ ~sig => lost' \ lost \subseteq fresh]_vars
  <2> SUFFICES ASSUME SInv, LateInv, Next, Careful, alive', ~sig
               PROVE  lost' \ lost \subseteq fresh
    OBVIOUS
  <2>1. CASE \E i \in Reader : Leave(i)
    <3>1. PICK i \in Reader : Leave(i)
      BY <2>1
    <3>2. reader[i] = "leave" /\ lost' = lost \cup Waiting
      BY <3>1, WaitingShrinks DEF Leave, SInv
    <3> QED BY <3>2 DEF LateInv
  <2>2. CASE ~\E i \in Reader : Leave(i)
    <3>1. lost' = lost
      BY <2>2 DEF Next, Client, Server, ReaderStep, Configure, ReceiveConfig, Start, Stop,
         Joined, interrupt_handler, Destroy, Exit, Dies, Push, ServerDies, Connect, Uncaught,
         Begin, Loop, Poll, Empty, Inner, Recv, Save, wire
    <3> QED BY <3>1
  <2> QED BY <2>1, <2>2
<1> QED
  BY <1>1, <1>2, LateStep, FileInvAlways, PTL DEF Spec, LossIsLate
=============================================================================
