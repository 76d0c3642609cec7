-------------------------- MODULE I2cDialogue_proofs --------------------------
(***************************************************************************)
(* Proofs about I2cDialogue, for any number of clients and calls: the      *)
(* server stays in step with them, and they implement I2cCalls, until a    *)
(* dialogue of two requests is met by another call or given up.            *)
(***************************************************************************)
EXTENDS I2cDialogue, TLAPS

\* What the server answered "ready" to and the client has not gone on with.
HeardReady(c) == pc[c] = "command" /\ request[c] = None /\ reply[c] = "ready"

\* The client has sent the configuration.
Talks(c) == pc[c] = "payload" /\ request[c] = Payload(job[c].cfg)

\* A dialogue of two requests is alone.
Alone ==
    \A c, d \in Client :
        c # d /\ Open(c) /\ Open(d) => job[c].op \notin TwoPart /\ job[d].op \notin TwoPart

\* Where a client of a dialogue of two requests, and one of a call of one
\* request, can be.
TwoPartClient(c) ==
    \/ pc[c] = "command" /\ request[c] = Command(job[c].op) /\ at = "command"
    \/ HeardReady(c) /\ at = "payload" /\ serving = job[c].op
    \/ Talks(c) /\ at = "payload" /\ serving = job[c].op
    \/ pc[c] = "payload" /\ request[c] = None /\ c \in effect

OnePartClient(c) ==
    \/ pc[c] = "command" /\ (request[c] = None => c \in effect)
    \/ pc[c] = "gone"

OpenClient(c) ==
    /\ job[c].op \in TwoPart => TwoPartClient(c)
    /\ job[c].op \notin TwoPart =>
          OnePartClient(c) /\ request[c] \in {None, Command(job[c].op)}

InStep ==
    /\ at # "dead"
    /\ Alone
    /\ \A c \in Client : Open(c) => OpenClient(c)
    /\ at = "payload" => \E c \in Client : (HeardReady(c) \/ Talks(c)) /\ job[c].op = serving

IInv == ~mixed => InStep

-----------------------------------------------------------------------------
BoolOK == mixed \in BOOLEAN

ClientOK ==
    /\ pc \in [Client -> Waiting \cup {"free", "gone"}]
    /\ job \in [Client -> Job]
    /\ calls \in [Client -> 0..MaxCalls]

WireOK ==
    /\ request \in [Client -> Message \cup {None}]
    /\ reply \in [Client -> Answers \cup {NoReply}]

ServerOK ==
    /\ at \in {"command", "payload", "dead"}
    /\ serving \in TwoPart
    /\ board \in Cfg \cup {Default}
    /\ effect \in SUBSET Client

LEMMA Parts == TypeOK <=> BoolOK /\ ClientOK /\ WireOK /\ ServerOK
<1> QED
  BY DEF TypeOK, BoolOK, ClientOK, WireOK, ServerOK

LEMMA Messages ==
    /\ \A op \in Op : Command(op) \in Message /\ Command(op) # None
    /\ \A cfg \in Cfg \cup {Empty} : Payload(cfg) \in Message /\ Payload(cfg) # None
<1> QED
  BY NoneAssumption DEF Message

-----------------------------------------------------------------------------
LEMMA InitTypeOK == Init => TypeOK
<1> SUFFICES ASSUME Init PROVE TypeOK
  OBVIOUS
<1>1. BoolOK
  BY DEF Init, BoolOK
<1>2. ClientOK
  BY CallsAssumption DEF Init, ClientOK, Job, Op
<1>3. WireOK /\ ServerOK
  BY DEF Init, WireOK, ServerOK, TwoPart
<1> QED
  BY <1>1, <1>2, <1>3, Parts

LEMMA NextTypeOK == TypeOK /\ [Next]_vars => TypeOK'
<1> SUFFICES ASSUME TypeOK, [Next]_vars PROVE TypeOK'
  OBVIOUS
<1>p. TypeOK' <=> BoolOK' /\ ClientOK' /\ WireOK' /\ ServerOK'
  BY DEF TypeOK, BoolOK, ClientOK, WireOK, ServerOK
<1>t. BoolOK /\ ClientOK /\ WireOK /\ ServerOK
  BY Parts
<1> USE DEF client, server, history
<1>1. ASSUME NEW c \in Client, NEW op \in Op, NEW cfg \in Cfg \cup {Empty}, Call(c, op, cfg)
      PROVE  TypeOK'
  <2>1. BoolOK'
    BY <1>1, Zenon DEF Call, BoolOK
  <2>2. ClientOK'
    BY <1>1, <1>t, CallsAssumption DEF Call, ClientOK, Job, Waiting
  <2>3. WireOK'
    BY <1>1, <1>t, Messages DEF Call, WireOK
  <2>4. ServerOK'
    BY <1>1, <1>t DEF Call, ServerOK
  <2> QED
    BY <2>1, <2>2, <2>3, <2>4, <1>p
<1>2. ASSUME NEW c \in Client, Receive(c) PROVE TypeOK'
  <2>1. BoolOK'
    BY <1>2, <1>t, Zenon DEF Receive, BoolOK
  <2>2. ClientOK'
    BY <1>2, <1>t DEF Receive, Return, SendPayload, ClientOK, Waiting
  <2>3. WireOK'
    <3>1. job[c].cfg \in Cfg \cup {Empty}
      BY <1>t DEF ClientOK, Job
    <3> QED
      BY <3>1, <1>2, <1>t, Messages DEF Receive, Return, SendPayload, WireOK
  <2>4. ServerOK'
    BY <1>2, <1>t DEF Receive, ServerOK
  <2> QED
    BY <2>1, <2>2, <2>3, <2>4, <1>p
<1>3. ASSUME NEW c \in Client, Timeout(c) PROVE TypeOK'
  <2>1. BoolOK'
    BY <1>3, Zenon DEF Timeout, BoolOK
  <2>2. ClientOK' /\ WireOK' /\ ServerOK'
    BY <1>3, <1>t DEF Timeout, ClientOK, WireOK, ServerOK
  <2> QED
    BY <2>1, <2>2, <1>p
<1>4. ASSUME NEW c \in Client, Serve(c) PROVE TypeOK'
  <2>1. BoolOK'
    BY <1>4, <1>t, Zenon DEF Serve, BoolOK
  <2>2. ClientOK'
    BY <1>4, <1>t DEF Serve, ClientOK
  <2>3. request[c] \in Message
    BY <1>4, <1>t DEF Serve, WireOK
  <2>4. WireOK'
    BY <1>4, <1>t DEF Serve, ServeCommand, ServePayload, Answer, Done, WireOK, Answers
  <2>5. ServerOK'
    <3>1. CASE ServeCommand(c, request[c])
      BY <1>4, <1>t, <3>1, NoneAssumption DEF ServeCommand, Done, ServerOK
    <3>2. CASE ServePayload(c, request[c])
      <4>1. board' \in Cfg \cup {Default}
        <5>1. request[c].op = None => request[c].cfg \in Cfg \cup {Empty}
          BY <2>3, NoneAssumption DEF Message, Command, Payload
        <5> QED
          BY <1>t, <3>2, <5>1 DEF ServePayload, ServerOK
      <4> QED
        BY <1>t, <3>2, <4>1 DEF ServePayload, Done, ServerOK
    <3> QED
      BY <1>4, <3>1, <3>2 DEF Serve
  <2> QED
    BY <2>1, <2>2, <2>4, <2>5, <1>p
<1>5. CASE UNCHANGED vars
  BY <1>5 DEF vars, TypeOK
<1> QED
  BY <1>1, <1>2, <1>3, <1>4, <1>5 DEF Next

-----------------------------------------------------------------------------
LEMMA InitLockstep == Init => Lockstep
<1> QED
  BY DEF Init, Lockstep, Waiting

LEMMA NextLockstep == TypeOK /\ Lockstep /\ [Next]_vars => Lockstep'
<1> SUFFICES ASSUME TypeOK, Lockstep, [Next]_vars PROVE Lockstep'
  OBVIOUS
<1>t. ClientOK /\ WireOK
  BY Parts
<1> USE DEF Lockstep, Waiting, client, ClientOK, WireOK
<1>1. ASSUME NEW c \in Client, NEW op \in Op, NEW cfg \in Cfg \cup {Empty}, Call(c, op, cfg)
      PROVE  Lockstep'
  BY <1>1, <1>t DEF Call
<1>2. ASSUME NEW c \in Client, Receive(c) PROVE Lockstep'
  BY <1>2, <1>t DEF Receive, Return, SendPayload
<1>3. ASSUME NEW c \in Client, Timeout(c) PROVE Lockstep'
  BY <1>3, <1>t DEF Timeout
<1>4. ASSUME NEW c \in Client, Serve(c) PROVE Lockstep'
  BY <1>4, <1>t DEF Serve, ServeCommand, ServePayload, Answer
<1>5. CASE UNCHANGED vars
  BY <1>5 DEF vars
<1> QED
  BY <1>1, <1>2, <1>3, <1>4, <1>5 DEF Next

-----------------------------------------------------------------------------
LEMMA InitInv == Init => IInv
<1> QED
  BY DEF Init, IInv, InStep, Alone, Open, Waiting, HeardReady, Talks

\* A client without an open call does not appear in the invariant, and one whose
\* own state is unchanged keeps its place as long as the server does.
LEMMA NextInv == TypeOK /\ Lockstep /\ IInv /\ [Next]_vars => IInv'
<1> SUFFICES ASSUME TypeOK, Lockstep, IInv, [Next]_vars, ~mixed' PROVE InStep'
  BY DEF IInv
<1>t. ClientOK /\ WireOK /\ ServerOK
  BY Parts
<1>o. Op = {"configure", "read", "initialize", "compare"}
  BY DEF Op, TwoPart
<1> USE DEF client, server, history
<1>1. ASSUME NEW c \in Client, NEW op \in Op, NEW cfg \in Cfg \cup {Empty}, Call(c, op, cfg)
      PROVE  InStep'
  <2>1. InStep
    BY <1>1 DEF Call, IInv
  <2>2. /\ pc' = [pc EXCEPT ![c] = "command"]
        /\ job' = [job EXCEPT ![c] = [op |-> op, cfg |-> cfg]]
        /\ request' = [request EXCEPT ![c] = Command(op)]
        /\ effect' = effect \ {c}
        /\ UNCHANGED << reply, at, serving >>
    BY <1>1 DEF Call
  <2>3. \A d \in Client \ {c} : Open(d) => op \notin TwoPart /\ job[d].op \notin TwoPart
    BY <1>1 DEF Call
  <2>4. ~Open(c)
    BY <1>1, <2>1 DEF Call, InStep, OpenClient, TwoPartClient, OnePartClient, HeardReady, Talks
  <2>5. /\ pc'[c] = "command" /\ job'[c].op = op /\ request'[c] = Command(op)
        /\ \A d \in Client \ {c} : /\ pc'[d] = pc[d] /\ job'[d] = job[d]
                                  /\ request'[d] = request[d] /\ reply'[d] = reply[d]
                                  /\ d \in effect' <=> d \in effect
    BY <2>2, <1>t DEF ClientOK, WireOK
  <2>0. ASSUME NEW d \in Client \ {c}, Open(d)' PROVE Open(d) /\ job'[d].op = job[d].op
    <3>1. pc'[d] = pc[d] /\ request'[d] = request[d] /\ job'[d] = job[d]
      BY <2>2, <1>t DEF ClientOK, WireOK
    <3> QED
      BY <2>0, <3>1 DEF Open
  <2>6. at = "payload" => op \notin TwoPart
    <3>1. SUFFICES ASSUME at = "payload" PROVE op \notin TwoPart
      OBVIOUS
    <3>2. PICK e \in Client : (HeardReady(e) \/ Talks(e)) /\ job[e].op = serving
      BY <2>1, <3>1 DEF InStep
    <3>3. Open(e)
      BY <3>2 DEF Open, HeardReady, Talks, Waiting
    <3> QED
      BY <2>3, <2>4, <3>3
  <2>7. at' \in {"command", "payload"} /\ (at' = "payload" => op \notin TwoPart)
    BY <2>1, <2>2, <2>6, <1>t DEF InStep, ServerOK
  <2>8. Alone'
    <3>1. \A d \in Client \ {c} : Open(d)' => Open(d) /\ job'[d].op = job[d].op
      BY <2>0
    <3>2. Alone
      BY <2>1 DEF InStep
    <3>3. SUFFICES ASSUME NEW d \in Client, NEW e \in Client, d # e, Open(d)', Open(e)'
                   PROVE  job'[d].op \notin TwoPart /\ job'[e].op \notin TwoPart
      BY Zenon DEF Alone
    <3>4. CASE d = c
      <4>1. e \in Client \ {c} /\ Open(e) /\ job'[e].op = job[e].op
        BY <3>1, <3>3, <3>4
      <4> QED
        BY <4>1, <2>3, <2>5, <3>4
    <3>5. CASE e = c
      <4>1. d \in Client \ {c} /\ Open(d) /\ job'[d].op = job[d].op
        BY <3>1, <3>3, <3>5
      <4> QED
        BY <4>1, <2>3, <2>5, <3>5
    <3>6. CASE d # c /\ e # c
      <4>1. Open(d) /\ job'[d].op = job[d].op /\ Open(e) /\ job'[e].op = job[e].op
        BY <3>1, <3>3, <3>6
      <4> QED
        BY <4>1, <3>2, <3>3 DEF Alone
    <3> QED
      BY <3>4, <3>5, <3>6
  <2>9. ASSUME NEW d \in Client, Open(d)' PROVE OpenClient(d)'
    <3>1. CASE d = c
      <4>1. Command(op) # None
        BY Messages
      <4> QED
        BY <3>1, <4>1, <2>5, <2>7 DEF OpenClient, TwoPartClient, OnePartClient
    <3>2. CASE d # c
      <4>1. Open(d)
        BY <2>0, <2>9, <3>2
      <4>2. OpenClient(d)
        BY <2>1, <4>1 DEF InStep
      <4> QED
        BY <4>2, <2>2, <2>5, <3>2
           DEF OpenClient, TwoPartClient, OnePartClient, HeardReady, Talks
    <3> QED
      BY <3>1, <3>2
  <2>10. ASSUME at' = "payload"
         PROVE  \E e \in Client : (HeardReady(e)' \/ Talks(e)') /\ job'[e].op = serving'
    <3>1. PICK e \in Client : (HeardReady(e) \/ Talks(e)) /\ job[e].op = serving
      BY <2>1, <2>2, <2>10 DEF InStep
    <3>2. e # c
      BY <2>4, <3>1 DEF Open, HeardReady, Talks, Waiting
    <3> QED
      BY <3>1, <3>2, <2>2, <2>5 DEF HeardReady, Talks
  <2> QED
    BY <2>7, <2>8, <2>9, <2>10 DEF InStep
<1>2. ASSUME NEW c \in Client, Receive(c) PROVE InStep'
  <2>1. InStep
    BY <1>2 DEF Receive, IInv
  <2>2. /\ pc[c] \in Waiting /\ reply[c] # NoReply
        /\ reply' = [reply EXCEPT ![c] = NoReply]
        /\ UNCHANGED << job, at, serving, effect >>
    BY <1>2 DEF Receive
  <2>3. request[c] = None /\ OpenClient(c) /\ Command(job[c].op) # None /\ Payload(job[c].cfg) # None
    BY <2>1, <2>2, <1>t, Messages DEF InStep, Open, Lockstep, ClientOK, Job
  <2>4. \A d \in Client \ {c} : /\ pc'[d] = pc[d] /\ request'[d] = request[d]
                               /\ reply'[d] = reply[d] /\ job'[d] = job[d]
    BY <1>2, <2>2, <1>t DEF Receive, Return, SendPayload, ClientOK, WireOK
  <2>5. Talks(c)' \/ ~Open(c)'
    BY <1>2, <2>3, <1>t DEF Receive, Return, SendPayload, ClientOK, WireOK, Talks, Open, Waiting
  <2>6. HeardReady(c) /\ job[c].op \in TwoPart => Talks(c)'
    BY <1>2, <1>t DEF Receive, SendPayload, ClientOK, WireOK, HeardReady, Talks, TwoPart
  <2>7. Talks(c)' => HeardReady(c) /\ job[c].op \in TwoPart /\ at = "payload" /\ serving = job[c].op
    <3> SUFFICES ASSUME Talks(c)'
                 PROVE  HeardReady(c) /\ job[c].op \in TwoPart /\ at = "payload" /\ serving = job[c].op
      OBVIOUS
    <3>1. pc[c] = "command" /\ job[c].op \in TwoPart
      BY <1>2, <2>2, <2>3, <1>t
         DEF Receive, Return, SendPayload, ClientOK, WireOK, Talks, TwoPart, Waiting
    <3>2. TwoPartClient(c)
      BY <2>3, <3>1 DEF OpenClient
    <3> QED
      BY <2>3, <3>1, <3>2 DEF TwoPartClient, Talks, HeardReady
  <2>8. \A d \in Client : Open(d)' => Open(d)
    <3>1. Open(c)
      BY <2>2 DEF Open
    <3> QED
      BY <3>1, <2>4 DEF Open
  <2>9. Alone'
    BY <2>1, <2>2, <2>8 DEF InStep, Alone
  <2>10. ASSUME NEW d \in Client, Open(d)' PROVE OpenClient(d)'
    <3>1. CASE d = c
      <4>1. Talks(c)'
        BY <2>5, <2>10, <3>1
      <4> QED
        BY <4>1, <2>7, <2>2, <3>1 DEF OpenClient, TwoPartClient
    <3>2. CASE d # c
      <4>1. OpenClient(d)
        BY <2>1, <2>8, <2>10 DEF InStep
      <4> QED
        BY <4>1, <2>2, <2>4, <3>2
           DEF OpenClient, TwoPartClient, OnePartClient, HeardReady, Talks
    <3> QED
      BY <3>1, <3>2
  <2>11. ASSUME at' = "payload"
         PROVE  \E e \in Client : (HeardReady(e)' \/ Talks(e)') /\ job'[e].op = serving'
    <3>1. PICK e \in Client : (HeardReady(e) \/ Talks(e)) /\ job[e].op = serving
      BY <2>1, <2>2, <2>11 DEF InStep
    <3>2. CASE e = c
      <4>1. HeardReady(c)
        BY <2>3, <3>1, <3>2 DEF Talks
      <4>2. job[c].op \in TwoPart
        BY <1>t, <3>1, <3>2 DEF ServerOK
      <4> QED
        BY <4>1, <4>2, <2>6, <3>1, <3>2, <2>2
    <3>3. CASE e # c
      BY <3>1, <3>3, <2>2, <2>4 DEF HeardReady, Talks
    <3> QED
      BY <3>2, <3>3
  <2> QED
    BY <2>1, <2>2, <2>9, <2>10, <2>11 DEF InStep
<1>3. ASSUME NEW c \in Client, Timeout(c) PROVE InStep'
  <2>1. InStep /\ job[c].op \notin TwoPart
    BY <1>3 DEF Timeout, IInv
  <2>2. /\ pc[c] \in Waiting /\ pc'[c] = "gone"
        /\ request'[c] \in {request[c], None}
        /\ UNCHANGED << job, reply, at, serving, effect >>
    BY <1>3, <1>t DEF Timeout, ClientOK, WireOK
  <2>3. \A d \in Client \ {c} : pc'[d] = pc[d] /\ request'[d] = request[d]
    BY <1>3, <1>t DEF Timeout, ClientOK, WireOK
  <2>4. \A d \in Client : Open(d)' => Open(d)
    <3>1. Open(c)
      BY <2>2 DEF Open
    <3> QED
      BY <3>1, <2>3 DEF Open
  <2>5. Alone'
    BY <2>1, <2>2, <2>4 DEF InStep, Alone
  <2>6. ASSUME NEW d \in Client, Open(d)' PROVE OpenClient(d)'
    <3>1. OpenClient(d)
      BY <2>1, <2>4, <2>6 DEF InStep
    <3>2. CASE d = c
      BY <3>1, <3>2, <2>1, <2>2 DEF OpenClient, OnePartClient
    <3>3. CASE d # c
      BY <3>1, <3>3, <2>2, <2>3
         DEF OpenClient, TwoPartClient, OnePartClient, HeardReady, Talks
    <3> QED
      BY <3>2, <3>3
  <2>7. ASSUME at' = "payload"
        PROVE  \E e \in Client : (HeardReady(e)' \/ Talks(e)') /\ job'[e].op = serving'
    <3>1. PICK e \in Client : (HeardReady(e) \/ Talks(e)) /\ job[e].op = serving
      BY <2>1, <2>2, <2>7 DEF InStep
    <3>2. e # c
      BY <3>1, <2>1, <1>t DEF ServerOK
    <3> QED
      BY <3>1, <3>2, <2>2, <2>3 DEF HeardReady, Talks
  <2> QED
    BY <2>1, <2>2, <2>5, <2>6, <2>7 DEF InStep
<1>4. ASSUME NEW c \in Client, Serve(c) PROVE InStep'
  <2>1. InStep /\ Open(c) /\ OpenClient(c) /\ request[c] # None
    BY <1>4 DEF Serve, IInv, Open, InStep
  <2>2. /\ UNCHANGED << pc, job >>
        /\ request' = [request EXCEPT ![c] = None]
        /\ request'[c] = None
        /\ \A d \in Client \ {c} : request'[d] = request[d]
    BY <1>4, <1>t DEF Serve, WireOK
  <2>3. \A d \in Client \ {c} : reply'[d] = reply[d] /\ (d \in effect' <=> d \in effect)
    BY <1>4, <1>t DEF Serve, ServeCommand, ServePayload, Answer, Done, WireOK
  <2>4. \A d \in Client : Open(d)' => Open(d)
    BY <2>2, <2>1 DEF Open
  <2>5. Alone'
    BY <2>1, <2>2, <2>4 DEF InStep, Alone
  <2>6. \A op \in Op : Command(op).op = op /\ op # None
    BY NoneAssumption DEF Command
  <2>7. job[c].op \in Op
    BY <1>t DEF ClientOK, Job
  <2>8. CASE job[c].op \in TwoPart
    <3>1. \A d \in Client \ {c} : ~Open(d) /\ ~Open(d)'
      BY <2>1, <2>4, <2>8 DEF InStep, Alone
    <3>2. TwoPartClient(c)
      BY <2>1, <2>8 DEF OpenClient
    <3>3. CASE pc[c] = "command" /\ request[c] = Command(job[c].op) /\ at = "command"
      <4>1. at' = "payload" /\ serving' = job[c].op /\ Answer(c, "ready")
        BY <1>4, <3>3, <2>6, <2>7, <2>8 DEF Serve, ServeCommand, TwoPart
      <4>2. HeardReady(c)'
        BY <4>1, <3>3, <2>2, <1>t DEF Answer, HeardReady, Waiting, WireOK
      <4> QED
        BY <4>1, <4>2, <3>1, <2>2, <2>5, <2>8 DEF InStep, OpenClient, TwoPartClient
    <3>4. CASE Talks(c) /\ at = "payload" /\ serving = job[c].op
      <4>1. at' = "command" /\ effect' = effect \cup {c}
        BY <1>4, <3>4 DEF Serve, ServePayload, Talks, Done
      <4>2. TwoPartClient(c)'
        BY <4>1, <3>4, <2>2 DEF TwoPartClient, Talks
      <4> QED
        BY <4>1, <4>2, <3>1, <2>2, <2>5, <2>8 DEF InStep, OpenClient
    <3> QED
      BY <2>1, <3>2, <3>3, <3>4 DEF TwoPartClient, HeardReady
  <2>9. CASE job[c].op \notin TwoPart
    <3>1. OnePartClient(c) /\ request[c] = Command(job[c].op)
      BY <2>1, <2>9 DEF OpenClient
    <3>2. at = "command"
      <4>1. SUFFICES ASSUME at = "payload" PROVE FALSE
        BY <2>1, <1>t DEF InStep, ServerOK
      <4>2. PICK e \in Client : (HeardReady(e) \/ Talks(e)) /\ job[e].op = serving
        BY <2>1, <4>1 DEF InStep
      <4>3. Open(e)
        BY <4>2 DEF Open, HeardReady, Talks, Waiting
      <4>4. e # c /\ job[e].op \in TwoPart
        BY <2>9, <4>2, <1>t DEF ServerOK
      <4> QED
        BY <2>1, <4>3, <4>4 DEF InStep, Alone
    <3>3. UNCHANGED << at, serving >> /\ effect' = effect \cup {c}
      BY <1>4, <3>1, <3>2, <2>6, <2>7, <2>9 DEF Serve, ServeCommand, Done
    <3>4. ASSUME NEW d \in Client, Open(d)' PROVE OpenClient(d)'
      <4>1. OpenClient(d)
        BY <2>1, <2>4, <3>4 DEF InStep
      <4>2. CASE d = c
        BY <4>2, <3>1, <3>3, <2>2, <2>9 DEF OpenClient, OnePartClient
      <4>3. CASE d # c
        BY <4>1, <4>3, <3>3, <2>2, <2>3
           DEF OpenClient, TwoPartClient, OnePartClient, HeardReady, Talks
      <4> QED
        BY <4>2, <4>3
    <3> QED
      BY <2>5, <3>2, <3>3, <3>4 DEF InStep
  <2> QED
    BY <2>8, <2>9
<1>5. CASE UNCHANGED vars
  <2>1. UNCHANGED << pc, job, request, reply, at, serving, effect, mixed >>
    BY <1>5 DEF vars
  <2> QED
    BY <2>1 DEF IInv, InStep, Alone, Open, OpenClient, TwoPartClient, OnePartClient, HeardReady, Talks
<1> QED
  BY <1>1, <1>2, <1>3, <1>4, <1>5 DEF Next

-----------------------------------------------------------------------------
(***************************************************************************)
(* The dialogues implement I2cCalls                                        *)
(***************************************************************************)

\* While its request is on the way, or it is to send its configuration, the call of a
\* client has not been carried out.
Fresh(c) == request[c] # None \/ (HeardReady(c) /\ job[c].op \in TwoPart) => c \notin effect

FreshInv == ~mixed => \A c \in Client : Fresh(c)

LEMMA InitFresh == Init => FreshInv
BY DEF Init, FreshInv, Fresh, HeardReady

\* A client that has an answer and goes on with the configuration, and one that returns.
LEMMA WhatReceived ==
    ASSUME TypeOK, Lockstep, IInv, NEW c \in Client, Receive(c), ~mixed
    PROVE  /\ request[c] = None
           /\ \/ /\ HeardReady(c) /\ job[c].op \in TwoPart
                 /\ pc' = [pc EXCEPT ![c] = "payload"]
                 /\ request' = [request EXCEPT ![c] = Payload(job[c].cfg)]
              \/ /\ c \in effect
                 /\ pc' = [pc EXCEPT ![c] = "free"] /\ request' = request
<1>t. ClientOK /\ WireOK /\ ServerOK
  BY Parts
<1>1. pc[c] \in Waiting /\ reply[c] # NoReply /\ request[c] = None /\ OpenClient(c)
  BY DEF Receive, Lockstep, IInv, InStep, Open
<1>2. Command(job[c].op) # None /\ Payload(job[c].cfg) # None
  BY <1>t, Messages DEF ClientOK, Job
<1>3. CASE SendPayload(c) /\ pc[c] = "command" /\ job[c].op \in TwoPart
  <2>1. HeardReady(c)
    BY <1>1, <1>2, <1>3 DEF OpenClient, TwoPartClient, Talks
  <2> QED
    BY <1>1, <1>3, <2>1 DEF SendPayload
<1>4. CASE Return(c) /\ ~(HeardReady(c) /\ job[c].op \in TwoPart)
  <2>1. c \in effect
    BY <1>1, <1>2, <1>4 DEF OpenClient, TwoPartClient, OnePartClient, Talks, Waiting, HeardReady
  <2> QED
    BY <1>1, <1>4, <2>1 DEF Return
<1> QED
  BY <1>3, <1>4 DEF Receive, HeardReady, TwoPart

\* What the server does for a call that is met by nobody: the first half of a
\* dialogue, or the call.
LEMMA WhatServed ==
    ASSUME TypeOK, IInv, NEW c \in Client, Serve(c), ~mixed
    PROVE  /\ UNCHANGED << pc, job >> /\ request' = [request EXCEPT ![c] = None]
           /\ \A d \in Client \ {c} : reply'[d] = reply[d] /\ (d \in effect' <=> d \in effect)
           /\ \/ job[c].op \in TwoPart /\ pc[c] = "command" /\ UNCHANGED << board, effect >>
              \/ /\ job[c].op \in TwoPart => pc[c] = "payload"
                 /\ pc[c] \in Waiting \cup {"gone"}
                 /\ board' = Calls!After(job[c]) /\ effect' = effect \cup {c}
<1>t. ClientOK /\ WireOK /\ ServerOK
  BY Parts
<1>1. InStep /\ request[c] # None /\ OpenClient(c)
  BY DEF Serve, IInv, InStep, Open
<1>2. /\ UNCHANGED << pc, job >> /\ request' = [request EXCEPT ![c] = None]
      /\ \A d \in Client \ {c} : reply'[d] = reply[d] /\ (d \in effect' <=> d \in effect)
  BY <1>t DEF Serve, ServeCommand, ServePayload, Answer, Done, WireOK, client
<1>3. \A op \in Op : Command(op).op = op /\ op # None
  BY NoneAssumption DEF Command
<1>4. job[c].op \in Op /\ Op = {"configure", "read", "initialize", "compare"}
  BY <1>t DEF ClientOK, Job, Op, TwoPart
<1>5. \A cfg : Payload(cfg).op = None /\ Payload(cfg).cfg = cfg
  BY DEF Payload
<1>6. CASE job[c].op \in TwoPart
  <2>1. TwoPartClient(c)
    BY <1>1, <1>6 DEF OpenClient
  <2>2. CASE pc[c] = "command" /\ request[c] = Command(job[c].op) /\ at = "command"
    <3>1. UNCHANGED << board, effect >>
      BY <1>3, <1>4, <1>6, <2>2 DEF Serve, ServeCommand, TwoPart
    <3> QED
      BY <1>2, <1>6, <2>2, <3>1
  <2>3. CASE Talks(c) /\ at = "payload" /\ serving = job[c].op
    <3>1. effect' = effect \cup {c}
      BY <2>3 DEF Serve, ServePayload, Talks, Done
    <3>2. board' = Calls!After(job[c])
      <4>1. CASE job[c].op = "read"
        BY <2>3, <4>1 DEF Serve, ServePayload, Calls!After
      <4>2. CASE job[c].op = "configure"
        BY <1>5, <2>3, <4>2 DEF Serve, ServePayload, Talks, Calls!After
      <4> QED
        BY <1>6, <4>1, <4>2 DEF TwoPart
    <3> QED
      BY <1>2, <2>3, <3>1, <3>2 DEF Talks, Waiting
  <2> QED
    BY <1>1, <2>1, <2>2, <2>3 DEF TwoPartClient, HeardReady
<1>7. CASE job[c].op \notin TwoPart
  <2>1. OnePartClient(c) /\ request[c] = Command(job[c].op)
    BY <1>1, <1>7 DEF OpenClient
  <2>2. at = "command"
    <3> SUFFICES ASSUME at = "payload"  PROVE FALSE
      BY <1>1, <1>t DEF InStep, ServerOK
    <3>1. PICK e \in Client : (HeardReady(e) \/ Talks(e)) /\ job[e].op = serving
      BY <1>1 DEF InStep
    <3>2. Open(e) /\ Open(c) /\ e # c /\ job[e].op \in TwoPart
      BY <1>1, <1>7, <1>t, <3>1 DEF Open, HeardReady, Talks, Waiting, ServerOK
    <3> QED
      BY <1>1, <3>2 DEF InStep, Alone
  <2>3. effect' = effect \cup {c} /\ board' = Calls!After(job[c])
    BY <1>3, <1>4, <1>7, <2>1, <2>2 DEF Serve, ServeCommand, Done, Calls!After, TwoPart, server
  <2> QED
    BY <1>2, <1>7, <2>1, <2>3 DEF OnePartClient, Waiting
<1> QED
  BY <1>6, <1>7

LEMMA NextFresh == TypeOK /\ Lockstep /\ IInv /\ FreshInv /\ [Next]_vars => FreshInv'
<1> SUFFICES ASSUME TypeOK, Lockstep, IInv, FreshInv, [Next]_vars, ~mixed', NEW d \in Client
             PROVE  Fresh(d)'
  BY DEF FreshInv
<1>t. ClientOK /\ WireOK /\ ServerOK
  BY Parts
<1>1. ASSUME NEW c \in Client, NEW op \in Op, NEW cfg \in Cfg \cup {Empty}, Call(c, op, cfg)
      PROVE  Fresh(d)'
  <2>1. Fresh(d) /\ effect' = effect \ {c}
    BY <1>1 DEF Call, FreshInv
  <2>2. d # c => /\ pc'[d] = pc[d] /\ job'[d] = job[d]
                 /\ request'[d] = request[d] /\ reply'[d] = reply[d]
    BY <1>1, <1>t DEF Call, ClientOK, WireOK
  <2> QED
    BY <2>1, <2>2 DEF Fresh, HeardReady
<1>2. ASSUME NEW c \in Client, Receive(c)  PROVE Fresh(d)'
  <2>1. Fresh(d) /\ ~mixed /\ UNCHANGED << job, effect >>
        /\ reply' = [reply EXCEPT ![c] = NoReply]
    BY <1>2 DEF Receive, FreshInv, history
  <2>2. CASE d = c
    <3>1. ~HeardReady(c)'
      BY <1>t, <2>1 DEF HeardReady, NoReply, WireOK
    <3>2. request'[c] # None => HeardReady(c) /\ job[c].op \in TwoPart
      BY <1>2, <1>t, <2>1, WhatReceived DEF WireOK
    <3> QED
      BY <2>1, <2>2, <3>1, <3>2 DEF Fresh
  <2>3. CASE d # c
    <3>1. pc'[d] = pc[d] /\ request'[d] = request[d] /\ reply'[d] = reply[d]
      BY <1>2, <1>t, <2>1, <2>3, WhatReceived DEF ClientOK, WireOK
    <3> QED
      BY <2>1, <3>1 DEF Fresh, HeardReady
  <2> QED
    BY <2>2, <2>3
<1>3. ASSUME NEW c \in Client, Timeout(c)  PROVE Fresh(d)'
  <2>1. Fresh(d) /\ UNCHANGED << job, reply, effect >> /\ pc' = [pc EXCEPT ![c] = "gone"]
    BY <1>3 DEF Timeout, FreshInv
  <2>2. request'[d] \in {request[d], None} /\ (pc'[d] = "command" => pc[d] = "command")
        /\ (d # c => request'[d] = request[d])
    BY <1>3, <1>t, <2>1 DEF Timeout, WireOK, ClientOK
  <2>3. d = c => ~HeardReady(d)'
    BY <1>t, <2>1 DEF HeardReady, ClientOK
  <2> QED
    BY <2>1, <2>2, <2>3 DEF Fresh, HeardReady
<1>4. ASSUME NEW c \in Client, Serve(c)  PROVE Fresh(d)'
  <2>1. Fresh(d) /\ Fresh(c) /\ ~mixed /\ request[c] # None
    BY <1>4 DEF Serve, FreshInv
  <2>2. CASE d = c
    <3>1. request'[c] = None
      BY <1>4, <1>t, <2>1, WhatServed DEF WireOK
    <3>2. ASSUME HeardReady(c)', job'[c].op \in TwoPart  PROVE c \notin effect'
      <4>1. pc[c] = "command" /\ job[c].op \in TwoPart
        BY <1>4, <2>1, <3>2, WhatServed DEF HeardReady
      <4>2. effect' = effect
        BY <1>4, <2>1, <4>1, WhatServed
      <4> QED
        BY <2>1, <4>2 DEF Fresh
    <3> QED
      BY <2>2, <3>1, <3>2 DEF Fresh
  <2>3. CASE d # c
    <3>1. /\ request'[d] = request[d] /\ reply'[d] = reply[d]
          /\ UNCHANGED << pc, job >> /\ (d \in effect' <=> d \in effect)
      BY <1>4, <1>t, <2>1, <2>3, WhatServed DEF WireOK
    <3> QED
      BY <2>1, <3>1 DEF Fresh, HeardReady
  <2> QED
    BY <2>2, <2>3
<1>5. CASE UNCHANGED vars
  BY <1>5 DEF vars, client, server, history, FreshInv, Fresh, HeardReady
<1> QED
  BY <1>1, <1>2, <1>3, <1>4, <1>5 DEF Next

\* The clients of the abstract specification.
Waits   == {c \in Client : pc[c] \in Waiting}
Gone    == {c \in Client : pc[c] = "gone"}
Pending ==
    {c \in Client : pc[c] \in Waiting /\ c \notin effect}
        \cup {c \in Client : pc[c] = "gone" /\ request[c] # None}

\* Every step that no other call meets is a step of I2cCalls, or none.
LEMMA AtomicStep ==
    ASSUME TypeOK, Lockstep, IInv, FreshInv, [Next]_vars, ~mixed'
    PROVE  Calls!Next \/ UNCHANGED Calls!vars
<1>t. ClientOK /\ WireOK /\ ServerOK
  BY Parts
<1>o. Op = {"configure", "read", "initialize", "compare"}
  BY DEF Op, TwoPart
<1>1. ASSUME NEW c \in Client, NEW op \in Op, NEW cfg \in Cfg \cup {Empty}, Call(c, op, cfg)
      PROVE  Calls!Next
  <2>1. /\ pc[c] = "free" /\ pc' = [pc EXCEPT ![c] = "command"]
        /\ job' = [job EXCEPT ![c] = [op |-> op, cfg |-> cfg]]
        /\ request' = [request EXCEPT ![c] = Command(op)]
        /\ effect' = effect \ {c} /\ board' = board
    BY <1>1 DEF Call, server
  <2>2. c \notin Waits /\ c \notin Gone /\ c \notin Pending
    BY <2>1 DEF Waits, Gone, Pending, Waiting
  <2>3. Waits' = Waits \cup {c} /\ Gone' = Gone
    BY <1>t, <2>1 DEF Waits, Gone, Waiting, ClientOK
  <2>4. Pending' = Pending \cup {c}
    BY <1>t, <2>1 DEF Pending, Waiting, ClientOK, WireOK
  <2>5. [op |-> op, cfg |-> cfg] \in Calls!Job
    BY <1>o DEF Calls!Job
  <2> QED
    BY <2>1, <2>2, <2>3, <2>4, <2>5 DEF Waits, Gone, Pending, Calls!Next, Calls!Begin
<1>2. ASSUME NEW c \in Client, Receive(c)  PROVE Calls!Next \/ UNCHANGED Calls!vars
  <2>1. ~mixed /\ UNCHANGED << job, board, effect >> /\ pc[c] \in Waiting
    BY <1>2 DEF Receive, history, server
  <2>2. CASE pc' = [pc EXCEPT ![c] = "payload"]
             /\ request' = [request EXCEPT ![c] = Payload(job[c].cfg)]
    <3>1. Waits' = Waits /\ Gone' = Gone
      BY <1>t, <2>1, <2>2 DEF Waits, Gone, Waiting, ClientOK
    <3>2. Pending' = Pending
      BY <1>t, <2>1, <2>2 DEF Pending, Waiting, ClientOK, WireOK
    <3> QED
      BY <2>1, <3>1, <3>2 DEF Waits, Gone, Pending, Calls!vars
  <2>3. CASE c \in effect /\ pc' = [pc EXCEPT ![c] = "free"] /\ request' = request
    <3>1. Waits' = Waits \ {c} /\ Gone' = Gone /\ Pending' = Pending /\ c \in Waits \ Pending
      BY <1>t, <2>1, <2>3 DEF Waits, Gone, Pending, Waiting, ClientOK
    <3> QED
      BY <2>1, <3>1 DEF Waits, Gone, Pending, Calls!Next, Calls!Return
  <2> QED
    BY <1>2, <2>1, <2>2, <2>3, WhatReceived
<1>3. ASSUME NEW c \in Client, Timeout(c)  PROVE Calls!Next
  <2>1. /\ ~mixed /\ pc[c] \in Waiting /\ reply[c] = NoReply
        /\ pc' = [pc EXCEPT ![c] = "gone"] /\ UNCHANGED << job, board, effect >>
        /\ job[c].op \notin TwoPart
    BY <1>3 DEF Timeout, server
  <2>2. Waits' = Waits \ {c} /\ Gone' = Gone \cup {c} /\ c \in Waits
    BY <1>t, <2>1 DEF Waits, Gone, Waiting, ClientOK
  <2>3. \A d \in Client \ {c} : pc'[d] = pc[d] /\ request'[d] = request[d]
    BY <1>3, <1>t, <2>1 DEF Timeout, ClientOK, WireOK
  <2>4. \A d \in Client \ {c} : d \in Pending' <=> d \in Pending
    BY <2>1, <2>3 DEF Pending
  <2>5. c \in Pending' => c \in Pending
    <3>1. request'[c] # None => request[c] # None
      BY <1>3, <1>t DEF Timeout, WireOK
    <3>2. request[c] # None => c \notin effect
      BY <2>1 DEF FreshInv, Fresh
    <3> QED
      BY <1>t, <2>1, <3>1, <3>2 DEF Pending, Waiting, ClientOK
  <2>6. Pending' \in {Pending, Pending \ {c}}
    <3>1. Pending \subseteq Client /\ Pending' \subseteq Client
      BY DEF Pending
    <3> QED
      BY <2>4, <2>5, <3>1
  <2> QED
    BY <2>1, <2>2, <2>6 DEF Waits, Gone, Pending, Calls!Next, Calls!GiveUp
<1>4. ASSUME NEW c \in Client, Serve(c)  PROVE Calls!Next \/ UNCHANGED Calls!vars
  <2>1. /\ ~mixed /\ request[c] # None /\ c \notin effect
        /\ UNCHANGED << pc, job >> /\ request' = [request EXCEPT ![c] = None]
        /\ \A d \in Client \ {c} : d \in effect' <=> d \in effect
    BY <1>4, WhatServed DEF Serve, FreshInv, Fresh
  <2>2. Waits' = Waits /\ Gone' = Gone
    BY <2>1 DEF Waits, Gone
  <2>3. CASE pc[c] = "command" /\ UNCHANGED << board, effect >>
    <3>1. Pending' = Pending
      BY <1>t, <2>1, <2>3 DEF Pending, Waiting, WireOK
    <3> QED
      BY <2>1, <2>2, <2>3, <3>1 DEF Waits, Gone, Pending, Calls!vars
  <2>4. CASE /\ pc[c] \in Waiting \cup {"gone"}
             /\ board' = Calls!After(job[c]) /\ effect' = effect \cup {c}
    <3>1. Pending' = Pending \ {c} /\ c \in Pending
      BY <1>t, <2>1, <2>4 DEF Pending, Waiting, WireOK
    <3> QED
      BY <2>1, <2>2, <2>4, <3>1 DEF Waits, Gone, Pending, Calls!Next, Calls!CarryOut
  <2> QED
    BY <1>4, <2>1, <2>3, <2>4, WhatServed
<1>5. CASE UNCHANGED vars
  BY <1>5 DEF vars, client, server, history, Calls!vars
<1> QED
  BY <1>1, <1>2, <1>3, <1>4, <1>5 DEF Next

-----------------------------------------------------------------------------
(***************************************************************************)
(* Theorems                                                                *)
(***************************************************************************)

\* Type correctness: every request of a client and every answer of the server
\* is one of the protocol, whatever the number of clients.
THEOREM TypeCorrect == Spec => []TypeOK
<1> QED
  BY InitTypeOK, NextTypeOK, PTL DEF Spec

\* No socket is ever owed a reply while its request is on the way, and a client
\* that is not waiting is owed none: RCVTIMEO ends the program before it could
\* send out of turn.
THEOREM SocketsInLockstep == Spec => []Lockstep
<1> QED
  BY InitTypeOK, NextTypeOK, InitLockstep, NextLockstep, PTL DEF Spec

LEMMA Invariant == Spec => [](TypeOK /\ Lockstep /\ IInv /\ FreshInv)
<1> QED
  BY InitTypeOK, NextTypeOK, InitLockstep, NextLockstep, InitInv, NextInv,
     InitFresh, NextFresh, PTL DEF Spec

\* As long as no two-part dialogue was met by another call or given up, the
\* server lives and is in the middle of a dialogue only with a client of it.
THEOREM ServerStaysInStep == Spec => []ServerInStep
<1>1. TypeOK /\ IInv => ServerInStep
  BY DEF IInv, InStep, ServerInStep, HeardReady, Talks, Waiting
<1> QED
  BY <1>1, Invariant, PTL

\* Until then every step of the dialogues is one of I2cCalls: a call is carried out
\* once, as the client meant it, before it comes back.
THEOREM CallsCarriedOut == Spec => CallsAreAtomic
<1>1. TypeOK /\ Lockstep /\ IInv /\ FreshInv /\ [Next]_vars
        => [~mixed' => Calls!Next \/ UNCHANGED Calls!vars]_vars
  BY AtomicStep
<1> QED
  BY <1>1, Invariant, PTL DEF Spec, CallsAreAtomic

\* The server and clients that never come between each other's dialogues implement
\* I2cCalls.
THEOREM DialoguesImplementCalls == Spec /\ [](~mixed) => Calls!Spec
<1>1. Init => Calls!Init
  <2> SUFFICES ASSUME Init  PROVE Calls!Init
    OBVIOUS
  <2>1. [op |-> "compare", cfg |-> Empty] \in Calls!Job
    BY DEF Calls!Job
  <2> QED
    BY <2>1 DEF Init, Calls!Init, Waiting
<1>2. TypeOK /\ Lockstep /\ IInv /\ FreshInv /\ (~mixed)' /\ [Next]_vars
        => [Calls!Next]_(Calls!vars)
  BY AtomicStep
<1> QED
  BY <1>1, <1>2, Invariant, PTL DEF Spec, Calls!Spec
=============================================================================
