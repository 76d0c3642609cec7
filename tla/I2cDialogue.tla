------------------------------ MODULE I2cDialogue ------------------------------
(***************************************************************************)
(* The dialogue between the I2C server (zmq_server.py, a REP socket) and   *)
(* its clients (i2cController, a REQ socket each).                         *)
(*                                                                         *)
(* "configure" and "read" are dialogues of two requests: the command, which *)
(* is answered "ready", and the configuration.  The server takes any        *)
(* client's next request for the second one, and it has no answer for a     *)
(* request it does not know, which a REP socket does not forgive.           *)
(*                                                                         *)
(* What a configuration does to the registers is EconInterface; here the    *)
(* board is the configuration it was last given.                            *)
(***************************************************************************)
EXTENDS Integers

CONSTANTS
    Client,     \* programs with a socket to the server
    Cfg,        \* register maps under 'ECON-T'
    Default,    \* the default map
    Empty,      \* the text of no configuration at all: "" or "null"
    None,       \* no request, no configuration
    MaxCalls    \* bound: calls of one client

ASSUME CallsAssumption == MaxCalls \in Nat

VARIABLES
    pc,         \* of a client: "free", "command" or "payload" (waiting), "gone"
    job,        \* its call
    calls,      \* how many calls it has made
    request,    \* its request on the way to the server
    reply,      \* the reply on its way back
    at,         \* what the server waits for: "command", "payload"; or "dead"
    serving,    \* the command of the dialogue under way
    board,      \* the configuration the board was last given
    mixed,      \* history: have dialogues met, or has one been given up?
    effect      \* history: the clients whose call was carried out as it was meant

client  == << pc, job, calls >>
server  == << at, serving, board >>
history == << mixed, effect >>
vars    == << client, request, reply, server, history >>

TwoPart == {"configure", "read"}
Op      == TwoPart \cup {"initialize", "compare"}
Waiting == {"command", "payload"}

Job     == [op : Op, cfg : Cfg \cup {Empty}]
Command(op)  == [op |-> op, cfg |-> None]
Payload(cfg) == [op |-> None, cfg |-> cfg]
Message == {Command(op) : op \in Op} \cup {Payload(cfg) : cfg \in Cfg \cup {Empty}}

ASSUME NoneAssumption == None \notin Op /\ None \notin Message

NoReply  == "none"
Answers  == {"ready", "configured", "not configured", "values", "keys"}

-----------------------------------------------------------------------------
(***************************************************************************)
(* The client                                                              *)
(***************************************************************************)

\* A call that the server has not seen the end of, of a client that waits or of
\* one that is gone with its request still in the queue.
Open(d) == pc[d] \in Waiting \/ request[d] # None

Call(c, op, cfg) ==
    /\ pc[c] = "free" /\ calls[c] < MaxCalls
    /\ op \notin TwoPart => cfg = Empty
    /\ pc' = [pc EXCEPT ![c] = "command"]
    /\ job' = [job EXCEPT ![c] = [op |-> op, cfg |-> cfg]]
    /\ calls' = [calls EXCEPT ![c] = @ + 1]
    /\ request' = [request EXCEPT ![c] = Command(op)]
    /\ effect' = effect \ {c}
    /\ mixed' = (mixed \/ \E d \in Client \ {c} :
                              Open(d) /\ (op \in TwoPart \/ job[d].op \in TwoPart))
    /\ UNCHANGED << reply, server >>

Return(c) == pc' = [pc EXCEPT ![c] = "free"] /\ request' = request

SendPayload(c) ==
    /\ pc' = [pc EXCEPT ![c] = "payload"]
    /\ request' = [request EXCEPT ![c] = Payload(job[c].cfg)]

\* Mutation: the test of the reply is the wrong way round.
MutantReceive(c) ==
    /\ pc[c] \in Waiting /\ reply[c] # NoReply
    /\ reply' = [reply EXCEPT ![c] = NoReply]
    /\ IF pc[c] = "command" /\ ( \/ job[c].op = "read"
                                 \/ job[c].op = "configure" /\ reply[c] # "ready" )
       THEN SendPayload(c)
       ELSE Return(c)
    /\ UNCHANGED << job, calls, server, history >>

\* configure goes on if it hears "ready" and otherwise returns without a word;
\* read goes on whatever it hears.  Every other reply is the end of the call.
Receive(c) ==
    /\ pc[c] \in Waiting /\ reply[c] # NoReply
    /\ reply' = [reply EXCEPT ![c] = NoReply]
    /\ IF pc[c] = "command" /\ ( \/ job[c].op = "read"
                                 \/ job[c].op = "configure" /\ reply[c] = "ready" )
       THEN SendPayload(c)
       ELSE Return(c)
    /\ UNCHANGED << job, calls, server, history >>

\* Mutation: no timeout, as after zmqController.reset.
MutantForever(c) == FALSE /\ UNCHANGED vars

\* RCVTIMEO: the exception ends the program.  Its last request may or may not
\* reach the server still.
Timeout(c) ==
    /\ pc[c] \in Waiting /\ reply[c] = NoReply
    /\ pc' = [pc EXCEPT ![c] = "gone"]
    /\ \/ request' = request
       \/ request' = [request EXCEPT ![c] = None]
    /\ mixed' = (mixed \/ job[c].op \in TwoPart)
    /\ UNCHANGED << job, calls, reply, server, effect >>

-----------------------------------------------------------------------------
(***************************************************************************)
(* The server                                                              *)
(***************************************************************************)

\* The reply goes to the client whose request was taken, if it is still there.
Answer(c, text) ==
    reply' = [reply EXCEPT ![c] = IF pc[c] \in Waiting THEN text ELSE NoReply]

Done(c, asMeant) == effect' = IF asMeant THEN effect \cup {c} ELSE effect \ {c}

ServeCommand(c, m) ==
    \/ /\ m.op = "initialize"
       /\ board' = Default
       /\ Answer(c, "ready") /\ Done(c, job[c].op = "initialize")
       /\ UNCHANGED << at, serving >>
    \/ /\ m.op = "compare"
       /\ Answer(c, "keys") /\ Done(c, job[c].op = "compare")
       /\ UNCHANGED server
    \/ /\ m.op \in TwoPart
       /\ at' = "payload" /\ serving' = m.op
       /\ Answer(c, "ready")
       /\ UNCHANGED << board, effect >>
    \/ /\ m.op = None                       \* no reply: the next receive raises
       /\ at' = "dead"
       /\ UNCHANGED << serving, board, reply, effect >>

\* Whatever comes is the configuration.  A command is taken for the name of a
\* file that does not exist; no configuration is the default map for configure
\* and the write cache for read.
ServePayload(c, m) ==
    /\ at' = "command"
    /\ \/ /\ serving = "read"
          /\ Answer(c, "values") /\ UNCHANGED board
       \/ /\ serving = "configure" /\ m.op # None
          /\ Answer(c, "not configured") /\ UNCHANGED board
       \/ /\ serving = "configure" /\ m.op = None
          /\ board' = IF m.cfg = Empty THEN Default ELSE m.cfg
          /\ Answer(c, "configured")
    /\ Done(c, job[c].op = serving /\ m = Payload(job[c].cfg))
    /\ UNCHANGED serving

Serve(c) ==
    /\ request[c] # None
    /\ \/ at = "command" /\ ServeCommand(c, request[c])
       \/ at = "payload" /\ ServePayload(c, request[c])
    /\ request' = [request EXCEPT ![c] = None]
    /\ UNCHANGED << client, mixed >>

-----------------------------------------------------------------------------
Init ==
    /\ pc = [c \in Client |-> "free"]
    /\ job = [c \in Client |-> [op |-> "compare", cfg |-> Empty]]
    /\ calls = [c \in Client |-> 0]
    /\ request = [c \in Client |-> None]
    /\ reply = [c \in Client |-> NoReply]
    /\ at = "command" /\ serving = "read" /\ board = Default
    /\ mixed = FALSE
    /\ effect = {}

Next ==
    \E c \in Client :
        \/ \E op \in Op, cfg \in Cfg \cup {Empty} : Call(c, op, cfg)
        \/ Receive(c)
        \/ Timeout(c)
        \/ Serve(c)

\* Replies are read and timeouts expire.
Spec == Init /\ [][Next]_vars /\ \A c \in Client : WF_vars(Receive(c)) /\ WF_vars(Timeout(c))

-----------------------------------------------------------------------------
\* The type of every variable.
TypeOK ==
    /\ pc \in [Client -> Waiting \cup {"free", "gone"}]
    /\ job \in [Client -> Job]
    /\ calls \in [Client -> 0..MaxCalls]
    /\ request \in [Client -> Message \cup {None}]
    /\ reply \in [Client -> Answers \cup {NoReply}]
    /\ at \in {"command", "payload", "dead"}
    /\ serving \in TwoPart
    /\ board \in Cfg \cup {Default}
    /\ mixed \in BOOLEAN
    /\ effect \in SUBSET Client

\* The server outlives every request unless a dialogue of two requests met
\* another call or was given up; calls of one request may overlap and be given
\* up at will.  And only for a client in the middle of its own dialogue does it
\* take the next request for a configuration.
ServerInStep ==
    ~mixed =>
        /\ at # "dead"
        /\ at = "payload" => \E c \in Client : pc[c] \in Waiting /\ job[c].op = serving

\* With the same exceptions the dialogues implement I2cCalls: a call is carried out
\* as it was meant, once, at one moment, and before it comes back; one that was given
\* up, while its request is on the way, at most once.  Nothing but a call that is
\* still to be carried out changes the board (zmq_server.py:34-59).
Calls ==
    INSTANCE I2cCalls WITH
        waiting <- {c \in Client : pc[c] \in Waiting},
        gone    <- {c \in Client : pc[c] = "gone"},
        pending <- {c \in Client : pc[c] \in Waiting /\ c \notin effect}
                       \cup {c \in Client : pc[c] = "gone" /\ request[c] # None}

CallsAreAtomic == [][~mixed' => Calls!Next \/ UNCHANGED Calls!vars]_vars

\* A REQ socket waits for one thing: its request to be served or its reply to
\* be read, never both, and a free or gone client is owed no reply.
Lockstep ==
    \A c \in Client :
        /\ request[c] = None \/ reply[c] = NoReply
        /\ pc[c] = "free" => request[c] = None
        /\ pc[c] \notin Waiting => reply[c] = NoReply

\* Every call ends, with the server dead or alive.
CallsEnd == \A c \in Client : pc[c] \in Waiting ~> pc[c] \notin Waiting
=============================================================================
