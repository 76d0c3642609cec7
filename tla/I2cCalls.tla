------------------------------- MODULE I2cCalls -------------------------------
(***************************************************************************)
(* What the I2C server promises clients whose dialogues nobody comes       *)
(* between: a call is carried out once, at one moment, before it returns,  *)
(* and one that its client gave up at most once.  Nothing else changes the *)
(* board.                                                                  *)
(***************************************************************************)
CONSTANTS
    Client,
    Cfg,        \* register maps
    Default,    \* the default map
    Empty       \* no configuration at all

VARIABLES
    board,      \* the configuration the board was last given
    job,        \* the call of each client
    waiting,    \* the clients whose call has not returned
    pending,    \* those whose call is still to be carried out
    gone        \* those that gave up

vars == << board, job, waiting, pending, gone >>

Job == [op : {"configure", "read", "initialize", "compare"}, cfg : Cfg \cup {Empty}]

\* The board after a call.
After(call) ==
    CASE call.op = "initialize" -> Default
      [] call.op = "configure"  -> IF call.cfg = Empty THEN Default ELSE call.cfg
      [] OTHER                  -> board

Init ==
    /\ board = Default
    /\ job \in [Client -> Job]
    /\ waiting = {} /\ pending = {} /\ gone = {}

Begin(c, call) ==
    /\ c \notin waiting \cup pending \cup gone
    /\ job' = [job EXCEPT ![c] = call]
    /\ waiting' = waiting \cup {c} /\ pending' = pending \cup {c}
    /\ UNCHANGED << board, gone >>

CarryOut(c) ==
    /\ c \in pending
    /\ pending' = pending \ {c} /\ board' = After(job[c])
    /\ UNCHANGED << job, waiting, gone >>

Return(c) ==
    /\ c \in waiting \ pending
    /\ waiting' = waiting \ {c}
    /\ UNCHANGED << board, job, pending, gone >>

GiveUp(c) ==
    /\ c \in waiting
    /\ waiting' = waiting \ {c} /\ gone' = gone \cup {c}
    /\ pending' \in {pending, pending \ {c}}
    /\ UNCHANGED << board, job >>

Next ==
    \E c \in Client :
        \/ \E call \in Job : Begin(c, call)
        \/ CarryOut(c) \/ Return(c) \/ GiveUp(c)

Spec == Init /\ [][Next]_vars
=============================================================================
