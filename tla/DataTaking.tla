------------------------------ MODULE DataTaking ------------------------------
(***************************************************************************)
(* What the data puller promises a client that configures it, starts it    *)
(* and stops it: scans are stored only while a session is open, each of    *)
(* them later than all that are stored already.                            *)
(***************************************************************************)
EXTENDS Naturals

CONSTANT Run    \* the scans, numbered in the order they are taken

VARIABLES
    open,       \* between the answer to start and the answer to stop
    stored      \* the scans stored so far

vars == << open, stored >>

Init == open = FALSE /\ stored = {}

Open == ~open /\ open' = TRUE /\ UNCHANGED stored

Store(r) ==
    /\ open
    /\ \A s \in stored : s < r
    /\ stored' = stored \cup {r}
    /\ UNCHANGED open

Close == open /\ open' = FALSE /\ UNCHANGED stored

Next == Open \/ Close \/ \E r \in Run : Store(r)

Spec == Init /\ [][Next]_vars
=============================================================================
