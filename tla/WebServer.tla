------------------------------ MODULE WebServer ------------------------------
(***************************************************************************)
(* webserver.py: a page with a button for each of the two servers of the   *)
(* test stand.  A click starts the process or terminates it; what the      *)
(* process prints is broadcast to all the pages.                           *)
(*                                                                         *)
(* All the handlers of websockets are greenlets of one thread and give way *)
(* only where they receive or send.  Every process has a thread of its     *)
(* own that reads its output: these threads share a lock, the table of     *)
(* processes and the table of websockets with the handlers, which take no  *)
(* lock.  A process and its thread have the same number.                   *)
(***************************************************************************)
EXTENDS Integers, FiniteSets

CONSTANTS
    Name,         \* keys of cmds
    None,         \* no name
    MaxAddresses, \* bound: machines that show pages
    MaxPages,     \* bound: websockets opened
    MaxSpawns,    \* bound: processes started
    MaxLines      \* bound: lines that a process prints

ASSUME BoundsAssumption ==
    MaxAddresses \in Nat /\ MaxPages \in Nat /\ MaxSpawns \in Nat /\ MaxLines \in Nat
ASSUME NameAssumption == IsFiniteSet(Name) /\ None \notin Name

VARIABLES
    pc,         \* of the handler of a page
    address,    \* REMOTE_ADDR of a page, or 0
    closed,     \* pages whose websocket raises when it is sent to
    wsocks,     \* the page listed under an address, or 0
    procs,      \* the process listed under a name, or 0
    click,      \* the click that is being handled, or the name that is being told
    name,       \* of a process
    alive,      \* processes that run
    terminated, \* those of them that were sent SIGTERM
    at,         \* of a thread
    says,       \* the message that it broadcasts
    lines,      \* lines that it has read
    lock,       \* the thread that holds the lock, or 0
    greeted,    \* names that the greeting of a page has come to
    known,      \* size of procs when the greeting began
    visited,    \* addresses that a broadcast has come to
    size,       \* size of wsocks when the broadcast began
    shown,      \* names that a page shows as UP
    doubled,    \* history: addresses that had two pages at a time
    raced,      \* history: names started while an older thread had yet to delete them
    late,       \* history: pages told UP of a process said to be DOWN
    unquiet     \* history: has a page left, failed, or come during a broadcast?

pages     == << pc, address, closed, wsocks >>
processes == << procs, name, alive, terminated >>
threads   == << at, says, lines, lock >>
loops     == << greeted, known, visited, size >>
history   == << doubled, raced, late, unquiet >>
vars      == << pages, click, processes, threads, loops, shown, history >>

\* All three are numbered in the order in which they come.
Address == 1..MaxAddresses
Page    == 1..MaxPages
Thread  == 1..MaxSpawns
NoClick == [page |-> 0, name |-> None, step |-> "none"]

Listed   == {a \in Address : wsocks[a] # 0}
Known    == {n \in Name : procs[n] # 0}
Spawned  == {t \in Thread : name[t] # None}
Speaking == lock # 0

\* The thread of the process may still delete the name from procs.
Pending(t) == at[t] \notin {"unborn", "done", "dead"}

\* It has broadcast DOWN, or has begun to.
Down(t) == says[t] = "DOWN" /\ at[t] # "acquire"

-----------------------------------------------------------------------------
(***************************************************************************)
(* handle_socket                                                           *)
(***************************************************************************)

\* An iteration over procs: the keys passed, the size that must not change.
Iterate(p, count) ==
    /\ greeted' = [greeted EXCEPT ![p] = {}]
    /\ known' = [known EXCEPT ![p] = count]
    /\ UNCHANGED << visited, size >>

\* An exception ends the handler: its websocket is closed and remains listed.
Fail(p) ==
    /\ pc' = [pc EXCEPT ![p] = "gone"]
    /\ closed' = closed \cup {p}
    /\ unquiet' = TRUE
    /\ UNCHANGED << address, wsocks, doubled, raced, late >>

Connect(p, a) ==
    /\ click = NoClick
    /\ pc[p] = "away" /\ \A q \in Page : q < p => pc[q] # "away"
    /\ \A b \in Address : b < a => \E q \in Page : address[q] = b
    /\ pc' = [pc EXCEPT ![p] = "arrived"]
    /\ address' = [address EXCEPT ![p] = a]
    /\ wsocks' = [wsocks EXCEPT ![a] = p]
    /\ doubled' = IF \E q \in Page : address[q] = a /\ pc[q] # "gone"
                  THEN doubled \cup {a} ELSE doubled
    /\ unquiet' = (unquiet \/ Speaking)
    /\ UNCHANGED << closed, click, processes, threads, loops, shown, raced, late >>

BeginGreeting(p) ==
    /\ click = NoClick /\ pc[p] = "arrived"
    /\ pc' = [pc EXCEPT ![p] = "greeting"]
    /\ Iterate(p, Cardinality(Known))
    /\ UNCHANGED << address, closed, wsocks, click, processes, threads, shown, history >>

\* The next key is picked here and told in a step of its own: the threads of the
\* processes run in between, the other handlers do not.
GreetWith(p, n) ==
    /\ Cardinality(Known) = known[p] /\ n \in Known \ greeted[p]
    /\ greeted' = [greeted EXCEPT ![p] = @ \cup {n}]
    /\ click' = [page |-> p, name |-> n, step |-> "tell"]
    /\ UNCHANGED << pages, known, visited, size, shown, history >>

\* The loop is outside the try: an exception ends the handler.
GreetFails(p) ==
    /\ Cardinality(Known) # known[p]
    /\ Fail(p)
    /\ Iterate(p, 0)
    /\ UNCHANGED << click, shown >>

Greeted(p) ==
    /\ Cardinality(Known) = known[p] /\ Known \subseteq greeted[p]
    /\ pc' = [pc EXCEPT ![p] = "open"]
    /\ Iterate(p, 0)
    /\ UNCHANGED << address, closed, wsocks, click, shown, history >>

Greet(p) ==
    /\ click = NoClick /\ pc[p] = "greeting"
    /\ (\E n \in Name : GreetWith(p, n)) \/ GreetFails(p) \/ Greeted(p)
    /\ UNCHANGED << processes, threads >>

\* The browser goes away; the handler learns of it when it receives.
Leave(p) ==
    /\ pc[p] \in {"arrived", "greeting", "open"}
    /\ closed' = closed \cup {p}
    /\ unquiet' = TRUE
    /\ UNCHANGED << pc, address, wsocks, click, processes, threads, loops, shown,
                    doubled, raced, late >>

\* Mutant: closing one websocket empties the table.
MutantClose(p) ==
    /\ click = NoClick /\ pc[p] = "open" /\ p \in closed
    /\ pc' = [pc EXCEPT ![p] = "gone"]
    /\ wsocks' = [a \in Address |-> 0]
    /\ UNCHANGED << address, closed, click, processes, threads, loops, shown, history >>

\* pop takes whatever page is listed, and raises to no effect if there is none.
Close(p) ==
    /\ click = NoClick /\ pc[p] = "open" /\ p \in closed
    /\ pc' = [pc EXCEPT ![p] = "gone"]
    /\ wsocks' = [wsocks EXCEPT ![address[p]] = 0]
    /\ UNCHANGED << address, closed, click, processes, threads, loops, shown, history >>

Click(p, n) ==
    /\ click = NoClick /\ pc[p] = "open" /\ p \notin closed
    /\ Spawned # Thread
    /\ click' = [page |-> p, name |-> n, step |-> "look"]
    /\ UNCHANGED << pages, processes, threads, loops, shown, history >>

Proceed(from, to) ==
    /\ click.step = from
    /\ click' = IF to = "none" THEN NoClick ELSE [click EXCEPT !.step = to]

Tell ==
    /\ Proceed("tell", "none") /\ click.page \notin closed
    /\ shown' = [shown EXCEPT ![click.page] = @ \cup {click.name}]
    /\ late' = IF procs[click.name] = 0 \/ Down(procs[click.name])
               THEN late \cup {<<click.page, click.name>>} ELSE late
    /\ UNCHANGED << pages, processes, threads, loops, doubled, raced, unquiet >>

TellFails ==
    /\ Proceed("tell", "none") /\ click.page \in closed
    /\ Fail(click.page)
    /\ Iterate(click.page, 0)
    /\ UNCHANGED << processes, threads, shown >>

\* procs[msg] of a name that is not there any more, at any step that reads it.
KeyError ==
    /\ click.step \in {"poll", "terminate", "start"} /\ procs[click.name] = 0
    /\ Fail(click.page)
    /\ click' = NoClick
    /\ UNCHANGED << processes, threads, loops, shown >>

Look ==
    /\ Proceed("look", IF procs[click.name] = 0 THEN "spawn" ELSE "poll")
    /\ UNCHANGED << pages, processes, threads, loops, shown, history >>

Poll ==
    /\ Proceed("poll", IF procs[click.name] \in alive THEN "terminate" ELSE "spawn")
    /\ procs[click.name] # 0
    /\ UNCHANGED << pages, processes, threads, loops, shown, history >>

Terminate ==
    /\ Proceed("terminate", "none")
    /\ procs[click.name] # 0
    /\ terminated' = terminated \cup (alive \cap {procs[click.name]})
    /\ UNCHANGED << pages, procs, name, alive, threads, loops, shown, history >>

Spawn(t) ==
    /\ Proceed("spawn", "start")
    /\ name[t] = None /\ \A s \in Thread : s < t => name[s] # None
    /\ procs' = [procs EXCEPT ![click.name] = t]
    /\ name' = [name EXCEPT ![t] = click.name]
    /\ alive' = alive \cup {t}
    /\ raced' = IF \E s \in Thread : name[s] = click.name /\ Pending(s)
                THEN raced \cup {click.name} ELSE raced
    /\ UNCHANGED << pages, terminated, threads, loops, shown, doubled, late, unquiet >>

StartThread ==
    /\ Proceed("start", "none")
    /\ procs[click.name] # 0
    /\ at' = [at EXCEPT ![procs[click.name]] = "acquire"]
    /\ says' = [says EXCEPT ![procs[click.name]] = "UP"]
    /\ UNCHANGED << pages, processes, lines, lock, loops, shown, history >>

HandleClick ==
    \/ Tell \/ TellFails
    \/ KeyError \/ Look \/ Poll \/ Terminate \/ (\E t \in Thread : Spawn(t)) \/ StartThread

Handler(p) == BeginGreeting(p) \/ Greet(p) \/ Close(p)

-----------------------------------------------------------------------------
(***************************************************************************)
(* The processes, and run and broadcast in their threads                   *)
(***************************************************************************)

End(t) ==
    /\ t \in alive
    /\ alive' = alive \ {t} /\ terminated' = terminated \ {t}
    /\ UNCHANGED << pages, click, procs, name, threads, loops, shown, history >>

Broadcast(t, message) ==
    /\ at' = [at EXCEPT ![t] = "acquire"]
    /\ says' = [says EXCEPT ![t] = message]

ReadLine(t) ==
    /\ at[t] = "reading" /\ lines[t] < MaxLines
    /\ Broadcast(t, "DATA")
    /\ lines' = [lines EXCEPT ![t] = @ + 1]
    /\ UNCHANGED << pages, click, processes, lock, loops, shown, history >>

\* Mutant: an output that is empty for now is taken for its end.
MutantEndOfOutput(t) ==
    /\ at[t] = "reading"
    /\ Broadcast(t, "DOWN")
    /\ UNCHANGED << pages, click, processes, lines, lock, loops, shown, history >>

EndOfOutput(t) ==
    /\ at[t] = "reading" /\ t \notin alive
    /\ Broadcast(t, "DOWN")
    /\ UNCHANGED << pages, click, processes, lines, lock, loops, shown, history >>

Visit(t, count) ==
    /\ visited' = [visited EXCEPT ![t] = {}]
    /\ size' = [size EXCEPT ![t] = count]
    /\ UNCHANGED << greeted, known >>

\* Mutant: the lock is not waited for.
MutantAcquire(t) ==
    /\ at[t] = "acquire"
    /\ lock' = t
    /\ at' = [at EXCEPT ![t] = "sending"]
    /\ Visit(t, Cardinality(Listed))
    /\ UNCHANGED << pages, click, processes, says, lines, shown, history >>

Acquire(t) ==
    /\ at[t] = "acquire" /\ lock = 0
    /\ lock' = t
    /\ at' = [at EXCEPT ![t] = "sending"]
    /\ Visit(t, Cardinality(Listed))
    /\ UNCHANGED << pages, click, processes, says, lines, shown, history >>

Heard(p, t) ==
    CASE says[t] = "UP"   -> shown[p] \cup {name[t]}
      [] says[t] = "DOWN" -> shown[p] \ {name[t]}
      [] OTHER            -> shown[p]

SendTo(t, a) ==
    /\ Cardinality(Listed) = size[t]
    /\ a \in Listed \ visited[t] /\ wsocks[a] \notin closed
    /\ visited' = [visited EXCEPT ![t] = @ \cup {a}]
    /\ shown' = [shown EXCEPT ![wsocks[a]] = Heard(wsocks[a], t)]
    /\ UNCHANGED << threads, greeted, known, size >>

\* There is no finally: the thread ends with the lock in its hands.
SendFails(t) ==
    /\ \/ Cardinality(Listed) # size[t]
       \/ \E a \in Listed \ visited[t] : wsocks[a] \in closed
    /\ at' = [at EXCEPT ![t] = "dead"]
    /\ Visit(t, 0)
    /\ UNCHANGED << says, lines, lock, shown >>

\* Mutant: one page is told and the loop ends.
MutantRelease(t) ==
    /\ Cardinality(Listed) = size[t] /\ (Listed # {} => visited[t] # {})
    /\ lock' = 0
    /\ at' = [at EXCEPT ![t] = IF says[t] = "DOWN" THEN "delete" ELSE "reading"]
    /\ Visit(t, 0)
    /\ UNCHANGED << says, lines, shown >>

Release(t) ==
    /\ Cardinality(Listed) = size[t] /\ Listed \subseteq visited[t]
    /\ lock' = 0
    /\ at' = [at EXCEPT ![t] = IF says[t] = "DOWN" THEN "delete" ELSE "reading"]
    /\ Visit(t, 0)
    /\ UNCHANGED << says, lines, shown >>

Send(t) ==
    /\ at[t] = "sending"
    /\ (\E a \in Address : SendTo(t, a)) \/ SendFails(t) \/ Release(t)
    /\ UNCHANGED << pages, click, processes, history >>

\* Mutant: the thread ends without deleting the name.
MutantDelete(t) ==
    /\ at[t] = "delete"
    /\ at' = [at EXCEPT ![t] = "done"]
    /\ UNCHANGED << pages, click, processes, says, lines, lock, loops, shown, history >>

\* del raises to no effect if the name is not there.
Delete(t) ==
    /\ at[t] = "delete"
    /\ procs' = [procs EXCEPT ![name[t]] = 0]
    /\ at' = [at EXCEPT ![t] = "done"]
    /\ UNCHANGED << pages, click, name, alive, terminated, says, lines, lock, loops,
                    shown, history >>

Run(t) == EndOfOutput(t) \/ Acquire(t) \/ Send(t) \/ Delete(t)

-----------------------------------------------------------------------------
Init ==
    /\ pc = [p \in Page |-> "away"] /\ address = [p \in Page |-> 0]
    /\ closed = {} /\ wsocks = [a \in Address |-> 0]
    /\ procs = [n \in Name |-> 0] /\ click = NoClick
    /\ name = [t \in Thread |-> None] /\ alive = {} /\ terminated = {}
    /\ at = [t \in Thread |-> "unborn"] /\ says = [t \in Thread |-> "UP"]
    /\ lines = [t \in Thread |-> 0] /\ lock = 0
    /\ greeted = [p \in Page |-> {}] /\ known = [p \in Page |-> 0]
    /\ visited = [t \in Thread |-> {}] /\ size = [t \in Thread |-> 0]
    /\ shown = [p \in Page |-> {}]
    /\ doubled = {} /\ raced = {} /\ late = {} /\ unquiet = FALSE

Next ==
    \/ \E p \in Page, a \in Address : Connect(p, a)
    \/ \E p \in Page : Handler(p) \/ Leave(p)
    \/ \E p \in Page, n \in Name : Click(p, n)
    \/ HandleClick
    \/ \E t \in Thread : End(t) \/ ReadLine(t) \/ Run(t)

\* Threads and handlers that can run do; a process ends when it is terminated.
\* Nothing makes a page come, click or leave, or a process print.
Fairness ==
    /\ WF_vars(HandleClick)
    /\ \A p \in Page : WF_vars(Handler(p))
    /\ \A t \in Thread : WF_vars(Run(t)) /\ WF_vars(t \in terminated /\ End(t))

Spec == Init /\ [][Next]_vars /\ Fairness

-----------------------------------------------------------------------------
(***************************************************************************)
(* Properties                                                              *)
(***************************************************************************)

\* Every table refers to what exists: listed processes have been started under
\* their name, and a thread speaks of a process that has (webserver.py:54-55).
TypeOK ==
    /\ pc \in [Page -> {"away", "arrived", "greeting", "open", "gone"}]
    /\ address \in [Page -> Address \cup {0}]
    /\ closed \subseteq Page /\ wsocks \in [Address -> Page \cup {0}]
    /\ procs \in [Name -> Thread \cup {0}]
    /\ click \in [page : Page, name : Name,
                  step : {"tell", "look", "poll", "terminate", "spawn", "start"}] \cup {NoClick}
    /\ name \in [Thread -> Name \cup {None}]
    /\ alive \subseteq Spawned /\ terminated \subseteq alive
    /\ at \in [Thread -> {"unborn", "acquire", "sending", "reading", "delete", "done", "dead"}]
    /\ says \in [Thread -> {"UP", "DATA", "DOWN"}]
    /\ lines \in [Thread -> 0..MaxLines] /\ lock \in Thread \cup {0}
    /\ greeted \in [Page -> SUBSET Name] /\ known \in [Page -> Nat]
    /\ visited \in [Thread -> SUBSET Address] /\ size \in [Thread -> Nat]
    /\ shown \in [Page -> SUBSET Name]
    /\ doubled \subseteq Address /\ raced \subseteq Name
    /\ late \subseteq Page \X Name /\ unquiet \in BOOLEAN
    /\ \A n \in Name : procs[n] # 0 => name[procs[n]] = n
    /\ \A t \in Thread : name[t] = None => at[t] = "unborn"

LockLost == lock # 0 /\ at[lock] = "dead"

\* broadcast releases the lock only if every send succeeds (webserver.py:70-73).
\* Two threads never send at a time; and as long as no page leaves, comes during
\* a broadcast or has its handler fail, no thread keeps the lock for ever.
LockIsReturned ==
    /\ \A t \in Thread : at[t] = "sending" => lock = t
    /\ LockLost => unquiet

\* A process that runs can be stopped, and is the only one of its name, unless
\* the name was started while the thread of an older process had yet to delete
\* it: then the delete takes the new process from the table (webserver.py:54, 66).
LiveIsListed == \A t \in alive : name[t] \in raced \/ procs[name[t]] = t

\* A page that is open gets the broadcasts, unless two pages of its machine were
\* open at a time: the table is by address (webserver.py:44, 57).
OpenIsListed ==
    \A p \in Page : pc[p] \in {"arrived", "greeting", "open"} =>
        address[p] \in doubled \/ wsocks[address[p]] = p

\* What a page shows of a name is what its thread has said last, though greeting
\* (46) and broadcast reach it from two threads that take no common lock; except
\* on pages greeted with a process already said to be DOWN and not yet deleted.
ShownIsTrue ==
    \A p \in Page, n \in Name :
        \/ pc[p] # "open" \/ p \in closed \/ address[p] \in doubled
        \/ n \in raced \/ <<p, n>> \in late
        \/ \A t \in Thread : name[t] = n =>
             /\ at[t] = "reading" => n \in shown[p]
             /\ Down(t) /\ at[t] \in {"delete", "done"} =>
                    n \notin shown[p] \/ \E s \in Thread : s > t /\ name[s] = n

\* A stopped process leaves the table, so that the next click starts it anew,
\* unless its thread waits for a lock that is lost (webserver.py:61-66).
StopForgets ==
    \A t \in Thread : t \in terminated ~> LockLost \/ \A n \in Name : procs[n] # t

=============================================================================
