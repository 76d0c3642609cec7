--------------------------- MODULE WebServer_proofs ---------------------------
(***************************************************************************)
(* Proofs about WebServer, for any names, pages, machines and processes:   *)
(* its types, that the lock is only lost to a page that leaves, that a     *)
(* process that runs is the listed one, that an open page is listed, and   *)
(* that a page shows what runs, each with the exceptions that its history  *)
(* names.                                                                  *)
(***************************************************************************)
EXTENDS WebServer, TLAPS, FiniteSetTheorems

-----------------------------------------------------------------------------
(***************************************************************************)
(* Types                                                                   *)
(***************************************************************************)

PagesOK ==
    /\ pc \in [Page -> {"away", "arrived", "greeting", "open", "gone"}]
    /\ address \in [Page -> Address \cup {0}]
    /\ closed \in SUBSET Page
    /\ wsocks \in [Address -> Page \cup {0}]

ClickOK ==
    click \in [page : Page, name : Name,
               step : {"tell", "look", "poll", "terminate", "spawn", "start"}] \cup {NoClick}

ProcsOK ==
    /\ procs \in [Name -> Thread \cup {0}]
    /\ name \in [Thread -> Name \cup {None}]
    /\ alive \in SUBSET Spawned /\ terminated \in SUBSET alive
    /\ \A n \in Name : procs[n] # 0 => name[procs[n]] = n

ThreadsOK ==
    /\ at \in [Thread -> {"unborn", "acquire", "sending", "reading", "delete", "done", "dead"}]
    /\ says \in [Thread -> {"UP", "DATA", "DOWN"}]
    /\ lines \in [Thread -> 0..MaxLines] /\ lock \in Thread \cup {0}
    /\ \A t \in Thread : name[t] = None => at[t] = "unborn"

LoopsOK ==
    /\ greeted \in [Page -> SUBSET Name] /\ known \in [Page -> Nat]
    /\ visited \in [Thread -> SUBSET Address] /\ size \in [Thread -> Nat]

ShownOK == shown \in [Page -> SUBSET Name]

HistoryOK ==
    doubled \in SUBSET Address /\ raced \in SUBSET Name /\ late \in SUBSET (Page \X Name)

LEMMA Parts ==
    TypeOK <=> /\ PagesOK /\ ClickOK /\ ProcsOK /\ ThreadsOK /\ LoopsOK /\ ShownOK /\ HistoryOK
               /\ unquiet \in BOOLEAN
BY DEF TypeOK, PagesOK, ClickOK, ProcsOK, ThreadsOK, LoopsOK, ShownOK, HistoryOK

\* 0 is no page and no thread, None no name.
LEMMA Numbers ==
    /\ Page \subseteq Nat \ {0} /\ Thread \subseteq Nat \ {0} /\ Address \subseteq Nat \ {0}
    /\ None \notin Name
BY BoundsAssumption, NameAssumption DEF Page, Thread, Address

\* The tables have sizes.
LEMMA Sizes == Cardinality(Known) \in Nat /\ Cardinality(Listed) \in Nat
<1>1. IsFiniteSet(Known)  BY NameAssumption, FS_Subset DEF Known
<1>2. IsFiniteSet(Address)  BY BoundsAssumption, FS_Interval DEF Address
<1>3. IsFiniteSet(Listed)  BY <1>2, FS_Subset DEF Listed
<1> QED  BY <1>1, <1>3, FS_CardinalityType

LEMMA TypeInit == Init => TypeOK
<1> SUFFICES ASSUME Init  PROVE TypeOK  OBVIOUS
<1>1. PagesOK  BY DEF Init, PagesOK
<1>2. ClickOK  BY DEF Init, ClickOK
<1>3. ProcsOK  BY DEF Init, ProcsOK
<1>4. ThreadsOK  BY BoundsAssumption DEF Init, ThreadsOK
<1>5. LoopsOK  BY DEF Init, LoopsOK
<1>6. ShownOK /\ HistoryOK /\ unquiet \in BOOLEAN  BY DEF Init, ShownOK, HistoryOK
<1> QED  BY <1>1, <1>2, <1>3, <1>4, <1>5, <1>6, Parts

\* The click being handled names a page and a command.
LEMMA Clicked ==
    ASSUME TypeOK, click.step # "none"
    PROVE  /\ click.page \in Page /\ click.name \in Name
           /\ click = [page |-> click.page, name |-> click.name, step |-> click.step]
           /\ click.step \in {"tell", "look", "poll", "terminate", "spawn", "start"}
<1>1. click # NoClick  BY DEF NoClick
<1> QED  BY <1>1 DEF TypeOK

LEMMA PagesStep == TypeOK /\ [Next]_vars => PagesOK'
<1> SUFFICES ASSUME TypeOK, [Next]_vars  PROVE PagesOK'  OBVIOUS
<1>0. PagesOK  BY Parts
<1>1. ASSUME NEW p \in Page, NEW a \in Address, Connect(p, a)  PROVE PagesOK'
  BY <1>0, <1>1 DEF Connect, PagesOK
<1>2. ASSUME NEW p \in Page, Fail(p)  PROVE PagesOK'
  BY <1>0, <1>2 DEF Fail, PagesOK
<1>3. ASSUME NEW p \in Page, BeginGreeting(p)  PROVE PagesOK'
  BY <1>0, <1>3 DEF BeginGreeting, PagesOK
<1>4. ASSUME NEW p \in Page, Greeted(p)  PROVE PagesOK'
  BY <1>0, <1>4 DEF Greeted, PagesOK
<1>5. ASSUME NEW p \in Page, Leave(p)  PROVE PagesOK'
  BY <1>0, <1>5 DEF Leave, PagesOK
<1>6. ASSUME NEW p \in Page, Close(p)  PROVE PagesOK'
  BY <1>0, <1>6 DEF Close, PagesOK
<1>7. CASE UNCHANGED pages  BY <1>0, <1>7 DEF pages, PagesOK
<1>8. ASSUME NEW p \in Page, Greet(p)  PROVE PagesOK'
  BY <1>2, <1>4, <1>7, <1>8 DEF Greet, GreetWith, GreetFails
<1>9. ASSUME KeyError \/ TellFails  PROVE PagesOK'
  BY <1>2, <1>9, Clicked DEF KeyError, TellFails, Proceed
<1>a. ASSUME NEW p \in Page, NEW n \in Name, Click(p, n)  PROVE UNCHANGED pages
  BY <1>a DEF Click
<1>b. ASSUME Tell \/ Look \/ Poll \/ Terminate \/ (\E t \in Thread : Spawn(t)) \/ StartThread
      PROVE  UNCHANGED pages
  BY <1>b DEF Tell, Look, Poll, Terminate, Spawn, StartThread
<1>c. ASSUME NEW t \in Thread, End(t) \/ ReadLine(t) \/ Run(t)  PROVE UNCHANGED pages
  BY <1>c DEF End, ReadLine, Run, EndOfOutput, Acquire, Send, Delete
<1>d. UNCHANGED vars => UNCHANGED pages  BY DEF vars
<1> QED
  BY <1>1, <1>3, <1>5, <1>6, <1>7, <1>8, <1>9, <1>a, <1>b, <1>c, <1>d
  DEF Next, Handler, HandleClick

LEMMA ClickStep == TypeOK /\ [Next]_vars => ClickOK'
<1> SUFFICES ASSUME TypeOK, [Next]_vars  PROVE ClickOK'  OBVIOUS
<1>0. ClickOK  BY Parts
<1>1. ASSUME NEW p \in Page, NEW n \in Name, Click(p, n)  PROVE ClickOK'
  BY <1>1 DEF Click, ClickOK
<1>2. ASSUME NEW from \in {"tell", "look", "poll", "terminate", "spawn", "start"},
             NEW to \in {"poll", "terminate", "spawn", "start", "none"}, Proceed(from, to)
      PROVE  ClickOK'
  <2>1. CASE to = "none"  BY <1>2, <2>1 DEF Proceed, ClickOK
  <2>2. CASE to # "none"
    <3>1. click \in [page : Page, name : Name,
                     step : {"tell", "look", "poll", "terminate", "spawn", "start"}]
      BY <1>2, Clicked DEF Proceed
    <3>2. click' = [click EXCEPT !.step = to]  BY <1>2, <2>2 DEF Proceed
    <3> QED  BY <3>1, <3>2, <2>2 DEF ClickOK
  <2> QED  BY <2>1, <2>2
<1>3. ASSUME KeyError  PROVE ClickOK'  BY <1>3 DEF KeyError, ClickOK
<1>4. ASSUME TellFails \/ Tell \/ Look \/ Poll \/ Terminate \/ (\E t \in Thread : Spawn(t)) \/ StartThread
      PROVE  ClickOK'
  BY <1>4, <1>2 DEF TellFails, Tell, Look, Poll, Terminate, Spawn, StartThread
<1>5. CASE UNCHANGED click  BY <1>0, <1>5 DEF ClickOK
<1>6. ASSUME NEW p \in Page, BeginGreeting(p) \/ Close(p) \/ Leave(p)
             \/ (\E a \in Address : Connect(p, a))
      PROVE  UNCHANGED click
  BY <1>6 DEF BeginGreeting, Close, Leave, Connect
<1>9. ASSUME NEW p \in Page, Greet(p)  PROVE ClickOK'
  <2>1. ASSUME NEW n \in Name, GreetWith(p, n)  PROVE ClickOK'
    BY <2>1 DEF GreetWith, ClickOK
  <2>2. GreetFails(p) \/ Greeted(p) => UNCHANGED click  BY DEF GreetFails, Greeted
  <2> QED  BY <1>5, <1>9, <2>1, <2>2 DEF Greet
<1>7. ASSUME NEW t \in Thread, End(t) \/ ReadLine(t) \/ Run(t)  PROVE UNCHANGED click
  BY <1>7 DEF End, ReadLine, Run, EndOfOutput, Acquire, Send, Delete
<1>8. UNCHANGED vars => UNCHANGED click  BY DEF vars
<1> QED  BY <1>1, <1>3, <1>4, <1>5, <1>6, <1>7, <1>8, <1>9 DEF Next, Handler, HandleClick

LEMMA ProcsStep == TypeOK /\ [Next]_vars => ProcsOK'
<1> SUFFICES ASSUME TypeOK, [Next]_vars  PROVE ProcsOK'  OBVIOUS
<1>0. ProcsOK  BY Parts
<1>1. ASSUME NEW t \in Thread, Spawn(t)  PROVE ProcsOK'
  <2>1. click.name \in Name  BY <1>1, Clicked DEF Spawn, Proceed
  <2>2. /\ name[t] = None /\ procs' = [procs EXCEPT ![click.name] = t]
        /\ name' = [name EXCEPT ![t] = click.name]
        /\ alive' = alive \cup {t} /\ terminated' = terminated
    BY <1>1 DEF Spawn
  <2>3. procs' \in [Name -> Thread \cup {0}] /\ name' \in [Thread -> Name \cup {None}]
    BY <1>0, <2>1, <2>2 DEF ProcsOK
  <2>4. Spawned \subseteq Spawned' /\ t \in Spawned'
    BY <1>0, <2>1, <2>2, Numbers DEF ProcsOK, Spawned
  <2>5. ASSUME NEW n \in Name, procs'[n] # 0  PROVE name'[procs'[n]] = n
    <3>1. CASE n = click.name  BY <1>0, <2>1, <2>2, <3>1 DEF ProcsOK
    <3>2. CASE n # click.name
      <4>1. procs'[n] = procs[n] /\ procs[n] \in Thread /\ name[procs[n]] = n
        BY <1>0, <2>1, <2>2, <2>5, <3>2 DEF ProcsOK
      <4>2. procs[n] # t  BY <2>2, <4>1, Numbers
      <4> QED  BY <1>0, <2>2, <4>1, <4>2 DEF ProcsOK
    <3> QED  BY <3>1, <3>2
  <2> QED  BY <1>0, <2>2, <2>3, <2>4, <2>5 DEF ProcsOK
<1>2. ASSUME NEW t \in Thread, Delete(t)  PROVE ProcsOK'
  BY <1>0, <1>2 DEF Delete, ProcsOK, Spawned
<1>3. ASSUME NEW t \in Thread, End(t)  PROVE ProcsOK'
  BY <1>0, <1>3 DEF End, ProcsOK, Spawned
<1>4. ASSUME Terminate  PROVE ProcsOK'
  BY <1>0, <1>4 DEF Terminate, ProcsOK, Spawned
<1>5. CASE UNCHANGED processes  BY <1>0, <1>5 DEF processes, ProcsOK, Spawned
<1>6. ASSUME NEW p \in Page, Handler(p) \/ Leave(p) \/ (\E a \in Address : Connect(p, a))
             \/ (\E n \in Name : Click(p, n))
      PROVE  UNCHANGED processes
  BY <1>6 DEF Handler, BeginGreeting, Greet, Close, Leave, Connect, Click
<1>7. ASSUME KeyError \/ Tell \/ TellFails \/ Look \/ Poll \/ StartThread  PROVE UNCHANGED processes
  BY <1>7 DEF KeyError, Tell, TellFails, Look, Poll, StartThread
<1>8. ASSUME NEW t \in Thread, ReadLine(t) \/ EndOfOutput(t) \/ Acquire(t) \/ Send(t)
      PROVE  UNCHANGED processes
  BY <1>8 DEF ReadLine, EndOfOutput, Acquire, Send
<1>9. UNCHANGED vars => UNCHANGED processes  BY DEF vars
<1> QED
  BY <1>1, <1>2, <1>3, <1>4, <1>5, <1>6, <1>7, <1>8, <1>9 DEF Next, HandleClick, Run

\* Only Spawn gives a process its name.
LEMMA NamesGrow ==
    ASSUME TypeOK, [Next]_vars, NEW t \in Thread, name'[t] = None
    PROVE  name[t] = None
<1>0. name \in [Thread -> Name \cup {None}]  BY DEF TypeOK
<1>1. ASSUME NEW s \in Thread, Spawn(s)  PROVE name[t] = None
  <2>1. click.name \in Name  BY <1>1, Clicked DEF Spawn, Proceed
  <2> QED  BY <1>0, <1>1, <2>1, Numbers DEF Spawn
<1>2. ASSUME NEW p \in Page, Handler(p) \/ Leave(p) \/ (\E a \in Address : Connect(p, a))
             \/ (\E n \in Name : Click(p, n))
      PROVE  UNCHANGED name
  BY <1>2 DEF Handler, BeginGreeting, Greet, Close, Leave, Connect, Click, processes
<1>3. ASSUME KeyError \/ Tell \/ TellFails \/ Look \/ Poll \/ StartThread \/ Terminate  PROVE UNCHANGED name
  BY <1>3 DEF KeyError, Tell, TellFails, Look, Poll, StartThread, Terminate, processes
<1>4. ASSUME NEW s \in Thread, End(s) \/ ReadLine(s) \/ Run(s)  PROVE UNCHANGED name
  BY <1>4 DEF End, ReadLine, Run, EndOfOutput, Acquire, Send, Delete, processes
<1>5. UNCHANGED vars => UNCHANGED name  BY DEF vars, processes
<1> QED  BY <1>1, <1>2, <1>3, <1>4, <1>5 DEF Next, HandleClick

LEMMA ThreadsStep == TypeOK /\ [Next]_vars => ThreadsOK'
<1> SUFFICES ASSUME TypeOK, [Next]_vars  PROVE ThreadsOK'  OBVIOUS
<1>0. ThreadsOK /\ ProcsOK  BY Parts
<1>n. \A t \in Thread : name'[t] = None => at[t] = "unborn" /\ name[t] = None
  BY <1>0, NamesGrow DEF ThreadsOK
<1>1. ASSUME StartThread  PROVE ThreadsOK'
  <2>1. click.name \in Name  BY <1>1, Clicked DEF StartThread, Proceed
  <2>2. procs[click.name] \in Thread /\ name[procs[click.name]] = click.name
    BY <1>0, <1>1, <2>1 DEF StartThread, ProcsOK
  <2>3. UNCHANGED << name, lines, lock >>  BY <1>1 DEF StartThread, processes
  <2>4. /\ at' = [at EXCEPT ![procs[click.name]] = "acquire"]
        /\ says' = [says EXCEPT ![procs[click.name]] = "UP"]
    BY <1>1 DEF StartThread
  <2>5. \A t \in Thread : name'[t] = None => at'[t] = "unborn"
    BY <1>0, <2>1, <2>2, <2>3, <2>4, Numbers DEF ThreadsOK
  <2>6. /\ at' \in [Thread -> {"unborn", "acquire", "sending", "reading", "delete", "done", "dead"}]
        /\ says' \in [Thread -> {"UP", "DATA", "DOWN"}]
    BY <1>0, <2>2, <2>4 DEF ThreadsOK
  <2> QED  BY <1>0, <2>3, <2>5, <2>6 DEF ThreadsOK
<1>2. ASSUME NEW t \in Thread, NEW to \in {"acquire", "sending", "reading", "delete", "done", "dead"},
             at[t] # "unborn", at' = [at EXCEPT ![t] = to]
      PROVE  /\ at' \in [Thread -> {"unborn", "acquire", "sending", "reading", "delete", "done", "dead"}]
             /\ \A s \in Thread : name'[s] = None => at'[s] = "unborn"
  BY <1>0, <1>2, <1>n DEF ThreadsOK
<1>3. ASSUME NEW t \in Thread, ReadLine(t)  PROVE ThreadsOK'
  <2>1. /\ at[t] = "reading" /\ at' = [at EXCEPT ![t] = "acquire"]
        /\ says' = [says EXCEPT ![t] = "DATA"] /\ lines' = [lines EXCEPT ![t] = @ + 1]
        /\ lines[t] < MaxLines /\ lock' = lock
    BY <1>3 DEF ReadLine, Broadcast
  <2>2. lines' \in [Thread -> 0..MaxLines]  BY <1>0, <2>1, BoundsAssumption DEF ThreadsOK
  <2>3. says' \in [Thread -> {"UP", "DATA", "DOWN"}]  BY <1>0, <2>1 DEF ThreadsOK
  <2> QED  BY <1>0, <1>2, <2>1, <2>2, <2>3 DEF ThreadsOK
<1>4. ASSUME NEW t \in Thread, EndOfOutput(t)  PROVE ThreadsOK'
  <2>1. /\ at[t] = "reading" /\ at' = [at EXCEPT ![t] = "acquire"]
        /\ says' = [says EXCEPT ![t] = "DOWN"] /\ lines' = lines /\ lock' = lock
    BY <1>4 DEF EndOfOutput, Broadcast
  <2>3. says' \in [Thread -> {"UP", "DATA", "DOWN"}]  BY <1>0, <2>1 DEF ThreadsOK
  <2> QED  BY <1>0, <1>2, <2>1, <2>3 DEF ThreadsOK
<1>5. ASSUME NEW t \in Thread, Acquire(t)  PROVE ThreadsOK'
  <2>1. /\ at[t] = "acquire" /\ at' = [at EXCEPT ![t] = "sending"]
        /\ says' = says /\ lines' = lines /\ lock' = t
    BY <1>5 DEF Acquire
  <2> QED  BY <1>0, <1>2, <2>1 DEF ThreadsOK
<1>6. ASSUME NEW t \in Thread, Delete(t)  PROVE ThreadsOK'
  <2>1. /\ at[t] = "delete" /\ at' = [at EXCEPT ![t] = "done"]
        /\ says' = says /\ lines' = lines /\ lock' = lock
    BY <1>6 DEF Delete
  <2> QED  BY <1>0, <1>2, <2>1 DEF ThreadsOK
<1>7. CASE UNCHANGED threads
  <2>1. \A t \in Thread : name'[t] = None => at'[t] = "unborn"  BY <1>n, <1>7 DEF threads
  <2> QED  BY <1>0, <1>7, <2>1 DEF threads, ThreadsOK
<1>8. ASSUME NEW t \in Thread, Send(t)  PROVE ThreadsOK'
  <2>1. at[t] = "sending"  BY <1>8 DEF Send
  <2>2. CASE SendFails(t)
    <3>1. at' = [at EXCEPT ![t] = "dead"] /\ UNCHANGED << says, lines, lock >>
      BY <2>2 DEF SendFails
    <3> QED  BY <1>0, <1>2, <2>1, <3>1 DEF ThreadsOK
  <2>3. CASE Release(t)
    <3>1. /\ at' = [at EXCEPT ![t] = IF says[t] = "DOWN" THEN "delete" ELSE "reading"]
          /\ lock' = 0 /\ UNCHANGED << says, lines >>
      BY <2>3 DEF Release
    <3> QED  BY <1>0, <1>2, <2>1, <3>1 DEF ThreadsOK
  <2>4. ASSUME NEW a \in Address, SendTo(t, a)  PROVE UNCHANGED threads
    BY <2>4 DEF SendTo
  <2> QED  BY <1>7, <1>8, <2>2, <2>3, <2>4 DEF Send
<1>9. ASSUME NEW p \in Page, Handler(p) \/ Leave(p) \/ (\E a \in Address : Connect(p, a))
             \/ (\E n \in Name : Click(p, n))
      PROVE  UNCHANGED threads
  BY <1>9 DEF Handler, BeginGreeting, Greet, Close, Leave, Connect, Click
<1>a. ASSUME KeyError \/ Tell \/ TellFails \/ Look \/ Poll \/ Terminate \/ (\E t \in Thread : Spawn(t))
      PROVE  UNCHANGED threads
  BY <1>a DEF KeyError, Tell, TellFails, Look, Poll, Terminate, Spawn
<1>b. ASSUME NEW t \in Thread, End(t)  PROVE UNCHANGED threads  BY <1>b DEF End
<1>c. UNCHANGED vars => UNCHANGED threads  BY DEF vars
<1> QED
  BY <1>1, <1>3, <1>4, <1>5, <1>6, <1>7, <1>8, <1>9, <1>a, <1>b, <1>c
  DEF Next, HandleClick, Run

LEMMA LoopsStep == TypeOK /\ [Next]_vars => LoopsOK'
<1> SUFFICES ASSUME TypeOK, [Next]_vars  PROVE LoopsOK'  OBVIOUS
<1>0. LoopsOK  BY Parts
<1>1. ASSUME NEW p \in Page, NEW count \in Nat, Iterate(p, count)  PROVE LoopsOK'
  BY <1>0, <1>1 DEF Iterate, LoopsOK
<1>2. ASSUME NEW t \in Thread, NEW count \in Nat, Visit(t, count)  PROVE LoopsOK'
  BY <1>0, <1>2 DEF Visit, LoopsOK
<1>3. CASE UNCHANGED loops  BY <1>0, <1>3 DEF loops, LoopsOK
<1>4. ASSUME NEW p \in Page, BeginGreeting(p)  PROVE LoopsOK'
  BY <1>1, <1>4, Sizes DEF BeginGreeting
<1>5. ASSUME NEW p \in Page, Greet(p)  PROVE LoopsOK'
  <2>1. ASSUME NEW n \in Name, GreetWith(p, n)  PROVE LoopsOK'
    BY <1>0, <2>1 DEF GreetWith, LoopsOK
  <2>2. GreetFails(p) \/ Greeted(p) => Iterate(p, 0)  BY DEF GreetFails, Greeted
  <2> QED  BY <1>1, <1>5, <2>1, <2>2 DEF Greet
<1>6. ASSUME NEW t \in Thread, Acquire(t)  PROVE LoopsOK'
  BY <1>2, <1>6, Sizes DEF Acquire
<1>7. ASSUME NEW t \in Thread, Send(t)  PROVE LoopsOK'
  <2>1. ASSUME NEW a \in Address, SendTo(t, a)  PROVE LoopsOK'
    BY <1>0, <2>1 DEF SendTo, LoopsOK
  <2>2. SendFails(t) \/ Release(t) => Visit(t, 0)  BY DEF SendFails, Release
  <2> QED  BY <1>2, <1>7, <2>1, <2>2 DEF Send
<1>8. ASSUME NEW p \in Page, Close(p) \/ Leave(p) \/ (\E a \in Address : Connect(p, a))
             \/ (\E n \in Name : Click(p, n))
      PROVE  UNCHANGED loops
  BY <1>8 DEF Close, Leave, Connect, Click
<1>c. ASSUME TellFails  PROVE LoopsOK'
  BY <1>1, <1>c, Clicked DEF TellFails, Proceed
<1>9. ASSUME HandleClick, ~TellFails  PROVE UNCHANGED loops
  BY <1>9 DEF HandleClick, KeyError, Tell, Look, Poll, Terminate, Spawn, StartThread
<1>a. ASSUME NEW t \in Thread, End(t) \/ ReadLine(t) \/ EndOfOutput(t) \/ Delete(t)
      PROVE  UNCHANGED loops
  BY <1>a DEF End, ReadLine, EndOfOutput, Delete
<1>b. UNCHANGED vars => UNCHANGED loops  BY DEF vars
<1> QED
  BY <1>3, <1>4, <1>5, <1>6, <1>7, <1>8, <1>9, <1>a, <1>b, <1>c DEF Next, Handler, Run

LEMMA ShownStep == TypeOK /\ [Next]_vars => ShownOK'
<1> SUFFICES ASSUME TypeOK, [Next]_vars  PROVE ShownOK'  OBVIOUS
<1>0. ShownOK /\ ProcsOK /\ ThreadsOK  BY Parts
<1>1. ASSUME Tell  PROVE ShownOK'
  BY <1>0, <1>1, Clicked DEF Tell, Proceed, ShownOK
<1>2. ASSUME NEW t \in Thread, at[t] = "sending", NEW a \in Address, SendTo(t, a)
      PROVE  ShownOK'
  <2>1. name[t] \in Name  BY <1>0, <1>2 DEF ProcsOK, ThreadsOK
  <2>2. wsocks[a] \in Page
    BY <1>2 DEF SendTo, Listed, TypeOK
  <2>3. Heard(wsocks[a], t) \in SUBSET Name  BY <1>0, <2>1, <2>2 DEF Heard, ShownOK
  <2>4. shown' = [shown EXCEPT ![wsocks[a]] = Heard(wsocks[a], t)]  BY <1>2 DEF SendTo
  <2> QED  BY <1>0, <2>2, <2>3, <2>4 DEF ShownOK
<1>3. CASE UNCHANGED shown  BY <1>0, <1>3 DEF ShownOK
<1>4. ASSUME NEW p \in Page, Greet(p)  PROVE ShownOK'
  BY <1>3, <1>4 DEF Greet, GreetWith, GreetFails, Greeted
<1>5. ASSUME NEW t \in Thread, Send(t)  PROVE ShownOK'
  BY <1>2, <1>3, <1>5 DEF Send, SendFails, Release
<1>6. ASSUME NEW p \in Page, BeginGreeting(p) \/ Close(p) \/ Leave(p)
             \/ (\E a \in Address : Connect(p, a)) \/ (\E n \in Name : Click(p, n))
      PROVE  UNCHANGED shown
  BY <1>6 DEF BeginGreeting, Close, Leave, Connect, Click
<1>7. ASSUME HandleClick, ~Tell  PROVE UNCHANGED shown
  BY <1>7 DEF HandleClick, KeyError, TellFails, Look, Poll, Terminate, Spawn, StartThread
<1>8. ASSUME NEW t \in Thread, End(t) \/ ReadLine(t) \/ EndOfOutput(t) \/ Acquire(t) \/ Delete(t)
      PROVE  UNCHANGED shown
  BY <1>8 DEF End, ReadLine, EndOfOutput, Acquire, Delete
<1>9. UNCHANGED vars => UNCHANGED shown  BY DEF vars
<1> QED  BY <1>1, <1>3, <1>4, <1>5, <1>6, <1>7, <1>8, <1>9 DEF Next, Handler, Run

LEMMA HistoryStep == TypeOK /\ [Next]_vars => HistoryOK' /\ unquiet' \in BOOLEAN
<1> SUFFICES ASSUME TypeOK, [Next]_vars  PROVE HistoryOK' /\ unquiet' \in BOOLEAN  OBVIOUS
<1>0. HistoryOK /\ unquiet \in BOOLEAN  BY Parts
<1>1. ASSUME NEW p \in Page, NEW a \in Address, Connect(p, a)
      PROVE  HistoryOK' /\ unquiet' \in BOOLEAN
  BY <1>0, <1>1 DEF Connect, HistoryOK
<1>2. ASSUME NEW p \in Page, Fail(p)
      PROVE  UNCHANGED << doubled, raced, late >> /\ unquiet' \in BOOLEAN
  BY <1>2 DEF Fail
<1>3. ASSUME NEW p \in Page, Greet(p)  PROVE HistoryOK' /\ unquiet' \in BOOLEAN
  <2>1. ASSUME NEW n \in Name, GreetWith(p, n)  PROVE HistoryOK' /\ unquiet' \in BOOLEAN
    BY <1>0, <2>1 DEF GreetWith, history, HistoryOK
  <2>2. CASE GreetFails(p)  BY <1>0, <1>2, <2>2 DEF GreetFails, HistoryOK
  <2>3. CASE Greeted(p)  BY <1>0, <2>3 DEF Greeted, history, HistoryOK
  <2> QED  BY <1>3, <2>1, <2>2, <2>3 DEF Greet
<1>4. ASSUME NEW p \in Page, Leave(p)  PROVE HistoryOK' /\ unquiet' \in BOOLEAN
  BY <1>0, <1>4 DEF Leave, HistoryOK
<1>c. ASSUME Tell  PROVE HistoryOK' /\ unquiet' \in BOOLEAN
  <2>1. <<click.page, click.name>> \in Page \X Name  BY <1>c, Clicked DEF Tell, Proceed
  <2>2. late' = late \cup {<<click.page, click.name>>} \/ late' = late  BY <1>c DEF Tell
  <2> QED  BY <1>0, <1>c, <2>1, <2>2 DEF Tell, HistoryOK
<1>5. ASSUME KeyError \/ TellFails  PROVE HistoryOK' /\ unquiet' \in BOOLEAN
  BY <1>0, <1>5 DEF KeyError, TellFails, Fail, HistoryOK
<1>6. ASSUME NEW t \in Thread, Spawn(t)  PROVE HistoryOK' /\ unquiet' \in BOOLEAN
  BY <1>0, <1>6, Clicked DEF Spawn, Proceed, HistoryOK
<1>7. CASE UNCHANGED history  BY <1>0, <1>7 DEF history, HistoryOK
<1>8. ASSUME NEW p \in Page, BeginGreeting(p) \/ Close(p) \/ (\E n \in Name : Click(p, n))
      PROVE  UNCHANGED history
  BY <1>8 DEF BeginGreeting, Close, Click
<1>9. ASSUME Look \/ Poll \/ Terminate \/ StartThread  PROVE UNCHANGED history
  BY <1>9 DEF Look, Poll, Terminate, StartThread
<1>a. ASSUME NEW t \in Thread, End(t) \/ ReadLine(t) \/ Run(t)  PROVE UNCHANGED history
  BY <1>a DEF End, ReadLine, Run, EndOfOutput, Acquire, Send, Delete
<1>b. UNCHANGED vars => UNCHANGED history  BY DEF vars
<1> QED
  BY <1>1, <1>3, <1>4, <1>5, <1>6, <1>7, <1>8, <1>9, <1>a, <1>b, <1>c DEF Next, Handler, HandleClick

LEMMA TypeStep == TypeOK /\ [Next]_vars => TypeOK'
<1> SUFFICES ASSUME TypeOK, [Next]_vars  PROVE TypeOK'  OBVIOUS
<1>1. PagesOK' /\ ClickOK' /\ ProcsOK' /\ ThreadsOK'
  BY PagesStep, ClickStep, ProcsStep, ThreadsStep
<1>2. LoopsOK' /\ ShownOK' /\ HistoryOK' /\ unquiet' \in BOOLEAN
  BY LoopsStep, ShownStep, HistoryStep
<1> QED
  BY <1>1, <1>2 DEF TypeOK, PagesOK, ClickOK, ProcsOK, ThreadsOK, LoopsOK, ShownOK, HistoryOK

\* The tables only refer to what exists.
THEOREM TypeCorrect == Spec => []TypeOK
BY TypeInit, TypeStep, PTL DEF Spec

-----------------------------------------------------------------------------
(***************************************************************************)
(* The table of websockets                                                 *)
(***************************************************************************)

\* A page has an address as soon as it comes.
Addressed == \A p \in Page : pc[p] # "away" => address[p] \in Address

\* The page whose click is handled stays open until that is done, and the one
\* that is told a name in its greeting.
ClickedIsOpen ==
    click.step # "none" =>
        pc[click.page] = IF click.step = "tell" THEN "greeting" ELSE "open"

LEMMA ClickedStep == TypeOK /\ ClickedIsOpen /\ [Next]_vars => ClickedIsOpen'
<1> SUFFICES ASSUME TypeOK, ClickedIsOpen, [Next]_vars  PROVE ClickedIsOpen'  OBVIOUS
<1>1. ASSUME NEW p \in Page, NEW n \in Name, Click(p, n)  PROVE ClickedIsOpen'
  BY <1>1 DEF Click, ClickedIsOpen, pages
<1>2. ASSUME NEW from, NEW to, from # "none", to # "tell", from = "tell" => to = "none",
             Proceed(from, to), UNCHANGED pc
      PROVE  ClickedIsOpen'
  <2>1. CASE to = "none"  BY <1>2, <2>1 DEF Proceed, ClickedIsOpen, NoClick
  <2>2. CASE to # "none"
    <3>0. click.step = from /\ from # "none" /\ from # "tell"  BY <1>2, <2>2 DEF Proceed
    <3>1. /\ click = [page |-> click.page, name |-> click.name, step |-> click.step]
          /\ pc[click.page] = "open"
      BY <3>0, Clicked DEF ClickedIsOpen
    <3>2. click'.page = click.page /\ click'.step = to  BY <1>2, <2>2, <3>1 DEF Proceed
    <3> QED  BY <1>2, <3>1, <3>2 DEF ClickedIsOpen
  <2> QED  BY <2>1, <2>2
<1>3. ASSUME Tell \/ Look \/ Poll \/ Terminate \/ (\E t \in Thread : Spawn(t)) \/ StartThread
      PROVE  ClickedIsOpen'
  BY <1>2, <1>3 DEF Tell, Look, Poll, Terminate, Spawn, StartThread, pages
<1>4. ASSUME click' = NoClick  PROVE ClickedIsOpen'
  BY <1>4 DEF ClickedIsOpen, NoClick
<1>5. ASSUME KeyError \/ TellFails  PROVE click' = NoClick
  BY <1>5 DEF KeyError, TellFails, Proceed
<1>c. ASSUME NEW p \in Page, BeginGreeting(p) \/ Close(p) \/ (Greet(p) /\ (GreetFails(p) \/ Greeted(p)))
      PROVE  click' = NoClick
  BY <1>c DEF BeginGreeting, Greet, GreetFails, Greeted, Close
<1>d. ASSUME NEW p \in Page, NEW a \in Address, Connect(p, a)  PROVE click' = NoClick
  BY <1>d DEF Connect
<1>8. ASSUME NEW p \in Page, NEW n \in Name, pc[p] = "greeting", GreetWith(p, n)
      PROVE  ClickedIsOpen'
  <2>1. click' = [page |-> p, name |-> n, step |-> "tell"] /\ pc' = pc
    BY <1>8 DEF GreetWith, pages
  <2>2. click'.page = p /\ click'.step = "tell"  BY <2>1
  <2>3. pc'[click'.page] = "greeting"  BY <1>8, <2>1, <2>2
  <2> QED  BY <2>2, <2>3 DEF ClickedIsOpen
<1>6. ASSUME UNCHANGED << pc, click >>  PROVE ClickedIsOpen'
  BY <1>6 DEF ClickedIsOpen
<1>7. ASSUME \/ \E p \in Page : Leave(p)
             \/ \E t \in Thread : End(t) \/ ReadLine(t) \/ Run(t)
             \/ UNCHANGED vars
      PROVE  UNCHANGED << pc, click >>
  BY <1>7 DEF Leave, End, ReadLine, Run, EndOfOutput, Acquire, Send, Delete, pages, vars
<1>9. ASSUME NEW p \in Page, Handler(p)  PROVE ClickedIsOpen'
  <2>1. CASE \E n \in Name : pc[p] = "greeting" /\ GreetWith(p, n)  BY <1>8, <2>1
  <2>2. CASE BeginGreeting(p) \/ Close(p) \/ (Greet(p) /\ (GreetFails(p) \/ Greeted(p)))
    BY <1>4, <1>c, <2>2
  <2> QED  BY <1>9, <2>1, <2>2 DEF Handler, Greet
<1>a. HandleClick => ClickedIsOpen'
  BY <1>3, <1>4, <1>5 DEF HandleClick
<1>b. (\E p \in Page, a \in Address : Connect(p, a)) => ClickedIsOpen'
  BY <1>4, <1>d
<1> QED  BY <1>1, <1>6, <1>7, <1>9, <1>a, <1>b DEF Next

TableInv == Addressed /\ OpenIsListed

LEMMA TableStep == TypeOK /\ ClickedIsOpen /\ TableInv /\ [Next]_vars => TableInv'
<1> SUFFICES ASSUME TypeOK, ClickedIsOpen, Addressed, OpenIsListed, [Next]_vars
             PROVE  Addressed' /\ OpenIsListed'
  BY DEF TableInv
<1>0. PagesOK /\ doubled \in SUBSET Address  BY DEF TypeOK, PagesOK
<1> DEFINE Open == {"arrived", "greeting", "open"}
<1>1. ASSUME NEW p \in Page, NEW a \in Address, Connect(p, a)
      PROVE  Addressed' /\ OpenIsListed'
  <2>1. /\ pc[p] = "away" /\ pc' = [pc EXCEPT ![p] = "arrived"]
        /\ address' = [address EXCEPT ![p] = a] /\ wsocks' = [wsocks EXCEPT ![a] = p]
        /\ doubled' = IF \E q \in Page : address[q] = a /\ pc[q] # "gone"
                      THEN doubled \cup {a} ELSE doubled
    BY <1>1 DEF Connect
  <2>2. Addressed'  BY <1>0, <2>1 DEF Addressed, PagesOK
  <2>3. ASSUME NEW q \in Page, pc'[q] \in Open
        PROVE  address'[q] \in doubled' \/ wsocks'[address'[q]] = q
    <3>1. CASE q = p  BY <1>0, <2>1, <3>1 DEF PagesOK
    <3>2. CASE q # p /\ address[q] = a
      <4>1. pc[q] # "gone"  BY <1>0, <2>1, <2>3, <3>2 DEF PagesOK
      <4>2. a \in doubled'  BY <2>1, <3>2, <4>1
      <4> QED  BY <1>0, <2>1, <3>2, <4>2 DEF PagesOK
    <3>3. CASE q # p /\ address[q] # a
      <4>1. pc[q] \in Open /\ address'[q] = address[q]
        BY <1>0, <2>1, <2>3, <3>3 DEF PagesOK
      <4>2. address[q] \in Address  BY <4>1 DEF Addressed
      <4>3. address[q] \in doubled \/ wsocks[address[q]] = q  BY <4>1 DEF OpenIsListed
      <4> QED  BY <1>0, <2>1, <3>3, <4>1, <4>2, <4>3 DEF PagesOK
    <3> QED  BY <3>1, <3>2, <3>3
  <2> QED  BY <2>2, <2>3 DEF OpenIsListed
<1>2. ASSUME NEW p \in Page, Close(p)  PROVE Addressed' /\ OpenIsListed'
  <2>1. /\ pc[p] = "open" /\ pc' = [pc EXCEPT ![p] = "gone"]
        /\ wsocks' = [wsocks EXCEPT ![address[p]] = 0]
        /\ UNCHANGED << address, doubled >>
    BY <1>2 DEF Close, history
  <2>2. Addressed'  BY <1>0, <2>1 DEF Addressed, PagesOK
  <2>3. ASSUME NEW q \in Page, pc'[q] \in Open
        PROVE  address[q] \in doubled \/ wsocks'[address[q]] = q
    <3>1. q # p /\ pc[q] \in Open  BY <1>0, <2>1, <2>3 DEF PagesOK
    <3>2. address[q] \in doubled \/ wsocks[address[q]] = q  BY <3>1 DEF OpenIsListed
    <3>3. address[p] \in doubled \/ wsocks[address[p]] = p  BY <2>1 DEF OpenIsListed
    <3>4. CASE address[q] = address[p]  BY <3>1, <3>2, <3>3, <3>4
    <3>5. CASE address[q] # address[p]
      <4>1. address[q] \in Address  BY <3>1 DEF Addressed
      <4> QED  BY <1>0, <2>1, <3>2, <3>5, <4>1 DEF PagesOK
    <3> QED  BY <3>4, <3>5
  <2> QED  BY <2>1, <2>2, <2>3 DEF OpenIsListed
<1>3. ASSUME UNCHANGED << address, wsocks, doubled >>, NEW p \in Page, pc[p] # "away",
             NEW to \in Open \cup {"gone"}, pc' = [pc EXCEPT ![p] = to], to = "gone" \/ pc[p] \in Open
      PROVE  Addressed' /\ OpenIsListed'
  BY <1>0, <1>3 DEF Addressed, OpenIsListed, PagesOK
<1>4. CASE UNCHANGED << pc, address, wsocks, doubled >>
  BY <1>4 DEF Addressed, OpenIsListed
<1>5. ASSUME NEW p \in Page, Handler(p)  PROVE Addressed' /\ OpenIsListed'
  <2>1. CASE BeginGreeting(p)  BY <1>3, <2>1 DEF BeginGreeting, history
  <2>2. CASE pc[p] = "greeting" /\ GreetFails(p)  BY <1>3, <2>2 DEF GreetFails, Fail
  <2>3. CASE pc[p] = "greeting" /\ Greeted(p)  BY <1>3, <2>3 DEF Greeted, history
  <2>4. ASSUME NEW n \in Name, GreetWith(p, n)  PROVE UNCHANGED << pc, address, wsocks, doubled >>
    BY <2>4 DEF GreetWith, pages, history
  <2> QED  BY <1>2, <1>4, <1>5, <2>1, <2>2, <2>3, <2>4 DEF Handler, Greet
<1>6. ASSUME KeyError \/ TellFails  PROVE Addressed' /\ OpenIsListed'
  <2>1. click.page \in Page  BY <1>6, Clicked DEF KeyError, TellFails, Proceed
  <2>2. /\ UNCHANGED << address, wsocks, doubled >>
        /\ pc' = [pc EXCEPT ![click.page] = "gone"]
    BY <1>6 DEF KeyError, TellFails, Fail
  <2>3. pc[click.page] # "away"  BY <1>6 DEF KeyError, TellFails, Proceed, ClickedIsOpen
  <2> QED  BY <1>0, <2>1, <2>2, <2>3 DEF Addressed, OpenIsListed, PagesOK
<1>7. ASSUME NEW p \in Page, Leave(p) \/ (\E n \in Name : Click(p, n))
      PROVE  UNCHANGED << pc, address, wsocks, doubled >>
  BY <1>7 DEF Leave, Click, pages, history
<1>8. ASSUME Tell \/ Look \/ Poll \/ Terminate \/ (\E t \in Thread : Spawn(t)) \/ StartThread
      PROVE  UNCHANGED << pc, address, wsocks, doubled >>
  BY <1>8 DEF Tell, Look, Poll, Terminate, Spawn, StartThread, pages, history
<1>9. ASSUME NEW t \in Thread, End(t) \/ ReadLine(t) \/ Run(t)
      PROVE  UNCHANGED << pc, address, wsocks, doubled >>
  BY <1>9 DEF End, ReadLine, Run, EndOfOutput, Acquire, Send, Delete, pages, history
<1>a. UNCHANGED vars => UNCHANGED << pc, address, wsocks, doubled >>
  BY DEF vars, pages, history
<1> QED
  BY <1>1, <1>4, <1>5, <1>6, <1>7, <1>8, <1>9, <1>a DEF Next, HandleClick

\* A page is only missing from the table if its machine has had two at a time.
THEOREM OpenAlwaysListed == Spec => []OpenIsListed
<1>1. Init => TableInv  BY DEF Init, TableInv, Addressed, OpenIsListed
<1>2. Init => ClickedIsOpen  BY DEF Init, ClickedIsOpen, NoClick
<1>3. TableInv => OpenIsListed  BY DEF TableInv
<1> QED  BY <1>1, <1>2, <1>3, TableStep, ClickedStep, TypeCorrect, PTL DEF Spec

-----------------------------------------------------------------------------
(***************************************************************************)
(* The table of processes                                                  *)
(***************************************************************************)

\* A thread that says DOWN has no process any more, and only such a one deletes.
DownIsDead ==
    /\ \A t \in Thread : says[t] = "DOWN" => t \notin alive
    /\ \A t \in Thread : at[t] = "delete" => says[t] = "DOWN"
    /\ \A t \in Thread : at[t] = "unborn" => says[t] # "DOWN"

\* A thread whose process is not the listed one has been overtaken.
PendingIsListed ==
    \A t \in Thread : Pending(t) => name[t] \in raced \/ procs[name[t]] = t

\* A click that comes to spawn has found no process of the name alive.
SpawnIsFree ==
    click.step = "spawn" =>
        \A t \in alive : name[t] = click.name => click.name \in raced

ProcsInv == DownIsDead /\ PendingIsListed /\ SpawnIsFree /\ LiveIsListed

\* Where the threads stand, of which no more than this is needed.
LEMMA DownStep == TypeOK /\ DownIsDead /\ [Next]_vars => DownIsDead'
<1> SUFFICES ASSUME TypeOK, DownIsDead, [Next]_vars  PROVE DownIsDead'  OBVIOUS
<1>0. ThreadsOK /\ ProcsOK  BY Parts
<1>1. ASSUME NEW t \in Thread, Spawn(t)  PROVE DownIsDead'
  <2>1. /\ name[t] = None /\ alive' = alive \cup {t} /\ UNCHANGED << at, says >>
    BY <1>1 DEF Spawn, threads
  <2>2. says[t] # "DOWN"  BY <1>0, <2>1 DEF DownIsDead, ThreadsOK
  <2> QED  BY <2>1, <2>2 DEF DownIsDead
<1>2. ASSUME StartThread  PROVE DownIsDead'
  <2>1. procs[click.name] \in Thread
    BY <1>0, <1>2, Clicked DEF StartThread, Proceed, ProcsOK
  <2>2. /\ at' = [at EXCEPT ![procs[click.name]] = "acquire"]
        /\ says' = [says EXCEPT ![procs[click.name]] = "UP"] /\ UNCHANGED alive
    BY <1>2 DEF StartThread, processes
  <2> QED  BY <1>0, <2>1, <2>2 DEF DownIsDead, ThreadsOK
<1>3. ASSUME NEW t \in Thread, End(t)  PROVE DownIsDead'
  BY <1>3 DEF End, threads, DownIsDead
<1>4. ASSUME NEW t \in Thread, ReadLine(t)  PROVE DownIsDead'
  BY <1>0, <1>4 DEF ReadLine, Broadcast, processes, DownIsDead, ThreadsOK
<1>5. ASSUME NEW t \in Thread, EndOfOutput(t)  PROVE DownIsDead'
  BY <1>0, <1>5 DEF EndOfOutput, Broadcast, processes, DownIsDead, ThreadsOK
<1>6. ASSUME NEW t \in Thread, Acquire(t)  PROVE DownIsDead'
  BY <1>0, <1>6 DEF Acquire, processes, DownIsDead, ThreadsOK
<1>7. ASSUME NEW t \in Thread, Delete(t)  PROVE DownIsDead'
  BY <1>0, <1>7 DEF Delete, DownIsDead, ThreadsOK
<1>8. CASE UNCHANGED << at, says, alive >>  BY <1>8 DEF DownIsDead
<1>9. ASSUME NEW t \in Thread, Send(t)  PROVE DownIsDead'
  <2>1. UNCHANGED alive  BY <1>9 DEF Send, processes
  <2>2. CASE SendFails(t)  BY <1>0, <2>1, <2>2 DEF SendFails, DownIsDead, ThreadsOK
  <2>3. CASE Release(t)  BY <1>0, <2>1, <2>3 DEF Release, DownIsDead, ThreadsOK
  <2>4. ASSUME NEW a \in Address, SendTo(t, a)  PROVE UNCHANGED << at, says, alive >>
    BY <2>1, <2>4 DEF SendTo, threads
  <2> QED  BY <1>8, <1>9, <2>2, <2>3, <2>4 DEF Send
<1>a. ASSUME NEW p \in Page, Handler(p) \/ Leave(p) \/ (\E a \in Address : Connect(p, a))
             \/ (\E n \in Name : Click(p, n))
      PROVE  UNCHANGED << at, says, alive >>
  BY <1>a DEF Handler, BeginGreeting, Greet, Close, Leave, Connect, Click, threads, processes
<1>b. ASSUME KeyError \/ Tell \/ TellFails \/ Look \/ Poll \/ Terminate  PROVE UNCHANGED << at, says, alive >>
  BY <1>b DEF KeyError, Tell, TellFails, Look, Poll, Terminate, threads, processes
<1>c. UNCHANGED vars => UNCHANGED << at, says, alive >>  BY DEF vars, threads, processes
<1> QED
  BY <1>1, <1>2, <1>3, <1>4, <1>5, <1>6, <1>7, <1>8, <1>9, <1>a, <1>b, <1>c
  DEF Next, HandleClick, Run

LEMMA PendingStep == TypeOK /\ PendingIsListed /\ [Next]_vars => PendingIsListed'
<1> SUFFICES ASSUME TypeOK, PendingIsListed, [Next]_vars  PROVE PendingIsListed'  OBVIOUS
<1>0. ThreadsOK /\ ProcsOK /\ HistoryOK  BY Parts
<1>1. ASSUME NEW t \in Thread, Spawn(t)  PROVE PendingIsListed'
  <2>1. /\ click.name \in Name /\ name[t] = None /\ at[t] = "unborn"
        /\ procs' = [procs EXCEPT ![click.name] = t] /\ name' = [name EXCEPT ![t] = click.name]
        /\ UNCHANGED << at, says >>
        /\ raced' = IF \E s \in Thread : name[s] = click.name /\ Pending(s)
                    THEN raced \cup {click.name} ELSE raced
    BY <1>0, <1>1, Clicked DEF Spawn, Proceed, threads, ThreadsOK
  <2>2. ASSUME NEW s \in Thread, Pending(s)'
        PROVE  name'[s] \in raced' \/ procs'[name'[s]] = s
    <3>1. Pending(s) /\ s # t  BY <2>1, <2>2 DEF Pending
    <3>2. name[s] \in Name /\ name'[s] = name[s]
      BY <1>0, <2>1, <3>1 DEF ProcsOK, ThreadsOK, Pending
    <3>3. name[s] \in raced \/ procs[name[s]] = s  BY <3>1 DEF PendingIsListed
    <3>4. CASE name[s] = click.name  BY <2>1, <3>1, <3>2, <3>4
    <3>5. CASE name[s] # click.name  BY <1>0, <2>1, <3>2, <3>3, <3>5 DEF ProcsOK
    <3> QED  BY <3>4, <3>5
  <2> QED  BY <2>2 DEF PendingIsListed
<1>2. ASSUME StartThread  PROVE PendingIsListed'
  <2>1. /\ click.name \in Name /\ procs[click.name] # 0
        /\ at' = [at EXCEPT ![procs[click.name]] = "acquire"]
        /\ UNCHANGED << name, procs, raced >>
    BY <1>2, Clicked DEF StartThread, Proceed, processes, history
  <2>2. procs[click.name] \in Thread /\ name[procs[click.name]] = click.name
    BY <1>0, <2>1 DEF ProcsOK
  <2> QED  BY <1>0, <2>1, <2>2 DEF PendingIsListed, Pending, ThreadsOK
<1>3. ASSUME NEW t \in Thread, Delete(t)  PROVE PendingIsListed'
  <2>1. /\ at[t] = "delete" /\ at' = [at EXCEPT ![t] = "done"]
        /\ procs' = [procs EXCEPT ![name[t]] = 0] /\ UNCHANGED << name, raced >>
    BY <1>3 DEF Delete, history
  <2>2. name[t] \in Name /\ Pending(t)  BY <1>0, <2>1 DEF ProcsOK, ThreadsOK, Pending
  <2>3. name[t] \in raced \/ procs[name[t]] = t  BY <2>2 DEF PendingIsListed
  <2>4. ASSUME NEW s \in Thread, Pending(s)'  PROVE name[s] \in raced \/ procs'[name[s]] = s
    <3>1. Pending(s) /\ s # t  BY <1>0, <2>1, <2>4 DEF Pending, ThreadsOK
    <3>2. name[s] \in raced \/ procs[name[s]] = s  BY <3>1 DEF PendingIsListed
    <3>3. name[s] \in Name  BY <1>0, <3>1 DEF ProcsOK, ThreadsOK, Pending
    <3>4. CASE name[s] = name[t]  BY <2>3, <3>1, <3>2, <3>4
    <3>5. CASE name[s] # name[t]  BY <1>0, <2>1, <3>2, <3>3, <3>5 DEF ProcsOK
    <3> QED  BY <3>4, <3>5
  <2> QED  BY <2>1, <2>4 DEF PendingIsListed
<1>4. ASSUME NEW t \in Thread, ReadLine(t) \/ EndOfOutput(t) \/ Acquire(t) \/ Send(t)
      PROVE  PendingIsListed'
  <2>1. Pending(t) /\ UNCHANGED << name, procs, raced >>
    BY <1>4 DEF ReadLine, EndOfOutput, Acquire, Send, Pending, processes, history
  <2>2. \A s \in Thread : s # t => at'[s] = at[s]
    BY <1>0, <1>4
    DEF ReadLine, EndOfOutput, Acquire, Send, SendTo, SendFails, Release, Broadcast, threads,
        ThreadsOK
  <2> QED  BY <2>1, <2>2 DEF PendingIsListed, Pending
<1>5. CASE UNCHANGED << at, name, procs, raced >>  BY <1>5 DEF PendingIsListed, Pending
<1>6. ASSUME NEW p \in Page, Handler(p) \/ Leave(p) \/ (\E a \in Address : Connect(p, a))
             \/ (\E n \in Name : Click(p, n))
      PROVE  UNCHANGED << at, name, procs, raced >>
  BY <1>6 DEF Handler, BeginGreeting, Greet, GreetWith, GreetFails, Greeted, Fail, Close, Leave,
              Connect, Click, threads, processes, history
<1>7. ASSUME KeyError \/ Tell \/ TellFails \/ Look \/ Poll \/ Terminate
      PROVE  UNCHANGED << at, name, procs, raced >>
  BY <1>7 DEF KeyError, Tell, TellFails, Fail, Look, Poll, Terminate, threads, processes, history
<1>8. ASSUME NEW t \in Thread, End(t)  PROVE UNCHANGED << at, name, procs, raced >>
  BY <1>8 DEF End, threads, history
<1>9. UNCHANGED vars => UNCHANGED << at, name, procs, raced >>
  BY DEF vars, threads, processes, history
<1> QED
  BY <1>1, <1>2, <1>3, <1>4, <1>5, <1>6, <1>7, <1>8, <1>9 DEF Next, HandleClick, Run

\* raced never shrinks.
LEMMA RacedGrows == [Next]_vars => raced \subseteq raced'
<1> SUFFICES ASSUME [Next]_vars  PROVE raced \subseteq raced'  OBVIOUS
<1>1. ASSUME NEW t \in Thread, Spawn(t)  PROVE raced \subseteq raced'
  BY <1>1 DEF Spawn
<1>2. ASSUME NEW p \in Page, Handler(p) \/ Leave(p) \/ (\E a \in Address : Connect(p, a))
             \/ (\E n \in Name : Click(p, n))
      PROVE  UNCHANGED raced
  BY <1>2 DEF Handler, BeginGreeting, Greet, GreetWith, GreetFails, Greeted, Fail, Close, Leave,
              Connect, Click, history
<1>3. ASSUME KeyError \/ Tell \/ TellFails \/ Look \/ Poll \/ Terminate \/ StartThread
      PROVE  UNCHANGED raced
  BY <1>3 DEF KeyError, Tell, TellFails, Fail, Look, Poll, Terminate, StartThread, history
<1>4. ASSUME NEW t \in Thread, End(t) \/ ReadLine(t) \/ Run(t)  PROVE UNCHANGED raced
  BY <1>4 DEF End, ReadLine, Run, EndOfOutput, Acquire, Send, Delete, history
<1>5. UNCHANGED vars => UNCHANGED raced  BY DEF vars, history
<1> QED  BY <1>1, <1>2, <1>3, <1>4, <1>5 DEF Next, HandleClick

\* What the handling of a click finds in the table holds until it spawns.
LEMMA SpawnStep == TypeOK /\ LiveIsListed /\ SpawnIsFree /\ [Next]_vars => SpawnIsFree'
<1> SUFFICES ASSUME TypeOK, LiveIsListed, SpawnIsFree, [Next]_vars  PROVE SpawnIsFree'  OBVIOUS
<1>0. ProcsOK  BY Parts
<1>1. ASSUME Look \/ Poll, click'.step = "spawn"
      PROVE  \A t \in alive' : name'[t] = click'.name => click'.name \in raced'
  <2>1. /\ click = [page |-> click.page, name |-> click.name, step |-> click.step]
        /\ click.name \in Name
    BY <1>1, Clicked DEF Look, Poll, Proceed
  <2>2. /\ procs[click.name] = 0 \/ procs[click.name] \notin alive
        /\ click' = [click EXCEPT !.step = "spawn"] /\ UNCHANGED << alive, name, raced >>
    <3>1. CASE Look  BY <1>1, <3>1, <2>1 DEF Look, Proceed, processes, history, NoClick
    <3>2. CASE Poll  BY <1>1, <3>2, <2>1 DEF Poll, Proceed, processes, history, NoClick
    <3> QED  BY <1>1, <3>1, <3>2
  <2>3. click'.name = click.name  BY <2>1, <2>2
  <2>4. ASSUME NEW t \in alive, name[t] = click.name  PROVE click.name \in raced
    <3>1. name[t] \in raced \/ procs[name[t]] = t  BY <2>4 DEF LiveIsListed
    <3>2. t \in Thread /\ t # 0  BY <1>0, Numbers DEF ProcsOK, Spawned
    <3> QED  BY <2>2, <2>4, <3>1, <3>2
  <2> QED  BY <2>2, <2>3, <2>4
<1>2. ASSUME click' = NoClick \/ click'.step # "spawn"  PROVE SpawnIsFree'
  BY <1>2 DEF SpawnIsFree, NoClick
<1>3. ASSUME Terminate \/ (\E t \in Thread : Spawn(t)) \/ StartThread
      PROVE  click' = NoClick \/ click'.step # "spawn"
  <2>1. /\ click = [page |-> click.page, name |-> click.name, step |-> click.step]
    BY <1>3, Clicked DEF Terminate, Spawn, StartThread, Proceed
  <2>2. click' = NoClick \/ click' = [click EXCEPT !.step = "start"]
    BY <1>3 DEF Terminate, Spawn, StartThread, Proceed
  <2> QED  BY <2>1, <2>2
<1>4. ASSUME \/ KeyError
             \/ Tell \/ TellFails
             \/ \E p \in Page : Handler(p) \/ (\E a \in Address : Connect(p, a))
                                \/ (\E n \in Name : Click(p, n))
      PROVE  click' = NoClick \/ click'.step # "spawn"
  BY <1>4 DEF KeyError, Tell, TellFails, Proceed, Handler, BeginGreeting, Greet, GreetWith, GreetFails,
              Greeted, Close, Connect, Click, NoClick
<1>5. ASSUME UNCHANGED << click, name >>, alive' \subseteq alive  PROVE SpawnIsFree'
  BY <1>5, RacedGrows DEF SpawnIsFree
<1>6. ASSUME \/ \E p \in Page : Leave(p)
             \/ \E t \in Thread : End(t) \/ ReadLine(t) \/ Run(t)
             \/ UNCHANGED vars
      PROVE  UNCHANGED << click, name >> /\ alive' \subseteq alive
  BY <1>6 DEF Leave, End, ReadLine, Run, EndOfOutput, Acquire, Send, Delete, processes, vars
<1>7. ASSUME Look \/ Poll  PROVE SpawnIsFree'
  BY <1>1, <1>7 DEF SpawnIsFree
<1> QED  BY <1>2, <1>3, <1>4, <1>5, <1>6, <1>7 DEF Next, HandleClick

LEMMA LiveStep == TypeOK /\ ProcsInv /\ [Next]_vars => LiveIsListed'
<1> SUFFICES ASSUME TypeOK, ProcsInv, [Next]_vars  PROVE LiveIsListed'  OBVIOUS
<1>0. ThreadsOK /\ ProcsOK  BY Parts
<1>i. DownIsDead /\ PendingIsListed /\ SpawnIsFree /\ LiveIsListed  BY DEF ProcsInv
<1>1. ASSUME NEW t \in Thread, Spawn(t)  PROVE LiveIsListed'
  <2>1. /\ click.name \in Name /\ click.step = "spawn" /\ name[t] = None
        /\ procs' = [procs EXCEPT ![click.name] = t] /\ name' = [name EXCEPT ![t] = click.name]
        /\ alive' = alive \cup {t}
    BY <1>1, Clicked DEF Spawn, Proceed
  <2>2. ASSUME NEW s \in alive'  PROVE name'[s] \in raced' \/ procs'[name'[s]] = s
    <3>1. CASE s = t  BY <1>0, <2>1, <3>1 DEF ProcsOK
    <3>2. CASE s # t
      <4>1. s \in alive /\ s \in Thread /\ name'[s] = name[s] /\ name[s] \in Name
        BY <1>0, <2>1, <2>2, <3>2 DEF ProcsOK, Spawned
      <4>2. CASE name[s] = click.name
        BY <1>i, <2>1, <4>1, <4>2, RacedGrows DEF SpawnIsFree
      <4>3. CASE name[s] # click.name
        <5>1. name[s] \in raced \/ procs[name[s]] = s  BY <1>i, <4>1 DEF LiveIsListed
        <5> QED  BY <1>0, <2>1, <4>1, <4>3, <5>1, RacedGrows DEF ProcsOK
      <4> QED  BY <4>2, <4>3
    <3> QED  BY <3>1, <3>2
  <2> QED  BY <2>2 DEF LiveIsListed
<1>2. ASSUME NEW t \in Thread, Delete(t)  PROVE LiveIsListed'
  <2>1. /\ at[t] = "delete" /\ procs' = [procs EXCEPT ![name[t]] = 0]
        /\ UNCHANGED << name, alive, raced >>
    BY <1>2 DEF Delete, history
  <2>2. t \notin alive  BY <1>i, <2>1 DEF DownIsDead
  <2>3. name[t] \in raced \/ procs[name[t]] = t  BY <1>i, <2>1 DEF PendingIsListed, Pending
  <2>4. ASSUME NEW s \in alive  PROVE name[s] \in raced \/ procs'[name[s]] = s
    <3>1. name[s] \in raced \/ procs[name[s]] = s  BY <1>i DEF LiveIsListed
    <3>2. s # t /\ name[s] \in Name  BY <1>0, <2>2 DEF ProcsOK, Spawned
    <3>3. CASE name[s] = name[t]  BY <2>3, <3>1, <3>2, <3>3
    <3>4. CASE name[s] # name[t]  BY <1>0, <2>1, <3>1, <3>2, <3>4 DEF ProcsOK
    <3> QED  BY <3>3, <3>4
  <2> QED  BY <2>1, <2>4 DEF LiveIsListed
<1>3. ASSUME UNCHANGED << name, procs >>, alive' \subseteq alive  PROVE LiveIsListed'
  BY <1>3, <1>i, RacedGrows DEF LiveIsListed
<1>4. ASSUME \/ \E p \in Page : Handler(p) \/ Leave(p) \/ (\E a \in Address : Connect(p, a))
                                \/ (\E n \in Name : Click(p, n))
             \/ KeyError \/ Tell \/ TellFails \/ Look \/ Poll \/ Terminate \/ StartThread
             \/ \E t \in Thread : End(t) \/ ReadLine(t) \/ EndOfOutput(t) \/ Acquire(t) \/ Send(t)
             \/ UNCHANGED vars
      PROVE  UNCHANGED << name, procs >> /\ alive' \subseteq alive
  BY <1>4
  DEF Handler, BeginGreeting, Greet, Close, Leave, Connect, Click, KeyError, Tell, TellFails, Look, Poll,
      Terminate, StartThread, End, ReadLine, EndOfOutput, Acquire, Send, processes, vars
<1> QED  BY <1>1, <1>2, <1>3, <1>4 DEF Next, HandleClick, Run

\* A process that runs is the listed one of its name, unless that was overtaken.
THEOREM LiveAlwaysListed == Spec => []LiveIsListed
<1>1. Init => ProcsInv
  BY Numbers DEF Init, ProcsInv, DownIsDead, PendingIsListed, Pending, SpawnIsFree, LiveIsListed,
                 NoClick
<1>2. TypeOK /\ ProcsInv /\ [Next]_vars => ProcsInv'
  BY DownStep, PendingStep, SpawnStep, LiveStep DEF ProcsInv
<1>3. ProcsInv => LiveIsListed  BY DEF ProcsInv
<1> QED  BY <1>1, <1>2, <1>3, TypeCorrect, PTL DEF Spec

-----------------------------------------------------------------------------
(***************************************************************************)
(* The lock                                                                *)
(***************************************************************************)

\* As long as it is quiet no websocket is closed, and the table keeps the size that
\* it had when a broadcast began.
Quiet ==
    ~unquiet =>
        /\ closed = {}
        /\ \A t \in Thread : at[t] = "sending" => Cardinality(Listed) = size[t]
        /\ \A t \in Thread : at[t] # "dead"

LockInv == LockIsReturned /\ Quiet

LEMMA LockStep == TypeOK /\ LockInv /\ [Next]_vars => LockInv'
<1> SUFFICES ASSUME TypeOK, LockIsReturned, Quiet, [Next]_vars  PROVE LockIsReturned' /\ Quiet'
  BY DEF LockInv
<1>0. ThreadsOK /\ LoopsOK /\ unquiet \in BOOLEAN  BY Parts
<1>s. \A t \in Thread : at[t] = "sending" => lock = t  BY DEF LockIsReturned
<1>l. lock' \in Thread \cup {0} /\ 0 \notin Thread  BY ThreadsStep, Numbers DEF ThreadsOK
<1>q. ASSUME \A t \in Thread : at'[t] = "sending" => lock' = t, Quiet'
      PROVE  LockIsReturned' /\ Quiet'
  BY <1>l, <1>q DEF LockIsReturned, LockLost, Quiet
<1>1. ASSUME UNCHANGED threads, unquiet'  PROVE LockIsReturned' /\ Quiet'
  <2>1. \A t \in Thread : at'[t] = "sending" => lock' = t  BY <1>s, <1>1 DEF threads
  <2> QED  BY <1>q, <1>1, <2>1 DEF Quiet
<1>2. ASSUME UNCHANGED threads, unquiet' = unquiet, ~unquiet => UNCHANGED << closed, wsocks, size >>
      PROVE  LockIsReturned' /\ Quiet'
  <2>1. \A t \in Thread : at'[t] = "sending" => lock' = t  BY <1>s, <1>2 DEF threads
  <2>2. ~unquiet => Listed' = Listed  BY <1>2 DEF Listed
  <2>3. Quiet'  BY <1>2, <2>2 DEF Quiet, threads
  <2> QED  BY <1>q, <2>1, <2>3
<1>3. ASSUME NEW p \in Page, NEW a \in Address, Connect(p, a)
      PROVE  LockIsReturned' /\ Quiet'
  <2>1. UNCHANGED << threads, closed, size >> /\ unquiet' = (unquiet \/ Speaking)
    BY <1>3 DEF Connect, loops
  <2>2. CASE unquiet \/ Speaking  BY <1>1, <2>1, <2>2
  <2>3. CASE ~unquiet /\ ~Speaking
    <3>1. \A t \in Thread : at[t] # "sending"  BY <1>s, <2>3, Numbers DEF Speaking
    <3>2. Quiet'  BY <2>1, <2>3, <3>1 DEF Quiet, threads
    <3>3. \A t \in Thread : at'[t] = "sending" => lock' = t  BY <2>1, <3>1 DEF threads
    <3> QED  BY <1>q, <3>2, <3>3
  <2> QED  BY <2>2, <2>3
<1>4. ASSUME NEW p \in Page, Handler(p)  PROVE LockIsReturned' /\ Quiet'
  <2>1. CASE BeginGreeting(p)
    BY <1>2, <2>1 DEF BeginGreeting, Iterate, history
  <2>2. ASSUME UNCHANGED threads, NEW n \in Name, GreetWith(p, n)  PROVE LockIsReturned' /\ Quiet'
    BY <1>2, <2>2 DEF GreetWith, pages, history
  <2>3. ASSUME UNCHANGED threads, GreetFails(p)  PROVE LockIsReturned' /\ Quiet'
    BY <1>1, <2>3 DEF GreetFails, Fail
  <2>4. ASSUME UNCHANGED threads, Greeted(p)  PROVE LockIsReturned' /\ Quiet'
    BY <1>2, <2>4 DEF Greeted, Iterate, history
  <2>5. CASE Close(p)
    <3>1. p \in closed /\ UNCHANGED << threads, unquiet >>  BY <2>5 DEF Close, history
    <3>2. unquiet  BY <3>1 DEF Quiet
    <3> QED  BY <1>2, <3>1, <3>2
  <2> QED  BY <1>4, <2>1, <2>2, <2>3, <2>4, <2>5 DEF Handler, Greet
<1>5. ASSUME NEW p \in Page, Leave(p)  PROVE LockIsReturned' /\ Quiet'
  BY <1>1, <1>5 DEF Leave
<1>6. ASSUME NEW p \in Page, NEW n \in Name, Click(p, n)  PROVE LockIsReturned' /\ Quiet'
  BY <1>2, <1>6 DEF Click, pages, loops, history
<1>7. ASSUME KeyError \/ TellFails  PROVE LockIsReturned' /\ Quiet'
  BY <1>1, <1>7 DEF KeyError, TellFails, Fail
<1>8. ASSUME Tell \/ Look \/ Poll \/ Terminate \/ (\E t \in Thread : Spawn(t))
      PROVE  LockIsReturned' /\ Quiet'
  BY <1>2, <1>8 DEF Tell, Look, Poll, Terminate, Spawn, pages, loops, history
<1>9. ASSUME NEW t \in Thread, NEW to \in {"acquire", "reading", "delete", "done"},
             at' = [at EXCEPT ![t] = to], UNCHANGED << closed, wsocks, unquiet >>,
             \A s \in Thread : s # t => size'[s] = size[s],
             lock' = lock \/ at[t] = "sending"
      PROVE  LockIsReturned' /\ Quiet'
  <2>1. \A s \in Thread : at'[s] = "sending" => s # t /\ at[s] = "sending"
    BY <1>0, <1>9 DEF ThreadsOK
  <2>2. \A s \in Thread : at'[s] = "sending" => lock' = s  BY <1>s, <1>9, <2>1
  <2>3. \A s \in Thread : at'[s] = "dead" => at[s] = "dead"  BY <1>0, <1>9 DEF ThreadsOK
  <2>4. Listed' = Listed  BY <1>9 DEF Listed
  <2>5. Quiet'  BY <1>9, <2>1, <2>3, <2>4 DEF Quiet
  <2> QED  BY <1>q, <2>2, <2>5
<1>a. ASSUME StartThread  PROVE LockIsReturned' /\ Quiet'
  <2>1. procs[click.name] \in Thread  BY <1>a, Clicked DEF StartThread, Proceed, TypeOK
  <2>2. /\ at' = [at EXCEPT ![procs[click.name]] = "acquire"]
        /\ UNCHANGED << closed, wsocks, unquiet, size, lock >>
    BY <1>a DEF StartThread, pages, loops, history
  <2> QED  BY <1>9, <2>1, <2>2
<1>b. ASSUME NEW t \in Thread, ReadLine(t) \/ EndOfOutput(t)  PROVE LockIsReturned' /\ Quiet'
  <2>1. at' = [at EXCEPT ![t] = "acquire"] /\ UNCHANGED << closed, wsocks, unquiet, size, lock >>
    BY <1>b DEF ReadLine, EndOfOutput, Broadcast, pages, loops, history
  <2> QED  BY <1>9, <2>1
<1>c. ASSUME NEW t \in Thread, Delete(t)  PROVE LockIsReturned' /\ Quiet'
  <2>1. at' = [at EXCEPT ![t] = "done"] /\ UNCHANGED << closed, wsocks, unquiet, size, lock >>
    BY <1>c DEF Delete, pages, loops, history
  <2> QED  BY <1>9, <2>1
<1>d. ASSUME NEW t \in Thread, Acquire(t)  PROVE LockIsReturned' /\ Quiet'
  <2>1. /\ lock = 0 /\ lock' = t /\ at' = [at EXCEPT ![t] = "sending"]
        /\ size' = [size EXCEPT ![t] = Cardinality(Listed)]
        /\ UNCHANGED << closed, wsocks, unquiet >>
    BY <1>d DEF Acquire, Visit, pages, history
  <2>2. \A s \in Thread : at[s] # "sending"  BY <1>s, <2>1, Numbers
  <2>3. \A s \in Thread : at'[s] = "sending" => s = t  BY <1>0, <2>1, <2>2 DEF ThreadsOK
  <2>4. \A s \in Thread : at'[s] = "dead" => at[s] = "dead"  BY <1>0, <2>1 DEF ThreadsOK
  <2>5. Listed' = Listed  BY <2>1 DEF Listed
  <2>6. size'[t] = Cardinality(Listed)  BY <1>0, <2>1 DEF LoopsOK
  <2>7. Quiet'  BY <2>1, <2>3, <2>4, <2>5, <2>6 DEF Quiet
  <2> QED  BY <1>q, <2>1, <2>3, <2>7
<1>e. ASSUME NEW t \in Thread, Send(t)  PROVE LockIsReturned' /\ Quiet'
  <2>0. at[t] = "sending" /\ UNCHANGED << closed, wsocks, unquiet >>
    BY <1>e DEF Send, pages, history
  <2>1. ASSUME NEW a \in Address, SendTo(t, a)  PROVE LockIsReturned' /\ Quiet'
    BY <1>2, <2>0, <2>1 DEF SendTo
  <2>2. CASE SendFails(t)
    <3>1. /\ at' = [at EXCEPT ![t] = "dead"] /\ lock' = lock
          /\ \/ Cardinality(Listed) # size[t]
             \/ \E a \in Listed \ visited[t] : wsocks[a] \in closed
      BY <2>2 DEF SendFails
    <3>2. unquiet  BY <2>0, <3>1 DEF Quiet
    <3>3. \A s \in Thread : at'[s] = "sending" => at[s] = "sending"
      BY <1>0, <3>1 DEF ThreadsOK
    <3>4. \A s \in Thread : at'[s] = "sending" => lock' = s  BY <1>s, <3>1, <3>3
    <3> QED  BY <1>q, <2>0, <3>2, <3>4 DEF Quiet
  <2>3. CASE Release(t)
    <3>1. /\ at' = [at EXCEPT ![t] = IF says[t] = "DOWN" THEN "delete" ELSE "reading"]
          /\ size' = [size EXCEPT ![t] = 0]
      BY <2>3 DEF Release, Visit
    <3>2. \A s \in Thread : s # t => size'[s] = size[s]  BY <1>0, <3>1 DEF LoopsOK
    <3> QED  BY <1>9, <2>0, <3>1, <3>2
  <2> QED  BY <1>e, <2>1, <2>2, <2>3 DEF Send
<1>f. ASSUME NEW t \in Thread, End(t)  PROVE LockIsReturned' /\ Quiet'
  BY <1>2, <1>f DEF End, pages, loops, history
<1>g. CASE UNCHANGED vars  BY <1>2, <1>g DEF vars, pages, loops, history
<1> QED
  BY <1>3, <1>4, <1>5, <1>6, <1>7, <1>8, <1>a, <1>b, <1>c, <1>d, <1>e, <1>f, <1>g
  DEF Next, HandleClick, Run

\* The lock is held by the thread that sends, and is never lost as long as no page
\* leaves, fails, or comes during a broadcast.
THEOREM LockAlwaysReturned == Spec => []LockIsReturned
<1>1. Init => LockInv
  BY Numbers DEF Init, LockInv, LockIsReturned, LockLost, Quiet
<1>2. LockInv => LockIsReturned  BY DEF LockInv
<1> QED  BY <1>1, <1>2, LockStep, TypeCorrect, PTL DEF Spec

-----------------------------------------------------------------------------
(***************************************************************************)
(* What the pages show                                                     *)
(***************************************************************************)

Connected(p) == pc[p] \in {"arrived", "greeting", "open"}

\* None of the exceptions of ShownIsTrue applies to a name on a page.
Fair(p, n) == p \notin closed /\ address[p] \notin doubled /\ n \notin raced /\ <<p, n>> \notin late

\* The page has had its greeting, as far as the name goes.
Telling(p, n)  == click.step = "tell" /\ click.page = p /\ click.name = n
Informed(p, n) == pc[p] = "open" \/ (pc[p] = "greeting" /\ n \in greeted[p] /\ ~Telling(p, n))

\* The thread is past the broadcast of UP and before that of DOWN ...
SaidUp(t) ==
    \/ at[t] = "reading"
    \/ says[t] = "DATA" /\ at[t] \in {"acquire", "sending"}
    \/ says[t] = "DOWN" /\ at[t] = "acquire"

\* ... or it is in one and has passed the address of the page.
HasTold(t, p) == at[t] = "sending" /\ address[p] \in visited[t]

Newest(t) == \A s \in Thread : name[s] = name[t] => s <= t

ShowsUp(p, t) ==
    (SaidUp(t) \/ (says[t] = "UP" /\ HasTold(t, p))) /\ Informed(p, name[t]) => name[t] \in shown[p]

ShowsDown(p, t) ==
    says[t] = "DOWN" /\ (HasTold(t, p) \/ at[t] \in {"delete", "done"}) /\ Connected(p) /\ Newest(t)
       => name[t] \notin shown[p]

ShownInv ==
    \A p \in Page, t \in Thread : Fair(p, name[t]) => ShowsUp(p, t) /\ ShowsDown(p, t)

\* A page that has not come is listed nowhere and shows nothing.
Unseen == \A p \in Page : pc[p] = "away" => shown[p] = {} /\ \A a \in Address : wsocks[a] # p

\* Processes are numbered as they start, and the listed one is the last.
InOrder     == \A s, t \in Thread : s < t /\ name[t] # None => name[s] # None
ListsNewest == \A n \in Name : procs[n] # 0 => Newest(procs[n])

-----------------------------------------------------------------------------
\* Where the page of an action is after it, and before.
LEMMA PagesMove ==
    ASSUME TypeOK, ClickedIsOpen, [Next]_vars, NEW p \in Page
    PROVE  /\ pc'[p] = "away" => pc[p] = "away"
           /\ Connected(p)' => Connected(p) \/ (pc[p] = "away" /\ pc'[p] = "arrived" /\ shown' = shown)
           /\ pc[p] # "away" => address'[p] = address[p]
<1>0. PagesOK  BY Parts
<1> USE DEF Connected
<1>1. ASSUME NEW q \in Page, NEW a \in Address, Connect(q, a)
      PROVE  /\ pc[q] = "away" /\ pc' = [pc EXCEPT ![q] = "arrived"]
             /\ address' = [address EXCEPT ![q] = a] /\ shown' = shown
  BY <1>1 DEF Connect
<1>2. ASSUME NEW q \in Page, Handler(q)
      PROVE  /\ address' = address
             /\ \/ pc' = pc
                \/ \E to \in {"greeting", "open"} : Connected(q) /\ pc' = [pc EXCEPT ![q] = to]
                \/ Connected(q) /\ pc' = [pc EXCEPT ![q] = "gone"]
  <2>1. CASE BeginGreeting(q)  BY <2>1 DEF BeginGreeting
  <2>2. CASE pc[q] = "greeting" /\ GreetFails(q)  BY <2>2 DEF GreetFails, Fail
  <2>3. CASE pc[q] = "greeting" /\ Greeted(q)  BY <2>3 DEF Greeted
  <2>4. CASE \E n \in Name : GreetWith(q, n)  BY <2>4 DEF GreetWith, pages, history
  <2>5. CASE Close(q)  BY <2>5 DEF Close
  <2> QED  BY <1>2, <2>1, <2>2, <2>3, <2>4, <2>5 DEF Handler, Greet
<1>3. ASSUME KeyError \/ TellFails
      PROVE  /\ click.page \in Page /\ Connected(click.page) /\ address' = address
             /\ pc' = [pc EXCEPT ![click.page] = "gone"]
  <2>1. click.page \in Page /\ pc[click.page] \in {"greeting", "open"}
    BY <1>3, Clicked DEF KeyError, TellFails, Proceed, ClickedIsOpen
  <2> QED  BY <1>3, <2>1 DEF KeyError, TellFails, Fail
<1>4. ASSUME \/ \E q \in Page : Leave(q) \/ \E n \in Name : Click(q, n)
             \/ Tell \/ Look \/ Poll \/ Terminate \/ (\E t \in Thread : Spawn(t)) \/ StartThread
             \/ \E t \in Thread : End(t) \/ ReadLine(t) \/ Run(t)
             \/ UNCHANGED vars
      PROVE  UNCHANGED << pc, address >>
  BY <1>4 DEF Leave, Click, Tell, Look, Poll, Terminate, Spawn, StartThread, End, ReadLine, Run,
              EndOfOutput, Acquire, Send, Delete, pages, vars
<1>5. ASSUME NEW q \in Page, NEW a \in Address, Connect(q, a)
      PROVE  /\ pc'[p] = "away" => pc[p] = "away"
             /\ Connected(p)' => Connected(p) \/ (pc[p] = "away" /\ pc'[p] = "arrived" /\ shown' = shown)
             /\ pc[p] # "away" => address'[p] = address[p]
  BY <1>0, <1>1, <1>5 DEF PagesOK
<1>6. ASSUME NEW q \in Page, Connected(q), address' = address,
             NEW to \in {"greeting", "open", "gone"}, pc' = [pc EXCEPT ![q] = to]
      PROVE  /\ pc'[p] = "away" => pc[p] = "away"
             /\ Connected(p)' => Connected(p)
  BY <1>0, <1>6 DEF PagesOK
<1> QED  BY <1>2, <1>3, <1>4, <1>5, <1>6 DEF Next, HandleClick

\* The exceptions, once made, stay.
LEMMA ExceptionsStay ==
    [Next]_vars => closed \subseteq closed' /\ doubled \subseteq doubled' /\ late \subseteq late'
<1> SUFFICES ASSUME [Next]_vars
             PROVE  closed \subseteq closed' /\ doubled \subseteq doubled' /\ late \subseteq late'
  OBVIOUS
<1>1. ASSUME NEW p \in Page, Handler(p) \/ Leave(p) \/ (\E a \in Address : Connect(p, a))
             \/ (\E n \in Name : Click(p, n))
      PROVE  closed \subseteq closed' /\ doubled \subseteq doubled' /\ late \subseteq late'
  BY <1>1 DEF Handler, BeginGreeting, Greet, GreetWith, GreetFails, Greeted, Fail, Close, Leave,
              Connect, Click, pages, history
<1>2. ASSUME HandleClick
      PROVE  closed \subseteq closed' /\ doubled \subseteq doubled' /\ late \subseteq late'
  BY <1>2 DEF HandleClick, KeyError, Fail, Tell, TellFails, Look, Poll, Terminate, Spawn, StartThread,
              pages, history
<1>3. ASSUME \/ \E t \in Thread : End(t) \/ ReadLine(t) \/ Run(t)
             \/ UNCHANGED vars
      PROVE  UNCHANGED << closed, doubled, late >>
  BY <1>3 DEF End, ReadLine, Run, EndOfOutput, Acquire, Send, Delete, pages, history, vars
<1> QED  BY <1>1, <1>2, <1>3 DEF Next

LEMMA FairBefore ==
    ASSUME TypeOK, ClickedIsOpen, [Next]_vars, NEW p \in Page, NEW n, pc[p] # "away", Fair(p, n)'
    PROVE  Fair(p, n)
BY PagesMove, ExceptionsStay, RacedGrows DEF Fair

\* A process keeps its name, ...
LEMMA NamesStay ==
    ASSUME TypeOK, [Next]_vars, NEW t \in Thread, name[t] # None
    PROVE  name'[t] = name[t]
<1>1. ASSUME NEW s \in Thread, Spawn(s)  PROVE name'[t] = name[t]
  BY <1>1 DEF Spawn, TypeOK
<1>2. ASSUME NEW p \in Page, Handler(p) \/ Leave(p) \/ (\E a \in Address : Connect(p, a))
             \/ (\E n \in Name : Click(p, n))
      PROVE  UNCHANGED name
  BY <1>2 DEF Handler, BeginGreeting, Greet, Close, Leave, Connect, Click, processes
<1>3. ASSUME KeyError \/ Tell \/ TellFails \/ Look \/ Poll \/ StartThread \/ Terminate  PROVE UNCHANGED name
  BY <1>3 DEF KeyError, Tell, TellFails, Look, Poll, StartThread, Terminate, processes
<1>4. ASSUME NEW s \in Thread, End(s) \/ ReadLine(s) \/ Run(s)  PROVE UNCHANGED name
  BY <1>4 DEF End, ReadLine, Run, EndOfOutput, Acquire, Send, Delete, processes
<1>5. UNCHANGED vars => UNCHANGED name  BY DEF vars, processes
<1> QED  BY <1>1, <1>2, <1>3, <1>4, <1>5 DEF Next, HandleClick

\* ... and before it has one its thread does nothing.
LEMMA NamelessRests ==
    ASSUME TypeOK, [Next]_vars, NEW t \in Thread, name[t] = None
    PROVE  at'[t] = "unborn"
<1>0. ThreadsOK /\ ProcsOK  BY Parts
<1>1. at[t] = "unborn"  BY <1>0 DEF ThreadsOK
<1>2. ASSUME StartThread  PROVE at'[t] = at[t]
  <2>1. click.name \in Name  BY <1>2, Clicked DEF StartThread, Proceed
  <2>2. procs[click.name] # 0 /\ at' = [at EXCEPT ![procs[click.name]] = "acquire"]
    BY <1>2 DEF StartThread
  <2>3. procs[click.name] # t  BY <1>0, <2>1, <2>2, Numbers DEF ProcsOK
  <2> QED  BY <1>0, <2>2, <2>3 DEF ThreadsOK
<1>3. ASSUME NEW s \in Thread, ReadLine(s) \/ Run(s)  PROVE at'[t] = at[t]
  <2>1. at[s] # "unborn"  BY <1>3 DEF ReadLine, Run, EndOfOutput, Acquire, Send, Delete
  <2>2. s # t  BY <1>1, <2>1
  <2> QED  BY <1>0, <1>3, <2>2
           DEF ReadLine, Run, EndOfOutput, Acquire, Send, SendTo, SendFails, Release, Delete,
               Broadcast, threads, ThreadsOK
<1>4. ASSUME NEW p \in Page, Handler(p) \/ Leave(p) \/ (\E a \in Address : Connect(p, a))
             \/ (\E n \in Name : Click(p, n))
      PROVE  UNCHANGED at
  BY <1>4 DEF Handler, BeginGreeting, Greet, Close, Leave, Connect, Click, threads
<1>5. ASSUME KeyError \/ Tell \/ TellFails \/ Look \/ Poll \/ Terminate \/ (\E s \in Thread : Spawn(s) \/ End(s))
             \/ UNCHANGED vars
      PROVE  UNCHANGED at
  BY <1>5 DEF KeyError, Tell, TellFails, Look, Poll, Terminate, Spawn, End, threads, vars
<1> QED  BY <1>1, <1>2, <1>3, <1>4, <1>5 DEF Next, HandleClick

LEMMA NewestBefore ==
    ASSUME TypeOK, [Next]_vars, NEW t \in Thread, name[t] # None, Newest(t)'
    PROVE  Newest(t)
<1> SUFFICES ASSUME NEW s \in Thread, name[s] = name[t]  PROVE s <= t  BY DEF Newest
<1>1. name'[s] = name[s] /\ name'[t] = name[t]  BY NamesStay
<1> QED  BY <1>1 DEF Newest

LEMMA NewestStep == TypeOK /\ InOrder /\ ListsNewest /\ [Next]_vars => InOrder' /\ ListsNewest'
<1> SUFFICES ASSUME TypeOK, InOrder, ListsNewest, [Next]_vars  PROVE InOrder' /\ ListsNewest'
  OBVIOUS
<1>0. ProcsOK  BY Parts
<1>1. ASSUME NEW t \in Thread, Spawn(t)  PROVE InOrder' /\ ListsNewest'
  <2>1. /\ click.name \in Name /\ name[t] = None /\ \A s \in Thread : s < t => name[s] # None
        /\ procs' = [procs EXCEPT ![click.name] = t] /\ name' = [name EXCEPT ![t] = click.name]
    BY <1>1, Clicked DEF Spawn, Proceed
  <2>2. \A s \in Thread : name[s] # None => s < t
    <3> SUFFICES ASSUME NEW s \in Thread, name[s] # None  PROVE s < t  OBVIOUS
    <3>1. ~(t < s) /\ s # t  BY <2>1 DEF InOrder
    <3> QED  BY <3>1, Numbers
  <2>3. InOrder'
    <3> SUFFICES ASSUME NEW r \in Thread, NEW s \in Thread, r < s, name'[s] # None
                 PROVE  name'[r] # None
      BY DEF InOrder
    <3>1. CASE s = t  BY <1>0, <2>1, <3>1, Numbers DEF ProcsOK
    <3>2. CASE s # t
      <4>1. name[r] # None  BY <1>0, <2>1, <3>2 DEF InOrder, ProcsOK
      <4> QED  BY <4>1, NamesStay
    <3> QED  BY <3>1, <3>2
  <2>4. ListsNewest'
    <3> SUFFICES ASSUME NEW n \in Name, procs'[n] # 0, NEW s \in Thread, name'[s] = name'[procs'[n]]
                 PROVE  s <= procs'[n]
      BY DEF ListsNewest, Newest
    <3>1. CASE n = click.name
      <4>1. procs'[n] = t /\ name'[t] = n  BY <1>0, <2>1, <3>1 DEF ProcsOK
      <4>2. s = t \/ name[s] = n  BY <1>0, <2>1, <4>1 DEF ProcsOK
      <4> QED  BY <2>2, <4>1, <4>2, Numbers
    <3>2. CASE n # click.name
      <4>1. procs'[n] = procs[n] /\ procs[n] \in Thread /\ name[procs[n]] = n
        BY <1>0, <2>1, <3>2 DEF ProcsOK
      <4>2. name'[procs[n]] = n  BY <4>1, NamesStay, Numbers
      <4>3. s # t /\ name[s] = n  BY <1>0, <2>1, <3>2, <4>1, <4>2 DEF ProcsOK
      <4> QED  BY <3>2, <4>1, <4>3 DEF ListsNewest, Newest
    <3> QED  BY <3>1, <3>2
  <2> QED  BY <2>3, <2>4
<1>2. ASSUME NEW t \in Thread, Delete(t)  PROVE InOrder' /\ ListsNewest'
  <2>1. procs' = [procs EXCEPT ![name[t]] = 0] /\ name' = name  BY <1>2 DEF Delete
  <2>2. \A n \in Name : procs'[n] # 0 => procs'[n] = procs[n]  BY <1>0, <2>1 DEF ProcsOK
  <2> QED  BY <2>1, <2>2 DEF InOrder, ListsNewest, Newest
<1>3. CASE UNCHANGED << procs, name >>  BY <1>3 DEF InOrder, ListsNewest, Newest
<1>4. ASSUME \/ \E p \in Page : Handler(p) \/ Leave(p) \/ (\E a \in Address : Connect(p, a))
                                \/ (\E n \in Name : Click(p, n))
             \/ KeyError \/ Tell \/ TellFails \/ Look \/ Poll \/ Terminate \/ StartThread
             \/ \E t \in Thread : End(t) \/ ReadLine(t) \/ EndOfOutput(t) \/ Acquire(t) \/ Send(t)
             \/ UNCHANGED vars
      PROVE  UNCHANGED << name, procs >>
  BY <1>4
  DEF Handler, BeginGreeting, Greet, Close, Leave, Connect, Click, KeyError, Tell, TellFails, Look, Poll,
      Terminate, StartThread, End, ReadLine, EndOfOutput, Acquire, Send, processes, vars
<1> QED  BY <1>1, <1>2, <1>3, <1>4 DEF Next, HandleClick, Run

LEMMA UnseenStep == TypeOK /\ ClickedIsOpen /\ Unseen /\ [Next]_vars => Unseen'
<1> SUFFICES ASSUME TypeOK, ClickedIsOpen, Unseen, [Next]_vars, NEW p \in Page, pc'[p] = "away"
             PROVE  shown'[p] = {} /\ \A a \in Address : wsocks'[a] # p
  BY DEF Unseen
<1>0. PagesOK /\ ShownOK  BY Parts
<1>1. pc[p] = "away" /\ shown[p] = {} /\ \A a \in Address : wsocks[a] # p
  BY PagesMove DEF Unseen
<1>2. ASSUME NEW q \in Page, NEW a \in Address, Connect(q, a)
      PROVE  shown'[p] = {} /\ \A b \in Address : wsocks'[b] # p
  <2>1. pc' = [pc EXCEPT ![q] = "arrived"] /\ wsocks' = [wsocks EXCEPT ![a] = q] /\ shown' = shown
    BY <1>2 DEF Connect
  <2>2. q # p  BY <1>0, <2>1 DEF PagesOK
  <2> QED  BY <1>0, <1>1, <2>1, <2>2 DEF PagesOK
<1>3. ASSUME NEW q \in Page, Handler(q)
      PROVE  shown'[p] = {} /\ \A b \in Address : wsocks'[b] # p
  <2>1. CASE Close(q)
    <3>1. wsocks' = [wsocks EXCEPT ![address[q]] = 0] /\ shown' = shown  BY <2>1 DEF Close
    <3> QED  BY <1>0, <1>1, <3>1, Numbers DEF PagesOK
  <2>2. ASSUME NEW n \in Name, GreetWith(q, n)
        PROVE  shown'[p] = {} /\ \A b \in Address : wsocks'[b] # p
    BY <1>1, <2>2 DEF GreetWith, pages
  <2>3. CASE BeginGreeting(q) \/ GreetFails(q) \/ Greeted(q)
    BY <1>1, <2>3 DEF BeginGreeting, GreetFails, Greeted, Fail
  <2> QED  BY <1>3, <2>1, <2>2, <2>3 DEF Handler, Greet
<1>4. ASSUME NEW t \in Thread, Send(t)
      PROVE  shown'[p] = {} /\ \A b \in Address : wsocks'[b] # p
  <2>1. wsocks' = wsocks  BY <1>4 DEF Send, pages
  <2>2. ASSUME NEW a \in Address, SendTo(t, a)  PROVE shown'[p] = {}
    <3>1. shown' = [shown EXCEPT ![wsocks[a]] = Heard(wsocks[a], t)]  BY <2>2 DEF SendTo
    <3> QED  BY <1>0, <1>1, <3>1 DEF ShownOK
  <2>3. SendFails(t) \/ Release(t) => shown' = shown  BY DEF SendFails, Release
  <2> QED  BY <1>1, <1>4, <2>1, <2>2, <2>3 DEF Send
<1>6. ASSUME Tell  PROVE shown'[p] = {} /\ \A b \in Address : wsocks'[b] # p
  <2>1. click.page # p  BY <1>1, <1>6 DEF Tell, Proceed, ClickedIsOpen
  <2>2. shown' = [shown EXCEPT ![click.page] = @ \cup {click.name}] /\ wsocks' = wsocks
    BY <1>6 DEF Tell, pages
  <2> QED  BY <1>0, <1>1, <2>1, <2>2 DEF ShownOK
<1>5. ASSUME \/ \E q \in Page : Leave(q) \/ (\E n \in Name : Click(q, n))
             \/ HandleClick /\ ~Tell
             \/ \E t \in Thread : End(t) \/ ReadLine(t) \/ EndOfOutput(t) \/ Acquire(t) \/ Delete(t)
             \/ UNCHANGED vars
      PROVE  UNCHANGED << shown, wsocks >>
  BY <1>5
  DEF Leave, Click, HandleClick, KeyError, Fail, TellFails, Look, Poll, Terminate, Spawn, StartThread, End,
      ReadLine, EndOfOutput, Acquire, Delete, pages, vars
<1> QED  BY <1>1, <1>2, <1>3, <1>4, <1>5, <1>6 DEF Next, Run

\* Of the threads of a name that was never overtaken, one at most is not over, and
\* that is the last to have started.
LEMMA OnlyOne ==
    ASSUME TypeOK, PendingIsListed, ListsNewest, NEW t \in Thread, NEW u \in Thread,
           name[t] # None, name[u] = name[t], name[t] \notin raced,
           Pending(u) \/ procs[name[t]] = u, Pending(t) \/ Newest(t)
    PROVE  u = t /\ procs[name[t]] = t
<1>1. name[t] \in Name /\ t # 0 /\ u # 0  BY Numbers DEF TypeOK
<1>2. procs[name[t]] = u  BY DEF PendingIsListed
<1>3. CASE Pending(t)  BY <1>2, <1>3 DEF PendingIsListed
<1>4. CASE Newest(t)
  <2>1. u <= t  BY <1>4 DEF Newest
  <2>2. t <= u  BY <1>1, <1>2 DEF ListsNewest, Newest
  <2> QED  BY <1>2, <2>1, <2>2, Numbers
<1> QED  BY <1>3, <1>4

\* A page and a thread that a step does not touch.
LEMMA ShownKept ==
    ASSUME NEW p \in Page, NEW t \in Thread, ShowsUp(p, t), ShowsDown(p, t),
           at'[t] = at[t], says'[t] = says[t], name'[t] = name[t], visited'[t] = visited[t],
           address'[p] = address[p], Connected(p)' => Connected(p),
           Informed(p, name[t])' => Informed(p, name[t]),
           name[t] \in shown'[p] <=> name[t] \in shown[p], Newest(t)' => Newest(t)
    PROVE  ShowsUp(p, t)' /\ ShowsDown(p, t)'
BY DEF ShowsUp, ShowsDown, SaidUp, HasTold, Informed

\* A name that was picked for a page is told, or the page is gone.
LEMMA TellEnds ==
    ASSUME [Next]_vars, click.step = "tell", ~Tell, ~TellFails
    PROVE  click' = click
<1>1. click # NoClick  BY DEF NoClick
<1>2. ASSUME NEW p \in Page, Handler(p) \/ (\E a \in Address : Connect(p, a))
             \/ (\E n \in Name : Click(p, n))
      PROVE  FALSE
  BY <1>1, <1>2 DEF Handler, BeginGreeting, Greet, Close, Connect, Click
<1>3. ~HandleClick
  BY DEF HandleClick, KeyError, Look, Poll, Terminate, Spawn, StartThread, Proceed
<1>4. ASSUME \/ \E p \in Page : Leave(p)
             \/ \E t \in Thread : End(t) \/ ReadLine(t) \/ Run(t)
             \/ UNCHANGED vars
      PROVE  click' = click
  BY <1>4 DEF Leave, End, ReadLine, Run, EndOfOutput, Acquire, Send, Delete, vars
<1> QED  BY <1>2, <1>3, <1>4 DEF Next

\* The page is told a name.
LEMMA TellShown ==
    ASSUME TypeOK, ListsNewest, ClickedIsOpen,
           NEW t \in Thread, name[t] # None, Newest(t)' => Newest(t), Tell,
           NEW p \in Page, Connected(p), ShowsUp(p, t), ShowsDown(p, t), Fair(p, name[t])'
    PROVE  ShowsUp(p, t)' /\ ShowsDown(p, t)'
<1>0. ShownOK /\ ProcsOK /\ name[t] \in Name  BY Parts DEF ProcsOK
<1>1. /\ click.step = "tell" /\ click.page \in Page
      /\ shown' = [shown EXCEPT ![click.page] = @ \cup {click.name}]
      /\ late' = IF procs[click.name] = 0 \/ Down(procs[click.name])
                 THEN late \cup {<<click.page, click.name>>} ELSE late
      /\ UNCHANGED << pc, address, greeted, at, says, name, visited >>
  BY Clicked DEF Tell, Proceed, pages, processes, threads, loops
<1>2. CASE Telling(p, name[t])
  <2>1. name[t] \in shown'[p]  BY <1>0, <1>1, <1>2 DEF ShownOK, Telling
  <2>2. procs[name[t]] # 0 /\ ~Down(procs[name[t]])
    BY <1>1, <1>2 DEF Telling, Fair
  <2>3. says[t] = "DOWN" /\ at[t] \in {"sending", "delete", "done"} => ~Newest(t)
    <3> SUFFICES ASSUME says[t] = "DOWN", at[t] \in {"sending", "delete", "done"}, Newest(t)
                 PROVE  FALSE
      OBVIOUS
    <3>1. procs[name[t]] \in Thread /\ name[procs[name[t]]] = name[t]
      BY <1>0, <2>2 DEF ProcsOK
    <3>2. t <= procs[name[t]] /\ procs[name[t]] <= t
      BY <1>0, <2>2, <3>1 DEF ListsNewest, Newest
    <3>3. procs[name[t]] = t  BY <3>1, <3>2, Numbers
    <3> QED  BY <2>2, <3>3 DEF Down
  <2>4. ShowsUp(p, t)'  BY <1>1, <2>1 DEF ShowsUp
  <2>5. ShowsDown(p, t)'  BY <1>1, <2>3 DEF ShowsDown, HasTold
  <2> QED  BY <2>4, <2>5
<1>3. CASE ~Telling(p, name[t])
  <2>1. name[t] \in shown'[p] <=> name[t] \in shown[p]
    BY <1>0, <1>1, <1>3 DEF ShownOK, Telling
  <2>2. Informed(p, name[t])' => Informed(p, name[t])  BY <1>1, <1>3 DEF Informed
  <2> QED  BY <1>1, <2>1, <2>2, ShownKept DEF Connected
<1> QED  BY <1>2, <1>3

\* The page greets.
LEMMA GreetShown ==
    ASSUME TypeOK, PendingIsListed, ListsNewest, ClickedIsOpen, [Next]_vars,
           NEW p \in Page, NEW t \in Thread, Connected(p), name[t] # None, Newest(t)' => Newest(t),
           ShowsUp(p, t), ShowsDown(p, t), Fair(p, name[t]), Greet(p)
    PROVE  ShowsUp(p, t)' /\ ShowsDown(p, t)'
<1>0. PagesOK /\ LoopsOK /\ ProcsOK /\ name[t] \in Name  BY Parts DEF ProcsOK
<1>1. UNCHANGED << at, says, name, visited, address, raced >> /\ pc[p] = "greeting"
  BY DEF Greet, GreetWith, GreetFails, Greeted, Fail, Iterate, threads, processes, pages, loops, history
<1>2. ASSUME NEW n \in Name, GreetWith(p, n)  PROVE ShowsUp(p, t)' /\ ShowsDown(p, t)'
  <2>1. /\ pc' = pc /\ shown' = shown /\ greeted' = [greeted EXCEPT ![p] = @ \cup {n}]
        /\ click' = [page |-> p, name |-> n, step |-> "tell"] /\ click = NoClick
    BY <1>2 DEF GreetWith, Greet, pages
  <2>2. Telling(p, n)' /\ ~Telling(p, name[t])  BY <2>1 DEF Telling, NoClick
  <2>3. name[t] # n /\ name[t] \in greeted'[p] => name[t] \in greeted[p]
    BY <1>0, <2>1 DEF LoopsOK
  <2>4. Informed(p, name[t])' => Informed(p, name[t])
    BY <1>1, <2>1, <2>2, <2>3 DEF Informed
  <2> QED  BY <1>1, <2>1, <2>4, ShownKept DEF Connected
<1>3. CASE GreetFails(p)
  <2>1. pc' = [pc EXCEPT ![p] = "gone"]  BY <1>3 DEF GreetFails, Fail
  <2>2. pc'[p] = "gone"  BY <1>0, <2>1 DEF PagesOK
  <2> QED  BY <2>2 DEF ShowsUp, ShowsDown, Informed, Connected
<1>4. CASE Greeted(p)
  <2>1. Known \subseteq greeted[p] /\ shown' = shown  BY <1>4 DEF Greeted
  <2>2. ShowsUp(p, t)'
    <3> SUFFICES ASSUME SaidUp(t) \/ (says[t] = "UP" /\ HasTold(t, p))  PROVE name[t] \in shown[p]
      BY <1>1, <2>1 DEF ShowsUp, SaidUp, HasTold
    <3>1. Pending(t)  BY DEF SaidUp, HasTold, Pending
    <3>2. procs[name[t]] = t  BY <3>1 DEF PendingIsListed, Fair
    <3>3. name[t] \in greeted[p]  BY <1>0, <2>1, <3>2, Numbers DEF Known
    <3>4. ~Telling(p, name[t])  BY DEF Greet, Telling, NoClick
    <3> QED  BY <1>1, <3>3, <3>4 DEF ShowsUp, Informed
  <2>3. ShowsDown(p, t)'  BY <1>1, <2>1 DEF ShowsDown, HasTold, Connected
  <2> QED  BY <2>2, <2>3
<1> QED  BY <1>2, <1>3, <1>4 DEF Greet

\* The thread moves on.
LEMMA RunShown ==
    ASSUME TypeOK, PendingIsListed, ListsNewest, OpenIsListed, Addressed, DownIsDead,
           NEW p \in Page, NEW t \in Thread, Connected(p), name[t] # None, Newest(t)' => Newest(t),
           ShowsUp(p, t), ShowsDown(p, t), Fair(p, name[t]), ReadLine(t) \/ Run(t)
    PROVE  ShowsUp(p, t)' /\ ShowsDown(p, t)'
<1>0. ThreadsOK /\ LoopsOK /\ ShownOK /\ PagesOK /\ ProcsOK  BY Parts
<1>1. UNCHANGED << click, name, pc, address, greeted, wsocks >>
  BY DEF ReadLine, Run, EndOfOutput, Acquire, Visit, Send, SendTo, SendFails, Release, Delete,
         processes, pages, loops
<1>2. address[p] \in Address /\ wsocks[address[p]] = p
  BY DEF Connected, Addressed, OpenIsListed, Fair
<1>3. Informed(p, name[t])' <=> Informed(p, name[t])  BY <1>1 DEF Informed, Telling
<1>4. CASE ReadLine(t)
  <2>1. /\ at[t] = "reading" /\ shown' = shown /\ at'[t] = "acquire" /\ says'[t] = "DATA"
    BY <1>0, <1>4 DEF ReadLine, Broadcast, ThreadsOK
  <2> QED  BY <1>1, <1>3, <2>1 DEF ShowsUp, ShowsDown, SaidUp, HasTold
<1>5. CASE EndOfOutput(t)
  <2>1. /\ at[t] = "reading" /\ shown' = shown /\ at'[t] = "acquire" /\ says'[t] = "DOWN"
    BY <1>0, <1>5 DEF EndOfOutput, Broadcast, ThreadsOK
  <2> QED  BY <1>1, <1>3, <2>1 DEF ShowsUp, ShowsDown, SaidUp, HasTold
<1>6. CASE Acquire(t)
  <2>1. /\ at[t] = "acquire" /\ shown' = shown /\ at'[t] = "sending" /\ says'[t] = says[t]
        /\ visited'[t] = {}
    BY <1>0, <1>6 DEF Acquire, Visit, ThreadsOK, LoopsOK
  <2> QED  BY <1>0, <1>1, <1>3, <2>1 DEF ShowsUp, ShowsDown, SaidUp, HasTold, ThreadsOK
<1>7. ASSUME NEW a \in Address, at[t] = "sending", SendTo(t, a)
      PROVE  ShowsUp(p, t)' /\ ShowsDown(p, t)'
  <2>1. /\ UNCHANGED << at, says >> /\ visited' = [visited EXCEPT ![t] = @ \cup {a}]
        /\ shown' = [shown EXCEPT ![wsocks[a]] = Heard(wsocks[a], t)] /\ a \in Listed
    BY <1>7 DEF SendTo, threads
  <2>2. visited'[t] = visited[t] \cup {a}  BY <1>0, <2>1 DEF LoopsOK
  <2>3. shown'[p] = IF wsocks[a] = p THEN Heard(p, t) ELSE shown[p]
    BY <1>0, <2>1 DEF ShownOK
  <2>4. CASE says[t] = "UP"
    <3>1. Heard(p, t) = shown[p] \cup {name[t]}  BY <2>4 DEF Heard
    <3>2. HasTold(t, p)' => HasTold(t, p) \/ a = address[p]
      BY <1>1, <2>1, <2>2 DEF HasTold
    <3>3. a = address[p] \/ name[t] \in shown[p] => name[t] \in shown'[p]
      BY <1>2, <2>3, <3>1
    <3> QED  BY <1>1, <1>3, <1>7, <2>1, <2>4, <3>2, <3>3 DEF ShowsUp, ShowsDown, SaidUp
  <2>5. CASE says[t] = "DATA"
    <3>1. Heard(p, t) = shown[p]  BY <2>5 DEF Heard
    <3>2. shown'[p] = shown[p]  BY <2>3, <3>1
    <3> QED  BY <1>1, <1>3, <1>7, <2>1, <2>5, <3>2 DEF ShowsUp, ShowsDown, SaidUp
  <2>6. CASE says[t] = "DOWN"
    <3>1. Heard(p, t) = shown[p] \ {name[t]}  BY <2>6 DEF Heard
    <3>2. HasTold(t, p)' => HasTold(t, p) \/ a = address[p]
      BY <1>1, <2>1, <2>2 DEF HasTold
    <3>3. a = address[p] \/ name[t] \notin shown[p] => name[t] \notin shown'[p]
      BY <1>2, <2>3, <3>1
    <3> QED  BY <1>1, <1>3, <1>7, <2>1, <2>6, <3>2, <3>3 DEF ShowsUp, ShowsDown, SaidUp
  <2> QED  BY <1>0, <2>4, <2>5, <2>6 DEF ThreadsOK
<1>8. CASE at[t] = "sending" /\ SendFails(t)
  <2>1. at'[t] = "dead"  BY <1>0, <1>8 DEF SendFails, ThreadsOK
  <2>2. says'[t] = says[t]  BY <1>8 DEF SendFails
  <2> QED  BY <2>1, <2>2 DEF ShowsUp, ShowsDown, SaidUp, HasTold
<1>9. CASE at[t] = "sending" /\ Release(t)
  <2>1. /\ Listed \subseteq visited[t] /\ UNCHANGED << says, shown >>
        /\ at'[t] = IF says[t] = "DOWN" THEN "delete" ELSE "reading"
    BY <1>0, <1>9 DEF Release, ThreadsOK
  <2>2. address[p] \in visited[t]  BY <1>2, <2>1, Numbers DEF Listed
  <2> QED  BY <1>0, <1>1, <1>3, <1>9, <2>1, <2>2 DEF ShowsUp, ShowsDown, SaidUp, HasTold, ThreadsOK
<1>a. CASE Delete(t)
  <2>1. at[t] = "delete" /\ at'[t] = "done" /\ UNCHANGED << says, shown >>
    BY <1>0, <1>a DEF Delete, ThreadsOK
  <2> QED  BY <1>1, <2>1 DEF ShowsUp, ShowsDown, SaidUp, HasTold, DownIsDead
<1> QED  BY <1>4, <1>5, <1>6, <1>7, <1>8, <1>9, <1>a DEF Run, Send

\* Another thread moves on.
LEMMA OtherShown ==
    ASSUME TypeOK, PendingIsListed, ListsNewest,
           NEW p \in Page, NEW t \in Thread, Connected(p), name[t] # None, Newest(t)' => Newest(t),
           ShowsUp(p, t), ShowsDown(p, t), Fair(p, name[t]),
           NEW u \in Thread, u # t, ReadLine(u) \/ Run(u)
    PROVE  ShowsUp(p, t)' /\ ShowsDown(p, t)'
<1>0. ThreadsOK /\ LoopsOK /\ ShownOK /\ PagesOK /\ ProcsOK  BY Parts
<1>1. UNCHANGED << click, name, pc, address, greeted >>
  BY DEF ReadLine, Run, EndOfOutput, Acquire, Visit, Send, SendTo, SendFails, Release, Delete,
         processes, pages, loops
<1>2. at'[t] = at[t] /\ says'[t] = says[t] /\ visited'[t] = visited[t]
  BY <1>0
  DEF ReadLine, Run, EndOfOutput, Acquire, Visit, Send, SendTo, SendFails, Release, Delete,
      Broadcast, threads, loops, ThreadsOK, LoopsOK
<1>3. CASE name[t] \in shown'[p] <=> name[t] \in shown[p]
  BY <1>1, <1>2, <1>3, ShownKept DEF Informed, Telling, Connected
<1>4. ASSUME NEW a \in Address, at[u] = "sending", SendTo(u, a)
      PROVE  ShowsUp(p, t)' /\ ShowsDown(p, t)'
  <2>1. name[u] # None /\ Pending(u)  BY <1>0, <1>4 DEF ThreadsOK, Pending
  <2>2. CASE name[u] = name[t]
    <3>1. ~Pending(t) /\ ~Newest(t)  BY <2>1, <2>2, OnlyOne DEF Fair
    <3> QED  BY <1>1, <1>2, <3>1 DEF ShowsUp, ShowsDown, SaidUp, HasTold, Pending
  <2>3. CASE name[u] # name[t]
    <3>1. shown' = [shown EXCEPT ![wsocks[a]] = Heard(wsocks[a], u)]  BY <1>4 DEF SendTo
    <3>2. name[t] \in Heard(p, u) <=> name[t] \in shown[p]  BY <1>0, <2>3 DEF Heard, ThreadsOK
    <3> QED  BY <1>0, <1>3, <3>1, <3>2 DEF ShownOK
  <2> QED  BY <2>2, <2>3
<1>5. ASSUME ReadLine(u) \/ EndOfOutput(u) \/ Acquire(u) \/ Delete(u) \/ SendFails(u) \/ Release(u)
      PROVE  shown' = shown
  BY <1>5 DEF ReadLine, EndOfOutput, Acquire, Delete, SendFails, Release
<1> QED  BY <1>3, <1>4, <1>5 DEF Run, Send

LEMMA ShownInvStep ==
    TypeOK /\ ClickedIsOpen /\ TableInv /\ DownIsDead /\ PendingIsListed
        /\ ListsNewest /\ Unseen /\ ShownInv /\ [Next]_vars => ShownInv'
<1> SUFFICES ASSUME TypeOK, ClickedIsOpen, Addressed, OpenIsListed, DownIsDead, PendingIsListed,
                    ListsNewest, Unseen, ShownInv, [Next]_vars,
                    NEW p \in Page, NEW t \in Thread, Fair(p, name[t])'
             PROVE  ShowsUp(p, t)' /\ ShowsDown(p, t)'
  BY DEF ShownInv, TableInv
<1>0. ProcsOK /\ ThreadsOK /\ PagesOK /\ LoopsOK  BY Parts
<1>1. CASE ~Connected(p)'
  BY <1>1 DEF ShowsUp, ShowsDown, Informed, Connected
<1>2. CASE name[t] = None
  <2>1. at'[t] = "unborn"  BY <1>2, NamelessRests
  <2> QED  BY <2>1 DEF ShowsUp, ShowsDown, SaidUp, HasTold
<1>3. CASE Connected(p)' /\ ~Connected(p)
  <2>1. pc[p] = "away" /\ pc'[p] = "arrived" /\ shown'[p] = {}
    BY <1>3, PagesMove DEF Unseen
  <2> QED  BY <2>1 DEF ShowsUp, ShowsDown, Informed
<1>4. CASE Connected(p)' /\ Connected(p) /\ name[t] # None
  <2>1. name'[t] = name[t]  BY <1>4, NamesStay
  <2>2. address'[p] = address[p] /\ pc[p] # "away"  BY <1>4, PagesMove DEF Connected
  <2>3. Fair(p, name[t])  BY <2>1, <2>2, FairBefore DEF Fair
  <2>4. ShowsUp(p, t) /\ ShowsDown(p, t)  BY <2>3 DEF ShownInv
  <2>5. Newest(t)' => Newest(t)  BY <1>4, NewestBefore
  <2>k. ASSUME at'[t] = at[t], says'[t] = says[t], UNCHANGED << visited, greeted, shown >>,
               pc'[p] = pc[p], ~Tell, ~TellFails
        PROVE  ShowsUp(p, t)' /\ ShowsDown(p, t)'
    <3>1. Telling(p, name[t]) => Telling(p, name[t])'  BY <2>k, <2>1, TellEnds DEF Telling
    <3>2. Informed(p, name[t])' => Informed(p, name[t])  BY <2>1, <2>k, <3>1 DEF Informed
    <3> QED  BY <1>4, <2>1, <2>2, <2>4, <2>5, <2>k, <3>2, ShownKept
  <2>q. click = NoClick => ~Telling(p, name[t]) /\ ~Tell /\ ~TellFails
    BY DEF NoClick, Telling, Tell, TellFails, Proceed
  <2>6. ASSUME NEW q \in Page, NEW a \in Address, Connect(q, a)
        PROVE  ShowsUp(p, t)' /\ ShowsDown(p, t)'
    <3>1. q # p /\ ~Tell /\ ~TellFails  BY <2>2, <2>6, <2>q DEF Connect
    <3> QED  BY <1>0, <2>k, <2>6, <3>1 DEF Connect, threads, loops, PagesOK
  <2>7. ASSUME NEW q \in Page, Leave(q) \/ (\E n \in Name : Click(q, n))
        PROVE  ShowsUp(p, t)' /\ ShowsDown(p, t)'
    <3>1. UNCHANGED << at, says, visited, greeted, shown, pc >>
      BY <2>7 DEF Leave, Click, pages, threads, loops
    <3>2. CASE \E n \in Name : Click(q, n)
      <4>1. ~Tell /\ ~TellFails  BY <3>2, <2>q DEF Click
      <4> QED  BY <2>k, <3>1, <4>1
    <3>3. CASE Leave(q)
      <4>1. click' = click  BY <3>3 DEF Leave
      <4>2. Informed(p, name[t])' => Informed(p, name[t])
        BY <2>1, <3>1, <4>1 DEF Informed, Telling
      <4> QED  BY <1>4, <2>1, <2>2, <2>4, <2>5, <3>1, <4>2, ShownKept
    <3> QED  BY <2>7, <3>2, <3>3
  <2>8. ASSUME NEW q \in Page, BeginGreeting(q)  PROVE ShowsUp(p, t)' /\ ShowsDown(p, t)'
    <3>1. /\ pc' = [pc EXCEPT ![q] = "greeting"] /\ greeted' = [greeted EXCEPT ![q] = {}]
          /\ UNCHANGED << at, says, visited, shown >> /\ click = NoClick
      BY <2>8 DEF BeginGreeting, Iterate, threads
    <3>2. Informed(p, name[t])' => Informed(p, name[t])
      BY <1>0, <2>1, <2>q, <3>1 DEF Informed, PagesOK, LoopsOK
    <3> QED  BY <1>4, <2>1, <2>2, <2>4, <2>5, <3>1, <3>2, ShownKept
  <2>9. ASSUME NEW q \in Page, Greet(q)  PROVE ShowsUp(p, t)' /\ ShowsDown(p, t)'
    <3>1. CASE q = p  BY <1>4, <2>1, <2>3, <2>4, <2>5, <2>9, <3>1, GreetShown DEF Fair
    <3>2. CASE q # p
      <4>1. /\ pc'[p] = pc[p] /\ greeted'[p] = greeted[p] /\ shown'[p] = shown[p]
            /\ UNCHANGED << at, says, visited >> /\ click = NoClick
        BY <1>0, <2>9, <3>2, Parts
        DEF Greet, GreetWith, GreetFails, Greeted, Fail, Iterate, threads, pages, PagesOK, LoopsOK,
            ShownOK
      <4>2. Informed(p, name[t])' => Informed(p, name[t])
        BY <2>1, <2>q, <4>1 DEF Informed
      <4> QED  BY <1>4, <2>1, <2>2, <2>4, <2>5, <4>1, <4>2, ShownKept
    <3> QED  BY <3>1, <3>2
  <2>a. ASSUME NEW q \in Page, Close(q)  PROVE ShowsUp(p, t)' /\ ShowsDown(p, t)'
    <3>1. /\ pc' = [pc EXCEPT ![q] = "gone"] /\ UNCHANGED << at, says, visited, greeted, shown >>
          /\ ~Tell /\ ~TellFails
      BY <2>a, <2>q DEF Close, threads, loops
    <3>2. q # p  BY <1>0, <1>4, <3>1 DEF Connected, PagesOK
    <3> QED  BY <1>0, <2>k, <3>1, <3>2 DEF PagesOK
  <2>b. ASSUME KeyError  PROVE ShowsUp(p, t)' /\ ShowsDown(p, t)'
    <3>1. /\ pc' = [pc EXCEPT ![click.page] = "gone"]
          /\ UNCHANGED << at, says, visited, greeted, shown >> /\ ~Tell /\ ~TellFails
      BY <2>b DEF KeyError, Fail, threads, loops, Tell, TellFails, Proceed
    <3>2. click.page # p  BY <1>0, <1>4, <3>1 DEF Connected, PagesOK
    <3> QED  BY <1>0, <2>k, <3>1, <3>2 DEF PagesOK
  <2>u. ASSUME UNCHANGED << at, says, visited, greeted, shown, pc, click >>
        PROVE  ShowsUp(p, t)' /\ ShowsDown(p, t)'
    <3>1. Informed(p, name[t])' => Informed(p, name[t])
      BY <2>1, <2>u DEF Informed, Telling
    <3> QED  BY <1>4, <2>1, <2>2, <2>4, <2>5, <2>u, <3>1, ShownKept
  <2>c. ASSUME Look \/ Poll \/ Terminate \/ (\E s \in Thread : Spawn(s))
        PROVE  ShowsUp(p, t)' /\ ShowsDown(p, t)'
    <3>1. UNCHANGED << at, says, visited, greeted, shown, pc >>
      BY <2>c DEF Look, Poll, Terminate, Spawn, pages, threads, loops
    <3>2. ~Tell /\ ~TellFails
      BY <2>c DEF Look, Poll, Terminate, Spawn, Tell, TellFails, Proceed
    <3> QED  BY <2>k, <3>1, <3>2
  <2>f. ASSUME (\E s \in Thread : End(s)) \/ UNCHANGED vars
        PROVE  ShowsUp(p, t)' /\ ShowsDown(p, t)'
    BY <2>u, <2>f DEF End, pages, threads, loops, vars
  <2>g. ASSUME TellFails  PROVE ShowsUp(p, t)' /\ ShowsDown(p, t)'
    <3>1. /\ pc' = [pc EXCEPT ![click.page] = "gone"] /\ click.page \in Page
          /\ greeted' = [greeted EXCEPT ![click.page] = {}]
          /\ UNCHANGED << at, says, visited, shown >> /\ click.step = "tell"
      BY <2>g, Clicked DEF TellFails, Fail, Iterate, Proceed, threads
    <3>2. click.page # p  BY <1>0, <1>4, <3>1 DEF Connected, PagesOK
    <3>3. greeted'[p] = greeted[p] /\ pc'[p] = pc[p]
      BY <1>0, <3>1, <3>2 DEF PagesOK, LoopsOK
    <3>4. Informed(p, name[t])' => Informed(p, name[t])
      BY <2>1, <3>2, <3>3 DEF Informed, Telling
    <3> QED  BY <1>4, <2>1, <2>2, <2>4, <2>5, <3>1, <3>3, <3>4, ShownKept
  <2>h. ASSUME Tell  PROVE ShowsUp(p, t)' /\ ShowsDown(p, t)'
    BY <1>4, <2>1, <2>4, <2>5, <2>h, TellShown DEF Fair
  <2>d. ASSUME StartThread  PROVE ShowsUp(p, t)' /\ ShowsDown(p, t)'
    <3>1. /\ at' = [at EXCEPT ![procs[click.name]] = "acquire"]
          /\ says' = [says EXCEPT ![procs[click.name]] = "UP"]
          /\ UNCHANGED << pc, visited, greeted, shown >> /\ ~Tell /\ ~TellFails
      BY <2>d DEF StartThread, pages, loops, Tell, TellFails, Proceed
    <3>2. CASE procs[click.name] = t
      <4>1. at'[t] = "acquire" /\ says'[t] = "UP"  BY <1>0, <3>1, <3>2 DEF ThreadsOK
      <4> QED  BY <4>1 DEF ShowsUp, ShowsDown, SaidUp, HasTold
    <3>3. CASE procs[click.name] # t
      <4>1. at'[t] = at[t] /\ says'[t] = says[t]  BY <1>0, <3>1, <3>3 DEF ThreadsOK
      <4> QED  BY <2>k, <3>1, <4>1
    <3> QED  BY <3>2, <3>3
  <2>e. ASSUME NEW u \in Thread, ReadLine(u) \/ Run(u)  PROVE ShowsUp(p, t)' /\ ShowsDown(p, t)'
    <3>1. CASE u = t  BY <1>4, <2>3, <2>4, <2>5, <2>e, <3>1, RunShown
    <3>2. CASE u # t  BY <1>4, <2>3, <2>4, <2>5, <2>e, <3>2, OtherShown
    <3> QED  BY <3>1, <3>2
  <2> QED
    BY <2>6, <2>7, <2>8, <2>9, <2>a, <2>b, <2>c, <2>d, <2>e, <2>f, <2>g, <2>h DEF Next, Handler, HandleClick
<1> QED  BY <1>1, <1>2, <1>3, <1>4

LEMMA ShownMeans == TypeOK /\ ShownInv => ShownIsTrue
<1> SUFFICES ASSUME TypeOK, ShownInv, NEW p \in Page, NEW n \in Name, pc[p] = "open", Fair(p, n),
                    NEW t \in Thread, name[t] = n
             PROVE  /\ at[t] = "reading" => n \in shown[p]
                    /\ Down(t) /\ at[t] \in {"delete", "done"} =>
                         n \notin shown[p] \/ \E s \in Thread : s > t /\ name[s] = n
  BY DEF ShownIsTrue, Fair
<1>1. ShowsUp(p, t) /\ ShowsDown(p, t)  BY DEF ShownInv
<1>2. Newest(t) \/ \E s \in Thread : s > t /\ name[s] = n  BY Numbers DEF Newest
<1> QED  BY <1>1, <1>2 DEF ShowsUp, ShowsDown, SaidUp, Informed, Connected, Down

\* What an open page shows of a name is what its thread has said last, unless the page
\* was greeted with a process said to be DOWN, or one of the two tables has lost it
\* (webserver.py:46, 54-55, 61-73).
THEOREM ShownAlwaysTrue == Spec => []ShownIsTrue
<1>1. Init => /\ TableInv /\ ClickedIsOpen /\ ProcsInv
              /\ InOrder /\ ListsNewest /\ Unseen /\ ShownInv
  <2> SUFFICES ASSUME Init  PROVE /\ TableInv /\ ClickedIsOpen /\ ProcsInv
                                  /\ InOrder /\ ListsNewest /\ Unseen /\ ShownInv
    OBVIOUS
  <2>1. TableInv /\ ClickedIsOpen
    BY DEF Init, TableInv, Addressed, OpenIsListed, ClickedIsOpen, NoClick
  <2>2. ProcsInv
    BY Numbers DEF Init, ProcsInv, DownIsDead, PendingIsListed, Pending, SpawnIsFree, LiveIsListed,
                   NoClick
  <2>3. InOrder /\ ListsNewest  BY DEF Init, InOrder, ListsNewest
  <2>4. Unseen  BY Numbers DEF Init, Unseen
  <2>5. ShownInv  BY DEF Init, ShownInv, ShowsUp, ShowsDown, SaidUp, HasTold, Informed
  <2> QED  BY <2>1, <2>2, <2>3, <2>4, <2>5
<1>2. TypeOK /\ ProcsInv /\ [Next]_vars => ProcsInv'
  BY DownStep, PendingStep, SpawnStep, LiveStep DEF ProcsInv
<1>3. ProcsInv => DownIsDead /\ PendingIsListed  BY DEF ProcsInv
<1> QED
  BY <1>1, <1>2, <1>3, TableStep, ClickedStep, NewestStep, UnseenStep, ShownInvStep, ShownMeans,
     TypeCorrect, PTL DEF Spec

=============================================================================
