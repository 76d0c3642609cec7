-------------------------- MODULE LinkServer_proofs --------------------------
(***************************************************************************)
(* Proofs about LinkServer, for any links, positions and delays.           *)
(***************************************************************************)
EXTENDS LinkServer, TLAPS, FiniteSetTheorems

\* The ASIC links that showed a BX0 word showed it at the target.
AsicAgrees ==
    /\ \E l \in Link : shown["asic"][l] = target
    /\ \A l \in Link : shown["asic"][l] \in {target, NoPos}

\* What an alignment under way knows.
AlignInv ==
    /\ ReadyIsEarned
    /\ cmd \in AlignStep => linkstatus = "NOT_READY"
    /\ cmd = "emulator" => AsicAgrees

\* What a delay scan has done of the delay in hand: a link that is not to do
\* any more has it, the link under test has been told.
ScanInv ==
    /\ cmd \in {"set", "test", "count"} =>
          \A l \in fromIO \ todo :
             delay_mode[l] = "manual" /\ delay_in[l] = scan /\ delay_out[l] = scan
    /\ cmd = "test" => /\ elink \in todo
                       /\ delay_mode[elink] = "manual" /\ delay_in[elink] = scan
    /\ cmd = "count" => todo = {}
    /\ cmd = "scanStart" => todo = fromIO

-----------------------------------------------------------------------------
\* findBX0 succeeds only on positions that agree, and agree with the position
\* it was given, if any.
LEMMA FoundAgrees ==
    ASSUME NEW seen \in Shown, NEW p, findBX0(seen, NoPos), p \in Positions(seen)
    PROVE  /\ p \in Position
           /\ \E l \in Link : seen[l] = p
           /\ \A l \in Link : seen[l] \in {p, NoPos}
<1>1. PICK q \in Positions(seen) : Positions(seen) = {q}
  BY DEF findBX0
<1>2. p = q
  BY <1>1
<1>3. \A l \in Link : seen[l] \in Position \cup {NoPos}
  BY DEF Shown
<1>4. \A l \in Link : seen[l] # NoPos => seen[l] \in Positions(seen)
  BY DEF Positions
<1> QED
  BY <1>1, <1>2, <1>3, <1>4 DEF Positions

-----------------------------------------------------------------------------
\* The Boolean variables, apart: a backend of their own suits them.
BoolOK == InterruptSIG \in BOOLEAN /\ puller \in BOOLEAN /\ earned \in BOOLEAN

ServerOK ==
    /\ linkstatus \in Status
    /\ elinks \in SUBSET Link /\ fromIO \in SUBSET Link
    /\ port \in {"unset", "off", "on"}
    /\ cmd \in AlignStep \cup ScanStep \cup Waits \cup {"idle", "dead"}
    /\ answer \in Answer

ScanOK ==
    /\ scan \in Tap /\ todo \in SUBSET Link /\ elink \in Link
    /\ delay_mode \in [Link -> {"auto", "manual"}]
    /\ delay_in \in [Link -> Tap] /\ delay_out \in [Link -> Tap]

AlignOK ==
    /\ target \in Position \cup {NoPos}
    /\ shown \in [{"asic", "emulator"} -> Shown]

LEMMA Parts == TypeOK <=> BoolOK /\ ServerOK /\ ScanOK /\ AlignOK
<1> QED
  BY DEF TypeOK, BoolOK, ServerOK, ScanOK, AlignOK

LEMMA InitTypeOK == Init => TypeOK
<1> SUFFICES ASSUME Init PROVE TypeOK
  OBVIOUS
<1>1. BoolOK
  BY DEF Init, BoolOK
<1>2. ServerOK
  BY DEF Init, ServerOK, Status, Waits, Answer
<1>3. ScanOK
  <2>1. 0 \in Tap
    BY TapAssumption DEF Tap
  <2> QED
    BY <2>1 DEF Init, ScanOK
<1>4. AlignOK
  BY DEF Init, AlignOK, NothingShown, Blank, Shown
<1> QED
  BY <1>1, <1>2, <1>3, <1>4, Parts

LEMMA NextBoolOK == BoolOK /\ [Next]_vars => BoolOK'
<1> SUFFICES ASSUME BoolOK, [Next]_vars PROVE BoolOK'
  OBVIOUS
<1> USE DEF BoolOK, Forget, config, scanning, delays, history
<1>1. CASE Command
  BY <1>1, Zenon DEF Command, Configure, ReceiveConfig, Start, Stop, RunDone, DelayScan
<1>2. CASE Align
  BY <1>2, Zenon DEF Align, PressKey, FindASIC, FindEmulator
<1>3. CASE Scan
  BY <1>3, Zenon DEF Scan, Send, SetDelay, TestDelay, CountErrors
<1>4. CASE External
  BY <1>4, Zenon DEF External, Settle, Peer, interrupt_handler, Exit, BusFails
<1>5. CASE UNCHANGED vars
  BY <1>5, Zenon DEF vars
<1> QED
  BY <1>1, <1>2, <1>3, <1>4, <1>5 DEF Next

LEMMA NextServerOK == ServerOK /\ [Next]_vars => ServerOK'
<1> SUFFICES ASSUME ServerOK, [Next]_vars PROVE ServerOK'
  OBVIOUS
<1> USE DEF ServerOK, Status, AlignStep, ScanStep, Waits, Answer, config, Reply, Take
<1>1. CASE ReceiveConfig
  <2>1. /\ linkstatus' = "NOT_READY" /\ cmd' = "idle"
        /\ answer' \in {"Configured", "ConfigError"}
    BY <1>1 DEF ReceiveConfig
  <2>2. elinks' \in SUBSET Link /\ fromIO' \in SUBSET Link /\ port' \in {"unset", "off", "on"}
    BY <1>1, ElinksAssumption DEF ReceiveConfig, GoodConfig, BadEntries, HalfConfigured
  <2> QED
    BY <2>1, <2>2
<1>2. CASE Configure \/ Start \/ Stop \/ RunDone
  BY <1>2 DEF Configure, Start, Stop, RunDone
<1>3. CASE DelayScan
  <2>1. cmd' \in {"scanStart", "set", "dead", "nowhere"}
    BY <1>3 DEF DelayScan
  <2> QED
    BY <1>3, <2>1 DEF DelayScan
<1>4. CASE Align
  BY <1>4 DEF Align, PressKey, FindASIC, FindEmulator, Throws
<1>5. CASE Scan
  BY <1>5 DEF Scan, Send, SetDelay, TestDelay, CountErrors
<1>6. CASE External
  BY <1>6 DEF External, Settle, Peer, interrupt_handler, Exit, BusFails
<1>7. CASE UNCHANGED vars
  BY <1>7 DEF vars
<1> QED
  BY <1>1, <1>2, <1>3, <1>4, <1>5, <1>6, <1>7 DEF Next, Command

LEMMA NextScanOK == ServerOK /\ ScanOK /\ [Next]_vars => ScanOK'
<1> SUFFICES ASSUME ServerOK, ScanOK, [Next]_vars PROVE ScanOK'
  OBVIOUS
<1> USE DEF ScanOK, scanning, delays
<1>1. CASE ReceiveConfig
  <2>1. delay_mode' \in [Link -> {"auto", "manual"}]
    BY <1>1 DEF ReceiveConfig, GoodConfig, BadEntries, HalfConfigured
  <2> QED
    BY <1>1, <2>1 DEF ReceiveConfig
<1>2. CASE Configure \/ Start \/ Stop \/ RunDone
  BY <1>2 DEF Configure, Start, Stop, RunDone
<1>3. CASE DelayScan
  <2>1. scan' \in Tap
    BY <1>3, TapAssumption DEF DelayScan, Tap
  <2>2. todo' \in SUBSET Link
    BY <1>3 DEF DelayScan, ServerOK
  <2> QED
    BY <1>3, <2>1, <2>2 DEF DelayScan
<1>4. CASE Align
  BY <1>4 DEF Align, PressKey, FindASIC, FindEmulator
<1>5. CASE Send \/ SetDelay \/ TestDelay
  BY <1>5 DEF Send, SetDelay, TestDelay
<1>6. CASE CountErrors
  <2>1. scan' \in Tap
    BY <1>6, TapAssumption DEF CountErrors, Tap
  <2>2. todo' \in SUBSET Link
    BY <1>6 DEF CountErrors, ServerOK
  <2> QED
    BY <1>6, <2>1, <2>2 DEF CountErrors
<1>7. CASE External
  BY <1>7 DEF External, Settle, Peer, interrupt_handler, Exit, BusFails
<1>8. CASE UNCHANGED vars
  BY <1>8 DEF vars
<1> QED
  BY <1>1, <1>2, <1>3, <1>4, <1>5, <1>6, <1>7, <1>8 DEF Next, Command, Scan

LEMMA NextAlignOK == AlignOK /\ [Next]_vars => AlignOK'
<1> SUFFICES ASSUME AlignOK, [Next]_vars PROVE AlignOK'
  OBVIOUS
<1> USE DEF AlignOK, history, Forget
<1>1. CASE Command
  <2>1. NothingShown \in [{"asic", "emulator"} -> Shown]
    BY DEF NothingShown, Blank, Shown
  <2> QED
    BY <1>1, <2>1 DEF Command, Configure, ReceiveConfig, Start, Stop, RunDone, DelayScan
<1>2. CASE PressKey
  BY <1>2 DEF PressKey
<1>3. CASE FindASIC
  <2>1. target' \in Position \cup {NoPos}
    BY <1>3, FoundAgrees DEF FindASIC
  <2>2. shown' \in [{"asic", "emulator"} -> Shown]
    BY <1>3 DEF FindASIC
  <2> QED
    BY <2>1, <2>2
<1>4. CASE FindEmulator
  BY <1>4 DEF FindEmulator
<1>5. CASE Scan
  BY <1>5 DEF Scan, Send, SetDelay, TestDelay, CountErrors
<1>6. CASE External
  BY <1>6 DEF External, Settle, Peer, interrupt_handler, Exit, BusFails
<1>7. CASE UNCHANGED vars
  BY <1>7 DEF vars
<1> QED
  BY <1>1, <1>2, <1>3, <1>4, <1>5, <1>6, <1>7 DEF Next, Align

LEMMA NextTypeOK == TypeOK /\ [Next]_vars => TypeOK'
<1>1. TypeOK' <=> BoolOK' /\ ServerOK' /\ ScanOK' /\ AlignOK'
  BY DEF TypeOK, BoolOK, ServerOK, ScanOK, AlignOK
<1> QED
  BY <1>1, Parts, NextBoolOK, NextServerOK, NextScanOK, NextAlignOK

\* Type correctness of the server, whatever the hardware answers.
THEOREM TypeCorrect == Spec => []TypeOK
<1> QED
  BY InitTypeOK, NextTypeOK, PTL DEF Spec

-----------------------------------------------------------------------------
LEMMA InitAlignInv == Init => AlignInv
<1> QED
  BY DEF Init, AlignInv, ReadyIsEarned, AlignStep

LEMMA NextAlignInv == ServerOK /\ AlignOK /\ AlignInv /\ [Next]_vars => AlignInv'
<1> SUFFICES ASSUME ServerOK, AlignOK, AlignInv, [Next]_vars PROVE AlignInv'
  OBVIOUS
<1> USE DEF AlignInv, ReadyIsEarned, AsicAgrees, AlignStep, config, history, Reply, Take, Forget
<1>1. CASE Configure \/ Stop \/ RunDone
  BY <1>1 DEF Configure, Stop, RunDone
<1>2. CASE ReceiveConfig
  BY <1>2 DEF ReceiveConfig
<1>3. CASE Start
  BY <1>3 DEF Start
<1>4. CASE DelayScan
  <2>1. cmd' \in {"scanStart", "set", "dead", "nowhere"}
    BY <1>4 DEF DelayScan, ServerOK
  <2> QED
    BY <1>4, <2>1 DEF DelayScan
<1>5. CASE PressKey
  BY <1>5 DEF PressKey
<1>6. CASE FindASIC
  <2>1. linkstatus = "NOT_READY" /\ linkstatus' = "NOT_READY"
    BY <1>6 DEF FindASIC
  <2>2. cmd' = "emulator" => AsicAgrees'
    <3> SUFFICES ASSUME cmd' = "emulator" PROVE AsicAgrees'
      OBVIOUS
    <3>1. PICK seen \in Shown : /\ shown' = [shown EXCEPT !["asic"] = seen]
                               /\ findBX0(seen, NoPos) /\ target' \in Positions(seen)
      BY <1>6 DEF FindASIC, Throws
    <3>2. shown'["asic"] = seen
      BY <3>1 DEF AlignOK
    <3>3. /\ \E l \in Link : seen[l] = target'
          /\ \A l \in Link : seen[l] \in {target', NoPos}
      BY <3>1, FoundAgrees
    <3> QED
      BY <3>2, <3>3
  <2> QED
    BY <2>1, <2>2
<1>7. CASE FindEmulator
  <2>1. AsicAgrees /\ target' = target
    BY <1>7 DEF FindEmulator
  <2>2. shown'["asic"] = shown["asic"]
    BY <1>7 DEF FindEmulator, AlignOK
  <2>3. AsicAgrees'
    BY <2>1, <2>2
  <2>4. cmd' \in {"dead", "idle"}
    BY <1>7 DEF FindEmulator, Throws
  <2>5. linkstatus' # "NOT_READY" => earned'
    BY <1>7 DEF FindEmulator
  <2> QED
    BY <2>3, <2>4, <2>5
<1>8. CASE Scan
  BY <1>8 DEF Scan, Send, SetDelay, TestDelay, CountErrors
<1>9. CASE External
  BY <1>9 DEF External, Settle, Peer, interrupt_handler, Exit, BusFails
<1>10. CASE UNCHANGED vars
  BY <1>10 DEF vars
<1> QED
  BY <1>1, <1>2, <1>3, <1>4, <1>5, <1>6, <1>7, <1>8, <1>9, <1>10
     DEF Next, Command, Align

\* start answers "Running" without aligning only on an alignment that succeeded
\* since the last configuration and whose ASIC positions agree.
THEOREM RunningIsEarned == Spec => []ReadyIsEarned
<1>1. AlignInv => ReadyIsEarned
  BY DEF AlignInv
<1>2. TypeOK => ServerOK /\ AlignOK
  BY Parts
<1> QED
  BY <1>1, <1>2, TypeCorrect, InitAlignInv, NextAlignInv, PTL DEF Spec

-----------------------------------------------------------------------------
LEMMA InitScanInv == Init => ScanInv
<1> QED
  BY DEF Init, ScanInv

LEMMA NextScanInv == ServerOK /\ ScanOK /\ ScanInv /\ [Next]_vars => ScanInv'
<1> SUFFICES ASSUME ServerOK, ScanOK, ScanInv, [Next]_vars PROVE ScanInv'
  OBVIOUS
<1> USE DEF ScanInv, config, scanning, delays, Reply, Take
<1>1. CASE Configure \/ ReceiveConfig \/ Start \/ Stop \/ RunDone
  <2>1. cmd' \in {"config", "idle", "alignIO"}
    BY <1>1 DEF Configure, ReceiveConfig, Start, Stop, RunDone
  <2> QED
    BY <2>1
<1>2. CASE DelayScan
  <2>1. cmd' \in {"scanStart", "set", "dead", "nowhere"}
    BY <1>2 DEF DelayScan, ServerOK
  <2>2. todo' = fromIO'
    BY <1>2 DEF DelayScan
  <2> QED
    BY <2>1, <2>2
<1>3. CASE Align
  <2>1. cmd' \in {"roct", "resetLinks", "asic", "emulator", "dead", "idle"}
    BY <1>3 DEF Align, PressKey, FindASIC, FindEmulator, Throws
  <2> QED
    BY <2>1
<1>4. CASE Send
  <2>1. \/ cmd' \in {"scanEnd", "idle"}
        \/ cmd = "scanStart" /\ cmd' = "set"
    BY <1>4 DEF Send
  <2> QED
    BY <1>4, <2>1 DEF Send
<1>5. CASE SetDelay
  <2>1. CASE todo = {}
    BY <1>5, <2>1 DEF SetDelay
  <2>2. CASE todo # {}
    <3>1. PICK l \in todo : /\ cmd' = "test" /\ elink' = l
                           /\ delay_mode' = [delay_mode EXCEPT ![l] = "manual"]
                           /\ delay_in' = [delay_in EXCEPT ![l] = scan]
      BY <1>5, <2>2 DEF SetDelay
    <3>2. /\ cmd = "set"
          /\ UNCHANGED << fromIO, scan, todo, delay_out >>
      BY <1>5 DEF SetDelay
    <3>3. l \in Link /\ \A k \in fromIO : k \in Link
      BY DEF ScanOK, ServerOK
    <3> QED
      BY <3>1, <3>2, <3>3 DEF ScanOK
  <2> QED
    BY <2>1, <2>2
<1>6. CASE TestDelay
  BY <1>6 DEF TestDelay
<1>7. CASE CountErrors
  <2>1. \/ cmd' = "set" /\ todo' = fromIO'
        \/ cmd' \in {"scanData", "idle"}
    BY <1>7 DEF CountErrors
  <2> QED
    BY <2>1
<1>8. CASE Settle
  <2>1. PICK l \in Link : /\ delay_out[l] # delay_in[l]
                         /\ delay_out' = [delay_out EXCEPT ![l] = delay_in[l]]
    BY <1>8 DEF Settle
  <2>2. UNCHANGED << cmd, fromIO, scan, todo, elink, delay_mode, delay_in >>
    BY <1>8 DEF Settle
  <2>3. \A k \in Link : delay_out'[k] = IF k = l THEN delay_in[l] ELSE delay_out[k]
    BY <2>1 DEF ScanOK
  <2>4. \A k \in fromIO : k \in Link
    BY DEF ServerOK
  <2> QED
    BY <2>1, <2>2, <2>3, <2>4
<1>9. CASE Peer
  BY <1>9 DEF Peer
<1>10. CASE interrupt_handler \/ Exit \/ BusFails
  BY <1>10 DEF interrupt_handler, Exit, BusFails
<1>11. CASE UNCHANGED vars
  BY <1>11 DEF vars
<1> QED
  BY <1>1, <1>2, <1>3, <1>4, <1>5, <1>6, <1>7, <1>8, <1>9, <1>10, <1>11
     DEF Next, Command, Scan, External

\* The counters of every delay of a scan are read with all its links at that
\* delay, for any number of links and delays and any settling of the lines.
THEOREM ScanCountsAtDelay == Spec => []CountedAtDelay
<1>1. ScanInv => CountedAtDelay
  BY DEF ScanInv, CountedAtDelay
<1>2. TypeOK => ServerOK /\ ScanOK
  BY Parts
<1> QED
  BY <1>1, <1>2, TypeCorrect, InitScanInv, NextScanInv, PTL DEF Spec

-----------------------------------------------------------------------------
(***************************************************************************)
(* How long a delay scan can take                                          *)
(***************************************************************************)

\* The steps of the scan still to do at the delay under test, and after the last
\* one.
StepsLeft ==
    CASE cmd = "scanStart" -> 2 * Cardinality(todo) + 4
      [] cmd = "set"       -> 2 * Cardinality(todo) + 3
      [] cmd = "test"      -> 2 * Cardinality(todo) + 2
      [] cmd = "count"     -> 3
      [] cmd = "scanData"  -> 2
      [] cmd = "scanEnd"   -> 1
      [] OTHER             -> 0

NextStep  == scan' = scan /\ StepsLeft' < StepsLeft
NextDelay == scan < LastTap /\ scan' = scan + 1

\* A step of the scan is followed by fewer steps at the same delay, or by the
\* next delay; a delay line, a data puller or a signal does not put it back.
ScanRunsDown ==
    cmd \in ScanStep =>
        /\ Scan => NextStep \/ NextDelay
        /\ ~Scan => NextStep \/ (scan' = scan /\ StepsLeft' = StepsLeft)

\* Where ScanRunsDown comes to an end.
ScanBounded ==
    /\ scan \in 0..LastTap
    /\ StepsLeft \in 0..(2 * Cardinality(Link) + 4)
    /\ StepsLeft = 0 <=> cmd \notin ScanStep

LEMMA LinksCount ==
    ASSUME IsFiniteSet(Link), NEW S \in SUBSET Link
    PROVE  /\ Cardinality(Link) \in Nat /\ Cardinality(S) \in Nat
           /\ Cardinality(S) <= Cardinality(Link)
           /\ S # {} => Cardinality(S) > 0
           /\ \A l \in S : Cardinality(S \ {l}) = Cardinality(S) - 1
<1>1. IsFiniteSet(S) /\ Cardinality(S) <= Cardinality(Link)
  BY FS_Subset
<1>2. \A l \in S : Cardinality(S \ {l}) = Cardinality(S) - 1
  BY <1>1, FS_RemoveElement
<1>3. S # {} => Cardinality(S) # 0
  BY <1>1, FS_EmptySet
<1> QED BY <1>1, <1>2, <1>3, FS_CardinalityType

LEMMA ScanRunsDownStep ==
    ASSUME IsFiniteSet(Link), TypeOK, TypeOK', ScanInv, [Next]_vars, cmd \in ScanStep
    PROVE  /\ Scan => NextStep \/ NextDelay
           /\ ~Scan => NextStep \/ (scan' = scan /\ StepsLeft' = StepsLeft)
<1> DEFINE c == Cardinality(todo)
<1>t. todo \in SUBSET Link /\ todo' \in SUBSET Link
  BY DEF TypeOK
<1>n. c \in Nat /\ c' \in Nat
  BY <1>t, LinksCount
<1>1. ASSUME Send  PROVE NextStep
  <2>1. scan' = scan /\ todo' = todo  BY <1>1 DEF Send, scanning
  <2>2. /\ cmd = "scanStart" => cmd' = "set"
        /\ cmd = "scanData" => cmd' = "scanEnd"
        /\ cmd = "scanEnd" => cmd' = "idle"
        /\ cmd \in {"scanStart", "scanData", "scanEnd"}
    BY <1>1 DEF Send, Reply
  <2>3. c' = c  BY <2>1
  <2> QED BY <1>n, <2>1, <2>2, <2>3 DEF NextStep, StepsLeft
<1>2. ASSUME SetDelay  PROVE NextStep
  <2>1. scan' = scan /\ todo' = todo /\ cmd = "set" /\ cmd' \in {"test", "dead"}
    BY <1>2 DEF SetDelay
  <2>2. c' = c  BY <2>1
  <2> QED BY <1>n, <2>1, <2>2 DEF NextStep, StepsLeft
<1>3. ASSUME TestDelay  PROVE NextStep
  <2>1. /\ scan' = scan /\ cmd = "test" /\ todo' = todo \ {elink} /\ elink \in todo
        /\ cmd' \in {"count", "set"}
    BY <1>3 DEF TestDelay, ScanInv
  <2>2. c' = c - 1 /\ c > 0  BY <1>t, <2>1, LinksCount
  <2> QED BY <1>n, <2>1, <2>2 DEF NextStep, StepsLeft
<1>4. ASSUME CountErrors  PROVE NextStep \/ NextDelay
  <2>1. CASE scan < LastTap
    BY <1>4, <2>1 DEF CountErrors, NextDelay
  <2>2. CASE ~(scan < LastTap)
    <3>1. scan' = scan /\ cmd = "count" /\ cmd' \in {"scanData", "idle"}
      BY <1>4, <2>2 DEF CountErrors, Reply
    <3> QED BY <3>1 DEF NextStep, StepsLeft
  <2> QED BY <2>1, <2>2
<1>5. ASSUME Settle \/ Peer \/ UNCHANGED vars
      PROVE  scan' = scan /\ StepsLeft' = StepsLeft
  <2>1. UNCHANGED << cmd, scan, todo >>
    BY <1>5 DEF Settle, Peer, vars, scanning
  <2> QED BY <2>1 DEF StepsLeft
<1>6. ASSUME interrupt_handler \/ Exit \/ BusFails
      PROVE  NextStep \/ (scan' = scan /\ StepsLeft' = StepsLeft)
  <2>1. UNCHANGED << scan, todo >> /\ cmd' \in {cmd, "dead"}
    BY <1>6 DEF interrupt_handler, Exit, BusFails, scanning
  <2>2. c' = c  BY <2>1
  <2>3. CASE cmd' = cmd
    BY <2>1, <2>3 DEF StepsLeft
  <2>4. CASE cmd' = "dead"
    <3>1. StepsLeft' = 0  BY <2>4 DEF StepsLeft
    <3>2. StepsLeft > 0  BY <1>n DEF StepsLeft, ScanStep
    <3> QED BY <2>1, <3>1, <3>2 DEF NextStep
  <2> QED BY <2>1, <2>3, <2>4
<1>7. ~Command /\ ~Align
  BY DEF Command, Configure, ReceiveConfig, Start, Stop, RunDone, DelayScan, Idle,
         Align, PressKey, FindASIC, FindEmulator, ScanStep
<1>8. Scan => NextStep \/ NextDelay
  BY <1>1, <1>2, <1>3, <1>4 DEF Scan
<1>9. ~Scan => NextStep \/ (scan' = scan /\ StepsLeft' = StepsLeft)
  BY <1>5, <1>6, <1>7 DEF Next, External
<1> QED BY <1>8, <1>9

\* A delay scan cannot go on for ever: it never goes back to an earlier delay,
\* and at one delay every step of it leaves fewer to do, whatever the delay lines,
\* the data pullers and the operator do.  With the fairness of the scan, of the
\* delay lines and of the data puller, this is why DelayScanEnds holds.
THEOREM ScansRunDown ==
    ASSUME IsFiniteSet(Link)
    PROVE  Spec => []ScanBounded /\ [][ScanRunsDown]_vars
<1>1. TypeOK => ScanBounded
  <2> SUFFICES ASSUME TypeOK PROVE ScanBounded
    OBVIOUS
  <2>1. todo \in SUBSET Link /\ scan \in 0..LastTap
    BY DEF TypeOK, Tap
  <2>2. /\ Cardinality(Link) \in Nat /\ Cardinality(todo) \in Nat
        /\ Cardinality(todo) <= Cardinality(Link)
    BY <2>1, LinksCount
  <2>3. /\ StepsLeft \in 0..(2 * Cardinality(Link) + 4)
        /\ StepsLeft = 0 <=> cmd \notin ScanStep
    BY <2>2 DEF StepsLeft, ScanStep
  <2> QED BY <2>1, <2>3 DEF ScanBounded
<1>2. TypeOK /\ TypeOK' /\ ScanInv /\ [Next]_vars => [ScanRunsDown]_vars
  BY ScanRunsDownStep DEF ScanRunsDown
<1>3. TypeOK => ServerOK /\ ScanOK
  BY Parts
<1> QED
  BY <1>1, <1>2, <1>3, TypeCorrect, InitScanInv, NextScanInv, PTL DEF Spec
=============================================================================
