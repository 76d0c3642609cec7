------------------------------ MODULE LinkServer ------------------------------
(***************************************************************************)
(* The C++ zmq-server: its commands, its link status, the alignment of the *)
(* link captures (LinkAligner) and the delay scan, over hardware that      *)
(* answers as it likes.                                                    *)
(*                                                                         *)
(* After a link reset every output link should show its BX0 word, at one   *)
(* position of the captured data, in the capture of the ASIC and in that   *)
(* of the emulator.                                                        *)
(***************************************************************************)
EXTENDS Integers

CONSTANTS
    Link,        \* the NUM_OUTPUTLINKS output links
    Position,    \* positions in the captured data
    NoPos,       \* no position: a link without BX0 word, or position_to_find = -1
    LastTap,     \* the last delay of a scan, in steps of 8
    Elinks       \* the sets of links a configuration may name

ASSUME PositionAssumption == NoPos \notin Position
ASSUME TapAssumption == LastTap \in Nat
ASSUME ElinksAssumption == Elinks \subseteq (SUBSET Link) \ {{}}

VARIABLES
    InterruptSIG,
    linkstatus,  \* m_linkstatus
    elinks,      \* of m_lc_asic and m_lc_emulator, {} before a configuration
    fromIO,      \* the elinks of m_fromIO, likewise
    port,        \* m_port: "unset", "off" (-1) or "on"
    cmd,         \* the step of the command under way
    answer,      \* the reply to the last command, "none" while one is under way
    target,      \* positions_asic.at(0) of the alignment under way or the last one
    scan,        \* the delay under test
    todo,        \* links whose delay is still to be set, the one in hand included
    elink,       \* the link in hand
    delay_mode, delay_in, delay_out,  \* registers of each link's IO block
    puller,      \* is a data puller connected to the port?
    earned,      \* history: an align has succeeded since the last configuration
    shown        \* history: the positions the last alignment went by

config   == << linkstatus, elinks, fromIO, port >>
scanning == << scan, todo, elink >>
delays   == << delay_mode, delay_in, delay_out >>
history  == << earned, shown >>
vars == << InterruptSIG, config, cmd, answer, target, scanning, delays, puller, history >>

Tap    == 0..LastTap
Shown  == [Link -> Position \cup {NoPos}]
Blank  == [l \in Link |-> NoPos]
NothingShown == [c \in {"asic", "emulator"} |-> Blank]
Status == {"NOT_READY", "ALIGNED", "READY"}

AlignStep == {"alignIO", "roct", "resetLinks", "asic", "emulator"}
ScanStep  == {"scanStart", "set", "test", "count", "scanData", "scanEnd"}
Waits     == {"config", "scanStart", "scanData", "scanEnd", "nowhere"}

-----------------------------------------------------------------------------
(***************************************************************************)
(* Surroundings: the delay lines, the data puller, ctrl-C, the IPbus       *)
(***************************************************************************)

\* A delay line reaches the delay it was set to; delay_ready is then 1.
Settle ==
    /\ \E l \in Link :
          /\ delay_mode[l] = "manual" /\ delay_out[l] # delay_in[l]
          /\ delay_out' = [delay_out EXCEPT ![l] = delay_in[l]]
    /\ UNCHANGED << InterruptSIG, config, cmd, answer, target, scanning,
                    delay_mode, delay_in, puller, history >>

\* The data puller connects and disconnects.
Peer ==
    /\ puller' = ~puller
    /\ UNCHANGED << InterruptSIG, config, cmd, answer, target, scanning, delays, history >>

\* The handler sets a flag; a send or receive that the signal finds waiting
\* throws.
interrupt_handler ==
    /\ ~InterruptSIG /\ cmd # "dead"
    /\ InterruptSIG' = TRUE
    /\ \/ cmd' = cmd
       \/ cmd \in Waits /\ cmd' = "dead"
    /\ UNCHANGED << config, answer, target, scanning, delays, puller, history >>

\* The flag is looked at between two commands.
Exit ==
    /\ cmd = "idle" /\ InterruptSIG
    /\ cmd' = "dead"
    /\ UNCHANGED << InterruptSIG, config, answer, target, scanning, delays, puller, history >>

\* Outside configure nothing catches the exception of a register access.
BusFails ==
    /\ cmd \in (AlignStep \cup ScanStep) \ Waits
    /\ cmd' = "dead"
    /\ UNCHANGED << InterruptSIG, config, answer, target, scanning, delays, puller, history >>

-----------------------------------------------------------------------------
(***************************************************************************)
(* Commands                                                                *)
(***************************************************************************)

Idle == cmd = "idle" /\ ~InterruptSIG

Reply(text) == cmd' = "idle" /\ answer' = text

Take(step) == cmd' = step /\ answer' = "none"

\* reply("ReadyForConfig"), then a blocking receive.
Configure ==
    /\ Idle
    /\ Take("config")
    /\ UNCHANGED << InterruptSIG, config, target, scanning, delays, puller, history >>

\* No 'daq' or no elinks_out; then an entry may be missing after the port.
BadEntries == port' \in {port, "on", "off"} /\ UNCHANGED << elinks, fromIO, delay_mode >>

\* The IPbus fails in configureIO: the captures are the new ones, m_fromIO is
\* not, and some of the links are in the automatic mode.
HalfConfigured ==
    /\ elinks' \in Elinks
    /\ port' \in {"on", "off"}
    /\ \E done \in SUBSET elinks' :
          delay_mode' = [l \in Link |-> IF l \in done THEN "auto" ELSE delay_mode[l]]
    /\ UNCHANGED fromIO

GoodConfig ==
    /\ elinks' \in Elinks
    /\ fromIO' = elinks'
    /\ port' \in {"on", "off"}
    /\ delay_mode' = [l \in Link |-> IF l \in elinks' THEN "auto" ELSE delay_mode[l]]

Forget == earned' = FALSE /\ target' = NoPos /\ shown' = NothingShown

\* Mutation: the status is reset only by a configuration that is good.
MutantResetLate ==
    /\ cmd = "config"
    /\ \/ GoodConfig /\ Reply("Configured") /\ linkstatus' = "NOT_READY"
       \/ (BadEntries \/ HalfConfigured) /\ Reply("ConfigError") /\ UNCHANGED linkstatus
    /\ Forget
    /\ UNCHANGED << InterruptSIG, scanning, delay_in, delay_out, puller >>

\* The status is reset before the configuration is looked at.
ReceiveConfig ==
    /\ cmd = "config"
    /\ linkstatus' = "NOT_READY"
    /\ \/ GoodConfig /\ Reply("Configured")
       \/ (BadEntries \/ HalfConfigured) /\ Reply("ConfigError")
    /\ Forget
    /\ UNCHANGED << InterruptSIG, scanning, delay_in, delay_out, puller >>

\* Any status but NOT_READY falls through to READY.
Start ==
    /\ Idle
    /\ IF linkstatus = "NOT_READY"
       THEN Take("alignIO") /\ Forget /\ UNCHANGED linkstatus
       ELSE linkstatus' = "READY" /\ Reply("Running") /\ UNCHANGED << target, history >>
    /\ UNCHANGED << InterruptSIG, elinks, fromIO, port, scanning, delays, puller >>

\* No command creates the run thread: stop joins nothing, and run_done asks a
\* thread that is none.
Stop ==
    /\ Idle
    /\ Reply("Stopped")
    /\ UNCHANGED << InterruptSIG, config, target, scanning, delays, puller, history >>

RunDone ==
    /\ Idle
    /\ Reply("NotDone")
    /\ UNCHANGED << InterruptSIG, config, target, scanning, delays, puller, history >>

-----------------------------------------------------------------------------
(***************************************************************************)
(* align(): the operator presses a key after PRBS and after the link reset *)
(* of the ROC                                                              *)
(***************************************************************************)

\* The captures are then reset and acquire on a link reset; whether the links
\* report themselves aligned is printed and otherwise ignored.
PressKey ==
    /\ \/ cmd = "alignIO" /\ cmd' = "roct"
       \/ cmd = "roct" /\ cmd' = "resetLinks"
       \/ cmd = "resetLinks" /\ cmd' = "asic"
    /\ UNCHANGED << InterruptSIG, config, answer, target, scanning, delays, puller, history >>

Positions(seen) == {seen[l] : l \in Link} \ {NoPos}

\* Mutation: the position of one link is taken, whatever the others'.
MutantFirstLink(seen, position_to_find) ==
    \E p \in Positions(seen) : position_to_find \in {p, NoPos}

\* A link that does not show BX0 adds no position: the others need only agree
\* among themselves, and with position_to_find if there is one.
findBX0(seen, position_to_find) ==
    \E p \in Positions(seen) : Positions(seen) = {p} /\ position_to_find \in {p, NoPos}

\* The capture goes through a null pointer if nothing was configured.  If it is
\* full and has fewer links than NUM_OUTPUTLINKS, the latency of a link it has
\* not is out of range.
OutOfRange(full) == elinks = {} \/ (full /\ elinks # Link)

Throws == cmd' = "dead" /\ UNCHANGED answer

\* The loop over latencies ends after its first pass.  A capture that is not
\* full finds nothing.
FindASIC ==
    /\ cmd = "asic"
    /\ \/ (\E full \in BOOLEAN : OutOfRange(full)) /\ Throws /\ UNCHANGED << target, shown >>
       \/ \E full \in BOOLEAN, seen \in Shown :
             /\ ~OutOfRange(full)
             /\ full \/ seen = Blank
             /\ shown' = [shown EXCEPT !["asic"] = seen]
             /\ \/ /\ findBX0(seen, NoPos)
                   /\ target' \in Positions(seen)
                   /\ cmd' = "emulator" /\ UNCHANGED answer
                \/ /\ ~findBX0(seen, NoPos)
                   /\ Reply("Can't Start") /\ UNCHANGED target
    /\ UNCHANGED << InterruptSIG, config, scanning, delays, puller, earned >>

\* align returns true whether or not the emulator shows BX0 at the target.
FindEmulator ==
    /\ cmd = "emulator"
    /\ \/ /\ \E full \in BOOLEAN : OutOfRange(full)
          /\ Throws /\ UNCHANGED << linkstatus, history >>
       \/ \E full \in BOOLEAN, seen \in Shown :
             /\ ~OutOfRange(full)
             /\ full \/ seen = Blank
             /\ shown' = [shown EXCEPT !["emulator"] = seen]
             /\ linkstatus' = "READY" /\ earned' = TRUE
             /\ Reply("Running")
    /\ UNCHANGED << InterruptSIG, elinks, fromIO, port, target, scanning, delays, puller >>

-----------------------------------------------------------------------------
(***************************************************************************)
(* delayScan()                                                             *)
(***************************************************************************)

\* m_port is uninitialised before the first configuration: the bind may throw
\* or bind a port nobody knows, or the scan starts over no IO block at all.
DelayScan ==
    /\ Idle
    /\ \/ port = "on" /\ Take("scanStart")
       \/ port = "off" /\ Take("set")
       \/ port = "unset" /\ \E step \in {"dead", "nowhere"} : Take(step)
    /\ scan' = 0 /\ todo' = fromIO
    /\ UNCHANGED << InterruptSIG, config, target, elink, delays, puller, history >>

\* send waits for a data puller: START_DELAY_SCAN, then the data, then
\* END_OF_RUN.
Send ==
    /\ puller
    /\ \/ cmd = "scanStart" /\ cmd' = "set" /\ UNCHANGED answer
       \/ cmd = "scanData" /\ cmd' = "scanEnd" /\ UNCHANGED answer
       \/ cmd = "scanEnd" /\ Reply("delay_scan_done")
    /\ UNCHANGED << InterruptSIG, config, target, scanning, delays, puller, history >>

\* Mutation: the delay is written and not set.
MutantNotSet ==
    /\ cmd = "set"
    /\ \E l \in todo :
          /\ cmd' = "test" /\ elink' = l
          /\ delay_mode' = [delay_mode EXCEPT ![l] = "manual"]
    /\ UNCHANGED << InterruptSIG, config, answer, target, scan, todo,
                    delay_in, delay_out, puller, history >>

\* testDelay sets the manual mode, which nothing but a configuration undoes.
\* Without a link in m_fromIO the block itself is a null pointer.
SetDelay ==
    /\ cmd = "set"
    /\ \/ \E l \in todo :
             /\ cmd' = "test" /\ elink' = l
             /\ delay_mode' = [delay_mode EXCEPT ![l] = "manual"]
             /\ delay_in' = [delay_in EXCEPT ![l] = scan]
       \/ todo = {} /\ cmd' = "dead" /\ UNCHANGED << elink, delay_mode, delay_in >>
    /\ UNCHANGED << InterruptSIG, config, answer, target, scan, todo,
                    delay_out, puller, history >>

\* Mutation: the delay is not waited for.
MutantNoWait ==
    /\ cmd = "test"
    /\ todo' = todo \ {elink}
    /\ cmd' = IF todo' = {} THEN "count" ELSE "set"
    /\ UNCHANGED << InterruptSIG, config, answer, target, scan, elink, delays, puller, history >>

\* testDelay waits until the delay is the one it asked for.
TestDelay ==
    /\ cmd = "test"
    /\ delay_out[elink] = scan
    /\ todo' = todo \ {elink}
    /\ cmd' = IF todo' = {} THEN "count" ELSE "set"
    /\ UNCHANGED << InterruptSIG, config, answer, target, scan, elink, delays, puller, history >>

\* The counters of all links are reset, latched and read.
CountErrors ==
    /\ cmd = "count"
    /\ IF scan < LastTap
       THEN scan' = scan + 1 /\ todo' = fromIO /\ cmd' = "set" /\ UNCHANGED answer
       ELSE /\ UNCHANGED << scan, todo >>
            /\ \/ port = "on" /\ cmd' = "scanData" /\ UNCHANGED answer
               \/ port = "off" /\ Reply("delay_scan_done")
    /\ UNCHANGED << InterruptSIG, config, target, elink, delays, puller, history >>

-----------------------------------------------------------------------------
Init ==
    /\ InterruptSIG = FALSE
    /\ linkstatus = "NOT_READY" /\ elinks = {} /\ fromIO = {} /\ port = "unset"
    /\ cmd = "idle" /\ answer = "none"
    /\ target = NoPos
    /\ scan = 0 /\ todo = {} /\ elink \in Link
    /\ delay_mode \in [Link -> {"auto", "manual"}]
    /\ delay_in = [l \in Link |-> 0] /\ delay_out = [l \in Link |-> 0]
    /\ puller = FALSE
    /\ earned = FALSE
    /\ shown = NothingShown

Command  == Configure \/ ReceiveConfig \/ Start \/ Stop \/ RunDone \/ DelayScan
Align    == PressKey \/ FindASIC \/ FindEmulator
Scan     == Send \/ SetDelay \/ TestDelay \/ CountErrors
External == Settle \/ Peer \/ interrupt_handler \/ Exit \/ BusFails

Next == Command \/ Align \/ Scan \/ External

\* The server runs, a delay line settles, and a data puller is there again
\* and again.
Fairness ==
    /\ WF_vars(SetDelay) /\ WF_vars(TestDelay) /\ WF_vars(CountErrors)
    /\ SF_vars(Send)
    /\ WF_vars(Settle)
    /\ WF_vars(Peer)

Spec == Init /\ [][Next]_vars /\ Fairness

-----------------------------------------------------------------------------
Answer == {"none", "Configured", "ConfigError", "Running", "Can't Start",
           "Stopped", "NotDone", "delay_scan_done"}

\* The type of every variable.
TypeOK ==
    /\ InterruptSIG \in BOOLEAN
    /\ linkstatus \in Status
    /\ elinks \in SUBSET Link /\ fromIO \in SUBSET Link
    /\ port \in {"unset", "off", "on"}
    /\ cmd \in AlignStep \cup ScanStep \cup Waits \cup {"idle", "dead"}
    /\ answer \in Answer
    /\ target \in Position \cup {NoPos}
    /\ scan \in Tap /\ todo \in SUBSET Link /\ elink \in Link
    /\ delay_mode \in [Link -> {"auto", "manual"}]
    /\ delay_in \in [Link -> Tap] /\ delay_out \in [Link -> Tap]
    /\ puller \in BOOLEAN /\ earned \in BOOLEAN
    /\ shown \in [{"asic", "emulator"} -> Shown]

\* "Running" is earned: whenever start would answer it without aligning, an
\* alignment has succeeded since the last configuration, good or bad, and the
\* ASIC links that showed a BX0 word all showed it at one and the same
\* position, the target.
ReadyIsEarned ==
    linkstatus # "NOT_READY" =>
        /\ earned
        /\ \E l \in Link : shown["asic"][l] = target
        /\ \A l \in Link : shown["asic"][l] \in {target, NoPos}

\* The error counters of a delay are read when every link of the scan has that
\* delay, in the manual mode.
CountedAtDelay ==
    cmd = "count" =>
        \A l \in fromIO : delay_mode[l] = "manual" /\ delay_out[l] = scan

\* A delay scan ends, or the server does, as long as delay lines settle and a
\* data puller comes by.
DelayScanEnds == cmd \in ScanStep ~> cmd \notin ScanStep
=============================================================================
