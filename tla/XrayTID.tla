------------------------------- MODULE XrayTID -------------------------------
(***************************************************************************)
(* XrayTID_Testing.py: the loop that looks after an ECON-T under X-rays.   *)
(* Every pass reads the errors of the stream compare; every 6th compares   *)
(* the registers, every 60th takes a capture, and at passes 0, 60 and 90   *)
(* of 120 the loop goes to another voltage, scans the capacitors of the    *)
(* PLL and the phases of the inputs and tunes the chip anew.  Three bad    *)
(* passes in a row start a ladder of four ever harder resets.              *)
(*                                                                         *)
(* The instruments are what the loop has last set them to; a call of any   *)
(* of them may raise, which ends the loop.                                 *)
(*                                                                         *)
(* The chip is written by two clients, and each sends with every write all *)
(* that it has ever been told to write (zmq_controller.py:68, i2c.py:165): *)
(* that of set_econt.py the CapSelect of startup.yaml and the phases of    *)
(* the last set_phase, the script's own the CapSelect it has last chosen.  *)
(***************************************************************************)
EXTENDS Integers

CONSTANTS
    CapSel,        \* settings of CBOvcoCapSelect
    Startup,       \* the one in configs/startup.yaml
    Forced,        \* the one forced at 1.08 V
    I2cPeriod,     \* 6 passes
    CapturePeriod, \* 60 passes
    ScanPeriod     \* 120 passes

ASSUME CapSelAssumption == Startup \in CapSel /\ Forced \in CapSel
ASSUME PeriodAssumption ==
    /\ I2cPeriod \in Nat \ {0, 1} /\ CapturePeriod \in Nat \ {0}
    /\ ScanPeriod \in Nat \ {0} /\ ScanPeriod % 4 = 0
    /\ ScanPeriod % I2cPeriod = 0 /\ ScanPeriod % CapturePeriod = 0

VARIABLES
    at,         \* where the loop is
    i,          \* i__, which only counts modulo ScanPeriod
    errCount,   \* errors of this pass: "none", "some" or "many" (> 200000000)
    consecutiveErrorCount,
    consecutiveResetCount,
    doDAQcompare,
    par_en_error,
    level,      \* of the configureASIC that is next
    daq,        \* the stream compare: "on", "off", or "triggering" before start_daq
    vectors,    \* what the emulator plays
    voltage,    \* of the supply
    capSel,     \* CapSelect in the chip
    own,        \* CapSelect in the yamlConfig of the script's own i2cClient; as long
                \* as there is none, its writes leave that of startup.yaml
    phase,      \* the voltage and CapSelect that phaseSelect was found at
    best,       \* those of best_PhaseSetting
    inputs,     \* those that word_align was done at, if nothing has undone it
    outputs,    \* those of output_align
    compared,   \* has post_Reg_Status a value?
    missed,     \* history: has the last SetVoltage given up?
    streak      \* history: passes up to this one whose errors were many

count   == << errCount, consecutiveErrorCount, streak >>
resets  == << consecutiveResetCount, doDAQcompare, par_en_error, level >>
chip    == << vectors, voltage, capSel, own, phase, inputs, outputs >>
scan    == << best, missed, compared >>
vars    == << at, i, count, resets, daq, chip, scan >>

Voltage   == {"1.20", "1.32", "1.08"}
Setting   == Voltage \X CapSel
NoSetting == << "none", "none" >>
Ended     == {"done", "failed", "unmailed"}

GoTo(from, to) == at = from /\ at' = to

doI2CCompare == i % I2cPeriod = 0
doDAQcapture == i % CapturePeriod = 0

\* The passes at which the voltage changes, and to which.  The comments of the
\* flags say 1.08 V of B and 1.32 V of C (444-445); the scans that the flags
\* guard set 1.32 V and 1.08 V (500-533).
doPhaseScans_A == i = 0
doPhaseScans_B == i = ScanPeriod \div 2
doPhaseScans_C == i = 3 * (ScanPeriod \div 4)
doPhaseScans   == doPhaseScans_A \/ doPhaseScans_B \/ doPhaseScans_C

\* Mutation: the voltages in the order of the comments at 443-445.
MutantTarget == IF doPhaseScans_A THEN "1.20" ELSE IF doPhaseScans_B THEN "1.08" ELSE "1.32"

Target == IF doPhaseScans_A THEN "1.20" ELSE IF doPhaseScans_B THEN "1.32" ELSE "1.08"

-----------------------------------------------------------------------------
(***************************************************************************)
(* A pass: errors, registers, capture                                      *)
(***************************************************************************)

\* Once a whole ladder has failed the errors are not looked at any more.
Begin ==
    /\ doDAQcompare' = (doDAQcompare /\ consecutiveResetCount = 0)
    /\ GoTo("begin", IF doDAQcompare' THEN "errors" ELSE "registers")
    /\ par_en_error' = FALSE
    /\ errCount' = "none"
    /\ streak' = IF doDAQcompare' THEN streak ELSE 0
    /\ UNCHANGED << i, consecutiveErrorCount, consecutiveResetCount, level, daq, chip, scan >>

GetCounters(errors) ==
    /\ GoTo("errors", IF errors = "none" THEN "count" ELSE "save")
    /\ errCount' = errors
    /\ UNCHANGED << i, consecutiveErrorCount, streak, resets, daq, chip, scan >>

\* stop_daq(capture=True)
Save ==
    /\ GoTo("save", "resume")
    /\ daq' = "off"
    /\ UNCHANGED << i, count, resets, chip, scan >>

Resume ==
    /\ GoTo("resume", "count")
    /\ daq' = "on"
    /\ UNCHANGED << i, count, resets, chip, scan >>

\* Mutation: a pass with some errors leaves the count as it is.
MutantCount ==
    /\ GoTo("count", "registers")
    /\ CASE errCount = "many" -> consecutiveErrorCount' = consecutiveErrorCount + 1
         [] errCount = "none" -> consecutiveErrorCount' = 0
         [] OTHER             -> consecutiveErrorCount' = consecutiveErrorCount
    /\ streak' = IF errCount = "many" THEN streak + 1 ELSE 0
    /\ UNCHANGED << i, errCount, resets, daq, chip, scan >>

Count ==
    /\ GoTo("count", "registers")
    /\ IF errCount = "many"
       THEN consecutiveErrorCount' = consecutiveErrorCount + 1 /\ streak' = streak + 1
       ELSE consecutiveErrorCount' = 0 /\ streak' = 0
    /\ UNCHANGED << i, errCount, resets, daq, chip, scan >>

CompareRegisters(error) ==
    /\ GoTo("registers", "capture")
    /\ doI2CCompare \/ ~error
    /\ par_en_error' = error
    /\ compared' = (compared \/ doI2CCompare)
    /\ UNCHANGED << i, count, consecutiveResetCount, doDAQcompare, level, daq, chip,
                    best, missed >>

StopToCapture ==
    /\ GoTo("capture", IF doDAQcapture THEN "captured" ELSE "scan")
    /\ daq' = IF doDAQcapture THEN "off" ELSE daq
    /\ UNCHANGED << i, count, resets, chip, scan >>

\* The capture has left the link captures set to 10 words and one acquisition.
Reconfigure ==
    /\ GoTo("captured", "scan")
    /\ daq' = "on"
    /\ UNCHANGED << i, count, resets, chip, scan >>

-----------------------------------------------------------------------------
(***************************************************************************)
(* configureASIC, and the scans at another voltage                         *)
(***************************************************************************)

\* Mutation: no write of the script's own client after an alignment of the outputs.
MutantConfigureASIC(l) ==
    /\ daq' = IF l = -1 THEN daq ELSE "triggering"
    /\ inputs'  = IF l = 0 THEN inputs ELSE << voltage, Startup >>
    /\ outputs' = IF l = -1 THEN NoSetting ELSE << voltage, Startup >>
    /\ IF l = 3
       THEN phase' = << voltage, Startup >> /\ vectors' = "PRBS28"
       ELSE UNCHANGED << phase, vectors >>
    /\ capSel' = IF l = -1 THEN own ELSE Startup
    /\ UNCHANGED << voltage, own >>

\* word_align aligns the inputs, output_align the outputs, and ends with
\* set_trigger(True); both write with the client of set_econt.py, which brings
\* the CapSelect of startup.yaml back.  The writes after each of them, of the
\* selects and the thresholds, bring back the script's.  A hard reset loads
\* startup.yaml and has the phases scanned anew.  Level -1 comes after a soft
\* reset (560), which undoes the alignment of the outputs.
configureASIC(l) ==
    /\ daq' = IF l = -1 THEN daq ELSE "triggering"
    /\ inputs'  = IF l = 0 THEN inputs ELSE << voltage, Startup >>
    /\ outputs' = IF l = -1 THEN NoSetting ELSE << voltage, Startup >>
    /\ IF l = 3
       THEN phase' = << voltage, Startup >> /\ vectors' = "PRBS28"
       ELSE UNCHANGED << phase, vectors >>
    /\ capSel' = own
    /\ UNCHANGED << voltage, own >>

StopToScan ==
    /\ GoTo("scan", IF doPhaseScans THEN "voltage" ELSE "resets")
    /\ daq' = IF doPhaseScans THEN "off" ELSE daq
    /\ UNCHANGED << i, count, resets, chip, scan >>

\* After 5 or 25 attempts the loop goes on at the voltage there is.
SetVoltage(v) ==
    /\ GoTo("voltage", "sweep")
    /\ v \in {Target, voltage}
    /\ vectors' = "PRBS32" /\ voltage' = v
    /\ missed' = (v # Target)
    /\ UNCHANGED << i, count, resets, daq, capSel, own, phase, inputs, outputs, best, compared >>

\* scanCapSelect finds the good settings; each is set in turn and has its phases
\* scanned, then set_phase(trackMode=1) puts the old phases back.  None good, or
\* the forced one not among them, raises.
Sweep(good, c, last) ==
    /\ GoTo("sweep", "select")
    /\ last \in good /\ c \in good /\ (doPhaseScans_C => c = Forced)
    /\ best' = << voltage, c >>
    /\ capSel' = last /\ own' = last
    /\ inputs' = NoSetting /\ outputs' = NoSetting
    /\ UNCHANGED << i, count, resets, daq, vectors, voltage, phase, missed, compared >>

Select ==
    /\ GoTo("select", "phase")
    /\ capSel' = best[2] /\ own' = best[2]
    /\ UNCHANGED << i, count, resets, daq, vectors, voltage, phase, inputs, outputs, scan >>

\* set_phase writes with the client of set_econt.py.
SetPhase ==
    /\ GoTo("phase", "input")
    /\ phase' = best /\ capSel' = Startup /\ vectors' = "PRBS28"
    /\ UNCHANGED << i, count, resets, daq, voltage, own, inputs, outputs, scan >>

\* A soft reset and the alignment of the inputs ...
AlignInput ==
    /\ GoTo("input", "output")
    /\ configureASIC(-1)
    /\ UNCHANGED << i, count, resets, scan >>

\* ... and of the outputs.
AlignOutput ==
    /\ GoTo("output", "compare again")
    /\ configureASIC(0)
    /\ UNCHANGED << i, count, resets, scan >>

\* Mutation: comparisons that were given up stay so.
MutantCompareAgain ==
    /\ GoTo("compare again", "resets")
    /\ daq' = "on"
    /\ UNCHANGED << i, count, resets, chip, scan >>

CompareAgain ==
    /\ GoTo("compare again", "resets")
    /\ doDAQcompare' = TRUE /\ consecutiveResetCount' = 0
    /\ daq' = "on"
    /\ UNCHANGED << i, count, par_en_error, level, chip, scan >>

-----------------------------------------------------------------------------
(***************************************************************************)
(* The resets                                                              *)
(***************************************************************************)

Reset(l) ==
    /\ GoTo("resets", "configure")
    /\ level' = l
    /\ daq' = "off"
    /\ UNCHANGED << i, count, consecutiveResetCount, doDAQcompare, par_en_error, chip, scan >>

SoftReset   == par_en_error /\ Reset(2)
StartLadder == ~par_en_error /\ consecutiveErrorCount >= 3 /\ Reset(0)

NoReset ==
    /\ GoTo("resets", "sleep")
    /\ ~par_en_error /\ consecutiveErrorCount < 3
    /\ UNCHANGED << i, count, resets, daq, chip, scan >>

Configure ==
    /\ GoTo("configure", "start")
    /\ configureASIC(level)
    /\ UNCHANGED << i, count, resets, scan >>

\* Mutation: no start_daq after the soft reset.
MutantStart ==
    /\ GoTo("start", IF par_en_error THEN "sleep" ELSE "measure")
    /\ daq' = IF par_en_error THEN daq ELSE "on"
    /\ UNCHANGED << i, count, resets, chip, scan >>

Start ==
    /\ GoTo("start", IF par_en_error THEN "sleep" ELSE "measure")
    /\ daq' = "on"
    /\ UNCHANGED << i, count, resets, chip, scan >>

\* More than 100000 errors in a second, and there is a harder reset left.
NextStep ==
    /\ GoTo("measure", "configure")
    /\ level < 3 /\ level' = level + 1
    /\ daq' = "off"
    /\ UNCHANGED << i, count, consecutiveResetCount, doDAQcompare, par_en_error, chip, scan >>

\* Mutation: the errors that started the ladder are still counted after it.
MutantEndLadder(badData) ==
    /\ GoTo("measure", "restart")
    /\ badData => level = 3
    /\ consecutiveResetCount' = IF badData THEN consecutiveResetCount + 1 ELSE 0
    /\ daq' = "off"
    /\ UNCHANGED << i, count, doDAQcompare, par_en_error, level, chip, scan >>

EndLadder(badData) ==
    /\ GoTo("measure", "restart")
    /\ badData => level = 3
    /\ consecutiveResetCount' = IF badData THEN consecutiveResetCount + 1 ELSE 0
    /\ consecutiveErrorCount' = 0 /\ streak' = 0
    /\ daq' = "off"
    /\ UNCHANGED << i, errCount, doDAQcompare, par_en_error, level, chip, scan >>

Restart ==
    /\ GoTo("restart", "sleep")
    /\ daq' = "on"
    /\ UNCHANGED << i, count, resets, chip, scan >>

NextPass ==
    /\ GoTo("sleep", "begin")
    /\ i' = (i + 1) % ScanPeriod
    /\ UNCHANGED << count, resets, daq, chip, scan >>

-----------------------------------------------------------------------------
(***************************************************************************)
(* The end                                                                 *)
(***************************************************************************)

\* ctrl-C, at any time.
Interrupt ==
    /\ at \notin Ended \cup {"stop"}
    /\ at' = "stop"
    /\ UNCHANGED << i, count, resets, daq, chip, scan >>

\* Any other exception: a mail is sent first, which may raise in its turn.
Except ==
    /\ at \notin Ended \cup {"stop"}
    /\ at' \in {"stop", "unmailed"}
    /\ UNCHANGED << i, count, resets, daq, chip, scan >>

\* stop_daq(capture=False) has no data to print if there are errors: the loop ends
\* without the log of the last registers (691), as it does if there are none.
Stop(errors) ==
    /\ GoTo("stop", IF errors \/ ~compared THEN "failed" ELSE "done")
    /\ daq' = "off"
    /\ UNCHANGED << i, count, resets, chip, scan >>

Init ==
    /\ at = "begin" /\ i = 0
    /\ errCount = "none" /\ consecutiveErrorCount = 0 /\ streak = 0
    /\ consecutiveResetCount = 0 /\ doDAQcompare = TRUE
    /\ par_en_error = FALSE /\ level = 0
    /\ daq = "on" /\ vectors = "PRBS28" /\ voltage = "1.20"
    /\ capSel = Startup /\ own = Startup
    /\ phase = << voltage, Startup >> /\ inputs = phase /\ outputs = phase
    /\ best = NoSetting /\ missed = FALSE
    /\ compared = FALSE

Pass ==
    \/ Begin \/ (\E errors \in {"none", "some", "many"} : GetCounters(errors))
    \/ Save \/ Resume \/ Count
    \/ (\E error \in BOOLEAN : CompareRegisters(error))
    \/ StopToCapture \/ Reconfigure
    \/ StopToScan \/ (\E v \in Voltage : SetVoltage(v))
    \/ (\E good \in SUBSET CapSel : \E c, last \in good : Sweep(good, c, last))
    \/ Select \/ SetPhase \/ AlignInput \/ AlignOutput \/ CompareAgain
    \/ SoftReset \/ StartLadder \/ NoReset \/ Configure \/ Start
    \/ NextStep \/ (\E badData \in BOOLEAN : EndLadder(badData)) \/ Restart
    \/ NextPass

Next ==
    \/ Pass
    \/ Interrupt \/ Except
    \/ \E errors \in BOOLEAN : Stop(errors)

\* It is one sequential program: it goes on as long as nothing ends it.
Spec == Init /\ [][Next]_vars /\ WF_vars(Pass)

-----------------------------------------------------------------------------
(***************************************************************************)
(* Properties                                                              *)
(***************************************************************************)

\* The loop is at one of its steps with variables of their types; level is one
\* that configureASIC knows (XrayTID_Testing.py:263-294).
TypeOK ==
    /\ at \in {"begin", "errors", "save", "resume", "count", "registers", "capture",
               "captured", "scan", "voltage", "sweep", "select", "phase", "input",
               "output", "compare again", "resets", "configure", "start", "measure",
               "restart", "sleep", "stop"} \cup Ended
    /\ i \in 0..(ScanPeriod - 1)
    /\ errCount \in {"none", "some", "many"}
    /\ consecutiveErrorCount \in Nat /\ streak \in Nat /\ consecutiveResetCount \in Nat
    /\ doDAQcompare \in BOOLEAN /\ par_en_error \in BOOLEAN
    /\ level \in 0..3 /\ daq \in {"on", "off", "triggering"}
    /\ vectors \in {"PRBS28", "PRBS32"} /\ voltage \in Voltage
    /\ capSel \in CapSel /\ own \in CapSel /\ phase \in Setting
    /\ {best, inputs, outputs} \subseteq Setting \cup {NoSetting}
    /\ compared \in BOOLEAN /\ missed \in BOOLEAN

\* Errors are only counted of a chip that has the CapSelect that the last scan
\* has chosen, though every call of set_econt.py puts that of startup.yaml back,
\* with phases and alignments found at its voltage, the phases by the last scan or
\* after a hard reset, and fed with PRBS28, whichever of the six ways led to
\* start_daq (458, 491, 578, 591, 605-627, 651).
CountsTuned ==
    daq = "on" =>
        /\ capSel = IF best = NoSetting THEN Startup ELSE best[2]
        /\ phase \in {best, << voltage, Startup >>}
        /\ inputs[1] = voltage /\ outputs[1] = voltage
        /\ vectors = "PRBS28"

\* "Setting PLL VCO CapSelect to {capSel} at V={vSetting} with phaseSelect settings
\* of {bestPhase}" (552): the phases in the chip are those of its CapSelect.  After
\* a hard reset they are not: they are scanned at the one of startup.yaml (267,
\* 269), and the next write of the script's own client (287) brings back the one
\* of the last scan.
PhasesFitCapSel == daq = "on" => phase = << voltage, capSel >>

\* Every pass ends with the stream compare running, and nothing is captured,
\* scanned or configured while it may trigger the captures.
RunsBetweenPasses ==
    /\ at \in {"begin", "errors", "sleep"} => daq = "on"
    /\ at \in {"captured", "voltage", "sweep", "select", "phase", "input", "output",
               "configure"} => daq = "off"

\* At most one ladder fails between two scans: from then on nothing is compared
\* and no ladder started until the next scan (420-423, 576-577, 645-650).
OneFailedLadder ==
    /\ consecutiveResetCount <= 1
    /\ ~doDAQcompare => consecutiveResetCount = 1 /\ consecutiveErrorCount = 0

\* A ladder is a reaction to at least three passes in a row, up to this one, all
\* of them compared and bad, and never comes later than after the fourth: only a
\* parallel enable error in the third puts it off (460-464, 585, 593).
LadderIsTimely ==
    /\ at = "configure" /\ ~par_en_error => streak >= 3
    /\ consecutiveErrorCount <= 4

\* The voltage follows the schedule of the scans, unless SetVoltage has given up
\* in the last one and the loop has gone on at the old voltage (505-539).  This
\* is the schedule of the code, 1.20 V, 1.32 V, 1.08 V, and not that of the
\* comments at 444-445, which have 1.08 V in minutes 10-15 and 1.32 V in minutes
\* 15-20: a period in which no voltage was missed never is as the comments say.
VoltageOnSchedule ==
    at = "sleep" =>
        \/ missed
        \/ voltage = CASE i < ScanPeriod \div 2         -> "1.20"
                       [] i >= 3 * (ScanPeriod \div 4) -> "1.08"
                       [] OTHER                        -> "1.32"

\* Comparisons that were given up are taken up again, unless the loop ends.
ComparisonResumes == ~doDAQcompare ~> doDAQcompare \/ at \in Ended \cup {"stop"}

=============================================================================
