---------------------------- MODULE XrayTID_proofs ----------------------------
(***************************************************************************)
(* Proofs about XrayTID, for any settings of the PLL and any periods: its  *)
(* types, that the stream compare runs between passes and only over a      *)
(* tuned chip, that at most one ladder of resets fails between two scans,  *)
(* that a ladder is timely, and that the voltage follows the schedule.     *)
(***************************************************************************)
EXTENDS XrayTID, TLAPS

-----------------------------------------------------------------------------
(***************************************************************************)
(* The inductive invariant                                                 *)
(***************************************************************************)

\* The steps at which the stream compare runs, and those at which it does not.
Running == {"begin", "errors", "save", "count", "registers", "capture", "scan", "resets",
            "measure", "sleep"}
Halted  == {"resume", "captured", "voltage", "sweep", "select", "phase", "input", "output",
            "configure", "restart"}

DaqInv ==
    /\ at \in Running => daq = "on"
    /\ at \in Halted => daq = "off"

\* The steps of a scan, at which the chip is not tuned.
Scanning == {"sweep", "select", "phase", "input", "output"}
Over     == Ended \cup {"stop"}

\* The CapSelect that the last scan has chosen.
Chosen == IF best = NoSetting THEN Startup ELSE best[2]

Tuned ==
    /\ capSel = own /\ own = Chosen
    /\ phase \in {best, << voltage, Startup >>}
    /\ inputs = << voltage, Startup >> /\ outputs = << voltage, Startup >>
    /\ vectors = "PRBS28"

TuneInv ==
    /\ at \in Scanning \/ at \in Over \/ Tuned
    /\ daq = "on" => Tuned
    /\ at = "select" => best \in {voltage} \X CapSel
    /\ at \in {"phase", "input", "output"} => best = << voltage, own >>
    /\ at \in {"input", "output"} => phase = best /\ vectors = "PRBS28"
    /\ at = "output" => inputs = << voltage, Startup >>

\* A pass is compared up to its count, if no ladder has failed.
Comparing == {"errors", "save", "resume", "count"}

LadderInv ==
    /\ consecutiveResetCount \in {0, 1}
    /\ consecutiveResetCount = 1 => consecutiveErrorCount = 0
    /\ ~doDAQcompare => consecutiveResetCount = 1
    /\ at \in Comparing => consecutiveResetCount = 0 /\ doDAQcompare
    /\ at \in {"configure", "start"} => par_en_error \/ consecutiveErrorCount >= 3
    /\ at = "measure" => consecutiveErrorCount >= 3

\* What a pass counts on before its errors are counted, and after.
Fresh == {"begin"} \cup Comparing

CountInv ==
    /\ streak = consecutiveErrorCount
    /\ consecutiveErrorCount <= 4
    /\ at \in Fresh => /\ consecutiveErrorCount <= 3
                       /\ consecutiveErrorCount = 3 => ~doI2CCompare
    /\ at \notin Over \cup {"sleep"} =>
           /\ consecutiveErrorCount = 4 => ~doI2CCompare
           /\ at \notin Fresh \cup {"registers"} /\ par_en_error => doI2CCompare
    /\ at = "sleep" => /\ consecutiveErrorCount <= 3
                       /\ consecutiveErrorCount = 3 => doI2CCompare
    /\ at = "restart" => consecutiveErrorCount = 0

\* The voltage of pass i after its scan, if it has one.
Scheduled ==
    CASE i < ScanPeriod \div 2         -> "1.20"
      [] i >= 3 * (ScanPeriod \div 4) -> "1.08"
      [] OTHER                        -> "1.32"

Unscanned == {"begin", "registers", "capture", "captured", "scan"} \cup Comparing

VoltageInv ==
    /\ at = "voltage" => doPhaseScans
    /\ at \in Over \cup {"voltage"} \/ missed \/ voltage = Scheduled
         \/ (at \in Unscanned /\ doPhaseScans)

-----------------------------------------------------------------------------
(***************************************************************************)
(* Types                                                                   *)
(***************************************************************************)

Steps == {"begin", "errors", "save", "resume", "count", "registers", "capture", "captured",
          "scan", "voltage", "sweep", "select", "phase", "input", "output", "compare again",
          "resets", "configure", "start", "measure", "restart", "sleep", "stop"} \cup Ended

AtOK     == at \in Steps
IOK      == i \in 0..(ScanPeriod - 1)
CountOK  == errCount \in {"none", "some", "many"} /\ consecutiveErrorCount \in Nat /\ streak \in Nat
NumberOK == consecutiveResetCount \in Nat
FlagsOK  == doDAQcompare \in BOOLEAN /\ par_en_error \in BOOLEAN
LevelOK  == level \in 0..3
DaqOK    == daq \in {"on", "off", "triggering"}
ChipOK   ==
    /\ vectors \in {"PRBS28", "PRBS32"} /\ voltage \in Voltage
    /\ capSel \in CapSel /\ own \in CapSel /\ phase \in Setting
    /\ inputs \in Setting \cup {NoSetting} /\ outputs \in Setting \cup {NoSetting}
BestOK   == best \in Setting \cup {NoSetting}
RecordOK == compared \in BOOLEAN /\ missed \in BOOLEAN

LEMMA Parts ==
    TypeOK <=> /\ AtOK /\ IOK /\ CountOK /\ NumberOK /\ FlagsOK /\ LevelOK /\ DaqOK /\ ChipOK
               /\ BestOK /\ RecordOK
BY DEF TypeOK, Steps, AtOK, IOK, CountOK, NumberOK, FlagsOK, LevelOK, DaqOK, ChipOK, BestOK, RecordOK

LEMMA TypeInit == Init => TypeOK
<1> SUFFICES ASSUME Init  PROVE TypeOK  OBVIOUS
<1>1. AtOK /\ IOK /\ CountOK /\ NumberOK /\ LevelOK /\ DaqOK
  BY PeriodAssumption DEF Init, AtOK, Steps, IOK, CountOK, NumberOK, LevelOK, DaqOK
<1>2. FlagsOK /\ RecordOK  BY DEF Init, FlagsOK, RecordOK
<1>3. ChipOK /\ BestOK
  BY CapSelAssumption DEF Init, ChipOK, BestOK, Voltage, Setting, NoSetting
<1> QED  BY <1>1, <1>2, <1>3, Parts

\* Every action goes from one step to others.
LEMMA AtStep == TypeOK /\ [Next]_vars => AtOK'
<1> SUFFICES ASSUME TypeOK, [Next]_vars  PROVE AtOK'  OBVIOUS
<1>0. AtOK  BY Parts
<1>1. ASSUME Begin \/ (\E errors \in {"none", "some", "many"} : GetCounters(errors))
             \/ Save \/ Resume \/ Count \/ (\E error \in BOOLEAN : CompareRegisters(error))
      PROVE  AtOK'
  BY <1>1 DEF Begin, GetCounters, Save, Resume, Count, CompareRegisters, GoTo, AtOK, Steps
<1>2. ASSUME StopToCapture \/ Reconfigure \/ StopToScan \/ (\E v \in Voltage : SetVoltage(v))
             \/ (\E good \in SUBSET CapSel : \E c, last \in good : Sweep(good, c, last))
      PROVE  AtOK'
  BY <1>2 DEF StopToCapture, Reconfigure, StopToScan, SetVoltage, Sweep, GoTo, AtOK, Steps
<1>3. ASSUME Select \/ SetPhase \/ AlignInput \/ AlignOutput \/ CompareAgain  PROVE AtOK'
  BY <1>3 DEF Select, SetPhase, AlignInput, AlignOutput, CompareAgain, GoTo, AtOK, Steps
<1>4. ASSUME SoftReset \/ StartLadder \/ NoReset \/ Configure \/ Start  PROVE AtOK'
  BY <1>4 DEF SoftReset, StartLadder, Reset, NoReset, Configure, Start, GoTo, AtOK, Steps
<1>5. ASSUME NextStep \/ (\E badData \in BOOLEAN : EndLadder(badData)) \/ Restart \/ NextPass
      PROVE  AtOK'
  BY <1>5 DEF NextStep, EndLadder, Restart, NextPass, GoTo, AtOK, Steps
<1>6. ASSUME Interrupt \/ Except \/ (\E errors \in BOOLEAN : Stop(errors))  PROVE AtOK'
  BY <1>6 DEF Interrupt, Except, Stop, GoTo, AtOK, Steps, Ended
<1>7. CASE UNCHANGED vars  BY <1>0, <1>7 DEF vars, AtOK
<1> QED  BY <1>1, <1>2, <1>3, <1>4, <1>5, <1>6, <1>7 DEF Next, Pass

LEMMA CountStep == TypeOK /\ [Next]_vars => IOK' /\ CountOK' /\ NumberOK'
<1> SUFFICES ASSUME TypeOK, [Next]_vars  PROVE IOK' /\ CountOK' /\ NumberOK'  OBVIOUS
<1>0. IOK /\ CountOK /\ NumberOK  BY Parts
<1> USE DEF GoTo, IOK, CountOK, NumberOK, count, resets
<1>1. ASSUME Begin  PROVE IOK' /\ CountOK' /\ NumberOK'  BY <1>0, <1>1 DEF Begin
<1>2. ASSUME NEW errors \in {"none", "some", "many"}, GetCounters(errors)
      PROVE  IOK' /\ CountOK' /\ NumberOK'
  BY <1>0, <1>2 DEF GetCounters
<1>3. ASSUME Count  PROVE IOK' /\ CountOK' /\ NumberOK'  BY <1>0, <1>3 DEF Count
<1>4. ASSUME CompareAgain  PROVE IOK' /\ CountOK' /\ NumberOK'  BY <1>0, <1>4 DEF CompareAgain
<1>5. ASSUME NEW badData \in BOOLEAN, EndLadder(badData)  PROVE IOK' /\ CountOK' /\ NumberOK'
  BY <1>0, <1>5 DEF EndLadder
<1>6. ASSUME NextPass  PROVE IOK' /\ CountOK' /\ NumberOK'
  BY <1>0, <1>6, PeriodAssumption DEF NextPass
<1>7. ASSUME UNCHANGED << i, count, consecutiveResetCount >>  PROVE IOK' /\ CountOK' /\ NumberOK'
  BY <1>0, <1>7
<1>8. ASSUME Save \/ Resume \/ (\E error \in BOOLEAN : CompareRegisters(error)) \/ StopToCapture
             \/ Reconfigure \/ StopToScan \/ (\E v \in Voltage : SetVoltage(v))
             \/ (\E good \in SUBSET CapSel : \E c, last \in good : Sweep(good, c, last))
      PROVE  UNCHANGED << i, count, consecutiveResetCount >>
  BY <1>8 DEF Save, Resume, CompareRegisters, StopToCapture, Reconfigure, StopToScan, SetVoltage, Sweep
<1>9. ASSUME Select \/ SetPhase \/ AlignInput \/ AlignOutput \/ SoftReset \/ StartLadder \/ NoReset
             \/ Configure \/ Start \/ NextStep \/ Restart
      PROVE  UNCHANGED << i, count, consecutiveResetCount >>
  BY <1>9 DEF Select, SetPhase, AlignInput, AlignOutput, SoftReset, StartLadder, Reset, NoReset,
              Configure, Start, NextStep, Restart
<1>a. ASSUME Interrupt \/ Except \/ (\E errors \in BOOLEAN : Stop(errors)) \/ UNCHANGED vars
      PROVE  UNCHANGED << i, count, consecutiveResetCount >>
  BY <1>a DEF Interrupt, Except, Stop, vars
<1> QED  BY <1>1, <1>2, <1>3, <1>4, <1>5, <1>6, <1>7, <1>8, <1>9, <1>a DEF Next, Pass

LEMMA LevelStep == TypeOK /\ [Next]_vars => LevelOK' /\ DaqOK'
<1> SUFFICES ASSUME TypeOK, [Next]_vars  PROVE LevelOK' /\ DaqOK'  OBVIOUS
<1>0. LevelOK /\ DaqOK  BY Parts
<1> USE DEF GoTo, LevelOK, DaqOK, resets
<1>1. ASSUME SoftReset \/ StartLadder \/ NextStep  PROVE LevelOK' /\ DaqOK'
  BY <1>0, <1>1 DEF SoftReset, StartLadder, Reset, NextStep
<1>2. ASSUME AlignInput \/ AlignOutput \/ Configure  PROVE LevelOK' /\ DaqOK'
  BY <1>0, <1>2 DEF AlignInput, AlignOutput, Configure, configureASIC
<1>3. ASSUME Save \/ Resume \/ StopToCapture \/ Reconfigure \/ StopToScan \/ CompareAgain \/ Start
             \/ (\E badData \in BOOLEAN : EndLadder(badData)) \/ Restart
             \/ (\E errors \in BOOLEAN : Stop(errors))
      PROVE  LevelOK' /\ DaqOK'
  BY <1>0, <1>3 DEF Save, Resume, StopToCapture, Reconfigure, StopToScan, CompareAgain, Start,
                    EndLadder, Restart, Stop
<1>4. ASSUME Begin \/ (\E errors \in {"none", "some", "many"} : GetCounters(errors)) \/ Count
             \/ (\E error \in BOOLEAN : CompareRegisters(error))
             \/ (\E v \in Voltage : SetVoltage(v))
             \/ (\E good \in SUBSET CapSel : \E c, last \in good : Sweep(good, c, last))
      PROVE  UNCHANGED << level, daq >>
  BY <1>4 DEF Begin, GetCounters, Count, CompareRegisters, SetVoltage, Sweep
<1>5. ASSUME Select \/ SetPhase \/ NoReset \/ NextPass \/ Interrupt \/ Except \/ UNCHANGED vars
      PROVE  UNCHANGED << level, daq >>
  BY <1>5 DEF Select, SetPhase, NoReset, NextPass, Interrupt, Except, vars
<1> QED  BY <1>0, <1>1, <1>2, <1>3, <1>4, <1>5 DEF Next, Pass

\* Select reads the setting that the sweep has found.
LEMMA ChipStep == TypeOK /\ TuneInv /\ [Next]_vars => ChipOK' /\ BestOK'
<1> SUFFICES ASSUME TypeOK, TuneInv, [Next]_vars  PROVE ChipOK' /\ BestOK'  OBVIOUS
<1>0. ChipOK /\ BestOK  BY Parts
<1> USE DEF ChipOK, BestOK, scan, chip, GoTo
<1>1. ASSUME NEW v \in Voltage, SetVoltage(v)  PROVE ChipOK' /\ BestOK'
  BY <1>0, <1>1 DEF SetVoltage
<1>2. ASSUME NEW good \in SUBSET CapSel, NEW c \in good, NEW last \in good, Sweep(good, c, last)
      PROVE  ChipOK' /\ BestOK'
  BY <1>0, <1>2 DEF Sweep, Setting
<1>3. ASSUME Select  PROVE ChipOK' /\ BestOK'
  <2>1. best[2] \in CapSel  BY <1>3 DEF Select, TuneInv
  <2> QED  BY <1>0, <1>3, <2>1 DEF Select
<1>4. ASSUME SetPhase  PROVE ChipOK' /\ BestOK'
  <2>1. best = << voltage, own >>  BY <1>4 DEF SetPhase, TuneInv
  <2>2. best \in Setting  BY <1>0, <2>1 DEF Setting
  <2> QED  BY <1>0, <1>4, <2>2, CapSelAssumption DEF SetPhase
<1>5. ASSUME NEW l \in {-1, 0, 1, 2, 3}, configureASIC(l)  PROVE ChipOK'
  <2>2. << voltage, Startup >> \in Setting  BY <1>0, CapSelAssumption DEF Setting
  <2> QED  BY <1>0, <1>5, <2>2 DEF configureASIC
<1>6. ASSUME AlignInput \/ AlignOutput \/ Configure  PROVE ChipOK' /\ BestOK'
  <2>1. level \in 0..3  BY DEF TypeOK
  <2>2. configureASIC(-1) \/ configureASIC(0) \/ configureASIC(level)
    BY <1>6 DEF AlignInput, AlignOutput, Configure
  <2>3. level \in {-1, 0, 1, 2, 3}  BY <2>1
  <2>4. ChipOK'  BY <1>5, <2>2, <2>3
  <2>5. UNCHANGED best  BY <1>6 DEF AlignInput, AlignOutput, Configure
  <2> QED  BY <1>0, <2>4, <2>5
<1>7. ASSUME UNCHANGED << chip, best >>  PROVE ChipOK' /\ BestOK'  BY <1>0, <1>7
<1>8. ASSUME Begin \/ (\E errors \in {"none", "some", "many"} : GetCounters(errors)) \/ Save
             \/ Resume \/ Count \/ (\E error \in BOOLEAN : CompareRegisters(error))
             \/ StopToCapture \/ Reconfigure \/ StopToScan \/ CompareAgain
      PROVE  UNCHANGED << chip, best >>
  BY <1>8 DEF Begin, GetCounters, Save, Resume, Count, CompareRegisters, StopToCapture,
              Reconfigure, StopToScan, CompareAgain
<1>9. ASSUME SoftReset \/ StartLadder \/ NoReset \/ Start \/ NextStep
             \/ (\E badData \in BOOLEAN : EndLadder(badData)) \/ Restart \/ NextPass
             \/ Interrupt \/ Except \/ (\E errors \in BOOLEAN : Stop(errors)) \/ UNCHANGED vars
      PROVE  UNCHANGED << chip, best >>
  BY <1>9 DEF SoftReset, StartLadder, Reset, NoReset, Start, NextStep, EndLadder, Restart,
              NextPass, Interrupt, Except, Stop, vars
<1> QED  BY <1>1, <1>2, <1>3, <1>4, <1>6, <1>7, <1>8, <1>9 DEF Next, Pass

LEMMA FlagsStep == TypeOK /\ [Next]_vars => FlagsOK' /\ RecordOK'
<1> SUFFICES ASSUME TypeOK, [Next]_vars  PROVE FlagsOK' /\ RecordOK'  OBVIOUS
<1>0. FlagsOK /\ RecordOK  BY Parts
<1> USE DEF FlagsOK, RecordOK, scan, resets
<1>1. ASSUME Begin  PROVE FlagsOK' /\ RecordOK'  BY <1>0, <1>1, Zenon DEF Begin
<1>2. ASSUME NEW error \in BOOLEAN, CompareRegisters(error)  PROVE FlagsOK' /\ RecordOK'
  BY <1>0, <1>2, Zenon DEF CompareRegisters
<1>3. ASSUME NEW v \in Voltage, SetVoltage(v)  PROVE FlagsOK' /\ RecordOK'
  BY <1>0, <1>3, Zenon DEF SetVoltage
<1>4. ASSUME CompareAgain  PROVE FlagsOK' /\ RecordOK'  BY <1>0, <1>4, Zenon DEF CompareAgain
<1>5. ASSUME NEW errors \in BOOLEAN, Stop(errors)  PROVE FlagsOK' /\ RecordOK'
  BY <1>0, <1>5, Zenon DEF Stop
<1>6. ASSUME UNCHANGED << doDAQcompare, par_en_error, compared, missed >>
      PROVE  FlagsOK' /\ RecordOK'
  BY <1>0, <1>6
<1>7. ASSUME (\E errors \in {"none", "some", "many"} : GetCounters(errors)) \/ Save \/ Resume
             \/ Count \/ StopToCapture \/ Reconfigure \/ StopToScan
             \/ (\E good \in SUBSET CapSel : \E c, last \in good : Sweep(good, c, last))
      PROVE  UNCHANGED << doDAQcompare, par_en_error, compared, missed >>
  BY <1>7 DEF GetCounters, Save, Resume, Count, StopToCapture, Reconfigure, StopToScan, Sweep
<1>8. ASSUME Select \/ SetPhase \/ AlignInput \/ AlignOutput \/ SoftReset \/ StartLadder
             \/ NoReset \/ Configure \/ Start
      PROVE  UNCHANGED << doDAQcompare, par_en_error, compared, missed >>
  BY <1>8 DEF Select, SetPhase, AlignInput, AlignOutput, SoftReset, StartLadder, Reset, NoReset,
              Configure, Start
<1>9. ASSUME NextStep \/ (\E badData \in BOOLEAN : EndLadder(badData)) \/ Restart \/ NextPass
             \/ Interrupt \/ Except \/ UNCHANGED vars
      PROVE  UNCHANGED << doDAQcompare, par_en_error, compared, missed >>
  BY <1>9 DEF NextStep, EndLadder, Restart, NextPass, Interrupt, Except, vars
<1> QED  BY <1>1, <1>2, <1>3, <1>4, <1>5, <1>6, <1>7, <1>8, <1>9 DEF Next, Pass

LEMMA TypeStep == TypeOK /\ TuneInv /\ [Next]_vars => TypeOK'
<1> SUFFICES ASSUME TypeOK, TuneInv, [Next]_vars  PROVE TypeOK'  OBVIOUS
<1>1. AtOK' /\ IOK' /\ CountOK' /\ NumberOK' /\ LevelOK' /\ DaqOK'
  BY AtStep, CountStep, LevelStep
<1>2. FlagsOK' /\ RecordOK' /\ ChipOK' /\ BestOK'  BY FlagsStep, ChipStep
<1> QED
  BY <1>1, <1>2 DEF TypeOK, Steps, AtOK, IOK, CountOK, NumberOK, FlagsOK, LevelOK, DaqOK, ChipOK,
                    BestOK, RecordOK

-----------------------------------------------------------------------------
(***************************************************************************)
(* The stream compare                                                      *)
(***************************************************************************)

LEMMA DaqStep == DaqInv /\ [Next]_vars => DaqInv'
<1> SUFFICES ASSUME DaqInv, [Next]_vars  PROVE DaqInv'  OBVIOUS
<1> USE DEF DaqInv, Running, Halted, GoTo
<1>1. ASSUME Begin \/ (\E errors \in {"none", "some", "many"} : GetCounters(errors)) \/ Save
             \/ Resume \/ Count \/ (\E error \in BOOLEAN : CompareRegisters(error))
      PROVE  DaqInv'
  BY <1>1 DEF Begin, GetCounters, Save, Resume, Count, CompareRegisters
<1>2. ASSUME StopToCapture \/ Reconfigure \/ StopToScan \/ (\E v \in Voltage : SetVoltage(v))
             \/ (\E good \in SUBSET CapSel : \E c, last \in good : Sweep(good, c, last))
      PROVE  DaqInv'
  BY <1>2 DEF StopToCapture, Reconfigure, StopToScan, SetVoltage, Sweep
<1>3. ASSUME Select \/ SetPhase \/ AlignInput \/ AlignOutput \/ CompareAgain  PROVE DaqInv'
  BY <1>3 DEF Select, SetPhase, AlignInput, AlignOutput, configureASIC, CompareAgain
<1>4. ASSUME SoftReset \/ StartLadder \/ NoReset \/ Configure \/ Start  PROVE DaqInv'
  BY <1>4 DEF SoftReset, StartLadder, Reset, NoReset, Configure, Start
<1>5. ASSUME NextStep \/ (\E badData \in BOOLEAN : EndLadder(badData)) \/ Restart \/ NextPass
      PROVE  DaqInv'
  BY <1>5 DEF NextStep, EndLadder, Restart, NextPass
<1>6. ASSUME Interrupt \/ Except \/ (\E errors \in BOOLEAN : Stop(errors))  PROVE DaqInv'
  BY <1>6 DEF Interrupt, Except, Stop, Ended
<1>7. CASE UNCHANGED vars  BY <1>7 DEF vars
<1> QED  BY <1>1, <1>2, <1>3, <1>4, <1>5, <1>6, <1>7 DEF Next, Pass

-----------------------------------------------------------------------------
(***************************************************************************)
(* The tuning of the chip                                                  *)
(***************************************************************************)

LEMMA TuneStep == TypeOK /\ DaqInv /\ TuneInv /\ [Next]_vars => TuneInv'
<1> SUFFICES ASSUME TypeOK, DaqInv, TuneInv, [Next]_vars  PROVE TuneInv'  OBVIOUS
<1> USE DEF TuneInv, Tuned, Chosen, Scanning, Over, Ended, GoTo
\* Before the scan and after it nothing touches what makes the chip tuned ...
<1>1. ASSUME UNCHANGED << chip, best >>, at \notin Scanning \cup Over, at' \notin Scanning
      PROVE  TuneInv'
  BY <1>1 DEF chip
<1>2. ASSUME Begin \/ (\E errors \in {"none", "some", "many"} : GetCounters(errors)) \/ Save
             \/ Resume \/ Count \/ (\E error \in BOOLEAN : CompareRegisters(error))
             \/ StopToCapture \/ Reconfigure \/ StopToScan \/ CompareAgain
      PROVE  TuneInv'
  <2>1. UNCHANGED << chip, best >>
    BY <1>2 DEF Begin, GetCounters, Save, Resume, Count, CompareRegisters, StopToCapture,
                Reconfigure, StopToScan, CompareAgain, scan
  <2>2. at \notin Scanning \cup Over /\ at' \notin Scanning
    BY <1>2 DEF Begin, GetCounters, Save, Resume, Count, CompareRegisters, StopToCapture,
                Reconfigure, StopToScan, CompareAgain
  <2> QED  BY <1>1, <2>1, <2>2
<1>3. ASSUME SoftReset \/ StartLadder \/ NoReset \/ Start \/ NextStep
             \/ (\E badData \in BOOLEAN : EndLadder(badData)) \/ Restart \/ NextPass
      PROVE  TuneInv'
  <2>1. UNCHANGED << chip, best >>
    BY <1>3 DEF SoftReset, StartLadder, Reset, NoReset, Start, NextStep, EndLadder, Restart,
                NextPass, scan
  <2>2. at \notin Scanning \cup Over /\ at' \notin Scanning
    BY <1>3 DEF SoftReset, StartLadder, Reset, NoReset, Start, NextStep, EndLadder, Restart, NextPass
  <2> QED  BY <1>1, <2>1, <2>2
\* ... a reset of whatever level leaves it tuned ...
<1>4. ASSUME Configure  PROVE TuneInv'
  <2>1. at = "configure" /\ at' = "start" /\ configureASIC(level)  BY <1>4 DEF Configure
  <2>2. level \in 0..3  BY DEF TypeOK
  <2>3. /\ UNCHANGED << best, own, voltage >> /\ capSel' = own
        /\ inputs' = << voltage, Startup >> /\ outputs' = << voltage, Startup >>
        /\ phase' \in {phase, << voltage, Startup >>} /\ vectors' = "PRBS28"
    BY <1>4, <2>1, <2>2 DEF Configure, configureASIC, scan
  <2> QED  BY <2>1, <2>3 DEF Chosen
\* ... and the scan gets there step by step, with the stream compare off.
<1>5. ASSUME NEW v \in Voltage, SetVoltage(v)  PROVE TuneInv'
  BY <1>5 DEF SetVoltage, DaqInv, Halted
<1>6. ASSUME NEW good \in SUBSET CapSel, NEW c \in good, NEW last \in good, Sweep(good, c, last)
      PROVE  TuneInv'
  BY <1>6 DEF Sweep, DaqInv, Halted
<1>7. ASSUME Select  PROVE TuneInv'  BY <1>7 DEF Select, scan, DaqInv, Halted
<1>8. ASSUME SetPhase  PROVE TuneInv'  BY <1>8 DEF SetPhase, scan, DaqInv, Halted
<1>9. ASSUME AlignInput  PROVE TuneInv'
  <2>1. at = "input" /\ at' = "output" /\ UNCHANGED best  BY <1>9 DEF AlignInput, scan
  <2>2. ASSUME NEW l \in {-1}, configureASIC(l)
        PROVE  inputs' = << voltage, Startup >> /\ daq' = daq
               /\ UNCHANGED << phase, vectors, voltage, own >>
    BY <2>2 DEF configureASIC
  <2>3. /\ inputs' = << voltage, Startup >> /\ daq' = daq
        /\ UNCHANGED << phase, vectors, voltage, own >>
    BY <1>9, <2>2 DEF AlignInput
  <2> QED  BY <2>1, <2>3 DEF DaqInv, Halted
<1>a. ASSUME AlignOutput  PROVE TuneInv'
  <2>1. at = "output" /\ at' = "compare again" /\ UNCHANGED best  BY <1>a DEF AlignOutput, scan
  <2>2. ASSUME NEW l \in {0}, configureASIC(l)
        PROVE  /\ inputs' = inputs /\ outputs' = << voltage, Startup >> /\ capSel' = own
               /\ UNCHANGED << phase, vectors, voltage, own >>
    BY <2>2 DEF configureASIC
  <2>3. /\ inputs' = inputs /\ outputs' = << voltage, Startup >> /\ capSel' = own
        /\ UNCHANGED << phase, vectors, voltage, own >>
    BY <1>a, <2>2 DEF AlignOutput
  <2>4. best = << voltage, own >> /\ voltage \in Voltage  BY <2>1 DEF TypeOK
  <2>5. best # NoSetting /\ best[2] = own  BY <2>4 DEF NoSetting, Voltage
  <2> QED  BY <2>1, <2>3, <2>5 DEF Chosen
<1>b. ASSUME Interrupt \/ Except \/ (\E errors \in BOOLEAN : Stop(errors))  PROVE TuneInv'
  BY <1>b DEF Interrupt, Except, Stop, chip, scan
<1>c. CASE UNCHANGED vars  BY <1>c DEF vars, chip, scan
<1> QED
  BY <1>2, <1>3, <1>4, <1>5, <1>6, <1>7, <1>8, <1>9, <1>a, <1>b, <1>c DEF Next, Pass

-----------------------------------------------------------------------------
(***************************************************************************)
(* The ladder                                                              *)
(***************************************************************************)

LEMMA LadderStep == TypeOK /\ LadderInv /\ [Next]_vars => LadderInv'
<1> SUFFICES ASSUME TypeOK, LadderInv, [Next]_vars  PROVE LadderInv'  OBVIOUS
<1>0. consecutiveErrorCount \in Nat  BY DEF TypeOK
<1> USE DEF LadderInv, Comparing, GoTo, count, resets
<1>1. ASSUME Begin  PROVE LadderInv'
  BY <1>0, <1>1 DEF Begin
<1>2. ASSUME (\E errors \in {"none", "some", "many"} : GetCounters(errors)) \/ Save \/ Resume
      PROVE  LadderInv'
  BY <1>0, <1>2 DEF GetCounters, Save, Resume
<1>3. ASSUME Count  PROVE LadderInv'
  BY <1>0, <1>3 DEF Count
<1>4. ASSUME NEW error \in BOOLEAN, CompareRegisters(error)  PROVE LadderInv'
  BY <1>0, <1>4 DEF CompareRegisters
<1>5. ASSUME StopToCapture \/ Reconfigure \/ StopToScan \/ (\E v \in Voltage : SetVoltage(v))
             \/ (\E good \in SUBSET CapSel : \E c, last \in good : Sweep(good, c, last))
      PROVE  LadderInv'
  BY <1>0, <1>5 DEF StopToCapture, Reconfigure, StopToScan, SetVoltage, Sweep
<1>6. ASSUME Select \/ SetPhase \/ AlignInput \/ AlignOutput  PROVE LadderInv'
  BY <1>0, <1>6 DEF Select, SetPhase, AlignInput, AlignOutput
<1>7. ASSUME CompareAgain  PROVE LadderInv'  BY <1>0, <1>7 DEF CompareAgain
<1>8. ASSUME SoftReset \/ StartLadder \/ NoReset  PROVE LadderInv'
  BY <1>0, <1>8 DEF SoftReset, StartLadder, Reset, NoReset
<1>9. ASSUME Configure \/ Start \/ NextStep  PROVE LadderInv'
  BY <1>0, <1>9 DEF Configure, Start, NextStep
<1>a. ASSUME NEW badData \in BOOLEAN, EndLadder(badData)  PROVE LadderInv'
  BY <1>0, <1>a DEF EndLadder
<1>b. ASSUME Restart \/ NextPass  PROVE LadderInv'
  BY <1>0, <1>b DEF Restart, NextPass
<1>c. ASSUME Interrupt \/ Except \/ (\E errors \in BOOLEAN : Stop(errors))  PROVE LadderInv'
  BY <1>0, <1>c DEF Interrupt, Except, Stop, Ended
<1>d. CASE UNCHANGED vars  BY <1>d DEF vars
<1> QED
  BY <1>1, <1>2, <1>3, <1>4, <1>5, <1>6, <1>7, <1>8, <1>9, <1>a, <1>b, <1>c, <1>d DEF Next, Pass

\* After a pass with a comparison of registers comes one without.
LEMMA NextCompare ==
    ASSUME i \in 0..(ScanPeriod - 1), i % I2cPeriod = 0
    PROVE  ((i + 1) % ScanPeriod) % I2cPeriod # 0
<1> DEFINE p == I2cPeriod
<1>1. p \in Nat /\ p > 1 /\ ScanPeriod \in Nat /\ ScanPeriod > 0 /\ ScanPeriod % p = 0
  BY PeriodAssumption
<1>2. (i + 1) % p = 1  BY <1>1
<1>3. i + 1 # ScanPeriod  BY <1>1, <1>2
<1>4. (i + 1) % ScanPeriod = i + 1  BY <1>1, <1>3
<1> QED  BY <1>2, <1>4

LEMMA CountInvStep == TypeOK /\ LadderInv /\ CountInv /\ [Next]_vars => CountInv'
<1> SUFFICES ASSUME TypeOK, LadderInv, CountInv, [Next]_vars  PROVE CountInv'  OBVIOUS
<1>0. /\ consecutiveErrorCount \in Nat /\ streak \in Nat /\ consecutiveResetCount \in {0, 1}
      /\ i \in 0..(ScanPeriod - 1)
  BY DEF TypeOK, LadderInv
<1> USE DEF CountInv, Fresh, Comparing, Over, Ended, GoTo, count, resets
<1>1. ASSUME Begin  PROVE CountInv'
  BY <1>0, <1>1 DEF Begin, LadderInv, doI2CCompare
<1>2. ASSUME (\E errors \in {"none", "some", "many"} : GetCounters(errors)) \/ Save \/ Resume
      PROVE  CountInv'
  BY <1>0, <1>2 DEF GetCounters, Save, Resume, doI2CCompare
<1>3. ASSUME Count  PROVE CountInv'
  BY <1>0, <1>3 DEF Count, doI2CCompare
<1>4. ASSUME NEW error \in BOOLEAN, CompareRegisters(error)  PROVE CountInv'
  BY <1>0, <1>4 DEF CompareRegisters, doI2CCompare
<1>5. ASSUME StopToCapture \/ Reconfigure \/ StopToScan \/ (\E v \in Voltage : SetVoltage(v))
             \/ (\E good \in SUBSET CapSel : \E c, last \in good : Sweep(good, c, last))
      PROVE  CountInv'
  BY <1>0, <1>5 DEF StopToCapture, Reconfigure, StopToScan, SetVoltage, Sweep, doI2CCompare
<1>6. ASSUME Select \/ SetPhase \/ AlignInput \/ AlignOutput  PROVE CountInv'
  <2>1. UNCHANGED << i, count, resets >> /\ at \in {"select", "phase", "input", "output"}
        /\ at' \in {"phase", "input", "output", "compare again"}
    BY <1>6 DEF Select, SetPhase, AlignInput, AlignOutput
  <2> QED  BY <1>0, <2>1 DEF doI2CCompare
<1>e. ASSUME CompareAgain  PROVE CountInv'
  BY <1>0, <1>e DEF CompareAgain, doI2CCompare
<1>7. ASSUME SoftReset \/ StartLadder \/ NoReset  PROVE CountInv'
  BY <1>0, <1>7 DEF SoftReset, StartLadder, Reset, NoReset, doI2CCompare
<1>8. ASSUME Configure \/ Start \/ NextStep  PROVE CountInv'
  BY <1>0, <1>8 DEF Configure, Start, NextStep, doI2CCompare
<1>9. ASSUME NEW badData \in BOOLEAN, EndLadder(badData)  PROVE CountInv'
  BY <1>0, <1>9 DEF EndLadder, doI2CCompare
<1>a. ASSUME Restart  PROVE CountInv'
  BY <1>0, <1>a DEF Restart, doI2CCompare
<1>b. ASSUME NextPass  PROVE CountInv'
  <2>1. doI2CCompare => ~doI2CCompare'  BY <1>0, <1>b, NextCompare DEF NextPass, doI2CCompare
  <2> QED  BY <1>0, <1>b, <2>1 DEF NextPass
<1>c. ASSUME Interrupt \/ Except \/ (\E errors \in BOOLEAN : Stop(errors))  PROVE CountInv'
  BY <1>0, <1>c DEF Interrupt, Except, Stop
<1>d. CASE UNCHANGED vars  BY <1>d DEF vars, doI2CCompare
<1> QED
  BY <1>1, <1>2, <1>3, <1>4, <1>5, <1>6, <1>7, <1>8, <1>9, <1>a, <1>b, <1>c, <1>d, <1>e
  DEF Next, Pass

-----------------------------------------------------------------------------
(***************************************************************************)
(* The voltage                                                             *)
(***************************************************************************)

\* The passes of the scans are three, in this order.
LEMMA Passes ==
    /\ ScanPeriod \div 2 \in Nat /\ 3 * (ScanPeriod \div 4) \in Nat
    /\ 0 < ScanPeriod \div 2
    /\ ScanPeriod \div 2 < 3 * (ScanPeriod \div 4)
    /\ 3 * (ScanPeriod \div 4) < ScanPeriod
BY PeriodAssumption

\* The schedule asks for another voltage only at a pass that scans.
LEMMA ScheduleMoves ==
    ASSUME i \in 0..(ScanPeriod - 1), i' = (i + 1) % ScanPeriod
    PROVE  doPhaseScans' \/ Scheduled' = Scheduled
<1> DEFINE b == ScanPeriod \div 2
           c == 3 * (ScanPeriod \div 4)
<1>1. b \in Nat /\ c \in Nat /\ 0 < b /\ b < c /\ c < ScanPeriod /\ ScanPeriod \in Nat
  BY Passes, PeriodAssumption
<1>2. CASE i + 1 = ScanPeriod
  <2>1. i' = 0  BY <1>1, <1>2
  <2> QED  BY <2>1 DEF doPhaseScans, doPhaseScans_A
<1>3. CASE i + 1 < ScanPeriod
  <2>1. i' = i + 1  BY <1>1, <1>3
  <2>2. CASE i' = b \/ i' = c
    BY <2>2 DEF doPhaseScans, doPhaseScans_B, doPhaseScans_C
  <2>3. CASE i' # b /\ i' # c
    <3>1. (i' < b <=> i < b) /\ (i' >= c <=> i >= c)  BY <1>1, <2>1, <2>3
    <3>2. Scheduled' = CASE i' < b -> "1.20" [] i' >= c -> "1.08" [] OTHER -> "1.32"
      BY DEF Scheduled
    <3>3. Scheduled = CASE i < b -> "1.20" [] i >= c -> "1.08" [] OTHER -> "1.32"
      BY DEF Scheduled
    <3> HIDE DEF b, c
    <3>4. i \in Int /\ i' \in Int /\ b \in Int /\ c \in Int  BY <1>1, <2>1
    <3>5. ~(i < b /\ i >= c) /\ ~(i' < b /\ i' >= c)  BY <1>1, <3>4
    <3> QED  BY <3>1, <3>2, <3>3, <3>5
  <2> QED  BY <2>2, <2>3
<1> QED  BY <1>1, <1>2, <1>3

\* What a scan sets is what the schedule asks for.
LEMMA TargetScheduled == doPhaseScans => Target = Scheduled
<1> SUFFICES ASSUME doPhaseScans  PROVE Target = Scheduled  OBVIOUS
<1> USE Passes DEF Target, Scheduled
<1>1. CASE doPhaseScans_A  BY <1>1 DEF doPhaseScans_A
<1>2. CASE doPhaseScans_B  BY <1>2 DEF doPhaseScans_A, doPhaseScans_B
<1>3. CASE doPhaseScans_C  BY <1>3 DEF doPhaseScans_A, doPhaseScans_B, doPhaseScans_C
<1> QED  BY <1>1, <1>2, <1>3 DEF doPhaseScans

\* The pass and its schedule, voltage and scan.
schedule == << i, voltage, missed >>

LEMMA SamePass ==
    ASSUME UNCHANGED i
    PROVE  (doPhaseScans' <=> doPhaseScans) /\ Scheduled' = Scheduled
BY DEF doPhaseScans, doPhaseScans_A, doPhaseScans_B, doPhaseScans_C, Scheduled

LEMMA VoltageStep == TypeOK /\ VoltageInv /\ [Next]_vars => VoltageInv'
<1> SUFFICES ASSUME TypeOK, VoltageInv, [Next]_vars  PROVE VoltageInv'  OBVIOUS
<1> USE DEF VoltageInv, Unscanned, Comparing, Over, Ended, GoTo
<1>1. ASSUME Begin \/ (\E errors \in {"none", "some", "many"} : GetCounters(errors)) \/ Save
             \/ Resume \/ Count \/ (\E error \in BOOLEAN : CompareRegisters(error))
             \/ StopToCapture \/ Reconfigure \/ StopToScan
      PROVE  VoltageInv'
  <2>1. UNCHANGED schedule
    BY <1>1 DEF Begin, GetCounters, Save, Resume, Count, CompareRegisters, StopToCapture,
                Reconfigure, StopToScan, schedule, chip, scan
  <2>2. at \in Unscanned /\ (at' \in Unscanned
                             \/ at' = IF doPhaseScans THEN "voltage" ELSE "resets")
    BY <1>1 DEF Begin, GetCounters, Save, Resume, Count, CompareRegisters, StopToCapture,
                Reconfigure, StopToScan
  <2> QED  BY <2>1, <2>2, SamePass DEF schedule
<1>2. ASSUME NEW v \in Voltage, SetVoltage(v)  PROVE VoltageInv'
  <2>1. /\ at = "voltage" /\ at' = "sweep" /\ i' = i /\ voltage' = v
        /\ missed' = (v # Target)
    BY <1>2 DEF SetVoltage
  <2>2. missed' \/ voltage' = Scheduled'  BY <2>1, SamePass, TargetScheduled
  <2> QED  BY <2>1, <2>2
<1>3. ASSUME (\E good \in SUBSET CapSel : \E c, last \in good : Sweep(good, c, last))
             \/ Select \/ SetPhase \/ AlignInput \/ AlignOutput \/ CompareAgain \/ SoftReset
             \/ StartLadder \/ NoReset \/ Configure \/ Start \/ NextStep
             \/ (\E badData \in BOOLEAN : EndLadder(badData)) \/ Restart
      PROVE  VoltageInv'
  <2>1. UNCHANGED schedule
    BY <1>3 DEF Sweep, Select, SetPhase, AlignInput, AlignOutput, CompareAgain, SoftReset,
                StartLadder, Reset, NoReset, Configure, Start, NextStep, EndLadder, Restart,
                configureASIC, schedule, chip, scan
  <2>2. at \notin Unscanned \cup Over \cup {"voltage"} /\ at' # "voltage"
    BY <1>3 DEF Sweep, Select, SetPhase, AlignInput, AlignOutput, CompareAgain, SoftReset,
                StartLadder, Reset, NoReset, Configure, Start, NextStep, EndLadder, Restart
  <2> QED  BY <2>1, <2>2, SamePass DEF schedule
<1>4. ASSUME NextPass  PROVE VoltageInv'
  <2>1. at = "sleep" /\ at' = "begin" /\ i' = (i + 1) % ScanPeriod /\ UNCHANGED << voltage, missed >>
    BY <1>4 DEF NextPass, chip, scan
  <2>2. i \in 0..(ScanPeriod - 1)  BY DEF TypeOK
  <2> QED  BY <2>1, <2>2, ScheduleMoves
<1>5. ASSUME Interrupt \/ Except \/ (\E errors \in BOOLEAN : Stop(errors))  PROVE VoltageInv'
  BY <1>5 DEF Interrupt, Except, Stop
<1>6. CASE UNCHANGED vars
  <2>1. UNCHANGED << at, schedule >>  BY <1>6 DEF vars, schedule, chip, scan
  <2> QED  BY <2>1, SamePass DEF schedule
<1> QED  BY <1>1, <1>2, <1>3, <1>4, <1>5, <1>6 DEF Next, Pass

-----------------------------------------------------------------------------
(***************************************************************************)
(* The theorems                                                            *)
(***************************************************************************)

Inv == TypeOK /\ DaqInv /\ TuneInv /\ LadderInv /\ CountInv /\ VoltageInv

LEMMA InvInit == Init => Inv
<1> SUFFICES ASSUME Init  PROVE Inv  OBVIOUS
<1>1. DaqInv /\ TuneInv
  BY DEF Init, DaqInv, Running, Halted, TuneInv, Tuned, Chosen, Scanning, Over, Ended
<1>2. LadderInv  BY DEF Init, LadderInv, Comparing
<1>3. CountInv  BY DEF Init, CountInv, Fresh, Comparing, Over, Ended
<1>4. VoltageInv
  BY DEF Init, VoltageInv, Unscanned, doPhaseScans, doPhaseScans_A
<1> QED  BY <1>1, <1>2, <1>3, <1>4, TypeInit DEF Inv

LEMMA Invariance == Spec => []Inv
<1>1. Inv /\ [Next]_vars => Inv'
  BY TypeStep, DaqStep, TuneStep, LadderStep, CountInvStep, VoltageStep DEF Inv
<1> QED  BY InvInit, <1>1, PTL DEF Spec

\* The types of the loop: no reset of a level that configureASIC does not know.
THEOREM TypeCorrect == Spec => []TypeOK
<1>1. Inv => TypeOK  BY DEF Inv
<1> QED  BY Invariance, <1>1, PTL

\* Whatever way leads to start_daq, and however hard the last reset, errors are
\* counted only with the CapSelect of the last scan in the chip, and with phases
\* and alignments of its voltage.
THEOREM AlwaysTuned == Spec => []CountsTuned
<1>1. Inv => CountsTuned  BY DEF Inv, TuneInv, Tuned, Chosen, CountsTuned
<1> QED  BY Invariance, <1>1, PTL

\* The stream compare runs at the end of every pass and is off while the chip is
\* scanned, captured or reset.
THEOREM AlwaysRunning == Spec => []RunsBetweenPasses
<1>1. Inv => RunsBetweenPasses  BY DEF Inv, DaqInv, Running, Halted, RunsBetweenPasses
<1> QED  BY Invariance, <1>1, PTL

\* At most one ladder fails between two scans.
THEOREM OneLadder == Spec => []OneFailedLadder
<1>1. Inv => OneFailedLadder  BY DEF Inv, LadderInv, OneFailedLadder
<1> QED  BY Invariance, <1>1, PTL

\* A ladder starts after three bad passes in a row, and at the latest after four.
THEOREM TimelyLadder == Spec => []LadderIsTimely
<1>1. Inv => LadderIsTimely  BY DEF Inv, TypeOK, LadderInv, CountInv, LadderIsTimely
<1> QED  BY Invariance, <1>1, PTL

\* The voltage is the scheduled one, or SetVoltage has given up.
THEOREM ScheduledVoltage == Spec => []VoltageOnSchedule
<1>1. Inv => VoltageOnSchedule
  BY DEF Inv, VoltageInv, Unscanned, Comparing, Over, Ended, Scheduled, VoltageOnSchedule
<1> QED  BY Invariance, <1>1, PTL

=============================================================================
