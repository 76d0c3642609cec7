------------------------ MODULE EconInterface_proofs ------------------------
(***************************************************************************)
(* Proofs about EconInterface for every register map, every set of         *)
(* configurations and every recursion limit.                               *)
(*                                                                         *)
(* TypeOK is not inductive: the merge of a configuration into what was     *)
(* read is a register value only if every register it merges into was      *)
(* read.  ReadComplete says that; the rest of IInv relates chip, start,    *)
(* got and writeCache in each phase.                                       *)
(***************************************************************************)
EXTENDS EconInterface, TLAPS, FiniteSetTheorems

\* The registers whose value the running command needs before it goes on.
Wanted == IF cmd = "initialize" THEN Register
          ELSE IF cmd = "configure" THEN ToRead(cfg)
          ELSE IF cmd = "compare" THEN Addresses(writeCache)
          ELSE {}

Writes == cmd \in {"initialize", "configure"}
Busy   == phase \in {"read", "write", "answer"}

ReadComplete ==
    /\ phase = "read" => \A r \in Wanted \ todo : got[r] # Absent
    /\ phase \in {"write", "answer"} => \A r \in Wanted : got[r] # Absent

PhaseShape ==
    /\ phase = "write" => Writes
    /\ phase = "answer" => todo = {}
    /\ phase = "dead" => writeCache = Nothing
    /\ cmd = "initialize" => cfg = NoConfig

WhatWasRead ==
    Busy /\ ~disturbed => \A r \in Register : got[r] \in {Absent, None, start[r]}

UntouchedWhileReading ==
    (phase = "read" \/ (phase = "answer" /\ ~Writes)) /\ ~disturbed => chip = start

Converted ==
    (phase = "write" \/ (phase = "answer" /\ Writes)) =>
        writeCache = pairs_from_cfg(cfg, got)

WrittenSoFar ==
    (phase = "write" \/ (phase = "answer" /\ Writes)) =>
        /\ todo \subseteq Addresses(writeCache)
        /\ ~disturbed => \A r \in Register :
             /\ writeCache[r] = Absent => chip[r] = start[r]
             /\ r \in Addresses(writeCache) \ todo => chip[r] = writeCache[r]

SameReset == Busy /\ Writes => stale = disturbed

IInv ==
    /\ TypeOK
    /\ ReadComplete
    /\ PhaseShape
    /\ WhatWasRead
    /\ UntouchedWhileReading
    /\ Converted
    /\ WrittenSoFar
    /\ SameReset
    /\ CacheCoherent

-----------------------------------------------------------------------------
LEMMA ModuloRange ==
    ASSUME NEW v \in Nat, NEW m \in Nat \ {0}
    PROVE  v % m \in Nat /\ v % m < m
  OBVIOUS

\* Merging parameters into a previous register value gives a register value.
LEMMA RegValType ==
    ASSUME NEW r \in Register, NEW params \in [Param -> Nat \cup {Absent}],
           NEW prev \in Word
    PROVE  regVal_from_paramValues(r, params, prev) \in Word
<1> DEFINE w == regVal_from_paramValues(r, params, prev)
<1>1. \A p \in Param : w[p] \in Nat /\ w[p] < Modulus[p]
  <2> SUFFICES ASSUME NEW p \in Param
               PROVE  w[p] \in Nat /\ w[p] < Modulus[p]
    OBVIOUS
  <2>1. p \in Field /\ prev[p] \in Nat /\ prev[p] < Modulus[p] /\ Modulus[p] \in Nat \ {0}
    BY FieldAssumption DEF Word, Field
  <2>2. CASE p \notin ParamsOf[r]
    BY <2>1, <2>2 DEF regVal_from_paramValues
  <2>3. CASE p \in ParamsOf[r] /\ params[p] = Absent
    BY <2>1, <2>3 DEF regVal_from_paramValues
  <2>4. CASE p \in ParamsOf[r] /\ params[p] # Absent
    <3>1. params[p] \in Nat
      BY <2>4
    <3>2. w[p] = params[p] % Modulus[p]
      BY <2>1, <2>4 DEF regVal_from_paramValues
    <3> QED BY <3>1, <3>2, <2>1, ModuloRange
  <2> QED BY <2>2, <2>3, <2>4
<1>2. w[Rest] = 0
  BY FieldAssumption DEF regVal_from_paramValues, Field
<1>3. w \in [Field -> Nat]
  BY <1>1, <1>2 DEF regVal_from_paramValues, Field
<1> QED BY <1>1, <1>3 DEF Word

\* A conversion whose merges all have a previous value, or None, to go by
\* yields register values, or Absent.
LEMMA PairsType ==
    ASSUME NEW c \in Config,
           NEW prev \in [Register -> Word \cup {Absent, None}],
           \A r \in ByParams(c) : prev[r] # Absent
    PROVE  pairs_from_cfg(c, prev) \in [Register -> Word \cup {Absent}]
<1> SUFFICES ASSUME NEW r \in Register
             PROVE  pairs_from_cfg(c, prev)[r] \in Word \cup {Absent}
  BY DEF pairs_from_cfg
<1>1. CASE IsDefault(c)
  BY <1>1, MapAssumption DEF pairs_from_cfg
<1>2. CASE ~IsDefault(c) /\ r \in ByValue(c)
  BY <1>2 DEF pairs_from_cfg, Config, ByValue
<1>3. CASE ~IsDefault(c) /\ r \in ByParams(c) /\ prev[r] # None
  <2>1. r \notin ByValue(c) /\ prev[r] \in Word /\ c.par[r] \in [Param -> Nat \cup {Absent}]
    BY <1>3 DEF ByParams, Config
  <2>2. pairs_from_cfg(c, prev)[r] = regVal_from_paramValues(r, c.par[r], prev[r])
    BY <1>3, <2>1 DEF pairs_from_cfg
  <2> QED BY <2>1, <2>2, RegValType
<1>4. CASE ~IsDefault(c) /\ r \notin ByValue(c) /\ ~(r \in ByParams(c) /\ prev[r] # None)
  BY <1>4 DEF pairs_from_cfg
<1> QED BY <1>1, <1>2, <1>3, <1>4

LEMMA NothingType ==
    /\ Nothing \in [Register -> Word \cup {Absent}]
    /\ Nothing \in [Register -> Word \cup {Absent, None}]
    /\ 0 \in 0..RecursionLimit
  BY LimitAssumption DEF Nothing

LEMMA NoConfigType == NoConfig \in Config /\ IsDefault(NoConfig)
  BY DEF NoConfig, Config, IsDefault, ByValue, ByParams

LEMMA ToReadType ==
    ASSUME NEW c \in Config
    PROVE  ToRead(c) \subseteq Register /\ ByParams(c) \subseteq ToRead(c) \cup ByValue(c)
  BY DEF ToRead, ByValue, ByParams, IsDefault

-----------------------------------------------------------------------------
(***************************************************************************)
(* Every action keeps IInv                                                 *)
(***************************************************************************)
LEMMA InitIInv == Init => IInv
<1> SUFFICES ASSUME Init PROVE IInv
  OBVIOUS
<1>1. TypeOK
  BY NothingType, NoConfigType, MapAssumption DEF Init, TypeOK, Phase, Cmd
<1>2. ReadComplete /\ PhaseShape /\ WhatWasRead /\ UntouchedWhileReading
  BY DEF Init, ReadComplete, PhaseShape, WhatWasRead, UntouchedWhileReading, Busy, Writes
<1>3. Converted /\ WrittenSoFar /\ SameReset /\ CacheCoherent
  BY DEF Init, Converted, WrittenSoFar, SameReset, CacheCoherent, Busy, Writes,
         Nothing, Addresses
<1> QED BY <1>1, <1>2, <1>3 DEF IInv

\* A command starts by reading: nothing is read yet and the chip is as it was.
LEMMA BeginIInv ==
    ASSUME IInv,
           NEW c \in Config, NEW command \in Cmd, NEW addrs \in SUBSET Register,
           Begin(c, command, addrs),
           command = "initialize" => c = NoConfig /\ addrs = Register,
           command = "configure" => addrs = ToRead(c),
           command = "compare" => addrs = Addresses(writeCache),
           \/ command \in {"initialize", "configure"} /\ stale' = FALSE
              /\ writeCache' \in {writeCache, Nothing}
           \/ command \in {"compare", "read"} /\ UNCHANGED << writeCache, stale >>
    PROVE  IInv'
<1> USE DEF Begin
<1>1. TypeOK'
  BY NothingType DEF IInv, TypeOK, Phase
<1>2. ReadComplete' /\ PhaseShape'
  BY DEF ReadComplete, PhaseShape, Wanted, Addresses
<1>3. WhatWasRead' /\ UntouchedWhileReading'
  BY DEF WhatWasRead, UntouchedWhileReading, Nothing
<1>4. Converted' /\ WrittenSoFar'
  BY DEF Converted, WrittenSoFar
<1>5. SameReset'
  BY DEF SameReset, Writes
<1>6. CacheCoherent'
  BY DEF IInv, CacheCoherent, Addresses
<1> QED BY <1>1, <1>2, <1>3, <1>4, <1>5, <1>6 DEF IInv

LEMMA CommandIInv == IInv /\ Command => IInv'
<1> SUFFICES ASSUME IInv, Command PROVE IInv'
  OBVIOUS
<1>1. CASE Initialize
  BY <1>1, BeginIInv, NoConfigType DEF Initialize, Cmd
<1>2. ASSUME NEW c \in Configs, Configure(c) PROVE IInv'
  <2>1. c \in Config /\ ToRead(c) \in SUBSET Register
    BY MapAssumption, ToReadType
  <2> QED BY <2>1, <1>2, BeginIInv DEF Configure, Cmd
<1>3. CASE Compare
  <2>1. Addresses(writeCache) \in SUBSET Register
    BY DEF Addresses
  <2> QED BY <2>1, <1>3, BeginIInv, NoConfigType DEF Compare, Cmd
<1>4. ASSUME NEW c \in Configs, Read(c) PROVE IInv'
  <2>1. c \in Config
    BY MapAssumption
  <2>2. Addresses(writeCache) \in SUBSET Register /\ ToRead(c) \in SUBSET Register
    BY <2>1, ToReadType DEF Addresses
  <2> QED BY <2>1, <2>2, <1>4, BeginIInv DEF Read, Cmd
<1> QED BY <1>1, <1>2, <1>3, <1>4 DEF Command

LEMMA ReadRegIInv ==
    ASSUME IInv, NEW r \in Register, ReadReg(r) PROVE IInv'
<1> USE DEF ReadReg, history
<1>1. TypeOK'
  BY LimitAssumption DEF IInv, TypeOK
<1>2. got'[r] # Absent /\ \A s \in Register \ {r} : got'[s] = got[s]
  BY SentinelAssumption DEF IInv, TypeOK
<1>3. ReadComplete' /\ PhaseShape'
  BY <1>2 DEF IInv, TypeOK, ReadComplete, PhaseShape, Wanted, Addresses, ToRead,
              IsDefault, ByValue, ByParams
<1>4. UntouchedWhileReading' /\ SameReset' /\ CacheCoherent'
  BY DEF IInv, UntouchedWhileReading, SameReset, CacheCoherent, Busy, Writes, Addresses
<1>5. WhatWasRead'
  BY DEF IInv, TypeOK, WhatWasRead, UntouchedWhileReading, Busy
<1>6. Converted' /\ WrittenSoFar'
  BY DEF Converted, WrittenSoFar
<1> QED BY <1>1, <1>3, <1>4, <1>5, <1>6 DEF IInv

\* The conversion: every register it merges into was read, so the new cache
\* holds register values, and nothing of it is written yet.
LEMMA StartWriteIInv ==
    ASSUME IInv, StartWrite PROVE IInv'
<1> USE DEF StartWrite, history
<1>1. \A r \in ByParams(cfg) : got[r] # Absent
  <2>1. CASE cmd = "initialize"
    BY <2>1, NoConfigType DEF IInv, PhaseShape, IsDefault
  <2>2. CASE cmd = "configure"
    <3>1. \A r \in ByParams(cfg) : r \in ToRead(cfg)
      BY DEF ToRead, IsDefault
    <3> QED BY <2>2, <3>1 DEF IInv, ReadComplete, Wanted
  <2> QED BY <2>1, <2>2
<1>2. writeCache' \in [Register -> Word \cup {Absent}]
  BY <1>1, PairsType DEF IInv, TypeOK
<1>3. TypeOK'
  BY <1>2 DEF IInv, TypeOK, Phase, Addresses
<1>4. ReadComplete' /\ PhaseShape'
  BY DEF IInv, ReadComplete, PhaseShape, Wanted, Writes
<1>5. WhatWasRead' /\ SameReset' /\ UntouchedWhileReading' /\ CacheCoherent'
  BY DEF IInv, WhatWasRead, SameReset, UntouchedWhileReading, CacheCoherent, Busy, Writes
<1>6. Converted'
  BY DEF Converted, pairs_from_cfg, IsDefault, ByValue, ByParams, regVal_from_paramValues
<1>7. WrittenSoFar'
  BY DEF IInv, WrittenSoFar, UntouchedWhileReading, Writes
<1> QED BY <1>3, <1>4, <1>5, <1>6, <1>7 DEF IInv

\* A write sets one register to its new value; a failed one sets it or not,
\* and leaves it on the list.
LEMMA WriteIInv ==
    ASSUME IInv, NEW r \in Register, WriteReg(r) \/ RetryWrite(r) PROVE IInv'
<1> USE DEF WriteReg, RetryWrite, history
<1>1. phase = "write" /\ Writes /\ writeCache[r] \in Word
  BY DEF IInv, TypeOK, PhaseShape, WrittenSoFar, Addresses
<1>2. TypeOK'
  BY <1>1, LimitAssumption DEF IInv, TypeOK
<1>3. ReadComplete' /\ PhaseShape'
  BY <1>1 DEF IInv, ReadComplete, PhaseShape, Wanted, Writes, ToRead, IsDefault,
              ByValue, ByParams
<1>4. WhatWasRead' /\ SameReset' /\ UntouchedWhileReading' /\ CacheCoherent'
  BY <1>1 DEF IInv, WhatWasRead, SameReset, UntouchedWhileReading, CacheCoherent,
              Busy, Writes
<1>5. Converted'
  BY <1>1 DEF IInv, Converted, Writes, pairs_from_cfg, IsDefault, ByValue, ByParams,
              regVal_from_paramValues
<1>6. WrittenSoFar'
  BY <1>1, SentinelAssumption DEF IInv, TypeOK, WrittenSoFar, Writes, Addresses
<1> QED BY <1>2, <1>3, <1>4, <1>5, <1>6 DEF IInv

\* Actions that move no register value and leave the lists alone.
LEMMA BookkeepingIInv ==
    ASSUME IInv, RetryRead \/ Finish \/ Reply \/ ReleaseReset PROVE IInv'
<1>1. /\ UNCHANGED << chip, writeCache, cmd, cfg, todo, got, start, disturbed, stale >>
      /\ \/ UNCHANGED phase
         \/ phase' = "answer" /\ todo = {} /\ \/ phase = "write"
                                              \/ phase = "read" /\ ~Writes
         \/ phase = "answer" /\ phase' = "idle"
  BY DEF RetryRead, Finish, Reply, ReleaseReset, history, board, Writes
<1>2. held' \in BOOLEAN /\ depth' \in 0..RecursionLimit
  <2>1. held' \in {held, FALSE}
    BY DEF RetryRead, Finish, Reply, ReleaseReset
  <2>2. held' \in BOOLEAN
    BY <2>1, Zenon DEF IInv, TypeOK
  <2>3. depth' = depth \/ (depth' = depth + 1 /\ depth < RecursionLimit)
    BY DEF RetryRead, Finish, Reply, ReleaseReset, board
  <2>4. depth' \in 0..RecursionLimit
    BY <2>3, LimitAssumption DEF IInv, TypeOK
  <2> QED BY <2>2, <2>4
<1>3. TypeOK'
  BY <1>1, <1>2 DEF IInv, TypeOK, Phase
<1>4. Writes' = Writes /\ Wanted' = Wanted /\ Addresses(writeCache)' = Addresses(writeCache)
  BY <1>1 DEF Writes, Wanted, Addresses, ToRead, IsDefault, ByValue, ByParams
<1>5. ReadComplete'
  BY <1>1, <1>4 DEF IInv, ReadComplete, PhaseShape
<1>6. PhaseShape' /\ SameReset'
  BY <1>1, <1>4 DEF IInv, PhaseShape, SameReset, Busy, Nothing, NoConfig
<1>7. WhatWasRead'
  BY <1>1 DEF IInv, WhatWasRead, Busy
<1>8. UntouchedWhileReading'
  BY <1>1, <1>4 DEF IInv, UntouchedWhileReading, PhaseShape
<1>9. Converted' /\ WrittenSoFar'
  <2>1. (pairs_from_cfg(cfg, got))' = pairs_from_cfg(cfg, got)
    BY <1>1 DEF pairs_from_cfg, IsDefault, ByValue, ByParams, regVal_from_paramValues
  <2> QED BY <1>1, <1>4, <2>1 DEF IInv, Converted, WrittenSoFar
<1>10. CacheCoherent'
  <2>1. CASE phase = "write" /\ phase' = "answer" /\ todo = {} /\ ~stale
    \* after the last write of a configure the whole cache is in the chip
    <3>1. ~disturbed
      BY <2>1 DEF IInv, PhaseShape, SameReset, Busy
    <3>2. \A r \in Addresses(writeCache) : chip[r] = writeCache[r]
      BY <2>1, <3>1 DEF IInv, WrittenSoFar, Addresses
    <3> QED BY <1>1, <1>4, <3>2 DEF CacheCoherent
  <2>2. CASE ~(phase = "write" /\ phase' = "answer" /\ todo = {} /\ ~stale)
    <3>1. ~Writes => cmd \in {"compare", "read"}
      BY DEF IInv, TypeOK, Cmd, Writes
    <3> QED BY <1>1, <1>4, <2>2, <3>1 DEF IInv, CacheCoherent
  <2> QED BY <2>1, <2>2
<1> QED BY <1>3, <1>5, <1>6, <1>7, <1>8, <1>9, <1>10 DEF IInv

\* The end of the process takes the cache with it.
LEMMA ProcessIInv ==
    ASSUME IInv, Die \/ Restart PROVE IInv'
<1> USE DEF Die, Restart, history
<1>1. TypeOK'
  BY NothingType DEF IInv, TypeOK, Phase
<1>2. ReadComplete' /\ PhaseShape' /\ WhatWasRead' /\ UntouchedWhileReading'
  BY DEF IInv, ReadComplete, PhaseShape, WhatWasRead, UntouchedWhileReading, Busy, Nothing
<1>3. Converted' /\ WrittenSoFar' /\ SameReset'
  BY DEF Converted, WrittenSoFar, SameReset, Busy
<1>4. CacheCoherent'
  BY DEF IInv, PhaseShape, CacheCoherent, Nothing, Addresses
<1> QED BY <1>1, <1>2, <1>3, <1>4 DEF IInv

\* A reset only weakens what the invariant claims of the chip.
LEMMA HoldResetIInv ==
    ASSUME IInv, HoldReset PROVE IInv'
<1> USE DEF HoldReset, board
<1>1. TypeOK'
  BY MapAssumption DEF IInv, TypeOK
<1>2. ReadComplete' /\ PhaseShape'
  BY DEF IInv, ReadComplete, PhaseShape, Wanted, Addresses, ToRead, IsDefault, ByValue,
         ByParams, Writes, Nothing
<1>3. WhatWasRead' /\ UntouchedWhileReading' /\ SameReset' /\ CacheCoherent'
  BY DEF WhatWasRead, UntouchedWhileReading, SameReset, CacheCoherent
<1>4. Converted' /\ WrittenSoFar'
  BY DEF IInv, Converted, WrittenSoFar, Writes, Addresses, pairs_from_cfg, IsDefault,
         ByValue, ByParams, regVal_from_paramValues
<1> QED BY <1>1, <1>2, <1>3, <1>4 DEF IInv

LEMMA StutterIInv ==
    ASSUME IInv, UNCHANGED vars PROVE IInv'
  BY DEF vars, board, history, IInv, TypeOK, ReadComplete, PhaseShape, WhatWasRead,
         UntouchedWhileReading, Converted, WrittenSoFar, SameReset, CacheCoherent,
         Wanted, Addresses, ToRead, IsDefault, ByValue, ByParams, Writes, Busy, Nothing,
         pairs_from_cfg, regVal_from_paramValues

LEMMA NextIInv == IInv /\ [Next]_vars => IInv'
<1> SUFFICES ASSUME IInv, [Next]_vars PROVE IInv'
  OBVIOUS
<1>1. CASE Command
  BY <1>1, CommandIInv
<1>2. CASE Server
  <2>1. CASE Transfer
    BY <2>1, ReadRegIInv, WriteIInv, BookkeepingIInv, ProcessIInv DEF Transfer
  <2> QED BY <1>2, <2>1, StartWriteIInv, BookkeepingIInv DEF Server
<1>3. CASE Restart
  BY <1>3, ProcessIInv
<1>4. CASE HoldReset
  BY <1>4, HoldResetIInv
<1>5. CASE ReleaseReset
  BY <1>5, BookkeepingIInv
<1>6. CASE UNCHANGED vars
  BY <1>6, StutterIInv
<1> QED BY <1>1, <1>2, <1>3, <1>4, <1>5, <1>6 DEF Next

LEMMA Inductive == Spec => []IInv
<1> QED BY InitIInv, NextIInv, PTL DEF Spec

-----------------------------------------------------------------------------
(***************************************************************************)
(* Theorems                                                                *)
(***************************************************************************)

\* Every variable keeps its type; in particular the conversion never merges
\* into a register that was not read.
THEOREM TypeCorrect == Spec => []TypeOK
<1>1. IInv => TypeOK
  BY DEF IInv
<1> QED BY <1>1, Inductive, PTL

\* Between commands the cache agrees with the chip unless a hard reset
\* intervened, for any map, any configurations and any bus faults.
THEOREM CacheIsCoherent == Spec => []CacheCoherent
<1>1. IInv => CacheCoherent
  BY DEF IInv
<1> QED BY <1>1, Inductive, PTL

\* A configure with no reset in its middle changes exactly what it converted
\* and nothing else of the chip.
THEOREM ConfigureExactness == Spec => []ConfigureIsExact
<1>1. IInv => ConfigureIsExact
  <2> SUFFICES ASSUME IInv, Answered("configure"), ~IsDefault(cfg), ~disturbed,
                      NEW r \in Register
               PROVE  IF writeCache[r] = Absent THEN chip[r] = start[r]
                      ELSE \/ r \in ByValue(cfg) /\ chip[r] = cfg.val[r]
                           \/ /\ r \in ByParams(cfg)
                              /\ chip[r][Rest] = 0
                              /\ \A p \in ParamsOf[r] :
                                  chip[r][p] = IF cfg.par[r][p] = Absent
                                               THEN start[r][p]
                                               ELSE cfg.par[r][p] % Modulus[p]
    BY DEF ConfigureIsExact
  <2>1. /\ writeCache = pairs_from_cfg(cfg, got)
        /\ writeCache[r] = Absent => chip[r] = start[r]
        /\ writeCache[r] # Absent => chip[r] = writeCache[r]
    BY DEF IInv, Converted, WrittenSoFar, PhaseShape, Answered, Writes, Addresses
  <2>2. CASE writeCache[r] = Absent
    BY <2>1, <2>2
  <2>3. CASE writeCache[r] # Absent /\ r \in ByValue(cfg)
    BY <2>1, <2>3 DEF pairs_from_cfg
  <2>4. CASE writeCache[r] # Absent /\ r \notin ByValue(cfg)
    <3>1. r \in ByParams(cfg) /\ got[r] # None
      BY <2>1, <2>4 DEF pairs_from_cfg
    <3>2. got[r] = start[r]
      <4>1. r \in ToRead(cfg)
        BY <3>1 DEF ToRead
      <4>2. got[r] # Absent
        BY <4>1 DEF IInv, ReadComplete, Wanted, Answered
      <4> QED BY <3>1, <4>2 DEF IInv, WhatWasRead, Busy, Answered
    <3>3. chip[r] = regVal_from_paramValues(r, cfg.par[r], start[r])
      BY <2>1, <2>4, <3>1, <3>2 DEF pairs_from_cfg
    <3>4. Rest \in Field /\ Rest \notin ParamsOf[r] /\ ParamsOf[r] \subseteq Field
      BY FieldAssumption DEF Field
    <3> QED BY <2>4, <3>1, <3>3, <3>4 DEF regVal_from_paramValues
  <2> QED BY <2>2, <2>3, <2>4
<1> QED BY <1>1, Inductive, PTL

\* initialize leaves the defaults of the map in the chip and in the cache.
THEOREM DefaultsRestored == Spec => []InitializeRestoresDefaults
<1>1. IInv => InitializeRestoresDefaults
  <2> SUFFICES ASSUME IInv,
                      Answered("initialize") \/ (Answered("configure") /\ IsDefault(cfg))
               PROVE  writeCache = DefaultVal /\ (~disturbed => chip = DefaultVal)
    BY DEF InitializeRestoresDefaults
  <2>1. IsDefault(cfg) /\ Writes /\ phase = "answer"
    BY NoConfigType DEF IInv, PhaseShape, Answered, Writes
  <2>2. writeCache = [r \in Register |-> DefaultVal[r]]
    BY <2>1 DEF IInv, Converted, pairs_from_cfg
  <2>3. writeCache = DefaultVal
    BY <2>2, MapAssumption
  <2>4. ASSUME ~disturbed PROVE chip = DefaultVal
    <3>1. \A r \in Register : DefaultVal[r] # Absent
      BY MapAssumption, SentinelAssumption
    <3>2. \A r \in Register : chip[r] = DefaultVal[r]
      BY <2>1, <2>3, <2>4, <3>1 DEF IInv, WrittenSoFar, PhaseShape, Addresses
    <3> QED BY <3>2, MapAssumption DEF IInv, TypeOK
  <2> QED BY <2>3, <2>4
<1> QED BY <1>1, Inductive, PTL

\* A comparison that reports nothing vouches for every cached register, and
\* one that reports a register has a reason to.
THEOREM CompareSoundness == Spec => []CompareIsSound
<1>1. IInv => CompareIsSound
  <2> SUFFICES ASSUME IInv, Answered("compare"), ~disturbed,
                      NEW r \in Addresses(writeCache)
               PROVE  /\ r \notin Mismatches => chip[r] = writeCache[r]
                      /\ r \in Mismatches => chip[r] # writeCache[r] \/ got[r] = None
    BY DEF CompareIsSound
  <2>1. chip = start /\ r \in Register /\ writeCache[r] \in Word
    BY DEF IInv, TypeOK, UntouchedWhileReading, Answered, Writes, Addresses
  <2>2. got[r] \in {None, start[r]}
    BY <2>1 DEF IInv, ReadComplete, WhatWasRead, Wanted, Answered, Busy
  <2> QED BY <2>1, <2>2, SentinelAssumption DEF Mismatches
<1> QED BY <1>1, Inductive, PTL

\* A register of the configuration is left out of the write only if it is merged
\* into a value that could not be read at the first attempt.
THEOREM SkippedMerges == Spec => []OnlyMergesAreSkipped
<1>1. IInv => OnlyMergesAreSkipped
  <2> SUFFICES ASSUME IInv, Answered("configure"), ~IsDefault(cfg),
                      NEW r \in ToRead(cfg), writeCache[r] = Absent
               PROVE  r \in ByParams(cfg) /\ got[r] = None
    BY DEF OnlyMergesAreSkipped
  <2>1. writeCache = pairs_from_cfg(cfg, got) /\ r \in Register
    BY ToReadType DEF IInv, TypeOK, Converted, Answered, Writes
  <2>2. r \notin ByValue(cfg)
    BY <2>1 DEF pairs_from_cfg, ToRead, ByValue, ByParams
  <2>3. r \in ByParams(cfg)
    BY <2>2 DEF ToRead
  <2>4. got[r] \in Word \cup {None}
    BY <2>1 DEF IInv, TypeOK, ReadComplete, Wanted, Answered
  <2>5. ASSUME got[r] \in Word  PROVE FALSE
    <3>1. cfg.par[r] \in [Param -> Nat \cup {Absent}]
      BY <2>1 DEF IInv, TypeOK, Config
    <3>2. got[r] # None
      BY <2>5, SentinelAssumption
    <3>3. writeCache[r] = regVal_from_paramValues(r, cfg.par[r], got[r])
      BY <2>1, <2>2, <2>3, <3>2 DEF pairs_from_cfg
    <3>4. writeCache[r] \in Word
      BY <2>1, <2>5, <3>1, <3>3, RegValType
    <3> QED BY <3>4, SentinelAssumption
  <2> QED BY <2>3, <2>4, <2>5
<1> QED BY <1>1, Inductive, PTL

-----------------------------------------------------------------------------
(***************************************************************************)
(* Where the values of the chip come from, across resets                   *)
(***************************************************************************)

Writing == phase = "write" \/ (phase = "answer" /\ Writes)

\* What was read is what the chip held when the command came or after a reset; a
\* register holds that or what the command writes.
Traced ==
    Busy => \A r \in Register :
        /\ got[r] \in {Absent, None, start[r], ResetVal[r]}
        /\ \/ chip[r] \in {start[r], ResetVal[r]}
           \/ Writing /\ writeCache[r] # Absent /\ chip[r] = writeCache[r]

LEMMA TracedStep == IInv /\ Traced /\ [Next]_vars => Traced'
<1> SUFFICES ASSUME IInv, Traced, [Next]_vars, Busy', NEW r \in Register
             PROVE  /\ got'[r] \in {Absent, None, start'[r], ResetVal[r]}
                    /\ \/ chip'[r] \in {start'[r], ResetVal[r]}
                       \/ Writing' /\ writeCache'[r] # Absent /\ chip'[r] = writeCache'[r]
  BY DEF Traced
<1>t. TypeOK  BY DEF IInv
<1>1. ASSUME NEW c, NEW command, NEW addrs, Begin(c, command, addrs)
      PROVE  got'[r] = Absent /\ chip'[r] = start'[r]
  BY <1>1 DEF Begin, Nothing
<1>2. CASE Command
  BY <1>1, <1>2 DEF Command, Initialize, Configure, Compare, Read
<1>3. ASSUME NEW s \in Register, ReadReg(s)  PROVE
         /\ got'[r] \in {Absent, None, start'[r], ResetVal[r]}
         /\ chip'[r] \in {start'[r], ResetVal[r]}
  <2>1. phase = "read" /\ Busy /\ ~Writing
    BY <1>3 DEF ReadReg, Busy, Writing
  <2>2. UNCHANGED << chip, start >>
    BY <1>3 DEF ReadReg, history
  <2>3. chip[r] \in {start[r], ResetVal[r]}
    BY <2>1 DEF Traced
  <2>4. got'[r] \in {got[r], None, chip[r]}
    BY <1>3, <1>t DEF ReadReg, TypeOK
  <2>5. got[r] \in {Absent, None, start[r], ResetVal[r]}
    BY <2>1 DEF Traced
  <2> QED BY <2>2, <2>3, <2>4, <2>5
<1>4. ASSUME NEW s \in Register, WriteReg(s) \/ RetryWrite(s)  PROVE
         /\ got'[r] \in {Absent, None, start'[r], ResetVal[r]}
         /\ \/ chip'[r] \in {start'[r], ResetVal[r]}
            \/ Writing' /\ writeCache'[r] # Absent /\ chip'[r] = writeCache'[r]
  <2>1. phase = "write" /\ phase' = "write" /\ Busy /\ Writing'
    BY <1>4 DEF WriteReg, RetryWrite, Busy, Writing
  <2>2. UNCHANGED << start, writeCache, got >> /\ s \in todo
    BY <1>4 DEF WriteReg, RetryWrite, history
  <2>3. writeCache[s] # Absent
    BY <2>1, <2>2 DEF IInv, WrittenSoFar, Addresses
  <2>4. chip'[r] = chip[r] \/ (r = s /\ chip'[r] = writeCache[r])
    BY <1>4, <1>t DEF WriteReg, RetryWrite, TypeOK
  <2> QED BY <2>1, <2>2, <2>3, <2>4 DEF Traced
<1>5. CASE StartWrite
  <2>1. phase = "read" /\ UNCHANGED << chip, start, got >>
    BY <1>5 DEF StartWrite, history
  <2>2. Busy /\ ~Writing
    BY <2>1 DEF Busy, Writing
  <2> QED BY <2>1, <2>2 DEF Traced
<1>6. CASE RetryRead \/ Finish \/ Reply \/ ReleaseReset \/ UNCHANGED vars
  <2>1. UNCHANGED << chip, start, got, writeCache, cmd >>
    BY <1>6 DEF RetryRead, Finish, Reply, ReleaseReset, vars, board, history
  <2>2. Busy /\ (Writing => Writing')
    BY <1>6 DEF RetryRead, Finish, Reply, ReleaseReset, vars, board, Busy, Writing, Writes,
                IInv, PhaseShape
  <2> QED BY <2>1, <2>2 DEF Traced
<1>7. CASE Die \/ Restart
  BY <1>7 DEF Die, Restart, Busy
<1>8. CASE HoldReset
  <2>1. chip' = ResetVal /\ UNCHANGED << start, got, phase >>
    BY <1>8 DEF HoldReset, board
  <2> QED BY <2>1 DEF Traced, Busy
<1> QED BY <1>2, <1>3, <1>4, <1>5, <1>6, <1>7, <1>8 DEF Next, Server, Transfer

\* A chip that is reset in the middle of a command still holds no value that was
\* neither in it, nor configured, nor a default.
THEOREM ValuesTraced == Spec => []NoInventedValue
<1>1. Init => Traced
  BY DEF Init, Traced, Busy
<1>2. IInv /\ Traced => NoInventedValue
  <2> SUFFICES ASSUME IInv, Traced, Busy, NEW r \in Register, NEW f \in Field
               PROVE
        \/ chip[r][f] \in {start[r][f], ResetVal[r][f], DefaultVal[r][f]}
        \/ r \in ByValue(cfg) /\ chip[r][f] = cfg.val[r][f]
        \/ r \in ByParams(cfg) /\ \/ f \notin ParamsOf[r] /\ chip[r][f] = 0
                                  \/ f \in ParamsOf[r] /\ cfg.par[r][f] # Absent
                                     /\ chip[r][f] = cfg.par[r][f] % Modulus[f]
    BY DEF NoInventedValue, Busy
  <2>1. CASE chip[r] \in {start[r], ResetVal[r]}
    BY <2>1
  <2>2. CASE Writing /\ writeCache[r] # Absent /\ chip[r] = writeCache[r]
    <3>1. writeCache = pairs_from_cfg(cfg, got)
      BY <2>2 DEF IInv, Converted, Writing
    <3>2. CASE IsDefault(cfg)
      BY <2>2, <3>1, <3>2 DEF pairs_from_cfg
    <3>3. CASE ~IsDefault(cfg) /\ r \in ByValue(cfg)
      BY <2>2, <3>1, <3>3 DEF pairs_from_cfg
    <3>4. CASE ~IsDefault(cfg) /\ r \notin ByValue(cfg)
      <4>1. r \in ByParams(cfg) /\ got[r] # None
        BY <2>2, <3>1, <3>4 DEF pairs_from_cfg
      <4>2. chip[r] = regVal_from_paramValues(r, cfg.par[r], got[r])
        BY <2>2, <3>1, <3>4, <4>1 DEF pairs_from_cfg
      <4>3. got[r] # Absent
        <5>1. r \in ToRead(cfg)
          BY <3>4, <4>1 DEF ToRead
        <5>2. Writes
          BY <2>2 DEF Writing, IInv, PhaseShape
        <5> QED BY <2>2, <5>1, <5>2 DEF IInv, ReadComplete, Wanted, Writes, Writing
      <4>4. got[r] \in {start[r], ResetVal[r]}
        BY <4>1, <4>3 DEF Traced
      <4> QED BY <4>1, <4>2, <4>4 DEF regVal_from_paramValues
    <3> QED BY <3>2, <3>3, <3>4
  <2> QED BY <2>1, <2>2 DEF Traced
<1> QED BY <1>1, <1>2, Inductive, TracedStep, PTL DEF Spec

-----------------------------------------------------------------------------
(***************************************************************************)
(* How long a command can take                                             *)
(***************************************************************************)

Serving == phase \in {"read", "write"}

\* The transfers and the steps between them that a command has still to do,
\* retries apart.
Ahead ==
    IF phase = "read" THEN Cardinality(Register) + 2 + Cardinality(todo)
    ELSE IF phase = "write" THEN 1 + Cardinality(todo)
    ELSE 0

Nearer == Ahead' < Ahead
Deeper == Ahead' = Ahead /\ depth' > depth

\* A step of the server brings the end of the command nearer or goes one retry
\* deeper; no other step puts the command back.
RunsDown ==
    Serving =>
        /\ Server => Nearer \/ Deeper
        /\ ~Server => Ahead' = Ahead /\ depth' = depth

\* Where RunsDown comes to an end.
Bounded ==
    /\ Ahead \in 0..(2 * Cardinality(Register) + 2)
    /\ Ahead = 0 <=> ~Serving
    /\ depth \in 0..RecursionLimit

LEMMA TodoCounts ==
    ASSUME IsFiniteSet(Register), NEW S \in SUBSET Register
    PROVE  /\ Cardinality(Register) \in Nat /\ Cardinality(S) \in Nat
           /\ Cardinality(S) <= Cardinality(Register)
           /\ \A r \in S : Cardinality(S \ {r}) = Cardinality(S) - 1
<1>1. IsFiniteSet(S) /\ Cardinality(S) <= Cardinality(Register)
  BY FS_Subset
<1>2. \A r \in S : Cardinality(S \ {r}) = Cardinality(S) - 1
  BY <1>1, FS_RemoveElement
<1> QED BY <1>1, <1>2, FS_CardinalityType

LEMMA RunsDownStep ==
    ASSUME IsFiniteSet(Register), TypeOK, TypeOK', [Next]_vars, Serving
    PROVE  /\ Server => Nearer \/ Deeper
           /\ ~Server => Ahead' = Ahead /\ depth' = depth
<1> DEFINE N == Cardinality(Register)  c == Cardinality(todo)
<1>t. todo \in SUBSET Register /\ todo' \in SUBSET Register /\ depth \in 0..RecursionLimit
  BY DEF TypeOK
<1>n. /\ N \in Nat /\ c \in Nat /\ c <= N /\ c' \in Nat /\ c' <= N
  BY <1>t, TodoCounts
<1>r. \A r \in todo : Cardinality(todo \ {r}) = c - 1
  BY <1>t, TodoCounts
<1>a. Ahead = IF phase = "read" THEN N + 2 + c ELSE IF phase = "write" THEN 1 + c ELSE 0
  BY DEF Ahead
<1>l. RecursionLimit \in Nat  BY LimitAssumption
<1>1. ASSUME NEW r \in Register, ReadReg(r) \/ WriteReg(r)  PROVE Nearer
  <2>1. phase' = phase /\ r \in todo /\ todo' = todo \ {r}
    BY <1>1 DEF ReadReg, WriteReg
  <2>2. c' = c - 1  BY <1>r, <2>1
  <2>3. phase \in {"read", "write"}  BY DEF Serving
  <2>4. Ahead' = IF phase = "read" THEN N + 2 + c' ELSE 1 + c'
    BY <2>1, <2>3 DEF Ahead
  <2> QED BY <1>n, <1>a, <2>2, <2>3, <2>4 DEF Nearer
<1>2. ASSUME RetryRead \/ \E r \in Register : RetryWrite(r)  PROVE Deeper
  <2>1. phase' = phase /\ todo' = todo /\ depth' = depth + 1
    BY <1>2 DEF RetryRead, RetryWrite
  <2>2. Ahead' = Ahead  BY <2>1 DEF Ahead
  <2> QED BY <1>t, <1>l, <2>1, <2>2 DEF Deeper
<1>3. ASSUME StartWrite  PROVE Nearer
  <2>1. phase = "read" /\ phase' = "write"  BY <1>3 DEF StartWrite
  <2>2. Ahead = N + 2 + c /\ Ahead' = 1 + c'  BY <2>1 DEF Ahead
  <2> QED BY <1>n, <2>2 DEF Nearer
<1>4. ASSUME Die \/ Finish  PROVE Nearer
  <2>1. phase' \in {"dead", "answer"}  BY <1>4 DEF Die, Finish
  <2>2. Ahead' = 0  BY <2>1 DEF Ahead
  <2>3. Ahead \in Nat /\ Ahead >= 1  BY <1>n, <1>a DEF Serving
  <2> QED BY <2>2, <2>3 DEF Nearer
<1>5. ~Reply  BY DEF Reply, Serving
<1>6. Server => Nearer \/ Deeper
  BY <1>1, <1>2, <1>3, <1>4, <1>5 DEF Server, Transfer
<1>7. ASSUME HoldReset \/ ReleaseReset \/ UNCHANGED vars
      PROVE  Ahead' = Ahead /\ depth' = depth
  <2>1. UNCHANGED << phase, todo, depth >>
    BY <1>7 DEF HoldReset, ReleaseReset, vars, board
  <2> QED BY <2>1 DEF Ahead
<1>8. ~Command /\ ~Restart
  BY DEF Command, Initialize, Configure, Compare, Read, Begin, Restart, Serving
<1> QED BY <1>6, <1>7, <1>8 DEF Next

\* A command cannot go on for ever.  At most 2 * |Register| + 2 steps and
\* RecursionLimit retries before each of them are ahead of it, and every step of
\* the server takes one off, whatever the bus, the configuration and the reset line
\* do.  With the fairness of the server, this is why CommandEnds holds.
THEOREM CommandsRunDown ==
    ASSUME IsFiniteSet(Register)
    PROVE  Spec => []Bounded /\ [][RunsDown]_vars
<1>1. TypeOK => Bounded
  <2> SUFFICES ASSUME TypeOK PROVE Bounded
    OBVIOUS
  <2>1. todo \in SUBSET Register /\ phase \in Phase /\ depth \in 0..RecursionLimit
    BY DEF TypeOK
  <2>2. /\ Cardinality(Register) \in Nat /\ Cardinality(todo) \in Nat
        /\ Cardinality(todo) <= Cardinality(Register)
    BY <2>1, TodoCounts
  <2> QED BY <2>1, <2>2 DEF Bounded, Ahead, Serving
<1>2. TypeOK /\ TypeOK' /\ [Next]_vars => [RunsDown]_vars
  BY RunsDownStep DEF RunsDown
<1> QED BY <1>1, <1>2, TypeCorrect, PTL DEF Spec
=============================================================================
