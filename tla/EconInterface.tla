---------------------------- MODULE EconInterface ----------------------------
(***************************************************************************)
(* The board object of the I2C server: class econ_interface, the part of   *)
(* class Translator it calls, and the ECON-T registers it reads and writes *)
(* over a bus that can fail.                                               *)
(*                                                                         *)
(* A command is a loop of bus transfers, one register at a time, so a hard *)
(* reset of the chip (a GPIO line driven by another process) can fall      *)
(* between any two of them.                                                *)
(*                                                                         *)
(* A register holds one value per field.  Its fields are the parameters of *)
(* its entry in the register map, plus Rest: the bits of the register that *)
(* no parameter's mask covers.                                             *)
(***************************************************************************)
EXTENDS Integers

CONSTANTS
    Register,        \* the RW registers of the ECON-T map
    Param,           \* the parameter names
    Rest,            \* the bits of a register outside every param_mask
    ParamsOf,        \* ParamsOf[r]: the 'params' of r in the map, {} for a plain register
    Modulus,         \* Modulus[p]: param_mask + 1, the number of values p can hold
    DefaultVal,      \* DefaultVal[r]: the 'val' of r in the default map
    ResetVal,        \* ResetVal[r]: what a hard reset leaves in r
    Configs,         \* the configurations a client may send
    RecursionLimit,  \* how many nested retries the interpreter allows
    Absent,          \* no entry for this register, or no value for this parameter
    None,            \* Python's None: what a read that had to be retried returns
    TooWide          \* a 'value' that does not fit the register's size_byte

Field == Param \cup {Rest}
Word  == {w \in [Field -> Nat] : \A p \in Param : w[p] < Modulus[p]}

Config == [ val : [Register -> Word \cup {Absent, TooWide}],
            par : [Register -> [Param -> Nat \cup {Absent}]] ]

ASSUME FieldAssumption ==
    /\ Rest \notin Param
    /\ ParamsOf \in [Register -> SUBSET Param]
    /\ Modulus \in [Param -> Nat \ {0}]

ASSUME MapAssumption ==
    /\ DefaultVal \in [Register -> Word]
    /\ ResetVal \in [Register -> Word]
    /\ Configs \subseteq Config

ASSUME LimitAssumption == RecursionLimit \in Nat

ASSUME SentinelAssumption ==
    /\ Absent \notin Word /\ None \notin Word /\ TooWide \notin Word
    /\ Absent \notin Nat
    /\ Absent # None /\ Absent # TooWide /\ None # TooWide

VARIABLES
    chip,        \* the registers of the ECON-T
    held,        \* is the hard-reset line low?
    writeCache,  \* econ_interface.writeCache, Absent where it has no address
    phase,       \* where the server loop is
    cmd,         \* the command being served
    cfg,         \* its configuration
    todo,        \* the registers the current loop still has to transfer
    got,         \* what read_pairs has collected so far
    depth,       \* nested retries of the transfer under way
    start,       \* history: the registers when the command arrived
    disturbed,   \* history: was the chip reset since the command arrived?
    stale        \* history: was it reset since the last configure began?

board == << writeCache, phase, cmd, cfg, todo, got, depth >>
history == << start, disturbed, stale >>
vars == << chip, held, board, history >>

NoConfig == [ val |-> [r \in Register |-> Absent],
              par |-> [r \in Register |-> [p \in Param |-> Absent]] ]
Nothing == [r \in Register |-> Absent]

Phase == {"idle", "read", "write", "answer", "dead"}
Cmd   == {"initialize", "configure", "compare", "read"}

TypeOK ==
    /\ chip \in [Register -> Word]
    /\ held \in BOOLEAN
    /\ writeCache \in [Register -> Word \cup {Absent}]
    /\ phase \in Phase
    /\ cmd \in Cmd
    /\ cfg \in Config
    /\ todo \in SUBSET Register
    /\ got \in [Register -> Word \cup {Absent, None}]
    /\ depth \in 0..RecursionLimit
    /\ start \in [Register -> Word]
    /\ disturbed \in BOOLEAN
    /\ stale \in BOOLEAN

-----------------------------------------------------------------------------
(***************************************************************************)
(* The translator                                                          *)
(***************************************************************************)

\* A register is given by 'value', which wins, or by some of its 'params'.
ByValue(c)  == {r \in Register : c.val[r] # Absent}
ByParams(c) == {r \in Register \ ByValue(c) : \E p \in Param : c.par[r][p] # Absent}

\* An empty configuration is falsy in Python: it selects the default map.
IsDefault(c) == ByValue(c) \cup ByParams(c) = {}

\* Mutations: a parameter that is not configured becomes 0; a configured
\* one is not cut to its mask.
MutantForgetsPrevious(r, params, prev) ==
    [f \in Field |->
        IF f \notin ParamsOf[r] \/ params[f] = Absent THEN 0 ELSE params[f] % Modulus[f]]
MutantUnmasked(r, params, prev) ==
    [f \in Field |->
        IF f \notin ParamsOf[r] THEN 0
        ELSE IF params[f] = Absent THEN prev[f] ELSE params[f]]

\* Every parameter of the register gets its configured value, cut to its
\* mask, or the one it has in the previous value; the register is rebuilt
\* from its parameters alone, so all other bits become 0.
regVal_from_paramValues(r, params, prev) ==
    [f \in Field |->
        IF f \notin ParamsOf[r] THEN 0
        ELSE IF params[f] = Absent THEN prev[f]
        ELSE params[f] % Modulus[f]]

\* Mutation: a previous value that is None drops the register whatever it is
\* given by.
MutantDropsUnread(c, prevCache) ==
    [r \in Register |->
        IF prevCache[r] = None THEN Absent
        ELSE IF IsDefault(c) THEN DefaultVal[r]
        ELSE IF r \in ByValue(c)
             THEN IF c.val[r] = TooWide THEN Absent ELSE c.val[r]
        ELSE IF r \in ByParams(c)
             THEN regVal_from_paramValues(r, c.par[r], prevCache[r])
        ELSE Absent]

\* What the translator makes of register r: a value to write, or Absent when
\* it leaves r out (not configured, too wide to convert, or to be merged into
\* a previous value that is None).
pairs_from_cfg(c, prevCache) ==
    [r \in Register |->
        IF IsDefault(c) THEN DefaultVal[r]
        ELSE IF r \in ByValue(c)
             THEN IF c.val[r] = TooWide THEN Absent ELSE c.val[r]
        ELSE IF r \in ByParams(c) /\ prevCache[r] # None
             THEN regVal_from_paramValues(r, c.par[r], prevCache[r])
        ELSE Absent]

Addresses(pairs) == {r \in Register : pairs[r] # Absent}

\* The addresses configure reads before it writes: those of a first
\* conversion, made with an empty cache, whose values are not used.
ToRead(c) ==
    IF IsDefault(c) THEN Register
    ELSE {r \in ByValue(c) : c.val[r] # TooWide} \cup ByParams(c)

-----------------------------------------------------------------------------
(***************************************************************************)
(* The commands of the server loop                                         *)
(***************************************************************************)

Begin(c, command, addrs) ==
    /\ phase = "idle"
    /\ cmd' = command
    /\ cfg' = c
    /\ phase' = "read"
    /\ todo' = addrs
    /\ got' = Nothing
    /\ depth' = 0
    /\ start' = chip
    /\ disturbed' = FALSE
    /\ UNCHANGED << chip, held >>

Initialize ==
    /\ Begin(NoConfig, "initialize", Register)
    /\ writeCache' = Nothing
    /\ stale' = FALSE

Configure(c) ==
    /\ Begin(c, "configure", ToRead(c))
    /\ stale' = FALSE
    /\ UNCHANGED writeCache

\* compare("RW") reads back every address of the cache.
Compare ==
    /\ Begin(NoConfig, "compare", Addresses(writeCache))
    /\ UNCHANGED << writeCache, stale >>

\* read(cfg) reads the addresses the configuration names.
Read(c) ==
    /\ Begin(c, "read", IF IsDefault(c) THEN Addresses(writeCache) ELSE ToRead(c))
    /\ UNCHANGED << writeCache, stale >>

-----------------------------------------------------------------------------
(***************************************************************************)
(* Bus transfers                                                           *)
(***************************************************************************)

\* A read that succeeds at the first attempt returns the value; one that was
\* retried returns None, since the retry's result is not passed on.
ReadReg(r) ==
    /\ phase = "read" /\ r \in todo /\ ~held
    /\ got' = [got EXCEPT ![r] = IF depth = 0 THEN chip[r] ELSE None]
    /\ todo' = todo \ {r}
    /\ depth' = 0
    /\ UNCHANGED << chip, held, writeCache, phase, cmd, cfg, history >>

\* Mutation: the retry is a loop, not a recursive call.
MutantRetryReadLoops ==
    /\ phase = "read" /\ todo # {}
    /\ UNCHANGED vars

\* IOError: call again, one frame deeper.
RetryRead ==
    /\ phase = "read" /\ todo # {} /\ depth < RecursionLimit
    /\ depth' = depth + 1
    /\ UNCHANGED << chip, held, writeCache, phase, cmd, cfg, todo, got, history >>

\* All registers are read: convert again, with what was read as the previous
\* values; the cache becomes the values about to be written.
StartWrite ==
    /\ phase = "read" /\ todo = {} /\ cmd \in {"initialize", "configure"}
    /\ writeCache' = pairs_from_cfg(cfg, got)
    /\ todo' = Addresses(writeCache')
    /\ phase' = "write"
    /\ UNCHANGED << chip, held, cmd, cfg, got, depth, history >>

WriteReg(r) ==
    /\ phase = "write" /\ r \in todo /\ ~held
    /\ chip' = [chip EXCEPT ![r] = writeCache[r]]
    /\ todo' = todo \ {r}
    /\ depth' = 0
    /\ UNCHANGED << held, writeCache, phase, cmd, cfg, got, history >>

\* Mutation: an IOError in a write is logged and ignored.
MutantWriteGivesUp(r) ==
    /\ phase = "write" /\ r \in todo
    /\ todo' = todo \ {r}
    /\ UNCHANGED << chip, held, writeCache, phase, cmd, cfg, got, depth, history >>

\* IOError in a write: the chip may or may not have taken the value.
RetryWrite(r) ==
    /\ phase = "write" /\ r \in todo /\ depth < RecursionLimit
    /\ \/ UNCHANGED chip
       \/ ~held /\ chip' = [chip EXCEPT ![r] = writeCache[r]]
    /\ depth' = depth + 1
    /\ UNCHANGED << held, writeCache, phase, cmd, cfg, todo, got, history >>

\* One retry too many: RecursionError leaves the server loop and ends the
\* process, and the cache with it.
Die ==
    /\ phase \in {"read", "write"} /\ todo # {} /\ depth = RecursionLimit
    /\ phase' = "dead"
    /\ writeCache' = Nothing
    /\ depth' = 0
    /\ UNCHANGED << chip, held, cmd, cfg, todo, got, history >>

-----------------------------------------------------------------------------
(***************************************************************************)
(* Answers                                                                 *)
(***************************************************************************)

Finish ==
    /\ todo = {}
    /\ \/ phase = "write"
       \/ phase = "read" /\ cmd \in {"compare", "read"}
    /\ phase' = "answer"
    /\ UNCHANGED << chip, held, writeCache, cmd, cfg, todo, got, depth, history >>

\* Mutation: a register that could not be read is not reported.
MutantMismatches == {r \in Addresses(writeCache) : got[r] \notin {writeCache[r], None}}

\* The keys compare answers with: cached registers that did not read back equal.
Mismatches == {r \in Addresses(writeCache) : got[r] # writeCache[r]}

Reply ==
    /\ phase = "answer"
    /\ phase' = "idle"
    /\ UNCHANGED << chip, held, writeCache, cmd, cfg, todo, got, depth, history >>

Restart ==
    /\ phase = "dead"
    /\ phase' = "idle"
    /\ todo' = {}
    /\ UNCHANGED << chip, held, writeCache, cmd, cfg, got, depth, history >>

-----------------------------------------------------------------------------
(***************************************************************************)
(* The reset line                                                          *)
(***************************************************************************)

HoldReset ==
    /\ ~held
    /\ held' = TRUE
    /\ chip' = ResetVal
    /\ disturbed' = TRUE
    /\ stale' = TRUE
    /\ UNCHANGED << board, start >>

ReleaseReset ==
    /\ held
    /\ held' = FALSE
    /\ UNCHANGED << chip, board, history >>

-----------------------------------------------------------------------------
Init ==
    /\ chip = ResetVal
    /\ held = FALSE
    /\ writeCache = Nothing
    /\ phase = "idle"
    /\ cmd = "read"
    /\ cfg = NoConfig
    /\ todo = {}
    /\ got = Nothing
    /\ depth = 0
    /\ start = ResetVal
    /\ disturbed = FALSE
    /\ stale = FALSE

Command ==
    \/ Initialize
    \/ \E c \in Configs : Configure(c)
    \/ Compare
    \/ \E c \in Configs : Read(c)

Transfer ==
    \/ \E r \in Register : ReadReg(r) \/ WriteReg(r) \/ RetryWrite(r)
    \/ RetryRead
    \/ Die

Server == Transfer \/ StartWrite \/ Finish \/ Reply

Next == Command \/ Server \/ Restart \/ HoldReset \/ ReleaseReset

\* The server loop runs by itself; clients, operators and the reset line owe
\* it nothing.
Spec == Init /\ [][Next]_vars /\ WF_vars(Server)

-----------------------------------------------------------------------------
(***************************************************************************)
(* Properties                                                              *)
(***************************************************************************)

Answered(command) == phase = "answer" /\ cmd = command

\* A configure that is answered, with no reset since it was asked for, has
\* changed exactly what it converted: a register left out keeps the value it
\* had, a 'value' is taken whole, and in a register given by parameters each
\* parameter holds its configured value cut to its mask or the value it had
\* before, whatever retries, half-done writes and earlier commands there were;
\* the bits outside all parameters are cleared.
ConfigureIsExact ==
    Answered("configure") /\ ~IsDefault(cfg) /\ ~disturbed =>
        \A r \in Register :
            IF writeCache[r] = Absent THEN chip[r] = start[r]
            ELSE \/ r \in ByValue(cfg) /\ chip[r] = cfg.val[r]
                 \/ /\ r \in ByParams(cfg)
                    /\ chip[r][Rest] = 0
                    /\ \A p \in ParamsOf[r] :
                        chip[r][p] = IF cfg.par[r][p] = Absent
                                     THEN start[r][p]
                                     ELSE cfg.par[r][p] % Modulus[p]

\* A configuration whose values all fit is either written or, register by
\* register, skipped only because its read-back was None; a register given by
\* value is never skipped.
OnlyMergesAreSkipped ==
    Answered("configure") /\ ~IsDefault(cfg) =>
        \A r \in ToRead(cfg) :
            writeCache[r] = Absent => r \in ByParams(cfg) /\ got[r] = None

\* initialize, and a configure with an empty configuration, leave every RW
\* register at the default of the map, whatever was configured before and
\* whichever reads had to be retried.
InitializeRestoresDefaults ==
    Answered("initialize") \/ (Answered("configure") /\ IsDefault(cfg)) =>
        /\ writeCache = DefaultVal
        /\ ~disturbed => chip = DefaultVal

\* Between commands, and while one only reads, the cache tells what is in the
\* chip for every address it has, unless a hard reset intervened.
CacheCoherent ==
    ~stale /\ (phase \in {"idle", "answer"} \/ cmd \in {"compare", "read"}) =>
        \A r \in Addresses(writeCache) : chip[r] = writeCache[r]

\* compare("RW") with no key to report means that the chip holds what was last
\* written, also after a reset the server was not told of; and a key it does
\* report differs or could not be read at the first attempt.
CompareIsSound ==
    Answered("compare") /\ ~disturbed =>
        \A r \in Addresses(writeCache) :
            /\ r \notin Mismatches => chip[r] = writeCache[r]
            /\ r \in Mismatches => chip[r] # writeCache[r] \/ got[r] = None

\* A hard reset in the middle of a configure cannot produce a value from
\* nowhere: each field holds a value it had, one it was configured to, its
\* default, its reset value, or 0 for the bits no parameter covers.
NoInventedValue ==
    phase \in {"read", "write", "answer"} =>
        \A r \in Register, f \in Field :
            \/ chip[r][f] \in {start[r][f], ResetVal[r][f], DefaultVal[r][f]}
            \/ r \in ByValue(cfg) /\ chip[r][f] = cfg.val[r][f]
            \/ r \in ByParams(cfg) /\ \/ f \notin ParamsOf[r] /\ chip[r][f] = 0
                                      \/ f \in ParamsOf[r] /\ cfg.par[r][f] # Absent
                                         /\ chip[r][f] = cfg.par[r][f] % Modulus[f]

\* What the docstring of configure and the log of the retry promise: once
\* configured is answered, every parameter of the configuration is in the chip.
ConfigureTakesEffect ==
    Answered("configure") /\ ~disturbed =>
        \A r \in ByParams(cfg) : \A p \in ParamsOf[r] :
            cfg.par[r][p] # Absent => chip[r][p] = cfg.par[r][p] % Modulus[p]

\* A command never hangs: the retries are recursive calls, so a bus that
\* never answers again ends the process instead of stalling it.
CommandEnds == phase \in {"read", "write"} ~> phase \in {"answer", "dead"}
=============================================================================
