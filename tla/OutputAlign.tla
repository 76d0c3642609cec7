----------------------------- MODULE OutputAlign -----------------------------
(***************************************************************************)
(* output_align and bypass_align of testing/set_econt.py, with the scan of *)
(* the latencies in testing/latency.py.                                    *)
(*                                                                         *)
(* Every link carries the training word at BX0 of each orbit.  A link that *)
(* waits longer shows it in a later row of the capture, so the scan makes  *)
(* the early links wait until all links of the ASIC, and then all links of *)
(* the emulator, show it in the same row.  How far each link is off is not *)
(* known beforehand, and a link may not show the word at all.              *)
(***************************************************************************)
EXTENDS Integers, FiniteSetsExt

CONSTANTS
    NLinks,       \* eTx of the chip
    MaxLatency,   \* 19, the last value the scan tries
    StartBypass,  \* 13, where bypass_align starts with the emulator
    MaxOffset,    \* bound: rows before the first BX0 at latency 0
    Orbit,        \* rows from one BX0 to the next
    Depth         \* rows of a capture

ASSUME SizeAssumption ==
    /\ NLinks \in Nat \ {0} /\ Orbit \in Nat \ {0} /\ Depth \in Nat
    /\ MaxLatency \in Nat /\ StartBypass \in 0..MaxLatency
    /\ MaxOffset \in Nat

\* bypass_align has values below its first one to go back to, and the BX0 of a link
\* that is in the first row of those that are an orbit apart is in the first orbit.
ASSUME BypassAssumption == StartBypass > 0 /\ MaxOffset < Orbit

VARIABLES
    at,           \* where the program is
    phase,        \* of enable: 0 or 4
    failed,       \* history: phases at which the links were not aligned
    bypass,       \* is it bypass_align that runs?
    offset,       \* row of the first BX0 of each link at latency 0
    reg,          \* the latency registers, fifo_latency
    scanning,     \* which scan_latency this is
    val,          \* its next value
    again,        \* the links at -1, that will get it
    keep_latency_scan,
    BX0_position, \* the reference of the scan
    BX0_ASIC      \* what the scan of the ASIC has found

io   == << phase, failed >>
scan == << scanning, val, again, keep_latency_scan, BX0_position >>
vars == << at, io, bypass, offset, reg, scan, BX0_ASIC >>

Link    == 1..NLinks
Capture == {"lc-ASIC", "lc-emulator"}
Scans   == {"ASIC", "emulator", "ASIC again", "reverse"}
NoRow   == -1    \* a link without BX0 in this orbit
None    == -2    \* no reference
Ended   == {"not aligned", "exited", "raised", "done"}

lcapture == IF scanning \in {"ASIC", "ASIC again"} THEN "lc-ASIC" ELSE "lc-emulator"

-----------------------------------------------------------------------------
(***************************************************************************)
(* Where the word is found, and what follows from it                       *)
(***************************************************************************)

\* The row of BX0 in orbit 0 or 1 of a capture, if the link shows it.
Row(o, first, latency) ==
    IF first # NoRow /\ first + latency + o * Orbit < Depth
    THEN first + latency + o * Orbit ELSE NoRow

find_BX0(first, registers) ==
    [o \in 0..1 |-> [l \in Link |-> Row(o, first[l], registers[l])]]

\* find_BX0 answers False if the first link shows nothing.
Found(rows) == rows[0][1] # NoRow

Verdict(keep, links, position) == [keep |-> keep, again |-> links, position |-> position]

NoVerdict == Verdict(TRUE, Link, None)

\* Mutation: the links that are late wait for those that are early.
MutantWait(row, ref) ==
    LET AtRef == {l \in Link : row[l] = ref}
        other == row[Min(Link \ AtRef)]
    IN  CASE AtRef = Link -> Verdict(FALSE, {}, ref)
          [] AtRef \notin {{}, Link} /\ other > ref -> Verdict(TRUE, Link \ AtRef, other)
          [] AtRef \notin {{}, Link} /\ other <= ref -> Verdict(TRUE, Link \ AtRef, ref)
          [] AtRef = {} /\ (\A l \in Link : row[l] = row[1]) /\ row[1] > ref ->
                Verdict(FALSE, Link, row[1])
          [] OTHER -> NoVerdict

\* Mutation: one link in a later row is enough to stop.
MutantMatchOrbit(row, ref) ==
    LET AtRef == {l \in Link : row[l] = ref}
        other == row[Min(Link \ AtRef)]
    IN  CASE AtRef = Link -> Verdict(FALSE, {}, ref)
          [] AtRef \notin {{}, Link} /\ other > ref -> Verdict(TRUE, AtRef, other)
          [] AtRef \notin {{}, Link} /\ other <= ref -> Verdict(TRUE, Link \ AtRef, ref)
          [] AtRef = {} /\ row[1] > ref -> Verdict(FALSE, Link, row[1])
          [] OTHER -> NoVerdict

\* The rows of one orbit against the reference: all there; some there, and the
\* first of the others later or not; all together in a later row.
MatchOrbit(row, ref) ==
    LET AtRef == {l \in Link : row[l] = ref}
        other == row[Min(Link \ AtRef)]
    IN  CASE AtRef = Link -> Verdict(FALSE, {}, ref)
          [] AtRef \notin {{}, Link} /\ other > ref -> Verdict(TRUE, AtRef, other)
          [] AtRef \notin {{}, Link} /\ other <= ref -> Verdict(TRUE, Link \ AtRef, ref)
          [] AtRef = {} /\ (\A l \in Link : row[l] = row[1]) /\ row[1] > ref ->
                Verdict(FALSE, Link, row[1])
          [] OTHER -> NoVerdict

\* Mutation: the second orbit is never looked at.
MutantMatchBX0(rows, position) ==
    LET ref   == IF position = None THEN rows[0][1] ELSE position
    IN  MatchOrbit(rows[0], ref)

\* The second orbit only counts if the first decides nothing.  If neither does,
\* index and reference stay None, and None as an index is every link.
match_BX0(rows, position) ==
    LET ref   == IF position = None THEN rows[0][1] ELSE position
        first == MatchOrbit(rows[0], ref)
    IN  IF first # NoVerdict THEN first ELSE MatchOrbit(rows[1], ref)

-----------------------------------------------------------------------------
(***************************************************************************)
(* output_align: the phase of enable                                       *)
(***************************************************************************)

\* from_io.check_IO
CheckIO(ok) ==
    /\ at = "IO"
    /\ IF ok THEN at' = "links" /\ UNCHANGED phase
       ELSE IF phase = 4 THEN at' = "not aligned" /\ UNCHANGED phase
       ELSE phase' = 4 /\ UNCHANGED at
    /\ failed' = IF ok THEN failed ELSE failed \cup {phase}
    /\ UNCHANGED << bypass, offset, reg, scan, BX0_ASIC >>

\* lc.reset and lc.check_links.  After phase 4 the loop is over in any case.
CheckLinks(ok) ==
    /\ at = "links"
    /\ IF ok \/ phase = 4 THEN at' = "align" /\ UNCHANGED phase
       ELSE at' = "IO" /\ phase' = 4
    /\ failed' = IF ok THEN failed ELSE failed \cup {phase}
    /\ reg' = [lc \in Capture |-> [l \in Link |-> 0]]
    /\ UNCHANGED << bypass, offset, scan, BX0_ASIC >>

-----------------------------------------------------------------------------
(***************************************************************************)
(* align, and scan_latency                                                 *)
(***************************************************************************)

\* scan_latency is called: every link starts at the same value.
BeginScan(s, from, position) ==
    /\ scanning' = s /\ val' = from /\ again' = Link
    /\ keep_latency_scan' = TRUE /\ BX0_position' = position
    /\ at' = IF from \in 0..MaxLatency THEN "scan" ELSE "scanned"

\* align in output_align.
Align(where) ==
    /\ at = "align" /\ ~bypass
    /\ offset' = where
    /\ BeginScan("ASIC", 0, None)
    /\ UNCHANGED << io, bypass, reg, BX0_ASIC >>

\* align in bypass_align: the ASIC stays as it is, and gives the reference.
AlignBypass(where) ==
    /\ at = "align" /\ bypass
    /\ offset' = where
    /\ LET rows  == find_BX0(where["lc-ASIC"], reg["lc-ASIC"])
           found == match_BX0(rows, None).position
       IN  IF Found(rows)
           THEN BX0_ASIC' = found /\ BeginScan("emulator", StartBypass, found)
           ELSE at' = "raised" /\ UNCHANGED << BX0_ASIC, scan >>
    /\ UNCHANGED << io, bypass, reg >>

\* What the rows say of the scan, and where the loop goes from here.
Judge(r, next) ==
    /\ keep_latency_scan' = r.keep /\ again' = r.again /\ BX0_position' = r.position
    /\ val' = next
    /\ at' = IF r.keep /\ next \in 0..MaxLatency THEN "scan" ELSE "scanned"

\* One pass of the loop of scan_latency.
TryValue ==
    /\ at = "scan"
    /\ \E registers \in {[l \in Link |-> IF l \in again THEN val ELSE reg[lcapture][l]]} :
        /\ reg' = [reg EXCEPT ![lcapture] = registers]
        /\ \E rows \in {find_BX0(offset[lcapture], registers)} :
            IF Found(rows)
            THEN \E r \in {match_BX0(rows, BX0_position)} :
                    Judge(r, IF scanning = "reverse" THEN val - 1 ELSE val + 1)
            ELSE at' = "raised" /\ UNCHANGED << keep_latency_scan, again, BX0_position, val >>
    /\ UNCHANGED << io, bypass, offset, scanning, BX0_ASIC >>

\* None as BX0_ASIC exits.
FoundASIC ==
    /\ at = "scanned" /\ scanning = "ASIC"
    /\ IF BX0_position = None
       THEN at' = "exited" /\ UNCHANGED << scan, BX0_ASIC >>
       ELSE BX0_ASIC' = BX0_position /\ BeginScan("emulator", 0, BX0_position)
    /\ UNCHANGED << io, bypass, offset, reg >>

Return == IF bypass THEN "done" ELSE "compare"

\* A row other than the ASIC's: the ASIC may wait for the emulator if a link of
\* that is at latency 0, or a reverse search starts below start_emulator.  None
\* raises in the message (205).
FoundEmulator ==
    /\ at = "scanned" /\ scanning = "emulator"
    /\ IF BX0_position = BX0_ASIC
       THEN at' = Return /\ UNCHANGED scan
       ELSE IF BX0_position = None
       THEN at' = "raised" /\ UNCHANGED scan
       ELSE IF ~bypass /\ (\E l \in Link \ again : reg["lc-emulator"][l] = 0)
       THEN BeginScan("ASIC again", 0, BX0_position)
       ELSE BeginScan("reverse", (IF bypass THEN StartBypass ELSE 0) - 1, BX0_ASIC)
    /\ UNCHANGED << io, bypass, offset, reg, BX0_ASIC >>

\* The result of this scan is looked at by nobody.
FoundASICAgain ==
    /\ at = "scanned" /\ scanning = "ASIC again"
    /\ at' = Return /\ BX0_ASIC' = BX0_position
    /\ UNCHANGED << io, bypass, offset, reg, scan >>

\* Mutation: whatever the reverse search finds is good.
MutantFoundReverse ==
    /\ at = "scanned" /\ scanning = "reverse"
    /\ at' = Return
    /\ UNCHANGED << io, bypass, offset, reg, scan, BX0_ASIC >>

FoundReverse ==
    /\ at = "scanned" /\ scanning = "reverse"
    /\ at' = IF BX0_position = BX0_ASIC THEN Return ELSE "exited"
    /\ UNCHANGED << io, bypass, offset, reg, scan, BX0_ASIC >>

\* sc.configure_compare and the count of the errors.
Compare ==
    /\ at = "compare" /\ at' = "done"
    /\ UNCHANGED << io, bypass, offset, reg, scan, BX0_ASIC >>

Offsets == [Capture -> [Link -> 0..MaxOffset \cup {NoRow}]]

Init ==
    /\ bypass \in BOOLEAN
    /\ at = IF bypass THEN "align" ELSE "IO"
    /\ phase = 0 /\ failed = {}
    /\ offset = [lc \in Capture |-> [l \in Link |-> NoRow]]
    /\ reg = [lc \in Capture |-> [l \in Link |-> 0]]
    /\ scanning = "ASIC" /\ val = 0 /\ again = {} /\ keep_latency_scan = TRUE
    /\ BX0_position = None /\ BX0_ASIC = None

Next ==
    \/ \E ok \in BOOLEAN : CheckIO(ok) \/ CheckLinks(ok)
    \/ \E where \in Offsets : Align(where) \/ AlignBypass(where)
    \/ TryValue
    \/ FoundASIC \/ FoundEmulator \/ FoundASICAgain \/ FoundReverse
    \/ Compare

Spec == Init /\ [][Next]_vars

-----------------------------------------------------------------------------
(***************************************************************************)
(* Properties                                                              *)
(***************************************************************************)

\* The program is at one of its steps with variables of their types; no latency
\* is ever written that scan_latency does not name (latency.py:148-151).
TypeOK ==
    /\ at \in {"IO", "links", "align", "scan", "scanned", "compare"} \cup Ended
    /\ phase \in {0, 4} /\ failed \subseteq {0, 4}
    /\ bypass \in BOOLEAN /\ keep_latency_scan \in BOOLEAN
    /\ offset \in Offsets
    /\ reg \in [Capture -> [Link -> 0..MaxLatency]]
    /\ scanning \in Scans /\ val \in -1..(MaxLatency + 1)
    /\ again \subseteq Link
    /\ BX0_position \in Int /\ BX0_ASIC \in Int

ShownAt(lc, o, l) == Row(o, offset[lc][l], reg[lc][l])

\* A scan that stops by itself has all links of its capture in one row of one
\* orbit, and that row is the BX0_position it returns (latency.py:91-115, 175).
StoppedScanMeets ==
    at = "scanned" /\ ~keep_latency_scan =>
        \E o \in 0..1 : \A l \in Link : ShownAt(lcapture, o, l) = BX0_position

\* The row of the ASIC's late links, which the others, at most MaxLatency before it,
\* are to wait for.  It is the reference after the first value if link 1 is late, or the
\* first link that is not in the row of link 1.  In the latter case the links in neither
\* row sit out the second value and go on with the third, which takes those in the row
\* before the late one over it (latency.py:96-108, 153).
Late == Max({offset["lc-ASIC"][l] : l \in Link})
InReach ==
    LET row == offset["lc-ASIC"]
    IN  /\ Late < Depth
        /\ \A l \in Link : row[l] \in 0..Late /\ Late - row[l] <= MaxLatency
        /\ \/ row[1] = Late
           \/ /\ \E k \in Link : row[k] = Late /\ \A l \in 1..(k - 1) : row[l] = row[1]
              /\ \A l \in Link : row[l] = Late - 1 => row[1] = Late - 1

\* Then the ASIC's links meet, wherever else they start: each waits exactly for the
\* late ones, which do not wait at all.  Links in one row, or in two, are always in
\* reach; links in three or more may miss each other, or meet in a later row.
LinksMeet ==
    at = "scanned" /\ scanning = "ASIC" /\ InReach =>
        /\ ~keep_latency_scan /\ BX0_position = Late
        /\ \A l \in Link : reg["lc-ASIC"][l] = Late - offset["lc-ASIC"][l]

\* The first link of the emulator, when all of them start in one row.
Emulator == offset["lc-emulator"][1]
EmulatorInOneRow ==
    Emulator # NoRow /\ \A l \in Link : offset["lc-emulator"][l] = Emulator

Aligned ==
    \A lc \in Capture, l \in Link : ShownAt(lc, 0, l) = ShownAt("lc-ASIC", 0, 1)

\* output_align goes on to compare ASIC and emulator, aligned or not.  They are
\* exactly if the emulator was already in the row of the ASIC's late links, or one
\* row too early and its second orbit not in the capture: every other row stops
\* the scan of the emulator at its first values (latency.py:96, 110-119, 196-208).
AlignedIf ==
    at = "compare" /\ InReach /\ EmulatorInOneRow =>
        (Aligned <=> \/ Emulator = Late
                     \/ Emulator = Late - 1 /\ Row(1, Emulator, 0) = NoRow)

First == offset["lc-ASIC"][1]
ASICInOneRow == \A l \in Link : offset["lc-ASIC"][l] = First

\* If the links of each start in one row, bypass_align only returns with ASIC and
\* emulator aligned, and only if the emulator was within a row of where StartBypass
\* puts it: a later row than the ASIC's stops its reverse search, too, at the first
\* value, and an earlier one at the second (latency.py:110-119, 203-211).
BypassAligns ==
    at = "done" /\ bypass /\ EmulatorInOneRow /\ ASICInOneRow =>
        /\ Aligned
        /\ First - Emulator \in (StartBypass - 1)..(StartBypass + 1)

\* The latencies are only scanned at a phase of enable that left the links not
\* aligned if the other phase has, too (set_econt.py:206-240).
BothPhasesTried == at \notin {"IO", "links"} /\ phase \in failed => failed = {0, 4}
=============================================================================
