-------------------------- MODULE OutputAlign_proofs --------------------------
(***************************************************************************)
(* Proofs about OutputAlign, for every number of links and every capture:  *)
(* a scan that stops by itself has found its links in one row, and that of *)
(* the ASIC always does if its links are in reach of the late ones; where  *)
(* an emulator has to start for the two to be compared aligned, with and   *)
(* without bypass.                                                         *)
(***************************************************************************)
EXTENDS OutputAlign, TLAPS, WellFoundedInduction

-----------------------------------------------------------------------------
(***************************************************************************)
(* What match_BX0 answers                                                  *)
(***************************************************************************)

Rows == [0..1 -> [Link -> Int]]

\* The first of some links is one of them, and none is before it.
LEMMA MinIn ==
    ASSUME NEW S \in SUBSET Link, S # {}
    PROVE  Min(S) \in S /\ \A l \in 1..(Min(S) - 1) : l \notin S
<1>1. S \subseteq Nat  BY DEF Link
<1>2. PICK x \in S : \A y \in S : ~(<< y, x >> \in OpToRel(<, Nat))
  BY <1>1, NatLessThanWellFounded, WFMin
<1>3. \A y \in S : x =< y
  <2> SUFFICES ASSUME NEW y \in S  PROVE x =< y  OBVIOUS
  <2>1. x \in Nat /\ y \in Nat  BY <1>1
  <2>2. y < x => << y, x >> \in OpToRel(<, Nat)  BY <2>1 DEF OpToRel
  <2>3. ~(y < x)  BY <2>2, <1>2
  <2> QED  BY <2>1, <2>3
<1>4. PICK m \in S : m = Min(S) /\ \A y \in S : m =< y  BY <1>3 DEF Min
<1>5. \A l \in 1..(m - 1) : l \notin S
  <2> SUFFICES ASSUME NEW l \in 1..(m - 1), l \in S  PROVE FALSE  OBVIOUS
  <2>1. m =< l /\ m \in Nat  BY <1>1, <1>4
  <2> QED  BY <2>1
<1> QED  BY <1>4, <1>5

\* The links in one row, all_eTx_match_ref.
InRow(row, ref) == {l \in Link : row[l] = ref}

\* The first link that is not.
FirstOther(row, ref, k) == row[k] # ref /\ \A l \in 1..(k - 1) : row[l] = ref

\* The five answers for one orbit.
LEMMA OrbitCases ==
    ASSUME NEW row \in [Link -> Int], NEW ref \in Int
    PROVE  \/ InRow(row, ref) = Link /\ MatchOrbit(row, ref) = Verdict(FALSE, {}, ref)
           \/ \E k \in Link \ InRow(row, ref) :
                /\ InRow(row, ref) # {} /\ FirstOther(row, ref, k) /\ row[k] > ref
                /\ MatchOrbit(row, ref) = Verdict(TRUE, InRow(row, ref), row[k])
           \/ \E k \in Link \ InRow(row, ref) :
                /\ InRow(row, ref) # {} /\ FirstOther(row, ref, k) /\ row[k] <= ref
                /\ MatchOrbit(row, ref) = Verdict(TRUE, Link \ InRow(row, ref), ref)
           \/ /\ InRow(row, ref) = {} /\ \A l \in Link : row[l] = row[1]
              /\ MatchOrbit(row, ref) = Verdict(FALSE, Link, row[1])
           \/ InRow(row, ref) = {} /\ MatchOrbit(row, ref) = NoVerdict
<1> DEFINE AtRef == InRow(row, ref)
           m == MatchOrbit(row, ref)
           other == row[Min(Link \ AtRef)]
           late  == AtRef = {} /\ (\A l \in Link : row[l] = row[1]) /\ row[1] > ref
           partly == AtRef \notin {{}, Link}
<1>m. m =
        CASE AtRef = Link -> Verdict(FALSE, {}, ref)
          [] partly /\ other > ref -> Verdict(TRUE, AtRef, other)
          [] partly /\ other <= ref -> Verdict(TRUE, Link \ AtRef, ref)
          [] late -> Verdict(FALSE, Link, row[1])
          [] OTHER -> NoVerdict
  BY DEF MatchOrbit, InRow
<1>l. Link # {}
  <2>1. 1 \in Link  BY SizeAssumption DEF Link
  <2> QED  BY <2>1
<1>a. ASSUME AtRef # Link
      PROVE  /\ Min(Link \ AtRef) \in Link \ AtRef
             /\ FirstOther(row, ref, Min(Link \ AtRef))
  <2> DEFINE k == Min(Link \ AtRef)
  <2>1. Link \ AtRef \in SUBSET Link /\ Link \ AtRef # {}  BY <1>a DEF InRow
  <2>2. k \in Link \ AtRef /\ \A l \in 1..(k - 1) : l \notin Link \ AtRef
    BY <2>1, MinIn
  <2> HIDE DEF k
  <2>3. \A l \in 1..(k - 1) : l \in Link  BY <2>2, SizeAssumption DEF Link
  <2>4. row[k] # ref /\ \A l \in 1..(k - 1) : row[l] = ref  BY <2>2, <2>3 DEF InRow
  <2> QED  BY <2>2, <2>4 DEF FirstOther, k
<1>b. AtRef # Link => other \in Int  BY <1>a
<1>n. late => AtRef # Link  BY <1>l
<1>1. CASE AtRef = Link
  <2>1. ~partly /\ ~late  BY <1>1, <1>l
  <2>2. m = Verdict(FALSE, {}, ref)
    <3> HIDE DEF partly, late, other, AtRef, m
    <3> QED  BY <1>m, <1>1, <2>1
  <2> QED  BY <1>1, <2>2
<1>2. CASE partly /\ other > ref
  <2>1. AtRef # Link /\ ~late /\ ~(other <= ref)  BY <1>2, <1>b
  <2>2. m = Verdict(TRUE, AtRef, other)
    <3> HIDE DEF partly, late, other, AtRef, m
    <3> QED  BY <1>m, <1>2, <2>1
  <2> QED  BY <1>2, <1>a, <2>2
<1>3. CASE partly /\ other <= ref
  <2>1. AtRef # Link /\ ~late /\ ~(other > ref)  BY <1>3, <1>b
  <2>2. m = Verdict(TRUE, Link \ AtRef, ref)
    <3> HIDE DEF partly, late, other, AtRef, m
    <3> QED  BY <1>m, <1>3, <2>1
  <2> QED  BY <1>3, <1>a, <2>2
<1>4. CASE late
  <2>1. AtRef # Link /\ ~partly  BY <1>4, <1>n
  <2>2. m = Verdict(FALSE, Link, row[1])
    <3> HIDE DEF partly, late, other, AtRef, m
    <3> QED  BY <1>m, <1>4, <2>1
  <2> QED  BY <1>4, <2>2
<1>5. CASE AtRef = {} /\ ~late
  <2>1. AtRef # Link /\ ~partly  BY <1>5, <1>l
  <2>2. m = NoVerdict
    <3> HIDE DEF partly, late, other, AtRef, m
    <3> QED  BY <1>m, <1>5, <2>1
  <2> QED  BY <1>5, <2>2
<1>6. AtRef = Link \/ AtRef = {} \/ (partly /\ other > ref) \/ (partly /\ other <= ref)
  BY <1>b
<1> QED  BY <1>1, <1>2, <1>3, <1>4, <1>5, <1>6

\* The answer is a verdict, and one to stop only when all links are in one row.
LEMMA OrbitAnswer ==
    ASSUME NEW row \in [Link -> Int], NEW ref \in Int, NEW r, r = MatchOrbit(row, ref)
    PROVE  /\ r.keep \in BOOLEAN /\ r.again \in SUBSET Link /\ r.position \in Int
           /\ ~r.keep => \A l \in Link : row[l] = r.position
<1> DEFINE AtRef == InRow(row, ref)
<1>l. 1 \in Link  BY SizeAssumption DEF Link
<1>1. CASE AtRef = Link /\ r = Verdict(FALSE, {}, ref)
  BY <1>1 DEF Verdict, InRow
<1>2. ASSUME NEW k \in Link \ AtRef, r = Verdict(TRUE, AtRef, row[k])
      PROVE  r.keep = TRUE /\ r.again \in SUBSET Link /\ r.position \in Int
  BY <1>2 DEF Verdict, InRow
<1>3. CASE r = Verdict(TRUE, Link \ AtRef, ref)
  BY <1>3 DEF Verdict, InRow
<1>4. CASE (\A l \in Link : row[l] = row[1]) /\ r = Verdict(FALSE, Link, row[1])
  BY <1>4, <1>l DEF Verdict
<1>5. CASE r = NoVerdict
  BY <1>5 DEF Verdict, NoVerdict, None
<1> QED  BY <1>1, <1>2, <1>3, <1>4, <1>5, OrbitCases

\* So does match_BX0, of one of the two orbits.
LEMMA MatchAnswer ==
    ASSUME NEW rows \in Rows, NEW position \in Int, NEW r, r = match_BX0(rows, position)
    PROVE  /\ r.keep \in BOOLEAN /\ r.again \in SUBSET Link /\ r.position \in Int
           /\ ~r.keep => \E o \in 0..1 : \A l \in Link : rows[o][l] = r.position
<1> DEFINE ref == IF position = None THEN rows[0][1] ELSE position
<1>1. ref \in Int /\ rows[0] \in [Link -> Int] /\ rows[1] \in [Link -> Int]
  BY SizeAssumption DEF Rows, Link
<1>2. r = MatchOrbit(rows[0], ref) \/ r = MatchOrbit(rows[1], ref)
  BY DEF match_BX0
<1> HIDE DEF ref
<1>3. CASE r = MatchOrbit(rows[0], ref)
  <2>1. /\ r.keep \in BOOLEAN /\ r.again \in SUBSET Link /\ r.position \in Int
        /\ ~r.keep => \A l \in Link : rows[0][l] = r.position
    BY <1>1, <1>3, OrbitAnswer
  <2> QED  BY <2>1
<1>4. CASE r = MatchOrbit(rows[1], ref)
  <2>1. /\ r.keep \in BOOLEAN /\ r.again \in SUBSET Link /\ r.position \in Int
        /\ ~r.keep => \A l \in Link : rows[1][l] = r.position
    BY <1>1, <1>4, OrbitAnswer
  <2> QED  BY <2>1
<1> QED  BY <1>2, <1>3, <1>4

\* The rows of a capture are rows.
LEMMA RowsType ==
    ASSUME NEW first \in [Link -> 0..MaxOffset \cup {NoRow}],
           NEW registers \in [Link -> 0..MaxLatency]
    PROVE  find_BX0(first, registers) \in Rows
<1>1. \A o \in 0..1, l \in Link : Row(o, first[l], registers[l]) \in Int
  BY SizeAssumption DEF Row, NoRow
<1> QED  BY <1>1 DEF find_BX0, Rows

-----------------------------------------------------------------------------
(***************************************************************************)
(* Types                                                                   *)
(***************************************************************************)

\* The part of TypeOK that says which variables are Boolean.
BoolOK == bypass \in BOOLEAN /\ keep_latency_scan \in BOOLEAN

\* The part that a scan does not touch ...
FixedOK ==
    /\ phase \in {0, 4} /\ failed \subseteq {0, 4}
    /\ offset \in Offsets
    /\ BX0_ASIC \in Int

\* ... and the part that it does.
ScanOK ==
    /\ at \in {"IO", "links", "align", "scan", "scanned", "compare"} \cup Ended
    /\ reg \in [Capture -> [Link -> 0..MaxLatency]]
    /\ scanning \in Scans /\ val \in -1..(MaxLatency + 1)
    /\ again \in SUBSET Link
    /\ BX0_position \in Int

LEMMA Parts == TypeOK <=> BoolOK /\ FixedOK /\ ScanOK
BY DEF TypeOK, BoolOK, FixedOK, ScanOK

LEMMA PartsNext == BoolOK' /\ FixedOK' /\ ScanOK' => TypeOK'
BY DEF TypeOK, BoolOK, FixedOK, ScanOK

\* A scan only tries values of its range.
InRange == at = "scan" => val \in 0..MaxLatency

LEMMA BeginScanType ==
    ASSUME NEW s \in Scans, NEW from \in -1..MaxLatency, NEW position \in Int,
           BeginScan(s, from, position)
    PROVE  /\ at' \in {"scan", "scanned"} /\ scanning' = s /\ val' = from
           /\ again' = Link /\ keep_latency_scan' = TRUE /\ BX0_position' = position
           /\ at' = "scan" => from \in 0..MaxLatency
BY DEF BeginScan

LEMMA TypeInit == Init => TypeOK /\ InRange
<1> SUFFICES ASSUME Init  PROVE TypeOK /\ InRange  OBVIOUS
<1>1. BoolOK  BY DEF Init, BoolOK
<1>2. FixedOK
  <2>1. offset \in Offsets  BY DEF Init, Offsets
  <2> QED  BY <2>1 DEF Init, FixedOK, None
<1>3. ScanOK
  <2>1. 0 \in 0..MaxLatency  BY SizeAssumption
  <2>2. reg \in [Capture -> [Link -> 0..MaxLatency]]  BY <2>1 DEF Init
  <2>3. at \in {"IO", "align"}  BY DEF Init
  <2> QED  BY <2>2, <2>3, SizeAssumption DEF Init, ScanOK, Scans, None
<1>4. InRange  BY DEF Init, InRange
<1> QED  BY <1>1, <1>2, <1>3, <1>4, Parts

-----------------------------------------------------------------------------
(***************************************************************************)
(* One pass of a scan                                                      *)
(***************************************************************************)

\* The registers a pass writes, and the rows it then finds.
Written == [l \in Link |-> IF l \in again THEN val ELSE reg[lcapture][l]]
Shown   == find_BX0(offset[lcapture], Written)

LEMMA PassType ==
    ASSUME TypeOK, InRange, at = "scan"
    PROVE  /\ lcapture \in Capture /\ Written \in [Link -> 0..MaxLatency]
           /\ Shown \in Rows
<1>1. lcapture \in Capture  BY DEF lcapture, Capture
<1>2. /\ reg \in [Capture -> [Link -> 0..MaxLatency]] /\ val \in 0..MaxLatency
      /\ offset \in Offsets
  BY DEF TypeOK, InRange
<1>3. Written \in [Link -> 0..MaxLatency]  BY <1>1, <1>2 DEF Written
<1>4. offset[lcapture] \in [Link -> 0..MaxOffset \cup {NoRow}]
  BY <1>1, <1>2 DEF Offsets
<1> QED  BY <1>1, <1>3, <1>4, RowsType DEF Shown

\* A pass that finds the word does what match_BX0 answers, any other raises.
LEMMA Pass ==
    ASSUME TypeOK, InRange, TryValue
    PROVE  /\ reg' = [reg EXCEPT ![lcapture] = Written]
           /\ \/ /\ Found(Shown)
                 /\ Judge(match_BX0(Shown, BX0_position),
                          IF scanning = "reverse" THEN val - 1 ELSE val + 1)
              \/ /\ at' = "raised"
                 /\ UNCHANGED << keep_latency_scan, again, BX0_position, val >>
BY DEF TryValue, Written, Shown

LEMMA TryValueType ==
    ASSUME TypeOK, InRange, TryValue
    PROVE  ScanOK' /\ keep_latency_scan' \in BOOLEAN /\ InRange'
<1>0. at = "scan" /\ UNCHANGED << io, bypass, offset, scanning, BX0_ASIC >>
  BY DEF TryValue
<1>1. /\ ScanOK /\ keep_latency_scan \in BOOLEAN /\ val \in 0..MaxLatency
  BY <1>0, Parts DEF BoolOK, InRange
<1>2. reg' \in [Capture -> [Link -> 0..MaxLatency]]
  BY <1>0, <1>1, PassType, Pass DEF ScanOK
<1>3. CASE at' = "raised" /\ UNCHANGED << keep_latency_scan, again, BX0_position, val >>
  <2>1. ScanOK'  BY <1>0, <1>1, <1>2, <1>3 DEF ScanOK, Ended
  <2>2. InRange'  BY <1>3 DEF InRange
  <2> QED  BY <1>1, <1>3, <2>1, <2>2
<1>4. CASE Judge(match_BX0(Shown, BX0_position),
                 IF scanning = "reverse" THEN val - 1 ELSE val + 1)
  <2> DEFINE r == match_BX0(Shown, BX0_position)
             next == IF scanning = "reverse" THEN val - 1 ELSE val + 1
  <2>1. Shown \in Rows /\ BX0_position \in Int  BY <1>0, <1>1, PassType DEF ScanOK
  <2>2. r.keep \in BOOLEAN /\ r.again \in SUBSET Link /\ r.position \in Int
    BY <2>1, MatchAnswer
  <2>3. next \in -1..(MaxLatency + 1)  BY <1>1, SizeAssumption
  <2> HIDE DEF r, next
  <2>4. Judge(r, next)  BY <1>4 DEF r, next
  <2>5. /\ keep_latency_scan' = r.keep /\ again' = r.again /\ BX0_position' = r.position
        /\ val' = next /\ at' = IF r.keep /\ next \in 0..MaxLatency THEN "scan" ELSE "scanned"
    BY <2>4 DEF Judge
  <2>6. at' \in {"scan", "scanned"}  BY <2>5
  <2>7. InRange'  BY <2>5 DEF InRange
  <2>8. ScanOK'  BY <1>0, <1>1, <1>2, <2>2, <2>3, <2>5, <2>6 DEF ScanOK
  <2> QED  BY <2>2, <2>5, <2>7, <2>8
<1> QED  BY <1>3, <1>4, Pass

LEMMA BeginScanOK ==
    ASSUME TypeOK, NEW s \in Scans, NEW from \in -1..MaxLatency, NEW position \in Int,
           BeginScan(s, from, position), UNCHANGED reg
    PROVE  ScanOK'
<1>1. /\ at' \in {"scan", "scanned"} /\ scanning' = s /\ val' = from /\ again' = Link
      /\ BX0_position' = position
  BY BeginScanType
<1>2. ScanOK  BY Parts
<1> QED  BY <1>1, <1>2, SizeAssumption DEF ScanOK

LEMMA AlignType ==
    ASSUME TypeOK, InRange, NEW where \in Offsets, Align(where) \/ AlignBypass(where)
    PROVE  (TypeOK /\ InRange)'
<1>0. BoolOK /\ FixedOK /\ ScanOK  BY Parts
<1>r. -1 \in Int /\ 0 \in -1..MaxLatency /\ StartBypass \in -1..MaxLatency /\ None \in Int
  BY SizeAssumption DEF None
<1>1. CASE Align(where)
  <2>1. BeginScan("ASIC", 0, None) /\ offset' = where /\ UNCHANGED << io, bypass, reg, BX0_ASIC >>
    BY <1>1 DEF Align
  <2>2. /\ at' \in {"scan", "scanned"} /\ scanning' = "ASIC" /\ val' = 0 /\ again' = Link
        /\ keep_latency_scan' = TRUE /\ BX0_position' = None
    BY <1>r, <2>1, BeginScanType DEF Scans
  <2>3. BoolOK'  BY <1>0, <2>1, <2>2 DEF BoolOK
  <2>4. FixedOK'  BY <1>0, <2>1 DEF FixedOK, io
  <2>5. ScanOK'  BY <1>r, <2>1, BeginScanOK DEF Scans
  <2>6. InRange'  BY <2>2, SizeAssumption DEF InRange
  <2> QED  BY <2>3, <2>4, <2>5, <2>6, PartsNext
<1>2. CASE AlignBypass(where)
  <2> DEFINE rows  == find_BX0(where["lc-ASIC"], reg["lc-ASIC"])
             found == match_BX0(rows, None).position
  <2>1. /\ offset' = where /\ UNCHANGED << io, bypass, reg >>
        /\ \/ BX0_ASIC' = found /\ BeginScan("emulator", StartBypass, found)
           \/ at' = "raised" /\ UNCHANGED << BX0_ASIC, scan >>
    BY <1>2 DEF AlignBypass
  <2>2. found \in Int
    <3>1. "lc-ASIC" \in Capture  BY DEF Capture
    <3>2. where["lc-ASIC"] \in [Link -> 0..MaxOffset \cup {NoRow}]  BY <3>1 DEF Offsets
    <3>3. reg["lc-ASIC"] \in [Link -> 0..MaxLatency]  BY <3>1, <1>0 DEF ScanOK
    <3>4. rows \in Rows  BY <3>2, <3>3, RowsType
    <3> QED  BY <3>4, <1>r, MatchAnswer
  <2> HIDE DEF found
  <2>3. CASE BX0_ASIC' = found /\ BeginScan("emulator", StartBypass, found)
    <3>1. /\ at' \in {"scan", "scanned"} /\ scanning' = "emulator" /\ val' = StartBypass
          /\ again' = Link /\ keep_latency_scan' = TRUE /\ BX0_position' = found
      BY <1>r, <2>2, <2>3, BeginScanType DEF Scans
    <3>2. BoolOK'  BY <1>0, <2>1, <3>1 DEF BoolOK
    <3>3. FixedOK'  BY <1>0, <2>1, <2>2, <2>3 DEF FixedOK, io
    <3>4. ScanOK'  BY <1>r, <2>1, <2>2, <2>3, BeginScanOK DEF Scans
    <3>5. InRange'  BY <3>1, SizeAssumption DEF InRange
    <3> QED  BY <3>2, <3>3, <3>4, <3>5, PartsNext
  <2>4. CASE at' = "raised" /\ UNCHANGED << BX0_ASIC, scan >>
    <3>1. BoolOK'  BY <1>0, <2>1, <2>4 DEF BoolOK, scan
    <3>2. FixedOK'  BY <1>0, <2>1, <2>4 DEF FixedOK, io
    <3>3. ScanOK'  BY <1>0, <2>1, <2>4 DEF ScanOK, scan, Ended
    <3>4. InRange'  BY <2>4 DEF InRange
    <3> QED  BY <3>1, <3>2, <3>3, <3>4, PartsNext
  <2> QED  BY <2>1, <2>3, <2>4
<1> QED  BY <1>1, <1>2

\* A scan that one of the Found actions begins.
LEMMA AnotherScanType ==
    ASSUME TypeOK, InRange, NEW s \in Scans, NEW from \in -1..MaxLatency,
           NEW position \in Int, BeginScan(s, from, position),
           UNCHANGED << io, bypass, offset, reg >>, BX0_ASIC' \in Int
    PROVE  (TypeOK /\ InRange)'
<1>0. BoolOK /\ FixedOK /\ ScanOK  BY Parts
<1>1. /\ at' \in {"scan", "scanned"} /\ scanning' = s /\ val' = from /\ again' = Link
      /\ keep_latency_scan' = TRUE /\ BX0_position' = position
      /\ at' = "scan" => from \in 0..MaxLatency
  BY BeginScanType
<1>2. BoolOK'  BY <1>0, <1>1 DEF BoolOK
<1>3. FixedOK'  BY <1>0 DEF FixedOK, io
<1>4. ScanOK'  BY BeginScanOK
<1>5. InRange'  BY <1>1 DEF InRange
<1> QED  BY <1>2, <1>3, <1>4, <1>5, PartsNext

\* Where else the program may go, with the variables of the scan unchanged.
LEMMA GoOnType ==
    ASSUME TypeOK, UNCHANGED << io, bypass, offset, reg, scan >>, BX0_ASIC' \in Int,
           at' \in {"compare"} \cup Ended
    PROVE  (TypeOK /\ InRange)'
<1>0. BoolOK /\ FixedOK /\ ScanOK  BY Parts
<1>1. BoolOK'  BY <1>0 DEF BoolOK, scan
<1>2. FixedOK'  BY <1>0 DEF FixedOK, io
<1>3. ScanOK'  BY <1>0 DEF ScanOK, scan
<1>4. InRange'  BY DEF InRange, Ended
<1> QED  BY <1>1, <1>2, <1>3, <1>4, PartsNext

LEMMA TypeStep == TypeOK /\ InRange /\ [Next]_vars => (TypeOK /\ InRange)'
<1> SUFFICES ASSUME TypeOK, InRange, [Next]_vars  PROVE (TypeOK /\ InRange)'  OBVIOUS
<1>0. BoolOK /\ FixedOK /\ ScanOK  BY Parts
<1>r. 0 \in -1..MaxLatency /\ (IF bypass THEN StartBypass ELSE 0) - 1 \in -1..MaxLatency
  BY SizeAssumption
<1>a. BX0_ASIC \in Int /\ BX0_position \in Int  BY <1>0 DEF FixedOK, ScanOK
<1>b. Return \in {"compare"} \cup Ended  BY DEF Return, Ended
<1>1. ASSUME NEW ok \in BOOLEAN, CheckIO(ok)  PROVE (TypeOK /\ InRange)'
  <2>1. /\ at' \in {"IO", "links", "not aligned"} /\ phase' \in {0, 4} /\ failed' \subseteq {0, 4}
        /\ UNCHANGED << bypass, offset, reg, scan, BX0_ASIC >>
    BY <1>0, <1>1 DEF CheckIO, FixedOK
  <2>2. BoolOK'  BY <1>0, <2>1 DEF BoolOK, scan
  <2>3. FixedOK'  BY <1>0, <2>1 DEF FixedOK
  <2>4. ScanOK'  BY <1>0, <2>1 DEF ScanOK, scan, Ended
  <2>5. InRange'  BY <2>1 DEF InRange
  <2> QED  BY <2>2, <2>3, <2>4, <2>5, PartsNext
<1>2. ASSUME NEW ok \in BOOLEAN, CheckLinks(ok)  PROVE (TypeOK /\ InRange)'
  <2>1. /\ at' \in {"IO", "align"} /\ phase' \in {0, 4} /\ failed' \subseteq {0, 4}
        /\ reg' = [lc \in Capture |-> [l \in Link |-> 0]]
        /\ UNCHANGED << bypass, offset, scan, BX0_ASIC >>
    BY <1>0, <1>2 DEF CheckLinks, FixedOK
  <2>2. BoolOK'  BY <1>0, <2>1 DEF BoolOK, scan
  <2>3. FixedOK'  BY <1>0, <2>1 DEF FixedOK
  <2>4. 0 \in 0..MaxLatency  BY SizeAssumption
  <2>5. reg' \in [Capture -> [Link -> 0..MaxLatency]]  BY <2>1, <2>4
  <2>6. ScanOK'  BY <1>0, <2>1, <2>5 DEF ScanOK, scan
  <2>7. InRange'  BY <2>1 DEF InRange
  <2> QED  BY <2>2, <2>3, <2>6, <2>7, PartsNext
<1>3. ASSUME NEW where \in Offsets, Align(where) \/ AlignBypass(where)
      PROVE  (TypeOK /\ InRange)'
  BY <1>3, AlignType
<1>4. ASSUME TryValue  PROVE (TypeOK /\ InRange)'
  <2>1. ScanOK' /\ keep_latency_scan' \in BOOLEAN /\ InRange'  BY <1>4, TryValueType
  <2>2. UNCHANGED << io, bypass, offset, BX0_ASIC >>  BY <1>4 DEF TryValue
  <2>3. BoolOK'  BY <1>0, <2>1, <2>2 DEF BoolOK
  <2>4. FixedOK'  BY <1>0, <2>2 DEF FixedOK, io
  <2> QED  BY <2>1, <2>3, <2>4, PartsNext
<1>5. ASSUME FoundASIC  PROVE (TypeOK /\ InRange)'
  <2>1. /\ UNCHANGED << io, bypass, offset, reg >>
        /\ \/ at' = "exited" /\ UNCHANGED << scan, BX0_ASIC >>
           \/ BX0_ASIC' = BX0_position /\ BeginScan("emulator", 0, BX0_position)
    BY <1>5 DEF FoundASIC
  <2>2. CASE at' = "exited" /\ UNCHANGED << scan, BX0_ASIC >>
    BY <1>a, <2>1, <2>2, GoOnType DEF Ended
  <2>3. CASE BX0_ASIC' = BX0_position /\ BeginScan("emulator", 0, BX0_position)
    BY <1>a, <1>r, <2>1, <2>3, AnotherScanType DEF Scans
  <2> QED  BY <2>1, <2>2, <2>3
<1>6. ASSUME FoundEmulator  PROVE (TypeOK /\ InRange)'
  <2> DEFINE below == (IF bypass THEN StartBypass ELSE 0) - 1
  <2>1. /\ UNCHANGED << io, bypass, offset, reg, BX0_ASIC >>
        /\ \/ at' \in {Return, "raised"} /\ UNCHANGED scan
           \/ BeginScan("ASIC again", 0, BX0_position)
           \/ BeginScan("reverse", below, BX0_ASIC)
    BY <1>6 DEF FoundEmulator
  <2>r. below \in -1..MaxLatency  BY <1>r
  <2> HIDE DEF below
  <2>2. CASE at' \in {Return, "raised"} /\ UNCHANGED scan
    <3>1. at' \in {"compare"} \cup Ended  BY <1>b, <2>2 DEF Ended
    <3> QED  BY <1>a, <2>1, <2>2, <3>1, GoOnType
  <2>3. CASE BeginScan("ASIC again", 0, BX0_position)
    BY <1>a, <1>r, <2>1, <2>3, AnotherScanType DEF Scans
  <2>4. CASE BeginScan("reverse", below, BX0_ASIC)
    BY <1>a, <2>r, <2>1, <2>4, AnotherScanType DEF Scans
  <2> QED  BY <2>1, <2>2, <2>3, <2>4
<1>7. ASSUME FoundASICAgain \/ FoundReverse \/ Compare  PROVE (TypeOK /\ InRange)'
  <2>1. /\ UNCHANGED << io, bypass, offset, reg, scan >> /\ BX0_ASIC' \in Int
        /\ at' \in {Return, "exited", "done"}
    BY <1>7, <1>a DEF FoundASICAgain, FoundReverse, Compare
  <2>2. at' \in {"compare"} \cup Ended  BY <1>b, <2>1 DEF Ended
  <2> QED  BY <2>1, <2>2, GoOnType
<1>8. CASE UNCHANGED vars
  <2>1. BoolOK'  BY <1>0, <1>8 DEF BoolOK, vars, scan
  <2>2. FixedOK'  BY <1>0, <1>8 DEF FixedOK, vars, io
  <2>3. ScanOK'  BY <1>0, <1>8 DEF ScanOK, vars, scan
  <2>4. InRange'  BY <1>8 DEF InRange, vars, scan
  <2> QED  BY <2>1, <2>2, <2>3, <2>4, PartsNext
<1> QED  BY <1>1, <1>2, <1>3, <1>4, <1>5, <1>6, <1>7, <1>8 DEF Next

LEMMA InRangeAlways == Spec => [](TypeOK /\ InRange)
BY TypeInit, TypeStep, PTL DEF Spec

\* No latency out of range is ever written, whatever the links show.
THEOREM TypeCorrect == Spec => []TypeOK
BY InRangeAlways, PTL

-----------------------------------------------------------------------------
(***************************************************************************)
(* Both phases of enable                                                   *)
(***************************************************************************)

\* While the phases are tried, 4 comes after 0 has failed, and a phase that is
\* looked at has not failed yet.
PhaseInOrder ==
    /\ phase = 4 => 0 \in failed
    /\ phase = 0 => 4 \notin failed
    /\ at \in {"IO", "links"} => phase \notin failed
    /\ bypass => failed = {} /\ at \notin {"IO", "links"}

PhaseInv == PhaseInOrder /\ BothPhasesTried

LEMMA PhaseStep == TypeOK /\ PhaseInv /\ [Next]_vars => PhaseInv'
<1> SUFFICES ASSUME TypeOK, PhaseInv, [Next]_vars  PROVE PhaseInv'  OBVIOUS
<1>0. phase \in {0, 4} /\ failed \subseteq {0, 4}  BY DEF TypeOK
<1> USE DEF PhaseInv, PhaseInOrder, BothPhasesTried
<1>1. ASSUME NEW ok \in BOOLEAN, CheckIO(ok)  PROVE PhaseInv'
  <2>1. CASE ok  BY <1>0, <1>1, <2>1 DEF CheckIO
  <2>2. CASE ~ok /\ phase = 4  BY <1>0, <1>1, <2>2 DEF CheckIO
  <2>3. CASE ~ok /\ phase = 0  BY <1>0, <1>1, <2>3 DEF CheckIO
  <2> QED  BY <1>0, <2>1, <2>2, <2>3
<1>2. ASSUME NEW ok \in BOOLEAN, CheckLinks(ok)  PROVE PhaseInv'
  <2>1. CASE ok  BY <1>0, <1>2, <2>1 DEF CheckLinks
  <2>2. CASE ~ok /\ phase = 4  BY <1>0, <1>2, <2>2 DEF CheckLinks
  <2>3. CASE ~ok /\ phase = 0  BY <1>0, <1>2, <2>3 DEF CheckLinks
  <2> QED  BY <1>0, <2>1, <2>2, <2>3
<1>3. ASSUME UNCHANGED << io, bypass >>, at \notin {"IO", "links"}, at' \notin {"IO", "links"}
      PROVE  PhaseInv'
  BY <1>3 DEF io
<1>4. ASSUME \/ \E where \in Offsets : Align(where) \/ AlignBypass(where)
             \/ TryValue
             \/ FoundASIC \/ FoundEmulator \/ FoundASICAgain \/ FoundReverse \/ Compare
      PROVE  /\ UNCHANGED << io, bypass >> /\ at \notin {"IO", "links"}
             /\ at' \notin {"IO", "links"}
  BY <1>4 DEF Align, AlignBypass, TryValue, Judge, FoundASIC, FoundEmulator, FoundASICAgain,
              FoundReverse, Compare, BeginScan, Return
<1>5. CASE UNCHANGED vars  BY <1>5 DEF vars, io
<1> QED  BY <1>1, <1>2, <1>3, <1>4, <1>5 DEF Next

\* Links that are not aligned are only scanned when no phase of enable aligns them.
THEOREM PhasesTried == Spec => []BothPhasesTried
<1>1. Init => PhaseInv
  BY DEF Init, PhaseInv, PhaseInOrder, BothPhasesTried
<1> QED  BY <1>1, PhaseStep, TypeCorrect, PTL DEF Spec, PhaseInv

-----------------------------------------------------------------------------
(***************************************************************************)
(* A scan that stops                                                       *)
(***************************************************************************)

\* What a pass leaves behind is what match_BX0 has looked at.
LEMMA ShownAfterPass ==
    ASSUME TypeOK, InRange, TryValue
    PROVE  /\ lcapture' = lcapture
           /\ \A o \in 0..1, l \in Link :
                ShownAt(lcapture, o, l)' = Shown[o][l]
<1>0. at = "scan" /\ UNCHANGED << offset, scanning >>  BY DEF TryValue
<1>1. lcapture' = lcapture  BY <1>0 DEF lcapture
<1>2. lcapture \in Capture /\ Written \in [Link -> 0..MaxLatency]  BY <1>0, PassType
<1>3. reg' = [reg EXCEPT ![lcapture] = Written]  BY Pass
<1>4. reg \in [Capture -> [Link -> 0..MaxLatency]]  BY DEF TypeOK
<1>5. reg'[lcapture] = Written  BY <1>2, <1>3, <1>4
<1>6. ASSUME NEW o \in 0..1, NEW l \in Link
      PROVE  ShownAt(lcapture, o, l)' = Shown[o][l]
  <2>1. ShownAt(lcapture, o, l)' = Row(o, offset[lcapture][l], Written[l])
    BY <1>0, <1>1, <1>5 DEF ShownAt, Row
  <2>2. Shown[o][l] = Row(o, offset[lcapture][l], Written[l])
    BY DEF Shown, find_BX0
  <2> QED  BY <2>1, <2>2
<1> QED  BY <1>1, <1>6

LEMMA StoppedStep ==
    TypeOK /\ InRange /\ StoppedScanMeets /\ [Next]_vars => StoppedScanMeets'
<1> SUFFICES ASSUME TypeOK, InRange, StoppedScanMeets, [Next]_vars
             PROVE  StoppedScanMeets'
  OBVIOUS
<1>1. CASE TryValue
  <2> SUFFICES ASSUME at' = "scanned", ~keep_latency_scan'
               PROVE  (\E o \in 0..1 : \A l \in Link : ShownAt(lcapture, o, l) = BX0_position)'
    BY DEF StoppedScanMeets
  <2> DEFINE r == match_BX0(Shown, BX0_position)
  <2>0. at = "scan"  BY <1>1 DEF TryValue
  <2>1. keep_latency_scan' = r.keep /\ BX0_position' = r.position
    BY <1>1, Pass DEF Judge
  <2>2. Shown \in Rows /\ BX0_position \in Int  BY <2>0, PassType DEF TypeOK
  <2>3. ~r.keep => \E o \in 0..1 : \A l \in Link : Shown[o][l] = r.position
    BY <2>2, MatchAnswer
  <2> HIDE DEF r
  <2>4. PICK o \in 0..1 : \A l \in Link : Shown[o][l] = BX0_position'
    BY <2>1, <2>3
  <2>5. \A l \in Link : ShownAt(lcapture, o, l)' = BX0_position'
    BY <1>1, <2>4, ShownAfterPass
  <2> QED  BY <2>5
<1>2. ASSUME ~TryValue, Next  PROVE at' # "scanned" \/ keep_latency_scan'
  BY <1>2 DEF Next, CheckIO, CheckLinks, Align, AlignBypass, BeginScan, FoundASIC, FoundEmulator,
              FoundASICAgain, FoundReverse, Return, Compare
<1>3. CASE UNCHANGED vars
  BY <1>3 DEF StoppedScanMeets, ShownAt, lcapture, vars, scan
<1> QED  BY <1>1, <1>2, <1>3 DEF StoppedScanMeets

\* Whenever scan_latency stops by itself, all links are in the row it returns.
THEOREM StoppedMeets == Spec => []StoppedScanMeets
<1>1. Init => StoppedScanMeets  BY DEF Init, StoppedScanMeets
<1> QED  BY <1>1, StoppedStep, InRangeAlways, PTL DEF Spec

-----------------------------------------------------------------------------
(***************************************************************************)
(* Links in reach of the late ones                                         *)
(***************************************************************************)

A == offset["lc-ASIC"]

\* The late links are there, and nobody is later.
LEMMA Reach ==
    ASSUME TypeOK, InReach
    PROVE  /\ Late \in Nat /\ Late < Depth
           /\ \E l \in Link : A[l] = Late
           /\ \A l \in Link : A[l] \in Nat /\ A[l] <= Late /\ Late - A[l] <= MaxLatency
<1>1. 1 \in Link  BY SizeAssumption DEF Link
<1>2. A[1] = Late \/ \E k \in Link : A[k] = Late  BY DEF InReach, A
<1>3. \E l \in Link : A[l] = Late  BY <1>1, <1>2
<1>4. \A l \in Link : A[l] \in 0..Late /\ Late - A[l] <= MaxLatency  BY DEF InReach, A
<1>5. Late \in Int
  <2>1. "lc-ASIC" \in Capture  BY DEF Capture
  <2>2. A \in [Link -> 0..MaxOffset \cup {NoRow}]  BY <2>1 DEF TypeOK, Offsets, A
  <2>3. 0..MaxOffset \cup {NoRow} \subseteq Int  BY SizeAssumption DEF NoRow
  <2> QED  BY <1>3, <2>2, <2>3
<1>6. \A l \in Link : A[l] \in Nat /\ A[l] <= Late  BY <1>4, <1>5
<1>7. Late < Depth  BY DEF InReach
<1> QED  BY <1>3, <1>4, <1>6, <1>7

\* The scan of the ASIC: before its first value; while links wait; at its end.  A
\* link that does not wait is there, or sits out the second value.
BeforeScan == at = "scan" /\ val = 0 /\ again = Link /\ BX0_position = None
There(l) == reg["lc-ASIC"][l] = Late - A[l]
SitsOut(l) == val = 1 /\ A[l] + 2 <= Late /\ reg["lc-ASIC"][l] = 0
Waiting ==
    /\ at = "scan" /\ val >= 1 /\ BX0_position = Late /\ again # {}
    /\ \A l \in again : A[l] + val <= Late
    /\ \A l \in Link \ again : There(l) \/ SitsOut(l)
Met ==
    /\ at = "scanned" /\ ~keep_latency_scan /\ BX0_position = Late
    /\ \A l \in Link : There(l)

ReachInv ==
    scanning = "ASIC" /\ at \in {"scan", "scanned"} /\ InReach =>
        BeforeScan \/ Waiting \/ Met

\* If the first orbit shows the word, and every link has it in the reference row or
\* earlier, or the first link gives the reference, the first orbit decides.
LEMMA FirstOrbit ==
    ASSUME NEW rows \in Rows, NEW position \in Int, NEW ref \in Nat,
           position = None => ref = rows[0][1], position # None => ref = position,
           \E l \in Link : rows[0][l] = ref
    PROVE  \/ InRow(rows[0], ref) = Link /\ match_BX0(rows, position) = Verdict(FALSE, {}, ref)
           \/ \E k \in Link \ InRow(rows[0], ref) :
                /\ FirstOther(rows[0], ref, k) /\ rows[0][k] > ref
                /\ match_BX0(rows, position) = Verdict(TRUE, InRow(rows[0], ref), rows[0][k])
           \/ \E k \in Link \ InRow(rows[0], ref) :
                /\ FirstOther(rows[0], ref, k) /\ rows[0][k] <= ref
                /\ match_BX0(rows, position) = Verdict(TRUE, Link \ InRow(rows[0], ref), ref)
<1> DEFINE row == rows[0]
           AtRef == InRow(row, ref)
           first == MatchOrbit(row, ref)
<1>0. row \in [Link -> Int] /\ ref \in Int  BY DEF Rows
<1>1. match_BX0(rows, position) = IF first # NoVerdict THEN first ELSE MatchOrbit(rows[1], ref)
  BY DEF match_BX0
<1>2. AtRef # {}  BY DEF InRow
<1>3. \/ AtRef = Link /\ first = Verdict(FALSE, {}, ref)
      \/ \E k \in Link \ AtRef : /\ FirstOther(row, ref, k) /\ row[k] > ref
                                /\ first = Verdict(TRUE, AtRef, row[k])
      \/ \E k \in Link \ AtRef : /\ FirstOther(row, ref, k) /\ row[k] <= ref
                                /\ first = Verdict(TRUE, Link \ AtRef, ref)
  <2> HIDE DEF row
  <2> QED  BY <1>0, <1>2, OrbitCases
<1>4. \A keep, links, p : p # None => Verdict(keep, links, p) # NoVerdict
  <2> SUFFICES ASSUME NEW keep, NEW links, NEW p, p # None
               PROVE  Verdict(keep, links, p) # NoVerdict
    OBVIOUS
  <2>1. NoVerdict.position = None  BY DEF NoVerdict, Verdict
  <2>2. Verdict(keep, links, p).position = p  BY DEF Verdict
  <2> QED  BY <2>1, <2>2
<1>5. ref # None  BY DEF None
<1>6. \A k \in Link \ AtRef : row[k] > ref => row[k] # None  BY <1>0 DEF None
<1>7. first # NoVerdict
  <2> HIDE DEF row, first, AtRef
  <2> QED  BY <1>3, <1>4, <1>5, <1>6
<1> QED  BY <1>1, <1>3, <1>7

\* The rows that a pass of the scan of the ASIC finds in the first orbit.
LEMMA FirstRows ==
    ASSUME TypeOK, InRange, at = "scan", scanning = "ASIC", NEW l \in Link,
           A[l] \in Nat, A[l] + Written[l] < Depth
    PROVE  Shown[0][l] = A[l] + Written[l]
<1>1. Written[l] \in Nat  BY PassType, SizeAssumption
<1>2. Shown[0][l] = Row(0, A[l], Written[l])
  BY DEF Shown, find_BX0, A, lcapture
<1>3. 0 * Orbit = 0  BY SizeAssumption
<1> QED  BY <1>1, <1>2, <1>3, SizeAssumption DEF Row, NoRow

\* What a pass of the scan of the ASIC changes.
LEMMA PassOfASIC ==
    ASSUME TypeOK, InRange, TryValue, scanning = "ASIC", Found(Shown),
           NEW keep, NEW links, NEW position,
           match_BX0(Shown, BX0_position) = Verdict(keep, links, position)
    PROVE  /\ keep_latency_scan' = keep /\ again' = links /\ BX0_position' = position
           /\ val' = val + 1 /\ reg'["lc-ASIC"] = Written
           /\ at' = IF keep /\ val + 1 \in 0..MaxLatency THEN "scan" ELSE "scanned"
           /\ offset' = offset /\ scanning' = scanning
<1>1. at = "scan" /\ UNCHANGED << offset, scanning >>  BY DEF TryValue
<1>2. /\ reg' = [reg EXCEPT ![lcapture] = Written]
      /\ Judge(match_BX0(Shown, BX0_position), val + 1)
  BY DEF TryValue, Written, Shown
<1>3. /\ Verdict(keep, links, position).keep = keep
      /\ Verdict(keep, links, position).again = links
      /\ Verdict(keep, links, position).position = position
  BY DEF Verdict
<1>4. "lc-ASIC" \in Capture /\ lcapture = "lc-ASIC"  BY DEF Capture, lcapture
<1>5. reg'["lc-ASIC"] = Written  BY <1>2, <1>4 DEF TypeOK
<1> QED  BY <1>1, <1>2, <1>3, <1>5 DEF Judge

\* The first pass: every link shows the row it starts in, and the late one becomes
\* the reference.
LEMMA FirstPass ==
    ASSUME TypeOK, InRange, InReach, TryValue, scanning = "ASIC", BeforeScan
    PROVE  Waiting' \/ Met'
<1>0. at = "scan"  BY DEF BeforeScan
<1>1. /\ Late \in Nat /\ Late < Depth /\ \E l \in Link : A[l] = Late
      /\ \A l \in Link : A[l] \in Nat /\ A[l] <= Late /\ Late - A[l] <= MaxLatency
  BY Reach
<1>2. \A l \in Link : A[l] < Depth  BY <1>1, SizeAssumption
<1>3. \A l \in Link : Written[l] = 0  BY DEF Written, BeforeScan
<1>4. \A l \in Link : Shown[0][l] = A[l]
  BY <1>0, <1>1, <1>2, <1>3, FirstRows, SizeAssumption
<1>5. 1 \in Link  BY SizeAssumption DEF Link
<1>6. Found(Shown) /\ BX0_position = None /\ val = 0
  BY <1>1, <1>4, <1>5 DEF Found, NoRow, BeforeScan
<1>7. PICK ref \in Nat : ref = A[1]  BY <1>1, <1>5
<1> DEFINE AtRef == InRow(Shown[0], ref)
           m == match_BX0(Shown, BX0_position)
<1>8. \/ AtRef = Link /\ m = Verdict(FALSE, {}, ref)
      \/ \E k \in Link \ AtRef : /\ FirstOther(Shown[0], ref, k) /\ Shown[0][k] > ref
                                 /\ m = Verdict(TRUE, AtRef, Shown[0][k])
      \/ \E k \in Link \ AtRef : /\ FirstOther(Shown[0], ref, k) /\ Shown[0][k] <= ref
                                 /\ m = Verdict(TRUE, Link \ AtRef, ref)
  <2>1. Shown \in Rows /\ BX0_position \in Int  BY <1>0, PassType DEF TypeOK
  <2>2. ref \in Nat /\ Shown[0][1] = ref  BY <1>4, <1>5, <1>7
  <2>3. BX0_position = None /\ ref = Shown[0][1]  BY <1>6, <2>2
  <2>4. \E l \in Link : Shown[0][l] = ref  BY <1>5, <2>2
  <2> QED  BY <2>1, <2>2, <2>3, <2>4, FirstOrbit
<1> HIDE DEF m
<1>a. AtRef = {k \in Link : A[k] = ref}  BY <1>4 DEF InRow
<1> HIDE DEF AtRef
<1>b. offset' = offset => A' = A /\ Late' = Late  BY DEF A, Late
<1>c. ASSUME NEW k \in Link \ AtRef, FirstOther(Shown[0], ref, k), A[1] # Late
      PROVE  A[k] = Late
  <2>1. PICK late \in Link : A[late] = Late /\ \A l \in 1..(late - 1) : A[l] = A[1]
    BY <1>c DEF InReach, A
  <2>2. \A l \in 1..(k - 1) : l \in Link  BY SizeAssumption DEF Link
  <2>3. A[k] # ref /\ \A l \in 1..(k - 1) : A[l] = ref  BY <1>4, <1>c, <2>2 DEF FirstOther
  <2>4. k \in Nat \ {0} /\ late \in Nat \ {0}  BY DEF Link
  <2>5. ~(k < late)
    <3> SUFFICES ASSUME k < late  PROVE FALSE  OBVIOUS
    <3>1. k \in 1..(late - 1)  BY <2>4
    <3> QED  BY <1>7, <2>1, <2>3, <3>1
  <2>6. ~(late < k)
    <3> SUFFICES ASSUME late < k  PROVE FALSE  OBVIOUS
    <3>1. late \in 1..(k - 1)  BY <2>4
    <3> QED  BY <1>7, <1>c, <2>1, <2>3, <3>1
  <2>7. k = late  BY <2>4, <2>5, <2>6
  <2> QED  BY <2>1, <2>7
<1>d. CASE AtRef = Link /\ m = Verdict(FALSE, {}, ref)
  <2>1. ref = Late /\ \A l \in Link : A[l] = Late  BY <1>1, <1>a, <1>d
  <2>2. /\ keep_latency_scan' = FALSE /\ BX0_position' = Late /\ at' = "scanned"
        /\ reg'["lc-ASIC"] = Written /\ offset' = offset
    BY <1>6, <1>d, <2>1, PassOfASIC DEF m
  <2>3. \A l \in Link : There(l)'  BY <1>1, <1>3, <1>b, <2>1, <2>2 DEF There
  <2> QED  BY <1>b, <2>2, <2>3 DEF Met
<1>e. ASSUME NEW k \in Link \ AtRef, FirstOther(Shown[0], ref, k), Shown[0][k] > ref,
             m = Verdict(TRUE, AtRef, Shown[0][k])
      PROVE  Waiting'
  <2>1. ref < Late /\ Shown[0][k] = Late
    <3>1. A[1] # Late  BY <1>1, <1>4, <1>7, <1>e
    <3>2. A[k] = Late  BY <1>c, <1>e, <3>1
    <3> QED  BY <1>4, <1>e, <3>2
  <2>2. val + 1 = 1 /\ 1 \in 0..MaxLatency
    BY <1>1, <1>5, <1>6, <1>7, <2>1, SizeAssumption
  <2>3. /\ BX0_position' = Late /\ at' = "scan" /\ val' = 1 /\ again' = AtRef
        /\ reg'["lc-ASIC"] = Written /\ offset' = offset
    BY <1>6, <1>e, <2>1, <2>2, PassOfASIC DEF m
  <2>4. AtRef # {} /\ \A l \in AtRef : A[l] + 1 <= Late
    BY <1>1, <1>5, <1>7, <1>a, <2>1
  <2>5. ASSUME NEW l \in Link \ AtRef  PROVE There(l)' \/ SitsOut(l)'
    <3>1. A[l] # Late - 1
      <4>1. \A i \in Link : A[i] = Late - 1 => A[1] = Late - 1
        BY <1>7, <2>1 DEF InReach, A
      <4> QED  BY <1>7, <1>a, <2>5, <4>1
    <3>2. A[l] = Late \/ A[l] + 2 <= Late
      <4>1. A[l] \in Nat /\ A[l] <= Late /\ Late \in Nat  BY <1>1
      <4> QED  BY <3>1, <4>1
    <3>3. reg'["lc-ASIC"][l] = 0  BY <1>3, <2>3
    <3> QED  BY <1>1, <1>b, <2>3, <3>2, <3>3 DEF There, SitsOut
  <2> QED  BY <1>b, <2>3, <2>4, <2>5 DEF Waiting
<1>f. ASSUME NEW k \in Link \ AtRef, FirstOther(Shown[0], ref, k), Shown[0][k] <= ref,
             m = Verdict(TRUE, Link \ AtRef, ref)
      PROVE  Waiting'
  <2>1. A[k] < ref  BY <1>1, <1>4, <1>7, <1>f DEF FirstOther
  <2>2. ref = Late
    <3>1. A[1] # Late => A[k] = Late  BY <1>c, <1>f
    <3> QED  BY <1>1, <1>5, <1>7, <2>1, <3>1
  <2>3. val + 1 = 1 /\ 1 \in 0..MaxLatency
    BY <1>1, <1>6, <2>1, <2>2, SizeAssumption
  <2>4. /\ BX0_position' = Late /\ at' = "scan" /\ val' = 1 /\ again' = Link \ AtRef
        /\ reg'["lc-ASIC"] = Written /\ offset' = offset
    BY <1>6, <1>f, <2>2, <2>3, PassOfASIC DEF m
  <2>5. \A l \in Link \ AtRef : A[l] + 1 <= Late  BY <1>1, <1>a, <2>2
  <2>6. ASSUME NEW l \in Link \ again'  PROVE There(l)'
    <3>1. l \in AtRef  BY <2>4
    <3>2. A[l] = Late /\ reg'["lc-ASIC"][l] = 0  BY <1>3, <1>a, <2>2, <2>4, <3>1
    <3> QED  BY <1>1, <1>b, <2>4, <3>2 DEF There
  <2> QED  BY <1>b, <1>f, <2>4, <2>5, <2>6 DEF Waiting
<1> QED  BY <1>8, <1>d, <1>e, <1>f

\* Every later pass: those that wait have come one row nearer, and those that sat
\* out two.
LEMMA NextPass ==
    ASSUME TypeOK, InRange, InReach, TryValue, scanning = "ASIC", Waiting
    PROVE  Waiting' \/ Met'
<1>0. at = "scan" /\ val \in 0..MaxLatency /\ val \in Nat /\ val >= 1 /\ BX0_position = Late
  BY SizeAssumption DEF Waiting, InRange
<1>1. /\ Late \in Nat /\ Late < Depth /\ \E l \in Link : A[l] = Late
      /\ \A l \in Link : A[l] \in Nat /\ A[l] <= Late /\ Late - A[l] <= MaxLatency
  BY Reach
<1>2. again \subseteq Link  BY DEF TypeOK
<1>3. /\ \A l \in again : Written[l] = val
      /\ \A l \in Link \ again : Written[l] = reg["lc-ASIC"][l]
  BY <1>2 DEF Written, lcapture
<1>4. \A l \in Link :
        /\ Written[l] \in Nat /\ A[l] + Written[l] <= Late
        /\ A[l] + Written[l] # Late => A[l] + val + 1 <= Late
  <2> SUFFICES ASSUME NEW l \in Link
               PROVE  /\ Written[l] \in Nat /\ A[l] + Written[l] <= Late
                      /\ A[l] + Written[l] # Late => A[l] + val + 1 <= Late
    OBVIOUS
  <2>1. CASE l \in again
    <3>1. Written[l] = val /\ A[l] + val <= Late  BY <1>3, <2>1 DEF Waiting
    <3> QED  BY <1>0, <1>1, <3>1
  <2>2. CASE l \notin again
    <3>1. Written[l] = reg["lc-ASIC"][l] /\ (There(l) \/ SitsOut(l))  BY <1>3, <2>2 DEF Waiting
    <3>2. CASE There(l)  BY <1>1, <3>1, <3>2 DEF There
    <3>3. CASE SitsOut(l)  BY <1>1, <3>1, <3>3 DEF SitsOut
    <3> QED  BY <3>1, <3>2, <3>3
  <2> QED  BY <2>1, <2>2
<1>5. \A l \in Link : Shown[0][l] = A[l] + Written[l]
  BY <1>0, <1>1, <1>4, FirstRows, SizeAssumption
<1>6. 1 \in Link  BY SizeAssumption DEF Link
<1>7. Found(Shown)
  BY <1>1, <1>4, <1>5, <1>6 DEF Found, NoRow
<1>8. \E l \in Link : Shown[0][l] = Late
  <2>1. PICK l \in Link : A[l] = Late  BY <1>1
  <2>2. Written[l] \in Nat /\ A[l] + Written[l] <= Late /\ Late \in Nat  BY <1>1, <1>4
  <2>3. A[l] + Written[l] = Late  BY <2>1, <2>2
  <2> QED  BY <1>5, <2>3
<1> DEFINE AtRef == InRow(Shown[0], Late)
           m == match_BX0(Shown, BX0_position)
<1>a. \/ AtRef = Link /\ m = Verdict(FALSE, {}, Late)
      \/ \E k \in Link \ AtRef : /\ FirstOther(Shown[0], Late, k) /\ Shown[0][k] > Late
                                 /\ m = Verdict(TRUE, AtRef, Shown[0][k])
      \/ \E k \in Link \ AtRef : /\ FirstOther(Shown[0], Late, k) /\ Shown[0][k] <= Late
                                 /\ m = Verdict(TRUE, Link \ AtRef, Late)
  <2>1. Shown \in Rows /\ BX0_position \in Int  BY <1>0, PassType DEF TypeOK
  <2>2. BX0_position # None /\ Late = BX0_position  BY <1>0, <1>1 DEF None
  <2> QED  BY <1>1, <1>8, <2>1, <2>2, FirstOrbit
<1> HIDE DEF m
<1>b. offset' = offset => A' = A /\ Late' = Late  BY DEF A, Late
<1>c. AtRef = {l \in Link : A[l] + Written[l] = Late}  BY <1>5 DEF InRow
<1> HIDE DEF AtRef
<1>d. \A l \in AtRef : Written[l] = Late - A[l]  BY <1>1, <1>4, <1>c
<1>e. CASE AtRef = Link /\ m = Verdict(FALSE, {}, Late)
  <2>1. /\ keep_latency_scan' = FALSE /\ BX0_position' = Late /\ at' = "scanned"
        /\ reg'["lc-ASIC"] = Written /\ offset' = offset
    BY <1>7, <1>e, PassOfASIC DEF m
  <2>2. \A l \in Link : There(l)'  BY <1>b, <1>d, <1>e, <2>1 DEF There
  <2> QED  BY <1>b, <2>1, <2>2 DEF Met
<1>f. ASSUME NEW k \in Link \ AtRef, m = Verdict(TRUE, Link \ AtRef, Late)
      PROVE  Waiting'
  <2>1. \A l \in Link \ AtRef : A[l] + val + 1 <= Late  BY <1>4, <1>c
  <2>2. val + 1 \in 0..MaxLatency
    <3>1. A[k] \in Nat /\ Late - A[k] <= MaxLatency /\ A[k] + val + 1 <= Late  BY <1>1, <2>1
    <3> QED  BY <1>0, <1>1, <3>1, SizeAssumption
  <2>3. /\ BX0_position' = Late /\ at' = "scan" /\ val' = val + 1 /\ again' = Link \ AtRef
        /\ reg'["lc-ASIC"] = Written /\ offset' = offset
    BY <1>7, <1>f, <2>2, PassOfASIC DEF m
  <2>4. val' >= 1 /\ again' # {}  BY <1>0, <1>f, <2>3
  <2>5. \A l \in again' : A'[l] + val' <= Late'  BY <1>0, <1>1, <1>b, <2>1, <2>3
  <2>6. \A l \in Link \ again' : There(l)'
    <3>1. \A l \in Link \ again' : l \in AtRef  BY <2>3
    <3> QED  BY <1>b, <1>d, <2>3, <3>1 DEF There
  <2> QED  BY <1>b, <2>3, <2>4, <2>5, <2>6 DEF Waiting
<1>g. ASSUME NEW k \in Link  PROVE ~(Shown[0][k] > Late)
  <2>1. A[k] \in Nat /\ Written[k] \in Nat /\ A[k] + Written[k] <= Late /\ Late \in Nat
    BY <1>1, <1>4
  <2> QED  BY <1>5, <2>1
<1> QED  BY <1>a, <1>e, <1>f, <1>g

LEMMA ReachStep ==
    TypeOK /\ InRange /\ ReachInv /\ [Next]_vars => ReachInv'
<1> SUFFICES ASSUME TypeOK, InRange, ReachInv, [Next]_vars,
                    scanning' = "ASIC", at' \in {"scan", "scanned"}, InReach'
             PROVE  BeforeScan' \/ Waiting' \/ Met'
  BY DEF ReachInv
<1>1. CASE TryValue
  <2>1. at = "scan" /\ offset' = offset /\ scanning = "ASIC"  BY <1>1 DEF TryValue
  <2>2. InReach  BY <2>1 DEF InReach, Late
  <2>3. BeforeScan \/ Waiting  BY <2>1, <2>2 DEF ReachInv, Met
  <2> QED  BY <1>1, <2>1, <2>2, <2>3, FirstPass, NextPass
<1>2. ASSUME NEW where \in Offsets, Align(where)  PROVE BeforeScan'
  <2>1. 0 \in 0..MaxLatency  BY SizeAssumption
  <2> QED  BY <1>2, <2>1 DEF Align, BeginScan, BeforeScan
<1>3. ASSUME NEW where \in Offsets, AlignBypass(where)  PROVE FALSE
  BY <1>3 DEF AlignBypass, BeginScan
<1>4. ASSUME NEW ok \in BOOLEAN, CheckIO(ok) \/ CheckLinks(ok)  PROVE FALSE
  BY <1>4 DEF CheckIO, CheckLinks
<1>5. ASSUME FoundASIC \/ FoundEmulator \/ FoundASICAgain \/ FoundReverse \/ Compare
      PROVE  FALSE
  BY <1>5 DEF FoundASIC, FoundEmulator, FoundASICAgain, FoundReverse, Compare, BeginScan, Return
<1>6. CASE UNCHANGED vars
  <2>1. UNCHANGED << at, offset, reg, scanning, val, again, keep_latency_scan, BX0_position >>
    BY <1>6 DEF vars, scan
  <2>2. scanning = "ASIC" /\ at \in {"scan", "scanned"} /\ InReach
    BY <2>1 DEF InReach, Late
  <2>3. BeforeScan \/ Waiting \/ Met  BY <2>2 DEF ReachInv
  <2>4. Late' = Late  BY <2>1 DEF Late
  <2>5. BeforeScan => BeforeScan'  BY <2>1 DEF BeforeScan
  <2>6. Waiting => Waiting'  BY <2>1, <2>4 DEF Waiting, A, There, SitsOut
  <2>7. Met => Met'  BY <2>1, <2>4 DEF Met, A, There
  <2> QED  BY <2>3, <2>5, <2>6, <2>7
<1> QED  BY <1>1, <1>2, <1>3, <1>4, <1>5, <1>6 DEF Next

\* The links of the ASIC meet in the row of the late ones, if they are in its reach.
THEOREM LinksAlwaysMeet == Spec => []LinksMeet
<1>1. Init => ReachInv  BY DEF Init, ReachInv
<1>2. ReachInv => LinksMeet
  BY DEF ReachInv, LinksMeet, BeforeScan, Waiting, Met, There, A
<1> QED  BY <1>1, <1>2, ReachStep, InRangeAlways, PTL DEF Spec

-----------------------------------------------------------------------------
(***************************************************************************)
(* An emulator whose links start in one row                                *)
(***************************************************************************)

Ruling(x, ref, otherwise) ==
    IF x = ref THEN Verdict(FALSE, {}, ref)
    ELSE IF x > ref THEN Verdict(FALSE, Link, x) ELSE otherwise

\* The answer for an orbit that has all links in row x ...
LEMMA UniformOrbit ==
    ASSUME NEW row \in [Link -> Int], NEW ref \in Int, NEW x \in Int,
           \A l \in Link : row[l] = x
    PROVE  MatchOrbit(row, ref) = Ruling(x, ref, NoVerdict)
<1> DEFINE AtRef == {l \in Link : row[l] = ref}
           other == row[Min(Link \ AtRef)]
           partly == AtRef \notin {{}, Link}
           late  == AtRef = {} /\ (\A l \in Link : row[l] = row[1]) /\ row[1] > ref
           m == MatchOrbit(row, ref)
<1>l. 1 \in Link /\ row[1] = x  BY SizeAssumption DEF Link
<1>m. m =
        CASE AtRef = Link -> Verdict(FALSE, {}, ref)
          [] partly /\ other > ref -> Verdict(TRUE, AtRef, other)
          [] partly /\ other <= ref -> Verdict(TRUE, Link \ AtRef, ref)
          [] late -> Verdict(FALSE, Link, row[1])
          [] OTHER -> NoVerdict
  BY DEF MatchOrbit
<1>1. CASE x = ref
  <2>1. AtRef = Link /\ ~partly /\ ~late  BY <1>1, <1>l
  <2>2. m = Verdict(FALSE, {}, ref)
    <3> HIDE DEF partly, late, other, AtRef, m
    <3> QED  BY <1>m, <2>1
  <2> QED  BY <1>1, <2>2 DEF Ruling
<1>2. CASE x > ref
  <2>1. AtRef # Link /\ ~partly /\ late  BY <1>2, <1>l
  <2>2. m = Verdict(FALSE, Link, row[1])
    <3> HIDE DEF partly, late, other, AtRef, m
    <3> QED  BY <1>m, <2>1
  <2>3. Ruling(x, ref, NoVerdict) = Verdict(FALSE, Link, x)
    <3>1. x # ref  BY <1>2
    <3> QED  BY <1>2, <3>1, Zenon DEF Ruling
  <2>4. m = Verdict(FALSE, Link, x)
    <3> HIDE DEF m
    <3> QED  BY <1>l, <2>2
  <2> QED  BY <2>3, <2>4
<1>3. CASE x < ref
  <2>1. AtRef # Link /\ ~partly /\ ~late  BY <1>3, <1>l
  <2>2. m = NoVerdict
    <3> HIDE DEF partly, late, other, AtRef, m
    <3> QED  BY <1>m, <2>1
  <2>3. Ruling(x, ref, NoVerdict) = NoVerdict
    <3>1. x # ref /\ ~(x > ref)  BY <1>3
    <3> QED  BY <3>1, Zenon DEF Ruling
  <2> QED  BY <2>2, <2>3
<1> QED  BY <1>1, <1>2, <1>3

\* ... and for two orbits of that kind.
LEMMA UniformMatch ==
    ASSUME NEW rows \in Rows, NEW position \in Int, NEW x \in Nat, NEW y \in Int, NEW ref \in Nat,
           \A l \in Link : rows[0][l] = x /\ rows[1][l] = y,
           ref = IF position = None THEN x ELSE position
    PROVE  match_BX0(rows, position) = Ruling(x, ref, Ruling(y, ref, NoVerdict))
<1>1. 1 \in Link  BY SizeAssumption DEF Link
<1>2. rows[0] \in [Link -> Int] /\ rows[1] \in [Link -> Int]  BY DEF Rows
<1>3. MatchOrbit(rows[0], ref) = Ruling(x, ref, NoVerdict)  BY <1>2, UniformOrbit
<1>4. MatchOrbit(rows[1], ref) = Ruling(y, ref, NoVerdict)  BY <1>2, UniformOrbit
<1>5. match_BX0(rows, position) =
        IF Ruling(x, ref, NoVerdict) # NoVerdict THEN Ruling(x, ref, NoVerdict)
        ELSE Ruling(y, ref, NoVerdict)
  BY <1>1, <1>3, <1>4 DEF match_BX0
<1>6. \A keep, links, p : p # None => Verdict(keep, links, p) # NoVerdict
  <2> SUFFICES ASSUME NEW keep, NEW links, NEW p, p # None
               PROVE  Verdict(keep, links, p) # NoVerdict
    OBVIOUS
  <2>1. NoVerdict.position = None  BY DEF NoVerdict, Verdict
  <2>2. Verdict(keep, links, p).position = p  BY DEF Verdict
  <2> QED  BY <2>1, <2>2
<1>7. x # None /\ ref # None  BY DEF None
<1> QED  BY <1>5, <1>6, <1>7 DEF Ruling

\* A pass of a scan of such an emulator that writes val to every link.
LEMMA EmulatorPass ==
    ASSUME TypeOK, InRange, TryValue, scanning \in {"emulator", "reverse"}, again = Link,
           EmulatorInOneRow
    PROVE  /\ Emulator \in Nat /\ val \in Nat
           /\ at' # "raised" => Emulator + val < Depth
           /\ Row(0, Emulator, val) = (IF Emulator + val < Depth THEN Emulator + val ELSE NoRow)
           /\ \A l \in Link : reg'["lc-emulator"][l] = val
           /\ reg'["lc-ASIC"] = reg["lc-ASIC"]
           /\ at' # "raised" =>
                \E ref \in {IF BX0_position = None THEN Emulator + val ELSE BX0_position} :
                    ref \in Nat =>
                        Judge(Ruling(Emulator + val, ref,
                                     Ruling(Row(1, Emulator, val), ref, NoVerdict)),
                              IF scanning = "reverse" THEN val - 1 ELSE val + 1)
<1>0. at = "scan" /\ val \in 0..MaxLatency  BY DEF TryValue, InRange
<1>1. 1 \in Link /\ "lc-emulator" \in Capture /\ lcapture = "lc-emulator" /\ "lc-ASIC" \in Capture
  <2>1. 1 \in Link  BY SizeAssumption DEF Link
  <2>2. lcapture = "lc-emulator"  BY DEF lcapture
  <2> QED  BY <2>1, <2>2 DEF Capture
<1>2. Emulator \in Nat /\ \A l \in Link : offset["lc-emulator"][l] = Emulator
  <2>1. offset["lc-emulator"] \in [Link -> 0..MaxOffset \cup {NoRow}]
    BY <1>1 DEF TypeOK, Offsets
  <2>2. Emulator \in 0..MaxOffset
    BY <1>1, <2>1 DEF EmulatorInOneRow, Emulator
  <2> QED  BY <2>2, SizeAssumption DEF EmulatorInOneRow
<1>3. val \in Nat  BY <1>0, SizeAssumption
<1>4. Written \in [Link -> 0..MaxLatency] /\ \A l \in Link : Written[l] = val
  BY <1>0, PassType DEF Written
<1>5. reg' = [reg EXCEPT ![lcapture] = Written]  BY Pass
<1>6. reg'["lc-emulator"] = Written /\ reg'["lc-ASIC"] = reg["lc-ASIC"]
  BY <1>1, <1>5 DEF TypeOK
<1>7. Row(0, Emulator, val) = IF Emulator + val < Depth THEN Emulator + val ELSE NoRow
  <2>1. 0 * Orbit = 0  BY SizeAssumption
  <2> QED  BY <1>2, <1>3, <2>1, SizeAssumption DEF Row, NoRow
<1>8. \A l \in Link : Shown[0][l] = Row(0, Emulator, val) /\ Shown[1][l] = Row(1, Emulator, val)
  BY <1>1, <1>2, <1>4 DEF Shown, find_BX0
<1>9. ASSUME at' # "raised"
      PROVE  /\ Emulator + val < Depth
             /\ Judge(match_BX0(Shown, BX0_position), IF scanning = "reverse" THEN val - 1 ELSE val + 1)
  <2>1. Found(Shown)
        /\ Judge(match_BX0(Shown, BX0_position), IF scanning = "reverse" THEN val - 1 ELSE val + 1)
    BY <1>9, Pass
  <2> QED  BY <1>1, <1>7, <1>8, <2>1 DEF Found
<1>a. ASSUME at' # "raised", NEW ref \in Nat,
             ref = IF BX0_position = None THEN Emulator + val ELSE BX0_position
      PROVE  match_BX0(Shown, BX0_position)
                = Ruling(Emulator + val, ref, Ruling(Row(1, Emulator, val), ref, NoVerdict))
  <2>1. Shown \in Rows /\ BX0_position \in Int  BY <1>0, PassType DEF TypeOK
  <2>2. Emulator + val \in Nat  BY <1>2, <1>3
  <2>3. PICK y : y = Row(1, Emulator, val)  OBVIOUS
  <2>4. y \in Int  BY <1>1, <1>8, <2>1, <2>3 DEF Rows
  <2>5. PICK x \in Nat : x = Emulator + val  BY <2>2
  <2>6. \A l \in Link : Shown[0][l] = x /\ Shown[1][l] = y
    BY <1>7, <1>8, <1>9, <1>a, <2>3, <2>5
  <2>7. match_BX0(Shown, BX0_position) = Ruling(x, ref, Ruling(y, ref, NoVerdict))
    BY <1>a, <2>1, <2>4, <2>5, <2>6, UniformMatch
  <2> QED  BY <2>3, <2>5, <2>7
<1>b. ASSUME at' # "raised", NEW ref,
             ref = (IF BX0_position = None THEN Emulator + val ELSE BX0_position), ref \in Nat
      PROVE  Judge(Ruling(Emulator + val, ref, Ruling(Row(1, Emulator, val), ref, NoVerdict)),
                   IF scanning = "reverse" THEN val - 1 ELSE val + 1)
  <2>1. PICK m : m = match_BX0(Shown, BX0_position)  OBVIOUS
  <2>2. m = Ruling(Emulator + val, ref, Ruling(Row(1, Emulator, val), ref, NoVerdict))
    BY <1>a, <1>b, <2>1
  <2> QED  BY <1>9, <1>b, <2>1, <2>2
<1> QED  BY <1>2, <1>3, <1>4, <1>6, <1>7, <1>9, <1>b

-----------------------------------------------------------------------------
\* Where ASIC and emulator meet, read off the rows they start in.
Close ==
    \/ Emulator = Late
    \/ Emulator = Late - 1 /\ Row(1, Emulator, 0) = NoRow

\* The links of the ASIC all wait for the late ones.
ASICWaits == \A l \in Link : reg["lc-ASIC"][l] = Late - A[l]

\* The scan of the emulator tries one value, or two if the emulator is early.
EmulatorTries ==
    /\ again = Link /\ BX0_ASIC = Late
    /\ \/ val = 0 /\ BX0_position = Late
       \/ /\ val = 1 /\ BX0_position = None /\ Emulator < Late
          /\ Row(1, Emulator, 0) < Late

EmulatorInv ==
    ~bypass /\ InReach /\ EmulatorInOneRow =>
        /\ scanning # "ASIC again"
        /\ at = "scan" /\ scanning = "emulator" => ASICWaits /\ EmulatorTries
        /\ at = "scan" => scanning # "reverse"
        /\ at = "scanned" /\ scanning = "emulator" => BX0_ASIC = Late
        /\ at = "scanned" /\ scanning = "emulator" /\ BX0_position # None =>
              /\ Aligned <=> Close
              /\ BX0_position # BX0_ASIC => \A l \in Link \ again : reg["lc-emulator"][l] # 0
        /\ at = "scanned" /\ scanning = "reverse" => (Aligned <=> Close)
        /\ at = "compare" => (Aligned <=> Close)

\* The row in which an ASIC that waits shows the word, and so what aligned is.
LEMMA AlignedMeans ==
    ASSUME TypeOK, InReach, EmulatorInOneRow, UNCHANGED offset,
           \A l \in Link : reg'["lc-ASIC"][l] = Late - A[l], NEW v \in Nat, Emulator \in Nat,
           \A l \in Link : reg'["lc-emulator"][l] = v, Emulator + v < Depth
    PROVE  Aligned' <=> Emulator + v = Late
<1>1. 1 \in Link /\ Capture = {"lc-ASIC", "lc-emulator"} /\ 0 * Orbit = 0
  BY SizeAssumption DEF Link, Capture
<1>2. Late \in Nat /\ Late < Depth /\ \A l \in Link : A[l] \in Nat
  BY Reach
<1>3. \A l \in Link : ShownAt("lc-ASIC", 0, l)' = Late
  <2> SUFFICES ASSUME NEW l \in Link  PROVE ShownAt("lc-ASIC", 0, l)' = Late
    OBVIOUS
  <2>1. PICK a \in Nat : a = A[l]  BY <1>2
  <2>2. offset'["lc-ASIC"][l] = a /\ reg'["lc-ASIC"][l] = Late - a
    BY <2>1 DEF A
  <2>3. ShownAt("lc-ASIC", 0, l)' = Row(0, a, Late - a)  BY <2>2 DEF ShownAt, Row
  <2>4. a + (Late - a) + 0 * Orbit = Late /\ a # NoRow
    BY <1>1, <1>2 DEF NoRow
  <2> QED  BY <1>2, <2>3, <2>4 DEF Row
<1>4. \A l \in Link : ShownAt("lc-emulator", 0, l)' = Emulator + v
  <2> SUFFICES ASSUME NEW l \in Link  PROVE ShownAt("lc-emulator", 0, l)' = Emulator + v
    OBVIOUS
  <2>1. PICK e \in Nat : e = Emulator  OBVIOUS
  <2>2. offset'["lc-emulator"][l] = e /\ reg'["lc-emulator"][l] = v
    BY <2>1 DEF EmulatorInOneRow
  <2>3. ShownAt("lc-emulator", 0, l)' = Row(0, e, v)  BY <2>2 DEF ShownAt, Row
  <2>4. e + v + 0 * Orbit = e + v /\ e # NoRow  BY <1>1 DEF NoRow
  <2> QED  BY <2>1, <2>3, <2>4 DEF Row
<1>5. Aligned' <=> \A lc \in Capture, l \in Link :
                      ShownAt(lc, 0, l)' = ShownAt("lc-ASIC", 0, 1)'
  BY DEF Aligned
<1> QED  BY <1>1, <1>3, <1>4, <1>5

LEMMA Judged ==
    ASSUME NEW k, NEW l, NEW p, NEW n, Judge(Verdict(k, l, p), n)
    PROVE  /\ keep_latency_scan' = k /\ again' = l /\ BX0_position' = p /\ val' = n
           /\ at' = IF k /\ n \in 0..MaxLatency THEN "scan" ELSE "scanned"
<1>1. /\ Verdict(k, l, p).keep = k /\ Verdict(k, l, p).again = l
      /\ Verdict(k, l, p).position = p
  BY DEF Verdict
<1> QED  BY <1>1 DEF Judge

\* A row of the second orbit is none, or later by an orbit.
LEMMA SecondRow ==
    ASSUME NEW e \in Nat, NEW v \in Nat
    PROVE  Row(1, e, v) \in Int /\ (Row(1, e, v) = NoRow \/ Row(1, e, v) > e + v)
BY SizeAssumption DEF Row, NoRow

\* What a pass of the scan of the emulator leaves behind.
LEMMA EmulatorTried ==
    ASSUME TypeOK, InRange, TryValue, InReach, EmulatorInOneRow,
           scanning = "emulator", ASICWaits, EmulatorTries
    PROVE  /\ at' = "scan" => (ASICWaits /\ EmulatorTries)'
           /\ at' = "scanned" /\ BX0_position' # None =>
                /\ (Aligned <=> Close)'
                /\ BX0_position' # BX0_ASIC' =>
                      \A l \in Link \ again' : reg'["lc-emulator"][l] # 0
<1>0. UNCHANGED << offset, scanning, BX0_ASIC >> /\ BX0_ASIC = Late
  BY DEF TryValue, EmulatorTries
<1>1. /\ again = Link /\ Late \in Nat /\ Late < Depth
  BY Reach DEF EmulatorTries
<1> DEFINE E == Emulator
           second == Row(1, E, val)
<1>2. /\ E \in Nat /\ val \in Nat
      /\ at' # "raised" => E + val < Depth
      /\ \A l \in Link : reg'["lc-emulator"][l] = val
      /\ reg'["lc-ASIC"] = reg["lc-ASIC"]
      /\ at' # "raised" =>
           \E ref \in {IF BX0_position = None THEN E + val ELSE BX0_position} :
              ref \in Nat => Judge(Ruling(E + val, ref, Ruling(second, ref, NoVerdict)), val + 1)
  BY <1>0, <1>1, EmulatorPass
<1>3. E' = E /\ Late' = Late /\ A' = A /\ (Close' <=> Close)
  <2>1. E' = E  BY <1>0 DEF Emulator
  <2>2. Late' = Late  BY <1>0 DEF Late
  <2>3. A' = A  BY <1>0 DEF A
  <2>4. Row(1, Emulator, 0)' = Row(1, Emulator, 0)  BY <2>1 DEF Row
  <2> QED  BY <2>1, <2>2, <2>3, <2>4 DEF Close
<1>4. ASICWaits'  BY <1>2, <1>3 DEF ASICWaits
<1>5. second \in Int /\ (second = NoRow \/ second > E + val)  BY <1>2, SecondRow
<1>6. ASSUME at' # "raised"  PROVE Aligned' <=> E + val = Late
  <2>1. PICK v \in Nat : v = val  BY <1>2
  <2>2. \A l \in Link : reg'["lc-emulator"][l] = v  BY <1>2, <2>1
  <2>3. E + v < Depth  BY <1>2, <1>6, <2>1
  <2>4. \A l \in Link : reg'["lc-ASIC"][l] = Late - A[l]  BY <1>2 DEF ASICWaits
  <2>5. Aligned' <=> E + v = Late
    BY <1>0, <1>2, <2>2, <2>3, <2>4, AlignedMeans
  <2> QED  BY <2>1, <2>5
<1> HIDE DEF E, second
<1>a. CASE val = 0 /\ BX0_position = Late /\ at' # "raised"
  <2>1. second = Row(1, Emulator, 0)  BY <1>a DEF second, E
  <2>2. BX0_position # None  BY <1>1, <1>a DEF None
  <2>3. Judge(Ruling(E, Late, Ruling(second, Late, NoVerdict)), 1)
    <3>1. E + val = E /\ val + 1 = 1  BY <1>2, <1>a
    <3> QED  BY <1>1, <1>2, <1>a, <2>2, <3>1
  <2>4. Aligned' <=> E = Late
    <3>1. E + val = E  BY <1>2, <1>a
    <3> QED  BY <1>6, <1>a, <3>1
  <2>5. \A l \in Link : reg'["lc-emulator"][l] = 0  BY <1>2, <1>a
  <2>6. CASE E = Late
    <3>1. Judge(Verdict(FALSE, {}, Late), 1)  BY <2>3, <2>6 DEF Ruling
    <3>2. at' = "scanned" /\ BX0_position' = Late /\ again' = {}
      BY <3>1, Judged
    <3>3. Close  BY <2>6 DEF Close, E
    <3> QED  BY <1>0, <1>3, <2>4, <2>6, <3>2, <3>3
  <2>7. CASE E > Late
    <3>1. E # Late  BY <1>1, <1>2, <2>7
    <3>2. Judge(Verdict(FALSE, Link, E), 1)  BY <2>3, <2>7, <3>1, Zenon DEF Ruling
    <3>3. at' = "scanned" /\ again' = Link  BY <3>2, Judged
    <3>4. ~Close  BY <1>1, <1>2, <2>7 DEF Close, E
    <3> QED  BY <1>3, <2>4, <3>1, <3>3, <3>4
  <2>8. CASE E < Late
    <3>1. E # Late /\ ~(E > Late)  BY <1>1, <1>2, <2>8
    <3>2. Judge(Ruling(second, Late, NoVerdict), 1)  BY <2>3, <3>1, Zenon DEF Ruling
    <3>3. second # NoRow => ~Close  BY <2>1, <3>1 DEF Close, E
    <3>4. CASE second >= Late
      <4>1. second # NoRow  BY <1>1, <3>4 DEF NoRow
      <4>2. \/ second = Late /\ Judge(Verdict(FALSE, {}, Late), 1)
            \/ second > Late /\ second # Late /\ Judge(Verdict(FALSE, Link, second), 1)
        <5>1. second = Late \/ (second > Late /\ second # Late)  BY <1>1, <1>5, <3>4
        <5> QED  BY <3>2, <5>1, Zenon DEF Ruling
      <4>3. at' = "scanned" /\ (BX0_position' = Late \/ again' = Link)
        BY <4>2, Judged
      <4> QED  BY <1>0, <1>3, <2>4, <3>1, <3>3, <4>1, <4>3
    <3>5. CASE second < Late
      <4>1. second # Late /\ ~(second > Late)  BY <1>1, <1>5, <3>5
      <4>2. Judge(NoVerdict, 1)  BY <3>2, <4>1, Zenon DEF Ruling
      <4>3. val' = 1 /\ again' = Link /\ BX0_position' = None
        BY <4>2, Judged DEF NoVerdict
      <4>4. E' < Late' /\ Row(1, Emulator, 0)' < Late'
        BY <1>0, <1>3, <2>1, <2>8, <3>5 DEF Row, Emulator
      <4> QED  BY <1>0, <1>3, <1>4, <4>3, <4>4 DEF EmulatorTries, E
    <3> QED  BY <1>1, <1>5, <3>4, <3>5
  <2> QED  BY <1>1, <1>2, <2>6, <2>7, <2>8
<1>b. CASE /\ val = 1 /\ BX0_position = None /\ E < Late /\ Row(1, Emulator, 0) < Late
           /\ at' # "raised"
  <2>1. E + 1 \in Nat /\ E + val = E + 1 /\ val + 1 = 2  BY <1>2, <1>b
  <2>2. Judge(Verdict(FALSE, {}, E + 1), 2)
    <3>1. PICK x : x = E + 1  OBVIOUS
    <3>2. Judge(Ruling(x, x, Ruling(second, x, NoVerdict)), 2)
      BY <1>2, <1>b, <2>1, <3>1
    <3> QED  BY <3>1, <3>2, Zenon DEF Ruling
  <2>3. at' = "scanned" /\ again' = {}  BY <2>2, Judged
  <2>4. Aligned' <=> E + 1 = Late  BY <1>6, <1>b, <2>1
  <2>5. \A l \in Link : reg'["lc-emulator"][l] # 0  BY <1>2, <1>b
  <2>6. Close <=> E + 1 = Late
    <3>1. Row(1, E, 0) \in Int /\ (Row(1, E, 0) = NoRow \/ Row(1, E, 0) > E + 0)
      BY <1>2, SecondRow
    <3>2. E + 1 = Late => Row(1, Emulator, 0) = NoRow
      BY <1>1, <1>2, <1>b, <3>1 DEF E
    <3>3. E # Late /\ (E = Late - 1 <=> E + 1 = Late)  BY <1>1, <1>2, <1>b
    <3> QED  BY <3>2, <3>3 DEF Close, E
  <2> QED  BY <1>3, <2>3, <2>4, <2>5, <2>6
<1> QED  BY <1>a, <1>b DEF EmulatorTries, E

-----------------------------------------------------------------------------
\* A step that leaves rows and registers alone leaves the verdict alone.
LEMMA SameRows ==
    ASSUME UNCHANGED << offset, reg >>
    PROVE  /\ (Aligned <=> Close) => (Aligned <=> Close)'
           /\ InReach' => InReach
           /\ EmulatorInOneRow' => EmulatorInOneRow
           /\ Late' = Late /\ A' = A
<1>1. Late' = Late  BY DEF Late
<1>2. A' = A /\ Emulator' = Emulator  BY DEF A, Emulator
<1>3. Row(1, Emulator, 0)' = Row(1, Emulator, 0)  BY <1>2 DEF Row
<1>4. Close' <=> Close  BY <1>1, <1>2, <1>3 DEF Close
<1>5. \A lc \in Capture, l \in Link : ShownAt(lc, 0, l)' = ShownAt(lc, 0, l)
  BY DEF ShownAt, Row
<1>6. ShownAt("lc-ASIC", 0, 1)' = ShownAt("lc-ASIC", 0, 1)  BY DEF ShownAt, Row
<1>7. Aligned' <=> Aligned  BY <1>5, <1>6 DEF Aligned
<1>8. (InReach' <=> InReach) /\ (EmulatorInOneRow' <=> EmulatorInOneRow)
  BY <1>1, <1>2 DEF InReach, EmulatorInOneRow
<1> QED  BY <1>1, <1>2, <1>4, <1>7, <1>8

LEMMA EmulatorStep ==
    TypeOK /\ InRange /\ LinksMeet /\ EmulatorInv /\ [Next]_vars => EmulatorInv'
<1> SUFFICES ASSUME TypeOK, InRange, LinksMeet, EmulatorInv, [Next]_vars,
                    ~bypass', InReach', EmulatorInOneRow'
             PROVE  /\ scanning' # "ASIC again"
                    /\ at' = "scan" /\ scanning' = "emulator" => (ASICWaits /\ EmulatorTries)'
                    /\ at' = "scan" => scanning' # "reverse"
                    /\ at' = "scanned" /\ scanning' = "emulator" => BX0_ASIC' = Late'
                    /\ at' = "scanned" /\ scanning' = "emulator" /\ BX0_position' # None =>
                          /\ (Aligned <=> Close)'
                          /\ BX0_position' # BX0_ASIC' =>
                                \A l \in Link \ again' : reg'["lc-emulator"][l] # 0
                    /\ at' = "scanned" /\ scanning' = "reverse" => (Aligned <=> Close)'
                    /\ at' = "compare" => (Aligned <=> Close)'
  BY DEF EmulatorInv
<1>b. bypass' = bypass
  BY DEF Next, CheckIO, CheckLinks, Align, AlignBypass, TryValue, FoundASIC, FoundEmulator,
         FoundASICAgain, FoundReverse, Compare, vars
<1>n. ~bypass  BY <1>b, Zenon
<1>0. CASE UNCHANGED vars
  <2>1. UNCHANGED << at, offset, reg, scanning, val, again, BX0_position, BX0_ASIC >>
    BY <1>0 DEF vars, scan
  <2>2. InReach /\ EmulatorInOneRow  BY <2>1, SameRows
  <2>3. (Aligned <=> Close) => (Aligned <=> Close)'  BY <2>1, SameRows
  <2>4. ASICWaits /\ EmulatorTries => (ASICWaits /\ EmulatorTries)'
    <3>1. Late' = Late /\ A' = A /\ Emulator' = Emulator  BY <2>1, SameRows DEF Emulator
    <3>2. Row(1, Emulator, 0)' = Row(1, Emulator, 0)  BY <3>1 DEF Row
    <3> QED  BY <2>1, <3>1, <3>2 DEF ASICWaits, EmulatorTries
  <2>5. Late' = Late  BY <2>1, SameRows
  <2> QED  BY <1>n, <2>1, <2>2, <2>3, <2>4, <2>5 DEF EmulatorInv
<1>1. ASSUME NEW ok \in BOOLEAN, CheckIO(ok) \/ CheckLinks(ok)
      PROVE  /\ scanning' = scanning /\ offset' = offset
             /\ at' \notin {"scan", "scanned", "compare"}
  BY <1>1 DEF CheckIO, CheckLinks, scan
<1>2. ASSUME NEW where \in Offsets, Align(where) \/ AlignBypass(where)
      PROVE  scanning' = "ASIC" /\ at' # "compare"
  BY <1>2, <1>n DEF Align, AlignBypass, BeginScan
<1>3. CASE scanning' = scanning /\ offset' = offset /\ at' \notin {"scan", "scanned", "compare"}
  <2>1. InReach /\ EmulatorInOneRow
    <3>1. Late' = Late  BY <1>3 DEF Late
    <3> QED  BY <1>3, <3>1 DEF InReach, EmulatorInOneRow, Emulator
  <2> QED  BY <1>3, <1>n, <2>1 DEF EmulatorInv
<1>4. CASE TryValue
  <2>1. at = "scan" /\ UNCHANGED << offset, scanning, bypass >> /\ at' # "compare"
    BY <1>4 DEF TryValue, Judge
  <2>2. InReach /\ EmulatorInOneRow
    <3>1. Late' = Late  BY <2>1 DEF Late
    <3> QED  BY <2>1, <3>1 DEF InReach, EmulatorInOneRow, Emulator
  <2>3. scanning # "reverse" /\ scanning # "ASIC again"
    BY <1>n, <2>1, <2>2 DEF EmulatorInv
  <2>4. CASE scanning # "emulator"
    BY <2>1, <2>3, <2>4
  <2>5. CASE scanning = "emulator"
    <3>1. ASICWaits /\ EmulatorTries  BY <1>n, <2>1, <2>2, <2>5 DEF EmulatorInv
    <3>2. BX0_ASIC' = Late'  BY <1>4, <2>1, <3>1 DEF TryValue, EmulatorTries, Late
    <3> QED  BY <1>4, <2>1, <2>2, <2>5, <3>1, <3>2, EmulatorTried
  <2> QED  BY <2>4, <2>5
<1>5. CASE FoundASIC
  <2>1. at = "scanned" /\ scanning = "ASIC" /\ UNCHANGED << offset, reg >>
    BY <1>5 DEF FoundASIC
  <2>2. InReach /\ EmulatorInOneRow /\ Late' = Late /\ A' = A  BY <2>1, SameRows
  <2>3. BX0_position = Late /\ \A l \in Link : reg["lc-ASIC"][l] = Late - A[l]
    BY <2>1, <2>2 DEF LinksMeet, A
  <2>4. Late \in Nat /\ 0 \in 0..MaxLatency  BY <2>2, Reach, SizeAssumption
  <2>5. BX0_position # None  BY <2>3, <2>4 DEF None
  <2>6. BX0_ASIC' = Late /\ BeginScan("emulator", 0, Late)
    BY <1>5, <2>3, <2>5 DEF FoundASIC
  <2>7. /\ at' = "scan" /\ scanning' = "emulator" /\ val' = 0 /\ again' = Link
        /\ BX0_position' = Late
    BY <2>4, <2>6 DEF BeginScan
  <2>8. ASICWaits'  BY <2>1, <2>2, <2>3 DEF ASICWaits
  <2> QED  BY <2>2, <2>6, <2>7, <2>8 DEF EmulatorTries
<1>6. CASE FoundEmulator
  <2>1. at = "scanned" /\ scanning = "emulator" /\ UNCHANGED << offset, reg, BX0_ASIC >>
    BY <1>6 DEF FoundEmulator
  <2>2. InReach /\ EmulatorInOneRow  BY <2>1, SameRows
  <2>3. Late \in Nat /\ Late' = Late  BY <2>1, <2>2, Reach DEF Late
  <2>4. BX0_ASIC = Late /\ BX0_ASIC # None
    BY <1>n, <2>1, <2>2, <2>3 DEF EmulatorInv, None
  <2>5. BX0_position # None =>
          /\ Aligned <=> Close
          /\ BX0_position # BX0_ASIC => \A l \in Link \ again : reg["lc-emulator"][l] # 0
    BY <1>n, <2>1, <2>2 DEF EmulatorInv
  <2>6. \/ BX0_position = BX0_ASIC /\ at' = "compare" /\ scanning' = scanning
        \/ at' = "raised" /\ scanning' = scanning
        \/ /\ BX0_position # BX0_ASIC /\ BX0_position # None
           /\ at' = "scanned" /\ scanning' = "reverse"
    <3>1. BX0_position # BX0_ASIC /\ BX0_position # None =>
             ~\E l \in Link \ again : reg["lc-emulator"][l] = 0
      BY <2>5
    <3>2. -1 \notin 0..MaxLatency  BY SizeAssumption
    <3>3. ASSUME BeginScan("reverse", 0 - 1, BX0_ASIC)
          PROVE  at' = "scanned" /\ scanning' = "reverse"
      BY <3>2, <3>3 DEF BeginScan
    <3> QED  BY <1>6, <2>1, <3>1, <3>3 DEF FoundEmulator, Return, scan
  <2>7. (Aligned <=> Close) => (Aligned <=> Close)'  BY <2>1, SameRows
  <2> QED  BY <2>1, <2>4, <2>5, <2>6, <2>7
<1>7. CASE FoundReverse
  <2>1. /\ at = "scanned" /\ scanning = "reverse" /\ scanning' = scanning
        /\ UNCHANGED << offset, reg >> /\ at' \notin {"scan", "scanned"}
    BY <1>7 DEF FoundReverse, Return, scan
  <2>2. InReach /\ EmulatorInOneRow  BY <2>1, SameRows
  <2>3. (Aligned <=> Close) => (Aligned <=> Close)'  BY <2>1, SameRows
  <2> QED  BY <1>n, <2>1, <2>2, <2>3 DEF EmulatorInv
<1>8. CASE FoundASICAgain
  <2>1. scanning = "ASIC again" /\ UNCHANGED << offset, reg >>
    BY <1>8 DEF FoundASICAgain
  <2>2. InReach /\ EmulatorInOneRow  BY <2>1, SameRows
  <2> QED  BY <1>n, <2>1, <2>2 DEF EmulatorInv
<1>9. CASE Compare
  <2>1. at' = "done" /\ UNCHANGED << offset, reg, scanning >>
    BY <1>9 DEF Compare, scan
  <2>2. InReach /\ EmulatorInOneRow  BY <2>1, SameRows
  <2> QED  BY <1>n, <2>1, <2>2 DEF EmulatorInv
<1>q. Next \/ UNCHANGED vars  OBVIOUS
<1> QED
  BY <1>q, <1>0, <1>1, <1>2, <1>3, <1>4, <1>5, <1>6, <1>7, <1>8, <1>9 DEF Next

\* bypass_align never compares.
OnlyOutput == at = "compare" => ~bypass

\* What output_align compares is aligned exactly if the emulator's links started in
\* the row of the ASIC's late links, or one row too early with no second orbit in the
\* capture (set_econt.py:239-254), whatever the links, the orbit and the capture.
THEOREM AlignedExactly == Spec => []AlignedIf
<1>1. Init => EmulatorInv  BY DEF Init, EmulatorInv
<1>2. EmulatorInv => (at = "compare" /\ ~bypass => AlignedIf)
  BY DEF EmulatorInv, AlignedIf, Close
<1>3. Init => OnlyOutput  BY DEF Init, OnlyOutput
<1>4. TypeOK /\ OnlyOutput /\ [Next]_vars => OnlyOutput'
  <2> SUFFICES ASSUME TypeOK, OnlyOutput, [Next]_vars  PROVE OnlyOutput'
    OBVIOUS
  <2>1. CASE UNCHANGED vars  BY <2>1 DEF OnlyOutput, vars
  <2>2. CASE FoundEmulator
    <3>1. at' = "compare" => ~bypass  BY <2>2 DEF FoundEmulator, Return, BeginScan
    <3> QED  BY <2>2, <3>1 DEF OnlyOutput, FoundEmulator
  <2>3. CASE FoundASICAgain \/ FoundReverse
    BY <2>3 DEF FoundASICAgain, FoundReverse, Return, OnlyOutput
  <2>4. CASE FoundASIC
    BY <2>4 DEF FoundASIC, BeginScan, OnlyOutput
  <2>5. CASE TryValue \/ Compare
    BY <2>5 DEF TryValue, Judge, Compare, OnlyOutput
  <2>6. CASE \/ \E ok \in BOOLEAN : CheckIO(ok) \/ CheckLinks(ok)
             \/ \E where \in Offsets : Align(where) \/ AlignBypass(where)
    <3>1. at' # "compare"
      BY <2>6 DEF CheckIO, CheckLinks, Align, AlignBypass, BeginScan, OnlyOutput
    <3> QED  BY <3>1 DEF OnlyOutput
  <2>q. Next \/ UNCHANGED vars  OBVIOUS
  <2> QED  BY <2>q, <2>1, <2>2, <2>3, <2>4, <2>5, <2>6 DEF Next
<1>5. OnlyOutput /\ (at = "compare" /\ ~bypass => AlignedIf) => AlignedIf
  BY DEF OnlyOutput, AlignedIf
<1> QED
  BY <1>1, <1>2, <1>3, <1>4, <1>5, EmulatorStep, LinksAlwaysMeet, InRangeAlways, PTL DEF Spec

-----------------------------------------------------------------------------
(***************************************************************************)
(* bypass_align                                                            *)
(***************************************************************************)

ASICRests == \A l \in Link : reg["lc-ASIC"][l] = 0
Near == First - Emulator \in (StartBypass - 1)..(StartBypass + 1)

\* The values that a scan of bypass_align comes to try.
BypassTries ==
    /\ again = Link
    /\ \/ scanning = "emulator" /\ val = StartBypass /\ BX0_position = First
       \/ scanning = "emulator" /\ val = StartBypass + 1 /\ BX0_position = None
       \/ scanning = "reverse" /\ val = StartBypass - 1 /\ BX0_position = First
       \/ scanning = "reverse" /\ val = StartBypass - 2 /\ BX0_position = None
          /\ Emulator + val < First - 1

BypassScans ==
    /\ BX0_ASIC = First /\ First \in Nat /\ First < Depth
    /\ at = "scan" => BypassTries
    /\ at = "done" \/ (at = "scanned" /\ BX0_position = First) => Aligned /\ Near

BypassInv ==
    bypass =>
        /\ at \notin {"IO", "links", "compare"}
        /\ ASICRests
        /\ at \in {"scan", "scanned"} => scanning \in {"emulator", "reverse"}
        /\ EmulatorInOneRow /\ ASICInOneRow /\ at \in {"scan", "scanned", "done"} => BypassScans

\* Links in one row are in reach of themselves.
LEMMA OneRow ==
    ASSUME TypeOK, ASICInOneRow, First \in Nat, First < Depth
    PROVE  Late = First /\ InReach
<1>1. 1 \in Link  BY SizeAssumption DEF Link
<1>2. {A[l] : l \in Link} = {First}  BY <1>1 DEF ASICInOneRow, A, First
<1>3. Late = Max({First})  BY <1>2 DEF Late, A
<1>4. \E x \in {First} : \A y \in {First} : x >= y  OBVIOUS
<1>5. Late = First  BY <1>3, <1>4 DEF Max
<1>6. First \in 0..Late /\ Late - First <= MaxLatency  BY <1>5, SizeAssumption
<1>7. A[1] = Late /\ \A l \in Link : A[l] = First
  BY <1>1, <1>5 DEF ASICInOneRow, A, First
<1>8. \A l \in Link : A[l] \in 0..Late /\ Late - A[l] <= MaxLatency  BY <1>6, <1>7
<1> QED  BY <1>5, <1>7, <1>8 DEF InReach, A

\* The second orbit is never the ASIC's row.
LEMMA SecondIsFar ==
    ASSUME TypeOK, First \in Nat, NEW e \in Nat, NEW v \in Nat
    PROVE  /\ Row(1, e, v) \in Int
           /\ Row(1, e, v) = NoRow \/ (Row(1, e, v) > First /\ Row(1, e, v) > e + v)
<1>1. 1 \in Link /\ "lc-ASIC" \in Capture  BY SizeAssumption DEF Link, Capture
<1>2. First \in 0..MaxOffset \cup {NoRow}  BY <1>1 DEF TypeOK, Offsets, First
<1>3. First <= MaxOffset  BY <1>2, SizeAssumption DEF NoRow
<1> QED  BY <1>3, SizeAssumption, BypassAssumption DEF Row, NoRow

\* Where the rows stay, so does what is said of them.
LEMMA SameFirst ==
    ASSUME offset' = offset
    PROVE  /\ First' = First /\ Emulator' = Emulator /\ (Near' <=> Near)
           /\ EmulatorInOneRow' <=> EmulatorInOneRow
           /\ ASICInOneRow' <=> ASICInOneRow
BY DEF First, Emulator, Near, EmulatorInOneRow, ASICInOneRow

LEMMA SameAligned == ASSUME UNCHANGED << offset, reg >>  PROVE Aligned' <=> Aligned
<1>1. \A lc \in Capture, l \in Link : ShownAt(lc, 0, l)' = ShownAt(lc, 0, l)
  BY DEF ShownAt, Row
<1>2. ShownAt("lc-ASIC", 0, 1)' = ShownAt("lc-ASIC", 0, 1)  BY DEF ShownAt, Row
<1> QED  BY <1>1, <1>2 DEF Aligned

\* The answer of the links in a row x to a reference that their second orbit y cannot be.
LEMMA RulingCases ==
    ASSUME NEW x \in Nat, NEW y \in Int, NEW ref \in Nat, y = NoRow \/ y > ref, NEW n,
           Judge(Ruling(x, ref, Ruling(y, ref, NoVerdict)), n)
    PROVE  \/ x = ref /\ at' = "scanned" /\ BX0_position' = ref /\ val' = n
           \/ x # ref /\ at' = "scanned" /\ BX0_position' # ref /\ val' = n
           \/ /\ x < ref /\ y = NoRow /\ BX0_position' = None /\ again' = Link /\ val' = n
              /\ at' = IF n \in 0..MaxLatency THEN "scan" ELSE "scanned"
<1>1. CASE x = ref
  <2>1. Judge(Verdict(FALSE, {}, ref), n)  BY <1>1, Zenon DEF Ruling
  <2> QED  BY <1>1, <2>1, Judged
<1>2. CASE x > ref
  <2>1. x # ref  BY <1>2
  <2>2. Judge(Verdict(FALSE, Link, x), n)  BY <1>2, <2>1, Zenon DEF Ruling
  <2> QED  BY <2>1, <2>2, Judged
<1>3. CASE x < ref /\ y > ref
  <2>1. x # ref /\ ~(x > ref) /\ y # ref  BY <1>3
  <2>2. Judge(Ruling(y, ref, NoVerdict), n)  BY <2>1, Zenon DEF Ruling
  <2>3. Judge(Verdict(FALSE, Link, y), n)  BY <1>3, <2>1, <2>2, Zenon DEF Ruling
  <2> QED  BY <2>1, <2>3, Judged
<1>4. CASE x < ref /\ y = NoRow
  <2>1. x # ref /\ ~(x > ref) /\ y # ref /\ ~(y > ref)  BY <1>4 DEF NoRow
  <2>2. Judge(Ruling(y, ref, NoVerdict), n)  BY <2>1, Zenon DEF Ruling
  <2>3. Judge(NoVerdict, n)  BY <2>1, <2>2, Zenon DEF Ruling
  <2> QED  BY <1>4, <2>3, Judged DEF NoVerdict
<1> QED  BY <1>1, <1>2, <1>3, <1>4

\* What a pass of a scan of bypass_align leaves behind.
LEMMA BypassTried ==
    ASSUME TypeOK, InRange, TryValue, EmulatorInOneRow, ASICInOneRow, ASICRests,
           BX0_ASIC = First, First \in Nat, First < Depth, BypassTries, at' # "raised"
    PROVE  BypassScans'
<1>0. UNCHANGED << offset, scanning, BX0_ASIC >>  BY DEF TryValue
<1>1. again = Link /\ scanning \in {"emulator", "reverse"}  BY DEF BypassTries
<1> DEFINE E == Emulator
           second == Row(1, E, val)
           next == IF scanning = "reverse" THEN val - 1 ELSE val + 1
<1>2. /\ E \in Nat /\ val \in Nat /\ E + val < Depth
      /\ \A l \in Link : reg'["lc-emulator"][l] = val
      /\ reg'["lc-ASIC"] = reg["lc-ASIC"]
      /\ \E ref \in {IF BX0_position = None THEN E + val ELSE BX0_position} :
              ref \in Nat => Judge(Ruling(E + val, ref, Ruling(second, ref, NoVerdict)), next)
  BY <1>1, EmulatorPass
<1>3. E' = E /\ First' = First /\ (Near' <=> Near) /\ E \in Nat  BY <1>0, <1>2, SameFirst
<1>4. Late = First /\ InReach  BY OneRow
<1>5. Aligned' <=> E + val = First
  <2>1. \A l \in Link : reg'["lc-ASIC"][l] = Late - A[l]
    BY <1>2, <1>4 DEF ASICRests, ASICInOneRow, A
  <2>2. PICK v \in Nat : v = val  BY <1>2
  <2>3. (\A l \in Link : reg'["lc-emulator"][l] = v) /\ E + v < Depth  BY <1>2, <2>2
  <2>4. Aligned' <=> E + v = Late  BY <1>0, <1>2, <1>4, <2>1, <2>3, AlignedMeans
  <2> QED  BY <1>4, <2>2, <2>4
<1>6. second \in Int /\ (second = NoRow \/ (second > First /\ second > E + val))
  BY <1>2, SecondIsFar
<1>7. next \in Int /\ StartBypass \in Nat  BY <1>2, SizeAssumption
<1>8. at' \in {"scan", "scanned"}
  <2>1. at' \in {"scan", "scanned", "raised"}  BY DEF TryValue, Judge
  <2> QED  BY <2>1
<1> HIDE DEF E, second, next
<1>a. CASE BX0_position = First
  <2>1. BX0_position # None  BY <1>a DEF None
  <2>2. Judge(Ruling(E + val, First, Ruling(second, First, NoVerdict)), next)
    BY <1>2, <1>a, <2>1
  <2>3. \/ E + val = First /\ at' = "scanned" /\ BX0_position' = First
        \/ E + val # First /\ at' = "scanned" /\ BX0_position' # First
        \/ /\ E + val < First /\ second = NoRow /\ BX0_position' = None /\ again' = Link
           /\ val' = next /\ at' = IF next \in 0..MaxLatency THEN "scan" ELSE "scanned"
    <3>1. E + val \in Nat  BY <1>2
    <3> QED  BY <1>2, <1>6, <2>2, <3>1, RulingCases
  <2>4. \/ scanning = "emulator" /\ val = StartBypass /\ next = StartBypass + 1
        \/ scanning = "reverse" /\ val = StartBypass - 1 /\ next = StartBypass - 2
    <3>1. \/ scanning = "emulator" /\ val = StartBypass
          \/ scanning = "reverse" /\ val = StartBypass - 1
      BY <2>1, <1>a DEF BypassTries
    <3> QED  BY <1>7, <3>1 DEF next
  <2>5. E + val = First => Near  BY <1>2, <1>7, <2>4 DEF Near, E
  <2>6. at' = "scan" => BypassTries'
    <3> SUFFICES ASSUME at' = "scan"  PROVE BypassTries'  OBVIOUS
    <3>1. E + val < First /\ BX0_position' = None /\ again' = Link /\ val' = next  BY <2>3
    <3>2. next = StartBypass - 2 => Emulator' + val' < First' - 1
      BY <1>2, <1>3, <1>7, <2>4, <3>1 DEF E
    <3> QED  BY <1>0, <2>4, <3>1, <3>2 DEF BypassTries
  <2>7. at' = "scanned" /\ BX0_position' = First => E + val = First
    BY <2>3 DEF None
  <2> QED  BY <1>0, <1>3, <1>5, <1>8, <2>5, <2>6, <2>7 DEF BypassScans
<1>b. CASE BX0_position = None
  <2>1. \/ scanning = "emulator" /\ val = StartBypass + 1
        \/ scanning = "reverse" /\ E + val < First - 1
    BY <1>b DEF BypassTries, None, E
  <2>2. Judge(Ruling(E + val, E + val, Ruling(second, E + val, NoVerdict)), next)
    <3>1. E + val \in Nat  BY <1>2
    <3> QED  BY <1>2, <1>b, <3>1
  <2>3. at' = "scanned" /\ BX0_position' = E + val
    <3>1. PICK x \in Nat : x = E + val  BY <1>2
    <3>2. Judge(Ruling(x, x, Ruling(second, x, NoVerdict)), next)  BY <2>2, <3>1
    <3>3. Judge(Verdict(FALSE, {}, x), next)  BY <3>2, Zenon DEF Ruling
    <3> QED  BY <3>1, <3>3, Judged
  <2>4. E + val = First => Near  BY <1>2, <1>7, <2>1 DEF Near, E
  <2> QED  BY <1>0, <1>3, <1>5, <1>8, <2>3, <2>4 DEF BypassScans
<1> QED  BY <1>a, <1>b DEF BypassTries

\* bypass_align finds the ASIC's row, if it finds anything.
LEMMA BypassBegins ==
    ASSUME TypeOK, bypass, ASICRests, NEW where \in Offsets, AlignBypass(where),
           ASICInOneRow', at' # "raised"
    PROVE  /\ BX0_ASIC' = First' /\ First' \in Nat /\ First' < Depth
           /\ BeginScan("emulator", StartBypass, First')
<1> DEFINE rows  == find_BX0(where["lc-ASIC"], reg["lc-ASIC"])
           found == match_BX0(rows, None).position
<1>1. 1 \in Link /\ "lc-ASIC" \in Capture /\ 0 * Orbit = 0
  BY SizeAssumption DEF Link, Capture
<1>2. offset' = where /\ Found(rows) /\ BX0_ASIC' = found /\ BeginScan("emulator", StartBypass, found)
  BY DEF AlignBypass
<1>3. where["lc-ASIC"] \in [Link -> 0..MaxOffset \cup {NoRow}]
      /\ reg["lc-ASIC"] \in [Link -> 0..MaxLatency]
  BY <1>1 DEF Offsets, TypeOK
<1>4. rows \in Rows  BY <1>3, RowsType
<1>5. First' = where["lc-ASIC"][1] /\ \A l \in Link : where["lc-ASIC"][l] = First'
  BY <1>2 DEF First, ASICInOneRow
<1>6. PICK f : f = First'  OBVIOUS
<1>7. \A l \in Link : rows[0][l] = Row(0, f, 0) /\ rows[1][l] = Row(1, f, 0)
  BY <1>5, <1>6 DEF find_BX0, ASICRests
<1>8. f \in Nat /\ f < Depth /\ Row(0, f, 0) = f
  <2>1. rows[0][1] # NoRow  BY <1>2 DEF Found
  <2>2. Row(0, f, 0) # NoRow  BY <1>1, <1>7, <2>1
  <2>3. f \in 0..MaxOffset \cup {NoRow}  BY <1>1, <1>3, <1>5, <1>6
  <2>4. f # NoRow /\ f + 0 + 0 * Orbit < Depth /\ Row(0, f, 0) = f + 0 + 0 * Orbit
    BY <2>2 DEF Row
  <2> QED  BY <1>1, <2>3, <2>4, SizeAssumption
<1>9. found = f
  <2>1. PICK y : y = Row(1, f, 0)  OBVIOUS
  <2>2. y \in Int  BY <1>1, <1>4, <1>7, <2>1 DEF Rows
  <2>3. None \in Int /\ f = IF None = None THEN f ELSE None  BY DEF None
  <2>4. \A l \in Link : rows[0][l] = f /\ rows[1][l] = y  BY <1>7, <1>8, <2>1
  <2> HIDE DEF rows
  <2>5. match_BX0(rows, None) = Ruling(f, f, Ruling(y, f, NoVerdict))
    BY <1>4, <1>8, <2>2, <2>3, <2>4, UniformMatch
  <2>6. Ruling(f, f, Ruling(y, f, NoVerdict)) = Verdict(FALSE, {}, f)  BY Zenon DEF Ruling
  <2>7. Verdict(FALSE, {}, f).position = f  BY DEF Verdict
  <2> QED  BY <2>5, <2>6, <2>7
<1> HIDE DEF found
<1> QED  BY <1>2, <1>6, <1>8, <1>9

LEMMA BypassStep == TypeOK /\ InRange /\ BypassInv /\ [Next]_vars => BypassInv'
<1> SUFFICES ASSUME TypeOK, InRange, BypassInv, [Next]_vars, bypass'
             PROVE  /\ at' \notin {"IO", "links", "compare"}
                    /\ ASICRests'
                    /\ at' \in {"scan", "scanned"} => scanning' \in {"emulator", "reverse"}
                    /\ EmulatorInOneRow' /\ ASICInOneRow' /\ at' \in {"scan", "scanned", "done"}
                          => BypassScans'
  BY DEF BypassInv
<1>b. bypass' = bypass
  BY DEF Next, CheckIO, CheckLinks, Align, AlignBypass, TryValue, FoundASIC, FoundEmulator,
         FoundASICAgain, FoundReverse, Compare, vars
<1>n. bypass  BY <1>b, Zenon
<1>i. /\ at \notin {"IO", "links", "compare"} /\ ASICRests
      /\ at \in {"scan", "scanned"} => scanning \in {"emulator", "reverse"}
      /\ EmulatorInOneRow /\ ASICInOneRow /\ at \in {"scan", "scanned", "done"} => BypassScans
  BY <1>n DEF BypassInv
<1>r. reg'["lc-ASIC"] = reg["lc-ASIC"] => ASICRests'  BY <1>i DEF ASICRests
<1>0. CASE UNCHANGED vars
  <2>1. UNCHANGED << at, offset, reg, scanning, val, again, BX0_position, BX0_ASIC >>
    BY <1>0 DEF vars, scan
  <2>2. BypassScans => BypassScans'
    BY <2>1, SameFirst, SameAligned DEF BypassScans, BypassTries
  <2> QED  BY <1>i, <1>r, <2>1, <2>2, SameFirst
<1>1. ASSUME NEW where \in Offsets, AlignBypass(where)
      PROVE  /\ at' \notin {"IO", "links", "compare"} /\ ASICRests'
             /\ at' \in {"scan", "scanned"} => scanning' \in {"emulator", "reverse"}
             /\ EmulatorInOneRow' /\ ASICInOneRow' /\ at' \in {"scan", "scanned", "done"}
                   => BypassScans'
  <2>1. /\ reg' = reg
        /\ \/ at' \in {"scan", "scanned"} /\ scanning' = "emulator"
           \/ at' = "raised"
    BY <1>1 DEF AlignBypass, BeginScan
  <2>2. ASSUME ASICInOneRow', at' # "raised"  PROVE BypassScans'
    <3>1. /\ BX0_ASIC' = First' /\ First' \in Nat /\ First' < Depth
          /\ BeginScan("emulator", StartBypass, First')
      BY <1>1, <1>i, <1>n, <2>2, BypassBegins
    <3>2. StartBypass \in 0..MaxLatency  BY SizeAssumption
    <3>3. /\ at' = "scan" /\ scanning' = "emulator" /\ val' = StartBypass /\ again' = Link
          /\ BX0_position' = First'
      BY <3>1, <3>2 DEF BeginScan
    <3> QED  BY <3>1, <3>3 DEF BypassScans, BypassTries
  <2> QED  BY <1>r, <2>1, <2>2
<1>2. CASE TryValue
  <2>1. /\ at = "scan" /\ scanning' = scanning /\ offset' = offset
        /\ at' \in {"scan", "scanned", "raised"}
    BY <1>2 DEF TryValue, Judge
  <2>2. reg'["lc-ASIC"] = reg["lc-ASIC"]
    <3>1. lcapture = "lc-emulator"  BY <1>i, <2>1 DEF lcapture
    <3> QED  BY <1>2, <3>1 DEF TryValue, TypeOK, Capture
  <2>3. ASSUME EmulatorInOneRow', ASICInOneRow', at' # "raised"  PROVE BypassScans'
    <3>1. EmulatorInOneRow /\ ASICInOneRow  BY <2>1, <2>3, SameFirst
    <3>2. BypassScans  BY <1>i, <2>1, <3>1
    <3> QED  BY <1>2, <1>i, <2>1, <2>3, <3>1, <3>2, BypassTried DEF BypassScans
  <2> QED  BY <1>i, <1>r, <2>1, <2>2, <2>3
<1>3. CASE FoundEmulator
  <2>1. at = "scanned" /\ scanning = "emulator" /\ UNCHANGED << offset, reg, BX0_ASIC >>
    BY <1>3 DEF FoundEmulator
  <2>2. -1 \in Int /\ StartBypass - 1 \in 0..MaxLatency
    BY SizeAssumption, BypassAssumption
  <2>3. ASSUME BeginScan("reverse", StartBypass - 1, BX0_ASIC)
        PROVE  /\ at' = "scan" /\ scanning' = "reverse" /\ val' = StartBypass - 1 /\ again' = Link
               /\ BX0_position' = BX0_ASIC
    BY <2>2, <2>3 DEF BeginScan
  <2>4. \/ BX0_position = BX0_ASIC /\ at' = "done"
        \/ at' = "raised"
        \/ /\ at' = "scan" /\ scanning' = "reverse" /\ val' = StartBypass - 1 /\ again' = Link
           /\ BX0_position' = BX0_ASIC
    BY <1>3, <1>n, <2>3 DEF FoundEmulator, Return
  <2>5. ASSUME EmulatorInOneRow', ASICInOneRow', at' # "raised"  PROVE BypassScans'
    <3>1. BypassScans  BY <1>i, <2>1, <2>5, SameFirst
    <3> QED  BY <2>1, <2>4, <2>5, <3>1, SameFirst, SameAligned DEF BypassScans, BypassTries
  <2> QED  BY <1>r, <2>1, <2>4, <2>5
<1>4. CASE FoundReverse
  <2>1. /\ at = "scanned" /\ UNCHANGED << offset, reg, BX0_ASIC >>
        /\ at' = IF BX0_position = BX0_ASIC THEN "done" ELSE "exited"
    BY <1>4, <1>n DEF FoundReverse, Return
  <2>2. ASSUME EmulatorInOneRow', ASICInOneRow', at' = "done"  PROVE BypassScans'
    <3>1. BypassScans  BY <1>i, <2>1, <2>2, SameFirst
    <3> QED  BY <2>1, <2>2, <3>1, SameFirst, SameAligned DEF BypassScans
  <2> QED  BY <1>r, <2>1, <2>2
<1>5. ~FoundASIC /\ ~FoundASICAgain /\ ~Compare
  BY <1>i DEF FoundASIC, FoundASICAgain, Compare
<1>6. ~\E ok \in BOOLEAN : CheckIO(ok) \/ CheckLinks(ok)
  BY <1>i DEF CheckIO, CheckLinks
<1>7. ~\E where \in Offsets : Align(where)  BY <1>n DEF Align
<1>q. Next \/ UNCHANGED vars  OBVIOUS
<1> QED  BY <1>q, <1>0, <1>1, <1>2, <1>3, <1>4, <1>5, <1>6, <1>7 DEF Next

\* bypass_align only returns with ASIC and emulator aligned, if the links of each start
\* in one row, and only within a row of its starting value (latency.py:110-119, 203-211).
THEOREM BypassAlwaysAligns == Spec => []BypassAligns
<1>1. Init => BypassInv  BY DEF Init, BypassInv, ASICRests, Capture
<1>2. BypassInv => BypassAligns  BY DEF BypassInv, BypassAligns, BypassScans, Near
<1> QED  BY <1>1, <1>2, BypassStep, InRangeAlways, PTL DEF Spec

=============================================================================
