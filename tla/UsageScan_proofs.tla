--------------------------- MODULE UsageScan_proofs ---------------------------
(***************************************************************************)
(* The scan of an agent's logs, for any files, hours, lines and mishaps:   *)
(* the types; among logs that are not rewritten, that the hourly facts add *)
(* up to the retained records and that applying a scan loses none; and,    *)
(* when nothing falls into the middle of a scan either, that what a scan   *)
(* skips or resumes behind is stored, and that a scan which says it is     *)
(* complete leaves every file it found indexed and stored.                 *)
(***************************************************************************)
EXTENDS UsageScan, SequenceTheorems, FiniteSetTheorems, TLAPS

(* What is known of a log besides its type. *)
LogsAreWritten ==
  \A f \in File :
    /\ Len(log[f].lines) <= MaxLines
    /\ log[f].mtime <= events
    /\ Exists(log[f]) => Len(log[f].lines) >= 1 /\ log[f].mtime >= 1
    /\ ~Exists(log[f]) => log[f].lines = <<>>

(* A scan reads only what it found. *)
OnlyTheFound ==
  /\ source # None => source.file \in found
  /\ \A f \in File : results[f] # None => f \in found

ScanTypes == TypeOK /\ LogsAreWritten /\ OnlyTheFound /\ until <= now

-------------------------------------------------------------------------------
USE ScanAssumption, NoRowIsNone

(* The end of a log. *)
LEMMA LogEnds ==
  ASSUME NEW l \in Logs, Exists(l) => Len(l.lines) >= 1
  PROVE  /\ Len(l.lines) \in Nat /\ Size(l) \in Nat
         /\ Boundary(l) \in 0..Len(l.lines)
         /\ Exists(l) => Boundary(l) >= Len(l.lines) - 1
<1>1. Len(l.lines) \in Nat
  BY LenProperties DEF Logs
<1> QED  BY <1>1 DEF Size, Boundary, Exists, Logs

LEMMA LinesAre ==
  ASSUME NEW l \in Logs, NEW k \in LineNo, k <= Len(l.lines)
  PROVE  l.lines[k] \in Line /\ (l.lines[k] # Bad => l.lines[k] \in Record)
<1>1. l.lines \in Seq(Line) /\ Len(l.lines) \in Nat
  BY LenProperties DEF Logs
<1>2. k \in 1..Len(l.lines)
  BY <1>1 DEF LineNo
<1> QED  BY <1>1, <1>2, ElementOfSeq DEF Line

LEMMA RecordsAre ==
  ASSUME NEW l \in Logs, NEW S, NEW hour
  PROVE  /\ Records(l, S, hour) \in [LineNo -> Record \cup {None}]
         /\ \A k \in LineNo : Records(l, S, hour)[k] =
              (IF k \in S /\ Readable(l, k) /\ l.lines[k].hour <= hour THEN l.lines[k] ELSE None)
         /\ \A k \in LineNo : Records(l, S, hour)[k] # None =>
              /\ k \in S /\ Readable(l, k) /\ Records(l, S, hour)[k] = l.lines[k]
              /\ l.lines[k] \in Record /\ l.lines[k].hour <= hour
<1>1. ASSUME NEW k \in LineNo, Readable(l, k) PROVE l.lines[k] \in Record
  BY <1>1, LinesAre DEF Readable
<1> QED  BY <1>1 DEF Records

LEMMA SubSeqIs ==
  ASSUME NEW l \in Logs, NEW m \in Nat, m >= 1, NEW n \in Nat, n <= Len(l.lines)
  PROVE  SubSeq(l.lines, m, n) \in Seq(Line)
<1>1. l.lines \in Seq(Line) /\ Len(l.lines) \in Nat
  BY LenProperties DEF Logs
<1>2. \A i \in m..n : l.lines[i] \in Line
  BY <1>1, ElementOfSeq
<1>3. m \in Int /\ n \in Int
  OBVIOUS
<1> QED  BY <1>2, <1>3, SubSeqProperties

LEMMA FoldIs ==
  ASSUME NEW h, NEW recs, NEW part PROVE Fold(h, recs, part) \in Fact
<1> DEFINE Those(b) == {x \in File \X LineNo : recs[x[1]][x[2]] = [hour |-> h, body |-> b]}
<1>1. IsFiniteSet(File \X LineNo)
  <2>1. IsFiniteSet(1..MaxLines)
    BY FS_Interval
  <2> QED  BY <2>1, FS_Product DEF LineNo
<1>2. ASSUME NEW b \in Body PROVE Cardinality(Those(b)) \in Nat
  <2>1. Those(b) \subseteq File \X LineNo
    OBVIOUS
  <2>2. IsFiniteSet(Those(b))
    BY <1>1, <2>1, FS_Subset
  <2> QED  BY <2>2, FS_CardinalityType
<1>3. Fold(h, recs, part).rows = [b \in Body |-> Cardinality(Those(b))]
  BY Zenon DEF Fold
<1>4. [b \in Body |-> Cardinality(Those(b))] \in [Body -> Nat]
  BY <1>2
<1>5. Fold(h, recs, part) = [rows |-> Fold(h, recs, part).rows, partial |-> Fold(h, recs, part).partial]
      /\ Fold(h, recs, part).partial \in BOOLEAN
  BY DEF Fold
<1> QED  BY <1>3, <1>4, <1>5 DEF Fact

-------------------------------------------------------------------------------
(* A set of natural numbers has a least one. *)
LEMMA NatLeast ==
  ASSUME NEW S \in SUBSET Nat, S # {}
  PROVE  \E x \in S : \A y \in S : x <= y
<1>1. \E x \in S : \A y \in S : ~ (<<y, x>> \in OpToRel(<, Nat))
  BY NatLessThanWellFounded, WFMin
<1>2. OpToRel(<, Nat) = {p \in Nat \X Nat : p[1] < p[2]}
  BY Zenon DEF OpToRel
<1>3. \A x, y \in S : ~(<<y, x>> \in {p \in Nat \X Nat : p[1] < p[2]}) => x <= y
  OBVIOUS
<1> QED  BY <1>1, <1>2, <1>3

LEMMA ScanInit == Init => ScanTypes
<1> SUFFICES ASSUME Init PROVE ScanTypes
  OBVIOUS
<1>1. FirstHour \in Hour
  <2>1. \E h \in Hour : \A g \in Hour : h <= g
    BY NatLeast
  <2> QED  BY <2>1 DEF FirstHour
<1>2. /\ [lines |-> <<>>, tail |-> "none", mtime |-> 0] \in Logs
      /\ NoFact \in Fact /\ NoRecords \in [LineNo -> Record \cup {None}]
  BY EmptySeq DEF Logs, NoFact, Fact, NoRecords
<1>3. TypeOK
  <2>1. /\ log \in [File -> Logs] /\ index \in [File -> IndexRow \cup {None}]
        /\ known \in [File -> IndexRow \cup {None}] /\ results \in [File -> SourceScan \cup {None}]
        /\ stored \in [File -> [LineNo -> Record \cup {None}]]
        /\ marks \in [File -> SUBSET Hour] /\ facts \in [Hour -> Fact]
    BY <1>2 DEF Init, NoRows
  <2>2. /\ now \in Hour /\ until \in Hour /\ rebuilding \in BOOLEAN /\ found \subseteq File
        /\ todo \subseteq found /\ seesAll \in BOOLEAN /\ complete \in BOOLEAN /\ source = None
        /\ pc = "idle" /\ events \in 0..MaxEvents
    <3>1. /\ now = FirstHour /\ until = FirstHour /\ rebuilding = FALSE /\ found = {} /\ todo = {}
          /\ seesAll = TRUE /\ complete = TRUE /\ source = None /\ pc = "idle" /\ events = 0
      BY Zenon DEF Init
    <3>2. now \in Hour /\ until \in Hour
      BY <1>1, <3>1
    <3>3. rebuilding \in BOOLEAN /\ seesAll \in BOOLEAN /\ complete \in BOOLEAN
      BY <3>1
    <3>4. found \subseteq File /\ todo \subseteq found
      BY <3>1
    <3>5. events \in 0..MaxEvents
      BY <3>1
    <3> QED  BY <3>1, <3>2, <3>3, <3>4, <3>5
  <2> QED  BY <2>1, <2>2 DEF TypeOK
<1>4. LogsAreWritten
  BY EmptySeq DEF Init, LogsAreWritten, Exists
<1>5. OnlyTheFound
  BY DEF Init, OnlyTheFound, NoRows
<1> QED  BY <1>1, <1>3, <1>4, <1>5 DEF ScanTypes, Init

(* What a scan leaves when it ends. *)
LEMMA IdleTypes ==
  ASSUME TypeOK, Idle, UNCHANGED now
  PROVE  /\ pc' = "idle" /\ until' = now /\ known' \in [File -> IndexRow \cup {None}] /\ found' = {}
         /\ seesAll' \in BOOLEAN /\ todo' = {} /\ source' = None
         /\ results' \in [File -> SourceScan \cup {None}] /\ complete' \in BOOLEAN
  BY DEF Idle, NoRows

LEMMA BeginTypes == ASSUME ScanTypes, Begin PROVE ScanTypes'
<1>1. UNCHANGED <<now, log, index, stored, marks, facts, rebuilding, source>>
  BY DEF Begin, worldVars, cacheVars
<1>2. /\ pc' = "files" /\ until' = now /\ todo' = found' /\ known' = index /\ results' = NoRows
      /\ found' \subseteq File /\ seesAll' \in BOOLEAN /\ complete' \in BOOLEAN /\ pc = "idle"
  BY DEF Begin
<1>3. events' \in 0..MaxEvents /\ events <= events'
  BY DEF Begin, Meets, Mishap, ScanTypes, TypeOK
<1>4. TypeOK'
  BY <1>1, <1>2, <1>3 DEF ScanTypes, TypeOK, NoRows
<1>5. LogsAreWritten'
  BY <1>1, <1>3 DEF ScanTypes, TypeOK, LogsAreWritten, Logs
<1>6. OnlyTheFound'
  BY <1>1, <1>2 DEF ScanTypes, TypeOK, OnlyTheFound, NoRows
<1> QED  BY <1>1, <1>2, <1>4, <1>5, <1>6 DEF ScanTypes, TypeOK

(* A source as it is opened. *)
Opened(f) ==
  LET l == log[f]
      resumes == Resumes(known[f], l)
  IN  [file |-> f, size |-> Size(l), mtime |-> l.mtime, append |-> resumes,
       offset |-> IF resumes THEN known[f].offset ELSE 0,
       prefix |-> IF resumes THEN known[f].prefix ELSE <<>>,
       records |-> NoRecords, complete |-> TRUE]

LEMMA OpenedIs ==
  ASSUME ScanTypes, NEW f \in File
  PROVE  /\ Opened(f) \in SourceScan
         /\ Opened(f).file = f /\ Opened(f).mtime = log[f].mtime /\ Opened(f).size = Size(log[f])
         /\ Opened(f).records = NoRecords
         /\ Opened(f).append => /\ known[f] # None /\ Resumes(known[f], log[f])
                                /\ Opened(f).offset = known[f].offset /\ Opened(f).prefix = known[f].prefix
         /\ ~Opened(f).append => Opened(f).offset = 0 /\ Opened(f).prefix = <<>>
<1>1. log[f] \in Logs /\ (Exists(log[f]) => Len(log[f].lines) >= 1) /\ known[f] \in IndexRow \cup {None}
  BY DEF ScanTypes, TypeOK, LogsAreWritten
<1>2. Size(log[f]) \in Nat /\ log[f].mtime \in Nat
  BY <1>1, LogEnds DEF Logs
<1>3. NoRecords \in [LineNo -> Record \cup {None}] /\ <<>> \in Seq(Line) /\ 0 \in 0..MaxLines
  BY EmptySeq DEF NoRecords
<1>4. CASE Resumes(known[f], log[f])
  <2>1. known[f] \in IndexRow
    BY <1>1, <1>4 DEF Resumes
  <2>2. Resumes(known[f], log[f]) = TRUE
    BY <1>4 DEF Resumes
  <2>3. Opened(f) =
          [file |-> f, size |-> Size(log[f]), mtime |-> log[f].mtime, append |-> TRUE,
           offset |-> known[f].offset, prefix |-> known[f].prefix,
           records |-> NoRecords, complete |-> TRUE]
    BY <2>2, Zenon DEF Opened
  <2> QED  BY <1>2, <1>3, <1>4, <2>1, <2>3 DEF SourceScan, IndexRow
<1>5. CASE ~Resumes(known[f], log[f])
  <2>2. Resumes(known[f], log[f]) = FALSE
    BY <1>5 DEF Resumes
  <2>3. Opened(f) =
          [file |-> f, size |-> Size(log[f]), mtime |-> log[f].mtime, append |-> FALSE,
           offset |-> 0, prefix |-> <<>>, records |-> NoRecords, complete |-> TRUE]
    BY <2>2, Zenon DEF Opened
  <2> QED  BY <1>2, <1>3, <2>3 DEF SourceScan
<1> QED  BY <1>4, <1>5

LEMMA OpenIs ==
  ASSUME ScanTypes, NEW f \in File, Open(f)
  PROVE  /\ pc = "files" /\ f \in todo /\ todo' = todo \ {f}
         /\ UNCHANGED <<now, log, index, stored, marks, facts, rebuilding, until, known, found, seesAll,
                        results, events>>
         /\ complete' = (complete /\ Exists(log[f]))
         /\ \/ pc' = "files" /\ source' = source /\ (Exists(log[f]) => Unchanged(known[f], log[f]))
            \/ pc' = "read" /\ source' = Opened(f) /\ Exists(log[f])
  BY DEF Open, Opened, SeenWhole, worldVars, cacheVars

LEMMA OpenTypes == ASSUME ScanTypes, NEW f \in File, Open(f) PROVE ScanTypes'
<1>1. /\ pc = "files" /\ todo' = todo \ {f}
      /\ UNCHANGED <<now, log, index, stored, marks, facts, rebuilding, until, known, found, seesAll,
                     results, events>>
      /\ complete' = (complete /\ Exists(log[f]))
      /\ \/ pc' = "files" /\ source' = source
         \/ pc' = "read" /\ source' = Opened(f)
  BY OpenIs
<1>2. Opened(f) \in SourceScan
  BY OpenedIs
<1>3. complete' \in BOOLEAN
  BY <1>1 DEF ScanTypes, TypeOK
<1>4. TypeOK'
  BY <1>1, <1>2, <1>3 DEF ScanTypes, TypeOK
<1>5. OnlyTheFound'
  BY <1>1, <1>2, OpenIs, OpenedIs DEF ScanTypes, TypeOK, OnlyTheFound
<1> QED  BY <1>1, <1>4, <1>5 DEF ScanTypes, LogsAreWritten

(***************************************************************************)
(* What a read makes of its source: it took the records of the lines       *)
(* behind `after` and before or at `last`, and may rely on `offset` lines. *)
(***************************************************************************)
Reads(l, after, last, offset, clean) ==
  /\ Exists(l) /\ last \in Nat /\ last <= Len(l.lines) /\ offset \in Nat
  /\ offset >= after /\ (offset = after \/ offset <= Len(l.lines))
  /\ source' = [source EXCEPT !.records = Records(l, (after + 1)..last, until),
                              !.offset = offset,
                              !.prefix = @ \o SubSeq(l.lines, after + 1, offset),
                              !.complete = clean]

ReadsWhole(l, after) ==
  Reads(l, after, Len(l.lines), AtLeast(after, Boundary(l)),
        \A k \in (after + 1)..Len(l.lines) : Readable(l, k))

LEMMA ReadIs ==
  ASSUME ScanTypes, Read, NEW l, l = log[source.file], NEW after, after = source.offset
  PROVE  /\ pc = "read" /\ pc' = "close" /\ source \in SourceScan /\ l \in Logs /\ after \in Nat
         /\ UNCHANGED <<now, log, index, stored, marks, facts, rebuilding, until, known, found, seesAll,
                        results, complete>>
         /\ events' \in 0..MaxEvents /\ events <= events'
         /\ todo' \in {todo, {}}
         /\ \/ ~Exists(l) /\ source' = [source EXCEPT !.offset = 0, !.prefix = <<>>, !.complete = FALSE]
            \/ ReadsWhole(l, after)
            \/ "stop" \in Mishaps /\ \E last, offset : Reads(l, after, last, offset, FALSE)
            \/ \E last : Reads(l, after, last, after, FALSE)
<1>1. /\ pc = "read" /\ pc' = "close"
      /\ UNCHANGED <<now, log, index, stored, marks, facts, rebuilding, until, known, found, seesAll,
                     results, complete>>
      /\ \/ ~Exists(l) /\ IsGone
         \/ /\ Exists(l)
            /\ \/ ReadWhole(l, after)
               \/ \E k \in (after + 1)..Len(l.lines) : StopsAt(l, after, k)
               \/ \E k \in after..Len(l.lines) : FailsBehind(l, after, k)
  BY DEF Read, worldVars, cacheVars
<1>2. source \in SourceScan
  BY <1>1 DEF ScanTypes, TypeOK
<1>3. l \in Logs /\ after \in 0..MaxLines /\ (Exists(l) => Len(l.lines) >= 1)
  BY <1>2 DEF ScanTypes, TypeOK, LogsAreWritten, SourceScan
<1>4. /\ Len(l.lines) \in Nat /\ Boundary(l) \in 0..Len(l.lines) /\ after \in Nat
      /\ Exists(l) => Boundary(l) >= Len(l.lines) - 1
  BY <1>3, LogEnds
<1>5. events \in 0..MaxEvents
  BY DEF ScanTypes, TypeOK
<1> DEFINE Gone == ~Exists(l) /\ source' = [source EXCEPT !.offset = 0, !.prefix = <<>>, !.complete = FALSE]
           Outcome == /\ events' \in 0..MaxEvents /\ events <= events' /\ todo' \in {todo, {}}
                      /\ \/ Gone
                         \/ ReadsWhole(l, after)
                         \/ "stop" \in Mishaps /\ \E last, offset : Reads(l, after, last, offset, FALSE)
                         \/ \E last : Reads(l, after, last, after, FALSE)
<1>6. ASSUME ~Exists(l), IsGone PROVE Outcome
  <2>1. Gone /\ UNCHANGED <<todo, events>>
    BY <1>6, Zenon DEF IsGone
  <2> HIDE DEF Gone
  <2> QED  BY <1>5, <2>1
<1>7. ASSUME Exists(l), ReadWhole(l, after) PROVE Outcome
  <2>1. AtLeast(after, Boundary(l)) \in Nat /\ AtLeast(after, Boundary(l)) >= after
        /\ (AtLeast(after, Boundary(l)) = after \/ AtLeast(after, Boundary(l)) <= Len(l.lines))
    BY <1>4 DEF AtLeast
  <2>2. ReadsWhole(l, after)
    BY <1>4, <1>7, <2>1 DEF ReadWhole, Took, ReadsWhole, Reads
  <2>3. UNCHANGED <<todo, events>>
    BY <1>7 DEF ReadWhole
  <2> HIDE DEF Gone
  <2> QED  BY <1>5, <2>2, <2>3
<1>8. ASSUME Exists(l), NEW k \in (after + 1)..Len(l.lines), StopsAt(l, after, k) PROVE Outcome
  <2> DEFINE halt == IF k <= Boundary(l) THEN k ELSE Boundary(l)
  <2>1. halt \in Nat /\ halt >= after /\ halt <= Len(l.lines) /\ k - 1 \in Nat /\ k - 1 <= Len(l.lines)
    BY <1>4, <1>8
  <2>2. Reads(l, after, k - 1, halt, FALSE)
    BY <1>8, <2>1 DEF StopsAt, Took, Reads
  <2>3. "stop" \in Mishaps /\ todo' = {} /\ events' = events + 1 /\ events < MaxEvents
    BY <1>8 DEF StopsAt, Mishap
  <2>4. events' \in 0..MaxEvents /\ events <= events'
    BY <1>5, <2>3
  <2> HIDE DEF Gone, halt
  <2> QED  BY <2>2, <2>3, <2>4
<1>9. ASSUME Exists(l), NEW k \in after..Len(l.lines), FailsBehind(l, after, k) PROVE Outcome
  <2>1. k \in Nat /\ k <= Len(l.lines)
    BY <1>4
  <2>2. Reads(l, after, k, after, FALSE)
    BY <1>4, <1>9, <2>1 DEF FailsBehind, Took, Reads
  <2>3. todo' = todo /\ events' = events + 1 /\ events < MaxEvents
    BY <1>9 DEF FailsBehind, Mishap
  <2>4. events' \in 0..MaxEvents /\ events <= events'
    BY <1>5, <2>3
  <2> HIDE DEF Gone
  <2> QED  BY <2>2, <2>3, <2>4
<1>10. Outcome
  <2> HIDE DEF Outcome
  <2> QED  BY <1>1, <1>6, <1>7, <1>8, <1>9
<1> QED  BY <1>1, <1>2, <1>3, <1>4, <1>10

LEMMA ReadsAre ==
  ASSUME ScanTypes, source \in SourceScan, NEW l \in Logs, l = log[source.file],
         NEW last, NEW offset, NEW clean \in BOOLEAN, Reads(l, source.offset, last, offset, clean)
  PROVE  /\ source' \in SourceScan
         /\ source'.file = source.file /\ source'.size = source.size /\ source'.mtime = source.mtime
         /\ source'.append = source.append /\ source'.offset = offset /\ source'.complete = clean
         /\ source'.records = Records(l, (source.offset + 1)..last, until)
         /\ source'.prefix = source.prefix \o SubSeq(l.lines, source.offset + 1, offset)
<1>1. source.offset \in 0..MaxLines /\ source.prefix \in Seq(Line) /\ Len(l.lines) \in Nat
      /\ Len(l.lines) <= MaxLines
  BY LenProperties DEF ScanTypes, TypeOK, LogsAreWritten, SourceScan, Logs
<1>2. offset \in 0..MaxLines
  BY <1>1 DEF Reads
<1>3. SubSeq(l.lines, source.offset + 1, offset) \in Seq(Line)
  <2>1. CASE offset = source.offset
    <3>1. SubSeq(l.lines, source.offset + 1, offset) = <<>>
      BY <1>1, <2>1, SubSeqEmpty
    <3> QED  BY <3>1, EmptySeq
  <2>2. CASE offset <= Len(l.lines)
    <3>1. source.offset + 1 \in Nat /\ source.offset + 1 >= 1 /\ offset \in Nat
      BY <1>1, <1>2, ScanAssumption
    <3> HIDE DEF Logs
    <3> QED  BY <2>2, <3>1, SubSeqIs
  <2> QED  BY <2>1, <2>2 DEF Reads
<1>4. source.prefix \o SubSeq(l.lines, source.offset + 1, offset) \in Seq(Line)
  BY <1>1, <1>3, ConcatProperties
<1>5. Records(l, (source.offset + 1)..last, until) \in [LineNo -> Record \cup {None}]
  BY RecordsAre
<1>6. source' = [source EXCEPT !.records = Records(l, (source.offset + 1)..last, until),
                               !.offset = offset,
                               !.prefix = source.prefix \o SubSeq(l.lines, source.offset + 1, offset),
                               !.complete = clean]
  BY DEF Reads
<1> QED  BY <1>2, <1>4, <1>5, <1>6 DEF SourceScan

LEMMA ReadSource ==
  ASSUME ScanTypes, Read PROVE source' \in SourceScan /\ source'.file = source.file
<1> DEFINE l == log[source.file]
<1>1. /\ pc = "read" /\ pc' = "close" /\ source \in SourceScan /\ l \in Logs
      /\ UNCHANGED <<now, log, index, stored, marks, facts, rebuilding, until, known, found, seesAll,
                     results, complete>>
      /\ events' \in 0..MaxEvents /\ events <= events'
      /\ todo' \in {todo, {}}
      /\ \/ ~Exists(l) /\ source' = [source EXCEPT !.offset = 0, !.prefix = <<>>, !.complete = FALSE]
         \/ ReadsWhole(l, source.offset)
         \/ "stop" \in Mishaps /\ \E last, offset : Reads(l, source.offset, last, offset, FALSE)
         \/ \E last : Reads(l, source.offset, last, source.offset, FALSE)
  BY ReadIs
<1> HIDE DEF l
<1>2. source' \in SourceScan /\ source'.file = source.file
  <2>1. CASE ~Exists(l) /\ source' = [source EXCEPT !.offset = 0, !.prefix = <<>>, !.complete = FALSE]
    <3>1. <<>> \in Seq(Line) /\ 0 \in 0..MaxLines
      BY EmptySeq
    <3> QED  BY <1>1, <2>1, <3>1 DEF SourceScan
  <2>2. CASE ReadsWhole(l, source.offset)
    <3>1. (\A k \in (source.offset + 1)..Len(l.lines) : Readable(l, k)) \in BOOLEAN
      OBVIOUS
    <3> QED  BY <1>1, <2>2, <3>1, ReadsAre DEF ReadsWhole, l
  <2>3. CASE \E last, offset : Reads(l, source.offset, last, offset, FALSE)
    BY <1>1, <2>3, ReadsAre DEF l
  <2>4. CASE \E last : Reads(l, source.offset, last, source.offset, FALSE)
    BY <1>1, <2>4, ReadsAre DEF l
  <2> QED  BY <1>1, <2>1, <2>2, <2>3, <2>4
<1> QED  BY <1>2

LEMMA ReadTypes == ASSUME ScanTypes, Read PROVE ScanTypes'
<1>1. /\ pc = "read" /\ pc' = "close" /\ source \in SourceScan
      /\ UNCHANGED <<now, log, index, stored, marks, facts, rebuilding, until, known, found, seesAll,
                     results, complete>>
      /\ events' \in 0..MaxEvents /\ events <= events'
      /\ todo' \in {todo, {}}
  BY ReadIs
<1>2. source' \in SourceScan /\ source'.file = source.file
  BY ReadSource
<1>3. TypeOK'
  BY <1>1, <1>2 DEF ScanTypes, TypeOK
<1>4. LogsAreWritten'
  BY <1>1 DEF ScanTypes, TypeOK, LogsAreWritten, Logs
<1>5. OnlyTheFound'
  BY <1>1, <1>2 DEF ScanTypes, OnlyTheFound
<1> QED  BY <1>1, <1>3, <1>4, <1>5 DEF ScanTypes

(* What closing a source makes of it. *)
LEMMA CloseIs ==
  ASSUME ScanTypes, Close, NEW f, f = source.file, NEW l, l = log[f]
  PROVE  /\ pc = "close" /\ pc' = "files" /\ source \in SourceScan /\ source' = None /\ f \in File /\ l \in Logs
         /\ UNCHANGED <<now, log, index, stored, marks, facts, rebuilding, until, known, found, seesAll,
                        todo, events>>
         /\ \E s \in SourceScan :
              /\ results' = [results EXCEPT ![f] = s]
              /\ complete' = (complete /\ s.complete)
              /\ s.file = f /\ s.records = source.records /\ s.append = source.append
              /\ s.complete => source.complete /\ Exists(l) /\ l.mtime = source.mtime
              /\ s.mtime = IF Exists(l) THEN l.mtime ELSE source.mtime
              /\ \/ s.offset = source.offset /\ s.prefix = source.prefix
                 \/ s.offset = 0 /\ s.prefix = <<>>
<1>1. pc = "close" /\ pc' = "files" /\ source' = None
      /\ UNCHANGED <<now, log, index, stored, marks, facts, rebuilding, until, known, found, seesAll,
                     todo, events>>
  BY DEF Close, worldVars, cacheVars
<1>2. source \in SourceScan
  BY <1>1 DEF ScanTypes, TypeOK
<1>3. f \in File /\ l \in Logs /\ Size(l) \in Nat
  BY <1>2, LogEnds DEF ScanTypes, TypeOK, LogsAreWritten, SourceScan
<1> DEFINE whole == source.complete /\ ~HasChanged(l)
           s == [source EXCEPT !.complete = whole,
                               !.size  = IF Exists(l) THEN Size(l) ELSE @,
                               !.mtime = IF Exists(l) THEN l.mtime ELSE @,
                               !.offset = IF ContextFree THEN @ ELSE 0,
                               !.prefix = IF ContextFree THEN @ ELSE <<>>]
<1>4. results' = [results EXCEPT ![f] = s] /\ complete' = (complete /\ whole)
  BY Zenon DEF Close
<1>5. whole \in BOOLEAN
  BY DEF HasChanged, Exists
<1>6. s.file = f /\ s.records = source.records /\ s.append = source.append
      /\ s.mtime = (IF Exists(l) THEN l.mtime ELSE source.mtime) /\ s.complete = whole
      /\ s.size = (IF Exists(l) THEN Size(l) ELSE source.size)
      /\ s.offset = (IF ContextFree THEN source.offset ELSE 0)
      /\ s.prefix = (IF ContextFree THEN source.prefix ELSE <<>>)
  <2> HIDE DEF whole
  <2> QED  BY <1>2 DEF SourceScan
<1>7. s \in SourceScan
  <2>1. l.mtime \in Nat /\ <<>> \in Seq(Line) /\ 0 \in 0..MaxLines
    BY <1>3, EmptySeq DEF Logs
  <2>2. (IF Exists(l) THEN Size(l) ELSE source.size) \in Nat
        /\ (IF Exists(l) THEN l.mtime ELSE source.mtime) \in Nat
        /\ (IF ContextFree THEN source.offset ELSE 0) \in 0..MaxLines
        /\ (IF ContextFree THEN source.prefix ELSE <<>>) \in Seq(Line)
    BY <1>2, <1>3, <2>1 DEF SourceScan
  <2> HIDE DEF whole
  <2> QED  BY <1>2, <1>5, <2>2 DEF SourceScan
<1>8. s.complete => source.complete /\ Exists(l) /\ l.mtime = source.mtime
  BY <1>6 DEF HasChanged
<1>9. (s.offset = source.offset /\ s.prefix = source.prefix) \/ (s.offset = 0 /\ s.prefix = <<>>)
  BY <1>6
<1>10. complete' = (complete /\ s.complete)
  BY <1>4, <1>6
<1> HIDE DEF s, whole
<1> QED  BY <1>1, <1>2, <1>3, <1>4, <1>6, <1>7, <1>8, <1>9, <1>10

LEMMA CloseTypes == ASSUME ScanTypes, Close PROVE ScanTypes'
<1>1. PICK s \in SourceScan : results' = [results EXCEPT ![source.file] = s] /\ complete' = (complete /\ s.complete)
  BY CloseIs
<1>2. /\ pc' = "files" /\ source' = None
      /\ UNCHANGED <<now, log, index, stored, marks, facts, rebuilding, until, known, found, seesAll,
                     todo, events>>
  BY CloseIs
<1>3. complete' \in BOOLEAN
  BY <1>1 DEF ScanTypes, TypeOK
<1>4. TypeOK'
  BY <1>1, <1>2, <1>3 DEF ScanTypes, TypeOK
<1>5. OnlyTheFound'
  BY <1>1, <1>2, CloseIs DEF ScanTypes, TypeOK, OnlyTheFound
<1> QED  BY <1>2, <1>4, <1>5 DEF ScanTypes, LogsAreWritten

(* Which case applies to a file when a scan is applied. *)
LEMMA ApplyCases ==
  ASSUME ScanTypes, NEW f \in File
  PROVE  /\ f \in Deleted => ~Partial(f) /\ ~Appended(f) /\ ~Replaced(f)
         /\ Partial(f) => ~Appended(f) /\ ~Replaced(f)
         /\ Appended(f) => ~Replaced(f)
         /\ f \in Deleted \/ Partial(f) \/ Appended(f) \/ Replaced(f) \/ results[f] = None
         /\ results[f] = None => ~Partial(f) /\ ~Appended(f) /\ ~Replaced(f)
<1>1. f \in Deleted => results[f] = None
  BY DEF Deleted, GoneOrUnseen, ScanTypes, OnlyTheFound
<1> QED  BY <1>1 DEF Partial, Appended, Replaced

(* What applying a scan makes of a file, case by case. *)
LEMMA AppliedIs ==
  ASSUME ScanTypes, NEW f \in File
  PROVE  /\ f \in Deleted => /\ StoredAfter(f) = NoRecords /\ MarksAfter(f) = {} /\ IndexAfter(f) = None
                             /\ Touched(f) = Hours(stored[f])
         /\ Partial(f) => /\ StoredAfter(f) = Merged(f) /\ IndexAfter(f) = Progress(f)
                          /\ MarksAfter(f) = marks[f] \cup Hours(results[f].records)
                          /\ Touched(f) = Hours(results[f].records)
         /\ Appended(f) => /\ StoredAfter(f) = Merged(f) /\ MarksAfter(f) = {}
                           /\ Touched(f) = marks[f] \cup Hours(results[f].records)
         /\ Replaced(f) => /\ StoredAfter(f) = results[f].records /\ MarksAfter(f) = {}
                           /\ Touched(f) = marks[f] \cup Hours(stored[f]) \cup Hours(results[f].records)
         /\ Appended(f) \/ Replaced(f) =>
              IndexAfter(f) = [size |-> results[f].size, mtime |-> results[f].mtime,
                               offset |-> results[f].offset, prefix |-> results[f].prefix]
         /\ f \notin Deleted /\ results[f] = None =>
              /\ StoredAfter(f) = stored[f] /\ MarksAfter(f) = marks[f] /\ IndexAfter(f) = index[f]
              /\ Touched(f) = {}
<1>1. CASE f \in Deleted
  <2>1. ~Partial(f) /\ ~Appended(f) /\ ~Replaced(f) /\ f \in Deleted
    BY <1>1, ApplyCases
  <2> QED  BY <2>1 DEF StoredAfter, MarksAfter, IndexAfter, Touched
<1>2. CASE f \notin Deleted
  <2>1. CASE Partial(f)
    <3>1. ~Appended(f) /\ ~Replaced(f) /\ Partial(f) /\ results[f] # None
      BY <2>1, ApplyCases
    <3> QED  BY <1>2, <3>1 DEF StoredAfter, MarksAfter, IndexAfter, Touched
  <2>2. CASE Appended(f)
    <3>1. ~Partial(f) /\ ~Replaced(f) /\ Appended(f) /\ results[f] # None
      BY <2>2, ApplyCases
    <3> QED  BY <1>2, <3>1 DEF StoredAfter, MarksAfter, IndexAfter, Touched
  <2>3. CASE Replaced(f)
    <3>1. ~Partial(f) /\ ~Appended(f) /\ Replaced(f) /\ results[f] # None
      BY <2>3, ApplyCases
    <3> QED  BY <1>2, <3>1 DEF StoredAfter, MarksAfter, IndexAfter, Touched
  <2>4. CASE results[f] = None
    <3>1. ~Partial(f) /\ ~Appended(f) /\ ~Replaced(f)
      BY <2>4, ApplyCases
    <3> QED  BY <1>2, <2>4, <3>1 DEF StoredAfter, MarksAfter, IndexAfter, Touched
  <2> QED  BY <1>2, <2>1, <2>2, <2>3, <2>4, ApplyCases
<1> QED  BY <1>1, <1>2

LEMMA HoursAre ==
  ASSUME NEW recs \in [LineNo -> Record \cup {None}]
  PROVE  /\ Hours(recs) \subseteq Hour
         /\ \A h : h \in Hours(recs) <=> \E k \in LineNo : recs[k] # None /\ recs[k].hour = h
  BY DEF Hours, Record

LEMMA ApplyTypes == ASSUME ScanTypes, Apply PROVE ScanTypes'
<1>1. /\ pc = "files" /\ stored' = [f \in File |-> StoredAfter(f)]
      /\ marks' = [f \in File |-> MarksAfter(f)]
      /\ index' = [f \in File |-> IndexAfter(f)]
      /\ facts' = [h \in Hour |->
           IF \E f \in File : h \in Touched(f) THEN Fold(h, stored', marks') ELSE facts[h]]
      /\ rebuilding' \in BOOLEAN /\ UNCHANGED <<now, log, events>> /\ Idle
  BY DEF Apply, worldVars, StillRebuilding
<1>t. \A f \in File : /\ results[f] \in SourceScan \cup {None} /\ index[f] \in IndexRow \cup {None}
                      /\ stored[f] \in [LineNo -> Record \cup {None}] /\ marks[f] \in SUBSET Hour
  BY DEF ScanTypes, TypeOK
<1>2. ASSUME NEW f \in File
      PROVE  /\ StoredAfter(f) \in [LineNo -> Record \cup {None}]
             /\ MarksAfter(f) \in SUBSET Hour
             /\ IndexAfter(f) \in IndexRow \cup {None}
  <2>1. CASE f \in Deleted
    <3>1. StoredAfter(f) = NoRecords /\ MarksAfter(f) = {} /\ IndexAfter(f) = None
      BY <2>1, ApplyCases DEF StoredAfter, MarksAfter, IndexAfter
    <3> QED  BY <3>1 DEF NoRecords
  <2>2. CASE f \notin Deleted /\ results[f] = None
    BY <2>2, <1>t DEF StoredAfter, MarksAfter, IndexAfter, Partial, Appended, Replaced
  <2>3. CASE f \notin Deleted /\ results[f] # None
    <3>1. results[f] \in SourceScan
      BY <2>3, <1>t
    <3>2. results[f].records \in [LineNo -> Record \cup {None}] /\ results[f].size \in Nat
          /\ results[f].mtime \in Nat /\ results[f].offset \in 0..MaxLines /\ results[f].prefix \in Seq(Line)
      BY <3>1 DEF SourceScan
    <3>3. Merged(f) \in [LineNo -> Record \cup {None}]
      BY <1>t, <3>2 DEF Merged
    <3>4. Hours(results[f].records) \subseteq Hour
      BY <3>2, HoursAre
    <3>5. Progress(f) \in IndexRow \cup {None}
      BY <1>t, <3>2 DEF Progress, IndexRow
    <3>6. [size |-> results[f].size, mtime |-> results[f].mtime, offset |-> results[f].offset,
           prefix |-> results[f].prefix] \in IndexRow
      BY <3>2 DEF IndexRow
    <3>7. StoredAfter(f) \in {Merged(f), results[f].records, stored[f]}
      BY <2>3 DEF StoredAfter
    <3>8. MarksAfter(f) \in {marks[f] \cup Hours(results[f].records), {}, marks[f]}
      BY <2>3 DEF MarksAfter
    <3>9. IndexAfter(f) \in {Progress(f), index[f],
            [size |-> results[f].size, mtime |-> results[f].mtime, offset |-> results[f].offset,
             prefix |-> results[f].prefix]}
      BY <2>3 DEF IndexAfter
    <3> QED  BY <1>t, <3>2, <3>3, <3>4, <3>5, <3>6, <3>7, <3>8, <3>9
  <2> QED  BY <2>1, <2>2, <2>3
<1>3. /\ stored' \in [File -> [LineNo -> Record \cup {None}]]
      /\ marks' \in [File -> SUBSET Hour]
      /\ index' \in [File -> IndexRow \cup {None}]
  BY <1>1, <1>2
<1>4. facts' \in [Hour -> Fact]
  <2>1. \A h \in Hour : facts[h] \in Fact /\ Fold(h, stored', marks') \in Fact
    BY FoldIs DEF ScanTypes, TypeOK
  <2> QED  BY <1>1, <2>1
<1>5. /\ pc' = "idle" /\ until' = now /\ known' \in [File -> IndexRow \cup {None}] /\ found' = {}
      /\ seesAll' \in BOOLEAN /\ todo' = {} /\ source' = None
      /\ results' \in [File -> SourceScan \cup {None}] /\ complete' \in BOOLEAN
  BY <1>1, IdleTypes DEF ScanTypes
<1>6. TypeOK'
  BY <1>1, <1>3, <1>4, <1>5 DEF ScanTypes, TypeOK
<1>7. now \in Nat
  BY DEF ScanTypes, TypeOK
<1>8. OnlyTheFound'
  BY <1>1, <1>5 DEF OnlyTheFound, Idle, NoRows
<1> QED  BY <1>1, <1>5, <1>6, <1>7, <1>8 DEF ScanTypes, LogsAreWritten

(***************************************************************************)
(* What an agent does to a log: it starts one or a line of one, goes on    *)
(* with a line, or writes it anew.                                         *)
(***************************************************************************)
Writes(f) ==
  \E lines \in Seq(Line), tail \in {"ended", "open", "torn"} :
    /\ Len(lines) <= MaxLines /\ Len(lines) >= 1
    /\ log' = [log EXCEPT ![f] = [lines |-> lines, tail |-> tail, mtime |-> events + 1]]
    /\ \A k \in 1..Len(lines) :
         \/ k <= Len(log[f].lines) /\ lines[k] = log[f].lines[k]
         \/ lines[k] # Bad => lines[k].hour <= now
    /\ "rewrite" \notin Mishaps =>
         /\ log[f].tail # "gone"
         /\ Len(log[f].lines) <= Len(lines)
         /\ \A k \in 1..Len(log[f].lines) : lines[k] = log[f].lines[k]
         /\ log[f].tail = "open" => tail = "ended"
         /\ log[f].tail \in {"open", "torn"} => Len(lines) = Len(log[f].lines) /\ tail # "torn"
         /\ log[f].tail \notin {"open", "torn"} => Len(lines) = Len(log[f].lines) + 1

LEMMA AgentIs ==
  ASSUME ScanTypes, NEW f \in File, Append1(f) \/ FinishLine(f) \/ Rewrite(f)
  PROVE  /\ events < MaxEvents /\ events' = events + 1
         /\ UNCHANGED <<now, index, stored, marks, facts, rebuilding, pc, until, known, found, seesAll, todo,
                        source, results, complete>>
         /\ Writes(f)
<1>t. log \in [File -> Logs] /\ log[f] \in Logs /\ events \in Nat
  BY DEF ScanTypes, TypeOK
<1>l. log[f].lines \in Seq(Line) /\ Len(log[f].lines) \in Nat /\ Len(log[f].lines) <= MaxLines
  BY <1>t, LenProperties DEF Logs, ScanTypes, LogsAreWritten
<1>w. Writable \subseteq Line /\ \A r \in Writable : r # Bad => r.hour <= now
  BY DEF Writable, Line
<1>x. Tails \subseteq {"ended", "open", "torn"}
  BY DEF Tails
<1>1. ASSUME NEW lines, NEW tail, Write(f, lines, tail)
      PROVE  /\ events < MaxEvents /\ events' = events + 1
             /\ UNCHANGED <<now, index, stored, marks, facts, rebuilding, pc, until, known, found, seesAll,
                            todo, source, results, complete>>
             /\ log' = [log EXCEPT ![f] = [lines |-> lines, tail |-> tail, mtime |-> events + 1]]
  BY <1>1 DEF Write, cacheVars, scanVars
<1>2. CASE Append1(f)
  <2>1. PICK r \in Writable, t \in Tails : Write(f, Append(log[f].lines, r), t)
    BY <1>2 DEF Append1
  <2> DEFINE lines == Append(log[f].lines, r)
  <2>2. log[f].tail \in {"none", "ended"} /\ Len(log[f].lines) < MaxLines
    BY <1>2 DEF Append1
  <2>3. lines \in Seq(Line) /\ Len(lines) = Len(log[f].lines) + 1
        /\ lines[Len(log[f].lines) + 1] = r
        /\ \A k \in 1..Len(log[f].lines) : lines[k] = log[f].lines[k]
    BY <1>l, <1>w
  <2> HIDE DEF lines
  <2>4. Len(lines) <= MaxLines /\ Len(lines) >= 1
    BY <1>l, <2>2, <2>3
  <2>5. \A k \in 1..Len(lines) : \/ k <= Len(log[f].lines) /\ lines[k] = log[f].lines[k]
                                 \/ lines[k] # Bad => lines[k].hour <= now
    BY <1>l, <1>w, <2>3
  <2>6. log' = [log EXCEPT ![f] = [lines |-> lines, tail |-> t, mtime |-> events + 1]]
    BY <1>1, <2>1 DEF lines
  <2>8. /\ log[f].tail # "gone" /\ Len(log[f].lines) <= Len(lines)
        /\ log[f].tail = "open" => t = "ended"
        /\ log[f].tail \in {"open", "torn"} => Len(lines) = Len(log[f].lines) /\ t # "torn"
        /\ log[f].tail \notin {"open", "torn"} => Len(lines) = Len(log[f].lines) + 1
    BY <1>l, <2>2, <2>3
  <2>9. t \in {"ended", "open", "torn"}
    BY <1>x
  <2>7. Writes(f)
    BY <2>3, <2>4, <2>5, <2>6, <2>8, <2>9, Zenon DEF Writes
  <2> QED  BY <1>1, <2>1, <2>7
<1>3. CASE FinishLine(f)
  <2>1. PICK t \in Tails \ {"torn", log[f].tail} : Write(f, log[f].lines, t)
    BY <1>3 DEF FinishLine
  <2>2. log[f].tail \in {"open", "torn"} /\ Len(log[f].lines) >= 1
    BY <1>3 DEF FinishLine, ScanTypes, LogsAreWritten, Exists
  <2>3. log' = [log EXCEPT ![f] = [lines |-> log[f].lines, tail |-> t, mtime |-> events + 1]]
    BY <1>1, <2>1
  <2>4. t \in {"ended", "open", "torn"} /\ t # "torn" /\ (log[f].tail = "open" => t = "ended")
    BY <1>x
  <2>6. log[f].tail # "gone" /\ Len(log[f].lines) <= Len(log[f].lines)
    BY <1>l, <2>2
  <2>7. \A k \in 1..Len(log[f].lines) : k <= Len(log[f].lines)
    BY <1>l
  <2>5. Writes(f)
    BY <1>l, <2>2, <2>3, <2>4, <2>6, <2>7, Zenon DEF Writes
  <2> QED  BY <1>1, <2>1, <2>5
<1>4. CASE Rewrite(f)
  <2>0. PICK n \in LineNo : \E lines \in [1..n -> Writable], t \in Tails : Write(f, lines, t)
    BY <1>4 DEF Rewrite
  <2>1. PICK lines \in [1..n -> Writable], t \in Tails : Write(f, lines, t)
    BY <2>0
  <2>2. n \in Nat /\ n >= 1 /\ n <= MaxLines
    BY DEF LineNo
  <2>3. lines \in Seq(Line) /\ Len(lines) = n
    BY <1>w, <2>2, SeqDef
  <2>4. \A k \in 1..n : lines[k] # Bad => lines[k].hour <= now
    BY <1>w
  <2>5. "rewrite" \in Mishaps
    BY <1>4 DEF Rewrite
  <2>6. log' = [log EXCEPT ![f] = [lines |-> lines, tail |-> t, mtime |-> events + 1]]
    BY <1>1, <2>1
  <2>7. Writes(f)
    BY <1>x, <2>2, <2>3, <2>4, <2>5, <2>6 DEF Writes
  <2> QED  BY <1>1, <2>1, <2>7
<1> QED  BY <1>2, <1>3, <1>4

LEMMA AgentTypes ==
  ASSUME ScanTypes, NEW f \in File, Append1(f) \/ FinishLine(f) \/ Rewrite(f) PROVE ScanTypes'
<1>1. /\ events < MaxEvents /\ events' = events + 1
      /\ UNCHANGED <<now, index, stored, marks, facts, rebuilding, pc, until, known, found, seesAll, todo,
                     source, results, complete>>
      /\ Writes(f)
  BY AgentIs
<1>2. PICK lines \in Seq(Line), tail \in {"ended", "open", "torn"} :
        /\ Len(lines) <= MaxLines /\ Len(lines) >= 1
        /\ log' = [log EXCEPT ![f] = [lines |-> lines, tail |-> tail, mtime |-> events + 1]]
  BY <1>1 DEF Writes
<1>3. events \in 0..MaxEvents /\ events' \in 0..MaxEvents
  BY <1>1 DEF ScanTypes, TypeOK
<1>4. [lines |-> lines, tail |-> tail, mtime |-> events + 1] \in Logs
  BY <1>1, <1>3 DEF Logs
<1>5. log' \in [File -> Logs] /\ (\A g \in File \ {f} : log'[g] = log[g])
      /\ log'[f].lines = lines /\ log'[f].tail = tail /\ log'[f].mtime = events + 1
  BY <1>2, <1>4 DEF ScanTypes, TypeOK
<1>6. TypeOK'
  BY <1>1, <1>3, <1>5 DEF ScanTypes, TypeOK
<1>7. LogsAreWritten'
  <2>1. \A g \in File : log[g].mtime \in Nat /\ events \in Nat
    BY <1>3 DEF ScanTypes, TypeOK, Logs
  <2> QED  BY <1>1, <1>2, <1>5, <2>1 DEF ScanTypes, LogsAreWritten, Exists
<1>8. OnlyTheFound'
  BY <1>1 DEF ScanTypes, OnlyTheFound
<1> QED  BY <1>1, <1>6, <1>7, <1>8 DEF ScanTypes

(* The rest of what happens around a scan, and a scan that is stopped. *)
Around ==
  Stop \/ CutShort \/ RebuildCache \/ AnotherCompletes \/ TurnOfTheHour \/ \E f \in File : Remove(f)

LEMMA AroundTypes == ASSUME ScanTypes, Around PROVE ScanTypes'
<1>e. events \in 0..MaxEvents /\ now \in Nat
  BY DEF ScanTypes, TypeOK
<1>1. CASE Stop
  <2>1. UNCHANGED <<now, log, index, stored, marks, facts, rebuilding, pc, until, known, found, seesAll,
                    source, results>>
        /\ todo' = {} /\ complete' = FALSE /\ events' = events + 1 /\ events < MaxEvents
    BY <1>1 DEF Stop, Mishap, worldVars, cacheVars
  <2>3. events' \in 0..MaxEvents
    BY <2>1, <1>e
  <2>4. todo' \subseteq found' /\ complete' \in BOOLEAN
    BY <2>1
  <2>2. TypeOK'
    BY <2>1, <2>3, <2>4 DEF ScanTypes, TypeOK
  <2> QED  BY <2>1, <2>2, <1>e DEF ScanTypes, TypeOK, LogsAreWritten, OnlyTheFound, Logs
<1>2. CASE CutShort
  <2>1. UNCHANGED <<now, log, index, stored, marks, facts, rebuilding>> /\ Idle
        /\ events' = events + 1 /\ events < MaxEvents
    BY <1>2 DEF CutShort, Mishap, worldVars, cacheVars
  <2>2. /\ pc' = "idle" /\ until' = now /\ known' \in [File -> IndexRow \cup {None}] /\ found' = {}
        /\ seesAll' \in BOOLEAN /\ todo' = {} /\ source' = None
        /\ results' \in [File -> SourceScan \cup {None}] /\ complete' \in BOOLEAN
    BY <2>1, IdleTypes DEF ScanTypes
  <2>3. TypeOK'
    BY <2>1, <2>2, <1>e DEF ScanTypes, TypeOK
  <2>4. OnlyTheFound'
    BY <2>1, <2>2 DEF OnlyTheFound, Idle, NoRows
  <2> QED  BY <2>1, <2>2, <2>3, <2>4, <1>e DEF ScanTypes, TypeOK, LogsAreWritten, Logs
<1>3. CASE RebuildCache
  <2>1. UNCHANGED <<now, log, pc, until, known, found, seesAll, todo, source, results, complete>> /\ EmptyCache
        /\ rebuilding' = TRUE /\ events' = events + 1 /\ events < MaxEvents
    BY <1>3 DEF RebuildCache, Mishap, worldVars, scanVars
  <2>2. NoFact \in Fact /\ NoRecords \in [LineNo -> Record \cup {None}]
    BY DEF NoFact, Fact, NoRecords
  <2>3. TypeOK'
    BY <2>1, <2>2, <1>e DEF ScanTypes, TypeOK, EmptyCache, NoRows
  <2> QED  BY <2>1, <2>3, <1>e DEF ScanTypes, TypeOK, LogsAreWritten, OnlyTheFound, Logs
<1>4. CASE TurnOfTheHour
  <2>1. UNCHANGED <<log, index, stored, marks, facts, rebuilding, pc, known, found, seesAll, todo, source,
                    results, complete, events>>
        /\ now' = now + 1 /\ now + 1 \in Hour /\ until' \in {until, now'}
    BY <1>4 DEF TurnOfTheHour, cacheVars
  <2>3. now' \in Hour /\ until' \in Hour /\ until' <= now'
    BY <2>1, <1>e DEF ScanTypes, TypeOK
  <2>2. TypeOK' /\ until' <= now'
    BY <2>1, <2>3 DEF ScanTypes, TypeOK
  <2> QED  BY <2>1, <2>2 DEF ScanTypes, LogsAreWritten, OnlyTheFound
<1>5. ASSUME NEW f \in File, Remove(f) PROVE ScanTypes'
  <2>1. UNCHANGED <<now, index, stored, marks, facts, rebuilding, pc, until, known, found, seesAll, todo,
                    source, results, complete>>
        /\ log' = [log EXCEPT ![f] = [lines |-> <<>>, tail |-> "gone", mtime |-> 0]]
        /\ events' = events + 1 /\ events < MaxEvents
    BY <1>5 DEF Remove, Mishap, cacheVars, scanVars
  <2>2. [lines |-> <<>>, tail |-> "gone", mtime |-> 0] \in Logs /\ Len(<<>>) = 0
    BY EmptySeq DEF Logs
  <2>3. TypeOK'
    BY <2>1, <2>2, <1>e DEF ScanTypes, TypeOK
  <2>4. LogsAreWritten'
    <3>1. \A g \in File \ {f} : log'[g] = log[g]
      BY <2>1 DEF ScanTypes, TypeOK
    <3>2. log'[f].lines = <<>> /\ log'[f].mtime = 0 /\ ~Exists(log'[f])
      BY <2>1 DEF ScanTypes, TypeOK, Exists
    <3>3. \A g \in File : log[g].mtime \in Nat
      BY DEF ScanTypes, TypeOK, Logs
    <3> QED  BY <1>e, <2>1, <2>2, <3>1, <3>2, <3>3 DEF ScanTypes, LogsAreWritten
  <2> QED  BY <2>1, <2>3, <2>4 DEF ScanTypes, OnlyTheFound
<1>6. CASE AnotherCompletes
  <2>1. UNCHANGED <<now, log, index, stored, marks, facts, pc, until, known, found, seesAll, todo, source,
                    results, complete, events>>
        /\ rebuilding' = FALSE
    BY <1>6 DEF AnotherCompletes, worldVars, scanVars
  <2>2. TypeOK'
    BY <2>1 DEF ScanTypes, TypeOK
  <2> QED  BY <2>1, <2>2 DEF ScanTypes, LogsAreWritten, OnlyTheFound
<1> QED  BY <1>1, <1>2, <1>3, <1>4, <1>5, <1>6 DEF Around

LEMMA ScanStep == ScanTypes /\ [Next]_vars => ScanTypes'
<1>1. ASSUME ScanTypes, UNCHANGED vars PROVE ScanTypes'
  BY <1>1 DEF ScanTypes, TypeOK, LogsAreWritten, OnlyTheFound, vars, worldVars, cacheVars, scanVars
<1>2. ASSUME ScanTypes, Next PROVE ScanTypes'
  BY <1>2, BeginTypes, OpenTypes, ReadTypes, CloseTypes, ApplyTypes, AgentTypes, AroundTypes
     DEF Next, Scanner, Around
<1> QED  BY <1>1, <1>2

THEOREM ScanInvariant == SafetySpec => []ScanTypes
  BY ScanInit, ScanStep, PTL DEF SafetySpec

(* Type correctness, whatever agents and mishaps do. *)
THEOREM UsageScanTypes == SafetySpec => []TypeOK
<1>1. ScanTypes => TypeOK
  BY DEF ScanTypes
<1> QED  BY <1>1, ScanInvariant, PTL

-------------------------------------------------------------------------------
(***************************************************************************)
(* Among logs that are not rewritten a line is one record, wherever it is  *)
(* held: in the cache, in what a scan has finished, or in the source it is *)
(* at.  It is of an hour the scan takes, and still what the log says.      *)
(***************************************************************************)
Seen(f, k, r) ==
  /\ r # None
  /\ \/ stored[f][k] = r
     \/ results[f] # None /\ results[f].records[k] = r
     \/ source # None /\ source.file = f /\ source.records[k] = r

SeenIsWritten ==
  /\ \A f \in File, k \in LineNo : \A r, s \in Record : Seen(f, k, r) /\ Seen(f, k, s) => r = s
  /\ \A f \in File, k \in LineNo : \A r \in Record : Seen(f, k, r) =>
       /\ r.hour <= until
       /\ log[f].tail # "gone" => Readable(log[f], k) /\ log[f].lines[k] = r

(* Only a log that was there is indexed or found; one that is there still and indexed was found, unless *)
(* something was hidden.                                                                                *)
KnownWasThere ==
  \A f \in File :
    /\ index[f] # None \/ known[f] # None \/ f \in found => log[f].tail # "none"
    /\ seesAll /\ known[f] # None /\ Exists(log[f]) => f \in found

GrowInv == SeenIsWritten /\ KnownWasThere

LEMMA SeenStays ==
  ASSUME SeenIsWritten, until \in Int, until' \in Int, until <= until',
         \A f \in File, k \in LineNo : \A r \in Record : Seen(f, k, r)' => Seen(f, k, r),
         \A f \in File : log'[f].tail # "gone" =>
           /\ log[f].tail # "gone"
           /\ \A k \in LineNo : Readable(log[f], k) =>
                Readable(log'[f], k) /\ log'[f].lines[k] = log[f].lines[k]
  PROVE  SeenIsWritten'
<1>1. ASSUME NEW f \in File, NEW k \in LineNo, NEW r \in Record, NEW s \in Record, Seen(f, k, r)', Seen(f, k, s)'
      PROVE  r = s
  BY <1>1 DEF SeenIsWritten
<1>2. ASSUME NEW f \in File, NEW k \in LineNo, NEW r \in Record, Seen(f, k, r)'
      PROVE  r.hour <= until' /\ (log'[f].tail # "gone" => Readable(log'[f], k) /\ log'[f].lines[k] = r)
  <2>1. Seen(f, k, r)
    BY <1>2
  <2>2. r.hour <= until /\ (log[f].tail # "gone" => Readable(log[f], k) /\ log[f].lines[k] = r)
    BY <2>1 DEF SeenIsWritten
  <2>3. r.hour \in Hour
    BY DEF Record
  <2>4. r.hour \in Nat
    BY <2>3
  <2> QED  BY <2>2, <2>4
<1> QED  BY <1>1, <1>2, Zenon DEF SeenIsWritten

LEMMA GrowInit == Init => GrowInv
  BY EmptySeq DEF Init, GrowInv, SeenIsWritten, Seen, KnownWasThere, NoRows, NoRecords, Exists

LEMMA ReadIsSeen ==
  ASSUME ScanTypes, GrowInv, Read PROVE SeenIsWritten'
<1> DEFINE l == log[source.file]
<1>1. /\ pc = "read" /\ source \in SourceScan /\ l \in Logs
      /\ UNCHANGED <<now, log, index, stored, marks, facts, rebuilding, until, known, found, seesAll,
                     results, complete>>
      /\ \/ ~Exists(l) /\ source' = [source EXCEPT !.offset = 0, !.prefix = <<>>, !.complete = FALSE]
         \/ ReadsWhole(l, source.offset)
         \/ "stop" \in Mishaps /\ \E last, offset : Reads(l, source.offset, last, offset, FALSE)
         \/ \E last : Reads(l, source.offset, last, source.offset, FALSE)
  BY ReadIs
<1> HIDE DEF l
<1>2. source # None /\ source' # None /\ source'.file = source.file /\ source.file \in File
  BY <1>1, ReadSource DEF SourceScan
<1>t. until \in Nat
  BY DEF ScanTypes, TypeOK
<1>3. CASE ~Exists(l)
  <2>1. source'.records = source.records
    BY <1>1, <1>3 DEF Reads, ReadsWhole, SourceScan
  <2>2. \A f \in File, k \in LineNo : \A r \in Record : Seen(f, k, r)' => Seen(f, k, r)
    BY <1>1, <1>2, <2>1 DEF Seen
  <2> QED  BY <1>1, <1>t, <2>2, SeenStays DEF GrowInv
<1>4. CASE Exists(l)
  <2>1. PICK last : source'.records = Records(l, (source.offset + 1)..last, until)
    <3>1. CASE ReadsWhole(l, source.offset)
      <4>1. (\A k \in (source.offset + 1)..Len(l.lines) : Readable(l, k)) \in BOOLEAN
        OBVIOUS
      <4> QED  BY <1>1, <3>1, <4>1, ReadsAre DEF ReadsWhole, l
    <3>2. CASE (\E last, offset : Reads(l, source.offset, last, offset, FALSE))
               \/ (\E last : Reads(l, source.offset, last, source.offset, FALSE))
      BY <1>1, <3>2, ReadsAre DEF l
    <3> QED  BY <1>1, <1>4, <3>1, <3>2
  <2>2. ASSUME NEW f \in File, NEW k \in LineNo, NEW r \in Record, Seen(f, k, r)'
        PROVE  \/ Seen(f, k, r)
               \/ f = source.file /\ Readable(l, k) /\ l.lines[k] = r /\ r.hour <= until
    <3>1. CASE stored[f][k] = r \/ (results[f] # None /\ results[f].records[k] = r)
      BY <2>2, <3>1 DEF Seen
    <3>2. CASE source.file = f /\ Records(l, (source.offset + 1)..last, until)[k] = r
      <4>1. r # None
        BY <2>2 DEF Seen
      <4> QED  BY <1>1, <3>2, <4>1, RecordsAre
    <3> QED  BY <1>1, <1>2, <2>1, <2>2, <3>1, <3>2 DEF Seen
  <2>3. ASSUME NEW f \in File, NEW k \in LineNo, NEW r \in Record, Seen(f, k, r)'
        PROVE  r.hour <= until /\ (log[f].tail # "gone" => Readable(log[f], k) /\ log[f].lines[k] = r)
    BY <2>2, <2>3 DEF GrowInv, SeenIsWritten, l
  <2>4. ASSUME NEW f \in File, NEW k \in LineNo, NEW r \in Record, NEW s \in Record, Seen(f, k, r)', Seen(f, k, s)'
        PROVE  r = s
    <3>1. CASE log[f].tail # "gone"
      BY <2>3, <2>4, <3>1
    <3>2. CASE log[f].tail = "gone"
      <4>1. f # source.file
        BY <1>4, <3>2 DEF Exists, l
      <4>2. Seen(f, k, r) /\ Seen(f, k, s)
        BY <2>2, <2>4, <4>1
      <4> QED  BY <4>2 DEF GrowInv, SeenIsWritten
    <3> QED  BY <3>1, <3>2
  <2> QED  BY <1>1, <2>3, <2>4, Zenon DEF SeenIsWritten
<1> QED  BY <1>3, <1>4

LEMMA ApplySeen ==
  ASSUME ScanTypes, Apply, NEW f \in File, NEW k \in LineNo
  PROVE  \/ stored'[f][k] = None \/ stored'[f][k] = stored[f][k]
         \/ results[f] # None /\ stored'[f][k] = results[f].records[k]
<1>1. stored'[f] = StoredAfter(f)
  BY DEF Apply
<1>2. /\ f \in Deleted => ~Partial(f) /\ ~Appended(f) /\ ~Replaced(f)
      /\ Partial(f) => ~Appended(f) /\ ~Replaced(f)
      /\ Appended(f) => ~Replaced(f)
  BY ApplyCases
<1>3. CASE f \in Deleted
  BY <1>1, <1>2, <1>3 DEF StoredAfter, NoRecords
<1>4. CASE f \notin Deleted /\ (Partial(f) \/ Appended(f))
  <2>1. stored'[f] = Merged(f) /\ results[f] # None
    BY <1>1, <1>2, <1>4 DEF StoredAfter, Partial, Appended
  <2> QED  BY <2>1 DEF Merged
<1>5. CASE f \notin Deleted /\ ~Partial(f) /\ ~Appended(f)
  <2>1. \/ stored'[f] = stored[f]
        \/ results[f] # None /\ stored'[f] = results[f].records
    BY <1>1, <1>5 DEF StoredAfter, Replaced
  <2> QED  BY <2>1
<1> QED  BY <1>3, <1>4, <1>5

LEMMA ApplyIndexed ==
  ASSUME ScanTypes, Apply, NEW f \in File
  PROVE  index'[f] # None => index[f] # None \/ results[f] # None
<1>1. index'[f] = IndexAfter(f)
  BY DEF Apply
<1> QED  BY <1>1 DEF IndexAfter, Partial, Appended, Replaced

(* Logs that are not rewritten only grow: what can be read of one stays. *)
LEMMA LogsGrow ==
  ASSUME ScanTypes, "rewrite" \notin Mishaps, NEW f \in File, Append1(f) \/ FinishLine(f) \/ Rewrite(f),
         NEW k \in LineNo, Readable(log[f], k)
  PROVE  Readable(log'[f], k) /\ log'[f].lines[k] = log[f].lines[k]
<1>1. PICK lines \in Seq(Line), tail \in {"ended", "open", "torn"} :
        /\ log' = [log EXCEPT ![f] = [lines |-> lines, tail |-> tail, mtime |-> events + 1]]
        /\ Len(log[f].lines) <= Len(lines)
        /\ \A i \in 1..Len(log[f].lines) : lines[i] = log[f].lines[i]
        /\ log[f].tail \in {"open", "torn"} => Len(lines) = Len(log[f].lines) /\ tail # "torn"
        /\ tail = "torn" => Len(lines) > Len(log[f].lines)
  BY AgentIs DEF Writes
<1>2. log'[f].lines = lines /\ log'[f].tail = tail
  BY <1>1 DEF ScanTypes, TypeOK
<1>3. Len(lines) \in Nat /\ Len(log[f].lines) \in Nat
  BY LenProperties DEF ScanTypes, TypeOK, Logs
<1> QED  BY <1>1, <1>2, <1>3 DEF Readable, LineNo

(* A step that reads nothing: what is seen was seen, and logs stay. *)
LEMMA GrowStep ==
  ASSUME ScanTypes, GrowInv, "rewrite" \notin Mishaps, Next PROVE GrowInv'
<1>t. /\ now \in Nat /\ until \in Nat /\ until <= now
      /\ log \in [File -> Logs] /\ stored \in [File -> [LineNo -> Record \cup {None}]]
      /\ \A f \in File : results[f] # None => f \in found
  BY DEF ScanTypes, TypeOK, OnlyTheFound
<1>g. SeenIsWritten /\ KnownWasThere
  BY DEF GrowInv
<1>k. ASSUME UNCHANGED log PROVE \A f \in File : log'[f].tail # "gone" =>
           /\ log[f].tail # "gone"
           /\ \A k \in LineNo : Readable(log[f], k) =>
                Readable(log'[f], k) /\ log'[f].lines[k] = log[f].lines[k]
  BY <1>k
<1>1. CASE Begin
  <2>1. /\ UNCHANGED <<now, log, index, stored, marks, facts, rebuilding, source>>
        /\ until' = now /\ known' = index /\ results' = NoRows
    BY <1>1 DEF Begin, worldVars, cacheVars
  <2>2. PICK hidden \in SUBSET {f \in File : Exists(log[f])} :
          found' = {f \in File : Exists(log[f])} \ hidden /\ seesAll' = (hidden = {})
    BY <1>1 DEF Begin
  <2>3. \A f \in File, k \in LineNo : \A r \in Record : Seen(f, k, r)' => Seen(f, k, r)
    BY <2>1 DEF Seen, NoRows
  <2>4. SeenIsWritten'
    BY <1>t, <1>g, <1>k, <2>1, <2>3, SeenStays
  <2>5. KnownWasThere'
    BY <1>g, <2>1, <2>2 DEF KnownWasThere, Exists
  <2> QED  BY <2>4, <2>5 DEF GrowInv
<1>2. ASSUME NEW f \in File, Open(f) PROVE GrowInv'
  <2>1. /\ UNCHANGED <<now, log, index, stored, until, known, found, seesAll, results>>
        /\ source' = source \/ source' = Opened(f)
    BY <1>2, OpenIs
  <2>2. Opened(f).records = NoRecords
    BY OpenedIs
  <2>3. \A g \in File, k \in LineNo : \A r \in Record : Seen(g, k, r)' => Seen(g, k, r)
    BY <2>1, <2>2 DEF Seen, NoRecords
  <2>4. SeenIsWritten'
    BY <1>t, <1>g, <1>k, <2>1, <2>3, SeenStays
  <2>5. KnownWasThere'
    BY <1>g, <2>1 DEF KnownWasThere
  <2> QED  BY <2>4, <2>5 DEF GrowInv
<1>3. CASE Read
  <2>1. UNCHANGED <<log, index, known, found, seesAll>>
    BY <1>3 DEF Read, worldVars, cacheVars
  <2>2. KnownWasThere'
    BY <1>g, <2>1 DEF KnownWasThere
  <2> QED  BY <1>3, <2>2, ReadIsSeen DEF GrowInv
<1>4. CASE Close
  <2>1. PICK s \in SourceScan :
          results' = [results EXCEPT ![source.file] = s] /\ s.records = source.records
    BY <1>4, CloseIs
  <2>2. /\ UNCHANGED <<now, log, index, stored, until, known, found, seesAll>>
        /\ source' = None /\ source \in SourceScan /\ source.file \in File
    BY <1>4, CloseIs
  <2>3. /\ \A f \in File : f # source.file => results'[f] = results[f]
        /\ results'[source.file] = s
    BY <2>1, <2>2 DEF ScanTypes, TypeOK
  <2>4. \A f \in File, k \in LineNo : \A r \in Record : Seen(f, k, r)' => Seen(f, k, r)
    BY <2>1, <2>2, <2>3 DEF Seen
  <2>5. SeenIsWritten'
    BY <1>t, <1>g, <1>k, <2>2, <2>4, SeenStays
  <2>6. KnownWasThere'
    BY <1>g, <2>2 DEF KnownWasThere
  <2> QED  BY <2>5, <2>6 DEF GrowInv
<1>5. CASE Apply
  <2>1. /\ UNCHANGED <<now, log>> /\ until' = now /\ known' = NoRows /\ found' = {}
        /\ source' = None /\ results' = NoRows
    BY <1>5 DEF Apply, Idle, worldVars
  <2>2. \A f \in File, k \in LineNo : \A r \in Record : Seen(f, k, r)' => Seen(f, k, r)
    BY <1>5, <2>1, ApplySeen DEF Seen, NoRows
  <2>3. SeenIsWritten'
    BY <1>t, <1>g, <1>k, <2>1, <2>2, SeenStays
  <2>4. \A f \in File : index'[f] # None => log[f].tail # "none"
    BY <1>5, <1>t, <1>g, ApplyIndexed DEF KnownWasThere
  <2>5. KnownWasThere'
    BY <2>1, <2>4 DEF KnownWasThere, NoRows
  <2> QED  BY <2>3, <2>5 DEF GrowInv
<1>6. CASE Stop
  <2>1. UNCHANGED <<now, log, index, stored, until, known, found, seesAll, source, results>>
    BY <1>6 DEF Stop, worldVars, cacheVars
  <2>2. \A f \in File, k \in LineNo : \A r \in Record : Seen(f, k, r)' => Seen(f, k, r)
    BY <2>1 DEF Seen
  <2>3. SeenIsWritten'
    BY <1>t, <1>g, <1>k, <2>1, <2>2, SeenStays
  <2>4. KnownWasThere'
    BY <1>g, <2>1 DEF KnownWasThere
  <2> QED  BY <2>3, <2>4 DEF GrowInv
<1>7. CASE CutShort
  <2>1. /\ UNCHANGED <<now, log, index, stored>> /\ until' = now /\ known' = NoRows /\ found' = {}
        /\ source' = None /\ results' = NoRows
    BY <1>7 DEF CutShort, Idle, worldVars, cacheVars
  <2>2. \A f \in File, k \in LineNo : \A r \in Record : Seen(f, k, r)' => Seen(f, k, r)
    BY <2>1 DEF Seen, NoRows
  <2>3. SeenIsWritten'
    BY <1>t, <1>g, <1>k, <2>1, <2>2, SeenStays
  <2>4. KnownWasThere'
    BY <1>g, <2>1 DEF KnownWasThere, NoRows
  <2> QED  BY <2>3, <2>4 DEF GrowInv
<1>8. CASE RebuildCache
  <2>1. /\ UNCHANGED <<now, log, until, known, found, seesAll, source, results>>
        /\ index' = NoRows /\ stored' = [f \in File |-> NoRecords]
    BY <1>8 DEF RebuildCache, EmptyCache, worldVars, scanVars
  <2>2. \A f \in File, k \in LineNo : \A r \in Record : Seen(f, k, r)' => Seen(f, k, r)
    BY <2>1 DEF Seen, NoRecords
  <2>3. SeenIsWritten'
    BY <1>t, <1>g, <1>k, <2>1, <2>2, SeenStays
  <2>4. KnownWasThere'
    BY <1>g, <2>1 DEF KnownWasThere, NoRows
  <2> QED  BY <2>3, <2>4 DEF GrowInv
<1>9. CASE TurnOfTheHour
  <2>1. /\ UNCHANGED <<log, index, stored, known, found, seesAll, source, results>>
        /\ now' = now + 1 /\ until' \in {until, now'}
    BY <1>9 DEF TurnOfTheHour, cacheVars
  <2>2. \A f \in File, k \in LineNo : \A r \in Record : Seen(f, k, r)' => Seen(f, k, r)
    BY <2>1 DEF Seen
  <2>5. until' \in Int /\ until <= until'
    BY <1>t, <2>1
  <2>3. SeenIsWritten'
    BY <1>t, <1>g, <1>k, <2>1, <2>2, <2>5, SeenStays
  <2>4. KnownWasThere'
    BY <1>g, <2>1 DEF KnownWasThere
  <2> QED  BY <2>3, <2>4 DEF GrowInv
<1>10. ASSUME NEW f \in File, Append1(f) \/ FinishLine(f) \/ Rewrite(f) PROVE GrowInv'
  <2>1. /\ UNCHANGED <<now, index, stored, until, known, found, seesAll, source, results>> /\ Writes(f)
    BY <1>10, AgentIs
  <2>2. log'[f].tail \notin {"none", "gone"} /\ (\A g \in File \ {f} : log'[g] = log[g])
        /\ log[f].tail # "gone" /\ (log[f].tail \notin {"none", "gone"} <=> Exists(log[f]))
    BY <1>t, <2>1 DEF Writes, Exists
  <2>3. \A g \in File : log'[g].tail # "gone" =>
           /\ log[g].tail # "gone"
           /\ \A k \in LineNo : Readable(log[g], k) =>
                Readable(log'[g], k) /\ log'[g].lines[k] = log[g].lines[k]
    BY <1>t, <1>10, <2>2, LogsGrow
  <2>4. \A g \in File, k \in LineNo : \A r \in Record : Seen(g, k, r)' => Seen(g, k, r)
    BY <2>1 DEF Seen
  <2>5. SeenIsWritten'
    BY <1>t, <1>g, <2>1, <2>3, <2>4, SeenStays
  <2>6. KnownWasThere'
    BY <1>g, <2>1, <2>2 DEF KnownWasThere, Exists
  <2> QED  BY <2>5, <2>6 DEF GrowInv
<1>11. ASSUME NEW f \in File, Remove(f) PROVE GrowInv'
  <2>1. /\ UNCHANGED <<now, index, stored, until, known, found, seesAll, source, results>>
        /\ log' = [log EXCEPT ![f] = [lines |-> <<>>, tail |-> "gone", mtime |-> 0]]
    BY <1>11 DEF Remove, cacheVars, scanVars
  <2>2. log'[f].tail = "gone" /\ (\A g \in File \ {f} : log'[g] = log[g])
    BY <1>t, <2>1
  <2>4. \A g \in File, k \in LineNo : \A r \in Record : Seen(g, k, r)' => Seen(g, k, r)
    BY <2>1 DEF Seen
  <2>5. SeenIsWritten'
    BY <1>t, <1>g, <2>1, <2>2, <2>4, SeenStays
  <2>6. KnownWasThere'
    BY <1>g, <2>1, <2>2 DEF KnownWasThere, Exists
  <2> QED  BY <2>5, <2>6 DEF GrowInv
<1>12. CASE AnotherCompletes
  <2>1. UNCHANGED <<now, log, index, stored, known, until, found, seesAll, source, results>>
    BY <1>12 DEF AnotherCompletes, worldVars, scanVars
  <2> QED  BY <1>g, <2>1 DEF GrowInv, SeenIsWritten, KnownWasThere, Seen
<1> QED
  BY <1>1, <1>2, <1>3, <1>4, <1>5, <1>6, <1>7, <1>8, <1>9, <1>10, <1>11, <1>12 DEF Next, Scanner

THEOREM GrowInvariant ==
  ASSUME "rewrite" \notin Mishaps PROVE SafetySpec => []GrowInv
<1>1. ScanTypes /\ GrowInv /\ [Next]_vars => GrowInv'
  <2>1. ASSUME GrowInv, UNCHANGED vars PROVE GrowInv'
    BY <2>1 DEF GrowInv, SeenIsWritten, KnownWasThere, Seen, vars, worldVars, cacheVars, scanVars
  <2> QED  BY <2>1, GrowStep
<1> QED  BY <1>1, GrowInit, ScanInvariant, PTL DEF SafetySpec
-------------------------------------------------------------------------------
(***************************************************************************)
(* The hourly facts.  A file is marked partial in no hour it has no record *)
(* of, so that an hour none of a scan's sources touches adds up to what it *)
(* did before.                                                             *)
(***************************************************************************)
MarksAreStored == \A f \in File : marks[f] \subseteq Hours(stored[f])

FactsInv == FactsFollowRecords /\ MarksAreStored

(* A fact depends on the records of its hour and on the marks of it. *)
LEMMA FoldSame ==
  ASSUME NEW h, NEW recs, NEW part, NEW recs2, NEW part2,
         \A f \in File, k \in LineNo, b \in Body :
           (recs2[f][k] = [hour |-> h, body |-> b]) <=> (recs[f][k] = [hour |-> h, body |-> b]),
         \A f \in File : h \in part2[f] <=> h \in part[f]
  PROVE  Fold(h, recs2, part2) = Fold(h, recs, part)
<1> DEFINE Those(r, b) == {x \in File \X LineNo : r[x[1]][x[2]] = [hour |-> h, body |-> b]}
           Rows(r) == [b \in Body |-> Cardinality(Those(r, b))]
           Part(r, p) == (\E b \in Body : Rows(r)[b] > 0) /\ (\E f \in File : h \in p[f])
<1>1. ASSUME NEW b \in Body PROVE Those(recs2, b) = Those(recs, b)
  OBVIOUS
<1>2. Fold(h, recs2, part2) = [rows |-> Rows(recs2), partial |-> Part(recs2, part2)]
      /\ Fold(h, recs, part) = [rows |-> Rows(recs), partial |-> Part(recs, part)]
  BY Zenon DEF Fold
<1> HIDE DEF Those
<1>3. Rows(recs2) = Rows(recs)
  BY <1>1
<1> HIDE DEF Rows
<1>4. Part(recs2, part2) = Part(recs, part)
  BY <1>3
<1> HIDE DEF Part
<1> QED  BY <1>2, <1>3, <1>4

(* No records add up to nothing. *)
LEMMA FoldOfNothing ==
  ASSUME NEW h \in Hour, NEW recs, NEW part, \A f \in File, k \in LineNo : recs[f][k] = None
  PROVE  Fold(h, recs, part) = NoFact
<1> DEFINE Those(b) == {x \in File \X LineNo : recs[x[1]][x[2]] = [hour |-> h, body |-> b]}
           Rows == [b \in Body |-> Cardinality(Those(b))]
<1>1. ASSUME NEW b \in Body PROVE Cardinality(Those(b)) = 0
  <2>1. [hour |-> h, body |-> b] \in Record
    BY DEF Record
  <2>2. Those(b) = {}
    BY <2>1
  <2> QED  BY <2>2, FS_EmptySet
<1>2. Fold(h, recs, part) =
        [rows |-> Rows, partial |-> (\E b \in Body : Rows[b] > 0) /\ (\E f \in File : h \in part[f])]
  BY Zenon DEF Fold
<1> HIDE DEF Those
<1>3. Rows = [b \in Body |-> 0]
  BY <1>1
<1> HIDE DEF Rows
<1>4. ~\E b \in Body : Rows[b] > 0
  BY <1>3
<1> QED  BY <1>2, <1>3, <1>4 DEF NoFact

LEMMA FactsInit == Init => FactsInv
<1> SUFFICES ASSUME Init PROVE FactsInv
  OBVIOUS
<1>1. \A f \in File, k \in LineNo : stored[f][k] = None
  BY DEF Init, NoRecords
<1>2. facts = [h \in Hour |-> NoFact] /\ marks = [f \in File |-> {}]
  BY DEF Init
<1> QED  BY <1>1, <1>2, FoldOfNothing DEF FactsInv, FactsFollowRecords, MarksAreStored

(* Of a line that a scan has read and the cache holds, both hold the same record. *)
LEMMA TheSameRecord ==
  ASSUME ScanTypes, GrowInv, NEW f \in File, NEW k \in LineNo,
         results[f] # None, results[f].records[k] # None, stored[f][k] # None
  PROVE  results[f].records[k] = stored[f][k]
<1>1. results[f].records[k] \in Record /\ stored[f][k] \in Record
  BY DEF ScanTypes, TypeOK, SourceScan
<1>2. Seen(f, k, results[f].records[k]) /\ Seen(f, k, stored[f][k])
  BY DEF Seen
<1> QED  BY <1>1, <1>2 DEF GrowInv, SeenIsWritten

(* What is merged is of the hours of both. *)
LEMMA MergedHours ==
  ASSUME ScanTypes, GrowInv, NEW f \in File, results[f] # None
  PROVE  Hours(Merged(f)) = Hours(stored[f]) \cup Hours(results[f].records)
<1>1. /\ stored[f] \in [LineNo -> Record \cup {None}]
      /\ results[f].records \in [LineNo -> Record \cup {None}]
  BY DEF ScanTypes, TypeOK, SourceScan
<1>2. Merged(f) \in [LineNo -> Record \cup {None}]
      /\ \A k \in LineNo : Merged(f)[k] = IF results[f].records[k] # None THEN results[f].records[k]
                                          ELSE stored[f][k]
  BY <1>1 DEF Merged
<1>3. \A k \in LineNo : stored[f][k] # None => Merged(f)[k] = stored[f][k]
  BY <1>2, TheSameRecord
<1> QED  BY <1>1, <1>2, <1>3, HoursAre

LEMMA ApplyMarks ==
  ASSUME ScanTypes, GrowInv, FactsInv, NEW f \in File
  PROVE  MarksAfter(f) \subseteq Hours(StoredAfter(f))
<1>1. marks[f] \subseteq Hours(stored[f])
  BY DEF FactsInv, MarksAreStored
<1>2. CASE f \in Deleted \/ Appended(f) \/ Replaced(f)
  <2>1. MarksAfter(f) = {}
    BY <1>2, AppliedIs
  <2> QED  BY <2>1
<1>3. CASE f \notin Deleted /\ Partial(f)
  <2>1. MarksAfter(f) = marks[f] \cup Hours(results[f].records) /\ StoredAfter(f) = Merged(f)
        /\ results[f] # None
    BY <1>3, AppliedIs DEF Partial
  <2> QED  BY <1>1, <2>1, MergedHours
<1>4. CASE f \notin Deleted /\ results[f] = None
  <2>1. MarksAfter(f) = marks[f] /\ StoredAfter(f) = stored[f]
    BY <1>4, AppliedIs
  <2> QED  BY <1>1, <2>1
<1> QED  BY <1>2, <1>3, <1>4, ApplyCases

LEMMA UntouchedStays ==
  ASSUME ScanTypes, GrowInv, FactsInv, NEW f \in File, NEW h \in Hour, h \notin Touched(f)
  PROVE  /\ \A k \in LineNo, b \in Body :
              (StoredAfter(f)[k] = [hour |-> h, body |-> b]) <=> (stored[f][k] = [hour |-> h, body |-> b])
         /\ h \in MarksAfter(f) <=> h \in marks[f]
<1>1. /\ stored[f] \in [LineNo -> Record \cup {None}]
      /\ results[f] # None => results[f].records \in [LineNo -> Record \cup {None}]
      /\ marks[f] \subseteq Hours(stored[f])
  BY DEF ScanTypes, TypeOK, SourceScan, FactsInv, MarksAreStored
<1>r. \A b \in Body : [hour |-> h, body |-> b] \in Record /\ [hour |-> h, body |-> b].hour = h
                      /\ [hour |-> h, body |-> b] # None
  BY DEF Record
<1>h. ASSUME NEW recs \in [LineNo -> Record \cup {None}], h \notin Hours(recs), NEW k \in LineNo, NEW b \in Body
      PROVE  recs[k] # [hour |-> h, body |-> b]
  BY <1>r, <1>h, HoursAre
<1>2. CASE f \in Deleted
  <2>1. Touched(f) = Hours(stored[f]) /\ MarksAfter(f) = {} /\ StoredAfter(f) = NoRecords
    BY <1>2, AppliedIs
  <2>2. \A k \in LineNo : StoredAfter(f)[k] = None
    BY <2>1 DEF NoRecords
  <2> QED  BY <1>1, <1>r, <1>h, <2>1, <2>2
<1>3. CASE f \notin Deleted /\ (Partial(f) \/ Appended(f))
  <2>1. StoredAfter(f) = Merged(f) /\ results[f] # None
    BY <1>3, AppliedIs DEF Partial, Appended
  <2>2. h \notin Hours(results[f].records)
    BY <1>3, AppliedIs
  <2>3. ASSUME NEW k \in LineNo, NEW b \in Body
        PROVE  (StoredAfter(f)[k] = [hour |-> h, body |-> b]) <=> (stored[f][k] = [hour |-> h, body |-> b])
    <3>1. results[f].records[k] # [hour |-> h, body |-> b]
      BY <1>1, <1>h, <2>1, <2>2
    <3>2. StoredAfter(f)[k] = IF results[f].records[k] # None THEN results[f].records[k] ELSE stored[f][k]
      BY <2>1 DEF Merged
    <3>3. results[f].records[k] # None /\ stored[f][k] # None => results[f].records[k] = stored[f][k]
      BY <2>1, TheSameRecord
    <3> QED  BY <1>r, <3>1, <3>2, <3>3
  <2>4. CASE Partial(f)
    <3>1. MarksAfter(f) = marks[f] \cup Hours(results[f].records)
      BY <1>3, <2>4, AppliedIs
    <3> QED  BY <2>2, <2>3, <3>1
  <2>5. CASE Appended(f)
    <3>1. MarksAfter(f) = {} /\ h \notin marks[f]
      BY <1>3, <2>5, AppliedIs
    <3> QED  BY <2>3, <3>1
  <2> QED  BY <1>3, <2>4, <2>5
<1>4. CASE f \notin Deleted /\ Replaced(f)
  <2>1. StoredAfter(f) = results[f].records /\ MarksAfter(f) = {} /\ results[f] # None
    BY <1>4, AppliedIs DEF Replaced
  <2>2. h \notin marks[f] /\ h \notin Hours(stored[f]) /\ h \notin Hours(results[f].records)
    BY <1>4, AppliedIs
  <2> QED  BY <1>1, <1>h, <2>1, <2>2
<1>5. CASE f \notin Deleted /\ results[f] = None
  <2>1. MarksAfter(f) = marks[f] /\ StoredAfter(f) = stored[f]
    BY <1>5, AppliedIs
  <2> QED  BY <2>1
<1> QED  BY <1>2, <1>3, <1>4, <1>5, ApplyCases

LEMMA FactsStep ==
  ASSUME ScanTypes, GrowInv, FactsInv, [Next]_vars PROVE FactsInv'
<1>1. CASE UNCHANGED <<stored, marks, facts>>
  <2>1. \A h \in Hour : facts'[h] = Fold(h, stored', marks')
    BY <1>1 DEF FactsInv, FactsFollowRecords
  <2>2. \A f \in File : marks'[f] \subseteq Hours(stored'[f])
    BY <1>1 DEF FactsInv, MarksAreStored
  <2> QED  BY <2>1, <2>2 DEF FactsInv, FactsFollowRecords, MarksAreStored
<1>2. CASE RebuildCache
  <2>1. stored' = [f \in File |-> NoRecords] /\ marks' = [f \in File |-> {}] /\ facts' = [h \in Hour |-> NoFact]
    BY <1>2 DEF RebuildCache, EmptyCache
  <2>2. \A f \in File, k \in LineNo : stored'[f][k] = None
    BY <2>1 DEF NoRecords
  <2>3. \A h \in Hour : facts'[h] = Fold(h, stored', marks')
    BY <2>1, <2>2, FoldOfNothing
  <2> QED  BY <2>1, <2>3 DEF FactsInv, FactsFollowRecords, MarksAreStored
<1>3. CASE Apply
  <2>1. /\ stored' = [f \in File |-> StoredAfter(f)]
        /\ marks' = [f \in File |-> MarksAfter(f)]
        /\ facts' = [h \in Hour |->
             IF \E f \in File : h \in Touched(f) THEN Fold(h, stored', marks') ELSE facts[h]]
    BY <1>3 DEF Apply
  <2>2. \A f \in File : stored'[f] = StoredAfter(f) /\ marks'[f] = MarksAfter(f)
    BY <2>1
  <2>3. MarksAreStored'
    BY <2>2, ApplyMarks DEF MarksAreStored, Hours
  <2>4. ASSUME NEW h \in Hour PROVE facts'[h] = Fold(h, stored', marks')
    <3>1. CASE \E f \in File : h \in Touched(f)
      BY <2>1, <3>1
    <3>2. CASE \A f \in File : h \notin Touched(f)
      <4>1. facts'[h] = Fold(h, stored, marks)
        BY <2>1, <3>2 DEF FactsInv, FactsFollowRecords
      <4>2. \A f \in File, k \in LineNo, b \in Body :
              (stored'[f][k] = [hour |-> h, body |-> b]) <=> (stored[f][k] = [hour |-> h, body |-> b])
        BY <2>2, <3>2, UntouchedStays
      <4>3. \A f \in File : h \in marks'[f] <=> h \in marks[f]
        BY <2>2, <3>2, UntouchedStays
      <4> QED  BY <4>1, <4>2, <4>3, FoldSame
    <3> QED  BY <3>1, <3>2
  <2>5. FactsFollowRecords'
    BY <2>4 DEF FactsFollowRecords, Fold
  <2> QED  BY <2>3, <2>5 DEF FactsInv
<1>4. CASE UNCHANGED vars
  BY <1>1, <1>4 DEF vars, cacheVars
<1>5. ASSUME Next, ~Apply, ~RebuildCache PROVE UNCHANGED <<stored, marks, facts>>
  BY <1>5 DEF Next, Scanner, Begin, Open, Read, Close, Stop, CutShort, AnotherCompletes, TurnOfTheHour,
              Append1, FinishLine, Rewrite, Remove, Write, cacheVars
<1> QED  BY <1>1, <1>2, <1>3, <1>4, <1>5

(* Among logs that are not rewritten, an hourly fact is what the retained records of its hour add up to. *)
THEOREM FactsAreFolds ==
  ASSUME "rewrite" \notin Mishaps PROVE SafetySpec => []FactsFollowRecords
<1>1. ScanTypes /\ GrowInv /\ FactsInv /\ [Next]_vars => FactsInv'
  BY FactsStep
<1>2. FactsInv => FactsFollowRecords
  BY DEF FactsInv
<1> QED  BY <1>1, <1>2, FactsInit, ScanInvariant, GrowInvariant, PTL DEF SafetySpec

-------------------------------------------------------------------------------
(***************************************************************************)
(* Applying a scan.  A source that replaces what is stored of its file was *)
(* read from its start to its end, and has each record that is stored.     *)
(***************************************************************************)
Covers(f, s) ==
  s.complete /\ ~s.append => \A k \in LineNo : stored[f][k] # None => s.records[k] # None

CoverInv ==
  /\ \A f \in File : results[f] # None => Covers(f, results[f])
  /\ pc = "close" => Covers(source.file, source)
  /\ pc = "read" => (~source.append => source.offset = 0)

LEMMA CoverInit == Init => CoverInv
  BY DEF Init, CoverInv, NoRows

(* What is left of a cover when nothing more is stored. *)
LEMMA CoverStays ==
  ASSUME CoverInv, UNCHANGED <<pc, source, results>>,
         \A f \in File, k \in LineNo : stored'[f][k] # None => stored[f][k] # None,
         source # None => source.file \in File, pc = "close" => source # None
  PROVE  CoverInv'
  BY DEF CoverInv, Covers

LEMMA ReadCovers ==
  ASSUME ScanTypes, GrowInv, CoverInv, Read PROVE Covers(source.file, source)'
<1> DEFINE l == log[source.file]
<1>1. /\ pc = "read" /\ source \in SourceScan /\ l \in Logs
      /\ UNCHANGED <<now, log, index, stored, marks, facts, rebuilding, until, known, found, seesAll,
                     results, complete>>
      /\ \/ ~Exists(l) /\ source' = [source EXCEPT !.offset = 0, !.prefix = <<>>, !.complete = FALSE]
         \/ ReadsWhole(l, source.offset)
         \/ "stop" \in Mishaps /\ \E last, offset : Reads(l, source.offset, last, offset, FALSE)
         \/ \E last : Reads(l, source.offset, last, source.offset, FALSE)
  BY ReadIs
<1>2. source'.file = source.file /\ source.file \in File
  BY <1>1, ReadSource DEF SourceScan
<1>l. l = log[source.file]
  OBVIOUS
<1> HIDE DEF l
<1>3. CASE ReadsWhole(l, source.offset)
  <2>1. (\A k \in (source.offset + 1)..Len(l.lines) : Readable(l, k)) \in BOOLEAN
    OBVIOUS
  <2>2. source'.records = Records(l, (source.offset + 1)..Len(l.lines), until)
        /\ source'.append = source.append
    BY <1>1, <1>3, <1>l, <2>1, ReadsAre DEF ReadsWhole
  <2>3. ASSUME ~source.append, NEW k \in LineNo, stored[source.file][k] # None
        PROVE  source'.records[k] # None
    <3>1. source.offset = 0 /\ Exists(l)
      BY <1>1, <1>3, <2>3 DEF CoverInv, ReadsWhole, Reads
    <3> DEFINE r == stored[source.file][k]
    <3>2. r \in Record /\ Seen(source.file, k, r)
      BY <1>2, <2>3 DEF ScanTypes, TypeOK, Seen
    <3>3. r.hour <= until /\ Readable(l, k) /\ l.lines[k] = r
      BY <1>2, <1>l, <3>1, <3>2 DEF GrowInv, SeenIsWritten, Exists
    <3>4. k \in (source.offset + 1)..Len(l.lines)
      <4>1. Len(l.lines) \in Nat
        BY <1>1, LenProperties DEF Logs
      <4> QED  BY <3>1, <3>3, <4>1 DEF LineNo, Readable
    <3> DEFINE S == (source.offset + 1)..Len(l.lines)
    <3> HIDE DEF r, S
    <3>6. Records(l, S, until)[k] = IF k \in S /\ Readable(l, k) /\ l.lines[k].hour <= until THEN l.lines[k] ELSE None
      BY <1>1, RecordsAre
    <3>5. source'.records[k] = r
      BY <2>2, <3>3, <3>4, <3>6 DEF S
    <3> QED  BY <3>2, <3>5
  <2> QED  BY <1>1, <1>2, <2>2, <2>3 DEF Covers
<1>4. CASE ~ReadsWhole(l, source.offset)
  <2>1. source'.complete = FALSE
    <3>1. CASE ~Exists(l) /\ source' = [source EXCEPT !.offset = 0, !.prefix = <<>>, !.complete = FALSE]
      BY <1>1, <3>1 DEF SourceScan
    <3>2. CASE (\E last, offset : Reads(l, source.offset, last, offset, FALSE))
               \/ (\E last : Reads(l, source.offset, last, source.offset, FALSE))
      BY <1>1, <1>l, <3>2, ReadsAre
    <3> QED  BY <1>1, <1>4, <3>1, <3>2
  <2> QED  BY <2>1 DEF Covers
<1> QED  BY <1>3, <1>4

LEMMA CoverStep ==
  ASSUME ScanTypes, GrowInv, CoverInv, [Next]_vars PROVE CoverInv'
<1>t. /\ source # None => source.file \in File
      /\ pc = "close" => source # None
      /\ source = None <=> pc \in {"idle", "files"}
      /\ results \in [File -> SourceScan \cup {None}]
  BY DEF ScanTypes, TypeOK, SourceScan
<1>1. CASE Begin \/ CutShort
  <2>1. results' = NoRows /\ pc' \in {"idle", "files"}
    BY <1>1 DEF Begin, CutShort, Idle
  <2> QED  BY <2>1 DEF CoverInv, NoRows
<1>2. ASSUME NEW f \in File, Open(f) PROVE CoverInv'
  <2>1. /\ UNCHANGED <<stored, results>> /\ pc = "files"
        /\ (pc' = "files" /\ source' = source) \/ (pc' = "read" /\ source' = Opened(f))
    BY <1>2, OpenIs
  <2>2. ~Opened(f).append => Opened(f).offset = 0
    BY OpenedIs
  <2> QED  BY <2>1, <2>2 DEF CoverInv, Covers
<1>3. CASE Read
  <2>1. UNCHANGED <<stored, results>> /\ pc' = "close"
    BY <1>3 DEF Read, cacheVars
  <2>2. Covers(source.file, source)'
    BY <1>3, ReadCovers
  <2> QED  BY <2>1, <2>2 DEF CoverInv, Covers
<1>4. CASE Close
  <2>1. PICK s \in SourceScan :
          /\ results' = [results EXCEPT ![source.file] = s] /\ s.records = source.records
          /\ s.append = source.append /\ (s.complete => source.complete)
    BY <1>4, CloseIs
  <2>2. pc = "close" /\ pc' = "files" /\ UNCHANGED stored
    BY <1>4, CloseIs
  <2>3. Covers(source.file, s)
    BY <2>1, <2>2 DEF CoverInv, Covers
  <2>4. \A f \in File : results'[f] = IF f = source.file THEN s ELSE results[f]
    BY <1>t, <2>1
  <2> QED  BY <2>2, <2>3, <2>4 DEF CoverInv, Covers
<1>5. CASE Apply
  <2>1. results' = NoRows /\ pc' = "idle"
    BY <1>5 DEF Apply, Idle
  <2> QED  BY <2>1 DEF CoverInv, NoRows
<1>6. CASE RebuildCache
  <2>1. UNCHANGED <<pc, source, results>> /\ stored' = [f \in File |-> NoRecords]
    BY <1>6 DEF RebuildCache, EmptyCache, scanVars
  <2> QED  BY <1>t, <2>1, CoverStays DEF NoRecords
<1>7. CASE Stop \/ AnotherCompletes \/ TurnOfTheHour \/ UNCHANGED vars
           \/ \E f \in File : Append1(f) \/ FinishLine(f) \/ Rewrite(f) \/ Remove(f)
  <2>1. UNCHANGED <<pc, source, results, stored>>
    BY <1>7 DEF Stop, AnotherCompletes, TurnOfTheHour, Append1, FinishLine, Rewrite, Remove, Write, vars,
                scanVars, cacheVars
  <2> QED  BY <1>t, <2>1, CoverStays
<1> QED  BY <1>1, <1>2, <1>3, <1>4, <1>5, <1>6, <1>7 DEF Next, Scanner

LEMMA ApplyKeeps ==
  ASSUME ScanTypes, GrowInv, CoverInv, Apply, NEW f \in File, Exists(log[f]), NEW k \in LineNo,
         stored[f][k] # None
  PROVE  stored'[f][k] # None
<1>1. stored'[f] = StoredAfter(f)
  BY DEF Apply
<1>2. f \notin Deleted
  BY DEF GrowInv, KnownWasThere, Deleted, GoneOrUnseen
<1>3. CASE Partial(f) \/ Appended(f)
  <2>1. stored'[f] = Merged(f)
    BY <1>1, <1>3, AppliedIs
  <2> QED  BY <2>1 DEF Merged
<1>4. CASE Replaced(f)
  <2>1. stored'[f] = results[f].records /\ results[f] # None /\ results[f].complete /\ ~results[f].append
    BY <1>1, <1>4, AppliedIs DEF Replaced
  <2> QED  BY <2>1 DEF CoverInv, Covers
<1>5. CASE results[f] = None
  BY <1>1, <1>2, <1>5, AppliedIs
<1> QED  BY <1>2, <1>3, <1>4, <1>5, ApplyCases

(* Among logs that only grow, a scan that saw too little deletes nothing of a log that is there. *)
THEOREM NothingIsLost ==
  ASSUME "rewrite" \notin Mishaps PROVE SafetySpec => ApplyLosesNothing
<1>1. ScanTypes /\ GrowInv /\ CoverInv /\ [Next]_vars => CoverInv'
  BY CoverStep
<1>2. ScanTypes /\ GrowInv /\ CoverInv /\ [Next]_vars =>
        [Apply => \A f \in File : Exists(log[f]) =>
           \A k \in LineNo : stored[f][k] # None => stored'[f][k] # None]_vars
  BY ApplyKeeps
<1> QED  BY <1>1, <1>2, CoverInit, ScanInvariant, GrowInvariant, PTL DEF SafetySpec, ApplyLosesNothing

-------------------------------------------------------------------------------
(***************************************************************************)
(* When nothing falls into the middle of a scan either: what is in front   *)
(* of an offset is held, and so is the whole log at a modification time    *)
(* that vouches for it.                                                    *)
(***************************************************************************)
Held(f) == {k \in LineNo : stored[f][k] # None}

Got(f, s) == {k \in LineNo : s.records[k] # None \/ (s.append /\ stored[f][k] # None)}

Stands(l, mtime, offset, whole, held) ==
  Exists(l) =>
    /\ mtime <= l.mtime /\ offset <= Boundary(l)
    /\ \A k \in LineNo : k <= offset /\ Readable(l, k) => k \in held
    /\ whole /\ mtime = l.mtime => \A k \in LineNo : Readable(l, k) => k \in held

RowsStand == \A f \in File : index[f] # None => Stands(log[f], index[f].mtime, index[f].offset, TRUE, Held(f))

AnswerStands(f, s) == Stands(log[f], s.mtime, s.offset, s.complete, Got(f, s))

SourceStands ==
  /\ pc = "read" => Stands(log[source.file], source.mtime, source.offset, FALSE, Held(source.file))
  /\ pc = "close" => AnswerStands(source.file, source)

ResultsStand == \A f \in File : results[f] # None => AnswerStands(f, results[f])

(* The hour the scan takes is the hour it is, and the index as it read it is the index. *)
UpToDate ==
  /\ until = now
  /\ pc # "idle" => known = index
  /\ pc = "idle" => found = {}
  /\ \A f \in File : \A k \in 1..Len(log[f].lines) : log[f].lines[k] # Bad => log[f].lines[k].hour <= now

(* A scan with no reason to be partial has not passed over a file it found. *)
PassedOver ==
  complete => /\ \A f \in File : results[f] # None => results[f].complete
              /\ \A f \in found : \/ f \in todo \/ results[f] # None \/ index[f] # None
                                  \/ source # None /\ source.file = f

Undisturbed == Mishaps \cap {"rewrite", "reset", "turn", "stop"} = {}

QuietInv == RowsStand /\ SourceStands /\ ResultsStand /\ UpToDate /\ PassedOver

LEMMA QuietInit == Init => QuietInv
<1> SUFFICES ASSUME Init PROVE QuietInv
  OBVIOUS
<1>1. /\ \A f \in File : index[f] = None /\ results[f] = None /\ log[f].lines = <<>>
      /\ pc = "idle" /\ found = {} /\ until = now
  BY DEF Init, NoRows
<1>2. RowsStand /\ SourceStands /\ ResultsStand
  BY <1>1 DEF RowsStand, SourceStands, ResultsStand
<1>3. UpToDate
  BY <1>1, EmptySeq DEF UpToDate
<1>4. PassedOver
  BY <1>1 DEF PassedOver
<1> QED  BY <1>2, <1>3, <1>4 DEF QuietInv

(* To hold more is no harm. *)
LEMMA StandsWithMore ==
  ASSUME NEW l, NEW m, NEW o, NEW w, NEW S, NEW T, Stands(l, m, o, w, S), S \subseteq T
  PROVE  Stands(l, m, o, w, T)
  BY DEF Stands

(* What stands does when the log grows: the lines in front of its boundary are done with. *)
LEMMA StandsWhenItGrows ==
  ASSUME ScanTypes, "rewrite" \notin Mishaps, NEW f \in File, Append1(f) \/ FinishLine(f) \/ Rewrite(f),
         log[f].tail # "none", NEW m \in Nat, NEW o \in Nat, NEW w, NEW S, Stands(log[f], m, o, w, S)
  PROVE  Stands(log'[f], m, o, w, S)
<1>1. PICK lines \in Seq(Line), tail \in {"ended", "open", "torn"} :
        /\ log' = [log EXCEPT ![f] = [lines |-> lines, tail |-> tail, mtime |-> events + 1]]
        /\ log[f].tail # "gone" /\ Len(log[f].lines) <= Len(lines)
        /\ \A i \in 1..Len(log[f].lines) : lines[i] = log[f].lines[i]
        /\ log[f].tail \notin {"open", "torn"} => Len(lines) = Len(log[f].lines) + 1
  BY AgentIs DEF Writes
<1>2. log'[f].lines = lines /\ log'[f].tail = tail /\ log'[f].mtime = events + 1
  BY <1>1 DEF ScanTypes, TypeOK
<1>3. /\ Len(lines) \in Nat /\ Len(log[f].lines) \in Nat /\ events \in Nat /\ log[f].mtime \in Nat
      /\ log[f].mtime <= events /\ Exists(log[f]) /\ log[f] \in Logs
  BY <1>1, LenProperties DEF ScanTypes, TypeOK, LogsAreWritten, Logs, Exists
<1>4. /\ Boundary(log[f]) \in Nat /\ Boundary(log[f]) <= Len(log[f].lines)
      /\ Boundary(log'[f]) \in Nat /\ Boundary(log[f]) <= Boundary(log'[f])
      /\ log[f].tail \in {"open", "torn"} => Boundary(log[f]) = Len(log[f].lines) - 1
  <2>1. Len(log[f].lines) >= 1
    BY <1>3 DEF ScanTypes, LogsAreWritten
  <2> QED  BY <1>1, <1>2, <1>3, <2>1 DEF Boundary
<1>5. ASSUME NEW k \in LineNo, k <= o, Readable(log'[f], k) PROVE k \in S
  <2>1. o <= Boundary(log[f])
    BY <1>3 DEF Stands
  <2>2. k \in 1..Len(log[f].lines) /\ ~(k = Len(log[f].lines) /\ log[f].tail = "torn")
    BY <1>3, <1>4, <1>5, <2>1 DEF LineNo
  <2>3. Readable(log[f], k)
    BY <1>1, <1>2, <1>5, <2>2 DEF Readable, LineNo
  <2> QED  BY <1>3, <1>5, <2>3 DEF Stands
<1>6. m < log'[f].mtime
  BY <1>2, <1>3 DEF Stands
<1>7. o <= Boundary(log'[f])
  BY <1>3, <1>4 DEF Stands
<1>8. log'[f].mtime \in Nat
  BY <1>2, <1>3
<1> QED  BY <1>5, <1>6, <1>7, <1>8 DEF Stands

(* A source that was read stands for what was read of it. *)
LEMMA ReadStands ==
  ASSUME ScanTypes, CoverInv, QuietInv, "stop" \notin Mishaps, Read
  PROVE  AnswerStands(source.file, source)' /\ todo' = todo
<1> DEFINE l == log[source.file]
<1>1. /\ pc = "read" /\ source \in SourceScan /\ l \in Logs
      /\ UNCHANGED <<now, log, index, stored, marks, facts, rebuilding, until, known, found, seesAll,
                     results, complete>>
      /\ \/ ~Exists(l) /\ source' = [source EXCEPT !.offset = 0, !.prefix = <<>>, !.complete = FALSE]
         \/ ReadsWhole(l, source.offset)
         \/ "stop" \in Mishaps /\ \E last, offset : Reads(l, source.offset, last, offset, FALSE)
         \/ \E last : Reads(l, source.offset, last, source.offset, FALSE)
  BY ReadIs
<1>2. source'.file = source.file /\ source.file \in File /\ source.offset \in Nat /\ source.append \in BOOLEAN
  BY <1>1, ReadSource DEF SourceScan
<1>l. l = log[source.file]
  OBVIOUS
<1>3. Stands(l, source.mtime, source.offset, FALSE, Held(source.file))
  BY <1>1 DEF QuietInv, SourceStands
<1>4. ~source.append => source.offset = 0
  BY <1>1 DEF CoverInv
<1>5. Len(l.lines) \in Nat /\ Boundary(l) \in Nat /\ Boundary(l) <= Len(l.lines)
  <2>1. Exists(l) => Len(l.lines) >= 1
    BY <1>2 DEF ScanTypes, LogsAreWritten
  <2> QED  BY <1>1, <2>1, LogEnds
<1>6. todo' = todo
  BY DEF Read, ReadWhole, StopsAt, FailsBehind, IsGone, Mishap
<1> HIDE DEF l
<1> DEFINE f == source.file
           held == {k \in LineNo : source'.records[k] # None \/ (source'.append /\ stored[f][k] # None)}
<1>7. Got(f, source)' = held
  BY <1>1, <1>2 DEF Got
<1>8. Stands(l, source'.mtime, source'.offset, source'.complete, held)
  <2>1. CASE ~Exists(l)
    BY <2>1 DEF Stands
  <2>h. ASSUME NEW k \in LineNo, k <= source.offset, Readable(l, k), source'.append = source.append, Exists(l)
        PROVE  k \in held
    BY <1>2, <1>3, <1>4, <2>h DEF Stands, Held, LineNo
  <2>2. CASE ReadsWhole(l, source.offset)
    <3>1. (\A k \in (source.offset + 1)..Len(l.lines) : Readable(l, k)) \in BOOLEAN
      OBVIOUS
    <3>2. /\ source'.records = Records(l, (source.offset + 1)..Len(l.lines), until)
          /\ source'.append = source.append /\ source'.offset = AtLeast(source.offset, Boundary(l))
          /\ source'.mtime = source.mtime
      BY <1>1, <1>l, <2>2, <3>1, ReadsAre DEF ReadsWhole
    <3>3. Exists(l)
      BY <2>2 DEF ReadsWhole, Reads
    <3>4. source'.offset = Boundary(l) /\ source'.mtime <= l.mtime
      BY <1>2, <1>3, <1>5, <3>2, <3>3 DEF Stands, AtLeast
    <3>5. ASSUME NEW k \in LineNo, Readable(l, k) PROVE k \in held
      <4>1. CASE k <= source.offset
        BY <2>h, <3>2, <3>3, <3>5, <4>1
      <4>2. CASE ~(k <= source.offset)
        <5> DEFINE T == (source.offset + 1)..Len(l.lines)
        <5>1. k \in T
          BY <1>2, <1>5, <3>5, <4>2 DEF LineNo, Readable
        <5>2. l.lines[k].hour <= until /\ l.lines[k] # None
          <6>1. k \in 1..Len(l.lines) /\ l.lines[k] # Bad
            BY <1>5, <3>5 DEF LineNo, Readable
          <6>2. l.lines[k].hour <= now
            BY <1>2, <6>1 DEF QuietInv, UpToDate, l
          <6>3. l.lines[k] \in Record
            BY <1>1, <3>5, LinesAre DEF Readable
          <6> QED  BY <6>2, <6>3 DEF QuietInv, UpToDate
        <5> HIDE DEF T
        <5>3. Records(l, T, until)[k] =
                IF k \in T /\ Readable(l, k) /\ l.lines[k].hour <= until THEN l.lines[k] ELSE None
          BY <1>1, RecordsAre
        <5>4. Records(l, T, until)[k] # None
          BY <3>5, <5>1, <5>2, <5>3
        <5> QED  BY <3>2, <5>4 DEF T
      <4> QED  BY <4>1, <4>2
    <3> QED  BY <1>5, <3>4, <3>5 DEF Stands
  <2>3. CASE \E last : Reads(l, source.offset, last, source.offset, FALSE)
    <3>1. /\ source'.append = source.append /\ source'.offset = source.offset
          /\ source'.mtime = source.mtime /\ source'.complete = FALSE
      BY <1>1, <1>l, <2>3, ReadsAre
    <3>2. Exists(l)
      BY <2>3 DEF Reads
    <3>3. source'.mtime <= l.mtime /\ source'.offset <= Boundary(l)
      BY <1>3, <3>1, <3>2 DEF Stands
    <3> HIDE DEF held
    <3> QED  BY <2>h, <3>1, <3>2, <3>3 DEF Stands
  <2> QED  BY <1>1, <2>1, <2>2, <2>3
<1> HIDE DEF held, f
<1>9. AnswerStands(source.file, source)'
  BY <1>1, <1>2, <1>7, <1>8 DEF AnswerStands, l, f
<1> QED  BY <1>6, <1>9

(* Closing a source passes on what it stands for. *)
LEMMA CloseStands ==
  ASSUME ScanTypes, QuietInv, Close
  PROVE  ResultsStand' /\ PassedOver'
<1> DEFINE f == source.file
           l == log[f]
<1>1. PICK s \in SourceScan :
        /\ results' = [results EXCEPT ![f] = s]
        /\ complete' = (complete /\ s.complete)
        /\ s.file = f /\ s.records = source.records /\ s.append = source.append
        /\ s.complete => source.complete /\ Exists(l) /\ l.mtime = source.mtime
        /\ s.mtime = IF Exists(l) THEN l.mtime ELSE source.mtime
        /\ \/ s.offset = source.offset /\ s.prefix = source.prefix
           \/ s.offset = 0 /\ s.prefix = <<>>
  BY CloseIs
<1>2. /\ pc = "close" /\ pc' = "files" /\ source \in SourceScan /\ source' = None /\ f \in File /\ l \in Logs
      /\ UNCHANGED <<now, log, index, stored, marks, facts, rebuilding, until, known, found, seesAll,
                     todo, events>>
  BY CloseIs
<1>3. \A g \in File : results'[g] = IF g = f THEN s ELSE results[g]
  BY <1>1, <1>2 DEF ScanTypes, TypeOK
<1>4. Stands(l, source.mtime, source.offset, source.complete, Got(f, source))
  BY <1>2 DEF QuietInv, SourceStands, AnswerStands
<1>5. Got(f, s) = Got(f, source)
  BY <1>1 DEF Got
<1>6. Boundary(l) \in Nat /\ l.mtime \in Nat
  <2>1. Exists(l) => Len(l.lines) >= 1
    BY <1>2 DEF ScanTypes, LogsAreWritten
  <2> QED  BY <1>2, <2>1, LogEnds DEF Logs
<1> HIDE DEF f, l
<1>7. Stands(l, s.mtime, s.offset, s.complete, Got(f, s))
  <2> HIDE DEF Got
  <2>1. CASE ~Exists(l)
    BY <2>1 DEF Stands
  <2>2. CASE Exists(l)
    <3>1. s.mtime = l.mtime /\ s.mtime <= l.mtime
      BY <1>1, <1>6, <2>2
    <3>2. s.offset <= Boundary(l)
      BY <1>1, <1>4, <1>6, <2>2 DEF Stands
    <3>3. \A k \in LineNo : k <= s.offset /\ Readable(l, k) => k \in Got(f, s)
      BY <1>1, <1>4, <1>5, <2>2 DEF Stands, LineNo
    <3>4. s.complete => \A k \in LineNo : Readable(l, k) => k \in Got(f, s)
      BY <1>1, <1>4, <1>5, <2>2 DEF Stands
    <3> QED  BY <3>1, <3>2, <3>3, <3>4 DEF Stands
  <2> QED  BY <2>1, <2>2
<1>8. ResultsStand'
  <2>1. ASSUME NEW g \in File, results'[g] # None PROVE AnswerStands(g, results[g])'
    <3>1. CASE g = f
      <4>1. results'[g] = s /\ log'[g] = l
        BY <1>2, <1>3, <3>1 DEF l
      <4>2. Got(g, results[g])' = Got(f, s)
        BY <1>2, <3>1, <4>1 DEF Got
      <4> QED  BY <1>7, <4>1, <4>2 DEF AnswerStands
    <3>2. CASE g # f
      <4>1. results'[g] = results[g]
        BY <1>3, <3>2
      <4>2. AnswerStands(g, results[g])
        BY <2>1, <4>1 DEF QuietInv, ResultsStand
      <4> QED  BY <1>2, <4>1, <4>2 DEF AnswerStands, Got
    <3> QED  BY <3>1, <3>2
  <2> QED  BY <2>1 DEF ResultsStand
<1>9. PassedOver'
  <2>1. complete' => complete /\ s.complete /\ s # None
    BY <1>1
  <2>2. PassedOver
    BY DEF QuietInv
  <2>3. ASSUME complete', NEW g \in File, results'[g] # None PROVE results'[g].complete
    BY <1>3, <2>1, <2>2, <2>3 DEF PassedOver
  <2>4. ASSUME complete', NEW g \in found
        PROVE  g \in todo \/ results'[g] # None \/ index[g] # None
    <3>1. g \in File
      BY DEF ScanTypes, TypeOK
    <3>2. CASE g = f
      BY <1>3, <2>1, <2>4, <3>1, <3>2
    <3>3. CASE g # f
      BY <1>3, <2>1, <2>2, <2>4, <3>1, <3>3 DEF PassedOver, f
    <3> QED  BY <3>2, <3>3
  <2> QED  BY <1>2, <2>3, <2>4 DEF PassedOver
<1> QED  BY <1>8, <1>9

(* A row of the index stands for what is stored with it. *)
LEMMA ApplyStands ==
  ASSUME ScanTypes, GrowInv, CoverInv, QuietInv, Apply
  PROVE  RowsStand'
<1>0. /\ UNCHANGED log
      /\ \A f \in File : stored'[f] = StoredAfter(f) /\ index'[f] = IndexAfter(f)
  BY DEF Apply, worldVars
<1> SUFFICES ASSUME NEW f \in File, index'[f] # None, Exists(log[f])
             PROVE  Stands(log[f], index'[f].mtime, index'[f].offset, TRUE, Held(f)')
  BY <1>0 DEF RowsStand, Stands
<1>t. log[f].mtime \in Nat /\ log[f].mtime >= 1 /\ results[f] \in SourceScan \cup {None}
  BY DEF ScanTypes, TypeOK, LogsAreWritten, Logs
<1>1. f \notin Deleted
  BY DEF GrowInv, KnownWasThere, Deleted, GoneOrUnseen
<1>2. Held(f) \subseteq Held(f)'
  BY ApplyKeeps DEF Held
<1>k. CASE index'[f] = index[f]
  <2>1. Stands(log[f], index[f].mtime, index[f].offset, TRUE, Held(f))
    BY <1>k DEF QuietInv, RowsStand
  <2> HIDE DEF Held
  <2> QED  BY <1>2, <1>k, <2>1, StandsWithMore
<1>r. ASSUME results[f] # None PROVE Stands(log[f], results[f].mtime, results[f].offset, results[f].complete, Got(f, results[f]))
  BY <1>r DEF QuietInv, ResultsStand, AnswerStands
<1>g. ASSUME Partial(f) \/ Appended(f) \/ Replaced(f) PROVE Got(f, results[f]) \subseteq Held(f)'
  <2>1. CASE Partial(f) \/ Appended(f)
    <3>1. stored'[f] = Merged(f)
      BY <1>0, <2>1, AppliedIs
    <3> QED  BY <3>1 DEF Got, Held, Merged
  <2>2. CASE Replaced(f)
    <3>1. stored'[f] = results[f].records /\ ~results[f].append
      BY <1>0, <2>2, AppliedIs DEF Replaced
    <3> QED  BY <3>1 DEF Got, Held
  <2> QED  BY <1>g, <2>1, <2>2
<1>3. CASE Partial(f)
  <2>1. index'[f] = Progress(f) /\ results[f] # None
    BY <1>0, <1>3, AppliedIs DEF Partial
  <2>2. CASE results[f].offset = 0
    BY <1>k, <2>1, <2>2 DEF Progress
  <2>3. CASE results[f].offset # 0
    <3>1. index'[f].mtime = 0 /\ index'[f].offset = results[f].offset
      BY <2>1, <2>3 DEF Progress
    <3>2. Stands(log[f], results[f].mtime, results[f].offset, results[f].complete, Held(f)')
      <4> HIDE DEF Held, Got
      <4> QED  BY <1>r, <1>g, <1>3, <2>1, StandsWithMore
    <3> HIDE DEF Held
    <3> QED  BY <1>t, <3>1, <3>2 DEF Stands
  <2> QED  BY <2>2, <2>3
<1>4. CASE Appended(f) \/ Replaced(f)
  <2>1. /\ index'[f].mtime = results[f].mtime /\ index'[f].offset = results[f].offset
        /\ results[f] # None /\ results[f].complete
    BY <1>0, <1>4, AppliedIs DEF Appended, Replaced
  <2>2. results[f].complete = TRUE
    BY <1>t, <2>1 DEF SourceScan
  <2> HIDE DEF Held, Got
  <2> QED  BY <1>r, <1>g, <1>4, <2>1, <2>2, StandsWithMore
<1>5. CASE results[f] = None
  BY <1>0, <1>1, <1>5, <1>k, AppliedIs
<1> QED  BY <1>1, <1>3, <1>4, <1>5, ApplyCases

(* When only the logs change, and what stood of each still stands, it all does. *)
LEMMA LogStep ==
  ASSUME ScanTypes, GrowInv, QuietInv, UpToDate',
         UNCHANGED <<index, stored, pc, found, todo, source, results, complete>>,
         \A g \in File : log[g].tail # "none" =>
           \A m \in Nat, o \in Nat : \A w, S : Stands(log[g], m, o, w, S) => Stands(log'[g], m, o, w, S)
  PROVE  QuietInv'
<1>t. /\ \A f \in File : index[f] # None => index[f].mtime \in Nat /\ index[f].offset \in Nat
      /\ \A f \in File : results[f] # None => results[f].mtime \in Nat /\ results[f].offset \in Nat /\ f \in found
      /\ source # None => source.mtime \in Nat /\ source.offset \in Nat /\ source.file \in File
                          /\ source.file \in found
      /\ (source = None) = (pc \in {"idle", "files"})
  BY DEF ScanTypes, TypeOK, OnlyTheFound, SourceScan, IndexRow
<1>q. RowsStand /\ SourceStands /\ ResultsStand /\ UpToDate /\ PassedOver
  BY DEF QuietInv
<1>n. \A f \in File : index[f] # None \/ f \in found => log[f].tail # "none"
  BY DEF GrowInv, KnownWasThere
<1>1. RowsStand'
  <2>1. ASSUME NEW f \in File, index[f] # None
        PROVE  Stands(log'[f], index[f].mtime, index[f].offset, TRUE, Held(f))
    <3> HIDE DEF Held
    <3>1. Stands(log[f], index[f].mtime, index[f].offset, TRUE, Held(f))
      BY <1>q, <2>1 DEF RowsStand
    <3> QED  BY <1>t, <1>n, <2>1, <3>1
  <2> QED  BY <2>1 DEF RowsStand, Held
<1>2. ResultsStand'
  <2>1. ASSUME NEW f \in File, results[f] # None
        PROVE  Stands(log'[f], results[f].mtime, results[f].offset, results[f].complete, Got(f, results[f]))
    <3>1. Stands(log[f], results[f].mtime, results[f].offset, results[f].complete, Got(f, results[f]))
      BY <1>q, <2>1 DEF ResultsStand, AnswerStands
    <3> HIDE DEF Got
    <3> QED  BY <1>t, <1>n, <2>1, <3>1
  <2> QED  BY <2>1 DEF ResultsStand, AnswerStands, Got
<1>3. SourceStands'
  <2>1. ASSUME pc = "read"
        PROVE  Stands(log'[source.file], source.mtime, source.offset, FALSE, Held(source.file))
    <3>1. Stands(log[source.file], source.mtime, source.offset, FALSE, Held(source.file))
      BY <1>q, <2>1 DEF SourceStands
    <3> HIDE DEF Held
    <3> QED  BY <1>t, <1>n, <2>1, <3>1
  <2>2. ASSUME pc = "close"
        PROVE  Stands(log'[source.file], source.mtime, source.offset, source.complete, Got(source.file, source))
    <3>1. Stands(log[source.file], source.mtime, source.offset, source.complete, Got(source.file, source))
      BY <1>q, <2>2 DEF SourceStands, AnswerStands
    <3> HIDE DEF Got
    <3> QED  BY <1>t, <1>n, <2>2, <3>1
  <2> QED  BY <2>1, <2>2 DEF SourceStands, AnswerStands, Held, Got
<1>4. PassedOver'
  BY <1>q DEF PassedOver
<1> QED  BY <1>1, <1>2, <1>3, <1>4 DEF QuietInv

LEMMA QuietStep ==
  ASSUME Undisturbed, ScanTypes, GrowInv, CoverInv, QuietInv, Next PROVE QuietInv'
<1>t. /\ now \in Nat /\ log \in [File -> Logs]
      /\ \A f \in File : index[f] # None => index[f] \in IndexRow
      /\ \A f \in File : results[f] # None => results[f] \in SourceScan /\ f \in found
      /\ source # None => source \in SourceScan /\ source.file \in File /\ source.file \in found
      /\ (source = None) = (pc \in {"idle", "files"})
  BY DEF ScanTypes, TypeOK, OnlyTheFound, SourceScan
<1>q. RowsStand /\ SourceStands /\ ResultsStand /\ UpToDate /\ PassedOver
  BY DEF QuietInv
<1>u. "rewrite" \notin Mishaps /\ "reset" \notin Mishaps /\ "turn" \notin Mishaps /\ "stop" \notin Mishaps
  BY DEF Undisturbed
<1>m. \A f \in File : Held(f) = {k \in LineNo : stored[f][k] # None}
  BY DEF Held
<1>1. CASE Begin
  <2>1. /\ UNCHANGED <<now, log, index, stored>> /\ until' = now /\ known' = index /\ results' = NoRows
        /\ pc' = "files" /\ todo' = found' /\ found' \subseteq File
    BY <1>1 DEF Begin, worldVars, cacheVars
  <2>2. RowsStand'
    BY <1>q, <2>1 DEF RowsStand, Held
  <2>3. SourceStands' /\ ResultsStand'
    BY <2>1 DEF SourceStands, ResultsStand, NoRows
  <2>4. UpToDate' /\ PassedOver'
    BY <1>q, <2>1 DEF UpToDate, PassedOver, NoRows
  <2> QED  BY <2>2, <2>3, <2>4 DEF QuietInv
<1>2. ASSUME NEW f \in File, Open(f) PROVE QuietInv'
  <2>1. /\ pc = "files" /\ f \in todo /\ todo' = todo \ {f}
        /\ UNCHANGED <<now, log, index, stored, until, known, found, results>>
        /\ complete' = (complete /\ Exists(log[f]))
        /\ \/ pc' = "files" /\ source' = source /\ (Exists(log[f]) => Unchanged(known[f], log[f]))
           \/ pc' = "read" /\ source' = Opened(f) /\ Exists(log[f])
    BY <1>2, OpenIs
  <2>2. RowsStand' /\ ResultsStand' /\ UpToDate'
    BY <1>q, <2>1 DEF RowsStand, ResultsStand, AnswerStands, UpToDate, Held, Got
  <2>k. known[f] = index[f] /\ source = None
    BY <1>q, <1>t, <2>1 DEF UpToDate
  <2>o. /\ Opened(f) \in SourceScan /\ Opened(f) # None
        /\ Opened(f).file = f /\ Opened(f).mtime = log[f].mtime
        /\ Opened(f).append => known[f] # None /\ Opened(f).offset = known[f].offset
        /\ ~Opened(f).append => Opened(f).offset = 0
    BY OpenedIs
  <2>3. pc' = "read" => Stands(log[f], Opened(f).mtime, Opened(f).offset, FALSE, Held(f))
    <3>1. log[f].mtime \in Nat /\ Boundary(log[f]) \in Nat
      <4>1. Exists(log[f]) => Len(log[f].lines) >= 1
        BY DEF ScanTypes, LogsAreWritten
      <4> QED  BY <1>t, <4>1, LogEnds DEF Logs
    <3>2. CASE Opened(f).append
      <4>1. Stands(log[f], index[f].mtime, index[f].offset, TRUE, Held(f)) /\ Opened(f).offset = index[f].offset
        BY <1>q, <2>k, <2>o, <3>2 DEF RowsStand
      <4> HIDE DEF Held
      <4> QED  BY <2>o, <3>1, <4>1 DEF Stands
    <3>3. CASE ~Opened(f).append
      <4> HIDE DEF Held
      <4>1. \A k \in LineNo : ~(k <= 0)
        BY DEF LineNo
      <4> QED  BY <2>o, <3>1, <3>3, <4>1 DEF Stands
    <3> QED  BY <3>2, <3>3
  <2>4. SourceStands'
    <3>1. CASE pc' = "files"
      BY <3>1 DEF SourceStands
    <3>2. CASE pc' = "read"
      <4>1. source' = Opened(f) /\ source'.file = f /\ Held(f)' = Held(f)
        BY <2>1, <2>o, <3>2 DEF Held
      <4> QED  BY <2>1, <2>3, <3>2, <4>1 DEF SourceStands
    <3> QED  BY <2>1, <3>1, <3>2
  <2>5. PassedOver'
    <3>1. ASSUME complete', NEW g \in found
          PROVE  g \in todo' \/ results[g] # None \/ index[g] # None \/ (source' # None /\ source'.file = g)
      <4>1. CASE g = f
        <5>1. CASE pc' = "read"
          BY <2>1, <2>o, <4>1, <5>1
        <5>2. CASE pc' = "files"
          BY <2>1, <2>k, <3>1, <4>1, <5>2 DEF Unchanged
        <5> QED  BY <2>1, <5>1, <5>2
      <4>2. CASE g # f
        BY <1>q, <2>1, <2>k, <3>1, <4>2 DEF PassedOver
      <4> QED  BY <4>1, <4>2
    <3>2. complete' => complete
      BY <2>1
    <3> QED  BY <1>q, <2>1, <3>1, <3>2 DEF PassedOver
  <2> QED  BY <2>2, <2>4, <2>5 DEF QuietInv
<1>3. CASE Read
  <2>1. /\ UNCHANGED <<now, log, index, stored, until, known, found, results, complete>>
        /\ pc = "read" /\ pc' = "close"
    BY <1>3 DEF Read, worldVars, cacheVars
  <2>2. RowsStand' /\ ResultsStand' /\ UpToDate'
    BY <1>q, <2>1 DEF RowsStand, ResultsStand, AnswerStands, UpToDate, Held, Got
  <2>3. AnswerStands(source.file, source)' /\ todo' = todo
    BY <1>3, <1>u, ReadStands
  <2>4. SourceStands'
    BY <2>1, <2>3 DEF SourceStands
  <2>5. source' \in SourceScan /\ source'.file = source.file
    BY <1>3, ReadSource
  <2>6. PassedOver'
    BY <1>q, <2>1, <2>3, <2>5 DEF PassedOver
  <2> QED  BY <2>2, <2>4, <2>6 DEF QuietInv
<1>4. CASE Close
  <2>1. /\ UNCHANGED <<now, log, index, stored, until, known, found>>
        /\ pc = "close" /\ pc' = "files"
    BY <1>4, CloseIs
  <2>2. RowsStand' /\ UpToDate' /\ SourceStands'
    BY <1>q, <2>1 DEF RowsStand, UpToDate, SourceStands, Held
  <2> QED  BY <1>4, <2>2, CloseStands DEF QuietInv
<1>5. CASE Apply
  <2>1. /\ UNCHANGED <<now, log>> /\ until' = now /\ found' = {}
        /\ pc' = "idle" /\ results' = NoRows
    BY <1>5 DEF Apply, Idle, worldVars
  <2>2. SourceStands' /\ ResultsStand' /\ UpToDate' /\ PassedOver'
    BY <1>q, <2>1 DEF SourceStands, ResultsStand, UpToDate, PassedOver, NoRows
  <2> QED  BY <1>5, <2>2, ApplyStands DEF QuietInv
<1>6. CASE CutShort
  <2>1. /\ UNCHANGED <<now, log, index, stored>> /\ until' = now /\ found' = {}
        /\ pc' = "idle" /\ results' = NoRows
    BY <1>6 DEF CutShort, Idle, worldVars, cacheVars
  <2>2. SourceStands' /\ ResultsStand' /\ UpToDate' /\ PassedOver'
    BY <1>q, <2>1 DEF SourceStands, ResultsStand, UpToDate, PassedOver, NoRows
  <2>3. RowsStand'
    BY <1>q, <2>1 DEF RowsStand, Held
  <2> QED  BY <2>2, <2>3 DEF QuietInv
<1>7. CASE RebuildCache
  <2>1. /\ UNCHANGED <<now, log, pc, until, known, found, source, results>>
        /\ index' = NoRows /\ pc = "idle"
    BY <1>7, <1>u DEF RebuildCache, EmptyCache, Mishap, worldVars, scanVars
  <2>2. found = {} /\ \A f \in File : results[f] = None
    BY <1>q, <1>t, <2>1 DEF UpToDate
  <2>3. RowsStand' /\ SourceStands' /\ ResultsStand' /\ PassedOver'
    BY <2>1, <2>2 DEF RowsStand, SourceStands, ResultsStand, PassedOver, NoRows
  <2>4. UpToDate'
    BY <1>q, <2>1 DEF UpToDate
  <2> QED  BY <2>3, <2>4 DEF QuietInv
<1>8. CASE TurnOfTheHour
  <2>1. /\ UNCHANGED <<log, index, stored, pc, known, found, todo, source, results, complete>>
        /\ now' = now + 1 /\ pc = "idle" /\ until' = now'
    BY <1>8, <1>u DEF TurnOfTheHour, cacheVars
  <2>2. RowsStand' /\ SourceStands' /\ ResultsStand' /\ PassedOver'
    BY <1>q, <2>1 DEF RowsStand, SourceStands, ResultsStand, PassedOver, AnswerStands, Held, Got
  <2>3. ASSUME NEW f \in File, NEW k \in 1..Len(log[f].lines), log[f].lines[k] # Bad
        PROVE  log[f].lines[k].hour <= now + 1
    <3>1. log[f].lines[k] \in Line
      <4>1. log[f].lines \in Seq(Line)
        BY <1>t DEF Logs
      <4> QED  BY <4>1, ElementOfSeq
    <3>2. log[f].lines[k].hour \in Hour
      BY <2>3, <3>1 DEF Line, Record
    <3>3. log[f].lines[k].hour \in Nat /\ log[f].lines[k].hour <= now
      BY <1>q, <2>3, <3>2 DEF UpToDate
    <3> QED  BY <1>t, <3>3
  <2>4. UpToDate'
    BY <1>q, <2>1, <2>3 DEF UpToDate
  <2> QED  BY <2>2, <2>4 DEF QuietInv
<1>9. ASSUME NEW f \in File, Append1(f) \/ FinishLine(f) \/ Rewrite(f) PROVE QuietInv'
  <2>1. /\ UNCHANGED <<now, index, stored, pc, until, known, found, todo, source, results, complete>>
        /\ Writes(f)
    BY <1>9, AgentIs
  <2>2. PICK lines \in Seq(Line), tail \in {"ended", "open", "torn"} :
          /\ log' = [log EXCEPT ![f] = [lines |-> lines, tail |-> tail, mtime |-> events + 1]]
          /\ \A k \in 1..Len(lines) : \/ k <= Len(log[f].lines) /\ lines[k] = log[f].lines[k]
                                      \/ lines[k] # Bad => lines[k].hour <= now
    BY <2>1 DEF Writes
  <2>3. log'[f].lines = lines /\ \A g \in File \ {f} : log'[g] = log[g]
    BY <1>t, <2>2
  <2>4. ASSUME NEW g \in File, log[g].tail # "none", NEW m \in Nat, NEW o \in Nat, NEW w, NEW S,
               Stands(log[g], m, o, w, S)
        PROVE  Stands(log'[g], m, o, w, S)
    BY <1>9, <1>u, <2>3, <2>4, StandsWhenItGrows
  <2>5. QuietInv'
    <3>1. UpToDate'
      <4>1. ASSUME NEW k \in 1..Len(lines), lines[k] # Bad PROVE lines[k].hour <= now
        <5>1. Len(log[f].lines) \in Nat /\ Len(lines) \in Nat
          BY <1>t, LenProperties DEF Logs
        <5> QED  BY <1>q, <2>2, <4>1, <5>1 DEF UpToDate
      <4> QED  BY <1>q, <2>1, <2>3, <4>1 DEF UpToDate
    <3> QED  BY <1>t, <1>q, <2>1, <2>4, <3>1, LogStep
  <2> QED  BY <2>5
<1>10. ASSUME NEW f \in File, Remove(f) PROVE QuietInv'
  <2>1. /\ UNCHANGED <<now, index, stored, pc, until, known, found, todo, source, results, complete>>
        /\ log' = [log EXCEPT ![f] = [lines |-> <<>>, tail |-> "gone", mtime |-> 0]]
    BY <1>10 DEF Remove, cacheVars, scanVars
  <2>2. /\ log'[f].lines = <<>> /\ ~Exists(log'[f])
        /\ \A g \in File \ {f} : log'[g] = log[g]
    BY <1>t, <2>1 DEF Exists
  <2>3. ASSUME NEW g \in File, NEW m \in Nat, NEW o \in Nat, NEW w, NEW S, Stands(log[g], m, o, w, S)
        PROVE  Stands(log'[g], m, o, w, S)
    BY <2>2, <2>3 DEF Stands
  <2>4. UpToDate'
    BY <1>q, <2>1, <2>2, EmptySeq DEF UpToDate
  <2> QED  BY <1>t, <1>q, <2>1, <2>3, <2>4, LogStep
<1>11. Stop => FALSE
  BY <1>u DEF Stop, Mishap
<1>12. CASE AnotherCompletes
  <2>1. UNCHANGED <<now, log, index, stored, pc, until, known, found, todo, source, results, complete>>
    BY <1>12 DEF AnotherCompletes, worldVars, scanVars
  <2> QED
    BY <1>q, <2>1 DEF QuietInv, RowsStand, SourceStands, ResultsStand, UpToDate, PassedOver, AnswerStands, Held, Got
<1> QED
  BY <1>1, <1>2, <1>3, <1>4, <1>5, <1>6, <1>7, <1>8, <1>9, <1>10, <1>11, <1>12 DEF Next, Scanner

THEOREM QuietInvariant == ASSUME Undisturbed PROVE SafetySpec => []QuietInv
<1>1. ScanTypes /\ GrowInv /\ CoverInv /\ QuietInv /\ [Next]_vars => QuietInv'
  <2>1. ASSUME QuietInv, UNCHANGED vars PROVE QuietInv'
    BY <2>1 DEF QuietInv, RowsStand, SourceStands, ResultsStand, UpToDate, PassedOver, AnswerStands, Held, Got,
                vars, worldVars, cacheVars, scanVars
  <2> QED  BY <2>1, QuietStep
<1>2. ScanTypes /\ GrowInv /\ CoverInv /\ [Next]_vars => CoverInv'
  BY CoverStep
<1>3. "rewrite" \notin Mishaps
  BY DEF Undisturbed
<1>4. SafetySpec => []GrowInv
  BY <1>3, GrowInvariant
<1> QED  BY <1>1, <1>2, <1>4, QuietInit, CoverInit, ScanInvariant, PTL DEF SafetySpec

(* Of a log that is there, a line is held as the log has it. *)
LEMMA AllThatIsHeld ==
  ASSUME ScanTypes, GrowInv, QuietInv, NEW f \in File, Exists(log[f]), NEW k \in LineNo,
         Readable(log[f], k) => k \in Held(f)
  PROVE  stored[f][k] = AllRecords(log[f])[k]
<1> DEFINE l == log[f]
<1>1. l \in Logs /\ AllRecords(l) = Records(l, LineNo, now) /\ stored[f][k] \in Record \cup {None}
  BY DEF ScanTypes, TypeOK, AllRecords
<1>2. Records(l, LineNo, now)[k] = IF k \in LineNo /\ Readable(l, k) /\ l.lines[k].hour <= now THEN l.lines[k] ELSE None
  BY <1>1, RecordsAre
<1>3. CASE Readable(l, k)
  <2>1. stored[f][k] # None
    BY <1>3 DEF Held
  <2>2. Seen(f, k, stored[f][k]) /\ stored[f][k] \in Record
    BY <1>1, <2>1 DEF Seen
  <2>3. l.lines[k] = stored[f][k] /\ stored[f][k].hour <= until /\ until = now
    BY <2>2 DEF GrowInv, SeenIsWritten, Exists, QuietInv, UpToDate
  <2> QED  BY <1>1, <1>2, <1>3, <2>3
<1>4. CASE ~Readable(l, k)
  <2>1. stored[f][k] = None
    <3>1. ASSUME stored[f][k] # None PROVE FALSE
      <4>1. Seen(f, k, stored[f][k]) /\ stored[f][k] \in Record
        BY <1>1, <3>1 DEF Seen
      <4> QED  BY <1>4, <4>1 DEF GrowInv, SeenIsWritten, Exists
    <3> QED  BY <3>1
  <2> QED  BY <1>1, <1>2, <1>4, <2>1
<1> QED  BY <1>3, <1>4

LEMMA WhatIsSkipped == ScanTypes /\ GrowInv /\ QuietInv => SkippedIsStored
<1> SUFFICES ASSUME ScanTypes, GrowInv, QuietInv, NEW f \in File, Exists(log[f]), Unchanged(index[f], log[f])
             PROVE  stored[f] = AllRecords(log[f])
  BY DEF SkippedIsStored
<1>1. Stands(log[f], index[f].mtime, index[f].offset, TRUE, Held(f)) /\ index[f].mtime = log[f].mtime
  BY DEF QuietInv, RowsStand, Unchanged
<1>2. \A k \in LineNo : Readable(log[f], k) => k \in Held(f)
  <2> HIDE DEF Held
  <2> QED  BY <1>1 DEF Stands
<1>3. \A k \in LineNo : stored[f][k] = AllRecords(log[f])[k]
  BY <1>2, AllThatIsHeld
<1>4. AllRecords(log[f]) = Records(log[f], LineNo, now) /\ log[f] \in Logs
      /\ stored[f] \in [LineNo -> Record \cup {None}]
  BY DEF AllRecords, ScanTypes, TypeOK
<1>5. AllRecords(log[f]) \in [LineNo -> Record \cup {None}]
  BY <1>4, RecordsAre
<1> QED  BY <1>3, <1>4, <1>5

(* A file the next scan will skip is stored as it is, and nothing else is stored of it. *)
THEOREM SkippedFilesAreStored == ASSUME Undisturbed PROVE SafetySpec => []SkippedIsStored
<1>1. "rewrite" \notin Mishaps
  BY DEF Undisturbed
<1>2. SafetySpec => []GrowInv
  BY <1>1, GrowInvariant
<1> QED  BY <1>2, WhatIsSkipped, ScanInvariant, QuietInvariant, PTL

(* What lies in front of the offset a parse may resume at is stored. *)
THEOREM OffsetsAreBehindWhatWasRead == ASSUME Undisturbed PROVE SafetySpec => []ResumesBehindWhatItRead
<1>1. ScanTypes /\ GrowInv /\ QuietInv => ResumesBehindWhatItRead
  <2> SUFFICES ASSUME ScanTypes, GrowInv, QuietInv, NEW f \in File, Exists(log[f]), index[f] # None,
                      NEW k \in 1..index[f].offset
               PROVE  stored[f][k] = AllRecords(log[f])[k]
    BY DEF ResumesBehindWhatItRead
  <2>1. index[f].offset \in 0..MaxLines
    BY DEF ScanTypes, TypeOK, IndexRow
  <2>2. k \in LineNo /\ k <= index[f].offset
    BY <2>1 DEF LineNo
  <2>3. Stands(log[f], index[f].mtime, index[f].offset, TRUE, Held(f))
    BY DEF QuietInv, RowsStand
  <2>4. Readable(log[f], k) => k \in Held(f)
    <3> HIDE DEF Held
    <3> QED  BY <2>2, <2>3 DEF Stands
  <2> QED  BY <2>2, <2>4, AllThatIsHeld
<1>2. "rewrite" \notin Mishaps
  BY DEF Undisturbed
<1>3. SafetySpec => []GrowInv
  BY <1>2, GrowInvariant
<1> QED  BY <1>1, <1>3, ScanInvariant, QuietInvariant, PTL

(* After a scan that says it is complete, each file found is indexed, and stored as far as it has not changed. *)
THEOREM CompleteScansAreWhole == ASSUME Undisturbed PROVE SafetySpec => CompleteIsWhole
<1> DEFINE Whole == \A f \in found :
             /\ index'[f] # None
             /\ Exists(log[f]) /\ Unchanged(index'[f], log[f]) => stored'[f] = AllRecords(log[f])
<1>1. ASSUME ScanTypes, QuietInv, SkippedIsStored', Apply, complete PROVE Whole
  <2>2. /\ pc = "files" /\ todo = {} /\ UNCHANGED <<now, log>>
        /\ \A f \in File : index'[f] = IndexAfter(f)
    BY <1>1 DEF Apply, worldVars
  <2>3. source = None /\ found \subseteq File
    BY <1>1, <2>2 DEF ScanTypes, TypeOK
  <2>4. ASSUME NEW f \in found PROVE index'[f] # None
    <3>1. f \in File /\ f \notin Deleted
      BY <2>3 DEF Deleted, GoneOrUnseen
    <3>2. (results[f] # None /\ results[f].complete) \/ (results[f] = None /\ index[f] # None)
      BY <1>1, <2>2, <2>3, <3>1 DEF QuietInv, PassedOver
    <3>3. CASE results[f] # None /\ results[f].complete
      <4>1. Appended(f) \/ Replaced(f)
        BY <3>3 DEF Appended, Replaced
      <4>2. IndexAfter(f) = [size |-> results[f].size, mtime |-> results[f].mtime,
                             offset |-> results[f].offset, prefix |-> results[f].prefix]
        BY <1>1, <3>1, <4>1, AppliedIs
      <4>3. results[f] \in SourceScan
        BY <1>1, <3>1, <3>3 DEF ScanTypes, TypeOK
      <4>4. IndexAfter(f) \in IndexRow
        BY <4>2, <4>3 DEF SourceScan, IndexRow
      <4> QED  BY <2>2, <3>1, <4>4
    <3>4. CASE results[f] = None /\ index[f] # None
      BY <1>1, <2>2, <3>1, <3>4, AppliedIs
    <3> QED  BY <3>2, <3>3, <3>4
  <2>5. ASSUME NEW f \in found, Exists(log[f]), Unchanged(index'[f], log[f])
        PROVE  stored'[f] = AllRecords(log[f])
    <3>1. AllRecords(log[f])' = AllRecords(log[f])
      BY <2>2 DEF AllRecords, Records
    <3>2. f \in File /\ Exists(log'[f]) /\ Unchanged(index'[f], log'[f])
      BY <2>2, <2>3, <2>5
    <3> QED  BY <1>1, <3>1, <3>2 DEF SkippedIsStored
  <2> QED  BY <2>4, <2>5
<1>2. ScanTypes /\ QuietInv /\ SkippedIsStored' /\ [Next]_vars => [Apply /\ complete => Whole]_vars
  <2> HIDE DEF Whole
  <2> QED  BY <1>1
<1> QED  BY <1>2, ScanInvariant, QuietInvariant, SkippedFilesAreStored, PTL DEF SafetySpec, CompleteIsWhole
===============================================================================
