------------------------------ MODULE UsageScan ------------------------------
(***************************************************************************)
(* How the logs of an agent become hourly facts: scan_jsonl_files          *)
(* (packages/service/src/usage/scan.rs) reads the files that changed, and  *)
(* apply_usage_scan (state/mod.rs) puts what it read into cache.sqlite in  *)
(* one transaction.  Agents write while the scan reads: between looking at *)
(* a file, reading it, looking at it again and applying the result, logs   *)
(* grow, are rewritten or go away, and the cache may be replaced by an     *)
(* empty one.                                                              *)
(*                                                                         *)
(* The logs and rows of one agent are modelled; collect_usage scans the    *)
(* agents one after another, and their rows never meet.  What they share   *)
(* is the flag of a rebuilt cache, which any of them may clear.  A file is *)
(* an inode (its id is a digest of one), its lines are equally long, and a *)
(* line is named by its number instead of the byte it starts at.  A line   *)
(* holds one record or none that can be read.  The digest of a prefix is   *)
(* the prefix.  Parser revisions, project keys, sessions and the marks for *)
(* the upload (UsageSync) are left out.                                    *)
(***************************************************************************)
EXTENDS Naturals, Sequences, FiniteSets

CONSTANTS
  File,         \* log files
  Hour, Body,   \* a record is of an hour, a natural, and counts something
  Bad,          \* a line without a record that can be read
  None,         \* no row, no record
  ContextFree,  \* UsageParser::CONTEXT_FREE
  MaxLines,     \* bound: lines of a file
  Mishaps,      \* which of the events below may happen
  MaxEvents     \* bound: how many events there are

ASSUME ScanAssumption ==
  /\ IsFiniteSet(File) /\ Hour \subseteq Nat /\ Hour # {} /\ ContextFree \in BOOLEAN
  /\ MaxLines \in Nat /\ MaxEvents \in Nat
  /\ Mishaps \subseteq {"torn", "open", "bad", "rewrite", "remove", "hidden", "fail", "stop", "cut",
                        "cache", "reset", "turn"}

VARIABLES
  now,         \* the hour it is
  log,         \* file -> what the agent has written
  index,       \* usage_file_index
  stored,      \* usage_file_records: file -> line -> record
  marks,       \* usage_partial_sources: file -> hours
  facts,       \* usage_hourly_facts: hour -> [rows, partial]
  rebuilding,  \* REBUILDING_KEY: one flag for all agents
  pc,          \* where the scan is
  until,       \* end_at: the last hour the scan takes records of
  known,       \* the index as the scan read it
  found,       \* the files discovery found
  seesAll,     \* allow_deleted_cleanup
  todo,        \* the files still to be looked at
  source,      \* the UsageSourceScan being made
  results,     \* the finished ones: file -> UsageSourceScan
  complete,    \* the scan has no reason to be partial
  events       \* how many events there have been

cacheVars == <<index, stored, marks, facts, rebuilding>>
scanVars  == <<pc, until, known, found, seesAll, todo, source, results, complete>>
worldVars == <<now, log>>
vars == <<worldVars, cacheVars, scanVars, events>>

Record == [hour : Hour, body : Body]
Line == Record \cup {Bad}
LineNo == 1..MaxLines

-------------------------------------------------------------------------------
(***************************************************************************)
(* A log.  Its last line may lack the newline ("open"), or be a part of a  *)
(* record that no parser accepts ("torn").                                 *)
(***************************************************************************)
Logs == [lines : Seq(Line), tail : {"none", "ended", "open", "torn", "gone"}, mtime : 0..MaxEvents]

Exists(l) == l.tail \notin {"none", "gone"}

(* A size in thirds of a line. *)
Size(l) == 3 * Len(l.lines) - (CASE l.tail = "torn" -> 2 [] l.tail = "open" -> 1 [] OTHER -> 0)

(* The lines that end in a newline: read_jsonl answers the offset behind the last of them. *)
CountsTheLastLine(l) == Len(l.lines)

Boundary(l) == IF l.tail \in {"open", "torn"} THEN Len(l.lines) - 1 ELSE Len(l.lines)

Readable(l, k) ==
  /\ k <= Len(l.lines)
  /\ l.lines[k] # Bad
  /\ ~(k = Len(l.lines) /\ l.tail = "torn")

(* The records of some lines, up to an hour. *)
Records(l, lines, hour) ==
  [k \in LineNo |-> IF k \in lines /\ Readable(l, k) /\ l.lines[k].hour <= hour THEN l.lines[k]
                    ELSE None]

NoRecords == [k \in LineNo |-> None]

AllRecords(l) == IF Exists(l) THEN Records(l, LineNo, now) ELSE NoRecords

Hours(recs) == {recs[k].hour : k \in {i \in LineNo : recs[i] # None}}

-------------------------------------------------------------------------------
IndexRow == [size : Nat, mtime : Nat, offset : 0..MaxLines, prefix : Seq(Line)]

SourceScan ==
  [file : File, size : Nat, mtime : Nat, append : BOOLEAN, offset : 0..MaxLines,
   prefix : Seq(Line), records : [LineNo -> Record \cup {None}], complete : BOOLEAN]

Fact == [rows : [Body -> Nat], partial : BOOLEAN]

(* None is no record, no row of the index and no scan of a source. *)
ASSUME NoRowIsNone == None \notin Record /\ None \notin IndexRow /\ None \notin SourceScan

TypeOK ==
  /\ now \in Hour /\ until \in Hour
  /\ log \in [File -> Logs]
  /\ index \in [File -> IndexRow \cup {None}]
  /\ stored \in [File -> [LineNo -> Record \cup {None}]]
  /\ marks \in [File -> SUBSET Hour]
  /\ facts \in [Hour -> Fact]
  /\ rebuilding \in BOOLEAN
  /\ pc \in {"idle", "files", "read", "close"}
  /\ known \in [File -> IndexRow \cup {None}]
  /\ found \subseteq File /\ todo \subseteq found
  /\ seesAll \in BOOLEAN /\ complete \in BOOLEAN
  /\ source \in SourceScan \cup {None}
  /\ results \in [File -> SourceScan \cup {None}]
  /\ events \in 0..MaxEvents
  /\ (source = None) = (pc \in {"idle", "files"})

NoRows == [f \in File |-> None]
NoFact == [rows |-> [b \in Body |-> 0], partial |-> FALSE]

EmptyCache ==
  /\ index' = NoRows
  /\ stored' = [f \in File |-> NoRecords]
  /\ marks' = [f \in File |-> {}]
  /\ facts' = [h \in Hour |-> NoFact]

Idle ==
  /\ pc' = "idle" /\ until' = now /\ known' = NoRows /\ found' = {} /\ seesAll' = TRUE /\ todo' = {}
  /\ source' = None /\ results' = NoRows /\ complete' = TRUE

FirstHour == CHOOSE h \in Hour : \A g \in Hour : h <= g

Init ==
  /\ now = FirstHour /\ until = FirstHour
  /\ log = [f \in File |-> [lines |-> <<>>, tail |-> "none", mtime |-> 0]]
  /\ index = NoRows
  /\ stored = [f \in File |-> NoRecords]
  /\ marks = [f \in File |-> {}]
  /\ facts = [h \in Hour |-> NoFact]
  /\ rebuilding = FALSE
  /\ pc = "idle" /\ known = NoRows /\ found = {} /\ seesAll = TRUE /\ todo = {}
  /\ source = None /\ results = NoRows /\ complete = TRUE
  /\ events = 0

-------------------------------------------------------------------------------
Mishap(m) == m \in Mishaps /\ events < MaxEvents /\ events' = events + 1

(* Something the scan itself may meet, which counts as an event when it does. *)
Meets(m, bad) == IF bad THEN Mishap(m) ELSE UNCHANGED events

(***************************************************************************)
(* collect_usage fixes the hour it takes records up to and reads the index,*)
(* and discovery walks the directories.                                    *)
(* Directories that cannot be read hide their files, and then no file is   *)
(* taken for deleted.                                                      *)
(***************************************************************************)
Begin ==
  /\ pc = "idle"
  /\ \E hidden \in SUBSET {f \in File : Exists(log[f])} :
       /\ Meets("hidden", hidden # {})
       /\ found' = {f \in File : Exists(log[f])} \ hidden
       /\ seesAll' = (hidden = {}) /\ complete' = (hidden = {})
  /\ until' = now
  /\ todo' = found' /\ known' = index /\ results' = NoRows
  /\ pc' = "files" /\ UNCHANGED source
  /\ UNCHANGED <<worldVars, cacheVars>>

Unchanged(row, l) == row # None /\ row.size = Size(l) /\ row.mtime = l.mtime

(* The file has grown behind the bytes the last parse answered for, and they are still the same. *)
Resumes(row, l) ==
  /\ ContextFree /\ row # None
  /\ row.offset > 0
  /\ Size(l) > row.size
  /\ Size(l) >= 3 * row.offset
  /\ SubSeq(l.lines, 1, row.offset) = row.prefix

(* A file that went since discovery found it: nothing was read, and the scan is partial. *)
OverlooksTheVanished(l) == complete

SeenWhole(l) == complete /\ Exists(l)

(***************************************************************************)
(* A file found is looked at again: gone, it makes the scan partial; as    *)
(* the index knows it, it is left alone; otherwise it is read, from where  *)
(* the last parse stopped or from its start.                               *)
(***************************************************************************)
Open(f) ==
  LET l == log[f]
      resumes == Resumes(known[f], l)
  IN  /\ pc = "files" /\ f \in todo
      /\ todo' = todo \ {f}
      /\ complete' = SeenWhole(l)
      /\ IF ~Exists(l) \/ Unchanged(known[f], l)
         THEN UNCHANGED <<pc, source>>
         ELSE /\ pc' = "read"
              /\ source' = [file |-> f, size |-> Size(l), mtime |-> l.mtime, append |-> resumes,
                            offset |-> IF resumes THEN known[f].offset ELSE 0,
                            prefix |-> IF resumes THEN known[f].prefix ELSE <<>>,
                            records |-> NoRecords, complete |-> TRUE]
      /\ UNCHANGED <<worldVars, cacheVars, until, known, found, seesAll, results, events>>

(* The scan is cancelled between two files. *)
Stop ==
  /\ pc = "files" /\ todo # {}
  /\ Mishap("stop")
  /\ todo' = {} /\ complete' = FALSE
  /\ UNCHANGED <<worldVars, cacheVars, pc, until, known, found, seesAll, source, results>>

(***************************************************************************)
(* read_jsonl.  What was read is the source's records, the offset and the  *)
(* prefix are what the next parse may rely on.                             *)
(***************************************************************************)
Took(recs, offset, clean) ==
  source' = [source EXCEPT !.records = recs,
                           !.offset = offset,
                           !.prefix = @ \o SubSeq(log[source.file].lines, source.offset + 1, offset),
                           !.complete = clean]

AtLeast(a, b) == IF a >= b THEN a ELSE b

ReadWhole(l, after) ==
  LET last == Len(l.lines)
  IN  /\ Took(Records(l, (after + 1)..last, until), AtLeast(after, Boundary(l)),
              \A k \in (after + 1)..last : Readable(l, k))
      /\ UNCHANGED <<todo, events>>

(* The callback stops the scan at line k, which it does not parse. *)
StopsAt(l, after, k) ==
  /\ Mishap("stop")
  /\ Took(Records(l, (after + 1)..(k - 1), until), IF k <= Boundary(l) THEN k ELSE Boundary(l), FALSE)
  /\ todo' = {}

FailsBehind(l, after, k) ==
  /\ Mishap("fail")
  /\ Took(Records(l, (after + 1)..k, until), after, FALSE)
  /\ UNCHANGED todo

(* The file is no longer there to be opened: no digest, and so nothing to remember. *)
IsGone ==
  /\ source' = [source EXCEPT !.offset = 0, !.prefix = <<>>, !.complete = FALSE]
  /\ UNCHANGED <<todo, events>>

Read ==
  LET l == log[source.file]
      after == source.offset
  IN  /\ pc = "read"
      /\ pc' = "close"
      /\ \/ ~Exists(l) /\ IsGone
         \/ /\ Exists(l)
            /\ \/ ReadWhole(l, after)
               \/ \E k \in (after + 1)..Len(l.lines) : StopsAt(l, after, k)
               \/ \E k \in after..Len(l.lines) : FailsBehind(l, after, k)
      /\ UNCHANGED <<worldVars, cacheVars, until, known, found, seesAll, results, complete>>

(* The file is looked at once more: one that changed meanwhile is partial. *)
NeverChanges(l) == FALSE

HasChanged(l) == ~Exists(l) \/ Size(l) # source.size \/ l.mtime # source.mtime

Close ==
  LET l == log[source.file]
      whole == source.complete /\ ~HasChanged(l)
  IN  /\ pc = "close"
      /\ results' = [results EXCEPT ![source.file] =
           [source EXCEPT !.complete = whole,
                          !.size  = IF Exists(l) THEN Size(l) ELSE @,
                          !.mtime = IF Exists(l) THEN l.mtime ELSE @,
                          !.offset = IF ContextFree THEN @ ELSE 0,
                          !.prefix = IF ContextFree THEN @ ELSE <<>>]]
      /\ complete' = (complete /\ whole)
      /\ source' = None /\ pc' = "files"
      /\ UNCHANGED <<worldVars, cacheVars, until, known, found, seesAll, todo, events>>

-------------------------------------------------------------------------------
(***************************************************************************)
(* apply_usage_scan.  A partial source is merged into what is stored; a    *)
(* complete one replaces it, or is appended to it; a file that is gone     *)
(* takes its rows with it.                                                 *)
(***************************************************************************)
GoneOrUnseen == {f \in File : known[f] # None} \ found

Deleted == IF seesAll THEN GoneOrUnseen ELSE {}

Partial(f)  == results[f] # None /\ ~results[f].complete
Appended(f) == results[f] # None /\ results[f].complete /\ results[f].append
Replaced(f) == results[f] # None /\ results[f].complete /\ ~results[f].append

Merged(f) == [k \in LineNo |->
  IF results[f].records[k] # None THEN results[f].records[k] ELSE stored[f][k]]

StoredAfter(f) ==
  CASE f \in Deleted            -> NoRecords
    [] Partial(f) \/ Appended(f) -> Merged(f)
    [] Replaced(f)              -> results[f].records
    [] OTHER                    -> stored[f]

MarksAfter(f) ==
  CASE f \in Deleted               -> {}
    [] Partial(f)                  -> marks[f] \cup Hours(results[f].records)
    [] Appended(f) \/ Replaced(f)  -> {}
    [] OTHER                       -> marks[f]

(* remember_partial_progress: no size and no mtime, so that the file is read again. *)
SizedProgress(f) ==
  IF results[f].offset = 0 THEN index[f]
  ELSE [size |-> results[f].size, mtime |-> results[f].mtime,
        offset |-> results[f].offset, prefix |-> results[f].prefix]

Progress(f) ==
  IF results[f].offset = 0 THEN index[f]
  ELSE [size |-> 0, mtime |-> 0, offset |-> results[f].offset, prefix |-> results[f].prefix]

IndexAfter(f) ==
  CASE f \in Deleted               -> None
    [] Partial(f)                  -> Progress(f)
    [] Appended(f) \/ Replaced(f)  -> [size |-> results[f].size, mtime |-> results[f].mtime,
                                       offset |-> results[f].offset, prefix |-> results[f].prefix]
    [] OTHER                       -> index[f]

(* The hours a file makes the transaction compute anew. *)
TouchedByItsRecords(f) == IF results[f] = None THEN {} ELSE Hours(results[f].records)

Touched(f) ==
  CASE f \in Deleted  -> Hours(stored[f])
    [] Partial(f)     -> Hours(results[f].records)
    [] Appended(f)    -> marks[f] \cup Hours(results[f].records)
    [] Replaced(f)    -> marks[f] \cup Hours(stored[f]) \cup Hours(results[f].records)
    [] OTHER          -> {}

(* recompute_hour: an hour is replaced outright by what the records retained for it add up to. *)
Fold(h, recs, part) ==
  LET rows == [b \in Body |->
        Cardinality({x \in File \X LineNo : recs[x[1]][x[2]] = [hour |-> h, body |-> b]})]
  IN  [rows |-> rows,
       partial |-> (\E b \in Body : rows[b] > 0) /\ (\E f \in File : h \in part[f])]

(* The device waits for one complete scan: this agent's, or another's (AnotherCompletes). *)
StillRebuilding == rebuilding /\ ~complete

Apply ==
  /\ pc = "files" /\ todo = {}
  /\ stored' = [f \in File |-> StoredAfter(f)]
  /\ marks' = [f \in File |-> MarksAfter(f)]
  /\ index' = [f \in File |-> IndexAfter(f)]
  /\ facts' = [h \in Hour |->
       IF \E f \in File : h \in Touched(f) THEN Fold(h, stored', marks') ELSE facts[h]]
  /\ rebuilding' = StillRebuilding
  /\ Idle
  /\ UNCHANGED <<worldVars, events>>

-------------------------------------------------------------------------------
(***************************************************************************)
(* What happens around the scan.                                           *)
(***************************************************************************)
Tails ==
  {"ended"} \cup (IF "open" \in Mishaps THEN {"open"} ELSE {})
            \cup (IF "torn" \in Mishaps THEN {"torn"} ELSE {})

Writable == {r \in Record : r.hour <= now} \cup (IF "bad" \in Mishaps THEN {Bad} ELSE {})

Write(f, lines, tail) ==
  /\ events < MaxEvents /\ events' = events + 1
  /\ tail # "ended" => lines # <<>> /\ lines[Len(lines)] # Bad
  /\ log' = [log EXCEPT ![f] = [lines |-> lines, tail |-> tail, mtime |-> events']]
  /\ UNCHANGED <<now, cacheVars, scanVars>>

(* The agent starts a log, or a new line of one. *)
Append1(f) ==
  /\ log[f].tail \in {"none", "ended"}
  /\ Len(log[f].lines) < MaxLines
  /\ \E r \in Writable, t \in Tails : Write(f, Append(log[f].lines, r), t)

(* It goes on with the line it had begun. *)
FinishLine(f) ==
  /\ log[f].tail \in {"open", "torn"}
  /\ \E t \in Tails \ {"torn", log[f].tail} : Write(f, log[f].lines, t)

(* A log is written anew in place, or its inode is used again. *)
Rewrite(f) ==
  /\ "rewrite" \in Mishaps
  /\ log[f].tail # "none"
  /\ \E n \in LineNo : \E lines \in [1..n -> Writable], t \in Tails : Write(f, lines, t)

Remove(f) ==
  /\ Exists(log[f])
  /\ Mishap("remove")
  /\ log' = [log EXCEPT ![f] = [lines |-> <<>>, tail |-> "gone", mtime |-> 0]]
  /\ UNCHANGED <<now, cacheVars, scanVars>>

(* A crash or an error of the database: the transaction is the only thing a scan leaves. *)
CutShort ==
  /\ pc # "idle"
  /\ Mishap("cut")
  /\ Idle
  /\ UNCHANGED <<worldVars, cacheVars>>

(***************************************************************************)
(* rebuild_cache: while nothing scans, or under the hands of a scan -- a   *)
(* reset that found no refresh to wait for, or a reader that met a         *)
(* corrupt page.                                                           *)
(***************************************************************************)
RebuildCache ==
  /\ \/ pc = "idle" /\ Mishap("cache")
     \/ pc # "idle" /\ Mishap("reset")
  /\ EmptyCache
  /\ rebuilding' = TRUE
  /\ UNCHANGED <<worldVars, scanVars>>

(* Another agent of the device, whose turn is before or after, is scanned completely. *)
AnotherCompletes ==
  /\ pc = "idle"
  /\ rebuilding /\ rebuilding' = FALSE
  /\ UNCHANGED <<worldVars, index, stored, marks, facts, scanVars, events>>

(* The next hour begins, while nothing scans or in the middle of a scan. *)
TurnOfTheHour ==
  /\ now + 1 \in Hour
  /\ pc = "idle" \/ "turn" \in Mishaps
  /\ now' = now + 1
  /\ until' = IF pc = "idle" THEN now' ELSE until
  /\ UNCHANGED <<log, cacheVars, pc, known, found, seesAll, todo, source, results, complete, events>>

Scanner == Begin \/ (\E f \in File : Open(f)) \/ Read \/ Close \/ Apply

Next ==
  \/ Scanner \/ Stop \/ CutShort \/ RebuildCache \/ AnotherCompletes \/ TurnOfTheHour
  \/ \E f \in File : Append1(f) \/ FinishLine(f) \/ Rewrite(f) \/ Remove(f)

SafetySpec == Init /\ [][Next]_vars

(* Refreshes scan again and again; nothing is promised of agents and mishaps. *)
Spec == SafetySpec /\ WF_vars(Scanner)

-------------------------------------------------------------------------------
(***************************************************************************)
(* A file the next scan will skip is one whose every record is stored, and *)
(* nothing else is stored of it: whatever the agents did while it was      *)
(* read, the metadata in the index vouches for the rows beside it.         *)
(***************************************************************************)
SkippedIsStored ==
  \A f \in File : Exists(log[f]) /\ Unchanged(index[f], log[f]) =>
    stored[f] = AllRecords(log[f])

(***************************************************************************)
(* remember_partial_progress keeps "the byte the last clean record ended   *)
(* on [...] so the retry reads the part that was never read": what lies in *)
(* front of the offset a parse may resume at is stored.                    *)
(***************************************************************************)
ResumesBehindWhatItRead ==
  \A f \in File : Exists(log[f]) /\ index[f] # None /\ Resumes(index[f], log[f]) =>
    \A k \in 1..index[f].offset : stored[f][k] = AllRecords(log[f])[k]

(***************************************************************************)
(* An hourly fact is what the retained records of its hour add up to:      *)
(* "what is stored is replaced outright rather than merged, so a record    *)
(* that moved out of the hour leaves no trace of itself behind".           *)
(***************************************************************************)
FactsFollowRecords == \A h \in Hour : facts[h] = Fold(h, stored, marks)

(***************************************************************************)
(* "Complete" is what a scan tells the diagnostics, and what makes it end  *)
(* the rebuilding of the cache: when a scan that says so was applied, each *)
(* file it found is indexed, and stored to its last record as far as the   *)
(* file has not changed since, whatever was hidden, gone or half written   *)
(* while it was read, and however empty the cache was before.              *)
(***************************************************************************)
CompleteIsWhole ==
  [][Apply /\ complete =>
       \A f \in found :
         /\ index'[f] # None
         /\ Exists(log[f]) /\ Unchanged(index'[f], log[f]) =>
              stored'[f] = AllRecords(log[f])]_vars

(***************************************************************************)
(* The comment that clears the flag says that from there on "the local     *)
(* Usage it reports is this device's own history again": what an agent had *)
(* written by then is indexed.  Not so when the flag goes with the scan of *)
(* another agent, which knows nothing of this one's logs.                  *)
(***************************************************************************)
RebuildEndsWhole ==
  [][rebuilding /\ ~rebuilding' =>
       \A f \in File : Exists(log[f]) /\ (pc = "idle" \/ f \in found) => index'[f] # None]_vars

(***************************************************************************)
(* A scan that saw too little deletes nothing: among logs that only grow,  *)
(* applying one never loses a record of a log that is still there, whether *)
(* it could not be found, not be read, or not be read to its end.          *)
(***************************************************************************)
ApplyLosesNothing ==
  [][Apply => \A f \in File : Exists(log[f]) =>
       \A k \in LineNo : stored[f][k] # None => stored'[f][k] # None]_vars

(***************************************************************************)
(* "A stably malformed file stays `partial`" (ADR 0026): a file with a     *)
(* line nobody can read is never taken as read completely.                 *)
(***************************************************************************)
MalformedStaysPartial ==
  \A f \in File : Exists(log[f]) /\ (\E k \in 1..Len(log[f].lines) : log[f].lines[k] = Bad) =>
    ~Unchanged(index[f], log[f])

(***************************************************************************)
(* When the agents come to rest, so do the records: each log is stored to  *)
(* its last readable line and a log that is gone is gone, whatever cut a   *)
(* scan short before.  The one that stays is a log that was gone before    *)
(* any scan of it left a row in the index: deletion goes by the index.     *)
(***************************************************************************)
NeverIndexed(f) == log[f].tail = "gone" /\ index[f] = None

EventuallyMirrored ==
  <>[](\A f \in File : stored[f] = AllRecords(log[f]) \/ NeverIndexed(f))

(***************************************************************************)
(* The same among logs that are rewritten and that have lines nobody can   *)
(* read.  A partial source is merged, "without allowing an incomplete scan *)
(* to delete facts", so of such a log old records may remain, but all that *)
(* can be read of it is stored.                                            *)
(***************************************************************************)
Faulty(l) == l.tail = "torn" \/ \E k \in 1..Len(l.lines) : l.lines[k] = Bad

Holds(f) ==
  \A k \in LineNo : AllRecords(log[f])[k] # None => stored[f][k] = AllRecords(log[f])[k]

EventuallyRead ==
  <>[](\A f \in File :
         \/ stored[f] = AllRecords(log[f])
         \/ NeverIndexed(f)
         \/ Faulty(log[f]) /\ Holds(f))
===============================================================================
