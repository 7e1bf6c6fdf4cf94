-------------------------- MODULE HistorySync_proofs --------------------------
(***************************************************************************)
(* Quota history and the settings document, for any devices, spans, slack, *)
(* chunk size, bounds and mishaps: the types, and that an Account whose    *)
(* switch is off holds no row, whichever writers and uploads were under    *)
(* way when it was turned.  Where no upload is cut short and all devices   *)
(* declare one span, what a device will not send again is on the Relay;    *)
(* and while the switch stays on, a device that declares the shortest span *)
(* there is never takes rows for lost.                                     *)
(***************************************************************************)
EXTENDS HistorySync, FiniteSetTheorems, WellFoundedInduction, TLAPS

(* What a thread at this step has read, and has to send. *)
ThreadsHoldTheirs ==
  \A t \in Thread :
    /\ thread[t].pc \in {"read", "answered", "note"} => thread[t].doc \in Document
    /\ thread[t].pc \in {"put", "judge"} => thread[t].todo # {}
    /\ thread[t].pc = "judge" => thread[t].held # None

HistoryInv == TypeOK /\ ThreadsHoldTheirs

(* A revision names one document. *)
ReadDocumentsStand ==
  \A t \in Thread : thread[t].pc = "read" =>
    /\ thread[t].doc.revision <= settings.revision
    /\ thread[t].doc.revision = settings.revision => thread[t].doc = settings

-------------------------------------------------------------------------------
USE HistoryAssumption

(***************************************************************************)
(* A set of natural numbers has a least one, and a bounded one a greatest. *)
(***************************************************************************)
LEMMA NatLeast ==
  ASSUME NEW S \in SUBSET Nat, S # {}
  PROVE  \E x \in S : \A y \in S : x <= y
<1>1. \E x \in S : \A y \in S : ~ (<<y, x>> \in OpToRel(<, Nat))
  BY NatLessThanWellFounded, WFMin
<1>2. OpToRel(<, Nat) = {p \in Nat \X Nat : p[1] < p[2]}
  BY Zenon DEF OpToRel
<1>3. \A x, y \in S : ~(<<y, x>> \in {p \in Nat \X Nat : p[1] < p[2]}) => x <= y
  OBVIOUS
<1> QED  BY <1>1, <1>2, <1>3

LEMMA LeastIs ==
  ASSUME NEW S \in SUBSET Nat, S # {}
  PROVE  Least(S) \in S /\ \A c \in S : Least(S) <= c
  BY NatLeast DEF Least

LEMMA GreatestIs ==
  ASSUME NEW n \in Nat, NEW S \in SUBSET (0..n), S # {}
  PROVE  Greatest(S) \in S /\ \A c \in S : Greatest(S) >= c
<1> DEFINE T == {n - x : x \in S}
<1>0. \A x \in S : x \in 0..n
  OBVIOUS
<1>1. T \in SUBSET Nat
  BY <1>0
<1>2. T # {}
  OBVIOUS
<1>3. PICK z \in T : \A y \in T : z <= y
  BY <1>1, <1>2, NatLeast
<1>4. PICK x \in S : z = n - x
  OBVIOUS
<1>5. \A y \in S : n - y \in T
  OBVIOUS
<1> HIDE DEF T
<1>6. \A c \in S : x >= c
  BY <1>0, <1>3, <1>4, <1>5
<1> QED  BY <1>6 DEF Greatest

(* A chunk of what is to be sent: some of it, and at least its oldest. *)
LEMMA ChunkIs ==
  ASSUME NEW todo \in SUBSET Point, todo # {}
  PROVE  /\ Chunk(todo) \subseteq todo /\ Chunk(todo) # {}
         /\ BucketsOf(Chunk(todo)) \in SUBSET Bucket /\ BucketsOf(Chunk(todo)) # {}
<1>1. Chunk(todo) \subseteq todo
  BY DEF Chunk
<1>2. BucketsOf(todo) \in SUBSET Nat /\ BucketsOf(todo) # {}
  BY DEF BucketsOf, Point, Bucket
<1>3. PICK b \in BucketsOf(todo) : \A c \in BucketsOf(todo) : b <= c
  BY <1>2, NatLeast
<1>6. PICK p \in todo : b = p[1]
  BY DEF BucketsOf
<1>4. {q \in todo : q[1] < p[1]} = {}
  <2>1. \A q \in todo : q[1] \in Nat /\ q[1] \in BucketsOf(todo)
    BY <1>2 DEF BucketsOf
  <2>2. \A q \in todo : ~(q[1] < p[1])
    BY <1>3, <1>6, <2>1
  <2> QED  BY <2>2
<1>5. p \in Chunk(todo)
  BY <1>4, FS_EmptySet DEF Chunk
<1> QED  BY <1>1, <1>5 DEF BucketsOf, Point

(* The record after a chunk and its answer. *)
LEMMA RecordTypes ==
  ASSUME NEW r \in Record, NEW todo \in SUBSET Point, todo # {}, NEW span \in Spans,
         NEW mine \in SUBSET Bucket, NEW held \in Spans
  PROVE  /\ Remembered(r, Chunk(todo), span) \in Record
         /\ Applied(Remembered(r, Chunk(todo), span), mine, held, span) \in Record
         /\ Forgotten(Applied(Remembered(r, Chunk(todo), span), mine, held, span)) \in Record
<1> DEFINE chunk == Chunk(todo)
           new == Remembered(r, chunk, span)
<1>1. Least(BucketsOf(chunk)) \in Bucket
  BY ChunkIs, LeastIs DEF Bucket
<1>2. Greatest(BucketsOf(chunk)) \in BucketsOf(chunk)
  BY ChunkIs, GreatestIs DEF Bucket
<1>3. (CHOOSE p \in chunk : p[1] = Greatest(BucketsOf(chunk))) \in Point
  BY <1>2, ChunkIs DEF BucketsOf
<1>4. Reseeded(r, chunk, span) \in Bucket
  BY <1>1 DEF Reseeded, Record
<1>5. new \in Record
  BY <1>3, <1>4 DEF Remembered, Record
<1> HIDE DEF new
<1>6. mine # {} => Greatest(mine) \in Bucket
  BY GreatestIs DEF Bucket
<1>7. Applied(new, mine, held, span) \in Record
  <2>1. CASE mine = {}
    BY <1>5, <2>1 DEF Applied
  <2>2. CASE mine # {}
    <3> DEFINE w == IF new.watermark = None \/ Greatest(mine) > new.watermark
                    THEN Greatest(mine) ELSE new.watermark
               a == IF held < span THEN held ELSE IF held > span THEN None ELSE new.adopted
    <3>1. w \in Bucket \cup {None} /\ a \in Spans \cup {None}
      BY <1>5, <1>6, <2>2 DEF Record
    <3>2. Applied(new, mine, held, span) = [new EXCEPT !.watermark = w, !.adopted = a]
      BY <2>2 DEF Applied
    <3> HIDE DEF w, a
    <3> QED  BY <1>5, <3>1, <3>2 DEF Record
  <2> QED  BY <2>1, <2>2
<1>8. ASSUME NEW s \in Record PROVE Forgotten(s) \in Record
  BY DEF Forgotten, Record
<1> QED  BY <1>5, <1>7, <1>8 DEF new

LEMMA BackfilledType ==
  ASSUME NEW t \in Thread, NEW r \in Record PROVE Backfilled(t, r) \in Record
  BY DEF Backfilled, Record

LEMMA DeclaredType ==
  ASSUME TypeOK, NEW d \in Device PROVE Declared(d) \in Spans
<1>1. record[d].adopted \in Spans \cup {None} /\ Collector[d] \in Spans
  BY DEF TypeOK, Record, Spans
<1> QED  BY <1>1 DEF Declared, Shorter

LEMMA RestingType == Resting \in Work /\ Unsynced \in Record
  BY DEF Resting, Work, ThreadStep, Unsynced, Record

LEMMA ThreadParts ==
  ASSUME TypeOK, NEW t \in Thread
  PROVE  thread[t] \in Work /\ t[1] \in Device
  BY DEF TypeOK, Thread

(* A thread that turns to its next work, of which the rest is kept. *)
LEMMA BecomeType ==
  ASSUME HistoryInv, NEW t \in Thread, NEW w \in Work, thread' = [thread EXCEPT ![t] = w],
         w.pc \in {"read", "answered", "note"} => w.doc \in Document,
         w.pc \in {"put", "judge"} => w.todo # {},
         w.pc = "judge" => w.held # None
  PROVE  thread' \in [Thread -> Work] /\ ThreadsHoldTheirs'
  BY DEF HistoryInv, TypeOK, ThreadsHoldTheirs

-------------------------------------------------------------------------------
LEMMA HistoryInit == Init => HistoryInv
<1> SUFFICES ASSUME Init PROVE HistoryInv
  OBVIOUS
<1>1. ThreadsHoldTheirs
  BY DEF Init, ThreadsHoldTheirs, Resting
<1>2. NoSamples \in [Bucket -> 0..MaxSamples]
  BY DEF NoSamples
<1>3. settings \in Document /\ now \in Bucket
  BY DEF Init, Document, Bucket
<1>4. TypeOK
  BY <1>2, <1>3, RestingType DEF Init, TypeOK
<1> QED  BY <1>1, <1>4 DEF HistoryInv

LEMMA WriteTypes ==
  ASSUME TypeOK, NEW read, NEW sync \in BOOLEAN, Write(read, sync)
  PROVE  /\ settings' \in Document /\ settings' = Rewritten(sync)
         /\ rows' \in [Device -> [Bucket -> 0..MaxSamples]]
         /\ duration' \in Spans \cup {None}
<1>1. settings' \in Document
  BY DEF TypeOK, Write, Rewritten, Document
<1> QED  BY <1>1 DEF TypeOK, Write, DeleteRows, KeepRows, NoSamples

(* Reading, writing and noting the document. *)
LEMMA SettingsStep ==
  ASSUME HistoryInv, NEW t \in Thread,
         \/ Collect(t) \/ Get(t) \/ PutSettings(t) \/ CompareAndSet(t)
         \/ SettingsAreLost(t) \/ StoreSettings(t) \/ Note(t)
  PROVE  HistoryInv'
<1> DEFINE work == thread[t]
           d == t[1]
<1>t. TypeOK /\ work \in Work /\ d \in Device /\ AfterSettings(t) \in {"idle", "after"}
  BY ThreadParts DEF HistoryInv, AfterSettings
<1>r. \A pc \in {"idle", "after", "get"} : [Resting EXCEPT !.pc = pc] \in Work
  BY RestingType DEF Work, ThreadStep
<1>1. CASE Collect(t)
  <2> DEFINE w == [work EXCEPT !.pc = "get"]
  <2>1. samples' \in [Device -> [Bucket -> 0..MaxSamples]]
    <3>1. CASE UNCHANGED samples
      BY <1>t, <3>1 DEF TypeOK
    <3>2. CASE samples[d][now] < MaxSamples /\ samples' = [samples EXCEPT ![d][now] = @ + 1]
      <4>1. samples[d] \in [Bucket -> 0..MaxSamples] /\ samples[d][now] + 1 \in 0..MaxSamples
        BY <1>t, <3>2 DEF TypeOK
      <4> QED  BY <1>t, <3>2, <4>1 DEF TypeOK
    <3> QED  BY <1>1, <3>1, <3>2 DEF Collect
  <2>2. w \in Work /\ w.pc = "get" /\ thread' = [thread EXCEPT ![t] = w]
    BY <1>1, <1>t DEF Collect, Goto, Work, ThreadStep
  <2>3. thread' \in [Thread -> Work] /\ ThreadsHoldTheirs'
    BY <2>2, BecomeType
  <2> QED  BY <1>1, <1>t, <2>1, <2>3 DEF Collect, HistoryInv, TypeOK, relayVars
<1>2. CASE Get(t)
  <2>1. CASE Goto(t, "after")
    <3> DEFINE w == [work EXCEPT !.pc = "after"]
    <3>1. w \in Work /\ w.pc = "after" /\ thread' = [thread EXCEPT ![t] = w]
      BY <2>1, <1>t DEF Goto, Work, ThreadStep
    <3>2. thread' \in [Thread -> Work] /\ ThreadsHoldTheirs'
      BY <3>1, BecomeType
    <3> QED  BY <1>2, <1>t, <3>2 DEF Get, HistoryInv, TypeOK, relayVars, deviceVars
  <2>2. CASE thread' = [thread EXCEPT ![t].pc = "answered", ![t].doc = settings]
    <3> DEFINE w == [work EXCEPT !.pc = "answered", !.doc = settings]
    <3>0. settings \in Document
      BY <1>t DEF TypeOK
    <3>1. w \in Work /\ w.pc = "answered" /\ w.doc \in Document /\ thread' = [thread EXCEPT ![t] = w]
      BY <2>2, <3>0, <1>t DEF Work, ThreadStep
    <3>2. thread' \in [Thread -> Work] /\ ThreadsHoldTheirs'
      BY <3>1, BecomeType
    <3> QED  BY <1>2, <1>t, <3>2 DEF Get, HistoryInv, TypeOK, relayVars, deviceVars
  <2> QED  BY <1>2, <2>1, <2>2 DEF Get
<1>3. CASE PutSettings(t)
  <2>1. PICK want \in BOOLEAN :
          thread' = [thread EXCEPT ![t].doc = settings, ![t].want = want,
                       ![t].pc = IF Matches(t[1]) THEN "read" ELSE "answered"]
    BY <1>3 DEF PutSettings
  <2> DEFINE pc == IF Matches(t[1]) THEN "read" ELSE "answered"
             w == [work EXCEPT !.doc = settings, !.want = want, !.pc = pc]
  <2>2. settings \in Document /\ pc \in {"read", "answered"}
    BY <1>t DEF TypeOK
  <2>3. thread' = [thread EXCEPT ![t] = w]
    BY <2>1, <1>t DEF TypeOK
  <2> HIDE DEF pc
  <2>4. w \in Work /\ w.pc \in {"read", "answered"} /\ w.doc \in Document
    BY <2>2, <1>t DEF Work, ThreadStep
  <2>5. thread' \in [Thread -> Work] /\ ThreadsHoldTheirs'
    BY <2>3, <2>4, BecomeType
  <2> QED  BY <1>3, <1>t, <2>5 DEF PutSettings, HistoryInv, TypeOK, relayVars, deviceVars
<1>4. CASE CompareAndSet(t)
  <2> DEFINE w == [work EXCEPT !.pc = "answered", !.doc = settings', !.want = FALSE]
  <2>1. /\ settings' \in Document
        /\ rows' \in [Device -> [Bucket -> 0..MaxSamples]]
        /\ duration' \in Spans \cup {None}
    <3>1. work.want \in BOOLEAN
      BY <1>t DEF Work
    <3>2. CASE Compared(t)
      BY <1>4, <1>t, <3>1, <3>2, WriteTypes DEF CompareAndSet
    <3>3. CASE ~Compared(t)
      BY <1>4, <1>t, <3>3 DEF CompareAndSet, relayVars, TypeOK
    <3> QED  BY <3>2, <3>3
  <2>3. thread' = [thread EXCEPT ![t] = w]
    BY <1>4, <1>t DEF CompareAndSet, TypeOK
  <2>4. w \in Work /\ w.pc = "answered" /\ w.doc \in Document
    BY <2>1, <1>t DEF Work, ThreadStep
  <2>5. thread' \in [Thread -> Work] /\ ThreadsHoldTheirs'
    BY <2>3, <2>4, BecomeType
  <2> QED  BY <1>4, <1>t, <2>1, <2>5 DEF CompareAndSet, HistoryInv, TypeOK, deviceVars
<1>5. CASE SettingsAreLost(t)
  <2> DEFINE w == [Resting EXCEPT !.pc = AfterSettings(t)]
  <2>1. w \in Work /\ w.pc \in {"idle", "after"} /\ thread' = [thread EXCEPT ![t] = w]
    BY <1>5, <1>t, <1>r, RestingType DEF SettingsAreLost, Become, Work
  <2>2. thread' \in [Thread -> Work] /\ ThreadsHoldTheirs'
    BY <2>1, BecomeType
  <2>3. events' \in 0..MaxEvents
    BY <1>5, <1>t DEF SettingsAreLost, Happens, TypeOK
  <2> QED  BY <1>5, <1>t, <2>2, <2>3 DEF SettingsAreLost, HistoryInv, TypeOK, relayVars, deviceVars
<1>6. CASE StoreSettings(t)
  <2> DEFINE w == [work EXCEPT !.pc = "note"]
  <2>1. work.doc \in Document
    BY <1>6, <1>t DEF StoreSettings, HistoryInv, ThreadsHoldTheirs, Work
  <2>2. w \in Work /\ w.pc = "note" /\ w.doc \in Document /\ thread' = [thread EXCEPT ![t] = w]
    BY <1>6, <1>t, <2>1 DEF StoreSettings, Goto, Work, ThreadStep
  <2>3. thread' \in [Thread -> Work] /\ ThreadsHoldTheirs'
    BY <2>2, BecomeType
  <2> QED  BY <1>6, <1>t, <2>1, <2>3 DEF StoreSettings, HistoryInv, TypeOK, relayVars
<1>7. CASE Note(t)
  <2>1. PICK pc \in {"idle", "after", "owed"} :
          thread' = [thread EXCEPT ![t] = [Resting EXCEPT !.pc = pc, !.then = AfterSettings(t)]]
    BY <1>7, <1>t DEF Note, Become
  <2> DEFINE w == [Resting EXCEPT !.pc = pc, !.then = AfterSettings(t)]
  <2>2. w \in Work /\ w.pc \in {"idle", "after", "owed"}
    <3>1. AfterSettings(t) \in {"idle", "after"} /\ pc \in ThreadStep
      BY DEF AfterSettings, ThreadStep
    <3>2. Resting \in Work
      BY RestingType
    <3> HIDE DEF Resting, AfterSettings
    <3> QED  BY <3>1, <3>2 DEF Work
  <2>3. thread' \in [Thread -> Work] /\ ThreadsHoldTheirs'
    BY <2>1, <2>2, BecomeType
  <2>4. record' \in [Device -> Record]
    <3>0. record[d] \in Record
      BY <1>t DEF TypeOK
    <3>1. [record[d] EXCEPT !.sync = TRUE, !.refused = None] \in Record
      BY <3>0 DEF Record
    <3> QED  BY <1>7, <1>t, <3>1, RestingType DEF Note, Record_, TypeOK
  <2> QED  BY <1>7, <1>t, <2>3, <2>4 DEF Note, HistoryInv, TypeOK, relayVars
<1> QED  BY <1>1, <1>2, <1>3, <1>4, <1>5, <1>6, <1>7

(* What an insert leaves of the rows. *)
LEMMA InsertTypes ==
  ASSUME TypeOK, NEW d \in Device, NEW points \in SUBSET Point, NEW span \in Spans,
         Insert(d, points, span)
  PROVE  /\ rows' \in [Device -> [Bucket -> 0..MaxSamples]]
         /\ duration' \in Spans \cup {None}
<1> DEFINE of(b) == {p[2] : p \in {q \in points : q[1] = b}} \cup {rows[d][b]}
<1>1. rows[d] \in [Bucket -> 0..MaxSamples]
  BY DEF TypeOK
<1>2. ASSUME NEW b \in Bucket PROVE Greatest(of(b)) \in 0..MaxSamples
  <2>1. of(b) \in SUBSET (0..MaxSamples) /\ of(b) # {}
    BY <1>1, <1>2 DEF Point
  <2> HIDE DEF of
  <2> QED  BY <2>1, GreatestIs
<1>3. [b \in Bucket |-> Greatest(of(b))] \in [Bucket -> 0..MaxSamples]
  BY <1>2
<1>4. rows' = rows \/ rows' = [rows EXCEPT ![d] = [b \in Bucket |-> Greatest(of(b))]]
  BY DEF Insert
<1> HIDE DEF of
<1>5. rows' \in [Device -> [Bucket -> 0..MaxSamples]]
  BY <1>3, <1>4 DEF TypeOK
<1> QED  BY <1>5 DEF Insert

(* An upload ends: what it was for goes on. *)
LEMMA EndTypes ==
  ASSUME HistoryInv, NEW t \in Thread, EndUpload(t)
  PROVE  thread' \in [Thread -> Work] /\ ThreadsHoldTheirs'
<1> DEFINE w == [Resting EXCEPT !.pc = thread[t].then]
<1>1. thread[t].then \in {"idle", "after"}
  BY ThreadParts DEF HistoryInv, Work
<1>2. w \in Work /\ w.pc \in {"idle", "after"} /\ thread' = [thread EXCEPT ![t] = w]
  BY <1>1, RestingType DEF Work, ThreadStep, EndUpload, Become, Resting
<1> QED  BY <1>2, BecomeType

LEMMA StartTypes ==
  ASSUME HistoryInv, NEW t \in Thread, NEW backfill \in BOOLEAN, NEW then \in {"idle", "after"},
         StartUpload(t, backfill, then)
  PROVE  thread' \in [Thread -> Work] /\ ThreadsHoldTheirs'
<1> DEFINE rev == RevisionOf(cached[t[1]])
           w == [Resting EXCEPT !.pc = "plan", !.backfill = backfill, !.then = then, !.revision = rev]
<1>1. rev \in (0..LastRevision) \cup {None}
  BY ThreadParts DEF RevisionOf, HistoryInv, TypeOK, Document
<1> HIDE DEF rev
<1>2. w \in Work /\ w.pc = "plan"
  BY <1>1, RestingType DEF Work, ThreadStep
<1>3. thread' = [thread EXCEPT ![t] = w]
  BY DEF StartUpload, Become, rev
<1> QED  BY <1>2, <1>3, BecomeType

LEMMA RefuseTypes ==
  ASSUME HistoryInv, NEW t \in Thread, Refuse(t)
  PROVE  record' \in [Device -> Record] /\ thread' \in [Thread -> Work] /\ ThreadsHoldTheirs'
<1> DEFINE r == [Unsynced EXCEPT !.refused = thread[t].revision]
<1>1. r \in Record
  BY ThreadParts, RestingType DEF HistoryInv, Work, Record
<1>2. record' = [record EXCEPT ![t[1]] = r]
  BY DEF Refuse, Record_
<1>3. record' \in [Device -> Record]
  BY <1>1, <1>2 DEF HistoryInv, TypeOK
<1> QED  BY <1>3, EndTypes DEF Refuse

(* An upload, from its plan to the answer to its last chunk. *)
LEMMA UploadStep ==
  ASSUME HistoryInv, NEW t \in Thread,
         Backfill(t) \/ AfterCollection(t) \/ Plan(t) \/ UploadChunk(t) \/ ChunkIsLost(t) \/ Judge(t)
  PROVE  HistoryInv'
<1> DEFINE work == thread[t]
           d == t[1]
<1>t. /\ TypeOK /\ work \in Work /\ d \in Device /\ record[d] \in Record
      /\ work.then \in {"idle", "after"} /\ Declared(d) \in Spans
  BY ThreadParts, DeclaredType DEF HistoryInv, TypeOK, Work
<1>1. CASE Backfill(t)
  <2>1. thread' \in [Thread -> Work] /\ ThreadsHoldTheirs'
    <3>1. CASE Become(t, [Resting EXCEPT !.pc = work.then])
      BY <3>1, EndTypes DEF EndUpload
    <3>2. CASE StartUpload(t, TRUE, work.then)
      BY <1>t, <3>2, StartTypes
    <3> QED  BY <1>1, <3>1, <3>2 DEF Backfill
  <2> QED  BY <1>1, <1>t, <2>1 DEF Backfill, HistoryInv, TypeOK, relayVars, deviceVars
<1>2. CASE AfterCollection(t)
  <2>1. thread' \in [Thread -> Work] /\ ThreadsHoldTheirs'
    <3>1. CASE Become(t, Resting)
      <4>1. Resting \in Work /\ Resting.pc = "idle" /\ thread' = [thread EXCEPT ![t] = Resting]
        BY <3>1, RestingType DEF Become, Resting
      <4> QED  BY <4>1, BecomeType
    <3>2. CASE StartUpload(t, ~record[d].done, "idle")
      BY <1>t, <3>2, StartTypes DEF Record
    <3> QED  BY <1>2, <3>1, <3>2 DEF AfterCollection
  <2>2. full' \in [Device -> BOOLEAN]
    BY <1>2, <1>t DEF AfterCollection, TypeOK
  <2> QED  BY <1>2, <1>t, <2>1, <2>2 DEF AfterCollection, HistoryInv, TypeOK, relayVars
<1>3. CASE Plan(t)
  <2>1. CASE Record_(d, Backfilled(t, record[d])) /\ EndUpload(t)
    <3>1. record' \in [Device -> Record]
      BY <1>t, <2>1, BackfilledType DEF Record_, TypeOK
    <3> QED  BY <1>3, <1>t, <2>1, <3>1, EndTypes DEF Plan, HistoryInv, TypeOK, relayVars
  <2>2. CASE /\ Planned(d) # {} /\ UNCHANGED record
             /\ thread' = [thread EXCEPT ![t].pc = "put", ![t].todo = Planned(d)]
    <3> DEFINE w == [work EXCEPT !.pc = "put", !.todo = Planned(d)]
    <3>1. Planned(d) \in SUBSET Point
      BY <1>t DEF Planned, Held, Point, TypeOK
    <3>2. w \in Work /\ w.pc = "put" /\ w.todo # {} /\ thread' = [thread EXCEPT ![t] = w]
      BY <1>t, <2>2, <3>1 DEF Work, ThreadStep
    <3>3. thread' \in [Thread -> Work] /\ ThreadsHoldTheirs'
      BY <3>2, BecomeType
    <3> QED  BY <1>3, <1>t, <2>2, <3>3 DEF Plan, HistoryInv, TypeOK, relayVars
  <2> QED  BY <1>3, <2>1, <2>2 DEF Plan
<1>4. CASE UploadChunk(t)
  <2> DEFINE chunk == Chunk(work.todo)
             span == Declared(d)
  <2>0. UNCHANGED <<now, settings, samples, cached>>
    BY <1>4 DEF UploadChunk
  <2>1. CASE EndUpload(t) /\ UNCHANGED <<rows, duration, record, full, events>>
    BY <1>t, <2>0, <2>1, EndTypes DEF HistoryInv, TypeOK
  <2>2. CASE Refuse(t) /\ UNCHANGED <<rows, duration, events>>
    BY <1>t, <2>0, <2>2, RefuseTypes DEF Refuse, HistoryInv, TypeOK
  <2>3. CASE /\ StopsUpload(t, "full") /\ full' = [full EXCEPT ![d] = TRUE]
             /\ EndUpload(t) /\ UNCHANGED <<rows, duration, record>>
    <3>1. full' \in [Device -> BOOLEAN] /\ events' \in 0..MaxEvents
      BY <1>t, <2>3 DEF TypeOK, StopsUpload, Happens
    <3> QED  BY <1>t, <2>0, <2>3, <3>1, EndTypes DEF HistoryInv, TypeOK
  <2>4. CASE /\ Insert(d, chunk, span) /\ UNCHANGED <<record, full, events>>
             /\ thread' = [thread EXCEPT ![t].pc = "judge",
                             ![t].held = IF duration = None THEN span ELSE duration]
    <3> DEFINE held == IF duration = None THEN span ELSE duration
               w == [work EXCEPT !.pc = "judge", !.held = held]
    <3>1. chunk \in SUBSET Point /\ work.todo # {}
      BY <1>4, <1>t DEF UploadChunk, HistoryInv, ThreadsHoldTheirs, Work, Chunk
    <3>2. rows' \in [Device -> [Bucket -> 0..MaxSamples]] /\ duration' \in Spans \cup {None}
      BY <1>t, <2>4, <3>1, InsertTypes
    <3>3. held \in Spans /\ held # None
      BY <1>t DEF TypeOK, Spans
    <3>4. thread' = [thread EXCEPT ![t] = w]
      BY <1>t, <2>4 DEF TypeOK
    <3> HIDE DEF held
    <3>5. w \in Work /\ w.pc = "judge" /\ w.todo # {} /\ w.held # None
      BY <1>t, <3>1, <3>3 DEF Work, ThreadStep
    <3>6. thread' \in [Thread -> Work] /\ ThreadsHoldTheirs'
      BY <3>4, <3>5, BecomeType
    <3> QED  BY <1>t, <2>0, <2>4, <3>2, <3>6 DEF HistoryInv, TypeOK
  <2> QED  BY <1>4, <2>1, <2>2, <2>3, <2>4 DEF UploadChunk
<1>5. CASE ChunkIsLost(t)
  <2>1. events' \in 0..MaxEvents
    BY <1>5, <1>t DEF ChunkIsLost, StopsUpload, Happens, TypeOK
  <2> QED  BY <1>5, <1>t, <2>1, EndTypes DEF ChunkIsLost, HistoryInv, TypeOK, relayVars, deviceVars
<1>6. CASE Judge(t)
  <2> DEFINE chunk == Chunk(work.todo)
             span == Declared(d)
             mine == Held(rows[d])
             kept == Applied(Remembered(record[d], chunk, span), mine, work.held, span)
  <2>0. UNCHANGED <<now, settings, rows, duration, samples, cached, full, events>>
    BY <1>6 DEF Judge, relayVars
  <2>1. work.todo \in SUBSET Point /\ work.todo # {} /\ work.held \in Spans /\ mine \in SUBSET Bucket
    BY <1>6, <1>t DEF Judge, HistoryInv, ThreadsHoldTheirs, Work, Held
  <2>2. kept \in Record /\ Forgotten(kept) \in Record
    BY <1>t, <2>1, RecordTypes
  <2>3. chunk \subseteq work.todo
    BY <2>1, ChunkIs
  <2> HIDE DEF chunk, kept
  <2>4. CASE Refuse(t)
    BY <1>t, <2>0, <2>4, RefuseTypes DEF HistoryInv, TypeOK
  <2>5. CASE /\ Record_(d, Forgotten(kept))
             /\ thread' = [thread EXCEPT ![t].pc = "plan", ![t].again = TRUE, ![t].sent = FALSE,
                             ![t].todo = {}, ![t].held = None]
    <3> DEFINE w == [work EXCEPT !.pc = "plan", !.again = TRUE, !.sent = FALSE, !.todo = {},
                                 !.held = None]
    <3>1. w \in Work /\ w.pc = "plan" /\ thread' = [thread EXCEPT ![t] = w]
      BY <1>t, <2>5 DEF Work, ThreadStep, TypeOK
    <3>2. thread' \in [Thread -> Work] /\ ThreadsHoldTheirs'
      BY <3>1, BecomeType
    <3>3. record' \in [Device -> Record]
      BY <1>t, <2>2, <2>5 DEF Record_, TypeOK
    <3> QED  BY <1>t, <2>0, <3>2, <3>3 DEF HistoryInv, TypeOK
  <2>6. CASE /\ work.todo # chunk /\ Record_(d, kept)
             /\ thread' = [thread EXCEPT ![t].pc = "put", ![t].sent = TRUE,
                             ![t].todo = @ \ chunk, ![t].held = None]
    <3> DEFINE rest == work.todo \ chunk
               w == [work EXCEPT !.pc = "put", !.sent = TRUE, !.todo = rest, !.held = None]
    <3>1. rest \in SUBSET Point /\ rest # {}
      BY <2>1, <2>3, <2>6
    <3>2. thread' = [thread EXCEPT ![t] = w]
      BY <1>t, <2>6 DEF TypeOK
    <3> HIDE DEF rest
    <3>3. w \in Work /\ w.pc = "put" /\ w.todo # {}
      BY <1>t, <3>1 DEF Work, ThreadStep
    <3>4. thread' \in [Thread -> Work] /\ ThreadsHoldTheirs'
      BY <3>2, <3>3, BecomeType
    <3>5. record' \in [Device -> Record]
      BY <1>t, <2>2, <2>6 DEF Record_, TypeOK
    <3> QED  BY <1>t, <2>0, <3>4, <3>5 DEF HistoryInv, TypeOK
  <2>7. CASE Record_(d, Backfilled(t, kept)) /\ EndUpload(t)
    <3>1. record' \in [Device -> Record]
      BY <1>t, <2>2, <2>7, BackfilledType DEF Record_, TypeOK
    <3> QED  BY <1>t, <2>0, <2>7, <3>1, EndTypes DEF HistoryInv, TypeOK
  <2> QED  BY <1>6, <2>4, <2>5, <2>6, <2>7 DEF Judge, chunk, kept
<1> QED  BY <1>1, <1>2, <1>3, <1>4, <1>5, <1>6

(* The other writer, maintenance, the clock and a restart. *)
LEMMA OtherStep ==
  ASSUME HistoryInv, Edit \/ Sweep \/ Tick \/ (\E d \in Device : Restart(d)) \/ UNCHANGED vars
  PROVE  HistoryInv'
<1>t. TypeOK
  BY DEF HistoryInv
<1>1. CASE Edit
  BY <1>1, <1>t, WriteTypes DEF Edit, deviceVars, HistoryInv, TypeOK, ThreadsHoldTheirs
<1>2. CASE Sweep
  <2>1. rows' \in [Device -> [Bucket -> 0..MaxSamples]] /\ duration' \in Spans \cup {None}
    BY <1>2, <1>t DEF Sweep, TypeOK
  <2> QED  BY <1>2, <1>t, <2>1 DEF Sweep, deviceVars, HistoryInv, TypeOK, ThreadsHoldTheirs
<1>3. CASE Tick
  <2>1. now' \in Bucket
    BY <1>3, <1>t DEF Tick, TypeOK, Bucket
  <2> QED  BY <1>3, <1>t, <2>1 DEF Tick, relayVars, deviceVars, HistoryInv, TypeOK, ThreadsHoldTheirs
<1>4. ASSUME NEW d \in Device, Restart(d) PROVE HistoryInv'
  <2>1. thread' = [t \in Thread |-> IF t[1] = d THEN Resting ELSE thread[t]]
    BY <1>4 DEF Restart
  <2>2. thread' \in [Thread -> Work] /\ ThreadsHoldTheirs'
    <3>1. Resting \in Work /\ Resting.pc = "idle"
      BY RestingType DEF Resting
    <3>2. ASSUME NEW t \in Thread PROVE thread'[t] = Resting \/ thread'[t] = thread[t]
      BY <2>1, <3>2
    <3>3. thread' \in [Thread -> Work]
      BY <1>t, <2>1, <3>1 DEF TypeOK
    <3> QED  BY <3>1, <3>2, <3>3 DEF HistoryInv, ThreadsHoldTheirs
  <2>3. events' \in 0..MaxEvents /\ full' \in [Device -> BOOLEAN]
    <3>1. PICK t \in Thread : t[1] = d
      BY <1>4 DEF Restart
    <3>2. StopsUpload(t, "restart")
      BY <1>4, <3>1 DEF Restart
    <3> QED  BY <1>4, <1>t, <3>2 DEF Restart, StopsUpload, Happens, TypeOK
  <2> QED  BY <1>4, <1>t, <2>2, <2>3 DEF Restart, relayVars, HistoryInv, TypeOK
<1>5. CASE UNCHANGED vars
  BY <1>5, <1>t DEF vars, relayVars, deviceVars, HistoryInv, TypeOK, ThreadsHoldTheirs
<1> QED  BY <1>1, <1>2, <1>3, <1>4, <1>5

LEMMA HistoryStep == HistoryInv /\ [Next]_vars => HistoryInv'
  BY SettingsStep, UploadStep, OtherStep DEF Next, SettingsNext, UploadNext

THEOREM HistoryInvariant == Spec => []HistoryInv
  BY HistoryInit, HistoryStep, PTL DEF Spec

(* Every variable of the history sync keeps the type the code gives it. *)
THEOREM HistoryTypes == Spec => []TypeOK
<1>1. HistoryInv => TypeOK
  BY DEF HistoryInv
<1> QED  BY <1>1, HistoryInvariant, PTL

-------------------------------------------------------------------------------
(***************************************************************************)
(* The switch.  The statement that turns it compares the revision again,   *)
(* so the document it decides by is the one it replaces; and every insert  *)
(* asks for the switch by itself.                                          *)
(***************************************************************************)
OffInv == ReadDocumentsStand /\ OffHoldsNothing

(* Rows only go, or come while the switch is on. *)
LEMMA OffStays ==
  ASSUME HistoryInv, OffHoldsNothing, UNCHANGED settings,
         \/ settings.sync
         \/ \A d \in Device : \A b \in Bucket : rows'[d][b] = rows[d][b] \/ rows'[d][b] = 0
  PROVE  OffHoldsNothing'
  BY DEF OffHoldsNothing, Held

LEMMA WriteEmpties ==
  ASSUME HistoryInv, OffHoldsNothing, NEW read, NEW sync \in BOOLEAN, Write(read, sync),
         read = settings
  PROVE  OffHoldsNothing' /\ settings'.revision > settings.revision
<1>1. settings' = Rewritten(sync) /\ settings.revision \in Nat
  BY DEF Write, HistoryInv, TypeOK, Document
<1>2. CASE ~sync /\ read.sync
  BY <1>1, <1>2 DEF Write, DeleteRows, NoSamples, OffHoldsNothing, Held, Rewritten
<1>3. CASE sync \/ ~read.sync
  BY <1>1, <1>3 DEF Write, KeepRows, OffHoldsNothing, Held, Rewritten
<1> QED  BY <1>1, <1>2, <1>3 DEF Rewritten

(* A thread that reads has just read, or goes on to. *)
LEMMA ReadsStay ==
  ASSUME HistoryInv, ReadDocumentsStand,
         settings' = settings \/ (settings'.revision \in Nat /\ settings'.revision > settings.revision),
         \A t \in Thread : thread'[t].pc = "read" =>
           thread'[t] = thread[t] \/ (UNCHANGED settings /\ thread'[t].doc = settings)
  PROVE  ReadDocumentsStand'
<1> SUFFICES ASSUME NEW t \in Thread, thread'[t].pc = "read"
             PROVE  /\ thread'[t].doc.revision <= settings'.revision
                    /\ thread'[t].doc.revision = settings'.revision => thread'[t].doc = settings'
  BY DEF ReadDocumentsStand
<1>1. settings.revision \in Nat
  BY DEF HistoryInv, TypeOK, Document
<1>2. CASE thread'[t] = thread[t]
  <2>1. thread[t].doc.revision \in Nat
    BY <1>2 DEF HistoryInv, ThreadsHoldTheirs, Document
  <2> QED  BY <1>1, <1>2, <2>1 DEF ReadDocumentsStand
<1>3. CASE UNCHANGED settings /\ thread'[t].doc = settings
  BY <1>1, <1>3
<1> QED  BY <1>2, <1>3

LEMMA OffInit == Init => OffInv
  BY DEF Init, OffInv, ReadDocumentsStand, OffHoldsNothing, Resting, NoSamples, Held

LEMMA OffStep == HistoryInv /\ HistoryInv' /\ OffInv /\ [Next]_vars => OffInv'
<1> SUFFICES ASSUME HistoryInv, HistoryInv', OffInv, [Next]_vars PROVE OffInv'
  OBVIOUS
<1>t. /\ TypeOK /\ TypeOK' /\ OffHoldsNothing /\ ReadDocumentsStand
      /\ settings'.revision \in Nat
  BY DEF HistoryInv, OffInv, TypeOK, Document
<1>s. UNCHANGED settings /\ (\A d \in Device : \A b \in Bucket :
                               rows'[d][b] = rows[d][b] \/ rows'[d][b] = 0)
        => OffHoldsNothing'
  BY <1>t, OffStays
<1>1. ASSUME NEW t \in Thread, CompareAndSet(t) PROVE OffInv'
  <2>1. thread'[t].pc = "answered" /\ \A u \in Thread \ {t} : thread'[u] = thread[u]
    BY <1>1, <1>t DEF CompareAndSet, TypeOK, Work
  <2>2. CASE UNCHANGED relayVars
    <3>1. ReadDocumentsStand'
      BY <1>t, <2>1, <2>2, ReadsStay DEF relayVars
    <3> QED  BY <1>s, <2>2, <3>1 DEF relayVars, OffInv
  <2>3. CASE Compared(t)
    <3>1. thread[t].doc = settings /\ thread[t].want \in BOOLEAN
      BY <1>1, <1>t, <2>3 DEF CompareAndSet, Compared, ReadDocumentsStand, TypeOK, Work
    <3>2. OffHoldsNothing' /\ settings'.revision > settings.revision
      BY <1>1, <1>t, <2>3, <3>1, WriteEmpties DEF CompareAndSet
    <3>3. ReadDocumentsStand'
      BY <1>t, <2>1, <3>2, ReadsStay
    <3> QED  BY <3>2, <3>3 DEF OffInv
  <2> QED  BY <1>1, <2>2, <2>3 DEF CompareAndSet
<1>2. CASE Edit
  <2>1. OffHoldsNothing' /\ settings'.revision > settings.revision
    BY <1>2, <1>t, WriteEmpties DEF Edit
  <2> QED  BY <1>2, <1>t, <2>1, ReadsStay DEF Edit, OffInv
<1>3. ASSUME NEW t \in Thread, PutSettings(t) PROVE OffInv'
  <2>1. thread'[t].doc = settings /\ UNCHANGED <<settings, rows>>
    BY <1>3, <1>t DEF PutSettings, TypeOK, Work, relayVars
  <2>2. \A u \in Thread \ {t} : thread'[u] = thread[u]
    BY <1>3, <1>t DEF PutSettings, TypeOK
  <2>3. ReadDocumentsStand'
    BY <1>t, <2>1, <2>2, ReadsStay
  <2> QED  BY <1>s, <2>1, <2>3 DEF OffInv
<1>4. ASSUME NEW t \in Thread, UploadChunk(t) PROVE OffInv'
  <2>1. UNCHANGED settings /\ (settings.sync \/ UNCHANGED rows)
    BY <1>4 DEF UploadChunk, Insert, SyncIsOn
  <2>2. \A u \in Thread \ {t} : thread'[u] = thread[u]
    BY <1>4, <1>t DEF UploadChunk, Refuse, EndUpload, Become, TypeOK
  <2>3. thread'[t].pc # "read"
    <3>1. thread[t].then # "read"
      BY <1>t DEF TypeOK, Work
    <3> QED  BY <1>4, <1>t, <3>1 DEF UploadChunk, Refuse, EndUpload, Become, Resting, TypeOK, Work
  <2>4. ReadDocumentsStand'
    BY <1>t, <2>1, <2>2, <2>3, ReadsStay
  <2>5. OffHoldsNothing'
    BY <1>t, <2>1, OffStays
  <2> QED  BY <2>4, <2>5 DEF OffInv
<1>5. ASSUME NEW t \in Thread,
             \/ Collect(t) \/ Get(t) \/ SettingsAreLost(t) \/ StoreSettings(t) \/ Note(t)
             \/ Backfill(t) \/ AfterCollection(t) \/ Plan(t) \/ ChunkIsLost(t) \/ Judge(t)
      PROVE  OffInv'
  <2>1. UNCHANGED <<settings, rows>>
    BY <1>5 DEF Collect, Get, SettingsAreLost, StoreSettings, Note, Backfill, AfterCollection, Plan,
          ChunkIsLost, Judge, relayVars
  <2>2. \A u \in Thread \ {t} : thread'[u] = thread[u]
    BY <1>5, <1>t DEF Collect, Get, SettingsAreLost, StoreSettings, Note, Backfill, AfterCollection,
          Plan, ChunkIsLost, Judge, Refuse, EndUpload, StartUpload, Become, Goto, TypeOK
  <2>3. thread'[t].pc # "read"
    <3>1. thread[t].then # "read" /\ AfterSettings(t) # "read"
          /\ thread[t].then \in {"idle", "after"} /\ AfterSettings(t) \in {"idle", "after"}
      BY <1>t DEF TypeOK, Work, AfterSettings
    <3>2. CASE Collect(t) \/ Get(t) \/ StoreSettings(t) \/ SettingsAreLost(t)
      BY <1>t, <3>1, <3>2 DEF Collect, Get, StoreSettings, SettingsAreLost, Goto, Become, Resting,
            TypeOK, Work
    <3>3. CASE Note(t)
      <4>1. PICK pc \in {"idle", "after", "owed"} :
              thread' = [thread EXCEPT ![t] = [Resting EXCEPT !.pc = pc, !.then = AfterSettings(t)]]
        BY <3>1, <3>3 DEF Note, Become
      <4> QED  BY <1>t, <4>1 DEF TypeOK, Resting
    <3>5. CASE Backfill(t) \/ AfterCollection(t)
      <4>1. \/ thread' = [thread EXCEPT ![t] = [Resting EXCEPT !.pc = thread[t].then]]
            \/ thread' = [thread EXCEPT ![t] = Resting]
            \/ \E backfill, then : StartUpload(t, backfill, then)
        BY <3>5 DEF Backfill, AfterCollection, Become
      <4>2. (\E backfill, then : StartUpload(t, backfill, then)) => thread'[t].pc = "plan"
        BY <1>t DEF StartUpload, Become, TypeOK, Resting
      <4> QED  BY <1>t, <3>1, <4>1, <4>2 DEF TypeOK, Resting
    <3>4. CASE Plan(t) \/ ChunkIsLost(t) \/ Judge(t)
      BY <1>t, <3>1, <3>4 DEF Plan, ChunkIsLost, Judge, Refuse, EndUpload, Become, Resting, TypeOK,
            Work
    <3> QED  BY <1>5, <3>2, <3>3, <3>4, <3>5
  <2>4. ReadDocumentsStand'
    BY <1>t, <2>1, <2>2, <2>3, ReadsStay
  <2> QED  BY <1>s, <2>1, <2>4 DEF OffInv
<1>6. CASE Sweep
  <2>1. UNCHANGED <<settings, thread>>
    BY <1>6 DEF Sweep
  <2>2. \A d \in Device : \A b \in Bucket : rows'[d][b] = rows[d][b] \/ rows'[d][b] = 0
    BY <1>6, <1>t DEF Sweep, TypeOK
  <2> QED  BY <1>s, <1>t, <2>1, <2>2, ReadsStay DEF OffInv
<1>7. CASE Tick \/ UNCHANGED vars
  <2>1. UNCHANGED <<settings, thread, rows>>
    BY <1>7 DEF Tick, vars, relayVars
  <2> QED  BY <1>s, <1>t, <2>1, ReadsStay DEF OffInv
<1>8. ASSUME NEW d \in Device, Restart(d) PROVE OffInv'
  <2>1. UNCHANGED <<settings, rows>>
    BY <1>8 DEF Restart, relayVars
  <2>2. \A t \in Thread : thread'[t].pc = "read" => thread'[t] = thread[t]
    BY <1>8 DEF Restart, Resting
  <2> QED  BY <1>s, <1>t, <2>1, <2>2, ReadsStay DEF OffInv
<1> QED
  BY <1>1, <1>2, <1>3, <1>4, <1>5, <1>6, <1>7, <1>8 DEF Next, SettingsNext, UploadNext

(***************************************************************************)
(* An Account that does not sync holds no row, although documents are read *)
(* and written by statements of their own and uploads are under way.       *)
(***************************************************************************)
THEOREM OffIsEmpty == Spec => []OffHoldsNothing
<1>1. OffInv => OffHoldsNothing
  BY DEF OffInv
<1> QED  BY <1>1, OffInit, OffStep, HistoryInvariant, PTL DEF Spec

-------------------------------------------------------------------------------
(***************************************************************************)
(* The record of what was uploaded, for devices that declare the same      *)
(* window (one device does) and uploads that are not cut between chunks,   *)
(* nor see the switch turned while they send lost rows again.              *)
(***************************************************************************)
Whole ==
  /\ \A d, e \in Device : Collector[d] = Collector[e]
  /\ Mishaps \cap {"cut", "twice"} = {}

Living(d, b) == Live(b, Collector[d])
Sampled(d, b) == samples[d][b] > 0
Kept(d, b) == rows[d][b] > 0
Awaited(t) == BucketsOf(thread[t].todo)

AdoptsNothing == \A d \in Device : record[d].adopted = None

SamplesStand ==
  \A d \in Device, b \in Bucket :
    /\ rows[d][b] <= samples[d][b]
    /\ Sampled(d, b) => b <= now

(* A thread has something to send only while it uploads, and only what was sampled. *)
ThreadsStand ==
  \A t \in Thread :
    /\ thread[t].pc \notin {"put", "judge"} => thread[t].todo = {} /\ ~thread[t].sent
    /\ ~Uploading(t) => ~thread[t].again
    /\ thread[t].again => settings.sync
    /\ \A p \in thread[t].todo : p[2] <= samples[t[1]][p[1]]

OneUploads == \A t, u \in Thread : t[1] = u[1] /\ Uploading(t) /\ Uploading(u) => t = u

TidyInv == AdoptsNothing /\ SamplesStand /\ ThreadsStand /\ OneUploads

-------------------------------------------------------------------------------
LEMMA OneSpan ==
  ASSUME Whole, HistoryInv, AdoptsNothing, NEW d \in Device
  PROVE  /\ Declared(d) = Collector[d]
         /\ \A s \in Spans : s = Collector[d]
         /\ Collector[d] \in Nat \ {0}
  BY DEF Whole, AdoptsNothing, Declared, Spans

LEMMA TidyInit == Init => TidyInv
  BY DEF Init, TidyInv, AdoptsNothing, SamplesStand, ThreadsStand, OneUploads, Unsynced, NoSamples,
     Resting, Sampled, Uploading


LEMMA AdoptsNothingYet ==
  ASSUME Whole, HistoryInv, TidyInv, [Next]_vars
  PROVE  AdoptsNothing'
<1> SUFFICES ASSUME NEW d \in Device PROVE record'[d].adopted = None
  BY DEF AdoptsNothing
<1>t. /\ TypeOK /\ record[d].adopted = None /\ record[d] \in Record
      /\ record \in [Device -> Record] /\ AdoptsNothing
  BY DEF TidyInv, AdoptsNothing, HistoryInv, TypeOK
<1>1. CASE UNCHANGED record
  BY <1>t, <1>1
<1>2. ASSUME NEW t \in Thread, Note(t) PROVE record'[d].adopted = None
  <2> DEFINE e == t[1]
  <2>1. \/ record' = [record EXCEPT ![e] = Unsynced]
        \/ record' = [record EXCEPT ![e] = [record[e] EXCEPT !.sync = TRUE, !.refused = None]]
        \/ UNCHANGED record
    BY <1>2 DEF Note, Record_
  <2>2. e \in Device /\ record[e].adopted = None /\ record[e] \in Record
    BY <1>t, ThreadParts DEF AdoptsNothing
  <2>3. /\ Unsynced.adopted = None
        /\ [record[e] EXCEPT !.sync = TRUE, !.refused = None].adopted = None
    BY <2>2 DEF Unsynced, Record
  <2> HIDE DEF e
  <2> QED  BY <1>t, <2>1, <2>2, <2>3
<1>3. ASSUME NEW t \in Thread, Plan(t) PROVE record'[d].adopted = None
  <2> DEFINE e == t[1]
  <2>1. record' = [record EXCEPT ![e] = Backfilled(t, record[e])] \/ UNCHANGED record
    BY <1>3 DEF Plan, Record_
  <2>2. e \in Device /\ record[e].adopted = None /\ record[e] \in Record
    BY <1>t, ThreadParts DEF AdoptsNothing
  <2>3. Backfilled(t, record[e]).adopted = None
    BY <2>2 DEF Backfilled, Record
  <2> HIDE DEF e
  <2> QED  BY <1>t, <2>1, <2>2, <2>3
<1>4. ASSUME NEW t \in Thread, Refuse(t) PROVE record'[d].adopted = None
  BY <1>t, <1>4 DEF Refuse, Record_, Unsynced
<1>5. ASSUME NEW t \in Thread, Judge(t) PROVE record'[d].adopted = None
  <2> DEFINE e == t[1]
             work == thread[t]
             chunk == Chunk(work.todo)
             span == Declared(e)
             mine == Held(rows[e])
             new == Remembered(record[e], chunk, span)
             kept == Applied(new, mine, work.held, span)
  <2>1. e \in Device /\ record[e].adopted = None /\ record[e] \in Record /\ kept \in Record
    <3>1. /\ e \in Device /\ work \in Work /\ work.todo # {} /\ work.held # None
          /\ mine \in SUBSET Bucket
      BY <1>t, <1>5, ThreadParts DEF Judge, HistoryInv, ThreadsHoldTheirs, Held
    <3>2. work.todo \in SUBSET Point /\ work.held \in Spans
      BY <3>1 DEF Work
    <3>3. e \in Device /\ record[e].adopted = None /\ record[e] \in Record /\ span \in Spans
      BY <1>t, <3>1, DeclaredType DEF AdoptsNothing
    <3> QED  BY <3>1, <3>2, <3>3, RecordTypes
  <2>2. work.held = span /\ span \in Nat
    <3>1. work.held \in Spans
      BY <1>t, <1>5, ThreadParts DEF Judge, HistoryInv, ThreadsHoldTheirs, Work
    <3> QED  BY <1>t, <2>1, <3>1, OneSpan
  <2>3. new.adopted = None /\ new.watermark = record[e].watermark
    BY <2>1 DEF Remembered, Record
  <2>4. kept.adopted = None
    <3> DEFINE w == IF new.watermark = None \/ Greatest(mine) > new.watermark
                    THEN Greatest(mine) ELSE new.watermark
               a == IF work.held < span THEN work.held
                    ELSE IF work.held > span THEN None ELSE new.adopted
    <3>1. a = None
      BY <2>2, <2>3
    <3>2. kept = new \/ kept = [new EXCEPT !.watermark = w, !.adopted = a]
      BY DEF Applied
    <3>3. new \in Record
      BY <1>t, <1>5, ThreadParts, DeclaredType, <2>1, RecordTypes DEF Judge, HistoryInv, ThreadsHoldTheirs, Work
    <3> HIDE DEF new, w, a, kept
    <3> QED  BY <2>3, <3>1, <3>2, <3>3 DEF Record
  <2>5. \/ record' = [record EXCEPT ![e] = [Unsynced EXCEPT !.refused = work.revision]]
        \/ record' = [record EXCEPT ![e] = Forgotten(kept)]
        \/ record' = [record EXCEPT ![e] = kept]
        \/ record' = [record EXCEPT ![e] = Backfilled(t, kept)]
    BY <1>5 DEF Judge, Refuse, Record_
  <2> HIDE DEF kept
  <2>6. Backfilled(t, kept).adopted = None /\ Forgotten(kept).adopted = None
    BY <2>1, <2>4 DEF Backfilled, Forgotten, Record
  <2> QED  BY <1>t, <2>4, <2>5, <2>6 DEF Unsynced
<1>6. ASSUME NEW t \in Thread, UploadChunk(t) PROVE record'[d].adopted = None
  BY <1>1, <1>4, <1>6 DEF UploadChunk
<1>7. ASSUME NEW t \in Thread,
             \/ Collect(t) \/ Get(t) \/ PutSettings(t) \/ CompareAndSet(t) \/ SettingsAreLost(t)
             \/ StoreSettings(t) \/ Backfill(t) \/ AfterCollection(t) \/ ChunkIsLost(t)
      PROVE  record'[d].adopted = None
  BY <1>1, <1>7 DEF Collect, Get, PutSettings, CompareAndSet, SettingsAreLost, StoreSettings, Backfill,
        AfterCollection, ChunkIsLost, deviceVars
<1>8. CASE Edit \/ Sweep \/ Tick \/ (\E e \in Device : Restart(e)) \/ UNCHANGED vars
  BY <1>1, <1>8 DEF Edit, Sweep, Tick, Restart, vars, deviceVars
<1> QED
  BY <1>2, <1>3, <1>5, <1>6, <1>7, <1>8 DEF Next, SettingsNext, UploadNext

(* A thread that has nothing to do with an upload. *)
Free(work) ==
  work.pc \notin {"plan", "put", "judge"} /\ work.todo = {} /\ ~work.sent /\ ~work.again

LEMMA NotUploadingIsFree ==
  ASSUME ThreadsStand, NEW t \in Thread, ~Uploading(t) PROVE Free(thread[t])
  BY DEF ThreadsStand, Uploading, Free

LEMMA EndsFree ==
  ASSUME HistoryInv, NEW t \in Thread, EndUpload(t)
  PROVE  Free(thread'[t]) /\ \A u \in Thread \ {t} : thread'[u] = thread[u]
<1>1. thread[t].then \in {"idle", "after"} /\ thread \in [Thread -> Work]
  BY ThreadParts DEF HistoryInv, Work, TypeOK
<1> QED  BY <1>1 DEF EndUpload, Become, Resting, Free

(* Reading, writing and noting the document touches no upload. *)
LEMMA SettingsAreFree ==
  ASSUME HistoryInv, TidyInv, NEW t \in Thread,
         \/ Collect(t) \/ Get(t) \/ PutSettings(t) \/ CompareAndSet(t)
         \/ SettingsAreLost(t) \/ StoreSettings(t) \/ Note(t)
  PROVE  Free(thread[t]) /\ Free(thread'[t]) /\ \A u \in Thread \ {t} : thread'[u] = thread[u]
<1>t. /\ thread \in [Thread -> Work] /\ thread[t] \in Work
      /\ AfterSettings(t) \in {"idle", "after"}
  BY DEF HistoryInv, TypeOK, AfterSettings
<1>1. ~Uploading(t)
  BY DEF Collect, Get, PutSettings, CompareAndSet, SettingsAreLost, StoreSettings, Note, Uploading
<1>2. Free(thread[t])
  BY <1>1, NotUploadingIsFree DEF TidyInv
<1>3. CASE Collect(t) \/ StoreSettings(t)
  BY <1>t, <1>2, <1>3 DEF Collect, StoreSettings, Goto, Free, Work
<1>4. CASE Get(t)
  BY <1>t, <1>2, <1>4 DEF Get, Goto, Free, Work
<1>5. CASE PutSettings(t)
  <2>1. PICK want \in BOOLEAN :
          thread' = [thread EXCEPT ![t].doc = settings, ![t].want = want,
                       ![t].pc = IF Matches(t[1]) THEN "read" ELSE "answered"]
    BY <1>5 DEF PutSettings
  <2> DEFINE pc == IF Matches(t[1]) THEN "read" ELSE "answered"
  <2>2. pc \in {"read", "answered"} /\ thread'[t] = [thread[t] EXCEPT !.doc = settings, !.want = want, !.pc = pc]
    BY <1>t, <2>1
  <2> HIDE DEF pc
  <2>3. Free(thread'[t])
    BY <1>t, <1>2, <2>2 DEF Free, Work
  <2> QED  BY <1>t, <1>2, <2>1, <2>3
<1>6. CASE CompareAndSet(t)
  BY <1>t, <1>2, <1>6 DEF CompareAndSet, Free, Work
<1>7. CASE SettingsAreLost(t)
  BY <1>t, <1>2, <1>7 DEF SettingsAreLost, Become, Resting, Free
<1>8. CASE Note(t)
  <2>1. PICK pc \in {"idle", "after", "owed"} :
          thread' = [thread EXCEPT ![t] = [Resting EXCEPT !.pc = pc, !.then = AfterSettings(t)]]
    BY <1>8, <1>t DEF Note, Become
  <2> QED  BY <1>t, <1>2, <2>1 DEF Free, Resting
<1> QED  BY <1>3, <1>4, <1>5, <1>6, <1>7, <1>8

(* Threads that go on as they were, or turn to what is no upload. *)
LEMMA TidyFree ==
  ASSUME HistoryInv, ThreadsStand, OneUploads,
         \A d \in Device, b \in Bucket : samples'[d][b] \in Nat /\ samples[d][b] <= samples'[d][b],
         \A t \in Thread : thread'[t] = thread[t] \/ Free(thread'[t]),
         \A t \in Thread : thread[t].again => settings'.sync
  PROVE  ThreadsStand' /\ OneUploads'
<1>1. ASSUME NEW t \in Thread
      PROVE  /\ thread'[t].pc \notin {"put", "judge"} => thread'[t].todo = {} /\ ~thread'[t].sent
             /\ ~Uploading(t)' => ~thread'[t].again
             /\ thread'[t].again => settings'.sync
             /\ \A p \in thread'[t].todo : p[2] <= samples'[t[1]][p[1]]
  <2>1. CASE Free(thread'[t])
    BY <2>1 DEF Free
  <2>2. CASE thread'[t] = thread[t]
    <3>1. ASSUME NEW p \in thread[t].todo PROVE p[2] <= samples'[t[1]][p[1]]
      <4>1. thread[t].todo \subseteq Point /\ t[1] \in Device
        BY ThreadParts DEF HistoryInv, Work
      <4>2. p[1] \in Bucket /\ p[2] \in Nat /\ p[2] <= samples[t[1]][p[1]]
        BY <3>1, <4>1 DEF ThreadsStand, Point
      <4>3. samples[t[1]][p[1]] \in Nat
        BY <4>1, <4>2 DEF HistoryInv, TypeOK
      <4> QED  BY <4>1, <4>2, <4>3
    <3> QED  BY <2>2, <3>1 DEF ThreadsStand, Uploading
  <2> QED  BY <1>1, <2>1, <2>2
<1>2. \A t \in Thread : Uploading(t)' => Uploading(t)
  BY DEF Uploading, Free
<1> QED  BY <1>1, <1>2 DEF ThreadsStand, OneUploads

-------------------------------------------------------------------------------
(* A pass samples the bucket it is in. *)
LEMMA CollectSamples ==
  ASSUME HistoryInv, NEW t \in Thread, Collect(t)
  PROVE  \A d \in Device, b \in Bucket :
           \/ samples'[d][b] = samples[d][b]
           \/ b = now /\ samples'[d][b] = samples[d][b] + 1
<1>t. samples \in [Device -> [Bucket -> 0..MaxSamples]] /\ now \in Bucket /\ t[1] \in Device
  BY ThreadParts DEF HistoryInv, TypeOK
<1>1. CASE UNCHANGED samples
  BY <1>1
<1>2. CASE samples' = [samples EXCEPT ![t[1]][now] = @ + 1]
  BY <1>t, <1>2
<1> QED  BY <1>1, <1>2 DEF Collect

(* What an insert makes of rows: those of its buckets are no less than what is put. *)
LEMMA InsertPuts ==
  ASSUME HistoryInv, SamplesStand, NEW d \in Device, NEW points \in SUBSET Point, NEW span,
         \A p \in points : p[2] <= samples[d][p[1]],
         Insert(d, points, span), settings.sync
  PROVE  /\ \A p \in points : rows'[d][p[1]] >= p[2]
         /\ \A b \in Bucket : rows'[d][b] >= rows[d][b] /\ rows'[d][b] <= samples[d][b]
         /\ \A e \in Device, b \in Bucket :
              e # d \/ b \notin BucketsOf(points) => rows'[e][b] = rows[e][b]
<1> DEFINE of(b) == {p[2] : p \in {q \in points : q[1] = b}} \cup {rows[d][b]}
<1>t. /\ rows \in [Device -> [Bucket -> 0..MaxSamples]]
      /\ samples \in [Device -> [Bucket -> 0..MaxSamples]]
  BY DEF HistoryInv, TypeOK
<1>0. rows[d] \in [Bucket -> 0..MaxSamples] /\ samples[d] \in [Bucket -> 0..MaxSamples]
  BY <1>t
<1>1. rows' = [rows EXCEPT ![d] = [b \in Bucket |-> Greatest(of(b))]]
  BY DEF Insert, SyncIsOn
<1>2. ASSUME NEW b \in Bucket
      PROVE  /\ Greatest(of(b)) \in of(b) /\ \A c \in of(b) : Greatest(of(b)) >= c
             /\ Greatest(of(b)) <= samples[d][b]
  <2>1. of(b) \in SUBSET (0..MaxSamples) /\ of(b) # {}
    BY <1>0, <1>2 DEF Point
  <2>2. Greatest(of(b)) \in of(b) /\ \A c \in of(b) : Greatest(of(b)) >= c
    BY <2>1, GreatestIs
  <2>3. rows[d][b] <= samples[d][b]
    BY DEF SamplesStand
  <2>4. \A c \in of(b) : c <= samples[d][b]
    BY <2>3
  <2> HIDE DEF of
  <2> QED  BY <2>2, <2>4
<1>3. ASSUME NEW p \in points PROVE rows'[d][p[1]] >= p[2]
  <2>1. p[1] \in Bucket /\ p[2] \in of(p[1])
    BY DEF Point
  <2> HIDE DEF of
  <2> QED  BY <1>t, <1>1, <1>2, <2>1
<1>4. ASSUME NEW b \in Bucket PROVE rows'[d][b] >= rows[d][b] /\ rows'[d][b] <= samples[d][b]
  <2>1. rows[d][b] \in of(b)
    OBVIOUS
  <2> HIDE DEF of
  <2> QED  BY <1>t, <1>1, <1>2, <2>1
<1>5. ASSUME NEW b \in Bucket, b \notin BucketsOf(points) PROVE Greatest(of(b)) = rows[d][b]
  <2>1. of(b) = {rows[d][b]}
    BY <1>5 DEF BucketsOf
  <2> HIDE DEF of
  <2> QED  BY <1>2, <2>1
<1> HIDE DEF of
<1> QED  BY <1>t, <1>1, <1>3, <1>4, <1>5

(* What other steps do to rows: they are as they were, have expired, or are all gone. *)
Fade(d) ==
  \/ \A b \in Bucket : rows'[d][b] = rows[d][b] \/ (rows'[d][b] = 0 /\ b + Collector[d] < now)
  \/ /\ \A b \in Bucket : rows'[d][b] = 0
     /\ \A t \in Thread : t[1] = d => ~thread[t].again

LEMMA WriteFades ==
  ASSUME Whole, HistoryInv, NEW read, NEW sync \in BOOLEAN, Write(read, sync)
  PROVE  /\ \A d \in Device : Fade(d)
         /\ \A t \in Thread : thread[t].again => settings'.sync
<1>t. settings' = Rewritten(sync)
  BY DEF Write
<1>1. ~sync => \A t \in Thread : ~thread[t].again
  BY DEF Write, Whole
<1>2. (read.sync /\ ~sync) \/ UNCHANGED rows
  BY DEF Write, KeepRows
<1>3. CASE read.sync /\ ~sync
  <2>1. rows' = [d \in Device |-> NoSamples]
    BY <1>3 DEF Write, DeleteRows
  <2> QED  BY <1>1, <1>3, <2>1 DEF NoSamples, Fade
<1>4. CASE UNCHANGED rows
  BY <1>t, <1>1, <1>4 DEF Fade, Rewritten
<1> QED  BY <1>t, <1>1, <1>2, <1>3, <1>4 DEF Rewritten

LEMMA SweepFades ==
  ASSUME Whole, HistoryInv, AdoptsNothing, Sweep, NEW d \in Device
  PROVE  Fade(d)
<1>1. duration \in Spans /\ rows \in [Device -> [Bucket -> 0..MaxSamples]]
  BY DEF Sweep, HistoryInv, TypeOK
<1>2. duration = Collector[d]
  BY <1>1, OneSpan
<1> QED  BY <1>1, <1>2 DEF Sweep, Fade

(* A pass adds at most a sample to the bucket it is in. *)
Grows(d) ==
  \A b \in Bucket :
    \/ samples'[d][b] = samples[d][b]
    \/ b = now /\ UNCHANGED now /\ samples'[d][b] = samples[d][b] + 1

LEMMA GrownIsMore ==
  ASSUME HistoryInv, \A d \in Device : Grows(d)
  PROVE  \A d \in Device, b \in Bucket : samples'[d][b] \in Nat /\ samples[d][b] <= samples'[d][b]
<1> SUFFICES ASSUME NEW d \in Device, NEW b \in Bucket
             PROVE  samples'[d][b] \in Nat /\ samples[d][b] <= samples'[d][b]
  OBVIOUS
<1>1. samples[d][b] \in Nat
  BY DEF HistoryInv, TypeOK
<1>2. samples'[d][b] = samples[d][b] \/ samples'[d][b] = samples[d][b] + 1
  BY DEF Grows
<1> QED  BY <1>1, <1>2

LEMMA SamplesStandStill ==
  ASSUME HistoryInv, SamplesStand, now' \in {now, now + 1}, \A d \in Device : Grows(d) /\ Fade(d)
  PROVE  SamplesStand'
<1> SUFFICES ASSUME NEW d \in Device, NEW b \in Bucket
             PROVE  /\ rows'[d][b] <= samples'[d][b]
                    /\ samples'[d][b] > 0 => b <= now'
  BY DEF SamplesStand, Sampled
<1>1. /\ samples[d][b] \in Nat /\ rows[d][b] <= samples[d][b] /\ rows[d][b] \in Nat
      /\ samples[d][b] > 0 => b <= now
      /\ now \in Nat /\ b \in Nat
  BY DEF SamplesStand, Sampled, HistoryInv, TypeOK, Bucket
<1>2. rows'[d][b] = rows[d][b] \/ rows'[d][b] = 0
  BY DEF Fade
<1>3. \/ samples'[d][b] = samples[d][b]
      \/ b = now /\ now' = now /\ samples'[d][b] = samples[d][b] + 1
  BY DEF Grows
<1> QED  BY <1>1, <1>2, <1>3

(* A thread goes on with its upload, or begins one, alone. *)
LEMMA TidyUpload ==
  ASSUME HistoryInv, ThreadsStand, OneUploads, UNCHANGED <<samples, settings>>,
         NEW t \in Thread, NEW w, thread' = [thread EXCEPT ![t] = w],
         w.pc \in {"plan", "put", "judge"}, Uploading(t) \/ LockIsFree(t[1]),
         w.pc = "plan" => w.todo = {} /\ ~w.sent,
         w.again => settings.sync,
         \A p \in w.todo : p[2] <= samples[t[1]][p[1]]
  PROVE  ThreadsStand' /\ OneUploads'
<1>1. thread'[t] = w /\ \A u \in Thread \ {t} : thread'[u] = thread[u]
  BY DEF HistoryInv, TypeOK
<1>2. ThreadsStand'
  BY <1>1 DEF ThreadsStand, Uploading
<1>3. ASSUME NEW u \in Thread \ {t}, u[1] = t[1], Uploading(u)' PROVE FALSE
  BY <1>1, <1>3 DEF OneUploads, LockIsFree, Uploading
<1>4. OneUploads'
  BY <1>1, <1>3 DEF OneUploads, Uploading
<1> QED  BY <1>2, <1>4

(* The chunk that an upload sends, and the rest of what it has to. *)
LEMMA UploadParts ==
  ASSUME HistoryInv, TidyInv, NEW t \in Thread, thread[t].pc \in {"put", "judge"}
  PROVE  /\ thread[t].todo \in SUBSET Point /\ thread[t].todo # {}
         /\ Chunk(thread[t].todo) \in SUBSET thread[t].todo
         /\ \A p \in thread[t].todo : p[2] <= samples[t[1]][p[1]]
         /\ t[1] \in Device /\ thread[t] \in Work /\ Uploading(t)
<1>1. thread[t].todo \in SUBSET Point /\ thread[t].todo # {} /\ t[1] \in Device /\ thread[t] \in Work
  BY ThreadParts DEF HistoryInv, ThreadsHoldTheirs, Work
<1>2. Chunk(thread[t].todo) \in SUBSET thread[t].todo
  BY <1>1, ChunkIs
<1> QED  BY <1>1, <1>2 DEF TidyInv, ThreadsStand, Uploading

-------------------------------------------------------------------------------
(***************************************************************************)
(* What a step is to a device.  Most are calm: no mark of the record moves *)
(* and no upload goes on, though one may end before its first answer.      *)
(***************************************************************************)
Light(work) ==
  work.pc \notin {"put", "judge"} /\ work.todo = {} /\ ~work.sent /\ ~work.again

MarksStay(d) ==
  /\ record'[d].oldest = record[d].oldest
  /\ record'[d].watermark = record[d].watermark
  /\ record'[d].previous = record[d].previous

Calm(d) ==
  /\ now' \in {now, now + 1}
  /\ Grows(d) /\ Fade(d) /\ MarksStay(d)
  /\ \A t \in Thread : t[1] = d =>
       thread'[t] = thread[t] \/ (Light(thread'[t]) /\ ~thread[t].sent)

NoneSends(d) ==
  \A t \in Thread : t[1] = d => thread'[t].todo = {} /\ thread'[t].pc \notin {"put", "judge"}

Forgets(d) ==
  /\ NoneSends(d)
  /\ UNCHANGED <<now, samples, rows>>
  /\ record'[d].oldest = None /\ record'[d].watermark = None /\ record'[d].previous = None

(* 400: a bucket of the chunk is older than the Relay takes. *)
GivesUp(d) ==
  /\ NoneSends(d) /\ MarksStay(d)
  /\ UNCHANGED <<now, samples, rows>>
  /\ \E t \in Thread : t[1] = d /\ \E b \in Awaited(t) : OutOfRange(b, Collector[d])

Others(t) == \A u \in Thread \ {t} : thread'[u] = thread[u]

Plans(t) ==
  /\ thread[t].pc = "plan" /\ Others(t)
  /\ thread'[t] = [thread[t] EXCEPT !.pc = "put", !.todo = Planned(t[1])]
  /\ UNCHANGED <<now, samples, rows, record>>

Puts(t) ==
  LET d == t[1]
      chunk == Chunk(thread[t].todo)
  IN  /\ \A p \in chunk : rows'[d][p[1]] >= p[2]
      /\ \A b \in Bucket : /\ rows'[d][b] >= rows[d][b] /\ rows'[d][b] <= samples[d][b]
                           /\ b \notin BucketsOf(chunk) => rows'[d][b] = rows[d][b]

Inserts(t) ==
  LET d == t[1]
  IN  /\ thread[t].pc = "put" /\ Others(t)
      /\ \E held : thread'[t] = [thread[t] EXCEPT !.pc = "judge", !.held = held]
      /\ UNCHANGED <<now, samples, record>>
      /\ IF settings.sync
         THEN Puts(t)
         ELSE ~thread[t].again /\ rows'[d] = NoSamples

JudgedRecord(t) ==
  LET d == t[1]
  IN  Applied(Remembered(record[d], Chunk(thread[t].todo), Collector[d]), Held(rows[d]),
              Collector[d], Collector[d])

Judges(t) ==
  LET d == t[1]
      chunk == Chunk(thread[t].todo)
      new == JudgedRecord(t)
  IN  /\ thread[t].pc = "judge" /\ Others(t)
      /\ ~thread[t].again => ~RowsLost(record[d], chunk, Held(rows[d]), Collector[d])
      /\ UNCHANGED <<now, samples, rows>>
      /\ record'[d].oldest = new.oldest
      /\ record'[d].watermark = new.watermark
      /\ record'[d].previous = new.previous
      /\ \/ /\ thread[t].todo # chunk
            /\ thread'[t] = [thread[t] EXCEPT !.pc = "put", !.sent = TRUE,
                                              !.todo = @ \ chunk, !.held = None]
         \/ thread[t].todo = chunk /\ Light(thread'[t])

Step(d) ==
  \/ Calm(d)
  \/ Forgets(d)
  \/ GivesUp(d)
  \/ \E t \in Thread : t[1] = d /\ (Plans(t) \/ Inserts(t) \/ Judges(t))

LEMMA ElsewhereIsCalm ==
  ASSUME HistoryInv, NEW t \in Thread, Others(t), UNCHANGED now,
         NEW e \in Device, e # t[1],
         samples'[e] = samples[e], rows'[e] = rows[e], record'[e] = record[e]
  PROVE  Calm(e)
BY DEF Calm, Grows, Fade, MarksStay, Others

LEMMA FreeIsLight == \A w : Free(w) => Light(w)
  BY DEF Free, Light

TidyStep == SamplesStand' /\ ThreadsStand' /\ OneUploads' /\ \A d \in Device : Step(d)

(* Reading, writing and noting the document. *)
LEMMA SettingsTidy ==
  ASSUME Whole, HistoryInv, TidyInv, NEW t \in Thread,
         \/ Collect(t) \/ Get(t) \/ PutSettings(t) \/ CompareAndSet(t)
         \/ SettingsAreLost(t) \/ StoreSettings(t) \/ Note(t)
  PROVE  TidyStep
<1> DEFINE d == t[1]
<1>t. /\ TypeOK /\ d \in Device /\ thread[t] \in Work /\ record \in [Device -> Record]
      /\ SamplesStand /\ ThreadsStand /\ OneUploads
  BY ThreadParts DEF HistoryInv, TypeOK, TidyInv
<1>1. Free(thread[t]) /\ Free(thread'[t]) /\ Others(t)
  BY SettingsAreFree DEF Others
<1>2. /\ UNCHANGED now
      /\ \A e \in Device : Grows(e) /\ Fade(e)
      /\ \A u \in Thread : thread[u].again => settings'.sync
  <2>0. \A u \in Thread : thread[u].again => settings.sync
    BY <1>t DEF ThreadsStand
  <2>1. CASE Collect(t)
    <3>1. UNCHANGED <<now, settings, rows>>
      BY <2>1 DEF Collect, relayVars
    <3> QED  BY <2>0, <2>1, <3>1, CollectSamples DEF Grows, Fade
  <2>2. CASE CompareAndSet(t)
    <3>1. UNCHANGED <<now, samples>>
      BY <2>2 DEF CompareAndSet, deviceVars
    <3>2. CASE UNCHANGED relayVars
      BY <2>0, <3>1, <3>2 DEF Grows, Fade, relayVars
    <3>3. CASE Write(thread[t].doc, thread[t].want)
      <4>1. thread[t].want \in BOOLEAN
        BY <1>t DEF Work
      <4> QED  BY <3>1, <3>3, <4>1, WriteFades DEF Grows
    <3> QED  BY <2>2, <3>2, <3>3 DEF CompareAndSet
  <2>3. CASE Get(t) \/ PutSettings(t) \/ SettingsAreLost(t) \/ StoreSettings(t) \/ Note(t)
    <3>1. UNCHANGED <<now, settings, rows, samples>>
      BY <2>3 DEF Get, PutSettings, SettingsAreLost, StoreSettings, Note, relayVars, deviceVars
    <3> QED  BY <2>0, <3>1 DEF Grows, Fade
  <2> QED  BY <2>1, <2>2, <2>3
<1>3. SamplesStand'
  BY <1>t, <1>2, SamplesStandStill
<1>4. ThreadsStand' /\ OneUploads'
  BY <1>t, <1>1, <1>2, TidyFree, GrownIsMore DEF Others
<1>5. ASSUME NEW e \in Device, record'[e] = record[e] \/ MarksStay(e) PROVE Calm(e)
  <2>1. MarksStay(e)
    BY <1>5 DEF MarksStay
  <2>2. ~thread[t].sent /\ Light(thread'[t])
    BY <1>1, FreeIsLight DEF Free
  <2> QED  BY <1>1, <1>2, <2>1, <2>2 DEF Calm, Others
<1>6. CASE ~Note(t)
  <2>1. UNCHANGED record
    BY <1>6 DEF Collect, Get, PutSettings, CompareAndSet, SettingsAreLost, StoreSettings, deviceVars
  <2> QED  BY <1>3, <1>4, <1>5, <2>1 DEF TidyStep, Step
<1>7. CASE Note(t)
  <2>1. \/ record' = [record EXCEPT ![d] = Unsynced]
        \/ record' = [record EXCEPT ![d] = [record[d] EXCEPT !.sync = TRUE, !.refused = None]]
        \/ UNCHANGED record
    BY <1>7 DEF Note, Record_
  <2>2. \A e \in Device \ {d} : Calm(e)
    BY <1>t, <1>5, <2>1
  <2>3. CASE record' = [record EXCEPT ![d] = Unsynced]
    <3>1. \A u \in Thread : u[1] = d => ~Uploading(u)
      BY <1>7 DEF Note, LockIsFree
    <3>2. \A u \in Thread : u[1] = d => Free(thread'[u])
      BY <1>t, <1>1, <3>1, NotUploadingIsFree DEF Others
    <3>3. Forgets(d)
      BY <1>7, <1>t, <2>3, <3>2 DEF Forgets, NoneSends, Free, Unsynced, Note, relayVars
    <3> QED  BY <1>3, <1>4, <2>2, <3>3 DEF TidyStep, Step
  <2>4. CASE UNCHANGED record \/
             record' = [record EXCEPT ![d] = [record[d] EXCEPT !.sync = TRUE, !.refused = None]]
    <3>1. MarksStay(d)
      <4> DEFINE r == [record[d] EXCEPT !.sync = TRUE, !.refused = None]
      <4>1. record[d] \in Record
        BY <1>t
      <4>2. /\ r.oldest = record[d].oldest /\ r.watermark = record[d].watermark
            /\ r.previous = record[d].previous
        BY <4>1 DEF Record
      <4>3. record'[d] = r \/ record'[d] = record[d]
        BY <1>t, <2>4
      <4> HIDE DEF r
      <4> QED  BY <4>2, <4>3 DEF MarksStay
    <3> QED  BY <1>3, <1>4, <1>5, <1>t, <2>2, <3>1 DEF TidyStep, Step
  <2> QED  BY <2>1, <2>3, <2>4
<1> QED  BY <1>6, <1>7

(* The other writer, maintenance, the clock and a restart. *)
LEMMA OtherTidy ==
  ASSUME Whole, HistoryInv, TidyInv,
         Edit \/ Sweep \/ Tick \/ (\E d \in Device : Restart(d)) \/ UNCHANGED vars
  PROVE  TidyStep
<1>t. SamplesStand /\ ThreadsStand /\ OneUploads /\ AdoptsNothing
  BY DEF TidyInv
<1>1. /\ UNCHANGED <<samples, record>>
      /\ now' \in {now, now + 1}
  BY DEF Edit, Sweep, Tick, Restart, vars, relayVars, deviceVars
<1>2. \A e \in Device : Grows(e) /\ MarksStay(e)
  BY <1>1 DEF Grows, MarksStay
<1>3. /\ \A e \in Device : Fade(e)
      /\ \A u \in Thread : thread[u].again => settings'.sync
  <2>0. \A u \in Thread : thread[u].again => settings.sync
    BY <1>t DEF ThreadsStand
  <2>1. CASE Edit
    BY <2>1, WriteFades DEF Edit
  <2>2. CASE Sweep
    <3>1. UNCHANGED settings
      BY <2>2 DEF Sweep
    <3> QED  BY <1>t, <2>0, <2>2, <3>1, SweepFades
  <2>3. CASE Tick \/ (\E d \in Device : Restart(d)) \/ UNCHANGED vars
    <3>1. UNCHANGED <<rows, settings>>
      BY <2>3 DEF Tick, Restart, vars, relayVars
    <3> QED  BY <2>0, <3>1 DEF Fade
  <2> QED  BY <2>1, <2>2, <2>3
<1>4. \A u \in Thread : thread'[u] = thread[u] \/ (Free(thread'[u]) /\ ~thread[u].sent)
  <2>1. CASE UNCHANGED thread
    BY <2>1 DEF HistoryInv, TypeOK
  <2>2. ASSUME NEW d \in Device, Restart(d)
        PROVE  \A u \in Thread : thread'[u] = thread[u] \/ (Free(thread'[u]) /\ ~thread[u].sent)
    <3>1. ASSUME NEW u \in Thread, u[1] = d PROVE ~thread[u].sent
      BY <2>2, <3>1 DEF Restart, StopsUpload, Whole
    <3> QED  BY <2>2, <3>1 DEF Restart, Resting, Free
  <2> QED  BY <2>1, <2>2 DEF Edit, Sweep, Tick, vars
<1>5. SamplesStand'
  BY <1>t, <1>1, <1>2, <1>3, SamplesStandStill
<1>6. ThreadsStand' /\ OneUploads'
  BY <1>t, <1>2, <1>3, <1>4, TidyFree, GrownIsMore
<1>7. \A e \in Device : Calm(e)
  BY <1>1, <1>2, <1>3, <1>4, FreeIsLight DEF Calm
<1> QED  BY <1>5, <1>6, <1>7 DEF TidyStep, Step

(* An upload that ends gives what it held up. *)
LEMMA EndsNone ==
  ASSUME HistoryInv, ThreadsStand, OneUploads, NEW t \in Thread, Uploading(t),
         Free(thread'[t]), Others(t)
  PROVE  NoneSends(t[1])
<1> SUFFICES ASSUME NEW u \in Thread, u[1] = t[1]
             PROVE  thread'[u].todo = {} /\ thread'[u].pc \notin {"put", "judge"}
  BY DEF NoneSends
<1>1. CASE u = t
  BY <1>1 DEF Free
<1>2. CASE u # t
  <2>1. ~Uploading(u)
    BY <1>2 DEF OneUploads
  <2>2. Free(thread[u])
    BY <2>1, NotUploadingIsFree
  <2> QED  BY <1>2, <2>2 DEF Others, Free
<1> QED  BY <1>1, <1>2

LEMMA RefuseTidy ==
  ASSUME Whole, HistoryInv, TidyInv, NEW t \in Thread, Uploading(t), Refuse(t),
         UNCHANGED <<now, settings, samples, rows>>
  PROVE  TidyStep /\ Forgets(t[1])
<1>t. /\ t[1] \in Device /\ record \in [Device -> Record]
      /\ SamplesStand /\ ThreadsStand /\ OneUploads
  BY ThreadParts DEF HistoryInv, TypeOK, TidyInv
<1>1. Free(thread'[t]) /\ Others(t)
  BY EndsFree DEF Refuse, Others
<1>2. \A e \in Device : Grows(e) /\ Fade(e)
  BY DEF Grows, Fade
<1>3. SamplesStand' /\ ThreadsStand' /\ OneUploads'
  BY <1>t, <1>1, <1>2, SamplesStandStill, TidyFree, GrownIsMore DEF Others, ThreadsStand
<1>4. record' = [record EXCEPT ![t[1]] = [Unsynced EXCEPT !.refused = thread[t].revision]]
  BY DEF Refuse, Record_
<1>5. Forgets(t[1])
  BY <1>t, <1>1, <1>4, EndsNone DEF Forgets, Unsynced
<1>6. \A e \in Device \ {t[1]} : Calm(e)
  BY <1>t, <1>1, <1>4, ElsewhereIsCalm
<1> QED  BY <1>3, <1>5, <1>6 DEF TidyStep, Step

(* An upload ends before a chunk of it was judged. *)
LEMMA EndTidy ==
  ASSUME Whole, HistoryInv, TidyInv, NEW t \in Thread, ~thread[t].sent, EndUpload(t),
         UNCHANGED <<now, settings, samples, rows>>, \A e \in Device : MarksStay(e)
  PROVE  TidyStep
<1>t. t[1] \in Device /\ SamplesStand /\ ThreadsStand /\ OneUploads
  BY ThreadParts DEF HistoryInv, TidyInv
<1>1. Free(thread'[t]) /\ Others(t)
  BY EndsFree DEF Others
<1>2. \A e \in Device : Grows(e) /\ Fade(e)
  BY DEF Grows, Fade
<1>3. SamplesStand' /\ ThreadsStand' /\ OneUploads'
  BY <1>t, <1>1, <1>2, SamplesStandStill, TidyFree, GrownIsMore DEF Others, ThreadsStand
<1>4. \A e \in Device : Calm(e)
  BY <1>1, <1>2, FreeIsLight DEF Calm, Others
<1> QED  BY <1>3, <1>4 DEF TidyStep, Step

LEMMA BackfilledMarks ==
  ASSUME NEW t, NEW r \in Record
  PROVE  /\ Backfilled(t, r).oldest = r.oldest /\ Backfilled(t, r).watermark = r.watermark
         /\ Backfilled(t, r).previous = r.previous
  BY DEF Backfilled, Record

LEMMA StartTidy ==
  ASSUME Whole, HistoryInv, TidyInv, NEW t \in Thread, Backfill(t) \/ AfterCollection(t)
  PROVE  TidyStep
<1>t. /\ t[1] \in Device /\ SamplesStand /\ ThreadsStand /\ OneUploads
      /\ thread \in [Thread -> Work]
  BY ThreadParts DEF HistoryInv, TypeOK, TidyInv
<1>0. UNCHANGED <<now, settings, samples, rows, record>> /\ LockIsFree(t[1])
  BY DEF Backfill, AfterCollection, relayVars, deviceVars
<1>1. ~Uploading(t)
  BY <1>0 DEF LockIsFree
<1>2. Free(thread[t])
  BY <1>t, <1>1, NotUploadingIsFree
<1>3. \A e \in Device : MarksStay(e)
  BY <1>0 DEF MarksStay
<1>4. CASE EndUpload(t) \/ Become(t, Resting)
  <2>1. CASE EndUpload(t)
    BY <1>0, <1>2, <1>3, <2>1, EndTidy DEF Free
  <2>2. CASE Become(t, Resting)
    <3>1. Free(thread'[t]) /\ Others(t)
      BY <1>t, <2>2 DEF Become, Resting, Free, Others
    <3>2. \A e \in Device : Grows(e) /\ Fade(e)
      BY <1>0 DEF Grows, Fade
    <3>3. SamplesStand' /\ ThreadsStand' /\ OneUploads'
      BY <1>0, <1>t, <3>1, <3>2, SamplesStandStill, TidyFree, GrownIsMore DEF Others, ThreadsStand
    <3>4. \A e \in Device : Calm(e)
      BY <1>0, <1>2, <1>3, <3>1, <3>2, FreeIsLight DEF Calm, Others, Free
    <3> QED  BY <3>3, <3>4 DEF TidyStep, Step
  <2> QED  BY <1>4, <2>1, <2>2
<1>5. ASSUME NEW backfill, NEW then, StartUpload(t, backfill, then) PROVE TidyStep
  <2> DEFINE w == [Resting EXCEPT !.pc = "plan", !.backfill = backfill, !.then = then,
                                  !.revision = RevisionOf(cached[t[1]])]
  <2>1. thread' = [thread EXCEPT ![t] = w] /\ w.pc = "plan" /\ w.todo = {} /\ ~w.sent /\ ~w.again
    BY <1>5 DEF StartUpload, Become, Resting
  <2> HIDE DEF w
  <2>2. ThreadsStand' /\ OneUploads'
    BY <1>0, <1>t, <2>1, TidyUpload
  <2>3. \A e \in Device : Grows(e) /\ Fade(e)
    BY <1>0 DEF Grows, Fade
  <2>4. SamplesStand'
    BY <1>0, <1>t, <2>3, SamplesStandStill
  <2>5. Light(thread'[t]) /\ Others(t)
    BY <1>t, <2>1 DEF Light, Others
  <2>6. \A e \in Device : Calm(e)
    BY <1>0, <1>2, <1>3, <2>3, <2>5 DEF Calm, Others, Free
  <2> QED  BY <2>2, <2>4, <2>6 DEF TidyStep, Step
<1>6. CASE Backfill(t)
  BY <1>4, <1>5, <1>6 DEF Backfill, EndUpload
<1>7. CASE AfterCollection(t)
  BY <1>4, <1>5, <1>7 DEF AfterCollection
<1> QED  BY <1>6, <1>7

LEMMA PlanTidy ==
  ASSUME Whole, HistoryInv, TidyInv, NEW t \in Thread, Plan(t)
  PROVE  TidyStep
<1> DEFINE d == t[1]
<1>t. /\ d \in Device /\ SamplesStand /\ ThreadsStand /\ OneUploads
      /\ thread \in [Thread -> Work] /\ thread[t] \in Work
      /\ record \in [Device -> Record] /\ record[d] \in Record
  BY ThreadParts DEF HistoryInv, TypeOK, TidyInv
<1>0. UNCHANGED <<now, settings, samples, rows>> /\ thread[t].pc = "plan" /\ Uploading(t)
  BY DEF Plan, relayVars, Uploading
<1>1. ~thread[t].sent
  BY <1>0, <1>t DEF ThreadsStand
<1>2. CASE Record_(d, Backfilled(t, record[d])) /\ EndUpload(t)
  <2>1. \A e \in Device : MarksStay(e)
    <3>1. record' = [record EXCEPT ![d] = Backfilled(t, record[d])]
      BY <1>2 DEF Record_
    <3> QED  BY <1>t, <3>1, BackfilledMarks DEF MarksStay
  <2> QED  BY <1>0, <1>1, <1>2, <2>1, EndTidy
<1>3. CASE /\ UNCHANGED record
           /\ thread' = [thread EXCEPT ![t].pc = "put", ![t].todo = Planned(d)]
  <2> DEFINE w == [thread[t] EXCEPT !.pc = "put", !.todo = Planned(d)]
  <2>1. thread' = [thread EXCEPT ![t] = w]
    BY <1>t, <1>3
  <2>2. /\ w.pc = "put" /\ w.todo = Planned(d) /\ w.again = thread[t].again
        /\ thread'[t] = w /\ Others(t)
    BY <1>t, <2>1 DEF Work, Others
  <2> HIDE DEF w
  <2>3. \A p \in Planned(d) : p[2] <= samples[d][p[1]]
    <3>1. \A b \in Bucket : samples[d][b] \in Nat
      BY <1>t DEF HistoryInv, TypeOK
    <3> QED  BY <3>1 DEF Planned, Held
  <2>4. ThreadsStand' /\ OneUploads'
    <3>1. w.again => settings.sync
      BY <1>t, <2>2 DEF ThreadsStand
    <3>2. \A p \in w.todo : p[2] <= samples[t[1]][p[1]]
      BY <2>2, <2>3
    <3> QED  BY <1>0, <1>t, <2>1, <2>2, <3>1, <3>2, TidyUpload
  <2>5. SamplesStand'
    BY <1>0, <1>t, SamplesStandStill DEF Grows, Fade
  <2>6. Plans(t)
    BY <1>0, <1>3, <2>2 DEF Plans, w
  <2>7. \A e \in Device \ {d} : Calm(e)
    BY <1>0, <1>3, <2>2, ElsewhereIsCalm
  <2> QED  BY <2>4, <2>5, <2>6, <2>7 DEF TidyStep, Step
<1> QED  BY <1>2, <1>3 DEF Plan

LEMMA ChunkTidy ==
  ASSUME Whole, HistoryInv, TidyInv, OffHoldsNothing, NEW t \in Thread, UploadChunk(t)
  PROVE  TidyStep
<1> DEFINE d == t[1]
           chunk == Chunk(thread[t].todo)
           span == Declared(d)
<1>t. /\ d \in Device /\ SamplesStand /\ ThreadsStand /\ OneUploads /\ AdoptsNothing
      /\ thread \in [Thread -> Work] /\ thread[t] \in Work
      /\ rows \in [Device -> [Bucket -> 0..MaxSamples]]
  BY ThreadParts DEF HistoryInv, TypeOK, TidyInv
<1>0. UNCHANGED <<now, settings, samples>> /\ thread[t].pc = "put" /\ Uploading(t)
  BY DEF UploadChunk, Uploading
<1>1. /\ chunk \in SUBSET Point /\ chunk \in SUBSET thread[t].todo
      /\ \A p \in thread[t].todo : p[2] <= samples[d][p[1]]
  BY <1>0, UploadParts
<1>2. span = Collector[d]
  BY <1>t, OneSpan
<1>3. CASE /\ \E b \in BucketsOf(chunk) : OutOfRange(b, span)
           /\ EndUpload(t) /\ UNCHANGED <<rows, duration, record, full, events>>
  <2>1. Free(thread'[t]) /\ Others(t)
    BY <1>3, EndsFree DEF Others
  <2>2. ThreadsStand' /\ OneUploads'
    <3>1. \A e \in Device : Grows(e)
      BY <1>0 DEF Grows
    <3> QED  BY <1>0, <1>t, <2>1, <3>1, TidyFree, GrownIsMore DEF Others, ThreadsStand
  <2>3. SamplesStand'
    BY <1>0, <1>3, <1>t, SamplesStandStill DEF Grows, Fade
  <2>4. NoneSends(d)
    BY <1>0, <1>t, <2>1, EndsNone
  <2>5. \E b \in Awaited(t) : OutOfRange(b, Collector[d])
    BY <1>1, <1>2, <1>3 DEF Awaited, BucketsOf
  <2>6. GivesUp(d)
    BY <1>0, <1>3, <2>4, <2>5 DEF GivesUp, MarksStay
  <2>7. \A e \in Device \ {d} : Calm(e)
    BY <1>0, <1>3, <2>1, ElsewhereIsCalm
  <2> QED  BY <2>2, <2>3, <2>6, <2>7 DEF TidyStep, Step
<1>4. CASE Refuse(t) /\ UNCHANGED <<rows, duration, events>>
  BY <1>0, <1>4, RefuseTidy
<1>5. CASE /\ StopsUpload(t, "full") /\ EndUpload(t) /\ UNCHANGED <<rows, duration, record>>
  <2>1. ~thread[t].sent
    BY <1>5 DEF StopsUpload, Whole
  <2> QED  BY <1>0, <1>5, <2>1, EndTidy DEF MarksStay
<1>6. CASE /\ Insert(d, chunk, span) /\ UNCHANGED <<record, full, events>>
           /\ thread' = [thread EXCEPT ![t].pc = "judge",
                           ![t].held = IF duration = None THEN span ELSE duration]
  <2> DEFINE held == IF duration = None THEN span ELSE duration
             w == [thread[t] EXCEPT !.pc = "judge", !.held = held]
  <2>1. thread' = [thread EXCEPT ![t] = w]
    BY <1>t, <1>6
  <2> HIDE DEF held
  <2>2. /\ w.pc = "judge" /\ w.todo = thread[t].todo /\ w.again = thread[t].again
        /\ thread'[t] = w /\ Others(t)
    BY <1>t, <2>1 DEF Work, Others
  <2>3. ThreadsStand' /\ OneUploads'
    <3>1. w.again => settings.sync
      BY <1>t, <2>2 DEF ThreadsStand
    <3>2. \A p \in w.todo : p[2] <= samples[t[1]][p[1]]
      BY <1>1, <2>2
    <3> HIDE DEF w
    <3> QED  BY <1>0, <1>t, <2>1, <2>2, <3>1, <3>2, TidyUpload
  <2>4. CASE settings.sync
    <3>1. /\ Puts(t)
          /\ \A e \in Device \ {d}, b \in Bucket : rows'[e][b] = rows[e][b]
      <4>1. \A p \in chunk : p[2] <= samples[d][p[1]]
        BY <1>1
      <4>2. /\ \A p \in chunk : rows'[d][p[1]] >= p[2]
            /\ \A b \in Bucket : rows'[d][b] >= rows[d][b] /\ rows'[d][b] <= samples[d][b]
            /\ \A e \in Device, b \in Bucket :
                 e # d \/ b \notin BucketsOf(chunk) => rows'[e][b] = rows[e][b]
        BY <1>t, <1>1, <1>6, <2>4, <4>1, InsertPuts
      <4> QED  BY <1>t, <4>2 DEF Puts
    <3>2. Inserts(t)
      <4>1. \E x : thread'[t] = [thread[t] EXCEPT !.pc = "judge", !.held = x]
        BY <2>2 DEF w
      <4>2. UNCHANGED <<now, samples, record>>
        BY <1>0, <1>6
      <4> QED  BY <1>0, <2>2, <2>4, <3>1, <4>1, <4>2 DEF Inserts
    <3>3. SamplesStand'
      <4>1. \A e \in Device, b \in Bucket : rows'[e][b] <= samples[e][b]
        BY <1>t, <3>1 DEF Puts, SamplesStand
      <4> QED  BY <1>0, <1>t, <4>1 DEF SamplesStand, Sampled
    <3>4. ASSUME NEW e \in Device \ {d} PROVE Calm(e)
      <4>1. Fade(e)
        BY <3>1, <3>4 DEF Fade
      <4> QED  BY <1>0, <1>6, <2>2, <3>4, <4>1 DEF Calm, Grows, MarksStay, Others
    <3> QED  BY <2>3, <3>2, <3>3, <3>4 DEF TidyStep, Step
  <2>5. CASE ~settings.sync
    <3>1. UNCHANGED rows
      BY <1>6, <2>5 DEF Insert, SyncIsOn
    <3>2. \A b \in Bucket : rows[d][b] = 0
      BY <1>t, <2>5 DEF OffHoldsNothing, Held
    <3>3. rows'[d] = NoSamples /\ ~thread[t].again
      BY <1>t, <2>5, <3>1, <3>2 DEF NoSamples, ThreadsStand
    <3>4. Inserts(t)
      BY <1>0, <1>6, <1>t, <2>2, <2>5, <3>3 DEF Inserts, w
    <3>5. SamplesStand'
      BY <1>0, <1>t, <3>1, SamplesStandStill DEF Grows, Fade
    <3>6. \A e \in Device \ {d} : Calm(e)
      BY <1>0, <1>6, <2>2, <3>1, ElsewhereIsCalm
    <3> QED  BY <2>3, <3>4, <3>5, <3>6 DEF TidyStep, Step
  <2> QED  BY <2>4, <2>5
<1> QED  BY <1>3, <1>4, <1>5, <1>6 DEF UploadChunk

LEMMA LostChunkTidy ==
  ASSUME Whole, HistoryInv, TidyInv, NEW t \in Thread, ChunkIsLost(t)
  PROVE  TidyStep
<1>1. ~thread[t].sent /\ EndUpload(t) /\ UNCHANGED <<now, settings, samples, rows, record>>
  BY DEF ChunkIsLost, StopsUpload, Whole, relayVars, deviceVars
<1> QED  BY <1>1, EndTidy DEF MarksStay

LEMMA JudgeTidy ==
  ASSUME Whole, HistoryInv, TidyInv, NEW t \in Thread, Judge(t)
  PROVE  TidyStep /\ (Forgets(t[1]) \/ Judges(t))
<1> DEFINE d == t[1]
           work == thread[t]
           chunk == Chunk(work.todo)
           span == Declared(d)
           mine == Held(rows[d])
           lost == ~work.again /\ RowsLost(record[d], chunk, mine, Shorter(work.held, span))
           kept == Applied(Remembered(record[d], chunk, span), mine, work.held, span)
<1>t. /\ d \in Device /\ SamplesStand /\ ThreadsStand /\ OneUploads /\ AdoptsNothing
      /\ thread \in [Thread -> Work] /\ work \in Work
      /\ record \in [Device -> Record] /\ record[d] \in Record
  BY ThreadParts DEF HistoryInv, TypeOK, TidyInv
<1>0. UNCHANGED <<now, settings, samples, rows>> /\ work.pc = "judge" /\ Uploading(t)
  BY DEF Judge, Uploading, relayVars
<1>1. /\ chunk \in SUBSET work.todo /\ work.todo # {} /\ work.todo \in SUBSET Point
      /\ \A p \in work.todo : p[2] <= samples[d][p[1]]
  BY <1>0, UploadParts
<1>2. span = Collector[d] /\ work.held = Collector[d] /\ span \in Spans /\ mine \in SUBSET Bucket
  <2>1. work.held \in Spans
    BY <1>0, <1>t DEF HistoryInv, ThreadsHoldTheirs, Work
  <2> QED  BY <1>t, <2>1, OneSpan, DeclaredType DEF HistoryInv, Held
<1>3. kept = JudgedRecord(t) /\ Shorter(work.held, span) = Collector[d]
  BY <1>2 DEF JudgedRecord, Shorter
<1>4. kept \in Record
  BY <1>1, <1>2, <1>t, RecordTypes
<1> HIDE DEF kept
<1>5. SamplesStand'
  BY <1>0, <1>t, SamplesStandStill DEF Grows, Fade
<1>6. CASE Refuse(t)
  BY <1>0, <1>6, RefuseTidy
<1>7. CASE /\ settings.sync /\ lost
           /\ Record_(d, Forgotten(kept))
           /\ thread' = [thread EXCEPT ![t].pc = "plan", ![t].again = TRUE, ![t].sent = FALSE,
                           ![t].todo = {}, ![t].held = None]
  <2> DEFINE w == [work EXCEPT !.pc = "plan", !.again = TRUE, !.sent = FALSE, !.todo = {},
                               !.held = None]
  <2>1. thread' = [thread EXCEPT ![t] = w]
    BY <1>t, <1>7
  <2>2. /\ w.pc = "plan" /\ w.todo = {} /\ ~w.sent /\ thread'[t] = w /\ Others(t)
    BY <1>t, <2>1 DEF Work, Others
  <2> HIDE DEF w
  <2>3. ThreadsStand' /\ OneUploads'
    BY <1>0, <1>7, <1>t, <2>1, <2>2, TidyUpload
  <2>4. record' = [record EXCEPT ![d] = Forgotten(kept)]
    BY <1>7 DEF Record_
  <2>5. Forgets(d)
    <3>1. NoneSends(d)
      BY <1>0, <1>t, <2>2 DEF NoneSends, OneUploads, ThreadsStand, Others, Uploading
    <3>2. /\ Forgotten(kept).oldest = None /\ Forgotten(kept).watermark = None
          /\ Forgotten(kept).previous = None
      BY <1>4 DEF Forgotten, Record
    <3> QED  BY <1>0, <1>t, <2>4, <3>1, <3>2 DEF Forgets
  <2>6. \A e \in Device \ {d} : Calm(e)
    BY <1>0, <1>t, <2>2, <2>4, ElsewhereIsCalm
  <2> QED  BY <1>5, <2>3, <2>5, <2>6 DEF TidyStep, Step
<1>8. CASE /\ settings.sync /\ ~lost /\ work.todo # chunk
           /\ Record_(d, kept)
           /\ thread' = [thread EXCEPT ![t].pc = "put", ![t].sent = TRUE,
                           ![t].todo = @ \ chunk, ![t].held = None]
  <2> DEFINE w == [work EXCEPT !.pc = "put", !.sent = TRUE, !.todo = @ \ chunk, !.held = None]
  <2>1. thread' = [thread EXCEPT ![t] = w]
    BY <1>t, <1>8
  <2>2. /\ w.pc = "put" /\ w.todo = work.todo \ chunk /\ w.again = work.again
        /\ thread'[t] = w /\ Others(t)
    BY <1>t, <2>1 DEF Work, Others
  <2>3. ThreadsStand' /\ OneUploads'
    <3>1. w.again => settings.sync
      BY <1>8, <2>2
    <3>2. \A p \in w.todo : p[2] <= samples[t[1]][p[1]]
      BY <1>1, <2>2
    <3> HIDE DEF w
    <3> QED  BY <1>0, <1>t, <2>1, <2>2, <3>1, <3>2, TidyUpload
  <2>4. record' = [record EXCEPT ![d] = kept]
    BY <1>8 DEF Record_
  <2>5. Judges(t)
    <3>1. record'[d] = kept
      BY <1>t, <2>4
    <3>2. ~work.again => ~RowsLost(record[d], chunk, mine, Collector[d])
      BY <1>3, <1>8
    <3> QED  BY <1>0, <1>3, <1>8, <2>2, <3>1, <3>2 DEF Judges, w
  <2>6. \A e \in Device \ {d} : Calm(e)
    BY <1>0, <1>t, <2>2, <2>4, ElsewhereIsCalm
  <2> QED  BY <1>5, <2>3, <2>5, <2>6 DEF TidyStep, Step
<1>9. CASE /\ settings.sync /\ ~lost /\ work.todo = chunk
           /\ Record_(d, Backfilled(t, kept)) /\ EndUpload(t)
  <2>1. Free(thread'[t]) /\ Others(t)
    BY <1>9, EndsFree DEF Others
  <2>2. ThreadsStand' /\ OneUploads'
    <3>1. \A e \in Device : Grows(e)
      BY <1>0 DEF Grows
    <3> QED  BY <1>0, <1>t, <2>1, <3>1, TidyFree, GrownIsMore DEF Others, ThreadsStand
  <2>4. record' = [record EXCEPT ![d] = Backfilled(t, kept)]
    BY <1>9 DEF Record_
  <2>5. Judges(t)
    <3>1. /\ record'[d].oldest = kept.oldest /\ record'[d].watermark = kept.watermark
          /\ record'[d].previous = kept.previous
      BY <1>t, <1>4, <2>4, BackfilledMarks
    <3>2. ~work.again => ~RowsLost(record[d], chunk, mine, Collector[d])
      BY <1>3, <1>9
    <3> QED  BY <1>0, <1>3, <1>9, <2>1, <3>1, <3>2, FreeIsLight DEF Judges
  <2>6. \A e \in Device \ {d} : Calm(e)
    BY <1>0, <1>t, <2>1, <2>4, ElsewhereIsCalm
  <2> QED  BY <1>5, <2>2, <2>5, <2>6 DEF TidyStep, Step
<1> QED
  <2>1. \/ Refuse(t)
        \/ settings.sync /\ lost /\ Record_(d, Forgotten(kept))
           /\ thread' = [thread EXCEPT ![t].pc = "plan", ![t].again = TRUE, ![t].sent = FALSE,
                           ![t].todo = {}, ![t].held = None]
        \/ settings.sync /\ ~lost /\ work.todo # chunk /\ Record_(d, kept)
           /\ thread' = [thread EXCEPT ![t].pc = "put", ![t].sent = TRUE,
                           ![t].todo = @ \ chunk, ![t].held = None]
        \/ settings.sync /\ ~lost /\ work.todo = chunk /\ Record_(d, Backfilled(t, kept))
           /\ EndUpload(t)
    BY DEF Judge, kept
  <2> QED  BY <1>6, <1>7, <1>8, <1>9, <2>1

LEMMA TidyNext ==
  ASSUME Whole, HistoryInv, OffHoldsNothing, TidyInv, [Next]_vars
  PROVE  TidyStep /\ TidyInv'
<1>1. TidyStep
  BY SettingsTidy, OtherTidy, StartTidy, PlanTidy, ChunkTidy, LostChunkTidy, JudgeTidy
     DEF Next, SettingsNext, UploadNext
<1> QED  BY <1>1, AdoptsNothingYet DEF TidyStep, TidyInv

-------------------------------------------------------------------------------
(***************************************************************************)
(* What the record of a device says of the rows.                           *)
(***************************************************************************)
MarksStand(d) ==
  LET r == record[d]
  IN  /\ r.oldest # None => r.previous # None /\ r.oldest <= r.previous[1]
      /\ r.previous # None => r.previous[2] <= samples[d][r.previous[1]]
      /\ r.watermark # None => Sampled(d, r.watermark)
      /\ (r.previous # None /\ Living(d, r.previous[1])) =>
           r.watermark # None /\ r.previous[1] <= r.watermark

Known(d) == record[d].oldest # None /\ Living(d, record[d].oldest)

(* Between uploads what was uploaded last is what was confirmed last. *)
MarkedLast(d) ==
  (Known(d) /\ \A t \in Thread : t[1] = d => ~thread[t].sent) =>
    record[d].previous[1] = record[d].watermark

Honest(d) ==
  \A b \in Bucket :
    (/\ record[d].oldest <= b /\ b <= record[d].watermark
     /\ Sampled(d, b) /\ Living(d, b)
     /\ \A t \in Thread : t[1] = d /\ thread[t].sent => b \notin Awaited(t)) => Kept(d, b)

(* The switch went off, and perhaps on again: what a chunk to come shows. *)
Wiped(d) == \A c \in Held(rows[d]) : c > record[d].oldest

RecordStands(d) ==
  Known(d) =>
    \/ Honest(d)
    \/ Wiped(d) /\ \A t \in Thread : t[1] = d => ~thread[t].again

(* What is still to be sent is later than what was, or was sampled again. *)
Ahead(d) ==
  Known(d) => \A t \in Thread : t[1] = d => \A q \in Awaited(t) :
    /\ q >= record[d].oldest
    /\ thread[t].sent => q > record[d].oldest
    /\ ~thread[t].sent => q >= record[d].watermark

(* What an upload leaves out was uploaded before it, or is sampled since. *)
Early(t, b) ==
  LET w == record[t[1]].watermark
  IN  w # None /\ b <= w /\ \A q \in Awaited(t) : b < q

Late(t, b) ==
  LET w == record[t[1]].watermark
  IN  /\ w # None => w < b
      /\ \A c \in Held(rows[t[1]]) \cup Awaited(t) : c < b

PlansAll(d) ==
  \A t \in Thread : (t[1] = d /\ thread[t].todo # {}) =>
    \A b \in Bucket :
      (Sampled(d, b) /\ Living(d, b) /\ b \notin Awaited(t)) => Early(t, b) \/ Late(t, b)

(* What was inserted is there until the answer is judged, or all is gone. *)
Inserted(d) ==
  \A t \in Thread : (t[1] = d /\ thread[t].pc = "judge") =>
    \/ ~thread[t].again /\ Held(rows[d]) = {}
    \/ \A b \in BucketsOf(Chunk(thread[t].todo)) : Living(d, b) => Kept(d, b)

Recorded(d) ==
  /\ MarksStand(d) /\ MarkedLast(d) /\ RecordStands(d)
  /\ Ahead(d) /\ PlansAll(d) /\ Inserted(d)

(***************************************************************************)
(* A bucket is sampled while it lasts: of what is held, and of what is to  *)
(* be sent, only the newest can lack the latest sample.                    *)
(***************************************************************************)
IsNewest(d, b) ==
  /\ record[d].watermark # None => record[d].watermark <= b
  /\ \A c \in Held(rows[d]) : c <= b

(* An upload of later ones brings it up to date first. *)
HeldIsLatest(d) ==
  \A b \in Held(rows[d]) : (Living(d, b) /\ rows[d][b] # samples[d][b]) =>
    /\ IsNewest(d, b)
    /\ \A t \in Thread : t[1] = d =>
         \A q \in Awaited(t) : q <= b \/ <<b, samples[d][b]>> \in thread[t].todo

SentIsLatest(d) ==
  \A t \in Thread : t[1] = d => \A p \in thread[t].todo :
    /\ (record[d].previous # None /\ record[d].previous[1] = p[1]) => record[d].previous[2] <= p[2]
    /\ p[2] = samples[d][p[1]] \/ (IsNewest(d, p[1]) /\ \A q \in Awaited(t) : q <= p[1])

(* What was uploaded last, or is to be judged, is held as it was sent, or later, if at all. *)
AtLeast(d, p) == rows[d][p[1]] > 0 => rows[d][p[1]] >= p[2]

HeldAsSent(d) ==
  /\ record[d].previous # None => AtLeast(d, record[d].previous)
  /\ \A t \in Thread : (t[1] = d /\ thread[t].pc = "judge") =>
       \A p \in Chunk(thread[t].todo) : AtLeast(d, p)

Valued(d) == HeldIsLatest(d) /\ SentIsLatest(d) /\ HeldAsSent(d)

RecordInv == TidyInv /\ \A d \in Device : Recorded(d) /\ Valued(d)

LEMMA RecordedParts ==
  ASSUME HistoryInv, TidyInv, NEW d \in Device
  PROVE  /\ now \in Nat /\ Collector[d] \in Nat /\ Slack \in Nat /\ None \notin Nat
         /\ record[d].oldest \in Nat \cup {None}
         /\ record[d].watermark \in Bucket \cup {None}
         /\ record[d].previous # None => /\ record[d].previous[1] \in Bucket
                                         /\ record[d].previous[2] \in Nat \ {0}
         /\ \A b \in Bucket : /\ b \in Nat /\ samples[d][b] \in Nat /\ rows[d][b] \in Nat
                              /\ rows[d][b] <= samples[d][b]
                              /\ samples[d][b] > 0 => b <= now
<1>1. /\ record[d] \in Record /\ now \in Bucket
      /\ rows[d] \in [Bucket -> 0..MaxSamples] /\ samples[d] \in [Bucket -> 0..MaxSamples]
  BY DEF HistoryInv, TypeOK
<1>2. \A b \in Bucket : /\ rows[d][b] <= samples[d][b]
                        /\ samples[d][b] > 0 => b <= now
  BY DEF TidyInv, SamplesStand, Sampled
<1>3. /\ record[d].oldest \in Bucket \cup {None}
      /\ record[d].watermark \in Bucket \cup {None}
      /\ record[d].previous # None => record[d].previous \in Point
  BY <1>1 DEF Record
<1>4. None \notin Bucket
  BY DEF Bucket
<1>5. \A b \in Bucket : b \in Nat /\ samples[d][b] \in Nat /\ rows[d][b] \in Nat
  BY <1>1 DEF Bucket
<1>6. /\ now \in Nat /\ Collector[d] \in Nat /\ Slack \in Nat /\ None \notin Nat
      /\ record[d].oldest \in Nat \cup {None}
  BY <1>1, <1>3 DEF Bucket
<1>7. record[d].previous # None => record[d].previous[1] \in Bucket /\ record[d].previous[2] \in Nat \ {0}
  BY <1>3 DEF Point
<1> QED  BY <1>2, <1>3, <1>5, <1>6, <1>7

(* What is awaited was sampled. *)
LEMMA AwaitedSampled ==
  ASSUME HistoryInv, TidyInv, NEW t \in Thread, NEW q \in Awaited(t)
  PROVE  /\ q \in Bucket /\ Sampled(t[1], q) /\ q <= now
         /\ thread[t].pc \in {"put", "judge"} /\ Uploading(t) /\ thread[t].todo # {}
<1>1. PICK p \in thread[t].todo : p[1] = q
  BY DEF Awaited, BucketsOf
<1>2. thread[t].todo \subseteq Point /\ t[1] \in Device
  BY ThreadParts DEF HistoryInv, Work
<1>3. q \in Bucket /\ samples[t[1]][q] > 0
  <2>1. q \in Bucket /\ p[2] \in Nat /\ p[2] > 0 /\ p[2] <= samples[t[1]][q]
    BY <1>1, <1>2 DEF TidyInv, ThreadsStand, Point
  <2>2. samples[t[1]][q] \in Nat
    BY <1>2, <2>1 DEF HistoryInv, TypeOK
  <2> QED  BY <2>1, <2>2
<1>4. thread[t].pc \in {"put", "judge"}
  BY <1>1 DEF TidyInv, ThreadsStand
<1> QED  BY <1>1, <1>2, <1>3, <1>4 DEF TidyInv, SamplesStand, Sampled, Uploading

(* ... by the one thread that uploads. *)
LEMMA OneAwaits ==
  ASSUME HistoryInv, TidyInv, NEW t \in Thread, Uploading(t),
         NEW u \in Thread, u[1] = t[1], u # t
  PROVE  Awaited(u) = {} /\ ~thread[u].sent /\ ~thread[u].again /\ thread[u].pc # "judge"
<1>1. Free(thread[u])
  BY NotUploadingIsFree DEF TidyInv, OneUploads
<1> QED  BY <1>1 DEF Free, Awaited, BucketsOf

LEMMA HeldIs ==
  ASSUME HistoryInv, TidyInv, NEW d \in Device
  PROVE  \A c : c \in Held(rows[d]) <=> c \in Bucket /\ rows[d][c] > 0
  BY DEF Held

LEMMA RecordInit == Init => RecordInv
<1> SUFFICES ASSUME Init PROVE RecordInv
  OBVIOUS
<1>1. ASSUME NEW d \in Device PROVE Recorded(d)
  <2>1. record[d] = Unsynced /\ \A t \in Thread : thread[t] = Resting
    BY DEF Init
  <2>2. ~Known(d)
    BY <2>1 DEF Known, Unsynced
  <2>3. MarksStand(d)
    BY <2>1 DEF MarksStand, Unsynced
  <2> QED  BY <2>1, <2>2, <2>3 DEF Recorded, MarkedLast, RecordStands, Ahead, PlansAll, Inserted, Resting
<1>2. ASSUME NEW d \in Device PROVE Valued(d)
  <2>1. record[d] = Unsynced /\ Held(rows[d]) = {} /\ \A t \in Thread : thread[t] = Resting
    BY DEF Init, Held, NoSamples
  <2> QED  BY <2>1 DEF Valued, HeldIsLatest, SentIsLatest, HeldAsSent, Unsynced, Resting
<1> QED  BY <1>1, <1>2, TidyInit DEF RecordInv

-------------------------------------------------------------------------------
(* A calm step. *)
LEMMA CalmKeeps ==
  ASSUME HistoryInv, TidyInv, HistoryInv', TidyInv', NEW d \in Device, Recorded(d), Calm(d)
  PROVE  Recorded(d)'
<1> DEFINE r == record[d]
<1>0. /\ MarksStand(d) /\ MarkedLast(d) /\ RecordStands(d) /\ Ahead(d) /\ PlansAll(d) /\ Inserted(d)
      /\ now' \in {now, now + 1} /\ Grows(d) /\ Fade(d) /\ MarksStay(d)
  BY DEF Recorded, Calm
<1>r. /\ record'[d].oldest = r.oldest /\ record'[d].watermark = r.watermark
      /\ record'[d].previous = r.previous
  BY <1>0 DEF MarksStay
<1>t. /\ now \in Nat /\ Collector[d] \in Nat /\ Slack \in Nat /\ None \notin Nat
      /\ r.oldest \in Nat \cup {None}
      /\ r.watermark \in Bucket \cup {None}
      /\ r.previous # None => r.previous[1] \in Bucket /\ r.previous[2] \in Nat \ {0}
      /\ \A b \in Bucket : /\ b \in Nat /\ samples[d][b] \in Nat /\ rows[d][b] \in Nat
                           /\ rows[d][b] <= samples[d][b]
                           /\ samples[d][b] > 0 => b <= now
  BY RecordedParts
<1>l. \A b \in Nat : Living(d, b)' => Living(d, b)
  BY <1>0, <1>t DEF Living, Live
<1>h. \A u \in Thread : u[1] = d => thread'[u] = thread[u] \/ (Light(thread'[u]) /\ ~thread[u].sent)
  BY DEF Calm
<1>a. ASSUME NEW u \in Thread, u[1] = d, thread'[u].todo # {} \/ thread'[u].sent
             \/ thread'[u].again \/ thread'[u].pc = "judge"
      PROVE  thread'[u] = thread[u] /\ Awaited(u)' = Awaited(u)
  BY <1>h, <1>a DEF Light, Awaited
<1>k. Known(d)' => Known(d)
  BY <1>r, <1>l, <1>t DEF Known
(* an old sample and its row *)
<1>s. ASSUME NEW b \in Bucket, Sampled(d, b) PROVE samples'[d][b] >= samples[d][b] /\ Sampled(d, b)'
  BY <1>0, <1>t, <1>s DEF Grows, Sampled
<1>n. ASSUME NEW b \in Bucket, Sampled(d, b)', ~Sampled(d, b) PROVE b = now /\ samples[d][b] = 0
  BY <1>0, <1>t, <1>n DEF Grows, Sampled
<1>f. \/ \A b \in Bucket : (Sampled(d, b) /\ Living(d, b) /\ Kept(d, b)) => Kept(d, b)'
      \/ /\ \A b \in Bucket : rows'[d][b] = 0
         /\ \A u \in Thread : u[1] = d => ~thread[u].again
  <2>1. ASSUME \A b \in Bucket :
                 rows'[d][b] = rows[d][b] \/ (rows'[d][b] = 0 /\ b + Collector[d] < now),
               NEW b \in Bucket, Sampled(d, b), Living(d, b), Kept(d, b)
        PROVE  Kept(d, b)'
    BY <1>s, <1>t, <2>1 DEF Living, Live, Kept
  <2> QED  BY <1>0, <2>1 DEF Fade
<1>g. \A c : c \in Held(rows[d])' => c \in Held(rows[d])
  <2>1. \A c \in Bucket : rows'[d][c] = rows[d][c] \/ rows'[d][c] = 0
    BY <1>0 DEF Fade
  <2> QED  BY <1>t, <2>1 DEF Held
<1>1. MarksStand(d)'
  <2>1. ASSUME r.previous # None PROVE r.previous[2] <= samples'[d][r.previous[1]]
    <3>1. r.previous[1] \in Bucket /\ r.previous[2] <= samples[d][r.previous[1]]
      BY <1>0, <1>t, <2>1 DEF MarksStand
    <3>2. samples'[d][r.previous[1]] \in {samples[d][r.previous[1]], samples[d][r.previous[1]] + 1}
      BY <1>0, <3>1 DEF Grows
    <3> QED  BY <1>t, <2>1, <3>1, <3>2
  <2>2. r.watermark # None => samples'[d][r.watermark] > 0
    <3>1. r.watermark # None => r.watermark \in Bucket /\ Sampled(d, r.watermark)
      BY <1>0, <1>t DEF MarksStand
    <3> QED  BY <1>s, <3>1 DEF Sampled
  <2>3. ASSUME r.previous # None, Living(d, record[d].previous[1])'
        PROVE  r.watermark # None /\ r.previous[1] <= r.watermark
    <3>1. r.previous[1] \in Nat /\ record'[d].previous = r.previous
      BY <1>r, <1>t, <2>3 DEF Bucket
    <3>2. Living(d, r.previous[1])
      BY <1>0, <1>t, <2>3, <3>1 DEF Living, Live
    <3> QED  BY <1>0, <2>3, <3>2 DEF MarksStand
  <2> QED  BY <1>0, <1>r, <2>1, <2>2, <2>3 DEF MarksStand, Sampled
<1>2. MarkedLast(d)'
  BY <1>0, <1>r, <1>k, <1>h DEF MarkedLast, Light
<1>3. RecordStands(d)'
  <2> SUFFICES ASSUME Known(d)'
               PROVE  (Honest(d) \/ (Wiped(d) /\ \A u \in Thread : u[1] = d => ~thread[u].again))'
    BY DEF RecordStands
  <2>1. \A u \in Thread : (u[1] = d /\ thread'[u].again) => thread[u].again
    BY <1>a
  <2>2. CASE Wiped(d) /\ \A u \in Thread : u[1] = d => ~thread[u].again
    BY <1>r, <1>g, <2>1, <2>2 DEF Wiped
  <2>3. CASE (\A b \in Bucket : rows'[d][b] = 0) /\ \A u \in Thread : u[1] = d => ~thread[u].again
    <3>1. Held(rows[d])' = {}
      BY <2>3 DEF Held
    <3> QED  BY <2>1, <2>3, <3>1 DEF Wiped
  <2>4. CASE /\ Honest(d)
             /\ \A b \in Bucket : (Sampled(d, b) /\ Living(d, b) /\ Kept(d, b)) => Kept(d, b)'
    <3> SUFFICES ASSUME NEW b \in Bucket, r.oldest <= b, b <= r.watermark, Sampled(d, b)',
                        Living(d, b)',
                        \A u \in Thread : u[1] = d /\ thread'[u].sent => b \notin Awaited(u)'
                 PROVE  Kept(d, b)'
      BY <1>r DEF Honest
    <3>1. Living(d, b) /\ Known(d)
      BY <1>t, <1>l, <1>k
    <3>w. r.watermark \in Bucket /\ r.watermark <= now /\ Sampled(d, r.watermark)
      <4>1. r.previous # None /\ r.oldest # None
        BY <1>0, <3>1 DEF MarksStand, Known
      <4>2. Living(d, r.previous[1])
        BY <1>0, <1>t, <3>1, <4>1 DEF MarksStand, Known, Living, Live
      <4>3. r.watermark # None
        BY <1>0, <4>1, <4>2 DEF MarksStand
      <4> QED  BY <1>0, <1>t, <4>3 DEF MarksStand, Sampled
    <3>2. Sampled(d, b)
      BY <1>t, <1>n, <3>w DEF Sampled
    <3>3. \A u \in Thread : u[1] = d /\ thread[u].sent => b \notin Awaited(u)
      BY <1>h DEF Awaited
    <3> QED  BY <2>4, <3>1, <3>2, <3>3 DEF Honest
  <2> QED  BY <1>0, <1>k, <1>f, <2>2, <2>3, <2>4 DEF RecordStands
<1>4. Ahead(d)'
  <2> SUFFICES ASSUME Known(d)', NEW u \in Thread, u[1] = d, NEW q \in Awaited(u)'
               PROVE  /\ q >= r.oldest /\ (thread'[u].sent => q > r.oldest)
                      /\ ~thread'[u].sent => q >= r.watermark
    BY <1>r DEF Ahead
  <2>1. thread'[u].todo # {}
    BY DEF Awaited, BucketsOf
  <2>2. thread'[u] = thread[u] /\ q \in Awaited(u)
    BY <1>a, <2>1
  <2> QED  BY <1>0, <1>k, <2>2 DEF Ahead
<1>5. PlansAll(d)'
  <2> SUFFICES ASSUME NEW u \in Thread, u[1] = d, thread'[u].todo # {}, NEW b \in Bucket,
                      Sampled(d, b)', Living(d, b)', b \notin Awaited(u)'
               PROVE  Early(u, b)' \/ Late(u, b)'
    BY DEF PlansAll
  <2>1. thread'[u] = thread[u] /\ Awaited(u)' = Awaited(u) /\ thread[u].todo # {}
    BY <1>a
  <2>2. Living(d, b)
    BY <1>t, <1>l
  <2>3. CASE Sampled(d, b)
    <3>1. Early(u, b) \/ Late(u, b)
      BY <1>0, <2>1, <2>2, <2>3 DEF PlansAll
    <3> QED  BY <1>r, <1>g, <2>1, <3>1 DEF Early, Late
  <2>4. CASE ~Sampled(d, b)
    <3>1. b = now /\ samples[d][b] = 0
      BY <1>n, <2>4
    <3>2. ASSUME r.watermark # None PROVE r.watermark < b
      <4>1. r.watermark \in Bucket /\ samples[d][r.watermark] > 0
        BY <1>0, <1>t, <3>2 DEF MarksStand, Sampled
      <4>2. r.watermark <= now /\ r.watermark \in Nat
        BY <1>t, <4>1
      <4>3. r.watermark # b
        BY <3>1, <4>1
      <4> QED  BY <1>t, <3>1, <4>2, <4>3
    <3>3. ASSUME NEW c \in Held(rows[d]) PROVE c < b
      BY <1>t, <3>1, <3>3 DEF Held
    <3>4. ASSUME NEW c \in Awaited(u) PROVE c < b
      <4>1. c \in Bucket /\ samples[d][c] > 0 /\ c <= now
        BY <2>1, <3>4, AwaitedSampled DEF Sampled
      <4>2. c # b /\ c \in Nat
        BY <1>t, <3>1, <4>1
      <4> QED  BY <1>t, <3>1, <4>1, <4>2
    <3> QED  BY <1>r, <1>g, <2>1, <3>2, <3>3, <3>4 DEF Late
  <2> QED  BY <2>3, <2>4
<1>6. Inserted(d)'
  <2> SUFFICES ASSUME NEW u \in Thread, u[1] = d, thread'[u].pc = "judge"
               PROVE  \/ ~thread'[u].again /\ Held(rows[d])' = {}
                      \/ \A b \in BucketsOf(Chunk(thread'[u].todo)) : Living(d, b)' => Kept(d, b)'
    BY DEF Inserted
  <2>1. thread'[u] = thread[u]
    BY <1>a
  <2>2. CASE ~thread[u].again /\ Held(rows[d]) = {}
    BY <1>g, <2>1, <2>2
  <2>3. CASE (\A b \in Bucket : rows'[d][b] = 0) /\ \A v \in Thread : v[1] = d => ~thread[v].again
    BY <2>1, <2>3 DEF Held
  <2>4. CASE /\ \A b \in BucketsOf(Chunk(thread[u].todo)) : Living(d, b) => Kept(d, b)
             /\ \A b \in Bucket : (Sampled(d, b) /\ Living(d, b) /\ Kept(d, b)) => Kept(d, b)'
    <3>1. ASSUME NEW b \in BucketsOf(Chunk(thread[u].todo)), Living(d, b)' PROVE Kept(d, b)'
      <4>1. b \in Awaited(u)
        BY <2>1, UploadParts DEF Awaited, BucketsOf
      <4>2. b \in Bucket /\ Sampled(d, b)
        BY <4>1, AwaitedSampled
      <4> QED  BY <1>t, <1>l, <2>4, <3>1, <4>2
    <3> QED  BY <2>1, <3>1
  <2> QED  BY <1>0, <1>f, <2>1, <2>2, <2>3, <2>4 DEF Inserted
<1> QED  BY <1>1, <1>2, <1>3, <1>4, <1>5, <1>6 DEF Recorded

(* Nothing is said of a record without a living oldest bucket, nor to be sent. *)
LEMMA UnknownIsRecorded ==
  ASSUME NEW d \in Device, MarksStand(d)', ~Known(d)', NoneSends(d)
  PROVE  Recorded(d)'
  BY DEF Recorded, MarkedLast, RecordStands, Ahead, PlansAll, Inserted, NoneSends

LEMMA ForgetsKeeps ==
  ASSUME NEW d \in Device, Forgets(d) PROVE Recorded(d)'
<1>1. MarksStand(d)' /\ ~Known(d)'
  BY DEF Forgets, MarksStand, Known
<1> QED  BY <1>1, UnknownIsRecorded DEF Forgets

LEMMA GivesUpKeeps ==
  ASSUME HistoryInv, TidyInv, NEW d \in Device, Recorded(d), GivesUp(d)
  PROVE  Recorded(d)'
<1>1. MarksStand(d)'
  BY DEF Recorded, MarksStand, GivesUp, MarksStay, Sampled, Living, Live
<1>2. ~Known(d)
  <2>1. PICK t \in Thread : t[1] = d /\ \E b \in Awaited(t) : OutOfRange(b, Collector[d])
    BY DEF GivesUp
  <2>2. PICK b \in Awaited(t) : OutOfRange(b, Collector[d])
    BY <2>1
  <2>3. b \in Nat
    BY AwaitedSampled DEF Bucket
  <2>4. Known(d) => b >= record[d].oldest
    BY <2>1 DEF Recorded, Ahead
  <2> QED  BY <2>2, <2>3, <2>4, RecordedParts DEF OutOfRange, Known, Living, Live
<1>3. ~Known(d)'
  BY <1>2 DEF GivesUp, MarksStay, Known, Living, Live
<1> QED  BY <1>1, <1>3, UnknownIsRecorded DEF GivesUp

(* An upload plans all it has from the watermark on. *)
LEMMA PlansKeeps ==
  ASSUME Whole, HistoryInv, TidyInv, NEW t \in Thread, Recorded(t[1]), Plans(t)
  PROVE  Recorded(t[1])'
<1> DEFINE d == t[1]
           r == record[d]
           planned == BucketsOf(Planned(d))
<1>t. /\ d \in Device
      /\ now \in Nat /\ Collector[d] \in Nat /\ Slack \in Nat /\ None \notin Nat
      /\ r.oldest \in Nat \cup {None}
      /\ r.watermark \in Bucket \cup {None}
      /\ r.previous # None => r.previous[1] \in Bucket /\ r.previous[2] \in Nat \ {0}
      /\ \A b \in Bucket : b \in Nat
  BY ThreadParts, RecordedParts DEF HistoryInv
<1>0. /\ MarksStand(d) /\ MarkedLast(d) /\ RecordStands(d) /\ Ahead(d) /\ PlansAll(d) /\ Inserted(d)
      /\ UNCHANGED <<now, samples, rows, record>> /\ Uploading(t) /\ thread[t] \in Work
      /\ thread[t].pc = "plan" /\ thread[t].todo = {} /\ ~thread[t].sent
  BY ThreadParts DEF Recorded, Plans, Uploading, TidyInv, ThreadsStand, HistoryInv
<1>1. /\ thread'[t].pc = "put" /\ thread'[t].todo = Planned(d)
      /\ thread'[t].sent = thread[t].sent /\ thread'[t].again = thread[t].again
      /\ \A u \in Thread \ {t} : thread'[u] = thread[u]
  BY <1>0 DEF Plans, Others, Work
<1>2. \A u \in Thread : u[1] = d =>
        /\ ~thread[u].sent /\ Awaited(u) = {} /\ thread[u].pc # "judge"
        /\ Awaited(u)' = IF u = t THEN planned ELSE {}
  BY <1>0, <1>1, OneAwaits DEF Awaited, BucketsOf
<1>3. ASSUME NEW q \in planned
      PROVE  /\ q \in Bucket /\ <<q, samples[d][q]>> # r.previous
             /\ r.watermark # None => q >= r.watermark
  BY <1>3 DEF Planned, BucketsOf, Held
<1>4. \A b \in Bucket : Living(d, b)' = Living(d, b) /\ Sampled(d, b)' = Sampled(d, b)
                        /\ Kept(d, b)' = Kept(d, b)
  BY <1>0 DEF Living, Live, Sampled, Kept
<1>5. MarksStand(d)' /\ (Known(d)' <=> Known(d))
  BY <1>0 DEF MarksStand, Known, Living, Live, Sampled
<1>6. MarkedLast(d)'
  BY <1>0, <1>1, <1>2, <1>5 DEF MarkedLast
<1>7. RecordStands(d)'
  <2>1. Honest(d) => Honest(d)'
    BY <1>0, <1>2, <1>4 DEF Honest
  <2>2. Wiped(d) => Wiped(d)'
    BY <1>0 DEF Wiped
  <2>3. \A u \in Thread : u[1] = d => thread'[u].again = thread[u].again
    BY <1>1
  <2> QED  BY <1>0, <1>5, <2>1, <2>2, <2>3 DEF RecordStands
<1>8. Ahead(d)'
  <2> SUFFICES ASSUME Known(d), NEW u \in Thread, u[1] = d, NEW q \in Awaited(u)'
               PROVE  q >= r.oldest /\ q >= r.watermark
    BY <1>0, <1>2, <1>1, <1>5 DEF Ahead
  <2>1. q \in planned
    BY <1>2
  <2>2. r.previous[1] = r.watermark
    BY <1>0, <1>2 DEF MarkedLast
  <2>3. r.oldest # None /\ r.previous # None /\ r.oldest <= r.previous[1]
    BY <1>0 DEF MarksStand, Known
  <2>4. q \in Nat /\ r.watermark \in Nat /\ q >= r.watermark
    BY <1>3, <1>t, <2>1, <2>2, <2>3
  <2> QED  BY <1>t, <2>2, <2>3, <2>4
<1>9. PlansAll(d)'
  <2> SUFFICES ASSUME NEW u \in Thread, u[1] = d, thread'[u].todo # {}, NEW b \in Bucket,
                      Sampled(d, b), Living(d, b), b \notin Awaited(u)'
               PROVE  Early(u, b)'
    BY <1>4 DEF PlansAll
  <2>1. u = t /\ Awaited(u)' = planned
    <3>1. u = t
      BY <1>0, <1>1, OneAwaits, AwaitedSampled DEF TidyInv, OneUploads, ThreadsStand, Uploading
    <3> QED  BY <1>2, <3>1
  <2>2. b >= now - Declared(d)
    <3>1. Declared(d) = Collector[d]
      BY <1>t, OneSpan DEF TidyInv
    <3> QED  BY <1>t, <3>1 DEF Living, Live
  <2>3. b \in Held(samples[d])
    BY DEF Held, Sampled
  <2>4. (r.watermark # None /\ b < r.watermark) \/ <<b, samples[d][b]>> = r.previous
    <3>1. b \notin planned
      BY <2>1
    <3>2. ~(/\ r.watermark # None => b >= r.watermark
            /\ <<b, samples[d][b]>> # r.previous)
      <4> SUFFICES ASSUME /\ r.watermark # None => b >= r.watermark
                          /\ <<b, samples[d][b]>> # r.previous
                   PROVE  FALSE
        OBVIOUS
      <4>1. <<b, samples[d][b]>> \in Planned(d)
        BY <2>2, <2>3 DEF Planned
      <4> QED  BY <3>1, <4>1 DEF BucketsOf
    <3> QED  BY <1>t, <3>2
  <2>5. r.watermark # None /\ b <= r.watermark
    <3>1. CASE r.watermark # None /\ b < r.watermark
      BY <1>t, <3>1
    <3>2. CASE <<b, samples[d][b]>> = r.previous
      <4>0. <<b, samples[d][b]>> \in Point
        <5>1. samples[d][b] \in 0..MaxSamples /\ samples[d][b] > 0
          BY <1>t DEF HistoryInv, TypeOK, Sampled
        <5> QED  BY <5>1 DEF Point
      <4>1. r.previous # None /\ r.previous[1] = b
        BY <3>2, <4>0, NoPointIsNone
      <4> QED  BY <1>0, <4>1 DEF MarksStand
    <3> QED  BY <2>4, <3>1, <3>2
  <2>6. \A q \in planned : b < q
    BY <1>3, <1>t, <2>1, <2>5
  <2> QED  BY <1>0, <2>1, <2>5, <2>6 DEF Early
<1>10. Inserted(d)'
  BY <1>1, <1>2 DEF Inserted
<1> QED  BY <1>5, <1>6, <1>7, <1>8, <1>9, <1>10 DEF Recorded

(* A chunk is put, or the switch is off and nothing is. *)
LEMMA InsertsKeeps ==
  ASSUME Whole, HistoryInv, HistoryInv', TidyInv, NEW t \in Thread, Recorded(t[1]), Inserts(t)
  PROVE  Recorded(t[1])'
<1> DEFINE d == t[1]
           r == record[d]
           chunk == Chunk(thread[t].todo)
<1>t. /\ d \in Device
      /\ now \in Nat /\ Collector[d] \in Nat /\ Slack \in Nat /\ None \notin Nat
      /\ r.oldest \in Nat \cup {None}
      /\ r.watermark \in Bucket \cup {None}
      /\ \A b \in Bucket : b \in Nat /\ samples[d][b] \in Nat /\ rows[d][b] \in Nat
  BY ThreadParts, RecordedParts DEF HistoryInv
<1>0. /\ MarksStand(d) /\ MarkedLast(d) /\ RecordStands(d) /\ Ahead(d) /\ PlansAll(d) /\ Inserted(d)
      /\ UNCHANGED <<now, samples, record>> /\ Uploading(t) /\ thread[t] \in Work
      /\ thread[t].pc = "put"
  BY ThreadParts DEF Recorded, Inserts, Uploading, HistoryInv
<1>1. /\ thread'[t].pc = "judge" /\ thread'[t].todo = thread[t].todo
      /\ thread'[t].sent = thread[t].sent /\ thread'[t].again = thread[t].again
      /\ \A u \in Thread \ {t} : thread'[u] = thread[u]
  BY <1>0 DEF Inserts, Others, Work
<1>2. \A u \in Thread : /\ Awaited(u)' = Awaited(u) /\ thread'[u].todo = thread[u].todo
                        /\ thread'[u].sent = thread[u].sent /\ thread'[u].again = thread[u].again
  BY <1>1 DEF Awaited
<1>3. BucketsOf(chunk) \subseteq Awaited(t)
  BY <1>0, UploadParts DEF Awaited, BucketsOf
<1>4. Puts(t) \/ (~thread[t].again /\ rows'[d] = NoSamples)
  BY DEF Inserts
<1>p. ASSUME Puts(t)
      PROVE  /\ \A b \in BucketsOf(chunk) : Kept(d, b)'
             /\ \A b \in Bucket : /\ rows'[d][b] \in Nat
                                  /\ Kept(d, b) => Kept(d, b)'
                                  /\ b \notin BucketsOf(chunk) => rows'[d][b] = rows[d][b]
  <2>1. \A b \in Bucket : rows'[d][b] \in Nat
    BY <1>t DEF HistoryInv, TypeOK
  <2>2. chunk \in SUBSET Point
    BY <1>0, UploadParts
  <2>3. ASSUME NEW p \in chunk PROVE rows'[d][p[1]] > 0
    <3>1. p[1] \in Bucket /\ p[2] \in Nat /\ p[2] > 0 /\ rows'[d][p[1]] >= p[2]
      BY <1>p, <2>2 DEF Puts, Point
    <3> QED  BY <2>1, <3>1
  <2> QED  BY <1>p, <1>t, <2>1, <2>3 DEF Puts, Kept, BucketsOf
<1>5. \A c \in Held(rows[d])' : c \in Held(rows[d]) \cup BucketsOf(chunk)
  BY <1>4, <1>p DEF Held, NoSamples
<1>6. \A b \in Bucket : Living(d, b)' = Living(d, b) /\ Sampled(d, b)' = Sampled(d, b)
  BY <1>0 DEF Living, Live, Sampled
<1>7. MarksStand(d)' /\ (Known(d)' <=> Known(d))
  BY <1>0 DEF MarksStand, Known, Living, Live, Sampled
<1>8. MarkedLast(d)'
  BY <1>0, <1>2, <1>7 DEF MarkedLast
<1>9. RecordStands(d)'
  <2> SUFFICES ASSUME Known(d)
               PROVE  (Honest(d) \/ (Wiped(d) /\ \A u \in Thread : u[1] = d => ~thread[u].again))'
    BY <1>7 DEF RecordStands
  <2>2. CASE Puts(t)
    <3>1. Honest(d) => Honest(d)'
      BY <1>0, <1>2, <1>6, <1>p, <2>2 DEF Honest
    <3>2. ASSUME Wiped(d), ~Wiped(d)' PROVE Honest(d)'
      <4>1. PICK c \in BucketsOf(chunk) : ~(c > r.oldest)
        BY <1>0, <1>5, <3>2 DEF Wiped
      <4>2. c \in Awaited(t) /\ c \in Bucket
        BY <1>3, AwaitedSampled
      <4>3. c >= r.oldest /\ ~thread[t].sent /\ c >= r.watermark
        BY <1>0, <4>1, <4>2 DEF Ahead
      <4>4. r.watermark # None
        <5>1. r.oldest # None /\ r.previous # None /\ r.oldest <= r.previous[1]
          BY <1>0 DEF Known, MarksStand
        <5>2. r.previous[1] \in Nat
          BY <1>t, <5>1, RecordedParts
        <5>3. Living(d, r.previous[1])
          BY <1>0, <1>t, <5>1, <5>2 DEF Known, Living, Live
        <5> QED  BY <1>0, <5>1, <5>3 DEF MarksStand
      <4>5. ASSUME NEW b \in Bucket, r.oldest <= b, b <= r.watermark PROVE b = c
        BY <1>t, <4>1, <4>2, <4>3, <4>4, <4>5 DEF Known
      <4> QED  BY <1>0, <1>p, <2>2, <4>5 DEF Honest
    <3> QED  BY <1>0, <1>2, <3>1, <3>2 DEF RecordStands
  <2>3. CASE ~thread[t].again /\ rows'[d] = NoSamples
    <3>1. Wiped(d)'
      BY <2>3 DEF Wiped, Held, NoSamples
    <3>2. \A u \in Thread : u[1] = d => ~thread'[u].again
      BY <1>0, <1>2, <2>3, OneAwaits
    <3> QED  BY <3>1, <3>2
  <2> QED  BY <1>4, <2>2, <2>3
<1>10. Ahead(d)'
  BY <1>0, <1>2, <1>7 DEF Ahead
<1>11. PlansAll(d)'
  <2> SUFFICES ASSUME NEW u \in Thread, u[1] = d, thread[u].todo # {}, NEW b \in Bucket,
                      Sampled(d, b), Living(d, b), b \notin Awaited(u)
               PROVE  Early(u, b)' \/ Late(u, b)'
    BY <1>2, <1>6 DEF PlansAll
  <2>1. Early(u, b) \/ Late(u, b)
    BY <1>0 DEF PlansAll
  <2>2. u = t
    BY <1>0, UploadParts DEF TidyInv, ThreadsStand, OneUploads, Uploading
  <2> QED  BY <1>0, <1>2, <1>3, <1>5, <2>1, <2>2 DEF Early, Late
<1>12. Inserted(d)'
  <2> SUFFICES ASSUME NEW u \in Thread, u[1] = d, thread'[u].pc = "judge"
               PROVE  \/ ~thread'[u].again /\ Held(rows[d])' = {}
                      \/ \A b \in BucketsOf(Chunk(thread'[u].todo)) : Living(d, b)' => Kept(d, b)'
    BY DEF Inserted
  <2>1. u = t
    BY <1>0, <1>1, OneAwaits
  <2>2. CASE Puts(t)
    BY <1>1, <1>p, <2>1, <2>2
  <2>3. CASE ~thread[t].again /\ rows'[d] = NoSamples
    BY <1>1, <2>1, <2>3 DEF Held, NoSamples
  <2> QED  BY <1>4, <2>2, <2>3
<1> QED  BY <1>7, <1>8, <1>9, <1>10, <1>11, <1>12 DEF Recorded

-------------------------------------------------------------------------------
(* A chunk is the oldest of what is to be sent. *)
LEMMA ChunkIsFirst ==
  ASSUME NEW todo \in SUBSET Point, NEW p \in Chunk(todo), NEW q \in todo \ Chunk(todo)
  PROVE  p[1] < q[1]
<1> DEFINE before(x) == {y \in todo : y[1] < x[1]}
<1>1. p[1] \in Nat /\ q[1] \in Nat /\ p \in todo /\ \A y \in todo : y[1] \in Nat
  BY DEF Chunk, Point, Bucket
<1>2. IsFiniteSet(todo)
  <2>1. IsFiniteSet(Bucket) /\ IsFiniteSet(1..MaxSamples)
    BY FS_Interval DEF Bucket
  <2>2. IsFiniteSet(Point)
    BY <2>1, FS_Product DEF Point
  <2> QED  BY <2>2, FS_Subset
<1>3. IsFiniteSet(before(p)) /\ IsFiniteSet(before(q))
  BY <1>2, FS_Subset
<1>4. Cardinality(before(p)) \in Nat /\ Cardinality(before(q)) \in Nat
  BY <1>3, FS_CardinalityType
<1>5. Cardinality(before(p)) < MaxPoints /\ ~(Cardinality(before(q)) < MaxPoints)
  BY DEF Chunk
<1>6. SUFFICES ASSUME q[1] <= p[1] PROVE FALSE
  BY <1>1
<1>7. before(q) \subseteq before(p)
  BY <1>1, <1>6
<1>8. Cardinality(before(q)) <= Cardinality(before(p))
  BY <1>3, <1>7, FS_Subset
<1> HIDE DEF before
<1> QED  BY <1>4, <1>5, <1>8

(* What Judges leaves of the marks, and the buckets of the chunk. *)
LEMMA JudgedMarks ==
  ASSUME HistoryInv, TidyInv, NEW t \in Thread, Judges(t)
  PROVE  LET d     == t[1]
             r     == record[d]
             chunk == BucketsOf(Chunk(thread[t].todo))
             mine  == Held(rows[d])
             first == Least(chunk)
             last  == Greatest(chunk)
         IN  /\ chunk \subseteq Awaited(t)
             /\ first \in chunk /\ \A c \in chunk : first <= c
             /\ last \in chunk /\ \A c \in chunk : c <= last
             /\ mine # {} => /\ Greatest(mine) \in mine /\ \A c \in mine : c <= Greatest(mine)
                             /\ Least(mine) \in mine /\ \A c \in mine : Least(mine) <= c
             /\ record'[d].oldest = Reseeded(r, Chunk(thread[t].todo), Collector[d])
             /\ record'[d].watermark =
                  IF mine = {} THEN r.watermark
                  ELSE IF r.watermark = None \/ Greatest(mine) > r.watermark
                       THEN Greatest(mine) ELSE r.watermark
             /\ record'[d].previous \in Chunk(thread[t].todo)
             /\ record'[d].previous # None
             /\ record'[d].previous[1] = last
             /\ record'[d].previous[2] <= samples[d][last]
             /\ Awaited(t)' = Awaited(t) \ chunk
             /\ \A c \in chunk, q \in Awaited(t)' : c < q
<1> DEFINE d == t[1]
           r == record[d]
           points == Chunk(thread[t].todo)
           chunk == BucketsOf(points)
           mine == Held(rows[d])
           first == Least(chunk)
           last == Greatest(chunk)
           span == Collector[d]
           p0 == CHOOSE p \in points : p[1] = last
<1>0. /\ thread[t].pc = "judge" /\ d \in Device /\ r \in Record /\ thread[t] \in Work
      /\ thread[t].todo \in SUBSET Point /\ thread[t].todo # {}
      /\ points \in SUBSET thread[t].todo
      /\ \A p \in thread[t].todo : p[2] <= samples[d][p[1]]
  BY UploadParts DEF Judges, HistoryInv, TypeOK
<1>1. chunk \subseteq Awaited(t) /\ chunk \in SUBSET Bucket /\ chunk # {}
  BY <1>0, ChunkIs DEF Awaited, BucketsOf
<1>2. first \in chunk /\ \A c \in chunk : first <= c
  BY <1>1, LeastIs DEF Bucket
<1>3. last \in chunk /\ \A c \in chunk : c <= last
  <2>1. last \in chunk /\ \A c \in chunk : last >= c
    BY <1>1, GreatestIs DEF Bucket
  <2> QED  BY <1>1, <2>1 DEF Bucket
<1>4. mine # {} => /\ Greatest(mine) \in mine /\ \A c \in mine : c <= Greatest(mine)
                   /\ Least(mine) \in mine /\ \A c \in mine : Least(mine) <= c
  <2>1. mine \in SUBSET Bucket
    BY DEF Held
  <2> HIDE DEF mine
  <2>2. mine # {} => Greatest(mine) \in mine /\ \A c \in mine : Greatest(mine) >= c
    BY <2>1, GreatestIs DEF Bucket
  <2>3. mine # {} => Least(mine) \in mine /\ \A c \in mine : Least(mine) <= c
    BY <2>1, LeastIs DEF Bucket
  <2> QED  BY <2>1, <2>2, <2>3 DEF Bucket
<1>5. p0 \in points /\ p0[1] = last
  BY <1>3 DEF BucketsOf
<1>6. p0 \in Point /\ p0[2] <= samples[d][last]
  BY <1>0, <1>5
<1> DEFINE new == Remembered(r, points, span)
<1> HIDE DEF points, mine
<1>7. new.oldest = Reseeded(r, points, span) /\ new.previous = p0 /\ new.watermark = r.watermark
      /\ new \in Record
  <2>1. new \in Record
    <3>1. span \in Spans
      BY <1>0 DEF Spans
    <3>2. {} \in SUBSET Bucket
      OBVIOUS
    <3> QED  BY <1>0, <3>1, <3>2, RecordTypes DEF points
  <2> QED  BY <1>0, <2>1 DEF Remembered, Record
<1> DEFINE w == IF r.watermark = None \/ Greatest(mine) > r.watermark
                THEN Greatest(mine) ELSE r.watermark
<1>8. /\ JudgedRecord(t).oldest = new.oldest
      /\ JudgedRecord(t).previous = new.previous
      /\ JudgedRecord(t).watermark = IF mine = {} THEN r.watermark ELSE w
  <2>1. JudgedRecord(t) = Applied(new, mine, span, span)
    BY DEF JudgedRecord, points, mine
  <2>2. CASE mine = {}
    BY <1>7, <2>1, <2>2 DEF Applied
  <2>3. CASE mine # {}
    <3> DEFINE a == IF span < span THEN span ELSE IF span > span THEN None ELSE new.adopted
    <3>1. Applied(new, mine, span, span) = [new EXCEPT !.watermark = w, !.adopted = a]
      BY <1>7, <2>3 DEF Applied
    <3> HIDE DEF new, w, a
    <3> QED  BY <1>7, <2>1, <2>3, <3>1 DEF Record
  <2> QED  BY <2>2, <2>3
<1>9. /\ record'[d].oldest = new.oldest /\ record'[d].previous = p0
      /\ record'[d].watermark = IF mine = {} THEN r.watermark ELSE w
  BY <1>7, <1>8 DEF Judges
<1>10. \A c \in chunk, q \in thread[t].todo \ points : c < q[1]
  BY <1>0, ChunkIsFirst DEF BucketsOf, points
<1>11. thread'[t].todo = thread[t].todo \ points
  BY <1>0 DEF Judges, Light, Work, points
<1>12. /\ Awaited(t)' = Awaited(t) \ chunk
       /\ \A c \in chunk, q \in Awaited(t)' : c < q
  <2>1. ASSUME NEW q \in Awaited(t)' PROVE q \in Awaited(t) \ chunk /\ \A c \in chunk : c < q
    <3>1. PICK x \in thread[t].todo \ points : x[1] = q
      BY <1>11, <2>1 DEF Awaited, BucketsOf
    <3>2. \A c \in chunk : c < q
      BY <1>10, <3>1
    <3>3. q \notin chunk
      BY <1>1, <3>2 DEF Bucket
    <3> QED  BY <3>1, <3>2, <3>3 DEF Awaited, BucketsOf
  <2>2. ASSUME NEW q \in Awaited(t) \ chunk PROVE q \in Awaited(t)'
    BY <1>11, <2>2 DEF Awaited, BucketsOf
  <2> QED  BY <2>1, <2>2
<1>13. record'[d].previous # None
  BY <1>6, <1>9, NoPointIsNone
<1>p. record'[d].previous \in points
  BY <1>5, <1>9
<1> HIDE DEF p0, chunk, first, last, new, w
<1>14. /\ record'[d].oldest = Reseeded(r, points, span)
       /\ record'[d].previous[1] = last /\ record'[d].previous[2] <= samples[d][last]
  BY <1>5, <1>6, <1>7, <1>9
<1> QED
  BY <1>1, <1>2, <1>3, <1>4, <1>9, <1>12, <1>13, <1>14, <1>p DEF chunk, first, last, points, mine, w

(***************************************************************************)
(* After a chunk was judged what lies between the oldest bucket and the    *)
(* watermark, and is not to be sent, is kept: it was in the chunk, or      *)
(* before it and behind the old watermark; and then the old oldest bucket  *)
(* is still the oldest, and rows so old are there for a record that was    *)
(* honest, and are not for one whose rows are all later.                   *)
(***************************************************************************)
LEMMA JudgedIsHonest ==
  ASSUME HistoryInv, TidyInv, NEW t \in Thread, Recorded(t[1]), Judges(t),
         Held(rows[t[1]]) # {},
         NEW b \in Bucket, record'[t[1]].oldest <= b, b <= record'[t[1]].watermark,
         Sampled(t[1], b), Living(t[1], b), b \notin Awaited(t)'
  PROVE  Kept(t[1], b)
<1> DEFINE d == t[1]
           r == record[d]
           chunk == BucketsOf(Chunk(thread[t].todo))
           mine == Held(rows[d])
           first == Least(chunk)
<1>t. /\ d \in Device
      /\ now \in Nat /\ Collector[d] \in Nat /\ Slack \in Nat /\ None \notin Nat
      /\ r.oldest \in Nat \cup {None}
      /\ r.watermark \in Bucket \cup {None}
      /\ \A c \in Bucket : c \in Nat
  BY ThreadParts, RecordedParts DEF HistoryInv
<1>0. RecordStands(d) /\ PlansAll(d) /\ Inserted(d) /\ thread[t].pc = "judge" /\ Uploading(t)
  BY DEF Recorded, Judges, Uploading
<1>1. /\ chunk \subseteq Awaited(t) /\ first \in chunk /\ \A c \in chunk : first <= c
      /\ mine # {} => /\ Greatest(mine) \in mine /\ \A c \in mine : c <= Greatest(mine)
                      /\ Least(mine) \in mine
      /\ record'[d].oldest = Reseeded(r, Chunk(thread[t].todo), Collector[d])
      /\ record'[d].watermark =
           IF mine = {} THEN r.watermark
           ELSE IF r.watermark = None \/ Greatest(mine) > r.watermark
                THEN Greatest(mine) ELSE r.watermark
      /\ Awaited(t)' = Awaited(t) \ chunk
  BY JudgedMarks
<1>2. \A c \in Awaited(t) : c \in Nat
  BY AwaitedSampled DEF Bucket
<1>m. mine # {} /\ \A c \in mine : c \in Nat
  BY <1>t DEF Held
<1> HIDE DEF mine, chunk, first
<1>3. CASE b \in chunk
  BY <1>0, <1>3, <1>m DEF Inserted, chunk, mine
<1>4. CASE b \notin chunk
  <2>1. b \notin Awaited(t)
    BY <1>1, <1>4
  <2>2. thread[t].todo # {}
    BY <1>0 DEF HistoryInv, ThreadsHoldTheirs
  <2>3. Early(t, b) \/ Late(t, b)
    BY <1>0, <2>1, <2>2 DEF PlansAll
  <2>4. ~Late(t, b)
    <3> SUFFICES ASSUME Late(t, b) PROVE FALSE
      OBVIOUS
    <3>1. /\ r.watermark # None => r.watermark < b
          /\ \A c \in mine : c < b
      BY DEF Late, mine
    <3> QED  BY <1>1, <1>m, <1>t, <3>1
  <2>5. r.watermark # None /\ b <= r.watermark /\ b < first
    BY <1>1, <2>3, <2>4 DEF Early
  <2>6. Known(d) /\ record'[d].oldest = r.oldest
    <3>1. record'[d].oldest # first
      BY <1>1, <1>2, <1>t, <2>5
    <3> QED  BY <1>1, <3>1 DEF Reseeded, Known, Living, first, chunk
  <2>7. CASE Honest(d)
    <3>1. \A u \in Thread : u[1] = d /\ thread[u].sent => b \notin Awaited(u)
      BY <1>0, <2>1, OneAwaits
    <3> QED  BY <2>5, <2>6, <2>7, <3>1 DEF Honest
  <2>8. CASE Wiped(d) /\ \A u \in Thread : u[1] = d => ~thread[u].again
    <3>1. ~RowsLost(r, Chunk(thread[t].todo), mine, Collector[d])
      BY <2>8 DEF Judges, mine
    <3>2. Evidence(r, Chunk(thread[t].todo), Collector[d]) = r.oldest /\ r.oldest # None
      BY <2>6 DEF Evidence, Known, Living
    <3>3. ~(Least(mine) > r.oldest)
      BY <1>m, <3>1, <3>2 DEF RowsLost
    <3>4. Least(mine) > r.oldest
      BY <1>1, <1>m, <2>8 DEF Wiped, mine
    <3> QED  BY <3>3, <3>4
  <2> QED  BY <1>0, <2>6, <2>7, <2>8 DEF RecordStands
<1> QED  BY <1>3, <1>4

LEMMA JudgesKeeps ==
  ASSUME HistoryInv, TidyInv, NEW t \in Thread, Recorded(t[1]), Judges(t)
  PROVE  Recorded(t[1])'
<1> DEFINE d == t[1]
           r == record[d]
           chunk == BucketsOf(Chunk(thread[t].todo))
           mine == Held(rows[d])
           first == Least(chunk)
           last == Greatest(chunk)
           oldest == record'[d].oldest
           w == record'[d].watermark
<1>t. /\ d \in Device
      /\ now \in Nat /\ Collector[d] \in Nat /\ Slack \in Nat /\ None \notin Nat
      /\ r.oldest \in Nat \cup {None}
      /\ r.watermark \in Bucket \cup {None}
      /\ \A c \in Bucket : /\ c \in Nat /\ samples[d][c] \in Nat /\ rows[d][c] \in Nat
                           /\ rows[d][c] <= samples[d][c]
  BY ThreadParts, RecordedParts DEF HistoryInv
<1>0. /\ MarksStand(d) /\ PlansAll(d) /\ Inserted(d)
      /\ thread[t].pc = "judge" /\ Uploading(t) /\ thread[t] \in Work /\ thread[t].todo # {}
      /\ UNCHANGED <<now, samples, rows>>
  BY ThreadParts DEF Recorded, Judges, Uploading, HistoryInv, ThreadsHoldTheirs
<1>1. /\ chunk \subseteq Awaited(t) /\ first \in chunk /\ \A c \in chunk : first <= c
      /\ last \in chunk /\ \A c \in chunk : c <= last
      /\ mine # {} => Greatest(mine) \in mine /\ \A c \in mine : c <= Greatest(mine)
      /\ oldest = Reseeded(r, Chunk(thread[t].todo), Collector[d])
      /\ w = IF mine = {} THEN r.watermark
             ELSE IF r.watermark = None \/ Greatest(mine) > r.watermark
                  THEN Greatest(mine) ELSE r.watermark
      /\ record'[d].previous # None
      /\ record'[d].previous[1] = last
      /\ record'[d].previous[2] <= samples[d][last]
      /\ Awaited(t)' = Awaited(t) \ chunk
      /\ \A c \in chunk, q \in Awaited(t)' : c < q
  BY JudgedMarks
<1>2. \A c \in Awaited(t) : c \in Bucket /\ c \in Nat /\ Sampled(d, c)
  BY <1>t, AwaitedSampled DEF Sampled
<1>m. \A c : c \in mine <=> c \in Bucket /\ rows[d][c] > 0
  BY DEF Held
<1>3. \A u \in Thread : (u[1] = d /\ u # t) =>
        /\ Awaited(u) = {} /\ Awaited(u)' = {} /\ thread[u].pc # "judge"
        /\ thread'[u].pc # "judge" /\ ~thread[u].again /\ ~thread'[u].again /\ ~thread'[u].sent
  BY <1>0, OneAwaits DEF Judges, Others, Awaited
<1>4. /\ thread'[t].pc # "judge"
      /\ thread'[t].todo # {} => thread'[t].sent
      /\ ~thread'[t].sent => thread[t].todo = Chunk(thread[t].todo)
  BY <1>0 DEF Judges, Light, Work
<1>5. /\ oldest = first \/ (oldest = r.oldest /\ Known(d) /\ r.oldest <= first)
      /\ oldest \in Nat /\ oldest <= first
  <2>1. oldest = first \/ (oldest = r.oldest /\ Known(d) /\ r.oldest <= first)
    BY <1>1 DEF Reseeded, Known, Living
  <2> QED  BY <1>1, <1>2, <1>t, <2>1 DEF Known
<1>6. \A c \in Bucket : Living(d, c)' = Living(d, c) /\ Sampled(d, c)' = Sampled(d, c)
                        /\ Kept(d, c)' = Kept(d, c)
  BY <1>0 DEF Living, Live, Sampled, Kept
<1> HIDE DEF mine, chunk, first, last
(* what is living of the chunk is on the Relay *)
<1>7. \A c \in chunk : Living(d, c) => Kept(d, c) /\ c \in mine
  <2>1. CASE \A c \in chunk : Living(d, c) => Kept(d, c)
    BY <1>1, <1>2, <1>m, <2>1 DEF Kept
  <2>2. CASE ~thread[t].again /\ mine = {}
    BY <2>2 DEF Judges, RowsLost, mine
  <2> QED  BY <1>0, <2>1, <2>2 DEF Inserted, chunk, mine
<1>8. Known(d)' <=> Living(d, oldest)
  BY <1>0, <1>5, <1>t DEF Known, Living, Live
<1>9. w # None =>
        w \in Bucket /\ Sampled(d, w) /\ (mine # {} => \A c \in mine : c <= w)
        /\ (r.watermark # None => r.watermark <= w)
  <2>1. CASE mine = {}
    BY <1>0, <1>1, <1>t, <2>1 DEF MarksStand
  <2>2. CASE mine # {}
    <3>1. Greatest(mine) \in Bucket /\ Sampled(d, Greatest(mine))
      BY <1>1, <1>m, <1>t, <2>2 DEF Sampled
    <3>2. /\ w \in {Greatest(mine), r.watermark} /\ Greatest(mine) <= w
          /\ r.watermark # None => r.watermark <= w
      BY <1>1, <1>t, <2>2, <3>1
    <3>3. w # None => w \in Bucket /\ Sampled(d, w)
      BY <1>0, <1>t, <3>1, <3>2 DEF MarksStand
    <3>4. \A c \in mine : c <= w
      BY <1>1, <1>m, <1>t, <2>2, <3>1, <3>2
    <3> QED  BY <3>2, <3>3, <3>4
  <2> QED  BY <2>1, <2>2
<1>10. ASSUME NEW c \in chunk, Living(d, c) PROVE w # None /\ c <= w
  <2>1. c \in mine
    BY <1>7, <1>10
  <2>2. w # None
    BY <1>1, <1>m, <1>t, <2>1
  <2> QED  BY <1>9, <2>1, <2>2
<1>11. MarksStand(d)'
  <2>1. Living(d, record[d].previous[1])' => Living(d, last)
    BY <1>0, <1>1 DEF Living, Live
  <2>2. oldest # None => oldest <= last
    BY <1>1, <1>2, <1>5
  <2>3. w # None => samples'[d][w] > 0
    BY <1>0, <1>9 DEF Sampled
  <2>4. Living(d, last) => w # None /\ last <= w
    BY <1>1, <1>10
  <2> QED  BY <1>0, <1>1, <2>1, <2>2, <2>3, <2>4 DEF MarksStand, Sampled
<1>12. MarkedLast(d)'
  <2> SUFFICES ASSUME Living(d, oldest), ~thread'[t].sent PROVE last = w
    BY <1>1, <1>8 DEF MarkedLast
  <2>1. chunk = Awaited(t)
    BY <1>4 DEF chunk, Awaited
  <2>2. Living(d, last) /\ w # None /\ last <= w /\ last \in mine
    <3>1. Living(d, last)
      BY <1>1, <1>2, <1>5, <1>t DEF Living, Live
    <3> QED  BY <1>1, <1>7, <1>10, <3>1
  <2>3. ASSUME NEW c \in Bucket, Sampled(d, c), c \in mine \/ c = r.watermark PROVE c <= last
    <3>1. CASE c \in Awaited(t)
      BY <1>1, <2>1, <3>1
    <3>2. CASE ~Living(d, c)
      BY <1>1, <1>2, <1>t, <2>2, <3>2 DEF Living, Live
    <3>3. CASE Living(d, c) /\ c \notin Awaited(t)
      <4>1. Early(t, c) \/ Late(t, c)
        BY <1>0, <2>3, <3>3 DEF PlansAll
      <4>2. ~Late(t, c)
        BY <1>t, <2>3 DEF Late, mine
      <4> QED  BY <1>1, <1>2, <1>t, <4>1, <4>2 DEF Early
    <3> QED  BY <3>1, <3>2, <3>3
  <2>4. w \in mine \/ w = r.watermark
    BY <1>1, <2>2
  <2>5. w <= last
    BY <1>9, <2>2, <2>3, <2>4
  <2> QED  BY <1>1, <1>2, <1>9, <1>t, <2>2, <2>5
<1>13. RecordStands(d)'
  <2> SUFFICES ASSUME Living(d, oldest) PROVE Honest(d)'
    BY <1>8 DEF RecordStands
  <2>1. mine # {}
    <3>1. Living(d, first)
      BY <1>1, <1>2, <1>5, <1>t DEF Living, Live
    <3> QED  BY <1>1, <1>7, <3>1
  <2> SUFFICES ASSUME NEW b \in Bucket, oldest <= b, b <= w, Sampled(d, b), Living(d, b),
                      thread'[t].sent => b \notin Awaited(t)'
               PROVE  Kept(d, b)
    BY <1>6 DEF Honest
  <2>2. b \notin Awaited(t)'
    BY <1>4 DEF Awaited, BucketsOf
  <2> QED  BY <2>1, <2>2, JudgedIsHonest DEF mine
<1>14. Ahead(d)'
  <2> SUFFICES ASSUME NEW u \in Thread, u[1] = d, NEW q \in Awaited(u)'
               PROVE  q > oldest /\ thread'[u].sent
    BY <1>t, <1>1, <1>2, <1>3, <1>5 DEF Ahead
  <2>1. u = t
    BY <1>3
  <2>2. thread'[t].sent
    BY <1>4, <2>1 DEF Awaited, BucketsOf
  <2> QED  BY <1>1, <1>2, <1>5, <2>1, <2>2
<1>15. PlansAll(d)'
  <2> SUFFICES ASSUME NEW u \in Thread, u[1] = d, thread'[u].todo # {}, NEW b \in Bucket,
                      Sampled(d, b), Living(d, b), b \notin Awaited(u)'
               PROVE  Early(u, b)' \/ Late(u, b)'
    BY <1>6 DEF PlansAll
  <2>1. u = t
    <3>1. u # t => Free(thread[u]) /\ thread'[u] = thread[u]
      BY <1>0, NotUploadingIsFree DEF TidyInv, OneUploads, Judges, Others
    <3> QED  BY <3>1 DEF Free
  <2>2. CASE b \in chunk
    BY <1>1, <1>10, <2>1, <2>2 DEF Early
  <2>3. CASE b \notin chunk
    <3>1. Early(t, b) \/ Late(t, b)
      BY <1>0, <1>1, <2>1, <2>3 DEF PlansAll
    <3>2. CASE Early(t, b)
      <4>1. r.watermark # None /\ b <= r.watermark /\ \A q \in Awaited(t) : b < q
        BY <3>2 DEF Early
      <4>2. w # None
        BY <1>1, <1>m, <1>t, <4>1
      <4>3. b <= w
        BY <1>9, <1>t, <4>1, <4>2
      <4> QED  BY <1>1, <2>1, <4>1, <4>2, <4>3 DEF Early
    <3>3. CASE Late(t, b)
      <4>1. /\ r.watermark # None => r.watermark < b
            /\ \A c \in mine : c < b
            /\ \A c \in Awaited(t) : c < b
        BY <3>3 DEF Late, mine
      <4>2. w # None => w < b
        BY <1>1, <4>1
      <4>3. \A c \in Held(rows[d])' : c < b
        BY <1>0, <4>1 DEF mine, Held
      <4> QED  BY <1>1, <2>1, <4>1, <4>2, <4>3 DEF Late
    <3> QED  BY <3>1, <3>2, <3>3
  <2> QED  BY <2>2, <2>3
<1>16. Inserted(d)'
  BY <1>3, <1>4 DEF Inserted
<1> QED  BY <1>11, <1>12, <1>13, <1>14, <1>15, <1>16 DEF Recorded

-------------------------------------------------------------------------------
(* Rows that expire or go, and a bucket that is sampled while it lasts. *)
LEMMA CalmValues ==
  ASSUME HistoryInv, TidyInv, NEW d \in Device, Recorded(d), Valued(d), Calm(d)
  PROVE  Valued(d)'
<1> DEFINE r == record[d]
<1>t. /\ now \in Nat /\ Collector[d] \in Nat /\ Slack \in Nat /\ None \notin Nat
      /\ r.watermark \in Bucket \cup {None}
      /\ r.previous # None => r.previous[1] \in Bucket /\ r.previous[2] \in Nat \ {0}
      /\ \A b \in Bucket : /\ b \in Nat /\ samples[d][b] \in Nat /\ rows[d][b] \in Nat
                           /\ rows[d][b] <= samples[d][b]
                           /\ samples[d][b] > 0 => b <= now
  BY RecordedParts
<1>0. /\ HeldIsLatest(d) /\ SentIsLatest(d) /\ HeldAsSent(d) /\ MarksStand(d)
      /\ now' \in {now, now + 1} /\ Grows(d) /\ Fade(d)
      /\ record'[d].watermark = r.watermark /\ record'[d].previous = r.previous
  BY DEF Recorded, Valued, Calm, MarksStay
<1>l. \A b \in Nat : Living(d, b)' => Living(d, b)
  BY <1>0, <1>t DEF Living, Live
<1>a. ASSUME NEW u \in Thread, u[1] = d, thread'[u].todo # {} \/ thread'[u].pc = "judge"
      PROVE  thread'[u] = thread[u] /\ Awaited(u)' = Awaited(u)
  BY <1>a DEF Calm, Light, Awaited
<1>f. \A b \in Bucket : rows'[d][b] = rows[d][b] \/ rows'[d][b] = 0
  BY <1>0 DEF Fade
<1>g. \A c : c \in Held(rows[d])' => c \in Held(rows[d]) /\ c \in Bucket /\ rows'[d][c] = rows[d][c]
  BY <1>f, <1>t DEF Held
(* what is newest stays so, and the bucket that is sampled is *)
<1>1. \A b : IsNewest(d, b) => IsNewest(d, b)'
  BY <1>0, <1>g DEF IsNewest
<1>2. /\ IsNewest(d, now)
      /\ \A u \in Thread : u[1] = d => \A q \in Awaited(u) : q <= now
  <2>1. r.watermark # None => r.watermark <= now
    BY <1>0, <1>t DEF MarksStand, Sampled
  <2>2. \A c \in Held(rows[d]) : c <= now
    BY <1>t DEF Held
  <2> QED  BY <2>1, <2>2, AwaitedSampled DEF IsNewest
<1>3. HeldIsLatest(d)'
  <2> SUFFICES ASSUME NEW b \in Held(rows[d])', Living(d, b)', rows'[d][b] # samples'[d][b]
               PROVE  /\ IsNewest(d, b)'
                      /\ \A u \in Thread : u[1] = d =>
                           \A q \in Awaited(u)' : q <= b \/ <<b, samples'[d][b]>> \in thread'[u].todo
    BY DEF HeldIsLatest
  <2>0. \A u \in Thread : u[1] = d => \A q \in Awaited(u)' : q \in Awaited(u) /\ thread'[u] = thread[u]
    BY <1>a DEF Awaited, BucketsOf
  <2>1. b \in Held(rows[d]) /\ b \in Bucket /\ rows'[d][b] = rows[d][b] /\ Living(d, b)
    BY <1>g, <1>l, <1>t
  <2>2. CASE samples'[d][b] = samples[d][b]
    BY <1>0, <1>1, <2>0, <2>1, <2>2 DEF HeldIsLatest
  <2>3. CASE b = now
    BY <1>1, <1>2, <2>0, <2>3
  <2> QED  BY <1>0, <2>1, <2>2, <2>3 DEF Grows
<1>4. SentIsLatest(d)'
  <2> SUFFICES ASSUME NEW u \in Thread, u[1] = d, NEW p \in thread'[u].todo
               PROVE  /\ (r.previous # None /\ r.previous[1] = p[1]) => r.previous[2] <= p[2]
                      /\ p[2] = samples'[d][p[1]] \/ (IsNewest(d, p[1])' /\ \A q \in Awaited(u)' : q <= p[1])
    BY <1>0 DEF SentIsLatest
  <2>1. p \in thread[u].todo /\ Awaited(u)' = Awaited(u) /\ p[1] \in Awaited(u)
    BY <1>a DEF Awaited, BucketsOf
  <2>2. p[1] \in Bucket
    BY <2>1, AwaitedSampled
  <2>3. CASE samples'[d][p[1]] = samples[d][p[1]]
    BY <1>0, <1>1, <2>1, <2>3 DEF SentIsLatest
  <2>4. CASE p[1] = now
    BY <1>0, <1>1, <1>2, <2>1, <2>4 DEF SentIsLatest
  <2> QED  BY <1>0, <2>2, <2>3, <2>4 DEF Grows
<1>5. HeldAsSent(d)'
  <2>1. \A p : p[1] \in Bucket /\ AtLeast(d, p) => AtLeast(d, p)'
    BY <1>f DEF AtLeast
  <2>2. r.previous # None => AtLeast(d, r.previous)'
    BY <1>0, <1>t, <2>1 DEF HeldAsSent
  <2>3. ASSUME NEW u \in Thread, u[1] = d, thread'[u].pc = "judge", NEW p \in Chunk(thread'[u].todo)
        PROVE  AtLeast(d, p)'
    <3>1. thread'[u] = thread[u] /\ AtLeast(d, p)
      BY <1>0, <1>a, <2>3 DEF HeldAsSent
    <3>2. p \in Point
      BY <2>3, <3>1, UploadParts
    <3> QED  BY <2>1, <3>1, <3>2 DEF Point
  <2> QED  BY <1>0, <2>2, <2>3 DEF HeldAsSent, AtLeast
<1> QED  BY <1>3, <1>4, <1>5 DEF Valued

(* A record that is forgotten, and a chunk that is given up. *)
LEMMA StopValues ==
  ASSUME NEW d \in Device, Valued(d), Forgets(d) \/ GivesUp(d)
  PROVE  Valued(d)'
<1>1. /\ NoneSends(d) /\ UNCHANGED <<now, samples, rows>>
      /\ record'[d].watermark \in {None, record[d].watermark}
      /\ record'[d].previous \in {None, record[d].previous}
  BY DEF Forgets, GivesUp, MarksStay
<1>2. \A t \in Thread : t[1] = d => thread'[t].todo = {} /\ Awaited(t)' = {} /\ thread'[t].pc # "judge"
  BY <1>1 DEF NoneSends, Awaited, BucketsOf
<1>3. HeldIsLatest(d)'
  BY <1>1, <1>2 DEF Valued, HeldIsLatest, IsNewest, Living, Live
<1>4. SentIsLatest(d)' /\ HeldAsSent(d)'
  BY <1>1, <1>2 DEF Valued, SentIsLatest, HeldAsSent, AtLeast
<1> QED  BY <1>3, <1>4 DEF Valued

(* A plan has the newest bucket again when it was sampled since. *)
LEMMA PlansValues ==
  ASSUME Whole, HistoryInv, TidyInv, NEW t \in Thread, Recorded(t[1]), Valued(t[1]), Plans(t)
  PROVE  Valued(t[1])'
<1> DEFINE d == t[1]
           r == record[d]
<1>t. /\ d \in Device
      /\ now \in Nat /\ Collector[d] \in Nat /\ Slack \in Nat /\ None \notin Nat
      /\ r.previous # None => r.previous[1] \in Bucket /\ r.previous[2] \in Nat \ {0}
      /\ \A b \in Bucket : /\ b \in Nat /\ samples[d][b] \in Nat /\ rows[d][b] \in Nat
                           /\ rows[d][b] <= samples[d][b]
  BY ThreadParts, RecordedParts DEF HistoryInv
<1>0. /\ HeldIsLatest(d) /\ HeldAsSent(d) /\ MarksStand(d)
      /\ UNCHANGED <<now, samples, rows, record>> /\ Uploading(t) /\ thread[t] \in Work
  BY ThreadParts DEF Recorded, Valued, Plans, Uploading, HistoryInv
<1>1. /\ thread'[t].pc = "put" /\ thread'[t].todo = Planned(d)
      /\ \A u \in Thread \ {t} : thread'[u] = thread[u]
  BY <1>0 DEF Plans, Others, Work
<1>2. \A u \in Thread : (u[1] = d /\ u # t) =>
        thread'[u].todo = {} /\ Awaited(u)' = {} /\ thread'[u].pc # "judge"
  BY <1>0, <1>1, NotUploadingIsFree DEF TidyInv, OneUploads, Free, Uploading, Awaited, BucketsOf
<1>3. \A b : (IsNewest(d, b)' <=> IsNewest(d, b)) /\ (Living(d, b)' <=> Living(d, b))
  BY <1>0 DEF IsNewest, Living, Live
<1>4. HeldIsLatest(d)'
  <2> SUFFICES ASSUME NEW b \in Held(rows[d]), Living(d, b), rows[d][b] # samples[d][b]
               PROVE  IsNewest(d, b) /\ <<b, samples[d][b]>> \in Planned(d)
    BY <1>0, <1>1, <1>2, <1>3 DEF HeldIsLatest
  <2>1. IsNewest(d, b)
    BY <1>0 DEF HeldIsLatest
  <2>2. b \in Bucket /\ rows[d][b] > 0 /\ rows[d][b] < samples[d][b] /\ b \in Held(samples[d])
    BY <1>t DEF Held
  <2>3. b >= now - Declared(d)
    <3>1. Declared(d) = Collector[d]
      BY <1>t, OneSpan DEF TidyInv
    <3> QED  BY <1>t, <2>2, <3>1 DEF Living, Live
  <2>4. r.watermark # None => b >= r.watermark
    <3>1. r.watermark \in Nat \cup {None}
      BY <1>t, RecordedParts
    <3> QED  BY <1>t, <2>1, <2>2, <3>1 DEF IsNewest
  <2>5. ASSUME <<b, samples[d][b]>> = r.previous PROVE FALSE
    <3>1. <<b, samples[d][b]>> \in Point
      BY <1>t, <2>2 DEF HistoryInv, TypeOK, Point
    <3>2. r.previous # None /\ r.previous[1] = b /\ r.previous[2] = samples[d][b]
      BY <2>5, <3>1, NoPointIsNone
    <3> QED  BY <1>0, <1>t, <2>2, <3>2 DEF HeldAsSent, AtLeast
  <2> QED  BY <2>1, <2>2, <2>3, <2>4, <2>5 DEF Planned
<1>5. SentIsLatest(d)'
  <2> SUFFICES ASSUME NEW p \in Planned(d)
               PROVE  /\ (r.previous # None /\ r.previous[1] = p[1]) => r.previous[2] <= p[2]
                      /\ p[2] = samples[d][p[1]]
    BY <1>0, <1>1, <1>2 DEF SentIsLatest
  <2>1. p[2] = samples[d][p[1]]
    BY DEF Planned
  <2> QED  BY <1>0, <1>t, <2>1 DEF MarksStand
<1>6. HeldAsSent(d)'
  BY <1>0, <1>1, <1>2 DEF HeldAsSent, AtLeast
<1> QED  BY <1>4, <1>5, <1>6 DEF Valued

LEMMA InsertsValues ==
  ASSUME HistoryInv, HistoryInv', TidyInv, NEW t \in Thread, Recorded(t[1]), Valued(t[1]), Inserts(t)
  PROVE  Valued(t[1])'
<1> DEFINE d == t[1]
           r == record[d]
           chunk == Chunk(thread[t].todo)
<1>t. /\ d \in Device /\ None \notin Nat
      /\ r.previous # None => r.previous[1] \in Bucket /\ r.previous[2] \in Nat \ {0}
      /\ \A b \in Bucket : /\ b \in Nat /\ samples[d][b] \in Nat /\ rows[d][b] \in Nat
                           /\ rows[d][b] <= samples[d][b] /\ rows'[d][b] \in Nat
  BY ThreadParts, RecordedParts DEF HistoryInv, TypeOK
<1>0. /\ HeldIsLatest(d) /\ SentIsLatest(d) /\ HeldAsSent(d)
      /\ UNCHANGED <<now, samples, record>> /\ Uploading(t) /\ thread[t] \in Work
      /\ thread[t].pc = "put"
  BY ThreadParts DEF Valued, Inserts, Uploading, HistoryInv
<1>1. /\ thread'[t].pc = "judge" /\ thread'[t].todo = thread[t].todo
      /\ \A u \in Thread \ {t} : thread'[u] = thread[u]
  BY <1>0 DEF Inserts, Others, Work
<1>2. \A u \in Thread : Awaited(u)' = Awaited(u) /\ thread'[u].todo = thread[u].todo
  BY <1>1 DEF Awaited
<1>3. /\ thread[t].todo \in SUBSET Point /\ chunk \in SUBSET thread[t].todo
      /\ \A p \in thread[t].todo : p[2] <= samples[d][p[1]]
      /\ BucketsOf(chunk) \subseteq Awaited(t)
  BY <1>0, UploadParts DEF Awaited, BucketsOf
<1>4. \A u \in Thread : (u[1] = d /\ u # t) => Awaited(u) = {} /\ thread[u].todo = {} /\ thread[u].pc # "judge"
  BY <1>0, NotUploadingIsFree DEF TidyInv, OneUploads, Free, Uploading, Awaited, BucketsOf
<1>5. CASE rows'[d] = NoSamples
  <2>1. Held(rows[d])' = {} /\ \A b \in Bucket : rows'[d][b] = 0
    BY <1>5 DEF Held, NoSamples
  <2>2. HeldIsLatest(d)'
    BY <2>1 DEF HeldIsLatest
  <2>3. SentIsLatest(d)'
    BY <1>0, <1>2, <2>1 DEF SentIsLatest, IsNewest
  <2>4. \A p : p[1] \in Bucket => AtLeast(d, p)'
    BY <2>1 DEF AtLeast
  <2>5. HeldAsSent(d)'
    <3>1. ASSUME record'[d].previous # None PROVE AtLeast(d, record[d].previous)'
      <4>1. record'[d].previous = r.previous /\ r.previous[1] \in Bucket
        BY <1>t, <1>0, <3>1
      <4> QED  BY <2>1, <4>1 DEF AtLeast
    <3>2. \A p \in chunk : p[1] \in Bucket
      BY <1>3 DEF Point
    <3> QED  BY <1>0, <1>1, <1>4, <2>4, <3>1, <3>2 DEF HeldAsSent, AtLeast
  <2> QED  BY <2>2, <2>3, <2>5 DEF Valued
<1>6. CASE Puts(t)
  <2>1. /\ \A p \in chunk : rows'[d][p[1]] >= p[2]
        /\ \A b \in Bucket : /\ rows'[d][b] >= rows[d][b] /\ rows'[d][b] <= samples[d][b]
                             /\ b \notin BucketsOf(chunk) => rows'[d][b] = rows[d][b]
    BY <1>6 DEF Puts
  <2>2. \A c \in Held(rows[d])' : c \in Bucket /\ (c \in Held(rows[d]) \/ c \in BucketsOf(chunk))
    BY <2>1 DEF Held
  <2>3. ASSUME NEW b \in Nat, IsNewest(d, b), \A q \in Awaited(t) : q <= b PROVE IsNewest(d, b)'
    BY <1>0, <1>3, <2>2, <2>3 DEF IsNewest
  <2>4. HeldIsLatest(d)'
    <3> SUFFICES ASSUME NEW b \in Held(rows[d])', Living(d, b), rows'[d][b] # samples[d][b]
                 PROVE  /\ IsNewest(d, b)'
                        /\ \A q \in Awaited(t) : q <= b \/ <<b, samples[d][b]>> \in thread[t].todo
      BY <1>0, <1>2, <1>4 DEF HeldIsLatest, Living, Live
    <3>1. b \in Bucket /\ b \in Nat
      BY <1>t, <2>2
    <3>2. CASE b \in BucketsOf(chunk)
      <4>1. PICK p \in chunk : p[1] = b
        BY <3>2 DEF BucketsOf
      <4>2. p[2] # samples[d][b] /\ p \in thread[t].todo
        <5>1. p[2] \in Nat /\ rows'[d][b] >= p[2] /\ rows'[d][b] <= samples[d][b] /\ p \in thread[t].todo
          BY <1>3, <2>1, <3>1, <4>1 DEF Point
        <5> QED  BY <1>t, <3>1, <5>1
      <4>3. IsNewest(d, b) /\ \A q \in Awaited(t) : q <= b
        BY <1>0, <4>1, <4>2 DEF SentIsLatest
      <4> QED  BY <2>3, <3>1, <4>3
    <3>3. CASE b \notin BucketsOf(chunk)
      <4>1. rows'[d][b] = rows[d][b] /\ b \in Held(rows[d])
        BY <2>1, <2>2, <3>1, <3>3
      <4>2. /\ IsNewest(d, b)
            /\ \A q \in Awaited(t) : q <= b \/ <<b, samples[d][b]>> \in thread[t].todo
        BY <1>0, <4>1 DEF HeldIsLatest
      <4>3. ASSUME NEW c \in BucketsOf(chunk) PROVE c <= b
        <5>1. CASE <<b, samples[d][b]>> \in thread[t].todo
          <6>1. PICK p \in chunk : p[1] = c
            BY <4>3 DEF BucketsOf
          <6>2. <<b, samples[d][b]>> \notin chunk
            BY <3>3 DEF BucketsOf
          <6>3. p[1] < <<b, samples[d][b]>>[1]
            BY <1>3, <5>1, <6>2, ChunkIsFirst
          <6>4. c \in Nat
            BY <1>3, <4>3, AwaitedSampled DEF Bucket
          <6> QED  BY <3>1, <6>1, <6>3, <6>4
        <5> QED  BY <1>3, <4>2, <4>3, <5>1
      <4>4. IsNewest(d, b)'
        BY <1>0, <2>2, <4>2, <4>3 DEF IsNewest
      <4> QED  BY <4>2, <4>4
    <3> QED  BY <3>2, <3>3
  <2>5. SentIsLatest(d)'
    <3> SUFFICES ASSUME NEW p \in thread[t].todo
                 PROVE  /\ (r.previous # None /\ r.previous[1] = p[1]) => r.previous[2] <= p[2]
                        /\ p[2] = samples[d][p[1]] \/ (IsNewest(d, p[1])' /\ \A q \in Awaited(t) : q <= p[1])
      BY <1>0, <1>2, <1>4 DEF SentIsLatest
    <3>1. p[1] \in Nat
      BY <1>3 DEF Point, Bucket
    <3> QED  BY <1>0, <2>3, <3>1 DEF SentIsLatest
  <2>6. HeldAsSent(d)'
    <3>1. ASSUME r.previous # None PROVE AtLeast(d, r.previous)'
      <4> DEFINE b == r.previous[1]
      <4>0. b \in Bucket /\ r.previous[2] \in Nat /\ UNCHANGED record
        BY <1>0, <1>t, <3>1
      <4>1. CASE b \in Held(rows[d])
        BY <1>0, <1>t, <2>1, <3>1, <4>0, <4>1 DEF HeldAsSent, AtLeast, Held
      <4>2. CASE b \in BucketsOf(chunk)
        <5>1. PICK p \in chunk : p[1] = b
          BY <4>2 DEF BucketsOf
        <5>2. p[2] \in Nat /\ r.previous[2] <= p[2] /\ rows'[d][b] >= p[2]
          BY <1>0, <1>3, <2>1, <3>1, <5>1 DEF SentIsLatest, Point
        <5> QED  BY <1>t, <4>0, <5>2 DEF AtLeast
      <4>3. CASE b \notin Held(rows[d])'
        BY <1>t, <4>0, <4>3 DEF Held, AtLeast
      <4> QED  BY <2>2, <4>1, <4>2, <4>3
    <3>2. \A p \in chunk : AtLeast(d, p)'
      BY <2>1 DEF AtLeast
    <3> QED  BY <1>0, <1>1, <1>4, <3>1, <3>2 DEF HeldAsSent, AtLeast
  <2> QED  BY <2>4, <2>5, <2>6 DEF Valued
<1> QED  BY <1>5, <1>6 DEF Inserts

LEMMA JudgesValues ==
  ASSUME HistoryInv, TidyInv, NEW t \in Thread, Recorded(t[1]), Valued(t[1]), Judges(t)
  PROVE  Valued(t[1])'
<1> DEFINE d == t[1]
           r == record[d]
           chunk == Chunk(thread[t].todo)
           mine == Held(rows[d])
           last == Greatest(BucketsOf(chunk))
           w == record'[d].watermark
           previous == record'[d].previous
<1>t. /\ d \in Device /\ None \notin Nat
      /\ r.watermark \in Bucket \cup {None}
      /\ \A b \in Bucket : /\ b \in Nat /\ samples[d][b] \in Nat /\ rows[d][b] \in Nat
                           /\ rows[d][b] <= samples[d][b]
  BY ThreadParts, RecordedParts DEF HistoryInv
<1>0. /\ HeldIsLatest(d) /\ SentIsLatest(d) /\ HeldAsSent(d)
      /\ UNCHANGED <<now, samples, rows>> /\ Uploading(t) /\ thread[t] \in Work
      /\ thread[t].pc = "judge"
  BY ThreadParts DEF Valued, Judges, Uploading, HistoryInv
<1>1. /\ thread'[t].todo \subseteq thread[t].todo \ chunk /\ thread'[t].pc # "judge"
      /\ thread'[t].todo = {} \/ thread'[t].todo = thread[t].todo \ chunk
      /\ \A u \in Thread \ {t} : thread'[u] = thread[u]
  BY <1>0 DEF Judges, Others, Light, Work
<1>3. /\ thread[t].todo \in SUBSET Point /\ chunk \in SUBSET thread[t].todo
      /\ \A p \in thread[t].todo : p[2] <= samples[d][p[1]]
  BY <1>0, UploadParts
<1>4. \A u \in Thread : (u[1] = d /\ u # t) =>
        thread'[u].todo = {} /\ Awaited(u)' = {} /\ thread'[u].pc # "judge"
  BY <1>0, <1>1, NotUploadingIsFree DEF TidyInv, OneUploads, Free, Uploading, Awaited, BucketsOf
<1>5. /\ w = IF mine = {} THEN r.watermark
             ELSE IF r.watermark = None \/ Greatest(mine) > r.watermark
                  THEN Greatest(mine) ELSE r.watermark
      /\ mine # {} => Greatest(mine) \in mine
  BY JudgedMarks
<1>6. previous \in chunk
  BY JudgedMarks
<1>7. ASSUME NEW b \in Nat, IsNewest(d, b) PROVE IsNewest(d, b)'
  BY <1>0, <1>5, <1>7 DEF IsNewest
<1>8. Awaited(t)' \subseteq Awaited(t)
  BY <1>1 DEF Awaited, BucketsOf
<1>9. HeldIsLatest(d)'
  <2> SUFFICES ASSUME NEW b \in Held(rows[d]), Living(d, b), rows[d][b] # samples[d][b]
               PROVE  /\ IsNewest(d, b)'
                      /\ \A q \in Awaited(t)' : q <= b \/ <<b, samples[d][b]>> \in thread'[t].todo
    BY <1>0, <1>4 DEF HeldIsLatest, Living, Live
  <2>1. /\ IsNewest(d, b) /\ b \in Bucket /\ rows[d][b] > 0
        /\ \A q \in Awaited(t) : q <= b \/ <<b, samples[d][b]>> \in thread[t].todo
    BY <1>0 DEF HeldIsLatest, Held
  <2>2. <<b, samples[d][b]>> \notin chunk
    <3> SUFFICES ASSUME <<b, samples[d][b]>> \in chunk PROVE FALSE
      OBVIOUS
    <3>1. AtLeast(d, <<b, samples[d][b]>>)
      BY <1>0 DEF HeldAsSent
    <3> QED  BY <1>t, <2>1, <3>1 DEF AtLeast
  <2>3. ASSUME NEW q \in Awaited(t)' PROVE q <= b \/ <<b, samples[d][b]>> \in thread'[t].todo
    <3>1. thread'[t].todo = thread[t].todo \ chunk
      BY <1>1, <2>3 DEF Awaited, BucketsOf
    <3> QED  BY <1>8, <2>1, <2>2, <2>3, <3>1
  <2> QED  BY <1>7, <1>t, <2>1, <2>3
<1>10. SentIsLatest(d)'
  <2> SUFFICES ASSUME NEW p \in thread'[t].todo
               PROVE  /\ previous[1] # p[1]
                      /\ p[2] = samples[d][p[1]] \/ (IsNewest(d, p[1])' /\ \A q \in Awaited(t)' : q <= p[1])
    BY <1>0, <1>4 DEF SentIsLatest
  <2>1. p \in thread[t].todo \ chunk /\ p[1] \in Nat
    BY <1>1, <1>3 DEF Point, Bucket
  <2>2. previous[1] < p[1] /\ previous[1] \in Nat
    <3>1. previous[1] \in Nat
      BY <1>3, <1>6 DEF Point, Bucket
    <3> QED  BY <1>3, <1>6, <2>1, <3>1, ChunkIsFirst
  <2>3. p[2] = samples[d][p[1]] \/ (IsNewest(d, p[1]) /\ \A q \in Awaited(t) : q <= p[1])
    BY <1>0, <2>1 DEF SentIsLatest
  <2> QED  BY <1>7, <1>8, <2>1, <2>2, <2>3
<1>11. HeldAsSent(d)'
  <2>1. AtLeast(d, previous)
    BY <1>0, <1>6 DEF HeldAsSent
  <2> QED  BY <1>0, <1>1, <1>4, <2>1 DEF HeldAsSent, AtLeast
<1> QED  BY <1>9, <1>10, <1>11 DEF Valued

LEMMA RecordNext ==
  Whole /\ HistoryInv /\ HistoryInv' /\ OffHoldsNothing /\ RecordInv /\ [Next]_vars => RecordInv'
<1> SUFFICES ASSUME Whole, HistoryInv, HistoryInv', OffHoldsNothing, RecordInv, [Next]_vars
             PROVE  RecordInv'
  OBVIOUS
<1>1. TidyInv /\ \A d \in Device : Recorded(d) /\ Valued(d)
  BY DEF RecordInv
<1>2. TidyStep /\ TidyInv'
  BY <1>1, TidyNext
<1>3. ASSUME NEW d \in Device PROVE Recorded(d)'
  BY <1>1, <1>2, CalmKeeps, ForgetsKeeps, GivesUpKeeps, PlansKeeps, InsertsKeeps, JudgesKeeps
     DEF TidyStep, Step
<1>4. ASSUME NEW d \in Device PROVE Valued(d)'
  BY <1>1, <1>2, CalmValues, StopValues, PlansValues, InsertsValues, JudgesValues DEF TidyStep, Step
<1> QED  BY <1>2, <1>3, <1>4 DEF RecordInv

(* Only the answer to a chunk settles what the record says. *)
LEMMA SettlesByJudging ==
  ASSUME HistoryInv, TidyInv, [Next]_vars, NEW t \in Thread, Settles(t)
  PROVE  Judge(t)
<1>t. thread \in [Thread -> Work] /\ ~Free(thread[t])
  BY DEF HistoryInv, TypeOK, Settles, Free
<1>0. thread'[t] # thread[t] /\ ~UNCHANGED record /\ thread[t].pc = "judge"
  BY DEF Settles
<1>1. ASSUME NEW u \in Thread,
             \/ Collect(u) \/ Get(u) \/ PutSettings(u) \/ CompareAndSet(u)
             \/ SettingsAreLost(u) \/ StoreSettings(u) \/ Note(u)
      PROVE  FALSE
  BY <1>t, <1>0, <1>1, SettingsAreFree
<1>2. ASSUME NEW u \in Thread, Plan(u) \/ UploadChunk(u) PROVE FALSE
  <2>1. u # t
    BY <1>0, <1>2 DEF Plan, UploadChunk
  <2>2. thread'[t] = thread[t]
    BY <1>t, <1>2, <2>1 DEF Plan, UploadChunk, Refuse, EndUpload, Become
  <2> QED  BY <1>0, <2>2
<1>3. ASSUME NEW u \in Thread, Judge(u), u # t PROVE FALSE
  <2>1. thread'[t] = thread[t]
    BY <1>t, <1>3 DEF Judge, Refuse, EndUpload, Become
  <2> QED  BY <1>0, <2>1
<1>4. ASSUME NEW u \in Thread, Backfill(u) \/ AfterCollection(u) \/ ChunkIsLost(u) PROVE FALSE
  BY <1>0, <1>4 DEF Backfill, AfterCollection, ChunkIsLost, deviceVars
<1>5. CASE Edit \/ Sweep \/ Tick \/ (\E d \in Device : Restart(d)) \/ UNCHANGED vars
  BY <1>0, <1>5 DEF Edit, Sweep, Tick, Restart, vars, deviceVars
<1> QED  BY <1>1, <1>2, <1>3, <1>4, <1>5 DEF Next, SettingsNext, UploadNext

LEMMA HonestStep ==
  Whole /\ HistoryInv /\ HistoryInv' /\ OffHoldsNothing /\ RecordInv /\ [Next]_vars =>
    \A t \in Thread : Settles(t) =>
      \A b \in Bucket : b >= record'[t[1]].oldest /\ WontBeSent(t, b)
                        => rows[t[1]][b] = samples[t[1]][b]
<1> SUFFICES ASSUME Whole, HistoryInv, HistoryInv', OffHoldsNothing, RecordInv, [Next]_vars,
                    NEW t \in Thread, Settles(t), NEW b \in Bucket,
                    b >= record'[t[1]].oldest, WontBeSent(t, b)
             PROVE  rows[t[1]][b] = samples[t[1]][b]
  OBVIOUS
<1> DEFINE d == t[1]
<1>1. TidyInv /\ TidyInv' /\ d \in Device /\ Recorded(d) /\ Valued(d)'
  BY ThreadParts, RecordNext DEF RecordInv, HistoryInv
<1>2. Judge(t)
  BY <1>1, SettlesByJudging
<1>3. Judges(t)
  <2>1. record'[d].watermark # None
    BY DEF Settles
  <2> QED  BY <1>1, <1>2, <2>1, JudgeTidy DEF Forgets
<1>4. Held(rows[d]) # {}
  BY <1>3 DEF Judges, Settles, RowsLost
<1>5. Declared(d)' = Collector[d]
  <2>1. record'[d].adopted = None
    BY <1>1 DEF TidyInv, AdoptsNothing
  <2> QED  BY <2>1 DEF Declared
<1>6. Sampled(d, b) /\ Living(d, b) /\ b \notin Awaited(t)' /\ b < record'[d].watermark
  BY <1>5 DEF WontBeSent, Sampled, Living, Awaited
<1>7. record'[d].oldest <= b /\ b <= record'[d].watermark
  <2>1. record'[d] \in Record /\ record'[d].watermark # None
    BY <1>1 DEF HistoryInv, TypeOK, Settles
  <2>2. record'[d].oldest # None
    <3>1. /\ Least(BucketsOf(Chunk(thread[t].todo))) \in Awaited(t)
          /\ record'[d].oldest = Reseeded(record[d], Chunk(thread[t].todo), Collector[d])
      BY <1>1, <1>3, JudgedMarks
    <3>2. Least(BucketsOf(Chunk(thread[t].todo))) # None
      BY <1>1, <3>1, AwaitedSampled DEF Bucket
    <3> QED  BY <3>1, <3>2 DEF Reseeded
  <2> QED  BY <1>6, <2>1, <2>2 DEF Record, Bucket
<1>8. Kept(d, b)
  BY <1>1, <1>3, <1>4, <1>6, <1>7, JudgedIsHonest
<1> SUFFICES ASSUME rows[d][b] # samples[d][b] PROVE FALSE
  OBVIOUS
<1>9. UNCHANGED <<now, samples, rows>> /\ b \in Held(rows[d])'
  BY <1>3, <1>8 DEF Judges, Kept, Held
<1>10. IsNewest(d, b)'
  BY <1>1, <1>6, <1>9 DEF Valued, HeldIsLatest, Living, Live
<1>11. record'[d].watermark # None /\ record'[d].watermark \in Nat /\ b \in Nat
  <2>1. record'[d] \in Record
    BY <1>1 DEF HistoryInv, TypeOK
  <2>2. record'[d].watermark # None
    BY DEF Settles
  <2> QED  BY <2>1, <2>2 DEF Record, Bucket
<1> QED  BY <1>6, <1>10, <1>11 DEF IsNewest

(***************************************************************************)
(* The record does not lie: of devices that declare the same window, and   *)
(* uploads that are neither cut, nor see the switch turned while they send *)
(* again, what a device will not send again is on the Relay with its       *)
(* latest sample, from the oldest bucket of its record to the watermark,   *)
(* however often buckets are sampled while they last.                      *)
(***************************************************************************)
THEOREM WhatIsNotSentIsHeld == ASSUME Whole PROVE Spec => RecordIsHonest
<1>1. HistoryInv /\ HistoryInv' /\ OffHoldsNothing /\ RecordInv /\ [Next]_vars => RecordInv'
  BY RecordNext
<1>2. HistoryInv /\ HistoryInv' /\ OffHoldsNothing /\ RecordInv /\ [Next]_vars =>
        [\A t \in Thread : Settles(t) =>
           \A b \in Bucket : b >= record'[t[1]].oldest /\ WontBeSent(t, b)
                             => rows[t[1]][b] = samples[t[1]][b]]_vars
  BY HonestStep
<1> QED
  BY <1>1, <1>2, RecordInit, HistoryInvariant, OffIsEmpty, PTL DEF Spec, RecordIsHonest

-------------------------------------------------------------------------------
(***************************************************************************)
(* A switch that is turned on and stays on: then rows go only when they    *)
(* expire, and what expires for the shortest window has for all.           *)
(***************************************************************************)
StaysOn == settings.sync => settings'.sync

(* Whoever acts on the switch being on has read a document of which it was. *)
SwitchWasOn ==
  /\ \A d \in Device : cached[d] # None /\ cached[d].sync => settings.sync
  /\ \A t \in Thread :
       /\ thread[t].pc \in {"read", "answered", "note"} /\ thread[t].doc.sync => settings.sync
       /\ thread[t].pc \in {"owed", "plan", "put", "judge"} => settings.sync

Shortest(m) == m \in Spans /\ \A s \in Spans : m <= s

(* What the record takes for evidence is on the Relay while it is live. *)
EvidenceStands ==
  \A m \in Nat : Shortest(m) =>
    \A d \in Device :
      /\ \A b \in {record[d].oldest, record[d].watermark} \cap Bucket : Live(b, m) => rows[d][b] > 0
      /\ \A t \in Thread : t[1] = d /\ thread[t].pc = "judge" =>
           \A b \in BucketsOf(Chunk(thread[t].todo)) : Live(b, m) => rows[d][b] > 0

EvidenceInv == SwitchWasOn /\ EvidenceStands

LEMMA EvidenceInit == Init => EvidenceInv
<1> SUFFICES ASSUME Init PROVE EvidenceInv
  OBVIOUS
<1>1. SwitchWasOn
  BY DEF Init, SwitchWasOn, Resting
<1>2. None \notin Bucket
  BY DEF Bucket
<1>3. EvidenceStands
  BY <1>2 DEF Init, EvidenceStands, Unsynced, Resting
<1> QED  BY <1>1, <1>3 DEF EvidenceInv

(* The switch, as the threads know it. *)
LEMMA SwitchStep ==
  ASSUME HistoryInv, HistoryInv', ReadDocumentsStand, SwitchWasOn, [Next]_vars, StaysOn
  PROVE  SwitchWasOn'
<1>t. /\ TypeOK /\ thread \in [Thread -> Work] /\ cached \in [Device -> Document \cup {None}]
      /\ \A t \in Thread : t[1] \in Device /\ thread[t].then \in {"idle", "after"}
                           /\ AfterSettings(t) \in {"idle", "after"}
  BY ThreadParts DEF HistoryInv, TypeOK, AfterSettings, Work
<1>k. ASSUME UNCHANGED cached,
             \A t \in Thread :
               \/ thread'[t] = thread[t]
               \/ thread'[t].pc \in {"read", "answered", "note"} /\ thread'[t].doc = settings'
               \/ thread'[t].pc \in {"owed", "plan", "put", "judge"} /\ settings.sync
               \/ thread'[t].pc \in {"idle", "get", "after"}
      PROVE  SwitchWasOn'
  BY <1>k DEF SwitchWasOn, StaysOn
<1>1. ASSUME NEW t \in Thread, Collect(t) \/ Get(t) \/ PutSettings(t) \/ CompareAndSet(t)
      PROVE  SwitchWasOn'
  <2>1. UNCHANGED cached /\ \A u \in Thread \ {t} : thread'[u] = thread[u]
    BY <1>1, <1>t DEF Collect, Get, PutSettings, CompareAndSet, Goto, deviceVars
  <2>2. \/ thread'[t].pc \in {"read", "answered", "note"} /\ thread'[t].doc = settings'
        \/ thread'[t].pc \in {"idle", "get", "after"}
    <3>1. CASE Collect(t)
      BY <1>t, <3>1 DEF Collect, Goto, Work
    <3>2. CASE Get(t)
      BY <1>t, <3>2 DEF Get, Goto, Work, relayVars
    <3>3. CASE PutSettings(t)
      <4>1. PICK want \in BOOLEAN :
              thread' = [thread EXCEPT ![t].doc = settings, ![t].want = want,
                           ![t].pc = IF Matches(t[1]) THEN "read" ELSE "answered"]
        BY <3>3 DEF PutSettings
      <4>2. UNCHANGED settings
        BY <3>3 DEF PutSettings, relayVars
      <4> QED  BY <1>t, <4>1, <4>2 DEF Work
    <3>4. CASE CompareAndSet(t)
      BY <1>t, <3>4 DEF CompareAndSet, Work
    <3> QED  BY <1>1, <3>1, <3>2, <3>3, <3>4
  <2> QED  BY <1>k, <2>1, <2>2
<1>2. ASSUME NEW t \in Thread, SettingsAreLost(t) PROVE SwitchWasOn'
  <2>1. UNCHANGED cached /\ \A u \in Thread \ {t} : thread'[u] = thread[u]
    BY <1>2, <1>t DEF SettingsAreLost, Become, deviceVars
  <2>2. thread'[t].pc \in {"idle", "get", "after"}
    BY <1>2, <1>t DEF SettingsAreLost, Become, Resting
  <2> QED  BY <1>k, <2>1, <2>2
<1>3. ASSUME NEW t \in Thread, StoreSettings(t) PROVE SwitchWasOn'
  <2>1. /\ cached' = [cached EXCEPT ![t[1]] = thread[t].doc]
        /\ thread' = [thread EXCEPT ![t].pc = "note"] /\ UNCHANGED settings
        /\ thread[t].pc = "answered"
    BY <1>3 DEF StoreSettings, Goto, relayVars
  <2>2. thread'[t].pc = "note" /\ thread'[t].doc = thread[t].doc
        /\ \A u \in Thread \ {t} : thread'[u] = thread[u]
    BY <1>t, <2>1 DEF Work
  <2>3. thread[t].doc.sync => settings.sync
    BY <2>1 DEF SwitchWasOn
  <2>4. \A d \in Device : cached'[d] = cached[d] \/ cached'[d] = thread[t].doc
    BY <1>t, <2>1
  <2> QED  BY <2>1, <2>2, <2>3, <2>4 DEF SwitchWasOn
<1>4. ASSUME NEW t \in Thread, Note(t) PROVE SwitchWasOn'
  <2>1. UNCHANGED <<cached, settings>> /\ thread[t].pc = "note"
    BY <1>4 DEF Note, relayVars
  <2>2. PICK pc \in {"idle", "after", "owed"} :
          /\ thread' = [thread EXCEPT ![t] = [Resting EXCEPT !.pc = pc, !.then = AfterSettings(t)]]
          /\ pc = "owed" => thread[t].doc.sync
    BY <1>4, <1>t DEF Note, Become
  <2>3. thread'[t].pc = pc /\ \A u \in Thread \ {t} : thread'[u] = thread[u]
    BY <1>t, <2>2 DEF Resting
  <2>4. pc = "owed" => settings.sync
    BY <2>1, <2>2 DEF SwitchWasOn
  <2> QED  BY <1>k, <2>1, <2>3, <2>4
<1>5. ASSUME NEW t \in Thread, Backfill(t) \/ AfterCollection(t) PROVE SwitchWasOn'
  <2>1. UNCHANGED cached /\ \A u \in Thread \ {t} : thread'[u] = thread[u]
    BY <1>5, <1>t DEF Backfill, AfterCollection, StartUpload, Become, deviceVars
  <2>2. \/ thread'[t].pc \in {"idle", "after"}
        \/ thread'[t].pc = "plan" /\ settings.sync
    <3>0. ASSUME NEW backfill, NEW then, StartUpload(t, backfill, then) PROVE thread'[t].pc = "plan"
      BY <1>t, <3>0 DEF StartUpload, Become, Resting
    <3>1. CASE Backfill(t)
      <4>1. settings.sync
        BY <3>1 DEF Backfill, SwitchWasOn
      <4>2. CASE Become(t, [Resting EXCEPT !.pc = thread[t].then])
        BY <1>t, <4>2 DEF Become, Resting
      <4> QED  BY <3>0, <3>1, <4>1, <4>2 DEF Backfill
    <3>2. CASE AfterCollection(t)
      <4>1. CASE Become(t, Resting)
        BY <1>t, <4>1 DEF Become, Resting
      <4>2. CASE cached[t[1]] # None /\ cached[t[1]].sync /\ StartUpload(t, ~record[t[1]].done, "idle")
        BY <1>t, <3>0, <4>2 DEF SwitchWasOn
      <4> QED  BY <3>2, <4>1, <4>2 DEF AfterCollection
    <3> QED  BY <1>5, <3>1, <3>2
  <2> QED  BY <1>k, <2>1, <2>2
<1>6. ASSUME NEW t \in Thread, Plan(t) \/ UploadChunk(t) \/ ChunkIsLost(t) \/ Judge(t)
      PROVE  SwitchWasOn'
  <2>1. UNCHANGED cached /\ \A u \in Thread \ {t} : thread'[u] = thread[u]
    BY <1>6, <1>t DEF Plan, UploadChunk, ChunkIsLost, Judge, Refuse, EndUpload, Become, deviceVars
  <2>2. settings.sync
    BY <1>6 DEF Plan, UploadChunk, ChunkIsLost, Judge, SwitchWasOn
  <2>3. thread'[t].pc \in {"idle", "after", "plan", "put", "judge"}
    BY <1>6, <1>t DEF Plan, UploadChunk, ChunkIsLost, Judge, Refuse, EndUpload, Become, Resting, Work
  <2> QED  BY <1>k, <2>1, <2>2, <2>3
<1>7. CASE Edit \/ Sweep \/ Tick \/ UNCHANGED vars
  <2>1. UNCHANGED <<cached, thread>>
    BY <1>7 DEF Edit, Sweep, Tick, vars, deviceVars
  <2> QED  BY <1>k, <2>1
<1>8. ASSUME NEW d \in Device, Restart(d) PROVE SwitchWasOn'
  <2>1. UNCHANGED cached
    BY <1>8 DEF Restart
  <2>2. \A t \in Thread : thread'[t] = thread[t] \/ thread'[t].pc = "idle"
    BY <1>8 DEF Restart, Resting
  <2> QED  BY <1>k, <2>1, <2>2
<1> QED
  BY <1>1, <1>2, <1>3, <1>4, <1>5, <1>6, <1>7, <1>8 DEF Next, SettingsNext, UploadNext

(* A row that is live for the shortest window stays. *)
RowsLast ==
  \A m \in Nat : Shortest(m) =>
    \A d \in Device, b \in Bucket : Live(b, m)' /\ rows[d][b] > 0 => rows'[d][b] > 0

LEMMA InsertLasts ==
  ASSUME HistoryInv, NEW d \in Device, NEW points \in SUBSET Point, NEW span,
         Insert(d, points, span), settings.sync
  PROVE  /\ \A e \in Device, b \in Bucket : rows[e][b] > 0 => rows'[e][b] > 0
         /\ \A b \in BucketsOf(points) : rows'[d][b] > 0
<1> DEFINE of(b) == {p[2] : p \in {q \in points : q[1] = b}} \cup {rows[d][b]}
<1>t. rows \in [Device -> [Bucket -> 0..MaxSamples]] /\ rows[d] \in [Bucket -> 0..MaxSamples]
  BY DEF HistoryInv, TypeOK
<1>1. rows' = [rows EXCEPT ![d] = [b \in Bucket |-> Greatest(of(b))]]
  BY DEF Insert, SyncIsOn
<1>2. ASSUME NEW b \in Bucket
      PROVE  \A c \in of(b) : Greatest(of(b)) >= c /\ c \in Nat /\ Greatest(of(b)) \in Nat
  <2>1. of(b) \in SUBSET (0..MaxSamples) /\ of(b) # {}
    BY <1>t, <1>2 DEF Point
  <2> HIDE DEF of
  <2>2. Greatest(of(b)) \in of(b) /\ \A c \in of(b) : Greatest(of(b)) >= c
    BY <2>1, GreatestIs
  <2> QED  BY <2>1, <2>2
<1>3. ASSUME NEW b \in Bucket PROVE rows[d][b] \in of(b)
  OBVIOUS
<1>4. ASSUME NEW b \in BucketsOf(points) PROVE b \in Bucket /\ \E c \in of(b) : c > 0
  <2>1. PICK p \in points : p[1] = b
    BY <1>4 DEF BucketsOf
  <2>2. p[2] \in of(b) /\ p[2] > 0 /\ b \in Bucket
    BY <2>1 DEF Point
  <2> QED  BY <2>2
<1> HIDE DEF of
<1>5. \A b \in Bucket : rows'[d][b] = Greatest(of(b))
  BY <1>t, <1>1
<1>6. \A e \in Device \ {d} : rows'[e] = rows[e]
  BY <1>t, <1>1
<1>7. \A b \in Bucket : rows[d][b] > 0 => rows'[d][b] > 0
  BY <1>t, <1>2, <1>3, <1>5
<1>8. \A b \in BucketsOf(points) : rows'[d][b] > 0
  <2> SUFFICES ASSUME NEW b \in BucketsOf(points) PROVE rows'[d][b] > 0
    OBVIOUS
  <2>1. PICK c \in of(b) : c > 0
    BY <1>4
  <2> QED  BY <1>2, <1>4, <1>5, <2>1
<1> QED  BY <1>6, <1>7, <1>8

LEMMA RowsStep ==
  ASSUME HistoryInv, ReadDocumentsStand, SwitchWasOn, [Next]_vars, StaysOn
  PROVE  RowsLast /\ now' \in {now, now + 1}
<1>t. /\ TypeOK /\ rows \in [Device -> [Bucket -> 0..MaxSamples]] /\ now \in Nat
      /\ thread \in [Thread -> Work] /\ settings.sync \in BOOLEAN
  BY DEF HistoryInv, TypeOK, Bucket, Document
<1>u. UNCHANGED rows => RowsLast
  BY DEF RowsLast
<1>w. ASSUME NEW sync \in BOOLEAN, Write(settings, sync) PROVE UNCHANGED rows
  <2>1. settings'.sync = sync
    BY <1>w DEF Write, Rewritten
  <2> QED  BY <1>w, <2>1 DEF Write, KeepRows, StaysOn
<1>1. ASSUME NEW t \in Thread, CompareAndSet(t) PROVE RowsLast /\ UNCHANGED now
  <2>1. CASE UNCHANGED relayVars
    BY <1>1, <1>u, <2>1 DEF CompareAndSet, relayVars
  <2>2. CASE Compared(t)
    <3>1. thread[t].doc = settings /\ thread[t].want \in BOOLEAN
      BY <1>1, <1>t, <2>2 DEF CompareAndSet, Compared, ReadDocumentsStand, Work
    <3> QED  BY <1>1, <1>u, <1>w, <2>2, <3>1 DEF CompareAndSet
  <2> QED  BY <1>1, <2>1, <2>2 DEF CompareAndSet
<1>2. CASE Edit
  BY <1>2, <1>u, <1>w DEF Edit
<1>3. CASE Sweep
  <2> SUFFICES ASSUME NEW m \in Nat, Shortest(m), NEW d \in Device, NEW b \in Bucket,
                      Live(b, m)', rows[d][b] > 0
               PROVE  rows'[d][b] > 0
    BY <1>3 DEF RowsLast, Sweep
  <2>1. duration \in Spans /\ duration \in Nat /\ m <= duration
    BY <1>3, <1>t DEF Sweep, TypeOK, Shortest, Spans
  <2>2. ~(b + duration < now)
    BY <1>3, <1>t, <2>1 DEF Live, Sweep, Bucket
  <2> QED  BY <1>3, <1>t, <2>2 DEF Sweep
<1>4. ASSUME NEW t \in Thread, UploadChunk(t) PROVE RowsLast /\ UNCHANGED now
  <2>1. CASE UNCHANGED rows
    BY <1>4, <1>u, <2>1 DEF UploadChunk
  <2>2. CASE Insert(t[1], Chunk(thread[t].todo), Declared(t[1]))
    <3>1. settings.sync /\ t[1] \in Device /\ Chunk(thread[t].todo) \in SUBSET Point
      BY <1>4, <1>t, ThreadParts DEF UploadChunk, SwitchWasOn, Chunk, Work
    <3> QED  BY <1>4, <2>2, <3>1, InsertLasts DEF RowsLast, UploadChunk
  <2> QED  BY <1>4, <2>1, <2>2 DEF UploadChunk
<1>5. ASSUME NEW t \in Thread,
             \/ Collect(t) \/ Get(t) \/ PutSettings(t) \/ SettingsAreLost(t) \/ StoreSettings(t)
             \/ Note(t) \/ Backfill(t) \/ AfterCollection(t) \/ Plan(t) \/ ChunkIsLost(t) \/ Judge(t)
      PROVE  RowsLast /\ UNCHANGED now
  <2>1. UNCHANGED <<rows, now>>
    BY <1>5 DEF Collect, Get, PutSettings, SettingsAreLost, StoreSettings, Note, Backfill,
          AfterCollection, Plan, ChunkIsLost, Judge, relayVars
  <2> QED  BY <1>u, <2>1
<1>6. CASE Tick \/ (\E d \in Device : Restart(d)) \/ UNCHANGED vars
  BY <1>6, <1>u DEF Tick, Restart, vars, relayVars
<1> QED
  BY <1>1, <1>2, <1>3, <1>4, <1>5, <1>6 DEF Next, SettingsNext, UploadNext, Edit, Sweep

(* What a chunk and its answer make of the oldest bucket and the watermark. *)
LEMMA EvidenceOf ==
  ASSUME NEW r \in Record, NEW todo \in SUBSET Point, todo # {}, NEW span \in Spans,
         NEW mine \in SUBSET Bucket, NEW held \in Spans
  PROVE  LET kept == Applied(Remembered(r, Chunk(todo), span), mine, held, span)
         IN  /\ kept.oldest \in {r.oldest} \cup BucketsOf(Chunk(todo))
             /\ kept.watermark \in {r.watermark} \cup mine
             /\ kept \in Record
<1> DEFINE chunk == Chunk(todo)
           new == Remembered(r, chunk, span)
           kept == Applied(new, mine, held, span)
<1>1. new \in Record /\ kept \in Record
  BY RecordTypes
<1>2. Least(BucketsOf(chunk)) \in BucketsOf(chunk)
  BY ChunkIs, LeastIs DEF Bucket
<1>3. new.oldest = Reseeded(r, chunk, span) /\ new.watermark = r.watermark
  BY <1>1 DEF Remembered, Record
<1>4. new.oldest \in {r.oldest} \cup BucketsOf(chunk)
  BY <1>2, <1>3 DEF Reseeded
<1>n. mine = {} => kept = new
  BY DEF Applied
<1>5. CASE mine = {}
  <2> HIDE DEF new, kept
  <2>1. /\ kept.oldest \in {r.oldest} \cup BucketsOf(chunk)
        /\ kept.watermark \in {r.watermark} \cup mine
        /\ kept \in Record
    BY <1>1, <1>3, <1>4, <1>5, <1>n
  <2> QED  BY <2>1 DEF kept, new
<1>6. CASE mine # {}
  <2> DEFINE w == IF new.watermark = None \/ Greatest(mine) > new.watermark
                  THEN Greatest(mine) ELSE new.watermark
             a == IF held < span THEN held ELSE IF held > span THEN None ELSE new.adopted
  <2>1. Greatest(mine) \in mine
    BY <1>6, GreatestIs DEF Bucket
  <2>2. kept = [new EXCEPT !.watermark = w, !.adopted = a]
    BY <1>6 DEF Applied
  <2>3. w \in {r.watermark} \cup mine
    BY <1>3, <2>1
  <2> HIDE DEF w, a, kept, new
  <2>4. kept.watermark = w /\ kept.oldest = new.oldest
    BY <1>1, <2>2 DEF Record
  <2>5. /\ kept.oldest \in {r.oldest} \cup BucketsOf(chunk)
        /\ kept.watermark \in {r.watermark} \cup mine
        /\ kept \in Record
    BY <1>1, <1>4, <2>3, <2>4
  <2> QED  BY <2>5 DEF kept, new
<1> QED  BY <1>5, <1>6

(* Marks that are kept or forgotten, and answers that are still waited for. *)
LEMMA EvidenceKept ==
  ASSUME HistoryInv, EvidenceStands, RowsLast, now' \in {now, now + 1},
         \A d \in Device :
           /\ record'[d].oldest \in {record[d].oldest, None}
           /\ record'[d].watermark \in {record[d].watermark, None},
         \A t \in Thread : thread'[t].pc = "judge" =>
           thread[t].pc = "judge" /\ thread'[t].todo = thread[t].todo
  PROVE  EvidenceStands'
<1> SUFFICES ASSUME NEW m \in Nat, Shortest(m), NEW d \in Device
             PROVE  /\ \A b \in {record'[d].oldest, record'[d].watermark} \cap Bucket :
                         Live(b, m)' => rows'[d][b] > 0
                    /\ \A t \in Thread : t[1] = d /\ thread'[t].pc = "judge" =>
                         \A b \in BucketsOf(Chunk(thread'[t].todo)) : Live(b, m)' => rows'[d][b] > 0
  BY DEF EvidenceStands, Shortest
<1>1. None \notin Bucket /\ now \in Nat /\ Slack \in Nat /\ \A b \in Bucket : b \in Nat
  BY DEF Bucket, HistoryInv, TypeOK
<1>2. \A b \in Bucket : Live(b, m)' => Live(b, m)
  BY <1>1 DEF Live
<1>3. \A b \in Bucket : Live(b, m)' /\ rows[d][b] > 0 => rows'[d][b] > 0
  BY DEF RowsLast
<1>4. \A b \in {record[d].oldest, record[d].watermark} \cap Bucket : Live(b, m) => rows[d][b] > 0
  BY DEF EvidenceStands
<1>5. ASSUME NEW t \in Thread, t[1] = d, thread'[t].pc = "judge",
             NEW b \in BucketsOf(Chunk(thread'[t].todo)), Live(b, m)'
      PROVE  rows'[d][b] > 0
  <2>1. thread[t].pc = "judge" /\ thread'[t].todo = thread[t].todo
    BY <1>5
  <2>2. b \in Bucket
    <3>1. thread[t].todo \in SUBSET Point /\ thread[t].todo # {}
      BY <2>1, ThreadParts DEF HistoryInv, ThreadsHoldTheirs, Work
    <3> QED  BY <1>5, <2>1, <3>1, ChunkIs
  <2>3. rows[d][b] > 0
    BY <1>2, <1>5, <2>1, <2>2 DEF EvidenceStands
  <2> QED  BY <1>3, <1>5, <2>2, <2>3
<1> QED  BY <1>1, <1>2, <1>3, <1>4, <1>5

LEMMA EvidenceStep ==
  HistoryInv /\ HistoryInv' /\ ReadDocumentsStand /\ EvidenceInv /\ [Next]_vars /\ StaysOn => EvidenceInv'
<1> SUFFICES ASSUME HistoryInv, HistoryInv', ReadDocumentsStand, EvidenceInv, [Next]_vars, StaysOn
             PROVE  EvidenceStands'
  BY SwitchStep DEF EvidenceInv
<1>t. /\ SwitchWasOn /\ EvidenceStands /\ RowsLast /\ now' \in {now, now + 1}
      /\ thread \in [Thread -> Work] /\ record \in [Device -> Record]
      /\ \A t \in Thread : t[1] \in Device /\ thread[t].then \in {"idle", "after"}
                           /\ AfterSettings(t) \in {"idle", "after"}
  BY ThreadParts, RowsStep DEF EvidenceInv, HistoryInv, TypeOK, AfterSettings, Work
<1>r. ASSUME UNCHANGED record,
             \A t \in Thread : thread'[t] = thread[t] \/ thread'[t].pc # "judge"
      PROVE  EvidenceStands'
  BY <1>t, <1>r, EvidenceKept
<1>1. ASSUME NEW t \in Thread,
             \/ Collect(t) \/ Get(t) \/ PutSettings(t) \/ CompareAndSet(t) \/ SettingsAreLost(t)
             \/ StoreSettings(t) \/ Backfill(t) \/ AfterCollection(t) \/ ChunkIsLost(t)
      PROVE  EvidenceStands'
  <2>1. UNCHANGED record
    BY <1>1 DEF Collect, Get, PutSettings, CompareAndSet, SettingsAreLost, StoreSettings, Backfill,
          AfterCollection, ChunkIsLost, deviceVars
  <2>2. \A u \in Thread \ {t} : thread'[u] = thread[u]
    BY <1>1, <1>t DEF Collect, Get, PutSettings, CompareAndSet, SettingsAreLost, StoreSettings,
          Backfill, AfterCollection, ChunkIsLost, StartUpload, EndUpload, Become, Goto
  <2>3. thread'[t].pc # "judge"
    <3>1. CASE Collect(t)
      BY <1>t, <3>1 DEF Collect, Goto, Work
    <3>4. CASE Get(t)
      BY <1>t, <3>4 DEF Get, Goto, Work, relayVars
    <3>5. CASE PutSettings(t)
      <4>1. PICK want \in BOOLEAN :
              thread' = [thread EXCEPT ![t].doc = settings, ![t].want = want,
                           ![t].pc = IF Matches(t[1]) THEN "read" ELSE "answered"]
        BY <3>5 DEF PutSettings
      <4> QED  BY <1>t, <4>1 DEF Work
    <3>6. CASE CompareAndSet(t)
      BY <1>t, <3>6 DEF CompareAndSet, Work
    <3>2. CASE SettingsAreLost(t) \/ StoreSettings(t)
      BY <1>t, <3>2 DEF SettingsAreLost, StoreSettings, Goto, Become, Resting, Work
    <3>3. CASE Backfill(t) \/ AfterCollection(t) \/ ChunkIsLost(t)
      <4>1. \/ Become(t, [Resting EXCEPT !.pc = thread[t].then])
            \/ Become(t, Resting)
            \/ \E backfill, then : StartUpload(t, backfill, then)
        BY <3>3 DEF Backfill, AfterCollection, ChunkIsLost, EndUpload
      <4>2. (\E backfill, then : StartUpload(t, backfill, then)) => thread'[t].pc = "plan"
        BY <1>t DEF StartUpload, Become, Resting
      <4> QED  BY <1>t, <4>1, <4>2 DEF Become, Resting
    <3> QED  BY <1>1, <3>1, <3>2, <3>3, <3>4, <3>5, <3>6
  <2> QED  BY <1>r, <2>1, <2>2, <2>3
<1>2. ASSUME NEW t \in Thread, Note(t) PROVE EvidenceStands'
  <2> DEFINE d == t[1]
             r == [record[d] EXCEPT !.sync = TRUE, !.refused = None]
  <2>1. \/ record' = [record EXCEPT ![d] = Unsynced]
        \/ record' = [record EXCEPT ![d] = r]
        \/ UNCHANGED record
    BY <1>2 DEF Note, Record_
  <2>2. r.oldest = record[d].oldest /\ r.watermark = record[d].watermark
    BY <1>t DEF Record
  <2>3. Unsynced.oldest = None /\ Unsynced.watermark = None
    BY DEF Unsynced
  <2>4. \A u \in Thread : thread'[u].pc = "judge" => thread'[u] = thread[u]
    <3>1. PICK pc \in {"idle", "after", "owed"} :
            thread' = [thread EXCEPT ![t] = [Resting EXCEPT !.pc = pc, !.then = AfterSettings(t)]]
      BY <1>2, <1>t DEF Note, Become
    <3> QED  BY <1>t, <3>1 DEF Resting
  <2> HIDE DEF r
  <2>5. \A e \in Device : record'[e] \in {record[e], Unsynced} \/ (e = d /\ record'[e] = r)
    BY <1>t, <2>1
  <2> QED  BY <1>t, <2>2, <2>3, <2>4, <2>5, EvidenceKept
<1>3. ASSUME NEW t \in Thread, Plan(t) PROVE EvidenceStands'
  <2> DEFINE d == t[1]
  <2>1. record' = [record EXCEPT ![d] = Backfilled(t, record[d])] \/ UNCHANGED record
    BY <1>3 DEF Plan, Record_
  <2>2. \A e \in Device : /\ record'[e].oldest = record[e].oldest
                          /\ record'[e].watermark = record[e].watermark
    BY <1>t, <2>1, BackfilledMarks
  <2>3. \A u \in Thread : thread'[u].pc = "judge" => thread'[u] = thread[u]
    BY <1>3, <1>t DEF Plan, EndUpload, Become, Resting, Work
  <2> QED  BY <1>t, <2>2, <2>3, EvidenceKept
<1>4. ASSUME NEW t \in Thread, Refuse(t) PROVE EvidenceStands'
  <2>1. record' = [record EXCEPT ![t[1]] = [Unsynced EXCEPT !.refused = thread[t].revision]]
    BY <1>4 DEF Refuse, Record_
  <2>2. \A e \in Device : record'[e] = record[e] \/
                          (record'[e].oldest = None /\ record'[e].watermark = None)
    BY <1>t, <2>1 DEF Unsynced
  <2>3. \A u \in Thread : thread'[u].pc = "judge" => thread'[u] = thread[u]
    BY <1>4, <1>t DEF Refuse, EndUpload, Become, Resting
  <2> QED  BY <1>t, <2>2, <2>3, EvidenceKept
<1>5. ASSUME NEW t \in Thread, UploadChunk(t) PROVE EvidenceStands'
  <2> DEFINE d == t[1]
             chunk == Chunk(thread[t].todo)
  <2>1. CASE EndUpload(t) /\ UNCHANGED record
    BY <1>r, <1>t, <2>1 DEF EndUpload, Become, Resting
  <2>2. CASE /\ Insert(d, chunk, Declared(d)) /\ UNCHANGED record
             /\ thread' = [thread EXCEPT ![t].pc = "judge",
                             ![t].held = IF duration = None THEN Declared(d) ELSE duration]
    <3>1. settings.sync /\ d \in Device /\ thread[t].todo \in SUBSET Point /\ chunk \in SUBSET Point
      BY <1>5, <1>t DEF UploadChunk, SwitchWasOn, Chunk, Work
    <3>2. \A b \in BucketsOf(chunk) : rows'[d][b] > 0
      BY <2>2, <3>1, InsertLasts
    <3>3. thread'[t].todo = thread[t].todo /\ \A u \in Thread \ {t} : thread'[u] = thread[u]
      BY <1>t, <2>2 DEF Work
    <3>4. None \notin Bucket /\ now \in Nat /\ Slack \in Nat /\ \A b \in Bucket : b \in Nat
      BY DEF Bucket, HistoryInv, TypeOK
    <3>5. now' = now
      BY <1>5 DEF UploadChunk
    <3> SUFFICES ASSUME NEW m \in Nat, Shortest(m), NEW e \in Device
                 PROVE  /\ \A b \in {record[e].oldest, record[e].watermark} \cap Bucket :
                             Live(b, m) => rows'[e][b] > 0
                        /\ \A u \in Thread : u[1] = e /\ thread'[u].pc = "judge" =>
                             \A b \in BucketsOf(Chunk(thread'[u].todo)) : Live(b, m) => rows'[e][b] > 0
      BY <2>2, <3>5 DEF EvidenceStands, Shortest, Live
    <3>6. \A b \in Bucket : rows[e][b] > 0 => rows'[e][b] > 0
      BY <2>2, <3>1, InsertLasts
    <3>7. ASSUME NEW u \in Thread, u[1] = e, thread'[u].pc = "judge",
                 NEW b \in BucketsOf(Chunk(thread'[u].todo)), Live(b, m)
          PROVE  rows'[e][b] > 0
      <4>1. CASE u = t
        BY <3>2, <3>3, <3>7, <4>1
      <4>2. CASE u # t
        <5>1. thread[u].todo \in SUBSET Point /\ thread[u].todo # {}
          BY <3>3, <3>7, <4>2, <1>t DEF HistoryInv, ThreadsHoldTheirs, Work
        <5>2. b \in Bucket
          BY <3>3, <3>7, <4>2, <5>1, ChunkIs
        <5>3. rows[e][b] > 0
          BY <1>t, <3>3, <3>7, <4>2 DEF EvidenceStands
        <5> QED  BY <3>6, <5>2, <5>3
      <4> QED  BY <4>1, <4>2
    <3> QED  BY <1>t, <3>6, <3>7 DEF EvidenceStands
  <2> QED  BY <1>4, <1>5, <2>1, <2>2 DEF UploadChunk
<1>6. ASSUME NEW t \in Thread, Judge(t) PROVE EvidenceStands'
  <2> DEFINE d == t[1]
             work == thread[t]
             chunk == Chunk(work.todo)
             span == Declared(d)
             mine == Held(rows[d])
             kept == Applied(Remembered(record[d], chunk, span), mine, work.held, span)
  <2>0. work.pc = "judge" /\ UNCHANGED <<now, rows>>
    BY <1>6 DEF Judge, relayVars
  <2>1. /\ d \in Device /\ work.todo \in SUBSET Point /\ work.todo # {} /\ work.held \in Spans
        /\ span \in Spans /\ mine \in SUBSET Bucket
    BY <1>t, <2>0, DeclaredType DEF HistoryInv, ThreadsHoldTheirs, Work, Held
  <2>2. /\ kept.oldest \in {record[d].oldest} \cup BucketsOf(chunk)
        /\ kept.watermark \in {record[d].watermark} \cup mine
        /\ kept \in Record
    BY <1>t, <2>1, EvidenceOf
  <2> HIDE DEF kept
  <2>3. /\ Forgotten(kept).oldest = None /\ Forgotten(kept).watermark = None
        /\ Backfilled(t, kept).oldest = kept.oldest /\ Backfilled(t, kept).watermark = kept.watermark
    BY <2>2, BackfilledMarks DEF Forgotten, Record
  <2>4. Refuse(t) \/ \E r \in {kept, Forgotten(kept), Backfilled(t, kept)} :
                       record' = [record EXCEPT ![d] = r]
    BY <1>6 DEF Judge, Record_, kept
  <2>5. \A u \in Thread : thread'[u].pc = "judge" => thread'[u] = thread[u]
    BY <1>6, <1>t DEF Judge, Refuse, EndUpload, Become, Resting, Work
  <2>6. CASE \E r \in {kept, Forgotten(kept), Backfilled(t, kept)} :
               record' = [record EXCEPT ![d] = r]
    <3> SUFFICES ASSUME NEW m \in Nat, Shortest(m), NEW e \in Device
                 PROVE  /\ \A b \in {record'[e].oldest, record'[e].watermark} \cap Bucket :
                             Live(b, m) => rows[e][b] > 0
                        /\ \A u \in Thread : u[1] = e /\ thread'[u].pc = "judge" =>
                             \A b \in BucketsOf(Chunk(thread'[u].todo)) : Live(b, m) => rows[e][b] > 0
      BY <2>0 DEF EvidenceStands, Shortest, Live
    <3>1. None \notin Bucket
      BY DEF Bucket
    <3>2. \/ record'[e] = record[e]
          \/ /\ e = d
             /\ record'[e].oldest \in {None, record[d].oldest} \cup BucketsOf(chunk)
             /\ record'[e].watermark \in {None, record[d].watermark} \cup mine
      BY <1>t, <2>1, <2>2, <2>3, <2>6
    <3>3. \A b \in BucketsOf(chunk) : Live(b, m) => rows[d][b] > 0
      BY <1>t, <2>0 DEF EvidenceStands
    <3>4. \A b \in mine : rows[d][b] > 0
      BY DEF Held
    <3>5. \A b \in {record[e].oldest, record[e].watermark} \cap Bucket : Live(b, m) => rows[e][b] > 0
      BY <1>t DEF EvidenceStands
    <3>6. \A u \in Thread : u[1] = e /\ thread'[u].pc = "judge" =>
            \A b \in BucketsOf(Chunk(thread'[u].todo)) : Live(b, m) => rows[e][b] > 0
      BY <1>t, <2>5 DEF EvidenceStands
    <3> QED  BY <3>1, <3>2, <3>3, <3>4, <3>5, <3>6
  <2> QED  BY <1>4, <2>4, <2>6
<1>7. CASE Edit \/ Sweep \/ Tick \/ UNCHANGED vars
  BY <1>7, <1>r DEF Edit, Sweep, Tick, vars, deviceVars
<1>8. ASSUME NEW d \in Device, Restart(d) PROVE EvidenceStands'
  <2>1. UNCHANGED record
    BY <1>8 DEF Restart
  <2>2. \A t \in Thread : thread'[t] = thread[t] \/ thread'[t].pc = "idle"
    BY <1>8 DEF Restart, Resting
  <2> QED  BY <1>r, <2>1, <2>2
<1> QED
  BY <1>1, <1>2, <1>3, <1>5, <1>6, <1>7, <1>8 DEF Next, SettingsNext, UploadNext

(* Only the answer to a chunk makes a thread send again. *)
LEMMA AgainByJudging ==
  ASSUME HistoryInv, [Next]_vars, NEW t \in Thread, thread'[t].again, ~thread[t].again
  PROVE  /\ thread[t].pc = "judge" /\ UNCHANGED now
         /\ RowsLost(record[t[1]], Chunk(thread[t].todo), Held(rows[t[1]]),
                     Shorter(thread[t].held, Declared(t[1])))
<1>t. /\ thread \in [Thread -> Work] /\ Resting.again = FALSE
      /\ \A u \in Thread : thread[u].then \in {"idle", "after"}
  BY ThreadParts DEF HistoryInv, TypeOK, Resting, Work
<1>b. ASSUME NEW u \in Thread, NEW w, Become(u, w), w.again = FALSE PROVE FALSE
  BY <1>t, <1>b DEF Become
<1>e. ASSUME NEW u \in Thread, EndUpload(u) \/ Refuse(u) \/ \E b, then : StartUpload(u, b, then)
      PROVE  FALSE
  <2>1. ASSUME NEW pc PROVE [Resting EXCEPT !.pc = pc].again = FALSE
    BY DEF Resting
  <2>2. ASSUME NEW b, NEW then, NEW r
        PROVE  [Resting EXCEPT !.pc = "plan", !.backfill = b, !.then = then, !.revision = r].again = FALSE
    BY DEF Resting
  <2> QED  BY <1>b, <1>e, <2>1, <2>2 DEF EndUpload, Refuse, StartUpload
<1>1. ASSUME NEW u \in Thread, Collect(u) \/ Get(u) \/ StoreSettings(u) \/ CompareAndSet(u) PROVE FALSE
  BY <1>1, <1>t DEF Collect, Get, StoreSettings, CompareAndSet, Goto, Work
<1>2. ASSUME NEW u \in Thread, PutSettings(u) PROVE FALSE
  <2>1. PICK want \in BOOLEAN :
          thread' = [thread EXCEPT ![u].doc = settings, ![u].want = want,
                       ![u].pc = IF Matches(u[1]) THEN "read" ELSE "answered"]
    BY <1>2 DEF PutSettings
  <2> QED  BY <1>t, <2>1 DEF Work
<1>3. ASSUME NEW u \in Thread, SettingsAreLost(u) \/ Note(u) PROVE FALSE
  <2>1. ASSUME NEW pc, NEW then PROVE /\ [Resting EXCEPT !.pc = pc].again = FALSE
                                      /\ [Resting EXCEPT !.pc = pc, !.then = then].again = FALSE
    BY DEF Resting
  <2> QED  BY <1>b, <1>3, <2>1 DEF SettingsAreLost, Note
<1>4. ASSUME NEW u \in Thread, Backfill(u) \/ AfterCollection(u) \/ ChunkIsLost(u) PROVE FALSE
  <2>1. ASSUME NEW pc PROVE [Resting EXCEPT !.pc = pc].again = FALSE
    BY DEF Resting
  <2> QED  BY <1>b, <1>e, <1>t, <1>4, <2>1 DEF Backfill, AfterCollection, ChunkIsLost
<1>5. ASSUME NEW u \in Thread, Plan(u) PROVE FALSE
  <2>1. thread' = [thread EXCEPT ![u].pc = "put", ![u].todo = Planned(u[1])]
    BY <1>e, <1>5 DEF Plan
  <2> QED  BY <1>t, <2>1 DEF Work
<1>6. ASSUME NEW u \in Thread, UploadChunk(u) PROVE FALSE
  <2>1. PICK held : thread' = [thread EXCEPT ![u].pc = "judge", ![u].held = held]
    BY <1>e, <1>6 DEF UploadChunk
  <2> QED  BY <1>t, <2>1 DEF Work
<1>7. ASSUME NEW u \in Thread, Judge(u)
      PROVE  /\ thread[t].pc = "judge" /\ UNCHANGED now
             /\ RowsLost(record[t[1]], Chunk(thread[t].todo), Held(rows[t[1]]),
                         Shorter(thread[t].held, Declared(t[1])))
  <2>1. UNCHANGED now /\ thread[u].pc = "judge"
    BY <1>7 DEF Judge, relayVars
  <2>2. ~(thread' = [thread EXCEPT ![u].pc = "put", ![u].sent = TRUE,
                        ![u].todo = @ \ Chunk(thread[u].todo), ![u].held = None])
    BY <1>t DEF Work
  <2>3. /\ RowsLost(record[u[1]], Chunk(thread[u].todo), Held(rows[u[1]]),
                    Shorter(thread[u].held, Declared(u[1])))
        /\ thread' = [thread EXCEPT ![u].pc = "plan", ![u].again = TRUE, ![u].sent = FALSE,
                        ![u].todo = {}, ![u].held = None]
    BY <1>e, <1>7, <2>2 DEF Judge
  <2>4. u = t
    BY <1>t, <2>3
  <2> QED  BY <2>1, <2>3, <2>4
<1>8. CASE Edit \/ Sweep \/ Tick \/ UNCHANGED vars
  BY <1>8 DEF Edit, Sweep, Tick, vars
<1>9. ASSUME NEW d \in Device, Restart(d) PROVE FALSE
  BY <1>9, <1>t DEF Restart
<1> QED
  BY <1>1, <1>2, <1>3, <1>4, <1>5, <1>6, <1>7, <1>8, <1>9 DEF Next, SettingsNext, UploadNext

LEMMA ShortestStep ==
  ASSUME HistoryInv, EvidenceStands, [Next]_vars, NEW t \in Thread,
         thread'[t].again, ~thread[t].again, Held(rows[t[1]]) # {}
  PROVE  \E s \in Spans : s < Declared(t[1])
<1> DEFINE d == t[1]
           r == record[d]
           chunk == Chunk(thread[t].todo)
           m == Declared(d)
           mine == Held(rows[d])
<1>1. thread[t].pc = "judge" /\ RowsLost(r, chunk, mine, Shorter(thread[t].held, m))
  BY AgainByJudging
<1>a. d \in Device /\ r \in Record /\ thread[t].held \in Spans
  BY <1>1, ThreadParts DEF HistoryInv, ThreadsHoldTheirs, TypeOK, Work
<1>s. Spans \subseteq Nat /\ m \in Spans
  BY <1>a, DeclaredType DEF Spans, HistoryInv
<1>b. Bucket \subseteq Nat /\ mine \subseteq Bucket /\ None \notin Bucket
  BY DEF Bucket, Held
<1>t. d \in Device /\ r \in Record /\ m \in Nat /\ Bucket \subseteq Nat /\ mine \subseteq Bucket /\ None \notin Bucket
  BY <1>a, <1>s, <1>b
<1> SUFFICES ASSUME \A s \in Spans : ~(s < m) PROVE FALSE
  OBVIOUS
<1> HIDE DEF m
<1>o. \A s \in Spans : m <= s
  BY <1>s
<1>2. Shortest(m) /\ Shorter(thread[t].held, m) = m
  BY <1>a, <1>s, <1>o DEF Shortest, Shorter
<1>3. Least(mine) \in mine /\ \A c \in mine : Least(mine) <= c
  BY <1>t, LeastIs
<1>4. Evidence(r, chunk, m) # None /\ Least(mine) > Evidence(r, chunk, m)
  BY <1>1, <1>2 DEF RowsLost, m
<1>5. /\ Evidence(r, chunk, m) \in {r.oldest, r.watermark} \cap Bucket
      /\ Live(Evidence(r, chunk, m), m)
  BY <1>4, <1>t DEF Evidence, Record
<1>6. rows[d][Evidence(r, chunk, m)] > 0
  BY <1>2, <1>5, <1>t DEF EvidenceStands
<1>7. Evidence(r, chunk, m) \in mine
  BY <1>5, <1>6 DEF Held
<1>8. Least(mine) \in Nat /\ Evidence(r, chunk, m) \in Nat
  BY <1>3, <1>5, <1>b
<1> HIDE DEF mine
<1> QED  BY <1>3, <1>4, <1>7, <1>8

(***************************************************************************)
(* Devices that disagree converge: while the switch stays on, a device     *)
(* that declares the shortest duration there is never takes rows for lost, *)
(* whatever the others declare, lose or send again.                        *)
(***************************************************************************)
THEOREM TheShortestResends == Spec /\ [][StaysOn]_vars => ShortestLosesNothing
<1>1. HistoryInv /\ HistoryInv' /\ ReadDocumentsStand /\ EvidenceInv /\ [Next]_vars /\ [StaysOn]_vars
      => EvidenceInv'
  <2>1. UNCHANGED vars => StaysOn
    BY DEF vars, relayVars, StaysOn
  <2> QED  BY <2>1, EvidenceStep
<1>2. HistoryInv /\ EvidenceInv /\ [Next]_vars =>
      [\A t \in Thread :
         (thread'[t].again /\ ~thread[t].again /\ Held(rows[t[1]]) # {}) =>
           \E s \in Spans : s < Declared(t[1])]_vars
  BY ShortestStep DEF EvidenceInv
<1>3. OffInv => ReadDocumentsStand
  BY DEF OffInv
<1> QED
  BY <1>1, <1>2, <1>3, HistoryInit, HistoryStep, OffInit, OffStep, EvidenceInit, PTL
     DEF Spec, ShortestLosesNothing
===============================================================================
