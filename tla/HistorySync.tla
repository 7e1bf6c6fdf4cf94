----------------------------- MODULE HistorySync -----------------------------
(***************************************************************************)
(* Quota history that follows the Account, and the settings document whose *)
(* switch says whether it does (ADR 0061, ADR 0062): the document, the     *)
(* compare-and-set that writes it and the rows of quota_history on the     *)
(* Relay (apps/relay/src/app.ts, state/d1-account-state.ts); on a device   *)
(* the cached document, the record of what was uploaded, and the two       *)
(* threads that work on them, the refresh lane and the one the user        *)
(* interface asks (packages/service/src/relay/history.rs, relay/mod.rs).   *)
(*                                                                         *)
(* One window of one subscription.  Time is counted in buckets, one bucket *)
(* is the hour of a long window.  What was used only grows until the       *)
(* window is reset, so the largest sample of a bucket is the newest and no *)
(* two buckets have the same: a value is the number of samples in the      *)
(* bucket.  The duration a device declares is represented by its span.     *)
(***************************************************************************)
EXTENDS Integers, FiniteSets

CONSTANTS
  Device,
  Panel,        \* the devices whose user interface reads or writes settings, too
  Collector,    \* device -> the span its provider's collector declares
  None,         \* Option::None
  Slack,        \* QUOTA_HISTORY_OLDEST_SLACK_SECONDS
  MaxPoints,    \* MAXIMUM_QUOTA_HISTORY_POINTS_PER_UPLOAD
  LastInstant,  \* bound: the clock stops here
  LastRevision, \* bound: the document is not written beyond this one
  MaxSamples,   \* bound: samples in a bucket
  Mishaps,      \* which of the events below may happen
  MaxEvents     \* bound: how many of these events there are

ASSUME HistoryAssumption ==
  /\ Panel \subseteq Device
  /\ Collector \in [Device -> Nat \ {0}]
  /\ Slack \in Nat /\ MaxPoints \in Nat \ {0}
  /\ LastInstant \in Nat /\ LastRevision \in Nat /\ MaxSamples \in Nat \ {0} /\ MaxEvents \in Nat
  /\ None \notin Nat
  /\ Mishaps \subseteq {"lost",     \* a request or its answer does not arrive
                        "restart",  \* the service is stopped and started
                        "full",     \* other windows' rows bring the Account to its limit
                        "cut",      \* any of these stops an upload between two chunks
                        "twice"}    \* the switch goes off while lost rows are sent again

VARIABLES
  now,
  settings,  \* account_settings: revision and history.sync
  rows,      \* quota_history: device -> bucket -> used_percent, 0 for no row
  duration,  \* duration_seconds of the rows, None without any
  samples,   \* quota_samples: device -> bucket -> used_percent, 0 for none
  cached,    \* account_settings:<account>, whose ETag is the revision
  record,    \* quota_history_sync:<account>
  full,      \* history_full
  thread,    \* what a thread is doing
  events     \* how many events there have been

relayVars  == <<settings, rows, duration>>
deviceVars == <<samples, cached, record, full>>
vars == <<now, relayVars, deviceVars, thread, events>>

Bucket == 0..LastInstant
Thread == (Device \X {"lane"}) \cup (Panel \X {"panel"})
Point  == Bucket \X (1..MaxSamples)
Spans  == {Collector[d] : d \in Device}

ASSUME NoPointIsNone == None \notin Point

Document == [revision : 0..LastRevision, sync : BOOLEAN]

Record == [sync : BOOLEAN, done : BOOLEAN, refused : 0..LastRevision \cup {None},
           watermark : Bucket \cup {None}, oldest : Bucket \cup {None},
           previous : Point \cup {None}, adopted : Spans \cup {None}]

ThreadStep == {"idle", "get", "read", "answered", "note", "owed", "after", "plan", "put", "judge"}

Work == [pc : ThreadStep, doc : Document \cup {None}, want : BOOLEAN, backfill : BOOLEAN,
         again : BOOLEAN, sent : BOOLEAN, todo : SUBSET Point, revision : 0..LastRevision \cup {None},
         held : Spans \cup {None}, then : {"idle", "after"}]

TypeOK ==
  /\ now \in Bucket
  /\ settings \in Document
  /\ rows \in [Device -> [Bucket -> 0..MaxSamples]]
  /\ duration \in Spans \cup {None}
  /\ samples \in [Device -> [Bucket -> 0..MaxSamples]]
  /\ cached \in [Device -> Document \cup {None}]
  /\ record \in [Device -> Record]
  /\ full \in [Device -> BOOLEAN]
  /\ thread \in [Thread -> Work]
  /\ events \in 0..MaxEvents

NoSamples == [b \in Bucket |-> 0]

Unsynced == [sync |-> FALSE, done |-> FALSE, refused |-> None,
             watermark |-> None, oldest |-> None, previous |-> None, adopted |-> None]

Resting == [pc |-> "idle", doc |-> None, want |-> FALSE, backfill |-> FALSE, again |-> FALSE,
            sent |-> FALSE, todo |-> {}, revision |-> None, held |-> None, then |-> "idle"]

Init ==
  /\ now = 0
  /\ settings = [revision |-> 0, sync |-> FALSE]
  /\ rows = [d \in Device |-> NoSamples] /\ duration = None
  /\ samples = [d \in Device |-> NoSamples]
  /\ cached = [d \in Device |-> None]
  /\ record = [d \in Device |-> Unsynced]
  /\ full = [d \in Device |-> FALSE]
  /\ thread = [t \in Thread |-> Resting]
  /\ events = 0

Happens(mishap) == mishap \in Mishaps /\ events < MaxEvents /\ events' = events + 1

-------------------------------------------------------------------------------
(***************************************************************************)
(* The Relay.  Turning the switch off deletes every row of the Account in  *)
(* the transaction that writes the document.                               *)
(***************************************************************************)
Rewritten(sync) == [revision |-> settings.revision + 1, sync |-> sync]

KeepRows == UNCHANGED <<rows, duration>>

DeleteRows ==
  /\ rows' = [d \in Device |-> NoSamples]
  /\ duration' = None

(* writeAccountSettings, asked by a writer that read the document `read` *)
Write(read, sync) ==
  /\ settings.revision < LastRevision
  /\ (~sync /\ \E t \in Thread : thread[t].again) => "twice" \in Mishaps
  /\ settings' = Rewritten(sync)
  /\ IF read.sync /\ ~sync THEN DeleteRows ELSE KeepRows

(* Another client, the website say, edits the document. *)
Edit ==
  /\ \E sync \in BOOLEAN : Write(settings, sync)
  /\ UNCHANGED <<now, deviceVars, thread, events>>

Held(r) == {b \in Bucket : r[b] > 0}

(* performMaintenance: expires_at is the bucket and the span of the rows. *)
Sweep ==
  LET kept == [d \in Device |-> [b \in Bucket |-> IF b + duration < now THEN 0 ELSE rows[d][b]]]
  IN  /\ duration # None
      /\ kept # rows
      /\ rows' = kept
      /\ duration' = IF \A d \in Device : Held(kept[d]) = {} THEN None ELSE duration
      /\ UNCHANGED <<now, settings, deviceVars, thread, events>>

-------------------------------------------------------------------------------
(* The helpers of history.rs.  Live: the Relay must still hold this bucket. *)
Live(b, span) == b + span > now + Slack

OutOfRange(b, span) == b < now - span - 1

Least(S) == CHOOSE b \in S : \A c \in S : b <= c
Greatest(S) == CHOOSE b \in S : \A c \in S : b >= c
Shorter(a, b) == IF a < b THEN a ELSE b

(* series_inputs: a shorter duration that was adopted is declared instead. *)
Declared(d) ==
  IF record[d].adopted = None THEN Collector[d] ELSE Shorter(record[d].adopted, Collector[d])

(***************************************************************************)
(* plan_quota_history_upload: from the watermark on, inside the span, and  *)
(* not the value that was uploaded last.                                   *)
(***************************************************************************)
Planned(d) ==
  {<<b, samples[d][b]>> : b \in {c \in Held(samples[d]) :
     /\ c >= now - Declared(d)
     /\ record[d].watermark # None => c >= record[d].watermark
     /\ <<c, samples[d][c]>> # record[d].previous}}

(* chunk_quota_history_upload, oldest first *)
Chunk(todo) == {p \in todo : Cardinality({q \in todo : q[1] < p[1]}) < MaxPoints}

BucketsOf(points) == {p[1] : p \in points}

(***************************************************************************)
(* quota_history_rows_lost: the evidence that the Relay must hold more     *)
(* than the oldest bucket it answers is the oldest one uploaded while it   *)
(* is live, else the watermark if the whole chunk is later.                *)
(***************************************************************************)
NoEvidence(r, chunk, span) == None

Evidence(r, chunk, span) ==
  IF r.oldest # None /\ Live(r.oldest, span) THEN r.oldest
  ELSE IF r.watermark # None /\ Live(r.watermark, span) /\ Least(BucketsOf(chunk)) > r.watermark
       THEN r.watermark
       ELSE None

RowsLost(r, chunk, mine, span) ==
  LET evidence == Evidence(r, chunk, span)
  IN  mine # {} => (evidence # None /\ Least(mine) > evidence)

(* quota_history_reseed_oldest *)
Reseeded(r, chunk, span) ==
  LET first == Least(BucketsOf(chunk))
  IN  IF r.oldest # None /\ Live(r.oldest, span) /\ r.oldest <= first THEN r.oldest ELSE first

(* remember_chunk *)
Remembered(r, chunk, span) ==
  [r EXCEPT !.oldest = Reseeded(r, chunk, span),
            !.previous = CHOOSE p \in chunk : p[1] = Greatest(BucketsOf(chunk))]

(* apply_answer *)
Applied(r, mine, held, span) ==
  IF mine = {} THEN r
  ELSE [r EXCEPT !.watermark = IF r.watermark = None \/ Greatest(mine) > r.watermark
                               THEN Greatest(mine) ELSE r.watermark,
                 !.adopted = IF held < span THEN held ELSE IF held > span THEN None ELSE r.adopted]

Forgotten(r) == [r EXCEPT !.watermark = None, !.oldest = None, !.previous = None]

-------------------------------------------------------------------------------
(***************************************************************************)
(* A thread of a device.  The switch is noted and an upload runs under     *)
(* history_lock; the cached document is written outside it.                *)
(***************************************************************************)
Uploading(t) == thread[t].pc \in {"plan", "put", "judge"}

LockIsFree(d) == \A t \in Thread : t[1] = d => ~Uploading(t)

Become(t, work) == thread' = [thread EXCEPT ![t] = work]
Goto(t, pc) == thread' = [thread EXCEPT ![t].pc = pc]
Record_(d, r) == record' = [record EXCEPT ![d] = r]

(* What follows a read of the settings on the lane, and on the panel's thread. *)
AfterSettings(t) == IF t[2] = "lane" THEN "after" ELSE "idle"

(* A refresh of the lane: the pass samples, or finds nothing new. *)
Collect(t) ==
  LET d == t[1]
  IN  /\ t[2] = "lane" /\ thread[t].pc = "idle"
      /\ \/ UNCHANGED samples
         \/ /\ samples[d][now] < MaxSamples
            /\ samples' = [samples EXCEPT ![d][now] = @ + 1]
      /\ Goto(t, "get")
      /\ UNCHANGED <<now, relayVars, cached, record, full, events>>

MatchesBySwitch(d) == cached[d] # None /\ cached[d].sync = settings.sync

(* If-None-Match; the ETag is the revision. *)
Matches(d) == cached[d] # None /\ cached[d].revision = settings.revision

(* fetch_account_settings: conditional on the lane, forced for the panel. *)
Get(t) ==
  /\ \/ t[2] = "lane" /\ thread[t].pc = "get"
     \/ t[2] = "panel" /\ thread[t].pc = "idle"
  /\ IF t[2] = "lane" /\ Matches(t[1])
     THEN Goto(t, "after")
     ELSE thread' = [thread EXCEPT ![t].pc = "answered", ![t].doc = settings]
  /\ UNCHANGED <<now, relayVars, deviceVars, events>>

(***************************************************************************)
(* PUT settings: the document is read and its revision compared with       *)
(* If-Match, the revision the panel shows, then written by one statement   *)
(* that compares it again; a lost race answers the document of the winner. *)
(***************************************************************************)
PutSettings(t) ==
  /\ t[2] = "panel" /\ thread[t].pc = "idle" /\ cached[t[1]] # None
  /\ \E want \in BOOLEAN :
       thread' = [thread EXCEPT ![t].doc = settings, ![t].want = want,
         ![t].pc = IF Matches(t[1]) THEN "read" ELSE "answered"]
  /\ UNCHANGED <<now, relayVars, deviceVars, events>>

NotCompared(t) == TRUE

Compared(t) == settings.revision = thread[t].doc.revision

CompareAndSet(t) ==
  /\ thread[t].pc = "read"
  /\ IF Compared(t)
     THEN Write(thread[t].doc, thread[t].want)
     ELSE UNCHANGED relayVars
  /\ thread' = [thread EXCEPT ![t].pc = "answered", ![t].doc = settings', ![t].want = FALSE]
  /\ UNCHANGED <<now, deviceVars, events>>

(* The request or its answer does not arrive. *)
SettingsAreLost(t) ==
  /\ thread[t].pc \in {"get", "answered"}
  /\ Happens("lost")
  /\ Become(t, [Resting EXCEPT !.pc = AfterSettings(t)])
  /\ UNCHANGED <<now, relayVars, deviceVars>>

(* set_account_settings_cache: whatever was answered replaces what is there. *)
StoreSettings(t) ==
  /\ thread[t].pc = "answered"
  /\ cached' = [cached EXCEPT ![t[1]] = thread[t].doc]
  /\ Goto(t, "note")
  /\ UNCHANGED <<now, relayVars, samples, record, full, events>>

(***************************************************************************)
(* note_history_switch: what the document says about the switch, and       *)
(* whether a backfill is owed.                                             *)
(***************************************************************************)
Note(t) ==
  LET d == t[1]
      r == record[d]
      doc == thread[t].doc
      go(pc) == Become(t, [Resting EXCEPT !.pc = pc, !.then = AfterSettings(t)])
  IN  /\ thread[t].pc = "note" /\ LockIsFree(d)
      /\ \/ /\ ~doc.sync
            /\ Record_(d, Unsynced)
            /\ go(AfterSettings(t))
         \/ /\ doc.sync
            /\ full[d] \/ r.refused = doc.revision
            /\ go(AfterSettings(t))
            /\ UNCHANGED record
         \/ /\ doc.sync /\ ~full[d] /\ r.refused # doc.revision
            /\ Record_(d, [r EXCEPT !.sync = TRUE, !.refused = None])
            /\ go(IF r.sync /\ r.done THEN AfterSettings(t) ELSE "owed")
      /\ UNCHANGED <<now, relayVars, samples, cached, full, events>>

RevisionOf(doc) == IF doc = None THEN None ELSE doc.revision

(* upload_locked, up to its loop *)
StartUpload(t, backfill, then) ==
  Become(t, [Resting EXCEPT !.pc = "plan", !.backfill = backfill, !.then = then,
                            !.revision = RevisionOf(cached[t[1]])])

(* The backfill that note_history_settings owes. *)
Backfill(t) ==
  /\ thread[t].pc = "owed" /\ LockIsFree(t[1])
  /\ \/ full[t[1]] /\ Become(t, [Resting EXCEPT !.pc = thread[t].then])
     \/ ~full[t[1]] /\ StartUpload(t, TRUE, thread[t].then)
  /\ UNCHANGED <<now, relayVars, deviceVars, events>>

OnceRefused(d) == record[d].refused # None

(* A document that was refused is not tried again. *)
WasRefused(d) == record[d].refused # None /\ record[d].refused = cached[d].revision

(* sync_quota_history_after_collection *)
AfterCollection(t) ==
  LET d == t[1]
  IN  /\ thread[t].pc = "after" /\ LockIsFree(d)
      /\ full' = [full EXCEPT ![d] = FALSE]
      /\ \/ /\ cached[d] # None /\ cached[d].sync /\ ~WasRefused(d)
            /\ StartUpload(t, ~record[d].done, "idle")
         \/ /\ ~(cached[d] # None /\ cached[d].sync /\ ~WasRefused(d))
            /\ Become(t, Resting)
      /\ UNCHANGED <<now, relayVars, samples, cached, record, events>>

EndUpload(t) == Become(t, [Resting EXCEPT !.pc = thread[t].then])

Backfilled(t, r) ==
  IF thread[t].backfill THEN [r EXCEPT !.done = TRUE, !.sync = TRUE] ELSE r

Plan(t) ==
  LET d == t[1]
  IN  /\ thread[t].pc = "plan"
      /\ \/ /\ Planned(d) = {}
            /\ Record_(d, Backfilled(t, record[d]))
            /\ EndUpload(t)
         \/ /\ Planned(d) # {}
            /\ thread' = [thread EXCEPT ![t].pc = "put", ![t].todo = Planned(d)]
            /\ UNCHANGED record
      /\ UNCHANGED <<now, relayVars, samples, cached, full, events>>

(* 409 history_sync_off *)
Refuse(t) ==
  /\ Record_(t[1], [Unsynced EXCEPT !.refused = thread[t].revision])
  /\ EndUpload(t)
  /\ UNCHANGED full

(***************************************************************************)
(* recordQuotaHistory.  The switch is read before the batch, asked again   *)
(* by each insert of it, and read once more before the answer (Judge).     *)
(***************************************************************************)
AtAnyTime == TRUE

SyncIsOn == settings.sync

Insert(d, points, span) ==
  /\ rows' = IF SyncIsOn
             THEN [rows EXCEPT ![d] = [b \in Bucket |->
                     LET of == {p[2] : p \in {q \in points : q[1] = b}} \cup {rows[d][b]}
                     IN  Greatest(of)]]
             ELSE rows
  /\ duration' = IF \A e \in Device : Held(rows'[e]) = {} THEN None ELSE span

StopsUpload(t, mishap) == Happens(mishap) /\ (thread[t].sent => "cut" \in Mishaps)

UploadChunk(t) ==
  LET d == t[1]
      chunk == Chunk(thread[t].todo)
      span == Declared(d)
  IN  /\ thread[t].pc = "put"
      /\ \/ /\ settings.sync
            /\ \E b \in BucketsOf(chunk) : OutOfRange(b, span) \* 400
            /\ EndUpload(t)
            /\ UNCHANGED <<rows, duration, record, full, events>>
         \/ /\ ~settings.sync
            /\ Refuse(t)
            /\ UNCHANGED <<rows, duration, events>>
         \/ /\ \A b \in BucketsOf(chunk) : ~OutOfRange(b, span)
            /\ settings.sync
            /\ StopsUpload(t, "full") \* 413
            /\ full' = [full EXCEPT ![d] = TRUE]
            /\ EndUpload(t)
            /\ UNCHANGED <<rows, duration, record>>
         \/ /\ \A b \in BucketsOf(chunk) : ~OutOfRange(b, span)
            /\ Insert(d, chunk, span)
            /\ thread' = [thread EXCEPT ![t].pc = "judge",
                            ![t].held = IF duration = None THEN span ELSE duration]
            /\ UNCHANGED <<record, full, events>>
      /\ UNCHANGED <<now, settings, samples, cached>>

(* The chunk, or the answer to it, does not arrive. *)
ChunkIsLost(t) ==
  /\ thread[t].pc \in {"put", "judge"}
  /\ StopsUpload(t, "lost")
  /\ EndUpload(t)
  /\ UNCHANGED <<now, relayVars, deviceVars>>

(***************************************************************************)
(* The answer: the newest and the oldest bucket the Relay holds of this    *)
(* device.  A series that was lost is forgotten and planned again, once.   *)
(***************************************************************************)
Judge(t) ==
  LET d     == t[1]
      r     == record[d]
      work  == thread[t]
      chunk == Chunk(work.todo)
      span  == Declared(d)
      mine  == Held(rows[d])
      lost  == ~work.again /\ RowsLost(r, chunk, mine, Shorter(work.held, span))
      kept  == Applied(Remembered(r, chunk, span), mine, work.held, span)
  IN  /\ work.pc = "judge"
      /\ \/ /\ ~settings.sync
            /\ Refuse(t)
         \/ /\ settings.sync /\ lost
            /\ Record_(d, Forgotten(kept))
            /\ thread' = [thread EXCEPT ![t].pc = "plan", ![t].again = TRUE, ![t].sent = FALSE,
                            ![t].todo = {}, ![t].held = None]
         \/ /\ settings.sync /\ ~lost /\ work.todo # chunk
            /\ Record_(d, kept)
            /\ thread' = [thread EXCEPT ![t].pc = "put", ![t].sent = TRUE,
                            ![t].todo = @ \ chunk, ![t].held = None]
         \/ /\ settings.sync /\ ~lost /\ work.todo = chunk
            /\ Record_(d, Backfilled(t, kept))
            /\ EndUpload(t)
      /\ UNCHANGED <<now, relayVars, samples, cached, full, events>>

-------------------------------------------------------------------------------
Tick ==
  /\ now < LastInstant
  /\ now' = now + 1
  /\ UNCHANGED <<relayVars, deviceVars, thread, events>>

Restart(d) ==
  /\ \A t \in Thread : t[1] = d => StopsUpload(t, "restart")
  /\ \E t \in Thread : t[1] = d /\ thread[t] # Resting
  /\ thread' = [t \in Thread |-> IF t[1] = d THEN Resting ELSE thread[t]]
  /\ full' = [full EXCEPT ![d] = FALSE]
  /\ UNCHANGED <<now, relayVars, samples, cached, record>>

SettingsNext == \E t \in Thread : Collect(t) \/ Get(t) \/ PutSettings(t) \/ CompareAndSet(t)
                                  \/ SettingsAreLost(t) \/ StoreSettings(t) \/ Note(t)

UploadNext == \E t \in Thread : Backfill(t) \/ AfterCollection(t) \/ Plan(t) \/ UploadChunk(t)
                                \/ ChunkIsLost(t) \/ Judge(t)

Next == SettingsNext \/ UploadNext \/ Edit \/ Sweep \/ Tick \/ \E d \in Device : Restart(d)

Spec == Init /\ [][Next]_vars

-------------------------------------------------------------------------------
(***************************************************************************)
(* "Turning the switch off is the deletion of what Relay holds, not a      *)
(* hide" (ADR 0062): no upload that was under way, and no writer whose     *)
(* document was old, leaves a row of an Account that does not sync.        *)
(***************************************************************************)
OffHoldsNothing == ~settings.sync => \A d \in Device : Held(rows[d]) = {}

(* An upload of a device ends, or goes on with its next chunk, with a record
   that was not forgotten. *)
Settles(t) ==
  /\ thread[t].pc = "judge" /\ ~thread[t].again
  /\ thread'[t].pc # "judge" /\ ~thread'[t].again
  /\ record'[t[1]] # record[t[1]] /\ record'[t[1]].watermark # None

(* A bucket that is not in a chunk to come, and is not planned later. *)
WontBeSent(t, b) ==
  LET d == t[1]
  IN  /\ samples[d][b] > 0
      /\ b \notin BucketsOf(thread'[t].todo)
      /\ b < record'[d].watermark
      /\ Live(b, Declared(d)')

(***************************************************************************)
(* The record does not lie: after a chunk that was judged, every bucket    *)
(* from the oldest one of the record to the watermark that has not expired *)
(* is on the Relay, in full, although the device compares no more than the *)
(* oldest and the newest, and however often the switch went off and on     *)
(* unseen and answers were lost.  The device does not send them again.     *)
(***************************************************************************)
RecordIsHonest ==
  [][\A t \in Thread : Settles(t) =>
       \A b \in Bucket : b >= record'[t[1]].oldest /\ WontBeSent(t, b)
                         => rows[t[1]][b] = samples[t[1]][b]]_vars

(***************************************************************************)
(* "What is still not seen: a loss once both the record and the last       *)
(* confirmed watermark have stopped being live" (ADR 0062): with one of    *)
(* them live, what the device will not send again is on the Relay.         *)
(***************************************************************************)
LossIsSeen ==
  [][\A t \in Thread :
       LET d == t[1]
           known == {record[d].oldest, record[d].watermark} \ {None}
       IN  (Settles(t) /\ \E k \in known : Live(k, Declared(d))) =>
             \A b \in Bucket : WontBeSent(t, b) => rows[d][b] = samples[d][b]]_vars

(***************************************************************************)
(* "Two devices that disagree therefore converge on the shorter duration   *)
(* after at most one re-backfill" (ADR 0062): while the switch stays on, a *)
(* device that declares the shortest duration there is never takes rows    *)
(* for lost.  (Every row of the window may expire between two uploads,     *)
(* "nothing to read the held duration from"; then the answer is missing.)  *)
(***************************************************************************)
ShortestLosesNothing ==
  [][\A t \in Thread :
       (thread'[t].again /\ ~thread[t].again /\ Held(rows[t[1]]) # {}) =>
         \E s \in Spans : s < Declared(t[1])]_vars

(***************************************************************************)
(* A device follows the switch: it comes on, and is backfilled, unless the *)
(* document is written again.                                              *)
(***************************************************************************)
SwitchIsFollowed ==
  \A r \in 1..LastRevision, d \in Device :
    settings = [revision |-> r, sync |-> TRUE] ~>
      \/ settings.revision # r
      \/ record[d].sync /\ record[d].done /\ cached[d] # None /\ cached[d].revision = r

(* ... and the copy of the document a device shows becomes the Account's. *)
SettingsArrive == <>[](\A d \in Device : cached[d] # None /\ cached[d] = settings)

Fairness ==
  /\ \A t \in Thread :
       /\ WF_vars(CompareAndSet(t)) /\ WF_vars(StoreSettings(t)) /\ WF_vars(Note(t))
       /\ WF_vars(Backfill(t)) /\ WF_vars(AfterCollection(t)) /\ WF_vars(Plan(t))
       /\ WF_vars(UploadChunk(t)) /\ WF_vars(Judge(t))
  /\ \A t \in Device \X {"lane"} : WF_vars(Collect(t)) /\ WF_vars(Get(t))

FairSpec == Spec /\ Fairness
===============================================================================
