---------------------------- MODULE Cadence_proofs ----------------------------
(***************************************************************************)
(* The cadence of one Mac for any providers, floors, limits, instants and  *)
(* mishaps: a collection request taken up stays owed until it is answered, *)
(* the floor and a 429 are waited out by whatever asks, and a reading made *)
(* elsewhere is spared when Account reads are stored in the order they     *)
(* were noted.                                                             *)
(***************************************************************************)
EXTENDS Cadence, TLAPS

(***************************************************************************)
(* What the proofs need of the types.  An instant a limit lasts to is only *)
(* an integer here: that it lies ahead is arithmetic on powers of two.     *)
(***************************************************************************)
SomeBackoff == [known : BOOLEAN, until : Int, strikes : Int]
SomeRaised  == [known : BOOLEAN, until : Int]
SomeRecord  == [last : OrNone(Instant), backoff : OrNone(SomeBackoff), raised : OrNone(SomeRaised)]
SomeLimit   == [backoff : Int, raised : Int, named : BOOLEAN]

PassType == [pc : {"idle", "started", "asking", "kept"}, providers : SUBSET Provider, full : BOOLEAN,
             manual : BOOLEAN, started : OrNone(Instant), at : OrNone(Instant),
             record : OrNone([Provider -> SomeRecord]), collect : SUBSET Provider,
             absent : SUBSET Provider]

Types ==
  /\ now \in Instant
  /\ requested \in OrNone(Instant)
  /\ answered \in OrNone(Instant)
  /\ present \in SUBSET Provider
  /\ waiting \in BOOLEAN /\ owed \in SUBSET Provider
  /\ known \in SUBSET Provider
  /\ record \in [Provider -> SomeRecord]
  /\ pass \in PassType
  /\ asked \in [Provider -> OrNone(Instant)]
  /\ unkept \in SUBSET Provider
  /\ held \in [Provider -> SomeLimit]
  /\ collected \in [Provider -> OrNone(Instant)]
  /\ dropped \in BOOLEAN

(* Where a pass is tells what it holds. *)
PassHoldsIts ==
  /\ pass.pc = "idle" => pass = NoPass
  /\ pass.pc # "idle" => pass.started \in Instant
  /\ pass.pc = "started" => pass.collect = {}
  /\ pass.pc = "asking" => /\ pass.at \in Instant /\ pass.record = record
                           /\ pass.collect \cap pass.absent = {}

PassInv == Types /\ PassHoldsIts

-------------------------------------------------------------------------------
USE CadenceAssumption, NoLimitIsNone

LEMMA PassInit == Init => PassInv
<1> SUFFICES ASSUME Init PROVE PassInv
  OBVIOUS
<1>1. NoPass \in PassType /\ NoPass.pc = "idle"
  BY DEF NoPass, PassType, OrNone
<1>2. NoRecord \in SomeRecord /\ NotLimited \in SomeLimit
  BY DEF NoRecord, SomeRecord, NotLimited, SomeLimit, OrNone
<1>3. 0 \in Instant
  BY DEF Instant
<1>4. Types
  BY <1>1, <1>2, <1>3 DEF Init, Types, OrNone
<1>5. PassHoldsIts
  BY <1>1 DEF Init, PassHoldsIts
<1> QED  BY <1>4, <1>5 DEF PassInv

LEMMA LargerIs ==
  ASSUME NEW a \in Int, NEW b \in Int
  PROVE  Larger(a, b) \in Int /\ Larger(a, b) >= a /\ Larger(a, b) >= b
<1>1. \E x \in {a, b} : \A y \in {a, b} : y <= x
  OBVIOUS
<1>2. Larger(a, b) \in {a, b} /\ \A y \in {a, b} : y <= Larger(a, b)
  BY <1>1 DEF Larger, Largest
<1> QED  BY <1>2

LEMMA CappedIsInt == ASSUME NEW t \in Int PROVE Capped(t) \in Int
  BY DEF Capped, Smaller

(* What an answer makes of a record. *)
LEMMA DoubledIsInt == ASSUME NEW n \in Int PROVE Doubled(n) \in Int
<1>1. 2 ^ (n - 1) \in Int
  BY SMT
<1> QED  BY <1>1 DEF Doubled, Smaller

LEMMA AnswerTypes ==
  ASSUME NEW r \in SomeRecord, NEW p, NEW answer \in Answers, NEW t \in Instant
  PROVE  /\ AfterAnswer(r, p \in known, answer, t) \in SomeRecord
         /\ answer.outcome # "panicked" => AfterAnswer(r, p \in known, answer, t).last = t
         /\ answer.outcome = "panicked" => AfterAnswer(r, p \in known, answer, t) = r
         /\ answer.outcome = "success" => /\ AfterAnswer(r, p \in known, answer, t).backoff = None
                                          /\ AfterAnswer(r, p \in known, answer, t).raised = r.raised
         /\ answer.outcome = "limited" =>
              /\ After429(r, p \in known, answer.retry, t) \in SomeBackoff
              /\ Raised429(p \in known, t) \in SomeRaised
              /\ AfterAnswer(r, p \in known, answer, t).backoff = After429(r, p \in known, answer.retry, t)
              /\ AfterAnswer(r, p \in known, answer, t).raised = Raised429(p \in known, t)
<1>1. CASE answer.outcome = "success"
  BY <1>1 DEF AfterAnswer, SomeRecord, OrNone
<1>2. CASE answer.outcome = "failed"
  BY <1>2 DEF AfterAnswer, SomeRecord, OrNone
<1>4. CASE answer.outcome = "panicked"
  BY <1>4 DEF AfterAnswer, SomeRecord, OrNone
<1>3. CASE answer.outcome = "limited"
  <2>1. t \in Int /\ RaisedSpan \in Int /\ LastInstant \in Int
    BY DEF Instant
  <2>2. answer.retry \in Int
    <3>1. \A n \in {0} \cup RetryAfter : n \in Int
      OBVIOUS
    <3>2. answer.retry \in {0} \cup RetryAfter
      BY DEF Answers
    <3> QED  BY <3>1, <3>2
  <2>3. Raised429(p \in known, t) \in SomeRaised
    BY <2>1, CappedIsInt DEF Raised429, SomeRaised
  <2> DEFINE strikes == IF r.backoff # None /\ r.backoff.known = (p \in known) THEN r.backoff.strikes + 1 ELSE 1
             wait    == IF answer.retry > 0 THEN answer.retry ELSE Doubled(strikes)
  <2>4. strikes \in Int
    BY DEF SomeRecord, SomeBackoff, OrNone
  <2>5. wait \in Int
    BY <2>2, <2>4, DoubledIsInt
  <2>6. After429(r, p \in known, answer.retry, t) =
          [known |-> p \in known, until |-> Capped(t + wait), strikes |-> Smaller(strikes, LastInstant)]
    BY DEF After429
  <2> HIDE DEF strikes, wait
  <2>7. After429(r, p \in known, answer.retry, t) \in SomeBackoff
    <3>1. Capped(t + wait) \in Int /\ Smaller(strikes, LastInstant) \in Int
      BY <2>1, <2>4, <2>5, CappedIsInt DEF Smaller
    <3>2. \A k \in BOOLEAN, u \in Int, n \in Int : [known |-> k, until |-> u, strikes |-> n] \in SomeBackoff
      BY DEF SomeBackoff
    <3>3. CASE p \in known
      <4>1. (p \in known) = TRUE
        BY <3>3
      <4>2. After429(r, p \in known, answer.retry, t) =
              [known |-> TRUE, until |-> Capped(t + wait), strikes |-> Smaller(strikes, LastInstant)]
        BY <2>6, <4>1, Zenon
      <4> QED  BY <3>1, <3>2, <4>2, Zenon
    <3>4. CASE p \notin known
      <4>1. (p \in known) = FALSE
        BY <3>4
      <4>2. After429(r, p \in known, answer.retry, t) =
              [known |-> FALSE, until |-> Capped(t + wait), strikes |-> Smaller(strikes, LastInstant)]
        BY <2>6, <4>1, Zenon
      <4> QED  BY <3>1, <3>2, <4>2, Zenon
    <3> QED  BY <3>3, <3>4
  <2>8. AfterAnswer(r, p \in known, answer, t) =
          [last |-> t, backoff |-> After429(r, p \in known, answer.retry, t), raised |-> Raised429(p \in known, t)]
    BY <1>3 DEF AfterAnswer
  <2> QED  BY <1>3, <2>3, <2>7, <2>8 DEF SomeRecord, OrNone
<1> QED  BY <1>1, <1>2, <1>3, <1>4 DEF Answers

(* What the answers to a pass make of the records and the limits. *)
LEMMA KeptTypes ==
  ASSUME Types, PassHoldsIts, pass.pc = "asking", NEW answer \in [pass.collect -> Answers]
  PROVE  /\ Kept(answer) \in [Provider -> SomeRecord]
         /\ \A p \in Provider \ pass.collect : Kept(answer)[p] = record[p]
         /\ \A p \in pass.collect :
              Kept(answer)[p] = AfterAnswer(record[p], p \in known, answer[p], pass.at)
<1>1. pass.at \in Instant /\ pass.record = record
  BY DEF PassHoldsIts
<1>2. pass.collect \subseteq Provider
  BY DEF Types, PassType
<1>3. \A p \in Provider : record[p] \in SomeRecord
  BY DEF Types
<1>4. ASSUME NEW p \in pass.collect
      PROVE  AfterAnswer(record[p], p \in known, answer[p], pass.at) \in SomeRecord
  <2>1. record[p] \in SomeRecord /\ answer[p] \in Answers
    BY <1>2, <1>3
  <2> QED  BY <1>1, <2>1, AnswerTypes
<1> QED  BY <1>1, <1>2, <1>3, <1>4 DEF Kept

LEMMA LimitedTypes ==
  ASSUME Types, PassHoldsIts, pass.pc = "asking", NEW p \in pass.collect, NEW answer \in Answers
  PROVE  Limited(p, answer) \in SomeLimit
<1>1. pass.at \in Instant /\ pass.record = record /\ p \in Provider
  BY DEF PassHoldsIts, Types, PassType
<1>2. record[p] \in SomeRecord /\ held[p] \in SomeLimit
  BY <1>1 DEF Types
<1>3. CASE answer.outcome \in {"success", "failed", "panicked"}
  <2>1. \A h \in SomeLimit : [h EXCEPT !.backoff = 0] \in SomeLimit
    BY DEF SomeLimit
  <2>2. \A h \in SomeLimit : [h EXCEPT !.named = FALSE] \in SomeLimit
    BY DEF SomeLimit
  <2> QED  BY <1>2, <1>3, <2>1, <2>2 DEF Limited
<1>4. CASE answer.outcome = "limited"
  <2>1. After429(record[p], p \in known, answer.retry, pass.at) \in SomeBackoff
    BY <1>1, <1>2, <1>4, AnswerTypes
  <2>2. After429(record[p], p \in known, answer.retry, pass.at).until \in Int
    BY <2>1 DEF SomeBackoff
  <2>3. Capped(pass.at + RaisedSpan) \in Int
    BY <1>1, CappedIsInt DEF Instant
  <2>4. Limited(p, answer) =
          [backoff |-> After429(record[p], p \in known, answer.retry, pass.at).until,
           raised |-> Capped(pass.at + RaisedSpan), named |-> p \in known]
    BY <1>1, <1>4 DEF Limited
  <2> QED  BY <2>2, <2>3, <2>4 DEF SomeLimit
<1> QED  BY <1>3, <1>4 DEF Answers

(* Who asks for a pass, and who starts one that waited, starts a pass or leaves the last one. *)
Starting ==
  AnswerDemand \/ TimedTick \/ (\E p \in Provider : CatchReset(p)) \/ StartFull \/ StartPending

NothingRead ==
  UNCHANGED <<now, requested, elsewhere, present, summary, known, record, answered, complete,
              asked, unkept, held, told, collected>>

Begins == pass.pc = "idle" /\ \E ps \in SUBSET Provider : \E trigger : Begin(ps, trigger)

LEMMA RequestStarts ==
  ASSUME Types, NEW ps \in SUBSET Provider, RequestPass(ps) \/ Fold(ps) \/ TakeLane(ps)
  PROVE  /\ UNCHANGED <<pass, reader>> \/ Begins
         /\ waiting' \in BOOLEAN /\ owed' \in SUBSET Provider /\ dropped' \in BOOLEAN
<1>1. Fold(ps) \/ TakeLane(ps) \/ LoseLane(ps)
  BY DEF RequestPass
<1>2. CASE Fold(ps)
  BY <1>2 DEF Fold, Types
<1>3. CASE TakeLane(ps)
  BY <1>3 DEF TakeLane, Types, Overrun, Begins
<1>4. CASE LoseLane(ps)
  BY <1>4 DEF LoseLane, SpawnFails, Types, Overrun
<1> QED  BY <1>1, <1>2, <1>3, <1>4

LEMMA StartingStarts ==
  ASSUME Types, Starting
  PROVE  /\ NothingRead
         /\ UNCHANGED <<pass, reader>> \/ Begins
         /\ waiting' \in BOOLEAN /\ owed' \in SUBSET Provider /\ dropped' \in BOOLEAN
<1>1. CASE AnswerDemand
  <2>1. RequestPass(Provider) /\ NothingRead
    BY <1>1 DEF AnswerDemand, RunDemanded, NothingRead, accountVars, storedVars
  <2> QED  BY <2>1, RequestStarts
<1>2. CASE TimedTick
  <2>1. PICK ps \in SUBSET {p \in Provider : IsDue(p)} : RequestPass(ps) /\ NothingRead
    BY <1>2 DEF TimedTick, NothingRead, accountVars, storedVars
  <2>2. ps \in SUBSET Provider
    OBVIOUS
  <2> QED  BY <2>1, <2>2, RequestStarts
<1>3. ASSUME NEW p \in Provider, CatchReset(p)
      PROVE  /\ NothingRead
             /\ UNCHANGED <<pass, reader>> \/ Begins
             /\ waiting' \in BOOLEAN /\ owed' \in SUBSET Provider /\ dropped' \in BOOLEAN
  <2>1. Fold({p}) \/ TakeLane({p})
    BY <1>3 DEF CatchReset
  <2>2. NothingRead
    BY <1>3 DEF CatchReset, NothingRead, accountVars, storedVars
  <2>3. {p} \in SUBSET Provider
    OBVIOUS
  <2> QED  BY <2>1, <2>2, <2>3, RequestStarts
<1>4. CASE StartFull
  <2>1. NothingRead /\ pass.pc = "idle" /\ UNCHANGED <<waiting, owed>>
    BY <1>4 DEF StartFull, NothingRead, accountVars, storedVars
  <2>2. (Begin(Provider, owedFull) /\ UNCHANGED dropped) \/ (UNCHANGED <<pass, reader>> /\ dropped' = TRUE)
    BY <1>4 DEF StartFull, SpawnFails
  <2> QED  BY <2>1, <2>2 DEF Begins, Types
<1>5. CASE StartPending
  <2>1. NothingRead /\ pass.pc = "idle" /\ waiting' = FALSE /\ owed' = {}
    BY <1>5 DEF StartPending, NothingRead, accountVars, storedVars
  <2>2. \/ Begin(owed, None) /\ UNCHANGED dropped
        \/ UNCHANGED <<pass, reader>> /\ dropped' = (dropped \/ owed = Provider)
    BY <1>5 DEF StartPending, SpawnFails
  <2> QED  BY <2>1, <2>2 DEF Begins, Types
<1> QED  BY <1>1, <1>2, <1>3, <1>4, <1>5 DEF Starting

LEMMA JudgeSplits ==
  ASSUME Types, Judge
  PROVE  \E may \in SUBSET Provider, none \in SUBSET Provider :
           /\ may \cap none = {}
           /\ pass' = [pass EXCEPT !.pc = "asking", !.at = now, !.record = record, !.collect = may,
                                   !.absent = none]
           /\ asked' = [p \in Provider |-> IF p \in may THEN now ELSE asked[p]]
           /\ unkept' = unkept \ may
<1> DEFINE may == {p \in pass.providers : MayAsk(p, pass.manual, record[p], p \in known, summary, now)}
<1>1. may \in SUBSET Provider
  BY DEF Types, PassType
<1>2. /\ pass' = [pass EXCEPT !.pc = "asking", !.at = now, !.record = record,
                              !.collect = may \cap present, !.absent = may \ present]
      /\ asked' = [p \in Provider |-> IF p \in may \cap present THEN now ELSE asked[p]]
      /\ unkept' = unkept \ (may \cap present)
  BY DEF Judge
<1> HIDE DEF may
<1>3. (may \cap present) \in SUBSET Provider /\ (may \ present) \in SUBSET Provider
      /\ (may \cap present) \cap (may \ present) = {}
  BY <1>1
<1> QED  BY <1>2, <1>3

LEMMA PassStep == PassInv /\ [Next]_vars => PassInv'
<1> SUFFICES ASSUME PassInv, [Next]_vars PROVE PassInv'
  OBVIOUS
<1>t. Types /\ PassHoldsIts
  BY DEF PassInv
<1> USE DEF Types, PassType, OrNone, Instant
<1>1. CASE Tick \/ RequestCollection \/ (\E p \in Provider : OtherMacReads(p) \/ SignInChanges(p))
           \/ ManualRefresh \/ Restart
           \/ ReadFails \/ (\E t \in {"account", "pass"} : ReadAccount(t) \/ StoreAccount(t))
           \/ UNCHANGED vars
  <2>1. UNCHANGED <<known, record, pass, asked, unkept, held, collected>>
    BY <1>1 DEF Tick, RequestCollection, OtherMacReads, SignInChanges, ManualRefresh, Restart, ReadFails, ReadAccount, StoreAccount, vars, accountVars, storedVars,
          memoryVars, historyVars
  <2>2. now' \in Instant /\ requested' \in OrNone(Instant) /\ answered' \in OrNone(Instant)
    BY <1>1, <1>t DEF Tick, RequestCollection, OtherMacReads, SignInChanges, ManualRefresh, Restart, ReadFails, ReadAccount, StoreAccount, vars, accountVars, storedVars,
          memoryVars, historyVars
  <2>3. waiting' \in BOOLEAN /\ owed' \in SUBSET Provider /\ dropped' \in BOOLEAN /\ present' \in SUBSET Provider
    BY <1>1, <1>t DEF Tick, RequestCollection, OtherMacReads, SignInChanges, ManualRefresh, Restart, ReadFails, ReadAccount, StoreAccount, vars, accountVars,
          storedVars, memoryVars, historyVars
  <2> QED  BY <1>t, <2>1, <2>2, <2>3 DEF PassInv, PassHoldsIts
<1>2. CASE Starting
  <2>1. /\ UNCHANGED <<now, requested, present, answered, known, record, asked, unkept, held, collected>>
        /\ waiting' \in BOOLEAN /\ owed' \in SUBSET Provider /\ dropped' \in BOOLEAN
    BY <1>2, <1>t, StartingStarts DEF NothingRead
  <2>2. CASE UNCHANGED <<pass, reader>>
    BY <1>t, <2>1, <2>2 DEF PassInv, PassHoldsIts
  <2>3. CASE Begins
    <3>p. PICK ps \in SUBSET Provider : \E trigger : Begin(ps, trigger)
      BY <2>3 DEF Begins
    <3>1. PICK trigger : Begin(ps, trigger)
      BY <3>p
    <3>2. (trigger # None) \in BOOLEAN /\ (trigger = "manual") \in BOOLEAN
      OBVIOUS
    <3>3. pass' \in PassType /\ pass'.pc = "started" /\ pass'.started = now /\ pass'.collect = {}
      BY <1>t, <3>1, <3>2 DEF Begin, NoPass
    <3> QED  BY <1>t, <2>1, <3>3 DEF PassInv, PassHoldsIts
  <2> QED  BY <1>2, <1>t, <2>2, <2>3, StartingStarts
<1>3. CASE Judge
  <2>1. UNCHANGED <<now, requested, present, answered, waiting, owed, known, record, held, collected, dropped>>
    BY <1>3 DEF Judge, accountVars, storedVars, memoryVars
  <2>2. PICK may \in SUBSET Provider, none \in SUBSET Provider :
          /\ may \cap none = {}
          /\ pass' = [pass EXCEPT !.pc = "asking", !.at = now, !.record = record, !.collect = may,
                                  !.absent = none]
          /\ asked' = [p \in Provider |-> IF p \in may THEN now ELSE asked[p]]
          /\ unkept' = unkept \ may
    BY <1>3, <1>t, JudgeSplits
  <2>3. pass' \in PassType /\ pass'.pc = "asking" /\ pass'.at = now /\ pass'.record = record
        /\ pass'.started = pass.started /\ pass'.collect = may /\ pass'.absent = none
    BY <1>t, <2>2
  <2>4. asked' \in [Provider -> OrNone(Instant)] /\ unkept' \in SUBSET Provider
    BY <1>t, <2>2
  <2>5. pass.started \in Instant
    BY <1>3, <1>t DEF Judge, PassHoldsIts
  <2> QED  BY <1>t, <2>1, <2>2, <2>3, <2>4, <2>5 DEF PassInv, PassHoldsIts
<1>4. CASE Keep
  <2>1. UNCHANGED <<now, requested, present, answered, waiting, owed, asked, dropped>>
    BY <1>4 DEF Keep, accountVars, memoryVars
  <2>2. PICK answer \in [pass.collect -> Answers] :
          /\ record' = Kept(answer)
          /\ known' = NamedAfter(answer)
          /\ held' = [p \in Provider |-> IF p \in pass.collect THEN Limited(p, answer[p])
                                         ELSE IF p \in pass.absent THEN [held[p] EXCEPT !.named = FALSE]
                                         ELSE held[p]]
          /\ unkept' = unkept \cup {p \in pass.collect : answer[p].outcome = "panicked"}
    BY <1>4, Zenon DEF Keep
  <2>3. pass.pc = "asking"
    BY <1>4 DEF Keep
  <2>4. record' \in [Provider -> SomeRecord] /\ known' \in SUBSET Provider
    BY <1>t, <2>2, <2>3, KeptTypes DEF NamedAfter
  <2>5. held' \in [Provider -> SomeLimit]
    <3>1. \A p \in pass.collect : Limited(p, answer[p]) \in SomeLimit
      BY <1>t, <2>2, <2>3, LimitedTypes
    <3>2. \A h \in SomeLimit : [h EXCEPT !.named = FALSE] \in SomeLimit
      BY DEF SomeLimit
    <3>3. \A p \in Provider : held[p] \in SomeLimit
      BY <1>t
    <3> QED  BY <2>2, <3>1, <3>2, <3>3
  <2>8. unkept' \in SUBSET Provider
    BY <1>t, <2>2
  <2>6. collected' \in [Provider -> OrNone(Instant)]
    BY <1>4, <1>t DEF Keep
  <2>7. pass' \in PassType /\ pass'.pc = "kept" /\ pass'.started = pass.started
    BY <1>4, <1>t DEF Keep
  <2> QED  BY <1>t, <2>1, <2>3, <2>4, <2>5, <2>6, <2>7, <2>8 DEF PassInv, PassHoldsIts
<1>5. CASE FinishPass \/ CutPass
  <2>1. UNCHANGED <<now, requested, present, answered, waiting, owed, known, record, asked, held, collected>>
        /\ pass' = NoPass
    BY <1>5 DEF FinishPass, CutPass, accountVars, storedVars, historyVars
  <2>2. unkept' \in SUBSET Provider /\ dropped' \in BOOLEAN
    BY <1>5, <1>t DEF FinishPass, CutPass, historyVars
  <2>3. NoPass \in PassType /\ NoPass.pc = "idle"
    BY DEF NoPass
  <2> QED  BY <1>t, <2>1, <2>2, <2>3 DEF PassInv, PassHoldsIts
<1>6. CASE ResetCache
  <2>1. UNCHANGED <<now, requested, present, answered, waiting, owed, pass, asked, collected, dropped>>
        /\ known' = {} /\ unkept' = Provider /\ pass.pc = "idle"
    BY <1>6 DEF ResetCache, accountVars
  <2>2. record' \in [Provider -> SomeRecord]
    BY <1>6 DEF ResetCache, NoRecord, SomeRecord
  <2>3. held' \in [Provider -> SomeLimit]
    <3>1. \A h \in SomeLimit : [h EXCEPT !.named = FALSE] \in SomeLimit
      BY DEF SomeLimit
    <3>2. \A p \in Provider : held[p] \in SomeLimit
      BY <1>t
    <3>3. held' = [p \in Provider |-> [held[p] EXCEPT !.named = FALSE]]
      BY <1>6 DEF ResetCache
    <3> QED  BY <3>1, <3>2, <3>3
  <2> QED  BY <1>t, <2>1, <2>2, <2>3 DEF PassInv, PassHoldsIts
<1> QED  BY <1>1, <1>2, <1>3, <1>4, <1>5, <1>6 DEF Next, Around, Work, Starting

THEOREM CadenceInvariant == Spec => []PassInv
  BY PassInit, PassStep, PTL DEF Spec

-------------------------------------------------------------------------------
(* Nothing was asked for, taken up or collected ahead of the clock, nor collected after a pass *)
(* that still runs started.                                                                    *)
InOrder ==
  /\ requested # None => requested <= now
  /\ answered # None => answered <= now
  /\ \A p \in Provider : collected[p] # None => collected[p] <= now
  /\ pass.pc # "idle" => /\ pass.started <= now
                         /\ \A p \in Provider : collected[p] # None => collected[p] <= pass.started

(* A pass that kept its answers has collected what it was for. *)
KeptIsCollected ==
  pass.pc = "kept" => \A p \in pass.providers : collected[p] = pass.started

OwedInv == InOrder /\ KeptIsCollected /\ RequestIsOwed

LEMMA OwedInit == Init => OwedInv
  BY DEF Init, OwedInv, InOrder, KeptIsCollected, RequestIsOwed, StillOwed, NoPass

(* What stays when only the clock and who asks for a pass move. *)
LEMMA OwedStays ==
  ASSUME OwedInv, UNCHANGED <<pass, collected>>, Types, Types', PassHoldsIts, now <= now',
         requested' \in {requested, now}, answered' # None => answered' <= now,
         \/ answered' = None \/ dropped'
         \/ demand' \/ (waiting' /\ owed' = Provider) \/ owedFull' # None
         \/ /\ answered' = answered /\ (demand => demand') /\ (dropped => dropped')
            /\ waiting /\ owed = Provider => waiting' /\ owed' = Provider
            /\ owedFull # None => owedFull' # None
  PROVE  OwedInv'
<1> USE DEF OwedInv
<1>t. /\ now \in Int /\ now' \in Int
      /\ requested # None => requested \in Int
      /\ answered' # None => answered' \in Int
      /\ \A p \in Provider : collected[p] # None => collected[p] \in Int
  BY DEF Types, OrNone, Instant
<1>1. InOrder'
  <2>1. requested' # None => requested' <= now'
    BY <1>t DEF InOrder
  <2>2. answered' # None => answered' <= now'
    BY <1>t
  <2>3. \A p \in Provider : collected[p] # None => collected[p] <= now'
    BY <1>t DEF InOrder
  <2>4. pass.pc # "idle" => pass.started <= now'
    BY <1>t DEF InOrder, PassHoldsIts, Instant
  <2> QED  BY <2>1, <2>2, <2>3, <2>4 DEF InOrder
<1>2. KeptIsCollected'
  BY DEF KeptIsCollected
<1>3. RequestIsOwed'
  BY DEF RequestIsOwed, StillOwed, Collected
<1> QED  BY <1>1, <1>2, <1>3

LEMMA OwedStep == PassInv /\ PassInv' /\ OwedInv /\ [Next]_vars => OwedInv'
<1> SUFFICES ASSUME PassInv, PassInv', OwedInv, [Next]_vars PROVE OwedInv'
  OBVIOUS
<1>t. Types /\ Types' /\ PassHoldsIts
  BY DEF PassInv
<1>n. /\ now \in Int
      /\ requested # None => requested \in Int
      /\ answered # None => answered \in Int
      /\ \A p \in Provider : collected[p] # None => collected[p] \in Int
  BY <1>t DEF Types, OrNone, Instant
<1>o. InOrder /\ KeptIsCollected /\ RequestIsOwed
  BY DEF OwedInv
<1>1. CASE Tick \/ RequestCollection \/ (\E p \in Provider : OtherMacReads(p) \/ SignInChanges(p))
           \/ ManualRefresh \/ Restart
           \/ ReadFails \/ (\E t \in {"account", "pass"} : ReadAccount(t) \/ StoreAccount(t))
           \/ UNCHANGED vars
  <2>1. UNCHANGED <<pass, collected>> /\ requested' \in {requested, now}
    BY <1>1 DEF Tick, RequestCollection, OtherMacReads, SignInChanges, ManualRefresh, Restart, ReadFails, ReadAccount, StoreAccount, vars, accountVars, storedVars,
          memoryVars, historyVars
  <2>2. now <= now'
    BY <1>1, <1>n DEF Tick, RequestCollection, OtherMacReads, SignInChanges, ManualRefresh, Restart, ReadFails, ReadAccount, StoreAccount, vars
  <2>3. \/ answered' = answered
        \/ answered' = requested
        \/ answered' = None
    BY <1>1 DEF Tick, RequestCollection, OtherMacReads, SignInChanges, ManualRefresh, Restart, ReadFails, ReadAccount, StoreAccount, vars, memoryVars
  <2>4. answered' # None => answered' <= now
    BY <2>3, <1>o DEF InOrder
  <2>5. \/ answered' = None \/ dropped'
        \/ demand' \/ (waiting' /\ owed' = Provider) \/ owedFull' # None
        \/ /\ answered' = answered /\ (demand => demand') /\ (dropped => dropped')
           /\ waiting /\ owed = Provider => waiting' /\ owed' = Provider
           /\ owedFull # None => owedFull' # None
    <3>1. CASE Tick \/ RequestCollection \/ (\E p \in Provider : OtherMacReads(p) \/ SignInChanges(p))
               \/ ReadFails \/ (\E t \in {"account", "pass"} : StoreAccount(t)) \/ UNCHANGED vars
      BY <3>1 DEF Tick, RequestCollection, OtherMacReads, SignInChanges, ReadFails, StoreAccount, vars,
            memoryVars, historyVars
    <3>3. CASE ManualRefresh \/ Restart
      BY <3>3 DEF ManualRefresh, Restart
    <3>4. CASE \E t \in {"account", "pass"} : ReadAccount(t)
      <4>1. UNCHANGED <<waiting, owed, owedFull>>
        BY <3>4 DEF ReadAccount
      <4>2. CASE IsNews(requested, complete, answered, now)
        BY <3>4, <4>2 DEF ReadAccount
      <4>3. CASE ~IsNews(requested, complete, answered, now)
        <5>1. answered' = answered
          BY <3>4, <4>3 DEF ReadAccount
        <5>2. demand => demand'
          BY <3>4, Zenon DEF ReadAccount
        <5>3. dropped => dropped'
          BY <3>4, <4>3, <1>t DEF ReadAccount, Types
        <5> QED  BY <4>1, <5>1, <5>2, <5>3
      <4> QED  BY <4>2, <4>3
    <3> QED  BY <1>1, <3>1, <3>3, <3>4
  <2> QED  BY <1>t, <2>1, <2>2, <2>4, <2>5, OwedStays
<1>2. CASE Starting
  <2>1. NothingRead /\ (UNCHANGED <<pass, reader>> \/ Begins)
    BY <1>2, <1>t, StartingStarts
  <2>2. InOrder' /\ KeptIsCollected'
    <3>1. CASE UNCHANGED <<pass, reader>>
      BY <1>o, <2>1, <3>1 DEF NothingRead, InOrder, KeptIsCollected
    <3>2. CASE Begins
      <4>1. pass'.pc = "started" /\ pass'.started = now
        BY <3>2 DEF Begins, Begin, NoPass
      <4> QED  BY <1>n, <1>o, <2>1, <4>1 DEF NothingRead, InOrder, KeptIsCollected
    <3> QED  BY <2>1, <3>1, <3>2
  <2>3. RequestIsOwed'
    <3> SUFFICES ASSUME answered # None, ~dropped', ~Collected(answered) PROVE StillOwed'
      BY <2>1 DEF RequestIsOwed, StillOwed, NothingRead, Collected
    <3>1. answered <= now /\ answered' = answered /\ now \in Int /\ answered \in Int
      BY <1>n, <1>o, <2>1 DEF InOrder, NothingRead
    <3>2. ASSUME Begin(Provider, owedFull) \/ Begin(Provider, None) PROVE StillOwed'
      <4>1. pass'.providers = Provider /\ pass'.started = now
        BY <3>2 DEF Begin, NoPass
      <4> QED  BY <3>1, <4>1 DEF StillOwed
    <3>3. ASSUME pass.pc = "idle" PROVE pass.providers # Provider \/ Provider = {}
      BY <3>3, <1>t DEF PassHoldsIts, NoPass
    <3>4. Provider = {} => Collected(answered)
      BY DEF Collected
    <3>5. ASSUME ~dropped, pass.pc = "idle"
          PROVE  demand \/ (waiting /\ owed = Provider) \/ owedFull # None
      BY <1>o, <3>3, <3>4, <3>5 DEF RequestIsOwed, StillOwed
    <3>6. CASE AnswerDemand
      <4>1. RequestPass(Provider)
        BY <3>6 DEF AnswerDemand, RunDemanded
      <4>2. CASE Fold(Provider)
        <5>1. waiting' /\ owed' = Provider
          BY <1>t, <4>2 DEF Fold, Types
        <5> QED  BY <5>1 DEF StillOwed
      <4>3. CASE TakeLane(Provider)
        BY <3>2, <4>3 DEF TakeLane
      <4>4. CASE LoseLane(Provider)
        BY <4>4 DEF LoseLane
      <4> QED  BY <4>1, <4>2, <4>3, <4>4 DEF RequestPass
    <3>7. ASSUME NEW ps \in SUBSET Provider, RequestPass(ps) \/ Fold(ps) \/ TakeLane(ps),
                 UNCHANGED <<demand, owedFull>>
          PROVE  StillOwed'
      <4>1. CASE Fold(ps)
        <5>1. waiting' /\ owed' = owed \cup ps /\ UNCHANGED <<pass, dropped>>
          BY <4>1 DEF Fold
        <5>2. owed = Provider => owed' = Provider
          BY <1>t, <5>1 DEF Types
        <5> QED  BY <1>o, <2>1, <3>1, <3>7, <5>1, <5>2 DEF RequestIsOwed, StillOwed
      <4>2. CASE TakeLane(ps)
        <5>1. pass.pc = "idle" /\ Begin(ps, None) /\ ~dropped /\ ~Overrun(ps)
          BY <1>t, <4>2 DEF TakeLane, Types
        <5>2. CASE ps = Provider
          BY <3>2, <5>1, <5>2
        <5>3. CASE ps # Provider
          BY <3>5, <3>7, <5>1, <5>3 DEF Overrun, StillOwed
        <5> QED  BY <5>2, <5>3
      <4>3. CASE LoseLane(ps)
        <5>1. pass.pc = "idle" /\ ~dropped /\ ~Overrun(ps) /\ ps # Provider
          BY <1>t, <4>3 DEF LoseLane, Types
        <5> QED  BY <3>5, <3>7, <5>1 DEF Overrun, StillOwed
      <4> QED  BY <3>7, <4>1, <4>2, <4>3 DEF RequestPass
    <3>8. CASE TimedTick
      <4>1. PICK ps \in SUBSET {p \in Provider : IsDue(p)} : RequestPass(ps) /\ UNCHANGED <<demand, owedFull>>
        BY <3>8 DEF TimedTick
      <4>2. ps \in SUBSET Provider
        OBVIOUS
      <4> QED  BY <3>7, <4>1, <4>2
    <3>9. ASSUME NEW p \in Provider, CatchReset(p) PROVE StillOwed'
      <4>1. (Fold({p}) \/ TakeLane({p})) /\ UNCHANGED <<demand, owedFull>>
        BY <3>9 DEF CatchReset
      <4>2. {p} \in SUBSET Provider
        OBVIOUS
      <4> QED  BY <3>7, <4>1, <4>2
    <3>10. CASE StartFull
      BY <3>2, <3>10 DEF StartFull
    <3>11. CASE StartPending
      <4>1. /\ pass.pc = "idle" /\ owedFull = None /\ UNCHANGED <<demand, owedFull>>
            /\ \/ Begin(owed, None) /\ UNCHANGED dropped
               \/ dropped' = (dropped \/ owed = Provider)
        BY <3>11 DEF StartPending
      <4>2. ~dropped
        BY <1>t, <4>1 DEF Types
      <4>3. CASE demand
        BY <4>1, <4>3 DEF StillOwed
      <4>4. CASE owed = Provider
        BY <3>2, <4>1, <4>4
      <4> QED  BY <3>5, <4>1, <4>2, <4>3, <4>4
    <3> QED  BY <1>2, <3>6, <3>8, <3>9, <3>10, <3>11 DEF Starting
  <2> QED  BY <2>2, <2>3 DEF OwedInv
<1>3. CASE Judge
  <2>1. UNCHANGED <<now, requested, answered, demand, waiting, owed, owedFull, collected, dropped>>
        /\ pass'.started = pass.started /\ pass'.providers = pass.providers
        /\ pass.pc # "idle" /\ pass'.pc = "asking"
    BY <1>3, <1>t DEF Judge, accountVars, memoryVars, Types, PassType
  <2> QED  BY <1>o, <2>1 DEF OwedInv, InOrder, KeptIsCollected, RequestIsOwed, StillOwed, Collected
<1>4. CASE Keep
  <2>1. UNCHANGED <<now, requested, answered, demand, waiting, owed, owedFull, dropped>>
        /\ pass'.started = pass.started /\ pass'.providers = pass.providers
        /\ pass.pc # "idle" /\ pass'.pc = "kept"
        /\ collected' = [p \in Provider |-> IF p \in pass.providers THEN pass.started ELSE collected[p]]
    BY <1>4, <1>t DEF Keep, accountVars, memoryVars, Types, PassType
  <2>2. pass.started \in Int /\ pass.started # None
    BY <1>t, <2>1 DEF PassHoldsIts, Instant
  <2>3. pass.providers \subseteq Provider
    BY <1>t DEF Types, PassType
  <2>4. InOrder' /\ KeptIsCollected'
    BY <1>n, <1>o, <2>1, <2>2, <2>3 DEF InOrder, KeptIsCollected
  <2>5. answered # None => (Collected(answered) => Collected(answered)')
    <3>1. \A p \in Provider : collected[p] # None => collected'[p] # None /\ collected[p] <= collected'[p]
      BY <1>n, <1>o, <2>1, <2>2 DEF InOrder
    <3>2. \A p \in Provider : collected'[p] # None => collected'[p] \in Int
      BY <1>n, <2>1, <2>2
    <3> QED  BY <1>n, <2>1, <3>1, <3>2 DEF Collected
  <2>6. RequestIsOwed'
    BY <1>o, <2>1, <2>5 DEF RequestIsOwed, StillOwed
  <2> QED  BY <2>4, <2>6 DEF OwedInv
<1>5. CASE FinishPass
  <2>1. UNCHANGED <<now, requested, answered, demand, waiting, owed, owedFull, collected, dropped>>
        /\ pass.pc = "kept" /\ pass'.pc = "idle"
    BY <1>5 DEF FinishPass, accountVars, storedVars, historyVars, NoPass
  <2>2. pass.started \in Int /\ pass.started # None
    BY <1>t, <2>1 DEF PassHoldsIts, Instant
  <2>3. answered # None /\ pass.providers = Provider /\ pass.started >= answered => Collected(answered)
    BY <1>o, <2>1, <2>2 DEF KeptIsCollected, Collected
  <2> QED  BY <1>o, <2>1, <2>3 DEF OwedInv, InOrder, KeptIsCollected, RequestIsOwed, StillOwed, Collected
<1>6. CASE CutPass
  <2>1. UNCHANGED <<now, requested, answered, demand, waiting, owed, collected>> /\ pass'.pc = "idle"
        /\ \/ owedFull' = "change" /\ UNCHANGED dropped
           \/ UNCHANGED owedFull /\ dropped' = (dropped \/ pass.providers = Provider)
    BY <1>6 DEF CutPass, accountVars, NoPass
  <2>2. InOrder' /\ KeptIsCollected'
    BY <1>o, <2>1 DEF InOrder, KeptIsCollected
  <2>3. RequestIsOwed'
    <3>1. CASE owedFull' = "change"
      BY <3>1 DEF RequestIsOwed, StillOwed
    <3>2. CASE dropped'
      BY <3>2 DEF RequestIsOwed
    <3>3. CASE UNCHANGED owedFull /\ ~dropped /\ pass.providers # Provider
      BY <1>o, <2>1, <3>3 DEF RequestIsOwed, StillOwed, Collected
    <3> QED  BY <1>t, <2>1, <3>1, <3>2, <3>3 DEF Types
  <2> QED  BY <2>2, <2>3 DEF OwedInv
<1>7. CASE ResetCache
  <2>1. UNCHANGED <<now, requested, answered, pass, collected>> /\ owedFull' # None
    BY <1>7 DEF ResetCache, accountVars
  <2> QED  BY <1>o, <2>1 DEF OwedInv, InOrder, KeptIsCollected, RequestIsOwed, StillOwed
<1> QED  BY <1>1, <1>2, <1>3, <1>4, <1>5, <1>6, <1>7 DEF Next, Around, Work, Starting

(***************************************************************************)
(* A collection request that was taken up is never lost between the posted *)
(* signal, the pass that waits, the one that runs and the refresh a stop   *)
(* ends with (note_collection_request, maybe_start_pending).               *)
(***************************************************************************)
THEOREM TakenUpIsOwed == Spec => []RequestIsOwed
<1>1. OwedInv => RequestIsOwed
  BY DEF OwedInv
<1> QED  BY <1>1, OwedInit, OwedStep, CadenceInvariant, PTL DEF Spec

-------------------------------------------------------------------------------
BeingAsked(p) == pass.pc = "asking" /\ p \in pass.collect

(* The record of a provider tells when it was last asked, unless that ask was cut off. *)
LastIsRecorded ==
  /\ \A p \in Provider \ unkept : BeingAsked(p) \/ record[p].last = asked[p]
  /\ \A p \in Provider : BeingAsked(p) => asked[p] = pass.at
  /\ \A p \in Provider : record[p].raised # None => record[p].last # None

(* It tells until when the latest 429 holds a provider whose results named the account since. *)
LimitIsRecorded ==
  \A p \in Provider : held[p].named =>
    /\ p \in known
    /\ \/ held[p].backoff = 0
       \/ record[p].backoff # None /\ record[p].backoff.known /\ record[p].backoff.until = held[p].backoff
    /\ \/ held[p].raised = 0
       \/ record[p].raised # None /\ record[p].raised.known /\ record[p].raised.until = held[p].raised

WaitInv == LastIsRecorded /\ LimitIsRecorded

LEMMA WaitInit == Init => WaitInv
  BY DEF Init, WaitInv, LastIsRecorded, LimitIsRecorded, NoRecord, NotLimited, BeingAsked, NoPass

LEMMA KeepWaits == ASSUME PassInv, WaitInv, Keep PROVE WaitInv'
<1>t. Types /\ PassHoldsIts /\ LastIsRecorded /\ LimitIsRecorded
  BY DEF PassInv, WaitInv
<1>1. pass.pc = "asking" /\ pass'.pc = "kept" /\ UNCHANGED asked
  BY <1>t DEF Keep, Types, PassType
<1>2. PICK answer \in [pass.collect -> Answers] :
        /\ record' = Kept(answer)
        /\ known' = NamedAfter(answer)
        /\ held' = [p \in Provider |-> IF p \in pass.collect THEN Limited(p, answer[p])
                                       ELSE IF p \in pass.absent THEN [held[p] EXCEPT !.named = FALSE]
                                       ELSE held[p]]
        /\ unkept' = unkept \cup {p \in pass.collect : answer[p].outcome = "panicked"}
  BY Zenon DEF Keep
<1>3. /\ pass.at \in Instant /\ pass.at # None /\ pass.record = record
      /\ pass.collect \subseteq Provider /\ pass.collect \cap pass.absent = {}
  BY <1>1, <1>t DEF PassHoldsIts, Types, PassType, Instant
<1>4. ASSUME NEW p \in Provider \ pass.collect
      PROVE  /\ record'[p] = record[p]
             /\ \/ ~held'[p].named
                \/ held'[p] = held[p] /\ (p \in known' <=> p \in known)
  <2>1. record'[p] = record[p]
    BY <1>1, <1>2, <1>t, KeptTypes
  <2>2. CASE p \in pass.absent
    <3>1. held'[p] = [held[p] EXCEPT !.named = FALSE] /\ held[p] \in SomeLimit
      BY <1>2, <1>t, <2>2 DEF Types
    <3> QED  BY <2>1, <3>1 DEF SomeLimit
  <2>3. CASE p \notin pass.absent
    <3>1. held'[p] = held[p]
      BY <1>2, <2>3
    <3>2. p \in known' <=> p \in known
      BY <1>2, <2>3 DEF NamedAfter
    <3> QED  BY <2>1, <3>1, <3>2
  <2> QED  BY <2>2, <2>3
<1>5. ASSUME NEW p \in pass.collect
      PROVE  /\ answer[p] \in Answers /\ record[p] \in SomeRecord /\ held[p] \in SomeLimit
             /\ record'[p] = AfterAnswer(record[p], p \in known, answer[p], pass.at)
             /\ answer[p].outcome = "panicked" => record'[p] = record[p] /\ p \in unkept'
             /\ answer[p].outcome # "panicked" => record'[p].last = pass.at
             /\ held'[p] = Limited(p, answer[p])
             /\ p \in known' <=> (IF answer[p].outcome # "limited" THEN answer[p].outcome = "success"
                                                                  ELSE p \in known)
  <2>1. answer[p] \in Answers /\ record[p] \in SomeRecord /\ held[p] \in SomeLimit /\ p \in Provider
    BY <1>3, <1>t DEF Types
  <2>2. record'[p] = AfterAnswer(record[p], p \in known, answer[p], pass.at)
    BY <1>1, <1>2, <1>t, KeptTypes
  <2>4. /\ answer[p].outcome = "panicked" => record'[p] = record[p] /\ p \in unkept'
        /\ answer[p].outcome # "panicked" => record'[p].last = pass.at
    BY <1>2, <1>3, <2>1, <2>2, AnswerTypes
  <2>5. held'[p] = Limited(p, answer[p])
    BY <1>2, <2>1
  <2>6. p \in known' <=> (IF answer[p].outcome # "limited" THEN answer[p].outcome = "success"
                                                          ELSE p \in known)
    BY <1>2, <1>3, <2>1 DEF NamedAfter
  <2> QED  BY <2>1, <2>2, <2>4, <2>5, <2>6
<1>6. LastIsRecorded'
  <2>1. \A p \in Provider \ unkept' : record'[p].last = asked[p]
    BY <1>1, <1>2, <1>4, <1>5, <1>t DEF LastIsRecorded, BeingAsked
  <2>2. \A p \in Provider : record'[p].raised # None => record'[p].last # None
    BY <1>3, <1>4, <1>5, <1>t DEF LastIsRecorded
  <2> QED  BY <1>1, <2>1, <2>2 DEF LastIsRecorded, BeingAsked
<1>7. LimitIsRecorded'
  <2> SUFFICES ASSUME NEW p \in Provider, held'[p].named
               PROVE  /\ p \in known'
                      /\ \/ held'[p].backoff = 0
                         \/ /\ record'[p].backoff # None /\ record'[p].backoff.known
                            /\ record'[p].backoff.until = held'[p].backoff
                      /\ \/ held'[p].raised = 0
                         \/ /\ record'[p].raised # None /\ record'[p].raised.known
                            /\ record'[p].raised.until = held'[p].raised
    BY DEF LimitIsRecorded
  <2>1. CASE p \notin pass.collect
    BY <2>1, <1>4, <1>t DEF LimitIsRecorded
  <2>2. CASE p \in pass.collect /\ answer[p].outcome = "success"
    <3>1. held'[p] = [held[p] EXCEPT !.backoff = 0]
      BY <2>2, <1>5 DEF Limited
    <3>2. held'[p].backoff = 0 /\ held'[p].raised = held[p].raised /\ held[p].named
      BY <2>2, <3>1, <1>5 DEF SomeLimit
    <3>3. record'[p].raised = record[p].raised
      BY <2>2, <1>3, <1>5, AnswerTypes
    <3> QED  BY <2>2, <1>5, <1>t, <3>2, <3>3 DEF LimitIsRecorded
  <2>3. CASE p \in pass.collect /\ answer[p].outcome \in {"failed", "panicked"}
    <3>1. held'[p] = [held[p] EXCEPT !.named = FALSE]
      BY <2>3, <1>5 DEF Limited
    <3> QED  BY <2>3, <3>1, <1>5 DEF SomeLimit
  <2>4. CASE p \in pass.collect /\ answer[p].outcome = "limited"
    <3>1. held'[p] =
            [backoff |-> After429(record[p], p \in known, answer[p].retry, pass.at).until,
             raised |-> Capped(pass.at + RaisedSpan), named |-> p \in known]
      BY <2>4, <1>3, <1>5 DEF Limited
    <3>2. p \in known
      <4> SUFFICES ASSUME p \notin known PROVE FALSE
        OBVIOUS
      <4>1. (p \in known) = FALSE
        OBVIOUS
      <4>2. held'[p] =
              [backoff |-> After429(record[p], p \in known, answer[p].retry, pass.at).until,
               raised |-> Capped(pass.at + RaisedSpan), named |-> FALSE]
        BY <3>1, <4>1, Zenon
      <4> QED  BY <4>2
    <3>3. /\ After429(record[p], p \in known, answer[p].retry, pass.at) \in SomeBackoff
          /\ Raised429(p \in known, pass.at) \in SomeRaised
          /\ record'[p].backoff = After429(record[p], p \in known, answer[p].retry, pass.at)
          /\ record'[p].raised = Raised429(p \in known, pass.at)
      BY <2>4, <1>3, <1>5, AnswerTypes
    <3>4. record'[p].backoff # None /\ record'[p].raised # None
      BY <3>3 DEF SomeBackoff, SomeRaised
    <3>5. record'[p].backoff.known /\ record'[p].backoff.until = held'[p].backoff
      BY <3>1, <3>2, <3>3 DEF After429
    <3>6. record'[p].raised.known /\ record'[p].raised.until = held'[p].raised
      BY <3>1, <3>2, <3>3 DEF Raised429
    <3> QED  BY <2>4, <1>5, <3>2, <3>4, <3>5, <3>6
  <2> QED  BY <1>5, <2>1, <2>2, <2>3, <2>4 DEF Answers
<1> QED  BY <1>6, <1>7 DEF WaitInv

LEMMA WaitStep == PassInv /\ WaitInv /\ [Next]_vars => WaitInv'
<1> SUFFICES ASSUME PassInv, WaitInv, [Next]_vars PROVE WaitInv'
  OBVIOUS
<1>t. Types /\ PassHoldsIts /\ LastIsRecorded /\ LimitIsRecorded
  BY DEF PassInv, WaitInv
<1>1. CASE Tick \/ RequestCollection \/ (\E p \in Provider : OtherMacReads(p) \/ SignInChanges(p))
           \/ ManualRefresh \/ Restart
           \/ ReadFails \/ (\E t \in {"account", "pass"} : ReadAccount(t) \/ StoreAccount(t))
           \/ UNCHANGED vars
  <2>1. UNCHANGED <<known, record, pass, asked, unkept, held>>
    BY <1>1 DEF Tick, RequestCollection, OtherMacReads, SignInChanges, ManualRefresh, Restart, ReadFails, ReadAccount, StoreAccount, vars, accountVars, storedVars,
          memoryVars, historyVars
  <2> QED  BY <1>t, <2>1 DEF WaitInv, LastIsRecorded, LimitIsRecorded, BeingAsked
<1>2. CASE Starting
  <2>1. UNCHANGED <<known, record, asked, unkept, held>> /\ (UNCHANGED <<pass, reader>> \/ Begins)
    BY <1>2, <1>t, StartingStarts DEF NothingRead
  <2>2. Begins => pass.pc = "idle" /\ pass'.pc = "started"
    BY DEF Begins, Begin, NoPass
  <2> QED  BY <1>t, <2>1, <2>2 DEF WaitInv, LastIsRecorded, LimitIsRecorded, BeingAsked
<1>3. CASE Judge
  <2>1. UNCHANGED <<known, record, held>> /\ pass.pc = "started"
    BY <1>3 DEF Judge, storedVars
  <2>2. PICK may \in SUBSET Provider, none \in SUBSET Provider :
          /\ may \cap none = {}
          /\ pass' = [pass EXCEPT !.pc = "asking", !.at = now, !.record = record, !.collect = may,
                                  !.absent = none]
          /\ asked' = [p \in Provider |-> IF p \in may THEN now ELSE asked[p]]
          /\ unkept' = unkept \ may
    BY <1>3, <1>t, JudgeSplits
  <2>3. pass'.pc = "asking" /\ pass'.at = now /\ pass'.collect = may
    BY <1>t, <2>2 DEF Types, PassType
  <2>4. LastIsRecorded'
    BY <1>t, <2>1, <2>2, <2>3 DEF LastIsRecorded, BeingAsked
  <2> QED  BY <1>t, <2>1, <2>4 DEF WaitInv, LimitIsRecorded
<1>4. CASE Keep
  BY <1>4, KeepWaits
<1>5. CASE FinishPass
  <2>1. UNCHANGED <<known, record, asked, unkept, held>> /\ pass.pc = "kept" /\ pass'.pc = "idle"
    BY <1>5 DEF FinishPass, storedVars, historyVars, NoPass
  <2> QED  BY <1>t, <2>1 DEF WaitInv, LastIsRecorded, LimitIsRecorded, BeingAsked
<1>6. CASE CutPass
  <2>1. UNCHANGED <<known, record, asked, held>> /\ pass'.pc = "idle" /\ unkept' = unkept \cup pass.collect
    BY <1>6 DEF CutPass, storedVars, NoPass
  <2> QED  BY <1>t, <2>1 DEF WaitInv, LastIsRecorded, LimitIsRecorded, BeingAsked
<1>7. CASE ResetCache
  <2>1. UNCHANGED pass /\ pass.pc = "idle" /\ unkept' = Provider
        /\ \A p \in Provider : record'[p] = NoRecord
    BY <1>7 DEF ResetCache
  <2>2. \A p \in Provider : ~held'[p].named
    BY <1>7, <1>t DEF ResetCache, Types, SomeLimit
  <2> QED  BY <1>t, <2>1, <2>2 DEF WaitInv, LastIsRecorded, LimitIsRecorded, BeingAsked, NoRecord
<1> QED  BY <1>1, <1>2, <1>3, <1>4, <1>5, <1>6, <1>7 DEF Next, Around, Work, Starting

LEMMA JudgeAsks ==
  ASSUME PassInv, Judge, NEW p \in pass'.collect
  PROVE  MayAsk(p, pass.manual, record[p], p \in known, summary, now)
<1>1. pass'.collect = {q \in pass.providers :
                         MayAsk(q, pass.manual, record[q], q \in known, summary, now)} \cap present
  BY DEF PassInv, Judge, Types, PassType
<1> QED  BY <1>1

LEMMA AsksIsJudge == ASSUME PassInv, Next, NEW p \in Provider, Asks(p) PROVE Judge
<1>1. pass.pc = "started" /\ pass'.pc = "asking"
  BY DEF Asks
<1>2. pass' # pass
  BY <1>1
<1>3. ~(Keep \/ FinishPass \/ CutPass)
  BY <1>1 DEF Keep, FinishPass, CutPass, NoPass
<1>4. ~Starting
  BY <1>1, <1>2, StartingStarts DEF Begins, PassInv
<1>5. ~(Tick \/ RequestCollection \/ (\E q \in Provider : OtherMacReads(q) \/ SignInChanges(q))
        \/ ManualRefresh \/ Restart \/ ResetCache
        \/ ReadFails \/ (\E t \in {"account", "pass"} : ReadAccount(t) \/ StoreAccount(t)))
  BY <1>2 DEF Tick, RequestCollection, OtherMacReads, SignInChanges, ManualRefresh, Restart, ResetCache,
        ReadFails, ReadAccount, StoreAccount
<1> QED  BY <1>3, <1>4, <1>5 DEF Next, Around, Work, Starting

(* A gate that judges by such records lets nothing be asked too soon. *)
LEMMA JudgedInTime ==
  ASSUME PassInv, WaitInv, Judge, NEW p \in Provider \ unkept, p \in pass'.collect
  PROVE  InTime(p) /\ (~pass.manual /\ held[p].named => Outlasts(p))
<1>t. Types /\ LastIsRecorded /\ LimitIsRecorded
  BY DEF PassInv, WaitInv
<1>1. record[p].last = asked[p]
  BY <1>t DEF Judge, LastIsRecorded, BeingAsked
<1>2. MayAsk(p, pass.manual, record[p], p \in known, summary, now)
  BY JudgeAsks
<1>3. record[p] \in SomeRecord /\ now \in Int /\ held[p] \in SomeLimit
  BY <1>t DEF Types, Instant
<1>4. asked[p] # None => asked[p] \in Int
  BY <1>t DEF Types, OrNone, Instant
<1>5. FloorOf(p, record[p], p \in known, now) \in Int /\ FloorOf(p, record[p], p \in known, now) >= Floor[p]
  <2>1. Floor[p] \in Int /\ RaisedFloor \in Int
    OBVIOUS
  <2>2. CASE IsRaised(record[p], p \in known, now)
    BY <2>1, <2>2, LargerIs DEF FloorOf
  <2>3. CASE ~IsRaised(record[p], p \in known, now)
    BY <2>1, <2>3 DEF FloorOf
  <2> QED  BY <2>2, <2>3
<1>6. InTime(p)
  BY <1>1, <1>2, <1>3, <1>4, <1>5 DEF InTime, MayAsk, WaitedOut
<1>7. ASSUME ~pass.manual, held[p].named PROVE Outlasts(p)
  <2>1. /\ p \in known
        /\ \/ held[p].backoff = 0
           \/ record[p].backoff # None /\ record[p].backoff.known /\ record[p].backoff.until = held[p].backoff
        /\ \/ held[p].raised = 0
           \/ record[p].raised # None /\ record[p].raised.known /\ record[p].raised.until = held[p].raised
    BY <1>7, <1>t DEF LimitIsRecorded
  <2>2. held[p].backoff <= now
    <3>1. ~BackingOff(record[p], p \in known, now)
      BY <1>2, <1>7 DEF MayAsk
    <3>2. held[p].backoff \in Int /\ now >= 0
      BY <1>3, <1>t DEF SomeLimit, Types, Instant
    <3>3. CASE held[p].backoff = 0
      BY <3>2, <3>3, <1>3
    <3>4. CASE record[p].backoff # None /\ record[p].backoff.known /\ record[p].backoff.until = held[p].backoff
      <4>1. record[p].backoff.known = (p \in known)
        BY <2>1, <3>4, <1>3 DEF SomeRecord, SomeBackoff, OrNone
      <4>2. ~(record[p].backoff.until > now)
        BY <3>1, <3>4, <4>1 DEF BackingOff
      <4> QED  BY <3>2, <3>4, <4>2, <1>3
    <3> QED  BY <2>1, <3>3, <3>4
  <2>3. ASSUME held[p].raised > now PROVE now - asked[p] >= RaisedFloor
    <3>1. now >= 0 /\ held[p].raised \in Int
      BY <1>3, <1>t DEF SomeLimit, Types, Instant
    <3>2. record[p].raised # None /\ record[p].raised.known /\ record[p].raised.until = held[p].raised
      BY <1>3, <2>1, <2>3, <3>1
    <3>3. record[p].raised.known = (p \in known)
      BY <2>1, <3>2, <1>3 DEF SomeRecord, SomeRaised, OrNone
    <3>4. IsRaised(record[p], p \in known, now)
      BY <2>3, <3>2, <3>3 DEF IsRaised
    <3>5. asked[p] # None
      BY <1>1, <1>t, <3>2 DEF LastIsRecorded
    <3>6. FloorOf(p, record[p], p \in known, now) >= RaisedFloor
      BY <3>4, LargerIs DEF FloorOf
    <3>7. WaitedOut(record[p], FloorOf(p, record[p], p \in known, now), now)
      BY <1>2, <1>7 DEF MayAsk
    <3>8. now - asked[p] >= FloorOf(p, record[p], p \in known, now)
      BY <3>5, <3>7, <1>1 DEF WaitedOut
    <3> QED  BY <3>5, <3>6, <3>8, <1>3, <1>4, <1>5
  <2> QED  BY <2>2, <2>3 DEF Outlasts
<1> QED  BY <1>6, <1>7

(***************************************************************************)
(* Whatever mishaps there are, a provider whose last ask was recorded is   *)
(* not asked again inside its floor, and a 429 is waited out while the     *)
(* stored results name its account (collect_quota_pass, gate).             *)
(***************************************************************************)
THEOREM AskingWaits == Spec => AsksWait
<1>1. PassInv /\ WaitInv /\ [Next]_vars =>
        [\A p \in Provider \ unkept :
           Asks(p) => InTime(p) /\ (~pass.manual /\ held[p].named => Outlasts(p))]_vars
  <2> SUFFICES ASSUME PassInv, WaitInv, Next, NEW p \in Provider \ unkept, Asks(p)
               PROVE  InTime(p) /\ (~pass.manual /\ held[p].named => Outlasts(p))
    OBVIOUS
  <2>1. Judge
    BY AsksIsJudge
  <2> QED  BY <2>1, JudgedInTime DEF Asks
<1> QED  BY <1>1, CadenceInvariant, WaitInit, WaitStep, PTL DEF Spec, AsksWait

-------------------------------------------------------------------------------
Reader == {"account", "pass"}

AccountTypes ==
  /\ elsewhere \in [Provider -> OrNone(Instant)]
  /\ told \in [Provider -> OrNone(Instant)]
  /\ summary \in Account
  /\ reader \in [Reader -> [pc : {"idle", "due", "noted"}, value : Account]]

(* A reading is of the present or the past, and nobody reads one that is older. *)
NoLater(a, b) == \A p \in Provider : a[p] # None => b[p] # None /\ a[p] <= b[p]

(* Account reads that are stored one after another go forward, as the Account does. *)
ReadsGoForward ==
  /\ \A p \in Provider : elsewhere[p] # None => elsewhere[p] <= now
  /\ NoLater(summary.elsewhere, elsewhere)
  /\ \A t \in Reader : reader[t].pc = "noted" =>
       /\ NoLater(summary.elsewhere, reader[t].value.elsewhere)
       /\ NoLater(reader[t].value.elsewhere, elsewhere)
       /\ \A other \in Reader \ {t} : reader[other].pc # "noted"

(* What was shown is what is stored; the quota lane reads the Account after it has judged. *)
ShownIsStored ==
  /\ told = summary.elsewhere
  /\ pass.manual => pass.full
  /\ pass.pc \in {"started", "asking"} /\ ~pass.full => reader["pass"].pc # "noted"

SpareInv == AccountTypes /\ ReadsGoForward /\ ShownIsStored

LEMMA SpareInit == Init => SpareInv
  BY DEF Init, SpareInv, AccountTypes, ReadsGoForward, NoLater, ShownIsStored, NoPass, NoRead, Unread,
         Account, Reader, OrNone, Instant

LEMMA NewerIsLater ==
  ASSUME NEW a \in [Provider -> OrNone(Instant)], NEW b \in [Provider -> OrNone(Instant)], NoLater(a, b)
  PROVE  [p \in Provider |-> Newer(a[p], b[p])] = b
<1>1. \A p \in Provider : Newer(a[p], b[p]) = b[p]
  BY DEF Newer, NoLater, OrNone, Instant
<1> QED  BY <1>1

LEMMA SpareStep ==
  ASSUME "overtaken" \notin Mishaps, PassInv, PassInv', SpareInv, [Next]_vars
  PROVE  SpareInv'
<1>t. Types /\ PassHoldsIts /\ Types' /\ AccountTypes /\ ReadsGoForward /\ ShownIsStored
  BY DEF PassInv, SpareInv
<1>n. now \in Instant /\ now \in Int
  BY <1>t DEF Types, Instant
<1>1. CASE RequestCollection \/ (\E p \in Provider : SignInChanges(p)) \/ ManualRefresh \/ UNCHANGED vars
  <2>1. UNCHANGED <<now, elsewhere, told, summary, reader, pass>>
    BY <1>1 DEF RequestCollection, SignInChanges, ManualRefresh, vars, accountVars, storedVars, memoryVars,
          historyVars
  <2> QED  BY <1>t, <2>1 DEF SpareInv, AccountTypes, ReadsGoForward, ShownIsStored, NoLater
<1>2. CASE Tick
  <2>1. UNCHANGED <<elsewhere, told, summary, reader, pass>> /\ now' = now + 1
    BY <1>2 DEF Tick, accountVars, storedVars, historyVars
  <2>2. \A p \in Provider : elsewhere[p] # None => elsewhere[p] <= now + 1
    <3>1. \A p \in Provider : elsewhere[p] # None => elsewhere[p] \in Int
      BY <1>t DEF AccountTypes, OrNone, Instant
    <3> QED  BY <1>n, <1>t, <3>1 DEF ReadsGoForward
  <2> QED  BY <1>t, <2>1, <2>2 DEF SpareInv, AccountTypes, ReadsGoForward, ShownIsStored, NoLater
<1>3. ASSUME NEW q \in Provider, OtherMacReads(q) PROVE SpareInv'
  <2>1. UNCHANGED <<now, told, summary, reader, pass>> /\ elsewhere' = [elsewhere EXCEPT ![q] = now]
    BY <1>3 DEF OtherMacReads, storedVars, historyVars
  <2>2. \A p \in Provider : /\ elsewhere'[p] \in OrNone(Instant)
                            /\ elsewhere'[p] # None => elsewhere'[p] <= now
                            /\ elsewhere[p] # None => elsewhere'[p] # None /\ elsewhere[p] <= elsewhere'[p]
    BY <1>n, <1>t, <2>1 DEF AccountTypes, ReadsGoForward, OrNone, Instant
  <2>3. ASSUME NEW a \in [Provider -> OrNone(Instant)], NoLater(a, elsewhere) PROVE NoLater(a, elsewhere')
    <3> SUFFICES ASSUME NEW p \in Provider, a[p] # None
                 PROVE  elsewhere'[p] # None /\ a[p] <= elsewhere'[p]
      BY DEF NoLater
    <3>1. elsewhere[p] # None /\ a[p] <= elsewhere[p]
      BY <2>3 DEF NoLater
    <3>2. a[p] \in Int /\ elsewhere[p] \in Int /\ elsewhere'[p] \in Int
      BY <1>t, <2>2, <3>1 DEF AccountTypes, OrNone, Instant
    <3> QED  BY <2>2, <3>1, <3>2
  <2>4. NoLater(summary.elsewhere, elsewhere')
        /\ \A t \in Reader : reader[t].pc = "noted" => NoLater(reader[t].value.elsewhere, elsewhere')
    BY <1>t, <2>3 DEF AccountTypes, Account, ReadsGoForward
  <2>5. elsewhere' \in [Provider -> OrNone(Instant)]
    BY <1>n, <1>t, <2>1 DEF AccountTypes, OrNone
  <2> QED  BY <1>t, <2>1, <2>2, <2>4, <2>5 DEF SpareInv, AccountTypes, ReadsGoForward, ShownIsStored, NoLater
<1>4. ASSUME NEW t \in Reader, ReadAccount(t) PROVE SpareInv'
  <2>1. /\ UNCHANGED <<now, elsewhere, told, summary, pass>> /\ MayRead(t) /\ ~Overtakes(t)
        /\ reader' = [reader EXCEPT ![t] = [pc |-> "noted",
                                            value |-> [requested |-> requested, elsewhere |-> elsewhere]]]
    BY <1>4 DEF ReadAccount, accountVars, storedVars, historyVars, Mishap
  <2>2. [requested |-> requested, elsewhere |-> elsewhere] \in Account
    BY <1>t DEF Types, AccountTypes, Account
  <2>3. reader'[t].pc = "noted" /\ reader'[t].value.elsewhere = elsewhere
        /\ \A other \in Reader \ {t} : reader'[other] = reader[other] /\ reader[other].pc # "noted"
    BY <1>t, <2>1 DEF AccountTypes, Overtakes, Reader
  <2>4. AccountTypes'
    BY <1>t, <2>1, <2>2 DEF AccountTypes
  <2>5. NoLater(elsewhere, elsewhere)
    BY <1>t DEF NoLater, AccountTypes, OrNone, Instant
  <2>6. ReadsGoForward'
    BY <1>t, <2>1, <2>3, <2>5 DEF ReadsGoForward, NoLater
  <2>7. ShownIsStored'
    <3>1. t = "pass" /\ ~pass.full => pass.pc = "kept"
      BY <2>1 DEF MayRead
    <3> QED  BY <1>t, <2>1, <2>3, <3>1 DEF ShownIsStored, Reader
  <2> QED  BY <2>4, <2>6, <2>7 DEF SpareInv
<1>5. ASSUME NEW t \in Reader, StoreAccount(t) PROVE SpareInv'
  <2>1. /\ UNCHANGED <<now, elsewhere, pass>> /\ reader[t].pc = "noted"
        /\ summary' = reader[t].value /\ reader' = [reader EXCEPT ![t] = NoRead]
        /\ told' = [p \in Provider |-> Newer(told[p], reader[t].value.elsewhere[p])]
    BY <1>5 DEF StoreAccount, accountVars
  <2>2. reader[t].value \in Account /\ reader[t].value.elsewhere \in [Provider -> OrNone(Instant)]
        /\ summary.elsewhere \in [Provider -> OrNone(Instant)]
    BY <1>t DEF AccountTypes, Account
  <2>3. NoLater(summary.elsewhere, reader[t].value.elsewhere) /\ NoLater(reader[t].value.elsewhere, elsewhere)
        /\ \A other \in Reader \ {t} : reader[other].pc # "noted"
    BY <1>t, <2>1 DEF ReadsGoForward
  <2>4. told' = reader[t].value.elsewhere
    BY <1>t, <2>1, <2>2, <2>3, NewerIsLater DEF ShownIsStored
  <2>5. \A u \in Reader : reader'[u].pc # "noted"
    BY <1>t, <2>1, <2>3 DEF AccountTypes, NoRead
  <2>6. AccountTypes'
    <3>1. NoRead \in [pc : {"idle", "due", "noted"}, value : Account]
      BY DEF NoRead, Unread, Account, OrNone
    <3> QED  BY <1>t, <2>1, <2>2, <2>4, <3>1 DEF AccountTypes
  <2>7. ReadsGoForward'
    BY <1>t, <2>1, <2>3, <2>5 DEF ReadsGoForward, NoLater
  <2>8. ShownIsStored'
    BY <1>t, <2>1, <2>4, <2>5 DEF ShownIsStored, Reader
  <2> QED  BY <2>6, <2>7, <2>8 DEF SpareInv
<1>6. CASE Starting
  <2>1. /\ UNCHANGED <<now, elsewhere, told, summary>>
        /\ UNCHANGED <<pass, reader>> \/ Begins
    BY <1>6, <1>t, StartingStarts DEF NothingRead
  <2>2. CASE UNCHANGED <<pass, reader>>
    BY <1>t, <2>1, <2>2 DEF SpareInv, AccountTypes, ReadsGoForward, ShownIsStored, NoLater
  <2>3. CASE Begins
    <3>p. PICK ps \in SUBSET Provider : \E trigger : Begin(ps, trigger)
      BY <2>3 DEF Begins
    <3>1. PICK trigger : Begin(ps, trigger)
      BY <3>p
    <3>2. pass'.full = (trigger # None) /\ pass'.manual = (trigger = "manual")
          /\ reader' = [reader EXCEPT !["pass"].pc = "due"]
      BY <3>1 DEF Begin, NoPass
    <3>3. /\ reader' \in [Reader -> [pc : {"idle", "due", "noted"}, value : Account]]
          /\ reader'["pass"].pc = "due"
          /\ reader'["account"] = reader["account"]
      BY <1>t, <3>2 DEF AccountTypes, Reader
    <3>4. ReadsGoForward'
      BY <1>t, <2>1, <3>2, <3>3 DEF ReadsGoForward, NoLater, Reader
    <3>5. ShownIsStored'
      BY <1>t, <2>1, <3>2, <3>3 DEF ShownIsStored
    <3> QED  BY <1>t, <2>1, <3>3, <3>4, <3>5 DEF SpareInv, AccountTypes
  <2> QED  BY <2>1, <2>2, <2>3
<1>7. CASE Judge \/ Keep
  <2>1. UNCHANGED <<now, elsewhere, told, summary, reader>>
    BY <1>7 DEF Judge, Keep, accountVars, storedVars
  <2>2. pass'.full = pass.full /\ pass'.manual = pass.manual /\ (pass'.pc = "asking" => pass.pc = "started")
    <3>1. pass \in PassType
      BY <1>t DEF Types
    <3>2. CASE Judge
      <4>1. PICK at, records, may, none :
              pass' = [pass EXCEPT !.pc = "asking", !.at = at, !.record = records, !.collect = may,
                                  !.absent = none]
        BY <3>2 DEF Judge
      <4> QED  BY <3>1, <3>2, <4>1 DEF Judge, PassType
    <3>3. CASE Keep
      <4>1. pass' = [pass EXCEPT !.pc = "kept", !.record = None]
        BY <3>3 DEF Keep
      <4> QED  BY <3>1, <4>1 DEF PassType
    <3> QED  BY <1>7, <3>2, <3>3
  <2>3. pass'.pc \in {"asking", "kept"}
    BY <1>7, <1>t DEF Judge, Keep, Types, PassType
  <2>4. AccountTypes' /\ ReadsGoForward'
    BY <1>t, <2>1 DEF AccountTypes, ReadsGoForward, NoLater
  <2>5. ShownIsStored'
    BY <1>t, <2>1, <2>2, <2>3 DEF ShownIsStored
  <2> QED  BY <2>4, <2>5 DEF SpareInv
<1>8. CASE ReadFails \/ FinishPass \/ CutPass \/ Restart
  <2>1. UNCHANGED <<now, elsewhere, told, summary>>
    BY <1>8 DEF ReadFails, FinishPass, CutPass, Restart, accountVars, storedVars, historyVars
  <2>2. NoRead \in [pc : {"idle", "due", "noted"}, value : Account] /\ NoRead.pc # "noted"
    BY DEF NoRead, Unread, Account, OrNone
  <2>3. \A u \in Reader : reader'[u] = reader[u] \/ reader'[u] = NoRead
    BY <1>8, <1>t DEF ReadFails, FinishPass, CutPass, Restart, AccountTypes, Reader
  <2>4. reader' \in [Reader -> [pc : {"idle", "due", "noted"}, value : Account]]
    BY <1>8, <1>t, <2>2 DEF ReadFails, FinishPass, CutPass, Restart, AccountTypes, Reader
  <2>5. pass' = pass \/ pass' = NoPass
    BY <1>8 DEF ReadFails, FinishPass, CutPass, Restart
  <2>6. ReadsGoForward'
    BY <1>t, <2>1, <2>2, <2>3 DEF ReadsGoForward, NoLater
  <2>7. ShownIsStored'
    BY <1>t, <2>1, <2>2, <2>3, <2>5 DEF ShownIsStored, NoPass, Reader
  <2> QED  BY <1>t, <2>1, <2>4, <2>6, <2>7 DEF SpareInv, AccountTypes
<1>9. CASE ResetCache
  <2>1. /\ UNCHANGED <<now, elsewhere, pass, reader>> /\ summary' = Unread /\ told' = Unread.elsewhere
        /\ pass.pc = "idle" /\ \A u \in Reader : reader[u].pc = "idle"
    BY <1>9 DEF ResetCache, accountVars, Reader
  <2>2. Unread \in Account /\ Unread.elsewhere \in [Provider -> OrNone(Instant)]
        /\ \A p \in Provider : Unread.elsewhere[p] = None
    BY DEF Unread, Account, OrNone
  <2> QED  BY <1>t, <2>1, <2>2 DEF SpareInv, AccountTypes, ReadsGoForward, ShownIsStored, NoLater
<1> QED
  BY <1>1, <1>2, <1>3, <1>4, <1>5, <1>6, <1>7, <1>8, <1>9 DEF Next, Around, Work, Reader, Starting

(***************************************************************************)
(* When no Account read is overtaken before it is stored, the quota lane   *)
(* asks no provider that an Account read showed fresh: neither a stored    *)
(* one nor one still to store (collect_quota_pass, read_elsewhere).        *)
(***************************************************************************)
THEOREM ReadingsElsewhereAreSpared ==
  ASSUME "overtaken" \notin Mishaps PROVE Spec => SparesFreshReadings
<1>1. PassInv /\ PassInv' /\ SpareInv /\ [Next]_vars => SpareInv'
  BY SpareStep
<1>2. PassInv /\ SpareInv /\ [Next]_vars =>
        [\A p \in Provider :
           Asks(p) /\ ~pass.full /\ p \in known =>
             /\ ~ShownFresh(p, told)
             /\ \A t \in {"account", "pass"} :
                  reader[t].pc = "noted" => ~ShownFresh(p, reader[t].value.elsewhere)]_vars
  <2> SUFFICES ASSUME PassInv, SpareInv, Next, NEW p \in Provider, Asks(p), ~pass.full, p \in known
               PROVE  /\ ~ShownFresh(p, told)
                      /\ \A t \in {"account", "pass"} : reader[t].pc # "noted"
    OBVIOUS
  <2>1. Judge
    BY AsksIsJudge
  <2>2. ~Overtakes("pass")
    BY <2>1 DEF Judge, Mishap
  <2>3. \A t \in {"account", "pass"} : reader[t].pc # "noted"
    BY <2>1, <2>2 DEF Overtakes, SpareInv, ShownIsStored, Judge
  <2>4. MayAsk(p, pass.manual, record[p], p \in known, summary, now)
    BY <2>1, JudgeAsks DEF Asks
  <2>5. ~ReadElsewhere(p, p \in known, summary, now)
    BY <2>4 DEF MayAsk, SpareInv, ShownIsStored
  <2> QED  BY <2>3, <2>5 DEF ReadElsewhere, ShownFresh, SpareInv, ShownIsStored
<1> QED  BY <1>1, <1>2, CadenceInvariant, SpareInit, PTL DEF Spec, SparesFreshReadings

-------------------------------------------------------------------------------
(***************************************************************************)
(* What ADR 0063 says of the two, and where the code departs from it: a    *)
(* pass that is cut off, and a failure stored after a 429, are all that    *)
(* there is to it.                                                         *)
(***************************************************************************)
NothingCut == unkept = {}

NoCut == {"cut", "panicked", "emptied"} \cap Mishaps = {}

LEMMA CutStep == PassInv /\ NoCut /\ NothingCut /\ [Next]_vars => NothingCut'
<1> SUFFICES ASSUME PassInv, NoCut, unkept = {}, [Next]_vars PROVE unkept' = {}
  BY DEF NothingCut
<1>1. CASE Judge
  BY <1>1 DEF Judge
<1>2. CASE CutPass \/ ResetCache
  BY <1>2 DEF CutPass, ResetCache, Mishap, NoCut
<1>3. CASE Keep
  <2>1. PICK answer \in [pass.collect -> Answers] :
          /\ LET bad == {p \in pass.collect : answer[p].outcome # "success"} IN
             IF bad = {} THEN UNCHANGED events ELSE \E p \in bad : bad = {p} /\ Mishap(answer[p].outcome)
          /\ unkept' = unkept \cup {p \in pass.collect : answer[p].outcome = "panicked"}
    BY <1>3, Zenon DEF Keep
  <2>2. \A p \in pass.collect : answer[p].outcome # "panicked"
    BY <2>1 DEF Mishap, NoCut
  <2> QED  BY <2>1, <2>2
<1>4. CASE Starting
  BY <1>4, StartingStarts DEF PassInv, NothingRead
<1>5. CASE ~Judge /\ ~CutPass /\ ~ResetCache /\ ~Keep /\ ~Starting
  BY <1>5 DEF Next, Around, Work, Tick, RequestCollection, OtherMacReads, SignInChanges, ManualRefresh,
        Restart, ReadFails, ReadAccount, StoreAccount, FinishPass, vars, historyVars, Starting
<1> QED  BY <1>1, <1>2, <1>3, <1>4, <1>5

(* Inside its floor no provider is asked, when every ask is recorded and the records are kept. *)
THEOREM FloorsHoldUncut == ASSUME NoCut PROVE Spec => FloorsHold
<1>1. Init => NothingCut
  BY DEF Init, NothingCut
<1>2. PassInv /\ NothingCut /\ [Next]_vars => NothingCut'
  BY CutStep
<1>3. PassInv /\ WaitInv /\ NothingCut /\ [Next]_vars => [\A p \in Provider : Asks(p) => InTime(p)]_vars
  BY AsksIsJudge, JudgedInTime DEF NothingCut, Asks
<1> QED  BY <1>1, <1>2, <1>3, CadenceInvariant, WaitInit, WaitStep, PTL DEF Spec, FloorsHold

(* Every stored result names its account, when no provider fails to answer. *)
AllNamed == /\ known = Provider /\ present = Provider /\ pass.absent = {}
            /\ \A p \in Provider : held[p].named \/ held[p] = NotLimited

NoFailure == {"failed", "absent"} \cap Mishaps = {}

LEMMA NamedStep == NoCut /\ NoFailure /\ PassInv /\ AllNamed /\ [Next]_vars => AllNamed'
<1> SUFFICES ASSUME NoCut, NoFailure, PassInv, AllNamed, [Next]_vars PROVE AllNamed'
  OBVIOUS
<1>t. Types /\ PassHoldsIts
  BY DEF PassInv
<1>1. CASE Keep
  <2>1. PICK answer \in [pass.collect -> Answers] :
          /\ LET bad == {p \in pass.collect : answer[p].outcome # "success"} IN
             IF bad = {} THEN UNCHANGED events ELSE \E p \in bad : bad = {p} /\ Mishap(answer[p].outcome)
          /\ known' = NamedAfter(answer)
          /\ held' = [p \in Provider |-> IF p \in pass.collect THEN Limited(p, answer[p])
                                         ELSE IF p \in pass.absent THEN [held[p] EXCEPT !.named = FALSE]
                                         ELSE held[p]]
    BY <1>1, Zenon DEF Keep
  <2>2. ASSUME NEW p \in pass.collect PROVE answer[p].outcome \in {"success", "limited"}
    <3>1. answer[p].outcome \in {"success", "failed", "panicked", "limited"}
      BY DEF Answers
    <3>2. answer[p].outcome \notin {"failed", "panicked"}
      BY <2>1 DEF Mishap, NoCut, NoFailure
    <3> QED  BY <3>1, <3>2
  <2>3. known' = Provider
    BY <2>1, <2>2 DEF NamedAfter, AllNamed
  <2>4. ASSUME NEW p \in Provider PROVE held'[p].named \/ held'[p] = NotLimited
    <3>1. CASE p \notin pass.collect
      BY <2>1, <3>1 DEF AllNamed
    <3>2. CASE p \in pass.collect /\ answer[p].outcome = "success"
      <4>1. held'[p] = [held[p] EXCEPT !.backoff = 0] /\ held[p] \in SomeLimit
        BY <1>t, <2>1, <3>2 DEF Limited, Types
      <4> QED  BY <4>1 DEF AllNamed, NotLimited, SomeLimit
    <3>3. CASE p \in pass.collect /\ answer[p].outcome = "limited"
      <4>1. (p \in known) = TRUE
        BY DEF AllNamed
      <4>2. held'[p] =
              [backoff |-> After429(pass.record[p], p \in known, answer[p].retry, pass.at).until,
               raised |-> Capped(pass.at + RaisedSpan), named |-> p \in known]
        BY <2>1, <3>3 DEF Limited
      <4>3. held'[p] =
              [backoff |-> After429(pass.record[p], p \in known, answer[p].retry, pass.at).until,
               raised |-> Capped(pass.at + RaisedSpan), named |-> TRUE]
        BY <4>1, <4>2, Zenon
      <4> QED  BY <4>3
    <3> QED  BY <2>2, <3>1, <3>2, <3>3
  <2>5. UNCHANGED present /\ pass'.absent = {}
    BY <1>1, <1>t DEF Keep, accountVars, Types, PassType, AllNamed
  <2> QED  BY <2>3, <2>4, <2>5 DEF AllNamed
<1>2. CASE Starting
  <2>1. UNCHANGED <<known, held, present>> /\ (UNCHANGED <<pass, reader>> \/ Begins)
    BY <1>2, <1>t, StartingStarts DEF NothingRead
  <2>2. Begins => pass'.absent = {}
    BY DEF Begins, Begin, NoPass
  <2> QED  BY <2>1, <2>2 DEF AllNamed
<1>3. CASE Judge
  <2>1. UNCHANGED <<known, held, present>>
    BY <1>3 DEF Judge, accountVars, storedVars
  <2>2. pass'.absent = {}
    <3>1. pass'.absent = {p \in pass.providers :
                            MayAsk(p, pass.manual, record[p], p \in known, summary, now)} \ present
      BY <1>3, <1>t DEF Judge, Types, PassType
    <3> QED  BY <1>t, <3>1 DEF AllNamed, Types, PassType
  <2> QED  BY <2>1, <2>2 DEF AllNamed
<1>4. CASE ~Keep /\ ~Starting /\ ~Judge
  <2>1. UNCHANGED <<known, held, present>>
    BY <1>4 DEF Next, Around, Work, Tick, RequestCollection, OtherMacReads, SignInChanges, ManualRefresh,
          Restart, ReadFails, ReadAccount, StoreAccount, FinishPass, CutPass, ResetCache, vars, accountVars,
          storedVars, historyVars, Mishap, NoCut, NoFailure, Starting
  <2>2. pass'.absent = {}
    BY <1>4 DEF Next, Around, Work, Tick, RequestCollection, OtherMacReads, SignInChanges, ManualRefresh,
          Restart, ReadFails, ReadAccount, StoreAccount, FinishPass, CutPass, ResetCache, vars, NoPass,
          AllNamed, Starting
  <2> QED  BY <2>1, <2>2 DEF AllNamed
<1> QED  BY <1>1, <1>2, <1>3, <1>4

(* A 429 is waited out, when every ask is recorded and every answer names its account. *)
THEOREM LimitsHoldWhenNamed ==
  ASSUME NoCut, NoFailure PROVE Spec => LimitsHold
<1>1. Init => NothingCut /\ AllNamed
  BY DEF Init, NothingCut, AllNamed, NoPass
<1>2. PassInv /\ NothingCut /\ [Next]_vars => NothingCut'
  BY CutStep
<1>3. PassInv /\ AllNamed /\ [Next]_vars => AllNamed'
  BY NamedStep
<1>4. PassInv /\ WaitInv /\ NothingCut /\ AllNamed /\ [Next]_vars =>
        [\A p \in Provider : Asks(p) /\ ~pass.manual => Outlasts(p)]_vars
  <2> SUFFICES ASSUME PassInv, WaitInv, NothingCut, AllNamed, Next, NEW p \in Provider, Asks(p), ~pass.manual
               PROVE  Outlasts(p)
    OBVIOUS
  <2>1. CASE held[p].named
    BY <2>1, AsksIsJudge, JudgedInTime DEF NothingCut, Asks
  <2>2. CASE held[p] = NotLimited
    BY <2>2 DEF Outlasts, NotLimited, PassInv, Types, Instant
  <2> QED  BY <2>1, <2>2 DEF AllNamed
<1> QED  BY <1>1, <1>2, <1>3, <1>4, CadenceInvariant, WaitInit, WaitStep, PTL DEF Spec, LimitsHold
===============================================================================
