------------------------- MODULE RefreshLanes_proofs -------------------------
(***************************************************************************)
(* What the refresh lanes guarantee for any number of callers, lane        *)
(* threads and providers: types, one collector per component, a shutdown   *)
(* that reaches every refresh, a request made to wait that is started and  *)
(* stays manual, and a component shown at rest when nothing runs.          *)
(***************************************************************************)
EXTENDS RefreshLanes, TLAPS

USE DEF historyVars

(***************************************************************************)
(* The inductive invariant.  A thread registered for a lane is the one the *)
(* lane holds; a full refresh holds the process alone but for the Account  *)
(* lane; a thread about to spawn owns the slot it registered.              *)
(***************************************************************************)
HeldByItsThread ==
  \A s \in Slots : pc[s] \in Registered => held[job[s].lane] = s

FullExcludes ==
  held["full"] # None => held["quota"] = None /\ held["usage"] = None

ChildOwned ==
  /\ \A t \in Thread : pc[t] = "launch" => child[t] \in Slots /\ pc[child[t]] = "created"
  /\ \A t \in Thread : pc[t] = "unmark" => child[t] \in Slots /\ pc[child[t]] = "failed"
  /\ \A t, u \in Thread : child[t] # None /\ child[t] = child[u] => t = u
  /\ \A t \in Thread : child[t] # None => pc[t] \in {"launch", "unmark"}

RequestersHaveRequests == \A t \in Thread : pc[t] = "request" => todo[t] # <<>>

LaneInv ==
  TypeOK /\ HeldByItsThread /\ FullExcludes /\ ChildOwned /\ RequestersHaveRequests

LEMMA FreeSlotFree ==
  ASSUME \E slot \in Slots : pc[slot] = "free"
  PROVE  FreeSlot \in Slots /\ pc[FreeSlot] = "free"
BY DEF FreeSlot

LEMMA RequestTypes ==
  /\ \A t \in Trigger : Full(t) \in Request
  /\ \A ps \in SUBSET Provider, t \in Trigger : Quota(ps, t) \in Request
  /\ Usage \in Request
  /\ Account \in Request
BY DEF Full, Quota, Usage, Account, Request, Lane, Trigger

LEMMA ShortSequences ==
  ASSUME NEW S, NEW x \in S, NEW y \in S
  PROVE  /\ <<x>> \in Seq(S) /\ <<x>> # <<>>
         /\ <<x, y>> \in Seq(S) /\ <<x, y>> # <<>>
OBVIOUS

LEMMA ScriptType ==
  ASSUME NEW script \in Scripts
  PROVE  script \in Seq(Request) /\ script # <<>>
<1>1. /\ Full("manual") \in Request /\ Full("settings") \in Request
      /\ Usage \in Request /\ Account \in Request
      /\ \A ps \in SUBSET Provider : Quota(ps, "scheduled") \in Request
      /\ Quota(Provider, "demand") \in Request
  BY RequestTypes DEF Trigger
<1>2. CASE script \in {<<Full("manual")>>, <<Full("settings")>>, <<Account>>, <<Usage>>}
  BY <1>1, <1>2, ShortSequences, Zenon
<1>3. ASSUME NEW ps \in (SUBSET Provider) \ {{}}, script = <<Quota(ps, "scheduled")>>
      PROVE  script \in Seq(Request) /\ script # <<>>
  BY <1>1, <1>3, ShortSequences, Zenon
<1>4. ASSUME NEW ps \in (SUBSET Provider) \ {{}}, script = <<Quota(ps, "scheduled"), Usage>>
      PROVE  script \in Seq(Request) /\ script # <<>>
  BY <1>1, <1>4, ShortSequences, Zenon
<1>5. CASE script = <<Quota(Provider, "demand")>>
  BY <1>1, <1>5, ShortSequences, Zenon
<1> QED  BY <1>2, <1>3, <1>4, <1>5 DEF Scripts

LEMMA RestType ==
  ASSUME NEW t \in Thread
  PROVE  Idle(t) \in CallerPC \cup SlotPC /\ Rest(t) \in CallerPC \cup SlotPC
         /\ Continue(t) \in CallerPC \cup SlotPC
BY DEF Idle, Rest, Continue, CallerPC, SlotPC

LEMMA HeadType ==
  ASSUME TypeOK, NEW t \in Thread, todo[t] # <<>>
  PROVE  Head(todo[t]) \in Request /\ Tail(todo[t]) \in Seq(Request)
BY DEF TypeOK

LEMMA InitLaneInv == Init => LaneInv
<1> SUFFICES ASSUME Init PROVE LaneInv
  OBVIOUS
<1> USE ThreadsAssumption DEF Init
<1>0. Startup \in Slots
  BY DEF Startup
<1>1. TypeOK
  <2>1. pc \in [Thread -> CallerPC \cup SlotPC]
    BY DEF Idle, CallerPC, SlotPC, Registered
  <2>2. job \in [Slots -> Request]
    BY RequestTypes DEF Trigger
  <2>3. todo \in [Thread -> Seq(Request)]
    OBVIOUS
  <2>4. held \in [Lane -> Slots \cup {None}]
    BY <1>0
  <2> QED  BY <2>1, <2>2, <2>3, <2>4 DEF TypeOK
<1>2. HeldByItsThread
  <2> SUFFICES ASSUME NEW s \in Slots, pc[s] \in Registered PROVE held[job[s].lane] = s
    BY DEF HeldByItsThread
  <2>1. s = Startup
    BY DEF Registered, Idle, Thread
  <2> QED  BY <2>1 DEF Full, Lane
<1>3. FullExcludes /\ RequestersHaveRequests
  BY DEF FullExcludes, RequestersHaveRequests, Idle, Thread, Lane
<1>4. ChildOwned
  BY DEF ChildOwned, Idle, Thread
<1> QED  BY <1>1, <1>2, <1>3, <1>4 DEF LaneInv

(***************************************************************************)
(* The steps that move a thread through a request.                         *)
(***************************************************************************)
LEMMA FoldLaneInv ==
  ASSUME LaneInv, NEW t \in Thread, Fold(t)
  PROVE  LaneInv'
<1> DEFINE r == Head(todo[t])
<1>1. todo[t] # <<>> /\ r \in Request /\ Tail(todo[t]) \in Seq(Request)
  BY HeadType DEF LaneInv, RequestersHaveRequests, Fold
<1>2. r.lane \in Lane /\ r.trigger \in Trigger /\ r.providers \subseteq Provider
  BY <1>1 DEF Request
<1>3. Coalesce(pendingTrigger, r.trigger) \in Trigger \cup {None}
  BY <1>2 DEF LaneInv, TypeOK, Coalesce
<1>4. FoldQuotaTrigger(owedTrigger, r.trigger) \in Trigger \cup {None}
  BY <1>2 DEF LaneInv, TypeOK, FoldQuotaTrigger
<1>5. /\ pc' = [pc EXCEPT ![t] = Rest(t)]
      /\ Rest(t) \in {"idle", "free", "request"}
      /\ Rest(t) = "request" => Tail(todo[t]) # <<>>
      /\ todo' = [todo EXCEPT ![t] = Tail(@)]
      /\ pc[t] = "request" /\ UNCHANGED <<held, job, child>>
  BY DEF Fold, Rest, Idle
<1>6. TypeOK'
  <2>1. todo' \in [Thread -> Seq(Request)]
    BY <1>1, <1>5 DEF LaneInv, TypeOK
  <2>2. pc' \in [Thread -> CallerPC \cup SlotPC]
    BY <1>5 DEF LaneInv, TypeOK, CallerPC, SlotPC
  <2>3. /\ pending' \in [Lane -> BOOLEAN]
        /\ pendingTrigger' \in Trigger \cup {None}
        /\ owedTrigger' \in Trigger \cup {None}
        /\ owedProviders' \subseteq Provider
    BY <1>2, <1>3, <1>4 DEF Fold, LaneInv, TypeOK
  <2>4. owedManual' \in BOOLEAN /\ UNCHANGED <<cancel, shutdown, refreshing, asks, swept,
                        spawnFailed>>
    BY DEF Fold, LaneInv, TypeOK
  <2> QED  BY <1>5, <2>1, <2>2, <2>3, <2>4 DEF LaneInv, TypeOK
<1>7. HeldByItsThread' /\ FullExcludes' /\ ChildOwned' /\ RequestersHaveRequests'
  BY <1>1, <1>5
     DEF LaneInv, TypeOK, HeldByItsThread, FullExcludes, ChildOwned, RequestersHaveRequests,
         Registered, Thread
<1> QED  BY <1>6, <1>7 DEF LaneInv

LEMMA RegisterLaneInv ==
  ASSUME LaneInv, NEW t \in Thread, Register(t)
  PROVE  LaneInv'
<1> DEFINE r == Head(todo[t])
           s == FreeSlot
<1>1. todo[t] # <<>> /\ r \in Request /\ Tail(todo[t]) \in Seq(Request)
  BY HeadType DEF LaneInv, RequestersHaveRequests, Register
<1>2. r.lane \in Lane
  BY <1>1 DEF Request
<1>3. s \in Slots /\ pc[s] = "free" /\ s \in Thread
  BY FreeSlotFree DEF Register, Thread
<1>4. /\ pc[t] = "request" /\ t # s
      /\ held' = [held EXCEPT ![r.lane] = s]
      /\ job' = [job EXCEPT ![s] = r]
      /\ child' = [child EXCEPT ![t] = s]
      /\ pc' = [pc EXCEPT ![t] = "launch", ![s] = "created"]
      /\ todo' = [todo EXCEPT ![t] = Tail(@)]
      /\ \A l \in BlockedBy(r.lane) : held[l] = None
  BY <1>3 DEF Register, Blocked
<1>5. r.lane \in BlockedBy(r.lane)
      /\ (r.lane = "full" => "quota" \in BlockedBy(r.lane) /\ "usage" \in BlockedBy(r.lane))
      /\ (r.lane \in {"quota", "usage"} => "full" \in BlockedBy(r.lane))
  BY <1>2 DEF BlockedBy, Lane
<1>6. TypeOK'
  <2>1. /\ held' \in [Lane -> Slots \cup {None}]
        /\ job' \in [Slots -> Request]
        /\ child' \in [Thread -> Slots \cup {None}]
        /\ pc' \in [Thread -> CallerPC \cup SlotPC]
        /\ todo' \in [Thread -> Seq(Request)]
    BY <1>1, <1>2, <1>3, <1>4 DEF LaneInv, TypeOK, CallerPC, SlotPC, Registered
  <2>2. /\ pending' \in [Lane -> BOOLEAN]
        /\ cancel' \in [Slots -> BOOLEAN]
        /\ owedManual' \in BOOLEAN
        /\ UNCHANGED <<pendingTrigger, owedProviders, owedTrigger, shutdown, refreshing, asks,
                       swept, spawnFailed>>
    BY <1>2, <1>3 DEF Register, LaneInv, TypeOK
  <2> QED  BY <2>1, <2>2 DEF LaneInv, TypeOK
<1>7. HeldByItsThread'
  <2> SUFFICES ASSUME NEW x \in Slots, pc'[x] \in Registered
               PROVE  held'[job'[x].lane] = x
    BY DEF HeldByItsThread
  <2>1. CASE x = s
    BY <1>2, <1>3, <1>4, <2>1 DEF LaneInv, TypeOK
  <2>2. CASE x # s
    <3>1. pc[x] \in Registered /\ job'[x] = job[x]
      BY <1>3, <1>4, <2>2 DEF LaneInv, TypeOK, Registered, Thread
    <3>2. held[job[x].lane] = x /\ x # None
      BY <3>1, ThreadsAssumption DEF LaneInv, HeldByItsThread
    <3> QED  BY <1>2, <1>4, <1>5, <3>1, <3>2 DEF LaneInv, TypeOK, Lane
  <2> QED  BY <2>1, <2>2
<1>8. FullExcludes'
  BY <1>2, <1>3, <1>4, <1>5, ThreadsAssumption DEF LaneInv, TypeOK, FullExcludes, Lane
<1>9. ChildOwned'
  <2>1. \A u \in Thread : child[u] # s
    <3> SUFFICES ASSUME NEW u \in Thread, child[u] = s PROVE FALSE
      OBVIOUS
    <3>1. child[u] # None
      BY <1>3, ThreadsAssumption
    <3>2. pc[child[u]] \in {"created", "failed"}
      BY <3>1 DEF LaneInv, ChildOwned
    <3> QED  BY <1>3, <3>2
  <2>2. \A u \in Thread \ {t} : child'[u] = child[u]
    BY <1>4 DEF LaneInv, TypeOK
  <2>3. child'[t] = s
    BY <1>4 DEF LaneInv, TypeOK
  <2>4. \A u \in Thread \ {t, s} : pc'[u] = pc[u]
    BY <1>4 DEF LaneInv, TypeOK
  <2>5. pc'[t] = "launch" /\ pc'[s] = "created"
    BY <1>3, <1>4 DEF LaneInv, TypeOK
  <2>6. Slots \subseteq Thread
    BY DEF Thread
  <2>7. child[s] = None
    BY <1>3 DEF LaneInv, ChildOwned
  <2>8. ASSUME NEW u \in Thread, pc'[u] \in {"launch", "unmark"}, u # t
        PROVE  /\ pc'[u] = pc[u] /\ child'[u] = child[u] /\ child[u] \in Slots
               /\ pc'[child[u]] = pc[child[u]]
    <3>1. u # s /\ pc'[u] = pc[u] /\ child'[u] = child[u]
      BY <2>2, <2>4, <2>5, <2>8
    <3>2. child[u] \in Slots /\ pc[child[u]] \in {"created", "failed"}
      BY <2>8, <3>1 DEF LaneInv, ChildOwned
    <3>3. child[u] # t /\ child[u] # s
      BY <1>4, <2>1, <3>2
    <3> QED  BY <2>4, <2>6, <3>1, <3>2, <3>3
  <2>9. /\ \A u \in Thread : pc'[u] = "launch" => child'[u] \in Slots /\ pc'[child'[u]] = "created"
        /\ \A u \in Thread : pc'[u] = "unmark" => child'[u] \in Slots /\ pc'[child'[u]] = "failed"
    BY <1>3, <2>3, <2>5, <2>8 DEF LaneInv, ChildOwned
  <2>10. \A u, v \in Thread : child'[u] # None /\ child'[u] = child'[v] => u = v
    BY <2>1, <2>2, <2>3 DEF LaneInv, ChildOwned
  <2>11. \A u \in Thread : child'[u] # None => pc'[u] \in {"launch", "unmark"}
    BY <1>3, <2>2, <2>4, <2>5, <2>7 DEF LaneInv, ChildOwned
  <2> QED  BY <2>9, <2>10, <2>11 DEF ChildOwned
<1>10. RequestersHaveRequests'
  BY <1>3, <1>4 DEF LaneInv, TypeOK, RequestersHaveRequests
<1> QED  BY <1>6, <1>7, <1>8, <1>9, <1>10 DEF LaneInv

(***************************************************************************)
(* A thread that lets go of the slot it registered: the three steps that   *)
(* end a launch agree on what becomes of pc and child.                     *)
(***************************************************************************)
LEMMA LaunchEnds ==
  ASSUME LaneInv, NEW t \in Thread, pc[t] \in {"launch", "unmark"}, NEW next,
         pc' = [pc EXCEPT ![child[t]] = next, ![t] = Continue(t)],
         child' = [child EXCEPT ![t] = None], todo' = todo,
         next \in {"begin", "free"}
  PROVE  /\ pc' \in [Thread -> CallerPC \cup SlotPC]
         /\ child' \in [Thread -> Slots \cup {None}]
         /\ child[t] \in Slots /\ child[t] # t
         /\ pc'[child[t]] = next /\ pc'[t] \notin Registered
         /\ \A u \in Thread \ {t, child[t]} : pc'[u] = pc[u]
         /\ ChildOwned' /\ RequestersHaveRequests'
<1> DEFINE c == child[t]
<1>1. c \in Slots /\ pc[c] \in {"created", "failed"} /\ c # t /\ Slots \subseteq Thread
  BY DEF LaneInv, ChildOwned, Thread
<1>2. Continue(t) \in {"idle", "free", "request"} /\ (Continue(t) = "request" => todo[t] # <<>>)
  BY DEF Continue, Idle
<1>3. /\ pc' \in [Thread -> CallerPC \cup SlotPC]
      /\ pc'[c] = next /\ pc'[t] = Continue(t)
      /\ \A u \in Thread \ {t, c} : pc'[u] = pc[u]
      /\ child' \in [Thread -> Slots \cup {None}]
      /\ child'[t] = None
      /\ \A u \in Thread \ {t} : child'[u] = child[u]
  BY <1>1, <1>2 DEF LaneInv, TypeOK, CallerPC, SlotPC, Registered
<1>4. RequestersHaveRequests'
  BY <1>2, <1>3 DEF LaneInv, RequestersHaveRequests
<1>5. ChildOwned'
  <2>1. ASSUME NEW u \in Thread, pc'[u] \in {"launch", "unmark"}
        PROVE  u # t /\ u # c /\ pc'[u] = pc[u] /\ child'[u] = child[u]
               /\ child[u] \in Slots /\ pc'[child[u]] = pc[child[u]]
    <3>1. u # t /\ u # c
      BY <1>2, <1>3, <2>1
    <3>2. pc[u] \in {"launch", "unmark"} /\ child[u] \in Slots
          /\ pc[child[u]] \in {"created", "failed"} /\ child[u] # None
      BY <1>3, <2>1, <3>1, ThreadsAssumption DEF LaneInv, ChildOwned
    <3>3. child[u] # t /\ child[u] # c
      BY <3>1, <3>2 DEF LaneInv, ChildOwned
    <3> QED  BY <1>1, <1>3, <3>1, <3>2, <3>3
  <2>2. /\ \A u \in Thread : pc'[u] = "launch" => child'[u] \in Slots /\ pc'[child'[u]] = "created"
        /\ \A u \in Thread : pc'[u] = "unmark" => child'[u] \in Slots /\ pc'[child'[u]] = "failed"
    <3>1. ASSUME NEW u \in Thread, pc'[u] = "launch"
          PROVE  child'[u] \in Slots /\ pc'[child'[u]] = "created"
      <4>1. pc[u] = "launch" /\ child'[u] = child[u] /\ child[u] \in Slots
            /\ pc'[child[u]] = pc[child[u]]
        BY <2>1, <3>1
      <4> QED  BY <4>1 DEF LaneInv, ChildOwned
    <3>2. ASSUME NEW u \in Thread, pc'[u] = "unmark"
          PROVE  child'[u] \in Slots /\ pc'[child'[u]] = "failed"
      <4>1. pc[u] = "unmark" /\ child'[u] = child[u] /\ child[u] \in Slots
            /\ pc'[child[u]] = pc[child[u]]
        BY <2>1, <3>2
      <4> QED  BY <4>1 DEF LaneInv, ChildOwned
    <3> QED  BY <3>1, <3>2
  <2>3. \A u, v \in Thread : child'[u] # None /\ child'[u] = child'[v] => u = v
    BY <1>3 DEF LaneInv, ChildOwned
  <2>4. \A u \in Thread : child'[u] # None => pc'[u] \in {"launch", "unmark"}
    BY <1>1, <1>3 DEF LaneInv, ChildOwned
  <2> QED  BY <2>2, <2>3, <2>4 DEF ChildOwned
<1> QED  BY <1>1, <1>2, <1>3, <1>4, <1>5 DEF Registered

LEMMA LaunchLaneInv ==
  ASSUME LaneInv, NEW t \in Thread, Launch(t)
  PROVE  LaneInv'
<1> DEFINE c == child[t]
<1>1. /\ pc' \in [Thread -> CallerPC \cup SlotPC]
      /\ child' \in [Thread -> Slots \cup {None}]
      /\ c \in Slots /\ c # t /\ pc'[c] = "begin" /\ pc'[t] \notin Registered
      /\ \A u \in Thread \ {t, c} : pc'[u] = pc[u]
      /\ ChildOwned' /\ RequestersHaveRequests'
  BY LaunchEnds DEF Launch
<1>2. pc[c] = "created" /\ UNCHANGED <<held, job>>
  BY DEF Launch, LaneInv, ChildOwned, refreshVars
<1>3. HeldByItsThread' /\ FullExcludes'
  BY <1>1, <1>2 DEF LaneInv, HeldByItsThread, FullExcludes, Registered, Thread
<1>4. refreshing' \in [Component -> BOOLEAN]
  BY DEF Launch, Mark, LaneInv, TypeOK
<1>5. TypeOK'
  BY <1>1, <1>4 DEF Launch, LaneInv, TypeOK, refreshVars
<1> QED  BY <1>1, <1>3, <1>5 DEF LaneInv

LEMMA UnmarkLaneInv ==
  ASSUME LaneInv, NEW t \in Thread, Unmark(t)
  PROVE  LaneInv'
<1> DEFINE c == child[t]
<1>1. /\ pc' \in [Thread -> CallerPC \cup SlotPC]
      /\ child' \in [Thread -> Slots \cup {None}]
      /\ c \in Slots /\ c # t /\ pc'[c] = "free" /\ pc'[t] \notin Registered
      /\ \A u \in Thread \ {t, c} : pc'[u] = pc[u]
      /\ ChildOwned' /\ RequestersHaveRequests'
  BY LaunchEnds DEF Unmark
<1>2. job' = [job EXCEPT ![c] = Account] /\ UNCHANGED held
  BY DEF Unmark, refreshVars
<1>3. HeldByItsThread' /\ FullExcludes'
  BY <1>1, <1>2 DEF LaneInv, TypeOK, HeldByItsThread, FullExcludes, Registered, Thread
<1>4. /\ refreshing' \in [Component -> BOOLEAN]
      /\ job' \in [Slots -> Request]
      /\ cancel' \in [Slots -> BOOLEAN]
  <2>1. refreshing' \in [Component -> BOOLEAN]
    BY DEF Unmark, Mark, LaneInv, TypeOK
  <2>2. job' \in [Slots -> Request]
    BY <1>2, RequestTypes DEF LaneInv, TypeOK
  <2>3. cancel' \in [Slots -> BOOLEAN]
    BY DEF Unmark, LaneInv, TypeOK
  <2> QED  BY <2>1, <2>2, <2>3
<1>5. TypeOK'
  BY <1>1, <1>4 DEF Unmark, LaneInv, TypeOK, refreshVars
<1> QED  BY <1>1, <1>3, <1>5 DEF LaneInv

LEMMA LaunchFailsLaneInv ==
  ASSUME LaneInv, NEW t \in Thread, LaunchFails(t)
  PROVE  LaneInv'
<1> DEFINE c == child[t]
<1>1. c \in Slots /\ pc[c] = "created" /\ pc[t] = "launch" /\ c # t /\ Slots \subseteq Thread
  BY DEF LaunchFails, LaneInv, ChildOwned, Thread
<1>2. job[c].lane \in Lane
  BY <1>1 DEF LaneInv, TypeOK, Request
<1>3. /\ pc' \in [Thread -> CallerPC \cup SlotPC]
      /\ pc'[c] = "failed" /\ pc'[t] = "unmark"
      /\ \A u \in Thread \ {t, c} : pc'[u] = pc[u]
      /\ held' = [held EXCEPT ![job[c].lane] = None]
      /\ UNCHANGED <<child, job, todo>>
  BY <1>1 DEF LaunchFails, LaneInv, TypeOK, CallerPC, SlotPC
<1>4. HeldByItsThread'
  <2> SUFFICES ASSUME NEW x \in Slots, pc'[x] \in Registered
               PROVE  held'[job[x].lane] = x
    BY <1>3 DEF HeldByItsThread
  <2>1. x # c /\ pc[x] \in Registered
    BY <1>1, <1>3 DEF Registered
  <2>2. held[job[x].lane] = x /\ held[job[c].lane] = c
    BY <1>1, <2>1 DEF LaneInv, HeldByItsThread, Registered
  <2> QED  BY <1>2, <1>3, <2>1, <2>2 DEF LaneInv, TypeOK
<1>5. FullExcludes'
  BY <1>2, <1>3 DEF LaneInv, TypeOK, FullExcludes, Lane
<1>6. ChildOwned'
  <2>1. ASSUME NEW u \in Thread, pc'[u] \in {"launch", "unmark"}, u # t
        PROVE  pc'[u] = pc[u] /\ child[u] \in Slots /\ pc'[child[u]] = pc[child[u]]
    <3>1. u # c /\ pc[u] = pc'[u]
      BY <1>3, <2>1
    <3>2. child[u] \in Slots /\ pc[child[u]] \in {"created", "failed"} /\ child[u] # None
      BY <2>1, <3>1, ThreadsAssumption DEF LaneInv, ChildOwned
    <3>3. child[u] # t /\ child[u] # c
      BY <1>1, <2>1, <3>2 DEF LaneInv, ChildOwned
    <3> QED  BY <1>1, <1>3, <3>1, <3>2, <3>3
  <2>2. /\ \A u \in Thread : pc'[u] = "launch" => child[u] \in Slots /\ pc'[child[u]] = "created"
        /\ \A u \in Thread : pc'[u] = "unmark" => child[u] \in Slots /\ pc'[child[u]] = "failed"
    BY <1>1, <1>3, <2>1 DEF LaneInv, ChildOwned
  <2>3. \A u \in Thread : child[u] # None => pc'[u] \in {"launch", "unmark"}
    BY <1>1, <1>3 DEF LaneInv, ChildOwned
  <2> QED  BY <1>3, <2>2, <2>3 DEF LaneInv, ChildOwned
<1>7. RequestersHaveRequests'
  BY <1>3 DEF LaneInv, RequestersHaveRequests
<1>8. refreshing' \in [Component -> BOOLEAN] /\ held' \in [Lane -> Slots \cup {None}]
  BY <1>2, <1>3 DEF LaunchFails, Mark, LaneInv, TypeOK
<1>9. TypeOK'
  BY <1>3, <1>8 DEF LaunchFails, LaneInv, TypeOK
<1> QED  BY <1>4, <1>5, <1>6, <1>7, <1>9 DEF LaneInv

(***************************************************************************)
(* The steps of a lane thread.                                             *)
(***************************************************************************)
LEMMA BeginLaneInv ==
  ASSUME LaneInv, NEW s \in Slots, Begin(s)
  PROVE  LaneInv'
BY RequestTypes, ThreadsAssumption, RestType
   DEF Begin, LaneInv, TypeOK, HeldByItsThread, FullExcludes, ChildOwned, RequestersHaveRequests,
       Registered, Working, Idle, CallerPC, SlotPC, Thread, Lane, Component, Trigger,
       refreshVars, threadVars, Mark, CancelHeld

LEMMA PublishLaneInv ==
  ASSUME LaneInv, NEW s \in Slots, Publish(s)
  PROVE  LaneInv'
BY RequestTypes, ThreadsAssumption, RestType
   DEF Publish, LaneInv, TypeOK, HeldByItsThread, FullExcludes, ChildOwned, RequestersHaveRequests,
       Registered, Working, Idle, CallerPC, SlotPC, Thread, Lane, Component, Trigger,
       refreshVars, threadVars, Mark, CancelHeld

LEMMA ReturnLaneInv ==
  ASSUME LaneInv, NEW s \in Slots, Return(s)
  PROVE  LaneInv'
BY RequestTypes, ThreadsAssumption, RestType
   DEF Return, LaneInv, TypeOK, HeldByItsThread, FullExcludes, ChildOwned, RequestersHaveRequests,
       Registered, Working, Idle, CallerPC, SlotPC, Thread, Lane, Component, Trigger,
       refreshVars, threadVars, Mark, CancelHeld

LEMMA UnsetLaneInv ==
  ASSUME LaneInv, NEW s \in Slots, Unset(s)
  PROVE  LaneInv'
BY RequestTypes, ThreadsAssumption, RestType
   DEF Unset, LaneInv, TypeOK, HeldByItsThread, FullExcludes, ChildOwned, RequestersHaveRequests,
       Registered, Working, Idle, CallerPC, SlotPC, Thread, Lane, Component, Trigger,
       refreshVars, threadVars, Mark, CancelHeld

LEMMA WakeLaneInv ==
  ASSUME LaneInv, NEW s \in Slots, Wake(s)
  PROVE  LaneInv'
BY RequestTypes, ThreadsAssumption, RestType
   DEF Wake, LaneInv, TypeOK, HeldByItsThread, FullExcludes, ChildOwned, RequestersHaveRequests,
       Registered, Working, Idle, CallerPC, SlotPC, Thread, Lane, Component, Trigger,
       refreshVars, threadVars, Mark, CancelHeld

LEMMA TakeNothingLaneInv ==
  ASSUME LaneInv, NEW s \in Slots, TakeNothing(s)
  PROVE  LaneInv'
BY RequestTypes, ThreadsAssumption, RestType
   DEF TakeNothing, LaneInv, TypeOK, HeldByItsThread, FullExcludes, ChildOwned, RequestersHaveRequests,
       Registered, Working, Idle, CallerPC, SlotPC, Thread, Lane, Component, Trigger,
       refreshVars, threadVars, Mark, CancelHeld

LEMMA ClearLaneInv ==
  ASSUME LaneInv, NEW s \in Slots, Clear(s)
  PROVE  LaneInv'
<1>1. /\ s \in Thread /\ pc[s] = "clear" /\ job[s].lane \in Lane
      /\ held' = [held EXCEPT ![job[s].lane] = None]
      /\ pc' = [pc EXCEPT ![s] = "unset"]
      /\ UNCHANGED <<job, todo, child>>
  BY DEF Clear, LaneInv, TypeOK, Request, Thread
<1>2. TypeOK'
  BY <1>1 DEF Clear, LaneInv, TypeOK, SlotPC
<1>3. HeldByItsThread'
  <2> SUFFICES ASSUME NEW x \in Slots, pc'[x] \in Registered
               PROVE  held'[job[x].lane] = x
    BY <1>1 DEF HeldByItsThread
  <2>1. x # s /\ pc[x] \in Registered
    BY <1>1 DEF LaneInv, TypeOK, Registered, Thread
  <2>2. held[job[x].lane] = x /\ held[job[s].lane] = s
    BY <1>1, <2>1 DEF LaneInv, HeldByItsThread, Registered
  <2> QED  BY <1>1, <2>1, <2>2 DEF LaneInv, TypeOK
<1>4. FullExcludes'
  BY <1>1 DEF LaneInv, TypeOK, FullExcludes, Lane
<1>5. ChildOwned' /\ RequestersHaveRequests'
  BY <1>1 DEF LaneInv, TypeOK, ChildOwned, RequestersHaveRequests
<1> QED  BY <1>2, <1>3, <1>4, <1>5 DEF LaneInv

(***************************************************************************)
(* A thread that goes on to request something: nothing but its own pc and  *)
(* its own list of requests moves in what the invariant speaks of.         *)
(***************************************************************************)
LEMMA AskingKeepsLaneInv ==
  ASSUME LaneInv, NEW t \in Thread, NEW next, NEW requests \in Seq(Request),
         pc[t] \notin Registered \cup {"launch", "unmark", "failed"},
         next = "request" => requests # <<>>,
         next \in {"free", "request"},
         pc' = [pc EXCEPT ![t] = next],
         todo' = [todo EXCEPT ![t] = requests],
         UNCHANGED <<held, job, child>>
  PROVE  /\ HeldByItsThread' /\ FullExcludes' /\ ChildOwned' /\ RequestersHaveRequests'
         /\ pc' \in [Thread -> CallerPC \cup SlotPC] /\ todo' \in [Thread -> Seq(Request)]
<1>1. /\ pc' \in [Thread -> CallerPC \cup SlotPC]
      /\ todo' \in [Thread -> Seq(Request)]
  BY DEF LaneInv, TypeOK, CallerPC, SlotPC
<1>2. HeldByItsThread' /\ FullExcludes'
  BY DEF LaneInv, TypeOK, HeldByItsThread, FullExcludes, Registered, Thread
<1>3. ChildOwned'
  BY DEF LaneInv, TypeOK, ChildOwned, Registered, Thread
<1>4. RequestersHaveRequests'
  BY DEF LaneInv, TypeOK, RequestersHaveRequests
<1> QED  BY <1>1, <1>2, <1>3, <1>4

LEMMA TakeFullLaneInv ==
  ASSUME LaneInv, NEW s \in Slots, TakeFull(s)
  PROVE  LaneInv'
<1> DEFINE requests == <<Full(OrScheduled(pendingTrigger))>>
<1>1. OrScheduled(pendingTrigger) \in Trigger
  BY DEF LaneInv, TypeOK, OrScheduled, Trigger
<1>2. requests \in Seq(Request) /\ requests # <<>>
  BY <1>1, RequestTypes, ShortSequences, Zenon
<1>3. /\ s \in Thread /\ pc[s] = "take" /\ pc' = [pc EXCEPT ![s] = "request"]
      /\ todo' = [todo EXCEPT ![s] = requests] /\ UNCHANGED <<held, job, child>>
  BY DEF TakeFull, Thread
<1>4. /\ HeldByItsThread' /\ FullExcludes' /\ ChildOwned' /\ RequestersHaveRequests'
      /\ pc' \in [Thread -> CallerPC \cup SlotPC] /\ todo' \in [Thread -> Seq(Request)]
  BY <1>2, <1>3, AskingKeepsLaneInv DEF Registered
<1>5. TypeOK'
  BY <1>4 DEF TakeFull, LaneInv, TypeOK
<1> QED  BY <1>4, <1>5 DEF LaneInv

LEMMA TakeLanesLaneInv ==
  ASSUME LaneInv, NEW s \in Slots, TakeLanes(s)
  PROVE  LaneInv'
<1> DEFINE quota   == LanesIdle /\ pending["quota"]
           usage   == LanesIdle /\ pending["usage"]
           account == pending["account"] /\ ~Blocked("account")
           q == IF quota THEN <<Quota(owedProviders, OrScheduled(owedTrigger))>> ELSE <<>>
           u == IF usage THEN <<Usage>> ELSE <<>>
           a == IF account THEN <<Account>> ELSE <<>>
           taken == q \o u \o a
<1>1. OrScheduled(owedTrigger) \in Trigger /\ owedProviders \in SUBSET Provider
  BY DEF LaneInv, TypeOK, OrScheduled, Trigger
<1>2. q \in Seq(Request)
  BY <1>1, RequestTypes
<1>3. u \in Seq(Request) /\ a \in Seq(Request)
  BY RequestTypes
<1>4. taken \in Seq(Request)
  <2> HIDE DEF q, u, a
  <2> QED  BY <1>2, <1>3
<1>5. /\ s \in Thread /\ pc[s] = "take"
      /\ pc' = [pc EXCEPT ![s] = IF taken = <<>> THEN "free" ELSE "request"]
      /\ todo' = [todo EXCEPT ![s] = taken] /\ UNCHANGED <<held, job, child>>
  BY DEF TakeLanes, Thread
<1>6. /\ HeldByItsThread' /\ FullExcludes' /\ ChildOwned' /\ RequestersHaveRequests'
      /\ pc' \in [Thread -> CallerPC \cup SlotPC] /\ todo' \in [Thread -> Seq(Request)]
  <2> HIDE DEF taken
  <2> QED  BY <1>4, <1>5, AskingKeepsLaneInv DEF Registered
<1>7. owedProviders' \subseteq Provider /\ owedTrigger' \in Trigger \cup {None}
      /\ UNCHANGED <<held, pending, pendingTrigger, cancel, shutdown, refreshing, job, child,
                     asks, historyVars>>
  BY DEF TakeLanes, LaneInv, TypeOK
<1>8. TypeOK'
  BY <1>6, <1>7 DEF LaneInv, TypeOK
<1> QED  BY <1>6, <1>8 DEF LaneInv

(***************************************************************************)
(* The steps of a caller.                                                  *)
(***************************************************************************)
LEMMA AskLaneInv ==
  ASSUME LaneInv, NEW c \in Callers, Ask(c)
  PROVE  LaneInv'
<1> PICK script \in Scripts : todo' = [todo EXCEPT ![c] = script]
  BY DEF Ask
<1>1. script \in Seq(Request) /\ script # <<>>
  BY ScriptType
<1>2. /\ c \in Thread /\ pc[c] = "idle" /\ pc' = [pc EXCEPT ![c] = "request"]
      /\ UNCHANGED <<held, job, child>>
  BY DEF Ask, Thread, refreshVars
<1>3. /\ HeldByItsThread' /\ FullExcludes' /\ ChildOwned' /\ RequestersHaveRequests'
      /\ pc' \in [Thread -> CallerPC \cup SlotPC] /\ todo' \in [Thread -> Seq(Request)]
  BY <1>1, <1>2, AskingKeepsLaneInv DEF Registered
<1>4. TypeOK'
  BY <1>3 DEF Ask, LaneInv, TypeOK, refreshVars
<1> QED  BY <1>3, <1>4 DEF LaneInv

LEMMA LogoutCancelsLaneInv ==
  ASSUME LaneInv, NEW c \in Callers, LogoutCancels(c)
  PROVE  LaneInv'
BY RequestTypes, ThreadsAssumption, RestType
   DEF LogoutCancels, LaneInv, TypeOK, HeldByItsThread, FullExcludes, ChildOwned, RequestersHaveRequests,
       Registered, Working, Idle, CallerPC, SlotPC, Thread, Lane, Component, Trigger,
       refreshVars, threadVars, Mark, CancelHeld

LEMMA ShutdownLaneInv ==
  ASSUME LaneInv, NEW c \in Callers, Shutdown(c)
  PROVE  LaneInv'
BY RequestTypes, ThreadsAssumption, RestType
   DEF Shutdown, LaneInv, TypeOK, HeldByItsThread, FullExcludes, ChildOwned, RequestersHaveRequests,
       Registered, Working, Idle, CallerPC, SlotPC, Thread, Lane, Component, Trigger,
       refreshVars, threadVars, Mark, CancelHeld

LEMMA SweepLaneInv ==
  ASSUME LaneInv, NEW c \in Callers, Sweep(c)
  PROVE  LaneInv'
BY RequestTypes, ThreadsAssumption, RestType
   DEF Sweep, LaneInv, TypeOK, HeldByItsThread, FullExcludes, ChildOwned, RequestersHaveRequests,
       Registered, Working, Idle, CallerPC, SlotPC, Thread, Lane, Component, Trigger,
       refreshVars, threadVars, Mark, CancelHeld

LEMMA ResetBeginsLaneInv ==
  ASSUME LaneInv, NEW c \in Callers, ResetBegins(c)
  PROVE  LaneInv'
BY RequestTypes, ThreadsAssumption, RestType
   DEF ResetBegins, LaneInv, TypeOK, HeldByItsThread, FullExcludes, ChildOwned, RequestersHaveRequests,
       Registered, Working, Idle, CallerPC, SlotPC, Thread, Lane, Component, Trigger,
       refreshVars, threadVars, Mark, CancelHeld

LEMMA ResetPollsLaneInv ==
  ASSUME LaneInv, NEW c \in Callers, ResetPolls(c)
  PROVE  LaneInv'
BY RequestTypes, ThreadsAssumption, RestType
   DEF ResetPolls, LaneInv, TypeOK, HeldByItsThread, FullExcludes, ChildOwned, RequestersHaveRequests,
       Registered, Working, Idle, CallerPC, SlotPC, Thread, Lane, Component, Trigger,
       refreshVars, threadVars, Mark, CancelHeld

LEMMA ResetIsBusyLaneInv ==
  ASSUME LaneInv, NEW c \in Callers, ResetIsBusy(c)
  PROVE  LaneInv'
BY RequestTypes, ThreadsAssumption, RestType
   DEF ResetIsBusy, LaneInv, TypeOK, HeldByItsThread, FullExcludes, ChildOwned, RequestersHaveRequests,
       Registered, Working, Idle, CallerPC, SlotPC, Thread, Lane, Component, Trigger,
       refreshVars, threadVars, Mark, CancelHeld

LEMMA ResetLaneInv ==
  ASSUME LaneInv, NEW c \in Callers, Reset(c)
  PROVE  LaneInv'
BY RequestTypes, ThreadsAssumption, RestType
   DEF Reset, LaneInv, TypeOK, HeldByItsThread, FullExcludes, ChildOwned, RequestersHaveRequests,
       Registered, Working, Idle, CallerPC, SlotPC, Thread, Lane, Component, Trigger,
       refreshVars, threadVars, Mark, CancelHeld

LEMMA StepLaneInv == LaneInv /\ [Next]_vars => LaneInv'
<1> SUFFICES ASSUME LaneInv, [Next]_vars PROVE LaneInv'
  OBVIOUS
<1>1. ASSUME NEW t \in Thread, RequestStep(t) PROVE LaneInv'
  BY <1>1, FoldLaneInv, RegisterLaneInv, LaunchLaneInv, LaunchFailsLaneInv, UnmarkLaneInv
     DEF RequestStep
<1>2. ASSUME NEW s \in Slots, LaneStep(s) PROVE LaneInv'
  BY <1>2, BeginLaneInv, PublishLaneInv, ReturnLaneInv, ClearLaneInv, UnsetLaneInv,
     WakeLaneInv, TakeFullLaneInv, TakeLanesLaneInv, TakeNothingLaneInv
     DEF LaneStep
<1>3. ASSUME NEW c \in Callers, CallerStep(c) PROVE LaneInv'
  BY <1>3, AskLaneInv, LogoutCancelsLaneInv, ShutdownLaneInv, SweepLaneInv,
     ResetBeginsLaneInv, ResetPollsLaneInv, ResetIsBusyLaneInv, ResetLaneInv
     DEF CallerStep
<1>4. CASE UNCHANGED vars
  BY <1>4 DEF vars, refreshVars, threadVars, LaneInv, TypeOK, HeldByItsThread, FullExcludes,
              ChildOwned, RequestersHaveRequests
<1> QED  BY <1>1, <1>2, <1>3, <1>4 DEF Next

(***************************************************************************)
(* Every reachable state has the types of the source's fields, and every   *)
(* lane thread that still has its lane is the one the lane holds.          *)
(***************************************************************************)
THEOREM LaneInvariant == SafetySpec => []LaneInv
BY InitLaneInv, StepLaneInv, PTL DEF SafetySpec

(* The type invariant, for any number of threads and providers. *)
THEOREM Types == SafetySpec => []TypeOK
BY LaneInvariant, PTL DEF LaneInv

(***************************************************************************)
(* Two threads never collect quota, index Usage or poll the Account at     *)
(* once: what RefreshLane::blocked and request_full are for.               *)
(***************************************************************************)
LEMMA LaneInvOneCollector == LaneInv => OneCollector
<1> SUFFICES ASSUME LaneInv PROVE OneCollector
  OBVIOUS
<1>1. ASSUME NEW lanes, NEW x \in Collecting(lanes)
      PROVE  x \in Slots /\ job[x].lane \in lanes /\ held[job[x].lane] = x /\ x # None
  BY ThreadsAssumption DEF Collecting, Working, Registered, LaneInv, HeldByItsThread
<1>2. AtMostOne(Collecting({"full", "quota"}))
  BY <1>1 DEF AtMostOne, LaneInv, FullExcludes
<1>3. AtMostOne(Collecting({"full", "usage"}))
  BY <1>1 DEF AtMostOne, LaneInv, FullExcludes
<1>4. AtMostOne(Collecting({"account"}))
  BY <1>1 DEF AtMostOne
<1> QED  BY <1>2, <1>3, <1>4 DEF OneCollector

(* No two threads of the service ever collect, index or poll the same thing at once. *)
THEOREM OneCollectorAlways == SafetySpec => []OneCollector
BY LaneInvariant, LaneInvOneCollector, PTL

(***************************************************************************)
(* Shutdown.  The flag is up before the sweep, and what starts to run      *)
(* after it sees the flag; what ran before it is held, so the sweep finds  *)
(* it.  Nothing takes a cancel flag down under a working thread.           *)
(***************************************************************************)
StopInv ==
  /\ swept => shutdown
  /\ \A c \in Callers : pc[c] = "sweep" => shutdown
  /\ ShutdownReachesEveryRefresh

LEMMA StepStopInv == LaneInv /\ StopInv /\ [Next]_vars => StopInv'
<1> SUFFICES ASSUME LaneInv, StopInv, [Next]_vars PROVE StopInv'
  OBVIOUS
<1> USE DEF LaneInv, TypeOK, StopInv, ShutdownReachesEveryRefresh, Working, Thread,
            refreshVars, threadVars
<1>1. ASSUME NEW t \in Thread, Fold(t) PROVE StopInv'
  BY <1>1, ThreadsAssumption DEF Fold, Rest, Idle
<1>2. ASSUME NEW t \in Thread, Register(t) PROVE StopInv'
  BY <1>2, ThreadsAssumption, FreeSlotFree DEF Register
<1>3. ASSUME NEW t \in Thread, Launch(t) PROVE StopInv'
  BY <1>3, ThreadsAssumption DEF Launch, Continue, Idle, ChildOwned
<1>4. ASSUME NEW t \in Thread, LaunchFails(t) PROVE StopInv'
  BY <1>4, ThreadsAssumption DEF LaunchFails, ChildOwned
<1>5. ASSUME NEW t \in Thread, Unmark(t) PROVE StopInv'
  BY <1>5, ThreadsAssumption DEF Unmark, Continue, Idle, ChildOwned
<1>6. ASSUME NEW s \in Slots, Begin(s) PROVE StopInv'
  BY <1>6, ThreadsAssumption DEF Begin
<1>7. ASSUME NEW s \in Slots, Publish(s) PROVE StopInv'
  BY <1>7, ThreadsAssumption DEF Publish
<1>8. ASSUME NEW s \in Slots, Return(s) PROVE StopInv'
  BY <1>8, ThreadsAssumption DEF Return
<1>9. ASSUME NEW s \in Slots, Clear(s) PROVE StopInv'
  BY <1>9, ThreadsAssumption DEF Clear
<1>10. ASSUME NEW s \in Slots, Unset(s) PROVE StopInv'
  BY <1>10, ThreadsAssumption DEF Unset
<1>11. ASSUME NEW s \in Slots, Wake(s) PROVE StopInv'
  BY <1>11, ThreadsAssumption DEF Wake
<1>12. ASSUME NEW s \in Slots, TakeFull(s) PROVE StopInv'
  BY <1>12, ThreadsAssumption DEF TakeFull
<1>13. ASSUME NEW s \in Slots, TakeLanes(s) PROVE StopInv'
  BY <1>13, ThreadsAssumption DEF TakeLanes
<1>14. ASSUME NEW s \in Slots, TakeNothing(s) PROVE StopInv'
  BY <1>14, ThreadsAssumption DEF TakeNothing
<1>15. ASSUME NEW c \in Callers, Ask(c) PROVE StopInv'
  BY <1>15, ThreadsAssumption DEF Ask
<1>16. ASSUME NEW c \in Callers, LogoutCancels(c) PROVE StopInv'
  BY <1>16, ThreadsAssumption DEF LogoutCancels, CancelHeld, HeldByItsThread, Registered, Request
<1>17. ASSUME NEW c \in Callers, Shutdown(c) PROVE StopInv'
  BY <1>17, ThreadsAssumption DEF Shutdown
<1>18. ASSUME NEW c \in Callers, Sweep(c) PROVE StopInv'
  BY <1>18, ThreadsAssumption DEF Sweep, CancelHeld, HeldByItsThread, Registered, Request
<1>19. ASSUME NEW c \in Callers, ResetBegins(c) PROVE StopInv'
  BY <1>19, ThreadsAssumption DEF ResetBegins, CancelHeld, HeldByItsThread, Registered, Request
<1>20. ASSUME NEW c \in Callers, ResetPolls(c) PROVE StopInv'
  BY <1>20, ThreadsAssumption DEF ResetPolls
<1>21. ASSUME NEW c \in Callers, ResetIsBusy(c) PROVE StopInv'
  BY <1>21, ThreadsAssumption DEF ResetIsBusy
<1>22. ASSUME NEW c \in Callers, Reset(c) PROVE StopInv'
  BY <1>22, ThreadsAssumption DEF Reset
<1>23. CASE UNCHANGED vars
  BY <1>23 DEF vars
<1> QED
  BY <1>1, <1>2, <1>3, <1>4, <1>5, <1>6, <1>7, <1>8, <1>9, <1>10, <1>11, <1>12, <1>13, <1>14,
     <1>15, <1>16, <1>17, <1>18, <1>19, <1>20, <1>21, <1>22, <1>23
     DEF Next, RequestStep, LaneStep, CallerStep

(* After its sweep, shutdown has told every backend call that still goes on to stop. *)
THEOREM ShutdownReaches == SafetySpec => []ShutdownReachesEveryRefresh
<1>1. Init => StopInv
  BY ThreadsAssumption
     DEF Init, StopInv, ShutdownReachesEveryRefresh, Idle, Thread
<1>2. StopInv => ShutdownReachesEveryRefresh
  BY DEF StopInv
<1> QED  BY <1>1, <1>2, LaneInvariant, StepStopInv, PTL DEF SafetySpec
-------------------------------------------------------------------------------
(***************************************************************************)
(* What keeps waiting work from being forgotten.  A lane is held by a      *)
(* thread that has still to pass through maybe_start_pending, and only a   *)
(* thread that asks has requests to make.                                  *)
(***************************************************************************)
HolderIsRegistered ==
  \A l \in Lane : held[l] # None => held[l] \in Slots /\ pc[held[l]] \in Registered
                                    /\ job[held[l]].lane = l

AskersOwe ==
  \A s \in Slots : todo[s] # <<>> => pc[s] \in {"request", "launch", "unmark"}

(* The manual refresh that waits is the pending one, or the next request of a thread. *)
ManualWaits ==
  owedManual /\ ~shutdown /\ ~spawnFailed =>
    \/ pending["full"] /\ pendingTrigger = "manual"
    \/ \E s \in Slots : todo[s] # <<>> /\ Head(todo[s]) = Full("manual")

BacklogInv == HolderIsRegistered /\ AskersOwe /\ PendingHasAStarter /\ ManualWaits

(***************************************************************************)
(* A component shows as refreshing only while some thread has still to     *)
(* unmark it: the thread of its own lane, or a full refresh that has not   *)
(* yet applied it.                                                         *)
(***************************************************************************)
Unmarks(s, c) ==
  \/ /\ job[s].lane = c
     /\ pc[s] \in Registered \cup {"failed", "unset"}
  \/ /\ job[s].lane = "full"
     /\ \/ pc[s] \in {"created", "failed", "begin", "run"}
        \/ pc[s] = "shown" /\ c = "usage"

ShownIsUnmarked == \A c \in Component : refreshing[c] => \E s \in Slots : Unmarks(s, c)
LEMMA BacklogStep == LaneInv /\ BacklogInv /\ [Next]_vars => BacklogInv'
<1> SUFFICES ASSUME LaneInv, BacklogInv, [Next]_vars PROVE BacklogInv'
  OBVIOUS
<1> USE ThreadsAssumption
    DEF LaneInv, TypeOK, BacklogInv, HolderIsRegistered, AskersOwe, PendingHasAStarter, WillWake,
        Registered, Thread, refreshVars, threadVars
<1>0. \A l \in Lane : BlockedBy(l) \subseteq Lane
  BY DEF BlockedBy, Lane
<1>1. ASSUME NEW t \in Thread, Fold(t) PROVE BacklogInv'
  <2> DEFINE r == Head(todo[t])
  <2>1. todo[t] # <<>> /\ r \in Request /\ Tail(todo[t]) \in Seq(Request)
    BY <1>1, HeadType DEF RequestersHaveRequests, Fold
  <2>2. /\ pc[t] = "request" /\ Rest(t) \in {"idle", "free", "request"}
        /\ Tail(todo[t]) # <<>> => Rest(t) = "request"
        /\ \A u \in Thread \ {t} : pc'[u] = pc[u] /\ todo'[u] = todo[u]
        /\ pc'[t] = Rest(t) /\ todo'[t] = Tail(todo[t])
        /\ UNCHANGED <<held, job, shutdown, spawnFailed>>
    BY <1>1, <2>1 DEF Fold, Rest, Idle
  <2>3. PICK l \in Lane : held[l] # None
    <3>1. Blocked(r.lane) /\ BlockedBy(r.lane) \subseteq Lane
      BY <1>0, <1>1, <2>1 DEF Fold, Request
    <3> QED  BY <3>1 DEF Blocked
  <2>4. HolderIsRegistered' /\ AskersOwe'
    <3>1. HolderIsRegistered'
      BY <2>2
    <3>2. AskersOwe'
      BY <2>2
    <3> QED  BY <3>1, <3>2
  <2>5. PendingHasAStarter'
    <3>1. held[l] \in Slots /\ pc[held[l]] \in Registered
      BY <2>3
    <3>2. pc'[held[l]] = pc[held[l]]
      BY <2>2, <3>1
    <3> HIDE DEF LaneInv, TypeOK, HolderIsRegistered, AskersOwe, BacklogInv, Registered, r
    <3> QED  BY <3>1, <3>2
  <2>6. ManualWaits'
    <3>1. CASE r.lane = "full" /\ r.trigger = "manual"
      <4>1. pending'["full"] /\ pendingTrigger' = "manual"
        BY <1>1, <3>1 DEF Fold, Lane, Coalesce, Priority, Trigger
      <4> QED  BY <4>1 DEF ManualWaits
    <3>2. CASE ~(r.lane = "full" /\ r.trigger = "manual")
      <4>1. owedManual' = owedManual
        BY <1>1, <3>2 DEF Fold
      <4>2. pending["full"] /\ pendingTrigger = "manual" => pending'["full"] /\ pendingTrigger' = "manual"
        BY <1>1, <2>1 DEF Fold, Lane, Coalesce, Priority, Trigger, Request
      <4>3. r # Full("manual")
        BY <3>2 DEF Full
      <4> QED  BY <2>2, <4>1, <4>2, <4>3 DEF ManualWaits
    <3> QED  BY <3>1, <3>2
  <2> QED  BY <2>4, <2>5, <2>6
<1>2. ASSUME NEW t \in Thread, Register(t) PROVE BacklogInv'
  <2> DEFINE r == Head(todo[t])
             s == FreeSlot
  <2>1. todo[t] # <<>> /\ r \in Request /\ r.lane \in Lane
    BY <1>2, HeadType DEF RequestersHaveRequests, Register, Request
  <2>2. s \in Slots /\ pc[s] = "free" /\ s # t /\ pc[t] = "request"
    BY <1>2, FreeSlotFree DEF Register
  <2>3. /\ pc'[s] = "created" /\ pc'[t] = "launch" /\ \A u \in Thread \ {s, t} : pc'[u] = pc[u]
        /\ \A u \in Thread \ {t} : todo'[u] = todo[u]
        /\ held'[r.lane] = s /\ \A l \in Lane \ {r.lane} : held'[l] = held[l]
        /\ job'[s] = r /\ \A u \in Slots \ {s} : job'[u] = job[u]
        /\ pending'["full"] = pending["full"]
        /\ UNCHANGED <<pendingTrigger, shutdown, spawnFailed>>
    BY <1>2, <2>1, <2>2 DEF Register, Lane
  <2>4. HolderIsRegistered'
    <3> HIDE DEF LaneInv, TypeOK, AskersOwe, PendingHasAStarter
    <3>1. ASSUME NEW l \in Lane, l # r.lane, held[l] # None
          PROVE  /\ held[l] \in Slots /\ pc'[held[l]] \in Registered
                 /\ job'[held[l]].lane = l /\ held'[l] = held[l]
      BY <2>2, <2>3, <3>1
    <3>2. held'[r.lane] \in Slots /\ pc'[s] \in Registered /\ job'[s].lane = r.lane
      BY <2>2, <2>3
    <3> HIDE DEF s, r, Registered
    <3> QED  BY <2>3, <3>1, <3>2
  <2>5. AskersOwe'
    <3> HIDE DEF LaneInv, TypeOK, PendingHasAStarter, HolderIsRegistered
    <3>1. todo'[s] = <<>>
      BY <2>2, <2>3
    <3> HIDE DEF s
    <3> QED  BY <2>2, <2>3, <3>1
  <2>6. PendingHasAStarter'
    BY <2>2, <2>3
  <2>7. ManualWaits'
    <3>1. owedManual' => owedManual /\ r # Full("manual")
      <4>1. Full("manual").lane = "full" /\ Full("manual").trigger = "manual"
        BY DEF Full
      <4>2. owedManual' = (owedManual /\ ~(r.lane = "full" /\ r.trigger = "manual"))
        BY <1>2 DEF Register
      <4> HIDE DEF r, LaneInv, TypeOK, HolderIsRegistered, AskersOwe, PendingHasAStarter, BacklogInv
      <4>3. r = Full("manual") => r.lane = "full" /\ r.trigger = "manual"
        BY <4>1
      <4> QED  BY <4>2, <4>3
    <3> QED  BY <2>3, <3>1 DEF ManualWaits
  <2> QED  BY <2>4, <2>5, <2>6, <2>7
<1>3. ASSUME NEW t \in Thread, Launch(t) PROVE BacklogInv'
  BY <1>3 DEF Launch, Continue, Idle, ChildOwned, ManualWaits
<1>4. ASSUME NEW t \in Thread, LaunchFails(t) PROVE BacklogInv'
  <2> DEFINE c == child[t]
  <2>1. c \in Slots /\ pc[c] = "created" /\ pc[t] = "launch" /\ c # t /\ job[c].lane \in Lane
    BY <1>4 DEF LaunchFails, ChildOwned, Request
  <2>2. /\ pc'[c] = "failed" /\ pc'[t] = "unmark" /\ \A u \in Thread \ {c, t} : pc'[u] = pc[u]
        /\ held'[job[c].lane] = None /\ \A l \in Lane \ {job[c].lane} : held'[l] = held[l]
        /\ spawnFailed' /\ UNCHANGED <<job, todo>>
    BY <1>4, <2>1 DEF LaunchFails
  <2>3. HolderIsRegistered'
    <3> HIDE DEF LaneInv, TypeOK, AskersOwe, PendingHasAStarter
    <3>1. ASSUME NEW l \in Lane, l # job[c].lane, held[l] # None
          PROVE  held[l] \in Slots /\ pc'[held[l]] \in Registered
      BY <2>1, <2>2, <3>1
    <3> HIDE DEF Registered
    <3> QED  BY <2>2, <3>1
  <2>4. AskersOwe'
    <3> HIDE DEF LaneInv, TypeOK, HolderIsRegistered, PendingHasAStarter
    <3> QED  BY <2>1, <2>2
  <2> QED  BY <2>2, <2>3, <2>4 DEF ManualWaits
<1>5. ASSUME NEW t \in Thread, Unmark(t) PROVE BacklogInv'
  <2> DEFINE c == child[t]
  <2>1. c \in Slots /\ pc[c] = "failed" /\ pc[t] = "unmark" /\ c # t
    BY <1>5 DEF Unmark, ChildOwned
  <2>2. /\ pc'[c] = "free" /\ pc'[t] \in {"idle", "free", "request"}
        /\ todo[t] # <<>> => pc'[t] = "request"
        /\ \A u \in Thread \ {c, t} : pc'[u] = pc[u]
        /\ \A u \in Slots \ {c} : job'[u] = job[u]
        /\ UNCHANGED <<held, pending, pendingTrigger, todo, shutdown, owedManual, spawnFailed>>
    BY <1>5, <2>1 DEF Unmark, Continue, Idle
  <2>3. HolderIsRegistered'
    <3> HIDE DEF LaneInv, TypeOK, AskersOwe, PendingHasAStarter
    <3>1. ASSUME NEW l \in Lane, held[l] # None
          PROVE  held[l] \in Slots /\ pc'[held[l]] \in Registered /\ job'[held[l]] = job[held[l]]
      BY <2>1, <2>2, <3>1
    <3> HIDE DEF Registered
    <3> QED  BY <2>2, <3>1
  <2>4. AskersOwe'
    <3> HIDE DEF LaneInv, TypeOK, HolderIsRegistered, PendingHasAStarter
    <3> QED  BY <2>1, <2>2
  <2>5. PendingHasAStarter'
    BY <2>1, <2>2
  <2>6. ManualWaits'
    BY <2>2 DEF ManualWaits
  <2> QED  BY <2>3, <2>4, <2>5, <2>6
<1>6. ASSUME NEW s \in Slots, Begin(s) PROVE BacklogInv'
  BY <1>6 DEF Begin, ManualWaits
<1>7. ASSUME NEW s \in Slots, Publish(s) PROVE BacklogInv'
  BY <1>7 DEF Publish, ManualWaits
<1>8. ASSUME NEW s \in Slots, Return(s) PROVE BacklogInv'
  BY <1>8 DEF Return, Working, ManualWaits
<1>9. ASSUME NEW s \in Slots, Clear(s) PROVE BacklogInv'
  BY <1>9 DEF Clear, ManualWaits
<1>10. ASSUME NEW s \in Slots, Unset(s) PROVE BacklogInv'
  BY <1>10 DEF Unset, ManualWaits
<1>11. ASSUME NEW s \in Slots, Wake(s) PROVE BacklogInv'
  BY <1>11 DEF Wake, ManualWaits
<1>12. ASSUME NEW s \in Slots, TakeFull(s) PROVE BacklogInv'
  <2>1. /\ pc[s] = "take" /\ pc'[s] = "request" /\ \A u \in Thread \ {s} : pc'[u] = pc[u]
        /\ todo'[s] = <<Full(OrScheduled(pendingTrigger))>> /\ \A u \in Thread \ {s} : todo'[u] = todo[u]
        /\ UNCHANGED <<held, job, shutdown, owedManual, spawnFailed>>
    BY <1>12 DEF TakeFull
  <2>2. todo'[s] # <<>> /\ Head(todo'[s]) = Full(OrScheduled(pendingTrigger))
    BY <2>1
  <2>3. HolderIsRegistered' /\ AskersOwe'
    BY <2>1
  <2>4. PendingHasAStarter'
    BY <2>2
  <2>5. ManualWaits'
    <3>1. pendingTrigger = "manual" => OrScheduled(pendingTrigger) = "manual"
      BY DEF OrScheduled
    <3>2. \A u \in Slots \ {s} : todo'[u] = todo[u]
      BY <2>1
    <3>3. todo[s] = <<>>
      BY <2>1
    <3>4. pendingTrigger = "manual" => Head(todo'[s]) = Full("manual")
      BY <2>2, <3>1
    <3>5. ASSUME NEW u \in Slots, todo[u] # <<>>, Head(todo[u]) = Full("manual")
          PROVE  todo'[u] # <<>> /\ Head(todo'[u]) = Full("manual")
      BY <3>2, <3>3, <3>5
    <3> QED  BY <2>1, <2>2, <3>4, <3>5 DEF ManualWaits
  <2> QED  BY <2>3, <2>4, <2>5
<1>13. ASSUME NEW s \in Slots, TakeLanes(s) PROVE BacklogInv'
  <2>1. PICK taken : /\ todo' = [todo EXCEPT ![s] = taken]
                     /\ pc' = [pc EXCEPT ![s] = IF taken = <<>> THEN "free" ELSE "request"]
                     /\ taken = <<>> => /\ ~(LanesIdle /\ pending["quota"])
                                        /\ ~(LanesIdle /\ pending["usage"])
                                        /\ ~(pending["account"] /\ ~Blocked("account"))
    <3> DEFINE quota   == LanesIdle /\ pending["quota"]
               usage   == LanesIdle /\ pending["usage"]
               account == pending["account"] /\ ~Blocked("account")
               q == IF quota THEN <<Quota(owedProviders, OrScheduled(owedTrigger))>> ELSE <<>>
               u == IF usage THEN <<Usage>> ELSE <<>>
               a == IF account THEN <<Account>> ELSE <<>>
               work == q \o u \o a
    <3>1. /\ todo' = [todo EXCEPT ![s] = work]
          /\ pc' = [pc EXCEPT ![s] = IF work = <<>> THEN "free" ELSE "request"]
      BY <1>13 DEF TakeLanes
    <3>2. /\ q \in Seq(Request) /\ u \in Seq(Request) /\ a \in Seq(Request)
          /\ OrScheduled(owedTrigger) \in Trigger /\ owedProviders \in SUBSET Provider
      BY RequestTypes DEF OrScheduled, Trigger
    <3>3. work = <<>> => q = <<>> /\ u = <<>> /\ a = <<>>
      <4> HIDE DEF q, u, a
      <4> QED  BY <3>2
    <3>4. work = <<>> => ~quota /\ ~usage /\ ~account
      <4> HIDE DEF quota, usage, account, work
      <4> QED  BY <3>3
    <3> HIDE DEF work
    <3> QED  BY <3>1, <3>4
  <2>2. /\ pc[s] = "take" /\ todo[s] = <<>> /\ ~pending["full"]
        /\ UNCHANGED <<held, job, pending, pendingTrigger, shutdown, owedManual, spawnFailed>>
    BY <1>13 DEF TakeLanes
  <2>3. HolderIsRegistered' /\ AskersOwe'
    BY <2>1, <2>2
  <2>4. PendingHasAStarter'
    <3>1. CASE taken # <<>>
      BY <2>1, <3>1
    <3>2. CASE taken = <<>> /\ \E l \in Lane : pending[l]
      <4>1. \E l \in Lane : held[l] # None
        BY <1>0, <2>1, <2>2, <3>2 DEF LanesIdle, Blocked, Lane
      <4> QED  BY <2>1, <2>2, <4>1
    <3> QED  BY <2>2, <3>1, <3>2
  <2>5. ManualWaits'
    BY <2>1, <2>2 DEF ManualWaits
  <2> QED  BY <2>3, <2>4, <2>5
<1>14. ASSUME NEW s \in Slots, TakeNothing(s) PROVE BacklogInv'
  BY <1>14 DEF TakeNothing, ManualWaits, Lane
<1>15. ASSUME NEW c \in Callers, CallerStep(c) PROVE BacklogInv'
  <2>1. /\ UNCHANGED <<held, pending, pendingTrigger, job, owedManual, spawnFailed>>
        /\ shutdown => shutdown'
        /\ \A s \in Slots : pc'[s] = pc[s] /\ todo'[s] = todo[s]
    BY <1>15 DEF CallerStep, Ask, LogoutCancels, Shutdown, Sweep, ResetBegins, ResetPolls, ResetIsBusy, Reset
  <2> QED  BY <2>1 DEF ManualWaits
<1>16. CASE UNCHANGED vars
  BY <1>16 DEF vars, ManualWaits
<1> QED
  BY <1>1, <1>2, <1>3, <1>4, <1>5, <1>6, <1>7, <1>8, <1>9, <1>10, <1>11, <1>12, <1>13, <1>14,
     <1>15, <1>16
     DEF Next, RequestStep, LaneStep

LEMMA BacklogInit == Init => BacklogInv
<1> SUFFICES ASSUME Init PROVE BacklogInv
  OBVIOUS
<1>1. Startup \in Slots
  BY ThreadsAssumption DEF Startup
<1> QED
  BY <1>1, ThreadsAssumption
     DEF Init, BacklogInv, HolderIsRegistered, AskersOwe, PendingHasAStarter, ManualWaits, Registered,
         Thread, Full, Lane

LEMMA BacklogInvariant == SafetySpec => [](LaneInv /\ BacklogInv)
<1>1. Init => LaneInv /\ BacklogInv
  BY InitLaneInv, BacklogInit
<1>2. LaneInv /\ BacklogInv /\ [Next]_vars => LaneInv' /\ BacklogInv'
  BY StepLaneInv, BacklogStep
<1> QED  BY <1>1, <1>2, PTL DEF SafetySpec

(***************************************************************************)
(* A request that was made to wait is never stranded (maybe_start_pending):*)
(* until shutdown, or a spawn that fails, some lane thread has still to    *)
(* look at what is pending.                                                *)
(***************************************************************************)
THEOREM PendingIsStarted == SafetySpec => []PendingHasAStarter
BY BacklogInvariant, PTL DEF BacklogInv

(***************************************************************************)
(* A manual refresh that was made to wait stays one, whatever is folded    *)
(* into it meanwhile (coalesce_refresh_trigger, maybe_start_pending).      *)
(***************************************************************************)
THEOREM ManualSurvives == SafetySpec => []ManualIsKept
<1>1. LaneInv /\ BacklogInv => ManualIsKept
  <2> SUFFICES ASSUME LaneInv, ManualWaits PROVE ManualIsKept
    BY DEF BacklogInv
  <2>1. ASSUME NEW s \in Slots, todo[s] # <<>>, Head(todo[s]) = Full("manual")
        PROVE  \E i \in DOMAIN todo[s] : todo[s][i] = Full("manual")
    <3>1. todo[s] \in Seq(Request)
      BY DEF LaneInv, TypeOK, Thread
    <3>2. 1 \in DOMAIN todo[s] /\ todo[s][1] = Full("manual")
      BY <2>1, <3>1
    <3> QED  BY <3>2
  <2> QED  BY <2>1 DEF ManualWaits, ManualIsKept
<1> QED  BY <1>1, BacklogInvariant, PTL

LEMMA UnmarkStep ==
  ASSUME LaneInv, ShownIsUnmarked, [Next]_vars
  PROVE  ShownIsUnmarked'
<1> SUFFICES ASSUME NEW c \in Component, refreshing'[c] PROVE \E s \in Slots : Unmarks(s, c)'
  BY DEF ShownIsUnmarked
<1> USE DEF Unmarks, Registered
<1>0. /\ c \in Lane /\ c # "full" /\ Slots \subseteq Thread
      /\ pc \in [Thread -> CallerPC \cup SlotPC] /\ job \in [Slots -> Request]
      /\ child \in [Thread -> Slots \cup {None}] /\ refreshing \in [Component -> BOOLEAN]
      /\ \A s \in Slots : job[s].lane \in Lane
  BY DEF Component, Lane, Thread, LaneInv, TypeOK, Request
<1>1. refreshing[c] => \E s \in Slots : Unmarks(s, c)
  BY DEF ShownIsUnmarked
<1>2. ASSUME NEW t \in Thread, Fold(t) PROVE \E s \in Slots : Unmarks(s, c)'
  <2>1. /\ refreshing' = refreshing /\ job' = job /\ pc[t] = "request"
        /\ \A u \in Thread \ {t} : pc'[u] = pc[u]
    BY <1>0, <1>2 DEF Fold
  <2> QED  BY <1>0, <1>1, <2>1
<1>3. ASSUME NEW t \in Thread, Register(t) PROVE \E s \in Slots : Unmarks(s, c)'
  <2>1. /\ refreshing' = refreshing /\ pc[t] = "request" /\ FreeSlot \in Slots /\ pc[FreeSlot] = "free"
        /\ \A u \in Thread \ {t, FreeSlot} : pc'[u] = pc[u]
        /\ \A u \in Slots \ {FreeSlot} : job'[u] = job[u]
    BY <1>0, <1>3, FreeSlotFree DEF Register
  <2> QED  BY <1>0, <1>1, <2>1
<1>4. ASSUME NEW t \in Thread, Launch(t) \/ LaunchFails(t) PROVE \E s \in Slots : Unmarks(s, c)'
  <2> DEFINE k == child[t]
  <2>1. k \in Slots /\ pc[k] = "created" /\ pc[t] = "launch" /\ k # t
    BY <1>4 DEF Launch, LaunchFails, LaneInv, ChildOwned
  <2>2. /\ job' = job /\ pc'[k] \in {"begin", "failed"}
        /\ \A u \in Thread \ {t, k} : pc'[u] = pc[u]
        /\ refreshing'[c] = IF c \in ComponentsOf(job[k].lane) THEN TRUE ELSE refreshing[c]
    BY <1>0, <1>4, <2>1 DEF Launch, LaunchFails, Mark
  <2>3. CASE c \in ComponentsOf(job[k].lane)
    <3>1. job[k].lane = "full" \/ job[k].lane = c
      BY <2>3 DEF ComponentsOf
    <3> QED  BY <2>1, <2>2, <3>1
  <2>4. CASE c \notin ComponentsOf(job[k].lane)
    <3>1. refreshing[c]
      BY <2>2, <2>4
    <3> QED  BY <1>0, <1>1, <2>1, <2>2, <3>1
  <2> QED  BY <2>3, <2>4
<1>5. ASSUME NEW t \in Thread, Unmark(t) PROVE \E s \in Slots : Unmarks(s, c)'
  <2> DEFINE k == child[t]
  <2>1. k \in Slots /\ pc[k] = "failed" /\ pc[t] = "unmark" /\ k # t
    BY <1>5 DEF Unmark, LaneInv, ChildOwned
  <2>2. /\ \A u \in Slots \ {k} : job'[u] = job[u]
        /\ \A u \in Thread \ {t, k} : pc'[u] = pc[u]
        /\ c \notin ComponentsOf(job[k].lane) /\ refreshing[c]
    BY <1>0, <1>5, <2>1 DEF Unmark, Mark
  <2>3. ~Unmarks(k, c)
    BY <1>0, <2>2 DEF ComponentsOf, Component
  <2> QED  BY <1>0, <1>1, <2>1, <2>2, <2>3
<1>6. ASSUME NEW s \in Slots, Begin(s) PROVE \E x \in Slots : Unmarks(x, c)'
  <2>1. /\ refreshing[c] /\ job' = job /\ pc[s] = "begin"
        /\ \A u \in Thread \ {s} : pc'[u] = pc[u]
        /\ \/ pc'[s] = "run"
           \/ pc'[s] = "clear" /\ job[s].lane # "full"
    BY <1>0, <1>6 DEF Begin
  <2> QED  BY <1>0, <1>1, <2>1
<1>7. ASSUME NEW s \in Slots, Publish(s) PROVE \E x \in Slots : Unmarks(x, c)'
  <2>1. /\ refreshing[c] /\ job' = job /\ pc[s] = "run" /\ pc'[s] = "shown"
        /\ \A u \in Thread \ {s} : pc'[u] = pc[u]
        /\ job[s].lane = "full" => c = "usage"
    BY <1>0, <1>7 DEF Publish, Publishes, Component
  <2> QED  BY <1>0, <1>1, <2>1
<1>8. ASSUME NEW s \in Slots, Return(s) PROVE \E x \in Slots : Unmarks(x, c)'
  <2>1. /\ refreshing[c] /\ job' = job /\ pc[s] \in {"run", "shown"} /\ pc'[s] = "clear"
        /\ \A u \in Thread \ {s} : pc'[u] = pc[u]
    BY <1>0, <1>8 DEF Return, Working
  <2>2. job[s].lane = "full" => ~Unmarks(s, c)
    BY <1>0, <1>8 DEF Return, Applies, MaySkip, Publishes, Component
  <2> QED  BY <1>0, <1>1, <2>1, <2>2
<1>9. ASSUME NEW s \in Slots, Clear(s) PROVE \E x \in Slots : Unmarks(x, c)'
  <2>1. /\ refreshing' = refreshing /\ job' = job /\ pc[s] = "clear" /\ pc'[s] = "unset"
        /\ \A u \in Thread \ {s} : pc'[u] = pc[u]
    BY <1>0, <1>9 DEF Clear
  <2> QED  BY <1>0, <1>1, <2>1
<1>10. ASSUME NEW s \in Slots, Unset(s) PROVE \E x \in Slots : Unmarks(x, c)'
  <2>1. /\ refreshing[c] /\ pc[s] = "unset" /\ (job[s].lane = "full" \/ c # job[s].lane)
        /\ \A u \in Thread \ {s} : pc'[u] = pc[u]
        /\ \A u \in Slots \ {s} : job'[u] = job[u]
    BY <1>0, <1>10 DEF Unset
  <2> QED  BY <1>0, <1>1, <2>1
<1>11. ASSUME NEW s \in Slots, Wake(s) \/ TakeFull(s) \/ TakeLanes(s) \/ TakeNothing(s)
       PROVE  \E x \in Slots : Unmarks(x, c)'
  <2>1. /\ refreshing' = refreshing /\ job' = job /\ pc[s] \in {"wake", "take"}
        /\ \A u \in Thread \ {s} : pc'[u] = pc[u]
    BY <1>0, <1>11 DEF Wake, TakeFull, TakeLanes, TakeNothing
  <2> QED  BY <1>0, <1>1, <2>1
<1>12. ASSUME NEW k \in Callers, CallerStep(k) PROVE \E x \in Slots : Unmarks(x, c)'
  <2>1. /\ refreshing' = refreshing /\ job' = job /\ \A u \in Thread \ {k} : pc'[u] = pc[u]
    BY <1>0, <1>12
       DEF CallerStep, Ask, LogoutCancels, Shutdown, Sweep, ResetBegins, ResetPolls, ResetIsBusy, Reset,
           threadVars
  <2> QED  BY <1>0, <1>1, <2>1, ThreadsAssumption
<1>13. CASE UNCHANGED vars
  BY <1>1, <1>13 DEF vars, threadVars
<1> QED
  BY <1>2, <1>3, <1>4, <1>5, <1>6, <1>7, <1>8, <1>9, <1>10, <1>11, <1>12, <1>13
     DEF Next, RequestStep, LaneStep

(***************************************************************************)
(* However the lanes overlap, and whichever spawns fail, a service whose   *)
(* threads are at rest shows no component as refreshing: request_lane and  *)
(* request_full set the flag, and clear it when the spawn fails, run_lane  *)
(* and the results that are applied clear it.                              *)
(***************************************************************************)
THEOREM RestIsShown == SafetySpec => []RestingShowsNoRefresh
<1>1. Init => ShownIsUnmarked
  <2>1. Startup \in Slots
    BY ThreadsAssumption DEF Startup
  <2> QED  BY <2>1 DEF Init, ShownIsUnmarked, Unmarks, Full, Thread, Registered
<1>2. LaneInv /\ ShownIsUnmarked => RestingShowsNoRefresh
  BY DEF ShownIsUnmarked, Unmarks, Registered, RestingShowsNoRefresh, Resting, Thread
<1> QED  BY <1>1, <1>2, UnmarkStep, LaneInvariant, PTL DEF SafetySpec
===============================================================================
