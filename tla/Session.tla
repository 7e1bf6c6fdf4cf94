------------------------------- MODULE Session -------------------------------
(***************************************************************************)
(* The account session of the device (packages/service/src/service/mod.rs, *)
(* service/backend.rs, relay/mod.rs, state/mod.rs) together with the Relay *)
(* of RelaySessions: the one session row with its epoch, the sign-in       *)
(* thread, the sign-out threads, the refresh lanes that read the row, send *)
(* requests under its token, rotate it when it is about to expire and      *)
(* clear it when the Relay refuses it, and the restart of the service.     *)
(*                                                                         *)
(* A lane or a thread (an actor) works on a copy of the row.  Between two  *)
(* of its steps others may write the row; whatever it writes back goes     *)
(* through the compare-and-swap of the epoch.  SQLite failures are left    *)
(* out: a write of the row succeeds.                                       *)
(***************************************************************************)
EXTENDS RelaySessions, FiniteSets

CONSTANTS
  Lane,       \* the refresh lanes that use the account
  Full,       \* the one of them that is the full refresh
  Thread,     \* bound: the sign-out threads there are at a time
  Mishaps,    \* which of the events below may happen
  LastEpoch,  \* bound: control syncs write no epoch beyond this one
  MaxEvents   \* bound: how many of these events there are

ASSUME SessionAssumption ==
  /\ Full \in Lane /\ None \notin Lane /\ Lane \cap Thread = {}
  /\ LastEpoch \in Nat /\ MaxEvents \in Nat
  /\ Mishaps \subseteq {"lost",      \* a request or its answer does not arrive
                        "unheard",   \* nor does the answer to the exchange of a grant
                        "late",      \* a rotation arrives after its sender gave up
                        "tardy",     \* and so does a revocation
                        "restart",   \* the service is stopped and started
                        "delete",    \* the device is deleted from the website
                        "cancel",    \* the person cancels a sign-in
                        "impatient", \* the person signs in while signing out
                        "again",     \* a sign-in is completed while an actor holds the session before
                        "overlap",   \* a request arrives behind the rotation of another lane
                        "race"}      \* a rotation ends inside a sign-out's read and write

VARIABLES
  row,     \* the session row: status, token, epoch
  aged,    \* its access token expires within the minute
  login,   \* login.active, its cancel flag and the thread
  leaving, \* the row a sign-out has read and not yet written
  actor,   \* lane or thread -> what it is doing, with which token and epoch
  lock,    \* refresh_lock: the lane that holds it
  late,    \* requests whose sender gave up, still on their way
  events   \* how many events there have been

deviceVars == <<row, aged, login, leaving, actor, lock, late, events>>
vars == <<relayVars, deviceVars>>

Actor == Lane \cup Thread

Status == {"active", "logout_pending"}

SessionRow == [status : Status, token : Token, epoch : Nat \ {0}]

LoginStep == {"none", "checked", "browser", "exchange", "issued", "outcome", "written", "failed"}

ActorStep == {"idle", "lock", "rotate", "rotated", "send", "answered", "refused", "spawned",
              "revoke", "revoked"}

Holding == [pc : ActorStep, token : Token \cup {None}, epoch : Nat]

Request == [op : {"rotate", "revoke"}, token : Token]

Resting == [pc |-> "idle", token |-> None, epoch |-> 0]

ASSUME NoSessionIsNone == None \notin SessionRow \cup Token

TypeOK ==
  /\ RelayTypeOK
  /\ row \in SessionRow \cup {None}
  /\ aged \in BOOLEAN
  /\ login \in [pc : LoginStep, cancel : BOOLEAN, token : Token \cup {None}]
  /\ leaving \in SessionRow \cup {None}
  /\ actor \in [Actor -> Holding]
  /\ lock \in Lane \cup {None}
  /\ late \in SUBSET Request
  /\ events \in 0..MaxEvents

NoLogin == [pc |-> "none", cancel |-> FALSE, token |-> None]

Init ==
  /\ RelayInit
  /\ row = None /\ aged = FALSE
  /\ login = NoLogin /\ leaving = None
  /\ actor = [a \in Actor |-> Resting]
  /\ lock = None /\ late = {} /\ events = 0

Happens(mishap) == mishap \in Mishaps /\ events < MaxEvents /\ events' = events + 1

-------------------------------------------------------------------------------
(***************************************************************************)
(* The row in identity.sqlite.  Epochs count from 1 again after a clear.   *)
(***************************************************************************)
HasStatus(s) == row # None /\ row.status = s

Active == HasStatus("active")
Pending == HasStatus("logout_pending")

AtAnyEpoch(e) == row # None

AtEpoch(e) == row # None /\ row.epoch = e

FirstEpochIsZero == IF row = None THEN 0 ELSE row.epoch + 1

NextEpoch == IF row = None THEN 1 ELSE row.epoch + 1

(***************************************************************************)
(* session_is_usable asks for the device generation and the token pair,    *)
(* and the record of a sign-out (make_logout_pending) carries neither.     *)
(***************************************************************************)
Usable == Active

SessionOf(s, t, e) == [status |-> s, token |-> t, epoch |-> e]

Write(s, t) == row' = SessionOf(s, t, NextEpoch)

ClearIf(e) == row' = IF AtEpoch(e) THEN None ELSE row

Step(a, pc) == actor' = [actor EXCEPT ![a].pc = pc]
Rest(a) == actor' = [actor EXCEPT ![a] = Resting]

Release(a) == lock' = IF lock = a THEN None ELSE lock

(* spawn_logout_retry: a thread that carries the token of the record *)
Spawn(t) ==
  \E a \in Thread :
    /\ actor[a].pc = "idle"
    /\ actor' = [actor EXCEPT ![a] = [pc |-> "spawned", token |-> t, epoch |-> 0]]

-------------------------------------------------------------------------------
(***************************************************************************)
(* Signing in.  The IPC call looks at the row and clears one that is not   *)
(* usable, then takes login.active.                                        *)
(***************************************************************************)
AskLogin ==
  /\ login.pc = "none"
  /\ ~Usable
  /\ Pending => "impatient" \in Mishaps
  /\ Cardinality(Opened) < LastFamily
  /\ row' = None
  /\ login' = [NoLogin EXCEPT !.pc = "checked"]
  /\ UNCHANGED <<relayVars, aged, leaving, actor, lock, late, events>>

BeginLogin ==
  /\ login.pc = "checked"
  /\ CreateGrant
  /\ login' = [login EXCEPT !.pc = "browser"]
  /\ UNCHANGED <<row, aged, leaving, actor, lock, late, events>>

Cancel ==
  /\ login.pc \notin {"none", "checked"} /\ ~login.cancel
  /\ Happens("cancel")
  /\ login' = [login EXCEPT !.cancel = TRUE]
  /\ UNCHANGED <<relayVars, row, aged, leaving, actor, lock, late>>

(* The person completes the grant in the browser, which takes longer than a *)
(* request of the session before can be under way unless "again" happens.   *)
HeldBefore == \E a \in Actor : actor[a].token # None

Complete ==
  /\ login.pc = "browser"
  /\ HeldBefore => "again" \in Mishaps
  /\ CompleteGrant
  /\ UNCHANGED deviceVars

CallbackWithoutDeadline ==
  /\ login.pc = "browser"
  /\ grant \in {"completed", "outlived"}
  /\ login' = [login EXCEPT !.pc = "exchange"]
  /\ UNCHANGED <<relayVars, row, aged, leaving, actor, lock, late, events>>

(* wait_for_callback: the browser calls back, the person cancels or ten minutes pass. *)
Callback ==
  /\ login.pc = "browser"
  /\ \/ /\ ~login.cancel
        /\ grant \in {"completed", "outlived"}
        /\ login' = [login EXCEPT !.pc = "exchange"]
     \/ login' = [login EXCEPT !.pc = "failed"]
  /\ UNCHANGED <<relayVars, row, aged, leaving, actor, lock, late, events>>

ExchangeArrives ==
  /\ login.pc = "exchange"
  /\ \/ \E f \in Family :
          /\ Consume(f)
          /\ \/ /\ login' = [login EXCEPT !.pc = "issued", !.token = <<f, 1>>]
                /\ UNCHANGED events
             \/ /\ Happens("unheard")
                /\ login' = [login EXCEPT !.pc = "failed"]
     \/ /\ ConsumeForNothing
        /\ login' = [login EXCEPT !.pc = "failed"]
        /\ UNCHANGED events
  /\ UNCHANGED <<row, aged, leaving, actor, lock, late>>

ExchangeIsLost ==
  /\ login.pc = "exchange"
  /\ Happens("lost")
  /\ login' = [login EXCEPT !.pc = "failed"]
  /\ UNCHANGED <<relayVars, row, aged, leaving, actor, lock, late>>

FinalizeWithoutRecord ==
  /\ login.pc = "issued"
  /\ login' = [login EXCEPT !.pc = IF login.cancel THEN "failed" ELSE "outcome"]
  /\ UNCHANGED <<relayVars, row, aged, leaving, actor, lock, late, events>>

(* finalize_login_unless_cancelled *)
Finalize ==
  /\ login.pc = "issued"
  /\ IF login.cancel
     THEN /\ Write("logout_pending", login.token)
          /\ login' = [login EXCEPT !.pc = "failed"]
     ELSE /\ login' = [login EXCEPT !.pc = "outcome"]
          /\ UNCHANGED row
  /\ UNCHANGED <<relayVars, aged, leaving, actor, lock, late, events>>

(***************************************************************************)
(* finish_login: the flag is looked at before the session is installed and *)
(* after; a cancelled sign-in leaves a record to revoke instead.           *)
(***************************************************************************)
Install ==
  /\ login.pc = "outcome"
  /\ IF login.cancel
     THEN /\ Write("logout_pending", login.token)
          /\ Spawn(login.token)
          /\ login' = NoLogin
          /\ UNCHANGED aged
     ELSE /\ Write("active", login.token)
          /\ aged' = FALSE
          /\ login' = [login EXCEPT !.pc = "written"]
          /\ UNCHANGED actor
  /\ UNCHANGED <<relayVars, leaving, lock, late, events>>

LookAgain ==
  /\ login.pc = "written"
  /\ IF login.cancel
     THEN Write("logout_pending", login.token) /\ Spawn(login.token)
     ELSE UNCHANGED <<row, actor>>
  /\ login' = NoLogin
  /\ UNCHANGED <<relayVars, aged, leaving, lock, late, events>>

LoginFails ==
  /\ login.pc = "failed"
  /\ IF Pending THEN Spawn(row.token) ELSE UNCHANGED actor
  /\ login' = NoLogin
  /\ UNCHANGED <<relayVars, row, aged, leaving, lock, late, events>>

-------------------------------------------------------------------------------
(***************************************************************************)
(* Signing out.  The call reads the row, makes the record of it and writes *)
(* that over whatever the row is by then.                                  *)
(***************************************************************************)
AskLogout ==
  /\ login.pc \in {"none", "checked"} /\ leaving = None
  /\ row # None
  /\ leaving' = row
  /\ UNCHANGED <<relayVars, row, aged, login, actor, lock, late, events>>

MarkPending ==
  /\ leaving # None
  /\ row # leaving => "race" \in Mishaps
  /\ Write("logout_pending", leaving.token)
  /\ Spawn(leaving.token)
  /\ leaving' = None
  /\ UNCHANGED <<relayVars, aged, login, lock, late, events>>

(* The thread: the epoch it may clear, the revocation, the clearing. *)
ReadEpoch(a) ==
  /\ actor[a].pc = "spawned"
  /\ actor' = [actor EXCEPT ![a].pc = "revoke", ![a].epoch = IF Pending THEN row.epoch ELSE 0]
  /\ UNCHANGED <<relayVars, row, aged, login, leaving, lock, late, events>>

RevokeArrives(a) ==
  /\ actor[a].pc = "revoke"
  /\ Revoke(actor[a].token)
  /\ \/ Step(a, "revoked") /\ UNCHANGED events
     \/ Happens("lost") /\ Rest(a)
  /\ UNCHANGED <<row, aged, login, leaving, lock, late>>

FinishLogout(a) ==
  /\ a \in Thread /\ actor[a].pc = "revoked"
  /\ ClearIf(actor[a].epoch)
  /\ Rest(a)
  /\ UNCHANGED <<relayVars, aged, login, leaving, lock, late, events>>

(***************************************************************************)
(* The writing half of a full refresh signs out again what is still        *)
(* pending.  Only the start of the service, the person and a change of the *)
(* settings or the account ask for a full refresh: the scheduler does not, *)
(* so nothing says that this step is ever taken.                           *)
(***************************************************************************)
RetryLogout ==
  /\ actor[Full].pc = "idle"
  /\ Pending
  /\ actor' = [actor EXCEPT ![Full] = [pc |-> "revoke", token |-> row.token, epoch |-> 0]]
  /\ UNCHANGED <<relayVars, row, aged, login, leaving, lock, late, events>>

ClearAtItsEpoch ==
  /\ actor[Full].pc = "revoked"
  /\ ClearIf(actor[Full].epoch)
  /\ Rest(Full)
  /\ UNCHANGED <<relayVars, aged, login, leaving, lock, late, events>>

ClearPending ==
  /\ actor[Full].pc = "revoked"
  /\ row' = IF Pending THEN None ELSE row
  /\ Rest(Full)
  /\ UNCHANGED <<relayVars, aged, login, leaving, lock, late, events>>

-------------------------------------------------------------------------------
(***************************************************************************)
(* A lane reads the row (session_snapshot) and, when the access token has  *)
(* a minute to live, rotates it first (ensure_fresh_session).              *)
(***************************************************************************)
Hold(a, pc, t, e) == actor' = [actor EXCEPT ![a] = [pc |-> pc, token |-> t, epoch |-> e]]

Snapshot(a) ==
  /\ actor[a].pc = "idle"
  /\ Active
  /\ Hold(a, IF aged THEN "lock" ELSE "send", row.token, row.epoch)
  /\ UNCHANGED <<relayVars, row, aged, login, leaving, lock, late, events>>

NoLock == TRUE

LockIsFree == lock = None

(* Under the lock the row is read again: another lane may have rotated it. *)
TakeLock(a) ==
  /\ actor[a].pc = "lock"
  /\ LockIsFree
  /\ \/ /\ ~Active
        /\ Rest(a) /\ UNCHANGED lock
     \/ /\ Active /\ ~aged
        /\ Hold(a, "send", row.token, row.epoch) /\ UNCHANGED lock
     \/ /\ Active /\ aged
        /\ Hold(a, "rotate", row.token, row.epoch)
        /\ lock' = a
  /\ UNCHANGED <<relayVars, row, aged, login, leaving, late, events>>

InFlight(f) == \E a \in Lane : actor[a].pc = "send" /\ actor[a].token[1] = f

RotateArrives(a) ==
  LET t == actor[a].token
  IN  /\ actor[a].pc = "rotate"
      /\ InFlight(t[1]) => "overlap" \in Mishaps
      /\ \/ /\ Rotate(t)
            /\ \/ /\ Hold(a, "rotated", Successor(t), actor[a].epoch)
                  /\ UNCHANGED <<lock, events>>
               \/ /\ Happens("lost")
                  /\ Rest(a) /\ Release(a)
         \/ /\ ~CanRotate(t)
            /\ Step(a, "refused") /\ Release(a)
            /\ UNCHANGED <<relayVars, events>>
         \/ /\ CanRotate(t) /\ Successor(t) \notin Token \* bound: as if it were lost
            /\ Rest(a) /\ Release(a)
            /\ UNCHANGED <<relayVars, events>>
      /\ UNCHANGED <<row, aged, login, leaving, late>>

LostIsRefused(a) ==
  /\ actor[a].pc = "rotate"
  /\ Happens("lost")
  /\ Step(a, "refused") /\ Release(a)
  /\ UNCHANGED <<relayVars, row, aged, login, leaving, late>>

(* A request whose sender gave up never arrives, or arrives later. *)
MayBeLate(mishap, op, a) ==
  \/ UNCHANGED late
  \/ mishap \in Mishaps /\ late' = late \cup {[op |-> op, token |-> actor[a].token]}

RotateIsLost(a) ==
  /\ actor[a].pc = "rotate"
  /\ Happens("lost")
  /\ Rest(a) /\ Release(a)
  /\ MayBeLate("late", "rotate", a)
  /\ UNCHANGED <<relayVars, row, aged, login, leaving>>

Serve(r) ==
  \/ r.op = "rotate" /\ (Rotate(r.token) \/ (~CanRotate(r.token) /\ UNCHANGED relayVars))
  \/ r.op = "revoke" /\ Revoke(r.token)

ArrivesLate(r) ==
  /\ r \in late
  /\ late' = late \ {r}
  /\ Serve(r)
  /\ UNCHANGED <<row, aged, login, leaving, actor, lock, events>>

(* write_session_json_if_epoch, before any request is sent under the new token. *)
KeepRotation(a) ==
  /\ actor[a].pc = "rotated"
  /\ IF AtEpoch(actor[a].epoch)
     THEN /\ row' = SessionOf("active", actor[a].token, actor[a].epoch + 1)
          /\ aged' = FALSE
          /\ Hold(a, "send", actor[a].token, actor[a].epoch + 1)
     ELSE /\ Rest(a)
          /\ UNCHANGED <<row, aged>>
  /\ Release(a)
  /\ UNCHANGED <<relayVars, login, leaving, late, events>>

RequestArrives(a) ==
  LET t == actor[a].token
  IN  /\ actor[a].pc = "send"
      /\ \/ /\ Authorize(t)
            /\ \/ Step(a, "answered") /\ UNCHANGED events
               \/ Happens("lost") /\ Rest(a)
         \/ /\ ~IsAuthorized(t)
            /\ Step(a, "refused")
            /\ UNCHANGED <<relayVars, events>>
      /\ UNCHANGED <<row, aged, login, leaving, lock, late>>

RequestIsLost(a) ==
  /\ actor[a].pc = "send"
  /\ Happens("lost")
  /\ Rest(a)
  /\ UNCHANGED <<relayVars, row, aged, login, leaving, lock, late>>

LostCountsAsRevoked(a) ==
  /\ actor[a].pc = "revoke"
  /\ Happens("lost")
  /\ Step(a, "revoked")
  /\ UNCHANGED <<relayVars, row, aged, login, leaving, lock, late>>

RevokeIsLost(a) ==
  /\ actor[a].pc = "revoke"
  /\ Happens("lost")
  /\ Rest(a)
  /\ MayBeLate("tardy", "revoke", a)
  /\ UNCHANGED <<relayVars, row, aged, login, leaving, lock>>

(* clear_session_if_rejected, with the epoch the request was sent under *)
Refused(a) ==
  /\ actor[a].pc = "refused"
  /\ ClearIf(actor[a].epoch)
  /\ Rest(a)
  /\ UNCHANGED <<relayVars, aged, login, leaving, lock, late, events>>

(* A read of the Account only stamps the row; the epoch stays. *)
Answered(a) ==
  /\ actor[a].pc = "answered"
  /\ Rest(a)
  /\ UNCHANGED <<relayVars, row, aged, login, leaving, lock, late, events>>

(***************************************************************************)
(* sync_control_and_update writes what the Relay answered into the session *)
(* it read, tokens and all, if the row is active at that epoch still.      *)
(* Bound: LastEpoch.                                                       *)
(***************************************************************************)
SyncControl ==
  LET me == actor[Full]
  IN  /\ me.pc = "answered"
      /\ me.epoch < LastEpoch
      /\ row' = IF Active /\ AtEpoch(me.epoch)
                THEN SessionOf("active", me.token, me.epoch + 1)
                ELSE row
      /\ Rest(Full)
      /\ UNCHANGED <<relayVars, aged, login, leaving, lock, late, events>>

-------------------------------------------------------------------------------
(* The clock: fourteen minutes after it was issued the token of the row is *)
(* near its expiry; the two looks of a sign-in are over long before that.  *)
Age ==
  /\ Active /\ ~aged /\ login.pc # "written"
  /\ row.token[2] < LastSerial
  /\ aged' = TRUE
  /\ UNCHANGED <<relayVars, row, login, leaving, actor, lock, late, events>>

(* StateStore::open drops a row that is not usable; threads are gone. *)
Restart ==
  /\ Happens("restart")
  /\ row' = IF Usable THEN row ELSE None
  /\ login' = NoLogin /\ leaving' = None
  /\ actor' = [a \in Actor |-> Resting] /\ lock' = None
  /\ UNCHANGED <<relayVars, aged, late>>

Delete ==
  /\ Happens("delete")
  /\ DeleteDevice
  /\ UNCHANGED <<row, aged, login, leaving, actor, lock, late>>

LoginNext == AskLogin \/ BeginLogin \/ Cancel \/ Complete \/ Callback \/ ExchangeArrives
             \/ ExchangeIsLost \/ Finalize \/ Install \/ LookAgain \/ LoginFails

LogoutNext == AskLogout \/ MarkPending \/ RetryLogout \/ ClearPending
              \/ \E a \in Thread : ReadEpoch(a) \/ FinishLogout(a)

LaneNext == SyncControl
            \/ \E a \in Lane : \/ Snapshot(a) \/ TakeLock(a) \/ RotateArrives(a)
                               \/ RotateIsLost(a) \/ KeepRotation(a) \/ RequestArrives(a)
                               \/ RequestIsLost(a) \/ Refused(a) \/ Answered(a)

WireNext == \/ \E a \in Actor : RevokeArrives(a) \/ RevokeIsLost(a)
            \/ \E r \in Request : ArrivesLate(r)

Next == LoginNext \/ LogoutNext \/ LaneNext \/ WireNext \/ Age \/ Restart \/ Delete

Spec == Init /\ [][Next]_vars

-------------------------------------------------------------------------------
(***************************************************************************)
(* ADR 0030: whatever answers are lost and whenever the service restarts,  *)
(* the token in the row opens the session it belongs to: the Relay takes   *)
(* it, or has ended the family.  A rotation is kept in the row before its  *)
(* token is used and never written back over, and one that was not kept    *)
(* can be done again.                                                      *)
(***************************************************************************)
StoredTokenWorks == row # None => Presented(row.token) \/ ~Live(row.token[1])

(***************************************************************************)
(* No step installs a session of the past: the row of one sign-in is never *)
(* overwritten with what a lane read during an earlier one, and a sign-out *)
(* is never undone (docs/security.md: "a logout transition cannot revive   *)
(* an old session").                                                       *)
(***************************************************************************)
NoRevival ==
  [][(row # None /\ row' # None) =>
       /\ row'.token[1] >= row.token[1]
       /\ (row.status = "logout_pending" /\ row'.status = "active") =>
             row'.token[1] > row.token[1]]_vars

(***************************************************************************)
(* "Never drop newly issued refresh tokens": a live family can be ended    *)
(* from the device.  Its token is in the row, or the sign-in still has it. *)
(***************************************************************************)
LiveFamilyIsHeld ==
  \A f \in Family : Live(f) =>
    \/ row # None /\ row.token[1] = f /\ Presented(row.token)
    \/ login.token # None /\ login.token[1] = f /\ Presented(login.token)

(***************************************************************************)
(* "A durable revoke job": the record of a sign-out leaves the row only    *)
(* when the Relay has ended the family it names.                           *)
(***************************************************************************)
PendingIsRevoked ==
  [][(Pending /\ (row' = None \/ row'.token[1] # row.token[1])) => ~Live(row.token[1])]_vars

(***************************************************************************)
(* A lane signs the device out only for what the Relay decided: when an    *)
(* active row is cleared, its family has ended.                            *)
(***************************************************************************)
SignedOutForCause ==
  [][(Active /\ row' = None) => ~Live(row.token[1])]_vars

(***************************************************************************)
(* A sign-out reaches the Relay where full refreshes keep coming: one of   *)
(* them revokes the family and clears the record, if requests are not lost *)
(* for ever.  Nobody promises those refreshes: after a lost revocation the *)
(* record waits for the person, or for the restart that drops it.          *)
(***************************************************************************)
RefreshesRecur == []<>(~Pending \/ actor[Full].pc = "revoke")

SignOutIsDelivered == RefreshesRecur => (Pending ~> (row = None \/ Active))

(* A sign-in ends, and the next one can begin. *)
LoginEnds == (login.pc # "none") ~> (login.pc = "none")

Fairness ==
  /\ WF_vars(BeginLogin) /\ WF_vars(Callback) /\ WF_vars(ExchangeArrives) /\ WF_vars(Finalize)
  /\ WF_vars(Install) /\ WF_vars(LookAgain) /\ WF_vars(LoginFails)
  /\ WF_vars(MarkPending) /\ WF_vars(ClearPending)
  /\ \A a \in Thread : WF_vars(ReadEpoch(a)) /\ WF_vars(FinishLogout(a))
  /\ \A a \in Actor : WF_vars(RevokeArrives(a))
  /\ \A a \in Lane : /\ WF_vars(TakeLock(a)) /\ WF_vars(RotateArrives(a))
                     /\ WF_vars(KeepRotation(a)) /\ WF_vars(RequestArrives(a))
                     /\ WF_vars(Refused(a)) /\ WF_vars(Answered(a))

FairSpec == Spec /\ Fairness
===============================================================================
