---------------------------- MODULE RelaySessions ----------------------------
(***************************************************************************)
(* The Relay's account sessions, as apps/relay/src/state/                  *)
(* d1-account-state.ts keeps them for one installation of QuotaBar: the    *)
(* grant a browser completes, the device row, and the session families the *)
(* grants are exchanged for.  A family holds one pair of tokens at a time; *)
(* a rotation replaces the pair and keeps the refresh token it replaced.   *)
(*                                                                         *)
(* A token stands for the access and the refresh token issued together and *)
(* is written <<family, serial>>; the code sees opaque hashes.  Expiry of  *)
(* a refresh token (90 days) is left out, an access token that is about to *)
(* expire is the device's business (Session).                              *)
(***************************************************************************)
EXTENDS Naturals

CONSTANTS
  None,       \* an absent row or token
  LastFamily, \* bound: how many families are opened
  LastSerial  \* bound: how many tokens a family issues

ASSUME RelaySessionsAssumption ==
  /\ LastFamily \in Nat \ {0} /\ LastSerial \in Nat \ {0}
  /\ None \notin Nat

VARIABLES
  families, \* sessions: family -> its row, None before it is opened
  device,   \* devices: signedOut (signed_out_at), deleted (deleted_at)
  grant     \* login_grants: the newest one

relayVars == <<families, device, grant>>

Family == 1..LastFamily
Serial == 1..LastSerial
Token  == Family \X Serial

Row == [current  : Serial,             \* refresh_token_hash and access_token_hash
        previous : Serial \cup {None}, \* previous_refresh_token_hash
        unspent  : BOOLEAN,            \* last_used_at = rotated_at
        revoked  : BOOLEAN]            \* revoked_at

ASSUME NoRowIsNone == None \notin Row

GrantStates == {"none", "created", "completed", "outlived", "consumed"}

RelayTypeOK ==
  /\ families \in [Family -> Row \cup {None}]
  /\ device \in [signedOut : BOOLEAN, deleted : BOOLEAN]
  /\ grant \in GrantStates

RelayInit ==
  /\ families = [f \in Family |-> None]
  /\ device = [signedOut |-> FALSE, deleted |-> FALSE]
  /\ grant = "none"

Opened == {f \in Family : families[f] # None}

Live(f) == f \in Opened /\ ~families[f].revoked

DeviceIsCurrent == ~device.signedOut /\ ~device.deleted

-------------------------------------------------------------------------------
(***************************************************************************)
(* A refresh token is taken while it is the current one, and the one it    *)
(* replaced while the successor has not been used (ADR 0030).              *)
(***************************************************************************)
IsCurrent(t) == families[t[1]].current = t[2]

IsUnspentPrevious(t) == families[t[1]].previous = t[2] /\ families[t[1]].unspent

Presented(t) == t[1] \in Opened /\ (IsCurrent(t) \/ IsUnspentPrevious(t))

Successor(t) == <<t[1], families[t[1]].current + 1>>

CanRotate(t) == Presented(t) /\ Live(t[1]) /\ DeviceIsCurrent

(* refreshSession; bound: LastSerial. *)
Rotate(t) ==
  /\ CanRotate(t)
  /\ Successor(t) \in Token
  /\ families' = [families EXCEPT ![t[1]].current = Successor(t)[2],
                                  ![t[1]].previous = t[2],
                                  ![t[1]].unspent = TRUE]
  /\ UNCHANGED <<device, grant>>

(* authorizeSession *)
IsAuthorized(t) == Live(t[1]) /\ IsCurrent(t) /\ DeviceIsCurrent

Authorize(t) ==
  /\ IsAuthorized(t)
  /\ families' = [families EXCEPT ![t[1]].unspent = FALSE]
  /\ UNCHANGED <<device, grant>>

Ended(opened) == [f \in Family |->
  IF families[f] = None \/ f \notin opened THEN families[f]
  ELSE [families[f] EXCEPT !.revoked = TRUE]]

(***************************************************************************)
(* revokeRefreshSession: the family of the token ends, and the device it   *)
(* spoke for is signed out unless the family had ended before.  A token    *)
(* that matches no row changes nothing, and the answer is the same.        *)
(***************************************************************************)
SignsOutAlways(t) == ~device.deleted

SignsOut(t) == Live(t[1]) /\ ~device.deleted

Revoke(t) ==
  /\ IF Presented(t)
     THEN /\ families' = Ended({t[1]})
          /\ device' = IF SignsOut(t) THEN [device EXCEPT !.signedOut = TRUE] ELSE device
     ELSE UNCHANGED <<families, device>>
  /\ UNCHANGED grant

-------------------------------------------------------------------------------
(* createLoginGrant and completeIdentityLogin *)
CreateGrant == grant' = "created" /\ UNCHANGED <<families, device>>

CompleteGrant ==
  /\ grant = "created"
  /\ grant' = "completed"
  /\ UNCHANGED <<families, device>>

(***************************************************************************)
(* consumeLoginGrant, one batch: the grant is spent, the device is there   *)
(* again and signed in, every family it had ends and a new one opens.  A   *)
(* grant completed before the device was deleted is spent for nothing.     *)
(***************************************************************************)
NotTheOldOnes == {}

OpenedBefore == Opened

Consume(f) ==
  /\ grant = "completed"
  /\ f \notin Opened /\ \A g \in Family : g < f => g \in Opened
  /\ grant' = "consumed"
  /\ device' = [signedOut |-> FALSE, deleted |-> FALSE]
  /\ families' = [Ended(OpenedBefore) EXCEPT
       ![f] = [current |-> 1, previous |-> None, unspent |-> FALSE, revoked |-> FALSE]]

ConsumeForNothing ==
  /\ grant = "outlived"
  /\ grant' = "consumed"
  /\ families' = Ended(Opened)
  /\ UNCHANGED device

(* deleteDeviceData, of what the sessions depend on *)
DeleteDevice ==
  /\ Opened # {} /\ ~device.deleted
  /\ device' = [signedOut |-> TRUE, deleted |-> TRUE]
  /\ families' = Ended(Opened)
  /\ grant' = IF grant = "completed" THEN "outlived" ELSE grant

-------------------------------------------------------------------------------
(***************************************************************************)
(* "A second sign-in on the same device leaves exactly one live token, not *)
(* two families to keep in step": at most one family lives, it is the      *)
(* newest, and the device it speaks for is signed in, so that a live       *)
(* family can always be used.  A revocation that comes late, of a session  *)
(* before this one, must not touch either.                                 *)
(***************************************************************************)
OneLiveFamily ==
  \A f \in Family : Live(f) => DeviceIsCurrent /\ \A g \in Opened : g <= f
===============================================================================
