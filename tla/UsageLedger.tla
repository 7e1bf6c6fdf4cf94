----------------------------- MODULE UsageLedger -----------------------------
(***************************************************************************)
(* What the Relay promises about the hourly Usage of a device, whatever    *)
(* the devices send and however their requests interleave: an hour only    *)
(* ever gives way to the reading of a newer scan, deletion wipes a device  *)
(* and fixes the hour before which nothing comes back, and a client that   *)
(* compares revisions notices every change.                                *)
(***************************************************************************)
EXTENDS Naturals

CONSTANTS
  Device,   \* device records of the Account database
  Hour,     \* UTC hours, a set of naturals
  Rows,     \* what an hour can be made of
  Empty     \* the hour that holds nothing

VARIABLES
  ledger,      \* device -> hour -> [version, rows]; version 0 is an hour never written
  revision,    \* device -> the revision a client compares
  generation,  \* device -> how often it was deleted, plus one
  watermark    \* device -> no hour before this one is ever written again

vars == <<ledger, revision, generation, watermark>>

Unwritten == [version |-> 0, rows |-> Empty]

Init ==
  /\ ledger = [d \in Device |-> [h \in Hour |-> Unwritten]]
  /\ revision = [d \in Device |-> 0]
  /\ generation = [d \in Device |-> 1]
  /\ watermark = [d \in Device |-> 0]

(* Only device d may be touched by a step. *)
Keeps(d, old, new) ==
  /\ DOMAIN new = Device
  /\ \A e \in Device \ {d} : new[e] = old[e]

(***************************************************************************)
(* Some hours of a device give way to newer scans of them.  The revision   *)
(* may also move when the last of the hours lost to a newer scan, so `hs`  *)
(* can be empty.                                                           *)
(***************************************************************************)
Replace(d) ==
  /\ \E hs \in SUBSET {h \in Hour : h >= watermark[d]} :
       /\ DOMAIN ledger'[d] = Hour
       /\ \A h \in hs : ledger'[d][h].version > ledger[d][h].version
       /\ \A h \in Hour \ hs : ledger'[d][h] = ledger[d][h]
  /\ Keeps(d, ledger, ledger')
  /\ revision' = [revision EXCEPT ![d] = @ + 1]
  /\ UNCHANGED <<generation, watermark>>

Delete(d) ==
  /\ ledger' = [ledger EXCEPT ![d] = [h \in Hour |-> Unwritten]]
  /\ revision' = [revision EXCEPT ![d] = @ + 1]
  /\ generation' = [generation EXCEPT ![d] = @ + 1]
  /\ watermark'[d] >= watermark[d]
  /\ Keeps(d, watermark, watermark')

Next == \E d \in Device : Replace(d) \/ Delete(d)

Spec == Init /\ [][Next]_vars

===============================================================================
