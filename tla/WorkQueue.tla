------------------------------ MODULE WorkQueue ------------------------------
(***************************************************************************)
(* What the event bus promises its publishers: an item, once published,   *)
(* stays owed until it is either done (its handler ran at least once) or   *)
(* parked.  Done and parked are final.  Handlers may run more than once:   *)
(* the promise is at-least-once, never at-most-once.                       *)
(***************************************************************************)
EXTENDS Naturals

CONSTANT Item

VARIABLES
  owed,   \* [Item -> {"absent", "owed", "done", "parked"}]
  ran     \* [Item -> Nat]: how many times the item's handler took effect

qvars == <<owed, ran>>

QInit ==
  /\ owed = [i \in Item |-> "absent"]
  /\ ran = [i \in Item |-> 0]

QPublish(i) ==
  /\ owed[i] = "absent"
  /\ owed' = [owed EXCEPT ![i] = "owed"]
  /\ UNCHANGED ran

QRun(i) ==
  /\ owed[i] = "owed"
  /\ ran' = [ran EXCEPT ![i] = @ + 1]
  /\ UNCHANGED owed

QFinish(i) ==
  /\ owed[i] = "owed"
  /\ ran[i] > 0
  /\ owed' = [owed EXCEPT ![i] = "done"]
  /\ UNCHANGED ran

QPark(i) ==
  /\ owed[i] = "owed"
  /\ owed' = [owed EXCEPT ![i] = "parked"]
  /\ UNCHANGED ran

QNext == \E i \in Item : QPublish(i) \/ QRun(i) \/ QFinish(i) \/ QPark(i)

QSpec == QInit /\ [][QNext]_qvars
=============================================================================
