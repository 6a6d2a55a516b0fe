------------------------------ MODULE RecordMap ------------------------------
(***************************************************************************)
(* What a MIDlet sees of a record store: records under ids that are never  *)
(* given out twice, kept from one opening of the store to the next.        *)
(* RecordStore is shown to implement this module.                          *)
(***************************************************************************)
EXTENDS Integers, FiniteSets

CONSTANTS
  Data,      \* what a record may contain
  Ids,       \* record ids that may be given out or asked for
  Closed     \* answer of the last call: none, there is no open store

VARIABLES
  recs,      \* the records: a function from the ids in use to their data
  nextId,    \* the id of the next record
  num,       \* the number of records the store reports
  out        \* the answer to the last call, Closed when the store is not open

vars == <<recs, nextId, num, out>>

Answer(call, val) == [call |-> call, val |-> val]
Exists(id) == id \in DOMAIN recs
IsOpen == out # Closed

Init ==
  /\ recs = [id \in {} |-> << >>]
  /\ nextId = 1 /\ num = 0
  /\ out = Closed

Open == ~ IsOpen /\ out' = Answer("open", num) /\ UNCHANGED <<recs, nextId, num>>

Close == IsOpen /\ out' = Closed /\ UNCHANGED <<recs, nextId, num>>

Add(data) ==
  /\ IsOpen
  /\ out' = Answer("added", nextId)
  /\ nextId' = nextId + 1 /\ num' = num + 1
  /\ recs' = [id \in DOMAIN recs \cup {nextId} |-> IF id = nextId THEN data ELSE recs[id]]

AddFull == IsOpen /\ out' = Answer("full", {}) /\ UNCHANGED <<recs, nextId, num>>

Set(id, data) ==
  /\ IsOpen /\ out' = Answer("set", id)
  /\ Exists(id)
  /\ recs' = [recs EXCEPT ![id] = data]
  /\ UNCHANGED <<nextId, num>>

(* A record whose new value does not fit is lost; it still counts as one. *)
SetFull(id) ==
  /\ IsOpen /\ out' = Answer("full", {id})
  /\ Exists(id)
  /\ recs' = [i \in DOMAIN recs \ {id} |-> recs[i]]
  /\ UNCHANGED <<nextId, num>>

Delete(id) ==
  /\ IsOpen /\ out' = Answer("deleted", id)
  /\ Exists(id)
  /\ recs' = [i \in DOMAIN recs \ {id} |-> recs[i]]
  /\ num' = num - 1
  /\ UNCHANGED nextId

Get(id) ==
  /\ IsOpen /\ Exists(id)
  /\ out' = Answer("data", recs[id])
  /\ UNCHANGED <<recs, nextId, num>>

Invalid(id) ==
  /\ IsOpen /\ out' = Answer("invalid", id)
  /\ ~ Exists(id)
  /\ UNCHANGED <<recs, nextId, num>>

(* Every record counts, and 0 stands for records that were lost. *)
GetIDs ==
  /\ IsOpen
  /\ out' = Answer("ids", DOMAIN recs \cup (IF num > Cardinality(DOMAIN recs) THEN {0} ELSE {}))
  /\ UNCHANGED <<recs, nextId, num>>

Next ==
  \/ Open \/ Close \/ AddFull \/ GetIDs
  \/ \E data \in Data : Add(data)
  \/ \E id \in Ids :
       \/ SetFull(id) \/ Delete(id) \/ Get(id) \/ Invalid(id)
       \/ \E data \in Data : Set(id, data)

Spec == Init /\ [][Next]_vars
=============================================================================
