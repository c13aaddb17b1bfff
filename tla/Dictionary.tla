----------------------------- MODULE Dictionary -----------------------------
(***************************************************************************)
(* What hashtable.h promises: a map from keys to values that associates a  *)
(* key with the value last added under exactly that key.  An operation may *)
(* fail for lack of memory, and then changes nothing.                      *)
(***************************************************************************)
CONSTANTS Key, Value

VARIABLES
    dict,   \* dict[k] is {v} when v is associated with k, else {}
    phase,  \* whether there is a table
    last    \* the last call that returned, with its result

vars == <<dict, phase, last>>

Init ==
    /\ dict = [k \in Key |-> {}]
    /\ phase = "absent"
    /\ last = [op |-> "none"]

Construct ==
    /\ phase = "absent"
    /\ \/ phase' = "ready" /\ last' = [op |-> "construct", err |-> "ERR_NONE"]
       \/ phase' = "absent" /\ last' = [op |-> "construct", err |-> "ERR_NOMEM"]
    /\ UNCHANGED dict

Add(k, v) ==
    /\ phase = "ready"
    /\ \/ /\ dict' = [dict EXCEPT ![k] = {v}]
          /\ last' = [op |-> "add", key |-> k, value |-> v, err |-> "ERR_NONE"]
       \/ /\ dict' = dict
          /\ last' = [op |-> "add", key |-> k, value |-> v, err |-> "ERR_NOMEM"]
    /\ UNCHANGED phase

Get(k) ==
    /\ phase = "ready"
    /\ \/ last' = [op |-> "get", key |-> k, value |-> dict[k]]
       \/ last' = [op |-> "get", key |-> k, value |-> {}]
    /\ UNCHANGED <<dict, phase>>

Del(k) ==
    /\ phase = "ready"
    /\ dict' = [dict EXCEPT ![k] = {}]
    /\ last' = [op |-> "del", key |-> k, err |-> "ERR_NONE"]
    /\ UNCHANGED phase

Bindings == UNION {{[key |-> k, value |-> v] : v \in dict[k]} : k \in Key}

Content ==
    /\ phase = "ready"
    /\ \/ last' = [op |-> "content", pairs |-> Bindings, err |-> "ERR_NONE"]
       \/ last' = [op |-> "content", pairs |-> {}, err |-> "ERR_NOMEM"]
    /\ UNCHANGED <<dict, phase>>

Delete ==
    /\ phase = "ready"
    /\ dict' = [k \in Key |-> {}]
    /\ phase' = "absent"
    /\ last' = [op |-> "delete"]

\* A call with a NULL for one of its pointers.
Refuse ==
    /\ \E c \in {"add", "get", "content", "del"} : last' = [op |-> "refused", call |-> c]
    /\ UNCHANGED <<dict, phase>>

Next ==
    \/ Construct
    \/ \E k \in Key : Get(k) \/ Del(k) \/ \E v \in Value : Add(k, v)
    \/ Content
    \/ Delete
    \/ Refuse

Spec == Init /\ [][Next]_vars
=============================================================================
