----------------------------- MODULE HashTable -----------------------------
(***************************************************************************)
(* One hash table of hashtable.c over its life, from construct_Htable to   *)
(* delete_Htable_and_content.  Every call is one step: the program is      *)
(* single-threaded and a table never leaves its process.  Each call makes  *)
(* its allocations succeed or fail, by choice.                             *)
(***************************************************************************)
EXTENDS Buckets

VARIABLES
    table,  \* table->elements (all lists empty while there is no table)
    phase,  \* "absent": no table; "ready"; "crashed": the process was killed
    last    \* the last call that returned, with its result

vars == <<table, phase, last>>

Errors == {"ERR_NONE", "ERR_NOMEM"}

Results ==
    [op : {"none", "delete"}]
      \cup [op : {"construct"}, err : Errors]
      \cup [op : {"add"}, key : Key, value : Value, err : Errors]
      \cup [op : {"get"}, key : Key, value : SUBSET Value]
      \cup [op : {"content"}, pairs : SUBSET kv_pair_t, err : Errors]
      \cup [op : {"del"}, key : Key, err : {"ERR_NONE"}]
      \cup [op : {"refused"}, call : {"add", "get", "content", "del"}]

TypeOK ==
    /\ table \in Table
    /\ phase \in {"absent", "ready", "crashed"}
    /\ last \in Results

Init ==
    /\ table = construct_Htable
    /\ phase = "absent"
    /\ last = [op |-> "none"]

\* construct_Htable: NULL is returned when either calloc fails.
Construct ==
    /\ phase = "absent"
    /\ \/ /\ table' = construct_Htable
          /\ phase' = "ready"
          /\ last' = [op |-> "construct", err |-> "ERR_NONE"]
       \/ /\ last' = [op |-> "construct", err |-> "ERR_NOMEM"]
          /\ UNCHANGED <<table, phase>>

\* add_Htable_value: create_node and strdup allocate before anything is linked
\* or freed, so a failure leaves the table as it was.
Add(k, v) ==
    /\ phase = "ready"
    /\ \/ /\ table' = add_Htable_value(table, k, v)
          /\ last' = [op |-> "add", key |-> k, value |-> v, err |-> "ERR_NONE"]
       \/ /\ table' = table
          /\ last' = [op |-> "add", key |-> k, value |-> v, err |-> "ERR_NOMEM"]
    /\ UNCHANGED phase

\* get_Htable_value: a failed strdup of the result looks like a missing key.
Get(k) ==
    /\ phase = "ready"
    /\ \E value \in {get_Htable_value(table, k), {}} :
          last' = [op |-> "get", key |-> k, value |-> value]
    /\ UNCHANGED <<table, phase>>

\* get_Htable_content: NULL when any allocation of create_kv_list or
\* get_kv_pair fails.
Content ==
    /\ phase = "ready"
    /\ \/ last' = [op |-> "content", pairs |-> get_kv_pair(table), err |-> "ERR_NONE"]
       \/ last' = [op |-> "content", pairs |-> {}, err |-> "ERR_NOMEM"]
    /\ UNCHANGED <<table, phase>>

\* delete_Htable_and_content frees the lists and sets the caller's pointer to NULL.
Delete ==
    /\ phase = "ready"
    /\ table' = construct_Htable
    /\ phase' = "absent"
    /\ last' = [op |-> "delete"]

\* del_Htable_key: ERR_NONE whether or not the key was found; unlinking the
\* head of a list dereferences last, which is still NULL.
Del(k) ==
    /\ phase = "ready"
    /\ \/ /\ DeletesHead(table, k)
          /\ phase' = "crashed"
          /\ UNCHANGED <<table, last>>
       \/ /\ ~ DeletesHead(table, k)
          /\ table' = del_Htable_key(table, k)
          /\ last' = [op |-> "del", key |-> k, err |-> "ERR_NONE"]
          /\ UNCHANGED phase

\* A NULL for a key or a value is refused with ERR_BAD_PARAMETER, or with a NULL
\* from get_Htable_value, before the table is looked at.  Without a table only
\* these two calls may be made: the others dereference the pointer to it.
Refuse ==
    /\ \/ phase = "ready" /\ \E c \in {"add", "get", "del"} : last' = [op |-> "refused", call |-> c]
       \/ phase = "absent" /\ \E c \in {"add", "content"} : last' = [op |-> "refused", call |-> c]
    /\ UNCHANGED <<table, phase>>

\* The whole interface; nothing in the repository calls del_Htable_key.
Next ==
    \/ Construct
    \/ \E k \in Key : Get(k) \/ Del(k) \/ \E v \in Value : Add(k, v)
    \/ Content
    \/ Delete
    \/ Refuse

Spec == Init /\ [][Next]_vars

----------------------------------------------------------------------------

(***************************************************************************)
(* Every pair is in the list its key hashes to.                            *)
(***************************************************************************)
WellPlaced ==
    \A b \in Bucket : \A i \in DOMAIN table[b] : HashOf[table[b][i].key] = b

(***************************************************************************)
(* In a list, no key is a prefix of a key behind it.  With the partial     *)
(* comparison of the walks this is what is left of "a key is stored once": *)
(* it implies that keys are distinct, and says which of two related keys   *)
(* shadows the other.  It rests on add_Htable_value searching the whole    *)
(* list before it links a node, and linking it at the head.                *)
(***************************************************************************)
ShadowOrder ==
    \A b \in Bucket : \A i, j \in DOMAIN table[b] :
        i < j => <<table[b][i].key, table[b][j].key>> \notin PrefixOf

ListInv == WellPlaced /\ ShadowOrder

(***************************************************************************)
(* A value that add_Htable_value reported as stored is the value that      *)
(* get_Htable_value finds next, whatever else shares the bucket.           *)
(***************************************************************************)
ReadYourWrites ==
    last.op = "add" /\ last.err = "ERR_NONE"
        => get_Htable_value(table, last.key) = {last.value}

(***************************************************************************)
(* How far the partial comparison can reach: adding or deleting one key    *)
(* changes what is read for another only if they share a bucket and one is *)
(* a prefix of the other.                                                  *)
(***************************************************************************)
BoundedInterference ==
    [][ \A s \in Key :
          /\ phase = "ready" /\ phase' = "ready"
          /\ get_Htable_value(table', s) # get_Htable_value(table, s)
          => last'.op \in {"add", "del"} /\ Related(last'.key, s) ]_vars

(***************************************************************************)
(* A key that can be read stays readable as long as the table lives and    *)
(* nothing is deleted from it.                                             *)
(***************************************************************************)
StaysReadable ==
    [][ \A s \in Key :
          /\ phase = "ready" /\ phase' = "ready" /\ last'.op # "del"
          /\ get_Htable_value(table, s) # {}
          => get_Htable_value(table', s) # {} ]_vars

(***************************************************************************)
(* hashtable.h on del_Htable_key: "@return 0 on success; error code on     *)
(* errror": the call returns.                                              *)
(***************************************************************************)
DelReturns == phase # "crashed"

(***************************************************************************)
(* hashtable.h as a whole: get_Htable_value returns "the associated        *)
(* value", the one last added under that key (the test of week04.c), and   *)
(* del_Htable_key deletes the pair of one key.  To the map a process that  *)
(* was killed inside a delete is one that makes no more calls.             *)
(***************************************************************************)
DictionaryPhase == IF phase = "crashed" THEN "ready" ELSE phase

AsDictionary ==
    INSTANCE Dictionary
        WITH dict <- [k \in Key |-> get_Htable_value(table, k)],
             phase <- DictionaryPhase

DictionarySpec == AsDictionary!Spec
============================================================================
