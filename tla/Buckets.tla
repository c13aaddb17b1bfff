------------------------------ MODULE Buckets ------------------------------
(***************************************************************************)
(* The chained hash table of hashtable.c as a value: construction, add,    *)
(* get, content and delete of one key.  The same code serves two purposes  *)
(* in the program, the store of a server and the vote table of a client's  *)
(* read, so these operators are shared by the modules of both.             *)
(*                                                                         *)
(* A bucket is the sequence of its key-value pairs, head of the linked     *)
(* list first.  Keys are opaque.  What the code does with their bytes is   *)
(* given by two constants:                                                 *)
(*   HashOf    the bucket hash_function sends a key to;                    *)
(*   PrefixOf  the pairs <<k, s>> with strncmp(s, k, strlen(k)) == 0, that *)
(*             is, those where the string k is a prefix of the string s.   *)
(***************************************************************************)
EXTENDS Naturals, Sequences

CONSTANTS
    Key,       \* the strings used as keys
    Value,     \* the strings stored under them
    Bucket,    \* the indices of table->elements
    HashOf,    \* the function of Key to Bucket that hash_function computes
    PrefixOf   \* the prefix order on Key, as a set of pairs

(***************************************************************************)
(* hash_function returns an index of the table (table->size is not zero),  *)
(* and the prefixes of strings form a partial order in which the prefixes  *)
(* of one string are comparable.                                           *)
(***************************************************************************)
ASSUME BucketsAssumption ==
    /\ HashOf \in [Key -> Bucket]
    /\ PrefixOf \subseteq Key \X Key
    /\ \A k \in Key : <<k, k>> \in PrefixOf
    /\ \A a, b, c \in Key :
          <<a, b>> \in PrefixOf /\ <<b, c>> \in PrefixOf => <<a, c>> \in PrefixOf
    /\ \A a, b, c \in Key :
          <<a, c>> \in PrefixOf /\ <<b, c>> \in PrefixOf
             => <<a, b>> \in PrefixOf \/ <<b, a>> \in PrefixOf

kv_pair_t == [key : Key, value : Value]
Table == [Bucket -> Seq(kv_pair_t)]

\* A variant for the mutation runs: create_node's two copies swapped.
SwappedPair(k, v) == [key |-> v, value |-> k]

kv_pair(k, v) == [key |-> k, value |-> v]

\* calloc leaves every head pointer NULL.
construct_Htable == [b \in Bucket |-> <<>>]

(***************************************************************************)
(* The test each list walk makes on an element: only strlen(key)           *)
(* characters are compared, so a stored key that merely begins with the    *)
(* key asked for matches as well.                                          *)
(***************************************************************************)
Matches(pair, k) == <<k, pair.key>> \in PrefixOf

(***************************************************************************)
(* Where a walk of list b for key k stops: the singleton of the first      *)
(* matching position, or the empty set when the walk reaches the end.      *)
(***************************************************************************)
FirstMatch(b, k) ==
    {i \in DOMAIN b : /\ Matches(b[i], k)
                      /\ \A j \in 1..(i-1) : ~ Matches(b[j], k)}

----------------------------------------------------------------------------

\* Variants of the operations below, for the mutation runs.
FirstMatchLast(b, k) ==
    {i \in DOMAIN b : /\ Matches(b[i], k)
                      /\ \A j \in (i+1)..Len(b) : ~ Matches(b[j], k)}

AddUpdatingLast(t, k, v) ==
    LET b == t[HashOf[k]]
        m == FirstMatchLast(b, k)
    IN  [t EXCEPT ![HashOf[k]] =
            IF m = {} THEN <<kv_pair(k, v)>> \o b
                      ELSE [i \in DOMAIN b |-> IF i \in m THEN kv_pair(b[i].key, v) ELSE b[i]]]

AddAtTail(t, k, v) ==
    LET b == t[HashOf[k]]
        m == FirstMatch(b, k)
    IN  [t EXCEPT ![HashOf[k]] =
            IF m = {} THEN Append(b, kv_pair(k, v))
                      ELSE [i \in DOMAIN b |-> IF i \in m THEN kv_pair(b[i].key, v) ELSE b[i]]]

AddReplacingKey(t, k, v) ==
    LET b == t[HashOf[k]]
        m == FirstMatch(b, k)
    IN  [t EXCEPT ![HashOf[k]] =
            IF m = {} THEN <<kv_pair(k, v)>> \o b
                      ELSE [i \in DOMAIN b |-> IF i \in m THEN kv_pair(k, v) ELSE b[i]]]

DelUnlinksPrevious(t, k) ==
    LET b == t[HashOf[k]]
        m == FirstMatch(b, k)
    IN  [t EXCEPT ![HashOf[k]] =
            IF m = {} THEN b
                      ELSE [i \in 1..(Len(b) - 1) |->
                               IF \E j \in m : j <= i + 1 THEN b[i+1] ELSE b[i]]]

AddDroppingList(t, k, v) ==
    LET b == t[HashOf[k]]
        m == FirstMatch(b, k)
    IN  [t EXCEPT ![HashOf[k]] =
            IF m = {} THEN <<kv_pair(k, v)>>
                      ELSE [i \in DOMAIN b |-> IF i \in m THEN kv_pair(b[i].key, v) ELSE b[i]]]

----------------------------------------------------------------------------

(***************************************************************************)
(* add_Htable_value, when its allocations succeed: the first matching pair *)
(* keeps its key and gets the new value; when none matches, a new pair     *)
(* becomes the head of the list.                                           *)
(***************************************************************************)
add_Htable_value(t, k, v) ==
    LET b == t[HashOf[k]]
        m == FirstMatch(b, k)
    IN  [t EXCEPT ![HashOf[k]] =
            IF m = {} THEN <<kv_pair(k, v)>> \o b
                      ELSE [i \in DOMAIN b |-> IF i \in m THEN kv_pair(b[i].key, v) ELSE b[i]]]

(***************************************************************************)
(* get_Htable_value: the value of the first match, as a singleton, or the  *)
(* empty set for NULL.                                                     *)
(***************************************************************************)
get_Htable_value(t, k) ==
    LET b == t[HashOf[k]] IN {b[i].value : i \in FirstMatch(b, k)}

\* get_kv_pair: the pairs of all lists.
get_kv_pair(t) == UNION {{t[b][i] : i \in DOMAIN t[b]} : b \in Bucket}

(***************************************************************************)
(* del_Htable_key, when the match is not the head of its list: the element *)
(* is unlinked.  For a head element the code writes through the NULL       *)
(* pointer last; see HashTable.                                            *)
(***************************************************************************)
del_Htable_key(t, k) ==
    LET b == t[HashOf[k]]
        m == FirstMatch(b, k)
    IN  [t EXCEPT ![HashOf[k]] =
            IF m = {} THEN b
                      ELSE [i \in 1..(Len(b) - 1) |->
                               IF \E j \in m : j <= i THEN b[i+1] ELSE b[i]]]

DeletesHead(t, k) == 1 \in FirstMatch(t[HashOf[k]], k)

(***************************************************************************)
(* No two keys of one bucket are related by the prefix order.  Where this  *)
(* holds, the partial comparison is as good as an equality test.           *)
(***************************************************************************)
NoPrefixClash ==
    \A k, s \in Key : <<k, s>> \in PrefixOf /\ HashOf[k] = HashOf[s] => k = s

\* Two keys that a list walk may take for each other.
Related(k, s) ==
    /\ HashOf[k] = HashOf[s]
    /\ <<k, s>> \in PrefixOf \/ <<s, k>> \in PrefixOf
============================================================================
