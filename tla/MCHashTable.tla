---------------------------- MODULE MCHashTable ----------------------------
(***************************************************************************)
(* Instances of HashTable.  A key is the sequence of its characters, so    *)
(* that the prefix order is the real one; hash_function is replaced by a   *)
(* fixed assignment of the keys to two buckets.                            *)
(***************************************************************************)
EXTENDS HashTable, SequencesExt

\* "", "a", "ab" and "ac" collide with each other; "b" is elsewhere.
ClashKey == {<<>>, <<1>>, <<1, 2>>, <<1, 3>>, <<2>>}

\* "a" and "b", "ab" and "ba" share buckets, and no key a bucket with a prefix.
PlainKey == {<<1>>, <<2>>, <<1, 2>>, <<2, 1>>}

MCBucket == {0, 1}

PrefixPairs(K) == {p \in K \X K : IsPrefix(p[1], p[2])}
ClashPrefix == PrefixPairs(ClashKey)
PlainPrefix == PrefixPairs(PlainKey)

ClashHash == [k \in ClashKey |-> IF k = <<2>> THEN 1 ELSE 0]
PlainHash == [k \in PlainKey |-> Len(k) - 1]
============================================================================
