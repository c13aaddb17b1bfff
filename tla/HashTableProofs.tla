--------------------------- MODULE HashTableProofs ---------------------------
(***************************************************************************)
(* Proofs about HashTable, for any keys, values, hash function and prefix  *)
(* order that satisfy BucketsAssumption.                                   *)
(***************************************************************************)
EXTENDS HashTable, BucketsProofs

(***************************************************************************)
(* ListInv is a statement about each list.                                 *)
(***************************************************************************)
ListOK(b, c) ==
    /\ \A i \in DOMAIN b : HashOf[b[i].key] = c
    /\ \A i, j \in DOMAIN b : i < j => <<b[i].key, b[j].key>> \notin PrefixOf

LEMMA ListInvByList == ListInv <=> \A c \in Bucket : ListOK(table[c], c)
BY DEF ListInv, WellPlaced, ShadowOrder, ListOK

\* A node is linked at the head only when its key is a prefix of no other.
LEMMA LinkHeadOK ==
    ASSUME NEW b \in Seq(kv_pair_t), NEW k \in Key, NEW v \in Value,
           ListOK(b, HashOf[k]), FirstMatch(b, k) = {}
    PROVE  ListOK(<<kv_pair(k, v)>> \o b, HashOf[k])
<1> DEFINE p == kv_pair(k, v)
           u == <<p>> \o b
<1>1. p \in kv_pair_t /\ p.key = k
    BY PairType
<1>2. /\ Len(b) \in Nat
      /\ DOMAIN b = 1..Len(b)
      /\ DOMAIN u = 1..(Len(b) + 1)
      /\ u[1] = p
      /\ \A i \in 2..(Len(b) + 1) : u[i] = b[i-1]
    BY <1>1, LinkHead
<1>3. \A i \in DOMAIN b : <<k, b[i].key>> \notin PrefixOf
    BY NoMatch DEF Matches
<1> HIDE DEF u, p
<1>4. ASSUME NEW i \in DOMAIN u PROVE HashOf[u[i].key] = HashOf[k]
  <2>1. CASE i = 1
      BY <1>1, <1>2, <2>1
  <2>2. CASE i # 1
    <3>1. i \in 2..(Len(b) + 1) /\ i - 1 \in DOMAIN b
        BY <1>2, <2>2
    <3> QED
        BY <1>2, <3>1 DEF ListOK
  <2> QED
      BY <2>1, <2>2
<1>5. ASSUME NEW i \in DOMAIN u, NEW j \in DOMAIN u, i < j
      PROVE  <<u[i].key, u[j].key>> \notin PrefixOf
  <2>1. j \in 2..(Len(b) + 1) /\ j - 1 \in DOMAIN b
      BY <1>2, <1>5
  <2>2. CASE i = 1
      BY <1>1, <1>2, <1>3, <2>1, <2>2
  <2>3. CASE i # 1
    <3>1. i \in 2..(Len(b) + 1) /\ i - 1 \in DOMAIN b /\ i - 1 < j - 1
        BY <1>2, <1>5, <2>3
    <3> QED
        BY <1>2, <2>1, <3>1 DEF ListOK
  <2> QED
      BY <2>2, <2>3
<1> QED
    BY <1>4, <1>5 DEF ListOK, u, p

LEMMA UpdatedOK ==
    ASSUME NEW b \in Seq(kv_pair_t), NEW k \in Key, NEW v \in Value, NEW c,
           ListOK(b, c)
    PROVE  ListOK(Updated(b, k, v), c)
<1>1. /\ DOMAIN Updated(b, k, v) = DOMAIN b
      /\ \A i \in DOMAIN b : Updated(b, k, v)[i].key = b[i].key
    BY UpdatedType DEF Updated
<1> QED
    BY <1>1 DEF ListOK

LEMMA RemovedOK ==
    ASSUME NEW b \in Seq(kv_pair_t), NEW k, NEW c, ListOK(b, c),
           FirstMatch(b, k) # {}
    PROVE  ListOK(Removed(b, k), c)
<1> PICK m \in FirstMatch(b, k) : TRUE
    OBVIOUS
<1> DEFINE r == Removed(b, k)
           from(i) == IF m <= i THEN i + 1 ELSE i
<1>1. /\ Len(b) \in Nat /\ m \in 1..Len(b)
      /\ DOMAIN b = 1..Len(b)
      /\ DOMAIN r = 1..(Len(b) - 1)
    BY RemovedType
<1>2. \A i \in DOMAIN r : r[i] = b[from(i)] /\ from(i) \in DOMAIN b
    BY SMTT(30), <1>1, RemovedType
<1>3. \A i, j \in DOMAIN r : i < j => from(i) < from(j)
    BY <1>1
<1> HIDE DEF r, from
<1> QED
    BY <1>2, <1>3 DEF ListOK, r

----------------------------------------------------------------------------

LEMMA InitType == Init => TypeOK
BY EmptyTable DEF Init, TypeOK, Results

LEMMA ContentType ==
    ASSUME NEW t \in Table
    PROVE  get_kv_pair(t) \subseteq kv_pair_t
<1>1. \A b \in Bucket : \A i \in DOMAIN t[b] : t[b][i] \in kv_pair_t
    BY BucketType, ElementOfSeq
<1> QED
    BY <1>1 DEF get_kv_pair

LEMMA GetType ==
    ASSUME NEW t \in Table, NEW k \in Key
    PROVE  get_Htable_value(t, k) \subseteq Value
<1> DEFINE b == t[HashOf[k]]
<1>1. b \in Seq(kv_pair_t)
    BY HashType, BucketType
<1>2. \A i \in DOMAIN b : b[i].value \in Value
  <2> TAKE i \in DOMAIN b
  <2>1. b[i] \in kv_pair_t
      BY <1>1
  <2> QED
      BY <2>1 DEF kv_pair_t
<1> QED
    BY <1>2 DEF get_Htable_value, FirstMatch

(***************************************************************************)
(* Every call keeps the types and, in every list, the invariant.           *)
(***************************************************************************)
LEMMA TypeStep == TypeOK /\ [Next]_vars => TypeOK'
<1> SUFFICES ASSUME TypeOK, [Next]_vars
             PROVE  TypeOK'
    OBVIOUS
<1> USE DEF TypeOK
<1>1. CASE Construct
    BY <1>1, EmptyTable DEF Construct, Results, Errors
<1>2. ASSUME NEW k \in Key, Get(k) PROVE TypeOK'
  <2>1. PICK value \in {get_Htable_value(table, k), {}} :
           last' = [op |-> "get", key |-> k, value |-> value]
      BY <1>2 DEF Get
  <2>2. value \in SUBSET Value
      BY <2>1, GetType
  <2>3. last' \in Results
      BY <2>1, <2>2 DEF Results
  <2> QED
      BY <1>2, <2>3 DEF Get
<1>3. ASSUME NEW k \in Key, NEW v \in Value, Add(k, v) PROVE TypeOK'
  <2>1. table' \in Table
      BY <1>3, AddEffect DEF Add
  <2>2. last' \in [op : {"add"}, key : Key, value : Value, err : Errors]
      BY <1>3 DEF Add, Errors
  <2> QED
      BY <1>3, <2>1, <2>2 DEF Add, Results
<1>4. CASE Content
    BY <1>4, ContentType DEF Content, Results, Errors
<1>5. CASE Delete
    BY <1>5, EmptyTable DEF Delete, Results
<1>6. ASSUME NEW k \in Key, Del(k) PROVE TypeOK'
    BY <1>6, DelEffect DEF Del, Results
<1>7. CASE Refuse
    BY <1>7 DEF Refuse, Results
<1>8. CASE UNCHANGED vars
    BY <1>8 DEF vars
<1> QED
    BY <1>1, <1>2, <1>3, <1>4, <1>5, <1>6, <1>7, <1>8 DEF Next

LEMMA ListStep == TypeOK /\ ListInv /\ [Next]_vars => ListInv'
<1> SUFFICES ASSUME TypeOK, ListInv, [Next]_vars
             PROVE  \A c \in Bucket : ListOK(table'[c], c)
    BY ListInvByList DEF ListInv, WellPlaced, ShadowOrder, ListOK
<1>0. table \in Table /\ \A c \in Bucket : ListOK(table[c], c)
    BY ListInvByList DEF TypeOK
<1>1. CASE table' = table
    BY <1>0, <1>1
<1>2. CASE table' = construct_Htable
    BY <1>2, EmptyTable DEF ListOK
<1>3. ASSUME NEW k \in Key, NEW v \in Value, table' = add_Htable_value(table, k, v)
      PROVE  \A c \in Bucket : ListOK(table'[c], c)
  <2> DEFINE h == HashOf[k]
  <2>1. h \in Bucket /\ table[h] \in Seq(kv_pair_t) /\ ListOK(table[h], h)
      BY <1>0, HashType, BucketType
  <2>2. ListOK(table'[h], h)
    <3>1. CASE FirstMatch(table[h], k) = {}
      <4>1. table'[h] = <<kv_pair(k, v)>> \o table[h]
          BY <1>0, <1>3, <3>1, AddEffect
      <4> QED
          BY <2>1, <3>1, <4>1, LinkHeadOK
    <3>2. CASE FirstMatch(table[h], k) # {}
      <4>1. table'[h] = Updated(table[h], k, v)
          BY <1>0, <1>3, <3>2, AddEffect
      <4> QED
          BY <2>1, <4>1, UpdatedOK
    <3> QED
        BY <3>1, <3>2
  <2> QED
      BY <1>0, <1>3, <2>2, AddEffect
<1>4. ASSUME NEW k \in Key, table' = del_Htable_key(table, k)
      PROVE  \A c \in Bucket : ListOK(table'[c], c)
  <2> DEFINE h == HashOf[k]
  <2>1. h \in Bucket /\ table[h] \in Seq(kv_pair_t) /\ ListOK(table[h], h)
      BY <1>0, HashType, BucketType
  <2>2. ListOK(table'[h], h)
      BY <1>0, <1>4, <2>1, DelEffect, RemovedOK
  <2> QED
      BY <1>0, <1>4, <2>2, DelEffect
<1> QED
    BY <1>1, <1>2, <1>3, <1>4
       DEF Next, Construct, Get, Add, Content, Delete, Del, Refuse, vars

(***************************************************************************)
(* The type invariant: in particular the lists hold pairs of known keys    *)
(* and values, and every result is one the header allows.                  *)
(***************************************************************************)
THEOREM TypeCorrect == Spec => []TypeOK
BY InitType, TypeStep, PTL DEF Spec

LEMMA InitList == Init => ListInv
BY EmptyTable DEF Init, ListInv, WellPlaced, ShadowOrder

(***************************************************************************)
(* The list invariant: pairs stay in the list of their key, and no key of  *)
(* a list is a prefix of one behind it, whatever calls are made.           *)
(***************************************************************************)
THEOREM ListsCorrect == Spec => []ListInv
BY InitType, InitList, TypeStep, ListStep, PTL DEF Spec

----------------------------------------------------------------------------

LEMMA RemovedRead ==
    ASSUME NEW b \in Seq(kv_pair_t), NEW k, NEW s, NEW m \in FirstMatch(b, k),
           m \notin FirstMatch(b, s)
    PROVE  Read(Removed(b, k), s) = Read(b, s)
<1> DEFINE r == Removed(b, k)
<1>1. /\ Len(b) \in Nat /\ m \in 1..Len(b)
      /\ DOMAIN b = 1..Len(b)
      /\ DOMAIN r = 1..(Len(b) - 1)
      /\ \A i \in 1..(Len(b) - 1) : r[i] = IF m <= i THEN b[i+1] ELSE b[i]
    BY RemovedType
<1> HIDE DEF r
<1>2. ASSUME NEW n \in FirstMatch(b, s)
      PROVE  \E x \in FirstMatch(r, s) : r[x] = b[n]
  <2>1. n \in 1..Len(b) /\ n # m /\ Matches(b[n], s) /\ \A j \in 1..(n-1) : ~ Matches(b[j], s)
      BY <1>1, <1>2 DEF FirstMatch
  <2>2. CASE n < m
    <3>1. /\ n \in 1..(Len(b) - 1) /\ r[n] = b[n]
          /\ \A j \in 1..(n-1) : r[j] = b[j]
        BY <1>1, <2>1, <2>2
    <3>2. n \in FirstMatch(r, s)
        BY <1>1, <2>1, <3>1 DEF FirstMatch
    <3> QED
        BY <3>1, <3>2
  <2>3. CASE m < n
    <3>1. n - 1 \in 1..(Len(b) - 1) /\ r[n-1] = b[n]
        BY <1>1, <2>1, <2>3
    <3>2. \A j \in 1..((n-1)-1) : \E i \in 1..(n-1) : r[j] = b[i]
      <4> TAKE j \in 1..((n-1)-1)
      <4>1. j \in 1..(n-1) /\ j + 1 \in 1..(n-1) /\ j \in 1..(Len(b) - 1)
          BY <1>1, <2>1
      <4> QED
          BY <1>1, <4>1
    <3>3. n - 1 \in FirstMatch(r, s)
        BY <1>1, <2>1, <3>1, <3>2 DEF FirstMatch
    <3> QED
        BY <3>1, <3>3
  <2> QED
      BY <1>1, <2>1, <2>2, <2>3
<1>3. ASSUME NEW x \in FirstMatch(r, s)
      PROVE  \E n \in FirstMatch(b, s) : b[n] = r[x]
  <2>1. x \in 1..(Len(b) - 1) /\ Matches(r[x], s) /\ \A j \in 1..(x-1) : ~ Matches(r[j], s)
      BY <1>1, <1>3 DEF FirstMatch
  <2>2. CASE x < m
    <3>1. /\ x \in 1..Len(b) /\ r[x] = b[x]
          /\ \A j \in 1..(x-1) : r[j] = b[j]
        BY <1>1, <2>1, <2>2
    <3>2. x \in FirstMatch(b, s)
        BY <1>1, <2>1, <3>1 DEF FirstMatch
    <3> QED
        BY <3>1, <3>2
  <2>3. CASE m <= x
    <3>1. x + 1 \in 1..Len(b) /\ r[x] = b[x+1]
        BY <1>1, <2>1, <2>3
    <3>2. ASSUME NEW j \in 1..(m-1) PROVE ~ Matches(b[j], s)
      <4>1. j \in 1..(x-1) /\ j \in 1..(Len(b) - 1) /\ r[j] = b[j]
          BY <1>1, <2>1, <2>3
      <4> QED
          BY <2>1, <4>1
    <3>3. ~ Matches(b[m], s)
        BY <1>1, <3>2 DEF FirstMatch
    <3>4. ASSUME NEW j \in 1..((x+1)-1) PROVE ~ Matches(b[j], s)
      <4>1. CASE j < m
          BY <1>1, <3>2, <4>1
      <4>2. CASE m < j
        <5>1. j - 1 \in 1..(x-1) /\ j - 1 \in 1..(Len(b) - 1) /\ r[j-1] = b[j]
            BY <1>1, <2>1, <4>2
        <5> QED
            BY <2>1, <5>1
      <4> QED
          BY <1>1, <3>3, <4>1, <4>2
    <3>5. x + 1 \in FirstMatch(b, s)
        BY <1>1, <2>1, <3>1, <3>4 DEF FirstMatch
    <3> QED
        BY <3>1, <3>5
  <2> QED
      BY <1>1, <2>1, <2>2, <2>3
<1>4. Read(b, s) \subseteq Read(r, s)
    BY <1>2 DEF Read
<1>5. Read(r, s) \subseteq Read(b, s)
    BY <1>3 DEF Read
<1> QED
    BY <1>4, <1>5 DEF r

(***************************************************************************)
(* What del_Htable_key changes for a reader.                               *)
(***************************************************************************)
LEMMA DelRead ==
    ASSUME NEW t \in Table, NEW k \in Key, NEW s \in Key, ~ Related(k, s)
    PROVE  get_Htable_value(del_Htable_key(t, k), s) = get_Htable_value(t, s)
<1> DEFINE h == HashOf[k]
           u == del_Htable_key(t, k)
<1>1. h \in Bucket /\ t[h] \in Seq(kv_pair_t) /\ HashOf[s] \in Bucket
    BY HashType, BucketType
<1>2. /\ get_Htable_value(t, s) = Read(t[HashOf[s]], s)
      /\ get_Htable_value(u, s) = Read(u[HashOf[s]], s)
    BY ReadOf
<1>3. CASE HashOf[s] # h \/ FirstMatch(t[h], k) = {}
  <2>1. u[HashOf[s]] = t[HashOf[s]]
      BY <1>1, <1>3, DelEffect
  <2> QED
      BY <1>2, <2>1
<1>4. CASE HashOf[s] = h /\ FirstMatch(t[h], k) # {}
  <2>1. u[h] = Removed(t[h], k)
      BY <1>4, DelEffect
  <2>2. PICK m \in FirstMatch(t[h], k) : TRUE
      BY <1>4
  <2>3. m \notin FirstMatch(t[h], s)
      BY <1>1, <1>4, <2>2, SameMatchRelated DEF Related
  <2> QED
      BY <1>1, <1>2, <1>4, <2>1, <2>3, RemovedRead
<1> QED
    BY <1>3, <1>4

----------------------------------------------------------------------------

LEMMA WritesStep == TypeOK /\ ReadYourWrites /\ [Next]_vars => ReadYourWrites'
<1> SUFFICES ASSUME TypeOK, ReadYourWrites, [Next]_vars
             PROVE  ReadYourWrites'
    OBVIOUS
<1> USE DEF ReadYourWrites
<1>1. CASE Construct
    BY <1>1 DEF Construct
<1>2. ASSUME NEW k \in Key, Get(k) PROVE ReadYourWrites'
    BY <1>2 DEF Get
<1>3. ASSUME NEW k \in Key, NEW v \in Value, Add(k, v) PROVE ReadYourWrites'
    BY <1>3, AddRead DEF Add, TypeOK
<1>4. CASE Content
    BY <1>4 DEF Content
<1>5. CASE Delete
    BY <1>5 DEF Delete
<1>6. ASSUME NEW k \in Key, Del(k) PROVE ReadYourWrites'
    BY <1>6 DEF Del
<1>7. CASE Refuse
    BY <1>7 DEF Refuse
<1>8. CASE UNCHANGED vars
    BY <1>8 DEF vars
<1> QED
    BY <1>1, <1>2, <1>3, <1>4, <1>5, <1>6, <1>7, <1>8 DEF Next

(***************************************************************************)
(* A value reported as stored is the value read next, whatever keys and    *)
(* however the hash function spreads them.                                 *)
(***************************************************************************)
THEOREM WritesAreRead == Spec => []ReadYourWrites
<1>1. Init => ReadYourWrites
    BY DEF Init, ReadYourWrites
<1> QED
    BY <1>1, InitType, TypeStep, WritesStep, PTL DEF Spec

----------------------------------------------------------------------------

LEMMA InterferenceStep ==
    ASSUME TypeOK, [Next]_vars, NEW s \in Key,
           phase = "ready", phase' = "ready",
           get_Htable_value(table', s) # get_Htable_value(table, s)
    PROVE  last'.op \in {"add", "del"} /\ Related(last'.key, s)
<1>1. table' # table
    OBVIOUS
<1>2. ASSUME NEW k \in Key, NEW v \in Value, Add(k, v)
      PROVE  last'.op = "add" /\ Related(last'.key, s)
    BY <1>1, <1>2, AddRead DEF Add, TypeOK
<1>3. ASSUME NEW k \in Key, Del(k)
      PROVE  last'.op = "del" /\ Related(last'.key, s)
    BY <1>1, <1>3, DelRead DEF Del, TypeOK
<1> QED
    BY <1>1, <1>2, <1>3 DEF Next, Construct, Get, Content, Delete, Refuse, vars

(***************************************************************************)
(* The reach of the partial comparison: a call for one key changes what is *)
(* read for another only when they share a list and one is a prefix of the *)
(* other.                                                                  *)
(***************************************************************************)
THEOREM InterferenceBounded == Spec => BoundedInterference
<1>1. TypeOK /\ [Next]_vars =>
        [ \A s \in Key :
            /\ phase = "ready" /\ phase' = "ready"
            /\ get_Htable_value(table', s) # get_Htable_value(table, s)
            => last'.op \in {"add", "del"} /\ Related(last'.key, s) ]_vars
    BY InterferenceStep
<1> QED
    BY <1>1, InitType, TypeStep, PTL DEF Spec, BoundedInterference

LEMMA ReadableStep ==
    ASSUME TypeOK, [Next]_vars, NEW s \in Key,
           phase = "ready", phase' = "ready", last'.op # "del",
           get_Htable_value(table, s) # {}
    PROVE  get_Htable_value(table', s) # {}
<1>1. CASE table' = table
    BY <1>1
<1>2. ASSUME NEW k \in Key, NEW v \in Value, table' = add_Htable_value(table, k, v)
      PROVE  get_Htable_value(table', s) # {}
    BY <1>2, AddRead DEF TypeOK
<1> QED
    BY <1>1, <1>2 DEF Next, Construct, Get, Add, Content, Delete, Del, Refuse, vars

(***************************************************************************)
(* No call but a delete makes a readable key unreadable.                   *)
(***************************************************************************)
THEOREM ReadableStays == Spec => StaysReadable
<1>1. TypeOK /\ [Next]_vars =>
        [ \A s \in Key :
            /\ phase = "ready" /\ phase' = "ready" /\ last'.op # "del"
            /\ get_Htable_value(table, s) # {}
            => get_Htable_value(table', s) # {} ]_vars
    BY ReadableStep
<1> QED
    BY <1>1, InitType, TypeStep, PTL DEF Spec, StaysReadable

----------------------------------------------------------------------------

(***************************************************************************)
(* The abstract value of a table.                                          *)
(***************************************************************************)
Dict(t) == [k \in Key |-> get_Htable_value(t, k)]

LEMMA DictEmpty == Dict(construct_Htable) = [k \in Key |-> {}]
BY NothingFound DEF Dict

LEMMA DictAdd ==
    ASSUME NoPrefixClash, NEW t \in Table, NEW k \in Key, NEW v \in Value
    PROVE  Dict(add_Htable_value(t, k, v)) = [Dict(t) EXCEPT ![k] = {v}]
<1>1. \A s \in Key : s # k => ~ Related(k, s)
    BY DEF NoPrefixClash, Related
<1>2. \A s \in Key : get_Htable_value(add_Htable_value(t, k, v), s) =
                        IF s = k THEN {v} ELSE get_Htable_value(t, s)
  <2> TAKE s \in Key
  <2>1. /\ get_Htable_value(add_Htable_value(t, k, v), k) = {v}
        /\ ~ Related(k, s) =>
              get_Htable_value(add_Htable_value(t, k, v), s) = get_Htable_value(t, s)
      BY AddRead
  <2> QED
      BY <1>1, <2>1
<1> QED
    BY <1>2 DEF Dict

LEMMA DictDel ==
    ASSUME NoPrefixClash, ListInv, table \in Table, NEW k \in Key
    PROVE  Dict(del_Htable_key(table, k)) = [Dict(table) EXCEPT ![k] = {}]
<1> DEFINE h == HashOf[k]
           b == table[h]
           u == del_Htable_key(table, k)
<1>1. h \in Bucket /\ b \in Seq(kv_pair_t) /\ ListOK(b, h)
    BY HashType, BucketType, ListInvByList
<1>2. get_Htable_value(u, k) = {}
  <2>1. CASE FirstMatch(b, k) = {}
    <3>1. u[h] = b
        BY <2>1, DelEffect
    <3> QED
        BY <2>1, <3>1 DEF get_Htable_value
  <2>2. CASE FirstMatch(b, k) # {}
    <3>0. PICK m \in FirstMatch(b, k) : TRUE
        BY <2>2
    <3> DEFINE r == Removed(b, k)
    <3>1. u[h] = r
        BY <2>2, DelEffect
    <3>2. /\ m \in 1..Len(b) /\ Len(b) \in Nat /\ DOMAIN b = 1..Len(b)
          /\ DOMAIN r = 1..(Len(b) - 1)
          /\ \A i \in 1..(Len(b) - 1) : r[i] = IF m <= i THEN b[i+1] ELSE b[i]
        BY <1>1, RemovedType
    <3>3. \A i \in 1..Len(b) : b[i].key \in Key /\ HashOf[b[i].key] = h
      <4>1. \A i \in 1..Len(b) : b[i] \in kv_pair_t
          BY <1>1, <3>2, ElementOfSeq
      <4> QED
          BY <1>1, <3>2, <4>1 DEF ListOK, kv_pair_t
    <3>4. \A i \in 1..Len(b) : Matches(b[i], k) => b[i].key = k
        BY <3>3 DEF Matches, NoPrefixClash
    <3>5. b[m].key = k
        BY <3>2, <3>4 DEF FirstMatch
    <3>6. ASSUME NEW i \in 1..Len(b), i # m PROVE b[i].key # k
      <4>1. i < m \/ m < i
          BY <3>2, <3>6
      <4> QED
          BY <1>1, <3>2, <3>5, <4>1, BucketsAssumption DEF ListOK
    <3>7. ASSUME NEW i \in DOMAIN r PROVE ~ Matches(r[i], k)
      <4>1. CASE m <= i
        <5>1. i + 1 \in 1..Len(b) /\ i + 1 # m /\ r[i] = b[i+1]
            BY <3>2, <4>1
        <5> QED
            BY <3>4, <3>6, <5>1
      <4>2. CASE ~ m <= i
        <5>1. i \in 1..Len(b) /\ i # m /\ r[i] = b[i]
            BY <3>2, <4>2
        <5> QED
            BY <3>4, <3>6, <5>1
      <4> QED
          BY <4>1, <4>2
    <3>8. FirstMatch(r, k) = {}
        BY <3>7 DEF FirstMatch
    <3> HIDE DEF r
    <3> QED
        BY <3>1, <3>8 DEF get_Htable_value
  <2> QED
      BY <2>1, <2>2
<1>3. \A s \in Key : s # k => get_Htable_value(u, s) = get_Htable_value(table, s)
  <2>1. \A s \in Key : s # k => ~ Related(k, s)
      BY DEF NoPrefixClash, Related
  <2> QED
      BY <2>1, DelRead
<1> QED
    BY <1>2, <1>3 DEF Dict

(***************************************************************************)
(* Without prefix clashes every pair is the one its key finds, so the      *)
(* content of the table is the graph of the dictionary.                    *)
(***************************************************************************)
LEMMA PairFound ==
    ASSUME NoPrefixClash, TypeOK, ListInv, NEW b \in Bucket, NEW i \in DOMAIN table[b]
    PROVE  /\ table[b][i] \in kv_pair_t
           /\ HashOf[table[b][i].key] = b
           /\ i \in FirstMatch(table[b], table[b][i].key)
<1> DEFINE l == table[b]
           k == l[i].key
<1>1. /\ l \in Seq(kv_pair_t)
      /\ \A j \in DOMAIN l : l[j] \in kv_pair_t
    BY BucketType, ElementOfSeq DEF TypeOK
<1>2. /\ \A j \in DOMAIN l : l[j].key \in Key /\ HashOf[l[j].key] = b
      /\ DOMAIN l = 1..Len(l) /\ Len(l) \in Nat
    BY <1>1 DEF ListInv, WellPlaced, kv_pair_t
<1>3. Matches(l[i], k)
    BY <1>2, BucketsAssumption DEF Matches
<1>4. ASSUME NEW j \in 1..(i-1), Matches(l[j], k) PROVE FALSE
  <2>1. j \in DOMAIN l /\ j < i
      BY <1>2
  <2>2. l[j].key = k
      BY <1>2, <1>4, <2>1 DEF Matches, NoPrefixClash
  <2>3. <<l[j].key, l[i].key>> \notin PrefixOf
      BY <2>1 DEF ListInv, ShadowOrder
  <2> QED
      BY <1>2, <2>2, <2>3, BucketsAssumption
<1> QED
    BY <1>1, <1>2, <1>3, <1>4 DEF FirstMatch

LEMMA DictContent ==
    ASSUME NoPrefixClash, TypeOK, ListInv
    PROVE  get_kv_pair(table) = AsDictionary!Bindings
<1>1. AsDictionary!Bindings =
        UNION {{[key |-> k, value |-> v] : v \in get_Htable_value(table, k)} : k \in Key}
    BY DEF AsDictionary!Bindings
<1>2. ASSUME NEW p \in get_kv_pair(table) PROVE p \in AsDictionary!Bindings
  <2>0. PICK b \in Bucket : \E i \in DOMAIN table[b] : p = table[b][i]
      BY <1>2 DEF get_kv_pair
  <2>1. PICK i \in DOMAIN table[b] : p = table[b][i]
      BY <2>0
  <2>2. /\ p \in kv_pair_t /\ HashOf[p.key] = b
        /\ i \in FirstMatch(table[b], p.key)
      BY <2>1, PairFound
  <2>3. p.value \in get_Htable_value(table, p.key)
      BY <2>1, <2>2 DEF get_Htable_value
  <2>4. p.key \in Key /\ p = [key |-> p.key, value |-> p.value]
      BY <2>2 DEF kv_pair_t
  <2> QED
      BY <1>1, <2>3, <2>4
<1>3. ASSUME NEW p \in AsDictionary!Bindings PROVE p \in get_kv_pair(table)
  <2>1. PICK k \in Key : \E v \in get_Htable_value(table, k) : p = [key |-> k, value |-> v]
      BY <1>1, <1>3
  <2>2. PICK v \in get_Htable_value(table, k) : p = [key |-> k, value |-> v]
      BY <2>1
  <2>3. PICK i \in FirstMatch(table[HashOf[k]], k) : v = table[HashOf[k]][i].value
      BY <2>2 DEF get_Htable_value
  <2>4. HashOf[k] \in Bucket /\ i \in DOMAIN table[HashOf[k]] /\ Matches(table[HashOf[k]][i], k)
      BY <2>3, HashType DEF FirstMatch
  <2>5. /\ table[HashOf[k]][i] \in kv_pair_t
        /\ HashOf[table[HashOf[k]][i].key] = HashOf[k]
      BY <2>4, PairFound
  <2>6. table[HashOf[k]][i].key = k
      BY <2>4, <2>5 DEF Matches, NoPrefixClash, kv_pair_t
  <2>7. p = table[HashOf[k]][i]
      BY <2>2, <2>3, <2>5, <2>6 DEF kv_pair_t
  <2> QED
      BY <2>4, <2>7 DEF get_kv_pair
<1> QED
    BY <1>2, <1>3

LEMMA RefinesInit == Init => AsDictionary!Init
BY DictEmpty DEF Init, AsDictionary!Init, Dict, DictionaryPhase

\* While there is no table its lists are empty.
AbsentEmpty == phase = "absent" => table = construct_Htable

LEMMA AbsentStep == AbsentEmpty /\ [Next]_vars => AbsentEmpty'
BY DEF AbsentEmpty, Next, Construct, Get, Add, Content, Delete, Del, Refuse, vars

LEMMA RefinesStep ==
    ASSUME NoPrefixClash, TypeOK, ListInv, AbsentEmpty, [Next]_vars
    PROVE  [AsDictionary!Next]_(AsDictionary!vars)
<1>1. CASE Construct
  <2>1. table' = table
      BY <1>1 DEF Construct, AbsentEmpty
  <2>2. AsDictionary!Construct
      BY <1>1, <2>1 DEF Construct, AsDictionary!Construct, DictionaryPhase
  <2> QED
      BY <2>2 DEF AsDictionary!Next
<1>2. ASSUME NEW k \in Key, Get(k) PROVE AsDictionary!Get(k)
    BY <1>2 DEF Get, AsDictionary!Get, DictionaryPhase
<1>3. ASSUME NEW k \in Key, NEW v \in Value, Add(k, v) PROVE AsDictionary!Add(k, v)
  <2>1. CASE table' = add_Htable_value(table, k, v)
            /\ last' = [op |-> "add", key |-> k, value |-> v, err |-> "ERR_NONE"]
    <3>1. Dict(table') = [Dict(table) EXCEPT ![k] = {v}]
        BY <2>1, DictAdd DEF TypeOK
    <3> QED
        BY <1>3, <2>1, <3>1 DEF Add, AsDictionary!Add, Dict, DictionaryPhase
  <2>2. CASE table' = table
            /\ last' = [op |-> "add", key |-> k, value |-> v, err |-> "ERR_NOMEM"]
      BY <1>3, <2>2 DEF Add, AsDictionary!Add, DictionaryPhase
  <2> QED
      BY <1>3, <2>1, <2>2 DEF Add
<1>4. ASSUME Content PROVE AsDictionary!Content
    BY <1>4, DictContent DEF Content, AsDictionary!Content, DictionaryPhase
<1>5. ASSUME Delete PROVE AsDictionary!Delete
    BY <1>5, DictEmpty DEF Delete, AsDictionary!Delete, Dict, DictionaryPhase
<1>6. ASSUME NEW k \in Key, Del(k)
      PROVE  AsDictionary!Del(k) \/ UNCHANGED AsDictionary!vars
  <2>1. CASE DeletesHead(table, k)
      BY <1>6, <2>1 DEF Del, AsDictionary!vars, DictionaryPhase
  <2>2. CASE ~ DeletesHead(table, k)
    <3>1. Dict(table') = [Dict(table) EXCEPT ![k] = {}]
        BY <1>6, <2>2, DictDel DEF Del, TypeOK
    <3> QED
        BY <1>6, <2>2, <3>1 DEF Del, AsDictionary!Del, Dict, DictionaryPhase
  <2> QED
      BY <2>1, <2>2
<1>7. ASSUME Refuse PROVE AsDictionary!Refuse
    BY <1>7 DEF Refuse, AsDictionary!Refuse, DictionaryPhase
<1>8. CASE UNCHANGED vars
    BY <1>8 DEF vars, AsDictionary!vars, DictionaryPhase
<1> QED
    BY <1>1, <1>2, <1>3, <1>4, <1>5, <1>6, <1>7, <1>8 DEF Next, AsDictionary!Next

(***************************************************************************)
(* hashtable.c implements the map hashtable.h describes, for every set of  *)
(* keys and every hash function that sends no key to the list of one of    *)
(* its prefixes.                                                           *)
(***************************************************************************)
THEOREM ImplementsDictionary ==
    ASSUME NoPrefixClash
    PROVE  Spec => DictionarySpec
<1>1. Init => AbsentEmpty
    BY DEF Init, AbsentEmpty
<1>2. TypeOK /\ ListInv /\ AbsentEmpty /\ [Next]_vars
         => [AsDictionary!Next]_(AsDictionary!vars)
    BY NoPrefixClash, RefinesStep
<1> QED
    BY <1>1, <1>2, InitType, TypeStep, InitList, ListStep, AbsentStep, RefinesInit, PTL
       DEF Spec, DictionarySpec, AsDictionary!Spec

=============================================================================
