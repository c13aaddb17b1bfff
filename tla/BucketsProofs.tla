---------------------------- MODULE BucketsProofs ----------------------------
(***************************************************************************)
(* Lemmas about the hash table of Buckets, for any keys, values, hash      *)
(* function and prefix order that satisfy BucketsAssumption.  The store of *)
(* a server and the vote table of a read rest on them alike.               *)
(***************************************************************************)
EXTENDS Buckets, TLAPS, SequenceTheorems, WellFoundedInduction

(***************************************************************************)
(* A walk that stops nowhere has seen no matching pair.                    *)
(***************************************************************************)
LEMMA NoMatch ==
    ASSUME NEW b \in Seq(kv_pair_t), NEW k, FirstMatch(b, k) = {}
    PROVE  \A i \in DOMAIN b : ~ Matches(b[i], k)
<1> DEFINE T == {i \in DOMAIN b : Matches(b[i], k)}
<1> SUFFICES ASSUME T # {} PROVE FALSE
    OBVIOUS
<1>1. T \subseteq Nat
    OBVIOUS
<1>2. PICK x \in T : \A y \in T : ~ (<<y, x>> \in OpToRel(<, Nat))
    BY <1>1, NatLessThanWellFounded, WFMin
<1>3. \A y \in T : ~ (y < x)
    BY <1>1, <1>2 DEF OpToRel
<1>4. \A j \in 1..(x-1) : ~ Matches(b[j], k)
  <2> TAKE j \in 1..(x-1)
  <2>1. j \in DOMAIN b /\ j < x
      OBVIOUS
  <2> QED
      BY <2>1, <1>3
<1>5. x \in FirstMatch(b, k)
    BY <1>4 DEF FirstMatch
<1> QED
    BY <1>5

LEMMA FirstMatchUnique ==
    ASSUME NEW b \in Seq(kv_pair_t), NEW k,
           NEW i \in FirstMatch(b, k), NEW j \in FirstMatch(b, k)
    PROVE  i = j
<1>1. i \in Nat /\ j \in Nat /\ 1 <= i /\ 1 <= j
    BY DEF FirstMatch
<1>2. ~ (i < j) /\ ~ (j < i)
    BY <1>1 DEF FirstMatch
<1> QED
    BY <1>1, <1>2

LEMMA PairType ==
    ASSUME NEW k \in Key, NEW v \in Value
    PROVE  /\ kv_pair(k, v) \in kv_pair_t
           /\ kv_pair(k, v).key = k
           /\ kv_pair(k, v).value = v
BY DEF kv_pair, kv_pair_t

LEMMA HashType ==
    ASSUME NEW k \in Key
    PROVE  HashOf[k] \in Bucket
BY BucketsAssumption

LEMMA BucketType ==
    ASSUME NEW t \in Table, NEW b \in Bucket
    PROVE  t[b] \in Seq(kv_pair_t)
BY DEF Table

(***************************************************************************)
(* Linking a node at the head of a list.                                   *)
(***************************************************************************)
LEMMA LinkHead ==
    ASSUME NEW b \in Seq(kv_pair_t), NEW p \in kv_pair_t
    PROVE  /\ <<p>> \o b \in Seq(kv_pair_t)
           /\ Len(<<p>> \o b) = Len(b) + 1
           /\ (<<p>> \o b)[1] = p
           /\ \A i \in 2..(Len(b) + 1) : (<<p>> \o b)[i] = b[i-1]
OBVIOUS

(***************************************************************************)
(* The list a key is added to: the first match with its new value, when    *)
(* there is a match, the other pairs unchanged.                            *)
(***************************************************************************)
Updated(b, k, v) ==
    [i \in DOMAIN b |-> IF i \in FirstMatch(b, k) THEN kv_pair(b[i].key, v) ELSE b[i]]

LEMMA UpdatedType ==
    ASSUME NEW b \in Seq(kv_pair_t), NEW k \in Key, NEW v \in Value
    PROVE  /\ Updated(b, k, v) \in Seq(kv_pair_t)
           /\ Len(Updated(b, k, v)) = Len(b)
           /\ \A i \in DOMAIN b : Updated(b, k, v)[i].key = b[i].key
           /\ \A i \in FirstMatch(b, k) : Updated(b, k, v)[i].value = v
           /\ \A i \in DOMAIN b \ FirstMatch(b, k) : Updated(b, k, v)[i] = b[i]
<1> DEFINE u == Updated(b, k, v)
<1>1. \A i \in DOMAIN b : /\ b[i].key \in Key
                          /\ b[i] \in kv_pair_t
  <2> TAKE i \in DOMAIN b
  <2>1. b[i] \in kv_pair_t
      OBVIOUS
  <2> QED
      BY <2>1 DEF kv_pair_t
<1>2. \A i \in DOMAIN b : u[i] = IF i \in FirstMatch(b, k) THEN kv_pair(b[i].key, v) ELSE b[i]
    BY DEF Updated
<1>3. \A i \in DOMAIN b : u[i] \in kv_pair_t
    BY <1>1, <1>2, PairType
<1>4. u \in [1..Len(b) -> kv_pair_t]
    BY <1>3 DEF Updated
<1> HIDE DEF u
<1>5. u \in Seq(kv_pair_t) /\ Len(u) = Len(b)
    BY <1>4
<1>6. \A i \in DOMAIN b : u[i].key = b[i].key
    BY <1>1, <1>2, PairType
<1>7. \A i \in FirstMatch(b, k) : u[i].value = v
    BY <1>1, <1>2, PairType DEF FirstMatch
<1> QED
    BY <1>2, <1>5, <1>6, <1>7 DEF u

(***************************************************************************)
(* add_Htable_value changes one list only.                                 *)
(***************************************************************************)
LEMMA AddEffect ==
    ASSUME NEW t \in Table, NEW k \in Key, NEW v \in Value
    PROVE  LET h == HashOf[k]
               u == add_Htable_value(t, k, v)
           IN  /\ u \in Table
               /\ \A c \in Bucket : c # h => u[c] = t[c]
               /\ FirstMatch(t[h], k) = {} => u[h] = <<kv_pair(k, v)>> \o t[h]
               /\ FirstMatch(t[h], k) # {} => u[h] = Updated(t[h], k, v)
<1> DEFINE h == HashOf[k]
           new == IF FirstMatch(t[h], k) = {} THEN <<kv_pair(k, v)>> \o t[h]
                                             ELSE Updated(t[h], k, v)
<1>1. h \in Bucket /\ t[h] \in Seq(kv_pair_t)
    BY HashType, BucketType
<1>2. new \in Seq(kv_pair_t)
    BY <1>1, LinkHead, PairType, UpdatedType
<1>3. add_Htable_value(t, k, v) = [t EXCEPT ![h] = new]
    BY DEF add_Htable_value, Updated
<1> HIDE DEF new
<1>4. /\ [t EXCEPT ![h] = new] \in Table
      /\ [t EXCEPT ![h] = new][h] = new
      /\ \A c \in Bucket : c # h => [t EXCEPT ![h] = new][c] = t[c]
    BY <1>1, <1>2 DEF Table
<1> QED
    BY <1>3, <1>4 DEF new

(***************************************************************************)
(* The list a key is deleted from: without its first match.                *)
(***************************************************************************)
Removed(b, k) ==
    [i \in 1..(Len(b) - 1) |->
        IF \E j \in FirstMatch(b, k) : j <= i THEN b[i+1] ELSE b[i]]

LEMMA RemovedType ==
    ASSUME NEW b \in Seq(kv_pair_t), NEW k, NEW m \in FirstMatch(b, k)
    PROVE  /\ Removed(b, k) \in Seq(kv_pair_t)
           /\ Len(Removed(b, k)) = Len(b) - 1
           /\ m \in 1..Len(b)
           /\ \A i \in 1..(Len(b) - 1) :
                  Removed(b, k)[i] = IF m <= i THEN b[i+1] ELSE b[i]
<1> DEFINE r == Removed(b, k)
<1>1. m \in 1..Len(b) /\ Len(b) \in Nat
    BY DEF FirstMatch
<1>2. \A i \in 1..(Len(b) - 1) : r[i] = IF m <= i THEN b[i+1] ELSE b[i]
  <2> TAKE i \in 1..(Len(b) - 1)
  <2>1. (\E j \in FirstMatch(b, k) : j <= i) <=> m <= i
      BY FirstMatchUnique
  <2> QED
      BY <2>1 DEF Removed
<1>3. \A i \in 1..(Len(b) - 1) : r[i] \in kv_pair_t
  <2> TAKE i \in 1..(Len(b) - 1)
  <2>1. i \in 1..Len(b) /\ i + 1 \in 1..Len(b)
      BY <1>1
  <2>2. b[i] \in kv_pair_t /\ b[i+1] \in kv_pair_t
      BY <2>1, ElementOfSeq
  <2> QED
      BY <1>2, <2>2
<1>4. r \in [1..(Len(b) - 1) -> kv_pair_t]
    BY <1>3 DEF Removed
<1>5. Len(b) - 1 \in Nat
    BY <1>1
<1> HIDE DEF r
<1>6. r \in Seq(kv_pair_t) /\ Len(r) = Len(b) - 1
    BY <1>4, <1>5
<1> QED
    BY <1>1, <1>2, <1>6 DEF r

LEMMA DelEffect ==
    ASSUME NEW t \in Table, NEW k \in Key
    PROVE  LET h == HashOf[k]
               u == del_Htable_key(t, k)
           IN  /\ u \in Table
               /\ \A c \in Bucket : c # h => u[c] = t[c]
               /\ FirstMatch(t[h], k) = {} => u[h] = t[h]
               /\ FirstMatch(t[h], k) # {} => u[h] = Removed(t[h], k)
<1> DEFINE h == HashOf[k]
           new == IF FirstMatch(t[h], k) = {} THEN t[h] ELSE Removed(t[h], k)
<1>1. h \in Bucket /\ t[h] \in Seq(kv_pair_t)
    BY HashType, BucketType
<1>2. new \in Seq(kv_pair_t)
    BY <1>1, RemovedType
<1>3. del_Htable_key(t, k) = [t EXCEPT ![h] = new]
    BY DEF del_Htable_key, Removed
<1> HIDE DEF new
<1>4. /\ [t EXCEPT ![h] = new] \in Table
      /\ [t EXCEPT ![h] = new][h] = new
      /\ \A c \in Bucket : c # h => [t EXCEPT ![h] = new][c] = t[c]
    BY <1>1, <1>2 DEF Table
<1> QED
    BY <1>3, <1>4 DEF new

LEMMA EmptyTable ==
    /\ construct_Htable \in Table
    /\ \A c \in Bucket : construct_Htable[c] = <<>>
BY DEF construct_Htable, Table

LEMMA NothingFound == \A k \in Key : get_Htable_value(construct_Htable, k) = {}
<1> TAKE k \in Key
<1>1. construct_Htable[HashOf[k]] = <<>>
    BY HashType, EmptyTable
<1>2. FirstMatch(<<>>, k) = {}
    BY DEF FirstMatch
<1> QED
    BY <1>1, <1>2 DEF get_Htable_value

----------------------------------------------------------------------------

\* What get_Htable_value finds for key s in list b.
Read(b, s) == {b[i].value : i \in FirstMatch(b, s)}

LEMMA LinkHeadRead ==
    ASSUME NEW b \in Seq(kv_pair_t), NEW p \in kv_pair_t, NEW s
    PROVE  Read(<<p>> \o b, s) = IF Matches(p, s) THEN {p.value} ELSE Read(b, s)
<1> DEFINE u == <<p>> \o b
<1>1. /\ Len(b) \in Nat
      /\ DOMAIN b = 1..Len(b)
      /\ DOMAIN u = 1..(Len(b) + 1)
      /\ u[1] = p
      /\ \A i \in 2..(Len(b) + 1) : u[i] = b[i-1]
    BY LinkHead
<1> HIDE DEF u
<1>2. CASE Matches(p, s)
  <2>1. FirstMatch(u, s) = {1}
      BY <1>1, <1>2 DEF FirstMatch
  <2> QED
      BY <1>1, <1>2, <2>1 DEF Read, u
<1>3. CASE ~ Matches(p, s)
  <2>1. ASSUME NEW i \in FirstMatch(b, s) PROVE i + 1 \in FirstMatch(u, s) /\ u[i+1] = b[i]
    <3>1. i \in 1..Len(b) /\ Matches(b[i], s) /\ \A j \in 1..(i-1) : ~ Matches(b[j], s)
        BY <1>1, <2>1 DEF FirstMatch
    <3>2. i + 1 \in 2..(Len(b) + 1) /\ u[i+1] = b[i]
        BY <1>1, <3>1
    <3>3. ASSUME NEW j \in 1..i PROVE ~ Matches(u[j], s)
      <4>1. CASE j = 1
          BY <1>1, <1>3, <4>1
      <4>2. CASE j # 1
        <5>1. j \in 2..(Len(b) + 1) /\ j - 1 \in 1..(i-1)
            BY <1>1, <3>1, <4>2
        <5> QED
            BY <1>1, <3>1, <5>1
      <4> QED
          BY <4>1, <4>2
    <3> QED
        BY <1>1, <3>1, <3>2, <3>3 DEF FirstMatch
  <2>2. ASSUME NEW i \in FirstMatch(u, s) PROVE i - 1 \in FirstMatch(b, s) /\ u[i] = b[i-1]
    <3>1. i \in 1..(Len(b) + 1) /\ Matches(u[i], s) /\ \A j \in 1..(i-1) : ~ Matches(u[j], s)
        BY <1>1, <2>2 DEF FirstMatch
    <3>2. i \in 2..(Len(b) + 1) /\ i - 1 \in 1..Len(b) /\ u[i] = b[i-1]
        BY <1>1, <1>3, <3>1
    <3>3. ASSUME NEW j \in 1..((i-1)-1) PROVE ~ Matches(b[j], s)
      <4>1. j + 1 \in 1..(i-1) /\ u[j+1] = b[j]
          BY <1>1, <3>1
      <4> QED
          BY <3>1, <4>1
    <3> QED
        BY <1>1, <3>1, <3>2, <3>3 DEF FirstMatch
  <2>3. Read(b, s) \subseteq Read(u, s)
      BY <2>1 DEF Read
  <2>4. Read(u, s) \subseteq Read(b, s)
      BY <2>2 DEF Read
  <2> QED
      BY <1>3, <2>3, <2>4 DEF u
<1> QED
    BY <1>2, <1>3

LEMMA UpdatedRead ==
    ASSUME NEW b \in Seq(kv_pair_t), NEW k \in Key, NEW v \in Value, NEW s
    PROVE  /\ FirstMatch(Updated(b, k, v), s) = FirstMatch(b, s)
           /\ FirstMatch(b, k) # {} => Read(Updated(b, k, v), k) = {v}
           /\ FirstMatch(b, k) \cap FirstMatch(b, s) = {}
                  => Read(Updated(b, k, v), s) = Read(b, s)
<1> DEFINE u == Updated(b, k, v)
<1>1. /\ Len(b) \in Nat
      /\ DOMAIN b = 1..Len(b)
      /\ DOMAIN u = 1..Len(b)
      /\ \A i \in DOMAIN b : u[i].key = b[i].key
    BY UpdatedType
<1> HIDE DEF u
<1>2. \A r : FirstMatch(u, r) = FirstMatch(b, r)
  <2>1. \A r : \A i \in DOMAIN b : Matches(u[i], r) <=> Matches(b[i], r)
      BY <1>1 DEF Matches
  <2>2. \A i \in DOMAIN b : 1..(i-1) \subseteq DOMAIN b
      BY <1>1
  <2> QED
      BY <1>1, <2>1, <2>2 DEF FirstMatch
<1>3. ASSUME FirstMatch(b, k) # {} PROVE Read(u, k) = {v}
  <2>1. \A i \in FirstMatch(u, k) : u[i].value = v
      BY <1>2, UpdatedType DEF u
  <2> QED
      BY <1>2, <1>3, <2>1 DEF Read
<1>4. ASSUME FirstMatch(b, k) \cap FirstMatch(b, s) = {} PROVE Read(u, s) = Read(b, s)
  <2>1. \A i \in FirstMatch(b, s) : i \in DOMAIN b \ FirstMatch(b, k)
      BY <1>4 DEF FirstMatch
  <2>2. \A i \in FirstMatch(b, s) : u[i] = b[i]
      BY <2>1, UpdatedType DEF u
  <2> QED
      BY <1>2, <2>2 DEF Read
<1> QED
    BY <1>2, <1>3, <1>4 DEF u

(***************************************************************************)
(* Two walks of a list that stop at the same pair are for related keys.    *)
(***************************************************************************)
LEMMA SameMatchRelated ==
    ASSUME NEW b \in Seq(kv_pair_t), NEW k \in Key, NEW s \in Key,
           FirstMatch(b, k) \cap FirstMatch(b, s) # {}
    PROVE  <<k, s>> \in PrefixOf \/ <<s, k>> \in PrefixOf
<1>1. PICK i \in DOMAIN b : Matches(b[i], k) /\ Matches(b[i], s)
    BY DEF FirstMatch
<1>2. b[i] \in kv_pair_t
    OBVIOUS
<1> QED
    BY <1>1, <1>2, BucketsAssumption DEF Matches, kv_pair_t

LEMMA ReadOf ==
    ASSUME NEW t, NEW k
    PROVE  get_Htable_value(t, k) = Read(t[HashOf[k]], k)
BY DEF get_Htable_value, Read

(***************************************************************************)
(* What add_Htable_value changes for a reader.                             *)
(***************************************************************************)
LEMMA AddRead ==
    ASSUME NEW t \in Table, NEW k \in Key, NEW v \in Value, NEW s \in Key
    PROVE  LET u == add_Htable_value(t, k, v)
           IN  /\ get_Htable_value(u, k) = {v}
               /\ get_Htable_value(t, s) # {} => get_Htable_value(u, s) # {}
               /\ \/ get_Htable_value(u, s) = get_Htable_value(t, s)
                  \/ Related(k, s) /\ get_Htable_value(u, s) = {v}
<1> DEFINE h == HashOf[k]
           u == add_Htable_value(t, k, v)
           p == kv_pair(k, v)
<1>1. /\ h \in Bucket /\ t[h] \in Seq(kv_pair_t)
      /\ HashOf[s] \in Bucket
      /\ p \in kv_pair_t /\ p.key = k /\ p.value = v
    BY HashType, BucketType, PairType
<1>2. \A c \in Bucket : c # h => u[c] = t[c]
    BY AddEffect
<1>3. /\ get_Htable_value(u, k) = Read(u[h], k)
      /\ get_Htable_value(t, s) = Read(t[HashOf[s]], s)
      /\ get_Htable_value(u, s) = Read(u[HashOf[s]], s)
    BY ReadOf
<1>4. SUFFICES /\ Read(u[h], k) = {v}
               /\ Read(t[h], s) # {} => Read(u[h], s) # {}
               /\ \/ Read(u[h], s) = Read(t[h], s)
                  \/ /\ <<k, s>> \in PrefixOf \/ <<s, k>> \in PrefixOf
                     /\ Read(u[h], s) = {v}
  <2>1. CASE HashOf[s] = h
      BY <1>3, <1>4, <2>1 DEF Related
  <2>2. CASE HashOf[s] # h
      BY <1>1, <1>2, <1>3, <1>4, <2>2
  <2> QED
      BY <2>1, <2>2
<1>5. CASE FirstMatch(t[h], k) = {}
  <2>1. u[h] = <<p>> \o t[h]
      BY <1>5, AddEffect
  <2>2. \A r : Read(u[h], r) = IF <<r, k>> \in PrefixOf THEN {v} ELSE Read(t[h], r)
      BY <1>1, <2>1, LinkHeadRead DEF Matches
  <2>3. <<k, k>> \in PrefixOf
      BY BucketsAssumption
  <2> HIDE DEF u, h
  <2> QED
      BY <2>2, <2>3
<1>6. CASE FirstMatch(t[h], k) # {}
  <2>1. u[h] = Updated(t[h], k, v)
      BY <1>6, AddEffect
  <2>2. Read(u[h], k) = {v}
      BY <1>1, <1>6, <2>1, UpdatedRead
  <2>3. Read(t[h], s) # {} => Read(u[h], s) # {}
      BY <1>1, <2>1, UpdatedRead DEF Read
  <2>4. FirstMatch(t[h], k) \cap FirstMatch(t[h], s) = {} => Read(u[h], s) = Read(t[h], s)
      BY <1>1, <2>1, UpdatedRead
  <2>5. FirstMatch(t[h], k) \cap FirstMatch(t[h], s) # {}
           => <<k, s>> \in PrefixOf \/ <<s, k>> \in PrefixOf
      BY <1>1, SameMatchRelated
  <2>6. ASSUME NEW m \in FirstMatch(t[h], k) \cap FirstMatch(t[h], s) PROVE Read(u[h], s) = {v}
    <3>1. FirstMatch(u[h], s) = FirstMatch(t[h], s)
        BY <1>1, <2>1, UpdatedRead
    <3>2. \A i \in FirstMatch(t[h], s) : i = m
        BY <1>1, <2>6, FirstMatchUnique
    <3>3. u[h][m].value = v
        BY <1>1, <2>1, <2>6, UpdatedType
    <3> HIDE DEF u, h
    <3>4. FirstMatch(u[h], s) = {m}
        BY <2>6, <3>1, <3>2
    <3> QED
        BY <3>3, <3>4 DEF Read
  <2> HIDE DEF u, h
  <2> QED
      BY <2>2, <2>3, <2>4, <2>5, <2>6
<1> QED
    BY <1>5, <1>6

\* What get_Htable_value finds, and where.
LEMMA FoundOne ==
    ASSUME NEW t \in Table, NEW r \in Key, get_Htable_value(t, r) # {}
    PROVE  LET c == CHOOSE x \in get_Htable_value(t, r) : TRUE
               b == t[HashOf[r]]
           IN  /\ c \in Value /\ get_Htable_value(t, r) = {c}
               /\ \A m \in FirstMatch(b, r) :
                     m \in DOMAIN b /\ b[m] \in kv_pair_t /\ b[m].value = c
                        /\ <<r, b[m].key>> \in PrefixOf
<1> DEFINE b == t[HashOf[r]]
           c == CHOOSE x \in get_Htable_value(t, r) : TRUE
<1>1. b \in Seq(kv_pair_t) /\ get_Htable_value(t, r) = {b[m].value : m \in FirstMatch(b, r)}
    BY HashType, BucketType DEF get_Htable_value
<1> HIDE DEF b
<1>2. PICK m \in FirstMatch(b, r) : TRUE
    BY <1>1
<1>3. \A j \in FirstMatch(b, r) : j = m
    BY <1>1, FirstMatchUnique
<1>4. m \in DOMAIN b /\ Matches(b[m], r)
    BY DEF FirstMatch
<1>5. b[m] \in kv_pair_t
    BY <1>1, <1>4, ElementOfSeq
<1>6. get_Htable_value(t, r) = {b[m].value}
    BY <1>1, <1>2, <1>3
<1>7. c = b[m].value
    BY <1>6
<1>8. c \in Value
    BY <1>5, <1>7 DEF kv_pair_t
<1> QED
    BY <1>3, <1>4, <1>5, <1>6, <1>7, <1>8 DEF b, Matches
=============================================================================
