---------------------------- MODULE NodesProofs ----------------------------
(***************************************************************************)
(* Proofs about what the programs do with their servers: Ring, one call of *)
(* ring_get_nodes_for_key on a ring of any size, for any digests, servers  *)
(* and number of wanted servers; ClientInit, a client process from its     *)
(* arguments to the servers of its key, for any command lines and servers  *)
(* files; ListNodes, for any number of servers, nodes and datagrams; and   *)
(* the log of PacketLog, which the listing and the servers share.          *)
(***************************************************************************)
EXTENDS ListNodes, TLAPS, WellFoundedInduction, SequenceTheorems, FiniteSetTheorems

(***************************************************************************)
(* The remainders of i % ring->size: an index goes round once at most.     *)
(***************************************************************************)
LEMMA ModSmall ==
    ASSUME NEW a \in Int, NEW m \in Int, 0 <= a, a < m
    PROVE  a % m = a
OBVIOUS

LEMMA ModOver ==
    ASSUME NEW a \in Int, NEW m \in Int, 0 < m, m <= a, a < 2 * m
    PROVE  a % m = a - m
OBVIOUS

LEMMA ModUnder ==
    ASSUME NEW a \in Int, NEW m \in Int, 0 < m, -m <= a, a < 0
    PROVE  a % m = a + m
OBVIOUS

\* What Least chooses.
LEMMA LeastOf ==
    ASSUME NEW S \in SUBSET Nat, S # {}
    PROVE  Least(S) \in S /\ \A y \in S : Least(S) <= y
<1>1. PICK x \in S : \A y \in S : ~ (<<y, x>> \in OpToRel(<, Nat))
    BY NatLessThanWellFounded, WFMin
<1>2. \A y \in S : ~ (y < x)
    BY <1>1 DEF OpToRel
<1>3. \A y \in S : x <= y
    BY <1>2
<1>4. \E z \in S : \A y \in S : z <= y
    BY <1>3
<1> QED
    BY <1>4 DEF Least

----------------------------------------------------------------------------

(***************************************************************************)
(* The walk of Ring as a function of the ring r and the digest d, which do *)
(* not change in a call.                                                   *)
(***************************************************************************)
Before(r, d, j) == node_cmp_sha_gt(node_key(d), r[j].sha)

CoveredIn(r, d) == \E j \in 1..Len(r) : ~ Before(r, d, j)

StartIn(r, d) == Least({j \in 1..Len(r) : ~ Before(r, d, j)})

ServersIn(r) == {r[j].addr : j \in 1..Len(r)}

DistanceIn(r, d, a) ==
    Least({(j - StartIn(r, d)) % Len(r) : j \in {n \in 1..Len(r) : r[n].addr = a}})

\* The node which is k places behind the first one.
Place(r, d, k) ==
    IF StartIn(r, d) + k <= Len(r) THEN StartIn(r, d) + k ELSE StartIn(r, d) + k - Len(r)

LEMMA WalkOfRing ==
    /\ Covered <=> CoveredIn(ring, sha)
    /\ Servers = ServersIn(ring)
    /\ \A a : Distance(a) = DistanceIn(ring, sha, a)
<1>1. Start = StartIn(ring, sha)
    BY DEF Start, StartIn, Before
<1> QED
    BY <1>1 DEF Covered, CoveredIn, Servers, ServersIn, Distance, DistanceIn, Before

LEMMA RingType ==
    ASSUME NEW r \in Rings
    PROVE  /\ r \in Seq(node_t) /\ Len(r) \in Nat /\ DOMAIN r = 1..Len(r)
           /\ \A j \in 1..Len(r) : r[j] \in node_t /\ r[j].addr \in Addr
<1>1. PICK n \in 0..MaxNodes : r \in [1..n -> node_t]
    BY DEF Rings
<1>2. r \in Seq(node_t) /\ Len(r) = n /\ n \in Nat
    BY <1>1, RingAssumption
<1>3. \A j \in 1..Len(r) : r[j] \in node_t
    BY <1>1, <1>2
<1> QED
    BY <1>1, <1>2, <1>3 DEF node_t

LEMMA StartType ==
    ASSUME NEW r \in Rings, NEW d, CoveredIn(r, d)
    PROVE  /\ StartIn(r, d) \in 1..Len(r)
           /\ ~ Before(r, d, StartIn(r, d))
           /\ \A j \in 1..Len(r) : ~ Before(r, d, j) => StartIn(r, d) <= j
<1> DEFINE S == {j \in 1..Len(r) : ~ Before(r, d, j)}
<1>1. Len(r) \in Nat
    BY RingType
<1>2. S \in SUBSET Nat /\ S # {}
    BY <1>1 DEF CoveredIn
<1>3. StartIn(r, d) \in S /\ \A y \in S : StartIn(r, d) <= y
    BY <1>2, LeastOf DEF StartIn
<1> QED
    BY <1>1, <1>3

\* Every node is at one place of the walk.
LEMMA PlaceOf ==
    ASSUME NEW m \in Nat, NEW s \in 1..m, NEW j \in 1..m, NEW k \in 0..(m - 1)
    PROVE  /\ (j - s) % m \in 0..(m - 1)
           /\ (j - s) % m = k <=> j = IF s + k <= m THEN s + k ELSE s + k - m
<1>1. CASE s <= j
  <2>1. (j - s) % m = j - s
      BY <1>1, ModSmall
  <2> QED
      BY <1>1, <2>1
<1>2. CASE j < s
  <2>1. (j - s) % m = j - s + m
      BY <1>2, ModUnder
  <2> QED
      BY <1>2, <2>1
<1> QED
    BY <1>1, <1>2

(***************************************************************************)
(* The distance of a server is the first place of one of its nodes.        *)
(***************************************************************************)
LEMMA DistanceOf ==
    ASSUME NEW r \in Rings, NEW d, CoveredIn(r, d), NEW a \in ServersIn(r)
    PROVE  /\ DistanceIn(r, d, a) \in 0..(Len(r) - 1)
           /\ r[Place(r, d, DistanceIn(r, d, a))].addr = a
           /\ \A k \in 0..(Len(r) - 1) :
                 r[Place(r, d, k)].addr = a => DistanceIn(r, d, a) <= k
<1> DEFINE m == Len(r)
           s == StartIn(r, d)
           D == {(j - s) % m : j \in {n \in 1..m : r[n].addr = a}}
<1>1. m \in Nat /\ s \in 1..m
    BY RingType, StartType
<1>2. \A j \in 1..m, k \in 0..(m - 1) :
         (j - s) % m \in 0..(m - 1) /\ ((j - s) % m = k <=> j = Place(r, d, k))
    BY <1>1, PlaceOf DEF Place
<1>3. D \in SUBSET (0..(m - 1)) /\ D # {}
    BY <1>2 DEF ServersIn
<1>4. DistanceIn(r, d, a) \in D /\ \A y \in D : DistanceIn(r, d, a) <= y
  <2>1. D \in SUBSET Nat
      BY <1>1, <1>3
  <2>2. DistanceIn(r, d, a) = Least(D)
      BY DEF DistanceIn
  <2> HIDE DEF D
  <2> QED
      BY <1>3, <2>1, <2>2, LeastOf
<1>5. DistanceIn(r, d, a) \in 0..(m - 1)
    BY <1>3, <1>4
<1>6. PICK j \in 1..m : r[j].addr = a /\ DistanceIn(r, d, a) = (j - s) % m
    BY <1>4
<1>7. j = Place(r, d, DistanceIn(r, d, a))
    BY <1>2, <1>5, <1>6
<1>8. ASSUME NEW k \in 0..(m - 1), r[Place(r, d, k)].addr = a
      PROVE  DistanceIn(r, d, a) <= k
  <2>1. Place(r, d, k) \in 1..m
      BY <1>1 DEF Place
  <2>2. (Place(r, d, k) - s) % m = k
      BY <1>2, <2>1
  <2> QED
      BY <1>4, <1>8, <2>1, <2>2
<1> QED
    BY <1>5, <1>6, <1>7, <1>8

----------------------------------------------------------------------------

(***************************************************************************)
(* What list the second loop has when it has seen the first k places: the  *)
(* servers that are nearer than k, nearest first.                          *)
(***************************************************************************)
Collected(r, d, list, k) ==
    /\ \A j \in 1..Len(list) : list[j].addr \in ServersIn(r)
                               /\ DistanceIn(r, d, list[j].addr) < k
    /\ \A a \in ServersIn(r) :
          DistanceIn(r, d, a) < k => \E j \in 1..Len(list) : list[j].addr = a
    /\ \A j, l \in 1..Len(list) :
          j < l => DistanceIn(r, d, list[j].addr) < DistanceIn(r, d, list[l].addr)

LEMMA CollectedInit ==
    ASSUME NEW r \in Rings, NEW d, CoveredIn(r, d)
    PROVE  Collected(r, d, <<>>, 0)
<1>1. \A a \in ServersIn(r) : DistanceIn(r, d, a) \in 0..(Len(r) - 1)
    BY DistanceOf
<1> QED
    BY <1>1, RingType DEF Collected

(***************************************************************************)
(* One turn of the second loop at place k: only the server of the node     *)
(* there can be new, and it is new if the list has not got it.             *)
(***************************************************************************)
LEMMA CollectedStep ==
    ASSUME NEW r \in Rings, NEW d, CoveredIn(r, d), NEW k \in 0..(Len(r) - 1),
           NEW A, NEW list \in Seq([sha : Digest, addr : A]), Addr \subseteq A,
           Collected(r, d, list, k)
    PROVE  LET node == r[Place(r, d, k)]
           IN  /\ ~ server_different(list, node) => Collected(r, d, list, k + 1)
               /\ server_different(list, node) => Collected(r, d, Append(list, node), k + 1)
<1> DEFINE node == r[Place(r, d, k)]
           dist(a) == DistanceIn(r, d, a)
<1>1. Len(r) \in Nat /\ k \in Nat /\ Place(r, d, k) \in 1..Len(r)
    BY RingType, StartType DEF Place
<1>2. node.addr \in ServersIn(r) /\ node \in [sha : Digest, addr : A]
    BY <1>1, RingType DEF ServersIn, node_t
<1>3. \A a \in ServersIn(r) : dist(a) \in 0..(Len(r) - 1) /\ (dist(a) = k => a = node.addr)
    BY DistanceOf
<1>4. dist(node.addr) \in 0..k
    BY <1>1, <1>2, <1>3, DistanceOf
<1>5. \A a \in ServersIn(r) : dist(a) < k + 1 => dist(a) < k \/ a = node.addr
    BY <1>1, <1>3
<1> HIDE DEF node, dist
<1>6. ASSUME ~ server_different(list, node)
      PROVE  Collected(r, d, list, k + 1)
  <2>1. PICK j \in 1..Len(list) : list[j].addr = node.addr
      BY <1>6 DEF server_different
  <2> QED
      BY <1>1, <1>3, <1>5, <2>1 DEF Collected, dist
<1>7. ASSUME server_different(list, node)
      PROVE  Collected(r, d, Append(list, node), k + 1)
  <2> DEFINE new == Append(list, node)
  <2>1. dist(node.addr) = k
      BY <1>1, <1>2, <1>4, <1>7 DEF Collected, server_different, dist
  <2>2. /\ Len(list) \in Nat /\ Len(new) = Len(list) + 1
        /\ \A j \in 1..Len(list) : new[j] = list[j]
        /\ new[Len(list) + 1] = node
      BY <1>2, AppendProperties
  <2> HIDE DEF new
  <2>3. \A j \in 1..Len(list) : list[j].addr \in ServersIn(r) /\ dist(list[j].addr) < k
      BY DEF Collected, dist
  <2>4. \A j \in 1..Len(new) : new[j].addr \in ServersIn(r) /\ dist(new[j].addr) < k + 1
      BY <1>1, <1>2, <1>3, <2>1, <2>2, <2>3
  <2>5. \A a \in ServersIn(r) : dist(a) < k + 1 => \E j \in 1..Len(new) : new[j].addr = a
    <3> SUFFICES ASSUME NEW a \in ServersIn(r), dist(a) < k + 1
                 PROVE  \E j \in 1..Len(new) : new[j].addr = a
        OBVIOUS
    <3>1. CASE a = node.addr
        BY <2>2, <3>1
    <3>2. CASE dist(a) < k
      <4>1. PICK j \in 1..Len(list) : list[j].addr = a
          BY <3>2 DEF Collected, dist
      <4> QED
          BY <2>2, <4>1
    <3> QED
        BY <1>5, <3>1, <3>2
  <2>6. \A j, l \in 1..Len(new) : j < l => dist(new[j].addr) < dist(new[l].addr)
    <3> SUFFICES ASSUME NEW j \in 1..Len(new), NEW l \in 1..Len(new), j < l
                 PROVE  dist(new[j].addr) < dist(new[l].addr)
        OBVIOUS
    <3>1. j \in 1..Len(list)
        BY <2>2
    <3>2. CASE l \in 1..Len(list)
        BY <2>2, <3>1, <3>2 DEF Collected, dist
    <3>3. CASE l = Len(list) + 1
        BY <2>1, <2>2, <2>3, <3>1, <3>3
    <3> QED
        BY <2>2, <3>2, <3>3
  <2> QED
      BY <2>4, <2>5, <2>6 DEF Collected, dist, new
<1> QED
    BY <1>6, <1>7 DEF node

----------------------------------------------------------------------------

\* The first loop has passed nodes before the key only.
Passed ==
    pc = "search" => /\ result = <<>> /\ i \in 0..Len(ring)
                     /\ \A j \in 1..i : Before(ring, sha, j)

InArray == CoveredIn(ring, sha) => i \in 0..(Len(ring) - 1) /\ pc # "crashed"

\* Once the second loop has been everywhere, it finds no new server any more,
\* and it does not matter where it is.
Walked ==
    pc \in {"collect", "done"} /\ CoveredIn(ring, sha) =>
        \E k \in 0..Len(ring) :
            /\ k < Len(ring) => i + 1 = Place(ring, sha, k)
            /\ Collected(ring, sha, result, k)

\* No more than the wanted servers, and not fewer in the end.
Counted ==
    /\ Len(result) <= wanted
    /\ pc = "done" => Len(result) = wanted

RingInv == TypeOK /\ InArray /\ Passed /\ Walked /\ Counted

LEMMA RingInvStays == RingInv => StaysInArray
BY WalkOfRing DEF RingInv, InArray, StaysInArray

LEMMA RingInvNearest == RingInv => NearestServers
<1> SUFFICES ASSUME RingInv, pc = "done", CoveredIn(ring, sha)
             PROVE  LET dist(a) == DistanceIn(ring, sha, a)
                    IN  /\ Len(result) = wanted
                        /\ \A j \in 1..wanted : result[j].addr \in ServersIn(ring)
                        /\ \A j, k \in 1..wanted :
                              j < k => dist(result[j].addr) < dist(result[k].addr)
                        /\ \A a \in ServersIn(ring) \ {result[j].addr : j \in 1..wanted} :
                              \A j \in 1..wanted : dist(result[j].addr) < dist(a)
    BY WalkOfRing DEF NearestServers
<1>1. Len(result) = wanted
    BY DEF RingInv, Counted
<1>2. PICK k \in 0..Len(ring) : Collected(ring, sha, result, k)
    BY DEF RingInv, Walked
<1>3. ASSUME NEW a \in ServersIn(ring) \ {result[j].addr : j \in 1..wanted}, NEW j \in 1..wanted
      PROVE  DistanceIn(ring, sha, result[j].addr) < DistanceIn(ring, sha, a)
  <2>1. ~ (DistanceIn(ring, sha, a) < k)
      BY <1>1, <1>2, <1>3 DEF Collected
  <2>2. result[j].addr \in ServersIn(ring) /\ DistanceIn(ring, sha, result[j].addr) < k
      BY <1>1, <1>2 DEF Collected
  <2>3. ring \in Rings /\ Len(ring) \in Nat
      BY RingType DEF RingInv, TypeOK
  <2>4. DistanceIn(ring, sha, a) \in Int /\ DistanceIn(ring, sha, result[j].addr) \in Int
      BY <1>3, <2>2, <2>3, DistanceOf
  <2> QED
      BY <2>1, <2>2, <2>3, <2>4
<1> QED
    BY <1>1, <1>2, <1>3 DEF Collected

(***************************************************************************)
(* A call begins with the first node and an empty list.                    *)
(***************************************************************************)
LEMMA RingInvInit == Init => RingInv
<1> SUFFICES ASSUME Init PROVE RingInv
    OBVIOUS
<1>1. Len(ring) \in Nat
    BY RingType DEF Init
<1>2. TypeOK
    BY <1>1 DEF Init, TypeOK
<1>3. InArray
    BY <1>1 DEF Init, InArray, CoveredIn
<1> QED
    BY <1>1, <1>2, <1>3 DEF Init, RingInv, Passed, Walked, Counted

\* The same of the ring that client_init or list-nodes has just read.
LEMMA RingInvStart == Init' => RingInv'
<1> SUFFICES ASSUME Init' PROVE RingInv'
    OBVIOUS
<1>1. Len(ring') \in Nat
    BY RingType DEF Init
<1>2. TypeOK'
    BY <1>1 DEF Init, TypeOK
<1>3. InArray'
    BY <1>1 DEF Init, InArray, CoveredIn
<1> QED
    BY <1>1, <1>2, <1>3 DEF Init, RingInv, Passed, Walked, Counted

LEMMA RingInvUnchanged == RingInv /\ UNCHANGED vars => RingInv'
BY DEF RingInv, vars, TypeOK, InArray, Passed, Walked, Counted

LEMMA RingInvNoList == RingInv /\ NoList => RingInv'
<1> SUFFICES ASSUME RingInv, NoList PROVE RingInv'
    OBVIOUS
<1>1. Len(ring) \in Nat /\ Len(result) = 0
    BY RingType DEF RingInv, TypeOK, Passed, NoList
<1> QED
    BY <1>1 DEF RingInv, TypeOK, InArray, Passed, Walked, Counted, NoList

LEMMA RingInvSearch == RingInv /\ Search => RingInv'
<1> SUFFICES ASSUME RingInv, Search PROVE RingInv'
    OBVIOUS
<1>1. /\ ring \in Rings /\ Len(ring) \in Nat /\ wanted \in Nat /\ result = <<>>
      /\ i \in 0..(Len(ring) - 1) /\ \A j \in 1..i : Before(ring, sha, j)
    BY RingType DEF RingInv, TypeOK, Passed, Search
<1>2. /\ UNCHANGED <<ring, wanted, sha, result>>
      /\ \/ Before(ring, sha, i + 1) /\ i' = i + 1 /\ pc' = "search"
         \/ ~ Before(ring, sha, i + 1) /\ i' = i /\ pc' = "collect"
    BY DEF Search, Before
<1>3. \/ pc' = "search" /\ \A j \in 1..i' : Before(ring, sha, j)
      \/ pc' = "collect" /\ i' = i
    BY <1>1, <1>2
<1>4. TypeOK'
    BY <1>1, <1>2 DEF RingInv, TypeOK
<1>5. InArray'
    BY <1>1, <1>2, <1>3 DEF InArray, CoveredIn
<1>6. Walked'
  <2> SUFFICES ASSUME CoveredIn(ring, sha), pc' = "collect"
               PROVE  /\ 0 < Len(ring) => i + 1 = Place(ring, sha, 0)
                      /\ Collected(ring, sha, <<>>, 0)
      BY <1>1, <1>2 DEF Walked
  <2>1. StartIn(ring, sha) = i + 1
      BY <1>1, <1>2, StartType
  <2> QED
      BY <1>1, <2>1, CollectedInit DEF Place
<1> QED
    BY <1>1, <1>2, <1>3, <1>4, <1>5, <1>6 DEF RingInv, Passed, Counted

LEMMA RingInvOverrun == RingInv /\ Overrun => RingInv'
<1> SUFFICES ASSUME RingInv, Overrun PROVE RingInv'
    OBVIOUS
<1>1. /\ Len(ring) \in Nat /\ wanted \in Nat /\ result = <<>> /\ i = Len(ring)
      /\ UNCHANGED <<ring, wanted, sha, result>> /\ pc' \in {"crashed", "collect"}
      /\ pc' = "collect" => i' = -1
      /\ pc' = "crashed" => i' = Len(ring)
    BY RingType DEF RingInv, TypeOK, Passed, Overrun
<1>2. ~ CoveredIn(ring, sha)
    BY <1>1 DEF RingInv, InArray
<1>3. TypeOK'
    BY <1>1 DEF RingInv, TypeOK
<1> QED
    BY <1>1, <1>2, <1>3 DEF RingInv, InArray, Passed, Walked, Counted

LEMMA RingInvCollect == RingInv /\ Collect => RingInv'
<1> SUFFICES ASSUME RingInv, Collect PROVE RingInv'
    OBVIOUS
<1> DEFINE A == Addr \cup {Garbage}
           node == ring[i + 1]
<1>1. /\ ring \in Rings /\ Len(ring) \in Nat /\ wanted \in Nat
      /\ i \in 0..(Len(ring) - 1) /\ pc = "collect" /\ Len(result) < wanted
      /\ result \in Seq([sha : Digest, addr : A]) /\ Len(result) \in Nat
    BY RingType DEF RingInv, TypeOK, Collect
<1>2. /\ UNCHANGED <<ring, wanted, sha, pc>> /\ i' = NextIndex(i)
      /\ \/ server_different(result, node) /\ result' = Append(result, node)
         \/ ~ server_different(result, node) /\ result' = result
    BY DEF Collect
<1>3. /\ i' \in 0..(Len(ring) - 1)
      /\ i' = IF i + 1 < Len(ring) THEN i + 1 ELSE 0
  <2>1. CASE i + 1 < Len(ring)
      BY <1>1, <1>2, <2>1, ModSmall DEF NextIndex
  <2>2. CASE i + 1 = Len(ring)
      BY <1>1, <1>2, <2>2, ModOver DEF NextIndex
  <2> QED
      BY <1>1, <2>1, <2>2
<1>4. node \in [sha : Digest, addr : A]
    BY <1>1, RingType DEF node_t
<1>5. result' \in Seq([sha : Digest, addr : A]) /\ Len(result') <= wanted
  <2> HIDE DEF A, node
  <2>1. /\ Append(result, node) \in Seq([sha : Digest, addr : A])
        /\ Len(Append(result, node)) = Len(result) + 1
      BY <1>1, <1>4, AppendProperties
  <2>2. CASE result' = Append(result, node)
      BY <1>1, <2>1, <2>2
  <2>3. CASE result' = result
      BY <1>1, <2>3
  <2> QED
      BY <1>2, <2>2, <2>3
<1>6. TypeOK'
    BY <1>1, <1>2, <1>3, <1>5 DEF RingInv, TypeOK
<1>7. Walked'
  <2> SUFFICES ASSUME CoveredIn(ring, sha)
               PROVE  \E k \in 0..Len(ring) :
                          /\ k < Len(ring) => i' + 1 = Place(ring, sha, k)
                          /\ Collected(ring, sha, result', k)
      BY <1>2 DEF Walked
  <2>1. PICK k \in 0..Len(ring) :
            /\ k < Len(ring) => i + 1 = Place(ring, sha, k)
            /\ Collected(ring, sha, result, k)
      BY <1>1 DEF RingInv, Walked
  <2>2. CASE k < Len(ring)
    <3>1. node = ring[Place(ring, sha, k)] /\ k \in 0..(Len(ring) - 1)
        BY <1>1, <2>1, <2>2
    <3>2. Collected(ring, sha, result', k + 1)
        BY <1>1, <1>2, <2>1, <3>1, CollectedStep
    <3>3. StartIn(ring, sha) \in 1..Len(ring)
        BY <1>1, StartType
    <3>4. k + 1 < Len(ring) => i' + 1 = Place(ring, sha, k + 1)
        BY <1>1, <1>3, <2>1, <2>2, <3>3 DEF Place
    <3> QED
        BY <1>1, <3>1, <3>2, <3>4
  <2>3. CASE k = Len(ring)
    <3>1. node.addr \in ServersIn(ring)
        BY <1>1 DEF ServersIn
    <3>2. DistanceIn(ring, sha, node.addr) < k
        BY <1>1, <2>3, <3>1, DistanceOf
    <3>3. ~ server_different(result, node)
        BY <2>1, <3>1, <3>2 DEF Collected, server_different
    <3> QED
        BY <1>2, <2>1, <2>3, <3>3
  <2> QED
      BY <1>1, <2>2, <2>3
<1> QED
    BY <1>1, <1>2, <1>3, <1>5, <1>6, <1>7 DEF RingInv, InArray, Passed, Counted

LEMMA RingInvNoMemory == RingInv /\ CollectNoMemory => RingInv'
BY DEF RingInv, TypeOK, InArray, Passed, Walked, Counted, CollectNoMemory

LEMMA RingInvGarbage == RingInv /\ CollectGarbage => RingInv'
<1> SUFFICES ASSUME RingInv, CollectGarbage PROVE RingInv'
    OBVIOUS
<1>1. PICK d \in Digest, a \in Addr \cup {Garbage} : result' = <<[sha |-> d, addr |-> a]>>
    BY DEF CollectGarbage
<1>2. /\ Len(ring) \in Nat /\ wanted \in Nat /\ Len(result) \in Nat /\ Len(result) < wanted
      /\ i = -1 /\ pc = "collect" /\ i' \in 0..(Len(ring) - 1)
      /\ UNCHANGED <<ring, wanted, sha, pc>>
    BY RingType DEF RingInv, TypeOK, CollectGarbage
<1>3. result' \in Seq([sha : Digest, addr : Addr \cup {Garbage}]) /\ Len(result') = 1
    BY <1>1
<1>4. ~ CoveredIn(ring, sha)
    BY <1>2 DEF RingInv, InArray
<1>5. TypeOK'
    BY <1>2, <1>3 DEF RingInv, TypeOK
<1> QED
    BY <1>2, <1>3, <1>4, <1>5 DEF RingInv, InArray, Passed, Walked, Counted

LEMMA RingInvReturn == RingInv /\ Return => RingInv'
<1> SUFFICES ASSUME RingInv, Return PROVE RingInv'
    OBVIOUS
<1>1. wanted \in Nat /\ Len(result) \in Nat /\ Len(result) = wanted
    BY RingType DEF RingInv, TypeOK, Counted, Return
<1> QED
    BY <1>1 DEF RingInv, TypeOK, InArray, Passed, Walked, Counted, Return

LEMMA RingInvStep == RingInv /\ [Next]_vars => RingInv'
BY RingInvNoList, RingInvSearch, RingInvOverrun, RingInvCollect, RingInvNoMemory,
   RingInvGarbage, RingInvReturn, RingInvUnchanged DEF Next

LEMMA RingInvHolds == Spec => []RingInv
BY RingInvInit, RingInvStep, PTL DEF Spec

(***************************************************************************)
(* Types of the walk, and the safety of its first loop: for a key that     *)
(* some node covers, ring_get_nodes_for_key reads no node past the array.  *)
(***************************************************************************)
THEOREM WalkStaysInArray == Spec => [](TypeOK /\ StaysInArray)
<1>1. RingInv => TypeOK /\ StaysInArray
    BY RingInvStays DEF RingInv
<1> QED
    BY <1>1, RingInvHolds, PTL

\* A list shorter than the number of servers lacks one of them.
LEMMA SomeLacking ==
    ASSUME TypeOK, EnoughServers, Len(result) < wanted
    PROVE  Lacking # {}
<1>1. /\ ring \in Rings /\ Len(ring) \in Nat /\ wanted \in Nat /\ Len(result) \in Nat
    BY RingType DEF TypeOK
<1> SUFFICES ASSUME Lacking = {} PROVE FALSE
    OBVIOUS
<1> DEFINE f == [j \in 1..Len(result) |-> result[j].addr]
           listed == {result[j].addr : j \in 1..Len(result)}
<1>2. f \in Surjection(1..Len(result), listed)
    BY DEF Surjection
<1>3. Servers \subseteq listed
  <2>1. ASSUME NEW n \in 1..Len(ring) PROVE ring[n].addr \in listed
      BY DEF Lacking, server_different
  <2> QED
      BY <2>1 DEF Servers
<1> HIDE DEF f, listed
<1>4. IsFiniteSet(1..Len(result)) /\ Cardinality(1..Len(result)) = Len(result)
  <2>1. PICK m \in Nat : m = Len(result)
      BY <1>1
  <2>2. IsFiniteSet(1..m) /\ Cardinality(1..m) = m
      BY FS_Interval
  <2> QED
      BY <2>1, <2>2
<1>5. IsFiniteSet(listed) /\ Cardinality(listed) <= Len(result)
    BY ONLY <1>2, <1>4, FS_Surjection
<1>6. /\ Cardinality(Servers) <= Cardinality(listed)
      /\ Cardinality(Servers) \in Nat /\ Cardinality(listed) \in Nat
    BY <1>3, <1>5, FS_Subset, FS_CardinalityType
<1> QED
    BY <1>1, <1>5, <1>6 DEF EnoughServers

\* A node that the second loop passes brings it nearer to what the list lacks.
LEMMA ComesNearer ==
    ASSUME TypeOK, i \in 0..(Len(ring) - 1), Lacking # {}, i + 1 \notin Lacking,
           UNCHANGED <<ring, result>>, i' = NextIndex(i)
    PROVE  Ahead' \in 0..(Ahead - 1)
<1>1. Len(ring) \in Nat /\ i \in Nat /\ i < Len(ring)
    BY RingType DEF TypeOK
<1> DEFINE L == Len(ring)
           away(n, k) == (n - 1 - k) % L
           S(k) == {away(n, k) : n \in Lacking}
<1>2. Lacking \subseteq 1..L /\ Lacking' = Lacking
    BY DEF Lacking, server_different
<1>3. i' = IF i + 1 < L THEN i + 1 ELSE 0
  <2>1. CASE i + 1 < L
      BY <1>1, <2>1, ModSmall DEF NextIndex
  <2>2. CASE i + 1 = L
      BY <1>1, <2>2, ModOver DEF NextIndex
  <2> QED
      BY <1>1, <2>1, <2>2
<1>4. ASSUME NEW n \in Lacking
      PROVE  away(n, i) \in Nat /\ away(n, i') \in Nat /\ away(n, i') = away(n, i) - 1
  <2>1. n \in 1..L /\ n # i + 1
      BY <1>2
  <2>2. CASE n > i + 1
    <3>1. n - 1 - i >= 0 /\ n - 1 - i < L /\ n - 1 - i \in Int /\ i + 1 < L
        BY <1>1, <2>1, <2>2
    <3>2. n - 1 - i' >= 0 /\ n - 1 - i' < L /\ n - 1 - i' = (n - 1 - i) - 1
        BY <1>1, <1>3, <2>1, <2>2, <3>1
    <3> QED
        BY <1>1, <3>1, <3>2, ModSmall
  <2>3. CASE n < i + 1
    <3>1. n - 1 - i < 0 /\ n - 1 - i >= -L /\ n - 1 - i \in Int
        BY <1>1, <2>1, <2>3
    <3>2. away(n, i) = n - 1 - i + L
        BY <1>1, <3>1, ModUnder
    <3>3. CASE i + 1 < L
      <4>1. n - 1 - i' < 0 /\ n - 1 - i' >= -L /\ n - 1 - i' = (n - 1 - i) - 1
          BY <1>1, <1>3, <2>1, <2>3, <3>3
      <4>2. away(n, i') = n - 1 - i' + L
          BY <1>1, <3>1, <4>1, ModUnder
      <4> QED
          BY <1>1, <2>1, <3>1, <3>2, <4>1, <4>2
    <3>4. CASE i + 1 = L
      <4>1. i' = 0 /\ n - 1 >= 0 /\ n - 1 < L
          BY <1>1, <1>3, <2>1, <2>3, <3>4
      <4>2. away(n, i') = n - 1
          BY <1>1, <2>1, <4>1, ModSmall
      <4> QED
          BY <1>1, <2>1, <3>2, <3>4, <4>1, <4>2
    <3> QED
        BY <1>1, <3>3, <3>4
  <2> QED
      BY <1>1, <2>1, <2>2, <2>3
<1>5. S(i) \in SUBSET Nat /\ S(i) # {} /\ S(i') \in SUBSET Nat /\ S(i') # {}
    BY <1>4
<1>6. Ahead = Least(S(i)) /\ Ahead' = Least(S(i'))
    BY <1>2 DEF Ahead, Least
<1>7. PICK n \in Lacking : Least(S(i)) = away(n, i)
  <2>1. Least(S(i)) \in S(i)
      BY <1>5, LeastOf
  <2> QED
      BY <2>1
<1>8. away(n, i') \in S(i')
    OBVIOUS
<1>9. Least(S(i')) \in Nat /\ Least(S(i')) <= away(n, i')
    BY <1>5, <1>8, LeastOf
<1> HIDE DEF S, away
<1> QED
    BY <1>4, <1>6, <1>7, <1>9

LEMMA StepAdvances ==
    ASSUME TypeOK, Next, EnoughServers
    PROVE  \/ Phase' < Phase
           \/ /\ Phase' = Phase
              /\ \/ pc = "search" /\ i' \in (i + 1)..Len(ring)
                 \/ Len(result') \in (Len(result) + 1)..wanted
                 \/ result' = result /\ Ahead' \in 0..(Ahead - 1)
<1>1. /\ ring \in Rings /\ Len(ring) \in Nat /\ wanted \in Nat
      /\ result \in Seq([sha : Digest, addr : Addr \cup {Garbage}]) /\ Len(result) \in Nat
      /\ i \in Int /\ i >= -1 /\ i <= Len(ring)
      /\ i = Len(ring) => pc \in {"search", "crashed", "nolist"}
    BY RingType DEF TypeOK
<1>2. CASE NoList \/ Search \/ Overrun \/ CollectNoMemory \/ Return
    BY <1>1, <1>2 DEF NoList, Search, Overrun, CollectNoMemory, Return, Phase
<1>3. CASE CollectGarbage
  <2>1. pc' = "collect" /\ pc = "collect" /\ i = -1 /\ i' # -1
      BY <1>1, <1>3 DEF CollectGarbage
  <2> QED
      BY <2>1 DEF Phase
<1>4. CASE Collect
  <2>1. /\ pc = "collect" /\ pc' = pc /\ i \in 0..(Len(ring) - 1) /\ Len(result) < wanted
        /\ i' = NextIndex(i) /\ UNCHANGED ring
      BY <1>1, <1>4 DEF Collect
  <2>2. i' # -1
    <3>1. NextIndex(i) >= 0
        BY <1>1, <2>1 DEF NextIndex
    <3> QED
        BY <2>1, <3>1
  <2>3. Phase' = Phase
      BY <2>1, <2>2 DEF Phase
  <2>4. CASE server_different(result, ring[i + 1]) /\ result' = Append(result, ring[i + 1])
      BY <1>1, <2>1, <2>3, <2>4
  <2>5. CASE ~ server_different(result, ring[i + 1]) /\ UNCHANGED result
    <3>1. Lacking # {} /\ i + 1 \notin Lacking
        BY <2>1, <2>5, SomeLacking DEF Lacking
    <3> QED
        BY <2>1, <2>3, <2>5, <3>1, ComesNearer
  <2> QED
      BY <1>4, <2>4, <2>5 DEF Collect
<1> QED
    BY <1>2, <1>3, <1>4 DEF Next

(***************************************************************************)
(* For a key whose first byte some node covers, what the walk returns are  *)
(* the servers nearest clockwise from node_key, that byte followed by      *)
(* zeroes, nearest first.                                                  *)
(***************************************************************************)
THEOREM WalkFindsNearest == Spec => []NearestServers
BY RingInvNearest, RingInvHolds, PTL

----------------------------------------------------------------------------

(***************************************************************************)
(* The loop of parse_opt_args stops at some place of the arguments.        *)
(***************************************************************************)
\* The option at place 2 * j + 1 is there, with its number.
OptionTaken(j) ==
    IsOption(2 * j + 1) /\ 2 * j + 2 \in DOMAIN argv /\ argv[2 * j + 2].number # {}

LEMMA TakenType ==
    ASSUME argv \in Seq(Argument)
    PROVE  Taken \in 0..Len(argv) /\ \A j \in 0..(Taken - 1) : OptionTaken(j)
<1> DEFINE S == {n \in 0..Len(argv) : ~ OptionTaken(n)}
           Stops(n) == (\A j \in 0..(n - 1) : OptionTaken(j)) /\ ~ OptionTaken(n)
<1>1. Len(argv) \in Nat /\ DOMAIN argv = 1..Len(argv)
    OBVIOUS
<1>2. Len(argv) \in S
    BY <1>1 DEF OptionTaken, IsOption
<1>3. S \in SUBSET Nat /\ S # {}
    BY <1>1, <1>2
<1>4. PICK n \in S : \A y \in S : n <= y
    BY <1>3, LeastOf
<1>5. \A j \in 0..(n - 1) : OptionTaken(j)
    BY <1>1, <1>4
<1>6. n \in 0..Len(argv) /\ Stops(n)
    BY <1>4, <1>5
<1>7. Taken = CHOOSE x \in 0..Len(argv) : Stops(x)
    BY DEF Taken, OptionTaken
<1> QED
    BY <1>6, <1>7

\* The last of several places.
LEMMA GreatestOf ==
    ASSUME NEW n \in Nat, NEW S \in SUBSET (0..(n - 1)), S # {}
    PROVE  \E j \in S : \A k \in S : k <= j
<1> DEFINE T == {n - j : j \in S}
<1>1. T \in SUBSET Nat /\ T # {}
  <2>1. \A j \in S : n - j \in Nat
      OBVIOUS
  <2>2. PICK j \in S : TRUE
      OBVIOUS
  <2>3. n - j \in T
      OBVIOUS
  <2> QED
      BY <2>1, <2>3
<1>2. PICK x \in T : \A y \in T : x <= y
    BY <1>1, LeastOf
<1>3. PICK j \in S : x = n - j
    BY <1>2
<1>4. \A k \in S : n - k \in T
    OBVIOUS
<1>5. \A k \in S : n - j <= n - k
    BY <1>2, <1>3, <1>4
<1> QED
    BY <1>5

LEMMA ValueOfType ==
    ASSUME argv \in Seq(Argument), NEW option, NEW default \in Nat
    PROVE  ValueOf(option, default) \in Nat
<1> DEFINE places == {j \in 0..(Taken - 1) : argv[2 * j + 1].opt = option}
           last == CHOOSE j \in places : \A k \in places : k <= j
<1>1. CASE places = {}
    BY <1>1 DEF ValueOf
<1>2. CASE places # {}
  <2>1. Taken \in Nat /\ \A j \in 0..(Taken - 1) : OptionTaken(j)
      BY TakenType
  <2>2. last \in places
      BY <1>2, <2>1, GreatestOf
  <2>3. 2 * last + 2 \in DOMAIN argv /\ argv[2 * last + 2].number # {}
      BY <2>1, <2>2 DEF OptionTaken
  <2>4. argv[2 * last + 2].number \subseteq Nat
    <3>1. argv[2 * last + 2] \in Argument
        BY <2>3
    <3> QED
        BY <3>1 DEF Argument
  <2>5. ValueOf(option, default) = CHOOSE n \in argv[2 * last + 2].number : TRUE
      BY <1>2 DEF ValueOf
  <2> QED
      BY <2>3, <2>4, <2>5
<1> QED
    BY <1>1, <1>2

LEMMA parsed_argsType ==
    ASSUME argv \in Seq(Argument)
    PROVE  parsed_args \in [N : Nat, W : Nat, R : Nat]
BY ValueOfType, ClientAssumption DEF parsed_args

LEMMA rem_argvType ==
    ASSUME argv \in Seq(Argument)
    PROVE  rem_argv \in Seq(Argument)
<1>1. Taken \in Nat
    BY TakenType
<1> DEFINE n == 2 * Taken + 1
           m == IF n \in DOMAIN argv /\ argv[n].opt = "--" THEN n + 1 ELSE n
<1>2. m \in Nat /\ m >= 1 /\ Len(argv) \in Nat
    BY <1>1
<1>3. rem_argv = SubSeq(argv, m, Len(argv))
    BY DEF rem_argv
<1> HIDE DEF m
<1> QED
    BY <1>2, <1>3

----------------------------------------------------------------------------

\* Before the walk nothing has been done, and client_init runs in clients only.
NotBegun ==
    stage # "walk" => pc = "search" /\ i = 0 /\ result = <<>>

IsClient == stage \in {"start", "refused"} => "-n" \in program.supported

(***************************************************************************)
(* What client_init has tested still holds when the walk returns: the      *)
(* walk asks for args.N servers, and the quorums are not larger.           *)
(***************************************************************************)
Tested ==
    stage = "walk" =>
        /\ wanted = args.N
        /\ "-w" \in program.supported => args.W <= args.N
        /\ "-r" \in program.supported => args.R <= args.N
        /\ program.nb_args # AnyArgs => Len(argv) = program.nb_args

ClientTyped ==
    /\ stage \in {"start", "refused", "walk", "list"}
    /\ program \in Programs /\ argv \in Seq(Argument)
    /\ args \in [N : Nat, W : Nat, R : Nat]
    /\ stage = "walk" => file = <<>>

ClientInv == RingInv /\ ClientTyped /\ NotBegun /\ IsClient /\ Tested

LEMMA ClientInvType == ClientInv => ClientTypeOK
BY DEF ClientInv, ClientTyped, RingInv, ClientTypeOK

LEMMA ClientInvReaches == ClientInv => ListReachesQuorums
<1> SUFFICES ASSUME ClientInv, stage = "walk", pc = "done"
             PROVE  ListReachesQuorums
    BY DEF ListReachesQuorums
<1>1. Len(result) = args.N
    BY DEF ClientInv, RingInv, Counted, Tested
<1> QED
    BY <1>1 DEF ListReachesQuorums, ClientInv, Tested

\* The state of a process that has read nothing yet.
LEMMA BlankInv == Blank => RingInv /\ args \in [N : Nat, W : Nat, R : Nat]
<1> SUFFICES ASSUME Blank PROVE Init /\ args \in [N : Nat, W : Nat, R : Nat]
    BY RingInvInit
<1>1. <<>> \in [1..0 -> node_t] /\ 0 \in 0..MaxNodes /\ Len(<<>>) = 0
    BY RingAssumption
<1>2. node_list_sorted(<<>>)
    BY <1>1 DEF node_list_sorted
<1>3. ring \in Rings
    BY <1>1, <1>2 DEF Blank, Rings
<1>4. sha \in Digest
    BY RingAssumption DEF Blank, Digest
<1> QED
    BY <1>1, <1>3, <1>4 DEF Blank, Init

LEMMA ClientInvInit == InitClient => ClientInv
<1> SUFFICES ASSUME InitClient PROVE ClientInv
    OBVIOUS
<1>1. stage = "start" /\ Blank
    BY DEF InitClient
<1>2. program \in Programs /\ "-n" \in program.supported /\ argv \in Seq(Argument)
    BY ClientAssumption DEF InitClient
<1> QED
    BY <1>1, <1>2, BlankInv DEF ClientInv, ClientTyped, NotBegun, IsClient, Tested, Blank

LEMMA ClientInvUnchanged == ClientInv /\ UNCHANGED clientVars => ClientInv'
<1> SUFFICES ASSUME ClientInv, UNCHANGED clientVars PROVE ClientInv'
    OBVIOUS
<1>1. RingInv'
    BY RingInvUnchanged DEF ClientInv, clientVars
<1> QED
    BY <1>1 DEF ClientInv, ClientTyped, NotBegun, IsClient, Tested, clientVars, vars

LEMMA ClientInv_client_init == ClientInv /\ client_init => ClientInv'
<1> SUFFICES ASSUME ClientInv, client_init PROVE ClientInv'
    OBVIOUS
<1>1. /\ stage = "start" /\ stage' = "walk" /\ file' = <<>> /\ program' = program
      /\ args' = parsed_args /\ argv' = rem_argv /\ wanted' = args'.N
      /\ ring' \in Rings /\ sha' \in Digest /\ UNCHANGED <<pc, i, result>>
    BY DEF client_init
<1>2. pc' = "search" /\ i' = 0 /\ result' = <<>>
    BY <1>1 DEF ClientInv, NotBegun
<1>3. /\ argv' \in Seq(Argument) /\ args' \in [N : Nat, W : Nat, R : Nat]
      /\ program \in Programs /\ "-n" \in program.supported
    BY <1>1, parsed_argsType, rem_argvType DEF ClientInv, ClientTyped, IsClient
<1>4. wanted' \in 0..Len(ring')
  <2>1. Len(ring') \in Nat /\ wanted' \in Nat
      BY <1>1, <1>3, RingType
  <2>2. wanted' <= Len(ring')
      BY <1>1, <1>3 DEF client_init, EnoughNodes
  <2> QED
      BY <2>1, <2>2
<1>5. RingInv'
    BY <1>1, <1>2, <1>4, RingInvStart DEF Init
<1>6. Tested'
    BY <1>1, <1>3 DEF Tested, client_init, CountFits, Parses, QuorumsFit
<1> QED
    BY <1>1, <1>3, <1>5, <1>6 DEF ClientInv, ClientTyped, NotBegun, IsClient

LEMMA ClientInv_client_init_fails == ClientInv /\ client_init_fails => ClientInv'
<1> SUFFICES ASSUME ClientInv, client_init_fails PROVE ClientInv'
    OBVIOUS
<1>1. RingInv'
    BY RingInvUnchanged DEF ClientInv, client_init_fails
<1> QED
    BY <1>1 DEF ClientInv, ClientTyped, NotBegun, IsClient, Tested, client_init_fails, vars

LEMMA ClientInvWalk == ClientInv /\ Walk => ClientInv'
<1> SUFFICES ASSUME ClientInv, Walk PROVE ClientInv'
    OBVIOUS
<1>1. RingInv'
    BY RingInvStep DEF ClientInv, Walk
<1>2. wanted' = wanted
    BY DEF Walk, Next, NoList, Search, Overrun, Collect, CollectNoMemory, CollectGarbage, Return
<1> QED
    BY <1>1, <1>2 DEF ClientInv, ClientTyped, NotBegun, IsClient, Tested, Walk

LEMMA ClientInvStep == ClientInv /\ [NextClient]_clientVars => ClientInv'
BY ClientInv_client_init, ClientInv_client_init_fails, ClientInvWalk, ClientInvUnchanged
   DEF NextClient

(***************************************************************************)
(* A list that a client gets is as long as the quorums it may ask for, for *)
(* all arguments the programs accept and all servers files.                *)
(***************************************************************************)
THEOREM QuorumsReached == SpecClient => [](ClientTypeOK /\ ListReachesQuorums)
BY ClientInvInit, ClientInvStep, ClientInvType, ClientInvReaches, PTL DEF SpecClient

----------------------------------------------------------------------------

(***************************************************************************)
(* PacketLog: what every step of a call of sendto keeps, for any number of *)
(* processes.                                                              *)
(***************************************************************************)

\* The lock belongs to the process between fopen and fclose, and to it only.
LockHeld ==
    /\ holder # Nobody => At(holder, "locked") \/ At(holder, "sent")
    /\ \A p \in alive : sending[p].step \in {"locked", "sent"} => holder = p /\ preloaded

\* What a process that calls sendto sends to.
Addressed == \A p \in Sender : sending[p].step # "out" => sending[p].to \in Sender

\* Whether a datagram has left and its line has not been written.
Unwritten == holder # Nobody /\ At(holder, "sent") /\ sending[holder].readable

\* LogOrder with the state of the holder that goes with each of its cases.
LogFollows ==
    IF Unwritten THEN sent = Append(log, <<holder, sending[holder].to>>) ELSE log = sent

LogInv == LogTypeOK /\ LockHeld /\ Addressed /\ LogFollows

LEMMA LogInvOrder == LogInv => LogOrder
BY DEF LogInv, LogFollows, Unwritten, LogOrder

LEMMA LogInvInit == InitLog => LogInv
<1> SUFFICES ASSUME InitLog PROVE LogInv
    OBVIOUS
<1>1. NotSending \in Sending /\ NotSending.step = "out"
    BY DEF NotSending, Sending
<1>2. \A p \in Sender : sending[p] = NotSending
    BY DEF InitLog
<1>3. LogTypeOK
    BY <1>1 DEF LogTypeOK, InitLog
<1>4. LockHeld /\ Addressed /\ LogFollows
    BY <1>1, <1>2 DEF LockHeld, Addressed, LogFollows, Unwritten, InitLog
<1> QED
    BY <1>3, <1>4 DEF LogInv

LEMMA LogInvUnchanged == LogInv /\ UNCHANGED logVars => LogInv'
BY DEF LogInv, LogTypeOK, LockHeld, Addressed, LogFollows, Unwritten, At, logVars

LEMMA LogInvCall ==
    ASSUME LogInv, NEW p \in Sender, NEW to \in Sender, NEW readable \in BOOLEAN,
           Call(p, to, readable)
    PROVE  LogInv'
<1> DEFINE call == [step |-> "called", to |-> to, readable |-> readable, ok |-> TRUE]
<1>1. call \in Sending /\ call.step = "called" /\ call.to = to
    BY DEF Sending
<1>2. /\ sending' = [sending EXCEPT ![p] = call]
      /\ UNCHANGED <<preloaded, alive, holder, log, sent>>
      /\ p \in alive /\ sending[p].step = "out"
    BY DEF Call, Idle
<1> HIDE DEF call
<1>3. /\ sending'[p] = call
      /\ \A q \in Sender : q # p => sending'[q] = sending[q]
    BY <1>2 DEF LogInv, LogTypeOK
<1>4. LogTypeOK'
    BY <1>1, <1>2 DEF LogInv, LogTypeOK
<1>5. holder # p
    BY <1>2, PacketLogAssumption DEF LogInv, LockHeld, At
<1>6. LockHeld'
    BY <1>1, <1>2, <1>3, <1>5 DEF LogInv, LockHeld, At, LogTypeOK
<1>7. Addressed'
    BY <1>1, <1>3 DEF LogInv, Addressed
<1>8. LogFollows'
    BY <1>1, <1>2, <1>3, <1>5 DEF LogInv, LogFollows, Unwritten, At, LogTypeOK
<1> QED
    BY <1>4, <1>6, <1>7, <1>8 DEF LogInv

LEMMA LogInvLock ==
    ASSUME LogInv, NEW p \in Sender, Lock(p)
    PROVE  LogInv'
<1> DEFINE call == [sending[p] EXCEPT !.step = "locked"]
<1>1. call \in Sending /\ call.step = "locked" /\ call.to = sending[p].to
    BY DEF LogInv, LogTypeOK, Sending
<1>2. /\ sending' = [sending EXCEPT ![p] = call]
      /\ holder' = p /\ holder = Nobody
      /\ UNCHANGED <<preloaded, alive, log, sent>>
      /\ p \in alive /\ sending[p].step = "called" /\ preloaded
    BY DEF Lock, At
<1> HIDE DEF call
<1>3. /\ sending'[p] = call
      /\ \A q \in Sender : q # p => sending'[q] = sending[q]
    BY <1>2 DEF LogInv, LogTypeOK
<1>4. LogTypeOK'
    BY <1>1, <1>2 DEF LogInv, LogTypeOK
<1>5. \A q \in alive : sending[q].step \notin {"locked", "sent"}
    BY <1>2, PacketLogAssumption DEF LogInv, LogTypeOK, LockHeld
<1>6. LockHeld'
    BY <1>1, <1>2, <1>3, <1>5 DEF LogInv, LockHeld, At, LogTypeOK
<1>7. Addressed'
    BY <1>1, <1>2, <1>3 DEF LogInv, Addressed
<1>8. LogFollows'
    BY <1>1, <1>2, <1>3 DEF LogInv, LogFollows, Unwritten, At
<1> QED
    BY <1>4, <1>6, <1>7, <1>8 DEF LogInv

\* A process dies only where it owes no line.
LEMMA LogInvDies ==
    ASSUME LogInv, NEW p \in Sender, Dies(p),
           sending[p].step = "sent" => ~ sending[p].readable
    PROVE  LogInv'
<1>1. NotSending \in Sending /\ NotSending.step = "out"
    BY DEF NotSending, Sending
<1>2. /\ sending' = [sending EXCEPT ![p] = NotSending]
      /\ alive' = alive \ {p}
      /\ holder' = IF holder = p THEN Nobody ELSE holder
      /\ UNCHANGED <<preloaded, log, sent>>
    BY DEF Dies
<1>3. /\ sending'[p] = NotSending
      /\ \A q \in Sender : q # p => sending'[q] = sending[q]
    BY <1>2 DEF LogInv, LogTypeOK
<1>4. LogTypeOK'
    BY <1>1, <1>2 DEF LogInv, LogTypeOK
<1>5. LockHeld'
    BY <1>1, <1>2, <1>3, PacketLogAssumption DEF LogInv, LockHeld, At, LogTypeOK
<1>6. Addressed'
    BY <1>1, <1>2, <1>3 DEF LogInv, Addressed
<1>7. LogFollows'
    BY <1>1, <1>2, <1>3 DEF LogInv, LogFollows, Unwritten, At, LogTypeOK
<1> QED
    BY <1>4, <1>5, <1>6, <1>7 DEF LogInv

LEMMA LogInvOpenFails ==
    ASSUME LogInv, NEW p \in Sender, OpenFails(p)
    PROVE  LogInv'
BY LogInvDies DEF OpenFails, At

LEMMA LogInvNoteCrashes ==
    ASSUME LogInv, NEW p \in Sender, NoteCrashes(p)
    PROVE  LogInv'
BY LogInvDies DEF NoteCrashes, At

LEMMA LogInvKernel ==
    ASSUME LogInv, NEW p \in Sender, NEW ok \in BOOLEAN, Kernel(p, ok)
    PROVE  LogInv'
<1> DEFINE step == IF preloaded THEN "sent" ELSE "out"
           call == [sending[p] EXCEPT !.step = step, !.ok = ok]
           line == <<p, sending[p].to>>
<1>1. /\ call \in Sending /\ call.step = step /\ call.to = sending[p].to
      /\ call.readable = sending[p].readable
    BY DEF LogInv, LogTypeOK, Sending
<1>2. /\ sending' = [sending EXCEPT ![p] = call]
      /\ sent' = IF preloaded /\ sending[p].readable THEN Append(sent, line) ELSE sent
      /\ UNCHANGED <<preloaded, alive, holder, log>>
      /\ p \in alive /\ sending[p].step = IF preloaded THEN "locked" ELSE "called"
    BY DEF Kernel, At
<1>3. line \in Sender \X Sender
    BY <1>2 DEF LogInv, Addressed
<1> HIDE DEF call, line
<1>4. /\ sending'[p] = call
      /\ \A q \in Sender : q # p => sending'[q] = sending[q]
    BY <1>2 DEF LogInv, LogTypeOK
<1>5. LogTypeOK'
    BY <1>1, <1>2, <1>3 DEF LogInv, LogTypeOK
<1>6. preloaded => holder = p
    BY <1>2 DEF LogInv, LockHeld
<1>7. LockHeld'
    BY <1>1, <1>2, <1>4, <1>6, PacketLogAssumption DEF LogInv, LockHeld, At, LogTypeOK
<1>8. Addressed'
    BY <1>1, <1>2, <1>4 DEF LogInv, Addressed
<1>9. LogFollows'
  <2>1. preloaded => log = sent
      BY <1>2, <1>6 DEF LogInv, LogFollows, Unwritten, At
  <2>2. CASE preloaded
      BY <1>1, <1>2, <1>4, <1>6, <2>1, <2>2, PacketLogAssumption
         DEF LogInv, LogTypeOK, LogFollows, Unwritten, At, line
  <2>3. CASE ~ preloaded
    <3>1. ~ Unwritten /\ holder # p
        BY <1>2, <2>3, PacketLogAssumption DEF LogInv, LogTypeOK, LockHeld, Unwritten, At
    <3>2. ~ Unwritten'
        BY <1>2, <1>4, <2>3, <3>1, PacketLogAssumption
           DEF LogInv, LogTypeOK, LockHeld, Unwritten, At
    <3> QED
        BY <1>2, <2>3, <3>1, <3>2 DEF LogInv, LogFollows
  <2> QED
      BY <2>2, <2>3
<1> QED
    BY <1>5, <1>7, <1>8, <1>9 DEF LogInv

LEMMA LogInvNote ==
    ASSUME LogInv, NEW p \in Sender, Note(p)
    PROVE  LogInv'
<1> DEFINE call == [sending[p] EXCEPT !.step = "out"]
           line == <<p, sending[p].to>>
<1>1. call \in Sending /\ call.step = "out" /\ call.to = sending[p].to
    BY DEF LogInv, LogTypeOK, Sending
<1>2. /\ sending' = [sending EXCEPT ![p] = call]
      /\ log' = Append(log, line) /\ holder' = Nobody
      /\ UNCHANGED <<preloaded, alive, sent>>
      /\ p \in alive /\ sending[p].step = "sent" /\ sending[p].readable
    BY DEF Note, At
<1>3. line \in Sender \X Sender
    BY <1>2 DEF LogInv, Addressed
<1>4. holder = p
    BY <1>2 DEF LogInv, LockHeld
<1>5. sent = log'
    BY <1>2, <1>4, PacketLogAssumption DEF LogInv, LogFollows, Unwritten, At
<1> HIDE DEF call, line
<1>6. /\ sending'[p] = call
      /\ \A q \in Sender : q # p => sending'[q] = sending[q]
    BY <1>2 DEF LogInv, LogTypeOK
<1>7. LogTypeOK'
    BY <1>1, <1>2, <1>3 DEF LogInv, LogTypeOK
<1>8. LockHeld'
    BY <1>1, <1>2, <1>4, <1>6 DEF LogInv, LogTypeOK, LockHeld, At
<1>9. Addressed'
    BY <1>1, <1>2, <1>6 DEF LogInv, Addressed
<1>10. LogFollows'
    BY <1>2, <1>5 DEF LogFollows, Unwritten
<1> QED
    BY <1>7, <1>8, <1>9, <1>10 DEF LogInv

----------------------------------------------------------------------------

\* A process of list-nodes has no key, and its ring is read once.
ListClient ==
    /\ ClientInv
    /\ listing = "off" <=> stage # "list"
    /\ stage = "list" => wanted = 0

ListTyped ==
    /\ listing \in {"off", "start", "running", "printed", "exited"}
    /\ pinged \in 0..Len(ring)
    /\ listing \in {"off", "start"} => pinged = 0
    /\ pings \in [Addr -> Nat] /\ answers \in [Addr -> Nat]
    /\ addr_len_rcv \in {"negative", "cut", "full"}
    /\ responsive \subseteq Addr /\ answered \subseteq Addr
    /\ listing = "printed" => Len(printed) = Len(ring)

\* list-nodes sends to the servers, and its message is no message of memory.
ListerSends == sending[Lister].step # "out" => sending[Lister].to \in Addr /\ sending[Lister].readable

(***************************************************************************)
(* Where a mark comes from: an answer that has arrived, but for the first  *)
(* one if the length was wrong.                                            *)
(***************************************************************************)
Marked ==
    /\ \A s \in Addr : answers[s] > 0 => s \in answered
    /\ addr_len_rcv # "full" => uncertain /\ responsive = {}
    /\ \A a, b \in responsive \ answered : a = b
    /\ ~ uncertain => responsive \subseteq answered

\* The ping, or its answer, is in one of these places, until s is marked.
Coming(s) ==
    \/ sending[Lister].step \in {"called", "locked"} /\ sending[Lister].to = s
    \/ pings[s] > 0
    \/ sending[s].step \in {"called", "locked"} /\ sending[s].to = Lister /\ sending[s].readable
    \/ answers[s] > 0
    \/ s \in responsive

NoneForgotten ==
    listing = "running" /\ calm /\ ~ uncertain =>
        \A n \in 1..pinged : ring[n].addr \in alive => Coming(ring[n].addr)

ListInv ==
    /\ ListClient /\ LogInv /\ ListTyped /\ ListerSends /\ Marked
    /\ NoneForgotten /\ AliveListed

LEMMA SenderType == Addr \subseteq Sender /\ Lister \in Sender /\ Lister \notin Addr /\ Stranger \in Sender
BY ListAssumption

LEMMA ListInvType == ListInv => ListTypeOK
BY ClientInvType DEF ListInv, ListClient, LogInv, ListTyped, ListTypeOK

LEMMA ListInvMarked == ListInv => MarkedAnswered
<1> SUFFICES ASSUME ListInv PROVE MarkedAnswered
    OBVIOUS
<1> DEFINE spoilt == responsive \ answered
<1>1. CASE ~ uncertain
  <2>1. spoilt = {}
      BY <1>1 DEF ListInv, Marked
  <2> QED
      BY <1>1, <2>1, FS_EmptySet DEF MarkedAnswered
<1>2. CASE spoilt = {}
    BY <1>2, FS_EmptySet DEF MarkedAnswered
<1>3. CASE uncertain /\ spoilt # {}
  <2>1. PICK a : spoilt \subseteq {a}
      BY <1>3 DEF ListInv, Marked
  <2>2. IsFiniteSet({a}) /\ Cardinality({a}) = 1
      BY FS_Singleton
  <2>3. Cardinality(spoilt) <= 1
      BY <2>1, <2>2, FS_Subset
  <2> QED
      BY <1>3, <2>3 DEF MarkedAnswered
<1> QED
    BY <1>1, <1>2, <1>3

----------------------------------------------------------------------------

LEMMA NoListingTyped ==
    ASSUME Len(ring) \in Nat, NoListing,
           addr_len_rcv \in {"negative", "cut", "full"},
           addr_len_rcv # "full" => uncertain,
           listing \in {"off", "start"}
    PROVE  ListTyped /\ Marked /\ NoneForgotten /\ AliveListed
BY DEF NoListing, ListTyped, Marked, NoneForgotten, AliveListed

LEMMA ListInvInit == InitOff \/ InitList => ListInv
<1>1. ASSUME InitOff PROVE ListInv
  <2>1. ClientInv /\ stage = "start" /\ listing = "off"
      BY <1>1, ClientInvInit DEF InitOff, InitClient
  <2>2. Len(ring) \in Nat
      BY <2>1, RingType DEF ClientInv, RingInv, TypeOK
  <2>3. ListTyped /\ Marked /\ NoneForgotten /\ AliveListed
      BY <1>1, <2>2, NoListingTyped DEF InitOff
  <2>4. ListerSends
      BY <1>1, SenderType DEF InitOff, InitLog, NotSending, ListerSends
  <2> QED
      BY <1>1, <2>1, <2>3, <2>4, LogInvInit DEF InitOff, ListInv, ListClient
<1>2. ASSUME InitList PROVE ListInv
  <2>1. stage = "list" /\ listing = "start" /\ Blank /\ program = ListProgram /\ argv = <<>>
      BY <1>2 DEF InitList
  <2>2. program \in Programs /\ argv \in Seq(Argument)
      BY <2>1, ListAssumption
  <2>3. ClientInv
      BY <2>1, <2>2, BlankInv
         DEF ClientInv, ClientTyped, NotBegun, IsClient, Tested, Blank
  <2>4. ListClient
      BY <2>1, <2>3 DEF ListClient, Blank
  <2>5. Len(ring) \in Nat
      BY <2>3, RingType DEF ClientInv, RingInv, TypeOK
  <2>6. ListTyped /\ Marked /\ NoneForgotten /\ AliveListed
      BY <1>2, <2>5, NoListingTyped DEF InitList
  <2>7. ListerSends
      BY <1>2, SenderType DEF InitList, InitLog, NotSending, ListerSends
  <2> QED
      BY <1>2, <2>4, <2>6, <2>7, LogInvInit DEF InitList, ListInv
<1> QED
    BY <1>1, <1>2

----------------------------------------------------------------------------

(***************************************************************************)
(* Steps of the client, and steps outside of it.                           *)
(***************************************************************************)
LEMMA RingLen == ListInv => Len(ring) \in Nat /\ DOMAIN ring = 1..Len(ring)
BY RingType DEF ListInv, ListClient, ClientInv, RingInv, TypeOK

LEMMA SameClient ==
    ASSUME ListClient, UNCHANGED clientVars, (listing' = "off") <=> (listing = "off")
    PROVE  ListClient'
<1>1. ClientInv'
    BY ClientInvUnchanged DEF ListClient
<1> QED
    BY <1>1 DEF ListClient, clientVars, vars

LEMMA ListInvUnchanged == ListInv /\ UNCHANGED allVars => ListInv'
<1> SUFFICES ASSUME ListInv, UNCHANGED allVars PROVE ListInv'
    OBVIOUS
<1>1. UNCHANGED clientVars /\ UNCHANGED logVars /\ UNCHANGED listVars
    BY DEF allVars
<1>2. ring' = ring
    BY <1>1 DEF clientVars, vars
<1>3. ListClient'
    BY <1>1, SameClient DEF ListInv, listVars
<1>4. LogInv'
    BY <1>1, LogInvUnchanged DEF ListInv
<1> QED
    BY <1>1, <1>2, <1>3, <1>4
       DEF ListInv, ListTyped, ListerSends, Marked, NoneForgotten, Coming, AliveListed,
           listVars, netVars, logVars

LEMMA ListInvClient == ListInv /\ NextClient /\ UNCHANGED <<listVars, logVars>> => ListInv'
<1> SUFFICES ASSUME ListInv, NextClient, UNCHANGED listVars, UNCHANGED logVars PROVE ListInv'
    BY DEF listVars, logVars
<1>1. ClientInv'
    BY ClientInvStep DEF ListInv, ListClient
<1>2. stage \in {"start", "walk"} /\ stage' # "list"
    BY DEF NextClient, client_init, client_init_fails, Walk
<1>3. listing = "off" /\ pinged = 0
    BY <1>2 DEF ListInv, ListClient, ListTyped
<1>4. ListClient'
    BY <1>1, <1>2, <1>3 DEF ListClient, listVars
<1>5. LogInv'
    BY LogInvUnchanged DEF ListInv
<1>6. Len(ring') \in Nat
    BY <1>1, RingType DEF ClientInv, RingInv, TypeOK
<1> QED
    BY <1>3, <1>4, <1>5, <1>6
       DEF ListInv, ListTyped, ListerSends, Marked, NoneForgotten, AliveListed,
           listVars, netVars, logVars

LEMMA ListInvStart == ListInv /\ ListStart => ListInv'
<1> SUFFICES ASSUME ListInv, ListStart PROVE ListInv'
    OBVIOUS
<1>1. /\ listing = "start" /\ listing' = "running" /\ pinged = 0 /\ pinged' = 0
      /\ UNCHANGED <<stage, program, argv, args, wanted, sha, pc, i, result, logVars>>
      /\ UNCHANGED <<addr_len_rcv, responsive, printed, calm, uncertain, lookups, netVars>>
      /\ file' = <<>>
    BY DEF ListInv, ListTyped, ListStart
<1>2. stage = "list" /\ wanted = 0 /\ pc = "search" /\ i = 0 /\ result = <<>> /\ sha \in Digest
    BY <1>1 DEF ListInv, ListClient, ClientInv, NotBegun, RingInv, TypeOK
<1>3. ring' \in Rings
  <2>1. PICK n \in 0..Len(file) : ring' \in ListRings(n)
      BY DEF ListStart
  <2>2. PICK k \in 0..MaxNodes : ring' \in [1..k -> [sha : ListDigests, addr : Addr]]
      BY <2>1 DEF ListRings
  <2>3. ring' \in [1..k -> node_t]
      BY <2>2, ListAssumption DEF node_t
  <2> QED
      BY <2>1, <2>3 DEF Rings, ListRings
<1>4. Len(ring') \in Nat
    BY <1>3, RingType
<1>5. RingInv'
    BY <1>1, <1>2, <1>3, <1>4, RingInvStart DEF Init
<1>6. ListClient'
    BY <1>1, <1>2, <1>5
       DEF ListInv, ListClient, ClientInv, ClientTyped, NotBegun, IsClient, Tested
<1>7. LogInv'
    BY <1>1, LogInvUnchanged DEF ListInv
<1> QED
    BY <1>1, <1>4, <1>6, <1>7
       DEF ListInv, ListTyped, ListerSends, Marked, NoneForgotten, AliveListed, netVars, logVars

\* list-nodes gives up.
LEMMA ListInvExit == ListInv /\ (ListStartFails \/ ListSendFails) => ListInv'
<1> SUFFICES ASSUME ListInv, ListStartFails \/ ListSendFails PROVE ListInv'
    OBVIOUS
<1>1. /\ listing \in {"start", "running"} /\ listing' = "exited"
      /\ UNCHANGED clientVars /\ UNCHANGED logVars
      /\ UNCHANGED <<pinged, addr_len_rcv, responsive, printed, calm, uncertain, netVars>>
    BY DEF ListStartFails, ListSendFails
<1>2. ring' = ring
    BY <1>1 DEF clientVars, vars
<1>3. ListClient'
    BY <1>1, SameClient DEF ListInv
<1>4. LogInv'
    BY <1>1, LogInvUnchanged DEF ListInv
<1> QED
    BY <1>1, <1>2, <1>3, <1>4
       DEF ListInv, ListTyped, ListerSends, Marked, NoneForgotten, AliveListed, netVars, logVars

----------------------------------------------------------------------------

LEMMA ListInvPing == ListInv /\ ListPing => ListInv'
<1> SUFFICES ASSUME ListInv, ListPing PROVE ListInv'
    OBVIOUS
<1> DEFINE to == ring[pinged + 1].addr
           call == [step |-> "called", to |-> to, readable |-> TRUE, ok |-> TRUE]
<1>1. /\ listing = "running" /\ listing' = "running" /\ pinged' = pinged + 1
      /\ pinged < Len(ring) /\ Call(Lister, to, TRUE)
      /\ UNCHANGED clientVars
      /\ UNCHANGED <<addr_len_rcv, responsive, printed, calm, uncertain, netVars>>
    BY DEF ListPing
<1>2. ring' = ring /\ ring \in Rings /\ pinged \in Nat /\ Len(ring) \in Nat
    BY <1>1, RingLen DEF ListInv, ListClient, ClientInv, RingInv, TypeOK, ListTyped, clientVars, vars
<1>3. to \in Addr
    BY <1>1, <1>2, RingType
<1>4. /\ sending' = [sending EXCEPT ![Lister] = call] /\ alive' = alive
      /\ sending[Lister].step = "out"
    BY <1>1 DEF Call, Idle
<1>5. /\ sending'[Lister] = call
      /\ \A q \in Addr : sending'[q] = sending[q]
    BY <1>4, SenderType DEF ListInv, LogInv, LogTypeOK
<1> HIDE DEF to
<1>6. LogInv'
    BY <1>1, <1>3, SenderType, LogInvCall DEF ListInv
<1>7. ListClient'
    BY <1>1, SameClient DEF ListInv
<1>8. ListTyped' /\ ListerSends'
    BY <1>1, <1>2, <1>3, <1>5 DEF ListInv, ListTyped, ListerSends, netVars
<1>9. Marked'
    BY <1>1 DEF ListInv, Marked, netVars
<1>10. NoneForgotten'
  <2> SUFFICES ASSUME calm, ~ uncertain, NEW n \in 1..(pinged + 1), ring[n].addr \in alive
               PROVE  Coming(ring[n].addr)'
      BY <1>1, <1>2, <1>4 DEF NoneForgotten
  <2>1. CASE n = pinged + 1
      BY <1>2, <1>5, <2>1 DEF Coming, to
  <2>2. CASE n \in 1..pinged
    <3>1. ring[n].addr \in Addr
        BY <1>1, <1>2, <2>2, RingType
    <3>2. Coming(ring[n].addr)
        BY <1>1, <2>2 DEF ListInv, NoneForgotten
    <3> QED
        BY <1>1, <1>2, <1>4, <1>5, <3>1, <3>2 DEF Coming, netVars
  <2> QED
      BY <1>2, <2>1, <2>2
<1>11. AliveListed'
    BY <1>1, <1>4 DEF ListInv, AliveListed
<1> QED
    BY <1>6, <1>7, <1>8, <1>9, <1>10, <1>11 DEF ListInv

LEMMA ListInvReceive == ListInv /\ ListReceive => ListInv'
<1> SUFFICES ASSUME ListInv, ListReceive PROVE ListInv'
    OBVIOUS
<1>1. PICK s \in Addr :
          /\ answers[s] > 0
          /\ answers' = [answers EXCEPT ![s] = @ - 1]
          /\ \E marked \in Compared(s) : responsive' = responsive \cup marked
    BY DEF ListReceive
<1>2. PICK marked \in Compared(s) : responsive' = responsive \cup marked
    BY <1>1
<1>3. /\ listing = "running" /\ addr_len_rcv' = "full"
      /\ UNCHANGED clientVars /\ UNCHANGED logVars
      /\ UNCHANGED <<listing, pinged, printed, calm, uncertain, pings, answered>>
    BY DEF ListReceive, Listening
<1>4. ring' = ring /\ ring \in Rings /\ Len(ring) \in Nat
    BY <1>3, RingLen DEF ListInv, ListClient, ClientInv, RingInv, TypeOK, clientVars, vars
<1>5. Servers \subseteq Addr
    BY <1>4, RingType DEF Servers
<1>6. marked \subseteq Addr /\ \A a, b \in marked : a = b
    BY <1>5 DEF Compared
<1>7. answers[s] \in Nat /\ answers' \in [Addr -> Nat] /\ \A r \in Addr : answers'[r] <= answers[r]
    BY <1>1 DEF ListInv, ListTyped
<1>8. addr_len_rcv # "cut" => marked = {s} \cap Servers
    BY DEF Compared
<1>9. ListTyped'
    BY <1>2, <1>3, <1>4, <1>6, <1>7 DEF ListInv, ListTyped
<1>10. Marked'
  <2>1. s \in answered
      BY <1>1 DEF ListInv, Marked
  <2>2. \A r \in Addr : answers'[r] > 0 => r \in answered
      BY <1>7 DEF ListInv, Marked, ListTyped
  <2>3. CASE addr_len_rcv = "cut"
      BY <1>2, <1>3, <1>6, <2>2, <2>3 DEF ListInv, Marked
  <2>4. CASE addr_len_rcv # "cut"
      BY <1>2, <1>3, <1>8, <2>1, <2>2, <2>4 DEF ListInv, Marked
  <2> QED
      BY <2>3, <2>4
<1>11. NoneForgotten'
  <2> SUFFICES ASSUME calm, ~ uncertain, NEW n \in 1..pinged, ring[n].addr \in alive
               PROVE  Coming(ring[n].addr)'
      BY <1>3, <1>4 DEF NoneForgotten, logVars
  <2>1. ring[n].addr \in Servers /\ ring[n].addr \in Addr
      BY <1>4, <1>5 DEF ListInv, ListTyped, Servers
  <2>2. Coming(ring[n].addr)
      BY <1>3 DEF ListInv, NoneForgotten
  <2>3. addr_len_rcv = "full"
      BY DEF ListInv, Marked
  <2>4. CASE ring[n].addr = s
      BY <1>2, <1>4, <1>8, <2>1, <2>3, <2>4 DEF Coming
  <2>5. CASE ring[n].addr # s
    <3>1. answers'[ring[n].addr] = answers[ring[n].addr]
        BY <1>1, <2>1, <2>5 DEF ListInv, ListTyped
    <3> QED
        BY <1>2, <1>3, <1>4, <2>2, <3>1 DEF Coming, logVars
  <2> QED
      BY <2>4, <2>5
<1>12. ListClient'
    BY <1>3, SameClient DEF ListInv
<1>13. LogInv'
    BY <1>3, LogInvUnchanged DEF ListInv
<1>14. ListerSends' /\ AliveListed'
    BY <1>3 DEF ListInv, ListerSends, AliveListed, logVars
<1> QED
    BY <1>9, <1>10, <1>11, <1>12, <1>13, <1>14 DEF ListInv

(***************************************************************************)
(* The listing ends: where nothing is on its way any more, every server    *)
(* that is up has been marked.                                             *)
(***************************************************************************)
LEMMA ListInvPrint == ListInv /\ ListPrint => ListInv'
<1> SUFFICES ASSUME ListInv, ListPrint PROVE ListInv'
    OBVIOUS
<1>1. PICK o \in Orders : printed' = Lines(o)
    BY DEF ListPrint
<1>2. /\ listing = "running" /\ listing' = "printed"
      /\ sending[Lister].step = "out" /\ pinged = Len(ring)
      /\ UNCHANGED clientVars /\ UNCHANGED logVars
      /\ UNCHANGED <<pinged, addr_len_rcv, responsive, calm, uncertain, netVars>>
    BY DEF ListPrint, Listening, Idle
<1>3. /\ ring' = ring /\ ring \in Rings /\ Len(ring) \in Nat /\ DOMAIN ring = 1..Len(ring)
    BY <1>2, RingLen DEF ListInv, ListClient, ClientInv, RingInv, TypeOK, clientVars, vars
<1>4. Lines(o) \in [1..Len(ring) -> [addr : Addr, ok : BOOLEAN]]
  <2>1. o \in [1..Len(ring) -> 1..Len(ring)]
      BY <1>3 DEF Orders, Bijection, Injection
  <2>2. \A n \in 1..Len(ring) : ring[o[n]].addr \in Addr
      BY <1>3, <2>1, RingType
  <2> QED
      BY <1>3, <2>2 DEF Lines
<1>5. Len(printed') = Len(ring')
    BY <1>1, <1>3, <1>4
<1>6. ListTyped'
    BY <1>2, <1>3, <1>5 DEF ListInv, ListTyped, netVars
<1>7. AliveListed'
  <2> SUFFICES ASSUME calm, ~ uncertain, NEW n \in 1..Len(ring), Lines(o)[n].addr \in alive
               PROVE  Lines(o)[n].ok
      BY <1>1, <1>2, <1>4 DEF AliveListed, logVars
  <2> DEFINE s == ring[o[n]].addr
  <2>1. o[n] \in 1..Len(ring)
      BY <1>3 DEF Orders, Bijection, Injection
  <2>2. Lines(o)[n].addr = s /\ Lines(o)[n].ok = (s \in responsive)
      BY <1>3 DEF Lines
  <2>3. Coming(s)
      BY <1>2, <2>1, <2>2 DEF ListInv, NoneForgotten
  <2>4. s \in Addr /\ s \in alive
      BY <1>3, <2>1, <2>2, RingType
  <2>5. ~ OnItsWay
    <3>1. ring # <<>>
        BY <1>3, <2>1
    <3>2. addr_len_rcv = "full"
        BY DEF ListInv, Marked
    <3> QED
        BY <3>1, <3>2 DEF ListPrint
  <2>6. answers[s] \in Nat /\ pings[s] \in Nat
      BY <2>4 DEF ListInv, ListTyped
  <2>7. s \in responsive
      BY <1>2, <2>3, <2>4, <2>5, <2>6 DEF Coming, OnItsWay, ToLister
  <2> QED
      BY <2>2, <2>7
<1>8. ListClient'
    BY <1>2, SameClient DEF ListInv
<1>9. LogInv'
    BY <1>2, LogInvUnchanged DEF ListInv
<1>10. ListerSends' /\ Marked' /\ NoneForgotten'
    BY <1>2 DEF ListInv, ListerSends, Marked, NoneForgotten, netVars, logVars
<1> QED
    BY <1>6, <1>7, <1>8, <1>9, <1>10 DEF ListInv

----------------------------------------------------------------------------

(***************************************************************************)
(* The steps of the servers.                                               *)
(***************************************************************************)
\* A server that begins to send: what was coming from another one still is.
LEMMA ServerCalls ==
    ASSUME ListInv, NEW s \in Addr, NEW to \in {Lister, Stranger}, NEW readable \in BOOLEAN,
           Call(s, to, readable)
    PROVE  /\ LogInv' /\ alive' = alive
           /\ sending[s].step = "out" /\ sending'[Lister] = sending[Lister]
           /\ sending'[s] = [step |-> "called", to |-> to, readable |-> readable, ok |-> TRUE]
           /\ \A r \in Addr : r # s => sending'[r] = sending[r]
<1>1. LogInv'
    BY SenderType, LogInvCall DEF ListInv
<1> QED
    BY <1>1, SenderType DEF ListInv, LogInv, LogTypeOK, Call, Idle

LEMMA ListInvAnswerPing ==
    ASSUME ListInv, NEW s \in Addr, AnswerPing(s)
    PROVE  ListInv'
<1>1. /\ pings' = [pings EXCEPT ![s] = @ - 1] /\ pings[s] > 0 /\ Call(s, Lister, TRUE)
      /\ UNCHANGED clientVars
      /\ UNCHANGED <<listing, pinged, addr_len_rcv, responsive, printed, calm, uncertain,
                     answers, answered>>
    BY DEF AnswerPing
<1>2. /\ LogInv' /\ alive' = alive
      /\ sending[s].step = "out" /\ sending'[Lister] = sending[Lister]
      /\ sending'[s].step = "called" /\ sending'[s].to = Lister /\ sending'[s].readable
      /\ \A r \in Addr : r # s => sending'[r] = sending[r]
  <2>1. Call(s, Lister, TRUE)
      BY <1>1
  <2>2. /\ LogInv' /\ alive' = alive
        /\ sending[s].step = "out" /\ sending'[Lister] = sending[Lister]
        /\ sending'[s] = [step |-> "called", to |-> Lister, readable |-> TRUE, ok |-> TRUE]
        /\ \A r \in Addr : r # s => sending'[r] = sending[r]
      BY <2>1, ServerCalls
  <2> HIDE <1>1
  <2> QED
      BY <2>2
<1>3. /\ ring' = ring /\ ring \in Rings /\ Len(ring) \in Nat
    BY <1>1, RingLen DEF ListInv, ListClient, ClientInv, RingInv, TypeOK, clientVars, vars
<1>4. pings[s] \in Nat /\ pings' \in [Addr -> Nat] /\ \A r \in Addr : r # s => pings'[r] = pings[r]
    BY <1>1 DEF ListInv, ListTyped
<1>5. ListTyped'
    BY <1>1, <1>3, <1>4 DEF ListInv, ListTyped
<1>6. NoneForgotten'
  <2> SUFFICES ASSUME listing = "running", calm, ~ uncertain, NEW n \in 1..pinged,
                      ring[n].addr \in alive
               PROVE  Coming(ring[n].addr)'
      BY <1>1, <1>2, <1>3 DEF NoneForgotten
  <2>1. ring[n].addr \in Addr
      BY <1>3, RingType DEF ListInv, ListTyped
  <2>2. Coming(ring[n].addr)
      BY DEF ListInv, NoneForgotten
  <2>3. CASE ring[n].addr = s
      BY <1>2, <1>3, <2>3 DEF Coming
  <2>4. CASE ring[n].addr # s
      BY <1>1, <1>2, <1>3, <1>4, <2>1, <2>2, <2>4 DEF Coming
  <2> QED
      BY <2>3, <2>4
<1>7. ListClient'
    BY <1>1, SameClient DEF ListInv
<1>8. ListerSends' /\ Marked' /\ AliveListed'
    BY <1>1, <1>2 DEF ListInv, ListerSends, Marked, AliveListed
<1> QED
    BY <1>2, <1>5, <1>6, <1>7, <1>8 DEF ListInv

LEMMA ListInvAnswerLookup ==
    ASSUME ListInv, NEW s \in Addr, AnswerLookup(s)
    PROVE  ListInv'
<1>1. /\ Call(s, Stranger, FALSE)
      /\ UNCHANGED clientVars
      /\ UNCHANGED <<listing, pinged, addr_len_rcv, responsive, printed, calm, uncertain, netVars>>
    BY DEF AnswerLookup
<1>2. /\ LogInv' /\ alive' = alive
      /\ sending[s].step = "out" /\ sending'[Lister] = sending[Lister]
      /\ \A r \in Addr : r # s => sending'[r] = sending[r]
    BY <1>1, ServerCalls
<1>3. /\ ring' = ring /\ ring \in Rings /\ Len(ring) \in Nat
    BY <1>1, RingLen DEF ListInv, ListClient, ClientInv, RingInv, TypeOK, clientVars, vars
<1>4. NoneForgotten'
  <2> SUFFICES ASSUME listing = "running", calm, ~ uncertain, NEW n \in 1..pinged,
                      ring[n].addr \in alive
               PROVE  Coming(ring[n].addr)'
      BY <1>1, <1>2, <1>3 DEF NoneForgotten
  <2>1. ring[n].addr \in Addr
      BY <1>3, RingType DEF ListInv, ListTyped
  <2>2. Coming(ring[n].addr)
      BY DEF ListInv, NoneForgotten
  <2> QED
      BY <1>1, <1>2, <1>3, <2>1, <2>2 DEF Coming, netVars
<1>5. ListClient'
    BY <1>1, SameClient DEF ListInv
<1>6. ListTyped' /\ ListerSends' /\ Marked' /\ AliveListed'
    BY <1>1, <1>2, <1>3 DEF ListInv, ListTyped, ListerSends, Marked, AliveListed, netVars
<1> QED
    BY <1>2, <1>4, <1>5, <1>6 DEF ListInv

----------------------------------------------------------------------------

(***************************************************************************)
(* The steps within sendto.                                                *)
(***************************************************************************)
\* A process only leaves the set of those that run, and what it sends stays
\* readable and goes where it went.
LEMMA SendtoSteps ==
    ASSUME ListInv, NEW p \in Addr \cup {Lister},
           \/ \E ok \in BOOLEAN : Kernel(p, ok)
           \/ Lock(p) \/ Note(p) \/ NoteCrashes(p) \/ OpenFails(p)
    PROVE  /\ LogInv' /\ alive' \subseteq alive
           /\ \A q \in Sender : q # p => sending'[q] = sending[q]
           /\ sending'[p].step # "out" =>
                 sending'[p].to = sending[p].to /\ sending'[p].readable = sending[p].readable
           /\ sending[p].step # "out"
<1>1. p \in Sender /\ sending \in [Sender -> Sending]
    BY SenderType DEF ListInv, LogInv, LogTypeOK
<1>2. LogInv'
    BY <1>1, LogInvKernel, LogInvLock, LogInvNote, LogInvNoteCrashes, LogInvOpenFails DEF ListInv
<1>3. ASSUME NEW ok \in BOOLEAN, Kernel(p, ok)
      PROVE  /\ sending' = [sending EXCEPT ![p].step = IF preloaded THEN "sent" ELSE "out",
                                           ![p].ok = ok]
             /\ alive' = alive /\ sending[p].step # "out"
    BY <1>3 DEF Kernel, At
<1>4. Lock(p) => sending' = [sending EXCEPT ![p].step = "locked"] /\ alive' = alive
                 /\ sending[p].step # "out"
    BY DEF Lock, At
<1>5. Note(p) => sending' = [sending EXCEPT ![p].step = "out"] /\ alive' = alive
                 /\ sending[p].step # "out"
    BY DEF Note, At
<1>6. NoteCrashes(p) \/ OpenFails(p) =>
          /\ sending' = [sending EXCEPT ![p] = NotSending] /\ alive' = alive \ {p}
          /\ NotSending.step = "out" /\ sending[p].step # "out"
    BY DEF NoteCrashes, OpenFails, Dies, At, NotSending
<1>7. sending[p] \in Sending
    BY <1>1
<1> QED
    BY <1>1, <1>2, <1>3, <1>4, <1>5, <1>6, <1>7 DEF Sending

\* No datagram moves.
LEMMA ListInvWaits ==
    ASSUME ListInv, NEW p \in Addr \cup {Lister},
           Lock(p) \/ Note(p) \/ NoteCrashes(p) \/ (~ calm /\ OpenFails(p)),
           UNCHANGED clientVars,
           UNCHANGED <<listing, pinged, addr_len_rcv, responsive, printed, calm, uncertain, netVars>>
    PROVE  ListInv'
<1>1. /\ LogInv' /\ alive' \subseteq alive
      /\ \A q \in Sender : q # p => sending'[q] = sending[q]
      /\ sending'[p].step # "out" =>
            sending'[p].to = sending[p].to /\ sending'[p].readable = sending[p].readable
    BY SendtoSteps
<1>2. /\ ring' = ring /\ ring \in Rings /\ Len(ring) \in Nat
    BY RingLen DEF ListInv, ListClient, ClientInv, RingInv, TypeOK, clientVars, vars
<1>3. p \in Sender /\ sending \in [Sender -> Sending]
    BY SenderType DEF ListInv, LogInv, LogTypeOK
<1>4. sending[p].step # "out"
    BY SendtoSteps
<1>5. ListerSends'
    BY <1>1, <1>3, <1>4, SenderType DEF ListInv, ListerSends
<1>6. NoneForgotten'
  <2> SUFFICES ASSUME listing = "running", calm, ~ uncertain, NEW n \in 1..pinged,
                      ring[n].addr \in alive'
               PROVE  Coming(ring[n].addr)'
      BY <1>2 DEF NoneForgotten, netVars
  <2> DEFINE s == ring[n].addr
  <2>1. s \in Addr /\ s \in alive /\ Coming(s)
      BY <1>1, <1>2, RingType DEF ListInv, ListTyped, NoneForgotten
  <2>2. CASE Lock(p)
    <3>1. sending[p].step = "called" /\ sending' = [sending EXCEPT ![p].step = "locked"]
        BY <2>2 DEF Lock, At
    <3>2. sending'[p].step = "locked"
        BY <1>3, <3>1 DEF Sending
    <3> QED
        BY <1>1, <1>2, <2>1, <3>1, <3>2, SenderType DEF Coming, netVars
  <2>3. CASE Note(p)
    <3>1. sending[p].step = "sent"
        BY <2>3 DEF Note, At
    <3> QED
        BY <1>1, <1>2, <2>1, <3>1, SenderType DEF Coming, netVars
  <2>4. CASE NoteCrashes(p)
    <3>1. sending[p].step = "sent"
        BY <2>4 DEF NoteCrashes, At
    <3> QED
        BY <1>1, <1>2, <2>1, <3>1, SenderType DEF Coming, netVars
  <2> QED
      BY <2>2, <2>3, <2>4
<1>7. ListClient'
    BY SameClient DEF ListInv
<1>8. ListTyped' /\ Marked' /\ AliveListed'
    BY <1>1, <1>2 DEF ListInv, ListTyped, Marked, AliveListed, netVars
<1> QED
    BY <1>1, <1>5, <1>6, <1>7, <1>8 DEF ListInv

\* What the kernel refuses is lost, but not in calm.
LEMMA ListInvRefused ==
    ASSUME ListInv, NEW p \in Addr \cup {Lister}, SendRefused(p),
           UNCHANGED clientVars,
           UNCHANGED <<listing, pinged, addr_len_rcv, responsive, printed, calm, uncertain>>
    PROVE  ListInv'
<1>1. /\ LogInv' /\ alive' \subseteq alive
      /\ \A q \in Sender : q # p => sending'[q] = sending[q]
      /\ sending'[p].step # "out" =>
            sending'[p].to = sending[p].to /\ sending'[p].readable = sending[p].readable
      /\ sending[p].step # "out"
    BY SendtoSteps DEF SendRefused
<1>2. /\ ring' = ring /\ ring \in Rings /\ Len(ring) \in Nat
    BY RingLen DEF ListInv, ListClient, ClientInv, RingInv, TypeOK, clientVars, vars
<1>3. p \in Sender /\ UNCHANGED netVars /\ (~ sending[p].readable \/ ~ calm)
    BY SenderType DEF SendRefused
<1>4. ListerSends'
    BY <1>1, <1>3, SenderType DEF ListInv, ListerSends
<1>5. NoneForgotten'
  <2> SUFFICES ASSUME listing = "running", calm, ~ uncertain, NEW n \in 1..pinged,
                      ring[n].addr \in alive'
               PROVE  Coming(ring[n].addr)'
      BY <1>2 DEF NoneForgotten
  <2>1. ring[n].addr \in Addr
      BY <1>2, RingType DEF ListInv, ListTyped
  <2>3. Coming(ring[n].addr)
      BY <1>1 DEF ListInv, NoneForgotten
  <2>2. ~ sending[p].readable /\ p # Lister
      BY <1>1, <1>3 DEF ListInv, ListerSends
  <2> QED
      BY <1>1, <1>2, <1>3, <2>1, <2>2, <2>3, SenderType DEF Coming, netVars
<1>6. ListClient'
    BY SameClient DEF ListInv
<1>7. ListTyped' /\ Marked' /\ AliveListed'
    BY <1>1, <1>2, <1>3 DEF ListInv, ListTyped, Marked, AliveListed, netVars
<1> QED
    BY <1>1, <1>4, <1>5, <1>6, <1>7 DEF ListInv

\* What the kernel takes arrives, in calm once and otherwise up to twice.
LEMMA ListInvSucceeds ==
    ASSUME ListInv, NEW p \in Addr \cup {Lister}, SendSucceeds(p),
           UNCHANGED clientVars,
           UNCHANGED <<listing, pinged, addr_len_rcv, responsive, printed, calm, uncertain>>
    PROVE  ListInv'
<1>1. /\ LogInv' /\ alive' \subseteq alive
      /\ \A q \in Sender : q # p => sending'[q] = sending[q]
      /\ sending'[p].step # "out" =>
            sending'[p].to = sending[p].to /\ sending'[p].readable = sending[p].readable
      /\ sending[p].step # "out"
    BY SendtoSteps DEF SendSucceeds
<1>2. /\ ring' = ring /\ ring \in Rings /\ Len(ring) \in Nat
    BY RingLen DEF ListInv, ListClient, ClientInv, RingInv, TypeOK, clientVars, vars
<1>3. p \in Sender
    BY SenderType
<1>4. PICK n \in Copies :
          IF p = Lister
          THEN /\ pings' = [pings EXCEPT ![sending[p].to] = @ + n]
               /\ UNCHANGED <<answers, answered>>
          ELSE /\ answers' = [answers EXCEPT ![p] = @ + n]
               /\ answered' = IF n > 0 THEN answered \cup {p} ELSE answered
               /\ UNCHANGED pings
    BY DEF SendSucceeds, Deliver
<1>5. n \in Nat /\ (calm => n = 1)
    BY DEF Copies
<1>6. p = Lister => sending[p].to \in Addr
    BY <1>1 DEF ListInv, ListerSends
<1>7. /\ pings' \in [Addr -> Nat] /\ answers' \in [Addr -> Nat]
      /\ \A s \in Addr : pings'[s] >= pings[s] /\ answers'[s] >= answers[s]
      /\ p = Lister => pings'[sending[p].to] = pings[sending[p].to] + n
      /\ p # Lister => answers'[p] = answers[p] + n
  <2>1. /\ pings \in [Addr -> Nat] /\ answers \in [Addr -> Nat]
      BY DEF ListInv, ListTyped
  <2>2. CASE p = Lister
      BY <1>4, <1>5, <1>6, <2>1, <2>2
  <2>3. CASE p # Lister
    <3>1. p \in Addr
        BY <2>3
    <3> QED
        BY <1>4, <1>5, <2>1, <2>3, <3>1
  <2> QED
      BY <2>2, <2>3
<1>8. ListTyped'
    BY <1>2, <1>4, <1>7 DEF ListInv, ListTyped
<1>9. Marked'
  <2>1. answered \subseteq answered'
      BY <1>4
  <2>2. \A s \in Addr : answers'[s] > 0 => s \in answered'
      BY <1>4, <1>5, <1>7 DEF ListInv, Marked, ListTyped
  <2> QED
      BY <2>1, <2>2 DEF ListInv, Marked
<1>10. ListerSends'
    BY <1>1, <1>3, SenderType DEF ListInv, ListerSends
<1>11. NoneForgotten'
  <2> SUFFICES ASSUME listing = "running", calm, ~ uncertain, NEW j \in 1..pinged,
                      ring[j].addr \in alive'
               PROVE  Coming(ring[j].addr)'
      BY <1>2 DEF NoneForgotten
  <2> DEFINE s == ring[j].addr
  <2>1. s \in Addr /\ Coming(s)
      BY <1>1, <1>2, RingType DEF ListInv, ListTyped, NoneForgotten
  <2>2. pings[s] \in Nat /\ answers[s] \in Nat /\ pings'[s] \in Nat /\ answers'[s] \in Nat
      BY <1>7, <2>1 DEF ListInv, ListTyped
  <2>3. CASE p = Lister
    <3>1. s = sending[Lister].to => pings'[s] > 0
        BY <1>5, <1>7, <2>2, <2>3
    <3> QED
        BY SMTT(30), <1>1, <1>2, <1>7, <2>1, <2>2, <2>3, <3>1, SenderType DEF Coming
  <2>4. CASE p # Lister
    <3>1. s = p => answers'[s] > 0
        BY <1>5, <1>7, <2>2, <2>4
    <3> QED
        BY SMTT(30), <1>1, <1>2, <1>7, <2>1, <2>2, <2>4, <3>1, SenderType DEF Coming
  <2> QED
      BY <2>3, <2>4
<1>12. ListClient'
    BY SameClient DEF ListInv
<1>13. AliveListed'
    BY <1>1 DEF ListInv, AliveListed
<1> QED
    BY <1>1, <1>8, <1>9, <1>10, <1>11, <1>12, <1>13 DEF ListInv

LEMMA ListInvInSendto ==
    ASSUME ListInv, NEW p \in Addr \cup {Lister}, InSendto(p)
    PROVE  ListInv'
<1>1. /\ UNCHANGED clientVars
      /\ UNCHANGED <<listing, pinged, addr_len_rcv, responsive, printed, calm, uncertain>>
    BY DEF InSendto
<1>2. CASE SendSucceeds(p)
    BY <1>1, <1>2, ListInvSucceeds
<1>3. CASE SendRefused(p)
    BY <1>1, <1>3, ListInvRefused
<1>4. CASE /\ Lock(p) \/ Note(p) \/ NoteCrashes(p) \/ (~ calm /\ OpenFails(p))
           /\ UNCHANGED netVars
    BY <1>1, <1>4, ListInvWaits
<1> QED
    BY <1>2, <1>3, <1>4 DEF InSendto

LEMMA ListInvStep == ListInv /\ [NextList]_allVars => ListInv'
<1> SUFFICES ASSUME ListInv, [NextList]_allVars PROVE ListInv'
    OBVIOUS
<1>1. CASE NextClient /\ UNCHANGED <<listVars, logVars>>
    BY <1>1, ListInvClient
<1>2. CASE StepLister
    BY <1>2, ListInvStart, ListInvExit, ListInvPing, ListInvReceive, ListInvPrint DEF StepLister
<1>3. ASSUME NEW s \in Addr, StepServer(s) PROVE ListInv'
    BY <1>3, ListInvAnswerPing, ListInvAnswerLookup DEF StepServer
<1>4. ASSUME NEW p \in Addr \cup {Lister}, InSendto(p) PROVE ListInv'
    BY <1>4, ListInvInSendto
<1>5. CASE UNCHANGED allVars
    BY <1>5, ListInvUnchanged
<1> QED
    BY <1>1, <1>2, <1>3, <1>4, <1>5 DEF NextList

LEMMA ListInvHolds == SpecList => []ListInv
BY ListInvInit, ListInvStep, PTL DEF SpecList

----------------------------------------------------------------------------

(***************************************************************************)
(* Types of the client, the listing, the processes and their log.          *)
(***************************************************************************)
THEOREM ListTypes == SpecList => []ListTypeOK
BY ListInvHolds, ListInvType, PTL

(***************************************************************************)
(* In every client process the walk for a key which some node covers stays *)
(* in the array that ring_init has filled.                                 *)
(***************************************************************************)
THEOREM ClientsStayInArray == SpecList => []StaysInArray
<1>1. ListInv => StaysInArray
    BY RingInvStays DEF ListInv, ListClient, ClientInv
<1> QED
    BY <1>1, ListInvHolds, PTL

(***************************************************************************)
(* In every client process each step of a walk over a ring that has the    *)
(* servers brings the walk nearer to its end.                              *)
(***************************************************************************)
THEOREM WalksAdvance == SpecList => WalkAdvances
<1>1. ListInv => TypeOK
    BY DEF ListInv, ListClient, ClientInv, RingInv
<1>2. TypeOK =>
        [Next /\ EnoughServers =>
            \/ Phase' < Phase
            \/ /\ Phase' = Phase
               /\ \/ pc = "search" /\ i' \in (i + 1)..Len(ring)
                  \/ Len(result') \in (Len(result) + 1)..wanted
                  \/ result' = result /\ Ahead' \in 0..(Ahead - 1)]_vars
    BY StepAdvances
<1> QED
    BY <1>1, <1>2, ListInvHolds, PTL DEF WalkAdvances

(***************************************************************************)
(* In every client process the walk for a key whose first byte some node   *)
(* covers finds the servers nearest clockwise from node_key.               *)
(***************************************************************************)
THEOREM ClientsFindNearest == SpecList => []NearestServers
<1>1. ListInv => NearestServers
    BY RingInvNearest DEF ListInv, ListClient, ClientInv
<1> QED
    BY <1>1, ListInvHolds, PTL

(***************************************************************************)
(* What a client process gets reaches the quorums of its operations.       *)
(***************************************************************************)
THEOREM ClientsReachQuorums == SpecList => []ListReachesQuorums
<1>1. ListInv => ListReachesQuorums
    BY ClientInvReaches DEF ListInv, ListClient
<1> QED
    BY <1>1, ListInvHolds, PTL

(***************************************************************************)
(* A node is printed as OK only if its server has answered, but for one    *)
(* server if the length was wrong.                                         *)
(***************************************************************************)
THEOREM MarksAreAnswers == SpecList => []MarkedAnswered
BY ListInvHolds, ListInvMarked, PTL

(***************************************************************************)
(* When nothing is lost or late, every server that is up is printed as OK. *)
(***************************************************************************)
THEOREM AliveAreListed == SpecList => []AliveListed
<1>1. ListInv => AliveListed
    BY DEF ListInv
<1> QED
    BY <1>1, ListInvHolds, PTL

(***************************************************************************)
(* The log of the datagrams is in the order in which they were sent,       *)
(* whatever processes are killed.                                          *)
(***************************************************************************)
THEOREM LogIsOrdered == SpecList => []LogOrder
<1>1. ListInv => LogOrder
    BY LogInvOrder DEF ListInv
<1> QED
    BY <1>1, ListInvHolds, PTL
=============================================================================
