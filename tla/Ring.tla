-------------------------------- MODULE Ring --------------------------------
(***************************************************************************)
(* ring_get_nodes_for_key of ring.c: one call, loop iteration by loop      *)
(* iteration, on the ring that get_nodes and ring_init left behind.        *)
(*                                                                         *)
(* A digest is <<first, rest>>: its first byte, and the rest of it as the  *)
(* number of a class of rests that compare alike.  node_cmp_sha compares   *)
(* digests as C strings, so a zero byte ends a digest: after a zero first  *)
(* byte the rest does not count, and rest 0 is the empty string.           *)
(***************************************************************************)
EXTENDS Integers, Sequences, FiniteSets

CONSTANTS
    Addr,       \* the addresses of the servers
    Garbage,    \* an address read from memory behind the array
    MaxByte,    \* the largest first byte
    MaxRest,    \* the largest rest
    MaxNodes    \* bound: the nodes servers.txt describes

ASSUME RingAssumption ==
    /\ Garbage \notin Addr
    /\ MaxByte \in Nat /\ MaxRest \in Nat /\ MaxNodes \in Nat

Digest == (0..MaxByte) \X (0..MaxRest)
node_t == [sha : Digest, addr : Addr]

\* The order of strncmp on digests: a digest's place in it.
Rank(d) == IF d[1] = 0 THEN 0 ELSE d[1] * (MaxRest + 1) + d[2]

\* node_cmp_sha(first, second) > 0.
node_cmp_sha_gt(d, e) == Rank(d) > Rank(e)

\* node_key: the initialiser {*hash} takes one byte of the digest and zeroes
\* the others.
node_key(d) == <<d[1], 0>>

VARIABLES
    ring,    \* ring->nodes
    wanted,  \* wanted_list_size, the N of the client
    sha,     \* SHA1 of the key
    pc,      \* "search", "collect", "done", "failed" (NULL returned), "crashed"
             \* (behind the array) or "nolist" (NULL written to)
    i,       \* the index; -1 for some index behind the end of the array
    result   \* result->nodes

vars == <<ring, wanted, sha, pc, i, result>>

\* node_list_sort: qsort may leave equal nodes in any order.
node_list_sorted(s) ==
    \A j \in 1..(Len(s) - 1) : ~ node_cmp_sha_gt(s[j].sha, s[j+1].sha)

Rings == {s \in UNION {[1..n -> node_t] : n \in 0..MaxNodes} : node_list_sorted(s)}

TypeOK ==
    /\ ring \in Rings
    /\ wanted \in 0..Len(ring)
    /\ sha \in Digest
    /\ pc \in {"search", "collect", "done", "failed", "crashed", "nolist"}
    /\ i \in -1..Len(ring)
    /\ i = Len(ring) => pc \in {"search", "crashed", "nolist"}
    /\ result \in Seq([sha : Digest, addr : Addr \cup {Garbage}])

(***************************************************************************)
(* client_init refuses an N larger than server->size, which counts nodes:  *)
(* a server has as many as its line of servers.txt asks for.               *)
(***************************************************************************)
Init ==
    /\ ring \in Rings
    /\ wanted \in 0..Len(ring)
    /\ sha \in Digest
    /\ pc = "search"
    /\ i = 0
    /\ result = <<>>

\* Variants for the mutation runs: nodes compared instead of servers, the step
\* of the walk taken twice or not wrapped round, and a search that also passes
\* nodes at the place of the key.
nodes_different(list, node) == \A j \in 1..Len(list) : list[j] # node
SkipTwo(k) == (k + 2) % Len(ring)
NoWrap(k) == k + 1
SearchPastEqual ==
    /\ pc = "search" /\ i < Len(ring)
    /\ IF Rank(node_key(sha)) >= Rank(ring[i+1].sha)
       THEN i' = i + 1 /\ pc' = pc
       ELSE i' = i /\ pc' = "collect"
    /\ UNCHANGED <<ring, wanted, sha, result>>

\* server_different: no node of the list has this node's address.
server_different(list, node) == \A j \in 1..Len(list) : list[j].addr # node.addr

\* i++; i = i % ring->size, where i is an index of the array.
NextIndex(k) == (k + 1) % Len(ring)

\* node_list_new returns NULL, and its size is set all the same.
NoList ==
    /\ pc = "search" /\ i = 0
    /\ pc' = "nolist"
    /\ UNCHANGED <<ring, wanted, sha, i, result>>

\* The first while loop, on a node of the ring.
Search ==
    /\ pc = "search" /\ i < Len(ring)
    /\ IF node_cmp_sha_gt(node_key(sha), ring[i+1].sha)
       THEN i' = i + 1 /\ pc' = pc
       ELSE i' = i /\ pc' = "collect"
    /\ UNCHANGED <<ring, wanted, sha, result>>

(***************************************************************************)
(* The first loop has no bound: behind the array it reads memory of the    *)
(* heap, until a comparison happens to fail or the process is killed.  An  *)
(* empty ring has no array at all and NULL is read.                        *)
(***************************************************************************)
Overrun ==
    /\ pc = "search" /\ i = Len(ring)
    /\ \/ pc' = "crashed" /\ i' = i
       \/ ring # <<>> /\ pc' = "collect" /\ i' = -1
    /\ UNCHANGED <<ring, wanted, sha, result>>

\* The second while loop, on a node of the ring.
Collect ==
    /\ pc = "collect" /\ Len(result) < wanted /\ i >= 0
    /\ \/ /\ server_different(result, ring[i+1])
          /\ result' = Append(result, ring[i+1])
          /\ i' = NextIndex(i)
          /\ pc' = pc
       \/ /\ ~ server_different(result, ring[i+1])
          /\ i' = NextIndex(i)
          /\ UNCHANGED <<result, pc>>
    /\ UNCHANGED <<ring, wanted, sha>>

\* node_list_add fails to grow the array: the list is freed, NULL returned.
CollectNoMemory ==
    /\ pc = "collect" /\ Len(result) < wanted
    /\ i >= 0 => server_different(result, ring[i+1])
    /\ pc' = "failed"
    /\ UNCHANGED <<ring, wanted, sha, i, result>>

\* The second loop on what was read behind the array, which may even look like
\* a server; it is the first node of the result, and where i % ring->size then
\* is depends on where it was.
CollectGarbage ==
    /\ pc = "collect" /\ Len(result) < wanted /\ i = -1
    /\ \E d \in Digest : \E a \in Addr \cup {Garbage} :
          result' = <<[sha |-> d, addr |-> a]>>
    /\ i' \in 0..(Len(ring) - 1)
    /\ UNCHANGED <<ring, wanted, sha, pc>>

Return ==
    /\ pc = "collect" /\ Len(result) >= wanted
    /\ pc' = "done"
    /\ UNCHANGED <<ring, wanted, sha, i, result>>

Next == NoList \/ Search \/ Overrun \/ Collect \/ CollectNoMemory \/ CollectGarbage \/ Return

\* The call runs: its process is scheduled.
Spec == Init /\ [][Next]_vars /\ WF_vars(Next)

----------------------------------------------------------------------------

\* Some node is at or behind the place of the key's first byte.
Covered == \E j \in 1..Len(ring) : ~ node_cmp_sha_gt(node_key(sha), ring[j].sha)

Servers == {ring[j].addr : j \in 1..Len(ring)}

EnoughServers == Cardinality(Servers) >= wanted

(***************************************************************************)
(* Consistent hashing, declaratively.  The ring is walked from the first   *)
(* node that is not before node_key: the first byte of the key's digest,   *)
(* and zeroes.  That is at or before the place of the digest itself.  A    *)
(* server is as far as the nearest of its nodes.                           *)
(***************************************************************************)
Least(S) == CHOOSE x \in S : \A y \in S : x <= y

Start == Least({j \in 1..Len(ring) : ~ node_cmp_sha_gt(node_key(sha), ring[j].sha)})

Distance(a) ==
    Least({(j - Start) % Len(ring) : j \in {n \in 1..Len(ring) : ring[n].addr = a}})

(***************************************************************************)
(* A list that is returned for a key that some node covers holds exactly   *)
(* the wanted number of different servers, nearest clockwise from node_key *)
(* first, and no server left out is nearer than one taken.  Readers and    *)
(* writers of a key find the same servers only because of this.            *)
(***************************************************************************)
NearestServers ==
    pc = "done" /\ Covered =>
        /\ Len(result) = wanted
        /\ \A j \in 1..wanted : result[j].addr \in Servers
        /\ \A j, k \in 1..wanted :
              j < k => Distance(result[j].addr) < Distance(result[k].addr)
        /\ \A a \in Servers \ {result[j].addr : j \in 1..wanted} :
              \A j \in 1..wanted : Distance(result[j].addr) < Distance(a)

(***************************************************************************)
(* ring.c: "find first node such that its sha is greater than the key's    *)
(* sha".  If some node is at or behind the key's whole digest, the list    *)
(* begins with such a node.                                                *)
(***************************************************************************)
StartsBehindKey ==
    /\ pc = "done" /\ wanted > 0
    /\ \E j \in 1..Len(ring) : ~ node_cmp_sha_gt(sha, ring[j].sha)
    => ~ node_cmp_sha_gt(sha, result[1].sha)

(***************************************************************************)
(* The walk cannot leave the array when some node covers the key, so the   *)
(* undefined behaviour behind it is confined to keys beyond every node.    *)
(***************************************************************************)
StaysInArray == Covered => i \in 0..(Len(ring) - 1) /\ pc # "crashed"

(***************************************************************************)
(* Why the walk ends when the ring has the servers, wherever it began: its *)
(* phases follow each other, the first loop goes up the array, the second  *)
(* lengthens the list or comes nearer to a server that the list lacks.     *)
(***************************************************************************)
Phase ==
    CASE pc = "search" -> 3
      [] pc = "collect" /\ i = -1 -> 2
      [] pc = "collect" /\ i # -1 -> 1
      [] OTHER -> 0

Lacking == {n \in 1..Len(ring) : server_different(result, ring[n])}

\* How many nodes the second loop passes before it adds one.
Ahead == Least({(n - 1 - i) % Len(ring) : n \in Lacking})

WalkAdvances ==
    [][Next /\ EnoughServers =>
          \/ Phase' < Phase
          \/ /\ Phase' = Phase
             /\ \/ pc = "search" /\ i' \in (i + 1)..Len(ring)
                \/ Len(result') \in (Len(result) + 1)..wanted
                \/ result' = result /\ Ahead' \in 0..(Ahead - 1)]_vars
=============================================================================
