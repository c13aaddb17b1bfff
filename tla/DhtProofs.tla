----------------------------- MODULE DhtProofs -----------------------------
(***************************************************************************)
(* Proofs about Clients, and about Dht in it: any number of servers and of *)
(* client processes, any N, W and R, and all that the network, the servers *)
(* and the operating system may do.                                        *)
(***************************************************************************)
EXTENDS Clients, TLAPS, FiniteSetTheorems, SequenceTheorems, WellFoundedInduction

\* What is proved of the two kinds of hash tables.
StoreLemmas == INSTANCE BucketsProofs
    WITH Bucket <- StoreBucket, HashOf <- StoreHash, PrefixOf <- StorePrefix

VoteLemmas == INSTANCE VotesProofs
    WITH Key <- Answer, Value <- (-CharHalf)..(CharHalf - 1),
         Bucket <- VoteBucket, HashOf <- VoteHash, PrefixOf <- VotePrefix

----------------------------------------------------------------------------

(***************************************************************************)
(* The accounts of call o.  Every request that waits at a server and every *)
(* answer that waits at the client counts as one; so does every server     *)
(* that has given an answer of set Q or may still give one, and every      *)
(* datagram the network has duplicated.  For a put, the servers that have  *)
(* written count, because each acknowledges after it has written.          *)
(***************************************************************************)
Requests(box, o) ==
    {p \in Server \X Nat : p[2] \in 1..Len(box[p[1]]) /\ box[p[1]][p[2]] = o}

Asked(box, o) == {s \in Server : \E j \in 1..Len(box[s]) : box[s][j] = o}

Waiting(bag, Q) ==
    {w \in (DOMAIN bag) \X Nat : w[1][2] \in Q /\ w[2] \in 1..bag[w[1]]}

Givers(o, Q) ==
    IF IsPut(o) THEN Writers(o)
                ELSE {s \in Server : \E a \in Q : <<s, a>> \in answered[o]}

(***************************************************************************)
(* How many answers of Q the client may have counted: its count is never   *)
(* ahead of the servers by more than the duplicates.                       *)
(***************************************************************************)
Slack(o, Q) ==
    Cardinality(Givers(o, Q) \cup Asked(inbox, o)) + dups
       - Cardinality(Requests(inbox, o)) - Cardinality(Waiting(socket[o], Q))

\* The answers that count for string q.
Below(q) == {a \in Answer : <<a, q>> \in VotePrefix}

Slacks(o) == [q \in Answer |-> Slack(o, Below(q))]

----------------------------------------------------------------------------

(***************************************************************************)
(* The inductive invariant: types, then what holds of every call.          *)
(***************************************************************************)
CallRecord ==
    [pc : {"new", "send", "receive", "ok", "fail", "error", "killed"},
     i : Nat, nb_writes : Nat, votes : Votes!Table, value : SUBSET Answer]

\* The locals of call o with its socket.
CallOK(o, locals, waiting) ==
    /\ IsABag(waiting) /\ BagToSet(waiting) \subseteq Server \X Answer
    /\ IsFiniteSet(Waiting(waiting, Answer))
    /\ IF locals.pc \in {"send", "receive"} THEN locals.i < N(o) ELSE waiting = EmptyBag
    /\ ~ IsPut(o) => /\ BagToSet(waiting) \subseteq Server \X Value
                     /\ locals.value \subseteq Value
                     /\ locals.pc = "ok" => locals.value # {}

CallsOK ==
    /\ call \in [DOMAIN program -> CallRecord] /\ DOMAIN socket = DOMAIN program
    /\ \A o \in DOMAIN program : CallOK(o, call[o], socket[o])

RequestsOK ==
    /\ inbox \in [Server -> Seq(DOMAIN program)]
    /\ \A o \in DOMAIN program : IsFiniteSet(Requests(inbox, o))

ServersOK ==
    /\ store \in [Server -> Store!Table]
    /\ applied \in [Server -> SUBSET DOMAIN program]
    /\ answered \in [Gets -> SUBSET (Server \X Value)]
    /\ dups \in Nat

\* Only the value that cat puts is not known from the beginning.
ProgramOK ==
    /\ net \in Environments
    /\ DOMAIN program = DOMAIN ProgramOf(command) /\ DOMAIN program \subseteq Op
    /\ \A o \in DOMAIN program :
          /\ program[o] \in Calls
          /\ program[o].N <= Len(Contact[program[o].key])
          /\ program[o] = [ProgramOf(command)[o] EXCEPT !.value = program[o].value]

ProcessesOK ==
    /\ DOMAIN command \subseteq Proc /\ \A c \in DOMAIN command : command[c] \in Command
    /\ DOMAIN at = DOMAIN command /\ DOMAIN output = DOMAIN command
    /\ concatenation \in [DOMAIN command -> Value]
    /\ \A c \in DOMAIN command :
          /\ at[c] \in {1} \cup 1..LastCall(c)
          /\ ~ TooLong(concatenation[c])
          /\ output[c] # <<>> => output[c][1] \in {"OK", "FAIL", "KILLED"}

Types == CallsOK /\ RequestsOK /\ ServersOK /\ ProgramOK /\ ProcessesOK

\* The servers that a call may have reached.
Touched(o) == Givers(o, Answer) \cup Asked(inbox, o)

\* A call sends one request to each of its servers.
SentOnce(o) ==
    /\ call[o].pc = "new" => Touched(o) = {}
    /\ call[o].pc = "send" =>
          Touched(o) \subseteq {servers_to_contact(o)[m] : m \in 1..call[o].i}

WritesCounted(o) == Open(o) => call[o].nb_writes <= Slack(o, {Empty})

VotesCounted(o) ==
    Open(o) => /\ Slacks(o) \in [Answer -> Nat]
               /\ VoteLemmas!Backed(call[o].votes, Slacks(o))
               /\ Quorum(o) = 0 => VoteLemmas!AllOnes(call[o].votes)

PutReached(o) == call[o].pc = "ok" => Cardinality(Writers(o)) + dups >= Needed(o)

GetReached(o) ==
    call[o].pc = "ok" /\ Quorum(o) <= CharHalf + 1 =>
        \A v \in call[o].value : \E q \in Answer :
            <<v, q>> \in VotePrefix /\ Cardinality(Counting(o, q)) + dups >= Needed(o)

CallInv(o) ==
    /\ SentOnce(o)
    /\ IsPut(o) => WritesCounted(o) /\ PutReached(o)
    /\ ~ IsPut(o) => VotesCounted(o) /\ GetReached(o)

DhtInv == Types /\ \A o \in DOMAIN program : CallInv(o)

----------------------------------------------------------------------------

(***************************************************************************)
(* Requests: one that is handled, those that are sent, and a restart.      *)
(***************************************************************************)
LEMMA RemovedPlace ==
    ASSUME NEW S, NEW q \in Seq(S), NEW j \in 1..Len(q)
    PROVE  /\ RemoveAt(q, j) \in Seq(S)
           /\ Len(RemoveAt(q, j)) = Len(q) - 1
           /\ \A m \in 1..(Len(q) - 1) : RemoveAt(q, j)[m] = IF m < j THEN q[m] ELSE q[m + 1]
<1> DEFINE before_j == SubSeq(q, 1, j - 1)
           after_j == SubSeq(q, j + 1, Len(q))
<1>1. /\ before_j \in Seq(S) /\ Len(before_j) = j - 1
      /\ \A m \in 1..(j - 1) : before_j[m] = q[m]
    OBVIOUS
<1>2. /\ after_j \in Seq(S) /\ Len(after_j) = Len(q) - j
      /\ \A m \in 1..(Len(q) - j) : after_j[m] = q[j + m]
    OBVIOUS
<1>3. RemoveAt(q, j) = before_j \o after_j
    BY DEF RemoveAt
<1> HIDE DEF before_j, after_j
<1>4. /\ before_j \o after_j \in Seq(S)
      /\ Len(before_j \o after_j) = Len(q) - 1
      /\ \A m \in 1..(Len(q) - 1) :
            (before_j \o after_j)[m] = IF m <= j - 1 THEN before_j[m] ELSE after_j[m - (j - 1)]
  <2>1. /\ before_j \o after_j \in Seq(S)
        /\ Len(before_j \o after_j) = Len(before_j) + Len(after_j)
        /\ \A m \in 1..(Len(before_j) + Len(after_j)) :
              (before_j \o after_j)[m] =
                  IF m <= Len(before_j) THEN before_j[m] ELSE after_j[m - Len(before_j)]
      BY <1>1, <1>2, ConcatProperties
  <2>2. Len(before_j) + Len(after_j) = Len(q) - 1
      BY <1>1, <1>2
  <2> QED
      BY <1>1, <2>1, <2>2
<1>5. ASSUME NEW m \in 1..(Len(q) - 1)
      PROVE  (before_j \o after_j)[m] = IF m < j THEN q[m] ELSE q[m + 1]
  <2>1. CASE m < j
      BY <1>1, <1>4, <2>1
  <2>2. CASE ~ m < j
    <3>1. m - (j - 1) \in 1..(Len(q) - j) /\ j + (m - (j - 1)) = m + 1
        BY <2>2
    <3> QED
        BY <1>2, <1>4, <2>2, <3>1
  <2> QED
      BY <2>1, <2>2
<1> QED
    BY <1>3, <1>4, <1>5

Boxes(S) == [Server -> Seq(S)]

\* The request at place j of server s is taken.
Without(box, s, j) == [box EXCEPT ![s] = RemoveAt(@, j)]

LEMMA Handled ==
    ASSUME NEW S, NEW box \in Boxes(S), NEW s \in Server, NEW j \in 1..Len(box[s]),
           NEW o, IsFiniteSet(Requests(box, o))
    PROVE  LET rest == Without(box, s, j)
               n == Cardinality(Requests(box, o))
           IN  /\ rest \in Boxes(S)
               /\ IsFiniteSet(Requests(rest, o))
               /\ Asked(rest, o) \subseteq Asked(box, o)
               /\ box[s][j] = o => /\ Cardinality(Requests(rest, o)) = n - 1
                                   /\ Asked(box, o) \subseteq Asked(rest, o) \cup {s}
               /\ box[s][j] # o => /\ Cardinality(Requests(rest, o)) = n
                                   /\ Asked(box, o) = Asked(rest, o)
<1> DEFINE rest == Without(box, s, j)
           old(p) == IF p[1] = s /\ p[2] >= j THEN <<s, p[2] + 1>> ELSE p
           f == [p \in Requests(rest, o) |-> old(p)]
           T == Requests(box, o) \ {<<s, j>>}
<1>1. /\ rest \in Boxes(S)
      /\ Len(rest[s]) = Len(box[s]) - 1
      /\ \A m \in 1..(Len(box[s]) - 1) : rest[s][m] = IF m < j THEN box[s][m] ELSE box[s][m + 1]
      /\ \A x \in Server : x # s => rest[x] = box[x]
    BY RemovedPlace DEF Boxes, Without
<1>2. /\ Len(box[s]) \in Nat /\ j \in Nat /\ \A x \in Server : Len(box[x]) \in Nat
    BY DEF Boxes
<1> HIDE DEF rest
<1>3. ASSUME NEW p \in Requests(rest, o) PROVE old(p) \in T
  <2>1. PICK x \in Server, m \in Nat : p = <<x, m>> /\ m \in 1..Len(rest[x]) /\ rest[x][m] = o
      BY DEF Requests
  <2>2. CASE x = s /\ m >= j
    <3>1. old(p) = <<s, m + 1>> /\ m + 1 \in 1..Len(box[s]) /\ m + 1 \in Nat /\ m + 1 # j
        BY <1>1, <1>2, <2>1, <2>2
    <3>2. m \in 1..(Len(box[s]) - 1) /\ ~ m < j /\ rest[s][m] = o
        BY <1>1, <1>2, <2>1, <2>2
    <3>3. box[s][m + 1] = o
        BY <1>1, <3>2
    <3> QED
        BY <3>1, <3>3 DEF Requests
  <2>3. CASE x = s /\ ~ m >= j
    <3>1. old(p) = <<s, m>> /\ m \in 1..Len(box[s]) /\ m # j /\ box[s][m] = o
        BY <1>1, <1>2, <2>1, <2>3
    <3> QED
        BY <3>1 DEF Requests
  <2>4. CASE x # s
    <3>1. old(p) = <<x, m>> /\ m \in 1..Len(box[x]) /\ box[x][m] = o
        BY <1>1, <2>1, <2>4
    <3> QED
        BY <2>4, <3>1 DEF Requests
  <2> QED
      BY <2>2, <2>3, <2>4
<1>4. ASSUME NEW p \in Requests(rest, o), NEW r \in Requests(rest, o), old(p) = old(r)
      PROVE  p = r
  <2>1. PICK x \in Server, m \in Nat : p = <<x, m>>
      BY DEF Requests
  <2>2. PICK y \in Server, n \in Nat : r = <<y, n>>
      BY DEF Requests
  <2>3. /\ old(p) = IF x = s /\ m >= j THEN <<s, m + 1>> ELSE <<x, m>>
        /\ old(r) = IF y = s /\ n >= j THEN <<s, n + 1>> ELSE <<y, n>>
      BY <2>1, <2>2
  <2> HIDE DEF old
  <2> QED
      BY <1>2, <1>4, <2>1, <2>2, <2>3
<1>5. ASSUME NEW t \in T PROVE \E p \in Requests(rest, o) : old(p) = t
  <2>1. PICK x \in Server, m \in Nat : /\ t = <<x, m>> /\ m \in 1..Len(box[x]) /\ box[x][m] = o
                                       /\ ~ (x = s /\ m = j)
      BY DEF Requests
  <2>2. CASE x = s /\ m > j
    <3>1. m - 1 \in Nat /\ m - 1 \in 1..Len(rest[s]) /\ m - 1 >= j /\ (m - 1) + 1 = m
        BY <1>1, <1>2, <2>1, <2>2
    <3>2. rest[s][m - 1] = box[s][(m - 1) + 1]
      <4>1. m - 1 \in 1..(Len(box[s]) - 1) /\ ~ m - 1 < j
          BY ONLY <1>1, <1>2, <3>1
      <4> QED
          BY ONLY <1>1, <4>1
    <3>3. <<s, m - 1>> \in Requests(rest, o)
        BY <2>1, <2>2, <3>1, <3>2 DEF Requests
    <3>4. old(<<s, m - 1>>) = <<s, m>>
        BY <3>1
    <3> QED
        BY <2>1, <2>2, <3>3, <3>4
  <2>3. CASE x = s /\ ~ m > j
    <3>1. m < j /\ m \in 1..Len(rest[s]) /\ rest[s][m] = box[s][m]
        BY <1>1, <1>2, <2>1, <2>3
    <3>2. <<s, m>> \in Requests(rest, o) /\ old(<<s, m>>) = <<s, m>>
        BY <1>2, <2>1, <2>3, <3>1 DEF Requests
    <3> QED
        BY <2>1, <2>3, <3>2
  <2>4. CASE x # s
    <3>1. <<x, m>> \in Requests(rest, o) /\ old(<<x, m>>) = <<x, m>>
        BY <1>1, <2>1, <2>4 DEF Requests
    <3> QED
        BY <2>1, <3>1
  <2> QED
      BY <2>2, <2>3, <2>4
<1> HIDE DEF old, T
<1>6. f \in Bijection(Requests(rest, o), T)
  <2>1. f \in [Requests(rest, o) -> T]
      BY <1>3
  <2>2. \A p, r \in Requests(rest, o) : f[p] = f[r] => p = r
      BY <1>4
  <2>3. \A t \in T : \E p \in Requests(rest, o) : f[p] = t
      BY <1>5
  <2> HIDE DEF f
  <2> QED
      BY <2>1, <2>2, <2>3 DEF Bijection, Injection, Surjection, IsInjective
<1>7. IsFiniteSet(T) /\ Cardinality(T) = IF <<s, j>> \in Requests(box, o)
                                         THEN Cardinality(Requests(box, o)) - 1
                                         ELSE Cardinality(Requests(box, o))
    BY FS_RemoveElement DEF T
<1>8. IsFiniteSet(Requests(rest, o)) /\ Cardinality(Requests(rest, o)) = Cardinality(T)
  <2>1. f \in Injection(Requests(rest, o), T) /\ f \in Surjection(Requests(rest, o), T)
      BY <1>6 DEF Bijection
  <2> HIDE DEF f
  <2> QED
      BY <1>7, <2>1, FS_Injection
<1>9. <<s, j>> \in Requests(box, o) <=> box[s][j] = o
    BY <1>2 DEF Requests
<1>10. Asked(rest, o) \subseteq Asked(box, o)
  <2> SUFFICES ASSUME NEW x \in Asked(rest, o) PROVE x \in Asked(box, o)
      OBVIOUS
  <2>1. PICK m \in 1..Len(rest[x]) : x \in Server /\ rest[x][m] = o
      BY DEF Asked
  <2>2. CASE x = s
    <3>1. m \in 1..Len(box[s]) /\ m + 1 \in 1..Len(box[s]) /\ (rest[s][m] = box[s][m] \/ rest[s][m] = box[s][m + 1])
        BY <1>1, <1>2, <2>1, <2>2
    <3> QED
        BY <2>1, <2>2, <3>1 DEF Asked
  <2> QED
      BY <1>1, <2>1, <2>2 DEF Asked
<1>11. ASSUME NEW x \in Asked(box, o), x # s \/ box[s][j] # o PROVE x \in Asked(rest, o)
  <2>1. PICK m \in 1..Len(box[x]) : x \in Server /\ box[x][m] = o
      BY DEF Asked
  <2>2. <<x, m>> \in T
      BY <1>2, <1>11, <2>1 DEF T, Requests
  <2>3. PICK p \in Requests(rest, o) : old(p) = <<x, m>>
      BY <1>5, <2>2
  <2>4. p[1] = x /\ x \in Server
      BY <2>3 DEF old, Requests
  <2> QED
      BY <2>4 DEF Asked, Requests
<1> QED
    BY <1>1, <1>7, <1>8, <1>9, <1>10, <1>11 DEF rest

\* n elements more: the copies of a datagram.
LEMMA CopiesAdded ==
    ASSUME NEW A, IsFiniteSet(A), NEW n \in Nat, NEW B, A \subseteq B,
           NEW f \in [1..n -> B \ A],
           \A k, m \in 1..n : f[k] = f[m] => k = m,
           \A t \in B \ A : \E k \in 1..n : f[k] = t
    PROVE  IsFiniteSet(B) /\ Cardinality(B) = Cardinality(A) + n
<1> DEFINE T == B \ A
<1>1. f \in Bijection(1..n, T)
    BY DEF Bijection, Injection, Surjection, IsInjective
<1>2. IsFiniteSet(1..n) /\ Cardinality(1..n) = n
    BY FS_Interval
<1>3. f \in Surjection(1..n, T) /\ f \in Injection(1..n, T)
    BY <1>1 DEF Bijection
<1> HIDE DEF T
<1>4. IsFiniteSet(T) /\ Cardinality(T) = n
    BY <1>2, <1>3, FS_Surjection
<1>5. B = A \cup T /\ A \cap T = {}
    BY DEF T
<1>6. /\ IsFiniteSet(A \cup T)
      /\ Cardinality(A \cup T) = Cardinality(A) + Cardinality(T) - Cardinality(A \cap T)
    BY <1>4, FS_Union
<1>7. Cardinality(A) \in Nat /\ Cardinality(A \cap T) = 0
    BY <1>5, FS_CardinalityType, FS_EmptySet
<1> QED
    BY <1>4, <1>5, <1>6, <1>7

\* Each server that may still answer has a request of its own.
LEMMA AskedHaveRequests ==
    ASSUME NEW S, NEW box \in Boxes(S), NEW o
    PROVE  Asked(box, o) = {p[1] : p \in Requests(box, o)}
<1>1. ASSUME NEW s \in Asked(box, o) PROVE s \in {p[1] : p \in Requests(box, o)}
  <2>1. PICK j \in 1..Len(box[s]) : s \in Server /\ box[s][j] = o
      BY DEF Asked
  <2>2. Len(box[s]) \in Nat
      BY <2>1 DEF Boxes
  <2>3. <<s, j>> \in Requests(box, o)
      BY <2>1, <2>2 DEF Requests
  <2> QED
      BY <2>3
<1>2. ASSUME NEW p \in Requests(box, o) PROVE p[1] \in Asked(box, o)
    BY DEF Asked, Requests
<1> QED
    BY <1>1, <1>2

LEMMA AskedFew ==
    ASSUME NEW S, NEW box \in Boxes(S), NEW o, IsFiniteSet(Requests(box, o))
    PROVE  IsFiniteSet(Asked(box, o)) /\ Cardinality(Asked(box, o)) <= Cardinality(Requests(box, o))
<1> DEFINE f == [p \in Requests(box, o) |-> p[1]]
<1>1. f \in Surjection(Requests(box, o), Asked(box, o))
    BY AskedHaveRequests DEF Surjection
<1> HIDE DEF f
<1> QED
    BY <1>1, FS_Surjection

\* n copies of request c reach server s.
Sending(box, s, n, c) == [box EXCEPT ![s] = @ \o [j \in 1..n |-> c]]

LEMMA CopiesSent ==
    ASSUME NEW S, NEW box \in Boxes(S), NEW s \in Server, NEW c \in S, NEW n \in 0..2,
           NEW o, IsFiniteSet(Requests(box, o))
    PROVE  LET more == Sending(box, s, n, c)
           IN  /\ more \in Boxes(S)
               /\ IsFiniteSet(Requests(more, o))
               /\ c = o => /\ Cardinality(Requests(more, o)) = Cardinality(Requests(box, o)) + n
                           /\ Asked(more, o) = Asked(box, o) \cup (IF n > 0 THEN {s} ELSE {})
               /\ c # o => /\ Cardinality(Requests(more, o)) = Cardinality(Requests(box, o))
                           /\ Asked(more, o) = Asked(box, o)
<1> DEFINE copies == [j \in 1..n |-> c]
           more == Sending(box, s, n, c)
           L == Len(box[s])
<1>1. copies \in Seq(S) /\ Len(copies) = n /\ \A m \in 1..n : copies[m] = c
    OBVIOUS
<1>2. box[s] \in Seq(S) /\ L \in Nat
    BY DEF Boxes
<1> HIDE DEF copies
<1>3. /\ box[s] \o copies \in Seq(S) /\ Len(box[s] \o copies) = L + n
      /\ \A m \in 1..(L + n) : (box[s] \o copies)[m] = IF m <= L THEN box[s][m] ELSE copies[m - L]
    BY <1>1, <1>2, ConcatProperties
<1>4. \A m \in 1..(L + n) : m > L => copies[m - L] = c
    BY <1>1, <1>2
<1>5. more = [box EXCEPT ![s] = @ \o copies]
    BY DEF Sending, copies
<1>6. /\ more \in Boxes(S)
      /\ Len(more[s]) = L + n
      /\ \A m \in 1..(L + n) : more[s][m] = IF m <= L THEN box[s][m] ELSE c
      /\ \A x \in Server : x # s => more[x] = box[x]
    BY <1>3, <1>4, <1>5 DEF Boxes
<1> HIDE DEF more
<1>7. Requests(more, o) = Requests(box, o) \cup (IF c = o THEN {<<s, L + k>> : k \in 1..n} ELSE {})
  <2> DEFINE new == IF c = o THEN {<<s, L + k>> : k \in 1..n} ELSE {}
  <2>1. ASSUME NEW p \in Requests(more, o) PROVE p \in Requests(box, o) \cup new
    <3>1. PICK x \in Server, m \in Nat : p = <<x, m>> /\ m \in 1..Len(more[x]) /\ more[x][m] = o
        BY DEF Requests
    <3>2. CASE x = s /\ m > L
      <4>1. c = o /\ m = L + (m - L) /\ m - L \in 1..n
          BY <1>2, <1>6, <3>1, <3>2
      <4> QED
          BY <3>1, <3>2, <4>1
    <3>3. CASE x = s /\ ~ m > L
      <4>1. m \in 1..L /\ box[s][m] = o
          BY <1>2, <1>6, <3>1, <3>3
      <4> QED
          BY <3>1, <3>3, <4>1 DEF Requests
    <3>4. CASE x # s
        BY <1>6, <3>1, <3>4 DEF Requests
    <3> QED
        BY <3>2, <3>3, <3>4
  <2>2. ASSUME NEW p \in Requests(box, o) PROVE p \in Requests(more, o)
    <3>1. PICK x \in Server, m \in Nat : p = <<x, m>> /\ m \in 1..Len(box[x]) /\ box[x][m] = o
        BY DEF Requests
    <3>2. CASE x = s
      <4>1. m \in 1..Len(more[s]) /\ m \in 1..(L + n) /\ m <= L
          BY <1>2, <1>6, <3>1, <3>2
      <4>2. more[s][m] = o
          BY <1>6, <3>1, <3>2, <4>1
      <4> QED
          BY <3>1, <3>2, <4>1, <4>2 DEF Requests
    <3>3. CASE x # s
        BY <1>6, <3>1, <3>3 DEF Requests
    <3> QED
        BY <3>2, <3>3
  <2>3. ASSUME c = o, NEW k \in 1..n PROVE <<s, L + k>> \in Requests(more, o)
    <3>1. L + k \in Nat /\ L + k \in 1..(L + n) /\ ~ L + k <= L
        BY <1>2
    <3>2. more[s][L + k] = o /\ L + k \in 1..Len(more[s])
        BY <1>6, <2>3, <3>1
    <3> QED
        BY <3>1, <3>2 DEF Requests
  <2> QED
      BY <2>1, <2>2, <2>3
<1>8. ASSUME NEW k \in 1..n PROVE <<s, L + k>> \notin Requests(box, o)
    BY <1>2 DEF Requests
<1>9. Asked(more, o) = Asked(box, o) \cup (IF c = o /\ n > 0 THEN {s} ELSE {})
  <2>1. Asked(more, o) = {p[1] : p \in Requests(more, o)}
      BY <1>6, AskedHaveRequests
  <2>2. Asked(box, o) = {p[1] : p \in Requests(box, o)}
      BY AskedHaveRequests
  <2>3. {p[1] : p \in {<<s, L + k>> : k \in 1..n}} = IF n > 0 THEN {s} ELSE {}
    <3>1. n > 0 <=> 1 \in 1..n
        OBVIOUS
    <3>2. \A p \in {<<s, L + k>> : k \in 1..n} : p[1] = s
        OBVIOUS
    <3>3. n > 0 => <<s, L + 1>> \in {<<s, L + k>> : k \in 1..n}
        BY <3>1
    <3>4. ~ n > 0 => {<<s, L + k>> : k \in 1..n} = {}
        OBVIOUS
    <3> QED
        BY <3>2, <3>3, <3>4
  <2> QED
      BY <1>7, <2>1, <2>2, <2>3
<1>10. c = o => /\ IsFiniteSet(Requests(more, o))
               /\ Cardinality(Requests(more, o)) = Cardinality(Requests(box, o)) + n
  <2>1. c = o => Requests(more, o) = Requests(box, o) \cup {<<s, L + k>> : k \in 1..n}
      BY <1>7
  <2>2. \A k \in 1..n : <<s, L + k>> \notin Requests(box, o)
      BY <1>8
  <2> HIDE DEF L
  <2> DEFINE A == Requests(box, o)
             B == Requests(more, o)
             f == [k \in 1..n |-> <<s, L + k>>]
  <2>3. ASSUME c = o
        PROVE  /\ A \subseteq B /\ f \in [1..n -> B \ A]
               /\ \A k, m \in 1..n : f[k] = f[m] => k = m
               /\ \A t \in B \ A : \E k \in 1..n : f[k] = t
    <3>1. B = A \cup {<<s, L + k>> : k \in 1..n}
        BY <2>1, <2>3
    <3>2. \A k \in 1..n : <<s, L + k>> \in B \ A
        BY <2>2, <3>1
    <3>3. \A k, m \in 1..n : L + k = L + m => k = m
        BY <1>2
    <3> QED
        BY <3>1, <3>2, <3>3
  <2> HIDE DEF A, B, f
  <2>4. IsFiniteSet(A) /\ n \in Nat
      BY DEF A
  <2>5. ASSUME c = o PROVE IsFiniteSet(B) /\ Cardinality(B) = Cardinality(A) + n
      BY <2>3, <2>4, <2>5, CopiesAdded
  <2> QED
      BY <2>5 DEF A, B
<1>11. c # o => Requests(more, o) = Requests(box, o)
    BY <1>7
<1> QED
    BY <1>6, <1>9, <1>10, <1>11 DEF more

\* Server s has been restarted.
Emptied(box, s) == [box EXCEPT ![s] = <<>>]

LEMMA Forgotten ==
    ASSUME NEW S, NEW box \in Boxes(S), NEW s \in Server,
           NEW o, IsFiniteSet(Requests(box, o))
    PROVE  LET rest == Emptied(box, s)
               n == Cardinality(Requests(box, o))
           IN  /\ rest \in Boxes(S)
               /\ IsFiniteSet(Requests(rest, o))
               /\ Cardinality(Requests(rest, o)) <= IF s \in Asked(box, o) THEN n - 1 ELSE n
               /\ Asked(rest, o) = Asked(box, o) \ {s}
<1> DEFINE rest == Emptied(box, s)
<1>1. /\ rest \in Boxes(S) /\ rest[s] = <<>>
      /\ \A x \in Server : x # s => rest[x] = box[x]
    BY DEF Boxes, Emptied
<1> HIDE DEF rest
<1>2. 1..Len(rest[s]) = {}
    BY <1>1
<1>3. Asked(rest, o) = Asked(box, o) \ {s}
    BY <1>1, <1>2 DEF Asked
<1>4. Requests(rest, o) \in SUBSET Requests(box, o) /\ \A p \in Requests(rest, o) : p[1] # s
    BY <1>1, <1>2 DEF Requests
<1>5. /\ IsFiniteSet(Requests(rest, o))
      /\ Cardinality(Requests(rest, o)) <= Cardinality(Requests(box, o))
      /\ Cardinality(Requests(rest, o)) = Cardinality(Requests(box, o)) =>
            Requests(rest, o) = Requests(box, o)
    BY <1>4, FS_Subset
<1>6. s \in Asked(box, o) => Requests(rest, o) # Requests(box, o)
  <2>1. s \in Asked(box, o) => \E p \in Requests(box, o) : p[1] = s
      BY AskedHaveRequests
  <2> QED
      BY <1>4, <2>1
<1>7. Cardinality(Requests(rest, o)) \in Nat /\ Cardinality(Requests(box, o)) \in Nat
    BY <1>5, FS_CardinalityType
<1>8. Cardinality(Requests(rest, o)) <= IF s \in Asked(box, o) THEN Cardinality(Requests(box, o)) - 1
                                                             ELSE Cardinality(Requests(box, o))
    BY <1>5, <1>6, <1>7
<1> QED
    BY <1>1, <1>3, <1>5, <1>8 DEF rest

----------------------------------------------------------------------------

(***************************************************************************)
(* Answers: some that arrive, and one that is received.                    *)
(***************************************************************************)
LEMMA BagCount ==
    ASSUME NEW B, IsABag(B), NEW x \in DOMAIN B
    PROVE  B[x] \in Nat /\ B[x] > 0
BY DEF IsABag

LEMMA NoneWaiting ==
    /\ IsABag(EmptyBag) /\ BagToSet(EmptyBag) = {}
    /\ \A Q : Waiting(EmptyBag, Q) = {}
<1>1. EmptyBag = [e \in {} |-> 1]
    BY DEF EmptyBag, SetToBag
<1>2. DOMAIN EmptyBag = {}
    BY <1>1
<1> QED
    BY <1>1, <1>2 DEF IsABag, BagToSet, Waiting

LEMMA FewerWaiting ==
    ASSUME NEW B, NEW Q \in SUBSET Answer, IsFiniteSet(Waiting(B, Answer))
    PROVE  IsFiniteSet(Waiting(B, Q)) /\ Cardinality(Waiting(B, Q)) \in Nat
<1>1. Waiting(B, Q) \in SUBSET Waiting(B, Answer)
    BY DEF Waiting
<1> QED
    BY <1>1, FS_Subset, FS_CardinalityType

\* A bag of n copies of x.
Copied(x, n) == [y \in {x} |-> n]

LEMMA CopiesDelivered ==
    ASSUME NEW B, IsABag(B), NEW x, NEW n \in 1..2, NEW Q, IsFiniteSet(Waiting(B, Q))
    PROVE  LET C == B (+) Copied(x, n)
           IN  /\ IsABag(C) /\ BagToSet(C) = BagToSet(B) \cup {x}
               /\ IsFiniteSet(Waiting(C, Q))
               /\ Cardinality(Waiting(C, Q)) =
                     Cardinality(Waiting(B, Q)) + (IF x[2] \in Q THEN n ELSE 0)
<1> DEFINE few == Copied(x, n)
           C == B (+) few
           L == IF x \in DOMAIN B THEN B[x] ELSE 0
<1>1. DOMAIN few = {x} /\ few[x] = n
    BY DEF Copied
<1> HIDE DEF few
<1>2. C = [e \in DOMAIN B \cup {x} |-> (IF e \in DOMAIN B THEN B[e] ELSE 0)
                                        + (IF e \in {x} THEN n ELSE 0)]
    BY <1>1 DEF (+)
<1>3. L \in Nat /\ \A e \in DOMAIN B : B[e] \in Nat /\ B[e] > 0
    BY BagCount
<1>4. /\ DOMAIN C = DOMAIN B \cup {x}
      /\ C[x] = L + n
      /\ \A e \in DOMAIN B : e # x => C[e] = B[e]
  <2>1. x \in DOMAIN B \cup {x}
      OBVIOUS
  <2>2. C[x] = L + n
      BY <1>2, <2>1
  <2>3. \A e \in DOMAIN B : e # x => C[e] = B[e]
      BY <1>2, <1>3
  <2> QED
      BY <1>2, <2>2, <2>3
<1> HIDE DEF C
<1>5. IsABag(C)
  <2>1. \A e \in DOMAIN C : C[e] \in Nat /\ C[e] > 0
      BY <1>3, <1>4
  <2>2. C = [e \in DOMAIN C |-> C[e]]
      BY <1>2, <1>4
  <2> QED
      BY <2>1, <2>2 DEF IsABag
<1>6. Waiting(C, Q) = Waiting(B, Q) \cup (IF x[2] \in Q THEN {<<x, L + k>> : k \in 1..n} ELSE {})
  <2> DEFINE new == IF x[2] \in Q THEN {<<x, L + k>> : k \in 1..n} ELSE {}
  <2>1. ASSUME NEW w \in Waiting(C, Q) PROVE w \in Waiting(B, Q) \cup new
    <3>1. PICK e \in DOMAIN C, m \in Nat : w = <<e, m>> /\ e[2] \in Q /\ m \in 1..C[e]
        BY DEF Waiting
    <3>2. CASE e = x /\ m > L
      <4>1. m = L + (m - L) /\ m - L \in 1..n /\ x[2] \in Q
          BY <1>3, <1>4, <3>1, <3>2
      <4> QED
          BY <3>1, <3>2, <4>1
    <3>3. CASE e = x /\ ~ m > L
      <4>1. x \in DOMAIN B /\ m \in 1..B[x]
          BY <1>3, <3>1, <3>3
      <4> QED
          BY <3>1, <3>3, <4>1 DEF Waiting
    <3>4. CASE e # x
        BY <1>4, <3>1, <3>4 DEF Waiting
    <3> QED
        BY <3>2, <3>3, <3>4
  <2>2. ASSUME NEW w \in Waiting(B, Q) PROVE w \in Waiting(C, Q)
    <3>1. PICK e \in DOMAIN B, m \in Nat : w = <<e, m>> /\ e[2] \in Q /\ m \in 1..B[e]
        BY DEF Waiting
    <3>2. e \in DOMAIN C /\ m \in 1..C[e]
        BY <1>3, <1>4, <3>1
    <3> QED
        BY <3>1, <3>2 DEF Waiting
  <2>3. ASSUME x[2] \in Q, NEW k \in 1..n PROVE <<x, L + k>> \in Waiting(C, Q)
    <3>1. L + k \in Nat /\ L + k \in 1..C[x]
        BY <1>3, <1>4
    <3> QED
        BY <1>4, <2>3, <3>1 DEF Waiting
  <2> QED
      BY <2>1, <2>2, <2>3
<1>7. \A k \in 1..n : <<x, L + k>> \notin Waiting(B, Q)
    BY <1>3 DEF Waiting
<1> HIDE DEF L
<1>8. x[2] \in Q => /\ IsFiniteSet(Waiting(C, Q))
                   /\ Cardinality(Waiting(C, Q)) = Cardinality(Waiting(B, Q)) + n
  <2>1. n \in 0..2 /\ (x[2] \in Q => Waiting(C, Q) = Waiting(B, Q) \cup {<<x, L + k>> : k \in 1..n})
      BY <1>6
  <2> DEFINE V == Waiting(B, Q)
             W == Waiting(C, Q)
             f == [k \in 1..n |-> <<x, L + k>>]
  <2>2. ASSUME x[2] \in Q
        PROVE  /\ V \subseteq W /\ f \in [1..n -> W \ V]
               /\ \A k, m \in 1..n : f[k] = f[m] => k = m
               /\ \A t \in W \ V : \E k \in 1..n : f[k] = t
    <3>1. W = V \cup {<<x, L + k>> : k \in 1..n}
        BY <2>1, <2>2
    <3>2. \A k \in 1..n : <<x, L + k>> \in W \ V
        BY <1>7, <3>1
    <3>3. \A k, m \in 1..n : L + k = L + m => k = m
        BY <1>3
    <3> QED
        BY <3>1, <3>2, <3>3
  <2> HIDE DEF V, W, f
  <2>3. x[2] \in Q => IsFiniteSet(W) /\ Cardinality(W) = Cardinality(V) + n
      BY <2>2, CopiesAdded DEF V
  <2> QED
      BY <2>3 DEF V, W
<1>9. Cardinality(Waiting(B, Q)) + 0 = Cardinality(Waiting(B, Q))
    BY FS_CardinalityType
<1>10. IsFiniteSet(Waiting(C, Q)) /\ Cardinality(Waiting(C, Q)) =
                                       Cardinality(Waiting(B, Q)) + (IF x[2] \in Q THEN n ELSE 0)
  <2>1. CASE x[2] \in Q
      BY <1>6, <1>8, <2>1
  <2>2. CASE x[2] \notin Q
      BY <1>6, <1>9, <2>2
  <2> QED
      BY <2>1, <2>2
<1> QED
    BY <1>4, <1>5, <1>10 DEF BagToSet, C, few

LEMMA OneReceived ==
    ASSUME NEW B, IsABag(B), NEW x \in BagToSet(B), NEW Q, IsFiniteSet(Waiting(B, Q))
    PROVE  LET C == B (-) SetToBag({x})
           IN  /\ IsABag(C) /\ BagToSet(C) \subseteq BagToSet(B)
               /\ IsFiniteSet(Waiting(C, Q))
               /\ Cardinality(Waiting(C, Q)) =
                     Cardinality(Waiting(B, Q)) - (IF x[2] \in Q THEN 1 ELSE 0)
<1> DEFINE one == SetToBag({x})
           D == [e \in DOMAIN B |-> IF e \in DOMAIN one THEN B[e] - one[e] ELSE B[e]]
           C == B (-) one
<1>1. DOMAIN one = {x} /\ one[x] = 1 /\ x \in DOMAIN B
    BY DEF SetToBag, BagToSet
<1>2. \A e \in DOMAIN B : B[e] \in Nat /\ B[e] > 0
    BY BagCount
<1>3. C = [e \in {d \in DOMAIN D : D[d] > 0} |-> D[e]]
    BY DEF (-)
<1> HIDE DEF C, one
<1>4. /\ DOMAIN D = DOMAIN B /\ D[x] = B[x] - 1
      /\ \A e \in DOMAIN B : e # x => D[e] = B[e]
    BY <1>1
<1> HIDE DEF D
<1>5. DOMAIN C = {d \in DOMAIN B : D[d] > 0} /\ \A e \in DOMAIN C : C[e] = D[e]
    BY <1>3, <1>4
<1>6. IsABag(C)
  <2>1. \A e \in DOMAIN C : C[e] \in Nat /\ C[e] > 0
      BY <1>2, <1>4, <1>5
  <2>2. C = [e \in DOMAIN C |-> C[e]]
      BY <1>3, <1>5
  <2> QED
      BY <2>1, <2>2 DEF IsABag
<1>7. Waiting(C, Q) = Waiting(B, Q) \ {<<x, B[x]>>}
  <2>1. ASSUME NEW e \in DOMAIN B, NEW m \in Nat
        PROVE  e \in DOMAIN C /\ m \in 1..C[e] <=> m \in 1..B[e] /\ ~ (e = x /\ m = B[x])
    <3>1. CASE e = x
        BY <1>2, <1>4, <1>5, <3>1
    <3>2. CASE e # x
        BY <1>2, <1>4, <1>5, <3>2
    <3> QED
        BY <3>1, <3>2
  <2>2. DOMAIN C \subseteq DOMAIN B
      BY <1>5
  <2>3. ASSUME NEW w \in Waiting(C, Q) PROVE w \in Waiting(B, Q) /\ w # <<x, B[x]>>
    <3>1. PICK e \in DOMAIN C, m \in Nat : w = <<e, m>> /\ e[2] \in Q /\ m \in 1..C[e]
        BY DEF Waiting
    <3> QED
        BY <2>1, <2>2, <3>1 DEF Waiting
  <2>4. ASSUME NEW w \in Waiting(B, Q), w # <<x, B[x]>> PROVE w \in Waiting(C, Q)
    <3>1. PICK e \in DOMAIN B, m \in Nat : w = <<e, m>> /\ e[2] \in Q /\ m \in 1..B[e]
        BY DEF Waiting
    <3> QED
        BY <2>1, <2>4, <3>1 DEF Waiting
  <2> QED
      BY <2>3, <2>4
<1>8. <<x, B[x]>> \in Waiting(B, Q) <=> x[2] \in Q
    BY <1>1, <1>2 DEF Waiting
<1>9. /\ IsFiniteSet(Waiting(C, Q))
      /\ Cardinality(Waiting(C, Q)) = IF x[2] \in Q THEN Cardinality(Waiting(B, Q)) - 1
                                                    ELSE Cardinality(Waiting(B, Q))
    BY <1>7, <1>8, FS_RemoveElement
<1>10. Cardinality(Waiting(B, Q)) \in Nat
    BY FS_CardinalityType
<1>11. Cardinality(Waiting(C, Q)) = Cardinality(Waiting(B, Q)) - (IF x[2] \in Q THEN 1 ELSE 0)
    BY <1>9, <1>10
<1> QED
    BY <1>5, <1>6, <1>9, <1>11 DEF BagToSet, C, one

LEMMA SomeWaiting ==
    ASSUME NEW B, IsABag(B), NEW x \in BagToSet(B), NEW Q, x[2] \in Q, IsFiniteSet(Waiting(B, Q))
    PROVE  Cardinality(Waiting(B, Q)) \in Nat /\ Cardinality(Waiting(B, Q)) >= 1
<1>1. <<x, 1>> \in Waiting(B, Q)
    BY BagCount DEF Waiting, BagToSet
<1> QED
    BY <1>1, FS_CardinalityType, FS_EmptySet

----------------------------------------------------------------------------

(***************************************************************************)
(* What the lemmas about hash tables and votes say of those used here.     *)
(***************************************************************************)
LEMMA StoreTables ==
    /\ Store!construct_Htable \in Store!Table
    /\ \A t \in Store!Table, k \in Key :
          /\ Store!get_Htable_value(t, k) \subseteq Value
          /\ \A v \in Value : Store!add_Htable_value(t, k, v) \in Store!Table
<1>1. StoreLemmas!BucketsAssumption
    BY DhtAssumption DEF Store!BucketsAssumption, StoreLemmas!BucketsAssumption
<1>2. StoreLemmas!Table = Store!Table /\ StoreLemmas!construct_Htable = Store!construct_Htable
    BY DEF StoreLemmas!Table, Store!Table, StoreLemmas!kv_pair_t, Store!kv_pair_t,
           StoreLemmas!construct_Htable, Store!construct_Htable
<1>3. ASSUME NEW t, NEW k, NEW v
      PROVE  /\ StoreLemmas!add_Htable_value(t, k, v) = Store!add_Htable_value(t, k, v)
             /\ StoreLemmas!get_Htable_value(t, k) = Store!get_Htable_value(t, k)
    BY DEF StoreLemmas!add_Htable_value, Store!add_Htable_value, StoreLemmas!get_Htable_value,
           Store!get_Htable_value, StoreLemmas!FirstMatch, Store!FirstMatch,
           StoreLemmas!Matches, Store!Matches, StoreLemmas!kv_pair, Store!kv_pair
<1>4. Store!construct_Htable \in Store!Table
    BY <1>1, <1>2, StoreLemmas!EmptyTable
<1>5. ASSUME NEW t \in Store!Table, NEW k \in Key
      PROVE  Store!get_Htable_value(t, k) \subseteq Value
    BY SMTT(30), <1>1, <1>2, <1>3, <1>5, StoreLemmas!FoundOne
<1>6. ASSUME NEW t \in Store!Table, NEW k \in Key, NEW v \in Value
      PROVE  Store!add_Htable_value(t, k, v) \in Store!Table
    BY <1>1, <1>2, <1>3, <1>6, StoreLemmas!AddEffect
<1> QED
    BY <1>4, <1>5, <1>6

(***************************************************************************)
(* What increment_and_test makes of a response, or what is left of that    *)
(* when memory fails.                                                      *)
(***************************************************************************)
Outcomes(t, r, R) ==
    {Votes!increment_and_test(t, r, R), Votes!uncopied(t, r, R)} \cup Votes!unstored(t, r, R)

LEMMA VoteTables ==
    /\ VoteLemmas!BucketsAssumption /\ VoteLemmas!VotesAssumption
    /\ VoteLemmas!Table = Votes!Table
    /\ VoteLemmas!construct_Htable = Votes!construct_Htable
    /\ \A t, r, R :
          /\ VoteLemmas!increment_and_test(t, r, R) = Votes!increment_and_test(t, r, R)
          /\ VoteLemmas!first_vote(t, r, R) = Votes!first_vote(t, r, R)
          /\ VoteLemmas!Outcomes(t, r, R) = Outcomes(t, r, R)
<1>1. VoteLemmas!BucketsAssumption
    BY DhtAssumption DEF Votes!BucketsAssumption, VoteLemmas!BucketsAssumption
<1>2. VoteLemmas!VotesAssumption
    BY DhtAssumption DEF Votes!VotesAssumption, VoteLemmas!VotesAssumption
<1>3. VoteLemmas!Table = Votes!Table /\ VoteLemmas!construct_Htable = Votes!construct_Htable
    BY DEF VoteLemmas!Table, Votes!Table, VoteLemmas!kv_pair_t, Votes!kv_pair_t,
           VoteLemmas!construct_Htable, Votes!construct_Htable
<1>4. ASSUME NEW t, NEW r, NEW c
      PROVE  /\ VoteLemmas!add_Htable_value(t, r, c) = Votes!add_Htable_value(t, r, c)
             /\ VoteLemmas!get_Htable_value(t, r) = Votes!get_Htable_value(t, r)
    BY DEF VoteLemmas!add_Htable_value, Votes!add_Htable_value, VoteLemmas!get_Htable_value,
           Votes!get_Htable_value, VoteLemmas!FirstMatch, Votes!FirstMatch,
           VoteLemmas!Matches, Votes!Matches, VoteLemmas!kv_pair, Votes!kv_pair
<1>5. ASSUME NEW n
      PROVE  VoteLemmas!as_char(n) = Votes!as_char(n) /\ VoteLemmas!as_size(n) = Votes!as_size(n)
    BY DEF VoteLemmas!as_char, Votes!as_char, VoteLemmas!as_size, Votes!as_size
<1>6. ASSUME NEW t, NEW r, NEW R
      PROVE  /\ VoteLemmas!increment_and_test(t, r, R) = Votes!increment_and_test(t, r, R)
             /\ VoteLemmas!first_vote(t, r, R) = Votes!first_vote(t, r, R)
    BY <1>4, <1>5 DEF VoteLemmas!increment_and_test, Votes!increment_and_test,
           VoteLemmas!first_vote, Votes!first_vote, VoteLemmas!another_vote, Votes!another_vote
<1>7. ASSUME NEW t, NEW r, NEW R
      PROVE  VoteLemmas!Outcomes(t, r, R) = Outcomes(t, r, R)
    BY <1>6 DEF VoteLemmas!Outcomes, Outcomes, VoteLemmas!uncopied, Votes!uncopied,
           VoteLemmas!unstored, Votes!unstored
<1> QED
    BY <1>1, <1>2, <1>3, <1>6, <1>7

LEMMA NoVotes ==
    /\ Votes!construct_Htable \in Votes!Table
    /\ \A s : VoteLemmas!Backed(Votes!construct_Htable, s)
    /\ VoteLemmas!AllOnes(Votes!construct_Htable)
<1>1. Votes!construct_Htable = [b \in VoteBucket |-> <<>>]
    BY DEF Votes!construct_Htable
<1>2. Votes!construct_Htable \in Votes!Table
    BY VoteTables, VoteLemmas!EmptyTable
<1>3. \A b \in VoteBucket : DOMAIN Votes!construct_Htable[b] = {}
    BY <1>1
<1> QED
    BY <1>2, <1>3 DEF VoteLemmas!Backed, VoteLemmas!AllOnes

LEMMA MoreBacked ==
    ASSUME NEW t \in Votes!Table, NEW s \in [Answer -> Nat], NEW u \in [Answer -> Nat],
           VoteLemmas!Backed(t, s), \A q \in Answer : s[q] <= u[q]
    PROVE  VoteLemmas!Backed(t, u)
BY VoteTables, VoteLemmas!BackedGrows

LEMMA VoteMade ==
    ASSUME NEW t \in Votes!Table, NEW s \in [Answer -> Nat], NEW r \in Answer, NEW R \in Nat,
           VoteLemmas!Backed(t, s), R = 0 => VoteLemmas!AllOnes(t),
           NEW vote \in Outcomes(t, r, R)
    PROVE  LET more == VoteLemmas!Raised(s, r)
           IN  /\ vote.votes \in Votes!Table /\ VoteLemmas!Backed(vote.votes, more)
               /\ R = 0 /\ ~ vote.enough => VoteLemmas!AllOnes(vote.votes)
               /\ vote.enough /\ R <= CharHalf + 1 =>
                     \E q \in Answer : /\ <<r, q>> \in VotePrefix
                                       /\ more[q] >= IF R > 0 THEN R ELSE 2
<1> DEFINE more == VoteLemmas!Raised(s, r)
<1>1. /\ vote.votes \in Votes!Table /\ VoteLemmas!Backed(vote.votes, more)
      /\ vote.enough /\ R <= CharHalf + 1 => \E q \in Answer : <<r, q>> \in VotePrefix /\ more[q] >= R
    BY VoteTables, VoteLemmas!OutcomeCounted
<1>2. R = 0 => /\ ~ vote.enough => VoteLemmas!AllOnes(vote.votes)
               /\ vote.enough => \E q \in Answer : <<r, q>> \in VotePrefix /\ more[q] >= 2
    BY VoteTables, VoteLemmas!OutcomeOnes
<1> HIDE DEF more
<1>3. vote.enough /\ R <= CharHalf + 1 =>
         \E q \in Answer : <<r, q>> \in VotePrefix /\ more[q] >= IF R > 0 THEN R ELSE 2
  <2>1. CASE R = 0
      BY <1>2, <2>1
  <2>2. CASE R # 0
    <3>1. R > 0
        BY <2>2
    <3> QED
        BY <1>1, <3>1
  <2> QED
      BY <2>1, <2>2
<1>4. R = 0 /\ ~ vote.enough => VoteLemmas!AllOnes(vote.votes)
    BY <1>2
<1> QED
    BY <1>1, <1>3, <1>4 DEF more

LEMMA RaisedSlack ==
    ASSUME NEW s \in [Answer -> Nat], NEW r \in Answer
    PROVE  /\ VoteLemmas!Raised(s, r) \in [Answer -> Nat]
           /\ \A q \in Answer :
                 VoteLemmas!Raised(s, r)[q] = IF <<r, q>> \in VotePrefix THEN s[q] + 1 ELSE s[q]
BY DEF VoteLemmas!Raised

----------------------------------------------------------------------------

(***************************************************************************)
(* The calls of the program.                                               *)
(***************************************************************************)
LEMMA CallFacts ==
    ASSUME ProgramOK, NEW o \in DOMAIN program
    PROVE  /\ program[o] \in Calls /\ Quorum(o) \in Nat
           /\ program[o].key \in Key /\ program[o].value \in Value
           /\ servers_to_contact(o) \in Seq(Server)
           /\ N(o) \in Nat /\ N(o) = program[o].N
           /\ \A m \in 1..N(o) : servers_to_contact(o)[m] \in Server
           /\ \A m, n \in 1..N(o) :
                 m # n => servers_to_contact(o)[m] # servers_to_contact(o)[n]
<1> DEFINE walk == Contact[program[o].key]
           n == program[o].N
<1>1. /\ program[o] \in Calls /\ program[o].key \in Key /\ program[o].value \in Value
      /\ n \in Nat /\ n <= Len(walk)
    BY DEF ProgramOK, Calls
<1>2. Quorum(o) \in Nat
    BY <1>1 DEF Quorum, Calls
<1>3. walk \in Seq(Server) /\ \A i, j \in 1..Len(walk) : i # j => walk[i] # walk[j]
    BY <1>1, DhtAssumption
<1>4. servers_to_contact(o) = SubSeq(walk, 1, n)
    BY DEF servers_to_contact
<1> HIDE DEF walk, n
<1>5. /\ SubSeq(walk, 1, n) \in Seq(Server) /\ Len(SubSeq(walk, 1, n)) = n
      /\ \A m \in 1..n : SubSeq(walk, 1, n)[m] = walk[m]
    BY <1>1, <1>3
<1>6. N(o) = n
    BY <1>4, <1>5 DEF N
<1>7. \A m \in 1..n : m \in 1..Len(walk)
    BY <1>1, <1>3
<1>8. \A m \in 1..n : walk[m] \in Server
    BY <1>3, <1>7
<1> QED
    BY <1>1, <1>2, <1>3, <1>4, <1>5, <1>6, <1>7, <1>8 DEF n

LEMMA Kinds ==
    ASSUME NEW o \in DOMAIN program
    PROVE  /\ o \in Puts <=> IsPut(o)
           /\ o \in Gets <=> ~ IsPut(o)
           /\ RequestKind(o) \in {"write", "dump"} <=> IsPut(o)
           /\ RequestKind(o) \in {"read", "ping"} <=> ~ IsPut(o)
           /\ RequestKind(o) \in {"write", "dump", "read", "ping"}
BY DEF Puts, Gets, RequestKind

\* What a step keeps of the calls.
SameCalls ==
    /\ DOMAIN program' = DOMAIN program
    /\ \A o \in DOMAIN program :
          /\ IsPut(o)' <=> IsPut(o)
          /\ Quorum(o)' = Quorum(o) /\ servers_to_contact(o)' = servers_to_contact(o)

LEMMA SameProgram == ASSUME program' = program PROVE SameCalls
BY DEF SameCalls, IsPut, Quorum, servers_to_contact

LEMMA SameNeeds ==
    ASSUME SameCalls
    PROVE  /\ Gets' = Gets /\ Puts' = Puts
           /\ \A o \in DOMAIN program : N(o)' = N(o) /\ Needed(o)' = Needed(o)
<1>1. Gets' = Gets /\ Puts' = Puts
    BY DEF SameCalls, Gets, Puts
<1>2. \A o \in DOMAIN program : N(o)' = N(o) /\ Needed(o)' = Needed(o)
    BY DEF SameCalls, N, Needed
<1> QED
    BY <1>1, <1>2

----------------------------------------------------------------------------

(***************************************************************************)
(* What a server does with its request at place j: n copies of answer x    *)
(* arrive, or would if the call were open.                                 *)
(***************************************************************************)
ServedAs(s, j, n, x) ==
    LET p == inbox[s][j]
    IN  /\ inbox' = Without(inbox, s, j) /\ call' = call
        /\ socket' = IF n > 0 /\ Open(p)
                     THEN [socket EXCEPT ![p] = @ (+) Copied(<<s, x>>, n)] ELSE socket
        /\ answered' = IF n > 0 /\ Open(p) /\ p \in Gets
                       THEN [answered EXCEPT ![p] = @ \cup {<<s, x>>}] ELSE answered
        /\ dups' = IF n = 2 THEN dups + 1 ELSE dups
        /\ \/ applied' = applied
           \/ IsPut(p) /\ applied' = [applied EXCEPT ![s] = @ \cup {p}]
        /\ ~ IsPut(p) => x \in Value
        /\ IsPut(p) /\ n > 0 /\ x = Empty => p \in applied'[s]
        /\ store' \in [Server -> Store!Table]

\* Who is blamed for an answer that does not come.
BlamedAs(s, j, n, x) ==
    LET p == inbox[s][j]
        blamed == [faulty EXCEPT ![p] = @ \cup {s}]
    IN  /\ faulty' = faulty \/ faulty' = blamed
        /\ RequestKind(p) = "write" => x = Empty /\ (n = 0 /\ Open(p) => faulty' = blamed)

LEMMA ServeForm ==
    ASSUME Types, NEW s \in Server, Serve(s)
    PROVE  \E j \in 1..Len(inbox[s]) : \E n \in 0..2 : \E x \in Answer :
              ServedAs(s, j, n, x) /\ BlamedAs(s, j, n, x)
<1>1. PICK j \in 1..Len(inbox[s]) :
         /\ inbox' = Without(inbox, s, j)
         /\ LET o == inbox[s][j]
            IN  Ping(o, s) \/ DumpNode(o, s) \/ Write(o, s) \/ Read(o, s) \/ NoMemory(o, s)
    BY DEF Serve, Without
<1>2. call' = call
    BY DEF Serve
<1> DEFINE p == inbox[s][j]
<1>3. p \in DOMAIN program
    BY DEF Types, RequestsOK
<1>4. /\ program[p].key \in Key /\ program[p].value \in Value
      /\ store \in [Server -> Store!Table] /\ applied \in [Server -> SUBSET DOMAIN program]
    BY <1>3, CallFacts DEF Types, ServersOK
<1> HIDE DEF p
<1>5. /\ Received \in [Answer -> Answer] /\ \A a \in Answer : Received[a] = Empty <=> a = Empty
      /\ \A v \in Value : v \in Answer /\ Received[v] \in Value
      /\ Empty \in Value /\ Dump \in Answer /\ Dump # Empty
    BY DhtAssumption DEF Answer
\* An answer a, of which some copies arrive.
<1>6. ASSUME NEW a \in Answer, Reply(p, s, a),
             applied' = applied \/ (IsPut(p) /\ applied' = [applied EXCEPT ![s] = @ \cup {p}]),
             ~ IsPut(p) => a \in Value, IsPut(p) /\ a = Empty => p \in applied'[s],
             store' \in [Server -> Store!Table], RequestKind(p) = "write" => a = Empty
      PROVE  \E n \in 0..2 : \E x \in Answer : ServedAs(s, j, n, x) /\ BlamedAs(s, j, n, x)
  <2>1. PICK n \in 0..2 :
           /\ socket' = IF n > 0 /\ Open(p)
                        THEN [socket EXCEPT ![p] = @ (+) Copied(<<s, Received[a]>>, n)]
                        ELSE socket
           /\ answered' = IF n > 0 /\ Open(p) /\ p \in Gets
                          THEN [answered EXCEPT ![p] = @ \cup {<<s, Received[a]>>}]
                          ELSE answered
           /\ dups' = IF n = 2 THEN dups + 1 ELSE dups
           /\ BlameLoss(p, s, n)
    <3>1. Copies \subseteq 0..2
        BY DEF Copies
    <3> QED
        BY <1>6, <3>1 DEF Reply, Count, Copied
  <2>2. /\ Received[a] \in Answer /\ (~ IsPut(p) => Received[a] \in Value)
        /\ Received[a] = Empty <=> a = Empty
      BY <1>5, <1>6
  <2>3. ServedAs(s, j, n, Received[a])
      BY <1>1, <1>2, <1>6, <2>1, <2>2 DEF ServedAs, p
  <2>4. BlamedAs(s, j, n, Received[a])
    <3>1. RequestKind(p) = "write" => IsPut(p)
        BY DEF RequestKind
    <3>2. RequestKind(p) = "write" => Received[a] = Empty
        BY <1>6, <2>2
    <3>3. BlameLoss(p, s, n)
        BY <2>1
    <3> QED
        BY <3>1, <3>2, <3>3 DEF BlamedAs, BlameLoss, Blame, p
  <2> QED
      BY <2>2, <2>3, <2>4
\* No answer.
<1>7. ASSUME UNCHANGED <<store, socket, applied, answered, dups>>,
             (UNCHANGED faulty /\ RequestKind(p) # "write") \/ Blame(p, s)
      PROVE  \E n \in 0..2 : \E x \in Answer : ServedAs(s, j, n, x) /\ BlamedAs(s, j, n, x)
  <2>1. ServedAs(s, j, 0, Empty)
      BY <1>1, <1>2, <1>4, <1>5, <1>7 DEF ServedAs, p
  <2>2. BlamedAs(s, j, 0, Empty)
    <3>1. RequestKind(p) = "write" => IsPut(p)
        BY DEF RequestKind
    <3> QED
        BY <1>7, <3>1 DEF BlamedAs, Blame, p
  <2> QED
      BY <1>5, <2>1, <2>2
<1>8. CASE Ping(p, s)
    BY <1>3, <1>4, <1>5, <1>6, <1>8, Kinds DEF Ping
<1>9. CASE DumpNode(p, s)
  <2>1. CASE Store!get_kv_pair(store[s]) = {}
      BY <1>7, <1>9, <2>1 DEF DumpNode, Silence
  <2>2. CASE Store!get_kv_pair(store[s]) # {}
    <3>1. /\ Reply(p, s, Dump) /\ applied' = applied /\ store' = store
          /\ IsPut(p) /\ RequestKind(p) # "write"
        BY <1>3, <1>9, <2>2, Kinds DEF DumpNode
    <3> QED
        BY <1>4, <1>5, <1>6, <3>1
  <2> QED
      BY <2>1, <2>2
<1>10. CASE Write(p, s)
  <2>1. IsPut(p) /\ Reply(p, s, Empty) /\ applied' = [applied EXCEPT ![s] = @ \cup {p}]
      BY <1>3, <1>10, Kinds DEF Write
  <2>2. p \in applied'[s]
      BY <1>4, <2>1
  <2>3. PICK v \in StoredAs[<<program[p].key, program[p].value>>] :
           store' = [store EXCEPT ![s] = Store!add_Htable_value(@, program[p].key, v)]
      BY <1>10 DEF Write
  <2>4. v \in Value
      BY <1>4, DhtAssumption
  <2>5. Store!add_Htable_value(store[s], program[p].key, v) \in Store!Table
      BY <1>4, <2>4, StoreTables
  <2>6. store' \in [Server -> Store!Table]
      BY <1>4, <2>3, <2>5
  <2> QED
      BY <1>5, <1>6, <2>1, <2>2, <2>6
<1>11. CASE Read(p, s)
  <2> DEFINE found == Store!get_Htable_value(store[s], program[p].key)
  <2>1. found \subseteq Value
      BY <1>4, StoreTables
  <2>2. RequestKind(p) = "read" /\ applied' = applied /\ store' = store
        /\ IF found = {} THEN Silence ELSE \E v \in found : Reply(p, s, v)
      BY <1>11 DEF Read
  <2> HIDE DEF found
  <2>3. ~ IsPut(p)
      BY <1>3, <2>2, Kinds
  <2>4. CASE found = {}
      BY <1>7, <2>2, <2>4 DEF Silence
  <2>5. CASE found # {}
    <3>1. PICK v \in found : Reply(p, s, v)
        BY <2>2, <2>5
    <3> QED
        BY <1>4, <1>5, <1>6, <2>1, <2>2, <2>3, <3>1
  <2> QED
      BY <2>4, <2>5
<1>12. CASE NoMemory(p, s)
    BY <1>7, <1>12 DEF NoMemory
<1>13. Ping(p, s) \/ DumpNode(p, s) \/ Write(p, s) \/ Read(p, s) \/ NoMemory(p, s)
    BY <1>1 DEF p
<1> QED
    BY <1>8, <1>9, <1>10, <1>11, <1>12, <1>13

----------------------------------------------------------------------------

(***************************************************************************)
(* Types.                                                                  *)
(***************************************************************************)
LEMMA CallTyped ==
    ASSUME CallsOK, NEW o \in DOMAIN program
    PROVE  /\ call[o] \in CallRecord /\ CallOK(o, call[o], socket[o])
           /\ IsABag(socket[o]) /\ BagToSet(socket[o]) \subseteq Server \X Answer
           /\ \A Q \in SUBSET Answer : /\ IsFiniteSet(Waiting(socket[o], Q))
                                       /\ Cardinality(Waiting(socket[o], Q)) \in Nat
<1>1. call[o] \in CallRecord /\ CallOK(o, call[o], socket[o])
    BY DEF CallsOK
<1>2. /\ IsABag(socket[o]) /\ BagToSet(socket[o]) \subseteq Server \X Answer
      /\ IsFiniteSet(Waiting(socket[o], Answer))
    BY <1>1 DEF CallOK
<1> QED
    BY <1>1, <1>2, FewerWaiting

LEMMA ServedTypes ==
    ASSUME Types, NEW s \in Server, NEW j \in 1..Len(inbox[s]), NEW n \in 0..2, NEW x \in Answer,
           ServedAs(s, j, n, x), program' = program
    PROVE  CallsOK' /\ RequestsOK' /\ ServersOK'
<1> DEFINE p == inbox[s][j]
<1>1. p \in DOMAIN program /\ inbox \in Boxes(DOMAIN program)
    BY DEF Types, RequestsOK, Boxes
<1>2. SameCalls /\ DOMAIN program' = DOMAIN program
    BY SameProgram
<1>3. /\ Gets' = Gets
      /\ \A o \in DOMAIN program : N(o)' = N(o) /\ (IsPut(o)' <=> IsPut(o))
    BY <1>2, SameNeeds DEF SameCalls
<1>4. RequestsOK'
  <2> DEFINE rest == Without(inbox, s, j)
  <2>1. rest \in Boxes(DOMAIN program) /\ \A o \in DOMAIN program : IsFiniteSet(Requests(rest, o))
      BY <1>1, Handled DEF Types, RequestsOK
  <2>2. inbox' = rest
      BY DEF ServedAs
  <2> HIDE DEF rest
  <2> QED
      BY <1>2, <2>1, <2>2 DEF RequestsOK, Boxes
<1>5. call' = call /\ call \in [DOMAIN program -> CallRecord] /\ DOMAIN socket = DOMAIN program
    BY DEF ServedAs, Types, CallsOK
<1>6. ASSUME NEW o \in DOMAIN program PROVE CallOK(o, call[o], socket[o])'
  <2>1. CallOK(o, call[o], socket[o])
      BY CallTyped DEF Types
  <2>2. CASE socket'[o] = socket[o]
      BY <1>3, <1>5, <2>1, <2>2 DEF CallOK
  <2>3. CASE socket'[o] # socket[o]
    <3> DEFINE C == socket[o] (+) Copied(<<s, x>>, n)
    <3>1. o = p /\ n \in 1..2 /\ Open(p) /\ socket'[o] = C /\ (~ IsPut(p) => x \in Value)
      <4>1. socket' = IF n > 0 /\ Open(p) THEN [socket EXCEPT ![p] = @ (+) Copied(<<s, x>>, n)] ELSE socket
          BY DEF ServedAs
      <4> QED
          BY <1>5, <2>3, <4>1 DEF ServedAs
    <3>2. /\ IsABag(socket[o]) /\ BagToSet(socket[o]) \subseteq Server \X Answer
          /\ IsFiniteSet(Waiting(socket[o], Answer))
          /\ ~ IsPut(o) => BagToSet(socket[o]) \subseteq Server \X Value
        BY <2>1 DEF CallOK
    <3>3. /\ IsABag(C) /\ BagToSet(C) = BagToSet(socket[o]) \cup {<<s, x>>}
          /\ IsFiniteSet(Waiting(C, Answer))
      <4>1. n \in 1..2
          BY <3>1
      <4>2. IsABag(socket[o]) /\ IsFiniteSet(Waiting(socket[o], Answer))
          BY <3>2
      <4> QED
          BY <4>1, <4>2, CopiesDelivered
    <3> HIDE DEF C
    <3> QED
        BY <1>3, <1>5, <2>1, <3>1, <3>2, <3>3 DEF CallOK, Open
  <2> QED
      BY <2>2, <2>3
<1>7. CallsOK'
  <2>1. DOMAIN socket' = DOMAIN program
      BY <1>5 DEF ServedAs
  <2> QED
      BY <1>2, <1>5, <1>6, <2>1 DEF CallsOK
<1>8. ServersOK'
  <2>1. /\ applied \in [Server -> SUBSET DOMAIN program] /\ answered \in [Gets -> SUBSET (Server \X Value)]
        /\ dups \in Nat
      BY DEF Types, ServersOK
  <2>2. /\ store' \in [Server -> Store!Table]
        /\ applied' = applied \/ applied' = [applied EXCEPT ![s] = @ \cup {p}]
        /\ answered' = answered \/ (p \in Gets /\ answered' = [answered EXCEPT ![p] = @ \cup {<<s, x>>}])
        /\ dups' = dups + 1 \/ dups' = dups
        /\ ~ IsPut(p) => x \in Value
      BY DEF ServedAs
  <2>3. applied' \in [Server -> SUBSET DOMAIN program]
    <3>1. applied[s] \cup {p} \in SUBSET DOMAIN program
        BY <1>1, <2>1
    <3> HIDE DEF p
    <3> QED
        BY <2>1, <2>2, <3>1
  <2>4. p \in Gets => ~ IsPut(p)
      BY <1>1, Kinds
  <2>5. answered' \in [Gets -> SUBSET (Server \X Value)]
      BY <2>1, <2>2, <2>4
  <2> QED
      BY <1>2, <1>3, <2>1, <2>2, <2>3, <2>5 DEF ServersOK
<1> QED
    BY <1>4, <1>7, <1>8

LEMMA RestartTypes ==
    ASSUME Types, NEW s \in Server, Restart(s), program' = program
    PROVE  CallsOK' /\ RequestsOK' /\ ServersOK'
<1>1. SameCalls /\ DOMAIN program' = DOMAIN program
    BY SameProgram
<1>2. /\ Gets' = Gets
      /\ \A o \in DOMAIN program : N(o)' = N(o) /\ (IsPut(o)' <=> IsPut(o))
    BY <1>1, SameNeeds DEF SameCalls
<1>3. /\ store' = [store EXCEPT ![s] = Store!construct_Htable]
      /\ inbox' = Emptied(inbox, s)
      /\ UNCHANGED <<socket, call, applied, answered, dups>>
    BY DEF Restart, Emptied
<1>4. RequestsOK'
  <2>1. inbox \in Boxes(DOMAIN program) /\ \A o \in DOMAIN program : IsFiniteSet(Requests(inbox, o))
      BY DEF Types, RequestsOK, Boxes
  <2> DEFINE rest == Emptied(inbox, s)
  <2>2. rest \in Boxes(DOMAIN program)
      BY <2>1 DEF Boxes, Emptied
  <2>3. \A o \in DOMAIN program : IsFiniteSet(Requests(rest, o))
      BY <2>1, Forgotten
  <2>4. inbox' = rest
      BY <1>3
  <2> HIDE DEF rest
  <2> QED
      BY <1>1, <2>2, <2>4, <2>3 DEF RequestsOK, Boxes
<1>5. CallsOK'
    BY <1>1, <1>2, <1>3 DEF Types, CallsOK, CallOK
<1>6. ServersOK'
    BY <1>1, <1>2, <1>3, StoreTables DEF Types, ServersOK
<1> QED
    BY <1>4, <1>5, <1>6

\* The locals and the socket of one call change.
LEMMA BecameTypes ==
    ASSUME Types, program' = program, NEW p \in DOMAIN program, NEW l \in CallRecord, NEW w,
           call' = [call EXCEPT ![p] = l], socket' = [socket EXCEPT ![p] = w],
           IF l.pc \in {"send", "receive"}
           THEN /\ l.i < N(p) /\ IsABag(w) /\ BagToSet(w) \subseteq BagToSet(socket[p])
                /\ IsFiniteSet(Waiting(w, Answer))
           ELSE w = EmptyBag,
           ~ IsPut(p) => l.value \subseteq Value /\ (l.pc = "ok" => l.value # {})
    PROVE  CallsOK'
<1>1. SameCalls /\ DOMAIN program' = DOMAIN program
    BY SameProgram
<1>2. \A o \in DOMAIN program : N(o)' = N(o) /\ (IsPut(o)' <=> IsPut(o))
    BY <1>1, SameNeeds DEF SameCalls
<1>3. call \in [DOMAIN program -> CallRecord] /\ DOMAIN socket = DOMAIN program
    BY DEF Types, CallsOK
<1>4. call' \in [DOMAIN program -> CallRecord] /\ DOMAIN socket' = DOMAIN program
    BY <1>3
<1>5. ASSUME NEW o \in DOMAIN program, o # p PROVE CallOK(o, call[o], socket[o])'
  <2>1. call'[o] = call[o] /\ socket'[o] = socket[o] /\ CallOK(o, call[o], socket[o])
      BY <1>3, <1>5, CallTyped DEF Types
  <2> QED
      BY <1>2, <2>1 DEF CallOK
<1>6. CallOK(p, call[p], socket[p])'
  <2>1. call'[p] = l /\ socket'[p] = w
      BY <1>3
  <2>2. /\ BagToSet(socket[p]) \subseteq Server \X Answer
        /\ ~ IsPut(p) => BagToSet(socket[p]) \subseteq Server \X Value
      BY CallTyped DEF Types, CallOK
  <2>3. /\ IsABag(w) /\ BagToSet(w) \subseteq BagToSet(socket[p])
        /\ IsFiniteSet(Waiting(w, Answer))
      BY NoneWaiting, FS_EmptySet
  <2> QED
      BY <1>2, <2>1, <2>2, <2>3 DEF CallOK
<1> QED
    BY <1>1, <1>4, <1>5, <1>6 DEF CallsOK

LEMMA Locals ==
    /\ NoCall \in CallRecord
    /\ NoCall.i = 0 /\ NoCall.nb_writes = 0 /\ NoCall.votes = Votes!construct_Htable
    /\ NoCall.value = {} /\ NoCall.pc = "new"
    /\ [NoCall EXCEPT !.pc = "send"] \in CallRecord
    /\ [NoCall EXCEPT !.pc = "send"].pc = "send" /\ [NoCall EXCEPT !.pc = "send"].i = 0
    /\ [NoCall EXCEPT !.pc = "send"].nb_writes = 0 /\ [NoCall EXCEPT !.pc = "send"].value = {}
    /\ [NoCall EXCEPT !.pc = "send"].votes = Votes!construct_Htable
<1>1. NoCall \in CallRecord
    BY NoVotes DEF NoCall, CallRecord
<1> QED
    BY <1>1, NoVotes DEF NoCall, CallRecord

LEMMA DoneLocals ==
    ASSUME NEW pc \in {"ok", "fail", "error", "killed"}, NEW v \in SUBSET Answer
    PROVE  Done(pc, v) \in CallRecord /\ Done(pc, v).pc = pc /\ Done(pc, v).value = v
BY NoVotes DEF Done, NoCall, CallRecord

LEMMA AttemptLocals ==
    ASSUME NEW o, N(o) \in Nat, NEW l \in CallRecord, l.pc = "receive", l.value \in SUBSET Answer
    PROVE  LET m == NextAttempt(o, l)
           IN  /\ m \in CallRecord
               /\ \/ /\ m.pc = "receive" /\ m.i < N(o)
                     /\ m.nb_writes = l.nb_writes /\ m.votes = l.votes /\ m.value = l.value
                  \/ m = Done("fail", {}) /\ m.pc = "fail" /\ m.value = {}
<1>1. CASE l.i + 1 < N(o)
  <2>1. NextAttempt(o, l) = [l EXCEPT !.i = @ + 1]
      BY <1>1 DEF NextAttempt
  <2> QED
      BY <1>1, <2>1 DEF CallRecord
<1>2. CASE ~ l.i + 1 < N(o)
  <2>1. NextAttempt(o, l) = Done("fail", {})
      BY <1>2 DEF NextAttempt
  <2> QED
      BY <2>1, DoneLocals
<1> QED
    BY <1>1, <1>2

----------------------------------------------------------------------------

(***************************************************************************)
(* The accounts.  A step is steady for call o when it leaves o, at least,  *)
(* what it may have counted.                                               *)
(***************************************************************************)
Account(o, Q) == IsPut(o) => Q = {Empty}

Steady(o) ==
    /\ dups <= dups' /\ Writers(o) \subseteq Writers(o)'
    /\ ~ IsPut(o) => answered[o] \subseteq answered'[o]
    /\ Touched(o)' \subseteq Touched(o)
    /\ Open(o) => \A Q \in SUBSET Answer : Account(o, Q) => Slack(o, Q) <= Slack(o, Q)'

LEMMA ServerSet ==
    ASSUME NEW G, G \subseteq Server
    PROVE  IsFiniteSet(G) /\ Cardinality(G) \in Nat
BY DhtAssumption, FS_Subset, FS_CardinalityType

LEMMA GiversTyped ==
    ASSUME NEW o, NEW Q
    PROVE  Givers(o, Q) \subseteq Server /\ Asked(inbox, o) \subseteq Server
BY DEF Givers, Writers, Asked

\* A set of servers that loses one server at most.
LEMMA OneLost ==
    ASSUME NEW G, G \subseteq Server, NEW H, H \subseteq Server, NEW s, G \subseteq H \cup {s}
    PROVE  /\ Cardinality(G) <= Cardinality(H) + 1
           /\ s \in H => Cardinality(G) <= Cardinality(H)
<1>1. IsFiniteSet(H) /\ Cardinality(H) \in Nat /\ Cardinality(G) \in Nat
    BY ServerSet
<1>2. IsFiniteSet(H \cup {s}) /\ Cardinality(H \cup {s}) = IF s \in H THEN Cardinality(H)
                                                           ELSE Cardinality(H) + 1
    BY <1>1, FS_AddElement
<1>3. Cardinality(G) <= Cardinality(H \cup {s})
    BY <1>2, FS_Subset
<1> QED
    BY <1>1, <1>2, <1>3

LEMMA ServedSteady ==
    ASSUME Types, NEW s \in Server, NEW j \in 1..Len(inbox[s]), NEW n \in 0..2, NEW x \in Answer,
           ServedAs(s, j, n, x), program' = program, NEW o \in DOMAIN program
    PROVE  Steady(o)
<1> DEFINE p == inbox[s][j]
<1>1. p \in DOMAIN program /\ inbox \in Boxes(DOMAIN program)
    BY DEF Types, RequestsOK, Boxes
<1>2. /\ IsPut(o)' <=> IsPut(o)
      /\ o \in Gets <=> ~ IsPut(o)
    BY SameProgram, Kinds DEF SameCalls
<1>3. /\ Asked(inbox', o) \subseteq Asked(inbox, o)
      /\ o = p => /\ Cardinality(Requests(inbox', o)) = Cardinality(Requests(inbox, o)) - 1
                  /\ Asked(inbox, o) \subseteq Asked(inbox', o) \cup {s}
      /\ o # p => /\ Cardinality(Requests(inbox', o)) = Cardinality(Requests(inbox, o))
                  /\ Asked(inbox, o) = Asked(inbox', o)
  <2>1. IsFiniteSet(Requests(inbox, o)) /\ inbox' = Without(inbox, s, j)
      BY DEF Types, RequestsOK, ServedAs
  <2> QED
      BY <1>1, <2>1, Handled
<1>4. o = p => s \in Asked(inbox, o)
    BY DEF Asked
<1>5. /\ applied \in [Server -> SUBSET DOMAIN program] /\ answered \in [Gets -> SUBSET (Server \X Value)]
      /\ dups \in Nat
      /\ applied' = applied \/ applied' = [applied EXCEPT ![s] = @ \cup {p}]
      /\ DOMAIN socket = DOMAIN program
    BY DEF Types, ServersOK, ServedAs, CallsOK
<1> HIDE DEF p
<1>6. /\ Writers(o) \subseteq Writers(o)'
      /\ Writers(o)' \subseteq Writers(o) \cup (IF o = p THEN {s} ELSE {})
    BY <1>5 DEF Writers
<1>7. ~ IsPut(o) => /\ answered[o] \subseteq answered'[o]
                    /\ answered'[o] \subseteq answered[o] \cup (IF o = p THEN {<<s, x>>} ELSE {})
    BY <1>2, <1>5 DEF ServedAs, p
<1>8. ASSUME NEW Q
      PROVE  /\ Givers(o, Q) \subseteq Givers(o, Q)'
             /\ Givers(o, Q)' \subseteq Givers(o, Q) \cup (IF o = p THEN {s} ELSE {})
    BY <1>2, <1>6, <1>7 DEF Givers
<1>9. Touched(o)' \subseteq Touched(o)
  <2>1. Touched(o)' = Givers(o, Answer)' \cup Asked(inbox', o)
      BY DEF Touched
  <2> QED
      BY <1>3, <1>4, <1>8, <2>1 DEF Touched
<1>10. dups <= dups'
    BY <1>5 DEF ServedAs
<1>11. ASSUME Open(o), NEW Q \in SUBSET Answer, Account(o, Q)
       PROVE  Slack(o, Q) <= Slack(o, Q)'
  <2> DEFINE G == Givers(o, Q) \cup Asked(inbox, o)
             H == Givers(o, Q)' \cup Asked(inbox', o)
             R == Cardinality(Requests(inbox, o))
             R1 == Cardinality(Requests(inbox', o))
             V == Cardinality(Waiting(socket[o], Q))
             V1 == Cardinality(Waiting(socket'[o], Q))
             hit == o = p /\ n > 0 /\ x \in Q
  <2>1. Slack(o, Q) = Cardinality(G) + dups - R - V
      BY DEF Slack
  <2>2. Slack(o, Q)' = Cardinality(H) + dups' - R1 - V1
      BY DEF Slack
  <2>3. Givers(o, Q)' \subseteq Server /\ Asked(inbox', o) \subseteq Server
      BY DEF Givers, Writers, Asked
  <2>4. G \subseteq Server /\ H \subseteq Server /\ Cardinality(G) \in Nat /\ Cardinality(H) \in Nat
      BY <2>3, GiversTyped, ServerSet
  <2>5. R \in Nat /\ V \in Nat
      BY CallTyped, FS_CardinalityType DEF Types, RequestsOK
  <2>6. V1 = V + (IF hit THEN n ELSE 0)
    <3>1. <<s, x>>[2] = x
        OBVIOUS
    <3>2. socket' = IF n > 0 /\ Open(p) THEN [socket EXCEPT ![p] = @ (+) Copied(<<s, x>>, n)]
                                        ELSE socket
        BY DEF ServedAs, p
    <3>3. IsABag(socket[o]) /\ IsFiniteSet(Waiting(socket[o], Q))
        BY CallTyped DEF Types
    <3>4. CASE o = p /\ n > 0
      <4>1. socket'[o] = socket[o] (+) Copied(<<s, x>>, n)
          BY <1>5, <1>11, <3>2, <3>4
      <4>2. n \in 1..2
          BY <3>4
      <4>3. PICK y : y = <<s, x>>
          OBVIOUS
      <4>4. Cardinality(Waiting(socket[o] (+) Copied(y, n), Q)) =
               Cardinality(Waiting(socket[o], Q)) + (IF y[2] \in Q THEN n ELSE 0)
          BY <3>3, <4>2, CopiesDelivered
      <4> QED
          BY <3>1, <3>4, <4>1, <4>3, <4>4
    <3>5. CASE ~ (o = p /\ n > 0)
      <4>1. socket'[o] = socket[o]
          BY <1>5, <3>2, <3>5
      <4> QED
          BY <2>5, <3>5, <4>1
    <3> QED
        BY <3>4, <3>5
  <2>7. hit => s \in H
    <3>1. CASE IsPut(o)
      <4>1. hit => x = Empty
          BY <1>11, <3>1 DEF Account
      <4>2. hit => o \in applied'[s]
          BY <3>1, <4>1 DEF ServedAs, p
      <4> QED
          BY <1>2, <3>1, <4>2 DEF Givers, Writers
    <3>2. CASE ~ IsPut(o)
      <4>1. hit => answered' = [answered EXCEPT ![o] = @ \cup {<<s, x>>}]
          BY <1>2, <1>11, <3>2 DEF ServedAs, p
      <4>2. hit => <<s, x>> \in answered'[o]
          BY <1>2, <1>5, <3>2, <4>1
      <4> QED
          BY <1>2, <3>2, <4>2 DEF Givers
    <3> QED
        BY <3>1, <3>2
  <2>8. dups' = dups + (IF n = 2 THEN 1 ELSE 0)
      BY <1>5 DEF ServedAs
  <2>9. CASE o = p
    <3>1. G \subseteq H \cup {s} /\ R1 = R - 1
        BY <1>3, <1>8, <2>9
    <3> HIDE DEF G, H, R, R1, V, V1
    <3>2. Cardinality(G) <= Cardinality(H) + (IF hit THEN 0 ELSE 1)
        BY <2>4, <2>7, <3>1, OneLost
    <3> HIDE DEF hit
    <3>3. hit => n \in {1, 2}
        BY DEF hit
    <3>4. CASE hit
      <4>1. Cardinality(G) <= Cardinality(H) /\ V1 = V + n /\ n \in {1, 2}
          BY <2>4, <2>6, <3>2, <3>3, <3>4
      <4> QED
          BY SMTT(30), <1>5, <2>1, <2>2, <2>4, <2>5, <2>8, <3>1, <4>1
    <3>5. CASE ~ hit
      <4>1. Cardinality(G) <= Cardinality(H) + 1 /\ V1 = V
          BY <2>4, <2>5, <2>6, <3>2, <3>5
      <4> QED
          BY <1>5, <2>1, <2>2, <2>4, <2>5, <2>8, <3>1, <4>1
    <3> QED
        BY <3>4, <3>5
  <2>10. CASE o # p
    <3>1. G \subseteq H /\ R1 = R /\ V1 = V
        BY <1>3, <1>8, <2>5, <2>6, <2>10
    <3> HIDE DEF G, H, R, R1, V, V1
    <3>2. Cardinality(G) <= Cardinality(H)
        BY <2>4, <3>1, ServerSet, FS_Subset
    <3> QED
        BY <1>5, <2>1, <2>2, <2>4, <2>5, <2>8, <3>1, <3>2
  <2> QED
      BY <2>9, <2>10
<1> QED
    BY <1>6, <1>7, <1>9, <1>10, <1>11 DEF Steady

LEMMA RestartSteady ==
    ASSUME Types, NEW s \in Server, Restart(s), program' = program, NEW o \in DOMAIN program
    PROVE  Steady(o)
<1>1. /\ inbox' = Emptied(inbox, s)
      /\ UNCHANGED <<socket, call, applied, answered, dups>>
    BY DEF Restart, Emptied
<1>2. IsPut(o)' <=> IsPut(o)
    BY SameProgram DEF SameCalls
<1>3. inbox \in Boxes(DOMAIN program) /\ IsFiniteSet(Requests(inbox, o)) /\ dups \in Nat
    BY DEF Types, RequestsOK, ServersOK, Boxes
<1>4. /\ IsFiniteSet(Requests(inbox', o))
      /\ Cardinality(Requests(inbox', o)) <=
            IF s \in Asked(inbox, o) THEN Cardinality(Requests(inbox, o)) - 1
                                     ELSE Cardinality(Requests(inbox, o))
      /\ Asked(inbox', o) = Asked(inbox, o) \ {s}
    BY <1>1, <1>3, Forgotten
<1>5. Writers(o)' = Writers(o) /\ \A Q : Givers(o, Q)' = Givers(o, Q)
    BY <1>1, <1>2 DEF Givers, Writers
<1>6. Touched(o)' \subseteq Touched(o)
    BY <1>4, <1>5 DEF Touched
<1>7. ASSUME NEW Q \in SUBSET Answer PROVE Slack(o, Q) <= Slack(o, Q)'
  <2> DEFINE G == Givers(o, Q) \cup Asked(inbox, o)
             H == Givers(o, Q) \cup Asked(inbox', o)
             R == Cardinality(Requests(inbox, o))
             R1 == Cardinality(Requests(inbox', o))
             V == Cardinality(Waiting(socket[o], Q))
  <2>1. Slack(o, Q) = Cardinality(G) + dups - R - V
      BY DEF Slack
  <2>2. Slack(o, Q)' = Cardinality(H) + dups - R1 - V
      BY <1>1, <1>5 DEF Slack
  <2>3. G \subseteq Server /\ H \subseteq Server /\ Cardinality(G) \in Nat /\ Cardinality(H) \in Nat
      BY <1>4, GiversTyped, ServerSet
  <2>4. R \in Nat /\ R1 \in Nat /\ V \in Nat
      BY <1>3, <1>4, CallTyped, FS_CardinalityType DEF Types
  <2>5. R1 <= IF s \in Asked(inbox, o) THEN R - 1 ELSE R
      BY <1>4
  <2>6. G \subseteq H \cup {s}
      BY <1>4
  <2>7. s \notin Asked(inbox, o) => G = H
      BY <1>4
  <2> HIDE DEF G, H, R, R1, V
  <2>8. Cardinality(G) <= Cardinality(H) + 1
      BY <2>3, <2>6, OneLost
  <2> QED
      BY <1>3, <2>1, <2>2, <2>3, <2>4, <2>5, <2>7, <2>8
<1> QED
    BY <1>1, <1>3, <1>5, <1>6, <1>7 DEF Steady

\* A step of call p does not take anything from another call.
LEMMA OthersSteady ==
    ASSUME Types, program' = program, NEW p \in DOMAIN program, NEW o \in DOMAIN program, o # p,
           NEW d \in Nat, dups' = dups + d,
           socket'[o] = socket[o], UNCHANGED <<applied, answered>>,
           \/ inbox' = inbox
           \/ \E s \in Server : \E n \in 0..2 : inbox' = Sending(inbox, s, n, p)
    PROVE  Steady(o)
<1>1. IsPut(o)' <=> IsPut(o)
    BY SameProgram DEF SameCalls
<1>2. inbox \in Boxes(DOMAIN program) /\ IsFiniteSet(Requests(inbox, o)) /\ dups \in Nat
    BY DEF Types, RequestsOK, ServersOK, Boxes
<1>3. /\ Cardinality(Requests(inbox', o)) = Cardinality(Requests(inbox, o))
      /\ Asked(inbox', o) = Asked(inbox, o)
  <2>1. CASE inbox' = inbox
      BY <2>1
  <2>2. ASSUME NEW s \in Server, NEW n \in 0..2, inbox' = Sending(inbox, s, n, p)
        PROVE  /\ Cardinality(Requests(inbox', o)) = Cardinality(Requests(inbox, o))
               /\ Asked(inbox', o) = Asked(inbox, o)
      BY <1>2, <2>2, CopiesSent
  <2> QED
      BY <2>1, <2>2
<1>4. Writers(o)' = Writers(o) /\ \A Q : Givers(o, Q)' = Givers(o, Q)
    BY <1>1 DEF Givers, Writers
<1>5. Touched(o)' \subseteq Touched(o)
    BY <1>3, <1>4 DEF Touched
<1>6. ASSUME NEW Q \in SUBSET Answer PROVE Slack(o, Q) <= Slack(o, Q)'
  <2> DEFINE g == Cardinality(Givers(o, Q) \cup Asked(inbox, o))
             R == Cardinality(Requests(inbox, o))
             V == Cardinality(Waiting(socket[o], Q))
  <2>1. Slack(o, Q) = g + dups - R - V
      BY DEF Slack
  <2>2. Slack(o, Q)' = g + dups' - R - V
      BY <1>3, <1>4 DEF Slack
  <2>3. g \in Nat
      BY GiversTyped, ServerSet
  <2>4. R \in Nat /\ V \in Nat
      BY <1>2, CallTyped, FS_CardinalityType DEF Types
  <2> HIDE DEF g, R, V
  <2> QED
      BY <1>2, <2>1, <2>2, <2>3, <2>4
<1> QED
    BY <1>2, <1>4, <1>5, <1>6 DEF Steady

----------------------------------------------------------------------------

(***************************************************************************)
(* What a steady step keeps.                                               *)
(***************************************************************************)
LEMMA SlackInt ==
    ASSUME Types, NEW o \in DOMAIN program, NEW Q \in SUBSET Answer PROVE Slack(o, Q) \in Int
<1> DEFINE g == Cardinality(Givers(o, Q) \cup Asked(inbox, o))
           R == Cardinality(Requests(inbox, o))
           V == Cardinality(Waiting(socket[o], Q))
<1>1. g \in Nat
    BY GiversTyped, ServerSet
<1>2. R \in Nat /\ V \in Nat /\ dups \in Nat
    BY CallTyped, FS_CardinalityType DEF Types, RequestsOK, ServersOK
<1>3. Slack(o, Q) = g + dups - R - V
    BY DEF Slack
<1> HIDE DEF g, R, V
<1> QED
    BY <1>1, <1>2, <1>3

LEMMA SlackNextInt ==
    ASSUME CallsOK', RequestsOK', ServersOK', NEW o \in DOMAIN program', NEW Q \in SUBSET Answer
    PROVE  Slack(o, Q)' \in Int
<1> DEFINE g == Cardinality(Givers(o, Q)' \cup Asked(inbox', o))
           R == Cardinality(Requests(inbox', o))
           V == Cardinality(Waiting(socket'[o], Q))
<1>1. g \in Nat
  <2>1. Givers(o, Q)' \cup Asked(inbox', o) \subseteq Server
      BY DEF Givers, Writers, Asked
  <2> QED
      BY <2>1, ServerSet
<1>2. R \in Nat /\ dups' \in Nat
    BY FS_CardinalityType DEF RequestsOK, ServersOK
<1>3. V \in Nat
  <2>1. IsFiniteSet(Waiting(socket'[o], Answer))
      BY DEF CallsOK, CallOK
  <2> QED
      BY <2>1, FewerWaiting
<1>4. Slack(o, Q)' = g + dups' - R - V
    BY DEF Slack
<1> HIDE DEF g, R, V
<1> QED
    BY <1>1, <1>2, <1>3, <1>4

LEMMA BelowAnswers == \A q : Below(q) \in SUBSET Answer
BY DEF Below

LEMMA SteadyKeeps ==
    ASSUME Types, SameCalls, CallsOK', RequestsOK', ServersOK',
           NEW o \in DOMAIN program, CallInv(o), Steady(o), call'[o] = call[o]
    PROVE  CallInv(o)'
<1>1. /\ IsPut(o)' <=> IsPut(o)
      /\ Quorum(o)' = Quorum(o) /\ servers_to_contact(o)' = servers_to_contact(o)
      /\ Needed(o)' = Needed(o) /\ o \in DOMAIN program'
    BY SameNeeds DEF SameCalls
<1>2. Open(o)' <=> Open(o)
    BY DEF Open
<1>3. Quorum(o) \in Nat /\ Needed(o) \in Nat
    BY CallFacts DEF Types, Needed
<1>4. dups \in Nat /\ dups' \in Nat /\ dups <= dups'
    BY DEF Types, ServersOK, Steady
<1>5. SentOnce(o)'
  <2>1. SentOnce(o) /\ Touched(o)' \subseteq Touched(o)
      BY DEF CallInv, Steady
  <2> QED
      BY <1>1, <2>1 DEF SentOnce
<1>6. ASSUME Open(o), NEW Q \in SUBSET Answer, Account(o, Q)
      PROVE  /\ Slack(o, Q) <= Slack(o, Q)'
             /\ Slack(o, Q) \in Int /\ Slack(o, Q)' \in Int
    BY <1>1, <1>6, SlackInt, SlackNextInt DEF Steady
<1>7. CASE IsPut(o)
  <2>1. WritesCounted(o)'
    <3> SUFFICES ASSUME Open(o) PROVE call[o].nb_writes <= Slack(o, {Empty})'
        BY <1>2 DEF WritesCounted
    <3>1. call[o].nb_writes <= Slack(o, {Empty}) /\ call[o].nb_writes \in Nat
        BY <1>7, CallTyped DEF CallInv, WritesCounted, Types, CallRecord
    <3>2. {Empty} \in SUBSET Answer /\ Account(o, {Empty})
        BY DEF Answer, Account
    <3>3. /\ Slack(o, {Empty}) <= Slack(o, {Empty})'
          /\ Slack(o, {Empty}) \in Int /\ Slack(o, {Empty})' \in Int
        BY <1>6, <3>2
    <3> QED
        BY <3>1, <3>3
  <2>2. PutReached(o)'
    <3> SUFFICES ASSUME call[o].pc = "ok" PROVE Cardinality(Writers(o)') + dups' >= Needed(o)
        BY <1>1 DEF PutReached
    <3>1. Cardinality(Writers(o)) + dups >= Needed(o)
        BY <1>7 DEF CallInv, PutReached
    <3>2. /\ Cardinality(Writers(o)) <= Cardinality(Writers(o)')
          /\ Cardinality(Writers(o)) \in Nat /\ Cardinality(Writers(o)') \in Nat
      <4>1. Writers(o) \subseteq Writers(o)' /\ Writers(o)' \subseteq Server
          BY DEF Steady, Writers
      <4> QED
          BY <4>1, ServerSet, FS_Subset
    <3> QED
        BY <1>3, <1>4, <3>1, <3>2
  <2> QED
      BY <1>1, <1>5, <1>7, <2>1, <2>2 DEF CallInv
<1>8. CASE ~ IsPut(o)
  <2>1. VotesCounted(o)'
    <3> SUFFICES ASSUME Open(o)
                 PROVE  /\ Slacks(o)' \in [Answer -> Nat]
                        /\ VoteLemmas!Backed(call[o].votes, Slacks(o)')
                        /\ Quorum(o) = 0 => VoteLemmas!AllOnes(call[o].votes)
        BY <1>1, <1>2 DEF VotesCounted
    <3>1. /\ Slacks(o) \in [Answer -> Nat]
          /\ VoteLemmas!Backed(call[o].votes, Slacks(o))
          /\ Quorum(o) = 0 => VoteLemmas!AllOnes(call[o].votes)
        BY <1>8 DEF CallInv, VotesCounted
    <3>2. call[o].votes \in Votes!Table
        BY CallTyped DEF Types, CallRecord
    <3>3. Slacks(o)' = [q \in Answer |-> Slack(o, Below(q))']
        BY DEF Slacks, Below
    <3>4. ASSUME NEW q \in Answer
          PROVE  Slacks(o)[q] <= Slack(o, Below(q))' /\ Slack(o, Below(q))' \in Nat
      <4>1. Slacks(o)[q] = Slack(o, Below(q)) /\ Slacks(o)[q] \in Nat
          BY <3>1 DEF Slacks
      <4>2. Account(o, Below(q)) /\ Below(q) \in SUBSET Answer
          BY <1>8, BelowAnswers DEF Account
      <4>3. Slack(o, Below(q)) <= Slack(o, Below(q))' /\ Slack(o, Below(q))' \in Int
          BY <1>6, <4>2
      <4> QED
          BY <4>1, <4>3
    <3>5. Slacks(o)' \in [Answer -> Nat] /\ \A q \in Answer : Slacks(o)[q] <= Slacks(o)'[q]
        BY <3>3, <3>4
    <3> QED
        BY <3>1, <3>2, <3>5, MoreBacked
  <2>2. GetReached(o)'
    <3> SUFFICES ASSUME call[o].pc = "ok", Quorum(o) <= CharHalf + 1, NEW v \in call[o].value
                 PROVE  \E q \in Answer : /\ <<v, q>> \in VotePrefix
                                          /\ Cardinality(Counting(o, q)') + dups' >= Needed(o)
        BY <1>1 DEF GetReached
    <3>1. PICK q \in Answer : <<v, q>> \in VotePrefix /\ Cardinality(Counting(o, q)) + dups >= Needed(o)
        BY <1>8 DEF CallInv, GetReached
    <3>2. /\ Cardinality(Counting(o, q)) <= Cardinality(Counting(o, q)')
          /\ Cardinality(Counting(o, q)) \in Nat /\ Cardinality(Counting(o, q)') \in Nat
      <4>1. Counting(o, q) \subseteq Counting(o, q)' /\ Counting(o, q)' \subseteq Server
          BY <1>8 DEF Steady, Counting
      <4> QED
          BY <4>1, ServerSet, FS_Subset
    <3> QED
        BY <1>3, <1>4, <3>1, <3>2
  <2> QED
      BY <1>1, <1>5, <1>8, <2>1, <2>2 DEF CallInv
<1> QED
    BY <1>7, <1>8

----------------------------------------------------------------------------

(***************************************************************************)
(* The steps of a client: what they do to the call itself.                 *)
(***************************************************************************)

\* Before its first request a call has counted nothing, and the servers neither.
LEMMA NothingYet ==
    ASSUME Types, NEW o \in DOMAIN program, Touched(o) = {}, NEW Q \in SUBSET Answer
    PROVE  /\ Givers(o, Q) \cup Asked(inbox, o) = {}
           /\ Cardinality(Requests(inbox, o)) = 0
<1>1. inbox \in Boxes(DOMAIN program)
    BY DEF Types, RequestsOK, Boxes
<1>2. Givers(o, Q) \subseteq Givers(o, Answer)
    BY DEF Givers
<1>3. Asked(inbox, o) = {} /\ Givers(o, Q) = {}
    BY <1>2 DEF Touched
<1>4. Requests(inbox, o) = {}
  <2>1. Asked(inbox, o) = {p[1] : p \in Requests(inbox, o)}
      BY <1>1, AskedHaveRequests
  <2> QED
      BY <1>3, <2>1
<1> QED
    BY <1>3, <1>4, FS_EmptySet

\* A call that ends without a result.
LEMMA EndKeeps ==
    ASSUME NEW o, call'[o].pc \in {"fail", "error", "killed"} PROVE CallInv(o)'
BY DEF CallInv, SentOnce, WritesCounted, PutReached, VotesCounted, GetReached, Open

\* What a call has counted when it ends has come from servers, or was duplicated.
LEMMA SlackReached ==
    ASSUME Types, NEW o \in DOMAIN program, NEW x \in BagToSet(socket[o]), NEW Q \in SUBSET Answer,
           x[2] \in Q
    PROVE  Slack(o, Q) + 1 <= Cardinality(Givers(o, Q)) + dups
<1> DEFINE g == Cardinality(Givers(o, Q) \cup Asked(inbox, o))
           G == Cardinality(Givers(o, Q))
           A == Cardinality(Asked(inbox, o))
           R == Cardinality(Requests(inbox, o))
           V == Cardinality(Waiting(socket[o], Q))
<1>1. inbox \in Boxes(DOMAIN program) /\ IsFiniteSet(Requests(inbox, o)) /\ dups \in Nat
    BY DEF Types, RequestsOK, ServersOK, Boxes
<1>2. IsABag(socket[o]) /\ IsFiniteSet(Waiting(socket[o], Q))
    BY CallTyped DEF Types
<1>3. V \in Nat /\ V >= 1
    BY <1>2, SomeWaiting
<1>4. A <= R /\ R \in Nat
    BY <1>1, AskedFew, FS_CardinalityType
<1>5. G \in Nat /\ A \in Nat /\ g \in Nat /\ IsFiniteSet(Givers(o, Q)) /\ IsFiniteSet(Asked(inbox, o))
    BY GiversTyped, ServerSet
<1>6. g = G + A - Cardinality(Givers(o, Q) \cap Asked(inbox, o))
    BY <1>5, FS_Union
<1>7. Cardinality(Givers(o, Q) \cap Asked(inbox, o)) \in Nat
    BY <1>5, GiversTyped, ServerSet
<1>8. Slack(o, Q) = g + dups - R - V
    BY DEF Slack
<1> HIDE DEF g, G, A, R, V
<1> QED
    BY <1>1, <1>3, <1>4, <1>5, <1>6, <1>7, <1>8 DEF G

LEMMA StartKeeps ==
    ASSUME Types, NEW p \in DOMAIN program, CallInv(p), Start(p), program' = program
    PROVE  CallInv(p)'
<1>1. /\ UNCHANGED <<inbox, applied, answered, dups>> /\ call[p].pc = "new"
      /\ \/ Become(p, [NoCall EXCEPT !.pc = "send"], EmptyBag)
         \/ \E pc \in {"error", "killed"} : Become(p, Done(pc, {}), EmptyBag)
    BY DEF Start
<1>2. call \in [DOMAIN program -> CallRecord] /\ DOMAIN socket = DOMAIN program
    BY DEF Types, CallsOK
<1>3. Touched(p) = {}
    BY <1>1 DEF CallInv, SentOnce
<1>4. CASE Become(p, [NoCall EXCEPT !.pc = "send"], EmptyBag)
  <2>1. /\ call'[p].pc = "send" /\ call'[p].i = 0 /\ call'[p].nb_writes = 0
        /\ call'[p].votes = Votes!construct_Htable
      BY <1>2, <1>4, Locals DEF Become
  <2>2. socket'[p] = EmptyBag
      BY <1>2, <1>4, Locals DEF Become
  <2>3. ASSUME NEW Q \in SUBSET Answer PROVE Slack(p, Q)' = dups /\ Slack(p, Q)' \in Nat
    <3>1. /\ Cardinality(Givers(p, Q) \cup Asked(inbox, p)) = 0
          /\ Cardinality(Requests(inbox, p)) = 0 /\ dups \in Nat
        BY <1>3, NothingYet, FS_EmptySet DEF Types, ServersOK
    <3>2. Cardinality(Waiting(EmptyBag, Q)) = 0
        BY NoneWaiting, FS_EmptySet
    <3>3. Slack(p, Q)' = Cardinality(Givers(p, Q) \cup Asked(inbox, p)) + dups
                            - Cardinality(Requests(inbox, p)) - Cardinality(Waiting(EmptyBag, Q))
        BY <1>1, <2>2 DEF Slack, Givers, Writers, IsPut
    <3> QED
        BY <3>1, <3>2, <3>3
  <2>4. SentOnce(p)'
    <3>1. Touched(p)' = {}
        BY <1>1, <1>3 DEF Touched, Givers, Writers, IsPut
    <3> QED
        BY <2>1, <3>1 DEF SentOnce
  <2>5. WritesCounted(p)' /\ PutReached(p)' /\ GetReached(p)'
    <3>1. {Empty} \in SUBSET Answer
        BY DEF Answer
    <3>2. Slack(p, {Empty})' \in Nat
        BY <2>3, <3>1
    <3> QED
        BY <2>1, <3>2 DEF WritesCounted, PutReached, GetReached
  <2>6. VotesCounted(p)'
    <3>1. Slacks(p)' = [q \in Answer |-> Slack(p, Below(q))']
        BY DEF Slacks, Below
    <3>2. Slacks(p)' \in [Answer -> Nat]
        BY <2>3, <3>1, BelowAnswers
    <3> QED
        BY <2>1, <3>2, NoVotes DEF VotesCounted
  <2> QED
      BY <2>4, <2>5, <2>6 DEF CallInv
<1>5. ASSUME NEW pc \in {"error", "killed"}, Become(p, Done(pc, {}), EmptyBag)
      PROVE  CallInv(p)'
  <2>1. call'[p].pc = pc
      BY <1>2, <1>5, DoneLocals DEF Become
  <2> QED
      BY <2>1, EndKeeps
<1> QED
    BY <1>1, <1>4, <1>5

\* The sending loop: where a call sends next, and with which locals it goes on.
LEMMA SendForm ==
    ASSUME Types, NEW p \in DOMAIN program, Send(p)
    PROVE  /\ call[p].pc = "send" /\ call[p].i + 1 \in 1..N(p)
           /\ servers_to_contact(p)[call[p].i + 1] \in Server
           /\ \E n \in 0..2 :
                 /\ inbox' = Sending(inbox, servers_to_contact(p)[call[p].i + 1], n, p)
                 /\ dups' = dups + (IF n = 2 THEN 1 ELSE 0)
           /\ call' = [call EXCEPT ![p] = Sent(p)]
           /\ socket' = [socket EXCEPT ![p] = socket[p]]
           /\ Sent(p) \in CallRecord
           /\ Sent(p).nb_writes = call[p].nb_writes /\ Sent(p).votes = call[p].votes
           /\ Sent(p).value = call[p].value
           /\ \/ Sent(p).pc = "send" /\ Sent(p).i = call[p].i + 1 /\ Sent(p).i < N(p)
              \/ Sent(p).pc = "receive" /\ Sent(p).i = 0 /\ 0 < N(p)
<1>1. call[p].pc = "send" /\ call[p] \in CallRecord /\ call[p].i < N(p) /\ N(p) \in Nat
    BY CallTyped, CallFacts DEF Send, Types, CallOK
<1>2. call[p].i \in Nat /\ call[p].i + 1 \in 1..N(p)
    BY <1>1 DEF CallRecord
<1>3. servers_to_contact(p)[call[p].i + 1] \in Server
    BY <1>2, CallFacts DEF Types
<1>4. \E n \in 0..2 :
         /\ inbox' = Sending(inbox, servers_to_contact(p)[call[p].i + 1], n, p)
         /\ dups' = dups + (IF n = 2 THEN 1 ELSE 0)
  <2>1. PICK n \in Copies :
           /\ inbox' = [inbox EXCEPT ![servers_to_contact(p)[call[p].i + 1]] = @ \o [j \in 1..n |-> p]]
           /\ Count(n)
      BY DEF Send
  <2>2. n \in 0..2
      BY DEF Copies
  <2>3. dups' = dups + (IF n = 2 THEN 1 ELSE 0)
      BY <2>1 DEF Count, Types, ServersOK
  <2> QED
      BY <2>1, <2>2, <2>3 DEF Sending
<1>5. /\ Sent(p) \in CallRecord
      /\ Sent(p).nb_writes = call[p].nb_writes /\ Sent(p).votes = call[p].votes
      /\ Sent(p).value = call[p].value
      /\ \/ Sent(p).pc = "send" /\ Sent(p).i = call[p].i + 1 /\ Sent(p).i < N(p)
         \/ Sent(p).pc = "receive" /\ Sent(p).i = 0 /\ 0 < N(p)
  <2>1. CASE call[p].i + 1 < N(p)
    <3>1. Sent(p) = [call[p] EXCEPT !.i = @ + 1]
        BY <2>1 DEF Sent
    <3> QED
        BY <1>1, <1>2, <2>1, <3>1 DEF CallRecord
  <2>2. CASE ~ call[p].i + 1 < N(p)
    <3>1. Sent(p) = [[call[p] EXCEPT !.i = 0] EXCEPT !.pc = "receive"]
        BY <2>2 DEF Sent
    <3>2. 0 < N(p)
        BY <1>1, <1>2
    <3> DEFINE first == [call[p] EXCEPT !.i = 0]
    <3>3. /\ first \in CallRecord /\ first.i = 0 /\ first.nb_writes = call[p].nb_writes
          /\ first.votes = call[p].votes /\ first.value = call[p].value
        BY <1>1 DEF CallRecord
    <3>4. Sent(p) = [first EXCEPT !.pc = "receive"]
        BY <3>1
    <3> HIDE DEF first
    <3> QED
        BY <3>2, <3>3, <3>4 DEF CallRecord
  <2> QED
      BY <2>1, <2>2
<1>6. /\ call' = [call EXCEPT ![p] = Sent(p)]
      /\ socket' = [socket EXCEPT ![p] = socket[p]]
    BY <1>5 DEF Send, Become
<1> QED
    BY <1>1, <1>2, <1>3, <1>4, <1>5, <1>6

LEMMA SendKeeps ==
    ASSUME Types, NEW p \in DOMAIN program, CallInv(p), Send(p), program' = program,
           CallsOK', RequestsOK', ServersOK'
    PROVE  CallInv(p)'
<1> DEFINE s == servers_to_contact(p)[call[p].i + 1]
           i == call[p].i
<1>1. /\ call[p].pc = "send" /\ i + 1 \in 1..N(p) /\ s \in Server
      /\ Sent(p).nb_writes = call[p].nb_writes /\ Sent(p).votes = call[p].votes
      /\ \/ Sent(p).pc = "send" /\ Sent(p).i = i + 1
         \/ Sent(p).pc = "receive"
    BY SendForm
<1>2. PICK n \in 0..2 : inbox' = Sending(inbox, s, n, p) /\ dups' = dups + (IF n = 2 THEN 1 ELSE 0)
    BY SendForm
<1>3. call'[p] = Sent(p) /\ socket'[p] = socket[p]
    BY SendForm DEF Types, CallsOK
<1>4. UNCHANGED <<applied, answered>>
    BY DEF Send
<1>5. /\ \A m \in 1..N(p) : servers_to_contact(p)[m] \in Server
      /\ \A m, k \in 1..N(p) : m # k => servers_to_contact(p)[m] # servers_to_contact(p)[k]
      /\ N(p) \in Nat /\ i \in Nat
    BY CallFacts, CallTyped DEF Types, CallRecord
<1>6. Touched(p) \subseteq {servers_to_contact(p)[m] : m \in 1..i}
    BY <1>1 DEF CallInv, SentOnce
<1>7. s \notin Touched(p)
  <2>1. \A m \in 1..i : m \in 1..N(p) /\ m # i + 1
      BY <1>1, <1>5
  <2>2. \A m \in 1..i : servers_to_contact(p)[m] # s
      BY <1>1, <1>5, <2>1
  <2> QED
      BY <1>6, <2>2
<1> HIDE DEF s, i
<1>8. /\ inbox \in Boxes(DOMAIN program) /\ IsFiniteSet(Requests(inbox, p)) /\ dups \in Nat
      /\ Cardinality(Requests(inbox, p)) \in Nat
    BY FS_CardinalityType DEF Types, RequestsOK, ServersOK, Boxes
<1>9. /\ Cardinality(Requests(inbox', p)) = Cardinality(Requests(inbox, p)) + n
      /\ Asked(inbox', p) = Asked(inbox, p) \cup (IF n > 0 THEN {s} ELSE {})
    BY <1>1, <1>2, <1>8, CopiesSent
<1>10. ASSUME NEW Q PROVE Givers(p, Q)' = Givers(p, Q)
    BY <1>4 DEF Givers, Writers, IsPut
<1>11. SentOnce(p)'
  <2>1. Touched(p)' = Touched(p) \cup (IF n > 0 THEN {s} ELSE {})
      BY <1>9, <1>10 DEF Touched
  <2>2. servers_to_contact(p)' = servers_to_contact(p)
      BY DEF servers_to_contact
  <2>3. Sent(p).pc = "send" =>
           Touched(p)' \subseteq {servers_to_contact(p)[m] : m \in 1..Sent(p).i}
    <3> SUFFICES ASSUME Sent(p).pc = "send", NEW t \in Touched(p)'
                 PROVE  \E m \in 1..Sent(p).i : t = servers_to_contact(p)[m]
        OBVIOUS
    <3>1. Sent(p).i = i + 1
        BY <1>1
    <3>2. t = servers_to_contact(p)[i + 1] \/ \E m \in 1..i : t = servers_to_contact(p)[m]
        BY <1>6, <2>1 DEF s, i
    <3>3. i + 1 \in 1..(i + 1) /\ 1..i \subseteq 1..(i + 1)
        BY <1>5
    <3> QED
        BY <3>1, <3>2, <3>3
  <2>4. Sent(p).pc # "new"
      BY <1>1
  <2> QED
      BY <1>3, <2>2, <2>3, <2>4 DEF SentOnce
<1>12. ASSUME NEW Q \in SUBSET Answer PROVE Slack(p, Q)' = Slack(p, Q)
  <2> DEFINE G == Givers(p, Q) \cup Asked(inbox, p)
             H == Givers(p, Q) \cup Asked(inbox', p)
             R == Cardinality(Requests(inbox, p))
             R1 == Cardinality(Requests(inbox', p))
             V == Cardinality(Waiting(socket[p], Q))
  <2>1. Slack(p, Q) = Cardinality(G) + dups - R - V
      BY DEF Slack
  <2>2. Slack(p, Q)' = Cardinality(H) + dups' - R1 - V
      BY <1>3, <1>10 DEF Slack
  <2>3. G \subseteq Server /\ IsFiniteSet(G) /\ Cardinality(G) \in Nat
      BY GiversTyped, ServerSet
  <2>4. V \in Nat
      BY CallTyped DEF Types
  <2>5. s \notin G
    <3>1. Givers(p, Q) \subseteq Givers(p, Answer)
        BY DEF Givers
    <3> QED
        BY <1>7, <3>1 DEF Touched
  <2>6. H = IF n > 0 THEN G \cup {s} ELSE G
      BY <1>9
  <2>7. R \in Nat /\ R1 = R + n
      BY <1>8, <1>9
  <2> HIDE DEF G, H, R, R1, V
  <2>8. Cardinality(H) = Cardinality(G) + (IF n > 0 THEN 1 ELSE 0)
    <3>1. Cardinality(G \cup {s}) = Cardinality(G) + 1
        BY <2>3, <2>5, FS_AddElement
    <3>2. CASE n > 0
        BY <2>6, <3>1, <3>2
    <3>3. CASE ~ n > 0
        BY <2>3, <2>6, <3>3
    <3> QED
        BY <3>2, <3>3
  <2>9. dups' = dups + (IF n = 2 THEN 1 ELSE 0)
      BY <1>2
  <2>10. n \in {0, 1, 2}
      OBVIOUS
  <2> QED
      BY <1>8, <2>1, <2>2, <2>3, <2>4, <2>7, <2>8, <2>9, <2>10
<1>13. Open(p) /\ (IsPut(p)' <=> IsPut(p)) /\ Quorum(p)' = Quorum(p)
    BY <1>1 DEF Open, IsPut, Quorum
<1>14. IsPut(p) => WritesCounted(p)'
  <2>1. {Empty} \in SUBSET Answer
      BY DEF Answer
  <2>2. IsPut(p) => call[p].nb_writes <= Slack(p, {Empty})
      BY <1>13 DEF CallInv, WritesCounted
  <2> QED
      BY <1>1, <1>3, <1>12, <2>1, <2>2 DEF WritesCounted
<1>15. ~ IsPut(p) => VotesCounted(p)'
  <2>1. Slacks(p)' = Slacks(p)
    <3>1. Slacks(p)' = [q \in Answer |-> Slack(p, Below(q))']
        BY DEF Slacks, Below
    <3>2. \A q \in Answer : Slack(p, Below(q))' = Slack(p, Below(q))
        BY <1>12, BelowAnswers
    <3> QED
        BY <3>1, <3>2 DEF Slacks
  <2> QED
      BY <1>1, <1>3, <1>13, <2>1 DEF CallInv, VotesCounted
<1>16. Sent(p).pc # "ok"
    BY <1>1
<1> QED
    BY <1>3, <1>11, <1>13, <1>14, <1>15, <1>16 DEF CallInv, PutReached, GetReached

\* An answer that is received leaves the socket and enters the count.
LEMMA CountedSlack ==
    ASSUME Types, NEW p \in DOMAIN program, NEW x \in BagToSet(socket[p]), program' = program,
           socket'[p] = socket[p] (-) SetToBag({x}), UNCHANGED <<inbox, applied, answered, dups>>,
           NEW Q \in SUBSET Answer
    PROVE  Slack(p, Q)' = Slack(p, Q) + (IF x[2] \in Q THEN 1 ELSE 0)
<1> DEFINE g == Cardinality(Givers(p, Q) \cup Asked(inbox, p))
           R == Cardinality(Requests(inbox, p))
           V == Cardinality(Waiting(socket[p], Q))
           V1 == Cardinality(Waiting(socket'[p], Q))
<1>1. g \in Nat
    BY GiversTyped, ServerSet
<1>2. R \in Nat /\ V \in Nat /\ dups \in Nat
    BY CallTyped, FS_CardinalityType DEF Types, RequestsOK, ServersOK
<1>3. IsABag(socket[p]) /\ IsFiniteSet(Waiting(socket[p], Q))
    BY CallTyped DEF Types
<1>4. V1 = V - (IF x[2] \in Q THEN 1 ELSE 0)
    BY <1>3, OneReceived
<1>5. Slack(p, Q) = g + dups - R - V
    BY DEF Slack
<1>6. Slack(p, Q)' = g + dups - R - V1
    BY DEF Slack, Givers, Writers, IsPut
<1> HIDE DEF g, R, V, V1
<1> QED
    BY <1>1, <1>2, <1>4, <1>5, <1>6

LEMMA CountWriteForm ==
    ASSUME NEW o, N(o) \in Nat, call[o] \in CallRecord, call[o].pc = "receive",
           NEW answer, NEW l, l = CountWrite(o, answer)
    PROVE  /\ l \in CallRecord
           /\ \/ /\ l.pc = "receive" /\ l.i < N(o) /\ l.value = call[o].value
                 /\ l.nb_writes = call[o].nb_writes + (IF answer = Empty THEN 1 ELSE 0)
              \/ l.pc = "fail" /\ l.value = {}
              \/ /\ l.pc = "ok" /\ l.value = {} /\ answer = Empty
                 /\ call[o].nb_writes + 1 >= Quorum(o)
<1> DEFINE writes == call[o].nb_writes + 1
           counted == [call[o] EXCEPT !.nb_writes = writes]
<1>1. call[o].nb_writes \in Nat /\ call[o].value \in SUBSET Answer
    BY DEF CallRecord
<1>2. /\ counted \in CallRecord /\ counted.pc = "receive" /\ counted.nb_writes = writes
      /\ counted.value = call[o].value
    BY <1>1 DEF CallRecord
<1>3. CASE answer # Empty
  <2>1. l = NextAttempt(o, call[o])
      BY <1>3 DEF CountWrite
  <2> QED
      BY <1>1, <1>3, <2>1, AttemptLocals
<1>4. CASE answer = Empty /\ writes >= Quorum(o)
  <2>1. l = Done("ok", {})
      BY <1>4 DEF CountWrite
  <2> QED
      BY <1>4, <2>1, DoneLocals
<1>5. CASE answer = Empty /\ ~ writes >= Quorum(o)
  <2>1. l = NextAttempt(o, counted)
      BY <1>5 DEF CountWrite
  <2> HIDE DEF counted
  <2> QED
      BY <1>1, <1>2, <1>5, <2>1, AttemptLocals
<1> QED
    BY <1>3, <1>4, <1>5

LEMMA VotedForm ==
    ASSUME NEW o, N(o) \in Nat, call[o] \in CallRecord, call[o].pc = "receive",
           NEW answer \in Answer, NEW vote, vote.votes \in Votes!Table,
           NEW l, l = Voted(o, answer, vote)
    PROVE  /\ l \in CallRecord
           /\ \/ /\ l.pc = "receive" /\ l.i < N(o) /\ l.votes = vote.votes /\ ~ vote.enough
                 /\ l.value = call[o].value
              \/ l.pc = "fail" /\ l.value = {}
              \/ l.pc = "ok" /\ l.value = {answer} /\ vote.enough
<1> DEFINE counted == [call[o] EXCEPT !.votes = vote.votes]
<1>1. call[o].value \in SUBSET Answer
    BY DEF CallRecord
<1>2. /\ counted \in CallRecord /\ counted.pc = "receive" /\ counted.votes = vote.votes
      /\ counted.value = call[o].value
    BY <1>1 DEF CallRecord
<1>3. CASE vote.enough
  <2>1. l = Done("ok", {answer})
      BY <1>3 DEF Voted
  <2> QED
      BY <1>3, <2>1, DoneLocals
<1>4. CASE ~ vote.enough
  <2>1. l = NextAttempt(o, counted)
      BY <1>4 DEF Voted
  <2> HIDE DEF counted
  <2> QED
      BY <1>1, <1>2, <1>4, <2>1, AttemptLocals
<1> QED
    BY <1>3, <1>4

\* A put counts datagram x.
HearsWrite(p, x) ==
    /\ IsPut(p) /\ call[p].pc = "receive" /\ x \in BagToSet(socket[p])
    /\ Become(p, CountWrite(p, x[2]), socket[p] (-) SetToBag({x}))
    /\ UNCHANGED <<store, inbox, applied, answered, before, dups, restarts>>

\* A get counts answer x, or loses its vote or those before it.
HearsVote(p, x, vote) ==
    /\ ~ IsPut(p) /\ call[p].pc = "receive" /\ x \in BagToSet(socket[p])
    /\ vote \in Outcomes(call[p].votes, x[2], Quorum(p))
    /\ Become(p, Voted(p, x[2], vote), socket[p] (-) SetToBag({x}))
    /\ UNCHANGED <<store, inbox, applied, answered, before, dups, restarts>>

Hears(p) ==
    \E x : HearsWrite(p, x) \/ \E vote : HearsVote(p, x, vote)

LEMMA HearsForm ==
    ASSUME NEW p, Receive(p) \/ LoseVotes(p)
    PROVE  Hears(p)
<1>1. CASE Receive(p) /\ IsPut(p)
    BY <1>1, Zenon DEF Receive, history, Hears, HearsWrite
<1>2. CASE Receive(p) /\ ~ IsPut(p)
  <2>1. PICK x \in BagToSet(socket[p]) : Become(p, CountVote(p, x[2]), socket[p] (-) SetToBag({x}))
      BY <1>2 DEF Receive
  <2>2. PICK vote : vote = Votes!increment_and_test(call[p].votes, x[2], Quorum(p))
      OBVIOUS
  <2>3. vote \in Outcomes(call[p].votes, x[2], Quorum(p))
      BY <2>2, Zenon DEF Outcomes
  <2>4. Become(p, Voted(p, x[2], vote), socket[p] (-) SetToBag({x}))
      BY <2>1, <2>2, Zenon DEF CountVote
  <2> QED
      BY <1>2, <2>3, <2>4, Zenon DEF Receive, history, Hears, HearsVote
<1>3. CASE LoseVotes(p)
  <2>1. PICK x \in BagToSet(socket[p]) :
           \E vote \in Outcomes(call[p].votes, x[2], Quorum(p)) :
              Become(p, Voted(p, x[2], vote), socket[p] (-) SetToBag({x}))
      BY <1>3, Zenon DEF LoseVotes, Outcomes
  <2> QED
      BY <1>3, <2>1, Zenon DEF LoseVotes, Hears, HearsVote
<1> QED
    BY <1>1, <1>2, <1>3

LEMMA HeardTypes ==
    ASSUME Types, NEW p \in DOMAIN program, NEW x \in BagToSet(socket[p]), call[p].pc = "receive"
    PROVE  /\ call[p] \in CallRecord /\ N(p) \in Nat /\ Quorum(p) \in Nat /\ Open(p)
           /\ x[2] \in Answer /\ (~ IsPut(p) => x[2] \in Value)
<1>1. /\ BagToSet(socket[p]) \subseteq Server \X Answer
      /\ ~ IsPut(p) => BagToSet(socket[p]) \subseteq Server \X Value
    BY CallTyped DEF Types, CallOK
<1>2. call[p] \in CallRecord /\ N(p) \in Nat /\ Quorum(p) \in Nat
    BY CallTyped, CallFacts DEF Types
<1> QED
    BY <1>1, <1>2 DEF Open

\* The calls with their sockets, and what others do not see of it.
LEMMA HeardForm ==
    ASSUME Types, NEW p \in DOMAIN program, NEW x, NEW l, call[p].pc = "receive",
           Become(p, l, socket[p] (-) SetToBag({x})), program' = program,
           UNCHANGED <<inbox, applied, answered, dups>>
    PROVE  /\ call'[p] = l
           /\ l.pc = "receive" => socket'[p] = socket[p] (-) SetToBag({x})
           /\ (IsPut(p)' <=> IsPut(p)) /\ Quorum(p)' = Quorum(p) /\ Needed(p)' = Needed(p)
           /\ Writers(p)' = Writers(p) /\ \A q : Counting(p, q)' = Counting(p, q)
           /\ dups \in Nat /\ dups' = dups
<1>1. /\ call' = [call EXCEPT ![p] = l]
      /\ socket' = [socket EXCEPT ![p] = IF l.pc \in {"send", "receive"}
                                         THEN socket[p] (-) SetToBag({x}) ELSE EmptyBag]
    BY DEF Become
<1>2. /\ call'[p] = l
      /\ l.pc = "receive" => socket'[p] = socket[p] (-) SetToBag({x})
    BY <1>1 DEF Types, CallsOK
<1>3. (IsPut(p)' <=> IsPut(p)) /\ Quorum(p)' = Quorum(p) /\ Needed(p)' = Needed(p)
    BY DEF IsPut, Quorum, Needed
<1>4. Writers(p)' = Writers(p) /\ \A q : Counting(p, q)' = Counting(p, q)
    BY DEF Writers, Counting
<1>5. dups \in Nat /\ dups' = dups
    BY DEF Types, ServersOK
<1> QED
    BY <1>2, <1>3, <1>4, <1>5

LEMMA AcknowledgeKeeps ==
    ASSUME Types, NEW p \in DOMAIN program, CallInv(p), program' = program, NEW x, HearsWrite(p, x)
    PROVE  CallInv(p)'
<1>1. /\ call[p].pc = "receive" /\ call[p] \in CallRecord /\ N(p) \in Nat /\ Quorum(p) \in Nat
      /\ UNCHANGED <<inbox, applied, answered, dups>> /\ x[2] \in Answer
      /\ x \in BagToSet(socket[p]) /\ IsPut(p)
    BY HeardTypes DEF HearsWrite
<1>3. PICK l : l = CountWrite(p, x[2])
    OBVIOUS
<1>4. l = CountWrite(p, x[2]) /\ x[2] \in Answer /\ Become(p, l, socket[p] (-) SetToBag({x}))
    BY <1>1, <1>3 DEF HearsWrite
<1>5. /\ call'[p] = l
      /\ l.pc = "receive" => socket'[p] = socket[p] (-) SetToBag({x})
    BY <1>1, <1>4, HeardForm
<1>6. Open(p) /\ (IsPut(p)' <=> IsPut(p)) /\ Quorum(p)' = Quorum(p) /\ Needed(p)' = Needed(p)
    BY <1>1, <1>4, HeardForm DEF Open
<1>7. Writers(p)' = Writers(p) /\ \A q : Counting(p, q)' = Counting(p, q)
    BY <1>1, <1>4, HeardForm
<1>8. dups \in Nat /\ dups' = dups
    BY <1>1, <1>4, HeardForm
<1>9. CASE l.pc = "fail"
    BY <1>5, <1>9, EndKeeps
<1>10. CASE l.pc # "fail"
  <2>1. \/ /\ l.pc = "receive"
           /\ l.nb_writes = call[p].nb_writes + (IF x[2] = Empty THEN 1 ELSE 0)
        \/ l.pc = "ok" /\ x[2] = Empty /\ call[p].nb_writes + 1 >= Quorum(p)
      BY <1>1, <1>4, <1>10, CountWriteForm
  <2>2. {Empty} \in SUBSET Answer /\ call[p].nb_writes \in Nat
      BY <1>1 DEF Answer, CallRecord
  <2>3. call[p].nb_writes <= Slack(p, {Empty}) /\ Slack(p, {Empty}) \in Int
      BY <1>1, <1>6, <2>2, SlackInt DEF CallInv, WritesCounted
  <2>4. CASE l.pc = "receive"
    <3>1. Slack(p, {Empty})' = Slack(p, {Empty}) + (IF x[2] \in {Empty} THEN 1 ELSE 0)
        BY <1>1, <1>5, <2>2, <2>4, CountedSlack
    <3>2. l.nb_writes <= Slack(p, {Empty})'
        BY <2>1, <2>2, <2>3, <2>4, <3>1
    <3> QED
        BY <1>1, <1>5, <1>6, <2>4, <3>2 DEF CallInv, SentOnce, WritesCounted, PutReached
  <2>5. CASE l.pc = "ok"
    <3>1. x[2] \in {Empty} /\ call[p].nb_writes + 1 >= Quorum(p)
        BY <2>1, <2>5
    <3>2. Slack(p, {Empty}) + 1 <= Cardinality(Givers(p, {Empty})) + dups
        BY <1>1, <2>2, <3>1, SlackReached
    <3>3. Givers(p, {Empty}) = Writers(p) /\ Cardinality(Writers(p)) \in Nat
        BY <1>1, GiversTyped, ServerSet DEF Givers
    <3>4. Cardinality(Writers(p)) + dups >= Quorum(p) /\ Cardinality(Writers(p)) + dups >= 1
        BY <1>1, <1>8, <2>2, <2>3, <3>1, <3>2, <3>3
    <3>5. Cardinality(Writers(p)) + dups >= Needed(p)
        BY <1>1, <3>4 DEF Needed
    <3> QED
        BY <1>1, <1>5, <1>6, <1>7, <1>8, <2>5, <3>5
           DEF CallInv, SentOnce, WritesCounted, PutReached, Open
  <2> QED
      BY <1>10, <2>1, <2>4, <2>5
<1> QED
    BY <1>9, <1>10

LEMMA VotesKeep ==
    ASSUME Types, NEW p \in DOMAIN program, CallInv(p), program' = program, NEW x, NEW vote, HearsVote(p, x, vote)
    PROVE  CallInv(p)'
<1>1. /\ call[p].pc = "receive" /\ call[p] \in CallRecord /\ N(p) \in Nat /\ Quorum(p) \in Nat
      /\ UNCHANGED <<inbox, applied, answered, dups>> /\ x[2] \in Answer
      /\ x \in BagToSet(socket[p]) /\ ~ IsPut(p) /\ vote \in Outcomes(call[p].votes, x[2], Quorum(p))
    BY HeardTypes DEF HearsVote
<1>3. PICK l : l = Voted(p, x[2], vote)
    OBVIOUS
<1>4. l = Voted(p, x[2], vote) /\ x[2] \in Answer /\ Become(p, l, socket[p] (-) SetToBag({x}))
    BY <1>1, <1>3 DEF HearsVote
<1>5. /\ call'[p] = l
      /\ l.pc = "receive" => socket'[p] = socket[p] (-) SetToBag({x})
    BY <1>1, <1>4, HeardForm
<1>6. Open(p) /\ (IsPut(p)' <=> IsPut(p)) /\ Quorum(p)' = Quorum(p) /\ Needed(p)' = Needed(p)
    BY <1>1, <1>4, HeardForm DEF Open
<1>7. Writers(p)' = Writers(p) /\ \A q : Counting(p, q)' = Counting(p, q)
    BY <1>1, <1>4, HeardForm
<1>8. dups \in Nat /\ dups' = dups
    BY <1>1, <1>4, HeardForm
<1>9. CASE l.pc = "fail"
    BY <1>5, <1>9, EndKeeps
<1>10. CASE l.pc # "fail"
  <2> DEFINE r == x[2]
             slacks == Slacks(p)
             more == VoteLemmas!Raised(slacks, r)
  <2>1. /\ slacks \in [Answer -> Nat] /\ VoteLemmas!Backed(call[p].votes, slacks)
        /\ Quorum(p) = 0 => VoteLemmas!AllOnes(call[p].votes)
      BY <1>1, <1>6 DEF CallInv, VotesCounted
  <2>2. call[p].votes \in Votes!Table
      BY <1>1 DEF CallRecord
  <2>3. /\ vote.votes \in Votes!Table /\ VoteLemmas!Backed(vote.votes, more)
        /\ Quorum(p) = 0 /\ ~ vote.enough => VoteLemmas!AllOnes(vote.votes)
        /\ vote.enough /\ Quorum(p) <= CharHalf + 1 =>
              \E q \in Answer : /\ <<r, q>> \in VotePrefix
                                /\ more[q] >= IF Quorum(p) > 0 THEN Quorum(p) ELSE 2
    <3>1. r \in Answer /\ vote \in Outcomes(call[p].votes, r, Quorum(p))
        BY <1>1
    <3> HIDE DEF r, slacks
    <3> QED
        BY <1>1, <2>1, <2>2, <3>1, VoteMade
  <2>4. /\ more \in [Answer -> Nat]
        /\ \A q \in Answer : more[q] = IF <<r, q>> \in VotePrefix THEN slacks[q] + 1 ELSE slacks[q]
      BY <1>4, <2>1, RaisedSlack
  <2>5. \/ l.pc = "receive" /\ l.votes = vote.votes /\ ~ vote.enough
        \/ l.pc = "ok" /\ l.value = {r} /\ vote.enough
      BY <1>1, <1>4, <1>10, <2>3, VotedForm
  <2>6. r \in Answer /\ \A q \in Answer : r \in Below(q) <=> <<r, q>> \in VotePrefix
      BY <1>4 DEF Below
  <2> HIDE DEF more, r, slacks
  <2>7. CASE l.pc = "receive"
    <3>1. ASSUME NEW q \in Answer PROVE Slack(p, Below(q))' = more[q]
      <4>1. Slack(p, Below(q))' = Slack(p, Below(q)) + (IF x[2] \in Below(q) THEN 1 ELSE 0)
          BY <1>1, <1>5, <2>7, BelowAnswers, CountedSlack
      <4>2. slacks[q] = Slack(p, Below(q)) /\ slacks[q] \in Nat
          BY <2>1 DEF Slacks, slacks
      <4>3. x[2] \in Below(q) <=> <<r, q>> \in VotePrefix
          BY <2>6 DEF r
      <4>4. more[q] = slacks[q] + (IF x[2] \in Below(q) THEN 1 ELSE 0)
          BY <2>4, <4>2, <4>3
      <4> QED
          BY <4>1, <4>2, <4>4
    <3>2. Slacks(p)' = [q \in Answer |-> Slack(p, Below(q))']
        BY DEF Slacks, Below
    <3>3. Slacks(p)' = more
        BY <2>4, <3>1, <3>2
    <3>4. VotesCounted(p)'
        BY <1>5, <1>6, <2>3, <2>4, <2>5, <2>7, <3>3 DEF VotesCounted
    <3> QED
        BY <1>1, <1>5, <1>6, <2>7, <3>4 DEF CallInv, SentOnce, GetReached
  <2>8. CASE l.pc = "ok"
    <3>1. ASSUME Quorum(p) <= CharHalf + 1
          PROVE  \E q \in Answer : <<r, q>> \in VotePrefix /\ Cardinality(Counting(p, q)) + dups >= Needed(p)
      <4>1. PICK q \in Answer : /\ <<r, q>> \in VotePrefix
                                /\ more[q] >= IF Quorum(p) > 0 THEN Quorum(p) ELSE 2
          BY <2>3, <2>5, <2>8, <3>1
      <4>2. more[q] >= Needed(p)
          BY <1>1, <4>1 DEF Needed
      <4>3. more[q] = Slack(p, Below(q)) + 1
          BY <2>4, <4>1 DEF Slacks, slacks
      <4>4. Below(q) \in SUBSET Answer /\ x[2] \in Below(q)
          BY <2>6, <4>1, BelowAnswers DEF r
      <4>5. Slack(p, Below(q)) + 1 <= Cardinality(Givers(p, Below(q))) + dups
          BY <1>1, <4>4, SlackReached
      <4>6. Givers(p, Below(q)) = Counting(p, q)
          BY <1>1 DEF Givers, Counting, Below
      <4>7. Slack(p, Below(q)) \in Int /\ Needed(p) \in Nat /\ Cardinality(Counting(p, q)) \in Nat
        <5>1. Counting(p, q) \subseteq Server
            BY DEF Counting
        <5> QED
            BY <1>1, <4>4, <5>1, SlackInt, ServerSet DEF Needed
      <4>8. Cardinality(Counting(p, q)) + dups >= Needed(p)
          BY <1>8, <4>2, <4>3, <4>5, <4>6, <4>7
      <4> QED
          BY <4>1, <4>8
    <3>2. GetReached(p)'
        BY <1>5, <1>6, <1>7, <1>8, <2>5, <2>8, <3>1 DEF GetReached
    <3> QED
        BY <1>1, <1>5, <1>6, <2>8, <3>2 DEF CallInv, SentOnce, VotesCounted, Open
  <2> QED
      BY <2>5, <2>7, <2>8
<1> QED
    BY <1>9, <1>10

\* Only the number of the attempt changes.
LEMMA TimeoutForm ==
    ASSUME Types, NEW p \in DOMAIN program, Timeout(p)
    PROVE  /\ UNCHANGED <<inbox, applied, answered, dups>>
           /\ call[p].pc = "receive"
           /\ \E l \in CallRecord :
                 /\ call' = [call EXCEPT ![p] = l] /\ l.value \in SUBSET call[p].value
                 /\ socket' = [socket EXCEPT ![p] = IF l.pc \in {"send", "receive"}
                                                    THEN socket[p] ELSE EmptyBag]
                 /\ \/ /\ l.pc = "receive" /\ l.i < N(p)
                       /\ l.nb_writes = call[p].nb_writes /\ l.votes = call[p].votes
                    \/ l.pc = "fail"
<1>1. call[p] \in CallRecord /\ call[p].pc = "receive" /\ call[p].value \in SUBSET Answer
    BY CallTyped DEF Types, Timeout, CallRecord
<1>2. N(p) \in Nat
    BY CallFacts DEF Types
<1>3. PICK l : l = NextAttempt(p, call[p])
    OBVIOUS
<1>4. /\ l \in CallRecord /\ l.value \in SUBSET call[p].value
      /\ \/ /\ l.pc = "receive" /\ l.i < N(p)
            /\ l.nb_writes = call[p].nb_writes /\ l.votes = call[p].votes
         \/ l.pc = "fail"
    BY <1>1, <1>2, <1>3, AttemptLocals
<1>5. Become(p, l, socket[p]) /\ UNCHANGED <<inbox, applied, answered, dups>>
    BY <1>3 DEF Timeout, history
<1> QED
    BY <1>1, <1>4, <1>5 DEF Become

LEMMA TimeoutKeeps ==
    ASSUME Types, NEW p \in DOMAIN program, CallInv(p), Timeout(p), program' = program
    PROVE  CallInv(p)'
<1>1. UNCHANGED <<inbox, applied, answered, dups>> /\ call[p].pc = "receive"
    BY TimeoutForm
<1>2. PICK l \in CallRecord :
         /\ call' = [call EXCEPT ![p] = l]
         /\ socket' = [socket EXCEPT ![p] = IF l.pc \in {"send", "receive"} THEN socket[p] ELSE EmptyBag]
         /\ \/ /\ l.pc = "receive"
               /\ l.nb_writes = call[p].nb_writes /\ l.votes = call[p].votes
            \/ l.pc = "fail"
    BY TimeoutForm
<1>3. call'[p] = l /\ (l.pc = "receive" => socket'[p] = socket[p])
    BY <1>2 DEF Types, CallsOK
<1>4. CASE l.pc = "fail"
    BY <1>3, <1>4, EndKeeps
<1>5. CASE l.pc = "receive"
  <2>1. \A Q : Slack(p, Q)' = Slack(p, Q)
      BY <1>1, <1>3, <1>5 DEF Slack, Givers, Writers, IsPut
  <2>2. Slacks(p)' = Slacks(p)
    <3>1. Slacks(p)' = [q \in Answer |-> Slack(p, Below(q))']
        BY DEF Slacks, Below
    <3> QED
        BY <2>1, <3>1 DEF Slacks
  <2>3. Open(p) /\ (IsPut(p)' <=> IsPut(p)) /\ Quorum(p)' = Quorum(p)
      BY <1>1 DEF Open, IsPut, Quorum
  <2>4. IsPut(p) => WritesCounted(p)'
    <3>1. IsPut(p) => call[p].nb_writes <= Slack(p, {Empty})
        BY <2>3 DEF CallInv, WritesCounted
    <3> QED
        BY <1>2, <1>3, <1>5, <2>1, <3>1 DEF WritesCounted
  <2>5. ~ IsPut(p) => VotesCounted(p)'
      BY <1>2, <1>3, <1>5, <2>2, <2>3 DEF CallInv, VotesCounted
  <2> QED
      BY <1>3, <1>5, <2>3, <2>4, <2>5 DEF CallInv, SentOnce, PutReached, GetReached
<1> QED
    BY <1>2, <1>4, <1>5

----------------------------------------------------------------------------

(***************************************************************************)
(* A step of a client: types.                                              *)
(***************************************************************************)

\* The locals l of call p, whose socket holds w while it is open.
LEMMA BecomeTypes ==
    ASSUME Types, program' = program, NEW p \in DOMAIN program, NEW l \in CallRecord, NEW w,
           Become(p, l, w),
           l.pc \in {"send", "receive"} =>
               /\ l.i < N(p) /\ IsABag(w) /\ BagToSet(w) \subseteq BagToSet(socket[p])
               /\ IsFiniteSet(Waiting(w, Answer)),
           ~ IsPut(p) => l.value \subseteq Value /\ (l.pc = "ok" => l.value # {})
    PROVE  CallsOK'
<1>1. CASE l.pc \in {"send", "receive"}
  <2>1. call' = [call EXCEPT ![p] = l] /\ socket' = [socket EXCEPT ![p] = w]
      BY <1>1 DEF Become
  <2> QED
      BY <1>1, <2>1, BecameTypes
<1>2. CASE l.pc \notin {"send", "receive"}
  <2>1. call' = [call EXCEPT ![p] = l] /\ socket' = [socket EXCEPT ![p] = EmptyBag]
      BY <1>2 DEF Become
  <2> QED
      BY <1>2, <2>1, BecameTypes
<1> QED
    BY <1>1, <1>2

\* The socket of a call, and what is left of it when an answer is taken.
LEMMA SocketLeft ==
    ASSUME Types, NEW p \in DOMAIN program
    PROVE  /\ IsABag(socket[p]) /\ IsFiniteSet(Waiting(socket[p], Answer))
           /\ \A x \in BagToSet(socket[p]) :
                 LET left == socket[p] (-) SetToBag({x})
                 IN  /\ IsABag(left) /\ BagToSet(left) \subseteq BagToSet(socket[p])
                     /\ IsFiniteSet(Waiting(left, Answer))
<1>1. IsABag(socket[p]) /\ IsFiniteSet(Waiting(socket[p], Answer))
    BY CallTyped DEF Types
<1> QED
    BY <1>1, OneReceived

LEMMA StartTypes ==
    ASSUME Types, program' = program, NEW p \in DOMAIN program, Start(p)
    PROVE  CallsOK'
<1>1. CASE N(p) > 0 /\ Become(p, [NoCall EXCEPT !.pc = "send"], EmptyBag)
  <2>1. IsABag(EmptyBag) /\ BagToSet(EmptyBag) = {} /\ IsFiniteSet(Waiting(EmptyBag, Answer))
      BY NoneWaiting, FS_EmptySet
  <2> DEFINE l == [NoCall EXCEPT !.pc = "send"]
  <2>2. l \in CallRecord /\ l.pc = "send" /\ l.i < N(p) /\ l.value = {} /\ Become(p, l, EmptyBag)
      BY <1>1, Locals
  <2> HIDE DEF l
  <2>3. l.value \subseteq Value /\ l.pc # "ok" /\ BagToSet(EmptyBag) \subseteq BagToSet(socket[p])
      BY <2>1, <2>2
  <2> QED
      BY <2>1, <2>2, <2>3, BecomeTypes
<1>2. ASSUME NEW pc \in {"error", "killed"}, Become(p, Done(pc, {}), EmptyBag)
      PROVE  CallsOK'
  <2> DEFINE l == Done(pc, {})
  <2>1. l \in CallRecord /\ l.pc = pc /\ l.value = {} /\ Become(p, l, EmptyBag)
      BY <1>2, DoneLocals
  <2> HIDE DEF l
  <2> QED
      BY <2>1, BecomeTypes
<1> QED
    BY <1>1, <1>2 DEF Start

LEMMA SendTypes ==
    ASSUME Types, program' = program, NEW p \in DOMAIN program, Send(p)
    PROVE  CallsOK' /\ RequestsOK'
<1>1. /\ call[p].pc = "send" /\ servers_to_contact(p)[call[p].i + 1] \in Server
      /\ Sent(p) \in CallRecord /\ Sent(p).value = call[p].value
      /\ Sent(p).pc \in {"send", "receive"} /\ Sent(p).i < N(p)
    BY SendForm
<1>2. PICK n \in 0..2 : inbox' = Sending(inbox, servers_to_contact(p)[call[p].i + 1], n, p)
    BY SendForm
<1>3. CallsOK'
  <2>1. Become(p, Sent(p), socket[p])
      BY DEF Send
  <2>2. ~ IsPut(p) => Sent(p).value \subseteq Value
      BY <1>1, CallTyped DEF Types, CallOK
  <2>3. ~ IsPut(p) => Sent(p).value \subseteq Value /\ (Sent(p).pc = "ok" => Sent(p).value # {})
      BY <1>1, <2>2
  <2> QED
      BY <1>1, <2>1, <2>3, SocketLeft, BecomeTypes
<1>4. RequestsOK'
  <2> DEFINE s == servers_to_contact(p)[call[p].i + 1]
             more == Sending(inbox, s, n, p)
  <2>1. inbox \in Boxes(DOMAIN program) /\ \A o \in DOMAIN program : IsFiniteSet(Requests(inbox, o))
      BY DEF Types, RequestsOK, Boxes
  <2>2. s \in Server
      BY <1>1
  <2> HIDE DEF s
  <2>3. more \in Boxes(DOMAIN program) /\ \A o \in DOMAIN program : IsFiniteSet(Requests(more, o))
    <3>1. more \in Boxes(DOMAIN program)
        BY <2>1, <2>2, CopiesSent
    <3>2. ASSUME NEW o \in DOMAIN program PROVE IsFiniteSet(Requests(more, o))
        BY <2>1, <2>2, CopiesSent
    <3> QED
        BY <3>1, <3>2
  <2>4. inbox' = more
      BY <1>2 DEF s
  <2> HIDE DEF more
  <2> QED
      BY <2>3, <2>4 DEF RequestsOK, Boxes
<1> QED
    BY <1>3, <1>4

LEMMA HearsTypes ==
    ASSUME Types, program' = program, NEW p \in DOMAIN program, CallInv(p), Hears(p)
    PROVE  CallsOK'
<1>1. ASSUME NEW x, HearsWrite(p, x) PROVE CallsOK'
  <2>1. /\ call[p] \in CallRecord /\ N(p) \in Nat /\ Quorum(p) \in Nat
        /\ x[2] \in Answer /\ call[p].pc = "receive" /\ IsPut(p) /\ x \in BagToSet(socket[p])
      BY <1>1, HeardTypes DEF HearsWrite
  <2>2. PICK l : l = CountWrite(p, x[2])
      OBVIOUS
  <2>3. l \in CallRecord /\ (l.pc \in {"send", "receive"} => l.i < N(p))
      BY <2>1, <2>2, CountWriteForm
  <2>4. Become(p, l, socket[p] (-) SetToBag({x}))
      BY <1>1, <2>2 DEF HearsWrite
  <2> QED
      BY <2>1, <2>3, <2>4, SocketLeft, BecomeTypes
<1>2. ASSUME NEW x, NEW vote, HearsVote(p, x, vote) PROVE CallsOK'
  <2> DEFINE r == x[2]
  <2>1. /\ call[p] \in CallRecord /\ N(p) \in Nat /\ Quorum(p) \in Nat /\ Open(p)
        /\ r \in Answer /\ r \in Value /\ call[p].pc = "receive" /\ ~ IsPut(p)
        /\ vote \in Outcomes(call[p].votes, r, Quorum(p)) /\ x \in BagToSet(socket[p])
      BY <1>2, HeardTypes DEF HearsVote
  <2>2. PICK l : l = Voted(p, r, vote)
      OBVIOUS
  <2>3. Become(p, l, socket[p] (-) SetToBag({x}))
      BY <1>2, <2>2 DEF HearsVote
  <2> HIDE DEF r
  <2>4. /\ Slacks(p) \in [Answer -> Nat] /\ VoteLemmas!Backed(call[p].votes, Slacks(p))
        /\ Quorum(p) = 0 => VoteLemmas!AllOnes(call[p].votes)
        /\ call[p].votes \in Votes!Table
      BY <2>1 DEF CallInv, VotesCounted, CallRecord
  <2>5. vote.votes \in Votes!Table
      BY <2>1, <2>4, VoteMade
  <2>6. /\ l \in CallRecord
        /\ l.pc \in {"send", "receive"} => l.i < N(p)
        /\ l.value = call[p].value \/ l.value = {} \/ l.value = {r}
        /\ l.pc = "ok" => l.value = {r}
      BY <2>1, <2>2, <2>5, VotedForm
  <2>7. call[p].value \subseteq Value
      BY <2>1, CallTyped DEF Types, CallOK
  <2>8. l.value \subseteq Value /\ (l.pc = "ok" => l.value # {})
      BY <2>1, <2>6, <2>7
  <2> QED
      BY <2>1, <2>3, <2>6, <2>8, SocketLeft, BecomeTypes
<1> QED
    BY <1>1, <1>2 DEF Hears

LEMMA TimeoutTypes ==
    ASSUME Types, program' = program, NEW p \in DOMAIN program, Timeout(p)
    PROVE  CallsOK'
<1>1. PICK l : l = NextAttempt(p, call[p])
    OBVIOUS
<1>2. Become(p, l, socket[p])
    BY <1>1 DEF Timeout
<1>3. call[p] \in CallRecord /\ call[p].pc = "receive" /\ call[p].value \in SUBSET Answer
    BY CallTyped DEF Types, Timeout, CallRecord
<1>4. N(p) \in Nat
    BY CallFacts DEF Types
<1>5. /\ l \in CallRecord /\ l.value \in SUBSET call[p].value /\ l.pc # "ok"
      /\ l.pc \in {"send", "receive"} => l.i < N(p)
    BY <1>1, <1>3, <1>4, AttemptLocals
<1>6. ~ IsPut(p) => call[p].value \subseteq Value
    BY CallTyped DEF Types, CallOK
<1> QED
    BY <1>2, <1>5, <1>6, SocketLeft, BecomeTypes

LEMMA SendFailsForm ==
    ASSUME Types, program' = program, NEW p \in DOMAIN program, SendFails(p)
    PROVE  CallsOK' /\ CallInv(p)' /\ UNCHANGED <<inbox, applied, answered, dups>>
<1> DEFINE l == Done("error", {})
<1>1. l \in CallRecord /\ l.pc = "error" /\ l.value = {}
    BY DoneLocals
<1>2. Become(p, l, EmptyBag) /\ UNCHANGED <<inbox, applied, answered, dups>>
    BY DEF SendFails, history
<1> HIDE DEF l
<1>3. CallsOK'
    BY <1>1, <1>2, BecomeTypes
<1>4. call'[p] = l
    BY <1>2 DEF Become, Types, CallsOK
<1>5. CallInv(p)'
    BY <1>1, <1>4, EndKeeps
<1> QED
    BY <1>2, <1>3, <1>5

\* A step of call p that sends nothing.
LEMMA QuietStep ==
    ASSUME Types, program' = program, NEW p \in DOMAIN program, \A o \in DOMAIN program : CallInv(o),
           UNCHANGED <<store, inbox, applied, answered, dups>>, NEW l, NEW w, Become(p, l, w),
           CallsOK', CallInv(p)'
    PROVE  CallsOK' /\ RequestsOK' /\ ServersOK' /\ \A o \in DOMAIN program : CallInv(o)'
<1>1. SameCalls
    BY SameProgram
<1>2. RequestsOK' /\ ServersOK'
    BY <1>1, SameNeeds DEF Types, RequestsOK, ServersOK
<1>3. ASSUME NEW o \in DOMAIN program, o # p PROVE CallInv(o)'
  <2>1. call'[o] = call[o] /\ socket'[o] = socket[o]
      BY <1>3 DEF Become, Types, CallsOK
  <2>2. 0 \in Nat /\ dups' = dups + 0
      BY DEF Types, ServersOK
  <2>3. Steady(o)
      BY <1>3, <2>1, <2>2, OthersSteady
  <2> QED
      BY <1>1, <1>2, <2>1, <2>3, SteadyKeeps
<1> QED
    BY <1>2, <1>3

LEMMA ClientStep ==
    ASSUME DhtInv, program' = program, NEW p \in DOMAIN program, Client(p)
    PROVE  CallsOK' /\ RequestsOK' /\ ServersOK' /\ \A o \in DOMAIN program : CallInv(o)'
<1>1. Types /\ \A o \in DOMAIN program : CallInv(o)
    BY DEF DhtInv
<1>2. CASE Start(p)
  <2>1. CallsOK' /\ CallInv(p)'
      BY <1>1, <1>2, StartTypes, StartKeeps
  <2>2. \E l : \E w : Become(p, l, w)
      BY <1>2 DEF Start
  <2>3. UNCHANGED <<store, inbox, applied, answered, dups>>
      BY <1>2 DEF Start
  <2> QED
      BY <1>1, <2>1, <2>2, <2>3, QuietStep
<1>3. CASE Send(p)
  <2> DEFINE s == servers_to_contact(p)[call[p].i + 1]
  <2>1. /\ s \in Server /\ call' = [call EXCEPT ![p] = Sent(p)]
        /\ socket' = [socket EXCEPT ![p] = socket[p]]
      BY <1>1, <1>3, SendForm
  <2>2. PICK n \in 0..2 : inbox' = Sending(inbox, s, n, p) /\ dups' = dups + (IF n = 2 THEN 1 ELSE 0)
      BY <1>1, <1>3, SendForm
  <2>3. UNCHANGED <<store, applied, answered>>
      BY <1>3 DEF Send
  <2> HIDE DEF s
  <2>4. PICK d \in Nat : dups' = dups + d
      BY <2>2
  <2>5. CallsOK' /\ RequestsOK' /\ SameCalls
      BY <1>1, <1>3, SendTypes, SameProgram
  <2>6. ServersOK'
      BY <1>1, <2>3, <2>4, <2>5, SameNeeds DEF Types, ServersOK
  <2>7. CallInv(p)'
      BY <1>1, <1>3, <2>5, <2>6, SendKeeps
  <2>8. ASSUME NEW o \in DOMAIN program, o # p PROVE CallInv(o)'
    <3>1. call'[o] = call[o] /\ socket'[o] = socket[o]
        BY <1>1, <2>1, <2>8 DEF Types, CallsOK
    <3>2. Steady(o)
        BY <1>1, <2>1, <2>2, <2>3, <2>4, <2>8, <3>1, OthersSteady
    <3> QED
        BY <1>1, <2>5, <2>6, <3>1, <3>2, SteadyKeeps
  <2> QED
      BY <2>5, <2>6, <2>7, <2>8
<1>4. CASE SendFails(p)
  <2>1. CallsOK' /\ CallInv(p)' /\ UNCHANGED <<inbox, applied, answered, dups>>
      BY <1>1, <1>4, SendFailsForm
  <2>2. UNCHANGED store /\ \E l : \E w : Become(p, l, w)
      BY <1>4 DEF SendFails
  <2>3. UNCHANGED <<store, inbox, applied, answered, dups>>
      BY <2>1, <2>2
  <2> QED
      BY <1>1, <2>1, <2>2, <2>3, QuietStep
<1>5. CASE Receive(p) \/ LoseVotes(p)
  <2>0. Hears(p)
      BY <1>5, HearsForm
  <2>1. CallsOK' /\ CallInv(p)'
      BY <1>1, <2>0, HearsTypes, AcknowledgeKeeps, VotesKeep DEF Hears
  <2>2. \E l : \E w : Become(p, l, w)
      BY <2>0, Zenon DEF Hears, HearsWrite, HearsVote
  <2>3. UNCHANGED <<store, inbox, applied, answered, dups>>
      BY <2>0, Zenon DEF Hears, HearsWrite, HearsVote
  <2> QED
      BY <1>1, <2>1, <2>2, <2>3, QuietStep
<1>6. CASE Timeout(p)
  <2>1. CallsOK' /\ CallInv(p)'
      BY <1>1, <1>6, TimeoutTypes, TimeoutKeeps
  <2>2. \E l : \E w : Become(p, l, w)
      BY <1>6 DEF Timeout
  <2>3. UNCHANGED <<store, inbox, applied, answered, dups>>
      BY <1>6 DEF Timeout, history
  <2> QED
      BY <1>1, <2>1, <2>2, <2>3, QuietStep
<1> QED
    BY <1>2, <1>3, <1>4, <1>5, <1>6 DEF Client

LEMMA ServerStep ==
    ASSUME DhtInv, program' = program, NEW s \in Server, Serve(s) \/ Restart(s)
    PROVE  CallsOK' /\ RequestsOK' /\ ServersOK' /\ \A o \in DOMAIN program : CallInv(o)'
<1>1. Types /\ \A o \in DOMAIN program : CallInv(o)
    BY DEF DhtInv
<1>2. SameCalls
    BY SameProgram
<1>3. CASE Serve(s)
  <2>1. PICK j \in 1..Len(inbox[s]), n \in 0..2, x \in Answer : ServedAs(s, j, n, x)
      BY <1>1, <1>3, ServeForm
  <2>2. CallsOK' /\ RequestsOK' /\ ServersOK'
      BY <1>1, <2>1, ServedTypes
  <2>3. \A o \in DOMAIN program : Steady(o)
      BY <1>1, <2>1, ServedSteady
  <2>4. call' = call
      BY <2>1 DEF ServedAs
  <2> QED
      BY <1>1, <1>2, <2>2, <2>3, <2>4, SteadyKeeps
<1>4. CASE Restart(s)
  <2>1. CallsOK' /\ RequestsOK' /\ ServersOK'
      BY <1>1, <1>4, RestartTypes
  <2>2. \A o \in DOMAIN program : Steady(o)
      BY <1>1, <1>4, RestartSteady
  <2>3. call' = call
      BY <1>4 DEF Restart
  <2> QED
      BY <1>1, <1>2, <2>1, <2>2, <2>3, SteadyKeeps
<1> QED
    BY <1>3, <1>4

----------------------------------------------------------------------------

(***************************************************************************)
(* The processes: which calls a command line makes.                        *)
(***************************************************************************)
LEMMA CallsOfCommand ==
    ASSUME NEW m \in Command
    PROVE  /\ Len(CallsOf(m)) \in Nat /\ DOMAIN CallsOf(m) = 1..Len(CallsOf(m))
           /\ m.name = "cat" => /\ Len(CallsOf(m)) = Len(m.argv)
                                /\ \A n \in 1..(Len(CallsOf(m)) - 1) : CallsOf(m)[n].kind = "get"
           /\ m.name \in {"find", "substr"} => Len(CallsOf(m)) = 2
           /\ m.name # "cat" => Len(CallsOf(m)) >= 1
<1>1. m.name \in Names /\ m.argv \in Seq(Key \cup Value)
    BY DEF Command
<1>2. Len(m.argv) \in Nat /\ DOMAIN m.argv = 1..Len(m.argv)
    BY <1>1
<1>3. CASE m.name \in {"put", "get"}
  <2>1. \E call1 : CallsOf(m) = <<call1>>
      BY <1>3 DEF CallsOf
  <2>2. Len(CallsOf(m)) = 1 /\ DOMAIN CallsOf(m) = 1..1
      BY <2>1
  <2> QED
      BY <1>3, <2>2
<1>4. CASE m.name = "cat"
  <2>1. CallsOf(m) = [n \in DOMAIN m.argv |-> IF n < Len(m.argv) THEN GetCall(m, m.argv[n])
                                                                ELSE PutCall(m, m.argv[n], Empty)]
      BY <1>4 DEF CallsOf
  <2>2. CallsOf(m) = [n \in 1..Len(m.argv) |-> IF n < Len(m.argv) THEN GetCall(m, m.argv[n])
                                                                ELSE PutCall(m, m.argv[n], Empty)]
      BY <1>2, <2>1
  <2>3. DOMAIN CallsOf(m) = 1..Len(m.argv) /\ Len(CallsOf(m)) = Len(m.argv)
      BY <1>2, <2>2
  <2>4. ASSUME NEW n \in 1..(Len(m.argv) - 1) PROVE CallsOf(m)[n].kind = "get"
    <3>1. n \in 1..Len(m.argv) /\ n < Len(m.argv)
        BY <1>2
    <3>2. CallsOf(m)[n] = GetCall(m, m.argv[n])
        BY <2>2, <3>1
    <3> QED
        BY <3>2 DEF GetCall
  <2> QED
      BY <1>2, <1>4, <2>3, <2>4
<1>5. CASE m.name \in {"find", "substr"}
  <2>1. CallsOf(m) = [n \in {1, 2} |-> GetCall(m, m.argv[n])]
      BY <1>5 DEF CallsOf
  <2>2. {1, 2} = 1..2
      OBVIOUS
  <2>3. CallsOf(m) = [n \in 1..2 |-> GetCall(m, m.argv[n])]
      BY <2>1, <2>2
  <2>4. DOMAIN CallsOf(m) = 1..2 /\ Len(CallsOf(m)) = 2
      BY <2>3
  <2> QED
      BY <1>5, <2>4
<1> QED
    BY <1>1, <1>3, <1>4, <1>5 DEF Names

LEMMA CallsOfProcess ==
    ASSUME ProgramOK, ProcessesOK, NEW c \in DOMAIN command
    PROVE  /\ LastCall(c) \in Nat
           /\ at[c] \in 1..LastCall(c) => Call(c) \in DOMAIN program
           /\ ~ Refused(c) => at[c] \in 1..LastCall(c)
           /\ command[c].name = "cat" /\ at[c] < LastCall(c) =>
                 at[c] \in 1..LastCall(c) /\ ~ IsPut(Call(c))
<1>1. command[c] \in Command /\ at[c] \in {1} \cup 1..LastCall(c)
    BY DEF ProcessesOK
<1>2. LastCall(c) \in Nat /\ DOMAIN CallsOf(command[c]) = 1..LastCall(c)
    BY <1>1, CallsOfCommand DEF LastCall
<1>3. ASSUME at[c] \in 1..LastCall(c)
      PROVE  Call(c) \in DOMAIN program /\ program[Call(c)].kind = CallsOf(command[c])[at[c]].kind
  <2>1. <<c, at[c]>> \in {c} \X DOMAIN CallsOf(command[c])
      BY <1>2, <1>3
  <2>2. <<c, at[c]>> \in DOMAIN ProgramOf(command)
      BY <2>1 DEF ProgramOf
  <2>3. ProgramOf(command)[<<c, at[c]>>] = CallsOf(command[c])[at[c]]
      BY <2>2 DEF ProgramOf
  <2>4. /\ <<c, at[c]>> \in DOMAIN program
        /\ program[<<c, at[c]>>] \in Calls
        /\ program[<<c, at[c]>>] = [ProgramOf(command)[<<c, at[c]>>] EXCEPT !.value = program[<<c, at[c]>>].value]
      BY <2>2 DEF ProgramOK
  <2>5. program[<<c, at[c]>>].kind = ProgramOf(command)[<<c, at[c]>>].kind
      BY <2>4 DEF Calls
  <2> QED
      BY <2>3, <2>4, <2>5 DEF Call
<1>4. ASSUME ~ Refused(c) PROVE at[c] \in 1..LastCall(c)
  <2>1. CASE command[c].name = "cat"
    <3>1. ~ Len(command[c].argv) < 2
        BY <1>4, <2>1 DEF Refused
    <3>2. LastCall(c) = Len(command[c].argv)
        BY <1>1, <2>1, CallsOfCommand DEF LastCall
    <3> QED
        BY <1>1, <1>2, <3>1, <3>2
  <2>2. CASE command[c].name # "cat"
    <3>1. LastCall(c) >= 1
        BY <1>1, <2>2, CallsOfCommand DEF LastCall
    <3> QED
        BY <1>1, <1>2, <3>1
  <2> QED
      BY <2>1, <2>2
<1>5. ASSUME command[c].name = "cat", at[c] < LastCall(c)
      PROVE  at[c] \in 1..LastCall(c) /\ ~ IsPut(Call(c))
  <2>1. at[c] \in 1..LastCall(c) /\ at[c] \in 1..(LastCall(c) - 1)
      BY <1>1, <1>2, <1>5
  <2>2. CallsOf(command[c])[at[c]].kind = "get"
      BY <1>1, <1>5, <2>1, CallsOfCommand DEF LastCall
  <2> QED
      BY <1>3, <2>1, <2>2 DEF IsPut
<1> QED
    BY <1>2, <1>3, <1>4, <1>5

\* What a get has returned.
LEMMA ResultValue ==
    ASSUME Types, NEW o \in DOMAIN program, ~ IsPut(o), call[o].pc = "ok"
    PROVE  result(o) \in Value
<1>1. call[o].value \subseteq Value /\ call[o].value # {}
    BY CallTyped DEF Types, CallOK
<1>2. \E v \in call[o].value : TRUE
    BY <1>1
<1>3. result(o) \in call[o].value
    BY <1>2, Zenon DEF result
<1> QED
    BY <1>1, <1>3

LEMMA JoinedValue ==
    ASSUME ProcessesOK, NEW c \in DOMAIN command, NEW value \in Value, Fits(c, value)
    PROVE  Joined(c, value) \in Value /\ ~ TooLong(Joined(c, value))
<1> DEFINE S == UNION {Range(v) : v \in Value}
           old == concatenation[c]
<1>1. /\ Value \subseteq Seq(S) /\ MAX_MSG_ELEM_SIZE \in Nat
      /\ \A v, w \in Value : Len(v) + Len(w) < MAX_MSG_ELEM_SIZE => v \o w \in Value
    BY ClientsAssumption
<1>2. old \in Value
    BY DEF ProcessesOK
<1> HIDE DEF S, old
<1>3. old \in Seq(S) /\ value \in Seq(S)
    BY <1>1, <1>2
<1>4. Len(old) \in Nat /\ Len(value) \in Nat /\ Len(old \o value) = Len(old) + Len(value)
    BY <1>3, ConcatProperties
<1>5. Len(old) + Len(value) < MAX_MSG_ELEM_SIZE
    BY <1>4 DEF Fits, old
<1>6. old \o value \in Value /\ ~ Len(old \o value) > MAX_MSG_ELEM_SIZE
    BY <1>1, <1>2, <1>4, <1>5
<1> QED
    BY <1>6 DEF Joined, TooLong, old

\* A step that leaves the calls and the processes' commands alone.
LEMMA ProgramKept ==
    ASSUME ProgramOK, UNCHANGED <<program, net, command>> PROVE ProgramOK'
BY DEF ProgramOK

LEMMA ProcessesKept ==
    ASSUME ProcessesOK, UNCHANGED clientVars PROVE ProcessesOK'
BY DEF ProcessesOK, LastCall, clientVars

\* A step of a process between its calls: at most the value that cat puts changes.
LEMMA StateKept ==
    ASSUME DhtInv, SameCalls, UNCHANGED <<store, inbox, socket, call, applied, answered, dups>>
    PROVE  CallsOK' /\ RequestsOK' /\ ServersOK' /\ \A o \in DOMAIN program : CallInv(o)'
<1>1. Types /\ \A o \in DOMAIN program : CallInv(o)
    BY DEF DhtInv
<1>2. /\ Gets' = Gets /\ DOMAIN program' = DOMAIN program
      /\ \A o \in DOMAIN program : N(o)' = N(o) /\ (IsPut(o)' <=> IsPut(o))
    BY SameNeeds DEF SameCalls
<1>3. CallsOK' /\ RequestsOK' /\ ServersOK'
    BY <1>1, <1>2 DEF Types, CallsOK, CallOK, RequestsOK, ServersOK
<1>4. ASSUME NEW o \in DOMAIN program PROVE CallInv(o)'
  <2>1. \A Q : Givers(o, Q)' = Givers(o, Q) /\ Slack(o, Q)' = Slack(o, Q)
      BY <1>2 DEF Givers, Writers, Slack
  <2>2. Touched(o)' = Touched(o)
      BY <2>1 DEF Touched
  <2>3. dups <= dups'
      BY <1>1 DEF Types, ServersOK
  <2>4. \A Q \in SUBSET Answer : Slack(o, Q) <= Slack(o, Q)'
      BY <1>1, <2>1, SlackInt
  <2>5. Writers(o)' = Writers(o) /\ answered' = answered
      BY DEF Writers
  <2>6. Steady(o)
      BY <2>2, <2>3, <2>4, <2>5 DEF Steady
  <2> QED
      BY <1>1, <1>3, <2>6, SteadyKeeps
<1> QED
    BY <1>3, <1>4

\* What a process has printed.
LEMMA Printed ==
    ASSUME ProcessesOK, NEW c \in DOMAIN command, NEW what,
           what[1] \in {"OK", "FAIL", "KILLED"}, Prints(c, what), UNCHANGED <<command, at, concatenation>>
    PROVE  ProcessesOK'
<1>1. output' = [output EXCEPT ![c] = what] /\ DOMAIN output = DOMAIN command
    BY DEF Prints, ProcessesOK
<1>2. \A b \in DOMAIN command : output'[b] # <<>> => output'[b][1] \in {"OK", "FAIL", "KILLED"}
    BY <1>1 DEF ProcessesOK
<1>3. DOMAIN output' = DOMAIN command
    BY <1>1
<1> QED
    BY <1>2, <1>3 DEF ProcessesOK, LastCall

LEMMA ConcatenateKeeps ==
    ASSUME DhtInv, NEW c \in DOMAIN command, Concatenate(c)
    PROVE  DhtInv' /\ SameCalls
<1> DEFINE value == result(Call(c))
           joined == Joined(c, value)
           put == <<c, LastCall(c)>>
<1>1. /\ Types /\ ProgramOK /\ ProcessesOK /\ \A o \in DOMAIN program : CallInv(o)
      /\ DOMAIN output = DOMAIN command
    BY DEF DhtInv, Types, ProcessesOK
<1>2. /\ command[c].name = "cat" /\ at[c] < LastCall(c) /\ call[Call(c)].pc = "ok"
      /\ UNCHANGED <<net, store, inbox, socket, call, applied, answered, dups, command>>
    BY DEF Concatenate, chosen, history
<1>3. LastCall(c) \in Nat /\ at[c] \in 1..LastCall(c) /\ Call(c) \in DOMAIN program /\ ~ IsPut(Call(c))
    BY <1>1, <1>2, CallsOfProcess
<1>4. value \in Value
    BY <1>1, <1>2, <1>3, ResultValue
<1> HIDE DEF value
<1>5. CASE ~ Fits(c, value) /\ Prints(c, <<"FAIL">>) /\ UNCHANGED <<program, at, concatenation>>
  <2>1. <<"FAIL">>[1] \in {"OK", "FAIL", "KILLED"}
      OBVIOUS
  <2>2. ProcessesOK'
      BY <1>1, <1>2, <1>5, <2>1, Printed
  <2>3. ProgramOK'
      BY <1>1, <1>2, <1>5, ProgramKept
  <2>4. SameCalls
      BY <1>5, SameProgram
  <2>5. CallsOK' /\ RequestsOK' /\ ServersOK' /\ \A o \in DOMAIN program : CallInv(o)'
      BY <1>2, <2>4, StateKept
  <2> QED
      BY <1>5, <2>2, <2>3, <2>4, <2>5 DEF DhtInv, Types
<1>6. CASE /\ Fits(c, value)
           /\ concatenation' = [concatenation EXCEPT ![c] = joined]
           /\ at' = [at EXCEPT ![c] = @ + 1]
           /\ program' = IF at[c] + 1 = LastCall(c)
                         THEN [program EXCEPT ![put].value = joined] ELSE program
           /\ UNCHANGED output
  <2>1. joined \in Value /\ ~ TooLong(joined)
      BY <1>1, <1>4, <1>6, JoinedValue
  <2> HIDE DEF joined
  <2>2. ProcessesOK'
    <3>1. /\ concatenation' \in [DOMAIN command -> Value] /\ concatenation'[c] = joined
          /\ \A b \in DOMAIN command : b # c => concatenation'[b] = concatenation[b]
        BY <1>1, <1>6, <2>1 DEF ProcessesOK
    <3>2. /\ DOMAIN at' = DOMAIN command /\ at'[c] = at[c] + 1
          /\ \A b \in DOMAIN command : b # c => at'[b] = at[b]
        BY <1>1, <1>6 DEF ProcessesOK
    <3>3. at[c] + 1 \in 1..LastCall(c)
        BY <1>2, <1>3
    <3>4. \A b : LastCall(b)' = LastCall(b)
        BY <1>2 DEF LastCall
    <3>5. ASSUME NEW b \in DOMAIN command
          PROVE  at'[b] \in {1} \cup 1..LastCall(b) /\ ~ TooLong(concatenation'[b])
      <4>1. CASE b = c
          BY <2>1, <3>1, <3>2, <3>3, <4>1
      <4>2. CASE b # c
          BY <1>1, <3>1, <3>2, <4>2 DEF ProcessesOK
      <4> QED
          BY <4>1, <4>2
    <3> QED
        BY <1>1, <1>2, <1>6, <3>1, <3>2, <3>4, <3>5 DEF ProcessesOK, TooLong
  <2>3. ASSUME NEW o \in DOMAIN program
        PROVE  /\ program'[o] \in Calls
               /\ program'[o] = [program[o] EXCEPT !.value = program'[o].value]
               /\ program'[o].kind = program[o].kind /\ program'[o].key = program[o].key
               /\ program'[o].N = program[o].N /\ program'[o].W = program[o].W
               /\ program'[o].R = program[o].R
    <3>1. program[o] \in Calls
        BY <1>1 DEF ProgramOK
    <3>2. program'[o] = program[o] \/ program'[o] = [program[o] EXCEPT !.value = joined]
        BY <1>6
    <3> QED
        BY <2>1, <3>1, <3>2 DEF Calls
  <2>4. DOMAIN program' = DOMAIN program
      BY <1>6
  <2>5. ProgramOK'
    <3>1. ASSUME NEW o \in DOMAIN program
          PROVE  /\ program'[o].N <= Len(Contact[program'[o].key])
                 /\ program'[o] = [ProgramOf(command)[o] EXCEPT !.value = program'[o].value]
      <4>1. /\ program[o].N <= Len(Contact[program[o].key])
            /\ program[o] = [ProgramOf(command)[o] EXCEPT !.value = program[o].value]
          BY <1>1 DEF ProgramOK
      <4>2. [program[o] EXCEPT !.value = program'[o].value] =
               [ProgramOf(command)[o] EXCEPT !.value = program'[o].value]
          BY <4>1
      <4> QED
          BY <2>3, <4>1, <4>2
    <3> QED
        BY <1>1, <1>2, <2>3, <2>4, <3>1 DEF ProgramOK
  <2>6. SameCalls
    <3>1. ASSUME NEW o \in DOMAIN program
          PROVE  /\ IsPut(o)' <=> IsPut(o)
                 /\ Quorum(o)' = Quorum(o) /\ servers_to_contact(o)' = servers_to_contact(o)
        BY <2>3 DEF IsPut, Quorum, servers_to_contact
    <3> QED
        BY <2>4, <3>1 DEF SameCalls
  <2>7. CallsOK' /\ RequestsOK' /\ ServersOK' /\ \A o \in DOMAIN program : CallInv(o)'
      BY <1>2, <2>6, StateKept
  <2> QED
      BY <2>2, <2>4, <2>5, <2>6, <2>7 DEF DhtInv, Types
<1> QED
    BY <1>5, <1>6 DEF Concatenate, value, joined, put

----------------------------------------------------------------------------

(***************************************************************************)
(* The invariant holds at first, and every step of Clients keeps it.       *)
(***************************************************************************)
LEMMA DhtInit ==
    ASSUME InitClients PROVE DhtInv
<1>1. PICK c \in Scenarios : c.program = program /\ c.net = net /\ command = c.command
    BY DEF InitClients
<1>2. /\ \E d \in Scenarios : initial = d.stored
      /\ store = [s \in Server |-> initial]
      /\ inbox = [s \in Server |-> <<>>]
      /\ socket = [o \in DOMAIN program |-> EmptyBag]
      /\ call = [o \in DOMAIN program |-> NoCall]
      /\ applied = [s \in Server |-> {}]
      /\ answered = [o \in Gets |-> {}]
      /\ dups = 0
    BY DEF InitClients, Init
<1>3. /\ at = [b \in DOMAIN command |-> 1]
      /\ concatenation = [b \in DOMAIN command |-> Empty]
      /\ output = [b \in DOMAIN command |-> <<>>]
    BY DEF InitClients
<1>4. ServersOK
  <2>1. initial \in Store!Table
      BY <1>2, DhtAssumption
  <2> QED
      BY <1>2, <2>1 DEF ServersOK
<1>5. /\ \A o : Requests(inbox, o) = {} /\ Asked(inbox, o) = {}
      /\ inbox \in [Server -> Seq(DOMAIN program)]
  <2>1. Len(<<>>) = 0 /\ 1..0 = {} /\ <<>> \in Seq(DOMAIN program)
      OBVIOUS
  <2>2. \A s \in Server : 1..Len(inbox[s]) = {}
      BY <1>2, <2>1
  <2> QED
      BY <1>2, <2>1, <2>2 DEF Requests, Asked
<1>6. RequestsOK
    BY <1>5, FS_EmptySet DEF RequestsOK
<1>7. \A o \in DOMAIN program :
         /\ call[o] = NoCall /\ call[o].pc = "new" /\ call[o].value = {} /\ socket[o] = EmptyBag
    BY <1>2, Locals
<1>8. CallsOK
  <2>1. call \in [DOMAIN program -> CallRecord] /\ DOMAIN socket = DOMAIN program
      BY <1>2, Locals
  <2>2. /\ IsABag(EmptyBag) /\ BagToSet(EmptyBag) = {}
        /\ IsFiniteSet(Waiting(EmptyBag, Answer))
      BY NoneWaiting, FS_EmptySet
  <2>3. ASSUME NEW o \in DOMAIN program PROVE CallOK(o, call[o], socket[o])
      BY <1>7, <2>2 DEF CallOK
  <2> QED
      BY <2>1, <2>3 DEF CallsOK
<1>9. ProgramOK
  <2>1. /\ net \in Environments /\ DOMAIN program \subseteq Op
        /\ \A o \in DOMAIN program :
              program[o] \in Calls /\ program[o].N <= Len(Contact[program[o].key])
      BY <1>1, DhtAssumption
  <2>2. program = ProgramOf(command)
      BY <1>1, ClientsAssumption
  <2>3. \A o \in DOMAIN program : program[o] = [program[o] EXCEPT !.value = program[o].value]
      BY <2>1 DEF Calls
  <2> QED
      BY <2>1, <2>2, <2>3 DEF ProgramOK
<1>10. ProcessesOK
  <2>1. DOMAIN command \subseteq Proc /\ \A b \in DOMAIN command : command[b] \in Command
      BY <1>1, ClientsAssumption
  <2>2. Empty \in Value /\ ~ TooLong(Empty)
    <3>1. Empty = <<>> /\ Len(<<>>) = 0 /\ MAX_MSG_ELEM_SIZE \in Nat
        BY ClientsAssumption
    <3> QED
        BY <3>1, DhtAssumption DEF TooLong
  <2> QED
      BY <1>3, <2>1, <2>2 DEF ProcessesOK
<1>11. ASSUME NEW o \in DOMAIN program PROVE CallInv(o)
  <2>1. Givers(o, Answer) = {}
    <3>1. Writers(o) = {}
        BY <1>2 DEF Writers
    <3>2. ~ IsPut(o) => answered[o] = {}
        BY <1>2 DEF Gets
    <3> QED
        BY <3>1, <3>2 DEF Givers
  <2>2. Touched(o) = {}
      BY <1>5, <2>1 DEF Touched
  <2> QED
      BY <1>7, <2>2 DEF CallInv, SentOnce, WritesCounted, PutReached, VotesCounted, GetReached, Open
<1> QED
    BY <1>4, <1>6, <1>8, <1>9, <1>10, <1>11 DEF DhtInv, Types

LEMMA StepKeeps ==
    ASSUME DhtInv, NEW c \in DOMAIN command, Step(c)
    PROVE  DhtInv'
<1>1. ProgramOK /\ ProcessesOK
    BY DEF DhtInv, Types
\* Nothing but the process changes.
<1>2. ASSUME UNCHANGED vars, ProcessesOK', command' = command PROVE DhtInv'
  <2>1. UNCHANGED <<program, net, store, inbox, socket, call, applied, answered, dups>>
      BY <1>2 DEF vars, history
  <2>2. ProgramOK'
      BY <1>1, <1>2, <2>1, ProgramKept
  <2>3. CallsOK' /\ RequestsOK' /\ ServersOK' /\ \A o \in DOMAIN program : CallInv(o)'
      BY <2>1, SameProgram, StateKept
  <2> QED
      BY <1>2, <2>1, <2>2, <2>3 DEF DhtInv, Types
<1>3. CASE Refuse(c)
  <2>1. <<"FAIL">>[1] \in {"OK", "FAIL", "KILLED"}
      OBVIOUS
  <2>2. UNCHANGED vars /\ UNCHANGED <<command, at, concatenation>> /\ Prints(c, <<"FAIL">>)
      BY <1>3 DEF Refuse
  <2>3. ProcessesOK'
      BY <1>1, <2>1, <2>2, Printed
  <2> QED
      BY <1>2, <2>2, <2>3
<1>4. CASE InCall(c)
  <2>1. /\ ~ Refused(c) /\ Client(Call(c)) /\ UNCHANGED <<program, net>> /\ UNCHANGED clientVars
      BY <1>4 DEF InCall, chosen
  <2>2. Call(c) \in DOMAIN program
      BY <1>1, <2>1, CallsOfProcess
  <2>3. CallsOK' /\ RequestsOK' /\ ServersOK' /\ \A o \in DOMAIN program : CallInv(o)'
      BY <2>1, <2>2, ClientStep
  <2>4. ProgramOK' /\ ProcessesOK'
      BY <1>1, <2>1, ProgramKept, ProcessesKept DEF clientVars
  <2> QED
      BY <2>1, <2>3, <2>4 DEF DhtInv, Types
<1>5. CASE CallFails(c)
  <2>1. \A what \in {<<"FAIL">>, <<"KILLED">>} : what[1] \in {"OK", "FAIL", "KILLED"}
      OBVIOUS
  <2>2. /\ UNCHANGED vars /\ UNCHANGED <<command, at, concatenation>>
        /\ \E what \in {<<"FAIL">>, <<"KILLED">>} : Prints(c, what)
      BY <1>5 DEF CallFails
  <2>3. ProcessesOK'
      BY <1>1, <2>1, <2>2, Printed
  <2> QED
      BY <1>2, <2>2, <2>3
<1>6. CASE Concatenate(c)
    BY <1>6, ConcatenateKeeps
<1>7. CASE SecondKey(c)
  <2>1. /\ UNCHANGED vars /\ UNCHANGED <<command, concatenation, output>>
        /\ at' = [at EXCEPT ![c] = 2] /\ command[c].name \in {"find", "substr"}
      BY <1>7 DEF SecondKey
  <2>2. command[c] \in Command
      BY <1>1 DEF ProcessesOK
  <2>3. 2 \in 1..LastCall(c)
      BY <2>1, <2>2, CallsOfCommand DEF LastCall
  <2>4. \A b : LastCall(b)' = LastCall(b)
      BY <2>1 DEF LastCall
  <2>5. ProcessesOK'
      BY <1>1, <2>1, <2>3, <2>4 DEF ProcessesOK, TooLong
  <2> QED
      BY <1>2, <2>1, <2>5
<1>8. CASE Finish(c)
  <2>1. UNCHANGED vars /\ UNCHANGED <<command, at, concatenation>> /\ Prints(c, Answered(c))
      BY <1>8 DEF Finish
  <2>2. command[c].name \in Names
      BY <1>1 DEF ProcessesOK, Command
  <2>3. Answered(c)[1] \in {"OK", "FAIL", "KILLED"}
    <3>1. Answered(c) = <<"OK">> \/ \E x : Answered(c) = <<"OK", x>>
        BY <2>2 DEF Answered, Names
    <3> QED
        BY <3>1
  <2>4. ProcessesOK'
      BY <1>1, <2>1, <2>3, Printed
  <2> QED
      BY <1>2, <2>1, <2>4
<1> QED
    BY <1>3, <1>4, <1>5, <1>6, <1>7, <1>8 DEF Step

LEMMA DhtNext ==
    ASSUME DhtInv, [NextClients]_allVars
    PROVE  DhtInv'
<1>1. ProgramOK /\ ProcessesOK
    BY DEF DhtInv, Types
<1>2. CASE Servers
  <2>1. UNCHANGED <<program, net>> /\ UNCHANGED clientVars
      BY <1>2 DEF Servers, chosen
  <2>2. CallsOK' /\ RequestsOK' /\ ServersOK' /\ \A o \in DOMAIN program : CallInv(o)'
      BY <1>2, <2>1, ServerStep DEF Servers
  <2>3. ProgramOK' /\ ProcessesOK'
      BY <1>1, <2>1, ProgramKept, ProcessesKept DEF clientVars
  <2> QED
      BY <2>1, <2>2, <2>3 DEF DhtInv, Types
<1>3. ASSUME NEW c \in DOMAIN command, Step(c) PROVE DhtInv'
    BY <1>3, StepKeeps
<1>4. CASE UNCHANGED allVars
  <2>1. /\ UNCHANGED <<program, net, store, inbox, socket, call, applied, answered, dups>>
        /\ UNCHANGED clientVars
      BY <1>4 DEF allVars, vars, history
  <2>2. CallsOK' /\ RequestsOK' /\ ServersOK' /\ \A o \in DOMAIN program : CallInv(o)'
      BY <2>1, SameProgram, StateKept
  <2>3. ProgramOK' /\ ProcessesOK'
      BY <1>1, <2>1, ProgramKept, ProcessesKept DEF clientVars
  <2> QED
      BY <2>1, <2>2, <2>3 DEF DhtInv, Types
<1> QED
    BY <1>2, <1>3, <1>4 DEF NextClients

----------------------------------------------------------------------------

(***************************************************************************)
(* The accounts of all calls balance in every reachable state: what a call *)
(* has counted never exceeds the servers that have written or answered by  *)
(* more than the datagrams that were duplicated, because every request and *)
(* every answer on its way is accounted for.                               *)
(***************************************************************************)
THEOREM DhtInvariant == SpecClients => []DhtInv
<1>1. InitClients => DhtInv
    BY DhtInit
<1>2. DhtInv /\ [NextClients]_allVars => DhtInv'
    BY DhtNext
<1> QED
    BY <1>1, <1>2, PTL DEF SpecClients

(***************************************************************************)
(* Client processes, their calls and the servers keep their types, however *)
(* many there are: a call that is not open has no answers left, an open    *)
(* one is within its N servers, no process goes beyond its last call.      *)
(***************************************************************************)
THEOREM ClientTypes == SpecClients => []ClientsTypeOK
<1>1. ASSUME DhtInv PROVE ClientsTypeOK
  <2>1. TypeOK
    <3>1. /\ DOMAIN program \subseteq Op /\ \A o \in DOMAIN program : program[o] \in Calls
          /\ net \in Environments
        BY <1>1 DEF DhtInv, Types, ProgramOK
    <3>2. store \in [Server -> Store!Table] /\ inbox \in [Server -> Seq(DOMAIN program)]
        BY <1>1 DEF DhtInv, Types, ServersOK, RequestsOK
    <3>3. call \in [DOMAIN program ->
                       [pc : {"new", "send", "receive", "ok", "fail", "error", "killed"},
                        i : Nat, nb_writes : Nat, votes : Votes!Table, value : SUBSET Answer]]
        BY <1>1 DEF DhtInv, Types, CallsOK, CallRecord
    <3>4. \A o \in DOMAIN program :
             /\ IsABag(socket[o]) /\ BagToSet(socket[o]) \subseteq Server \X Answer
             /\ Open(o) => call[o].i < N(o)
             /\ ~ Open(o) => socket[o] = EmptyBag
        BY <1>1 DEF DhtInv, Types, CallsOK, CallOK, Open
    <3> QED
        BY <3>1, <3>2, <3>3, <3>4 DEF TypeOK
  <2>2. Value \subseteq Seq(UNION {Range(v) : v \in Value})
      BY ClientsAssumption
  <2> QED
      BY <1>1, <2>1, <2>2 DEF DhtInv, Types, ProcessesOK, ClientsTypeOK
<1> QED
    BY <1>1, DhtInvariant, PTL

(***************************************************************************)
(* network_put: a put that answers OK has been written by W different      *)
(* servers, or by as many fewer as datagrams were duplicated, for any      *)
(* servers, W and N, loss, restart and order of the datagrams.             *)
(***************************************************************************)
THEOREM WritesReachQuorum == SpecClients => []PutQuorum
<1>1. ASSUME DhtInv PROVE PutQuorum
    BY <1>1 DEF DhtInv, CallInv, PutReached, PutQuorum, Puts
<1> QED
    BY <1>1, DhtInvariant, PTL

(***************************************************************************)
(* That a count of R fits the char that increment_and_test counts in is    *)
(* asked of the clients' command lines; Tally shows what becomes of a      *)
(* larger R.                                                               *)
(***************************************************************************)
CountableReads ==
    \A c \in Scenarios : \A o \in DOMAIN c.program : c.program[o].R <= CharHalf + 1

Countable == \A o \in Gets : Quorum(o) <= CharHalf + 1

LEMMA ReadsStayCountable ==
    ASSUME CountableReads PROVE SpecClients => []Countable
<1> DEFINE Chosen == \E c \in Scenarios : command = c.command
<1>1. InitClients => Chosen
    BY DEF InitClients
<1>2. Chosen /\ [NextClients]_allVars => Chosen'
  <2> SUFFICES ASSUME [NextClients]_allVars PROVE command' = command
      OBVIOUS
  <2> QED
      BY DEF NextClients, Servers, Step, Refuse, InCall, CallFails, Concatenate, SecondKey, Finish,
             clientVars, allVars
<1>3. ASSUME DhtInv, Chosen, NEW o \in Gets PROVE Quorum(o) <= CharHalf + 1
  <2>1. o \in DOMAIN program /\ ~ IsPut(o)
      BY DEF Gets
  <2>2. PICK c \in Scenarios : command = c.command
      BY <1>3
  <2>3. ProgramOf(command) = c.program
      BY <2>2, ClientsAssumption
  <2>4. /\ o \in DOMAIN c.program /\ c.program[o] \in Calls /\ program[o] \in Calls
        /\ program[o] = [c.program[o] EXCEPT !.value = program[o].value]
      BY <1>3, <2>1, <2>3, DhtAssumption DEF DhtInv, Types, ProgramOK
  <2>5. program[o].R = c.program[o].R
      BY <2>4 DEF Calls
  <2> QED
      BY <2>1, <2>4, <2>5 DEF Quorum, CountableReads
<1>4. DhtInv /\ Chosen => Countable
    BY <1>3 DEF Countable
<1> HIDE DEF Chosen
<1> QED
    BY <1>1, <1>2, <1>4, DhtInvariant, PTL DEF SpecClients

(***************************************************************************)
(* network_get: a value it returns has the votes of R different servers,   *)
(* with the same allowance.                                                *)
(***************************************************************************)
THEOREM ReadsReachQuorum ==
    ASSUME CountableReads PROVE SpecClients => []GetQuorum
<1>1. DhtInv /\ Countable => GetQuorum
  <2> SUFFICES ASSUME DhtInv, Countable, NEW o \in Gets, call[o].pc = "ok"
               PROVE  \A v \in call[o].value : \E q \in Answer :
                         <<v, q>> \in VotePrefix /\ Cardinality(Counting(o, q)) + dups >= Needed(o)
      BY DEF GetQuorum
  <2>1. o \in DOMAIN program /\ ~ IsPut(o) /\ Quorum(o) <= CharHalf + 1
      BY DEF Gets, Countable
  <2> QED
      BY <2>1 DEF DhtInv, CallInv, GetReached
<1> QED
    BY <1>1, ReadsStayCountable, DhtInvariant, PTL

----------------------------------------------------------------------------

\* f flattens the first n elements of s, one more with each step.
Flattens(f, s, n) ==
    f = [k \in 1..n |-> IF k = 1 THEN s[k] ELSE f[k - 1] \o s[k]]

LEMMA FlattenExists ==
    ASSUME NEW s, NEW n \in Nat PROVE \E f : Flattens(f, s, n)
<1> DEFINE T == {m \in Nat : ~ \E f : Flattens(f, s, m)}
<1> SUFFICES ASSUME T # {} PROVE FALSE
    OBVIOUS
<1>1. PICK m \in T : \A y \in T : ~ (<<y, m>> \in OpToRel(<, Nat))
    BY NatLessThanWellFounded, WFMin
<1>2. m \in Nat /\ \A y \in Nat : y < m => \E f : Flattens(f, s, y)
    BY <1>1 DEF OpToRel
<1>5. ~ \E f : Flattens(f, s, m)
    BY <1>1
<1> HIDE DEF T
<1>3. CASE m = 0
  <2> DEFINE f == [k \in 1..0 |-> s[k]]
  <2>1. f = [k \in 1..0 |-> IF k = 1 THEN s[k] ELSE f[k - 1] \o s[k]]
      OBVIOUS
  <2> QED
      BY <1>3, <1>5, <2>1 DEF Flattens
<1>4. CASE m # 0
  <2>1. m - 1 \in Nat /\ m - 1 < m
      BY <1>2, <1>4
  <2>2. PICK f : Flattens(f, s, m - 1)
      BY <1>2, <2>1
  <2> DEFINE last == IF m = 1 THEN s[m] ELSE f[m - 1] \o s[m]
             g == [k \in 1..m |-> IF k = m THEN last ELSE f[k]]
  <2>3. ASSUME NEW k \in 1..m
        PROVE  g[k] = IF k = 1 THEN s[k] ELSE g[k - 1] \o s[k]
    <3>1. k # 1 => k - 1 \in 1..m /\ k - 1 # m
        BY <1>2
    <3>2. CASE k = m
        BY <3>1, <3>2
    <3>3. CASE k # m
      <4>1. k \in 1..(m - 1)
          BY <1>2, <3>3
      <4>2. f[k] = IF k = 1 THEN s[k] ELSE f[k - 1] \o s[k]
          BY <2>2, <4>1 DEF Flattens
      <4> QED
          BY <3>1, <3>3, <4>2
    <3> QED
        BY <3>2, <3>3
  <2>4. g = [k \in 1..m |-> g[k]]
      OBVIOUS
  <2> HIDE DEF g
  <2>5. Flattens(g, s, m)
      BY <2>3, <2>4 DEF Flattens
  <2> QED
      BY <1>5, <2>5
<1> QED
    BY <1>3, <1>4

SameUpTo(s, t, n) == \A k \in 1..n : s[k] = t[k]

LEMMA FlattenSame ==
    ASSUME NEW s, NEW t, NEW n \in Nat, SameUpTo(s, t, n),
           NEW f, NEW m \in Nat, n <= m, Flattens(f, s, n), NEW g, Flattens(g, t, m),
           NEW j \in 1..n
    PROVE  f[j] = g[j]
<1> DEFINE T == {k \in 1..n : f[k] # g[k]}
<1> SUFFICES ASSUME T # {} PROVE FALSE
    OBVIOUS
<1>1. T \subseteq Nat
    OBVIOUS
<1>2. PICK k \in T : \A y \in T : ~ (<<y, k>> \in OpToRel(<, Nat))
    BY <1>1, NatLessThanWellFounded, WFMin
<1>3. \A y \in T : ~ (y < k)
    BY <1>1, <1>2 DEF OpToRel
<1>7. k \in 1..n /\ k \in 1..m /\ k \in Nat
  <2>1. k \in 1..n
      BY <1>2
  <2> HIDE DEF T
  <2> QED
      BY <2>1
<1>4. /\ f[k] = IF k = 1 THEN s[k] ELSE f[k - 1] \o s[k]
      /\ g[k] = IF k = 1 THEN t[k] ELSE g[k - 1] \o t[k]
    BY <1>7 DEF Flattens
<1>5. s[k] = t[k] /\ f[k] # g[k]
    BY <1>2 DEF SameUpTo
<1>6. k # 1 => f[k - 1] = g[k - 1]
  <2> SUFFICES ASSUME k # 1 PROVE f[k - 1] = g[k - 1]
      OBVIOUS
  <2>1. k - 1 \in 1..n /\ k - 1 < k
      BY <1>7
  <2> QED
      BY <1>3, <2>1
<1> HIDE DEF T
<1> QED
    BY <1>4, <1>5, <1>6

LEMMA FlattenLast ==
    ASSUME NEW s, Len(s) \in Nat, Len(s) # 0
    PROVE  \E f : Flattens(f, s, Len(s)) /\ FlattenSeq(s) = f[Len(s)]
<1> DEFINE flatten == CHOOSE f : f = [k \in 1..Len(s) |-> IF k = 1 THEN s[k] ELSE f[k - 1] \o s[k]]
<1>1. \E f : f = [k \in 1..Len(s) |-> IF k = 1 THEN s[k] ELSE f[k - 1] \o s[k]]
    BY FlattenExists DEF Flattens
<1>2. Flattens(flatten, s, Len(s))
    BY <1>1, Zenon DEF Flattens
<1>3. FlattenSeq(s) = flatten[Len(s)]
    BY Zenon DEF FlattenSeq
<1> QED
    BY <1>2, <1>3

\* t is s with one more element.
Longer(S, s, t, n) ==
    /\ Len(s) = n /\ Len(t) = n + 1 /\ (n = 0 => s = <<>>)
    /\ SameUpTo(s, t, n) /\ t[n + 1] \in Seq(S)

LEMMA FlattenAppend ==
    ASSUME NEW S, NEW s, NEW t, NEW n \in Nat, Longer(S, s, t, n)
    PROVE  FlattenSeq(t) = FlattenSeq(s) \o t[n + 1]
<1> USE DEF Longer
<1>1. PICK g : Flattens(g, t, n + 1) /\ FlattenSeq(t) = g[n + 1]
    BY FlattenLast
<1>2. g[n + 1] = IF n + 1 = 1 THEN t[n + 1] ELSE g[n] \o t[n + 1]
  <2>1. n + 1 \in 1..(n + 1) /\ (n + 1) - 1 = n
      OBVIOUS
  <2> QED
      BY <1>1, <2>1 DEF Flattens
<1>3. CASE n = 0
  <2>1. FlattenSeq(s) = <<>>
      BY <1>3 DEF FlattenSeq
  <2>2. <<>> \o t[n + 1] = t[n + 1]
      OBVIOUS
  <2> QED
      BY <1>1, <1>2, <1>3, <2>1, <2>2
<1>4. CASE n # 0
  <2>1. PICK f : Flattens(f, s, n) /\ FlattenSeq(s) = f[n]
      BY <1>4, FlattenLast
  <2>2. n \in 1..n /\ n <= n + 1 /\ n + 1 \in Nat
      BY <1>4
  <2>3. f[n] = g[n]
    <3>1. SameUpTo(s, t, n)
        BY DEF SameUpTo
    <3>2. PICK m \in Nat : m = n + 1
        OBVIOUS
    <3>3. Flattens(g, t, m) /\ n <= m
        BY <1>1, <3>2
    <3>4. Flattens(f, s, n)
        BY <2>1
    <3> QED
        BY <2>2, <3>1, <3>3, <3>4, FlattenSame
  <2> QED
      BY <1>1, <1>2, <1>4, <2>1, <2>3, n + 1 # 1
<1> QED
    BY <1>3, <1>4

----------------------------------------------------------------------------

(***************************************************************************)
(* A process makes its calls in turn: those before the one it makes have   *)
(* answered OK, those behind it have not begun.                            *)
(***************************************************************************)
InTurn(c) ==
    \A n \in 1..LastCall(c) : /\ n > at[c] => call[<<c, n>>].pc = "new"
                              /\ n < at[c] => call[<<c, n>>].pc = "ok"

\* What the first n calls of c have returned.
Results(c, n) == [m \in 1..n |-> result(<<c, m>>)]

CatJoins(c) ==
    command[c].name = "cat" =>
        /\ concatenation[c] = FlattenSeq(Results(c, at[c] - 1))
        /\ at[c] = LastCall(c) /\ at[c] > 1 => program[<<c, at[c]>>].value = concatenation[c]
        /\ output[c] = <<"OK">> => /\ at[c] = LastCall(c) /\ at[c] > 1
                                   /\ call[<<c, at[c]>>].pc = "ok"

TurnInv == \A c \in DOMAIN command : InTurn(c) /\ CatJoins(c)

\* The calls of a process and their kinds.
LEMMA CallsNamed ==
    ASSUME ProgramOK, ProcessesOK, NEW c \in DOMAIN command
    PROVE  /\ \A n \in 1..LastCall(c) : /\ <<c, n>> \in DOMAIN program
                                        /\ program[<<c, n>>].kind = CallsOf(command[c])[n].kind
           /\ command[c].name = "cat" => LastCall(c) = Len(command[c].argv)
           /\ command[c].name = "cat" /\ LastCall(c) > 0 =>
                  CallsOf(command[c])[LastCall(c)].kind = "put"
<1>1. command[c] \in Command
    BY DEF ProcessesOK
<1>2. LastCall(c) \in Nat /\ DOMAIN CallsOf(command[c]) = 1..LastCall(c)
    BY <1>1, CallsOfCommand DEF LastCall
<1>3. ASSUME NEW n \in 1..LastCall(c)
      PROVE  <<c, n>> \in DOMAIN program /\ program[<<c, n>>].kind = CallsOf(command[c])[n].kind
  <2>1. <<c, n>> \in {c} \X DOMAIN CallsOf(command[c])
      BY <1>2
  <2>2. <<c, n>> \in DOMAIN ProgramOf(command)
      BY <2>1 DEF ProgramOf
  <2>3. ProgramOf(command)[<<c, n>>] = CallsOf(command[c])[n]
      BY <2>2 DEF ProgramOf
  <2>4. /\ <<c, n>> \in DOMAIN program
        /\ program[<<c, n>>] \in Calls
        /\ program[<<c, n>>] = [ProgramOf(command)[<<c, n>>] EXCEPT !.value = program[<<c, n>>].value]
      BY <2>2 DEF ProgramOK
  <2>5. program[<<c, n>>].kind = ProgramOf(command)[<<c, n>>].kind
      BY <2>4 DEF Calls
  <2> QED
      BY <2>3, <2>4, <2>5
<1>4. ASSUME command[c].name = "cat"
      PROVE  /\ LastCall(c) = Len(command[c].argv)
             /\ LastCall(c) > 0 => CallsOf(command[c])[LastCall(c)].kind = "put"
  <2> DEFINE argv == command[c].argv
  <2>1. LastCall(c) = Len(argv)
      BY <1>1, <1>4, CallsOfCommand DEF LastCall
  <2>2. argv \in Seq(Key \cup Value)
      BY <1>1 DEF Command
  <2>3. CallsOf(command[c]) =
           [n \in DOMAIN argv |-> IF n < Len(argv) THEN GetCall(command[c], argv[n])
                                                   ELSE PutCall(command[c], argv[n], Empty)]
      BY <1>4 DEF CallsOf
  <2> HIDE DEF argv
  <2>4. ASSUME LastCall(c) > 0
        PROVE  CallsOf(command[c])[LastCall(c)] = PutCall(command[c], argv[Len(argv)], Empty)
    <3>1. Len(argv) \in DOMAIN argv /\ ~ Len(argv) < Len(argv)
        BY <1>2, <2>1, <2>2, <2>4
    <3> QED
        BY <2>1, <2>3, <3>1
  <2> QED
      BY <2>1, <2>4 DEF PutCall, argv
<1> QED
    BY <1>3, <1>4

LEMMA TurnInit ==
    ASSUME InitClients PROVE TurnInv
<1> SUFFICES ASSUME NEW c \in DOMAIN command PROVE InTurn(c) /\ CatJoins(c)
    BY DEF TurnInv
<1>1. DhtInv
    BY DhtInit
<1>2. /\ at[c] = 1 /\ concatenation[c] = <<>> /\ output[c] = <<>>
      /\ \A o \in DOMAIN program : call[o].pc = "new"
    BY ClientsAssumption DEF InitClients, Init, NoCall
<1>3. LastCall(c) \in Nat
    BY <1>1, CallsOfProcess DEF DhtInv, Types
<1>4. \A n \in 1..LastCall(c) : <<c, n>> \in DOMAIN program
    BY <1>1, CallsNamed DEF DhtInv, Types
<1>5. InTurn(c)
    BY <1>2, <1>3, <1>4 DEF InTurn
<1>6. FlattenSeq(Results(c, 0)) = <<>>
  <2>1. Results(c, 0) = <<>>
      BY DEF Results
  <2> QED
      BY <2>1 DEF FlattenSeq
<1>7. <<>> # <<"OK">> /\ 1 - 1 = 0 /\ ~ (1 > 1)
    OBVIOUS
<1> QED
    BY <1>2, <1>5, <1>6, <1>7 DEF CatJoins

\* A process keeps its turns while others take steps.
LEMMA TurnKept ==
    ASSUME NEW c \in DOMAIN command, InTurn(c), CatJoins(c), command' = command,
           at'[c] = at[c], concatenation'[c] = concatenation[c],
           output'[c] = output[c] \/ output'[c] \in {<<"FAIL">>, <<"KILLED">>},
           \A n \in 1..LastCall(c) : /\ n # at[c] => call'[<<c, n>>] = call[<<c, n>>]
                                     /\ program'[<<c, n>>] = program[<<c, n>>],
           output[c] # <<>> => call'[<<c, at[c]>>] = call[<<c, at[c]>>],
           LastCall(c) \in Nat, at[c] \in {1} \cup 1..LastCall(c)
    PROVE  InTurn(c)' /\ CatJoins(c)'
<1>1. LastCall(c)' = LastCall(c)
    BY DEF LastCall
<1>2. InTurn(c)'
    BY <1>1 DEF InTurn
<1>3. Results(c, at[c] - 1)' = Results(c, at[c] - 1)
  <2>1. ASSUME NEW m \in 1..(at[c] - 1) PROVE result(<<c, m>>)' = result(<<c, m>>)
    <3>1. m \in 1..LastCall(c) /\ m # at[c]
        OBVIOUS
    <3> QED
        BY <3>1 DEF result
  <2> QED
      BY <2>1 DEF Results
<1>4. ASSUME command[c].name = "cat", at[c] = LastCall(c), at[c] > 1
      PROVE  program'[<<c, at[c]>>].value = concatenation[c]
    BY <1>4 DEF CatJoins
<1>5. ASSUME command[c].name = "cat", output'[c] = <<"OK">>
      PROVE  at[c] = LastCall(c) /\ at[c] > 1 /\ call'[<<c, at[c]>>].pc = "ok"
  <2>1. output[c] = <<"OK">> /\ output[c] # <<>>
    <3>1. <<"FAIL">> # <<"OK">> /\ <<"KILLED">> # <<"OK">> /\ <<"OK">> # <<>>
        OBVIOUS
    <3> QED
        BY <1>5, <3>1
  <2> QED
      BY <1>5, <2>1 DEF CatJoins
<1> QED
    BY <1>1, <1>2, <1>3, <1>4, <1>5 DEF CatJoins, Results

\* A client's step changes only its own call, which is in progress.
LEMMA OwnCall ==
    ASSUME Types, NEW o \in DOMAIN program, Client(o)
    PROVE  /\ call[o].pc \in {"new", "send", "receive"}
           /\ \A p : p # o => call'[p] = call[p]
<1>1. call = [p \in DOMAIN call |-> call[p]]
    BY DEF Types, CallsOK
<1>2. /\ call[o].pc \in {"new", "send", "receive"}
      /\ \E l : call' = [call EXCEPT ![o] = l]
    BY DEF Client, Start, Send, SendFails, Receive, LoseVotes, Timeout, Become
<1> QED
    BY <1>1, <1>2

LEMMA ConcatenateTurns ==
    ASSUME DhtInv, TurnInv, NEW p \in DOMAIN command, Concatenate(p),
           NEW c \in DOMAIN command
    PROVE  InTurn(c)' /\ CatJoins(c)'
<1> DEFINE value == result(Call(p))
           joined == Joined(p, value)
           put == <<p, LastCall(p)>>
<1>1. /\ Types /\ ProgramOK /\ ProcessesOK /\ InTurn(c) /\ CatJoins(c)
      /\ InTurn(p) /\ CatJoins(p)
    BY DEF DhtInv, Types, TurnInv
<1>2. /\ command[p].name = "cat" /\ at[p] < LastCall(p) /\ call[Call(p)].pc = "ok"
      /\ call' = call /\ command' = command /\ output[p] = <<>>
    BY DEF Concatenate, Running
<1>3. /\ LastCall(p) \in Nat /\ at[p] \in 1..LastCall(p) /\ Call(p) \in DOMAIN program /\ ~ IsPut(Call(p))
      /\ LastCall(c) \in Nat /\ at[c] \in {1} \cup 1..LastCall(c)
      /\ DOMAIN at = DOMAIN command /\ DOMAIN output = DOMAIN command
      /\ concatenation \in [DOMAIN command -> Value]
    BY <1>1, <1>2, CallsOfProcess DEF ProcessesOK
<1>4. value \in Value
    BY <1>1, <1>2, <1>3, ResultValue
<1> HIDE DEF value
<1>5. CASE ~ Fits(p, value) /\ Prints(p, <<"FAIL">>) /\ UNCHANGED <<program, at, concatenation>>
  <2>1. output'[c] = output[c] \/ output'[c] = <<"FAIL">>
      BY <1>3, <1>5 DEF Prints
  <2> QED
      BY <1>1, <1>2, <1>3, <1>5, <2>1, TurnKept
<1>6. CASE /\ concatenation' = [concatenation EXCEPT ![p] = joined]
           /\ at' = [at EXCEPT ![p] = @ + 1]
           /\ program' = IF at[p] + 1 = LastCall(p)
                         THEN [program EXCEPT ![put].value = joined] ELSE program
           /\ UNCHANGED output
  <2>1. CASE c # p
    <3>1. \A n : <<c, n>> # put
        BY <2>1
    <3>2. \A n \in 1..LastCall(c) : program'[<<c, n>>] = program[<<c, n>>]
      <4>1. \A n \in 1..LastCall(c) : <<c, n>> \in DOMAIN program
          BY <1>1, CallsNamed
      <4> HIDE DEF put
      <4> QED
          BY <1>6, <3>1, <4>1
    <3>3. at'[c] = at[c] /\ concatenation'[c] = concatenation[c] /\ output'[c] = output[c]
        BY <1>3, <1>6, <2>1
    <3> QED
        BY <1>1, <1>2, <1>3, <3>2, <3>3, TurnKept
  <2>2. CASE c = p
    <3>1. at'[p] = at[p] + 1 /\ concatenation'[p] = concatenation[p] \o value
        BY <1>3, <1>6 DEF joined, Joined
    <3>2. LastCall(p)' = LastCall(p)
        BY <1>2 DEF LastCall
    <3>3. InTurn(p)'
      <4> SUFFICES ASSUME NEW n \in 1..LastCall(p)
                   PROVE  /\ n > at[p] + 1 => call[<<p, n>>].pc = "new"
                          /\ n < at[p] + 1 => call[<<p, n>>].pc = "ok"
          BY <1>2, <3>1, <3>2 DEF InTurn
      <4>1. n > at[p] + 1 => n > at[p]
          BY <1>3
      <4>2. n < at[p] + 1 => n < at[p] \/ n = at[p]
          BY <1>3
      <4>3. n = at[p] => call[<<p, n>>].pc = "ok"
          BY <1>2 DEF Call
      <4> QED
          BY <1>1, <4>1, <4>2, <4>3 DEF InTurn
    <3>4. concatenation'[p] = FlattenSeq(Results(p, at[p]))
      <4>1. PICK n \in Nat : n = at[p] - 1 /\ n + 1 = at[p]
          BY <1>3
      <4>2. /\ Results(p, n) = [m \in 1..n |-> result(<<p, m>>)] /\ Len(Results(p, n)) = n
            /\ Results(p, n + 1) = [m \in 1..(n + 1) |-> result(<<p, m>>)]
            /\ Len(Results(p, n + 1)) = n + 1
          BY DEF Results
      <4>3. ASSUME NEW k \in 1..n PROVE result(<<p, k>>) \in Value
        <5>1. k \in 1..LastCall(p) /\ k \in 1..(LastCall(p) - 1) /\ k < at[p]
            BY <1>2, <1>3, <4>1
        <5>2. <<p, k>> \in DOMAIN program /\ call[<<p, k>>].pc = "ok"
            BY <1>1, <5>1, CallsNamed DEF InTurn
        <5>3. ~ IsPut(<<p, k>>)
          <6>1. command[p] \in Command
              BY <1>1 DEF ProcessesOK
          <6>2. CallsOf(command[p])[k].kind = "get"
              BY <1>2, <5>1, <6>1, CallsOfCommand DEF LastCall
          <6> QED
              BY <1>1, <5>1, <6>2, CallsNamed DEF IsPut
        <5> QED
            BY <1>1, <5>2, <5>3, ResultValue
      <4>4. result(<<p, n + 1>>) = value
          BY <4>1 DEF value, Call
      <4>5. Value \subseteq Seq(UNION {Range(v) : v \in Value})
          BY ClientsAssumption
      <4>6. PICK S : Value \subseteq Seq(S)
          BY <4>5
      <4>7. \A k \in 1..n : Results(p, n)[k] = Results(p, n + 1)[k] /\ Results(p, n)[k] \in Seq(S)
          BY <4>2, <4>3, <4>6
      <4>8. Results(p, n + 1)[n + 1] = value /\ value \in Seq(S)
          BY <1>4, <4>2, <4>4, <4>6
      <4>9. n = 0 => Results(p, n) = <<>>
          BY <4>2
      <4>10. FlattenSeq(Results(p, n + 1)) = FlattenSeq(Results(p, n)) \o value
        <5>1. PICK s : s = Results(p, n)
            OBVIOUS
        <5>2. PICK t : t = Results(p, n + 1)
            OBVIOUS
        <5>3. Longer(S, s, t, n) /\ t[n + 1] = value
            BY <4>2, <4>7, <4>8, <4>9, <5>1, <5>2 DEF Longer, SameUpTo
        <5>4. Longer(S, s, t, n) /\ n \in Nat
            BY <4>1, <5>3
        <5>5. FlattenSeq(t) = FlattenSeq(s) \o t[n + 1]
            BY ONLY <5>4, FlattenAppend
        <5> QED
            BY <5>1, <5>2, <5>3, <5>5
      <4> QED
          BY <1>1, <1>2, <3>1, <4>1, <4>10 DEF CatJoins
    <3>5. \A n : Results(p, n)' = Results(p, n)
        BY <1>2 DEF Results, result
    <3>6. at[p] + 1 = LastCall(p) => program'[<<p, at[p] + 1>>].value = concatenation'[p]
      <4> SUFFICES ASSUME at[p] + 1 = LastCall(p) PROVE program'[put].value = concatenation'[p]
          OBVIOUS
      <4>1. put \in DOMAIN program
          BY <1>1, <1>3, CallsNamed
      <4>2. program[put] \in Calls
          BY <1>1, <4>1 DEF ProgramOK
      <4>3. program' = [program EXCEPT ![put].value = joined]
          BY <1>6
      <4>4. concatenation'[p] = joined
          BY <1>3, <1>6
      <4> HIDE DEF joined, put
      <4> QED
          BY <4>1, <4>2, <4>3, <4>4 DEF Calls
    <3>7. output'[p] # <<"OK">>
      <4>1. output'[p] = <<>>
          BY <1>2, <1>6
      <4> QED
          BY <4>1
    <3>8. (at[p] + 1) - 1 = at[p]
        BY <1>3
    <3>9. CatJoins(p)'
        BY <1>2, <3>1, <3>2, <3>4, <3>5, <3>6, <3>7, <3>8 DEF CatJoins
    <3> QED
        BY <2>2, <3>3, <3>9
  <2> QED
      BY <2>1, <2>2
<1> QED
    BY <1>5, <1>6 DEF Concatenate, value, joined, put

\* Nothing changes for process c but that it may fail.
LEMMA TurnStays ==
    ASSUME DhtInv, TurnInv, NEW c \in DOMAIN command,
           UNCHANGED <<program, call, command>>, at'[c] = at[c], concatenation'[c] = concatenation[c],
           output'[c] = output[c] \/ output'[c] \in {<<"FAIL">>, <<"KILLED">>}
    PROVE  InTurn(c)' /\ CatJoins(c)'
<1>1. ProgramOK /\ ProcessesOK /\ InTurn(c) /\ CatJoins(c)
    BY DEF DhtInv, Types, TurnInv
<1>2. LastCall(c) \in Nat /\ at[c] \in {1} \cup 1..LastCall(c)
    BY <1>1, CallsOfProcess DEF ProcessesOK
<1> QED
    BY <1>1, <1>2, TurnKept

LEMMA TurnStep ==
    ASSUME DhtInv, TurnInv, NEW p \in DOMAIN command, Step(p), NEW c \in DOMAIN command
    PROVE  InTurn(c)' /\ CatJoins(c)'
<1>1. /\ Types /\ ProgramOK /\ ProcessesOK /\ InTurn(c) /\ CatJoins(c) /\ InTurn(p) /\ CatJoins(p)
      /\ DOMAIN at = DOMAIN command /\ DOMAIN output = DOMAIN command
    BY DEF DhtInv, Types, TurnInv, ProcessesOK
<1>2. LastCall(c) \in Nat /\ at[c] \in {1} \cup 1..LastCall(c)
    BY <1>1, CallsOfProcess DEF ProcessesOK
<1>3. CASE Refuse(p) \/ CallFails(p)
  <2>1. /\ UNCHANGED vars /\ UNCHANGED <<command, at, concatenation>>
        /\ \E what \in {<<"FAIL">>, <<"KILLED">>} : output' = [output EXCEPT ![p] = what]
      BY <1>3 DEF Refuse, CallFails, Prints
  <2>2. UNCHANGED <<program, call>>
      BY <2>1 DEF vars
  <2>3. output'[c] = output[c] \/ output'[c] \in {<<"FAIL">>, <<"KILLED">>}
      BY <1>1, <2>1
  <2> QED
      BY <2>1, <2>2, <2>3, TurnStays
<1>4. CASE InCall(p)
  <2>1. /\ Running(p) /\ ~ Refused(p) /\ Client(Call(p)) /\ UNCHANGED program
        /\ UNCHANGED <<command, at, concatenation, output>>
      BY <1>4 DEF InCall, clientVars
  <2>2. Call(p) \in DOMAIN program
      BY <1>1, <2>1, CallsOfProcess
  <2>3. \A o : o # Call(p) => call'[o] = call[o]
      BY <1>1, <2>1, <2>2, OwnCall
  <2>4. \A n : <<c, n>> = Call(p) => c = p /\ n = at[c]
      BY DEF Call
  <2>5. \A n : n # at[c] => call'[<<c, n>>] = call[<<c, n>>]
      BY <2>3, <2>4
  <2>6. output[c] # <<>> => call'[<<c, at[c]>>] = call[<<c, at[c]>>]
      BY <2>1, <2>3, <2>4 DEF Running
  <2> QED
      BY <1>1, <1>2, <2>1, <2>5, <2>6, TurnKept
<1>5. CASE Concatenate(p)
    BY <1>5, ConcatenateTurns
<1>6. CASE SecondKey(p)
  <2>1. /\ UNCHANGED vars /\ UNCHANGED <<command, concatenation, output>>
        /\ at' = [at EXCEPT ![p] = 2] /\ command[p].name \in {"find", "substr"}
        /\ at[p] = 1 /\ call[Call(p)].pc = "ok"
      BY <1>6 DEF SecondKey
  <2>2. UNCHANGED <<program, call>>
      BY <2>1 DEF vars
  <2>3. CASE c # p
    <3>1. at'[c] = at[c]
        BY <1>1, <2>1, <2>3
    <3> QED
        BY <2>1, <2>2, <3>1, TurnStays
  <2>4. CASE c = p
    <3>1. at'[c] = 2 /\ LastCall(c)' = LastCall(c)
        BY <1>1, <2>1, <2>4 DEF LastCall
    <3>2. call[<<c, 1>>].pc = "ok"
        BY <2>1, <2>4 DEF Call
    <3>3. \A n \in 1..LastCall(c) : (n > 2 => n > 1) /\ (n < 2 => n = 1)
        OBVIOUS
    <3>4. InTurn(c)'
        BY <1>1, <2>1, <2>2, <2>4, <3>1, <3>2, <3>3 DEF InTurn
    <3>5. command'[c].name # "cat"
        BY <2>1, <2>4
    <3> QED
        BY <3>4, <3>5 DEF CatJoins
  <2> QED
      BY <2>3, <2>4
<1>7. CASE Finish(p)
  <2>1. /\ UNCHANGED vars /\ UNCHANGED <<command, at, concatenation>>
        /\ output' = [output EXCEPT ![p] = Answered(p)]
        /\ ~ Refused(p) /\ at[p] = LastCall(p) /\ call[Call(p)].pc = "ok"
      BY <1>7 DEF Finish, Prints
  <2>2. UNCHANGED <<program, call>>
      BY <2>1 DEF vars
  <2>3. CASE c # p
    <3>1. output'[c] = output[c]
        BY <1>1, <2>1, <2>3
    <3> QED
        BY <2>1, <2>2, <3>1, TurnStays
  <2>4. CASE c = p
    <3>1. LastCall(c)' = LastCall(c) /\ \A n : Results(c, n)' = Results(c, n)
        BY <2>1, <2>2 DEF LastCall, Results, result
    <3>2. command[c].name = "cat" => at[c] > 1
      <4>1. SUFFICES ASSUME command[c].name = "cat" PROVE at[c] > 1
          OBVIOUS
      <4>2. ~ Len(command[c].argv) < 2
          BY <2>1, <2>4, <4>1 DEF Refused
      <4>3. LastCall(c) = Len(command[c].argv)
          BY <1>1, <4>1, CallsNamed
      <4> QED
          BY <1>2, <2>1, <2>4, <4>2, <4>3
    <3>3. call[<<c, at[c]>>].pc = "ok"
        BY <2>1, <2>4 DEF Call
    <3>4. CatJoins(c)'
        BY <1>1, <2>1, <2>2, <2>4, <3>1, <3>2, <3>3 DEF CatJoins
    <3>5. InTurn(c)'
        BY <1>1, <2>1, <2>2, <3>1 DEF InTurn
    <3> QED
        BY <3>4, <3>5
  <2> QED
      BY <2>3, <2>4
<1> QED
    BY <1>3, <1>4, <1>5, <1>6, <1>7 DEF Step

LEMMA TurnNext ==
    ASSUME DhtInv, TurnInv, [NextClients]_allVars PROVE TurnInv'
<1>1. command' = command
    BY DEF NextClients, Servers, Step, Refuse, InCall, CallFails, Concatenate, SecondKey, Finish,
           clientVars, allVars
<1> SUFFICES ASSUME NEW c \in DOMAIN command PROVE InTurn(c)' /\ CatJoins(c)'
    BY <1>1 DEF TurnInv
<1>2. CASE Servers
  <2>1. UNCHANGED <<program, call>> /\ UNCHANGED clientVars
      BY <1>2 DEF Servers, Serve, Restart
  <2> QED
      BY <2>1, TurnStays DEF clientVars
<1>3. ASSUME NEW p \in DOMAIN command, Step(p) PROVE InTurn(c)' /\ CatJoins(c)'
    BY <1>3, TurnStep
<1>4. CASE UNCHANGED allVars
  <2>1. UNCHANGED <<program, call>> /\ UNCHANGED clientVars
      BY <1>4 DEF allVars, vars
  <2> QED
      BY <2>1, TurnStays DEF clientVars
<1> QED
    BY <1>2, <1>3, <1>4 DEF NextClients

(***************************************************************************)
(* pps-client-cat: a cat that prints OK has put, on W servers, the values  *)
(* that its gets have returned, in the order of its keys, however many     *)
(* keys there are and whatever other processes do meanwhile.               *)
(***************************************************************************)
THEOREM CatIsStored == SpecClients => []CatStores
<1>1. InitClients => TurnInv
    BY TurnInit
<1>2. DhtInv /\ TurnInv /\ [NextClients]_allVars => TurnInv'
    BY TurnNext
<1>3. ASSUME DhtInv, TurnInv PROVE CatStores
  <2> SUFFICES ASSUME NEW c \in DOMAIN command, command[c].name = "cat", output[c] = <<"OK">>
               PROVE  LET put == <<c, LastCall(c)>>
                          values == [n \in 1..(LastCall(c) - 1) |-> result(<<c, n>>)]
                      IN  /\ program[put].value = FlattenSeq(values)
                          /\ Cardinality(Writers(put)) + dups >= Needed(put)
      BY DEF CatStores
  <2> DEFINE put == <<c, LastCall(c)>>
  <2>1. ProgramOK /\ ProcessesOK /\ CatJoins(c)
      BY <1>3 DEF DhtInv, Types, TurnInv
  <2>2. /\ at[c] = LastCall(c) /\ at[c] > 1 /\ call[put].pc = "ok"
        /\ concatenation[c] = FlattenSeq(Results(c, LastCall(c) - 1))
        /\ program[put].value = concatenation[c]
      BY <2>1 DEF CatJoins
  <2>3. LastCall(c) \in Nat /\ LastCall(c) \in 1..LastCall(c) /\ LastCall(c) > 0
      BY <2>1, <2>2, CallsOfProcess
  <2>4. put \in DOMAIN program /\ IsPut(put)
      BY <2>1, <2>3, CallsNamed DEF IsPut
  <2> HIDE DEF put
  <2>5. Cardinality(Writers(put)) + dups >= Needed(put)
      BY <1>3, <2>2, <2>4 DEF DhtInv, CallInv, PutReached
  <2> QED
      BY <2>2, <2>5 DEF Results, put
<1> QED
    BY <1>1, <1>2, <1>3, DhtInvariant, PTL DEF SpecClients

----------------------------------------------------------------------------

(***************************************************************************)
(* The loops of network_put and network_get are bounded, whatever comes.   *)
(***************************************************************************)
LEMMA ClientAdvances ==
    ASSUME Types, NEW o \in DOMAIN program, Client(o), program' = program
    PROVE  StepsLeft(o)' \in 0..(StepsLeft(o) - 1)
<1>1. /\ N(o) \in Nat /\ N(o)' = N(o)
      /\ call[o] \in CallRecord /\ call[o].i \in Nat /\ DOMAIN call = DOMAIN program
      /\ call[o].pc \in {"send", "receive"} => call[o].i < N(o)
      /\ BagToSet(socket[o]) \subseteq Server \X Answer
    BY CallFacts, CallTyped DEF Types, CallsOK, CallOK, CallRecord, N, servers_to_contact
<1>2. ASSUME call[o].pc \in {"new", "send", "receive"},
             NEW pc \in {"ok", "fail", "error", "killed"}, NEW v \in SUBSET Answer, call'[o] = Done(pc, v)
      PROVE  StepsLeft(o)' \in 0..(StepsLeft(o) - 1)
  <2>1. call'[o].pc = pc
      BY <1>2, DoneLocals
  <2> QED
      BY <1>1, <1>2, <2>1 DEF StepsLeft
<1>3. CASE Start(o)
  <2>1. /\ call[o].pc = "new"
        /\ \/ call'[o] = [NoCall EXCEPT !.pc = "send"]
           \/ \E pc \in {"error", "killed"} : call'[o] = Done(pc, {})
      BY <1>1, <1>3 DEF Start, Become
  <2>2. ASSUME call'[o] = [NoCall EXCEPT !.pc = "send"]
        PROVE  StepsLeft(o)' \in 0..(StepsLeft(o) - 1)
    <3>1. call'[o].pc = "send" /\ call'[o].i = 0
        BY <2>2, Locals
    <3> QED
        BY <1>1, <2>1, <3>1 DEF StepsLeft
  <2> QED
      BY <1>2, <2>1, <2>2
<1>4. CASE Send(o)
  <2>1. call[o].pc = "send" /\ call'[o] = Sent(o)
      BY <1>1, <1>4 DEF Send, Become
  <2>2. CASE call[o].i + 1 < N(o)
    <3>1. call'[o].pc = "send" /\ call'[o].i = call[o].i + 1
        BY <1>1, <2>1, <2>2 DEF Sent, CallRecord
    <3> QED
        BY <1>1, <2>1, <2>2, <3>1 DEF StepsLeft
  <2>3. CASE ~ call[o].i + 1 < N(o)
    <3>1. call'[o].pc = "receive" /\ call'[o].i = 0
        BY <1>1, <2>1, <2>3 DEF Sent, CallRecord
    <3> QED
        BY <1>1, <2>1, <2>3, <3>1 DEF StepsLeft
  <2> QED
      BY <2>2, <2>3
<1>5. CASE SendFails(o)
  <2>1. call[o].pc = "send" /\ call'[o] = Done("error", {})
      BY <1>1, <1>5 DEF SendFails, Become
  <2> QED
      BY <1>2, <2>1
<1>6. ASSUME call[o].pc = "receive", NEW l, l.i = call[o].i,
             LET next == [l EXCEPT !.i = @ + 1]
             IN  next.pc = "receive" /\ next.i = l.i + 1,
             call'[o] = NextAttempt(o, l)
      PROVE  StepsLeft(o)' \in 0..(StepsLeft(o) - 1)
  <2>1. CASE l.i + 1 < N(o)
    <3>1. call'[o].pc = "receive" /\ call'[o].i = l.i + 1
        BY <1>6, <2>1 DEF NextAttempt
    <3> QED
        BY <1>1, <1>6, <2>1, <3>1 DEF StepsLeft
  <2>2. CASE ~ l.i + 1 < N(o)
      BY <1>2, <1>6, <2>2 DEF NextAttempt
  <2> QED
      BY <2>1, <2>2
<1>7. CASE Timeout(o)
  <2>1. call[o].pc = "receive" /\ call'[o] = NextAttempt(o, call[o])
      BY <1>1, <1>7 DEF Timeout, Become
  <2> QED
      BY <1>1, <1>6, <2>1 DEF CallRecord
<1>8. ASSUME NEW x, HearsWrite(o, x)
      PROVE  StepsLeft(o)' \in 0..(StepsLeft(o) - 1)
  <2>1. call[o].pc = "receive" /\ call'[o] = CountWrite(o, x[2])
      BY <1>1, <1>8 DEF HearsWrite, Become
  <2> DEFINE l == [call[o] EXCEPT !.nb_writes = call[o].nb_writes + 1]
  <2>2. \A m \in {l, call[o]} :
           /\ m.i = call[o].i
           /\ [m EXCEPT !.i = @ + 1].pc = "receive" /\ [m EXCEPT !.i = @ + 1].i = m.i + 1
      BY <1>1, <2>1 DEF CallRecord
  <2>3. \/ call'[o] = NextAttempt(o, call[o])
        \/ call'[o] = Done("ok", {})
        \/ call'[o] = NextAttempt(o, l)
      BY <2>1 DEF CountWrite
  <2> HIDE DEF l
  <2> QED
      BY <1>1, <1>2, <1>6, <2>1, <2>2, <2>3
<1>9. ASSUME NEW x, NEW vote, HearsVote(o, x, vote)
      PROVE  StepsLeft(o)' \in 0..(StepsLeft(o) - 1)
  <2>1. call[o].pc = "receive" /\ call'[o] = Voted(o, x[2], vote) /\ x \in BagToSet(socket[o])
      BY <1>1, <1>9 DEF HearsVote, Become
  <2>2. PICK l : l = [call[o] EXCEPT !.votes = vote.votes]
      OBVIOUS
  <2>3. /\ l.i = call[o].i
        /\ [l EXCEPT !.i = @ + 1].pc = "receive" /\ [l EXCEPT !.i = @ + 1].i = l.i + 1
      BY <1>1, <2>1, <2>2 DEF CallRecord
  <2>4. call'[o] = Done("ok", {x[2]}) \/ call'[o] = NextAttempt(o, l)
      BY <2>1, <2>2 DEF Voted
  <2>5. {x[2]} \in SUBSET Answer
      BY <1>1, <2>1
  <2> QED
      BY <1>2, <1>6, <2>1, <2>3, <2>4, <2>5
<1>10. CASE Receive(o) \/ LoseVotes(o)
    BY <1>8, <1>9, <1>10, HearsForm DEF Hears
<1> QED
    BY <1>3, <1>4, <1>5, <1>7, <1>10 DEF Client

LEMMA StepAdvances ==
    ASSUME Types, NEW c \in DOMAIN command, Step(c) PROVE Advances(c)
<1>1. /\ ProgramOK /\ ProcessesOK /\ LastCall(c) \in Nat /\ at[c] \in Nat
      /\ c \in DOMAIN output /\ c \in DOMAIN at
    BY CallsOfProcess DEF Types, ProcessesOK
<1>2. CASE InCall(c)
  <2>1. Client(Call(c)) /\ UNCHANGED <<program, at, output>> /\ ~ Refused(c)
      BY <1>2 DEF InCall, clientVars
  <2>2. Call(c) \in DOMAIN program /\ Call(c)' = Call(c)
      BY <1>1, <2>1, CallsOfProcess DEF Call
  <2>3. PICK o : o = Call(c)
      OBVIOUS
  <2>4. StepsLeft(o)' \in 0..(StepsLeft(o) - 1)
      BY <2>1, <2>2, <2>3, ClientAdvances
  <2>5. StepsLeft(Call(c))' = StepsLeft(o)'
      BY <2>2, <2>3 DEF StepsLeft, N, servers_to_contact
  <2> QED
      BY <2>1, <2>3, <2>4, <2>5 DEF Advances
<1>3. CASE Refuse(c) \/ CallFails(c) \/ Finish(c)
  <2>1. \A x, y : <<x>> # <<>> /\ <<x, y>> # <<>>
      OBVIOUS
  <2>2. Answered(c) # <<>>
    <3>1. command[c].name \in {"put", "get", "cat", "find", "substr"}
        BY <1>1 DEF ProcessesOK, Command, Names
    <3> QED
        BY <2>1, <3>1 DEF Answered
  <2>3. Running(c) /\ \E what : Prints(c, what) /\ what # <<>>
      BY <1>3, <2>1, <2>2 DEF Refuse, CallFails, Finish
  <2> QED
      BY <1>1, <2>3 DEF Prints, Running, Advances
<1>4. CASE Concatenate(c)
  <2>1. /\ Running(c) /\ at[c] < LastCall(c)
        /\ \/ Prints(c, <<"FAIL">>)
           \/ at' = [at EXCEPT ![c] = @ + 1] /\ output' = output
      BY <1>4 DEF Concatenate
  <2>2. CASE Prints(c, <<"FAIL">>)
    <3>1. \A x : <<x>> # <<>>
        OBVIOUS
    <3>2. output'[c] = <<"FAIL">>
        BY <1>1, <2>2 DEF Prints
    <3> QED
        BY <2>1, <3>1, <3>2 DEF Running, Advances
  <2>3. CASE at' = [at EXCEPT ![c] = @ + 1] /\ output' = output
    <3>1. at'[c] = at[c] + 1
        BY <1>1, <2>3
    <3> QED
        BY <1>1, <2>1, <2>3, <3>1 DEF Advances
  <2> QED
      BY <2>1, <2>2, <2>3
<1>5. CASE SecondKey(c)
  <2>1. at[c] = 1 /\ at' = [at EXCEPT ![c] = 2] /\ output' = output
      BY <1>5 DEF SecondKey
  <2>2. LastCall(c) = 2
      BY <1>1, <1>5 DEF SecondKey, LastCall, CallsOf
  <2> QED
      BY <1>1, <2>1, <2>2 DEF Advances
<1> QED
    BY <1>2, <1>3, <1>4, <1>5 DEF Step

(***************************************************************************)
(* Every client program takes a bounded number of steps, whatever the      *)
(* servers and the network do: a call sends at most N datagrams and tries  *)
(* at most N times to receive.                                             *)
(***************************************************************************)
THEOREM ClientsAdvance == SpecClients => ProgramsAdvance
<1>1. ASSUME DhtInv, [NextClients]_allVars, NEW c \in DOMAIN command PROVE Waits(c) \/ Advances(c)
  <2>1. CASE Servers \/ UNCHANGED allVars
      BY <2>1 DEF Servers, Serve, Restart, clientVars, allVars, vars, Waits
  <2>2. ASSUME NEW d \in DOMAIN command, Step(d) PROVE Waits(c) \/ Advances(c)
    <3>1. CASE d = c
      <4>1. Types /\ Step(c)
          BY <1>1, <2>2, <3>1 DEF DhtInv
      <4> QED
          BY <4>1, StepAdvances
    <3>2. CASE d # c
      <4>1. output'[c] = output[c] /\ at'[c] = at[c]
        <5>1. c \in DOMAIN output /\ c \in DOMAIN at
            BY <1>1 DEF DhtInv, Types, ProcessesOK
        <5>2. \A what : Prints(d, what) => output'[c] = output[c]
            BY <3>2, <5>1 DEF Prints
        <5>3. /\ output' = output \/ \E what : Prints(d, what)
              /\ at' = at \/ \E n : at' = [at EXCEPT ![d] = n]
            BY <2>2 DEF Step, Refuse, InCall, CallFails, Concatenate, SecondKey, Finish, clientVars
        <5> QED
            BY <3>2, <5>1, <5>2, <5>3
      <4>2. ASSUME NEW o \in DOMAIN program, o[1] = c PROVE call'[o] = call[o]
        <5>1. CASE InCall(d)
          <6>1. Types /\ ProgramOK /\ ProcessesOK /\ Client(Call(d)) /\ ~ Refused(d)
              BY <1>1, <5>1 DEF InCall, DhtInv, Types
          <6>2. Call(d) \in DOMAIN program /\ Call(d)[1] = d
              BY <2>2, <6>1, CallsOfProcess DEF Call
          <6>3. o # Call(d)
              BY <3>2, <4>2, <6>2
          <6> QED
              BY <6>1, <6>2, <6>3, OwnCall
        <5>2. CASE ~ InCall(d)
            BY <2>2, <5>2 DEF Step, Refuse, CallFails, Concatenate, SecondKey, Finish, vars
        <5> QED
            BY <5>1, <5>2
      <4> QED
          BY <4>1, <4>2 DEF Waits
    <3> QED
        BY <3>1, <3>2
  <2> QED
      BY <1>1, <2>1, <2>2 DEF NextClients
<1>2. DhtInv /\ [NextClients]_allVars =>
        [\A c \in DOMAIN command : /\ Waits(c) \/ Advances(c)
                                   /\ Step(c) => Advances(c)]_allVars
    BY <1>1, StepAdvances DEF DhtInv
<1> QED
    BY <1>2, DhtInvariant, PTL DEF SpecClients, ProgramsAdvance
=============================================================================
