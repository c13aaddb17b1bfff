----------------------------- MODULE CallsProofs -----------------------------
(***************************************************************************)
(* Proofs about Clients: what several calls and servers together make of a *)
(* put and a get.  First the faults they tolerate, when an answer that is  *)
(* on its way arrives before the time-out.  Then what servers hold of the  *)
(* puts, and what gets return: values no completed put has superseded, and *)
(* the same value twice, when servers handle requests in the order they    *)
(* were sent.  Last, that a get finds what a put has written, if too few   *)
(* servers, and too few of the votes in its client, are at fault.          *)
(***************************************************************************)
EXTENDS DhtProofs

(***************************************************************************)
(* The accounts from the other side: every server that a call has reached  *)
(* still has its request, has answered, or is blamed for the fault that    *)
(* kept it from answering; and attempts to receive are used up by answers, *)
(* unless nothing is on its way any more.                                  *)
(***************************************************************************)
SentTo(o) == IF call[o].pc = "send" THEN call[o].i ELSE N(o)

\* The attempts to receive that call o has made.
Attempts(o) == IF call[o].pc = "send" THEN 0 ELSE call[o].i

Reached(o) == {servers_to_contact(o)[m] : m \in 1..SentTo(o)}

\* The servers that must have acknowledged put o.
Heard(o) == Reached(o) \ (Asked(inbox, o) \cup faulty[o])

\* Too many servers are faulty for put o.
Hopeless(o) == N(o) - Cardinality(faulty[o]) < Needed(o)

PutOpen(o) ==
    /\ BagToSet(socket[o]) \subseteq Server \X {Empty}
    /\ call[o].nb_writes < Needed(o)
    /\ Cardinality(Heard(o)) <= call[o].nb_writes + Cardinality(Waiting(socket[o], {Empty}))
    /\ net.prompt => Attempts(o) <= call[o].nb_writes \/ Hopeless(o)

PutTolerant(o) ==
    RequestKind(o) = "write" =>
        /\ Open(o) => PutOpen(o)
        /\ net.prompt /\ call[o].pc = "fail" => Hopeless(o)

\* The servers whose answer v is in the bag of a socket.
Pending(bag, v) == {s \in Server : <<s, v>> \in BagToSet(bag)}

\* The servers whose vote for v call o has received and not lost.
Tallied(o, v) == Answering(o, v) \ (faulty[o] \cup Pending(socket[o], v))

\* All answers v that have arrived are counted, or wait, or are blamed.
VotesHeard(o, v) ==
    \E n \in Nat :
        /\ VoteLemmas!CountIs(call[o].votes, v, n) /\ VoteLemmas!Short(n, Quorum(o))
        /\ Cardinality(Tallied(o, v)) <= n

InTime(o) ==
    Attempts(o) + Cardinality(Waiting(socket[o], Answer)) + Cardinality(Requests(inbox, o))
       <= SentTo(o) + dups

GetOpen(o) ==
    /\ BagToSet(socket[o]) \subseteq answered[o]
    /\ \A v \in Unmistaken(o) : VotesHeard(o, v)
    /\ net.prompt => InTime(o)

GetTolerant(o) ==
    /\ Open(o) => GetOpen(o)
    /\ net.prompt /\ call[o].pc = "fail" =>
          \A v \in Unmistaken(o) : Cardinality(Answering(o, v) \ faulty[o]) < Needed(o) + dups

Tolerant(o) ==
    /\ faulty[o] \in SUBSET Server
    /\ IsPut(o) => PutTolerant(o)
    /\ ~ IsPut(o) => GetTolerant(o)
    /\ Open(o) => Quorum(o) <= N(o)

\* N is a size_t.
SizesFit == \A o \in DOMAIN program : N(o) < SizeMod

ToleranceInv ==
    /\ SizesFit /\ DOMAIN faulty = DOMAIN program
    /\ \A o \in DOMAIN program : Tolerant(o)

----------------------------------------------------------------------------

LEMMA ToleranceInit ==
    ASSUME InitClients PROVE ToleranceInv
<1>1. PICK c \in Scenarios : program = c.program
    BY DEF InitClients, Init
<1>2. DhtInv
    BY DhtInit
<1>3. SizesFit
  <2>1. \A o \in DOMAIN program : program[o].N < SizeMod
      BY <1>1, DhtAssumption
  <2>2. \A o \in DOMAIN program : N(o) = program[o].N
      BY <1>2, CallFacts DEF DhtInv, Types
  <2> QED
      BY <2>1, <2>2 DEF SizesFit
<1>4. /\ call = [o \in DOMAIN program |-> NoCall]
      /\ faulty = [o \in DOMAIN program |-> {}]
    BY DEF InitClients, Init
<1>5. ASSUME NEW o \in DOMAIN program PROVE Tolerant(o)
  <2>1. call[o].pc = "new"
      BY <1>4, Locals
  <2>2. faulty[o] = {}
      BY <1>4 DEF Puts
  <2> QED
      BY <2>1, <2>2 DEF Tolerant, PutTolerant, GetTolerant, Open
<1> QED
    BY <1>3, <1>4, <1>5 DEF ToleranceInv

\* Cardinalities are numbers.
LEMMA Counts ==
    ASSUME Types, NEW o \in DOMAIN program
    PROVE  /\ N(o) \in Nat /\ Quorum(o) \in Nat /\ Needed(o) \in Nat /\ dups \in Nat
           /\ call[o].i \in Nat /\ call[o].nb_writes \in Nat
           /\ \A Q \in SUBSET Answer : /\ IsFiniteSet(Waiting(socket[o], Q))
                                       /\ Cardinality(Waiting(socket[o], Q)) \in Nat
           /\ IsFiniteSet(Requests(inbox, o)) /\ Cardinality(Requests(inbox, o)) \in Nat
           /\ SentTo(o) \in Nat /\ Attempts(o) \in Nat
           /\ Reached(o) \subseteq Server /\ Heard(o) \subseteq Server
           /\ Cardinality(Heard(o)) \in Nat
           /\ \A v : /\ Answering(o, v) \subseteq Server /\ Tallied(o, v) \subseteq Server
                     /\ Cardinality(Tallied(o, v)) \in Nat
                     /\ Cardinality(Answering(o, v) \ faulty[o]) \in Nat
<1>1. /\ N(o) \in Nat /\ Quorum(o) \in Nat
      /\ \A m \in 1..N(o) : servers_to_contact(o)[m] \in Server
    BY CallFacts DEF Types
<1>2. Needed(o) \in Nat
    BY <1>1 DEF Needed
<1>3. call[o] \in CallRecord /\ CallOK(o, call[o], socket[o]) /\ dups \in Nat
    BY CallTyped DEF Types, ServersOK
<1>4. call[o].i \in Nat /\ call[o].nb_writes \in Nat
    BY <1>3 DEF CallRecord
<1>5. \A Q \in SUBSET Answer : /\ IsFiniteSet(Waiting(socket[o], Q))
                               /\ Cardinality(Waiting(socket[o], Q)) \in Nat
    BY <1>3, FewerWaiting DEF CallOK
<1>6. IsFiniteSet(Requests(inbox, o)) /\ Cardinality(Requests(inbox, o)) \in Nat
    BY FS_CardinalityType DEF Types, RequestsOK
<1>7. SentTo(o) \in Nat /\ Attempts(o) \in Nat
    BY <1>1, <1>4 DEF SentTo, Attempts
<1>8. Reached(o) \subseteq Server
  <2>1. SentTo(o) <= N(o)
      BY <1>1, <1>3, <1>4 DEF SentTo, CallOK
  <2>2. \A m \in 1..SentTo(o) : m \in 1..N(o)
      BY <1>1, <1>7, <2>1
  <2> QED
      BY <1>1, <2>2 DEF Reached
<1>9. Heard(o) \subseteq Server /\ Cardinality(Heard(o)) \in Nat
  <2>1. Heard(o) \subseteq Server
      BY <1>8 DEF Heard
  <2> QED
      BY <2>1, ServerSet
<1>10. \A v : /\ Answering(o, v) \subseteq Server /\ Tallied(o, v) \subseteq Server
              /\ Cardinality(Tallied(o, v)) \in Nat
              /\ Cardinality(Answering(o, v) \ faulty[o]) \in Nat
  <2>1. \A v : /\ Answering(o, v) \subseteq Server /\ Tallied(o, v) \subseteq Server
               /\ Answering(o, v) \ faulty[o] \subseteq Server
      BY DEF Answering, Tallied
  <2> QED
      BY <2>1, ServerSet
<1> QED
    BY <1>1, <1>2, <1>3, <1>4, <1>5, <1>6, <1>7, <1>8, <1>9, <1>10

----------------------------------------------------------------------------

(***************************************************************************)
(* A step that brings call o neither progress nor an answer.               *)
(***************************************************************************)
Kept(o) ==
    /\ call'[o] = call[o] /\ socket'[o] = socket[o] /\ net' = net /\ dups <= dups'
    /\ faulty[o] \subseteq faulty'[o] /\ faulty'[o] \in SUBSET Server
    /\ IsPut(o) /\ RequestKind(o) = "write" /\ Open(o) =>
          Asked(inbox, o) \subseteq Asked(inbox', o) \cup faulty'[o]
    /\ ~ IsPut(o) => /\ answered'[o] = answered[o]
                     /\ Cardinality(Requests(inbox', o)) <= Cardinality(Requests(inbox, o))

\* More faults leave less hope.
LEMMA StaysHopeless ==
    ASSUME Types, NEW o \in DOMAIN program, N(o)' = N(o), Needed(o)' = Needed(o), Hopeless(o),
           faulty[o] \subseteq faulty'[o], faulty'[o] \in SUBSET Server
    PROVE  Hopeless(o)'
<1>1. /\ Cardinality(faulty'[o]) \in Nat /\ Cardinality(faulty[o]) \in Nat
      /\ Cardinality(faulty[o]) <= Cardinality(faulty'[o])
    BY ServerSet, FS_Subset
<1>2. N(o) \in Nat /\ Needed(o) \in Nat
    BY Counts
<1> QED
    BY <1>1, <1>2 DEF Hopeless

LEMMA KeptTolerant ==
    ASSUME Types, RequestsOK', ServersOK', SameCalls, NEW o \in DOMAIN program, Tolerant(o), Kept(o),
           call[o].pc # "new" => RequestKind(o)' = RequestKind(o)
    PROVE  Tolerant(o)'
<1>1. /\ N(o)' = N(o) /\ Needed(o)' = Needed(o) /\ Quorum(o)' = Quorum(o)
      /\ (IsPut(o)' <=> IsPut(o)) /\ servers_to_contact(o)' = servers_to_contact(o)
    BY SameNeeds DEF SameCalls
<1>2. call'[o] = call[o] /\ socket'[o] = socket[o] /\ net' = net /\ dups <= dups'
    BY DEF Kept
<1>3. /\ Open(o)' <=> Open(o)
      /\ SentTo(o)' = SentTo(o) /\ Attempts(o)' = Attempts(o) /\ Reached(o)' = Reached(o)
    BY <1>1, <1>2 DEF Open, SentTo, Attempts, Reached
<1>4. /\ Open(o)' => Quorum(o)' <= N(o)'
      /\ faulty[o] \subseteq faulty'[o] /\ faulty'[o] \in SUBSET Server
    BY <1>1, <1>3 DEF Tolerant, Kept
<1>5. CASE IsPut(o)
  <2>1. /\ faulty[o] \subseteq faulty'[o] /\ faulty'[o] \in SUBSET Server
        /\ RequestKind(o) = "write" /\ Open(o) =>
              Asked(inbox, o) \subseteq Asked(inbox', o) \cup faulty'[o]
      BY <1>5 DEF Kept
  <2>2. Hopeless(o) => Hopeless(o)'
      BY <1>1, <2>1, StaysHopeless
  <2>3. ASSUME RequestKind(o) = "write", Open(o) PROVE PutOpen(o)'
    <3>1. PutOpen(o)
        BY <1>5, <2>3 DEF Tolerant, PutTolerant
    <3>2. Heard(o)' \subseteq Heard(o)
        BY <1>3, <2>1, <2>3 DEF Heard
    <3>3. Cardinality(Heard(o)') <= Cardinality(Heard(o)) /\ Cardinality(Heard(o)') \in Nat
      <4>1. Heard(o) \subseteq Server
          BY Counts
      <4>2. Heard(o)' \subseteq Server
          BY <3>2, <4>1
      <4> QED
          BY <3>2, <4>1, <4>2, ServerSet, FS_Subset
    <3>4. Cardinality(Heard(o))' = Cardinality(Heard(o)')
        OBVIOUS
    <3>5. /\ Cardinality(Heard(o)) \in Nat /\ call[o].nb_writes \in Nat
          /\ Cardinality(Waiting(socket[o], {Empty})) \in Nat
      <4>1. {Empty} \in SUBSET Answer
          BY DEF Answer
      <4> QED
          BY <4>1, Counts
    <3>6. Cardinality(Waiting(socket[o], {Empty}))' = Cardinality(Waiting(socket[o], {Empty}))
        BY <1>2 DEF Waiting
    <3>7. Cardinality(Heard(o))' <= call'[o].nb_writes + Cardinality(Waiting(socket[o], {Empty}))'
      <4>1. Cardinality(Heard(o)) <= call[o].nb_writes + Cardinality(Waiting(socket[o], {Empty}))
          BY <3>1 DEF PutOpen
      <4> QED
          BY <1>2, <3>3, <3>4, <3>5, <3>6, <4>1
    <3> QED
        BY <1>1, <1>2, <1>3, <2>2, <3>1, <3>7 DEF PutOpen
  <2>4. ASSUME RequestKind(o) = "write", net.prompt, call[o].pc = "fail" PROVE Hopeless(o)'
      BY <1>5, <2>2, <2>4 DEF Tolerant, PutTolerant
  <2>5. Open(o) \/ call[o].pc = "fail" => call[o].pc # "new"
      BY DEF Open
  <2>6. PutTolerant(o)'
      BY <1>2, <1>3, <2>3, <2>4, <2>5 DEF PutTolerant
  <2> QED
      BY <1>1, <1>4, <1>5, <2>1, <2>6 DEF Tolerant
<1>6. CASE ~ IsPut(o)
  <2>1. /\ answered'[o] = answered[o]
        /\ Cardinality(Requests(inbox', o)) <= Cardinality(Requests(inbox, o))
      BY <1>6 DEF Kept
  <2>2. ASSUME NEW v
        PROVE  /\ Cardinality(Tallied(o, v))' <= Cardinality(Tallied(o, v))
               /\ Cardinality(Answering(o, v) \ faulty[o])' <= Cardinality(Answering(o, v) \ faulty[o])
    <3>1. /\ Tallied(o, v)' \subseteq Tallied(o, v)
          /\ (Answering(o, v) \ faulty[o])' \subseteq Answering(o, v) \ faulty[o]
        BY <1>2, <1>4, <2>1 DEF Answering, Tallied, Pending
    <3>2. Tallied(o, v) \subseteq Server /\ Answering(o, v) \ faulty[o] \subseteq Server
        BY Counts
    <3> QED
        BY <3>1, <3>2, ServerSet, FS_Subset
  <2>3. Unmistaken(o)' = Unmistaken(o)
      BY <2>1 DEF Unmistaken
  <2>4. /\ dups \in Nat /\ dups' \in Nat /\ Needed(o) \in Nat
        /\ Cardinality(Requests(inbox, o)) \in Nat /\ Cardinality(Requests(inbox', o)) \in Nat
        /\ Attempts(o) \in Nat /\ SentTo(o) \in Nat
        /\ Cardinality(Waiting(socket[o], Answer)) \in Nat
        /\ \A v : /\ Cardinality(Tallied(o, v)) \in Nat /\ Cardinality(Tallied(o, v))' \in Nat
                  /\ Cardinality(Answering(o, v) \ faulty[o]) \in Nat
                  /\ Cardinality(Answering(o, v) \ faulty[o])' \in Nat
    <3>1. IsFiniteSet(Requests(inbox', o))
        BY DEF RequestsOK, Requests, SameCalls
    <3>2. Cardinality(Requests(inbox', o)) \in Nat
        BY <3>1, FS_CardinalityType
    <3>3. \A v : Tallied(o, v)' \subseteq Server /\ (Answering(o, v) \ faulty[o])' \subseteq Server
        BY DEF Answering, Tallied
    <3>4. \A v : /\ Cardinality(Tallied(o, v)') \in Nat
                 /\ Cardinality((Answering(o, v) \ faulty[o])') \in Nat
        BY <3>3, ServerSet
    <3> QED
        BY <3>2, <3>4, Counts DEF ServersOK
  <2>5. ASSUME Open(o) PROVE GetOpen(o)'
    <3>1. GetOpen(o)
        BY <1>6, <2>5 DEF Tolerant, GetTolerant
    <3>2. InTime(o) => InTime(o)'
      <4>1. /\ Cardinality(Waiting(socket[o], Answer))' = Cardinality(Waiting(socket[o], Answer))
            /\ Cardinality(Requests(inbox, o))' = Cardinality(Requests(inbox', o))
          BY <1>2 DEF Waiting, Answer, Requests
      <4> QED
          BY <1>2, <1>3, <2>1, <2>4, <4>1 DEF InTime
    <3>3. ASSUME NEW v \in Unmistaken(o) PROVE VotesHeard(o, v)'
      <4>1. PICK n \in Nat :
               /\ VoteLemmas!CountIs(call[o].votes, v, n) /\ VoteLemmas!Short(n, Quorum(o))
               /\ Cardinality(Tallied(o, v)) <= n
          BY <3>1, <3>3 DEF GetOpen, VotesHeard
      <4>2. Cardinality(Tallied(o, v))' <= n
        <5>1. Cardinality(Tallied(o, v)) \in Nat /\ Cardinality(Tallied(o, v))' \in Nat
            BY <2>4
        <5>2. Cardinality(Tallied(o, v))' <= Cardinality(Tallied(o, v))
            BY <2>2
        <5> QED
            BY <4>1, <5>1, <5>2
      <4> QED
          BY <1>1, <1>2, <4>1, <4>2 DEF VotesHeard
    <3>4. BagToSet(socket[o])' \subseteq answered'[o]
        BY <1>2, <2>1, <3>1 DEF GetOpen
    <3> QED
        BY <1>2, <2>3, <3>1, <3>2, <3>3, <3>4 DEF GetOpen
  <2>6. ASSUME net.prompt, call[o].pc = "fail", NEW v \in Unmistaken(o)
        PROVE  Cardinality(Answering(o, v) \ faulty[o])' < Needed(o)' + dups'
    <3>1. Cardinality(Answering(o, v) \ faulty[o]) < Needed(o) + dups
        BY <1>6, <2>6 DEF Tolerant, GetTolerant
    <3>2. Cardinality(Answering(o, v) \ faulty[o])' <= Cardinality(Answering(o, v) \ faulty[o])
        BY <2>2
    <3> QED
        BY <1>1, <1>2, <2>4, <3>1, <3>2
  <2>7. GetTolerant(o)'
      BY <1>2, <1>3, <2>3, <2>5, <2>6 DEF GetTolerant
  <2> QED
      BY <1>1, <1>4, <1>6, <2>7 DEF Tolerant
<1> QED
    BY <1>5, <1>6

----------------------------------------------------------------------------

(***************************************************************************)
(* The steps of the servers, but for an answer that reaches an open call.  *)
(***************************************************************************)
LEMMA ServedKept ==
    ASSUME Types, DOMAIN faulty = DOMAIN program, NEW s \in Server, NEW j \in 1..Len(inbox[s]), NEW n \in 0..2,
           NEW x \in Answer, ServedAs(s, j, n, x), BlamedAs(s, j, n, x), net' = net,
           NEW o \in DOMAIN program, faulty[o] \in SUBSET Server,
           inbox[s][j] # o \/ n = 0 \/ ~ Open(o)
    PROVE  Kept(o)
<1> DEFINE p == inbox[s][j]
<1>1. /\ inbox' = Without(inbox, s, j) /\ call' = call
      /\ socket' = IF n > 0 /\ Open(p)
                   THEN [socket EXCEPT ![p] = @ (+) Copied(<<s, x>>, n)] ELSE socket
      /\ answered' = IF n > 0 /\ Open(p) /\ p \in Gets
                     THEN [answered EXCEPT ![p] = @ \cup {<<s, x>>}] ELSE answered
      /\ dups' = IF n = 2 THEN dups + 1 ELSE dups
    BY DEF ServedAs
<1>2. /\ faulty' = faulty \/ faulty' = [faulty EXCEPT ![p] = @ \cup {s}]
      /\ RequestKind(p) = "write" /\ n = 0 /\ Open(p) =>
            faulty' = [faulty EXCEPT ![p] = @ \cup {s}]
    BY DEF BlamedAs
<1>3. p # o \/ n = 0 \/ ~ Open(o)
    OBVIOUS
<1>4. LET rest == Without(inbox, s, j)
          m == Cardinality(Requests(inbox, o))
      IN  /\ p = o => /\ Cardinality(Requests(rest, o)) = m - 1
                      /\ Asked(inbox, o) \subseteq Asked(rest, o) \cup {s}
          /\ p # o => /\ Cardinality(Requests(rest, o)) = m
                      /\ Asked(inbox, o) = Asked(rest, o)
  <2>1. inbox \in Boxes(DOMAIN program) /\ IsFiniteSet(Requests(inbox, o))
      BY DEF Types, RequestsOK, Boxes
  <2> QED
      BY <2>1, Handled
<1> HIDE DEF p
<1>5. dups' >= dups /\ Cardinality(Requests(inbox, o)) \in Nat
  <2>1. dups \in Nat /\ Cardinality(Requests(inbox, o)) \in Nat
      BY Counts
  <2> QED
      BY <1>1, <2>1
<1>6. Cardinality(Requests(inbox', o)) <= Cardinality(Requests(inbox, o))
    BY <1>1, <1>4, <1>5
<1>7. socket'[o] = socket[o] /\ (~ IsPut(o) => answered'[o] = answered[o])
  <2>1. DOMAIN socket = DOMAIN program /\ answered \in [Gets -> SUBSET (Server \X Value)]
      BY DEF Types, CallsOK, ServersOK
  <2>2. ~ IsPut(o) => o \in DOMAIN answered
      BY <2>1, Kinds
  <2>3. CASE n > 0 /\ Open(p)
    <3>1. p # o
        BY <1>3, <2>3
    <3> QED
        BY <1>1, <2>1, <2>2, <3>1
  <2>4. CASE ~ (n > 0 /\ Open(p))
      BY <1>1, <2>4
  <2> QED
      BY <2>3, <2>4
<1>8. /\ faulty[o] \subseteq faulty'[o] /\ faulty'[o] \in SUBSET Server
      /\ RequestKind(o) = "write" /\ Open(o) =>
            Asked(inbox, o) \subseteq Asked(inbox', o) \cup faulty'[o]
  <2>1. o \in DOMAIN faulty /\ faulty[o] \in SUBSET Server
      OBVIOUS
  <2>2. faulty[o] \subseteq faulty'[o] /\ faulty'[o] \in SUBSET Server
      BY <1>2, <2>1
  <2>3. CASE p = o
    <3>1. RequestKind(o) = "write" /\ Open(o) => s \in faulty'[o]
        BY <1>2, <1>3, <2>1, <2>3
    <3> QED
        BY <1>1, <1>4, <2>2, <2>3, <3>1
  <2>4. CASE p # o
      BY <1>1, <1>4, <2>2, <2>4
  <2> QED
      BY <2>3, <2>4
<1> QED
    BY <1>1, <1>5, <1>6, <1>7, <1>8 DEF Kept

LEMMA RestartKept ==
    ASSUME Types, DOMAIN faulty = DOMAIN program, NEW s \in Server, Restart(s), net' = net,
           NEW o \in DOMAIN program, faulty[o] \in SUBSET Server
    PROVE  Kept(o)
<1>1. /\ UNCHANGED <<socket, call, answered, dups>> /\ inbox' = Emptied(inbox, s)
      /\ faulty' = [p \in DOMAIN program |->
                       IF Open(p) /\ \E j \in 1..Len(inbox[s]) : inbox[s][j] = p
                       THEN faulty[p] \cup {s} ELSE faulty[p]]
    BY DEF Restart, Emptied
<1>2. dups \in Nat /\ Cardinality(Requests(inbox, o)) \in Nat
    BY Counts
<1>3. /\ Cardinality(Requests(inbox', o)) <= IF s \in Asked(inbox, o)
                                             THEN Cardinality(Requests(inbox, o)) - 1
                                             ELSE Cardinality(Requests(inbox, o))
      /\ Asked(inbox', o) = Asked(inbox, o) \ {s} /\ IsFiniteSet(Requests(inbox', o))
  <2>1. inbox \in Boxes(DOMAIN program) /\ IsFiniteSet(Requests(inbox, o))
      BY DEF Types, RequestsOK, Boxes
  <2> QED
      BY <1>1, <2>1, Forgotten
<1>4. Cardinality(Requests(inbox', o)) <= Cardinality(Requests(inbox, o))
  <2>1. Cardinality(Requests(inbox', o)) \in Nat
      BY <1>3, FS_CardinalityType
  <2> QED
      BY <1>2, <1>3, <2>1
<1>5. /\ faulty[o] \subseteq faulty'[o] /\ faulty'[o] \in SUBSET Server
      /\ Open(o) => Asked(inbox, o) \subseteq Asked(inbox', o) \cup faulty'[o]
  <2>1. o \in DOMAIN program /\ faulty[o] \in SUBSET Server
      OBVIOUS
  <2>2. s \in Asked(inbox, o) => \E j \in 1..Len(inbox[s]) : inbox[s][j] = o
      BY DEF Asked
  <2>3. /\ faulty[o] \subseteq faulty'[o] /\ faulty'[o] \in SUBSET Server
        /\ Open(o) /\ s \in Asked(inbox, o) => s \in faulty'[o]
      BY <1>1, <2>1, <2>2
  <2> QED
      BY <1>3, <2>3
<1> QED
    BY <1>1, <1>2, <1>4, <1>5 DEF Kept

(***************************************************************************)
(* The steps of another call.                                              *)
(***************************************************************************)
LEMMA OthersAsked ==
    ASSUME Types, NEW p \in DOMAIN program, Client(p), NEW o \in DOMAIN program, o # p
    PROVE  /\ Cardinality(Requests(inbox', o)) = Cardinality(Requests(inbox, o))
           /\ Asked(inbox', o) = Asked(inbox, o)
<1>1. CASE Send(p)
  <2> DEFINE s == servers_to_contact(p)[call[p].i + 1]
  <2>1. s \in Server /\ \E n \in 0..2 : inbox' = Sending(inbox, s, n, p)
      BY <1>1, SendForm
  <2>2. inbox \in Boxes(DOMAIN program) /\ IsFiniteSet(Requests(inbox, o))
      BY DEF Types, RequestsOK, Boxes
  <2> HIDE DEF s
  <2> QED
      BY <2>1, <2>2, CopiesSent
<1>2. CASE ~ Send(p)
  <2>1. inbox' = inbox
      BY <1>2 DEF Client, Start, SendFails, Receive, LoseVotes, Timeout
  <2> QED
      BY <2>1
<1> QED
    BY <1>1, <1>2

LEMMA OthersKept ==
    ASSUME Types, DOMAIN faulty = DOMAIN program, NEW p \in DOMAIN program, Client(p), net' = net,
           NEW o \in DOMAIN program, o # p, faulty[o] \in SUBSET Server
    PROVE  Kept(o)
<1>1. call'[o] = call[o] /\ socket'[o] = socket[o]
  <2>1. \E l, w : Become(p, l, w)
      BY DEF Client, Start, Send, SendFails, Receive, LoseVotes, Timeout
  <2> QED
      BY <2>1 DEF Become, Types, CallsOK
<1>2. dups \in Nat /\ Cardinality(Requests(inbox, o)) \in Nat
    BY Counts
<1>3. answered' = answered
    BY DEF Client, Start, Send, SendFails, Receive, LoseVotes, Timeout, history
<1>4. dups <= dups'
  <2>1. dups' = dups \/ dups' = dups + 1
      BY DEF Client, Start, Send, SendFails, Receive, LoseVotes, Timeout, history, Count
  <2> QED
      BY <1>2, <2>1
<1>5. faulty'[o] = faulty[o]
  <2>1. faulty' = faulty \/ \E S : faulty' = [faulty EXCEPT ![p] = @ \cup S]
      BY DEF Client, Start, Send, SendFails, Receive, LoseVotes, Timeout, history, BlameLoss, Blame
  <2> QED
      BY <2>1, Kinds
<1>6. /\ Cardinality(Requests(inbox', o)) = Cardinality(Requests(inbox, o))
      /\ Asked(inbox', o) = Asked(inbox, o)
    BY OthersAsked
<1> QED
    BY <1>1, <1>2, <1>3, <1>4, <1>5, <1>6 DEF Kept

----------------------------------------------------------------------------

(***************************************************************************)
(* An answer that reaches an open call.                                    *)
(***************************************************************************)
LEMMA ServedPut ==
    ASSUME Types, DOMAIN faulty = DOMAIN program, NEW s \in Server, NEW j \in 1..Len(inbox[s]), NEW n \in 1..2,
           NEW x \in Answer, ServedAs(s, j, n, x), BlamedAs(s, j, n, x),
           UNCHANGED <<net, program>>,
           NEW o \in DOMAIN program, o = inbox[s][j], Open(o), IsPut(o), Tolerant(o)
    PROVE  Tolerant(o)'
<1>1. /\ N(o)' = N(o) /\ Needed(o)' = Needed(o) /\ Quorum(o)' = Quorum(o)
      /\ (IsPut(o)' <=> IsPut(o)) /\ servers_to_contact(o)' = servers_to_contact(o)
      /\ RequestKind(o)' = RequestKind(o)
    BY SameProgram, SameNeeds DEF SameCalls, RequestKind, IsPut
<1>2. /\ inbox' = Without(inbox, s, j) /\ call' = call
      /\ socket' = [socket EXCEPT ![o] = @ (+) Copied(<<s, x>>, n)]
    BY DEF ServedAs
<1>3. /\ Open(o)' /\ call'[o].pc # "fail" /\ SentTo(o)' = SentTo(o)
      /\ Attempts(o)' = Attempts(o) /\ Reached(o)' = Reached(o)
    BY <1>1, <1>2 DEF Open, SentTo, Attempts, Reached
<1>4. faulty[o] \subseteq faulty'[o] /\ faulty'[o] \in SUBSET Server
  <2>1. o \in DOMAIN faulty /\ faulty[o] \in SUBSET Server
      BY Kinds DEF Tolerant
  <2>2. faulty' = faulty \/ faulty' = [faulty EXCEPT ![o] = @ \cup {s}]
      BY DEF BlamedAs
  <2> QED
      BY <2>1, <2>2
<1>5. Hopeless(o) => Hopeless(o)'
    BY <1>1, <1>4, StaysHopeless
<1>6. ASSUME RequestKind(o) = "write" PROVE PutOpen(o)'
  <2>1. PutOpen(o) /\ x = Empty
      BY <1>6 DEF Tolerant, PutTolerant, BlamedAs
  <2>2. Asked(inbox, o) \subseteq Asked(inbox', o) \cup {s}
    <3>1. inbox \in Boxes(DOMAIN program) /\ IsFiniteSet(Requests(inbox, o))
        BY DEF Types, RequestsOK, Boxes
    <3> QED
        BY <1>2, <3>1, Handled
  <2>3. Cardinality(Heard(o)') <= Cardinality(Heard(o)) + 1 /\ Cardinality(Heard(o)') \in Nat
    <3>1. Heard(o) \subseteq Server
        BY Counts
    <3>2. Heard(o)' \subseteq Heard(o) \cup {s}
        BY <1>3, <1>4, <2>2 DEF Heard
    <3>3. Heard(o)' \subseteq Server
        BY <3>1, <3>2
    <3> QED
        BY <3>1, <3>2, <3>3, OneLost, ServerSet
  <2>4. /\ BagToSet(socket'[o]) = BagToSet(socket[o]) \cup {<<s, x>>}
        /\ Cardinality(Waiting(socket'[o], {Empty})) = Cardinality(Waiting(socket[o], {Empty})) + n
    <3>1. {Empty} \in SUBSET Answer
        BY DEF Answer
    <3>2. IsABag(socket[o]) /\ IsFiniteSet(Waiting(socket[o], {Empty})) /\ DOMAIN socket = DOMAIN program
        BY <3>1, CallTyped DEF Types, CallsOK
    <3>3. socket'[o] = socket[o] (+) Copied(<<s, x>>, n)
        BY <1>2, <3>2
    <3>4. PICK B, y, Q : B = socket[o] /\ y = <<s, x>> /\ Q = {Empty}
        OBVIOUS
    <3>5. IsABag(B) /\ IsFiniteSet(Waiting(B, Q)) /\ y[2] \in Q
        BY <2>1, <3>2, <3>4
    <3>6. LET C == B (+) Copied(y, n)
          IN  /\ BagToSet(C) = BagToSet(B) \cup {y}
              /\ Cardinality(Waiting(C, Q)) = Cardinality(Waiting(B, Q)) + n
        BY <3>5, CopiesDelivered
    <3> QED
        BY <3>3, <3>4, <3>6
  <2>5. /\ Cardinality(Heard(o)) \in Nat /\ call[o].nb_writes \in Nat
        /\ Cardinality(Waiting(socket[o], {Empty})) \in Nat
    <3>1. {Empty} \in SUBSET Answer
        BY DEF Answer
    <3> QED
        BY <3>1, Counts
  <2>6. Cardinality(Heard(o))' <= call'[o].nb_writes + Cardinality(Waiting(socket[o], {Empty}))'
    <3>1. /\ Cardinality(Heard(o))' = Cardinality(Heard(o)')
          /\ Cardinality(Waiting(socket[o], {Empty}))' = Cardinality(Waiting(socket'[o], {Empty}))
        BY DEF Waiting
    <3>2. Cardinality(Heard(o)) <= call[o].nb_writes + Cardinality(Waiting(socket[o], {Empty}))
        BY <2>1 DEF PutOpen
    <3>3. n \in Nat /\ n >= 1 /\ call'[o].nb_writes = call[o].nb_writes
        BY <1>2
    <3> DEFINE h == Cardinality(Heard(o))
               w == Cardinality(Waiting(socket[o], {Empty}))
               h1 == Cardinality(Heard(o)')
               w1 == Cardinality(Waiting(socket'[o], {Empty}))
    <3>4. /\ h \in Nat /\ h1 \in Nat /\ w \in Nat /\ h1 <= h + 1 /\ w1 = w + n
          /\ h <= call[o].nb_writes + w
        BY <2>3, <2>4, <2>5, <3>2
    <3> HIDE DEF h, w, h1, w1
    <3>5. h1 <= call[o].nb_writes + w1
        BY <2>5, <3>3, <3>4
    <3> QED
        BY <3>1, <3>3, <3>5 DEF h1, w1
  <2>7. BagToSet(socket[o])' \subseteq Server \X {Empty}
      BY <2>1, <2>4 DEF PutOpen
  <2> QED
      BY <1>1, <1>2, <1>3, <1>5, <2>1, <2>6, <2>7 DEF PutOpen
<1>7. PutTolerant(o)'
    BY <1>1, <1>3, <1>6 DEF PutTolerant
<1>8. Quorum(o)' <= N(o)'
    BY <1>1 DEF Tolerant
<1> QED
    BY <1>1, <1>4, <1>7, <1>8 DEF Tolerant

LEMMA ServedGet ==
    ASSUME Types, DOMAIN faulty = DOMAIN program, NEW s \in Server, NEW j \in 1..Len(inbox[s]), NEW n \in 1..2,
           NEW x \in Answer, ServedAs(s, j, n, x), BlamedAs(s, j, n, x), UNCHANGED <<net, program>>,
           NEW o \in DOMAIN program, o = inbox[s][j], Open(o), ~ IsPut(o), Tolerant(o)
    PROVE  Tolerant(o)'
<1>1. /\ N(o)' = N(o) /\ Needed(o)' = Needed(o) /\ Quorum(o)' = Quorum(o)
      /\ (IsPut(o)' <=> IsPut(o)) /\ servers_to_contact(o)' = servers_to_contact(o)
    BY SameProgram, SameNeeds DEF SameCalls
<1>2. /\ inbox' = Without(inbox, s, j) /\ call' = call
      /\ socket' = [socket EXCEPT ![o] = @ (+) Copied(<<s, x>>, n)]
      /\ answered' = [answered EXCEPT ![o] = @ \cup {<<s, x>>}]
      /\ dups' = IF n = 2 THEN dups + 1 ELSE dups
    BY Kinds DEF ServedAs
<1>3. /\ Open(o)' /\ call'[o].pc # "fail" /\ SentTo(o)' = SentTo(o)
      /\ Attempts(o)' = Attempts(o)
    BY <1>1, <1>2 DEF Open, SentTo, Attempts
<1>4. GetOpen(o)
    BY DEF Tolerant, GetTolerant
<1>12. faulty[o] \subseteq faulty'[o] /\ faulty'[o] \in SUBSET Server
  <2>1. o \in DOMAIN faulty /\ faulty[o] \in SUBSET Server
      BY DEF Tolerant
  <2>2. faulty' = faulty \/ faulty' = [faulty EXCEPT ![o] = @ \cup {s}]
      BY DEF BlamedAs
  <2> QED
      BY <2>1, <2>2
<1>5. answered'[o] = answered[o] \cup {<<s, x>>}
    BY <1>2, Kinds DEF Types, ServersOK
<1>6. /\ BagToSet(socket'[o]) = BagToSet(socket[o]) \cup {<<s, x>>}
      /\ \A Q \in SUBSET Answer :
            Cardinality(Waiting(socket'[o], Q)) =
                Cardinality(Waiting(socket[o], Q)) + (IF x \in Q THEN n ELSE 0)
  <2>1. /\ IsABag(socket[o]) /\ DOMAIN socket = DOMAIN program
        /\ \A Q \in SUBSET Answer : IsFiniteSet(Waiting(socket[o], Q))
      BY CallTyped DEF Types, CallsOK
  <2>2. socket'[o] = socket[o] (+) Copied(<<s, x>>, n)
      BY <1>2, <2>1
  <2>3. \A Q \in SUBSET Answer :
            /\ BagToSet(socket'[o]) = BagToSet(socket[o]) \cup {<<s, x>>}
            /\ Cardinality(Waiting(socket'[o], Q)) =
                   Cardinality(Waiting(socket[o], Q)) + (IF <<s, x>>[2] \in Q THEN n ELSE 0)
      BY <2>1, <2>2, CopiesDelivered
  <2>4. Answer \in SUBSET Answer /\ <<s, x>>[2] = x
      OBVIOUS
  <2> QED
      BY <2>3, <2>4
<1>7. BagToSet(socket[o])' \subseteq answered'[o]
    BY <1>4, <1>5, <1>6 DEF GetOpen
<1>8. ASSUME NEW v \in Unmistaken(o)' PROVE VotesHeard(o, v)'
  <2>1. v \in Unmistaken(o) /\ v \in Answer
      BY <1>5, <1>8 DEF Unmistaken
  <2>2. PICK m \in Nat :
           /\ VoteLemmas!CountIs(call[o].votes, v, m) /\ VoteLemmas!Short(m, Quorum(o))
           /\ Cardinality(Tallied(o, v)) <= m
      BY <1>4, <2>1 DEF GetOpen, VotesHeard
  <2>3. Tallied(o, v)' \subseteq Tallied(o, v)
      BY <1>5, <1>6, <1>12 DEF Tallied, Answering, Pending
  <2>4. Tallied(o, v) \subseteq Server /\ Cardinality(Tallied(o, v)) \in Nat
      BY Counts
  <2>5. Cardinality(Tallied(o, v)') <= Cardinality(Tallied(o, v)) /\ Cardinality(Tallied(o, v)') \in Nat
      BY <2>3, <2>4, ServerSet, FS_Subset
  <2>6. Cardinality(Tallied(o, v))' <= m
      BY <2>2, <2>4, <2>5
  <2> QED
      BY <1>1, <1>2, <2>2, <2>6 DEF VotesHeard
<1>9. InTime(o) => InTime(o)'
  <2>1. /\ dups \in Nat /\ Cardinality(Requests(inbox, o)) \in Nat
        /\ Attempts(o) \in Nat /\ SentTo(o) \in Nat
        /\ Cardinality(Waiting(socket[o], Answer)) \in Nat
      BY Counts
  <2>2. Cardinality(Requests(inbox', o)) = Cardinality(Requests(inbox, o)) - 1
    <3>1. inbox \in Boxes(DOMAIN program) /\ IsFiniteSet(Requests(inbox, o))
        BY DEF Types, RequestsOK, Boxes
    <3> QED
        BY <1>2, <3>1, Handled
  <2>3. Cardinality(Waiting(socket'[o], Answer)) = Cardinality(Waiting(socket[o], Answer)) + n
      BY <1>6
  <2>4. /\ Cardinality(Waiting(socket[o], Answer))' = Cardinality(Waiting(socket'[o], Answer))
        /\ Cardinality(Requests(inbox, o))' = Cardinality(Requests(inbox', o))
      BY DEF Waiting, Answer, Requests
  <2>5. dups' = dups + n - 1
      BY <1>2, <2>1
  <2>6. PICK w, r \in Nat : /\ w = Cardinality(Waiting(socket[o], Answer))
                            /\ r = Cardinality(Requests(inbox, o))
      BY <2>1
  <2>7. /\ Cardinality(Waiting(socket[o], Answer))' = w + n
        /\ Cardinality(Requests(inbox, o))' = r - 1
      BY <2>2, <2>3, <2>4, <2>6
  <2>8. PICK a, t \in Nat : a = Attempts(o) /\ t = SentTo(o)
      BY <2>1
  <2>9. a + w + r <= t + dups => a + (w + n) + (r - 1) <= t + (dups + n - 1)
      BY <2>1
  <2>10. InTime(o) <=> a + w + r <= t + dups
      BY <2>6, <2>8 DEF InTime
  <2>11. InTime(o)' <=> a + (w + n) + (r - 1) <= t + (dups + n - 1)
      BY <1>3, <2>5, <2>7, <2>8 DEF InTime
  <2> QED
      BY <2>9, <2>10, <2>11
<1>10. GetOpen(o)'
    BY <1>4, <1>7, <1>8, <1>9 DEF GetOpen
<1>11. Quorum(o)' <= N(o)' /\ GetTolerant(o)'
    BY <1>1, <1>3, <1>10 DEF Tolerant, GetTolerant
<1> QED
    BY <1>1, <1>11, <1>12 DEF Tolerant

----------------------------------------------------------------------------

(***************************************************************************)
(* The call's own steps.  Each request it sends asks a server more, which  *)
(* is blamed if nothing arrives there.                                     *)
(***************************************************************************)
LEMMA OwnSend ==
    ASSUME Types, NEW o \in DOMAIN program, Send(o), program' = program
    PROVE  \E s \in Server : \E n \in 0..2 :
              /\ inbox' = Sending(inbox, s, n, o)
              /\ dups' = dups + (IF n = 2 THEN 1 ELSE 0)
              /\ n = 0 => Blame(o, s)
              /\ n > 0 => faulty' = faulty
              /\ answered' = answered /\ socket'[o] = socket[o]
              /\ Open(o) /\ Open(o)' /\ call'[o].pc # "fail"
              /\ call'[o].nb_writes = call[o].nb_writes /\ call'[o].votes = call[o].votes
              /\ Attempts(o) = 0 /\ Attempts(o)' = 0
              /\ SentTo(o)' = SentTo(o) + 1 /\ Reached(o)' = Reached(o) \cup {s}
<1> DEFINE s == servers_to_contact(o)[call[o].i + 1]
<1>1. /\ call[o].pc = "send" /\ call[o].i + 1 \in 1..N(o) /\ s \in Server
      /\ call' = [call EXCEPT ![o] = Sent(o)]
      /\ socket' = [socket EXCEPT ![o] = socket[o]]
      /\ Sent(o).nb_writes = call[o].nb_writes /\ Sent(o).votes = call[o].votes
      /\ \/ Sent(o).pc = "send" /\ Sent(o).i = call[o].i + 1 /\ Sent(o).i < N(o)
         \/ Sent(o).pc = "receive" /\ Sent(o).i = 0 /\ 0 < N(o)
    BY SendForm
<1>2. PICK n \in Copies : /\ inbox' = Sending(inbox, s, n, o)
                          /\ Count(n) /\ BlameLoss(o, s, n)
    BY DEF Send, Sending
<1>3. n \in 0..2 /\ answered' = answered
    BY DEF Copies, Send
<1> HIDE DEF s
<1>4. /\ dups' = dups + (IF n = 2 THEN 1 ELSE 0)
      /\ n = 0 => Blame(o, s)
      /\ n > 0 => faulty' = faulty
  <2>1. dups \in Nat
      BY Counts
  <2> QED
      BY <1>2, <1>3, <2>1 DEF Count, BlameLoss
<1>5. call'[o] = Sent(o) /\ socket'[o] = socket[o] /\ N(o)' = N(o) /\ N(o) \in Nat /\ call[o].i \in Nat
  <2>1. call'[o] = Sent(o) /\ socket'[o] = socket[o]
      BY <1>1 DEF Types, CallsOK
  <2> QED
      BY <2>1, Counts, SameProgram, SameNeeds
<1>6. /\ Open(o) /\ Open(o)' /\ call'[o].pc # "fail"
      /\ Attempts(o) = 0 /\ Attempts(o)' = 0 /\ SentTo(o) = call[o].i
    BY <1>1, <1>5 DEF Open, Attempts, SentTo
<1>7. SentTo(o)' = call[o].i + 1
  <2>1. CASE Sent(o).pc = "send" /\ Sent(o).i = call[o].i + 1
      BY <1>5, <2>1 DEF SentTo
  <2>2. CASE Sent(o).pc = "receive"
    <3>1. call[o].i + 1 = N(o)
      <4>1. call[o].i + 1 < N(o) => Sent(o).pc = "send"
        <5>1. call[o] \in CallRecord
            BY CallTyped DEF Types
        <5> QED
            BY <1>1, <5>1 DEF Sent, CallRecord
      <4> QED
          BY <1>1, <1>5, <2>2, <4>1
    <3> QED
        BY <1>5, <2>2, <3>1 DEF SentTo
  <2> QED
      BY <1>1, <2>1, <2>2
<1>8. Reached(o)' = Reached(o) \cup {s}
  <2>1. Reached(o)' = {servers_to_contact(o)[m] : m \in 1..(call[o].i + 1)}
    <3>1. servers_to_contact(o)' = servers_to_contact(o)
        BY DEF servers_to_contact
    <3> QED
        BY <1>7, <3>1 DEF Reached
  <2>2. 1..(call[o].i + 1) = (1..call[o].i) \cup {call[o].i + 1}
      BY <1>5
  <2>3. Reached(o) = {servers_to_contact(o)[m] : m \in 1..call[o].i}
      BY <1>6 DEF Reached
  <2> QED
      BY <2>1, <2>2, <2>3 DEF s
<1> QED
    BY <1>1, <1>2, <1>3, <1>4, <1>5, <1>6, <1>7, <1>8

LEMMA SendPut ==
    ASSUME Types, DOMAIN faulty = DOMAIN program, NEW o \in DOMAIN program, Send(o),
           UNCHANGED <<net, program>>, IsPut(o), Tolerant(o)
    PROVE  Tolerant(o)'
<1>1. /\ N(o)' = N(o) /\ Needed(o)' = Needed(o) /\ Quorum(o)' = Quorum(o)
      /\ (IsPut(o)' <=> IsPut(o)) /\ RequestKind(o)' = RequestKind(o)
    BY SameProgram, SameNeeds DEF SameCalls, RequestKind, IsPut
<1>2. PICK s \in Server, n \in 0..2 :
              /\ inbox' = Sending(inbox, s, n, o)
              /\ n = 0 => Blame(o, s)
              /\ n > 0 => faulty' = faulty
              /\ socket'[o] = socket[o]
              /\ Open(o) /\ Open(o)' /\ call'[o].pc # "fail"
              /\ call'[o].nb_writes = call[o].nb_writes
              /\ Attempts(o) = 0 /\ Attempts(o)' = 0
              /\ Reached(o)' = Reached(o) \cup {s}
    BY OwnSend
<1>3. /\ faulty[o] \subseteq faulty'[o] /\ faulty'[o] \in SUBSET Server
      /\ n = 0 => s \in faulty'[o]
  <2>1. o \in DOMAIN faulty /\ faulty[o] \in SUBSET Server
      BY Kinds DEF Tolerant
  <2> QED
      BY <1>2, <2>1 DEF Blame
<1>4. Asked(inbox', o) = Asked(inbox, o) \cup (IF n > 0 THEN {s} ELSE {})
  <2>1. inbox \in Boxes(DOMAIN program) /\ IsFiniteSet(Requests(inbox, o))
      BY DEF Types, RequestsOK, Boxes
  <2> QED
      BY <1>2, <2>1, CopiesSent
<1>5. ASSUME RequestKind(o) = "write" PROVE PutOpen(o)'
  <2>1. PutOpen(o)
      BY <1>2, <1>5 DEF Tolerant, PutTolerant
  <2>2. Heard(o)' \subseteq Heard(o)
      BY <1>2, <1>3, <1>4 DEF Heard
  <2>3. Cardinality(Heard(o)') <= Cardinality(Heard(o)) /\ Cardinality(Heard(o)') \in Nat
    <3>1. Heard(o) \subseteq Server
        BY Counts
    <3>2. Heard(o)' \subseteq Server
        BY <2>2, <3>1
    <3> QED
        BY <2>2, <3>1, <3>2, ServerSet, FS_Subset
  <2>4. /\ Cardinality(Heard(o)) \in Nat /\ call[o].nb_writes \in Nat
        /\ Cardinality(Waiting(socket[o], {Empty})) \in Nat
    <3>1. {Empty} \in SUBSET Answer
        BY DEF Answer
    <3> QED
        BY <3>1, Counts
  <2>5. Cardinality(Heard(o))' <= call'[o].nb_writes + Cardinality(Waiting(socket[o], {Empty}))'
    <3>1. /\ Cardinality(Heard(o))' = Cardinality(Heard(o)')
          /\ Cardinality(Waiting(socket[o], {Empty}))' = Cardinality(Waiting(socket[o], {Empty}))
        BY <1>2 DEF Waiting
    <3>2. Cardinality(Heard(o)) <= call[o].nb_writes + Cardinality(Waiting(socket[o], {Empty}))
        BY <2>1 DEF PutOpen
    <3> QED
        BY <1>2, <2>3, <2>4, <3>1, <3>2
  <2>6. Attempts(o)' <= call'[o].nb_writes
      BY <1>2, <2>4
  <2> QED
      BY <1>1, <1>2, <2>1, <2>5, <2>6 DEF PutOpen
<1>6. PutTolerant(o)' /\ Quorum(o)' <= N(o)'
    BY <1>1, <1>2, <1>5 DEF PutTolerant, Tolerant
<1> QED
    BY <1>1, <1>3, <1>6 DEF Tolerant

LEMMA SendGet ==
    ASSUME Types, DOMAIN faulty = DOMAIN program, NEW o \in DOMAIN program, Send(o),
           UNCHANGED <<net, program>>, ~ IsPut(o), Tolerant(o)
    PROVE  Tolerant(o)'
<1>1. /\ N(o)' = N(o) /\ Needed(o)' = Needed(o) /\ Quorum(o)' = Quorum(o)
      /\ (IsPut(o)' <=> IsPut(o))
    BY SameProgram, SameNeeds DEF SameCalls
<1>2. PICK s \in Server, n \in 0..2 :
              /\ inbox' = Sending(inbox, s, n, o)
              /\ dups' = dups + (IF n = 2 THEN 1 ELSE 0)
              /\ n = 0 => Blame(o, s)
              /\ n > 0 => faulty' = faulty
              /\ answered' = answered /\ socket'[o] = socket[o]
              /\ Open(o) /\ Open(o)' /\ call'[o].pc # "fail"
              /\ call'[o].votes = call[o].votes
              /\ Attempts(o) = 0 /\ Attempts(o)' = 0
              /\ SentTo(o)' = SentTo(o) + 1
    BY OwnSend
<1>3. GetOpen(o)
    BY <1>2 DEF Tolerant, GetTolerant
<1>9. faulty[o] \subseteq faulty'[o] /\ faulty'[o] \in SUBSET Server
  <2>1. o \in DOMAIN faulty /\ faulty[o] \in SUBSET Server
      BY DEF Tolerant
  <2> QED
      BY <1>2, <2>1 DEF Blame
<1>4. Unmistaken(o)' = Unmistaken(o) /\ BagToSet(socket[o])' \subseteq answered'[o]
    BY <1>2, <1>3 DEF Unmistaken, GetOpen
<1>5. ASSUME NEW v \in Unmistaken(o) PROVE VotesHeard(o, v)'
  <2>1. PICK m \in Nat :
           /\ VoteLemmas!CountIs(call[o].votes, v, m) /\ VoteLemmas!Short(m, Quorum(o))
           /\ Cardinality(Tallied(o, v)) <= m
      BY <1>3, <1>5 DEF GetOpen, VotesHeard
  <2>2. Tallied(o, v)' \subseteq Tallied(o, v)
      BY <1>2, <1>9 DEF Tallied, Answering, Pending
  <2>3. Tallied(o, v) \subseteq Server /\ Cardinality(Tallied(o, v)) \in Nat
      BY Counts
  <2>4. Cardinality(Tallied(o, v)') <= Cardinality(Tallied(o, v)) /\ Cardinality(Tallied(o, v)') \in Nat
      BY <2>2, <2>3, ServerSet, FS_Subset
  <2>5. Cardinality(Tallied(o, v))' <= m
      BY <2>1, <2>3, <2>4
  <2> QED
      BY <1>1, <1>2, <2>1, <2>5 DEF VotesHeard
<1>6. InTime(o) => InTime(o)'
  <2>1. /\ dups \in Nat /\ Cardinality(Requests(inbox, o)) \in Nat /\ SentTo(o) \in Nat
        /\ Cardinality(Waiting(socket[o], Answer)) \in Nat
      BY Counts
  <2>2. Cardinality(Requests(inbox', o)) = Cardinality(Requests(inbox, o)) + n
    <3>1. inbox \in Boxes(DOMAIN program) /\ IsFiniteSet(Requests(inbox, o))
        BY DEF Types, RequestsOK, Boxes
    <3> QED
        BY <1>2, <3>1, CopiesSent
  <2>3. /\ Cardinality(Waiting(socket[o], Answer))' = Cardinality(Waiting(socket[o], Answer))
        /\ Cardinality(Requests(inbox, o))' = Cardinality(Requests(inbox', o))
      BY <1>2 DEF Waiting, Answer, Requests
  <2> QED
      BY <1>2, <2>1, <2>2, <2>3 DEF InTime
<1>7. GetOpen(o)'
    BY <1>3, <1>4, <1>5, <1>6 DEF GetOpen
<1>8. GetTolerant(o)' /\ Quorum(o)' <= N(o)'
    BY <1>1, <1>2, <1>7 DEF GetTolerant, Tolerant
<1> QED
    BY <1>1, <1>8, <1>9 DEF Tolerant

\* A call that has returned with an error, or died, promises nothing.
LEMMA ErrorTolerant ==
    ASSUME NEW o \in DOMAIN program, Tolerant(o), program' = program,
           call'[o].pc \in {"error", "killed"}, faulty'[o] \in SUBSET Server
    PROVE  Tolerant(o)'
<1>1. IsPut(o)' <=> IsPut(o)
    BY DEF IsPut
<1> QED
    BY <1>1 DEF Tolerant, PutTolerant, GetTolerant, Open

LEMMA StartTolerant ==
    ASSUME DhtInv, NEW o \in DOMAIN program, Start(o), UNCHANGED <<net, program>>, Tolerant(o)
    PROVE  Tolerant(o)'
<1>1. /\ N(o)' = N(o) /\ Needed(o)' = Needed(o) /\ Quorum(o)' = Quorum(o)
      /\ (IsPut(o)' <=> IsPut(o))
    BY SameProgram, SameNeeds DEF SameCalls
<1>2. call[o].pc = "new" /\ UNCHANGED <<inbox, answered, faulty, dups>>
    BY DEF Start
<1>3. Types /\ CallInv(o) /\ call \in [DOMAIN program -> CallRecord] /\ DOMAIN socket = DOMAIN program
    BY DEF DhtInv, Types, CallsOK
<1>4. faulty'[o] \in SUBSET Server
    BY <1>2 DEF Tolerant
<1>5. ASSUME NEW pc \in {"error", "killed"}, Become(o, Done(pc, {}), EmptyBag)
      PROVE  Tolerant(o)'
  <2>1. call'[o].pc = pc
      BY <1>3, <1>5, DoneLocals DEF Become
  <2> QED
      BY <1>4, <1>5, <2>1, ErrorTolerant
<1>6. CASE N(o) >= Quorum(o) /\ N(o) > 0 /\ Become(o, [NoCall EXCEPT !.pc = "send"], EmptyBag)
  <2> DEFINE l == [NoCall EXCEPT !.pc = "send"]
  <2>1. /\ l.pc = "send" /\ l.i = 0 /\ l.nb_writes = 0 /\ l.votes = Votes!construct_Htable
      BY Locals
  <2>2. Become(o, l, EmptyBag)
      BY <1>6
  <2> HIDE DEF l
  <2>3. call'[o] = l /\ socket'[o] = EmptyBag
      BY <1>3, <2>1, <2>2 DEF Become
  <2>4. /\ Open(o)' /\ call'[o].pc # "fail"
        /\ SentTo(o)' = 0 /\ Attempts(o)' = 0 /\ Reached(o)' = {}
      BY <2>1, <2>3 DEF Open, SentTo, Attempts, Reached
  <2>5. /\ N(o) \in Nat /\ Quorum(o) \in Nat /\ dups \in Nat
        /\ Quorum(o)' <= N(o)' /\ Needed(o) > 0
    <3>1. N(o) \in Nat /\ Quorum(o) \in Nat /\ dups \in Nat
        BY <1>3, Counts
    <3> QED
        BY <1>1, <1>6, <3>1 DEF Needed
  <2>6. Waiting(EmptyBag, {Empty}) = {} /\ BagToSet(EmptyBag) = {}
      BY NoneWaiting
  <2>7. Cardinality({}) = 0
      BY FS_EmptySet
  <2>8. CASE IsPut(o)
    <3>1. Heard(o)' = {}
        BY <2>4 DEF Heard
    <3>2. Cardinality(Heard(o))' = 0 /\ Cardinality(Waiting(socket[o], {Empty}))' = 0
      <4>1. Waiting(socket[o], {Empty})' = {}
          BY <2>3, <2>6 DEF Waiting
      <4> QED
          BY <2>7, <3>1, <4>1
    <3>3. PutOpen(o)'
        BY <1>1, <2>1, <2>3, <2>4, <2>5, <2>6, <3>2 DEF PutOpen
    <3> QED
        BY <1>1, <1>4, <2>4, <2>5, <2>8, <3>3 DEF Tolerant, PutTolerant
  <2>9. CASE ~ IsPut(o)
    <3>1. /\ Givers(o, Answer) \cup Asked(inbox, o) = {}
          /\ Cardinality(Requests(inbox, o)) = 0
      <4>1. Touched(o) = {}
          BY <1>2, <1>3 DEF CallInv, SentOnce
      <4> QED
          BY <1>3, <4>1, NothingYet
    <3>2. ASSUME NEW v \in Unmistaken(o)' PROVE VotesHeard(o, v)'
      <4>1. v \in Answer
          BY <3>2 DEF Unmistaken, Answer
      <4>2. Answering(o, v)' = {}
        <5>1. \A s \in Server : <<s, v>> \notin answered[o]
            BY <2>9, <3>1, <4>1 DEF Givers
        <5> QED
            BY <1>2, <5>1 DEF Answering
      <4>3. Tallied(o, v)' = {}
          BY <4>2 DEF Tallied
      <4>4. /\ VoteLemmas!CountIs(Votes!construct_Htable, v, 0)
            /\ VoteLemmas!Short(0, Quorum(o))
          BY <2>5, <4>1, VoteTables, VoteLemmas!NoVoteYet
      <4>5. 0 \in Nat /\ Cardinality(Tallied(o, v))' <= 0
          BY <2>7, <4>3
      <4> QED
          BY <1>1, <2>1, <2>3, <4>4, <4>5 DEF VotesHeard
    <3>3. InTime(o)'
      <4>1. Waiting(socket[o], Answer)' = {} /\ Requests(inbox, o)' = Requests(inbox, o)
        <5>1. Answer' = Answer
            BY DEF Answer
        <5>2. Waiting(socket[o], Answer)' = Waiting(socket'[o], Answer')
            BY DEF Waiting
        <5> QED
            BY <1>2, <2>3, <5>1, <5>2, NoneWaiting DEF Requests
      <4>2. Cardinality(Waiting(socket[o], Answer))' = 0 /\ Cardinality(Requests(inbox, o))' = 0
          BY <2>7, <3>1, <4>1
      <4> QED
          BY <1>2, <2>4, <2>5, <4>2 DEF InTime
    <3>4. GetOpen(o)'
        BY <2>3, <2>6, <3>2, <3>3 DEF GetOpen
    <3> QED
        BY <1>1, <1>4, <2>4, <2>5, <2>9, <3>4 DEF Tolerant, GetTolerant
  <2> QED
      BY <2>8, <2>9
<1> QED
    BY <1>5, <1>6 DEF Start

----------------------------------------------------------------------------

(***************************************************************************)
(* An attempt to receive that leaves locals l, before it is counted, and   *)
(* the answers w.                                                          *)
(***************************************************************************)
LEMMA AttemptMade ==
    ASSUME NEW o, N(o) \in Nat, NEW l \in CallRecord, l.pc = "receive", l.i < N(o)
    PROVE  LET m == NextAttempt(o, l)
           IN  \/ /\ m.pc = "receive" /\ m.i = l.i + 1
                  /\ m.nb_writes = l.nb_writes /\ m.votes = l.votes
               \/ m.pc = "fail" /\ l.i + 1 = N(o)
<1>1. l.i \in Nat
    BY DEF CallRecord
<1>2. CASE l.i + 1 < N(o)
  <2>1. NextAttempt(o, l) = [l EXCEPT !.i = @ + 1]
      BY <1>2 DEF NextAttempt
  <2> QED
      BY <2>1 DEF CallRecord
<1>3. CASE ~ l.i + 1 < N(o)
  <2>1. NextAttempt(o, l) = Done("fail", {})
      BY <1>3 DEF NextAttempt
  <2> QED
      BY <1>1, <1>3, <2>1, DoneLocals
<1> QED
    BY <1>2, <1>3

\* A call that may send reaches its quorum when all its servers answer.
LEMMA EnoughServers ==
    ASSUME Types, NEW o \in DOMAIN program, Tolerant(o), Open(o)
    PROVE  Needed(o) <= N(o) \/ (~ IsPut(o) /\ Needed(o) = 2)
<1>1. N(o) \in Nat /\ Quorum(o) \in Nat /\ Quorum(o) <= N(o)
    BY Counts DEF Tolerant
<1>2. call[o].i \in Nat /\ call[o].i < N(o)
    BY Counts, CallTyped DEF Types, CallOK, Open
<1> QED
    BY <1>1, <1>2 DEF Needed

LEMMA PutAttempt ==
    ASSUME Types, NEW o \in DOMAIN program, IsPut(o), call[o].pc = "receive", Tolerant(o),
           UNCHANGED <<net, program, inbox, faulty>>,
           NEW l \in CallRecord, l.pc = "receive", l.i = call[o].i, NEW w,
           Become(o, NextAttempt(o, l), w),
           RequestKind(o) = "write" =>
              /\ BagToSet(w) \subseteq Server \X {Empty}
              /\ l.nb_writes < Needed(o)
              /\ Cardinality(Heard(o)) <= l.nb_writes + Cardinality(Waiting(w, {Empty}))
              /\ net.prompt => l.i + 1 <= l.nb_writes \/ Hopeless(o)
    PROVE  Tolerant(o)'
<1>1. /\ N(o)' = N(o) /\ Needed(o)' = Needed(o) /\ Quorum(o)' = Quorum(o)
      /\ (IsPut(o)' <=> IsPut(o)) /\ servers_to_contact(o)' = servers_to_contact(o)
      /\ RequestKind(o)' = RequestKind(o)
    BY SameProgram, SameNeeds DEF SameCalls, RequestKind, IsPut
<1>2. /\ N(o) \in Nat /\ Needed(o) \in Nat /\ l.i \in Nat /\ l.nb_writes \in Nat /\ l.i < N(o)
      /\ Open(o) /\ Needed(o) <= N(o) /\ Quorum(o) <= N(o)
  <2>1. Open(o)
      BY DEF Open
  <2>2. N(o) \in Nat /\ Needed(o) \in Nat /\ call[o].i < N(o)
      BY Counts, CallTyped DEF Types, CallOK
  <2> QED
      BY <2>1, <2>2, EnoughServers DEF Tolerant, CallRecord
<1>3. PICK m : m = NextAttempt(o, l)
    OBVIOUS
<1>4. \/ /\ m.pc = "receive" /\ m.i = l.i + 1
         /\ m.nb_writes = l.nb_writes /\ m.votes = l.votes
      \/ m.pc = "fail" /\ l.i + 1 = N(o)
    BY <1>2, <1>3, AttemptMade
<1>5. call'[o] = m /\ (m.pc = "receive" => socket'[o] = w)
  <2>1. Become(o, m, w)
      BY <1>3
  <2> QED
      BY <2>1 DEF Become, Types, CallsOK
<1>6. /\ faulty'[o] \in SUBSET Server
      /\ Hopeless(o)' <=> Hopeless(o)
    BY <1>1 DEF Tolerant, Hopeless
<1>7. CASE m.pc = "receive"
  <2>1. /\ m.i = l.i + 1 /\ m.nb_writes = l.nb_writes
      BY <1>4, <1>7
  <2>2. Attempts(o)' = l.i + 1 /\ SentTo(o) = N(o) /\ SentTo(o)' = N(o)
      BY <1>1, <1>5, <1>7, <2>1 DEF Attempts, SentTo
  <2>3. Heard(o)' = Heard(o)
      BY <1>1, <2>2 DEF Heard, Reached, Asked
  <2>4. RequestKind(o) = "write" => PutOpen(o)'
    <3>1. Waiting(socket[o], {Empty})' = Waiting(w, {Empty})
        BY <1>5, <1>7 DEF Waiting
    <3>2. call'[o].nb_writes = l.nb_writes /\ socket'[o] = w
        BY <1>5, <1>7, <2>1
    <3> QED
        BY <1>1, <1>6, <2>2, <2>3, <3>1, <3>2 DEF PutOpen
  <2>5. PutTolerant(o)'
      BY <1>1, <1>5, <1>7, <2>4 DEF PutTolerant
  <2> QED
      BY <1>1, <1>2, <1>6, <2>5 DEF Tolerant
<1>8. CASE m.pc = "fail" /\ l.i + 1 = N(o)
  <2>1. RequestKind(o) = "write" /\ net.prompt => Hopeless(o)
      BY <1>2, <1>8
  <2>2. PutTolerant(o)'
      BY <1>1, <1>5, <1>6, <1>8, <2>1 DEF PutTolerant, Open
  <2> QED
      BY <1>1, <1>5, <1>6, <1>8, <2>2 DEF Tolerant, Open
<1> QED
    BY <1>4, <1>7, <1>8

\* No more servers than answers wait.
LEMMA PendingWaits ==
    ASSUME NEW w, IsABag(w), NEW v, IsFiniteSet(Waiting(w, {v}))
    PROVE  Cardinality(Pending(w, v)) <= Cardinality(Waiting(w, {v}))
<1> DEFINE P == Pending(w, v)
           W == Waiting(w, {v})
           f == [s \in P |-> <<<<s, v>>, 1>>]
<1>1. ASSUME NEW s \in P PROVE <<<<s, v>>, 1>> \in W
  <2>1. <<s, v>> \in DOMAIN w /\ 1 \in 1..w[<<s, v>>]
      BY BagCount DEF Pending, BagToSet
  <2> QED
      BY <2>1 DEF Waiting
<1>2. f \in [P -> W] /\ \A s, u \in P : f[s] = f[u] => s = u
    BY <1>1
<1> HIDE DEF f, P, W
<1>3. f \in Injection(P, W)
    BY <1>2 DEF Injection, IsInjective
<1>4. IsFiniteSet(W)
    BY DEF W
<1> QED
    BY <1>3, <1>4, FS_Injection DEF P, W

\* The answers that are counted before the attempt, when w is left in the socket.
LeftTallied(o, v, w) == Answering(o, v) \ (faulty'[o] \cup Pending(w, v))

LEMMA GetAttempt ==
    ASSUME Types, SizesFit, NEW o \in DOMAIN program, ~ IsPut(o), call[o].pc = "receive", Tolerant(o),
           UNCHANGED <<net, program, inbox, answered, dups>>,
           NEW l \in CallRecord, l.pc = "receive", l.i = call[o].i,
           faulty[o] \subseteq faulty'[o], faulty'[o] \in SUBSET Server,
           NEW w, IsABag(w), IsFiniteSet(Waiting(w, Answer)), BagToSet(w) \subseteq answered[o],
           Become(o, NextAttempt(o, l), w),
           \A v \in Unmistaken(o) : \E n \in Nat :
              /\ VoteLemmas!CountIs(l.votes, v, n) /\ VoteLemmas!Short(n, Quorum(o))
              /\ Cardinality(LeftTallied(o, v, w)) <= n,
           net.prompt =>
              l.i + 1 + Cardinality(Waiting(w, Answer)) + Cardinality(Requests(inbox, o))
                 <= N(o) + dups
    PROVE  Tolerant(o)'
<1>1. /\ N(o)' = N(o) /\ Needed(o)' = Needed(o) /\ Quorum(o)' = Quorum(o)
      /\ (IsPut(o)' <=> IsPut(o))
    BY SameProgram, SameNeeds DEF SameCalls
<1>2. /\ N(o) \in Nat /\ Needed(o) \in Nat /\ Quorum(o) \in Nat /\ dups \in Nat
      /\ l.i \in Nat /\ l.i < N(o) /\ Quorum(o) <= N(o) /\ Quorum(o) < SizeMod
      /\ Cardinality(Requests(inbox, o)) \in Nat
  <2>1. Open(o)
      BY DEF Open
  <2>2. /\ N(o) \in Nat /\ Needed(o) \in Nat /\ Quorum(o) \in Nat /\ dups \in Nat
        /\ call[o].i < N(o)
        /\ Cardinality(Requests(inbox, o)) \in Nat
      BY Counts, CallTyped DEF Types, CallOK
  <2>3. N(o) < SizeMod /\ SizeMod \in Nat
      BY DhtAssumption DEF SizesFit, Votes!VotesAssumption
  <2>4. l.i \in Nat /\ Quorum(o) <= N(o)
      BY <2>1 DEF Tolerant, CallRecord
  <2> QED
      BY <2>2, <2>3, <2>4
<1>3. PICK m : m = NextAttempt(o, l)
    OBVIOUS
<1>4. \/ /\ m.pc = "receive" /\ m.i = l.i + 1
         /\ m.nb_writes = l.nb_writes /\ m.votes = l.votes
      \/ m.pc = "fail" /\ l.i + 1 = N(o)
    BY <1>2, <1>3, AttemptMade
<1>5. call'[o] = m /\ (m.pc = "receive" => socket'[o] = w)
  <2>1. Become(o, m, w)
      BY <1>3
  <2> QED
      BY <2>1 DEF Become, Types, CallsOK
<1>6. Unmistaken(o)' = Unmistaken(o) /\ \A v : Answering(o, v)' = Answering(o, v)
    BY DEF Unmistaken, Answering
<1>7. CASE m.pc = "receive"
  <2>1. /\ m.i = l.i + 1 /\ m.votes = l.votes /\ socket'[o] = w
      BY <1>4, <1>5, <1>7
  <2>2. Attempts(o)' = l.i + 1 /\ SentTo(o)' = N(o)
      BY <1>1, <1>5, <1>7, <2>1 DEF Attempts, SentTo
  <2>3. \A v \in Unmistaken(o) : VotesHeard(o, v)'
    <3>2. call'[o].votes = l.votes
        BY <1>5, <2>1
    <3>3. \A v : Tallied(o, v)' = LeftTallied(o, v, w)
        BY <1>6, <2>1 DEF Tallied, LeftTallied, Pending
    <3> QED
        BY <1>1, <3>2, <3>3 DEF VotesHeard
  <2>4. net.prompt => InTime(o)'
    <3>1. Waiting(socket[o], Answer)' = Waiting(w, Answer) /\ Requests(inbox, o)' = Requests(inbox, o)
        BY <2>1 DEF Waiting, Answer, Requests
    <3> QED
        BY <1>1, <2>2, <3>1 DEF InTime
  <2>5. GetOpen(o)'
      BY <1>6, <2>1, <2>3, <2>4 DEF GetOpen
  <2>6. GetTolerant(o)'
      BY <1>5, <1>7, <2>5 DEF GetTolerant
  <2> QED
      BY <1>1, <1>2, <2>6 DEF Tolerant
<1>8. CASE m.pc = "fail" /\ l.i + 1 = N(o)
  <2>1. ASSUME net.prompt, NEW v \in Unmistaken(o)
        PROVE  Cardinality(Answering(o, v) \ faulty'[o]) < Needed(o) + dups
    <3>1. PICK n \in Nat :
              /\ VoteLemmas!Short(n, Quorum(o))
              /\ Cardinality(LeftTallied(o, v, w)) <= n
        OBVIOUS
    <3>2. n < Needed(o)
      <4>1. n < VoteLemmas!Enough(Quorum(o))
          BY <1>2, <3>1, VoteTables, VoteLemmas!ShortBelow
      <4>2. VoteLemmas!Enough(Quorum(o)) = Needed(o)
          BY <1>2 DEF VoteLemmas!Enough, Needed
      <4> QED
          BY <4>1, <4>2
    <3>3. /\ Cardinality(Waiting(w, {v})) \in Nat /\ IsFiniteSet(Waiting(w, {v}))
          /\ Cardinality(Waiting(w, Answer)) \in Nat
          /\ Cardinality(Waiting(w, {v})) <= Cardinality(Waiting(w, Answer))
      <4>1. v \in Answer
          BY DEF Unmistaken
      <4>2. Waiting(w, {v}) \subseteq Waiting(w, Answer)
          BY <4>1 DEF Waiting
      <4> QED
          BY <4>2, FS_Subset, FS_CardinalityType
    <3>4. Cardinality(Waiting(w, Answer)) <= dups
        BY <1>2, <1>8, <2>1, <3>3
    <3>5. Cardinality(Pending(w, v)) <= Cardinality(Waiting(w, {v}))
        BY <3>3, PendingWaits
    <3>6. Cardinality(Answering(o, v) \ faulty'[o])
             <= Cardinality(LeftTallied(o, v, w)) + Cardinality(Pending(w, v))
      <4> DEFINE A == Answering(o, v) \ faulty'[o]
                 K == LeftTallied(o, v, w)
                 P == Pending(w, v)
      <4>1. A \subseteq Server /\ K \subseteq Server /\ P \subseteq Server /\ A \subseteq K \cup P
          BY DEF Answering, LeftTallied, Pending
      <4> HIDE DEF A, K, P
      <4>2. /\ IsFiniteSet(K) /\ IsFiniteSet(P) /\ Cardinality(A) \in Nat
            /\ Cardinality(K) \in Nat /\ Cardinality(P) \in Nat
          BY <4>1, ServerSet
      <4>3. /\ IsFiniteSet(K \cup P) /\ Cardinality(K \cap P) \in Nat
            /\ Cardinality(K \cup P) = Cardinality(K) + Cardinality(P) - Cardinality(K \cap P)
          BY <4>2, FS_Union, FS_Intersection, FS_CardinalityType
      <4>4. Cardinality(A) <= Cardinality(K \cup P)
          BY <4>1, <4>3, FS_Subset
      <4>5. Cardinality(A) <= Cardinality(K) + Cardinality(P)
          BY <4>2, <4>3, <4>4
      <4> QED
          BY <4>5 DEF A, K, P
    <3>7. /\ Cardinality(Answering(o, v) \ faulty'[o]) \in Nat
          /\ Cardinality(LeftTallied(o, v, w)) \in Nat /\ Cardinality(Pending(w, v)) \in Nat
      <4>1. /\ Answering(o, v) \ faulty'[o] \subseteq Server /\ LeftTallied(o, v, w) \subseteq Server
            /\ Pending(w, v) \subseteq Server
          BY DEF Answering, LeftTallied, Pending
      <4> QED
          BY <4>1, ServerSet
    <3> QED
        BY <1>2, <3>1, <3>2, <3>3, <3>4, <3>5, <3>6, <3>7
  <2>2. GetTolerant(o)'
      BY <1>1, <1>5, <1>6, <1>8, <2>1 DEF GetTolerant, Open
  <2> QED
      BY <1>1, <1>5, <1>8, <2>2 DEF Tolerant, Open
<1> QED
    BY <1>4, <1>7, <1>8

----------------------------------------------------------------------------

\* The answers that are not taken stay.
LEMMA OthersLeft ==
    ASSUME NEW B, IsABag(B), NEW x \in BagToSet(B)
    PROVE  \A y \in BagToSet(B) : y # x => y \in BagToSet(B (-) SetToBag({x}))
<1> DEFINE one == SetToBag({x})
           D == [e \in DOMAIN B |-> IF e \in DOMAIN one THEN B[e] - one[e] ELSE B[e]]
<1>1. DOMAIN one = {x}
    BY DEF SetToBag
<1>2. \A e \in DOMAIN B : B[e] \in Nat /\ B[e] > 0
    BY BagCount
<1>3. B (-) one = [e \in {d \in DOMAIN D : D[d] > 0} |-> D[e]]
    BY DEF (-)
<1> HIDE DEF one
<1>4. DOMAIN D = DOMAIN B /\ \A e \in DOMAIN B : e # x => D[e] = B[e]
    BY <1>1
<1> HIDE DEF D
<1>5. DOMAIN (B (-) one) = {d \in DOMAIN B : D[d] > 0}
    BY <1>3, <1>4
<1>6. \A y \in BagToSet(B) : y # x => y \in DOMAIN (B (-) one)
    BY <1>2, <1>4, <1>5 DEF BagToSet
<1> QED
    BY <1>6 DEF one, BagToSet

\* What a receive takes out of the socket.
LEMMA Taken ==
    ASSUME Types, NEW o \in DOMAIN program, NEW x \in BagToSet(socket[o])
    PROVE  LET left == socket[o] (-) SetToBag({x})
           IN  /\ BagToSet(left) \subseteq BagToSet(socket[o])
               /\ \A Q \in SUBSET Answer :
                     /\ IsFiniteSet(Waiting(left, Q))
                     /\ Cardinality(Waiting(left, Q)) =
                           Cardinality(Waiting(socket[o], Q)) - (IF x[2] \in Q THEN 1 ELSE 0)
<1>1. IsABag(socket[o]) /\ \A Q \in SUBSET Answer : IsFiniteSet(Waiting(socket[o], Q))
    BY CallTyped DEF Types
<1>2. ASSUME NEW Q \in SUBSET Answer
      PROVE  LET left == socket[o] (-) SetToBag({x})
             IN  /\ BagToSet(left) \subseteq BagToSet(socket[o])
                 /\ IsFiniteSet(Waiting(left, Q))
                 /\ Cardinality(Waiting(left, Q)) =
                       Cardinality(Waiting(socket[o], Q)) - (IF x[2] \in Q THEN 1 ELSE 0)
  <2>1. PICK B : B = socket[o]
      OBVIOUS
  <2>2. IsABag(B) /\ x \in BagToSet(B) /\ IsFiniteSet(Waiting(B, Q))
      BY <1>1, <2>1
  <2>3. LET left == B (-) SetToBag({x})
        IN  /\ BagToSet(left) \subseteq BagToSet(B) /\ IsFiniteSet(Waiting(left, Q))
            /\ Cardinality(Waiting(left, Q)) =
                  Cardinality(Waiting(B, Q)) - (IF x[2] \in Q THEN 1 ELSE 0)
      BY <2>2, OneReceived
  <2> QED
      BY <2>1, <2>3
<1>3. {} \in SUBSET Answer
    OBVIOUS
<1> QED
    BY <1>2, <1>3

LEMMA ReceivePut ==
    ASSUME Types, NEW o \in DOMAIN program, IsPut(o), Receive(o), Tolerant(o),
           UNCHANGED <<net, program>>
    PROVE  Tolerant(o)'
<1>1. call[o].pc = "receive" /\ UNCHANGED <<inbox, faulty>>
    BY DEF Receive, history
<1>2. PICK x \in BagToSet(socket[o]) :
          Become(o, CountWrite(o, x[2]), socket[o] (-) SetToBag({x}))
    BY DEF Receive
<1>3. PICK w : w = socket[o] (-) SetToBag({x})
    OBVIOUS
<1>4. /\ BagToSet(w) \subseteq BagToSet(socket[o])
      /\ Cardinality(Waiting(w, {Empty})) =
            Cardinality(Waiting(socket[o], {Empty})) - (IF x[2] \in {Empty} THEN 1 ELSE 0)
  <2>1. {Empty} \in SUBSET Answer
      BY DEF Answer
  <2> QED
      BY <1>3, <2>1, Taken
<1>5. /\ call[o] \in CallRecord /\ call[o].nb_writes \in Nat /\ call[o].i \in Nat
      /\ Quorum(o) \in Nat /\ Open(o)
      /\ Cardinality(Heard(o)) \in Nat /\ Cardinality(Waiting(socket[o], {Empty})) \in Nat
  <2>1. {Empty} \in SUBSET Answer
      BY DEF Answer
  <2> QED
      BY <1>1, <2>1, Counts, CallTyped DEF Types, Open
<1>6. RequestKind(o) = "write" => PutOpen(o) /\ x[2] = Empty
    BY <1>5 DEF Tolerant, PutTolerant, PutOpen
<1>7. CASE x[2] # Empty
  <2>1. Become(o, NextAttempt(o, call[o]), w)
      BY <1>2, <1>3, <1>7 DEF CountWrite
  <2>2. RequestKind(o) # "write"
      BY <1>6, <1>7
  <2> QED
      BY <1>1, <1>5, <2>1, <2>2, PutAttempt
<1>8. CASE x[2] = Empty /\ call[o].nb_writes + 1 >= Quorum(o)
  <2>1. Become(o, Done("ok", {}), w)
      BY <1>2, <1>3, <1>8 DEF CountWrite
  <2>2. call'[o].pc = "ok"
      BY <2>1, DoneLocals DEF Become, Types, CallsOK
  <2>3. IsPut(o)' <=> IsPut(o)
      BY DEF IsPut
  <2> QED
      BY <1>1, <2>2, <2>3 DEF Tolerant, PutTolerant, Open
<1>9. CASE x[2] = Empty /\ ~ (call[o].nb_writes + 1 >= Quorum(o))
  <2> DEFINE l == [call[o] EXCEPT !.nb_writes = call[o].nb_writes + 1]
  <2>1. Become(o, NextAttempt(o, l), w)
      BY <1>2, <1>3, <1>9 DEF CountWrite
  <2>2. /\ l \in CallRecord /\ l.pc = "receive" /\ l.i = call[o].i
        /\ l.nb_writes = call[o].nb_writes + 1
      BY <1>1, <1>5 DEF CallRecord
  <2> HIDE DEF l
  <2>3. l.nb_writes < Needed(o)
      BY <1>5, <1>9, <2>2 DEF Needed
  <2>4. ASSUME RequestKind(o) = "write"
        PROVE  /\ BagToSet(w) \subseteq Server \X {Empty}
               /\ Cardinality(Heard(o)) <= l.nb_writes + Cardinality(Waiting(w, {Empty}))
               /\ net.prompt => l.i + 1 <= l.nb_writes \/ Hopeless(o)
    <3>1. PutOpen(o)
        BY <1>6, <2>4
    <3>2. Attempts(o) = call[o].i
        BY <1>1 DEF Attempts
    <3>3. net.prompt => call[o].i <= call[o].nb_writes \/ Hopeless(o)
        BY <3>1, <3>2 DEF PutOpen
    <3>4. net.prompt => l.i + 1 <= l.nb_writes \/ Hopeless(o)
        BY <1>5, <2>2, <3>3
    <3>5. BagToSet(w) \subseteq Server \X {Empty}
        BY <1>4, <3>1 DEF PutOpen
    <3>6. Cardinality(Waiting(w, {Empty})) = Cardinality(Waiting(socket[o], {Empty})) - 1
        BY <1>4, <1>9
    <3>7. Cardinality(Heard(o)) <= call[o].nb_writes + Cardinality(Waiting(socket[o], {Empty}))
        BY <3>1 DEF PutOpen
    <3> QED
        BY <1>5, <2>2, <3>4, <3>5, <3>6, <3>7
  <2> QED
      BY <1>1, <2>1, <2>2, <2>3, <2>4, PutAttempt
<1> QED
    BY <1>7, <1>8, <1>9

\* The servers whose vote was counted before answer x.
Left(o, x) == Voters(o, x[2], socket[o] (-) SetToBag({x}))

\* What a get's receive does about answer x, with or without memory for its votes.
Hearing(o, x, vote) ==
    /\ Become(o, Voted(o, x[2], vote), socket[o] (-) SetToBag({x}))
    /\ \/ /\ vote = Votes!increment_and_test(call[o].votes, x[2], Quorum(o))
          /\ faulty' = faulty
       \/ /\ vote = Votes!first_vote(call[o].votes, x[2], Quorum(o))
          /\ faulty' = [faulty EXCEPT ![o] = @ \cup (Left(o, x) \ {x[1]})]
       \/ /\ vote.votes = call[o].votes
          /\ faulty' = [faulty EXCEPT ![o] = @ \cup {x[1]}]
    /\ vote \in Outcomes(call[o].votes, x[2], Quorum(o))

LEMMA GetHears ==
    ASSUME NEW o, ~ IsPut(o), Receive(o) \/ LoseVotes(o)
    PROVE  /\ call[o].pc = "receive" /\ UNCHANGED <<inbox, answered, dups>>
           /\ \E x \in BagToSet(socket[o]) : \E vote : Hearing(o, x, vote)
<1> DEFINE t == call[o].votes
           R == Quorum(o)
<1>1. CASE Receive(o)
  <2>1. PICK x \in BagToSet(socket[o]) : Become(o, CountVote(o, x[2]), socket[o] (-) SetToBag({x}))
      BY <1>1 DEF Receive
  <2>2. PICK vote : vote = Votes!increment_and_test(t, x[2], R)
      OBVIOUS
  <2>3. vote \in Outcomes(t, x[2], R)
      BY <2>2, Zenon DEF Outcomes
  <2>4. Become(o, Voted(o, x[2], vote), socket[o] (-) SetToBag({x}))
      BY <2>1, <2>2, Zenon DEF CountVote
  <2> QED
      BY <1>1, <2>2, <2>3, <2>4, Zenon DEF Receive, history, Hearing
<1>2. CASE LoseVotes(o)
  <2>1. PICK x \in BagToSet(socket[o]) :
           \/ /\ Become(o, Voted(o, x[2], Votes!uncopied(t, x[2], R)), socket[o] (-) SetToBag({x}))
              /\ faulty' = [faulty EXCEPT ![o] = @ \cup (Left(o, x) \ {x[1]})]
           \/ \E vote \in Votes!unstored(t, x[2], R) :
                 /\ Become(o, Voted(o, x[2], vote), socket[o] (-) SetToBag({x}))
                 /\ faulty' = [faulty EXCEPT ![o] = @ \cup {x[1]}]
      BY <1>2, Zenon DEF LoseVotes, Left
  <2>2. CASE /\ Become(o, Voted(o, x[2], Votes!uncopied(t, x[2], R)), socket[o] (-) SetToBag({x}))
             /\ faulty' = [faulty EXCEPT ![o] = @ \cup (Left(o, x) \ {x[1]})]
    <3>1. Votes!uncopied(t, x[2], R) = Votes!first_vote(t, x[2], R)
        BY Zenon DEF Votes!uncopied
    <3>2. Votes!uncopied(t, x[2], R) \in Outcomes(t, x[2], R)
        BY Zenon DEF Outcomes
    <3> QED
        BY <1>2, <2>2, <3>1, <3>2, Zenon DEF LoseVotes, Hearing
  <2>3. ASSUME NEW vote \in Votes!unstored(t, x[2], R),
               Become(o, Voted(o, x[2], vote), socket[o] (-) SetToBag({x})),
               faulty' = [faulty EXCEPT ![o] = @ \cup {x[1]}]
        PROVE  Hearing(o, x, vote)
    <3>1. vote.votes = t
        BY DEF Votes!unstored
    <3>2. vote \in Outcomes(t, x[2], R)
        BY Zenon DEF Outcomes
    <3> QED
        BY <2>3, <3>1, <3>2, Zenon DEF Hearing
  <2> QED
      BY <1>2, <2>1, <2>2, <2>3, Zenon DEF LoseVotes
<1> QED
    BY <1>1, <1>2

\* What an answer adds to the count of answers v.
LEMMA VotesAdd ==
    ASSUME Types, SizesFit, NEW o \in DOMAIN program, ~ IsPut(o), call[o].pc = "receive", Tolerant(o),
           DOMAIN faulty = DOMAIN program,
           NEW x \in BagToSet(socket[o]), NEW vote, Hearing(o, x, vote), ~ vote.enough,
           NEW v \in Unmistaken(o), NEW w, w = socket[o] (-) SetToBag({x})
    PROVE  \E n \in Nat :
              /\ VoteLemmas!CountIs(vote.votes, v, n) /\ VoteLemmas!Short(n, Quorum(o))
              /\ Cardinality(LeftTallied(o, v, w)) <= n
<1>1. /\ call[o].votes \in VoteLemmas!Table /\ Quorum(o) \in Nat /\ Open(o)
      /\ x[1] \in Server /\ x[2] \in Answer /\ x = <<x[1], x[2]>> /\ v \in Answer
      /\ vote \in Outcomes(call[o].votes, x[2], Quorum(o))
  <2>1. call[o] \in CallRecord /\ BagToSet(socket[o]) \subseteq Server \X Answer /\ Open(o)
      BY CallTyped DEF Types, Open
  <2> QED
      BY <2>1, Counts, VoteTables DEF CallRecord, Unmistaken, Hearing
<1>2. Quorum(o) < SizeMod
  <2>1. Quorum(o) <= N(o) /\ N(o) < SizeMod /\ SizeMod \in Nat /\ N(o) \in Nat
      BY <1>1, Counts, DhtAssumption DEF Tolerant, SizesFit, Votes!VotesAssumption
  <2> QED
      BY <1>1, <2>1
<1>3. GetOpen(o) /\ x \in answered[o]
    BY <1>1 DEF Tolerant, GetTolerant, GetOpen
<1>4. PICK n \in Nat :
          /\ VoteLemmas!CountIs(call[o].votes, v, n) /\ VoteLemmas!Short(n, Quorum(o))
          /\ Cardinality(Tallied(o, v)) <= n
    BY <1>3 DEF GetOpen, VotesHeard
<1>5. Tallied(o, v) \subseteq Server /\ LeftTallied(o, v, w) \subseteq Server /\ faulty[o] \in SUBSET Server
    BY DEF Tallied, LeftTallied, Answering, Tolerant
<1>6. ASSUME NEW m \in Nat, VoteLemmas!CountIs(vote.votes, v, m), VoteLemmas!Short(m, Quorum(o)),
             Cardinality(LeftTallied(o, v, w)) <= m
      PROVE  \E k \in Nat :
                /\ VoteLemmas!CountIs(vote.votes, v, k) /\ VoteLemmas!Short(k, Quorum(o))
                /\ Cardinality(LeftTallied(o, v, w)) <= k
    BY <1>6
\* What left the socket.
<1>7. \A s \in Server : s # x[1] \/ v # x[2] => (s \in Pending(socket[o], v) => s \in Pending(w, v))
  <2>1. PICK B : B = socket[o]
      OBVIOUS
  <2>2. IsABag(B) /\ x \in BagToSet(B) /\ w = B (-) SetToBag({x})
      BY <2>1, CallTyped DEF Types
  <2>3. \A y \in BagToSet(B) : y # x => y \in BagToSet(w)
      BY ONLY <2>2, OthersLeft
  <2>4. \A s : s # x[1] \/ v # x[2] => <<s, v>> # x
      OBVIOUS
  <2> QED
      BY <2>1, <2>3, <2>4 DEF Pending
<1>8. \E S : faulty' = faulty \/ faulty' = [faulty EXCEPT ![o] = @ \cup S]
    BY DEF Hearing
<1>9. faulty[o] \subseteq faulty'[o]
    BY <1>8
<1>10. /\ LeftTallied(o, v, w) \subseteq Tallied(o, v) \cup {x[1]}
       /\ x[2] # v \/ x[1] \in faulty'[o] => LeftTallied(o, v, w) \subseteq Tallied(o, v)
    BY <1>7, <1>9 DEF LeftTallied, Tallied, Answering
<1>11. /\ Cardinality(LeftTallied(o, v, w)) \in Nat /\ Cardinality(Tallied(o, v)) \in Nat
       /\ Cardinality(LeftTallied(o, v, w)) <= n + 1
       /\ x[2] # v \/ x[1] \in faulty'[o] => Cardinality(LeftTallied(o, v, w)) <= n
  <2>1. Cardinality(LeftTallied(o, v, w)) \in Nat /\ Cardinality(Tallied(o, v)) \in Nat
      BY <1>5, ServerSet
  <2>2. Cardinality(LeftTallied(o, v, w)) <= Cardinality(Tallied(o, v)) + 1
      BY <1>5, <1>10, OneLost
  <2>3. x[2] # v \/ x[1] \in faulty'[o] => Cardinality(LeftTallied(o, v, w)) <= Cardinality(Tallied(o, v))
      BY <1>5, <1>10, ServerSet, FS_Subset
  <2> QED
      BY <1>4, <2>1, <2>2, <2>3
<1>12. CASE x[2] # v
  <2>1. <<v, x[2]>> \notin VotePrefix /\ <<x[2], v>> \notin VotePrefix
      BY <1>3, <1>12 DEF Unmistaken
  <2>2. VoteLemmas!get_Htable_value(vote.votes, v) = VoteLemmas!get_Htable_value(call[o].votes, v)
      BY <1>1, <2>1, VoteTables, VoteLemmas!OtherVote
  <2>3. VoteLemmas!CountIs(vote.votes, v, n)
      BY <1>4, <2>2 DEF VoteLemmas!CountIs
  <2> QED
      BY <1>4, <1>6, <1>11, <1>12, <2>3
<1>13. CASE x[2] = v
  <2>1. CASE vote = Votes!increment_and_test(call[o].votes, x[2], Quorum(o))
    <3>1. vote = VoteLemmas!increment_and_test(call[o].votes, x[2], Quorum(o))
        BY <2>1, VoteTables
    <3>2. VoteLemmas!CountIs(vote.votes, v, n + 1) /\ VoteLemmas!Short(n + 1, Quorum(o))
        BY <1>1, <1>2, <1>4, <1>13, <3>1, VoteTables, VoteLemmas!SameVote
    <3> QED
        BY <1>6, <1>11, <3>2
  <2>2. CASE /\ vote = Votes!first_vote(call[o].votes, x[2], Quorum(o))
             /\ faulty' = [faulty EXCEPT ![o] = @ \cup (Left(o, x) \ {x[1]})]
    <3>1. vote = VoteLemmas!first_vote(call[o].votes, x[2], Quorum(o))
        BY <2>2, VoteTables
    <3>2. VoteLemmas!CountIs(vote.votes, v, 1) /\ VoteLemmas!Short(1, Quorum(o))
        BY <1>1, <1>13, <3>1, VoteTables, VoteLemmas!VoteAfresh
    <3>3. LeftTallied(o, v, w) \subseteq {} \cup {x[1]}
      <4>1. Left(o, x) = Answering(o, v) \ Pending(w, v)
          BY <1>13 DEF Left, Voters, Pending, Answering
      <4>2. faulty'[o] = faulty[o] \cup (Left(o, x) \ {x[1]})
          BY <2>2
      <4> QED
          BY <4>1, <4>2 DEF LeftTallied
    <3>4. Cardinality(LeftTallied(o, v, w)) <= 1
      <4>1. Cardinality(LeftTallied(o, v, w)) <= Cardinality({}) + 1 /\ {} \subseteq Server
          BY <1>5, <3>3, OneLost
      <4> QED
          BY <4>1, FS_EmptySet
    <3> QED
        BY <1>6, <3>2, <3>4
  <2>3. CASE vote.votes = call[o].votes /\ faulty' = [faulty EXCEPT ![o] = @ \cup {x[1]}]
    <3>1. x[1] \in faulty'[o]
        BY <2>3
    <3> QED
        BY <1>4, <1>6, <1>11, <2>3, <3>1
  <2> QED
      BY <2>1, <2>2, <2>3 DEF Hearing
<1> QED
    BY <1>12, <1>13

LEMMA ReceiveGet ==
    ASSUME Types, SizesFit, DOMAIN faulty = DOMAIN program, NEW o \in DOMAIN program, ~ IsPut(o),
           Receive(o) \/ LoseVotes(o), Tolerant(o), CallInv(o), UNCHANGED <<net, program>>
    PROVE  Tolerant(o)'
<1>1. call[o].pc = "receive" /\ UNCHANGED <<inbox, answered, dups>>
    BY GetHears
<1>2. PICK x \in BagToSet(socket[o]) : \E vote : Hearing(o, x, vote)
    BY GetHears
<1>8. PICK vote : Hearing(o, x, vote)
    BY <1>2
<1>3. PICK w : w = socket[o] (-) SetToBag({x})
    OBVIOUS
<1>4. /\ BagToSet(w) \subseteq BagToSet(socket[o]) /\ IsABag(w)
      /\ \A Q \in SUBSET Answer :
            /\ IsFiniteSet(Waiting(w, Q))
            /\ Cardinality(Waiting(w, Q)) =
                  Cardinality(Waiting(socket[o], Q)) - (IF x[2] \in Q THEN 1 ELSE 0)
    BY <1>3, Taken, SocketLeft
<1>5. /\ call[o] \in CallRecord /\ call[o].i \in Nat /\ call[o].votes \in Votes!Table
      /\ N(o) \in Nat /\ Quorum(o) \in Nat /\ Open(o) /\ dups \in Nat
      /\ Cardinality(Requests(inbox, o)) \in Nat
      /\ \A Q \in SUBSET Answer : Cardinality(Waiting(socket[o], Q)) \in Nat
  <2>1. call[o] \in CallRecord /\ Open(o)
      BY <1>1, CallTyped DEF Types, Open
  <2> QED
      BY <2>1, Counts DEF CallRecord
<1>6. GetOpen(o)
    BY <1>5 DEF Tolerant, GetTolerant
<1>7. /\ x \in answered[o] /\ BagToSet(w) \subseteq answered[o] /\ x[2] \in Answer /\ x[1] \in Server
      /\ Become(o, Voted(o, x[2], vote), w) /\ vote \in Outcomes(call[o].votes, x[2], Quorum(o))
  <2>1. BagToSet(socket[o]) \subseteq Server \X Answer
      BY CallTyped DEF Types
  <2>2. Become(o, Voted(o, x[2], vote), w) /\ vote \in Outcomes(call[o].votes, x[2], Quorum(o))
      BY <1>3, <1>8, Zenon DEF Hearing
  <2> QED
      BY <1>4, <1>6, <2>1, <2>2 DEF GetOpen
<1>9. vote.votes \in Votes!Table
  <2>1. /\ Slacks(o) \in [Answer -> Nat] /\ VoteLemmas!Backed(call[o].votes, Slacks(o))
        /\ Quorum(o) = 0 => VoteLemmas!AllOnes(call[o].votes)
      BY <1>5 DEF CallInv, VotesCounted
  <2> QED
      BY <1>5, <1>7, <2>1, VoteMade
<1>12. faulty[o] \subseteq faulty'[o] /\ faulty'[o] \in SUBSET Server
  <2>1. faulty[o] \in SUBSET Server /\ Left(o, x) \subseteq Server
      BY DEF Tolerant, Left, Voters, Answering
  <2>2. \/ faulty' = faulty
        \/ faulty' = [faulty EXCEPT ![o] = @ \cup (Left(o, x) \ {x[1]})]
        \/ faulty' = [faulty EXCEPT ![o] = @ \cup {x[1]}]
      BY <1>8 DEF Hearing
  <2> QED
      BY <1>7, <2>1, <2>2
<1>10. CASE vote.enough
  <2>1. Become(o, Done("ok", {x[2]}), w)
      BY <1>7, <1>10 DEF Voted
  <2>2. call'[o].pc = "ok"
    <3>1. {x[2]} \in SUBSET Answer
        BY <1>7
    <3> QED
        BY <2>1, <3>1, DoneLocals DEF Become, Types, CallsOK
  <2>3. IsPut(o)' <=> IsPut(o)
      BY DEF IsPut
  <2> QED
      BY <1>12, <2>2, <2>3 DEF Tolerant, GetTolerant, Open
<1>11. CASE ~ vote.enough
  <2> DEFINE l == [call[o] EXCEPT !.votes = vote.votes]
  <2>1. Become(o, NextAttempt(o, l), w)
      BY <1>7, <1>11 DEF Voted
  <2>2. l \in CallRecord /\ l.pc = "receive" /\ l.i = call[o].i /\ l.votes = vote.votes
      BY <1>1, <1>5, <1>9 DEF CallRecord
  <2> HIDE DEF l
  <2>3. \A v \in Unmistaken(o) : \E n \in Nat :
                 /\ VoteLemmas!CountIs(l.votes, v, n) /\ VoteLemmas!Short(n, Quorum(o))
                 /\ Cardinality(LeftTallied(o, v, w)) <= n
      BY <1>1, <1>3, <1>8, <1>11, <2>2, VotesAdd
  <2>4. ASSUME net.prompt
        PROVE  l.i + 1 + Cardinality(Waiting(w, Answer)) + Cardinality(Requests(inbox, o)) <= N(o) + dups
    <3>1. Attempts(o) = call[o].i /\ SentTo(o) = N(o)
        BY <1>1 DEF Attempts, SentTo
    <3>2. call[o].i + Cardinality(Waiting(socket[o], Answer)) + Cardinality(Requests(inbox, o))
             <= N(o) + dups
        BY <1>6, <2>4, <3>1 DEF GetOpen, InTime
    <3>3. /\ Cardinality(Waiting(w, Answer)) = Cardinality(Waiting(socket[o], Answer)) - 1
          /\ Cardinality(Waiting(socket[o], Answer)) \in Nat
      <4>1. Answer \in SUBSET Answer
          OBVIOUS
      <4> QED
          BY <1>4, <1>5, <1>7, <4>1
    <3> QED
        BY <1>5, <2>2, <3>2, <3>3
  <2>5. IsFiniteSet(Waiting(w, Answer))
    <3>1. Answer \in SUBSET Answer
        OBVIOUS
    <3> QED
        BY <1>4, <3>1
  <2> QED
      BY <1>1, <1>4, <1>7, <1>12, <2>1, <2>2, <2>3, <2>4, <2>5, GetAttempt
<1> QED
    BY <1>10, <1>11

\* A prompt time-out of a put: the servers that have not answered are faulty.
LEMMA Silenced ==
    ASSUME Types, NEW o \in DOMAIN program, IsPut(o), Timeout(o), net.prompt,
           PutOpen(o), faulty[o] \in SUBSET Server
    PROVE  Hopeless(o)
<1>1. call[o].pc = "receive" /\ socket[o] = EmptyBag /\ Asked(inbox, o) = {}
    BY DEF Timeout, OnItsWay, Asked
<1>2. SentTo(o) = N(o) /\ N(o) \in Nat
    BY <1>1, Counts DEF SentTo
<1>3. IsFiniteSet(Reached(o)) /\ Cardinality(Reached(o)) = N(o)
  <2> DEFINE contacted == [m \in 1..N(o) |-> servers_to_contact(o)[m]]
  <2>1. \A m, n \in 1..N(o) : m # n => servers_to_contact(o)[m] # servers_to_contact(o)[n]
      BY CallFacts DEF Types
  <2>2. Reached(o) = {servers_to_contact(o)[m] : m \in 1..N(o)}
      BY <1>2 DEF Reached
  <2>3. \A m \in 1..N(o) : contacted[m] \in Reached(o)
      BY <2>2
  <2>4. contacted \in [1..N(o) -> Reached(o)]
      BY <2>3
  <2>5. \A m, n \in 1..N(o) : contacted[m] = contacted[n] => m = n
      BY <2>1
  <2>6. \A t \in Reached(o) : \E m \in 1..N(o) : contacted[m] = t
      BY <2>2
  <2> HIDE DEF contacted
  <2>7. PICK f, n, R : f = contacted /\ n = N(o) /\ R = Reached(o)
      OBVIOUS
  <2>8. /\ n \in Nat /\ f \in [1..n -> R]
        /\ \A k, m \in 1..n : f[k] = f[m] => k = m
        /\ \A t \in R : \E k \in 1..n : f[k] = t
      BY <1>2, <2>4, <2>5, <2>6, <2>7
  <2>9. f \in Surjection(1..n, R) /\ f \in Injection(1..n, R)
      BY <2>8 DEF Surjection, Injection, IsInjective
  <2>10. IsFiniteSet(1..n) /\ Cardinality(1..n) = n
      BY <2>8, FS_Interval
  <2> QED
      BY <2>7, <2>9, <2>10, FS_Surjection
<1>4. N(o) <= Cardinality(Heard(o)) + Cardinality(faulty[o])
  <2>1. Heard(o) \subseteq Server
      BY Counts
  <2>2. /\ IsFiniteSet(Heard(o)) /\ Cardinality(Heard(o)) \in Nat
        /\ IsFiniteSet(faulty[o]) /\ Cardinality(faulty[o]) \in Nat
      BY <2>1, ServerSet
  <2>3. /\ IsFiniteSet(Heard(o) \cup faulty[o])
        /\ Cardinality(Heard(o) \cup faulty[o]) =
              Cardinality(Heard(o)) + Cardinality(faulty[o]) - Cardinality(Heard(o) \cap faulty[o])
      BY <2>2, FS_Union
  <2>4. Cardinality(Heard(o) \cap faulty[o]) \in Nat
      BY <2>2, FS_Intersection, FS_CardinalityType
  <2>5. Reached(o) \subseteq Heard(o) \cup faulty[o]
      BY <1>1 DEF Heard
  <2>6. Cardinality(Reached(o)) <= Cardinality(Heard(o) \cup faulty[o])
      BY <2>3, <2>5, FS_Subset
  <2> QED
      BY <1>2, <1>3, <2>2, <2>3, <2>4, <2>6
<1>5. Cardinality(Heard(o)) < Needed(o)
  <2>1. Cardinality(Waiting(socket[o], {Empty})) = 0
      BY <1>1, NoneWaiting, FS_EmptySet
  <2>2. /\ Cardinality(Heard(o)) <= call[o].nb_writes + Cardinality(Waiting(socket[o], {Empty}))
        /\ call[o].nb_writes < Needed(o)
      BY DEF PutOpen
  <2>3. Cardinality(Heard(o)) \in Nat /\ call[o].nb_writes \in Nat /\ Needed(o) \in Nat
      BY Counts
  <2> QED
      BY <2>1, <2>2, <2>3
<1>6. Cardinality(faulty[o]) \in Nat /\ Cardinality(Heard(o)) \in Nat /\ Needed(o) \in Nat
    BY ServerSet, Counts
<1> QED
    BY <1>2, <1>4, <1>5, <1>6 DEF Hopeless

LEMMA TimeoutTolerant ==
    ASSUME Types, SizesFit, NEW o \in DOMAIN program, Timeout(o), Tolerant(o),
           UNCHANGED <<net, program>>
    PROVE  Tolerant(o)'
<1>1. /\ call[o].pc = "receive" /\ UNCHANGED <<inbox, answered, faulty, dups>>
      /\ Become(o, NextAttempt(o, call[o]), socket[o])
      /\ net.prompt => socket[o] = EmptyBag /\ Requests(inbox, o) = {}
  <2>1. ~ OnItsWay(o) => socket[o] = EmptyBag /\ Requests(inbox, o) = {}
      BY DEF OnItsWay, Requests
  <2> QED
      BY <2>1 DEF Timeout, history
<1>2. call[o] \in CallRecord /\ Open(o)
    BY <1>1, CallTyped DEF Types, Open
<1>3. CASE IsPut(o)
  <2>1. RequestKind(o) = "write" => PutOpen(o)
      BY <1>2, <1>3 DEF Tolerant, PutTolerant
  <2>2. RequestKind(o) = "write" /\ net.prompt => Hopeless(o)
      BY <1>3, <2>1, Silenced DEF Tolerant
  <2>3. RequestKind(o) = "write" =>
            /\ BagToSet(socket[o]) \subseteq Server \X {Empty}
            /\ call[o].nb_writes < Needed(o)
            /\ Cardinality(Heard(o)) <= call[o].nb_writes + Cardinality(Waiting(socket[o], {Empty}))
      BY <2>1 DEF PutOpen
  <2> QED
      BY <1>1, <1>2, <1>3, <2>2, <2>3, PutAttempt
<1>4. CASE ~ IsPut(o)
  <2>1. GetOpen(o)
      BY <1>2, <1>4 DEF Tolerant, GetTolerant
  <2>2. IsFiniteSet(Waiting(socket[o], Answer)) /\ BagToSet(socket[o]) \subseteq answered[o]
    <3>1. Answer \in SUBSET Answer
        OBVIOUS
    <3> QED
        BY <2>1, <3>1, CallTyped DEF Types, GetOpen
  <2>3. \A v \in Unmistaken(o) : \E n \in Nat :
            /\ VoteLemmas!CountIs(call[o].votes, v, n) /\ VoteLemmas!Short(n, Quorum(o))
            /\ Cardinality(LeftTallied(o, v, socket[o])) <= n
    <3>1. \A v : LeftTallied(o, v, socket[o]) = Tallied(o, v)
        BY <1>1 DEF LeftTallied, Tallied
    <3> QED
        BY <2>1, <3>1 DEF GetOpen, VotesHeard
  <2>4. ASSUME net.prompt
        PROVE  call[o].i + 1 + Cardinality(Waiting(socket[o], Answer)) + Cardinality(Requests(inbox, o))
                  <= N(o) + dups
    <3>1. Cardinality(Waiting(socket[o], Answer)) = 0 /\ Cardinality(Requests(inbox, o)) = 0
        BY <1>1, <2>4, NoneWaiting, FS_EmptySet
    <3>2. call[o].i \in Nat /\ call[o].i < N(o) /\ N(o) \in Nat /\ dups \in Nat
        BY <1>2, Counts, CallTyped DEF Types, CallOK, Open
    <3> QED
        BY <3>1, <3>2
  <2>5. IsABag(socket[o]) /\ faulty[o] \subseteq faulty'[o] /\ faulty'[o] \in SUBSET Server
      BY <1>1, CallTyped DEF Types, Tolerant
  <2> QED
      BY <1>1, <1>2, <1>4, <2>2, <2>3, <2>4, <2>5, GetAttempt
<1> QED
    BY <1>3, <1>4

----------------------------------------------------------------------------

(***************************************************************************)
(* Every step.                                                             *)
(***************************************************************************)
LEMMA AllTolerant ==
    ASSUME ToleranceInv, SameCalls, DOMAIN faulty' = DOMAIN program, \A o \in DOMAIN program : Tolerant(o)'
    PROVE  ToleranceInv'
<1>1. Puts' = Puts /\ \A o \in DOMAIN program : N(o)' = N(o)
    BY SameNeeds
<1> QED
    BY <1>1 DEF ToleranceInv, SizesFit, SameCalls

LEMMA ServerTolerant ==
    ASSUME DhtInv, DhtInv', ToleranceInv, NEW s \in Server, Serve(s) \/ Restart(s),
           UNCHANGED <<net, program>>
    PROVE  ToleranceInv'
<1>1. /\ Types /\ RequestsOK' /\ ServersOK' /\ SameCalls /\ DOMAIN faulty = DOMAIN program
      /\ \A o \in DOMAIN program : Tolerant(o) /\ faulty[o] \in SUBSET Server
    BY SameProgram DEF DhtInv, Types, ToleranceInv, Tolerant
<1>2. \A o \in DOMAIN program : RequestKind(o)' = RequestKind(o)
    BY DEF RequestKind, IsPut
<1>3. CASE Serve(s)
  <2>1. PICK j \in 1..Len(inbox[s]), n \in 0..2, x \in Answer :
            ServedAs(s, j, n, x) /\ BlamedAs(s, j, n, x)
      BY <1>1, <1>3, ServeForm
  <2>2. DOMAIN faulty' = DOMAIN program
      BY <1>1, <2>1 DEF BlamedAs
  <2>3. ASSUME NEW o \in DOMAIN program PROVE Tolerant(o)'
    <3>1. CASE inbox[s][j] # o \/ n = 0 \/ ~ Open(o)
      <4>1. Kept(o)
          BY <1>1, <2>1, <3>1, ServedKept
      <4> QED
          BY <1>1, <1>2, <4>1, KeptTolerant
    <3>2. CASE inbox[s][j] = o /\ n # 0 /\ Open(o)
      <4>1. n \in 1..2
          BY <3>2
      <4>2. CASE IsPut(o)
          BY <1>1, <2>1, <3>2, <4>1, <4>2, ServedPut
      <4>3. CASE ~ IsPut(o)
          BY <1>1, <2>1, <3>2, <4>1, <4>3, ServedGet
      <4> QED
          BY <4>2, <4>3
    <3> QED
        BY <3>1, <3>2
  <2> QED
      BY <1>1, <2>2, <2>3, AllTolerant
<1>4. CASE Restart(s)
  <2>1. DOMAIN faulty' = DOMAIN program
      BY <1>4 DEF Restart
  <2>2. ASSUME NEW o \in DOMAIN program PROVE Tolerant(o)'
    <3>1. Kept(o)
        BY <1>1, <1>4, RestartKept
    <3> QED
        BY <1>1, <1>2, <3>1, KeptTolerant
  <2> QED
      BY <1>1, <2>1, <2>2, AllTolerant
<1> QED
    BY <1>3, <1>4

LEMMA ClientTolerant ==
    ASSUME DhtInv, DhtInv', ToleranceInv, NEW p \in DOMAIN program, Client(p),
           UNCHANGED <<net, program>>
    PROVE  ToleranceInv'
<1>1. /\ Types /\ RequestsOK' /\ ServersOK' /\ SameCalls /\ SizesFit /\ DOMAIN faulty = DOMAIN program
      /\ \A o \in DOMAIN program : Tolerant(o) /\ CallInv(o) /\ faulty[o] \in SUBSET Server
    BY SameProgram DEF DhtInv, Types, ToleranceInv, Tolerant
<1>2. \A o \in DOMAIN program : RequestKind(o)' = RequestKind(o)
    BY DEF RequestKind, IsPut
<1>3. DOMAIN faulty' = DOMAIN program
  <2>1. faulty' = faulty \/ \E S : faulty' = [faulty EXCEPT ![p] = @ \cup S]
      BY DEF Client, Start, Send, SendFails, Receive, LoseVotes, Timeout, history, BlameLoss, Blame
  <2> QED
      BY <1>1, <2>1
<1>4. ASSUME NEW o \in DOMAIN program, o # p PROVE Tolerant(o)'
  <2>1. Kept(o)
      BY <1>1, <1>4, OthersKept
  <2> QED
      BY <1>1, <1>2, <2>1, KeptTolerant
<1>5. Tolerant(p)'
  <2>1. CASE Start(p)
      BY <1>1, <2>1, StartTolerant
  <2>2. CASE Send(p)
      BY <1>1, <2>2, SendPut, SendGet
  <2>3. CASE SendFails(p)
    <3>1. call'[p].pc = "error"
        BY <1>1, <2>3, DoneLocals DEF SendFails, Become, Types, CallsOK
    <3>2. faulty'[p] \in SUBSET Server
        BY <1>1, <2>3 DEF SendFails, history
    <3> QED
        BY <1>1, <3>1, <3>2, ErrorTolerant
  <2>4. CASE Receive(p) \/ LoseVotes(p)
    <3>1. LoseVotes(p) => ~ IsPut(p)
        BY DEF LoseVotes
    <3> QED
        BY <1>1, <2>4, <3>1, ReceivePut, ReceiveGet
  <2>5. CASE Timeout(p)
      BY <1>1, <2>5, TimeoutTolerant
  <2> QED
      BY <2>1, <2>2, <2>3, <2>4, <2>5 DEF Client
<1> QED
    BY <1>1, <1>3, <1>4, <1>5, AllTolerant

\* Nothing changes for the calls, but what a call puts that has not begun.
LEMMA QuietTolerant ==
    ASSUME DhtInv, DhtInv', ToleranceInv, SameCalls,
           UNCHANGED <<net, inbox, socket, call, answered, faulty, dups>>,
           \A o \in DOMAIN program : call[o].pc # "new" => RequestKind(o)' = RequestKind(o)
    PROVE  ToleranceInv'
<1>1. /\ Types /\ RequestsOK' /\ ServersOK' /\ DOMAIN faulty' = DOMAIN program
      /\ \A o \in DOMAIN program : Tolerant(o) /\ faulty[o] \in SUBSET Server
    BY DEF DhtInv, Types, ToleranceInv, Tolerant
<1>2. ASSUME NEW o \in DOMAIN program PROVE Tolerant(o)'
  <2>1. dups \in Nat /\ Cardinality(Requests(inbox, o)) \in Nat
      BY <1>1, Counts
  <2>2. Kept(o)
      BY <1>1, <2>1 DEF Kept
  <2> QED
      BY <1>1, <2>2, KeptTolerant
<1> QED
    BY <1>1, <1>2, AllTolerant

LEMMA ConcatenateTolerant ==
    ASSUME DhtInv, DhtInv', TurnInv, ToleranceInv, NEW c \in DOMAIN command, Concatenate(c)
    PROVE  ToleranceInv'
<1>1. SameCalls
    BY ConcatenateKeeps
<1>2. UNCHANGED <<net, inbox, socket, call, answered, faulty, dups>>
    BY DEF Concatenate, chosen, history
<1>3. ASSUME NEW o \in DOMAIN program, call[o].pc # "new" PROVE RequestKind(o)' = RequestKind(o)
  <2> DEFINE put == <<c, LastCall(c)>>
  <2>1. program'[o] = program[o]
    <3>1. \/ program' = program
          \/ /\ at[c] + 1 = LastCall(c)
             /\ \E v : program' = [program EXCEPT ![put].value = v]
        BY DEF Concatenate
    <3>2. at[c] + 1 = LastCall(c) => call[put].pc = "new"
      <4>1. ProgramOK /\ ProcessesOK /\ InTurn(c) /\ command[c].name = "cat" /\ at[c] < LastCall(c)
          BY DEF DhtInv, Types, TurnInv, Concatenate
      <4>2. LastCall(c) \in Nat /\ at[c] \in 1..LastCall(c)
          BY <4>1, CallsOfProcess DEF ProcessesOK
      <4>3. LastCall(c) \in 1..LastCall(c) /\ LastCall(c) > at[c]
          BY <4>1, <4>2
      <4> QED
          BY <4>1, <4>3 DEF InTurn
    <3> HIDE DEF put
    <3> QED
        BY <1>3, <3>1, <3>2
  <2> QED
      BY <2>1 DEF RequestKind, IsPut
<1> QED
    BY <1>1, <1>2, <1>3, QuietTolerant

LEMMA ToleranceNext ==
    ASSUME DhtInv, DhtInv', TurnInv, ToleranceInv, [NextClients]_allVars
    PROVE  ToleranceInv'
\* Nothing but a process changes.
<1>1. ASSUME UNCHANGED vars PROVE ToleranceInv'
  <2>1. UNCHANGED <<program, net, inbox, socket, call, answered, faulty, dups>>
      BY <1>1 DEF vars, history
  <2>2. SameCalls /\ \A o \in DOMAIN program : RequestKind(o)' = RequestKind(o)
      BY <2>1, SameProgram DEF RequestKind, IsPut
  <2> QED
      BY <2>1, <2>2, QuietTolerant
<1>2. CASE Servers
  <2>1. UNCHANGED <<net, program>> /\ \E s \in Server : Serve(s) \/ Restart(s)
      BY <1>2 DEF Servers, chosen
  <2> QED
      BY <2>1, ServerTolerant
<1>3. ASSUME NEW c \in DOMAIN command, Step(c) PROVE ToleranceInv'
  <2>1. CASE InCall(c)
    <3>1. UNCHANGED <<net, program>> /\ Client(Call(c)) /\ ~ Refused(c)
        BY <2>1 DEF InCall, chosen
    <3>2. Call(c) \in DOMAIN program
        BY <3>1, CallsOfProcess DEF DhtInv, Types
    <3> QED
        BY <3>1, <3>2, ClientTolerant
  <2>2. CASE Concatenate(c)
      BY <2>2, ConcatenateTolerant
  <2>3. CASE Refuse(c) \/ CallFails(c) \/ SecondKey(c) \/ Finish(c)
      BY <1>1, <2>3 DEF Refuse, CallFails, SecondKey, Finish
  <2> QED
      BY <1>3, <2>1, <2>2, <2>3 DEF Step
<1>4. CASE UNCHANGED allVars
    BY <1>1, <1>4 DEF allVars
<1> QED
    BY <1>2, <1>3, <1>4 DEF NextClients

----------------------------------------------------------------------------

(***************************************************************************)
(* In every reachable state each server that a put has reached still has   *)
(* the request, has acknowledged or is blamed, and each attempt of a get   *)
(* has been used up by an answer, or nothing was on its way any more.      *)
(***************************************************************************)
THEOREM ToleranceInvariant == SpecClients => [](DhtInv /\ TurnInv /\ ToleranceInv)
<1>1. InitClients => TurnInv /\ ToleranceInv
    BY TurnInit, ToleranceInit
<1>2. DhtInv /\ DhtInv' /\ TurnInv /\ ToleranceInv /\ [NextClients]_allVars => TurnInv' /\ ToleranceInv'
    BY TurnNext, ToleranceNext
<1> QED
    BY <1>1, <1>2, DhtInvariant, PTL DEF SpecClients

(***************************************************************************)
(* network_put fails only when faults kept more than N - W of its servers  *)
(* from acknowledging, if no answer is later than the time-out: it counts  *)
(* every acknowledgement, whatever is lost, duplicated or reordered.       *)
(***************************************************************************)
THEOREM PutsTolerate == SpecClients => []PutTolerance
<1>1. DhtInv /\ TurnInv /\ ToleranceInv => PutTolerance
  <2> SUFFICES ASSUME ToleranceInv, net.prompt, NEW o \in Puts,
                      RequestKind(o) = "write", call[o].pc = "fail"
               PROVE  N(o) - Cardinality(faulty[o]) < Needed(o)
      BY DEF PutTolerance
  <2>1. o \in DOMAIN program /\ IsPut(o)
      BY DEF Puts
  <2> QED
      BY <2>1 DEF ToleranceInv, Tolerant, PutTolerant, Hopeless
<1> QED
    BY <1>1, ToleranceInvariant, PTL

(***************************************************************************)
(* network_get fails only when no value that cannot be mistaken for        *)
(* another one has reached it from R servers whose votes its memory has    *)
(* held, if no answer is later than the time-out: its N attempts take in   *)
(* every answer, up to one for each datagram that the network has          *)
(* duplicated, and count it, unless an allocation fails meanwhile.         *)
(***************************************************************************)
THEOREM GetsTolerate == SpecClients => []GetTolerance
<1>1. DhtInv /\ TurnInv /\ ToleranceInv => GetTolerance
  <2> SUFFICES ASSUME ToleranceInv, net.prompt, NEW o \in Gets, call[o].pc = "fail"
               PROVE  \A v \in Unmistaken(o) :
                         Cardinality(Answering(o, v) \ faulty[o]) < Needed(o) + dups
      BY DEF GetTolerance
  <2>1. o \in DOMAIN program /\ ~ IsPut(o)
      BY DEF Gets
  <2> QED
      BY <2>1 DEF ToleranceInv, Tolerant, GetTolerant
<1> QED
    BY <1>1, ToleranceInvariant, PTL

----------------------------------------------------------------------------

(***************************************************************************)
(* The order of requests.  The calls that have begun; what is past for a   *)
(* call; and the values of puts, which fit the buffers.                    *)
(***************************************************************************)
Begun == {o \in DOMAIN program : call[o].pc # "new"}

PastInv ==
    /\ before \in [DOMAIN program -> SUBSET DOMAIN program] /\ IsFiniteSet(Begun)
    /\ \A o \in DOMAIN program :
          /\ o \notin before[o] /\ \A p \in before[o] : Returned(p)
          /\ \A p \in DOMAIN program :
                before[o] \subseteq before[p] \/ before[p] \subseteq before[o]

\* All programs but cat make the calls of their command line.
Given ==
    \A c \in DOMAIN command : command[c].name # "cat" =>
        \A n \in 1..LastCall(c) : program[<<c, n>>] = CallsOf(command[c])[n]

ValuesFit == \A p \in Begun \cap Puts : ~ TooLong(program[p].value)

\* Only the servers of a call have its request, only puts are performed, and a
\* get returns an answer.
CallPlaces ==
    /\ \A s \in Server : applied[s] \subseteq Puts
    /\ \A o \in DOMAIN program : Touched(o) \subseteq Contacted(o)
    /\ \A g \in Gets : call[g].pc = "ok" =>
          \A v \in call[g].value : \E s \in Server : <<s, v>> \in answered[g]

CallsPast == PastInv /\ Given /\ ValuesFit /\ CallPlaces

----------------------------------------------------------------------------

LEMMA PastInit ==
    ASSUME InitClients PROVE CallsPast
<1>1. /\ program = ProgramOf(command) /\ DOMAIN command \subseteq Proc
      /\ \A c \in DOMAIN command : command[c] \in Command
    BY ClientsAssumption DEF InitClients
<1>2. /\ before = [o \in DOMAIN program |-> {}] /\ applied = [s \in Server |-> {}]
      /\ answered = [o \in Gets |-> {}] /\ inbox = [s \in Server |-> <<>>]
      /\ \A o \in DOMAIN program : call[o].pc = "new"
    BY DEF InitClients, Init, NoCall
<1>3. Begun = {}
    BY <1>2 DEF Begun
<1>4. PastInv
    BY <1>2, <1>3, FS_EmptySet DEF PastInv
<1>5. Given
  <2> SUFFICES ASSUME NEW c \in DOMAIN command, NEW n \in 1..LastCall(c)
               PROVE  program[<<c, n>>] = CallsOf(command[c])[n]
      BY DEF Given
  <2>1. n \in DOMAIN CallsOf(command[c])
      BY <1>1, CallsOfCommand DEF LastCall
  <2>2. <<c, n>> \in {c} \X DOMAIN CallsOf(command[c])
      BY <2>1
  <2> QED
      BY <1>1, <2>2 DEF ProgramOf
<1>6. CallPlaces
  <2>1. ASSUME NEW o \in DOMAIN program PROVE Touched(o) = {}
    <3>1. Givers(o, Answer) = {}
        BY <1>2 DEF Givers, Writers, Gets
    <3>2. Asked(inbox, o) = {}
        BY <1>2 DEF Asked
    <3> QED
        BY <3>1, <3>2 DEF Touched
  <2> QED
      BY <1>2, <2>1 DEF CallPlaces, Gets
<1> QED
    BY <1>3, <1>4, <1>5, <1>6 DEF CallsPast, ValuesFit

\* What a step of call o changes of the calls and of what is past.
Moves(o) ==
    /\ ~ Returned(o) /\ call'[o].pc # "new"
    /\ \A p \in DOMAIN program : p # o => call'[p] = call[p]
    /\ \/ before' = before
       \/ /\ call[o].pc = "new"
          /\ before' = [before EXCEPT ![o] = {p \in DOMAIN program : Returned(p)}]

LEMMA ClientMoves ==
    ASSUME Types, NEW o \in DOMAIN program, Client(o)
    PROVE  /\ Moves(o) /\ UNCHANGED <<store, applied, answered, restarts>>
           /\ ~ IsPut(o) /\ call'[o].pc = "ok" =>
                 Open(o) /\ \E x \in BagToSet(socket[o]) : call'[o].value = {x[2]}
           /\ Send(o) \/ inbox' = inbox
<1>1. /\ call[o].pc \in {"new", "send", "receive"} /\ ~ Returned(o)
      /\ \A p \in DOMAIN program : p # o => call'[p] = call[p]
    BY OwnCall DEF Returned
<1>2. call[o] \in CallRecord /\ DOMAIN call = DOMAIN program /\ N(o) \in Nat
    BY CallTyped, CallFacts DEF Types, CallsOK
<1>3. CASE Start(o)
  <2>1. /\ call[o].pc = "new" /\ UNCHANGED <<store, inbox, applied, answered, restarts>>
        /\ before' = [before EXCEPT ![o] = {p \in DOMAIN program : Returned(p)}]
        /\ \E l \in {[NoCall EXCEPT !.pc = "send"], Done("error", {}), Done("killed", {})} :
              call' = [call EXCEPT ![o] = l]
      BY <1>3 DEF Start, Become
  <2>2. call'[o] \in {[NoCall EXCEPT !.pc = "send"], Done("error", {}), Done("killed", {})}
      BY <1>2, <2>1
  <2>3. /\ Done("error", {}).pc = "error" /\ Done("killed", {}).pc = "killed"
        /\ [NoCall EXCEPT !.pc = "send"].pc = "send"
      BY Locals, DoneLocals
  <2>4. call'[o].pc \in {"send", "error", "killed"}
      BY <2>2, <2>3
  <2> QED
      BY <1>1, <2>1, <2>4 DEF Moves
<1>4. CASE Send(o)
  <2>1. UNCHANGED <<store, applied, answered, before, restarts>>
      BY <1>4 DEF Send
  <2>2. call'[o].pc \in {"send", "receive"}
      BY <1>2, <1>4, SendForm
  <2> QED
      BY <1>1, <1>4, <2>1, <2>2 DEF Moves
<1>5. CASE SendFails(o)
  <2>1. UNCHANGED <<store, inbox, applied, answered, before, restarts>>
      BY <1>5 DEF SendFails, history
  <2>2. call'[o].pc = "error"
      BY <1>2, <1>5, DoneLocals DEF SendFails, Become
  <2> QED
      BY <1>1, <2>1, <2>2 DEF Moves
<1>6. CASE Receive(o) \/ LoseVotes(o)
  <2>1. UNCHANGED <<store, inbox, applied, answered, before, restarts>> /\ call[o].pc = "receive"
      BY <1>6 DEF Receive, LoseVotes, history
  <2>2. ASSUME NEW x, HearsWrite(o, x) PROVE IsPut(o) /\ call'[o].pc # "new"
    <3>1. /\ IsPut(o) /\ Quorum(o) \in Nat /\ x[2] \in Answer
          /\ call' = [call EXCEPT ![o] = CountWrite(o, x[2])]
        BY <2>2, HeardTypes DEF HearsWrite, Become
    <3>2. CountWrite(o, x[2]).pc # "new"
        BY <1>2, <2>1, <3>1, CountWriteForm
    <3> QED
        BY <1>2, <3>1, <3>2
  <2>3. ASSUME NEW x, NEW vote, HearsVote(o, x, vote)
        PROVE  /\ x \in BagToSet(socket[o]) /\ call'[o].pc # "new"
               /\ call'[o].pc = "ok" => call'[o].value = {x[2]}
    <3>1. /\ x \in BagToSet(socket[o]) /\ x[2] \in Answer
          /\ call' = [call EXCEPT ![o] = Voted(o, x[2], vote)]
        BY <2>1, <2>3, HeardTypes DEF HearsVote, Become
    <3>2. PICK l : l = [call[o] EXCEPT !.votes = vote.votes]
        OBVIOUS
    <3>3. l.pc = "receive" /\ [l EXCEPT !.i = @ + 1].pc = "receive"
        BY <1>2, <2>1, <3>2 DEF CallRecord
    <3>4. NextAttempt(o, l).pc \in {"receive", "fail"}
        BY <3>3, DoneLocals DEF NextAttempt
    <3>5. call'[o] \in {Done("ok", {x[2]}), NextAttempt(o, l)}
        BY <1>2, <3>1, <3>2 DEF Voted
    <3> QED
        BY <3>1, <3>4, <3>5, DoneLocals
  <2>4. (\E x : HearsWrite(o, x)) \/ (\E x, vote : HearsVote(o, x, vote))
      BY <1>6, HearsForm DEF Hears
  <2> QED
      BY <1>1, <2>1, <2>2, <2>3, <2>4 DEF Moves, Open
<1>7. CASE Timeout(o)
  <2>1. UNCHANGED <<store, inbox, applied, answered, before, restarts>>
      BY <1>7 DEF Timeout, history
  <2>2. call'[o].pc \in {"receive", "fail"}
      BY <1>2, <1>7, TimeoutForm
  <2> QED
      BY <1>1, <2>1, <2>2 DEF Moves
<1> QED
    BY <1>3, <1>4, <1>5, <1>6, <1>7 DEF Client

LEMMA PastMoves ==
    ASSUME Types, PastInv, NEW o \in DOMAIN program, Moves(o), DOMAIN program' = DOMAIN program
    PROVE  PastInv'
<1> DEFINE past == {p \in DOMAIN program : Returned(p)}
<1>1. \A p \in DOMAIN program : Returned(p) => Returned(p)'
    BY DEF Moves, Returned
<1>2. IsFiniteSet(Begun')
  <2>1. Begun' \subseteq Begun \cup {o}
      BY DEF Begun, Moves
  <2>2. IsFiniteSet(Begun \cup {o})
      BY FS_AddElement DEF PastInv
  <2> QED
      BY <2>1, <2>2, FS_Subset
<1>3. CASE before' = before
    BY <1>1, <1>2, <1>3 DEF PastInv
<1>4. CASE call[o].pc = "new" /\ before' = [before EXCEPT ![o] = past]
  <2>1. /\ before'[o] = past /\ o \notin past
        /\ \A p \in DOMAIN program : p # o => before'[p] = before[p]
      BY <1>4 DEF PastInv, Moves
  <2>2. before' \in [DOMAIN program -> SUBSET DOMAIN program]
      BY <1>4 DEF PastInv
  <2>3. \A p \in DOMAIN program : before[p] \subseteq past
      BY DEF PastInv
  <2>4. ASSUME NEW p \in DOMAIN program
        PROVE  /\ p \notin before'[p] /\ \A r \in before'[p] : Returned(r)'
               /\ \A r \in DOMAIN program :
                     before'[p] \subseteq before'[r] \/ before'[r] \subseteq before'[p]
      BY <1>1, <2>1, <2>3 DEF PastInv
  <2> QED
      BY <1>2, <2>2, <2>4 DEF PastInv
<1> QED
    BY <1>3, <1>4 DEF Moves

LEMMA CallsToContact ==
    ASSUME Types, NEW o \in DOMAIN program, NEW p \in DOMAIN program, Client(p), program' = program,
           Touched(o) \subseteq Contacted(o)
    PROVE  Touched(o)' \subseteq Contacted(o)'
<1>1. Contacted(o)' = Contacted(o) /\ UNCHANGED <<applied, answered>>
    BY ClientMoves DEF Contacted, N, servers_to_contact
<1>2. Givers(o, Answer)' = Givers(o, Answer)
    BY <1>1 DEF Givers, Writers, IsPut
<1>3. CASE inbox' = inbox
    BY <1>1, <1>2, <1>3 DEF Touched, Asked
<1>4. CASE Send(p)
  <2> DEFINE s == servers_to_contact(p)[call[p].i + 1]
  <2>1. PICK n \in 0..2 : inbox' = Sending(inbox, s, n, p)
      BY <1>4, SendForm
  <2>2. s \in Server /\ s \in Contacted(p)
      BY <1>4, SendForm DEF Contacted
  <2>3. inbox \in Boxes(DOMAIN program) /\ IsFiniteSet(Requests(inbox, o))
      BY DEF Types, RequestsOK, Boxes
  <2> HIDE DEF s
  <2>4. Asked(inbox', o) \subseteq Asked(inbox, o) \cup (IF o = p THEN {s} ELSE {})
      BY <2>1, <2>2, <2>3, CopiesSent
  <2> QED
      BY <1>1, <1>2, <2>2, <2>4 DEF Touched
<1> QED
    BY <1>3, <1>4, ClientMoves

\* The value of a put that begins fits the buffers.
LEMMA StartFits ==
    ASSUME DhtInv, TurnInv, Given, NEW c \in DOMAIN command, InCall(c), IsPut(Call(c)),
           call[Call(c)].pc = "new"
    PROVE  ~ TooLong(program[Call(c)].value)
<1>1. /\ ProgramOK /\ ProcessesOK /\ command[c] \in Command /\ ~ Refused(c)
      /\ ~ TooLong(concatenation[c]) /\ CatJoins(c)
    BY DEF DhtInv, Types, ProcessesOK, TurnInv, InCall
<1>2. at[c] \in 1..LastCall(c) /\ LastCall(c) \in Nat
    BY <1>1, CallsOfProcess
<1>3. /\ program[Call(c)].kind = "put"
      /\ program[Call(c)].kind = CallsOf(command[c])[at[c]].kind
    BY <1>1, <1>2, CallsNamed DEF Call, IsPut
<1>4. CASE command[c].name = "cat"
  <2>1. ~ at[c] < LastCall(c)
      BY <1>1, <1>4, CallsOfProcess
  <2>2. LastCall(c) = Len(command[c].argv) /\ ~ Len(command[c].argv) < 2
      BY <1>1, <1>4, CallsNamed DEF Refused
  <2>3. at[c] = LastCall(c) /\ at[c] > 1
      BY <1>2, <2>1, <2>2
  <2>4. program[<<c, at[c]>>].value = concatenation[c]
      BY <1>1, <1>4, <2>3 DEF CatJoins
  <2> QED
      BY <1>1, <2>4 DEF Call
<1>5. CASE command[c].name # "cat"
  <2>1. program[Call(c)] = CallsOf(command[c])[at[c]]
      BY <1>2, <1>5 DEF Given, Call
  <2>2. CASE command[c].name = "put"
    <3>1. CallsOf(command[c]) = <<PutCall(command[c], command[c].argv[1], command[c].argv[2])>>
        BY <2>2 DEF CallsOf
    <3>2. LastCall(c) = 1
        BY <3>1 DEF LastCall
    <3>3. at[c] = 1
        BY <1>2, <3>2
    <3>4. CallsOf(command[c])[at[c]] = PutCall(command[c], command[c].argv[1], command[c].argv[2])
        BY <3>1, <3>3
    <3>5. program[Call(c)].value = command[c].argv[2]
        BY <2>1, <3>4 DEF PutCall
    <3>6. command[c].argv \in Seq(Key \cup Value) /\ Len(command[c].argv) = 2
        BY <1>1, <2>2 DEF Command
    <3>7. 2 \in DOMAIN command[c].argv
        BY <3>6
    <3> QED
        BY <1>1, <2>2, <3>5, <3>7 DEF Refused
  <2>3. CASE command[c].name = "get"
    <3>1. CallsOf(command[c]) = <<GetCall(command[c], command[c].argv[1])>>
        BY <2>3 DEF CallsOf
    <3>2. LastCall(c) = 1
        BY <3>1 DEF LastCall
    <3>3. at[c] = 1
        BY <1>2, <3>2
    <3>4. CallsOf(command[c])[at[c]].kind = "get"
        BY <3>1, <3>3 DEF GetCall
    <3> QED
        BY <1>3, <3>4
  <2>4. CASE command[c].name \in {"find", "substr"}
    <3>1. CallsOf(command[c]) = [n \in {1, 2} |-> GetCall(command[c], command[c].argv[n])]
        BY <2>4 DEF CallsOf
    <3>2. LastCall(c) = 2
        BY <1>1, <2>4, CallsOfCommand DEF LastCall
    <3>3. at[c] \in {1, 2}
        BY <1>2, <3>2
    <3>4. CallsOf(command[c])[at[c]].kind = "get"
        BY <3>1, <3>3 DEF GetCall
    <3> QED
        BY <1>3, <3>4
  <2> QED
      BY <1>1, <1>5, <2>2, <2>3, <2>4 DEF Command, Names
<1> QED
    BY <1>4, <1>5

LEMMA PastServer ==
    ASSUME DhtInv, CallsPast, NEW s \in Server, Serve(s) \/ Restart(s), UNCHANGED <<program, clientVars>>
    PROVE  CallsPast'
<1>1. Types /\ ServersOK
    BY DEF DhtInv, Types
<1>2. UNCHANGED <<call, before>>
    BY DEF Serve, Restart
<1>3. PastInv' /\ Given' /\ ValuesFit'
    BY <1>2 DEF CallsPast, PastInv, Given, ValuesFit, Begun, Returned, Puts, IsPut, LastCall, clientVars
<1>4. Gets' = Gets /\ Puts' = Puts
    BY DEF Gets, Puts, IsPut
<1>5. \A x \in Server : applied'[x] \subseteq Puts
  <2>1. CASE Serve(s)
    <3>1. PICK j \in 1..Len(inbox[s]), n \in 0..2, x \in Answer : ServedAs(s, j, n, x)
        BY <1>1, <2>1, ServeForm
    <3>2. inbox[s][j] \in DOMAIN program
        BY <1>1 DEF Types, RequestsOK
    <3>3. applied' = applied \/ (inbox[s][j] \in Puts /\ applied' = [applied EXCEPT ![s] = @ \cup {inbox[s][j]}])
        BY <3>1, <3>2 DEF ServedAs, Puts
    <3> QED
        BY <1>1, <3>3 DEF CallsPast, CallPlaces, ServersOK
  <2>2. CASE Restart(s)
      BY <2>2 DEF Restart, CallsPast, CallPlaces
  <2> QED
      BY <2>1, <2>2
<1>6. ASSUME NEW o \in DOMAIN program
      PROVE  /\ Touched(o)' \subseteq Contacted(o)'
             /\ ~ IsPut(o) => answered[o] \subseteq answered'[o]
  <2>1. Steady(o)
    <3>1. CASE Serve(s)
      <4>1. PICK j \in 1..Len(inbox[s]), n \in 0..2, x \in Answer : ServedAs(s, j, n, x)
          BY <1>1, <3>1, ServeForm
      <4> QED
          BY <1>1, <4>1, ServedSteady
    <3>2. CASE Restart(s)
        BY <1>1, <3>2, RestartSteady
    <3> QED
        BY <3>1, <3>2
  <2>2. Contacted(o)' = Contacted(o)
      BY DEF Contacted, N, servers_to_contact
  <2> QED
      BY <2>1, <2>2 DEF Steady, CallsPast, CallPlaces
<1>7. ASSUME NEW g \in Gets, call'[g].pc = "ok", NEW v \in call'[g].value
      PROVE  \E x \in Server : <<x, v>> \in answered'[g]
    BY <1>2, <1>6, <1>7 DEF CallsPast, CallPlaces, Gets
<1> QED
    BY <1>3, <1>4, <1>5, <1>6, <1>7 DEF CallsPast, CallPlaces

LEMMA PastClient ==
    ASSUME DhtInv, TurnInv, ToleranceInv, CallsPast, NEW c \in DOMAIN command, InCall(c)
    PROVE  CallsPast'
<1> DEFINE o == Call(c)
<1>1. /\ Types /\ Client(o) /\ UNCHANGED <<program, clientVars>> /\ ~ Refused(c)
      /\ PastInv /\ Given /\ ValuesFit /\ CallPlaces
    BY DEF DhtInv, InCall, CallsPast
<1>2. o \in DOMAIN program
    BY <1>1, CallsOfProcess DEF Types
<1>3. Gets' = Gets /\ Puts' = Puts /\ DOMAIN program' = DOMAIN program
    BY <1>1 DEF Gets, Puts, IsPut
<1>4. Moves(o) /\ UNCHANGED <<applied, answered>>
    BY <1>1, <1>2, ClientMoves
<1>5. PastInv'
    BY <1>1, <1>2, <1>3, <1>4, PastMoves
<1>6. Given'
    BY <1>1 DEF Given, LastCall, clientVars
<1>7. ValuesFit'
  <2> SUFFICES ASSUME NEW p \in Puts, p \in Begun' PROVE ~ TooLong(program[p].value)
      BY <1>1, <1>3 DEF ValuesFit
  <2>1. CASE p \in Begun
      BY <1>1, <2>1 DEF ValuesFit
  <2>2. CASE p \notin Begun
    <3>1. p = o /\ call[o].pc = "new" /\ IsPut(o)
        BY <1>3, <1>4, <2>2 DEF Begun, Moves, Puts
    <3> QED
        BY <1>1, <3>1, StartFits
  <2> QED
      BY <2>1, <2>2
<1>8. \A p \in DOMAIN program : Touched(p)' \subseteq Contacted(p)'
    BY <1>1, <1>2, CallsToContact DEF CallPlaces
<1>9. ASSUME NEW g \in Gets, call'[g].pc = "ok", NEW v \in call'[g].value
      PROVE  \E x \in Server : <<x, v>> \in answered'[g]
  <2>1. g \in DOMAIN program /\ ~ IsPut(g)
      BY DEF Gets
  <2>2. CASE g # o
      BY <1>1, <1>4, <1>9, <2>1, <2>2 DEF Moves, CallPlaces
  <2>3. CASE g = o
    <3>1. Open(g) /\ \E x \in BagToSet(socket[g]) : call'[g].value = {x[2]}
        BY <1>1, <1>9, <2>1, <2>3, ClientMoves
    <3>2. BagToSet(socket[g]) \subseteq answered[g]
        BY <2>1, <3>1 DEF ToleranceInv, Tolerant, GetTolerant, GetOpen
    <3>3. answered[g] \subseteq Server \X Value
        BY <1>1 DEF Types, ServersOK
    <3>4. PICK x \in answered[g] : v = x[2]
        BY <1>9, <3>1, <3>2
    <3>5. x[1] \in Server /\ x = <<x[1], v>>
        BY <3>3, <3>4
    <3> QED
        BY <1>4, <3>4, <3>5
  <2> QED
      BY <2>2, <2>3
<1> QED
    BY <1>1, <1>3, <1>4, <1>5, <1>6, <1>7, <1>8, <1>9 DEF CallsPast, CallPlaces

\* cat changes the value of a put that has not begun.
LEMMA Concatenated ==
    ASSUME DhtInv, TurnInv, NEW c \in DOMAIN command, Concatenate(c)
    PROVE  /\ SameCalls /\ UNCHANGED <<net, initial, store, inbox, call, applied, answered, before,
                                       restarts, command>>
           /\ command[c].name = "cat" /\ DOMAIN program' = DOMAIN program
           /\ \A o \in DOMAIN program :
                 /\ program'[o].key = program[o].key /\ program'[o].kind = program[o].kind
                 /\ o \in Begun \/ o[1] # c => program'[o] = program[o]
<1> DEFINE put == <<c, LastCall(c)>>
<1>1. SameCalls
    BY ConcatenateKeeps
<1>2. /\ UNCHANGED <<net, initial, store, inbox, call, applied, answered, before, restarts, command>>
      /\ command[c].name = "cat" /\ at[c] < LastCall(c)
      /\ \/ program' = program
         \/ at[c] + 1 = LastCall(c) /\ \E v : program' = [program EXCEPT ![put].value = v]
    BY DEF Concatenate, chosen, history
<1>3. at[c] + 1 = LastCall(c) => call[put].pc = "new" /\ put \in DOMAIN program
  <2>1. ProgramOK /\ ProcessesOK /\ InTurn(c)
      BY DEF DhtInv, Types, TurnInv
  <2>2. LastCall(c) \in Nat /\ at[c] \in 1..LastCall(c)
      BY <1>2, <2>1, CallsOfProcess DEF ProcessesOK
  <2>3. LastCall(c) \in 1..LastCall(c) /\ LastCall(c) > at[c]
      BY <1>2, <2>2
  <2> QED
      BY <2>1, <2>3, CallsNamed DEF InTurn
<1>4. put[1] = c
    OBVIOUS
<1>5. \A o \in DOMAIN program : program[o] \in Calls
    BY DEF DhtInv, Types, ProgramOK
<1> HIDE DEF put
<1>6. ASSUME NEW o \in DOMAIN program
      PROVE  /\ program'[o].key = program[o].key /\ program'[o].kind = program[o].kind
             /\ o \in Begun \/ o[1] # c => program'[o] = program[o]
  <2>1. CASE program' = program
      BY <2>1
  <2>2. CASE at[c] + 1 = LastCall(c) /\ \E v : program' = [program EXCEPT ![put].value = v]
    <3>1. PICK v : program' = [program EXCEPT ![put].value = v]
        BY <2>2
    <3>2. o # put => program'[o] = program[o]
        BY <3>1
    <3>3. o = put => program'[o] = [program[o] EXCEPT !.value = v]
        BY <3>1
    <3>4. o = put => program'[o].key = program[o].key /\ program'[o].kind = program[o].kind
        BY <1>5, <3>3 DEF Calls
    <3> QED
        BY <1>3, <1>4, <2>2, <3>2, <3>4 DEF Begun
  <2> QED
      BY <1>2, <2>1, <2>2
<1> QED
    BY <1>1, <1>2, <1>6 DEF SameCalls

LEMMA PastConcatenate ==
    ASSUME DhtInv, TurnInv, CallsPast, NEW c \in DOMAIN command, Concatenate(c)
    PROVE  CallsPast'
<1>1. /\ SameCalls /\ UNCHANGED <<inbox, call, applied, answered, before, command>>
      /\ command[c].name = "cat" /\ DOMAIN program' = DOMAIN program
      /\ \A o \in DOMAIN program : o \in Begun \/ o[1] # c => program'[o] = program[o]
    BY Concatenated
<1>2. /\ Gets' = Gets /\ Puts' = Puts /\ Begun' = Begun
      /\ \A o \in DOMAIN program : N(o)' = N(o) /\ (IsPut(o)' <=> IsPut(o))
    BY <1>1, SameNeeds DEF Begun, SameCalls
<1>3. PastInv'
    BY <1>1, <1>2 DEF CallsPast, PastInv, Returned
<1>4. Given'
  <2> SUFFICES ASSUME NEW d \in DOMAIN command, command[d].name # "cat", NEW n \in 1..LastCall(d)
               PROVE  program'[<<d, n>>] = CallsOf(command[d])[n]
      BY <1>1 DEF Given, LastCall
  <2>1. <<d, n>> \in DOMAIN program
      BY CallsNamed DEF DhtInv, Types
  <2>2. <<d, n>>[1] # c
      BY <1>1
  <2> QED
      BY <1>1, <2>1, <2>2 DEF CallsPast, Given
<1>5. ValuesFit'
    BY <1>1, <1>2 DEF CallsPast, ValuesFit, Puts
<1>6. CallPlaces'
  <2>1. ASSUME NEW o \in DOMAIN program PROVE Touched(o)' \subseteq Contacted(o)'
    <3>1. Contacted(o)' = Contacted(o)
        BY <1>1, <1>2 DEF Contacted, SameCalls
    <3>2. Touched(o)' = Touched(o)
        BY <1>1, <1>2 DEF Touched, Givers, Writers, Asked
    <3> QED
        BY <3>1, <3>2 DEF CallsPast, CallPlaces
  <2> QED
      BY <1>1, <1>2, <2>1 DEF CallsPast, CallPlaces
<1> QED
    BY <1>3, <1>4, <1>5, <1>6 DEF CallsPast

LEMMA PastQuiet ==
    ASSUME CallsPast, UNCHANGED <<vars, command>> PROVE CallsPast'
<1>1. /\ UNCHANGED <<program, inbox, call, applied, answered, before, command>>
      /\ Gets' = Gets /\ Puts' = Puts /\ Begun' = Begun
    BY DEF vars, history, Gets, Puts, IsPut, Begun
<1>2. PastInv' /\ Given' /\ ValuesFit'
    BY <1>1 DEF CallsPast, PastInv, Given, ValuesFit, Returned, LastCall
<1>3. \A o \in DOMAIN program : Touched(o)' = Touched(o) /\ Contacted(o)' = Contacted(o)
    BY <1>1 DEF Touched, Givers, Writers, Asked, IsPut, Contacted, N, servers_to_contact
<1> QED
    BY <1>1, <1>2, <1>3 DEF CallsPast, CallPlaces

LEMMA PastNext ==
    ASSUME DhtInv, TurnInv, ToleranceInv, CallsPast, [NextClients]_allVars
    PROVE  CallsPast'
<1>1. CASE Servers
  <2>1. UNCHANGED <<program, clientVars>> /\ \E s \in Server : Serve(s) \/ Restart(s)
      BY <1>1 DEF Servers, chosen
  <2> QED
      BY <2>1, PastServer
<1>2. ASSUME NEW c \in DOMAIN command, Step(c) PROVE CallsPast'
  <2>1. CASE InCall(c)
      BY <2>1, PastClient
  <2>2. CASE Concatenate(c)
      BY <2>2, PastConcatenate
  <2>3. CASE Refuse(c) \/ CallFails(c) \/ SecondKey(c) \/ Finish(c)
      BY <2>3, PastQuiet DEF Refuse, CallFails, SecondKey, Finish
  <2> QED
      BY <1>2, <2>1, <2>2, <2>3 DEF Step
<1>3. CASE UNCHANGED allVars
    BY <1>3, PastQuiet DEF allVars, clientVars
<1> QED
    BY <1>1, <1>2, <1>3 DEF NextClients

----------------------------------------------------------------------------

(***************************************************************************)
(* What servers have, if they are orderly.                                 *)
(***************************************************************************)
Reads == {g \in Gets : RequestKind(g) = "read"}

\* The puts to key k that server s has performed.
PutsTo(s, k) == {q \in applied[s] : program[q].key = k}

\* What a get of key k would be told by server s.
Found(s, k) == {Received[v] : v \in Store!get_Htable_value(store[s], k)}

\* Answer a to a get of key k is the value of a put of P that is not past for the
\* puts of Q.
Source(P, k, a, Q) ==
    \/ \E p \in P : /\ program[p].key \in Mixed(k) /\ program[p].value = a
                    /\ \A q \in Q : p \notin before[q]
    \/ Q = {} /\ a \in InitialAnswers(k)

\* The puts that server s has performed, but for those that get g was past for.
Sooner(s, g) == {p \in applied[s] : g \notin before[p]}

\* The calls that server s has answered.
Dealt(s) == applied[s] \cup {g \in Reads : \E a \in Value : <<s, a>> \in answered[g]}

\* A request that waits is not past for those before it.
ServedInOrder ==
    \A s \in Server : \A j \in 1..Len(inbox[s]) :
        /\ \A i \in 1..(j - 1) : inbox[s][j] \notin before[inbox[s][i]]
        /\ \A o \in Dealt(s) : inbox[s][j] \notin before[o]

StoredFresh ==
    \A s \in Server : \A k \in Key : \A a \in Found(s, k) :
        Source(applied[s], k, a, PutsTo(s, k))

AnsweredFresh ==
    \A g \in Reads : \A s \in Server : \A a \in Value : <<s, a>> \in answered[g] =>
        Source(Sooner(s, g), program[g].key, a, PutsTo(s, program[g].key) \cap before[g])

\* A key that has been written stays in the table.
WrittenKept ==
    \A s \in Server : \A q \in applied[s] : Found(s, program[q].key) # {}

\* Server s has performed no put since get g was sent that can change its answer.
Untouched(s, g) ==
    \A p \in applied[s] : program[p].key \in Mixed(program[g].key) => p \in before[g]

StillFound ==
    \A g \in Reads : \A s \in Server : \A a \in Value :
        <<s, a>> \in answered[g] /\ Untouched(s, g) => Found(s, program[g].key) = {a}

Agreed ==
    \A g, h \in Reads :
        program[g].key = program[h].key /\ g \in before[h] /\ Undisturbed(g, h) =>
            \A s \in Server : \A a, b \in Value :
                <<s, a>> \in answered[g] /\ <<s, b>> \in answered[h] => a = b

Fresh == StoredFresh /\ AnsweredFresh /\ WrittenKept /\ StillFound /\ Agreed

OrderInv == CallsPast /\ restarts \in Nat /\ (Orderly => ServedInOrder /\ Fresh)

----------------------------------------------------------------------------

LEMMA StoreReads ==
    ASSUME NEW t \in Store!Table, NEW k \in Key, NEW v \in Value, NEW r \in Key
    PROVE  LET u == Store!add_Htable_value(t, k, v)
           IN  /\ Store!get_Htable_value(u, k) = {v}
               /\ \/ Store!get_Htable_value(u, r) = Store!get_Htable_value(t, r)
                  \/ Store!Related(k, r) /\ Store!get_Htable_value(u, r) = {v}
<1>1. StoreLemmas!BucketsAssumption
    BY DhtAssumption DEF Store!BucketsAssumption, StoreLemmas!BucketsAssumption
<1>2. StoreLemmas!Table = Store!Table
    BY DEF StoreLemmas!Table, Store!Table, StoreLemmas!kv_pair_t, Store!kv_pair_t
<1>3. ASSUME NEW x, NEW y, NEW z
      PROVE  /\ StoreLemmas!add_Htable_value(x, y, z) = Store!add_Htable_value(x, y, z)
             /\ StoreLemmas!get_Htable_value(x, y) = Store!get_Htable_value(x, y)
             /\ StoreLemmas!Related(x, y) <=> Store!Related(x, y)
    BY DEF StoreLemmas!add_Htable_value, Store!add_Htable_value, StoreLemmas!get_Htable_value,
           Store!get_Htable_value, StoreLemmas!FirstMatch, Store!FirstMatch,
           StoreLemmas!Matches, Store!Matches, StoreLemmas!kv_pair, Store!kv_pair,
           StoreLemmas!Related, Store!Related
<1>4. t \in StoreLemmas!Table
    BY <1>2
<1>5. LET u == StoreLemmas!add_Htable_value(t, k, v)
      IN  /\ StoreLemmas!get_Htable_value(u, k) = {v}
          /\ \/ StoreLemmas!get_Htable_value(u, r) = StoreLemmas!get_Htable_value(t, r)
             \/ StoreLemmas!Related(k, r) /\ StoreLemmas!get_Htable_value(u, r) = {v}
    BY <1>1, <1>4, StoreLemmas!AddRead
<1> QED
    BY <1>3, <1>5

\* A get finds one value or none.
LEMMA OneFound ==
    ASSUME NEW t \in Store!Table, NEW k \in Key, NEW v \in Store!get_Htable_value(t, k)
    PROVE  Store!get_Htable_value(t, k) = {v}
<1>1. StoreLemmas!BucketsAssumption
    BY DhtAssumption DEF Store!BucketsAssumption, StoreLemmas!BucketsAssumption
<1>2. StoreLemmas!Table = Store!Table
    BY DEF StoreLemmas!Table, Store!Table, StoreLemmas!kv_pair_t, Store!kv_pair_t
<1>3. StoreLemmas!get_Htable_value(t, k) = Store!get_Htable_value(t, k)
    BY DEF StoreLemmas!get_Htable_value, Store!get_Htable_value, StoreLemmas!FirstMatch,
           Store!FirstMatch, StoreLemmas!Matches, Store!Matches
<1>4. t \in StoreLemmas!Table /\ StoreLemmas!get_Htable_value(t, k) # {}
    BY <1>2, <1>3
<1>5. PICK c : StoreLemmas!get_Htable_value(t, k) = {c}
    BY <1>1, <1>4, StoreLemmas!FoundOne
<1> QED
    BY <1>3, <1>5

\* Only calls that have begun are known to a server.
LEMMA OnlyBegun ==
    ASSUME DhtInv, CallPlaces
    PROVE  /\ \A s \in Server : applied[s] \subseteq Begun /\ Dealt(s) \subseteq Begun
           /\ \A g \in Gets : \A x \in answered[g] : g \in Begun
           /\ \A s \in Server : \A j \in 1..Len(inbox[s]) : inbox[s][j] \in Begun
<1>1. \A o \in DOMAIN program : call[o].pc = "new" => Givers(o, Answer) = {} /\ Asked(inbox, o) = {}
    BY DEF DhtInv, CallInv, SentOnce, Touched
<1>2. ServersOK /\ RequestsOK
    BY DEF DhtInv, Types
<1>3. ASSUME NEW s \in Server, NEW p \in applied[s] PROVE p \in Begun
  <2>1. p \in DOMAIN program /\ IsPut(p)
      BY DEF CallPlaces, Puts
  <2>2. s \in Givers(p, Answer)
      BY <2>1 DEF Givers, Writers
  <2> QED
      BY <1>1, <2>1, <2>2 DEF Begun
<1>4. ASSUME NEW g \in Gets, NEW x \in answered[g] PROVE g \in Begun
  <2>1. g \in DOMAIN program /\ ~ IsPut(g) /\ x \in Server \X Value
      BY <1>2 DEF Gets, ServersOK
  <2>2. x[1] \in Server /\ x[2] \in Answer /\ <<x[1], x[2]>> \in answered[g]
      BY <2>1 DEF Answer
  <2>3. x[1] \in Givers(g, Answer)
      BY <2>1, <2>2 DEF Givers
  <2> QED
      BY <1>1, <2>1, <2>3 DEF Begun
<1>5. ASSUME NEW s \in Server, NEW j \in 1..Len(inbox[s]) PROVE inbox[s][j] \in Begun
  <2>1. inbox[s][j] \in DOMAIN program
      BY <1>2 DEF RequestsOK
  <2>2. s \in Asked(inbox, inbox[s][j])
      BY DEF Asked
  <2> QED
      BY <1>1, <2>1, <2>2 DEF Begun
<1>6. \A s \in Server : Dealt(s) \subseteq Begun
    BY <1>3, <1>4 DEF Dealt, Reads
<1> QED
    BY <1>3, <1>4, <1>5, <1>6

LEMMA OrderInit ==
    ASSUME InitClients PROVE OrderInv
<1>1. CallsPast
    BY PastInit
<1>2. /\ store = [s \in Server |-> initial] /\ inbox = [s \in Server |-> <<>>]
      /\ applied = [s \in Server |-> {}] /\ answered = [o \in Gets |-> {}]
    BY DEF InitClients, Init
<1>3. ServedInOrder
    BY <1>2 DEF ServedInOrder
<1>4. StoredFresh
  <2>1. \A s \in Server : \A k \in Key : Found(s, k) = InitialAnswers(k) /\ PutsTo(s, k) = {}
      BY <1>2 DEF Found, InitialAnswers, PutsTo
  <2> QED
      BY <2>1 DEF StoredFresh, Source
<1>5. \A g \in Reads : answered[g] = {}
    BY <1>2 DEF Reads
<1>6. restarts \in Nat
    BY DEF InitClients, Init
<1> QED
    BY <1>1, <1>2, <1>3, <1>4, <1>5, <1>6
       DEF OrderInv, Fresh, AnsweredFresh, WrittenKept, StillFound, Agreed

----------------------------------------------------------------------------

(***************************************************************************)
(* The steps of the processes: the servers stay as they are, and so does   *)
(* what is past for the calls they know.                                   *)
(***************************************************************************)
ServersStay ==
    /\ UNCHANGED <<net, initial, store, applied, answered>> /\ DOMAIN program' = DOMAIN program
    /\ \A o \in DOMAIN program :
          /\ program'[o].key = program[o].key /\ program'[o].kind = program[o].kind
          /\ o \in Begun => program'[o] = program[o] /\ before'[o] = before[o] /\ o \in Begun'

LEMMA SameKinds ==
    ASSUME ServersStay
    PROVE  /\ Puts' = Puts /\ Gets' = Gets /\ Reads' = Reads
           /\ \A k : Mixed(k)' = Mixed(k) /\ PutsMixed(k)' = PutsMixed(k)
                     /\ InitialAnswers(k)' = InitialAnswers(k)
           /\ \A s, k : Found(s, k)' = Found(s, k)
<1>1. Puts' = Puts /\ Gets' = Gets
    BY DEF ServersStay, Puts, Gets, IsPut
<1>2. \A g \in Gets : RequestKind(g)' = RequestKind(g)
    BY DEF ServersStay, Gets, IsPut, RequestKind
<1>3. Reads' = Reads
    BY <1>1, <1>2 DEF Reads
<1>4. \A k : Mixed(k)' = Mixed(k) /\ InitialAnswers(k)' = InitialAnswers(k)
    BY DEF ServersStay, Mixed, InitialAnswers
<1>5. \A k : PutsMixed(k)' = PutsMixed(k)
    BY <1>1, <1>4 DEF ServersStay, PutsMixed, Puts
<1>6. \A s, k : Found(s, k)' = Found(s, k)
    BY DEF ServersStay, Found
<1> QED
    BY <1>1, <1>3, <1>4, <1>5, <1>6

LEMMA FreshStays ==
    ASSUME DhtInv, CallPlaces, ServersStay, Fresh
    PROVE  Fresh'
<1>1. /\ \A s \in Server : applied[s] \subseteq Begun /\ applied[s] \subseteq Puts
      /\ \A g \in Gets : \A x \in answered[g] : g \in Begun
    BY OnlyBegun DEF CallPlaces
<1>2. UNCHANGED <<initial, store, applied, answered>> /\ Reads' = Reads /\ Reads \subseteq Gets
    BY SameKinds DEF ServersStay, Reads
<1>3. /\ Puts \subseteq DOMAIN program /\ Gets \subseteq DOMAIN program
      /\ \A o \in DOMAIN program : program'[o].key = program[o].key
      /\ \A o \in Begun : program'[o] = program[o] /\ before'[o] = before[o]
      /\ Begun \subseteq DOMAIN program
    BY DEF ServersStay, Puts, Gets, Begun
<1>4. ASSUME NEW s \in Server, NEW k
      PROVE  PutsTo(s, k)' = PutsTo(s, k) /\ PutsTo(s, k) \subseteq Begun
    BY <1>1, <1>2, <1>3 DEF PutsTo
<1>5. ASSUME NEW P \in SUBSET Begun, NEW k, NEW a, NEW Q \in SUBSET Begun, Source(P, k, a, Q)
      PROVE  Source(P, k, a, Q)'
  <2>1. Mixed(k)' = Mixed(k) /\ InitialAnswers(k)' = InitialAnswers(k)
      BY SameKinds
  <2>2. \A p \in P : program'[p] = program[p]
      BY <1>3
  <2>3. \A q \in Q : before'[q] = before[q]
      BY <1>3
  <2> QED
      BY <1>5, <2>1, <2>2, <2>3 DEF Source
<1>6. ASSUME NEW g \in Reads, NEW x \in answered[g]
      PROVE  /\ program'[g].key = program[g].key /\ before'[g] = before[g] /\ g \in Begun
    BY <1>1, <1>2, <1>3
<1>7. StoredFresh'
  <2> SUFFICES ASSUME NEW s \in Server, NEW k \in Key, NEW a \in Found(s, k)'
               PROVE  Source(applied[s], k, a, PutsTo(s, k))'
      BY DEF StoredFresh
  <2>1. PICK P \in SUBSET Begun, Q \in SUBSET Begun : P = applied[s] /\ Q = PutsTo(s, k)
      BY <1>1, <1>4
  <2>2. a \in Found(s, k)
      BY SameKinds
  <2>3. Source(P, k, a, Q)
      BY <2>1, <2>2 DEF Fresh, StoredFresh
  <2>4. Source(P, k, a, Q)'
      BY <1>5, <2>3
  <2> QED
      BY <1>2, <1>4, <2>1, <2>4 DEF Source
<1>8. AnsweredFresh'
  <2> SUFFICES ASSUME NEW g \in Reads, NEW s \in Server, NEW a \in Value, <<s, a>> \in answered[g]
               PROVE  Source(Sooner(s, g), program[g].key, a,
                             PutsTo(s, program[g].key) \cap before[g])'
      BY <1>2 DEF AnsweredFresh
  <2>1. PICK k : k = program[g].key
      OBVIOUS
  <2>2. program'[g].key = k /\ before'[g] = before[g]
      BY <1>6, <2>1
  <2>3. PutsTo(s, k)' = PutsTo(s, k) /\ PutsTo(s, k) \subseteq Begun
      BY <1>4
  <2>4. PutsTo(s, program[g].key)' = PutsTo(s, k)
      BY <2>2, <2>3 DEF PutsTo
  <2>5. PICK P \in SUBSET Begun, Q \in SUBSET Begun :
           P = Sooner(s, g) /\ Q = PutsTo(s, k) \cap before[g]
      BY <1>1, <2>3 DEF Sooner
  <2>6. Source(P, k, a, Q)
      BY <2>1, <2>5 DEF Fresh, AnsweredFresh
  <2>7. Source(P, k, a, Q)'
      BY <1>5, <2>6
  <2>8. Sooner(s, g)' = P
      BY <1>1, <1>2, <1>3, <2>5 DEF Sooner
  <2> QED
      BY <2>2, <2>4, <2>5, <2>7, <2>8 DEF Source
<1>9. StillFound'
  <2> SUFFICES ASSUME NEW g \in Reads, NEW s \in Server, NEW a \in Value, <<s, a>> \in answered[g],
                      Untouched(s, g)'
               PROVE  (Found(s, program[g].key) = {a})'
      BY <1>2 DEF StillFound
  <2>1. program'[g].key = program[g].key /\ before'[g] = before[g]
      BY <1>6
  <2>2. Mixed(program[g].key)' = Mixed(program[g].key)
      BY <2>1 DEF Mixed
  <2>3. Untouched(s, g)
      BY <1>1, <1>2, <1>3, <2>1, <2>2 DEF Untouched
  <2>4. Found(s, program[g].key) = {a}
      BY <2>3 DEF Fresh, StillFound
  <2> QED
      BY <2>1, <2>4 DEF Found, ServersStay
<1>10. Agreed'
  <2> SUFFICES ASSUME NEW g \in Reads, NEW h \in Reads, program'[g].key = program'[h].key,
                      g \in before'[h], Undisturbed(g, h)',
                      NEW s \in Server, NEW a \in Value, NEW b \in Value,
                      <<s, a>> \in answered[g], <<s, b>> \in answered[h]
               PROVE  a = b
      BY <1>2 DEF Agreed
  <2>1. /\ program'[g].key = program[g].key /\ before'[g] = before[g]
        /\ program'[h].key = program[h].key /\ before'[h] = before[h]
      BY <1>6
  <2>2. PutsMixed(program[g].key)' = PutsMixed(program[g].key)
    <3>1. Mixed(program[g].key)' = Mixed(program[g].key) /\ Puts' = Puts
        BY <2>1, SameKinds DEF Mixed
    <3>2. \A p \in Puts : program'[p].key = program[p].key
        BY <1>3
    <3> QED
        BY <3>1, <3>2 DEF PutsMixed
  <2>3. ASSUME NEW p \in PutsMixed(program[g].key)
        PROVE  p \in before[g] \/ h \in before[p] \/ call[p].pc = "new"
    <3>1. p \in before[g] \/ h \in before'[p] \/ call'[p].pc = "new"
        BY <2>1, <2>2 DEF Undisturbed
    <3>2. p \in DOMAIN program
        BY <1>3 DEF PutsMixed
    <3>3. CASE p \in Begun
      <4>1. before'[p] = before[p] /\ call'[p].pc # "new"
          BY <3>2, <3>3 DEF ServersStay, Begun
      <4> QED
          BY <3>1, <4>1
    <3>4. CASE p \notin Begun
        BY <3>2, <3>4 DEF Begun
    <3> QED
        BY <3>3, <3>4
  <2>4. Undisturbed(g, h)
      BY <2>3 DEF Undisturbed
  <2> QED
      BY <2>1, <2>4 DEF Fresh, Agreed
<1>11. WrittenKept'
    BY <1>1, <1>2, <1>3, SameKinds DEF Fresh, WrittenKept
<1> QED
    BY <1>7, <1>8, <1>9, <1>10, <1>11 DEF Fresh

\* What servers have been sent stays in order when nothing is sent.
LEMMA OrderStays ==
    ASSUME DhtInv, CallPlaces, ServersStay, ServedInOrder, inbox' = inbox
    PROVE  ServedInOrder'
<1>1. \A s \in Server : Dealt(s)' = Dealt(s)
    BY SameKinds DEF Dealt, ServersStay
<1>2. \A o \in Begun : before'[o] = before[o]
    BY DEF ServersStay, Begun
<1>3. \A s \in Server : /\ Dealt(s) \subseteq Begun
                        /\ \A j \in 1..Len(inbox[s]) : inbox[s][j] \in Begun
    BY OnlyBegun
<1> SUFFICES ASSUME NEW s \in Server, NEW j \in 1..Len(inbox[s])
             PROVE  /\ \A i \in 1..(j - 1) : inbox[s][j] \notin before'[inbox[s][i]]
                    /\ \A o \in Dealt(s) : inbox[s][j] \notin before'[o]
    BY <1>1 DEF ServedInOrder
<1>4. ASSUME NEW i \in 1..(j - 1) PROVE inbox[s][j] \notin before'[inbox[s][i]]
  <2>1. i \in 1..Len(inbox[s])
      BY DEF DhtInv, Types, RequestsOK
  <2>2. before'[inbox[s][i]] = before[inbox[s][i]]
      BY <1>2, <1>3, <2>1
  <2> QED
      BY <2>2 DEF ServedInOrder
<1>5. ASSUME NEW o \in Dealt(s) PROVE inbox[s][j] \notin before'[o]
    BY <1>2, <1>3 DEF ServedInOrder
<1> QED
    BY <1>4, <1>5

\* What is sent comes behind what waits.
LEMMA SentBehind ==
    ASSUME NEW S, NEW old \in Seq(S), NEW new \in Seq(S)
    PROVE  /\ old \o new \in Seq(S) /\ Len(old \o new) = Len(old) + Len(new)
           /\ \A m \in 1..Len(old) : (old \o new)[m] = old[m] /\ old[m] \in S
           /\ \A m \in 1..(Len(old) + Len(new)) :
                 m > Len(old) => /\ m - Len(old) \in 1..Len(new)
                                 /\ (old \o new)[m] = new[m - Len(old)]
    OBVIOUS

\* A call that is open is not past for any other.
LEMMA SentInOrder ==
    ASSUME DhtInv, CallsPast, ServersStay, ServedInOrder, NEW p \in DOMAIN program, Send(p)
    PROVE  ServedInOrder'
<1> DEFINE t == servers_to_contact(p)[call[p].i + 1]
<1>1. t \in Server /\ call[p].pc = "send" /\ before' = before
    BY SendForm DEF DhtInv, Types, Send
<1>2. PICK n \in 0..2 : inbox' = Sending(inbox, t, n, p)
    BY SendForm DEF DhtInv
<1> HIDE DEF t
<1>3. \A s \in Server : Dealt(s)' = Dealt(s)
    BY SameKinds DEF Dealt, ServersStay
<1>4. \A o \in DOMAIN program : p \notin before[o]
    BY <1>1 DEF CallsPast, PastInv, Returned
<1>5. inbox \in [Server -> Seq(DOMAIN program)]
    BY DEF DhtInv, Types, RequestsOK
<1>6. \A s \in Server : Dealt(s) \subseteq DOMAIN program
    BY OnlyBegun DEF CallsPast, Begun
<1> SUFFICES ASSUME NEW s \in Server, NEW j \in 1..Len(inbox'[s])
             PROVE  /\ \A i \in 1..(j - 1) : inbox'[s][j] \notin before[inbox'[s][i]]
                    /\ \A o \in Dealt(s) : inbox'[s][j] \notin before[o]
    BY <1>1, <1>3 DEF ServedInOrder
<1>7. CASE s # t
  <2>1. inbox'[s] = inbox[s]
      BY <1>2, <1>5, <1>7 DEF Sending
  <2> QED
      BY <2>1 DEF ServedInOrder
<1>8. CASE s = t
  <2> DEFINE copies == [m \in 1..n |-> p]
             L == Len(inbox[s])
  <2>1. inbox'[s] = inbox[s] \o copies
      BY <1>2, <1>5, <1>8 DEF Sending
  <2>2. /\ copies \in Seq(DOMAIN program) /\ Len(copies) = n
        /\ \A m \in 1..n : copies[m] = p
      OBVIOUS
  <2>3. inbox[s] \in Seq(DOMAIN program) /\ L \in Nat
      BY <1>5
  <2> HIDE DEF copies
  <2>4. /\ Len(inbox'[s]) = L + n
        /\ \A m \in 1..L : inbox'[s][m] = inbox[s][m] /\ inbox[s][m] \in DOMAIN program
        /\ \A m \in 1..(L + n) : m > L => inbox'[s][m] = p
    <3> HIDE DEF L
    <3> DEFINE old == inbox[s]
    <3>1. inbox'[s] = old \o copies /\ L = Len(old) /\ old \in Seq(DOMAIN program)
        BY <2>1, <2>3 DEF L
    <3> HIDE DEF old
    <3>2. /\ Len(old \o copies) = L + n
          /\ \A m \in 1..L : (old \o copies)[m] = old[m] /\ old[m] \in DOMAIN program
          /\ \A m \in 1..(L + n) :
                m > L => m - L \in 1..n /\ (old \o copies)[m] = copies[m - L]
        BY <2>2, <3>1, SentBehind, Zenon
    <3> QED
        BY <2>2, <3>1, <3>2, Zenon DEF old
  <2> HIDE DEF L
  <2>5. CASE j <= L
    <3>1. j \in 1..L /\ \A i \in 1..(j - 1) : i \in 1..L
        BY <2>3, <2>5
    <3>2. inbox'[s][j] = inbox[s][j] /\ \A i \in 1..(j - 1) : inbox'[s][i] = inbox[s][i]
        BY <2>4, <3>1
    <3> QED
        BY <3>1, <3>2 DEF ServedInOrder, L
  <2>6. CASE j > L
    <3>1. inbox'[s][j] = p
        BY <2>3, <2>4, <2>6
    <3>2. ASSUME NEW i \in 1..(j - 1) PROVE inbox'[s][i] \in DOMAIN program
      <4>1. i \in 1..(L + n)
          BY <2>3, <2>4
      <4> QED
          BY <2>3, <2>4, <4>1
    <3> QED
        BY <1>4, <1>6, <3>1, <3>2
  <2> QED
      BY <2>3, <2>5, <2>6
<1> QED
    BY <1>7, <1>8

----------------------------------------------------------------------------

(***************************************************************************)
(* What server s does with request o: it performs a write, it tells what   *)
(* it has stored, or neither.                                              *)
(***************************************************************************)
Performed(o, s) ==
    /\ o \in Puts /\ answered' = answered
    /\ applied' = [applied EXCEPT ![s] = @ \cup {o}]
    /\ \E v \in StoredAs[<<program[o].key, program[o].value>>] :
          store' = [store EXCEPT ![s] = Store!add_Htable_value(@, program[o].key, v)]

Told(o, s) ==
    /\ o \in Reads /\ Open(o) /\ UNCHANGED <<store, applied>>
    /\ \E v \in Store!get_Htable_value(store[s], program[o].key) :
          answered' = [answered EXCEPT ![o] = @ \cup {<<s, Received[v]>>}]

Aside ==
    /\ UNCHANGED <<store, applied>>
    /\ \A g \in Reads : answered'[g] = answered[g]

LEMMA ServeEffect ==
    ASSUME Types, NEW s \in Server, Serve(s)
    PROVE  \E j \in 1..Len(inbox[s]) :
              /\ net.ordered => j = 1
              /\ inbox' = Without(inbox, s, j) /\ UNCHANGED <<call, before, restarts>>
              /\ Performed(inbox[s][j], s) \/ Told(inbox[s][j], s) \/ Aside
<1>1. PICK j \in 1..Len(inbox[s]) :
         /\ net.ordered => j = 1
         /\ inbox' = Without(inbox, s, j)
         /\ LET o == inbox[s][j]
            IN  Ping(o, s) \/ DumpNode(o, s) \/ Write(o, s) \/ Read(o, s) \/ NoMemory(o, s)
    BY DEF Serve, Without
<1>2. UNCHANGED <<call, before, restarts>>
    BY DEF Serve
<1>3. PICK o \in DOMAIN program : o = inbox[s][j]
    BY DEF Types, RequestsOK
<1>4. DOMAIN answered = Gets
    BY DEF Types, ServersOK
<1>5. ASSUME NEW a, Reply(o, s, a)
      PROVE  \/ answered' = answered
             \/ /\ o \in Gets /\ Open(o)
                /\ answered' = [answered EXCEPT ![o] = @ \cup {<<s, Received[a]>>}]
    BY <1>5 DEF Reply
<1>6. ASSUME UNCHANGED <<store, applied>>, answered' = answered PROVE Aside
    BY <1>6 DEF Aside
<1>7. CASE Ping(o, s)
  <2>1. UNCHANGED <<store, applied>> /\ RequestKind(o) = "ping" /\ Reply(o, s, Empty)
      BY <1>7 DEF Ping
  <2>2. \A g \in Reads : answered'[g] = answered[g]
      BY <1>4, <1>5, <2>1 DEF Reads
  <2> QED
      BY <1>1, <1>2, <1>3, <2>1, <2>2 DEF Aside
<1>8. CASE DumpNode(o, s)
  <2>1. UNCHANGED <<store, applied>> /\ o \notin Gets
      BY <1>8, Kinds DEF DumpNode
  <2>2. answered' = answered
      BY <1>5, <1>8, <2>1 DEF DumpNode, Silence
  <2> QED
      BY <1>1, <1>2, <1>3, <1>6, <2>1, <2>2
<1>9. CASE Write(o, s)
  <2>1. o \in Puts /\ o \notin Gets
      BY <1>9, Kinds DEF Write
  <2>2. answered' = answered
      BY <1>5, <1>9, <2>1 DEF Write
  <2>3. Performed(o, s)
      BY <1>9, <2>1, <2>2 DEF Write, Performed
  <2> QED
      BY <1>1, <1>2, <1>3, <2>3
<1>10. CASE Read(o, s)
  <2> DEFINE found == Store!get_Htable_value(store[s], program[o].key)
  <2>1. /\ UNCHANGED <<store, applied>> /\ o \in Reads
        /\ IF found = {} THEN Silence ELSE \E v \in found : Reply(o, s, v)
      BY <1>10, Kinds DEF Read, Reads
  <2>2. answered' = answered \/ Told(o, s)
      BY <1>5, <2>1 DEF Silence, Told
  <2> QED
      BY <1>1, <1>2, <1>3, <1>6, <2>1, <2>2
<1>11. CASE NoMemory(o, s)
    BY <1>1, <1>2, <1>3, <1>6, <1>11 DEF NoMemory
<1> QED
    BY <1>1, <1>3, <1>7, <1>8, <1>9, <1>10, <1>11

\* The oldest request of s is handled, and nothing that waits is past for it.
LEMMA ServedStaysInOrder ==
    ASSUME Types, ServedInOrder, NEW s \in Server, 1 \in 1..Len(inbox[s]),
           inbox' = Without(inbox, s, 1), before' = before,
           \A x \in Server : \A o \in Dealt(x)' : o \in Dealt(x) \/ (x = s /\ o = inbox[s][1])
    PROVE  ServedInOrder'
<1>1. inbox \in [Server -> Seq(DOMAIN program)]
    BY DEF Types, RequestsOK
<1> SUFFICES ASSUME NEW x \in Server, NEW j \in 1..Len(inbox'[x])
             PROVE  /\ \A i \in 1..(j - 1) : inbox'[x][j] \notin before[inbox'[x][i]]
                    /\ \A o \in Dealt(x)' : inbox'[x][j] \notin before[o]
    BY DEF ServedInOrder
<1>2. CASE x # s
  <2>1. inbox'[x] = inbox[x]
      BY <1>1, <1>2 DEF Without
  <2> QED
      BY <1>2, <2>1 DEF ServedInOrder
<1>3. CASE x = s
  <2>1. inbox'[s] = RemoveAt(inbox[s], 1) /\ inbox[s] \in Seq(DOMAIN program)
      BY <1>1 DEF Without
  <2>2. /\ Len(inbox'[s]) = Len(inbox[s]) - 1 /\ Len(inbox[s]) \in Nat
        /\ \A m \in 1..(Len(inbox[s]) - 1) : inbox'[s][m] = inbox[s][m + 1]
    <3> DEFINE q == inbox[s]
               r == inbox'[s]
    <3>1. q \in Seq(DOMAIN program) /\ 1 \in 1..Len(q) /\ r = RemoveAt(q, 1)
        BY <2>1
    <3> HIDE DEF q, r
    <3>2. /\ Len(r) = Len(q) - 1
          /\ \A m \in 1..(Len(q) - 1) : r[m] = IF m < 1 THEN q[m] ELSE q[m + 1]
        BY <3>1, RemovedPlace
    <3>3. /\ Len(r) = Len(q) - 1 /\ Len(q) \in Nat
          /\ \A m \in 1..(Len(q) - 1) : r[m] = q[m + 1]
        BY <3>1, <3>2
    <3> QED
        BY <3>3 DEF q, r
  <2>3. j \in 1..(Len(inbox[s]) - 1) /\ j + 1 \in 1..Len(inbox[s]) /\ 1 \in 1..(j + 1 - 1)
    <3>1. j \in 1..(Len(inbox[s]) - 1)
        BY <1>3, <2>2
    <3> QED
        BY ONLY <2>2, <3>1
  <2>4. inbox'[s][j] = inbox[s][j + 1]
      BY <2>2, <2>3
  <2>5. /\ \A i \in 1..(j + 1 - 1) : inbox[s][j + 1] \notin before[inbox[s][i]]
        /\ \A o \in Dealt(s) : inbox[s][j + 1] \notin before[o]
      BY <2>3 DEF ServedInOrder
  <2>6. ASSUME NEW i \in 1..(j - 1) PROVE inbox[s][j + 1] \notin before[inbox'[s][i]]
    <3>1. i \in 1..(Len(inbox[s]) - 1) /\ i + 1 \in 1..(j + 1 - 1)
        BY <2>2, <2>3
    <3>2. inbox'[s][i] = inbox[s][i + 1]
        BY <2>2, <3>1
    <3> QED
        BY <2>5, <3>1, <3>2
  <2>7. inbox[s][j + 1] \notin before[inbox[s][1]]
      BY <2>3, <2>5
  <2>8. ASSUME NEW o \in Dealt(s)' PROVE inbox[s][j + 1] \notin before[o]
      BY <2>5, <2>7
  <2> QED
      BY <1>3, <2>4, <2>6, <2>8
<1> QED
    BY <1>2, <1>3

\* More puts are a source of more answers, and fewer puts rule out less.
LEMMA SourceKept ==
    ASSUME UNCHANGED <<program, initial, before>>, NEW P, NEW Q, NEW k, NEW a,
           NEW more, P \subseteq more, NEW fewer \in SUBSET Q, Source(P, k, a, Q)
    PROVE  Source(more, k, a, fewer)'
<1>1. Mixed(k)' = Mixed(k) /\ InitialAnswers(k)' = InitialAnswers(k)
    BY DEF Mixed, InitialAnswers
<1> QED
    BY <1>1 DEF Source

LEMMA PerformedFresh ==
    ASSUME DhtInv, CallsPast, Fresh, NEW s \in Server, NEW o \in Begun, Performed(o, s),
           \A q \in Dealt(s) : o \notin before[q],
           UNCHANGED <<program, net, initial, call, before>>
    PROVE  Fresh'
<1> DEFINE K == program[o].key
           A == program[o].value
<1>1. /\ store \in [Server -> Store!Table] /\ applied \in [Server -> SUBSET DOMAIN program]
      /\ K \in Key /\ A \in Value /\ o \in DOMAIN program
    BY CallFacts DEF DhtInv, Types, ServersOK, Begun
<1>2. PICK v \in StoredAs[<<K, A>>] :
         store' = [store EXCEPT ![s] = Store!add_Htable_value(@, K, v)]
    BY DEF Performed
<1>3. o \in Puts /\ answered' = answered /\ applied' = [applied EXCEPT ![s] = @ \cup {o}]
    BY DEF Performed
<1>4. v \in Value /\ Received[v] = A
  <2>1. ~ TooLong(A)
      BY <1>3 DEF CallsPast, ValuesFit
  <2>2. v \in Value
      BY <1>1, <1>2, DhtAssumption
  <2> QED
      BY <1>1, <1>2, <2>1, <2>2, ClientsAssumption
<1> HIDE DEF K, A
<1>5. \A x \in Server : applied[x] \subseteq applied'[x] /\ (x # s => applied'[x] = applied[x])
    BY <1>1, <1>3
<1>6. applied'[s] = applied[s] \cup {o}
    BY <1>1, <1>3
<1>7. \A x \in Server : x # s => \A k : Found(x, k)' = Found(x, k)
    BY <1>1, <1>2 DEF Found
<1>8. ASSUME NEW k \in Key
      PROVE  \/ K \in Mixed(k) /\ Found(s, k)' = {A}
             \/ K # k /\ Found(s, k)' = Found(s, k)
  <2> DEFINE u == Store!add_Htable_value(store[s], K, v)
  <2>1. /\ Store!get_Htable_value(u, K) = {v}
        /\ \/ Store!get_Htable_value(u, k) = Store!get_Htable_value(store[s], k)
           \/ Store!Related(K, k) /\ Store!get_Htable_value(u, k) = {v}
      BY <1>1, <1>4, StoreReads
  <2>2. store'[s] = u
      BY <1>1, <1>2
  <2> HIDE DEF u
  <2>3. Found(s, k)' = {Received[w] : w \in Store!get_Htable_value(u, k)}
      BY <2>2 DEF Found
  <2>4. K = k \/ Store!Related(K, k) => K \in Mixed(k)
      BY <1>1 DEF Mixed
  <2> QED
      BY <1>4, <2>1, <2>3, <2>4 DEF Found
<1>9. Reads' = Reads /\ \A k : Mixed(k)' = Mixed(k)
  <2>1. \A g \in DOMAIN program : RequestKind(g)' = RequestKind(g)
      BY DEF RequestKind, IsPut
  <2> QED
      BY <2>1 DEF Reads, Gets, IsPut, Mixed
<1>10. o \notin before[o] /\ \A x \in Server : applied[x] \subseteq Dealt(x)
    BY <1>1 DEF CallsPast, PastInv, Dealt
<1>11. \A g \in Reads : \A a \in Value : <<s, a>> \in answered[g] => o \notin before[g]
    BY DEF Dealt
<1>12. StoredFresh'
  <2> SUFFICES ASSUME NEW x \in Server, NEW k \in Key, NEW a \in Found(x, k)'
               PROVE  Source(applied[x], k, a, PutsTo(x, k))'
      BY DEF StoredFresh
  <2>1. CASE PutsTo(x, k)' = PutsTo(x, k) /\ Found(x, k)' = Found(x, k)
    <3>1. PICK P, Q, more : P = applied[x] /\ Q = PutsTo(x, k) /\ more = applied'[x]
        OBVIOUS
    <3>2. Source(P, k, a, Q)
        BY <2>1, <3>1 DEF Fresh, StoredFresh
    <3>3. Source(more, k, a, Q)'
        BY <1>5, <3>1, <3>2, SourceKept
    <3> QED
        BY <2>1, <3>1, <3>3 DEF Source
  <2>2. CASE x # s
    <3>1. PutsTo(x, k)' = PutsTo(x, k)
        BY <1>5, <2>2 DEF PutsTo
    <3> QED
        BY <1>7, <2>1, <2>2, <3>1
  <2>3. CASE x = s /\ K # k /\ Found(s, k)' = Found(s, k)
    <3>1. PutsTo(s, k)' = PutsTo(s, k)
        BY <1>6, <2>3 DEF PutsTo, K
    <3> QED
        BY <2>1, <2>3, <3>1
  <2>4. CASE x = s /\ K \in Mixed(k) /\ Found(s, k)' = {A}
    <3>1. o \in applied'[s] /\ program'[o].key \in Mixed(k)' /\ program'[o].value = a
        BY <1>6, <1>9, <2>4 DEF K, A
    <3>2. \A q \in PutsTo(s, k)' : o \notin before'[q]
        BY <1>6, <1>10 DEF PutsTo
    <3> QED
        BY <2>4, <3>1, <3>2 DEF Source
  <2> QED
      BY <1>8, <2>2, <2>3, <2>4
<1>13. AnsweredFresh'
  <2> SUFFICES ASSUME NEW g \in Reads, NEW x \in Server, NEW a \in Value, <<x, a>> \in answered[g]
               PROVE  Source(Sooner(x, g), program[g].key, a,
                             PutsTo(x, program[g].key) \cap before[g])'
      BY <1>3, <1>9 DEF AnsweredFresh
  <2>1. PICK k, Q, P, more : /\ k = program[g].key /\ Q = PutsTo(x, k) \cap before[g]
                             /\ P = Sooner(x, g) /\ more = Sooner(x, g)'
      OBVIOUS
  <2>2. Source(P, k, a, Q)
      BY <2>1 DEF Fresh, AnsweredFresh
  <2>3. Source(more, k, a, Q)'
    <3>1. P \subseteq more
        BY <1>5, <2>1 DEF Sooner
    <3> QED
        BY <2>2, <3>1, SourceKept
  <2>4. (PutsTo(x, program[g].key) \cap before[g])' = Q
    <3>1. CASE x # s
        BY <1>5, <2>1, <3>1 DEF PutsTo
    <3>2. CASE x = s
        BY <1>6, <1>11, <2>1, <3>2 DEF PutsTo
    <3> QED
        BY <3>1, <3>2
  <2> QED
      BY <2>1, <2>3, <2>4 DEF Source
<1>14. StillFound'
  <2> SUFFICES ASSUME NEW g \in Reads, NEW x \in Server, NEW a \in Value, <<x, a>> \in answered[g],
                      Untouched(x, g)'
               PROVE  (Found(x, program[g].key) = {a})'
      BY <1>3, <1>9 DEF StillFound
  <2>1. PICK k \in Key : k = program[g].key
      BY CallFacts DEF DhtInv, Types, Reads, Gets
  <2>2. \A p \in applied'[x] : program[p].key \in Mixed(k) => p \in before[g]
      BY <1>9, <2>1 DEF Untouched
  <2>3. Untouched(x, g)
      BY <1>5, <2>1, <2>2 DEF Untouched
  <2>4. Found(x, k) = {a}
      BY <2>1, <2>3 DEF Fresh, StillFound
  <2>5. Found(x, k)' = Found(x, k)
    <3>1. CASE x # s
        BY <1>7, <3>1
    <3>2. CASE x = s
      <4>1. K \notin Mixed(k)
          BY <1>6, <1>11, <2>2, <3>2 DEF K
      <4> QED
          BY <1>8, <3>2, <4>1
    <3> QED
        BY <3>1, <3>2
  <2> QED
      BY <2>1, <2>4, <2>5 DEF Found
<1>15. Agreed'
  <2>1. \A g, h \in Reads : Undisturbed(g, h)' <=> Undisturbed(g, h)
      BY <1>9 DEF Undisturbed, PutsMixed, Puts, IsPut
  <2> QED
      BY <1>3, <1>9, <2>1 DEF Fresh, Agreed
<1>16. WrittenKept'
  <2> SUFFICES ASSUME NEW x \in Server, NEW q \in applied'[x]
               PROVE  Found(x, program[q].key)' # {}
      BY DEF WrittenKept
  <2>1. PICK k \in Key : k = program[q].key
    <3>1. q \in DOMAIN program
        BY <1>1, <1>5, <1>6
    <3> QED
        BY <3>1, CallFacts DEF DhtInv, Types
  <2>2. k = K \/ Found(x, k) # {}
      BY <1>5, <1>6, <2>1 DEF Fresh, WrittenKept, K
  <2>3. Found(x, k)' # {}
    <3>1. CASE x # s
        BY <1>5, <1>7, <2>1, <3>1 DEF Fresh, WrittenKept
    <3>2. CASE x = s
        BY <1>8, <2>2, <3>2
    <3> QED
        BY <3>1, <3>2
  <2> QED
      BY <2>1, <2>3 DEF Found
<1> QED
    BY <1>12, <1>13, <1>14, <1>15, <1>16 DEF Fresh

LEMMA ToldFresh ==
    ASSUME DhtInv, CallsPast, Fresh, NEW s \in Server, NEW o \in Begun, Told(o, s),
           UNCHANGED <<program, net, initial, call, before>>
    PROVE  Fresh'
<1>1. /\ o \in Reads /\ Open(o) /\ UNCHANGED <<store, applied>> /\ Reads \subseteq Gets
      /\ answered \in [Gets -> SUBSET (Server \X Value)] /\ store[s] \in Store!Table
      /\ applied[s] \subseteq Begun /\ applied[s] \subseteq Puts
    BY OnlyBegun DEF Told, Reads, DhtInv, Types, ServersOK, CallsPast, CallPlaces
<1>2. PICK K \in Key : K = program[o].key
    BY CallFacts DEF DhtInv, Types, Begun
<1>3. PICK v \in Store!get_Htable_value(store[s], K) :
         answered' = [answered EXCEPT ![o] = @ \cup {<<s, Received[v]>>}]
    BY <1>2 DEF Told
<1>4. v \in Value
    BY <1>1, StoreTables
<1>5. PICK A : A = Received[v]
    OBVIOUS
<1>6. Found(s, K) = {A}
    BY <1>1, <1>4, <1>5, OneFound DEF Found
<1>7. ASSUME NEW g \in Reads, NEW x \in Server, NEW a, <<x, a>> \in answered'[g]
      PROVE  <<x, a>> \in answered[g] \/ (g = o /\ x = s /\ a = A)
    BY <1>1, <1>3, <1>5, <1>7
<1>8. /\ Reads' = Reads /\ \A k : Mixed(k)' = Mixed(k)
      /\ \A x, k : Found(x, k)' = Found(x, k) /\ PutsTo(x, k)' = PutsTo(x, k)
  <2>1. \A g \in DOMAIN program : RequestKind(g)' = RequestKind(g)
      BY DEF RequestKind, IsPut
  <2> QED
      BY <1>1, <2>1 DEF Reads, Gets, IsPut, Mixed, Found, PutsTo
<1>9. \A x, g : Sooner(x, g)' = Sooner(x, g)
    BY <1>1 DEF Sooner
<1>10. StoredFresh'
  <2> SUFFICES ASSUME NEW x \in Server, NEW k \in Key, NEW a \in Found(x, k)
               PROVE  Source(applied[x], k, a, PutsTo(x, k))'
      BY <1>8 DEF StoredFresh
  <2>1. PICK P, Q : P = applied[x] /\ Q = PutsTo(x, k)
      OBVIOUS
  <2>2. Source(P, k, a, Q)
      BY <2>1 DEF Fresh, StoredFresh
  <2>3. Source(P, k, a, Q)'
      BY <2>2, SourceKept
  <2> QED
      BY <1>1, <1>8, <2>1, <2>3 DEF Source
<1>11. AnsweredFresh'
  <2> SUFFICES ASSUME NEW g \in Reads, NEW x \in Server, NEW a \in Value, <<x, a>> \in answered'[g]
               PROVE  Source(Sooner(x, g), program[g].key, a,
                             PutsTo(x, program[g].key) \cap before[g])'
      BY <1>8 DEF AnsweredFresh
  <2>1. PICK k, Q, past, P : /\ k = program[g].key /\ k \in Key /\ P = Sooner(x, g)
                             /\ Q = PutsTo(x, k) /\ past = Q \cap before[g]
      BY CallFacts DEF DhtInv, Types, Reads, Gets
  <2>2. Source(P, k, a, past)'
    <3>1. CASE <<x, a>> \in answered[g]
      <4>1. Source(P, k, a, past)
          BY <2>1, <3>1 DEF Fresh, AnsweredFresh
      <4> QED
          BY <4>1, SourceKept
    <3>2. CASE g = o /\ x = s /\ a = A
      <4>1. \A p \in applied[s] : o \notin before[p]
          BY <1>1 DEF CallsPast, PastInv, Open, Returned, Begun
      <4>2. P = applied[s]
          BY <2>1, <3>2, <4>1 DEF Sooner
      <4>3. Source(P, k, a, Q)
          BY <1>2, <1>6, <2>1, <3>2, <4>2 DEF Fresh, StoredFresh
      <4>4. past \in SUBSET Q
          BY <2>1
      <4> QED
          BY <4>3, <4>4, SourceKept
    <3> QED
        BY <1>7, <3>1, <3>2
  <2>3. (PutsTo(x, program[g].key) \cap before[g])' = past
      BY <1>8, <2>1
  <2> QED
      BY <1>9, <2>1, <2>2, <2>3 DEF Source
<1>12. StillFound'
  <2> SUFFICES ASSUME NEW g \in Reads, NEW x \in Server, NEW a \in Value, <<x, a>> \in answered'[g],
                      Untouched(x, g)'
               PROVE  Found(x, program[g].key) = {a}
      BY <1>8 DEF StillFound
  <2>1. CASE <<x, a>> \in answered[g]
    <3>1. Untouched(x, g)
        BY <1>1, <1>8 DEF Untouched
    <3> QED
        BY <2>1, <3>1 DEF Fresh, StillFound
  <2>2. CASE g = o /\ x = s /\ a = A
      BY <1>2, <1>6, <2>2
  <2> QED
      BY <1>7, <2>1, <2>2
<1>13. Agreed'
  <2>1. \A g, h \in Reads : Undisturbed(g, h)' <=> Undisturbed(g, h)
      BY <1>8 DEF Undisturbed, PutsMixed, Puts, IsPut
  <2> SUFFICES ASSUME NEW g \in Reads, NEW h \in Reads, program[g].key = program[h].key,
                      g \in before[h], Undisturbed(g, h),
                      NEW x \in Server, NEW a \in Value, NEW b \in Value,
                      <<x, a>> \in answered'[g], <<x, b>> \in answered'[h]
               PROVE  a = b
      BY <1>8, <2>1 DEF Agreed
  <2>2. h \in DOMAIN program /\ \A p \in DOMAIN program : o \notin before[p]
      BY <1>1 DEF CallsPast, PastInv, Open, Returned, Reads, Gets
  <2>3. <<x, a>> \in answered[g]
      BY <1>7, <2>2
  <2>4. CASE <<x, b>> \in answered[h]
      BY <2>3, <2>4 DEF Fresh, Agreed
  <2>5. CASE h = o /\ x = s /\ b = A
    <3>1. Untouched(s, g)
      <4> SUFFICES ASSUME NEW p \in applied[s], program[p].key \in Mixed(program[g].key)
                   PROVE  p \in before[g]
          BY DEF Untouched
      <4>1. p \in PutsMixed(program[g].key) /\ p \in DOMAIN program /\ call[p].pc # "new"
          BY <1>1 DEF PutsMixed, Begun
      <4> QED
          BY <2>2, <2>5, <4>1 DEF Undisturbed
    <3>2. Found(s, program[g].key) = {a}
        BY <2>3, <2>5, <3>1 DEF Fresh, StillFound
    <3> QED
        BY <1>2, <1>6, <2>5, <3>2
  <2> QED
      BY <1>7, <2>4, <2>5
<1>14. WrittenKept'
    BY <1>1, <1>8 DEF Fresh, WrittenKept
<1> QED
    BY <1>10, <1>11, <1>12, <1>13, <1>14 DEF Fresh

LEMMA AsideFresh ==
    ASSUME Fresh, Aside, UNCHANGED <<program, net, initial, call, before>>
    PROVE  Fresh'
<1>1. UNCHANGED <<store, applied>> /\ \A g \in Reads : answered'[g] = answered[g]
    BY DEF Aside
<1>2. /\ Reads' = Reads /\ \A k : Mixed(k)' = Mixed(k) /\ PutsMixed(k)' = PutsMixed(k)
      /\ \A x, k : Found(x, k)' = Found(x, k) /\ PutsTo(x, k)' = PutsTo(x, k)
  <2>1. \A g \in DOMAIN program : RequestKind(g)' = RequestKind(g)
      BY DEF RequestKind, IsPut
  <2> QED
      BY <1>1, <2>1 DEF Reads, Gets, Puts, PutsMixed, IsPut, Mixed, Found, PutsTo
<1>3. StoredFresh'
    BY <1>1, <1>2 DEF Fresh, StoredFresh, Source, InitialAnswers
<1>4. AnsweredFresh'
    BY <1>1, <1>2 DEF Fresh, AnsweredFresh, Source, InitialAnswers, Sooner
<1>5. StillFound'
    BY <1>1, <1>2 DEF Fresh, StillFound, Untouched
<1>6. Agreed'
    BY <1>1, <1>2 DEF Fresh, Agreed, Undisturbed
<1>7. WrittenKept'
    BY <1>1, <1>2 DEF Fresh, WrittenKept
<1> QED
    BY <1>3, <1>4, <1>5, <1>6, <1>7 DEF Fresh

----------------------------------------------------------------------------

\* Nobody but the sender of request o has been dealt with by handling it.
LEMMA DealtOne ==
    ASSUME ServersOK, NEW s \in Server, NEW o, Performed(o, s) \/ Told(o, s) \/ Aside,
           UNCHANGED program, NEW x \in Server, NEW q \in Dealt(x)'
    PROVE  q \in Dealt(x) \/ (x = s /\ q = o)
<1>1. Reads' = Reads /\ Reads \subseteq Gets
  <2>1. \A g \in DOMAIN program : RequestKind(g)' = RequestKind(g)
      BY DEF RequestKind, IsPut
  <2> QED
      BY <2>1 DEF Reads, Gets, IsPut
<1>2. q \in applied'[x] \/ (q \in Reads /\ \E a \in Value : <<x, a>> \in answered'[q])
    BY <1>1 DEF Dealt
<1>3. /\ applied \in [Server -> SUBSET DOMAIN program]
      /\ answered \in [Gets -> SUBSET (Server \X Value)]
    BY DEF ServersOK
<1>4. CASE Performed(o, s)
  <2>1. answered' = answered /\ applied' = [applied EXCEPT ![s] = @ \cup {o}]
      BY <1>4 DEF Performed
  <2>2. q \in applied'[x] => q \in applied[x] \/ (x = s /\ q = o)
      BY <1>3, <2>1
  <2> QED
      BY <1>2, <2>1, <2>2 DEF Dealt
<1>5. CASE Told(o, s)
  <2>1. PICK a : answered' = [answered EXCEPT ![o] = @ \cup {<<s, a>>}]
      BY <1>5 DEF Told
  <2>2. \A g \in Reads : \A y : y \in answered'[g] => y \in answered[g] \/ (g = o /\ y = <<s, a>>)
      BY <1>1, <1>3, <2>1
  <2>3. applied' = applied
      BY <1>5 DEF Told
  <2>4. CASE q \in applied'[x]
      BY <2>3, <2>4 DEF Dealt
  <2>5. CASE q \in Reads /\ \E b \in Value : <<x, b>> \in answered'[q]
    <3>1. PICK b \in Value : <<x, b>> \in answered'[q]
        BY <2>5
    <3>2. <<x, b>> \in answered[q] \/ (q = o /\ <<x, b>> = <<s, a>>)
        BY <2>2, <2>5, <3>1
    <3> QED
        BY <2>5, <3>2 DEF Dealt
  <2> QED
      BY <1>2, <2>4, <2>5
<1>6. CASE Aside
    BY <1>2, <1>6 DEF Aside, Dealt
<1> QED
    BY <1>4, <1>5, <1>6

\* The steps of the servers.  One that has restarted has forgotten its table.
LEMMA ServerOrder ==
    ASSUME DhtInv, OrderInv, CallsPast', NEW s \in Server, Serve(s) \/ Restart(s),
           UNCHANGED <<program, net, initial>>
    PROVE  OrderInv'
<1>1. Types /\ ServersOK /\ CallPlaces /\ CallsPast
    BY DEF DhtInv, Types, OrderInv, CallsPast
<1>2. CASE Serve(s)
  <2>1. PICK j \in 1..Len(inbox[s]) :
           /\ net.ordered => j = 1
           /\ inbox' = Without(inbox, s, j) /\ UNCHANGED <<call, before, restarts>>
           /\ Performed(inbox[s][j], s) \/ Told(inbox[s][j], s) \/ Aside
      BY <1>1, <1>2, ServeEffect
  <2>2. Orderly' <=> Orderly
      BY <2>1 DEF Orderly
  <2> SUFFICES ASSUME Orderly PROVE ServedInOrder' /\ Fresh'
      BY <2>1, <2>2 DEF OrderInv
  <2>3. ServedInOrder /\ Fresh /\ j = 1
      BY <2>1 DEF OrderInv, Orderly
  <2>4. PICK o \in Begun : o = inbox[s][1]
      BY <1>1, <2>3, OnlyBegun
  <2>5. \A q \in Dealt(s) : o \notin before[q]
      BY <2>3, <2>4 DEF ServedInOrder
  <2>6. Performed(o, s) \/ Told(o, s) \/ Aside
      BY <2>1, <2>3, <2>4
  <2>7. Fresh'
      BY <1>1, <2>1, <2>3, <2>5, <2>6, PerformedFresh, ToldFresh, AsideFresh
  <2>8. ASSUME NEW x \in Server, NEW q \in Dealt(x)'
        PROVE  q \in Dealt(x) \/ (x = s /\ q = o)
      BY <1>1, <2>6, DealtOne
  <2>9. ServedInOrder'
      BY <1>1, <2>1, <2>3, <2>4, <2>8, ServedStaysInOrder
  <2> QED
      BY <2>7, <2>9
<1>3. CASE Restart(s)
  <2>1. restarts' \in Nat /\ ~ Orderly'
    <3>1. restarts' = restarts + 1 /\ restarts \in Nat
        BY <1>3 DEF Restart, OrderInv
    <3> QED
        BY <3>1 DEF Orderly
  <2> QED
      BY <2>1 DEF OrderInv
<1> QED
    BY <1>2, <1>3

\* A step of a call leaves what is past for those that have begun.
LEMMA BegunStay ==
    ASSUME CallsPast, NEW o \in DOMAIN program, Moves(o),
           UNCHANGED <<program, net, initial, store, applied, answered>>
    PROVE  ServersStay
<1>1. ASSUME NEW p \in Begun PROVE before'[p] = before[p] /\ p \in Begun'
  <2>1. p \in DOMAIN program /\ call[p].pc # "new"
      BY DEF Begun
  <2> QED
      BY <2>1 DEF Moves, Begun, CallsPast, PastInv
<1> QED
    BY <1>1 DEF ServersStay

\* A step of a call; one that begins has nothing that it was past for.
LEMMA ClientOrder ==
    ASSUME DhtInv, OrderInv, CallsPast', NEW o \in DOMAIN program, Client(o),
           UNCHANGED <<program, net, initial>>
    PROVE  OrderInv'
<1>1. Types /\ CallPlaces /\ CallsPast
    BY DEF DhtInv, OrderInv, CallsPast
<1>2. Moves(o) /\ UNCHANGED <<store, applied, answered, restarts>> /\ (Send(o) \/ inbox' = inbox)
    BY <1>1, ClientMoves
<1>3. ServersStay
    BY <1>1, <1>2, BegunStay
<1>4. Orderly' <=> Orderly
    BY <1>2 DEF Orderly
<1> SUFFICES ASSUME Orderly PROVE ServedInOrder' /\ Fresh'
    BY <1>2, <1>4 DEF OrderInv
<1>5. ServedInOrder /\ Fresh
    BY DEF OrderInv
<1>6. Fresh'
    BY <1>1, <1>3, <1>5, FreshStays
<1>7. ServedInOrder'
    BY <1>1, <1>2, <1>3, <1>5, SentInOrder, OrderStays
<1> QED
    BY <1>6, <1>7

\* The other steps of the processes.
LEMMA QuietOrder ==
    ASSUME DhtInv, OrderInv, CallsPast', ServersStay, UNCHANGED <<inbox, restarts>>
    PROVE  OrderInv'
<1>1. CallPlaces /\ (Orderly' <=> Orderly)
    BY DEF OrderInv, CallsPast, ServersStay, Orderly
<1> QED
    BY <1>1, FreshStays, OrderStays DEF OrderInv

LEMMA OrderNext ==
    ASSUME DhtInv, TurnInv, ToleranceInv, OrderInv, [NextClients]_allVars
    PROVE  OrderInv'
<1>1. CallsPast'
    BY PastNext DEF OrderInv
<1>2. CASE Servers
  <2>1. UNCHANGED <<program, net, initial>> /\ \E s \in Server : Serve(s) \/ Restart(s)
      BY <1>2 DEF Servers, chosen
  <2> QED
      BY <1>1, <2>1, ServerOrder
<1>3. ASSUME NEW c \in DOMAIN command, Step(c) PROVE OrderInv'
  <2>1. CASE InCall(c)
    <3>1. Client(Call(c)) /\ UNCHANGED <<program, net, initial>> /\ ~ Refused(c)
        BY <2>1 DEF InCall, chosen
    <3>2. Call(c) \in DOMAIN program
        BY <3>1, CallsOfProcess DEF DhtInv, Types
    <3> QED
        BY <1>1, <3>1, <3>2, ClientOrder
  <2>2. CASE Concatenate(c)
    <3>1. ServersStay /\ UNCHANGED <<inbox, restarts>>
        BY <2>2, Concatenated DEF ServersStay, Begun
    <3> QED
        BY <1>1, <3>1, QuietOrder
  <2>3. CASE Refuse(c) \/ CallFails(c) \/ SecondKey(c) \/ Finish(c)
    <3>1. UNCHANGED vars
        BY <2>3 DEF Refuse, CallFails, SecondKey, Finish
    <3>2. ServersStay /\ UNCHANGED <<inbox, restarts>>
        BY <3>1 DEF ServersStay, Begun, vars, history
    <3> QED
        BY <1>1, <3>2, QuietOrder
  <2> QED
      BY <1>3, <2>1, <2>2, <2>3 DEF Step
<1>4. CASE UNCHANGED allVars
  <2>1. ServersStay /\ UNCHANGED <<inbox, restarts>>
      BY <1>4 DEF ServersStay, Begun, allVars, vars, history
  <2> QED
      BY <1>1, <2>1, QuietOrder
<1> QED
    BY <1>2, <1>3, <1>4 DEF NextClients

(***************************************************************************)
(* What servers have stored and have answered comes from puts that no put  *)
(* they have performed was past for, if they are orderly.                  *)
(***************************************************************************)
THEOREM OrderInvariant == SpecClients => [](DhtInv /\ OrderInv)
<1>1. InitClients => OrderInv
    BY OrderInit
<1>2. /\ DhtInv /\ TurnInv /\ ToleranceInv /\ OrderInv /\ [NextClients]_allVars
      => OrderInv'
    BY OrderNext
<1> QED
    BY <1>1, <1>2, ToleranceInvariant, PTL DEF SpecClients

----------------------------------------------------------------------------

(***************************************************************************)
(* What puts have written is held.  A server that does not hold what one   *)
(* of the puts it has performed wrote has been restarted: handling a       *)
(* request takes nothing away.                                             *)
(***************************************************************************)
Forgetful == {s \in Server : \E q \in applied[s] : ~ Holds(s, q)}

HeldInv == (net.ordered => ServedInOrder) /\ Cardinality(Forgetful) <= restarts

LEMMA HeldInit ==
    ASSUME InitClients PROVE HeldInv
<1>1. /\ inbox = [s \in Server |-> <<>>] /\ applied = [s \in Server |-> {}] /\ restarts = 0
    BY DEF InitClients, Init
<1>2. Forgetful = {}
    BY <1>1 DEF Forgetful
<1> QED
    BY <1>1, <1>2, FS_EmptySet DEF HeldInv, ServedInOrder

\* A server that held it all still does, but for one in x.
LEMMA FewForget ==
    ASSUME HeldInv, restarts \in Nat, NEW x, Forgetful' \subseteq Forgetful \cup {x},
           restarts' = restarts + 1 \/ (restarts' = restarts /\ Forgetful' \subseteq Forgetful)
    PROVE  Cardinality(Forgetful)' <= restarts'
<1>1. Forgetful \subseteq Server /\ Forgetful' \subseteq Server
    BY DEF Forgetful
<1> HIDE DEF Forgetful
<1>2. /\ Cardinality(Forgetful) \in Nat /\ Cardinality(Forgetful') \in Nat
      /\ IsFiniteSet(Forgetful) /\ Cardinality(Forgetful) <= restarts
    BY <1>1, ServerSet DEF HeldInv
<1>3. CASE restarts' = restarts + 1
  <2>1. Cardinality(Forgetful') <= Cardinality(Forgetful) + 1
      BY <1>1, OneLost
  <2> QED
      BY <1>2, <1>3, <2>1
<1>4. CASE restarts' = restarts /\ Forgetful' \subseteq Forgetful
  <2>1. Cardinality(Forgetful') <= Cardinality(Forgetful)
      BY <1>2, <1>4, FS_Subset
  <2> QED
      BY <1>2, <1>4, <2>1
<1> QED
    BY <1>3, <1>4

\* The steps of the processes change nothing about it.
LEMMA HeldStays ==
    ASSUME DhtInv, CallPlaces, ServersStay, NEW s \in Server, s \notin Forgetful
    PROVE  s \notin Forgetful'
<1>1. applied[s] \subseteq Begun /\ \A o \in Begun : program'[o] = program[o] /\ before'[o] = before[o]
    BY OnlyBegun DEF ServersStay, Begun
<1>2. UNCHANGED <<net, store, applied>>
    BY DEF ServersStay
<1> SUFFICES ASSUME NEW q \in applied[s] PROVE Holds(s, q)'
    BY <1>2 DEF Forgetful
<1>3. Holds(s, q)
    BY DEF Forgetful
<1>4. PICK p \in applied[s] :
         /\ program[p].key \in Mixed(program[q].key)
         /\ net.ordered => p \notin before[q]
         /\ \E v \in Store!get_Htable_value(store[s], program[q].key) :
               v \in StoredAs[<<program[p].key, program[p].value>>]
    BY <1>3 DEF Holds
<1>5. /\ program'[p] = program[p] /\ program'[q] = program[q] /\ before'[q] = before[q]
    BY <1>1
<1>6. Mixed(program[q].key)' = Mixed(program[q].key)
    BY <1>5 DEF Mixed
<1> QED
    BY <1>2, <1>4, <1>5, <1>6 DEF Holds

\* A write is held itself, and stands in for what it has taken the place of.
LEMMA PerformedHeld ==
    ASSUME Types, PastInv, NEW s \in Server, NEW o \in DOMAIN program, Performed(o, s),
           net.ordered => \A q \in applied[s] : o \notin before[q],
           UNCHANGED <<program, net, before>>, NEW x \in Server, x \notin Forgetful
    PROVE  x \notin Forgetful'
<1> DEFINE K == program[o].key
           A == program[o].value
<1>1. /\ store \in [Server -> Store!Table] /\ applied \in [Server -> SUBSET DOMAIN program]
      /\ K \in Key /\ A \in Value
    BY CallFacts DEF Types, ServersOK
<1>2. PICK v \in StoredAs[<<K, A>>] :
         store' = [store EXCEPT ![s] = Store!add_Htable_value(@, K, v)]
    BY DEF Performed
<1>3. applied' = [applied EXCEPT ![s] = @ \cup {o}]
    BY DEF Performed
<1>4. v \in Value
    BY <1>1, <1>2, DhtAssumption
<1> SUFFICES ASSUME NEW q \in applied'[x] PROVE Holds(x, q)'
    BY DEF Forgetful
<1>5. Mixed(program[q].key)' = Mixed(program[q].key)
    BY DEF Mixed
<1>6. ASSUME q \in applied[x], store'[x] = store[x]
             \/ Store!get_Htable_value(store'[x], program[q].key)
                   = Store!get_Htable_value(store[x], program[q].key)
      PROVE  Holds(x, q)'
  <2>1. Holds(x, q)
      BY <1>6 DEF Forgetful
  <2>2. applied[x] \subseteq applied'[x]
      BY <1>1, <1>3
  <2> QED
      BY <1>5, <1>6, <2>1, <2>2 DEF Holds
<1>7. CASE x # s
    BY <1>1, <1>2, <1>3, <1>6, <1>7
<1>8. CASE x = s
  <2>1. store'[s] = Store!add_Htable_value(store[s], K, v) /\ o \in applied'[s]
        /\ (q \in applied[s] \/ q = o) /\ q \in DOMAIN program
      BY <1>1, <1>2, <1>3, <1>8
  <2>2. program[q].key \in Key
      BY <2>1, CallFacts DEF Types
  <2>3. /\ Store!get_Htable_value(store'[s], K) = {v}
        /\ \/ Store!get_Htable_value(store'[s], program[q].key)
                 = Store!get_Htable_value(store[s], program[q].key)
           \/ /\ Store!Related(K, program[q].key)
              /\ Store!get_Htable_value(store'[s], program[q].key) = {v}
      BY <1>1, <1>4, <2>1, <2>2, StoreReads
  <2>4. ASSUME K \in Mixed(program[q].key), net.ordered => o \notin before[q],
               Store!get_Htable_value(store'[s], program[q].key) = {v}
        PROVE  Holds(s, q)'
      BY <1>2, <1>5, <2>1, <2>4 DEF Holds
  <2>5. CASE q = o
    <3>1. o \notin before[o] /\ K \in Mixed(K)
        BY <1>1 DEF PastInv, Mixed
    <3> QED
        BY <1>8, <2>3, <2>4, <2>5, <3>1
  <2>6. CASE q \in applied[s]
    <3>1. Store!Related(K, program[q].key) => K \in Mixed(program[q].key)
        BY <1>1 DEF Mixed
    <3> QED
        BY <1>6, <1>8, <2>3, <2>4, <2>6, <3>1
  <2> QED
      BY <2>1, <2>5, <2>6
<1> QED
    BY <1>7, <1>8

LEMMA HeldServer ==
    ASSUME DhtInv, OrderInv, HeldInv, NEW s \in Server, Serve(s) \/ Restart(s),
           UNCHANGED <<program, net, initial>>
    PROVE  HeldInv'
<1>1. Types /\ ServersOK /\ CallPlaces /\ PastInv /\ restarts \in Nat
    BY DEF DhtInv, Types, OrderInv, CallsPast
<1>2. CASE Serve(s)
  <2>1. PICK j \in 1..Len(inbox[s]) :
           /\ net.ordered => j = 1
           /\ inbox' = Without(inbox, s, j) /\ UNCHANGED <<call, before, restarts>>
           /\ Performed(inbox[s][j], s) \/ Told(inbox[s][j], s) \/ Aside
      BY <1>1, <1>2, ServeEffect
  <2>2. PICK o \in DOMAIN program : o = inbox[s][j]
      BY <1>1 DEF Types, RequestsOK
  <2>3. Performed(o, s) \/ Told(o, s) \/ Aside
      BY <2>1, <2>2
  <2>4. ASSUME net.ordered PROVE ServedInOrder'
    <3>1. ServedInOrder /\ j = 1
        BY <2>1, <2>4 DEF HeldInv
    <3>2. ASSUME NEW x \in Server, NEW q \in Dealt(x)' PROVE q \in Dealt(x) \/ (x = s /\ q = o)
        BY <1>1, <2>3, DealtOne
    <3> QED
        BY <1>1, <2>1, <2>2, <3>1, <3>2, ServedStaysInOrder
  <2>5. Forgetful' \subseteq Forgetful
    <3> SUFFICES ASSUME NEW x \in Server, x \notin Forgetful PROVE x \notin Forgetful'
        BY DEF Forgetful
    <3>1. CASE Performed(o, s)
      <4>1. net.ordered => \A q \in applied[s] : o \notin before[q]
          BY <2>1, <2>2 DEF HeldInv, ServedInOrder, Dealt
      <4> QED
          BY <1>1, <2>1, <3>1, <4>1, PerformedHeld
    <3>2. CASE Told(o, s) \/ Aside
      <4>1. UNCHANGED <<store, applied, program, before, net>>
          BY <2>1, <3>2 DEF Told, Aside
      <4> QED
          BY <4>1 DEF Forgetful, Holds, Mixed
    <3> QED
        BY <2>3, <3>1, <3>2
  <2>6. Cardinality(Forgetful)' <= restarts'
      BY <1>1, <2>1, <2>5, FewForget
  <2> QED
      BY <2>4, <2>6 DEF HeldInv
<1>3. CASE Restart(s)
  <2>1. /\ restarts' = restarts + 1 /\ UNCHANGED <<applied, answered, before>>
        /\ inbox' = [inbox EXCEPT ![s] = <<>>]
        /\ \A x \in Server : x # s => store'[x] = store[x]
      BY <1>1, <1>3 DEF Restart, ServersOK
  <2>2. ASSUME NEW x \in Server, x # s, x \notin Forgetful PROVE x \notin Forgetful'
      BY <2>1, <2>2 DEF Forgetful, Holds, Mixed
  <2>3. Forgetful' \subseteq Forgetful \cup {s}
      BY <2>2 DEF Forgetful
  <2>4. Cardinality(Forgetful)' <= restarts'
      BY <1>1, <2>1, <2>3, FewForget
  <2>5. ASSUME net.ordered PROVE ServedInOrder'
    <3>1. \A x \in Server : \A q \in Dealt(x)' : q \in Dealt(x)
      <4>1. \A g \in DOMAIN program : RequestKind(g)' = RequestKind(g)
          BY DEF RequestKind, IsPut
      <4>2. Reads' = Reads
          BY <4>1 DEF Reads, Gets, IsPut
      <4> QED
          BY <2>1, <4>2 DEF Dealt
    <3>2. \A x \in Server : inbox'[x] = inbox[x] \/ inbox'[x] = <<>>
        BY <1>1, <2>1 DEF Types, RequestsOK
    <3>3. ServedInOrder
        BY <2>5 DEF HeldInv
    <3> QED
        BY <2>1, <3>1, <3>2, <3>3 DEF ServedInOrder
  <2> QED
      BY <2>4, <2>5 DEF HeldInv
<1> QED
    BY <1>2, <1>3

\* The steps of the processes, which leave the servers alone.
LEMMA HeldQuiet ==
    ASSUME DhtInv, OrderInv, HeldInv, ServersStay, restarts' = restarts,
           net.ordered => ServedInOrder'
    PROVE  HeldInv'
<1>1. CallPlaces /\ restarts \in Nat /\ net' = net
    BY DEF OrderInv, CallsPast, ServersStay
<1>2. Forgetful' \subseteq Forgetful
  <2>1. \A s \in Server : s \notin Forgetful => s \notin Forgetful'
      BY <1>1, HeldStays
  <2> QED
      BY <2>1 DEF Forgetful
<1>3. Cardinality(Forgetful)' <= restarts'
    BY <1>1, <1>2, FewForget
<1> QED
    BY <1>1, <1>3 DEF HeldInv

LEMMA HeldNext ==
    ASSUME DhtInv, TurnInv, OrderInv, HeldInv, [NextClients]_allVars
    PROVE  HeldInv'
<1>1. CallsPast /\ CallPlaces /\ PastInv
    BY DEF OrderInv, CallsPast
<1>2. CASE Servers
  <2>1. UNCHANGED <<program, net, initial>> /\ \E s \in Server : Serve(s) \/ Restart(s)
      BY <1>2 DEF Servers, chosen
  <2> QED
      BY <2>1, HeldServer
<1>3. ASSUME ServersStay, UNCHANGED <<inbox, restarts>> PROVE HeldInv'
    BY <1>1, <1>3, OrderStays, HeldQuiet DEF HeldInv
<1>4. ASSUME NEW c \in DOMAIN command, Step(c) PROVE HeldInv'
  <2>1. CASE InCall(c)
    <3>1. Client(Call(c)) /\ UNCHANGED <<program, net, initial>> /\ ~ Refused(c)
        BY <2>1 DEF InCall, chosen
    <3>2. Call(c) \in DOMAIN program /\ Types
        BY <3>1, CallsOfProcess DEF DhtInv, Types
    <3>3. PICK o \in DOMAIN program : o = Call(c)
        BY <3>2
    <3>4. /\ Moves(o) /\ UNCHANGED <<store, applied, answered, restarts>>
          /\ Send(o) \/ inbox' = inbox
        BY <3>1, <3>2, <3>3, ClientMoves
    <3>5. ServersStay
        BY <1>1, <3>1, <3>4, BegunStay
    <3> QED
        BY <1>1, <3>4, <3>5, SentInOrder, OrderStays, HeldQuiet DEF HeldInv
  <2>2. CASE Concatenate(c)
    <3>1. ServersStay /\ UNCHANGED <<inbox, restarts>>
        BY <2>2, Concatenated DEF ServersStay, Begun
    <3> QED
        BY <1>3, <3>1
  <2>3. CASE Refuse(c) \/ CallFails(c) \/ SecondKey(c) \/ Finish(c)
    <3>1. UNCHANGED vars
        BY <2>3 DEF Refuse, CallFails, SecondKey, Finish
    <3>2. ServersStay /\ UNCHANGED <<inbox, restarts>>
        BY <3>1 DEF ServersStay, Begun, vars, history
    <3> QED
        BY <1>3, <3>2
  <2> QED
      BY <1>4, <2>1, <2>2, <2>3 DEF Step
<1>5. CASE UNCHANGED allVars
  <2>1. ServersStay /\ UNCHANGED <<inbox, restarts>>
      BY <1>5 DEF ServersStay, Begun, allVars, vars, history
  <2> QED
      BY <1>3, <2>1
<1> QED
    BY <1>2, <1>4, <1>5 DEF NextClients

(***************************************************************************)
(* A put that has answered OK is held by its W servers, but for one server *)
(* for each restart and each duplicate: the servers that performed it and  *)
(* do not hold it have restarted.                                          *)
(***************************************************************************)
THEOREM WritesStayHeld == SpecClients => []WritesHeld
<1>1. InitClients => HeldInv
    BY HeldInit
<1>2. DhtInv /\ TurnInv /\ OrderInv /\ HeldInv /\ [NextClients]_allVars => HeldInv'
    BY HeldNext
<1>3. DhtInv /\ OrderInv /\ HeldInv => WritesHeld
  <2> SUFFICES ASSUME DhtInv, OrderInv, HeldInv, NEW q \in Puts, call[q].pc = "ok"
               PROVE  Cardinality({s \in Server : Holds(s, q)}) + dups + restarts >= Needed(q)
      BY DEF WritesHeld
  <2> DEFINE H == {s \in Server : Holds(s, q)}
  <2>1. q \in DOMAIN program /\ IsPut(q) /\ Types
      BY DEF Puts, DhtInv
  <2>2. Cardinality(Writers(q)) + dups >= Needed(q)
      BY <2>1 DEF DhtInv, CallInv, PutReached
  <2>3. Writers(q) \subseteq H \cup Forgetful
      BY DEF Writers, Forgetful
  <2>4. Writers(q) \subseteq Server /\ H \subseteq Server /\ Forgetful \subseteq Server
      BY DEF Writers, Forgetful
  <2>5. Needed(q) \in Nat /\ dups \in Nat /\ restarts \in Nat /\ Cardinality(Forgetful) <= restarts
      BY <2>1, Counts DEF OrderInv, HeldInv
  <2> HIDE DEF H
  <2>6. Cardinality(Writers(q)) <= Cardinality(H) + Cardinality(Forgetful)
    <3>1. /\ IsFiniteSet(H) /\ IsFiniteSet(Forgetful) /\ IsFiniteSet(Writers(q))
          /\ Cardinality(H) \in Nat /\ Cardinality(Forgetful) \in Nat
          /\ Cardinality(Writers(q)) \in Nat
        BY <2>4, ServerSet
    <3>2. /\ IsFiniteSet(H \cup Forgetful)
          /\ Cardinality(H \cup Forgetful)
                = Cardinality(H) + Cardinality(Forgetful) - Cardinality(H \cap Forgetful)
        BY <3>1, FS_Union
    <3>3. Cardinality(H \cap Forgetful) \in Nat /\ Cardinality(H \cup Forgetful) \in Nat
        BY <3>1, <3>2, FS_Intersection, FS_CardinalityType
    <3>4. Cardinality(Writers(q)) <= Cardinality(H \cup Forgetful)
        BY <2>3, <3>2, FS_Subset
    <3> QED
        BY <3>1, <3>2, <3>3, <3>4
  <2>7. /\ Cardinality(H) \in Nat /\ Cardinality(Forgetful) \in Nat
        /\ Cardinality(Writers(q)) \in Nat
      BY <2>4, ServerSet
  <2>8. Cardinality(H) + dups + restarts >= Needed(q)
      BY <2>2, <2>5, <2>6, <2>7
  <2> QED
      BY <2>8 DEF H
<1> QED
    BY <1>1, <1>2, <1>3, ToleranceInvariant, OrderInvariant, PTL DEF SpecClients

----------------------------------------------------------------------------

(***************************************************************************)
(* The quorums of calls on one key.  All contact the first servers of the  *)
(* same walk.                                                              *)
(***************************************************************************)
LEMMA FirstServers ==
    ASSUME Types, NEW o \in DOMAIN program
    PROVE  /\ N(o) \in Nat /\ Contacted(o) \subseteq Server
           /\ Contacted(o) = {Contact[program[o].key][m] : m \in 1..N(o)}
           /\ IsFiniteSet(Contacted(o)) /\ Cardinality(Contacted(o)) <= N(o)
<1> DEFINE walk == Contact[program[o].key]
<1>1. /\ N(o) \in Nat /\ N(o) = program[o].N
      /\ \A m \in 1..N(o) : servers_to_contact(o)[m] \in Server
    BY CallFacts DEF Types
<1>2. walk \in Seq(Server) /\ program[o].N <= Len(walk)
    BY CallFacts, DhtAssumption DEF Types, ProgramOK
<1>3. servers_to_contact(o) = SubSeq(walk, 1, program[o].N)
    BY DEF servers_to_contact
<1> HIDE DEF walk
<1>4. \A m \in 1..N(o) : servers_to_contact(o)[m] = walk[m]
    BY <1>1, <1>2, <1>3
<1>5. Contacted(o) = {walk[m] : m \in 1..N(o)} /\ Contacted(o) \subseteq Server
    BY <1>1, <1>4 DEF Contacted
<1>6. IsFiniteSet(Contacted(o)) /\ Cardinality(Contacted(o)) <= N(o)
  <2> DEFINE f == [m \in 1..N(o) |-> walk[m]]
  <2>1. f \in Surjection(1..N(o), Contacted(o))
      BY <1>5 DEF Surjection
  <2>2. IsFiniteSet(1..N(o)) /\ Cardinality(1..N(o)) = N(o)
    <3>1. /\ IsFiniteSet(1..N(o))
          /\ Cardinality(1..N(o)) = IF 1 > N(o) THEN 0 ELSE N(o) - 1 + 1
        BY <1>1, FS_Interval
    <3> QED
        BY <1>1, <3>1
  <2> HIDE DEF f
  <2> QED
      BY ONLY <1>1, <2>1, <2>2, FS_Surjection
<1> QED
    BY <1>1, <1>5, <1>6 DEF walk

LEMMA QuorumsMeet ==
    ASSUME Types, NEW o \in DOMAIN program, NEW p \in DOMAIN program,
           program[o].key = program[p].key,
           NEW A, A \subseteq Contacted(o), NEW B, B \subseteq Contacted(p),
           Cardinality(A) + Cardinality(B) > IF N(o) > N(p) THEN N(o) ELSE N(p)
    PROVE  A \cap B # {}
<1> DEFINE x == IF N(o) > N(p) THEN o ELSE p
<1>1. N(o) \in Nat /\ N(p) \in Nat /\ A \subseteq Server /\ B \subseteq Server
    BY FirstServers
<1>2. /\ x \in DOMAIN program /\ N(x) \in Nat
      /\ N(x) = IF N(o) > N(p) THEN N(o) ELSE N(p)
      /\ N(o) <= N(x) /\ N(p) <= N(x) /\ program[x].key = program[o].key
    BY <1>1
<1> HIDE DEF x
<1>3. A \subseteq Contacted(x) /\ B \subseteq Contacted(x)
  <2>1. \A m \in 1..N(o) : m \in 1..N(x)
      BY <1>1, <1>2
  <2>2. \A m \in 1..N(p) : m \in 1..N(x)
      BY <1>1, <1>2
  <2>3. Contacted(o) \subseteq Contacted(x)
      BY <1>2, <2>1, FirstServers
  <2>4. Contacted(p) \subseteq Contacted(x)
      BY <1>2, <2>2, FirstServers
  <2> QED
      BY <2>3, <2>4
<1>4. IsFiniteSet(Contacted(x)) /\ Cardinality(Contacted(x)) <= N(x)
    BY <1>2, FirstServers
<1>5. /\ Cardinality(A) \in Nat /\ Cardinality(B) \in Nat /\ Cardinality(Contacted(x)) \in Nat
    BY <1>1, <1>4, ServerSet, FS_CardinalityType
<1>6. Cardinality(A) + Cardinality(B) > Cardinality(Contacted(x))
    BY <1>2, <1>4, <1>5
<1> QED
    BY <1>3, <1>4, <1>6, FS_MajoritiesIntersect

\* Of some calls that have begun, one began last: what was past for the others
\* was past for it.
LEMMA LastBegun ==
    ASSUME PastInv, NEW S, S \subseteq Begun, S # {}
    PROVE  \E q \in S : \A p \in S : before[p] \subseteq before[q]
<1> DEFINE left(q) == Cardinality(Begun \ before[q])
           T == {left(q) : q \in S}
<1>1. \A q \in S : before[q] \subseteq Begun
    BY DEF PastInv, Begun, Returned
<1>2. \A q \in S : IsFiniteSet(Begun \ before[q]) /\ left(q) \in Nat
  <2> SUFFICES ASSUME NEW q \in S PROVE IsFiniteSet(Begun \ before[q]) /\ left(q) \in Nat
      OBVIOUS
  <2>1. IsFiniteSet(Begun \ before[q])
      BY FS_Difference DEF PastInv
  <2> QED
      BY <2>1, FS_CardinalityType
<1>3. PICK n \in T : \A m \in T : ~ <<m, n>> \in OpToRel(<, Nat)
  <2>1. T \subseteq Nat /\ T # {}
      BY <1>2
  <2> HIDE DEF T
  <2> QED
      BY <2>1, NatLessThanWellFounded, WFMin
<1>4. PICK q \in S : n = left(q)
    OBVIOUS
<1>5. ASSUME NEW p \in S PROVE before[p] \subseteq before[q]
  <2>1. before[p] \subseteq before[q] \/ before[q] \subseteq before[p]
      BY DEF PastInv, Begun
  <2>2. CASE before[q] \subseteq before[p]
    <3>1. Begun \ before[p] \in SUBSET (Begun \ before[q])
        BY <2>2
    <3>2. left(p) <= left(q) /\ (left(q) = left(p) => Begun \ before[q] = Begun \ before[p])
        BY <1>2, <3>1, FS_Subset
    <3>3. left(p) \in Nat /\ left(q) \in Nat /\ ~ left(p) < left(q)
        BY <1>2, <1>3, <1>4 DEF OpToRel
    <3>4. Begun \ before[q] = Begun \ before[p]
        BY <3>2, <3>3
    <3> QED
        BY <1>1, <3>4
  <2> QED
      BY <2>1, <2>2
<1> QED
    BY <1>5

\* A get is answered what was stored at the beginning, or what has been put.
LEMMA AnswersKnown ==
    ASSUME DhtInv, OrderInv, Orderly, NEW g \in Reads, NEW x \in answered[g]
    PROVE  x[2] \in InitialAnswers(program[g].key)
                       \cup {program[p].value : p \in PutsMixed(program[g].key)}
<1>1. answered[g] \subseteq Server \X Value /\ CallPlaces /\ AnsweredFresh
    BY DEF Reads, DhtInv, Types, ServersOK, OrderInv, CallsPast, Fresh
<1>2. PICK s \in Server, a \in Value : x = <<s, a>>
    BY <1>1
<1> DEFINE k == program[g].key
<1>3. Source(Sooner(s, g), k, a, PutsTo(s, k) \cap before[g])
    BY <1>1, <1>2 DEF AnsweredFresh
<1>4. \/ \E p \in applied[s] : program[p].key \in Mixed(k) /\ program[p].value = a
      \/ a \in InitialAnswers(k)
    BY <1>3 DEF Source, Sooner
<1>5. applied[s] \subseteq Puts
    BY <1>1 DEF CallPlaces
<1> QED
    BY <1>2, <1>4, <1>5 DEF PutsMixed

(***************************************************************************)
(* What a get returns, R different servers have answered, if none of the   *)
(* answers it may meet is a prefix of another.                             *)
(***************************************************************************)
LEMMA AnsweredByQuorum ==
    ASSUME DhtInv, OrderInv, Countable, Orderly, dups = 0,
           NEW g \in Gets, call[g].pc = "ok", RequestKind(g) = "read",
           DistinctVotes(program[g].key), NEW v \in call[g].value
    PROVE  /\ v \in Value /\ Answering(g, v) \subseteq Contacted(g)
           /\ Cardinality(Answering(g, v)) \in Nat
           /\ Cardinality(Answering(g, v)) >= Quorum(g) /\ Cardinality(Answering(g, v)) >= 1
<1> DEFINE values == InitialAnswers(program[g].key)
                       \cup {program[p].value : p \in PutsMixed(program[g].key)}
<1>1. /\ g \in DOMAIN program /\ ~ IsPut(g) /\ g \in Reads
      /\ answered \in [Gets -> SUBSET (Server \X Value)]
      /\ CallPlaces /\ Types
    BY DEF Gets, Reads, DhtInv, Types, ServersOK, OrderInv, CallsPast
<1>2. PICK s \in Server : <<s, v>> \in answered[g]
    BY <1>1 DEF CallPlaces
<1>3. v \in Value
    BY <1>1, <1>2
<1>4. \A x \in answered[g] : x[2] \in values
    BY <1>1, AnswersKnown
<1>5. \A a, b \in values : a # b => <<a, b>> \notin VotePrefix
    BY DEF DistinctVotes
<1> HIDE DEF values
<1>6. PICK q \in Answer : <<v, q>> \in VotePrefix /\ Cardinality(Counting(g, q)) + dups >= Needed(g)
  <2>1. Quorum(g) <= CharHalf + 1
      BY DEF Countable
  <2> QED
      BY <1>1, <2>1 DEF DhtInv, CallInv, GetReached
<1>7. Counting(g, q) \subseteq Answering(g, v)
  <2> SUFFICES ASSUME NEW x \in Server, NEW a, <<x, a>> \in answered[g], <<a, q>> \in VotePrefix
               PROVE  a = v
      BY DEF Counting, Answering
  <2>1. a \in Value /\ a \in Answer /\ v \in Answer /\ a \in values /\ v \in values
      BY <1>1, <1>2, <1>3, <1>4 DEF Answer
  <2>2. <<a, v>> \in VotePrefix \/ <<v, a>> \in VotePrefix
      BY <1>6, <2>1, DhtAssumption DEF Votes!BucketsAssumption
  <2> QED
      BY <1>5, <2>1, <2>2
<1>8. Answering(g, v) \subseteq Server /\ Counting(g, q) \subseteq Server
    BY DEF Answering, Counting
<1>9. /\ Cardinality(Answering(g, v)) \in Nat /\ Cardinality(Counting(g, q)) \in Nat
      /\ Cardinality(Counting(g, q)) <= Cardinality(Answering(g, v))
    BY <1>7, <1>8, ServerSet, FS_Subset
<1>10. Quorum(g) \in Nat /\ Needed(g) \in Nat /\ Needed(g) >= Quorum(g) /\ Needed(g) >= 1
    BY <1>1, Counts DEF Needed
<1>11. Answering(g, v) \subseteq Contacted(g)
  <2>1. Answering(g, v) \subseteq Givers(g, Answer)
      BY <1>1, <1>3 DEF Answering, Givers, Answer
  <2> QED
      BY <1>1, <2>1 DEF CallPlaces, Touched
<1>12. Cardinality(Counting(g, q)) >= Needed(g)
    BY <1>6, <1>9
<1> QED
    BY <1>3, <1>9, <1>10, <1>11, <1>12

(***************************************************************************)
(* network_get is regular: with intersecting quorums, orderly servers and  *)
(* no duplicates, it returns nothing that a completed put has superseded.  *)
(* Of the completed puts take the one that began last: a server that has   *)
(* performed it has given the answer, and no put it performed was past for *)
(* any of them.                                                            *)
(***************************************************************************)
THEOREM ReadsAreRegular ==
    ASSUME CountableReads PROVE SpecClients => []RegularReads
<1>1. DhtInv /\ OrderInv /\ Countable => RegularReads
  <2> SUFFICES ASSUME DhtInv, OrderInv, Countable, Orderly, dups = 0, NEW g \in Gets,
                      call[g].pc = "ok", RequestKind(g) = "read",
                      DistinctVotes(program[g].key), NEW v \in call[g].value
               PROVE  v \in Current(g)
      BY DEF RegularReads
  <2> DEFINE A == Answering(g, v)
  <2>1. /\ v \in Value /\ A \subseteq Contacted(g) /\ Cardinality(A) \in Nat
        /\ Cardinality(A) >= Quorum(g) /\ Cardinality(A) >= 1
      BY AnsweredByQuorum
  <2>2. \A s \in A : s \in Server /\ <<s, v>> \in answered[g]
      BY DEF Answering
  <2> HIDE DEF A
  <2>3. /\ g \in DOMAIN program /\ g \in Reads /\ Types /\ PastInv /\ CallPlaces
        /\ AnsweredFresh
        /\ \A s \in Server : applied[s] \subseteq Begun /\ applied[s] \subseteq Puts
      BY OnlyBegun DEF Gets, Reads, DhtInv, OrderInv, CallsPast, CallPlaces, Fresh
  <2>4. PICK k : k = program[g].key
      OBVIOUS
  <2>5. ASSUME NEW s \in A, NEW p \in applied[s], program[p].key \in Mixed(k),
               program[p].value = v, \A q \in Completed(g) : p \notin before[q]
        PROVE  v \in Current(g)
    <3>1. p \in PutsMixed(k) /\ call[p].pc # "new"
        BY <2>2, <2>3, <2>5 DEF PutsMixed, Begun
    <3> QED
        BY <2>4, <2>5, <3>1 DEF Current
  <2>6. ASSUME NEW s \in A PROVE Source(Sooner(s, g), k, v, PutsTo(s, k) \cap before[g])
      BY <2>1, <2>2, <2>3, <2>4 DEF AnsweredFresh
  <2>7. CASE Completed(g) = {}
    <3>1. PICK s : s \in A
      <4>1. A # {}
          BY <2>1, FS_EmptySet
      <4> QED
          BY <4>1
    <3>2. \/ \E p \in applied[s] : program[p].key \in Mixed(k) /\ program[p].value = v
          \/ v \in InitialAnswers(k)
        BY <2>6, <3>1 DEF Source, Sooner
    <3>3. v \in InitialAnswers(k) => v \in Current(g)
        BY <2>4, <2>7 DEF Current
    <3> QED
        BY <2>5, <2>7, <3>1, <3>2, <3>3
  <2>8. CASE Completed(g) # {}
    <3>1. \A q \in Completed(g) :
             /\ q \in DOMAIN program /\ IsPut(q) /\ q \in before[g] /\ q \in Begun
             /\ program[q].key = k /\ call[q].pc = "ok" /\ Intersect(q, g)
        BY <2>4 DEF Completed, Puts, Begun
    <3>2. PICK q \in Completed(g) : \A r \in Completed(g) : before[r] \subseteq before[q]
      <4>1. Completed(g) \subseteq Begun
          BY <3>1
      <4> QED
          BY <2>3, <2>8, <4>1, LastBegun
    <3>3. /\ q \in DOMAIN program /\ IsPut(q) /\ q \in before[g] /\ program[q].key = k
          /\ call[q].pc = "ok" /\ Intersect(q, g)
        BY <3>1
    <3>4. /\ Writers(q) \subseteq Contacted(q) /\ Cardinality(Writers(q)) \in Nat
          /\ Cardinality(Writers(q)) >= Quorum(q)
      <4>1. Writers(q) \subseteq Contacted(q)
          BY <2>3, <3>3 DEF CallPlaces, Touched, Givers
      <4>2. Cardinality(Writers(q)) \in Nat
        <5>1. Writers(q) \subseteq Server
            BY DEF Writers
        <5> QED
            BY <5>1, ServerSet
      <4>3. Cardinality(Writers(q)) + dups >= Needed(q)
          BY <3>3 DEF DhtInv, CallInv, PutReached
      <4>4. Quorum(q) \in Nat /\ Needed(q) \in Nat /\ Needed(q) >= Quorum(q)
          BY <2>3, <3>3, Counts DEF Needed
      <4> QED
          BY <4>1, <4>2, <4>3, <4>4
    <3>5. PICK s : s \in Writers(q) /\ s \in A
      <4>1. N(q) \in Nat /\ N(g) \in Nat /\ Quorum(q) \in Nat /\ Quorum(g) \in Nat
          BY <2>3, <3>3, Counts
      <4>2. Cardinality(Writers(q)) + Cardinality(A) > IF N(q) > N(g) THEN N(q) ELSE N(g)
          BY <2>1, <3>3, <3>4, <4>1 DEF Intersect
      <4>3. Writers(q) \cap A # {}
          BY <2>1, <2>3, <2>4, <3>3, <3>4, <4>2, QuorumsMeet
      <4> QED
          BY <4>3
    <3>6. q \in PutsTo(s, k) \cap before[g]
        BY <3>3, <3>5 DEF Writers, PutsTo
    <3>7. PICK p \in applied[s] : /\ program[p].key \in Mixed(k) /\ program[p].value = v
                                  /\ p \notin before[q]
        BY <2>6, <3>5, <3>6 DEF Source, Sooner
    <3>8. \A r \in Completed(g) : p \notin before[r]
        BY <3>2, <3>7
    <3> QED
        BY <2>5, <3>5, <3>7, <3>8
  <2> QED
      BY <2>7, <2>8
<1> QED
    BY <1>1, OrderInvariant, ReadsStayCountable, PTL

(***************************************************************************)
(* Two gets of a key with R a majority of N agree unless a put comes       *)
(* between them: a server has answered both, and its table, as far as the  *)
(* key is concerned, was the same both times.                              *)
(***************************************************************************)
THEOREM ReadsAreStable ==
    ASSUME CountableReads PROVE SpecClients => []StableReads
<1>1. DhtInv /\ OrderInv /\ Countable => StableReads
  <2> SUFFICES ASSUME DhtInv, OrderInv, Countable, Orderly, dups = 0, NEW g \in Gets, NEW h \in Gets,
                      g \in before[h], call[g].pc = "ok", call[h].pc = "ok",
                      RequestKind(g) = "read", program[g].key = program[h].key,
                      N(g) = N(h), 2 * Quorum(g) > N(g), Quorum(h) >= Quorum(g),
                      DistinctVotes(program[g].key), Undisturbed(g, h)
               PROVE  call[g].value = call[h].value
      BY DEF StableReads
  <2>1. /\ g \in DOMAIN program /\ h \in DOMAIN program /\ ~ IsPut(g) /\ ~ IsPut(h)
        /\ Types /\ Agreed
      BY DEF Gets, DhtInv, OrderInv, Fresh
  <2>2. RequestKind(h) = "read" /\ g \in Reads /\ h \in Reads
      BY <2>1 DEF RequestKind, Reads
  <2>3. ASSUME NEW v \in call[g].value, NEW w \in call[h].value PROVE v = w
    <3>1. /\ v \in Value /\ Answering(g, v) \subseteq Contacted(g)
          /\ Cardinality(Answering(g, v)) \in Nat /\ Cardinality(Answering(g, v)) >= Quorum(g)
        BY AnsweredByQuorum
    <3>2. /\ w \in Value /\ Answering(h, w) \subseteq Contacted(h)
          /\ Cardinality(Answering(h, w)) \in Nat /\ Cardinality(Answering(h, w)) >= Quorum(h)
        BY <2>2, AnsweredByQuorum
    <3>3. N(g) \in Nat /\ Quorum(g) \in Nat /\ Quorum(h) \in Nat
        BY <2>1, Counts
    <3>4. Cardinality(Answering(g, v)) + Cardinality(Answering(h, w))
             > IF N(g) > N(h) THEN N(g) ELSE N(h)
        BY <3>1, <3>2, <3>3
    <3>5. PICK s : s \in Answering(g, v) /\ s \in Answering(h, w)
      <4>1. Answering(g, v) \cap Answering(h, w) # {}
          BY <2>1, <3>1, <3>2, <3>4, QuorumsMeet
      <4> QED
          BY <4>1
    <3>6. s \in Server /\ <<s, v>> \in answered[g] /\ <<s, w>> \in answered[h]
        BY <3>5 DEF Answering
    <3> QED
        BY <2>1, <2>2, <3>1, <3>2, <3>6 DEF Agreed
  <2>4. call[g].value # {} /\ call[h].value # {}
      BY <2>1, CallTyped DEF Types, CallOK
  <2>5. PICK v, w : v \in call[g].value /\ w \in call[h].value
      BY <2>4
  <2>6. call[g].value = {w} /\ call[h].value = {v} /\ v = w
      BY <2>3, <2>5
  <2> QED
      BY <2>6
<1> QED
    BY <1>1, OrderInvariant, ReadsStayCountable, PTL

----------------------------------------------------------------------------

(***************************************************************************)
(* What a put has written is found.  A server misses the puts before get g *)
(* if it has performed none of those to its key, and none waits there; it  *)
(* has settled the get if it has answered, or had nothing to find.         *)
(***************************************************************************)
Missed(s, g) ==
    \A q \in before[g] \cap Puts : program[q].key = program[g].key =>
        q \notin applied[s] /\ s \notin Asked(inbox, q)

Settled(s, g) == (\E a \in Value : <<s, a>> \in answered[g]) \/ Missed(s, g)

\* The servers that must have settled get g.
Certain(g) ==
    IF Open(g) THEN Heard(g)
    ELSE IF net.prompt /\ dups = 0 /\ call[g].pc = "fail" THEN Contacted(g) \ faulty[g]
    ELSE {}

FaultsOK == faulty \in [DOMAIN program -> SUBSET Server]

FoundInv ==
    FaultsOK /\ (Orderly => \A g \in Reads : \A s \in Certain(g) : Settled(s, g))

LEMMA FoundInit ==
    ASSUME InitClients PROVE FoundInv
<1>1. /\ call = [o \in DOMAIN program |-> NoCall]
      /\ faulty = [o \in DOMAIN program |-> {}]
    BY DEF InitClients, Init
<1>2. \A g \in Reads : Certain(g) = {}
    BY <1>1, Locals DEF Reads, Gets, Certain, Open
<1> QED
    BY <1>1, <1>2 DEF FoundInv, FaultsOK

LEMMA FaultsGrow ==
    ASSUME Types, FaultsOK, program' = program,
           \/ \E s \in Server : Serve(s) \/ Restart(s)
           \/ \E o \in DOMAIN program : Client(o)
    PROVE  FaultsOK' /\ \A o \in DOMAIN program : faulty[o] \subseteq faulty'[o]
<1>1. ASSUME NEW p \in DOMAIN program, NEW s \in Server,
             faulty' = faulty \/ faulty' = [faulty EXCEPT ![p] = @ \cup {s}]
      PROVE  FaultsOK' /\ \A o \in DOMAIN program : faulty[o] \subseteq faulty'[o]
    BY <1>1 DEF FaultsOK
<1>2. faulty' = faulty => FaultsOK' /\ \A o \in DOMAIN program : faulty[o] \subseteq faulty'[o]
    BY DEF FaultsOK
<1>3. ASSUME NEW s \in Server, Serve(s)
      PROVE  FaultsOK' /\ \A o \in DOMAIN program : faulty[o] \subseteq faulty'[o]
  <2>1. PICK j \in 1..Len(inbox[s]), n \in 0..2, x \in Answer : BlamedAs(s, j, n, x)
      BY <1>3, ServeForm
  <2>2. PICK p \in DOMAIN program : p = inbox[s][j]
      BY DEF Types, RequestsOK
  <2> QED
      BY <1>1, <2>1, <2>2 DEF BlamedAs
<1>4. ASSUME NEW s \in Server, Restart(s)
      PROVE  FaultsOK' /\ \A o \in DOMAIN program : faulty[o] \subseteq faulty'[o]
    BY <1>4 DEF Restart, FaultsOK
<1>5. ASSUME NEW p \in DOMAIN program, Client(p)
      PROVE  FaultsOK' /\ \A o \in DOMAIN program : faulty[o] \subseteq faulty'[o]
  <2>1. CASE Send(p)
    <3>1. PICK s \in Server : (faulty' = faulty) \/ Blame(p, s)
        BY <2>1, OwnSend
    <3> QED
        BY <1>1, <3>1 DEF Blame
  <2>2. CASE LoseVotes(p)
    <3>1. PICK x \in BagToSet(socket[p]) : \E vote : Hearing(p, x, vote)
        BY <2>2, GetHears DEF LoseVotes
    <3>2. \E S \in SUBSET Server : faulty' = faulty \/ faulty' = [faulty EXCEPT ![p] = @ \cup S]
      <4>1. BagToSet(socket[p]) \subseteq Server \X Answer
          BY CallTyped DEF Types
      <4>2. x[1] \in Server /\ Left(p, x) \subseteq Server
          BY <4>1 DEF Left, Voters, Answering
      <4> QED
          BY <3>1, <4>2 DEF Hearing
    <3> QED
        BY <3>2 DEF FaultsOK
  <2>3. CASE ~ Send(p) /\ ~ LoseVotes(p)
      BY <1>2, <1>5, <2>3 DEF Client, Start, SendFails, Receive, Timeout, history
  <2> QED
      BY <2>1, <2>2, <2>3
<1> QED
    BY <1>3, <1>4, <1>5

\* What a server has settled stays settled: a put that is past sends no more.
LEMMA SettledStays ==
    ASSUME NEW g, NEW s \in Server, Settled(s, g), answered[g] \subseteq answered'[g],
           before'[g] = before[g], program'[g].key = program[g].key, Puts' = Puts,
           \A q \in before[g] : /\ program'[q].key = program[q].key
                                /\ Asked(inbox', q) \subseteq Asked(inbox, q)
                                /\ q \in applied'[s] => q \in applied[s] \/ s \in Asked(inbox, q)
    PROVE  Settled(s, g)'
<1>1. CASE \E a \in Value : <<s, a>> \in answered[g]
    BY <1>1 DEF Settled
<1>2. CASE Missed(s, g)
  <2> SUFFICES ASSUME NEW q \in before[g] \cap Puts, program'[q].key = program'[g].key
               PROVE  q \notin applied'[s] /\ s \notin Asked(inbox', q)
      BY DEF Settled, Missed
  <2>1. q \in before[g] /\ q \in Puts /\ program[q].key = program[g].key
      OBVIOUS
  <2>2. q \notin applied[s] /\ s \notin Asked(inbox, q)
      BY <1>2, <2>1 DEF Missed
  <2> QED
      BY <2>1, <2>2
<1> QED
    BY <1>1, <1>2 DEF Settled

----------------------------------------------------------------------------

(***************************************************************************)
(* A server answers a get, is blamed, or has nothing under its key.        *)
(***************************************************************************)
LEMMA ReadServed ==
    ASSUME Types, FaultsOK, net.ordered, NEW s \in Server, Serve(s), NEW g \in Reads, Open(g),
           g = inbox[s][1], s \notin faulty'[g]
    PROVE  \/ \E a \in Value : <<s, a>> \in answered'[g]
           \/ Found(s, program[g].key) = {}
<1>1. /\ g \in DOMAIN program /\ g \in Gets /\ RequestKind(g) = "read"
      /\ g \in DOMAIN faulty /\ answered \in [Gets -> SUBSET (Server \X Value)]
      /\ program[g].key \in Key /\ store[s] \in Store!Table
    BY CallFacts DEF Types, Reads, Gets, FaultsOK, ServersOK
<1>2. Read(g, s) \/ NoMemory(g, s)
    BY <1>1 DEF Serve, Ping, DumpNode, Write
<1>3. ~ Blame(g, s)
    BY <1>1 DEF Blame
<1>4. Read(g, s)
    BY <1>2, <1>3 DEF NoMemory
<1> DEFINE found == Store!get_Htable_value(store[s], program[g].key)
<1>5. CASE found = {}
    BY <1>5 DEF Found
<1>6. CASE found # {}
  <2>1. PICK v \in found : Reply(g, s, v)
      BY <1>4, <1>6 DEF Read
  <2>2. Received[v] \in Value
    <3>1. v \in Value
        BY <1>1, StoreTables
    <3> QED
        BY <3>1, DhtAssumption
  <2>3. PICK n \in Copies :
           /\ answered' = IF n > 0 /\ Open(g) /\ g \in Gets
                          THEN [answered EXCEPT ![g] = @ \cup {<<s, Received[v]>>}] ELSE answered
           /\ BlameLoss(g, s, n)
      BY <2>1 DEF Reply
  <2>4. n > 0
      BY <1>3, <2>3 DEF BlameLoss, Copies
  <2>5. <<s, Received[v]>> \in answered'[g]
      BY <1>1, <2>3, <2>4
  <2> QED
      BY <2>2, <2>5
<1> QED
    BY <1>5, <1>6

LEMMA ServedSettles ==
    ASSUME DhtInv, OrderInv, FoundInv, NEW s \in Server, Serve(s), Orderly,
           UNCHANGED <<program, net, initial>>, NEW g \in Reads, NEW t \in Certain(g)'
    PROVE  Settled(t, g)'
<1>1. /\ Types /\ CallPlaces /\ ServedInOrder /\ WrittenKept /\ FaultsOK
      /\ g \in DOMAIN program /\ g \in Gets /\ net.ordered
      /\ inbox \in Boxes(DOMAIN program)
      /\ \A q \in DOMAIN program : IsFiniteSet(Requests(inbox, q))
      /\ answered \in [Gets -> SUBSET (Server \X Value)]
      /\ applied \in [Server -> SUBSET DOMAIN program]
      /\ before[g] \subseteq DOMAIN program
    BY DEF DhtInv, Types, RequestsOK, Boxes, ServersOK, OrderInv, CallsPast, PastInv, Fresh,
           FoundInv, Orderly, Reads, Gets
<1>2. /\ 1 \in 1..Len(inbox[s]) /\ inbox' = Without(inbox, s, 1) /\ UNCHANGED <<call, before>>
      /\ Performed(inbox[s][1], s) \/ Told(inbox[s][1], s) \/ Aside
    BY <1>1, ServeEffect
<1>3. PICK o : o = inbox[s][1]
    OBVIOUS
<1>4. ASSUME NEW q \in DOMAIN program
      PROVE  /\ Asked(inbox', q) \subseteq Asked(inbox, q)
             /\ q # o => Asked(inbox', q) = Asked(inbox, q)
             /\ q = o => Asked(inbox, q) \subseteq Asked(inbox', q) \cup {s}
    BY <1>1, <1>2, <1>3, Handled
<1>5. dups' = 0 => dups = 0
  <2>1. PICK j \in 1..Len(inbox[s]), n \in 0..2, x \in Answer : ServedAs(s, j, n, x)
      BY <1>1, ServeForm
  <2>2. dups \in Nat
      BY <1>1, Counts
  <2> QED
      BY <2>1, <2>2 DEF ServedAs
<1>6. FaultsOK' /\ faulty[g] \subseteq faulty'[g]
    BY <1>1, FaultsGrow
<1>7. /\ Puts' = Puts /\ Contacted(g)' = Contacted(g) /\ Reached(g)' = Reached(g)
      /\ Open(g)' <=> Open(g)
    BY <1>2 DEF Puts, IsPut, Contacted, N, servers_to_contact, Reached, SentTo, Open
<1>8. t \in Certain(g) \/ (Open(g) /\ g = o /\ t = s /\ s \notin faulty'[g])
  <2>1. CASE Open(g)
    <3>1. Certain(g)' = Reached(g) \ (Asked(inbox', g) \cup faulty'[g])
        BY <1>7, <2>1 DEF Certain, Heard
    <3>2. Certain(g) = Reached(g) \ (Asked(inbox, g) \cup faulty[g])
        BY <2>1 DEF Certain, Heard
    <3> QED
        BY <1>1, <1>4, <1>6, <2>1, <3>1, <3>2
  <2>2. CASE ~ Open(g)
      BY <1>2, <1>5, <1>6, <1>7, <2>2 DEF Certain
  <2> QED
      BY <2>1, <2>2
<1>9. t \in Server
  <2>1. Certain(g) \subseteq Server
      BY <1>1, Counts, FirstServers DEF Certain
  <2> QED
      BY <1>8, <2>1
<1>10. ASSUME t \in Certain(g) PROVE Settled(t, g)'
  <2>1. Settled(t, g)
      BY <1>10 DEF FoundInv
  <2>2. answered[g] \subseteq answered'[g]
    <3>1. CASE Performed(o, s)
        BY <3>1 DEF Performed
    <3>2. CASE Told(o, s)
        BY <1>1, <3>2 DEF Told
    <3>3. CASE Aside
        BY <3>3 DEF Aside
    <3> QED
        BY <1>2, <1>3, <3>1, <3>2, <3>3
  <2>3. \A q : q \in applied'[t] => q \in applied[t] \/ t \in Asked(inbox, q)
    <3>1. s \in Asked(inbox, o)
        BY <1>2, <1>3 DEF Asked
    <3>2. applied' = applied \/ applied' = [applied EXCEPT ![s] = @ \cup {o}]
        BY <1>2, <1>3 DEF Performed, Told, Aside
    <3> QED
        BY <1>1, <1>9, <3>1, <3>2
  <2> QED
      BY <1>1, <1>2, <1>4, <1>7, <1>9, <2>1, <2>2, <2>3, SettledStays
<1>11. ASSUME Open(g), g = o, t = s, s \notin faulty'[g] PROVE Settled(t, g)'
  <2>1. \/ \E a \in Value : <<s, a>> \in answered'[g]
        \/ Found(s, program[g].key) = {}
      BY <1>1, <1>3, <1>11, ReadServed
  <2>2. ASSUME Found(s, program[g].key) = {} PROVE Missed(s, g)'
    <3> SUFFICES ASSUME NEW q \in before[g], q \in Puts, program[q].key = program[g].key
                 PROVE  q \notin applied'[s] /\ s \notin Asked(inbox', q)
        BY <1>2, <1>7 DEF Missed
    <3>1. q \notin applied[s]
        BY <2>2 DEF WrittenKept, Fresh, OrderInv
    <3>2. applied' = applied
      <4>1. o \notin Puts
          BY <1>1, <1>11, Kinds
      <4> QED
          BY <1>2, <1>3, <4>1 DEF Performed, Told, Aside
    <3>3. ASSUME NEW j \in 1..Len(inbox'[s]) PROVE inbox'[s][j] # q
      <4>1. inbox'[s] = RemoveAt(inbox[s], 1) /\ inbox[s] \in Seq(DOMAIN program)
          BY <1>1, <1>2 DEF Without, Boxes
      <4>2. /\ Len(inbox'[s]) = Len(inbox[s]) - 1 /\ Len(inbox[s]) \in Nat
            /\ \A m \in 1..(Len(inbox[s]) - 1) : inbox'[s][m] = inbox[s][m + 1]
        <5>1. PICK b : b = inbox[s]
            OBVIOUS
        <5>2. b \in Seq(DOMAIN program) /\ 1 \in 1..Len(b) /\ Len(b) \in Nat
            BY <1>2, <4>1, <5>1
        <5>3. /\ Len(RemoveAt(b, 1)) = Len(b) - 1
              /\ \A m \in 1..(Len(b) - 1) : RemoveAt(b, 1)[m] = IF m < 1 THEN b[m] ELSE b[m + 1]
            BY <5>2, RemovedPlace
        <5>4. \A m \in 1..(Len(b) - 1) : ~ m < 1
            BY <5>2
        <5>5. inbox'[s] = RemoveAt(b, 1)
            BY <4>1, <5>1
        <5> QED
            BY <5>1, <5>2, <5>3, <5>4, <5>5
      <4>3. j \in 1..(Len(inbox[s]) - 1)
          BY <3>3, <4>2
      <4>4. j + 1 \in 1..Len(inbox[s]) /\ 1 \in 1..(j + 1 - 1)
          BY ONLY <4>2, <4>3
      <4>5. inbox[s][j + 1] \notin before[inbox[s][1]]
          BY <1>1, <4>4 DEF ServedInOrder
      <4> QED
          BY <1>3, <1>11, <4>2, <4>3, <4>5
    <3> QED
        BY <3>1, <3>2, <3>3 DEF Asked
  <2> QED
      BY <1>11, <2>1, <2>2 DEF Settled
<1> QED
    BY <1>8, <1>10, <1>11

LEMMA ServerFound ==
    ASSUME DhtInv, OrderInv, FoundInv, NEW s \in Server, Serve(s) \/ Restart(s),
           UNCHANGED <<program, net, initial>>
    PROVE  FoundInv'
<1>1. FaultsOK'
    BY FaultsGrow DEF DhtInv, FoundInv
<1>2. Reads' = Reads
  <2>1. \A g \in DOMAIN program : RequestKind(g)' = RequestKind(g)
      BY DEF RequestKind, IsPut
  <2> QED
      BY <2>1 DEF Reads, Gets, IsPut
<1>3. CASE Serve(s)
  <2>1. Orderly' <=> Orderly
      BY <1>3 DEF Serve, Orderly
  <2> QED
      BY <1>1, <1>2, <1>3, <2>1, ServedSettles DEF FoundInv
<1>4. CASE Restart(s)
  <2>1. restarts' = restarts + 1 /\ restarts \in Nat
      BY <1>4 DEF Restart, OrderInv
  <2>2. ~ Orderly'
      BY <2>1 DEF Orderly
  <2> QED
      BY <1>1, <2>2 DEF FoundInv
<1> QED
    BY <1>3, <1>4

----------------------------------------------------------------------------

\* Where an answer leaves a get.
LEMMA HearingEnds ==
    ASSUME Types, NEW g \in DOMAIN program, call[g].pc = "receive",
           NEW x \in BagToSet(socket[g]), NEW vote, Hearing(g, x, vote)
    PROVE  /\ call'[g].pc \in {"ok", "receive", "fail"}
           /\ call'[g].pc = "fail" => ~ call[g].i + 1 < N(g)
<1>1. call[g] \in CallRecord /\ DOMAIN call = DOMAIN program /\ x[2] \in Answer
    BY CallTyped, HeardTypes DEF Types, CallsOK
<1>2. call'[g] = Voted(g, x[2], vote)
    BY <1>1 DEF Hearing, Become
<1>3. PICK l : l = [call[g] EXCEPT !.votes = vote.votes]
    OBVIOUS
<1>4. call'[g] \in {Done("ok", {x[2]}), NextAttempt(g, l)}
    BY <1>2, <1>3 DEF Voted
<1>5. Done("ok", {x[2]}).pc = "ok"
  <2>1. {x[2]} \in SUBSET Answer
      BY <1>1
  <2> QED
      BY <2>1, DoneLocals
<1>6. l.i = call[g].i /\ l.pc = "receive" /\ [l EXCEPT !.i = @ + 1].pc = "receive"
    BY <1>1, <1>3 DEF CallRecord
<1>7. /\ NextAttempt(g, l).pc \in {"receive", "fail"}
      /\ NextAttempt(g, l).pc = "fail" => ~ call[g].i + 1 < N(g)
    BY <1>6, DoneLocals DEF NextAttempt
<1> QED
    BY <1>4, <1>5, <1>7

\* When the last attempt of a get fails, none of its requests waits any more.
LEMMA LastAttempt ==
    ASSUME Types, NEW g \in DOMAIN program, ~ IsPut(g), Tolerant(g),
           Receive(g) \/ LoseVotes(g) \/ Timeout(g), net.prompt, dups = 0, call'[g].pc = "fail"
    PROVE  Asked(inbox, g) = {}
<1>1. Requests(inbox, g) = {}
  <2>1. CASE Timeout(g)
      BY <2>1 DEF Timeout, OnItsWay, Requests
  <2>2. CASE Receive(g) \/ LoseVotes(g)
    <3>1. call[g].pc = "receive" /\ Open(g)
        BY <2>2, GetHears DEF Open
    <3>2. PICK x \in BagToSet(socket[g]) : \E vote : Hearing(g, x, vote)
        BY <2>2, GetHears
    <3>3. BagToSet(socket[g]) \subseteq Server \X Answer /\ call[g] \in CallRecord
        BY CallTyped DEF Types
    <3>4. ~ call[g].i + 1 < N(g)
        BY <3>1, <3>2, HearingEnds
    <3>5. Answer \in SUBSET Answer
        OBVIOUS
    <3>6. Cardinality(Waiting(socket[g], Answer)) >= 1
      <4>1. x[2] \in Answer
          BY <3>3
      <4>2. PICK left, Q : left = socket[g] (-) SetToBag({x}) /\ Q = Answer
          OBVIOUS
      <4>3. /\ IsFiniteSet(Waiting(left, Q))
            /\ Cardinality(Waiting(left, Q)) = Cardinality(Waiting(socket[g], Q)) - 1
          BY <3>5, <4>1, <4>2, Taken
      <4>4. Cardinality(Waiting(left, Q)) \in Nat /\ Cardinality(Waiting(socket[g], Q)) \in Nat
          BY <3>5, <4>2, <4>3, FS_CardinalityType, Counts
      <4> QED
          BY <4>2, <4>3, <4>4
    <3>7. call[g].i + Cardinality(Waiting(socket[g], Answer)) + Cardinality(Requests(inbox, g)) <= N(g)
      <4>1. InTime(g)
          BY <3>1 DEF Tolerant, GetTolerant, GetOpen
      <4>2. Attempts(g) = call[g].i /\ SentTo(g) = N(g)
          BY <3>1 DEF Attempts, SentTo
      <4>3. N(g) \in Nat
          BY Counts
      <4> QED
          BY <4>1, <4>2, <4>3 DEF InTime
    <3>8. Cardinality(Requests(inbox, g)) = 0
      <4>1. /\ N(g) \in Nat /\ call[g].i \in Nat /\ Cardinality(Waiting(socket[g], Answer)) \in Nat
            /\ Cardinality(Requests(inbox, g)) \in Nat
          BY <3>5, Counts
      <4> QED
          BY <3>4, <3>6, <3>7, <4>1
    <3> QED
        BY <3>8, FS_EmptySet DEF Types, RequestsOK
  <2> QED
      BY <2>1, <2>2
<1>2. ASSUME NEW s \in Server, NEW j \in 1..Len(inbox[s]), inbox[s][j] = g PROVE FALSE
  <2>1. inbox[s] \in Seq(DOMAIN program)
      BY DEF Types, RequestsOK
  <2>2. j \in Nat
      BY <2>1
  <2>3. <<s, j>> \in Requests(inbox, g)
      BY <1>2, <2>2 DEF Requests
  <2> QED
      BY <1>1, <2>3
<1> QED
    BY <1>2 DEF Asked

(***************************************************************************)
(* A step of a client makes no server certain that was not.                *)
(***************************************************************************)
LEMMA OwnCertain ==
    ASSUME DhtInv, ToleranceInv, FaultsOK, FaultsOK', NEW g \in Reads, Client(g),
           UNCHANGED <<program, net>>
    PROVE  Certain(g)' \subseteq Certain(g)
<1>1. g \in DOMAIN program /\ g \in Gets /\ ~ IsPut(g) /\ Types /\ Tolerant(g)
    BY DEF Reads, Gets, DhtInv, ToleranceInv
<1>2. /\ N(g)' = N(g) /\ N(g) \in Nat /\ servers_to_contact(g)' = servers_to_contact(g)
      /\ call[g] \in CallRecord /\ DOMAIN call = DOMAIN program
    BY <1>1, Counts, CallTyped DEF N, servers_to_contact, Types, CallsOK
<1>3. call'[g].pc \in {"ok", "error", "killed"} => Certain(g)' = {}
    BY DEF Certain, Open
<1>4. CASE Start(g)
  <2>1. call'[g] \in {[NoCall EXCEPT !.pc = "send"], Done("error", {}), Done("killed", {})}
      BY <1>2, <1>1, <1>4 DEF Start, Become
  <2>2. CASE call'[g] \in {Done("error", {}), Done("killed", {})}
      BY <1>3, <2>2, DoneLocals
  <2>3. CASE call'[g] = [NoCall EXCEPT !.pc = "send"]
    <3>1. call'[g].pc = "send" /\ call'[g].i = 0
        BY <2>3, Locals
    <3>2. Reached(g)' = {}
        BY <3>1 DEF Reached, SentTo
    <3> QED
        BY <3>1, <3>2 DEF Certain, Open, Heard
  <2> QED
      BY <2>1, <2>2, <2>3
<1>5. CASE Send(g)
  <2>1. PICK s \in Server, n \in 0..2 :
              /\ inbox' = Sending(inbox, s, n, g)
              /\ n = 0 => Blame(g, s)
              /\ n > 0 => faulty' = faulty
              /\ Open(g) /\ Open(g)'
              /\ Reached(g)' = Reached(g) \cup {s}
      BY <1>1, <1>5, OwnSend
  <2>2. faulty[g] \subseteq faulty'[g] /\ (n = 0 => s \in faulty'[g])
      BY <1>1, <2>1 DEF Blame, FaultsOK
  <2>3. Asked(inbox', g) = Asked(inbox, g) \cup (IF n > 0 THEN {s} ELSE {})
    <3>1. inbox \in Boxes(DOMAIN program) /\ IsFiniteSet(Requests(inbox, g))
        BY <1>1 DEF Types, RequestsOK, Boxes
    <3> QED
        BY <1>1, <2>1, <3>1, CopiesSent
  <2> QED
      BY <2>1, <2>2, <2>3 DEF Certain, Heard
<1>6. CASE SendFails(g)
  <2>1. call'[g] = Done("error", {})
      BY <1>1, <1>2, <1>6 DEF SendFails, Become
  <2> QED
      BY <1>3, <2>1, DoneLocals
<1>7. CASE Receive(g) \/ LoseVotes(g) \/ Timeout(g)
  <2>1. /\ call[g].pc = "receive" /\ UNCHANGED <<inbox, dups>> /\ Open(g)
        /\ SentTo(g) = N(g)
      BY <1>7 DEF Receive, LoseVotes, Timeout, history, Open, SentTo
  <2>0. faulty[g] \subseteq faulty'[g]
      BY <1>1, FaultsGrow
  <2>2. Certain(g) = Contacted(g) \ (Asked(inbox, g) \cup faulty[g])
      BY <2>1 DEF Certain, Heard, Reached, Contacted
  <2>3. Contacted(g)' = Contacted(g)
      BY <1>2 DEF Contacted
  <2>4. CASE call'[g].pc = "fail"
    <3>1. Certain(g)' \subseteq IF net.prompt /\ dups = 0 THEN Contacted(g) \ faulty[g] ELSE {}
        BY <2>0, <2>1, <2>3, <2>4 DEF Certain, Open
    <3>2. net.prompt /\ dups = 0 => Asked(inbox, g) = {}
        BY <1>1, <1>7, <2>4, LastAttempt
    <3> QED
        BY <2>2, <3>1, <3>2
  <2>5. CASE call'[g].pc = "receive"
    <3>1. SentTo(g)' = N(g) /\ Open(g)'
        BY <1>2, <2>5 DEF SentTo, Open
    <3>2. Reached(g)' = Contacted(g)
        BY <1>2, <3>1 DEF Reached, Contacted
    <3> QED
        BY <2>0, <2>1, <2>2, <3>1, <3>2 DEF Certain, Heard
  <2>6. CASE call'[g].pc = "send"
    <3>1. ~ call'[g].pc = "send"
      <4>1. CASE Timeout(g)
          BY <1>1, <1>2, <4>1, TimeoutForm DEF Types
      <4>2. CASE Receive(g) \/ LoseVotes(g)
          BY <1>1, <2>1, <4>2, GetHears, HearingEnds
      <4> QED
          BY <1>7, <4>1, <4>2
    <3> QED
        BY <2>6, <3>1
  <2>7. CASE call'[g].pc \notin {"fail", "receive", "send"}
      BY <2>7 DEF Certain, Open
  <2> QED
      BY <2>4, <2>5, <2>6, <2>7
<1> QED
    BY <1>4, <1>5, <1>6, <1>7 DEF Client

LEMMA OthersCertain ==
    ASSUME DhtInv, ToleranceInv, NEW p \in DOMAIN program, Client(p), UNCHANGED <<program, net>>,
           NEW g \in Reads, g # p, faulty[g] \subseteq faulty'[g]
    PROVE  Certain(g)' \subseteq Certain(g)
<1>1. g \in DOMAIN program /\ ~ IsPut(g) /\ Types /\ DOMAIN faulty = DOMAIN program
    BY DEF Reads, Gets, DhtInv, ToleranceInv
<1>2. call'[g] = call[g] /\ dups <= dups'
  <2>1. faulty[g] \in SUBSET Server
      BY <1>1 DEF ToleranceInv, Tolerant
  <2> QED
      BY <1>1, <2>1, OthersKept DEF Kept
<1>3. Asked(inbox', g) = Asked(inbox, g)
    BY <1>1, OthersAsked
<1>4. /\ Contacted(g)' = Contacted(g) /\ Reached(g)' = Reached(g)
      /\ Open(g)' <=> Open(g)
    BY <1>2 DEF Contacted, N, servers_to_contact, Reached, SentTo, Open
<1>5. dups' = 0 => dups = 0
  <2>1. dups \in Nat
      BY <1>1, Counts
  <2> QED
      BY <1>2, <2>1
<1>6. CASE Open(g)
    BY <1>3, <1>4, <1>6 DEF Certain, Heard
<1>7. CASE ~ Open(g)
    BY <1>2, <1>4, <1>5, <1>7 DEF Certain
<1> QED
    BY <1>6, <1>7

LEMMA ClientFound ==
    ASSUME DhtInv, ToleranceInv, OrderInv, FoundInv, NEW p \in DOMAIN program, Client(p),
           UNCHANGED <<program, net, initial>>
    PROVE  FoundInv'
<1>1. /\ Types /\ CallPlaces /\ PastInv
      /\ applied \in [Server -> SUBSET DOMAIN program]
    BY DEF DhtInv, Types, ServersOK, OrderInv, CallsPast
<1>2. Moves(p) /\ UNCHANGED <<store, applied, answered, restarts>>
    BY <1>1, ClientMoves
<1>3. FaultsOK' /\ \A o \in DOMAIN program : faulty[o] \subseteq faulty'[o]
    BY <1>1, FaultsGrow DEF FoundInv
<1>4. Reads' = Reads /\ Puts' = Puts /\ (Orderly' <=> Orderly)
  <2>1. \A g \in DOMAIN program : RequestKind(g)' = RequestKind(g)
      BY DEF RequestKind, IsPut
  <2> QED
      BY <1>2, <2>1 DEF Reads, Gets, Puts, IsPut, Orderly
<1>5. ASSUME Orderly, NEW g \in Reads, NEW t \in Certain(g)' PROVE Settled(t, g)'
  <2>1. g \in DOMAIN program
      BY DEF Reads, Gets
  <2>2. t \in Certain(g)
    <3>1. CASE g = p
      <4>1. Certain(g)' \subseteq Certain(g)
          BY <1>3, <3>1, OwnCertain DEF FoundInv
      <4> QED
          BY <4>1
    <3>2. CASE g # p
      <4>1. Certain(g)' \subseteq Certain(g)
          BY <1>3, <2>1, <3>2, OthersCertain
      <4> QED
          BY <4>1
    <3> QED
        BY <3>1, <3>2
  <2>3. Settled(t, g) /\ t \in Server
    <3>1. Certain(g) \subseteq Server
        BY <1>1, <2>1, Counts, FirstServers DEF Certain
    <3> QED
        BY <1>5, <2>2, <3>1 DEF FoundInv
  <2>4. before'[g] = before[g]
    <3>1. call[g].pc # "new"
        BY <2>2 DEF Certain, Open
    <3> QED
        BY <1>1, <1>2, <2>1, <3>1 DEF Moves, PastInv
  <2>5. \A q \in before[g] : Asked(inbox', q) = Asked(inbox, q)
    <3> SUFFICES ASSUME NEW q \in before[g] PROVE Asked(inbox', q) = Asked(inbox, q)
        OBVIOUS
    <3>1. q \in DOMAIN program /\ q # p
        BY <1>1, <1>2, <2>1 DEF PastInv, Moves
    <3> QED
        BY <1>1, <3>1, OthersAsked
  <2> QED
      BY <1>2, <1>4, <2>3, <2>4, <2>5, SettledStays
<1> QED
    BY <1>3, <1>4, <1>5 DEF FoundInv

\* The other steps of the processes.
LEMMA QuietFound ==
    ASSUME DhtInv, OrderInv, FoundInv, ServersStay,
           UNCHANGED <<inbox, call, faulty, dups, restarts>>
    PROVE  FoundInv'
<1>1. /\ Types /\ PastInv /\ (Orderly' <=> Orderly)
      /\ \A o \in DOMAIN program : \A q \in before[o] : q \in DOMAIN program /\ q \in Begun
    BY DEF DhtInv, OrderInv, CallsPast, PastInv, Begun, Returned, ServersStay, Orderly
<1>2. Reads' = Reads /\ Puts' = Puts
    BY SameKinds
<1>3. FaultsOK'
    BY DEF FaultsOK, FoundInv, ServersStay
<1>4. ASSUME Orderly, NEW g \in Reads, NEW t \in Certain(g)' PROVE Settled(t, g)'
  <2>1. g \in DOMAIN program /\ call[g].pc # "new"
      BY <1>4 DEF Reads, Gets, Certain, Open
  <2>2. program'[g] = program[g] /\ before'[g] = before[g] /\ net' = net
      BY <2>1 DEF ServersStay, Begun
  <2>3. t \in Certain(g)
    <3>1. N(g)' = N(g) /\ servers_to_contact(g)' = servers_to_contact(g)
        BY <2>2 DEF N, servers_to_contact
    <3>2. Contacted(g)' = Contacted(g) /\ Heard(g)' = Heard(g) /\ Open(g)' = Open(g)
        BY <3>1 DEF Contacted, Heard, Reached, SentTo, Open, Asked
    <3> QED
        BY <1>4, <2>2, <3>2 DEF Certain
  <2>4. Settled(t, g) /\ t \in Server
    <3>1. Certain(g) \subseteq Server
        BY <1>1, <2>1, Counts, FirstServers DEF Certain
    <3> QED
        BY <1>4, <2>3, <3>1 DEF FoundInv
  <2>5. /\ answered' = answered /\ applied' = applied
        /\ \A q \in before[g] : /\ program'[q].key = program[q].key
                                /\ Asked(inbox', q) = Asked(inbox, q)
      BY <1>1, <2>1 DEF ServersStay, Asked
  <2> QED
      BY <1>2, <2>2, <2>4, <2>5, SettledStays
<1> QED
    BY <1>1, <1>2, <1>3, <1>4 DEF FoundInv

LEMMA FoundNext ==
    ASSUME DhtInv, TurnInv, ToleranceInv, OrderInv, FoundInv, [NextClients]_allVars
    PROVE  FoundInv'
<1>1. CASE Servers
  <2>1. UNCHANGED <<program, net, initial>> /\ \E s \in Server : Serve(s) \/ Restart(s)
      BY <1>1 DEF Servers, chosen
  <2> QED
      BY <2>1, ServerFound
<1>2. ASSUME NEW c \in DOMAIN command, Step(c) PROVE FoundInv'
  <2>1. CASE InCall(c)
    <3>1. Client(Call(c)) /\ UNCHANGED <<program, net, initial>> /\ ~ Refused(c)
        BY <2>1 DEF InCall, chosen
    <3>2. Call(c) \in DOMAIN program
        BY <3>1, CallsOfProcess DEF DhtInv, Types
    <3> QED
        BY <3>1, <3>2, ClientFound
  <2>2. CASE Concatenate(c)
    <3>1. ServersStay /\ UNCHANGED <<inbox, call, restarts>>
        BY <2>2, Concatenated DEF ServersStay, Begun
    <3>2. UNCHANGED <<faulty, dups>>
        BY <2>2 DEF Concatenate, history
    <3> QED
        BY <3>1, <3>2, QuietFound
  <2>3. CASE Refuse(c) \/ CallFails(c) \/ SecondKey(c) \/ Finish(c)
    <3>1. UNCHANGED vars
        BY <2>3 DEF Refuse, CallFails, SecondKey, Finish
    <3>2. ServersStay /\ UNCHANGED <<inbox, call, faulty, dups, restarts>>
        BY <3>1 DEF ServersStay, Begun, vars, history
    <3> QED
        BY <3>2, QuietFound
  <2> QED
      BY <1>2, <2>1, <2>2, <2>3 DEF Step
<1>3. CASE UNCHANGED allVars
  <2>1. ServersStay /\ UNCHANGED <<inbox, call, faulty, dups, restarts>>
      BY <1>3 DEF ServersStay, Begun, allVars, vars, history
  <2> QED
      BY <2>1, QuietFound
<1> QED
    BY <1>1, <1>2, <1>3 DEF NextClients

(***************************************************************************)
(* Every server that is done with a get of a client, and is not at fault   *)
(* for it, has answered it or held nothing of the puts before it, if the   *)
(* servers are orderly.                                                    *)
(***************************************************************************)
THEOREM FoundInvariant == SpecClients => [](DhtInv /\ ToleranceInv /\ OrderInv /\ FoundInv)
<1>1. InitClients => FoundInv
    BY FoundInit
<1>2. /\ DhtInv /\ TurnInv /\ ToleranceInv /\ OrderInv /\ FoundInv /\ [NextClients]_allVars
      => FoundInv'
    BY FoundNext
<1> QED
    BY <1>1, <1>2, ToleranceInvariant, OrderInvariant, PTL DEF SpecClients

(***************************************************************************)
(* A get that has failed although a put had written what it asks for: the  *)
(* put has reached fewer servers, but for those the get does not contact,  *)
(* than the get needs and is let down by.  Every server that wrote it and  *)
(* is not at fault has answered what the put wrote, the last put there is, *)
(* and the client still had its vote.                                      *)
(***************************************************************************)
THEOREM WritesAreFound == SpecClients => []WrittenIsFound
<1>1. DhtInv /\ ToleranceInv /\ OrderInv /\ FoundInv => WrittenIsFound
  <2> SUFFICES ASSUME DhtInv, ToleranceInv, OrderInv, FoundInv, net.prompt, Orderly, dups = 0,
                      NEW g \in Gets, NEW q \in Puts, call[g].pc = "fail", LastPut(q, g),
                      RequestKind(g) = "read", DistinctVotes(program[g].key)
               PROVE  Needed(q) - Cardinality(Contacted(q) \ Contacted(g))
                         < Needed(g) + Cardinality(faulty[g])
      BY DEF WrittenIsFound
  <2>1. PICK k, v : k = program[g].key /\ v = program[q].value
      OBVIOUS
  <2>2. /\ g \in DOMAIN program /\ ~ IsPut(g) /\ g \in Reads
        /\ q \in DOMAIN program /\ IsPut(q) /\ program[q].key = k /\ call[q].pc = "ok"
        /\ Types /\ PastInv /\ CallPlaces /\ AnsweredFresh
        /\ faulty[g] \subseteq Server /\ Tolerant(g)
        /\ answered \in [Gets -> SUBSET (Server \X Value)]
      BY <2>1 DEF Gets, Puts, Reads, LastPut, DhtInv, Types, ServersOK, OrderInv, CallsPast, Fresh,
                  FoundInv, FaultsOK, ToleranceInv
  <2> DEFINE W == Writers(q)
             F == faulty[g]
             D == Contacted(q) \ Contacted(g)
             S == (W \cap Contacted(g)) \ F
  <2>3. S \subseteq Answering(g, v) \ F
    <3> SUFFICES ASSUME NEW s \in S PROVE s \in Answering(g, v)
        OBVIOUS
    <3>1. s \in Server /\ q \in applied[s] /\ s \in Certain(g)
        BY <2>2 DEF Writers, Certain, Open
    <3>2. q \in before[g] \cap Puts /\ program[q].key = program[g].key
        BY DEF LastPut
    <3>3. PICK a \in Value : <<s, a>> \in answered[g]
      <4>1. Settled(s, g)
          BY <2>2, <3>1 DEF FoundInv
      <4>2. ~ Missed(s, g)
          BY <3>1, <3>2 DEF Missed
      <4> QED
          BY <4>1, <4>2 DEF Settled
    <3>4. q \in PutsTo(s, k) \cap before[g]
        BY <2>1, <3>1, <3>2 DEF PutsTo
    <3>5. Source(Sooner(s, g), k, a, PutsTo(s, k) \cap before[g])
      <4>1. AnsweredFresh /\ g \in Reads /\ k = program[g].key
          BY <2>1, <2>2
      <4> HIDE DEF D, F, S, W
      <4> QED
          BY <3>1, <3>3, <4>1 DEF AnsweredFresh
    <3>6. PICK p \in Sooner(s, g) : /\ program[p].key \in Mixed(k) /\ program[p].value = a
                                    /\ p \notin before[q]
        BY <3>4, <3>5 DEF Source
    <3>7. p \in Puts /\ p \in Begun /\ g \notin before[p]
        BY <2>2, <3>1, <3>6, OnlyBegun DEF Sooner, CallPlaces
    <3>8. p = q
        BY <2>1, <3>6, <3>7 DEF LastPut, PutsMixed, Begun
    <3> QED
        BY <2>1, <3>1, <3>3, <3>6, <3>8 DEF Answering
  <2>4. Cardinality(Answering(g, v) \ F) < Needed(g)
    <3> DEFINE values == InitialAnswers(k) \cup {program[p].value : p \in PutsMixed(k)}
    <3>1. v \in Value /\ v \in Answer
        BY <2>1, <2>2, CallFacts DEF Types, Answer
    <3>2. v \in values
      <4>1. k \in Mixed(k)
          BY <2>1, <2>2, CallFacts DEF Types, Mixed
      <4> QED
          BY <2>1, <2>2, <4>1 DEF PutsMixed
    <3>3. \A x \in answered[g] : x[2] \in values
        BY <2>1, <2>2, AnswersKnown
    <3>4. \A a, b \in values : a # b => <<a, b>> \notin VotePrefix
        BY <2>1 DEF DistinctVotes
    <3> HIDE DEF values
    <3>5. v \in Unmistaken(g)
        BY <3>1, <3>2, <3>3, <3>4 DEF Unmistaken
    <3>6. Cardinality(Answering(g, v) \ F) < Needed(g) + dups
        BY <2>2, <3>5 DEF Tolerant, GetTolerant
    <3>7. Needed(g) \in Nat
        BY <2>2, Counts
    <3> QED
        BY <3>6, <3>7
  <2>5. W \subseteq S \cup (D \cup F)
    <3>1. W \subseteq Contacted(q)
        BY <2>2 DEF CallPlaces, Touched, Givers
    <3> QED
        BY <3>1
  <2>6. Cardinality(W) >= Needed(q)
    <3>1. Cardinality(W) + dups >= Needed(q)
        BY <2>2 DEF DhtInv, CallInv, PutReached
    <3>2. Cardinality(W) \in Nat
        BY ServerSet DEF Writers
    <3> QED
        BY <3>1, <3>2
  <2>7. W \subseteq Server /\ Contacted(q) \subseteq Server /\ Answering(g, v) \subseteq Server
      BY <2>2, FirstServers DEF Writers, Answering
  <2> HIDE DEF W
  <2>8. /\ IsFiniteSet(S) /\ IsFiniteSet(D) /\ IsFiniteSet(F) /\ IsFiniteSet(D \cup F)
        /\ Cardinality(S) \in Nat /\ Cardinality(D) \in Nat /\ Cardinality(F) \in Nat
        /\ Cardinality(D \cup F) \in Nat
    <3>1. S \subseteq Server /\ D \subseteq Server /\ F \subseteq Server /\ D \cup F \subseteq Server
        BY <2>2, <2>7
    <3> HIDE DEF S, D, F
    <3> QED
        BY <3>1, ServerSet
  <2>9. /\ Cardinality(S) <= Cardinality(Answering(g, v) \ F)
        /\ Cardinality(Answering(g, v) \ F) \in Nat
    <3>0. Answering(g, v) \ F \subseteq Server
        BY <2>7
    <3>1. IsFiniteSet(Answering(g, v) \ F) /\ Cardinality(Answering(g, v) \ F) \in Nat
        BY <3>0, ServerSet
    <3> QED
        BY <2>3, <3>1, FS_Subset
  <2> HIDE DEF S, D, F
  <2>10. Cardinality(W) <= Cardinality(S) + (Cardinality(D) + Cardinality(F))
    <3>1. Cardinality(D \cup F) <= Cardinality(D) + Cardinality(F)
      <4>1. Cardinality(D \cup F) = Cardinality(D) + Cardinality(F) - Cardinality(D \cap F)
          BY <2>8, FS_Union
      <4>2. Cardinality(D \cap F) \in Nat
          BY <2>8, FS_Intersection, FS_CardinalityType
      <4> QED
          BY <2>8, <4>1, <4>2
    <3>2. /\ IsFiniteSet(S \cup (D \cup F)) /\ Cardinality(S \cup (D \cup F)) \in Nat
          /\ Cardinality(S \cup (D \cup F)) <= Cardinality(S) + Cardinality(D \cup F)
      <4>1. /\ IsFiniteSet(S \cup (D \cup F))
            /\ Cardinality(S \cup (D \cup F))
                  = Cardinality(S) + Cardinality(D \cup F) - Cardinality(S \cap (D \cup F))
          BY <2>8, FS_Union
      <4>2. Cardinality(S \cap (D \cup F)) \in Nat
          BY <2>8, FS_Intersection, FS_CardinalityType
      <4>3. Cardinality(S \cup (D \cup F)) \in Nat
          BY <4>1, FS_CardinalityType
      <4> QED
          BY <2>8, <4>1, <4>2, <4>3
    <3>3. Cardinality(W) <= Cardinality(S \cup (D \cup F)) /\ Cardinality(W) \in Nat
      <4>1. Cardinality(W) \in Nat
          BY <2>7, ServerSet
      <4> QED
          BY <2>5, <3>2, <4>1, FS_Subset
    <3> QED
        BY <2>8, <3>1, <3>2, <3>3
  <2>11. Needed(q) \in Nat /\ Needed(g) \in Nat /\ Cardinality(W) \in Nat
      BY <2>2, <2>7, Counts, ServerSet
  <2>12. Needed(q) - Cardinality(D) < Needed(g) + Cardinality(F)
      BY <2>4, <2>6, <2>8, <2>9, <2>10, <2>11
  <2> QED
      BY <2>12 DEF D, F
<1> QED
    BY <1>1, FoundInvariant, PTL
=============================================================================
