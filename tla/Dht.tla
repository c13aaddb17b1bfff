-------------------------------- MODULE Dht --------------------------------
(***************************************************************************)
(* The distributed hash table: the clients' network_put and network_get of *)
(* network.c, the servers' receive loop of launch-server.c, and the UDP    *)
(* datagrams between them.                                                 *)
(*                                                                         *)
(* Every operation is one call in a client process, with a socket of its   *)
(* own: a fresh socket is opened by each call.  A call sends one datagram  *)
(* to each of the N servers of its key, one after the other, and then      *)
(* makes N attempts to receive; every attempt ends with a datagram or with *)
(* the time-out of the socket.  A server handles one datagram at a time.   *)
(* Every client process has its own N, W and R, from its command line.     *)
(***************************************************************************)
EXTENDS Integers, FiniteSets, SequencesExt

CONSTANTS
    Op,        \* the calls that may be made
    Scenarios, \* the calls and the environments of the behaviours; see below
    Server,    \* the addresses of the servers, a finite set
    Contact,   \* Contact[k]: all servers in the order in which
               \* ring_get_nodes_for_key meets them for key k
    Key, Value,
    Empty,     \* the empty string, as a key, as a value, or as a datagram
    Dump,      \* a datagram of serve_dump_node
    StoredAs,  \* StoredAs[<<k, v>>]: the values a server may take a write of v to
               \* k for; v alone, unless the datagram fills its buffer
    Received,  \* Received[a]: what is left of answer a in a client's buffer
    \* The string functions that the two kinds of hash tables depend on:
    StoreBucket, StoreHash, StorePrefix,
    VoteBucket, VoteHash, VotePrefix,
    CharHalf, SizeMod

(***************************************************************************)
(* A call, with the client.args of its process.                            *)
(***************************************************************************)
Calls == [kind : {"put", "get"}, key : Key, value : Value, N : Nat, W : Nat, R : Nat]

(***************************************************************************)
(* An environment:                                                         *)
(*   ordered     datagrams are handled in the order they were sent to a    *)
(*               server                                                    *)
(*   prompt      a time-out means that no answer is on its way             *)
(*   lossy       datagrams may be lost, allocations and sends may fail     *)
(*   maxdup      bound: datagrams the network duplicates                   *)
(*   maxrestart  bound: restarts of servers                                *)
(***************************************************************************)
Environments ==
    [ordered : BOOLEAN, prompt : BOOLEAN, lossy : BOOLEAN, maxdup : Nat, maxrestart : Nat]

\* What an answer can hold: an acknowledgement is an empty datagram.
Answer == Value \cup {Empty, Dump}

Store == INSTANCE Buckets
    WITH Bucket <- StoreBucket, HashOf <- StoreHash, PrefixOf <- StorePrefix

Votes == INSTANCE Votes
    WITH Key <- Answer, Value <- (-CharHalf)..(CharHalf - 1),
         Bucket <- VoteBucket, HashOf <- VoteHash, PrefixOf <- VotePrefix

\* N is a size_t.  A client's buffer takes at least one byte, so only an empty
\* answer is empty in it, and what it takes of a value is a value.
ASSUME DhtAssumption ==
    /\ Store!BucketsAssumption /\ Votes!BucketsAssumption /\ Votes!VotesAssumption
    /\ IsFiniteSet(Server) /\ Empty \in Value
    /\ \A c \in Scenarios :
          /\ DOMAIN c.program \subseteq Op
          /\ \A o \in DOMAIN c.program :
                /\ c.program[o] \in Calls
                /\ c.program[o].N <= Len(Contact[c.program[o].key])
                /\ c.program[o].N < SizeMod
          /\ c.net \in Environments
          /\ c.stored \in Store!Table
    /\ Contact \in [Key -> Seq(Server)]
    /\ \A k \in Key : \A i, j \in 1..Len(Contact[k]) :
          i # j => Contact[k][i] # Contact[k][j]
    /\ Dump \notin Value \cup {Empty}
    /\ StoredAs \in [Key \X Value -> (SUBSET Value) \ {{}}]
    /\ Received \in [Answer -> Answer]
    /\ \A a \in Answer : Received[a] = Empty <=> a = Empty
    /\ \A v \in Value : Received[v] \in Value

VARIABLES
    program, \* program[o]: call o, for the calls of this behaviour
    net,     \* the environment of this behaviour
    store,   \* store[s]: the table of server s
    inbox,   \* inbox[s]: the requests sent to s and not handled, oldest first
    socket,  \* socket[o]: the bag of the answers <<s, a>> that wait for call o
    call,    \* call[o]: the local variables of call o
    \* History, for the properties only:
    initial,   \* what every server stored at the beginning
    applied,   \* applied[s]: the puts whose write server s has performed
    answered,  \* answered[o]: the answers <<s, a>> that reached the socket of get o
    before,    \* before[o]: the calls that had returned when o started
    faulty,    \* faulty[o]: the servers whose answer a fault kept from call o, or
               \* kept call o from counting
    dups, restarts

history == <<applied, answered, before, faulty, dups, restarts>>
chosen == <<net, initial>>
vars == <<program, net, store, inbox, socket, call, initial, history>>

IsPut(o) == program[o].kind = "put"
Puts == {o \in DOMAIN program : IsPut(o)}
Gets == {o \in DOMAIN program : ~ IsPut(o)}

\* What ring_get_nodes_for_key returns to call o.
servers_to_contact(o) == SubSeq(Contact[program[o].key], 1, program[o].N)
N(o) == Len(servers_to_contact(o))

NoCall == [pc |-> "new", i |-> 0, nb_writes |-> 0, votes |-> Votes!construct_Htable,
           value |-> {}]
Open(o) == call[o].pc \in {"send", "receive"}
\* "killed" are the calls in which the process died.
Returned(o) == call[o].pc \in {"ok", "fail", "error", "killed"}

Init ==
    /\ \E c \in Scenarios : program = c.program /\ net = c.net /\ initial = c.stored
    /\ store = [s \in Server |-> initial]
    /\ inbox = [s \in Server |-> <<>>]
    /\ socket = [o \in DOMAIN program |-> EmptyBag]
    /\ call = [o \in DOMAIN program |-> NoCall]
    /\ applied = [s \in Server |-> {}]
    /\ answered = [o \in Gets |-> {}]
    /\ before = [o \in DOMAIN program |-> {}]
    /\ faulty = [o \in DOMAIN program |-> {}]
    /\ dups = 0 /\ restarts = 0

(***************************************************************************)
(* How many copies of a datagram arrive.                                   *)
(***************************************************************************)
Copies == {1} \cup (IF net.lossy THEN {0} ELSE {})
              \cup (IF dups < net.maxdup THEN {2} ELSE {})

Count(n) == dups' = IF n = 2 THEN dups + 1 ELSE dups

\* A fault on server s keeps the answer to call o from coming.
Blame(o, s) ==
    faulty' = IF Open(o) THEN [faulty EXCEPT ![o] = @ \cup {s}] ELSE faulty

BlameLoss(o, s, n) == IF n = 0 THEN Blame(o, s) ELSE UNCHANGED faulty

----------------------------------------------------------------------------

\* The locals of a call that has returned; its socket is never read again.
Done(pc, value) == [NoCall EXCEPT !.pc = pc, !.value = value]

Become(o, locals, waiting) ==
    /\ call' = [call EXCEPT ![o] = locals]
    /\ socket' = [socket EXCEPT ![o] =
                     IF locals.pc \in {"send", "receive"} THEN waiting ELSE EmptyBag]

Quorum(o) == IF IsPut(o) THEN program[o].W ELSE program[o].R

(***************************************************************************)
(* The beginning of network_put and network_get: the socket is opened, the *)
(* buffers are allocated, and fewer servers than the quorum are refused.   *)
(* With no servers at all both loops are empty and the call fails.  A      *)
(* failing allocation ends the call too, and one of                        *)
(* ring_get_nodes_for_key the process: the test of the size dereferences   *)
(* the NULL it answers.                                                    *)
(***************************************************************************)
Start(o) ==
    /\ call[o].pc = "new"
    /\ before' = [before EXCEPT ![o] = {p \in DOMAIN program : Returned(p)}]
    /\ \/ /\ N(o) >= Quorum(o) /\ N(o) > 0
          /\ Become(o, [NoCall EXCEPT !.pc = "send"], EmptyBag)
       \/ /\ N(o) < Quorum(o) \/ N(o) = 0
          /\ Become(o, Done("error", {}), EmptyBag)
       \/ /\ net.lossy
          /\ \E pc \in {"error", "killed"} : Become(o, Done(pc, {}), EmptyBag)
    /\ UNCHANGED <<store, inbox, applied, answered, faulty, dups, restarts>>

\* A variant for the mutation runs: the receiving loop starts where the
\* sending loop stopped.
SentKeepingIndex(o) ==
    IF call[o].i + 1 < N(o) THEN [call[o] EXCEPT !.i = @ + 1]
                            ELSE [call[o] EXCEPT !.i = @, !.pc = "receive"]

Sent(o) ==
    IF call[o].i + 1 < N(o) THEN [call[o] EXCEPT !.i = @ + 1]
                            ELSE [call[o] EXCEPT !.i = 0, !.pc = "receive"]

\* One iteration of send_messages.
Send(o) ==
    /\ call[o].pc = "send"
    /\ LET s == servers_to_contact(o)[call[o].i + 1]
       IN  \E n \in Copies :
              /\ inbox' = [inbox EXCEPT ![s] = @ \o [j \in 1..n |-> o]]
              /\ Count(n) /\ BlameLoss(o, s, n)
    /\ Become(o, Sent(o), socket[o])
    /\ UNCHANGED <<store, applied, answered, before, restarts>>

\* A sendto that fails ends the call; the servers before have the request.
SendFails(o) ==
    /\ net.lossy /\ call[o].pc = "send"
    /\ Become(o, Done("error", {}), EmptyBag)
    /\ UNCHANGED <<store, inbox, history>>

\* Variants for the mutation runs: one attempt too many, and attempts that are
\* not counted.
AttemptPastEnd(o, locals) ==
    IF locals.i < N(o) THEN [locals EXCEPT !.i = @ + 1] ELSE Done("fail", {})

AttemptForever(o, locals) == locals

(***************************************************************************)
(* The locals after an attempt to receive that did not end the call: there *)
(* are N attempts, whatever they bring.                                    *)
(***************************************************************************)
NextAttempt(o, locals) ==
    IF locals.i + 1 < N(o) THEN [locals EXCEPT !.i = @ + 1] ELSE Done("fail", {})

\* A variant for the mutation runs: any datagram acknowledges.
CountAnyAnswer(o, answer) ==
    LET writes == call[o].nb_writes + 1
    IN  IF writes >= Quorum(o) THEN Done("ok", {})
                       ELSE NextAttempt(o, [call[o] EXCEPT !.nb_writes = writes])

\* An acknowledgement is an empty datagram.
CountWrite(o, answer) ==
    LET writes == call[o].nb_writes + 1
    IN  IF answer # Empty THEN NextAttempt(o, call[o])
        ELSE IF writes >= Quorum(o) THEN Done("ok", {})
        ELSE NextAttempt(o, [call[o] EXCEPT !.nb_writes = writes])

\* Variants for the mutation runs: the first answer is returned, and the count
\* is tested but not kept.
TakeFirstVote(o, answer) == Done("ok", {answer})

DiscardVote(o, answer) ==
    IF Votes!increment_and_test(call[o].votes, answer, Quorum(o)).enough
    THEN Done("ok", {answer}) ELSE NextAttempt(o, call[o])

\* An answer that increment_and_test made this of.
Voted(o, answer, vote) ==
    IF vote.enough THEN Done("ok", {answer})
                   ELSE NextAttempt(o, [call[o] EXCEPT !.votes = vote.votes])

CountVote(o, answer) ==
    Voted(o, answer, Votes!increment_and_test(call[o].votes, answer, Quorum(o)))

(***************************************************************************)
(* receive_message delivers a datagram.  Its sender is one of the servers  *)
(* contacted, because nobody else knows the port of the socket.            *)
(***************************************************************************)
Receive(o) ==
    /\ call[o].pc = "receive"
    /\ \E x \in BagToSet(socket[o]) :
          Become(o, IF IsPut(o) THEN CountWrite(o, x[2]) ELSE CountVote(o, x[2]),
                 socket[o] (-) SetToBag({x}))
    /\ UNCHANGED <<store, inbox, history>>

\* The servers that answered v.
Answering(o, v) == {s \in Server : <<s, v>> \in answered[o]}

\* Those whose answer no longer waits: the call has counted it.
Voters(o, v, waiting) == {s \in Answering(o, v) : <<s, v>> \notin BagToSet(waiting)}

(***************************************************************************)
(* The same with an allocation of increment_and_test that fails.  When the *)
(* count so far cannot be copied, the votes it stands for are lost; when   *)
(* the new count cannot be stored, only this vote is.  The servers whose   *)
(* votes are lost might as well not have answered.                         *)
(***************************************************************************)
LoseVotes(o) ==
    /\ net.lossy /\ call[o].pc = "receive" /\ ~ IsPut(o)
    /\ \E x \in BagToSet(socket[o]) :
          LET waiting == socket[o] (-) SetToBag({x})
          IN  \/ /\ Become(o, Voted(o, x[2], Votes!uncopied(call[o].votes, x[2], Quorum(o))), waiting)
                 /\ faulty' = [faulty EXCEPT ![o] = @ \cup (Voters(o, x[2], waiting) \ {x[1]})]
              \/ \E vote \in Votes!unstored(call[o].votes, x[2], Quorum(o)) :
                    /\ Become(o, Voted(o, x[2], vote), waiting)
                    /\ faulty' = [faulty EXCEPT ![o] = @ \cup {x[1]}]
    /\ UNCHANGED <<store, inbox, applied, answered, before, dups, restarts>>

OnItsWay(o) ==
    \/ socket[o] # EmptyBag
    \/ \E s \in Server : \E j \in 1..Len(inbox[s]) : inbox[s][j] = o

\* recvfrom returns -1: nothing has arrived within TIMEOUT.
Timeout(o) ==
    /\ call[o].pc = "receive"
    /\ net.prompt => ~ OnItsWay(o)
    /\ Become(o, NextAttempt(o, call[o]), socket[o])
    /\ UNCHANGED <<store, inbox, history>>

----------------------------------------------------------------------------

(***************************************************************************)
(* main of launch-server.c tells the requests apart by their length and by *)
(* the place of a zero byte: an empty datagram is a ping, a single zero    *)
(* byte asks for a dump, a zero byte elsewhere makes it a write, none a    *)
(* read.  A put sends its key, a zero byte and its value, a get its key.   *)
(***************************************************************************)
RequestKind(o) ==
    LET key == program[o].key
    IN  IF IsPut(o) THEN IF key = Empty /\ program[o].value = Empty THEN "dump" ELSE "write"
                    ELSE IF key = Empty THEN "ping" ELSE "read"

\* sendto from the server to the socket of call o, whose recvfrom takes at most
\* MAX_MSG_ELEM_SIZE bytes of it.
Reply(o, s, answer) ==
    \E n \in Copies :
       /\ socket' = IF n > 0 /\ Open(o)
                    THEN [socket EXCEPT ![o] = @ (+) [x \in {<<s, Received[answer]>>} |-> n]] ELSE socket
       /\ answered' = IF n > 0 /\ Open(o) /\ o \in Gets
                      THEN [answered EXCEPT ![o] = @ \cup {<<s, Received[answer]>>}] ELSE answered
       /\ Count(n) /\ BlameLoss(o, s, n)

Silence == UNCHANGED <<socket, answered, dups, faulty>>

Ping(o, s) ==
    /\ RequestKind(o) = "ping"
    /\ Reply(o, s, Empty)
    /\ UNCHANGED <<store, applied>>

\* serve_dump_node: an empty table is answered with nothing at all; one Dump
\* stands for the datagrams a larger one is answered with.
DumpNode(o, s) ==
    /\ RequestKind(o) = "dump"
    /\ IF Store!get_kv_pair(store[s]) = {} THEN Silence ELSE Reply(o, s, Dump)
    /\ UNCHANGED <<store, applied>>

\* A variant for the mutation runs: a write is acknowledged although the table
\* had no memory for it.
WriteUnchecked(o, s) ==
    /\ RequestKind(o) = "write"
    /\ \/ \E v \in StoredAs[<<program[o].key, program[o].value>>] :
             store' = [store EXCEPT ![s] = Store!add_Htable_value(@, program[o].key, v)]
       \/ net.lossy /\ UNCHANGED store
    /\ applied' = [applied EXCEPT ![s] = @ \cup {o}]
    /\ Reply(o, s, Empty)

(***************************************************************************)
(* serve_write_request.  A key and a value of MAX_MSG_ELEM_SIZE characters *)
(* each leave no zero byte behind the value: the table then gets what is   *)
(* on the stack behind the buffer as well.                                 *)
(***************************************************************************)
Write(o, s) ==
    /\ RequestKind(o) = "write"
    /\ \E v \in StoredAs[<<program[o].key, program[o].value>>] :
          store' = [store EXCEPT ![s] = Store!add_Htable_value(@, program[o].key, v)]
    /\ applied' = [applied EXCEPT ![s] = @ \cup {o}]
    /\ Reply(o, s, Empty)

(***************************************************************************)
(* serve_get_request.  The answer to a missing key is sent from '\0', which *)
(* is the NULL pointer: that sendto fails and no datagram leaves.          *)
(***************************************************************************)
Read(o, s) ==
    /\ RequestKind(o) = "read"
    /\ LET found == Store!get_Htable_value(store[s], program[o].key)
       IN  IF found = {} THEN Silence ELSE \E v \in found : Reply(o, s, v)
    /\ UNCHANGED <<store, applied>>

\* An allocation fails while the request is handled: nothing is sent.
NoMemory(o, s) ==
    /\ net.lossy /\ RequestKind(o) # "ping"
    /\ Blame(o, s)
    /\ UNCHANGED <<store, socket, applied, answered, dups>>

Serve(s) ==
    /\ \E j \in 1..Len(inbox[s]) :
          /\ net.ordered => j = 1
          /\ inbox' = [inbox EXCEPT ![s] = RemoveAt(@, j)]
          /\ LET o == inbox[s][j]
             IN  Ping(o, s) \/ DumpNode(o, s) \/ Write(o, s) \/ Read(o, s) \/ NoMemory(o, s)
    /\ UNCHANGED <<call, before, restarts>>

\* A server is stopped and started again: its table is only in memory, and
\* the datagrams waiting in its socket are gone.
Restart(s) ==
    /\ restarts < net.maxrestart
    /\ restarts' = restarts + 1
    /\ store' = [store EXCEPT ![s] = Store!construct_Htable]
    /\ inbox' = [inbox EXCEPT ![s] = <<>>]
    /\ faulty' = [o \in DOMAIN program |->
                   IF Open(o) /\ \E j \in 1..Len(inbox[s]) : inbox[s][j] = o
                   THEN faulty[o] \cup {s} ELSE faulty[o]]
    /\ UNCHANGED <<socket, call, applied, answered, before, dups>>

Client(o) == Start(o) \/ Send(o) \/ SendFails(o) \/ Receive(o) \/ LoseVotes(o) \/ Timeout(o)

Next ==
    /\ \/ \E o \in DOMAIN program : Client(o)
       \/ \E s \in Server : Serve(s) \/ Restart(s)
    /\ UNCHANGED <<program, chosen>>

\* The calls on their own.  In Clients the processes make them one after the
\* other, and go on with them.
Spec == Init /\ [][Next]_vars

----------------------------------------------------------------------------

TypeOK ==
    /\ DOMAIN program \subseteq Op /\ \A o \in DOMAIN program : program[o] \in Calls
    /\ net \in Environments
    /\ store \in [Server -> Store!Table]
    /\ inbox \in [Server -> Seq(DOMAIN program)]
    /\ \A o \in DOMAIN program : IsABag(socket[o]) /\ BagToSet(socket[o]) \subseteq Server \X Answer
    /\ call \in [DOMAIN program ->
                    [pc : {"new", "send", "receive", "ok", "fail", "error", "killed"},
                     i : Nat, nb_writes : Nat, votes : Votes!Table, value : SUBSET Answer]]
    /\ \A o \in DOMAIN program : Open(o) => call[o].i < N(o)
    /\ \A o \in DOMAIN program : ~ Open(o) => socket[o] = EmptyBag

(***************************************************************************)
(* How many servers call o needs.  A quorum of 0 is accepted by args.c,    *)
(* but a put counts an acknowledgement before it compares, and a get       *)
(* compares the first of equal answers with 1 and only others with >=.     *)
(***************************************************************************)
Needed(o) == IF Quorum(o) > 0 THEN Quorum(o) ELSE IF IsPut(o) THEN 1 ELSE 2

\* The servers that have performed the write of call o.
Writers(o) == {s \in Server : o \in applied[s]}

(***************************************************************************)
(* network_put answers OK only when W different servers have written the   *)
(* pair.  Acknowledgements are counted, not servers, so each datagram the  *)
(* network duplicates can stand in for one server.  A put of two empty     *)
(* strings, which servers take for a dump request, is never reported as    *)
(* done: what a dump sends back is not an acknowledgement.                 *)
(***************************************************************************)
PutQuorum ==
    \A o \in Puts : call[o].pc = "ok" => Cardinality(Writers(o)) + dups >= Needed(o)

(***************************************************************************)
(* A put that has answered OK is still held by its W servers: each of them *)
(* stores its value, or that of another put to its key, or to a key the    *)
(* servers mix up with it, and where requests are handled in their order   *)
(* not of one that had returned when this put began.  Every restart makes  *)
(* one server forget, and nothing writes again what it forgot.             *)
(***************************************************************************)
\* The servers take these keys for each other: an add to one may change what is
\* read for the other.
Mixed(key) == {k \in Key : k = key \/ Store!Related(k, key)}

Holds(s, q) ==
    \E p \in applied[s] :
        /\ program[p].key \in Mixed(program[q].key)
        /\ net.ordered => p \notin before[q]
        /\ \E v \in Store!get_Htable_value(store[s], program[q].key) :
              v \in StoredAs[<<program[p].key, program[p].value>>]

WritesHeld ==
    \A q \in Puts : call[q].pc = "ok" =>
        Cardinality({s \in Server : Holds(s, q)}) + dups + restarts >= Needed(q)

(***************************************************************************)
(* network_get returns a value only when R different servers sent answers  *)
(* that count for it, with the same allowance: answers that are prefixes   *)
(* of one string, like the value itself.  For a value that is neither a    *)
(* prefix nor an extension of another, they are R servers that answered    *)
(* this value.  It holds up to R = CharHalf + 1; see QuorumOfPrefixes of   *)
(* Tally.                                                                  *)
(***************************************************************************)
Counting(o, q) == {s \in Server : \E a \in Answer : <<s, a>> \in answered[o] /\ <<a, q>> \in VotePrefix}

GetQuorum ==
    \A o \in Gets : call[o].pc = "ok" =>
        \A v \in call[o].value : \E q \in Answer :
            <<v, q>> \in VotePrefix /\ Cardinality(Counting(o, q)) + dups >= Needed(o)

(***************************************************************************)
(* The quorums of put q and get g intersect, whatever N each client was    *)
(* given: both contact the first servers of the same walk.                 *)
(***************************************************************************)
Intersect(q, g) ==
    LET larger == IF N(q) > N(g) THEN N(q) ELSE N(g)
    IN  Quorum(q) + Quorum(g) > larger

\* The puts to the key of get g that answered OK before g began.
Completed(g) ==
    {q \in Puts \cap before[g] :
        program[q].key = program[g].key /\ call[q].pc = "ok" /\ Intersect(q, g)}

PutsMixed(key) == {p \in Puts : program[p].key \in Mixed(key)}

\* What a get of this key returned at the beginning.
InitialAnswers(key) == {Received[v] : v \in Store!get_Htable_value(initial, key)}

\* The values that a completed put has not superseded: those of the puts that
\* had not returned when it began, and what was stored if none has completed.
Current(g) ==
    {program[p].value : p \in {r \in PutsMixed(program[g].key) :
                                  /\ call[r].pc # "new"
                                  /\ \A q \in Completed(g) : r \notin before[q]}}
       \cup (IF Completed(g) = {} THEN InitialAnswers(program[g].key) ELSE {})

\* No two values that a get of this key may meet share a vote count.
DistinctVotes(key) ==
    LET values == InitialAnswers(key) \cup {program[p].value : p \in PutsMixed(key)}
    IN  \A v, w \in values : v # w => <<v, w>> \notin VotePrefix

\* Every server handles the requests in the order they were sent, and none forgets.
Orderly == net.ordered /\ restarts = 0

(***************************************************************************)
(* A read returns a value that a put of its key, or of a key it is mixed   *)
(* up with, has written and that no completed put has superseded, if their *)
(* quorums intersect, the servers are orderly, no datagram is duplicated   *)
(* and no value is a prefix of another.  There are no version numbers, so  *)
(* this rests on nothing else.                                             *)
(***************************************************************************)
RegularReads ==
    Orderly /\ dups = 0 =>
        \A g \in Gets :
            call[g].pc = "ok" /\ RequestKind(g) = "read" /\ DistinctVotes(program[g].key)
               => call[g].value \subseteq Current(g)

\* No put that can change what g or h reads overlaps with them or falls between.
Undisturbed(g, h) ==
    \A p \in PutsMixed(program[g].key) :
        p \in before[g] \/ h \in before[p] \/ call[p].pc = "new"

(***************************************************************************)
(* Two reads of a key, one after the other, do not disagree unless a put   *)
(* to that key overlaps with one of them or falls between them; a put that *)
(* failed halfway and left the servers different does not matter, as long  *)
(* as R is a majority of N.  find and cat read twice and rest on this.     *)
(***************************************************************************)
StableReads ==
    Orderly /\ dups = 0 =>
        \A g, h \in Gets :
            /\ g \in before[h] /\ call[g].pc = "ok" /\ call[h].pc = "ok"
            /\ RequestKind(g) = "read" /\ program[g].key = program[h].key
            /\ N(g) = N(h) /\ 2 * Quorum(g) > N(g) /\ Quorum(h) >= Quorum(g)
            /\ DistinctVotes(program[g].key) /\ Undisturbed(g, h)
            => call[g].value = call[h].value

(***************************************************************************)
(* A put that servers take for a write and that could send it to all of    *)
(* them fails only when faults kept more than N - W of its servers from    *)
(* acknowledging: it tolerates N - W.                                      *)
(***************************************************************************)
PutTolerance ==
    net.prompt =>
        \A o \in Puts : RequestKind(o) = "write" /\ call[o].pc = "fail" =>
            N(o) - Cardinality(faulty[o]) < Needed(o)

(***************************************************************************)
(* A get that could send its requests fails only when no value had the     *)
(* votes of R servers that answered it and whose votes the client's memory *)
(* has held: the protocol discards none.  A duplicate uses up an attempt   *)
(* that an answer needed, and answers that are prefixes of each other may  *)
(* divide their votes.                                                     *)
(***************************************************************************)
Unmistaken(o) ==
    {v \in Answer : \A x \in answered[o] :
        <<v, x[2]>> \in VotePrefix \/ <<x[2], v>> \in VotePrefix => x[2] = v}

GetTolerance ==
    net.prompt =>
        \A o \in Gets : call[o].pc = "fail" =>
            \A v \in Unmistaken(o) : Cardinality(Answering(o, v) \ faulty[o]) < Needed(o) + dups

(***************************************************************************)
(* What a put has written is found.  A get that begins after a put of its  *)
(* key has returned OK, with no other put that can change its answer       *)
(* coming after, fails only if more than W - R servers are faulty for it:  *)
(* those that a fault kept from answering, those whose vote the client     *)
(* lost for want of memory, and those that the put wrote to and the get    *)
(* does not contact.                                                       *)
(***************************************************************************)
Contacted(o) == {servers_to_contact(o)[m] : m \in 1..N(o)}

\* Put q is the last that can change what get g is answered.
LastPut(q, g) ==
    /\ q \in before[g] /\ call[q].pc = "ok" /\ program[q].key = program[g].key
    /\ \A p \in PutsMixed(program[g].key) :
          p = q \/ p \in before[q] \/ g \in before[p] \/ call[p].pc = "new"

WrittenIsFound ==
    net.prompt /\ Orderly /\ dups = 0 =>
        \A g \in Gets : \A q \in Puts :
            /\ call[g].pc = "fail" /\ LastPut(q, g) /\ RequestKind(g) = "read"
            /\ DistinctVotes(program[g].key)
            => Needed(q) - Cardinality(Contacted(q) \ Contacted(g))
                  < Needed(g) + Cardinality(faulty[g])

(***************************************************************************)
(* launch-server.c: "it's a read request -> send the value associated with *)
(* the key received".  An answer to every read a server has handled is     *)
(* found at the client.                                                    *)
(***************************************************************************)
ReadsAnswered ==
    [][ \A s \in Server : \A o \in Gets :
          /\ inbox[s] # <<>> /\ o = Head(inbox[s]) /\ RequestKind(o) = "read" /\ Open(o)
          /\ inbox'[s] = Tail(inbox[s])
          => socket'[o] # socket[o] ]_vars
=============================================================================
