----------------------------- MODULE ListNodes -----------------------------
(***************************************************************************)
(* pps-list-nodes: a process that builds the same ring as a client, sends  *)
(* an empty datagram to every node, marks the nodes whose address an empty *)
(* answer comes from, and prints them all.  The servers answer, and send   *)
(* to other clients as well; everybody sends as module PacketLog says.     *)
(*                                                                         *)
(* A ping is sent to a node, so a server gets as many as it has nodes, but *)
(* only its address counts from there on: all nodes with the address of an *)
(* answer are marked.                                                      *)
(***************************************************************************)
EXTENDS ClientInit, PacketLog

CONSTANTS
    Lister,       \* the process of pps-list-nodes
    Stranger,     \* another client
    ListFiles,    \* the servers files it may find
    ListDigests,  \* bound: the digests of nodes, of which it prints only the text
    Port,         \* Port[a]: the port of a in the byte order of the network
    MaxDup,       \* bound: datagrams the network duplicates
    MaxLookups    \* bound: the reads of missing keys by other clients

\* main(void): no arguments, no options.
ListProgram == [nb_args |-> 0, supported |-> {}]

ASSUME ListAssumption ==
    /\ Sender = Addr \cup {Lister, Stranger} /\ {Lister, Stranger} \cap Addr = {}
    /\ Lister # Stranger
    /\ ListProgram \in Programs
    /\ \A f \in ListFiles : \A n \in DOMAIN f : f[n] = Malformed \/ f[n].addr \in Addr
    /\ ListDigests \subseteq Digest
    /\ Port \in [Addr -> Nat]
    /\ MaxDup \in Nat /\ MaxLookups \in Nat

VARIABLES
    listing,      \* "off" (the process is a client), "start", "running",
                  \* "printed" or "exited"
    pinged,       \* the number of nodes sendto was called for
    pings,        \* pings[s]: the pings that wait for server s
    answers,      \* answers[s]: the answers of s that wait in the socket
    addr_len_rcv, \* what the stack held there: "negative", less than an address
                  \* ("cut") or at least that ("full"); recvfrom makes it "full"
    responsive,   \* the addresses whose nodes are marked
    printed,      \* the lines printed: [addr, ok]
    calm,         \* whether nothing fails, is lost, or comes too late
    \* History and bounds:
    uncertain,    \* whether addr_len_rcv was not full at the beginning
    answered,     \* the servers an answer of which reached the socket
    dups, lookups

netVars == <<pings, answers, answered, dups>>
listVars ==
    <<listing, pinged, addr_len_rcv, responsive, printed, calm, uncertain, lookups, netVars>>
allVars == <<clientVars, listVars, logVars>>

NoListing ==
    /\ pinged = 0 /\ responsive = {} /\ printed = <<>>
    /\ pings = [s \in Addr |-> 0] /\ answers = [s \in Addr |-> 0]
    /\ answered = {} /\ dups = 0 /\ lookups = 0

InitOff ==
    /\ InitClient
    /\ listing = "off" /\ NoListing
    /\ addr_len_rcv = "full" /\ calm = TRUE /\ uncertain = FALSE
    /\ InitLog /\ alive = {} /\ preloaded = FALSE

InitList ==
    /\ stage = "list" /\ program = ListProgram /\ argv = <<>> /\ file \in ListFiles
    /\ Blank
    /\ listing = "start" /\ NoListing
    /\ addr_len_rcv \in {"negative", "cut", "full"} /\ uncertain = (addr_len_rcv # "full")
    /\ calm \in BOOLEAN
    /\ InitLog
    /\ Lister \in alive /\ Stranger \notin alive
    /\ alive \subseteq {Lister} \cup
                     {file[n].addr : n \in {j \in DOMAIN file : file[j] # Malformed}}

----------------------------------------------------------------------------

\* The nodes of the ring are read as a client reads them; the result of
\* ring_init is not looked at.
ListRings(n) ==
    {r \in UNION {[1..k -> [sha : ListDigests, addr : Addr]] : k \in 0..MaxNodes} :
        node_list_sorted(r) /\ nodes_read(r, n)}

ListStart ==
    /\ listing = "start"
    /\ \E n \in 0..Len(file) :
          (\A j \in 1..n : file[j] # Malformed) /\ ring' \in ListRings(n)
    /\ listing' = "running" /\ file' = <<>>
    /\ UNCHANGED <<stage, program, argv, args, wanted, sha, pc, i, result, logVars>>
    /\ UNCHANGED <<pinged, addr_len_rcv, responsive, printed, calm, uncertain, lookups, netVars>>

\* No socket, no nodes, no memory.
ListStartFails ==
    /\ listing = "start"
    /\ listing' = "exited"
    /\ UNCHANGED <<clientVars, logVars, pinged, addr_len_rcv, responsive, printed, calm, uncertain,
                   lookups, netVars>>

\* The next turn of the first loop, when the sendto before has succeeded.
ListPing ==
    /\ listing = "running" /\ sending[Lister].ok /\ pinged < Len(ring)
    /\ Call(Lister, ring[pinged + 1].addr, TRUE)
    /\ pinged' = pinged + 1
    /\ UNCHANGED <<clientVars, listing, addr_len_rcv, responsive, printed, calm, uncertain, lookups,
                   netVars>>

\* sendto has returned -1.
ListSendFails ==
    /\ listing = "running" /\ Idle(Lister) /\ ~ sending[Lister].ok
    /\ listing' = "exited"
    /\ UNCHANGED <<clientVars, logVars, pinged, addr_len_rcv, responsive, printed, calm, uncertain,
                   lookups, netVars>>

Listening ==
    /\ listing = "running" /\ Idle(Lister) /\ sending[Lister].ok /\ pinged = Len(ring)

\* A variant for the mutation runs: memcmp of the family of the address only.
ComparedFamily(s) == {Servers}

\* The addresses of nodes that memcmp finds equal to the sender's: one at most.
\* A sender that was cut may look like any of them, or like none.
Compared(s) == IF addr_len_rcv = "cut" THEN {{a} : a \in Servers} \cup {{}} ELSE {{s} \cap Servers}

\* A variant for the mutation runs: the loop ends with an answer.
ReceiveOnce ==
    /\ Listening /\ addr_len_rcv # "negative"
    /\ \E s \in Addr :
          /\ answers[s] > 0
          /\ answers' = [answers EXCEPT ![s] = @ - 1]
          /\ \E marked \in Compared(s) : responsive' = responsive \cup marked
    /\ addr_len_rcv' = "full" /\ listing' = "printed"
    /\ printed' = [n \in DOMAIN ring |->
                     [addr |-> ring[n].addr, ok |-> ring[n].addr \in responsive']]
    /\ UNCHANGED <<clientVars, logVars, pinged, calm, uncertain, lookups, pings, answered, dups>>

\* One turn of the second loop.
ListReceive ==
    /\ Listening /\ addr_len_rcv # "negative"
    /\ \E s \in Addr :
          /\ answers[s] > 0
          /\ answers' = [answers EXCEPT ![s] = @ - 1]
          /\ \E marked \in Compared(s) : responsive' = responsive \cup marked
    /\ addr_len_rcv' = "full"
    /\ UNCHANGED <<clientVars, logVars, listing, pinged, printed, calm, uncertain, lookups, pings,
                   answered, dups>>

\* The orders in which qsort with compare_port may leave the nodes.
Orders ==
    {o \in Bijection(DOMAIN ring, DOMAIN ring) :
        \A m, n \in DOMAIN ring : m < n => Port[ring[o[m]].addr] <= Port[ring[o[n]].addr]}

\* The lines, with the nodes in order o.
Lines(o) ==
    [n \in DOMAIN ring |->
        [addr |-> ring[o[n]].addr, ok |-> ring[o[n]].addr \in responsive]]

ToLister(s) == sending[s].step # "out" /\ sending[s].to = Lister

OnItsWay ==
    \E s \in Addr : answers[s] > 0 \/ (s \in alive /\ (pings[s] > 0 \/ ToLister(s)))

(***************************************************************************)
(* The second loop ends with the time-out of a second or because recvfrom  *)
(* refuses a negative length, or it is skipped for an empty ring.          *)
(***************************************************************************)
ListPrint ==
    /\ Listening
    /\ \/ ring = <<>>
       \/ addr_len_rcv = "negative" /\ \E s \in Addr : answers[s] > 0
       \/ calm => ~ OnItsWay
    /\ \E o \in Orders : printed' = Lines(o)
    /\ listing' = "printed"
    /\ UNCHANGED <<clientVars, logVars, pinged, addr_len_rcv, responsive, calm, uncertain, lookups,
                   netVars>>

----------------------------------------------------------------------------

\* A server takes an empty datagram and answers with one.
AnswerPing(s) ==
    /\ pings[s] > 0
    /\ pings' = [pings EXCEPT ![s] = @ - 1]
    /\ Call(s, Lister, TRUE)
    /\ UNCHANGED <<clientVars, listing, pinged, addr_len_rcv, responsive, printed, calm, uncertain,
                   lookups, answers, answered, dups>>

\* A server takes the read of a key it has not, and sends a NULL pointer.
AnswerLookup(s) ==
    /\ lookups < MaxLookups /\ listing = "running"
    /\ lookups' = lookups + 1
    /\ Call(s, Stranger, FALSE)
    /\ UNCHANGED <<clientVars, listing, pinged, addr_len_rcv, responsive, printed, calm, uncertain,
                   netVars>>

Copies == {1} \cup (IF calm THEN {} ELSE {0}) \cup (IF calm \/ dups = MaxDup THEN {} ELSE {2})

\* The datagram of process p leaves and arrives n times.
Deliver(p) ==
    \E n \in Copies :
       /\ dups' = IF n = 2 THEN dups + 1 ELSE dups
       /\ IF p = Lister
          THEN /\ pings' = [pings EXCEPT ![sending[p].to] = @ + n]
               /\ UNCHANGED <<answers, answered>>
          ELSE /\ answers' = [answers EXCEPT ![p] = @ + n]
               /\ answered' = IF n > 0 THEN answered \cup {p} ELSE answered
               /\ UNCHANGED pings

SendSucceeds(p) == sending[p].readable /\ Kernel(p, TRUE) /\ Deliver(p)

\* The kernel refuses a NULL pointer, or fails otherwise.
SendRefused(p) ==
    /\ ~ sending[p].readable \/ ~ calm
    /\ Kernel(p, FALSE)
    /\ UNCHANGED netVars

InSendto(p) ==
    /\ \/ SendSucceeds(p) \/ SendRefused(p)
       \/ /\ Lock(p) \/ Note(p) \/ NoteCrashes(p) \/ (~ calm /\ OpenFails(p))
          /\ UNCHANGED netVars
    /\ UNCHANGED <<clientVars, listing, pinged, addr_len_rcv, responsive, printed, calm, uncertain,
                   lookups>>

\* The process of list-nodes outside of sendto, and a server.
StepLister ==
    \/ ListStart \/ ListStartFails \/ ListPing \/ ListSendFails \/ ListReceive \/ ListPrint
StepServer(s) == AnswerPing(s) \/ AnswerLookup(s)

NextList ==
    \/ NextClient /\ UNCHANGED <<listVars, logVars>>
    \/ StepLister
    \/ \E s \in Addr : StepServer(s)
    \/ \E p \in Addr \cup {Lister} : InSendto(p)

\* As long as some process can go on, one does: recvfrom returns after a second,
\* and a process that waits for the lock waits for one that runs.
SpecList == (InitOff \/ InitList) /\ [][NextList]_allVars /\ WF_allVars(NextList)

----------------------------------------------------------------------------

ListTypeOK ==
    /\ ClientTypeOK /\ LogTypeOK
    /\ listing \in {"off", "start", "running", "printed", "exited"}
    /\ pinged \in 0..Len(ring)
    /\ {pings, answers} \subseteq [Addr -> Nat]
    /\ addr_len_rcv \in {"negative", "cut", "full"}
    /\ responsive \subseteq Addr /\ answered \subseteq Addr
    /\ listing = "printed" => Len(printed) = Len(ring)

(***************************************************************************)
(* A node is printed as OK only if its server has answered.  The length    *)
(* that nobody has set can spoil this for one server, that of the first    *)
(* answer, and with the right length for none.                             *)
(***************************************************************************)
MarkedAnswered ==
    Cardinality(responsive \ answered) <= IF uncertain THEN 1 ELSE 0

(***************************************************************************)
(* When no datagram is lost or late, every server that is still up is      *)
(* printed as OK, at each of its nodes, unless the length was wrong: how   *)
(* many nodes a server has, and servers that are down or killed meanwhile, *)
(* make no difference to the others.                                       *)
(***************************************************************************)
AliveListed ==
    calm /\ ~ uncertain =>
        \A n \in DOMAIN printed : printed[n].addr \in alive => printed[n].ok

(***************************************************************************)
(* The listing ends, with a list or an error: also when a server is killed *)
(* while it holds the lock of the log.                                     *)
(***************************************************************************)
ListEnds ==
    listing = "running" ~> listing \in {"printed", "exited"} \/ Lister \notin alive
=============================================================================
