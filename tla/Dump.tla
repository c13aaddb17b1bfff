-------------------------------- MODULE Dump --------------------------------
(***************************************************************************)
(* A dump of a server: serve_dump_node of launch-server.c cuts the pairs   *)
(* of the table into datagrams, dump-node.c prints what arrives.           *)
(*                                                                         *)
(* A datagram is the sequence of its strings, each of which is followed by *)
(* a zero byte: in the first one the number of pairs, and in all of them   *)
(* keys and values in turn.  Only the lengths of strings matter, whether   *)
(* one is empty, and what sscanf finds in it.                              *)
(***************************************************************************)
EXTENDS Integers, FiniteSets, SequencesExt

CONSTANTS
    String,   \* the strings
    Empty,    \* the empty one
    LenOf,    \* LenOf[s] is strlen(s)
    Decimal,  \* Decimal[n] is what sprintf("%zu", n) writes
    Scan,     \* Scan[s] is {n} if sscanf("%lu") reads n from s, or else {}
    Lists,    \* the contents <<key, value>>, ... that get_Htable_content may return
    MaxMsg,   \* MAX_MSG_SIZE
    SizeMod,  \* 2^w for the w bits of a size_t
    \* The environment:
    MaxDup,   \* bound: duplicated datagrams
    MaxSlow   \* bound: datagrams on their way

ASSUME DumpAssumption ==
    /\ Empty \in String /\ LenOf \in [String -> Nat]
    /\ \A s \in String : LenOf[s] = 0 <=> s = Empty
    /\ Scan \in [String -> SUBSET Nat] /\ Scan[Empty] = {}
    /\ Lists \subseteq Seq(String \X String)
    /\ \A l \in Lists : \A i, j \in 1..Len(l) : i # j => l[i][1] # l[j][1]
    /\ \A l \in Lists : Decimal[Len(l)] \in String /\ Scan[Decimal[Len(l)]] = {Len(l)}
    /\ \A l \in Lists : LenOf[Decimal[Len(l)]] < MaxMsg
    /\ MaxMsg \in Nat /\ SizeMod \in Nat /\ MaxMsg < SizeMod
    /\ MaxDup \in Nat /\ MaxSlow \in Nat

VARIABLES
    list,      \* the content of the server's table
    requests,  \* dump requests that wait in the server's socket
    pc,        \* of the server: "idle", "copy", "send", or "crashed"
    index_list, msg, index, \* the locals of serve_dump_node
    net,       \* the datagrams on their way to the client, oldest first
    total_kv, nb_kv, \* the locals of dump-node.c
    printed,   \* the pairs it has printed
    done,      \* whether it has returned
    \* History, for the properties only:
    dups,      \* duplicated datagrams
    disturbed  \* whether something was lost, repeated, swapped or too late

server == <<requests, pc, index_list, msg, index>>
client == <<total_kv, nb_kv, printed, done>>
vars == <<list, server, net, client, dups, disturbed>>

----------------------------------------------------------------------------

\* The request may be lost or duplicated before the server sees it.
Init ==
    /\ list \in Lists
    /\ requests \in 0..(1 + MaxDup)
    /\ dups = IF requests > 1 THEN requests - 1 ELSE 0
    /\ disturbed = (requests # 1)
    /\ pc = "idle" /\ index_list = 0 /\ msg = <<>> /\ index = 0
    /\ net = <<>>
    /\ total_kv = 0 /\ nb_kv = 0 /\ printed = <<>> /\ done = FALSE

\* The bytes of a pair in a message, its zero bytes included.
PairLen(pair) == LenOf[pair[1]] + LenOf[pair[2]] + 2

\* A variant for the mutation runs: the outer loop tests for one pair too many.
MorePairsLate(n) == IF n <= Len(list) THEN "copy" ELSE "idle"

\* The condition of the outer loop.
MorePairs(n) == IF n < Len(list) THEN "copy" ELSE "idle"

\* The server takes a request.  For an empty table it sends nothing.
Begin ==
    /\ pc = "idle" /\ requests > 0
    /\ requests' = requests - 1
    /\ msg' = <<Decimal[Len(list)]>>
    /\ index' = LenOf[Decimal[Len(list)]] + 1
    /\ index_list' = 0
    /\ pc' = MorePairs(0)
    /\ UNCHANGED <<list, net, client, dups, disturbed>>

\* get_Htable_content returns NULL: the request is dropped.
BeginNoMemory ==
    /\ pc = "idle" /\ requests > 0
    /\ requests' = requests - 1
    /\ disturbed' = TRUE
    /\ UNCHANGED <<list, pc, index_list, msg, index, net, client, dups>>

\* A variant for the mutation runs: next_len forgets the zero bytes.
RoomForText(n, used) ==
    n < Len(list) /\ PairLen(list[n + 1]) - 2 < (MaxMsg - used) % SizeMod

\* The condition of the inner loop: pair n + 1 exists and is shorter than what
\* is left, an unsigned difference that wraps when too much is used already.
Room(n, used) ==
    n < Len(list) /\ PairLen(list[n + 1]) < (MaxMsg - used) % SizeMod

(***************************************************************************)
(* One iteration of the inner loop.  The first pair of a message is copied *)
(* without asking for room.                                                *)
(***************************************************************************)
Copy ==
    /\ pc = "copy"
    /\ msg' = msg \o list[index_list + 1]
    /\ index' = index + PairLen(list[index_list + 1])
    /\ index_list' = index_list + 1
    /\ pc' = IF Room(index_list', index') THEN "copy" ELSE "send"
    /\ UNCHANGED <<list, requests, net, client, dups, disturbed>>

\* What was copied behind the end of msg kills the process, or does not: the
\* last zero byte is not copied, and one more can do harm.
Overflow ==
    /\ pc \in {"copy", "send"} /\ index > MaxMsg + 1
    /\ pc' = "crashed"
    /\ UNCHANGED <<list, requests, index_list, msg, index, net, client, dups, disturbed>>

\* A variant for the mutation runs: the next message goes on behind this one.
GoOnBehind == UNCHANGED <<msg, index>>

\* The message is sent; the next one has no count.
Clear == msg' = <<>> /\ index' = 0

\* How many copies of a datagram arrive.
Copies == IF dups < MaxDup THEN 0..2 ELSE 0..1

(***************************************************************************)
(* sendto and the end of the outer loop.  A datagram can be lost, and one  *)
(* of more than MAX_MSG_SIZE bytes, the limit of UDP, is not sent at all;  *)
(* nobody looks at the result.                                             *)
(***************************************************************************)
Send ==
    /\ pc = "send" /\ Len(net) < MaxSlow
    /\ \E n \in IF index <= MaxMsg THEN Copies ELSE {0} :
          /\ net' = net \o [i \in 1..n |-> msg]
          /\ dups' = IF n = 2 THEN dups + 1 ELSE dups
          /\ disturbed' = (disturbed \/ n # 1)
    /\ Clear
    /\ pc' = MorePairs(index_list)
    /\ UNCHANGED <<list, requests, index_list, client>>

----------------------------------------------------------------------------

\* The string at place n of the response; behind its end are zero bytes.
StringAt(response, n) == IF n \in DOMAIN response THEN response[n] ELSE Empty

(***************************************************************************)
(* The inner loop of dump-node.c: from the string at place start, as many  *)
(* pairs as are still missing, up to the first empty key.                  *)
(***************************************************************************)
Pairs(response, start, missing) ==
    LET Loops(n) == n <= missing
                    /\ \A j \in 0..(n - 1) : StringAt(response, start + 2 * j) # Empty
    IN  [j \in 1..Max({n \in 0..Len(response) : Loops(n)}) |->
            <<StringAt(response, start + 2 * (j - 1)), StringAt(response, start + 2 * j - 1)>>]

\* A variant for the mutation runs: every response is taken to begin with a count.
AlwaysCounted(response) == Scan[Head(response)] # {}

\* A response is taken for the first one as long as nothing has been printed and
\* it begins with a number.
Counted(response) == nb_kv = 0 /\ Scan[Head(response)] # {}

\* One turn of the outer loop, with the datagram at place i of those on their way.
Receive ==
    /\ ~ done
    /\ \E i \in DOMAIN net :
          LET response == net[i]
              total == IF Counted(response) THEN CHOOSE n \in Scan[Head(response)] : TRUE
                                            ELSE total_kv
              new == Pairs(response, IF Counted(response) THEN 2 ELSE 1,
                           IF nb_kv < total THEN total - nb_kv ELSE 0)
          IN  /\ net' = RemoveAt(net, i)
              /\ total_kv' = total
              /\ printed' = printed \o new
              /\ nb_kv' = nb_kv + Len(new)
              /\ disturbed' = (disturbed \/ i # 1)
    /\ UNCHANGED <<list, server, done, dups>>

\* recvfrom times out, the only way out of the loop.
Timeout ==
    /\ ~ done
    /\ done' = TRUE
    /\ disturbed' = (disturbed \/ net # <<>> \/ requests > 0 \/ pc \in {"copy", "send"})
    /\ UNCHANGED <<list, server, net, total_kv, nb_kv, printed, dups>>

Next == Begin \/ BeginNoMemory \/ Copy \/ Overflow \/ Send \/ Receive \/ Timeout

Spec == Init /\ [][Next]_vars

----------------------------------------------------------------------------

TypeOK ==
    /\ list \in Lists
    /\ requests \in Nat /\ pc \in {"idle", "copy", "send", "crashed"}
    /\ index_list \in 0..Len(list) /\ (pc = "copy" => index_list < Len(list))
    /\ msg \in Seq(String) /\ index \in Nat
    /\ net \in Seq(Seq(String) \ {<<>>})
    /\ total_kv \in Nat /\ nb_kv \in Nat /\ nb_kv = Len(printed)
    /\ printed \in Seq(String \X String)
    /\ done \in BOOLEAN /\ disturbed \in BOOLEAN /\ dups \in Nat

\* Every pair fits a message of its own, the first one next to the count.
EachFits ==
    /\ \A n \in 1..Len(list) : PairLen(list[n]) <= MaxMsg
    /\ list # <<>> => LenOf[Decimal[Len(list)]] + 1 + PairLen(list[1]) <= MaxMsg

(***************************************************************************)
(* serve_dump_node stays within msg unless a single pair is too large for  *)
(* the message it opens: the wrapping difference does no harm by itself.   *)
(***************************************************************************)
StaysInMessage == EachFits => index <= MaxMsg /\ pc # "crashed"

(***************************************************************************)
(* What dump-node prints is stored, and nothing is printed twice, as long  *)
(* as no datagram is duplicated and no key looks like a number.  Loss and  *)
(* reordering only leave pairs out, even when they hit the count.          *)
(***************************************************************************)
NoKeyScans == \A n \in 1..Len(list) : Scan[list[n][1]] = {}

PrintsStored ==
    dups = 0 /\ NoKeyScans =>
        /\ \A i \in 1..Len(printed) : \E n \in 1..Len(list) : printed[i] = list[n]
        /\ \A i, j \in 1..Len(printed) : i # j => printed[i] # printed[j]

(***************************************************************************)
(* When every datagram arrives once, in order and in time, dump-node       *)
(* prints the content of the server, keys that look like numbers included. *)
(* A pair with an empty key hides the rest of its message, and one that is *)
(* too large its message.                                                  *)
(***************************************************************************)
NoKeyEmpty == \A n \in 1..Len(list) : list[n][1] # Empty

PrintsAll == done /\ ~ disturbed /\ EachFits /\ NoKeyEmpty => printed = list
=============================================================================
