# A TLA+ model of HashTable, a small distributed hash table

The program is a key-value store in C. Servers (`launch-server.c`) keep pairs of
strings in a chained hash table (`hashtable.c`) and answer UDP datagrams. Clients
(`client-*.c`) find the servers of a key by consistent hashing (`ring.c`,
`node_list.c`, `node.c`), send a write or a read to all `N` of them and are
content with `W` acknowledgements or `R` equal answers (`network.c`). There are no
retries, no versions and no persistence.

This directory holds TLA+ modules for the core of that program, TLC
configurations that check them on small instances, and proofs, for instances of every size, of all the invariants and action properties that hold in those runs.

## Inventory

| Component | Files | State | Operations | Correct when |
|---|---|---|---|---|
| Local hash table | `hashtable.c/.h` | an array of linked lists of pairs | construct, add, get, content, delete a key, delete all | it is a map from keys to the value last added; memory failures change nothing |
| Key ring | `ring.c`, `node.c` | the sorted array of nodes of a client | `ring_init`, `ring_get_nodes_for_key` | every client finds the same `N` different servers for a key, and the call ends |
| Node list, servers file | `node_list.c`, `servers.txt` | a growing array of nodes | add, sort, `get_nodes` | it has the nodes the file asks for, or none |
| Vote count of a read | `network.c` (`increment_and_test`) | a hash table from responses to counts, local to one read | count a response and compare with `R` | a response is returned if and only if `R` servers sent it |
| Network operations | `network.c` | the locals and the socket of one call | `network_put`, `network_get` | OK means a quorum; quorums intersect; the call ends |
| Server | `launch-server.c` | one hash table in memory | read, write, dump, ping; one datagram at a time | every request is answered and is taken for what it is |
| Dump protocol | `launch-server.c` (`serve_dump_node`), `dump-node.c` | a message buffer on each side | cut the pairs into datagrams, print them | each pair is printed once |
| Node listing | `list-nodes.c` | a responsive flag for each node | ping all, mark those that answer | a node is marked if and only if it answered |
| Client initialisation | `client.c`, `args.c` | `args_t`, the ring | options, argument count, check of `N` | `W <= N`, `R <= N`, enough servers |
| Client programs | `client-put/get/cat/find/substr.c` | strings | sequences of gets and puts | the output is that of the operation named |
| Packet logger | `log-packets.c` | a log file that all processes share, and its lock | `sendto` | the log has the datagrams in the order they were sent |
| Sockets, errors, utilities | `system.c`, `error.c`, `util.c` | none | operating-system calls, messages, `strdup` | |

How they interact: a client program calls `client_init` once (arguments,
servers file, ring), then `network_put` or `network_get`, which call
`ring_get_nodes_for_key`, send one datagram to each server and wait for answers with a
time-out of one second each. A server tells requests apart by the length of the datagram
and the place of a zero byte in it, calls the hash table and sends one answer. A
read counts the answers in a hash table of its own, the same code as the server's.
Processes share nothing but datagrams and, if `log-packets.so` is preloaded into them, the log file
with its lock; each process is single-threaded.

What is hard: clients and servers interleave; datagrams are lost, duplicated,
reordered and late; a server that restarts forgets; a put can fail after it has
written to some servers; `cat` and `find` make several calls while others write their keys; a length is used before
it is set; a process can be killed while it holds a lock; counts are narrow; keys and answers are compared by
prefix (`strncmp` with the length of the key asked for), in the servers' tables and in the
vote count; two loops of the ring have no bound of their own. `PROJECT.json` lists these
hazards at their lines, with the properties that cover them.

## Modules

| Module | Models | Composed of |
|---|---|---|
| `Buckets` | `hashtable.c` as operators on a value: a table is a function from bucket indices to sequences of pairs, head of the list first | |
| `HashTable` | one table over its life, one action for each exported function, each with its memory failures | `Buckets` |
| `Dictionary` | the abstract map that `hashtable.h` describes | |
| `Ring` | one call of `ring_get_nodes_for_key`, one action for each loop iteration | |
| `ClientInit` | a client process: `client_init` with `parse_opt_args` and `get_nodes`, then the walk | `Ring` |
| `Votes` | `increment_and_test` as operators | `Buckets` |
| `Tally` | the counting loop of `network_get` on its own | `Votes` |
| `Dht` | the calls of `network_put` and `network_get`, the servers, the datagrams | `Buckets` for each server's table, `Votes` for each read |
| `Clients` | the programs put, get, cat, find and substr, as processes that make such calls | `Dht` |
| `PacketLog` | `sendto` with and without the packet logger, step by step | |
| `ListNodes` | `pps-list-nodes` with the servers it pings | `ClientInit` (the ring), `PacketLog` (every `sendto`) |
| `Dump` | `serve_dump_node`, the network, and the loops of `dump-node.c` | |
| `BucketsProofs`, `VotesProofs` | lemmas about the operators of `Buckets` and `Votes` | `Buckets`; `Votes`, `BucketsProofs` |
| `HashTableProofs` | the theorems about `HashTable` and `Dictionary` | `BucketsProofs` |
| `TallyProofs` | the theorems about `Tally` | `VotesProofs` |
| `NodesProofs` | the theorems about `Ring`, `ClientInit` and `ListNodes`, with `PacketLog` in it | `ListNodes` |
| `DhtProofs` | the theorems about `Clients`, with `Dht` in it | `BucketsProofs` for the tables, `VotesProofs` for the reads |
| `CallsProofs` | the theorems about `Clients` that relate several calls: the faults they tolerate, what gets return, that gets find what puts have written | `DhtProofs` |
| `DumpProofs` | the theorems about `Dump` | `Dump` |
| `MCHashTable`, `MCRing`, `MCTally`, `MCClients`, `MCDump` | the instances for TLC | |

Operators with names such as `AddAtTail`, `TakeFirstVote` or `NoWrap`, marked as
variants for the mutation runs, are deliberate bugs. No specification uses them. Each
stands in for one definition in one entry of "mutants" in `PROJECT.json`, and shows that
the property named there notices that bug.

### Buckets, HashTable, Dictionary

Strings are opaque. What the code does with their characters is given by two constants:
`HashOf`, the function that `hash_function` computes, and `PrefixOf`, the prefix order,
because all three walks of `hashtable.c` (lines 126, 159, 284) compare only `strlen(key)`
characters. `FirstMatch` is such a walk: a stored key that begins with the key asked
for matches too. `add_Htable_value` gives the first match the new value and
leaves its key alone, or links a new pair at the head. In `HashTable` every action
has a success and a failure branch where the code allocates. `Del` of a pair at the
head of its list dereferences `last`, which is still NULL (line 285): the process is
killed (`phase = "crashed"`). `Refuse` is the early return with which the functions answer a NULL for
one of their pointers.

`Dictionary` is the map of the header: add associates, get returns what was last
added under exactly that key, delete removes one key. The refinement mapping takes
`dict[k]` to be what `get_Htable_value` finds for `k`, and a killed process
to be one that makes no more calls.

### Ring

The state is the sorted ring, the digest of the key, the index `i` and the result list. A
digest is a first byte and the rest, the rest being a number that stands for a class of
rests that compare alike; `Rank` is the order of `strncmp`, which stops at a zero byte. The initialiser
`{*hash}` keeps one byte of the key's digest (`node_key`). Behind the end of the array the
first loop reads whatever is there: `Overrun` lets it crash or stop at any index, and
`CollectGarbage` takes what was read, which may even look like a server, for a node.
`NoList` and `CollectNoMemory` are the failing allocations.

### ClientInit

One client process from `main` to the servers of its key. `client_init` is one step, for the process is alone until it opens a
socket: it tests the argument counts, takes the options (`Taken`, `ValueOf`, `rem_argv`, by position instead of by a moving pointer), reads
`servers.txt` to its end, to a malformed line or to a read error, which `get_nodes` takes for the end, and compares `N` with the number of nodes.
`client_init_fails` stands for every refusal and for failing allocations. The step sets the ring, the digest and `N` of `Ring`, whose actions
are then `Walk`. An argument is the option it begins with and the number `sscanf` finds in it.

### Votes, Tally

A count is the first character of a value: `as_char` and `as_size` are the two conversions
of line 76 and 80 of `network.c`, so that `CharHalf` votes read back as a huge number. `Tally`
feeds arbitrary responses to the count, with failing allocations. Its `Key` is the set of responses;
`seen[q]`, history, is the number of responses that came and are prefixes of `q`: those are the ones that the walk of a table
with `q` in it may count for `q`.

### Dht

One operation `o` is one call of `network_put` or `network_get`; `call[o]` holds its program
counter and locals, `socket[o]` the bag of datagrams that wait for it, `inbox[s]` the requests
that wait for server `s`. A step of a call is one `sendto` or one `recvfrom`
with what follows it up to the next; a step of a server is one turn of its receive loop
(`Serve` with `Ping`, `DumpNode`, `Write`, `Read`, `NoMemory`). Every call has the `N`, `W` and `R` of its own process.
The servers of a key are the first `N` of `Contact`, the result of the `Ring` module for a covered key: different servers, in the
same order for every client. A start that fails
(no socket, no memory, too few servers) and a failing `sendto` end the call with `error`, N time-outs or useless answers with `fail`; a node list
that could not be allocated is dereferenced in `network.c:109` and `167`, which ends the process (`killed`). `LoseVotes` is a `Receive` of a get in which
an allocation of `increment_and_test` fails: when the count so far cannot be copied it begins again from one, when the new count cannot be stored this vote is lost.

A behaviour begins with one of the `Scenarios`: the calls, what the servers hold, and the environment `net` with five settings: `ordered` (datagrams
to a server are handled in the order they were sent), `prompt` (a time-out means that no answer is on its
way), `lossy` (datagrams are lost, allocations and sends fail), `maxdup` and `maxrestart`.
Strings are opaque; `StoredAs` says what a server takes a written value for: a key and a value of `MAX_MSG_ELEM_SIZE` characters
each fill its buffer, no zero byte ends the value, and leftovers of the stack are stored with it. `Received` is what a client's buffer holds of an answer; that
it cuts such a value to the right length is why it can be read back.
`Needed` is what a quorum of 0 comes to in the code: one acknowledgement, or two equal answers.

`applied`, `answered`, `before`, `faulty` and `dups` are history: they record which
server performed which write, which answers reached a socket, which calls had returned
when one began, which servers a fault kept from answering or whose votes the client lost for want of memory (`faulty`), and how many datagrams were
duplicated and servers restarted. No action reads them except `dups` and `restarts`, which are the bounds.

`network_del` is declared in `network.h` and defined nowhere; it is not modelled.

### Clients

A process `c` has a command line, and its calls `<<c, 1>>`, `<<c, 2>>`, ... are those of `Dht` in the order of `main` (`CallsOf`); `at[c]` is the
one it makes. `InCall` is a step of that call; `Concatenate` one turn of the loop of `client-cat.c`, which gives the last call its value;
`SecondKey` and `Finish` what follows the gets of find. Strings are sequences of characters here, since their lengths and
parts matter: `Refused` is the length test of each program (`cat` leaves it to the calls), `Fits` the one inside
`cat`, `Offset` is `strstr`. `client-substr.c` is a copy of `client-find.c` and is modelled as it is. A process starts where `client_init` has
succeeded; what is before that is `ClientInit`.

### PacketLog, ListNodes

`sending[p]` is where process `p` is in `sendto`. Without the logger a call is one step (`Kernel`). With it, `Lock` opens the file and takes
the lock, `Kernel` sends, `Note` writes and flushes the line and frees the lock. `OpenFails` is the assertion on `fopen`; `NoteCrashes` is the loop over
the bytes of a message that is a NULL pointer, which servers send for a missing key. A process that dies loses its lock, and its line.

`pps-list-nodes` builds its ring as a client does (`ListRings` is `get_nodes` and the sort of `ClientInit`), sends a ping to each *node*, and marks all
nodes with the address of an answer, so `responsive` is a set of addresses. `addr_len_rcv` is what the stack holds where nobody has written: `recvfrom` refuses a
negative length, which ends the loop; with one that is too short it cuts the address, and then writes the full
length, so that `memcmp` compares leftovers of the stack (`Compared`: any server, or none); from the second answer on it is right.
The loop ends with the time-out. Servers answer pings (`AnswerPing`) and other clients (`AnswerLookup`: the read of a missing key, the
one that kills a server with the logger).

### Dump

A datagram is the sequence of its zero-terminated strings, and the server's `index` is the sum of their lengths. `Copy` is one
turn of the inner loop, `Room` its condition with the difference `MAX_MSG_SIZE - index` as the unsigned number it is;
`Send` sends nothing when the message is longer than UDP allows, because nobody looks at the result of
`sendto`; `Overflow` is what copying past the end of `msg` may do. On the other side `Receive` parses one datagram: `Counted`
is the test for the one with the count, `Pairs` the inner loop, which stops at an empty key. The contents a table may have
are given by the constant `Lists`, keys in it being different. The request may be lost or arrive twice
(`Init`). `disturbed` and `dups` are history. Left out are datagrams of strangers, who do not know the client's port.


## Runs

| Run | Question and answer |
|---|---|
| `table_clash` | Five keys, four of which share a bucket and are related by prefixes (`""`, `a`, `ab`, `ac`). `ListInv`: pairs stay in the list of their key and no key stands before one it is a prefix of. `ReadYourWrites`: a value reported as stored is read next. `BoundedInterference`: an operation changes what is read only for related keys of the bucket. `StaysReadable`: adds make no key unreadable. |
| `table_plain` | Four keys, two to a bucket, no prefixes inside a bucket: the table implements `Dictionary`. |
| `table_prefix` (violation) | The same property with the keys of `table_clash` fails: `add(ab, 1)`, `add(a, 2)`, and `ab` reads 2. |
| `table_head` (violation) | `hashtable.h` promises that `del_Htable_key` returns 0 or an error; it crashes for the head of a list. |
| `ring_walk` | Clients with every kind of argument list, files of one to three servers with three nodes or fewer (repeated lines, malformed lines, read errors), all rings of these nodes with digests of first byte 0 to 2. `NearestServers` compares the result with a declarative definition of consistent hashing, in which the place of a key is `node_key`, the first byte of its digest and zeroes. `StaysInArray` confines the undefined behaviour to keys behind every node (for such a key the first loop always leaves the array: line 48 of `ring.c` has no bound). `ListReachesQuorums`: the list is long enough for `W` and `R`. `WalkReturns` is termination, and `WalkAdvances` why: with enough servers every step goes to a later loop, up the array, adds a server to the list, or comes nearer to one the list lacks. Other behaviours of the run are those of the other program that builds a ring, `pps-list-nodes`, with and without the packet logger, one or two servers up, down or killed, and one server with two nodes. `MarkedAnswered`: an OK is an answer, except for one server when the length was wrong. `AliveListed`: with the right length and an orderly network nobody who is up is missed. `LogOrder`: the log is in the order of sending. `ListEnds`: the listing ends, dead lock holders included. |
| `ring_first` (violation) | Two servers, one wanted. A comment in `ring.c` (line 47) says the first node taken is the first whose digest is greater than that of the key; but `node_key` holds only the first byte of the digest, so the walk begins at a node between the two (key `<<1, 1>>`, node `<<1, 0>>`). All clients agree on it, so only the balance suffers. |
| `ring_shipped` (violation) | `pps-client-get` with one key, the `servers.txt` and default `N` of the repository: one server with three nodes, three servers wanted. The second loop never ends. |
| `tally` | Three responses, two related by a prefix, a char of three bits, `R` from 0 to 5. `QuorumOfPrefixes` and `CountsBacked`: no votes are invented, up to what the prefix comparison mixes up; `NoQuorumMissed`: none is lost while memory lasts. |
| `client_faults` | Two servers and six scenarios with `W = R = 2`: a put against a get, a put taken for a dump, a get taken for a ping, quorums of 0, a find and a get that asks no server, a put over a value that is a prefix of the new one; loss, reordering, late answers, failing sends and allocations in all, one duplicate in two, a restart in one. `PutQuorum`, `GetQuorum`: OK means `W` writes or `R` answers from different servers, less one for each duplicate; for a get, answers that are prefixes of one string which the value is a prefix of as well. `ProgramsEnd`: every program ends; `ProgramsAdvance` is why: each step of a process prints, begins its next call, or leaves its call fewer requests to send and attempts to receive, and nothing that servers, faults or other processes do gives it more. |
| `client_calls` | Two or three servers, up to three processes, datagrams handled in order but in one; fourteen scenarios. Two puts and a get of one key with `W = 1`, `R = 2`, with quorums that intersect although `N`, `W` and `R` differ and datagrams are lost, with values that share a prefix, and with a put of the empty key, which servers take for the key of the get: `RegularReads`, a get never returns a value that a completed put has superseded. The defaults `N = 3`, `W = R = 2` with losses, failing sends and allocations and a restart, and two servers with losses, reordering and a duplicate, answers always before the time-out: `PutTolerance`, a put fails only if faults kept more than `N - W` servers from acknowledging it, and `GetTolerance`, a get only if no value that is not mixed up with another answer had the votes of `R` servers that the memory of the client has held, duplicates on top. `WritesHeld`: a put that has answered OK is still held by `W` servers, except for one for each restart and each duplicate, whatever was written after it or failed to be. The defaults, and a put that waits for all three servers (`W = 3`) before a get of two, with losses and no restart: `WrittenIsFound`, a get that follows the last put of its key fails only if the servers at fault, with those whose votes the client lost and those that the put wrote to and the get does not contact, are more than `W - R`. A cat onto its own key and a find of a key in itself while it is written, values too long together, arguments too long or too few, a key and a value that fill a message: `StableReads`, the two gets of find agree unless a put overlaps or falls between; `CatStores`, what cat put is what it got, in order. |
| `dump` | Every table of up to three pairs, keys of 0, 1 or 4 bytes and one that looks like a number, messages of nine bytes, one duplicate (of the request or of an answer), losses, reordering, early time-outs. `StaysInMessage`: the message buffer is left only by a pair too large for the message it opens. `PrintsStored`: loss and reordering leave pairs out but invent none. `PrintsAll`: without faults everything is printed, keys that look like numbers included. |
| `dht_missing` (violation) | A comment in the server says a read is answered; for a missing key nothing is sent, because `sendto` gets a NULL pointer. |

### Bounds

* Table: four or five keys and two values give every shape of a list with up to four
  related keys. The walks look at keys only through `PrefixOf`, so more
  characters add nothing but longer lists. The proofs cover all sizes.
* Ring: the arguments are one list for each way through `parse_opt_args` and the counts of `client_init`. Three nodes and three addresses give every pattern of repeated servers,
  ties between nodes, wrapping, and a server that is met twice before the list is full.
* Tally: seven responses and `CharHalf = 4` reach the sign change and `R = CharHalf + 1`, the
  largest quorum for which the count is right; in the program that is 129. From `R = 130` on
  a response is returned with 129 votes, because 128 reads back as `2^64 - 128`.
  `SizeMod` only has to be larger than every count.
* Clients: the calls overlap in every way. Three servers are the default `N`, where a call
  can do without one of them. With two servers `W = 1`, `R = 2` is the smallest case of
  intersecting quorums: a put leaves one server with an old value, and a get must not settle for it.
  One duplicate suffices to break `PutQuorum` and `GetQuorum` without their allowance. Strings of up to four characters
  (`MAX_MSG_ELEM_SIZE = 4`) and one that is too long reach every length test from both sides. Scenarios are listed
  in `MCClients`; each names the smallest environment in which its question is hard.
* ListNodes: two servers, or one with two nodes. One duplicate (`MaxDup`) and one
  fatal read (`MaxLookups`) occur at any moment; a second of either kills the other server, which is also covered by servers that are down
  at the start. `ListDigests` has one digest, as the listing only prints it: all orders of the nodes are then possible.
* Dump: nine bytes hold one, two or three of the pairs, three pairs fill up to three datagrams, and the longest pair
  fits no message next to the count, which reaches `Overflow`. `MaxSlow`, the datagrams on their way, never holds the server up for
  long: the client takes them at any time. A second duplicate adds nothing, for `PrintsStored` excludes the first.

### Fairness and environment

`SpecList` assumes that the system does not stop while some process can take a step (`WF_allVars(NextList)`); a process that waits
for the lock of the log waits for one that runs, and the kernel frees the lock of one that died. Its behaviours without a listing are those of `SpecClient`.
In `SpecClients` each client process that can go on does, which the time-out of its socket justifies: `recvfrom`
returns after a second at the latest. Nothing is assumed of servers or of the
network, so `ProgramsEnd` holds with all servers down. That `flock` may let a process wait for long while others come and go is not considered:
the calls of `sendto` in the model are finitely many.

`RegularReads` needs `W + R > N`, and `StableReads` a majority for `R`. Both speak of states in which the servers are `Orderly` (requests are handled in
the order they were sent, and no server has restarted so far) and nothing has been duplicated so far. With
reordered datagrams a server can apply two puts in the other order and keep the older
one; with a restart it forgets; with a duplicate one server is counted twice. All three are consequences of a store without versions that
counts datagrams, and no document promises more. A put to a key that servers mix up with the one asked for (`Mixed`) counts as a put to that key, and values
that are prefixes of each other, which share votes, are excluded (`DistinctVotes`).

### Other disagreements, not given a run

* The comment of the first loop of `ring_get_nodes_for_key` (`ring.c:47`) says it finds a node; for a key behind every
  node it reads past the array (`Overrun`). `StaysInArray` says when it does not.
* A put of a key and a value of `MAX_MSG_ELEM_SIZE` bytes each is accepted by `client-put.c`; a
  dump of that pair leaves the message buffer (`Overflow`).
* `network_put` counts acknowledgements, not servers (`network.c:179`): `PutQuorum` has the
  term `dups` for that reason.
* A get of the empty key is sent as an empty datagram, which servers take for a ping and
  answer with an empty datagram: two of them make the value `""`.
* Votes are counted by prefix (`network.c:67`): after one vote for `12`, one vote for `1` reaches
  `R = 2`. `QuorumOfPrefixes` says what is left of "R servers sent it".
* `client-substr.c:3` says the program extracts a substring and stores it in a new key; the file is a copy of `client-find.c`, and no step of
  a substr in `Clients` makes a put.
* `W = 0` needs one acknowledgement and `R = 0` two equal answers; `N = 0` makes every call fail.
* With the logger preloaded, a get of a missing key kills the servers it reaches (`NoteCrashes`).
* `compare_port` returns only 0 and 1, and compares ports in network byte order, against `node.h:63-66`. The merge sort of
  glibc sorts by it all the same, so only the order of the lines of `pps-list-nodes` is odd (`Orders`, `Lines`).
* `pps-list-nodes` uses `addr_len_rcv` uninitialised (`list-nodes.c:55`): it may print FAIL for every node, or OK for a server that is down.
* A cat reads its keys one after the other and puts later: the values need not have been current at one moment, and a write to the new
  key in between is lost. Nothing promises otherwise.

## Proofs

TLC checks small instances; the theorems hold for every value of the constants that meets the named assumptions, which TLC evaluates on
every run.

| Module | Theorem | Statement |
|---|---|---|
| `HashTableProofs` | `TypeCorrect`, `ListsCorrect`, `WritesAreRead` | `Spec => []TypeOK`, `[]ListInv`, `[]ReadYourWrites` |
| | `InterferenceBounded`, `ReadableStays` | the action properties `BoundedInterference`, `StaysReadable` |
| | `ImplementsDictionary` | `NoPrefixClash` implies `Spec => DictionarySpec` |
| `TallyProofs` | `ReadStaysTyped`, `CountsAreBacked`, `QuorumsAreSeen` | `Spec => []TypeOK`, `[]CountsBacked`, `[]NoQuorumMissed` |
| | `QuorumsAreReal` | `Countable` implies `Spec => []QuorumOfPrefixes` |
| `NodesProofs` | `WalkStaysInArray`, `WalkFindsNearest` | `Spec => [](TypeOK /\ StaysInArray)`, `[]NearestServers`, of the walk alone |
| | `QuorumsReached` | `SpecClient => [](ClientTypeOK /\ ListReachesQuorums)` |
| | `ListTypes`, `ClientsStayInArray`, `ClientsFindNearest` | `SpecList => []ListTypeOK`, `[]StaysInArray`, `[]NearestServers` |
| | `ClientsReachQuorums` | `SpecList => []ListReachesQuorums` |
| | `WalksAdvance` | `SpecList` implies the action property `WalkAdvances` |
| | `MarksAreAnswers`, `AliveAreListed`, `LogIsOrdered` | `SpecList => []MarkedAnswered`, `[]AliveListed`, `[]LogOrder` |
| `DumpProofs` | `MessageStays`, `DumpTypesStay` | `Spec => []StaysInMessage`, `[]TypeOK` |
| | `OnlyStoredPrinted`, `AllPrinted` | `Spec => []PrintsStored`, `[]PrintsAll` |
| `DhtProofs` | `ClientTypes`, `WritesReachQuorum` | `SpecClients => []ClientsTypeOK`, `[]PutQuorum` |
| | `ReadsReachQuorum` | `CountableReads` implies `SpecClients => []GetQuorum` |
| | `CatIsStored` | `SpecClients => []CatStores` |
| | `ClientsAdvance` | `SpecClients` implies the action property `ProgramsAdvance` |
| `CallsProofs` | `PutsTolerate`, `GetsTolerate` | `SpecClients => []PutTolerance`, `[]GetTolerance` |
| | `ReadsAreRegular`, `ReadsAreStable` | `CountableReads` implies `SpecClients => []RegularReads`, `[]StableReads` |
| | `WritesStayHeld` | `SpecClients => []WritesHeld` |
| | `WritesAreFound` | `SpecClients => []WrittenIsFound` |

**HashTable.** For all sets of keys, values and buckets, all hash functions and all
prefix orders (`BucketsAssumption`: `HashOf` maps keys to buckets, `PrefixOf` is reflexive,
transitive, and total on the prefixes of one string). `FirstMatchUnique` and `NoMatch` (by well-founded induction on positions) say that a walk
stops at one place or matches nothing. `AddEffect` and `DelEffect` reduce an operation to one list, which gets a new
head, a new value at one place, or loses one element. `ListInv` with `TypeOK` is inductive: a key is linked
at the head only after the walk found no key it is a prefix of. `AddRead` and `DelRead` say what
an operation changes for a reader. `ImplementsDictionary` also needs `AbsentEmpty` (no table, no
pairs); `DictAdd`, `DictDel` and `DictContent` are its steps, and `DictDel` is where `ListInv` is needed: a deleted key
must not be found again behind the place it was unlinked from.

**Tally.** `VotesAssumption` asks for a char of at least two bits (`CharHalf > 1`) and a `size_t` wider than it, `TallyAssumption`
for fewer servers than a `size_t` holds. `VotesProofs` has one lemma for each way a response
is counted. `Backed` says that an entry `q` has no more votes, read as the unsigned char it stands for, than responses that are
prefixes of `q` came; the width is in it, so it holds beyond the sign change too. `NoQuorumMissed` is about responses that are related to no other
(`Alone`): their counts are exact (`AloneCounted`) and, while the read goes on, short of the quorum, as they are and as the huge
`size_t` a negative char becomes (`AloneShort`). `QuorumsAreReal` is stated for quorums that can be counted (`Countable`,
`R <= CharHalf + 1`, 129 in the program): for a larger one the property is false, and TLC finds it when `R = 6` is added.

**Ring, ClientInit.** For all sorted rings; `StaysInArray` and `NearestServers` are about keys that are `Covered`, which means that some node is not before `node_key`, and distances are counted clockwise from `node_key`. `RingInv` has to say what the second loop has done: it is `k` places from where it began and has
collected, in the order of their distance, exactly the servers nearer than `k` (`Walked`); after a whole turn nothing is new, and the place
does not matter any more. The lemmas on `DistanceIn` show that going on by one place adds the server there or none. `InArray` is the part behind
`StaysInArray`: the first loop stops before the end because the node that covers the key is still ahead (`Passed`). `ClientInv` keeps what `client_init` has tested
(`Tested`) through the walk. It assumes that a client program supports `-n`, as all five do.

`WalksAdvance` needs no more than the types. While the list is shorter than the number of servers it lacks one (`SomeLacking`, by the pigeonhole
principle), and `Ahead`, the places the second loop passes before the next such server, is then a number below the length of the ring. A place the
loop passes without adding anything is not the place of that server, so the distance, which is modulo the length, falls by one (`ComesNearer`). Without enough servers
nothing of this holds, and the run `ring_shipped` shows the loop that never ends.

**ListNodes, PacketLog.** For any number of processes and servers. `LogInv`: the lock belongs to the one process between `fopen` and `fclose` (`LockHeld`), and the log is
what was sent but for the datagram of that process (`LogFollows`). `ListInv` adds where a mark can come from (`Marked`) and, for
`AliveListed`, that a ping to a server that is up, or its answer, is always at one of five places until the server is
marked (`Coming`, `NoneForgotten`).

**Dump.** For tables, strings and messages of every size. `DumpAssumption`: `MAX_MSG_SIZE` fits a `size_t`, and the decimal count is shorter than a message. `StaysInMessage` says nothing of
the pair that comes next, so it is strengthened to `NextFits`: while the server copies, the next pair is known to fit, either
because `Room` was true, where `NoWrap` shows that the unsigned difference is the true one, or because it opens a message.
For what is printed, `DumpInv` gives every message on the network the interval of the list it holds (`Ranges`). The intervals of different messages are disjoint and what was printed is
in none (`Found`), whatever is lost or overtakes; without a fault they are adjacent and begin where the printed list ends (`InOrder`).

**Dht, Clients.** For any number of servers, processes and calls, all `N`, `W` and `R`, all environments. `PutQuorum` and `GetQuorum` are about calls that have ended, and say nothing of the
counts before. `DhtInv` keeps an account of every open call (`Slack`): the servers that have answered, or for a put written, or that still have a request of the call waiting,
plus the duplicates, minus the requests that wait, minus the answers that wait. That is never less than the acknowledgements counted
(`WritesCounted`) or, for the answers that are prefixes of a string `q`, the votes of `q` (`VotesCounted`, which is `Backed` with the account in the
place of the responses seen). A send adds one server and one request, because a call never asks a server twice (`SentOnce`); a server turns
a request into an answer (`ServedSteady`); a duplicate, which adds a datagram, adds to `dups`; a loss or a restart only takes away; a
reception moves one answer into the count. `StoreLemmas` and `VoteLemmas` are the lemmas of the two tables. `DhtAssumption` is what the
scenarios must be (calls with no more servers than the ring has, different servers in `Contact`), and `ClientsAssumption` that the set of
values is closed under what cat makes of them. `ReadsReachQuorum` asks of the command lines what `Countable` asks in `Tally`.

The proof corrected the property: `GetQuorum` used to ask for `R` answers equal to the value. That is false when one value is a prefix of
another: after one answer `12`, one answer `1` is counted for it and reaches `R = 2`. The runs had no such values. It now names the string that the votes are counted for
(`Counting`), and a scenario of `client_faults` puts a value over one of its prefixes.

`CatStores` relates the value of the put to what all the gets returned. `TurnInv` keeps, for every process, where it is (`InTurn`: the calls before the current one have
ended with OK, those behind it have not begun) and what it has joined (`CatJoins`: `concatenation` is the results so far, one behind the other). That one more result
goes to the end, `FlattenAppend`, is proved by well-founded induction on the number of results, as `FlattenSeq` is a recursive function.

`ClientsAdvance` takes two facts from `DhtInv` and `TurnInv`: a call is in its send loop or its receive loop with an index in range, and only the process whose turn it is
touches its calls. Every answer and every time-out, expected or not, uses up one attempt (`NextAttempt`), so what is left of a call, `StepsLeft`, falls with each of its steps.

**Tolerance.** Calls that fail need the account the other way round: `DhtInv` says that nothing is counted too often, `ToleranceInv` that nothing is forgotten. Every server that a
put has reached still has its request, has acknowledged, or is blamed for a fault (`faulty`), so the servers that are neither asked nor blamed (`Heard`) are no more
than the acknowledgements counted and those that wait (`PutOpen`). When a time-out comes in a prompt network nothing waits and nothing is asked (`Silenced`), and the servers short of the quorum
are the blamed ones; each attempt was used up by an acknowledgement, so a put that runs out of attempts has `N` of them, which is a
quorum. For a get, the votes of a value that no other answer is mixed up with (`Unmistaken`) are counted exactly and are short of the quorum while the get goes
on: the servers whose answers no longer wait and are not blamed (`Tallied`) are no more than the count. An answer that is counted raises it by one (`SameVote`, `OtherVote`); when the old count could not be copied, it begins again from one and the servers
behind it are blamed (`VoteAfresh`); when the new one could not be stored, this server is (`VotesHeard`, `VotesAdd`). `InTime` bounds the attempts made and the answers still to come by the servers reached and the duplicates. `DhtAssumption` has `N < SizeMod` for this: `N` is a
`size_t`, and a count that wraps would be lost.

An allocation that fails at the client is no fault of a server, but for the get it comes to the same, so `faulty` has both: a get can fail although `R` equal answers reached it, if the client
had no memory to count them, and the theorem says that this is the only way.

The proof corrected `GetTolerance` too. It counted the answers of any value; but answers that are prefixes of one another divide their votes, and a duplicate uses up an attempt that
an answer needed, so that a get may fail with `R` good answers. TLC shows both once a scenario without order has a duplicate and the term `dups` is left out;
that scenario is now in `client_calls`.

**Reads.** `RegularReads` and `StableReads` relate calls that never met: what one put did to some servers and what a later get heard from others. `OrderInv` says,
of orderly servers, what a server's table and its answers have to do with the puts that it has performed. `CallsPast` collects what holds in any environment: `before` is an order in which the pasts
of any two calls are comparable (`PastInv`), and only the servers of a call touch it (`CallPlaces`). `ServedInOrder` is the order of the channels: a request that waits
did not return before any request ahead of it, or any the server has dealt with, began. `StoredFresh` then says that what a server finds for a key is the value of a put it has performed, one
that no other put to that key on the same server came wholly after (`Source`), or the initial value if it has performed none; `AnsweredFresh` says the same of each answer, for the puts that had
returned when its get began. The induction needs `StillFound` (an answer is still what the server holds, as long as only puts from before the get came to it) in order to show `Agreed`:
one server gives two gets the same answer if no put comes between.

The rest is counting. A value is returned after `R` answers from different servers (`AnsweredByQuorum`, from the account of `GetQuorum`), and all calls on a key
ask the first servers of one walk, so that two quorums whose sum exceeds the larger `N` share a server (`FirstServers`, `QuorumsMeet`).
`ReadsAreRegular` takes, of the completed puts, the one that began last (`LastBegun`): a server that performed it has given the answer, the answer is that of a put which did not
return before this one began, and hence not before any of them began. `ReadsAreStable` takes a server that answered both gets.

The proof corrected these properties as well. They spoke only of the puts to the key of the get: a put to a key that is mixed up with it overwrites its value, and is now named in
`PutsMixed` (a scenario of `client_calls` has one); a get of the empty key is a ping and reads nothing; the initial value is returned as a client's buffer receives it. And
`ClientsAssumption` had to say that what a server stores behind a value which fills its buffer is cut off again at the client.

**What servers hold.** `applied` says that a server has once performed a write and is never cleared; `WritesHeld` is about what is in its table. `HeldInv` counts the servers that do not
hold what one of the puts they have performed wrote (`Forgetful`): never more than there were restarts. A write is held by itself; a later one of a key that servers mix up with it
either leaves what is found for it or takes its place (`StoreReads`), and where requests are handled in order it is not one that had returned before (`ServedInOrder`, here also after a restart, which
empties the socket). Nothing else changes a table. The acknowledgements came from `W` servers (`PutQuorum`), and all of them but the forgetful ones hold the put.

**What puts have written.** `RegularReads` allows a get to fail, `GetTolerance` speaks of the answers that came; `WrittenIsFound` relates a get that fails to the put before it, for all `N`, `W` and `R`.
It is about orderly servers and a prompt network without duplicates, with any other faults besides, all of which are blamed. `faulty` blames a server for a get as it does for a put: its request or its answer was lost, or
it had no memory for the read; and it blames those whose votes the client had no memory for. `FoundInv` says what has become of the other servers. A server that a get has reached, that is not asked any more and not blamed, has *settled* the get: it has answered, or it
*missed* all the puts to the key from before the get, and none of them waits there (`ServedSettles`, with `ServedInOrder` and `WrittenKept`: a server that has performed a put finds something, since nothing
is deleted). When the last attempt of a get times out nothing waits any more (`LastAttempt`), so all the servers it contacts but the blamed ones have settled it (`Certain`).

So a server that has acknowledged the put, is contacted by the get and is not blamed has answered, and its vote was kept. Its answer is the value of a put that it has performed and that is not superseded (`AnsweredFresh`), and the last put leaves no other: the
answer is the value of that put as a client receives it. The acknowledgements came from `W` different servers (`PutQuorum` without duplicates), and `GetTolerance` says that fewer than `R` of these servers answered and are not blamed;
the rest are blamed or not contacted. `DistinctVotes` is asked because values that are prefixes of each other divide their votes.

Only model-checked is what the prover cannot do, liveness under fairness and `ENABLED`: `WalkReturns`, `ListEnds`, `ProgramsEnd`. The part of the first and the last that does not need fairness,
that no step can be repeated for ever, is proved (`WalksAdvance`, `ClientsAdvance`); that a step is taken when one can be is what fairness adds.

## Not modelled

* The bits of `hash_function`: its result is any function of the key. SHA1 likewise.
* Memory: the list cells themselves, leaks, the socket no call closes, and the
  allocation of `sizeof(node)`, the size of a pointer, in `create_node` (`hashtable.c:73`), which works with
  allocators that round up.
* The growth of a `kv_list_t` in `get_kv_pair`: it runs in one process without interruption, and a list that could not be filled is thrown away
  whole, so a caller sees all pairs or none (`Content`).
* Lengths of strings and datagrams, except in `Dump` and `Clients`. Of the leftovers behind a value that fills the server's buffer, one
  character or none is considered; a server that found so many that the answer no longer fits a datagram would be silent.
* The components marked so in `PROJECT.json`; see the plan.

## Plan

Done, in this order: `Buckets`, `Dictionary`, `HashTable` and its proofs; `Ring`; `Votes`, `Tally`; `Dht`; `Dump`; `ClientInit`;
`Clients`; `PacketLog`, `ListNodes`.

Theorems, done: everything in the tables of "Proofs", that is, every invariant, every action property and the refinement that a passing run
checks. Liveness stays with TLC.
