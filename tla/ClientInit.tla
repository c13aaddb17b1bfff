----------------------------- MODULE ClientInit -----------------------------
(***************************************************************************)
(* The life of a client process up to the servers of its key: client_init  *)
(* reads the arguments (args.c) and servers.txt (node_list.c), sorts the   *)
(* ring, and ring_get_nodes_for_key walks it, as module Ring says.         *)
(*                                                                         *)
(* An argument is a record: opt is the option it begins with ("-n", "-w",  *)
(* "-r", "--", or "" for none), number is what sscanf finds in it.  A line *)
(* of servers.txt is a server with its nodes, or Malformed.                *)
(***************************************************************************)
EXTENDS Ring

CONSTANTS
    Programs,    \* records: nb_args, a number or AnyArgs, and the options supported
    AnyArgs,     \* the SIZE_MAX of pps-client-cat
    Commands,    \* the pairs <<program, arguments>> that may be started
    Files,       \* the servers files: sequences of [addr, nb_nodes] and Malformed
    Malformed,
    DEFAULT_N, DEFAULT_W, DEFAULT_R

Option == {"-n", "-w", "-r"}
Argument == [opt : Option \cup {"--", ""}, number : SUBSET Nat]

\* Every program that calls client_init takes TOTAL_SERVERS.
ASSUME ClientAssumption ==
    /\ \A p \in Programs : p.nb_args \in Nat \cup {AnyArgs} /\ p.supported \subseteq Option
    /\ \A c \in Commands :
          c[1] \in Programs /\ "-n" \in c[1].supported /\ c[2] \in Seq(Argument)
    /\ \A f \in Files : \A n \in DOMAIN f :
          f[n] = Malformed \/ (f[n].addr \in Addr /\ f[n].nb_nodes \in Nat)
    /\ {DEFAULT_N, DEFAULT_W, DEFAULT_R} \subseteq Nat

VARIABLES
    stage,    \* "start", "refused" (client_init has failed) or "walk", and
              \* "list" in a process that is no client (see ListNodes)
    program,  \* which program the process runs
    argv,     \* the arguments that are left
    args,     \* args_t: the values of the options
    file      \* servers.txt, until it has been read

clientVars == <<stage, program, argv, args, file, vars>>

\* No options taken, no ring, no key.
Blank ==
    /\ args = [N |-> 0, W |-> 0, R |-> 0]
    /\ ring = <<>> /\ wanted = 0 /\ sha = <<0, 0>>
    /\ pc = "search" /\ i = 0 /\ result = <<>>

InitClient ==
    /\ \E c \in Commands : program = c[1] /\ argv = c[2]
    /\ file \in Files
    /\ stage = "start"
    /\ Blank

----------------------------------------------------------------------------

\* Whether the argument at place n is an option of the program.
IsOption(n) == n \in DOMAIN argv /\ argv[n].opt \in program.supported

(***************************************************************************)
(* The loop of parse_opt_args takes options and their values two by two,   *)
(* up to the first place without an option or without a number after it.   *)
(***************************************************************************)
Taken ==
    CHOOSE n \in 0..Len(argv) :
        /\ \A j \in 0..(n - 1) :
              /\ IsOption(2 * j + 1)
              /\ 2 * j + 2 \in DOMAIN argv /\ argv[2 * j + 2].number # {}
        /\ ~ (/\ IsOption(2 * n + 1)
              /\ 2 * n + 2 \in DOMAIN argv /\ argv[2 * n + 2].number # {})

\* The last value given for an option counts.
ValueOf(option, default) ==
    LET places == {j \in 0..(Taken - 1) : argv[2 * j + 1].opt = option}
    IN  IF places = {} THEN default
        ELSE LET last == CHOOSE j \in places : \A k \in places : k <= j
             IN  CHOOSE n \in argv[2 * last + 2].number : TRUE

parsed_args == [N |-> ValueOf("-n", DEFAULT_N), W |-> ValueOf("-w", DEFAULT_W),
                R |-> ValueOf("-r", DEFAULT_R)]

\* What the loop leaves, without the "--" that may follow the options.
rem_argv ==
    LET n == 2 * Taken + 1
    IN  SubSeq(argv, IF n \in DOMAIN argv /\ argv[n].opt = "--" THEN n + 1 ELSE n, Len(argv))

\* A variant for the mutation runs: the defaults are not compared with N.
QuorumsGivenFit ==
    /\ \A n \in DOMAIN argv : argv[n].opt = "-w" => parsed_args.W <= parsed_args.N
    /\ \A n \in DOMAIN argv : argv[n].opt = "-r" => parsed_args.R <= parsed_args.N

\* The quorums are compared with N only in a program that has the option.
QuorumsFit ==
    /\ {"-n", "-w"} \subseteq program.supported => parsed_args.W <= parsed_args.N
    /\ {"-n", "-r"} \subseteq program.supported => parsed_args.R <= parsed_args.N

\* parse_opt_args returns arguments: no option lacks its number.
Parses == ~ IsOption(2 * Taken + 1) /\ QuorumsFit

\* The argument count is tested before and after the options are taken.
CountFits ==
    program.nb_args # AnyArgs =>
        program.nb_args <= Len(argv) /\ Len(rem_argv) = program.nb_args

(***************************************************************************)
(* get_nodes: the nodes each server gets from the first n lines.  The file *)
(* is read to its end, or to a read error, which is taken for the end.     *)
(***************************************************************************)
NodesOf(n, addr) ==
    LET lines == {j \in 1..n : file[j].addr = addr}
        Total[S \in SUBSET lines] ==
            IF S = {} THEN 0
            ELSE LET j == CHOOSE j \in S : TRUE IN file[j].nb_nodes + Total[S \ {j}]
    IN  Total[lines]

\* The nodes are those of the first n lines.
nodes_read(nodes, n) ==
    \A a \in Addr : Cardinality({j \in DOMAIN nodes : nodes[j].addr = a}) = NodesOf(n, a)

\* N is compared with the nodes, not with the servers.
EnoughNodes(nodes) == "-n" \in program.supported => parsed_args.N <= Len(nodes)

(***************************************************************************)
(* client_init succeeds, and the client asks for the servers of a key.     *)
(* The digests of the nodes are any, in the order of node_list_sort.       *)
(***************************************************************************)
client_init ==
    /\ stage = "start"
    /\ CountFits /\ Parses
    /\ ring' \in Rings
    /\ \E n \in 0..Len(file) :
          (\A j \in 1..n : file[j] # Malformed) /\ nodes_read(ring', n)
    /\ EnoughNodes(ring')
    /\ wanted' = parsed_args.N
    /\ sha' \in Digest
    /\ UNCHANGED <<pc, i, result>>
    /\ stage' = "walk"
    /\ args' = parsed_args /\ argv' = rem_argv /\ file' = <<>>
    /\ UNCHANGED program

\* client_init refuses: for its arguments, the file, too few nodes, or memory.
client_init_fails ==
    /\ stage = "start"
    /\ stage' = "refused"
    /\ UNCHANGED <<program, argv, args, file, vars>>

\* ring_get_nodes_for_key.
Walk ==
    /\ stage = "walk"
    /\ Next
    /\ UNCHANGED <<stage, program, argv, args, file>>

NextClient == client_init \/ client_init_fails \/ Walk

\* The process is scheduled.
SpecClient == InitClient /\ [][NextClient]_clientVars /\ WF_clientVars(NextClient)

----------------------------------------------------------------------------

ClientTypeOK ==
    /\ TypeOK
    /\ stage \in {"start", "refused", "walk", "list"}
    /\ program \in Programs /\ argv \in Seq(Argument)
    /\ args \in [N : Nat, W : Nat, R : Nat]
    /\ stage = "walk" => file = <<>>

Returned == stage = "refused" \/ pc \in {"done", "failed", "crashed", "nolist"}

(***************************************************************************)
(* A walk that client_init lets begin ends if the ring has the servers,    *)
(* even when its first loop has left the array, unless that crashes it.    *)
(***************************************************************************)
WalkReturns == stage = "walk" /\ EnoughServers ~> Returned

(***************************************************************************)
(* ring.h on ring_get_nodes_for_key: "@return the list of all nodes        *)
(* storing the key": a client that was started gets its servers, or is     *)
(* refused.                                                                *)
(***************************************************************************)
Returns == <>Returned

(***************************************************************************)
(* A list that is returned is as long as the quorum of each operation the  *)
(* program may call, so that network_put and network_get can succeed, and  *)
(* the program has all its arguments.  The defaults of the options, the    *)
(* options given, the file and the walk all have a part in this.           *)
(***************************************************************************)
ListReachesQuorums ==
    stage = "walk" /\ pc = "done" =>
        /\ "-w" \in program.supported => args.W <= Len(result)
        /\ "-r" \in program.supported => args.R <= Len(result)
        /\ program.nb_args # AnyArgs => Len(argv) = program.nb_args
=============================================================================
