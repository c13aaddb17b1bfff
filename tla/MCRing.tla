------------------------------- MODULE MCRing -------------------------------
(***************************************************************************)
(* Instances of ListNodes, and of ClientInit and Ring in it.               *)
(***************************************************************************)
EXTENDS ListNodes

CONSTANTS a1, a2, a3

MCSender == {a1, a2, a3, Lister, Stranger}

\* What client-get.c, client-put.c and client-cat.c hand to client_init.
GetProgram == [nb_args |-> 1, supported |-> {"-n", "-r"}]
PutProgram == [nb_args |-> 2, supported |-> {"-n", "-w"}]
CatProgram == [nb_args |-> AnyArgs, supported |-> Option]
MCPrograms == {GetProgram, PutProgram, CatProgram, ListProgram}

Word == [opt |-> "", number |-> {}]
Num(n) == [opt |-> "", number |-> {n}]
Opt(o) == [opt |-> o, number |-> {}]

(***************************************************************************)
(* Every N up to four; options repeated, without their number, not         *)
(* supported, after "--" and after an argument; too few and too many       *)
(* arguments; quorums above N by default and by option.                    *)
(***************************************************************************)
MCCommands ==
    {<<GetProgram, <<Word>>>>,
     <<GetProgram, <<>>>>,
     <<GetProgram, <<Word, Word>>>>,
     <<GetProgram, <<Opt("-n"), Num(1), Opt("-r"), Num(1), Num(7)>>>>,
     <<GetProgram, <<Opt("-r"), Num(0), Opt("-n"), Num(0), Opt("--"), Opt("-n")>>>>,
     <<GetProgram, <<Opt("-n"), Num(1), Word>>>>,
     <<GetProgram, <<Opt("-n"), Num(4), Word>>>>,
     <<GetProgram, <<Opt("-n"), Word>>>>,
     <<GetProgram, <<Word, Opt("-n")>>>>,
     <<PutProgram, <<Opt("-n"), Num(1), Opt("-n"), Num(2), Opt("-r"), Num(3)>>>>,
     <<PutProgram, <<Opt("-n"), Num(2), Opt("-w"), Num(3), Word, Word>>>>,
     <<CatProgram, <<Opt("-w"), Num(1), Opt("-n"), Num(1), Opt("-r"), Num(1), Word>>>>,
     <<CatProgram, <<Opt("-w")>>>>}

Line(addr, nb_nodes) == [addr |-> addr, nb_nodes |-> nb_nodes]

\* One, two or three servers, one of them named twice, and a broken line.
MCFiles ==
    {<<Line(a1, 1), Line(a2, 1), Line(a3, 1)>>,
     <<Line(a1, 2), Line(a2, 1)>>,
     <<Line(a1, 1), Line(a2, 1), Line(a1, 1)>>,
     <<Line(a1, 3)>>,
     <<Line(a2, 1), Malformed>>}

\* For pps-list-nodes: two servers, one with two nodes, and no server at all.
MCListFiles == {<<Line(a1, 1), Line(a2, 1)>>, <<Line(a1, 2)>>, <<Malformed>>}
MCListDigests == {<<1, 0>>}
MCPort == (a1 :> 2) @@ (a2 :> 1) @@ (a3 :> 1)

\* servers.txt of the repository, "127.0.0.1 1234 3", and pps-client-get.
ShippedFiles == {<<Line(a1, 3)>>}
GetCommands == {<<GetProgram, <<Word>>>>}

\* Two servers, and a read that wants one.
FirstFiles == {<<Line(a1, 1), Line(a2, 1)>>}
FirstCommands == {<<GetProgram, <<Opt("-n"), Num(1), Opt("-r"), Num(1), Word>>>>}
=============================================================================
