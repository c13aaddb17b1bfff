----------------------------- MODULE MCClients -----------------------------
(***************************************************************************)
(* Instances of Clients, and of Dht in it.  A character is a number.       *)
(***************************************************************************)
EXTENDS Clients

CONSTANTS c1, c2, c3, s1, s2, s3

MCProc == {c1, c2, c3}
MCOp == MCProc \X (1..3)
MCServer == {s1, s2, s3}
TwoServers == {s1, s2}

MCEmpty == <<>>
MCDump == <<0>>
K == <<7>>
L == <<8>>
FullKey == <<7, 7, 7, 7>>
LongKey == <<7, 7, 7, 7, 7>>
MCKey == {<<>>, K, L, FullKey, LongKey}
MCValue == UNION {[1..n -> {1, 2}] : n \in 0..4} \cup {<<1, 1, 1, 1, 1>>}

\* The longest key and value fill the server's buffer; one character follows on
\* the stack, or none.
MCStoredAs ==
    [p \in Key \X Value |->
        IF Len(p[1]) = MAX_MSG_ELEM_SIZE /\ Len(p[2]) = MAX_MSG_ELEM_SIZE
        THEN {p[2], Append(p[2], 1)} \cap Value ELSE {p[2]}]
MCReceived ==
    [a \in Answer |-> IF Len(a) > MAX_MSG_ELEM_SIZE THEN SubSeq(a, 1, MAX_MSG_ELEM_SIZE) ELSE a]

\* The walks of the keys begin at different servers.
MCContact == [key \in Key |-> IF key = L THEN <<s2, s3, s1>> ELSE <<s1, s2, s3>>]
TwoContact == [key \in Key |-> <<s1, s2>>]

Run(name, argv, total, write, read) ==
    [name |-> name, argv |-> argv, N |-> total, W |-> write, R |-> read]
Two(first, second) == (c1 :> first) @@ (c2 :> second)
Three(first, second, third) == Two(first, second) @@ (c3 :> third)

\* Everything the network, the servers and the operating system may do, or less.
Faults == [ordered |-> FALSE, prompt |-> FALSE, lossy |-> TRUE, maxdup |-> 1, maxrestart |-> 1]
NoRestart == [Faults EXCEPT !.maxrestart = 0]
Losses == [NoRestart EXCEPT !.maxdup = 0]
LossyFifo == [Losses EXCEPT !.ordered = TRUE]
Fifo == [LossyFifo EXCEPT !.lossy = FALSE]
PromptFaults == [LossyFifo EXCEPT !.prompt = TRUE, !.maxrestart = 1]
PromptCopies == [NoRestart EXCEPT !.prompt = TRUE]

Nothing == Store!construct_Htable
Stored == Store!add_Htable_value(Store!add_Htable_value(Nothing, K, <<1>>), L, <<2, 2>>)

Scenario(commands, environment, table) ==
    [command |-> commands, program |-> ProgramOf(commands), net |-> environment,
     stored |-> table]

(***************************************************************************)
(* A put against a get; empty strings as keys and values: a put taken for  *)
(* a dump, a get taken for a ping; quorums of 0; no server contacted; a    *)
(* value that is written over a prefix of it.                              *)
(***************************************************************************)
FaultScenarios ==
    {Scenario(Two(Run("put", <<K, <<1>>>>, 2, 2, 2), Run("get", <<K>>, 2, 2, 2)),
              Faults, Nothing),
     Scenario(Two(Run("put", <<K, <<1>>>>, 2, 2, 2), Run("put", <<<<>>, <<>>>>, 2, 2, 2)),
              NoRestart, Nothing),
     Scenario(Two(Run("put", <<<<>>, <<1>>>>, 2, 2, 2), Run("get", <<<<>>>>, 2, 2, 2)),
              Losses, Nothing),
     Scenario(Two(Run("put", <<K, <<1>>>>, 2, 0, 2), Run("get", <<K>>, 2, 2, 0)),
              Losses, Nothing),
     Scenario(Two(Run("find", <<K, <<>>>>, 2, 2, 2), Run("get", <<K>>, 0, 2, 0)),
              Losses, Stored),
     Scenario(Two(Run("put", <<K, <<1, 2>>>>, 2, 2, 2), Run("get", <<K>>, 2, 2, 2)),
              Losses, Stored)}

\* Two writers and a reader of one key, with the smallest quorums that
\* intersect, with different N, and with keys that are mixed up.
RegisterScenarios ==
    {Scenario(Three(Run("put", <<K, <<1>>>>, 2, 1, 2), Run("put", <<K, <<2>>>>, 2, 1, 2),
                    Run("get", <<K>>, 2, 1, 2)), Fifo, Nothing),
     Scenario(Three(Run("put", <<K, <<1>>>>, 2, 2, 2), Run("put", <<K, <<2>>>>, 1, 1, 2),
                    Run("get", <<K>>, 1, 1, 1)), LossyFifo, Nothing),
     Scenario(Three(Run("put", <<K, <<2, 1>>>>, 2, 2, 2), Run("put", <<K, <<2, 2>>>>, 2, 2, 2),
                    Run("get", <<K>>, 1, 1, 1)), Fifo, Stored),
     Scenario(Three(Run("put", <<FullKey, <<1>>>>, 2, 2, 2), Run("put", <<<<>>, <<2>>>>, 2, 1, 2),
                    Run("get", <<FullKey>>, 1, 1, 1)), Fifo, Nothing)}

\* The defaults of args.c, and a put that waits for all servers; answers in time.
ToleranceScenarios ==
    {Scenario(Two(Run("put", <<K, <<1>>>>, 3, 2, 2), Run("get", <<K>>, 3, 2, 2)),
              PromptFaults, Nothing),
     Scenario(Two(Run("put", <<K, <<1>>>>, 3, 3, 2), Run("get", <<K>>, 3, 2, 2)),
              [PromptFaults EXCEPT !.maxrestart = 0], Nothing),
     Scenario(Two(Run("put", <<K, <<2>>>>, 2, 1, 2), Run("get", <<K>>, 2, 1, 2)),
              PromptCopies, Stored)}

(***************************************************************************)
(* Programs that make several calls while their keys are written: a cat    *)
(* onto its own key, a find of a key in itself, values that only together  *)
(* are too long, strings that fill a message, and arguments that are too   *)
(* long or too few.                                                        *)
(***************************************************************************)
ProgramScenarios ==
    {Scenario(Two(Run("cat", <<L, K, K>>, 2, 1, 2), Run("put", <<K, <<2>>>>, 2, 1, 2)),
              Fifo, Stored),
     Scenario(Two(Run("find", <<K, K>>, 2, 1, 2), Run("put", <<K, <<2, 1>>>>, 2, 1, 2)),
              LossyFifo, Stored),
     Scenario(Two(Run("find", <<K, K>>, 3, 2, 2), Run("put", <<K, <<2, 1>>>>, 3, 2, 2)),
              Fifo, Stored),
     Scenario(Two(Run("cat", <<K, L, K>>, 1, 1, 1), Run("put", <<K, <<2, 1, 1>>>>, 1, 1, 1)),
              Fifo, Stored),
     Scenario(Two(Run("cat", <<K, LongKey>>, 1, 1, 1),
                  Run("put", <<K, <<1, 1, 1, 1, 1>>>>, 1, 1, 1)),
              Fifo, Stored),
     Scenario(Two(Run("put", <<FullKey, <<1, 1, 1, 1>>>>, 2, 1, 2),
                  Run("find", <<FullKey, FullKey>>, 2, 2, 2)), Fifo, Nothing),
     Scenario(Two(Run("cat", <<K>>, 1, 1, 1), Run("substr", <<L, K>>, 1, 1, 1)), Fifo, Stored)}

CallScenarios == RegisterScenarios \cup ToleranceScenarios \cup ProgramScenarios

MissingScenarios ==
    {Scenario(Two(Run("put", <<K, <<1>>>>, 2, 2, 2), Run("get", <<K>>, 2, 2, 2)), Fifo, Nothing)}

MCBucket == {0, 1}
\* hash_function sends the empty string to bucket 0.
StoreHashes == [key \in Key |-> IF key = K THEN 1 ELSE 0]
VoteHashes == [answer \in Answer |-> 0]
PrefixPairs(S) == {p \in S \X S : IsPrefix(p[1], p[2])}
StorePrefixes == PrefixPairs(Key)
VotePrefixes == PrefixPairs(Answer)
=============================================================================
