------------------------------- MODULE Tally -------------------------------
(***************************************************************************)
(* The counting loop of network_get: up to N responses arrive, and the     *)
(* first one for which increment_and_test answers yes is returned.         *)
(***************************************************************************)
EXTENDS Votes

CONSTANTS
    N,           \* the servers contacted, and the iterations of the loop
    Quorums,     \* the values of R that are tried
    MemoryFails  \* whether strdup and calloc may fail

\* client.args->N is a size_t, and network_get refuses to ask fewer than R servers.
ASSUME TallyAssumption ==
    /\ N \in Nat /\ N < SizeMod
    /\ Quorums \subseteq 0..N
    /\ MemoryFails \in BOOLEAN

VARIABLES
    R,       \* client.args->R
    votes,   \* the local table
    i,       \* iterations done
    result,  \* {} until a response r is returned, then {r}
    \* History, for the properties only:
    seen,    \* seen[q]: the arrivals of responses that count for q, its prefixes
    failed   \* whether an allocation has failed

vars == <<R, votes, i, result, seen, failed>>

TypeOK ==
    /\ R \in Quorums
    /\ votes \in Table
    /\ i \in 0..N
    /\ result \in {{}} \cup {{r} : r \in Key}
    /\ seen \in [Key -> 0..N]
    /\ failed \in BOOLEAN

Init ==
    /\ R \in Quorums
    /\ votes = construct_Htable
    /\ i = 0
    /\ result = {}
    /\ seen = [r \in Key |-> 0]
    /\ failed = FALSE

\* What is left of increment_and_test when memory fails.
FailedOutcomes(r) == {uncopied(votes, r, R)} \cup unstored(votes, r, R)

Count(r, outcome) ==
    /\ i' = i + 1
    /\ seen' = [q \in Key |-> IF <<r, q>> \in PrefixOf THEN seen[q] + 1 ELSE seen[q]]
    /\ votes' = outcome.votes
    /\ result' = IF outcome.enough THEN {r} ELSE {}
    /\ UNCHANGED R

\* A variant for the mutation runs: the loop does not end after N responses.
VoteUnbounded(r) ==
    /\ result = {}
    /\ Count(r, increment_and_test(votes, r, R))
    /\ UNCHANGED failed

Vote(r) ==
    /\ result = {} /\ i < N
    /\ \/ Count(r, increment_and_test(votes, r, R)) /\ UNCHANGED failed
       \/ /\ MemoryFails
          /\ \E outcome \in FailedOutcomes(r) : Count(r, outcome)
          /\ failed' = TRUE

\* A timeout, or a datagram that does not count, uses up an iteration.
NoVote ==
    /\ result = {} /\ i < N
    /\ i' = i + 1
    /\ UNCHANGED <<R, votes, result, seen, failed>>

Next == NoVote \/ \E r \in Key : Vote(r)

Spec == Init /\ [][Next]_vars

----------------------------------------------------------------------------

(***************************************************************************)
(* A response is returned only when R servers sent one that counts for the *)
(* same string, the response itself among them.  For a response that is    *)
(* neither a prefix nor an extension of another, those are R servers that  *)
(* sent exactly this response.  It holds up to R = CharHalf + 1; the count *)
(* after CharHalf votes is negative and reads back as a huge size_t.       *)
(***************************************************************************)
QuorumOfPrefixes ==
    \A r \in result : \E q \in Key : <<r, q>> \in PrefixOf /\ seen[q] >= R

(***************************************************************************)
(* No stored count, read as an unsigned char, is larger than the number of *)
(* responses it can stem from.                                             *)
(***************************************************************************)
CountsBacked ==
    \A b \in Bucket : \A j \in DOMAIN votes[b] :
        votes[b][j].value % (2 * CharHalf) <= seen[votes[b][j].key]

\* Responses that are not a prefix or an extension of another one.  What counts
\* for them is they themselves.
Alone == {r \in Key : \A q \in Key : <<r, q>> \in PrefixOf \/ <<q, r>> \in PrefixOf => q = r}

(***************************************************************************)
(* A read does not miss a quorum: as long as it goes on and no allocation  *)
(* has failed, no response has arrived R times.  With R = 0 it takes two,  *)
(* for the first of equal responses is compared with 1.                    *)
(***************************************************************************)
NoQuorumMissed ==
    result = {} /\ ~ failed => \A r \in Alone : seen[r] < IF R = 0 THEN 2 ELSE R
=============================================================================
