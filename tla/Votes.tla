------------------------------- MODULE Votes -------------------------------
(***************************************************************************)
(* increment_and_test of network.c: the count of the responses to a read,  *)
(* kept in a hash table whose keys are the responses.  A count is stored   *)
(* as the first character of a value, and read back as a size_t.           *)
(***************************************************************************)
EXTENDS Integers, Buckets

CONSTANTS
    CharHalf,  \* a char holds -CharHalf .. CharHalf - 1; 128 in the program
    SizeMod    \* the values of a size_t; 2^64 in the program

ASSUME VotesAssumption ==
    /\ CharHalf \in Nat /\ CharHalf > 1
    /\ SizeMod \in Nat /\ SizeMod > 2 * CharHalf /\ SizeMod % (2 * CharHalf) = 0
    /\ Value = (-CharHalf)..(CharHalf - 1)

\* (char) count.
as_char(n) == ((n + CharHalf) % (2 * CharHalf)) - CharHalf

\* (size_t) get_value[0]: a negative char is extended with its sign.
as_size(c) == c % SizeMod

\* A variant for the mutation runs: the first vote counts twice.
CountFromTwo(t, r, R) ==
    [votes |-> add_Htable_value(t, r, as_char(2)), enough |-> R = 1]

\* No vote for this response yet.
first_vote(t, r, R) ==
    [votes |-> add_Htable_value(t, r, as_char(1)), enough |-> R = 1]

\* Variants for the mutation runs: the count is tested before it is raised, or
\* one vote too early.
TestBeforeCount(t, r, R, c) ==
    [votes |-> add_Htable_value(t, r, as_char((as_size(c) + 1) % SizeMod)),
     enough |-> as_size(c) >= R]

TestOneAhead(t, r, R, c) ==
    LET count == (as_size(c) + 1) % SizeMod
    IN  [votes |-> add_Htable_value(t, r, as_char(count)), enough |-> count + 1 >= R]

\* A count c was found.
another_vote(t, r, R, c) ==
    LET count == (as_size(c) + 1) % SizeMod
    IN  [votes |-> add_Htable_value(t, r, as_char(count)), enough |-> count >= R]

increment_and_test(t, r, R) ==
    LET found == get_Htable_value(t, r)
    IN  IF found = {} THEN first_vote(t, r, R)
                      ELSE another_vote(t, r, R, CHOOSE c \in found : TRUE)

(***************************************************************************)
(* What is left of increment_and_test when memory fails.  A count that     *)
(* cannot be copied looks like no count.  When the new count cannot be     *)
(* stored the table stays as it was, and the code does not ask; if the old *)
(* one could not be copied either, only R = 1 is enough.                   *)
(***************************************************************************)
uncopied(t, r, R) == first_vote(t, r, R)

unstored(t, r, R) ==
    {[votes |-> t, enough |-> increment_and_test(t, r, R).enough],
     [votes |-> t, enough |-> R = 1]}
=============================================================================
