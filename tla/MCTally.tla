------------------------------ MODULE MCTally ------------------------------
(***************************************************************************)
(* Instances of Tally.  Responses are sequences of characters; all of them *)
(* share a bucket of the table, the case where they can be confused.  "a"  *)
(* is a prefix of "ab", "c" is alone.                                      *)
(***************************************************************************)
EXTENDS Tally, SequencesExt

MCKey == {<<1>>, <<1, 2>>, <<3>>}
MCPrefix == {p \in MCKey \X MCKey : IsPrefix(p[1], p[2])}
MCBucket == {0}
MCHash == [r \in MCKey |-> 0]

\* A char of three bits, so that the count wraps within a few votes, and R on
\* both sides of the wrap; R = 0 is what "-r 0" asks for.
MCChar == -4..3
MCQuorums == 0..5
=============================================================================
