---------------------------- MODULE TallyProofs ----------------------------
(***************************************************************************)
(* Proofs about Tally: one read with any number of servers, any R, and a   *)
(* char and a size_t of any width.                                         *)
(***************************************************************************)
EXTENDS Tally, VotesProofs

(***************************************************************************)
(* One step: a response r arrives, and outcome is what increment_and_test  *)
(* makes of it, or what is left of that when memory fails.  The table      *)
(* after it is backed again, and a response is returned only with a string *)
(* that R responses count for.                                             *)
(***************************************************************************)
LEMMA OutcomeBacked ==
    ASSUME TypeOK, CountsBacked, NEW r \in Key, NEW outcome \in Outcomes(votes, r, R),
           seen \in [Key -> Nat]
    PROVE  /\ outcome.votes \in Table /\ Backed(outcome.votes, Raised(seen, r))
           /\ outcome.enough /\ R <= CharHalf + 1 =>
                 \E q \in Key : <<r, q>> \in PrefixOf /\ Raised(seen, r)[q] >= R
<1>1. votes \in Table /\ Backed(votes, seen)
    BY DEF TypeOK, CountsBacked, Backed, Unsigned
<1>2. R \in Nat
    BY TallyAssumption DEF TypeOK
<1> QED
    BY <1>1, <1>2, OutcomeCounted

----------------------------------------------------------------------------

(***************************************************************************)
(* The inductive invariant.  As long as memory does not fail, the count of *)
(* a response that is alone is exact, up to the width of a char; and while *)
(* the read goes on it has not reached R, neither as it is nor, once it is *)
(* a negative char, as the huge size_t it reads back as.                   *)
(***************************************************************************)
SeenInTime == \A q \in Key : seen[q] <= i

AloneCounted == ~ failed => \A r \in Alone : CountIs(votes, r, seen[r])

AloneShort == result = {} /\ ~ failed => \A r \in Alone : Short(seen[r], R)

TallyInv == TypeOK /\ SeenInTime /\ CountsBacked /\ AloneCounted /\ AloneShort

LEMMA TallyTypes ==
    TypeOK => R \in Nat /\ R < SizeMod /\ i \in Nat /\ seen \in [Key -> Nat] /\ Alone \subseteq Key
BY TallyAssumption, Widths DEF TypeOK, Alone

LEMMA TallyInit == Init => TallyInv
<1> SUFFICES ASSUME Init PROVE TallyInv
    OBVIOUS
<1>1. TypeOK
  <2>1. 0 \in 0..N
      BY TallyAssumption
  <2>2. [r \in Key |-> 0] \in [Key -> 0..N]
      BY <2>1
  <2> QED
      BY <2>1, <2>2, EmptyTable DEF Init, TypeOK
<1>2. SeenInTime /\ CountsBacked
    BY EmptyTable DEF Init, SeenInTime, CountsBacked
<1>3. AloneCounted
  <2>1. \A r \in Key : CountIs(votes, r, seen[r])
      BY NoVoteYet DEF Init
  <2> QED
      BY <2>1, TallyTypes, <1>1 DEF AloneCounted
<1>4. AloneShort
  <2>1. \A r \in Alone : seen[r] = 0
      BY <1>1, TallyTypes DEF Init
  <2>2. Short(0, R)
      BY <1>1, TallyTypes, NoVoteYet
  <2> QED
      BY <2>1, <2>2 DEF AloneShort
<1> QED
    BY <1>1, <1>2, <1>3, <1>4 DEF TallyInv

LEMMA TallyStays == TallyInv /\ UNCHANGED vars => TallyInv'
BY DEF TallyInv, vars, TypeOK, SeenInTime, CountsBacked, AloneCounted, AloneShort, CountIs, Short, Enough

LEMMA TallyNoVote == TallyInv /\ NoVote => TallyInv'
<1> SUFFICES ASSUME TallyInv, NoVote PROVE TallyInv'
    OBVIOUS
<1>1. TypeOK' /\ SeenInTime'
    BY TallyTypes, TallyAssumption DEF TallyInv, NoVote, TypeOK, SeenInTime
<1> QED
    BY <1>1 DEF TallyInv, NoVote, CountsBacked, AloneCounted, AloneShort, CountIs, Short, Enough

LEMMA TallyVote ==
    ASSUME TallyInv, NEW r \in Key, Vote(r)
    PROVE  TallyInv'
<1>1. result = {} /\ i < N
    BY DEF Vote
<1>2. PICK outcome \in Outcomes(votes, r, R) :
          /\ Count(r, outcome)
          /\ ~ failed' => ~ failed /\ outcome = increment_and_test(votes, r, R)
          /\ failed' \in BOOLEAN
  <2>1. CASE Count(r, increment_and_test(votes, r, R)) /\ UNCHANGED failed
      BY <2>1, Zenon DEF Outcomes, TallyInv, TypeOK
  <2>2. CASE (\E outcome \in FailedOutcomes(r) : Count(r, outcome)) /\ failed' = TRUE
      BY <2>2, Zenon DEF Outcomes, FailedOutcomes
  <2> QED
      BY <2>1, <2>2 DEF Vote
<1>3. /\ i' = i + 1 /\ seen' = Raised(seen, r) /\ votes' = outcome.votes /\ R' = R
      /\ result' = IF outcome.enough THEN {r} ELSE {}
    BY <1>2 DEF Count, Raised
<1>4. TypeOK /\ R \in Nat /\ i \in Nat /\ seen \in [Key -> Nat] /\ Alone \subseteq Key
    BY TallyTypes DEF TallyInv
<1>5. outcome.votes \in Table /\ Backed(outcome.votes, Raised(seen, r))
    BY <1>4, OutcomeBacked DEF TallyInv
<1>6. CountsBacked'
    BY <1>3, <1>5 DEF CountsBacked, Backed, Unsigned
<1>7. SeenInTime'
  <2> SUFFICES ASSUME NEW q \in Key PROVE Raised(seen, r)[q] <= i + 1
      BY <1>3 DEF SeenInTime
  <2>1. seen[q] <= i
      BY DEF TallyInv, SeenInTime
  <2>2. /\ Raised(seen, r)[q] = IF <<r, q>> \in PrefixOf THEN seen[q] + 1 ELSE seen[q]
        /\ seen[q] \in Nat
      BY <1>4, RaisedType
  <2> QED
      BY <1>4, <2>1, <2>2
<1>8. TypeOK'
  <2>1. \A q \in Key : Raised(seen, r)[q] \in 0..N
    <3> TAKE q \in Key
    <3>1. Raised(seen, r)[q] <= i + 1
        BY <1>3, <1>7 DEF SeenInTime
    <3>2. Raised(seen, r)[q] \in Nat
        BY <1>4, RaisedType
    <3> QED
        BY <1>1, <1>4, <3>1, <3>2, TallyAssumption
  <2>2. Raised(seen, r) \in [Key -> 0..N]
      BY <2>1 DEF Raised
  <2>3. i' \in 0..N
      BY <1>1, <1>3, <1>4, TallyAssumption
  <2>4. R' \in Quorums /\ result' \in {{}} \cup {{q} : q \in Key}
      BY <1>3, <1>4 DEF TypeOK
  <2> QED
      BY <1>2, <1>3, <1>5, <2>2, <2>3, <2>4 DEF TypeOK
<1>9. ASSUME ~ failed', NEW a \in Alone
      PROVE  /\ CountIs(votes', a, seen'[a])
             /\ result' = {} => Short(seen'[a], R)
  <2>1. ~ failed /\ outcome = increment_and_test(votes, r, R)
      BY <1>2, <1>9
  <2>2. CASE a = r
    <3>1. seen'[a] = seen[a] + 1 /\ seen[a] \in Nat
        BY <1>3, <1>4, <2>2, RaisedSelf
    <3>2. votes \in Table /\ R < SizeMod /\ CountIs(votes, a, seen[a]) /\ Short(seen[a], R)
        BY <1>1, <1>4, <2>1, TallyTypes DEF TallyInv, TypeOK, AloneCounted, AloneShort
    <3>3. /\ CountIs(outcome.votes, a, seen[a] + 1)
          /\ ~ outcome.enough => Short(seen[a] + 1, R)
        BY <1>4, <2>1, <2>2, <3>1, <3>2, SameVote
    <3> QED
        BY <1>3, <3>1, <3>3
  <2>3. CASE a # r
    <3>1. <<r, a>> \notin PrefixOf /\ <<a, r>> \notin PrefixOf /\ a \in Key /\ votes \in Table
        BY <1>4, <2>3 DEF Alone, TypeOK
    <3>2. get_Htable_value(outcome.votes, a) = get_Htable_value(votes, a)
        BY <2>1, <3>1, OtherVote
    <3>3. seen'[a] = seen[a]
        BY <1>3, <1>4, <3>1, RaisedType
    <3> QED
        BY <1>1, <1>3, <2>1, <3>2, <3>3 DEF TallyInv, AloneCounted, AloneShort, CountIs
  <2> QED
      BY <2>2, <2>3
<1>10. AloneCounted' /\ AloneShort'
    BY <1>3, <1>9 DEF AloneCounted, AloneShort, CountIs, Short, Enough
<1> QED
    BY <1>6, <1>7, <1>8, <1>10 DEF TallyInv

(***************************************************************************)
(* The types and the three properties of the count, whatever N, R, and the *)
(* widths of char and size_t, and whether or not memory fails.             *)
(***************************************************************************)
THEOREM TallyInvariant == Spec => []TallyInv
<1>1. TallyInv /\ [Next]_vars => TallyInv'
    BY TallyStays, TallyNoVote, TallyVote DEF Next
<1> QED
    BY TallyInit, <1>1, PTL DEF Spec

\* Types of the read: its table of counts stays one, its attempts within N.
THEOREM ReadStaysTyped == Spec => []TypeOK
<1>1. TallyInv => TypeOK
    BY DEF TallyInv
<1> QED
    BY TallyInvariant, <1>1, PTL

\* No stored count is larger than the number of responses it can stem from.
THEOREM CountsAreBacked == Spec => []CountsBacked
<1>1. TallyInv => CountsBacked
    BY DEF TallyInv
<1> QED
    BY TallyInvariant, <1>1, PTL

\* A read that goes on has met no quorum of equal responses.
THEOREM QuorumsAreSeen == Spec => []NoQuorumMissed
<1>1. TallyInv => NoQuorumMissed
  <2> SUFFICES ASSUME TallyInv, result = {}, ~ failed, NEW r \in Alone
               PROVE  seen[r] < IF R = 0 THEN 2 ELSE R
      BY DEF NoQuorumMissed
  <2>1. /\ R \in Nat /\ R < SizeMod /\ seen[r] \in Nat /\ Short(seen[r], R)
      BY TallyTypes DEF TallyInv, AloneShort
  <2> QED
      BY <2>1, ShortBelow DEF Enough
<1> QED
    BY TallyInvariant, <1>1, PTL

(***************************************************************************)
(* A response that is returned has its R votes, as long as R of them can   *)
(* be counted in a char, and one: 129 in the program.                      *)
(***************************************************************************)
Countable == Quorums \subseteq 0..(CharHalf + 1)

THEOREM QuorumsAreReal == ASSUME Countable PROVE Spec => []QuorumOfPrefixes
<1>1. Init => QuorumOfPrefixes
    BY DEF Init, QuorumOfPrefixes
<1>2. TallyInv /\ QuorumOfPrefixes /\ [Next]_vars => QuorumOfPrefixes'
  <2> SUFFICES ASSUME TallyInv, QuorumOfPrefixes, [Next]_vars
               PROVE  QuorumOfPrefixes'
      OBVIOUS
  <2>1. CASE UNCHANGED <<R, result, seen>>
      BY <2>1 DEF QuorumOfPrefixes
  <2>2. ASSUME NEW r \in Key, Vote(r) PROVE QuorumOfPrefixes'
    <3>1. PICK outcome \in Outcomes(votes, r, R) : Count(r, outcome)
        BY <2>2, Zenon DEF Vote, Outcomes, FailedOutcomes
    <3>2. /\ seen' = Raised(seen, r) /\ R' = R
          /\ result' = IF outcome.enough THEN {r} ELSE {}
        BY <3>1 DEF Count, Raised
    <3>3. TypeOK /\ CountsBacked /\ seen \in [Key -> Nat] /\ R <= CharHalf + 1
        BY TallyTypes, Widths DEF TallyInv, TypeOK, Countable
    <3>4. outcome.enough => \E q \in Key : <<r, q>> \in PrefixOf /\ Raised(seen, r)[q] >= R
        BY <3>3, OutcomeBacked
    <3> QED
        BY <3>2, <3>4 DEF QuorumOfPrefixes
  <2> QED
      BY <2>1, <2>2 DEF Next, NoVote, vars
<1> QED
    BY <1>1, <1>2, TallyInvariant, PTL DEF Spec
=============================================================================
