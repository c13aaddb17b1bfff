---------------------------- MODULE VotesProofs ----------------------------
(***************************************************************************)
(* Lemmas about increment_and_test, for a char and a size_t of any width,  *)
(* any R and any responses: the votes of Tally and of Dht rest on them.    *)
(***************************************************************************)
EXTENDS Votes, BucketsProofs

(***************************************************************************)
(* The conversions between char and size_t.                                *)
(***************************************************************************)
LEMMA ModSmall ==
    ASSUME NEW a \in Int, NEW m \in Int, 0 <= a, a < m
    PROVE  a % m = a
OBVIOUS

LEMMA ModOver ==
    ASSUME NEW a \in Int, NEW m \in Int, 0 < m, m <= a, a < 2 * m
    PROVE  a % m = a - m
OBVIOUS

LEMMA ModUnder ==
    ASSUME NEW a \in Int, NEW m \in Int, 0 < m, -m <= a, a < 0
    PROVE  a % m = a + m
OBVIOUS

LEMMA Quotient ==
    ASSUME NEW s \in Int, NEW m \in Int, 0 < m, s % m = 0
    PROVE  \E q \in Int : s = m * q
OBVIOUS

LEMMA Remainder ==
    ASSUME NEW s \in Int, NEW m \in Int, 0 < m, NEW q \in Int, NEW a \in Int,
           0 <= a, a < m, s = m * q + a
    PROVE  s % m = a
OBVIOUS

\* A multiple of m does not change the remainder.
LEMMA ModMultiple ==
    ASSUME NEW a \in Int, NEW m \in Int, NEW s \in Int, 0 <= a, a < m, s % m = 0
    PROVE  (a + s) % m = a
<1>1. PICK q \in Int : s = m * q
    BY Quotient
<1>2. a + s = m * q + a /\ a + s \in Int
    BY <1>1
<1> QED
    BY <1>2, Remainder

LEMMA Widths ==
    /\ CharHalf \in Int /\ CharHalf > 1 /\ SizeMod \in Int
    /\ 2 * CharHalf \in Int /\ SizeMod > 2 * CharHalf
    /\ Value = (-CharHalf)..(CharHalf - 1)
BY VotesAssumption

\* A char holds the small counts, and the next ones and the huge ones as
\* negative numbers.
LEMMA CharOf ==
    ASSUME NEW n \in Int
    PROVE  /\ 0 <= n /\ n < CharHalf => as_char(n) = n
           /\ CharHalf <= n /\ n < 3 * CharHalf => as_char(n) = n - 2 * CharHalf
           /\ SizeMod - CharHalf <= n /\ n < SizeMod => as_char(n) = n - SizeMod
<1>1. ASSUME 0 <= n, n < CharHalf PROVE as_char(n) = n
    BY <1>1, Widths, ModSmall DEF as_char
<1>2. ASSUME CharHalf <= n, n < 3 * CharHalf PROVE as_char(n) = n - 2 * CharHalf
  <2>1. (n + CharHalf) % (2 * CharHalf) = n + CharHalf - 2 * CharHalf
      BY <1>2, Widths, ModOver
  <2> QED
      BY <2>1, Widths DEF as_char
<1>3. ASSUME SizeMod - CharHalf <= n, n < SizeMod PROVE as_char(n) = n - SizeMod
  <2> DEFINE a == n + CharHalf - SizeMod
  <2>1. a \in Int /\ 0 <= a /\ a < 2 * CharHalf /\ a + SizeMod = n + CharHalf
      BY <1>3, Widths
  <2>2. (a + SizeMod) % (2 * CharHalf) = a
      BY <2>1, Widths, VotesAssumption, ModMultiple
  <2> QED
      BY <2>1, <2>2, Widths DEF as_char
<1> QED
    BY <1>1, <1>2, <1>3

LEMMA CharType ==
    ASSUME NEW n \in Int
    PROVE  as_char(n) \in Value
<1>1. (n + CharHalf) % (2 * CharHalf) \in 0..(2 * CharHalf - 1)
    BY Widths
<1> QED
    BY <1>1, Widths DEF as_char

\* What a char reads back as.
LEMMA SizeOf ==
    ASSUME NEW c \in Value
    PROVE  as_size(c) = IF c >= 0 THEN c ELSE c + SizeMod
BY Widths, ModSmall, ModUnder DEF as_size

LEMMA CountOf ==
    ASSUME NEW c \in Value
    PROVE  (as_size(c) + 1) % SizeMod =
              IF c = -1 THEN 0 ELSE IF c >= 0 THEN c + 1 ELSE c + 1 + SizeMod
<1>1. CASE c = -1
  <2>1. as_size(c) + 1 = SizeMod
      BY <1>1, SizeOf, Widths
  <2>2. SizeMod % SizeMod = 0
      BY Widths, ModOver
  <2> QED
      BY <1>1, <2>1, <2>2
<1>2. CASE c # -1
  <2>1. as_size(c) + 1 = IF c >= 0 THEN c + 1 ELSE c + 1 + SizeMod
      BY SizeOf, Widths
  <2>2. as_size(c) + 1 \in Int /\ 0 <= as_size(c) + 1 /\ as_size(c) + 1 < SizeMod
      BY <1>2, <2>1, Widths
  <2> QED
      BY <1>2, <2>1, <2>2, Widths, ModSmall
<1> QED
    BY <1>1, <1>2

\* A char read as unsigned.
Unsigned(c) == c % (2 * CharHalf)

LEMMA UnsignedOf ==
    ASSUME NEW c \in Value
    PROVE  Unsigned(c) = IF c >= 0 THEN c ELSE c + 2 * CharHalf
BY Widths, ModSmall, ModUnder DEF Unsigned

\* The stored count grows by one at most.
LEMMA CountGrows ==
    ASSUME NEW c \in Value
    PROVE  LET count == (as_size(c) + 1) % SizeMod
           IN  as_char(count) \in Value /\ Unsigned(as_char(count)) <= Unsigned(c) + 1
<1> DEFINE count == (as_size(c) + 1) % SizeMod
<1>1. count = IF c = -1 THEN 0 ELSE IF c >= 0 THEN c + 1 ELSE c + 1 + SizeMod
    BY CountOf
<1>2. count \in Int
    BY <1>1, Widths
<1> HIDE DEF count
<1>3. as_char(count) = IF c = CharHalf - 1 THEN -CharHalf ELSE c + 1
    BY <1>1, <1>2, CharOf, Widths
<1>4. as_char(count) \in Value
    BY <1>2, CharType
<1>5. Unsigned(as_char(count)) <= Unsigned(c) + 1
    BY <1>3, <1>4, UnsignedOf, Widths
<1> QED
    BY <1>4, <1>5 DEF count

LEMMA FirstChar == as_char(1) = 1 /\ 1 \in Value /\ Unsigned(1) = 1
BY CharOf, Widths, UnsignedOf

----------------------------------------------------------------------------

(***************************************************************************)
(* What increment_and_test leaves in the table.                            *)
(***************************************************************************)
\* Where a pair of the new table comes from.
LEMMA AddPairs ==
    ASSUME NEW t \in Table, NEW r \in Key, NEW v \in Value, NEW b \in Bucket,
           NEW j \in DOMAIN add_Htable_value(t, r, v)[b]
    PROVE  LET p == add_Htable_value(t, r, v)[b][j]
           IN  \/ \E m \in DOMAIN t[b] : p = t[b][m]
               \/ get_Htable_value(t, r) = {} /\ p.key = r /\ p.value = v
               \/ /\ b = HashOf[r] /\ p.value = v
                  /\ \E m \in FirstMatch(t[b], r) : p.key = t[b][m].key
<1> DEFINE u == add_Htable_value(t, r, v)
           h == HashOf[r]
<1>1. h \in Bucket /\ t[h] \in Seq(kv_pair_t)
    BY HashType, BucketType
<1>2. CASE b # h
    BY <1>2, AddEffect
<1>3. CASE b = h /\ FirstMatch(t[h], r) = {}
  <2>1. u[h] = <<kv_pair(r, v)>> \o t[h] /\ get_Htable_value(t, r) = {}
      BY <1>3, AddEffect DEF get_Htable_value
  <2>2. CASE j = 1
      BY <1>1, <1>3, <2>1, <2>2, LinkHead, PairType
  <2>3. CASE j # 1
    <3>1. j \in 2..(Len(t[h]) + 1)
        BY <1>1, <1>3, <2>1, <2>3, LinkHead, PairType
    <3>2. u[h][j] = t[h][j - 1] /\ j - 1 \in DOMAIN t[h]
        BY <1>1, <2>1, <3>1, LinkHead, PairType
    <3> QED
        BY <1>3, <3>2
  <2> QED
      BY <2>2, <2>3
<1>4. CASE b = h /\ FirstMatch(t[h], r) # {}
  <2>1. u[h] = Updated(t[h], r, v)
      BY <1>4, AddEffect
  <2>2. j \in DOMAIN t[h]
      BY <1>4, <2>1 DEF Updated
  <2>3. CASE j \in FirstMatch(t[h], r)
      BY <1>1, <1>4, <2>1, <2>2, <2>3, UpdatedType
  <2>4. CASE j \notin FirstMatch(t[h], r)
      BY <1>1, <1>4, <2>1, <2>2, <2>4, UpdatedType
  <2> QED
      BY <2>3, <2>4
<1> QED
    BY <1>2, <1>3, <1>4

----------------------------------------------------------------------------

(***************************************************************************)
(* No count of table t, read as unsigned, is larger than s allows its key, *)
(* and one more is allowed to the keys that response r is a prefix of.     *)
(***************************************************************************)
Backed(t, s) ==
    \A b \in Bucket : \A j \in DOMAIN t[b] : Unsigned(t[b][j].value) <= s[t[b][j].key]

Raised(s, r) == [q \in Key |-> IF <<r, q>> \in PrefixOf THEN s[q] + 1 ELSE s[q]]

LEMMA RaisedType ==
    ASSUME NEW s \in [Key -> Nat], NEW r \in Key, NEW q \in Key
    PROVE  /\ Raised(s, r)[q] = IF <<r, q>> \in PrefixOf THEN s[q] + 1 ELSE s[q]
           /\ s[q] \in Nat /\ Raised(s, r)[q] \in Nat /\ s[q] <= Raised(s, r)[q]
BY DEF Raised

LEMMA RaisedSelf ==
    ASSUME NEW s \in [Key -> Nat], NEW r \in Key
    PROVE  <<r, r>> \in PrefixOf /\ Raised(s, r)[r] = s[r] + 1 /\ s[r] \in Nat
BY RaisedType, BucketsAssumption

LEMMA AddBacked ==
    ASSUME NEW t \in Table, NEW s \in [Key -> Nat], NEW r \in Key, NEW v \in Value,
           Backed(t, s),
           get_Htable_value(t, r) = {} => Unsigned(v) <= s[r] + 1,
           \A m \in FirstMatch(t[HashOf[r]], r) : Unsigned(v) <= s[t[HashOf[r]][m].key] + 1
    PROVE  add_Htable_value(t, r, v) \in Table /\ Backed(add_Htable_value(t, r, v), Raised(s, r))
<1> DEFINE u == add_Htable_value(t, r, v)
           h == HashOf[r]
<1>1. u \in Table
    BY AddEffect
<1>2. ASSUME NEW b \in Bucket, NEW j \in DOMAIN u[b]
      PROVE  Unsigned(u[b][j].value) <= Raised(s, r)[u[b][j].key]
  <2>1. \/ \E m \in DOMAIN t[b] : u[b][j] = t[b][m]
        \/ get_Htable_value(t, r) = {} /\ u[b][j].key = r /\ u[b][j].value = v
        \/ /\ b = h /\ u[b][j].value = v
           /\ \E m \in FirstMatch(t[b], r) : u[b][j].key = t[b][m].key
      BY <1>2, AddPairs
  <2> HIDE DEF u
  <2>2. \A m \in DOMAIN t[b] : t[b][m].key \in Key /\ t[b][m].value \in Value
    <3>1. \A m \in DOMAIN t[b] : t[b][m] \in kv_pair_t
        BY BucketType, ElementOfSeq
    <3> QED
        BY <3>1 DEF kv_pair_t
  <2>3. CASE \E m \in DOMAIN t[b] : u[b][j] = t[b][m]
    <3>1. PICK m \in DOMAIN t[b] : u[b][j] = t[b][m]
        BY <2>3
    <3>2. Unsigned(t[b][m].value) <= s[t[b][m].key]
        BY DEF Backed
    <3>3. Unsigned(t[b][m].value) \in Int
        BY <2>2, UnsignedOf, Widths
    <3> DEFINE q == t[b][m].key
    <3>4. q \in Key
        BY <2>2
    <3> HIDE DEF q
    <3>5. s[q] <= Raised(s, r)[q] /\ s[q] \in Nat /\ Raised(s, r)[q] \in Nat
        BY <3>4, RaisedType
    <3>6. Unsigned(t[b][m].value) <= Raised(s, r)[q]
        BY <3>2, <3>3, <3>5 DEF q
    <3> QED
        BY <3>1, <3>6 DEF q
  <2>4. CASE get_Htable_value(t, r) = {} /\ u[b][j].key = r /\ u[b][j].value = v
      BY <2>4, RaisedSelf
  <2>5. CASE /\ b = h /\ u[b][j].value = v
             /\ \E m \in FirstMatch(t[b], r) : u[b][j].key = t[b][m].key
    <3>1. PICK m \in FirstMatch(t[b], r) : u[b][j].key = t[b][m].key
        BY <2>5
    <3>2. m \in DOMAIN t[b] /\ <<r, t[b][m].key>> \in PrefixOf
        BY DEF FirstMatch, Matches
    <3>3. Raised(s, r)[t[b][m].key] = s[t[b][m].key] + 1
        BY <2>2, <3>2, RaisedType
    <3> QED
        BY <2>5, <3>1, <3>3
  <2> QED
      BY <2>1, <2>3, <2>4, <2>5
<1> QED
    BY <1>1, <1>2 DEF Backed

\* More responses back what fewer did.
LEMMA BackedGrows ==
    ASSUME NEW t \in Table, NEW s \in [Key -> Nat], NEW u \in [Key -> Nat],
           Backed(t, s), \A q \in Key : s[q] <= u[q]
    PROVE  Backed(t, u)
<1>1. ASSUME NEW b \in Bucket, NEW j \in DOMAIN t[b]
      PROVE  Unsigned(t[b][j].value) <= u[t[b][j].key]
  <2>1. t[b][j] \in kv_pair_t
      BY BucketType, ElementOfSeq
  <2>2. t[b][j].key \in Key /\ t[b][j].value \in Value
      BY <2>1 DEF kv_pair_t
  <2>3. Unsigned(t[b][j].value) \in Int
      BY <2>2, UnsignedOf, Widths
  <2> DEFINE q == t[b][j].key
             n == Unsigned(t[b][j].value)
  <2>4. q \in Key /\ n \in Int /\ n <= s[q]
      BY <2>2, <2>3 DEF Backed
  <2> HIDE DEF q, n
  <2>5. n <= u[q]
      BY <2>4
  <2> QED
      BY <2>5 DEF q, n
<1> QED
    BY <1>1 DEF Backed

\* The count that is found belongs to a string the response counts for.
LEMMA FoundBacked ==
    ASSUME NEW t \in Table, NEW s \in [Key -> Nat], NEW r \in Key, Backed(t, s)
    PROVE  LET c == CHOOSE x \in get_Htable_value(t, r) : TRUE
               b == t[HashOf[r]]
           IN  /\ get_Htable_value(t, r) # {} => c \in Value /\ FirstMatch(b, r) # {}
               /\ \A m \in FirstMatch(b, r) :
                     /\ get_Htable_value(t, r) # {}
                     /\ b[m].key \in Key /\ <<r, b[m].key>> \in PrefixOf
                     /\ b[m].value = c /\ Unsigned(c) <= s[b[m].key]
<1> DEFINE c == CHOOSE x \in get_Htable_value(t, r) : TRUE
           b == t[HashOf[r]]
<1>1. get_Htable_value(t, r) # {} <=> FirstMatch(b, r) # {}
    BY DEF get_Htable_value
<1>2. get_Htable_value(t, r) # {} =>
         /\ c \in Value
         /\ \A m \in FirstMatch(b, r) : m \in DOMAIN b /\ b[m].key \in Key /\ b[m].value = c
                                          /\ <<r, b[m].key>> \in PrefixOf
    BY FoundOne DEF kv_pair_t
<1>3. \A m \in FirstMatch(b, r) : m \in DOMAIN b => Unsigned(b[m].value) <= s[b[m].key]
    BY HashType DEF Backed
<1> HIDE DEF c, b
<1> QED
    BY <1>1, <1>2, <1>3 DEF c, b

(***************************************************************************)
(* The table after a vote is backed again, and a vote is enough only with  *)
(* a string that R responses count for.                                    *)
(***************************************************************************)
LEMMA FirstVoteCounted ==
    ASSUME NEW t \in Table, NEW s \in [Key -> Nat], NEW r \in Key, NEW R, Backed(t, s)
    PROVE  /\ first_vote(t, r, R).votes \in Table
           /\ Backed(first_vote(t, r, R).votes, Raised(s, r))
           /\ first_vote(t, r, R).enough <=> R = 1
<1>1. s[r] \in Nat /\ \A m \in FirstMatch(t[HashOf[r]], r) :
         1 <= s[t[HashOf[r]][m].key] + 1
  <2> DEFINE b == t[HashOf[r]]
  <2>1. \A m \in FirstMatch(b, r) : b[m].key \in Key
      BY FoundBacked
  <2> HIDE DEF b
  <2>2. \A q \in Key : s[q] \in Nat
      OBVIOUS
  <2>3. \A m \in FirstMatch(b, r) : s[b[m].key] \in Nat
      BY <2>1, <2>2, Zenon
  <2> QED
      BY <2>2, <2>3 DEF b
<1>2. Unsigned(1) <= s[r] + 1
    BY <1>1, FirstChar
<1>3. add_Htable_value(t, r, 1) \in Table /\ Backed(add_Htable_value(t, r, 1), Raised(s, r))
    BY <1>1, <1>2, FirstChar, AddBacked
<1> QED
    BY <1>3, FirstChar DEF first_vote

LEMMA AnotherVoteCounted ==
    ASSUME NEW t \in Table, NEW s \in [Key -> Nat], NEW r \in Key, NEW R \in Nat, Backed(t, s),
           get_Htable_value(t, r) # {}
    PROVE  LET c == CHOOSE x \in get_Htable_value(t, r) : TRUE
               vote == another_vote(t, r, R, c)
           IN  /\ vote.votes \in Table /\ Backed(vote.votes, Raised(s, r))
               /\ vote.enough /\ R <= CharHalf + 1 =>
                     \E q \in Key : <<r, q>> \in PrefixOf /\ Raised(s, r)[q] >= R
<1> DEFINE c == CHOOSE x \in get_Htable_value(t, r) : TRUE
           b == t[HashOf[r]]
           count == (as_size(c) + 1) % SizeMod
<1>1. /\ c \in Value /\ FirstMatch(b, r) # {}
      /\ \A m \in FirstMatch(b, r) :
            b[m].key \in Key /\ <<r, b[m].key>> \in PrefixOf /\ Unsigned(c) <= s[b[m].key]
    BY FoundBacked
<1>2. as_char(count) \in Value /\ Unsigned(as_char(count)) <= Unsigned(c) + 1
    BY <1>1, CountGrows
<1>3. /\ Unsigned(c) = IF c >= 0 THEN c ELSE c + 2 * CharHalf
      /\ count = IF c = -1 THEN 0 ELSE IF c >= 0 THEN c + 1 ELSE c + 1 + SizeMod
    BY <1>1, UnsignedOf, CountOf
<1>4. Unsigned(c) \in Int /\ Unsigned(as_char(count)) \in Int
    BY <1>1, <1>2, UnsignedOf, Widths
<1> HIDE DEF count, c
<1>5. \A m \in FirstMatch(b, r) : Unsigned(as_char(count)) <= s[b[m].key] + 1
  <2> TAKE m \in FirstMatch(b, r)
  <2> DEFINE q == b[m].key
  <2>1. q \in Key /\ Unsigned(c) <= s[q]
      BY <1>1
  <2> HIDE DEF q
  <2>2. Unsigned(as_char(count)) <= s[q] + 1
      BY <1>2, <1>4, <2>1
  <2> QED
      BY <2>2 DEF q
<1>6. /\ add_Htable_value(t, r, as_char(count)) \in Table
      /\ Backed(add_Htable_value(t, r, as_char(count)), Raised(s, r))
    BY <1>1, <1>2, <1>5, AddBacked DEF c
<1>7. ASSUME count >= R, R <= CharHalf + 1
      PROVE  \E q \in Key : <<r, q>> \in PrefixOf /\ Raised(s, r)[q] >= R
  <2>1. PICK m \in FirstMatch(b, r) : TRUE
      BY <1>1
  <2> DEFINE q == b[m].key
  <2>2. q \in Key /\ <<r, q>> \in PrefixOf /\ Unsigned(c) <= s[q]
      BY <1>1
  <2> HIDE DEF q
  <2>3. Raised(s, r)[q] = s[q] + 1 /\ s[q] \in Nat
      BY <2>2, RaisedType
  <2>4. s[q] + 1 >= R
      BY <1>1, <1>3, <1>7, <2>2, <2>3, Widths
  <2> QED
      BY <2>2, <2>3, <2>4
<1> QED
    BY <1>6, <1>7 DEF another_vote, count, c

LEMMA VoteCounted ==
    ASSUME NEW t \in Table, NEW s \in [Key -> Nat], NEW r \in Key, NEW R \in Nat, Backed(t, s)
    PROVE  LET vote == increment_and_test(t, r, R)
           IN  /\ vote.votes \in Table /\ Backed(vote.votes, Raised(s, r))
               /\ vote.enough /\ R <= CharHalf + 1 =>
                     \E q \in Key : <<r, q>> \in PrefixOf /\ Raised(s, r)[q] >= R
<1>1. R = 1 => \E q \in Key : <<r, q>> \in PrefixOf /\ Raised(s, r)[q] >= R
    BY RaisedSelf
<1> QED
    BY <1>1, FirstVoteCounted, AnotherVoteCounted DEF increment_and_test

(***************************************************************************)
(* With an R of 0 a read ends with the second vote for a string: until     *)
(* then no count is raised.                                                *)
(***************************************************************************)
AllOnes(t) == \A b \in Bucket : \A j \in DOMAIN t[b] : t[b][j].value = 1

LEMMA FirstVoteOnes ==
    ASSUME NEW t \in Table, NEW r \in Key, NEW R, AllOnes(t)
    PROVE  AllOnes(first_vote(t, r, R).votes)
<1>1. first_vote(t, r, R).votes = add_Htable_value(t, r, 1)
    BY FirstChar, Zenon DEF first_vote
<1>2. AllOnes(add_Htable_value(t, r, 1))
    BY AddPairs, FirstChar DEF AllOnes
<1> QED
    BY <1>1, <1>2

LEMMA SecondVoteEnds ==
    ASSUME NEW t \in Table, NEW s \in [Key -> Nat], NEW r \in Key, Backed(t, s), AllOnes(t)
    PROVE  LET vote == increment_and_test(t, r, 0)
           IN  /\ ~ vote.enough => AllOnes(vote.votes)
               /\ vote.enough =>
                     \E q \in Key : <<r, q>> \in PrefixOf /\ Raised(s, r)[q] >= 2
<1> DEFINE c == CHOOSE x \in get_Htable_value(t, r) : TRUE
           b == t[HashOf[r]]
<1>1. /\ get_Htable_value(t, r) # {} => c \in Value /\ FirstMatch(b, r) # {}
      /\ \A m \in FirstMatch(b, r) :
            b[m].key \in Key /\ <<r, b[m].key>> \in PrefixOf /\ b[m].value = c
               /\ Unsigned(c) <= s[b[m].key]
    BY FoundBacked
<1>2. CASE get_Htable_value(t, r) = {}
  <2>1. increment_and_test(t, r, 0) = first_vote(t, r, 0)
      BY <1>2 DEF increment_and_test
  <2>2. first_vote(t, r, 0).enough <=> 0 = 1
      BY Zenon DEF first_vote
  <2> QED
      BY <2>1, <2>2, FirstVoteOnes
<1>3. CASE get_Htable_value(t, r) # {}
  <2>1. increment_and_test(t, r, 0).enough <=> (as_size(c) + 1) % SizeMod >= 0
      BY <1>3 DEF increment_and_test, another_vote
  <2>2. c = 1
    <3>1. PICK m \in FirstMatch(b, r) : TRUE
        BY <1>1, <1>3
    <3>2. m \in DOMAIN b
        BY DEF FirstMatch
    <3> QED
        BY <1>1, <3>1, <3>2, HashType DEF AllOnes
  <2> HIDE DEF c
  <2>3. (as_size(c) + 1) % SizeMod = 2
      BY <2>2, FirstChar, CountOf
  <2>4. \E q \in Key : <<r, q>> \in PrefixOf /\ Raised(s, r)[q] >= 2
    <3>1. PICK m \in FirstMatch(b, r) : TRUE
        BY <1>1, <1>3
    <3> DEFINE q == b[m].key
    <3>2. q \in Key /\ <<r, q>> \in PrefixOf /\ 1 <= s[q]
        BY <1>1, <2>2, FirstChar
    <3> HIDE DEF q
    <3>3. Raised(s, r)[q] = s[q] + 1 /\ s[q] \in Nat
        BY <3>2, RaisedType
    <3>4. Raised(s, r)[q] >= 2
        BY <3>2, <3>3
    <3> QED
        BY <3>2, <3>4
  <2>5. (as_size(c) + 1) % SizeMod >= 0
      BY <2>3
  <2>6. increment_and_test(t, r, 0).enough
      BY <2>1, <2>5
  <2> QED
      BY <2>4, <2>6, Zenon
<1> QED
    BY <1>2, <1>3

(***************************************************************************)
(* The same when an allocation may have failed.                            *)
(***************************************************************************)
Outcomes(t, r, R) ==
    {increment_and_test(t, r, R), uncopied(t, r, R)} \cup unstored(t, r, R)

LEMMA OutcomeForm ==
    ASSUME NEW t, NEW r, NEW R, NEW outcome \in Outcomes(t, r, R)
    PROVE  LET vote == increment_and_test(t, r, R)
           IN  \/ outcome = vote
               \/ outcome = first_vote(t, r, R)
               \/ outcome.votes = t /\ (outcome.enough => vote.enough \/ R = 1)
<1> DEFINE vote == increment_and_test(t, r, R)
<1>1. \/ outcome = vote
      \/ outcome = first_vote(t, r, R)
      \/ outcome = [votes |-> t, enough |-> vote.enough]
      \/ outcome = [votes |-> t, enough |-> R = 1]
    BY Zenon DEF Outcomes, uncopied, unstored
<1> HIDE DEF vote
<1>2. ASSUME NEW enough, outcome = [votes |-> t, enough |-> enough]
      PROVE  outcome.votes = t /\ (outcome.enough => enough)
    BY <1>2, Zenon
<1>3. CASE outcome = [votes |-> t, enough |-> vote.enough]
  <2>1. outcome.votes = t /\ (outcome.enough => vote.enough)
      BY <1>2, <1>3, Zenon
  <2> QED
      BY <2>1, Zenon DEF vote
<1>4. CASE outcome = [votes |-> t, enough |-> R = 1]
  <2>1. outcome.votes = t /\ (outcome.enough => R = 1)
      BY <1>2, <1>4, Zenon
  <2> QED
      BY <2>1, Zenon DEF vote
<1> QED
    BY <1>1, <1>3, <1>4, Zenon DEF vote

LEMMA OutcomeCounted ==
    ASSUME NEW t \in Table, NEW s \in [Key -> Nat], NEW r \in Key, NEW R \in Nat, Backed(t, s),
           NEW outcome \in Outcomes(t, r, R)
    PROVE  /\ outcome.votes \in Table /\ Backed(outcome.votes, Raised(s, r))
           /\ outcome.enough /\ R <= CharHalf + 1 =>
                 \E q \in Key : <<r, q>> \in PrefixOf /\ Raised(s, r)[q] >= R
<1> DEFINE vote == increment_and_test(t, r, R)
<1>1. /\ vote.votes \in Table /\ Backed(vote.votes, Raised(s, r))
      /\ vote.enough /\ R <= CharHalf + 1 =>
            \E q \in Key : <<r, q>> \in PrefixOf /\ Raised(s, r)[q] >= R
    BY VoteCounted
<1>2. /\ first_vote(t, r, R).votes \in Table
      /\ Backed(first_vote(t, r, R).votes, Raised(s, r))
      /\ first_vote(t, r, R).enough <=> R = 1
    BY FirstVoteCounted
<1>3. Raised(s, r) \in [Key -> Nat] /\ \A q \in Key : s[q] <= Raised(s, r)[q]
    BY RaisedType DEF Raised
<1>4. Backed(t, Raised(s, r))
    BY <1>3, BackedGrows
<1>5. R = 1 => \E q \in Key : <<r, q>> \in PrefixOf /\ Raised(s, r)[q] >= R
    BY RaisedSelf
<1>6. \/ outcome = vote
      \/ outcome = first_vote(t, r, R)
      \/ outcome.votes = t /\ (outcome.enough => vote.enough \/ R = 1)
    BY OutcomeForm
<1> HIDE DEF vote
<1> QED
    BY <1>1, <1>2, <1>4, <1>5, <1>6

LEMMA OutcomeOnes ==
    ASSUME NEW t \in Table, NEW s \in [Key -> Nat], NEW r \in Key, Backed(t, s), AllOnes(t),
           NEW outcome \in Outcomes(t, r, 0)
    PROVE  /\ ~ outcome.enough => AllOnes(outcome.votes)
           /\ outcome.enough =>
                 \E q \in Key : <<r, q>> \in PrefixOf /\ Raised(s, r)[q] >= 2
<1> DEFINE vote == increment_and_test(t, r, 0)
<1>1. /\ ~ vote.enough => AllOnes(vote.votes)
      /\ vote.enough => \E q \in Key : <<r, q>> \in PrefixOf /\ Raised(s, r)[q] >= 2
    BY SecondVoteEnds
<1>2. AllOnes(first_vote(t, r, 0).votes) /\ ~ first_vote(t, r, 0).enough
  <2>1. first_vote(t, r, 0).enough <=> 0 = 1
      BY Zenon DEF first_vote
  <2> QED
      BY <2>1, FirstVoteOnes
<1>3. \/ outcome = vote
      \/ outcome = first_vote(t, r, 0)
      \/ outcome.votes = t /\ (outcome.enough => vote.enough \/ 0 = 1)
    BY OutcomeForm
<1> HIDE DEF vote
<1> QED
    BY <1>1, <1>2, <1>3

----------------------------------------------------------------------------

(***************************************************************************)
(* The count of a response that is related to no other one is exact, up to *)
(* the width of a char; and while the read goes on it has not reached R,   *)
(* neither as it is nor, once it is a negative char, as the huge size_t it *)
(* reads back as.                                                          *)
(***************************************************************************)
Enough(quorum) == IF quorum = 0 THEN 2 ELSE quorum

Short(n, quorum) ==
    \/ n <= CharHalf /\ n < Enough(quorum)
    \/ CharHalf < n /\ n < 2 * CharHalf - 1 /\ SizeMod - 2 * CharHalf + n < quorum

CountIs(t, r, n) == get_Htable_value(t, r) = IF n = 0 THEN {} ELSE {as_char(n)}

LEMMA NoVoteYet ==
    /\ \A r \in Key : CountIs(construct_Htable, r, 0)
    /\ \A quorum \in Nat : Short(0, quorum)
<1>1. \A r \in Key : CountIs(construct_Htable, r, 0)
    BY NothingFound DEF CountIs
<1>2. \A quorum \in Nat : Short(0, quorum)
    BY Widths DEF Short, Enough
<1> QED
    BY <1>1, <1>2

\* Nothing is missed.
LEMMA ShortBelow ==
    ASSUME NEW R \in Nat, R < SizeMod, NEW n \in Nat, Short(n, R)
    PROVE  n < Enough(R)
BY Widths, VotesAssumption DEF Short, Enough

\* One more vote for a response.
LEMMA SameVote ==
    ASSUME NEW t \in Table, NEW r \in Key, NEW R \in Nat, R < SizeMod,
           NEW n \in Nat, CountIs(t, r, n), Short(n, R)
    PROVE  LET outcome == increment_and_test(t, r, R)
           IN  /\ CountIs(outcome.votes, r, n + 1)
               /\ ~ outcome.enough => Short(n + 1, R)
<1> DEFINE c == CHOOSE x \in get_Htable_value(t, r) : TRUE
           count == (as_size(c) + 1) % SizeMod
<1>1. get_Htable_value(t, r) = IF n = 0 THEN {} ELSE {as_char(n)}
    BY DEF CountIs
<1>2. CASE n = 0
  <2>1. increment_and_test(t, r, R) = first_vote(t, r, R)
      BY <1>1, <1>2 DEF increment_and_test
  <2>2. /\ first_vote(t, r, R).votes = add_Htable_value(t, r, 1)
        /\ first_vote(t, r, R).enough <=> R = 1
      BY FirstChar DEF first_vote
  <2>3. get_Htable_value(add_Htable_value(t, r, 1), r) = {1}
      BY <1>1, FirstChar, AddRead
  <2>4. R # 1 => Short(n + 1, R)
      BY <1>1, <1>2, Widths DEF Short, Enough
  <2>5. /\ increment_and_test(t, r, R).votes = add_Htable_value(t, r, 1)
        /\ increment_and_test(t, r, R).enough <=> R = 1
      BY <2>1, <2>2
  <2>6. as_char(n + 1) = 1
      BY <1>2, FirstChar
  <2> QED
      BY <1>2, <2>3, <2>4, <2>5, <2>6 DEF CountIs
<1>3. CASE n # 0
  <2>1. c = as_char(n) /\ c \in Value
      BY <1>1, <1>3, CharType
  <2>2. increment_and_test(t, r, R) = another_vote(t, r, R, c)
      BY <1>1, <1>3 DEF increment_and_test
  <2>3. /\ another_vote(t, r, R, c).votes = add_Htable_value(t, r, as_char(count))
        /\ another_vote(t, r, R, c).enough <=> count >= R
      BY DEF another_vote
  <2> HIDE DEF c
  <2>4. n < 2 * CharHalf - 1
      BY <1>1, Widths DEF Short
  <2>5. c = IF n < CharHalf THEN n ELSE n - 2 * CharHalf
      BY <1>1, <2>1, <2>4, CharOf, Widths
  <2>6. count = IF n < CharHalf THEN n + 1 ELSE SizeMod - 2 * CharHalf + n + 1
      BY <1>1, <2>1, <2>4, <2>5, CountOf, Widths
  <2>7. count \in Int
      BY <1>1, <2>6, Widths
  <2> HIDE DEF count
  <2>8. as_char(count) = as_char(n + 1)
    <3>1. CASE n < CharHalf
        BY <2>6, <3>1
    <3>2. CASE n >= CharHalf
      <4>1. as_char(n + 1) = n + 1 - 2 * CharHalf
          BY <1>1, <2>4, <3>2, CharOf, Widths
      <4>2. as_char(count) = count - SizeMod
          BY <1>1, <2>4, <2>6, <2>7, <3>2, CharOf, Widths
      <4> QED
          BY <1>1, <2>6, <3>2, <4>1, <4>2, Widths
    <3> QED
        BY <1>1, <3>1, <3>2, Widths
  <2>9. as_char(count) \in Value
      BY <2>7, CharType
  <2>10. get_Htable_value(add_Htable_value(t, r, as_char(count)), r) = {as_char(count)}
      BY <1>1, <2>9, AddRead
  <2>11. ~ (count >= R) => Short(n + 1, R)
      BY <1>1, <2>4, <2>6, <2>7, Widths DEF Short, Enough
  <2>12. /\ increment_and_test(t, r, R).votes = add_Htable_value(t, r, as_char(count))
         /\ increment_and_test(t, r, R).enough <=> count >= R
      BY <2>2, <2>3
  <2> QED
      BY <2>8, <2>10, <2>11, <2>12, n + 1 # 0 DEF CountIs
<1> QED
    BY <1>2, <1>3

\* When the count cannot be copied, this vote is the first again.
LEMMA VoteAfresh ==
    ASSUME NEW t \in Table, NEW r \in Key, NEW R \in Nat
    PROVE  LET outcome == first_vote(t, r, R)
           IN  /\ CountIs(outcome.votes, r, 1)
               /\ ~ outcome.enough => Short(1, R)
<1>1. /\ first_vote(t, r, R).votes = add_Htable_value(t, r, 1)
      /\ first_vote(t, r, R).enough <=> R = 1
    BY FirstChar DEF first_vote
<1>2. get_Htable_value(add_Htable_value(t, r, 1), r) = {1} /\ as_char(1) = 1
    BY FirstChar, AddRead
<1>3. R # 1 => Short(1, R)
    BY Widths DEF Short, Enough
<1>4. CountIs(add_Htable_value(t, r, 1), r, 1)
    BY <1>2 DEF CountIs
<1> QED
    BY <1>1, <1>3, <1>4

\* A vote stores some count.
LEMMA CountStored ==
    ASSUME NEW t \in Table, NEW r \in Key, NEW R
    PROVE  \E v \in Value : increment_and_test(t, r, R).votes = add_Htable_value(t, r, v)
<1> DEFINE c == CHOOSE x \in get_Htable_value(t, r) : TRUE
           count == (as_size(c) + 1) % SizeMod
<1>1. CASE get_Htable_value(t, r) = {}
  <2>1. increment_and_test(t, r, R).votes = add_Htable_value(t, r, as_char(1))
      BY <1>1 DEF increment_and_test, first_vote
  <2> QED
      BY <2>1, FirstChar
<1>2. CASE get_Htable_value(t, r) # {}
  <2>1. increment_and_test(t, r, R).votes = add_Htable_value(t, r, as_char(count))
      BY <1>2 DEF increment_and_test, another_vote
  <2>2. c \in Value
      BY <1>2, FoundOne
  <2>3. as_char(count) \in Value
      BY <2>2, CountGrows
  <2> QED
      BY <2>1, <2>3
<1> QED
    BY <1>1, <1>2

\* A vote for another response does not touch it, nor does one that is lost.
LEMMA OtherVote ==
    ASSUME NEW t \in Table, NEW r \in Key, NEW a \in Key, NEW R,
           NEW outcome \in Outcomes(t, r, R),
           <<r, a>> \notin PrefixOf, <<a, r>> \notin PrefixOf
    PROVE  get_Htable_value(outcome.votes, a) = get_Htable_value(t, a)
<1>1. ~ Related(r, a)
    BY DEF Related
<1>2. outcome.votes = t \/ \E v \in Value : outcome.votes = add_Htable_value(t, r, v)
  <2> DEFINE vote == increment_and_test(t, r, R)
  <2>1. \E v \in Value : vote.votes = add_Htable_value(t, r, v)
      BY CountStored
  <2>2. first_vote(t, r, R).votes = add_Htable_value(t, r, 1) /\ 1 \in Value
      BY FirstChar DEF first_vote
  <2>3. \/ outcome = vote
        \/ outcome = first_vote(t, r, R)
        \/ outcome.votes = t
      BY OutcomeForm
  <2> HIDE DEF vote
  <2> QED
      BY <2>1, <2>2, <2>3
<1> QED
    BY <1>1, <1>2, AddRead
=============================================================================
