----------------------------- MODULE DumpProofs -----------------------------
(***************************************************************************)
(* Proofs about Dump, for contents, strings and messages of every size:    *)
(* first the message buffer of the server, then what the client prints.    *)
(***************************************************************************)
EXTENDS Dump, TLAPS, SequenceTheorems, WellFoundedInduction

(***************************************************************************)
(* The difference in the condition of the inner loop does not wrap while   *)
(* the message is within its bounds.                                       *)
(***************************************************************************)
LEMMA NoWrap ==
    ASSUME NEW used \in Nat, used <= MaxMsg
    PROVE  (MaxMsg - used) % SizeMod = MaxMsg - used
<1>1. MaxMsg \in Nat /\ SizeMod \in Nat /\ MaxMsg < SizeMod
    BY DumpAssumption
<1>2. MaxMsg - used \in Nat /\ MaxMsg - used < SizeMod
    BY <1>1
<1> QED
    BY <1>1, <1>2

LEMMA PairLenType ==
    ASSUME NEW l \in Lists, NEW n \in 1..Len(l)
    PROVE  PairLen(l[n]) \in Nat
<1>1. l \in Seq(String \X String)
    BY DumpAssumption
<1>2. l[n] \in String \X String
    BY <1>1
<1>3. LenOf[l[n][1]] \in Nat /\ LenOf[l[n][2]] \in Nat
    BY <1>2, DumpAssumption
<1> QED
    BY <1>3 DEF PairLen

LEMMA ListType ==
    ASSUME NEW l \in Lists
    PROVE  /\ Len(l) \in Nat
           /\ LenOf[Decimal[Len(l)]] \in Nat
           /\ LenOf[Decimal[Len(l)]] + 1 <= MaxMsg
<1>1. Len(l) \in Nat
    BY DumpAssumption
<1>2. LenOf[Decimal[Len(l)]] \in Nat /\ LenOf[Decimal[Len(l)]] < MaxMsg /\ MaxMsg \in Nat
    BY DumpAssumption
<1> QED
    BY <1>1, <1>2

ServerType ==
    /\ list \in Lists
    /\ pc \in {"idle", "copy", "send", "crashed"}
    /\ index_list \in 0..Len(list)
    /\ pc = "copy" => index_list < Len(list)
    /\ index \in Nat

\* The strengthening: what the next iteration copies has been found to fit.
NextFits ==
    EachFits => /\ pc # "crashed"
                /\ index <= MaxMsg
                /\ pc = "copy" => index + PairLen(list[index_list + 1]) <= MaxMsg

LEMMA TypeInit == Init => ServerType /\ NextFits
<1> SUFFICES ASSUME Init PROVE ServerType /\ NextFits
    OBVIOUS
<1>1. list \in Lists /\ pc = "idle" /\ index_list = 0 /\ index = 0
    BY DEF Init
<1>2. Len(list) \in Nat /\ MaxMsg \in Nat
    BY <1>1, ListType, DumpAssumption
<1> QED
    BY <1>1, <1>2 DEF ServerType, NextFits

LEMMA BeginStep == ServerType /\ NextFits /\ Begin => ServerType' /\ NextFits'
<1> SUFFICES ASSUME ServerType, NextFits, Begin PROVE ServerType' /\ NextFits'
    OBVIOUS
<1>1. /\ Len(list) \in Nat /\ LenOf[Decimal[Len(list)]] \in Nat
      /\ LenOf[Decimal[Len(list)]] + 1 <= MaxMsg
    BY ListType DEF ServerType
<1>2. /\ list' = list /\ index_list' = 0 /\ index' = LenOf[Decimal[Len(list)]] + 1
      /\ pc' = IF 0 < Len(list) THEN "copy" ELSE "idle"
    BY DEF Begin, MorePairs
<1>3. ServerType'
    BY <1>1, <1>2 DEF ServerType
<1>4. NextFits'
  <2> SUFFICES ASSUME EachFits'
               PROVE  /\ pc' # "crashed" /\ index' <= MaxMsg
                      /\ pc' = "copy" => index' + PairLen(list'[index_list' + 1]) <= MaxMsg
      BY DEF NextFits, PairLen
  <2>1. list # <<>> => LenOf[Decimal[Len(list)]] + 1 + PairLen(list[1]) <= MaxMsg
      BY <1>2 DEF EachFits, PairLen
  <2> QED
      BY <1>1, <1>2, <2>1
<1> QED
    BY <1>3, <1>4

LEMMA CopyStep == ServerType /\ NextFits /\ Copy => ServerType' /\ NextFits'
<1> SUFFICES ASSUME ServerType, NextFits, Copy PROVE ServerType' /\ NextFits'
    OBVIOUS
<1> DEFINE used == index + PairLen(list[index_list + 1])
<1>1. list \in Lists /\ Len(list) \in Nat /\ index \in Nat /\ index_list \in Nat
    BY ListType DEF ServerType
<1>2. index_list + 1 \in 1..Len(list)
    BY <1>1 DEF ServerType, Copy
<1>3. used \in Nat
    BY <1>1, <1>2, PairLenType
<1>4. /\ list' = list /\ index_list' = index_list + 1 /\ index' = used
      /\ pc' = IF Room(index_list + 1, used) THEN "copy" ELSE "send"
    BY DEF Copy
<1>5. Room(index_list + 1, used) => index_list + 1 < Len(list)
    BY DEF Room
<1>6. ServerType'
    BY <1>1, <1>2, <1>3, <1>4, <1>5 DEF ServerType
<1>7. NextFits'
  <2> SUFFICES ASSUME EachFits'
               PROVE  /\ pc' # "crashed" /\ used <= MaxMsg
                      /\ pc' = "copy" =>
                            used + PairLen(list[index_list + 2]) <= MaxMsg
      BY <1>1, <1>4 DEF NextFits, PairLen
  <2>1. EachFits
      BY <1>4 DEF EachFits, PairLen
  <2>2. used <= MaxMsg
      BY <2>1 DEF NextFits, Copy
  <2>3. ASSUME Room(index_list + 1, used)
        PROVE  used + PairLen(list[index_list + 2]) <= MaxMsg
    <3>1. index_list + 2 \in 1..Len(list)
        BY <1>1, <1>5, <2>3
    <3>2. PairLen(list[index_list + 2]) \in Nat
        BY <1>1, <3>1, PairLenType
    <3>3. (index_list + 1) + 1 = index_list + 2
        BY <1>1
    <3>4. PairLen(list[index_list + 2]) < MaxMsg - used
        BY <1>3, <2>2, <2>3, <3>3, NoWrap DEF Room
    <3> QED
        BY <1>3, <3>2, <3>4, DumpAssumption
  <2> QED
      BY <1>4, <2>2, <2>3
<1> QED
    BY <1>6, <1>7

LEMMA SendStep == ServerType /\ NextFits /\ Send => ServerType' /\ NextFits'
<1> SUFFICES ASSUME ServerType, NextFits, Send PROVE ServerType' /\ NextFits'
    OBVIOUS
<1>1. list \in Lists /\ Len(list) \in Nat /\ index_list \in 0..Len(list) /\ MaxMsg \in Nat
    BY ListType, DumpAssumption DEF ServerType
<1>2. /\ list' = list /\ index_list' = index_list /\ index' = 0
      /\ pc' = IF index_list < Len(list) THEN "copy" ELSE "idle"
    BY DEF Send, Clear, MorePairs
<1>3. ServerType'
    BY <1>1, <1>2 DEF ServerType
<1>4. NextFits'
  <2> SUFFICES ASSUME EachFits'
               PROVE  pc' = "copy" => 0 + PairLen(list[index_list + 1]) <= MaxMsg
      BY <1>1, <1>2 DEF NextFits, PairLen
  <2>1. \A n \in 1..Len(list) : PairLen(list[n]) <= MaxMsg
      BY <1>2 DEF EachFits, PairLen
  <2> HAVE pc' = "copy"
  <2>2. index_list + 1 \in 1..Len(list)
      BY <1>1, <1>2
  <2>3. PairLen(list[index_list + 1]) \in Nat
      BY <1>1, <2>2, PairLenType
  <2> QED
      BY <2>1, <2>2, <2>3
<1> QED
    BY <1>3, <1>4

LEMMA OverflowStep == ServerType /\ NextFits /\ Overflow => ServerType' /\ NextFits'
<1> SUFFICES ASSUME ServerType, NextFits, Overflow PROVE ServerType' /\ NextFits'
    OBVIOUS
<1>1. ServerType'
    BY DEF ServerType, Overflow
<1>2. ~ EachFits
    BY DumpAssumption DEF ServerType, NextFits, Overflow
<1>3. ~ EachFits'
    BY <1>2 DEF EachFits, PairLen, Overflow
<1> QED
    BY <1>1, <1>3 DEF NextFits

\* The server's message is left alone.
LEMMA OtherStep ==
    ServerType /\ NextFits /\ UNCHANGED <<list, pc, index_list, index>> =>
        ServerType' /\ NextFits'
BY DEF ServerType, NextFits, EachFits, PairLen

LEMMA MessageStep == ServerType /\ NextFits /\ [Next]_vars => ServerType' /\ NextFits'
<1> SUFFICES ASSUME ServerType, NextFits, [Next]_vars PROVE ServerType' /\ NextFits'
    OBVIOUS
<1>1. CASE Begin
    BY <1>1, BeginStep
<1>2. CASE BeginNoMemory
    BY <1>2, OtherStep DEF BeginNoMemory
<1>3. CASE Copy
    BY <1>3, CopyStep
<1>4. CASE Overflow
    BY <1>4, OverflowStep
<1>5. CASE Send
    BY <1>5, SendStep
<1>6. CASE Receive
    BY <1>6, OtherStep DEF Receive, server
<1>7. CASE Timeout
    BY <1>7, OtherStep DEF Timeout, server
<1>8. CASE UNCHANGED vars
    BY <1>8, OtherStep DEF vars, server
<1> QED
    BY <1>1, <1>2, <1>3, <1>4, <1>5, <1>6, <1>7, <1>8 DEF Next

(***************************************************************************)
(* serve_dump_node never writes behind the end of its message when each    *)
(* pair fits the message it opens, whatever the number of the pairs.       *)
(***************************************************************************)
THEOREM MessageStays == Spec => []StaysInMessage
<1>1. Init => ServerType /\ NextFits
    BY TypeInit
<1>2. ServerType /\ NextFits /\ [Next]_vars => ServerType' /\ NextFits'
    BY MessageStep
<1>3. NextFits => StaysInMessage
    BY DEF NextFits, StaysInMessage
<1> QED
    BY <1>1, <1>2, <1>3, PTL DEF Spec

----------------------------------------------------------------------------

(***************************************************************************)
(* Lemmas about sequences and maxima.                                      *)
(***************************************************************************)
LEMMA RemovedAt ==
    ASSUME NEW S, NEW s \in Seq(S), NEW n \in 1..Len(s)
    PROVE  /\ RemoveAt(s, n) \in Seq(S) /\ Len(RemoveAt(s, n)) = Len(s) - 1
           /\ \A j \in 1..(Len(s) - 1) : RemoveAt(s, n)[j] = IF j < n THEN s[j] ELSE s[j + 1]
<1> DEFINE a == SubSeq(s, 1, n - 1)
           b == SubSeq(s, n + 1, Len(s))
<1>1. Len(s) \in Nat /\ n \in Nat /\ 1 <= n /\ n <= Len(s)
    OBVIOUS
<1>2. /\ a \in Seq(S) /\ Len(a) = n - 1
      /\ \A j \in 1..(n - 1) : a[j] = s[j]
    BY <1>1, SubSeqProperties
<1>3. /\ b \in Seq(S) /\ Len(b) = Len(s) - n
      /\ \A j \in 1..(Len(s) - n) : b[j] = s[n + j]
    BY <1>1, SubSeqProperties
<1> HIDE DEF a, b
<1> DEFINE c == a \o b
<1>4. /\ c \in Seq(S) /\ Len(c) = Len(a) + Len(b)
      /\ \A j \in 1..(Len(a) + Len(b)) : c[j] = IF j <= Len(a) THEN a[j] ELSE b[j - Len(a)]
    BY <1>2, <1>3, ConcatProperties
<1> HIDE DEF c
<1>5. Len(c) = Len(s) - 1
    BY <1>1, <1>2, <1>3, <1>4
<1>6. ASSUME NEW j \in 1..(Len(s) - 1)
      PROVE  c[j] = IF j < n THEN s[j] ELSE s[j + 1]
  <2>1. j \in 1..(Len(a) + Len(b)) /\ j \in Nat /\ Len(a) = n - 1
      BY <1>1, <1>2, <1>3
  <2>2. CASE j < n
    <3>1. j <= Len(a) /\ j \in 1..(n - 1)
        BY <1>1, <2>1, <2>2
    <3> QED
        BY <1>2, <1>4, <2>1, <2>2, <3>1
  <2>3. CASE ~ (j < n)
    <3>1. ~ (j <= Len(a)) /\ j - Len(a) \in 1..(Len(s) - n) /\ n + (j - Len(a)) = j + 1
        BY <1>1, <2>1, <2>3
    <3> QED
        BY <1>3, <1>4, <2>1, <2>3, <3>1
  <2> QED
      BY <2>2, <2>3
<1> QED
    BY <1>4, <1>5, <1>6 DEF RemoveAt, a, b, c

LEMMA MaxOf ==
    ASSUME NEW S \in SUBSET Nat, NEW top \in Nat, \A y \in S : y <= top, S # {}
    PROVE  Max(S) \in S /\ \A y \in S : y <= Max(S)
<1> DEFINE T == {top - y : y \in S}
<1>1. T \subseteq Nat /\ T # {}
  <2>1. \A y \in S : y \in Nat /\ top - y \in Nat
      OBVIOUS
  <2> QED
      BY <2>1
<1>2. PICK x \in T : \A y \in T : ~ (<<y, x>> \in OpToRel(<, Nat))
    BY <1>1, NatLessThanWellFounded, WFMin
<1>3. \A y \in T : ~ (y < x)
    BY <1>1, <1>2 DEF OpToRel
<1>4. PICK z \in S : x = top - z
    OBVIOUS
<1>5. \A y \in S : z >= y
    BY SMTT(30), <1>3, <1>4
<1> QED
    BY <1>4, <1>5 DEF Max

(***************************************************************************)
(* What dump-node takes from a response: pairs with keys that are not      *)
(* empty, and as many of them as there are and as are missing.             *)
(***************************************************************************)
LEMMA StringAtType ==
    ASSUME NEW response \in Seq(String), NEW n
    PROVE  StringAt(response, n) \in String
BY DumpAssumption DEF StringAt

LEMMA PairsOf ==
    ASSUME NEW response \in Seq(String), NEW start \in Nat, NEW missing \in Nat
    PROVE  LET p == Pairs(response, start, missing)
           IN  /\ p \in Seq(String \X String)
               /\ Len(p) \in Nat /\ Len(p) <= missing
               /\ \A j \in 1..Len(p) :
                     /\ p[j] = <<StringAt(response, start + 2 * (j - 1)),
                                StringAt(response, start + 2 * j - 1)>>
                     /\ StringAt(response, start + 2 * (j - 1)) # Empty
               /\ Len(p) < missing /\ Len(p) < Len(response) =>
                     StringAt(response, start + 2 * Len(p)) = Empty
<1> DEFINE p == Pairs(response, start, missing)
           Loops(n) == n <= missing
                       /\ \A j \in 0..(n - 1) : StringAt(response, start + 2 * j) # Empty
           S == {n \in 0..Len(response) : Loops(n)}
           M == Max(S)
           pair(j) == <<StringAt(response, start + 2 * (j - 1)),
                        StringAt(response, start + 2 * j - 1)>>
<1>1. Len(response) \in Nat
    OBVIOUS
<1>2. Loops(0)
    OBVIOUS
<1>3. S \in SUBSET Nat /\ 0 \in S /\ \A y \in S : y <= Len(response)
    BY <1>1, <1>2
<1>4. M \in S /\ \A y \in S : y <= M
    BY <1>1, <1>3, MaxOf
<1>5. p = [j \in 1..M |-> pair(j)]
    BY DEF Pairs
<1> HIDE DEF M
<1>6. M \in Nat /\ M <= missing /\ M <= Len(response)
      /\ \A j \in 0..(M - 1) : StringAt(response, start + 2 * j) # Empty
    BY <1>1, <1>4
<1>7. \A j \in 1..M : pair(j) \in String \X String
    BY StringAtType
<1> HIDE DEF p
<1>8. p \in Seq(String \X String) /\ Len(p) = M
  <2>1. p \in [1..M -> String \X String]
      BY <1>5, <1>7
  <2> QED
      BY <1>6, <2>1
<1>9. ASSUME NEW j \in 1..M
      PROVE  p[j] = pair(j) /\ StringAt(response, start + 2 * (j - 1)) # Empty
  <2>1. j - 1 \in 0..(M - 1)
      BY <1>6
  <2> QED
      BY <1>5, <1>6, <2>1
<1>10. ASSUME M < missing, M < Len(response)
       PROVE  StringAt(response, start + 2 * M) = Empty
  <2> SUFFICES ASSUME StringAt(response, start + 2 * M) # Empty PROVE FALSE
      OBVIOUS
  <2>1. \A j \in 0..M : StringAt(response, start + 2 * j) # Empty
      BY <1>6
  <2>2. M + 1 \in 0..Len(response) /\ M + 1 <= missing /\ (M + 1) - 1 = M
      BY <1>1, <1>6, <1>10
  <2>3. M + 1 \in S
      BY <2>1, <2>2
  <2> QED
      BY <1>4, <1>6, <2>3
<1> QED
    BY <1>6, <1>8, <1>9, <1>10 DEF p

----------------------------------------------------------------------------

(***************************************************************************)
(* Types.                                                                  *)
(***************************************************************************)
DumpTypes == TypeOK /\ (pc = "send" => msg # <<>>)

LEMMA ListElement ==
    ASSUME NEW l \in Lists, NEW n \in 1..Len(l)
    PROVE  /\ l[n] \in String \X String /\ l[n][1] \in String /\ l[n][2] \in String
           /\ l[n] \in Seq(String) /\ Len(l[n]) = 2
<1>1. l[n] \in String \X String
    BY DumpAssumption, ElementOfSeq
<1>2. PICK x \in String, y \in String : l[n] = <<x, y>>
    BY <1>1
<1>3. <<x, y>> \in Seq(String) /\ Len(<<x, y>>) = 2
    OBVIOUS
<1> QED
    BY <1>1, <1>2, <1>3

LEMMA TypesInit == Init => DumpTypes
<1> SUFFICES ASSUME Init PROVE DumpTypes
    OBVIOUS
<1>1. list \in Lists /\ Len(list) \in Nat
    BY ListType DEF Init
<1>2. requests \in Nat /\ MaxDup \in Nat
    BY DumpAssumption DEF Init
<1>3. dups \in Nat
    BY <1>2 DEF Init
<1>4. /\ pc = "idle" /\ index_list = 0 /\ msg = <<>> /\ index = 0 /\ net = <<>>
      /\ total_kv = 0 /\ nb_kv = 0 /\ printed = <<>> /\ done = FALSE
    BY DEF Init
<1>5. disturbed \in BOOLEAN
    BY DEF Init
<1>6. /\ <<>> \in Seq(String) /\ <<>> \in Seq(Seq(String) \ {<<>>})
      /\ <<>> \in Seq(String \X String) /\ Len(<<>>) = 0
    OBVIOUS
<1>7. msg \in Seq(String) /\ net \in Seq(Seq(String) \ {<<>>})
      /\ printed \in Seq(String \X String) /\ nb_kv = Len(printed)
    BY <1>4, <1>6
<1>8. index_list \in 0..Len(list) /\ index \in Nat /\ total_kv \in Nat /\ nb_kv \in Nat
    BY <1>1, <1>4
<1>9. TypeOK
    BY <1>1, <1>2, <1>3, <1>4, <1>5, <1>7, <1>8 DEF TypeOK
<1> QED
    BY <1>4, <1>9 DEF DumpTypes

\* What Receive takes for the total and what it prints of the message at place n.
TotalOf(n) == IF Counted(net[n]) THEN CHOOSE k \in Scan[Head(net[n])] : TRUE ELSE total_kv

Missing(n) == IF nb_kv < TotalOf(n) THEN TotalOf(n) - nb_kv ELSE 0

NewOf(n) == Pairs(net[n], IF Counted(net[n]) THEN 2 ELSE 1, Missing(n))

LEMMA ReceiveIs ==
    Receive => \E n \in DOMAIN net :
        /\ net' = RemoveAt(net, n) /\ total_kv' = TotalOf(n)
        /\ printed' = printed \o NewOf(n) /\ nb_kv' = nb_kv + Len(NewOf(n))
        /\ disturbed' = (disturbed \/ n # 1)
        /\ ~ done /\ UNCHANGED <<list, server, done, dups>>
BY DEF Receive, TotalOf, Missing, NewOf

\* Send puts a message on the network as often as it arrives.
LEMMA CopiesSent ==
    ASSUME NEW S, NEW s \in Seq(S), NEW m \in S, NEW n \in Nat
    PROVE  /\ s \o [k \in 1..n |-> m] \in Seq(S)
           /\ Len(s \o [k \in 1..n |-> m]) = Len(s) + n
           /\ \A k \in 1..(Len(s) + n) : (s \o [j \in 1..n |-> m])[k] = IF k <= Len(s) THEN s[k] ELSE m
<1> DEFINE t == [k \in 1..n |-> m]
<1>1. t \in Seq(S) /\ Len(t) = n /\ \A k \in 1..n : t[k] = m
    OBVIOUS
<1> HIDE DEF t
<1>2. /\ s \o t \in Seq(S) /\ Len(s \o t) = Len(s) + Len(t) /\ Len(s) \in Nat
      /\ \A k \in 1..(Len(s) + Len(t)) : (s \o t)[k] = IF k <= Len(s) THEN s[k] ELSE t[k - Len(s)]
    BY <1>1, ConcatProperties
<1>3. \A k \in 1..(Len(s) + n) : (s \o t)[k] = IF k <= Len(s) THEN s[k] ELSE m
    BY <1>1, <1>2
<1> QED
    BY <1>1, <1>2, <1>3 DEF t

LEMMA ReceivedType ==
    ASSUME DumpTypes, NEW n \in DOMAIN net
    PROVE  /\ net[n] \in Seq(String) /\ net[n] # <<>> /\ Head(net[n]) \in String
           /\ Scan[Head(net[n])] \in SUBSET Nat
           /\ TotalOf(n) \in Nat /\ Missing(n) \in Nat
           /\ NewOf(n) \in Seq(String \X String) /\ Len(NewOf(n)) \in Nat
<1>1. net[n] \in Seq(String) /\ net[n] # <<>>
    BY ElementOfSeq DEF DumpTypes, TypeOK
<1>2. Head(net[n]) \in String /\ Scan[Head(net[n])] \in SUBSET Nat
    BY <1>1, DumpAssumption
<1>3. TotalOf(n) \in Nat
    BY <1>2 DEF TotalOf, Counted, DumpTypes, TypeOK
<1>4. Missing(n) \in Nat
    BY <1>3 DEF Missing, DumpTypes, TypeOK
<1>5. (IF Counted(net[n]) THEN 2 ELSE 1) \in Nat
    OBVIOUS
<1> HIDE DEF Missing
<1>6. NewOf(n) \in Seq(String \X String) /\ Len(NewOf(n)) \in Nat
    BY <1>1, <1>4, <1>5, PairsOf DEF NewOf
<1> QED
    BY <1>1, <1>2, <1>3, <1>4, <1>6

LEMMA TypesStep == DumpTypes /\ [Next]_vars => DumpTypes'
<1> SUFFICES ASSUME DumpTypes, [Next]_vars PROVE DumpTypes'
    OBVIOUS
<1>1. /\ list \in Lists /\ Len(list) \in Nat /\ index_list \in Nat /\ index_list <= Len(list)
      /\ LenOf[Decimal[Len(list)]] \in Nat /\ Decimal[Len(list)] \in String
    BY ListType, DumpAssumption DEF DumpTypes, TypeOK
<1>2. CASE Begin
    BY <1>1, <1>2 DEF Begin, MorePairs, DumpTypes, TypeOK, client
<1>3. CASE BeginNoMemory
    BY <1>3 DEF BeginNoMemory, DumpTypes, TypeOK, client
<1>4. CASE Copy
  <2>1. index_list + 1 \in 1..Len(list)
      BY <1>1, <1>4 DEF Copy, DumpTypes, TypeOK
  <2>2. list[index_list + 1] \in Seq(String) /\ Len(list[index_list + 1]) = 2
      BY <1>1, <2>1, ListElement
  <2>3. PairLen(list[index_list + 1]) \in Nat
      BY <1>1, <2>1, PairLenType
  <2>4. msg \o list[index_list + 1] \in Seq(String) /\ msg \o list[index_list + 1] # <<>>
    <3> DEFINE pair == list[index_list + 1]
    <3>1. msg \in Seq(String) /\ pair \in Seq(String) /\ Len(pair) = 2
        BY <2>2 DEF DumpTypes, TypeOK
    <3> HIDE DEF pair
    <3>2. ASSUME NEW s \in Seq(String), NEW t \in Seq(String), Len(t) = 2
          PROVE  s \o t \in Seq(String) /\ s \o t # <<>>
        BY <3>2, ConcatProperties
    <3>3. msg \o pair \in Seq(String) /\ msg \o pair # <<>>
        BY <3>1, <3>2
    <3> QED
        BY <3>3 DEF pair
  <2>5. Room(index_list + 1, index') => index_list + 1 < Len(list)
      BY DEF Room
  <2> QED
      BY <1>1, <1>4, <2>1, <2>3, <2>4, <2>5 DEF Copy, DumpTypes, TypeOK, client
<1>5. CASE Overflow
    BY <1>5 DEF Overflow, DumpTypes, TypeOK, client
<1>6. CASE Send
  <2>1. PICK n \in Nat : /\ net' = net \o [k \in 1..n |-> msg]
                         /\ dups' = IF n = 2 THEN dups + 1 ELSE dups
                         /\ disturbed' = (disturbed \/ n # 1)
    <3>1. \A n \in Copies \cup {0} : n \in Nat
        BY DEF Copies
    <3> QED
        BY <1>6, <3>1 DEF Send
  <2>2. msg \in Seq(String) \ {<<>>}
      BY <1>6 DEF Send, DumpTypes, TypeOK
  <2>3. net' \in Seq(Seq(String) \ {<<>>})
      BY <2>1, <2>2, CopiesSent DEF DumpTypes, TypeOK
  <2>4. pc' \in {"copy", "idle"} /\ (pc' = "copy" => index_list < Len(list))
      BY <1>6 DEF Send, MorePairs
  <2>5. dups' \in Nat /\ disturbed' \in BOOLEAN
      BY <2>1 DEF DumpTypes, TypeOK
  <2>6. msg' = <<>> /\ index' = 0 /\ <<>> \in Seq(String)
      BY <1>6 DEF Send, Clear
  <2>7. UNCHANGED <<list, requests, index_list, total_kv, nb_kv, printed, done>>
      BY <1>6 DEF Send, client
  <2> QED
      BY <2>3, <2>4, <2>5, <2>6, <2>7 DEF DumpTypes, TypeOK
<1>7. CASE Receive
  <2>1. PICK n \in DOMAIN net :
          /\ net' = RemoveAt(net, n) /\ total_kv' = TotalOf(n)
          /\ printed' = printed \o NewOf(n) /\ nb_kv' = nb_kv + Len(NewOf(n))
          /\ disturbed' = (disturbed \/ n # 1)
          /\ ~ done /\ UNCHANGED <<list, server, done, dups>>
      BY <1>7, ReceiveIs
  <2>2. TotalOf(n) \in Nat /\ NewOf(n) \in Seq(String \X String) /\ Len(NewOf(n)) \in Nat
      BY ReceivedType
  <2>3. RemoveAt(net, n) \in Seq(Seq(String) \ {<<>>})
    <3>1. net \in Seq(Seq(String) \ {<<>>}) /\ n \in 1..Len(net)
        BY DEF DumpTypes, TypeOK
    <3> QED
        BY <3>1, RemovedAt
  <2>4. printed \o NewOf(n) \in Seq(String \X String) /\ Len(printed \o NewOf(n)) = nb_kv + Len(NewOf(n))
      BY <2>2, ConcatProperties DEF DumpTypes, TypeOK
  <2>5. nb_kv' \in Nat /\ disturbed' \in BOOLEAN
      BY <2>1, <2>2 DEF DumpTypes, TypeOK
  <2> QED
      BY <2>1, <2>2, <2>3, <2>4, <2>5 DEF server, DumpTypes, TypeOK
<1>8. CASE Timeout
    BY <1>8 DEF Timeout, server, DumpTypes, TypeOK
<1>9. CASE UNCHANGED vars
    BY <1>9 DEF vars, server, client, DumpTypes, TypeOK
<1> QED
    BY <1>2, <1>3, <1>4, <1>5, <1>6, <1>7, <1>8, <1>9 DEF Next

\* The types of the server's and the client's variables.
THEOREM DumpTypesStay == Spec => []TypeOK
<1>1. DumpTypes => TypeOK
    BY DEF DumpTypes
<1> QED
    BY TypesInit, TypesStep, <1>1, PTL DEF Spec
----------------------------------------------------------------------------

(***************************************************************************)
(* The inductive invariant of what the client prints.  A message is the    *)
(* count and the pairs 1..b of the list, or its pairs a + 1..b.            *)
(***************************************************************************)
Shift(a) == IF a = 0 THEN 1 ELSE 0

Holds(l, m, a, b) ==
    /\ a <= b /\ Len(m) = Shift(a) + 2 * (b - a)
    /\ a = 0 => m[1] = Decimal[Len(l)]
    /\ \A k \in 1..(b - a) : /\ m[Shift(a) + 2 * k - 1] = l[a + k][1]
                             /\ m[Shift(a) + 2 * k] = l[a + k][2]

\* The message at place n on the network holds the pairs lo[n] + 1..hi[n], and
\* the one being built those from at + 1 on.
Ranges(lo, hi, at) ==
    /\ at <= index_list
    /\ \A n \in DOMAIN net : lo[n] < hi[n] /\ hi[n] <= at /\ Holds(list, net[n], lo[n], hi[n])
    /\ \A n, m \in DOMAIN net : n < m => hi[n] <= lo[m]
    /\ pc \in {"copy", "send"} => Holds(list, msg, at, index_list)
    /\ pc = "send" => at < index_list
    /\ pc = "idle" => at = index_list

\* Before the only request is served nothing has happened.
Fresh ==
    /\ requests <= 1
    /\ requests = 1 => /\ pc = "idle" /\ index_list = 0 /\ net = <<>>
                       /\ printed = <<>> /\ total_kv = 0

\* What is printed is no longer on its way, and so is the count once it is known.
Found(lo, hi, at) ==
    /\ total_kv \in {0, Len(list)} /\ (total_kv = 0 => printed = <<>>)
    /\ total_kv > 0 => at > 0 /\ \A n \in DOMAIN net : lo[n] > 0
    /\ \A p \in 1..Len(printed) : \E k \in 1..at :
          printed[p] = list[k] /\ \A n \in DOMAIN net : ~ (lo[n] < k /\ k <= hi[n])
    /\ \A p, q \in 1..Len(printed) : p # q => printed[p] # printed[q]

\* The messages on their way go on where the printed pairs end, and the one being
\* built where they end.
InOrder(lo, hi, at) ==
    /\ Len(printed) <= at /\ \A p \in 1..Len(printed) : printed[p] = list[p]
    /\ net = <<>> => Len(printed) = at
    /\ net # <<>> => lo[1] = Len(printed) /\ hi[Len(net)] = at
    /\ \A n \in DOMAIN net : n < Len(net) => lo[n + 1] = hi[n]
    /\ total_kv = IF printed = <<>> THEN 0 ELSE Len(list)
    /\ requests = 0 /\ pc = "idle" => index_list = Len(list)
    /\ done => net = <<>> /\ requests = 0 /\ pc = "idle"

Tracked(lo, hi, at) ==
    /\ Ranges(lo, hi, at)
    /\ NoKeyScans => Found(lo, hi, at)
    /\ ~ disturbed /\ EachFits /\ NoKeyEmpty => InOrder(lo, hi, at)

Places == [DOMAIN net -> 0..Len(list)]

DumpInv ==
    /\ DumpTypes /\ NextFits
    /\ ~ disturbed => dups = 0
    /\ dups = 0 => Fresh /\ \E lo, hi \in Places, at \in 0..Len(list) : Tracked(lo, hi, at)

LEMMA ListKept ==
    ASSUME list' = list
    PROVE  /\ EachFits' <=> EachFits
           /\ NoKeyScans' <=> NoKeyScans
           /\ NoKeyEmpty' <=> NoKeyEmpty
BY DEF EachFits, PairLen, NoKeyScans, NoKeyEmpty

(***************************************************************************)
(* What the client takes from a message that holds the pairs a + 1..b.     *)
(***************************************************************************)
LEMMA HeadOf ==
    ASSUME list \in Lists, NEW m \in Seq(String), NEW a \in 0..Len(list), NEW b \in 0..Len(list),
           a < b, Holds(list, m, a, b)
    PROVE  Head(m) = IF a = 0 THEN Decimal[Len(list)] ELSE list[a + 1][1]
<1>1. Len(list) \in Nat /\ a \in Nat /\ b \in Nat
    BY ListType
<1>2. Len(m) = Shift(a) + 2 * (b - a) /\ Len(m) # 0
    BY <1>1 DEF Holds, Shift
<1>3. Head(m) = m[1]
    BY <1>2
<1>4. CASE a = 0
    BY <1>3, <1>4 DEF Holds
<1>5. CASE a # 0
  <2>1. 1 \in 1..(b - a) /\ Shift(a) = 0
      BY <1>1, <1>5 DEF Shift
  <2>2. m[Shift(a) + 2 * 1 - 1] = list[a + 1][1]
      BY <2>1 DEF Holds
  <2>3. Shift(a) + 2 * 1 - 1 = 1
      BY <2>1
  <2> QED
      BY <1>3, <1>5, <2>2, <2>3
<1> QED
    BY <1>4, <1>5

LEMMA TakenPairs ==
    ASSUME list \in Lists, NEW m \in Seq(String), NEW a \in 0..Len(list), NEW b \in 0..Len(list),
           Holds(list, m, a, b), NEW missing \in Nat
    PROVE  LET p == Pairs(m, Shift(a) + 1, missing)
           IN  /\ p \in Seq(String \X String) /\ Len(p) \in Nat
               /\ Len(p) <= b - a /\ Len(p) <= missing
               /\ \A j \in 1..Len(p) : p[j] = list[a + j]
               /\ NoKeyEmpty /\ b - a <= missing => Len(p) = b - a
<1> DEFINE s == Shift(a)
           p == Pairs(m, s + 1, missing)
<1>1. Len(list) \in Nat /\ a \in Nat /\ b \in Nat /\ a <= b /\ s \in Nat
    BY ListType DEF Holds, Shift
<1>2. /\ Len(m) = s + 2 * (b - a) /\ DOMAIN m = 1..Len(m)
      /\ \A k \in 1..(b - a) : m[s + 2 * k - 1] = list[a + k][1] /\ m[s + 2 * k] = list[a + k][2]
    BY DEF Holds
<1> HIDE DEF s
<1>3. /\ p \in Seq(String \X String) /\ Len(p) \in Nat /\ Len(p) <= missing
      /\ \A j \in 1..Len(p) :
            /\ p[j] = <<StringAt(m, (s + 1) + 2 * (j - 1)), StringAt(m, (s + 1) + 2 * j - 1)>>
            /\ StringAt(m, (s + 1) + 2 * (j - 1)) # Empty
      /\ Len(p) < missing /\ Len(p) < Len(m) => StringAt(m, (s + 1) + 2 * Len(p)) = Empty
  <2>1. s + 1 \in Nat
      BY <1>1
  <2> QED
      BY <2>1, PairsOf
<1> HIDE DEF p
<1>4. ASSUME NEW k \in 1..(b - a)
      PROVE  /\ StringAt(m, (s + 1) + 2 * (k - 1)) = list[a + k][1]
             /\ StringAt(m, (s + 1) + 2 * k - 1) = list[a + k][2]
  <2>1. k \in Nat /\ (s + 1) + 2 * (k - 1) = s + 2 * k - 1 /\ (s + 1) + 2 * k - 1 = s + 2 * k
      BY <1>1
  <2> DEFINE l == s + 2 * (b - a)
  <2>2. s + 2 * k - 1 \in 1..l /\ s + 2 * k \in 1..l
      BY <1>1
  <2>3. Len(m) = l
      BY <1>2
  <2> HIDE DEF l
  <2>4. s + 2 * k - 1 \in DOMAIN m /\ s + 2 * k \in DOMAIN m
      BY <1>2, <2>2, <2>3
  <2> QED
      BY <1>2, <2>1, <2>4 DEF StringAt
<1>5. Len(p) <= b - a
  <2> SUFFICES ASSUME Len(p) > b - a PROVE FALSE
      BY <1>1, <1>3
  <2> DEFINE j == (b - a) + 1
  <2>1. j \in 1..Len(p) /\ j - 1 = b - a
      BY <1>1, <1>3
  <2>2. (s + 1) + 2 * (j - 1) = Len(m) + 1 /\ Len(m) \in Nat
      BY <1>1, <1>2, <2>1
  <2>3. StringAt(m, (s + 1) + 2 * (j - 1)) = Empty
      BY <1>2, <2>2 DEF StringAt
  <2> QED
      BY <1>3, <2>1, <2>3
<1>6. ASSUME NEW j \in 1..Len(p) PROVE p[j] = list[a + j]
  <2>1. j \in 1..(b - a) /\ a + j \in 1..Len(list)
      BY <1>1, <1>3, <1>5
  <2>2. list[a + j] = <<list[a + j][1], list[a + j][2]>>
    <3>1. list[a + j] \in String \X String
        BY <2>1, ListElement
    <3> QED
        BY <3>1
  <2> QED
      BY <1>3, <1>4, <2>1, <2>2
<1>7. ASSUME NoKeyEmpty, b - a <= missing, Len(p) # b - a PROVE FALSE
  <2> DEFINE k == Len(p) + 1
  <2>1. Len(p) \in Nat /\ Len(p) <= b - a
      BY <1>3, <1>5
  <2>2. Len(p) # b - a
      BY <1>7
  <2>3. Len(p) \in Nat /\ Len(p) < b - a
      BY <1>1, <2>1, <2>2
  <2>4. k \in 1..(b - a) /\ k - 1 = Len(p)
    <3>1. Len(p) \in Nat /\ Len(p) < b - a /\ a \in Nat /\ b \in Nat
        BY <1>1, <2>3
    <3> QED
        BY <3>1
  <2>5. a + k \in 1..Len(list)
      BY <1>1, <2>4
  <2>6. Len(p) < missing /\ Len(p) < Len(m)
      BY <1>1, <1>2, <1>3, <1>7, <2>3
  <2>7. StringAt(m, (s + 1) + 2 * (k - 1)) = Empty
      BY <1>3, <2>4, <2>6
  <2>8. list[a + k][1] = Empty
      BY <1>4, <2>4, <2>7
  <2> QED
      BY <1>7, <2>5, <2>8 DEF NoKeyEmpty
<1> QED
    BY <1>3, <1>5, <1>6, <1>7 DEF p, s

(***************************************************************************)
(* The steps.  Each lemma takes a tracking of the messages to the one of   *)
(* the next state.                                                         *)
(***************************************************************************)
LEMMA InvInit == Init => DumpInv
<1> SUFFICES ASSUME Init PROVE DumpInv
    OBVIOUS
<1>1. DumpTypes /\ NextFits
    BY TypesInit, TypeInit
<1>2. /\ list \in Lists /\ Len(list) \in Nat
      /\ pc = "idle" /\ index_list = 0 /\ net = <<>> /\ total_kv = 0 /\ printed = <<>>
      /\ requests \in 0..(1 + MaxDup) /\ MaxDup \in Nat
      /\ dups = IF requests > 1 THEN requests - 1 ELSE 0
      /\ disturbed = (requests # 1) /\ done = FALSE
    BY ListType, DumpAssumption DEF Init
<1>3. (~ disturbed => dups = 0) /\ (dups = 0 => Fresh)
  <2>1. ~ disturbed => requests = 1
      BY <1>2
  <2>2. requests \in Nat /\ (dups = 0 => requests <= 1)
      BY <1>2
  <2> QED
      BY <1>2, <2>1, <2>2 DEF Fresh
<1> DEFINE none == [n \in DOMAIN net |-> 0]
<1>4. none \in Places /\ 0 \in 0..Len(list)
    BY <1>2 DEF Places
<1>5. DOMAIN net = {} /\ Len(net) = 0 /\ Len(printed) = 0
    BY <1>2
<1>6. Ranges(none, none, 0)
    BY <1>2, <1>5 DEF Ranges
<1>7. Found(none, none, 0)
    BY <1>2, <1>5 DEF Found
<1>8. ASSUME ~ disturbed PROVE InOrder(none, none, 0)
  <2>1. requests = 1
      BY <1>2, <1>8
  <2> QED
      BY <1>2, <1>5, <2>1 DEF InOrder
<1>9. Tracked(none, none, 0)
    BY <1>6, <1>7, <1>8 DEF Tracked
<1> QED
    BY <1>1, <1>3, <1>4, <1>9 DEF DumpInv

LEMMA BeginTracked ==
    ASSUME DumpInv, Begin, dups = 0, NEW lo \in Places, NEW hi \in Places, NEW at \in 0..Len(list),
           Tracked(lo, hi, at)
    PROVE  \E l, h \in Places', t \in 0..Len(list') : Tracked(l, h, t)'
<1>1. /\ list \in Lists /\ Len(list) \in Nat /\ Decimal[Len(list)] \in String
      /\ requests \in Nat /\ Fresh
    BY ListType, DumpAssumption DEF DumpInv, DumpTypes, TypeOK
<1>2. /\ requests = 1 /\ requests' = 0 /\ msg' = <<Decimal[Len(list)]>> /\ index_list' = 0
      /\ pc' = IF 0 < Len(list) THEN "copy" ELSE "idle"
      /\ UNCHANGED <<list, net, total_kv, printed, done, disturbed>>
    BY <1>1 DEF Begin, MorePairs, Fresh, client
<1>3. net = <<>> /\ printed = <<>> /\ total_kv = 0 /\ index_list = 0 /\ pc = "idle"
    BY <1>1, <1>2 DEF Fresh
<1>4. DOMAIN net' = {} /\ Len(net') = 0 /\ Len(printed') = 0
    BY <1>2, <1>3
<1>5. lo \in Places' /\ hi \in Places' /\ 0 \in 0..Len(list')
    BY <1>1, <1>2 DEF Places
<1>6. Holds(list, msg, 0, index_list)'
  <2>1. Len(msg') = 1 /\ msg'[1] = Decimal[Len(list)]
      BY <1>1, <1>2
  <2> QED
      BY <1>2, <2>1 DEF Holds, Shift
<1>7. Ranges(lo, hi, 0)'
    BY <1>2, <1>4, <1>6 DEF Ranges
<1>8. Found(lo, hi, 0)'
    BY <1>2, <1>3, <1>4 DEF Found
<1>9. ASSUME ~ disturbed', EachFits', NoKeyEmpty' PROVE InOrder(lo, hi, 0)'
  <2>1. InOrder(lo, hi, at)
      BY <1>2, <1>9, ListKept DEF Tracked
  <2>2. done' = FALSE
      BY <1>2, <2>1 DEF InOrder, DumpInv, DumpTypes, TypeOK
  <2> QED
      BY <1>1, <1>2, <1>3, <1>4, <2>2 DEF InOrder
<1>10. Tracked(lo, hi, 0)'
    BY <1>7, <1>8, <1>9 DEF Tracked
<1> QED
    BY <1>5, <1>10

LEMMA CopyTracked ==
    ASSUME DumpInv, Copy, dups = 0, NEW lo \in Places, NEW hi \in Places, NEW at \in 0..Len(list),
           Tracked(lo, hi, at)
    PROVE  \E l, h \in Places', t \in 0..Len(list') : Tracked(l, h, t)'
<1> DEFINE pair == list[index_list + 1]
<1>1. /\ list \in Lists /\ Len(list) \in Nat /\ msg \in Seq(String)
      /\ index_list \in Nat /\ index_list < Len(list)
    BY ListType DEF Copy, DumpInv, DumpTypes, TypeOK
<1>2. /\ pc = "copy" /\ pc' \in {"copy", "send"} /\ index_list' = index_list + 1 /\ msg' = msg \o pair
      /\ UNCHANGED <<list, requests, net, total_kv, printed, done, disturbed>>
    BY DEF Copy, client
<1>3. pair \in Seq(String) /\ Len(pair) = 2
    BY <1>1, ListElement
<1> HIDE DEF pair
<1>4. at \in Nat /\ at <= index_list /\ Holds(list, msg, at, index_list)
    BY <1>1, <1>2 DEF Tracked, Ranges
<1>5. Holds(list, msg, at, index_list)'
  <2> DEFINE s == Shift(at)
             w == index_list - at
  <2>1. s \in Nat /\ w \in Nat /\ Len(msg) = s + 2 * w
      BY <1>1, <1>4 DEF Holds, Shift
  <2>2. /\ Len(msg') = s + 2 * w + 2
        /\ \A j \in 1..(s + 2 * w) : msg'[j] = msg[j]
        /\ msg'[s + 2 * w + 1] = pair[1] /\ msg'[s + 2 * w + 2] = pair[2]
    <3>1. /\ Len(msg') = Len(msg) + Len(pair)
          /\ \A j \in 1..(Len(msg) + Len(pair)) :
                msg'[j] = IF j <= Len(msg) THEN msg[j] ELSE pair[j - Len(msg)]
        BY <1>1, <1>2, <1>3, ConcatProperties
    <3> HIDE DEF s, w
    <3>2. \A j \in 1..(s + 2 * w) : j <= Len(msg) /\ j \in 1..(Len(msg) + Len(pair))
        BY <1>3, <2>1
    <3>3. \A j \in 1..(s + 2 * w) : msg'[j] = msg[j]
        BY <3>1, <3>2
    <3>4. msg'[s + 2 * w + 1] = pair[1] /\ msg'[s + 2 * w + 2] = pair[2]
      <4> DEFINE x == s + 2 * w + 1
                 y == s + 2 * w + 2
      <4>1. /\ x \in 1..(Len(msg) + Len(pair)) /\ ~ (x <= Len(msg)) /\ x - Len(msg) = 1
            /\ y \in 1..(Len(msg) + Len(pair)) /\ ~ (y <= Len(msg)) /\ y - Len(msg) = 2
          BY <1>3, <2>1
      <4> HIDE DEF x, y
      <4>2. msg'[x] = pair[1] /\ msg'[y] = pair[2]
          BY <3>1, <4>1
      <4> QED
          BY <4>2 DEF x, y
    <3> QED
        BY <1>3, <2>1, <3>1, <3>3, <3>4
  <2>3. at = 0 => msg'[1] = Decimal[Len(list)]
    <3> SUFFICES ASSUME at = 0 PROVE msg'[1] = Decimal[Len(list)]
        OBVIOUS
    <3>1. 1 \in 1..(s + 2 * w)
        BY <2>1 DEF Shift
    <3> QED
        BY <1>4, <2>2, <3>1 DEF Holds
  <2>4. ASSUME NEW k \in 1..(w + 1)
        PROVE  msg'[s + 2 * k - 1] = list[at + k][1] /\ msg'[s + 2 * k] = list[at + k][2]
    <3>1. CASE k = w + 1
      <4>1. s + 2 * k - 1 = s + 2 * w + 1 /\ s + 2 * k = s + 2 * w + 2 /\ at + k = index_list + 1
          BY <1>1, <1>4, <2>1, <3>1
      <4> QED
          BY <2>2, <4>1 DEF pair
    <3>2. CASE k # w + 1
      <4>1. k \in 1..w /\ s + 2 * k - 1 \in 1..(s + 2 * w) /\ s + 2 * k \in 1..(s + 2 * w)
          BY <2>1, <3>2
      <4>2. msg[s + 2 * k - 1] = list[at + k][1] /\ msg[s + 2 * k] = list[at + k][2]
          BY <1>4, <4>1 DEF Holds
      <4> QED
          BY <2>2, <4>1, <4>2
    <3> QED
        BY <3>1, <3>2
  <2> HIDE DEF s
  <2>5. index_list' - at = w + 1 /\ at <= index_list' /\ Len(msg') = s + 2 * (w + 1)
    <3>1. index_list' - at = w + 1 /\ at <= index_list'
        BY <1>1, <1>2, <1>4
    <3> HIDE DEF w
    <3>2. Len(msg') = s + 2 * (w + 1)
        BY <2>1, <2>2
    <3> QED
        BY <3>1, <3>2
  <2>6. Shift(at)' = s
      BY DEF s, Shift
  <2> HIDE DEF w
  <2> QED
      BY <1>2, <2>3, <2>4, <2>5, <2>6 DEF Holds
<1>6. Ranges(lo, hi, at)'
  <2>1. ASSUME NEW n \in DOMAIN net
        PROVE  lo[n] < hi[n] /\ hi[n] <= at /\ Holds(list, net[n], lo[n], hi[n])'
      BY <1>2 DEF Tracked, Ranges
  <2>2. at <= index_list' /\ at < index_list'
      BY <1>1, <1>2, <1>4
  <2> QED
      BY <1>2, <1>5, <2>1, <2>2 DEF Tracked, Ranges
<1>7. ASSUME NoKeyScans' PROVE Found(lo, hi, at)'
    BY SMTT(30), <1>2, <1>7, ListKept DEF Tracked, Found
<1>8. ASSUME ~ disturbed', EachFits', NoKeyEmpty' PROVE InOrder(lo, hi, at)'
    BY <1>2, <1>8, ListKept DEF Tracked, InOrder
<1>9. Tracked(lo, hi, at)'
    BY <1>6, <1>7, <1>8 DEF Tracked
<1>10. lo \in Places' /\ hi \in Places' /\ at \in 0..Len(list')
    BY <1>2 DEF Places
<1> QED
    BY <1>9, <1>10

\* A step that leaves the messages and what is printed alone.
LEMMA QuietTracked ==
    ASSUME DumpInv, NEW lo \in Places, NEW hi \in Places, NEW at \in 0..Len(list),
           Tracked(lo, hi, at),
           UNCHANGED <<list, index_list, msg, net, total_kv, printed>>,
           pc' \in {pc, "crashed"},
           ~ disturbed' /\ EachFits =>
              /\ ~ disturbed /\ requests' = requests /\ pc' = pc
              /\ done' => done \/ (net = <<>> /\ requests = 0 /\ pc = "idle")
    PROVE  \E l, h \in Places', t \in 0..Len(list') : Tracked(l, h, t)'
<1>1. Ranges(lo, hi, at)'
  <2>1. ASSUME NEW n \in DOMAIN net
        PROVE  lo[n] < hi[n] /\ hi[n] <= at /\ Holds(list, net[n], lo[n], hi[n])'
      BY DEF Tracked, Ranges
  <2>2. Holds(list, msg, at, index_list)' <=> Holds(list, msg, at, index_list)
      BY DEF Holds, Shift
  <2> QED
      BY <2>1, <2>2 DEF Tracked, Ranges
<1>2. ASSUME NoKeyScans' PROVE Found(lo, hi, at)'
    BY <1>2, ListKept DEF Tracked, Found
<1>3. ASSUME ~ disturbed', EachFits', NoKeyEmpty' PROVE InOrder(lo, hi, at)'
    BY <1>3, ListKept DEF Tracked, InOrder
<1>4. Tracked(lo, hi, at)'
    BY <1>1, <1>2, <1>3 DEF Tracked
<1>5. lo \in Places' /\ hi \in Places' /\ at \in 0..Len(list')
    BY DEF Places
<1> QED
    BY <1>4, <1>5

\* A message is sent, and does not arrive twice.
LEMMA SendTracked ==
    ASSUME DumpInv, Send, dups' = 0, NEW lo \in Places, NEW hi \in Places, NEW at \in 0..Len(list),
           Tracked(lo, hi, at)
    PROVE  \E l, h \in Places', t \in 0..Len(list') : Tracked(l, h, t)'
<1>1. /\ list \in Lists /\ Len(list) \in Nat /\ msg \in Seq(String) \ {<<>>}
      /\ net \in Seq(Seq(String) \ {<<>>}) /\ dups \in Nat
      /\ index_list \in Nat /\ index_list <= Len(list)
      /\ DOMAIN net = 1..Len(net) /\ Len(net) \in Nat
    BY ListType DEF Send, DumpInv, DumpTypes, TypeOK
<1>2. /\ pc = "send" /\ index_list' = index_list
      /\ pc' = IF index_list < Len(list) THEN "copy" ELSE "idle"
      /\ msg' = <<>>
      /\ UNCHANGED <<list, requests, total_kv, printed, done>>
    BY DEF Send, Clear, MorePairs, client
<1>3. PICK n \in {0, 1} : net' = net \o [k \in 1..n |-> msg] /\ (n = 0 => disturbed')
                          /\ (disturbed => disturbed')
  <2>1. PICK n \in {0, 1, 2} : /\ net' = net \o [k \in 1..n |-> msg]
                               /\ dups' = IF n = 2 THEN dups + 1 ELSE dups
                               /\ disturbed' = (disturbed \/ n # 1)
    <3>1. Copies \cup {0} \subseteq {0, 1, 2}
        BY DEF Copies
    <3> QED
        BY <3>1 DEF Send
  <2>2. n # 2
      BY <1>1, <2>1
  <2>3. n \in {0, 1} /\ (n = 0 => n # 1)
      BY <2>2
  <2>4. (n = 0 => disturbed') /\ (disturbed => disturbed')
      BY <2>1, <2>3
  <2> QED
      BY <2>1, <2>3, <2>4
<1>4. /\ at \in Nat /\ at < index_list /\ Holds(list, msg, at, index_list)
      /\ \A k \in DOMAIN net : /\ lo[k] < hi[k] /\ hi[k] <= at /\ Holds(list, net[k], lo[k], hi[k])
                               /\ lo[k] \in 0..Len(list) /\ hi[k] \in 0..Len(list)
      /\ \A k, m \in DOMAIN net : k < m => hi[k] <= lo[m]
    BY <1>1, <1>2 DEF Tracked, Ranges, Places
<1>5. PICK e \in 0..Len(list) : e = index_list /\ e = index_list' /\ e # 0 /\ at < e
    BY <1>1, <1>2, <1>4
\* What the next message starts with, if there is one.
<1>6. Holds(list, msg, e, index_list)'
  <2>1. Shift(e) = 0 /\ e \in Nat /\ index_list' - e = 0 /\ Len(msg') = 0
      BY <1>1, <1>2, <1>5 DEF Shift
  <2> QED
      BY <1>5, <2>1 DEF Holds, Shift
<1>7. CASE n = 0
  <2>1. net' = net /\ disturbed'
      BY <1>1, <1>3, <1>7, ConcatProperties, CopiesSent
  <2>2. Ranges(lo, hi, e)'
    <3>1. \A k \in DOMAIN net : lo[k] < hi[k] /\ hi[k] <= e /\ Holds(list, net[k], lo[k], hi[k])'
        BY <1>1, <1>2, <1>4, <1>5, <2>1
    <3> QED
        BY <1>1, <1>2, <1>4, <1>5, <1>6, <2>1, <3>1 DEF Ranges
  <2>3. ASSUME NoKeyScans' PROVE Found(lo, hi, e)'
    <3>1. Found(lo, hi, at)
        BY <1>2, <2>3, ListKept DEF Tracked
    <3>2. \A k \in 1..at : k \in 1..e
        BY <1>4, <1>5
    <3> QED
        BY <1>2, <1>4, <1>5, <2>1, <3>1, <3>2 DEF Found
  <2>4. Tracked(lo, hi, e)'
      BY <2>1, <2>2, <2>3 DEF Tracked
  <2>5. lo \in Places' /\ hi \in Places' /\ e \in 0..Len(list')
      BY <1>2, <2>1 DEF Places
  <2> QED
      BY <2>4, <2>5
<1>8. CASE n = 1
  <2> PICK w \in Nat : w = Len(net) + 1
      BY <1>1
  <2>1. w = Len(net) + 1 /\ w \in Nat /\ (\A k \in 1..w : k < w => k \in DOMAIN net) /\ w \in 1..w
        /\ \A k \in 1..w : ~ (k < w) => k = w
      BY <1>1
  <2>2. /\ net' \in Seq(Seq(String) \ {<<>>}) /\ Len(net') = w /\ DOMAIN net' = 1..w
        /\ \A k \in 1..w : net'[k] = IF k < w THEN net[k] ELSE msg
    <3>1. /\ net' \in Seq(Seq(String) \ {<<>>}) /\ Len(net') = Len(net) + n
          /\ \A k \in 1..(Len(net) + n) : net'[k] = IF k <= Len(net) THEN net[k] ELSE msg
        BY <1>1, <1>3, CopiesSent
    <3>2. Len(net) + n = w /\ \A k \in 1..w : k <= Len(net) <=> k < w
        BY <1>1, <1>8
    <3> QED
        BY <3>1, <3>2
  <2>3. \A k \in 1..w : /\ (IF k < w THEN lo[k] ELSE at) \in 0..Len(list)
                         /\ (IF k < w THEN hi[k] ELSE e) \in 0..Len(list)
      BY <1>4, <1>5, <2>1
  <2>4. PICK l \in [1..w -> 0..Len(list)], h \in [1..w -> 0..Len(list)] :
          \A k \in 1..w : /\ l[k] = (IF k < w THEN lo[k] ELSE at)
                          /\ h[k] = (IF k < w THEN hi[k] ELSE e)
    <3> DEFINE f == [k \in 1..w |-> IF k < w THEN lo[k] ELSE at]
               g == [k \in 1..w |-> IF k < w THEN hi[k] ELSE e]
    <3>1. f \in [1..w -> 0..Len(list)] /\ g \in [1..w -> 0..Len(list)]
        BY <2>3
    <3>2. \A k \in 1..w : /\ f[k] = (IF k < w THEN lo[k] ELSE at)
                           /\ g[k] = (IF k < w THEN hi[k] ELSE e)
        OBVIOUS
    <3> HIDE DEF f, g
    <3> QED
        BY <3>1, <3>2
  <2>5. l \in Places' /\ h \in Places' /\ e \in 0..Len(list')
      BY <1>2, <2>2, <2>4 DEF Places
  <2>6. ASSUME NEW k \in 1..w
        PROVE  l[k] < h[k] /\ h[k] <= e /\ Holds(list, net[k], l[k], h[k])'
    <3>1. CASE k < w
      <4>1. k \in DOMAIN net /\ net'[k] = net[k] /\ l[k] = lo[k] /\ h[k] = hi[k]
          BY <2>1, <2>2, <2>4, <3>1
      <4>2. lo[k] < hi[k] /\ hi[k] <= at /\ at < e /\ Holds(list, net[k], lo[k], hi[k])
            /\ lo[k] \in Nat /\ hi[k] \in Nat /\ at \in Nat /\ e \in Nat
          BY <1>1, <1>4, <1>5, <4>1
      <4>3. Holds(list, net[k], l[k], h[k])'
          BY <1>2, <4>1, <4>2
      <4> QED
          BY <4>1, <4>2, <4>3
    <3>2. CASE ~ (k < w)
      <4>1. net'[k] = msg /\ l[k] = at /\ h[k] = e
          BY <2>2, <2>4, <3>2
      <4>2. Holds(list, net[k], l[k], h[k])'
          BY <1>2, <1>4, <1>5, <4>1
      <4> QED
          BY <1>1, <1>4, <1>5, <4>1, <4>2
    <3> QED
        BY <3>1, <3>2
  <2>7. ASSUME NEW k \in 1..w, NEW m \in 1..w, k < m PROVE h[k] <= l[m]
    <3>1. k < w /\ k \in DOMAIN net /\ h[k] = hi[k]
        BY <2>1, <2>4, <2>7
    <3> QED
        BY <1>4, <2>1, <2>4, <2>7, <3>1
  <2>8. Ranges(l, h, e)'
      BY SMTT(30), <1>2, <1>5, <1>6, <2>2, <2>6, <2>7 DEF Ranges
  <2>9. ASSUME NoKeyScans' PROVE Found(l, h, e)'
    <3>1. Found(lo, hi, at)
        BY <1>2, <2>9, ListKept DEF Tracked
    <3>2. total_kv' > 0 => e > 0 /\ \A k \in 1..w : l[k] > 0
        BY <1>2, <1>4, <1>5, <2>1, <2>4, <3>1 DEF Found
    <3>3. ASSUME NEW p \in 1..Len(printed)
          PROVE  \E j \in 1..e : printed[p] = list[j] /\ \A k \in 1..w : ~ (l[k] < j /\ j <= h[k])
      <4>1. PICK j \in 1..at : /\ printed[p] = list[j]
                               /\ \A k \in DOMAIN net : ~ (lo[k] < j /\ j <= hi[k])
          BY <3>1, <3>3 DEF Found
      <4>2. j \in 1..e /\ ~ (at < j)
          BY <1>4, <1>5, <4>1
      <4>3. \A k \in 1..w : ~ (l[k] < j /\ j <= h[k])
          BY <2>1, <2>4, <4>1, <4>2
      <4> QED
          BY <4>1, <4>2, <4>3
    <3> QED
        BY <1>2, <1>5, <2>2, <3>1, <3>2, <3>3 DEF Found
  <2>10. ASSUME ~ disturbed', EachFits', NoKeyEmpty' PROVE InOrder(l, h, e)'
    <3>1. InOrder(lo, hi, at) /\ done = FALSE
      <4>1. InOrder(lo, hi, at)
          BY <1>2, <1>3, <2>10, ListKept DEF Tracked
      <4>2. ~ done
          BY <1>2, <4>1 DEF InOrder
      <4> QED
          BY <4>1, <4>2 DEF DumpInv, DumpTypes, TypeOK
    <3>2. net' # <<>> /\ Len(printed) \in Nat /\ Len(printed) <= e
        BY <1>4, <1>5, <2>1, <2>2, <3>1 DEF InOrder, DumpInv, DumpTypes, TypeOK
    <3>3. l[1] = Len(printed)
      <4>1. CASE net = <<>>
        <5>1. w = 1 /\ l[1] = at
            BY <2>1, <2>4, <4>1
        <5> QED
            BY <3>1, <4>1, <5>1 DEF InOrder
      <4>2. CASE net # <<>>
        <5>1. 1 \in 1..w /\ 1 < w
            BY <1>1, <2>1, <4>2
        <5>2. l[1] = lo[1]
            BY <2>4, <5>1
        <5> QED
            BY <3>1, <4>2, <5>2 DEF InOrder
      <4> QED
          BY <4>1, <4>2
    <3>4. h[w] = e
        BY <2>1, <2>4
    <3>5. ASSUME NEW k \in 1..w, k < w PROVE l[k + 1] = h[k]
      <4>1. k \in DOMAIN net /\ h[k] = hi[k] /\ k + 1 \in 1..w
          BY <2>1, <2>4, <3>5
      <4>2. CASE k + 1 < w
        <5>1. k < Len(net) /\ l[k + 1] = lo[k + 1]
            BY <1>1, <2>4, <4>1, <2>1, <4>2
        <5> QED
            BY <3>1, <4>1, <5>1 DEF InOrder
      <4>3. CASE ~ (k + 1 < w)
        <5>1. k = Len(net) /\ l[k + 1] = at /\ net # <<>>
          <6>1. k + 1 = w /\ k = Len(net) /\ Len(net) # 0
            <7>1. k \in Nat /\ w \in Nat /\ k < w /\ ~ (k + 1 < w) /\ 1 <= k
                BY <2>1, <3>5, <4>3
            <7>2. w = Len(net) + 1 /\ Len(net) \in Nat
                BY <1>1, <2>1
            <7>3. k + 1 = w
                BY <7>1
            <7> QED
                BY <7>1, <7>2, <7>3
          <6>2. l[k + 1] = at
              BY <2>4, <4>1, <6>1
          <6> QED
              BY <6>1, <6>2
        <5> QED
            BY <3>1, <4>1, <5>1 DEF InOrder
      <4> QED
          BY <4>2, <4>3
    <3>6. requests' = 0 /\ pc' = "idle" => index_list' = Len(list')
        BY <1>1, <1>2
    <3> QED
        BY <1>2, <1>5, <2>2, <3>1, <3>2, <3>3, <3>4, <3>5, <3>6 DEF InOrder
  <2>11. Tracked(l, h, e)'
      BY <2>8, <2>9, <2>10 DEF Tracked
  <2> QED
      BY <2>11, <2>5
<1> QED
    BY <1>7, <1>8

(***************************************************************************)
(* A message is received.  What is printed of one that holds the pairs     *)
(* a + 1..b are the first of them, if any.                                 *)
(***************************************************************************)
LEMMA ReceivedFrom ==
    ASSUME DumpInv, NEW n \in DOMAIN net, NEW a \in 0..Len(list), NEW b \in 0..Len(list),
           a < b, Holds(list, net[n], a, b),
           Counted(net[n]) <=> a = 0
    PROVE  /\ TotalOf(n) = IF a = 0 THEN Len(list) ELSE total_kv
           /\ Len(NewOf(n)) \in Nat /\ Len(NewOf(n)) <= b - a /\ Len(NewOf(n)) <= Missing(n)
           /\ \A j \in 1..Len(NewOf(n)) : NewOf(n)[j] = list[a + j]
           /\ NoKeyEmpty /\ b - a <= Missing(n) => Len(NewOf(n)) = b - a
<1>1. list \in Lists /\ net[n] \in Seq(String) /\ Missing(n) \in Nat /\ DumpTypes
    BY ReceivedType DEF DumpInv, DumpTypes, TypeOK
<1>2. TotalOf(n) = IF a = 0 THEN Len(list) ELSE total_kv
  <2>1. CASE a = 0
    <3>1. Head(net[n]) = Decimal[Len(list)]
        BY <1>1, <2>1, HeadOf
    <3>2. Scan[Head(net[n])] = {Len(list)}
        BY <1>1, <3>1, DumpAssumption
    <3> QED
        BY <2>1, <3>2 DEF TotalOf
  <2>2. CASE a # 0
      BY <2>2 DEF TotalOf
  <2> QED
      BY <2>1, <2>2
<1>3. (IF Counted(net[n]) THEN 2 ELSE 1) = Shift(a) + 1
    BY DEF Shift
<1>4. NewOf(n) = Pairs(net[n], Shift(a) + 1, Missing(n))
    BY <1>3 DEF NewOf
<1> HIDE DEF Missing
<1> DEFINE p == NewOf(n)
<1>5. /\ Len(p) \in Nat /\ Len(p) <= b - a /\ Len(p) <= Missing(n)
      /\ \A j \in 1..Len(p) : p[j] = list[a + j]
      /\ NoKeyEmpty /\ b - a <= Missing(n) => Len(p) = b - a
    BY <1>1, <1>4, TakenPairs
<1> QED
    BY <1>2, <1>5

LEMMA ReceiveTracked ==
    ASSUME DumpInv, Receive, NEW lo \in Places, NEW hi \in Places, NEW at \in 0..Len(list),
           Tracked(lo, hi, at)
    PROVE  \E l, h \in Places', t \in 0..Len(list') : Tracked(l, h, t)'
<1>1. PICK n \in DOMAIN net :
          /\ net' = RemoveAt(net, n) /\ total_kv' = TotalOf(n)
          /\ printed' = printed \o NewOf(n) /\ nb_kv' = nb_kv + Len(NewOf(n))
          /\ disturbed' = (disturbed \/ n # 1)
          /\ ~ done /\ UNCHANGED <<list, server, done, dups>>
    BY ReceiveIs
<1>2. /\ list \in Lists /\ Len(list) \in Nat /\ at \in Nat /\ at <= Len(list)
      /\ net \in Seq(Seq(String) \ {<<>>}) /\ DOMAIN net = 1..Len(net) /\ Len(net) \in Nat
      /\ printed \in Seq(String \X String) /\ nb_kv = Len(printed) /\ nb_kv \in Nat /\ total_kv \in Nat
      /\ net[n] \in Seq(String) /\ Scan[Head(net[n])] \in SUBSET Nat
      /\ Missing(n) \in Nat /\ TotalOf(n) \in Nat
      /\ NewOf(n) \in Seq(String \X String) /\ Len(NewOf(n)) \in Nat
    BY ListType, ReceivedType DEF DumpInv, DumpTypes, TypeOK
<1>3. /\ UNCHANGED <<list, requests, pc, index_list, msg, index, done>>
    BY <1>1 DEF server
<1>4. /\ Ranges(lo, hi, at)
      /\ \A k \in DOMAIN net : /\ lo[k] \in Nat /\ hi[k] \in Nat /\ lo[k] < hi[k] /\ hi[k] <= at
                               /\ lo[k] \in 0..Len(list) /\ hi[k] \in 0..Len(list)
                               /\ Holds(list, net[k], lo[k], hi[k])
      /\ \A k, m \in DOMAIN net : k < m => hi[k] <= lo[m]
    BY SMTT(30), <1>2 DEF Tracked, Ranges, Places
\* The places of the other messages.
<1>5. PICK w \in Nat : w = Len(net) - 1
    BY <1>2
<1>6. PICK f \in [1..w -> DOMAIN net] :
          /\ \A k \in 1..w : f[k] # n /\ f[k] = IF k < n THEN k ELSE k + 1
          /\ \A k, m \in 1..w : k < m => f[k] < f[m]
  <2>1. \A k \in 1..w : (IF k < n THEN k ELSE k + 1) \in DOMAIN net
      BY <1>2, <1>5
  <2> DEFINE g == [k \in 1..w |-> IF k < n THEN k ELSE k + 1]
  <2>2. g \in [1..w -> DOMAIN net]
      BY <2>1
  <2>3. \A k \in 1..w : g[k] # n /\ g[k] = IF k < n THEN k ELSE k + 1
      BY <1>2
  <2>4. \A k, m \in 1..w : k < m => g[k] < g[m]
      BY <1>2
  <2> QED
      BY <2>2, <2>3, <2>4
<1>7. /\ net' \in Seq(Seq(String) \ {<<>>}) /\ Len(net') = w /\ DOMAIN net' = 1..w
      /\ \A k \in 1..w : net'[k] = net[f[k]]
  <2>1. /\ RemoveAt(net, n) \in Seq(Seq(String) \ {<<>>}) /\ Len(RemoveAt(net, n)) = Len(net) - 1
        /\ \A j \in 1..(Len(net) - 1) : RemoveAt(net, n)[j] = IF j < n THEN net[j] ELSE net[j + 1]
    <3>1. net \in Seq(Seq(String) \ {<<>>}) /\ n \in 1..Len(net)
        BY <1>2
    <3> QED
        BY <3>1, RemovedAt
  <2>2. \A k \in 1..w : net'[k] = net[f[k]]
      BY <1>1, <1>5, <1>6, <2>1
  <2> QED
      BY SMTT(30), <1>1, <1>5, <2>1, <2>2
<1>8. PICK l \in [1..w -> 0..Len(list)], h \in [1..w -> 0..Len(list)] :
          \A k \in 1..w : l[k] = lo[f[k]] /\ h[k] = hi[f[k]]
  <2>1. [k \in 1..w |-> lo[f[k]]] \in [1..w -> 0..Len(list)]
      BY <1>4, <1>6
  <2>2. [k \in 1..w |-> hi[f[k]]] \in [1..w -> 0..Len(list)]
      BY <1>4, <1>6
  <2> QED
      BY <2>1, <2>2
<1>9. /\ lo[n] \in Nat /\ hi[n] \in Nat /\ lo[n] < hi[n] /\ hi[n] <= at
       /\ at \in Nat /\ at <= Len(list) /\ Len(list) \in Nat
       /\ Holds(list, net[n], lo[n], hi[n])
    BY <1>2, <1>4
<1>10. ASSUME NEW k \in 1..w
       PROVE  /\ l[k] = lo[f[k]] /\ h[k] = hi[f[k]] /\ f[k] \in DOMAIN net
              /\ l[k] \in Nat /\ h[k] \in Nat /\ l[k] < h[k]
              /\ hi[n] <= l[k] \/ h[k] <= lo[n]
  <2>1. /\ l[k] = lo[f[k]] /\ h[k] = hi[f[k]] /\ f[k] \in DOMAIN net /\ f[k] # n
      BY <1>6, <1>8
  <2>2. f[k] \in Nat /\ n \in Nat /\ (f[k] < n \/ n < f[k])
    <3>1. n \in 1..Len(net) /\ f[k] \in 1..Len(net) /\ Len(net) \in Nat
        BY <1>2, <2>1
    <3> QED
        BY <2>1, <3>1
  <2>3. hi[n] <= lo[f[k]] \/ hi[f[k]] <= lo[n]
      BY <1>4, <2>1, <2>2
  <2> QED
      BY <1>4, <2>1, <2>3
<1>11. l \in Places' /\ h \in Places' /\ at \in 0..Len(list')
    BY <1>3, <1>7, <1>8 DEF Places
<1>12. Ranges(l, h, at)'
  <2>1. ASSUME NEW k \in 1..w
        PROVE  l[k] < h[k] /\ h[k] <= at /\ Holds(list, net'[k], l[k], h[k])
      BY <1>4, <1>6, <1>7, <1>8
  <2>2. ASSUME NEW k \in 1..w, NEW m \in 1..w, k < m PROVE h[k] <= l[m]
    <3>1. f[k] \in DOMAIN net /\ f[m] \in DOMAIN net /\ f[k] < f[m]
        BY <1>6, <2>2
    <3> QED
        BY <1>4, <1>8, <3>1
  <2> QED
      BY <1>3, <1>4, <1>7, <2>1, <2>2 DEF Ranges
\* What is printed.
<1> DEFINE new == NewOf(n)
<1>13. /\ Len(printed') = Len(printed) + Len(new) /\ Len(printed) \in Nat
       /\ \A p \in 1..Len(printed') : printed'[p] = IF p <= Len(printed) THEN printed[p] ELSE new[p - Len(printed)]
    BY <1>1, <1>2, ConcatProperties
<1>14. ASSUME NoKeyScans' PROVE Found(l, h, at)'
  <2>1. Found(lo, hi, at) /\ NoKeyScans
      BY <1>3, <1>14, ListKept DEF Tracked
  <2>2. Counted(net[n]) <=> lo[n] = 0
    <3>1. CASE lo[n] = 0
      <4>1. nb_kv = 0
          BY <1>2, <2>1, <3>1 DEF Found
      <4>2. Scan[Head(net[n])] # {}
        <5>1. Head(net[n]) = Decimal[Len(list)]
            BY <1>2, <1>4, <3>1, HeadOf
        <5> QED
            BY <1>2, <5>1, DumpAssumption
      <4> QED
          BY <3>1, <4>1, <4>2 DEF Counted
    <3>2. CASE lo[n] # 0
      <4>1. Head(net[n]) = list[lo[n] + 1][1]
          BY <1>2, <1>4, <3>2, HeadOf
      <4>2. lo[n] + 1 \in 1..Len(list)
          BY <1>9
      <4>3. Scan[Head(net[n])] = {}
          BY <2>1, <4>1, <4>2 DEF NoKeyScans
      <4> QED
          BY <3>2, <4>3 DEF Counted
    <3> QED
        BY <3>1, <3>2
  <2>3. /\ total_kv' = IF lo[n] = 0 THEN Len(list) ELSE total_kv
        /\ Len(new) <= hi[n] - lo[n] /\ Len(new) <= Missing(n)
        /\ \A j \in 1..Len(new) : new[j] = list[lo[n] + j]
      BY <1>1, <1>4, <2>2, ReceivedFrom
  <2> HIDE DEF new
  <2>4. total_kv' \in {0, Len(list)} /\ (total_kv' = 0 => printed' = <<>>)
    <3>1. total_kv \in {0, Len(list)} /\ (total_kv = 0 => printed = <<>>)
        BY <2>1 DEF Found
    <3>2. ASSUME total_kv' = 0 PROVE printed' = <<>>
      <4>1. lo[n] # 0 /\ total_kv = 0
          BY <1>2, <1>4, <2>3, <3>2
      <4>2. Missing(n) = 0
          BY <1>1, <1>2, <3>2 DEF Missing
      <4>3. Len(new) = 0 /\ Len(printed) = 0
          BY <1>2, <2>3, <3>1, <4>1, <4>2 DEF new
      <4> QED
          BY <1>1, <1>2, <3>1, <4>1, <4>3 DEF new
    <3> QED
        BY <2>3, <3>1, <3>2
  <2>5. ASSUME total_kv' > 0 PROVE at > 0 /\ \A k \in 1..w : l[k] > 0
    <3>1. CASE lo[n] = 0
      <4>1. hi[n] > 0 /\ at > 0
          BY <1>2, <1>4, <3>1
      <4>2. ASSUME NEW k \in 1..w PROVE l[k] > 0
        <5>1. l[k] \in Nat /\ h[k] \in Nat /\ l[k] < h[k] /\ (hi[n] <= l[k] \/ h[k] <= lo[n])
            BY <1>10
        <5> QED
            BY <1>9, <3>1, <4>1, <5>1
      <4> QED
          BY <4>1, <4>2
    <3>2. CASE lo[n] # 0
      <4>1. total_kv > 0
          BY <2>3, <2>5, <3>2
      <4> QED
          BY SMTT(30), <1>6, <1>8, <2>1, <4>1 DEF Found
    <3> QED
        BY <3>1, <3>2
  \* The pairs of this message are in no other.
  <2>6. ASSUME NEW j \in 1..Len(new)
        PROVE  /\ lo[n] + j \in 1..at /\ lo[n] < lo[n] + j /\ lo[n] + j <= hi[n]
               /\ new[j] = list[lo[n] + j]
               /\ \A k \in 1..w : ~ (l[k] < lo[n] + j /\ lo[n] + j <= h[k])
    <3>1. /\ lo[n] + j \in 1..at /\ lo[n] < lo[n] + j /\ lo[n] + j <= hi[n]
          /\ lo[n] + j \in Nat
      <4>1. Len(new) \in Nat /\ Len(new) <= hi[n] - lo[n] /\ j \in Nat /\ 1 <= j /\ j <= Len(new)
          BY <1>2, <2>3 DEF new
      <4> QED
          BY <1>9, <4>1
    <3>2. ASSUME NEW k \in 1..w PROVE ~ (l[k] < lo[n] + j /\ lo[n] + j <= h[k])
      <4>1. l[k] \in Nat /\ h[k] \in Nat /\ (hi[n] <= l[k] \/ h[k] <= lo[n])
          BY <1>10
      <4> DEFINE x == lo[n] + j
      <4>2. x \in Nat /\ lo[n] < x /\ x <= hi[n]
          BY <3>1
      <4> HIDE DEF x
      <4>3. ~ (l[k] < x /\ x <= h[k])
          BY <1>9, <4>1, <4>2
      <4> QED
          BY <4>3 DEF x
    <3> QED
        BY <2>3, <3>1, <3>2
  <2>7. ASSUME NEW p \in 1..Len(printed)
        PROVE  \E k \in 1..at : /\ printed[p] = list[k] /\ ~ (lo[n] < k /\ k <= hi[n])
                                /\ \A m \in 1..w : ~ (l[m] < k /\ k <= h[m])
    <3>1. PICK k \in 1..at : /\ printed[p] = list[k]
                             /\ \A m \in DOMAIN net : ~ (lo[m] < k /\ k <= hi[m])
        BY <2>1 DEF Found
    <3>2. ~ (lo[n] < k /\ k <= hi[n]) /\ \A m \in 1..w : ~ (l[m] < k /\ k <= h[m])
        BY <1>10, <3>1
    <3> QED
        BY <3>1, <3>2
  <2>8. ASSUME NEW p \in 1..Len(printed')
        PROVE  \E k \in 1..at : printed'[p] = list[k] /\ \A m \in 1..w : ~ (l[m] < k /\ k <= h[m])
    <3>1. CASE p <= Len(printed)
      <4>1. p \in 1..Len(printed) /\ printed'[p] = printed[p]
          BY <1>13, <3>1
      <4> QED
          BY <2>7, <4>1
    <3>2. CASE ~ (p <= Len(printed))
      <4>1. p - Len(printed) \in 1..Len(new) /\ printed'[p] = new[p - Len(printed)]
          BY <1>2, <1>13, <3>2 DEF new
      <4> QED
          BY <2>6, <4>1
    <3> QED
        BY <3>1, <3>2
  <2>9. ASSUME NEW x \in 1..Len(list), NEW y \in 1..Len(list), x # y PROVE list[x] # list[y]
      BY <1>2, <2>9, DumpAssumption
  \* An old pair is not a new one.
  <2>10. ASSUME NEW p \in 1..Len(printed), NEW j \in 1..Len(new) PROVE printed[p] # new[j]
    <3>1. PICK k \in 1..at : printed[p] = list[k] /\ ~ (lo[n] < k /\ k <= hi[n])
        BY <2>7
    <3>2. k # lo[n] + j /\ k \in 1..Len(list) /\ lo[n] + j \in 1..Len(list)
      <4>1. /\ k \in Nat /\ 1 <= k /\ k <= at /\ lo[n] + j \in Nat /\ 1 <= lo[n] + j /\ lo[n] + j <= at
            /\ lo[n] < lo[n] + j /\ lo[n] + j <= hi[n]
          BY <1>9, <2>6
      <4> QED
          BY <1>9, <3>1, <4>1
    <3> QED
        BY <2>6, <2>9, <3>1, <3>2
  <2>11. ASSUME NEW i \in 1..Len(new), NEW j \in 1..Len(new), i # j PROVE new[i] # new[j]
    <3>1. lo[n] + i # lo[n] + j /\ lo[n] + i \in 1..Len(list) /\ lo[n] + j \in 1..Len(list)
      <4>1. i \in Nat /\ j \in Nat /\ lo[n] + i \in 1..at /\ lo[n] + j \in 1..at
          BY <1>2, <2>6
      <4>2. PICK x, y \in 1..at : x = lo[n] + i /\ y = lo[n] + j
          BY <4>1
      <4>3. lo[n] \in Nat
          BY <1>9
      <4>4. x # y
          BY <2>11, <4>1, <4>2, <4>3
      <4>5. x \in 1..Len(list) /\ y \in 1..Len(list)
          BY <1>9
      <4> QED
          BY <4>2, <4>4, <4>5
    <3> QED
        BY <2>6, <2>9, <3>1
  <2>12. ASSUME NEW p \in 1..Len(printed'), NEW q \in 1..Len(printed'), p # q
         PROVE  printed'[p] # printed'[q]
    <3> DEFINE r == Len(printed)
    <3>1. /\ p \in Nat /\ q \in Nat /\ r \in Nat /\ Len(new) \in Nat /\ Len(printed') = r + Len(new)
          /\ printed'[p] = IF p <= r THEN printed[p] ELSE new[p - r]
          /\ printed'[q] = IF q <= r THEN printed[q] ELSE new[q - r]
      <4>1. Len(new) \in Nat
          BY <1>2 DEF new
      <4>2. p \in Nat /\ q \in Nat /\ r \in Nat
          BY <1>13
      <4> QED
          BY <1>13, <4>1, <4>2
    <3>2. /\ p <= r => p \in 1..r
          /\ q <= r => q \in 1..r
          /\ ~ (p <= r) => p - r \in 1..Len(new)
          /\ ~ (q <= r) => q - r \in 1..Len(new)
          /\ p - r # q - r
        BY <2>12, <3>1
    <3>3. CASE p <= r /\ q <= r
        BY <2>1, <2>12, <3>1, <3>2, <3>3 DEF Found
    <3>4. CASE p <= r /\ ~ (q <= r)
        BY <2>10, <3>1, <3>2, <3>4
    <3>5. CASE ~ (p <= r) /\ q <= r
        BY <2>10, <3>1, <3>2, <3>5
    <3>6. CASE ~ (p <= r) /\ ~ (q <= r)
        BY <2>11, <3>1, <3>2, <3>6
    <3> QED
        BY <3>3, <3>4, <3>5, <3>6
  <2> QED
      BY <1>3, <1>7, <2>4, <2>5, <2>8, <2>12 DEF Found
<1>15. ASSUME ~ disturbed', EachFits', NoKeyEmpty' PROVE InOrder(l, h, at)'
  <2>1. InOrder(lo, hi, at) /\ NoKeyEmpty /\ n = 1
    <3>1. ~ disturbed /\ ~ (n # 1)
        BY <1>1, <1>15
    <3> QED
        BY <1>3, <1>15, <3>1, ListKept DEF Tracked
  <2>2. /\ lo[1] = nb_kv /\ hi[Len(net)] = at
        /\ \A k \in DOMAIN net : k < Len(net) => lo[k + 1] = hi[k]
        /\ net # <<>>
      BY <1>2, <2>1 DEF InOrder
  <2>3. Counted(net[n]) <=> lo[n] = 0
    <3>1. CASE lo[n] = 0
      <4>1. Head(net[n]) = Decimal[Len(list)]
          BY <1>2, <1>4, <3>1, HeadOf
      <4>2. Scan[Head(net[n])] # {}
          BY <1>2, <4>1, DumpAssumption
      <4> QED
          BY <2>1, <2>2, <3>1, <4>2 DEF Counted
    <3>2. CASE lo[n] # 0
        BY <2>1, <2>2, <3>2 DEF Counted
    <3> QED
        BY <3>1, <3>2
  <2>4. /\ TotalOf(n) = IF lo[n] = 0 THEN Len(list) ELSE total_kv
        /\ \A j \in 1..Len(new) : new[j] = list[lo[n] + j]
        /\ hi[n] - lo[n] <= Missing(n) => Len(new) = hi[n] - lo[n]
    <3>1. PICK a \in 0..Len(list), b \in 0..Len(list) : a = lo[n] /\ b = hi[n]
        BY <1>4
    <3>2. a < b /\ Holds(list, net[n], a, b) /\ (Counted(net[n]) <=> a = 0)
        BY <1>4, <2>3, <3>1
    <3>3. NoKeyEmpty
        BY <2>1
    <3>4. /\ TotalOf(n) = IF a = 0 THEN Len(list) ELSE total_kv
          /\ \A j \in 1..Len(new) : new[j] = list[a + j]
          /\ b - a <= Missing(n) => Len(new) = b - a
        BY <3>2, <3>3, ReceivedFrom
    <3> QED
        BY <3>1, <3>4
  <2>5. total_kv' = Len(list)
    <3>1. CASE printed = <<>>
        BY <1>1, <1>2, <2>1, <2>2, <2>4, <3>1
    <3>2. CASE printed # <<>>
        BY <1>1, <1>2, <2>1, <2>2, <2>4, <3>2 DEF InOrder
    <3> QED
        BY <3>1, <3>2
  <2>6. hi[n] - lo[n] <= Missing(n)
    <3>1. TotalOf(n) = Len(list) /\ lo[n] = nb_kv /\ lo[n] < hi[n] /\ hi[n] <= Len(list)
          /\ lo[n] \in Nat /\ hi[n] \in Nat
        BY <1>1, <1>9, <2>1, <2>2, <2>5
    <3> QED
        BY <1>2, <3>1 DEF Missing
  <2>7. Len(new) = hi[1] - Len(printed) /\ Len(printed') = hi[1] /\ hi[1] > 0 /\ hi[1] <= at
    <3>1. Len(new) = hi[1] - lo[1] /\ lo[1] = Len(printed)
        BY <1>2, <2>1, <2>2, <2>4, <2>6
    <3>2. lo[1] \in Nat /\ hi[1] \in Nat /\ lo[1] < hi[1] /\ hi[1] <= at
        BY <1>9, <2>1
    <3>3. Len(printed') = Len(printed) + Len(new)
        BY <1>13
    <3> QED
        BY <3>1, <3>2, <3>3
  <2> HIDE DEF new
  <2>8. ASSUME NEW p \in 1..Len(printed') PROVE printed'[p] = list[p]
    <3>1. CASE p <= Len(printed)
      <4>1. p \in 1..Len(printed) /\ printed'[p] = printed[p]
          BY <1>13, <2>8, <3>1
      <4> QED
          BY <2>1, <4>1 DEF InOrder
    <3>2. CASE ~ (p <= Len(printed))
      <4> DEFINE j == p - Len(printed)
      <4>1. j \in 1..Len(new) /\ lo[n] + j = p
          BY <1>2, <1>13, <2>1, <2>2, <2>8, <3>2 DEF new
      <4>2. printed'[p] = new[j] /\ new[j] = list[lo[n] + j]
          BY <1>13, <2>4, <2>8, <3>2, <4>1
      <4> QED
          BY <4>1, <4>2
    <3> QED
        BY <3>1, <3>2
  <2>9. printed' # <<>>
      BY <2>7
  <2>10. net' = <<>> => Len(printed') = at
    <3> SUFFICES ASSUME net' = <<>> PROVE hi[1] = at
        BY <2>7
    <3>1. Len(net) = 1
        BY SMTT(30), <1>2, <1>5, <1>7
    <3> QED
        BY <2>2, <3>1
  <2>11. \A k \in 1..w : f[k] = k + 1 /\ l[k] = lo[k + 1] /\ h[k] = hi[k + 1] /\ k \in DOMAIN net /\ k < Len(net)
                         /\ k + 1 \in DOMAIN net
      BY SMTT(30), <1>2, <1>5, <1>6, <1>8, <2>1
  <2>12. net' # <<>> => l[1] = Len(printed') /\ h[w] = at
    <3> SUFFICES ASSUME net' # <<>> PROVE l[1] = hi[1] /\ h[w] = at
        BY <2>7
    <3>1. 1 \in 1..w /\ w \in 1..w
        BY <1>5, <1>7
    <3>2. l[1] = hi[1]
      <4>1. l[1] = lo[1 + 1] /\ 1 \in DOMAIN net /\ 1 < Len(net)
          BY <2>11, <3>1
      <4> QED
          BY <2>2, <4>1
    <3>3. w + 1 = Len(net)
        BY <1>2, <1>5
    <3>4. h[w] = at
        BY <2>2, <2>11, <3>1, <3>3
    <3> QED
        BY <3>2, <3>4
  <2>13. ASSUME NEW k \in 1..w, k < w PROVE l[k + 1] = h[k]
    <3>1. k + 1 \in 1..w
        BY <2>13
    <3>2. h[k] = hi[k + 1] /\ l[k + 1] = lo[(k + 1) + 1] /\ k + 1 \in DOMAIN net /\ k + 1 < Len(net)
        BY <2>11, <3>1
    <3> QED
        BY <2>2, <3>2
  <2>14. Len(printed') <= at /\ (requests' = 0 /\ pc' = "idle" => index_list' = Len(list')) /\ ~ done'
      BY <1>1, <1>3, <2>1, <2>7 DEF InOrder
  <2> QED
      BY <1>3, <1>7, <2>5, <2>8, <2>9, <2>10, <2>12, <2>13, <2>14 DEF InOrder
<1>16. Tracked(l, h, at)'
    BY <1>12, <1>14, <1>15 DEF Tracked
<1> QED
    BY <1>11, <1>16

LEMMA TypesAreServer == DumpTypes => ServerType
BY DEF DumpTypes, TypeOK, ServerType

LEMMA InvStep == DumpInv /\ [Next]_vars => DumpInv'
<1> SUFFICES ASSUME DumpInv, [Next]_vars PROVE DumpInv'
    OBVIOUS
<1>1. DumpTypes'
    BY TypesStep DEF DumpInv
<1>2. NextFits'
    BY MessageStep, TypesAreServer DEF DumpInv
<1>3. /\ requests \in Nat /\ dups \in Nat /\ pc \in {"idle", "copy", "send", "crashed"}
      /\ list \in Lists /\ MaxMsg \in Nat /\ index \in Nat /\ net \in Seq(Seq(String) \ {<<>>})
    BY DumpAssumption DEF DumpInv, DumpTypes, TypeOK
\* The tracking, once per action.
<1>4. ASSUME dups' = 0, dups = 0,
             NEW lo \in Places, NEW hi \in Places, NEW at \in 0..Len(list), Tracked(lo, hi, at), Fresh
      PROVE  Fresh' /\ \E l, h \in Places', t \in 0..Len(list') : Tracked(l, h, t)'
  <2>1. CASE Begin
    <3>1. Fresh'
        BY <1>3, <1>4, <2>1 DEF Begin, Fresh
    <3> QED
        BY <1>4, <2>1, <3>1, BeginTracked
  <2>2. CASE BeginNoMemory
    <3>1. Fresh'
        BY <1>3, <1>4, <2>2 DEF BeginNoMemory, Fresh
    <3>2. /\ UNCHANGED <<list, index_list, msg, net, total_kv, printed>> /\ pc' = pc /\ disturbed'
        BY <2>2 DEF BeginNoMemory, client
    <3> QED
        BY <1>4, <3>1, <3>2, QuietTracked
  <2>3. CASE Copy
    <3>1. Fresh'
        BY <1>3, <1>4, <2>3 DEF Copy, Fresh
    <3> QED
        BY <1>4, <2>3, <3>1, CopyTracked
  <2>4. CASE Overflow
    <3>1. Fresh'
        BY <1>3, <1>4, <2>4 DEF Overflow, Fresh
    <3>2. ~ EachFits
        BY <1>3, <2>4 DEF Overflow, DumpInv, NextFits
    <3>3. UNCHANGED <<list, index_list, msg, net, total_kv, printed>> /\ pc' = "crashed"
        BY <2>4 DEF Overflow, client
    <3> QED
        BY <1>4, <3>1, <3>2, <3>3, QuietTracked
  <2>5. CASE Send
    <3>1. Fresh'
        BY <1>3, <1>4, <2>5 DEF Send, Fresh
    <3> QED
        BY <1>4, <2>5, <3>1, SendTracked
  <2>6. CASE Receive
    <3>1. net # <<>> /\ requests' = requests
      <4>1. PICK n \in DOMAIN net : requests' = requests
          BY <2>6, ReceiveIs DEF server
      <4> QED
          BY <4>1
    <3>2. Fresh'
        BY <1>3, <1>4, <3>1 DEF Fresh
    <3> QED
        BY <1>4, <2>6, <3>2, ReceiveTracked
  <2>7. CASE Timeout
    <3>1. UNCHANGED <<list, requests, pc, index_list, msg, net, total_kv, printed>>
        BY <2>7 DEF Timeout, server
    <3>2. Fresh'
        BY <1>4, <3>1 DEF Fresh
    <3>3. ASSUME ~ disturbed', EachFits
          PROVE  ~ disturbed /\ net = <<>> /\ requests = 0 /\ pc = "idle"
      <4>1. ~ (disturbed \/ net # <<>> \/ requests > 0 \/ pc \in {"copy", "send"})
          BY <2>7, <3>3 DEF Timeout
      <4>2. pc # "crashed"
          BY <3>3 DEF DumpInv, NextFits
      <4>3. ~ disturbed /\ net = <<>> /\ ~ (requests > 0) /\ pc # "copy" /\ pc # "send"
          BY <4>1
      <4> QED
          BY <1>3, <4>2, <4>3
    <3> QED
        BY <1>4, <3>1, <3>2, <3>3, QuietTracked
  <2>8. CASE UNCHANGED vars
    <3>1. UNCHANGED <<list, requests, pc, index_list, msg, net, total_kv, printed, done, disturbed>>
        BY <2>8 DEF vars, server, client
    <3>2. Fresh'
        BY <1>4, <3>1 DEF Fresh
    <3> QED
        BY <1>4, <3>1, <3>2, QuietTracked
  <2> QED
      BY <2>1, <2>2, <2>3, <2>4, <2>5, <2>6, <2>7, <2>8 DEF Next
\* A duplicate stays one, and is a disturbance.
<1>5. (dups' = 0 => dups = 0) /\ (~ disturbed' => dups' = 0)
  <2>1. CASE Send
    <3>1. PICK n \in Copies \cup {0} : /\ dups' = IF n = 2 THEN dups + 1 ELSE dups
                                      /\ disturbed' = (disturbed \/ n # 1)
        BY <2>1 DEF Send
    <3>2. dups' = 0 => dups = 0
        BY <1>3, <3>1
    <3>3. ~ disturbed' => ~ disturbed /\ n = 1
        BY <3>1
    <3>4. ~ disturbed' => dups = 0
        BY <3>3 DEF DumpInv
    <3> QED
        BY <3>1, <3>2, <3>3, <3>4
  <2>2. CASE ~ Send
    <3>1. dups' = dups
        BY <2>2 DEF Next, Begin, BeginNoMemory, Copy, Overflow, Receive, Timeout, vars
    <3>2. ~ disturbed' => ~ disturbed
      <4>1. CASE Receive \/ Timeout
          BY <4>1 DEF Receive, Timeout
      <4>2. CASE ~ (Receive \/ Timeout)
          BY <2>2, <4>2 DEF Next, Begin, BeginNoMemory, Copy, Overflow, vars
      <4> QED
          BY <4>1, <4>2
    <3> QED
        BY <3>1, <3>2 DEF DumpInv
  <2> QED
      BY <2>1, <2>2
<1>6. ASSUME dups' = 0
      PROVE  Fresh' /\ \E l, h \in Places', t \in 0..Len(list') : Tracked(l, h, t)'
  <2>1. PICK lo \in Places, hi \in Places, at \in 0..Len(list) : Tracked(lo, hi, at) /\ Fresh
      BY <1>5, <1>6 DEF DumpInv
  <2> QED
      BY <1>4, <1>5, <1>6, <2>1
<1> QED
    BY <1>1, <1>2, <1>5, <1>6 DEF DumpInv

THEOREM DumpInvariant == Spec => []DumpInv
<1>1. Init => DumpInv
    BY InvInit
<1>2. DumpInv /\ [Next]_vars => DumpInv'
    BY InvStep
<1> QED
    BY <1>1, <1>2, PTL DEF Spec

(***************************************************************************)
(* Whatever is lost or arrives in another order, dump-node prints pairs of *)
(* the server, and none of them twice, unless a datagram is duplicated or  *)
(* a key looks like a number.                                              *)
(***************************************************************************)
THEOREM OnlyStoredPrinted == Spec => []PrintsStored
<1>1. DumpInv => PrintsStored
  <2> SUFFICES ASSUME DumpInv, dups = 0, NoKeyScans
               PROVE  /\ \A i \in 1..Len(printed) : \E n \in 1..Len(list) : printed[i] = list[n]
                      /\ \A i, j \in 1..Len(printed) : i # j => printed[i] # printed[j]
      BY DEF PrintsStored
  <2>1. PICK lo \in Places, hi \in Places, at \in 0..Len(list) : Tracked(lo, hi, at)
      BY DEF DumpInv
  <2>2. Found(lo, hi, at)
      BY <2>1 DEF Tracked
  <2>3. Len(list) \in Nat
      BY ListType DEF DumpInv, DumpTypes, TypeOK
  <2>4. \A k \in 1..at : k \in 1..Len(list)
      BY <2>3
  <2>5. \A p \in 1..Len(printed) : \E k \in 1..at : printed[p] = list[k]
      BY <2>2 DEF Found
  <2>6. \A i, j \in 1..Len(printed) : i # j => printed[i] # printed[j]
      BY <2>2 DEF Found
  <2> QED
      BY <2>4, <2>5, <2>6
<1> QED
    BY <1>1, DumpInvariant, PTL

(***************************************************************************)
(* A dump that nothing disturbs prints the content of the server, in its   *)
(* order.                                                                  *)
(***************************************************************************)
THEOREM AllPrinted == Spec => []PrintsAll
<1>1. DumpInv => PrintsAll
  <2> SUFFICES ASSUME DumpInv, done, ~ disturbed, EachFits, NoKeyEmpty PROVE printed = list
      BY DEF PrintsAll
  <2>1. PICK lo \in Places, hi \in Places, at \in 0..Len(list) : Tracked(lo, hi, at)
      BY DEF DumpInv
  <2>2. Ranges(lo, hi, at) /\ InOrder(lo, hi, at)
      BY <2>1 DEF Tracked
  <2>3. net = <<>> /\ requests = 0 /\ pc = "idle"
      BY <2>2 DEF InOrder
  <2>4. at = index_list /\ index_list = Len(list) /\ Len(printed) = at
      BY <2>2, <2>3 DEF Ranges, InOrder
  <2>5. \A p \in 1..Len(list) : printed[p] = list[p]
      BY <2>2, <2>4 DEF InOrder
  <2>6. printed \in Seq(String \X String) /\ list \in Seq(String \X String)
      BY DumpAssumption DEF DumpInv, DumpTypes, TypeOK
  <2> QED
      BY <2>4, <2>5, <2>6, SeqEqual
<1> QED
    BY <1>1, DumpInvariant, PTL
=============================================================================
