------------------------------- MODULE MCDump -------------------------------
(***************************************************************************)
(* An instance of Dump: up to three pairs of short strings in messages of  *)
(* nine bytes.  A string is its length and the number it begins with.      *)
(***************************************************************************)
EXTENDS Dump

Text(len) == [len |-> len, number |-> {}]
Number(n) == [len |-> 1, number |-> {n}]

MCEmpty == Text(0)
MCKey == {Text(0), Text(1), Text(4), Number(2)}
MCValue == {Text(0), Text(2), Text(5)}
MCString == MCKey \cup MCValue \cup {Number(n) : n \in 0..3}

MCLenOf == [s \in MCString |-> s.len]
MCScan == [s \in MCString |-> s.number]
MCDecimal == [n \in 0..3 |-> Number(n)]

MCLists ==
    {l \in UNION {[1..n -> MCKey \X MCValue] : n \in 0..3} :
        \A i, j \in 1..Len(l) : i # j => l[i][1] # l[j][1]}
=============================================================================
