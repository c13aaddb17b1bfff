------------------------------ MODULE Clients ------------------------------
(***************************************************************************)
(* The client programs pps-client-put, -get, -cat, -find and -substr:      *)
(* processes that make their calls of network_get and network_put one      *)
(* after the other, each on what the calls before have returned, while the *)
(* processes of other users do the same.                                   *)
(*                                                                         *)
(* Strings are sequences of characters, because cat joins them, find       *)
(* searches them and all programs bound their lengths.  A process starts   *)
(* when client_init has succeeded; see ClientInit.                         *)
(***************************************************************************)
EXTENDS Dht

CONSTANTS
    Proc,               \* the client processes; call n of process c is <<c, n>>
    MAX_MSG_ELEM_SIZE   \* of config.h

Names == {"put", "get", "cat", "find", "substr"}

\* A command line: the program, its arguments, and the N, W and R of client.args.
\* client_init has tested the number of arguments, but not for cat.
Command ==
    {m \in [name : Names, argv : Seq(Key \cup Value), N : Nat, W : Nat, R : Nat] :
        m.name # "cat" => Len(m.argv) = IF m.name = "get" THEN 1 ELSE 2}

TooLong(string) == Len(string) > MAX_MSG_ELEM_SIZE

----------------------------------------------------------------------------

GetCall(m, key) ==
    [kind |-> "get", key |-> key, value |-> Empty, N |-> m.N, W |-> m.W, R |-> m.R]
PutCall(m, key, value) ==
    [kind |-> "put", key |-> key, value |-> value, N |-> m.N, W |-> m.W, R |-> m.R]

\* The calls of network_get and network_put in main, in their order.  The value
\* that cat puts is not known before.
CallsOf(m) ==
    CASE m.name = "put" -> <<PutCall(m, m.argv[1], m.argv[2])>>
      [] m.name = "get" -> <<GetCall(m, m.argv[1])>>
      [] m.name = "cat" ->
            [n \in DOMAIN m.argv |-> IF n < Len(m.argv) THEN GetCall(m, m.argv[n])
                                                        ELSE PutCall(m, m.argv[n], Empty)]
      [] m.name \in {"find", "substr"} -> [n \in {1, 2} |-> GetCall(m, m.argv[n])]

\* The program of Dht for the command lines of some processes.
ProgramOf(commands) ==
    [o \in UNION {{c} \X DOMAIN CallsOf(commands[c]) : c \in DOMAIN commands} |->
        CallsOf(commands[o[1]])[o[2]]]

\* What cat can join is a value too, and what a server keeps behind a value that
\* fills its buffer, the buffer of a client cuts off.
ASSUME ClientsAssumption ==
    /\ MAX_MSG_ELEM_SIZE \in Nat
    /\ Empty = <<>> /\ Value \subseteq Seq(UNION {Range(v) : v \in Value})
    /\ \A v, w \in Value : Len(v) + Len(w) < MAX_MSG_ELEM_SIZE => v \o w \in Value
    /\ \A k \in Key : \A v \in Value :
          ~ TooLong(v) => \A w \in StoredAs[<<k, v>>] : Received[w] = v
    /\ \A c \in Scenarios :
          /\ DOMAIN c.command \subseteq Proc
          /\ \A p \in DOMAIN c.command : c.command[p] \in Command
          /\ c.program = ProgramOf(c.command)

VARIABLES
    command,        \* command[c]: the command line of process c, if it is used
    at,             \* at[c]: the number of the call that c makes
    concatenation,  \* concatenation[c]: of pps-client-cat
    output          \* output[c]: what c has printed, or <<"KILLED">>; <<>> while it
                    \* runs

clientVars == <<command, at, concatenation, output>>
allVars == <<vars, clientVars>>

InitClients ==
    /\ Init
    /\ \E c \in Scenarios : c.program = program /\ c.net = net /\ command = c.command
    /\ at = [c \in DOMAIN command |-> 1]
    /\ concatenation = [c \in DOMAIN command |-> Empty]
    /\ output = [c \in DOMAIN command |-> <<>>]

----------------------------------------------------------------------------

Call(c) == <<c, at[c]>>
Running(c) == output[c] = <<>>
LastCall(c) == Len(CallsOf(command[c]))

\* The string a get has returned.
result(o) == CHOOSE v \in call[o].value : TRUE

(***************************************************************************)
(* put, get, find and substr test the lengths of all their arguments       *)
(* before the first call.  cat leaves that to network_get and network_put, *)
(* and wants two arguments.                                                *)
(***************************************************************************)
Refused(c) ==
    LET argv == command[c].argv
    IN  IF command[c].name = "cat"
        THEN Len(argv) < 2 \/ (call[Call(c)].pc = "new" /\ TooLong(argv[at[c]]))
        ELSE \E n \in DOMAIN argv : TooLong(argv[n])

Prints(c, what) == output' = [output EXCEPT ![c] = what]

\* Exits with an error code, whether or not "FAIL" is printed too.
Refuse(c) ==
    /\ Running(c) /\ Refused(c)
    /\ Prints(c, <<"FAIL">>)
    /\ UNCHANGED <<vars, command, at, concatenation>>

\* A step of the call that c makes.
InCall(c) ==
    /\ Running(c) /\ ~ Refused(c)
    /\ Client(Call(c))
    /\ UNCHANGED <<program, chosen, clientVars>>

\* A call that fails ends the program, if the process was not killed in it.
CallFails(c) ==
    /\ Running(c) /\ ~ Refused(c)
    /\ \/ call[Call(c)].pc \in {"fail", "error"} /\ Prints(c, <<"FAIL">>)
       \/ call[Call(c)].pc = "killed" /\ Prints(c, <<"KILLED">>)
    /\ UNCHANGED <<vars, command, at, concatenation>>

\* What cat has, the value it has got, and no zero byte, are shorter than the
\* longest string.
Fits(c, value) == Len(value) + Len(concatenation[c]) < MAX_MSG_ELEM_SIZE

\* A variant for the mutation runs: strcpy for strncat.
Overwritten(c, value) == value

Joined(c, value) == concatenation[c] \o value

\* One turn of the loop of cat, when network_get has returned a value.
Concatenate(c) ==
    /\ Running(c) /\ ~ Refused(c) /\ command[c].name = "cat" /\ at[c] < LastCall(c)
    /\ call[Call(c)].pc = "ok"
    /\ LET value == result(Call(c))
           joined == Joined(c, value)
       IN  \/ /\ ~ Fits(c, value)
              /\ Prints(c, <<"FAIL">>)
              /\ UNCHANGED <<program, at, concatenation>>
           \/ /\ Fits(c, value)
              /\ concatenation' = [concatenation EXCEPT ![c] = joined]
              /\ at' = [at EXCEPT ![c] = @ + 1]
              /\ program' = IF at[c] + 1 = LastCall(c)
                            THEN [program EXCEPT ![<<c, LastCall(c)>>].value = joined] ELSE program
              /\ UNCHANGED output
    /\ UNCHANGED <<chosen, store, inbox, socket, call, history, command>>

\* find and substr go on to their second key.
SecondKey(c) ==
    /\ Running(c) /\ ~ Refused(c) /\ command[c].name \in {"find", "substr"} /\ at[c] = 1
    /\ call[Call(c)].pc = "ok"
    /\ at' = [at EXCEPT ![c] = 2]
    /\ UNCHANGED <<vars, command, concatenation, output>>

\* strstr as find uses it: the offset of the first place where t is in s, or -1.
Offset(s, t) ==
    LET places == {n \in 0..(Len(s) - Len(t)) : SubSeq(s, n + 1, n + Len(t)) = t}
    IN  IF places = {} THEN -1 ELSE CHOOSE n \in places : \A m \in places : n <= m

\* The last call has succeeded: what the program prints.
Answered(c) ==
    CASE command[c].name \in {"put", "cat"} -> <<"OK">>
      [] command[c].name = "get" -> <<"OK", result(Call(c))>>
      [] command[c].name \in {"find", "substr"} ->
            <<"OK", Offset(result(<<c, 1>>), result(<<c, 2>>))>>

Finish(c) ==
    /\ Running(c) /\ ~ Refused(c) /\ at[c] = LastCall(c) /\ call[Call(c)].pc = "ok"
    /\ Prints(c, Answered(c))
    /\ UNCHANGED <<vars, command, at, concatenation>>

Servers ==
    /\ \E s \in Server : Serve(s) \/ Restart(s)
    /\ UNCHANGED <<program, chosen, clientVars>>

Step(c) ==
    \/ Refuse(c) \/ InCall(c) \/ CallFails(c)
    \/ Concatenate(c) \/ SecondKey(c) \/ Finish(c)

NextClients == Servers \/ \E c \in DOMAIN command : Step(c)

\* A process that has been started runs: its receives end with TIMEOUT at the
\* latest.  Nothing is asked of the servers.
GoesOn(c) == c \in DOMAIN command /\ Step(c)

SpecClients ==
    InitClients /\ [][NextClients]_allVars /\ \A c \in Proc : WF_allVars(GoesOn(c))

----------------------------------------------------------------------------

ClientsTypeOK ==
    /\ TypeOK
    /\ DOMAIN command \subseteq Proc
    /\ \A c \in DOMAIN command :
          /\ at[c] \in {1} \cup 1..LastCall(c)
          /\ concatenation[c] \in Seq(UNION {Range(v) : v \in Value})
    /\ \A c \in DOMAIN command : output[c] # <<>> => output[c][1] \in {"OK", "FAIL", "KILLED"}

(***************************************************************************)
(* A cat that prints OK has put, on W servers, the values of its keys in   *)
(* their order; each of them was a value of its key (RegularReads).        *)
(***************************************************************************)
CatStores ==
    \A c \in DOMAIN command : command[c].name = "cat" /\ output[c] = <<"OK">> =>
        LET put == <<c, LastCall(c)>>
            values == [n \in 1..(LastCall(c) - 1) |-> result(<<c, n>>)]
        IN  /\ program[put].value = FlattenSeq(values)
            /\ Cardinality(Writers(put)) + dups >= Needed(put)

(***************************************************************************)
(* Every client program ends, with its OK or FAIL or killed, whatever      *)
(* becomes of the servers and the datagrams: the time-outs of its calls    *)
(* see to it.                                                              *)
(***************************************************************************)
ProgramsEnd == <>(\A c \in DOMAIN command : output[c] # <<>>)

(***************************************************************************)
(* Why they end: whatever a process does prints its answer, takes it to    *)
(* its next call, or leaves its call fewer datagrams to send and attempts  *)
(* to receive; and nothing that others do gives it more.                   *)
(***************************************************************************)
StepsLeft(o) ==
    CASE call[o].pc = "new" -> 2 * N(o) + 1
      [] call[o].pc = "send" -> 2 * N(o) - call[o].i
      [] call[o].pc = "receive" -> N(o) - call[o].i
      [] OTHER -> 0

Advances(c) ==
    \/ output[c] = <<>> /\ output'[c] # <<>>
    \/ output'[c] = output[c] /\ at'[c] \in (at[c] + 1)..LastCall(c)
    \/ /\ output'[c] = output[c] /\ at'[c] = at[c]
       /\ StepsLeft(Call(c))' \in 0..(StepsLeft(Call(c)) - 1)

Waits(c) ==
    /\ output'[c] = output[c] /\ at'[c] = at[c]
    /\ \A o \in DOMAIN program : o[1] = c => call'[o] = call[o]

ProgramsAdvance ==
    [][\A c \in DOMAIN command : /\ Waits(c) \/ Advances(c)
                                 /\ Step(c) => Advances(c)]_allVars
=============================================================================
