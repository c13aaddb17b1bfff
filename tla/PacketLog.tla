----------------------------- MODULE PacketLog -----------------------------
(***************************************************************************)
(* sendto as the processes of the system call it: the function of the      *)
(* kernel, or, where log-packets.so is preloaded, the one of log-packets.c *)
(* which writes a line for each datagram.  Its processes share a file,     *)
(* packets.log, and take turns with flock.                                 *)
(***************************************************************************)
EXTENDS Integers, SequencesExt

CONSTANTS
    Sender,    \* the processes
    Nobody

ASSUME PacketLogAssumption == Nobody \notin Sender

VARIABLES
    preloaded, \* whether the processes run with log-packets.so
    alive,     \* the processes that run
    sending,   \* sending[p]: where process p is in sendto
    holder,    \* who holds the lock of the file
    log,       \* the lines of the file: <<sender, receiver>>
    sent       \* history: the calls of the kernel's sendto for a message in memory

logVars == <<preloaded, alive, sending, holder, log, sent>>

\* The steps of a call; "out" before and behind it, when ok is its result.
Sending ==
    [step : {"out", "called", "locked", "sent"}, to : Sender \cup {Nobody},
     readable : BOOLEAN, ok : BOOLEAN]

NotSending == [step |-> "out", to |-> Nobody, readable |-> TRUE, ok |-> TRUE]

InitLog ==
    /\ preloaded \in BOOLEAN
    /\ alive \in SUBSET Sender
    /\ sending = [p \in Sender |-> NotSending]
    /\ holder = Nobody
    /\ log = <<>> /\ sent = <<>>

Idle(p) == p \in alive /\ sending[p].step = "out"
At(p, step) == p \in alive /\ sending[p].step = step

\* Process p calls sendto.  The message is not readable if it is a NULL
\* pointer with a length that is not 0.
Call(p, to, readable) ==
    /\ Idle(p)
    /\ sending' = [sending EXCEPT ![p] =
                      [step |-> "called", to |-> to, readable |-> readable, ok |-> TRUE]]
    /\ UNCHANGED <<preloaded, alive, holder, log, sent>>

\* A variant for the mutation runs: nobody waits for the lock.
LockShared(p) ==
    /\ preloaded /\ At(p, "called")
    /\ holder' = p
    /\ sending' = [sending EXCEPT ![p].step = "locked"]
    /\ UNCHANGED <<preloaded, alive, log, sent>>

\* fopen, and flock once no other process has the lock.
Lock(p) ==
    /\ preloaded /\ At(p, "called") /\ holder = Nobody
    /\ holder' = p
    /\ sending' = [sending EXCEPT ![p].step = "locked"]
    /\ UNCHANGED <<preloaded, alive, log, sent>>

\* The end of process p: the kernel frees the lock it may hold.
Dies(p) ==
    /\ alive' = alive \ {p}
    /\ sending' = [sending EXCEPT ![p] = NotSending]
    /\ holder' = IF holder = p THEN Nobody ELSE holder
    /\ UNCHANGED <<preloaded, log, sent>>

\* The log file cannot be opened: the assertion aborts the process.
OpenFails(p) == preloaded /\ At(p, "called") /\ Dies(p)

\* The kernel's sendto, with its result; without the logger that is all.
Kernel(p, ok) ==
    /\ At(p, IF preloaded THEN "locked" ELSE "called")
    /\ sending' = [sending EXCEPT ![p].step = IF preloaded THEN "sent" ELSE "out", ![p].ok = ok]
    /\ sent' = IF preloaded /\ sending[p].readable
               THEN Append(sent, <<p, sending[p].to>>) ELSE sent
    /\ UNCHANGED <<preloaded, alive, holder, log>>

\* A variant for the mutation runs: the file stays open and locked.
NoteLocked(p) ==
    /\ At(p, "sent") /\ sending[p].readable
    /\ log' = Append(log, <<p, sending[p].to>>)
    /\ sending' = [sending EXCEPT ![p].step = "out"]
    /\ UNCHANGED <<preloaded, alive, holder, sent>>

\* The line is written and flushed, whatever the result, and the lock is freed.
Note(p) ==
    /\ At(p, "sent") /\ sending[p].readable
    /\ log' = Append(log, <<p, sending[p].to>>)
    /\ holder' = Nobody
    /\ sending' = [sending EXCEPT ![p].step = "out"]
    /\ UNCHANGED <<preloaded, alive, sent>>

\* The loop over the bytes of the message reads a NULL pointer; the line was
\* only in the buffer of the file.
NoteCrashes(p) == At(p, "sent") /\ ~ sending[p].readable /\ Dies(p)

----------------------------------------------------------------------------

LogTypeOK ==
    /\ preloaded \in BOOLEAN
    /\ alive \subseteq Sender
    /\ sending \in [Sender -> Sending]
    /\ holder \in Sender \cup {Nobody}
    /\ log \in Seq(Sender \X Sender) /\ sent \in Seq(Sender \X Sender)

(***************************************************************************)
(* The file has the datagrams of all processes in the order in which they  *)
(* were sent, up to one that was sent and is being written, though only    *)
(* the lock ties the two together: an answer never stands before its       *)
(* question.  A process that dies in between does not disturb the others.  *)
(***************************************************************************)
LogOrder ==
    \/ log = sent
    \/ /\ holder # Nobody /\ At(holder, "sent")
       /\ sent = Append(log, <<holder, sending[holder].to>>)
=============================================================================
