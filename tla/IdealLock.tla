----------------------------- MODULE IdealLock -----------------------------
(***************************************************************************)
(* What src/server/lock.js promises in its header, without counters and    *)
(* closures: readers share the lock, a writer has it alone, those that     *)
(* cannot have it stand in line, and the lock goes to the front of the     *)
(* line and to nobody else.  A caller that gives up keeps its place, and   *)
(* whoever is behind it waits with it.                                     *)
(***************************************************************************)
EXTENDS Naturals, Sequences

CONSTANTS Readers, Writers

Clients == Readers \cup Writers

VARIABLES
    holders,  \* those that have the lock
    line,     \* those that have asked and do not have it
    gaveUp    \* those in the line that do not want it any more

vars == <<holders, line, gaveUp>>

\* Readers share, a writer is alone.
Compatible(H) == H \subseteq Readers \/ \E w \in Writers : H = {w}

Init ==
    /\ holders = {}
    /\ line = <<>>
    /\ gaveUp = {}

\* c asks and has the lock at once: nobody is in line, nobody is in its way.
Enter(c) ==
    /\ c \notin holders /\ line = <<>>
    /\ Compatible(holders \cup {c})
    /\ holders' = holders \cup {c}
    /\ UNCHANGED <<line, gaveUp>>

\* c asks and has to stand in line.
Wait(c) ==
    /\ c \notin holders /\ \A i \in DOMAIN line : line[i] # c
    /\ line # <<>> \/ ~Compatible(holders \cup {c})
    /\ line' = Append(line, c)
    /\ UNCHANGED <<holders, gaveUp>>

\* c gives the lock back and the front of the line has it: as many callers
\* as can have it together, up to the first that has given up.
Leave(c) ==
    /\ c \in holders
    /\ \E n \in 0..Len(line) :
         /\ \A i \in 1..n : line[i] \notin gaveUp
         /\ holders' = (holders \ {c}) \cup {line[i] : i \in 1..n}
         /\ Compatible(holders')
         /\ n < Len(line) =>
              \/ line[n + 1] \in gaveUp
              \/ ~Compatible(holders' \cup {line[n + 1]})
         /\ line' = SubSeq(line, n + 1, Len(line))
    /\ UNCHANGED gaveUp

GiveUp(c) ==
    /\ \E i \in DOMAIN line : line[i] = c
    /\ gaveUp' = gaveUp \cup {c}
    /\ UNCHANGED <<holders, line>>

Next == \E c \in Clients : Enter(c) \/ Wait(c) \/ Leave(c) \/ GiveUp(c)

Spec == Init /\ [][Next]_vars
=============================================================================
