------------------------------- MODULE RWLock -------------------------------
(***************************************************************************)
(* The asynchronous read/write lock of src/server/lock.js, which every     *)
(* table, tournament and club of the server is guarded by.                 *)
(*                                                                         *)
(* A call of readLock or writeLock either gets the lock at once or pushes  *)
(* a closure on lock.queue; a release polls the closure at the head of the *)
(* queue.  The server is one JavaScript thread, so each call runs to the   *)
(* end before the next one starts: one action per call.  A callback that   *)
(* calls back into the lock before it returns sees exactly the state it    *)
(* would see just after, so nested calls are not told apart from calls     *)
(* made one after the other.                                               *)
(***************************************************************************)
EXTENDS Integers, Sequences, FiniteSets

CONSTANTS
    Readers,  \* callers of readLock
    Writers,  \* callers of writeLock
    Timed     \* the callers that pass options.timeout

Clients == Readers \cup Writers

ASSUME ClientsAssumption ==
    /\ IsFiniteSet(Clients)
    /\ Readers \cap Writers = {}
    /\ Timed \subseteq Clients

VARIABLES
    readers,  \* lock.readers: -1 under a writer, else the number of readers
    queue,    \* lock.queue: the callers whose closures wait, in order
    status    \* where each caller's latest call stands

vars == <<readers, queue, status>>

\* "none":     no call of the lock is outstanding
\* "waiting":  the closure is queued and not terminated
\* "timedOut": the closure is queued and terminated by its timeout
\* "holding":  the callback has been called, release has not
\* "released": release has been called (the flag `released` of the closure)
Statuses == {"none", "waiting", "timedOut", "holding", "released"}

Init ==
    /\ readers = 0
    /\ queue = <<>>
    /\ status = [c \in Clients |-> "none"]

Holding(S) == {c \in S : status[c] = "holding"}

(***************************************************************************)
(* Polling the head of the queue.  The closure of a writer takes the lock  *)
(* when nobody has it; the closure of a reader takes it unless a writer    *)
(* has it, and then polls the next one.  A terminated closure does nothing *)
(* and stays where it is.                                                  *)
(***************************************************************************)
\* Mutant of Live: a closure that ignores that it has been terminated
LiveThoughTerminated(q, i) == status[q[i]] \in {"waiting", "timedOut"}

Live(q, i) == status[q[i]] = "waiting"

\* Mutant of Admitted: an admitted reader that does not poll the next closure
AdmittedOne(rd, q, n) ==
    LET head == q # <<>> /\ rd >= 0 /\ Live(q, 1)
                  /\ (q[1] \in Writers => rd = 0)
    IN  n = IF head THEN 1 ELSE 0

\* The n closures at the head of q that take the lock when the reader count
\* is rd: one writer, or all the readers in front of anything else.
Admitted(rd, q, n) ==
    \/ /\ n = 1 /\ Len(q) >= 1 /\ rd = 0
       /\ q[1] \in Writers /\ Live(q, 1)
    \/ /\ rd >= 0
       /\ \A i \in 1..n : q[i] \in Readers /\ Live(q, i)
       /\ n < Len(q) => ~(q[n + 1] \in Readers /\ Live(q, n + 1))
       /\ n = 0 => ~(rd = 0 /\ q # <<>> /\ q[1] \in Writers /\ Live(q, 1))
    \/ rd < 0 /\ n = 0

\* releaser has called release, which left the reader count at rd.
Poll(releaser, rd) ==
    \E n \in 0..Len(queue) :
        /\ Admitted(rd, queue, n)
        /\ queue' = SubSeq(queue, n + 1, Len(queue))
        /\ readers' = IF n = 1 /\ queue[1] \in Writers THEN -1 ELSE rd + n
        /\ status' = [c \in Clients |->
                        IF \E i \in 1..n : queue[i] = c THEN "holding"
                        ELSE IF c = releaser THEN "released" ELSE status[c]]

-----------------------------------------------------------------------------
\* Mutant of ReadLock: a reader that only looks at the writer, and overtakes
\* the queue
ReadLockBarging(c) ==
    /\ c \in Readers
    /\ status[c] \in {"none", "released"}
    /\ IF readers < 0
       THEN /\ queue' = Append(queue, c)
            /\ status' = [status EXCEPT ![c] = "waiting"]
            /\ UNCHANGED readers
       ELSE /\ readers' = readers + 1
            /\ status' = [status EXCEPT ![c] = "holding"]
            /\ UNCHANGED queue

\* readLock(callback, options)
ReadLock(c) ==
    /\ c \in Readers
    /\ status[c] \in {"none", "released"}
    /\ IF readers < 0 \/ queue # <<>>
       THEN /\ queue' = Append(queue, c)
            /\ status' = [status EXCEPT ![c] = "waiting"]
            /\ UNCHANGED readers
       ELSE /\ readers' = readers + 1
            /\ status' = [status EXCEPT ![c] = "holding"]
            /\ UNCHANGED queue

\* writeLock(callback, options)
WriteLock(c) ==
    /\ c \in Writers
    /\ status[c] \in {"none", "released"}
    /\ IF readers # 0 \/ queue # <<>>
       THEN /\ queue' = Append(queue, c)
            /\ status' = [status EXCEPT ![c] = "waiting"]
            /\ UNCHANGED readers
       ELSE /\ readers' = -1
            /\ status' = [status EXCEPT ![c] = "holding"]
            /\ UNCHANGED queue

\* Mutant of ReleaseRead: a release that forgets the `released` flag
ReleaseReadTwice(c) ==
    /\ c \in Readers
    /\ status[c] \in {"holding", "released"}
    /\ Poll(c, readers - 1)

\* The release function handed to a callback; only its first call counts.
ReleaseRead(c) ==
    /\ c \in Readers
    /\ status[c] \in {"holding", "released"}
    /\ IF status[c] = "holding" THEN Poll(c, readers - 1) ELSE UNCHANGED vars

ReleaseWrite(c) ==
    /\ c \in Writers
    /\ status[c] \in {"holding", "released"}
    /\ IF status[c] = "holding" THEN Poll(c, 0) ELSE UNCHANGED vars

\* The timeout of a call that still waits: its closure is terminated, and
\* left in the queue.
Timeout(c) ==
    /\ c \in Timed
    /\ status[c] = "waiting"
    /\ status' = [status EXCEPT ![c] = "timedOut"]
    /\ UNCHANGED <<readers, queue>>

Next ==
    \E c \in Clients :
        \/ ReadLock(c) \/ WriteLock(c)
        \/ ReleaseRead(c) \/ ReleaseWrite(c)
        \/ Timeout(c)

Spec == Init /\ [][Next]_vars

\* "This must be called by the ReadWriteLock user at some point": every
\* holder releases in the end.
Release(c) == status[c] = "holding" /\ (ReleaseRead(c) \/ ReleaseWrite(c))
FairSpec == Spec /\ \A c \in Clients : WF_vars(Release(c))

-----------------------------------------------------------------------------
TypeOK ==
    /\ readers \in -1..Cardinality(Readers)
    /\ queue \in Seq(Clients)
    /\ status \in [Clients -> Statuses]

\* The three rules of the header comment: readers share the lock, a writer
\* has it alone, and lock.readers says which of the two it is.  Releasing
\* twice, or a poll that admits one closure too many, breaks it.
Exclusion ==
    \/ /\ Holding(Writers) = {}
       /\ readers = Cardinality(Holding(Readers))
    \/ /\ \E w \in Writers : Holding(Clients) = {w}
       /\ readers = -1

\* No lost wakeup: a call waits only while the calls that have the lock
\* exclude the one at the head of the queue, or behind one that has timed out.
NoLostWakeup ==
    queue # <<>> =>
        \/ status[queue[1]] = "timedOut"
        \/ readers < 0
        \/ readers > 0 /\ queue[1] \in Writers

\* First come, first served: nobody gets the lock before a call that was
\* queued earlier, not even a reader that could share it.
FirstComeFirstServed ==
    [][ \A c \in Clients :
          status[c] # "holding" /\ status'[c] = "holding" =>
             \A i \in DOMAIN queue :
                 status'[queue[i]] = "holding"
                 \/ \E j \in DOMAIN queue : j < i /\ queue[j] = c ]_vars

(***************************************************************************)
(* The whole promise: without its counter and its closures, the lock is    *)
(* the one of IdealLock.  Whoever has the lock may have it, it goes to the *)
(* front of the queue and as far as it can, and never to a caller whose    *)
(* timeout has run out.                                                    *)
(***************************************************************************)
Ideal == INSTANCE IdealLock WITH
    holders <- Holding(Clients),
    line <- queue,
    gaveUp <- {c \in Clients : status[c] = "timedOut"}

ImplementsIdealLock == Ideal!Spec

\* Every call of the lock gets it in the end, unless it or another one times
\* out.
EveryCallIsServed ==
    \A c \in Clients :
        status[c] = "waiting" ~>
            \/ status[c] = "holding"
            \/ \E d \in Clients : status[d] = "timedOut"
=============================================================================
