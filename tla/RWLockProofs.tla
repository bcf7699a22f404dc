---------------------------- MODULE RWLockProofs ----------------------------
(***************************************************************************)
(* Proofs about the lock, for any callers and any timeouts: it excludes    *)
(* what it has to exclude, and it is first come, first served.             *)
(*                                                                         *)
(* Exclusion alone is not inductive: that a release admits n readers makes *)
(* n holders only if nobody is queued twice, and if a queued caller is not *)
(* a holder.  QueueOK says so.                                             *)
(***************************************************************************)
EXTENDS RWLock, FiniteSetTheorems, TLAPS

Typed ==
    /\ readers \in Int
    /\ queue \in Seq(Clients)
    /\ status \in [Clients -> Statuses]

QueueOK ==
    /\ \A i \in DOMAIN queue : status[queue[i]] \in {"waiting", "timedOut"}
    /\ \A i, j \in DOMAIN queue : queue[i] = queue[j] => i = j

IInv == Typed /\ QueueOK /\ Exclusion

-----------------------------------------------------------------------------
\* The first n entries of a queue without duplicates are n callers.
LEMMA DistinctPrefix ==
    ASSUME NEW q, NEW n \in Nat, NEW T,
           \A i \in 1..n : q[i] \in T,
           \A y \in T : \E i \in 1..n : q[i] = y,
           \A i, j \in 1..n : q[i] = q[j] => i = j
    PROVE  IsFiniteSet(T) /\ Cardinality(T) = n
<1> DEFINE f == [i \in 1..n |-> q[i]]
<1>1. f \in Bijection(1..n, T)
  <2>1. f \in [1..n -> T]
    OBVIOUS
  <2>2. \A i, j \in 1..n : f[i] = f[j] => i = j
    OBVIOUS
  <2>3. \A y \in T : \E i \in 1..n : f[i] = y
    OBVIOUS
  <2> QED
    BY <2>1, <2>2, <2>3 DEF Bijection, Injection, Surjection, IsInjective
<1>2. ExistsBijection(1..n, T)
  BY <1>1 DEF ExistsBijection
<1>3. IsFiniteSet(1..n) /\ Cardinality(1..n) = n
  BY FS_Interval
<1> QED
  BY <1>2, <1>3, FS_Bijection

\* The sets of holders are finite.
LEMMA HoldersFinite ==
    ASSUME NEW S \in SUBSET Clients
    PROVE  IsFiniteSet(S)
BY ClientsAssumption, FS_Subset

\* A caller that is told to wait leaves the queue in order.
LEMMA Enqueue ==
    ASSUME Typed, QueueOK, Exclusion,
           NEW c \in Clients, status[c] \in {"none", "released"},
           queue' = Append(queue, c),
           status' = [status EXCEPT ![c] = "waiting"],
           UNCHANGED readers
    PROVE  IInv'
<1>1. Typed'
  BY DEF Typed, Statuses
<1>2. QueueOK'
  <2>1. \A i \in DOMAIN queue : queue[i] # c /\ queue[i] \in Clients
    BY DEF QueueOK, Typed
  <2>2. /\ DOMAIN queue' = 1..(Len(queue) + 1)
        /\ \A i \in DOMAIN queue : queue'[i] = queue[i]
        /\ queue'[Len(queue) + 1] = c
        /\ DOMAIN queue = 1..Len(queue) /\ Len(queue) \in Nat
    BY DEF Typed
  <2>3. \A i \in DOMAIN queue' : status'[queue'[i]] \in {"waiting", "timedOut"}
    BY <2>1, <2>2 DEF Typed, QueueOK
  <2>4. \A i, j \in DOMAIN queue' : queue'[i] = queue'[j] => i = j
    BY <2>1, <2>2 DEF QueueOK
  <2> QED
    BY <2>3, <2>4 DEF QueueOK
<1>3. Exclusion'
  <2>1. \A S \in SUBSET Clients : Holding(S)' = Holding(S)
    BY DEF Holding, Typed
  <2> QED
    BY <2>1 DEF Exclusion, Clients
<1> QED
  BY <1>1, <1>2, <1>3 DEF IInv

-----------------------------------------------------------------------------
\* What a release does to the holders: those that are left, all of them
\* readers, and the n callers that Poll admits.
LEMMA PollStep ==
    ASSUME IInv, NEW c \in Clients, status[c] = "holding",
           NEW rd \in Nat,
           Holding(Clients) \ {c} \subseteq Readers,
           rd = Cardinality(Holding(Clients) \ {c}),
           Poll(c, rd)
    PROVE  IInv'
<1> USE DEF IInv
<1> DEFINE Left == Holding(Clients) \ {c}
<1>1. PICK n \in 0..Len(queue) :
        /\ Admitted(rd, queue, n)
        /\ queue' = SubSeq(queue, n + 1, Len(queue))
        /\ readers' = IF n = 1 /\ queue[1] \in Writers THEN -1 ELSE rd + n
        /\ status' = [x \in Clients |->
                        IF \E i \in 1..n : queue[i] = x THEN "holding"
                        ELSE IF x = c THEN "released" ELSE status[x]]
  BY DEF Poll
<1> DEFINE In == {queue[i] : i \in 1..n}
<1>2. /\ Len(queue) \in Nat /\ DOMAIN queue = 1..Len(queue)
      /\ \A i \in 1..Len(queue) : queue[i] \in Clients
      /\ \A i \in 1..n : i \in DOMAIN queue
  BY DEF Typed
<1>3. Typed'
  <2>1. queue' \in Seq(Clients)
    BY <1>1, <1>2 DEF Typed
  <2>2. status' \in [Clients -> Statuses]
    BY <1>1 DEF Typed, Statuses
  <2>3. readers' \in Int
    BY <1>1
  <2> QED
    BY <2>1, <2>2, <2>3 DEF Typed
<1>4. QueueOK'
  <2>1. /\ DOMAIN queue' = 1..(Len(queue) - n)
        /\ \A i \in 1..(Len(queue) - n) :
              queue'[i] = queue[n + i] /\ n + i \in DOMAIN queue
    BY <1>1, <1>2
  <2>2. ASSUME NEW i \in DOMAIN queue'
        PROVE  status'[queue'[i]] \in {"waiting", "timedOut"}
    <3>1. /\ queue'[i] = queue[n + i] /\ n + i \in DOMAIN queue
          /\ n + i \notin 1..n
      BY <2>1
    <3>2. status[queue[n + i]] \in {"waiting", "timedOut"}
      BY <3>1 DEF QueueOK
    <3>3. ~ \E k \in 1..n : queue[k] = queue[n + i]
      BY <3>1, <1>2 DEF QueueOK
    <3> QED
      BY <1>1, <1>2, <3>1, <3>2, <3>3
  <2>3. \A i, j \in DOMAIN queue' : queue'[i] = queue'[j] => i = j
    <3> SUFFICES ASSUME NEW i \in DOMAIN queue', NEW j \in DOMAIN queue',
                        queue'[i] = queue'[j]
                 PROVE  i = j
      OBVIOUS
    <3>1. /\ queue[n + i] = queue[n + j] /\ i \in Int /\ j \in Int
          /\ n + i \in DOMAIN queue /\ n + j \in DOMAIN queue
      BY <2>1
    <3>2. \A x, y \in DOMAIN queue : queue[x] = queue[y] => x = y
      BY DEF QueueOK
    <3>3. n + i = n + j
      BY <3>1, <3>2
    <3> QED
      BY <3>1, <3>3
  <2> QED
    BY <2>2, <2>3 DEF QueueOK
<1>5. In \cap Holding(Clients) = {} /\ In \subseteq Clients
  BY <1>2 DEF QueueOK, Holding
<1>6. Holding(Clients)' = Left \cup In
  BY <1>1, <1>2 DEF Holding, Typed
<1>7. IsFiniteSet(In) /\ Cardinality(In) = n
  <2>1. n \in Nat /\ \A i, j \in 1..n : queue[i] = queue[j] => i = j
    BY <1>2 DEF QueueOK
  <2>2. /\ \A i \in 1..n : queue[i] \in In
        /\ \A y \in In : \E i \in 1..n : queue[i] = y
    OBVIOUS
  <2> HIDE DEF In, IInv
  <2> QED
    BY ONLY <2>1, <2>2, DistinctPrefix
<1>8. IsFiniteSet(Left) /\ Left \subseteq Clients
  BY HoldersFinite DEF Holding
<1>9. Exclusion'
  <2>1. CASE n = 1 /\ queue[1] \in Writers
    <3>1. rd = 0
      BY <1>1, <1>2, <2>1, ClientsAssumption DEF Admitted
    <3>2. Left = {}
      BY <3>1, <1>8, FS_EmptySet
    <3>3. In = {queue[1]}
      BY <2>1
    <3> QED
      BY <1>1, <1>6, <2>1, <3>2, <3>3 DEF Exclusion
  <2>2. CASE ~(n = 1 /\ queue[1] \in Writers)
    <3>1. In \subseteq Readers
      BY <1>1, <2>2 DEF Admitted
    <3>2. /\ Holding(Writers)' = {}
          /\ Holding(Readers)' = Left \cup In
      BY <1>6, <3>1, ClientsAssumption DEF Holding, Clients
    <3>3. Cardinality(Left \cup In)
            = Cardinality(Left) + Cardinality(In) - Cardinality(Left \cap In)
      BY <1>7, <1>8, FS_Union
    <3>4. Left \cap In = {}
      BY <1>5
    <3>5. Cardinality(Left \cap In) = 0 /\ rd = Cardinality(Left)
      BY <3>4, FS_EmptySet
    <3>6. Cardinality(Left \cup In) = rd + n
      <4> HIDE DEF Left, In
      <4> QED
        BY <1>7, <3>3, <3>5
    <3> QED
      BY <1>1, <2>2, <3>2, <3>6 DEF Exclusion
  <2> QED
    BY <2>1, <2>2
<1> QED
  BY <1>3, <1>4, <1>9

-----------------------------------------------------------------------------
LEMMA InitIInv == Init => IInv
<1> SUFFICES ASSUME Init PROVE IInv
  OBVIOUS
<1>1. Typed
  BY DEF Init, Typed, Statuses
<1>2. QueueOK
  BY DEF Init, QueueOK
<1>3. Holding(Writers) = {} /\ Holding(Readers) = {}
  BY DEF Init, Holding, Clients
<1> QED
  BY <1>1, <1>2, <1>3, FS_EmptySet DEF Init, IInv, Exclusion

LEMMA NextIInv == IInv /\ [Next]_vars => IInv'
<1> SUFFICES ASSUME IInv, [Next]_vars PROVE IInv'
  OBVIOUS
<1> USE DEF IInv
<1>h. \A S \in SUBSET Clients :
        /\ Holding(S) = Holding(Clients) \cap S
        /\ IsFiniteSet(Holding(S)) /\ Holding(S) \in SUBSET Clients
  BY HoldersFinite DEF Holding
<1>1. ASSUME NEW c \in Clients, ReadLock(c) PROVE IInv'
  <2>1. CASE readers < 0 \/ queue # <<>>
    BY <1>1, <2>1, Enqueue DEF ReadLock
  <2>2. CASE ~(readers < 0 \/ queue # <<>>)
    <3>1. /\ c \in Readers /\ status[c] # "holding"
          /\ readers' = readers + 1
          /\ status' = [status EXCEPT ![c] = "holding"]
          /\ queue' = queue /\ queue = <<>>
      BY <1>1, <2>2 DEF ReadLock
    <3>2. Holding(Writers) = {} /\ readers = Cardinality(Holding(Readers))
      BY <2>2 DEF Exclusion, Typed
    <3>3. /\ Holding(Writers)' = {}
          /\ Holding(Readers)' = Holding(Readers) \cup {c}
          /\ c \notin Holding(Readers)
      BY <3>1, <3>2, ClientsAssumption DEF Holding, Typed, Clients
    <3>4. Cardinality(Holding(Readers) \cup {c})
            = Cardinality(Holding(Readers)) + 1
      BY <1>h, <3>3, FS_AddElement DEF Clients
    <3>5. Exclusion'
      BY <3>1, <3>2, <3>3, <3>4 DEF Exclusion
    <3>6. Typed' /\ QueueOK'
      BY <3>1 DEF Typed, QueueOK, Statuses
    <3> QED
      BY <3>5, <3>6
  <2> QED
    BY <2>1, <2>2
<1>2. ASSUME NEW c \in Clients, WriteLock(c) PROVE IInv'
  <2>1. CASE readers # 0 \/ queue # <<>>
    BY <1>2, <2>1, Enqueue DEF WriteLock
  <2>2. CASE ~(readers # 0 \/ queue # <<>>)
    <3>1. /\ c \in Writers /\ readers' = -1
          /\ status' = [status EXCEPT ![c] = "holding"]
          /\ queue' = queue /\ queue = <<>> /\ readers = 0
      BY <1>2, <2>2 DEF WriteLock
    <3>2. Holding(Writers) = {} /\ Holding(Readers) = {}
      BY <1>h, <3>1, FS_EmptySet DEF Exclusion, Clients
    <3>3. Holding(Clients)' = {c}
      BY <3>1, <3>2 DEF Holding, Typed, Clients
    <3>4. Exclusion'
      BY <3>1, <3>3 DEF Exclusion
    <3>5. Typed' /\ QueueOK'
      BY <3>1 DEF Typed, QueueOK, Statuses
    <3> QED
      BY <3>4, <3>5
  <2> QED
    BY <2>1, <2>2
<1>3. ASSUME NEW c \in Clients, ReleaseRead(c) PROVE IInv'
  <2>1. CASE status[c] = "holding"
    <3>1. c \in Readers /\ c \in Holding(Readers) /\ Poll(c, readers - 1)
      BY <1>3, <2>1 DEF ReleaseRead, Holding
    <3>2. Holding(Writers) = {} /\ readers = Cardinality(Holding(Readers))
      <4>1. ~ \E w \in Writers : Holding(Clients) = {w}
        BY <2>1, <3>1, ClientsAssumption DEF Holding
      <4> QED
        BY <4>1 DEF Exclusion
    <3>3. Holding(Clients) = Holding(Readers)
      BY <3>2 DEF Holding, Clients
    <3>4. Cardinality(Holding(Clients) \ {c}) = readers - 1
      BY <1>h, <3>1, <3>2, <3>3, FS_RemoveElement
    <3>5. readers - 1 \in Nat
      BY <1>h, <3>4, FS_CardinalityType, FS_Subset, HoldersFinite
    <3>6. Holding(Clients) \ {c} \subseteq Readers
      BY <3>3 DEF Holding
    <3> QED
      BY <2>1, <3>1, <3>4, <3>5, <3>6, PollStep
  <2>2. CASE status[c] # "holding"
    BY <1>3, <2>2 DEF ReleaseRead, vars, Typed, QueueOK, Exclusion, Holding
  <2> QED
    BY <2>1, <2>2
<1>4. ASSUME NEW c \in Clients, ReleaseWrite(c) PROVE IInv'
  <2>1. CASE status[c] = "holding"
    <3>1. c \in Writers /\ c \in Holding(Writers) /\ Poll(c, 0)
      BY <1>4, <2>1 DEF ReleaseWrite, Holding
    <3>2. Holding(Clients) = {c}
      BY <2>1, <3>1 DEF Exclusion, Holding
    <3>3. Holding(Clients) \ {c} = {}
      BY <3>2
    <3> QED
      BY <2>1, <3>1, <3>3, FS_EmptySet, PollStep
  <2>2. CASE status[c] # "holding"
    BY <1>4, <2>2 DEF ReleaseWrite, vars, Typed, QueueOK, Exclusion, Holding
  <2> QED
    BY <2>1, <2>2
<1>5. ASSUME NEW c \in Clients, Timeout(c) PROVE IInv'
  <2>1. /\ status' = [status EXCEPT ![c] = "timedOut"]
        /\ status[c] = "waiting"
        /\ queue' = queue /\ readers' = readers
    BY <1>5 DEF Timeout
  <2>2. \A S \in SUBSET Clients : Holding(S)' = Holding(S)
    BY <2>1 DEF Holding, Typed
  <2>3. Exclusion'
    BY <2>1, <2>2 DEF Exclusion, Clients
  <2>4. Typed' /\ QueueOK'
    BY <2>1 DEF Typed, QueueOK, Statuses
  <2> QED
    BY <2>3, <2>4
<1>6. CASE UNCHANGED vars
  BY <1>6 DEF vars, Typed, QueueOK, Exclusion, Holding
<1> QED
  BY <1>1, <1>2, <1>3, <1>4, <1>5, <1>6 DEF Next

\* The reader count stays between that of a writer and that of all readers.
THEOREM LockIsTyped == Spec => []TypeOK
<1>1. IInv => TypeOK
  <2> SUFFICES ASSUME IInv PROVE TypeOK
    OBVIOUS
  <2>1. Holding(Readers) \in SUBSET Readers /\ IsFiniteSet(Readers)
    BY HoldersFinite DEF Holding, Clients
  <2>2. /\ Cardinality(Holding(Readers)) \in Nat
        /\ Cardinality(Readers) \in Nat
        /\ Cardinality(Holding(Readers)) <= Cardinality(Readers)
    BY <2>1, FS_Subset, FS_CardinalityType
  <2> QED
    BY <2>2 DEF IInv, Typed, Exclusion, TypeOK
<1> QED
  BY <1>1, InitIInv, NextIInv, PTL DEF Spec

\* Readers share the lock, a writer has it alone, and lock.readers counts
\* them, whatever the callers and the timeouts are.
THEOREM LockExcludes == Spec => []Exclusion
<1>1. IInv => Exclusion
  BY DEF IInv
<1> QED
  BY <1>1, InitIInv, NextIInv, PTL DEF Spec

-----------------------------------------------------------------------------
\* Those that a release admits come before everybody else in the queue.
LEMMA PollIsFair ==
    ASSUME IInv, NEW r \in Clients, NEW rd \in Int, Poll(r, rd),
           NEW c \in Clients, status[c] # "holding", status'[c] = "holding",
           NEW i \in DOMAIN queue
    PROVE  \/ status'[queue[i]] = "holding"
           \/ \E j \in DOMAIN queue : j < i /\ queue[j] = c
<1>1. PICK n \in 0..Len(queue) :
        status' = [x \in Clients |->
                     IF \E k \in 1..n : queue[k] = x THEN "holding"
                     ELSE IF x = r THEN "released" ELSE status[x]]
  BY DEF Poll
<1>2. PICK k \in 1..n : queue[k] = c
  BY <1>1
<1>3. /\ DOMAIN queue = 1..Len(queue) /\ Len(queue) \in Nat
      /\ queue[i] \in Clients
  BY DEF IInv, Typed
<1>4. CASE i <= n
  BY <1>1, <1>3, <1>4
<1>5. CASE i > n
  BY <1>2, <1>3, <1>5
<1> QED
  BY <1>3, <1>4, <1>5

\* Nobody gets the lock before a call that was queued earlier.
THEOREM LockIsFirstComeFirstServed == Spec => FirstComeFirstServed
<1>1. ASSUME IInv, [Next]_vars,
             NEW c \in Clients, status[c] # "holding", status'[c] = "holding",
             NEW i \in DOMAIN queue
      PROVE  \/ status'[queue[i]] = "holding"
             \/ \E j \in DOMAIN queue : j < i /\ queue[j] = c
  <2>0. readers \in Int /\ queue \in Seq(Clients) /\ queue # <<>>
        /\ status \in [Clients -> Statuses]
    BY <1>1 DEF IInv, Typed
  <2>1. ASSUME NEW r \in Clients, ReadLock(r) \/ WriteLock(r) \/ Timeout(r)
        PROVE  FALSE
    BY <1>1, <2>0, <2>1 DEF ReadLock, WriteLock, Timeout
  <2>2. ASSUME NEW r \in Clients, ReleaseRead(r) \/ ReleaseWrite(r)
        PROVE  \E rd \in Int : Poll(r, rd)
    BY <1>1, <2>0, <2>2 DEF ReleaseRead, ReleaseWrite, vars
  <2>3. CASE UNCHANGED vars
    BY <1>1, <2>3 DEF vars
  <2> QED
    BY <1>1, <2>1, <2>2, <2>3, PollIsFair DEF Next
<1>2. IInv /\ [Next]_vars
        => [ \A c \in Clients :
               status[c] # "holding" /\ status'[c] = "holding" =>
                 \A i \in DOMAIN queue :
                    status'[queue[i]] = "holding"
                    \/ \E j \in DOMAIN queue : j < i /\ queue[j] = c ]_vars
  BY <1>1
<1> QED
  BY <1>2, InitIInv, NextIInv, PTL DEF Spec, FirstComeFirstServed

-----------------------------------------------------------------------------
\* No lost wakeup: Admitted stops only at a closure that the holders exclude,
\* or at one that is terminated.
WakeInv == IInv /\ NoLostWakeup

LEMMA PollWakes ==
    ASSUME IInv, NEW r \in Clients, status[r] = "holding",
           NEW rd \in Int, Poll(r, rd)
    PROVE  NoLostWakeup'
<1>1. PICK n \in 0..Len(queue) :
        /\ Admitted(rd, queue, n)
        /\ queue' = SubSeq(queue, n + 1, Len(queue))
        /\ readers' = IF n = 1 /\ queue[1] \in Writers THEN -1 ELSE rd + n
        /\ status' = [x \in Clients |->
                        IF \E i \in 1..n : queue[i] = x THEN "holding"
                        ELSE IF x = r THEN "released" ELSE status[x]]
  BY DEF Poll
<1>2. /\ queue \in Seq(Clients) /\ Len(queue) \in Nat
      /\ DOMAIN queue = 1..Len(queue)
      /\ status \in [Clients -> Statuses]
  BY DEF IInv, Typed
<1> SUFFICES ASSUME queue' # <<>>, ~(readers' < 0)
             PROVE  \/ status'[queue'[1]] = "timedOut"
                    \/ readers' > 0 /\ queue'[1] \in Writers
  BY DEF NoLostWakeup
<1>3. n < Len(queue) /\ queue'[1] = queue[n + 1] /\ n + 1 \in 1..Len(queue)
  BY <1>1, <1>2
<1>4. /\ queue[n + 1] \in Clients
      /\ status'[queue[n + 1]] = status[queue[n + 1]]
  <2>1. \A i \in 1..n : queue[i] # queue[n + 1]
    BY <1>2, <1>3 DEF IInv, QueueOK
  <2>2. queue[n + 1] # r
    BY <1>2, <1>3 DEF IInv, QueueOK
  <2> QED
    BY <1>1, <1>2, <1>3, <2>1, <2>2
<1>5. CASE ~Live(queue, n + 1)
  BY <1>2, <1>3, <1>4, <1>5 DEF IInv, QueueOK, Live
<1>6. CASE Live(queue, n + 1)
  <2>1. ~(n = 1 /\ queue[1] \in Writers) /\ readers' = rd + n
    BY <1>1
  <2>2. /\ rd >= 0
        /\ ~(queue[n + 1] \in Readers /\ Live(queue, n + 1))
        /\ n = 0 => ~(rd = 0 /\ queue # <<>> /\ queue[1] \in Writers
                        /\ Live(queue, 1))
    BY <1>1, <1>3, <2>1 DEF Admitted
  <2>3. queue[n + 1] \in Writers
    BY <1>4, <1>6, <2>2 DEF Clients
  <2>4. rd + n > 0
    <3>1. CASE n = 0
      <4>1. queue # <<>> /\ queue[1] \in Writers /\ Live(queue, 1)
        BY <1>2, <1>3, <1>6, <2>3, <3>1
      <4> QED
        BY <2>2, <3>1, <4>1
    <3>2. CASE n # 0
      BY <2>2, <3>2
    <3> QED
      BY <3>1, <3>2
  <2> QED
    BY <1>3, <2>1, <2>3, <2>4
<1> QED
  BY <1>5, <1>6

\* Nobody waits for a lock that would be given to him, unless a call in front
\* of him has timed out (the polling of lock.queue in lock.js).
THEOREM NoWakeupIsLost == Spec => []NoLostWakeup
<1>1. Init => WakeInv
  BY InitIInv DEF WakeInv, Init, NoLostWakeup
<1>2. WakeInv /\ [Next]_vars => WakeInv'
  <2> SUFFICES ASSUME WakeInv, [Next]_vars PROVE WakeInv'
    OBVIOUS
  <2>0. /\ IInv' /\ IInv /\ readers \in Int /\ queue \in Seq(Clients)
        /\ status \in [Clients -> Statuses]
    BY NextIInv DEF WakeInv, IInv, Typed
  <2>1. ASSUME NEW c \in Clients, ReadLock(c) \/ WriteLock(c) PROVE NoLostWakeup'
    <3>1. CASE /\ queue' = Append(queue, c)
               /\ status' = [status EXCEPT ![c] = "waiting"]
               /\ UNCHANGED readers
               /\ queue # <<>>
      <4>1. queue'[1] = queue[1] /\ 1 \in DOMAIN queue
        BY <2>0, <3>1
      <4>2. queue[1] \in Clients /\ queue[1] # c
        BY <2>0, <2>1, <4>1 DEF IInv, QueueOK, ReadLock, WriteLock
      <4>3. status'[queue[1]] = status[queue[1]]
        BY <2>0, <3>1, <4>2
      <4> QED
        BY <3>1, <4>1, <4>3 DEF WakeInv, NoLostWakeup
    <3>2. CASE queue = <<>>
      BY <2>0, <2>1, <3>2 DEF ReadLock, WriteLock, NoLostWakeup, IInv, Exclusion
    <3> QED
      BY <2>1, <3>1, <3>2 DEF ReadLock, WriteLock
  <2>2. ASSUME NEW c \in Clients, ReleaseRead(c) \/ ReleaseWrite(c)
        PROVE  NoLostWakeup'
    <3>1. CASE status[c] = "holding" /\ \E rd \in Int : Poll(c, rd)
      BY <2>0, <3>1, PollWakes
    <3>2. CASE UNCHANGED vars
      BY <3>2 DEF vars, WakeInv, NoLostWakeup
    <3> QED
      BY <2>0, <2>2, <3>1, <3>2 DEF ReleaseRead, ReleaseWrite
  <2>3. ASSUME NEW c \in Clients, Timeout(c) PROVE NoLostWakeup'
    <3>1. /\ status' = [status EXCEPT ![c] = "timedOut"]
          /\ UNCHANGED <<readers, queue>>
      BY <2>3 DEF Timeout
    <3>2. queue # <<>> => queue[1] \in Clients
      BY <2>0
    <3>3. queue # <<>> /\ status[queue[1]] = "timedOut"
            => status'[queue[1]] = "timedOut"
      BY <2>0, <3>1, <3>2
    <3>4. NoLostWakeup
      BY DEF WakeInv
    <3>5. queue' = queue /\ readers' = readers
      BY <3>1
    <3> QED
      BY <3>3, <3>4, <3>5 DEF NoLostWakeup
  <2>4. ASSUME UNCHANGED vars PROVE NoLostWakeup'
    BY <2>4 DEF vars, WakeInv, NoLostWakeup
  <2> QED
    BY <2>0, <2>1, <2>2, <2>3, <2>4 DEF Next, WakeInv
<1>3. WakeInv => NoLostWakeup
  BY DEF WakeInv
<1> QED
  BY <1>1, <1>2, <1>3, PTL DEF Spec

-----------------------------------------------------------------------------
(***************************************************************************)
(* The lock implements IdealLock.  The mapping forgets the counter, so the *)
(* steps need the invariant: Exclusion says what the counter stands for,   *)
(* and Queued that a caller whose timeout runs out stands in the line.     *)
(***************************************************************************)
Queued ==
    \A c \in Clients : status[c] \in {"waiting", "timedOut"} =>
        \E i \in DOMAIN queue : queue[i] = c

SimInv == IInv /\ Queued

TimedOut == {c \in Clients : status[c] = "timedOut"}

\* What a release admits: the callers are the first of the queue, they still
\* wanted the lock, and they join those that keep it.
LEMMA PollAdmits ==
    ASSUME SimInv, NEW c \in Clients, status[c] = "holding",
           NEW rd \in Nat,
           Holding(Clients) \ {c} \subseteq Readers,
           rd = Cardinality(Holding(Clients) \ {c}),
           Poll(c, rd)
    PROVE  \E n \in 0..Len(queue) :
             /\ Admitted(rd, queue, n)
             /\ queue' = SubSeq(queue, n + 1, Len(queue))
             /\ \A i \in 1..n : status[queue[i]] = "waiting"
             /\ Holding(Clients)'
                  = (Holding(Clients) \ {c}) \cup {queue[i] : i \in 1..n}
             /\ TimedOut' = TimedOut
             /\ Queued'
<1> USE DEF SimInv, IInv
<1>1. PICK n \in 0..Len(queue) :
        /\ Admitted(rd, queue, n)
        /\ queue' = SubSeq(queue, n + 1, Len(queue))
        /\ readers' = IF n = 1 /\ queue[1] \in Writers THEN -1 ELSE rd + n
        /\ status' = [x \in Clients |->
                        IF \E i \in 1..n : queue[i] = x THEN "holding"
                        ELSE IF x = c THEN "released" ELSE status[x]]
  BY DEF Poll
<1>2. /\ Len(queue) \in Nat /\ DOMAIN queue = 1..Len(queue)
      /\ \A i \in 1..Len(queue) : queue[i] \in Clients
      /\ \A i \in 1..n : i \in DOMAIN queue
  BY DEF Typed
<1>3. \A i \in 1..n : status[queue[i]] = "waiting"
  BY <1>1, <1>2 DEF Admitted, Live
<1>4. Holding(Clients)'
        = (Holding(Clients) \ {c}) \cup {queue[i] : i \in 1..n}
  BY <1>1, <1>2 DEF Holding, Typed
<1>5. \A x \in Clients : status'[x] = "timedOut" <=> status[x] = "timedOut"
  BY <1>1, <1>3 DEF Typed
<1>6. TimedOut' = TimedOut
  BY <1>5 DEF TimedOut
<1>7. Queued'
  <2> SUFFICES ASSUME NEW x \in Clients, status'[x] \in {"waiting", "timedOut"}
               PROVE  \E i \in DOMAIN queue' : queue'[i] = x
    BY DEF Queued
  <2>1. status[x] \in {"waiting", "timedOut"} /\ ~ \E i \in 1..n : queue[i] = x
    BY <1>1
  <2>2. PICK i \in DOMAIN queue : queue[i] = x
    BY <2>1 DEF Queued
  <2>3. i \in 1..Len(queue) /\ i > n /\ n \in Nat
    BY <1>1, <1>2, <2>1, <2>2
  <2>4. i - n \in DOMAIN queue' /\ queue'[i - n] = queue[i]
    BY <1>1, <1>2, <2>3
  <2> QED
    BY <2>2, <2>4
<1> QED
  BY <1>1, <1>3, <1>4, <1>6, <1>7

\* A release is a step of the ideal lock.
LEMMA PollLeaves ==
    ASSUME SimInv, IInv', NEW c \in Clients, status[c] = "holding",
           NEW rd \in Nat,
           Holding(Clients) \ {c} \subseteq Readers,
           rd = Cardinality(Holding(Clients) \ {c}),
           Poll(c, rd)
    PROVE  Ideal!Leave(c) /\ Queued'
<1> DEFINE Left == Holding(Clients) \ {c}
<1>1. PICK n \in 0..Len(queue) :
        /\ Admitted(rd, queue, n)
        /\ queue' = SubSeq(queue, n + 1, Len(queue))
        /\ \A i \in 1..n : status[queue[i]] = "waiting"
        /\ Holding(Clients)' = Left \cup {queue[i] : i \in 1..n}
        /\ TimedOut' = TimedOut
        /\ Queued'
  BY PollAdmits
<1>2. /\ Len(queue) \in Nat /\ DOMAIN queue = 1..Len(queue)
      /\ \A i \in 1..Len(queue) : queue[i] \in Clients
  BY DEF SimInv, IInv, Typed
<1>3. c \in Holding(Clients)
  BY DEF Holding
<1>4. \A i \in 1..n : queue[i] \notin TimedOut
  BY <1>1 DEF TimedOut
<1>5. Ideal!Compatible(Holding(Clients)')
  BY DEF Ideal!Compatible, IInv, Exclusion, Holding, Clients
<1>6. ASSUME n < Len(queue)
      PROVE  \/ queue[n + 1] \in TimedOut
             \/ ~Ideal!Compatible(Holding(Clients)' \cup {queue[n + 1]})
  <2> DEFINE q == queue[n + 1]
  <2>0. n + 1 \in DOMAIN queue /\ q \in Clients /\ n \in Nat
    BY <1>2, <1>6
  <2>1. status[q] \in {"waiting", "timedOut"}
    BY <2>0 DEF SimInv, IInv, QueueOK
  <2>2. \A i \in 1..n : queue[i] # q
    BY <1>2, <2>0 DEF SimInv, IInv, QueueOK
  <2>3. q \notin Holding(Clients)'
    BY <1>1, <2>1, <2>2 DEF Holding
  <2>4. CASE ~Live(queue, n + 1)
    BY <2>0, <2>1, <2>4 DEF TimedOut, Live
  <2>5. CASE /\ n = 1 /\ rd = 0 /\ queue[1] \in Writers
    <3>1. queue[1] \in Holding(Clients)' /\ queue[1] # q
      BY <1>1, <2>2, <2>5
    <3> QED
      BY <2>5, <3>1, ClientsAssumption DEF Ideal!Compatible
  <2>6. CASE /\ Live(queue, n + 1) /\ q \notin Readers
             /\ n = 0 => ~(rd = 0 /\ queue # <<>> /\ queue[1] \in Writers
                             /\ Live(queue, 1))
    <3>1. q \in Writers
      BY <2>0, <2>6 DEF Clients
    <3>2. Holding(Clients)' # {}
      <4>1. CASE n = 0
        <5>1. queue # <<>> /\ queue[1] = q /\ rd # 0
          BY <1>2, <1>6, <2>6, <3>1, <4>1
        <5>2. Left # {}
          BY <5>1, FS_EmptySet
        <5> QED
          BY <1>1, <5>2
      <4>2. CASE n # 0
        <5>1. 1 \in 1..n
          BY <2>0, <4>2
        <5> QED
          BY <1>1, <5>1
      <4> QED
        BY <4>1, <4>2
    <3> QED
      BY <2>3, <2>6, <3>2 DEF Ideal!Compatible
  <2> QED
    BY <1>1, <1>6, <2>4, <2>5, <2>6 DEF Admitted
<1>7. UNCHANGED TimedOut
  BY <1>1
<1> QED
  BY <1>1, <1>3, <1>4, <1>5, <1>6, <1>7 DEF Ideal!Leave, TimedOut

\* A caller that is told to wait goes to the end of the line.
LEMMA EnqueueWaits ==
    ASSUME SimInv, NEW c \in Clients, status[c] \in {"none", "released"},
           queue # <<>> \/ ~Ideal!Compatible(Holding(Clients) \cup {c}),
           queue' = Append(queue, c),
           status' = [status EXCEPT ![c] = "waiting"]
    PROVE  Ideal!Wait(c) /\ Queued'
<1>1. /\ queue \in Seq(Clients) /\ status \in [Clients -> Statuses]
      /\ DOMAIN queue = 1..Len(queue) /\ Len(queue) \in Nat
  BY DEF SimInv, IInv, Typed
<1>2. \A i \in DOMAIN queue : queue[i] # c
  BY DEF SimInv, IInv, QueueOK
<1>3. Holding(Clients)' = Holding(Clients) /\ c \notin Holding(Clients)
  BY <1>1 DEF Holding
<1>4. {x \in Clients : status[x] = "timedOut"}'
        = {x \in Clients : status[x] = "timedOut"}
  BY <1>1
<1>5. Queued'
  <2> SUFFICES ASSUME NEW x \in Clients, status'[x] \in {"waiting", "timedOut"}
               PROVE  \E i \in DOMAIN queue' : queue'[i] = x
    BY DEF Queued
  <2>1. /\ DOMAIN queue' = 1..(Len(queue) + 1)
        /\ \A i \in DOMAIN queue : queue'[i] = queue[i]
        /\ queue'[Len(queue) + 1] = c
    BY <1>1
  <2>2. CASE x = c
    BY <1>1, <2>1, <2>2
  <2>3. CASE x # c
    <3>1. status[x] \in {"waiting", "timedOut"}
      BY <1>1, <2>3
    <3>2. PICK i \in DOMAIN queue : queue[i] = x
      BY <3>1 DEF SimInv, Queued
    <3> QED
      BY <1>1, <2>1, <3>2
  <2> QED
    BY <2>2, <2>3
<1> QED
  BY <1>2, <1>3, <1>4, <1>5 DEF Ideal!Wait

LEMMA InitSim == Init => SimInv /\ Ideal!Init
BY InitIInv DEF Init, SimInv, Queued, Ideal!Init, Holding

\* Every step of the lock is a step of the ideal lock, or none.
LEMMA NextSim == SimInv /\ [Next]_vars => SimInv' /\ [Ideal!Next]_(Ideal!vars)
<1> SUFFICES ASSUME SimInv, [Next]_vars
             PROVE  Queued' /\ [Ideal!Next]_(Ideal!vars)
  BY NextIInv DEF SimInv
<1>0. IInv /\ IInv' /\ status \in [Clients -> Statuses] /\ readers \in Int
  BY NextIInv DEF SimInv, IInv, Typed
<1>h. \A S \in SUBSET Clients :
        /\ Holding(S) = Holding(Clients) \cap S
        /\ IsFiniteSet(Holding(S)) /\ Holding(S) \in SUBSET Clients
  BY HoldersFinite DEF Holding
<1>1. ASSUME NEW c \in Clients, ReadLock(c)
      PROVE  Queued' /\ (Ideal!Wait(c) \/ Ideal!Enter(c))
  <2>0. c \in Readers /\ status[c] \in {"none", "released"}
        /\ c \notin Holding(Clients)
    BY <1>1 DEF ReadLock, Holding
  <2>1. CASE readers < 0 \/ queue # <<>>
    <3>1. queue # <<>> \/ ~Ideal!Compatible(Holding(Clients) \cup {c})
      <4>1. CASE readers < 0
        <5>1. PICK w \in Writers : Holding(Clients) = {w}
          BY <1>0, <1>h, <4>1, FS_CardinalityType
             DEF IInv, Exclusion, Clients
        <5> QED
          BY <2>0, <5>1, ClientsAssumption DEF Ideal!Compatible
      <4> QED
        BY <2>1, <4>1
    <3> QED
      BY <1>1, <2>0, <2>1, <3>1, EnqueueWaits DEF ReadLock
  <2>2. CASE ~(readers < 0 \/ queue # <<>>)
    <3>1. /\ status' = [status EXCEPT ![c] = "holding"]
          /\ queue' = queue /\ queue = <<>>
      BY <1>1, <2>2 DEF ReadLock
    <3>2. Holding(Clients) \subseteq Readers
      BY <2>2 DEF SimInv, IInv, Exclusion, Holding, Clients
    <3>3. Holding(Clients)' = Holding(Clients) \cup {c}
      BY <1>0, <3>1 DEF Holding
    <3>4. /\ {x \in Clients : status[x] = "timedOut"}'
               = {x \in Clients : status[x] = "timedOut"}
          /\ Queued'
      BY <1>0, <2>0, <3>1 DEF Queued, SimInv
    <3> QED
      BY <2>0, <3>1, <3>2, <3>3, <3>4 DEF Ideal!Enter, Ideal!Compatible
  <2> QED
    BY <2>1, <2>2
<1>2. ASSUME NEW c \in Clients, WriteLock(c)
      PROVE  Queued' /\ (Ideal!Wait(c) \/ Ideal!Enter(c))
  <2>0. c \in Writers /\ status[c] \in {"none", "released"}
        /\ c \notin Holding(Clients)
    BY <1>2 DEF WriteLock, Holding
  <2>1. CASE readers # 0 \/ queue # <<>>
    <3>1. queue # <<>> \/ ~Ideal!Compatible(Holding(Clients) \cup {c})
      <4>1. CASE readers # 0
        <5>1. Holding(Clients) # {}
          BY <1>h, <4>1, FS_EmptySet DEF SimInv, IInv, Exclusion, Clients
        <5> QED
          BY <2>0, <5>1, ClientsAssumption DEF Ideal!Compatible
      <4> QED
        BY <2>1, <4>1
    <3> QED
      BY <1>2, <2>0, <2>1, <3>1, EnqueueWaits DEF WriteLock
  <2>2. CASE ~(readers # 0 \/ queue # <<>>)
    <3>1. /\ status' = [status EXCEPT ![c] = "holding"]
          /\ queue' = queue /\ queue = <<>> /\ readers = 0
      BY <1>2, <2>2 DEF WriteLock
    <3>2. Holding(Clients) = {}
      BY <1>h, <3>1, FS_EmptySet DEF SimInv, IInv, Exclusion, Clients
    <3>3. Holding(Clients)' = Holding(Clients) \cup {c}
      BY <1>0, <3>1 DEF Holding
    <3>4. /\ {x \in Clients : status[x] = "timedOut"}'
               = {x \in Clients : status[x] = "timedOut"}
          /\ Queued'
      BY <1>0, <2>0, <3>1 DEF Queued, SimInv
    <3> QED
      BY <2>0, <3>1, <3>2, <3>3, <3>4 DEF Ideal!Enter, Ideal!Compatible
  <2> QED
    BY <2>1, <2>2
<1>3. ASSUME NEW c \in Clients, ReleaseRead(c), status[c] = "holding"
      PROVE  Queued' /\ Ideal!Leave(c)
  <2>1. c \in Readers /\ c \in Holding(Readers) /\ Poll(c, readers - 1)
    BY <1>3 DEF ReleaseRead, Holding
  <2>2. ~ \E w \in Writers : Holding(Clients) = {w}
    BY <1>3, <2>1, ClientsAssumption DEF Holding
  <2>3. Holding(Writers) = {} /\ readers = Cardinality(Holding(Readers))
    BY <1>0, <2>2 DEF IInv, Exclusion
  <2>4. Holding(Clients) = Holding(Readers)
    BY <2>3 DEF Holding, Clients
  <2>5. Cardinality(Holding(Clients) \ {c}) = readers - 1
    BY <1>h, <2>1, <2>3, <2>4, FS_RemoveElement
  <2>6. readers - 1 \in Nat
    BY <1>h, <2>5, FS_CardinalityType, FS_Subset, HoldersFinite
  <2>7. Holding(Clients) \ {c} \subseteq Readers
    BY <2>4 DEF Holding
  <2> QED
    BY <1>0, <1>3, <2>1, <2>5, <2>6, <2>7, PollLeaves
<1>4. ASSUME NEW c \in Clients, ReleaseWrite(c), status[c] = "holding"
      PROVE  Queued' /\ Ideal!Leave(c)
  <2>1. c \in Writers /\ c \in Holding(Writers) /\ Poll(c, 0)
    BY <1>4 DEF ReleaseWrite, Holding
  <2>2. Holding(Clients) \ {c} = {}
    BY <1>0, <2>1 DEF IInv, Exclusion, Holding
  <2> QED
    BY <1>0, <1>4, <2>1, <2>2, FS_EmptySet, PollLeaves
<1>5. ASSUME NEW c \in Clients, Timeout(c)
      PROVE  Queued' /\ Ideal!GiveUp(c)
  <2>1. /\ status' = [status EXCEPT ![c] = "timedOut"]
        /\ status[c] = "waiting"
        /\ queue' = queue
    BY <1>5 DEF Timeout
  <2>2. Holding(Clients)' = Holding(Clients)
    BY <1>0, <2>1 DEF Holding
  <2>3. {x \in Clients : status[x] = "timedOut"}'
          = {x \in Clients : status[x] = "timedOut"} \cup {c}
    BY <1>0, <2>1
  <2>4. \E i \in DOMAIN queue : queue[i] = c
    BY <2>1 DEF SimInv, Queued
  <2>5. Queued'
    BY <1>0, <2>1 DEF SimInv, Queued
  <2> QED
    BY <2>1, <2>2, <2>3, <2>4, <2>5 DEF Ideal!GiveUp
<1>6. ASSUME UNCHANGED vars
      PROVE  Queued' /\ UNCHANGED Ideal!vars
  BY <1>6 DEF vars, SimInv, Queued, Ideal!vars, Holding
<1>7. ASSUME NEW c \in Clients, ReleaseRead(c) \/ ReleaseWrite(c),
             status[c] # "holding"
      PROVE  UNCHANGED vars
  BY <1>7 DEF ReleaseRead, ReleaseWrite
<1>8. \A c \in Clients : c \in Ideal!Clients
  BY DEF Clients, Ideal!Clients
<1> QED
  BY <1>1, <1>2, <1>3, <1>4, <1>5, <1>6, <1>7, <1>8 DEF Next, Ideal!Next

\* The lock of lock.js is the ideal lock, for any callers and any timeouts.
THEOREM LockImplementsIdealLock == Spec => ImplementsIdealLock
<1> QED
  BY InitSim, NextSim, PTL DEF Spec, ImplementsIdealLock, Ideal!Spec

=============================================================================
