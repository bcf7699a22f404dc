-------------------------- MODULE TournamentProofs --------------------------
(***************************************************************************)
(* Tournament, for any number of players, tables and seats: whoever has    *)
(* the lock of the tournament never waits for that of a table, the place a *)
(* player is told is his for good, and the winner has every chip.          *)
(*                                                                         *)
(* Locks.  That a table was free when handOver chose it is not enough:     *)
(* others may ask for its lock afterwards, reports of other tables may     *)
(* begin, and the tournament's lock may pass on.  LocksHeld says who can   *)
(* have which lock: only the first report of the tournament's queue makes  *)
(* moves, it is the first of the queue of the table it moves a player to,  *)
(* and every report is the first of the queue of its own table.            *)
(*                                                                         *)
(* Ranks.  fixRank moves one player whose chips have changed.  Ranked      *)
(* records stay ranked, and nobody who is out moves (Keeps), through the   *)
(* whole bust queue and every comparison of a rank with a seat.            *)
(*                                                                         *)
(* The record and the tables.  The tournament learns of the chips late, so *)
(* what it knows is right only because of what cannot happen meanwhile.    *)
(* Quiet says where no hand is dealt: at a table whose report is not over, *)
(* or that is to be taken apart further.  Right relates the record to the  *)
(* tables: who has no chips on it is gone, who is gone and has some is     *)
(* queued with one report that is under way, a report of a hand has        *)
(* somebody with chips at its table, and the chips add up.  A report that  *)
(* leaves one player then leaves him every chip, at that table.            *)
(***************************************************************************)
EXTENDS Tournament, Numbers, SequenceTheorems, TLAPS

LEMMA AppendFact ==
    ASSUME NEW S, NEW s \in Seq(S), NEW e \in S
    PROVE  /\ Append(s, e) \in Seq(S) /\ Append(s, e) # <<>>
           /\ s # <<>> => Head(Append(s, e)) = Head(s)
           /\ s = <<>> => Head(Append(s, e)) = e
OBVIOUS

LEMMA TailFact ==
    ASSUME NEW S, NEW s \in Seq(S), s # <<>>
    PROVE  Tail(s) \in Seq(S) /\ Head(s) \in S
OBVIOUS

\* The queues hold calls, and the reports are somewhere.
QueuesOK ==
    /\ queue \in [Tables -> Seq(Calls)]
    /\ tqueue \in Seq(Tables)
    /\ pc \in [Tables -> Pcs]

\* A report has the lock of its table.
ReportHasTable ==
    \A t \in Tables : pc[t] # "none" =>
        queue[t] # <<>> /\ Head(queue[t]).op \in {"over", "rere"}

\* Who makes moves has the lock of the tournament
MoverIsFirst ==
    \A t \in Tables : pc[t] \in {"move", "save"} =>
        tqueue # <<>> /\ Head(tqueue) = t

\* and that of the other table.
MoverHasOther ==
    \A t \in Tables : pc[t] = "move" =>
        /\ job.to \in Tables /\ queue[job.to] # <<>>
        /\ Head(queue[job.to]) = Call("move", t)

LocksHeld == QueuesOK /\ ReportHasTable /\ MoverIsFirst /\ MoverHasOther

LEMMA InitLocks == Init => LocksHeld
<1>1. Call("start", NoTable) \in Calls BY DEF Call, Calls
<1>2. \A e \in Calls : <<e>> \in Seq(Calls) OBVIOUS
<1> QED BY <1>1, <1>2 DEF Init, LocksHeld, QueuesOK, ReportHasTable,
           MoverIsFirst, MoverHasOther, Pcs

\* A call that joins the queue of a table disturbs nobody.
LEMMA AskKeepsLocks ==
    ASSUME LocksHeld, NEW t \in Tables, NEW c \in Calls,
           Ask(t, c), UNCHANGED <<tqueue, pc, job>>
    PROVE  LocksHeld'
<1> USE DEF LocksHeld, QueuesOK
<1>1. \A x \in Tables : /\ queue'[x] \in Seq(Calls)
                        /\ queue[x] # <<>> => /\ queue'[x] # <<>>
                                              /\ Head(queue'[x]) = Head(queue[x])
  BY AppendFact DEF Ask
<1>2. QueuesOK' BY AppendFact DEF Ask
<1> QED BY <1>1, <1>2 DEF ReportHasTable, MoverIsFirst, MoverHasOther

\* Nor does one that is over, when no move was waiting for it.
LEMMA ReleaseKeepsLocks ==
    ASSUME LocksHeld, NEW t \in Tables, queue[t] # <<>>,
           Head(queue[t]).op # "move", Release(t),
           pc' = [pc EXCEPT ![t] = "none"],
           UNCHANGED <<tqueue, job>>
    PROVE  LocksHeld'
<1> USE DEF LocksHeld, QueuesOK
<1>1. \A x \in Tables : x # t => queue'[x] = queue[x]
  BY DEF Release
<1>2. QueuesOK' BY TailFact DEF Release, Pcs
<1>3. ASSUME NEW x \in Tables, pc[x] = "move"
      PROVE  job.to # t
  <2>1. Head(queue[job.to]) = Call("move", x) BY <1>3 DEF MoverHasOther
  <2>2. Call("move", x).op = "move" BY DEF Call
  <2> QED BY <2>1, <2>2
<1>4. ReportHasTable' BY <1>1 DEF ReportHasTable
<1>5. MoverIsFirst' BY DEF MoverIsFirst
<1>6. MoverHasOther' BY <1>1, <1>3 DEF MoverHasOther
<1> QED BY <1>2, <1>4, <1>5, <1>6

\* A call that is no report releases the lock.
LEMMA NoReport ==
    ASSUME LocksHeld, NEW t \in Tables, queue[t] # <<>>,
           Head(queue[t]).op \notin {"over", "rere"}
    PROVE  pc[t] = "none" /\ pc = [pc EXCEPT ![t] = "none"]
BY DEF LocksHeld, QueuesOK, ReportHasTable

\* findEmptyTable finds a table whose lock is free, if any.
LEMMA FoundIsFree ==
    ASSUME NEW n, NEW skip, NEW clear, NEW q, NEW busy,
           EmptyTable(n, skip, clear, q, busy) # NoTable
    PROVE  /\ EmptyTable(n, skip, clear, q, busy) \in Tables
           /\ q[EmptyTable(n, skip, clear, q, busy)] = <<>>
<1> DEFINE found == {x \in Tables : /\ Count(x) < n /\ x # skip /\ x \notin clear
                                    /\ q[x] = <<>> /\ x \notin busy}
<1>1. found # {} BY DEF EmptyTable
<1>2. found \in SUBSET Nat BY TournamentAssumption DEF Tables
<1>3. \E x \in found : \A y \in found : x <= y BY <1>1, <1>2, MinExists
<1> QED BY <1>1, <1>3 DEF EmptyTable

-----------------------------------------------------------------------------
LEMMA PlayHandKeeps ==
    ASSUME LocksHeld, NEW t \in Tables, PlayHand(t)
    PROVE  LocksHeld'
<1>1. Call("over", NoTable) \in Calls BY DEF Call, Calls
<1> QED BY <1>1, AskKeepsLocks DEF PlayHand

LEMMA TimerKeeps ==
    ASSUME LocksHeld, NEW t \in Tables, Timer(t)
    PROVE  LocksHeld'
<1>1. Call("rere", NoTable) \in Calls BY DEF Call, Calls
<1>2. \A d \in Tables : Call("post", d) \in Calls BY DEF Call, Calls
<1> QED BY <1>1, <1>2, AskKeepsLocks DEF Timer, RereTimer, PostTimer

LEMMA StartKeeps ==
    ASSUME LocksHeld, NEW t \in Tables, Start(t)
    PROVE  LocksHeld'
<1>1. queue[t] # <<>> /\ Head(queue[t]).op = "start" BY DEF Start, Has, Free
<1>2. Release(t) /\ UNCHANGED <<tqueue, pc, job>> BY DEF Start
<1>3. pc' = [pc EXCEPT ![t] = "none"] BY <1>1, <1>2, NoReport
<1> QED BY <1>1, <1>2, <1>3, ReleaseKeepsLocks

LEMMA LeaveTableKeeps ==
    ASSUME LocksHeld, NEW t \in Tables, LeaveTable(t)
    PROVE  LocksHeld'
<1>1. queue[t] # <<>> /\ Head(queue[t]).op = "leave"
  BY DEF LeaveTable, Has, Free
<1>2. Release(t) /\ UNCHANGED <<tqueue, pc, job>> BY DEF LeaveTable
<1>3. pc' = [pc EXCEPT ![t] = "none"] BY <1>1, <1>2, NoReport
<1> QED BY <1>1, <1>2, <1>3, ReleaseKeepsLocks

\* The last call of a hand's report, or of rerebalance
LEMMA ReportedKeeps ==
    ASSUME LocksHeld, NEW t \in Tables, Reported(t), pc[t] # "none",
           UNCHANGED tqueue
    PROVE  LocksHeld'
<1>1. queue[t] # <<>> /\ Head(queue[t]).op # "move"
  BY DEF LocksHeld, ReportHasTable
<1> QED BY <1>1, ReleaseKeepsLocks DEF Reported

\* postTransfer: one queue is left, another one joined.
LEMMA PostTransferKeeps ==
    ASSUME LocksHeld, NEW t \in Tables, PostTransfer(t)
    PROVE  LocksHeld'
<1> USE DEF LocksHeld, QueuesOK
<1> DEFINE d == Head(queue[t]).x
           q == [queue EXCEPT ![t] = Tail(@)]
<1>1. queue[t] # <<>> /\ Head(queue[t]).op = "post"
  BY DEF PostTransfer, Has, Free
<1>2. d \in Tables
  <2>1. Head(queue[t]) \in Calls BY <1>1, TailFact
  <2> QED BY <1>1, <2>1 DEF Calls
<1>3. Call("start", NoTable) \in Calls BY DEF Call, Calls
<1>4. q \in [Tables -> Seq(Calls)] BY <1>1, TailFact
<1>5. queue' = [q EXCEPT ![d] = Append(@, Call("start", NoTable))]
  BY DEF PostTransfer
<1>6. UNCHANGED <<tqueue, pc, job>> BY DEF PostTransfer
<1>7. QueuesOK'
  <2>1. Append(q[d], Call("start", NoTable)) \in Seq(Calls)
    BY <1>2, <1>3, <1>4, AppendFact
  <2> HIDE DEF q, d
  <2>2. queue' \in [Tables -> Seq(Calls)] BY <1>4, <1>5, <2>1
  <2> QED BY <2>2, <1>6
<1>8. ASSUME NEW x \in Tables, x # t, queue[x] # <<>>
      PROVE  queue'[x] # <<>> /\ Head(queue'[x]) = Head(queue[x])
  <2>1. q[x] = queue[x] BY <1>8
  <2>2. /\ Append(q[x], Call("start", NoTable)) # <<>>
        /\ Head(Append(q[x], Call("start", NoTable))) = Head(q[x])
    BY <1>3, <1>4, <1>8, <2>1, AppendFact
  <2> HIDE DEF q, d
  <2>3. queue'[x] = q[x] \/ queue'[x] = Append(q[x], Call("start", NoTable))
    BY <1>4, <1>5
  <2> QED BY <1>8, <2>1, <2>2, <2>3
<1>9. pc[t] = "none" BY <1>1, NoReport
<1>10. ASSUME NEW x \in Tables, pc[x] = "move"
       PROVE  job.to # t
  <2>1. Head(queue[job.to]) = Call("move", x) BY <1>10 DEF MoverHasOther
  <2>2. Call("move", x).op = "move" BY DEF Call
  <2> QED BY <1>1, <2>1, <2>2
<1> HIDE DEF q, d
<1>11. ReportHasTable' BY <1>6, <1>8, <1>9 DEF ReportHasTable
<1>12. MoverIsFirst' BY <1>6 DEF MoverIsFirst
<1>13. MoverHasOther' BY <1>6, <1>8, <1>10 DEF MoverHasOther
<1> QED BY <1>7, <1>11, <1>12, <1>13

-----------------------------------------------------------------------------
\* A report that changes neither the queues nor who has moves to make
LEMMA SameLocks ==
    ASSUME LocksHeld, UNCHANGED <<queue, tqueue, pc>>, job'.to = job.to
    PROVE  LocksHeld'
BY DEF LocksHeld, QueuesOK, ReportHasTable, MoverIsFirst, MoverHasOther

LEMMA BeginOverKeeps ==
    ASSUME LocksHeld, NEW t \in Tables, BeginOver(t)
    PROVE  LocksHeld'
BY DEF BeginOver, Has, Free, LocksHeld, QueuesOK, ReportHasTable,
       MoverIsFirst, MoverHasOther, Pcs

\* A report joins the queue of the tournament, with the lock of its table.
LEMMA JoinKeeps ==
    ASSUME LocksHeld, NEW t \in Tables, pc[t] \in {"none", "bust"},
           queue[t] # <<>>, Head(queue[t]).op \in {"over", "rere"},
           pc' = [pc EXCEPT ![t] = "tourn"],
           tqueue' = Append(tqueue, t), UNCHANGED <<queue, job>>
    PROVE  LocksHeld'
<1> USE DEF LocksHeld, QueuesOK
<1>1. /\ tqueue' \in Seq(Tables)
      /\ tqueue # <<>> => tqueue' # <<>> /\ Head(tqueue') = Head(tqueue)
  BY AppendFact
<1>2. QueuesOK' BY <1>1 DEF Pcs
<1>3. ReportHasTable' BY DEF ReportHasTable
<1>4. MoverIsFirst' BY <1>1 DEF MoverIsFirst
<1>5. MoverHasOther' BY DEF MoverHasOther
<1> QED BY <1>2, <1>3, <1>4, <1>5

LEMMA ReportOverKeeps ==
    ASSUME LocksHeld, NEW t \in Tables, ReportOver(t)
    PROVE  LocksHeld'
<1>1. queue[t] # <<>> /\ Head(queue[t]).op \in {"over", "rere"}
  BY DEF ReportOver, LocksHeld, ReportHasTable
<1> QED BY <1>1, JoinKeeps DEF ReportOver

LEMMA ReportAgainKeeps ==
    ASSUME LocksHeld, NEW t \in Tables, ReportAgain(t)
    PROVE  LocksHeld'
BY JoinKeeps DEF ReportAgain, Has, Free

\* The lock of the tournament passes on.
LEMMA SavedBeforeKeeps ==
    ASSUME LocksHeld, NEW t \in Tables, SavedBefore(t)
    PROVE  LocksHeld'
<1> USE DEF LocksHeld, QueuesOK
<1>1. /\ pc[t] = "save" /\ pc' = [pc EXCEPT ![t] = "done"]
      /\ tqueue' = Tail(tqueue) /\ tqueue # <<>>
      /\ UNCHANGED <<queue, job>>
  BY DEF SavedBefore, MoverIsFirst
<1>2. tqueue' \in Seq(Tables) BY <1>1, TailFact
<1>3. \A x \in Tables : x # t => pc[x] \notin {"move", "save"}
  BY <1>1 DEF MoverIsFirst
<1>4. \A x \in Tables : pc'[x] \notin {"move", "save"} BY <1>1, <1>3
<1>5. QueuesOK' BY <1>1, <1>2 DEF Pcs
<1>6. ReportHasTable' BY <1>1 DEF ReportHasTable
<1>7. MoverIsFirst' BY <1>4 DEF MoverIsFirst
<1>8. MoverHasOther' BY <1>4 DEF MoverHasOther
<1> QED BY <1>5, <1>6, <1>7, <1>8

LEMMA SavedKeeps ==
    ASSUME LocksHeld, NEW t \in Tables, Saved(t)
    PROVE  LocksHeld'
<1> USE DEF LocksHeld, QueuesOK
<1>1. /\ pc[t] = "save" /\ tqueue' = <<>> /\ UNCHANGED job
      /\ pc' = [pc EXCEPT ![t] = "none"] /\ Release(t)
  BY DEF Saved, Reported
<1>2. queue[t] # <<>> BY <1>1 DEF ReportHasTable
<1>3. \A x \in Tables : pc'[x] \notin {"move", "save"}
  BY <1>1 DEF MoverIsFirst
<1>4. QueuesOK' BY <1>1, <1>2, TailFact DEF Release, Pcs
<1>5. ReportHasTable' BY <1>1 DEF ReportHasTable, Release
<1> QED BY <1>3, <1>4, <1>5 DEF MoverIsFirst, MoverHasOther

LEMMA ReportedAfterKeeps ==
    ASSUME LocksHeld, NEW t \in Tables, ReportedAfter(t)
    PROVE  LocksHeld'
BY ReportedKeeps DEF ReportedAfter

-----------------------------------------------------------------------------
\* What the holder of the tournament's lock may do to the queues q of the
\* tables: ask for the lock of one that is free, or ask for none.
Chooses(t, q) ==
    \/ /\ job'.to \in Tables /\ q[job'.to] = <<>>
       /\ queue' = [q EXCEPT ![job'.to] = Append(@, Call("move", t))]
       /\ pc' = [pc EXCEPT ![t] = "move"]
    \/ /\ queue' = q
       /\ pc' = [pc EXCEPT ![t] = "save"]

LEMMA ChoosesKeeps ==
    ASSUME QueuesOK, NEW t \in Tables, NEW q \in [Tables -> Seq(Calls)],
           \A x \in Tables : pc[x] # "none" =>
               q[x] # <<>> /\ Head(q[x]).op \in {"over", "rere"},
           pc[t] # "none", tqueue # <<>>, Head(tqueue) = t,
           \A x \in Tables : x # t => pc[x] \notin {"move", "save"},
           UNCHANGED tqueue, Chooses(t, q)
    PROVE  LocksHeld'
<1> USE DEF QueuesOK
<1>1. Call("move", t) \in Calls BY DEF Call, Calls
<1>2. /\ queue' \in [Tables -> Seq(Calls)]
      /\ \A x \in Tables : q[x] # <<>> => queue'[x] = q[x]
  <2>1. CASE queue' = q BY <2>1
  <2>2. ASSUME NEW d \in Tables, q[d] = <<>>,
               queue' = [q EXCEPT ![d] = Append(@, Call("move", t))]
        PROVE  /\ queue' \in [Tables -> Seq(Calls)]
               /\ \A x \in Tables : q[x] # <<>> => queue'[x] = q[x]
    <3>1. Append(q[d], Call("move", t)) \in Seq(Calls) BY <1>1, AppendFact
    <3> QED BY <2>2, <3>1
  <2> QED BY <2>1, <2>2 DEF Chooses
<1>3. QueuesOK' BY <1>2 DEF Chooses, Pcs
<1>4. ReportHasTable' BY <1>2 DEF ReportHasTable, Chooses
<1>5. MoverIsFirst' BY DEF MoverIsFirst, Chooses
<1>6. MoverHasOther'
  <2> SUFFICES ASSUME NEW x \in Tables, pc'[x] = "move"
               PROVE  /\ job'.to \in Tables /\ queue'[job'.to] # <<>>
                      /\ Head(queue'[job'.to]) = Call("move", x)
    BY DEF MoverHasOther
  <2>1. x = t /\ pc'[t] = "move" BY DEF Chooses
  <2>2. /\ job'.to \in Tables /\ q[job'.to] = <<>>
        /\ queue' = [q EXCEPT ![job'.to] = Append(@, Call("move", t))]
    BY <2>1 DEF Chooses
  <2>3. queue'[job'.to] = Append(<<>>, Call("move", t)) BY <2>2
  <2> QED BY <1>1, <2>1, <2>2, <2>3, AppendFact
<1> QED BY <1>3, <1>4, <1>5, <1>6 DEF LocksHeld

LEMMA RebalanceChooses ==
    ASSUME NEW t \in Tables, NEW d \in Tables, NEW target, NEW kind, NEW q,
           q[d] = <<>>, Rebalance(t, d, target, kind, q)
    PROVE  Chooses(t, q)
<1>1. job'.to = d BY DEF Rebalance
<1> QED BY <1>1 DEF Rebalance, Chooses

LEMMA SaveChooses ==
    ASSUME NEW t \in Tables, NEW q, Save(t, q)
    PROVE  Chooses(t, q)
BY DEF Save, Chooses

\* The table a player is moved to is free: findEmptyTable says so.
LEMMA BalanceChooses ==
    ASSUME NEW t \in Tables, NEW busy, Balance(t, busy)
    PROVE  Chooses(t, queue)
<1> DEFINE tooMany == Cardinality(Occupied) > MinTables /\ Count(t) = Least
           clear == IF tooMany THEN clearOut \cup {t} ELSE clearOut
           d == EmptyTable(OneMore, t, clear, queue, busy)
           e == EmptyTable(TargetPlayers, NoTable, clear, queue, busy)
<1>1. d # NoTable => d \in Tables /\ queue[d] = <<>> BY FoundIsFree
<1>2. e # NoTable => e \in Tables /\ queue[e] = <<>> BY FoundIsFree
<1>3. \/ d # NoTable /\ Rebalance(t, d, OneMore, "first", queue)
      \/ e # NoTable /\ Rebalance(t, e, TargetPlayers, "even", queue)
      \/ Save(t, queue)
  BY DEF Balance
<1> HIDE DEF d, e
<1> QED BY <1>1, <1>2, <1>3, RebalanceChooses, SaveChooses

LEMMA HandOverKeeps ==
    ASSUME LocksHeld, NEW t \in Tables, HandOver(t)
    PROVE  LocksHeld'
<1> USE DEF LocksHeld, QueuesOK
<1>1. /\ tqueue # <<>> /\ Head(tqueue) = t /\ pc[t] = "tourn"
      /\ UNCHANGED tqueue
  BY DEF HandOver, Decides
<1>2. \A x \in Tables : pc[x] \notin {"move", "save"}
  BY <1>1 DEF MoverIsFirst
<1> DEFINE q == [queue EXCEPT ![t] = Append(@, Call("leave", NoTable))]
<1>3. CASE Chooses(t, queue)
  BY <1>1, <1>2, <1>3, ChoosesKeeps DEF ReportHasTable
<1>4. CASE Save(t, q)
  <2>1. Call("leave", NoTable) \in Calls BY DEF Call, Calls
  <2>2. /\ q \in [Tables -> Seq(Calls)]
        /\ \A x \in Tables : queue[x] # <<>> =>
               q[x] # <<>> /\ Head(q[x]) = Head(queue[x])
    <3> DEFINE c == Call("leave", NoTable)
    <3> HIDE DEF c
    <3>1. /\ Append(queue[t], c) \in Seq(Calls) /\ Append(queue[t], c) # <<>>
          /\ queue[t] # <<>> => Head(Append(queue[t], c)) = Head(queue[t])
      <4>1. queue[t] \in Seq(Calls) BY DEF LocksHeld, QueuesOK
      <4>2. c \in Calls BY <2>1 DEF c
      <4> QED BY <4>1, <4>2, AppendFact
    <3>2. q = [queue EXCEPT ![t] = Append(queue[t], c)] BY DEF c
    <3> HIDE DEF q
    <3>3. /\ q \in [Tables -> Seq(Calls)] /\ q[t] = Append(queue[t], c)
          /\ \A x \in Tables : x # t => q[x] = queue[x]
      BY <3>1, <3>2
    <3> QED BY <3>1, <3>3
  <2>3. Chooses(t, q) BY <1>4, SaveChooses
  <2> HIDE DEF q
  <2> QED BY <1>1, <1>2, <2>2, <2>3, ChoosesKeeps DEF ReportHasTable
<1>5. Chooses(t, queue) \/ Save(t, q)
  BY BalanceChooses DEF HandOver, DeclareWinner
<1> QED BY <1>3, <1>4, <1>5

LEMMA MoveKeeps ==
    ASSUME LocksHeld, NEW t \in Tables, Move(t)
    PROVE  LocksHeld'
<1>1. UNCHANGED <<queue, tqueue, pc>> /\ job'.to = job.to
  BY DEF Move, lockVars
<1> QED BY <1>1, SameLocks

\* The other table gets its lock back, and the next move, if any, goes to
\* one that is free then.
LEMMA AfterMoveKeeps ==
    ASSUME LocksHeld, NEW t \in Tables, AfterMove(t)
    PROVE  LocksHeld'
<1> USE DEF LocksHeld, QueuesOK
<1> DEFINE d == job.to
           q == [queue EXCEPT ![d] = Tail(@)]
<1>1. /\ pc[t] = "move" /\ UNCHANGED tqueue BY DEF AfterMove
<1>2. /\ tqueue # <<>> /\ Head(tqueue) = t
      /\ \A x \in Tables : x # t => pc[x] \notin {"move", "save"}
  BY <1>1 DEF MoverIsFirst
<1>3. /\ d \in Tables /\ queue[d] # <<>> /\ Head(queue[d]).op = "move"
  <2>1. /\ d \in Tables /\ queue[d] # <<>>
        /\ Head(queue[d]) = Call("move", t)
    BY <1>1 DEF MoverHasOther
  <2>2. Call("move", t).op = "move" BY DEF Call
  <2> QED BY <2>1, <2>2
<1>4. q \in [Tables -> Seq(Calls)] BY <1>3, TailFact
<1>5. \A x \in Tables : pc[x] # "none" =>
          q[x] # <<>> /\ Head(q[x]).op \in {"over", "rere"}
  BY <1>3 DEF ReportHasTable
<1>6. PICK busy \in Others :
          \/ AfterFirst(t, q, busy)
          \/ Save(t, q)
  BY DEF AfterMove
<1> HIDE DEF q, d
<1>7. Chooses(t, q)
  <2>1. CASE Save(t, q) BY <2>1, SaveChooses
  <2>2. CASE AfterFirst(t, q, busy)
    <3> DEFINE e == EmptyTable(job.target, t, clearOut, q, busy)
    <3>1. e # NoTable => e \in Tables /\ q[e] = <<>> BY FoundIsFree
    <3>2. \/ Save(t, q)
          \/ e # NoTable /\ Rebalance(t, e, job.target, "second", q)
      BY <2>2 DEF AfterFirst
    <3> HIDE DEF e
    <3> QED BY <3>1, <3>2, SaveChooses, RebalanceChooses
  <2> QED BY <1>6, <2>1, <2>2
<1> QED BY <1>1, <1>2, <1>4, <1>5, <1>7, ChoosesKeeps

-----------------------------------------------------------------------------
LEMMA ReportKeeps ==
    ASSUME LocksHeld, NEW t \in Tables, Report(t)
    PROVE  LocksHeld'
<1>1. CASE BeginOver(t) BY <1>1, BeginOverKeeps
<1>2. ASSUME NEW p \in Players, StandUpBust(t, p) PROVE LocksHeld'
  BY <1>2, SameLocks DEF StandUpBust, lockVars
<1>3. CASE ReportOver(t) BY <1>3, ReportOverKeeps
<1>4. CASE ReportAgain(t) BY <1>4, ReportAgainKeeps
<1>5. CASE Move(t) BY <1>5, MoveKeeps
<1>6. CASE AfterMove(t) BY <1>6, AfterMoveKeeps
<1>7. CASE Saved(t) BY <1>7, SavedKeeps
<1>8. CASE SavedBefore(t) BY <1>8, SavedBeforeKeeps
<1>9. CASE ReportedAfter(t) BY <1>9, ReportedAfterKeeps
<1> QED BY <1>1, <1>2, <1>3, <1>4, <1>5, <1>6, <1>7, <1>8, <1>9 DEF Report

LEMMA NextKeeps ==
    ASSUME LocksHeld, [Next]_vars
    PROVE  LocksHeld'
<1>1. ASSUME NEW t \in Tables, Held(t) PROVE LocksHeld'
  BY <1>1, ReportKeeps, StartKeeps, PostTransferKeeps, LeaveTableKeeps
     DEF Held
<1>2. CASE UNCHANGED vars BY <1>2, SameLocks DEF vars, lockVars
<1> QED BY <1>1, <1>2, PlayHandKeeps, HandOverKeeps, TimerKeeps DEF Next

\* The reports and moves of a tournament of any size have their locks in
\* order: who makes moves holds the lock of the tournament, that of his own
\* table and that of the table he moves a player to.
THEOREM LocksAreOrdered == Spec => []LocksHeld
<1>1. Init => LocksHeld BY InitLocks
<1>2. LocksHeld /\ [Next]_vars => LocksHeld' BY NextKeeps
<1> QED BY <1>1, <1>2, PTL DEF Spec

\* handOver never waits for a table while it keeps the tournament waiting.
THEOREM MovesNeverWait == Spec => []NobodyIsWaitedFor
<1>1. LocksHeld => NobodyIsWaitedFor
  BY DEF LocksHeld, MoverHasOther, NobodyIsWaitedFor
<1> QED BY <1>1, LocksAreOrdered, PTL

-----------------------------------------------------------------------------
(***************************************************************************)
(* The ranks.                                                              *)
(***************************************************************************)

Places == 1..Cardinality(Players)

\* An order has everybody once.
LEMMA OrderFact ==
    ASSUME NEW S, IsFiniteSet(S), NEW o \in Orders(S)
    PROVE  /\ Cardinality(S) \in Nat
           /\ o \in [1..Cardinality(S) -> S] /\ DOMAIN o = 1..Cardinality(S)
           /\ o \in Seq(S) /\ Len(o) = Cardinality(S)
           /\ \A p \in S : \E i \in 1..Cardinality(S) : o[i] = p
           /\ \A i, j \in 1..Cardinality(S) : o[i] = o[j] => i = j
<1> DEFINE n == Cardinality(S)
<1>1. n \in Nat BY FS_CardinalityType
<1>2. o \in [1..n -> S] /\ \A p \in S : \E i \in 1..n : o[i] = p
  BY DEF Orders
<1>3. IsFiniteSet(1..n) /\ Cardinality(1..n) = n BY <1>1, FS_Interval
<1>4. o \in Surjection(1..n, S) BY <1>2 DEF Surjection
<1>5. o \in Injection(1..n, S)
  BY <1>3, <1>4, FS_SurjSameCardinalityImpliesInj
<1>6. \A i, j \in 1..n : o[i] = o[j] => i = j
  BY <1>5 DEF Injection, IsInjective
<1>7. o \in Seq(S) /\ Len(o) = n BY <1>1, <1>2
<1> QED BY <1>1, <1>2, <1>6, <1>7

\* One that is moved from one place to another leaves an order.
LEMMA ShiftedOrder ==
    ASSUME NEW o \in Orders(Players), NEW i \in Places, NEW j \in Places
    PROVE  /\ Shifted(o, i, j) \in Orders(Players)
           /\ Shifted(o, i, j)[j] = o[i]
           /\ \A k \in Places :
                /\ i <= k /\ k < j => Shifted(o, i, j)[k] = o[k + 1]
                /\ j < k /\ k <= i => Shifted(o, i, j)[k] = o[k - 1]
                /\ k < i /\ k < j => Shifted(o, i, j)[k] = o[k]
                /\ i < k /\ j < k => Shifted(o, i, j)[k] = o[k]
<1> DEFINE n == Cardinality(Players)
           s == Shifted(o, i, j)
<1>1. /\ n \in Nat /\ o \in [1..n -> Players] /\ DOMAIN o = 1..n
      /\ \A p \in Players : \E k \in 1..n : o[k] = p
  BY OrderFact, TournamentAssumption
<1>2. i \in 1..n /\ j \in 1..n BY DEF Places
<1>3. \A k \in 1..n :
        s[k] = IF k = j THEN o[i]
               ELSE IF i <= k /\ k < j THEN o[k + 1]
               ELSE IF j < k /\ k <= i THEN o[k - 1] ELSE o[k]
  BY <1>1 DEF Shifted
<1>4. s \in [1..n -> Players]
  <2>1. s = [k \in 1..n |-> s[k]] BY <1>1 DEF Shifted
  <2>2. ASSUME NEW k \in 1..n PROVE s[k] \in Players
    <3>1. k < j => k + 1 \in 1..n BY <1>1, <1>2
    <3>2. j < k => k - 1 \in 1..n BY <1>1, <1>2
    <3> HIDE DEF s
    <3> QED BY <1>1, <1>2, <1>3, <3>1, <3>2
  <2> HIDE DEF s
  <2> QED BY <2>1, <2>2
<1>5. ASSUME NEW p \in Players
      PROVE  \E k \in 1..n : s[k] = p
  <2>1. PICK k \in 1..n : o[k] = p BY <1>1
  <2> HIDE DEF s
  <2>2. CASE k = i BY <1>2, <1>3, <2>1, <2>2
  <2>3. CASE i < k /\ k <= j
    <3>1. k - 1 \in 1..n /\ s[k - 1] = o[(k - 1) + 1]
      BY <1>1, <1>2, <1>3, <2>3
    <3> QED BY <2>1, <3>1
  <2>4. CASE j <= k /\ k < i
    <3>1. k + 1 \in 1..n /\ s[k + 1] = o[(k + 1) - 1]
      BY <1>1, <1>2, <1>3, <2>4
    <3> QED BY <2>1, <3>1
  <2>5. CASE (k < i /\ k < j) \/ (k > i /\ k > j)
    BY <1>2, <1>3, <2>1, <2>5
  <2> QED BY <1>1, <1>2, <2>1, <2>2, <2>3, <2>4, <2>5
<1>6. s \in Orders(Players) BY <1>4, <1>5 DEF Orders
<1> QED
  <2> HIDE DEF s
  <2> QED BY <1>1, <1>2, <1>3, <1>6 DEF Places, s

\* The records of the players that are in order of their chips
Records == [order : Orders(Players), chips : [Players -> Nat]]
Chips(r, k) == r.chips[r.order[k]]
Ranked(r) ==
    /\ r \in Records
    /\ \A k, m \in Places : k < m => Chips(r, k) >= Chips(r, m)

\* Those who have no chips keep their places.
Keeps(r, s) ==
    \A k \in Places : Chips(r, k) = 0 => s.order[k] = r.order[k]

\* A player whose chips become fewer moves down to his place,
LEMMA RanksDown ==
    ASSUME NEW r, Ranked(r), NEW i \in Places, NEW c \in Nat,
           c <= Chips(r, i),
           NEW s, s = [r EXCEPT !.chips[r.order[i]] = c]
    PROVE  /\ Ranked(FixRank(s, i, FALSE))
           /\ FixRank(s, i, FALSE).chips = s.chips
           /\ Keeps(r, FixRank(s, i, FALSE))
<1> DEFINE n == Cardinality(Players)
           p == r.order[i]
           f == FixRank(s, i, FALSE)
           j == RankDown(s, i)
<1>1. /\ n \in Nat /\ r.order \in [1..n -> Players]
      /\ \A k, m \in 1..n : r.order[k] = r.order[m] => k = m
      /\ Len(r.order) = n
  BY OrderFact, TournamentAssumption DEF Ranked, Records
<1>2. i \in 1..n BY DEF Places
<1>3. /\ r.chips \in [Players -> Nat] /\ s.order = r.order /\ s \in Records
      /\ \A k \in 1..n : Chips(s, k) = IF k = i THEN c ELSE Chips(r, k)
  BY <1>1, <1>2 DEF Ranked, Records, Chips
<1>4. \A k \in 1..n : Chips(r, k) \in Nat /\ Chips(s, k) \in Nat
  BY <1>1, <1>3 DEF Records, Chips
<1>5. \A k, m \in 1..n : k < m => Chips(r, k) >= Chips(r, m)
  BY DEF Ranked, Places
<1>6. /\ j \in i..n
      /\ \A k \in (i + 1)..j : Chips(s, k) > c
      /\ j < n => Chips(s, j + 1) <= c
  <2> DEFINE P(x) == /\ \A k \in (i + 1)..x : Chips(s, k) > c
                     /\ x < n => Chips(s, x + 1) <= c
             T == {x \in i..n : \A k \in (i + 1)..x : Chips(s, k) > c}
  <2>1. T \in SUBSET Nat /\ i \in T /\ \A x \in T : x <= n
    BY <1>1, <1>2
  <2>2. PICK x \in T : \A y \in T : x >= y
    <3> HIDE DEF T
    <3> QED BY <1>1, <2>1, MaxExists
  <2>3. P(x)
    <3>1. ASSUME x < n, Chips(s, x + 1) > c PROVE FALSE
      <4>1. \A k \in (i + 1)..(x + 1) : k \in (i + 1)..x \/ k = x + 1
        BY <1>2, <2>1
      <4>2. x + 1 \in i..n BY <1>1, <1>2, <3>1
      <4>3. \A k \in (i + 1)..x : Chips(s, k) > c BY DEF T
      <4>4. \A k \in (i + 1)..(x + 1) : Chips(s, k) > c
        BY <3>1, <4>1, <4>3
      <4>5. x + 1 \in T BY <4>2, <4>4
      <4>6. x >= x + 1
        <5> HIDE DEF T
        <5> QED BY <2>2, <4>5
      <4> QED BY <1>2, <2>1, <4>6
    <3>2. x + 1 \in 1..n \/ ~(x < n) BY <1>1, <1>2, <2>1
    <3>3. \A k \in (i + 1)..x : Chips(s, k) > c BY DEF T
    <3> QED BY <1>4, <3>1, <3>2, <3>3
  <2>4. \E y \in i..Len(s.order) :
           /\ \A k \in (i + 1)..y : s.chips[s.order[k]] > s.chips[s.order[i]]
           /\ y < Len(s.order) =>
                s.chips[s.order[y + 1]] <= s.chips[s.order[i]]
    <3>1. s.chips[s.order[i]] = c BY <1>2, <1>3 DEF Chips
    <3>2. x \in i..Len(s.order) BY <1>1, <1>3
    <3> QED BY <1>1, <1>3, <2>3, <3>1, <3>2 DEF Chips
  <2>5. /\ j \in i..Len(s.order)
        /\ \A k \in (i + 1)..j : s.chips[s.order[k]] > s.chips[s.order[i]]
        /\ j < Len(s.order) =>
             s.chips[s.order[j + 1]] <= s.chips[s.order[i]]
    BY <2>4, Zenon DEF RankDown
  <2>6. s.chips[s.order[i]] = c BY <1>2, <1>3 DEF Chips
  <2> HIDE DEF j
  <2> QED BY <1>1, <1>3, <2>5, <2>6 DEF Chips
<1> HIDE DEF j
<1>7. j \in 1..n BY <1>1, <1>2, <1>6
<1>8. f = [s EXCEPT !.order = Shifted(r.order, i, j)]
  BY <1>3 DEF FixRank, j
<1>9. /\ Shifted(r.order, i, j) \in Orders(Players)
      /\ Shifted(r.order, i, j)[j] = r.order[i]
      /\ \A k \in 1..n :
           /\ i <= k /\ k < j => Shifted(r.order, i, j)[k] = r.order[k + 1]
           /\ k < i \/ k > j => Shifted(r.order, i, j)[k] = r.order[k]
  <2>1. PICK o \in Orders(Players) : o = r.order BY DEF Ranked, Records
  <2>2. /\ Shifted(o, i, j) \in Orders(Players)
        /\ Shifted(o, i, j)[j] = o[i]
        /\ \A k \in Places :
             /\ i <= k /\ k < j => Shifted(o, i, j)[k] = o[k + 1]
             /\ j < k /\ k <= i => Shifted(o, i, j)[k] = o[k - 1]
             /\ k < i /\ k < j => Shifted(o, i, j)[k] = o[k]
             /\ i < k /\ j < k => Shifted(o, i, j)[k] = o[k]
    <3>1. j \in Places BY <1>7 DEF Places
    <3> QED BY <3>1, ShiftedOrder
  <2>3. \A k \in 1..n : /\ k < i => k < j
                        /\ k > j => k > i
    BY <1>2, <1>6, <1>7
  <2> QED BY <2>1, <2>2, <2>3 DEF Places
<1> HIDE DEF f
<1>10. f \in Records /\ f.chips = s.chips /\ f.order = Shifted(r.order, i, j)
  BY <1>3, <1>8, <1>9 DEF Records
<1>11. \A k \in 1..n :
         /\ k = j => Chips(f, k) = c
         /\ i <= k /\ k < j => Chips(f, k) = Chips(s, k + 1) /\ Chips(f, k) > c
         /\ k < i \/ k > j => Chips(f, k) = Chips(r, k)
  <2>1. Chips(f, j) = c BY <1>2, <1>3, <1>7, <1>9, <1>10 DEF Chips
  <2>2. ASSUME NEW k \in 1..n, i <= k, k < j
        PROVE  Chips(f, k) = Chips(s, k + 1) /\ Chips(f, k) > c
    <3>1. k + 1 \in (i + 1)..j BY <1>2, <1>7, <2>2
    <3>2. Chips(f, k) = Chips(s, k + 1)
      BY <1>3, <1>9, <1>10, <2>2 DEF Chips
    <3> QED BY <1>6, <3>1, <3>2
  <2>3. ASSUME NEW k \in 1..n, k < i \/ k > j
        PROVE  Chips(f, k) = Chips(r, k)
    <3>1. k # i BY <1>2, <1>6, <1>7, <2>3
    <3>2. Chips(f, k) = Chips(s, k)
      BY <1>3, <1>9, <1>10, <2>3 DEF Chips
    <3> QED BY <1>3, <3>1, <3>2
  <2> QED BY <2>1, <2>2, <2>3
<1>12. \A k \in 1..n : i <= k /\ k < j =>
          Chips(f, k) = Chips(r, k + 1) /\ Chips(r, k + 1) > c
  <2>1. ASSUME NEW k \in 1..n, i <= k, k < j
        PROVE  Chips(f, k) = Chips(r, k + 1) /\ Chips(r, k + 1) > c
    <3>1. k + 1 \in 1..n /\ k + 1 # i BY <1>1, <1>2, <1>7, <2>1
    <3> QED BY <1>3, <1>11, <2>1, <3>1
  <2> QED BY <2>1
<1>13. j < n => Chips(r, j + 1) <= c
  <2>1. j + 1 # i BY <1>2, <1>6, <1>7
  <2>2. j < n => j + 1 \in 1..n BY <1>1, <1>7
  <2> QED BY <1>3, <1>6, <2>1, <2>2
<1>14. ASSUME NEW k \in 1..n, NEW m \in 1..n, k < m
       PROVE  Chips(f, k) >= Chips(f, m)
  <2> DEFINE C(x) == Chips(r, x)
             F(x) == Chips(f, x)
  <2>0. /\ \A x \in 1..n : C(x) \in Nat
        /\ \A x, y \in 1..n : x < y => C(x) >= C(y)
        /\ \A x \in 1..n : /\ x = j => F(x) = c
                           /\ i <= x /\ x < j => F(x) = C(x + 1) /\ C(x + 1) > c
                           /\ x < i \/ x > j => F(x) = C(x)
        /\ j < n => C(j + 1) <= c
        /\ c <= C(i)
    BY <1>4, <1>5, <1>11, <1>12, <1>13
  <2> HIDE DEF C, F
  <2>1. F(k) >= F(m)
    <3>1. k + 1 \in 1..n BY <1>1, <1>14
    <3>2. i <= m /\ m < j => m + 1 \in 1..n BY <1>1, <1>7
    <3>3. CASE m > j
      <4>1. C(m) <= c
        <5>1. j + 1 \in 1..n /\ j < n BY <1>1, <1>7, <3>3
        <5>2. m = j + 1 \/ j + 1 < m BY <1>7, <3>3
        <5> QED BY <2>0, <5>1, <5>2, <1>14
      <4>2. k < i \/ k > j => F(k) >= F(m) BY <1>2, <1>7, <1>14, <2>0, <3>3
      <4>3. i <= k /\ k < j => F(k) >= F(m) BY <1>2, <1>7, <1>14, <2>0, <3>1, <3>3, <4>1
      <4>4. k = j => F(k) >= F(m) BY <1>7, <1>14, <2>0, <3>3, <4>1
      <4> QED BY <1>2, <1>7, <4>2, <4>3, <4>4
    <3>4. CASE m = j
      <4>1. k < i => F(k) >= F(m)
        <5>1. k < i => C(k) >= C(i) BY <1>2, <2>0
        <5> QED BY <1>2, <2>0, <3>4, <5>1
      <4>2. i <= k => F(k) >= F(m) BY <1>2, <1>7, <1>14, <2>0, <3>1, <3>4
      <4> QED BY <1>2, <4>1, <4>2
    <3>5. CASE m < j /\ i <= m
      <4>1. k < m + 1 /\ k + 1 < m + 1 BY <1>14
      <4> QED BY <1>2, <1>7, <1>14, <2>0, <3>1, <3>2, <3>5, <4>1
    <3>6. CASE m < i
      BY <1>2, <1>7, <1>14, <2>0, <3>6
    <3> QED BY <1>2, <1>7, <3>3, <3>4, <3>5, <3>6
  <2> QED BY <2>1 DEF F
<1>15. Ranked(f) BY <1>10, <1>14 DEF Ranked, Places
<1>16. Keeps(r, f)
  <2> SUFFICES ASSUME NEW k \in 1..n, Chips(r, k) = 0
               PROVE  f.order[k] = r.order[k]
    BY DEF Keeps, Places
  <2>1. k < i \/ k > j => f.order[k] = r.order[k] BY <1>9, <1>10
  <2>2. ASSUME i <= k, k < j PROVE FALSE
    <3>1. Chips(r, k + 1) > c /\ k + 1 \in 1..n
      BY <1>1, <1>2, <1>7, <1>12, <2>2
    <3>2. Chips(r, k) >= Chips(r, k + 1) BY <1>5, <3>1
    <3> QED BY <1>4, <3>1, <3>2
  <2>3. ASSUME i < j, k = j PROVE FALSE
    <3>1. j - 1 \in 1..n /\ i <= j - 1 /\ j - 1 < j /\ (j - 1) + 1 = j
      BY <1>1, <1>2, <1>7, <2>3
    <3>2. Chips(r, (j - 1) + 1) > c BY <1>12, <3>1
    <3> QED BY <1>4, <2>3, <3>1, <3>2
  <2>4. i = j /\ k = j => f.order[k] = r.order[k] BY <1>9, <1>10
  <2> QED BY <1>2, <1>6, <1>7, <2>1, <2>2, <2>3, <2>4
<1> QED BY <1>10, <1>15, <1>16 DEF f

\* and one whose chips become more moves up.
LEMMA RanksUp ==
    ASSUME NEW r, Ranked(r), NEW i \in Places, NEW c \in Nat,
           c > Chips(r, i), Chips(r, i) > 0,
           NEW s, s = [r EXCEPT !.chips[r.order[i]] = c]
    PROVE  /\ Ranked(FixRank(s, i, TRUE))
           /\ FixRank(s, i, TRUE).chips = s.chips
           /\ Keeps(r, FixRank(s, i, TRUE))
<1> DEFINE n == Cardinality(Players)
           p == r.order[i]
           f == FixRank(s, i, TRUE)
           j == RankUp(s, i)
<1>1. /\ n \in Nat /\ r.order \in [1..n -> Players]
      /\ \A k, m \in 1..n : r.order[k] = r.order[m] => k = m
      /\ Len(r.order) = n
  BY OrderFact, TournamentAssumption DEF Ranked, Records
<1>2. i \in 1..n BY DEF Places
<1>3. /\ r.chips \in [Players -> Nat] /\ s.order = r.order /\ s \in Records
      /\ \A k \in 1..n : Chips(s, k) = IF k = i THEN c ELSE Chips(r, k)
  BY <1>1, <1>2 DEF Ranked, Records, Chips
<1>4. \A k \in 1..n : Chips(r, k) \in Nat /\ Chips(s, k) \in Nat
  BY <1>1, <1>3 DEF Records, Chips
<1>5. \A k, m \in 1..n : k < m => Chips(r, k) >= Chips(r, m)
  BY DEF Ranked, Places
<1>6. /\ j \in 1..i
      /\ \A k \in j..(i - 1) : Chips(s, k) < c
      /\ j > 1 => Chips(s, j - 1) >= c
  <2> DEFINE P(x) == /\ \A k \in x..(i - 1) : Chips(s, k) < c
                     /\ x > 1 => Chips(s, x - 1) >= c
             T == {x \in 1..i : \A k \in x..(i - 1) : Chips(s, k) < c}
  <2>1. T \in SUBSET Nat /\ i \in T
    BY <1>1, <1>2
  <2>2. PICK x \in T : \A y \in T : x <= y
    <3> HIDE DEF T
    <3> QED BY <2>1, MinExists
  <2>3. P(x)
    <3>1. ASSUME x > 1, Chips(s, x - 1) < c PROVE FALSE
      <4>1. \A k \in (x - 1)..(i - 1) : k \in x..(i - 1) \/ k = x - 1
        BY <1>2, <2>1
      <4>2. x - 1 \in 1..i BY <1>1, <1>2, <3>1
      <4>3. \A k \in x..(i - 1) : Chips(s, k) < c BY DEF T
      <4>4. \A k \in (x - 1)..(i - 1) : Chips(s, k) < c
        BY <3>1, <4>1, <4>3
      <4>5. x - 1 \in T BY <4>2, <4>4
      <4>6. x <= x - 1
        <5> HIDE DEF T
        <5> QED BY <2>2, <4>5
      <4> QED BY <1>2, <2>1, <4>6
    <3>2. x - 1 \in 1..n \/ ~(x > 1) BY <1>1, <1>2, <2>1
    <3>3. \A k \in x..(i - 1) : Chips(s, k) < c BY DEF T
    <3> QED BY <1>4, <3>1, <3>2, <3>3
  <2>4. \E y \in 1..i :
           /\ \A k \in y..(i - 1) : s.chips[s.order[k]] < s.chips[s.order[i]]
           /\ y > 1 => s.chips[s.order[y - 1]] >= s.chips[s.order[i]]
    <3>1. s.chips[s.order[i]] = c BY <1>2, <1>3 DEF Chips
    <3>2. x \in 1..i OBVIOUS
    <3> QED BY <2>3, <3>1, <3>2 DEF Chips
  <2>5. /\ j \in 1..i
        /\ \A k \in j..(i - 1) : s.chips[s.order[k]] < s.chips[s.order[i]]
        /\ j > 1 => s.chips[s.order[j - 1]] >= s.chips[s.order[i]]
    BY <2>4, Zenon DEF RankUp
  <2>6. s.chips[s.order[i]] = c BY <1>2, <1>3 DEF Chips
  <2> HIDE DEF j
  <2> QED BY <2>5, <2>6 DEF Chips
<1> HIDE DEF j
<1>7. j \in 1..n BY <1>1, <1>2, <1>6
<1>8. f = [s EXCEPT !.order = Shifted(r.order, i, j)]
  BY <1>3 DEF FixRank, j
<1>9. /\ Shifted(r.order, i, j) \in Orders(Players)
      /\ Shifted(r.order, i, j)[j] = r.order[i]
      /\ \A k \in 1..n :
           /\ j < k /\ k <= i => Shifted(r.order, i, j)[k] = r.order[k - 1]
           /\ k < j \/ k > i => Shifted(r.order, i, j)[k] = r.order[k]
  <2>1. PICK o \in Orders(Players) : o = r.order BY DEF Ranked, Records
  <2>2. /\ Shifted(o, i, j) \in Orders(Players)
        /\ Shifted(o, i, j)[j] = o[i]
        /\ \A k \in Places :
             /\ i <= k /\ k < j => Shifted(o, i, j)[k] = o[k + 1]
             /\ j < k /\ k <= i => Shifted(o, i, j)[k] = o[k - 1]
             /\ k < i /\ k < j => Shifted(o, i, j)[k] = o[k]
             /\ i < k /\ j < k => Shifted(o, i, j)[k] = o[k]
    <3>1. j \in Places BY <1>7 DEF Places
    <3> QED BY <3>1, ShiftedOrder
  <2>3. \A k \in 1..n : /\ k < j => k < i
                        /\ k > i => k > j
    BY <1>2, <1>6, <1>7
  <2> QED BY <2>1, <2>2, <2>3 DEF Places
<1> HIDE DEF f
<1>10. f \in Records /\ f.chips = s.chips /\ f.order = Shifted(r.order, i, j)
  BY <1>3, <1>8, <1>9 DEF Records
<1>11. \A k \in 1..n :
         /\ k = j => Chips(f, k) = c
         /\ j < k /\ k <= i => Chips(f, k) = Chips(r, k - 1) /\ Chips(r, k - 1) < c
         /\ k < j \/ k > i => Chips(f, k) = Chips(r, k)
  <2>1. Chips(f, j) = c BY <1>2, <1>3, <1>7, <1>9, <1>10 DEF Chips
  <2>2. ASSUME NEW k \in 1..n, j < k, k <= i
        PROVE  Chips(f, k) = Chips(r, k - 1) /\ Chips(r, k - 1) < c
    <3>1. k - 1 \in j..(i - 1) /\ k - 1 \in 1..n /\ k - 1 # i
      BY <1>1, <1>2, <1>7, <2>2
    <3>2. Chips(f, k) = Chips(s, k - 1)
      BY <1>3, <1>9, <1>10, <2>2 DEF Chips
    <3> QED BY <1>3, <1>6, <3>1, <3>2
  <2>3. ASSUME NEW k \in 1..n, k < j \/ k > i
        PROVE  Chips(f, k) = Chips(r, k)
    <3>1. k # i BY <1>2, <1>6, <1>7, <2>3
    <3>2. Chips(f, k) = Chips(s, k)
      BY <1>3, <1>9, <1>10, <2>3 DEF Chips
    <3> QED BY <1>3, <3>1, <3>2
  <2> QED BY <2>1, <2>2, <2>3
<1>13. j > 1 => Chips(r, j - 1) >= c
  <2>1. j - 1 # i BY <1>2, <1>6, <1>7
  <2>2. j > 1 => j - 1 \in 1..n BY <1>1, <1>7
  <2> QED BY <1>3, <1>6, <2>1, <2>2
<1>14. ASSUME NEW k \in 1..n, NEW m \in 1..n, k < m
       PROVE  Chips(f, k) >= Chips(f, m)
  <2> DEFINE C(x) == Chips(r, x)
             F(x) == Chips(f, x)
  <2>0. /\ \A x \in 1..n : C(x) \in Nat
        /\ \A x, y \in 1..n : x < y => C(x) >= C(y)
        /\ \A x \in 1..n : /\ x = j => F(x) = c
                           /\ j < x /\ x <= i => F(x) = C(x - 1) /\ C(x - 1) < c
                           /\ x < j \/ x > i => F(x) = C(x)
        /\ j > 1 => C(j - 1) >= c
        /\ c > C(i)
    BY <1>4, <1>5, <1>11, <1>13
  <2> HIDE DEF C, F
  <2>1. F(k) >= F(m)
    <3>1. m - 1 \in 1..n BY <1>1, <1>14
    <3>2. j < k /\ k <= i => k - 1 \in 1..n BY <1>1, <1>7
    <3>3. CASE k < j
      <4>1. C(k) >= c
        <5>1. j - 1 \in 1..n /\ j > 1 BY <1>1, <1>7, <3>3
        <5>2. k = j - 1 \/ k < j - 1 BY <1>7, <3>3
        <5> QED BY <2>0, <5>1, <5>2, <1>14
      <4>2. m < j \/ m > i => F(k) >= F(m) BY <1>2, <1>7, <1>14, <2>0, <3>3
      <4>3. j < m /\ m <= i => F(k) >= F(m) BY <1>2, <1>7, <1>14, <2>0, <3>1, <3>3, <4>1
      <4>4. m = j => F(k) >= F(m) BY <1>7, <1>14, <2>0, <3>3, <4>1
      <4> QED BY <1>2, <1>7, <4>2, <4>3, <4>4
    <3>4. CASE k = j
      <4>1. m > i => F(k) >= F(m)
        <5>1. m > i => C(i) >= C(m) BY <1>2, <2>0
        <5> QED BY <1>2, <2>0, <1>4, <3>4, <5>1
      <4>2. m <= i => F(k) >= F(m) BY <1>2, <1>7, <1>14, <2>0, <3>1, <3>4
      <4> QED BY <1>2, <4>1, <4>2
    <3>5. CASE k > j /\ k <= i
      <4>1. k - 1 < m /\ k - 1 < m - 1 BY <1>14
      <4> QED BY <1>2, <1>7, <1>14, <2>0, <3>1, <3>2, <3>5, <4>1
    <3>6. CASE k > i
      BY <1>2, <1>7, <1>14, <2>0, <3>6
    <3> QED BY <1>2, <1>7, <3>3, <3>4, <3>5, <3>6
  <2> QED BY <2>1 DEF F
<1>15. Ranked(f) BY <1>10, <1>14 DEF Ranked, Places
<1>16. Keeps(r, f)
  <2> SUFFICES ASSUME NEW k \in 1..n, Chips(r, k) = 0
               PROVE  f.order[k] = r.order[k]
    BY DEF Keeps, Places
  <2>1. k < j \/ k > i => f.order[k] = r.order[k] BY <1>9, <1>10
  <2>2. ASSUME k <= i PROVE FALSE
    <3>1. k = i \/ Chips(r, k) >= Chips(r, i) BY <1>2, <1>5, <2>2
    <3> QED BY <1>2, <1>4, <3>1
  <2> QED BY <1>2, <2>1, <2>2
<1> QED BY <1>10, <1>15, <1>16 DEF f

\* Who keeps his place twice keeps it.
LEMMA KeepsOn ==
    ASSUME NEW r, NEW s, NEW u, Ranked(r), Keeps(r, s), Keeps(s, u),
           \A p \in Players : r.chips[p] = 0 => s.chips[p] = 0
    PROVE  Keeps(r, u)
<1> SUFFICES ASSUME NEW k \in Places, Chips(r, k) = 0
             PROVE  u.order[k] = r.order[k]
  BY DEF Keeps
<1>1. r.order[k] \in Players
  <2>1. r.order \in Orders(Players) BY DEF Ranked, Records
  <2>2. r.order \in [1..Cardinality(Players) -> Players]
    BY <2>1, OrderFact, TournamentAssumption
  <2> QED BY <2>2 DEF Places
<1>2. s.order[k] = r.order[k] BY DEF Keeps
<1>3. Chips(s, k) = 0 BY <1>1, <1>2 DEF Chips
<1> QED BY <1>2, <1>3 DEF Keeps

LEMMA KeepsSame ==
    ASSUME NEW r
    PROVE  Keeps(r, r)
BY DEF Keeps

\* What doBust makes of the record of the players
BustOf(old, p) ==
    FixRank([old EXCEPT !.chips[p] = 0], Rank(old, p), FALSE)

LEMMA BustStep ==
    ASSUME NEW old, Ranked(old), NEW p \in Players
    PROVE  /\ Ranked(BustOf(old, p)) /\ Keeps(old, BustOf(old, p))
           /\ BustOf(old, p).chips = [old.chips EXCEPT ![p] = 0]
<1> DEFINE i == Rank(old, p)
           s == [old EXCEPT !.chips[p] = 0]
<1>1. old \in Records BY DEF Ranked
<1>2. /\ DOMAIN old.order = Places
      /\ \E k \in Places : old.order[k] = p
      /\ \A k \in Places : old.order[k] \in Players
  <2>1. old.order \in Orders(Players) BY <1>1 DEF Records
  <2> QED BY <2>1, OrderFact, TournamentAssumption DEF Places
<1>3. i \in Places /\ old.order[i] = p
  <2>1. \E k \in DOMAIN old.order : old.order[k] = p BY <1>2
  <2>2. i \in DOMAIN old.order /\ old.order[i] = p BY <2>1, Zenon DEF Rank
  <2> QED BY <1>2, <2>2
<1> HIDE DEF i
<1>4. 0 <= Chips(old, i)
  BY <1>1, <1>2, <1>3 DEF Chips, Records
<1>5. s = [old EXCEPT !.chips[old.order[i]] = 0] BY <1>3
<1>6. s.chips = [old.chips EXCEPT ![p] = 0] BY <1>1 DEF Records
<1> HIDE DEF s
<1>7. /\ Ranked(FixRank(s, i, FALSE))
      /\ FixRank(s, i, FALSE).chips = s.chips
      /\ Keeps(old, FixRank(s, i, FALSE))
  <2>1. 0 \in Nat OBVIOUS
  <2>2. i \in Places BY <1>3
  <2>3. Ranked(FixRank(s, i, FALSE))
    BY <1>4, <1>5, <2>1, <2>2, RanksDown
  <2>4. FixRank(s, i, FALSE).chips = s.chips BY <1>1 DEF FixRank, s, Records
  <2>5. Keeps(old, FixRank(s, i, FALSE))
    BY <1>4, <1>5, <2>1, <2>2, RanksDown
  <2> QED BY <2>3, <2>4, <2>5
<1>8. BustOf(old, p) = FixRank(s, i, FALSE) BY DEF BustOf, s, i
<1> QED BY <1>6, <1>7, <1>8

Busting(g, r, bs, D) ==
    g = [k \in D |-> IF k = 0 THEN {r}
                     ELSE {FixRank([old EXCEPT !.chips[bs[k]] = 0],
                                   Rank(old, bs[k]), FALSE) : old \in g[k - 1]}]

LEMMA BustingEnds ==
    ASSUME NEW r, NEW bs, NEW n \in Nat
    PROVE  \E g : Busting(g, r, bs, 0..n)
<1> DEFINE G == {m \in Nat : \E g : Busting(g, r, bs, 0..m)}
<1>1. 0 \in G
  <2> DEFINE g == [k \in 0..0 |-> {r}]
  <2>1. \A k \in 0..0 : k = 0 OBVIOUS
  <2>2. Busting(g, r, bs, 0..0) BY <2>1, Zenon DEF Busting
  <2> HIDE DEF g
  <2> QED BY <2>2
<1>2. ASSUME NEW m \in G
      PROVE  m + 1 \in G
  <2>1. PICK g : Busting(g, r, bs, 0..m) OBVIOUS
  <2> DEFINE next(h, k) == IF k = 0 THEN {r}
                           ELSE {FixRank([old EXCEPT !.chips[bs[k]] = 0],
                                   Rank(old, bs[k]), FALSE) : old \in h[k - 1]}
             h == [k \in 0..m + 1 |-> next(g, k)]
  <2>2. g = [k \in 0..m |-> next(g, k)] BY <2>1, Zenon DEF Busting
  <2>3. \A k \in 0..m : k \in 0..m + 1 OBVIOUS
  <2>4. \A k \in 0..m : h[k] = g[k]
    <3> HIDE DEF next
    <3> QED BY <2>2, <2>3
  <2>5. \A k \in 0..m + 1 : k # 0 => k - 1 \in 0..m OBVIOUS
  <2>6. \A k \in 0..m + 1 : next(g, k) = next(h, k)
    <3> HIDE DEF h
    <3>1. \A k \in 0..m + 1 : k # 0 => g[k - 1] = h[k - 1] BY <2>4, <2>5
    <3> QED BY <3>1, Zenon
  <2>7. h = [k \in 0..m + 1 |-> next(h, k)]
    <3>1. [k \in 0..m + 1 |-> next(g, k)] = [k \in 0..m + 1 |-> next(h, k)]
      <4> HIDE DEF next, h
      <4> QED BY <2>6, Zenon
    <3> HIDE DEF next
    <3> QED BY <3>1
  <2>8. Busting(h, r, bs, 0..m + 1)
    <3> HIDE DEF h
    <3> QED BY <2>7, Zenon DEF Busting
  <2>9. \E k : Busting(k, r, bs, 0..m + 1)
    <3> HIDE DEF h
    <3> QED BY <2>8
  <2> QED BY <2>9
<1>3. G = Nat
  <2> HIDE DEF G
  <2>1. G \in SUBSET Nat BY DEF G
  <2> QED BY <1>1, <1>2, <2>1, NumbersAll
<1> QED BY <1>3

\* doBust, for all of the bust queue: they have no chips, the ranks are in
\* order, and those without chips keep their places.
LEMMA BustedRecord ==
    ASSUME NEW r, Ranked(r), NEW B \in SUBSET Players, NEW bs \in Orders(B),
           NEW out \in Busted(r, bs)
    PROVE  /\ Ranked(out) /\ Keeps(r, out)
           /\ \A p \in Players :
                out.chips[p] = IF p \in B THEN 0 ELSE r.chips[p]
<1> DEFINE n == Len(bs)
           g == CHOOSE f : Busting(f, r, bs, 0..n)
<1>1. /\ n \in Nat /\ \A i \in 1..n : bs[i] \in B
      /\ \A p \in B : \E i \in 1..n : bs[i] = p
  <2>1. IsFiniteSet(B) BY TournamentAssumption, FS_Subset
  <2> QED BY <2>1, OrderFact
<1>2. Busting(g, r, bs, 0..n)
  <2> HIDE DEF n
  <2> QED BY <1>1, BustingEnds
<1>3. Busted(r, bs) = g[n] BY Zenon DEF Busted, Busting
<1> HIDE DEF g
<1>4. g[0] = {r}
  <2> HIDE DEF n
  <2>1. 0 \in 0..n BY <1>1
  <2> QED BY <1>2, <2>1, Zenon DEF Busting
<1>5. ASSUME NEW k \in 0..n, k # 0
      PROVE  g[k] = {BustOf(old, bs[k]) : old \in g[k - 1]}
  BY <1>2, <1>5, Zenon DEF Busting, BustOf
<1> HIDE DEF n
<1> DEFINE Good(k, old) ==
              /\ Ranked(old) /\ Keeps(r, old)
              /\ \A p \in Players :
                   old.chips[p] = IF \E i \in 1..k : bs[i] = p THEN 0
                                  ELSE r.chips[p]
           G == {k \in Nat : k <= n => \A old \in g[k] : Good(k, old)}
<1>6. 0 \in G
  <2>1. Good(0, r) BY KeepsSame
  <2> HIDE DEF Good
  <2> QED BY <1>4, <2>1
<1>7. ASSUME NEW k \in G
      PROVE  k + 1 \in G
  <2> SUFFICES ASSUME k + 1 <= n, NEW new \in g[k + 1]
               PROVE  Good(k + 1, new)
    OBVIOUS
  <2>1. k + 1 \in 0..n /\ k + 1 \in 1..n /\ (k + 1) - 1 = k /\ k <= n BY <1>1
  <2>2. PICK old \in g[k] : new = BustOf(old, bs[k + 1])
    <3> HIDE DEF Good, G
    <3>1. g[k + 1] = {BustOf(old, bs[k + 1]) : old \in g[(k + 1) - 1]}
      BY <1>5, <2>1
    <3> QED BY <2>1, <3>1
  <2>3. Good(k, old)
    <3> HIDE DEF Good
    <3> QED BY <2>1
  <2>4. bs[k + 1] \in Players BY <1>1, <2>1
  <2>5. /\ Ranked(new) /\ Keeps(old, new)
        /\ new.chips = [old.chips EXCEPT ![bs[k + 1]] = 0]
    BY <2>2, <2>3, <2>4, BustStep
  <2>6. \A p \in Players : r.chips[p] = 0 => old.chips[p] = 0 BY <2>3
  <2>7. Keeps(r, new) BY <2>3, <2>5, <2>6, KeepsOn
  <2>8. \A i : i \in 1..(k + 1) <=> i \in 1..k \/ i = k + 1 OBVIOUS
  <2>9. old.chips \in [Players -> Nat] BY <2>3 DEF Ranked, Records
  <2>10. \A p \in Players :
           new.chips[p] = IF \E i \in 1..(k + 1) : bs[i] = p THEN 0
                          ELSE r.chips[p]
    <3> TAKE p \in Players
    <3>1. new.chips[p] = IF bs[k + 1] = p THEN 0 ELSE old.chips[p]
      BY <2>5, <2>9
    <3>2. old.chips[p] = IF \E i \in 1..k : bs[i] = p THEN 0 ELSE r.chips[p]
      BY <2>3
    <3> QED BY <2>8, <3>1, <3>2, Zenon
  <2> QED BY <2>5, <2>7, <2>10
<1>8. n \in G
  <2> HIDE DEF G
  <2>1. G \in SUBSET Nat BY DEF G
  <2> QED BY <1>1, <1>6, <1>7, <2>1, NumbersAll
<1>9. Good(n, out)
  <2> HIDE DEF Good
  <2> QED BY <1>1, <1>3, <1>8
<1> QED BY <1>1, <1>9

\* The comparison of a rank and a seat
LEMMA CompareStep ==
    ASSUME NEW old, Ranked(old), NEW x \in Places, NEW p \in Players,
           chips \in [Players -> Nat],
           old.order[x] = p => old.chips[p] > 0
    PROVE  /\ Ranked(Compared(old, x, p)) /\ Keeps(old, Compared(old, x, p))
           /\ Compared(old, x, p).chips
                = IF old.order[x] = p THEN [old.chips EXCEPT ![p] = chips[p]]
                  ELSE old.chips
<1> DEFINE s == [old EXCEPT !.chips[p] = chips[p]]
           new == Compared(old, x, p)
<1>1. old \in Records /\ old.chips \in [Players -> Nat]
  BY DEF Ranked, Records
<1>2. CASE old.order[x] # p
  BY <1>2, KeepsSame DEF Compared
<1>3. CASE old.order[x] = p /\ old.chips[p] = chips[p]
  <2>1. new = old BY <1>3 DEF Compared
  <2>2. [old.chips EXCEPT ![p] = chips[p]] = old.chips BY <1>1, <1>3
  <2> QED BY <1>3, <2>1, <2>2, KeepsSame
<1>4. CASE old.order[x] = p /\ chips[p] > old.chips[p]
  <2>1. new = FixRank(s, x, TRUE)
    <3>1. (chips[p] > old.chips[p]) = TRUE BY <1>4
    <3>2. old.chips[p] # chips[p] BY <1>1, <1>4
    <3> QED BY <1>4, <3>1, <3>2, Zenon DEF Compared
  <2>2. chips[p] \in Nat /\ chips[p] > Chips(old, x) /\ Chips(old, x) > 0
    BY <1>4 DEF Chips
  <2>3. s = [old EXCEPT !.chips[old.order[x]] = chips[p]] BY <1>4
  <2>4. s.chips = [old.chips EXCEPT ![p] = chips[p]] BY <1>1 DEF Records
  <2>5. FixRank(s, x, TRUE).chips = s.chips BY <1>1 DEF FixRank, Records
  <2> HIDE DEF s, new
  <2>6. Ranked(FixRank(s, x, TRUE)) BY <2>2, <2>3, RanksUp
  <2>7. Keeps(old, FixRank(s, x, TRUE)) BY <2>2, <2>3, RanksUp
  <2> QED BY <1>4, <2>1, <2>4, <2>5, <2>6, <2>7 DEF new
<1>5. CASE old.order[x] = p /\ chips[p] < old.chips[p]
  <2>1. new = FixRank(s, x, FALSE)
    <3>1. (chips[p] > old.chips[p]) = FALSE BY <1>1, <1>5
    <3>2. old.chips[p] # chips[p] BY <1>1, <1>5
    <3> QED BY <1>5, <3>1, <3>2, Zenon DEF Compared
  <2>2. chips[p] \in Nat /\ chips[p] <= Chips(old, x)
    BY <1>1, <1>5 DEF Chips
  <2>3. s = [old EXCEPT !.chips[old.order[x]] = chips[p]] BY <1>5
  <2>4. s.chips = [old.chips EXCEPT ![p] = chips[p]] BY <1>1 DEF Records
  <2>5. FixRank(s, x, FALSE).chips = s.chips BY <1>1 DEF FixRank, Records
  <2> HIDE DEF s, new
  <2>6. Ranked(FixRank(s, x, FALSE)) BY <2>2, <2>3, RanksDown
  <2>7. Keeps(old, FixRank(s, x, FALSE)) BY <2>2, <2>3, RanksDown
  <2> QED BY <1>5, <2>1, <2>4, <2>5, <2>6, <2>7 DEF new
<1> QED BY <1>1, <1>2, <1>3, <1>4, <1>5

Recording(g, r, ys, m, D) ==
    g = [k \in D |->
           IF k = 0 THEN {r}
           ELSE {Compared(old, 1 + ((k - 1) \div m), ys[1 + ((k - 1) % m)]) :
                   old \in g[k - 1]}]

LEMMA RecordingEnds ==
    ASSUME NEW r, NEW ys, NEW l, NEW n \in Nat
    PROVE  \E g : Recording(g, r, ys, l, 0..n)
<1> DEFINE G == {m \in Nat : \E g : Recording(g, r, ys, l, 0..m)}
<1>1. 0 \in G
  <2> DEFINE g == [k \in 0..0 |-> {r}]
  <2>1. \A k \in 0..0 : k = 0 OBVIOUS
  <2>2. Recording(g, r, ys, l, 0..0) BY <2>1, Zenon DEF Recording
  <2> HIDE DEF g
  <2> QED BY <2>2
<1>2. ASSUME NEW m \in G
      PROVE  m + 1 \in G
  <2>1. PICK g : Recording(g, r, ys, l, 0..m) OBVIOUS
  <2> DEFINE next(h, k) ==
                IF k = 0 THEN {r}
                ELSE {Compared(old, 1 + ((k - 1) \div l),
                               ys[1 + ((k - 1) % l)]) : old \in h[k - 1]}
             h == [k \in 0..m + 1 |-> next(g, k)]
  <2>2. g = [k \in 0..m |-> next(g, k)] BY <2>1, Zenon DEF Recording
  <2>3. \A k \in 0..m : k \in 0..m + 1 OBVIOUS
  <2>4. \A k \in 0..m : h[k] = g[k]
    <3> HIDE DEF next
    <3> QED BY <2>2, <2>3
  <2>5. \A k \in 0..m + 1 : k # 0 => k - 1 \in 0..m OBVIOUS
  <2>6. \A k \in 0..m + 1 : next(g, k) = next(h, k)
    <3> HIDE DEF h
    <3>1. \A k \in 0..m + 1 : k # 0 => g[k - 1] = h[k - 1] BY <2>4, <2>5
    <3> QED BY <3>1, Zenon
  <2>7. h = [k \in 0..m + 1 |-> next(h, k)]
    <3>1. [k \in 0..m + 1 |-> next(g, k)] = [k \in 0..m + 1 |-> next(h, k)]
      <4> HIDE DEF next, h
      <4> QED BY <2>6, Zenon
    <3> HIDE DEF next
    <3> QED BY <3>1
  <2>8. Recording(h, r, ys, l, 0..m + 1)
    <3> HIDE DEF h
    <3> QED BY <2>7, Zenon DEF Recording
  <2>9. \E k : Recording(k, r, ys, l, 0..m + 1)
    <3> HIDE DEF h
    <3> QED BY <2>8
  <2> QED BY <2>9
<1>3. G = Nat
  <2> HIDE DEF G
  <2>1. G \in SUBSET Nat BY DEF G
  <2> QED BY <1>1, <1>2, <2>1, NumbersAll
<1> QED BY <1>3

\* The rank and the seat that are compared at a time are there.
LEMMA ComparedInRange ==
    ASSUME NEW n \in Nat, NEW m \in Nat, NEW k \in 1..(n * m)
    PROVE  /\ m > 0
           /\ 1 + ((k - 1) \div m) \in 1..n
           /\ 1 + ((k - 1) % m) \in 1..m
<1>1. m > 0
  <2>1. m = 0 => n * m = 0 OBVIOUS
  <2> QED BY <2>1
<1> DEFINE q == (k - 1) \div m
           z == (k - 1) % m
<1>2. n * m \in Nat OBVIOUS
<1>3. q \in Int /\ z \in 0..(m - 1) BY <1>1
<1>4. k - 1 = q * m + z BY <1>1
<1> HIDE DEF q, z
<1>5. q >= 0
  <2>1. SUFFICES ASSUME q <= -1 PROVE FALSE BY <1>3
  <2>2. q * m <= (-1) * m BY <1>1, <1>3, <2>1
  <2> QED BY <1>1, <1>2, <1>3, <1>4, <2>2
<1>6. q < n
  <2>1. SUFFICES ASSUME q >= n PROVE FALSE BY <1>3
  <2>2. q * m >= n * m BY <1>1, <1>3, <2>1
  <2> QED BY <1>1, <1>2, <1>3, <1>4, <2>2
<1> QED BY <1>1, <1>3, <1>5, <1>6 DEF q, z

\* The only one with chips is the first.
LEMMA FirstHasAll ==
    ASSUME NEW r, Ranked(r), NEW w \in Players, r.chips[w] > 0,
           \A p \in Players \ {w} : r.chips[p] = 0
    PROVE  1 \in Places /\ r.order[1] = w
<1>1. r.order \in Orders(Players) /\ r.chips \in [Players -> Nat]
  BY DEF Ranked, Records
<1>2. /\ Cardinality(Players) \in Nat
      /\ \E k \in Places : r.order[k] = w
      /\ \A k \in Places : r.order[k] \in Players
  BY <1>1, OrderFact, TournamentAssumption DEF Places
<1>3. PICK k \in Places : r.order[k] = w BY <1>2
<1>4. 1 \in Places /\ k \in Nat BY <1>2, <1>3 DEF Places
<1>5. CASE k = 1 BY <1>3, <1>4, <1>5
<1>6. CASE 1 < k
  <2>1. Chips(r, 1) >= Chips(r, k) BY <1>4, <1>6 DEF Ranked
  <2>2. Chips(r, 1) # 0 BY <1>1, <1>3, <2>1 DEF Chips
  <2> QED BY <1>2, <1>4, <2>2 DEF Chips
<1> QED BY <1>4, <1>5, <1>6 DEF Places

\* The loop over the ranks: the ranks are in order, those without chips keep
\* their places, and the chips of a player who is at the table are put right,
\* if not those of all, then those of the only one who is left.
LEMMA RecordedRecord ==
    ASSUME NEW r, Ranked(r), NEW M \in SUBSET Players, NEW ys \in Orders(M),
           chips \in [Players -> Nat],
           \A p \in M : r.chips[p] > 0 /\ chips[p] > 0,
           NEW new \in Recorded(r, ys)
    PROVE  /\ Ranked(new) /\ Keeps(r, new)
           /\ \A p \in Players : \/ new.chips[p] = r.chips[p]
                                 \/ p \in M /\ new.chips[p] = chips[p]
           /\ \A w \in Players :
                M = {w} /\ (\A p \in Players \ {w} : r.chips[p] = 0)
                  => new.chips[w] = chips[w]
<1> DEFINE m == Len(ys)
           n == Len(r.order)
           l == n * m
           g == CHOOSE f : Recording(f, r, ys, m, 0..l)
<1>1. /\ m \in Nat /\ m = Cardinality(M)
      /\ \A i \in 1..m : ys[i] \in M
      /\ \A p \in M : \E i \in 1..m : ys[i] = p
  <2>1. IsFiniteSet(M) BY TournamentAssumption, FS_Subset
  <2> QED BY <2>1, OrderFact
<1>2. n \in Nat /\ 1..n = Places /\ l \in Nat
  <2>1. r.order \in Orders(Players) BY DEF Ranked, Records
  <2>2. n \in Nat /\ n = Cardinality(Players)
    BY <2>1, OrderFact, TournamentAssumption
  <2> HIDE DEF n, m
  <2> QED BY <1>1, <2>2 DEF Places
<1>3. Recording(g, r, ys, m, 0..l)
  <2> HIDE DEF m, l
  <2> QED BY <1>2, RecordingEnds
<1>4. Recorded(r, ys) = g[l] BY Zenon DEF Recorded, Recording
<1> HIDE DEF g
<1>5. g[0] = {r}
  <2> HIDE DEF l, m
  <2>1. 0 \in 0..l BY <1>2
  <2> QED BY <1>3, <2>1, Zenon DEF Recording
<1>6. ASSUME NEW k \in 0..l, k # 0
      PROVE  g[k] = {Compared(old, 1 + ((k - 1) \div m),
                                   ys[1 + ((k - 1) % m)]) : old \in g[k - 1]}
  BY <1>3, <1>6, Zenon DEF Recording
<1> DEFINE Lone(w) == M = {w} /\ (\A p \in Players \ {w} : r.chips[p] = 0)
           Good(k, old) ==
              /\ Ranked(old) /\ Keeps(r, old)
              /\ \A p \in Players : \/ old.chips[p] = r.chips[p]
                                    \/ p \in M /\ old.chips[p] = chips[p]
              /\ \A w \in Players : Lone(w) /\ k > 0 => old.chips[w] = chips[w]
           G == {k \in Nat : k <= l => \A old \in g[k] : Good(k, old)}
<1> HIDE DEF m, n, l, Lone
<1>7. 0 \in G
  <2>1. Good(0, r) BY KeepsSame
  <2> HIDE DEF Good
  <2> QED BY <1>5, <2>1
<1>8. ASSUME NEW k \in G
      PROVE  k + 1 \in G
  <2> SUFFICES ASSUME k + 1 <= l, NEW s \in g[k + 1]
               PROVE  Good(k + 1, s)
    OBVIOUS
  <2>1. /\ k + 1 \in 0..l /\ k + 1 \in 1..l /\ k + 1 # 0 /\ (k + 1) - 1 = k
        /\ k <= l /\ k \in Nat
    BY <1>2
  <2> DEFINE x == 1 + (((k + 1) - 1) \div m)
             p == ys[1 + (((k + 1) - 1) % m)]
  <2>2. PICK old \in g[k] : s = Compared(old, x, p)
    <3> HIDE DEF Good, G, x, p
    <3>1. g[k + 1] = {Compared(old, x, p) : old \in g[(k + 1) - 1]}
      BY <1>6, <2>1 DEF x, p
    <3> QED BY <2>1, <3>1
  <2>3. Good(k, old)
    <3> HIDE DEF Good
    <3> QED BY <2>1
  <2>4. m > 0 /\ x \in Places /\ p \in M
    <3>1. k + 1 \in 1..(n * m) BY <2>1 DEF l
    <3>2. m > 0 /\ x \in 1..n /\ 1 + (((k + 1) - 1) % m) \in 1..m
      BY <1>1, <1>2, <3>1, ComparedInRange
    <3> QED BY <1>1, <1>2, <3>2
  <2>5. k = 0 /\ m = 1 => x = 1
    <3>1. 0 \div 1 = 0 OBVIOUS
    <3> QED BY <2>1, <3>1
  <2> HIDE DEF x, p
  <2>6. \A q \in Players : r.chips[q] = 0 <=> old.chips[q] = 0
    <3>1. r.chips \in [Players -> Nat] BY DEF Ranked, Records
    <3> QED BY <2>3, <3>1
  <2>7. old.chips \in [Players -> Nat] BY <2>3 DEF Ranked, Records
  <2>8. old.order[x] = p => old.chips[p] > 0
    BY <2>3, <2>4
  <2>9. /\ Ranked(s) /\ Keeps(old, s)
        /\ s.chips = IF old.order[x] = p THEN [old.chips EXCEPT ![p] = chips[p]]
                     ELSE old.chips
    <3>1. p \in Players BY <2>4
    <3> QED BY <2>2, <2>3, <2>4, <2>8, <3>1, CompareStep
  <2>10. Keeps(r, s) BY <2>3, <2>6, <2>9, KeepsOn
  <2>11. \A q \in Players : \/ s.chips[q] = old.chips[q]
                            \/ q = p /\ s.chips[q] = chips[q]
    BY <2>7, <2>9
  <2>12. \A q \in Players : \/ s.chips[q] = r.chips[q]
                            \/ q \in M /\ s.chips[q] = chips[q]
    BY <2>3, <2>4, <2>11
  <2>13. ASSUME NEW w \in Players, Lone(w)
         PROVE  s.chips[w] = chips[w]
    <3>1. M = {w} /\ w \in M /\ \A q \in Players \ {w} : r.chips[q] = 0
      BY <2>13 DEF Lone
    <3>2. p = w BY <2>4, <3>1
    <3>3. CASE k > 0 BY <2>3, <2>11, <2>13, <3>3
    <3>4. CASE k = 0
      <4>1. m = 1 BY <1>1, <3>1, FS_Singleton
      <4>2. old.chips[w] > 0 BY <2>3, <3>1
      <4>3. \A q \in Players \ {w} : old.chips[q] = 0 BY <2>6, <3>1
      <4>4. old.order[1] = w BY <2>3, <4>2, <4>3, FirstHasAll
      <4> QED BY <2>5, <2>7, <2>9, <3>2, <3>4, <4>1, <4>4
    <3> QED BY <2>1, <3>3, <3>4
  <2> QED BY <2>9, <2>10, <2>12, <2>13
<1>9. l \in G
  <2> HIDE DEF G
  <2>1. G \in SUBSET Nat BY DEF G
  <2> QED BY <1>2, <1>7, <1>8, <2>1, NumbersAll
<1>10. Good(l, new)
  <2> HIDE DEF Good
  <2> QED BY <1>2, <1>4, <1>9
<1>11. ASSUME NEW w \in Players, Lone(w)
       PROVE  l > 0
  <2>1. m = 1
    <3>1. M = {w} BY <1>11 DEF Lone
    <3> QED BY <1>1, <3>1, FS_Singleton
  <2>2. n > 0
    <3>1. IsFiniteSet(Players) /\ Players # {} BY TournamentAssumption
    <3>2. Cardinality(Players) # 0 BY <3>1, FS_EmptySet
    <3>3. Cardinality(Players) \in Nat BY <3>1, FS_CardinalityType
    <3>4. 1 \in 1..n BY <1>2, <3>2, <3>3 DEF Places
    <3> QED BY <1>2, <3>4
  <2> QED BY <1>2, <2>1, <2>2 DEF l
<1> QED BY <1>10, <1>11 DEF Lone

-----------------------------------------------------------------------------
(***************************************************************************)
(* The calls that wait for a table's lock.                                 *)
(***************************************************************************)
Ops == {"over", "rere", "start", "post", "move", "leave"}
Asked(q, op) == \E i \in DOMAIN q : q[i].op = op

\* The end of a hand only ever finds the lock free.
OverFirst(q) == \A i \in DOMAIN q : q[i].op = "over" => i = 1

LEMMA AskedNow ==
    ASSUME NEW q \in Seq(Calls), NEW c \in Calls
    PROVE  /\ \A op \in Ops : Asked(Append(q, c), op) <=> Asked(q, op) \/ c.op = op
           /\ OverFirst(q) /\ (c.op # "over" \/ q = <<>>)
                => OverFirst(Append(q, c))
<1>1. /\ DOMAIN Append(q, c) = 1..(Len(q) + 1) /\ DOMAIN q = 1..Len(q)
      /\ Len(q) \in Nat
      /\ \A i \in 1..Len(q) : Append(q, c)[i] = q[i]
      /\ Append(q, c)[Len(q) + 1] = c
  OBVIOUS
<1>2. \A i : i \in 1..(Len(q) + 1) <=> i \in 1..Len(q) \/ i = Len(q) + 1
  BY <1>1
<1>3. ASSUME NEW op \in Ops
      PROVE  Asked(Append(q, c), op) <=> Asked(q, op) \/ c.op = op
  BY <1>1, <1>2, Zenon DEF Asked
<1>4. ASSUME OverFirst(q), c.op # "over" \/ q = <<>>
      PROVE  OverFirst(Append(q, c))
  <2>1. q = <<>> => Len(q) + 1 = 1 OBVIOUS
  <2> QED BY <1>1, <1>2, <1>4, <2>1 DEF OverFirst
<1> QED BY <1>3, <1>4

LEMMA AskedLater ==
    ASSUME NEW q \in Seq(Calls), q # <<>>
    PROVE  /\ Asked(q, Head(q).op)
           /\ \A op \in Ops : Asked(Tail(q), op) => Asked(q, op)
           /\ \A op \in Ops : Asked(q, op) => Asked(Tail(q), op) \/ Head(q).op = op
           /\ OverFirst(q) => /\ OverFirst(Tail(q)) /\ ~Asked(Tail(q), "over")
                              /\ Head(q).op # "over" => ~Asked(q, "over")
<1>1. /\ DOMAIN q = 1..Len(q) /\ Len(q) \in Nat /\ Len(q) > 0
      /\ Tail(q) \in Seq(Calls) /\ Len(Tail(q)) = Len(q) - 1
      /\ DOMAIN Tail(q) = 1..(Len(q) - 1)
      /\ Head(q) = q[1]
      /\ \A i \in 1..(Len(q) - 1) : Tail(q)[i] = q[i + 1]
  OBVIOUS
<1>2. 1 \in DOMAIN q BY <1>1
<1>3. \A i \in DOMAIN Tail(q) : i + 1 \in DOMAIN q /\ i + 1 # 1 BY <1>1
<1>4. \A i \in DOMAIN q : i = 1 \/ (i - 1 \in DOMAIN Tail(q) /\ (i - 1) + 1 = i)
  BY <1>1
<1>5. \A i \in DOMAIN q : i = 1 \/ \E j \in DOMAIN Tail(q) : Tail(q)[j] = q[i]
  BY <1>1, <1>4
<1>6. Asked(q, Head(q).op) BY <1>1, <1>2 DEF Asked
<1>7. ASSUME NEW op \in Ops, Asked(Tail(q), op)
      PROVE  Asked(q, op)
  BY <1>1, <1>3, <1>7 DEF Asked
<1>8. ASSUME NEW op \in Ops, Asked(q, op)
      PROVE  Asked(Tail(q), op) \/ Head(q).op = op
  BY <1>1, <1>5, <1>8, Zenon DEF Asked
<1>9. ASSUME OverFirst(q)
      PROVE  \A i \in DOMAIN Tail(q) : Tail(q)[i].op # "over"
  BY <1>1, <1>3, <1>9 DEF OverFirst
<1>10. ASSUME OverFirst(q)
       PROVE  OverFirst(Tail(q)) /\ ~Asked(Tail(q), "over")
  BY <1>9, <1>10, Zenon DEF OverFirst, Asked
<1>11. ASSUME OverFirst(q), Head(q).op # "over"
       PROVE  ~Asked(q, "over")
  BY <1>1, <1>11 DEF OverFirst, Asked
<1> QED BY <1>6, <1>7, <1>8, <1>10, <1>11

\* A call that joins the queue of a table
LEMMA AskSays ==
    ASSUME LocksHeld, NEW t \in Tables, NEW c \in Calls, Ask(t, c),
           \A x \in Tables : OverFirst(queue[x])
    PROVE  /\ \A x \in Tables, op \in Ops :
                Asked(queue'[x], op) <=> Asked(queue[x], op) \/ (x = t /\ c.op = op)
           /\ c.op # "over" \/ queue[t] = <<>>
                => \A x \in Tables : OverFirst(queue'[x])
<1>1. queue \in [Tables -> Seq(Calls)] BY DEF LocksHeld, QueuesOK
<1>2. \A x \in Tables : queue'[x] = IF x = t THEN Append(queue[t], c) ELSE queue[x]
  BY <1>1 DEF Ask
<1>3. queue[t] \in Seq(Calls) BY <1>1
<1>4. \A op \in Ops : Asked(queue'[t], op) <=> Asked(queue[t], op) \/ c.op = op
  BY <1>2, <1>3, AskedNow
<1>5. c.op # "over" \/ queue[t] = <<>> => OverFirst(queue'[t])
  BY <1>2, <1>3, AskedNow
<1>6. \A x \in Tables : x # t => queue'[x] = queue[x] BY <1>2
<1> QED BY <1>4, <1>5, <1>6, Zenon

\* and one that is over
LEMMA ReleaseSays ==
    ASSUME LocksHeld, NEW t \in Tables, queue[t] # <<>>, Release(t),
           \A x \in Tables : OverFirst(queue[x])
    PROVE  /\ \A x \in Tables, op \in Ops :
                Asked(queue'[x], op) => Asked(queue[x], op)
           /\ \A x \in Tables, op \in Ops :
                Asked(queue[x], op)
                  => Asked(queue'[x], op) \/ (x = t /\ Head(queue[t]).op = op)
           /\ ~Asked(queue'[t], "over")
           /\ Asked(queue[t], Head(queue[t]).op)
           /\ Head(queue[t]).op # "over" => ~Asked(queue[t], "over")
           /\ \A x \in Tables : OverFirst(queue'[x])
<1>1. queue \in [Tables -> Seq(Calls)] BY DEF LocksHeld, QueuesOK
<1>2. queue[t] \in Seq(Calls) BY <1>1
<1>3. queue'[t] = Tail(queue[t]) BY <1>1 DEF Release
<1>4. \A x \in Tables : x # t => queue'[x] = queue[x] BY <1>1 DEF Release
<1>5. /\ Asked(queue[t], Head(queue[t]).op)
      /\ \A op \in Ops : Asked(queue'[t], op) => Asked(queue[t], op)
      /\ \A op \in Ops : Asked(queue[t], op)
                           => Asked(queue'[t], op) \/ Head(queue[t]).op = op
      /\ OverFirst(queue'[t]) /\ ~Asked(queue'[t], "over")
      /\ Head(queue[t]).op # "over" => ~Asked(queue[t], "over")
  BY <1>2, <1>3, AskedLater
<1> QED BY <1>4, <1>5, Zenon

-----------------------------------------------------------------------------
(***************************************************************************)
(* Types.                                                                  *)
(***************************************************************************)
JobOK ==
    /\ job = [to |-> job.to, target |-> job.target, kind |-> job.kind,
              moved |-> job.moved]
    /\ job.kind \in {"none", "first", "second", "even"}
    /\ job.moved \in BOOLEAN

Typed ==
    /\ at \in [Players -> Tables \cup {NoTable}]
    /\ chips \in [Players -> Nat]
    /\ hand \in [Tables -> SUBSET Players]
    /\ busts \in [Tables -> SUBSET Players]
    /\ clearOut \in SUBSET Tables /\ paused \in SUBSET Tables
    /\ JobOK
    /\ timers \in [rere : SUBSET Tables, post : [Tables \X Tables -> Nat]]
    /\ finished \in BOOLEAN

LEMMA TablesFact == /\ NoTable \notin Tables /\ Tables \in SUBSET Nat
                    /\ 1 \in Tables
BY TournamentAssumption DEF Tables, NoTable

LEMMA PlayersFinite ==
    ASSUME NEW S \in SUBSET Players
    PROVE  /\ IsFiniteSet(S) /\ Cardinality(S) \in Nat
           /\ Cardinality(S) = 0 <=> S = {}
           /\ Cardinality(S) > 1 <=> \E p, q \in S : p # q
<1>1. IsFiniteSet(S) /\ Cardinality(S) \in Nat
  BY TournamentAssumption, FS_Subset, FS_CardinalityType
<1>2. Cardinality(S) = 0 <=> S = {} BY <1>1, FS_EmptySet
<1>3. ASSUME NEW p \in S, NEW q \in S, p # q
      PROVE  Cardinality(S) > 1
  <2>1. /\ IsFiniteSet(S \ {p}) /\ Cardinality(S \ {p}) = Cardinality(S) - 1
    BY <1>1, FS_RemoveElement
  <2>2. Cardinality(S \ {p}) # 0 /\ Cardinality(S \ {p}) \in Nat
    BY <1>3, <2>1, FS_EmptySet, FS_CardinalityType
  <2> QED BY <1>1, <2>1, <2>2
<1>4. ASSUME Cardinality(S) > 1
      PROVE  \E p, q \in S : p # q
  <2>1. PICK p \in S : TRUE BY <1>1, <1>2, <1>4
  <2>2. Cardinality(S) # 1 BY <1>1, <1>4
  <2>3. S # {p} BY <2>2, FS_Singleton
  <2> QED BY <2>1, <2>3
<1> QED BY <1>1, <1>2, <1>3, <1>4

\* The chips of some players are a number.
LEMMA SumOfSome ==
    ASSUME NEW c, NEW S \in SUBSET Players, \A p \in S : c[p] \in Nat
    PROVE  /\ SumFunction([p \in S |-> c[p]]) = SumFunctionOnSet(c, S)
           /\ SumFunctionOnSet(c, S) \in Int
<1> DEFINE f == [p \in S |-> c[p]]
<1>1. IsFiniteSet(S) BY PlayersFinite
<1>2. SumFunction(f) = SumFunctionOnSet(f, S)
  <2>1. DOMAIN f = S OBVIOUS
  <2> HIDE DEF f
  <2> QED BY <2>1 DEF SumFunction
<1>3. SumFunctionOnSet(f, S) = SumFunctionOnSet(c, S)
  <2>1. \A p \in S : f[p] = c[p] /\ f[p] \in Int /\ c[p] \in Int OBVIOUS
  <2> HIDE DEF f
  <2> QED BY <1>1, <2>1, SumSame
<1>4. SumFunctionOnSet(c, S) \in Int BY <1>1, SumType
<1> QED BY <1>2, <1>3, <1>4

LEMMA StateMachineTypes ==
    ASSUME Typed, NEW t \in Tables, NEW stopped, StateMachine(t, stopped)
    PROVE  /\ hand' \in [Tables -> SUBSET Players]
           /\ \A x \in Tables \ {t} : hand'[x] = hand[x]
           /\ \/ hand'[t] = hand[t]
              \/ /\ t \notin stopped
                 /\ \A p \in hand'[t] : at[p] = t /\ chips[p] > 0
                 /\ \E p, q \in hand'[t] : p # q
<1> DEFINE in == {p \in Members(t) : chips[p] > 0}
<1>1. in \in SUBSET Players BY DEF Members
<1>2. CASE hand' = hand BY <1>2 DEF Typed
<1>3. CASE hand' = [hand EXCEPT ![t] = in] /\ t \notin stopped /\ Cardinality(in) > 1
  <2>1. \E p, q \in in : p # q
    <3> HIDE DEF in
    <3> QED BY <1>1, <1>3, PlayersFinite
  <2>2. hand'[t] = in /\ \A x \in Tables \ {t} : hand'[x] = hand[x]
    BY <1>3 DEF Typed
  <2>3. hand' \in [Tables -> SUBSET Players]
    <3> HIDE DEF in
    <3> QED BY <1>1, <1>3 DEF Typed
  <2>4. \A p \in in : at[p] = t /\ chips[p] > 0 BY DEF Members
  <2> HIDE DEF in
  <2> QED BY <1>3, <2>1, <2>2, <2>3, <2>4
<1> QED BY <1>2, <1>3 DEF StateMachine

\* What a hand may make of the chips
LEMMA PlayHandTypes ==
    ASSUME Typed, NEW t \in Tables, PlayHand(t)
    PROVE  /\ chips' \in [Players -> Nat]
           /\ hand' \in [Tables -> SUBSET Players]
           /\ \E e \in [hand[t] -> Nat] :
                /\ SumFunction(e) = SumFunction([p \in hand[t] |-> chips[p]])
                /\ chips' = [p \in Players |-> IF p \in hand[t] THEN e[p]
                                               ELSE chips[p]]
<1> DEFINE H == hand[t]
           sum == SumFunction([p \in H |-> chips[p]])
<1>1. H \in SUBSET Players BY DEF Typed
<1>2. sum \in Int
  <2>1. \A p \in H : chips[p] \in Nat BY <1>1 DEF Typed
  <2> HIDE DEF H
  <2> QED BY <1>1, <2>1, SumOfSome
<1>3. PICK e \in Outcomes(H) :
         chips' = [p \in Players |-> IF p \in H THEN e[p] ELSE chips[p]]
  BY DEF PlayHand
<1>4. e \in [H -> 0..sum] /\ SumFunction(e) = sum BY DEF Outcomes
<1>5. e \in [H -> Nat] BY <1>2, <1>4
<1>6. hand' \in [Tables -> SUBSET Players]
  BY DEF PlayHand, HandEnds, Typed
<1>7. chips' \in [Players -> Nat]
  <2> HIDE DEF H, sum
  <2> QED BY <1>3, <1>5 DEF Typed
<1> QED
  <2> HIDE DEF sum
  <2> QED BY <1>3, <1>4, <1>5, <1>6, <1>7 DEF sum

\* There is an order of the players to start with.
LEMMA FirstOrder == Init => ranking \in Orders(Players)
<1>1. IsFiniteSet(Players) BY TournamentAssumption
<1>2. PICK f \in Bijection(1..Cardinality(Players), Players) : TRUE
  BY <1>1, FS_CardinalityType, Zenon DEF ExistsBijection
<1>3. /\ f \in [1..Cardinality(Players) -> Players]
      /\ \A p \in Players : \E k \in DOMAIN f : f[k] = p
  BY <1>2 DEF Bijection, Injection, Surjection
<1>4. \E o \in Orders(Players) : TRUE BY <1>3 DEF Orders
<1> QED BY <1>4, Zenon DEF Init

\* startTournament seats everybody.
LEMMA SeatedInit == Init => at \in [Players -> Tables]
<1> SUFFICES ASSUME Init PROVE at \in [Players -> Tables] OBVIOUS
<1> DEFINE i(p) == CHOOSE k \in DOMAIN ranking : ranking[k] = p
<1>1. ranking \in Orders(Players) BY FirstOrder
<1>2. \A p \in Players : i(p) \in Nat
  <2>1. /\ DOMAIN ranking = 1..Cardinality(Players)
        /\ \A p \in Players : \E k \in 1..Cardinality(Players) : ranking[k] = p
        /\ Cardinality(Players) \in Nat
    BY <1>1, OrderFact, TournamentAssumption
  <2>2. \A p \in Players : i(p) \in 1..Cardinality(Players) BY <2>1
  <2> HIDE DEF i
  <2> QED BY <2>1, <2>2
<1>3. \A a \in Int : 1 + (a % NTables) \in Tables
  BY TournamentAssumption DEF Tables
<1>4. at = [p \in Players |-> 1 + ((i(p) - 1) % NTables)] BY DEF Init
<1> HIDE DEF i
<1> QED BY <1>2, <1>3, <1>4

LEMMA TypedInit == Init => Typed
<1> SUFFICES ASSUME Init PROVE Typed OBVIOUS
<1>1. at \in [Players -> Tables \cup {NoTable}] BY SeatedInit
<1>2. chips \in [Players -> Nat] BY TournamentAssumption DEF Init
<1>3. /\ job.to = NoTable /\ job.kind = "none" /\ job.moved = FALSE
      /\ job = [to |-> job.to, target |-> job.target, kind |-> job.kind,
                moved |-> job.moved]
  BY DEF Init, NoJob
<1>4. timers \in [rere : SUBSET Tables, post : [Tables \X Tables -> Nat]]
  BY DEF Init
<1> QED BY <1>1, <1>2, <1>3, <1>4 DEF Init, JobOK, Typed

\* What a report may put into job
LEMMA JobTypes ==
    ASSUME NEW t, NEW q
    PROVE  /\ Save(t, q) => JobOK' /\ job'.to = NoTable /\ job'.kind = "none"
           /\ \A d, n : \A kind \in {"first", "second", "even"} :
                Rebalance(t, d, n, kind, q)
                  => /\ JobOK' /\ job'.to = d /\ job'.kind = kind
                     /\ job'.moved = FALSE
<1>1. Save(t, q) => JobOK' /\ job'.to = NoTable /\ job'.kind = "none"
  BY DEF Save, NoJob, JobOK
<1>2. ASSUME NEW d, NEW n, NEW kind \in {"first", "second", "even"},
             Rebalance(t, d, n, kind, q)
      PROVE  /\ JobOK' /\ job'.to = d /\ job'.kind = kind
             /\ job'.moved = FALSE
  BY <1>2 DEF Rebalance, JobOK
<1> QED BY <1>1, <1>2

\* Reports and timers
LEMMA TypedHeld ==
    ASSUME Typed, LocksHeld, NEW t \in Tables, Held(t) \/ Timer(t) \/ PlayHand(t)
    PROVE  Typed'
<1>1. CASE PlayHand(t)
  <2>1. /\ chips' \in [Players -> Nat]
        /\ hand' \in [Tables -> SUBSET Players]
    BY <1>1, PlayHandTypes
  <2> QED BY <1>1, <2>1 DEF PlayHand, JobOK, Typed
<1>2. CASE BeginOver(t)
  <2>1. {p \in Members(t) : chips[p] = 0} \in SUBSET Players BY DEF Members
  <2> QED BY <1>2, <2>1 DEF BeginOver, tableVars, JobOK, Typed
<1>3. ASSUME NEW p \in Players, StandUpBust(t, p)
      PROVE  Typed'
  BY <1>3 DEF StandUpBust, lockVars, JobOK, Typed
<1>4. CASE ReportOver(t)
  BY <1>4 DEF ReportOver, JobOK, Typed
<1>5. CASE ReportAgain(t)
  BY <1>5 DEF ReportAgain, tableVars, JobOK, Typed
<1>6. CASE Move(t)
  <2>1. job.to \in Tables BY <1>6 DEF Move, LocksHeld, MoverHasOther
  <2>2. at' \in [Players -> Tables \cup {NoTable}]
    BY <1>6, <2>1 DEF Move, Typed
  <2>3. /\ job' = [to |-> job'.to, target |-> job'.target, kind |-> job'.kind,
                   moved |-> job'.moved]
        /\ job'.kind = job.kind /\ job'.moved = TRUE
    BY <1>6 DEF Move, JobOK, Typed
  <2> QED BY <1>6, <2>2, <2>3 DEF Move, lockVars, JobOK, Typed
<1>7. CASE AfterMove(t)
  <2>1. timers' \in [rere : SUBSET Tables, post : [Tables \X Tables -> Nat]]
    <3>1. job.to \in Tables BY <1>7 DEF AfterMove, LocksHeld, MoverHasOther
    <3>2. PICK new : timers' = [rere |-> IF new THEN timers.rere \cup {t}
                                         ELSE timers.rere,
                   post |-> IF job.moved
                            THEN [timers.post EXCEPT ![<<t, job.to>>] = @ + 1]
                            ELSE timers.post]
      BY <1>7, Zenon DEF AfterMove
    <3>3. timers.rere \in SUBSET Tables
          /\ timers.post \in [Tables \X Tables -> Nat]
      BY DEF Typed
    <3> QED BY <3>1, <3>2, <3>3
  <2>2. JobOK'
    <3>1. PICK q, busy : AfterFirst(t, q, busy) \/ Save(t, q)
      BY <1>7 DEF AfterMove
    <3>2. CASE Save(t, q) BY <3>2, JobTypes
    <3>3. CASE AfterFirst(t, q, busy)
      BY <3>3, JobTypes, Zenon DEF AfterFirst
    <3> QED BY <3>1, <3>2, <3>3
  <2> QED BY <1>7, <2>1, <2>2 DEF AfterMove, tableVars, JobOK, Typed
<1>8. ASSUME Reported(t) PROVE Typed'
  <2>1. hand' \in [Tables -> SUBSET Players]
    <3>1. CASE StateMachine(t, paused) BY <3>1, StateMachineTypes
    <3> QED BY <1>8, <3>1 DEF Reported, Typed
  <2> QED BY <1>8, <2>1 DEF Reported, JobOK, Typed
<1>9. CASE SavedBefore(t)
  BY <1>9 DEF SavedBefore, tableVars, JobOK, Typed
<1>10. CASE Start(t)
  <2>1. hand' \in [Tables -> SUBSET Players]
    BY <1>10, StateMachineTypes DEF Start
  <2> QED BY <1>10, <2>1 DEF Start, JobOK, Typed
<1>11. CASE PostTransfer(t)
  <2>1. StateMachine(t, paused') BY <1>11 DEF PostTransfer
  <2>2. hand' \in [Tables -> SUBSET Players] BY <2>1, StateMachineTypes
  <2> QED BY <1>11, <2>2 DEF PostTransfer, JobOK, Typed
<1>12. CASE LeaveTable(t)
  BY <1>12 DEF LeaveTable, JobOK, Typed
<1>13. CASE RereTimer(t)
  BY <1>13 DEF RereTimer, tableVars, JobOK, Typed
<1>14. ASSUME NEW d \in Tables, PostTimer(t, d)
       PROVE  Typed'
  <2>1. /\ timers.rere \in SUBSET Tables
        /\ timers.post \in [Tables \X Tables -> Nat]
        /\ timers.post[<<t, d>>] \in Nat /\ timers.post[<<t, d>>] > 0
        /\ timers = [rere |-> timers.rere, post |-> timers.post]
    BY <1>14 DEF PostTimer, Typed
  <2>2. timers' = [rere |-> timers.rere,
                   post |-> [timers.post EXCEPT ![<<t, d>>] = @ - 1]]
    BY <1>14, <2>1 DEF PostTimer
  <2>3. timers.post[<<t, d>>] - 1 \in Nat BY <2>1
  <2>4. timers' \in [rere : SUBSET Tables, post : [Tables \X Tables -> Nat]]
    BY <2>1, <2>2, <2>3
  <2> QED BY <1>14, <2>4 DEF PostTimer, tableVars, JobOK, Typed
<1> QED
  BY <1>1, <1>2, <1>3, <1>4, <1>5, <1>6, <1>7, <1>8, <1>9, <1>10, <1>11,
     <1>12, <1>13, <1>14
  DEF Held, Report, Timer, Saved, ReportedAfter

\* What a report does with the lock of the tournament
LEMMA TypedHandOver ==
    ASSUME Typed, NEW t \in Tables, HandOver(t)
    PROVE  Typed'
<1> DEFINE Goal == /\ clearOut' \in SUBSET Tables /\ finished' \in BOOLEAN
                   /\ timers' \in [rere : SUBSET Tables,
                                   post : [Tables \X Tables -> Nat]]
                   /\ JobOK'
<1>1. busts' \in [Tables -> SUBSET Players] BY DEF HandOver, Typed
<1>2. ASSUME NEW new, DeclareWinner(t, new)
      PROVE  Goal
  BY <1>2, JobTypes DEF DeclareWinner, Typed
<1>3. ASSUME NEW busy, Balance(t, busy), UNCHANGED finished
      PROVE  Goal
  <2>1. JobOK' BY <1>3, JobTypes, Zenon DEF Balance
  <2>2. clearOut' \in SUBSET Tables
    <3>1. clearOut' = clearOut \/ clearOut' = clearOut \cup {t}
      BY <1>3, Zenon DEF Balance
    <3> QED BY <3>1 DEF Typed
  <2>3. timers' \in [rere : SUBSET Tables, post : [Tables \X Tables -> Nat]]
    <3>1. \/ timers' = timers
          \/ timers' = [timers EXCEPT !.rere = @ \cup {t}]
      BY <1>3 DEF Balance
    <3> QED BY <3>1 DEF Typed
  <2> QED BY <1>3, <2>1, <2>2, <2>3 DEF Typed
<1>4. \/ \E new : DeclareWinner(t, new)
      \/ \E busy : Balance(t, busy) /\ UNCHANGED finished
  BY Zenon DEF HandOver
<1>5. Goal BY <1>2, <1>3, <1>4
<1> QED BY <1>1, <1>5 DEF HandOver, tableVars, Typed

-----------------------------------------------------------------------------
(***************************************************************************)
(* Which tables are quiet: no hand is dealt at a table whose report is not *)
(* over, or which is to be taken apart further.                            *)
(***************************************************************************)
Again(t) == t \in timers.rere \/ Asked(queue[t], "rere")
Over(t) == Asked(queue[t], "over")
Clearing(t) == Again(t) \/ Over(t)
TwoAt(t) == \E p, q \in Players : p # q /\ at[p] = t /\ at[q] = t
Early == {"none", "bust", "tourn"}

QuietAt(t) ==
    /\ OverFirst(queue[t])
    /\ Again(t) => t \in clearOut
    /\ pc[t] = "move" => /\ job.kind \in {"first", "second", "even"}
                         /\ job.kind # "even" => t \in clearOut
                         /\ job.to \notin clearOut
                         /\ job.moved => t \in paused
    /\ TwoAt(t) => /\ Clearing(t) => ~Asked(queue[t], "post")
                   /\ Again(t) => t \in paused
    /\ hand[t] # {} => ~Clearing(t)
    /\ Over(t) /\ pc[t] \in Early => ~Again(t)
Quiet == \A t \in Tables : QuietAt(t)

\* A report still runs, or is to come.
LEMMA ReportIsAsked ==
    ASSUME LocksHeld, NEW t \in Tables, OverFirst(queue[t])
    PROVE  /\ pc[t] # "none" => Clearing(t)
           /\ queue[t] # <<>> =>
                /\ Head(queue[t]).op = "over" => Over(t)
                /\ Head(queue[t]).op = "rere" => Again(t)
                /\ Head(queue[t]).op # "over" => ~Over(t)
                /\ Asked(queue[t], Head(queue[t]).op)
<1>1. queue[t] \in Seq(Calls) BY DEF LocksHeld, QueuesOK
<1>2. queue[t] # <<>> => /\ Asked(queue[t], Head(queue[t]).op)
                         /\ Head(queue[t]).op # "over" => ~Over(t)
  BY <1>1, AskedLater DEF Over
<1>3. pc[t] # "none" => queue[t] # <<>> /\ Head(queue[t]).op \in {"over", "rere"}
  BY DEF LocksHeld, ReportHasTable
<1> QED BY <1>2, <1>3 DEF Again, Over, Clearing

\* A table that nothing new is asked of, that deals no hand and that nobody
\* comes to
LEMMA StaysQuiet ==
    ASSUME NEW t \in Tables, QuietAt(t), OverFirst(queue'[t]),
           Again(t)' => Again(t), Over(t)' => Over(t),
           Asked(queue'[t], "post") => Asked(queue[t], "post"),
           TwoAt(t)' => TwoAt(t),
           t \in paused => t \in paused',
           t \in clearOut => t \in clearOut',
           hand'[t] # {} => hand[t] # {},
           pc'[t] = "move" => pc[t] = "move" /\ UNCHANGED <<job, clearOut>>,
           pc'[t] \in Early => pc[t] \in Early \/ ~Over(t)'
    PROVE  QuietAt(t)'
BY DEF QuietAt, Clearing

LEMMA QuietInit == Init => Quiet
<1> SUFFICES ASSUME Init, NEW t \in Tables PROVE QuietAt(t)
  BY DEF Quiet
<1>1. /\ queue[t] = <<Call("start", NoTable)>> /\ pc[t] = "none"
      /\ hand[t] = {} /\ timers.rere = {}
  BY DEF Init
<1>2. DOMAIN queue[t] = {1} /\ queue[t][1].op = "start" BY <1>1 DEF Call
<1>3. OverFirst(queue[t]) /\ ~Over(t) /\ ~Again(t)
  BY <1>1, <1>2 DEF OverFirst, Over, Again, Asked
<1> QED BY <1>1, <1>3 DEF QuietAt, Clearing

\* Who is at a table
LEMMA TwoAtSame ==
    ASSUME NEW t, \A p \in Players : at'[p] = t => at[p] = t
    PROVE  TwoAt(t)' => TwoAt(t)
BY DEF TwoAt

LEMMA CountTwo ==
    ASSUME NEW t
    PROVE  TwoAt(t) <=> Count(t) > 1
<1>1. Members(t) \in SUBSET Players BY DEF Members
<1>2. Cardinality(Members(t)) > 1 <=> \E p, q \in Members(t) : p # q
  BY <1>1, PlayersFinite
<1>3. (\E p, q \in Members(t) : p # q) <=> TwoAt(t) BY DEF Members, TwoAt
<1> QED BY <1>2, <1>3 DEF Count

-----------------------------------------------------------------------------
LEMMA QuietPlayHand ==
    ASSUME Typed, LocksHeld, Quiet, NEW t \in Tables, PlayHand(t)
    PROVE  Quiet'
<1> SUFFICES ASSUME NEW x \in Tables PROVE QuietAt(x)' BY DEF Quiet
<1>1. Call("over", NoTable) \in Calls /\ Call("over", NoTable).op = "over"
  BY DEF Call, Calls
<1>2. \A y \in Tables : OverFirst(queue[y]) BY DEF Quiet, QuietAt
<1>3. queue[t] = <<>> /\ hand[t] # {} BY DEF PlayHand, HandEnds, Free
<1>4. \A y \in Tables, op \in Ops :
         Asked(queue'[y], op) <=> Asked(queue[y], op) \/ (y = t /\ op = "over")
  BY <1>1, <1>2, AskSays DEF PlayHand
<1>5. \A y \in Tables : OverFirst(queue'[y])
  BY <1>1, <1>2, <1>3, AskSays DEF PlayHand
<1>6. /\ UNCHANGED <<at, clearOut, paused, pc, job, timers>>
      /\ hand' = [hand EXCEPT ![t] = {}]
  BY DEF PlayHand, HandEnds
<1>7. QuietAt(x) BY DEF Quiet
<1>8. TwoAt(x)' => TwoAt(x) BY <1>6, TwoAtSame
<1>9. /\ Asked(queue'[x], "rere") <=> Asked(queue[x], "rere")
      /\ Asked(queue'[x], "post") <=> Asked(queue[x], "post")
      /\ x # t => (Asked(queue'[x], "over") <=> Asked(queue[x], "over"))
  BY <1>4 DEF Ops
<1>10. hand'[x] = IF x = t THEN {} ELSE hand[x] BY <1>6 DEF Typed
<1>11. x = t => /\ ~Asked(queue[x], "rere") /\ ~Asked(queue[x], "post")
                /\ ~Again(x)
  BY <1>3, <1>7 DEF Asked, QuietAt, Clearing
<1>12. Again(x)' <=> Again(x) BY <1>6, <1>9 DEF Again
<1>13. CASE x = t
  BY <1>5, <1>6, <1>7, <1>9, <1>10, <1>11, <1>12, <1>13
     DEF QuietAt, Clearing
<1>14. CASE x # t
  BY <1>5, <1>6, <1>7, <1>8, <1>9, <1>10, <1>12, <1>14, StaysQuiet DEF Over
<1> QED BY <1>13, <1>14

\* A report gets on, and nobody but the players that are out moves.
LEMMA QuietReport ==
    ASSUME Typed, LocksHeld, Quiet, NEW t \in Tables,
           \/ BeginOver(t) \/ (\E p \in Players : StandUpBust(t, p))
           \/ ReportOver(t) \/ ReportAgain(t) \/ SavedBefore(t)
    PROVE  Quiet'
<1> SUFFICES ASSUME NEW x \in Tables PROVE QuietAt(x)' BY DEF Quiet
<1>1. QuietAt(x) BY DEF Quiet
<1>2. UNCHANGED <<queue, clearOut, paused, hand, job, timers>>
  BY DEF BeginOver, StandUpBust, ReportOver, ReportAgain, SavedBefore,
         tableVars, lockVars
<1>3. \A p \in Players : at'[p] = x => at[p] = x
  BY TablesFact
     DEF BeginOver, StandUpBust, ReportOver, ReportAgain, SavedBefore,
         tableVars, Typed
<1>4. TwoAt(x)' => TwoAt(x) BY <1>3, TwoAtSame
<1>5. /\ pc'[x] = "move" => pc[x] = "move"
      /\ pc'[x] \in Early => pc[x] \in Early
  BY DEF BeginOver, StandUpBust, ReportOver, ReportAgain, SavedBefore,
         tableVars, lockVars, LocksHeld, QueuesOK, Early
<1>6. (Again(x)' <=> Again(x)) /\ (Over(x)' <=> Over(x))
  BY <1>2 DEF Again, Over
<1>7. OverFirst(queue[x]) BY <1>1 DEF QuietAt
<1> QED BY <1>1, <1>2, <1>4, <1>5, <1>6, <1>7, StaysQuiet

LEMMA QuietMove ==
    ASSUME Typed, LocksHeld, Quiet, NEW t \in Tables, Move(t)
    PROVE  Quiet'
<1> SUFFICES ASSUME NEW x \in Tables PROVE QuietAt(x)' BY DEF Quiet
<1> DEFINE d == job.to
<1>1. /\ pc[t] = "move" /\ queue[d] # <<>> /\ Head(queue[d]).op = "move"
      /\ d \in Tables /\ d \notin clearOut
  BY DEF Move, Has, Free, LocksHeld, MoverHasOther, Quiet, QuietAt
<1>2. /\ UNCHANGED <<queue, clearOut, hand, pc, timers>>
      /\ paused' = paused \cup {t}
      /\ job'.kind = job.kind /\ job'.to = job.to
  BY DEF Move, lockVars, Typed, JobOK
<1>3. x # d => (TwoAt(x)' => TwoAt(x))
  <2>1. \E p \in Players : at' = [at EXCEPT ![p] = d] BY DEF Move, Members
  <2>2. x # d => \A p \in Players : at'[p] = x => at[p] = x
    BY <2>1 DEF Typed
  <2> QED BY <2>2, TwoAtSame
<1>4. ~Clearing(d)
  <2>1. QuietAt(d) BY <1>1 DEF Quiet
  <2>2. ~Over(d) BY <1>1, <2>1, ReportIsAsked DEF QuietAt
  <2> QED BY <1>1, <2>1, <2>2 DEF QuietAt, Clearing
<1>5. x # t => pc[x] # "move"
  BY <1>1 DEF LocksHeld, MoverIsFirst
<1>6. QuietAt(x) BY DEF Quiet
<1>7. /\ (Again(x)' <=> Again(x)) /\ (Over(x)' <=> Over(x))
      /\ (Clearing(x)' <=> Clearing(x))
  BY <1>2 DEF Again, Over, Clearing
<1>8. x = d => ~Clearing(x) BY <1>4
<1> HIDE DEF d
<1> QED BY <1>2, <1>3, <1>5, <1>6, <1>7, <1>8 DEF QuietAt, Clearing

\* The queues q, when the first call for table d is over, and the next ones,
\* when another one joins those of q.
Taken(q, d) == q = [queue EXCEPT ![d] = Tail(@)]
Joined(q, d, c) == queue' = [q EXCEPT ![d] = Append(@, c)]

\* What a call that is over leaves of the queue
LEMMA TailSays ==
    ASSUME LocksHeld, NEW d \in Tables, queue[d] # <<>>,
           NEW q, Taken(q, d),
           NEW x \in Tables, OverFirst(queue[x])
    PROVE  /\ q \in [Tables -> Seq(Calls)]
           /\ \A op \in Ops : Asked(q[x], op) => Asked(queue[x], op)
           /\ \A op \in Ops : Asked(queue[x], op)
                => Asked(q[x], op) \/ (x = d /\ Head(queue[d]).op = op)
           /\ OverFirst(q[x])
           /\ x = d => ~Asked(q[x], "over")
<1>1. queue \in [Tables -> Seq(Calls)] BY DEF LocksHeld, QueuesOK
<1>2. Tail(queue[d]) \in Seq(Calls) BY <1>1, TailFact
<1>3. q \in [Tables -> Seq(Calls)] BY <1>1, <1>2 DEF Taken
<1>4. q[x] = IF x = d THEN Tail(queue[d]) ELSE queue[x] BY <1>1 DEF Taken
<1>5. CASE x = d
  <2>1. q[x] = Tail(queue[x]) BY <1>4, <1>5
  <2>2. queue[x] \in Seq(Calls) /\ queue[x] # <<>> BY <1>1, <1>5
  <2>3. /\ \A op \in Ops : Asked(q[x], op) => Asked(queue[x], op)
        /\ \A op \in Ops : Asked(queue[x], op)
             => Asked(q[x], op) \/ Head(queue[x]).op = op
        /\ OverFirst(q[x]) /\ ~Asked(q[x], "over")
    BY <2>1, <2>2, AskedLater
  <2> QED BY <1>3, <1>5, <2>3, Zenon
<1>6. CASE x # d
  <2>1. q[x] = queue[x] BY <1>4, <1>6
  <2> QED BY <1>3, <1>6, <2>1, Zenon
<1> QED BY <1>5, <1>6

\* A call that joins the queue of a table
LEMMA JoinSays ==
    ASSUME NEW q \in [Tables -> Seq(Calls)], NEW d \in Tables, NEW c \in Calls,
           c.op # "over", Joined(q, d, c),
           NEW x \in Tables, OverFirst(q[x])
    PROVE  /\ \A op \in Ops : Asked(queue'[x], op) <=>
                Asked(q[x], op) \/ (x = d /\ c.op = op)
           /\ OverFirst(queue'[x])
<1>1. CASE x = d
  <2>1. queue'[x] = Append(q[x], c) BY <1>1 DEF Joined
  <2>2. q[x] \in Seq(Calls) OBVIOUS
  <2>3. /\ \A op \in Ops : Asked(queue'[x], op) <=> Asked(q[x], op) \/ c.op = op
        /\ OverFirst(queue'[x])
    BY <2>1, <2>2, AskedNow
  <2> QED BY <1>1, <2>3, Zenon
<1>2. CASE x # d
  <2>1. queue'[x] = q[x] BY <1>2 DEF Joined
  <2> QED BY <1>2, <2>1, Zenon
<1> QED BY <1>1, <1>2

\* The next step of a report asks for the lock of another table, or of none.
LEMMA ChoosesSays ==
    ASSUME NEW q \in [Tables -> Seq(Calls)], NEW t \in Tables, Chooses(t, q),
           NEW x \in Tables, OverFirst(q[x])
    PROVE  /\ \A op \in Ops \ {"move"} :
                Asked(queue'[x], op) <=> Asked(q[x], op)
           /\ OverFirst(queue'[x])
<1>1. Call("move", t) \in Calls /\ Call("move", t).op = "move"
  BY DEF Call, Calls
<1>2. CASE queue' = q BY <1>2
<1>3. CASE /\ job'.to \in Tables
           /\ queue' = [q EXCEPT ![job'.to] = Append(@, Call("move", t))]
  <2>1. PICK d \in Tables : queue' = [q EXCEPT ![d] = Append(@, Call("move", t))]
    BY <1>3
  <2> DEFINE c == Call("move", t)
  <2>2. c \in Calls /\ c.op = "move" BY <1>1
  <2>3. Joined(q, d, c) BY <2>1 DEF Joined
  <2> HIDE DEF c
  <2>4. \A op \in Ops : Asked(queue'[x], op) <=>
          Asked(q[x], op) \/ (x = d /\ c.op = op)
    BY <2>2, <2>3, JoinSays
  <2>5. OverFirst(queue'[x]) BY <2>2, <2>3, JoinSays
  <2>6. ASSUME NEW op \in Ops \ {"move"}
        PROVE  Asked(queue'[x], op) <=> Asked(q[x], op)
    BY <2>2, <2>4, <2>6, Zenon
  <2> QED BY <2>5, <2>6
<1> QED BY <1>2, <1>3 DEF Chooses

LEMMA FoundIsWhole ==
    ASSUME NEW n, NEW skip, NEW clear, NEW q, NEW busy,
           EmptyTable(n, skip, clear, q, busy) # NoTable
    PROVE  EmptyTable(n, skip, clear, q, busy) \notin clear
<1> DEFINE found == {x \in Tables : /\ Count(x) < n /\ x # skip /\ x \notin clear
                                    /\ q[x] = <<>> /\ x \notin busy}
<1>1. found # {} BY DEF EmptyTable
<1>2. found \in SUBSET Nat BY TournamentAssumption DEF Tables
<1>3. \E x \in found : \A y \in found : x <= y BY <1>1, <1>2, MinExists
<1> QED BY <1>1, <1>3 DEF EmptyTable

-----------------------------------------------------------------------------
LEMMA QuietAfterMove ==
    ASSUME Typed, LocksHeld, Quiet, NEW t \in Tables, AfterMove(t)
    PROVE  Quiet'
<1> SUFFICES ASSUME NEW x \in Tables PROVE QuietAt(x)' BY DEF Quiet
<1> DEFINE d == job.to
           q == [queue EXCEPT ![d] = Tail(@)]
<1>1. /\ pc[t] = "move" /\ queue[d] # <<>> /\ d \in Tables
      /\ UNCHANGED <<at, hand, clearOut, paused>>
  BY DEF AfterMove, Has, Free, LocksHeld, MoverHasOther, tableVars
<1>2. \A y \in Tables : QuietAt(y) /\ OverFirst(queue[y])
  BY DEF Quiet, QuietAt
<1>3. Clearing(t) BY <1>1, <1>2, ReportIsAsked
<1>4. PICK busy \in Others :
         /\ timers'.rere = IF DueAgain(t, q, busy) THEN timers.rere \cup {t}
                           ELSE timers.rere
         /\ IF job.kind = "first" THEN AfterFirst(t, q, busy) ELSE Save(t, q)
  BY DEF AfterMove
<1>5. /\ DueAgain(t, q, busy) => job.kind \in {"first", "second"}
      /\ ~job.moved => Members(t) = {} \/ job.kind = "even"
  BY DEF AfterMove, DueAgain
<1>6. /\ q \in [Tables -> Seq(Calls)] /\ OverFirst(q[x])
      /\ \A op \in Ops : Asked(q[x], op) => Asked(queue[x], op)
  <2>1. Taken(q, d) BY DEF Taken
  <2> HIDE DEF d, q
  <2>2. d \in Tables /\ queue[d] # <<>> /\ OverFirst(queue[x]) BY <1>1, <1>2
  <2> QED BY <2>1, <2>2, TailSays
<1> HIDE DEF q, d
<1>7. \/ Save(t, q)
      \/ /\ job.kind = "first" /\ job'.kind = "second" /\ job'.moved = FALSE
         /\ job'.to \in Tables /\ q[job'.to] = <<>> /\ job'.to \notin clearOut
         /\ Chooses(t, q)
  <2>1. CASE AfterFirst(t, q, busy) /\ job.kind = "first"
    <3> DEFINE e == EmptyTable(job.target, t, clearOut, q, busy)
    <3>1. e # NoTable => e \in Tables /\ q[e] = <<>> /\ e \notin clearOut
      BY FoundIsFree, FoundIsWhole
    <3>2. \/ Save(t, q)
          \/ e # NoTable /\ Rebalance(t, e, job.target, "second", q)
      BY <2>1, Zenon DEF AfterFirst
    <3> HIDE DEF e
    <3> QED BY <2>1, <3>1, <3>2, RebalanceChooses, JobTypes
  <2> QED BY <1>4, <2>1
<1>8. Chooses(t, q) BY <1>7, SaveChooses
<1>9. /\ \A op \in Ops \ {"move"} : Asked(queue'[x], op) => Asked(queue[x], op)
      /\ OverFirst(queue'[x])
  BY <1>6, <1>8, ChoosesSays
<1>10. /\ Asked(queue'[x], "rere") => Asked(queue[x], "rere")
       /\ Asked(queue'[x], "over") => Asked(queue[x], "over")
       /\ Asked(queue'[x], "post") => Asked(queue[x], "post")
  BY <1>9 DEF Ops
<1>11. TwoAt(x)' <=> TwoAt(x) BY <1>1 DEF TwoAt
<1>12. /\ Over(x)' => Over(x)
       /\ Again(x)' => Again(x) \/ (x = t /\ DueAgain(t, q, busy))
  BY <1>4, <1>10 DEF Over, Again
<1>13. /\ x # t => pc'[x] = pc[x] /\ pc[x] # "move"
       /\ x = t => pc'[x] \in {"move", "save"}
  BY <1>1, <1>8 DEF Chooses, LocksHeld, MoverIsFirst, QueuesOK
<1>14. QuietAt(x) BY <1>2
<1>15. CASE x # t
  BY <1>1, <1>9, <1>10, <1>11, <1>12, <1>13, <1>14, <1>15, StaysQuiet
<1>16. CASE x = t
  <2>1. /\ job.kind \in {"first", "second"} => t \in clearOut
        /\ job.moved => t \in paused
    BY <1>1, <1>14, <1>16 DEF QuietAt
  <2>2. Again(t)' => Again(t) \/ job.kind \in {"first", "second"}
    BY <1>5, <1>12, <1>16
  <2>3. Members(t) = {} => ~TwoAt(t) BY DEF Members, TwoAt
  <2>4. Again(t)' /\ TwoAt(t) => t \in paused
    BY <1>5, <1>14, <1>16, <2>1, <2>2, <2>3 DEF QuietAt
  <2>5. Again(t)' => t \in clearOut
    BY <1>14, <1>16, <2>1, <2>2 DEF QuietAt
  <2>6. TwoAt(t) => ~Asked(queue'[t], "post")
    BY <1>3, <1>10, <1>14, <1>16 DEF QuietAt
  <2>7. hand'[t] = {} BY <1>1, <1>3, <1>14, <1>16 DEF QuietAt
  <2>8. pc'[t] = "move" =>
          /\ job.kind = "first" /\ job'.kind = "second" /\ job'.moved = FALSE
          /\ job'.to \notin clearOut
    BY <1>1, <1>7 DEF Save, LocksHeld, QueuesOK
  <2> QED
    BY <1>1, <1>9, <1>11, <1>13, <1>16, <2>1, <2>4, <2>5, <2>6, <2>7, <2>8
    DEF QuietAt, Early
<1> QED BY <1>15, <1>16

\* A call that is over: the table may deal a hand.
LEMMA QuietRelease ==
    ASSUME Typed, LocksHeld, Quiet, NEW t \in Tables, queue[t] # <<>>,
           Release(t), pc' = [pc EXCEPT ![t] = "none"],
           UNCHANGED <<clearOut, paused, job, timers>>,
           \A p \in Players : at'[p] \in Tables => at'[p] = at[p],
           \/ UNCHANGED hand
           \/ StateMachine(t, paused) /\ UNCHANGED at
    PROVE  Quiet'
<1> SUFFICES ASSUME NEW x \in Tables PROVE QuietAt(x)' BY DEF Quiet
<1>1. QuietAt(x) BY DEF Quiet
<1>2. \A y \in Tables : OverFirst(queue[y]) BY DEF Quiet, QuietAt
<1>3. /\ \A op \in Ops : Asked(queue'[x], op) => Asked(queue[x], op)
      /\ x = t => ~Asked(queue'[x], "over")
      /\ OverFirst(queue'[x])
  BY <1>2, ReleaseSays
<1>4. TwoAt(x)' => TwoAt(x) BY TwoAtSame
<1>5. /\ Asked(queue'[x], "rere") => Asked(queue[x], "rere")
      /\ Asked(queue'[x], "post") => Asked(queue[x], "post")
      /\ Asked(queue'[x], "over") => Asked(queue[x], "over")
  BY <1>3 DEF Ops
<1>6. (Again(x)' => Again(x)) /\ (Over(x)' => Over(x)) BY <1>5 DEF Again, Over
<1>7. /\ x # t => pc'[x] = pc[x]
      /\ x = t => pc'[x] = "none" /\ ~Over(x)'
  BY <1>3 DEF LocksHeld, QueuesOK, Over
<1>8. CASE hand'[x] # {} => hand[x] # {}
  BY <1>1, <1>3, <1>4, <1>5, <1>6, <1>7, <1>8, StaysQuiet
<1>9. CASE hand'[x] # {} /\ hand[x] = {}
  <2>1. StateMachine(t, paused) /\ UNCHANGED at BY <1>9
  <2>2. x = t /\ t \notin paused /\ TwoAt(t)
    BY <1>9, <2>1, StateMachineTypes DEF TwoAt, Typed
  <2>3. ~Again(x)' /\ ~Over(x)' BY <1>1, <1>6, <1>7, <2>2 DEF QuietAt
  <2> QED BY <1>3, <1>7, <2>2, <2>3 DEF QuietAt, Clearing
<1> QED BY <1>8, <1>9

LEMMA QuietReported ==
    ASSUME Typed, LocksHeld, Quiet, NEW t \in Tables,
           Saved(t) \/ ReportedAfter(t)
    PROVE  Quiet'
<1>1. Reported(t) /\ pc[t] # "none" BY DEF Saved, ReportedAfter
<1>2. queue[t] # <<>> BY <1>1 DEF LocksHeld, ReportHasTable
<1>3. UNCHANGED hand \/ StateMachine(t, paused) BY <1>1 DEF Reported
<1> QED BY <1>1, <1>2, <1>3, QuietRelease DEF Reported

LEMMA QuietStart ==
    ASSUME Typed, LocksHeld, Quiet, NEW t \in Tables, Start(t)
    PROVE  Quiet'
<1>1. queue[t] # <<>> /\ Head(queue[t]).op = "start" BY DEF Start, Has, Free
<1>2. pc' = [pc EXCEPT ![t] = "none"] BY <1>1, NoReport DEF Start
<1> QED BY <1>1, <1>2, QuietRelease DEF Start

LEMMA QuietLeaveTable ==
    ASSUME Typed, LocksHeld, Quiet, NEW t \in Tables, LeaveTable(t)
    PROVE  Quiet'
<1>1. queue[t] # <<>> /\ Head(queue[t]).op = "leave"
  BY DEF LeaveTable, Has, Free
<1>2. pc' = [pc EXCEPT ![t] = "none"] BY <1>1, NoReport DEF LeaveTable
<1>3. \A p \in Players : at'[p] \in Tables => at'[p] = at[p]
  BY TablesFact DEF LeaveTable
<1> QED BY <1>1, <1>2, <1>3, QuietRelease DEF LeaveTable

LEMMA QuietTimer ==
    ASSUME Typed, LocksHeld, Quiet, NEW t \in Tables, Timer(t)
    PROVE  Quiet'
<1> SUFFICES ASSUME NEW x \in Tables PROVE QuietAt(x)' BY DEF Quiet
<1>1. QuietAt(x) BY DEF Quiet
<1>2. \A y \in Tables : OverFirst(queue[y]) BY DEF Quiet, QuietAt
<1>3. CASE RereTimer(t)
  <2>1. Call("rere", NoTable) \in Calls /\ Call("rere", NoTable).op = "rere"
    BY DEF Call, Calls
  <2>2. /\ UNCHANGED <<at, hand, clearOut, paused, pc, job>> /\ t \in timers.rere
        /\ timers'.rere = timers.rere \ {t}
    BY <1>3 DEF RereTimer, tableVars, Typed
  <2>3. /\ \A op \in Ops : Asked(queue'[x], op) <=>
             Asked(queue[x], op) \/ (x = t /\ op = "rere")
        /\ OverFirst(queue'[x])
    BY <1>2, <1>3, <2>1, AskSays DEF RereTimer
  <2>4. /\ Asked(queue'[x], "rere") <=> Asked(queue[x], "rere") \/ x = t
        /\ Asked(queue'[x], "post") <=> Asked(queue[x], "post")
        /\ Asked(queue'[x], "over") <=> Asked(queue[x], "over")
    BY <2>3 DEF Ops
  <2>5. (Again(x)' => Again(x)) /\ (Over(x)' => Over(x))
    BY <2>2, <2>4 DEF Again, Over
  <2>6. TwoAt(x)' => TwoAt(x) BY <2>2 DEF TwoAt
  <2> QED BY <1>1, <2>2, <2>3, <2>4, <2>5, <2>6, StaysQuiet
<1>4. ASSUME NEW d \in Tables, PostTimer(t, d)
      PROVE  QuietAt(x)'
  <2>1. Call("post", d) \in Calls /\ Call("post", d).op = "post"
    BY DEF Call, Calls
  <2>2. /\ UNCHANGED <<at, hand, clearOut, paused, pc, job>>
        /\ timers'.rere = timers.rere
    BY <1>4 DEF PostTimer, tableVars, Typed
  <2>3. /\ \A op \in Ops : Asked(queue'[x], op) <=>
             Asked(queue[x], op) \/ (x = t /\ op = "post")
        /\ OverFirst(queue'[x])
    BY <1>2, <1>4, <2>1, AskSays DEF PostTimer
  <2>4. /\ Asked(queue'[x], "rere") <=> Asked(queue[x], "rere")
        /\ Asked(queue'[x], "post") <=> Asked(queue[x], "post") \/ x = t
        /\ Asked(queue'[x], "over") <=> Asked(queue[x], "over")
    BY <2>3 DEF Ops
  <2>5. (Again(x)' <=> Again(x)) /\ (Over(x)' <=> Over(x))
    BY <2>2, <2>4 DEF Again, Over
  <2>6. TwoAt(x)' <=> TwoAt(x) BY <2>2 DEF TwoAt
  <2>7. MovesOn(t) <=> Clearing(t)
    BY DEF MovesOn, Clearing, Again, Over, Waiting, Asked
  <2>8. Clearing(t) => ~TwoAt(t)
    <3>1. Clearing(t) => Count(t) <= 1 BY <1>4, <2>7 DEF PostTimer
    <3>2. Count(t) \in Nat BY PlayersFinite DEF Count, Members
    <3> QED BY <3>1, <3>2, CountTwo
  <2>9. CASE x # t
    BY <1>1, <2>2, <2>3, <2>4, <2>5, <2>6, <2>9, StaysQuiet
  <2>10. CASE x = t
    BY <1>1, <2>2, <2>3, <2>5, <2>6, <2>8, <2>10 DEF QuietAt, Clearing
  <2> QED BY <2>9, <2>10
<1> QED BY <1>3, <1>4 DEF Timer

\* The table a player came from plays on: it was not to be taken apart, and
\* so was the one he went to.
LEMMA QuietPostTransfer ==
    ASSUME Typed, LocksHeld, Quiet, NEW t \in Tables, PostTransfer(t)
    PROVE  Quiet'
<1> SUFFICES ASSUME NEW x \in Tables PROVE QuietAt(x)' BY DEF Quiet
<1> DEFINE d == Head(queue[t]).x
           q == [queue EXCEPT ![t] = Tail(@)]
           c == Call("start", NoTable)
<1>1. queue[t] # <<>> /\ Head(queue[t]).op = "post"
  BY DEF PostTransfer, Has, Free
<1>2. \A y \in Tables : QuietAt(y) /\ OverFirst(queue[y])
  BY DEF Quiet, QuietAt
<1>3. d \in Tables
  <2>1. Head(queue[t]) \in Calls BY <1>1, TailFact DEF LocksHeld, QueuesOK
  <2> QED BY <1>1, <2>1 DEF Calls
<1>4. Taken(q, t) BY DEF Taken
<1>5. Joined(q, d, c) BY DEF Joined, PostTransfer
<1>6. c \in Calls /\ c.op = "start" BY DEF Call, Calls
<1>7. /\ UNCHANGED <<at, clearOut, pc, job, timers>>
      /\ paused' = paused \ {t} /\ StateMachine(t, paused')
  BY DEF PostTransfer
<1> HIDE DEF d, q, c
<1>8. /\ q \in [Tables -> Seq(Calls)] /\ OverFirst(q[x])
      /\ \A op \in Ops : Asked(q[x], op) => Asked(queue[x], op)
  BY <1>1, <1>2, <1>4, TailSays
<1>9. /\ \A op \in Ops : Asked(queue'[x], op) <=>
           Asked(q[x], op) \/ (x = d /\ c.op = op)
      /\ OverFirst(queue'[x])
  BY <1>3, <1>5, <1>6, <1>8, JoinSays
<1>10. /\ Asked(queue'[x], "rere") => Asked(queue[x], "rere")
       /\ Asked(queue'[x], "post") => Asked(queue[x], "post")
       /\ Asked(queue'[x], "over") => Asked(queue[x], "over")
  BY <1>6, <1>8, <1>9 DEF Ops
<1>11. (Again(x)' => Again(x)) /\ (Over(x)' => Over(x))
  BY <1>7, <1>10 DEF Again, Over
<1>12. TwoAt(x)' <=> TwoAt(x) BY <1>7 DEF TwoAt
<1>13. /\ ~Over(t) /\ Asked(queue[t], "post") /\ pc[t] = "none"
       /\ TwoAt(t) => ~Clearing(t)
  <2>1. ~Over(t) /\ Asked(queue[t], "post")
    BY <1>1, <1>2, ReportIsAsked
  <2> QED BY <1>1, <1>2, <2>1, NoReport DEF QuietAt
<1>14. hand'[x] # {} => hand[x] # {} \/ (x = t /\ TwoAt(t))
  BY <1>7, StateMachineTypes DEF TwoAt, Typed
<1>15. QuietAt(x) BY <1>2
<1>16. CASE x # t
  BY <1>7, <1>9, <1>10, <1>11, <1>12, <1>14, <1>15, <1>16, StaysQuiet
<1>17. CASE x = t
  BY <1>7, <1>9, <1>11, <1>12, <1>13, <1>14, <1>15, <1>17
  DEF QuietAt, Clearing
<1> QED BY <1>16, <1>17

-----------------------------------------------------------------------------
\* The tournament decides: only the table of the report is to be taken apart.
LEMMA QuietHandOver ==
    ASSUME Typed, LocksHeld, Quiet, NEW t \in Tables, HandOver(t)
    PROVE  Quiet'
<1> SUFFICES ASSUME NEW x \in Tables PROVE QuietAt(x)' BY DEF Quiet
<1>1. /\ pc[t] = "tourn" /\ tqueue # <<>> /\ Head(tqueue) = t
      /\ UNCHANGED <<at, hand, paused>>
  BY DEF HandOver, Decides, tableVars
<1>2. \A y \in Tables : QuietAt(y) /\ OverFirst(queue[y])
  BY DEF Quiet, QuietAt
<1>3. Clearing(t) BY <1>1, <1>2, ReportIsAsked
<1>4. QuietAt(x) BY <1>2
<1>5. queue \in [Tables -> Seq(Calls)] /\ pc \in [Tables -> Pcs]
  BY DEF LocksHeld, QueuesOK
<1>6. TwoAt(x)' <=> TwoAt(x) BY <1>1 DEF TwoAt
<1>7. ASSUME NEW new, DeclareWinner(t, new)
      PROVE  QuietAt(x)'
  <2> DEFINE c == Call("leave", NoTable)
             q == [queue EXCEPT ![t] = Append(@, c)]
  <2>1. /\ Save(t, q) /\ UNCHANGED <<clearOut, timers>> BY <1>7 DEF DeclareWinner
  <2>2. c \in Calls /\ c.op = "leave" BY DEF Call, Calls
  <2>3. Joined(queue, t, c) BY <2>1 DEF Save, Joined
  <2>4. pc' = [pc EXCEPT ![t] = "save"] BY <2>1 DEF Save
  <2> HIDE DEF c, q
  <2>5. /\ \A op \in Ops : Asked(queue'[x], op) <=>
             Asked(queue[x], op) \/ (x = t /\ c.op = op)
        /\ OverFirst(queue'[x])
    BY <1>2, <1>5, <2>2, <2>3, JoinSays
  <2>6. /\ Asked(queue'[x], "rere") <=> Asked(queue[x], "rere")
        /\ Asked(queue'[x], "post") <=> Asked(queue[x], "post")
        /\ Asked(queue'[x], "over") <=> Asked(queue[x], "over")
    BY <2>2, <2>5 DEF Ops
  <2>7. (Again(x)' <=> Again(x)) /\ (Over(x)' <=> Over(x))
    BY <2>1, <2>6 DEF Again, Over
  <2>8. /\ pc'[x] # "move"
        /\ pc'[x] \in Early => pc[x] \in Early
    BY <1>1, <1>5, <2>4 DEF Early, LocksHeld, MoverIsFirst
  <2> QED BY <1>1, <1>4, <1>6, <2>1, <2>5, <2>6, <2>7, <2>8, StaysQuiet
<1>8. ASSUME NEW busy, Balance(t, busy)
      PROVE  QuietAt(x)'
  <2>1. /\ clearOut \subseteq clearOut'
        /\ Chooses(t, queue)
        /\ \/ Save(t, queue)
           \/ /\ job'.kind \in {"first", "even"} /\ job'.moved = FALSE
              /\ job'.kind = "first" => t \in clearOut'
              /\ job'.to \notin clearOut'
        /\ \/ UNCHANGED timers
           \/ /\ timers' = [timers EXCEPT !.rere = @ \cup {t}]
              /\ t \in clearOut' /\ Count(t) = 1
    <3> DEFINE tooMany == Cardinality(Occupied) > MinTables /\ Count(t) = Least
               clear == IF tooMany THEN clearOut \cup {t} ELSE clearOut
               d == EmptyTable(OneMore, t, clear, queue, busy)
               e == EmptyTable(TargetPlayers, NoTable, clear, queue, busy)
    <3>1. d # NoTable => d \notin clear BY FoundIsWhole
    <3>2. e # NoTable => e \notin clear BY FoundIsWhole
    <3>3. /\ clearOut' = clear
          /\ \/ /\ t \in clear /\ d # NoTable
                /\ Rebalance(t, d, OneMore, "first", queue)
                /\ UNCHANGED timers
             \/ /\ t \in clear
                /\ timers' = IF Count(t) # 1 THEN timers
                             ELSE [timers EXCEPT !.rere = @ \cup {t}]
                /\ Save(t, queue)
             \/ /\ e # NoTable
                /\ Rebalance(t, e, TargetPlayers, "even", queue)
                /\ UNCHANGED timers
             \/ Save(t, queue) /\ UNCHANGED timers
      BY <1>8, Zenon DEF Balance
    <3>4. clearOut \subseteq clear OBVIOUS
    <3> HIDE DEF clear, d, e
    <3>5. Chooses(t, queue) BY <1>8, BalanceChooses
    <3> QED BY <3>1, <3>2, <3>3, <3>4, <3>5, JobTypes
  <2>2. /\ \A op \in Ops \ {"move"} :
             Asked(queue'[x], op) <=> Asked(queue[x], op)
        /\ OverFirst(queue'[x])
    BY <1>2, <1>5, <2>1, ChoosesSays
  <2>3. /\ Asked(queue'[x], "rere") <=> Asked(queue[x], "rere")
        /\ Asked(queue'[x], "post") <=> Asked(queue[x], "post")
        /\ Asked(queue'[x], "over") <=> Asked(queue[x], "over")
    BY <2>2 DEF Ops
  <2>4. /\ Over(x)' <=> Over(x)
        /\ Again(x)' => \/ Again(x)
                        \/ x = t /\ t \in clearOut' /\ ~TwoAt(t)
    <3>1. x \in timers'.rere => \/ x \in timers.rere
                                \/ x = t /\ t \in clearOut' /\ ~TwoAt(t)
      BY <2>1, CountTwo DEF Typed
    <3> QED BY <2>3, <3>1 DEF Over, Again
  <2>5. /\ x # t => pc'[x] = pc[x] /\ pc[x] # "move"
        /\ x = t => pc'[x] \in {"move", "save"}
    BY <1>1, <1>5, <2>1 DEF Chooses, LocksHeld, MoverIsFirst
  <2>6. CASE x # t
    BY <1>1, <1>4, <1>6, <2>1, <2>2, <2>3, <2>4, <2>5, <2>6, StaysQuiet
  <2>7. CASE x = t
    <3>1. hand[t] = {} BY <1>3, <1>4, <2>7 DEF QuietAt
    <3>2. pc'[t] = "move" => job'.kind \in {"first", "even"} /\ job'.moved = FALSE
            /\ (job'.kind = "first" => t \in clearOut')
            /\ job'.to \notin clearOut'
      BY <1>5, <2>1 DEF Save
    <3>3. TwoAt(t) => ~Asked(queue[t], "post")
      BY <1>3, <1>4, <2>7 DEF QuietAt
    <3>4. Again(t)' => t \in clearOut'
      BY <1>4, <2>1, <2>4, <2>7 DEF QuietAt
    <3>5. Again(t)' /\ TwoAt(t) => t \in paused'
      BY <1>1, <1>4, <2>4, <2>7 DEF QuietAt
    <3> QED
      BY <1>1, <1>6, <2>2, <2>3, <2>5, <2>7, <3>1, <3>2, <3>3, <3>4, <3>5
      DEF QuietAt, Early
  <2> QED BY <2>6, <2>7
<1>9. (\E new : DeclareWinner(t, new)) \/ (\E busy : Balance(t, busy))
  BY Zenon DEF HandOver
<1> QED BY <1>7, <1>8, <1>9

\* Typed and Quiet hold in every step.
LEMMA QuietNext ==
    ASSUME Typed, LocksHeld, Quiet, [Next]_vars
    PROVE  Typed' /\ Quiet'
<1>1. ASSUME NEW t \in Tables, PlayHand(t) PROVE Typed' /\ Quiet'
  BY <1>1, TypedHeld, QuietPlayHand
<1>2. ASSUME NEW t \in Tables, HandOver(t) PROVE Typed' /\ Quiet'
  BY <1>2, TypedHandOver, QuietHandOver
<1>3. ASSUME NEW t \in Tables, Held(t) PROVE Typed' /\ Quiet'
  <2>1. Typed' BY <1>3, TypedHeld
  <2>2. Quiet'
    BY <1>3, QuietReport, QuietMove, QuietAfterMove, QuietReported,
       QuietStart, QuietPostTransfer, QuietLeaveTable
    DEF Held, Report
  <2> QED BY <2>1, <2>2
<1>4. ASSUME NEW t \in Tables, Timer(t) PROVE Typed' /\ Quiet'
  BY <1>4, TypedHeld, QuietTimer
<1>5. CASE UNCHANGED vars
  BY <1>5 DEF vars, tableVars, lockVars, Typed, JobOK, Quiet, QuietAt, Again,
              Over, Clearing, TwoAt
<1> QED BY <1>1, <1>2, <1>3, <1>4, <1>5 DEF Next

-----------------------------------------------------------------------------
(***************************************************************************)
(* What the tournament knows of its players.                               *)
(***************************************************************************)
TwoPlayers == \E p, q \in Players : p # q
Record == [order |-> ranking, chips |-> rec]

\* Those who play a hand are there and have chips; those who have lost
\* everything are queued until the tournament knows; a report that runs has
\* somebody left at its table.
TableAt(t) ==
    /\ \A p \in hand[t] : at[p] = t /\ chips[p] > 0
    /\ hand[t] # {} => \E p, q \in hand[t] : p # q
    /\ \A p \in busts[t] :
         /\ pc[t] \in {"bust", "tourn"} /\ Over(t) /\ chips[p] = 0
         /\ at[p] \in {t, NoTable} /\ rec[p] > 0
    /\ \A p \in busts[t] : \A x \in Tables \ {t} : p \notin busts[x]
    /\ pc[t] = "bust" =>
         Over(t) /\ \A p \in Players : at[p] = t /\ chips[p] = 0 => p \in busts[t]
    /\ \A p \in Players : at[p] = t /\ chips[p] = 0 =>
         Over(t) /\ pc[t] \in {"none", "bust"}
    /\ Over(t) /\ pc[t] \in Early => \E p \in Players : at[p] = t /\ chips[p] > 0
    /\ Clearing(t) => TwoPlayers
    /\ Asked(queue[t], "leave") => finished

\* Whoever has a place is gone; whoever is gone and has none is queued.
PlayerAt(p) ==
    /\ rec[p] = 0 /\ ~finished => at[p] = NoTable /\ chips[p] = 0
    /\ at[p] = NoTable /\ rec[p] > 0 => \E t \in Tables : p \in busts[t]

\* The winner is the only one who still sits, at a table whose report is over.
Winner(w) ==
    /\ \A q \in Players \ {w} : at[q] = NoTable /\ chips[q] = 0
    /\ \A t \in Tables : at[w] = t =>
         ~Again(t) /\ (pc[t] \in {"save", "done"} \/ (pc[t] = "none" /\ ~Over(t)))
Finished ==
    finished => /\ \A p \in Players : rec[p] = 0
                /\ \E w \in Players : Winner(w)

\* The books
Books ==
    /\ SumFunctionOnSet(chips, Players) = Total
    /\ Ranked(Record)
    /\ ~finished => \/ \E p, q \in Players : p # q /\ rec[p] > 0 /\ rec[q] > 0
                    \/ ~TwoPlayers
    /\ failed = "no"

Right == /\ \A t \in Tables : TableAt(t)
         /\ \A p \in Players : PlayerAt(p)
         /\ Finished /\ Books

LEMMA RightInit == Init => Right
<1> SUFFICES ASSUME Init PROVE Right OBVIOUS
<1>1. Typed BY TypedInit
<1>2. \A p \in Players : chips[p] = Starting /\ rec[p] = Starting BY DEF Init
<1>3. Starting \in Nat /\ Starting > 0 BY TournamentAssumption
<1>4. \A p \in Players : at[p] \in Tables BY SeatedInit
<1>5. \A p \in Players : at[p] # NoTable
  <2>1. \A p \in Players : at[p] \in Int /\ at[p] >= 1
    BY <1>4 DEF Tables
  <2> QED BY <2>1 DEF NoTable
<1>6. ASSUME NEW t \in Tables PROVE TableAt(t)
  <2>1. /\ queue[t] = <<Call("start", NoTable)>> /\ pc[t] = "none"
        /\ hand[t] = {} /\ timers.rere = {} /\ busts[t] = {}
    BY DEF Init
  <2>2. DOMAIN queue[t] = {1} /\ queue[t][1].op = "start" BY <2>1 DEF Call
  <2>3. ~Over(t) /\ ~Again(t) /\ ~Asked(queue[t], "leave")
    BY <2>1, <2>2 DEF Over, Again, Asked
  <2> QED BY <1>2, <1>3, <2>1, <2>3 DEF TableAt, Clearing
<1>7. \A p \in Players : PlayerAt(p) BY <1>2, <1>3, <1>5 DEF PlayerAt
<1>8. Finished BY DEF Init, Finished
<1>9. Books
  <2>1. SumFunctionOnSet(chips, Players) = Total
    <3>1. \A p \in Players : chips[p] = IF p \in Players THEN Starting ELSE 0
      BY <1>2
    <3>2. IsFiniteSet(Players) /\ Starting \in Int
          /\ Players \in SUBSET Players
      BY TournamentAssumption
    <3> QED BY <3>1, <3>2, SumCount DEF Total
  <2>2. Ranked(Record)
    <3>1. ranking \in Orders(Players) BY FirstOrder
    <3>2. rec \in [Players -> Nat] BY <1>3 DEF Init
    <3>3. Record \in Records BY <3>1, <3>2 DEF Record, Records
    <3>4. \A k \in Places : ranking[k] \in Players
      BY <3>1, OrderFact, TournamentAssumption DEF Places
    <3>5. \A k \in Places : Chips(Record, k) = Starting
      BY <1>2, <3>4 DEF Chips, Record
    <3> QED BY <1>3, <3>3, <3>5 DEF Ranked
  <2>3. TwoPlayers => \E p, q \in Players : p # q /\ rec[p] > 0 /\ rec[q] > 0
    BY <1>2, <1>3 DEF TwoPlayers
  <2>4. failed = "no" BY DEF Init
  <2> QED BY <2>1, <2>2, <2>3, <2>4 DEF Books
<1> QED BY <1>6, <1>7, <1>8, <1>9 DEF Right

-----------------------------------------------------------------------------
\* A report gets on without a change of who is where with what: how what the
\* report of table t does next may change, if at all
Goes(t) ==
    \/ pc'[t] = pc[t]
    \/ /\ pc[t] = "bust" /\ pc'[t] = "tourn"
       /\ \A p \in Players : at[p] = t => chips[p] > 0
    \/ pc[t] = "none" /\ pc'[t] = "tourn" /\ Again(t) /\ ~Over(t)
    \/ pc[t] = "move" /\ pc'[t] \in {"move", "save"}
    \/ pc[t] = "save" /\ pc'[t] = "done"
    \/ pc[t] \in {"save", "done"} /\ pc'[t] = "none" /\ ~Over(t)'

LEMMA RightGoes ==
    ASSUME Typed, Right, NEW t \in Tables, Goes(t),
           UNCHANGED <<at, chips, busts, rec, ranking, finished, failed>>,
           \A x \in Tables :
             /\ Over(x)' => Over(x)
             /\ Over(x) => Over(x)' \/ (x = t /\ pc[t] \in {"save", "done"})
             /\ Again(x)' => Again(x) \/ (x = t /\ pc[t] = "move" /\ Clearing(t))
             /\ Asked(queue'[x], "leave") => Asked(queue[x], "leave")
             /\ x # t => pc'[x] = pc[x]
             /\ \/ hand'[x] = hand[x]
                \/ /\ \A p \in hand'[x] : at[p] = x /\ chips[p] > 0
                   /\ \E p, q \in hand'[x] : p # q
    PROVE  Right'
<1>1. ASSUME NEW x \in Tables PROVE TableAt(x)'
  <2>1. TableAt(x) BY DEF Right
  <2>2. CASE x # t BY <2>1, <2>2 DEF TableAt, Clearing
  <2>3. CASE x = t
    <3>1. \A p \in busts[t] : /\ pc'[t] \in {"bust", "tourn"} /\ Over(t)'
                              /\ chips[p] = 0 /\ at[p] \in {t, NoTable} /\ rec[p] > 0
      BY <2>1, <2>3 DEF TableAt, Goes
    <3>2. pc'[t] = "bust" =>
         Over(t)' /\ \A p \in Players : at[p] = t /\ chips[p] = 0 => p \in busts[t]
      BY <2>1, <2>3 DEF TableAt, Goes
    <3>3. \A p \in Players : at[p] = t /\ chips[p] = 0 =>
         Over(t)' /\ pc'[t] \in {"none", "bust"}
      BY <2>1, <2>3 DEF TableAt, Goes
    <3>4. Over(t)' /\ pc'[t] \in Early => \E p \in Players : at[p] = t /\ chips[p] > 0
      BY <2>1, <2>3 DEF TableAt, Goes, Early
    <3>5. Clearing(t)' => TwoPlayers BY <2>1, <2>3 DEF TableAt, Clearing
    <3> QED BY <2>1, <2>3, <3>1, <3>2, <3>3, <3>4, <3>5
            DEF TableAt, TwoPlayers
  <2> QED BY <2>2, <2>3
<1>2. \A p \in Players : PlayerAt(p)' BY DEF Right, PlayerAt
<1>3. Finished'
  <2> SUFFICES ASSUME finished
               PROVE  /\ \A p \in Players : rec[p] = 0
                      /\ \E w \in Players : Winner(w)'
    BY DEF Finished
  <2>1. /\ \A p \in Players : rec[p] = 0
        /\ \E w \in Players : Winner(w)
    BY DEF Right, Finished
  <2>2. ASSUME NEW w \in Players, Winner(w), NEW x \in Tables, at[w] = x
        PROVE  /\ ~Again(x)'
               /\ pc'[x] \in {"save", "done"} \/ (pc'[x] = "none" /\ ~Over(x)')
    BY <2>2 DEF Winner, Goes
  <2>3. ASSUME NEW w \in Players, Winner(w)
        PROVE  Winner(w)'
    BY <2>2, <2>3 DEF Winner
  <2> QED BY <2>1, <2>3
<1>4. Books' BY DEF Right, Books, Record, Ranked, TwoPlayers
<1> QED BY <1>1, <1>2, <1>3, <1>4 DEF Right

LEMMA RightReport ==
    ASSUME Typed, LocksHeld, Quiet, Right, NEW t \in Tables,
           ReportOver(t) \/ ReportAgain(t) \/ SavedBefore(t)
    PROVE  Right'
<1>1. UNCHANGED <<at, chips, busts, rec, ranking, finished, failed, hand, queue,
                  timers>>
  BY DEF ReportOver, ReportAgain, SavedBefore, tableVars
<1>2. \A x \in Tables : x # t => pc'[x] = pc[x]
  BY DEF ReportOver, ReportAgain, SavedBefore, LocksHeld, QueuesOK
<1>3. \A x \in Tables : (Over(x)' <=> Over(x)) /\ (Again(x)' <=> Again(x))
  BY <1>1 DEF Over, Again
<1>4. Goes(t)
  <2>1. CASE ReportOver(t)
    BY <2>1 DEF ReportOver, Goes, Members, LocksHeld, QueuesOK
  <2>2. CASE ReportAgain(t)
    <3>1. /\ pc[t] = "none" /\ pc'[t] = "tourn" /\ queue[t] # <<>>
          /\ Head(queue[t]).op = "rere"
      BY <2>2 DEF ReportAgain, Has, Free, LocksHeld, QueuesOK
    <3>2. OverFirst(queue[t]) BY DEF Quiet, QuietAt
    <3> QED BY <3>1, <3>2, ReportIsAsked DEF Goes
  <2>3. CASE SavedBefore(t)
    BY <2>3 DEF SavedBefore, Goes, LocksHeld, QueuesOK
  <2> QED BY <2>1, <2>2, <2>3
<1> QED BY <1>1, <1>2, <1>3, <1>4, RightGoes

LEMMA RightAfterMove ==
    ASSUME Typed, LocksHeld, Quiet, Right, NEW t \in Tables, AfterMove(t)
    PROVE  Right'
<1> DEFINE d == job.to
           q == [queue EXCEPT ![d] = Tail(@)]
<1>1. /\ pc[t] = "move" /\ queue[d] # <<>> /\ d \in Tables
      /\ Head(queue[d]).op = "move"
      /\ UNCHANGED <<at, chips, busts, rec, ranking, finished, failed, hand>>
  BY DEF AfterMove, Has, Free, LocksHeld, MoverHasOther, tableVars
<1>2. \A y \in Tables : OverFirst(queue[y]) BY DEF Quiet, QuietAt
<1>3. Clearing(t) BY <1>1, <1>2, ReportIsAsked
<1>4. Taken(q, d) BY DEF Taken
<1>5. PICK busy \in Others :
         /\ timers'.rere = IF DueAgain(t, q, busy) THEN timers.rere \cup {t}
                           ELSE timers.rere
         /\ IF job.kind = "first" THEN AfterFirst(t, q, busy) ELSE Save(t, q)
  BY DEF AfterMove
<1> HIDE DEF q, d
<1>6. Chooses(t, q)
  <2>1. CASE AfterFirst(t, q, busy)
    <3> DEFINE e == EmptyTable(job.target, t, clearOut, q, busy)
    <3>1. e # NoTable => e \in Tables /\ q[e] = <<>> BY FoundIsFree
    <3>2. Save(t, q) \/ (e # NoTable /\ Rebalance(t, e, job.target, "second", q))
      BY <2>1, Zenon DEF AfterFirst
    <3> HIDE DEF e
    <3> QED BY <3>1, <3>2, SaveChooses, RebalanceChooses
  <2> QED BY <1>5, <2>1, SaveChooses
<1>7. ASSUME NEW x \in Tables
      PROVE  /\ Over(x)' <=> Over(x)
             /\ Again(x)' => Again(x) \/ x = t
             /\ Asked(queue'[x], "leave") => Asked(queue[x], "leave")
             /\ x # t => pc'[x] = pc[x]
             /\ x = t => pc'[x] \in {"move", "save"}
  <2>1. /\ q \in [Tables -> Seq(Calls)] /\ OverFirst(q[x])
        /\ \A op \in Ops : Asked(q[x], op) => Asked(queue[x], op)
        /\ \A op \in Ops : Asked(queue[x], op)
             => Asked(q[x], op) \/ (x = d /\ Head(queue[d]).op = op)
    BY <1>1, <1>2, <1>4, TailSays
  <2>2. \A op \in Ops \ {"move"} : Asked(queue'[x], op) <=> Asked(q[x], op)
    BY <1>6, <2>1, ChoosesSays
  <2>3. /\ Asked(queue'[x], "over") <=> Asked(queue[x], "over")
        /\ Asked(queue'[x], "rere") => Asked(queue[x], "rere")
        /\ Asked(queue'[x], "leave") => Asked(queue[x], "leave")
    BY <1>1, <2>1, <2>2 DEF Ops
  <2>4. pc' = [pc EXCEPT ![t] = "move"] \/ pc' = [pc EXCEPT ![t] = "save"]
    BY <1>6 DEF Chooses
  <2> QED BY <1>5, <2>3, <2>4 DEF Over, Again, LocksHeld, QueuesOK
<1>8. Goes(t) BY <1>1, <1>7 DEF Goes
<1> QED BY <1>1, <1>3, <1>7, <1>8, RightGoes

\* A call that is over: the table may deal a hand.
LEMMA RightRelease ==
    ASSUME Typed, LocksHeld, Quiet, Right, NEW t \in Tables, queue[t] # <<>>,
           Release(t), pc' = [pc EXCEPT ![t] = "none"],
           \/ pc[t] \in {"save", "done"}
           \/ pc[t] = "none" /\ Head(queue[t]).op # "over",
           UNCHANGED <<at, chips, busts, rec, ranking, finished, failed, timers>>,
           UNCHANGED hand \/ StateMachine(t, paused)
    PROVE  Right'
<1>1. \A y \in Tables : OverFirst(queue[y]) BY DEF Quiet, QuietAt
<1>2. /\ \A x \in Tables, op \in Ops :
           Asked(queue'[x], op) => Asked(queue[x], op)
      /\ \A x \in Tables, op \in Ops :
           Asked(queue[x], op)
             => Asked(queue'[x], op) \/ (x = t /\ Head(queue[t]).op = op)
      /\ ~Asked(queue'[t], "over")
  BY <1>1, ReleaseSays
<1>3. ASSUME NEW x \in Tables
      PROVE  /\ Over(x)' => Over(x)
             /\ Over(x) => Over(x)' \/ (x = t /\ pc[t] \in {"save", "done"})
             /\ Again(x)' => Again(x)
             /\ Asked(queue'[x], "leave") => Asked(queue[x], "leave")
             /\ x # t => pc'[x] = pc[x]
             /\ \/ hand'[x] = hand[x]
                \/ /\ \A p \in hand'[x] : at[p] = x /\ chips[p] > 0
                   /\ \E p, q \in hand'[x] : p # q
  <2>1. /\ Asked(queue'[x], "over") => Asked(queue[x], "over")
        /\ Asked(queue'[x], "rere") => Asked(queue[x], "rere")
        /\ Asked(queue'[x], "leave") => Asked(queue[x], "leave")
        /\ Asked(queue[x], "over") => Asked(queue'[x], "over")
             \/ (x = t /\ Head(queue[t]).op = "over")
    BY <1>2 DEF Ops
  <2>2. x # t => pc'[x] = pc[x] BY DEF LocksHeld, QueuesOK
  <2>3. \/ hand'[x] = hand[x]
        \/ /\ \A p \in hand'[x] : at[p] = x /\ chips[p] > 0
           /\ \E p, q \in hand'[x] : p # q
    BY StateMachineTypes
  <2> QED BY <2>1, <2>2, <2>3 DEF Over, Again
<1>4. pc'[t] = "none" /\ ~Over(t)' BY <1>2 DEF Over, LocksHeld, QueuesOK
<1>5. Goes(t) BY <1>4 DEF Goes
<1> QED BY <1>3, <1>5, RightGoes

LEMMA RightReported ==
    ASSUME Typed, LocksHeld, Quiet, Right, NEW t \in Tables,
           Saved(t) \/ ReportedAfter(t)
    PROVE  Right'
<1>1. Reported(t) /\ pc[t] \in {"save", "done"} BY DEF Saved, ReportedAfter
<1>2. queue[t] # <<>> BY <1>1 DEF LocksHeld, ReportHasTable
<1>3. UNCHANGED hand \/ StateMachine(t, paused) BY <1>1 DEF Reported
<1> QED BY <1>1, <1>2, <1>3, RightRelease DEF Reported

LEMMA RightStart ==
    ASSUME Typed, LocksHeld, Quiet, Right, NEW t \in Tables, Start(t)
    PROVE  Right'
<1>1. queue[t] # <<>> /\ Head(queue[t]).op = "start" BY DEF Start, Has, Free
<1>2. pc[t] = "none" /\ pc' = [pc EXCEPT ![t] = "none"]
  BY <1>1, NoReport DEF Start
<1> QED BY <1>1, <1>2, RightRelease DEF Start

LEMMA RightTimer ==
    ASSUME Typed, LocksHeld, Quiet, Right, NEW t \in Tables, Timer(t)
    PROVE  Right'
<1>1. \A y \in Tables : OverFirst(queue[y]) BY DEF Quiet, QuietAt
<1>2. PICK c \in Calls : /\ Ask(t, c) /\ c.op \in {"rere", "post"}
                         /\ c.op = "rere" => t \in timers.rere
  <2>1. Call("rere", NoTable) \in Calls /\ Call("rere", NoTable).op = "rere"
    BY DEF Call, Calls
  <2>2. \A d \in Tables : Call("post", d) \in Calls /\ Call("post", d).op = "post"
    BY DEF Call, Calls
  <2> QED BY <2>1, <2>2 DEF Timer, RereTimer, PostTimer
<1>3. /\ UNCHANGED <<at, chips, busts, rec, ranking, finished, failed, hand, pc>>
      /\ timers'.rere \subseteq timers.rere
  BY DEF Timer, RereTimer, PostTimer, tableVars, Typed
<1>4. \A x \in Tables, op \in Ops :
         Asked(queue'[x], op) <=> Asked(queue[x], op) \/ (x = t /\ c.op = op)
  BY <1>1, <1>2, AskSays
<1>5. ASSUME NEW x \in Tables
      PROVE  /\ Over(x)' <=> Over(x)
             /\ Again(x)' => Again(x)
             /\ Asked(queue'[x], "leave") => Asked(queue[x], "leave")
  <2>1. /\ Asked(queue'[x], "over") <=> Asked(queue[x], "over")
        /\ Asked(queue'[x], "leave") <=> Asked(queue[x], "leave")
        /\ Asked(queue'[x], "rere") <=>
             Asked(queue[x], "rere") \/ (x = t /\ c.op = "rere")
    BY <1>2, <1>4 DEF Ops
  <2> QED BY <1>2, <1>3, <2>1 DEF Over, Again
<1>6. Goes(t) BY <1>3 DEF Goes
<1> QED BY <1>3, <1>5, <1>6, RightGoes

LEMMA RightPostTransfer ==
    ASSUME Typed, LocksHeld, Quiet, Right, NEW t \in Tables, PostTransfer(t)
    PROVE  Right'
<1> DEFINE d == Head(queue[t]).x
           q == [queue EXCEPT ![t] = Tail(@)]
           c == Call("start", NoTable)
<1>1. queue[t] # <<>> /\ Head(queue[t]).op = "post"
  BY DEF PostTransfer, Has, Free
<1>2. \A y \in Tables : OverFirst(queue[y]) BY DEF Quiet, QuietAt
<1>3. d \in Tables
  <2>1. Head(queue[t]) \in Calls BY <1>1, TailFact DEF LocksHeld, QueuesOK
  <2> QED BY <1>1, <2>1 DEF Calls
<1>4. Taken(q, t) BY DEF Taken
<1>5. Joined(q, d, c) BY DEF Joined, PostTransfer
<1>6. c \in Calls /\ c.op = "start" BY DEF Call, Calls
<1>7. /\ UNCHANGED <<at, chips, busts, rec, ranking, finished, failed, pc, timers>>
      /\ StateMachine(t, paused')
  BY DEF PostTransfer
<1> HIDE DEF d, q, c
<1>8. ASSUME NEW x \in Tables
      PROVE  /\ Over(x)' <=> Over(x)
             /\ Again(x)' => Again(x)
             /\ Asked(queue'[x], "leave") => Asked(queue[x], "leave")
             /\ \/ hand'[x] = hand[x]
                \/ /\ \A p \in hand'[x] : at[p] = x /\ chips[p] > 0
                   /\ \E p, r \in hand'[x] : p # r
  <2>1. /\ q \in [Tables -> Seq(Calls)] /\ OverFirst(q[x])
        /\ \A op \in Ops : Asked(q[x], op) => Asked(queue[x], op)
        /\ \A op \in Ops : Asked(queue[x], op)
             => Asked(q[x], op) \/ (x = t /\ Head(queue[t]).op = op)
    BY <1>1, <1>2, <1>4, TailSays
  <2>2. \A op \in Ops : Asked(queue'[x], op) <=>
           Asked(q[x], op) \/ (x = d /\ c.op = op)
    <3>1. c.op # "over" BY <1>6
    <3>2. q \in [Tables -> Seq(Calls)] /\ OverFirst(q[x]) BY <2>1
    <3> QED BY <1>3, <1>5, <1>6, <3>1, <3>2, JoinSays
  <2>3. /\ Asked(queue'[x], "over") <=> Asked(queue[x], "over")
        /\ Asked(queue'[x], "rere") => Asked(queue[x], "rere")
        /\ Asked(queue'[x], "leave") => Asked(queue[x], "leave")
    BY <1>1, <1>6, <2>1, <2>2 DEF Ops
  <2>4. \/ hand'[x] = hand[x]
        \/ /\ \A p \in hand'[x] : at[p] = x /\ chips[p] > 0
           /\ \E p, r \in hand'[x] : p # r
    BY <1>7, StateMachineTypes
  <2> QED BY <1>7, <2>3, <2>4 DEF Over, Again
<1>9. Goes(t) BY <1>7 DEF Goes
<1> QED BY <1>7, <1>8, <1>9, RightGoes

\* The winner's table reports no more.
LEMMA WinnerRests ==
    ASSUME Typed, Right, finished, NEW t \in Tables, NEW p \in Players, at[p] = t
    PROVE  ~Again(t) /\ (pc[t] \in {"save", "done"} \/ (pc[t] = "none" /\ ~Over(t)))
<1>1. PICK w \in Players : Winner(w) BY DEF Right, Finished
<1>2. p = w BY <1>1, TablesFact DEF Winner
<1> QED BY <1>1, <1>2 DEF Winner

\* The books say the same when nothing on them changes.
LEMMA BooksStay ==
    ASSUME Books, UNCHANGED <<chips, rec, ranking, finished, failed>>
    PROVE  Books'
BY DEF Books, Record, Ranked, TwoPlayers

LEMMA RightBeginOver ==
    ASSUME Typed, LocksHeld, Quiet, Right, NEW t \in Tables, BeginOver(t)
    PROVE  Right'
<1>1. /\ queue[t] # <<>> /\ Head(queue[t]).op = "over" /\ pc[t] = "none"
      /\ pc' = [pc EXCEPT ![t] = "bust"]
      /\ busts' = [busts EXCEPT ![t] = @ \cup {p \in Members(t) : chips[p] = 0}]
      /\ UNCHANGED <<at, hand, chips, rec, ranking, finished, failed, queue,
                     timers>>
  BY DEF BeginOver, Has, Free, tableVars
<1>2. Over(t)
  <2>1. OverFirst(queue[t]) BY DEF Quiet, QuietAt
  <2> QED BY <1>1, <2>1, ReportIsAsked
<1>3. \A x \in Tables : (Over(x)' <=> Over(x)) /\ (Again(x)' <=> Again(x))
  BY <1>1 DEF Over, Again
<1>4. \A p \in Players : at[p] = t => ~finished
  BY <1>1, <1>2, WinnerRests
<1>5. /\ busts[t] = {}
      /\ busts'[t] = {p \in Players : at[p] = t /\ chips[p] = 0}
      /\ \A x \in Tables \ {t} : busts'[x] = busts[x]
  <2>1. busts[t] = {} BY <1>1 DEF Right, TableAt
  <2> QED BY <1>1, <2>1 DEF Typed, Members
<1>6. pc'[t] = "bust" /\ \A x \in Tables \ {t} : pc'[x] = pc[x]
  BY <1>1 DEF LocksHeld, QueuesOK
<1>7. ASSUME NEW x \in Tables PROVE TableAt(x)'
  <2>1. TableAt(x) BY DEF Right
  <2>2. CASE x # t
    <3>1. \A p \in busts[x] : p \notin busts'[t]
      <4>1. \A p \in busts[x] : at[p] # t
        BY <2>1, <2>2, TablesFact DEF TableAt
      <4> QED BY <4>1, <1>5
    <3>2. \A p \in busts'[x] : \A y \in Tables \ {x} : p \notin busts'[y]
      BY <1>5, <2>1, <2>2, <3>1 DEF TableAt
    <3> QED
      BY <1>1, <1>3, <1>5, <1>6, <2>1, <2>2, <3>2
      DEF TableAt, Clearing, TwoPlayers
  <2>3. CASE x = t
    <3>1. \A p \in busts'[t] : rec[p] > 0
      <4>1. \A p \in busts'[t] : p \in Players /\ at[p] = t /\ ~finished
        BY <1>4, <1>5
      <4>2. \A p \in Players : at[p] = t /\ ~finished => rec[p] # 0
        BY TablesFact DEF Right, PlayerAt
      <4>3. \A p \in Players : rec[p] \in Nat
        BY DEF Right, Books, Ranked, Record, Records
      <4> QED BY <4>1, <4>2, <4>3
    <3>2. \A p \in busts'[t] : \A y \in Tables \ {t} : p \notin busts'[y]
      <4>1. \A y \in Tables \ {t} : \A p \in busts[y] : at[p] # t
        BY TablesFact DEF Right, TableAt
      <4> QED BY <1>5, <4>1
    <3> QED
      BY <1>1, <1>2, <1>3, <1>5, <1>6, <2>1, <2>3, <3>1, <3>2
      DEF TableAt, Clearing, TwoPlayers, Early
  <2> QED BY <2>2, <2>3
<1>8. \A p \in Players : PlayerAt(p)' BY <1>1, <1>5 DEF Right, PlayerAt
<1>9. Finished'
  <2>1. ASSUME NEW w \in Players, Winner(w), finished PROVE Winner(w)'
    <3>1. at[w] # t BY <1>4, <2>1
    <3> QED BY <1>1, <1>3, <1>6, <2>1, <3>1 DEF Winner
  <2> QED BY <1>1, <2>1 DEF Right, Finished
<1>10. Books' BY <1>1, BooksStay DEF Right
<1> QED BY <1>7, <1>8, <1>9, <1>10 DEF Right

LEMMA RightStandUp ==
    ASSUME Typed, LocksHeld, Quiet, Right, NEW t \in Tables, NEW p \in Players,
           StandUpBust(t, p)
    PROVE  Right'
<1>1. /\ pc[t] = "bust" /\ at[p] = t /\ chips[p] = 0
      /\ at' = [at EXCEPT ![p] = NoTable]
      /\ UNCHANGED <<busts, hand, chips, rec, ranking, finished, failed, queue,
                     pc, timers>>
  BY DEF StandUpBust, Members, lockVars
<1>2. p \in busts[t] BY <1>1 DEF Right, TableAt
<1>3. \A q \in Players : at'[q] = IF q = p THEN NoTable ELSE at[q]
  BY <1>1 DEF Typed
<1>4. \A x \in Tables : (Over(x)' <=> Over(x)) /\ (Again(x)' <=> Again(x))
  BY <1>1 DEF Over, Again
<1>5. ASSUME NEW x \in Tables PROVE TableAt(x)'
  <2>1. TableAt(x) BY DEF Right
  <2>2. \A q \in hand[x] : q \in Players BY DEF Typed
  <2>3. \A q \in hand[x] : at'[q] = x /\ chips[q] > 0
    BY <1>1, <1>3, <2>1, <2>2 DEF TableAt
  <2>4. \A q \in busts[x] : at'[q] \in {x, NoTable}
    BY <1>3, <2>1 DEF TableAt, Typed
  <2>5. \A q \in Players : at'[q] = x => at[q] = x
    BY <1>3, TablesFact
  <2>6. \A q \in Players : at[q] = x /\ chips[q] > 0 => at'[q] = x
    BY <1>1, <1>3
  <2> QED
    BY <1>1, <1>4, <2>1, <2>3, <2>4, <2>5, <2>6
    DEF TableAt, Clearing, TwoPlayers
<1>6. \A q \in Players : PlayerAt(q)' BY <1>1, <1>2, <1>3 DEF Right, PlayerAt
<1>7. Finished'
  <2>1. ASSUME NEW w \in Players, Winner(w), finished PROVE Winner(w)'
    BY <1>1, <1>3, <1>4, <2>1, TablesFact DEF Winner
  <2> QED BY <1>1, <2>1 DEF Right, Finished
<1>8. Books' BY <1>1, BooksStay DEF Right
<1> QED BY <1>5, <1>6, <1>7, <1>8 DEF Right

LEMMA RightMove ==
    ASSUME Typed, LocksHeld, Quiet, Right, NEW t \in Tables, Move(t)
    PROVE  Right'
<1>1. PICK p \in Players :
        /\ pc[t] = "move" /\ at[p] = t /\ at' = [at EXCEPT ![p] = job.to]
        /\ UNCHANGED <<busts, hand, chips, rec, ranking, finished, failed,
                       queue, pc, timers>>
  BY DEF Move, Members, lockVars
<1>2. job.to \in Tables BY <1>1 DEF LocksHeld, MoverHasOther
<1>3. \A q \in Players : at'[q] = IF q = p THEN job.to ELSE at[q]
  BY <1>1 DEF Typed
<1>4. \A x \in Tables : (Over(x)' <=> Over(x)) /\ (Again(x)' <=> Again(x))
  BY <1>1 DEF Over, Again
<1>5. chips[p] > 0
  <2>1. chips[p] # 0 BY <1>1 DEF Right, TableAt
  <2> QED BY <2>1 DEF Typed
<1>6. ~finished BY <1>1, WinnerRests
<1>7. hand[t] = {}
  <2>1. QuietAt(t) BY DEF Quiet
  <2>2. Clearing(t) BY <1>1, <2>1, ReportIsAsked DEF QuietAt
  <2> QED BY <2>1, <2>2 DEF QuietAt
<1>8. ASSUME NEW x \in Tables PROVE TableAt(x)'
  <2>1. TableAt(x) BY DEF Right
  <2>2. \A q \in hand[x] : q \in Players BY DEF Typed
  <2>3. \A q \in hand[x] : at'[q] = x /\ chips[q] > 0
    BY <1>1, <1>3, <1>7, <2>1, <2>2 DEF TableAt
  <2>4. \A q \in busts[x] : q # p /\ at'[q] = at[q]
    BY <1>3, <1>5, <2>1 DEF TableAt, Typed
  <2>5. \A q \in Players : at'[q] = x /\ chips[q] = 0 => at[q] = x
    BY <1>3, <1>5
  <2>6. Over(x) /\ pc[x] \in Early =>
           \E q \in Players : at'[q] = x /\ chips[q] > 0
    <3>1. pc[x] \in Early => x # t BY <1>1 DEF Early
    <3> QED BY <1>1, <1>3, <2>1, <3>1 DEF TableAt
  <2> QED
    BY <1>1, <1>4, <2>1, <2>3, <2>4, <2>5, <2>6
    DEF TableAt, Clearing, TwoPlayers
<1>9. \A q \in Players : PlayerAt(q)'
  BY <1>1, <1>2, <1>3, <1>6, TablesFact DEF Right, PlayerAt
<1>10. Finished' BY <1>1, <1>6 DEF Finished
<1>11. Books' BY <1>1, BooksStay DEF Right
<1> QED BY <1>8, <1>9, <1>10, <1>11 DEF Right

\* The winner leaves.
LEMMA RightLeaveTable ==
    ASSUME Typed, LocksHeld, Quiet, Right, NEW t \in Tables, LeaveTable(t)
    PROVE  Right'
<1>1. /\ queue[t] # <<>> /\ Head(queue[t]).op = "leave" /\ Release(t)
      /\ \A p \in Players : at'[p] = IF at[p] = t THEN NoTable ELSE at[p]
      /\ UNCHANGED <<busts, hand, chips, rec, ranking, finished, failed, pc,
                     timers>>
  BY DEF LeaveTable, Has, Free, Members
<1>2. \A y \in Tables : OverFirst(queue[y]) BY DEF Quiet, QuietAt
<1>3. finished /\ \A p \in Players : rec[p] = 0
  <2>1. Asked(queue[t], "leave") BY <1>1, <1>2, ReportIsAsked
  <2> QED BY <2>1 DEF Right, TableAt, Finished
<1>4. ASSUME NEW x \in Tables
      PROVE  (Over(x)' <=> Over(x)) /\ (Again(x)' => Again(x))
  <2>1. /\ \A y \in Tables, op \in Ops :
             Asked(queue'[y], op) => Asked(queue[y], op)
        /\ \A y \in Tables, op \in Ops :
             Asked(queue[y], op)
               => Asked(queue'[y], op) \/ (y = t /\ Head(queue[t]).op = op)
    BY <1>1, <1>2, ReleaseSays
  <2>2. /\ Asked(queue'[x], "over") <=> Asked(queue[x], "over")
        /\ Asked(queue'[x], "rere") => Asked(queue[x], "rere")
    BY <1>1, <2>1 DEF Ops
  <2> QED BY <1>1, <2>2 DEF Over, Again
<1>5. PICK w \in Players : Winner(w) BY <1>3 DEF Right, Finished
<1>6. ASSUME NEW x \in Tables PROVE TableAt(x)'
  <2>1. TableAt(x) BY DEF Right
  <2>2. hand[x] = {}
    <3>1. \A p \in hand[x] : p \in Players /\ at[p] = x BY <2>1 DEF Typed, TableAt
    <3>2. \A p \in hand[x] : p = w
      BY <1>5, <3>1, TablesFact DEF Winner
    <3> QED BY <2>1, <3>2 DEF TableAt
  <2>3. busts[x] = {}
    <3>1. \A p \in busts[x] : p \in Players /\ rec[p] > 0 BY <2>1 DEF Typed, TableAt
    <3> QED BY <1>3, <3>1
  <2>4. ~(Over(x) /\ pc[x] \in Early) /\ pc[x] # "bust"
    <3>1. ASSUME Over(x), pc[x] \in Early PROVE FALSE
      <4>1. \E p \in Players : at[p] = x BY <2>1, <3>1 DEF TableAt
      <4> QED BY <1>3, <3>1, <4>1, WinnerRests DEF Early
    <3>2. pc[x] = "bust" => Over(x) BY <2>1 DEF TableAt
    <3> QED BY <3>1, <3>2 DEF Early
  <2>5. \A p \in Players : at'[p] = x => at[p] = x BY <1>1, TablesFact
  <2> QED
    BY <1>1, <1>3, <1>4, <2>1, <2>2, <2>3, <2>4, <2>5
    DEF TableAt, Clearing, TwoPlayers
<1>7. \A p \in Players : PlayerAt(p)' BY <1>1, <1>3 DEF PlayerAt
<1>8. Finished'
  <2>1. Winner(w)' BY <1>1, <1>4, <1>5, TablesFact DEF Winner
  <2> QED BY <1>1, <1>3, <2>1 DEF Finished
<1>9. Books' BY <1>1, BooksStay DEF Right
<1> QED BY <1>6, <1>7, <1>8, <1>9 DEF Right

\* The chips of some players and those of the others are all.
LEMMA SumParts ==
    ASSUME NEW c, NEW H \in SUBSET Players, \A p \in Players : c[p] \in Int
    PROVE  SumFunctionOnSet(c, Players) =
             SumFunctionOnSet(c, H) + SumFunctionOnSet(c, Players \ H)
<1> DEFINE f == [p \in Players |-> IF p \in H THEN c[p] ELSE 0]
           g == [p \in Players |-> IF p \in H THEN 0 ELSE c[p]]
           R == Players \ H
<1>1. /\ \A p \in Players : f[p] \in Int /\ g[p] \in Int /\ c[p] = f[p] + g[p]
      /\ \A p \in Players \ H : f[p] = 0 /\ g[p] = c[p]
      /\ \A p \in H : f[p] = c[p] /\ g[p] = 0
  OBVIOUS
<1>2. IsFiniteSet(Players) /\ IsFiniteSet(H) /\ IsFiniteSet(R)
  BY PlayersFinite
<1>3. R \in SUBSET Players /\ \A p \in Players \ R : p \in H OBVIOUS
<1> HIDE DEF f, g
<1>4. SumFunctionOnSet(c, Players)
        = SumFunctionOnSet(f, Players) + SumFunctionOnSet(g, Players)
  BY <1>1, <1>2, SumAdd
<1>5. SumFunctionOnSet(f, Players) = SumFunctionOnSet(c, H)
  <2>1. SumFunctionOnSet(f, Players) = SumFunctionOnSet(f, H)
    BY <1>1, <1>2, SumPart
  <2>2. SumFunctionOnSet(f, H) = SumFunctionOnSet(c, H)
    BY <1>1, <1>2, SumSame
  <2> QED BY <2>1, <2>2
<1>6. SumFunctionOnSet(g, Players) = SumFunctionOnSet(c, R)
  <2>1. \A p \in Players \ R : g[p] = 0 BY <1>1, <1>3
  <2>2. SumFunctionOnSet(g, Players) = SumFunctionOnSet(g, R)
    BY <1>1, <1>2, <1>3, <2>1, SumPart
  <2>3. \A p \in R : g[p] = c[p] BY <1>1
  <2>4. SumFunctionOnSet(g, R) = SumFunctionOnSet(c, R)
    BY <1>2, <2>3, SumSame
  <2> QED BY <2>2, <2>4
<1> QED BY <1>4, <1>5, <1>6

\* Chips that are somewhere make the sum more than nothing.
LEMMA SumSome ==
    ASSUME NEW c, NEW H \in SUBSET Players, \A p \in H : c[p] \in Nat,
           NEW a \in H
    PROVE  SumFunctionOnSet(c, H) >= c[a]
<1> DEFINE f == [p \in H |-> IF p = a THEN c[p] ELSE 0]
           T == {a}
<1>1. IsFiniteSet(H) /\ IsFiniteSet(H \ {a}) BY PlayersFinite
<1>2. SumFunctionOnSet(c, H) = c[a] + SumFunctionOnSet(c, H \ {a})
  BY <1>1, SumRemove
<1>3. SumFunctionOnSet(c, H \ {a}) \in Int /\ SumFunctionOnSet(c, H \ {a}) >= 0
  <2> DEFINE z == [p \in H |-> 0]
  <2>1. \A p \in H \ {a} : z[p] \in Int /\ c[p] \in Int /\ z[p] <= c[p] /\ z[p] = 0
    OBVIOUS
  <2> HIDE DEF z
  <2>2. SumFunctionOnSet(z, H \ {a}) = 0 BY <1>1, <2>1, SumZero
  <2>3. SumFunctionOnSet(z, H \ {a}) <= SumFunctionOnSet(c, H \ {a})
    BY <1>1, <2>1, SumAtMost
  <2>4. SumFunctionOnSet(c, H \ {a}) \in Int BY <1>1, <2>1, SumType
  <2> QED BY <2>2, <2>3, <2>4
<1> QED BY <1>2, <1>3

\* A hand moves chips between those who play it, and leaves one of them some.
LEMMA HandKeepsChips ==
    ASSUME Typed, NEW t \in Tables, PlayHand(t), hand[t] # {},
           \A p \in hand[t] : chips[p] > 0
    PROVE  /\ SumFunctionOnSet(chips', Players) = SumFunctionOnSet(chips, Players)
           /\ chips' \in [Players -> Nat]
           /\ \A p \in Players \ hand[t] : chips'[p] = chips[p]
           /\ \E p \in hand[t] : chips'[p] > 0
<1> DEFINE H == hand[t]
<1>1. H \in SUBSET Players BY DEF Typed
<1>2. PICK e \in [H -> Nat] :
        /\ SumFunction(e) = SumFunction([p \in H |-> chips[p]])
        /\ chips' = [p \in Players |-> IF p \in H THEN e[p] ELSE chips[p]]
  BY PlayHandTypes
<1>3. chips' \in [Players -> Nat] /\ chips \in [Players -> Nat]
  BY PlayHandTypes DEF Typed
<1>4. /\ \A p \in Players \ H : chips'[p] = chips[p]
      /\ \A p \in H : chips'[p] = e[p]
      /\ \A p \in H : chips[p] > 0
      /\ H # {}
  BY <1>1, <1>2
<1> HIDE DEF H
<1>5. IsFiniteSet(H) /\ IsFiniteSet(Players \ H) BY <1>1, PlayersFinite
<1>6. SumFunctionOnSet(chips', H) = SumFunctionOnSet(chips, H)
  <2>1. SumFunction(e) = SumFunctionOnSet(e, H)
    <3>1. DOMAIN e = H OBVIOUS
    <3> QED BY <3>1 DEF SumFunction
  <2>2. SumFunctionOnSet(e, H) = SumFunctionOnSet(chips', H)
    BY <1>4, <1>5, SumSame
  <2>3. SumFunction([p \in H |-> chips[p]]) = SumFunctionOnSet(chips, H)
    BY <1>1, <1>3, SumOfSome
  <2> QED BY <1>2, <2>1, <2>2, <2>3
<1>7. SumFunctionOnSet(chips', Players \ H) = SumFunctionOnSet(chips, Players \ H)
  BY <1>4, <1>5, SumSame
<1>8. /\ \A p \in Players : chips[p] \in Int
      /\ \A p \in Players : chips'[p] \in Int
  BY <1>3
<1>9. SumFunctionOnSet(chips', Players) = SumFunctionOnSet(chips, Players)
  <2>1. SumFunctionOnSet(chips, Players) =
             SumFunctionOnSet(chips, H) + SumFunctionOnSet(chips, Players \ H)
    BY <1>1, <1>8, SumParts
  <2>2. SumFunctionOnSet(chips', Players) =
             SumFunctionOnSet(chips', H) + SumFunctionOnSet(chips', Players \ H)
    BY <1>1, <1>8, SumParts
  <2> QED BY <1>6, <1>7, <2>1, <2>2
<1>10. \E p \in H : chips'[p] > 0
  <2> SUFFICES ASSUME \A p \in H : ~(chips'[p] > 0) PROVE FALSE OBVIOUS
  <2>1. \A p \in H : chips'[p] = 0 BY <1>1, <1>3
  <2>2. SumFunctionOnSet(chips', H) = 0 BY <1>5, <2>1, SumZero
  <2>3. PICK a \in H : TRUE BY <1>4
  <2>4. \A p \in H : chips[p] \in Nat BY <1>1, <1>3
  <2>5. SumFunctionOnSet(chips, H) >= chips[a] BY <1>1, <2>4, SumSome
  <2>6. chips[a] > 0 /\ chips[a] \in Nat BY <1>4, <2>4
  <2>7. SumFunctionOnSet(chips, H) = 0 BY <1>6, <2>2
  <2> QED BY <2>5, <2>6, <2>7
<1> QED BY <1>3, <1>4, <1>9, <1>10 DEF H

LEMMA RightPlayHand ==
    ASSUME Typed, LocksHeld, Quiet, Right, NEW t \in Tables, PlayHand(t)
    PROVE  Right'
<1>1. /\ queue[t] = <<>> /\ hand[t] # {} /\ hand' = [hand EXCEPT ![t] = {}]
      /\ Ask(t, Call("over", NoTable))
      /\ UNCHANGED <<at, busts, rec, ranking, finished, failed, pc, timers>>
  BY DEF PlayHand, HandEnds, Free
<1>2. \A y \in Tables : OverFirst(queue[y]) BY DEF Quiet, QuietAt
<1>3. pc[t] = "none" BY <1>1 DEF LocksHeld, ReportHasTable
<1>4. \A x \in Tables :
        /\ Over(x)' <=> (Over(x) \/ x = t)
        /\ Again(x)' <=> Again(x)
        /\ Asked(queue'[x], "leave") <=> Asked(queue[x], "leave")
  <2>1. Call("over", NoTable) \in Calls /\ Call("over", NoTable).op = "over"
    BY DEF Call, Calls
  <2>2. \A x \in Tables, op \in Ops :
          Asked(queue'[x], op) <=> Asked(queue[x], op) \/ (x = t /\ op = "over")
    BY <1>1, <1>2, <2>1, AskSays
  <2>3. \A x \in Tables :
          /\ Asked(queue'[x], "over") <=> (Asked(queue[x], "over") \/ x = t)
          /\ Asked(queue'[x], "rere") <=> Asked(queue[x], "rere")
          /\ Asked(queue'[x], "leave") <=> Asked(queue[x], "leave")
    BY <2>2 DEF Ops
  <2> QED BY <1>1, <2>3 DEF Over, Again
<1>5. /\ \A p \in hand[t] : p \in Players /\ at[p] = t /\ chips[p] > 0
      /\ \E p, q \in hand[t] : p # q
  BY <1>1 DEF Right, TableAt, Typed
<1>6. /\ SumFunctionOnSet(chips', Players) = SumFunctionOnSet(chips, Players)
      /\ chips' \in [Players -> Nat]
      /\ \A p \in Players \ hand[t] : chips'[p] = chips[p]
      /\ \E p \in hand[t] : chips'[p] > 0
  BY <1>1, <1>5, HandKeepsChips
<1>7. ~finished
  <2>1. ASSUME finished PROVE FALSE
    <3>1. PICK w \in Players : Winner(w) BY <2>1 DEF Right, Finished
    <3>2. \A p \in hand[t] : p = w BY <1>5, <3>1, TablesFact DEF Winner
    <3> QED BY <1>5, <3>2
  <2> QED BY <2>1
<1>8. \A x \in Tables : hand'[x] = IF x = t THEN {} ELSE hand[x]
  BY <1>1 DEF Typed
<1>9. \A p \in Players : at[p] # t => chips'[p] = chips[p] /\ p \notin hand[t]
  BY <1>5, <1>6
<1>10. busts[t] = {} BY <1>3 DEF Right, TableAt
<1>11. ASSUME NEW x \in Tables PROVE TableAt(x)'
  <2>1. TableAt(x) BY DEF Right
  <2>2. \A p \in busts[x] : p \in Players /\ at[p] # t /\ chips'[p] = chips[p]
    <3>1. \A p \in busts[x] : p \in Players BY DEF Typed
    <3>2. \A p \in busts[x] : x # t /\ at[p] \in {x, NoTable}
      BY <1>10, <2>1 DEF TableAt
    <3> QED BY <1>9, <3>1, <3>2, TablesFact
  <2>3. CASE x = t
    <3>1. \E p \in Players : at[p] = t /\ chips'[p] > 0 BY <1>5, <1>6
    <3>2. TwoPlayers BY <1>5 DEF TwoPlayers
    <3> QED BY <1>1, <1>3, <1>4, <1>8, <1>10, <2>1, <2>3, <3>1, <3>2
            DEF TableAt, TwoPlayers
  <2>4. CASE x # t
    <3>1. \A p \in hand[x] : p \in Players /\ at[p] = x /\ chips'[p] > 0
      BY <1>9, <2>1, <2>4 DEF TableAt, Typed
    <3>2. \A p \in Players : at[p] = x => chips'[p] = chips[p] BY <1>9, <2>4
    <3> QED BY <1>1, <1>4, <1>8, <2>1, <2>2, <2>4, <3>1, <3>2
            DEF TableAt, Clearing, TwoPlayers
  <2> QED BY <2>3, <2>4
<1>12. \A p \in Players : PlayerAt(p)'
  BY <1>1, <1>9, TablesFact DEF Right, PlayerAt
<1>13. Finished' BY <1>1, <1>7 DEF Finished
<1>14. Books' BY <1>1, <1>6 DEF Right, Books, Record, Ranked, TwoPlayers, Total
<1> QED BY <1>11, <1>12, <1>13, <1>14 DEF Right

\* Whoever sits at the table of a report is in the tournament.
LEMMA ReportsMembers ==
    ASSUME Typed, Right, NEW t \in Tables, pc[t] = "tourn",
           NEW p \in Players, at[p] = t
    PROVE  ~finished /\ chips[p] > 0 /\ p \notin busts[t] /\ rec[p] > 0
<1>1. ~finished BY WinnerRests
<1>2. chips[p] > 0
  <2>1. chips[p] # 0 BY DEF Right, TableAt
  <2> QED BY <2>1 DEF Typed
<1>3. p \notin busts[t] BY <1>2 DEF Right, TableAt
<1>4. rec[p] > 0
  <2>1. rec[p] # 0 BY <1>1, TablesFact DEF Right, PlayerAt
  <2> QED BY <2>1 DEF Right, Books, Ranked, Record, Records
<1> QED BY <1>1, <1>2, <1>3, <1>4

\* What handOver makes of the record: out, with the bust queue, and new, with
\* the seats of the table.
HandedOver(t, out, new) ==
    /\ Ranked(new) /\ Keeps(Record, new)
    /\ Ranked(out)
    /\ \A p \in Players : out.chips[p] = IF p \in busts[t] THEN 0 ELSE rec[p]
    /\ \A p \in Players : \/ new.chips[p] = out.chips[p]
                          \/ at[p] = t /\ new.chips[p] = chips[p]
    /\ \A w \in Players :
         (\A p \in Players : at[p] = t <=> p = w)
           /\ (\A p \in Players \ {w} : out.chips[p] = 0)
         => new.chips[w] = chips[w]

LEMMA HandOverRecord ==
    ASSUME Typed, Right, NEW t \in Tables, pc[t] = "tourn",
           NEW bs \in Orders(busts[t]), NEW ys \in Orders(Members(t)),
           NEW out \in Busted(Record, bs), NEW new \in Recorded(out, ys)
    PROVE  HandedOver(t, out, new)
<1>1. Ranked(Record) BY DEF Right, Books
<1>2. busts[t] \in SUBSET Players BY DEF Typed
<1>3. /\ Ranked(out) /\ Keeps(Record, out)
      /\ \A p \in Players :
           out.chips[p] = IF p \in busts[t] THEN 0 ELSE Record.chips[p]
  BY <1>1, <1>2, BustedRecord
<1>4. \A p \in Players : Record.chips[p] = rec[p] BY DEF Record
<1>5. Members(t) \in SUBSET Players BY DEF Members
<1>6. \A p \in Members(t) : out.chips[p] > 0 /\ chips[p] > 0
  <2>1. \A p \in Members(t) : p \in Players /\ at[p] = t BY DEF Members
  <2>2. \A p \in Players : at[p] = t =>
          chips[p] > 0 /\ p \notin busts[t] /\ rec[p] > 0
    BY ReportsMembers
  <2> QED BY <1>3, <1>4, <2>1, <2>2
<1>7. chips \in [Players -> Nat] BY DEF Typed
<1>8. /\ Ranked(new) /\ Keeps(out, new)
      /\ \A p \in Players : \/ new.chips[p] = out.chips[p]
                            \/ p \in Members(t) /\ new.chips[p] = chips[p]
      /\ \A w \in Players :
           Members(t) = {w} /\ (\A p \in Players \ {w} : out.chips[p] = 0)
             => new.chips[w] = chips[w]
  BY <1>3, <1>5, <1>6, <1>7, RecordedRecord
<1>9. Keeps(Record, new)
  <2>1. \A p \in Players : Record.chips[p] = 0 => out.chips[p] = 0 BY <1>3
  <2> QED BY <1>1, <1>3, <1>8, <2>1, KeepsOn
<1>10. ASSUME NEW w \in Players, \A p \in Players : at[p] = t <=> p = w,
              \A p \in Players \ {w} : out.chips[p] = 0
       PROVE  new.chips[w] = chips[w]
  <2>1. Members(t) = {w} BY <1>10 DEF Members
  <2> QED BY <1>8, <1>10, <2>1
<1>11. \A p \in Players : p \in Members(t) <=> at[p] = t BY DEF Members
<1> QED BY <1>3, <1>4, <1>8, <1>9, <1>10, <1>11 DEF HandedOver

\* A report that has somebody queued, or that is of the end of a hand, leaves
\* somebody in the tournament; one of rerebalance takes nobody out of it.
LEMMA SomebodyIsLeft ==
    ASSUME Typed, LocksHeld, Quiet, Right, NEW t \in Tables, pc[t] = "tourn",
           NEW out, NEW new, HandedOver(t, out, new), ~finished
    PROVE  /\ \E p \in Players : out.chips[p] > 0
           /\ Over(t) => \E p \in Players : at[p] = t /\ out.chips[p] > 0
           /\ ~Over(t) => \E p, q \in Players :
                            p # q /\ out.chips[p] > 0 /\ out.chips[q] > 0
<1>1. \A p \in Players : out.chips[p] = IF p \in busts[t] THEN 0 ELSE rec[p]
  BY DEF HandedOver
<1>2. CASE Over(t)
  <2>1. PICK p \in Players : at[p] = t /\ chips[p] > 0
    BY <1>2 DEF Right, TableAt, Early
  <2>2. out.chips[p] > 0 BY <1>1, <2>1, ReportsMembers
  <2> QED BY <1>2, <2>1, <2>2
<1>3. CASE ~Over(t)
  <2>1. busts[t] = {} BY <1>3 DEF Right, TableAt
  <2>2. Clearing(t)
    <3>1. OverFirst(queue[t]) BY DEF Quiet, QuietAt
    <3> QED BY <3>1, ReportIsAsked
  <2>3. TwoPlayers BY <2>2 DEF Right, TableAt
  <2>4. \E p, q \in Players : p # q /\ rec[p] > 0 /\ rec[q] > 0
    BY <2>3 DEF Right, Books
  <2> QED BY <1>1, <1>3, <2>1, <2>4
<1> QED BY <1>2, <1>3

Left(out) == {p \in Players : out.chips[p] > 0}

\* The only one left has every chip, and sits at the table of the report.
LEMMA OneIsLeft ==
    ASSUME Typed, LocksHeld, Quiet, Right, NEW t \in Tables, pc[t] = "tourn",
           NEW out, NEW new, HandedOver(t, out, new), Cardinality(Left(out)) = 1
    PROVE  /\ ~finished /\ Over(t)
           /\ \E w \in Players :
                /\ at[w] = t /\ new.order[1] = w /\ new.chips[w] = Total
                /\ chips[w] > 0
                /\ \A q \in Players \ {w} :
                     /\ at[q] = NoTable /\ chips[q] = 0
                     /\ out.chips[q] = 0 /\ new.chips[q] = 0
<1>1. /\ \A p \in Players : out.chips[p] = IF p \in busts[t] THEN 0 ELSE rec[p]
      /\ Ranked(new)
      /\ \A p \in Players : \/ new.chips[p] = out.chips[p]
                            \/ at[p] = t /\ new.chips[p] = chips[p]
  BY DEF HandedOver
<1>2. /\ Left(out) \in SUBSET Players /\ Left(out) # {}
      /\ ~\E p, q \in Left(out) : p # q
  <2>1. Left(out) \in SUBSET Players BY DEF Left
  <2> QED BY <2>1, PlayersFinite
<1>3. \A p \in Players : out.chips[p] \in Nat
  BY DEF HandedOver, Ranked, Records
<1>4. ~finished
  <2>1. finished => \A p \in Players : rec[p] = 0 BY DEF Right, Finished
  <2>2. finished => \A p \in Players : out.chips[p] = 0 BY <1>1, <2>1
  <2> QED BY <1>2, <2>2 DEF Left
<1>5. Over(t)
  <2>1. ~Over(t) => \E p, q \in Players :
                      p # q /\ out.chips[p] > 0 /\ out.chips[q] > 0
    BY <1>4, SomebodyIsLeft
  <2> QED BY <1>2, <2>1 DEF Left
<1>6. PICK w \in Players : at[w] = t /\ out.chips[w] > 0
  BY <1>4, <1>5, SomebodyIsLeft
<1>7. \A q \in Players \ {w} : out.chips[q] = 0
  BY <1>2, <1>3, <1>6 DEF Left
<1>8. ASSUME NEW q \in Players \ {w}
      PROVE  at[q] = NoTable /\ chips[q] = 0
  <2>1. at[q] # t
    <3>1. at[q] = t => rec[q] > 0 /\ q \notin busts[t] BY ReportsMembers
    <3> QED BY <1>1, <1>7, <3>1
  <2>2. CASE q \in busts[t] BY <2>1, <2>2 DEF Right, TableAt
  <2>3. CASE q \notin busts[t]
    <3>1. rec[q] = 0 BY <1>1, <1>7, <2>3
    <3> QED BY <1>4, <3>1 DEF Right, PlayerAt
  <2> QED BY <2>2, <2>3
<1>9. chips[w] = Total
  <2>1. IsFiniteSet(Players) /\ \A p \in Players : chips[p] \in Int
    BY TournamentAssumption DEF Typed
  <2>2. {w} \in SUBSET Players /\ \A p \in Players \ {w} : chips[p] = 0
    BY <1>8
  <2>3. SumFunctionOnSet(chips, Players) = SumFunctionOnSet(chips, {w})
    BY <2>1, <2>2, SumPart
  <2>4. SumFunctionOnSet(chips, {w}) = chips[w]
    <3>1. IsFiniteSet({w}) /\ {w} \ {w} = {} BY FS_Singleton
    <3>2. SumFunctionOnSet(chips, {w})
            = chips[w] + SumFunctionOnSet(chips, {w} \ {w})
      BY <2>1, <3>1, SumRemove
    <3>3. SumFunctionOnSet(chips, {w} \ {w}) = 0 BY <3>1, SumEmpty
    <3> QED BY <2>1, <3>2, <3>3
  <2> QED BY <2>3, <2>4 DEF Right, Books
<1>10. \A p \in Players : at[p] = t <=> p = w
  BY <1>6, <1>8, TablesFact
<1>11. new.chips[w] = Total BY <1>7, <1>9, <1>10 DEF HandedOver
<1>12. chips[w] > 0 BY <1>6, ReportsMembers
<1>13. \A q \in Players \ {w} : new.chips[q] = 0 BY <1>1, <1>7, <1>10
<1>14. new.order[1] = w BY <1>1, <1>9, <1>11, <1>12, <1>13, FirstHasAll
<1> QED BY <1>4, <1>5, <1>6, <1>7, <1>8, <1>11, <1>12, <1>13, <1>14

\* Otherwise there are two.
LEMMA MoreAreLeft ==
    ASSUME Typed, LocksHeld, Quiet, Right, NEW t \in Tables, pc[t] = "tourn",
           NEW out, NEW new, HandedOver(t, out, new), ~finished,
           Cardinality(Left(out)) # 1
    PROVE  \E p, q \in Players : p # q /\ new.chips[p] > 0 /\ new.chips[q] > 0
<1>1. Left(out) \in SUBSET Players BY DEF Left
<1>2. Left(out) # {} BY SomebodyIsLeft DEF Left
<1>3. \E p, q \in Left(out) : p # q BY <1>1, <1>2, PlayersFinite
<1>4. \A p \in Players : out.chips[p] > 0 => new.chips[p] > 0
  BY ReportsMembers DEF HandedOver
<1> QED BY <1>3, <1>4 DEF Left

\* What a report asks of the locks
LEMMA HandOverAsks ==
    ASSUME Typed, LocksHeld, Quiet, NEW t \in Tables, pc[t] = "tourn",
           \/ \E new : DeclareWinner(t, new)
           \/ \E busy : Balance(t, busy)
    PROVE  /\ \A x \in Tables :
                /\ Over(x)' <=> Over(x)
                /\ Again(x)' => Again(x) \/ (x = t /\ \E p \in Players : at[p] = t)
                /\ x # t => pc'[x] = pc[x]
           /\ pc'[t] \in {"move", "save"}
           /\ \A x \in Tables : Asked(queue'[x], "leave") =>
                Asked(queue[x], "leave") \/ \E new : DeclareWinner(t, new)
           /\ (\E new : DeclareWinner(t, new)) =>
                /\ pc'[t] = "save"
                /\ \A x \in Tables : Again(x)' <=> Again(x)
<1>1. \A y \in Tables : OverFirst(queue[y]) BY DEF Quiet, QuietAt
<1>2. queue \in [Tables -> Seq(Calls)] /\ pc \in [Tables -> Pcs]
  BY DEF LocksHeld, QueuesOK
<1>3. ASSUME NEW new, DeclareWinner(t, new)
      PROVE  /\ \A x \in Tables :
                  /\ Over(x)' <=> Over(x)
                  /\ Again(x)' <=> Again(x)
                  /\ x # t => pc'[x] = pc[x]
             /\ pc'[t] = "save"
  <2> DEFINE c == Call("leave", NoTable)
  <2>1. /\ c \in Calls /\ c.op = "leave" BY DEF Call, Calls
  <2>2. /\ Joined(queue, t, c) /\ UNCHANGED timers
        /\ pc' = [pc EXCEPT ![t] = "save"]
    BY <1>3 DEF DeclareWinner, Save, Joined
  <2> HIDE DEF c
  <2>3. \A x \in Tables : \A op \in Ops :
          Asked(queue'[x], op) <=> Asked(queue[x], op) \/ (x = t /\ c.op = op)
    BY <1>1, <1>2, <2>1, <2>2, JoinSays
  <2>4. \A x \in Tables :
          /\ Asked(queue'[x], "over") <=> Asked(queue[x], "over")
          /\ Asked(queue'[x], "rere") <=> Asked(queue[x], "rere")
    BY <2>1, <2>3 DEF Ops
  <2> QED BY <1>2, <2>2, <2>4 DEF Over, Again
<1>4. ASSUME NEW busy, Balance(t, busy)
      PROVE  /\ \A x \in Tables :
                  /\ Over(x)' <=> Over(x)
                  /\ Again(x)' => Again(x) \/ (x = t /\ \E p \in Players : at[p] = t)
                  /\ x # t => pc'[x] = pc[x]
                  /\ Asked(queue'[x], "leave") => Asked(queue[x], "leave")
             /\ pc'[t] \in {"move", "save"}
  <2>1. Chooses(t, queue) BY <1>4, BalanceChooses
  <2>2. \A x \in Tables : \A op \in Ops \ {"move"} :
          Asked(queue'[x], op) <=> Asked(queue[x], op)
    BY <1>1, <1>2, <2>1, ChoosesSays
  <2>3. \A x \in Tables :
          /\ Asked(queue'[x], "over") <=> Asked(queue[x], "over")
          /\ Asked(queue'[x], "rere") <=> Asked(queue[x], "rere")
          /\ Asked(queue'[x], "leave") <=> Asked(queue[x], "leave")
    BY <2>2 DEF Ops
  <2>4. \/ UNCHANGED timers
        \/ timers' = [timers EXCEPT !.rere = @ \cup {t}] /\ Count(t) = 1
    BY <1>4 DEF Balance
  <2>5. Count(t) = 1 => \E p \in Players : at[p] = t
    <3>1. Members(t) \in SUBSET Players BY DEF Members
    <3>2. Cardinality(Members(t)) = 0 <=> Members(t) = {} BY <3>1, PlayersFinite
    <3> QED BY <3>2 DEF Count, Members
  <2>6. \A x \in Tables : x \in timers'.rere =>
          x \in timers.rere \/ (x = t /\ \E p \in Players : at[p] = t)
    BY <2>4, <2>5 DEF Typed
  <2>7. pc' = [pc EXCEPT ![t] = "move"] \/ pc' = [pc EXCEPT ![t] = "save"]
    BY <2>1 DEF Chooses
  <2> QED BY <1>2, <2>3, <2>6, <2>7 DEF Over, Again
<1> QED BY <1>3, <1>4

LEMMA RightHandOver ==
    ASSUME Typed, LocksHeld, Quiet, Right, NEW t \in Tables, HandOver(t)
    PROVE  Right' /\ Keeps(Record, Record')
<1>1. /\ pc[t] = "tourn" /\ busts' = [busts EXCEPT ![t] = {}]
      /\ UNCHANGED <<at, chips, hand>>
  BY DEF HandOver, Decides, tableVars
<1>2. PICK bs \in Orders(busts[t]), ys \in Orders(Members(t)) :
        \E out \in Busted(Record, bs) :
          \E new \in Recorded(out, ys) :
            IF Cardinality(Left(out)) = 1
            THEN DeclareWinner(t, new)
            ELSE /\ ranking' = new.order /\ rec' = new.chips
                 /\ \E busy \in Others : Balance(t, busy)
                 /\ UNCHANGED <<finished, failed>>
  BY Zenon DEF HandOver, Record, Left
<1>3. PICK out \in Busted(Record, bs) :
        \E new \in Recorded(out, ys) :
          IF Cardinality(Left(out)) = 1
          THEN DeclareWinner(t, new)
          ELSE /\ ranking' = new.order /\ rec' = new.chips
               /\ \E busy \in Others : Balance(t, busy)
               /\ UNCHANGED <<finished, failed>>
  BY <1>2
<1>4. PICK new \in Recorded(out, ys) :
        IF Cardinality(Left(out)) = 1
        THEN DeclareWinner(t, new)
        ELSE /\ ranking' = new.order /\ rec' = new.chips
             /\ \E busy \in Others : Balance(t, busy)
             /\ UNCHANGED <<finished, failed>>
  BY <1>3
<1>5. HandedOver(t, out, new) BY <1>1, HandOverRecord
<1>6. /\ Ranked(new) /\ Keeps(Record, new) /\ new \in Records
      /\ \A p \in Players : out.chips[p] = IF p \in busts[t] THEN 0 ELSE rec[p]
      /\ \A p \in Players : \/ new.chips[p] = out.chips[p]
                            \/ at[p] = t /\ new.chips[p] = chips[p]
  BY <1>5 DEF HandedOver, Ranked
<1>7. Keeps(Record, Record')
  <2>1. ranking' = new.order BY <1>4 DEF DeclareWinner
  <2>2. Record'.order = new.order BY <2>1 DEF Record
  <2> QED BY <1>6, <2>2 DEF Keeps
<1>8. \A x \in Tables : busts'[x] = IF x = t THEN {} ELSE busts[x]
  BY <1>1 DEF Typed
<1>9. \A p \in Players : at[p] = t =>
        ~finished /\ chips[p] > 0 /\ p \notin busts[t] /\ rec[p] > 0
  BY <1>1, ReportsMembers
<1>10. \A x \in Tables :
         /\ Over(x)' <=> Over(x)
         /\ Again(x)' => Again(x) \/ (x = t /\ \E p \in Players : at[p] = t)
         /\ x # t => pc'[x] = pc[x]
         /\ Asked(queue'[x], "leave") => Asked(queue[x], "leave") \/ finished'
  <2>1. \A other : DeclareWinner(t, other) => finished' BY DEF DeclareWinner
  <2> QED BY <1>1, <1>4, <2>1, HandOverAsks
<1>11. pc'[t] \in {"move", "save"} BY <1>1, <1>4, HandOverAsks
<1>12. Clearing(t)
  <2>1. OverFirst(queue[t]) BY DEF Quiet, QuietAt
  <2> QED BY <1>1, <2>1, ReportIsAsked
\* The tables, if the players that are queued elsewhere are still in it
<1>13. ASSUME \A x \in Tables \ {t} : \A p \in busts[x] : rec'[p] > 0,
              finished => finished',
              NEW x \in Tables
       PROVE  TableAt(x)'
  <2>1. TableAt(x) BY DEF Right
  <2>2. CASE x # t
    <3>1. \A p \in busts'[x] : rec'[p] > 0
            /\ \A y \in Tables \ {x} : p \notin busts'[y]
      BY <1>8, <1>13, <2>1, <2>2 DEF TableAt
    <3> QED BY <1>1, <1>8, <1>10, <1>13, <2>1, <2>2, <3>1
            DEF TableAt, Clearing, TwoPlayers
  <2>3. CASE x = t
    <3>1. \A p \in Players : at[p] = t => chips[p] # 0 BY <1>9
    <3>2. TwoPlayers BY <1>12, <2>1, <2>3 DEF TableAt
    <3> QED BY <1>1, <1>8, <1>10, <1>13, <1>11, <2>1, <2>3, <3>1, <3>2
            DEF TableAt, TwoPlayers, Early
  <2> QED BY <2>2, <2>3
<1>14. CASE Cardinality(Left(out)) = 1
  <2>1. DeclareWinner(t, new) BY <1>4, <1>14
  <2>2. ~finished /\ Over(t) BY <1>1, <1>5, <1>14, OneIsLeft
  <2>3. PICK w \in Players :
          /\ at[w] = t /\ new.order[1] = w /\ new.chips[w] = Total
          /\ chips[w] > 0
          /\ \A q \in Players \ {w} :
               /\ at[q] = NoTable /\ chips[q] = 0
               /\ out.chips[q] = 0 /\ new.chips[q] = 0
    BY <1>1, <1>5, <1>14, OneIsLeft
  <2>4. /\ finished' /\ failed' = "no" /\ ranking' = new.order
        /\ rec' = [new.chips EXCEPT ![w] = 0]
    BY <2>1, <2>3 DEF DeclareWinner
  <2>5. \A p \in Players : rec'[p] = 0
    BY <1>6, <2>3, <2>4 DEF Records
  <2>6. \A x \in Tables : TableAt(x)'
    <3>1. \A x \in Tables \ {t} : busts[x] = {}
      <4>1. ASSUME NEW x \in Tables \ {t}, NEW p \in busts[x] PROVE FALSE
        <5>1. /\ p \in Players /\ chips[p] = 0 /\ rec[p] > 0 /\ p \notin busts[t]
          BY <4>1 DEF Right, TableAt, Typed
        <5>2. out.chips[p] > 0 BY <1>6, <5>1
        <5> QED BY <2>3, <5>1, <5>2
      <4> QED BY <4>1
    <3> QED BY <1>13, <2>4, <3>1
  <2>7. \A p \in Players : PlayerAt(p)' BY <2>4, <2>5 DEF PlayerAt
  <2>8. Finished'
    <3>1. /\ pc'[t] = "save" /\ \A x \in Tables : Again(x)' <=> Again(x)
      BY <1>1, <2>1, HandOverAsks
    <3>2. ~Again(t) BY <1>1, <2>2 DEF Quiet, QuietAt, Early
    <3>3. Winner(w)' BY <1>1, <2>3, <3>1, <3>2 DEF Winner
    <3> QED BY <2>5, <3>3 DEF Finished
  <2>9. Books'
    <3>1. Record' \in Records BY <1>6, <2>4 DEF Record, Records
    <3>2. \A k \in Places : Chips(Record', k) = 0
      <4>1. \A k \in Places : new.order[k] \in Players
        BY <1>6, OrderFact, TournamentAssumption DEF Places, Records
      <4> QED BY <2>4, <2>5, <4>1 DEF Chips, Record
    <3>3. Ranked(Record') BY <3>1, <3>2 DEF Ranked
    <3> QED BY <1>1, <2>4, <3>3 DEF Books, Right, Total
  <2> QED BY <1>7, <2>6, <2>7, <2>8, <2>9 DEF Right
<1>15. CASE Cardinality(Left(out)) # 1
  <2>1. /\ ranking' = new.order /\ rec' = new.chips
        /\ UNCHANGED <<finished, failed>>
        /\ \E busy : Balance(t, busy)
    BY <1>4, <1>15
  <2>2. \A p \in Players : rec[p] > 0 /\ p \notin busts[t] => rec'[p] > 0
    BY <1>6, <1>9, <2>1
  <2>3. \A p \in Players : rec[p] \in Nat /\ rec'[p] \in Nat
    BY <1>6, <2>1 DEF Right, Books, Ranked, Record, Records
  <2>4. \A p \in Players : rec'[p] = 0 => rec[p] = 0 \/ p \in busts[t]
    BY <2>2, <2>3
  <2>5. \A p \in Players : rec'[p] > 0 => rec[p] > 0 /\ p \notin busts[t]
    BY <1>6, <1>9, <2>1, <2>3
  <2>6. \A x \in Tables : TableAt(x)'
    <3>1. \A x \in Tables \ {t} : \A p \in busts[x] : rec'[p] > 0
      BY <2>2 DEF Right, TableAt, Typed
    <3> QED BY <1>13, <2>1, <3>1
  <2>7. ASSUME NEW p \in Players PROVE PlayerAt(p)'
    <3>1. rec'[p] = 0 /\ ~finished => at[p] = NoTable /\ chips[p] = 0
      <4>1. p \in busts[t] => at[p] = NoTable /\ chips[p] = 0
        BY <1>9 DEF Right, TableAt
      <4> QED BY <2>4, <4>1 DEF Right, PlayerAt
    <3>2. at[p] = NoTable /\ rec'[p] > 0 => \E x \in Tables : p \in busts'[x]
      BY <1>8, <2>5 DEF Right, PlayerAt
    <3> QED BY <1>1, <2>1, <3>1, <3>2 DEF PlayerAt
  <2>8. Finished'
    <3> SUFFICES ASSUME finished
                 PROVE  /\ \A p \in Players : rec'[p] = 0
                        /\ \E w \in Players : Winner(w)'
      BY <2>1 DEF Finished
    <3>1. /\ \A p \in Players : rec[p] = 0
          /\ \E w \in Players : Winner(w)
      BY DEF Right, Finished
    <3>2. \A p \in Players : rec'[p] = 0 BY <2>3, <2>5, <3>1
    <3>3. \A p \in Players : at[p] # t BY <1>9
    <3>4. ASSUME NEW w \in Players, Winner(w) PROVE Winner(w)'
      BY <1>1, <1>10, <3>3, <3>4 DEF Winner
    <3> QED BY <3>1, <3>2, <3>4
  <2>9. Books'
    <3>1. Record' = new BY <1>6, <2>1 DEF Record, Records
    <3>2. ~finished => \E p, q \in Players : p # q /\ rec'[p] > 0 /\ rec'[q] > 0
      BY <1>1, <1>5, <1>15, <2>1, MoreAreLeft
    <3> QED BY <1>1, <1>6, <2>1, <3>1, <3>2 DEF Books, Right, Total, TwoPlayers
  <2> QED BY <1>7, <2>6, <2>7, <2>8, <2>9 DEF Right
<1> QED BY <1>14, <1>15

LEMMA RightNext ==
    ASSUME Typed, LocksHeld, Quiet, Right, [Next]_vars
    PROVE  Right'
<1>1. ASSUME NEW t \in Tables, Held(t) PROVE Right'
  <2>1. CASE Report(t)
    BY <2>1, RightBeginOver, RightStandUp, RightReport, RightMove,
       RightAfterMove, RightReported
    DEF Report
  <2> QED BY <1>1, <2>1, RightStart, RightPostTransfer, RightLeaveTable DEF Held
<1>2. CASE UNCHANGED vars
  <2>1. /\ UNCHANGED <<at, chips, busts, rec, ranking, finished, failed, hand,
                       pc, queue, timers>>
    BY <1>2 DEF vars, tableVars, lockVars
  <2>2. \A x \in Tables : (Over(x)' <=> Over(x)) /\ (Again(x)' <=> Again(x))
    BY <2>1 DEF Over, Again
  <2>3. 1 \in Tables /\ Goes(1) BY <2>1, TablesFact DEF Goes
  <2> QED BY <2>1, <2>2, <2>3, RightGoes
<1> QED BY <1>1, <1>2, RightPlayHand, RightHandOver, RightTimer DEF Next

TournamentInv == Typed /\ LocksHeld /\ Quiet /\ Right

\* What the tournament knows is right, for any number of players and tables:
\* nobody plays at a table whose report is not over, the ranks are in the
\* order of the chips, and who is out of them is gone from the tables.
THEOREM RecordsAreRight == Spec => []TournamentInv
<1>1. Init => TournamentInv
  BY TypedInit, InitLocks, QuietInit, RightInit DEF TournamentInv
<1>2. TournamentInv /\ [Next]_vars => TournamentInv'
  <2> SUFFICES ASSUME TournamentInv, [Next]_vars PROVE TournamentInv' OBVIOUS
  <2>1. Typed /\ LocksHeld /\ Quiet /\ Right BY DEF TournamentInv
  <2> QED BY <2>1, NextKeeps, QuietNext, RightNext DEF TournamentInv
<1> QED BY <1>1, <1>2, PTL DEF Spec

\* The winner that handOver declares has every chip and sits at its table.
THEOREM WinnerIsRight == Spec => []WinnerHasAll
<1>1. TournamentInv => WinnerHasAll
  BY DEF TournamentInv, Right, Books, WinnerHasAll
<1> QED BY <1>1, RecordsAreRight, PTL

\* Who keeps his place in the order keeps the place he is told.
LEMMA PlacesKept ==
    ASSUME Ranked(Record), Ranked(Record'), Keeps(Record, Record'),
           NEW p \in Players, rec[p] = 0
    PROVE  PlaceOf(p)' = PlaceOf(p)
<1>1. ranking \in Orders(Players) /\ ranking' \in Orders(Players)
  BY DEF Ranked, Record, Records
<1>2. \A o \in Orders(Players) :
        /\ DOMAIN o = Places
        /\ \E k \in Places : o[k] = p
        /\ \A i, j \in Places : o[i] = o[j] => i = j
  BY OrderFact, TournamentAssumption DEF Places
<1>3. PICK k \in Places : ranking[k] = p BY <1>1, <1>2
<1>4. ranking'[k] = p
  <2>1. Chips(Record, k) = 0 BY <1>3 DEF Chips, Record
  <2> QED BY <1>3, <2>1 DEF Keeps, Record
<1>5. PlaceOf(p) = k BY <1>1, <1>2, <1>3 DEF PlaceOf
<1>6. (PlaceOf(p))' = k BY <1>1, <1>2, <1>3, <1>4 DEF PlaceOf
<1> QED BY <1>5, <1>6

\* The place that a player was told is his for good.
THEOREM PlacesAreFinal == Spec => PlacesStand
<1>1. TournamentInv /\ TournamentInv' /\ [Next]_vars
        => [\A p \in Players : rec[p] = 0 => PlaceOf(p)' = PlaceOf(p)]_<<ranking, rec>>
  <2> SUFFICES ASSUME TournamentInv, TournamentInv', [Next]_vars,
                      ~UNCHANGED <<ranking, rec>>,
                      NEW p \in Players, rec[p] = 0
               PROVE  PlaceOf(p)' = PlaceOf(p)
    OBVIOUS
  <2>1. /\ Typed /\ LocksHeld /\ Quiet /\ Right
        /\ Ranked(Record) /\ Ranked(Record')
    BY DEF TournamentInv, Right, Books
  <2>2. PICK t \in Tables : HandOver(t)
    BY DEF Next, PlayHand, Held, Report, BeginOver, StandUpBust, ReportOver,
           ReportAgain, Move, AfterMove, Saved, SavedBefore, ReportedAfter,
           Reported, Start, PostTransfer, LeaveTable, Timer, RereTimer,
           PostTimer, vars
  <2>3. Keeps(Record, Record') BY <2>1, <2>2, RightHandOver
  <2> QED BY <2>1, <2>3, PlacesKept
<1> QED BY <1>1, RecordsAreRight, PTL DEF Spec, PlacesStand
=============================================================================
