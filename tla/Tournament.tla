----------------------------- MODULE Tournament -----------------------------
(***************************************************************************)
(* A tournament in play: src/server/tournament.js.                         *)
(*                                                                         *)
(* When a hand ends, its table reports to the tournament (handOver): who   *)
(* is out, how many chips the others have, and whether players have to be  *)
(* moved, because there are too many tables or because this one is too     *)
(* full.  The report holds the lock of its table and that of the           *)
(* tournament, and a move takes that of the table it goes to.              *)
(*                                                                         *)
(* A hand is abstract: it ends with any division of the chips of those it  *)
(* was dealt to.  Seats are, too: wherever the code goes by the seats of a *)
(* table, the order of its players is any.                                 *)
(***************************************************************************)
EXTENDS Integers, Sequences, FiniteSets, Functions

CONSTANTS
    Players,     \* obj.players
    NTables,     \* tables.length
    PerTable,    \* obj.seats_per_table
    Starting,    \* obj.startingchips
    MaxOthers    \* bound on the tables whose lock some other handler has

Tables == 1..NTables
NoTable == 0

ASSUME TournamentAssumption ==
    /\ IsFiniteSet(Players) /\ NTables \in Nat \ {0}
    /\ PerTable \in Nat \ {0} /\ Starting \in Nat \ {0}
    /\ MaxOthers \in Nat
    /\ (NTables - 1) * PerTable < Cardinality(Players)
    /\ Cardinality(Players) <= NTables * PerTable

VARIABLES
    at,       \* the table at which each player is a member, or NoTable
    chips,    \* his chips there
    ranking,  \* obj.players: the order of the players,
    rec,      \*   and their chips as far as the tournament knows
    hand,     \* the players each table has dealt to, {} between hands
    won,      \* tsWinning: the tables that show the winners of a hand
    busts,    \* bustQueue
    clearOut, \* the tables with clearOut, which are to be taken apart,
    paused,   \*   and with paused, which deal no hand
    queue,    \* the calls of each table's lock; the first one has it
    tqueue,   \* the tables whose report waits for the tournament's lock
    pc,       \* what the report of each table does next
    job,      \* the move that is being made
    timers,   \* the timers of rerebalance and of postTransfer
    finished, \* tnsFinished
    failed    \* an assertion has failed: the process is gone

tableVars == <<at, hand, won>>
lockVars == <<queue, tqueue, pc>>
vars == <<tableVars, chips, ranking, rec, busts, clearOut, paused, lockVars,
          job, timers, finished, failed>>

\* over: finish2 of doWin; rere: rerebalance; start: the state machine of an
\* idle table; post: postTransfer; move: doRebalance, from another table;
\* leave: Game.leave of the winner.
Calls == [op : {"over", "rere", "start", "leave"}, x : {NoTable}]
           \cup [op : {"post", "move"}, x : Tables]
Call(op, x) == [op |-> op, x |-> x]

NoJob == [to |-> NoTable, target |-> 0, kind |-> "none", moved |-> FALSE]
Jobs == [to : Tables, target : 0..PerTable,
         kind : {"first", "second", "even"}, moved : BOOLEAN] \cup {NoJob}
Pcs == {"none", "bust", "tourn", "move", "save", "done"}

Members(t) == {p \in Players : at[p] = t}
Count(t) == Cardinality(Members(t))
Total == Starting * Cardinality(Players)
Orders(S) ==
    {o \in [1..Cardinality(S) -> S] :
       \A p \in S : \E i \in DOMAIN o : o[i] = p}

\* startTournament seats the players, who are all online, at one table after
\* the other, in the order of the ranks (which of them comes first makes no
\* difference); startGames then calls every table's state machine.
Init ==
    /\ ranking = CHOOSE o \in Orders(Players) : TRUE
    /\ at = [p \in Players |->
               1 + (((CHOOSE i \in DOMAIN ranking : ranking[i] = p) - 1)
                      % NTables)]
    /\ chips = [p \in Players |-> Starting]
    /\ rec = chips
    /\ hand = [t \in Tables |-> {}] /\ won = {}
    /\ busts = [t \in Tables |-> {}]
    /\ clearOut = {} /\ paused = {}
    /\ queue = [t \in Tables |-> <<Call("start", NoTable)>>]
    /\ tqueue = <<>> /\ pc = [t \in Tables |-> "none"] /\ job = NoJob
    /\ timers = [rere |-> {}, post |-> [x \in Tables \X Tables |-> 0]]
    /\ finished = FALSE
    /\ failed = "no"

\* The process is up, and no report is between its two releases.
Up == failed = "no" /\ \A t \in Tables : pc[t] # "done"
Free(t) == queue[t] = <<>>
Has(t, op) == Up /\ ~Free(t) /\ Head(queue[t]).op = op
Ask(t, c) == queue' = [queue EXCEPT ![t] = Append(@, c)]
Waiting(t, op) == \E i \in DOMAIN queue[t] : queue[t][i].op = op
Idle(t) == hand[t] = {} /\ t \notin won

-----------------------------------------------------------------------------
\* The ways the chips of the players in ps can change hands.
Outcomes(ps) ==
    LET sum == SumFunction([p \in ps |-> chips[p]])
    IN  {e \in [ps -> 0..sum] : SumFunction(e) = sum}

\* Those who are dealt to play, doWin pays the winner, and its timer asks for
\* the lock.  (Nothing that others do while it runs depends on the chips.)
HandEnds(t) ==
    /\ Up /\ Free(t) /\ hand[t] # {}
    /\ hand' = [hand EXCEPT ![t] = {}]

PlayHand(t) ==
    /\ HandEnds(t)
    /\ won' = won \cup {t}
    /\ Ask(t, Call("over", NoTable))
    /\ \E e \in Outcomes(hand[t]) :
         chips' = [p \in Players |-> IF p \in hand[t] THEN e[p] ELSE chips[p]]
    /\ UNCHANGED <<at, ranking, rec, busts, clearOut, paused, tqueue, pc, job,
                   timers, finished, failed>>

\* finish2 gets the lock; checkBust queues those who have lost everything.
BeginOver(t) ==
    /\ Has(t, "over") /\ pc[t] = "none"
    /\ pc' = [pc EXCEPT ![t] = "bust"]
    /\ busts' = [busts EXCEPT ![t] = @ \cup {p \in Members(t) : chips[p] = 0}]
    /\ UNCHANGED <<tableVars, chips, ranking, rec, clearOut, paused, queue,
                   tqueue, job, timers, finished, failed>>

\* and stands them up, each behind calls to the database.
StandUpBust(t, p) ==
    /\ Up /\ pc[t] = "bust" /\ p \in Members(t) /\ chips[p] = 0
    /\ at' = [at EXCEPT ![p] = NoTable]
    /\ UNCHANGED <<hand, won, chips, ranking, rec, busts, clearOut, paused,
                   lockVars, job, timers, finished, failed>>

\* The table is idle and reports: it waits for the tournament's lock.
ReportOver(t) ==
    /\ Up /\ pc[t] = "bust" /\ \A p \in Members(t) : chips[p] > 0
    /\ won' = won \ {t}
    /\ pc' = [pc EXCEPT ![t] = "tourn"]
    /\ tqueue' = Append(tqueue, t)
    /\ UNCHANGED <<at, hand, chips, ranking, rec, busts, clearOut, paused,
                   queue, job, timers, finished, failed>>

\* rerebalance reports, too.
ReportAgain(t) ==
    /\ Has(t, "rere") /\ pc[t] = "none"
    /\ pc' = [pc EXCEPT ![t] = "tourn"]
    /\ tqueue' = Append(tqueue, t)
    /\ UNCHANGED <<tableVars, chips, ranking, rec, busts, clearOut, paused,
                   queue, job, timers, finished, failed>>

-----------------------------------------------------------------------------
\* The ranks.

\* fixRank: the player of rank i moves past those with more or less chips.
RankUp(r, i) ==
    CHOOSE j \in 1..i :
        /\ \A k \in j..(i - 1) : r.chips[r.order[k]] < r.chips[r.order[i]]
        /\ j > 1 => r.chips[r.order[j - 1]] >= r.chips[r.order[i]]

\* Mutant of RankDown: he moves past those with as many chips, too
RankDownPastEqual(r, i) ==
    CHOOSE j \in i..Len(r.order) :
        /\ \A k \in (i + 1)..j : r.chips[r.order[k]] >= r.chips[r.order[i]]
        /\ j < Len(r.order) =>
             r.chips[r.order[j + 1]] < r.chips[r.order[i]]

RankDown(r, i) ==
    CHOOSE j \in i..Len(r.order) :
        /\ \A k \in (i + 1)..j : r.chips[r.order[k]] > r.chips[r.order[i]]
        /\ j < Len(r.order) =>
             r.chips[r.order[j + 1]] <= r.chips[r.order[i]]

Shifted(s, i, j) ==
    [k \in DOMAIN s |->
       IF k = j THEN s[i]
       ELSE IF i <= k /\ k < j THEN s[k + 1]
       ELSE IF j < k /\ k <= i THEN s[k - 1] ELSE s[k]]

\* Mutant of FixRank: the player moves by one place at most
FixRankByOne(r, i, rise) ==
    [r EXCEPT !.order =
        LET j == IF rise THEN RankUp(r, i) ELSE RankDown(r, i)
        IN  Shifted(@, i, IF j < i THEN i - 1
                          ELSE IF j > i THEN i + 1 ELSE i)]

FixRank(r, i, rise) ==
    [r EXCEPT !.order =
        Shifted(@, i, IF rise THEN RankUp(r, i) ELSE RankDown(r, i))]

Rank(r, p) == CHOOSE i \in DOMAIN r.order : r.order[i] = p

\* doBust, for the players of the bust queue, in turn: from one record of the
\* players to the next
Busted(r, bs) ==
    LET f[k \in 0..Len(bs)] ==
          IF k = 0 THEN {r}
          ELSE {FixRank([old EXCEPT !.chips[bs[k]] = 0], Rank(old, bs[k]),
                        FALSE) : old \in f[k - 1]}
    IN  f[Len(bs)]

\* The rank x and the seat of p are compared.
Compared(old, x, p) ==
    IF old.order[x] # p \/ old.chips[p] = chips[p] THEN old
    ELSE FixRank([old EXCEPT !.chips[p] = chips[p]], x,
                 chips[p] > old.chips[p])

\* handOver's loop over the ranks and, for each, over the seats ys.  A player
\* that moves down leaves his rank to the next one, which the loop then
\* compares with the seats that are left only.
Recorded(r, ys) ==
    LET m == Len(ys)
        f[k \in 0..(Len(r.order) * m)] ==
          IF k = 0 THEN {r}
          ELSE {Compared(old, 1 + ((k - 1) \div m), ys[1 + ((k - 1) % m)]) :
                  old \in f[k - 1]}
    IN  f[Len(r.order) * m]

-----------------------------------------------------------------------------
\* countPlayersPerTable
Occupied == {t \in Tables : Count(t) > 0}
Playing == Cardinality({p \in Players : at[p] # NoTable})
Least == CHOOSE n \in {Count(t) : t \in Occupied} :
            \A t \in Occupied : n <= Count(t)
MinTables == (Playing + PerTable - 1) \div PerTable
TargetPlayers == IF MinTables = 0 THEN 0 ELSE Playing \div MinTables
OneMore == IF TargetPlayers < PerTable THEN TargetPlayers + 1 ELSE PerTable

\* The tables whose lock some other handler has just then (a message of a
\* player, the clock, somebody who comes to watch): to the table itself, that
\* is a delay like any other.
Others == {b \in SUBSET Tables : Cardinality(b) <= MaxOthers}

\* Mutant of EmptyTable: the table's lock may be taken
EmptyTableLocked(n, skip, clear, q, busy) ==
    LET found == {t \in Tables : Count(t) < n /\ t # skip /\ t \notin clear}
    IN  IF found = {} THEN NoTable
        ELSE CHOOSE t \in found : \A x \in found : t <= x

\* findEmptyTable
EmptyTable(n, skip, clear, q, busy) ==
    LET found == {t \in Tables : /\ Count(t) < n /\ t # skip /\ t \notin clear
                                 /\ q[t] = <<>> /\ t \notin busy}
    IN  IF found = {} THEN NoTable
        ELSE CHOOSE t \in found : \A x \in found : t <= x

\* handOver calls doRebalance, which asks for the lock of table d.
Rebalance(t, d, target, kind, q) ==
    /\ job' = [to |-> d, target |-> target, kind |-> kind, moved |-> FALSE]
    /\ queue' = [q EXCEPT ![d] = Append(@, Call("move", t))]
    /\ pc' = [pc EXCEPT ![t] = "move"]

Save(t, q) ==
    /\ job' = NoJob /\ queue' = q
    /\ pc' = [pc EXCEPT ![t] = "save"]

\* The only player left has won; he is to leave the table of the report.
DeclareWinner(t, r) ==
    LET winner == r.order[1]
    IN  /\ finished' = TRUE
        /\ ranking' = r.order
        /\ rec' = [r.chips EXCEPT ![winner] = 0]
        /\ failed' = IF r.chips[winner] # Total THEN "winnerLacksChips"
                     ELSE IF at[winner] # t THEN "leaveOfNobody" ELSE "no"
        /\ Save(t, [queue EXCEPT ![t] = Append(@, Call("leave", NoTable))])
        /\ UNCHANGED <<clearOut, timers>>

\* Who is to be moved from table t, and where to.
Balance(t, busy) ==
    LET tooMany == Cardinality(Occupied) > MinTables /\ Count(t) = Least
        clear == IF tooMany THEN clearOut \cup {t} ELSE clearOut
        d == EmptyTable(OneMore, t, clear, queue, busy)
        e == EmptyTable(TargetPlayers, NoTable, clear, queue, busy)
        tooFull == Count(t) > TargetPlayers /\ Least < TargetPlayers
    IN  /\ clearOut' = clear
        /\ \/ /\ t \in clear /\ d # NoTable
              /\ Rebalance(t, d, OneMore, "first", queue)
              /\ UNCHANGED timers
           \/ /\ t \in clear /\ d = NoTable
              /\ timers' = IF Count(t) # 1 THEN timers
                           ELSE [timers EXCEPT !.rere = @ \cup {t}]
              /\ Save(t, queue)
           \/ /\ t \notin clear /\ tooFull /\ e # NoTable
              /\ Rebalance(t, e, TargetPlayers, "even", queue)
              /\ UNCHANGED timers
           \/ /\ t \notin clear /\ ~(tooFull /\ e # NoTable)
              /\ Save(t, queue)
              /\ UNCHANGED timers

\* handOver, with the lock of the tournament
Decides(t) ==
    /\ failed = "no" /\ tqueue # <<>> /\ Head(tqueue) = t /\ pc[t] = "tourn"
    /\ \E next \in {"move", "save"} : pc' = [pc EXCEPT ![t] = next]

HandOver(t) ==
    /\ Decides(t)
    /\ busts' = [busts EXCEPT ![t] = {}]
    /\ UNCHANGED <<tableVars, chips, paused, tqueue>>
    /\ \E bs \in Orders(busts[t]), ys \in Orders(Members(t)) :
         \E out \in Busted([order |-> ranking, chips |-> rec], bs) :
           \E new \in Recorded(out, ys) :
             IF Cardinality({p \in Players : out.chips[p] > 0}) = 1
             THEN DeclareWinner(t, new)
             ELSE /\ ranking' = new.order /\ rec' = new.chips
                  /\ \E busy \in Others : Balance(t, busy)
                  /\ UNCHANGED <<finished, failed>>

\* doRebalance, with the lock of the other table: a player is a member there
\* at once.  A move that is not forced needs a player and a free seat at the
\* same distance of two or more from their dealers.
Move(t) ==
    LET d == job.to
    IN  /\ pc[t] = "move" /\ ~job.moved
        /\ Has(d, "move") /\ Head(queue[d]).x = t
        /\ \E p \in Members(t) :
             /\ Count(d) < PerTable
             /\ job.kind = "even" => Count(t) > 2 /\ Count(d) >= 2
             /\ at' = [at EXCEPT ![p] = d]
        /\ paused' = paused \cup {t}
        /\ job' = [job EXCEPT !.moved = TRUE]
        /\ UNCHANGED <<hand, won, chips, ranking, rec, busts, clearOut,
                       lockVars, timers, finished, failed>>

\* After a first move, handOver tries another one.
AfterFirst(t, q, busy) ==
    LET d == EmptyTable(job.target, t, clearOut, q, busy)
    IN  IF Count(t) = 0 THEN Save(t, q)
        ELSE IF d # NoTable THEN Rebalance(t, d, job.target, "second", q)
        ELSE Save(t, q)

\* rerebalance is due after a second move, or a missed one.
DueAgain(t, q, busy) ==
    \/ job.kind = "second"
    \/ /\ job.kind = "first" /\ Count(t) > 0
       /\ EmptyTable(job.target, t, clearOut, q, busy) = NoTable

\* The callback of standUp, or of a doRebalance that found nobody to move:
\* the other table's lock is released, and the report goes on.
AfterMove(t) ==
    LET d == job.to
        q == [queue EXCEPT ![d] = Tail(@)]
        none == \/ Members(t) = {}
                \/ job.kind = "even"
    IN  /\ pc[t] = "move" /\ Has(d, "move") /\ Head(queue[d]).x = t
        /\ job.moved \/ none
        /\ \E busy \in Others :
             /\ timers' =
                  [rere |-> IF DueAgain(t, q, busy) THEN timers.rere \cup {t}
                            ELSE timers.rere,
                   post |-> IF job.moved
                            THEN [timers.post EXCEPT ![<<t, d>>] = @ + 1]
                            ELSE timers.post]
             /\ IF job.kind = "first" THEN AfterFirst(t, q, busy)
                ELSE Save(t, q)
        /\ UNCHANGED <<tableVars, chips, ranking, rec, busts, clearOut,
                       paused, tqueue, finished, failed>>

-----------------------------------------------------------------------------
\* stateMachine of an idle table: it deals, unless it is paused or there is
\* nobody to play with.
StateMachine(t, stopped) ==
    LET in == {p \in Members(t) : chips[p] > 0}
    IN  hand' = IF /\ Idle(t) /\ t \notin stopped
                   /\ Cardinality(in) > 1
                THEN [hand EXCEPT ![t] = in] ELSE hand

Release(t) == queue' = [queue EXCEPT ![t] = Tail(@)]

\* The report is over.  finish2 calls the state machine, rerebalance does not.
Reported(t) ==
    /\ IF Head(queue[t]).op = "over" THEN StateMachine(t, paused)
       ELSE UNCHANGED hand
    /\ pc' = [pc EXCEPT ![t] = "none"]
    /\ Release(t)
    /\ UNCHANGED <<at, won, chips, ranking, rec, busts, clearOut, paused,
                   job, timers, finished, failed>>

\* saveChanges: the lock of the tournament is released,
Saved(t) ==
    /\ Up /\ pc[t] = "save" /\ Len(tqueue) = 1
    /\ tqueue' = <<>>
    /\ Reported(t)

\* and if another report waits for it, that one runs up to its first wait
\* before this one goes on.
SavedBefore(t) ==
    /\ Up /\ pc[t] = "save" /\ Len(tqueue) > 1
    /\ tqueue' = Tail(tqueue)
    /\ pc' = [pc EXCEPT ![t] = "done"]
    /\ UNCHANGED <<tableVars, chips, ranking, rec, busts, clearOut, paused,
                   queue, job, timers, finished, failed>>

ReportedAfter(t) ==
    /\ failed = "no" /\ pc[t] = "done" /\ pc[Head(tqueue)] # "tourn"
    /\ Reported(t)
    /\ UNCHANGED tqueue

\* startGames and the second half of postTransfer
Start(t) ==
    /\ Has(t, "start")
    /\ StateMachine(t, paused)
    /\ Release(t)
    /\ UNCHANGED <<at, won, chips, ranking, rec, busts, clearOut, paused,
                   tqueue, pc, job, timers, finished, failed>>

\* Mutant of PostTransfer: the other table is not told
PostTransferOfOne(t) ==
    /\ Has(t, "post")
    /\ paused' = paused \ {t}
    /\ StateMachine(t, paused')
    /\ queue' = [queue EXCEPT ![t] = Tail(@)]
    /\ UNCHANGED <<at, won, chips, ranking, rec, busts, clearOut, tqueue, pc,
                   job, timers, finished, failed>>

\* postTransfer: the table plays on, and then the one the player went to.
PostTransfer(t) ==
    /\ Has(t, "post")
    /\ paused' = paused \ {t}
    /\ StateMachine(t, paused')
    /\ LET d == Head(queue[t]).x
           q == [queue EXCEPT ![t] = Tail(@)]
       IN  queue' = [q EXCEPT ![d] = Append(@, Call("start", NoTable))]
    /\ UNCHANGED <<at, won, chips, ranking, rec, busts, clearOut, tqueue, pc,
                   job, timers, finished, failed>>

\* Game.leave of the winner
LeaveTable(t) ==
    /\ Has(t, "leave")
    /\ at' = [p \in Players |-> IF p \in Members(t) THEN NoTable ELSE at[p]]
    /\ Release(t)
    /\ UNCHANGED <<hand, won, chips, ranking, rec, busts, clearOut, paused,
                   tqueue, pc, job, timers, finished, failed>>

\* The timer of rerebalance runs for one second,
RereTimer(t) ==
    /\ Up /\ t \in timers.rere
    /\ timers' = [timers EXCEPT !.rere = @ \ {t}]
    /\ Ask(t, Call("rere", NoTable))
    /\ UNCHANGED <<tableVars, chips, ranking, rec, busts, clearOut, paused,
                   tqueue, pc, job, finished, failed>>

\* that of postTransfer for five.  A report and those of rerebalance after it
\* make their moves first, unless the table has nobody left to play with and
\* waits for another one to be free.
MovesOn(t) ==
    t \in timers.rere \/ Waiting(t, "rere") \/ Waiting(t, "over")

PostTimer(t, d) ==
    /\ Up /\ timers.post[<<t, d>>] > 0
    /\ MovesOn(t) => Count(t) <= 1
    /\ timers' = [timers EXCEPT !.post[<<t, d>>] = @ - 1]
    /\ Ask(t, Call("post", d))
    /\ UNCHANGED <<tableVars, chips, ranking, rec, busts, clearOut, paused,
                   tqueue, pc, job, finished, failed>>

-----------------------------------------------------------------------------
Report(t) ==
    \/ BeginOver(t) \/ (\E p \in Players : StandUpBust(t, p))
    \/ ReportOver(t) \/ ReportAgain(t) \/ Move(t) \/ AfterMove(t)
    \/ Saved(t) \/ SavedBefore(t) \/ ReportedAfter(t)

\* What the holder of the lock of a table does, but for HandOver
Held(t) == Report(t) \/ Start(t) \/ PostTransfer(t) \/ LeaveTable(t)

Timer(t) ==
    RereTimer(t) \/ (\E d \in Tables : PostTimer(t, d))

Next ==
    \E t \in Tables : PlayHand(t) \/ HandOver(t) \/ Held(t) \/ Timer(t)

Spec == Init /\ [][Next]_vars

\* Holders go on, timers fire, and a hand ends: the clock sees to that.
FairSpec ==
    /\ Spec
    /\ \A t \in Tables :
         /\ WF_vars(Held(t)) /\ WF_vars(Timer(t))
         /\ WF_hand(HandEnds(t)) /\ WF_pc(Decides(t))
-----------------------------------------------------------------------------
TypeOK ==
    /\ at \in [Players -> Tables \cup {NoTable}]
    /\ chips \in [Players -> 0..Total] /\ rec \in [Players -> 0..Total]
    /\ ranking \in Orders(Players)
    /\ hand \in [Tables -> SUBSET Players] /\ won \subseteq Tables
    /\ busts \in [Tables -> SUBSET Players]
    /\ clearOut \subseteq Tables /\ paused \subseteq Tables
    /\ queue \in [Tables -> Seq(Calls)] /\ tqueue \in Seq(Tables)
    /\ pc \in [Tables -> Pcs] /\ job \in Jobs
    /\ timers.rere \subseteq Tables
    /\ timers.post \in [Tables \X Tables -> Nat]
    /\ finished \in BOOLEAN

\* Whoever has the lock of the tournament never waits for that of a table:
\* the table a player is moved to is free when handOver chooses it.  (Two
\* reports that waited for each other's locks would stop the tournament.)
NobodyIsWaitedFor ==
    \A t \in Tables :
        pc[t] = "move" => Head(queue[job.to]) = Call("move", t)

\* The place a player is told when he is out, and paid for, is his place for
\* good: neither those who are out after him, nor the chips of the others that
\* are put right late, nor a hand of another table that ends meanwhile move him.
PlaceOf(p) == CHOOSE i \in DOMAIN ranking : ranking[i] = p
PlacesStand ==
    [][\A p \in Players : rec[p] = 0 => PlaceOf(p)' = PlaceOf(p)]_<<ranking, rec>>

\* handOver's assertion, and the connection that it reads, hold: the only
\* player left is the first of the ranks, has every chip of the tournament
\* on the books, and sits at the table whose hand was the last.
WinnerHasAll == failed = "no"

\* An idle table with two players or more plays on, or is taken apart.
TablesPlayOn ==
    \A t \in Tables :
        Idle(t) /\ Count(t) > 1 ~> hand[t] # {} \/ Count(t) < 2

\* "merge tables or declare winner, handled in handOver below"
\* (game.js:1871): players who are each alone at a table are brought together.
\* They are not when every one of their tables is to be taken apart.
AllLone == ~finished /\ \A t \in Occupied : Count(t) = 1
MergedOrWon == AllLone ~> ~AllLone
=============================================================================
