------------------------- MODULE ClockSessionProofs -------------------------
(***************************************************************************)
(* Proofs about the two components whose actors are timers and sockets.    *)
(*                                                                         *)
(* TurnClock, for every number of seats, streets and waiting calls: the    *)
(* clock that runs is that of the turn, whoever has the turn is timed, and *)
(* DING forces nobody out of turn, until a late dealTimer moves the turn.  *)
(*                                                                         *)
(* ServerSession, for any number of connections and whatever the clients   *)
(* send: the socket the server knows a user by is logged in, and, until a  *)
(* logout is late, no other socket that is open is.                        *)
(***************************************************************************)
EXTENDS TurnClock, ServerSession, SequenceTheorems, TLAPS

(***************************************************************************)
(* The clock of the turn.                                                  *)
(***************************************************************************)
\* Somebody has the turn if and only if a hand is on, and he is in it.
TurnIsInHand ==
    /\ turn # NoSeat => turn \in live
    /\ (turn = NoSeat) <=> (street \in {0, Winning})

\* TurnIsTimed, also while a callback that starts no clock holds the lock.
Timed == timer # NoTimer /\ (timer.at = "rung" => Waits("ding", turn))
TimedOrStarting ==
    ~failed /\ holder # "start" /\ turn # NoSeat /\ ~stopped /\ ~moved => Timed

\* The inductive invariant.
ClockInv == TypeOK /\ TurnIsInHand /\ ClockIsOfTheTurn

-----------------------------------------------------------------------------
\* A clock that runs is that of a seat.
LEMMA ClockOfSeat ==
    ASSUME timer \in Clocks, timer # NoTimer
    PROVE  timer.seat \in Seats
BY ClockAssumption DEF Clocks, NoTimer

\* The clock that startTimer starts is a clock.
LEMMA StartedIsClock ==
    ASSUME NEW s \in Seats
    PROVE  /\ Started(s) \in Clocks
           /\ Started(s).seat = s
           /\ Started(s).at = "started"
           /\ Started(s) # NoTimer
BY ClockAssumption DEF Started, Clocks, NoTimer

\* A closure that is appended leaves a queue of closures.
LEMMA AskType ==
    ASSUME queue \in Seq(Calls), NEW op, NEW s, Ask(op, s),
           [op |-> op, seat |-> s] \in Calls
    PROVE  /\ queue' \in Seq(Calls)
           /\ Waiting' = Waiting \cup {[op |-> op, seat |-> s]}
<1> DEFINE c == [op |-> op, seat |-> s]
<1>1. queue' = Append(queue, c)
  BY DEF Ask
<1>2. /\ queue' \in Seq(Calls)
      /\ Len(queue') = Len(queue) + 1
      /\ \A i \in 1..Len(queue) : queue'[i] = queue[i]
      /\ queue'[Len(queue) + 1] = c
  <2> HIDE DEF c
  <2> QED BY <1>1, c \in Calls, AppendProperties DEF c
<1>3. DOMAIN queue = 1..Len(queue) /\ DOMAIN queue' = 1..(Len(queue) + 1)
  BY <1>2, LenProperties
<1>4. Len(queue) \in Nat
  BY LenProperties
<1> QED BY <1>2, <1>3, <1>4 DEF Waiting

\* The queue without the closure that is run.
LEMMA TailType ==
    ASSUME queue \in Seq(Calls), queue # <<>>, queue' = Tail(queue)
    PROVE  /\ queue' \in Seq(Calls)
           /\ Head(queue) \in Calls
           /\ \A c \in Waiting : c # Head(queue) => c \in Waiting'
<1>1. /\ Tail(queue) \in Seq(Calls) /\ Head(queue) = queue[1]
      /\ Len(queue) \in Nat \ {0}
      /\ Len(queue') = Len(queue) - 1
      /\ \A i \in 1..Len(queue') : queue'[i] = queue[i + 1]
  BY HeadTailProperties, EmptySeq, LenProperties
<1>2. DOMAIN queue = 1..Len(queue) /\ DOMAIN queue' = 1..Len(queue')
  BY <1>1, LenProperties
<1>3. Head(queue) \in Calls
  BY <1>1, ElementOfSeq
<1>4. ASSUME NEW i \in DOMAIN queue, queue[i] # Head(queue)
      PROVE  queue[i] \in Waiting'
  <2>1. i - 1 \in DOMAIN queue' /\ queue'[i - 1] = queue[i]
    BY <1>1, <1>2, <1>4
  <2> QED BY <2>1 DEF Waiting
<1> QED BY <1>1, <1>3, <1>4 DEF Waiting

-----------------------------------------------------------------------------
\* A move leaves nobody on turn who is not in the hand.
LEMMA PassTurnOK ==
    ASSUME ClockInv, NEW s, s = turn, turn # NoSeat,
           NEW in2 \in SUBSET live, PassTurn(s, in2)
    PROVE  /\ live' \in SUBSET in2
           /\ turn' \in Seats \cup {NoSeat}
           /\ street' \in 0..Winning
           /\ TurnIsInHand'
<1> USE ClockAssumption DEF ClockInv, TypeOK, TurnIsInHand, Winning
<1>1. CASE HandOver
  BY <1>1 DEF HandOver
<1>2. CASE /\ live' = in2
           /\ \E t \in in2 :
                /\ turn' = t
                /\ \/ t # s /\ street' = street
                   \/ street < Streets /\ street' = street + 1
  <2>1. turn' \in in2 /\ turn' \in Seats
    BY <1>2
  <2>2. street' \in 1..Streets
    BY <1>2
  <2> QED BY <1>2, <2>1, <2>2
<1> QED BY <1>1, <1>2 DEF PassTurn

\* A clock that has been stopped, and one that runs on in a hand where
\* nothing has moved, are in order.
LEMMA ClockKept ==
    ASSUME ClockInv, moved => moved', holder # "start",
           timer' = NoTimer \/ UNCHANGED <<timer, turn, live>>
    PROVE  timer' \in Clocks /\ ClockIsOfTheTurn'
BY DEF ClockInv, TypeOK, Clocks, ClockIsOfTheTurn

\* So does a fold, on turn or not; and the seat has left the hand.
LEMMA FoldSeatOK ==
    ASSUME ClockInv, NEW s, FoldSeat(s)
    PROVE  /\ live' \in SUBSET (live \ {s})
           /\ turn' \in Seats \cup {NoSeat}
           /\ street' \in 0..Winning
           /\ TurnIsInHand'
           /\ timer' = NoTimer
           /\ refused' = FALSE
<1>1. s \in live /\ timer' = NoTimer /\ refused' = FALSE
  BY DEF FoldSeat
<1>2. s \in Seats /\ s # NoSeat
  BY <1>1, ClockAssumption DEF ClockInv, TypeOK
<1>3. CASE s = turn
  <2>1. PassTurn(s, live \ {s})
    BY <1>3 DEF FoldSeat
  <2> QED BY <1>1, <1>2, <1>3, <2>1, PassTurnOK
<1>4. CASE s # turn /\ HandOver
  BY <1>1, <1>4, ClockAssumption DEF HandOver, TurnIsInHand, Winning
<1>5. CASE s # turn /\ live' = live \ {s} /\ UNCHANGED <<turn, street>>
  BY <1>1, <1>5 DEF ClockInv, TypeOK, TurnIsInHand
<1> QED BY <1>3, <1>4, <1>5 DEF FoldSeat

\* standUp, whether it folds or not.
LEMMA DepartedOK ==
    ASSUME ClockInv, NEW s \in Seats, Departed(s)
    PROVE  /\ seated' \in SUBSET Seats /\ live' \in SUBSET seated'
           /\ turn' \in Seats \cup {NoSeat} /\ street' \in 0..Winning
           /\ TurnIsInHand'
           /\ timer' = NoTimer \/ UNCHANGED <<timer, turn, live>>
           /\ refused' \in BOOLEAN
<1>1. seated' = seated \ {s}
  BY DEF Departed
<1>2. CASE FoldSeat(s)
  BY <1>1, <1>2, FoldSeatOK DEF ClockInv, TypeOK
<1>3. CASE s \notin live /\ UNCHANGED <<live, turn, street, timer, refused>>
  BY <1>1, <1>3 DEF ClockInv, TypeOK, TurnIsInHand
<1> QED BY <1>2, <1>3 DEF Departed

\* An accepted move.
LEMMA MoveOK ==
    ASSUME ClockInv, NEW s, s = turn, turn # NoSeat,
           NEW in2 \in SUBSET live, Move(s, in2),
           queue' \in Seq(Calls)
    PROVE  ClockInv'
<1>1. PassTurn(s, in2) /\ timer' = NoTimer /\ holder' = "start"
      /\ refused' = FALSE /\ stopped' = FALSE
      /\ UNCHANGED <<seated, dealTimer, failed, moved>>
  BY DEF Move
<1>2. /\ live' \in SUBSET in2 /\ turn' \in Seats \cup {NoSeat}
      /\ street' \in 0..Winning /\ TurnIsInHand'
  BY <1>1, PassTurnOK
<1>3. timer' \in Clocks /\ ClockIsOfTheTurn'
  BY <1>1 DEF Clocks, ClockIsOfTheTurn
<1> QED BY <1>1, <1>2, <1>3 DEF ClockInv, TypeOK, Holders

\* DING of a clock that runs finds its seat on turn, unless the turn has been
\* moved from it.
LEMMA DingOnTurn ==
    ASSUME ClockInv, NEW s \in Seats, timer.seat = s, holder = "free"
    PROVE  timer # NoTimer /\ (turn = s \/ moved)
BY ClockAssumption DEF NoTimer, ClockInv, ClockIsOfTheTurn

\* deal, at a table where nobody has the turn: a clock that still runs is one
\* that a late dealTimer has left behind.
LEMMA DealOK ==
    ASSUME ClockInv, turn = NoSeat, Deal, queue' \in Seq(Calls)
    PROVE  ClockInv'
<1>1. PICK players \in SUBSET seated :
         live' = players /\ \E x \in players : turn' = x
  BY DEF Deal
<1>2. /\ street' = 1 /\ holder' = "start" /\ refused' = FALSE
      /\ stopped' = FALSE /\ UNCHANGED <<seated, timers, failed, moved>>
  BY DEF Deal
<1>3. /\ live' \in SUBSET seated' /\ turn' \in live' /\ turn' \in Seats
      /\ turn' # NoSeat
  BY <1>1, <1>2, ClockAssumption DEF ClockInv, TypeOK
<1>4. street' \in 0..Winning /\ street' \notin {0, Winning}
  BY <1>2, ClockAssumption DEF Winning
<1>5. ClockIsOfTheTurn'
  <2>1. timer # NoTimer => moved
    BY ClockAssumption DEF ClockInv, TypeOK, ClockIsOfTheTurn
  <2> QED BY <1>2, <2>1 DEF ClockIsOfTheTurn, timers
<1> QED BY <1>2, <1>3, <1>4, <1>5
        DEF ClockInv, TypeOK, TurnIsInHand, Holders, timers

\* A dealTimer that comes late moves the turn, and says so.
LEMMA LateDealOK ==
    ASSUME ClockInv, street \notin {0, Winning}, holder = "free", LateDeal,
           queue' \in Seq(Calls)
    PROVE  ClockInv'
<1> USE ClockAssumption DEF ClockInv, TypeOK
<1>0. holder # "start" /\ turn # NoSeat
  BY DEF TurnIsInHand
<1>1. /\ moved' = (moved \/ turn' # turn) /\ refused' = FALSE
      /\ holder' = "keep" /\ UNCHANGED <<seated, timers, stopped>>
  BY DEF LateDeal
<1>2. CASE HandOver /\ UNCHANGED failed
  <2>1. live' = {} /\ turn' = NoSeat /\ street' = Winning
    BY <1>2 DEF HandOver
  <2>2. moved'
    BY <1>1, <2>1 DEF TurnIsInHand
  <2>3. Winning \in 0..Winning
    BY DEF Winning
  <2> QED BY <1>1, <1>2, <2>1, <2>2, <2>3
          DEF TurnIsInHand, ClockIsOfTheTurn, Holders, timers
<1>3. CASE /\ turn' \in live
           /\ street' \in {street, street + 1} \ {Winning}
           /\ UNCHANGED <<live, failed>>
  <2>1. turn' \in Seats /\ turn' # NoSeat
    BY <1>3
  <2>2. street' \in 0..Winning /\ street' \notin {0, Winning}
    BY <1>3 DEF Winning
  <2>3. CASE turn' = turn
    <3>1. moved' = moved /\ moved' \in BOOLEAN
      BY <1>1, <2>3
    <3> QED BY <1>1, <1>3, <2>1, <2>2, <2>3, <3>1
            DEF TurnIsInHand, ClockIsOfTheTurn, Holders, timers
  <2>4. CASE turn' # turn
    <3>1. moved' = TRUE
      BY <1>1, <2>4
    <3>2. timer # NoTimer => timer.seat \in live
      BY <1>0 DEF TurnIsInHand, ClockIsOfTheTurn
    <3> QED BY <1>1, <1>3, <2>1, <2>2, <3>1, <3>2
            DEF TurnIsInHand, ClockIsOfTheTurn, Holders, timers
  <2> QED BY <2>3, <2>4
<1>4. CASE failed' = TRUE /\ UNCHANGED <<live, turn, street>>
  BY <1>1, <1>4 DEF TurnIsInHand, ClockIsOfTheTurn, Holders, timers
<1> QED BY <1>2, <1>3, <1>4 DEF LateDeal

\* Every call that is given the lock keeps the invariant.
LEMMA GrantOK ==
    ASSUME ClockInv, Grant
    PROVE  ClockInv'
<1> DEFINE s == Head(queue).seat
<1>1. /\ queue' = Tail(queue) /\ queue # <<>> /\ holder = "free" /\ ~failed
      /\ queue \in Seq(Calls)
  BY DEF Grant, ClockInv, TypeOK
<1>2. queue' \in Seq(Calls) /\ Head(queue) \in Calls
  BY <1>1, TailType
<1>3. \/ s \in Seats /\ Head(queue).op \in SeatOps
      \/ Head(queue).op \in TableOps
  BY <1>2 DEF Calls
<1>4. ASSUME Reject PROVE ClockInv'
  BY <1>2, <1>4 DEF Reject, handVars, timers, history, ClockInv, TypeOK,
                    TurnIsInHand, ClockIsOfTheTurn
<1>5. CASE s \in Seats /\ Head(queue).op = "bet" /\ GrantBet(s)
  <2>1. CASE s # turn
    BY <1>4, <1>5, <2>1 DEF GrantBet
  <2>2. CASE s = turn /\ Move(s, live)
    <3>1. turn # NoSeat
      BY <1>5, <2>2, ClockAssumption
    <3> HIDE DEF s
    <3> QED BY <1>2, <2>2, <3>1, MoveOK
  <2>3. CASE /\ s = turn /\ timer' = Started(turn)
             /\ refused' = TRUE /\ stopped' = FALSE /\ moved' = FALSE
             /\ UNCHANGED <<handVars, dealTimer, holder, failed>>
    <3>1. turn \in live /\ Started(turn) \in Clocks /\ Started(turn).seat = turn
      BY <1>5, <2>3, ClockAssumption, StartedIsClock
         DEF ClockInv, TurnIsInHand
    <3> QED BY <1>2, <2>3, <3>1 DEF handVars, ClockInv, TypeOK, TurnIsInHand,
                                    ClockIsOfTheTurn
  <2> QED BY <1>5, <2>1, <2>2, <2>3 DEF GrantBet
<1>6. CASE s \in Seats /\ Head(queue).op = "fold" /\ GrantFold(s)
  <2>1. CASE s # turn
    BY <1>4, <1>6, <2>1 DEF GrantFold
  <2>2. CASE s = turn /\ Move(s, live \ {s})
    <3>1. turn # NoSeat
      BY <1>6, <2>2, ClockAssumption
    <3> HIDE DEF s
    <3> QED BY <1>2, <2>2, <3>1, MoveOK
  <2> QED BY <1>6, <2>1, <2>2 DEF GrantFold
<1>7. CASE s \in Seats /\ Head(queue).op = "leave" /\ GrantLeave(s)
  <2>1. CASE s \notin seated
    BY <1>4, <1>7, <2>1 DEF GrantLeave
  <2>2. CASE /\ Departed(s) /\ UNCHANGED <<failed, moved>>
             /\ stopped' = (stopped /\ s \notin live)
             /\ holder' = IF s \in live THEN "start" ELSE "keep"
             /\ dealTimer' \in {dealTimer, FALSE}
    <3> HIDE DEF s
    <3>1. timer' \in Clocks /\ ClockIsOfTheTurn'
      BY <1>1, <1>7, <2>2, DepartedOK, ClockKept
    <3> QED BY <1>2, <1>7, <2>2, <3>1, DepartedOK DEF ClockInv, TypeOK, Holders
  <2> QED BY <1>7, <2>1, <2>2 DEF GrantLeave
<1>8. CASE s \in Seats /\ Head(queue).op = "eject" /\ GrantEject(s)
  <2>1. CASE s \notin seated
    BY <1>4, <1>8, <2>1 DEF GrantEject
  <2>2. CASE /\ Departed(s) /\ UNCHANGED <<dealTimer, failed, moved>>
             /\ stopped' = IF s \in live THEN turn' # NoSeat ELSE stopped
             /\ holder' = "keep"
    <3> HIDE DEF s
    <3>1. timer' \in Clocks /\ ClockIsOfTheTurn'
      BY <1>1, <1>8, <2>2, DepartedOK, ClockKept
    <3> QED BY <1>2, <1>8, <2>2, <3>1, DepartedOK DEF ClockInv, TypeOK, Holders
  <2> QED BY <1>8, <2>1, <2>2 DEF GrantEject
<1>9. CASE s \in Seats /\ Head(queue).op = "ding" /\ GrantDing(s)
  <2>1. CASE /\ failed' = TRUE
             /\ UNCHANGED <<handVars, timers, holder, history>>
    BY <1>2, <2>1 DEF handVars, timers, history, ClockInv, TypeOK,
                      TurnIsInHand, ClockIsOfTheTurn
  <2>2. CASE ForceMove(s)
    <3> HIDE DEF s
    <3>1. CASE /\ timer' = NoTimer
               /\ UNCHANGED <<handVars, dealTimer, holder, failed, history>>
      BY <1>2, <3>1 DEF handVars, history, ClockInv, TypeOK, TurnIsInHand,
                        ClockIsOfTheTurn, Clocks
    <3>2. CASE turn = s /\ Move(s, live)
      <4>1. turn # NoSeat
        BY <1>9, <3>2, ClockAssumption
      <4> QED BY <1>2, <3>2, <4>1, MoveOK
    <3>3. CASE /\ FoldSeat(s) /\ holder' = "start" /\ stopped' = FALSE
               /\ UNCHANGED <<seated, dealTimer, failed, moved>>
      <4>1. timer' \in Clocks /\ ClockIsOfTheTurn'
        BY <3>3, FoldSeatOK DEF ClockIsOfTheTurn, Clocks
      <4> QED BY <1>2, <3>3, <4>1, FoldSeatOK DEF ClockInv, TypeOK, Holders
    <3> QED BY <2>2, <3>1, <3>2, <3>3 DEF ForceMove
  <2> QED BY <1>9, <2>1, <2>2 DEF GrantDing
<1>10. CASE s \in Seats /\ Head(queue).op = "sit" /\ GrantSit(s)
  <2>1. CASE s \in seated
    BY <1>4, <1>10, <2>1 DEF GrantSit
  <2>2. CASE /\ seated' = seated \cup {s} /\ holder' = "keep"
             /\ UNCHANGED <<live, turn, street, timers, failed, history>>
    <3> HIDE DEF s
    <3> QED BY <1>1, <1>2, <1>10, <2>2
            DEF timers, history, ClockInv, TypeOK, TurnIsInHand,
                ClockIsOfTheTurn, Holders
  <2> QED BY <1>10, <2>1, <2>2 DEF GrantSit
<1>11. CASE s \in Seats /\ Head(queue).op = "play" /\ GrantPlay(s)
  <2>1. CASE Reject
    BY <1>4, <2>1
  <2>2. CASE /\ s \in seated \ live /\ holder' = "keep"
             /\ seated' \in {seated, seated \ {s}} /\ dealTimer' \in BOOLEAN
             /\ UNCHANGED <<live, turn, street, timer, failed, history>>
    <3> HIDE DEF s
    <3> QED BY <1>1, <1>2, <1>11, <2>2
            DEF history, ClockInv, TypeOK, TurnIsInHand, ClockIsOfTheTurn,
                Holders
  <2>3. dealTimer \in BOOLEAN
    BY DEF ClockInv, TypeOK
  <2> HIDE DEF s
  <2> QED BY <1>11, <2>1, <2>2, <2>3 DEF GrantPlay
<1>12. CASE GrantDeal
  <2>1. CASE street = 0
    BY <1>2, <1>4, <1>12, <2>1, DealOK DEF GrantDeal, ClockInv, TurnIsInHand
  <2>2. CASE street = Winning /\ street # 0
    BY <1>4, <1>12, <2>2 DEF GrantDeal
  <2>3. CASE street \notin {0, Winning}
    BY <1>1, <1>2, <1>12, <2>3, LateDealOK DEF GrantDeal
  <2> QED BY <2>1, <2>2, <2>3
<1>13. CASE GrantNext
  <2>1. turn = NoSeat
    BY <1>13 DEF GrantNext, ClockInv, TurnIsInHand
  <2>2. CASE Deal
    BY <1>2, <2>1, <2>2, DealOK
  <2>3. CASE /\ street' = 0 /\ holder' = "keep"
             /\ UNCHANGED <<seated, live, turn, timers, failed, history>>
    <3>1. 0 \in 0..Winning
      BY ClockAssumption DEF Winning
    <3> QED BY <1>1, <1>2, <2>1, <2>3, <3>1
            DEF timers, history, ClockInv, TypeOK, TurnIsInHand,
                ClockIsOfTheTurn, Holders
  <2> QED BY <1>13, <2>2, <2>3 DEF GrantNext
<1>14. CASE GrantBack
  BY <1>2, <1>4, <1>14, DealOK DEF GrantBack, ClockInv, TurnIsInHand
<1> QED
  <2> HIDE DEF ClockInv
  <2> QED BY <1>3, <1>5, <1>6, <1>7, <1>8, <1>9, <1>10, <1>11, <1>12, <1>13,
             <1>14 DEF Grant, SeatOps, TableOps

\* The clock of a turn is that of a seat in the hand, at every step.
LEMMA ClockStep ==
    ASSUME ClockInv, [Next]_vars
    PROVE  ClockInv'
<1> USE DEF ClockInv, TypeOK, TurnIsInHand, ClockIsOfTheTurn
<1>1. ASSUME NEW call \in Calls, Call(call.op, call.seat)
      PROVE  ClockInv'
  <2>1. [op |-> call.op, seat |-> call.seat] \in Calls /\ Ask(call.op, call.seat)
    BY <1>1 DEF Call
  <2>2. queue' \in Seq(Calls)
    BY <2>1, AskType
  <2> QED BY <1>1, <2>2 DEF Call, handVars, timers, history
<1>2. CASE Tick
  <2>1. timer # NoTimer
    BY <1>2 DEF Tick, NoTimer
  <2>2. timer' \in Clocks /\ timer'.seat = timer.seat
    BY <1>2, <2>1 DEF Tick, Clocks
  <2> QED BY <1>2, <2>1, <2>2 DEF Tick, handVars, history
<1>3. CASE Ring
  <2>1. timer # NoTimer
    BY <1>3 DEF Ring, NoTimer
  <2>2. timer' \in Clocks /\ timer'.seat = timer.seat
    BY <1>3, <2>1 DEF Ring, Clocks
  <2>3. timer.seat \in Seats
    BY <2>1, ClockOfSeat
  <2>4. [op |-> "ding", seat |-> timer.seat] \in Calls
    BY <2>3 DEF Calls, SeatOps
  <2>5. queue' \in Seq(Calls)
    BY <1>3, <2>4, AskType DEF Ring
  <2> QED BY <1>3, <2>1, <2>2, <2>5 DEF Ring, handVars, history
<1>4. CASE Grant
  BY <1>4, GrantOK
<1>5. CASE Callback
  <2>1. CASE holder = "start" /\ turn # NoSeat
    <3>1. Started(turn) \in Clocks /\ Started(turn).seat = turn
      BY <2>1, StartedIsClock
    <3> QED BY <1>5, <2>1, <3>1 DEF Callback, handVars, Holders
  <2>2. CASE ~(holder = "start" /\ turn # NoSeat)
    BY <1>5, <2>2 DEF Callback, handVars, Holders
  <2> QED BY <2>1, <2>2
<1>6. CASE UNCHANGED vars
  BY <1>6 DEF vars, handVars, timers, history
<1>7. CASE CallNext \/ CallDeal
  <2>1. queue' \in Seq(Calls)
    BY <1>7, AskType DEF CallNext, CallDeal, Calls, TableOps
  <2> QED BY <1>7, <2>1 DEF CallNext, CallDeal, handVars, timers, history
<1> QED BY <1>1, <1>2, <1>3, <1>4, <1>5, <1>6, <1>7 DEF Next

\* Before the first hand there is no clock and no turn.
LEMMA ClockInit == ASSUME Init PROVE ClockInv
<1>1. queue \in Seq(Calls)
  BY EmptySeq DEF Init
<1>2. TypeOK
  <2>1. /\ seated \in SUBSET Seats /\ live \in SUBSET seated
        /\ turn \in Seats \cup {NoSeat} /\ street \in 0..Winning
        /\ timer \in Clocks /\ holder \in Holders
    BY ClockAssumption DEF Init, Clocks, Holders, Winning
  <2>2. {dealTimer, failed, refused, stopped, moved} \subseteq BOOLEAN
    BY DEF Init
  <2> QED BY <1>1, <2>1, <2>2 DEF TypeOK
<1>3. TurnIsInHand /\ ClockIsOfTheTurn
  BY DEF Init, TurnIsInHand, ClockIsOfTheTurn
<1> QED BY <1>2, <1>3 DEF ClockInv

\* startTimer and stopTimer: a clock that runs is that of the seat on turn,
\* or, until the next one is started, of the seat a late dealTimer has taken
\* the turn from.
THEOREM ClockFollowsTurn == Spec => []ClockIsOfTheTurn
<1>1. Init => ClockInv
  BY ClockInit
<1>2. ClockInv /\ [Next]_vars => ClockInv'
  BY ClockStep
<1>3. ClockInv => ClockIsOfTheTurn
  BY DEF ClockInv
<1> QED BY <1>1, <1>2, <1>3, PTL DEF Spec
-----------------------------------------------------------------------------
\* game.js:2568-2599: DING makes no move but that of the seat on turn, unless
\* a late dealTimer has moved the turn while its clock ran.
THEOREM DingForcesTheTurn == Spec => ForcedInTurn
<1>1. ASSUME ClockInv, [Next]_vars
      PROVE  [ queue # <<>> /\ Head(queue).op = "ding" /\ queue' = Tail(queue)
                 => Head(queue).seat = turn \/ UNCHANGED handVars \/ moved ]_vars
  <2>1. CASE \/ \E call \in Calls : Call(call.op, call.seat)
             \/ CallNext \/ CallDeal
             \/ Tick \/ Ring \/ Callback \/ UNCHANGED vars
    BY <2>1 DEF Call, CallNext, CallDeal, Tick, Ring, Callback, vars
  <2>2. ASSUME Grant, Head(queue).op = "ding"
        PROVE  Head(queue).seat = turn \/ UNCHANGED handVars \/ moved
    <3>1. GrantDing(Head(queue).seat)
      BY <2>2 DEF Grant
    <3>2. Head(queue) \in Calls
      BY <1>1, <2>2, TailType DEF Grant, ClockInv, TypeOK
    <3>3. Head(queue).seat \in Seats
      BY <2>2, <3>2 DEF Calls, TableOps
    <3>4. CASE timer.seat = Head(queue).seat
      BY <1>1, <2>2, <3>3, <3>4, DingOnTurn DEF Grant
    <3>5. CASE timer.seat # Head(queue).seat
      BY <3>1, <3>5 DEF GrantDing
    <3> QED BY <3>4, <3>5
  <2> QED BY <1>1, <2>1, <2>2 DEF Next
<1>2. ClockInv /\ [Next]_vars => ClockInv'
  BY ClockStep
<1>3. Init => ClockInv
  BY ClockInit
<1> QED BY <1>1, <1>2, <1>3, PTL DEF Spec, ForcedInTurn

-----------------------------------------------------------------------------
\* What does not touch the turn and its clock, and takes no DING of the turn
\* from the queue, leaves the turn timed.
LEMMA TimedStays ==
    ASSUME Timed, UNCHANGED <<turn, timer>>,
           \A c \in Waiting : c.op = "ding" => c \in Waiting'
    PROVE  Timed'
BY DEF Timed, Waits

\* Whoever has the turn stays timed when a call is given the lock.
LEMMA GrantTimed ==
    ASSUME ClockInv, TimedOrStarting, Grant
    PROVE  TimedOrStarting'
<1> DEFINE s == Head(queue).seat
<1>1. /\ queue' = Tail(queue) /\ queue # <<>> /\ holder = "free" /\ ~failed
      /\ queue \in Seq(Calls)
  BY DEF Grant, ClockInv, TypeOK
<1>2. /\ Head(queue) \in Calls
      /\ \A c \in Waiting : c # Head(queue) => c \in Waiting'
  BY <1>1, TailType
<1>3. turn # NoSeat /\ ~stopped /\ ~moved => Timed
  BY <1>1 DEF TimedOrStarting
<1>4. ASSUME Head(queue).op # "ding", UNCHANGED <<turn, timer>>,
             ~stopped' => ~stopped, ~moved' => ~moved
      PROVE  TimedOrStarting'
  <2>1. \A c \in Waiting : c.op = "ding" => c \in Waiting'
    BY <1>2, <1>4
  <2> QED BY <1>3, <1>4, <2>1, TimedStays DEF TimedOrStarting
<1>5. ASSUME holder' = "start" PROVE TimedOrStarting'
  BY <1>5 DEF TimedOrStarting
<1>6. CASE Head(queue).op = "bet" /\ GrantBet(s)
  <2>1. CASE Reject
    BY <1>4, <1>6, <2>1 DEF Reject, handVars, timers, history
  <2>2. CASE Move(s, live)
    BY <1>5, <2>2 DEF Move
  <2>3. CASE s = turn /\ timer' = Started(turn)
    <3>1. CASE turn \in Seats
      BY <2>3, <3>1, StartedIsClock, <1>6 DEF TimedOrStarting, Timed
    <3>2. CASE turn \notin Seats
      BY <1>2, <1>6, <2>3, <3>2 DEF Calls, TableOps
    <3> QED BY <3>1, <3>2
  <2> HIDE DEF s
  <2> QED BY <1>6, <2>1, <2>2, <2>3 DEF GrantBet
<1>7. CASE Head(queue).op = "fold" /\ GrantFold(s)
  <2>1. CASE Reject
    BY <1>4, <1>7, <2>1 DEF Reject, handVars, timers, history
  <2>2. CASE Move(s, live \ {s})
    BY <1>5, <2>2 DEF Move
  <2> HIDE DEF s
  <2> QED BY <1>7, <2>1, <2>2 DEF GrantFold
<1>8. CASE Head(queue).op = "leave" /\ GrantLeave(s)
  <2>1. CASE Reject
    BY <1>4, <1>8, <2>1 DEF Reject, handVars, timers, history
  <2>2. CASE s \in live /\ ~Reject
    BY <1>5, <1>8, <2>2 DEF GrantLeave
  <2>3. CASE s \notin live /\ ~Reject
    <3>1. /\ UNCHANGED <<turn, timer, moved>>
          /\ stopped' = (stopped /\ s \notin live)
      BY <1>8, <2>3 DEF GrantLeave, Departed, FoldSeat
    <3> QED BY <1>4, <1>8, <2>3, <3>1
  <2> QED BY <2>1, <2>2, <2>3
<1>9. CASE Head(queue).op = "eject" /\ GrantEject(s)
  <2>1. CASE Reject
    BY <1>4, <1>9, <2>1 DEF Reject, handVars, timers, history
  <2>2. CASE s \in live /\ ~Reject
    <3>1. stopped' = (turn' # NoSeat)
      BY <1>9, <2>2 DEF GrantEject
    <3> QED BY <3>1 DEF TimedOrStarting
  <2>3. CASE s \notin live /\ ~Reject
    <3>1. UNCHANGED <<turn, timer, stopped, moved>>
      BY <1>9, <2>3 DEF GrantEject, Departed, FoldSeat
    <3> QED BY <1>4, <1>9, <3>1
  <2> QED BY <2>1, <2>2, <2>3
<1>10. CASE Head(queue).op = "ding" /\ GrantDing(s)
  <2>1. CASE failed'
    BY <2>1 DEF TimedOrStarting
  <2>2. CASE timer.seat = s /\ ForceMove(s)
    <3>1. s \in Seats
      BY <1>2, <1>10 DEF Calls, TableOps
    <3>2. turn = s \/ moved
      BY <1>1, <2>2, <3>1, DingOnTurn
    <3>3. holder' = "start" \/ (turn # s /\ UNCHANGED moved)
      BY <2>2 DEF ForceMove, Move, history
    <3> QED BY <3>2, <3>3 DEF TimedOrStarting
  <2> QED BY <1>10, <2>1, <2>2 DEF GrantDing
<1>11. CASE Head(queue).op = "sit" /\ GrantSit(s)
  BY <1>4, <1>11 DEF GrantSit, Reject, handVars, timers, history
<1>12. CASE Head(queue).op = "play" /\ GrantPlay(s)
  BY <1>4, <1>12 DEF GrantPlay, Reject, handVars, timers, history
<1>13. ASSUME Head(queue).op # "ding", Deal \/ Reject
       PROVE  TimedOrStarting'
  <2>1. CASE Reject
    BY <1>4, <1>13, <2>1 DEF Reject, handVars, timers, history
  <2>2. CASE Deal
    BY <1>5, <2>2 DEF Deal
  <2> QED BY <1>13, <2>1, <2>2
<1>14. CASE Head(queue).op = "deal" /\ GrantDeal
  <2>1. CASE LateDeal
    <3>1. CASE turn' = turn
      <4>1. \A c \in Waiting : c.op = "ding" => c \in Waiting'
        BY <1>2, <1>14
      <4>2. UNCHANGED <<timer, stopped>> /\ moved' = (moved \/ turn' # turn)
        BY <2>1 DEF LateDeal, timers
      <4> QED BY <1>1, <1>3, <3>1, <4>1, <4>2, TimedStays DEF TimedOrStarting
    <3>2. CASE turn' # turn
      BY <2>1, <3>2 DEF LateDeal, TimedOrStarting
    <3> QED BY <3>1, <3>2
  <2> QED BY <1>13, <1>14, <2>1 DEF GrantDeal
<1>15. CASE Head(queue).op = "next" /\ GrantNext
  <2>1. CASE Deal
    BY <1>13, <1>15, <2>1
  <2>2. CASE UNCHANGED <<seated, live, turn, timers, failed, history>>
    BY <1>4, <1>15, <2>2 DEF timers, history
  <2> QED BY <1>15, <2>1, <2>2 DEF GrantNext
<1>16. CASE Head(queue).op = "back" /\ GrantBack
  BY <1>13, <1>16 DEF GrantBack
<1> QED
  <2> HIDE DEF Timed, TimedOrStarting
  <2> QED BY <1>6, <1>7, <1>8, <1>9, <1>10, <1>11, <1>12, <1>14, <1>15, <1>16
          DEF Grant

\* Whoever has the turn stays timed, at every step.
LEMMA TimedStep ==
    ASSUME ClockInv, TimedOrStarting, [Next]_vars
    PROVE  TimedOrStarting'
<1>1. ASSUME NEW call \in Calls, Call(call.op, call.seat)
      PROVE  TimedOrStarting'
  <2>1. [op |-> call.op, seat |-> call.seat] \in Calls /\ Ask(call.op, call.seat)
    BY <1>1 DEF Call
  <2>2. \A c \in Waiting : c \in Waiting'
    BY <2>1, AskType DEF ClockInv, TypeOK
  <2> QED BY <1>1, <2>2, TimedStays
          DEF Call, handVars, timers, history, TimedOrStarting
<1>2. CASE Tick
  <2>1. timer # NoTimer /\ timer \in Clocks
    BY <1>2 DEF Tick, NoTimer, ClockInv, TypeOK
  <2>2. timer' # NoTimer /\ timer'.at = "due"
    BY <1>2, <2>1 DEF Tick, Clocks, NoTimer
  <2> QED BY <1>2, <2>2 DEF Tick, handVars, history, TimedOrStarting, Timed
<1>3. CASE Ring
  <2>1. timer # NoTimer /\ timer \in Clocks
    BY <1>3 DEF Ring, NoTimer, ClockInv, TypeOK
  <2>2. timer' # NoTimer
    BY <1>3, <2>1 DEF Ring, Clocks, NoTimer
  <2>3. timer.seat \in Seats
    BY <2>1, ClockOfSeat
  <2>4. [op |-> "ding", seat |-> timer.seat] \in Calls
    BY <2>3 DEF Calls, SeatOps
  <2>5. Ask("ding", timer.seat) /\ UNCHANGED <<turn, holder, moved>>
    BY <1>3 DEF Ring, handVars, history
  <2>6. [op |-> "ding", seat |-> timer.seat] \in Waiting'
    BY <2>4, <2>5, AskType DEF ClockInv, TypeOK
  <2>7. ~moved => timer.seat = turn
    BY <2>1 DEF ClockInv, ClockIsOfTheTurn
  <2> QED BY <2>2, <2>5, <2>6, <2>7 DEF TimedOrStarting, Timed, Waits
<1>4. CASE Grant
  BY <1>4, GrantTimed
<1>5. CASE Callback
  <2>1. CASE holder = "start" /\ turn # NoSeat
    <3>1. turn \in Seats
      BY <2>1 DEF ClockInv, TypeOK
    <3> QED BY <1>5, <2>1, <3>1, StartedIsClock
            DEF Callback, TimedOrStarting, Timed
  <2>2. CASE turn = NoSeat
    BY <1>5, <2>2 DEF Callback, handVars, TimedOrStarting
  <2>3. CASE holder # "start"
    <3>1. UNCHANGED <<turn, timer, stopped, moved, failed, queue>>
      BY <1>5, <2>3 DEF Callback, handVars
    <3>2. Timed => Timed'
      BY <3>1 DEF Timed, Waits, Waiting
    <3> QED BY <2>3, <3>1, <3>2 DEF TimedOrStarting
  <2> QED BY <2>1, <2>2, <2>3
<1>6. CASE UNCHANGED vars
  BY <1>6 DEF vars, handVars, timers, history, TimedOrStarting, Timed, Waits,
              Waiting
<1>7. CASE CallNext \/ CallDeal
  <2>1. \A c \in Waiting : c \in Waiting'
    BY <1>7, AskType
       DEF CallNext, CallDeal, Calls, TableOps, ClockInv, TypeOK
  <2> QED BY <1>7, <2>1, TimedStays
          DEF CallNext, CallDeal, handVars, timers, history, TimedOrStarting
<1> QED BY <1>1, <1>2, <1>3, <1>4, <1>5, <1>6, <1>7 DEF Next

\* The callbacks that call startTimer: with the lock free, whoever has the
\* turn has a clock, or its DING waits, unless an ejection has stopped it or
\* a late dealTimer has moved the turn.
THEOREM TurnHasAClock == Spec => []TurnIsTimed
<1>1. Init => ClockInv /\ TimedOrStarting
  <2>1. Init => TimedOrStarting
    BY DEF Init, TimedOrStarting
  <2> QED BY <2>1, ClockInit
<1>2. ClockInv /\ TimedOrStarting /\ [Next]_vars => (ClockInv /\ TimedOrStarting)'
  BY ClockStep, TimedStep
<1>3. TimedOrStarting => TurnIsTimed
  BY DEF TimedOrStarting, TurnIsTimed, Timed
<1> QED BY <1>1, <1>2, <1>3, PTL DEF Spec

-----------------------------------------------------------------------------
(***************************************************************************)
(* The sessions of a user.                                                 *)
(***************************************************************************)
\* NoConn is the name of no connection.
Distinct == NoConn \notin Conns

Sessions == [state : {-1, 0, 1, 2}, userid : BOOLEAN, open : BOOLEAN,
             login : {"none", "good", "bad", "status", "resume", "reply"},
             logout : BOOLEAN, join : BOOLEAN]

SessionType ==
    /\ socket \in [Conns -> Sessions]
    /\ activeUser \in Conns \cup {NoConn}
    /\ late \in BOOLEAN

\* A socket in the lobby has a userid, and an open one that has it is there.
LobbyHasUser ==
    \A c \in Conns : /\ socket[c].state = 2 => socket[c].userid
                     /\ socket[c].open /\ socket[c].userid
                            => socket[c].state = 2

\* A logout that waits on a socket that has the userid is of the session.
LogoutIsOurs ==
    ~late /\ activeUser # NoConn =>
        \A d \in Conns :
            socket[d].userid /\ socket[d].logout => d = activeUser

SessionInv == /\ SessionType /\ LobbyHasUser /\ RegisteredIsLoggedIn
              /\ LogoutIsOurs /\ OneSession

\* Nothing is connected at first.
LEMMA SessionInit == ASSUME Distinct PROVE SessionStart => SessionInv
<1> SUFFICES ASSUME SessionStart PROVE SessionInv
    OBVIOUS
<1>1. NewSocket \in Sessions /\ NewSocket.state # 2 /\ ~NewSocket.userid
    BY DEF NewSocket, Sessions
<1>2. SessionType /\ activeUser = NoConn
    BY <1>1 DEF SessionStart, SessionType
<1>3. \A c \in Conns : socket[c].state # 2 /\ ~socket[c].userid
    BY <1>1 DEF SessionStart
<1> QED
    BY <1>2, <1>3 DEF SessionInv, LobbyHasUser, RegisteredIsLoggedIn,
                      LogoutIsOurs, OneSession

\* A socket that logs in or out, as the steps leave it.
LEMMA LoggedInOrOut ==
  ASSUME NEW c \in Conns, SessionType
  PROVE  /\ LoggedIn(c) \in Sessions
         /\ LoggedIn(c).state = 2 /\ LoggedIn(c).userid
         /\ LoggedOut(c) \in Sessions
         /\ LoggedOut(c).state # 2 /\ ~LoggedOut(c).userid
<1> DEFINE s == socket[c]
<1>1. s \in Sessions
    BY DEF SessionType
<1>2. LoggedIn(c) = [s EXCEPT !.state = 2, !.userid = TRUE, !.login = "status"]
    BY DEF LoggedIn
<1>3. LoggedOut(c) = [s EXCEPT !.state = 1, !.userid = FALSE]
    BY DEF LoggedOut
<1> HIDE DEF s
<1>4. /\ LoggedIn(c) \in Sessions
      /\ LoggedIn(c).state = 2 /\ LoggedIn(c).userid
    BY <1>1, <1>2 DEF Sessions
<1>5. LoggedOut(c) \in Sessions
    BY <1>1, <1>3 DEF Sessions
<1>6. LoggedOut(c).state # 2
    BY <1>1, <1>3 DEF Sessions
<1>7. ~LoggedOut(c).userid
    BY <1>1, <1>3 DEF Sessions
<1> QED BY <1>4, <1>5, <1>6, <1>7 DEF s

\* What a step does to the sockets that the invariant is about: the steps of
\* a login, but for EnterLobby, and of joins change none of it.
Quiet(c) ==
    /\ socket' \in [Conns -> Sessions]
    /\ \A d \in Conns :
         /\ socket'[d].state = socket[d].state
         /\ socket'[d].userid = socket[d].userid
         /\ socket'[d].open = socket[d].open
         /\ socket'[d].logout = socket[d].logout
    /\ UNCHANGED <<activeUser, late>>

LEMMA QuietKeeps ==
  ASSUME NEW c \in Conns, Distinct, SessionInv, Quiet(c)
  PROVE  SessionInv'
  BY DEF Quiet, Distinct, SessionInv, SessionType, LobbyHasUser,
         RegisteredIsLoggedIn, LogoutIsOurs, OneSession

LEMMA QuietSteps ==
  ASSUME NEW c \in Conns, SessionInv,
         \/ AskLogin(c) \/ RefuseLogin(c) \/ FindTable(c) \/ ResumeTable(c)
         \/ ReplyLogin(c) \/ Table(c)
  PROVE  Quiet(c)
<1> USE DEF SessionInv, SessionType, Sessions, Quiet
<1>1. CASE AskLogin(c)     BY <1>1 DEF AskLogin
<1>2. CASE RefuseLogin(c)  BY <1>2 DEF RefuseLogin
<1>3. CASE FindTable(c)    BY <1>3 DEF FindTable
<1>4. CASE ResumeTable(c)  BY <1>4 DEF ResumeTable
<1>5. CASE ReplyLogin(c)   BY <1>5 DEF ReplyLogin
<1>6. CASE AskJoin(c)      BY <1>6 DEF AskJoin
<1>7. CASE JoinDone(c)     BY <1>7 DEF JoinDone
<1>8. CASE LeaveTable(c)   BY <1>8 DEF LeaveTable
<1> QED BY <1>1, <1>2, <1>3, <1>4, <1>5, <1>6, <1>7, <1>8 DEF Table

\* A login ejects the socket that had the session.
LEMMA LobbyKeeps ==
  ASSUME NEW c \in Conns, Distinct, SessionInv, EnterLobby(c)
  PROVE  SessionInv'
<1> USE DEF SessionInv
<1>1. activeUser' = c /\ late' = (late \/ LogoutIsLate) /\ late' \in BOOLEAN
    BY DEF EnterLobby, SessionType
<1>2. /\ SessionType'
      /\ socket'[c] = LoggedIn(c)
      /\ \A d \in Conns \ {c} :
            socket'[d] = IF d = activeUser THEN LoggedOut(d) ELSE socket[d]
  <2>1. CASE activeUser = NoConn
    BY <1>1, <2>1, LoggedInOrOut DEF EnterLobby, SessionType, Distinct
  <2>2. CASE activeUser \in Conns
    BY <1>1, <2>2, LoggedInOrOut DEF EnterLobby, SessionType, Distinct
  <2> QED BY <2>1, <2>2 DEF SessionType
<1>3. /\ socket'[c].state = 2 /\ socket'[c].userid
      /\ \A d \in Conns \ {c} :
           /\ d = activeUser => socket'[d].state # 2 /\ ~socket'[d].userid
           /\ d # activeUser => socket'[d] = socket[d]
    BY <1>2, LoggedInOrOut
<1>4. LobbyHasUser'
    BY <1>3 DEF LobbyHasUser
<1>5. RegisteredIsLoggedIn'
    BY <1>1, <1>3 DEF RegisteredIsLoggedIn
<1>6. LogoutIsOurs'
  <2> SUFFICES ASSUME ~late', NEW d \in Conns, d # c,
                      socket'[d].userid, socket'[d].logout
               PROVE  FALSE
    BY <1>1 DEF LogoutIsOurs
  <2>1. d # activeUser /\ socket[d].userid /\ socket[d].logout
    BY <1>3
  <2> QED BY <1>1, <2>1 DEF LogoutIsLate
<1>7. OneSession'
  <2> SUFFICES ASSUME ~late', NEW d \in Conns, d # c,
                      socket'[d].open, socket'[d].state = 2
               PROVE  FALSE
    BY <1>1 DEF OneSession
  <2>1. d # activeUser /\ socket[d].open /\ socket[d].state = 2
    BY <1>3
  <2> QED BY <1>1, <2>1 DEF OneSession
<1> QED BY <1>2, <1>4, <1>5, <1>6, <1>7

\* A socket c that is open, or on which a logout waits, leaves the lobby, and
\* the user leaves activeUsers if c has the userid.
Loses(c) ==
    /\ SessionType'
    /\ socket[c].open \/ socket[c].logout
    /\ \A d \in Conns \ {c} : socket'[d] = socket[d]
    /\ activeUser' = Unregistered(c)
    /\ ~socket'[c].userid \/ (~socket'[c].open /\ socket[c].userid)
    /\ socket'[c].state # 2
    /\ UNCHANGED late

LEMMA LosesKeeps ==
  ASSUME NEW c \in Conns, Distinct, SessionInv, Loses(c)
  PROVE  SessionInv'
<1> USE DEF SessionInv, Loses, Unregistered
<1>1. LobbyHasUser'
    BY DEF LobbyHasUser
<1>2. RegisteredIsLoggedIn'
    BY DEF RegisteredIsLoggedIn, Distinct, SessionType
<1>3. LogoutIsOurs'
    BY DEF LogoutIsOurs
<1>4. OneSession'
    \* it takes the userid, which is in activeUsers by the socket c alone
    BY DEF OneSession, LogoutIsOurs, LobbyHasUser
<1> QED BY <1>1, <1>2, <1>3, <1>4

LEMMA LosingSteps ==
  ASSUME NEW c \in Conns, SessionInv,
         LogoutNow(c) \/ LogoutDone(c) \/ SocketEnds(c)
  PROVE  Loses(c)
<1> USE DEF SessionInv, Loses
<1>1. CASE LogoutNow(c)
  <2>1. /\ socket[c].open /\ UNCHANGED late /\ activeUser' = Unregistered(c)
        /\ socket' = [socket EXCEPT ![c] = LoggedOut(c)]
    BY <1>1 DEF LogoutNow
  <2> QED BY <2>1, LoggedInOrOut DEF SessionType, Unregistered
<1>2. CASE LogoutDone(c)
  <2>1. PICK more \in BOOLEAN :
          socket' = [socket EXCEPT ![c] = [LoggedOut(c) EXCEPT !.logout = more]]
    BY <1>2 DEF LogoutDone
  <2> DEFINE s == LoggedOut(c)
  <2>2. s \in Sessions /\ s.state # 2 /\ ~s.userid
    BY LoggedInOrOut
  <2> HIDE DEF s
  <2>3. LET t == [s EXCEPT !.logout = more]
        IN  t \in Sessions /\ t.state # 2 /\ ~t.userid
    BY <2>2 DEF Sessions
  <2>4. /\ socket' \in [Conns -> Sessions]
        /\ socket'[c].state # 2 /\ ~socket'[c].userid
        /\ \A d \in Conns \ {c} : socket'[d] = socket[d]
    BY <2>1, <2>3 DEF SessionType, s
  <2>5. /\ socket[c].logout /\ UNCHANGED late
        /\ activeUser' = Unregistered(c)
    BY <1>2 DEF LogoutDone
  <2> QED BY <2>4, <2>5 DEF SessionType, Unregistered
<1>3. CASE SocketEnds(c)
  <2> DEFINE s == socket[c]
             t == [s EXCEPT !.open = FALSE, !.state = -1]
  <2>1. /\ socket[c].open /\ UNCHANGED late /\ activeUser' = Unregistered(c)
        /\ socket' = [socket EXCEPT ![c] = t]
    BY <1>3 DEF SocketEnds
  <2>2. s \in Sessions
    BY DEF SessionType
  <2> HIDE DEF s
  <2>3. t \in Sessions
    BY <2>2 DEF Sessions
  <2>4. t.state # 2 /\ ~t.open
    BY <2>2 DEF Sessions
  <2>5. ASSUME ~s.userid PROVE ~t.userid
    BY <2>2, <2>5 DEF Sessions
  <2> HIDE DEF t
  <2> QED BY <2>1, <2>3, <2>4, <2>5 DEF SessionType, Unregistered, s
<1> QED BY <1>1, <1>2, <1>3

\* A socket that fails is logged out, or keeps the session as it dies.
LEMMA FailKeeps ==
  ASSUME NEW c \in Conns, Distinct, SessionInv, SocketFails(c)
  PROVE  SessionInv'
<1>1. PICK full \in BOOLEAN :
        /\ socket' = [socket EXCEPT ![c] =
              IF full THEN [@ EXCEPT !.open = FALSE]
              ELSE [LoggedOut(c) EXCEPT !.open = FALSE]]
        /\ activeUser' = IF full THEN activeUser ELSE Unregistered(c)
    BY DEF SocketFails
<1>2. CASE ~full
  <2> DEFINE s == LoggedOut(c)
             t == [s EXCEPT !.open = FALSE]
  <2>1. s \in Sessions /\ s.state # 2 /\ ~s.userid
    BY LoggedInOrOut DEF SessionInv
  <2> HIDE DEF s
  <2>2. t \in Sessions /\ t.state # 2 /\ ~t.userid
    BY <2>1 DEF Sessions
  <2> HIDE DEF t
  <2>3. /\ socket' = [socket EXCEPT ![c] = t] /\ socket[c].open
        /\ activeUser' = Unregistered(c) /\ UNCHANGED late
    BY <1>1, <1>2 DEF SocketFails, s, t
  <2>4. Loses(c)
    BY <2>2, <2>3 DEF Loses, Unregistered, SessionInv, SessionType
  <2> QED BY <2>4, LosesKeeps
<1>3. CASE full
  <2>1. /\ socket' = [socket EXCEPT ![c].open = FALSE]
        /\ UNCHANGED <<activeUser, late>>
    BY <1>1, <1>3 DEF SocketFails
  <2>2. SessionType'
    BY <2>1 DEF SessionInv, SessionType, Sessions
  <2>3. \A d \in Conns :
          /\ socket'[d].state = socket[d].state
          /\ socket'[d].userid = socket[d].userid
          /\ socket'[d].logout = socket[d].logout
          /\ socket'[d].open => socket[d].open
    BY <2>1 DEF SessionInv, SessionType, Sessions
  <2> QED
    BY <2>1, <2>2, <2>3 DEF SessionInv, SessionType, LobbyHasUser,
       RegisteredIsLoggedIn, LogoutIsOurs, OneSession, Distinct
<1> QED BY <1>2, <1>3

\* A logout is asked for by an open socket in the lobby: the session's.
LEMMA AskLogoutKeeps ==
  ASSUME NEW c \in Conns, Distinct, SessionInv, LogoutLater(c)
  PROVE  SessionInv'
<1>1. PICK waits \in BOOLEAN :
        socket' = [socket EXCEPT ![c].logout = @ \/ ~waits]
    BY DEF LogoutLater
<1>2. SessionType'
    BY <1>1 DEF LogoutLater, SessionInv, SessionType, Sessions
<1>3. /\ UNCHANGED <<activeUser, late>>
      /\ \A d \in Conns :
            /\ socket'[d].state = socket[d].state
            /\ socket'[d].userid = socket[d].userid
            /\ socket'[d].open = socket[d].open
            /\ d # c => socket'[d].logout = socket[d].logout
    BY <1>1 DEF LogoutLater, SessionInv, SessionType, Sessions
<1>4. LobbyHasUser'
    BY <1>3 DEF SessionInv, LobbyHasUser
<1>5. RegisteredIsLoggedIn'
    BY <1>3 DEF SessionInv, SessionType, RegisteredIsLoggedIn
<1>6. OneSession'
    BY <1>3 DEF SessionInv, OneSession
<1>7. socket[c].open /\ socket[c].state = 2
    BY DEF LogoutLater
<1>8. ~late => activeUser = c
    BY <1>7 DEF SessionInv, OneSession
<1>9. LogoutIsOurs'
  <2> SUFFICES ASSUME ~late', NEW d \in Conns, d # c,
                      socket'[d].userid, socket'[d].logout
               PROVE  activeUser' = NoConn \/ d = activeUser'
    BY <1>3, <1>8 DEF LogoutIsOurs
  <2>1. ~late /\ socket[d].userid /\ socket[d].logout
    BY <1>3
  <2> QED BY <1>3, <2>1 DEF SessionInv, LogoutIsOurs
<1> QED BY <1>2, <1>4, <1>5, <1>6, <1>9 DEF SessionInv

\* A socket that connects has no userid, and after a restart none has.
LEMMA ConnectKeeps ==
  ASSUME NEW c \in Conns, Distinct, SessionInv, Connect(c)
  PROVE  SessionInv'
<1> DEFINE s == socket[c]
           t == [s EXCEPT !.open = TRUE, !.state = 1]
<1>1. SessionType' /\ UNCHANGED <<activeUser, late>>
  <2>1. s \in Sessions
    BY DEF SessionInv, SessionType
  <2>2. t \in Sessions
    <3> HIDE DEF s
    <3> QED BY <2>1 DEF Sessions
  <2>3. socket' = [socket EXCEPT ![c] = t] /\ UNCHANGED <<activeUser, late>>
    BY DEF Connect
  <2> HIDE DEF t
  <2> QED BY <2>2, <2>3 DEF SessionInv, SessionType
<1>2. /\ ~socket[c].userid /\ ~socket'[c].userid /\ socket'[c].state = 1
      /\ \A d \in Conns \ {c} : socket'[d] = socket[d]
    BY DEF Connect, NewSocket, SessionInv, SessionType, Sessions
<1> QED
    BY <1>1, <1>2 DEF SessionInv, SessionType, LobbyHasUser,
       RegisteredIsLoggedIn, LogoutIsOurs, OneSession, Distinct

LEMMA RestartKeeps ==
  ASSUME Distinct, SessionInv, Restart
  PROVE  SessionInv'
<1>1. SessionType' /\ activeUser' = NoConn
    BY DEF Restart, NewSocket, SessionInv, SessionType, Sessions
<1>2. \A d \in Conns : ~socket'[d].userid /\ socket'[d].state # 2
    BY DEF Restart, NewSocket
<1> QED
    BY <1>1, <1>2 DEF SessionInv, LobbyHasUser, RegisteredIsLoggedIn,
                      LogoutIsOurs, OneSession

LEMMA SessionStep ==
  ASSUME Distinct, SessionInv, [SessionNext]_sessionVars
  PROVE  SessionInv'
<1>1. ASSUME NEW c \in Conns,
             Connect(c) \/ Login(c) \/ Logout(c) \/ Table(c) \/ Lose(c)
      PROVE  SessionInv'
  <2>1. CASE Connect(c)      BY <2>1, ConnectKeeps
  <2>2. CASE EnterLobby(c)   BY <2>2, LobbyKeeps
  <2>3. CASE \/ AskLogin(c) \/ RefuseLogin(c) \/ FindTable(c)
             \/ ResumeTable(c) \/ ReplyLogin(c) \/ Table(c)
    BY <2>3, QuietSteps, QuietKeeps
  <2>4. CASE LogoutLater(c)  BY <2>4, AskLogoutKeeps
  <2>5. CASE LogoutNow(c) \/ LogoutDone(c) \/ SocketEnds(c)
    BY <2>5, LosingSteps, LosesKeeps
  <2>6. CASE SocketFails(c)  BY <2>6, FailKeeps
  <2> QED
    BY <1>1, <2>1, <2>2, <2>3, <2>4, <2>5, <2>6 DEF Login, Logout, Lose
<1>2. CASE Restart           BY <1>2, RestartKeeps
<1>3. CASE UNCHANGED sessionVars
    BY <1>3 DEF sessionVars, SessionInv, SessionType, LobbyHasUser,
       RegisteredIsLoggedIn, LogoutIsOurs, LogoutIsLate, OneSession
<1> QED BY <1>1, <1>2, <1>3 DEF SessionNext

-----------------------------------------------------------------------------
\* Whatever the clients send and whenever their sockets end, the socket the
\* server knows the user by is in the lobby and has his userid.
THEOREM UserIsKnownByHisSocket ==
  ASSUME Distinct PROVE SessionSpec => []RegisteredIsLoggedIn
<1>1. SessionInv => RegisteredIsLoggedIn
    BY DEF SessionInv
<1> QED BY <1>1, SessionInit, SessionStep, PTL DEF SessionSpec

\* Until a logout is late, an open socket in the lobby is the one the server
\* knows the user by: there is no second one.
THEOREM SessionIsAlone ==
  ASSUME Distinct PROVE SessionSpec => []OneSession
<1>1. SessionInv => OneSession
    BY DEF SessionInv
<1> QED BY <1>1, SessionInit, SessionStep, PTL DEF SessionSpec
=============================================================================
