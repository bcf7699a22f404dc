------------------------------ MODULE TurnClock ------------------------------
(***************************************************************************)
(* The clock of the seat that has the turn: startTimer, stopTimer and the  *)
(* closure that calls out DING, between the calls that move the turn.      *)
(*                                                                         *)
(* Every call waits for the lock of the table.  What a call does up to its *)
(* wait for the database is one step (Grant); its callback, which starts   *)
(* the next clock and releases the lock, is another (Callback).  Release   *)
(* runs the next call that waits before anything else can happen.  The     *)
(* betting itself is abstract here: a move that is accepted passes the     *)
(* turn to some seat of the hand, or ends the street or the hand.          *)
(*                                                                         *)
(* Hands are dealt by timers: that of doWin, when a hand is over, and      *)
(* dealTimer, which scTablePlayNow sets between hands and which calls      *)
(* stateMachine whatever the table is doing by then.                       *)
(***************************************************************************)
EXTENDS Integers, Sequences, FiniteSets

CONSTANTS
    Seats,     \* the seats of the table
    NoSeat,    \* current_seat = -1
    Streets,   \* the number of streets of a hand
    MaxQueue   \* bound on the messages that wait for the lock; timers get in

ASSUME ClockAssumption ==
    /\ IsFiniteSet(Seats) /\ NoSeat \notin Seats
    /\ Streets \in Nat \ {0} /\ MaxQueue \in Nat

VARIABLES
    seated,  \* the seats with a member
    live,    \* the seats that are in the hand
    turn,    \* current_seat
    street,  \* the street of the hand, 0 in tsIdle, Winning in tsWinning
    timer,   \* timer: its seat and how far it has run, or NoTimer
    dealTimer, \* whether dealTimer runs
    queue,   \* the closures that wait for the lock
    holder,  \* what the callback of the holder of the lock is to do
    failed,  \* an assertion has failed: the process is gone
    refused, \* history: a bet was refused in this turn
    stopped, \* history: a departure has stopped the clock of this turn
    moved    \* history: a late dealTimer has moved the turn, and no clock
             \* has been started since

handVars == <<seated, live, turn, street>>
timers == <<timer, dealTimer>>
history == <<refused, stopped, moved>>
vars == <<handVars, timers, queue, holder, failed, history>>

Winning == Streets + 1

NoTimer == [seat |-> NoSeat, at |-> "off"]
Clocks == [seat : Seats, at : {"started", "due", "rung"}] \cup {NoTimer}

\* What a call does when it has the lock.  leave stands for scTableStandUp
\* and for Game.leave; eject for Game.eject and for the kick of a club; play
\* for scTablePlayNow; deal for dealTimer, next for the timer of doWin, back
\* for a member who reconnects.
SeatOps == {"bet", "fold", "leave", "eject", "sit", "play", "ding"}
TableOps == {"deal", "next", "back"}
Timers == {"ding", "deal", "next"}
Calls == [op : SeatOps, seat : Seats] \cup [op : TableOps, seat : {NoSeat}]

\* free: nobody has the lock; start: the callback starts a clock for the
\* turn, if there is one; keep: it starts none.
Holders == {"free", "start", "keep"}

Init ==
    /\ seated = Seats /\ live = {} /\ turn = NoSeat /\ street = 0
    /\ timer = NoTimer /\ dealTimer = FALSE
    /\ queue = <<>> /\ holder = "free"
    /\ failed = FALSE
    /\ refused = FALSE /\ stopped = FALSE /\ moved = FALSE

\* Nothing comes between a release and the closure that it runs.
Idle == ~failed /\ (holder = "free" => queue = <<>>)

Ask(op, s) == queue' = Append(queue, [op |-> op, seat |-> s])
Waiting == {queue[i] : i \in DOMAIN queue}
Waits(op, s) == [op |-> op, seat |-> s] \in Waiting

\* A message of the player of seat s, the timer of eject, or a member who
\* reconnects.
Call(op, s) ==
    /\ Idle
    /\ Cardinality({c \in Waiting : c.op \notin Timers}) < MaxQueue
    /\ [op |-> op, seat |-> s] \in Calls \ Waiting
    /\ op \notin Timers
    /\ Ask(op, s)
    /\ UNCHANGED <<handVars, timers, holder, failed, history>>

\* The timer of doWin, some seconds after the hand.
CallNext ==
    /\ Idle /\ street = Winning /\ ~Waits("next", NoSeat)
    /\ Ask("next", NoSeat)
    /\ UNCHANGED <<handVars, timers, holder, failed, history>>

\* dealTimer fires.
CallDeal ==
    /\ Idle /\ dealTimer
    /\ dealTimer' = FALSE
    /\ Ask("deal", NoSeat)
    /\ UNCHANGED <<handVars, timer, holder, failed, history>>

\* The time of the player, with what is left of his timebank, passes.
Tick ==
    /\ ~failed /\ timer.at = "started"
    /\ timer' = [timer EXCEPT !.at = "due"]
    /\ UNCHANGED <<handVars, dealTimer, queue, holder, failed, history>>

\* DING: the callback of the timer asks for the lock.
Ring ==
    /\ Idle /\ timer.at = "due"
    /\ timer' = [timer EXCEPT !.at = "rung"]
    /\ Ask("ding", timer.seat)
    /\ UNCHANGED <<handVars, dealTimer, holder, failed, history>>
-----------------------------------------------------------------------------
\* startTimer stops the clock that there is first.
Started(s) == [seat |-> s, at |-> "started"]

\* doWin: nobody has the turn.
HandOver ==
    /\ live' = {} /\ turn' = NoSeat /\ street' = Winning

\* The move of s is made; in2 are in the hand after it.  stateMachine gives
\* the turn to another seat, on this street or on the next, or to s again on
\* the next street, or lets the hand run to its end.
PassTurn(s, in2) ==
    \/ HandOver
    \/ /\ Cardinality(in2) > 1
       /\ live' = in2
       /\ \E t \in in2 :
            /\ turn' = t
            /\ \/ t # s /\ street' = street
               \/ street < Streets /\ street' = street + 1

\* An accepted move of the seat on turn: its clock is stopped, and a clock
\* is started for the next turn when the table has been saved.
Move(s, in2) ==
    /\ PassTurn(s, in2)
    /\ timer' = NoTimer
    /\ holder' = "start"
    /\ refused' = FALSE /\ stopped' = FALSE
    /\ UNCHANGED <<seated, dealTimer, failed, moved>>

\* The call comes too late, or finds nothing to do: it gives the lock back.
Reject ==
    UNCHANGED <<handVars, timers, holder, failed, history>>

\* Mutant of GrantBet: a bet does not stop the clock
GrantBetUnstopped(s) ==
    IF s # turn THEN Reject
    ELSE \/ /\ PassTurn(s, live)
            /\ holder' = "start"
            /\ refused' = FALSE /\ stopped' = FALSE
            /\ UNCHANGED <<timers, seated, failed, moved>>
         \/ /\ timer' = Started(turn) /\ refused' = TRUE
            /\ UNCHANGED <<handVars, dealTimer, holder, failed, stopped, moved>>

\* putChips: the bet is accepted, or refused, which starts the clock again
\* as if the turn had just begun.
GrantBet(s) ==
    IF s # turn THEN Reject
    ELSE \/ Move(s, live)
         \/ /\ timer' = Started(turn)
            /\ refused' = TRUE /\ stopped' = FALSE /\ moved' = FALSE
            /\ UNCHANGED <<handVars, dealTimer, holder, failed>>

\* fold: it stops the clock, whosever it is.
FoldSeat(s) ==
    /\ s \in live
    /\ timer' = NoTimer
    /\ CASE s = turn -> PassTurn(s, live \ {s})
         [] s # turn /\ Cardinality(live \ {s}) = 1 -> HandOver
         [] OTHER -> live' = live \ {s} /\ UNCHANGED <<turn, street>>
    /\ refused' = FALSE

GrantFold(s) == IF s # turn THEN Reject ELSE Move(s, live \ {s})

\* standUp: the member is gone; if he was in the hand he is folded.
Departed(s) ==
    /\ seated' = seated \ {s}
    /\ \/ FoldSeat(s)
       \/ /\ s \notin live
          /\ UNCHANGED <<live, turn, street, timer, refused>>

\* Mutant of GrantLeave: the callback starts no clock
GrantLeaveUnclocked(s) ==
    IF s \notin seated THEN Reject
    ELSE /\ Departed(s)
         /\ stopped' = (stopped /\ s \notin live)
         /\ holder' = "keep"
         /\ UNCHANGED <<dealTimer, failed, moved>>

\* The player stands up or leaves: if he was folded, the callback starts the
\* clock of whoever has the turn.  scTableStandUp clears dealTimer when fewer
\* than two are left that have chips.
GrantLeave(s) ==
    IF s \notin seated THEN Reject
    ELSE /\ Departed(s)
         /\ stopped' = (stopped /\ s \notin live)
         /\ holder' = IF s \in live THEN "start" ELSE "keep"
         /\ dealTimer' \in {dealTimer, FALSE}
         /\ UNCHANGED <<failed, moved>>

\* eject and the kick of a club: no clock is started.
GrantEject(s) ==
    IF s \notin seated THEN Reject
    ELSE /\ Departed(s)
         /\ stopped' = IF s \in live THEN turn' # NoSeat ELSE stopped
         /\ holder' = "keep"
         /\ UNCHANGED <<dealTimer, failed, moved>>

\* DING, at last: it asserts that the clock is that of its seat, and calls
\* or folds for the player, depending on his bet.  When it is to check and
\* he is not on turn, it only warns; it folds him whether he is or not.
ForceMove(s) ==
    \/ /\ turn # s
       /\ timer' = NoTimer
       /\ UNCHANGED <<handVars, dealTimer, holder, failed, history>>
    \/ turn = s /\ Move(s, live)
    \/ /\ FoldSeat(s)
       /\ holder' = "start"
       /\ stopped' = FALSE
       /\ UNCHANGED <<seated, dealTimer, failed, moved>>

\* Mutant of GrantDing: it warns instead of moving
GrantDingWarns(s) ==
    /\ IF timer.seat = s THEN timer' = NoTimer /\ UNCHANGED failed
       ELSE failed' = TRUE /\ UNCHANGED timer
    /\ UNCHANGED <<handVars, dealTimer, holder, history>>

\* Mutant of GrantDing: the assertion is left out
GrantDingUnasserted(s) == ForceMove(s)

\* stopTimer reads the user of the seat, which may be gone with the hand.
GrantDing(s) ==
    IF timer.seat = s /\ s \in seated THEN ForceMove(s)
    ELSE failed' = TRUE
         /\ UNCHANGED <<handVars, timers, holder, history>>

GrantSit(s) ==
    IF s \in seated THEN Reject
    ELSE /\ seated' = seated \cup {s}
         /\ holder' = "keep"
         /\ UNCHANGED <<live, turn, street, timers, failed, history>>

\* scTablePlayNow, for a member who is out of play: between hands it sets
\* dealTimer; one who has been suspended is stood up.
GrantPlay(s) ==
    \/ Reject
    \/ /\ s \in seated \ live
       /\ holder' = "keep"
       /\ \/ /\ seated' = seated \ {s} /\ UNCHANGED dealTimer
          \/ /\ dealTimer' = (dealTimer \/ street = 0) /\ UNCHANGED seated
       /\ UNCHANGED <<live, turn, street, timer, failed, history>>

\* deal: a hand of some of the members; its callback starts the first clock.
\* It leaves both timers as they are.
Deal ==
    /\ \E players \in SUBSET seated :
         /\ Cardinality(players) > 1
         /\ live' = players
         /\ \E s \in players : turn' = s
    /\ street' = 1
    /\ holder' = "start"
    /\ refused' = FALSE /\ stopped' = FALSE
    /\ UNCHANGED <<seated, timers, failed, moved>>

\* finish2 of doWin, asked for once after every hand: the table is idle, and
\* deals again if enough of its members want to play.
GrantNext ==
    /\ street = Winning
    /\ \/ Deal
       \/ /\ street' = 0 /\ holder' = "keep"
          /\ UNCHANGED <<seated, live, turn, timers, failed, history>>

\* reconnectUser: an idle table may deal.
GrantBack ==
    \/ Reject
    \/ street = 0 /\ Deal

\* stateMachine in the middle of a hand, with nobody's move made: the turn
\* goes on, or the street or the hand is at its end; with two in the hand and
\* one of them all in it may call itself for ever.  Whatever clock there is
\* runs on, and none is started.
LateDeal ==
    /\ \/ HandOver /\ UNCHANGED failed
       \/ /\ turn' \in live
          /\ street' \in {street, street + 1} \ {Winning}
          /\ UNCHANGED <<live, failed>>
       \/ /\ Cardinality(live) = 2
          /\ failed' = TRUE
          /\ UNCHANGED <<live, turn, street>>
    /\ moved' = (moved \/ turn' # turn)
    /\ refused' = FALSE
    /\ holder' = "keep"
    /\ UNCHANGED <<seated, timers, stopped>>

\* The callback of dealTimer looks at no state.
GrantDeal ==
    CASE street = 0       -> Reject \/ Deal
      [] street = Winning -> Reject
      [] OTHER            -> LateDeal

\* The lock is given to the call that has waited longest.
Grant ==
    /\ ~failed /\ holder = "free" /\ queue # <<>>
    /\ queue' = Tail(queue)
    /\ LET call == Head(queue)
           s    == call.seat
       IN  \/ call.op = "bet"   /\ GrantBet(s)
           \/ call.op = "fold"  /\ GrantFold(s)
           \/ call.op = "leave" /\ GrantLeave(s)
           \/ call.op = "eject" /\ GrantEject(s)
           \/ call.op = "ding"  /\ GrantDing(s)
           \/ call.op = "sit"   /\ GrantSit(s)
           \/ call.op = "play"  /\ GrantPlay(s)
           \/ call.op = "deal"  /\ GrantDeal
           \/ call.op = "next"  /\ GrantNext
           \/ call.op = "back"  /\ GrantBack

\* The database has answered: the callback starts the clock of the turn, and
\* releases the lock.
Callback ==
    /\ ~failed /\ holder # "free"
    /\ holder' = "free"
    /\ IF holder = "start" /\ turn # NoSeat
       THEN timer' = Started(turn) /\ moved' = FALSE
       ELSE UNCHANGED <<timer, moved>>
    /\ UNCHANGED <<handVars, dealTimer, queue, failed, refused, stopped>>

Next ==
    \/ \E call \in Calls : Call(call.op, call.seat)
    \/ CallNext \/ CallDeal
    \/ Tick \/ Ring \/ Grant \/ Callback

Spec == Init /\ [][Next]_vars

\* Time passes, a timer that is due fires however many messages come in
\* between (the event loop looks at its timers in every turn: strong
\* fairness, as handlers that run disable it for a while), and a call that
\* has the lock runs to its end.  Players need not do anything.
FairSpec ==
    /\ Spec
    /\ WF_vars(Tick) /\ SF_vars(Ring) /\ WF_vars(Grant) /\ WF_vars(Callback)
-----------------------------------------------------------------------------
TypeOK ==
    /\ seated \in SUBSET Seats /\ live \in SUBSET seated
    /\ turn \in Seats \cup {NoSeat} /\ street \in 0..Winning
    /\ timer \in Clocks
    /\ queue \in Seq(Calls) /\ holder \in Holders
    /\ {dealTimer, failed, refused, stopped, moved} \subseteq BOOLEAN

\* A clock that runs is that of the seat on turn, which is in the hand: the
\* DING of a clock that still runs forces nobody else.  (game.js:2568-2599
\* folds the seat of the clock whoever has the turn.)  When a late dealTimer
\* has moved the turn, until the next clock is started, it is that of a seat
\* in the hand; or no hand is on, or one has just been dealt.
ClockIsOfTheTurn ==
    timer # NoTimer =>
        \/ timer.seat = turn /\ turn \in live
        \/ moved /\ \/ timer.seat \in live
                    \/ turn = NoSeat \/ holder = "start"

\* Whenever the lock is free in a hand, a clock runs or its DING waits,
\* unless a member who was not on his own way out has been removed, or a
\* late dealTimer has moved the turn: the assertion that getTableStatus has
\* in a comment, game.js:2126-2128.
TurnIsTimed ==
    ~failed /\ holder = "free" /\ turn # NoSeat /\ ~stopped /\ ~moved =>
        /\ timer # NoTimer
        /\ timer.at = "rung" => Waits("ding", turn)

\* A DING that waited for the lock behind other calls, and was overtaken by
\* a move, forces nobody: neither the seat that has moved nor the next.  One
\* that was overtaken by a late dealTimer, which is no move, may fold its
\* seat out of turn.
ForcedInTurn ==
    [][ queue # <<>> /\ Head(queue).op = "ding" /\ queue' = Tail(queue)
          => Head(queue).seat = turn \/ UNCHANGED handVars \/ moved ]_vars

\* Nobody holds up the hand: every turn ends, by a move or by the clock,
\* unless the player sends bets that are refused, the clock of the turn was
\* stopped by an ejection, the turn came from a late dealTimer, which starts
\* no clock, or the process ends: the DING comes too late, or stateMachine
\* calls itself for ever.
TurnEnds ==
    \A s \in Seats, i \in 1..Streets :
        turn = s /\ street = i ~> \/ turn # s \/ street # i
                                  \/ refused \/ stopped \/ moved \/ failed
=============================================================================
