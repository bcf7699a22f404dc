------------------------------- MODULE Rounds -------------------------------
(***************************************************************************)
(* moveToPot, round after round of betting, without the table around it.   *)
(* A round leaves any bets that betting can leave: the seats that can      *)
(* still bet have all bet the same, a seat that went all in this round has *)
(* bet at most that, a seat that folded has bet at most that, and nobody   *)
(* who was all in or folded before bets.  Some seat with the highest bet   *)
(* stays in: stateMachine does not give the turn to the last one that can  *)
(* bet when it need not call and up to three others are all in.  With four *)
(* of them it does, and one that folds then leaves a pot without a member, *)
(* as do newcomers who fold their big blinds when those of the others were *)
(* all in for less: such rounds are not among those that Bet takes.        *)
(***************************************************************************)
EXTENDS SidePots, FiniteSetsExt

CONSTANTS
    MaxBet,    \* bound on a seat's bet in a round
    MaxRounds  \* bound on the rounds

ASSUME RoundsAssumption == MaxBet \in Nat \ {0} /\ MaxRounds \in Nat \ {0}

VARIABLES
    put,   \* history: what each seat has bet, and not been given back
    round  \* rounds of betting so far

roundVars == <<put, round>>
allVars == <<potVars, roundVars>>

Players == {"psInHand", "psAllIn", "psFolded"}

RoundsInit ==
    /\ status = [s \in Seats |-> "psInHand"]
    /\ leaving = NoSeat
    /\ chips = [s \in Seats |-> 0]
    /\ bets = [s \in Seats |-> 0]
    /\ pots = <<EmptyPot>>
    /\ balance = [s \in Seats |-> 0]
    /\ mv = "none" /\ at = 1 /\ failed = "no"
    /\ put = [s \in Seats |-> 0] /\ round = 0

Playing == {s \in Seats : status[s] = "psInHand"}

\* The statuses st and the bets b that a round of betting can leave.
CanEnd(st, b) ==
    LET top == Max({b[s] : s \in Seats})
    IN  /\ \A s \in Seats :
              IF status[s] # "psInHand" THEN st[s] = status[s] /\ b[s] = 0
              ELSE /\ st[s] = "psInHand" => b[s] = top
                   /\ st[s] = "psAllIn" => b[s] > 0
        /\ \E s \in Playing : st[s] # "psFolded" /\ b[s] = top

\* A round of betting, and the call of moveToPot that ends it.  fold takes
\* the members that have folded out of the pots.
Bet ==
    /\ mv = "none" \/ Moved
    /\ Cardinality(InHand) > 1
    /\ round < MaxRounds /\ round' = round + 1
    /\ \E st \in [Seats -> Players], b \in [Seats -> 0..MaxBet] :
         /\ CanEnd(st, b)
         /\ status' = st /\ bets' = b
         /\ put' = [s \in Seats |-> put[s] + b[s]]
         /\ pots' = [i \in DOMAIN pots |->
                       [pots[i] EXCEPT !.members =
                          @ \ {s \in Seats : st[s] = "psFolded"}]]
    /\ mv' = "pass" /\ at' = 1
    /\ UNCHANGED <<leaving, chips, balance, failed>>

Step == MoveStep /\ UNCHANGED roundVars

RoundsNext == Bet \/ Step

RoundsSpec == RoundsInit /\ [][RoundsNext]_allVars /\ WF_allVars(Step)
-----------------------------------------------------------------------------
PotSum == SumFunction([i \in DOMAIN pots |-> pots[i].value])

\* What a seat has in the pots, after what was given back to it.
Stake(s) == put[s] - chips[s]

\* moveToPot makes and loses no chip, and what it books for a seat is what
\* it has taken from it.
BooksAreRight ==
    Moved => /\ PotSum = SumFunction([s \in Seats |-> Stake(s)])
             /\ \A s \in Seats : balance[s] = -Stake(s)

\* Side pots, by the rules of the game: a seat in the hand can win as much
\* from every other seat as it has put in itself, and a bet that nobody has
\* called, all of it, is given back.
SidePotRules ==
    Moved =>
        \A s \in Seats : status[s] # "psFolded" =>
            SumFunction([i \in DOMAIN pots |->
                           IF s \in pots[i].members THEN pots[i].value ELSE 0])
              = SumFunction([x \in Seats |-> Min({Stake(x), Stake(s)})])

NothingUncalled ==
    Moved => \A i \in DOMAIN pots :
        pots[i].value > 0 => Cardinality(pots[i].trueMembers) >= 2

\* moveToPot comes to its end.
Ends == mv = "pass" ~> Moved
=============================================================================
