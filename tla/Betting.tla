------------------------------- MODULE Betting -------------------------------
(***************************************************************************)
(* A hand of poker at one table: the betting engine of src/server/game.js. *)
(*                                                                         *)
(* A handler gets the table's lock, changes the table and runs             *)
(* Game.stateMachine, which may call itself again, deal a street, move the *)
(* bets into the pots and pay the winners before the handler releases the  *)
(* lock.  `pc` says what the holder of the lock does next; the calls that  *)
(* players, timers and disconnections make are taken when it is "free".    *)
(*                                                                         *)
(* Cards are abstracted to the outcome of the showdown.  The rake is any   *)
(* whole number of chips up to MaxRake, the percentages and limits it is   *)
(* computed from are left out.                                             *)
(***************************************************************************)
EXTENDS SidePots, FiniteSetsExt

CONSTANTS
    SmallBlind, BigBlind,  \* obj.small_blind, obj.big_blind
    Chip,                  \* one chip, in the fractions that a split pays out
    MaxRake,               \* bound on the rake of a pot
    Limit,                 \* game_limit
    Stacks,                \* the chips members sit with
    BetSizes,              \* the bets tried, besides calling and going all in
    MaxHands,              \* bound on the hands played
    MaxAddOns,             \* bound on the add-ons
    MaxLeavers             \* bound on the members that stand up

ASSUME BettingAssumption ==
    /\ SmallBlind \in Nat /\ BigBlind \in Nat
    /\ 0 < SmallBlind /\ SmallBlind <= BigBlind
    /\ Chip \in Nat \ {0} /\ MaxRake \in Nat
    /\ \A n \in 1..N : Chip % n = 0
    /\ Limit \in {"glNoLimit", "glPotLimit"}
    /\ Stacks \subseteq Nat \ {0} /\ BetSizes \subseteq Nat
    /\ MaxHands \in Nat /\ MaxAddOns \in Nat /\ MaxLeavers \in Nat

VARIABLES
    state,          \* state
    dealer,         \* dealer
    current_seat,   \* current_seat, -1 for none
    minBet,         \* minBet
    minimum_raise,  \* minimum_raise
    keycount,       \* stateRow.keycount, the seats that have yet to act
    ranOut,         \* ranOut: a seat without chips has been passed over
    ranFlop,        \* the flop has been dealt, and this.rake been set
    pc,             \* what the holder of the lock does next
    then,           \* and what after that
    outcome,        \* the showdown: how strong each hand is on the two boards
    rake,           \* obj.rake, the chips the house has taken
    away,           \* chips taken from each seat, less those brought to it
    staked,         \* history: what each seat was dealt in with, whether a
                    \* blind took it all, and what it has added since
    acted,          \* history: the seats that have acted in this street
    count           \* hands dealt, add-ons made, members that stood up

handVars == <<state, dealer, current_seat, minBet, minimum_raise, keycount,
              ranOut, ranFlop>>
lockVars == <<pc, then, outcome>>
books == <<rake, away, staked, acted, count>>
gameVars == <<handVars, lockVars, books>>
vars == <<potVars, gameVars>>

Dealing == INSTANCE Dealing

Streets == {"tsPreFlop", "tsFlop", "tsTurn", "tsRiver"}
States == Streets \cup {"tsIdle", "tsWinning"}

\* "free":     nobody holds the lock
\* "machine":  stateMachine is called
\* "finish":   checkRoundPass has called stateMachine's finish
\* "street":   moveToPot runs, and a street is dealt after it
\* "showdown": moveToPot runs, and calcWinners is called after it
\* "pay":      doWin pays the pots, one after the other
\* "idle":     stateMachine is called in tsIdle, after a hand
\* "released": the handler is done, but for the end of a standUp
Pcs == {"free", "machine", "finish", "street", "showdown", "pay", "idle",
        "released"}

NoOutcome == [board \in 1..2 |-> [s \in Seats |-> 0]]

\* A table between two hands: a new one, or one whose last dealer was on
\* seat 0 (which seat it was makes no difference: they are on a circle).
Init ==
    /\ status \in [Seats -> Statuses \ {"psAllIn", "psFolded"}]
    /\ chips \in [Seats -> Stacks \cup {0}]
    /\ \A s \in Seats : status[s] = "empty" <=> chips[s] = 0
    /\ leaving = NoSeat
    /\ bets = [s \in Seats |-> 0]
    /\ pots = <<EmptyPot>>
    /\ balance = [s \in Seats |-> 0]
    /\ mv = "none" /\ at = 1 /\ failed = "no"
    /\ state = "tsIdle"
    /\ dealer \in {-1, 0} /\ current_seat = -1
    /\ dealer = -1 => \A s \in Seats : status[s] # "psInHand"
    /\ minBet = 0 /\ minimum_raise = 0 /\ keycount = 0
    /\ ranOut = FALSE /\ ranFlop = FALSE
    /\ pc = "free" /\ then = "finish" /\ outcome = NoOutcome
    /\ rake = 0 /\ away = [s \in Seats |-> -chips[s]]
    /\ staked = [s \in Seats |->
                    [dealt |-> chips[s], short |-> FALSE, added |-> 0]]
    /\ acted = {}
    /\ count = [hands |-> 0, addons |-> 0, leavers |-> 0]

Free == pc = "free" /\ failed = "no"

\* The members that are still in the hand.
InHandCount == Cardinality(InHand)
CanPlay == {s \in Seats : status[s] = "psInHand"}
NextSeat(current) == Dealing!NextSeat(current, InHand)

\* Mutant of KeyCount: one seat too few has to act
KeyCountShort(st, ch) ==
    Cardinality({s \in Seats : st[s] = "psInHand" /\ ch[s] > 0}) - 1

\* roundEnd's count of the seats that can act in the street to come
KeyCount(st, ch) ==
    Cardinality({s \in Seats : st[s] = "psInHand" /\ ch[s] > 0})

-----------------------------------------------------------------------------
\* stateMachine (tsIdle): members without chips are out of play.
SatOut ==
    [s \in Seats |-> IF status[s] # "empty" /\ chips[s] = 0 THEN "psOutOfPlay"
                    ELSE status[s]]

\* Game.deal, with the search for enough players that precedes it in
\* stateMachine (tsIdle), which a timer calls or the end of a hand.
DealtTable ==
    [status |-> SatOut, chips |-> chips, offline |-> {}, returning |-> {},
     dealer |-> dealer]

Deal ==
    LET t == DealtTable
        dealt == Dealing!DealtIn(t)
        due == [s \in Seats |->
                  IF s \in dealt
                  THEN Dealing!BlindDue(t, s, SmallBlind, BigBlind) ELSE 0]
        status1 == [s \in Seats |->
                      IF s \in dealt
                      THEN IF due[s] = chips[s] THEN "psAllIn" ELSE "psInHand"
                      ELSE SatOut[s]]
        chips1 == [s \in Seats |-> chips[s] - due[s]]
    IN  /\ Free \/ pc = "idle"
        /\ state = "tsIdle" /\ failed = "no"
        /\ count.hands < MaxHands
        /\ Cardinality(Dealing!Able(t)) > 1
        /\ count' = [count EXCEPT !.hands = @ + 1]
        /\ dealer' = Dealing!NewDealer(t)
        /\ failed' = IF Cardinality(dealt) > 1 THEN "no" ELSE "onePlayer"
        /\ status' = status1
        /\ chips' = chips1
        /\ bets' = due
        /\ pots' = <<EmptyPot>>
        /\ balance' = [s \in Seats |-> 0]
        /\ staked' = [s \in Seats |->
                        [dealt |-> chips[s],
                         short |-> status1[s] = "psAllIn", added |-> 0]]
        /\ minBet' = Max({minBet} \cup {due[s] : s \in Seats})
        /\ minimum_raise' = BigBlind
        /\ current_seat' = Dealing!NextSeat(Dealing!BigBlindSeat(t), dealt)
        /\ keycount' = KeyCount(status1, chips1)
        /\ ranOut' = FALSE /\ ranFlop' = FALSE
        /\ state' = "tsPreFlop"
        /\ acted' = {}
        /\ pc' = "free"
        /\ UNCHANGED <<leaving, mv, at, then, outcome, away, rake>>

\* stateMachine (tsIdle) when there are not enough players for a hand.
WaitForPlayers ==
    /\ pc = "idle" /\ failed = "no"
    /\ count.hands = MaxHands \/ Cardinality(Dealing!Able(DealtTable)) < 2
    /\ status' = SatOut
    /\ pc' = "free"
    /\ UNCHANGED <<leaving, chips, bets, pots, balance, mv, at, failed,
                   handVars, then, outcome, books>>

-----------------------------------------------------------------------------
\* Game.getLimit. Left out: the rake of the pots, which the code takes off their
\* sum under a pot limit; the limit here is that of pots without rake.
PotTotal == SumFunction([i \in DOMAIN pots |-> pots[i].value])
BetTotal == SumFunction(bets)

BetLimit(s) ==
    IF Cardinality(CanPlay) = 1 THEN minBet
    ELSE LET maxbet == PotTotal + BetTotal + (minBet - bets[s]) + minBet
         IN  IF Limit = "glNoLimit" \/ maxbet > chips[s]
             THEN bets[s] + chips[s] ELSE maxbet

\* Mutant of Accepted: a call need not be covered by the stack
AcceptedUncovered(s, bet) ==
    /\ bets[s] <= bet /\ bet <= BetLimit(s)
    /\ \/ bet - bets[s] = chips[s]
       \/ bet = minBet
       \/ bet > minBet /\ bet - minBet >= minimum_raise

\* The checks of Game.putChips on raising the bet of seat s to bet.
Accepted(s, bet) ==
    /\ bets[s] <= bet /\ bet <= BetLimit(s)
    /\ bet - bets[s] <= chips[s]
    /\ \/ bet - bets[s] = chips[s]
       \/ bet = minBet
       \/ bet > minBet /\ bet - minBet >= minimum_raise

\* Mutant of PutChips: the seat is not counted as having acted
PutChipsUncounted(s, bet) ==
    /\ Free /\ state \in Streets
    /\ s = current_seat /\ s \in Seats
    /\ Accepted(s, bet)
    /\ status' = IF bet - bets[s] = chips[s]
                 THEN [status EXCEPT ![s] = "psAllIn"] ELSE status
    /\ bets' = [bets EXCEPT ![s] = bet]
    /\ chips' = [chips EXCEPT ![s] = @ - (bet - bets[s])]
    /\ minimum_raise' = IF bet > minBet THEN bet - minBet ELSE minimum_raise
    /\ minBet' = IF bet > minBet THEN bet ELSE minBet
    /\ acted' = acted \cup {s}
    /\ pc' = "machine"
    /\ UNCHANGED <<leaving, pots, balance, mv, at, failed, state, dealer,
                   current_seat, keycount, ranOut, ranFlop, then, outcome,
                   rake, away, staked, count>>

\* Game.putChips, with setBet.  A bet that is not accepted is answered with
\* an error and changes nothing.
PutChips(s, bet) ==
    /\ Free /\ state \in Streets
    /\ s = current_seat /\ s \in Seats
    /\ Accepted(s, bet)
    /\ status' = IF bet - bets[s] = chips[s]
                 THEN [status EXCEPT ![s] = "psAllIn"] ELSE status
    /\ bets' = [bets EXCEPT ![s] = bet]
    /\ chips' = [chips EXCEPT ![s] = @ - (bet - bets[s])]
    /\ minimum_raise' = IF bet > minBet THEN bet - minBet ELSE minimum_raise
    /\ minBet' = IF bet > minBet THEN bet ELSE minBet
    /\ keycount' = keycount - 1
    /\ acted' = acted \cup {s}
    /\ pc' = "machine"
    /\ UNCHANGED <<leaving, pots, balance, mv, at, failed, state, dealer,
                   current_seat, ranOut, ranFlop, then, outcome, rake, away,
                   staked, count>>

\* Mutant of FoldSeat: the hand goes on when one seat is left
FoldSeatPlaysOn(s, st) ==
    LET left == {x \in Seats \ {s} : st[x] \in {"psInHand", "psAllIn"}}
    IN  /\ status' = IF st[s] = "empty" THEN st
                     ELSE [st EXCEPT ![s] = "psFolded"]
        /\ pots' = [i \in DOMAIN pots |->
                      [pots[i] EXCEPT !.members = @ \ {s}]]
        /\ failed' = IF left = {} THEN "nobodyLeft" ELSE "no"
        /\ keycount' = keycount - 1
        /\ pc' = IF s = current_seat THEN "machine" ELSE "released"
        /\ UNCHANGED <<mv, at>>

\* Game.fold of seat s, called by a handler or by standUp, which has set st
\* to the statuses without the member that leaves.
FoldSeat(s, st) ==
    LET left == {x \in Seats \ {s} : st[x] \in {"psInHand", "psAllIn"}}
    IN  /\ status' = IF st[s] = "empty" THEN st
                     ELSE [st EXCEPT ![s] = "psFolded"]
        /\ pots' = [i \in DOMAIN pots |->
                      [pots[i] EXCEPT !.members = @ \ {s}]]
        /\ CASE left = {} ->
                  /\ failed' = "nobodyLeft"
                  /\ UNCHANGED <<pc, mv, at, keycount>>
             [] Cardinality(left) = 1 ->
                  /\ pc' = "showdown" /\ mv' = "pass" /\ at' = 1
                  /\ UNCHANGED <<failed, keycount>>
             [] OTHER ->
                  /\ keycount' = keycount - 1
                  /\ pc' = IF s = current_seat THEN "machine" ELSE "released"
                  /\ UNCHANGED <<failed, mv, at>>

FoldInTurn(s) ==
    /\ Free /\ state \in Streets
    /\ s = current_seat /\ s \in Seats
    /\ FoldSeat(s, status)
    /\ acted' = acted \cup {s}
    /\ UNCHANGED <<leaving, chips, bets, balance, state, dealer, current_seat,
                   minBet, minimum_raise, ranOut, ranFlop, then, outcome,
                   rake, away, staked, count>>

\* scFold
Fold(s) == status[s] = "psInHand" /\ FoldInTurn(s)

\* The clock of the current seat runs out: it checks if it can, else folds.
TimeOut(s) == IF bets[s] = minBet THEN PutChips(s, minBet) ELSE FoldInTurn(s)

\* The first half of Game.standUp: the stack is cashed out, the member is
\* gone, and his hand is folded.
StandUp(s) ==
    LET st == [status EXCEPT ![s] = "empty"]
    IN  /\ Free
        /\ status[s] # "empty"
        /\ count.leavers < MaxLeavers
        /\ count' = [count EXCEPT !.leavers = @ + 1]
        /\ away' = [away EXCEPT ![s] = @ + chips[s]]
        /\ chips' = [chips EXCEPT ![s] = 0]
        /\ leaving' = s
        /\ IF state \in Streets /\ s \in InHand
           THEN FoldSeat(s, st)
           ELSE /\ status' = st
                /\ keycount' = keycount - 1
                /\ pc' = "released"
                /\ UNCHANGED <<pots, failed, mv, at>>
        /\ UNCHANGED <<bets, balance, state, dealer, current_seat, minBet,
                       minimum_raise, ranOut, ranFlop, then, outcome, rake,
                       staked, acted>>

\* Mutant of Release: the bet that goes to the pot stays on the table, too
ReleaseKeepsBet ==
    /\ pc = "released" /\ failed = "no"
    /\ pc' = "free"
    /\ leaving' = NoSeat
    /\ IF leaving = NoSeat THEN UNCHANGED pots
       ELSE pots' = [pots EXCEPT ![1].value = @ + bets[leaving]]
    /\ UNCHANGED <<status, chips, bets, balance, mv, at, failed, handVars,
                   then, outcome, books>>

\* The end of a handler.  If it stands a seat up, standUp's finish1 moves
\* the seat's bet to the first pot and empties the seat.
Release ==
    /\ pc = "released" /\ failed = "no"
    /\ pc' = "free"
    /\ leaving' = NoSeat
    /\ IF leaving = NoSeat
       THEN UNCHANGED <<bets, pots, dealer, current_seat, failed>>
       ELSE /\ failed' = IF state \in {"tsIdle", "tsWinning"}
                            /\ bets[leaving] # 0
                         THEN "betLeftBehind" ELSE "no"
            /\ bets' = [bets EXCEPT ![leaving] = 0]
            /\ pots' = [pots EXCEPT ![1].value = @ + bets[leaving]]
            /\ IF \A x \in Seats : status[x] = "empty"
               THEN dealer' = -1 /\ current_seat' = -1
               ELSE UNCHANGED <<dealer, current_seat>>
    /\ UNCHANGED <<status, chips, balance, mv, at, state, minBet,
                   minimum_raise, keycount, ranOut, ranFlop, then, outcome,
                   books>>

\* scTableAddOn, Game.AddOn: chips for a member who is not in the hand.
AddOn(s, n) ==
    /\ Free /\ count.addons < MaxAddOns
    /\ status[s] \in {"psOutOfPlay", "psFolded", "psOutOfHand"}
    /\ count' = [count EXCEPT !.addons = @ + 1]
    /\ chips' = [chips EXCEPT ![s] = @ + n]
    /\ staked' = [staked EXCEPT ![s].added = @ + n]
    /\ away' = [away EXCEPT ![s] = @ - n]
    /\ UNCHANGED <<status, leaving, bets, pots, balance, mv, at, failed,
                   handVars, lockVars, acted, rake>>

\* scTablePlayNow: a member with chips comes back, and waits for a hand.  If
\* none runs, dealTimer is set, which calls stateMachine whatever the state is
\* by then: idle here, where nobody reconnects and deals before (TurnClock has
\* the timer among the others).
PlayNow(s) ==
    /\ Free
    /\ status[s] = "psOutOfPlay" /\ chips[s] > 0
    /\ status' = [status EXCEPT ![s] = "psOutOfHand"]
    /\ UNCHANGED <<leaving, chips, bets, pots, balance, mv, at, failed,
                   gameVars>>

\* scTableSitOutNextHand of a member who is not in a hand.  (Of one who is,
\* it sets the flag that HandOver goes by.)
SitOut(s) ==
    /\ Free
    /\ \/ status[s] = "psOutOfHand"
       \/ status[s] = "psInHand" /\ state = "tsIdle"
    /\ status' = [status EXCEPT ![s] = "psOutOfPlay"]
    /\ UNCHANGED <<leaving, chips, bets, pots, balance, mv, at, failed,
                   gameVars>>

-----------------------------------------------------------------------------
\* Game.canCheck
HighestBet == Max({0} \cup {bets[s] : s \in InHand})
CanCheck == {s \in CanPlay : bets[s] = HighestBet}

\* stateMachine passes over the only seat that could act.
SkipNobodyCanBet == CanPlay = {}
SkipNobody == FALSE \* mutant of SkipLastPlayer
SkipLastPlayer ==
    /\ Cardinality(CanPlay) = 1 /\ CanCheck = CanPlay
    /\ InHandCount - 1 \in 1..3

\* checkRoundPass: everybody has acted and the bets are equal.
BetsEqual ==
    LET open == {bets[s] : s \in CanPlay}
    IN  open = {} \/ open = {HighestBet}

\* stateMachine, and checkRoundPass that it calls, during a street.
StateMachine ==
    LET skip == SkipNobodyCanBet \/ SkipLastPlayer
        left == IF SkipNobodyCanBet THEN -2
                ELSE IF skip THEN keycount - 1 ELSE keycount
        over == left <= 0 /\ BetsEqual
    IN  /\ pc = "machine" /\ failed = "no"
        /\ minimum_raise' = IF Cardinality(CanPlay) = 1 THEN 0
                            ELSE minimum_raise
        /\ keycount' = left
        /\ then' = IF skip THEN "machine" ELSE "finish"
        /\ IF over
           THEN /\ pc' = IF state = "tsRiver" THEN "showdown" ELSE "street"
                /\ mv' = "pass" /\ at' = 1
           ELSE pc' = then' /\ UNCHANGED <<mv, at>>
        /\ current_seat' = IF over /\ state # "tsRiver" THEN dealer
                           ELSE IF skip THEN NextSeat(current_seat)
                           ELSE current_seat
        /\ UNCHANGED <<status, leaving, chips, bets, pots, balance, failed,
                       state, dealer, minBet, ranOut, ranFlop, outcome, books>>

\* Mutant of Finish: a seat without chips gets the turn
FinishAtEmptyStack ==
    LET next == NextSeat(current_seat)
    IN  /\ pc = "finish" /\ failed = "no"
        /\ current_seat' = next
        /\ failed' = IF next = -1 THEN "nobodyNext" ELSE "no"
        /\ pc' = "released"
        /\ UNCHANGED <<status, leaving, chips, bets, pots, balance, mv, at,
                       state, dealer, minBet, minimum_raise, keycount, ranOut,
                       ranFlop, then, outcome, books>>

\* stateMachine's finish: the turn passes to the next seat in the hand.  A
\* seat without chips is passed over, and so is everybody once that has
\* happened and two are left.
Finish ==
    LET next == NextSeat(current_seat)
    IN  /\ pc = "finish" /\ failed = "no"
        /\ current_seat' = next
        /\ failed' = IF next = -1 THEN "nobodyNext" ELSE "no"
        /\ ranOut' = (ranOut \/ (next # -1 /\ chips[next] = 0))
        /\ pc' = IF /\ next # -1
                    /\ chips[next] = 0 \/ (ranOut /\ InHandCount = 2)
                 THEN "machine" ELSE "released"
        /\ UNCHANGED <<status, leaving, chips, bets, pots, balance, mv, at,
                       state, dealer, minBet, minimum_raise, keycount, ranFlop,
                       then, outcome, books>>

\* A step of moveToPot.
MoveToPot == MoveStep /\ UNCHANGED gameVars

NextStreet ==
    [tsPreFlop |-> "tsFlop", tsFlop |-> "tsTurn", tsTurn |-> "tsRiver"]

\* checkRoundPass: the bets have been moved, roundEnd is called and a street
\* is dealt.
DealStreet ==
    /\ pc = "street" /\ Moved
    /\ mv' = "none" /\ at' = 1
    /\ minBet' = 0
    /\ minimum_raise' = IF state = "tsPreFlop" THEN BigBlind ELSE minimum_raise
    /\ keycount' = KeyCount(status, chips)
    /\ state' = NextStreet[state]
    /\ ranFlop' = TRUE
    /\ acted' = {}
    /\ pc' = then
    /\ UNCHANGED <<status, leaving, chips, bets, pots, balance, failed,
                   dealer, current_seat, ranOut, then, outcome, rake, away,
                   staked, count>>

-----------------------------------------------------------------------------
\* The ways the hands can be ranked, best last.
Rankings ==
    {rank \in [InHand -> 1..InHandCount] :
        \A s \in InHand :
            rank[s] > 1 => \E x \in InHand : rank[x] = rank[s] - 1}

\* calcWinners: the hands are ranked on two boards, the second one a copy of
\* the first unless the players have agreed to split.
CalcWinners ==
    /\ pc = "showdown" /\ Moved
    /\ \E first, second \in Rankings :
         /\ outcome' = [board \in 1..2 |-> [s \in Seats |->
                          IF s \notin InHand THEN 0
                          ELSE IF board = 1 THEN first[s] ELSE second[s]]]
    /\ pc' = "pay" /\ at' = 1 /\ mv' = "none"
    /\ minBet' = 0
    /\ state' = "tsWinning"
    /\ current_seat' = -1
    /\ UNCHANGED <<status, leaving, chips, bets, pots, balance, failed, dealer,
                   minimum_raise, keycount, ranOut, ranFlop, then, books>>

Winners(pot, board) ==
    LET claims == pot.members \cap InHand
        rank == outcome[board]
    IN  {s \in claims : \A x \in claims : rank[x] <= rank[s]}

\* Math.round, of an amount and of half of it, to whole chips
Whole(x) == Chip * ((2 * x + Chip) \div (2 * Chip))
HalfIsAll(x) == Whole(x) \* mutant of HalfOf
HalfOf(x) == Chip * ((x + Chip) \div (2 * Chip))

Share(amount, winners, s) ==
    IF s \in winners THEN amount \div Cardinality(winners) ELSE 0

\* What seat s gets of what the rake leaves of a pot: each board is worth
\* one half, and its winners share it.  A seat that is alone gets it all.
Gain(pot, net, s) ==
    IF InHandCount = 1 THEN Share(Whole(net), InHand, s)
    ELSE Share(HalfOf(net), Winners(pot, 1), s)
           + Share(HalfOf(net), Winners(pot, 2), s)

\* The rakes a pot may pay: none before the flop.
Rakes(pot) ==
    {r \in {Chip * n : n \in 0..MaxRake} :
        r = 0 \/ (ranFlop /\ r <= pot.value)}

\* One turn of doWin's loop over the pots.
PayPot ==
    /\ pc = "pay" /\ failed = "no"
    /\ at <= Len(pots)
    /\ at' = at + 1
    /\ LET pot == pots[at]
       IN  IF pot.value = 0 THEN UNCHANGED <<chips, balance, rake, failed>>
           ELSE \E r \in Rakes(pot) :
                  /\ chips' = [s \in Seats |->
                                 chips[s] + Gain(pot, pot.value - r, s)]
                  /\ balance' = [s \in Seats |->
                                   balance[s] + Gain(pot, pot.value - r, s)]
                  /\ rake' = rake + r
                  /\ failed' = IF pot.trueMembers = {}
                               THEN "potWithoutContributors" ELSE "no"
    /\ UNCHANGED <<status, leaving, bets, pots, mv, handVars, lockVars, away,
                   staked, acted, count>>

\* The end of doWin, and postWinSaveStats, which books every balance to the
\* user on the seat.
WinDone ==
    /\ pc = "pay" /\ failed = "no"
    /\ at > Len(pots)
    /\ pots' = <<EmptyPot>>
    /\ outcome' = NoOutcome
    /\ failed' = IF \E s \in Seats : balance[s] # 0 /\ ~Taken(s)
                 THEN "lossOfNobody" ELSE "no"
    /\ at' = 1
    /\ pc' = "released"
    /\ UNCHANGED <<status, leaving, chips, bets, balance, mv, handVars, then,
                   books>>

\* doWin's finish2, when the winners have been shown: everybody is in the
\* next hand but those who sit out, and stateMachine goes on.
HandOver(out) ==
    /\ Free /\ state = "tsWinning"
    /\ status' = [s \in Seats |->
                    IF status[s] \in {"empty", "psOutOfPlay"} THEN status[s]
                    ELSE IF s \in out THEN "psOutOfPlay"
                    ELSE IF status[s] = "psOutOfHand" THEN "psOutOfHand"
                    ELSE "psInHand"]
    /\ state' = "tsIdle"
    /\ current_seat' = -1
    /\ dealer' = IF \A s \in Seats : chips[s] = 0 THEN -1 ELSE dealer
    /\ pc' = "idle"
    /\ UNCHANGED <<leaving, chips, bets, pots, balance, mv, at, failed,
                   minBet, minimum_raise, keycount, ranOut, ranFlop, then,
                   outcome, books>>

-----------------------------------------------------------------------------
\* The bets tried: a few sizes, a call and all the chips.
BetsTried(s) == BetSizes \cup {minBet, bets[s] + chips[s]}

Act ==
    \/ \E s \in Seats : \/ \E bet \in BetsTried(s) : PutChips(s, bet)
                        \/ Fold(s) \/ TimeOut(s)
Leave == \E s \in Seats : StandUp(s)
Sit == \E s \in Seats : PlayNow(s) \/ SitOut(s)
Buy == \E s \in Seats, n \in Stacks : AddOn(s, n)
EndHand == \E out \in SUBSET Seats : HandOver(out)

\* What the holder of the lock does until it is released.
Locked ==
    \/ StateMachine \/ Finish \/ MoveToPot \/ DealStreet
    \/ CalcWinners \/ PayPot \/ WinDone
    \/ WaitForPlayers \/ (pc = "idle" /\ Deal) \/ Release

Next == Deal \/ Act \/ Leave \/ Sit \/ Buy \/ EndHand \/ Locked

Spec == Init /\ [][Next]_vars

\* A handler that has the lock runs to the end, the clock of the seat that
\* has the turn runs out, and a timer starts the next hand.
FairSpec ==
    /\ Spec
    /\ WF_vars(Locked)
    /\ WF_vars(\E s \in Seats : TimeOut(s))
    /\ WF_vars(EndHand)
-----------------------------------------------------------------------------
TypeOK ==
    /\ status \in [Seats -> Statuses]
    /\ leaving \in Seats \cup {NoSeat}
    /\ chips \in [Seats -> Nat]
    /\ bets \in [Seats -> Nat]
    /\ pots \in Seq(Pots)
    /\ balance \in [Seats -> Int]
    /\ mv \in {"none", "pass", "merge", "return"}
    /\ state \in States /\ pc \in Pcs /\ then \in {"machine", "finish"}
    /\ dealer \in Seats \cup {-1}
    /\ current_seat \in Seats \cup {-1}
    /\ minBet \in Nat /\ minimum_raise \in Nat /\ keycount \in Int
    /\ rake \in Nat /\ away \in [Seats -> Int]
    /\ staked \in [Seats -> [dealt : Nat, short : BOOLEAN, added : Nat]]
    /\ acted \in SUBSET Seats

\* The chips there are: on a seat, in a bet, in a pot that has not been paid
\* out, with the house, or taken home.
Unpaid == {i \in DOMAIN pots : pc = "pay" => i >= at}
OnTable ==
    SumFunction(chips) + BetTotal
      + SumFunction([i \in Unpaid |-> pots[i].value])
AllChips == OnTable + rake + SumFunction(away)

\* The step pays a pot whose halves, or whose whole, are not whole chips.
RoundsPot ==
    /\ pc = "pay" /\ at <= Len(pots)
    /\ LET net == pots[at].value - (rake' - rake)
       IN  net % (IF InHandCount = 1 THEN Chip ELSE 2 * Chip) # 0

\* No chip is made but by the rounding of a pot, and none is lost as long as
\* nobody has left.  (Some are when a member leaves a hand: a pot without a
\* winner, a bet that goes back to an empty seat.)
Conserved ==
    [][ ~RoundsPot =>
          /\ AllChips' <= AllChips
          /\ count.leavers = 0 => AllChips' = AllChips ]_vars

\* What postWinSaveStats books for a seat (GameStats, and the limit of the
\* club's member) is what the hand has done to the seat's stack: a chip that
\* leaves the stack is a bet or is booked.
BookedIsPlayed ==
    \A s \in Seats : status[s] # "empty" =>
        chips[s] + bets[s] - balance[s] = staked[s].dealt + staked[s].added

\* Between two calls, a street has a seat to act that is in the hand, and
\* somebody to act against.
SomebodyToAct ==
    Free /\ state \in Streets =>
        current_seat \in InHand /\ InHandCount >= 2

\* A folded or absent seat has no claim to a pot, at any time at which the
\* bets are not being moved.
PotsOfTheLiving ==
    mv = "none" => \A i \in DOMAIN pots : pots[i].members \subseteq InHand

\* Side pots: each seat in the hand can win, from every other seat, exactly
\* as much of what that seat has put into the pots as it has put in itself.
\* (standUp moves the bet of a seat that leaves to the first pot whatever
\* the others are, which may break this.)
Paid(s) == -balance[s]
PotsAreMade == (state \in Streets /\ mv = "none") \/ (pc = "pay" /\ at = 1)
SidePotLaw ==
    count.leavers = 0 /\ PotsAreMade =>
        \A s \in InHand :
            SumFunction([i \in DOMAIN pots |->
                           IF s \in pots[i].members THEN pots[i].value ELSE 0])
              = SumFunction([x \in Seats |->
                               IF Paid(x) < Paid(s) THEN Paid(x) ELSE Paid(s)])

\* The seats that a blind has put all in.
Short == {s \in Seats : staked[s].short}

\* A street is over only when every seat that can still bet has acted in it,
\* unless there is only one.  (The exception: a seat that its blind has put
\* all in and that the deal gives the turn to counts as one that has acted.
\* standUp counts a leaver that was not to act, so a hand that somebody has
\* left is another exception.)
StreetIsOver == pc \in {"street", "showdown"} /\ mv = "pass"
EverybodyActs ==
    count.leavers = 0 /\ StreetIsOver /\ Cardinality(CanPlay) > 1
        => \/ CanPlay \subseteq acted
           \/ state = "tsPreFlop" /\ acted \cap Short # {}

\* A seat that is all in is never folded.  (The same exception: the clock of
\* a seat that the deal gives the turn to folds it.)
AllInStaysIn ==
    [][ \A s \in Seats :
          status[s] = "psAllIn" /\ status'[s] = "psFolded"
             => state = "tsPreFlop" /\ s \in Short ]_vars

\* doWin pays what is in a pot: no chip is lost, and rounding the two halves
\* of a pot that is odd makes at most one out of nothing.  (A pot that only
\* the bet of a member who has left is in may have no winner.)
PayoutWithinRounding ==
    [][ pc = "pay" /\ count.leavers = 0 =>
          LET made == (OnTable + rake)' - (OnTable + rake)
          IN  -Chip <= made /\ made <= Chip ]_vars

\* A hand that is dealt ends, whatever the players do, and whoever has the
\* lock of the table releases it: stateMachine, which calls itself, comes
\* back.  (It need not, once a member has left a hand in which another is
\* all in.)
HandEnds ==
    /\ state \in Streets ~> state = "tsIdle" \/ count.leavers > 0
    /\ pc # "free" ~> pc = "free" \/ count.leavers > 0

\* No assertion of deal, moveToPot, fold, finish and doWin fails, as long as
\* nobody leaves.  (At a larger table moveToPot's may: with four all in, or
\* with a blind that takes all a seat has.)
NoAssertionFails == count.leavers = 0 => failed = "no"
=============================================================================
