----------------------------- MODULE HandProofs -----------------------------
(***************************************************************************)
(* What a whole hand keeps, at a table of any size, from the invariants of *)
(* BettingProofs: the chips there are, that it fails no assertion, and     *)
(* that it comes to its end: every step of a hand that nobody leaves       *)
(* shortens what is left of it.                                            *)
(***************************************************************************)
EXTENDS BettingProofs

(***************************************************************************)
(* Conservation.  A step moves chips between a stack, a bet, a pot, the    *)
(* house and what members take home.  What it needs to know of the pots is *)
(* that there is always one to put a bet in, which moveToPot never joins   *)
(* with one that holds chips nor gives back, and that nothing is in them   *)
(* between two hands, when deal starts with a new one.                     *)
(***************************************************************************)
OpenPot ==
    failed = "no" =>
        /\ Len(pots) # 0 /\ pots[Len(pots)].trueMembers = {}
        /\ \A i \in DOMAIN pots : pots[i].trueMembers # {} => pots[i].value > 0

EmptyAtRest ==
    state \notin Streets /\ pc # "pay" =>
        \A i \in DOMAIN pots : pots[i].value = 0

FInv == OpenPot /\ EmptyAtRest

SeatSum(f) == SumFunctionOnSet(f, Seats)
InPots == SumFunctionOnSet(Worth, 1..Len(pots))

LEMMA SeatSumType ==
    ASSUME NEW f, \A s \in Seats : f[s] \in Int
    PROVE  SeatSum(f) \in Int
BY SeatsFinite, SumType DEF SeatSum

\* Where the chips are, as long as no pot has been paid.
LEMMA WhereChipsAre ==
    IInv /\ (pc # "pay" \/ at = 1) =>
        /\ AllChips = SeatSum(chips) + SeatSum(bets) + InPots + rake + SeatSum(away)
        /\ OnTable = SeatSum(chips) + SeatSum(bets) + InPots
        /\ SeatSum(chips) \in Int /\ SeatSum(bets) \in Int /\ SeatSum(away) \in Int
        /\ InPots \in Int /\ rake \in Int
<1> SUFFICES ASSUME IInv, pc # "pay" \/ at = 1
             PROVE  /\ AllChips = SeatSum(chips) + SeatSum(bets) + InPots + rake
                                    + SeatSum(away)
                    /\ OnTable = SeatSum(chips) + SeatSum(bets) + InPots
                    /\ SeatSum(chips) \in Int /\ SeatSum(bets) \in Int
                    /\ SeatSum(away) \in Int /\ InPots \in Int /\ rake \in Int
  OBVIOUS
<1>1. /\ PotsTyped /\ chips \in [Seats -> Nat] /\ bets \in [Seats -> Nat]
      /\ away \in [Seats -> Int] /\ rake \in Int
  BY DEF IInv, Typed, PotsTyped, GameTyped
<1>2. /\ Len(pots) \in Nat /\ DOMAIN pots = 1..Len(pots)
      /\ \A i \in 1..Len(pots) : pots[i].value \in Nat
  BY <1>1, LedgerTypes
<1>3. Unpaid = DOMAIN pots
  BY <1>2 DEF Unpaid
<1>4. [i \in Unpaid |-> pots[i].value] = Worth
  BY <1>3 DEF Worth
<1>5. /\ SumFunction(chips) = SeatSum(chips) /\ SumFunction(bets) = SeatSum(bets)
      /\ SumFunction(away) = SeatSum(away) /\ SumFunction(Worth) = InPots
  <2>1. \A f : DOMAIN f = Seats => SumFunction(f) = SeatSum(f)
    BY SumOfDomain DEF SeatSum
  <2>2. DOMAIN Worth = 1..Len(pots)
    BY <1>2 DEF Worth
  <2> QED
    BY <1>1, <2>1, <2>2, SumOfDomain DEF InPots
<1>6. SeatSum(chips) \in Int /\ SeatSum(bets) \in Int /\ SeatSum(away) \in Int
  BY <1>1, SeatSumType
<1>7. InPots \in Int
  <2>1. \A i \in 1..Len(pots) : Worth[i] \in Int
    BY <1>2 DEF Worth
  <2>2. IsFiniteSet(1..Len(pots))
    BY <1>2, FS_Interval
  <2> QED
    BY <2>1, <2>2, SumType DEF InPots
<1>8. OnTable = SeatSum(chips) + SeatSum(bets) + InPots
  BY <1>4, <1>5 DEF OnTable, BetTotal
<1> QED
  BY <1>1, <1>5, <1>6, <1>7, <1>8 DEF AllChips

LEMMA WhereChipsAreNext ==
    ASSUME IInv', pc' # "pay" \/ at' = 1
    PROVE  /\ AllChips' = (SeatSum(chips))' + (SeatSum(bets))' + InPots'
                             + rake' + (SeatSum(away))'
           /\ (SeatSum(chips))' \in Int /\ (SeatSum(bets))' \in Int
           /\ (SeatSum(away))' \in Int /\ InPots' \in Int
<1>1. (IInv /\ (pc # "pay" \/ at = 1) =>
         /\ AllChips = SeatSum(chips) + SeatSum(bets) + InPots + rake
                         + SeatSum(away)
         /\ OnTable = SeatSum(chips) + SeatSum(bets) + InPots
         /\ SeatSum(chips) \in Int /\ SeatSum(bets) \in Int
         /\ SeatSum(away) \in Int
         /\ InPots \in Int /\ rake \in Int)'
  BY WhereChipsAre, PTL
<1> QED
  BY <1>1

\* Chips that move from one place to another are still there.
LEMMA ChipsMove ==
    ASSUME IInv, IInv', pc # "pay", pc' # "pay" \/ at' = 1, rake' = rake,
           (SeatSum(chips))' + (SeatSum(bets))' + InPots' + (SeatSum(away))'
             = SeatSum(chips) + SeatSum(bets) + InPots + SeatSum(away)
    PROVE  AllChips' = AllChips /\ AllChips \in Int
<1>1. /\ AllChips = SeatSum(chips) + SeatSum(bets) + InPots + rake
                      + SeatSum(away)
      /\ SeatSum(chips) \in Int /\ SeatSum(bets) \in Int
      /\ SeatSum(away) \in Int /\ InPots \in Int /\ rake \in Int
  BY WhereChipsAre
<1>2. /\ AllChips' = (SeatSum(chips))' + (SeatSum(bets))' + InPots' + rake'
                       + (SeatSum(away))'
      /\ (SeatSum(chips))' \in Int /\ (SeatSum(bets))' \in Int
      /\ (SeatSum(away))' \in Int /\ InPots' \in Int
  BY WhereChipsAreNext
<1> DEFINE c == SeatSum(chips)
           b == SeatSum(bets)
           p == InPots
           a == SeatSum(away)
           c1 == (SeatSum(chips))'
           b1 == (SeatSum(bets))'
           p1 == InPots'
           a1 == (SeatSum(away))'
<1>3. /\ AllChips = c + b + p + rake + a
      /\ AllChips' = c1 + b1 + p1 + rake + a1
      /\ c1 + b1 + p1 + a1 = c + b + p + a
      /\ c \in Int /\ b \in Int /\ p \in Int /\ a \in Int
      /\ c1 \in Int /\ b1 \in Int /\ p1 \in Int /\ a1 \in Int
      /\ rake \in Int
  BY <1>1, <1>2
<1> HIDE DEF c, b, p, a, c1, b1, p1, a1
<1>4. c1 + b1 + p1 + rake + a1 = c + b + p + rake + a
  BY <1>3
<1> QED
  BY <1>3, <1>4

\* A step that moves none.
LEMMA ChipsStay ==
    ASSUME IInv, IInv', pc # "pay", pc' # "pay" \/ at' = 1,
           UNCHANGED <<chips, bets, away, rake>>, Worth' = Worth,
           Len(pots') = Len(pots)
    PROVE  AllChips' = AllChips /\ AllChips \in Int
<1>1. /\ (SeatSum(chips))' = SeatSum(chips)
      /\ (SeatSum(bets))' = SeatSum(bets)
      /\ InPots' = InPots /\ (SeatSum(away))' = SeatSum(away)
  BY DEF SeatSum, InPots
<1> QED
  BY <1>1, ChipsMove

ChipsKept == FInv' /\ AllChips' = AllChips /\ AllChips \in Int

\* What seat s has changes, and nothing else does.
LEMMA SeatSumChange ==
    ASSUME NEW f \in [Seats -> Int], NEW g \in [Seats -> Int], NEW s \in Seats,
           \A x \in Seats \ {s} : g[x] = f[x]
    PROVE  SeatSum(g) = SeatSum(f) + (g[s] - f[s])
<1>1. SeatSum(g) = SeatSum(f) - f[s] + g[s]
  BY SeatsFinite, SumChange DEF SeatSum
<1>2. SeatSum(f) \in Int /\ f[s] \in Int /\ g[s] \in Int
  BY SeatSumType
<1> DEFINE t == SeatSum(f)
           u == f[s]
           v == g[s]
<1>3. SeatSum(g) = t - u + v /\ t \in Int /\ u \in Int /\ v \in Int
  BY <1>1, <1>2
<1> HIDE DEF t, u, v
<1>4. SeatSum(g) = t + (v - u)
  BY <1>3
<1> QED
  BY <1>4 DEF t, u, v

\* The types the sums need.
FundsTypes ==
    /\ chips \in [Seats -> Int] /\ bets \in [Seats -> Int]
    /\ away \in [Seats -> Int] /\ rake \in Nat
    /\ \A s \in Seats : chips[s] \in Nat /\ bets[s] \in Nat
    /\ pots \in Seq(Pots) /\ at \in Nat \ {0}
    /\ Len(pots) \in Nat /\ DOMAIN pots = 1..Len(pots)
    /\ \A i \in 1..Len(pots) : pots[i] \in Pots /\ pots[i].value \in Nat

LEMMA FundsTyped == IInv => FundsTypes
<1> SUFFICES ASSUME IInv PROVE FundsTypes
  OBVIOUS
<1>1. PotsTyped /\ GameTyped
  BY DEF IInv, Typed
<1>2. /\ chips \in [Seats -> Nat] /\ bets \in [Seats -> Nat]
      /\ away \in [Seats -> Int] /\ rake \in Nat
      /\ pots \in Seq(Pots) /\ at \in Nat \ {0}
  BY <1>1 DEF PotsTyped, GameTyped
<1>3. chips \in [Seats -> Int] /\ bets \in [Seats -> Int]
  BY <1>2
<1> QED
  BY <1>1, <1>2, <1>3, LedgerTypes DEF FundsTypes

\* in the state before a step and in the one after it.
LEMMA FundsTypedBoth ==
    ASSUME IInv, IInv'
    PROVE  FundsTypes /\ FundsTypes'
<1>1. (IInv => FundsTypes)'
  BY FundsTyped, PTL
<1> QED
  BY <1>1, FundsTyped

LEMMA InitFunds == Init => FInv
<1> SUFFICES ASSUME Init PROVE FInv
  OBVIOUS
<1>1. pots = <<EmptyPot>>
  BY DEF Init
<1> QED
  BY <1>1, OneEmptyPot DEF FInv, OpenPot, EmptyAtRest, EmptyPot

\* Steps that leave the chips where they are.
LEMMA QuietFunds ==
    ASSUME IInv, IInv', FInv, failed = "no",
           pc # "pay", pc' # "pay" \/ at' = 1,
           UNCHANGED <<chips, bets, pots, away, rake>>,
           state' \notin Streets /\ pc' # "pay" => state \notin Streets
    PROVE  ChipsKept
<1>1. FInv'
  BY DEF FInv, OpenPot, EmptyAtRest
<1>2. Worth' = Worth
  BY DEF Worth
<1> QED
  BY <1>1, <1>2, ChipsStay DEF ChipsKept

LEMMA StateMachineFunds ==
    ASSUME IInv, IInv', FInv,
           StateMachine \/ Finish \/ WaitForPlayers \/ DealStreet
             \/ CalcWinners \/ Sit \/ EndHand
    PROVE  ChipsKept
<1>1. CASE StateMachine \/ Finish \/ WaitForPlayers
  <2>1. /\ UNCHANGED <<chips, bets, pots, away, rake, state>>
        /\ failed = "no" /\ pc # "pay" /\ pc' # "pay"
    BY <1>1 DEF StateMachine, Finish, WaitForPlayers, books, handVars
  <2> QED
    BY <2>1, QuietFunds
<1>2. CASE DealStreet
  <2>1. /\ UNCHANGED <<chips, bets, pots, away, rake>>
        /\ failed = "no" /\ pc = "street" /\ pc' # "pay"
    <3>1. then # "pay"
      BY DEF IInv, Typed, GameTyped
    <3> QED
      BY <1>2, <3>1 DEF DealStreet, Moved
  <2>2. state \in Streets
    BY <2>1 DEF IInv, Control
  <2>3. state' \in Streets
    BY <1>2, <2>1, <2>2 DEF DealStreet, IInv, Control, NextStreet, Streets
  <2> QED
    BY <2>1, <2>3, QuietFunds
<1>3. CASE CalcWinners
  <2>1. /\ UNCHANGED <<chips, bets, pots, away, rake>>
        /\ failed = "no" /\ pc # "pay" /\ pc' = "pay" /\ at' = 1
    BY <1>3 DEF CalcWinners, Moved, books
  <2> QED
    BY <2>1, QuietFunds
<1>4. CASE Sit
  <2>1. /\ UNCHANGED <<chips, bets, pots, away, rake, state>>
        /\ failed = "no" /\ pc # "pay" /\ pc' # "pay"
    BY <1>4 DEF Sit, PlayNow, SitOut, Free, gameVars, handVars, lockVars,
       books
  <2> QED
    BY <2>1, QuietFunds
<1>5. CASE EndHand
  <2>1. /\ UNCHANGED <<chips, bets, pots, away, rake>>
        /\ failed = "no" /\ pc # "pay" /\ pc' # "pay" /\ state \notin Streets
    BY <1>5 DEF EndHand, HandOver, Free, books, Streets
  <2> QED
    BY <2>1, QuietFunds
<1> QED
  BY <1>1, <1>2, <1>3, <1>4, <1>5

\* A bet takes from the stack what it adds to the bet.
LEMMA PutChipsFunds ==
    ASSUME IInv, IInv', FInv, NEW s \in Seats, NEW bet \in Nat,
           PutChips(s, bet)
    PROVE  ChipsKept
<1>1. /\ bets' = [bets EXCEPT ![s] = bet]
      /\ chips' = [chips EXCEPT ![s] = @ - (bet - bets[s])]
      /\ UNCHANGED <<pots, state, away, rake, failed>>
      /\ pc = "free" /\ pc' = "machine"
      /\ failed = "no"
      /\ bet - bets[s] \in Int
  <2>1. bet - bets[s] \in Int
    BY FundsTypedBoth DEF FundsTypes
  <2> QED
    BY <2>1 DEF PutChips, Free
<1>2. FundsTypes /\ FundsTypes'
  BY FundsTypedBoth
<1>3. /\ bets'[s] - bets[s] = bet - bets[s]
      /\ chips'[s] - chips[s] = -(bet - bets[s])
      /\ \A x \in Seats \ {s} : bets'[x] = bets[x] /\ chips'[x] = chips[x]
  BY <1>1, <1>2 DEF FundsTypes
<1>4. /\ (SeatSum(bets))' = SeatSum(bets) + (bets'[s] - bets[s])
      /\ (SeatSum(chips))' = SeatSum(chips) + (chips'[s] - chips[s])
  <2>1. /\ SeatSum(bets') = SeatSum(bets) + (bets'[s] - bets[s])
        /\ SeatSum(chips') = SeatSum(chips) + (chips'[s] - chips[s])
    BY <1>2, <1>3, SeatSumChange, Zenon DEF FundsTypes
  <2> QED
    BY <2>1 DEF SeatSum
<1>5. InPots' = InPots /\ (SeatSum(away))' = SeatSum(away)
  BY <1>1 DEF InPots, Worth, SeatSum
<1>6. /\ SeatSum(chips) \in Int /\ SeatSum(bets) \in Int
      /\ SeatSum(away) \in Int /\ InPots \in Int
  BY <1>1, WhereChipsAre
<1>7. (SeatSum(chips))' + (SeatSum(bets))' + InPots' + (SeatSum(away))'
        = SeatSum(chips) + SeatSum(bets) + InPots + SeatSum(away)
  <2> DEFINE c == SeatSum(chips)
             b == SeatSum(bets)
             a == SeatSum(away)
             p == InPots
             d == bet - bets[s]
  <2>1. /\ (SeatSum(chips))' = c + (-d) /\ (SeatSum(bets))' = b + d
        /\ InPots' = p /\ (SeatSum(away))' = a
        /\ c \in Int /\ b \in Int /\ a \in Int /\ p \in Int /\ d \in Int
    BY <1>1, <1>3, <1>4, <1>5, <1>6
  <2> HIDE DEF c, b, a, p, d
  <2>2. (c + (-d)) + (b + d) + p + a = c + b + p + a
    BY <2>1
  <2> QED
    BY <2>1, <2>2 DEF c, b, a, p
<1>8. FInv'
  BY <1>1 DEF FInv, OpenPot, EmptyAtRest, Free
<1> QED
  BY <1>1, <1>7, <1>8, ChipsMove DEF ChipsKept

\* A fold takes no chip out of a pot.
LEMMA FoldSeatPots ==
    ASSUME IInv, IInv', FInv, NEW s \in Seats, NEW st, FoldSeat(s, st), Free,
           state \in Streets, state' = state
    PROVE  FInv' /\ Worth' = Worth /\ Len(pots') = Len(pots) /\ pc' # "pay"
<1>1. /\ pots' = [i \in DOMAIN pots |-> [pots[i] EXCEPT !.members = @ \ {s}]]
      /\ pc = "free" /\ failed = "no"
  BY DEF FoldSeat, Free
<1>2. pc' # "pay"
  BY <1>1 DEF FoldSeat
<1>3. FundsTypes
  BY FundsTyped
<1>4. /\ DOMAIN pots' = DOMAIN pots
      /\ \A i \in DOMAIN pots : /\ pots'[i].value = pots[i].value
                                /\ pots'[i].trueMembers = pots[i].trueMembers
  BY <1>1, <1>3 DEF FundsTypes, Pots
<1>5. Len(pots') = Len(pots)
  <2>1. DOMAIN pots' = 1..Len(pots') /\ Len(pots') \in Nat
    BY FundsTypedBoth DEF FundsTypes
  <2> QED
    BY <1>3, <1>4, <2>1, SameInterval DEF FundsTypes
<1>6. Worth' = Worth
  BY <1>4 DEF Worth
<1>7. OpenPot'
  <2>1. Len(pots) \in DOMAIN pots
    BY <1>1, <1>3 DEF FundsTypes, FInv, OpenPot
  <2> QED
    BY <1>1, <1>4, <1>5, <2>1 DEF FInv, OpenPot
<1> QED
  BY <1>2, <1>5, <1>6, <1>7 DEF FInv, EmptyAtRest

LEMMA FoldInTurnFunds ==
    ASSUME IInv, IInv', FInv, NEW s \in Seats, FoldInTurn(s)
    PROVE  ChipsKept
<1>1. /\ UNCHANGED <<chips, bets, away, rake>> /\ state' = state
      /\ state \in Streets /\ Free /\ pc = "free" /\ FoldSeat(s, status)
  BY DEF FoldInTurn, Free
<1>2. FInv' /\ Worth' = Worth /\ Len(pots') = Len(pots) /\ pc' # "pay"
  BY <1>1, FoldSeatPots
<1> QED
  BY <1>1, <1>2, ChipsStay DEF ChipsKept

\* Whoever stands up takes his stack home.
LEMMA StandUpFunds ==
    ASSUME IInv, IInv', FInv, NEW s \in Seats, StandUp(s)
    PROVE  ChipsKept
<1> DEFINE st == [status EXCEPT ![s] = "empty"]
<1>1. /\ Free /\ pc = "free" /\ failed = "no"
      /\ chips' = [chips EXCEPT ![s] = 0]
      /\ away' = [away EXCEPT ![s] = @ + chips[s]]
      /\ UNCHANGED <<bets, state, rake>>
      /\ \/ state \in Streets /\ FoldSeat(s, st)
         \/ pc' = "released" /\ UNCHANGED <<pots, failed>>
  BY DEF StandUp, Free
<1>2. FInv' /\ Worth' = Worth /\ Len(pots') = Len(pots) /\ pc' # "pay"
  <2>1. CASE state \in Streets /\ FoldSeat(s, st)
    <3> HIDE DEF st
    <3> QED
      BY <1>1, <2>1, FoldSeatPots
  <2>2. CASE pc' = "released" /\ UNCHANGED <<pots, failed>>
    BY <1>1, <2>2 DEF FInv, OpenPot, EmptyAtRest, Worth
  <2> QED
    BY <1>1, <2>1, <2>2
<1>3. FundsTypes /\ FundsTypes'
  BY FundsTypedBoth
<1>4. /\ chips'[s] - chips[s] = -chips[s] /\ chips[s] \in Int
      /\ away'[s] - away[s] = chips[s]
      /\ \A x \in Seats \ {s} : chips'[x] = chips[x] /\ away'[x] = away[x]
  BY <1>1, <1>3 DEF FundsTypes
<1>5. /\ (SeatSum(away))' = SeatSum(away) + (away'[s] - away[s])
      /\ (SeatSum(chips))' = SeatSum(chips) + (chips'[s] - chips[s])
  <2>1. /\ SeatSum(away') = SeatSum(away) + (away'[s] - away[s])
        /\ SeatSum(chips') = SeatSum(chips) + (chips'[s] - chips[s])
    BY <1>3, <1>4, SeatSumChange, Zenon DEF FundsTypes
  <2> QED
    BY <2>1 DEF SeatSum
<1>6. InPots' = InPots /\ (SeatSum(bets))' = SeatSum(bets)
  BY <1>1, <1>2 DEF InPots, SeatSum
<1>7. /\ SeatSum(chips) \in Int /\ SeatSum(bets) \in Int
      /\ SeatSum(away) \in Int /\ InPots \in Int
  BY <1>1, WhereChipsAre
<1>8. (SeatSum(chips))' + (SeatSum(bets))' + InPots' + (SeatSum(away))'
        = SeatSum(chips) + SeatSum(bets) + InPots + SeatSum(away)
  <2> DEFINE c == SeatSum(chips)
             b == SeatSum(bets)
             a == SeatSum(away)
             p == InPots
             d == chips[s]
  <2>1. /\ (SeatSum(chips))' = c + (-d) /\ (SeatSum(bets))' = b
        /\ InPots' = p /\ (SeatSum(away))' = a + d
        /\ c \in Int /\ b \in Int /\ a \in Int /\ p \in Int /\ d \in Int
    BY <1>4, <1>5, <1>6, <1>7
  <2> HIDE DEF c, b, a, p, d
  <2>2. (c + (-d)) + b + p + (a + d) = c + b + p + a
    BY <2>1
  <2> QED
    BY <2>1, <2>2 DEF c, b, a, p
<1> QED
  BY <1>1, <1>2, <1>8, ChipsMove DEF ChipsKept

\* An add-on brings them from there.
LEMMA AddOnFunds ==
    ASSUME IInv, IInv', FInv, Buy
    PROVE  ChipsKept
<1>1. PICK s \in Seats, n \in Stacks : AddOn(s, n)
  BY DEF Buy
<1>2. /\ pc = "free" /\ pc' = "free" /\ failed = "no"
      /\ chips' = [chips EXCEPT ![s] = @ + n]
      /\ away' = [away EXCEPT ![s] = @ - n]
      /\ UNCHANGED <<bets, pots, state, rake, failed>>
  BY <1>1 DEF AddOn, Free, handVars, lockVars
<1>3. FInv' /\ Worth' = Worth /\ Len(pots') = Len(pots) /\ n \in Int
  BY <1>2, BettingAssumption DEF FInv, OpenPot, EmptyAtRest, Worth
<1>4. FundsTypes /\ FundsTypes'
  BY FundsTypedBoth
<1>5. /\ chips'[s] - chips[s] = n /\ away'[s] - away[s] = -n
      /\ \A x \in Seats \ {s} : chips'[x] = chips[x] /\ away'[x] = away[x]
  BY <1>2, <1>3, <1>4 DEF FundsTypes
<1>6. /\ (SeatSum(away))' = SeatSum(away) + (away'[s] - away[s])
      /\ (SeatSum(chips))' = SeatSum(chips) + (chips'[s] - chips[s])
  <2>1. /\ away \in [Seats -> Int] /\ away' \in [Seats -> Int]
        /\ chips \in [Seats -> Int] /\ chips' \in [Seats -> Int]
    BY <1>4 DEF FundsTypes
  <2>2. SeatSum(away') = SeatSum(away) + (away'[s] - away[s])
    BY <1>1, <1>5, <2>1, SeatSumChange
  <2>3. SeatSum(chips') = SeatSum(chips) + (chips'[s] - chips[s])
    BY <1>1, <1>5, <2>1, SeatSumChange
  <2> QED
    BY <2>2, <2>3 DEF SeatSum
<1>7. InPots' = InPots /\ (SeatSum(bets))' = SeatSum(bets)
  BY <1>2, <1>3 DEF InPots, SeatSum
<1>8. /\ SeatSum(chips) \in Int /\ SeatSum(bets) \in Int
      /\ SeatSum(away) \in Int /\ InPots \in Int
  BY <1>2, WhereChipsAre
<1>9. (SeatSum(chips))' + (SeatSum(bets))' + InPots' + (SeatSum(away))'
        = SeatSum(chips) + SeatSum(bets) + InPots + SeatSum(away)
  <2> DEFINE c == SeatSum(chips)
             b == SeatSum(bets)
             a == SeatSum(away)
             p == InPots
  <2>1. /\ (SeatSum(chips))' = c + n /\ (SeatSum(bets))' = b
        /\ InPots' = p /\ (SeatSum(away))' = a + (-n)
        /\ c \in Int /\ b \in Int /\ a \in Int /\ p \in Int
    BY <1>5, <1>6, <1>7, <1>8
  <2> HIDE DEF c, b, a, p
  <2>2. (c + n) + b + p + (a + (-n)) = c + b + p + a
    BY <1>3, <2>1
  <2> QED
    BY <2>1, <2>2 DEF c, b, a, p
<1> QED
  BY <1>2, <1>3, <1>9, ChipsMove DEF ChipsKept

\* The chips on a blind come from the stack.  There was nothing in the bets
\* and the pots.
LEMMA DealFunds ==
    ASSUME IInv, IInv', FInv, Deal
    PROVE  ChipsKept
<1>1. PICK due : /\ chips' = [s \in Seats |-> chips[s] - due[s]]
                 /\ bets' = due
  BY DEF Deal
<1>2. /\ pots' = <<EmptyPot>> /\ UNCHANGED <<away, rake>>
      /\ pc \in {"free", "idle"} /\ pc' = "free" /\ state = "tsIdle"
      /\ state' = "tsPreFlop"
  BY DEF Deal, Free
<1>3. FundsTypes /\ FundsTypes'
  BY FundsTypedBoth
<1>4. Len(pots') = 1 /\ FInv'
  BY <1>2, OneEmptyPot
     DEF FInv, OpenPot, EmptyAtRest, EmptyPot, Streets
<1>5. /\ \A s \in Seats : bets[s] = 0
      /\ \A i \in DOMAIN pots : pots[i].value = 0
  BY <1>2 DEF IInv, Resting, FInv, EmptyAtRest, Streets
<1>6. InPots = 0 /\ InPots' = 0
  <2>1. \A i \in 1..Len(pots) : Worth[i] = 0
    BY <1>3, <1>5 DEF FundsTypes, Worth
  <2>2. \A i \in 1..Len(pots') : Worth'[i] = 0
    BY <1>2, <1>4, OneEmptyPot DEF Worth, EmptyPot
  <2>3. IsFiniteSet(1..Len(pots)) /\ IsFiniteSet(1..Len(pots'))
    BY <1>3, <1>4, FS_Interval DEF FundsTypes
  <2> QED
    BY <2>1, <2>2, <2>3, SumZero DEF InPots
<1>7. /\ SeatSum(bets) = 0 /\ SeatSum(chips) = SeatSum(chips') + SeatSum(bets')
  <2>1. SeatSum(bets) = 0
    BY <1>5, SeatsFinite, SumZero DEF SeatSum
  <2>2. \A s \in Seats : /\ chips'[s] \in Int /\ bets'[s] \in Int
                         /\ chips[s] = chips'[s] + bets'[s]
    BY <1>1, <1>3 DEF FundsTypes
  <2>3. SeatSum(chips) = SeatSum(chips') + SeatSum(bets')
    BY <2>2, SeatsFinite, SumAdd DEF SeatSum
  <2> QED
    BY <2>1, <2>3
<1>8. /\ SeatSum(bets) = 0 /\ (SeatSum(away))' = SeatSum(away)
      /\ SeatSum(chips) = (SeatSum(chips))' + (SeatSum(bets))'
  BY <1>2, <1>7 DEF SeatSum
<1>9. /\ SeatSum(away) \in Int /\ SeatSum(chips) \in Int
      /\ (SeatSum(chips))' \in Int /\ (SeatSum(bets))' \in Int
  <2>1. pc # "pay" /\ pc' # "pay"
    BY <1>2
  <2> QED
    BY <2>1, WhereChipsAre, WhereChipsAreNext
<1>10. (SeatSum(chips))' + (SeatSum(bets))' + InPots' + (SeatSum(away))'
         = SeatSum(chips) + SeatSum(bets) + InPots + SeatSum(away)
  <2> DEFINE c == SeatSum(chips)
             a == SeatSum(away)
             c1 == (SeatSum(chips))'
             b1 == (SeatSum(bets))'
  <2>1. /\ SeatSum(bets) = 0 /\ InPots = 0 /\ InPots' = 0
        /\ (SeatSum(away))' = a /\ c = c1 + b1
        /\ c \in Int /\ a \in Int /\ c1 \in Int /\ b1 \in Int
    BY <1>6, <1>8, <1>9
  <2> HIDE DEF c, a, c1, b1
  <2>2. c1 + b1 + 0 + a = c + 0 + 0 + a
    BY <2>1
  <2> QED
    BY <2>1, <2>2 DEF c, a, c1, b1
<1>11. pc # "pay" /\ (pc' # "pay" \/ at' = 1) /\ rake' = rake
  BY <1>2
<1> QED
  BY <1>4, <1>10, <1>11, ChipsMove DEF ChipsKept

\* One pot changes its worth.
LEMMA InPotsChange ==
    ASSUME FundsTypes, FundsTypes', Len(pots') = Len(pots),
           NEW i \in 1..Len(pots),
           \A j \in 1..Len(pots) : j # i => pots'[j].value = pots[j].value
    PROVE  InPots' = InPots + (pots'[i].value - pots[i].value)
<1> DEFINE D == 1..Len(pots)
           old == Worth
           new == Worth'
           k == i
<1>1. IsFiniteSet(D) /\ k \in D
  BY FS_Interval DEF FundsTypes
<1>2. \A j \in D : /\ old[j] = pots[j].value /\ old[j] \in Int
                   /\ new[j] = pots'[j].value /\ new[j] \in Int
  <2>1. DOMAIN pots = D /\ DOMAIN pots' = D
    BY DEF FundsTypes
  <2>2. \A j \in D : old[j] = pots[j].value /\ new[j] = pots'[j].value
    BY <2>1 DEF Worth
  <2> QED
    BY <2>2 DEF FundsTypes
<1> HIDE DEF old, new, D, k
<1>3. SumFunctionOnSet(new, D) = SumFunctionOnSet(old, D) - old[k] + new[k]
  <2>1. \A j \in D \ {k} : old[j] = new[j]
    BY <1>2 DEF D, k
  <2>2. \A j \in D : old[j] \in Int /\ new[j] \in Int
    BY <1>2
  <2> QED
    BY <1>1, <2>1, <2>2, SumChange
<1>4. SumFunctionOnSet(old, D) \in Int
  BY <1>1, <1>2, SumType
<1>5. InPots = SumFunctionOnSet(old, D) /\ InPots' = SumFunctionOnSet(new, D)
  BY DEF InPots, old, new, D
<1> DEFINE x == SumFunctionOnSet(old, D)
           y == old[k]
           z == new[k]
<1>6. /\ InPots = x /\ InPots' = x - y + z
      /\ x \in Int /\ y \in Int /\ z \in Int
      /\ y = pots[i].value /\ z = pots'[i].value
  BY <1>1, <1>2, <1>3, <1>4, <1>5 DEF k
<1> HIDE DEF x, y, z
<1>7. InPots' = x + (z - y)
  BY <1>6
<1> QED
  BY <1>6, <1>7

\* standUp moves the bet of the seat it has emptied to the first pot.
LEMMA ReleaseFunds ==
    ASSUME IInv, IInv', FInv, Release
    PROVE  ChipsKept
<1>1. /\ pc = "released" /\ pc' = "free" /\ failed = "no"
      /\ UNCHANGED <<chips, away, rake, state>>
  BY DEF Release, books
<1>2. CASE leaving = NoSeat
  BY <1>1, <1>2, QuietFunds DEF Release
<1>3. CASE leaving # NoSeat
  <2> DEFINE z == leaving
             d == bets[leaving]
  <2>1. /\ bets' = [bets EXCEPT ![z] = 0]
        /\ pots' = [pots EXCEPT ![1].value = @ + d]
    BY <1>3 DEF Release
  <2>2. z \in Seats
    BY <1>3 DEF IInv, Typed, PotsTyped
  <2>3. FundsTypes /\ FundsTypes'
    BY FundsTypedBoth
  <2>4. 1 \in 1..Len(pots) /\ d \in Nat
    BY <1>1, <2>2, <2>3 DEF FundsTypes, FInv, OpenPot
  <2> HIDE DEF z, d
  <2>5. /\ DOMAIN pots' = DOMAIN pots /\ Len(pots') = Len(pots)
        /\ pots'[1].value - pots[1].value = d
        /\ \A j \in 1..Len(pots) :
              /\ j # 1 => pots'[j].value = pots[j].value
              /\ pots'[j].value \in {pots[j].value, pots[j].value + d}
              /\ pots'[j].trueMembers = pots[j].trueMembers
    <3>1. DOMAIN pots' = DOMAIN pots
      BY <2>1
    <3>2. Len(pots') = Len(pots)
      BY <2>3, <3>1, SameInterval DEF FundsTypes
    <3>3. /\ pots[1] \in Pots
          /\ pots'[1] = [pots[1] EXCEPT !.value = pots[1].value + d]
          /\ \A j \in 1..Len(pots) : j # 1 => pots'[j] = pots[j]
      BY <2>1, <2>3, <2>4 DEF FundsTypes
    <3>4. /\ pots'[1].value = pots[1].value + d /\ pots[1].value \in Nat
          /\ pots'[1].trueMembers = pots[1].trueMembers
      BY <3>3 DEF Pots
    <3>5. pots'[1].value - pots[1].value = d
      BY <2>4, <3>4
    <3>6. ASSUME NEW j \in 1..Len(pots)
          PROVE  /\ j # 1 => pots'[j].value = pots[j].value
                 /\ pots'[j].value \in {pots[j].value, pots[j].value + d}
                 /\ pots'[j].trueMembers = pots[j].trueMembers
      <4>1. CASE j = 1
        BY <3>4, <4>1
      <4>2. CASE j # 1
        BY <3>3, <4>2
      <4> QED
        BY <4>1, <4>2
    <3> QED
      BY <3>1, <3>2, <3>5, <3>6
  <2>6. InPots' = InPots + d
    BY <2>3, <2>4, <2>5, InPotsChange
  <2>7. (SeatSum(bets))' = SeatSum(bets) + (0 - d)
    <3>1. /\ bets'[z] - bets[z] = 0 - d
          /\ \A x \in Seats \ {z} : bets'[x] = bets[x]
      BY <2>1, <2>2, <2>3 DEF FundsTypes, z, d
    <3>2. SeatSum(bets') = SeatSum(bets) + (bets'[z] - bets[z])
      BY <2>2, <2>3, <3>1, SeatSumChange DEF FundsTypes
    <3> QED
      BY <3>1, <3>2 DEF SeatSum
  <2>8. /\ SeatSum(chips) \in Int /\ SeatSum(bets) \in Int
        /\ SeatSum(away) \in Int /\ InPots \in Int
    BY <1>1, WhereChipsAre
  <2>9. (SeatSum(chips))' = SeatSum(chips) /\ (SeatSum(away))' = SeatSum(away)
    BY <1>1 DEF SeatSum
  <2>10. (SeatSum(chips))' + (SeatSum(bets))' + InPots' + (SeatSum(away))'
           = SeatSum(chips) + SeatSum(bets) + InPots + SeatSum(away)
    <3> DEFINE c == SeatSum(chips)
               b == SeatSum(bets)
               a == SeatSum(away)
               p == InPots
    <3>1. /\ (SeatSum(chips))' = c /\ (SeatSum(bets))' = b + (0 - d)
          /\ InPots' = p + d /\ (SeatSum(away))' = a
          /\ c \in Int /\ b \in Int /\ a \in Int /\ p \in Int /\ d \in Int
      BY <2>4, <2>6, <2>7, <2>8, <2>9
    <3> HIDE DEF c, b, a, p
    <3>2. c + (b + (0 - d)) + (p + d) + a = c + b + p + a
      BY <3>1
    <3> QED
      BY <3>1, <3>2 DEF c, b, a, p
  <2>11. OpenPot'
    <3>2. Len(pots) # 0 /\ Len(pots) \in 1..Len(pots)
      BY <1>1, <2>3 DEF FundsTypes, FInv, OpenPot
    <3>3. /\ Len(pots') = Len(pots) /\ DOMAIN pots' = 1..Len(pots)
          /\ pots'[Len(pots)].trueMembers = {}
      BY <1>1, <2>3, <2>5, <3>2 DEF FInv, OpenPot, FundsTypes
    <3>4. ASSUME NEW j \in 1..Len(pots), pots'[j].trueMembers # {}
          PROVE  pots'[j].value > 0
      <4>1. pots[j].value > 0 /\ pots[j].value \in Nat
        BY <1>1, <2>3, <2>5, <3>4 DEF FInv, OpenPot, FundsTypes
      <4>2. pots'[j].value \in {pots[j].value, pots[j].value + d}
        BY <2>5
      <4> QED
        BY <2>4, <4>1, <4>2
    <3> QED
      BY <3>2, <3>3, <3>4 DEF OpenPot
  <2>12. EmptyAtRest'
    <3>1. state \notin Streets => d = 0
      BY <2>2 DEF d, z, IInv, Resting
    <3> QED
      BY <1>1, <2>3, <2>5, <3>1 DEF FInv, EmptyAtRest, FundsTypes
  <2> QED
    BY <1>1, <2>10, <2>11, <2>12, ChipsMove DEF ChipsKept, FInv
<1> QED
  BY <1>2, <1>3

\* The sum of the pots over the seats and the bets, when chips only move
\* between them.
LEMMA ChipsMoveOn ==
    ASSUME IInv, IInv', pc # "pay", pc' = pc, UNCHANGED <<away, rake>>,
           NEW c \in Int, NEW b \in Int, NEW p \in Int,
           (SeatSum(chips))' = SeatSum(chips) + c,
           (SeatSum(bets))' = SeatSum(bets) + b, InPots' = InPots + p
    PROVE  /\ AllChips' = AllChips + (c + b + p)
           /\ AllChips \in Int
<1>1. /\ AllChips = SeatSum(chips) + SeatSum(bets) + InPots + rake
                      + SeatSum(away)
      /\ SeatSum(chips) \in Int /\ SeatSum(bets) \in Int
      /\ SeatSum(away) \in Int /\ InPots \in Int /\ rake \in Int
  BY WhereChipsAre
<1>2. AllChips' = (SeatSum(chips))' + (SeatSum(bets))' + InPots' + rake'
                    + (SeatSum(away))'
  BY WhereChipsAreNext
<1>3. (SeatSum(away))' = SeatSum(away)
  BY DEF SeatSum
<1> DEFINE x == SeatSum(chips)
           y == SeatSum(bets)
           z == InPots
           w == SeatSum(away)
           r == rake
<1>4. /\ AllChips = x + y + z + r + w
      /\ AllChips' = (x + c) + (y + b) + (z + p) + r + w
      /\ x \in Int /\ y \in Int /\ z \in Int /\ w \in Int /\ r \in Int
  BY <1>1, <1>2, <1>3
<1> HIDE DEF x, y, z, w, r
<1> QED
  BY <1>4

\* A pass of moveToPot: what the bettors lose is in the last pot.
LEMMA MovePassFunds ==
    ASSUME IInv, IInv', FInv, pc \in {"street", "showdown"}, MovePass,
           UNCHANGED gameVars
    PROVE  ChipsKept
<1>1. /\ UNCHANGED <<chips, away, rake, state, pc>> /\ failed = "no"
      /\ state \in Streets /\ MoveInv
  BY DEF MovePass, gameVars, handVars, lockVars, books, IInv, Control, Typed,
         MoveInv
<1>2. CASE Bettors = {}
  BY <1>1, <1>2, QuietFunds DEF MovePass
<1>3. CASE Bettors # {}
  <2> DEFINE L == Len(pots)
             B == Bettors
  <2>1. FundsTypes /\ FundsTypes' /\ L \in Nat \ {0} /\ L \in 1..L
    BY <1>1, FundsTypedBoth DEF FInv, OpenPot, FundsTypes
  <2>2. PICK m \in Nat \ {0} :
          /\ bets' = [s \in Seats |->
                        IF s \in B THEN bets[s] - m ELSE bets[s]]
          /\ Len(pots') = L + 1
          /\ DOMAIN pots' = 1..(L + 1)
          /\ pots'[L + 1] = EmptyPot
          /\ pots'[L] = AddToPot(pots[L], m, B)
          /\ \A i \in 1..(L - 1) : pots'[i] = pots[i]
    BY <1>1, <1>3, <2>1, PassShape
  <2> DEFINE paid == m * Cardinality(B)
  <2>3. B \in SUBSET Seats /\ Cardinality(B) \in Nat \ {0}
    BY <1>3, SeatsFinite, FS_EmptySet, FS_Subset, FS_CardinalityType
       DEF Bettors
  <2>4. paid \in Nat /\ paid > 0
    <3>1. \A a, b \in Nat \ {0} : a * b \in Nat /\ a * b > 0
      OBVIOUS
    <3> HIDE DEF B
    <3> QED
      BY <2>3, <3>1
  <2>5. pots'[L].value = pots[L].value + paid /\ pots[L].value \in Nat
    BY <2>1, <2>2 DEF AddToPot, FundsTypes
  <2>6. \A s \in Seats : bets'[s] = IF s \in B THEN bets[s] - m ELSE bets[s]
    BY <2>2
  <2> HIDE DEF L, B, paid
  <2>7. SeatSum(bets) = SeatSum(bets') + paid
    <3> DEFINE g == [s \in Seats |-> IF s \in B THEN m ELSE 0]
    <3>1. \A s \in Seats : /\ bets'[s] \in Int /\ g[s] \in Int
                           /\ bets[s] = bets'[s] + g[s]
      <4>1. \A s \in Seats : bets[s] \in Int /\ bets'[s] \in Int /\ m \in Int
        BY <2>1 DEF FundsTypes
      <4> QED
        BY <2>6, <4>1
    <3>2. \A s \in Seats : g[s] = IF s \in B THEN m ELSE 0
      OBVIOUS
    <3> HIDE DEF g
    <3>3. SumFunctionOnSet(g, Seats) = paid
      BY <2>3, <3>2, SeatsFinite, SumCount DEF paid
    <3> QED
      BY <3>1, <3>3, SeatsFinite, SumAdd DEF SeatSum
  <2>8. InPots' = InPots + paid
    <3> DEFINE f == Worth
               g == Worth'
    <3>1. /\ \A j \in 1..L : f[j] = pots[j].value /\ f[j] \in Int
          /\ \A j \in 1..(L + 1) : g[j] = pots'[j].value
      <4>1. DOMAIN pots = 1..L /\ DOMAIN pots' = 1..(L + 1)
        BY <2>1, <2>2 DEF FundsTypes, L
      <4>2. /\ \A j \in 1..L : f[j] = pots[j].value
            /\ \A j \in 1..(L + 1) : g[j] = pots'[j].value
        BY <4>1 DEF Worth
      <4>3. \A j \in 1..L : pots[j].value \in Int
        BY <2>1 DEF FundsTypes, L
      <4> HIDE DEF f, g
      <4> QED
        BY <4>2, <4>3
    <3>2. g[L] = f[L] + paid /\ g[L + 1] = 0
      BY <2>1, <2>2, <2>5, <3>1 DEF EmptyPot
    <3>3. \A j \in 1..(L - 1) : g[j] = f[j]
      BY <2>1, <2>2, <3>1
    <3> HIDE DEF f, g
    <3>4. \A j \in 1..L : f[j] \in Int
      BY <3>1
    <3>5. paid \in Int
      BY <2>4
    <3>6. SumFunctionOnSet(g, 1..(L + 1)) = SumFunctionOnSet(f, 1..L) + paid
      BY <2>1, <3>2, <3>3, <3>4, <3>5, SumLast
    <3> QED
      BY <2>2, <3>6 DEF InPots, f, g, L
  <2>9. (SeatSum(bets))' = SeatSum(bets) + (0 - paid)
    <3>1. SeatSum(bets') = (SeatSum(bets))' /\ (SeatSum(bets))' \in Int
      BY <1>1, WhereChipsAreNext DEF SeatSum
    <3> QED
      BY <2>4, <2>7, <3>1
  <2>10. AllChips' = AllChips /\ AllChips \in Int
    <3>1. /\ (SeatSum(chips))' = SeatSum(chips) + 0
          /\ SeatSum(chips) \in Int
      BY <1>1, WhereChipsAre DEF SeatSum
    <3>2. 0 \in Int /\ 0 - paid \in Int /\ paid \in Int
      BY <2>4
    <3>3. /\ AllChips' = AllChips + (0 + (0 - paid) + paid)
          /\ AllChips \in Int
      BY <1>1, <2>8, <2>9, <3>1, <3>2, ChipsMoveOn
    <3> QED
      BY <3>2, <3>3
  <2>11. OpenPot'
    <3>1. ASSUME NEW i \in 1..(L + 1), pots'[i].trueMembers # {}
          PROVE  pots'[i].value > 0
      <4>1. i = L \/ i = L + 1 \/ i \in 1..(L - 1)
        BY <2>1
      <4>2. i \in 1..(L - 1) => i \in DOMAIN pots
        BY <2>1 DEF FundsTypes, L
      <4>3. CASE i = L
        BY <2>4, <2>5, <4>3
      <4>4. CASE i = L + 1
        BY <2>2, <3>1, <4>4 DEF EmptyPot
      <4>5. CASE i \in 1..(L - 1)
        BY <1>1, <2>2, <3>1, <4>2, <4>5 DEF FInv, OpenPot
      <4> QED
        BY <4>1, <4>3, <4>4, <4>5
    <3> QED
      BY <2>1, <2>2, <3>1 DEF OpenPot, EmptyPot
  <2> QED
    BY <1>1, <2>10, <2>11 DEF ChipsKept, FInv, EmptyAtRest
<1> QED
  BY <1>2, <1>3

\* Joining two pots.
LEMMA MergePotsFunds ==
    ASSUME IInv, IInv', HInv, FInv, pc \in {"street", "showdown"}, MergePots,
           UNCHANGED gameVars
    PROVE  ChipsKept
<1>1. /\ UNCHANGED <<chips, bets, away, rake, state, pc>> /\ failed = "no"
      /\ state \in Streets /\ MoveInv
  BY DEF MergePots, gameVars, handVars, lockVars, books, IInv, Control, Typed,
         MoveInv
<1>2. CASE pots' = pots
  BY <1>1, <1>2, QuietFunds
<1>3. CASE pots' # pots
  <2> DEFINE L == Len(pots)
             k == at
  <2>1. /\ FundsTypes /\ FundsTypes' /\ L \in Nat /\ DOMAIN pots = 1..L
        /\ \A i \in 1..L : pots[i].value \in Nat
    BY FundsTypedBoth DEF FundsTypes
  <2>2. /\ k \in 1..(L - 1) /\ pots[k].members = pots[k + 1].members
        /\ Len(pots') = L - 1 /\ DOMAIN pots' = 1..(L - 1)
        /\ \A i \in 1..(L - 1) :
             LET old == pots[IF i < k + 1 THEN i ELSE i + 1]
             IN  /\ pots'[i].trueMembers = old.trueMembers
                 /\ pots'[i].value =
                      IF i = k THEN pots[k].value + pots[k + 1].value
                      ELSE old.value
    BY <1>1, <1>3, JoinShape
  <2>3. failed' = IF pots[k].value > 0 /\ pots[k].members = {}
                  THEN "potWithoutMembers" ELSE "no"
    <3>1. ~ (at >= Len(pots))
      BY <2>1, <2>2
    <3> QED
      BY <3>1 DEF MergePots
  <2>4. k \in 1..L /\ k + 1 \in 1..L /\ L \in 1..L
    BY <2>1, <2>2
  <2> HIDE DEF L, k
  <2>5. InPots' = InPots
    <3> DEFINE f == Worth
               g == Worth'
    <3>1. \A j \in 1..L : f[j] = pots[j].value
      BY <2>1 DEF Worth
    <3>2. \A j \in 1..(L - 1) : g[j] = pots'[j].value
      BY <2>2 DEF Worth
    <3> HIDE DEF f, g
    <3>3. \A j \in 1..L : f[j] \in Int
      BY <2>1, <3>1
    <3>4. ASSUME NEW j \in 1..(L - 1)
          PROVE  g[j] = IF j = k THEN f[k] + f[k + 1]
                        ELSE IF j < k THEN f[j] ELSE f[j + 1]
      <4>1. j \in 1..L /\ j + 1 \in 1..L
        BY <2>1
      <4>2. CASE j = k
        BY <2>2, <2>4, <3>1, <3>2, <4>2
      <4>3. CASE j < k
        BY <2>1, <2>2, <3>1, <3>2, <4>1, <4>3
      <4>4. CASE j > k
        BY <2>1, <2>2, <3>1, <3>2, <4>1, <4>4
      <4> QED
        BY <2>1, <2>2, <4>2, <4>3, <4>4
    <3>5. SumFunctionOnSet(g, 1..(L - 1)) = SumFunctionOnSet(f, 1..L)
      BY <2>1, <2>2, <3>3, <3>4, SumJoin
    <3> QED
      BY <2>2, <3>5 DEF InPots, f, g, L
  <2>6. AllChips' = AllChips /\ AllChips \in Int
    <3>1. /\ (SeatSum(chips))' = SeatSum(chips)
          /\ (SeatSum(bets))' = SeatSum(bets)
          /\ (SeatSum(away))' = SeatSum(away)
      BY <1>1 DEF SeatSum
    <3> QED
      BY <1>1, <2>5, <3>1, ChipsMove
  <2>7. ASSUME failed' = "no"
        PROVE  OpenPot'
    <3>1. /\ pots[L].trueMembers = {} /\ pots[L].members = {}
          /\ \A i \in 1..L : pots[i].trueMembers # {} => pots[i].value > 0
      BY <1>1, <2>1, <2>4
         DEF FInv, OpenPot, HInv, Claims, MembersPaid, L
    <3>2. k + 1 = L => pots[k].trueMembers = {}
      <4>1. k + 1 = L => pots[k].members = {}
        BY <2>2, <3>1
      <4>2. k + 1 = L => pots[k].value = 0
        BY <2>1, <2>3, <2>4, <2>7, <4>1
      <4> QED
        BY <2>1, <2>4, <3>1, <4>2
    <3>3. L - 1 \in 1..(L - 1) /\ L - 1 # 0
      BY <2>1, <2>2
    <3>4. pots'[L - 1].trueMembers = {}
      <4>1. CASE k + 1 = L
        <5>1. L - 1 = k /\ L - 1 < k + 1
          BY <2>1, <2>4, <4>1
        <5> QED
          BY <2>2, <3>2, <3>3, <4>1, <5>1
      <4>2. CASE k + 1 # L
        <5>1. ~ (L - 1 < k + 1) /\ (L - 1) + 1 = L
          BY <2>1, <2>2, <4>2
        <5> QED
          BY <2>2, <3>1, <3>3, <5>1
      <4> QED
        BY <4>1, <4>2
    <3>5. ASSUME NEW i \in 1..(L - 1), pots'[i].trueMembers # {}
          PROVE  pots'[i].value > 0
      <4> DEFINE o == IF i < k + 1 THEN i ELSE i + 1
      <4>1. o \in 1..L
        BY <2>1
      <4>2. /\ pots'[i].trueMembers = pots[o].trueMembers
            /\ pots'[i].value =
                 IF i = k THEN pots[k].value + pots[k + 1].value
                 ELSE pots[o].value
        BY <2>2
      <4>3. pots[o].value > 0
        BY <3>1, <3>5, <4>1, <4>2
      <4>4. i = k => o = k
        BY <2>4
      <4> HIDE DEF o
      <4> QED
        BY <2>1, <2>4, <4>1, <4>2, <4>3, <4>4
    <3> QED
      BY <2>2, <3>3, <3>4, <3>5 DEF OpenPot
  <2>8. OpenPot'
    BY <2>7 DEF OpenPot
  <2> QED
    BY <1>1, <2>6, <2>8 DEF ChipsKept, FInv, EmptyAtRest
<1> QED
  BY <1>2, <1>3

\* What Conserved asks of a step.
ChipsNotMade ==
    /\ FInv' /\ AllChips \in Int /\ AllChips' <= AllChips
    /\ count.leavers = 0 => AllChips' = AllChips

\* Giving a pot back: the chips are gone if there is nobody to give it to,
\* and somebody has left then.
LEMMA ReturnPotFunds ==
    ASSUME IInv, IInv', LInv, FInv, pc \in {"street", "showdown"}, ReturnPot,
           UNCHANGED gameVars
    PROVE  ChipsNotMade
<1>1. /\ UNCHANGED <<bets, away, rake, state, pc, failed>> /\ failed = "no"
      /\ state \in Streets /\ MoveInv
  BY DEF ReturnPot, gameVars, handVars, lockVars, books, IInv, Control, Typed,
         MoveInv
<1>2. CASE ~ Sole(pots[at])
  <2>1. UNCHANGED <<chips, pots>>
    BY <1>1, <1>2, ReturnShape
  <2>2. ChipsKept
    BY <1>1, <2>1, QuietFunds
  <2> QED
    BY <2>2 DEF ChipsKept, ChipsNotMade
<1>3. CASE Sole(pots[at])
  <2> DEFINE L == Len(pots)
             k == at
             v == pots[k].value
             z == Lowest(pots[k].members)
             given == pots[k].members # {} /\ status[z] # "empty"
             g == IF given THEN v ELSE 0
  <2>1. /\ FundsTypes /\ FundsTypes' /\ L \in Nat /\ DOMAIN pots = 1..L
        /\ \A i \in 1..L : pots[i].value \in Nat
    BY FundsTypedBoth DEF FundsTypes
  <2>2. /\ k \in 1..L /\ Len(pots') = L - 1 /\ DOMAIN pots' = 1..(L - 1)
        /\ \A i \in 1..(L - 1) :
              pots'[i] = IF i < k THEN pots[i] ELSE pots[i + 1]
    BY <1>1, <1>3, ReturnShape
  <2>3. k # L /\ L \in 1..L
    <3>1. pots[L].trueMembers = {}
      BY <1>1 DEF FInv, OpenPot
    <3>2. ~ Sole(pots[L])
      BY <3>1, FS_EmptySet DEF Sole
    <3> QED
      BY <1>3, <2>1, <2>2, <3>2
  <2>4. \A s \in Seats : chips'[s] = IF s = z /\ given THEN chips[s] + v
                                     ELSE chips[s]
    <3>1. chips' = [s \in Seats |->
             IF s = (IF pots[at].members = {} THEN NoSeat
                     ELSE Lowest(pots[at].members)) /\ status[s] # "empty"
             THEN chips[s] + pots[at].value ELSE chips[s]]
      BY <1>3 DEF ReturnPot, Sole
    <3>2. \A s \in Seats : s # NoSeat
      BY DEF Seats, NoSeat
    <3> QED
      BY <3>1, <3>2
  <2>5. given => z \in Seats
    <3>1. pots[k] \in Pots
      BY <2>1, <2>2 DEF FundsTypes
    <3>2. pots[k].members \in SUBSET Nat /\ pots[k].members \in SUBSET Seats
      BY <3>1 DEF Pots, Seats
    <3> QED
      BY <3>2, LowestIsLeast
  <2>6. count.leavers = 0 => given
    <3>1. SUFFICES ASSUME count.leavers = 0 PROVE given
      OBVIOUS
    <3>2. SoleIsLast /\ NobodyGone
      BY <1>1, <3>1 DEF LInv, Kept, Books, Ledger
    <3>3. pots[k].members # {}
      BY <1>3, <2>1, <2>2, <3>2 DEF SoleIsLast
    <3>4. z \in pots[k].members /\ z \in Seats
      <4>1. pots[k] \in Pots
        BY <2>1, <2>2 DEF FundsTypes
      <4>2. pots[k].members \in SUBSET Nat /\ pots[k].members \in SUBSET Seats
        BY <4>1 DEF Pots, Seats
      <4> QED
        BY <3>3, <4>2, LowestIsLeast
    <3>5. status[z] # "empty"
      BY <2>1, <2>2, <3>2, <3>4 DEF NobodyGone
    <3> QED
      BY <3>3, <3>5
  <2>7. v \in Nat /\ g \in Int /\ g <= v /\ (given => g = v)
    BY <2>1, <2>2
  <2> HIDE DEF L, k, v, z, given
  <2>8. (SeatSum(chips))' = SeatSum(chips) + g
    <3>1. CASE given
      <4>1. /\ \A x \in Seats \ {z} : chips'[x] = chips[x]
            /\ chips'[z] = chips[z] + v /\ chips[z] \in Int
        BY <2>1, <2>4, <2>5, <3>1 DEF FundsTypes
      <4>2. SeatSum(chips') = SeatSum(chips) + (chips'[z] - chips[z])
        BY <2>1, <2>5, <3>1, <4>1, SeatSumChange DEF FundsTypes
      <4>3. chips'[z] - chips[z] = v
        BY <2>7, <4>1
      <4> QED
        BY <2>7, <3>1, <4>2, <4>3 DEF SeatSum
    <3>2. CASE ~ given
      <4>1. chips' = chips
        BY <2>1, <2>4, <3>2 DEF FundsTypes
      <4>2. (SeatSum(chips))' = SeatSum(chips) /\ SeatSum(chips) \in Int
        BY <1>1, <4>1, WhereChipsAre DEF SeatSum
      <4> QED
        BY <3>2, <4>2
    <3> QED
      BY <3>1, <3>2
  <2>9. InPots' = InPots + (0 - v)
    <3> DEFINE f == Worth
               h == Worth'
    <3>1. \A j \in 1..L : f[j] = pots[j].value
      BY <2>1 DEF Worth
    <3>2. \A j \in 1..(L - 1) : h[j] = pots'[j].value
      BY <2>2 DEF Worth
    <3> HIDE DEF f, h
    <3>3. \A j \in 1..L : f[j] \in Int
      BY <2>1, <3>1
    <3>4. ASSUME NEW j \in 1..(L - 1)
          PROVE  h[j] = IF j < k THEN f[j] ELSE f[j + 1]
      <4>1. j \in 1..L /\ j + 1 \in 1..L
        BY <2>1
      <4> QED
        BY <2>2, <3>1, <3>2, <4>1
    <3>5. SumFunctionOnSet(h, 1..(L - 1)) = SumFunctionOnSet(f, 1..L) - f[k]
      BY <2>1, <2>2, <3>3, <3>4, SumWithout, Zenon
    <3>6. f[k] = v
      BY <2>2, <3>1 DEF v
    <3>7. InPots' = InPots - v
      BY <2>2, <3>5, <3>6 DEF InPots, f, h, L
    <3>8. InPots \in Int
      BY <1>1, WhereChipsAre
    <3> QED
      BY <2>7, <3>7, <3>8
  <2>10. AllChips' = AllChips + (g + 0 + (0 - v)) /\ AllChips \in Int
    <3>1. /\ (SeatSum(bets))' = SeatSum(bets) + 0
          /\ SeatSum(bets) \in Int
      BY <1>1, WhereChipsAre DEF SeatSum
    <3>2. g \in Int /\ 0 \in Int /\ 0 - v \in Int
      BY <2>7
    <3> HIDE DEF g
    <3> QED
      BY <1>1, <2>8, <2>9, <3>1, <3>2, ChipsMoveOn
  <2>11. OpenPot'
    <3>1. \A i \in 1..L : pots[i].trueMembers # {} => pots[i].value > 0
      BY <1>1, <2>1 DEF FInv, OpenPot
    <3>2. \A i \in 1..(L - 1) : i \in 1..L /\ i + 1 \in 1..L
      BY <2>1
    <3>3. /\ L - 1 \in 1..(L - 1) /\ L - 1 # 0 /\ ~ (L - 1 < k)
          /\ (L - 1) + 1 = L
      BY <2>1, <2>2, <2>3
    <3>4. pots'[L - 1] = pots[L]
      BY <2>2, <3>3
    <3>5. pots[L].trueMembers = {}
      BY <1>1 DEF FInv, OpenPot, L
    <3>6. \A i \in 1..(L - 1) :
             pots'[i].trueMembers # {} => pots'[i].value > 0
      BY <2>2, <3>1, <3>2
    <3> QED
      BY <2>2, <3>3, <3>4, <3>5, <3>6 DEF OpenPot
  <2>12. AllChips' <= AllChips /\ (count.leavers = 0 => AllChips' = AllChips)
    <3> HIDE DEF g
    <3> QED
      BY <2>6, <2>7, <2>10
  <2> QED
    BY <1>1, <2>10, <2>11, <2>12 DEF ChipsNotMade, FInv, EmptyAtRest
<1> QED
  BY <1>2, <1>3

LEMMA MoveToPotFunds ==
    ASSUME IInv, IInv', HInv, LInv, FInv, MoveToPot
    PROVE  ChipsNotMade
<1>1. pc \in {"street", "showdown"} /\ UNCHANGED gameVars
  BY DEF MoveToPot, MoveStep, MovePass, MergePots, ReturnPot, IInv, Control
<1>2. CASE MovePass
  <2>1. ChipsKept
    BY <1>1, <1>2, MovePassFunds
  <2> QED
    BY <2>1 DEF ChipsKept, ChipsNotMade
<1>3. CASE MergePots
  <2>1. ChipsKept
    BY <1>1, <1>3, MergePotsFunds
  <2> QED
    BY <2>1 DEF ChipsKept, ChipsNotMade
<1>4. CASE ReturnPot
  BY <1>1, <1>4, ReturnPotFunds
<1> QED
  BY <1>2, <1>3, <1>4 DEF MoveToPot, MoveStep

\* A pot that divides into whole chips pays what it holds, or less if a
\* board has no winner.
LEMMA WholeIsExact ==
    ASSUME NEW x \in Nat
    PROVE  /\ x % Chip = 0 => Whole(x) = x
           /\ x % (2 * Chip) = 0 => HalfOf(x) + HalfOf(x) = x
<1>1. Chip \in Nat /\ Chip > 0
  BY BettingAssumption
<1>2. \A m, k, c \in Nat : c < m => (m * k + c) \div m = k
  OBVIOUS
<1>3. \A m, y \in Nat : m > 0 /\ y % m = 0 => \E k \in Nat : y = m * k
  <2>1. \A m, y \in Nat : m > 0 /\ y % m = 0 =>
           y \div m \in Nat /\ y = m * (y \div m)
    OBVIOUS
  <2> QED
    BY <2>1
<1>4. ASSUME x % Chip = 0 PROVE Whole(x) = x
  <2>1. PICK k \in Nat : x = Chip * k
    BY <1>1, <1>3, <1>4
  <2>2. 2 * x = (2 * Chip) * k
    BY <1>1, <2>1
  <2>3. (2 * x + Chip) \div (2 * Chip) = k
    <3> DEFINE m == 2 * Chip
    <3>1. m \in Nat /\ Chip < m /\ 2 * x = m * k
      BY <1>1, <2>2
    <3> HIDE DEF m
    <3>2. (m * k + Chip) \div m = k
      BY <1>1, <1>2, <3>1
    <3> QED
      BY <3>1, <3>2 DEF m
  <2> QED
    BY <2>1, <2>3 DEF Whole
<1>5. ASSUME x % (2 * Chip) = 0 PROVE HalfOf(x) + HalfOf(x) = x
  <2> DEFINE m == 2 * Chip
  <2>1. m \in Nat /\ Chip < m /\ m > 0 /\ x % m = 0
    BY <1>1, <1>5
  <2> HIDE DEF m
  <2>2. PICK k \in Nat : x = m * k
    BY <1>3, <2>1
  <2>3. (x + Chip) \div m = k
    BY <1>1, <1>2, <2>1, <2>2
  <2>4. HalfOf(x) = Chip * k
    BY <2>3 DEF HalfOf, m
  <2>5. Chip * k + Chip * k = (2 * Chip) * k
    BY <1>1
  <2> QED
    BY <2>2, <2>4, <2>5 DEF m
<1> QED
  BY <1>4, <1>5

LEMMA GainsAreExact ==
    ASSUME Ranked, NEW pot \in Pots, NEW net \in Nat,
           net % (IF InHandCount = 1 THEN Chip ELSE 2 * Chip) = 0
    PROVE  LET paid == SumFunctionOnSet(Gains(pot, net), Seats)
           IN  /\ paid \in Int /\ paid <= net
               /\ pot.members # {} /\ pot.members \subseteq InHand
                    => paid = net
<1>1. InHand \in SUBSET Seats /\ IsFiniteSet(Seats) /\ IsFiniteSet(InHand)
  BY SeatsFinite, FS_Subset DEF InHand
<1>2. Chip \in Nat
  BY BettingAssumption
<1>3. CASE InHandCount = 1
  <2>1. PICK q \in Nat : Whole(net) = Chip * q
    BY WholeIsNear
  <2> DEFINE f == Gains(pot, net)
  <2>2. \A s \in Seats : f[s] = Share(Chip * q, InHand, s)
    BY <1>3, <2>1 DEF Gains, Gain
  <2>3. InHand # {}
    BY <1>1, <1>3, FS_EmptySet DEF InHandCount
  <2> HIDE DEF f
  <2>4. SumFunctionOnSet(f, Seats) = Chip * q
    BY <1>1, <2>2, <2>3, SharedOut
  <2>5. Whole(net) = net
    BY <1>3, WholeIsExact
  <2> QED
    BY <2>1, <2>4, <2>5 DEF f
<1>4. CASE InHandCount # 1
  <2>1. PICK q \in Nat : HalfOf(net) = Chip * q
    BY HalfIsNear
  <2> DEFINE W1 == Winners(pot, 1)
             W2 == Winners(pot, 2)
             f == [s \in Seats |-> Share(HalfOf(net), W1, s)]
             g == [s \in Seats |-> Share(HalfOf(net), W2, s)]
             h == Gains(pot, net)
  <2>2. W1 \in SUBSET Seats /\ W2 \in SUBSET Seats
    BY <1>1 DEF Winners
  <2>3. /\ \A s \in Seats : f[s] = Share(Chip * q, W1, s)
        /\ \A s \in Seats : g[s] = Share(Chip * q, W2, s)
        /\ \A s \in Seats : h[s] = f[s] + g[s]
    BY <1>4, <2>1 DEF Gains, Gain
  <2>4. pot.members # {} /\ pot.members \subseteq InHand
          => W1 # {} /\ W2 # {}
    BY SomebodyWins
  <2> HIDE DEF W1, W2, f, g, h
  <2>5. ASSUME NEW W \in SUBSET Seats, NEW e,
               \A s \in Seats : e[s] = Share(Chip * q, W, s)
        PROVE  /\ SumFunctionOnSet(e, Seats) =
                    IF W = {} THEN 0 ELSE Chip * q
               /\ \A s \in Seats : e[s] \in Int
    <3>1. CASE W = {}
      <4>1. \A s \in Seats : e[s] = 0
        BY <2>5, <3>1 DEF Share
      <4>2. SumFunctionOnSet(e, Seats) = 0
        BY <1>1, <4>1, SumZero
      <4> QED
        BY <3>1, <4>1, <4>2
    <3>2. CASE W # {}
      <4>1. SumFunctionOnSet(e, Seats) = Chip * q
        BY <2>5, <3>2, SharedOut
      <4>2. Chip * q \in Nat
        BY <1>2
      <4>3. \A s \in Seats : Share(Chip * q, W, s) \in Nat
        BY <3>2, <4>2, ShareType
      <4> QED
        BY <2>5, <3>2, <4>1, <4>3
    <3> QED
      BY <3>1, <3>2
  <2>6. /\ SumFunctionOnSet(f, Seats) = IF W1 = {} THEN 0 ELSE Chip * q
        /\ \A s \in Seats : f[s] \in Int
    BY <2>2, <2>3, <2>5
  <2>7. /\ SumFunctionOnSet(g, Seats) = IF W2 = {} THEN 0 ELSE Chip * q
        /\ \A s \in Seats : g[s] \in Int
    BY <2>2, <2>3, <2>5
  <2>8. SumFunctionOnSet(h, Seats)
          = SumFunctionOnSet(f, Seats) + SumFunctionOnSet(g, Seats)
    BY <1>1, <2>3, <2>6, <2>7, SumAdd
  <2>9. HalfOf(net) + HalfOf(net) = net
    BY <1>4, WholeIsExact
  <2> DEFINE p == Chip * q
             sum == SumFunctionOnSet(h, Seats)
  <2>10. /\ p \in Nat /\ p + p = net
         /\ sum = (IF W1 = {} THEN 0 ELSE p) + (IF W2 = {} THEN 0 ELSE p)
    BY <1>2, <2>1, <2>6, <2>7, <2>8, <2>9
  <2> HIDE DEF p, sum
  <2>11. sum \in Int /\ sum <= net /\ (W1 # {} /\ W2 # {} => sum = net)
    BY <2>10
  <2> QED
    BY <2>4, <2>11 DEF h, sum
<1> QED
  BY <1>3, <1>4

\* What Conserved says of a step.
ChipsAccounted ==
    ~ RoundsPot => /\ AllChips' <= AllChips
                   /\ count.leavers = 0 => AllChips' = AllChips

\* A pot is paid.
LEMMA PayPotFunds ==
    ASSUME IInv, HInv, WInv, FInv, PayPot
    PROVE  FInv' /\ ChipsAccounted
<1> DEFINE pot == pots[at]
           v == pot.value
<1>1. /\ UNCHANGED <<pots, away>> /\ pc = "pay" /\ pc' = "pay"
      /\ failed = "no" /\ at <= Len(pots)
  BY DEF PayPot, lockVars
<1>2. FInv'
  BY <1>1 DEF FInv, OpenPot, EmptyAtRest
<1>3. ASSUME ~ RoundsPot
      PROVE  /\ AllChips' <= AllChips
             /\ count.leavers = 0 => AllChips' = AllChips
  <2>1. PICK r \in 0..v, p \in Int :
           /\ rake' = rake + r
           /\ p = IF v = 0 THEN 0
                  ELSE SumFunctionOnSet(Gains(pot, v - r), Seats)
           /\ (OnTable + rake)' - (OnTable + rake) = p + r - v
           /\ OnTable \in Int /\ OnTable' \in Int
    BY PayPotBooks
  <2>2. pot \in Pots /\ v \in Nat /\ v - r \in Nat /\ rake \in Nat /\ r \in Nat
    BY PotToPay DEF IInv, Typed, GameTyped
  <2>3. p <= v - r /\ (count.leavers = 0 => p = v - r)
    <3>1. CASE v = 0
      <4> HIDE DEF v
      <4>1. r = 0 /\ p = 0
        BY <2>1, <2>2, <3>1
      <4> QED
        BY <3>1, <4>1
    <3>2. CASE v # 0
      <4>1. (v - r) % (IF InHandCount = 1 THEN Chip ELSE 2 * Chip) = 0
        <5>1. rake' - rake = r
          BY <2>1, <2>2
        <5> QED
          BY <1>1, <1>3, <5>1 DEF RoundsPot
      <4> DEFINE paid == SumFunctionOnSet(Gains(pot, v - r), Seats)
      <4>2. /\ paid <= v - r
            /\ pot.members # {} /\ pot.members \subseteq InHand
                 => paid = v - r
        BY <2>2, <4>1, GainsAreExact DEF WInv
      <4>3. count.leavers = 0
              => pot.members # {} /\ pot.members \subseteq InHand
        BY <3>2, PotHasWinners
      <4>4. p = paid
        BY <2>1, <3>2
      <4> HIDE DEF paid
      <4> QED
        BY <4>2, <4>3, <4>4
    <3> QED
      BY <3>1, <3>2
  <2>4. SumFunction(away) \in Int /\ SumFunction(away') = SumFunction(away)
    <3>1. away \in [Seats -> Int]
      BY DEF IInv, Typed, GameTyped
    <3>2. SumFunction(away) = SeatSum(away)
      BY <3>1, SumOfDomain DEF SeatSum
    <3> QED
      BY <1>1, <3>1, <3>2, SeatSumType
  <2> DEFINE t == OnTable
             t1 == OnTable'
             a == SumFunction(away)
  <2>5. /\ AllChips = t + rake + a /\ AllChips' = t1 + rake' + a
        /\ (t1 + rake') - (t + rake) = p + r - v
        /\ t \in Int /\ t1 \in Int /\ a \in Int
    BY <2>1, <2>4 DEF AllChips
  <2> HIDE DEF t, t1, a, v, pot
  <2>6. rake' \in Int
    BY <2>1, <2>2
  <2> DEFINE old == t + rake + a
             new == t1 + rake' + a
             net == v - r
  <2>7. /\ new - old = p - net /\ old \in Int /\ new \in Int /\ net \in Int
        /\ p \in Int
    BY <2>1, <2>2, <2>5, <2>6
  <2>8. p <= net /\ (count.leavers = 0 => p = net)
    BY <2>3
  <2> HIDE DEF old, new, net
  <2>9. new <= old /\ (count.leavers = 0 => new = old)
    BY <2>7, <2>8
  <2> QED
    BY <2>5, <2>9 DEF old, new
<1> QED
  BY <1>2, <1>3 DEF ChipsAccounted

\* The pots have been paid.
LEMMA WinDoneFunds ==
    ASSUME IInv, FInv, WinDone
    PROVE  FInv' /\ ChipsAccounted
<1>1. pots' = <<EmptyPot>> /\ UNCHANGED away
  BY DEF WinDone, books
<1>2. FInv'
  <2>1. Len(pots') = 1
    BY <1>1
  <2> QED
    BY <1>1, <2>1, OneEmptyPot DEF FInv, OpenPot, EmptyAtRest, EmptyPot
<1>3. OnTable' = OnTable /\ OnTable \in Int /\ rake' = rake
  BY WinDonePays
<1>4. /\ rake \in Int /\ SumFunction(away) \in Int
      /\ SumFunction(away') = SumFunction(away)
  <2>1. away \in [Seats -> Int] /\ rake \in Nat
    BY DEF IInv, Typed, GameTyped
  <2>2. SumFunction(away) = SeatSum(away)
    BY <2>1, SumOfDomain DEF SeatSum
  <2> QED
    BY <1>1, <2>1, <2>2, SeatSumType
<1>5. AllChips' = AllChips /\ AllChips \in Int
  BY <1>3, <1>4 DEF AllChips
<1> QED
  BY <1>2, <1>5 DEF ChipsAccounted

LEMMA AllStepsFunds ==
    ASSUME IInv, IInv', HInv, LInv, WInv, FInv, Next
    PROVE  FInv' /\ ChipsAccounted
<1>1. ChipsNotMade => FInv' /\ ChipsAccounted
  BY DEF ChipsNotMade, ChipsAccounted
<1>2. ChipsKept => FInv' /\ ChipsAccounted
  BY DEF ChipsKept, ChipsAccounted
<1>3. CASE Act
  <2>1. PICK s \in Seats : \/ \E bet \in BetsTried(s) : PutChips(s, bet)
                           \/ Fold(s) \/ TimeOut(s)
    BY <1>3 DEF Act
  <2>2. minBet \in Nat /\ BetsTried(s) \subseteq Nat
    BY BetsTriedType
  <2>3. (\E bet \in Nat : PutChips(s, bet)) \/ FoldInTurn(s)
    BY <2>1, <2>2 DEF Fold, TimeOut
  <2>4. ChipsKept
    BY <2>3, PutChipsFunds, FoldInTurnFunds
  <2> QED
    BY <1>2, <2>4
<1>4. CASE Deal \/ Leave \/ Sit \/ Buy \/ EndHand
  <2>1. ChipsKept
    BY <1>4, DealFunds, StandUpFunds, StateMachineFunds, AddOnFunds DEF Leave
  <2> QED
    BY <1>2, <2>1
<1>5. CASE StateMachine \/ Finish \/ DealStreet \/ CalcWinners
             \/ WaitForPlayers \/ Release
  <2>1. ChipsKept
    BY <1>5, StateMachineFunds, ReleaseFunds
  <2> QED
    BY <1>2, <2>1
<1>6. CASE MoveToPot
  BY <1>1, <1>6, MoveToPotFunds
<1>7. CASE PayPot \/ WinDone
  BY <1>7, PayPotFunds, WinDoneFunds
<1> QED
  BY <1>3, <1>4, <1>5, <1>6, <1>7 DEF Next, Locked

LEMMA FundsInvariance == Spec => []FInv
<1>1. FInv /\ UNCHANGED vars => FInv'
  BY DEF vars, potVars, gameVars, handVars, lockVars, FInv, OpenPot,
     EmptyAtRest
<1>2. IInv /\ IInv' /\ HInv /\ LInv /\ WInv /\ FInv /\ [Next]_vars => FInv'
  BY <1>1, AllStepsFunds
<1> QED
  BY <1>2, InitFunds, Invariance, HandInvariance, LawInvariance,
     WinsInvariance, PTL DEF Spec

\* A hand makes no chips but by rounding a pot to whole ones, and loses none
\* as long as nobody has stood up: at a table of any size, after any bets,
\* side pots and returns of a pot, and whatever the rake.
THEOREM ChipsAreConserved == Spec => Conserved
<1>1. IInv /\ IInv' /\ HInv /\ LInv /\ WInv /\ FInv /\ [Next]_vars
        => [ChipsAccounted]_vars
  BY AllStepsFunds
<1> HIDE DEF ChipsAccounted
<1>2. Spec => [][ChipsAccounted]_vars
  BY <1>1, FundsInvariance, Invariance, HandInvariance, LawInvariance,
     WinsInvariance, PTL DEF Spec
<1> QED
  BY <1>2 DEF Conserved, ChipsAccounted

-----------------------------------------------------------------------------
(***************************************************************************)
(* The assertions.  As long as nobody leaves, fold finds somebody left,    *)
(* the deal two players, finish a next seat, standUp no bet at rest, doWin *)
(* a payer of every pot and a user for every loss.  What is left is        *)
(* moveToPot's check that a pot with chips in it has a member.             *)
(***************************************************************************)
PaidIn ==
    pc = "pay" =>
        \A i \in DOMAIN pots : pots[i].value # 0 => pots[i].trueMembers # {}

AbsentEven == \A s \in Seats : status[s] = "empty" => balance[s] = 0

MemberlessOnly ==
    \/ failed = "no"
    \/ failed = "potWithoutMembers" /\ state \in Streets

PInv == count.leavers = 0 => PaidIn /\ AbsentEven /\ MemberlessOnly

\* What a table that is about to deal is.
LEMMA TableToDeal ==
    ASSUME IInv, HInv, state = "tsIdle"
    PROVE  /\ DealtTable.dealer = dealer
           /\ DealtTable.status = SatOut /\ DealtTable.chips = chips
           /\ dealer \in Seats \cup {-1}
           /\ Dealing!Able(DealtTable) \in SUBSET Seats
           /\ Dealing!DealtIn(DealtTable) \in SUBSET Dealing!Able(DealtTable)
           /\ Dealing!Playing(DealtTable)
                = {s \in Seats : SatOut[s] = "psInHand"}
           /\ Dealing!Playing(DealtTable) \subseteq Dealing!DealtIn(DealtTable)
           /\ Dealing!MustWait(DealtTable) \subseteq Dealing!Able(DealtTable)
<1> DEFINE t == DealtTable
<1>1. /\ t.dealer = dealer /\ t.status = SatOut /\ t.chips = chips
      /\ t.offline = {} /\ t.returning = {}
      /\ Dealing!Seats = Seats
  BY DEF DealtTable, Seats, Dealing!Seats
<1>2. \A s \in Seats : SatOut[s] # "psAllIn"
  BY DEF SatOut, HInv, Turns, NoAllInAtRest
<1>3. \A s \in Seats : SatOut[s] = "psInHand" => chips[s] > 0
  BY DEF SatOut, IInv, Typed, PotsTyped
<1> HIDE DEF t
<1>4. Dealing!Playing(t) = {s \in Seats : SatOut[s] = "psInHand"}
  BY <1>1, <1>2 DEF Dealing!Playing
<1>5. Dealing!Playing(t) \subseteq Dealing!Able(t)
  BY <1>1, <1>3, <1>4 DEF Dealing!Able
<1>6. Dealing!MustWait(t) \subseteq Dealing!Able(t) \ Dealing!Playing(t)
  BY DEF Dealing!MustWait, Dealing!NotPlaying
<1>7. Dealing!Able(t) \in SUBSET Seats
  BY <1>1 DEF Dealing!Able
<1>8. dealer \in Seats \cup {-1}
  BY DEF IInv, Typed, GameTyped
<1> QED
  BY <1>1, <1>4, <1>5, <1>6, <1>7, <1>8 DEF Dealing!DealtIn, t

\* The first dealer that is found is dealt in, though he might have to wait.
LEMMA DealerIsDealtIn ==
    ASSUME NEW t, t.dealer \in Int, Dealing!Able(t) \in SUBSET Seats,
           Dealing!Able(t) # {}
    PROVE  Dealing!FirstDealer(t) \in Dealing!DealtIn(t)
<1> DEFINE f == Dealing!FirstDealer(t)
           far(s) == Dealing!Distance(Dealing!OldDealer(t), s)
<1>1. f \in Dealing!Able(t)
  BY NextSeatIn DEF Dealing!FirstDealer
<1>2. far(f) \in Int
  <2>1. Dealing!OldDealer(t) \in Int /\ f \in Int /\ N \in Nat \ {0}
    BY <1>1, NAssumption DEF Dealing!OldDealer, Seats
  <2> HIDE DEF f
  <2>2. (f - Dealing!OldDealer(t)) % N \in Int
    BY <2>1
  <2> QED
    BY <2>2 DEF Dealing!Distance
<1> HIDE DEF far
<1>3. far(f)..(far(f) - 1) = {} /\ far(f) <= far(f)
  BY <1>2
<1>4. f \in Dealing!MustWait(t) => f \in Dealing!ReachedByButton(t)
  BY <1>3 DEF Dealing!ReachedByButton, far
<1> QED
  BY <1>1, <1>4 DEF Dealing!DealtIn

\* If there are two that can be dealt in, two are.
LEMMA TwoAreDealtIn ==
    ASSUME IInv, HInv, state = "tsIdle",
           Cardinality(Dealing!Able(DealtTable)) > 1
    PROVE  Cardinality(Dealing!DealtIn(DealtTable)) > 1
<1> DEFINE t == DealtTable
           able == Dealing!Able(t)
           dealt == Dealing!DealtIn(t)
           wait == Dealing!MustWait(t)
           o == Dealing!OldDealer(t)
<1>1. /\ t.dealer = dealer /\ dealer \in Seats \cup {-1}
      /\ able \in SUBSET Seats /\ dealt \in SUBSET able
      /\ Dealing!Playing(t) \subseteq dealt /\ wait \subseteq able
  BY TableToDeal
<1>2. /\ IsFiniteSet(able) /\ Cardinality(able) \in Nat
      /\ IsFiniteSet(dealt) /\ Cardinality(dealt) \in Nat
  BY <1>1, SeatsFinite
<1> HIDE DEF t
<1>3. CASE wait = {}
  <2>1. dealt = able
    BY <1>3 DEF Dealing!DealtIn
  <2> QED
    BY <2>1 DEF t
<1>4. CASE wait # {}
  <2> SUFFICES ASSUME ~ (Cardinality(dealt) > 1)
               PROVE  FALSE
    BY DEF t
  <2>1. PICK p : p \in Dealing!Playing(t)
    BY <1>4 DEF Dealing!MustWait
  <2>2. able # {} /\ t.dealer \in Int
    BY <1>1, <1>4 DEF Seats
  <2>3. Dealing!FirstDealer(t) \in dealt
    BY <1>1, <2>2, DealerIsDealtIn
  <2>4. dealt = {p}
    <3>1. Cardinality(dealt) # 0 /\ Cardinality(dealt) <= 1
      BY <1>2, <2>3, FS_EmptySet
    <3>2. \E x : dealt = {x}
      BY <1>2, <3>1, FS_Singleton
    <3> QED
      BY <1>1, <2>1, <3>2
  <2>5. Dealing!FirstDealer(t) = p /\ Dealing!Playing(t) = {p} /\ p \in able
    BY <1>1, <2>1, <2>3, <2>4
  <2>6. o \in Seats /\ {p} \in SUBSET Seats
    BY <1>1, <2>5, NAssumption DEF Dealing!OldDealer, Seats
  <2>7. Dealing!OldBigBlind(t) = p
    <3>1. \A c \in Int : Dealing!NextSeat(c, {p}) = p
      BY <2>6, NextSeatIn
    <3>2. o \in Int /\ p \in Int
      BY <2>6 DEF Seats
    <3> QED
      BY <2>5, <3>1, <3>2 DEF Dealing!OldBigBlind, Dealing!OldSmallBlind
  <2>8. PICK s \in wait : TRUE
    BY <1>4
  <2>9. /\ s \in able
        /\ Dealing!Distance(o, s) > 0
        /\ Dealing!Distance(o, s) < Dealing!Distance(o, p)
    BY <1>1, <2>7, <2>8 DEF Dealing!MustWait
  <2>10. After(dealer, p) <= After(dealer, s)
    BY <1>1, <2>5, <2>9, NextIsNearest DEF Dealing!FirstDealer
  <2>11. o - 1 \in Seats \cup {-1} /\ (o - 1) + 1 = o
    BY <2>6, NAssumption DEF Seats
  <2>12. After(o - 1, s) > 0 /\ After(o - 1, s) < After(o - 1, p)
    BY <1>1, <2>5, <2>9, <2>11, AfterIsDistance
  <2>13. s \in Seats /\ p \in Seats
    BY <1>1, <2>5, <2>9
  <2>14. o = IF dealer < 0 THEN 0 ELSE dealer
    BY <1>1 DEF Dealing!OldDealer
  <2> HIDE DEF o
  <2> QED
    BY <1>1, <2>10, <2>12, <2>13, <2>14, NAssumption DEF After, Seats
<1> QED
  BY <1>3, <1>4

-----------------------------------------------------------------------------
\* The steps that touch neither the pots' payers nor the books.
LEMMA AssertionsStay ==
    ASSUME PInv, failed = "no", failed' = "no",
           UNCHANGED <<pots, balance>>,
           count'.leavers = count.leavers,
           pc' = "pay" => pc = "pay",
           \A s \in Seats : status'[s] = "empty" => status[s] = "empty"
    PROVE  PInv'
BY DEF PInv, PaidIn, AbsentEven, MemberlessOnly

LEMMA InitAsserts == Init => PInv
<1> SUFFICES ASSUME Init PROVE PInv
  OBVIOUS
<1> QED
  BY DEF Init, PInv, PaidIn, AbsentEven, MemberlessOnly

LEMMA DealAsserts ==
    ASSUME IInv, HInv, PInv, Deal
    PROVE  PInv'
<1>1. /\ state = "tsIdle" /\ Cardinality(Dealing!Able(DealtTable)) > 1
      /\ failed' = IF Cardinality(Dealing!DealtIn(DealtTable)) > 1 THEN "no"
                   ELSE "onePlayer"
      /\ pc' = "free" /\ balance' = [s \in Seats |-> 0]
  BY DEF Deal
<1>2. failed' = "no"
  BY <1>1, TwoAreDealtIn
<1> QED
  BY <1>1, <1>2 DEF PInv, PaidIn, AbsentEven, MemberlessOnly

LEMMA PutChipsAsserts ==
    ASSUME IInv, PInv, NEW s \in Seats, NEW bet \in Nat, PutChips(s, bet)
    PROVE  PInv'
<1>1. /\ UNCHANGED <<pots, balance, failed, count>> /\ failed = "no"
      /\ pc' = "machine"
      /\ status' = IF bet - bets[s] = chips[s]
                   THEN [status EXCEPT ![s] = "psAllIn"] ELSE status
  BY DEF PutChips, Free
<1>2. \A x \in Seats : status'[x] = "empty" => status[x] = "empty"
  BY <1>1 DEF IInv, Typed, PotsTyped
<1> QED
  BY <1>1, <1>2, AssertionsStay

\* Two are in the hand, so somebody is left.
LEMMA SomebodyIsLeft ==
    ASSUME IInv, NEW s \in Seats, FoldInTurn(s)
    PROVE  /\ s \in InHand /\ status' = [status EXCEPT ![s] = "psFolded"]
           /\ InHand' = InHand \ {s} /\ InHand' # {}
           /\ failed' = "no" /\ pc' \in {"showdown", "machine"}
<1>1. /\ pc = "free" /\ failed = "no" /\ state \in Streets
      /\ s = current_seat /\ FoldSeat(s, status)
  BY DEF FoldInTurn, Free
<1>2. s \in InHand
  BY <1>1 DEF IInv, TurnInHand
<1>3. status' = [status EXCEPT ![s] = "psFolded"]
  BY <1>1, <1>2 DEF FoldSeat, InHand
<1>4. /\ InHand' = InHand \ {s}
      /\ InHand' = {x \in Seats \ {s} : status[x] \in {"psInHand", "psAllIn"}}
  BY <1>3 DEF InHand, IInv, Typed, PotsTyped
<1>5. InHand' # {}
  <2>1. InHandCount >= 2
    BY <1>1 DEF IInv, TwoInHand
  <2>2. Cardinality(InHand \ {s}) = Cardinality(InHand) - 1
    BY <1>2, OwingIsFinite, FS_RemoveElement, Zenon
  <2>3. Cardinality(InHand') # 0
    BY <1>4, <2>1, <2>2, OwingIsFinite DEF InHandCount
  <2> QED
    BY <2>3, FS_EmptySet
<1>6. failed' = "no" /\ pc' \in {"showdown", "machine"}
  BY <1>1, <1>4, <1>5 DEF FoldSeat
<1> QED
  BY <1>2, <1>3, <1>4, <1>5, <1>6

LEMMA FoldInTurnAsserts ==
    ASSUME IInv, PInv, NEW s \in Seats, FoldInTurn(s)
    PROVE  PInv'
<1>1. /\ UNCHANGED <<balance, count>> /\ failed = "no"
  BY DEF FoldInTurn, Free
<1>2. /\ failed' = "no" /\ pc' # "pay"
      /\ status' = [status EXCEPT ![s] = "psFolded"]
  BY SomebodyIsLeft
<1>3. \A x \in Seats : status'[x] = "empty" => status[x] = "empty"
  BY <1>2 DEF IInv, Typed, PotsTyped
<1> QED
  BY <1>1, <1>2, <1>3 DEF PInv, PaidIn, AbsentEven, MemberlessOnly

\* With nobody leaving, standUp's assertion is not reached.
LEMMA ReleaseAsserts ==
    ASSUME LInv, PInv, Release
    PROVE  PInv'
<1>1. /\ UNCHANGED <<status, balance, count>> /\ failed = "no" /\ pc' = "free"
      /\ leaving = NoSeat => UNCHANGED failed
  BY DEF Release, books
<1> QED
  BY <1>1 DEF LInv, NobodyLeft, PInv, PaidIn, AbsentEven, MemberlessOnly

LEMMA FinishAsserts ==
    ASSUME IInv, PInv, Finish
    PROVE  PInv'
<1>1. /\ UNCHANGED <<status, balance, pots, count>> /\ failed = "no"
      /\ pc = "finish" /\ pc' \in {"machine", "released"}
      /\ failed' = IF NextSeat(current_seat) = -1 THEN "nobodyNext" ELSE "no"
  BY DEF Finish, books
<1>2. InHandCount >= 2
  BY <1>1 DEF IInv, Control, TwoInHand
<1>3. NextSeat(current_seat) \in Seats
  BY <1>2, TurnSeat, InHandSome DEF InHand
<1>4. failed' = "no"
  BY <1>1, <1>3 DEF Seats
<1> QED
  BY <1>1, <1>4, AssertionsStay

LEMMA StateMachineAsserts ==
    ASSUME PInv, StateMachine
    PROVE  PInv'
<1>1. /\ UNCHANGED <<status, balance, pots, count, failed>> /\ failed = "no"
      /\ pc' \in {"machine", "finish", "street", "showdown"}
  BY DEF StateMachine, books
<1> QED
  BY <1>1, AssertionsStay

\* moveToPot books nothing for a seat that nobody sits on.
LEMMA MoveToPotAsserts ==
    ASSUME IInv, LInv, PInv, MoveToPot
    PROVE  PInv'
<1>1. /\ UNCHANGED <<status, leaving, state, pc, count>>
      /\ mv # "none"
      /\ failed' \in {failed, "no", "potWithoutMembers"} /\ failed = "no"
  BY DEF MoveToPot, MoveStep, MovePass, MergePots, ReturnPot, gameVars,
     handVars, lockVars, books
<1>2. pc \in {"street", "showdown"} /\ state \in Streets
  BY <1>1 DEF IInv, Control
<1>3. ASSUME count.leavers = 0, NEW s \in Seats, status[s] = "empty"
      PROVE  balance'[s] = balance[s]
  <2>1. ~ Booked(s)
    BY <1>3 DEF LInv, NobodyLeft, Booked, Taken, NoSeat, Seats
  <2>2. balance \in [Seats -> Int]
    BY DEF IInv, Typed, PotsTyped
  <2> QED
    BY <2>1, <2>2 DEF MoveToPot, MoveStep, MovePass, MergePots, ReturnPot
<1> QED
  BY <1>1, <1>2, <1>3 DEF PInv, PaidIn, AbsentEven, MemberlessOnly

LEMMA DealStreetAsserts ==
    ASSUME IInv, PInv, DealStreet
    PROVE  PInv'
<1>1. /\ UNCHANGED <<status, balance, pots, count, failed>> /\ failed = "no"
      /\ pc' = then /\ then # "pay"
  BY DEF DealStreet, Moved, IInv, Typed, GameTyped
<1> QED
  BY <1>1, AssertionsStay

\* Every pot but the last, which is empty, has been paid into.
LEMMA CalcWinnersAsserts ==
    ASSUME IInv, LInv, PInv, CalcWinners
    PROVE  PInv'
<1>1. /\ UNCHANGED <<status, balance, pots, count, failed>> /\ failed = "no"
      /\ pc = "showdown"
  BY DEF CalcWinners, Moved, books
<1>2. count.leavers = 0 => Ledger
  BY <1>1 DEF IInv, Control, LInv, Kept, Books
<1>3. Len(pots) \in Nat /\ DOMAIN pots = 1..Len(pots)
  BY LedgerTypes DEF IInv, Typed
<1>4. ASSUME count.leavers = 0, NEW i \in DOMAIN pots, pots[i].value # 0
      PROVE  pots[i].trueMembers # {}
  <2>1. i # Len(pots)
    BY <1>2, <1>4 DEF Ledger, LastIsOpen
  <2>2. i \in 1..(Len(pots) - 1)
    BY <1>3, <2>1
  <2> QED
    BY <1>2, <1>4, <2>2 DEF Ledger, LastIsOpen
<1> QED
  BY <1>1, <1>4 DEF PInv, PaidIn, AbsentEven, MemberlessOnly

LEMMA PayPotAsserts ==
    ASSUME IInv, PInv, PayPot
    PROVE  PInv'
<1>1. /\ UNCHANGED <<status, pots, count, pc>> /\ failed = "no" /\ pc = "pay"
      /\ at \in DOMAIN pots
      /\ \/ UNCHANGED <<balance, failed>>
         \/ /\ pots[at].value # 0
            /\ \E r \in Rakes(pots[at]) :
                  balance' = [s \in Seats |-> balance[s]
                                + Gain(pots[at], pots[at].value - r, s)]
            /\ failed' = IF pots[at].trueMembers = {}
                         THEN "potWithoutContributors" ELSE "no"
  <2>1. at \in Nat /\ at > 0 /\ pots \in Seq(Pots)
    BY DEF IInv, Typed, PotsTyped
  <2>2. at \in DOMAIN pots
    BY <2>1 DEF PayPot
  <2> QED
    BY <2>2 DEF PayPot, lockVars
<1>2. \A s \in Seats : status[s] = "empty" =>
         \A net : Gain(pots[at], net, s) = 0
  <2>1. \A s \in Seats : status[s] = "empty" =>
           s \notin InHand /\ s \notin Winners(pots[at], 1)
             /\ s \notin Winners(pots[at], 2)
    BY DEF InHand, Winners
  <2> QED
    BY <2>1 DEF Gain, Share
<1>3. \A s \in Seats : status[s] = "empty" => balance'[s] = balance[s]
  BY <1>1, <1>2 DEF IInv, Typed, PotsTyped
<1>4. count.leavers = 0 => failed' = "no"
  BY <1>1 DEF PInv, PaidIn
<1> QED
  BY <1>1, <1>3, <1>4 DEF PInv, PaidIn, AbsentEven, MemberlessOnly

LEMMA WinDoneAsserts ==
    ASSUME PInv, WinDone
    PROVE  PInv'
<1>1. /\ UNCHANGED <<status, balance, count>> /\ failed = "no"
      /\ pc' = "released"
      /\ failed' = IF \E s \in Seats : balance[s] # 0 /\ ~Taken(s)
                   THEN "lossOfNobody" ELSE "no"
  BY DEF WinDone, books
<1>2. count.leavers = 0 => failed' = "no"
  BY <1>1 DEF PInv, AbsentEven, Taken
<1> QED
  BY <1>1, <1>2 DEF PInv, PaidIn, AbsentEven, MemberlessOnly

\* Between two hands, at any time a member may sit down or buy chips, and
\* once one has left nothing is claimed.
LEMMA RestAsserts ==
    ASSUME IInv, LInv, PInv,
           \/ WaitForPlayers \/ Sit \/ Buy \/ EndHand \/ Leave
    PROVE  PInv'
<1>1. CASE WaitForPlayers
  <2>1. /\ UNCHANGED <<pots, balance, count, failed>> /\ failed = "no"
        /\ pc' = "free" /\ status' = SatOut
    BY <1>1 DEF WaitForPlayers, books
  <2> QED
    BY <2>1, AssertionsStay DEF SatOut
<1>2. CASE Sit
  <2>1. PICK s \in Seats : PlayNow(s) \/ SitOut(s)
    BY <1>2 DEF Sit
  <2>2. /\ UNCHANGED <<pots, balance, count, failed, pc>> /\ failed = "no"
        /\ \A x \in Seats : status'[x] = "empty" => status[x] = "empty"
    BY <2>1 DEF PlayNow, SitOut, Free, gameVars, lockVars, books, IInv,
       Typed, PotsTyped
  <2> QED
    BY <2>2, AssertionsStay
<1>3. CASE Buy
  <2>1. PICK s \in Seats, n \in Stacks : AddOn(s, n)
    BY <1>3 DEF Buy
  <2>2. /\ UNCHANGED <<pots, balance, failed, pc, status>> /\ failed = "no"
        /\ count' = [count EXCEPT !.addons = @ + 1]
    BY <2>1 DEF AddOn, Free, lockVars
  <2>3. count'.leavers = count.leavers
    BY <2>2 DEF LInv, CountTyped
  <2> QED
    BY <2>2, <2>3, AssertionsStay
<1>4. CASE EndHand
  <2>1. PICK out \in SUBSET Seats : HandOver(out)
    BY <1>4 DEF EndHand
  <2>2. /\ UNCHANGED <<pots, balance, count, failed>> /\ failed = "no"
        /\ pc' = "idle"
        /\ \A x \in Seats : status'[x] = "empty" => status[x] = "empty"
    BY <2>1 DEF HandOver, Free, books
  <2> QED
    BY <2>2, AssertionsStay
<1>5. CASE Leave
  <2>1. PICK s \in Seats : StandUp(s)
    BY <1>5 DEF Leave
  <2>2. count' = [count EXCEPT !.leavers = @ + 1]
    BY <2>1 DEF StandUp
  <2>3. count'.leavers # 0
    BY <2>2 DEF LInv, CountTyped
  <2> QED
    BY <2>3 DEF PInv
<1> QED
  BY <1>1, <1>2, <1>3, <1>4, <1>5

LEMMA AssertionInvariance == Spec => []PInv
<1>1. ASSUME IInv, HInv, LInv, PInv, [Next]_vars PROVE PInv'
  <2>1. CASE Deal
    BY <1>1, <2>1, DealAsserts
  <2>2. CASE Act
    <3>1. PICK s \in Seats : \/ \E bet \in BetsTried(s) : PutChips(s, bet)
                             \/ Fold(s) \/ TimeOut(s)
      BY <2>2 DEF Act
    <3>2. minBet \in Nat /\ BetsTried(s) \subseteq Nat
      BY <1>1, BetsTriedType
    <3>3. (\E bet \in Nat : PutChips(s, bet)) \/ FoldInTurn(s)
      BY <3>1, <3>2 DEF Fold, TimeOut
    <3> QED
      BY <1>1, <3>3, PutChipsAsserts, FoldInTurnAsserts
  <2>3. CASE Leave \/ Sit \/ Buy \/ EndHand
    BY <1>1, <2>3, RestAsserts
  <2>4. CASE Locked
    BY <1>1, <2>4, StateMachineAsserts, FinishAsserts, MoveToPotAsserts,
       DealStreetAsserts, CalcWinnersAsserts, PayPotAsserts, WinDoneAsserts,
       RestAsserts, DealAsserts, ReleaseAsserts DEF Locked
  <2>5. CASE UNCHANGED vars
    <3>1. UNCHANGED <<status, pots, balance, failed, state, pc, count>>
      BY <2>5 DEF vars, potVars, gameVars, handVars, lockVars, books
    <3> QED
      BY <1>1, <3>1 DEF PInv, PaidIn, AbsentEven, MemberlessOnly
  <2> QED
    BY <1>1, <2>1, <2>2, <2>3, <2>4, <2>5 DEF Next
<1> QED
  BY <1>1, InitAsserts, Invariance, HandInvariance, LawInvariance, PTL
     DEF Spec

\* What ends the process, as long as nobody leaves a hand, is moveToPot's
\* check that somebody can win the pot it makes, and no other assertion of
\* deal, fold, finish, standUp, doWin and postWinSaveStats.
OnlyPotsFail ==
    count.leavers = 0 /\ failed # "no" =>
        failed = "potWithoutMembers" /\ state \in Streets

THEOREM OtherAssertionsHold == Spec => []OnlyPotsFail
<1>1. PInv => OnlyPotsFail
  BY DEF PInv, MemberlessOnly, OnlyPotsFail
<1> QED
  BY <1>1, AssertionInvariance, PTL

-----------------------------------------------------------------------------
(***************************************************************************)
(* A pot without a member.  It takes seats that are all in with less than  *)
(* somebody who folds has paid, and nobody else in the hand that has paid  *)
(* as much.  If no blind has put a seat all in, and fewer than four are,   *)
(* then one that has paid as much as anybody is always in the hand: before *)
(* such a seat folds, all who can bet have answered it, and a seat that is *)
(* the only one that can bet is not given the turn but to call.            *)
(***************************************************************************)
BlindsCovered == Short = {} /\ Cardinality(AllIn) < 4

\* Who can bet, and has put in less than seat s, acts before s does.
AnswersLast(s) ==
    pc \in {"free", "released", "machine", "finish"} /\ s \in CanPlay =>
        \A w \in CanPlay :
            bets[w] < bets[s] => After(LastTurn, w) < After(LastTurn, s)

SomebodyLeads ==
    \E s \in InHand : (\A x \in Seats : Total(x) <= Total(s)) /\ AnswersLast(s)

NotAlone ==
    /\ pc \in {"finish", "free", "released"} =>
          \A c \in CanPlay : CanPlay = {c} => c \notin CanCheck
    /\ pc = "street" /\ then = "finish" => Cardinality(CanPlay) # 1

Led == failed = "no" /\ SomebodyLeads /\ NotAlone

LeadInv == count.leavers = 0 /\ BlindsCovered /\ state \in Streets => Led

-----------------------------------------------------------------------------
LEMMA AllInIsFinite ==
    AllIn \in SUBSET Seats /\ IsFiniteSet(AllIn) /\ Cardinality(AllIn) \in Nat
<1>1. AllIn \in SUBSET Seats
  BY DEF AllIn
<1> QED
  BY <1>1, SeatsFinite

\* Who is all in stays so.
LEMMA CoveredBefore ==
    ASSUME Short' = Short, AllIn \subseteq AllIn', BlindsCovered'
    PROVE  BlindsCovered
<1> DEFINE A == AllIn'
<1>1. A \in SUBSET Seats
  BY DEF AllIn
<1>2. IsFiniteSet(A) /\ Cardinality(A) \in Nat /\ Cardinality(A) < 4
  BY <1>1, SeatsFinite DEF BlindsCovered
<1>3. AllIn \in SUBSET A
  OBVIOUS
<1> HIDE DEF A
<1>4. Cardinality(AllIn) <= Cardinality(A)
  BY <1>2, <1>3, FS_Subset
<1> QED
  BY <1>2, <1>4, AllInIsFinite DEF BlindsCovered

LEMMA TotalType ==
    ASSUME IInv, NEW s \in Seats
    PROVE  Paid(s) \in Int /\ bets[s] \in Nat /\ Total(s) \in Int
           /\ Total(s) = Paid(s) + bets[s]
BY LedgerTypes DEF IInv, Typed, PotsTyped, Total

\* The seats in the hand, and those of them that cannot bet.
LEMMA OneCanPlay ==
    ASSUME NEW c, CanPlay = {c}
    PROVE  InHandCount - 1 = Cardinality(AllIn)
<1>1. c \notin AllIn /\ InHand = AllIn \cup {c}
  BY OwingIsFinite
<1>2. Cardinality(InHand) = Cardinality(AllIn) + 1
  BY <1>1, AllInIsFinite, FS_AddElement
<1> QED
  BY <1>2, AllInIsFinite DEF InHandCount

\* Outside a street, and what leaves the turns alone.
LEMMA NoStreetLeads ==
    ASSUME state' \notin Streets
    PROVE  LeadInv'
BY DEF LeadInv

LEMMA LeadStays ==
    ASSUME LeadInv, failed = "no", failed' = "no",
           UNCHANGED <<bets, balance, state, current_seat, then>>,
           CanPlay' = CanPlay, AllIn' = AllIn, Short' = Short,
           count'.leavers = count.leavers,
           pc' = pc \/ (pc = "released" /\ pc' = "free")
    PROVE  LeadInv'
<1> SUFFICES ASSUME count'.leavers = 0, BlindsCovered', state' \in Streets
             PROVE  Led'
  BY DEF LeadInv
<1>1. Led
  BY DEF LeadInv, BlindsCovered
<1>2. /\ InHand' = InHand /\ CanCheck' = CanCheck
      /\ \A s \in Seats : Total(s)' = Total(s)
      /\ LastTurn' = LastTurn
  <2>1. InHand' = InHand
    BY DEF InHand, CanPlay, AllIn
  <2>2. HighestBet' = HighestBet
    BY <2>1 DEF HighestBet
  <2> QED
    BY <2>1, <2>2 DEF CanCheck, Total, Paid, LastTurn
<1>3. \A s : AnswersLast(s) => AnswersLast(s)'
  BY <1>2 DEF AnswersLast, After
<1>4. SomebodyLeads'
  <2>1. PICK s \in InHand : (\A x \in Seats : Total(x) <= Total(s))
                              /\ AnswersLast(s)
    BY <1>1 DEF Led, SomebodyLeads
  <2>2. s \in Seats
    BY DEF InHand
  <2> QED
    BY <1>2, <1>3, <2>1, <2>2 DEF SomebodyLeads
<1>5. NotAlone'
  BY <1>1, <1>2 DEF Led, NotAlone
<1> QED
  BY <1>4, <1>5 DEF Led

\* The distances once the seat on turn has acted.
LEMMA TurnIsDone ==
    ASSUME NEW s \in Seats
    PROVE  /\ After(s, s) = N - 1 /\ After(s - 1, s) = 0 /\ N \in Nat
           /\ \A x \in Seats : /\ After(s - 1, x) \in 0..(N - 1)
                               /\ x # s => After(s, x) = After(s - 1, x) - 1
<1>1. s - 1 \in Seats \cup {-1}
  BY NAssumption DEF Seats
<1>2. \A x \in Seats : x # s => After(s, x) = After(s - 1, x) - 1
  BY NAssumption DEF After, Seats
<1>3. After(s, s) = N - 1 /\ After(s - 1, s) = 0 /\ N \in Nat
  BY NAssumption DEF After, Seats
<1> QED
  BY <1>1, <1>2, <1>3, AfterIsDistance

-----------------------------------------------------------------------------
\* A seat that bets leads, or is all in with less than the lead.
LEMMA PutChipsLeads ==
    ASSUME IInv, HInv, LeadInv, NEW s \in Seats, NEW bet \in Nat,
           PutChips(s, bet)
    PROVE  LeadInv'
<1>1. /\ UNCHANGED <<state, current_seat, balance, staked, count, failed>>
      /\ pc = "free" /\ pc' = "machine" /\ failed = "no"
      /\ state \in Streets /\ s = current_seat
      /\ bets[s] <= bet
      /\ bet - bets[s] = chips[s] \/ minBet <= bet
      /\ status' = IF bet - bets[s] = chips[s]
                   THEN [status EXCEPT ![s] = "psAllIn"] ELSE status
      /\ bets' = [bets EXCEPT ![s] = bet]
  <2>1. minBet \in Nat
    BY DEF IInv, Typed, GameTyped
  <2> QED
    BY <2>1 DEF PutChips, Free, Accepted
<1>2. /\ status \in [Seats -> Statuses] /\ bets \in [Seats -> Nat]
      /\ minBet \in Nat
  BY DEF IInv, Typed, PotsTyped, GameTyped
<1>3. s \in InHand
  BY <1>1 DEF IInv, TurnInHand
<1>4. /\ CanPlay' \subseteq CanPlay /\ InHand' = InHand
      /\ AllIn \subseteq AllIn' /\ Short' = Short
      /\ s \in CanPlay' => minBet <= bet
  BY <1>1, <1>2, <1>3 DEF CanPlay, InHand, AllIn, Short
<1> SUFFICES ASSUME count'.leavers = 0, BlindsCovered'
             PROVE  Led'
  BY DEF LeadInv
<1>5. Led
  BY <1>1, <1>4, CoveredBefore DEF LeadInv
<1>6. PICK l \in InHand : (\A x \in Seats : Total(x) <= Total(l))
                            /\ AnswersLast(l)
  BY <1>5 DEF Led, SomebodyLeads
<1>7. /\ l \in Seats /\ CanPlay \subseteq Seats
      /\ \A x \in Seats : x # s => bets'[x] = bets[x] /\ Total(x)' = Total(x)
      /\ bets'[s] = bet /\ Total(s)' = Paid(s) + bet
      /\ Total(s) <= Total(s)'
      /\ \A x \in Seats : Total(x) \in Int /\ Total(x)' \in Int
  <2>1. \A x \in Seats : Paid(x) \in Int /\ bets[x] \in Nat
                           /\ Total(x) \in Int /\ Paid(x)' = Paid(x)
    BY <1>1, TotalType DEF Paid
  <2>2. /\ \A x \in Seats : x # s => bets'[x] = bets[x]
        /\ bets'[s] = bet
    BY <1>1, <1>2
  <2> QED
    BY <1>1, <2>1, <2>2 DEF Total, InHand, CanPlay
<1>8. LastTurn = s - 1 /\ LastTurn' = s
  BY <1>1 DEF LastTurn
<1>9. SomebodyLeads'
  <2>1. CASE Total(l) <= Total(s)'
    <3>1. \A x \in Seats : Total(x)' <= Total(s)'
      BY <1>6, <1>7, <2>1
    <3>2. AnswersLast(s)'
      <4> SUFFICES ASSUME NEW w \in CanPlay', bets'[w] < bets'[s]
                   PROVE  After(s, w) < After(s, s)
        BY <1>8 DEF AnswersLast, After
      <4>1. w \in Seats /\ w # s
        BY <1>2, <1>4, <1>7
      <4> QED
        BY <4>1, TurnIsDone
    <3> QED
      BY <1>3, <1>4, <3>1, <3>2 DEF SomebodyLeads
  <2>2. CASE ~ (Total(l) <= Total(s)')
    <3>1. l # s
      BY <1>7, <2>2
    <3>2. \A x \in Seats : Total(x)' <= Total(l)'
      BY <1>6, <1>7, <2>2, <3>1
    <3>3. AnswersLast(l)'
      <4> SUFFICES ASSUME l \in CanPlay', NEW w \in CanPlay',
                          bets'[w] < bets'[l]
                   PROVE  After(s, w) < After(s, l)
        BY <1>8 DEF AnswersLast, After
      <4>1. w # s
        <5> SUFFICES ASSUME w = s
                     PROVE  FALSE
          OBVIOUS
        <5>1. minBet <= bet /\ bet < bets[l] /\ bets[l] <= minBet
          BY <1>4, <1>7, <3>1 DEF HInv, Turns, BetsCovered
        <5> QED
          BY <1>2, <1>7, <5>1
      <4>2. w \in CanPlay /\ w \in Seats /\ l \in CanPlay
        BY <1>4, <1>7
      <4>3. bets[w] < bets[l]
        BY <1>7, <3>1, <4>1, <4>2
      <4>4. After(s - 1, w) < After(s - 1, l)
        BY <1>1, <1>6, <1>8, <4>2, <4>3 DEF AnswersLast
      <4> QED
        BY <1>7, <3>1, <4>1, <4>2, <4>4, TurnIsDone
    <3> QED
      BY <1>4, <3>2, <3>3 DEF SomebodyLeads
  <2> QED
    BY <2>1, <2>2
<1> QED
  BY <1>1, <1>9 DEF Led, NotAlone

\* A seat that leads folds only if another has paid as much.
LEMMA FoldInTurnLeads ==
    ASSUME IInv, HInv, LInv, LeadInv, NEW s \in Seats, FoldInTurn(s)
    PROVE  LeadInv'
<1>1. /\ UNCHANGED <<state, current_seat, balance, bets, staked, count>>
      /\ pc = "free" /\ failed = "no" /\ state \in Streets
      /\ s = current_seat
  BY DEF FoldInTurn, Free
<1>2. /\ s \in InHand /\ InHand' = InHand \ {s} /\ InHand' # {}
      /\ status' = [status EXCEPT ![s] = "psFolded"]
      /\ failed' = "no" /\ pc' \in {"showdown", "machine"}
  BY SomebodyIsLeft
<1>3. /\ status \in [Seats -> Statuses] /\ bets \in [Seats -> Nat]
      /\ CanPlay' = CanPlay \ {s} /\ AllIn' = AllIn \ {s}
      /\ Short' = Short /\ CanPlay \subseteq Seats /\ InHand \subseteq Seats
      /\ CanPlay \subseteq InHand
  BY <1>1, <1>2 DEF CanPlay, InHand, AllIn, Short, IInv, Typed, PotsTyped
<1> SUFFICES ASSUME count'.leavers = 0, BlindsCovered'
             PROVE  Led'
  BY DEF LeadInv
<1>4. s \in CanPlay
  <2>1. s \notin Short
    BY <1>3 DEF BlindsCovered
  <2> QED
    BY <1>1, <2>1 DEF HInv, Turns, TurnCanPlay, CanPlay
<1>5. Led
  <2>1. AllIn' = AllIn
    BY <1>3, <1>4, OwingIsFinite
  <2>2. BlindsCovered
    BY <1>3, <2>1, CoveredBefore
  <2> QED
    BY <1>1, <2>2 DEF LeadInv
<1>6. PICK l \in InHand : (\A x \in Seats : Total(x) <= Total(l))
                            /\ AnswersLast(l)
  BY <1>5 DEF Led, SomebodyLeads
<1>7. /\ \A x \in Seats : Total(x)' = Total(x)
      /\ \A x \in Seats : Total(x) \in Int /\ Paid(x) \in Int /\ bets[x] \in Nat
      /\ \A x \in Seats : Total(x) = Paid(x) + bets[x]
  BY <1>1, TotalType DEF Total, Paid
<1>8. (LastTurn = s - 1 /\ LastTurn' = s) \/ pc' = "showdown"
  BY <1>1, <1>2 DEF LastTurn
<1>9. \A c \in CanPlay, x \in Seats : Paid(x) <= Paid(c)
  <2>1. mv = "none" /\ Kept
    BY <1>1, NotMoving DEF Kept
  <2> QED
    BY <1>1, <1>3, <2>1 DEF LInv, Books, BettorsLead, CanPlay
<1>10. CASE l # s
  <2>1. l \in InHand' /\ \A x \in Seats : Total(x)' <= Total(l)'
    BY <1>2, <1>3, <1>6, <1>7, <1>10
  <2>2. AnswersLast(l)'
    <3> SUFFICES ASSUME pc' = "machine", l \in CanPlay', NEW w \in CanPlay',
                        bets[w] < bets[l]
                 PROVE  After(s, w) < After(s, l)
      BY <1>1, <1>2, <1>8 DEF AnswersLast, After
    <3>1. w \in CanPlay /\ w \in Seats /\ l \in CanPlay /\ l \in Seats /\ w # s
      BY <1>3
    <3>2. After(s - 1, w) < After(s - 1, l)
      BY <1>1, <1>6, <1>8, <3>1 DEF AnswersLast
    <3> QED
      BY <1>10, <3>1, <3>2, TurnIsDone
  <2>3. SomebodyLeads'
    BY <2>1, <2>2 DEF SomebodyLeads
  <2> QED
    BY <1>2, <2>3 DEF Led, NotAlone
<1>11. CASE l = s
  <2>1. \A w \in CanPlay : bets[s] <= bets[w]
    <3> SUFFICES ASSUME NEW w \in CanPlay, ~ (bets[s] <= bets[w])
                 PROVE  FALSE
      OBVIOUS
    <3>1. bets[w] < bets[s] /\ w \in Seats
      BY <1>3, <1>7
    <3>2. After(s - 1, w) < After(s - 1, s)
      BY <1>1, <1>4, <1>6, <1>11, <3>1 DEF AnswersLast, LastTurn
    <3> QED
      BY <3>1, <3>2, TurnIsDone
  <2>2. PICK w \in CanPlay : w # s
    <3> SUFFICES ASSUME CanPlay = {s}
                 PROVE  FALSE
      BY <1>4
    <3>1. s \notin CanCheck
      BY <1>1, <1>4, <1>5 DEF Led, NotAlone
    <3>2. bets[s] # HighestBet
      BY <1>4, <3>1 DEF CanCheck
    <3> DEFINE S == {0} \cup {bets[x] : x \in InHand}
    <3>3. S \in SUBSET Nat /\ S # {} /\ minBet \in Nat /\ \A y \in S : y <= minBet
      BY <1>3, <1>7 DEF HInv, Turns, BetsCovered, IInv, Typed, GameTyped
    <3>4. HighestBet = Max(S)
      BY DEF HighestBet
    <3> HIDE DEF S
    <3>5. HighestBet \in S /\ \A y \in S : y <= HighestBet
      BY <3>3, <3>4, MaxIsGreatest
    <3>6. PICK x \in InHand : bets[x] > bets[s]
      <4>1. bets[s] \in S /\ bets[s] < HighestBet /\ HighestBet # 0
        <5>1. bets[s] \in S /\ bets[s] \in Nat /\ HighestBet \in Nat
          BY <1>2, <1>7, <3>3, <3>5 DEF S
        <5> QED
          BY <3>2, <3>5, <5>1
      <4>2. \E x \in InHand : bets[x] = HighestBet
        BY <3>5, <4>1 DEF S
      <4> QED
        BY <4>1, <4>2
    <3>7. x \in Seats /\ bets[x] > 0
      BY <1>3, <1>7, <3>6
    <3>8. Paid(s) <= Paid(x)
      <4>1. mv = "none" /\ Kept
        BY <1>1, NotMoving DEF Kept
      <4> QED
        BY <1>1, <3>7, <4>1 DEF LInv, Books, BettorsLead
    <3>9. Total(x) <= Total(s)
      BY <1>6, <1>11, <3>7
    <3> QED
      BY <1>7, <3>6, <3>7, <3>8, <3>9
  <2>3. w \in InHand' /\ w \in Seats
    BY <1>2, <1>3, <2>2
  <2>4. Paid(w) = Paid(s) /\ bets[w] = bets[s] /\ Total(w) = Total(s)
    <3>1. Paid(w) <= Paid(s) /\ Paid(s) <= Paid(w)
      BY <1>4, <1>9, <2>3
    <3>2. bets[s] <= bets[w] /\ Total(w) <= Total(s)
      BY <1>6, <1>11, <2>1, <2>3
    <3> QED
      BY <1>7, <2>3, <3>1, <3>2
  <2>5. \A x \in Seats : Total(x)' <= Total(w)'
    BY <1>6, <1>7, <1>11, <2>3, <2>4
  <2>6. AnswersLast(w)'
    <3>1. \A v \in CanPlay' : ~ (bets'[v] < bets'[w])
      BY <1>1, <1>3, <1>7, <2>1, <2>3, <2>4
    <3> QED
      BY <3>1 DEF AnswersLast
  <2>7. SomebodyLeads'
    BY <2>3, <2>5, <2>6 DEF SomebodyLeads
  <2> QED
    BY <1>2, <2>7 DEF Led, NotAlone
<1> QED
  BY <1>10, <1>11

\* The turn passes to the nearest seat, so the order in which who has put in
\* less answers the lead stays.
LEMMA FinishLeads ==
    ASSUME IInv, HInv, ActsInv, LeadInv, Finish
    PROVE  LeadInv'
<1> DEFINE c == current_seat
           n == NextSeat(c)
<1>1. /\ UNCHANGED <<status, bets, balance, state, count, staked>>
      /\ pc = "finish" /\ failed = "no"
  BY DEF Finish, books
<1>2. /\ CanPlay' = CanPlay /\ AllIn' = AllIn /\ Short' = Short
      /\ InHand' = InHand /\ CanCheck' = CanCheck
      /\ CanPlay \subseteq Seats
      /\ \A x \in Seats : Total(x)' = Total(x)
  <2>1. CanPlay' = CanPlay /\ AllIn' = AllIn /\ Short' = Short /\ InHand' = InHand
    BY <1>1 DEF CanPlay, AllIn, Short, InHand
  <2> QED
    BY <1>1, <2>1 DEF CanCheck, HighestBet, Total, Paid, CanPlay
<1> SUFFICES ASSUME count'.leavers = 0, BlindsCovered', state' \in Streets
             PROVE  Led'
  BY DEF LeadInv
<1>3. Led
  BY <1>1, <1>2 DEF LeadInv, BlindsCovered
<1>4. /\ n \in InHand /\ n \in Seats /\ n # -1
      /\ pc' \in {"machine", "released"} /\ failed' = "no"
      /\ pc' = "machine" => n \notin CanPlay \/ ~ (Cardinality(CanPlay) > 1)
      /\ LastTurn = c /\ LastTurn' = IF pc' = "released" THEN n - 1 ELSE n
  BY <1>1, FinishTurn
<1>5. PICK l \in InHand : (\A x \in Seats : Total(x) <= Total(l))
                            /\ AnswersLast(l)
  BY <1>3 DEF Led, SomebodyLeads
<1>6. c \in Seats \cup {-1} /\ l \in Seats /\ InHand \in SUBSET Seats
  BY DEF IInv, Typed, GameTyped, InHand
<1>7. AnswersLast(l)'
  <2> SUFFICES ASSUME l \in CanPlay, NEW w \in CanPlay, bets[w] < bets[l]
               PROVE  After(LastTurn', w) < After(LastTurn', l)
    BY <1>1, <1>2 DEF AnswersLast, After
  <2>1. After(c, w) < After(c, l)
    BY <1>1, <1>4, <1>5 DEF AnswersLast
  <2>2. w \in Seats /\ w \in InHand /\ w # l
    <3>1. w # l
      BY <1>6, <2>1, <1>2, AfterIsDistance
    <3> QED
      BY <1>2, <3>1, OwingIsFinite
  <2>3. After(c, n) <= After(c, w) /\ After(c, n) <= After(c, l)
    BY <1>6, <2>2, NextIsNearest DEF NextSeat
  <2>4. /\ After(n - 1, w) = After(c, w) - After(c, n)
        /\ After(n, w) = IF w = n THEN N - 1 ELSE After(n - 1, w) - 1
        /\ After(n - 1, l) = After(c, l) - After(c, n)
        /\ After(n, l) = IF l = n THEN N - 1 ELSE After(n - 1, l) - 1
    BY <1>4, <1>6, <2>2, <2>3, TurnMoves
  <2>5. /\ After(c, w) \in 0..(N - 1) /\ After(c, l) \in 0..(N - 1)
        /\ After(c, n) \in 0..(N - 1) /\ N \in Nat
    BY <1>4, <1>6, <2>2, AfterIsDistance, NAssumption
  <2>6. CASE pc' = "released"
    <3>1. LastTurn' = n - 1
      BY <1>4, <2>6
    <3> HIDE DEF n, c
    <3> QED
      BY <2>1, <2>4, <2>5, <3>1
  <2>7. CASE pc' = "machine"
    <3>1. LastTurn' = n
      BY <1>4, <2>7
    <3>2. Cardinality(CanPlay) > 1
      <4>1. Cardinality(CanPlay) # 0 /\ Cardinality(CanPlay) # 1
        BY <2>2, OwingIsFinite, FS_EmptySet, FS_Singleton
      <4> QED
        BY <4>1, OwingIsFinite
    <3>3. w # n
      BY <1>4, <2>7, <3>2
    <3> HIDE DEF n, c
    <3> QED
      BY <2>1, <2>4, <2>5, <3>1, <3>3
  <2> QED
    BY <1>4, <2>6, <2>7
<1>8. SomebodyLeads'
  BY <1>2, <1>5, <1>6, <1>7 DEF SomebodyLeads
<1>9. NotAlone'
  BY <1>1, <1>2, <1>3, <1>4 DEF Led, NotAlone
<1> QED
  BY <1>4, <1>8, <1>9 DEF Led

\* stateMachine passes over the only seat that can bet when it has bet what
\* it must, so fewer than four that are all in leave it no turn to give.
LEMMA StateMachineLeads ==
    ASSUME IInv, LeadInv, StateMachine
    PROVE  LeadInv'
<1> DEFINE skip == SkipNobodyCanBet \/ SkipLastPlayer
<1>1. /\ UNCHANGED <<status, bets, balance, state, count, staked, failed>>
      /\ pc = "machine" /\ failed = "no"
      /\ then' = IF skip THEN "machine" ELSE "finish"
      /\ \/ BetsEqual /\ pc' \in {"street", "showdown"}
         \/ pc' = then' /\ (~ skip => current_seat' = current_seat)
  BY DEF StateMachine, books
<1>2. /\ CanPlay' = CanPlay /\ AllIn' = AllIn /\ Short' = Short
      /\ InHand' = InHand /\ CanCheck' = CanCheck
      /\ CanPlay \subseteq Seats /\ InHand \subseteq Seats
      /\ \A x \in Seats : Total(x)' = Total(x)
  <2>1. CanPlay' = CanPlay /\ AllIn' = AllIn /\ Short' = Short /\ InHand' = InHand
    BY <1>1 DEF CanPlay, AllIn, Short, InHand
  <2> QED
    BY <1>1, <2>1 DEF CanCheck, HighestBet, Total, Paid, CanPlay, InHand
<1> SUFFICES ASSUME count'.leavers = 0, BlindsCovered', state' \in Streets
             PROVE  Led'
  BY DEF LeadInv
<1>3. Led /\ Cardinality(AllIn) < 4
  BY <1>1, <1>2 DEF LeadInv, BlindsCovered
<1>4. ASSUME NEW c, CanPlay = {c}, c \in CanCheck
      PROVE  skip
  <2>1. InHandCount - 1 = Cardinality(AllIn) /\ InHandCount >= 2
        /\ InHandCount \in Nat
    BY <1>1, <1>4, OneCanPlay, OwingIsFinite
       DEF IInv, Control, TwoInHand, InHandCount
  <2>2. InHandCount - 1 \in 1..3
    BY <1>3, <2>1, AllInIsFinite
  <2>3. Cardinality(CanPlay) = 1
    BY <1>4, FS_Singleton
  <2>4. CanCheck = CanPlay
    BY <1>4 DEF CanCheck
  <2> QED
    BY <2>2, <2>3, <2>4 DEF SkipLastPlayer
<1>5. PICK l \in InHand : (\A x \in Seats : Total(x) <= Total(l))
                            /\ AnswersLast(l)
  BY <1>3 DEF Led, SomebodyLeads
<1>6. AnswersLast(l)'
  <2> SUFFICES ASSUME pc' = then', l \in CanPlay, NEW w \in CanPlay,
                      bets[w] < bets[l]
               PROVE  After(LastTurn', w) < After(LastTurn', l)
    BY <1>1, <1>2 DEF AnswersLast, After
  <2>1. w # l
    <3>1. bets[w] \in Nat
      BY <1>2 DEF IInv, Typed, PotsTyped
    <3> QED
      BY <3>1
  <2>2. Cardinality(CanPlay) # 1 /\ CanPlay # {}
    BY <2>1, OwingIsFinite, FS_Singleton
  <2>3. ~ skip
    BY <2>2 DEF SkipNobodyCanBet, SkipLastPlayer
  <2>4. LastTurn = current_seat /\ LastTurn' = current_seat
    BY <1>1, <2>3 DEF LastTurn
  <2>5. After(LastTurn, w) < After(LastTurn, l)
    BY <1>1, <1>5 DEF AnswersLast
  <2> QED
    BY <2>4, <2>5
<1>7. SomebodyLeads'
  BY <1>2, <1>5, <1>6 DEF SomebodyLeads
<1>8. NotAlone'
  <2>1. ASSUME pc' \in {"finish", "free", "released"}, NEW c \in CanPlay,
               CanPlay = {c}
        PROVE  c \notin CanCheck
    <3>1. ~ skip
      BY <1>1, <2>1
    <3> QED
      BY <1>4, <2>1, <3>1
  <2>2. ASSUME pc' = "street", then' = "finish", Cardinality(CanPlay) = 1
        PROVE  FALSE
    <3>1. ~ skip /\ BetsEqual
      BY <1>1, <2>2
    <3>2. PICK c : CanPlay = {c}
      BY <2>2, OwingIsFinite, FS_Singleton
    <3>3. bets[c] = HighestBet
      <4>1. bets[c] \in {bets[s] : s \in CanPlay}
        BY <3>2
      <4> QED
        BY <3>1, <4>1 DEF BetsEqual
    <3>4. c \in CanCheck
      BY <3>2, <3>3 DEF CanCheck
    <3> QED
      BY <1>4, <3>1, <3>2, <3>4
  <2> QED
    BY <1>2, <2>1, <2>2 DEF NotAlone
<1> QED
  BY <1>1, <1>7, <1>8 DEF Led

-----------------------------------------------------------------------------
\* moveToPot: as in a round of bets that leaves a seat with the highest in
\* the hand.
LEMMA MoveToPotLeads ==
    ASSUME IInv, HInv, LInv, LeadInv, MoveToPot
    PROVE  LeadInv'
<1>1. /\ UNCHANGED <<status, state, pc, then, count, staked>> /\ MoveStep
      /\ mv # "none" /\ mv' # "none" /\ failed = "no"
  BY DEF MoveToPot, MoveStep, MovePass, MergePots, ReturnPot, gameVars,
     handVars, lockVars, books
<1>2. pc \in {"street", "showdown"} /\ state \in Streets
  BY <1>1 DEF IInv, Control
<1>3. /\ CanPlay' = CanPlay /\ AllIn' = AllIn /\ Short' = Short
      /\ InHand' = InHand /\ InHand \subseteq Seats
  BY <1>1 DEF CanPlay, AllIn, Short, InHand
<1> SUFFICES ASSUME count'.leavers = 0, BlindsCovered'
             PROVE  Led'
  BY DEF LeadInv
<1>4. Led
  BY <1>1, <1>2, <1>3 DEF LeadInv, BlindsCovered
<1>5. MoveInv /\ Claims /\ Ledger
  BY <1>1, <1>2 DEF MoveInv, IInv, Typed, HInv, LInv, Kept, Books
<1>6. PICK z \in InHand : \A x \in Seats : Total(x) <= Total(z)
  BY <1>4 DEF Led, SomebodyLeads
<1>7. /\ failed' = "no"
      /\ \A s, x \in Seats : Total(x) <= Total(s) => Total(x)' <= Total(s)'
  BY <1>1, <1>5, <1>6, LeaderIsMember
<1>8. \A x \in Seats : Total(x)' <= Total(z)'
  BY <1>3, <1>6, <1>7
<1>9. AnswersLast(z)'
  BY <1>1, <1>2 DEF AnswersLast
<1>10. SomebodyLeads'
  BY <1>3, <1>8, <1>9 DEF SomebodyLeads
<1>11. NotAlone'
  BY <1>1, <1>2, <1>3, <1>4 DEF Led, NotAlone
<1> QED
  BY <1>7, <1>10, <1>11 DEF Led

LEMMA DealStreetLeads ==
    ASSUME IInv, LeadInv, DealStreet
    PROVE  LeadInv'
<1>1. /\ UNCHANGED <<status, bets, balance, count, staked, failed>>
      /\ pc = "street" /\ mv = "return" /\ failed = "no"
      /\ pc' = then /\ then \in {"machine", "finish"} /\ state \in Streets
  BY DEF DealStreet, Moved, IInv, Control, Typed, GameTyped
<1>2. /\ CanPlay' = CanPlay /\ AllIn' = AllIn /\ Short' = Short
      /\ InHand' = InHand /\ CanPlay \subseteq Seats /\ InHand \subseteq Seats
  BY <1>1 DEF CanPlay, AllIn, Short, InHand
<1> SUFFICES ASSUME count'.leavers = 0, BlindsCovered'
             PROVE  Led'
  BY DEF LeadInv
<1>3. Led
  BY <1>1, <1>2 DEF LeadInv, BlindsCovered
<1>4. PICK l \in InHand : \A x \in Seats : Total(x) <= Total(l)
  BY <1>3 DEF Led, SomebodyLeads
<1>5. \A x \in Seats : bets[x] = 0 /\ Total(x)' = Total(x)
  BY <1>1 DEF IInv, MovedBets, Total, Paid
<1>6. AnswersLast(l)'
  BY <1>1, <1>2, <1>5 DEF AnswersLast
<1>7. SomebodyLeads'
  BY <1>2, <1>4, <1>5, <1>6 DEF SomebodyLeads
<1>8. NotAlone'
  <2>1. pc' = "finish" => Cardinality(CanPlay) # 1
    BY <1>1, <1>3 DEF Led, NotAlone
  <2>2. \A c : CanPlay = {c} => Cardinality(CanPlay) = 1
    BY FS_Singleton
  <2> QED
    BY <1>1, <1>2, <2>1, <2>2 DEF NotAlone
<1> QED
  BY <1>1, <1>7, <1>8 DEF Led

-----------------------------------------------------------------------------
\* The deal.  If no blind takes all that a seat has, the big blind leads, and
\* everybody is asked before it.
LEMMA DealLeads ==
    ASSUME IInv, IInv', HInv, LInv', PInv', Deal
    PROVE  LeadInv'
<1> DEFINE t == DealtTable
           dealt == Dealing!DealtIn(t)
           b == Dealing!BigBlindSeat(t)
           due == [s \in Seats |->
                     IF s \in dealt
                     THEN Dealing!BlindDue(t, s, SmallBlind, BigBlind)
                     ELSE 0]
           status1 == [s \in Seats |->
                         IF s \in dealt
                         THEN IF due[s] = chips[s] THEN "psAllIn"
                              ELSE "psInHand"
                         ELSE SatOut[s]]
<1>1. /\ state = "tsIdle" /\ Cardinality(Dealing!Able(t)) > 1
      /\ pc' = "free" /\ state' = "tsPreFlop"
      /\ status' = status1 /\ bets' = due
      /\ staked' = [s \in Seats |->
                      [dealt |-> chips[s],
                       short |-> status1[s] = "psAllIn", added |-> 0]]
      /\ current_seat' = Dealing!NextSeat(b, dealt)
      /\ failed' = IF Cardinality(dealt) > 1 THEN "no" ELSE "onePlayer"
  BY DEF Deal
<1>2. Cardinality(dealt) > 1 /\ failed' = "no"
  BY <1>1, TwoAreDealtIn
<1>3. /\ dealt \in SUBSET Seats /\ dealt # {}
      /\ t.dealer \in Seats \cup {-1} /\ t.chips = chips
      /\ \A s \in Seats : SatOut[s] = "psInHand" => s \in dealt
  <2>1. /\ dealt \in SUBSET Dealing!Able(t) /\ Dealing!Able(t) \in SUBSET Seats
        /\ t.dealer = dealer /\ dealer \in Seats \cup {-1}
        /\ t.chips = chips
        /\ Dealing!Playing(t) = {s \in Seats : SatOut[s] = "psInHand"}
        /\ Dealing!Playing(t) \subseteq dealt
    BY <1>1, TableToDeal
  <2>2. dealt # {}
    BY <1>2, FS_EmptySet
  <2> QED
    BY <2>1, <2>2
<1>4. b \in dealt
  <2>1. Dealing!SmallBlindSeat(t) \in Int
    <3>1. Dealing!NewDealer(t) \in Int
      BY <1>3, DealSeats DEF Seats
    <3>2. \A c \in Int : Dealing!NextSeat(c, dealt) \in Int
      BY <1>3, NextSeatIn DEF Seats
    <3> QED
      BY <3>1, <3>2 DEF Dealing!SmallBlindSeat
  <2> QED
    BY <1>3, <2>1, NextSeatIn DEF Dealing!BigBlindSeat
<1>5. \A s \in Seats : due[s] \in Nat /\ due[s] <= BigBlind
  BY <1>1, BlindIsCovered, BettingAssumption
<1>6. PICK q \in dealt : q = b
  BY <1>4
<1>7. due[q] = BigBlind \/ due[q] = chips[q]
  BY <1>3, <1>6 DEF Dealing!BlindDue
<1>8. /\ dealt \subseteq {s \in Seats : status1[s] = "psAllIn"
                                          \/ status1[s] = "psInHand"}
      /\ \A s \in Seats : status1[s] = "psInHand" => s \in dealt
      /\ due[q] = chips[q] => status1[q] = "psAllIn"
  BY <1>3, <1>6
<1> HIDE DEF t, due, dealt, b, status1
<1> SUFFICES ASSUME count'.leavers = 0, BlindsCovered'
             PROVE  Led'
  BY DEF LeadInv
<1>9. \A s \in Seats : status1[s] # "psAllIn"
  <2>1. \A s \in Seats : staked'[s].short = (status1[s] = "psAllIn")
    BY <1>1
  <2> QED
    BY <2>1 DEF BlindsCovered, Short
<1>10. CanPlay' = dealt /\ dealt \subseteq InHand' /\ q \in Seats
  BY <1>1, <1>3, <1>6, <1>8, <1>9 DEF CanPlay, InHand
<1>11. bets'[q] = BigBlind
  BY <1>1, <1>7, <1>8, <1>9, <1>10
<1>12. \A x \in Seats : Total(x)' <= Total(q)'
  <2>1. mv' = "none"
    BY <1>1 DEF IInv, Control
  <2>2. Kept'
    BY <1>1, <1>2, <2>1 DEF Kept, Streets
  <2>3. \A x \in Seats : Paid(x)' = 0
    BY <1>1, <2>1, <2>2 DEF LInv, Books, NothingPaid
  <2>4. \A x \in Seats : bets'[x] \in Nat /\ bets'[x] <= bets'[q]
    BY <1>1, <1>5, <1>11
  <2> QED
    BY <1>10, <2>3, <2>4 DEF Total
<1>13. AnswersLast(q)'
  <2> DEFINE n == Dealing!NextSeat(b, dealt)
  <2>0. n = Dealing!NextSeat(q, dealt) /\ LastTurn' = n - 1
    BY <1>1, <1>6 DEF LastTurn
  <2> HIDE DEF n
  <2> SUFFICES ASSUME NEW w \in dealt, bets'[w] < bets'[q]
               PROVE  After(n - 1, w) < After(n - 1, q)
    BY <1>10, <2>0 DEF AnswersLast, After
  <2>1. q \in Seats /\ w \in Seats /\ w # q
    <3>1. w # q
      BY <1>1, <1>5, <1>10
    <3> QED
      BY <1>3, <1>10, <3>1
  <2>2. n \in Seats
    <3>1. q \in Int
      BY <2>1, NAssumption DEF Seats
    <3>2. n \in dealt
      BY <1>3, <2>0, <3>1, NextSeatIn
    <3> QED
      BY <1>3, <3>2
  <2>3. After(q, n) <= After(q, w) /\ After(q, n) <= After(q, q)
    BY <1>3, <1>6, <2>0, <2>1, NextIsNearest
  <2>4. /\ After(n - 1, w) = After(q, w) - After(q, n)
        /\ After(n - 1, q) = After(q, q) - After(q, n)
    BY <2>1, <2>2, <2>3, TurnMoves
  <2>5. /\ After(q, w) = After(q - 1, w) - 1 /\ After(q, q) = N - 1
        /\ After(q - 1, w) \in 0..(N - 1) /\ N \in Nat
    BY <2>1, TurnIsDone
  <2>6. After(q, n) \in 0..(N - 1)
    BY <2>1, <2>2, AfterIsDistance
  <2> QED
    BY <2>4, <2>5, <2>6
<1>14. SomebodyLeads'
  BY <1>6, <1>10, <1>12, <1>13 DEF SomebodyLeads
<1>15. NotAlone'
  <2>1. \A c : dealt = {c} => Cardinality(dealt) = 1
    BY FS_Singleton
  <2>2. \A c : dealt # {c}
    BY <1>2, <2>1
  <2> QED
    BY <1>1, <1>10, <2>2 DEF NotAlone
<1> QED
  BY <1>2, <1>14, <1>15 DEF Led

\* What may happen at any time, and what is not of a street.
LEMMA RestLeads ==
    ASSUME IInv, LInv, LeadInv,
           \/ Release \/ WaitForPlayers \/ CalcWinners \/ PayPot \/ WinDone
           \/ Sit \/ Buy \/ EndHand \/ Leave
    PROVE  LeadInv'
<1>1. CASE Release
  <2>1. /\ UNCHANGED <<status, balance, state, then, count, staked>>
        /\ pc = "released" /\ pc' = "free" /\ failed = "no"
        /\ leaving = NoSeat => UNCHANGED <<bets, current_seat, failed>>
    BY <1>1 DEF Release, books
  <2>2. CanPlay' = CanPlay /\ AllIn' = AllIn /\ Short' = Short
    BY <2>1 DEF CanPlay, AllIn, Short
  <2>3. CASE leaving = NoSeat
    BY <2>1, <2>2, <2>3, LeadStays
  <2>4. CASE leaving # NoSeat
    BY <2>1, <2>4 DEF LInv, NobodyLeft, LeadInv
  <2> QED
    BY <2>3, <2>4
<1>2. CASE WaitForPlayers \/ PayPot \/ WinDone
  <2>1. state' = state /\ (pc = "idle" \/ pc = "pay")
    BY <1>2 DEF WaitForPlayers, PayPot, WinDone, handVars
  <2> QED
    BY <2>1, NoStreetLeads DEF IInv, Control, Streets
<1>3. CASE CalcWinners \/ EndHand
  <2>1. state' \in {"tsWinning", "tsIdle"}
    BY <1>3 DEF CalcWinners, EndHand, HandOver
  <2> QED
    BY <2>1, NoStreetLeads DEF Streets
<1>4. CASE Sit
  <2>1. PICK s \in Seats : PlayNow(s) \/ SitOut(s)
    BY <1>4 DEF Sit
  <2>2. /\ UNCHANGED <<bets, balance, state, current_seat, then, pc, count,
                       staked, failed>>
        /\ failed = "no"
        /\ \A x \in Seats : x # s => status'[x] = status[x]
        /\ status'[s] \in {"psOutOfHand", "psOutOfPlay"}
        /\ \/ status[s] \in {"psOutOfHand", "psOutOfPlay"}
           \/ status[s] = "psInHand" /\ state = "tsIdle"
    BY <2>1 DEF PlayNow, SitOut, Free, gameVars, handVars, lockVars, books,
       IInv, Typed, PotsTyped
  <2>3. CASE state = "tsIdle"
    BY <2>2, <2>3, NoStreetLeads DEF Streets
  <2>4. CASE state # "tsIdle"
    <3>1. CanPlay' = CanPlay /\ AllIn' = AllIn /\ Short' = Short
      BY <2>2, <2>4 DEF CanPlay, AllIn, Short
    <3> QED
      BY <2>2, <3>1, LeadStays
  <2> QED
    BY <2>3, <2>4
<1>5. CASE Buy
  <2>1. PICK s \in Seats, n \in Stacks : AddOn(s, n)
    BY <1>5 DEF Buy
  <2>2. /\ UNCHANGED <<status, bets, balance, state, current_seat, then, pc,
                       failed>>
        /\ failed = "no"
        /\ staked' = [staked EXCEPT ![s].added = @ + n]
        /\ count' = [count EXCEPT !.addons = @ + 1]
    BY <2>1 DEF AddOn, Free, handVars, lockVars
  <2>3. count'.leavers = count.leavers
    BY <2>2 DEF LInv, CountTyped
  <2>4. Short' = Short
    BY <2>2 DEF Short, IInv, Typed, GameTyped, Stakes
  <2>5. CanPlay' = CanPlay /\ AllIn' = AllIn
    BY <2>2 DEF CanPlay, AllIn
  <2> QED
    BY <2>2, <2>3, <2>4, <2>5, LeadStays
<1>6. CASE Leave
  <2>1. PICK s \in Seats : StandUp(s)
    BY <1>6 DEF Leave
  <2>2. count' = [count EXCEPT !.leavers = @ + 1]
    BY <2>1 DEF StandUp
  <2>3. count'.leavers # 0
    BY <2>2 DEF LInv, CountTyped
  <2> QED
    BY <2>3 DEF LeadInv
<1> QED
  BY <1>1, <1>2, <1>3, <1>4, <1>5, <1>6

LEMMA StutterLeads ==
    ASSUME LeadInv, UNCHANGED vars
    PROVE  LeadInv'
<1>1. UNCHANGED <<status, bets, balance, failed, state, pc, then,
                  current_seat, count, staked>>
  BY DEF vars, potVars, gameVars, handVars, lockVars, books
<1>2. CanPlay' = CanPlay /\ AllIn' = AllIn /\ Short' = Short
  BY <1>1 DEF CanPlay, AllIn, Short
<1>3. CASE failed = "no"
  BY <1>1, <1>2, <1>3, LeadStays
<1>4. CASE failed # "no"
  BY <1>1, <1>2, <1>4 DEF LeadInv, Led, BlindsCovered
<1> QED
  BY <1>3, <1>4

LEMMA LeadInvariance == Spec => []LeadInv
<1>1. Init => LeadInv
  BY DEF Init, LeadInv, Streets
<1>2. ASSUME IInv, IInv', HInv, LInv, LInv', ActsInv, PInv', LeadInv,
             [Next]_vars
      PROVE  LeadInv'
  <2>1. CASE Deal
    BY <1>2, <2>1, DealLeads
  <2>2. CASE Act
    <3>1. PICK s \in Seats : \/ \E bet \in BetsTried(s) : PutChips(s, bet)
                             \/ Fold(s) \/ TimeOut(s)
      BY <2>2 DEF Act
    <3>2. minBet \in Nat /\ BetsTried(s) \subseteq Nat
      BY <1>2, BetsTriedType
    <3>3. (\E bet \in Nat : PutChips(s, bet)) \/ FoldInTurn(s)
      BY <3>1, <3>2 DEF Fold, TimeOut
    <3> QED
      BY <1>2, <3>3, PutChipsLeads, FoldInTurnLeads
  <2>3. CASE Leave \/ Sit \/ Buy \/ EndHand
    BY <1>2, <2>3, RestLeads
  <2>4. CASE Locked
    BY <1>2, <2>4, StateMachineLeads, FinishLeads, MoveToPotLeads,
       DealStreetLeads, RestLeads, DealLeads DEF Locked
  <2>5. CASE UNCHANGED vars
    BY <1>2, <2>5, StutterLeads
  <2> QED
    BY <1>2, <2>1, <2>2, <2>3, <2>4, <2>5 DEF Next
<1> QED
  BY <1>1, <1>2, Invariance, HandInvariance, LawInvariance, ActsInvariance,
     AssertionInvariance, PTL DEF Spec

\* No assertion of deal, moveToPot, fold, finish and doWin fails, at a table
\* of any size, in a hand that nobody leaves and in which no blind has put a
\* seat all in, until a fourth seat is all in: stateMachine passes over the
\* only seat that can bet when one, two or three others are all in.  (With
\* four, or with such a blind, moveToPot may make a pot without a member.)
THEOREM AssertionsHold ==
    Spec => [](Short = {} /\ Cardinality(AllIn) < 4 => NoAssertionFails)
<1>1. PInv /\ LeadInv
        => (Short = {} /\ Cardinality(AllIn) < 4 => NoAssertionFails)
  BY DEF PInv, MemberlessOnly, LeadInv, Led, BlindsCovered, NoAssertionFails
<1> QED
  BY <1>1, AssertionInvariance, LeadInvariance, PTL

-----------------------------------------------------------------------------
(***************************************************************************)
(* moveToPot ends.  Each turn of its loops shortens what is left to do: a  *)
(* pass uses up the bets of a seat at least and makes one pot, which one   *)
(* turn of either of the other loops will deal with.                       *)
(***************************************************************************)
MovesLeft ==
    CASE mv = "pass"   -> 2 * Len(pots) + 3 * Cardinality(Bettors) + 2
      [] mv = "merge"  -> 2 * Len(pots) + 2 - at
      [] mv = "return" -> Len(pots) + 2 - at
      [] mv = "none"   -> 0

InBounds ==
    /\ mv = "pass"   => at = 1
    /\ mv = "merge"  => at <= Len(pots)
    /\ mv = "return" => at <= Len(pots) + 2

Shortens == InBounds' /\ MovesLeft' \in Nat /\ MovesLeft' < MovesLeft

LEMMA MovesLeftType ==
    ASSUME PotsTyped, InBounds
    PROVE  MovesLeft \in Nat
<1>1. Len(pots) \in Nat /\ at \in Nat \ {0}
      /\ mv \in {"none", "pass", "merge", "return"}
  BY DEF PotsTyped
<1>2. Cardinality(Bettors) \in Nat
  BY SeatsFinite DEF Bettors
<1>3. CASE mv = "pass"
  BY <1>1, <1>2, <1>3 DEF MovesLeft
<1>4. CASE mv = "merge"
  BY <1>1, <1>4 DEF MovesLeft, InBounds
<1>5. CASE mv = "return"
  BY <1>1, <1>5 DEF MovesLeft, InBounds
<1>6. CASE mv = "none"
  BY <1>6 DEF MovesLeft
<1> QED
  BY <1>1, <1>3, <1>4, <1>5, <1>6

LEMMA PassShortens ==
    ASSUME PotsTyped, InBounds, Len(pots) # 0, MovePass
    PROVE  Shortens
<1> DEFINE L == Len(pots)
           B == Cardinality(Bettors)
<1>1. /\ mv = "pass" /\ at' = 1 /\ L \in Nat /\ L # 0
      /\ bets \in [Seats -> Nat] /\ pots \in Seq(Pots)
      /\ Bettors \in SUBSET Seats /\ IsFiniteSet(Bettors) /\ B \in Nat
      /\ MovesLeft = 2 * L + 3 * B + 2
  BY SeatsFinite DEF PotsTyped, MovePass, Bettors, MovesLeft
<1>2. CASE Bettors = {}
  <2>1. mv' = "merge" /\ pots' = pots /\ B = 0
    BY <1>2, FS_EmptySet DEF MovePass
  <2>2. MovesLeft' = 2 * L + 2 - 1
    BY <1>1, <2>1 DEF MovesLeft
  <2> QED
    BY <1>1, <2>1, <2>2 DEF Shortens, InBounds
<1>3. CASE Bettors # {}
  <2> DEFINE min == Lowest({bets[s] : s \in Bettors})
             pot == AddToPot(pots[L], min, Bettors)
             most == [pots EXCEPT ![L] = pot]
  <2>1. /\ bets' = [s \in Seats |->
                      IF s \in Bettors THEN bets[s] - min ELSE bets[s]]
        /\ pots' = Append(most, EmptyPot)
        /\ mv' = IF \A s \in Bettors : bets[s] = min THEN "merge" ELSE "pass"
    BY <1>3 DEF MovePass
  <2>2. PICK b \in Bettors : bets[b] = min
    <3>1. {bets[s] : s \in Bettors} \in SUBSET Nat
          /\ {bets[s] : s \in Bettors} # {}
      BY <1>1, <1>3
    <3> QED
      BY <3>1, LowestIsLeast
  <2>3. Len(pots') = L + 1
    <3>1. DOMAIN most = 1..L
      BY <1>1
    <3>2. Len(most) = L
      <4>1. Len(most) \in Nat /\ 1..Len(most) = 1..L
        BY <1>1, <3>1
      <4> QED
        BY <1>1, <4>1, SameInterval
    <3> HIDE DEF most
    <3> QED
      BY <1>1, <2>1, <3>2
  <2>4. Bettors' \in SUBSET (Bettors \ {b})
    <3> HIDE DEF min
    <3>1. \A s \in Seats :
            bets'[s] = IF s \in Bettors THEN bets[s] - min ELSE bets[s]
      BY <2>1
    <3>2. bets'[b] = 0
      BY <1>1, <2>2, <3>1
    <3> QED
      BY <1>1, <3>1, <3>2 DEF Bettors
  <2>5. Cardinality(Bettors') \in Nat /\ Cardinality(Bettors') + 1 <= B
    <3>1. /\ IsFiniteSet(Bettors \ {b})
          /\ Cardinality(Bettors \ {b}) = B - 1
      BY <1>1, FS_RemoveElement
    <3> QED
      BY <1>1, <2>4, <3>1, FS_Subset, FS_CardinalityType
  <2> HIDE DEF min, most
  <2>6. CASE mv' = "pass"
    <3>1. MovesLeft' = 2 * (L + 1) + 3 * Cardinality(Bettors') + 2
      BY <2>3, <2>6 DEF MovesLeft
    <3> QED
      BY <1>1, <2>5, <2>6, <3>1 DEF Shortens, InBounds
  <2>7. CASE mv' = "merge"
    <3>1. MovesLeft' = 2 * (L + 1) + 2 - 1
      BY <1>1, <2>3, <2>7 DEF MovesLeft
    <3> QED
      BY <1>1, <2>3, <2>5, <2>7, <3>1 DEF Shortens, InBounds
  <2> QED
    BY <2>1, <2>6, <2>7
<1> QED
  BY <1>2, <1>3

LEMMA MergeShortens ==
    ASSUME PotsTyped, InBounds, MergePots
    PROVE  Shortens
<1> DEFINE L == Len(pots)
<1>1. /\ mv = "merge" /\ at \in Nat \ {0} /\ L \in Nat /\ at <= L
      /\ pots \in Seq(Pots) /\ DOMAIN pots = 1..L
      /\ MovesLeft = 2 * L + 2 - at
  BY DEF PotsTyped, MergePots, MovesLeft, InBounds
<1>2. CASE at >= L
  <2>1. mv' = "return" /\ at' = 1 /\ pots' = pots
    BY <1>2 DEF MergePots
  <2>2. MovesLeft' = L + 2 - 1
    BY <2>1 DEF MovesLeft
  <2> QED
    BY <1>1, <2>1, <2>2 DEF Shortens, InBounds
<1>3. CASE ~ (at >= L)
  <2> DEFINE joined == [pots EXCEPT ![at].value = @ + pots[at + 1].value]
  <2>1. /\ mv' = mv
        /\ \/ pots' = Without(joined, at + 1) /\ at' = at
           \/ at' = at + 1 /\ pots' = pots
    BY <1>3 DEF MergePots
  <2>2. Len(Without(joined, at + 1)) = L - 1
    <3>1. joined \in Seq(Pots)
      <4>1. pots[at] \in Pots /\ pots[at + 1] \in Pots
        BY <1>1, <1>3
      <4>2. [pots[at] EXCEPT !.value = @ + pots[at + 1].value] \in Pots
        BY <4>1 DEF Pots
      <4> QED
        BY <1>1, <4>2
    <3>2. Len(joined) = L
      <4>1. Len(joined) \in Nat /\ 1..Len(joined) = 1..L
        BY <1>1, <3>1
      <4> QED
        BY <1>1, <4>1, SameInterval
    <3> HIDE DEF joined
    <3>3. at + 1 \in 1..Len(joined)
      BY <1>1, <1>3, <3>2
    <3>4. Len(Without(joined, at + 1)) = Len(joined) - 1
      BY <3>1, <3>3, WithoutIsPart
    <3> QED
      BY <3>2, <3>4
  <2> HIDE DEF joined
  <2>3. /\ at' \in Nat /\ Len(pots') \in Nat
        /\ \/ Len(pots') = L - 1 /\ at' = at
           \/ Len(pots') = L /\ at' = at + 1
    <3> HIDE DEF L
    <3>0. L \in Nat /\ at \in Nat /\ at >= 1 /\ at < L
      BY <1>1, <1>3 DEF L
    <3>1. CASE pots' = Without(joined, at + 1) /\ at' = at
      <4>1. Len(pots') = L - 1
        BY <2>2, <3>1
      <4> QED
        BY <3>0, <3>1, <4>1
    <3>2. CASE at' = at + 1 /\ pots' = pots
      BY <3>0, <3>2 DEF L
    <3> QED
      BY <2>1, <3>1, <3>2
  <2>4. MovesLeft' = 2 * Len(pots') + 2 - at'
    BY <1>1, <2>1 DEF MovesLeft
  <2>5. /\ at' <= Len(pots')
        /\ MovesLeft' \in Nat /\ MovesLeft' < MovesLeft
    <3> HIDE DEF L
    <3>1. L \in Nat /\ at \in Nat /\ at < L /\ MovesLeft = 2 * L + 2 - at
      BY <1>1, <1>3 DEF L
    <3> QED
      BY <2>3, <2>4, <3>1
  <2> QED
    BY <1>1, <2>1, <2>5 DEF Shortens, InBounds
<1> QED
  BY <1>2, <1>3

LEMMA ReturnShortens ==
    ASSUME PotsTyped, InBounds, ReturnPot
    PROVE  Shortens
<1> DEFINE L == Len(pots)
<1>1. /\ mv = "return" /\ mv' = "return" /\ at \in Nat \ {0} /\ L \in Nat
      /\ at <= L /\ at' = at + 1 /\ pots \in Seq(Pots)
      /\ MovesLeft = L + 2 - at
      /\ pots' = pots \/ pots' = Without(pots, at)
  BY DEF PotsTyped, ReturnPot, MovesLeft
<1>2. Len(pots') = L \/ Len(pots') = L - 1
  BY <1>1, WithoutIsPart
<1>3. MovesLeft' = Len(pots') + 2 - at'
  BY <1>1 DEF MovesLeft
<1> QED
  BY <1>1, <1>2, <1>3 DEF Shortens, InBounds

LEMMA MoveStepShortens ==
    ASSUME PotsTyped, InBounds, Len(pots) # 0, MoveStep
    PROVE  Shortens
BY PassShortens, MergeShortens, ReturnShortens DEF MoveStep

\* moveToPot comes to an end in any round (Ends, but for the fairness): it
\* has so many turns to go, and each is one of them.
MovesRunOut ==
    [][ Step => MovesLeft \in Nat /\ MovesLeft' \in Nat
                /\ MovesLeft' < MovesLeft ]_allVars

LEMMA RoundsBounds == RoundsSpec => []InBounds
<1>1. RoundsInit => InBounds
  BY DEF RoundsInit, InBounds
<1>2. RInv /\ InBounds /\ [RoundsNext]_allVars => InBounds'
  <2> SUFFICES ASSUME RInv, InBounds, [RoundsNext]_allVars
               PROVE  InBounds'
    OBVIOUS
  <2>1. CASE Bet
    BY <2>1 DEF Bet, InBounds
  <2>2. CASE Step
    <3>1. Len(pots) # 0 /\ PotsTyped /\ MoveStep
      BY <2>2 DEF RInv, Ledger, LastIsOpen, MoveInv, Step
    <3> QED
      BY <3>1, MoveStepShortens DEF Shortens
  <2>3. CASE UNCHANGED allVars
    BY <2>3 DEF allVars, potVars, InBounds
  <2> QED
    BY <2>1, <2>2, <2>3 DEF RoundsNext
<1> QED
  BY <1>1, <1>2, RoundsInvariance, PTL DEF RoundsSpec

\* In any round of betting, at a table of any size, each turn of moveToPot's
\* loops leaves fewer of them to go.
THEOREM MoveToPotRunsOut == RoundsSpec => MovesRunOut
<1>1. ASSUME RInv, InBounds, Step
      PROVE  MovesLeft \in Nat /\ MovesLeft' \in Nat /\ MovesLeft' < MovesLeft
  <2>1. Len(pots) # 0 /\ PotsTyped /\ MoveStep
    BY <1>1 DEF RInv, Ledger, LastIsOpen, MoveInv, Step
  <2> QED
    BY <1>1, <2>1, MovesLeftType, MoveStepShortens DEF Shortens
<1>2. RInv /\ InBounds /\ [RoundsNext]_allVars
        => [Step => MovesLeft \in Nat /\ MovesLeft' \in Nat
                    /\ MovesLeft' < MovesLeft]_allVars
  BY <1>1
<1> QED
  BY <1>2, RoundsInvariance, RoundsBounds, PTL DEF RoundsSpec, MovesRunOut

-----------------------------------------------------------------------------
(***************************************************************************)
(* Who is passed over.  With ranOut set, and two seats left, stateMachine  *)
(* passes over both (game.js:1838), again and again if one of them has a   *)
(* bet to answer.  It does not come to that as long as nobody leaves: a    *)
(* seat that is all in is passed over when all have answered its bet, or   *)
(* when another seat covers it, one that is all in as well or that must be *)
(* asked after all who have put in less.                                   *)
(***************************************************************************)
Turning ==
    state \in Streets /\ pc \in {"free", "released", "machine", "finish"}

Answered(a) ==
    \A w \in CanPlay :
        bets[w] < bets[a] => After(LastTurn, w) < After(LastTurn, a)

Covers(y, a) ==
    y # a /\ (y \in AllIn \/ (bets[a] <= bets[y] /\ Answered(y)))

NotPassed(a) ==
    \/ Answered(a)
    \/ \E y \in InHand : Covers(y, a) /\ After(LastTurn, a) < After(LastTurn, y)

Passed(a) ==
    \/ \A w \in CanPlay : bets[a] <= bets[w]
    \/ \E y \in InHand : Covers(y, a)

AllInIsCovered ==
    Turning => \A a \in AllIn : IF ranOut THEN Passed(a) ELSE NotPassed(a)

CoverInv == count.leavers = 0 => AllInIsCovered

-----------------------------------------------------------------------------
LEMMA CoverStays ==
    ASSUME CoverInv, UNCHANGED <<bets, state, current_seat, ranOut>>,
           CanPlay' = CanPlay, AllIn' = AllIn,
           count'.leavers = count.leavers,
           \/ pc' = pc
           \/ pc = "released" /\ pc' = "free"
           \/ pc = "machine" /\ pc' = "finish"
    PROVE  CoverInv'
<1>1. InHand' = InHand
  BY DEF InHand, CanPlay, AllIn
<1>2. Turning' => Turning /\ LastTurn' = LastTurn
  BY DEF Turning, LastTurn
<1> SUFFICES ASSUME Turning', count'.leavers = 0, NEW a \in AllIn
             PROVE  IF ranOut THEN Passed(a)' ELSE NotPassed(a)'
  BY DEF CoverInv, AllInIsCovered
<1>3. IF ranOut THEN Passed(a) ELSE NotPassed(a)
  BY <1>2 DEF CoverInv, AllInIsCovered
<1>4. /\ \A x : Answered(x)' = Answered(x)
      /\ \A x : After(LastTurn, x)' = After(LastTurn, x)
  BY <1>2 DEF Answered, After
<1>5. \A y : Covers(y, a)' = Covers(y, a)
  BY <1>4 DEF Covers
<1> QED
  BY <1>1, <1>3, <1>4, <1>5 DEF Passed, NotPassed

\* When nobody has bet less than anybody.
LEMMA EvenIsCovered ==
    ASSUME \A a \in AllIn', w \in CanPlay' : bets'[a] <= bets'[w],
           bets' \in [Seats -> Nat]
    PROVE  AllInIsCovered'
<1>1. \A a \in AllIn', w \in CanPlay' : ~ (bets'[w] < bets'[a])
  <2>1. AllIn' \subseteq Seats /\ CanPlay' \subseteq Seats
    BY DEF AllIn, CanPlay
  <2> QED
    BY <2>1
<1> QED
  BY <1>1 DEF AllInIsCovered, Passed, NotPassed, Answered

-----------------------------------------------------------------------------
\* Who bets has answered all bets, or is all in.
LEMMA PutChipsCovers ==
    ASSUME IInv, HInv, ActsInv, CoverInv, NEW s \in Seats, NEW bet \in Nat,
           PutChips(s, bet)
    PROVE  CoverInv'
<1>1. /\ UNCHANGED <<state, current_seat, ranOut, count>>
      /\ pc = "free" /\ pc' = "machine"
      /\ state \in Streets /\ s = current_seat /\ bets[s] <= bet
      /\ bet - bets[s] = chips[s] \/ minBet <= bet
      /\ status' = IF bet - bets[s] = chips[s]
                   THEN [status EXCEPT ![s] = "psAllIn"] ELSE status
      /\ bets' = [bets EXCEPT ![s] = bet]
  <2>1. minBet \in Nat
    BY DEF IInv, Typed, GameTyped
  <2> QED
    BY <2>1 DEF PutChips, Free, Accepted
<1>2. /\ status \in [Seats -> Statuses] /\ bets \in [Seats -> Nat]
      /\ minBet \in Nat /\ \A x \in Seats : bets[x] <= minBet
  BY DEF IInv, Typed, PotsTyped, GameTyped, HInv, Turns, BetsCovered
<1>3. s \in InHand
  BY <1>1 DEF IInv, TurnInHand, PutChips, Free
<1>4. /\ CanPlay' \subseteq CanPlay /\ InHand' = InHand
      /\ AllIn \subseteq AllIn' /\ AllIn' \subseteq AllIn \cup {s}
      /\ CanPlay \ {s} \subseteq CanPlay'
      /\ s \in AllIn' \/ minBet <= bet
      /\ CanPlay \subseteq Seats /\ AllIn' \subseteq Seats /\ InHand \subseteq Seats
  BY <1>1, <1>2, <1>3 DEF CanPlay, InHand, AllIn
<1>5. /\ \A x \in Seats : x # s => bets'[x] = bets[x]
      /\ bets'[s] = bet
  BY <1>1, <1>2
<1>6. LastTurn = s - 1 /\ LastTurn' = s /\ Turning
  BY <1>1 DEF LastTurn, Turning
<1>7. Answered(s)'
  <2> SUFFICES ASSUME NEW w \in CanPlay', bets'[w] < bets'[s]
               PROVE  After(s, w) < After(s, s)
    BY <1>6 DEF Answered, After
  <2>1. w \in Seats /\ w # s
    BY <1>2, <1>4, <1>5
  <2> QED
    BY <2>1, TurnIsDone
<1>8. s \in CanPlay' => minBet <= bet
  <2>1. ASSUME bet - bets[s] = chips[s] PROVE s \notin CanPlay'
    BY <1>1, <1>2, <2>1 DEF CanPlay
  <2> QED
    BY <1>1, <2>1
<1>9. ASSUME NEW x \in Seats, x # s, Answered(x)
      PROVE  Answered(x)'
  <2> SUFFICES ASSUME NEW w \in CanPlay', bets'[w] < bets'[x]
               PROVE  After(s, w) < After(s, x)
    BY <1>6 DEF Answered, After
  <2>1. w # s
    <3> SUFFICES ASSUME w = s
                 PROVE  FALSE
      OBVIOUS
    <3>1. minBet <= bet /\ bet < bets[x] /\ bets[x] <= minBet
      BY <1>2, <1>5, <1>8, <1>9
    <3> QED
      BY <1>2, <1>9, <3>1
  <2>2. w \in CanPlay /\ w \in Seats /\ bets[w] < bets[x]
    BY <1>4, <1>5, <1>9, <2>1
  <2>3. After(s - 1, w) < After(s - 1, x)
    BY <1>6, <1>9, <2>2 DEF Answered
  <2> QED
    BY <1>9, <2>1, <2>2, <2>3, TurnIsDone
<1> SUFFICES ASSUME count'.leavers = 0, NEW a \in AllIn'
             PROVE  IF ranOut THEN Passed(a)' ELSE NotPassed(a)'
  BY <1>1 DEF CoverInv, AllInIsCovered
<1>10. a \in Seats /\ (a # s => a \in AllIn)
  BY <1>4
<1>11. ASSUME NEW y \in InHand, y # s, a # s, Covers(y, a)
       PROVE  Covers(y, a)' /\ y \in InHand'
  <2>1. y \in AllIn => y \in AllIn'
    BY <1>4
  <2>2. ASSUME bets[a] <= bets[y], Answered(y)
        PROVE  bets'[a] <= bets'[y] /\ Answered(y)'
    BY <1>4, <1>5, <1>9, <1>10, <1>11, <2>2
  <2> QED
    BY <1>4, <1>11, <2>1, <2>2 DEF Covers
<1>12. CASE ~ ranOut
  <2>1. CASE a = s
    BY <1>7, <1>12, <2>1 DEF NotPassed
  <2>2. CASE a # s
    <3>1. NotPassed(a)
      BY <1>1, <1>6, <1>10, <1>12, <2>2 DEF CoverInv, AllInIsCovered
    <3>2. CASE Answered(a)
      BY <1>9, <1>10, <1>12, <2>2, <3>2 DEF NotPassed
    <3>3. CASE \E y \in InHand : /\ Covers(y, a)
                                 /\ After(LastTurn, a) < After(LastTurn, y)
      <4>1. PICK y \in InHand : /\ Covers(y, a)
                                /\ After(LastTurn, a) < After(LastTurn, y)
        BY <3>3
      <4>2. y # s
        BY <1>6, <1>10, <4>1, TurnIsDone
      <4>3. Covers(y, a)' /\ y \in InHand' /\ y \in Seats
        BY <1>4, <1>11, <2>2, <4>1, <4>2
      <4>4. After(s, a) < After(s, y)
        BY <1>6, <1>10, <2>2, <4>1, <4>2, <4>3, TurnIsDone
      <4>5. After(LastTurn, a)' < After(LastTurn, y)'
        BY <1>6, <4>4 DEF After
      <4> QED
        BY <1>12, <4>3, <4>5 DEF NotPassed
    <3> QED
      BY <3>1, <3>2, <3>3 DEF NotPassed
  <2> QED
    BY <2>1, <2>2
<1>13. CASE ranOut
  <2>1. AllIn # {} /\ s \notin AllIn
    BY <1>1, <1>13
       DEF ActsInv, PassedIsAllIn, FirstTurn
  <2>2. CASE a = s
    <3>1. PICK y : y \in AllIn
      BY <2>1
    <3>2. Covers(y, a)' /\ y \in InHand'
      BY <1>4, <2>1, <2>2, <3>1 DEF Covers, InHand, AllIn
    <3> QED
      BY <1>13, <3>2 DEF Passed
  <2>3. CASE a # s
    <3>1. Passed(a)
      BY <1>1, <1>6, <1>10, <1>13, <2>3 DEF CoverInv, AllInIsCovered
    <3>2. CASE \A w \in CanPlay : bets[a] <= bets[w]
      <4>1. ASSUME NEW w \in CanPlay' PROVE bets'[a] <= bets'[w]
        <5>1. CASE w = s
          BY <1>2, <1>5, <1>8, <1>10, <2>3, <4>1, <5>1
        <5>2. CASE w # s
          BY <1>4, <1>5, <1>10, <2>3, <3>2, <4>1, <5>2
        <5> QED
          BY <5>1, <5>2
      <4> QED
        BY <1>13, <4>1 DEF Passed
    <3>3. CASE \E y \in InHand : Covers(y, a)
      <4>1. PICK y \in InHand : Covers(y, a)
        BY <3>3
      <4>2. CASE y # s
        BY <1>11, <1>13, <2>3, <4>1, <4>2 DEF Passed
      <4>3. CASE y = s
        <5>1. s \in AllIn' \/ bets'[a] <= bets'[s]
          BY <1>2, <1>4, <1>5, <1>10, <2>3
        <5>2. Covers(s, a)'
          BY <1>7, <2>3, <5>1 DEF Covers
        <5>3. s \in InHand'
          BY <1>3, <1>4
        <5> QED
          BY <1>13, <5>2, <5>3 DEF Passed
      <4> QED
        BY <4>2, <4>3
    <3> QED
      BY <3>1, <3>2, <3>3 DEF Passed
  <2> QED
    BY <2>2, <2>3
<1> QED
  BY <1>1, <1>12, <1>13

\* Who folds has had all who have put in less asked.
LEMMA FoldInTurnCovers ==
    ASSUME IInv, HInv, ActsInv, CoverInv, NEW s \in Seats, FoldInTurn(s)
    PROVE  CoverInv'
<1>1. /\ UNCHANGED <<state, current_seat, bets, ranOut, count>>
      /\ pc = "free" /\ failed = "no" /\ state \in Streets
      /\ s = current_seat
  BY DEF FoldInTurn, Free
<1>2. /\ s \in InHand /\ InHand' = InHand \ {s}
      /\ status' = [status EXCEPT ![s] = "psFolded"]
      /\ pc' \in {"showdown", "machine"}
  BY SomebodyIsLeft
<1>3. /\ status \in [Seats -> Statuses] /\ bets \in [Seats -> Nat]
      /\ CanPlay' = CanPlay \ {s} /\ AllIn' = AllIn \ {s}
      /\ CanPlay \subseteq Seats /\ InHand \subseteq Seats
      /\ AllIn \subseteq Seats
  BY <1>1, <1>2 DEF CanPlay, InHand, AllIn, IInv, Typed, PotsTyped
<1> SUFFICES ASSUME Turning', count'.leavers = 0, NEW a \in AllIn \ {s}
             PROVE  IF ranOut THEN Passed(a)' ELSE NotPassed(a)'
  BY <1>1, <1>3 DEF CoverInv, AllInIsCovered
<1>4. LastTurn = s - 1 /\ LastTurn' = s /\ Turning /\ a \in Seats
  BY <1>1, <1>2, <1>3 DEF LastTurn, Turning
<1>5. ASSUME NEW x \in Seats, x # s, Answered(x)
      PROVE  Answered(x)'
  <2> SUFFICES ASSUME NEW w \in CanPlay', bets[w] < bets[x]
               PROVE  After(s, w) < After(s, x)
    BY <1>1, <1>4 DEF Answered, After
  <2>1. w # s /\ w \in CanPlay /\ w \in Seats
    BY <1>3
  <2>2. After(s - 1, w) < After(s - 1, x)
    BY <1>4, <1>5, <2>1 DEF Answered
  <2> QED
    BY <1>5, <2>1, <2>2, TurnIsDone
<1>6. ASSUME NEW y \in InHand, y # s, Covers(y, a)
      PROVE  Covers(y, a)' /\ y \in InHand'
  BY <1>1, <1>2, <1>3, <1>5, <1>6 DEF Covers
<1>7. CASE ~ ranOut
  <2>1. NotPassed(a)
    BY <1>1, <1>4, <1>7 DEF CoverInv, AllInIsCovered
  <2>2. CASE Answered(a)
    BY <1>4, <1>5, <1>7, <2>2 DEF NotPassed
  <2>3. CASE \E y \in InHand : /\ Covers(y, a)
                               /\ After(LastTurn, a) < After(LastTurn, y)
    <3>1. PICK y \in InHand : /\ Covers(y, a)
                              /\ After(LastTurn, a) < After(LastTurn, y)
      BY <2>3
    <3>2. y # s
      BY <1>4, <3>1, TurnIsDone
    <3>3. Covers(y, a)' /\ y \in InHand' /\ y \in Seats
      BY <1>3, <1>6, <3>1, <3>2
    <3>4. After(s, a) < After(s, y)
      BY <1>4, <3>1, <3>2, <3>3, TurnIsDone
    <3>5. After(LastTurn, a)' < After(LastTurn, y)'
      BY <1>4, <3>4 DEF After
    <3> QED
      BY <1>7, <3>3, <3>5 DEF NotPassed
  <2> QED
    BY <2>1, <2>2, <2>3 DEF NotPassed
<1>8. CASE ranOut
  <2>1. Passed(a) /\ s \notin AllIn
    BY <1>1, <1>4, <1>8
       DEF CoverInv, AllInIsCovered, ActsInv, FirstTurn
  <2>2. CASE \A w \in CanPlay : bets[a] <= bets[w]
    BY <1>1, <1>3, <1>8, <2>2 DEF Passed
  <2>3. CASE \E y \in InHand : Covers(y, a)
    <3>1. PICK y \in InHand : Covers(y, a)
      BY <2>3
    <3>2. CASE y # s
      BY <1>6, <1>8, <3>1, <3>2 DEF Passed
    <3>3. CASE y = s
      <4>1. bets[a] <= bets[s] /\ Answered(s)
        BY <2>1, <3>1, <3>3 DEF Covers
      <4>2. ASSUME NEW w \in CanPlay PROVE bets[s] <= bets[w]
        <5> SUFFICES ASSUME bets[w] < bets[s]
                     PROVE  FALSE
          BY <1>3
        <5>1. After(s - 1, w) < After(s - 1, s)
          BY <1>4, <4>1 DEF Answered
        <5> QED
          BY <1>3, <5>1, TurnIsDone
      <4>3. \A w \in CanPlay : bets[a] <= bets[w]
        BY <1>3, <1>4, <4>1, <4>2
      <4> QED
        BY <1>1, <1>3, <1>8, <4>3 DEF Passed
    <3> QED
      BY <3>2, <3>3
  <2> QED
    BY <2>1, <2>2, <2>3 DEF Passed
<1> QED
  BY <1>7, <1>8

LEMMA StateMachineCovers ==
    ASSUME IInv, HInv, CoverInv, StateMachine
    PROVE  CoverInv'
<1> DEFINE skip == SkipNobodyCanBet \/ SkipLastPlayer
<1>1. /\ UNCHANGED <<status, bets, state, ranOut, count>> /\ pc = "machine"
      /\ then' = IF skip THEN "machine" ELSE "finish"
      /\ \/ pc' \in {"street", "showdown"}
         \/ pc' = then' /\ (~ skip => current_seat' = current_seat)
  BY DEF StateMachine, books
<1>2. CanPlay' = CanPlay /\ AllIn' = AllIn
  BY <1>1 DEF CanPlay, AllIn
<1>3. CASE pc' \in {"street", "showdown"}
  BY <1>3 DEF CoverInv, AllInIsCovered, Turning
<1>4. CASE pc' = then' /\ ~ skip
  BY <1>1, <1>2, <1>4, CoverStays
<1>5. CASE skip
  <2>1. \A a \in AllIn, w \in CanPlay : bets[a] <= bets[w]
    <3> SUFFICES ASSUME NEW a \in AllIn, NEW w \in CanPlay
                 PROVE  bets[a] <= bets[w]
      OBVIOUS
    <3>1. w \in CanCheck
      BY <1>5 DEF SkipNobodyCanBet, SkipLastPlayer
    <3>2. a \in InHand /\ bets[w] = HighestBet
      BY <3>1 DEF CanCheck, AllIn, InHand
    <3> QED
      BY <3>2, HighestIsHighest DEF HInv, Turns
  <2>2. bets' \in [Seats -> Nat]
    BY <1>1 DEF IInv, Typed, PotsTyped
  <2>3. \A a \in AllIn', w \in CanPlay' : bets'[a] <= bets'[w]
    BY <1>1, <1>2, <2>1
  <2>4. AllInIsCovered'
    BY <2>2, <2>3, EvenIsCovered
  <2> QED
    BY <2>4 DEF CoverInv
<1> QED
  BY <1>1, <1>3, <1>4, <1>5

LEMMA ThreeAreThree ==
    ASSUME NEW a, NEW w, NEW y, a # w, a # y, w # y
    PROVE  Cardinality({a, w, y}) = 3
<1>1. IsFiniteSet({}) /\ Cardinality({}) = 0
  BY FS_EmptySet
<1>2. IsFiniteSet({} \cup {y}) /\ Cardinality({} \cup {y}) = 1
  BY <1>1, FS_AddElement
<1>3. {} \cup {y} = {y}
  OBVIOUS
<1>4. IsFiniteSet({y} \cup {w}) /\ Cardinality({y} \cup {w}) = 2
  BY <1>2, <1>3, FS_AddElement
<1>5. Cardinality(({y} \cup {w}) \cup {a}) = 3
  BY <1>4, FS_AddElement
<1>6. {a, w, y} = ({y} \cup {w}) \cup {a}
  OBVIOUS
<1> QED
  BY <1>5, <1>6

\* A seat that is passed over is covered, and covers all others.
LEMMA FinishCovers ==
    ASSUME IInv, HInv, ActsInv, CoverInv, Finish
    PROVE  CoverInv'
<1>1. /\ UNCHANGED <<status, chips, bets, state, count>> /\ pc = "finish"
      /\ state \in Streets
  BY DEF Finish, books, IInv, Control
<1>2. /\ CanPlay' = CanPlay /\ AllIn' = AllIn /\ InHand' = InHand
      /\ InHand \in SUBSET Seats
      /\ bets \in [Seats -> Nat] /\ current_seat \in Seats \cup {-1}
  BY <1>1 DEF CanPlay, AllIn, InHand, IInv, Typed, PotsTyped, GameTyped
<1> SUFFICES ASSUME count'.leavers = 0, NEW a \in AllIn
             PROVE  IF ranOut' THEN Passed(a)' ELSE NotPassed(a)'
  BY <1>1, <1>2 DEF CoverInv, AllInIsCovered
<1> PICK c \in Seats \cup {-1} : c = current_seat
  BY <1>2
<1>a. /\ NextSeat(c) \in InHand /\ NextSeat(c) # -1
      /\ pc' \in {"machine", "released"} /\ LastTurn = c
      /\ LastTurn' = IF pc' = "released" THEN NextSeat(c) - 1 ELSE NextSeat(c)
  BY <1>1, FinishTurn
<1> PICK n \in InHand : n = NextSeat(c)
  BY <1>a
<1>3. /\ n \in Seats /\ pc' \in {"machine", "released"}
      /\ LastTurn = c /\ LastTurn' = IF pc' = "released" THEN n - 1 ELSE n
      /\ ranOut' <=> ranOut \/ chips[n] = 0
      /\ pc' = "machine" <=> chips[n] = 0 \/ (ranOut /\ InHandCount = 2)
  BY <1>2, <1>a DEF Finish
<1>4. IF ranOut THEN Passed(a) ELSE NotPassed(a)
  BY <1>1 DEF CoverInv, AllInIsCovered, Turning
<1>5. ASSUME NEW w \in InHand, NEW x \in InHand,
             After(c, w) < After(c, x), pc' = "machine" => w # n
      PROVE  After(LastTurn', w) < After(LastTurn', x)
  <2>1. w \in Seats /\ x \in Seats
    BY <1>2
  <2>2. After(c, n) <= After(c, w) /\ After(c, n) <= After(c, x)
    BY <1>2, NextIsNearest DEF NextSeat
  <2>3. /\ After(n - 1, w) = After(c, w) - After(c, n)
        /\ After(n, w) = IF w = n THEN N - 1 ELSE After(n - 1, w) - 1
        /\ After(n - 1, x) = After(c, x) - After(c, n)
        /\ After(n, x) = IF x = n THEN N - 1 ELSE After(n - 1, x) - 1
    BY <1>2, <1>3, <2>1, <2>2, TurnMoves
  <2>4. /\ After(c, w) \in 0..(N - 1) /\ After(c, x) \in 0..(N - 1)
        /\ After(c, n) \in 0..(N - 1) /\ N \in Nat
    BY <1>2, <1>3, <2>1, AfterIsDistance, NAssumption
  <2>5. CASE pc' = "released"
    <3>1. LastTurn' = n - 1
      BY <1>3, <2>5
    <3> QED
      BY <1>5, <2>3, <2>4, <3>1
  <2>6. CASE pc' = "machine"
    <3>1. LastTurn' = n /\ w # n
      BY <1>3, <1>5, <2>6
    <3> QED
      BY <1>5, <2>3, <2>4, <3>1
  <2> QED
    BY <1>3, <2>5, <2>6
<1>6. ASSUME NEW y \in InHand, Covers(y, a), pc' = "machine" => n \notin CanPlay
      PROVE  Covers(y, a)'
  <2>1. ASSUME Answered(y) PROVE Answered(y)'
    <3> SUFFICES ASSUME NEW w \in CanPlay, bets[w] < bets[y]
                 PROVE  After(LastTurn', w) < After(LastTurn', y)
      BY <1>1, <1>2 DEF Answered, After
    <3>1. After(c, w) < After(c, y)
      BY <1>3, <2>1 DEF Answered
    <3>2. w \in InHand /\ (pc' = "machine" => w # n)
      BY <1>6, OwingIsFinite
    <3> QED
      BY <1>5, <3>1, <3>2
  <2> QED
    BY <1>1, <1>2, <1>6, <2>1 DEF Covers
<1>7. a \in InHand /\ a \in Seats
  BY <1>2, OwingIsFinite
<1>8. CASE pc' = "released"
  <2>1. ranOut' <=> ranOut
    BY <1>3, <1>8
  <2>2. CASE ranOut
    BY <1>1, <1>2, <1>4, <1>6, <1>8, <2>1, <2>2 DEF Passed
  <2>3. CASE ~ ranOut
    <3>1. CASE Answered(a)
      <4> SUFFICES ASSUME NEW w \in CanPlay, bets[w] < bets[a]
                   PROVE  After(LastTurn', w) < After(LastTurn', a)
        BY <1>1, <1>2, <2>1, <2>3 DEF NotPassed, Answered, After
      <4>1. After(c, w) < After(c, a) /\ w \in InHand
        BY <1>3, <3>1, OwingIsFinite DEF Answered
      <4> QED
        BY <1>5, <1>7, <1>8, <4>1
    <3>2. CASE \E y \in InHand : /\ Covers(y, a)
                                 /\ After(LastTurn, a) < After(LastTurn, y)
      <4>1. PICK y \in InHand : /\ Covers(y, a)
                                /\ After(LastTurn, a) < After(LastTurn, y)
        BY <3>2
      <4>2. Covers(y, a)'
        BY <1>6, <1>8, <4>1
      <4>3. After(LastTurn', a) < After(LastTurn', y)
        BY <1>3, <1>5, <1>7, <1>8, <4>1
      <4>4. After(LastTurn, a)' < After(LastTurn, y)'
        BY <4>3 DEF After
      <4> QED
        BY <1>2, <2>1, <2>3, <4>2, <4>4 DEF NotPassed
    <3> QED
      BY <1>4, <2>3, <3>1, <3>2 DEF NotPassed
  <2> QED
    BY <2>2, <2>3
<1>9. CASE pc' = "machine" /\ chips[n] = 0
  <2>1. n \in AllIn /\ n \notin CanPlay /\ ranOut'
    <3>1. n \in CanPlay => chips[n] > 0
      BY <1>1 DEF ActsInv, StacksInPlay
    <3>2. n \notin CanPlay
      BY <1>9, <3>1
    <3> QED
      BY <1>1, <1>3, <1>9, <3>2, OwingIsFinite
  <2>2. CASE a # n
    <3>1. Covers(n, a)'
      BY <1>2, <2>1, <2>2 DEF Covers
    <3> QED
      BY <1>2, <1>3, <2>1, <3>1 DEF Passed
  <2>3. CASE \A w \in CanPlay : bets[a] <= bets[w]
    BY <1>1, <1>2, <2>1, <2>3 DEF Passed
  <2>4. CASE \E y \in InHand : Covers(y, a)
    BY <1>2, <1>6, <2>1, <2>4 DEF Passed
  <2>5. CASE a = n /\ Answered(a)
    <3> SUFFICES ASSUME NEW w \in CanPlay
                 PROVE  bets[a] <= bets[w]
      BY <2>3
    <3>1. w \in InHand /\ w \in Seats
      BY <1>2, OwingIsFinite
    <3>2. After(c, a) <= After(c, w)
      BY <1>2, <2>5, <3>1, NextIsNearest DEF NextSeat
    <3>3. bets[w] < bets[a] => After(c, w) < After(c, a)
      BY <1>3, <2>5 DEF Answered
    <3>4. After(c, a) \in Int /\ After(c, w) \in Int
          /\ bets[a] \in Nat /\ bets[w] \in Nat
      BY <1>2, <1>7, <3>1, AfterIsDistance
    <3> QED
      BY <3>2, <3>3, <3>4
  <2> QED
    BY <1>4, <2>2, <2>3, <2>4, <2>5 DEF Passed, NotPassed
<1>10. CASE pc' = "machine" /\ chips[n] # 0
  <2>1. ranOut /\ InHandCount = 2 /\ ranOut'
    BY <1>3, <1>10
  <2>2. CASE \A w \in CanPlay : bets[a] <= bets[w]
    BY <1>1, <1>2, <2>1, <2>2 DEF Passed
  <2>3. CASE \E y \in InHand : Covers(y, a)
    <3>1. PICK y \in InHand : Covers(y, a)
      BY <2>3
    <3>2. CASE y \in AllIn
      <4>1. Covers(y, a)'
        BY <1>2, <3>1, <3>2 DEF Covers
      <4> QED
        BY <1>2, <2>1, <4>1 DEF Passed
    <3>3. CASE y \notin AllIn
      <4>1. CanPlay \subseteq {y}
        <5> SUFFICES ASSUME NEW w \in CanPlay, w # y
                     PROVE  FALSE
          OBVIOUS
        <5>1. {a, w, y} \in SUBSET InHand /\ a # w /\ a # y
          BY <1>7, <3>1, OwingIsFinite DEF Covers
        <5>2. Cardinality({a, w, y}) = 3
          BY <5>1, ThreeAreThree
        <5>3. 3 <= Cardinality(InHand)
          BY <5>1, <5>2, OwingIsFinite, FS_Subset
        <5> QED
          BY <2>1, <5>3 DEF InHandCount
      <4>2. bets[a] <= bets[y]
        BY <3>1, <3>3 DEF Covers
      <4> QED
        BY <2>2, <4>1, <4>2
    <3> QED
      BY <3>2, <3>3
  <2> QED
    BY <1>4, <2>1, <2>2, <2>3 DEF Passed
<1> QED
  BY <1>3, <1>8, <1>9, <1>10

LEMMA DealStreetCovers ==
    ASSUME IInv, DealStreet
    PROVE  CoverInv'
<1>1. /\ UNCHANGED <<status, bets>> /\ mv = "return"
  BY DEF DealStreet, Moved
<1>2. bets = [s \in Seats |-> 0]
  BY <1>1 DEF IInv, MovedBets
<1>3. bets' \in [Seats -> Nat] /\ \A s \in Seats : bets'[s] = 0
  BY <1>1, <1>2
<1>4. AllIn' \subseteq Seats /\ CanPlay' \subseteq Seats
  BY DEF AllIn, CanPlay
<1>5. \A a \in AllIn', w \in CanPlay' : bets'[a] <= bets'[w]
  BY <1>3, <1>4
<1> QED
  BY <1>3, <1>5, EvenIsCovered DEF CoverInv

\* The big blind is asked last and covers all others, if it is not all in.
LEMMA DealCovers ==
    ASSUME IInv, IInv', HInv, Deal
    PROVE  CoverInv'
<1> DEFINE t == DealtTable
           dealt == Dealing!DealtIn(t)
           b == Dealing!BigBlindSeat(t)
           due == [s \in Seats |->
                     IF s \in dealt
                     THEN Dealing!BlindDue(t, s, SmallBlind, BigBlind)
                     ELSE 0]
           status1 == [s \in Seats |->
                         IF s \in dealt
                         THEN IF due[s] = chips[s] THEN "psAllIn"
                              ELSE "psInHand"
                         ELSE SatOut[s]]
<1>1. /\ state = "tsIdle" /\ Cardinality(Dealing!Able(t)) > 1
      /\ pc' = "free" /\ state' = "tsPreFlop" /\ ~ ranOut'
      /\ status' = status1 /\ bets' = due
      /\ current_seat' = Dealing!NextSeat(b, dealt)
  BY DEF Deal
<1>2. Cardinality(dealt) > 1
  BY <1>1, TwoAreDealtIn
<1>3. /\ dealt \in SUBSET Seats /\ dealt # {}
      /\ t.dealer \in Seats \cup {-1} /\ t.chips = chips
      /\ \A s \in Seats : SatOut[s] = "psInHand" => s \in dealt
      /\ \A s \in Seats : SatOut[s] # "psAllIn"
  <2>1. /\ dealt \in SUBSET Dealing!Able(t) /\ Dealing!Able(t) \in SUBSET Seats
        /\ t.dealer = dealer /\ dealer \in Seats \cup {-1}
        /\ t.chips = chips
        /\ Dealing!Playing(t) = {s \in Seats : SatOut[s] = "psInHand"}
        /\ Dealing!Playing(t) \subseteq dealt
    BY <1>1, TableToDeal
  <2>2. dealt # {}
    BY <1>2, FS_EmptySet
  <2>3. \A s \in Seats : SatOut[s] # "psAllIn"
    BY <1>1 DEF SatOut, HInv, Turns, NoAllInAtRest
  <2> QED
    BY <2>1, <2>2, <2>3
<1>4. b \in dealt
  <2>1. Dealing!SmallBlindSeat(t) \in Int
    <3>1. Dealing!NewDealer(t) \in Int
      BY <1>3, DealSeats DEF Seats
    <3>2. \A c \in Int : Dealing!NextSeat(c, dealt) \in Int
      BY <1>3, NextSeatIn DEF Seats
    <3> QED
      BY <3>1, <3>2 DEF Dealing!SmallBlindSeat
  <2> QED
    BY <1>3, <2>1, NextSeatIn DEF Dealing!BigBlindSeat
<1>5. \A s \in Seats : due[s] \in Nat /\ due[s] <= BigBlind
  BY <1>1, BlindIsCovered, BettingAssumption
<1>6. PICK q \in dealt : q = b
  BY <1>4
<1>7. due[q] = BigBlind \/ due[q] = chips[q]
  BY <1>3, <1>6 DEF Dealing!BlindDue
<1>8. /\ dealt \subseteq {s \in Seats : status1[s] = "psAllIn"
                                          \/ status1[s] = "psInHand"}
      /\ \A s \in Seats : status1[s] \in {"psInHand", "psAllIn"} => s \in dealt
      /\ due[q] = chips[q] => status1[q] = "psAllIn"
  BY <1>3, <1>6
<1> HIDE DEF t, due, dealt, b, status1
<1>9. /\ InHand' = dealt /\ AllIn' \subseteq dealt /\ CanPlay' \subseteq dealt
      /\ q \in Seats /\ q \in InHand'
      /\ q \in AllIn' \/ bets'[q] = BigBlind
      /\ \A x \in Seats : bets'[x] \in Nat /\ bets'[x] <= BigBlind
  BY <1>1, <1>3, <1>5, <1>6, <1>7, <1>8 DEF InHand, AllIn, CanPlay
<1> DEFINE n == Dealing!NextSeat(b, dealt)
<1>10. n = Dealing!NextSeat(q, dealt) /\ LastTurn' = n - 1
  BY <1>1, <1>6 DEF LastTurn
<1> HIDE DEF n
<1>11. ASSUME NEW w \in dealt, w # q
       PROVE  After(n - 1, w) < After(n - 1, q)
  <2>1. q \in Seats /\ w \in Seats
    BY <1>3, <1>9
  <2>2. n \in Seats
    <3>1. q \in Int
      BY <2>1, NAssumption DEF Seats
    <3>2. n \in dealt
      BY <1>3, <1>10, <3>1, NextSeatIn
    <3> QED
      BY <1>3, <3>2
  <2>3. After(q, n) <= After(q, w) /\ After(q, n) <= After(q, q)
    BY <1>3, <1>6, <1>10, <2>1, NextIsNearest
  <2>4. /\ After(n - 1, w) = After(q, w) - After(q, n)
        /\ After(n - 1, q) = After(q, q) - After(q, n)
    BY <2>1, <2>2, <2>3, TurnMoves
  <2>5. /\ After(q, w) = After(q - 1, w) - 1 /\ After(q, q) = N - 1
        /\ After(q - 1, w) \in 0..(N - 1) /\ N \in Nat
    BY <1>11, <2>1, TurnIsDone
  <2>6. After(q, n) \in 0..(N - 1)
    BY <2>1, <2>2, AfterIsDistance
  <2> QED
    BY <2>4, <2>5, <2>6
<1>12. Answered(q)'
  <2> SUFFICES ASSUME NEW w \in CanPlay', bets'[w] < bets'[q]
               PROVE  After(n - 1, w) < After(n - 1, q)
    BY <1>10 DEF Answered, After
  <2>1. w \in dealt /\ w # q
    BY <1>9
  <2> QED
    BY <1>11, <2>1
<1> SUFFICES ASSUME NEW a \in AllIn'
             PROVE  NotPassed(a)'
  BY <1>1 DEF CoverInv, AllInIsCovered
<1>13. CASE a = q
  BY <1>12, <1>13 DEF NotPassed
<1>14. CASE a # q
  <2>1. a \in dealt /\ a \in Seats
    BY <1>3, <1>9
  <2>2. Covers(q, a)'
    BY <1>9, <1>12, <1>14, <2>1 DEF Covers
  <2>3. After(LastTurn, a)' < After(LastTurn, q)'
    BY <1>10, <1>11, <1>14, <2>1 DEF After
  <2> QED
    BY <1>9, <2>2, <2>3 DEF NotPassed
<1> QED
  BY <1>13, <1>14

LEMMA RestCovers ==
    ASSUME IInv, LInv, CoverInv,
           \/ Release \/ WaitForPlayers \/ CalcWinners \/ PayPot \/ WinDone
           \/ Sit \/ Buy \/ EndHand \/ Leave \/ MoveToPot
    PROVE  CoverInv'
<1>0. state' \notin Streets => CoverInv'
  BY DEF CoverInv, AllInIsCovered, Turning
<1>1. CASE Release
  <2>1. /\ UNCHANGED <<status, state, count, ranOut>>
        /\ pc = "released" /\ pc' = "free"
        /\ leaving = NoSeat => UNCHANGED <<bets, current_seat>>
    BY <1>1 DEF Release, books
  <2>2. CanPlay' = CanPlay /\ AllIn' = AllIn
    BY <2>1 DEF CanPlay, AllIn
  <2>3. CASE leaving = NoSeat
    BY <2>1, <2>2, <2>3, CoverStays
  <2>4. CASE leaving # NoSeat
    BY <2>1, <2>4 DEF LInv, NobodyLeft, CoverInv
  <2> QED
    BY <2>3, <2>4
<1>2. CASE WaitForPlayers \/ PayPot \/ WinDone
  <2>1. state' = state /\ (pc = "idle" \/ pc = "pay")
    BY <1>2 DEF WaitForPlayers, PayPot, WinDone, handVars
  <2> QED
    BY <1>0, <2>1 DEF IInv, Control, Streets
<1>3. CASE CalcWinners \/ EndHand
  <2>1. state' \in {"tsWinning", "tsIdle"}
    BY <1>3 DEF CalcWinners, EndHand, HandOver
  <2> QED
    BY <1>0, <2>1 DEF Streets
<1>4. CASE Sit
  <2>1. PICK s \in Seats : PlayNow(s) \/ SitOut(s)
    BY <1>4 DEF Sit
  <2>2. /\ UNCHANGED <<bets, state, current_seat, pc, count, ranOut>>
        /\ \A x \in Seats : x # s => status'[x] = status[x]
        /\ status'[s] \in {"psOutOfHand", "psOutOfPlay"}
        /\ \/ status[s] \in {"psOutOfHand", "psOutOfPlay"}
           \/ status[s] = "psInHand" /\ state = "tsIdle"
    BY <2>1 DEF PlayNow, SitOut, Free, gameVars, handVars, lockVars, books,
       IInv, Typed, PotsTyped
  <2>3. CASE state = "tsIdle"
    BY <1>0, <2>2, <2>3 DEF Streets
  <2>4. CASE state # "tsIdle"
    <3>1. CanPlay' = CanPlay /\ AllIn' = AllIn
      BY <2>2, <2>4 DEF CanPlay, AllIn
    <3> QED
      BY <2>2, <3>1, CoverStays
  <2> QED
    BY <2>3, <2>4
<1>5. CASE Buy
  <2>1. PICK s \in Seats, n \in Stacks : AddOn(s, n)
    BY <1>5 DEF Buy
  <2>2. /\ UNCHANGED <<status, bets, state, current_seat, pc, ranOut>>
        /\ count' = [count EXCEPT !.addons = @ + 1]
    BY <2>1 DEF AddOn, Free, handVars, lockVars
  <2>3. count'.leavers = count.leavers
    BY <2>2 DEF LInv, CountTyped
  <2>4. CanPlay' = CanPlay /\ AllIn' = AllIn
    BY <2>2 DEF CanPlay, AllIn
  <2> QED
    BY <2>2, <2>3, <2>4, CoverStays
<1>6. CASE Leave
  <2>1. PICK s \in Seats : StandUp(s)
    BY <1>6 DEF Leave
  <2>2. count' = [count EXCEPT !.leavers = @ + 1]
    BY <2>1 DEF StandUp
  <2>3. count'.leavers # 0
    BY <2>2 DEF LInv, CountTyped
  <2> QED
    BY <2>3 DEF CoverInv
<1>7. CASE MoveToPot
  <2>1. pc' = pc /\ mv # "none"
    BY <1>7 DEF MoveToPot, MoveStep, MovePass, MergePots, ReturnPot, gameVars,
       lockVars
  <2>2. ~ Turning'
    BY <2>1 DEF IInv, Control, Turning
  <2> QED
    BY <2>2 DEF CoverInv, AllInIsCovered
<1> QED
  BY <1>1, <1>2, <1>3, <1>4, <1>5, <1>6, <1>7

LEMMA CoverInvariance == Spec => []CoverInv
<1>1. Init => CoverInv
  BY DEF Init, CoverInv, AllInIsCovered, Turning, Streets
<1>2. ASSUME IInv, IInv', HInv, LInv, ActsInv, CoverInv, [Next]_vars
      PROVE  CoverInv'
  <2>1. CASE Deal
    BY <1>2, <2>1, DealCovers
  <2>2. CASE Act
    <3>1. PICK s \in Seats : \/ \E bet \in BetsTried(s) : PutChips(s, bet)
                             \/ Fold(s) \/ TimeOut(s)
      BY <2>2 DEF Act
    <3>2. minBet \in Nat /\ BetsTried(s) \subseteq Nat
      BY <1>2, BetsTriedType
    <3>3. (\E bet \in Nat : PutChips(s, bet)) \/ FoldInTurn(s)
      BY <3>1, <3>2 DEF Fold, TimeOut
    <3> QED
      BY <1>2, <3>3, PutChipsCovers, FoldInTurnCovers
  <2>3. CASE Leave \/ Sit \/ Buy \/ EndHand
    BY <1>2, <2>3, RestCovers
  <2>4. CASE Locked
    BY <1>2, <2>4, StateMachineCovers, FinishCovers, DealStreetCovers,
       RestCovers, DealCovers DEF Locked
  <2>5. CASE UNCHANGED vars
    <3>1. UNCHANGED <<status, bets, state, pc, ranOut, current_seat, count>>
      BY <2>5 DEF vars, potVars, gameVars, handVars, lockVars, books
    <3>2. CanPlay' = CanPlay /\ AllIn' = AllIn
      BY <3>1 DEF CanPlay, AllIn
    <3> QED
      BY <1>2, <3>1, <3>2, CoverStays
  <2> QED
    BY <1>2, <2>1, <2>2, <2>3, <2>4, <2>5 DEF Next
<1> QED
  BY <1>1, <1>2, Invariance, HandInvariance, LawInvariance, ActsInvariance,
     PTL DEF Spec

-----------------------------------------------------------------------------
(***************************************************************************)
(* A hand that nobody leaves runs out.  stateMachine calls itself, and     *)
(* passes over seats, as long as it has somebody to wait for: a seat that  *)
(* has to act, by keycount, or a seat that has bet less than another one.  *)
(***************************************************************************)
Awaited ==
    IF keycount > 0 THEN CanPlay ELSE {c \in CanPlay : bets[c] < HighestBet}

SomebodyAwaited ==
    /\ pc = "finish" => Awaited # {}
    /\ state \in Streets /\ pc \in {"free", "released"} =>
          Awaited # {} \/ current_seat \in AllIn

\* finish passes over no seat that has chips.
NoneSkipped ==
    pc = "finish" \/ (pc = "street" /\ then = "finish") =>
        ~ (ranOut /\ InHandCount = 2)

WaitInv == count.leavers = 0 => SomebodyAwaited /\ NoneSkipped

-----------------------------------------------------------------------------
LEMMA HighestCovered ==
    ASSUME IInv, HInv
    PROVE  HighestBet \in Nat /\ HighestBet <= minBet
<1> DEFINE S == {0} \cup {bets[x] : x \in InHand}
<1>1. S \in SUBSET Nat /\ S # {} /\ minBet \in Nat /\ \A x \in S : x <= minBet
  <2>1. /\ minBet \in Nat /\ InHand \subseteq Seats
        /\ \A x \in InHand : bets[x] \in Nat /\ bets[x] <= minBet
    BY DEF IInv, Typed, PotsTyped, GameTyped, HInv, Turns, BetsCovered, InHand
  <2> QED
    BY <2>1
<1> HIDE DEF S
<1>2. Max(S) \in S
  BY <1>1, MaxIsGreatest
<1>3. HighestBet = Max(S)
  BY DEF HighestBet, S
<1> QED
  BY <1>1, <1>2, <1>3

LEMMA StateMachineWaits ==
    ASSUME IInv, HInv, ActsInv, CoverInv, WaitInv, StateMachine
    PROVE  WaitInv'
<1> DEFINE skip == SkipNobodyCanBet \/ SkipLastPlayer
<1>1. /\ UNCHANGED <<status, bets, state, ranOut, count>> /\ pc = "machine"
      /\ then' = IF skip THEN "machine" ELSE "finish"
      /\ \/ pc' = "street" /\ BetsEqual
         \/ pc' = "showdown"
         \/ pc' = then' /\ (skip \/ (keycount' = keycount
                                     /\ (keycount > 0 \/ ~ BetsEqual)))
  <2>1. keycount \in Int
    BY DEF IInv, Typed, GameTyped
  <2> QED
    BY <2>1 DEF StateMachine, books
<1>2. CanPlay' = CanPlay /\ AllIn' = AllIn /\ InHand' = InHand
      /\ HighestBet' = HighestBet /\ state \in Streets
  BY <1>1 DEF CanPlay, AllIn, InHand, HighestBet, IInv, Control
<1> SUFFICES ASSUME count.leavers = 0
             PROVE  SomebodyAwaited' /\ NoneSkipped'
  BY <1>1 DEF WaitInv
<1>3. CASE skip
  BY <1>1, <1>3 DEF SomebodyAwaited, NoneSkipped
<1>4. CASE ~ skip
  <2>1. CanPlay # {}
    BY <1>4 DEF SkipNobodyCanBet
  <2>2. ASSUME ranOut, InHandCount = 2
        PROVE  /\ ~ BetsEqual
               /\ FALSE
    <3>1. PICK a : a \in AllIn
      BY <1>2, <2>2 DEF ActsInv, PassedIsAllIn
    <3>2. PICK c : c \in CanPlay
      BY <2>1
    <3>3. a \in InHand /\ c \in InHand /\ a # c
      BY <3>1, <3>2, OwingIsFinite
    <3>4. \A y \in InHand : y = a \/ y = c
      <4> SUFFICES ASSUME NEW y \in InHand, y # a, y # c
                   PROVE  FALSE
        OBVIOUS
      <4>1. Cardinality({a, c, y}) = 3 /\ {a, c, y} \subseteq InHand
        BY <3>3, ThreeAreThree
      <4> QED
        BY <2>2, <4>1, OwingIsFinite, FS_Subset DEF InHandCount
    <3>5. CanPlay = {c}
      BY <3>1, <3>2, <3>4, OwingIsFinite
    <3>6. bets[c] # HighestBet
      <4>1. Cardinality(CanPlay) = 1
        BY <3>5, FS_Singleton
      <4>2. CanCheck # CanPlay
        BY <1>4, <2>2, <4>1 DEF SkipLastPlayer
      <4> QED
        BY <3>5, <4>2 DEF CanCheck
    <3>7. bets[a] <= bets[c]
      <4>1. Passed(a)
        BY <1>1, <1>2, <2>2, <3>1 DEF CoverInv, AllInIsCovered, Turning
      <4>2. CASE \E y \in InHand : Covers(y, a)
        <5>1. PICK y \in InHand : Covers(y, a)
          BY <4>2
        <5>2. y = c /\ c \notin AllIn
          BY <3>2, <3>4, <5>1, OwingIsFinite DEF Covers
        <5> QED
          BY <5>1, <5>2 DEF Covers
      <4> QED
        BY <3>2, <4>1, <4>2 DEF Passed
    <3>8. HighestBet = bets[c]
      <4> DEFINE S == {0} \cup {bets[x] : x \in InHand}
      <4>1. S \in SUBSET Nat /\ S # {} /\ minBet \in Nat
            /\ \A x \in S : x <= minBet
        <5>1. /\ minBet \in Nat /\ InHand \subseteq Seats
              /\ \A x \in InHand : bets[x] \in Nat /\ bets[x] <= minBet
          BY DEF IInv, Typed, PotsTyped, GameTyped, HInv, Turns, BetsCovered,
             InHand
        <5> QED
          BY <5>1
      <4>2. bets[c] \in S /\ \A x \in S : x <= bets[c]
        <5>1. bets[a] \in Nat /\ bets[c] \in Nat
          BY <3>3, <4>1
        <5> QED
          BY <3>3, <3>4, <3>7, <5>1
      <4> HIDE DEF S
      <4>3. Max(S) \in S /\ \A x \in S : x <= Max(S)
        BY <4>1, MaxIsGreatest
      <4>4. Max(S) \in Nat /\ bets[c] \in Nat
        BY <4>1, <4>2, <4>3
      <4>5. Max(S) <= bets[c] /\ bets[c] <= Max(S)
        BY <4>2, <4>3
      <4>6. Max(S) = bets[c]
        BY <4>4, <4>5
      <4> QED
        BY <4>6 DEF HighestBet, S
    <3> QED
      BY <3>6, <3>8
  <2>3. NoneSkipped'
    BY <1>1, <1>2, <2>2 DEF NoneSkipped, InHandCount
  <2>4. pc' = "finish" => Awaited' # {}
    <3> SUFFICES ASSUME pc' = "finish"
                 PROVE  Awaited' # {}
      OBVIOUS
    <3>1. keycount' = keycount /\ (keycount > 0 \/ ~ BetsEqual)
      BY <1>1, <1>4
    <3>2. Awaited' = Awaited
      BY <1>1, <1>2, <3>1 DEF Awaited
    <3>3. CASE keycount > 0
      BY <2>1, <3>2, <3>3 DEF Awaited
    <3>4. CASE ~ BetsEqual
      <4>1. PICK w \in CanPlay : bets[w] # HighestBet
        <5>1. {bets[x] : x \in CanPlay} # {HighestBet}
          BY <3>4 DEF BetsEqual
        <5> QED
          BY <2>1, <5>1
      <4>2. w \in InHand /\ w \in Seats
        BY OwingIsFinite
      <4>3. bets[w] <= HighestBet /\ bets[w] \in Nat /\ HighestBet \in Nat
        BY <4>2, HighestIsHighest, HighestCovered
           DEF HInv, Turns, IInv, Typed, PotsTyped
      <4>4. bets[w] < HighestBet
        BY <4>1, <4>3
      <4> QED
        BY <2>1, <3>2, <4>4 DEF Awaited
    <3> QED
      BY <3>1, <3>3, <3>4
  <2>5. pc' \notin {"free", "released"}
    BY <1>1, <1>4
  <2> QED
    BY <2>3, <2>4, <2>5 DEF SomebodyAwaited
<1> QED
  BY <1>3, <1>4

LEMMA FinishWaits ==
    ASSUME WaitInv, Finish
    PROVE  WaitInv'
<1>1. /\ UNCHANGED <<status, bets, state, keycount, count>>
      /\ pc = "finish" /\ pc' \in {"machine", "released"}
  BY DEF Finish, books
<1>2. CanPlay' = CanPlay /\ HighestBet' = HighestBet
  BY <1>1 DEF CanPlay, HighestBet, InHand
<1>3. Awaited' = Awaited
  BY <1>1, <1>2 DEF Awaited
<1> QED
  BY <1>1, <1>3 DEF WaitInv, SomebodyAwaited, NoneSkipped

LEMMA DealStreetWaits ==
    ASSUME IInv, HInv, ActsInv, WaitInv, DealStreet
    PROVE  WaitInv'
<1>1. /\ UNCHANGED <<status, chips, ranOut, count>> /\ then' = then
      /\ pc = "street" /\ pc' = then /\ pc' \in {"machine", "finish"}
      /\ keycount' = KeyCount(status, chips) /\ state \in Streets
  BY DEF DealStreet, IInv, Control, Typed, GameTyped
<1>2. CanPlay' = CanPlay /\ InHand' = InHand
  BY <1>1 DEF CanPlay, InHand
<1> SUFFICES ASSUME count.leavers = 0
             PROVE  SomebodyAwaited' /\ NoneSkipped'
  BY <1>1 DEF WaitInv
<1>3. NoneSkipped'
  BY <1>1, <1>2 DEF WaitInv, NoneSkipped, InHandCount
<1>4. pc' = "finish" => Awaited' # {}
  <2> SUFFICES ASSUME pc' = "finish"
               PROVE  Awaited' # {}
    OBVIOUS
  <2>1. CanPlay # {}
    BY <1>1 DEF HInv, Turns, SomebodyCanPlay
  <2>2. {s \in Seats : status[s] = "psInHand" /\ chips[s] > 0} = CanPlay
    BY <1>1 DEF ActsInv, StacksInPlay, CanPlay
  <2>3. Cardinality(CanPlay) \in Nat /\ Cardinality(CanPlay) # 0
    BY <2>1, OwingIsFinite, FS_EmptySet
  <2>4. keycount' > 0
    BY <1>1, <2>2, <2>3 DEF KeyCount
  <2> QED
    BY <1>2, <2>1, <2>4 DEF Awaited
<1> QED
  BY <1>1, <1>3, <1>4 DEF SomebodyAwaited

LEMMA DealWaits ==
    ASSUME IInv, IInv', HInv, Deal, ActsInv'
    PROVE  WaitInv'
<1> DEFINE dealt == Dealing!DealtIn(DealtTable)
<1>0. state = "tsIdle"
  BY DEF Deal
<1>1. /\ pc' = "free" /\ state' = "tsPreFlop"
      /\ Cardinality(Dealing!Able(DealtTable)) > 1
      /\ keycount' = KeyCount(status', chips')
  BY DEF Deal
<1>2. failed' = "no"
  <2>1. Cardinality(dealt) > 1
    BY <1>0, <1>1, TwoAreDealtIn
  <2> QED
    BY <2>1 DEF Deal
<1>3. current_seat' \in InHand'
  BY <1>1, <1>2 DEF IInv, TurnInHand, Streets
<1> SUFFICES ASSUME count'.leavers = 0, current_seat' \notin AllIn'
             PROVE  Awaited' # {}
  BY <1>1 DEF WaitInv, SomebodyAwaited, NoneSkipped
<1>4. CanPlay' # {}
  BY <1>3 DEF InHand, CanPlay, AllIn
<1>5. {s \in Seats : status'[s] = "psInHand" /\ chips'[s] > 0} = CanPlay'
  BY <1>1 DEF ActsInv, StacksInPlay, CanPlay, Streets
<1>6. Cardinality(CanPlay') \in Nat /\ Cardinality(CanPlay') # 0
  <2>1. CanPlay' \in SUBSET Seats
    BY DEF CanPlay
  <2> QED
    BY <1>4, <2>1, SeatsFinite, FS_EmptySet
<1>7. keycount' > 0
  BY <1>1, <1>5, <1>6 DEF KeyCount
<1> QED
  BY <1>4, <1>7 DEF Awaited

LEMMA RestWaits ==
    ASSUME IInv, LInv, WaitInv,
           \/ Release \/ WaitForPlayers \/ CalcWinners \/ PayPot \/ WinDone
           \/ Sit \/ Buy \/ EndHand \/ Leave \/ MoveToPot
           \/ (\E s \in Seats, bet \in Nat : PutChips(s, bet))
           \/ (\E s \in Seats : FoldInTurn(s))
    PROVE  WaitInv'
<1>0. state' \notin Streets /\ pc' \notin {"street", "finish"} => WaitInv'
  BY DEF WaitInv, SomebodyAwaited, NoneSkipped
<1>1. CASE Release
  <2>1. /\ UNCHANGED <<status, state, count, keycount>>
        /\ pc = "released" /\ pc' = "free"
        /\ leaving = NoSeat => UNCHANGED <<bets, current_seat>>
    BY <1>1 DEF Release, books
  <2>2. CanPlay' = CanPlay /\ AllIn' = AllIn /\ InHand' = InHand
    BY <2>1 DEF CanPlay, AllIn, InHand
  <2>3. CASE leaving = NoSeat
    <3>1. Awaited' = Awaited
      BY <2>1, <2>2, <2>3 DEF Awaited, HighestBet
    <3> QED
      BY <2>1, <2>2, <2>3, <3>1 DEF WaitInv, SomebodyAwaited, NoneSkipped
  <2>4. CASE leaving # NoSeat
    BY <2>1, <2>4 DEF LInv, NobodyLeft, WaitInv
  <2> QED
    BY <2>3, <2>4
<1>2. CASE WaitForPlayers \/ PayPot \/ WinDone
  <2>1. state' = state /\ (pc = "idle" \/ pc = "pay")
        /\ pc' \in {"free", "pay", "released"}
    BY <1>2 DEF WaitForPlayers, PayPot, WinDone, handVars, lockVars
  <2> QED
    BY <1>0, <2>1 DEF IInv, Control, Streets
<1>3. CASE CalcWinners \/ EndHand
  <2>1. state' \in {"tsWinning", "tsIdle"} /\ pc' \in {"pay", "idle"}
    BY <1>3 DEF CalcWinners, EndHand, HandOver
  <2> QED
    BY <1>0, <2>1 DEF Streets
<1>4. CASE Sit
  <2>1. PICK s \in Seats : PlayNow(s) \/ SitOut(s)
    BY <1>4 DEF Sit
  <2>2. /\ UNCHANGED <<bets, state, current_seat, pc, count, keycount>>
        /\ pc = "free"
        /\ \A x \in Seats : x # s => status'[x] = status[x]
        /\ status'[s] \in {"psOutOfHand", "psOutOfPlay"}
        /\ \/ status[s] \in {"psOutOfHand", "psOutOfPlay"}
           \/ status[s] = "psInHand" /\ state = "tsIdle"
    BY <2>1 DEF PlayNow, SitOut, Free, gameVars, handVars, lockVars, books,
       IInv, Typed, PotsTyped
  <2>3. CASE state = "tsIdle"
    BY <1>0, <2>2, <2>3 DEF Streets
  <2>4. CASE state # "tsIdle"
    <3>1. CanPlay' = CanPlay /\ AllIn' = AllIn /\ InHand' = InHand
      BY <2>2, <2>4 DEF CanPlay, AllIn, InHand
    <3>2. Awaited' = Awaited
      BY <2>2, <3>1 DEF Awaited, HighestBet
    <3> QED
      BY <2>2, <3>1, <3>2 DEF WaitInv, SomebodyAwaited, NoneSkipped
  <2> QED
    BY <2>3, <2>4
<1>5. CASE Buy
  <2>1. PICK s \in Seats, n \in Stacks : AddOn(s, n)
    BY <1>5 DEF Buy
  <2>2. /\ UNCHANGED <<status, bets, state, current_seat, pc, keycount>>
        /\ pc = "free" /\ count' = [count EXCEPT !.addons = @ + 1]
    BY <2>1 DEF AddOn, Free, handVars, lockVars
  <2>3. count'.leavers = count.leavers
    BY <2>2 DEF LInv, CountTyped
  <2>4. CanPlay' = CanPlay /\ AllIn' = AllIn /\ InHand' = InHand
    BY <2>2 DEF CanPlay, AllIn, InHand
  <2>5. Awaited' = Awaited
    BY <2>2, <2>4 DEF Awaited, HighestBet
  <2> QED
    BY <2>2, <2>3, <2>4, <2>5 DEF WaitInv, SomebodyAwaited, NoneSkipped
<1>6. CASE Leave
  <2>1. PICK s \in Seats : StandUp(s)
    BY <1>6 DEF Leave
  <2>2. count' = [count EXCEPT !.leavers = @ + 1]
    BY <2>1 DEF StandUp
  <2>3. count'.leavers # 0
    BY <2>2 DEF LInv, CountTyped
  <2> QED
    BY <2>3 DEF WaitInv
<1>7. CASE MoveToPot
  <2>1. /\ pc' = pc /\ mv # "none" /\ then' = then /\ ranOut' = ranOut
        /\ status' = status /\ count' = count
    BY <1>7 DEF MoveToPot, MoveStep, MovePass, MergePots, ReturnPot, gameVars,
       lockVars, handVars, books
  <2>2. pc \in {"street", "showdown"}
    BY <2>1 DEF IInv, Control
  <2>3. InHand' = InHand
    BY <2>1 DEF InHand
  <2> QED
    BY <2>1, <2>2, <2>3 DEF WaitInv, SomebodyAwaited, NoneSkipped, InHandCount
<1>8. CASE \E s \in Seats, bet \in Nat : PutChips(s, bet)
  <2>1. pc' = "machine"
    BY <1>8 DEF PutChips
  <2> QED
    BY <2>1 DEF WaitInv, SomebodyAwaited, NoneSkipped
<1>9. CASE \E s \in Seats : FoldInTurn(s)
  <2>1. pc' \in {"machine", "showdown"}
    BY <1>9, SomebodyIsLeft
  <2> QED
    BY <2>1 DEF WaitInv, SomebodyAwaited, NoneSkipped
<1> QED
  BY <1>1, <1>2, <1>3, <1>4, <1>5, <1>6, <1>7, <1>8, <1>9

LEMMA WaitInvariance == Spec => []WaitInv
<1>1. Init => WaitInv
  BY DEF Init, WaitInv, SomebodyAwaited, NoneSkipped, Streets
<1>2. ASSUME IInv, IInv', HInv, LInv, ActsInv, ActsInv', CoverInv, WaitInv,
             [Next]_vars
      PROVE  WaitInv'
  <2>1. CASE Deal
    BY <1>2, <2>1, DealWaits
  <2>2. CASE Act
    <3>1. PICK s \in Seats : \/ \E bet \in BetsTried(s) : PutChips(s, bet)
                             \/ Fold(s) \/ TimeOut(s)
      BY <2>2 DEF Act
    <3>2. minBet \in Nat /\ BetsTried(s) \subseteq Nat
      BY <1>2, BetsTriedType
    <3>3. (\E bet \in Nat : PutChips(s, bet)) \/ FoldInTurn(s)
      BY <3>1, <3>2 DEF Fold, TimeOut
    <3> QED
      BY <1>2, <3>3, RestWaits
  <2>3. CASE Leave \/ Sit \/ Buy \/ EndHand
    BY <1>2, <2>3, RestWaits
  <2>4. CASE Locked
    BY <1>2, <2>4, StateMachineWaits, FinishWaits, DealStreetWaits,
       RestWaits, DealWaits DEF Locked
  <2>5. CASE UNCHANGED vars
    <3>1. UNCHANGED <<status, bets, state, pc, then, ranOut, current_seat,
                      keycount, count>>
      BY <2>5 DEF vars, potVars, gameVars, handVars, lockVars, books
    <3>2. CanPlay' = CanPlay /\ AllIn' = AllIn /\ InHand' = InHand
      BY <3>1 DEF CanPlay, AllIn, InHand
    <3>3. Awaited' = Awaited
      BY <3>1, <3>2 DEF Awaited, HighestBet
    <3> QED
      BY <1>2, <3>1, <3>2, <3>3
         DEF WaitInv, SomebodyAwaited, NoneSkipped, InHandCount
  <2> QED
    BY <1>2, <2>1, <2>2, <2>3, <2>4, <2>5 DEF Next
<1> QED
  BY <1>1, <1>2, Invariance, HandInvariance, LawInvariance, ActsInvariance,
     CoverInvariance, PTL DEF Spec

-----------------------------------------------------------------------------
(***************************************************************************)
(* What is left of a hand, in five numbers of which the first counts most. *)
(*   1. The stage: the streets to come, the calls of moveToPot, the pots   *)
(*      to pay, the winners to show.                                       *)
(* In a street:                                                            *)
(*   2. The chips of the seats that can bet, and the seats in the hand.    *)
(*      (One more for the seat with the turn if its blind has put it all   *)
(*      in.)  A bet or a fold takes something away.                        *)
(*   3. The seats that keycount says have to act.                          *)
(*   4. The way of the turn to the nearest seat that is awaited.           *)
(*   5. The steps of the handler until it gives the lock back.             *)
(* Out of a street the fifth counts the turns of moveToPot, or the pots.   *)
(***************************************************************************)
StreetsLeft == [tsPreFlop |-> 3, tsFlop |-> 2, tsTurn |-> 1, tsRiver |-> 0]

Stage ==
    IF Turning THEN 6 + 2 * StreetsLeft[state]
    ELSE IF pc = "street" THEN 5 + 2 * StreetsLeft[state]
    ELSE IF pc = "showdown" THEN 4
    ELSE IF pc = "pay" THEN 3
    ELSE IF state = "tsIdle" THEN 0
    ELSE IF pc = "released" THEN 2 ELSE 1

Playable == [s \in Seats |-> IF status[s] = "psInHand" THEN chips[s] ELSE 0]
Extra == IF pc \in {"free", "released"} /\ current_seat \in AllIn THEN 1 ELSE 0
Purse == SeatSum(Playable) + InHandCount + Extra
Keys == IF keycount > 0 THEN keycount ELSE 0
Nearest(c, S) == After(c, Dealing!NextSeat(c, S))
Gap == IF Awaited = {} THEN 0 ELSE Nearest(LastTurn, Awaited)
StepsLeft ==
    IF pc = "machine" THEN 3 ELSE IF pc = "finish" THEN 2
    ELSE IF pc = "released" THEN 1 ELSE 0

Remaining ==
    IF Turning THEN <<Stage, Purse, Keys, Gap, StepsLeft>>
    ELSE <<Stage, 0, 0, 0, IF pc = "pay" THEN Len(pots) + 1 - at ELSE MovesLeft>>

\* In the order of the numbers, p comes before q.
Shorter(p, q) ==
    \E i \in 1..5 : p[i] < q[i] /\ \A j \in 1..(i - 1) : p[j] = q[j]

\* Every step of a hand that nobody leaves shortens it, but for those of the
\* members that take no part in it, who sit out, come back and buy chips: they
\* leave it as long as it was.  So whoever has the lock gives it back, every
\* street ends and so does the hand, whatever the players do, as soon as they
\* do it: HandEnds, but for the fairness.
HandRunsOut ==
    [][ count'.leavers = 0 /\ state # "tsIdle" =>
          \/ Shorter(Remaining', Remaining)
          \/ (Sit \/ Buy) /\ Remaining' = Remaining ]_vars

\* The numbers are natural ones: there is no shortening them for ever.
RemainingIsFinite == Remaining \in [1..5 -> Nat]

-----------------------------------------------------------------------------
\* The order.
LEMMA FirstShorter ==
    ASSUME NEW p, NEW q
    PROVE  /\ p[1] < q[1] => Shorter(p, q)
           /\ p[1] = q[1] /\ p[2] < q[2] => Shorter(p, q)
           /\ p[1] = q[1] /\ p[2] = q[2] /\ p[3] < q[3] => Shorter(p, q)
           /\ p[1] = q[1] /\ p[2] = q[2] /\ p[3] = q[3] /\ p[4] < q[4]
                => Shorter(p, q)
           /\ p[1] = q[1] /\ p[2] = q[2] /\ p[3] = q[3] /\ p[4] = q[4]
                /\ p[5] < q[5] => Shorter(p, q)
<1>1. ASSUME NEW i \in 1..5, p[i] < q[i], \A j \in 1..(i - 1) : p[j] = q[j]
      PROVE  Shorter(p, q)
  BY <1>1 DEF Shorter
<1>2. /\ \A j : j \notin 1..(1 - 1)
      /\ \A j \in 1..(2 - 1) : j = 1
      /\ \A j \in 1..(3 - 1) : j = 1 \/ j = 2
      /\ \A j \in 1..(4 - 1) : j = 1 \/ j = 2 \/ j = 3
      /\ \A j \in 1..(5 - 1) : j = 1 \/ j = 2 \/ j = 3 \/ j = 4
      /\ {1, 2, 3, 4, 5} \subseteq 1..5
  OBVIOUS
<1>3. p[1] < q[1] => Shorter(p, q)
  BY <1>1, <1>2
<1>4. p[1] = q[1] /\ p[2] < q[2] => Shorter(p, q)
  BY <1>1, <1>2
<1>5. p[1] = q[1] /\ p[2] = q[2] /\ p[3] < q[3] => Shorter(p, q)
  BY <1>1, <1>2
<1>6. p[1] = q[1] /\ p[2] = q[2] /\ p[3] = q[3] /\ p[4] < q[4]
        => Shorter(p, q)
  BY <1>1, <1>2
<1>7. p[1] = q[1] /\ p[2] = q[2] /\ p[3] = q[3] /\ p[4] = q[4] /\ p[5] < q[5]
        => Shorter(p, q)
  BY <1>1, <1>2
<1> QED
  BY <1>3, <1>4, <1>5, <1>6, <1>7

LEMMA StageShortens ==
    ASSUME Stage' < Stage
    PROVE  Shorter(Remaining', Remaining)
<1>1. Remaining[1] = Stage /\ Remaining'[1] = Stage'
  BY DEF Remaining
<1> QED
  BY <1>1, FirstShorter

LEMMA TurnShortens ==
    ASSUME Turning, Turning', state' = state,
           \/ Purse' < Purse
           \/ Purse' = Purse /\ Keys' < Keys
           \/ Purse' = Purse /\ Keys' = Keys /\ Gap' < Gap
           \/ Purse' = Purse /\ Keys' = Keys /\ Gap' = Gap
                /\ StepsLeft' < StepsLeft
    PROVE  Shorter(Remaining', Remaining)
<1>1. /\ Remaining = <<Stage, Purse, Keys, Gap, StepsLeft>>
      /\ Remaining' = <<Stage', Purse', Keys', Gap', StepsLeft'>>
      /\ Stage' = Stage
  BY DEF Remaining, Stage
<1>2. /\ Remaining[1] = Stage /\ Remaining[2] = Purse /\ Remaining[3] = Keys
      /\ Remaining[4] = Gap /\ Remaining[5] = StepsLeft
      /\ Remaining'[1] = Stage' /\ Remaining'[2] = Purse'
      /\ Remaining'[3] = Keys' /\ Remaining'[4] = Gap'
      /\ Remaining'[5] = StepsLeft'
  BY <1>1
<1> QED
  BY <1>1, <1>2, FirstShorter

\* The turn moves towards the seats that are awaited.
LEMMA NearestMoves ==
    ASSUME NEW c \in Seats \cup {-1}, NEW n \in Seats,
           NEW T \in SUBSET Seats, T # {},
           \A t \in T : After(c, n) <= After(c, t)
    PROVE  /\ Nearest(c, T) \in Nat /\ Nearest(n - 1, T) \in Nat
           /\ Nearest(n, T) \in Nat
           /\ Nearest(n - 1, T) <= Nearest(c, T)
           /\ n \notin T => Nearest(n, T) < Nearest(c, T)
<1>1. /\ c \in Int /\ n \in Int /\ n - 1 \in Int
      /\ n - 1 \in Seats \cup {-1} /\ n \in Seats \cup {-1}
  BY NAssumption DEF Seats
<1>2. \A x \in Int : Dealing!NextSeat(x, T) \in T
  BY NextSeatIn
<1>3. PICK t \in T : t = Dealing!NextSeat(c, T)
  BY <1>1, <1>2
<1>4. After(c, t) = Nearest(c, T) /\ t \in Seats
  BY <1>3 DEF Nearest
<1>5. /\ After(n - 1, t) = After(c, t) - After(c, n)
      /\ After(n, t) = IF t = n THEN N - 1 ELSE After(n - 1, t) - 1
  BY <1>4, TurnMoves
<1>6. Nearest(n - 1, T) <= After(n - 1, t) /\ Nearest(n, T) <= After(n, t)
  BY <1>1, NextIsNearest DEF Nearest
<1>7. /\ After(c, t) \in Nat /\ After(c, n) \in Nat
      /\ After(n - 1, t) \in Nat /\ After(n, t) \in Nat
  BY <1>1, <1>4, AfterIsDistance
<1>8. Nearest(n - 1, T) \in Nat /\ Nearest(n, T) \in Nat
  <2>1. \A x \in Seats \cup {-1}, y \in Seats : After(x, y) \in Nat
    BY AfterIsDistance
  <2>2. PICK u \in T : u = Dealing!NextSeat(n - 1, T)
    BY <1>1, <1>2
  <2>3. PICK v \in T : v = Dealing!NextSeat(n, T)
    BY <1>1, <1>2
  <2>4. After(n - 1, u) \in Nat /\ After(n, v) \in Nat
    BY <1>1, <2>1
  <2> QED
    BY <2>2, <2>3, <2>4 DEF Nearest
<1>9. n \notin T => t # n
  OBVIOUS
<1> QED
  BY <1>4, <1>5, <1>6, <1>7, <1>8, <1>9

PurseTypes ==
    /\ Playable \in [Seats -> Int] /\ SeatSum(Playable) \in Nat
    /\ InHandCount \in Nat /\ Extra \in {0, 1} /\ Purse \in Nat

LEMMA PurseTyped == IInv => PurseTypes
<1> SUFFICES ASSUME IInv PROVE PurseTypes
  OBVIOUS
<1>1. \A s \in Seats : Playable[s] \in Nat
  BY DEF Playable, IInv, Typed, PotsTyped
<1>2. Playable \in [Seats -> Int] /\ SeatSum(Playable) \in Int
  <2>1. \A s \in Seats : Playable[s] \in Int
    BY <1>1
  <2> QED
    BY <2>1, SeatSumType DEF Playable
<1>3. 0 <= SeatSum(Playable)
  <2> DEFINE zero == [s \in Seats |-> 0]
  <2>1. /\ \A s \in Seats : zero[s] = 0
        /\ \A s \in Seats : zero[s] \in Int /\ Playable[s] \in Int
                            /\ zero[s] <= Playable[s]
    BY <1>1
  <2> HIDE DEF zero
  <2>2. SumFunctionOnSet(zero, Seats) = 0
    BY <2>1, SeatsFinite, SumZero
  <2> QED
    BY <2>1, <2>2, SeatsFinite, SumAtMost DEF SeatSum
<1>4. InHandCount \in Nat /\ Extra \in {0, 1}
  BY OwingIsFinite DEF InHandCount, Extra
<1> QED
  BY <1>2, <1>3, <1>4 DEF Purse, PurseTypes

\* in the state before a step and in the one after it.
LEMMA PurseTypedBoth ==
    ASSUME IInv, IInv'
    PROVE  PurseTypes /\ PurseTypes'
<1>1. (IInv => PurseTypes)'
  BY PurseTyped, PTL
<1> QED
  BY <1>1, PurseTyped

LEMMA PurseKeeps ==
    ASSUME IInv, UNCHANGED status,
           \A s \in CanPlay : chips'[s] = chips[s], Extra' = Extra
    PROVE  Purse' = Purse
<1>1. Playable' = Playable
  BY DEF Playable, CanPlay
<1>2. InHandCount' = InHandCount
  BY DEF InHandCount, InHand
<1> QED
  BY <1>1, <1>2 DEF Purse, SeatSum

LEMMA PutChipsShortens ==
    ASSUME IInv, IInv', HInv, ActsInv, WaitInv, count.leavers = 0,
           NEW s \in Seats, NEW bet \in Nat, PutChips(s, bet)
    PROVE  Shorter(Remaining', Remaining)
<1>1. /\ pc = "free" /\ pc' = "machine" /\ state \in Streets
      /\ UNCHANGED <<state, current_seat>>
      /\ s = current_seat /\ Accepted(s, bet)
      /\ status' = IF bet - bets[s] = chips[s]
                   THEN [status EXCEPT ![s] = "psAllIn"] ELSE status
      /\ bets' = [bets EXCEPT ![s] = bet]
      /\ chips' = [chips EXCEPT ![s] = @ - (bet - bets[s])]
      /\ keycount' = keycount - 1
  BY DEF PutChips, Free
<1>2. /\ status \in [Seats -> Statuses] /\ bets \in [Seats -> Nat]
      /\ chips \in [Seats -> Nat] /\ minBet \in Nat /\ keycount \in Int
      /\ bets[s] <= minBet /\ s \in InHand
  BY <1>1 DEF IInv, Typed, PotsTyped, GameTyped, HInv, Turns, BetsCovered,
     TurnInHand, PutChips, Free
<1>3. Turning /\ Turning' /\ LastTurn = s - 1 /\ LastTurn' = s /\ Extra' = 0
  BY <1>1 DEF Turning, LastTurn, Extra
<1>4. InHandCount' = InHandCount
  <2>1. InHand' = InHand
    BY <1>1, <1>2 DEF InHand
  <2> QED
    BY <2>1 DEF InHandCount
<1>5. /\ Playable \in [Seats -> Int] /\ SeatSum(Playable) \in Nat
      /\ Playable' \in [Seats -> Int] /\ SeatSum(Playable') \in Nat
      /\ InHandCount \in Nat /\ Extra \in {0, 1}
  BY PurseTypedBoth DEF PurseTypes, SeatSum
<1>6. Purse' = SeatSum(Playable') + InHandCount
      /\ Purse = SeatSum(Playable) + InHandCount + Extra
  BY <1>3, <1>4, <1>5 DEF Purse, SeatSum
<1>7. CASE s \in AllIn
  <2>1. Extra = 1
    BY <1>1, <1>7 DEF Extra
  <2>2. Playable' = Playable
    <3>1. status' = status /\ \A x \in Seats : x # s => chips'[x] = chips[x]
      BY <1>1, <1>2, <1>7 DEF AllIn
    <3> QED
      BY <1>7, <3>1 DEF Playable, AllIn
  <2>3. Purse' < Purse
    BY <1>5, <1>6, <2>1, <2>2
  <2> QED
    BY <1>1, <1>3, <2>3, TurnShortens
<1>8. CASE s \notin AllIn
  <2>1. s \in CanPlay /\ Extra = 0 /\ chips[s] > 0
    <3>1. s \in CanPlay
      BY <1>2, <1>8, OwingIsFinite
    <3> QED
      BY <1>1, <1>8, <3>1 DEF Extra, ActsInv, StacksInPlay
  <2>2. CASE bets[s] < bet
    <3>1. \A x \in Seats \ {s} : Playable'[x] = Playable[x]
      BY <1>1, <1>2 DEF Playable
    <3>2. Playable'[s] < Playable[s]
      <4>1. Playable[s] = chips[s]
        BY <2>1 DEF Playable, CanPlay
      <4>2. Playable'[s] = IF bet - bets[s] = chips[s] THEN 0
                           ELSE chips[s] - (bet - bets[s])
        BY <1>1, <1>2, <2>1 DEF Playable, CanPlay
      <4> QED
        BY <1>2, <2>1, <2>2, <4>1, <4>2
    <3>3. SeatSum(Playable') = SeatSum(Playable) + (Playable'[s] - Playable[s])
      BY <1>5, <3>1, SeatSumChange
    <3>4. SeatSum(Playable') < SeatSum(Playable)
      <4>1. Playable'[s] \in Int /\ Playable[s] \in Int
        BY <1>5
      <4> QED
        BY <1>5, <3>2, <3>3, <4>1
    <3>5. Purse' < Purse
      BY <1>5, <1>6, <2>1, <3>4
    <3> QED
      BY <1>1, <1>3, <3>5, TurnShortens
  <2>3. CASE bets[s] = bet
    <3>1. bet = minBet
      BY <1>1, <1>2, <2>1, <2>3 DEF Accepted
    <3>2. status' = status /\ chips' = chips /\ bets' = bets
      BY <1>1, <1>2, <2>1, <2>3
    <3>3. Purse' = Purse
      <4>1. Playable' = Playable
        BY <3>2 DEF Playable
      <4> QED
        BY <1>5, <1>6, <2>1, <4>1
    <3>4. CASE keycount > 0
      <4>1. Keys' < Keys
        BY <1>1, <1>2, <3>4 DEF Keys
      <4> QED
        BY <1>1, <1>3, <3>3, <4>1, TurnShortens
    <3>5. CASE ~ (keycount > 0)
      <4>1. Keys' = Keys
        BY <1>1, <1>2, <3>5 DEF Keys
      <4>2. Awaited' = Awaited
        <5>1. ~ (keycount' > 0)
          BY <1>1, <1>2, <3>5
        <5>2. CanPlay' = CanPlay /\ HighestBet' = HighestBet
          BY <3>2 DEF CanPlay, HighestBet, InHand
        <5> QED
          BY <3>2, <3>5, <5>1, <5>2 DEF Awaited
      <4>3. Awaited # {} /\ Awaited \in SUBSET Seats
        <5>1. Awaited \subseteq CanPlay
          BY DEF Awaited
        <5> QED
          BY <1>1, <1>8, <5>1, OwingIsFinite DEF WaitInv, SomebodyAwaited
      <4>4. s \notin Awaited
        <5>1. HighestBet \in Nat /\ HighestBet <= minBet
          BY HighestCovered
        <5> QED
          BY <1>2, <2>3, <3>1, <3>5, <5>1 DEF Awaited
      <4>5. Nearest(s, Awaited) < Nearest(s - 1, Awaited)
        <5>1. s - 1 \in Seats \cup {-1}
          BY NAssumption DEF Seats
        <5>2. \A t \in Awaited : After(s - 1, s) <= After(s - 1, t)
          BY <4>3, TurnIsDone
        <5> QED
          BY <4>3, <4>4, <5>1, <5>2, NearestMoves
      <4>6. Gap = Nearest(s - 1, Awaited) /\ Gap' = Nearest(s, Awaited)
        BY <1>3, <4>2, <4>3 DEF Gap, Nearest, After
      <4>7. Gap' < Gap
        BY <4>5, <4>6
      <4> QED
        BY <1>1, <1>3, <3>3, <4>1, <4>7, TurnShortens
    <3> QED
      BY <3>4, <3>5
  <2>4. bets[s] <= bet /\ bets[s] \in Nat
    BY <1>1, <1>2 DEF Accepted
  <2> QED
    BY <2>2, <2>3, <2>4
<1> QED
  BY <1>7, <1>8

LEMMA FoldShortens ==
    ASSUME IInv, IInv', NEW s \in Seats, FoldInTurn(s)
    PROVE  Shorter(Remaining', Remaining)
<1>1. /\ pc = "free" /\ state \in Streets
      /\ UNCHANGED <<state, current_seat, chips>>
  BY DEF FoldInTurn, Free
<1>2. /\ s \in InHand /\ InHand' = InHand \ {s}
      /\ status' = [status EXCEPT ![s] = "psFolded"]
      /\ pc' \in {"showdown", "machine"}
  BY SomebodyIsLeft
<1>3. Turning
  BY <1>1 DEF Turning
<1>4. CASE pc' = "showdown"
  <2>1. Stage' = 4 /\ Stage = 6 + 2 * StreetsLeft[state]
    BY <1>1, <1>3, <1>4 DEF Stage, Turning
  <2>2. StreetsLeft[state] \in Nat
    BY <1>1 DEF Streets, StreetsLeft
  <2>3. Stage' < Stage
    BY <2>1, <2>2
  <2> QED
    BY <2>3, StageShortens
<1>5. CASE pc' = "machine"
  <2>1. Turning' /\ Extra' = 0
    BY <1>1, <1>5 DEF Turning, Extra
  <2>2. /\ Playable \in [Seats -> Int] /\ SeatSum(Playable) \in Nat
        /\ Playable' \in [Seats -> Int] /\ SeatSum(Playable') \in Nat
        /\ InHandCount \in Nat /\ InHandCount' \in Nat /\ Extra \in {0, 1}
    BY PurseTypedBoth DEF PurseTypes, SeatSum
  <2>3. InHandCount' = InHandCount - 1
    BY <1>2, OwingIsFinite, FS_RemoveElement, Zenon DEF InHandCount
  <2>4. SeatSum(Playable') <= SeatSum(Playable)
    <3>1. \A x \in Seats : chips[x] \in Nat
      BY DEF IInv, Typed, PotsTyped
    <3>2. \A x \in Seats : x # s => status'[x] = status[x]
      BY <1>2
    <3>3. status'[s] = "psFolded"
      BY <1>2 DEF IInv, Typed, PotsTyped
    <3>4. \A x \in Seats : Playable'[x] <= Playable[x]
      BY <1>1, <3>1, <3>2, <3>3 DEF Playable
    <3> QED
      BY <2>2, <3>4, SeatsFinite, SumAtMost DEF SeatSum
  <2>5. Purse' = SeatSum(Playable') + InHandCount'
        /\ Purse = SeatSum(Playable) + InHandCount + Extra
    BY <2>1, <2>2 DEF Purse, SeatSum
  <2>6. Purse' < Purse
    BY <2>2, <2>3, <2>4, <2>5
  <2> QED
    BY <1>1, <1>3, <2>1, <2>6, TurnShortens
<1> QED
  BY <1>2, <1>4, <1>5

LEMMA StateMachineShortens ==
    ASSUME IInv, StateMachine
    PROVE  Shorter(Remaining', Remaining)
<1> DEFINE skip == SkipNobodyCanBet \/ SkipLastPlayer
           left == IF SkipNobodyCanBet THEN -2
                   ELSE IF skip THEN keycount - 1 ELSE keycount
           over == left <= 0 /\ BetsEqual
<1>1. /\ UNCHANGED <<status, chips, bets, state>> /\ pc = "machine"
      /\ state \in Streets /\ keycount' = left /\ keycount \in Int
      /\ then' = IF skip THEN "machine" ELSE "finish"
  BY DEF StateMachine, IInv, Control, Typed, GameTyped
<1>2. Turning /\ LastTurn = current_seat /\ Extra = 0
  BY <1>1 DEF Turning, LastTurn, Extra
<1>3. CASE over
  <2>1. pc' \in {"street", "showdown"}
    BY <1>3 DEF StateMachine
  <2>2. StreetsLeft[state] \in Nat
    BY <1>1 DEF Streets, StreetsLeft
  <2>3. /\ Stage = 6 + 2 * StreetsLeft[state]
        /\ Stage' \in {4, 5 + 2 * StreetsLeft[state]}
    BY <1>1, <1>2, <2>1 DEF Stage, Turning
  <2>4. Stage' < Stage
    BY <2>2, <2>3
  <2> QED
    BY <2>4, StageShortens
<1>4. CASE ~ over
  <2>1. pc' = then' /\ (~ skip => current_seat' = current_seat)
    BY <1>4 DEF StateMachine
  <2>2. Turning' /\ Extra' = 0 /\ LastTurn' = current_seat'
    BY <1>1, <2>1 DEF Turning, LastTurn, Extra
  <2>3. Purse' = Purse
    BY <1>1, <1>2, <2>2, PurseKeeps
  <2>4. CASE skip
    <3>1. BetsEqual /\ ~ SkipNobodyCanBet
      <4>1. SkipNobodyCanBet => left = -2 /\ BetsEqual
        BY DEF SkipNobodyCanBet, BetsEqual
      <4>2. SkipLastPlayer => BetsEqual
        <5> SUFFICES ASSUME SkipLastPlayer
                     PROVE  {bets[x] : x \in CanPlay} \subseteq {HighestBet}
          BY DEF BetsEqual
        <5> QED
          BY DEF SkipLastPlayer, CanCheck
      <4> QED
        BY <1>4, <2>4, <4>1, <4>2
    <3>2. keycount' = keycount - 1 /\ keycount' > 0
      BY <1>1, <1>4, <2>4, <3>1
    <3>3. Keys' < Keys
      BY <1>1, <3>2 DEF Keys
    <3> QED
      BY <1>1, <1>2, <2>2, <2>3, <3>3, TurnShortens
  <2>5. CASE ~ skip
    <3>1. keycount' = keycount /\ current_seat' = current_seat
      BY <1>1, <2>1, <2>5
    <3>2. CanPlay' = CanPlay /\ HighestBet' = HighestBet
      BY <1>1 DEF CanPlay, HighestBet, InHand
    <3>3. Keys' = Keys /\ Awaited' = Awaited
      BY <1>1, <3>1, <3>2 DEF Keys, Awaited
    <3>4. Gap' = Gap
      BY <1>2, <2>2, <3>1, <3>3 DEF Gap, Nearest, After
    <3>5. StepsLeft' < StepsLeft
      BY <1>1, <2>1, <2>5 DEF StepsLeft
    <3> QED
      BY <1>1, <1>2, <2>2, <2>3, <3>3, <3>4, <3>5, TurnShortens
  <2> QED
    BY <2>4, <2>5
<1> QED
  BY <1>3, <1>4

LEMMA FinishShortens ==
    ASSUME IInv, HInv, ActsInv, WaitInv, count.leavers = 0, Finish
    PROVE  Shorter(Remaining', Remaining)
<1>1. /\ UNCHANGED <<status, chips, bets, state, keycount>> /\ pc = "finish"
      /\ state \in Streets
  BY DEF Finish, IInv, Control
<1>2. /\ CanPlay' = CanPlay /\ AllIn' = AllIn /\ HighestBet' = HighestBet
      /\ InHand \in SUBSET Seats /\ current_seat \in Seats \cup {-1}
  BY <1>1 DEF CanPlay, AllIn, HighestBet, InHand, IInv, Typed, GameTyped
<1>3. Awaited' = Awaited /\ Awaited # {} /\ Awaited \subseteq CanPlay
  BY <1>1, <1>2 DEF Awaited, WaitInv, SomebodyAwaited
<1> PICK c \in Seats \cup {-1} : c = current_seat
  BY <1>2
<1>4. /\ NextSeat(c) \in InHand /\ NextSeat(c) # -1
      /\ current_seat' = NextSeat(c)
      /\ pc' \in {"machine", "released"} /\ LastTurn = c
      /\ LastTurn' = IF pc' = "released" THEN NextSeat(c) - 1 ELSE NextSeat(c)
  BY FinishTurn
<1> PICK n \in InHand : n = NextSeat(c)
  BY <1>4
<1>5. /\ n \in Seats /\ current_seat' = n
      /\ \/ pc' = "machine" /\ LastTurn' = n
         \/ pc' = "released" /\ LastTurn' = n - 1
      /\ pc' = "machine" => chips[n] = 0
      /\ pc' = "released" => chips[n] # 0
  <2>1. ~ (ranOut /\ InHandCount = 2)
    BY <1>1 DEF WaitInv, NoneSkipped
  <2>2. pc' = IF n # -1 /\ (chips[n] = 0 \/ (ranOut /\ InHandCount = 2))
              THEN "machine" ELSE "released"
    BY DEF Finish
  <2>3. pc' = IF chips[n] = 0 THEN "machine" ELSE "released"
    BY <1>4, <2>1, <2>2
  <2> QED
    BY <1>2, <1>4, <2>3
<1>6. Turning /\ Turning'
  BY <1>1, <1>5 DEF Turning
<1>7. CanPlay # {}
  BY <1>1 DEF HInv, Turns, SomebodyCanPlay
<1>8. Extra' = 0 /\ Extra = 0
  <2>1. n \in AllIn => chips[n] = 0
    BY <1>1, <1>7 DEF HInv, Turns, AllInIsSpent, AllIn
  <2> QED
    BY <1>1, <1>2, <1>5, <2>1 DEF Extra
<1>9. Purse' = Purse /\ Keys' = Keys
  BY <1>1, <1>8, PurseKeeps DEF Keys
<1>10. /\ Nearest(c, Awaited) \in Nat /\ Nearest(n - 1, Awaited) \in Nat
       /\ Nearest(n - 1, Awaited) <= Nearest(c, Awaited)
       /\ n \notin Awaited => Nearest(n, Awaited) < Nearest(c, Awaited)
  <2>1. \A t \in InHand : After(c, n) <= After(c, t)
    BY <1>2, NextIsNearest DEF NextSeat
  <2>2. Awaited \subseteq InHand /\ Awaited \in SUBSET Seats
    BY <1>3, OwingIsFinite
  <2>3. \A t \in Awaited : After(c, n) <= After(c, t)
    BY <2>1, <2>2
  <2> QED
    BY <1>3, <1>5, <2>2, <2>3, NearestMoves
<1>11. Gap = Nearest(c, Awaited)
  BY <1>3, <1>4 DEF Gap
<1>12. CASE pc' = "machine"
  <2>1. n \notin Awaited
    <3>1. n \notin CanPlay
      BY <1>1, <1>5, <1>12 DEF ActsInv, StacksInPlay
    <3> QED
      BY <1>3, <3>1
  <2>2. Gap' = Nearest(n, Awaited)
    BY <1>3, <1>5, <1>12 DEF Gap, Nearest, After
  <2>3. Gap' < Gap
    BY <1>10, <1>11, <2>1, <2>2
  <2> QED
    BY <1>1, <1>6, <1>9, <2>3, TurnShortens
<1>13. CASE pc' = "released"
  <2>1. Gap' = Nearest(n - 1, Awaited)
    BY <1>3, <1>5, <1>13 DEF Gap, Nearest, After
  <2>2. Gap' < Gap \/ Gap' = Gap
    BY <1>10, <1>11, <2>1
  <2>3. StepsLeft' < StepsLeft
    BY <1>1, <1>13 DEF StepsLeft
  <2> QED
    BY <1>1, <1>6, <1>9, <2>2, <2>3, TurnShortens
<1> QED
  BY <1>5, <1>12, <1>13

LEMMA DealStreetShortens ==
    ASSUME IInv, DealStreet
    PROVE  Shorter(Remaining', Remaining)
<1>1. /\ pc = "street" /\ pc' \in {"machine", "finish"}
      /\ state \in {"tsPreFlop", "tsFlop", "tsTurn"}
      /\ state' = NextStreet[state]
  BY DEF DealStreet, IInv, Control, Typed, GameTyped, Streets
<1>2. /\ state' \in Streets /\ StreetsLeft[state] \in Nat
      /\ StreetsLeft[state'] = StreetsLeft[state] - 1
  BY <1>1 DEF NextStreet, StreetsLeft, Streets
<1>3. /\ Stage = 5 + 2 * StreetsLeft[state]
      /\ Stage' = 6 + 2 * StreetsLeft[state']
  BY <1>1, <1>2 DEF Stage, Turning
<1>4. Stage' < Stage
  BY <1>2, <1>3
<1> QED
  BY <1>4, StageShortens

LEMMA PotStepShortens ==
    ASSUME IInv, FInv, InBounds, MoveToPot \/ PayPot
    PROVE  Shorter(Remaining', Remaining)
<1>1. Stage' = Stage /\ ~ Turning /\ ~ Turning' /\ pc' = pc
      /\ (MoveToPot => pc # "pay") /\ (PayPot => pc = "pay")
  <2>1. CASE MoveToPot
    <3>1. pc' = pc /\ state' = state /\ mv # "none"
      BY <2>1 DEF MoveToPot, MoveStep, MovePass, MergePots, ReturnPot,
         gameVars, handVars, lockVars
    <3>2. pc \in {"street", "showdown"}
      BY <3>1 DEF IInv, Control
    <3> QED
      BY <3>1, <3>2 DEF Stage, Turning, PayPot
  <2>2. CASE PayPot
    <3>1. pc' = pc /\ state' = state /\ pc = "pay"
      BY <2>2 DEF PayPot, handVars, lockVars
    <3>2. ~ MoveToPot
      BY <3>1 DEF IInv, Control, MoveToPot, MoveStep, MovePass, MergePots,
         ReturnPot
    <3> QED
      BY <3>1, <3>2 DEF Stage, Turning
  <2> QED
    BY <2>1, <2>2
<1>2. /\ Remaining[1] = Stage /\ Remaining[2] = 0 /\ Remaining[3] = 0
      /\ Remaining[4] = 0
      /\ Remaining[5] = IF pc = "pay" THEN Len(pots) + 1 - at ELSE MovesLeft
      /\ Remaining'[1] = Stage' /\ Remaining'[2] = 0 /\ Remaining'[3] = 0
      /\ Remaining'[4] = 0
      /\ Remaining'[5] = IF pc' = "pay" THEN Len(pots') + 1 - at'
                         ELSE MovesLeft'
  BY <1>1 DEF Remaining
<1>3. Remaining'[5] < Remaining[5]
  <2>1. CASE MoveToPot
    <3>1. Len(pots) # 0
      BY <2>1 DEF FInv, OpenPot, MoveToPot, MoveStep, MovePass, MergePots,
         ReturnPot
    <3>2. MovesLeft' < MovesLeft
      BY <2>1, <3>1, MoveStepShortens DEF MoveToPot, Shortens, IInv, Typed
    <3> QED
      BY <1>1, <1>2, <2>1, <3>2
  <2>2. CASE PayPot
    <3>1. /\ pots' = pots /\ at' = at + 1 /\ at \in Nat /\ Len(pots) \in Nat
      BY <2>2 DEF PayPot, IInv, Typed, PotsTyped
    <3> QED
      BY <1>1, <1>2, <2>2, <3>1
  <2> QED
    BY <2>1, <2>2
<1> QED
  BY <1>1, <1>2, <1>3, FirstShorter

\* The other steps of a hand.
LEMMA RestShortens ==
    ASSUME IInv, LInv, count.leavers = 0, state # "tsIdle",
           Release \/ CalcWinners \/ WinDone \/ EndHand
    PROVE  Shorter(Remaining', Remaining)
<1>1. CASE Release
  <2>1. /\ UNCHANGED <<status, chips, bets, state, keycount, current_seat>>
        /\ pc = "released" /\ pc' = "free"
    BY <1>1 DEF Release, LInv, NobodyLeft
  <2>2. CASE state \in Streets
    <3>1. Turning /\ Turning' /\ LastTurn' = LastTurn
      BY <2>1, <2>2 DEF Turning, LastTurn
    <3>2. CanPlay' = CanPlay /\ AllIn' = AllIn /\ HighestBet' = HighestBet
      BY <2>1 DEF CanPlay, AllIn, HighestBet, InHand
    <3>3. Extra' = Extra
      BY <2>1, <3>2 DEF Extra
    <3>4. Purse' = Purse
      BY <2>1, <3>3, PurseKeeps
    <3>5. Keys' = Keys /\ Awaited' = Awaited
      BY <2>1, <3>2 DEF Keys, Awaited
    <3>6. Gap' = Gap
      BY <3>1, <3>5 DEF Gap, Nearest, After
    <3>7. StepsLeft' < StepsLeft
      BY <2>1 DEF StepsLeft
    <3> QED
      BY <2>1, <3>1, <3>4, <3>5, <3>6, <3>7, TurnShortens
  <2>3. CASE state \notin Streets
    <3>1. Stage = 2 /\ Stage' = 1
      BY <2>1, <2>3 DEF Stage, Turning
    <3> QED
      BY <3>1, StageShortens
  <2> QED
    BY <2>2, <2>3
<1>2. CASE CalcWinners
  <2>1. pc = "showdown" /\ pc' = "pay" /\ state' = "tsWinning"
    BY <1>2 DEF CalcWinners
  <2>2. Stage = 4 /\ Stage' = 3
    BY <2>1 DEF Stage, Turning, Streets
  <2> QED
    BY <2>2, StageShortens
<1>3. CASE WinDone
  <2>1. /\ pc = "pay" /\ pc' = "released" /\ state = "tsWinning"
        /\ state' = state
    BY <1>3 DEF WinDone, handVars, IInv, Control
  <2>2. Stage = 3 /\ Stage' = 2
    BY <2>1 DEF Stage, Turning, Streets
  <2> QED
    BY <2>2, StageShortens
<1>4. CASE EndHand
  <2>1. pc = "free" /\ state = "tsWinning" /\ state' = "tsIdle" /\ pc' = "idle"
    BY <1>4 DEF EndHand, HandOver, Free
  <2>2. Stage = 1 /\ Stage' = 0
    BY <2>1 DEF Stage, Turning, Streets
  <2> QED
    BY <2>2, StageShortens
<1> QED
  BY <1>1, <1>2, <1>3, <1>4

\* Who takes no part in a hand does not lengthen it.
LEMMA OutsidersKeep ==
    ASSUME IInv, state # "tsIdle", Sit \/ Buy
    PROVE  Remaining' = Remaining
<1>1. /\ UNCHANGED <<bets, state, current_seat, keycount, pc, mv, at, pots>>
      /\ CanPlay' = CanPlay /\ AllIn' = AllIn /\ InHand' = InHand
      /\ Playable' = Playable /\ pc = "free"
  <2>1. CASE Sit
    <3>1. PICK s \in Seats : PlayNow(s) \/ SitOut(s)
      BY <2>1 DEF Sit
    <3>2. /\ UNCHANGED <<bets, state, current_seat, keycount, pc, mv, at, pots,
                         chips>>
          /\ pc = "free"
          /\ \A x \in Seats : x # s => status'[x] = status[x]
          /\ status'[s] \in {"psOutOfHand", "psOutOfPlay"}
          /\ status[s] \in {"psOutOfHand", "psOutOfPlay"}
      BY <3>1 DEF PlayNow, SitOut, Free, gameVars, handVars, lockVars, IInv,
         Typed, PotsTyped
    <3> QED
      BY <3>2 DEF CanPlay, AllIn, InHand, Playable
  <2>2. CASE Buy
    <3>1. PICK s \in Seats, n \in Stacks : AddOn(s, n)
      BY <2>2 DEF Buy
    <3>2. /\ UNCHANGED <<bets, state, current_seat, keycount, pc, mv, at, pots,
                         status>>
          /\ pc = "free"
          /\ \A x \in Seats : x # s => chips'[x] = chips[x]
          /\ status[s] # "psInHand"
      BY <3>1 DEF AddOn, Free, handVars, lockVars, IInv, Typed, PotsTyped
    <3> QED
      BY <3>2 DEF CanPlay, AllIn, InHand, Playable
  <2> QED
    BY <2>1, <2>2
<1>2. /\ Turning' = Turning /\ LastTurn' = LastTurn /\ Stage' = Stage
      /\ StepsLeft' = StepsLeft /\ Keys' = Keys
  BY <1>1 DEF Turning, LastTurn, Stage, StepsLeft, Keys
<1>3. Purse' = Purse
  BY <1>1 DEF Purse, SeatSum, InHandCount, Extra
<1>4. HighestBet' = HighestBet
  BY <1>1 DEF HighestBet
<1>5. Awaited' = Awaited
  BY <1>1, <1>4 DEF Awaited
<1>6. Gap' = Gap
  BY <1>2, <1>5 DEF Gap, Nearest, After
<1>7. MovesLeft' = MovesLeft
  <2>1. mv = "none"
    BY <1>1 DEF IInv, Control
  <2> QED
    BY <1>1, <2>1 DEF MovesLeft
<1> QED
  BY <1>1, <1>2, <1>3, <1>6, <1>7 DEF Remaining

-----------------------------------------------------------------------------
\* The bounds of the loops.
PayBounds == pc = "pay" => at <= Len(pots) + 1

LEMMA BoundsInvariance == Spec => [](InBounds /\ PayBounds)
<1>1. Init => InBounds /\ PayBounds
  BY DEF Init, InBounds, PayBounds
<1>2. ASSUME IInv, FInv, InBounds, PayBounds, [Next]_vars
      PROVE  InBounds' /\ PayBounds'
  <2>1. CASE MoveToPot
    <3>1. Len(pots) # 0
      BY <1>2, <2>1 DEF FInv, OpenPot, MoveToPot, MoveStep, MovePass, MergePots,
         ReturnPot
    <3>2. InBounds'
      BY <1>2, <2>1, <3>1, MoveStepShortens
         DEF MoveToPot, Shortens, IInv, Typed
    <3>3. pc' = pc /\ mv # "none"
      BY <2>1 DEF MoveToPot, MoveStep, MovePass, MergePots, ReturnPot,
         gameVars, lockVars
    <3>4. pc' # "pay"
      BY <1>2, <3>3 DEF IInv, Control
    <3> QED
      BY <3>2, <3>4 DEF PayBounds
  <2>2. CASE PayPot
    <3>1. /\ UNCHANGED <<mv, pots>> /\ at <= Len(pots) /\ at' = at + 1
          /\ pc = "pay" /\ at \in Nat /\ Len(pots) \in Nat
      BY <1>2, <2>2 DEF PayPot, IInv, Typed, PotsTyped
    <3>2. mv = "none"
      BY <1>2, <3>1 DEF IInv, Control
    <3> QED
      BY <3>1, <3>2 DEF InBounds, PayBounds
  <2>3. CASE CalcWinners
    <3>1. mv' = "none" /\ at' = 1 /\ pots' = pots
      BY <2>3 DEF CalcWinners
    <3>2. Len(pots') \in Nat
      BY <1>2, <3>1 DEF IInv, Typed, PotsTyped
    <3> QED
      BY <3>1, <3>2 DEF InBounds, PayBounds
  <2>4. ASSUME \/ StateMachine \/ Deal \/ DealStreet \/ Act \/ Leave
        PROVE  /\ mv' = "none" \/ (mv' = "pass" /\ at' = 1)
               /\ pc' # "pay"
    <3>1. CASE StateMachine \/ Deal \/ DealStreet
      <4>1. (StateMachine \/ Deal => mv = "none") /\ then # "pay"
        BY <1>2 DEF IInv, Control, StateMachine, Deal, Free, Typed, GameTyped
      <4> QED
        BY <3>1, <4>1 DEF StateMachine, Deal, DealStreet
    <3>2. CASE Act
      <4>1. PICK s \in Seats : \/ \E bet \in BetsTried(s) : PutChips(s, bet)
                               \/ FoldInTurn(s)
        BY <3>2 DEF Act, Fold, TimeOut, BetsTried
      <4>2. CASE \E bet \in BetsTried(s) : PutChips(s, bet)
        BY <1>2, <4>2 DEF PutChips, Free, IInv, Control
      <4>3. CASE FoldInTurn(s)
        <5>1. mv = "none" /\ pc = "free"
          BY <1>2, <4>3 DEF FoldInTurn, Free, IInv, Control
        <5> QED
          BY <4>3, <5>1 DEF FoldInTurn, FoldSeat
      <4> QED
        BY <4>1, <4>2, <4>3
    <3>3. CASE Leave
      <4>1. PICK s \in Seats : StandUp(s)
        BY <3>3 DEF Leave
      <4>2. mv = "none" /\ pc = "free"
        BY <1>2, <4>1 DEF StandUp, Free, IInv, Control
      <4> QED
        BY <4>1, <4>2 DEF StandUp, FoldSeat
    <3> QED
      BY <2>4, <3>1, <3>2, <3>3
  <2>5. ASSUME \/ Finish \/ WaitForPlayers \/ WinDone \/ Release
               \/ Sit \/ Buy \/ EndHand
        PROVE  mv' = "none" /\ pc' # "pay"
    <3>1. mv' = mv /\ pc \notin {"street", "showdown"} /\ pc' # "pay"
      BY <2>5 DEF Finish, WaitForPlayers, WinDone, Release, Sit, PlayNow,
         SitOut, Buy, AddOn, EndHand, HandOver, Free, gameVars, lockVars
    <3> QED
      BY <1>2, <3>1 DEF IInv, Control
  <2>6. CASE UNCHANGED vars
    BY <1>2, <2>6 DEF vars, potVars, gameVars, lockVars, InBounds, PayBounds
  <2>7. mv' = "none" \/ (mv' = "pass" /\ at' = 1) => InBounds'
    BY DEF InBounds
  <2>8. pc' # "pay" => PayBounds'
    BY DEF PayBounds
  <2> QED
    BY <1>2, <2>1, <2>2, <2>3, <2>4, <2>5, <2>6, <2>7, <2>8 DEF Next, Locked
<1> QED
  BY <1>1, <1>2, Invariance, FundsInvariance, PTL DEF Spec

\* What is left of a hand is counted in five natural numbers, at any time
\* and also when somebody has left it.
THEOREM RemainingIsNatural == Spec => []RemainingIsFinite
<1>1. ASSUME IInv, InBounds, PayBounds
      PROVE  RemainingIsFinite
  <2>1. Purse \in Nat
    BY <1>1, PurseTyped DEF PurseTypes
  <2>2. Keys \in Nat /\ StepsLeft \in Nat
    <3>1. keycount \in Int
      BY <1>1 DEF IInv, Typed, GameTyped
    <3> QED
      BY <3>1 DEF Keys, StepsLeft
  <2>3. Gap \in Nat
    <3>1. Awaited \in SUBSET Seats
      BY DEF Awaited, CanPlay
    <3>2. current_seat \in Int /\ current_seat < N /\ N \in Nat
      BY <1>1, NAssumption DEF IInv, Typed, GameTyped, Seats
    <3>3. LastTurn \in Int /\ LastTurn < N
      BY <3>2 DEF LastTurn
    <3>4. ASSUME Awaited # {}
          PROVE  Nearest(LastTurn, Awaited) \in Nat
      <4>1. PICK t \in Awaited : t = Dealing!NextSeat(LastTurn, Awaited)
        BY <3>1, <3>3, <3>4, NextSeatIn
      <4>2. t \in Nat
        BY <3>1, <4>1, NAssumption DEF Seats
      <4>3. After(LastTurn, t) \in Nat
        BY <3>2, <3>3, <4>2 DEF After
      <4> QED
        BY <4>1, <4>3 DEF Nearest
    <3> QED
      BY <3>4 DEF Gap
  <2>4. Stage \in Nat
    <3>1. state \in Streets => StreetsLeft[state] \in Nat
      BY DEF Streets, StreetsLeft
    <3>2. pc = "street" => state \in Streets
      BY <1>1 DEF IInv, Control
    <3> QED
      BY <3>1, <3>2 DEF Stage, Turning
  <2>5. (IF pc = "pay" THEN Len(pots) + 1 - at ELSE MovesLeft) \in Nat
    <3>1. MovesLeft \in Nat
      BY <1>1, MovesLeftType DEF IInv, Typed
    <3>2. Len(pots) \in Nat /\ at \in Nat
      BY <1>1 DEF IInv, Typed, PotsTyped
    <3> QED
      BY <1>1, <3>1, <3>2 DEF PayBounds
  <2> QED
    BY <2>1, <2>2, <2>3, <2>4, <2>5 DEF RemainingIsFinite, Remaining
<1> QED
  BY <1>1, Invariance, BoundsInvariance, PTL

\* Nobody comes back.
LEMMA LeaversStay ==
    ASSUME LInv, Next
    PROVE  Leave \/ count'.leavers = count.leavers
<1>1. ASSUME \/ StateMachine \/ Finish \/ MoveToPot \/ DealStreet
             \/ CalcWinners \/ PayPot \/ WinDone \/ WaitForPlayers
             \/ Release \/ EndHand \/ Sit
      PROVE  count' = count
  BY <1>1 DEF StateMachine, Finish, MoveToPot, DealStreet, CalcWinners, PayPot,
     WinDone, WaitForPlayers, Release, EndHand, HandOver, Sit, PlayNow, SitOut,
     gameVars, books
<1>2. Act => count' = count
  <2>1. ASSUME NEW s \in Seats, NEW bet, PutChips(s, bet) PROVE count' = count
    BY <2>1 DEF PutChips
  <2>2. ASSUME NEW s \in Seats, FoldInTurn(s) PROVE count' = count
    BY <2>2 DEF FoldInTurn
  <2> QED
    BY <2>1, <2>2 DEF Act, Fold, TimeOut
<1>3. CASE Deal \/ Buy
  <2>1. \/ count' = [count EXCEPT !.hands = @ + 1]
        \/ count' = [count EXCEPT !.addons = @ + 1]
    BY <1>3 DEF Deal, Buy, AddOn
  <2> QED
    BY <2>1 DEF LInv, CountTyped
<1> QED
  BY <1>1, <1>2, <1>3 DEF Next, Locked

\* As long as nobody leaves a hand, each of its steps brings it nearer to its
\* end: stateMachine does not go round in circles, at a table of any size and
\* with any stacks and bets.
THEOREM HandsRunOut == Spec => HandRunsOut
<1>1. ASSUME IInv, IInv', HInv, LInv, ActsInv, WaitInv, FInv, InBounds,
             [Next]_vars, count'.leavers = 0, state # "tsIdle",
             ~ UNCHANGED vars
      PROVE  \/ Shorter(Remaining', Remaining)
             \/ (Sit \/ Buy) /\ Remaining' = Remaining
  <2>1. ~ Leave
    <3> SUFFICES ASSUME NEW s \in Seats, StandUp(s)
                 PROVE  FALSE
      BY DEF Leave
    <3>1. count' = [count EXCEPT !.leavers = @ + 1]
      BY DEF StandUp
    <3> QED
      BY <1>1, <3>1 DEF LInv, CountTyped
  <2>2. ~ Deal /\ ~ WaitForPlayers
    BY <1>1 DEF Deal, WaitForPlayers, IInv, Control
  <2>3. count.leavers = 0
    <3>1. count'.leavers = count.leavers
      BY <1>1, <2>1, LeaversStay
    <3> QED
      BY <1>1, <3>1
  <2>4. CASE Act
    <3>1. PICK s \in Seats : \/ \E bet \in BetsTried(s) : PutChips(s, bet)
                             \/ Fold(s) \/ TimeOut(s)
      BY <2>4 DEF Act
    <3>2. minBet \in Nat /\ BetsTried(s) \subseteq Nat
      BY <1>1, BetsTriedType
    <3>3. (\E bet \in Nat : PutChips(s, bet)) \/ FoldInTurn(s)
      BY <3>1, <3>2 DEF Fold, TimeOut
    <3> QED
      BY <1>1, <2>3, <3>3, PutChipsShortens, FoldShortens
  <2>5. CASE Sit \/ Buy
    BY <1>1, <2>5, OutsidersKeep
  <2>6. CASE StateMachine \/ Finish \/ DealStreet
    BY <1>1, <2>3, <2>6, StateMachineShortens, FinishShortens,
       DealStreetShortens
  <2>7. CASE MoveToPot \/ PayPot
    BY <1>1, <2>7, PotStepShortens
  <2>8. CASE Release \/ CalcWinners \/ WinDone \/ EndHand
    BY <1>1, <2>3, <2>8, RestShortens
  <2> QED
    BY <1>1, <2>1, <2>2, <2>4, <2>5, <2>6, <2>7, <2>8 DEF Next, Locked
<1>2. IInv /\ IInv' /\ HInv /\ LInv /\ ActsInv /\ WaitInv /\ FInv /\ InBounds
        /\ [Next]_vars
      => [ count'.leavers = 0 /\ state # "tsIdle" =>
             \/ Shorter(Remaining', Remaining)
             \/ (Sit \/ Buy) /\ Remaining' = Remaining ]_vars
  BY <1>1
<1> QED
  BY <1>2, Invariance, HandInvariance, LawInvariance, ActsInvariance,
     WaitInvariance, FundsInvariance, BoundsInvariance,
     PTL DEF Spec, HandRunsOut
=============================================================================
