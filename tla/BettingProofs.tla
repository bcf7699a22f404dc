---------------------------- MODULE BettingProofs ----------------------------
(***************************************************************************)
(* What a hand keeps, at a table of any size, with any blinds, stacks,     *)
(* bets, add-ons and members that leave: its types, that there is always   *)
(* somebody to act, that the books agree with the stacks, that the pots    *)
(* are the side pots of the rules of the game, and that doWin pays out     *)
(* what they hold.                                                         *)
(***************************************************************************)
EXTENDS Betting, Rounds, Numbers, FiniteSetTheorems, SequenceTheorems

(***************************************************************************)
(* moveToPot, at any table: what its helpers return, and that none of its  *)
(* steps books anything but what it moves.                                 *)
(***************************************************************************)

\* The lowest of some bets is one of them.
LEMMA LowestIsLeast ==
    ASSUME NEW S \in SUBSET Nat, S # {}
    PROVE  Lowest(S) \in S /\ \A y \in S : Lowest(S) <= y
BY MinExists DEF Lowest

LEMMA SeatsFinite ==
    ASSUME NEW S \in SUBSET Seats
    PROVE  IsFiniteSet(S) /\ Cardinality(S) \in Nat
<1>1. IsFiniteSet(Seats)
  BY FS_Interval, NAssumption DEF Seats
<1>2. IsFiniteSet(S)
  BY <1>1, FS_Subset
<1> QED
  BY <1>2, FS_CardinalityType

LEMMA SameInterval ==
    ASSUME NEW m \in Nat, NEW n \in Nat, 1..m = 1..n
    PROVE  m = n
<1>1. m # 0 => m \in 1..m
  OBVIOUS
<1>2. n # 0 => n \in 1..n
  OBVIOUS
<1>3. m # 0 => m <= n
  BY <1>1
<1>4. n # 0 => n <= m
  BY <1>2
<1> QED
  BY <1>3, <1>4

\* A sequence without its i-th element holds only its other elements.
LEMMA WithoutIsPart ==
    ASSUME NEW S, NEW s \in Seq(S), NEW i \in 1..Len(s)
    PROVE  /\ Without(s, i) \in Seq(S)
           /\ Len(Without(s, i)) = Len(s) - 1
           /\ \A j \in DOMAIN Without(s, i) :
                 \E k \in DOMAIN s : Without(s, i)[j] = s[k]
<1>1. /\ Len(s) - 1 \in Nat
      /\ \A j \in 1..(Len(s) - 1) : j \in 1..Len(s) /\ j + 1 \in 1..Len(s)
      /\ DOMAIN s = 1..Len(s)
  OBVIOUS
<1>2. Without(s, i) \in [1..(Len(s) - 1) -> S]
  BY <1>1 DEF Without
<1>3. \A j \in 1..(Len(s) - 1) :
        Without(s, i)[j] = IF j < i THEN s[j] ELSE s[j + 1]
  BY DEF Without
<1>4. /\ Without(s, i) \in Seq(S)
      /\ Len(Without(s, i)) = Len(s) - 1
      /\ DOMAIN Without(s, i) = 1..(Len(s) - 1)
  <2>1. Without(s, i) \in UNION {[1..n -> S] : n \in Nat}
    BY <1>1, <1>2
  <2>2. Without(s, i) \in Seq(S)
    BY <2>1, SeqDef
  <2>3. DOMAIN Without(s, i) = 1..(Len(s) - 1)
    BY <1>2
  <2> QED
    <3>1. Len(Without(s, i)) \in Nat
      BY <2>2, LenProperties
    <3>2. DOMAIN Without(s, i) = 1..Len(Without(s, i))
      BY <2>2, LenProperties
    <3>3. 1..Len(Without(s, i)) = 1..(Len(s) - 1)
      BY <2>3, <3>2
    <3> QED
      BY <1>1, <2>2, <2>3, <3>1, <3>3, SameInterval
<1> QED
  BY <1>1, <1>3, <1>4, Zenon

-----------------------------------------------------------------------------
(***************************************************************************)
(* What moveToPot relies on, and keeps.  A bet is that of a seat that      *)
(* moveToPot books, unless its member is gone; and so is the seat that a   *)
(* pot names, so that what is given back is booked as well.                *)
(***************************************************************************)
PotsTyped ==
    /\ status \in [Seats -> Statuses]
    /\ leaving \in Seats \cup {NoSeat}
    /\ chips \in [Seats -> Nat]
    /\ bets \in [Seats -> Nat]
    /\ pots \in Seq(Pots)
    /\ balance \in [Seats -> Int]
    /\ mv \in {"none", "pass", "merge", "return"}
    /\ at \in Nat \ {0}

Sidelined == {s \in Seats : status[s] \in {"psOutOfHand", "psOutOfPlay"}}

BetsArePlayed == \A s \in Sidelined : bets[s] = 0
MembersArePlayed == \A i \in DOMAIN pots : pots[i].members \cap Sidelined = {}
MovedBets == mv \in {"merge", "return"} => bets = [s \in Seats |-> 0]

MoveInv == PotsTyped /\ BetsArePlayed /\ MembersArePlayed /\ MovedBets

\* What a seat has and what its bets and its books say of it.
Account(s) == chips[s] + bets[s] - balance[s]

\* The value of a pot grows, and its members are new bettors or old members.
LEMMA AddToPotType ==
    ASSUME MoveInv, NEW pot \in Pots, NEW bet \in Nat,
           NEW who \in SUBSET Seats, who # {}, who \cap Sidelined = {},
           pot.members \cap Sidelined = {}
    PROVE  /\ AddToPot(pot, bet, who) \in Pots
           /\ AddToPot(pot, bet, who).members \cap Sidelined = {}
<1> DEFINE shown == pot.members
                      \cup {s \in who : status[s] \notin {"empty", "psFolded"}}
           true == pot.trueMembers \cup who
<1>1. bet * Cardinality(who) \in Nat
  BY SeatsFinite
<1>2. pot.value + bet * Cardinality(who) \in Nat
  BY <1>1 DEF Pots
<1>3. shown \in SUBSET Seats /\ true \in SUBSET Seats
  BY DEF Pots
<1>4. shown \cap Sidelined = {}
  OBVIOUS
<1>5. Cardinality(true) = 1 => true = who
  <2> SUFFICES ASSUME Cardinality(true) = 1 PROVE true = who
    OBVIOUS
  <2>1. PICK x : true = {x}
    BY <1>3, SeatsFinite, FS_Singleton
  <2> QED
    BY <2>1
<1> QED
  BY <1>2, <1>3, <1>4, <1>5 DEF AddToPot, Pots

\* A step of moveToPot keeps what it relies on, and leaves every account of a
\* member at the table what it was.
LEMMA MovePassKeeps ==
    ASSUME MoveInv, MovePass
    PROVE  /\ MoveInv'
           /\ \A s \in Seats : status[s] # "empty" => Account(s)' = Account(s)
<1> USE DEF MoveInv
<1>1. CASE Bettors = {}
  <2>1. bets = [s \in Seats |-> 0]
    BY <1>1 DEF Bettors, PotsTyped
  <2>2. /\ mv' = "merge" /\ at' = 1
        /\ UNCHANGED <<status, leaving, chips, bets, pots, balance>>
    BY <1>1 DEF MovePass
  <2>3. PotsTyped'
    BY <2>2 DEF PotsTyped
  <2>4. BetsArePlayed' /\ MembersArePlayed' /\ MovedBets'
    BY <2>1, <2>2 DEF BetsArePlayed, MembersArePlayed, MovedBets, Sidelined
  <2> QED
    BY <2>2, <2>3, <2>4 DEF Account
<1>2. CASE Bettors # {}
  <2> DEFINE min == Lowest({bets[s] : s \in Bettors})
             pot == AddToPot(pots[Len(pots)], min, Bettors)
  <2>1. /\ Bettors \in SUBSET Seats
        /\ \A s \in Seats : s \notin Bettors => bets[s] = 0
        /\ {bets[s] : s \in Bettors} \in SUBSET Nat
        /\ {bets[s] : s \in Bettors} # {}
    <3>1. \A s \in Seats : bets[s] \in Nat
      BY DEF PotsTyped
    <3> QED
      BY <1>2, <3>1 DEF Bettors
  <2>2. min \in Nat /\ \A s \in Bettors : min <= bets[s]
    BY <2>1, LowestIsLeast
  <2> HIDE DEF min
  <2>3. /\ bets' = [s \in Seats |->
                      IF s \in Bettors THEN bets[s] - min ELSE bets[s]]
        /\ balance' = [s \in Seats |->
                         IF s \in Bettors /\ Booked(s)
                         THEN balance[s] - min ELSE balance[s]]
        /\ pots' = Append([pots EXCEPT ![Len(pots)] = pot], EmptyPot)
        /\ mv' = IF \A s \in Bettors : bets[s] = min THEN "merge" ELSE "pass"
        /\ at' = 1
        /\ UNCHANGED <<status, leaving, chips>>
    BY <1>2 DEF MovePass, min
  <2>4. Bettors \cap Sidelined = {}
    BY DEF BetsArePlayed, Bettors, PotsTyped
  <2>5. pots' \in Seq(Pots) /\ MembersArePlayed'
    <3>1. EmptyPot \in Pots /\ EmptyPot.members = {}
      BY DEF EmptyPot, Pots
    <3>2. pots \in Seq(Pots) /\ Len(pots) \in Nat /\ DOMAIN pots = 1..Len(pots)
      BY DEF PotsTyped
    <3>3. ASSUME Len(pots) # 0
          PROVE  pot \in Pots /\ pot.members \cap Sidelined = {}
      <4>1. Len(pots) \in DOMAIN pots /\ pots[Len(pots)] \in Pots
        BY <3>2, <3>3
      <4> QED
        BY <1>2, <2>1, <2>2, <2>4, <4>1, AddToPotType DEF MembersArePlayed
    <3> DEFINE filled == [pots EXCEPT ![Len(pots)] = pot]
    <3>4. /\ filled \in Seq(Pots) /\ Len(filled) = Len(pots)
          /\ \A i \in DOMAIN pots : filled[i].members \cap Sidelined = {}
      <4>1. CASE Len(pots) = 0
        <5>1. DOMAIN pots = {}
          BY <3>2, <4>1
        <5>2. filled = pots
          <6> HIDE DEF pot
          <6>1. pots = [i \in DOMAIN pots |-> pots[i]]
            BY <3>2
          <6> QED
            BY <5>1, <6>1
        <5> HIDE DEF filled
        <5> QED
          BY <3>2, <5>1, <5>2
      <4>2. CASE Len(pots) # 0
        <5> HIDE DEF pot
        <5>1. /\ filled \in Seq(Pots) /\ Len(filled) = Len(pots)
              /\ \A j \in 1..Len(pots) :
                    filled[j] = IF j = Len(pots) THEN pot ELSE pots[j]
          BY <3>2, <3>3, <4>2, ExceptSeq
        <5> QED
          BY <3>2, <3>3, <4>2, <5>1 DEF MembersArePlayed
      <4> QED
        BY <4>1, <4>2
    <3> HIDE DEF filled
    <3>5. pots' = Append(filled, EmptyPot)
      BY <2>3 DEF filled
    <3>6. \A i \in DOMAIN pots' : pots'[i].members \cap Sidelined = {}
      BY <3>1, <3>2, <3>4, <3>5
    <3>7. pots' \in Seq(Pots)
      BY <3>1, <3>4, <3>5, AppendProperties
    <3>8. Sidelined' = Sidelined
      BY <2>3 DEF Sidelined
    <3> QED
      BY <3>6, <3>7, <3>8 DEF MembersArePlayed
  <2>6. bets' \in [Seats -> Nat] /\ balance' \in [Seats -> Int]
    <3>1. \A s \in Bettors : bets[s] - min \in Nat
      BY <2>1, <2>2 DEF PotsTyped
    <3> QED
      BY <2>2, <2>3, <3>1 DEF PotsTyped
  <2>7. PotsTyped'
    BY <2>3, <2>5, <2>6 DEF PotsTyped
  <2>8. BetsArePlayed'
    BY <2>3, <2>4 DEF BetsArePlayed, Sidelined, PotsTyped
  <2>9. MovedBets'
    BY <2>1, <2>2, <2>3 DEF MovedBets, PotsTyped
  <2>10. ASSUME NEW s \in Seats, status[s] # "empty"
         PROVE  Account(s)' = Account(s)
    <3>1. s \in Bettors => Booked(s)
      BY <2>4, <2>10 DEF Booked, Taken, Sidelined
    <3> QED
      BY <2>2, <2>3, <3>1 DEF Account, PotsTyped
  <2> QED
    BY <2>5, <2>7, <2>8, <2>9, <2>10
<1> QED
  BY <1>1, <1>2

LEMMA MergePotsKeeps ==
    ASSUME MoveInv, MergePots
    PROVE  /\ MoveInv'
           /\ \A s \in Seats : status[s] # "empty" => Account(s)' = Account(s)
<1> USE DEF MoveInv
<1>1. /\ UNCHANGED <<status, leaving, chips, bets, balance>>
      /\ mv = "merge" /\ mv' \in {"merge", "return"}
      /\ bets = [s \in Seats |-> 0]
  BY DEF MergePots, MovedBets
<1>2. /\ pots \in Seq(Pots) /\ Len(pots) \in Nat
      /\ DOMAIN pots = 1..Len(pots) /\ at \in Nat \ {0}
  BY DEF PotsTyped
<1>3. /\ at' \in Nat \ {0} /\ pots' \in Seq(Pots)
      /\ \A i \in DOMAIN pots' :
            \E k \in DOMAIN pots : pots'[i].members = pots[k].members
  <2>1. CASE pots' = pots /\ at' \in Nat \ {0}
    BY <1>2, <2>1
  <2>2. CASE /\ at < Len(pots) /\ at' = at
             /\ pots' = Without([pots EXCEPT ![at].value =
                                    @ + pots[at + 1].value], at + 1)
    <3> DEFINE sum == [pots EXCEPT ![at].value = @ + pots[at + 1].value]
    <3>1. at \in DOMAIN pots /\ at + 1 \in DOMAIN pots
      BY <1>2, <2>2
    <3>2. /\ sum \in Seq(Pots) /\ Len(sum) = Len(pots)
          /\ \A i \in DOMAIN sum : sum[i].members = pots[i].members
      <4> DEFINE p == [pots[at] EXCEPT !.value = @ + pots[at + 1].value]
      <4>0. pots[at] \in Pots /\ pots[at + 1] \in Pots
        BY <1>2, <3>1
      <4>1. p \in Pots /\ p.members = pots[at].members
        BY <4>0 DEF Pots
      <4>2. sum = [pots EXCEPT ![at] = p]
        OBVIOUS
      <4> HIDE DEF p, sum
      <4> QED
        BY <1>2, <3>1, <4>1, <4>2, ExceptSeq
    <3>3. DOMAIN sum = DOMAIN pots
      BY <3>2, <1>2
    <3> HIDE DEF sum
    <3>4. pots' = Without(sum, at + 1) /\ at + 1 \in 1..Len(sum)
      BY <1>2, <2>2, <3>1, <3>2 DEF sum
    <3>5. /\ pots' \in Seq(Pots)
          /\ \A i \in DOMAIN pots' : \E k \in DOMAIN sum : pots'[i] = sum[k]
      <4>1. /\ Without(sum, at + 1) \in Seq(Pots)
            /\ \A i \in DOMAIN Without(sum, at + 1) :
                  \E k \in DOMAIN sum : Without(sum, at + 1)[i] = sum[k]
        BY <3>2, <3>4, WithoutIsPart
      <4> QED
        BY <3>4, <4>1
    <3>6. at' \in Nat \ {0}
      BY <1>2, <2>2
    <3> QED
      BY <3>2, <3>3, <3>5, <3>6
  <2> QED
    BY <1>2, <2>1, <2>2 DEF MergePots
<1>4. PotsTyped'
  BY <1>1, <1>3 DEF PotsTyped
<1>5. BetsArePlayed' /\ MovedBets'
  BY <1>1 DEF BetsArePlayed, MovedBets, Sidelined
<1>6. MembersArePlayed'
  BY <1>1, <1>3 DEF MembersArePlayed, Sidelined
<1> QED
  BY <1>1, <1>4, <1>5, <1>6 DEF Account

LEMMA ReturnPotKeeps ==
    ASSUME MoveInv, ReturnPot
    PROVE  /\ MoveInv'
           /\ \A s \in Seats : status[s] # "empty" => Account(s)' = Account(s)
<1> USE DEF MoveInv
<1>1. /\ UNCHANGED <<status, leaving, bets, mv>> /\ mv = "return"
      /\ at' = at + 1 /\ at <= Len(pots)
  BY DEF ReturnPot
<1>2. /\ pots \in Seq(Pots) /\ Len(pots) \in Nat
      /\ DOMAIN pots = 1..Len(pots) /\ at \in 1..Len(pots)
      /\ pots[at] \in Pots
  BY <1>1 DEF PotsTyped
<1>3. BetsArePlayed' /\ MovedBets'
  BY <1>1 DEF BetsArePlayed, MovedBets, Sidelined
<1>4. CASE Cardinality(pots[at].trueMembers) = 1
  <2> DEFINE back == pots[at].value
             seat == IF pots[at].members = {} THEN NoSeat
                     ELSE Lowest(pots[at].members)
  <2>1. /\ chips' = [s \in Seats |-> IF s = seat /\ status[s] # "empty"
                                     THEN chips[s] + back ELSE chips[s]]
        /\ balance' = [s \in Seats |-> IF s = seat /\ Booked(s)
                                       THEN balance[s] + back ELSE balance[s]]
        /\ pots' = Without(pots, at)
    BY <1>4 DEF ReturnPot
  <2>2. back \in Nat /\ pots[at].members \in SUBSET Nat
    BY <1>2 DEF Pots, Seats
  <2>3. seat \in Seats => seat \notin Sidelined
    BY <1>2, <2>2, LowestIsLeast DEF MembersArePlayed, NoSeat, Seats
  <2> HIDE DEF back, seat
  <2>4. /\ pots' \in Seq(Pots)
        /\ \A i \in DOMAIN pots' : \E k \in DOMAIN pots : pots'[i] = pots[k]
    <3>1. /\ Without(pots, at) \in Seq(Pots)
          /\ \A i \in DOMAIN Without(pots, at) :
                \E k \in DOMAIN pots : Without(pots, at)[i] = pots[k]
      <4>1. pots \in Seq(Pots) /\ at \in 1..Len(pots)
        BY <1>2
      <4> QED
        BY <4>1, WithoutIsPart
    <3> QED
      BY <2>1, <3>1
  <2>5. chips' \in [Seats -> Nat] /\ balance' \in [Seats -> Int]
    BY <2>1, <2>2 DEF PotsTyped
  <2>6. PotsTyped'
    BY <1>1, <1>2, <2>4, <2>5 DEF PotsTyped
  <2>7. MembersArePlayed'
    BY <1>1, <2>4 DEF MembersArePlayed, Sidelined
  <2>8. ASSUME NEW s \in Seats, status[s] # "empty"
        PROVE  Account(s)' = Account(s)
    <3>1. s = seat => Booked(s)
      BY <2>3, <2>8 DEF Booked, Taken, Sidelined
    <3> QED
      BY <1>1, <2>1, <2>2, <2>8, <3>1 DEF Account, PotsTyped
  <2> QED
    BY <1>3, <2>6, <2>7, <2>8
<1>5. CASE Cardinality(pots[at].trueMembers) # 1
  <2>1. UNCHANGED <<chips, balance, pots>>
    BY <1>5 DEF ReturnPot
  <2>2. PotsTyped' /\ MembersArePlayed'
    BY <1>1, <2>1 DEF PotsTyped, MembersArePlayed, Sidelined
  <2> QED
    BY <1>1, <1>3, <2>1, <2>2 DEF Account
<1> QED
  BY <1>4, <1>5

\* moveToPot books what it moves.
LEMMA MoveStepKeeps ==
    ASSUME MoveInv, MoveStep
    PROVE  /\ MoveInv'
           /\ \A s \in Seats : status[s] # "empty" => Account(s)' = Account(s)
BY MovePassKeeps, MergePotsKeeps, ReturnPotKeeps DEF MoveStep

-----------------------------------------------------------------------------

(***************************************************************************)
(* The inductive invariant.  The books agree because a bet, and a pot that *)
(* is given back, belong to a seat that moveToPot books: to keep that, a   *)
(* seat may be sidelined only when no bet and no pot names it, which is so *)
(* between two hands, and only a seat in the hand may bet, which is the    *)
(* seat that has the turn.                                                 *)
(***************************************************************************)
Stakes == [dealt : Nat, short : BOOLEAN, added : Nat]

GameTyped ==
    /\ state \in States /\ pc \in Pcs /\ then \in {"machine", "finish"}
    /\ dealer \in Seats \cup {-1} /\ current_seat \in Seats \cup {-1}
    /\ minBet \in Nat /\ minimum_raise \in Nat /\ keycount \in Int
    /\ rake \in Nat /\ away \in [Seats -> Int] /\ staked \in [Seats -> Stakes]
    /\ acted \in SUBSET Seats

Typed == PotsTyped /\ GameTyped

Control ==
    /\ pc \in {"machine", "finish", "street", "showdown"} => state \in Streets
    /\ pc = "street" => state # "tsRiver"
    /\ pc = "pay" => state = "tsWinning"
    /\ pc = "idle" => state = "tsIdle"
    /\ mv # "none" => pc \in {"street", "showdown"}
    /\ leaving # NoSeat => status[leaving] = "empty"

Resting ==
    state \notin Streets =>
        /\ \A s \in Seats : bets[s] = 0
        /\ pc # "pay" => \A i \in DOMAIN pots : pots[i].members = {}

TwoInHand ==
    failed = "no" /\ state \in Streets /\ pc # "showdown" => InHandCount >= 2

TurnInHand ==
    failed = "no" /\ state \in Streets /\ pc \in {"free", "released"}
        => current_seat \in InHand

IInv ==
    /\ Typed
    /\ BetsArePlayed /\ MembersArePlayed /\ MovedBets
    /\ Control /\ Resting /\ TwoInHand /\ TurnInHand
    /\ BookedIsPlayed

-----------------------------------------------------------------------------
\* A search round the table finds a seat of the set it searches.
LEMMA NextSeatIn ==
    ASSUME NEW current \in Int, NEW S \in SUBSET Seats, S # {}
    PROVE  Dealing!NextSeat(current, S) \in S
<1> DEFINE d(x) == (x - (current + 1)) % N
<1>1. N \in Nat /\ N > 0 /\ \A x \in S : x \in Int
  BY NAssumption DEF Seats
<1>2. \A x \in S : d(x) \in Nat
  BY <1>1
<1> HIDE DEF d
<1>3. {d(x) : x \in S} \in SUBSET Nat /\ {d(x) : x \in S} # {}
  BY <1>2
<1>4. PICK m \in {d(x) : x \in S} : \A y \in {d(x) : x \in S} : m <= y
  BY <1>3, MinExists
<1>5. PICK x \in S : m = d(x)
  BY <1>4
<1>6. \A y \in S : d(x) <= d(y)
  BY <1>4, <1>5
<1>7. /\ S \cap Dealing!Seats = S
      /\ \A y : Dealing!Distance(current + 1, y) = d(y)
  BY DEF Seats, Dealing!Seats, Dealing!Distance, d
<1> QED
  BY <1>6, <1>7 DEF Dealing!NextSeat

LEMMA NextSeatType ==
    ASSUME NEW current \in Int, NEW S \in SUBSET Seats
    PROVE  Dealing!NextSeat(current, S) \in Seats \cup {-1}
<1>1. S = {} => Dealing!NextSeat(current, S) = -1
  BY DEF Dealing!NextSeat
<1> QED
  BY <1>1, NextSeatIn

LEMMA QuotientType ==
    ASSUME NEW a \in Nat, NEW b \in Nat \ {0}
    PROVE  a \div b \in Nat
OBVIOUS

\* The button and the big blind are at seats of the table.
LEMMA DealSeats ==
    ASSUME NEW t, t.dealer \in Seats \cup {-1}
    PROVE  /\ Dealing!NewDealer(t) \in Seats \cup {-1}
           /\ Dealing!BigBlindSeat(t) \in Int
<1> DEFINE R == Dealing!ReachedByButton(t)
           far(s) == Dealing!Distance(Dealing!OldDealer(t), s)
           last == CHOOSE s \in R : \A y \in R : far(y) <= far(s)
<1>1. /\ Dealing!Able(t) \in SUBSET Seats
      /\ Dealing!DealtIn(t) \in SUBSET Seats
      /\ R \in SUBSET Seats /\ \A x \in Seats : x \in Int
      /\ Dealing!OldDealer(t) \in Int /\ t.dealer \in Int
  BY NAssumption DEF Dealing!Able, Dealing!DealtIn, Dealing!ReachedByButton,
     Dealing!MustWait, Dealing!NotPlaying, Dealing!OldDealer, Dealing!Seats,
     Seats
<1>2. Dealing!FirstDealer(t) \in Seats \cup {-1}
  BY <1>1, NextSeatType DEF Dealing!FirstDealer
<1>3. R # {} => last \in Int
  <2>1. ASSUME R # {} PROVE last \in R
    <3>1. \A s \in R : far(s) \in Nat /\ far(s) <= N
      <4> DEFINE o == Dealing!OldDealer(t)
      <4>1. o \in Int /\ N \in Nat /\ N > 0 /\ \A s \in R : s \in Int
        <5> HIDE DEF R
        <5> QED
          BY <1>1, NAssumption
      <4> HIDE DEF o
      <4>2. \A s \in R : (s - o) % N \in Nat /\ (s - o) % N <= N
        BY <4>1
      <4> QED
        BY <4>2 DEF Dealing!Distance, o
    <3> HIDE DEF far
    <3>2. {far(s) : s \in R} \in SUBSET Nat /\ {far(s) : s \in R} # {}
      BY <2>1, <3>1
    <3> DEFINE T == {far(s) : s \in R}
    <3>3. PICK m \in T : \A y \in T : m >= y
      <4>1. N \in Nat /\ \A x \in T : x <= N
        BY <3>1, NAssumption
      <4> HIDE DEF T
      <4> QED
        BY <3>2, <4>1, MaxExists DEF T
    <3>4. PICK s \in R : m = far(s)
      BY <3>3
    <3>5. \A y \in R : far(y) <= far(s)
      BY <3>1, <3>3, <3>4
    <3> QED
      BY <3>5
  <2> QED
    BY <1>1, <2>1
<1>4. Dealing!NewDealer(t) \in Seats \cup {-1}
  BY <1>1, <1>2, <1>3, NextSeatType DEF Dealing!NewDealer
<1>5. ASSUME NEW current \in Int
      PROVE  Dealing!NextSeat(current, Dealing!DealtIn(t)) \in Int
  <2>1. Dealing!NextSeat(current, Dealing!DealtIn(t)) \in Seats \cup {-1}
    BY <1>1, NextSeatType
  <2> QED
    BY <1>1, <2>1
<1>6. Dealing!SmallBlindSeat(t) \in Int
  BY <1>1, <1>4, <1>5 DEF Dealing!SmallBlindSeat
<1> QED
  BY <1>4, <1>5, <1>6 DEF Dealing!BigBlindSeat

-----------------------------------------------------------------------------
\* Between two hands.
LEMMA InitKeeps == Init => IInv
<1> SUFFICES ASSUME Init PROVE IInv
  OBVIOUS
<1>1. EmptyPot \in Pots /\ EmptyPot.members = {}
  BY DEF EmptyPot, Pots
<1>2. pots \in Seq(Pots) /\ DOMAIN pots = {1} /\ pots[1] = EmptyPot
  BY <1>1 DEF Init
<1>3. chips \in [Seats -> Nat] /\ away \in [Seats -> Int]
  <2>1. chips \in [Seats -> Nat]
    <3>1. \A x \in Stacks \cup {0} : x \in Nat
      BY BettingAssumption
    <3>2. chips \in [Seats -> Stacks \cup {0}]
      BY DEF Init
    <3> QED
      BY <3>1, <3>2
  <2> QED
    BY <2>1 DEF Init
<1>4. Typed
  <2>1. 0 \in Seats /\ status \in [Seats -> Statuses]
    BY NAssumption DEF Init, Seats, Statuses
  <2>2. staked \in [Seats -> Stakes]
    BY <1>3 DEF Init, Stakes
  <2> QED
    BY <1>2, <1>3, <2>1, <2>2 DEF Init, Typed, PotsTyped, GameTyped, States,
       Pcs, NoSeat
<1>5. BetsArePlayed /\ MembersArePlayed /\ MovedBets
  BY <1>1, <1>2
     DEF Init, BetsArePlayed, MembersArePlayed, MovedBets, Sidelined
<1>6. Control /\ Resting /\ TwoInHand /\ TurnInHand
  BY <1>1, <1>2
     DEF Init, Control, Resting, TwoInHand, TurnInHand, Streets, NoSeat
<1>7. BookedIsPlayed
  BY <1>3 DEF Init, BookedIsPlayed
<1> QED
  BY <1>4, <1>5, <1>6, <1>7 DEF IInv

LEMMA AddOnKeeps ==
    ASSUME IInv, NEW s \in Seats, NEW n \in Stacks, AddOn(s, n)
    PROVE  IInv'
<1> USE DEF IInv
<1>1. n \in Nat /\ n \in Int
  <2>1. \A x \in Stacks : x \in Nat
    BY BettingAssumption
  <2> QED
    BY <2>1
<1>2. /\ UNCHANGED <<status, leaving, bets, pots, balance, mv, at, failed,
                     state, dealer, current_seat, minBet, minimum_raise,
                     keycount, pc, then, acted, rake>>
      /\ chips' = [chips EXCEPT ![s] = @ + n]
      /\ staked' = [staked EXCEPT ![s].added = @ + n]
      /\ away' = [away EXCEPT ![s] = @ - n]
  BY DEF AddOn, handVars, lockVars
<1>3. Typed'
  <2>1. /\ chips \in [Seats -> Nat] /\ staked \in [Seats -> Stakes]
        /\ away \in [Seats -> Int]
    BY DEF Typed, PotsTyped, GameTyped
  <2>2. /\ chips' \in [Seats -> Nat] /\ staked' \in [Seats -> Stakes]
        /\ away' \in [Seats -> Int]
    BY <1>1, <1>2, <2>1 DEF Stakes
  <2> QED
    BY <1>2, <2>2 DEF Typed, PotsTyped, GameTyped
<1>4. BetsArePlayed' /\ MembersArePlayed' /\ MovedBets'
  BY <1>2 DEF BetsArePlayed, MembersArePlayed, MovedBets, Sidelined
<1>5. Control' /\ Resting' /\ TwoInHand' /\ TurnInHand'
  BY <1>2
     DEF Control, Resting, TwoInHand, TurnInHand, InHandCount, InHand
<1>6. BookedIsPlayed'
  <2>1. /\ chips \in [Seats -> Nat] /\ staked \in [Seats -> Stakes]
        /\ bets \in [Seats -> Nat] /\ balance \in [Seats -> Int]
    BY DEF Typed, PotsTyped, GameTyped
  <2>2. /\ chips'[s] = chips[s] + n /\ staked'[s].dealt = staked[s].dealt
        /\ staked'[s].added = staked[s].added + n
        /\ chips[s] \in Nat /\ bets[s] \in Nat /\ balance[s] \in Int
        /\ staked[s].dealt \in Nat /\ staked[s].added \in Nat
    BY <1>2, <2>1 DEF Stakes
  <2>3. \A x \in Seats \ {s} : chips'[x] = chips[x] /\ staked'[x] = staked[x]
    BY <1>2, <2>1
  <2>4. ASSUME NEW x \in Seats, status[x] # "empty"
        PROVE  chips'[x] + bets[x] - balance[x]
                 = staked'[x].dealt + staked'[x].added
    <3>1. chips[x] + bets[x] - balance[x] = staked[x].dealt + staked[x].added
      BY <2>4 DEF BookedIsPlayed
    <3> QED
      BY <1>1, <2>2, <2>3, <3>1
  <2> QED
    BY <1>2, <2>4 DEF BookedIsPlayed
<1> QED
  BY <1>3, <1>4, <1>5, <1>6

\* Members who are put out of play have no bets, and no pot names them.
LEMMA WaitForPlayersKeeps ==
    ASSUME IInv, WaitForPlayers
    PROVE  IInv'
<1> USE DEF IInv
<1>1. /\ UNCHANGED <<leaving, chips, bets, pots, balance, mv, at, failed,
                     handVars, then, outcome, books>>
      /\ status' = SatOut /\ pc = "idle" /\ pc' = "free"
  BY DEF WaitForPlayers
<1>2. /\ state \notin Streets /\ \A s \in Seats : bets[s] = 0
      /\ \A i \in DOMAIN pots : pots[i].members = {}
  BY <1>1 DEF Control, Resting, Streets
<1>3. /\ SatOut \in [Seats -> Statuses]
      /\ \A s \in Seats : SatOut[s] = "empty" <=> status[s] = "empty"
  BY DEF SatOut, Typed, PotsTyped, GameTyped, Statuses
<1>4. Typed'
  BY <1>1, <1>3 DEF Typed, PotsTyped, GameTyped, Pcs, handVars, books
<1>5. BetsArePlayed' /\ MembersArePlayed' /\ MovedBets'
  BY <1>1, <1>2 DEF BetsArePlayed, MembersArePlayed, MovedBets, Sidelined
<1>6. Control' /\ Resting' /\ TwoInHand' /\ TurnInHand'
  BY <1>1, <1>2, <1>3 DEF Control, Resting, TwoInHand, TurnInHand, handVars,
     Typed, PotsTyped, GameTyped, NoSeat
<1>7. BookedIsPlayed'
  BY <1>1, <1>3 DEF BookedIsPlayed, books
<1> QED
  BY <1>4, <1>5, <1>6, <1>7

\* A member who comes back, or sits out, has no bet and is in no pot.
LEMMA SitKeeps ==
    ASSUME IInv, Sit
    PROVE  IInv'
<1> USE DEF IInv
<1>1. PICK s \in Seats : PlayNow(s) \/ SitOut(s)
  BY DEF Sit
<1>2. /\ UNCHANGED <<leaving, chips, bets, pots, balance, mv, at, failed,
                     state, dealer, current_seat, minBet, minimum_raise,
                     keycount, pc, then, rake, away, staked, acted>>
      /\ pc = "free"
      /\ status' = [status EXCEPT ![s] = status'[s]]
      /\ status'[s] \in {"psOutOfHand", "psOutOfPlay"}
      /\ \/ status[s] \in {"psOutOfHand", "psOutOfPlay"}
         \/ status[s] = "psInHand" /\ state = "tsIdle"
  BY <1>1 DEF PlayNow, SitOut, Free, gameVars, handVars, lockVars, books,
     Typed, PotsTyped
<1>3. /\ status' \in [Seats -> Statuses]
      /\ \A x \in Seats : status'[x] = "empty" <=> status[x] = "empty"
  BY <1>2 DEF Typed, PotsTyped, Statuses
<1>4. state \in Streets => InHand' = InHand /\ Sidelined' = Sidelined
  BY <1>2 DEF Streets, InHand, Sidelined, Typed, PotsTyped
<1>5. state \notin Streets =>
        /\ \A x \in Seats : bets[x] = 0
        /\ \A i \in DOMAIN pots : pots[i].members = {}
  BY <1>2 DEF Resting
<1>6. Typed'
  BY <1>2, <1>3 DEF Typed, PotsTyped, GameTyped
<1>7. BetsArePlayed' /\ MembersArePlayed' /\ MovedBets'
  BY <1>2, <1>4, <1>5 DEF BetsArePlayed, MembersArePlayed, MovedBets,
     Sidelined, Typed, PotsTyped
<1>8. Control' /\ Resting' /\ TwoInHand' /\ TurnInHand'
  BY <1>2, <1>3, <1>4 DEF Control, Resting, TwoInHand, TurnInHand,
     InHandCount, Typed, PotsTyped, NoSeat
<1>9. BookedIsPlayed'
  BY <1>2, <1>3 DEF BookedIsPlayed
<1> QED
  BY <1>6, <1>7, <1>8, <1>9

LEMMA HandOverKeeps ==
    ASSUME IInv, NEW out \in SUBSET Seats, HandOver(out)
    PROVE  IInv'
<1> USE DEF IInv
<1>1. /\ UNCHANGED <<leaving, chips, bets, pots, balance, mv, at, failed,
                     minBet, minimum_raise, keycount, then, books>>
      /\ pc = "free" /\ pc' = "idle"
      /\ state = "tsWinning" /\ state' = "tsIdle"
      /\ current_seat' = -1 /\ dealer' \in {-1, dealer}
  BY DEF HandOver, Free
<1>2. /\ state \notin Streets /\ state' \notin Streets
      /\ \A s \in Seats : bets[s] = 0
      /\ \A i \in DOMAIN pots : pots[i].members = {}
  BY <1>1 DEF Resting, Streets
<1>3. /\ status' \in [Seats -> Statuses]
      /\ \A s \in Seats : status'[s] = "empty" <=> status[s] = "empty"
  BY DEF HandOver, Typed, PotsTyped, GameTyped, Statuses
<1>4. Typed'
  BY <1>1, <1>3 DEF Typed, PotsTyped, GameTyped, Pcs, States, books
<1>5. BetsArePlayed' /\ MembersArePlayed' /\ MovedBets'
  BY <1>1, <1>2 DEF BetsArePlayed, MembersArePlayed, MovedBets, Sidelined
<1>6. Control' /\ Resting' /\ TwoInHand' /\ TurnInHand'
  BY <1>1, <1>2, <1>3 DEF Control, Resting, TwoInHand, TurnInHand,
     Typed, PotsTyped, GameTyped, NoSeat
<1>7. BookedIsPlayed'
  BY <1>1, <1>3 DEF BookedIsPlayed, books
<1> QED
  BY <1>4, <1>5, <1>6, <1>7

-----------------------------------------------------------------------------
\* What the holder of the lock does.
LEMMA TurnSeat ==
    ASSUME IInv
    PROVE  /\ NextSeat(current_seat) \in Seats \cup {-1}
           /\ InHand # {} => NextSeat(current_seat) \in InHand
<1>1. InHand \in SUBSET Seats /\ current_seat \in Int
  BY NAssumption DEF InHand, IInv, Typed, PotsTyped, GameTyped, Seats
<1> QED
  BY <1>1, NextSeatType, NextSeatIn DEF NextSeat

LEMMA InHandSome ==
    ASSUME InHandCount >= 2
    PROVE  InHand # {}
BY FS_EmptySet DEF InHandCount

LEMMA StateMachineKeeps ==
    ASSUME IInv, StateMachine
    PROVE  IInv'
<1> USE DEF IInv
<1>1. /\ UNCHANGED <<status, leaving, chips, bets, pots, balance, failed,
                     state, dealer, minBet, ranOut, ranFlop, outcome, books>>
      /\ pc = "machine" /\ then' \in {"machine", "finish"}
      /\ minimum_raise' \in {0, minimum_raise}
      /\ current_seat' \in {dealer, current_seat, NextSeat(current_seat)}
      /\ keycount' \in {-2, keycount - 1, keycount}
  BY DEF StateMachine
<1>2. \/ pc' \in {"machine", "finish"} /\ UNCHANGED <<mv, at>>
      \/ /\ pc' = IF state = "tsRiver" THEN "showdown" ELSE "street"
         /\ mv' = "pass" /\ at' = 1
  BY <1>1 DEF StateMachine
<1>3. state \in Streets /\ mv = "none"
  BY <1>1 DEF Control, Typed, PotsTyped, GameTyped
<1>4. Typed'
  <2>1. minimum_raise' \in Nat /\ keycount' \in Int
    BY <1>1 DEF Typed, GameTyped
  <2>2. current_seat' \in Seats \cup {-1}
    BY <1>1, TurnSeat DEF Typed, GameTyped
  <2>3. PotsTyped'
    BY <1>1, <1>2 DEF Typed, PotsTyped
  <2>4. pc' \in Pcs
    BY <1>2 DEF Pcs
  <2> QED
    BY <1>1, <2>1, <2>2, <2>3, <2>4 DEF Typed, GameTyped, books
<1>5. BetsArePlayed' /\ MembersArePlayed' /\ MovedBets'
  BY <1>1, <1>2, <1>3
     DEF BetsArePlayed, MembersArePlayed, MovedBets, Sidelined
<1>6. Control' /\ Resting' /\ TwoInHand' /\ TurnInHand'
  BY <1>1, <1>2, <1>3
     DEF Control, Resting, TwoInHand, TurnInHand, InHandCount, InHand
<1>7. BookedIsPlayed'
  BY <1>1 DEF BookedIsPlayed, books
<1> QED
  BY <1>4, <1>5, <1>6, <1>7

LEMMA FinishKeeps ==
    ASSUME IInv, Finish
    PROVE  IInv'
<1> USE DEF IInv
<1>1. /\ UNCHANGED <<status, leaving, chips, bets, pots, balance, mv, at,
                     state, dealer, minBet, minimum_raise, keycount, then,
                     books>>
      /\ pc = "finish" /\ pc' \in {"machine", "released"}
      /\ failed = "no" /\ current_seat' = NextSeat(current_seat)
  BY DEF Finish
<1>2. state \in Streets /\ mv = "none"
  BY <1>1 DEF Control, Typed, PotsTyped, GameTyped
<1>3. Typed'
  BY <1>1, TurnSeat DEF Typed, PotsTyped, GameTyped, Pcs, books
<1>4. BetsArePlayed' /\ MembersArePlayed' /\ MovedBets'
  BY <1>1 DEF BetsArePlayed, MembersArePlayed, MovedBets, Sidelined
<1>5. Control' /\ Resting' /\ TwoInHand'
  BY <1>1, <1>2 DEF Control, Resting, TwoInHand, InHandCount, InHand
<1>6. TurnInHand'
  <2>1. InHandCount >= 2
    BY <1>1, <1>2 DEF TwoInHand
  <2> QED
    BY <1>1, <2>1, TurnSeat, InHandSome DEF TurnInHand, InHand
<1>7. BookedIsPlayed'
  BY <1>1 DEF BookedIsPlayed, books
<1> QED
  BY <1>3, <1>4, <1>5, <1>6, <1>7

LEMMA MoveToPotKeeps ==
    ASSUME IInv, MoveToPot
    PROVE  IInv'
<1> USE DEF IInv
<1>1. UNCHANGED gameVars /\ MoveStep
  BY DEF MoveToPot
<1>2. UNCHANGED <<status, leaving>> /\ mv # "none" /\ mv' # "none"
  BY <1>1 DEF MoveStep, MovePass, MergePots, ReturnPot
<1>3. MoveInv
  BY DEF MoveInv, Typed, PotsTyped, GameTyped
<1>4. /\ MoveInv'
      /\ \A s \in Seats : status[s] # "empty" => Account(s)' = Account(s)
  BY <1>1, <1>3, MoveStepKeeps
<1>5. Typed'
  <2>1. UNCHANGED <<state, dealer, current_seat, minBet, minimum_raise,
                    keycount, pc, then, books>>
    BY <1>1 DEF gameVars, handVars, lockVars
  <2>2. GameTyped'
    BY <2>1 DEF Typed, GameTyped, books
  <2>3. PotsTyped'
    BY <1>4 DEF MoveInv
  <2> QED
    BY <2>2, <2>3 DEF Typed
<1>6. Control' /\ Resting' /\ TwoInHand' /\ TurnInHand'
  <2>1. UNCHANGED <<state, current_seat, pc>> /\ failed = "no"
    BY <1>1 DEF gameVars, handVars, lockVars, MoveStep, MovePass, MergePots,
       ReturnPot
  <2>2. pc \in {"street", "showdown"} /\ state \in Streets
    BY <1>2 DEF Control
  <2>3. InHand' = InHand /\ InHandCount' = InHandCount
    BY <1>2 DEF InHand, InHandCount
  <2>4. Control' /\ Resting'
    BY <1>2, <2>1, <2>2 DEF Control, Resting
  <2> QED
    BY <2>1, <2>2, <2>3, <2>4 DEF TwoInHand, TurnInHand
<1>7. BookedIsPlayed'
  BY <1>1, <1>2, <1>4 DEF BookedIsPlayed, Account, gameVars, books
<1> QED
  BY <1>4, <1>5, <1>6, <1>7 DEF MoveInv

LEMMA DealStreetKeeps ==
    ASSUME IInv, DealStreet
    PROVE  IInv'
<1> USE DEF IInv
<1>1. /\ UNCHANGED <<status, leaving, chips, bets, pots, balance, failed,
                     dealer, current_seat, ranOut, then, outcome, rake, away,
                     staked>>
      /\ pc = "street" /\ pc' = then /\ mv' = "none" /\ at' = 1
      /\ minBet' = 0 /\ minimum_raise' \in {BigBlind, minimum_raise}
      /\ keycount' = KeyCount(status, chips)
      /\ state' = NextStreet[state] /\ acted' = {}
  BY DEF DealStreet
<1>2. state \in Streets /\ state' \in Streets
  BY <1>1 DEF Control, Streets, NextStreet
<1>3. KeyCount(status, chips) \in Int
  <2>1. {s \in Seats : status[s] = "psInHand" /\ chips[s] > 0}
           \in SUBSET Seats
    OBVIOUS
  <2> QED
    BY <2>1, SeatsFinite DEF KeyCount
<1>4. Typed'
  <2>1. PotsTyped'
    BY <1>1 DEF Typed, PotsTyped
  <2>2. minimum_raise' \in Nat
    BY <1>1, BettingAssumption DEF Typed, GameTyped
  <2>3. pc' \in Pcs /\ state' \in States
    BY <1>1, <1>2 DEF Typed, GameTyped, Pcs, States
  <2> QED
    BY <1>1, <1>3, <2>1, <2>2, <2>3 DEF Typed, GameTyped
<1>5. BetsArePlayed' /\ MembersArePlayed' /\ MovedBets'
  BY <1>1 DEF BetsArePlayed, MembersArePlayed, MovedBets, Sidelined
<1>6. Control' /\ Resting' /\ TwoInHand' /\ TurnInHand'
  BY <1>1, <1>2 DEF Control, Resting, TwoInHand, TurnInHand, InHandCount,
     InHand, Typed, PotsTyped, GameTyped
<1>7. BookedIsPlayed'
  BY <1>1 DEF BookedIsPlayed
<1> QED
  BY <1>4, <1>5, <1>6, <1>7

LEMMA CalcWinnersKeeps ==
    ASSUME IInv, CalcWinners
    PROVE  IInv'
<1> USE DEF IInv
<1>1. /\ UNCHANGED <<status, leaving, chips, bets, pots, balance, failed,
                     dealer, minimum_raise, keycount, then, books>>
      /\ mv = "return" /\ pc' = "pay" /\ at' = 1 /\ mv' = "none"
      /\ minBet' = 0 /\ state' = "tsWinning" /\ current_seat' = -1
  BY DEF CalcWinners, Moved
<1>2. \A s \in Seats : bets[s] = 0
  BY <1>1 DEF MovedBets
<1>3. Typed'
  <2>1. PotsTyped'
    BY <1>1 DEF Typed, PotsTyped
  <2>2. pc' \in Pcs /\ state' \in States
    BY <1>1 DEF Pcs, States
  <2> QED
    BY <1>1, <2>1, <2>2 DEF Typed, GameTyped, books
<1>4. BetsArePlayed' /\ MembersArePlayed' /\ MovedBets'
  BY <1>1 DEF BetsArePlayed, MembersArePlayed, MovedBets, Sidelined
<1>5. Control' /\ Resting' /\ TwoInHand' /\ TurnInHand'
  BY <1>1, <1>2 DEF Control, Resting, TwoInHand, TurnInHand, Streets
<1>6. BookedIsPlayed'
  BY <1>1 DEF BookedIsPlayed, books
<1> QED
  BY <1>3, <1>4, <1>5, <1>6

\* What a pot pays is a number of chips.
LEMMA ShareType ==
    ASSUME NEW amount \in Nat, NEW winners \in SUBSET Seats, NEW s \in Seats
    PROVE  Share(amount, winners, s) \in Nat
<1>1. CASE s \in winners
  <2>1. Cardinality(winners) \in Nat \ {0}
    BY <1>1, SeatsFinite, FS_EmptySet
  <2> QED
    BY <1>1, <2>1, QuotientType DEF Share
<1> QED
  BY <1>1 DEF Share

LEMMA GainType ==
    ASSUME NEW pot \in Pots, NEW net \in Nat, NEW s \in Seats
    PROVE  Gain(pot, net, s) \in Nat
<1>1. Chip \in Nat \ {0} /\ 2 * Chip \in Nat \ {0}
  BY BettingAssumption
<1>2. (2 * net + Chip) \div (2 * Chip) \in Nat
  BY <1>1, QuotientType
<1>3. (net + Chip) \div (2 * Chip) \in Nat
  BY <1>1, QuotientType
<1>4. Whole(net) \in Nat /\ HalfOf(net) \in Nat
  BY <1>1, <1>2, <1>3 DEF Whole, HalfOf
<1>5. /\ InHand \in SUBSET Seats
      /\ Winners(pot, 1) \in SUBSET Seats /\ Winners(pot, 2) \in SUBSET Seats
  BY DEF InHand, Winners
<1>6. Share(Whole(net), InHand, s) \in Nat
  BY <1>4, <1>5, ShareType
<1>7. /\ Share(HalfOf(net), Winners(pot, 1), s) \in Nat
      /\ Share(HalfOf(net), Winners(pot, 2), s) \in Nat
  BY <1>4, <1>5, ShareType
<1> QED
  BY <1>6, <1>7 DEF Gain

LEMMA PayPotKeeps ==
    ASSUME IInv, PayPot
    PROVE  IInv'
<1> USE DEF IInv
<1> DEFINE pot == pots[at]
<1>1. /\ UNCHANGED <<status, leaving, bets, pots, mv, handVars, lockVars, away,
                     staked, acted>>
      /\ pc = "pay" /\ at <= Len(pots) /\ at' = at + 1
  BY DEF PayPot
<1>2. pot \in Pots
  BY <1>1 DEF Typed, PotsTyped
<1> HIDE DEF pot
<1>3. PICK gain \in [Seats -> Nat] :
         /\ chips' = [s \in Seats |-> chips[s] + gain[s]]
         /\ balance' = [s \in Seats |-> balance[s] + gain[s]]
         /\ rake' \in Nat
  <2>1. CASE pot.value = 0
    <3>1. UNCHANGED <<chips, balance, rake>>
      BY <2>1 DEF PayPot, pot
    <3> DEFINE none == [s \in Seats |-> 0]
    <3>2. /\ none \in [Seats -> Nat]
          /\ chips' = [s \in Seats |-> chips[s] + none[s]]
          /\ balance' = [s \in Seats |-> balance[s] + none[s]]
          /\ rake' \in Nat
      BY <3>1 DEF Typed, PotsTyped, GameTyped
    <3> QED
      BY <3>2
  <2>2. CASE pot.value # 0
    <3>1. PICK r \in Rakes(pot) :
             /\ chips' = [s \in Seats |->
                            chips[s] + Gain(pot, pot.value - r, s)]
             /\ balance' = [s \in Seats |->
                              balance[s] + Gain(pot, pot.value - r, s)]
             /\ rake' = rake + r
      BY <2>2 DEF PayPot, pot
    <3>2. r \in Nat /\ pot.value - r \in Nat
      <4>1. pot.value \in Nat
        BY <1>2 DEF Pots
      <4>2. PICK n \in 0..MaxRake : r = Chip * n
        BY DEF Rakes
      <4>3. n \in Nat /\ Chip \in Nat
        BY BettingAssumption
      <4>4. r \in Nat
        BY <4>2, <4>3
      <4>5. r = 0 \/ r <= pot.value
        BY DEF Rakes
      <4> QED
        BY <4>1, <4>4, <4>5
    <3> DEFINE gain == [s \in Seats |-> Gain(pot, pot.value - r, s)]
    <3>3. gain \in [Seats -> Nat]
      BY <1>2, <3>2, GainType
    <3>4. /\ chips' = [s \in Seats |-> chips[s] + gain[s]]
          /\ balance' = [s \in Seats |-> balance[s] + gain[s]]
      BY <3>1
    <3>5. rake' \in Nat
      BY <3>1, <3>2 DEF Typed, GameTyped
    <3> QED
      BY <3>3, <3>4, <3>5
  <2> QED
    BY <2>1, <2>2
<1>4. Typed'
  <2>1. chips' \in [Seats -> Nat] /\ balance' \in [Seats -> Int]
    BY <1>3 DEF Typed, PotsTyped
  <2>2. PotsTyped'
    BY <1>1, <2>1 DEF Typed, PotsTyped
  <2>3. GameTyped'
    BY <1>1, <1>3 DEF Typed, GameTyped, handVars, lockVars
  <2> QED
    BY <2>2, <2>3 DEF Typed
<1>5. BetsArePlayed' /\ MembersArePlayed' /\ MovedBets'
  BY <1>1 DEF BetsArePlayed, MembersArePlayed, MovedBets, Sidelined
<1>6. Control' /\ Resting' /\ TwoInHand' /\ TurnInHand'
  BY <1>1 DEF Control, Resting, TwoInHand, TurnInHand, handVars, lockVars,
     Streets
<1>7. BookedIsPlayed'
  <2>1. \A s \in Seats :
           chips[s] \in Nat /\ bets[s] \in Nat /\ balance[s] \in Int
    BY DEF Typed, PotsTyped
  <2> QED
    BY <1>1, <1>3, <2>1 DEF BookedIsPlayed
<1> QED
  BY <1>4, <1>5, <1>6, <1>7

LEMMA WinDoneKeeps ==
    ASSUME IInv, WinDone
    PROVE  IInv'
<1> USE DEF IInv
<1>1. /\ UNCHANGED <<status, leaving, chips, bets, balance, mv, handVars, then,
                     books>>
      /\ pots' = <<EmptyPot>> /\ at' = 1 /\ pc = "pay" /\ pc' = "released"
  BY DEF WinDone
<1>2. EmptyPot \in Pots /\ EmptyPot.members = {}
  BY DEF EmptyPot, Pots
<1>3. pots' \in Seq(Pots) /\ \A i \in DOMAIN pots' : pots'[i].members = {}
  BY <1>1, <1>2
<1>4. Typed'
  <2>1. PotsTyped'
    BY <1>1, <1>3 DEF Typed, PotsTyped
  <2>2. pc' \in Pcs
    BY <1>1 DEF Pcs
  <2> QED
    BY <1>1, <2>1, <2>2 DEF Typed, GameTyped, handVars, books
<1>5. BetsArePlayed' /\ MembersArePlayed' /\ MovedBets'
  BY <1>1, <1>3 DEF BetsArePlayed, MembersArePlayed, MovedBets, Sidelined
<1>6. Control' /\ Resting' /\ TwoInHand' /\ TurnInHand'
  BY <1>1, <1>3 DEF Control, Resting, TwoInHand, TurnInHand, handVars,
     Streets
<1>7. BookedIsPlayed'
  BY <1>1 DEF BookedIsPlayed, books
<1> QED
  BY <1>4, <1>5, <1>6, <1>7

\* The bet of a member who leaves goes to the first pot.
LEMMA ReleaseKeeps ==
    ASSUME IInv, Release
    PROVE  IInv'
<1> USE DEF IInv
<1>1. /\ UNCHANGED <<status, chips, balance, mv, at, state, minBet,
                     minimum_raise, keycount, then, books>>
      /\ pc = "released" /\ pc' = "free" /\ leaving' = NoSeat
      /\ failed = "no"
  BY DEF Release
<1>2. /\ bets' \in [Seats -> Nat]
      /\ \A s \in Seats : bets'[s] \in {bets[s], 0}
      /\ \A s \in Seats : s # leaving => bets'[s] = bets[s]
  <2>1. CASE leaving = NoSeat
    BY <2>1 DEF Release, Typed, PotsTyped
  <2>2. CASE leaving # NoSeat
    <3>1. bets' = [bets EXCEPT ![leaving] = 0]
      BY <2>2 DEF Release
    <3>2. bets \in [Seats -> Nat]
      BY DEF Typed, PotsTyped
    <3> QED
      BY <3>1, <3>2
  <2> QED
    BY <2>1, <2>2
<1>3. /\ pots' \in Seq(Pots) /\ DOMAIN pots' = DOMAIN pots
      /\ \A i \in DOMAIN pots : pots'[i].members = pots[i].members
  <2>1. CASE leaving = NoSeat
    BY <2>1 DEF Release, Typed, PotsTyped
  <2>2. CASE leaving # NoSeat
    <3> DEFINE p == [pots[1] EXCEPT !.value = @ + bets[leaving]]
    <3>1. pots' = [pots EXCEPT ![1] = p]
      BY <2>2 DEF Release
    <3>2. /\ pots \in Seq(Pots) /\ Len(pots) \in Nat
          /\ DOMAIN pots = 1..Len(pots)
          /\ bets[leaving] \in Nat
      BY <2>2 DEF Typed, PotsTyped
    <3>3. CASE 1 \in DOMAIN pots
      <4>1. pots[1] \in Pots
        BY <3>2, <3>3
      <4>2. p \in Pots /\ p.members = pots[1].members
        BY <3>2, <4>1 DEF Pots
      <4> HIDE DEF p
      <4> QED
        BY <3>1, <3>2, <3>3, <4>2, ExceptSeq
    <3>4. CASE 1 \notin DOMAIN pots
      <4> HIDE DEF p
      <4>1. pots' = pots
        <5>1. pots = [i \in DOMAIN pots |-> pots[i]]
          BY <3>2
        <5> QED
          BY <3>1, <3>4, <5>1
      <4> QED
        BY <3>2, <4>1
    <3> QED
      BY <3>3, <3>4
  <2> QED
    BY <2>1, <2>2
<1>4. /\ dealer' \in {-1, dealer} /\ current_seat' \in {-1, current_seat}
      /\ InHand # {} => current_seat' = current_seat
  <2>1. InHand # {} => \E s \in Seats : status[s] # "empty"
    BY DEF InHand
  <2> QED
    BY <2>1 DEF Release
<1>5. Typed'
  <2>1. PotsTyped'
    BY <1>1, <1>2, <1>3 DEF Typed, PotsTyped
  <2>2. pc' \in Pcs
    BY <1>1 DEF Pcs
  <2> QED
    BY <1>1, <1>4, <2>1, <2>2 DEF Typed, GameTyped, books
<1>6. BetsArePlayed' /\ MembersArePlayed'
  BY <1>1, <1>2, <1>3 DEF BetsArePlayed, MembersArePlayed, Sidelined
<1>7. MovedBets' /\ Control'
  BY <1>1 DEF MovedBets, Control
<1>8. Resting'
  BY <1>1, <1>2, <1>3 DEF Resting
<1>9. TwoInHand' /\ TurnInHand'
  <2>1. state \in Streets => InHandCount >= 2
    BY <1>1 DEF TwoInHand
  <2>2. state \in Streets => current_seat' \in InHand
    BY <1>1, <1>4, <2>1, InHandSome DEF TurnInHand
  <2>3. InHand' = InHand /\ InHandCount' = InHandCount
    BY <1>1 DEF InHand, InHandCount
  <2> QED
    BY <1>1, <2>1, <2>2, <2>3 DEF TwoInHand, TurnInHand
<1>10. BookedIsPlayed'
  <2>1. \A s \in Seats : s # NoSeat
    BY NAssumption DEF Seats, NoSeat
  <2>2. \A s \in Seats : status[s] # "empty" => bets'[s] = bets[s]
    BY <1>2, <2>1 DEF Control
  <2> QED
    BY <1>1, <2>2 DEF BookedIsPlayed, books
<1> QED
  BY <1>5, <1>6, <1>7, <1>8, <1>9, <1>10

-----------------------------------------------------------------------------
\* What players and clocks do.

\* A bet that is accepted is covered by the stack of the seat.
LEMMA PutChipsKeeps ==
    ASSUME IInv, NEW s \in Seats, NEW bet \in Nat, PutChips(s, bet)
    PROVE  IInv'
<1> USE DEF IInv
<1>1. /\ UNCHANGED <<leaving, pots, balance, mv, at, failed, state, dealer,
                     current_seat, then, rake, away, staked>>
      /\ pc = "free" /\ pc' = "machine" /\ failed = "no"
      /\ state \in Streets /\ s = current_seat
      /\ keycount' = keycount - 1 /\ acted' = acted \cup {s}
  BY DEF PutChips, Free
<1>2. /\ status' \in {status, [status EXCEPT ![s] = "psAllIn"]}
      /\ bets' = [bets EXCEPT ![s] = bet]
      /\ chips' = [chips EXCEPT ![s] = @ - (bet - bets[s])]
      /\ minimum_raise' \in Int /\ minBet' \in {bet, minBet}
      /\ minimum_raise' = IF bet > minBet THEN bet - minBet ELSE minimum_raise
      /\ bet - bets[s] <= chips[s]
  BY DEF PutChips, Accepted, Typed, GameTyped
<1>3. s \in InHand
  BY <1>1 DEF TurnInHand
<1>4. Typed'
  <2>1. minimum_raise' \in Nat /\ minBet' \in Nat
    BY <1>2 DEF Typed, GameTyped
  <2>2. /\ bets \in [Seats -> Nat] /\ chips \in [Seats -> Nat]
        /\ status \in [Seats -> Statuses] /\ "psAllIn" \in Statuses
    BY DEF Typed, PotsTyped, Statuses
  <2>3. /\ bets' \in [Seats -> Nat] /\ chips' \in [Seats -> Nat]
        /\ status' \in [Seats -> Statuses]
    BY <1>2, <2>2
  <2>4. PotsTyped'
    BY <1>1, <2>3 DEF Typed, PotsTyped
  <2>5. pc' \in Pcs
    BY <1>1 DEF Pcs
  <2> QED
    BY <1>1, <2>1, <2>4, <2>5 DEF Typed, GameTyped
<1>5. /\ \A x \in Seats : status'[x] \in {status[x], "psAllIn"}
      /\ \A x \in Seats : x # s => status'[x] = status[x] /\ bets'[x] = bets[x]
      /\ InHand' = InHand
  BY <1>2, <1>3 DEF InHand, Typed, PotsTyped
<1>6. Sidelined' = Sidelined /\ s \notin Sidelined
  BY <1>3, <1>5 DEF Sidelined, InHand
<1>7. BetsArePlayed' /\ MembersArePlayed' /\ MovedBets'
  BY <1>1, <1>5, <1>6
     DEF BetsArePlayed, MembersArePlayed, MovedBets, Sidelined, Control
<1>8. Control'
  BY <1>1, <1>3, <1>5 DEF Control, InHand, Typed, PotsTyped
<1>9. Resting' /\ TwoInHand' /\ TurnInHand'
  BY <1>1, <1>5 DEF Resting, TwoInHand, TurnInHand, InHandCount
<1>10. BookedIsPlayed'
  <2>1. \A x \in Seats : chips[x] \in Nat /\ bets[x] \in Nat
                          /\ balance[x] \in Int
    BY DEF Typed, PotsTyped, GameTyped
  <2>2. bets'[s] = bet /\ chips'[s] = chips[s] - (bet - bets[s])
        /\ status[s] # "empty"
    BY <1>2, <1>3 DEF InHand, Typed, PotsTyped
  <2>3. \A x \in Seats : x # s => chips'[x] = chips[x] /\ bets'[x] = bets[x]
                                     /\ status'[x] = status[x]
    BY <1>2, <1>5 DEF Typed, PotsTyped
  <2>4. ASSUME NEW x \in Seats, status[x] # "empty"
        PROVE  chips'[x] + bets'[x] - balance[x] = chips[x] + bets[x] - balance[x]
    BY <2>1, <2>2, <2>3
  <2>5. \A x \in Seats : status'[x] # "empty" => status[x] # "empty"
    BY <2>2, <2>3
  <2> QED
    BY <1>1, <2>4, <2>5 DEF BookedIsPlayed
<1> QED
  BY <1>4, <1>7, <1>8, <1>9, <1>10

\* A seat that is folded is in the hand, and two or more are left unless the
\* hand is over.
LEMMA FoldSeatKeeps ==
    ASSUME IInv, Free, state \in Streets, NEW s \in Seats, s \in InHand,
           NEW st, FoldSeat(s, st),
           st \in {status, [status EXCEPT ![s] = "empty"]},
           leaving' \in {leaving, s},
           leaving' = s => st[s] = "empty",
           UNCHANGED <<bets, balance, state, dealer, current_seat, minBet,
                       minimum_raise, then, rake, staked>>,
           chips' \in {chips, [chips EXCEPT ![s] = 0]},
           st = status => chips' = chips,
           away' \in [Seats -> Int],
           acted' \in SUBSET Seats
    PROVE  IInv'
<1> USE DEF IInv
<1> DEFINE left == {x \in Seats \ {s} : st[x] \in {"psInHand", "psAllIn"}}
<1>1. /\ status' = IF st[s] = "empty" THEN st
                   ELSE [st EXCEPT ![s] = "psFolded"]
      /\ pots' = [i \in DOMAIN pots |-> [pots[i] EXCEPT !.members = @ \ {s}]]
  BY DEF FoldSeat
<1>2. /\ status' \in [Seats -> Statuses]
      /\ status'[s] \in {"empty", "psFolded"}
      /\ \A x \in Seats : x # s => status'[x] = status[x]
      /\ status'[s] = "empty" <=> st # status
  BY <1>1 DEF Typed, PotsTyped, Statuses, InHand
<1>3. InHand' = left /\ left = InHand \ {s}
  BY <1>2 DEF InHand, Typed, PotsTyped
<1>4. /\ pots' \in Seq(Pots) /\ DOMAIN pots' = DOMAIN pots
      /\ \A i \in DOMAIN pots : pots'[i].members \subseteq pots[i].members
  <2>1. pots \in Seq(Pots) /\ Len(pots) \in Nat /\ DOMAIN pots = 1..Len(pots)
    BY DEF Typed, PotsTyped
  <2>2. \A i \in DOMAIN pots :
           /\ [pots[i] EXCEPT !.members = @ \ {s}] \in Pots
           /\ [pots[i] EXCEPT !.members = @ \ {s}].members
                 = pots[i].members \ {s}
    <3>1. \A i \in DOMAIN pots : pots[i] \in Pots
      BY <2>1
    <3> QED
      BY <3>1 DEF Pots
  <2>4. pots' \in [1..Len(pots) -> Pots]
    BY <1>1, <2>1, <2>2
  <2>5. pots' \in Seq(Pots)
    BY <2>1, <2>4, SeqDef
  <2> QED
    BY <1>1, <2>1, <2>2, <2>5
<1>5. \/ /\ left = {} /\ failed' = "nobodyLeft"
         /\ UNCHANGED <<pc, mv, at, keycount>>
      \/ /\ pc' = "showdown" /\ mv' = "pass" /\ at' = 1
         /\ UNCHANGED <<failed, keycount>>
      \/ /\ left # {} /\ Cardinality(left) # 1 /\ keycount' = keycount - 1
         /\ pc' = IF s = current_seat THEN "machine" ELSE "released"
         /\ UNCHANGED <<failed, mv, at>>
  BY DEF FoldSeat
<1> HIDE DEF left
<1>6. pc = "free" /\ failed = "no" /\ mv = "none"
  BY DEF Free, Control, Typed, PotsTyped
<1>7. Typed'
  <2>1. chips' \in [Seats -> Nat] /\ leaving' \in Seats \cup {NoSeat}
    BY DEF Typed, PotsTyped
  <2>2. at' \in Nat \ {0} /\ mv' \in {"none", "pass", "merge", "return"}
    BY <1>5 DEF Typed, PotsTyped
  <2>3. PotsTyped'
    BY <1>2, <1>4, <2>1, <2>2 DEF Typed, PotsTyped
  <2>4. pc' \in Pcs /\ keycount' \in Int
    BY <1>5 DEF Pcs, Typed, GameTyped
  <2> QED
    BY <2>3, <2>4 DEF Typed, GameTyped
<1>8. Sidelined' = Sidelined
  BY <1>2 DEF Sidelined, InHand
<1>9. BetsArePlayed' /\ MembersArePlayed' /\ MovedBets'
  BY <1>4, <1>5, <1>6, <1>8
     DEF BetsArePlayed, MembersArePlayed, MovedBets
<1>10. Control' /\ Resting'
  <2>1. leaving' # NoSeat => status'[leaving'] = "empty"
    <3>1. CASE leaving' = s
      BY <1>1, <3>1
    <3>2. CASE leaving' = leaving /\ leaving # s
      BY <1>2, <3>2 DEF Control, Typed, PotsTyped
    <3> QED
      BY <3>1, <3>2
  <2> QED
    BY <1>5, <1>6, <2>1 DEF Control, Resting
<1>11. TwoInHand' /\ TurnInHand'
  <2>1. CASE left = {} /\ failed' = "nobodyLeft"
    BY <2>1 DEF TwoInHand, TurnInHand
  <2>2. CASE pc' = "showdown"
    BY <2>2 DEF TwoInHand, TurnInHand
  <2>3. CASE /\ left # {} /\ Cardinality(left) # 1
             /\ pc' = IF s = current_seat THEN "machine" ELSE "released"
    <3>1. left \in SUBSET Seats
      BY DEF left
    <3>2. Cardinality(left) \in Nat /\ Cardinality(left) # 0
      BY <2>3, <3>1, SeatsFinite, FS_EmptySet
    <3>3. InHandCount' >= 2
      BY <1>3, <2>3, <3>2 DEF InHandCount
    <3>4. current_seat \in InHand
      BY <1>6 DEF TurnInHand
    <3>5. pc' = "released" => current_seat' \in InHand'
      BY <1>3, <2>3, <3>4
    <3> QED
      BY <2>3, <3>3, <3>5 DEF TwoInHand, TurnInHand
  <2> QED
    BY <1>5, <2>1, <2>2, <2>3
<1>12. BookedIsPlayed'
  <2>1. \A x \in Seats : status'[x] # "empty" =>
           status[x] # "empty" /\ chips'[x] = chips[x]
    BY <1>2 DEF InHand, Typed, PotsTyped
  <2> QED
    BY <2>1 DEF BookedIsPlayed
<1> QED
  BY <1>7, <1>9, <1>10, <1>11, <1>12

LEMMA FoldInTurnKeeps ==
    ASSUME IInv, NEW s \in Seats, FoldInTurn(s)
    PROVE  IInv'
<1>1. s \in InHand
  BY DEF FoldInTurn, IInv, TurnInHand, Free
<1>2. away' \in [Seats -> Int] /\ acted' \in SUBSET Seats
  BY DEF FoldInTurn, IInv, Typed, GameTyped
<1>3. leaving' = s => status[s] = "empty"
  <2>1. leaving' = leaving /\ s # NoSeat
    BY NAssumption DEF FoldInTurn, Seats, NoSeat
  <2> QED
    BY <2>1 DEF IInv, Control
<1> QED
  BY <1>1, <1>2, <1>3, FoldSeatKeeps DEF FoldInTurn

LEMMA StandUpKeeps ==
    ASSUME IInv, NEW s \in Seats, StandUp(s)
    PROVE  IInv'
<1> USE DEF IInv
<1> DEFINE st == [status EXCEPT ![s] = "empty"]
<1>1. /\ Free /\ status[s] # "empty"
      /\ chips' = [chips EXCEPT ![s] = 0] /\ leaving' = s
      /\ away' = [away EXCEPT ![s] = @ + chips[s]]
      /\ UNCHANGED <<bets, balance, state, dealer, current_seat, minBet,
                     minimum_raise, then, rake, staked, acted>>
  BY DEF StandUp
<1>2. /\ away' \in [Seats -> Int] /\ acted' \in SUBSET Seats
      /\ st[s] = "empty" /\ st # status /\ st \in [Seats -> Statuses]
      /\ \A x \in Seats : x # s => st[x] = status[x]
  <2>1. /\ status \in [Seats -> Statuses] /\ chips[s] \in Nat
        /\ away \in [Seats -> Int] /\ acted \in SUBSET Seats
        /\ "empty" \in Statuses
    BY DEF Typed, PotsTyped, GameTyped, Statuses
  <2>2. /\ st[s] = "empty" /\ st \in [Seats -> Statuses]
        /\ \A x \in Seats : x # s => st[x] = status[x]
    BY <2>1
  <2>3. st # status
    BY <1>1, <2>2
  <2>4. away' \in [Seats -> Int] /\ acted' \in SUBSET Seats
    BY <1>1, <2>1
  <2> QED
    BY <2>2, <2>3, <2>4
<1>3. CASE state \in Streets /\ s \in InHand
  <2>1. FoldSeat(s, st)
    BY <1>3 DEF StandUp
  <2> QED
    BY <1>1, <1>2, <1>3, <2>1, FoldSeatKeeps
<1>4. CASE ~ (state \in Streets /\ s \in InHand)
  <2>1. /\ status' = st /\ keycount' = keycount - 1 /\ pc' = "released"
        /\ UNCHANGED <<pots, failed, mv, at>>
    BY <1>4 DEF StandUp
  <2> HIDE DEF st
  <2>2. Typed'
    <3>1. PotsTyped'
      BY <1>1, <1>2, <2>1 DEF Typed, PotsTyped
    <3>2. pc' \in Pcs
      BY <2>1 DEF Pcs
    <3> QED
      BY <1>1, <1>2, <2>1, <3>1, <3>2 DEF Typed, GameTyped
  <2>3. BetsArePlayed' /\ MembersArePlayed' /\ MovedBets'
    BY <1>1, <1>2, <2>1
       DEF BetsArePlayed, MembersArePlayed, MovedBets, Sidelined
  <2>4. Control' /\ Resting'
    BY <1>1, <1>2, <2>1 DEF Control, Resting, Free
  <2>5. TwoInHand' /\ TurnInHand'
    <3>1. CASE state \in Streets
      <4>1. InHand' = InHand /\ InHandCount' = InHandCount
        BY <1>2, <1>4, <2>1, <3>1 DEF InHand, InHandCount
      <4> QED
        BY <1>1, <2>1, <4>1 DEF TwoInHand, TurnInHand, Free
    <3>2. CASE state \notin Streets
      BY <1>1, <3>2 DEF TwoInHand, TurnInHand
    <3> QED
      BY <3>1, <3>2
  <2>6. BookedIsPlayed'
    <3>1. \A x \in Seats : x # s => chips'[x] = chips[x]
      BY <1>1 DEF Typed, PotsTyped
    <3> QED
      BY <1>1, <1>2, <2>1, <3>1 DEF BookedIsPlayed
  <2> QED
    BY <2>2, <2>3, <2>4, <2>5, <2>6
<1> QED
  BY <1>3, <1>4

\* A bounded set of numbers has a greatest one, and Max is it.
LEMMA MaxIsGreatest ==
    ASSUME NEW S \in SUBSET Nat, S # {}, NEW b \in Nat, \A x \in S : x <= b
    PROVE  Max(S) \in S /\ \A x \in S : x <= Max(S)
BY MaxExists DEF Max

\* A blind is covered by the stack, and not above the big blind.
LEMMA BlindIsCovered ==
    ASSUME IInv, NEW s \in Seats
    PROVE  LET due == Dealing!BlindDue(DealtTable, s, SmallBlind, BigBlind)
           IN  due \in Nat /\ due <= chips[s] /\ due <= BigBlind
<1>1. /\ SmallBlind \in Nat /\ BigBlind \in Nat /\ SmallBlind <= BigBlind
      /\ chips[s] \in Nat /\ DealtTable.chips = chips
  BY BettingAssumption DEF DealtTable, IInv, Typed, PotsTyped
<1> QED
  BY <1>1 DEF Dealing!BlindDue

\* A deal takes nothing but blinds, and gives the turn to a seat it deals in.
LEMMA DealKeeps ==
    ASSUME IInv, Deal
    PROVE  IInv'
<1> USE DEF IInv
<1> DEFINE t == DealtTable
           dealt == Dealing!DealtIn(t)
           due == [s \in Seats |->
                     IF s \in dealt
                     THEN Dealing!BlindDue(t, s, SmallBlind, BigBlind) ELSE 0]
           status1 == [s \in Seats |->
                         IF s \in dealt
                         THEN IF due[s] = chips[s] THEN "psAllIn"
                              ELSE "psInHand"
                         ELSE SatOut[s]]
           chips1 == [s \in Seats |-> chips[s] - due[s]]
           turn == Dealing!NextSeat(Dealing!BigBlindSeat(t), dealt)
<1>1. /\ UNCHANGED <<leaving, mv, at, then, away, rake>>
      /\ pc \in {"free", "idle"} /\ pc' = "free"
      /\ state' = "tsPreFlop"
      /\ dealer' = Dealing!NewDealer(t)
      /\ failed' = IF Cardinality(dealt) > 1 THEN "no" ELSE "onePlayer"
      /\ status' = status1 /\ chips' = chips1 /\ bets' = due
      /\ pots' = <<EmptyPot>> /\ balance' = [s \in Seats |-> 0]
      /\ staked' = [s \in Seats |->
                      [dealt |-> chips[s],
                       short |-> status1[s] = "psAllIn", added |-> 0]]
      /\ minBet' = Max({minBet} \cup {due[s] : s \in Seats})
      /\ minimum_raise' = BigBlind /\ current_seat' = turn
      /\ keycount' = KeyCount(status1, chips1) /\ acted' = {}
  BY DEF Deal, Free
<1>2. /\ chips \in [Seats -> Nat] /\ SatOut \in [Seats -> Statuses]
      /\ \A s \in Seats : SatOut[s] = "empty" <=> status[s] = "empty"
  BY DEF SatOut, Typed, PotsTyped, Statuses
<1>3. /\ dealt \in SUBSET Seats
      /\ \A s \in dealt : status[s] # "empty"
  <2>1. /\ dealt \subseteq Dealing!Able(t)
        /\ Dealing!Able(t) \subseteq Seats
        /\ \A s \in Dealing!Able(t) : SatOut[s] # "empty"
    BY DEF Dealing!DealtIn, Dealing!Able, DealtTable, Dealing!Seats, Seats
  <2> QED
    BY <1>2, <2>1
<1>4. /\ due \in [Seats -> Nat]
      /\ \A s \in Seats : due[s] <= chips[s] /\ due[s] <= BigBlind
  <2>1. ASSUME NEW s \in Seats
        PROVE  /\ Dealing!BlindDue(t, s, SmallBlind, BigBlind) \in Nat
               /\ Dealing!BlindDue(t, s, SmallBlind, BigBlind) <= chips[s]
               /\ Dealing!BlindDue(t, s, SmallBlind, BigBlind) <= BigBlind
    BY BlindIsCovered
  <2>2. \A s \in Seats : chips[s] \in Nat /\ 0 <= BigBlind
    BY <1>2, BettingAssumption
  <2> HIDE DEF t, dealt
  <2> QED
    BY <2>1, <2>2
<1>5. t.dealer \in Seats \cup {-1}
  BY DEF DealtTable, Typed, GameTyped
<1> HIDE DEF t, dealt
<1>6. /\ status1 \in [Seats -> Statuses] /\ chips1 \in [Seats -> Nat]
      /\ \A s \in dealt : status1[s] \in {"psInHand", "psAllIn"}
      /\ \A s \in Seats \ dealt : due[s] = 0
      /\ \A s \in Seats : status1[s] = "empty" <=> status[s] = "empty"
  BY <1>2, <1>3, <1>4 DEF Statuses
<1> HIDE DEF due
<1>7. KeyCount(status1, chips1) \in Int
  <2> HIDE DEF status1, chips1
  <2>1. {s \in Seats : status1[s] = "psInHand" /\ chips1[s] > 0}
           \in SUBSET Seats
    OBVIOUS
  <2> QED
    BY <2>1, SeatsFinite DEF KeyCount
<1>8. Max({minBet} \cup {due[s] : s \in Seats}) \in Nat
  <2> DEFINE S == {minBet} \cup {due[s] : s \in Seats}
  <2>1. minBet \in Nat /\ BigBlind \in Nat
    BY BettingAssumption DEF Typed, GameTyped
  <2>2. S \in SUBSET Nat /\ S # {} /\ minBet + BigBlind \in Nat
        /\ \A x \in S : x <= minBet + BigBlind
    BY <1>4, <2>1
  <2> HIDE DEF S
  <2>3. Max(S) \in S
    BY <2>1, <2>2, MaxIsGreatest
  <2> QED
    BY <2>2, <2>3 DEF S
<1>9. turn \in Seats \cup {-1} /\ (dealt # {} => turn \in dealt)
  BY <1>3, <1>5, DealSeats, NextSeatType, NextSeatIn
<1> HIDE DEF turn
<1>10. EmptyPot \in Pots /\ EmptyPot.members = {}
  BY DEF EmptyPot, Pots
<1>11. /\ pots' \in Seq(Pots) /\ \A i \in DOMAIN pots' : pots'[i].members = {}
  BY <1>1, <1>10
<1> HIDE DEF status1, chips1
<1>12. Typed'
  <2>1. balance' \in [Seats -> Int]
    BY <1>1
  <2>2. PotsTyped'
    BY <1>1, <1>4, <1>6, <1>11, <2>1 DEF Typed, PotsTyped
  <2>3. dealer' \in Seats \cup {-1}
    BY <1>1, <1>5, DealSeats
  <2>4. pc' \in Pcs /\ state' \in States /\ minimum_raise' \in Nat
    BY <1>1, BettingAssumption DEF Pcs, States, Streets
  <2>5. minBet' \in Nat /\ keycount' \in Int /\ acted' \in SUBSET Seats
    BY <1>1, <1>7, <1>8
  <2>6. current_seat' \in Seats \cup {-1} /\ staked' \in [Seats -> Stakes]
    BY <1>1, <1>2, <1>4, <1>9 DEF Stakes
  <2>7. GameTyped'
    BY <1>1, <2>3, <2>4, <2>5, <2>6 DEF Typed, GameTyped
  <2> QED
    BY <2>2, <2>7 DEF Typed
<1>13. mv' = "none"
  BY <1>1 DEF Control, Typed, PotsTyped
<1>14. BetsArePlayed' /\ MembersArePlayed' /\ MovedBets'
  <2>1. \A s \in dealt : s \notin Sidelined'
    BY <1>1, <1>6 DEF Sidelined
  <2> QED
    BY <1>1, <1>6, <1>11, <1>13, <2>1
       DEF BetsArePlayed, MembersArePlayed, MovedBets, Sidelined
<1>15. Control' /\ Resting'
  BY <1>1, <1>6, <1>13 DEF Control, Resting, Streets, Typed, PotsTyped, NoSeat
<1>16. TwoInHand' /\ TurnInHand'
  <2>1. CASE Cardinality(dealt) > 1
    <3>1. dealt \subseteq InHand' /\ InHand' \in SUBSET Seats
      BY <1>1, <1>3, <1>6 DEF InHand
    <3>2. /\ IsFiniteSet(dealt) /\ Cardinality(dealt) \in Nat
          /\ IsFiniteSet(InHand') /\ Cardinality(InHand') \in Nat
      BY <1>3, <3>1, SeatsFinite
    <3>3. Cardinality(dealt) <= Cardinality(InHand')
      BY <3>1, <3>2, FS_Subset
    <3>4. InHandCount' >= 2
      BY <2>1, <3>2, <3>3 DEF InHandCount
    <3>5. dealt # {}
      BY <2>1, FS_EmptySet
    <3>6. current_seat' \in InHand'
      BY <1>1, <1>9, <3>1, <3>5
    <3> QED
      BY <3>4, <3>6 DEF TwoInHand, TurnInHand
  <2>2. CASE ~ (Cardinality(dealt) > 1)
    BY <1>1, <2>2 DEF TwoInHand, TurnInHand
  <2> QED
    BY <2>1, <2>2
<1>17. BookedIsPlayed'
  <2>1. ASSUME NEW s \in Seats
        PROVE  chips'[s] + bets'[s] - balance'[s]
                 = staked'[s].dealt + staked'[s].added
    <3>1. /\ chips'[s] = chips[s] - due[s] /\ bets'[s] = due[s]
          /\ balance'[s] = 0 /\ staked'[s].dealt = chips[s]
          /\ staked'[s].added = 0 /\ chips[s] \in Nat /\ due[s] \in Nat
      BY <1>1, <1>2, <1>4 DEF chips1
    <3> QED
      BY <3>1
  <2> QED
    BY <2>1 DEF BookedIsPlayed
<1> QED
  BY <1>12, <1>14, <1>15, <1>16, <1>17

-----------------------------------------------------------------------------
LEMMA ActKeeps ==
    ASSUME IInv, Act
    PROVE  IInv'
<1>1. PICK s \in Seats : \/ \E bet \in BetsTried(s) : PutChips(s, bet)
                         \/ Fold(s) \/ TimeOut(s)
  BY DEF Act
<1>2. minBet \in Nat /\ BetsTried(s) \subseteq Nat
  <2>1. minBet \in Nat /\ bets[s] + chips[s] \in Nat
    <3>1. minBet \in Nat /\ bets \in [Seats -> Nat] /\ chips \in [Seats -> Nat]
      BY DEF IInv, Typed, PotsTyped, GameTyped
    <3>2. s \in Seats
      OBVIOUS
    <3> QED
      BY <3>1, <3>2
  <2>2. BetSizes \subseteq Nat
    BY BettingAssumption
  <2> QED
    BY <2>1, <2>2 DEF BetsTried
<1>3. CASE \E bet \in BetsTried(s) : PutChips(s, bet)
  BY <1>2, <1>3, PutChipsKeeps
<1>4. CASE Fold(s)
  BY <1>4, FoldInTurnKeeps DEF Fold
<1>5. CASE TimeOut(s)
  BY <1>2, <1>5, PutChipsKeeps, FoldInTurnKeeps DEF TimeOut
<1> QED
  BY <1>1, <1>3, <1>4, <1>5

LEMMA LockedKeeps ==
    ASSUME IInv, Locked
    PROVE  IInv'
BY StateMachineKeeps, FinishKeeps, MoveToPotKeeps, DealStreetKeeps,
   CalcWinnersKeeps, PayPotKeeps, WinDoneKeeps, WaitForPlayersKeeps,
   DealKeeps, ReleaseKeeps DEF Locked

LEMMA StutterKeeps ==
    ASSUME IInv, UNCHANGED vars
    PROVE  IInv'
<1>1. UNCHANGED <<status, leaving, chips, bets, pots, balance, mv, at, failed,
                  state, dealer, current_seat, minBet, minimum_raise, keycount,
                  pc, then, rake, away, staked, acted>>
  BY DEF vars, potVars, gameVars, handVars, lockVars, books
<1>2. Typed'
  <2>1. PotsTyped'
    BY <1>1 DEF IInv, Typed, PotsTyped
  <2>2. GameTyped'
    BY <1>1 DEF IInv, Typed, GameTyped
  <2> QED
    BY <2>1, <2>2 DEF Typed
<1>3. BetsArePlayed' /\ MembersArePlayed' /\ MovedBets' /\ BookedIsPlayed'
  BY <1>1 DEF IInv, BetsArePlayed, MembersArePlayed, MovedBets, Sidelined,
     BookedIsPlayed
<1>4. Control' /\ Resting' /\ TwoInHand' /\ TurnInHand'
  BY <1>1 DEF IInv, Control, Resting, TwoInHand, TurnInHand, InHandCount,
     InHand
<1> QED
  BY <1>2, <1>3, <1>4 DEF IInv

\* Every step of a hand keeps the invariant.
LEMMA Invariance == Spec => []IInv
<1>1. ASSUME IInv, [Next]_vars PROVE IInv'
  <2>1. CASE Deal
    BY <1>1, <2>1, DealKeeps
  <2>2. CASE Act
    BY <1>1, <2>2, ActKeeps
  <2>3. CASE Leave
    BY <1>1, <2>3, StandUpKeeps DEF Leave
  <2>4. CASE Sit
    BY <1>1, <2>4, SitKeeps
  <2>5. CASE Buy
    BY <1>1, <2>5, AddOnKeeps DEF Buy
  <2>6. CASE EndHand
    BY <1>1, <2>6, HandOverKeeps DEF EndHand
  <2>7. CASE Locked
    BY <1>1, <2>7, LockedKeeps
  <2>8. CASE UNCHANGED vars
    BY <1>1, <2>8, StutterKeeps
  <2> QED
    BY <1>1, <2>1, <2>2, <2>3, <2>4, <2>5, <2>6, <2>7, <2>8 DEF Next
<1> QED
  BY <1>1, InitKeeps, PTL DEF Spec

\* The variables of game.js keep their types: no stack, bet or pot becomes
\* negative, and no seat is outside the table.
THEOREM BettingIsTyped == Spec => []TypeOK
<1>1. IInv => TypeOK
  BY DEF IInv, Typed, PotsTyped, GameTyped, Stakes, TypeOK
<1> QED
  BY <1>1, Invariance, PTL

\* Between two calls of a street, fold, standUp, putChips and stateMachine
\* have left the turn with a seat in the hand, and an opponent to it.
THEOREM TurnIsInHand == Spec => []SomebodyToAct
<1>1. IInv => SomebodyToAct
  BY DEF IInv, TwoInHand, TurnInHand, SomebodyToAct, Free
<1> QED
  BY <1>1, Invariance, PTL

\* What postWinSaveStats books to the user on a seat (statistics, and the
\* limit of a member of a club) is what the hand has done to the stack: setBet,
\* moveToPot, doWin, AddOn and standUp take or give no chip that is not
\* a bet or in balance_changes.
THEOREM BooksAgree == Spec => []BookedIsPlayed
<1>1. IInv => BookedIsPlayed
  BY DEF IInv
<1> QED
  BY <1>1, Invariance, PTL

-----------------------------------------------------------------------------
(***************************************************************************)
(* What becomes of a hand's claims, at a table of any size: when the bets  *)
(* have been moved nobody has a claim to a pot but the seats in the hand,  *)
(* and a seat that has all its chips in keeps its claims until the end.    *)
(***************************************************************************)

(***************************************************************************)
(* Claims.  A pass of moveToPot makes a seat that has folded a member of a *)
(* pot when nobody else has paid into it (pot.js), and leaves it to the    *)
(* last loop to give such a pot back.  That loop skips the pot behind one  *)
(* that it removes, so it must be known that there is one such pot at most *)
(* and that the loop has not passed it.                                    *)
(***************************************************************************)
Sole(pot) == Cardinality(pot.trueMembers) = 1

MembersPaid ==
    \A i \in DOMAIN pots : pots[i].members \subseteq pots[i].trueMembers

MembersInHand ==
    \A i \in DOMAIN pots : pots[i].members \subseteq InHand \/ Sole(pots[i])

OneSole ==
    \A i, j \in DOMAIN pots : Sole(pots[i]) /\ Sole(pots[j]) => i = j

SoleIsAhead ==
    /\ mv \in {"none", "pass"} => \A i \in DOMAIN pots : ~ Sole(pots[i])
    /\ mv = "return" => \A i \in DOMAIN pots : Sole(pots[i]) => i >= at

Claims == MembersPaid /\ MembersInHand /\ OneSole /\ SoleIsAhead

(***************************************************************************)
(* All in.  Such a seat has no chips, but when an uncalled bet has come    *)
(* back to it; and then nobody can bet any more.  So stateMachine, which   *)
(* passes over seats without chips, gives none of them the turn.           *)
(***************************************************************************)
BetsCovered == \A s \in Seats : bets[s] <= minBet

EvenPass ==
    pc = "street" /\ mv = "pass" =>
        \A c \in CanPlay, s \in InHand : bets[s] <= bets[c]

ReturnedAlone ==
    pc = "street" /\ mv \in {"merge", "return"} =>
        \A i \in DOMAIN pots : Sole(pots[i]) =>
            \A x \in pots[i].trueMembers :
                status[x] = "psAllIn" => CanPlay = {}

SomebodyCanPlay ==
    pc = "finish" \/ (pc = "street" /\ then = "finish") => CanPlay # {}

AllInIsSpent ==
    state \in Streets /\ pc # "showdown" =>
        \/ CanPlay = {}
        \/ \A s \in Seats : status[s] = "psAllIn" => chips[s] = 0

NoAllInAtRest ==
    state = "tsIdle" => \A s \in Seats : status[s] # "psAllIn"

TurnCanPlay ==
    failed = "no" /\ state \in Streets /\ pc \in {"free", "released"} =>
        \/ status[current_seat] = "psInHand"
        \/ state = "tsPreFlop" /\ current_seat \in Short

Turns ==
    /\ BetsCovered /\ EvenPass /\ ReturnedAlone /\ SomebodyCanPlay
    /\ AllInIsSpent /\ NoAllInAtRest /\ TurnCanPlay

HInv == Claims /\ Turns

-----------------------------------------------------------------------------
\* The steps of moveToPot.

\* The elements of a sequence without its i-th, and where they come from.
LEMMA WithoutInOrder ==
    ASSUME NEW S, NEW s \in Seq(S), NEW i \in 1..Len(s)
    PROVE  /\ DOMAIN Without(s, i) = 1..(Len(s) - 1)
           /\ \A j \in 1..(Len(s) - 1) :
                 Without(s, i)[j] = IF j < i THEN s[j] ELSE s[j + 1]
<1>1. Len(s) - 1 \in Nat
  OBVIOUS
<1> QED
  BY <1>1 DEF Without

\* A pot that seats pay into has nobody but seats in the hand as members, or
\* one payer.
LEMMA AddToPotClaims ==
    ASSUME PotsTyped, NEW pot \in Pots, NEW bet \in Nat,
           NEW who \in SUBSET Seats, who # {}, who \cap Sidelined = {},
           pot.members \subseteq InHand, pot.members \subseteq pot.trueMembers
    PROVE  LET filled == AddToPot(pot, bet, who)
           IN  /\ filled.trueMembers = pot.trueMembers \cup who
               /\ filled.members \subseteq filled.trueMembers
               /\ filled.members \subseteq InHand \/ Sole(filled)
               /\ Sole(filled) => filled.trueMembers = who
<1> DEFINE shown == pot.members
                      \cup {s \in who : status[s] \notin {"empty", "psFolded"}}
           true == pot.trueMembers \cup who
           filled == AddToPot(pot, bet, who)
<1>1. /\ filled.trueMembers = true
      /\ filled.members = IF shown = {} /\ Cardinality(true) = 1
                          THEN true ELSE shown
  BY DEF AddToPot
<1>2. shown \subseteq InHand /\ shown \subseteq true
  BY DEF PotsTyped, Statuses, Sidelined, InHand
<1>3. Cardinality(true) = 1 => true = who
  <2>1. true \in SUBSET Seats
    BY DEF Pots
  <2> SUFFICES ASSUME Cardinality(true) = 1 PROVE true = who
    OBVIOUS
  <2>2. PICK x : true = {x}
    BY <2>1, SeatsFinite, FS_Singleton
  <2> QED
    BY <2>2
<1> QED
  BY <1>1, <1>2, <1>3 DEF Sole

LEMMA EmptyPotClaims ==
    /\ EmptyPot \in Pots /\ EmptyPot.members = {}
    /\ EmptyPot.trueMembers = {} /\ ~ Sole(EmptyPot)
<1>1. Cardinality({}) = 0
  BY FS_EmptySet
<1> QED
  BY <1>1 DEF EmptyPot, Pots, Sole

\* A pass adds one pot with a single payer at most, and is then the last.
LEMMA MovePassClaims ==
    ASSUME MoveInv, Claims, MovePass
    PROVE  /\ Claims'
           /\ \A i \in DOMAIN pots' :
                 Sole(pots'[i]) => pots'[i].trueMembers = Bettors
<1> USE DEF MoveInv, Claims
<1>1. /\ UNCHANGED <<status, leaving, chips>> /\ mv = "pass" /\ at' = 1
      /\ \A i \in DOMAIN pots : ~ Sole(pots[i])
      /\ InHand' = InHand
  BY DEF MovePass, SoleIsAhead, InHand
<1>2. CASE Bettors = {}
  <2>1. mv' = "merge" /\ pots' = pots
    BY <1>2 DEF MovePass
  <2> QED
    BY <1>1, <2>1 DEF MembersPaid, MembersInHand, OneSole, SoleIsAhead
<1>3. CASE Bettors # {}
  <2> DEFINE min == Lowest({bets[s] : s \in Bettors})
             last == pots[Len(pots)]
             pot == AddToPot(last, min, Bettors)
             filled == [pots EXCEPT ![Len(pots)] = pot]
  <2>1. /\ pots' = Append(filled, EmptyPot)
        /\ mv' = IF \A s \in Bettors : bets[s] = min THEN "merge" ELSE "pass"
    BY <1>3 DEF MovePass
  <2>2. /\ Bettors \in SUBSET Seats /\ Bettors \cap Sidelined = {}
        /\ {bets[s] : s \in Bettors} \in SUBSET Nat
        /\ {bets[s] : s \in Bettors} # {}
    <3>1. \A s \in Seats : bets[s] \in Nat
      BY DEF PotsTyped
    <3> QED
      BY <1>3, <3>1 DEF Bettors, BetsArePlayed
  <2>3. /\ min \in Nat /\ min \in {bets[s] : s \in Bettors}
    BY <2>2, LowestIsLeast
  <2>4. pots \in Seq(Pots) /\ Len(pots) \in Nat /\ DOMAIN pots = 1..Len(pots)
    BY DEF PotsTyped
  <2>5. ASSUME Len(pots) # 0
        PROVE  /\ pot.members \subseteq pot.trueMembers
               /\ pot.members \subseteq InHand \/ Sole(pot)
               /\ Sole(pot) => pot.trueMembers = Bettors
    <3>1. Len(pots) \in DOMAIN pots /\ last \in Pots
      BY <2>4, <2>5
    <3>2. last.members \subseteq InHand /\ last.members \subseteq last.trueMembers
      BY <1>1, <3>1 DEF MembersPaid, MembersInHand
    <3> HIDE DEF last, min
    <3> QED
      BY <1>3, <2>2, <2>3, <3>1, <3>2, AddToPotClaims
  <2>6. \A s \in Bettors : Bettors = {s} => bets[s] = min
    BY <2>3
  <2>7. Sole(pot) /\ Len(pots) # 0 => mv' = "merge"
    <3>1. SUFFICES ASSUME Sole(pot), Len(pots) # 0 PROVE mv' = "merge"
      OBVIOUS
    <3>2. Cardinality(Bettors) = 1
      <4>1. pot.trueMembers = Bettors
        BY <2>5, <3>1
      <4> HIDE DEF pot
      <4> QED
        BY <3>1, <4>1 DEF Sole
    <3>3. PICK x : Bettors = {x}
      BY <2>2, <3>2, SeatsFinite, FS_Singleton
    <3> HIDE DEF min
    <3> QED
      BY <2>1, <2>6, <3>3
  <2> HIDE DEF min, last, pot
  <2>8. /\ Len(pots') = Len(pots) + 1 /\ DOMAIN pots' = 1..(Len(pots) + 1)
        /\ pots'[Len(pots) + 1] = EmptyPot
        /\ \A i \in 1..Len(pots) :
              pots'[i] = IF i = Len(pots) THEN pot ELSE pots[i]
    <3>1. /\ filled = [i \in 1..Len(pots) |->
                         IF i = Len(pots) THEN pot ELSE pots[i]]
      BY <2>4
    <3> DEFINE Any == Pots \cup {pot}
    <3>2. EmptyPot \in Any /\ pot \in Any /\ \A i \in 1..Len(pots) : pots[i] \in Any
      BY <2>4, EmptyPotClaims
    <3> HIDE DEF filled, Any
    <3>3. filled \in [1..Len(pots) -> Any]
      BY <3>1, <3>2
    <3>4. filled \in Seq(Any) /\ DOMAIN filled = 1..Len(pots)
      BY <2>4, <3>3, SeqDef
    <3>5. Len(filled) = Len(pots)
      <4>1. Len(filled) \in Nat /\ DOMAIN filled = 1..Len(filled)
        BY <3>4, LenProperties
      <4> QED
        BY <2>4, <3>4, <4>1, SameInterval
    <3>6. /\ Len(pots') = Len(filled) + 1
          /\ DOMAIN pots' = 1..(Len(filled) + 1)
          /\ pots'[Len(filled) + 1] = EmptyPot
          /\ \A i \in 1..Len(filled) : pots'[i] = filled[i]
      <4>1. pots' = Append(filled, EmptyPot)
        BY <2>1 DEF filled
      <4>2. pots' \in Seq(Any)
        BY <3>2, <3>4, <4>1, AppendProperties
      <4> QED
        BY <3>2, <3>4, <4>1, <4>2, AppendProperties, LenProperties
    <3> QED
      BY <3>1, <3>5, <3>6, Zenon
  <2>9. ASSUME NEW i \in DOMAIN pots'
        PROVE  \/ pots'[i] = EmptyPot
               \/ i = Len(pots) /\ Len(pots) # 0 /\ pots'[i] = pot
               \/ i \in DOMAIN pots /\ pots'[i] = pots[i]
    <3>1. i \in 1..(Len(pots) + 1)
      BY <2>8
    <3>2. i = Len(pots) + 1 \/ (i \in 1..Len(pots) /\ Len(pots) # 0)
      BY <2>4, <3>1
    <3> QED
      BY <2>4, <2>8, <3>2
  <2>10. MembersPaid' /\ MembersInHand'
    <3>1. ASSUME NEW i \in DOMAIN pots'
          PROVE  /\ pots'[i].members \subseteq pots'[i].trueMembers
                 /\ pots'[i].members \subseteq InHand \/ Sole(pots'[i])
      BY <2>5, <2>9, EmptyPotClaims DEF MembersPaid, MembersInHand
    <3> QED
      BY <1>1, <3>1 DEF MembersPaid, MembersInHand
  <2>11. \A i \in DOMAIN pots' : Sole(pots'[i]) =>
            i = Len(pots) /\ Len(pots) # 0 /\ pots'[i] = pot
    BY <1>1, <2>9, EmptyPotClaims
  <2>12. OneSole' /\ SoleIsAhead'
    BY <2>1, <2>7, <2>11 DEF OneSole, SoleIsAhead
  <2> QED
    BY <2>5, <2>10, <2>11, <2>12
<1> QED
  BY <1>2, <1>3

\* The members and payers of a pot stay what they are when pots are joined,
\* and no two pots become one.
LEMMA MergePotsClaims ==
    ASSUME MoveInv, Claims, MergePots
    PROVE  /\ Claims'
           /\ \A i \in DOMAIN pots' : \E k \in DOMAIN pots :
                 pots'[i].trueMembers = pots[k].trueMembers
<1> USE DEF MoveInv, Claims
<1>1. /\ UNCHANGED <<status, leaving, chips, bets, balance>>
      /\ mv = "merge" /\ InHand' = InHand
  BY DEF MergePots, InHand
<1>2. /\ pots \in Seq(Pots) /\ Len(pots) \in Nat
      /\ DOMAIN pots = 1..Len(pots) /\ at \in Nat \ {0}
  BY DEF PotsTyped
<1>3. CASE pots' = pots
  <2>1. mv' \in {"merge", "return"} /\ (mv' = "return" => at' = 1)
    BY <1>1, <1>3 DEF MergePots
  <2>2. \A i \in DOMAIN pots : i >= 1
    BY <1>2
  <2> QED
    BY <1>1, <1>3, <2>1, <2>2
       DEF MembersPaid, MembersInHand, OneSole, SoleIsAhead
<1>4. CASE pots' # pots
  <2> DEFINE p == [pots[at] EXCEPT !.value = @ + pots[at + 1].value]
             sum == [pots EXCEPT ![at] = p]
             old(i) == IF i < at + 1 THEN i ELSE i + 1
  <2>1. /\ mv' = "merge" /\ at < Len(pots)
        /\ pots' = Without(sum, at + 1)
    BY <1>1, <1>2, <1>4 DEF MergePots
  <2>2. at \in DOMAIN pots /\ at + 1 \in DOMAIN pots
    BY <1>2, <2>1
  <2>3. /\ p \in Pots /\ p.members = pots[at].members
        /\ p.trueMembers = pots[at].trueMembers
    <3>1. pots[at] \in Pots /\ pots[at + 1] \in Pots
      BY <1>2, <2>2
    <3> QED
      BY <3>1 DEF Pots
  <2> HIDE DEF p
  <2>4. /\ sum \in Seq(Pots) /\ Len(sum) = Len(pots)
        /\ \A i \in DOMAIN pots :
              /\ sum[i].members = pots[i].members
              /\ sum[i].trueMembers = pots[i].trueMembers
    BY <1>2, <2>2, <2>3, ExceptSeq
  <2> HIDE DEF sum
  <2>5. /\ DOMAIN pots' = 1..(Len(pots) - 1)
        /\ \A i \in 1..(Len(pots) - 1) :
              pots'[i] = IF i < at + 1 THEN sum[i] ELSE sum[i + 1]
    <3>1. at + 1 \in 1..Len(sum)
      BY <1>2, <2>2, <2>4
    <3> QED
      BY <2>1, <2>4, <3>1, WithoutInOrder
  <2>6. /\ \A i \in DOMAIN pots' : old(i) \in DOMAIN pots
        /\ \A i, j \in DOMAIN pots' : old(i) = old(j) => i = j
    BY <1>2, <2>5
  <2>7. \A i \in DOMAIN pots' :
           /\ pots'[i].members = pots[old(i)].members
           /\ pots'[i].trueMembers = pots[old(i)].trueMembers
    BY <1>2, <2>4, <2>5
  <2> HIDE DEF old
  <2>8. \A i \in DOMAIN pots' : Sole(pots'[i]) <=> Sole(pots[old(i)])
    BY <2>7 DEF Sole
  <2>9. MembersPaid' /\ MembersInHand'
    BY <1>1, <2>6, <2>7, <2>8 DEF MembersPaid, MembersInHand
  <2>10. OneSole' /\ SoleIsAhead'
    BY <2>1, <2>6, <2>8 DEF OneSole, SoleIsAhead
  <2> QED
    BY <2>6, <2>7, <2>9, <2>10
<1> QED
  BY <1>3, <1>4

\* The loop that gives pots back reaches the one with a single payer: the
\* pot it skips, behind that one, has more.
LEMMA ReturnPotClaims ==
    ASSUME MoveInv, Claims, ReturnPot
    PROVE  /\ Claims'
           /\ \A i \in DOMAIN pots' : \E k \in DOMAIN pots :
                 pots'[i].trueMembers = pots[k].trueMembers
<1> USE DEF MoveInv, Claims
<1>1. /\ UNCHANGED <<status, leaving, bets, mv>> /\ mv = "return"
      /\ at' = at + 1 /\ at <= Len(pots) /\ InHand' = InHand
  BY DEF ReturnPot, InHand
<1>2. /\ pots \in Seq(Pots) /\ Len(pots) \in Nat
      /\ DOMAIN pots = 1..Len(pots) /\ at \in Nat /\ at \in DOMAIN pots
      /\ \A i \in DOMAIN pots : Sole(pots[i]) => i >= at
  BY <1>1 DEF PotsTyped, SoleIsAhead
<1>3. CASE ~ Sole(pots[at])
  <2>1. pots' = pots
    BY <1>3 DEF ReturnPot, Sole
  <2>2. \A i \in DOMAIN pots : Sole(pots[i]) => i >= at + 1
    BY <1>2, <1>3
  <2> QED
    BY <1>1, <2>1, <2>2
       DEF MembersPaid, MembersInHand, OneSole, SoleIsAhead
<1>4. CASE Sole(pots[at])
  <2> DEFINE old(i) == IF i < at THEN i ELSE i + 1
  <2>1. pots' = Without(pots, at)
    BY <1>4 DEF ReturnPot, Sole
  <2>2. /\ DOMAIN pots' = 1..(Len(pots) - 1)
        /\ \A i \in 1..(Len(pots) - 1) :
              pots'[i] = IF i < at THEN pots[i] ELSE pots[i + 1]
    <3>1. at \in 1..Len(pots)
      BY <1>2
    <3> QED
      BY <1>2, <2>1, <3>1, WithoutInOrder
  <2>3. /\ \A i \in DOMAIN pots' : old(i) \in DOMAIN pots /\ old(i) # at
        /\ \A i \in DOMAIN pots' : pots'[i] = pots[old(i)]
    BY <1>2, <2>2
  <2> HIDE DEF old
  <2>4. \A i \in DOMAIN pots' : ~ Sole(pots'[i])
    BY <1>2, <1>4, <2>3 DEF OneSole
  <2>5. MembersPaid' /\ MembersInHand'
    BY <1>1, <2>3 DEF MembersPaid, MembersInHand
  <2> QED
    BY <2>3, <2>4, <2>5 DEF OneSole, SoleIsAhead
<1> QED
  BY <1>3, <1>4

\* A step of moveToPot in a hand.  When somebody can still bet, the bets are
\* equal, so the last pass takes from him too, and no bet is uncalled.
LEMMA MoveToPotHand ==
    ASSUME IInv, HInv, MoveToPot
    PROVE  HInv'
<1> USE DEF HInv, Turns
<1>1. /\ UNCHANGED <<status, leaving, state, current_seat, minBet, pc, then,
                     staked>>
      /\ pc \in {"street", "showdown"} /\ failed = "no"
      /\ InHand' = InHand /\ CanPlay' = CanPlay /\ Short' = Short
      /\ state \in Streets
  BY DEF MoveToPot, MoveStep, MovePass, MergePots, ReturnPot, gameVars,
     handVars, lockVars, books, IInv, Control, InHand, CanPlay, Short
<1>2. MoveInv
  BY DEF MoveInv, IInv, Typed
<1>3. SomebodyCanPlay' /\ NoAllInAtRest' /\ TurnCanPlay'
  BY <1>1 DEF SomebodyCanPlay, NoAllInAtRest, TurnCanPlay, Streets
<1>4. CanPlay \subseteq InHand /\ InHand \subseteq Seats
  BY DEF CanPlay, InHand
<1>5. bets \in [Seats -> Nat] /\ minBet \in Nat
  BY DEF IInv, Typed, PotsTyped, GameTyped
<1>6. CASE MovePass
  <2>1. /\ Claims'
        /\ \A i \in DOMAIN pots' :
              Sole(pots'[i]) => pots'[i].trueMembers = Bettors
    BY <1>2, <1>6, MovePassClaims
  <2>2. chips' = chips /\ mv = "pass"
    BY <1>6 DEF MovePass
  <2>3. \/ bets' = bets
        \/ \E min \in Nat :
              /\ \A s \in Bettors : min <= bets[s]
              /\ bets' = [s \in Seats |->
                            IF s \in Bettors THEN bets[s] - min ELSE bets[s]]
    <3>1. CASE Bettors = {}
      BY <1>6, <3>1 DEF MovePass
    <3>2. CASE Bettors # {}
      <4>1. /\ {bets[s] : s \in Bettors} \in SUBSET Nat
            /\ {bets[s] : s \in Bettors} # {}
        BY <1>5, <3>2 DEF Bettors
      <4>2. /\ Lowest({bets[s] : s \in Bettors}) \in Nat
            /\ \A s \in Bettors : Lowest({bets[x] : x \in Bettors}) <= bets[s]
        BY <4>1, LowestIsLeast
      <4> QED
        BY <1>6, <3>2, <4>2 DEF MovePass
    <3> QED
      BY <3>1, <3>2
  <2>4. BetsCovered'
    BY <1>1, <1>5, <2>3 DEF BetsCovered
  <2>5. EvenPass'
    <3> SUFFICES ASSUME pc = "street",
                        NEW c \in CanPlay, NEW s \in InHand
                 PROVE  bets'[s] <= bets'[c]
      BY <1>1 DEF EvenPass
    <3>1. bets[s] <= bets[c] /\ bets[s] \in Nat /\ bets[c] \in Nat
      BY <1>4, <1>5, <2>2 DEF EvenPass
    <3>2. s \in Bettors => c \in Bettors
      BY <1>4, <3>1 DEF Bettors
    <3>3. s \notin Bettors => bets[s] = 0
      BY <1>4, <3>1 DEF Bettors
    <3> QED
      BY <1>4, <2>3, <3>1, <3>2, <3>3
  <2>6. ReturnedAlone'
    <3> SUFFICES ASSUME pc = "street",
                        NEW i \in DOMAIN pots', Sole(pots'[i]),
                        NEW x \in pots'[i].trueMembers,
                        status[x] = "psAllIn", NEW c \in CanPlay
                 PROVE  FALSE
      BY <1>1 DEF ReturnedAlone
    <3>1. x \in Bettors /\ Cardinality(Bettors) = 1
      BY <2>1 DEF Sole
    <3>2. x \in InHand /\ status[c] = "psInHand"
      BY <3>1 DEF Bettors, InHand, CanPlay
    <3>3. c \in Bettors
      <4>1. bets[x] <= bets[c]
        BY <2>2, <3>2 DEF EvenPass
      <4> QED
        BY <1>4, <1>5, <3>1, <4>1 DEF Bettors
    <3>4. Bettors \in SUBSET Seats
      BY DEF Bettors
    <3>5. PICK z : Bettors = {z}
      BY <3>1, <3>4, SeatsFinite, FS_Singleton
    <3> QED
      BY <3>1, <3>2, <3>3, <3>5
  <2>7. AllInIsSpent'
    BY <1>1, <2>2 DEF AllInIsSpent
  <2> QED
    BY <1>3, <2>1, <2>4, <2>5, <2>6, <2>7
<1>7. CASE MergePots
  <2>1. /\ Claims'
        /\ \A i \in DOMAIN pots' : \E k \in DOMAIN pots :
              pots'[i].trueMembers = pots[k].trueMembers
    BY <1>2, <1>7, MergePotsClaims
  <2>2. UNCHANGED <<chips, bets>> /\ mv = "merge" /\ mv' # "pass"
    BY <1>7 DEF MergePots
  <2>3. ReturnedAlone'
    BY <1>1, <2>1, <2>2 DEF ReturnedAlone, Sole
  <2>4. BetsCovered' /\ EvenPass' /\ AllInIsSpent'
    BY <1>1, <2>2 DEF BetsCovered, EvenPass, AllInIsSpent
  <2> QED
    BY <1>3, <2>1, <2>3, <2>4
<1>8. CASE ReturnPot
  <2>1. /\ Claims'
        /\ \A i \in DOMAIN pots' : \E k \in DOMAIN pots :
              pots'[i].trueMembers = pots[k].trueMembers
    BY <1>2, <1>8, ReturnPotClaims
  <2>2. UNCHANGED <<bets, mv>> /\ mv = "return" /\ at <= Len(pots)
    BY <1>8 DEF ReturnPot
  <2>3. ReturnedAlone'
    BY <1>1, <2>1, <2>2 DEF ReturnedAlone, Sole
  <2>4. BetsCovered' /\ EvenPass'
    BY <1>1, <2>2 DEF BetsCovered, EvenPass
  <2>5. AllInIsSpent'
    <3> SUFFICES ASSUME pc = "street", CanPlay # {},
                        NEW s \in Seats, status[s] = "psAllIn"
                 PROVE  chips'[s] = 0
      BY <1>1 DEF AllInIsSpent
    <3>1. chips \in [Seats -> Nat] /\ chips[s] = 0
      BY <1>1 DEF AllInIsSpent, IInv, Typed, PotsTyped
    <3>2. at \in DOMAIN pots /\ pots[at].members \in SUBSET Nat
      <4>1. /\ at \in Nat \ {0} /\ pots \in Seq(Pots) /\ Len(pots) \in Nat
            /\ DOMAIN pots = 1..Len(pots)
        BY DEF IInv, Typed, PotsTyped
      <4>2. at \in DOMAIN pots /\ pots[at] \in Pots
        BY <2>2, <4>1
      <4> QED
        BY <4>2 DEF Pots, Seats
    <3>3. CASE ~ Sole(pots[at])
      BY <1>8, <3>1, <3>3 DEF ReturnPot, Sole
    <3>4. CASE Sole(pots[at])
      <4>1. s \notin pots[at].trueMembers
        BY <2>2, <3>2, <3>4 DEF ReturnedAlone
      <4>2. s \notin pots[at].members
        BY <3>2, <4>1 DEF Claims, MembersPaid
      <4>3. s # IF pots[at].members = {} THEN NoSeat
                ELSE Lowest(pots[at].members)
        BY <3>2, <4>2, LowestIsLeast DEF NoSeat, Seats
      <4> QED
        BY <1>8, <3>1, <3>4, <4>3 DEF ReturnPot, Sole
    <3> QED
      BY <3>3, <3>4
  <2> QED
    BY <1>3, <2>1, <2>3, <2>4, <2>5
<1> QED
  BY <1>6, <1>7, <1>8 DEF MoveToPot, MoveStep

-----------------------------------------------------------------------------
\* What leaves the pots alone, and takes nobody out of the hand, keeps the
\* claims.
LEMMA ClaimsStay ==
    ASSUME Claims, UNCHANGED <<pots, mv>>, mv = "none",
           InHand \subseteq InHand'
    PROVE  Claims'
BY DEF Claims, MembersPaid, MembersInHand, OneSole, SoleIsAhead

\* Between two hands no pot has a member.
LEMMA NoClaimsAtRest ==
    ASSUME Claims, UNCHANGED <<pots, mv>>, mv = "none",
           \A i \in DOMAIN pots : pots[i].members = {}
    PROVE  Claims'
BY DEF Claims, MembersPaid, MembersInHand, OneSole, SoleIsAhead

LEMMA OneEmptyPot ==
    /\ DOMAIN <<EmptyPot>> = {1} /\ <<EmptyPot>>[1] = EmptyPot
    /\ EmptyPot.members = {} /\ EmptyPot.trueMembers = {}
    /\ ~ Sole(EmptyPot)
BY EmptyPotClaims

\* Outside moveToPot no pot has a single payer, so all members are in the hand.
LEMMA AllInHand ==
    ASSUME Claims,
           mv = "none" \/ (mv = "return" /\ at > Len(pots)),
           at \in Nat, Len(pots) \in Nat, DOMAIN pots = 1..Len(pots)
    PROVE  \A i \in DOMAIN pots :
              ~ Sole(pots[i]) /\ pots[i].members \subseteq InHand
<1>1. \A i \in DOMAIN pots : i \in Nat /\ i <= Len(pots)
  OBVIOUS
<1>2. \A i \in DOMAIN pots : ~ Sole(pots[i])
  BY <1>1 DEF Claims, SoleIsAhead
<1> QED
  BY <1>2 DEF Claims, MembersInHand

\* moveToPot runs between the lock and its release only.
LEMMA NotMoving ==
    ASSUME IInv, pc \notin {"street", "showdown"}
    PROVE  mv = "none"
BY DEF IInv, Control, Typed, PotsTyped

LEMMA InitHand == Init => HInv
<1> SUFFICES ASSUME Init PROVE HInv
  OBVIOUS
<1>1. Claims
  <2>1. pots = <<EmptyPot>> /\ mv = "none"
    BY DEF Init
  <2> QED
    BY <2>1, OneEmptyPot
       DEF Claims, MembersPaid, MembersInHand, OneSole, SoleIsAhead
<1>2. /\ \A s \in Seats : bets[s] = 0 /\ status[s] # "psAllIn"
      /\ minBet = 0 /\ state \notin Streets /\ pc = "free"
  BY DEF Init, Streets, Statuses
<1> QED
  BY <1>1, <1>2 DEF HInv, Turns, BetsCovered, EvenPass, ReturnedAlone,
     SomebodyCanPlay, AllInIsSpent, NoAllInAtRest, TurnCanPlay

LEMMA AddOnHand ==
    ASSUME IInv, HInv, NEW s \in Seats, NEW n \in Stacks, AddOn(s, n)
    PROVE  HInv'
<1> USE DEF HInv, Turns
<1>1. /\ UNCHANGED <<status, leaving, bets, pots, mv, at, failed, state,
                     current_seat, minBet, pc, then>>
      /\ pc = "free"
      /\ status[s] \in {"psOutOfPlay", "psFolded", "psOutOfHand"}
      /\ chips' = [chips EXCEPT ![s] = @ + n]
      /\ staked' = [staked EXCEPT ![s].added = @ + n]
  BY DEF AddOn, Free, handVars, lockVars
<1>2. \A x \in Seats : status[x] \in {"psInHand", "psAllIn"} =>
         chips'[x] = chips[x] /\ staked'[x] = staked[x]
  BY <1>1 DEF IInv, Typed, PotsTyped, GameTyped
<1>3. Claims'
  BY <1>1, ClaimsStay, NotMoving DEF InHand
<1>4. /\ BetsCovered' /\ EvenPass' /\ ReturnedAlone' /\ SomebodyCanPlay'
      /\ NoAllInAtRest'
  BY <1>1 DEF BetsCovered, EvenPass, ReturnedAlone, SomebodyCanPlay,
     NoAllInAtRest, CanPlay, InHand
<1>5. AllInIsSpent'
  BY <1>1, <1>2 DEF AllInIsSpent, CanPlay
<1>6. TurnCanPlay'
  <2>1. failed = "no" /\ state \in Streets => current_seat \in InHand
    BY <1>1 DEF IInv, TurnInHand
  <2> QED
    BY <1>1, <1>2, <2>1 DEF TurnCanPlay, Short, InHand
<1> QED
  BY <1>3, <1>4, <1>5, <1>6

\* Outside a street there is nobody who has the turn.
LEMMA NoTurns ==
    ASSUME BetsCovered', state' \notin Streets,
           pc' \notin {"street", "finish"},
           state' = "tsIdle" => \A s \in Seats : status'[s] # "psAllIn"
    PROVE  Turns'
BY DEF Turns, BetsCovered, EvenPass, ReturnedAlone, SomebodyCanPlay,
   AllInIsSpent, NoAllInAtRest, TurnCanPlay

LEMMA WaitForPlayersHand ==
    ASSUME IInv, HInv, WaitForPlayers
    PROVE  HInv'
<1>1. /\ UNCHANGED <<bets, pots, mv, at, minBet>> /\ status' = SatOut
      /\ pc = "idle" /\ pc' = "free" /\ state' = state
  BY DEF WaitForPlayers, handVars
<1>2. state = "tsIdle" /\ \A i \in DOMAIN pots : pots[i].members = {}
  BY <1>1 DEF IInv, Control, Resting, Streets
<1>3. \A s \in Seats : SatOut[s] # "psAllIn"
  BY <1>2 DEF SatOut, HInv, Turns, NoAllInAtRest
<1>4. Claims'
  BY <1>1, <1>2, NoClaimsAtRest, NotMoving DEF HInv
<1>5. Turns'
  BY <1>1, <1>2, <1>3, NoTurns DEF HInv, Turns, BetsCovered, Streets
<1> QED
  BY <1>4, <1>5 DEF HInv

LEMMA SitHand ==
    ASSUME IInv, HInv, Sit
    PROVE  HInv'
<1> USE DEF HInv, Turns
<1>1. PICK s \in Seats : PlayNow(s) \/ SitOut(s)
  BY DEF Sit
<1>2. /\ UNCHANGED <<leaving, chips, bets, pots, mv, at, failed, state,
                     current_seat, minBet, pc, then, staked>>
      /\ pc = "free"
      /\ \A x \in Seats : x # s => status'[x] = status[x]
      /\ status'[s] \in {"psOutOfHand", "psOutOfPlay"}
      /\ \/ status[s] \in {"psOutOfHand", "psOutOfPlay"}
         \/ status[s] = "psInHand" /\ state = "tsIdle"
  BY <1>1 DEF PlayNow, SitOut, Free, gameVars, handVars, lockVars, books,
     IInv, Typed, PotsTyped
<1>3. CASE state = "tsIdle"
  <2>1. \A i \in DOMAIN pots : pots[i].members = {}
    BY <1>2, <1>3 DEF IInv, Resting, Streets
  <2>2. Claims'
    BY <1>2, <2>1, NoClaimsAtRest, NotMoving
  <2>3. \A x \in Seats : status'[x] # "psAllIn"
    BY <1>2, <1>3 DEF NoAllInAtRest
  <2>4. Turns'
    BY <1>2, <1>3, <2>3, NoTurns DEF BetsCovered, Streets
  <2> QED
    BY <2>2, <2>4
<1>4. CASE state # "tsIdle"
  <2>1. InHand' = InHand /\ CanPlay' = CanPlay /\ Short' = Short
    BY <1>2, <1>4 DEF InHand, CanPlay, Short
  <2>2. Claims'
    BY <1>2, <2>1, ClaimsStay, NotMoving
  <2>3. BetsCovered' /\ EvenPass' /\ ReturnedAlone' /\ SomebodyCanPlay'
    BY <1>2 DEF BetsCovered, EvenPass, ReturnedAlone, SomebodyCanPlay
  <2>4. AllInIsSpent' /\ NoAllInAtRest'
    BY <1>2, <1>4, <2>1 DEF AllInIsSpent, NoAllInAtRest
  <2>5. TurnCanPlay'
    <3>1. failed = "no" /\ state \in Streets =>
             current_seat \in Seats /\ current_seat # s
      BY <1>2, <1>4 DEF IInv, TurnInHand, InHand
    <3> QED
      BY <1>2, <2>1, <3>1 DEF TurnCanPlay
  <2> QED
    BY <2>2, <2>3, <2>4, <2>5
<1> QED
  BY <1>3, <1>4

LEMMA HandOverHand ==
    ASSUME IInv, HInv, NEW out \in SUBSET Seats, HandOver(out)
    PROVE  HInv'
<1>1. /\ UNCHANGED <<bets, pots, mv, at, minBet>>
      /\ pc = "free" /\ pc' = "idle"
      /\ state = "tsWinning" /\ state' = "tsIdle"
  BY DEF HandOver, Free
<1>2. \A i \in DOMAIN pots : pots[i].members = {}
  BY <1>1 DEF IInv, Resting, Streets
<1>3. \A s \in Seats : status'[s] # "psAllIn"
  BY DEF HandOver
<1>4. Claims'
  BY <1>1, <1>2, NoClaimsAtRest, NotMoving DEF HInv
<1>5. Turns'
  BY <1>1, <1>3, NoTurns DEF HInv, Turns, BetsCovered, Streets
<1> QED
  BY <1>4, <1>5 DEF HInv

LEMMA PutChipsHand ==
    ASSUME IInv, HInv, NEW s \in Seats, NEW bet \in Nat, PutChips(s, bet)
    PROVE  HInv'
<1> USE DEF HInv, Turns
<1>1. /\ UNCHANGED <<leaving, pots, mv, at, failed, state, current_seat, then,
                     staked>>
      /\ pc = "free" /\ pc' = "machine" /\ state \in Streets
      /\ Accepted(s, bet) /\ s = current_seat
      /\ status' = IF bet - bets[s] = chips[s]
                   THEN [status EXCEPT ![s] = "psAllIn"] ELSE status
      /\ bets' = [bets EXCEPT ![s] = bet]
      /\ chips' = [chips EXCEPT ![s] = @ - (bet - bets[s])]
      /\ minBet' = IF bet > minBet THEN bet ELSE minBet
  BY DEF PutChips, Free
<1>2. /\ status \in [Seats -> Statuses] /\ chips \in [Seats -> Nat]
      /\ bets \in [Seats -> Nat] /\ minBet \in Nat
      /\ s \in InHand /\ mv = "none"
  BY <1>1, NotMoving
     DEF IInv, Typed, PotsTyped, GameTyped, TurnInHand, PutChips, Free
<1>3. /\ InHand' = InHand /\ CanPlay' \subseteq CanPlay
      /\ \A x \in Seats : x # s =>
            status'[x] = status[x] /\ chips'[x] = chips[x]
      /\ status'[s] = "psAllIn" => chips'[s] = 0 \/ status[s] = "psAllIn"
  BY <1>1, <1>2 DEF InHand, CanPlay
<1>4. status[s] = "psAllIn" /\ chips[s] = 0 => chips'[s] = 0
  <2>1. bet - bets[s] <= chips[s] /\ bets[s] <= bet
    BY <1>1 DEF Accepted
  <2> QED
    BY <1>1, <1>2, <2>1
<1>5. Claims'
  BY <1>1, <1>2, <1>3, ClaimsStay
<1>6. BetsCovered'
  BY <1>1, <1>2 DEF BetsCovered
<1>7. AllInIsSpent'
  BY <1>1, <1>3, <1>4 DEF AllInIsSpent
<1>8. EvenPass' /\ ReturnedAlone' /\ SomebodyCanPlay' /\ TurnCanPlay'
  BY <1>1 DEF EvenPass, ReturnedAlone, SomebodyCanPlay, TurnCanPlay
<1>9. NoAllInAtRest'
  BY <1>1 DEF NoAllInAtRest, Streets
<1> QED
  BY <1>5, <1>6, <1>7, <1>8, <1>9

\* A fold takes the seat's claims away, and gives the turn to nobody.
LEMMA FoldSeatHand ==
    ASSUME IInv, HInv, NEW s \in Seats, NEW st, s \in InHand,
           Free, state \in Streets, FoldSeat(s, st),
           st = status \/ st = [status EXCEPT ![s] = "empty"],
           \A x \in Seats : chips'[x] = chips[x] \/ x = s,
           UNCHANGED <<bets, state, current_seat, minBet, then, staked>>
    PROVE  HInv'
<1> USE DEF HInv, Turns
<1>1. /\ status \in [Seats -> Statuses] /\ pots \in Seq(Pots)
      /\ DOMAIN pots = 1..Len(pots) /\ Len(pots) \in Nat /\ at \in Nat
      /\ pc = "free" /\ failed = "no" /\ mv = "none"
      /\ status[s] # "empty"
  BY NotMoving DEF IInv, Typed, PotsTyped, Free, InHand
<1>2. /\ status'[s] \in {"empty", "psFolded"}
      /\ \A x \in Seats : x # s => status'[x] = status[x]
  BY <1>1 DEF FoldSeat
<1>3. InHand' = InHand \ {s} /\ CanPlay' \subseteq CanPlay
  BY <1>1, <1>2 DEF InHand, CanPlay
<1>4. /\ DOMAIN pots' = DOMAIN pots
      /\ \A i \in DOMAIN pots :
            /\ pots'[i].members = pots[i].members \ {s}
            /\ pots'[i].trueMembers = pots[i].trueMembers
  <2>1. pots' = [i \in DOMAIN pots |->
                   [pots[i] EXCEPT !.members = @ \ {s}]]
    BY DEF FoldSeat
  <2>2. \A i \in DOMAIN pots : pots[i] \in Pots
    BY <1>1
  <2> QED
    BY <2>1, <2>2 DEF Pots
<1>5. \/ failed' # "no" /\ pc' = "free" /\ mv' = "none"
      \/ pc' = "showdown" /\ mv' = "pass"
      \/ /\ mv' = "none" /\ pc' \in {"machine", "released"}
         /\ pc' = "released" => s # current_seat
  BY <1>1 DEF FoldSeat
<1>6. Claims'
  <2>1. \A i \in DOMAIN pots :
           ~ Sole(pots[i]) /\ pots[i].members \subseteq InHand
    BY <1>1, AllInHand
  <2>2. \A i \in DOMAIN pots' :
           ~ Sole(pots'[i]) /\ pots'[i].members \subseteq InHand'
    BY <1>3, <1>4, <2>1 DEF Sole
  <2>3. mv' # "return"
    BY <1>5
  <2>4. MembersPaid'
    BY <1>4 DEF Claims, MembersPaid
  <2> QED
    BY <2>2, <2>3, <2>4 DEF Claims, MembersInHand, OneSole, SoleIsAhead
<1>7. BetsCovered' /\ EvenPass' /\ ReturnedAlone' /\ SomebodyCanPlay'
  BY <1>5 DEF BetsCovered, EvenPass, ReturnedAlone, SomebodyCanPlay
<1>8. AllInIsSpent' /\ NoAllInAtRest'
  BY <1>1, <1>2, <1>3 DEF AllInIsSpent, NoAllInAtRest, Streets
<1>9. TurnCanPlay'
  <2>1. current_seat \in Seats
    BY <1>1 DEF IInv, TurnInHand, InHand
  <2> QED
    BY <1>1, <1>2, <1>5, <2>1 DEF TurnCanPlay, Short
<1> QED
  BY <1>6, <1>7, <1>8, <1>9

LEMMA FoldInTurnHand ==
    ASSUME IInv, HInv, NEW s \in Seats, FoldInTurn(s)
    PROVE  HInv'
<1>1. s \in InHand
  BY DEF FoldInTurn, IInv, TurnInHand, Free
<1> QED
  BY <1>1, FoldSeatHand DEF FoldInTurn

LEMMA StandUpHand ==
    ASSUME IInv, HInv, NEW s \in Seats, StandUp(s)
    PROVE  HInv'
<1> USE DEF HInv, Turns
<1> DEFINE st == [status EXCEPT ![s] = "empty"]
<1>1. /\ Free /\ chips' = [chips EXCEPT ![s] = 0]
      /\ UNCHANGED <<bets, state, current_seat, minBet, then, staked>>
  BY DEF StandUp
<1>2. /\ chips \in [Seats -> Nat] /\ status \in [Seats -> Statuses]
      /\ \A x \in Seats : chips'[x] = chips[x] \/ x = s
  BY <1>1 DEF IInv, Typed, PotsTyped
<1>3. CASE state \in Streets /\ s \in InHand
  <2>1. FoldSeat(s, st)
    BY <1>3 DEF StandUp
  <2> QED
    BY <1>1, <1>2, <1>3, <2>1, FoldSeatHand
<1>4. CASE ~ (state \in Streets /\ s \in InHand)
  <2>1. /\ status' = st /\ pc' = "released" /\ UNCHANGED <<pots, failed, mv>>
        /\ pc = "free" /\ failed = "no" /\ mv = "none"
    BY <1>1, <1>4, NotMoving DEF StandUp, Free
  <2>2. \A x \in Seats : x # s => status'[x] = status[x]
    BY <1>2, <2>1
  <2>3. status'[s] = "empty" /\ CanPlay' \subseteq CanPlay
    BY <1>2, <2>1, <2>2 DEF CanPlay
  <2>4. CASE state \in Streets
    <3>1. InHand' = InHand
      BY <1>4, <2>2, <2>3, <2>4 DEF InHand
    <3>2. Claims'
      BY <2>1, <3>1, ClaimsStay
    <3>3. BetsCovered' /\ EvenPass' /\ ReturnedAlone' /\ SomebodyCanPlay'
      BY <1>1, <2>1 DEF BetsCovered, EvenPass, ReturnedAlone, SomebodyCanPlay
    <3>4. AllInIsSpent' /\ NoAllInAtRest'
      BY <1>1, <1>2, <2>1, <2>2, <2>3, <2>4
         DEF AllInIsSpent, NoAllInAtRest, Streets
    <3>5. TurnCanPlay'
      <4>1. current_seat \in Seats /\ current_seat # s
        BY <1>4, <2>1, <2>4 DEF IInv, TurnInHand, InHand
      <4> QED
        BY <1>1, <2>1, <2>2, <4>1 DEF TurnCanPlay, Short
    <3> QED
      BY <3>2, <3>3, <3>4, <3>5
  <2>5. CASE state \notin Streets
    <3>1. \A i \in DOMAIN pots : pots[i].members = {}
      BY <2>1, <2>5 DEF IInv, Resting
    <3>2. Claims'
      BY <2>1, <3>1, NoClaimsAtRest
    <3>3. BetsCovered'
      BY <1>1 DEF BetsCovered
    <3>4. state' = "tsIdle" => \A x \in Seats : status'[x] # "psAllIn"
      BY <1>1, <2>2, <2>3 DEF NoAllInAtRest
    <3>5. Turns'
      BY <1>1, <2>1, <2>5, <3>3, <3>4, NoTurns
    <3> QED
      BY <3>2, <3>5
  <2> QED
    BY <2>4, <2>5
<1> QED
  BY <1>3, <1>4

LEMMA ReleaseHand ==
    ASSUME IInv, HInv, Release
    PROVE  HInv'
<1> USE DEF HInv, Turns
<1>1. /\ UNCHANGED <<status, chips, mv, at, state, minBet, then, staked>>
      /\ pc = "released" /\ pc' = "free" /\ failed = "no" /\ mv = "none"
  BY NotMoving DEF Release, books
<1>2. InHand' = InHand /\ CanPlay' = CanPlay /\ Short' = Short
  BY <1>1 DEF InHand, CanPlay, Short
<1>3. /\ bets \in [Seats -> Nat] /\ minBet \in Nat
      /\ pots \in Seq(Pots) /\ leaving \in Seats \cup {NoSeat}
  BY DEF IInv, Typed, PotsTyped, GameTyped
<1>4. /\ DOMAIN pots' = DOMAIN pots
      /\ \A i \in DOMAIN pots :
            /\ pots'[i].members = pots[i].members
            /\ pots'[i].trueMembers = pots[i].trueMembers
  <2>1. CASE leaving = NoSeat
    BY <2>1 DEF Release
  <2>2. CASE leaving # NoSeat
    <3>1. \A i \in DOMAIN pots : pots[i] \in Pots
      BY <1>3
    <3>2. pots' = [pots EXCEPT ![1].value = @ + bets[leaving]]
      BY <2>2 DEF Release
    <3>3. DOMAIN pots' = DOMAIN pots
      BY <3>2
    <3>4. \A i \in DOMAIN pots : i # 1 => pots'[i] = pots[i]
      BY <3>2
    <3>5. 1 \in DOMAIN pots =>
             pots'[1] = [pots[1] EXCEPT !.value = @ + bets[leaving]]
      BY <3>2
    <3>6. 1 \in DOMAIN pots => /\ pots'[1].members = pots[1].members
                               /\ pots'[1].trueMembers = pots[1].trueMembers
      BY <3>1, <3>5 DEF Pots
    <3> QED
      BY <3>3, <3>4, <3>6
  <2> QED
    BY <2>1, <2>2
<1>5. Claims'
  <2>1. \A i \in DOMAIN pots : Sole(pots'[i]) <=> Sole(pots[i])
    BY <1>4 DEF Sole
  <2> QED
    BY <1>1, <1>2, <1>4, <2>1
       DEF Claims, MembersPaid, MembersInHand, OneSole, SoleIsAhead
<1>6. BetsCovered'
  <2>1. bets' = bets \/ (leaving \in Seats
                           /\ bets' = [bets EXCEPT ![leaving] = 0])
    BY <1>3 DEF Release
  <2> QED
    BY <1>1, <1>3, <2>1 DEF BetsCovered
<1>7. EvenPass' /\ ReturnedAlone' /\ SomebodyCanPlay'
  BY <1>1 DEF EvenPass, ReturnedAlone, SomebodyCanPlay
<1>8. AllInIsSpent' /\ NoAllInAtRest'
  BY <1>1, <1>2 DEF AllInIsSpent, NoAllInAtRest
<1>9. TurnCanPlay'
  <2>1. state \in Streets => current_seat' = current_seat
    <3> SUFFICES ASSUME state \in Streets
                 PROVE  current_seat' = current_seat
      OBVIOUS
    <3>1. current_seat \in InHand
      BY <1>1 DEF IInv, TurnInHand
    <3>2. ~ \A x \in Seats : status[x] = "empty"
      BY <3>1 DEF InHand
    <3> QED
      BY <3>2 DEF Release
  <2> QED
    BY <1>1, <1>2, <2>1 DEF TurnCanPlay
<1> QED
  BY <1>5, <1>6, <1>7, <1>8, <1>9

\* A deal: who is all in has paid all he has as a blind.
LEMMA DealHand ==
    ASSUME IInv, IInv', HInv, Deal
    PROVE  HInv'
<1> USE DEF HInv, Turns
<1> DEFINE dealt == Dealing!DealtIn(DealtTable)
           due == [s \in Seats |->
                     IF s \in dealt
                     THEN Dealing!BlindDue(DealtTable, s, SmallBlind, BigBlind)
                     ELSE 0]
           status1 == [s \in Seats |->
                         IF s \in dealt
                         THEN IF due[s] = chips[s] THEN "psAllIn"
                              ELSE "psInHand"
                         ELSE SatOut[s]]
<1>1. /\ UNCHANGED <<mv, at>> /\ pc \in {"free", "idle"} /\ pc' = "free"
      /\ state = "tsIdle" /\ state' = "tsPreFlop"
      /\ status' = status1
      /\ chips' = [s \in Seats |-> chips[s] - due[s]]
      /\ bets' = due /\ pots' = <<EmptyPot>>
      /\ staked' = [s \in Seats |->
                      [dealt |-> chips[s],
                       short |-> status1[s] = "psAllIn", added |-> 0]]
      /\ minBet' = Max({minBet} \cup {due[s] : s \in Seats})
  BY DEF Deal, Free
<1>2. \A s \in Seats : due[s] \in Nat /\ due[s] <= BigBlind
  BY BlindIsCovered, BettingAssumption
<1>3. \A s \in Seats \ dealt : SatOut[s] # "psAllIn"
  BY <1>1 DEF SatOut, NoAllInAtRest
<1> HIDE DEF dealt, due
<1>4. ASSUME NEW s \in Seats, status'[s] = "psAllIn"
      PROVE  chips'[s] = 0 /\ s \in Short'
  <2>1. s \in dealt /\ due[s] = chips[s]
    BY <1>1, <1>3, <1>4
  <2>2. chips'[s] = 0
    BY <1>1, <1>2, <2>1
  <2>3. staked'[s].short = (status1[s] = "psAllIn") /\ status1[s] = "psAllIn"
    BY <1>1, <1>4
  <2> QED
    BY <2>2, <2>3 DEF Short
<1>5. mv' = "none"
  BY <1>1, NotMoving
<1>6. Claims'
  <2>1. pots' = <<EmptyPot>>
    BY <1>1
  <2> QED
    BY <1>5, <2>1, OneEmptyPot
       DEF Claims, MembersPaid, MembersInHand, OneSole, SoleIsAhead
<1>7. BetsCovered'
  <2> DEFINE S == {minBet} \cup {due[s] : s \in Seats}
  <2>1. minBet \in Nat /\ BigBlind \in Nat
    BY BettingAssumption DEF IInv, Typed, GameTyped
  <2>2. S \in SUBSET Nat /\ S # {} /\ minBet + BigBlind \in Nat
        /\ \A x \in S : x <= minBet + BigBlind
    BY <1>2, <2>1
  <2>3. \A s \in Seats : due[s] \in S
    OBVIOUS
  <2> HIDE DEF S
  <2>4. \A x \in S : x <= Max(S)
    BY <2>2, MaxIsGreatest
  <2>5. minBet' = Max(S)
    BY <1>1 DEF S
  <2> QED
    BY <1>1, <2>3, <2>4, <2>5 DEF BetsCovered
<1>8. EvenPass' /\ ReturnedAlone' /\ SomebodyCanPlay'
  BY <1>1 DEF EvenPass, ReturnedAlone, SomebodyCanPlay
<1>9. AllInIsSpent' /\ NoAllInAtRest'
  BY <1>1, <1>4 DEF AllInIsSpent, NoAllInAtRest
<1>10. TurnCanPlay'
  <2> SUFFICES ASSUME failed' = "no"
               PROVE  \/ status'[current_seat'] = "psInHand"
                      \/ current_seat' \in Short'
    BY <1>1 DEF TurnCanPlay
  <2>1. current_seat' \in InHand'
    BY <1>1 DEF IInv, TurnInHand, Streets
  <2> QED
    BY <1>4, <2>1 DEF InHand
<1> QED
  BY <1>6, <1>7, <1>8, <1>9, <1>10

\* HighestBet is the highest bet of a seat in the hand.
LEMMA HighestIsHighest ==
    ASSUME IInv, BetsCovered, NEW s \in InHand
    PROVE  bets[s] <= HighestBet
<1> DEFINE S == {0} \cup {bets[x] : x \in InHand}
<1>1. S \in SUBSET Nat /\ S # {} /\ minBet \in Nat /\ bets[s] \in S
      /\ \A x \in S : x <= minBet
  <2>1. /\ minBet \in Nat /\ InHand \subseteq Seats
        /\ \A x \in InHand : bets[x] \in Nat /\ bets[x] <= minBet
    BY DEF IInv, Typed, PotsTyped, GameTyped, BetsCovered, InHand
  <2> QED
    BY <2>1
<1> HIDE DEF S
<1>2. \A x \in S : x <= Max(S)
  BY <1>1, MaxIsGreatest
<1> QED
  BY <1>1, <1>2 DEF HighestBet, S

\* A street ends with equal bets, and with nobody to bet in the next one when
\* nobody can.
LEMMA StateMachineHand ==
    ASSUME IInv, HInv, StateMachine
    PROVE  HInv'
<1> USE DEF HInv, Turns
<1>1. /\ UNCHANGED <<status, chips, bets, pots, failed, state, minBet, staked>>
      /\ pc = "machine" /\ mv = "none" /\ state \in Streets
      /\ then' = "finish" => CanPlay # {}
      /\ \/ mv' = "pass" /\ pc' \in {"street", "showdown"} /\ BetsEqual
         \/ mv' = "none" /\ pc' = then'
      /\ then' \in {"machine", "finish"}
  BY NotMoving DEF StateMachine, books, SkipNobodyCanBet, IInv, Control
<1>2. InHand' = InHand /\ CanPlay' = CanPlay
  BY <1>1 DEF InHand, CanPlay
<1>3. Claims'
  <2>1. mv' # "return" /\ \A i \in DOMAIN pots : ~ Sole(pots[i])
    BY <1>1 DEF Claims, SoleIsAhead
  <2> QED
    BY <1>1, <1>2, <2>1
       DEF Claims, MembersPaid, MembersInHand, OneSole, SoleIsAhead
<1>4. EvenPass'
  <2> SUFFICES ASSUME mv' = "pass", NEW c \in CanPlay, NEW s \in InHand
               PROVE  bets[s] <= bets[c]
    BY <1>1, <1>2 DEF EvenPass
  <2>1. bets[c] = HighestBet
    BY <1>1 DEF BetsEqual
  <2> QED
    BY <2>1, HighestIsHighest
<1>5. BetsCovered' /\ ReturnedAlone' /\ SomebodyCanPlay' /\ TurnCanPlay'
  BY <1>1, <1>2
     DEF BetsCovered, ReturnedAlone, SomebodyCanPlay, TurnCanPlay
<1>6. AllInIsSpent' /\ NoAllInAtRest'
  BY <1>1, <1>2 DEF AllInIsSpent, NoAllInAtRest
<1> QED
  BY <1>3, <1>4, <1>5, <1>6

\* The turn goes to a seat with chips, which is not all in.
LEMMA FinishHand ==
    ASSUME IInv, IInv', HInv, Finish
    PROVE  HInv'
<1> USE DEF HInv, Turns
<1>1. /\ UNCHANGED <<status, chips, bets, pots, mv, state, minBet, staked>>
      /\ pc = "finish" /\ pc' \in {"machine", "released"} /\ mv = "none"
      /\ pc' = "released" /\ failed' = "no" => chips[current_seat'] # 0
  BY NotMoving DEF Finish, books
<1>2. InHand' = InHand /\ CanPlay' = CanPlay
  BY <1>1 DEF InHand, CanPlay
<1>3. Claims'
  BY <1>1, <1>2, ClaimsStay
<1>4. BetsCovered' /\ EvenPass' /\ ReturnedAlone' /\ SomebodyCanPlay'
  BY <1>1 DEF BetsCovered, EvenPass, ReturnedAlone, SomebodyCanPlay
<1>5. AllInIsSpent' /\ NoAllInAtRest'
  BY <1>1, <1>2 DEF AllInIsSpent, NoAllInAtRest
<1>6. TurnCanPlay'
  <2> SUFFICES ASSUME failed' = "no", state \in Streets, pc' = "released"
               PROVE  status[current_seat'] = "psInHand"
    BY <1>1 DEF TurnCanPlay
  <2>1. current_seat' \in InHand
    BY <1>1, <1>2 DEF IInv, TurnInHand
  <2>2. \A s \in Seats : status[s] = "psAllIn" => chips[s] = 0
    BY <1>1 DEF AllInIsSpent, SomebodyCanPlay
  <2> QED
    BY <1>1, <2>1, <2>2 DEF InHand
<1> QED
  BY <1>3, <1>4, <1>5, <1>6

LEMMA DealStreetHand ==
    ASSUME IInv, HInv, DealStreet
    PROVE  HInv'
<1> USE DEF HInv, Turns
<1>1. /\ UNCHANGED <<status, chips, bets, pots>>
      /\ pc = "street" /\ pc' = then /\ then \in {"machine", "finish"}
      /\ mv = "return" /\ mv' = "none" /\ at > Len(pots)
      /\ minBet' = 0 /\ state \in Streets /\ state' \in Streets
  <2>1. state \in {"tsPreFlop", "tsFlop", "tsTurn"}
    BY DEF DealStreet, IInv, Control, Streets
  <2> QED
    BY <2>1 DEF DealStreet, Moved, NextStreet, Streets, IInv, Typed, GameTyped
<1>2. InHand' = InHand /\ CanPlay' = CanPlay
  BY <1>1 DEF InHand, CanPlay
<1>3. Claims'
  <2>1. at \in Nat /\ Len(pots) \in Nat /\ DOMAIN pots = 1..Len(pots)
    BY DEF IInv, Typed, PotsTyped
  <2>2. \A i \in DOMAIN pots :
           ~ Sole(pots[i]) /\ pots[i].members \subseteq InHand
    BY <1>1, <2>1, AllInHand
  <2> QED
    BY <1>1, <1>2, <2>2
       DEF Claims, MembersPaid, MembersInHand, OneSole, SoleIsAhead
<1>4. BetsCovered'
  BY <1>1 DEF BetsCovered, IInv, MovedBets
<1>5. EvenPass' /\ ReturnedAlone' /\ SomebodyCanPlay' /\ TurnCanPlay'
  BY <1>1, <1>2
     DEF EvenPass, ReturnedAlone, SomebodyCanPlay, TurnCanPlay
<1>6. AllInIsSpent' /\ NoAllInAtRest'
  BY <1>1, <1>2 DEF AllInIsSpent, NoAllInAtRest, Streets
<1> QED
  BY <1>3, <1>4, <1>5, <1>6

LEMMA CalcWinnersHand ==
    ASSUME IInv, HInv, CalcWinners
    PROVE  HInv'
<1> USE DEF HInv
<1>1. /\ UNCHANGED <<status, bets, pots>> /\ pc' = "pay"
      /\ mv = "return" /\ mv' = "none" /\ at > Len(pots)
      /\ minBet' = 0 /\ state' = "tsWinning" /\ InHand' = InHand
  BY DEF CalcWinners, Moved, InHand
<1>2. Claims'
  <2>1. at \in Nat /\ Len(pots) \in Nat /\ DOMAIN pots = 1..Len(pots)
    BY DEF IInv, Typed, PotsTyped
  <2>2. \A i \in DOMAIN pots :
           ~ Sole(pots[i]) /\ pots[i].members \subseteq InHand
    BY <1>1, <2>1, AllInHand
  <2> QED
    BY <1>1, <2>2
       DEF Claims, MembersPaid, MembersInHand, OneSole, SoleIsAhead
<1>3. BetsCovered'
  BY <1>1 DEF BetsCovered, IInv, MovedBets
<1>4. Turns'
  BY <1>1, <1>3, NoTurns DEF Streets
<1> QED
  BY <1>2, <1>4

LEMMA PayPotHand ==
    ASSUME IInv, HInv, PayPot
    PROVE  HInv'
<1> USE DEF HInv
<1>1. /\ UNCHANGED <<status, bets, pots, mv, state, pc, minBet>>
      /\ pc = "pay" /\ state = "tsWinning" /\ mv = "none" /\ InHand' = InHand
  BY NotMoving DEF PayPot, IInv, Control, handVars, lockVars, InHand
<1>2. Claims'
  BY <1>1, ClaimsStay
<1>3. Turns'
  BY <1>1, NoTurns DEF Turns, BetsCovered, Streets
<1> QED
  BY <1>2, <1>3

LEMMA WinDoneHand ==
    ASSUME IInv, HInv, WinDone
    PROVE  HInv'
<1> USE DEF HInv
<1>1. /\ UNCHANGED <<bets, mv, state, minBet>> /\ pots' = <<EmptyPot>>
      /\ pc = "pay" /\ pc' = "released" /\ state = "tsWinning" /\ mv = "none"
  BY NotMoving DEF WinDone, IInv, Control, handVars
<1>2. Claims'
  BY <1>1, OneEmptyPot
     DEF Claims, MembersPaid, MembersInHand, OneSole, SoleIsAhead
<1>3. Turns'
  BY <1>1, NoTurns DEF Turns, BetsCovered, Streets
<1> QED
  BY <1>2, <1>3

LEMMA StutterHand ==
    ASSUME IInv, HInv, UNCHANGED vars
    PROVE  HInv'
<1>1. UNCHANGED <<status, chips, bets, pots, mv, at, failed, state, minBet,
                  current_seat, pc, then, staked>>
  BY DEF vars, potVars, gameVars, handVars, lockVars, books
<1>2. InHand' = InHand /\ CanPlay' = CanPlay /\ Short' = Short
  BY <1>1 DEF InHand, CanPlay, Short
<1>3. Claims'
  BY <1>1, <1>2 DEF HInv, Claims, MembersPaid, MembersInHand, OneSole,
     SoleIsAhead
<1>4. Turns'
  BY <1>1, <1>2 DEF HInv, Turns, BetsCovered, EvenPass, ReturnedAlone,
     SomebodyCanPlay, AllInIsSpent, NoAllInAtRest, TurnCanPlay
<1> QED
  BY <1>3, <1>4 DEF HInv

\* A player's bet is a number of chips.
LEMMA BetsTriedType ==
    ASSUME IInv, NEW s \in Seats
    PROVE  minBet \in Nat /\ BetsTried(s) \subseteq Nat
<1>1. minBet \in Nat /\ bets[s] \in Nat /\ chips[s] \in Nat
  BY DEF IInv, Typed, PotsTyped, GameTyped
<1>2. BetSizes \subseteq Nat /\ bets[s] + chips[s] \in Nat
  BY <1>1, BettingAssumption
<1> QED
  BY <1>1, <1>2 DEF BetsTried

\* Every step of a hand keeps the claims and the turns in order.
LEMMA HandInvariance == Spec => []HInv
<1>1. ASSUME IInv, IInv', HInv, [Next]_vars PROVE HInv'
  <2>1. CASE Deal
    BY <1>1, <2>1, DealHand
  <2>2. CASE Act
    <3>1. PICK s \in Seats : \/ \E bet \in BetsTried(s) : PutChips(s, bet)
                             \/ Fold(s) \/ TimeOut(s)
      BY <2>2 DEF Act
    <3>2. minBet \in Nat /\ BetsTried(s) \subseteq Nat
      BY <1>1, BetsTriedType
    <3>3. (\E bet \in Nat : PutChips(s, bet)) \/ FoldInTurn(s)
      BY <3>1, <3>2 DEF Fold, TimeOut
    <3> QED
      BY <1>1, <3>3, PutChipsHand, FoldInTurnHand
  <2>3. CASE Leave
    BY <1>1, <2>3, StandUpHand DEF Leave
  <2>4. CASE Sit
    BY <1>1, <2>4, SitHand
  <2>5. CASE Buy
    BY <1>1, <2>5, AddOnHand DEF Buy
  <2>6. CASE EndHand
    BY <1>1, <2>6, HandOverHand DEF EndHand
  <2>7. CASE Locked
    BY <1>1, <2>7, StateMachineHand, FinishHand, MoveToPotHand,
       DealStreetHand, CalcWinnersHand, PayPotHand, WinDoneHand,
       WaitForPlayersHand, DealHand, ReleaseHand DEF Locked
  <2>8. CASE UNCHANGED vars
    BY <1>1, <2>8, StutterHand
  <2> QED
    BY <1>1, <2>1, <2>2, <2>3, <2>4, <2>5, <2>6, <2>7, <2>8 DEF Next
<1> QED
  BY <1>1, InitHand, Invariance, PTL DEF Spec

\* After moveToPot, and whoever folds or leaves, the members of a pot are
\* seats in the hand: doWin pays nobody else.
THEOREM ClaimsAreOfTheLiving == Spec => []PotsOfTheLiving
<1>1. IInv /\ HInv => PotsOfTheLiving
  <2> SUFFICES ASSUME IInv, HInv, mv = "none"
               PROVE  \A i \in DOMAIN pots : pots[i].members \subseteq InHand
    BY DEF PotsOfTheLiving
  <2>1. at \in Nat /\ Len(pots) \in Nat /\ DOMAIN pots = 1..Len(pots)
    BY DEF IInv, Typed, PotsTyped
  <2> QED
    BY <2>1, AllInHand DEF HInv
<1> QED
  BY <1>1, Invariance, HandInvariance, PTL

\* stateMachine gives the turn to no seat that is all in, and only the seat
\* that has the turn is folded, by its player or its clock; but for the turn
\* that the deal gives to a seat all in by its blind.
THEOREM AllInIsNotFolded == Spec => AllInStaysIn
<1> DEFINE Folds(s) == status[s] = "psAllIn" /\ status'[s] = "psFolded"
<1>1. ASSUME IInv, HInv, Next, NEW s \in Seats, Folds(s)
      PROVE  state = "tsPreFlop" /\ s \in Short
  <2>1. status \in [Seats -> Statuses]
    BY <1>1 DEF IInv, Typed, PotsTyped
  <2>2. FoldInTurn(s)
    <3>1. CASE Deal \/ WaitForPlayers
      BY <1>1, <3>1 DEF Deal, WaitForPlayers, SatOut
    <3>2. CASE Act
      <4>1. PICK x \in Seats : \/ \E bet \in BetsTried(x) : PutChips(x, bet)
                               \/ FoldInTurn(x)
        BY <3>2 DEF Act, Fold, TimeOut, BetsTried
      <4>2. CASE \E bet \in BetsTried(x) : PutChips(x, bet)
        BY <1>1, <2>1, <4>2 DEF PutChips
      <4>3. CASE FoldInTurn(x)
        BY <1>1, <2>1, <4>3 DEF FoldInTurn, FoldSeat
      <4> QED
        BY <4>1, <4>2, <4>3
    <3>3. CASE Leave
      <4>1. PICK x \in Seats : StandUp(x)
        BY <3>3 DEF Leave
      <4>2. /\ [status EXCEPT ![x] = "empty"][x] = "empty"
            /\ status' = [status EXCEPT ![x] = "empty"]
        BY <2>1, <4>1 DEF StandUp, FoldSeat
      <4> QED
        BY <1>1, <2>1, <4>2
    <3>4. CASE Sit
      BY <1>1, <2>1, <3>4 DEF Sit, PlayNow, SitOut
    <3>5. CASE Buy
      BY <1>1, <3>5 DEF Buy, AddOn
    <3>6. CASE EndHand
      BY <1>1, <3>6 DEF EndHand, HandOver
    <3>7. CASE StateMachine \/ Finish \/ MoveToPot \/ DealStreet
                 \/ CalcWinners \/ PayPot \/ WinDone \/ Release
      BY <1>1, <3>7 DEF StateMachine, Finish, MoveToPot, MoveStep, MovePass,
         MergePots, ReturnPot, DealStreet, CalcWinners, PayPot, WinDone,
         Release
    <3> QED
      BY <1>1, <3>1, <3>2, <3>3, <3>4, <3>5, <3>6, <3>7 DEF Next, Locked
  <2> QED
    BY <1>1, <2>2 DEF FoldInTurn, Free, HInv, Turns, TurnCanPlay
<1>2. IInv /\ HInv /\ [Next]_vars =>
         [\A s \in Seats : Folds(s) => state = "tsPreFlop" /\ s \in Short]_vars
  BY <1>1
<1> HIDE DEF Folds
<1>3. Spec => [][\A s \in Seats :
                    Folds(s) => state = "tsPreFlop" /\ s \in Short]_vars
  BY <1>2, Invariance, HandInvariance, PTL DEF Spec
<1> QED
  BY <1>3 DEF AllInStaysIn, Folds
-----------------------------------------------------------------------------
(***************************************************************************)
(* moveToPot by the rules of the game, at a table of any size and after    *)
(* any bets: what each seat has paid in says what it can win.              *)
(***************************************************************************)

\* What a pass of moveToPot leaves: the lowest bet m of the bettors is taken
\* from each of them, into the last pot, and a new pot is opened.
LEMMA PassShape ==
    ASSUME MoveInv, MovePass, Bettors # {}, Len(pots) # 0
    PROVE  \E m \in Nat \ {0} :
             LET pot == AddToPot(pots[Len(pots)], m, Bettors)
             IN  /\ \A s \in Bettors : m <= bets[s]
                 /\ \E s \in Bettors : bets[s] = m
                 /\ bets' = [s \in Seats |->
                               IF s \in Bettors THEN bets[s] - m ELSE bets[s]]
                 /\ balance' = [s \in Seats |->
                                  IF s \in Bettors /\ Booked(s)
                                  THEN balance[s] - m ELSE balance[s]]
                 /\ Len(pots') = Len(pots) + 1
                 /\ DOMAIN pots' = 1..(Len(pots) + 1)
                 /\ pots'[Len(pots) + 1] = EmptyPot
                 /\ pots'[Len(pots)] = pot
                 /\ \A i \in 1..(Len(pots) - 1) : pots'[i] = pots[i]
                 /\ mv' = IF \A s \in Bettors : bets[s] = m THEN "merge"
                          ELSE "pass"
                 /\ failed' = IF pot.members = {} THEN "potWithoutMembers"
                              ELSE "no"
<1> USE DEF MoveInv
<1> DEFINE min == Lowest({bets[s] : s \in Bettors})
           last == pots[Len(pots)]
           pot == AddToPot(last, min, Bettors)
           filled == [pots EXCEPT ![Len(pots)] = pot]
<1>1. /\ bets' = [s \in Seats |->
                    IF s \in Bettors THEN bets[s] - min ELSE bets[s]]
      /\ balance' = [s \in Seats |->
                       IF s \in Bettors /\ Booked(s)
                       THEN balance[s] - min ELSE balance[s]]
      /\ pots' = Append(filled, EmptyPot)
      /\ mv' = IF \A s \in Bettors : bets[s] = min THEN "merge" ELSE "pass"
      /\ failed' = IF pot.members = {} THEN "potWithoutMembers" ELSE "no"
  BY DEF MovePass
<1>2. /\ {bets[s] : s \in Bettors} \in SUBSET (Nat \ {0})
      /\ {bets[s] : s \in Bettors} # {}
  <2>1. \A s \in Seats : bets[s] \in Nat
    BY DEF PotsTyped
  <2>2. \A s \in Bettors : bets[s] \in Nat \ {0}
    BY <2>1 DEF Bettors
  <2> QED
    BY <2>2
<1>3. /\ min \in {bets[s] : s \in Bettors}
      /\ \A y \in {bets[s] : s \in Bettors} : min <= y
  <2>1. {bets[s] : s \in Bettors} \in SUBSET Nat
    BY <1>2
  <2> QED
    BY <1>2, <2>1, LowestIsLeast
<1>4. /\ min \in Nat \ {0} /\ \A s \in Bettors : min <= bets[s]
      /\ \E s \in Bettors : bets[s] = min
  BY <1>2, <1>3
<1>5. pots \in Seq(Pots) /\ Len(pots) \in Nat /\ DOMAIN pots = 1..Len(pots)
  BY DEF PotsTyped
<1> HIDE DEF min
<1>6. pot \in Pots
  <2>1. last \in Pots
    BY <1>5
  <2>2. Bettors \in SUBSET Seats /\ Bettors \cap Sidelined = {}
    BY DEF Bettors, BetsArePlayed
  <2>3. last.members \cap Sidelined = {}
    BY <1>5 DEF MembersArePlayed
  <2> HIDE DEF last
  <2> QED
    BY <1>4, <2>1, <2>2, <2>3, AddToPotType
<1> HIDE DEF pot
<1>7. /\ filled \in Seq(Pots) /\ Len(filled) = Len(pots)
      /\ filled[Len(pots)] = pot
      /\ \A i \in 1..(Len(pots) - 1) : filled[i] = pots[i]
  <2>1. Len(pots) \in 1..Len(pots)
    BY <1>5
  <2>2. /\ filled \in Seq(Pots) /\ Len(filled) = Len(pots)
        /\ \A i \in 1..Len(pots) :
              filled[i] = IF i = Len(pots) THEN pot ELSE pots[i]
    BY <1>5, <1>6, <2>1, ExceptSeq
  <2>3. \A i \in 1..(Len(pots) - 1) : i \in 1..Len(pots) /\ i # Len(pots)
    <3>1. \A n \in Nat : \A i \in 1..(n - 1) : i \in 1..n /\ i # n
      OBVIOUS
    <3> QED
      BY <1>5, <3>1
  <2> HIDE DEF filled
  <2> QED
    BY <2>1, <2>2, <2>3
<1> HIDE DEF filled
<1>8. /\ Len(pots') = Len(pots) + 1
      /\ DOMAIN pots' = 1..(Len(pots) + 1)
      /\ pots'[Len(pots) + 1] = EmptyPot
      /\ pots'[Len(pots)] = pot
      /\ \A i \in 1..(Len(pots) - 1) : pots'[i] = pots[i]
  <2>1. EmptyPot \in Pots
    BY EmptyPotClaims
  <2>2. pots' \in Seq(Pots)
    BY <1>1, <1>7, <2>1, AppendProperties
  <2>3. /\ Len(pots') = Len(filled) + 1
        /\ pots'[Len(filled) + 1] = EmptyPot
        /\ \A i \in 1..Len(filled) : pots'[i] = filled[i]
    BY <1>1, <1>7, <2>1, AppendProperties
  <2>4. DOMAIN pots' = 1..Len(pots')
    BY <2>2, LenProperties
  <2>5. Len(pots) \in 1..Len(pots)
    BY <1>5
  <2> QED
    BY <1>5, <1>7, <2>3, <2>4, <2>5
<1> QED
  BY <1>1, <1>4, <1>8 DEF pot

\* What joining two pots leaves.
LEMMA JoinShape ==
    ASSUME MoveInv, MergePots, pots' # pots
    PROVE  /\ at \in 1..(Len(pots) - 1) /\ mv' = "merge" /\ at' = at
           /\ pots[at].members = pots[at + 1].members
           /\ Len(pots') = Len(pots) - 1 /\ DOMAIN pots' = 1..(Len(pots) - 1)
           /\ \A i \in 1..(Len(pots) - 1) :
                LET old == pots[IF i < at + 1 THEN i ELSE i + 1]
                IN  /\ pots'[i].members = old.members
                    /\ pots'[i].trueMembers = old.trueMembers
                    /\ pots'[i].value =
                         IF i = at THEN pots[at].value + pots[at + 1].value
                         ELSE old.value
<1> USE DEF MoveInv
<1>1. /\ pots \in Seq(Pots) /\ Len(pots) \in Nat
      /\ DOMAIN pots = 1..Len(pots) /\ at \in Nat \ {0}
  BY DEF PotsTyped
<1> DEFINE p == [pots[at] EXCEPT !.value = pots[at].value + pots[at + 1].value]
           sum == [pots EXCEPT ![at] = p]
<1>2. /\ mv' = "merge" /\ at < Len(pots) /\ at' = at
      /\ pots' = Without(sum, at + 1)
      /\ pots[at].members = pots[at + 1].members
  BY <1>1 DEF MergePots
<1>3. at \in 1..Len(pots) /\ at + 1 \in 1..Len(pots) /\ at \in 1..(Len(pots) - 1)
  BY <1>1, <1>2
<1>4. /\ p \in Pots /\ p.members = pots[at].members
      /\ p.trueMembers = pots[at].trueMembers
      /\ p.value = pots[at].value + pots[at + 1].value
  <2>1. pots[at] \in Pots /\ pots[at + 1] \in Pots
    BY <1>1, <1>3
  <2> QED
    BY <2>1 DEF Pots
<1> HIDE DEF p
<1>5. /\ sum \in Seq(Pots) /\ Len(sum) = Len(pots) /\ sum[at] = p
      /\ \A i \in 1..Len(pots) : i # at => sum[i] = pots[i]
  BY <1>1, <1>3, <1>4, ExceptSeq
<1> HIDE DEF sum
<1>6. /\ Len(pots') = Len(pots) - 1 /\ DOMAIN pots' = 1..(Len(pots) - 1)
      /\ \A i \in 1..(Len(pots) - 1) :
            pots'[i] = IF i < at + 1 THEN sum[i] ELSE sum[i + 1]
  <2>1. at + 1 \in 1..Len(sum)
    BY <1>3, <1>5
  <2> QED
    BY <1>2, <1>5, <2>1, WithoutInOrder, WithoutIsPart, Zenon
<1>7. ASSUME NEW i \in 1..(Len(pots) - 1)
      PROVE  LET old == pots[IF i < at + 1 THEN i ELSE i + 1]
             IN  /\ pots'[i].members = old.members
                 /\ pots'[i].trueMembers = old.trueMembers
                 /\ pots'[i].value =
                      IF i = at THEN pots[at].value + pots[at + 1].value
                      ELSE old.value
  <2>1. CASE i < at
    <3>1. i \in 1..Len(pots) /\ i # at /\ i < at + 1
      BY <1>1, <1>3, <2>1
    <3>2. pots'[i] = pots[i]
      BY <1>5, <1>6, <3>1
    <3> QED
      BY <3>1, <3>2
  <2>2. CASE i = at
    BY <1>1, <1>3, <1>4, <1>5, <1>6, <2>2
  <2>3. CASE i > at
    BY <1>1, <1>3, <1>5, <1>6, <2>3
  <2> QED
    BY <1>1, <2>1, <2>2, <2>3
<1> QED
  BY <1>2, <1>3, <1>6, <1>7

\* What giving a pot back leaves.
LEMMA ReturnShape ==
    ASSUME MoveInv, ReturnPot
    PROVE  /\ at \in 1..Len(pots) /\ at' = at + 1
           /\ ~ Sole(pots[at]) => UNCHANGED <<chips, balance, pots>>
           /\ Sole(pots[at]) =>
                /\ Len(pots') = Len(pots) - 1
                /\ DOMAIN pots' = 1..(Len(pots) - 1)
                /\ \A i \in 1..(Len(pots) - 1) :
                      pots'[i] = IF i < at THEN pots[i] ELSE pots[i + 1]
<1>1. /\ pots \in Seq(Pots) /\ Len(pots) \in Nat /\ at \in Nat \ {0}
      /\ at <= Len(pots) /\ at' = at + 1
  BY DEF MoveInv, PotsTyped, ReturnPot
<1>2. at \in 1..Len(pots)
  BY <1>1
<1>3. ~ Sole(pots[at]) => UNCHANGED <<chips, balance, pots>>
  BY DEF Sole, ReturnPot
<1>4. Sole(pots[at]) => pots' = Without(pots, at)
  BY DEF Sole, ReturnPot
<1>5. /\ Len(Without(pots, at)) = Len(pots) - 1
      /\ DOMAIN Without(pots, at) = 1..(Len(pots) - 1)
      /\ \A i \in 1..(Len(pots) - 1) :
            Without(pots, at)[i] = IF i < at THEN pots[i] ELSE pots[i + 1]
  BY <1>1, <1>2, WithoutInOrder, WithoutIsPart
<1> QED
  BY <1>1, <1>2, <1>3, <1>4, <1>5

\* What a seat can win, and what it can win by the rules.
Claim(s) ==
    [i \in DOMAIN pots |-> IF s \in pots[i].members THEN pots[i].value ELSE 0]
Matched(s) ==
    [x \in Seats |-> IF Paid(x) < Paid(s) THEN Paid(x) ELSE Paid(s)]
Worth == [i \in DOMAIN pots |-> pots[i].value]
Takings == [s \in Seats |-> Paid(s)]

NobodyGone ==
    \A s \in Seats : status[s] = "empty" =>
        /\ bets[s] = 0
        /\ \A i \in DOMAIN pots : s \notin pots[i].members

LastIsOpen ==
    /\ Len(pots) # 0
    /\ pots[Len(pots)].value = 0 /\ pots[Len(pots)].members = {}
    /\ pots[Len(pots)].trueMembers = {}
    /\ \A i \in 1..(Len(pots) - 1) :
          pots[i].value > 0 /\ pots[i].trueMembers # {}

\* A seat that has more to pay has not paid less.
HighBetsPaidMore ==
    \A s, x \in Seats : bets[x] < bets[s] => Paid(x) <= Paid(s)

SoleIsLast ==
    \A i \in DOMAIN pots : Sole(pots[i]) =>
        /\ i + 1 = Len(pots) /\ pots[i].members # {}
        /\ \A z \in pots[i].members, x \in Seats :
              x # z => Paid(x) <= Paid(z) - pots[i].value

PotsArePaid == SumFunction(Worth) = SumFunction(Takings)

FairClaims ==
    \A s \in InHand : SumFunction(Claim(s)) = SumFunction(Matched(s))

Ledger ==
    /\ NobodyGone /\ LastIsOpen /\ HighBetsPaidMore /\ SoleIsLast
    /\ PotsArePaid /\ FairClaims

LEMMA SumOfDomain ==
    ASSUME NEW f, NEW D, DOMAIN f = D
    PROVE  SumFunction(f) = SumFunctionOnSet(f, D)
BY DEF SumFunction

LEMMA LedgerTypes ==
    ASSUME PotsTyped
    PROVE  /\ \A s \in Seats : Paid(s) \in Int
           /\ Len(pots) \in Nat /\ DOMAIN pots = 1..Len(pots)
           /\ \A i \in 1..Len(pots) : pots[i] \in Pots
           /\ \A i \in 1..Len(pots) : /\ pots[i].value \in Nat
                                      /\ pots[i].members \in SUBSET Seats
                                      /\ pots[i].trueMembers \in SUBSET Seats
           /\ IsFiniteSet(Seats)
<1>1. \A s \in Seats : Paid(s) \in Int
  BY DEF PotsTyped, Paid
<1>2. pots \in Seq(Pots)
  BY DEF PotsTyped
<1>3. /\ Len(pots) \in Nat /\ DOMAIN pots = 1..Len(pots)
      /\ \A i \in 1..Len(pots) : pots[i] \in Pots
  BY <1>2
<1> QED
  BY <1>1, <1>3, SeatsFinite DEF Pots

LEMMA LedgerStays ==
    ASSUME Ledger, UNCHANGED <<status, bets, pots, balance>>
    PROVE  Ledger'
BY DEF Ledger, NobodyGone, LastIsOpen, HighBetsPaidMore, SoleIsLast,
       PotsArePaid, FairClaims, Worth, Takings, Claim, Matched, Paid, InHand

\* The passes.  A bettor that takes more than another has paid more, so what
\* it pays counts in full against what every seat in the hand has paid.
LEMMA MovePassLedger ==
    ASSUME MoveInv, Claims, Ledger, MovePass
    PROVE  /\ Ledger'
           /\ \A s \in Seats : Paid(s)' + bets'[s] = Paid(s) + bets[s]
<1> USE DEF MoveInv, Claims, Ledger
<1>1. /\ UNCHANGED <<status, leaving, chips>> /\ mv = "pass"
      /\ InHand' = InHand
      /\ \A i \in DOMAIN pots : ~ Sole(pots[i])
  BY DEF MovePass, InHand, SoleIsAhead
<1>2. CASE Bettors = {}
  <2>1. UNCHANGED <<bets, pots, balance>>
    BY <1>2 DEF MovePass
  <2>2. Ledger'
    BY <1>1, <2>1, LedgerStays
  <2> QED
    BY <2>1, <2>2 DEF Paid
<1>3. CASE Bettors # {}
  <2> DEFINE L == Len(pots)
  <2>1. /\ L \in Nat \ {0} /\ DOMAIN pots = 1..L
        /\ \A i \in 1..L : pots[i] \in Pots
        /\ \A i \in 1..L : /\ pots[i].value \in Nat
                           /\ pots[i].members \in SUBSET Seats
                           /\ pots[i].trueMembers \in SUBSET Seats
    BY LedgerTypes DEF LastIsOpen
  <2>2. PICK m \in Nat \ {0} :
          LET pot == AddToPot(pots[L], m, Bettors)
          IN  /\ \A s \in Bettors : m <= bets[s]
              /\ \E s \in Bettors : bets[s] = m
              /\ bets' = [s \in Seats |->
                            IF s \in Bettors THEN bets[s] - m ELSE bets[s]]
              /\ balance' = [s \in Seats |->
                               IF s \in Bettors /\ Booked(s)
                               THEN balance[s] - m ELSE balance[s]]
              /\ Len(pots') = L + 1
              /\ DOMAIN pots' = 1..(L + 1)
              /\ pots'[L + 1] = EmptyPot
              /\ pots'[L] = pot
              /\ \A i \in 1..(L - 1) : pots'[i] = pots[i]
              /\ mv' = IF \A s \in Bettors : bets[s] = m THEN "merge"
                       ELSE "pass"
              /\ failed' = IF pot.members = {} THEN "potWithoutMembers"
                           ELSE "no"
    BY <1>3, <2>1, PassShape
  <2> DEFINE B == Bettors
             pot == AddToPot(pots[L], m, B)
             paid == m * Cardinality(B)
  <2>3. /\ B \in SUBSET Seats /\ \A s \in Seats : s \notin B => bets[s] = 0
        /\ \A s \in Seats : bets[s] \in Nat
        /\ \A s \in B : Booked(s) /\ bets[s] > 0 /\ status[s] # "empty"
    BY DEF Bettors, PotsTyped, Booked, Taken, BetsArePlayed, Sidelined,
           NobodyGone
  <2>4. Cardinality(B) \in Nat \ {0} /\ IsFiniteSet(B)
    BY <1>3, <2>3, SeatsFinite, FS_EmptySet
  <2>5. paid \in Nat /\ paid > 0
    <3>1. \A a, b \in Nat \ {0} : a * b \in Nat /\ a * b > 0
      OBVIOUS
    <3> HIDE DEF B
    <3> QED
      BY <2>4, <3>1
  <2>6. \A s \in Seats : /\ Paid(s) \in Int
                         /\ Paid(s)' = IF s \in B THEN Paid(s) + m ELSE Paid(s)
                         /\ bets'[s] = IF s \in B THEN bets[s] - m ELSE 0
    <3>1. ASSUME NEW s \in Seats
          PROVE  /\ balance[s] \in Int
                 /\ balance'[s] = IF s \in B THEN balance[s] - m
                                  ELSE balance[s]
                 /\ bets'[s] = IF s \in B THEN bets[s] - m ELSE 0
      BY <2>2, <2>3 DEF PotsTyped
    <3>2. m \in Int
      BY <2>2
    <3> HIDE DEF B
    <3> QED
      BY <3>1, <3>2 DEF Paid
  <2>7. /\ pot.value = paid /\ pot.trueMembers = B
        /\ pot.members \in SUBSET B
        /\ pot.members # {} \/ ~ Sole(pot)
        /\ \A s \in InHand : s \in pot.members <=> s \in B
    <3>1. /\ pots[L].value = 0 /\ pots[L].members = {}
          /\ pots[L].trueMembers = {}
      BY DEF LastIsOpen
    <3> DEFINE shown == {s \in B : status[s] \notin {"empty", "psFolded"}}
    <3>2. /\ pot.value = paid /\ pot.trueMembers = B
          /\ pot.members = IF shown = {} /\ Cardinality(B) = 1 THEN B
                           ELSE shown
      BY <2>5, <3>1 DEF AddToPot
    <3>3. \A s \in InHand : s \in shown <=> s \in B
      BY DEF InHand
    <3>4. shown = {} => \A s \in InHand : s \notin B
      BY <3>3
    <3> HIDE DEF shown, pot
    <3>5. \A s \in InHand : s \in pot.members <=> s \in B
      BY <3>2, <3>3, <3>4
    <3>6. shown \in SUBSET B
      BY DEF shown
    <3>7. pot.members \in SUBSET B /\ (pot.members # {} \/ ~ Sole(pot))
      BY <1>3, <3>2, <3>6 DEF Sole
    <3> QED
      BY <3>2, <3>5, <3>7
  <2>8. /\ DOMAIN pots' = 1..(L + 1) /\ Len(pots') = L + 1
        /\ pots'[L] = pot /\ pots'[L + 1] = EmptyPot
        /\ \A i \in 1..(L - 1) : pots'[i] = pots[i]
    BY <2>2
  <2> HIDE DEF pot, paid, B, L
  <2>9. LastIsOpen'
    <3>1. Len(pots') = L + 1 /\ L \in Nat \ {0}
      BY <2>1, <2>8
    <3>2. ASSUME NEW i \in 1..L
          PROVE  pots'[i].value > 0 /\ pots'[i].trueMembers # {}
      <4>1. i = L \/ i \in 1..(L - 1)
        BY <2>1
      <4> QED
        BY <1>3, <2>5, <2>7, <2>8, <4>1 DEF LastIsOpen, L, B
    <3>3. 1..(Len(pots') - 1) = 1..L
      BY <3>1
    <3> QED
      BY <2>8, <3>1, <3>2, <3>3 DEF LastIsOpen, EmptyPot
  <2>10. HighBetsPaidMore'
    <3>1. ASSUME NEW s \in Seats, NEW x \in Seats, bets'[x] < bets'[s]
          PROVE  Paid(x)' <= Paid(s)'
      <4>1. s \in B
        BY <2>2, <2>3, <2>6, <3>1 DEF B
      <4>2. bets[x] < bets[s]
        BY <2>2, <2>3, <2>6, <3>1, <4>1
      <4>3. Paid(x) <= Paid(s)
        BY <4>2 DEF HighBetsPaidMore
      <4> QED
        BY <2>6, <4>1, <4>3
    <3> QED
      BY <3>1 DEF HighBetsPaidMore
  <2>11. NobodyGone'
    <3>1. ASSUME NEW s \in Seats, status[s] = "empty"
          PROVE  bets'[s] = 0 /\ \A i \in 1..(L + 1) : s \notin pots'[i].members
      <4>1. s \notin B
        BY <2>3, <3>1
      <4>2. ASSUME NEW i \in 1..(L + 1) PROVE s \notin pots'[i].members
        <5>1. i = L \/ i = L + 1 \/ i \in 1..(L - 1)
          BY <2>1
        <5>2. s \notin pot.members
          <6>1. pot.members \subseteq pot.trueMembers
            BY <2>1, <2>8, MovePassClaims DEF MembersPaid, L
          <6> QED
            BY <2>7, <4>1, <6>1
        <5>3. i \in 1..(L - 1) => s \notin pots[i].members
          BY <2>1, <3>1 DEF NobodyGone
        <5> QED
          BY <2>8, <5>1, <5>2, <5>3, EmptyPotClaims
      <4> QED
        BY <2>6, <4>1, <4>2
    <3> QED
      BY <1>1, <2>8, <3>1 DEF NobodyGone
  <2>12. SoleIsLast'
    <3>1. ASSUME NEW i \in 1..(L + 1), Sole(pots'[i])
          PROVE  /\ i + 1 = L + 1 /\ pots'[i].members # {}
                 /\ \A z \in pots'[i].members, x \in Seats :
                       x # z => Paid(x)' <= Paid(z)' - pots'[i].value
      <4>1. i = L
        <5>1. i = L \/ i = L + 1 \/ i \in 1..(L - 1)
          BY <2>1
        <5>2. i \in 1..(L - 1) => i \in DOMAIN pots
          BY <2>1
        <5> QED
          BY <1>1, <2>8, <3>1, <5>1, <5>2, EmptyPotClaims
      <4>2. Sole(pot) /\ pots'[i] = pot
        BY <2>8, <3>1, <4>1
      <4>3. PICK z : B = {z}
        <5>1. Cardinality(B) = 1
          BY <2>7, <4>2 DEF Sole
        <5> QED
          BY <2>4, <5>1, FS_Singleton
      <4>4. pot.members = {z} /\ z \in Seats
        BY <2>3, <2>7, <4>2, <4>3
      <4>5. pot.value = m
        <5>1. Cardinality(B) = 1
          BY <2>7, <4>2 DEF Sole
        <5>2. m * 1 = m
          OBVIOUS
        <5> QED
          BY <2>7, <5>1, <5>2 DEF paid
      <4>6. ASSUME NEW x \in Seats, x # z
            PROVE  Paid(x)' <= Paid(z)' - m
        <5>1. bets[x] < bets[z]
          BY <2>3, <4>3, <4>4, <4>6
        <5>2. Paid(x) <= Paid(z)
          BY <4>4, <5>1 DEF HighBetsPaidMore
        <5>3. Paid(x)' = Paid(x) /\ Paid(z)' = Paid(z) + m
          BY <2>6, <4>3, <4>4, <4>6
        <5>4. Paid(x) \in Int /\ Paid(z) \in Int
          BY <2>6, <4>4
        <5> QED
          BY <5>2, <5>3, <5>4
      <4> QED
        BY <4>1, <4>2, <4>4, <4>5, <4>6
    <3> QED
      BY <2>8, <3>1 DEF SoleIsLast
  <2>13. PotsArePaid'
    <3>1. SumFunction(Worth') = SumFunction(Worth) + paid
      <4> DEFINE f == Worth
                 g == Worth'
      <4>1. DOMAIN f = 1..L /\ DOMAIN g = 1..(L + 1)
        BY <2>1, <2>8 DEF Worth
      <4>2. \A j \in 1..L : f[j] \in Int
        BY <2>1 DEF Worth
      <4>3. f[L] = 0
        BY <2>1 DEF Worth, LastIsOpen, L
      <4>4. g[L] = f[L] + paid /\ g[L + 1] = 0
        BY <2>1, <2>5, <2>7, <2>8, <4>3 DEF Worth, EmptyPot
      <4>5. \A j \in 1..(L - 1) : g[j] = f[j]
        BY <2>1, <2>8 DEF Worth
      <4>6. paid \in Int /\ L \in Nat \ {0}
        BY <2>1, <2>5
      <4> HIDE DEF f, g
      <4>7. SumFunctionOnSet(g, 1..(L + 1)) = SumFunctionOnSet(f, 1..L) + paid
        BY <4>2, <4>4, <4>5, <4>6, SumLast
      <4> QED
        BY <4>1, <4>7, SumOfDomain DEF f, g
    <3>2. SumFunction(Takings') = SumFunction(Takings) + paid
      <4> DEFINE f == Takings
                 g == [s \in Seats |-> IF s \in B THEN m ELSE 0]
                 h == Takings'
      <4>1. /\ DOMAIN f = Seats /\ DOMAIN h = Seats
            /\ \A x \in Seats : f[x] \in Int /\ g[x] \in Int /\ h[x] = f[x] + g[x]
        BY <2>6 DEF Takings
      <4>2. \A x \in Seats : g[x] = IF x \in B THEN m ELSE 0
        OBVIOUS
      <4> HIDE DEF f, g, h
      <4>3. SumFunctionOnSet(h, Seats)
              = SumFunctionOnSet(f, Seats) + SumFunctionOnSet(g, Seats)
        BY <4>1, LedgerTypes, SumAdd
      <4>4. SumFunctionOnSet(g, Seats) = paid
        BY <2>3, <4>2, LedgerTypes, SumCount DEF paid
      <4> QED
        BY <4>1, <4>3, <4>4, SumOfDomain DEF f, h
    <3> QED
      BY <3>1, <3>2 DEF PotsArePaid
  <2>14. FairClaims'
    <3>1. SUFFICES ASSUME NEW s \in InHand
                   PROVE  SumFunction(Claim(s)') = SumFunction(Matched(s)')
      BY <1>1 DEF FairClaims
    <3>2. s \in Seats
      BY DEF InHand
    <3> DEFINE w == IF s \in B THEN paid ELSE 0
    <3>3. SumFunction(Claim(s)') = SumFunction(Claim(s)) + w
      <4> DEFINE f == Claim(s)
                 g == Claim(s)'
      <4>1. DOMAIN f = 1..L /\ DOMAIN g = 1..(L + 1)
        BY <2>1, <2>8 DEF Claim
      <4>2. \A j \in 1..L : f[j] \in Int
        BY <2>1 DEF Claim
      <4>3. f[L] = 0
        BY <2>1 DEF Claim, LastIsOpen, L
      <4>4. g[L] = f[L] + w /\ g[L + 1] = 0
        BY <2>1, <2>5, <2>7, <2>8, <4>3 DEF Claim, EmptyPot
      <4>5. \A j \in 1..(L - 1) : g[j] = f[j]
        BY <2>1, <2>8 DEF Claim
      <4>6. w \in Int
        BY <2>5
      <4> HIDE DEF f, g, w
      <4>7. SumFunctionOnSet(g, 1..(L + 1)) = SumFunctionOnSet(f, 1..L) + w
        BY <2>1, <4>2, <4>4, <4>5, <4>6, SumLast, Zenon
      <4> QED
        BY <4>1, <4>7, SumOfDomain DEF f, g
    <3>4. SumFunction(Matched(s)') = SumFunction(Matched(s)) + w
      <4> DEFINE f == Matched(s)
                 g == [x \in Seats |-> IF s \in B /\ x \in B THEN m ELSE 0]
                 h == Matched(s)'
                 C == IF s \in B THEN B ELSE {}
      <4>1. DOMAIN f = Seats /\ DOMAIN h = Seats
        BY DEF Matched
      <4>2. ASSUME NEW x \in Seats
            PROVE  f[x] \in Int /\ g[x] \in Int /\ h[x] = f[x] + g[x]
        <5>1. f[x] = IF Paid(x) < Paid(s) THEN Paid(x) ELSE Paid(s)
          BY DEF Matched
        <5>2. h[x] = IF Paid(x)' < Paid(s)' THEN Paid(x)' ELSE Paid(s)'
          BY DEF Matched
        <5>3. bets[x] < bets[s] => Paid(x) <= Paid(s)
          BY <3>2 DEF HighBetsPaidMore
        <5>4. bets[s] < bets[x] => Paid(s) <= Paid(x)
          BY <3>2 DEF HighBetsPaidMore
        <5>5. g[x] = IF s \in B /\ x \in B THEN m ELSE 0
          OBVIOUS
        <5> HIDE DEF f, g, h
        <5>6. CASE s \in B /\ x \in B
          BY <2>6, <3>2, <5>1, <5>2, <5>5, <5>6
        <5>7. CASE s \in B /\ x \notin B
          <6>1. bets[x] < bets[s]
            BY <2>3, <3>2, <5>7
          <6> QED
            BY <2>6, <3>2, <5>1, <5>2, <5>3, <5>5, <5>7, <6>1
        <5>8. CASE s \notin B /\ x \in B
          <6>1. bets[s] < bets[x]
            BY <2>3, <3>2, <5>8
          <6> QED
            BY <2>6, <3>2, <5>1, <5>2, <5>4, <5>5, <5>8, <6>1
        <5>9. CASE s \notin B /\ x \notin B
          BY <2>6, <3>2, <5>1, <5>2, <5>5, <5>9
        <5> QED
          BY <5>6, <5>7, <5>8, <5>9
      <4>3. /\ C \in SUBSET Seats
            /\ \A x \in Seats : g[x] = IF x \in C THEN m ELSE 0
        BY <2>3
      <4>4. m * Cardinality(C) = w
        <5>1. Cardinality({}) = 0 /\ m * 0 = 0
          BY FS_EmptySet
        <5>2. CASE s \in B
          BY <5>2 DEF paid
        <5>3. CASE s \notin B
          BY <5>1, <5>3
        <5> QED
          BY <5>2, <5>3
      <4> HIDE DEF f, g, h, C, w
      <4>5. SumFunctionOnSet(h, Seats)
              = SumFunctionOnSet(f, Seats) + SumFunctionOnSet(g, Seats)
        BY <4>2, LedgerTypes, SumAdd
      <4>6. SumFunctionOnSet(g, Seats) = m * Cardinality(C)
        BY <4>3, LedgerTypes, SumCount
      <4> QED
        BY <4>1, <4>4, <4>5, <4>6, SumOfDomain DEF f, h
    <3>5. SumFunction(Claim(s)) = SumFunction(Matched(s))
      BY DEF FairClaims
    <3> QED
      BY <3>3, <3>4, <3>5
  <2>15. \A s \in Seats : Paid(s)' + bets'[s] = Paid(s) + bets[s]
    BY <2>2, <2>3, <2>6
  <2> QED
    BY <2>9, <2>10, <2>11, <2>12, <2>13, <2>14, <2>15
<1> QED
  BY <1>2, <1>3

\* Joining pots.  A pot with one payer is not joined with the pot behind it,
\* which is the open one, and loses its name when it is joined with the pot
\* before it.
LEMMA MergePotsLedger ==
    ASSUME MoveInv, Claims, Ledger, MergePots, failed' = "no"
    PROVE  /\ Ledger'
           /\ \A s \in Seats : Paid(s)' = Paid(s)
<1> USE DEF MoveInv, Claims, Ledger
<1>1. /\ UNCHANGED <<status, leaving, chips, bets, balance>>
      /\ InHand' = InHand
      /\ \A s \in Seats : Paid(s)' = Paid(s)
  BY DEF MergePots, InHand, Paid
<1>2. CASE pots' = pots
  BY <1>1, <1>2, LedgerStays
<1>3. CASE pots' # pots
  <2> DEFINE L == Len(pots)
  <2>1. /\ L \in Nat \ {0} /\ DOMAIN pots = 1..L
        /\ \A i \in 1..L : /\ pots[i].value \in Nat
                           /\ pots[i].members \in SUBSET Seats
                           /\ pots[i].trueMembers \in SUBSET Seats
    BY LedgerTypes DEF LastIsOpen
  <2>2. /\ at \in 1..(L - 1) /\ pots[at].members = pots[at + 1].members
        /\ Len(pots') = L - 1 /\ DOMAIN pots' = 1..(L - 1)
        /\ \A i \in 1..(L - 1) :
             LET old == pots[IF i < at + 1 THEN i ELSE i + 1]
             IN  /\ pots'[i].members = old.members
                 /\ pots'[i].trueMembers = old.trueMembers
                 /\ pots'[i].value =
                      IF i = at THEN pots[at].value + pots[at + 1].value
                      ELSE old.value
    BY <1>3, JoinShape
  <2>3. at + 1 # L
    <3>1. pots[at].members # {}
      <4>1. pots[at].value > 0
        BY <2>2 DEF LastIsOpen
      <4>2. ~ (at >= Len(pots))
        BY <2>1, <2>2
      <4>3. failed' = IF pots[at].value > 0 /\ pots[at].members = {}
                      THEN "potWithoutMembers" ELSE "no"
        BY <4>2 DEF MergePots
      <4> QED
        BY <4>1, <4>3
    <3> QED
      BY <2>2, <3>1 DEF LastIsOpen
  <2> HIDE DEF L
  <2>4. at \in 1..(L - 2) /\ L - 2 \in Nat /\ L - 1 \in Nat /\ L \in Nat
    BY <2>1, <2>2, <2>3
  <2> DEFINE old(i) == IF i < at + 1 THEN i ELSE i + 1
  <2>5. ASSUME NEW i \in 1..(L - 1)
        PROVE  /\ old(i) \in 1..L /\ pots'[i].members = pots[old(i)].members
               /\ pots'[i].trueMembers = pots[old(i)].trueMembers
               /\ i = at => pots'[i].value = pots[at].value + pots[at + 1].value
               /\ i # at => pots'[i].value = pots[old(i)].value
               /\ old(i) = L <=> i = L - 1
               /\ old(i) = L - 1 => i = L - 2 /\ i # at
    BY <2>1, <2>2, <2>4
  <2>6. NobodyGone'
    <3>1. \A s \in Seats, i \in 1..(L - 1) : status[s] = "empty" =>
             bets[s] = 0 /\ s \notin pots'[i].members
      BY <2>1, <2>5 DEF NobodyGone
    <3> HIDE DEF old
    <3> QED
      BY <1>1, <2>2, <3>1 DEF NobodyGone
  <2>7. LastIsOpen'
    <3>1. /\ pots'[L - 1].value = 0 /\ pots'[L - 1].members = {}
          /\ pots'[L - 1].trueMembers = {}
      <4>1. L - 1 \in 1..(L - 1) /\ L - 1 # at
        BY <2>4
      <4>2. old(L - 1) = L
        BY <2>5, <4>1
      <4> HIDE DEF old
      <4> QED
        BY <2>5, <4>1, <4>2 DEF LastIsOpen, L
    <3>2. ASSUME NEW i \in 1..((L - 1) - 1)
          PROVE  pots'[i].value > 0 /\ pots'[i].trueMembers # {}
      <4>1. i \in 1..(L - 1) /\ i # L - 1
        BY <2>4
      <4>2. old(i) \in 1..(L - 1) /\ at + 1 \in 1..(L - 1) /\ at \in 1..(L - 1)
        BY <2>4, <2>5, <4>1
      <4>3. /\ pots[old(i)].value > 0 /\ pots[old(i)].trueMembers # {}
            /\ pots[at].value > 0 /\ pots[at + 1].value > 0
        BY <4>2 DEF LastIsOpen, L
      <4>4. pots[at].value \in Nat /\ pots[at + 1].value \in Nat
        BY <2>1, <2>4
      <4> HIDE DEF old
      <4> QED
        BY <2>5, <4>1, <4>3, <4>4
    <3>3. Len(pots') = L - 1 /\ L - 1 # 0
      BY <2>2, <2>4 DEF L
    <3> QED
      BY <3>1, <3>2, <3>3 DEF LastIsOpen
  <2>8. HighBetsPaidMore'
    BY <1>1 DEF HighBetsPaidMore
  <2>9. SoleIsLast'
    <3>1. ASSUME NEW i \in 1..(L - 1), Sole(pots'[i])
          PROVE  /\ i + 1 = L - 1 /\ pots'[i].members # {}
                 /\ \A z \in pots'[i].members, x \in Seats :
                       x # z => Paid(x)' <= Paid(z)' - pots'[i].value
      <4>1. Sole(pots[old(i)]) /\ old(i) \in DOMAIN pots
        BY <2>1, <2>5, <3>1 DEF Sole
      <4>2. /\ old(i) + 1 = L /\ pots[old(i)].members # {}
            /\ \A z \in pots[old(i)].members, x \in Seats :
                  x # z => Paid(x) <= Paid(z) - pots[old(i)].value
        BY <4>1 DEF SoleIsLast, L
      <4>3. old(i) = L - 1
        BY <2>1, <2>5, <4>2
      <4>4. i = L - 2 /\ i # at
        BY <2>5, <4>3
      <4>5. i + 1 = L - 1
        BY <2>1, <4>4
      <4>6. pots[old(i)].members \in SUBSET Seats
        BY <2>1, <2>5
      <4> HIDE DEF old
      <4>7. /\ pots'[i].members = pots[old(i)].members
            /\ pots'[i].value = pots[old(i)].value
        BY <2>5, <4>4
      <4>8. ASSUME NEW y \in pots'[i].members, NEW x \in Seats, x # y
            PROVE  Paid(x)' <= Paid(y)' - pots'[i].value
        <5>1. y \in Seats /\ Paid(x) <= Paid(y) - pots[old(i)].value
          BY <4>2, <4>6, <4>7, <4>8
        <5> QED
          BY <1>1, <4>7, <5>1
      <4> QED
        BY <4>2, <4>5, <4>7, <4>8
    <3>2. Len(pots') = L - 1 /\ DOMAIN pots' = 1..(L - 1)
      BY <2>2 DEF L
    <3> QED
      BY <3>1, <3>2 DEF SoleIsLast
  <2>10. PotsArePaid'
    <3> DEFINE f == Worth
               g == Worth'
    <3>1. DOMAIN f = 1..L /\ DOMAIN g = 1..(L - 1)
      BY <2>1, <2>2 DEF Worth, L
    <3>2. \A j \in 1..L : f[j] \in Int
      BY <2>1 DEF Worth
    <3>3. ASSUME NEW j \in 1..(L - 1)
          PROVE  g[j] = IF j = at THEN f[at] + f[at + 1]
                        ELSE IF j < at THEN f[j] ELSE f[j + 1]
      <4>0. at \in 1..L /\ at + 1 \in 1..L /\ old(j) \in 1..L
        BY <2>1, <2>4, <2>5
      <4>1. /\ g[j] = pots'[j].value /\ f[at] = pots[at].value
            /\ f[at + 1] = pots[at + 1].value /\ f[old(j)] = pots[old(j)].value
        BY <2>1, <2>2, <4>0 DEF Worth, L
      <4>2. j # at => g[j] = f[old(j)]
        BY <2>5, <4>1
      <4>3. j # at => old(j) = IF j < at THEN j ELSE j + 1
        BY <2>4
      <4> HIDE DEF f, g, old
      <4> QED
        BY <2>5, <4>1, <4>2, <4>3
    <3> HIDE DEF f, g
    <3>0. L \in Nat /\ at \in 1..(L - 1)
      BY <2>4
    <3>4. SumFunctionOnSet(g, 1..(L - 1)) = SumFunctionOnSet(f, 1..L)
      BY <3>0, <3>2, <3>3, SumJoin
    <3>5. SumFunction(Worth') = SumFunction(Worth)
      BY <3>1, <3>4, SumOfDomain DEF f, g
    <3>6. Takings' = Takings
      BY <1>1 DEF Takings
    <3> QED
      BY <3>5, <3>6 DEF PotsArePaid
  <2>11. FairClaims'
    <3>1. SUFFICES ASSUME NEW s \in InHand
                   PROVE  SumFunction(Claim(s)') = SumFunction(Matched(s)')
      BY <1>1 DEF FairClaims
    <3> DEFINE f == Claim(s)
               g == Claim(s)'
    <3>2. DOMAIN f = 1..L /\ DOMAIN g = 1..(L - 1)
      BY <2>1, <2>2 DEF Claim, L
    <3>3. \A j \in 1..L : f[j] \in Int
      BY <2>1 DEF Claim
    <3>4. ASSUME NEW j \in 1..(L - 1)
          PROVE  g[j] = IF j = at THEN f[at] + f[at + 1]
                        ELSE IF j < at THEN f[j] ELSE f[j + 1]
      <4> DEFINE part(i) == IF s \in pots[i].members THEN pots[i].value ELSE 0
      <4>1. at \in 1..L /\ at + 1 \in 1..L /\ old(j) \in 1..L
        BY <2>1, <2>4, <2>5
      <4>2. /\ g[j] = IF s \in pots'[j].members THEN pots'[j].value ELSE 0
            /\ f[at] = part(at) /\ f[at + 1] = part(at + 1)
            /\ f[old(j)] = part(old(j))
        BY <2>1, <2>2, <4>1 DEF Claim, L
      <4>3. j # at => old(j) = IF j < at THEN j ELSE j + 1
        BY <2>4
      <4>4. old(at) = at
        BY <2>4
      <4> HIDE DEF f, g, old
      <4>5. j # at => g[j] = f[old(j)]
        BY <2>5, <4>2
      <4>6. CASE j = at
        <5>1. /\ pots'[at].members = pots[at].members
              /\ pots'[at].value = pots[at].value + pots[at + 1].value
          BY <2>5, <4>4, <4>6
        <5> QED
          BY <2>2, <4>2, <4>6, <5>1
      <4> QED
        BY <4>3, <4>5, <4>6
    <3> HIDE DEF f, g
    <3>0. L \in Nat /\ at \in 1..(L - 1)
      BY <2>4
    <3>5. SumFunctionOnSet(g, 1..(L - 1)) = SumFunctionOnSet(f, 1..L)
      BY <3>0, <3>3, <3>4, SumJoin
    <3>6. SumFunction(Claim(s)') = SumFunction(Claim(s))
      BY <3>2, <3>5, SumOfDomain DEF f, g
    <3>7. Matched(s)' = Matched(s)
      BY <1>1 DEF Matched, InHand
    <3> QED
      BY <3>6, <3>7 DEF FairClaims
  <2> QED
    BY <1>1, <2>6, <2>7, <2>8, <2>9, <2>10, <2>11
<1> QED
  BY <1>2, <1>3

\* Giving back.  What is given back is what the seat has paid more than any
\* other, so it changes nobody's claims but the seat's own.
LEMMA ReturnPotLedger ==
    ASSUME MoveInv, Claims, Ledger, ReturnPot
    PROVE  /\ Ledger'
           /\ \A s, x \in Seats : Paid(x) <= Paid(s) => Paid(x)' <= Paid(s)'
<1> USE DEF MoveInv, Claims, Ledger
<1>1. /\ UNCHANGED <<status, leaving, bets>> /\ mv = "return"
      /\ InHand' = InHand
  BY DEF ReturnPot, InHand
<1>2. CASE ~ Sole(pots[at])
  <2>1. UNCHANGED <<pots, balance>>
    BY <1>2, ReturnShape
  <2>2. Ledger'
    BY <1>1, <2>1, LedgerStays
  <2> QED
    BY <2>1, <2>2 DEF Paid
<1>3. CASE Sole(pots[at])
  <2> DEFINE L == Len(pots)
             v == pots[at].value
  <2>1. /\ L \in Nat \ {0} /\ DOMAIN pots = 1..L
        /\ \A i \in 1..L : /\ pots[i].value \in Nat
                           /\ pots[i].members \in SUBSET Seats
                           /\ pots[i].trueMembers \in SUBSET Seats
        /\ \A s \in Seats : Paid(s) \in Int
    BY LedgerTypes DEF LastIsOpen
  <2>2. /\ at \in 1..L
        /\ Len(pots') = L - 1
        /\ DOMAIN pots' = 1..(L - 1)
        /\ \A i \in 1..(L - 1) :
              pots'[i] = IF i < at THEN pots[i] ELSE pots[i + 1]
    BY <1>3, ReturnShape
  <2>3. /\ at + 1 = L /\ pots[at].members # {}
        /\ \A z \in pots[at].members, x \in Seats :
              x # z => Paid(x) <= Paid(z) - v
    BY <1>3, <2>1, <2>2 DEF SoleIsLast
  <2>4. v \in Nat
    BY <2>1, <2>2
  <2>5. PICK z : pots[at].trueMembers = {z}
    BY <1>3, <2>1, <2>2, SeatsFinite, FS_Singleton DEF Sole
  <2>6. pots[at].members = {z} /\ z \in Seats
    BY <2>1, <2>2, <2>3, <2>5 DEF MembersPaid
  <2>7. status[z] # "empty" /\ Booked(z)
    BY <2>1, <2>2, <2>6
       DEF NobodyGone, MembersArePlayed, Sidelined, Booked, Taken
  <2>8. Lowest({z}) = z
    <3>1. {z} \in SUBSET Nat /\ {z} # {}
      BY <2>6 DEF Seats
    <3> QED
      BY <3>1, LowestIsLeast
  <2>9. balance' = [s \in Seats |-> IF s = z THEN balance[s] + v ELSE balance[s]]
    <3>1. balance' = [s \in Seats |->
                        IF s = Lowest(pots[at].members) /\ Booked(s)
                        THEN balance[s] + pots[at].value ELSE balance[s]]
      BY <1>3, <2>3 DEF ReturnPot, Sole
    <3> QED
      BY <2>6, <2>7, <2>8, <3>1
  <2> HIDE DEF L, v
  <2>10. \A s \in Seats :
            Paid(s)' = IF s = z THEN Paid(s) - v ELSE Paid(s)
    <3>1. \A s \in Seats : balance[s] \in Int
      BY DEF PotsTyped
    <3> QED
      BY <2>4, <2>9, <3>1 DEF Paid
  <2>11. \A x \in Seats : x # z => Paid(x) <= Paid(z) - v
    BY <2>3, <2>6
  <2>12. \A i \in 1..(L - 1) : /\ i < at => i \in 1..L /\ pots'[i] = pots[i]
                               /\ i >= at => i = L - 1 /\ pots'[i] = pots[L]
    BY <2>1, <2>2, <2>3
  <2>13. /\ pots[L].value = 0 /\ pots[L].members = {}
         /\ pots[L].trueMembers = {}
    BY DEF LastIsOpen, L
  <2>14. \A s, x \in Seats : Paid(x) <= Paid(s) => Paid(x)' <= Paid(s)'
    <3>1. ASSUME NEW s \in Seats, NEW x \in Seats, Paid(x) <= Paid(s)
          PROVE  Paid(x)' <= Paid(s)'
      BY <2>1, <2>4, <2>6, <2>10, <2>11, <3>1
    <3> QED
      BY <3>1
  <2>15. NobodyGone'
    <3>1. \A s \in Seats, i \in 1..(L - 1) : status[s] = "empty" =>
             bets[s] = 0 /\ s \notin pots'[i].members
      <4>1. \A i \in 1..(L - 1) : i < at \/ i >= at
        BY <2>2
      <4> QED
        BY <2>1, <2>12, <2>13, <4>1 DEF NobodyGone
    <3> QED
      BY <1>1, <2>2, <3>1 DEF NobodyGone
  <2>16. LastIsOpen'
    <3>1. L - 1 \in 1..(L - 1) /\ L - 1 >= at /\ L - 1 # 0
      BY <2>1, <2>2, <2>3
    <3>2. pots'[L - 1] = pots[L]
      BY <2>12, <3>1
    <3>3. \A i \in 1..((L - 1) - 1) : i \in 1..(L - 1) /\ i < at
      BY <2>1, <2>2, <2>3
    <3>4. \A i \in 1..((L - 1) - 1) :
             pots'[i].value > 0 /\ pots'[i].trueMembers # {}
      BY <2>12, <3>3 DEF LastIsOpen, L
    <3> QED
      BY <2>2, <2>13, <3>1, <3>2, <3>4 DEF LastIsOpen
  <2>17. HighBetsPaidMore'
    <3>1. \A s \in Seats : bets[s] = 0
      BY <1>1 DEF MovedBets
    <3>2. \A s, x \in Seats : ~ (bets[x] < bets[s])
      BY <3>1
    <3> QED
      BY <1>1, <3>2 DEF HighBetsPaidMore
  <2>18. SoleIsLast'
    <3>1. \A i \in 1..(L - 1) : ~ Sole(pots'[i])
      <4>1. SUFFICES ASSUME NEW i \in 1..(L - 1) PROVE ~ Sole(pots'[i])
        OBVIOUS
      <4>2. CASE i < at
        <5>1. pots'[i] = pots[i] /\ i \in 1..L /\ i # at
          BY <2>2, <2>12, <4>2
        <5> QED
          BY <1>3, <2>1, <2>2, <5>1 DEF OneSole
      <4>3. CASE i >= at
        <5>1. pots'[i] = pots[L]
          BY <2>12, <4>3
        <5> QED
          BY <2>13, <5>1, FS_EmptySet DEF Sole
      <4> QED
        BY <2>2, <4>2, <4>3
    <3> QED
      BY <2>2, <3>1 DEF SoleIsLast
  <2>19. PotsArePaid'
    <3> DEFINE f == Worth
               g == Worth'
    <3>1. DOMAIN f = 1..L /\ DOMAIN g = 1..(L - 1)
      BY <2>1, <2>2 DEF Worth, L
    <3>2. \A j \in 1..L : f[j] \in Int
      BY <2>1 DEF Worth
    <3>3. ASSUME NEW j \in 1..(L - 1)
          PROVE  g[j] = IF j < at THEN f[j] ELSE f[j + 1]
      <4>1. g[j] = pots'[j].value
        BY <2>2 DEF Worth
      <4>2. j \in 1..L /\ j + 1 \in 1..L
        BY <2>1
      <4>3. f[j] = pots[j].value /\ f[j + 1] = pots[j + 1].value
        BY <2>1, <4>2 DEF Worth
      <4> HIDE DEF f, g
      <4> QED
        BY <2>2, <4>1, <4>3
    <3>4. f[at] = v
      BY <2>1, <2>2 DEF Worth, v
    <3> HIDE DEF f, g
    <3>5. SumFunctionOnSet(g, 1..(L - 1)) = SumFunctionOnSet(f, 1..L) - f[at]
      <4>1. L \in Nat /\ at \in 1..L
        BY <2>1, <2>2
      <4> HIDE DEF L
      <4> QED
        BY <3>2, <3>3, <4>1, SumWithout
    <3>6. SumFunction(Worth') = SumFunction(Worth) - v
      BY <3>1, <3>4, <3>5, SumOfDomain DEF f, g
    <3>7. SumFunction(Takings') = SumFunction(Takings) - v
      <4> DEFINE old == Takings
                 new == Takings'
      <4>1. DOMAIN old = Seats /\ DOMAIN new = Seats
        BY DEF Takings
      <4>2. \A x \in Seats : old[x] \in Int /\ new[x] \in Int
        BY <2>1, <2>4, <2>10 DEF Takings
      <4>3. \A x \in Seats \ {z} : old[x] = new[x]
        BY <2>10 DEF Takings
      <4>4. new[z] = old[z] - v
        BY <2>6, <2>10 DEF Takings
      <4> HIDE DEF old, new
      <4>5. SumFunctionOnSet(new, Seats)
              = SumFunctionOnSet(old, Seats) - old[z] + new[z]
        BY <2>6, <4>2, <4>3, LedgerTypes, SumChange
      <4>6. SumFunctionOnSet(old, Seats) \in Int
        BY <4>2, LedgerTypes, SumType
      <4>7. SumFunctionOnSet(new, Seats) = SumFunctionOnSet(old, Seats) - v
        BY <2>4, <2>6, <4>2, <4>4, <4>5, <4>6
      <4> QED
        BY <4>1, <4>7, SumOfDomain DEF old, new
    <3> QED
      BY <3>6, <3>7 DEF PotsArePaid
  <2>20. FairClaims'
    <3>1. SUFFICES ASSUME NEW s \in InHand
                   PROVE  SumFunction(Claim(s)') = SumFunction(Matched(s)')
      BY <1>1 DEF FairClaims
    <3>2. s \in Seats
      BY DEF InHand
    <3> DEFINE w == IF s = z THEN v ELSE 0
    <3>3. SumFunction(Claim(s)') = SumFunction(Claim(s)) - w
      <4> DEFINE f == Claim(s)
                 g == Claim(s)'
      <4>1. DOMAIN f = 1..L /\ DOMAIN g = 1..(L - 1)
        BY <2>1, <2>2 DEF Claim, L
      <4>2. \A j \in 1..L : f[j] \in Int
        BY <2>1 DEF Claim
      <4>3. ASSUME NEW j \in 1..(L - 1)
            PROVE  g[j] = IF j < at THEN f[j] ELSE f[j + 1]
        <5> DEFINE part(i) == IF s \in pots[i].members THEN pots[i].value ELSE 0
        <5>1. g[j] = IF s \in pots'[j].members THEN pots'[j].value ELSE 0
          BY <2>2 DEF Claim
        <5>2. j \in 1..L /\ j + 1 \in 1..L
          BY <2>1
        <5>3. f[j] = part(j) /\ f[j + 1] = part(j + 1)
          BY <2>1, <5>2 DEF Claim
        <5> HIDE DEF f, g
        <5> QED
          BY <2>2, <5>1, <5>3
      <4>4. f[at] = w
        BY <2>1, <2>2, <2>6 DEF Claim, v
      <4> DEFINE k == at
      <4>5. L \in Nat /\ k \in 1..L
        BY <2>1, <2>2
      <4> HIDE DEF f, g, w, k
      <4>6. \A j \in 1..(L - 1) : g[j] = IF j < k THEN f[j] ELSE f[j + 1]
        BY <4>3 DEF k
      <4>7. SumFunctionOnSet(g, 1..(L - 1)) = SumFunctionOnSet(f, 1..L) - f[k]
        BY <4>2, <4>5, <4>6, SumWithout
      <4> QED
        BY <4>1, <4>4, <4>7, SumOfDomain DEF f, g, k
    <3>4. SumFunction(Matched(s)') = SumFunction(Matched(s)) - w
      <4> DEFINE old == Matched(s)
                 new == Matched(s)'
      <4>1. DOMAIN old = Seats /\ DOMAIN new = Seats
        BY DEF Matched
      <4>2. \A x \in Seats :
              /\ old[x] = IF Paid(x) < Paid(s) THEN Paid(x) ELSE Paid(s)
              /\ new[x] = IF Paid(x)' < Paid(s)' THEN Paid(x)' ELSE Paid(s)'
        BY DEF Matched
      <4> HIDE DEF old, new
      <4>3. \A x \in Seats : old[x] \in Int /\ new[x] \in Int
        BY <2>1, <2>4, <2>10, <3>2, <4>2
      <4>4. \A x \in Seats \ {z} : old[x] = new[x]
        <5>1. SUFFICES ASSUME NEW x \in Seats \ {z} PROVE old[x] = new[x]
          OBVIOUS
        <5>2. Paid(x)' = Paid(x) /\ Paid(x) <= Paid(z) - v
          BY <2>10, <2>11
        <5>3. CASE s = z
          BY <2>1, <2>4, <2>6, <2>10, <4>2, <5>2, <5>3
        <5>4. CASE s # z
          BY <2>10, <3>2, <4>2, <5>2, <5>4
        <5> QED
          BY <5>3, <5>4
      <4>5. new[z] = old[z] - w
        <5>1. Paid(z)' = Paid(z) - v /\ Paid(z) \in Int
          BY <2>1, <2>6, <2>10
        <5>2. CASE s = z
          BY <2>4, <2>6, <4>2, <5>1, <5>2
        <5>3. CASE s # z
          <6>1. Paid(s)' = Paid(s) /\ Paid(s) <= Paid(z) - v /\ Paid(s) \in Int
            BY <2>1, <2>10, <2>11, <3>2, <5>3
          <6> QED
            BY <2>4, <2>6, <4>2, <5>1, <5>3, <6>1
        <5> QED
          BY <5>2, <5>3
      <4>6. w \in Int
        BY <2>4
      <4> HIDE DEF w
      <4>7. SumFunctionOnSet(new, Seats)
              = SumFunctionOnSet(old, Seats) - old[z] + new[z]
        BY <2>6, <4>3, <4>4, LedgerTypes, SumChange
      <4>8. SumFunctionOnSet(old, Seats) \in Int
        BY <4>3, LedgerTypes, SumType
      <4>9. SumFunctionOnSet(new, Seats) = SumFunctionOnSet(old, Seats) - w
        BY <2>6, <4>3, <4>5, <4>6, <4>7, <4>8
      <4> QED
        BY <4>1, <4>9, SumOfDomain DEF old, new
    <3>5. SumFunction(Claim(s)) = SumFunction(Matched(s))
      BY DEF FairClaims
    <3> QED
      BY <3>3, <3>4, <3>5
  <2> QED
    BY <2>14, <2>15, <2>16, <2>17, <2>18, <2>19, <2>20
<1> QED
  BY <1>2, <1>3

\* A seat that has paid no less than any other is a member of every pot.
LEMMA LeaderHasClaims ==
    ASSUME PotsTyped, Ledger, NEW z \in InHand,
           \A x \in Seats : Paid(x) <= Paid(z),
           NEW i \in DOMAIN pots, pots[i].value > 0
    PROVE  z \in pots[i].members
<1> USE DEF Ledger
<1> DEFINE D == DOMAIN pots
           f == Claim(z)
           g == Worth
<1>1. /\ IsFiniteSet(D) /\ D = 1..Len(pots) /\ Len(pots) \in Nat
      /\ \A j \in D : pots[j].value \in Nat
      /\ DOMAIN f = D /\ DOMAIN g = D
      /\ z \in Seats
  BY LedgerTypes, FS_Interval DEF Claim, Worth, InHand
<1>2. \A j \in D : /\ f[j] \in Int /\ g[j] \in Int /\ f[j] <= g[j]
                   /\ f[j] = IF z \in pots[j].members THEN g[j] ELSE 0
                   /\ g[j] = pots[j].value
  BY <1>1 DEF Claim, Worth
<1>3. Matched(z) = Takings
  <2>1. \A x \in Seats : Paid(x) \in Int /\ Paid(z) \in Int
    BY <1>1, LedgerTypes
  <2>2. \A x \in Seats :
           (IF Paid(x) < Paid(z) THEN Paid(x) ELSE Paid(z)) = Paid(x)
    BY <2>1
  <2> QED
    BY <2>2 DEF Matched, Takings
<1>4. SumFunctionOnSet(f, D) = SumFunctionOnSet(g, D)
  <2>1. SumFunction(f) = SumFunction(g)
    BY <1>3 DEF FairClaims, PotsArePaid
  <2> QED
    BY <1>1, <2>1, SumOfDomain
<1> HIDE DEF f, g, D
<1>5. i \in D
  BY DEF D
<1>6. SumFunctionOnSet(f, D) = f[i] + SumFunctionOnSet(f, D \ {i})
  <2>1. \A x \in D : f[x] \in Int
    BY <1>2
  <2> QED
    BY <1>1, <1>5, <2>1, SumRemove
<1>7. SumFunctionOnSet(g, D) = g[i] + SumFunctionOnSet(g, D \ {i})
  <2>1. \A x \in D : g[x] \in Int
    BY <1>2
  <2> QED
    BY <1>1, <1>5, <2>1, SumRemove
<1>8. /\ SumFunctionOnSet(f, D \ {i}) <= SumFunctionOnSet(g, D \ {i})
      /\ SumFunctionOnSet(f, D \ {i}) \in Int
      /\ SumFunctionOnSet(g, D \ {i}) \in Int
  <2> DEFINE C == D \ {i}
  <2>1. IsFiniteSet(C)
    BY <1>1, FS_Subset
  <2>2. \A x \in C : f[x] \in Int /\ g[x] \in Int /\ f[x] <= g[x]
    BY <1>2
  <2> HIDE DEF C
  <2>3. /\ SumFunctionOnSet(f, C) <= SumFunctionOnSet(g, C)
        /\ SumFunctionOnSet(f, C) \in Int /\ SumFunctionOnSet(g, C) \in Int
    BY <2>1, <2>2, SumAtMost, SumType
  <2> QED
    BY <2>3 DEF C
<1>9. f[i] >= g[i]
  <2>1. \A a, b, x, y \in Int : a + x = b + y /\ x <= y => a >= b
    OBVIOUS
  <2>2. f[i] \in Int /\ g[i] \in Int
    BY <1>2, <1>5
  <2>3. f[i] + SumFunctionOnSet(f, D \ {i}) = g[i] + SumFunctionOnSet(g, D \ {i})
    BY <1>4, <1>6, <1>7
  <2> QED
    BY <1>8, <2>1, <2>2, <2>3
<1> QED
  BY <1>2, <1>5, <1>9
-----------------------------------------------------------------------------
(***************************************************************************)
(* Rounds.                                                                 *)
(***************************************************************************)

\* What a seat has paid, and has yet to pay in this round.
Total(s) == Paid(s) + bets[s]

\* Nobody has put in more than a seat that can still bet, and one that has
\* put in the most is in the hand.
Leaders ==
    /\ \A s \in Playing, x \in Seats : Total(x) <= Total(s)
    /\ \E z \in InHand : \A x \in Seats : Total(x) <= Total(z)

PutIsKnown ==
    \A s \in Seats : put[s] \in Nat /\ put[s] - Account(s) = 0

RInv ==
    /\ MoveInv /\ Claims /\ Ledger /\ Leaders /\ PutIsKnown
    /\ status \in [Seats -> Players] /\ failed = "no"
    /\ mv = "none" => bets = [s \in Seats |-> 0]

LEMMA RoundsBegin == RoundsInit => RInv
<1> SUFFICES ASSUME RoundsInit PROVE RInv
  OBVIOUS
<1> USE DEF RoundsInit
<1>0. /\ EmptyPot \in Pots /\ EmptyPot.members = {} /\ EmptyPot.value = 0
      /\ EmptyPot.trueMembers = {} /\ ~ Sole(EmptyPot)
  BY EmptyPotClaims DEF EmptyPot
<1>1. /\ pots \in Seq(Pots) /\ Len(pots) = 1 /\ DOMAIN pots = 1..1
      /\ pots[1] = EmptyPot /\ 1..1 = {1}
  BY <1>0
<1>2. PotsTyped
  BY <1>1 DEF PotsTyped, Statuses, NoSeat
<1>3. MoveInv
  <2>1. \A i \in DOMAIN pots : pots[i].members = {}
    BY <1>0, <1>1
  <2>2. BetsArePlayed /\ MovedBets
    BY DEF BetsArePlayed, MovedBets, Sidelined
  <2> QED
    BY <1>2, <2>1, <2>2 DEF MoveInv, MembersArePlayed
<1>4. Claims
  BY <1>0, <1>1 DEF Claims, MembersPaid, MembersInHand, OneSole, SoleIsAhead
<1>5. \A s \in Seats : Paid(s) = 0 /\ Total(s) = 0 /\ bets[s] = 0
  <2>1. \A s \in Seats : balance[s] = 0 /\ bets[s] = 0
    OBVIOUS
  <2>2. \A s \in Seats : balance[s] \in Int /\ Paid(s) + balance[s] = 0
    BY <1>2 DEF PotsTyped, Paid
  <2>3. \A s \in Seats : Paid(s) \in Int
    BY <1>2, LedgerTypes
  <2>4. \A s \in Seats : Paid(s) = 0
    <3>1. \A m, n \in Int : m + n = 0 /\ n = 0 => m = 0
      OBVIOUS
    <3> QED
      BY <2>1, <2>2, <2>3, <3>1
  <2> QED
    BY <2>1, <2>4 DEF Total
<1>6. Ledger
  <2>1. NobodyGone /\ HighBetsPaidMore /\ SoleIsLast
    BY <1>0, <1>1, <1>5 DEF NobodyGone, HighBetsPaidMore, SoleIsLast
  <2>2. LastIsOpen
    BY <1>0, <1>1 DEF LastIsOpen
  <2>3. \A f, D : IsFiniteSet(D) /\ DOMAIN f = D /\ (\A x \in D : f[x] = 0)
                    => SumFunction(f) = 0
    BY SumZero, SumOfDomain
  <2>4. IsFiniteSet(Seats) /\ IsFiniteSet(DOMAIN pots)
    <3>1. IsFiniteSet({1})
      BY FS_Singleton
    <3> QED
      BY <1>1, <1>2, <3>1, LedgerTypes
  <2>5. PotsArePaid
    <3>1. /\ DOMAIN Worth = DOMAIN pots /\ \A i \in DOMAIN pots : Worth[i] = 0
          /\ DOMAIN Takings = Seats /\ \A s \in Seats : Takings[s] = 0
      BY <1>0, <1>1, <1>5 DEF Worth, Takings
    <3>2. SumFunction(Worth) = 0
      BY <2>3, <2>4, <3>1
    <3>3. SumFunction(Takings) = 0
      BY <2>3, <2>4, <3>1
    <3> QED
      BY <3>2, <3>3 DEF PotsArePaid
  <2>6. ASSUME NEW s \in InHand
        PROVE  SumFunction(Claim(s)) = SumFunction(Matched(s))
    <3>0. s \in Seats
      BY DEF InHand
    <3>1. /\ DOMAIN Claim(s) = DOMAIN pots
          /\ \A i \in DOMAIN pots : Claim(s)[i] = 0
          /\ DOMAIN Matched(s) = Seats
          /\ \A x \in Seats : Matched(s)[x] = 0
      BY <1>0, <1>1, <1>5, <3>0 DEF Claim, Matched
    <3>2. SumFunction(Claim(s)) = 0
      BY <2>3, <2>4, <3>1
    <3>3. SumFunction(Matched(s)) = 0
      BY <2>3, <2>4, <3>1
    <3> QED
      BY <3>2, <3>3
  <2> QED
    BY <2>1, <2>2, <2>5, <2>6 DEF Ledger, FairClaims
<1>7. Leaders
  <2>1. 0 \in InHand
    BY NAssumption DEF InHand, Seats
  <2> QED
    BY <1>5, <2>1 DEF Leaders, Playing, InHand
<1>8. PutIsKnown
  BY DEF PutIsKnown, Account
<1>9. status \in [Seats -> Players]
  BY DEF Players
<1> QED
  BY <1>3, <1>4, <1>6, <1>7, <1>8, <1>9 DEF RInv

\* A round of betting.  The pots are as they were but for their members that
\* have folded, and only a seat that could bet, and so has paid no less than
\* anybody, has anything to pay.
LEMMA BetKeeps ==
    ASSUME RInv, Bet
    PROVE  RInv'
<1> USE DEF RInv
<1>1. PICK st \in [Seats -> Players], b \in [Seats -> 0..MaxBet] :
        /\ CanEnd(st, b)
        /\ status' = st /\ bets' = b
        /\ put' = [s \in Seats |-> put[s] + b[s]]
        /\ pots' = [i \in DOMAIN pots |->
                      [pots[i] EXCEPT !.members =
                         @ \ {s \in Seats : st[s] = "psFolded"}]]
  BY DEF Bet
<1>2. /\ mv = "none" \/ (mv = "return" /\ at > Len(pots))
      /\ mv' = "pass" /\ at' = 1
      /\ UNCHANGED <<leaving, chips, balance, failed>>
  BY DEF Bet, Moved
<1> DEFINE folded == {s \in Seats : st[s] = "psFolded"}
           L == Len(pots)
<1>3. bets = [s \in Seats |-> 0] /\ \A s \in Seats : bets[s] = 0
  BY <1>2 DEF MoveInv, MovedBets
<1>4. /\ pots \in Seq(Pots) /\ L \in Nat /\ DOMAIN pots = 1..L
      /\ \A i \in 1..L : pots[i] \in Pots
  BY DEF MoveInv, PotsTyped
<1>5. /\ pots' \in Seq(Pots) /\ Len(pots') = L /\ DOMAIN pots' = 1..L
      /\ \A i \in 1..L : /\ pots'[i].value = pots[i].value
                         /\ pots'[i].members = pots[i].members \ folded
                         /\ pots'[i].trueMembers = pots[i].trueMembers
  <2>1. \A i \in 1..L :
           /\ [pots[i] EXCEPT !.members = @ \ folded] \in Pots
           /\ pots'[i] = [pots[i] EXCEPT !.members = @ \ folded]
    BY <1>1, <1>4 DEF Pots
  <2>2. \A i \in 1..L : /\ pots'[i].value = pots[i].value
                        /\ pots'[i].members = pots[i].members \ folded
                        /\ pots'[i].trueMembers = pots[i].trueMembers
    BY <1>4, <2>1 DEF Pots
  <2>3. pots' \in [1..L -> Pots]
    BY <1>1, <1>4, <2>1
  <2>4. pots' \in Seq(Pots) /\ DOMAIN pots' = 1..L
    BY <1>4, <2>3, SeqDef
  <2>5. Len(pots') = L
    <3>1. Len(pots') \in Nat /\ DOMAIN pots' = 1..Len(pots')
      BY <2>4, LenProperties
    <3> QED
      BY <1>4, <2>4, <3>1, SameInterval
  <2> QED
    BY <2>2, <2>4, <2>5
<1>6. \A s \in Seats :
        /\ b[s] \in Nat
        /\ status[s] # "psInHand" => st[s] = status[s] /\ b[s] = 0
        /\ status[s] \in Players /\ st[s] \in Players
  <2>1. \A s \in Seats : status[s] # "psInHand" => st[s] = status[s] /\ b[s] = 0
    BY <1>1 DEF CanEnd
  <2>2. \A s \in Seats : b[s] \in Nat
    BY <1>1, RoundsAssumption
  <2> QED
    BY <1>1, <2>1, <2>2
<1> DEFINE top == Max({b[s] : s \in Seats})
<1>7. \A s \in Seats : b[s] <= top
  <2>1. /\ {b[s] : s \in Seats} \in SUBSET Nat
        /\ \A x \in {b[s] : s \in Seats} : x <= MaxBet
        /\ MaxBet \in Nat
    BY <1>1, RoundsAssumption
  <2>2. {b[s] : s \in Seats} # {}
    <3>1. 0 \in Seats
      BY NAssumption DEF Seats
    <3>2. b[0] \in {b[s] : s \in Seats}
      BY <3>1
    <3> QED
      BY <3>2
  <2> QED
    BY <2>1, <2>2, MaxIsGreatest
<1>8. \A s \in Seats : st[s] = "psInHand" => status[s] = "psInHand" /\ b[s] = top
  BY <1>1, <1>6 DEF CanEnd
<1>9. PICK z \in Playing : st[z] # "psFolded" /\ b[z] = top
  BY <1>1 DEF CanEnd
<1> HIDE DEF folded, top, L
<1>10. /\ \A s \in Seats : Paid(s)' = Paid(s) /\ Paid(s) \in Int
       /\ \A s \in Seats : Total(s)' = Paid(s) + b[s] /\ Total(s) = Paid(s)
  BY <1>1, <1>2, <1>3, LedgerTypes DEF Paid, Total, MoveInv
<1>11. \A s \in Playing, x \in Seats : Paid(x) <= Paid(s)
  BY <1>10 DEF Leaders, Playing
<1>12. /\ \A s \in Seats : s \in InHand' <=> st[s] # "psFolded"
       /\ \A s \in InHand' : s \in InHand /\ s \notin folded
       /\ Playing' \in SUBSET Playing /\ InHand' \in SUBSET Seats
  BY <1>1, <1>6, <1>8 DEF InHand, Playing, folded, Players
<1>13. MoveInv'
  <2>1. PotsTyped'
    BY <1>1, <1>2, <1>5, <1>6
       DEF MoveInv, PotsTyped, Players, Statuses
  <2>2. Sidelined' = {}
    BY <1>1, <1>6 DEF Sidelined, Players
  <2> QED
    BY <1>2, <2>1, <2>2
       DEF MoveInv, BetsArePlayed, MembersArePlayed, MovedBets
<1>14. \A i \in 1..L : ~ Sole(pots[i]) /\ ~ Sole(pots'[i])
  <2>1. ASSUME NEW i \in 1..L PROVE ~ Sole(pots[i])
    <3>1. i \in DOMAIN pots
      BY <1>4 DEF L
    <3>2. ~ (i >= at) \/ mv = "none"
      BY <1>2, <1>4 DEF L, MoveInv, PotsTyped
    <3> QED
      BY <1>2, <3>1, <3>2 DEF Claims, SoleIsAhead
  <2> QED
    BY <1>5, <2>1 DEF Sole
<1>15. Claims'
  <2>1. MembersPaid'
    BY <1>4, <1>5 DEF Claims, MembersPaid
  <2>2. \A i \in 1..L : pots'[i].members \subseteq InHand'
    BY <1>4, <1>5, <1>12 DEF folded, Pots
  <2> QED
    BY <1>2, <1>5, <1>14, <2>1, <2>2
       DEF Claims, MembersInHand, OneSole, SoleIsAhead
<1>16. Ledger'
  <2>1. NobodyGone'
    BY <1>1, <1>6 DEF NobodyGone, Players
  <2>2. LastIsOpen'
    <3>1. L \in 1..L /\ L # 0 /\ \A i \in 1..(L - 1) : i \in 1..L
      BY <1>4 DEF Ledger, LastIsOpen, L
    <3> QED
      BY <1>5, <3>1 DEF Ledger, LastIsOpen, L
  <2>3. HighBetsPaidMore'
    <3>1. ASSUME NEW s \in Seats, NEW x \in Seats, b[x] < b[s]
          PROVE  Paid(x) <= Paid(s)
      <4>1. s \in Playing
        BY <1>6, <3>1 DEF Playing
      <4> QED
        BY <1>11, <4>1
    <3> QED
      BY <1>1, <1>10, <3>1 DEF HighBetsPaidMore
  <2>4. SoleIsLast'
    BY <1>5, <1>14 DEF SoleIsLast
  <2>5. PotsArePaid'
    <3>1. Worth' = Worth
      BY <1>4, <1>5 DEF Worth
    <3>2. Takings' = Takings
      BY <1>10 DEF Takings
    <3> QED
      BY <3>1, <3>2 DEF Ledger, PotsArePaid
  <2>6. FairClaims'
    <3>1. SUFFICES ASSUME NEW s \in InHand'
                   PROVE  SumFunction(Claim(s)') = SumFunction(Matched(s)')
      BY DEF FairClaims
    <3>2. s \in InHand /\ s \notin folded /\ s \in Seats
      BY <1>12
    <3>3. Claim(s)' = Claim(s)
      BY <1>4, <1>5, <3>2 DEF Claim
    <3>4. Matched(s)' = Matched(s)
      BY <1>10, <3>2 DEF Matched
    <3> QED
      BY <3>2, <3>3, <3>4 DEF Ledger, FairClaims
  <2> QED
    BY <2>1, <2>2, <2>3, <2>4, <2>5, <2>6 DEF Ledger
<1>17. Leaders'
  <2>1. ASSUME NEW s \in Playing, b[s] = top, NEW x \in Seats
        PROVE  Total(x)' <= Total(s)'
    <3>1. s \in Seats /\ b[x] <= b[s] /\ Paid(x) <= Paid(s)
      BY <1>7, <1>11, <2>1 DEF Playing
    <3> QED
      BY <1>6, <1>10, <3>1
  <2>2. \A s \in Playing' : s \in Playing /\ b[s] = top
    BY <1>1, <1>8, <1>12 DEF Playing
  <2>3. z \in InHand'
    BY <1>9, <1>12 DEF Playing
  <2> QED
    BY <1>9, <2>1, <2>2, <2>3 DEF Leaders
<1>18. PutIsKnown'
  <2>1. ASSUME NEW s \in Seats
        PROVE  put'[s] \in Nat /\ put'[s] - Account(s)' = 0
    <3>1. put[s] \in Nat /\ put[s] - (chips[s] + 0 - balance[s]) = 0
      BY <1>3 DEF PutIsKnown, Account
    <3>2. /\ put'[s] = put[s] + b[s]
          /\ Account(s)' = chips[s] + b[s] - balance[s]
      BY <1>1, <1>2 DEF Account
    <3>3. chips[s] \in Int /\ balance[s] \in Int /\ b[s] \in Nat
      BY <1>6 DEF MoveInv, PotsTyped
    <3> QED
      BY <3>1, <3>2, <3>3
  <2> QED
    BY <2>1 DEF PutIsKnown
<1> QED
  BY <1>1, <1>2, <1>13, <1>15, <1>16, <1>17, <1>18

\* A step of moveToPot, when one that has put in as much as anybody is in the
\* hand: that seat is a member of every pot that is checked, and who has put
\* in the most still has.
LEMMA LeaderIsMember ==
    ASSUME MoveInv, Claims, Ledger, MoveStep,
           NEW z \in InHand, \A x \in Seats : Total(x) <= Total(z)
    PROVE  /\ failed' = "no" /\ Claims' /\ Ledger'
           /\ \A s, x \in Seats : Total(x) <= Total(s) => Total(x)' <= Total(s)'
<1>1. /\ InHand \subseteq Seats /\ z \in Seats
      /\ \A x \in Seats : /\ Paid(x) \in Int /\ bets[x] \in Nat
                          /\ Total(x) = Paid(x) + bets[x]
  BY LedgerTypes DEF InHand, Total, MoveInv, PotsTyped
<1>2. CASE MovePass
  <2>1. /\ Claims' /\ Ledger'
        /\ \A s \in Seats : Paid(s)' + bets'[s] = Paid(s) + bets[s]
    BY <1>2, MovePassClaims, MovePassLedger
  <2>2. \A s \in Seats : Total(s)' = Total(s)
    BY <1>1, <2>1 DEF Total
  <2>3. failed' = "no"
    <3>1. CASE Bettors = {}
      BY <1>2, <3>1 DEF MovePass
    <3>2. CASE Bettors # {}
      <4>1. z \in Bettors
        <5>1. PICK x \in Bettors : TRUE
          BY <3>2
        <5>2. x \in Seats /\ bets[x] > 0
          BY <5>1 DEF Bettors
        <5>3. bets[z] < bets[x] => Paid(z) <= Paid(x)
          BY <1>1, <5>2 DEF Ledger, HighBetsPaidMore
        <5>4. Paid(x) + bets[x] <= Paid(z) + bets[z]
          BY <1>1, <5>2
        <5>5. bets[z] > 0
          BY <1>1, <5>2, <5>3, <5>4
        <5> QED
          BY <1>1, <5>5 DEF Bettors
      <4>2. Len(pots) # 0
        BY DEF Ledger, LastIsOpen
      <4>3. PICK m \in Nat \ {0} :
              failed' = IF AddToPot(pots[Len(pots)], m, Bettors).members = {}
                        THEN "potWithoutMembers" ELSE "no"
        BY <1>2, <3>2, <4>2, PassShape
      <4>4. z \in AddToPot(pots[Len(pots)], m, Bettors).members
        <5>1. status[z] \notin {"empty", "psFolded"}
          BY DEF InHand
        <5>2. z \in pots[Len(pots)].members
                      \cup {s \in Bettors : status[s] \notin {"empty", "psFolded"}}
          BY <4>1, <5>1
        <5> QED
          BY <5>2 DEF AddToPot
      <4> QED
        BY <4>3, <4>4
    <3> QED
      BY <3>1, <3>2
  <2> QED
    BY <2>1, <2>2, <2>3
<1>3. CASE MergePots
  <2>1. \A x \in Seats : Paid(x) <= Paid(z)
    <3>1. \A s \in Seats : bets[s] = 0
      BY <1>3 DEF MergePots, MoveInv, MovedBets
    <3> QED
      BY <1>1, <3>1
  <2>2. failed' = "no"
    <3>1. CASE at >= Len(pots)
      BY <1>3, <3>1 DEF MergePots
    <3>2. CASE ~ (at >= Len(pots))
      <4>1. at \in DOMAIN pots
        BY <3>2, LedgerTypes DEF MoveInv, PotsTyped
      <4>2. pots[at].value > 0 => z \in pots[at].members
        BY <2>1, <4>1, LeaderHasClaims DEF MoveInv
      <4>3. failed' = IF pots[at].value > 0 /\ pots[at].members = {}
                      THEN "potWithoutMembers" ELSE "no"
        BY <1>3, <3>2 DEF MergePots
      <4> QED
        BY <4>2, <4>3
    <3> QED
      BY <3>1, <3>2
  <2>3. Claims' /\ Ledger'
    BY <1>3, <2>2, MergePotsClaims, MergePotsLedger
  <2>4. \A s \in Seats : Total(s)' = Total(s)
    BY <1>3 DEF MergePots, Total, Paid
  <2> QED
    BY <2>2, <2>3, <2>4
<1>4. CASE ReturnPot
  <2>1. /\ Claims' /\ Ledger'
        /\ \A s, x \in Seats : Paid(x) <= Paid(s) => Paid(x)' <= Paid(s)'
    BY <1>4, ReturnPotClaims, ReturnPotLedger
  <2>2. failed' = "no" /\ \A s \in Seats : bets[s] = 0 /\ bets'[s] = 0
    BY <1>4 DEF ReturnPot, MoveInv, MovedBets
  <2>3. \A s \in Seats : Paid(s)' \in Int
    BY <1>4, ReturnPotKeeps DEF MoveInv, PotsTyped, Paid
  <2> QED
    BY <1>1, <2>1, <2>2, <2>3 DEF Total
<1> QED
  BY <1>2, <1>3, <1>4 DEF MoveStep

\* A step of moveToPot takes from nobody in the hand the lead, and does not
\* fail: the seat that has put in the most is in every pot.
LEMMA StepKeeps ==
    ASSUME RInv, Step
    PROVE  RInv'
<1> USE DEF RInv
<1>1. MoveStep /\ UNCHANGED <<put, round>>
  BY DEF Step, roundVars
<1>2. /\ MoveInv'
      /\ \A s \in Seats : Account(s)' = Account(s)
  <2>1. \A s \in Seats : status[s] # "empty"
    BY DEF Players
  <2> QED
    BY <1>1, <2>1, MoveStepKeeps
<1>3. status' = status /\ mv' # "none" /\ InHand' = InHand /\ Playing' = Playing
  BY <1>1 DEF MoveStep, MovePass, MergePots, ReturnPot, InHand, Playing
<1>4. PutIsKnown'
  BY <1>1, <1>2 DEF PutIsKnown
<1>5. InHand \subseteq Seats /\ Playing \subseteq Seats
  BY DEF InHand, Playing
<1>6. PICK z \in InHand : \A x \in Seats : Total(x) <= Total(z)
  BY DEF Leaders
<1>7. /\ failed' = "no" /\ Claims' /\ Ledger'
      /\ \A s, x \in Seats : Total(x) <= Total(s) => Total(x)' <= Total(s)'
  BY <1>1, <1>6, LeaderIsMember
<1>8. Leaders'
  BY <1>3, <1>5, <1>6, <1>7 DEF Leaders
<1> QED
  BY <1>1, <1>2, <1>3, <1>4, <1>7, <1>8

LEMMA RoundsStutter ==
    ASSUME RInv, UNCHANGED allVars
    PROVE  RInv'
<1>1. UNCHANGED <<status, leaving, chips, bets, pots, balance, mv, at, failed,
                  put>>
  BY DEF allVars, potVars, roundVars
<1>2. MoveInv'
  BY <1>1 DEF RInv, MoveInv, PotsTyped, BetsArePlayed, MembersArePlayed,
     MovedBets, Sidelined
<1>3. Claims'
  BY <1>1 DEF RInv, Claims, MembersPaid, MembersInHand, OneSole, SoleIsAhead,
     InHand
<1>4. Ledger'
  BY <1>1, LedgerStays DEF RInv
<1>5. Leaders' /\ PutIsKnown'
  BY <1>1 DEF RInv, Leaders, PutIsKnown, Total, Paid, Account, Playing, InHand
<1> QED
  BY <1>1, <1>2, <1>3, <1>4, <1>5 DEF RInv

LEMMA RoundsInvariance == RoundsSpec => []RInv
<1>1. RInv /\ [RoundsNext]_allVars => RInv'
  BY BetKeeps, StepKeeps, RoundsStutter DEF RoundsNext
<1> QED
  BY <1>1, RoundsBegin, PTL DEF RoundsSpec

\* Between two rounds, what a seat has in the pots is what the books say.
LEMMA StakeIsPaid ==
    ASSUME RInv, Moved, NEW s \in Seats
    PROVE  Stake(s) = Paid(s) /\ balance[s] = -Stake(s) /\ Paid(s) \in Int
<1>1. bets[s] = 0 /\ chips[s] \in Int /\ balance[s] \in Int
  BY DEF RInv, Moved, MoveInv, MovedBets, PotsTyped
<1>2. put[s] \in Nat /\ put[s] - (chips[s] + bets[s] - balance[s]) = 0
  BY DEF RInv, PutIsKnown, Account
<1> QED
  BY <1>1, <1>2 DEF Stake, Paid

\* The smaller of two numbers.
LEMMA MinOfTwo ==
    ASSUME NEW m \in Int, NEW n \in Int
    PROVE  Min({m, n}) = IF m < n THEN m ELSE n
<1> DEFINE low == IF m < n THEN m ELSE n
<1>1. low \in {m, n} /\ \A y \in {m, n} : low <= y
  OBVIOUS
<1>2. \A y \in {m, n} : y \in Int /\ (y <= low => y = low)
  BY <1>1
<1> HIDE DEF low
<1>3. Min({m, n}) \in {m, n} /\ \A y \in {m, n} : Min({m, n}) <= y
  BY <1>1 DEF Min
<1> QED
  BY <1>1, <1>2, <1>3 DEF low

\* What has been bet and not been given back is in the pots, and the books
\* say so of every seat.
THEOREM MoveToPotBooks == RoundsSpec => []BooksAreRight
<1>1. RInv => BooksAreRight
  <2>1. SUFFICES ASSUME RInv, Moved PROVE BooksAreRight
    BY DEF BooksAreRight
  <2> USE DEF RInv
  <2>2. \A s \in Seats : Stake(s) = Paid(s) /\ balance[s] = -Stake(s)
    BY <2>1, StakeIsPaid
  <2>3. [s \in Seats |-> Stake(s)] = Takings
    BY <2>2 DEF Takings
  <2>4. PotSum = SumFunction(Worth)
    BY DEF PotSum, Worth
  <2>5. PotSum = SumFunction([s \in Seats |-> Stake(s)])
    BY <2>1, <2>3, <2>4 DEF Ledger, PotsArePaid
  <2> QED
    BY <2>2, <2>5 DEF BooksAreRight
<1> QED
  BY <1>1, RoundsInvariance, PTL

\* The rule of side pots, for any number of seats, bets and rounds.
THEOREM SidePotsAreFair == RoundsSpec => []SidePotRules
<1>1. RInv => SidePotRules
  <2>1. SUFFICES ASSUME RInv, Moved, NEW s \in Seats, status[s] # "psFolded"
                 PROVE  SumFunction([i \in DOMAIN pots |->
                            IF s \in pots[i].members THEN pots[i].value ELSE 0])
                          = SumFunction([x \in Seats |->
                                           Min({Stake(x), Stake(s)})])
    BY DEF SidePotRules
  <2> USE DEF RInv
  <2>2. \A x \in Seats : Stake(x) = Paid(x) /\ Paid(x) \in Int
    BY <2>1, StakeIsPaid
  <2>3. \A x \in Seats : Min({Stake(x), Stake(s)})
                            = IF Paid(x) < Paid(s) THEN Paid(x) ELSE Paid(s)
    BY <2>1, <2>2, MinOfTwo
  <2>4. [x \in Seats |-> Min({Stake(x), Stake(s)})] = Matched(s)
    BY <2>1, <2>3 DEF Matched
  <2>5. s \in InHand
    BY <2>1 DEF InHand, Players
  <2> QED
    BY <2>1, <2>4, <2>5 DEF Ledger, FairClaims, Claim
<1> QED
  BY <1>1, RoundsInvariance, PTL

\* moveToPot leaves no pot that only one seat has paid into.
THEOREM UncalledIsReturned == RoundsSpec => []NothingUncalled
<1>1. RInv => NothingUncalled
  <2>1. SUFFICES ASSUME RInv, Moved, NEW i \in DOMAIN pots, pots[i].value > 0
                 PROVE  Cardinality(pots[i].trueMembers) >= 2
    BY DEF NothingUncalled
  <2> USE DEF RInv
  <2>2. /\ Len(pots) \in Nat /\ DOMAIN pots = 1..Len(pots) /\ at \in Nat
        /\ pots[i].trueMembers \in SUBSET Seats
    BY <2>1, LedgerTypes DEF MoveInv, PotsTyped
  <2>3. ~ Sole(pots[i])
    <3>1. ~ (i >= at)
      BY <2>1, <2>2 DEF Moved
    <3> QED
      BY <2>1, <3>1 DEF Moved, Claims, SoleIsAhead
  <2>4. pots[i].trueMembers # {}
    <3>1. i # Len(pots)
      BY <2>1 DEF Ledger, LastIsOpen
    <3>2. i \in 1..(Len(pots) - 1)
      BY <2>2, <3>1
    <3> QED
      BY <2>1, <3>2 DEF Ledger, LastIsOpen
  <2>5. /\ Cardinality(pots[i].trueMembers) \in Nat
        /\ Cardinality(pots[i].trueMembers) # 0
    BY <2>2, <2>4, SeatsFinite, FS_EmptySet
  <2> QED
    BY <2>3, <2>5 DEF Sole
<1> QED
  BY <1>1, RoundsInvariance, PTL

\* The assertions of moveToPot hold when every round leaves a seat with the
\* highest bet in the hand.
THEOREM MoveToPotDoesNotFail == RoundsSpec => [](failed = "no")
<1>1. RInv => failed = "no"
  BY DEF RInv
<1> QED
  BY <1>1, RoundsInvariance, PTL
-----------------------------------------------------------------------------
(***************************************************************************)
(* The law of the side pots over whole hands.  Fold, add-on, sitting down  *)
(* and leaving between the bets are steps of the engine here, so what is   *)
(* kept is more than the ledger of moveToPot: that who can still bet has   *)
(* paid the most, and which seats the pots may then name.                  *)
(***************************************************************************)

CountTyped == count \in [hands : Nat, addons : Nat, leavers : Nat]

NobodyLeft == count.leavers = 0 => leaving = NoSeat

\* The hands the law is about, at any time but when the pots are paid out
\* and between two hands.
Kept ==
    /\ count.leavers = 0 /\ (mv = "none" \/ failed = "no")
    /\ state \in Streets \/ (pc = "pay" /\ at = 1)

\* Nobody has paid more, up to this street, than a seat that can bet or has
\* bet in it.
BettorsLead ==
    mv = "none" /\ state \in Streets =>
        \A s \in Seats : bets[s] > 0 \/ status[s] = "psInHand" =>
            \A x \in Seats : Paid(x) <= Paid(s)

NothingPaid ==
    mv = "none" /\ state = "tsPreFlop" => \A s \in Seats : Paid(s) = 0

\* While the bets are moved the exception is a seat that folded after the
\* highest bet: what it has paid more is in a pot of its own.
PlayersLead ==
    mv # "none" /\ pc = "street" =>
        \A c \in CanPlay, x \in Seats :
            \/ Paid(x) <= Paid(c)
            \/ /\ x \notin InHand
               /\ \E i \in DOMAIN pots : /\ pots[i].trueMembers = {x}
                                         /\ Paid(x) - pots[i].value <= Paid(c)

Books == Ledger /\ BettorsLead /\ NothingPaid /\ PlayersLead

LInv == CountTyped /\ NobodyLeft /\ (Kept => Books)

-----------------------------------------------------------------------------
\* The ledger of a table whose pots are empty.
LEMMA FreshLedger ==
    PotsTyped /\ pots = <<EmptyPot>>
      /\ (\A s \in Seats : balance[s] = 0)
      /\ (\A s \in Seats : status[s] = "empty" => bets[s] = 0)
    => Ledger /\ \A s \in Seats : Paid(s) = 0
<1> SUFFICES ASSUME PotsTyped, pots = <<EmptyPot>>,
                    \A s \in Seats : balance[s] = 0,
                    \A s \in Seats : status[s] = "empty" => bets[s] = 0
             PROVE  Ledger /\ \A s \in Seats : Paid(s) = 0
  OBVIOUS
<1>1. /\ EmptyPot.members = {} /\ EmptyPot.value = 0
      /\ EmptyPot.trueMembers = {} /\ ~ Sole(EmptyPot)
  BY EmptyPotClaims DEF EmptyPot
<1>2. /\ Len(pots) = 1 /\ DOMAIN pots = 1..1 /\ pots[1] = EmptyPot
      /\ 1..1 = {1}
  OBVIOUS
<1>3. \A s \in Seats : Paid(s) = 0
  <2>1. \A s \in Seats : /\ Paid(s) \in Int /\ balance[s] \in Int
                         /\ Paid(s) + balance[s] = 0
    BY DEF PotsTyped, Paid
  <2>2. \A m, n \in Int : m + n = 0 /\ n = 0 => m = 0
    OBVIOUS
  <2> QED
    BY <2>1, <2>2
<1>4. NobodyGone /\ HighBetsPaidMore /\ SoleIsLast
  BY <1>1, <1>2, <1>3 DEF NobodyGone, HighBetsPaidMore, SoleIsLast
<1>5. LastIsOpen
  BY <1>1, <1>2 DEF LastIsOpen
<1>6. \A f, D : IsFiniteSet(D) /\ DOMAIN f = D /\ (\A x \in D : f[x] = 0)
                  => SumFunction(f) = 0
  BY SumZero, SumOfDomain
<1>7. IsFiniteSet(Seats) /\ IsFiniteSet(DOMAIN pots)
  <2>1. IsFiniteSet({1})
    BY FS_Singleton
  <2> QED
    BY <1>2, <2>1, LedgerTypes
<1>8. PotsArePaid
  <2>1. /\ DOMAIN Worth = DOMAIN pots /\ \A i \in DOMAIN pots : Worth[i] = 0
        /\ DOMAIN Takings = Seats /\ \A s \in Seats : Takings[s] = 0
    BY <1>1, <1>2, <1>3 DEF Worth, Takings
  <2>2. SumFunction(Worth) = 0
    BY <1>6, <1>7, <2>1
  <2>3. SumFunction(Takings) = 0
    BY <1>6, <1>7, <2>1
  <2> QED
    BY <2>2, <2>3 DEF PotsArePaid
<1>9. ASSUME NEW s \in InHand
      PROVE  SumFunction(Claim(s)) = SumFunction(Matched(s))
  <2>1. s \in Seats
    BY DEF InHand
  <2>2. /\ DOMAIN Claim(s) = DOMAIN pots
        /\ \A i \in DOMAIN pots : Claim(s)[i] = 0
        /\ DOMAIN Matched(s) = Seats
        /\ \A x \in Seats : Matched(s)[x] = 0
    BY <1>1, <1>2, <1>3, <2>1 DEF Claim, Matched
  <2>3. SumFunction(Claim(s)) = 0
    BY <1>6, <1>7, <2>2
  <2>4. SumFunction(Matched(s)) = 0
    BY <1>6, <1>7, <2>2
  <2> QED
    BY <2>3, <2>4
<1> QED
  BY <1>3, <1>4, <1>5, <1>8, <1>9 DEF Ledger, FairClaims

\* Seats that fold take their names off the pots, and leave the claims of
\* the others as they were.
LEMMA LedgerLoses ==
    ASSUME PotsTyped, Ledger, UNCHANGED <<bets, balance>>,
           \A s \in Seats : status'[s] = "empty" => status[s] = "empty",
           InHand' \subseteq InHand, DOMAIN pots' = DOMAIN pots,
           Len(pots') = Len(pots),
           \A i \in DOMAIN pots :
              /\ ~ Sole(pots[i])
              /\ pots'[i].value = pots[i].value
              /\ pots'[i].trueMembers = pots[i].trueMembers
              /\ pots'[i].members \subseteq pots[i].members
              /\ \A s \in InHand' :
                    s \in pots'[i].members <=> s \in pots[i].members
    PROVE  Ledger'
<1> USE DEF Ledger
<1>1. /\ Len(pots) \in Nat \ {0} /\ DOMAIN pots = 1..Len(pots)
      /\ Len(pots) \in DOMAIN pots
      /\ \A i \in 1..(Len(pots) - 1) : i \in DOMAIN pots
  BY LedgerTypes DEF LastIsOpen
<1>2. \A s \in Seats : Paid(s)' = Paid(s)
  BY DEF Paid
<1>3. NobodyGone'
  BY DEF NobodyGone
<1>4. LastIsOpen'
  BY <1>1 DEF LastIsOpen
<1>5. HighBetsPaidMore'
  BY <1>2 DEF HighBetsPaidMore
<1>6. SoleIsLast'
  BY DEF SoleIsLast, Sole
<1>7. PotsArePaid'
  <2>1. Worth' = Worth
    BY DEF Worth
  <2>2. Takings' = Takings
    BY <1>2 DEF Takings
  <2> QED
    BY <2>1, <2>2 DEF PotsArePaid
<1>8. FairClaims'
  <2> SUFFICES ASSUME NEW s \in InHand'
               PROVE  SumFunction(Claim(s)') = SumFunction(Matched(s)')
    BY DEF FairClaims
  <2>1. s \in InHand /\ s \in Seats
    BY DEF InHand
  <2>2. Claim(s)' = Claim(s)
    BY DEF Claim
  <2>3. Matched(s)' = Matched(s)
    BY <1>2, <2>1 DEF Matched
  <2> QED
    BY <2>1, <2>2, <2>3 DEF FairClaims
<1> QED
  BY <1>3, <1>4, <1>5, <1>6, <1>7, <1>8

\* The pots at hand, when none of them is being moved.
LEMMA PotsAtHand ==
    ASSUME IInv, HInv, mv = "none" \/ (mv = "return" /\ at > Len(pots))
    PROVE  /\ Len(pots) \in Nat /\ DOMAIN pots = 1..Len(pots)
           /\ \A i \in DOMAIN pots :
                 ~ Sole(pots[i]) /\ pots[i].members \subseteq InHand
<1>1. at \in Nat /\ Len(pots) \in Nat /\ DOMAIN pots = 1..Len(pots)
  BY DEF IInv, Typed, PotsTyped
<1> QED
  BY <1>1, AllInHand DEF HInv

\* What moves no chip and takes nobody out of the hand.
LEMMA QuietLaw ==
    ASSUME IInv, HInv, LInv, CountTyped', count'.leavers = count.leavers,
           UNCHANGED <<leaving, bets, pots, balance>>,
           mv = "none", mv' = "none", InHand' = InHand,
           CanPlay' \subseteq CanPlay,
           \A s \in Seats : status'[s] = "empty" => status[s] = "empty",
           state' \in Streets => state = state',
           Kept' => Kept
    PROVE  LInv'
<1> USE DEF LInv
<1>1. SUFFICES ASSUME Kept' PROVE Books'
  BY DEF NobodyLeft
<1>2. Kept /\ Books
  BY <1>1
<1>3. Ledger'
  BY <1>2, PotsAtHand, LedgerLoses DEF Books, IInv, Typed
<1>4. \A s \in Seats : Paid(s)' = Paid(s)
  BY DEF Paid
<1>5. BettorsLead'
  BY <1>2, <1>4 DEF Books, BettorsLead, CanPlay
<1>6. NothingPaid'
  BY <1>2, <1>4 DEF Books, NothingPaid, Streets
<1>7. PlayersLead'
  BY DEF PlayersLead
<1> QED
  BY <1>3, <1>5, <1>6, <1>7 DEF Books

LEMMA OutOfHandLaw ==
    ASSUME CountTyped', NobodyLeft', ~ Kept'
    PROVE  LInv'
BY DEF LInv

LEMMA InitLaw == Init => LInv
<1> SUFFICES ASSUME Init PROVE LInv
  OBVIOUS
<1> QED
  BY DEF Init, LInv, CountTyped, NobodyLeft, Kept, Streets

LEMMA StutterLaw ==
    ASSUME LInv, UNCHANGED vars
    PROVE  LInv'
<1>1. UNCHANGED <<status, leaving, bets, pots, balance, mv, at, failed, state,
                  pc, count>>
  BY DEF vars, potVars, gameVars, handVars, lockVars, books
<1>2. InHand' = InHand /\ CanPlay' = CanPlay /\ \A s \in Seats : Paid(s)' = Paid(s)
  BY <1>1 DEF InHand, CanPlay, Paid
<1>3. Ledger => Ledger'
  BY <1>1, LedgerStays
<1>4. BettorsLead => BettorsLead'
  BY <1>1, <1>2 DEF BettorsLead
<1>5. NothingPaid => NothingPaid'
  BY <1>1, <1>2 DEF NothingPaid
<1>6. PlayersLead => PlayersLead'
  <2>1. CanPlay \subseteq Seats
    BY DEF CanPlay
  <2> QED
    BY <1>1, <1>2, <2>1 DEF PlayersLead
<1>7. CountTyped' /\ NobodyLeft' /\ (Kept' => Kept)
  BY <1>1 DEF LInv, CountTyped, NobodyLeft, Kept
<1> QED
  BY <1>3, <1>4, <1>5, <1>6, <1>7 DEF LInv, Books

LEMMA AddOnLaw ==
    ASSUME IInv, HInv, LInv, NEW s \in Seats, NEW n \in Stacks, AddOn(s, n)
    PROVE  LInv'
<1>1. /\ UNCHANGED <<status, leaving, bets, pots, balance, mv, at, failed,
                     state, pc>>
      /\ pc = "free" /\ count' = [count EXCEPT !.addons = @ + 1]
  BY DEF AddOn, Free, handVars, lockVars
<1>2. CountTyped' /\ count'.leavers = count.leavers
  BY <1>1 DEF LInv, CountTyped
<1>3. mv = "none" /\ InHand' = InHand /\ CanPlay' = CanPlay
  BY <1>1, NotMoving DEF InHand, CanPlay
<1>4. Kept' => Kept
  BY <1>1, <1>2 DEF Kept
<1> QED
  BY <1>1, <1>2, <1>3, <1>4, QuietLaw

LEMMA SitLaw ==
    ASSUME IInv, HInv, LInv, Sit
    PROVE  LInv'
<1>1. PICK s \in Seats : PlayNow(s) \/ SitOut(s)
  BY DEF Sit
<1>2. /\ UNCHANGED <<leaving, bets, pots, balance, mv, at, failed, state, pc,
                     count>>
      /\ pc = "free"
      /\ \A x \in Seats : x # s => status'[x] = status[x]
      /\ status'[s] \in {"psOutOfHand", "psOutOfPlay"}
      /\ \/ status[s] \in {"psOutOfHand", "psOutOfPlay"}
         \/ status[s] = "psInHand" /\ state = "tsIdle"
  BY <1>1 DEF PlayNow, SitOut, Free, gameVars, handVars, lockVars, books,
     IInv, Typed, PotsTyped
<1>3. CASE state = "tsIdle"
  <2>1. CountTyped' /\ NobodyLeft' /\ ~ Kept'
    BY <1>2, <1>3 DEF LInv, CountTyped, NobodyLeft, Kept, Streets
  <2> QED
    BY <2>1, OutOfHandLaw
<1>4. CASE state # "tsIdle"
  <2>1. /\ mv = "none" /\ InHand' = InHand /\ CanPlay' = CanPlay
        /\ \A x \in Seats : status'[x] = "empty" => status[x] = "empty"
    BY <1>2, <1>4, NotMoving DEF InHand, CanPlay
  <2>2. CountTyped' /\ (Kept' => Kept)
    BY <1>2 DEF LInv, CountTyped, Kept
  <2> QED
    BY <1>2, <2>1, <2>2, QuietLaw
<1> QED
  BY <1>3, <1>4

\* Between two hands.
LEMMA RestLaw ==
    ASSUME IInv, LInv,
           WaitForPlayers \/ WinDone \/ PayPot
             \/ \E out \in SUBSET Seats : HandOver(out)
    PROVE  LInv'
<1>1. UNCHANGED <<leaving, count>>
  BY DEF WaitForPlayers, WinDone, PayPot, HandOver, books
<1>2. ~ Kept'
  <2>1. CASE WaitForPlayers
    BY <2>1 DEF WaitForPlayers, Kept, IInv, Control, Streets, handVars
  <2>2. CASE WinDone
    BY <2>2 DEF WinDone, Kept, IInv, Control, Streets, handVars
  <2>3. CASE PayPot
    <3>1. at \in Nat \ {0} /\ at' = at + 1
      BY <2>3 DEF PayPot, IInv, Typed, PotsTyped
    <3>2. at' # 1
      BY <3>1
    <3> QED
      BY <2>3, <3>2
         DEF PayPot, Kept, IInv, Control, Streets, handVars, lockVars
  <2>4. CASE \E out \in SUBSET Seats : HandOver(out)
    BY <2>4 DEF HandOver, Kept, Streets
  <2> QED
    BY <2>1, <2>2, <2>3, <2>4
<1> QED
  BY <1>1, <1>2, OutOfHandLaw DEF LInv, CountTyped, NobodyLeft

LEMMA FinishLaw ==
    ASSUME IInv, HInv, LInv, Finish
    PROVE  LInv'
<1>1. /\ UNCHANGED <<status, leaving, bets, pots, balance, mv, at, state, count>>
      /\ pc = "finish" /\ pc' \in {"machine", "released"} /\ failed = "no"
  BY DEF Finish, books
<1>2. mv = "none" /\ InHand' = InHand /\ CanPlay' = CanPlay
  BY <1>1, NotMoving DEF InHand, CanPlay
<1>3. CountTyped' /\ (Kept' => Kept)
  BY <1>1 DEF LInv, CountTyped, Kept
<1> QED
  BY <1>1, <1>2, <1>3, QuietLaw

\* The end of a handler.  Nobody has stood up.
LEMMA ReleaseLaw ==
    ASSUME IInv, HInv, LInv, Release
    PROVE  LInv'
<1>1. /\ UNCHANGED <<status, balance, mv, at, state, count>>
      /\ pc = "released" /\ pc' = "free" /\ failed = "no" /\ leaving' = NoSeat
      /\ leaving = NoSeat => UNCHANGED <<bets, pots, failed>>
  BY DEF Release, books
<1>2. mv = "none" /\ InHand' = InHand /\ CanPlay' = CanPlay
  BY <1>1, NotMoving DEF InHand, CanPlay
<1>3. CountTyped' /\ NobodyLeft' /\ (Kept' => Kept)
  BY <1>1 DEF LInv, CountTyped, NobodyLeft, Kept
<1>4. CASE leaving = NoSeat
  BY <1>1, <1>2, <1>3, <1>4, QuietLaw
<1>5. CASE leaving # NoSeat
  <2>1. ~ Kept'
    BY <1>1, <1>5 DEF LInv, NobodyLeft, Kept
  <2> QED
    BY <1>3, <2>1, OutOfHandLaw
<1> QED
  BY <1>4, <1>5

\* A street that is over begins to move its bets: nobody has paid more than
\* a seat that can bet.
LEMMA StateMachineLaw ==
    ASSUME IInv, HInv, LInv, StateMachine
    PROVE  LInv'
<1>1. /\ UNCHANGED <<status, leaving, bets, pots, balance, failed, state, count>>
      /\ pc = "machine" /\ failed = "no" /\ state \in Streets /\ mv = "none"
      /\ \/ mv' = "pass"
         \/ mv' = "none" /\ UNCHANGED at
  BY NotMoving DEF StateMachine, books, IInv, Control
<1>2. InHand' = InHand /\ CanPlay' = CanPlay
  BY <1>1 DEF InHand, CanPlay
<1>3. CountTyped' /\ NobodyLeft' /\ (Kept' => Kept)
  BY <1>1 DEF LInv, CountTyped, NobodyLeft, Kept
<1>4. CASE mv' = "none"
  BY <1>1, <1>2, <1>3, <1>4, QuietLaw
<1>5. CASE mv' = "pass"
  <2> SUFFICES ASSUME Kept' PROVE Books'
    BY <1>3 DEF LInv
  <2>1. Books
    BY <1>3 DEF LInv
  <2>2. Ledger'
    BY <1>1, <2>1, LedgerStays DEF Books
  <2>3. PlayersLead'
    BY <1>1, <1>2, <2>1 DEF Books, BettorsLead, PlayersLead, CanPlay, Paid
  <2> QED
    BY <1>5, <2>2, <2>3 DEF Books, BettorsLead, NothingPaid
<1> QED
  BY <1>1, <1>4, <1>5

\* A bet, by a seat that nobody has paid more than.
LEMMA PutChipsLaw ==
    ASSUME IInv, HInv, LInv, NEW s \in Seats, NEW bet \in Nat, PutChips(s, bet)
    PROVE  LInv'
<1>1. /\ UNCHANGED <<leaving, pots, balance, mv, at, failed, state, count>>
      /\ pc = "free" /\ failed = "no" /\ state \in Streets /\ s = current_seat
      /\ status' = IF bet - bets[s] = chips[s]
                   THEN [status EXCEPT ![s] = "psAllIn"] ELSE status
      /\ bets' = [bets EXCEPT ![s] = bet]
  BY DEF PutChips, Free
<1>2. /\ status \in [Seats -> Statuses] /\ bets \in [Seats -> Nat]
      /\ s \in InHand /\ mv = "none"
  BY <1>1, NotMoving DEF IInv, Typed, PotsTyped, TurnInHand
<1>3. /\ InHand' = InHand /\ CanPlay' \subseteq CanPlay
      /\ \A x \in Seats : x # s => status'[x] = status[x] /\ bets'[x] = bets[x]
      /\ status'[s] \in {"psAllIn", "psInHand"} /\ bets'[s] = bet
      /\ status[s] \in {"psAllIn", "psInHand"}
  BY <1>1, <1>2 DEF InHand, CanPlay
<1>4. SUFFICES ASSUME Kept' PROVE Books'
  BY <1>1 DEF LInv, CountTyped, NobodyLeft
<1>5. Kept /\ Books
  BY <1>1, <1>2, <1>4 DEF LInv, Kept
<1>6. \A x \in Seats : Paid(x)' = Paid(x) /\ Paid(x) \in Int
  BY <1>1, LedgerTypes DEF Paid, IInv, Typed
<1>7. \A x \in Seats : Paid(x) <= Paid(s)
  <2>1. CASE status[s] = "psInHand"
    BY <1>1, <1>2, <1>5, <2>1 DEF Books, BettorsLead
  <2>2. CASE state = "tsPreFlop"
    BY <1>2, <1>5, <2>2 DEF Books, NothingPaid
  <2> QED
    BY <1>1, <2>1, <2>2 DEF HInv, Turns, TurnCanPlay
<1>8. BettorsLead'
  <2> SUFFICES ASSUME NEW z \in Seats, bets'[z] > 0 \/ status'[z] = "psInHand",
                      NEW x \in Seats
               PROVE  Paid(x) <= Paid(z)
    BY <1>6 DEF BettorsLead
  <2>1. CASE z = s
    BY <1>7, <2>1
  <2>2. CASE z # s
    <3>1. bets[z] > 0 \/ status[z] = "psInHand"
      BY <1>3, <2>2
    <3> QED
      BY <1>1, <1>2, <1>5, <3>1 DEF Books, BettorsLead
  <2> QED
    BY <2>1, <2>2
<1>9. Ledger'
  <2> USE DEF Ledger, Books
  <2>1. NobodyGone'
    BY <1>1, <1>3, <1>5 DEF NobodyGone
  <2>2. LastIsOpen' /\ SoleIsLast' /\ PotsArePaid'
    <3>1. Worth' = Worth /\ Takings' = Takings
      BY <1>1, <1>6 DEF Worth, Takings
    <3>2. LastIsOpen'
      BY <1>1, <1>5 DEF LastIsOpen
    <3>3. SoleIsLast'
      <4>1. \A i \in DOMAIN pots : ~ Sole(pots[i])
        BY <1>2, PotsAtHand
      <4> QED
        BY <1>1, <4>1 DEF SoleIsLast
    <3>4. PotsArePaid'
      BY <1>5, <3>1 DEF PotsArePaid
    <3> QED
      BY <3>2, <3>3, <3>4
  <2>3. HighBetsPaidMore'
    <3> SUFFICES ASSUME NEW z \in Seats, NEW x \in Seats, bets'[x] < bets'[z]
                 PROVE  Paid(x) <= Paid(z)
      BY <1>6 DEF HighBetsPaidMore
    <3>1. bets'[x] \in Nat /\ bets'[z] \in Nat
      BY <1>2, <1>3
    <3>2. bets'[z] > 0
      BY <3>1
    <3> QED
      BY <1>1, <1>2, <1>6, <1>8, <3>2 DEF BettorsLead
  <2>4. FairClaims'
    <3>1. \A z \in Seats : Claim(z)' = Claim(z) /\ Matched(z)' = Matched(z)
      BY <1>1, <1>6 DEF Claim, Matched
    <3>2. \A z \in InHand : z \in Seats
      BY DEF InHand
    <3> QED
      BY <1>3, <1>5, <3>1, <3>2 DEF FairClaims
  <2> QED
    BY <2>1, <2>2, <2>3, <2>4
<1>10. NothingPaid' /\ PlayersLead'
  BY <1>1, <1>2, <1>5, <1>6 DEF Books, NothingPaid, PlayersLead
<1> QED
  BY <1>8, <1>9, <1>10 DEF Books

\* A fold.  The seat's name comes off the pots, and what it has paid stays.
LEMMA FoldInTurnLaw ==
    ASSUME IInv, HInv, LInv, NEW s \in Seats, FoldInTurn(s)
    PROVE  LInv'
<1>1. /\ UNCHANGED <<leaving, bets, balance, state, count>>
      /\ FoldSeat(s, status) /\ state \in Streets
      /\ pc = "free" /\ failed = "no"
  BY DEF FoldInTurn, Free
<1>2. /\ s \in InHand /\ mv = "none" /\ status \in [Seats -> Statuses]
      /\ pots \in Seq(Pots) /\ Len(pots) \in Nat /\ DOMAIN pots = 1..Len(pots)
      /\ \A i \in DOMAIN pots : pots[i] \in Pots
  BY <1>1, NotMoving DEF FoldInTurn, IInv, Typed, PotsTyped, TurnInHand
<1>3. status' = [status EXCEPT ![s] = "psFolded"]
  BY <1>1, <1>2 DEF FoldSeat, InHand
<1>4. /\ InHand' = InHand \ {s} /\ CanPlay' \subseteq CanPlay
      /\ \A x \in Seats : status'[x] = "empty" => status[x] = "empty"
      /\ \A x \in Seats : status'[x] = "psInHand" => status[x] = "psInHand"
  BY <1>2, <1>3 DEF InHand, CanPlay
<1>5. /\ DOMAIN pots' = DOMAIN pots
      /\ \A i \in DOMAIN pots :
            /\ pots'[i].value = pots[i].value
            /\ pots'[i].members = pots[i].members \ {s}
            /\ pots'[i].trueMembers = pots[i].trueMembers
  <2>1. pots' = [i \in DOMAIN pots |->
                   [pots[i] EXCEPT !.members = @ \ {s}]]
    BY <1>1 DEF FoldSeat
  <2> QED
    BY <1>2, <2>1 DEF Pots
<1>6. Len(pots') = Len(pots)
  <2>1. pots' \in Seq(Pots)
    BY <1>1, FoldInTurnKeeps DEF IInv, Typed, PotsTyped
  <2>2. Len(pots') \in Nat /\ DOMAIN pots' = 1..Len(pots')
    BY <2>1, LenProperties
  <2> QED
    BY <1>2, <1>5, <2>2, SameInterval
<1>7. /\ mv' = "none" \/ (mv' = "pass" /\ pc' = "showdown")
      /\ pc' # "street"
  BY <1>1, <1>2 DEF FoldSeat
<1>8. SUFFICES ASSUME Kept' PROVE Books'
  BY <1>1 DEF LInv, CountTyped, NobodyLeft
<1>9. Books
  BY <1>1, <1>2, <1>8 DEF LInv, Kept
<1>10. Ledger'
  <2>1. \A i \in DOMAIN pots :
           /\ ~ Sole(pots[i])
           /\ pots'[i].members \subseteq pots[i].members
           /\ \A x \in InHand' :
                 x \in pots'[i].members <=> x \in pots[i].members
    BY <1>2, <1>4, <1>5, PotsAtHand
  <2>2. PotsTyped /\ InHand' \subseteq InHand
    BY <1>4 DEF IInv, Typed
  <2> QED
    BY <1>1, <1>4, <1>5, <1>6, <1>9, <2>1, <2>2, LedgerLoses DEF Books
<1>11. \A x \in Seats : Paid(x)' = Paid(x)
  BY <1>1 DEF Paid
<1>12. BettorsLead'
  BY <1>1, <1>2, <1>4, <1>9, <1>11 DEF Books, BettorsLead
<1>13. NothingPaid' /\ PlayersLead'
  BY <1>1, <1>2, <1>7, <1>9, <1>11 DEF Books, NothingPaid, PlayersLead
<1> QED
  BY <1>10, <1>12, <1>13 DEF Books

\* Once a member has stood up the law may fail.
LEMMA StandUpLaw ==
    ASSUME LInv, NEW s \in Seats, StandUp(s)
    PROVE  LInv'
<1>1. count' = [count EXCEPT !.leavers = @ + 1]
  BY DEF StandUp
<1>2. CountTyped' /\ count'.leavers # 0
  BY <1>1 DEF LInv, CountTyped
<1> QED
  BY <1>2 DEF LInv, NobodyLeft, Kept

\* A deal.  Nothing is in the pots but what the blinds have bet.
LEMMA DealLaw ==
    ASSUME IInv, IInv', HInv, LInv, Deal
    PROVE  LInv'
<1> DEFINE dealt == Dealing!DealtIn(DealtTable)
           due == [s \in Seats |->
                     IF s \in dealt
                     THEN Dealing!BlindDue(DealtTable, s, SmallBlind, BigBlind)
                     ELSE 0]
<1>1. /\ UNCHANGED <<mv, leaving>> /\ pc \in {"free", "idle"} /\ pc' = "free"
      /\ state' = "tsPreFlop"
      /\ status' = [s \in Seats |->
                      IF s \in dealt
                      THEN IF due[s] = chips[s] THEN "psAllIn" ELSE "psInHand"
                      ELSE SatOut[s]]
      /\ bets' = due /\ pots' = <<EmptyPot>>
      /\ balance' = [s \in Seats |-> 0]
      /\ count' = [count EXCEPT !.hands = @ + 1]
  BY DEF Deal, Free
<1>2. mv' = "none" /\ CountTyped' /\ NobodyLeft'
  BY <1>1, NotMoving DEF LInv, CountTyped, NobodyLeft
<1>3. \A s \in Seats : status'[s] = "empty" => bets'[s] = 0
  <2> HIDE DEF dealt
  <2> QED
    BY <1>1
<1> HIDE DEF dealt, due
<1>4. Ledger' /\ \A s \in Seats : Paid(s)' = 0
  <2>1. PotsTyped' /\ pots' = <<EmptyPot>> /\ (\A s \in Seats : balance'[s] = 0)
    BY <1>1 DEF IInv, Typed
  <2>2. (PotsTyped /\ pots = <<EmptyPot>>
           /\ (\A s \in Seats : balance[s] = 0)
           /\ (\A s \in Seats : status[s] = "empty" => bets[s] = 0)
         => Ledger /\ \A s \in Seats : Paid(s) = 0)'
    BY FreshLedger, PTL
  <2> QED
    BY <1>3, <2>1, <2>2
<1>5. BettorsLead' /\ NothingPaid' /\ PlayersLead'
  BY <1>2, <1>4 DEF BettorsLead, NothingPaid, PlayersLead
<1> QED
  BY <1>2, <1>4, <1>5 DEF LInv, Books

\* The bets have been moved.  No pot has a single payer any more, so nobody
\* has paid more than a seat that can bet.
LEMMA DealStreetLaw ==
    ASSUME IInv, HInv, LInv, DealStreet
    PROVE  LInv'
<1>1. /\ UNCHANGED <<status, leaving, bets, pots, balance, failed, count>>
      /\ pc = "street" /\ mv = "return" /\ mv' = "none" /\ at > Len(pots)
      /\ failed = "no" /\ state \in Streets /\ state' # "tsPreFlop"
      /\ pc' = then /\ then # "pay"
  <2>1. state \in {"tsPreFlop", "tsFlop", "tsTurn"}
    BY DEF DealStreet, IInv, Control, Streets
  <2> QED
    BY <2>1 DEF DealStreet, Moved, NextStreet, Streets, IInv, Typed, GameTyped
<1>2. InHand' = InHand /\ CanPlay' = CanPlay
  BY <1>1 DEF InHand, CanPlay
<1>3. SUFFICES ASSUME Kept' PROVE Books'
  BY <1>1 DEF LInv, CountTyped, NobodyLeft
<1>4. Books
  BY <1>1, <1>3 DEF LInv, Kept
<1>5. Ledger'
  BY <1>1, <1>4, LedgerStays DEF Books
<1>6. BettorsLead'
  <2> SUFFICES ASSUME NEW s \in Seats, bets[s] > 0 \/ status[s] = "psInHand",
                      NEW x \in Seats
               PROVE  Paid(x) <= Paid(s)
    BY <1>1 DEF BettorsLead, Paid
  <2>1. s \in CanPlay
    BY <1>1 DEF CanPlay, IInv, MovedBets
  <2>2. \A i \in DOMAIN pots : pots[i].trueMembers # {x}
    <3>1. \A i \in DOMAIN pots : ~ Sole(pots[i])
      BY <1>1, PotsAtHand
    <3>2. Cardinality({x}) = 1
      BY FS_Singleton
    <3> QED
      BY <3>1, <3>2 DEF Sole
  <2> QED
    BY <1>1, <1>4, <2>1, <2>2 DEF Books, PlayersLead
<1>7. NothingPaid' /\ PlayersLead'
  BY <1>1 DEF NothingPaid, PlayersLead
<1> QED
  BY <1>5, <1>6, <1>7 DEF Books

LEMMA CalcWinnersLaw ==
    ASSUME IInv, HInv, LInv, CalcWinners
    PROVE  LInv'
<1>1. /\ UNCHANGED <<status, leaving, bets, pots, balance, failed, count>>
      /\ mv = "return" /\ mv' = "none" /\ state' = "tsWinning"
      /\ failed = "no" /\ pc = "showdown"
  BY DEF CalcWinners, Moved, books
<1>2. SUFFICES ASSUME Kept' PROVE Books'
  BY <1>1 DEF LInv, CountTyped, NobodyLeft
<1>3. Books
  BY <1>1, <1>2 DEF LInv, Kept, IInv, Control
<1>4. Ledger'
  BY <1>1, <1>3, LedgerStays DEF Books
<1> QED
  BY <1>1, <1>4 DEF Books, BettorsLead, NothingPaid, PlayersLead, Streets

\* A pass: a seat that can bet pays as much as any other pays, unless only
\* one seat is left to pay, which has folded after it had bet.
LEMMA MovePassLead ==
    ASSUME IInv, HInv, Ledger, PlayersLead, MovePass, pc = "street",
           failed' = "no", NEW c \in CanPlay, NEW x \in Seats
    PROVE  \/ Paid(x)' <= Paid(c)'
           \/ /\ x \notin InHand
              /\ \E i \in DOMAIN pots' :
                    /\ pots'[i].trueMembers = {x}
                    /\ Paid(x)' - pots'[i].value <= Paid(c)'
<1> USE DEF IInv, Typed, HInv
<1>0. MoveInv /\ mv = "pass" /\ c \in Seats /\ c \in InHand
  BY DEF MoveInv, MovePass, CanPlay, InHand
<1>1. Paid(x) <= Paid(c)
  <2>1. \A i \in DOMAIN pots : pots[i].trueMembers # {x}
    <3>1. \A i \in DOMAIN pots : ~ Sole(pots[i])
      BY <1>0 DEF Claims, SoleIsAhead
    <3>2. Cardinality({x}) = 1
      BY FS_Singleton
    <3> QED
      BY <3>1, <3>2 DEF Sole
  <2> QED
    BY <1>0, <2>1 DEF PlayersLead
<1>2. CASE Bettors = {}
  <2>1. UNCHANGED balance
    BY <1>2 DEF MovePass
  <2> QED
    BY <1>1, <2>1 DEF Paid
<1>3. CASE Bettors # {}
  <2> DEFINE L == Len(pots)
             pot(m) == AddToPot(pots[L], m, Bettors)
  <2>1. L # 0 /\ pots[L].value = 0 /\ pots[L].members = {}
        /\ pots[L].trueMembers = {}
    BY DEF Ledger, LastIsOpen
  <2>2. PICK m \in Nat \ {0} :
          /\ bets' = [s \in Seats |->
                        IF s \in Bettors THEN bets[s] - m ELSE bets[s]]
          /\ DOMAIN pots' = 1..(L + 1) /\ pots'[L] = pot(m)
          /\ failed' = IF pot(m).members = {} THEN "potWithoutMembers" ELSE "no"
    BY <1>0, <1>3, <2>1, PassShape
  <2>3. /\ \A s \in Seats : Paid(s)' + bets'[s] = Paid(s) + bets[s]
        /\ MoveInv'
    BY <1>0, MovePassLedger, MovePassKeeps
  <2>4. \A s \in Seats : /\ Paid(s) \in Int /\ Paid(s)' \in Int
                         /\ bets[s] \in Nat /\ bets'[s] \in Nat
    <3>1. /\ balance \in [Seats -> Int] /\ balance' \in [Seats -> Int]
          /\ bets \in [Seats -> Nat] /\ bets' \in [Seats -> Nat]
      BY <1>0, <2>3 DEF MoveInv, PotsTyped
    <3> QED
      BY <3>1 DEF Paid
  <2>5. \A s \in Seats : Paid(s)' = IF s \in Bettors THEN Paid(s) + m ELSE Paid(s)
    <3>1. \A p, q, b, k \in Int : q + (b - k) = p + b => q = p + k
      OBVIOUS
    <3>2. \A p, q, b \in Int : q + b = p + b => q = p
      OBVIOUS
    <3>3. ASSUME NEW s \in Seats, s \in Bettors PROVE Paid(s)' = Paid(s) + m
      <4>1. bets'[s] = bets[s] - m
        BY <2>2, <3>3
      <4>2. Paid(s)' + (bets[s] - m) = Paid(s) + bets[s]
        BY <2>3, <4>1
      <4>3. Paid(s) \in Int /\ Paid(s)' \in Int /\ bets[s] \in Int /\ m \in Int
        BY <2>2, <2>4
      <4> QED
        BY <3>1, <4>2, <4>3
    <3>4. ASSUME NEW s \in Seats, s \notin Bettors PROVE Paid(s)' = Paid(s)
      <4>1. bets'[s] = bets[s]
        BY <2>2, <3>4
      <4> QED
        BY <2>3, <2>4, <3>2, <4>1
    <3> QED
      BY <3>3, <3>4
  <2>6. CASE c \in Bettors
    BY <1>0, <1>1, <2>4, <2>5, <2>6
  <2>7. CASE c \notin Bettors
    <3>1. \A s \in InHand : s \notin Bettors
      <4>1. bets[c] = 0
        BY <1>0, <2>4, <2>7 DEF Bettors
      <4>2. \A s \in InHand : bets[s] <= bets[c]
        BY <1>0 DEF Turns, EvenPass
      <4> QED
        BY <2>4, <4>1, <4>2 DEF Bettors
    <3>2. \A s \in Bettors : status[s] \in {"empty", "psFolded"}
      <4>1. ASSUME NEW s \in Bettors PROVE status[s] \in {"empty", "psFolded"}
        <5>1. s \in Seats /\ bets[s] > 0 /\ s \notin InHand
          BY <3>1 DEF Bettors
        <5>2. status[s] \in Statuses /\ s \notin Sidelined
          BY <5>1 DEF PotsTyped, BetsArePlayed
        <5> QED
          BY <5>1, <5>2 DEF Statuses, Sidelined, InHand
      <4> QED
        BY <4>1
    <3>3. {s \in Bettors : status[s] \notin {"empty", "psFolded"}} = {}
      BY <3>2
    <3>4. Cardinality(Bettors) = 1 /\ pot(m).trueMembers = Bettors
          /\ pot(m).value = m
      <4>1. pot(m).members # {}
        BY <2>2
      <4>2. /\ pot(m).members = IF Cardinality(Bettors) = 1 THEN Bettors ELSE {}
            /\ pot(m).trueMembers = Bettors
            /\ pot(m).value = 0 + m * Cardinality(Bettors)
        BY <2>1, <3>3 DEF AddToPot
      <4>3. Cardinality(Bettors) = 1
        BY <4>1, <4>2
      <4>4. m * 1 = m /\ 0 + m = m
        OBVIOUS
      <4> QED
        BY <4>2, <4>3, <4>4
    <3>5. PICK y : Bettors = {y}
      <4>1. Bettors \in SUBSET Seats
        BY DEF Bettors
      <4> QED
        BY <3>4, <4>1, SeatsFinite, FS_Singleton
    <3>6. CASE x # y
      BY <1>0, <1>1, <2>5, <2>7, <3>5, <3>6
    <3>7. CASE x = y
      <4>1. x \in Bettors /\ x \notin InHand
        BY <3>1, <3>5, <3>7
      <4>2. pots'[L].trueMembers = {x} /\ pots'[L].value = m
        BY <2>2, <3>4, <3>5, <3>7
      <4>3. L \in DOMAIN pots'
        BY <1>0, <2>1, <2>2, LedgerTypes
      <4>4. Paid(x)' - m <= Paid(c)'
        BY <1>0, <1>1, <2>4, <2>5, <2>7, <4>1
      <4> QED
        BY <4>1, <4>2, <4>3, <4>4
    <3> QED
      BY <3>6, <3>7
  <2> QED
    BY <2>6, <2>7
<1> QED
  BY <1>2, <1>3

\* The pot of a seat that folded is not joined with any other.
LEMMA MergePotsLead ==
    ASSUME IInv, HInv, Ledger, PlayersLead, MergePots, pc = "street",
           NEW c \in CanPlay, NEW x \in Seats
    PROVE  \/ Paid(x)' <= Paid(c)'
           \/ /\ x \notin InHand
              /\ \E i \in DOMAIN pots' :
                    /\ pots'[i].trueMembers = {x}
                    /\ Paid(x)' - pots'[i].value <= Paid(c)'
<1> USE DEF IInv, Typed, HInv
<1>0. MoveInv /\ mv = "merge" /\ c \in Seats /\ c \in InHand
      /\ UNCHANGED balance
  BY DEF MoveInv, MergePots, CanPlay, InHand
<1>1. Paid(x)' = Paid(x) /\ Paid(c)' = Paid(c)
  BY <1>0 DEF Paid
<1>2. CASE Paid(x) <= Paid(c)
  BY <1>1, <1>2
<1>3. CASE ~ (Paid(x) <= Paid(c))
  <2>1. PICK i \in DOMAIN pots : /\ pots[i].trueMembers = {x}
                                 /\ Paid(x) - pots[i].value <= Paid(c)
    BY <1>0, <1>3 DEF PlayersLead
  <2>2. x \notin InHand
    BY <1>0, <1>3 DEF PlayersLead
  <2>3. CASE pots' = pots
    BY <1>1, <2>1, <2>2, <2>3
  <2>4. CASE pots' # pots
    <3> DEFINE L == Len(pots)
    <3>1. /\ at \in 1..(L - 1) /\ pots[at].members = pots[at + 1].members
          /\ DOMAIN pots' = 1..(L - 1)
          /\ \A j \in 1..(L - 1) :
               LET old == pots[IF j < at + 1 THEN j ELSE j + 1]
               IN  /\ pots'[j].trueMembers = old.trueMembers
                   /\ pots'[j].value =
                        IF j = at THEN pots[at].value + pots[at + 1].value
                        ELSE old.value
      BY <1>0, <2>4, JoinShape
    <3>2. L \in Nat /\ DOMAIN pots = 1..L
      BY LedgerTypes
    <3>3. /\ Sole(pots[i]) /\ i + 1 = L /\ pots[i].members = {x}
      <4>1. Cardinality({x}) = 1
        BY FS_Singleton
      <4>2. Sole(pots[i])
        BY <2>1, <4>1 DEF Sole
      <4>3. i + 1 = L /\ pots[i].members # {}
        BY <4>2 DEF Ledger, SoleIsLast
      <4>4. pots[i].members \subseteq {x}
        BY <2>1 DEF Claims, MembersPaid
      <4> QED
        BY <4>2, <4>3, <4>4
    <3>4. at # i
      <4>1. pots[L].members = {}
        BY DEF Ledger, LastIsOpen
      <4> QED
        BY <3>1, <3>3, <4>1
    <3>5. at + 1 # i
      <4> SUFFICES ASSUME at + 1 = i PROVE FALSE
        OBVIOUS
      <4>1. at \in DOMAIN pots /\ pots[at].members = {x}
        BY <3>1, <3>2, <3>3
      <4>2. Sole(pots[at])
        BY <2>2, <4>1 DEF Claims, MembersInHand
      <4>3. at = i
        BY <3>3, <4>1, <4>2 DEF Claims, OneSole
      <4> QED
        BY <3>4, <4>3
    <3>6. /\ i - 1 \in 1..(L - 1) /\ i - 1 # at
          /\ (IF i - 1 < at + 1 THEN i - 1 ELSE i - 1 + 1) = i
      BY <3>1, <3>2, <3>3, <3>4, <3>5
    <3>7. pots'[i - 1].trueMembers = {x} /\ pots'[i - 1].value = pots[i].value
      BY <2>1, <3>1, <3>6
    <3> QED
      BY <1>1, <2>1, <2>2, <3>1, <3>6, <3>7
  <2> QED
    BY <2>3, <2>4
<1> QED
  BY <1>2, <1>3

\* It is given back.
LEMMA ReturnPotLead ==
    ASSUME IInv, HInv, Ledger, PlayersLead, ReturnPot, pc = "street",
           NEW c \in CanPlay, NEW x \in Seats
    PROVE  \/ Paid(x)' <= Paid(c)'
           \/ /\ x \notin InHand
              /\ \E i \in DOMAIN pots' :
                    /\ pots'[i].trueMembers = {x}
                    /\ Paid(x)' - pots'[i].value <= Paid(c)'
<1> USE DEF IInv, Typed, HInv
<1>0. MoveInv /\ mv = "return" /\ c \in Seats /\ c \in InHand
  BY DEF MoveInv, ReturnPot, CanPlay, InHand
<1>1. CASE Paid(x) <= Paid(c)
  BY <1>0, <1>1, ReturnPotLedger
<1>2. CASE ~ (Paid(x) <= Paid(c))
  <2>1. PICK i \in DOMAIN pots : /\ pots[i].trueMembers = {x}
                                 /\ Paid(x) - pots[i].value <= Paid(c)
    BY <1>0, <1>2 DEF PlayersLead
  <2>2. x \notin InHand
    BY <1>0, <1>2 DEF PlayersLead
  <2>3. CASE ~ Sole(pots[at])
    <3>1. UNCHANGED <<pots, balance>>
      BY <1>0, <2>3, ReturnShape
    <3> QED
      BY <2>1, <2>2, <3>1 DEF Paid
  <2>4. CASE Sole(pots[at])
    <3>1. at \in DOMAIN pots /\ DOMAIN pots = 1..Len(pots)
      BY <1>0, ReturnShape, LedgerTypes
    <3>2. i = at
      <4>1. Cardinality({x}) = 1
        BY FS_Singleton
      <4>2. Sole(pots[i])
        BY <2>1, <4>1 DEF Sole
      <4> QED
        BY <2>4, <3>1, <4>2 DEF Claims, OneSole
    <3>3. pots[at].members = {x}
      <4>1. pots[at].members # {}
        BY <2>4, <3>1 DEF Ledger, SoleIsLast
      <4>2. pots[at].members \subseteq {x}
        BY <2>1, <3>2 DEF Claims, MembersPaid
      <4> QED
        BY <4>1, <4>2
    <3>4. Lowest(pots[at].members) = x
      BY <3>3 DEF Lowest, Seats
    <3>5. Booked(x)
      <4>1. x \in pots[at].members
        BY <3>3
      <4>2. status[x] # "empty"
        BY <3>1, <4>1 DEF Ledger, NobodyGone
      <4>3. x \notin Sidelined
        BY <3>1, <4>1 DEF MembersArePlayed
      <4> QED
        BY <4>2, <4>3 DEF Booked, Taken, Sidelined
    <3>6. /\ balance'[x] = balance[x] + pots[i].value
          /\ balance'[c] = balance[c]
      <4>1. balance' = [s \in Seats |->
                          IF s = x /\ Booked(s)
                          THEN balance[s] + pots[at].value ELSE balance[s]]
        BY <2>4, <3>3, <3>4 DEF ReturnPot, Sole
      <4> QED
        BY <1>0, <2>2, <3>2, <3>5, <4>1
    <3>7. /\ balance[x] \in Int /\ balance[c] \in Int /\ pots[i].value \in Nat
      BY <1>0, <3>1, LedgerTypes DEF PotsTyped
    <3>8. Paid(x)' <= Paid(c)'
      BY <2>1, <3>6, <3>7 DEF Paid
    <3> QED
      BY <3>8
  <2> QED
    BY <2>3, <2>4
<1> QED
  BY <1>1, <1>2

LEMMA MoveToPotLaw ==
    ASSUME IInv, HInv, LInv, MoveToPot
    PROVE  LInv'
<1>1. /\ UNCHANGED <<status, leaving, state, pc, count>>
      /\ mv # "none" /\ mv' # "none" /\ failed = "no"
      /\ InHand' = InHand /\ CanPlay' = CanPlay
  BY DEF MoveToPot, MoveStep, MovePass, MergePots, ReturnPot, gameVars,
     handVars, lockVars, books, InHand, CanPlay
<1>2. MoveInv /\ Claims /\ pc # "pay" /\ CanPlay \subseteq Seats
  BY <1>1 DEF MoveInv, IInv, Typed, HInv, Control, CanPlay
<1>3. SUFFICES ASSUME Kept' PROVE Books'
  BY <1>1 DEF LInv, CountTyped, NobodyLeft
<1>4. failed' = "no" /\ Books
  BY <1>1, <1>2, <1>3 DEF LInv, Kept
<1>5. BettorsLead' /\ NothingPaid'
  BY <1>1 DEF BettorsLead, NothingPaid
<1>6. CASE MovePass
  <2>1. Ledger'
    BY <1>2, <1>4, <1>6, MovePassLedger DEF Books
  <2>2. PlayersLead'
    BY <1>1, <1>4, <1>6, MovePassLead DEF Books, PlayersLead
  <2> QED
    BY <1>5, <2>1, <2>2 DEF Books
<1>7. CASE MergePots
  <2>1. Ledger'
    BY <1>2, <1>4, <1>7, MergePotsLedger DEF Books
  <2>2. PlayersLead'
    BY <1>1, <1>4, <1>7, MergePotsLead DEF Books, PlayersLead
  <2> QED
    BY <1>5, <2>1, <2>2 DEF Books
<1>8. CASE ReturnPot
  <2>1. Ledger'
    BY <1>2, <1>4, <1>8, ReturnPotLedger DEF Books
  <2>2. PlayersLead'
    BY <1>1, <1>4, <1>8, ReturnPotLead DEF Books, PlayersLead
  <2> QED
    BY <1>5, <2>1, <2>2 DEF Books
<1> QED
  BY <1>6, <1>7, <1>8 DEF MoveToPot, MoveStep

\* Every step of a hand keeps its books.
LEMMA LawInvariance == Spec => []LInv
<1>1. ASSUME IInv, IInv', HInv, LInv, [Next]_vars PROVE LInv'
  <2>1. CASE Deal
    BY <1>1, <2>1, DealLaw
  <2>2. CASE Act
    <3>1. PICK s \in Seats : \/ \E bet \in BetsTried(s) : PutChips(s, bet)
                             \/ Fold(s) \/ TimeOut(s)
      BY <2>2 DEF Act
    <3>2. minBet \in Nat /\ BetsTried(s) \subseteq Nat
      BY <1>1, BetsTriedType
    <3>3. (\E bet \in Nat : PutChips(s, bet)) \/ FoldInTurn(s)
      BY <3>1, <3>2 DEF Fold, TimeOut
    <3> QED
      BY <1>1, <3>3, PutChipsLaw, FoldInTurnLaw
  <2>3. CASE Leave
    BY <1>1, <2>3, StandUpLaw DEF Leave
  <2>4. CASE Sit
    BY <1>1, <2>4, SitLaw
  <2>5. CASE Buy
    BY <1>1, <2>5, AddOnLaw DEF Buy
  <2>6. CASE EndHand
    BY <1>1, <2>6, RestLaw DEF EndHand
  <2>7. CASE Locked
    BY <1>1, <2>7, StateMachineLaw, FinishLaw, MoveToPotLaw, DealStreetLaw,
       CalcWinnersLaw, RestLaw, DealLaw, ReleaseLaw DEF Locked
  <2>8. CASE UNCHANGED vars
    BY <1>1, <2>8, StutterLaw
  <2> QED
    BY <1>1, <2>1, <2>2, <2>3, <2>4, <2>5, <2>6, <2>7, <2>8 DEF Next
<1> QED
  BY <1>1, InitLaw, Invariance, HandInvariance, PTL DEF Spec

\* Whatever a hand brings, as long as nobody stands up in it: the pots that
\* moveToPot has made give each seat in the hand a claim to as much of what
\* each other seat has paid as it has paid itself.
THEOREM SidePotsKeepTheLaw == Spec => []SidePotLaw
<1>1. IInv /\ LInv => SidePotLaw
  <2>1. ASSUME IInv, LInv, count.leavers = 0, PotsAreMade
        PROVE  \A s \in InHand : SumFunction(Claim(s)) = SumFunction(Matched(s))
    <3>1. mv = "none"
      BY <2>1, NotMoving DEF PotsAreMade
    <3>2. Kept
      BY <2>1, <3>1 DEF PotsAreMade, Kept
    <3> QED
      BY <2>1, <3>2 DEF LInv, Books, Ledger, FairClaims
  <2> QED
    BY <2>1 DEF SidePotLaw, Claim, Matched
<1> QED
  BY <1>1, Invariance, LawInvariance, PTL

-----------------------------------------------------------------------------
(***************************************************************************)
(* doWin.  moveToPot asserts of every pot with chips in it that it has a   *)
(* member, so each of them has a winner when it is paid.                   *)
(***************************************************************************)
NoMemberless(pot) == pot.value > 0 => pot.members # {}
Checked ==
    count.leavers = 0 /\ failed = "no" =>
        /\ mv = "merge" =>
              \A i \in DOMAIN pots : i < at => NoMemberless(pots[i])
        /\ mv = "return" \/ pc = "pay" =>
              \A i \in DOMAIN pots : NoMemberless(pots[i])

Ranked == outcome \in [1..2 -> [Seats -> 0..N]]

WInv == Checked /\ Ranked

\* Nothing is asked of the pots outside moveToPot and doWin.
LEMMA UncheckedWins ==
    ASSUME Ranked, outcome' \in {outcome, NoOutcome},
           mv' \notin {"merge", "return"}, pc' # "pay"
    PROVE  WInv'
<1>1. Ranked'
  BY NAssumption DEF Ranked, NoOutcome
<1> QED
  BY <1>1 DEF WInv, Checked

LEMMA MoveToPotWins ==
    ASSUME IInv, HInv, LInv, WInv, MoveToPot
    PROVE  WInv'
<1>1. /\ UNCHANGED <<pc, count, outcome, state>> /\ mv # "none" /\ failed = "no"
  BY DEF MoveToPot, MoveStep, MovePass, MergePots, ReturnPot, gameVars,
     handVars, lockVars, books
<1>2. MoveInv /\ pc # "pay" /\ state \in Streets
  BY <1>1 DEF MoveInv, IInv, Typed, Control
<1>3. Ranked'
  BY <1>1 DEF WInv, Ranked
<1>4. SUFFICES ASSUME count.leavers = 0, failed' = "no" PROVE Checked'
  BY <1>1, <1>3 DEF WInv, Checked
<1>5. Ledger /\ Checked
  BY <1>1, <1>2, <1>4 DEF LInv, Kept, Books, WInv
<1>6. /\ Len(pots) \in Nat \ {0} /\ DOMAIN pots = 1..Len(pots)
      /\ at \in Nat \ {0} /\ pots[Len(pots)].value = 0
      /\ \A i \in DOMAIN pots : pots[i].value \in Nat
  BY <1>2, <1>5, LedgerTypes DEF Ledger, LastIsOpen, MoveInv, PotsTyped
<1>7. CASE MovePass
  <2>1. mv' \in {"pass", "merge"} /\ at' = 1
    BY <1>7 DEF MovePass
  <2>2. \A i \in DOMAIN pots' : ~ (i < 1)
    <3>1. pots' \in Seq(Pots)
      BY <1>2, <1>7, MovePassKeeps DEF MoveInv, PotsTyped
    <3> QED
      BY <3>1
  <2> QED
    BY <1>1, <1>2, <2>1, <2>2 DEF Checked
<1>8. CASE MergePots
  <2>1. mv = "merge" /\ \A i \in DOMAIN pots : i < at => NoMemberless(pots[i])
    BY <1>1, <1>4, <1>5, <1>8 DEF MergePots, Checked
  <2>2. CASE at >= Len(pots)
    <3>1. mv' = "return" /\ pots' = pots
      BY <1>8, <2>2 DEF MergePots
    <3>2. ASSUME NEW i \in DOMAIN pots PROVE NoMemberless(pots[i])
      <4>1. i < at \/ i = Len(pots)
        BY <1>6, <2>2
      <4> QED
        BY <1>6, <2>1, <4>1 DEF NoMemberless
    <3> QED
      BY <3>1, <3>2 DEF Checked
  <2>3. CASE at < Len(pots)
    <3>1. /\ at \in DOMAIN pots /\ NoMemberless(pots[at]) /\ mv' = "merge"
          /\ at' \in {at, at + 1}
      BY <1>4, <1>6, <1>8, <2>3 DEF MergePots, NoMemberless
    <3>2. CASE pots' = pots
      <4>1. \A i \in DOMAIN pots : i < at' => i < at \/ i = at
        BY <1>6, <3>1
      <4> QED
        BY <1>1, <1>2, <2>1, <3>1, <3>2, <4>1 DEF Checked
    <3>3. CASE pots' # pots
      <4>1. /\ DOMAIN pots' = 1..(Len(pots) - 1) /\ at' = at
            /\ \A i \in 1..(Len(pots) - 1) :
                 LET old == pots[IF i < at + 1 THEN i ELSE i + 1]
                 IN  /\ pots'[i].members = old.members
                     /\ pots'[i].value =
                          IF i = at THEN pots[at].value + pots[at + 1].value
                          ELSE old.value
        BY <1>2, <1>8, <3>3, JoinShape
      <4>2. ASSUME NEW i \in DOMAIN pots', i < at
            PROVE  NoMemberless(pots'[i])
        <5>1. i \in DOMAIN pots /\ i < at + 1 /\ i # at
          BY <1>6, <4>1, <4>2
        <5>2. pots'[i].members = pots[i].members /\ pots'[i].value = pots[i].value
          BY <4>1, <5>1
        <5> QED
          BY <2>1, <4>2, <5>1, <5>2 DEF NoMemberless
      <4> QED
        BY <1>1, <1>2, <3>1, <4>1, <4>2 DEF Checked
    <3> QED
      BY <3>2, <3>3
  <2> QED
    BY <1>6, <2>2, <2>3
<1>9. CASE ReturnPot
  <2>1. mv = "return" /\ mv' = "return"
        /\ \A i \in DOMAIN pots : NoMemberless(pots[i])
    BY <1>1, <1>4, <1>5, <1>9 DEF ReturnPot, Checked
  <2>2. CASE ~ Sole(pots[at])
    <3>1. pots' = pots
      BY <1>2, <1>9, <2>2, ReturnShape
    <3> QED
      BY <2>1, <3>1 DEF Checked
  <2>3. CASE Sole(pots[at])
    <3>1. /\ DOMAIN pots' = 1..(Len(pots) - 1)
          /\ \A i \in 1..(Len(pots) - 1) :
                pots'[i] = IF i < at THEN pots[i] ELSE pots[i + 1]
      BY <1>2, <1>9, <2>3, ReturnShape
    <3>2. ASSUME NEW i \in DOMAIN pots' PROVE NoMemberless(pots'[i])
      <4>1. i \in DOMAIN pots /\ i + 1 \in DOMAIN pots
        BY <1>6, <3>1
      <4>2. pots'[i] = pots[i] \/ pots'[i] = pots[i + 1]
        BY <3>1
      <4> QED
        BY <2>1, <4>1, <4>2
    <3> QED
      BY <3>2 DEF Checked
  <2> QED
    BY <2>2, <2>3
<1> QED
  BY <1>7, <1>8, <1>9 DEF MoveToPot, MoveStep

LEMMA SeatsAreFew ==
    ASSUME NEW S \in SUBSET Seats
    PROVE  Cardinality(S) <= N
<1>1. IsFiniteSet(Seats) /\ Cardinality(Seats) = N
  BY FS_Interval, NAssumption DEF Seats
<1> QED
  BY <1>1, FS_Subset

LEMMA CalcWinnersWins ==
    ASSUME IInv, WInv, CalcWinners
    PROVE  WInv'
<1>1. /\ UNCHANGED <<pots, count, failed>>
      /\ mv = "return" /\ mv' = "none" /\ pc' = "pay"
  BY DEF CalcWinners, Moved, books
<1>2. Checked'
  BY <1>1 DEF WInv, Checked
<1>3. Ranked'
  <2>1. PICK first \in Rankings, second \in Rankings :
           outcome' = [board \in 1..2 |-> [s \in Seats |->
                         IF s \notin InHand THEN 0
                         ELSE IF board = 1 THEN first[s] ELSE second[s]]]
    BY DEF CalcWinners
  <2>2. \A rank \in Rankings, s \in InHand : rank[s] \in 0..N
    <3>1. InHandCount \in Nat /\ InHandCount <= N /\ N \in Nat
      BY SeatsFinite, SeatsAreFew, NAssumption DEF InHandCount, InHand
    <3>2. 1..InHandCount \subseteq 0..N
      BY <3>1
    <3> QED
      BY <3>2 DEF Rankings
  <2>3. 0 \in 0..N
    BY NAssumption
  <2> QED
    BY <2>1, <2>2, <2>3 DEF Ranked
<1> QED
  BY <1>2, <1>3 DEF WInv

LEMMA WinsInvariance == Spec => []WInv
<1>1. Init => WInv
  <2> SUFFICES ASSUME Init PROVE WInv
    OBVIOUS
  <2> QED
    BY NAssumption DEF Init, WInv, Checked, Ranked, NoOutcome
<1>2. ASSUME IInv, HInv, LInv, WInv, [Next]_vars PROVE WInv'
  <2>0. Ranked
    BY <1>2 DEF WInv
  <2>1. CASE \/ Deal \/ WaitForPlayers \/ StateMachine \/ Finish \/ Release
             \/ DealStreet \/ WinDone \/ Sit \/ Buy \/ EndHand
    <3>1. mv' \notin {"merge", "return"} /\ pc' # "pay"
          /\ outcome' \in {outcome, NoOutcome}
      <4>1. CASE Deal
        BY <1>2, <4>1, NotMoving DEF Deal, Free
      <4>2. CASE WaitForPlayers
        BY <1>2, <4>2, NotMoving DEF WaitForPlayers
      <4>3. CASE StateMachine
        BY <1>2, <4>3, NotMoving DEF StateMachine
      <4>4. CASE Finish
        BY <1>2, <4>4, NotMoving DEF Finish
      <4>5. CASE Release
        BY <1>2, <4>5, NotMoving DEF Release
      <4>6. CASE DealStreet
        <5>1. then # "pay"
          BY <1>2 DEF IInv, Typed, GameTyped
        <5> QED
          BY <4>6, <5>1 DEF DealStreet
      <4>7. CASE WinDone
        BY <1>2, <4>7, NotMoving DEF WinDone
      <4>8. CASE Sit
        BY <1>2, <4>8, NotMoving
           DEF Sit, PlayNow, SitOut, Free, gameVars, lockVars
      <4>9. CASE Buy
        BY <1>2, <4>9, NotMoving DEF Buy, AddOn, Free, lockVars
      <4>10. CASE EndHand
        BY <1>2, <4>10, NotMoving DEF EndHand, HandOver, Free
      <4> QED
        BY <2>1, <4>1, <4>2, <4>3, <4>4, <4>5, <4>6, <4>7, <4>8, <4>9, <4>10
    <3> QED
      BY <2>0, <3>1, UncheckedWins
  <2>2. CASE Act \/ Leave
    <3>1. mv' \notin {"merge", "return"} /\ pc' # "pay" /\ outcome' = outcome
      <4>1. pc = "free" => mv = "none"
        BY <1>2, NotMoving
      <4>2. ASSUME NEW s, NEW bet, PutChips(s, bet)
            PROVE  mv' \notin {"merge", "return"} /\ pc' # "pay"
                   /\ outcome' = outcome
        BY <4>1, <4>2 DEF PutChips, Free
      <4>3. ASSUME NEW s, FoldInTurn(s)
            PROVE  mv' \notin {"merge", "return"} /\ pc' # "pay"
                   /\ outcome' = outcome
        BY <4>1, <4>3 DEF FoldInTurn, FoldSeat, Free
      <4>4. ASSUME NEW s, StandUp(s)
            PROVE  mv' \notin {"merge", "return"} /\ pc' # "pay"
                   /\ outcome' = outcome
        BY <4>1, <4>4 DEF StandUp, FoldSeat, Free
      <4> QED
        BY <2>2, <4>2, <4>3, <4>4 DEF Act, Leave, Fold, TimeOut
    <3> QED
      BY <2>0, <3>1, UncheckedWins
  <2>3. CASE MoveToPot
    BY <1>2, <2>3, MoveToPotWins
  <2>4. CASE CalcWinners
    BY <1>2, <2>4, CalcWinnersWins
  <2>5. CASE PayPot
    <3>1. UNCHANGED <<pots, mv, count, outcome, pc>> /\ failed = "no"
          /\ pc = "pay" /\ mv = "none"
      BY <1>2, <2>5, NotMoving DEF PayPot, lockVars
    <3> QED
      BY <1>2, <3>1 DEF WInv, Checked, Ranked
  <2>6. CASE UNCHANGED vars
    BY <1>2, <2>6 DEF vars, potVars, gameVars, lockVars, books, WInv, Checked,
       Ranked
  <2> QED
    BY <1>2, <2>1, <2>2, <2>3, <2>4, <2>5, <2>6 DEF Next, Locked
<1> QED
  BY <1>1, <1>2, Invariance, HandInvariance, LawInvariance, PTL DEF Spec

\* A pot that has members has a winner on either board.
LEMMA SomebodyWins ==
    ASSUME Ranked, NEW pot \in Pots, NEW board \in 1..2,
           pot.members # {}, pot.members \subseteq InHand
    PROVE  Winners(pot, board) \in SUBSET Seats /\ Winners(pot, board) # {}
<1> DEFINE claims == pot.members \cap InHand
           rank == outcome[board]
           T == {rank[s] : s \in claims}
<1>1. claims # {} /\ claims \in SUBSET Seats
  BY DEF InHand
<1>2. /\ \A s \in Seats : rank[s] \in Nat /\ rank[s] <= N
      /\ N \in Nat
  BY NAssumption DEF Ranked
<1>3. T \in SUBSET Nat /\ T # {} /\ \A y \in T : y <= N
  BY <1>1, <1>2
<1>4. PICK m \in T : \A y \in T : m >= y
  <2> HIDE DEF T
  <2> QED
    BY <1>2, <1>3, MaxExists
<1>5. PICK s \in claims : m = rank[s]
  BY <1>4
<1>6. \A x \in claims : rank[x] <= rank[s]
  <2>1. \A x \in claims : rank[x] \in T /\ rank[x] \in Nat
    BY <1>1, <1>2
  <2> HIDE DEF T, rank, claims
  <2> QED
    BY <1>2, <1>3, <1>4, <1>5, <2>1
<1>7. s \in Winners(pot, board)
  BY <1>5, <1>6 DEF Winners
<1> QED
  BY <1>1, <1>7 DEF Winners

\* Math.round, to whole chips, of an amount and of its half.
LEMMA WholeIsNear ==
    ASSUME NEW x \in Nat
    PROVE  /\ Whole(x) - x <= Chip /\ x - Whole(x) <= Chip
           /\ \E q \in Nat : Whole(x) = Chip * q
<1>1. \A c, y \in Nat : c > 0 =>
         LET q == (2 * y + c) \div (2 * c)
         IN  /\ q \in Nat /\ c * q - y <= c /\ y - c * q <= c
  OBVIOUS
<1>2. Chip \in Nat /\ Chip > 0
  BY BettingAssumption
<1> QED
  BY <1>1, <1>2 DEF Whole

LEMMA HalfIsNear ==
    ASSUME NEW x \in Nat
    PROVE  /\ (HalfOf(x) + HalfOf(x)) - x <= Chip
           /\ x - (HalfOf(x) + HalfOf(x)) <= Chip
           /\ \E q \in Nat : HalfOf(x) = Chip * q
<1>1. \A c, y \in Nat : c > 0 =>
         LET q == (y + c) \div (2 * c)
         IN  /\ q \in Nat /\ (c * q + c * q) - y <= c
             /\ y - (c * q + c * q) <= c
  OBVIOUS
<1>2. Chip \in Nat /\ Chip > 0
  BY BettingAssumption
<1> QED
  BY <1>1, <1>2 DEF HalfOf

\* Winners share whole chips without a rest.
LEMMA SharedOut ==
    ASSUME NEW W \in SUBSET Seats, W # {}, NEW q \in Nat, NEW f,
           \A s \in Seats : f[s] = Share(Chip * q, W, s)
    PROVE  SumFunctionOnSet(f, Seats) = Chip * q
<1> DEFINE n == Cardinality(W)
           m == (Chip * q) \div n
<1>1. n \in Nat \ {0} /\ n \in 1..N
  <2>1. n \in Nat /\ n <= N /\ N \in Nat
    BY SeatsFinite, SeatsAreFew, NAssumption
  <2>2. n # 0
    BY SeatsFinite, FS_EmptySet
  <2> QED
    BY <2>1, <2>2
<1>2. Chip \in Nat \ {0} /\ Chip % n = 0
  BY <1>1, BettingAssumption
<1> HIDE DEF n
<1>3. m \in Int /\ m * n = Chip * q
  <2>1. \A c, k \in Nat : c % k = 0 /\ k > 0 => \E j \in Nat : c = k * j
    <3>1. \A c, k \in Nat : c % k = 0 /\ k > 0 =>
             c \div k \in Nat /\ c = k * (c \div k)
      OBVIOUS
    <3> QED
      BY <3>1
  <2>2. PICK j \in Nat : Chip = n * j
    BY <1>1, <1>2, <2>1
  <2>3. \A k, i, p \in Nat : k > 0 => ((k * i) * p) \div k = i * p
    <3>1. \A k, i, p \in Nat : (k * i) * p = k * (i * p) /\ i * p \in Nat
      OBVIOUS
    <3>2. \A k, i \in Nat : k > 0 => (k * i) \div k = i
      OBVIOUS
    <3> QED
      BY <3>1, <3>2
  <2>4. m = j * q
    BY <1>1, <2>2, <2>3
  <2>5. \A k, i, p \in Nat : (i * p) * k = (k * i) * p
    OBVIOUS
  <2> QED
    BY <1>1, <2>2, <2>4, <2>5
<1>4. \A s \in Seats : f[s] = IF s \in W THEN m ELSE 0
  BY DEF Share, n
<1>5. IsFiniteSet(Seats)
  BY SeatsFinite
<1> HIDE DEF m
<1>6. SumFunctionOnSet(f, Seats) = m * Cardinality(W)
  BY <1>3, <1>4, <1>5, SumCount
<1> QED
  BY <1>3, <1>6 DEF n

\* What a pot pays out, over all seats.
Gains(pot, net) == [s \in Seats |-> Gain(pot, net, s)]

LEMMA GainsAreNet ==
    ASSUME Ranked, NEW pot \in Pots, NEW net \in Nat,
           pot.members # {}, pot.members \subseteq InHand
    PROVE  LET paid == SumFunctionOnSet(Gains(pot, net), Seats)
           IN  paid \in Int /\ paid - net <= Chip /\ net - paid <= Chip
<1> DEFINE paid == SumFunctionOnSet(Gains(pot, net), Seats)
<1>1. InHand \in SUBSET Seats /\ InHand # {} /\ IsFiniteSet(Seats)
  BY SeatsFinite DEF InHand
<1>2. Chip \in Nat
  BY BettingAssumption
<1>3. CASE InHandCount = 1
  <2>1. PICK q \in Nat : Whole(net) = Chip * q
    BY WholeIsNear
  <2> DEFINE f == Gains(pot, net)
  <2>2. \A s \in Seats : f[s] = Share(Chip * q, InHand, s)
    BY <1>3, <2>1 DEF Gains, Gain
  <2> HIDE DEF f
  <2>3. SumFunctionOnSet(f, Seats) = Chip * q
    BY <1>1, <2>2, SharedOut
  <2>4. Chip * q \in Int /\ Whole(net) - net <= Chip /\ net - Whole(net) <= Chip
    BY <1>2, WholeIsNear
  <2> QED
    BY <2>1, <2>3, <2>4 DEF f
<1>4. CASE InHandCount # 1
  <2>1. PICK q \in Nat : HalfOf(net) = Chip * q
    BY HalfIsNear
  <2> DEFINE W1 == Winners(pot, 1)
             W2 == Winners(pot, 2)
             f == [s \in Seats |-> Share(HalfOf(net), W1, s)]
             g == [s \in Seats |-> Share(HalfOf(net), W2, s)]
             h == Gains(pot, net)
  <2>2. /\ W1 \in SUBSET Seats /\ W1 # {} /\ W2 \in SUBSET Seats /\ W2 # {}
    BY SomebodyWins
  <2>3. \A s \in Seats : /\ f[s] = Share(Chip * q, W1, s)
                         /\ g[s] = Share(Chip * q, W2, s)
                         /\ h[s] = f[s] + g[s]
    BY <1>4, <2>1 DEF Gains, Gain
  <2>4. Chip * q \in Nat
    BY <1>2
  <2>5. \A s \in Seats : f[s] \in Int /\ g[s] \in Int
    <3>1. \A s \in Seats : /\ Share(Chip * q, W1, s) \in Nat
                           /\ Share(Chip * q, W2, s) \in Nat
      BY <2>2, <2>4, ShareType
    <3> QED
      BY <2>3, <3>1
  <2> HIDE DEF W1, W2, f, g, h
  <2>6. SumFunctionOnSet(f, Seats) = Chip * q
    BY <2>2, <2>3, SharedOut
  <2>7. SumFunctionOnSet(g, Seats) = Chip * q
    BY <2>2, <2>3, SharedOut
  <2>8. SumFunctionOnSet(h, Seats)
          = SumFunctionOnSet(f, Seats) + SumFunctionOnSet(g, Seats)
    BY <1>1, <2>3, <2>5, SumAdd
  <2>9. /\ (HalfOf(net) + HalfOf(net)) - net <= Chip
        /\ net - (HalfOf(net) + HalfOf(net)) <= Chip
    BY HalfIsNear
  <2> DEFINE p == HalfOf(net)
             sum == SumFunctionOnSet(h, Seats)
  <2>10. p \in Int /\ sum = p + p /\ p + p - net <= Chip /\ net - (p + p) <= Chip
    BY <2>1, <2>4, <2>6, <2>7, <2>8, <2>9
  <2> HIDE DEF p, sum
  <2>11. sum \in Int /\ sum - net <= Chip /\ net - sum <= Chip
    BY <2>10
  <2> QED
    BY <2>11 DEF h, sum
<1> QED
  BY <1>3, <1>4

\* The pot that is paid, and its members, as long as nobody has stood up.
LEMMA PotToPay ==
    ASSUME IInv, PayPot
    PROVE  /\ at \in DOMAIN pots /\ pots[at] \in Pots
           /\ pots[at].value \in Nat /\ pc = "pay"
<1>1. pots \in Seq(Pots) /\ at \in Nat \ {0} /\ at <= Len(pots) /\ pc = "pay"
  BY DEF IInv, Typed, PotsTyped, PayPot
<1>2. at \in DOMAIN pots /\ pots[at] \in Pots
  BY <1>1
<1> QED
  BY <1>1, <1>2 DEF Pots

LEMMA PotHasWinners ==
    ASSUME IInv, HInv, WInv, PayPot, count.leavers = 0, pots[at].value # 0
    PROVE  pots[at].members # {} /\ pots[at].members \subseteq InHand
<1>1. /\ at \in DOMAIN pots /\ pots[at].value > 0 /\ pc = "pay"
      /\ failed = "no"
  BY PotToPay DEF PayPot
<1>2. pots[at].members # {}
  BY <1>1 DEF WInv, Checked, NoMemberless
<1>3. mv = "none"
  BY <1>1, NotMoving
<1> QED
  BY <1>1, <1>2, <1>3, PotsAtHand

\* One pot after the other: the rake and what the seats get take its place.
LEMMA PayPotBooks ==
    ASSUME IInv, PayPot
    PROVE  \E r \in 0..pots[at].value, p \in Int :
             /\ rake' = rake + r
             /\ p = IF pots[at].value = 0 THEN 0
                    ELSE SumFunctionOnSet(Gains(pots[at], pots[at].value - r),
                                          Seats)
             /\ (OnTable + rake)' - (OnTable + rake) = p + r - pots[at].value
             /\ OnTable \in Int /\ OnTable' \in Int
<1>1. /\ UNCHANGED <<status, bets, pots, mv>> /\ pc = "pay" /\ pc' = "pay"
      /\ at <= Len(pots) /\ at' = at + 1 /\ failed = "no"
  BY DEF PayPot, lockVars
<1>2. /\ Len(pots) \in Nat /\ DOMAIN pots = 1..Len(pots) /\ at \in DOMAIN pots
      /\ \A i \in DOMAIN pots : pots[i] \in Pots /\ pots[i].value \in Nat
      /\ chips \in [Seats -> Nat] /\ bets \in [Seats -> Nat] /\ rake \in Nat
      /\ IsFiniteSet(Seats) /\ Chip \in Nat
  <2>1. /\ pots \in Seq(Pots) /\ at \in Nat \ {0}
    BY DEF IInv, Typed, PotsTyped
  <2>2. Len(pots) \in Nat /\ DOMAIN pots = 1..Len(pots) /\ at \in DOMAIN pots
        /\ \A i \in DOMAIN pots : pots[i] \in Pots
    BY <1>1, <2>1
  <2> QED
    BY <2>2, SeatsFinite, BettingAssumption
       DEF Pots, IInv, Typed, PotsTyped, GameTyped
<1> DEFINE pot == pots[at]
           U == Unpaid
           worth == [i \in DOMAIN pots |-> pots[i].value]
<1>3. PICK g \in [Seats -> Int], r \in 0..pot.value :
         /\ rake' = rake + r
         /\ chips' = [s \in Seats |-> chips[s] + g[s]]
         /\ SumFunctionOnSet(g, Seats) =
              IF pot.value = 0 THEN 0
              ELSE SumFunctionOnSet(Gains(pot, pot.value - r), Seats)
  <2>1. CASE pot.value = 0
    <3> DEFINE none == [s \in Seats |-> 0]
    <3>1. UNCHANGED <<chips, rake>>
      BY <2>1 DEF PayPot
    <3>2. chips' = [s \in Seats |-> chips[s] + none[s]] /\ none \in [Seats -> Int]
      BY <1>2, <3>1
    <3>3. SumFunctionOnSet(none, Seats) = 0
      <4>1. \A s \in Seats : none[s] = 0
        OBVIOUS
      <4> HIDE DEF none
      <4> QED
        BY <1>2, <4>1, SumZero
    <3>4. rake' = rake + 0 /\ 0 \in 0..pot.value
      BY <1>2, <2>1, <3>1
    <3> HIDE DEF none, pot
    <3> QED
      BY <2>1, <3>2, <3>3, <3>4
  <2>2. CASE pot.value # 0
    <3>1. PICK r \in Rakes(pot) :
             /\ chips' = [s \in Seats |->
                            chips[s] + Gain(pot, pot.value - r, s)]
             /\ rake' = rake + r
      BY <2>2 DEF PayPot
    <3>2. r \in Nat /\ r <= pot.value
      <4>1. PICK n \in 0..MaxRake : r = Chip * n
        BY DEF Rakes
      <4>2. n \in Nat
        BY BettingAssumption
      <4>3. r \in Nat
        BY <1>2, <4>1, <4>2
      <4>4. r = 0 \/ r <= pot.value
        BY DEF Rakes
      <4> QED
        BY <1>2, <4>3, <4>4
    <3> DEFINE net == pot.value - r
               g == Gains(pot, net)
    <3>3. net \in Nat /\ pot \in Pots /\ pot.value \in Nat
      BY <1>2, <3>2
    <3>4. g \in [Seats -> Int] /\ chips' = [s \in Seats |-> chips[s] + g[s]]
      <4>1. \A s \in Seats : Gain(pot, net, s) \in Nat
        BY <3>3, GainType
      <4> QED
        BY <3>1, <4>1 DEF Gains
    <3>5. r \in 0..pot.value
      BY <3>2, <3>3
    <3>6. SumFunctionOnSet(g, Seats) =
            IF pot.value = 0 THEN 0
            ELSE SumFunctionOnSet(Gains(pot, pot.value - r), Seats)
      BY <2>2
    <3> HIDE DEF g, pot
    <3> QED
      BY <3>1, <3>4, <3>5, <3>6
  <2> QED
    BY <2>1, <2>2
<1>4. /\ U \in SUBSET DOMAIN pots /\ at \in U /\ Unpaid' = U \ {at}
      /\ IsFiniteSet(U)
  <2>1. IsFiniteSet(DOMAIN pots)
    BY <1>2, FS_Interval
  <2>2. U = {i \in DOMAIN pots : i >= at} /\ Unpaid' = {i \in DOMAIN pots : i >= at + 1}
    BY <1>1 DEF Unpaid
  <2>3. at \in Nat /\ \A i \in DOMAIN pots : i \in Nat
    BY <1>2
  <2> HIDE DEF U
  <2>4. U \in SUBSET DOMAIN pots /\ at \in U
    BY <1>2, <2>2, <2>3
  <2>5. Unpaid' = U \ {at}
    <3>1. \A i \in Nat : i >= at + 1 <=> i >= at /\ i # at
      BY <2>3
    <3> QED
      BY <2>2, <2>3, <3>1
  <2>6. IsFiniteSet(U)
    BY <2>1, <2>4, FS_Subset
  <2> QED
    BY <2>4, <2>5, <2>6
<1> HIDE DEF U
<1>5. /\ SumFunction(chips') = SumFunction(chips) + SumFunctionOnSet(g, Seats)
      /\ SumFunction(chips) \in Int
  <2> DEFINE old == chips
             new == chips'
  <2>1. DOMAIN old = Seats /\ DOMAIN new = Seats
    BY <1>2, <1>3
  <2>2. \A s \in Seats : old[s] \in Int /\ g[s] \in Int /\ new[s] = old[s] + g[s]
    BY <1>2, <1>3
  <2> HIDE DEF old, new
  <2>0. IsFiniteSet(Seats)
    BY <1>2
  <2>3. SumFunctionOnSet(new, Seats)
          = SumFunctionOnSet(old, Seats) + SumFunctionOnSet(g, Seats)
    BY <2>0, <2>2, SumAdd
  <2>4. SumFunctionOnSet(old, Seats) \in Int
    BY <1>2, <2>2, SumType
  <2>5. /\ SumFunction(new) = SumFunctionOnSet(new, Seats)
        /\ SumFunction(old) = SumFunctionOnSet(old, Seats)
    BY <2>1, SumOfDomain
  <2> QED
    BY <2>3, <2>4, <2>5 DEF old, new
<1> DEFINE owed(S) == [i \in S |-> pots[i].value]
<1>6. /\ SumFunction(owed(U)) = pot.value + SumFunction(owed(U \ {at}))
      /\ SumFunction(owed(U \ {at})) \in Int
  <2> DEFINE C == U \ {at}
             f == owed(U)
             h == owed(C)
  <2>1. IsFiniteSet(C) /\ C \in SUBSET U
    BY <1>4, FS_Subset
  <2>2. /\ DOMAIN f = U /\ DOMAIN h = C /\ \A i \in U : f[i] \in Int
        /\ \A i \in C : f[i] = h[i] /\ h[i] \in Int
        /\ f[at] = pot.value
    BY <1>2, <1>4
  <2> HIDE DEF f, h, pot
  <2>3. SumFunctionOnSet(f, U) = f[at] + SumFunctionOnSet(f, U \ {at})
    BY <1>4, <2>2, SumRemove
  <2> HIDE DEF C
  <2>4. SumFunctionOnSet(f, C) = SumFunctionOnSet(h, C)
    BY <2>1, <2>2, SumSame
  <2>5. SumFunctionOnSet(h, C) \in Int
    BY <2>1, <2>2, SumType
  <2>6. SumFunction(f) = SumFunctionOnSet(f, U) /\ SumFunction(h) = SumFunctionOnSet(h, C)
    BY <2>2, SumOfDomain
  <2>7. SumFunction(f) = pot.value + SumFunction(h) /\ SumFunction(h) \in Int
    BY <2>2, <2>3, <2>4, <2>5, <2>6 DEF C
  <2> QED
    BY <2>7 DEF f, h, C
<1>7. BetTotal' = BetTotal /\ BetTotal \in Int
  <2> DEFINE f == bets
  <2>1. DOMAIN f = Seats /\ \A s \in Seats : f[s] \in Int
    BY <1>2
  <2>2. SumFunction(f) = SumFunctionOnSet(f, Seats)
    BY <2>1, SumOfDomain
  <2>3. SumFunctionOnSet(f, Seats) \in Int
    BY <1>2, <2>1, SumType
  <2>4. SumFunction(f) \in Int
    BY <2>2, <2>3
  <2> QED
    BY <1>1, <2>4 DEF BetTotal
<1>8. /\ OnTable = SumFunction(chips) + BetTotal + SumFunction(owed(U))
      /\ OnTable' = SumFunction(chips') + BetTotal' + SumFunction(owed(U \ {at}))
  <2>1. [i \in Unpaid |-> pots[i].value]' = owed(U \ {at})
    BY <1>1, <1>4
  <2> QED
    BY <2>1 DEF OnTable, U
<1> DEFINE c == SumFunction(chips)
           p == SumFunctionOnSet(g, Seats)
           b == BetTotal
           w == SumFunction(owed(U \ {at}))
           v == pot.value
<1>9. /\ OnTable = c + b + (v + w) /\ OnTable' = (c + p) + b + w
      /\ rake' = rake + r
      /\ c \in Int /\ p \in Int /\ b \in Int /\ w \in Int /\ v \in Int
      /\ rake \in Int /\ r \in Int
  <2>1. p \in Int
    <3> DEFINE f == g
    <3>1. \A s \in Seats : f[s] \in Int
      OBVIOUS
    <3> HIDE DEF f
    <3>2. SumFunctionOnSet(f, Seats) \in Int
      BY <3>1, SeatsFinite, SumType
    <3> QED
      BY <3>2 DEF f
  <2>2. r \in Int /\ v \in Int /\ rake \in Int
    BY <1>2
  <2>3. w \in Int /\ SumFunction(owed(U)) = v + w
    BY <1>6
  <2>4. c \in Int /\ SumFunction(chips') = c + p
    BY <1>5
  <2>5. b \in Int /\ BetTotal' = b
    BY <1>7
  <2>6. /\ OnTable = c + b + SumFunction(owed(U))
        /\ OnTable' = SumFunction(chips') + BetTotal' + w
    BY <1>8
  <2> HIDE DEF c, p, b, w, v, owed
  <2> QED
    BY <1>3, <2>1, <2>2, <2>3, <2>4, <2>5, <2>6
<1> HIDE DEF c, p, b, w, v
<1>10. (((c + p) + b + w) + (rake + r)) - ((c + b + (v + w)) + rake)
         = p + r - v
  <2>1. \A i, j, k, l, m, n, o \in Int :
           (((i + j) + k + l) + (m + n)) - ((i + k + (o + l)) + m) = j + n - o
    OBVIOUS
  <2> QED
    BY <1>9, <2>1
<1>11. (OnTable + rake)' - (OnTable + rake) = p + r - v
  BY <1>9, <1>10
<1>12. OnTable \in Int /\ OnTable' \in Int
  BY <1>9
<1>13. p = IF v = 0 THEN 0
           ELSE SumFunctionOnSet(Gains(pots[at], v - r), Seats)
  BY <1>3 DEF p, v
<1> QED
  BY <1>3, <1>9, <1>11, <1>12, <1>13 DEF v

\* What it pays out is what it held.
LEMMA PayPotPays ==
    ASSUME IInv, HInv, WInv, PayPot, count.leavers = 0
    PROVE  LET made == (OnTable + rake)' - (OnTable + rake)
           IN  -Chip <= made /\ made <= Chip
<1> DEFINE pot == pots[at]
           v == pot.value
<1>1. PICK r \in 0..v, p \in Int :
         /\ p = IF v = 0 THEN 0
                ELSE SumFunctionOnSet(Gains(pot, v - r), Seats)
         /\ (OnTable + rake)' - (OnTable + rake) = p + r - v
  BY PayPotBooks
<1>2. pot \in Pots /\ v \in Nat /\ at \in DOMAIN pots
  BY PotToPay
<1>3. Chip \in Nat
  BY BettingAssumption
<1>4. CASE v = 0
  <2>1. p + r - v = 0
    BY <1>1, <1>4
  <2> QED
    BY <1>1, <1>3, <2>1
<1>5. CASE v # 0
  <2>1. pot.members # {} /\ pot.members \subseteq InHand
    BY <1>5, PotHasWinners
  <2>2. v - r \in Nat
    BY <1>2
  <2> DEFINE paid == SumFunctionOnSet(Gains(pot, v - r), Seats)
  <2>3. paid \in Int /\ paid - (v - r) <= Chip /\ (v - r) - paid <= Chip
    BY <1>2, <2>1, <2>2, GainsAreNet DEF WInv
  <2>4. p = paid
    BY <1>1, <1>5
  <2> HIDE DEF paid, v, pot
  <2>5. -Chip <= p + r - v /\ p + r - v <= Chip
    BY <1>2, <1>3, <2>3, <2>4
  <2> QED
    BY <1>1, <2>5
<1> QED
  BY <1>4, <1>5

\* The end of doWin: all the pots have been paid.
LEMMA WinDonePays ==
    ASSUME IInv, WinDone
    PROVE  OnTable' = OnTable /\ OnTable \in Int /\ rake' = rake
<1>1. /\ UNCHANGED <<chips, bets, rake>> /\ at > Len(pots)
      /\ pots' = <<EmptyPot>> /\ pc = "pay" /\ pc' = "released"
  BY DEF WinDone, books
<1>2. /\ chips \in [Seats -> Nat] /\ bets \in [Seats -> Nat]
      /\ Len(pots) \in Nat /\ DOMAIN pots = 1..Len(pots) /\ at \in Nat
      /\ rake \in Nat /\ IsFiniteSet(Seats) /\ Chip \in Nat
  <2>1. pots \in Seq(Pots) /\ at \in Nat \ {0}
    BY DEF IInv, Typed, PotsTyped
  <2>2. Len(pots) \in Nat /\ DOMAIN pots = 1..Len(pots) /\ at \in Nat
    BY <2>1
  <2>3. chips \in [Seats -> Nat] /\ bets \in [Seats -> Nat] /\ rake \in Nat
    BY DEF IInv, Typed, GameTyped, PotsTyped
  <2>4. IsFiniteSet(Seats) /\ Chip \in Nat
    BY SeatsFinite, BettingAssumption
  <2> QED
    BY <2>2, <2>3, <2>4
<1>3. \A f, D : IsFiniteSet(D) /\ DOMAIN f = D /\ (\A x \in D : f[x] = 0)
                  => SumFunction(f) = 0
  BY SumZero, SumOfDomain
<1>4. Unpaid = {} /\ Unpaid' = {1}
  <2>1. \A i \in DOMAIN pots : ~ (i >= at)
    BY <1>1, <1>2
  <2> QED
    BY <1>1, <2>1, OneEmptyPot DEF Unpaid
<1>5. SumFunction([i \in Unpaid |-> pots[i].value]) = 0
  <2>1. IsFiniteSet({})
    BY FS_EmptySet
  <2> DEFINE f == [i \in Unpaid |-> pots[i].value]
  <2>2. DOMAIN f = {} /\ \A i \in {} : f[i] = 0
    BY <1>4
  <2> HIDE DEF f
  <2>3. SumFunction(f) = 0
    BY <1>3, <2>1, <2>2
  <2> QED
    BY <2>3 DEF f
<1>6. SumFunction([i \in Unpaid |-> pots[i].value]') = 0
  <2>1. IsFiniteSet({1})
    BY FS_Singleton
  <2> DEFINE f == [i \in Unpaid |-> pots[i].value]'
  <2>2. DOMAIN f = {1} /\ \A i \in {1} : f[i] = 0
    BY <1>1, <1>4 DEF EmptyPot
  <2> HIDE DEF f
  <2>3. SumFunction(f) = 0
    BY <1>3, <2>1, <2>2
  <2> QED
    BY <2>3 DEF f
<1>7. SumFunction(chips) \in Int /\ SumFunction(bets) \in Int
  <2>1. ASSUME NEW f \in [Seats -> Nat] PROVE SumFunction(f) \in Int
    <3>1. \A s \in Seats : f[s] \in Int
      OBVIOUS
    <3>2. SumFunctionOnSet(f, Seats) \in Int
      BY <1>2, <3>1, SumType
    <3> QED
      BY <3>2, SumOfDomain
  <2> QED
    BY <1>2, <2>1
<1>8. /\ OnTable = SumFunction(chips) + SumFunction(bets) + 0
      /\ OnTable' = SumFunction(chips) + SumFunction(bets) + 0
  <2>1. OnTable = SumFunction(chips) + SumFunction(bets) + 0
    BY <1>5 DEF OnTable, BetTotal
  <2>2. OnTable' = SumFunction(chips') + SumFunction(bets') + 0
    BY <1>6 DEF OnTable, BetTotal
  <2> QED
    BY <1>1, <2>1, <2>2
<1>9. OnTable' = OnTable /\ OnTable \in Int
  BY <1>7, <1>8
<1> QED
  BY <1>1, <1>9

\* doWin pays out what the pots hold, but for the rounding of two halves,
\* whatever the blinds, the stacks, the rake and the winners, as long as
\* nobody has stood up.
THEOREM PayoutIsRounded == Spec => PayoutWithinRounding
<1> DEFINE made == (OnTable + rake)' - (OnTable + rake)
           Rounds1 == -Chip <= made /\ made <= Chip
<1>1. ASSUME IInv, HInv, WInv, Next, pc = "pay", count.leavers = 0
      PROVE  Rounds1
  <2>1. mv = "none" /\ state = "tsWinning"
    BY <1>1, NotMoving DEF IInv, Control
  <2>2. PayPot \/ WinDone
    <3>1. ~ Free /\ ~ MoveToPot
      BY <1>1, <2>1
         DEF Free, MoveToPot, MoveStep, MovePass, MergePots, ReturnPot
    <3>2. ~ Deal /\ ~ Act /\ ~ Leave /\ ~ Sit /\ ~ Buy /\ ~ EndHand
      BY <1>1, <3>1 DEF Deal, Act, PutChips, Fold, FoldInTurn, TimeOut, Leave,
         StandUp, Sit, PlayNow, SitOut, Buy, AddOn, EndHand, HandOver
    <3>3. ~ StateMachine /\ ~ Finish /\ ~ DealStreet /\ ~ CalcWinners
          /\ ~ WaitForPlayers /\ ~ Release
      BY <1>1 DEF StateMachine, Finish, DealStreet, CalcWinners,
         WaitForPlayers, Release
    <3> QED
      BY <1>1, <3>1, <3>2, <3>3 DEF Next, Locked
  <2>3. CASE PayPot
    BY <1>1, <2>3, PayPotPays
  <2>4. CASE WinDone
    <3>1. OnTable' = OnTable /\ OnTable \in Int /\ rake' = rake
      BY <1>1, <2>4, WinDonePays
    <3>2. rake \in Nat /\ Chip \in Nat
      BY <1>1, BettingAssumption DEF IInv, Typed, GameTyped
    <3>3. made = 0
      BY <3>1, <3>2
    <3> HIDE DEF made
    <3> QED
      BY <3>2, <3>3
  <2> QED
    BY <2>2, <2>3, <2>4
<1>2. IInv /\ HInv /\ WInv /\ [Next]_vars
        => [pc = "pay" /\ count.leavers = 0 => Rounds1]_vars
  BY <1>1
<1> HIDE DEF Rounds1
<1>3. Spec => [][pc = "pay" /\ count.leavers = 0 => Rounds1]_vars
  BY <1>2, Invariance, HandInvariance, WinsInvariance, PTL DEF Spec
<1> QED
  BY <1>3 DEF PayoutWithinRounding, Rounds1

-----------------------------------------------------------------------------
(***************************************************************************)
(* Everybody acts.  keycount is the number of turns until the street may   *)
(* end, and what it counts is not written down: a turn takes one off,      *)
(* whoever has it.  That it never falls short of the seats that have yet   *)
(* to act needs that nobody has a second turn before them: the seats that  *)
(* have acted lie behind the turn, and those that have not before it.      *)
(***************************************************************************)

\* How many seats lie between seat c, or the place before the first one, and
\* seat x, clockwise.
After(c, x) == IF x > c THEN x - c - 1 ELSE x - c - 1 + N

AllIn == {s \in Seats : status[s] = "psAllIn"}
Owing == CanPlay \ acted
Exempt == state = "tsPreFlop" /\ acted \cap Short # {}
Contested == state \in Streets /\ Cardinality(CanPlay) > 1
BetsOpen == Contested /\ pc \in {"free", "released", "machine", "finish"}

\* The seat that has acted last.
LastTurn ==
    IF pc \in {"free", "released"} THEN current_seat - 1 ELSE current_seat

StacksInPlay == state \in Streets => \A s \in CanPlay : chips[s] > 0
PassedIsAllIn == state \in Streets /\ ranOut => AllIn # {}
FirstTurn ==
    state \in Streets /\ pc \in {"free", "released"} /\ current_seat \in AllIn
        => ~ ranOut

TurnsInOrder ==
    BetsOpen => \A w \in Owing, a \in acted \cap InHand :
                  After(LastTurn, w) < After(LastTurn, a)

KeysSuffice ==
    BetsOpen /\ ~ Exempt => Owing = {} \/ keycount >= Cardinality(Owing)

AllHaveActed ==
    Contested /\ pc \in {"street", "showdown"} => Owing = {} \/ Exempt

ActsInv ==
    count.leavers = 0 =>
        /\ StacksInPlay /\ PassedIsAllIn /\ FirstTurn
        /\ TurnsInOrder /\ KeysSuffice /\ AllHaveActed

-----------------------------------------------------------------------------
\* The distances round the table.
LEMMA AfterIsDistance ==
    ASSUME NEW c \in Seats \cup {-1}, NEW x \in Seats
    PROVE  /\ Dealing!Distance(c + 1, x) = After(c, x)
           /\ After(c, x) \in 0..(N - 1)
<1>1. /\ N \in Nat /\ N > 0 /\ c \in Int /\ c >= -1 /\ c < N
      /\ x \in Nat /\ x < N
  BY NAssumption DEF Seats
<1>2. /\ After(c, x) \in Int /\ 0 <= After(c, x) /\ After(c, x) < N
      /\ x - (c + 1) = After(c, x) \/ x - (c + 1) = After(c, x) - N
  BY <1>1 DEF After
<1>3. ASSUME NEW d \in Int, 0 <= d, d < N, NEW y \in Int, y = d \/ y = d - N
      PROVE  y % N = d
  BY <1>1, <1>3
<1>4. (x - (c + 1)) % N = After(c, x)
  BY <1>1, <1>2, <1>3
<1> QED
  BY <1>1, <1>2, <1>4 DEF Dealing!Distance

\* The search finds the nearest seat.
LEMMA NextIsNearest ==
    ASSUME NEW c \in Seats \cup {-1}, NEW S \in SUBSET Seats,
           NEW x \in S
    PROVE  After(c, Dealing!NextSeat(c, S)) <= After(c, x)
<1> DEFINE d(y) == After(c, y)
<1>1. \A y \in S : d(y) \in Nat /\ Dealing!Distance(c + 1, y) = d(y)
  BY AfterIsDistance
<1> HIDE DEF d
<1>2. {d(y) : y \in S} \in SUBSET Nat /\ {d(y) : y \in S} # {}
  BY <1>1
<1>3. PICK m \in {d(y) : y \in S} : \A z \in {d(y) : y \in S} : m <= z
  BY <1>2, MinExists
<1>4. PICK n \in S : m = d(n)
  BY <1>3
<1>5. \A y \in S : d(n) <= d(y)
  BY <1>3, <1>4
<1>6. S \cap Dealing!Seats = S
  BY DEF Seats, Dealing!Seats
<1>7. \A y \in S : Dealing!Distance(c + 1, Dealing!NextSeat(c, S))
                     <= Dealing!Distance(c + 1, y)
  BY <1>1, <1>5, <1>6 DEF Dealing!NextSeat
<1>8. Dealing!NextSeat(c, S) \in S
  BY NextSeatIn, NAssumption DEF Seats
<1> QED
  BY <1>1, <1>7, <1>8 DEF d

\* When the turn goes from c to the nearest seat n, all distances shrink.
LEMMA TurnMoves ==
    ASSUME NEW c \in Seats \cup {-1}, NEW n \in Seats, NEW x \in Seats,
           After(c, n) <= After(c, x)
    PROVE  /\ After(n - 1, x) = After(c, x) - After(c, n)
           /\ After(n, x) = IF x = n THEN N - 1 ELSE After(n - 1, x) - 1
BY NAssumption DEF After, Seats

-----------------------------------------------------------------------------
\* Subsets of the seats.
LEMMA OwingIsFinite ==
    /\ CanPlay \in SUBSET Seats /\ Owing \in SUBSET CanPlay
    /\ InHand = CanPlay \cup AllIn /\ CanPlay \cap AllIn = {}
    /\ IsFiniteSet(CanPlay) /\ Cardinality(CanPlay) \in Nat
    /\ IsFiniteSet(InHand) /\ Cardinality(InHand) \in Nat
    /\ IsFiniteSet(Owing) /\ Cardinality(Owing) \in Nat
<1>1. /\ CanPlay \in SUBSET Seats /\ InHand \in SUBSET Seats
      /\ Owing \in SUBSET CanPlay
      /\ InHand = CanPlay \cup AllIn /\ CanPlay \cap AllIn = {}
  BY DEF CanPlay, InHand, Owing, AllIn
<1> QED
  BY <1>1, SeatsFinite

\* Steps that leave the turns alone.
LEMMA ActsStay ==
    ASSUME ActsInv, CanPlay' = CanPlay, AllIn' = AllIn,
           UNCHANGED <<acted, state, keycount, ranOut, current_seat>>,
           count'.leavers = count.leavers, Short' = Short,
           pc' = pc \/ (pc = "released" /\ pc' = "free"),
           \A s \in CanPlay : chips[s] > 0 => chips'[s] > 0
    PROVE  ActsInv'
<1>1. /\ InHand' = InHand /\ Owing' = Owing /\ Exempt' = Exempt
      /\ Contested' = Contested /\ LastTurn' = LastTurn
      /\ (pc' \in {"free", "released"}) = (pc \in {"free", "released"})
      /\ BetsOpen' = BetsOpen
  <2>1. InHand' = InHand
    BY DEF InHand, CanPlay, AllIn
  <2>2. (pc' \in {"free", "released"}) = (pc \in {"free", "released"})
    OBVIOUS
  <2> QED
    BY <2>1, <2>2 DEF Owing, Exempt, Contested, LastTurn, BetsOpen
<1> SUFFICES ASSUME count'.leavers = 0
             PROVE  ActsInv'
  BY DEF ActsInv
<1>2. StacksInPlay' /\ PassedIsAllIn' /\ FirstTurn'
  BY <1>1 DEF ActsInv, StacksInPlay, PassedIsAllIn, FirstTurn
<1>3. TurnsInOrder'
  BY <1>1 DEF ActsInv, TurnsInOrder, After
<1>4. KeysSuffice' /\ AllHaveActed'
  BY <1>1 DEF ActsInv, KeysSuffice, AllHaveActed
<1> QED
  BY <1>2, <1>3, <1>4 DEF ActsInv

\* Outside a street there are no turns.
LEMMA NoStreetActs ==
    ASSUME state' \notin Streets
    PROVE  ActsInv'
BY DEF ActsInv, StacksInPlay, PassedIsAllIn, FirstTurn, TurnsInOrder,
   KeysSuffice, AllHaveActed, BetsOpen, Contested

LEMMA InitActs == Init => ActsInv
BY DEF Init, Streets, ActsInv, StacksInPlay, PassedIsAllIn, FirstTurn,
   TurnsInOrder, KeysSuffice, AllHaveActed, BetsOpen, Contested

-----------------------------------------------------------------------------
\* What leaves the turns alone: add-ons, sitting down, the end of a handler,
\* and moveToPot.
LEMMA AddOnActs ==
    ASSUME IInv, ActsInv, NEW s \in Seats, NEW n \in Stacks, AddOn(s, n)
    PROVE  ActsInv'
<1>1. /\ UNCHANGED <<status, acted, state, keycount, ranOut, current_seat, pc>>
      /\ status[s] \in {"psOutOfPlay", "psFolded", "psOutOfHand"}
      /\ chips' = [chips EXCEPT ![s] = @ + n]
      /\ staked' = [staked EXCEPT ![s].added = @ + n]
      /\ count'.leavers = count.leavers
  <2>1. count' = [count EXCEPT !.addons = @ + 1]
    BY DEF AddOn
  <2>2. count'.leavers = count.leavers
    BY <2>1
  <2> QED
    BY <2>2 DEF AddOn, handVars, lockVars
<1>2. Short' = Short
  BY <1>1 DEF Short, IInv, Typed, GameTyped, Stakes
<1>3. \A x \in CanPlay : chips'[x] = chips[x]
  BY <1>1 DEF CanPlay, IInv, Typed, PotsTyped
<1>4. CanPlay' = CanPlay /\ AllIn' = AllIn
  BY <1>1 DEF CanPlay, AllIn
<1> QED
  BY <1>1, <1>2, <1>3, <1>4, ActsStay

LEMMA SitActs ==
    ASSUME IInv, ActsInv, Sit
    PROVE  ActsInv'
<1>1. PICK s \in Seats : PlayNow(s) \/ SitOut(s)
  BY DEF Sit
<1>2. /\ UNCHANGED <<chips, acted, state, keycount, ranOut, current_seat, pc,
                     count, staked>>
      /\ \A x \in Seats : x # s => status'[x] = status[x]
      /\ status'[s] \in {"psOutOfHand", "psOutOfPlay"}
      /\ \/ status[s] \in {"psOutOfHand", "psOutOfPlay"}
         \/ status[s] = "psInHand" /\ state = "tsIdle"
  BY <1>1 DEF PlayNow, SitOut, Free, gameVars, handVars, lockVars, books,
     IInv, Typed, PotsTyped
<1>3. CASE state = "tsIdle"
  BY <1>2, <1>3, NoStreetActs DEF Streets
<1>4. CASE state # "tsIdle"
  <2>1. CanPlay' = CanPlay /\ AllIn' = AllIn /\ Short' = Short
    BY <1>2, <1>4 DEF CanPlay, AllIn, Short
  <2> QED
    BY <1>2, <2>1, ActsStay
<1> QED
  BY <1>3, <1>4

LEMMA ReleaseActs ==
    ASSUME LInv, ActsInv, Release
    PROVE  ActsInv'
<1>1. /\ UNCHANGED <<status, chips, acted, state, keycount, ranOut, count,
                     staked>>
      /\ pc = "released" /\ pc' = "free"
      /\ leaving = NoSeat => UNCHANGED current_seat
  BY DEF Release, books
<1>2. CanPlay' = CanPlay /\ AllIn' = AllIn /\ Short' = Short
  BY <1>1 DEF CanPlay, AllIn, Short
<1>3. CASE count.leavers = 0
  BY <1>1, <1>2, <1>3, ActsStay DEF LInv, NobodyLeft
<1>4. CASE count.leavers # 0
  BY <1>1, <1>4 DEF ActsInv
<1> QED
  BY <1>3, <1>4

LEMMA MoveToPotActs ==
    ASSUME IInv, ActsInv, MoveToPot
    PROVE  ActsInv'
<1>1. UNCHANGED <<status, acted, state, keycount, ranOut, current_seat, pc,
                  count, staked>>
  <2>1. UNCHANGED <<status, gameVars>>
    BY DEF MoveToPot, MoveStep, MovePass, MergePots, ReturnPot
  <2> QED
    BY <2>1 DEF gameVars, handVars, lockVars, books
<1>2. \/ chips' = chips
      \/ \E i \in DOMAIN pots : \A s \in Seats :
            chips'[s] \in {chips[s], chips[s] + pots[i].value}
  <2>2. CASE ReturnPot
    <3>1. at \in DOMAIN pots
      <4>1. pots \in Seq(Pots) /\ at \in Nat /\ at > 0 /\ at <= Len(pots)
        BY <2>2 DEF ReturnPot, IInv, Typed, PotsTyped
      <4> QED
        BY <4>1
    <3>2. CASE Cardinality(pots[at].trueMembers) = 1
      <4>1. \A s \in Seats : chips'[s] \in {chips[s], chips[s] + pots[at].value}
        BY <2>2, <3>2 DEF ReturnPot
      <4> QED
        BY <3>1, <4>1
    <3>3. CASE Cardinality(pots[at].trueMembers) # 1
      BY <2>2, <3>3 DEF ReturnPot
    <3> QED
      BY <3>2, <3>3
  <2>3. CASE MovePass \/ MergePots
    BY <2>3 DEF MovePass, MergePots
  <2> QED
    BY <2>2, <2>3 DEF MoveToPot, MoveStep
<1>3. \A i \in DOMAIN pots : pots[i].value \in Nat
  <2>1. pots \in Seq(Pots)
    BY DEF IInv, Typed, PotsTyped
  <2>2. \A i \in DOMAIN pots : pots[i] \in Pots
    BY <2>1
  <2> QED
    BY <2>2 DEF Pots
<1>4. ASSUME NEW s \in CanPlay, chips[s] > 0
      PROVE  chips'[s] > 0
  <2>1. s \in Seats /\ chips[s] \in Nat
    BY DEF CanPlay, IInv, Typed, PotsTyped
  <2> QED
    BY <1>2, <1>3, <1>4, <2>1
<1>5. CanPlay' = CanPlay /\ AllIn' = AllIn /\ Short' = Short
  BY <1>1 DEF CanPlay, AllIn, Short
<1> QED
  BY <1>1, <1>4, <1>5, ActsStay

LEMMA StutterActs ==
    ASSUME ActsInv, UNCHANGED vars
    PROVE  ActsInv'
<1>1. UNCHANGED <<status, chips, acted, state, keycount, ranOut, current_seat,
                  pc, count, staked>>
  BY DEF vars, potVars, gameVars, handVars, lockVars, books
<1>2. CanPlay' = CanPlay /\ AllIn' = AllIn /\ Short' = Short
  BY <1>1 DEF CanPlay, AllIn, Short
<1> QED
  BY <1>1, <1>2, ActsStay

\* Between two hands, and when a hand is paid or somebody leaves.
LEMMA RestActs ==
    ASSUME IInv, LInv,
           \/ WaitForPlayers \/ PayPot \/ WinDone \/ CalcWinners
           \/ (\E out \in SUBSET Seats : HandOver(out))
           \/ (\E s \in Seats : StandUp(s))
    PROVE  ActsInv'
<1>1. ASSUME NEW s \in Seats, StandUp(s)
      PROVE  count'.leavers # 0
  <2>1. /\ count' = [count EXCEPT !.leavers = @ + 1]
        /\ count \in [hands : Nat, addons : Nat, leavers : Nat]
    BY <1>1 DEF StandUp, LInv, CountTyped
  <2>2. count'.leavers = count.leavers + 1 /\ count.leavers \in Nat
    BY <2>1
  <2> QED
    BY <2>2
<1>2. CASE WaitForPlayers \/ PayPot \/ WinDone
  <2>1. state' = state /\ (pc = "idle" \/ pc = "pay")
    BY <1>2 DEF WaitForPlayers, PayPot, WinDone, handVars
  <2> QED
    BY <2>1, NoStreetActs DEF IInv, Control, Streets
<1>3. CASE CalcWinners \/ \E out \in SUBSET Seats : HandOver(out)
  <2>1. state' \in {"tsWinning", "tsIdle"}
    BY <1>3 DEF CalcWinners, HandOver
  <2> QED
    BY <2>1, NoStreetActs DEF Streets
<1> QED
  BY <1>1, <1>2, <1>3 DEF ActsInv

-----------------------------------------------------------------------------
\* The seat on turn acts, and can bet no more or has bet.
LEMMA ActedKeeps ==
    ASSUME IInv, HInv, ActsInv, count.leavers = 0, failed = "no",
           NEW s \in Seats, s = current_seat,
           state \in Streets, pc = "free", pc' = "machine",
           UNCHANGED <<state, current_seat, ranOut, staked>>,
           CanPlay' \subseteq CanPlay, InHand' \subseteq InHand,
           acted' = acted \cup {s}, keycount' = keycount - 1
    PROVE  TurnsInOrder' /\ KeysSuffice' /\ AllHaveActed'
<1>1. /\ IsFiniteSet(CanPlay) /\ Cardinality(CanPlay) \in Nat
      /\ IsFiniteSet(Owing) /\ Cardinality(Owing) \in Nat
      /\ CanPlay \in SUBSET Seats /\ InHand \in SUBSET Seats
      /\ CanPlay \subseteq InHand
  BY OwingIsFinite DEF InHand, CanPlay
<1>2. CanPlay' \in SUBSET Seats /\ Owing' \subseteq Owing \ {s}
  BY <1>1 DEF Owing
<1>3. BetsOpen' => BetsOpen /\ Contested
  <2> DEFINE S == CanPlay'
  <2>1. S \subseteq CanPlay
    OBVIOUS
  <2> HIDE DEF S
  <2>2. Cardinality(S) <= Cardinality(CanPlay) /\ Cardinality(S) \in Nat
    BY <1>1, <2>1, FS_Subset, FS_CardinalityType
  <2> QED
    BY <1>1, <2>2 DEF BetsOpen, Contested, S
<1>4. s \in Int /\ s - 1 \in Seats \cup {-1}
  BY NAssumption DEF Seats
<1>5. \A x \in Seats : x # s => After(s, x) = After(s - 1, x) - 1
  BY NAssumption DEF After, Seats
<1>6. \A x \in Seats : After(s - 1, x) \in 0..(N - 1)
  BY <1>4, AfterIsDistance
<1>7. After(s, s) = N - 1 /\ After(s - 1, s) = 0 /\ N \in Nat
  BY NAssumption DEF After, Seats
<1>8. LastTurn = s - 1 /\ LastTurn' = s
  BY DEF LastTurn
<1>9. BetsOpen /\ s \in acted /\ s \in InHand => Owing = {}
  <2> SUFFICES ASSUME BetsOpen, s \in acted, s \in InHand, NEW w \in Owing
               PROVE  FALSE
    OBVIOUS
  <2>1. After(s - 1, w) < After(s - 1, s)
    BY <1>8 DEF ActsInv, TurnsInOrder
  <2>2. w \in Seats
    BY <1>1 DEF Owing
  <2> QED
    BY <1>6, <1>7, <2>1, <2>2
<1>10. TurnsInOrder'
  <2> SUFFICES ASSUME BetsOpen', NEW w \in Owing', NEW a \in acted' \cap InHand'
               PROVE  After(s, w) < After(s, a)
    BY <1>8 DEF TurnsInOrder, After
  <2>1. w \in Owing /\ w # s /\ w \in Seats /\ a \in Seats /\ a \in InHand
    BY <1>1, <1>2 DEF Owing
  <2>2. After(s, w) = After(s - 1, w) - 1
    BY <1>5, <2>1
  <2>3. CASE a = s
    BY <1>6, <1>7, <2>1, <2>2, <2>3
  <2>4. CASE a # s
    <3>1. After(s - 1, w) < After(s - 1, a)
      BY <1>3, <1>8, <2>1, <2>4 DEF ActsInv, TurnsInOrder
    <3>2. After(s, a) = After(s - 1, a) - 1
      BY <1>5, <2>1, <2>4
    <3> QED
      BY <1>6, <2>1, <2>2, <3>1, <3>2
  <2> QED
    BY <2>3, <2>4
<1>11. KeysSuffice'
  <2> SUFFICES ASSUME BetsOpen', ~ Exempt', Owing' # {}
               PROVE  keycount' >= Cardinality(Owing')
    BY DEF KeysSuffice
  <2>1. ~ Exempt /\ (state = "tsPreFlop" => s \notin Short)
    BY DEF Exempt, Short
  <2>2. s \in CanPlay
    BY <2>1 DEF HInv, Turns, TurnCanPlay, CanPlay
  <2>3. s \in Owing
    BY <1>1, <1>2, <1>3, <1>9, <2>2 DEF Owing
  <2>4. keycount >= Cardinality(Owing)
    BY <1>3, <2>1, <2>3 DEF ActsInv, KeysSuffice
  <2>5. /\ IsFiniteSet(Owing \ {s})
        /\ Cardinality(Owing \ {s}) = Cardinality(Owing) - 1
    BY <1>1, <2>3, FS_RemoveElement
  <2>6. Cardinality(Owing') \in Nat /\ Cardinality(Owing') <= Cardinality(Owing \ {s})
    BY <1>2, <2>5, FS_Subset, FS_CardinalityType
  <2>7. keycount \in Int
    BY DEF IInv, Typed, GameTyped
  <2> QED
    BY <1>1, <2>4, <2>5, <2>6, <2>7
<1>12. AllHaveActed'
  BY DEF AllHaveActed
<1> QED
  BY <1>10, <1>11, <1>12

LEMMA PutChipsActs ==
    ASSUME IInv, HInv, ActsInv, NEW s \in Seats, NEW bet \in Nat,
           PutChips(s, bet)
    PROVE  ActsInv'
<1>1. /\ UNCHANGED <<state, current_seat, ranOut, staked, count>>
      /\ pc = "free" /\ pc' = "machine" /\ failed = "no"
      /\ state \in Streets /\ s = current_seat
      /\ keycount' = keycount - 1 /\ acted' = acted \cup {s}
      /\ bet - bets[s] <= chips[s]
      /\ chips' = [chips EXCEPT ![s] = @ - (bet - bets[s])]
      /\ status' = IF bet - bets[s] = chips[s]
                   THEN [status EXCEPT ![s] = "psAllIn"] ELSE status
  BY DEF PutChips, Free, Accepted
<1>2. /\ status \in [Seats -> Statuses] /\ chips \in [Seats -> Nat]
      /\ bets[s] \in Nat
  BY DEF IInv, Typed, PotsTyped
<1>3. s \in InHand
  BY <1>1 DEF IInv, TurnInHand
<1>4. /\ CanPlay' \subseteq CanPlay /\ InHand' = InHand /\ AllIn \subseteq AllIn'
  BY <1>1, <1>2, <1>3 DEF CanPlay, InHand, AllIn
<1> SUFFICES ASSUME count'.leavers = 0
             PROVE  ActsInv'
  BY DEF ActsInv
<1>5. StacksInPlay'
  <2> SUFFICES ASSUME NEW x \in CanPlay'
               PROVE  chips'[x] > 0
    BY DEF StacksInPlay
  <2>1. x \in CanPlay /\ x \in Seats /\ chips[x] > 0
    BY <1>1, <1>4 DEF ActsInv, StacksInPlay, CanPlay
  <2>2. CASE x = s
    <3>1. bet - bets[s] # chips[s]
      BY <1>1, <1>2, <2>2 DEF CanPlay
    <3> QED
      BY <1>1, <1>2, <2>2, <3>1
  <2>3. CASE x # s
    BY <1>1, <1>2, <2>1, <2>3
  <2> QED
    BY <2>2, <2>3
<1>6. PassedIsAllIn' /\ FirstTurn'
  BY <1>1, <1>4 DEF ActsInv, PassedIsAllIn, FirstTurn
<1>7. TurnsInOrder' /\ KeysSuffice' /\ AllHaveActed'
  BY <1>1, <1>4, ActedKeeps
<1> QED
  BY <1>5, <1>6, <1>7 DEF ActsInv

\* A seat that folds leaves the order of the others, or just one of them.
LEMMA FoldInTurnActs ==
    ASSUME IInv, HInv, ActsInv, NEW s \in Seats, FoldInTurn(s)
    PROVE  ActsInv'
<1>1. /\ UNCHANGED <<state, current_seat, ranOut, staked, count, chips>>
      /\ pc = "free" /\ failed = "no" /\ state \in Streets
      /\ s = current_seat /\ acted' = acted \cup {s}
      /\ FoldSeat(s, status)
  BY DEF FoldInTurn, Free
<1>2. s \in InHand
  BY <1>1 DEF IInv, TurnInHand
<1>3. status \in [Seats -> Statuses] /\ status' = [status EXCEPT ![s] = "psFolded"]
  BY <1>1, <1>2 DEF FoldSeat, InHand, IInv, Typed, PotsTyped
<1>4. /\ CanPlay' = CanPlay \ {s} /\ InHand' = InHand \ {s}
      /\ AllIn' = AllIn \ {s}
      /\ InHand' = {x \in Seats \ {s} : status[x] \in {"psInHand", "psAllIn"}}
  BY <1>3 DEF CanPlay, InHand, AllIn
<1>5. Cardinality(InHand') >= 1
  <2>1. InHandCount >= 2
    BY <1>1 DEF IInv, TwoInHand
  <2>2. Cardinality(InHand \ {s}) = Cardinality(InHand) - 1
    BY <1>2, OwingIsFinite, FS_RemoveElement, Zenon
  <2> QED
    BY <1>4, <2>1, <2>2, OwingIsFinite DEF InHandCount
<1>6. /\ IsFiniteSet(InHand') /\ CanPlay' \subseteq InHand'
      /\ Cardinality(InHand') \in Nat
      /\ Cardinality(CanPlay') \in Nat
      /\ Cardinality(CanPlay') <= Cardinality(InHand')
  <2>1. CanPlay' \subseteq InHand' /\ InHand' \in SUBSET Seats
    BY DEF CanPlay, InHand
  <2> QED
    BY <2>1, SeatsFinite, FS_Subset
<1> SUFFICES ASSUME count'.leavers = 0
             PROVE  ActsInv'
  BY DEF ActsInv
<1>7. StacksInPlay'
  BY <1>1, <1>4 DEF ActsInv, StacksInPlay
<1>8. PassedIsAllIn'
  <2>1. s \in AllIn => ~ ranOut
    BY <1>1 DEF ActsInv, FirstTurn
  <2> QED
    BY <1>1, <1>4, <2>1 DEF ActsInv, PassedIsAllIn
<1>9. CASE Cardinality(InHand') = 1
  <2>1. pc' = "showdown"
    <3> DEFINE left == {x \in Seats \ {s} : status[x] \in {"psInHand", "psAllIn"}}
    <3>1. left # {} /\ Cardinality(left) = 1
      BY <1>4, <1>9, FS_EmptySet
    <3>2. left # {} /\ Cardinality(left) = 1 => pc' = "showdown"
      BY <1>1 DEF FoldSeat
    <3> QED
      BY <3>1, <3>2
  <2>2. ~ Contested'
    BY <1>6, <1>9 DEF Contested
  <2> QED
    BY <1>7, <1>8, <2>1, <2>2 DEF ActsInv, FirstTurn, TurnsInOrder,
       KeysSuffice, AllHaveActed, BetsOpen
<1>10. CASE Cardinality(InHand') # 1
  <2>1. InHand' # {}
    BY <1>5, <1>6, FS_EmptySet
  <2>2. pc' = "machine" /\ keycount' = keycount - 1
    BY <1>1, <1>4, <1>10, <2>1 DEF FoldSeat
  <2>3. TurnsInOrder' /\ KeysSuffice' /\ AllHaveActed'
    BY <1>1, <1>4, <2>2, ActedKeeps
  <2> QED
    BY <1>7, <1>8, <2>2, <2>3 DEF ActsInv, FirstTurn
<1> QED
  BY <1>9, <1>10

-----------------------------------------------------------------------------
\* The engine: the turn goes on, the street ends, and another one begins.
LEMMA StateMachineActs ==
    ASSUME IInv, ActsInv, StateMachine
    PROVE  ActsInv'
<1>1. /\ UNCHANGED <<status, chips, state, ranOut, acted, count, staked>>
      /\ pc = "machine"
      /\ pc' \in {"machine", "finish", "street", "showdown"}
  BY DEF StateMachine, books
<1>2. /\ CanPlay' = CanPlay /\ AllIn' = AllIn /\ Short' = Short
      /\ InHand' = InHand
  BY <1>1 DEF CanPlay, AllIn, Short, InHand
<1> SUFFICES ASSUME count'.leavers = 0
             PROVE  ActsInv'
  BY DEF ActsInv
<1>3. StacksInPlay' /\ PassedIsAllIn' /\ FirstTurn'
  BY <1>1, <1>2 DEF ActsInv, StacksInPlay, PassedIsAllIn, FirstTurn
<1>4. CASE ~ Contested
  <2>1. ~ Contested'
    BY <1>1, <1>2, <1>4 DEF Contested
  <2> QED
    BY <1>3, <2>1 DEF ActsInv, TurnsInOrder, KeysSuffice, AllHaveActed,
       BetsOpen
<1>5. CASE Contested
  <2>1. Cardinality(CanPlay) # 1 /\ CanPlay # {}
    <3>1. Cardinality(CanPlay) \in Nat /\ Cardinality(CanPlay) > 1
      BY <1>5, OwingIsFinite DEF Contested
    <3> QED
      BY <3>1, FS_EmptySet
  <2>2. ~ SkipNobodyCanBet /\ ~ SkipLastPlayer
    BY <2>1 DEF SkipNobodyCanBet, SkipLastPlayer
  <2>3. /\ keycount' = keycount
        /\ \/ pc' = "finish" /\ current_seat' = current_seat
           \/ pc' \in {"street", "showdown"} /\ keycount <= 0
    BY <2>2 DEF StateMachine
  <2>4. BetsOpen /\ LastTurn = current_seat
    BY <1>1, <1>5 DEF BetsOpen, LastTurn
  <2>5. Owing' = Owing /\ Exempt' = Exempt
    BY <1>1, <1>2 DEF Owing, Exempt
  <2>6. CASE pc' = "finish" /\ current_seat' = current_seat
    <3>1. LastTurn' = LastTurn
      BY <2>4, <2>6 DEF LastTurn
    <3>2. TurnsInOrder'
      BY <1>1, <1>2, <2>4, <2>5, <3>1 DEF ActsInv, TurnsInOrder, After
    <3>3. KeysSuffice' /\ AllHaveActed'
      BY <1>1, <2>3, <2>4, <2>5, <2>6 DEF ActsInv, KeysSuffice, AllHaveActed
    <3> QED
      BY <1>3, <3>2, <3>3 DEF ActsInv
  <2>7. CASE pc' \in {"street", "showdown"} /\ keycount <= 0
    <3>1. Owing = {} \/ Exempt
      <4> SUFFICES ASSUME ~ Exempt, Owing # {}
                   PROVE  FALSE
        OBVIOUS
      <4>1. keycount >= Cardinality(Owing)
        BY <1>1, <2>4 DEF ActsInv, KeysSuffice
      <4>2. Cardinality(Owing) \in Nat /\ Cardinality(Owing) # 0
        BY OwingIsFinite, FS_EmptySet
      <4>3. keycount \in Int
        BY DEF IInv, Typed, GameTyped
      <4> QED
        BY <2>7, <4>1, <4>2, <4>3
    <3>2. ~ BetsOpen'
      BY <2>7 DEF BetsOpen
    <3> QED
      BY <1>3, <2>5, <3>1, <3>2
         DEF ActsInv, TurnsInOrder, KeysSuffice, AllHaveActed
  <2> QED
    BY <2>3, <2>6, <2>7
<1> QED
  BY <1>4, <1>5

\* The turn that finish passes on goes to a seat in the hand, and past it
\* only if it cannot bet or if nobody is to bet against it.
LEMMA FinishTurn ==
    ASSUME IInv, HInv, ActsInv, count.leavers = 0, Finish
    PROVE  LET n == NextSeat(current_seat)
           IN  /\ n \in InHand /\ n \in Seats /\ n # -1 /\ current_seat' = n
               /\ pc' \in {"machine", "released"} /\ failed' = "no"
               /\ pc' = "machine" =>
                     n \notin CanPlay \/ ~ (Cardinality(CanPlay) > 1)
               /\ LastTurn = current_seat
               /\ LastTurn' = IF pc' = "released" THEN n - 1 ELSE n
<1> DEFINE n == NextSeat(current_seat)
<1>1. /\ pc = "finish" /\ current_seat' = n
      /\ failed' = IF n = -1 THEN "nobodyNext" ELSE "no"
      /\ pc' = IF n # -1 /\ (chips[n] = 0 \/ (ranOut /\ InHandCount = 2))
               THEN "machine" ELSE "released"
  BY DEF Finish
<1>2. state \in Streets /\ InHandCount >= 2
  BY <1>1 DEF Finish, IInv, Control, TwoInHand
<1>3. n \in InHand
  BY <1>2, TurnSeat, InHandSome
<1>4. n \in Seats /\ n # -1
  BY <1>3, NAssumption DEF InHand, Seats
<1> HIDE DEF n
<1>5. ASSUME chips[n] = 0 PROVE n \notin CanPlay
  BY <1>2, <1>5 DEF ActsInv, StacksInPlay
<1>6. ASSUME ranOut, InHandCount = 2, Cardinality(CanPlay) > 1
      PROVE  FALSE
  <2>1. PassedIsAllIn
    BY DEF ActsInv
  <2>2. AllIn # {}
    BY <1>2, <1>6, <2>1, Zenon DEF PassedIsAllIn
  <2>3. PICK x : x \in AllIn
    BY <2>2
  <2>4. x \in InHand /\ CanPlay \subseteq InHand \ {x}
    BY <2>3, OwingIsFinite
  <2>5. /\ IsFiniteSet(InHand \ {x})
        /\ Cardinality(InHand \ {x}) = Cardinality(InHand) - 1
    BY <2>4, OwingIsFinite, FS_RemoveElement, Zenon
  <2>6. Cardinality(CanPlay) <= Cardinality(InHand \ {x})
    BY <2>4, <2>5, FS_Subset
  <2> QED
    BY <1>6, <2>5, <2>6, OwingIsFinite DEF InHandCount
<1>7. pc' = "machine" => n \notin CanPlay \/ ~ (Cardinality(CanPlay) > 1)
  BY <1>1, <1>4, <1>5, <1>6
<1>8. LastTurn = current_seat /\ LastTurn' = IF pc' = "released" THEN n - 1 ELSE n
  BY <1>1 DEF LastTurn
<1> QED
  BY <1>1, <1>3, <1>4, <1>7, <1>8 DEF n

\* The turn goes to the nearest seat in the hand, and past it only if it
\* cannot act.
LEMMA FinishActs ==
    ASSUME IInv, HInv, ActsInv, Finish
    PROVE  ActsInv'
<1> DEFINE c == current_seat
           n == NextSeat(c)
<1>1. /\ UNCHANGED <<status, chips, state, acted, count, staked, keycount>>
      /\ pc = "finish" /\ failed = "no" /\ current_seat' = n
      /\ ranOut' = (ranOut \/ (n # -1 /\ chips[n] = 0))
      /\ pc' = IF n # -1 /\ (chips[n] = 0 \/ (ranOut /\ InHandCount = 2))
               THEN "machine" ELSE "released"
  BY DEF Finish, books
<1>2. /\ CanPlay' = CanPlay /\ AllIn' = AllIn /\ Short' = Short
      /\ InHand' = InHand /\ Owing' = Owing /\ Exempt' = Exempt
      /\ Contested' = Contested
  BY <1>1 DEF CanPlay, AllIn, Short, InHand, Owing, Exempt, Contested
<1>3. /\ state \in Streets /\ c \in Seats \cup {-1} /\ n \in InHand
      /\ InHand \in SUBSET Seats /\ Owing \subseteq InHand
      /\ chips \in [Seats -> Nat]
  <2>1. state \in Streets /\ InHandCount >= 2
    BY <1>1 DEF IInv, Control, TwoInHand
  <2> QED
    BY <2>1, TurnSeat, InHandSome, OwingIsFinite DEF IInv, Typed, GameTyped,
       PotsTyped, InHand
<1>4. n # -1 /\ n \in Seats
  <2>1. \A x \in InHand : x # -1 /\ x \in Seats
    BY NAssumption DEF InHand, Seats
  <2> QED
    BY <1>3, <2>1
<1> SUFFICES ASSUME count'.leavers = 0
             PROVE  ActsInv'
  BY DEF ActsInv
<1>5. pc' = "machine" => n \notin CanPlay \/ ~ (Cardinality(CanPlay) > 1)
  BY <1>1, FinishTurn
<1>6. chips[n] = 0 => n \in AllIn
  <2>1. n \in CanPlay => chips[n] > 0
    BY <1>1, <1>3 DEF ActsInv, StacksInPlay
  <2> QED
    BY <1>3, <1>4, <2>1, OwingIsFinite
<1>7. StacksInPlay' /\ PassedIsAllIn'
  BY <1>1, <1>2, <1>6 DEF ActsInv, StacksInPlay, PassedIsAllIn
<1>8. FirstTurn'
  <2> SUFFICES ASSUME pc' = "released", n \in AllIn
               PROVE  FALSE
    BY <1>1, <1>2 DEF FirstTurn
  <2>1. chips[n] # 0
    BY <1>1, <1>4
  <2>2. CanPlay = {}
    BY <1>1, <1>3, <1>4, <2>1 DEF HInv, Turns, AllInIsSpent, AllIn
  <2> QED
    BY <1>1, <2>2 DEF HInv, Turns, SomebodyCanPlay
<1>9. TurnsInOrder'
  <2> SUFFICES ASSUME BetsOpen', NEW w \in Owing, NEW a \in acted \cap InHand
               PROVE  After(LastTurn', w) < After(LastTurn', a)
    BY <1>1, <1>2 DEF TurnsInOrder, After
  <2>1. BetsOpen /\ Contested
    BY <1>1, <1>2 DEF BetsOpen
  <2>2. After(c, w) < After(c, a)
    BY <1>1, <2>1 DEF ActsInv, TurnsInOrder, LastTurn
  <2>3. w \in Seats /\ a \in Seats /\ w \in InHand /\ w # a
    BY <1>3 DEF Owing
  <2>4. After(c, n) <= After(c, w) /\ After(c, n) <= After(c, a)
    BY <1>3, <2>3, NextIsNearest DEF NextSeat
  <2>5. /\ After(n - 1, w) = After(c, w) - After(c, n)
        /\ After(n, w) = IF w = n THEN N - 1 ELSE After(n - 1, w) - 1
        /\ After(n - 1, a) = After(c, a) - After(c, n)
        /\ After(n, a) = IF a = n THEN N - 1 ELSE After(n - 1, a) - 1
    BY <1>3, <1>4, <2>3, <2>4, TurnMoves
  <2>6. /\ After(c, w) \in 0..(N - 1) /\ After(c, a) \in 0..(N - 1)
        /\ After(c, n) \in 0..(N - 1) /\ N \in Nat
    BY <1>3, <1>4, <2>3, AfterIsDistance, NAssumption
  <2> HIDE DEF n, c
  <2>7. CASE pc' = "released"
    <3>1. LastTurn' = n - 1
      BY <1>1, <2>7 DEF LastTurn
    <3> QED
      BY <2>2, <2>5, <2>6, <3>1
  <2>8. CASE pc' # "released"
    <3>1. LastTurn' = n
      BY <1>1, <2>8 DEF LastTurn
    <3>2. w # n
      BY <1>1, <1>5, <2>1, <2>8, OwingIsFinite DEF Contested
    <3> QED
      BY <2>2, <2>5, <2>6, <3>1, <3>2
  <2> QED
    BY <2>7, <2>8
<1>10. KeysSuffice' /\ AllHaveActed'
  <2>1. BetsOpen' => BetsOpen
    BY <1>1, <1>2 DEF BetsOpen
  <2> QED
    BY <1>1, <1>2, <2>1 DEF ActsInv, KeysSuffice, AllHaveActed
<1> QED
  BY <1>7, <1>8, <1>9, <1>10 DEF ActsInv

\* Nobody has acted in a street that begins, and keycount counts everybody.
LEMMA NobodyHasActed ==
    ASSUME state' \in Streets, acted' = {}, pc' \notin {"street", "showdown"},
           StacksInPlay', PassedIsAllIn', FirstTurn',
           keycount' = KeyCount(status', chips')
    PROVE  ActsInv'
<1>1. Owing' = CanPlay'
  BY DEF Owing
<1>2. {s \in Seats : status'[s] = "psInHand" /\ chips'[s] > 0} = CanPlay'
  BY DEF StacksInPlay, CanPlay
<1>3. keycount' = Cardinality(Owing') /\ Cardinality(CanPlay') \in Nat
  <2>1. CanPlay' \in SUBSET Seats
    BY DEF CanPlay
  <2> QED
    BY <1>1, <1>2, <2>1, SeatsFinite DEF KeyCount
<1>4. TurnsInOrder' /\ KeysSuffice' /\ AllHaveActed'
  BY <1>1, <1>3 DEF TurnsInOrder, KeysSuffice, AllHaveActed
<1> QED
  BY <1>4 DEF ActsInv

LEMMA DealStreetActs ==
    ASSUME IInv, ActsInv, DealStreet
    PROVE  ActsInv'
<1>1. /\ UNCHANGED <<status, chips, ranOut, count, staked>>
      /\ pc = "street" /\ state \in Streets
      /\ pc' \in {"machine", "finish"} /\ acted' = {}
      /\ keycount' = KeyCount(status, chips)
  BY DEF DealStreet, IInv, Control, Typed, GameTyped
<1>2. state' \in Streets
  <2>1. state \in {"tsPreFlop", "tsFlop", "tsTurn"}
    BY <1>1 DEF IInv, Control, Streets
  <2> QED
    BY <2>1 DEF DealStreet, NextStreet, Streets
<1>3. CanPlay' = CanPlay /\ AllIn' = AllIn
  BY <1>1 DEF CanPlay, AllIn
<1> SUFFICES ASSUME count'.leavers = 0
             PROVE  ActsInv'
  BY DEF ActsInv
<1>4. StacksInPlay' /\ PassedIsAllIn' /\ FirstTurn'
  BY <1>1, <1>3 DEF ActsInv, StacksInPlay, PassedIsAllIn, FirstTurn
<1> QED
  BY <1>1, <1>2, <1>4, NobodyHasActed

LEMMA DealActs ==
    ASSUME IInv, Deal
    PROVE  ActsInv'
<1> DEFINE dealt == Dealing!DealtIn(DealtTable)
           due == [s \in Seats |->
                     IF s \in dealt
                     THEN Dealing!BlindDue(DealtTable, s, SmallBlind, BigBlind)
                     ELSE 0]
           status1 == [s \in Seats |->
                         IF s \in dealt
                         THEN IF due[s] = chips[s] THEN "psAllIn"
                              ELSE "psInHand"
                         ELSE SatOut[s]]
           chips1 == [s \in Seats |-> chips[s] - due[s]]
<1>1. /\ pc' = "free" /\ state' = "tsPreFlop" /\ acted' = {}
      /\ status' = status1 /\ chips' = chips1 /\ ranOut' = FALSE
      /\ keycount' = KeyCount(status1, chips1)
  BY DEF Deal
<1>2. /\ \A s \in Seats : due[s] \in Nat /\ due[s] <= chips[s]
      /\ chips \in [Seats -> Nat]
  <2>1. chips \in [Seats -> Nat]
    BY DEF IInv, Typed, PotsTyped
  <2> QED
    BY <2>1, BlindIsCovered
<1>3. \A s \in Seats \ dealt : due[s] = 0
  OBVIOUS
<1> HIDE DEF dealt, due
<1>4. ASSUME NEW s \in Seats, status1[s] = "psInHand"
      PROVE  chips1[s] > 0
  <2>1. chips[s] \in Nat /\ due[s] \in Nat /\ due[s] <= chips[s]
    BY <1>2
  <2>2. CASE s \in dealt
    BY <1>4, <2>1, <2>2
  <2>3. CASE s \notin dealt
    BY <1>3, <1>4, <2>1, <2>3 DEF SatOut
  <2> QED
    BY <2>2, <2>3
<1> HIDE DEF status1, chips1
<1>5. StacksInPlay'
  BY <1>1, <1>4 DEF StacksInPlay, CanPlay
<1>6. PassedIsAllIn' /\ FirstTurn' /\ state' \in Streets
  BY <1>1 DEF PassedIsAllIn, FirstTurn, Streets
<1> QED
  BY <1>1, <1>5, <1>6, NobodyHasActed

-----------------------------------------------------------------------------
LEMMA ActsInvariance == Spec => []ActsInv
<1>1. ASSUME IInv, HInv, LInv, ActsInv, [Next]_vars PROVE ActsInv'
  <2>1. CASE Deal
    BY <1>1, <2>1, DealActs
  <2>2. CASE Act
    <3>1. PICK s \in Seats : \/ \E bet \in BetsTried(s) : PutChips(s, bet)
                             \/ Fold(s) \/ TimeOut(s)
      BY <2>2 DEF Act
    <3>2. minBet \in Nat /\ BetsTried(s) \subseteq Nat
      BY <1>1, BetsTriedType
    <3>3. (\E bet \in Nat : PutChips(s, bet)) \/ FoldInTurn(s)
      BY <3>1, <3>2 DEF Fold, TimeOut
    <3> QED
      BY <1>1, <3>3, PutChipsActs, FoldInTurnActs
  <2>3. CASE Leave
    BY <1>1, <2>3, RestActs DEF Leave
  <2>4. CASE Sit
    BY <1>1, <2>4, SitActs
  <2>5. CASE Buy
    BY <1>1, <2>5, AddOnActs DEF Buy
  <2>6. CASE EndHand
    BY <1>1, <2>6, RestActs DEF EndHand
  <2>7. CASE Locked
    BY <1>1, <2>7, StateMachineActs, FinishActs, MoveToPotActs,
       DealStreetActs, RestActs, DealActs, ReleaseActs DEF Locked
  <2>8. CASE UNCHANGED vars
    BY <1>1, <2>8, StutterActs
  <2> QED
    BY <1>1, <2>1, <2>2, <2>3, <2>4, <2>5, <2>6, <2>7, <2>8 DEF Next
<1> QED
  BY <1>1, InitActs, Invariance, HandInvariance, LawInvariance, PTL DEF Spec

\* No street ends before every seat that can still bet has acted in it, for
\* any table, blinds, stacks and bets, unless a seat that its blind has put
\* all in has had the first turn.
THEOREM NobodyIsPassedOver == Spec => []EverybodyActs
<1>1. IInv /\ ActsInv => EverybodyActs
  <2> SUFFICES ASSUME IInv, ActsInv, count.leavers = 0, StreetIsOver,
                      Cardinality(CanPlay) > 1
               PROVE  \/ CanPlay \subseteq acted
                      \/ state = "tsPreFlop" /\ acted \cap Short # {}
    BY DEF EverybodyActs
  <2>1. Contested /\ pc \in {"street", "showdown"}
    BY DEF Contested, StreetIsOver, IInv, Control
  <2> QED
    BY <2>1 DEF ActsInv, AllHaveActed, Owing, Exempt
<1> QED
  BY <1>1, Invariance, ActsInvariance, PTL

=============================================================================
