------------------------------ MODULE SidePots ------------------------------
(***************************************************************************)
(* How the bets of a betting round become pots: Game.moveToPot of          *)
(* src/server/game.js with Pot.add of src/server/pot.js.                   *)
(*                                                                         *)
(* moveToPot runs under the table's lock and its loops are not observed    *)
(* half way; each turn of one of its three loops is a step here, so that   *)
(* no step needs a recursive definition.  `mv` says which loop runs and    *)
(* `at` is its index.                                                      *)
(*                                                                         *)
(* The members of a pot are kept as sets.  The code keeps them as arrays   *)
(* and compares the arrays, joined, for equality; every pot is filled by   *)
(* passes over the seats in ascending order and only ever loses members,   *)
(* so two of its arrays are equal when they hold the same seats, and       *)
(* members[0] is the lowest seat.                                          *)
(***************************************************************************)
EXTENDS Integers, Sequences, FiniteSets

CONSTANT N  \* obj.seats

ASSUME NAssumption == N \in Nat /\ N >= 2

Seats == 0..(N - 1)

VARIABLES
    status,   \* members[s].status, "empty" when members[s] is null
    leaving,  \* the seat that standUp is emptying, members[s] null and
              \* seats[s] not yet, or NoSeat
    chips,    \* members[s].chips, 0 when members[s] is null
    bets,     \* bets[s]
    pots,     \* pots
    balance,  \* balance_changes[s], what the hand has brought the seat so far
    mv,       \* the loop of moveToPot that runs, "none" outside moveToPot
    at,       \* its index
    failed    \* the assertion or null dereference that ended the process

potVars == <<status, leaving, chips, bets, pots, balance, mv, at, failed>>

NoSeat == -1
Statuses ==
    {"psInHand", "psAllIn", "psFolded", "psOutOfHand", "psOutOfPlay", "empty"}
Pots == [value : Nat, members : SUBSET Seats, trueMembers : SUBSET Seats]
EmptyPot == [value |-> 0, members |-> {}, trueMembers |-> {}]

Lowest(S) == CHOOSE x \in S : \A y \in S : x <= y

InHand == {s \in Seats : status[s] \in {"psInHand", "psAllIn"}}

\* seats[s] is not null
Taken(s) == status[s] # "empty" \/ leaving = s

\* The seats whose balance_changes moveToPot books.
Booked(s) == Taken(s) /\ status[s] \notin {"psOutOfHand", "psOutOfPlay"}

-----------------------------------------------------------------------------
\* One turn of the do-while loop: the lowest bet is taken from every seat
\* that has bet, into the last pot, and a new pot is opened on top of it.
Bettors == {s \in Seats : bets[s] > 0}

\* Mutant of AddToPot: a pot that folded seats share in
AddToPotFolded(pot, bet, who) ==
    [value       |-> pot.value + bet * Cardinality(who),
     members     |-> pot.members \cup who,
     trueMembers |-> pot.trueMembers \cup who]

\* Mutant of AddToPot: a seat that is all in is not made a member
AddToPotNotAllIn(pot, bet, who) ==
    [value       |-> pot.value + bet * Cardinality(who),
     members     |-> pot.members \cup {s \in who : status[s] = "psInHand"},
     trueMembers |-> pot.trueMembers \cup who]

\* Pot.add for each of the seats in who
AddToPot(pot, bet, who) ==
    LET shown == pot.members
                   \cup {s \in who : status[s] \notin {"empty", "psFolded"}}
        true  == pot.trueMembers \cup who
    IN  [value       |-> pot.value + bet * Cardinality(who),
         members     |-> IF shown = {} /\ Cardinality(true) = 1
                         THEN true ELSE shown,
         trueMembers |-> true]

MovePass ==
    /\ mv = "pass" /\ failed = "no"
    /\ IF Bettors = {}
       THEN /\ mv' = "merge"
            /\ UNCHANGED <<bets, pots, balance, failed>>
       ELSE LET min == Lowest({bets[s] : s \in Bettors})
                pot == AddToPot(pots[Len(pots)], min, Bettors)
            IN  /\ bets' = [s \in Seats |->
                              IF s \in Bettors THEN bets[s] - min ELSE bets[s]]
                /\ balance' = [s \in Seats |->
                                 IF s \in Bettors /\ Booked(s)
                                 THEN balance[s] - min ELSE balance[s]]
                /\ pots' = Append([pots EXCEPT ![Len(pots)] = pot], EmptyPot)
                /\ failed' = IF pot.members = {} THEN "potWithoutMembers"
                             ELSE "no"
                /\ mv' = IF \A s \in Bettors : bets[s] = min
                         THEN "merge" ELSE "pass"
    /\ at' = 1
    /\ UNCHANGED <<status, leaving, chips>>

\* s without its i-th element
Without(s, i) ==
    [j \in 1..(Len(s) - 1) |-> IF j < i THEN s[j] ELSE s[j + 1]]

\* Mutant of MergePots: every pot is joined with the next one
MergeAnyPots ==
    /\ mv = "merge" /\ failed = "no"
    /\ IF at >= Len(pots)
       THEN mv' = "return" /\ at' = 1 /\ UNCHANGED pots
       ELSE /\ pots' = Without([pots EXCEPT ![at].value =
                                   @ + pots[at + 1].value], at + 1)
            /\ UNCHANGED <<mv, at>>
    /\ UNCHANGED <<status, leaving, chips, bets, balance, failed>>

\* Mutant of MergePots: the loop stays at a pot that is not joined
MergePotsStuck ==
    /\ mv = "merge" /\ failed = "no"
    /\ IF at >= Len(pots)
       THEN mv' = "return" /\ at' = 1 /\ UNCHANGED <<pots, failed>>
       ELSE /\ IF pots[at].members = pots[at + 1].members
               THEN pots' = Without([pots EXCEPT ![at].value =
                                        @ + pots[at + 1].value], at + 1)
               ELSE pots' = pots
            /\ UNCHANGED <<mv, at, failed>>
    /\ UNCHANGED <<status, leaving, chips, bets, balance>>

\* One turn of the loop that joins a pot with the next one when they have
\* the same members.
MergePots ==
    /\ mv = "merge" /\ failed = "no"
    /\ IF at >= Len(pots)
       THEN mv' = "return" /\ at' = 1 /\ UNCHANGED <<pots, failed>>
       ELSE /\ failed' = IF pots[at].value > 0 /\ pots[at].members = {}
                         THEN "potWithoutMembers" ELSE "no"
            /\ IF pots[at].members = pots[at + 1].members
               THEN /\ pots' = Without([pots EXCEPT ![at].value =
                                           @ + pots[at + 1].value], at + 1)
                    /\ at' = at
               ELSE at' = at + 1 /\ pots' = pots
            /\ mv' = mv
    /\ UNCHANGED <<status, leaving, chips, bets, balance>>

\* Mutant of ReturnPot: the pot is given back and not booked
ReturnPotUnbooked ==
    /\ mv = "return" /\ failed = "no"
    /\ at <= Len(pots)
    /\ at' = at + 1
    /\ IF Cardinality(pots[at].trueMembers) = 1
       THEN /\ chips' = [s \in Seats |->
                           IF s = Lowest(pots[at].members)
                           THEN chips[s] + pots[at].value ELSE chips[s]]
            /\ pots' = Without(pots, at)
       ELSE UNCHANGED <<chips, pots>>
    /\ UNCHANGED <<status, leaving, bets, balance, mv, failed>>

\* Mutant of ReturnPot: the pot is given back and stays on the table
ReturnPotTwice ==
    /\ mv = "return" /\ failed = "no"
    /\ at <= Len(pots)
    /\ at' = at + 1
    /\ IF Cardinality(pots[at].trueMembers) = 1
       THEN LET seat == Lowest(pots[at].members)
            IN  /\ chips' = [chips EXCEPT ![seat] = @ + pots[at].value]
                /\ balance' = [balance EXCEPT ![seat] = @ + pots[at].value]
       ELSE UNCHANGED <<chips, balance>>
    /\ UNCHANGED <<status, leaving, bets, pots, mv, failed>>

\* Mutant of ReturnPot: the loop starts with the second pot
ReturnPotFromSecond ==
    /\ mv = "return" /\ failed = "no"
    /\ at <= Len(pots)
    /\ at' = at + 1
    /\ IF at > 1 /\ Cardinality(pots[at].trueMembers) = 1
       THEN LET seat == Lowest(pots[at].members)
            IN  /\ chips' = [chips EXCEPT ![seat] = @ + pots[at].value]
                /\ balance' = [balance EXCEPT ![seat] = @ + pots[at].value]
                /\ pots' = Without(pots, at)
       ELSE UNCHANGED <<chips, balance, pots>>
    /\ UNCHANGED <<status, leaving, bets, mv, failed>>

\* One turn of the loop that gives a pot only one seat has paid into back to
\* that seat.  A pot that is removed makes the loop skip the one behind it.
\* If nobody sits on the seat any more the chips are gone.
ReturnPot ==
    /\ mv = "return" /\ failed = "no"
    /\ at <= Len(pots)
    /\ at' = at + 1
    /\ IF Cardinality(pots[at].trueMembers) = 1
       THEN LET back == pots[at].value
                seat == IF pots[at].members = {} THEN NoSeat
                        ELSE Lowest(pots[at].members)
            IN  /\ chips' = [s \in Seats |->
                               IF s = seat /\ status[s] # "empty"
                               THEN chips[s] + back ELSE chips[s]]
                /\ balance' = [s \in Seats |->
                                 IF s = seat /\ Booked(s)
                                 THEN balance[s] + back ELSE balance[s]]
                /\ pots' = Without(pots, at)
       ELSE UNCHANGED <<chips, balance, pots>>
    /\ UNCHANGED <<status, leaving, bets, mv, failed>>

Moved == mv = "return" /\ at > Len(pots) /\ failed = "no"

MoveStep == MovePass \/ MergePots \/ ReturnPot
=============================================================================
