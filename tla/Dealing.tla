------------------------------ MODULE Dealing ------------------------------
(***************************************************************************)
(* Who is dealt in and who posts a blind: the seat searches of             *)
(* src/server/game.js (getNextSeat, nextDealer) and the two loops of       *)
(* Game.deal, as functions of the table the deal starts from.              *)
(*                                                                         *)
(* The searches go round the table from a seat; -1 is "no such seat".      *)
(***************************************************************************)
EXTENDS Integers, FiniteSets

CONSTANT N  \* obj.seats

Seats == 0..(N - 1)

\* How far seat x is from seat `from`, going round the table.
Distance(from, x) == (x - from) % N

\* getNextSeat(current): the first seat of S after current, which is
\* considered last itself.
NextSeat(current, S) ==
    IF S \cap Seats = {} THEN -1
    ELSE CHOOSE x \in S \cap Seats :
            \A y \in S : Distance(current + 1, x) <= Distance(current + 1, y)

(***************************************************************************)
(* A table t that is about to deal:                                        *)
(*   status     the members' statuses ("empty" for none)                   *)
(*   chips      their chips                                                *)
(*   offline    the seats whose members are disconnected                   *)
(*   returning  the seats whose user is the one who played there last      *)
(*   dealer     the dealer of the hand before, -1 for none                 *)
(***************************************************************************)
\* Whom nextDealer accepts, and whom the deal can deal in at all.
Able(t) ==
    {s \in Seats : /\ t.status[s] \notin {"empty", "psOutOfPlay"}
                   /\ s \notin t.offline
                   /\ t.chips[s] > 0}

OldDealer(t) == IF t.dealer < 0 THEN 0 ELSE t.dealer
FirstDealer(t) == NextSeat(t.dealer, Able(t))

\* The blinds of the round before the newcomers are let in.
Playing(t) == {s \in Seats : t.status[s] \in {"psInHand", "psAllIn"}}
OldSmallBlind(t) == NextSeat(OldDealer(t), Playing(t))
OldBigBlind(t) == NextSeat(OldSmallBlind(t), Playing(t))

CanPlay(t) ==
    Cardinality({s \in Seats : t.status[s] \in {"psInHand", "psOutOfHand"}})

\* A club member who comes back to the seat he played last is in again.
Rejoining(t) == {s \in t.returning : t.status[s] = "psOutOfHand"}
NotPlaying(t) == (Able(t) \ Playing(t)) \ Rejoining(t)
Newcomers(t) == {s \in NotPlaying(t) : t.status[s] = "psOutOfHand"}

\* CASE2 of the loop: the members between the old dealer and the big blind
\* who were not in, and have to wait for the blinds to pass them.
MustWait(t) ==
    IF CanPlay(t) < 3 \/ Playing(t) = {} THEN {}
    ELSE {s \in NotPlaying(t) :
            /\ Distance(OldDealer(t), s) > 0
            /\ Distance(OldDealer(t), s)
                  < Distance(OldDealer(t), OldBigBlind(t))}

\* A waiting member who is the dealer is dealt in after all, and the
\* button moves on, perhaps to the next such member.
ReachedByButton(t) ==
    {s \in MustWait(t) :
        LET first == Distance(OldDealer(t), FirstDealer(t))
            here  == Distance(OldDealer(t), s)
        IN  /\ first <= here
            /\ \A y \in Able(t) :
                 Distance(OldDealer(t), y) \in first..(here - 1)
                    => y \in MustWait(t)}

DealtIn(t) == Able(t) \ (MustWait(t) \ ReachedByButton(t))

\* Mutant of NewDealer: the button does not move on
NewDealerStays(t) == FirstDealer(t)

NewDealer(t) ==
    IF ReachedByButton(t) = {} THEN FirstDealer(t)
    ELSE NextSeat(CHOOSE s \in ReachedByButton(t) :
                     \A y \in ReachedByButton(t) :
                        Distance(OldDealer(t), y) <= Distance(OldDealer(t), s),
                  Able(t))

-----------------------------------------------------------------------------
\* Two members with chips: the dealer posts the small blind.
HeadsUp(t) == Cardinality(Able(t)) = 2

SmallBlindSeat(t) ==
    LET next == NextSeat(NewDealer(t), DealtIn(t))
    IN  IF HeadsUp(t) THEN NextSeat(next, DealtIn(t)) ELSE next

BigBlindSeat(t) == NextSeat(SmallBlindSeat(t), DealtIn(t))

\* Mutant of ForcedBigBlind: a newcomer posts one heads up, too
ForcedHeadsUp(t) == ReachedByButton(t) \cup (Newcomers(t) \cap DealtIn(t))

\* Who posts a big blind to come in (at a club's table).
ForcedBigBlind(t) ==
    ReachedByButton(t)
      \cup (IF HeadsUp(t) THEN {} ELSE Newcomers(t) \cap DealtIn(t))

\* What seat s owes: its todo entry, at most its chips.
BlindDue(t, s, small, big) ==
    LET due == IF s = BigBlindSeat(t) \/ s \in ForcedBigBlind(t) THEN big
               ELSE IF s = SmallBlindSeat(t) THEN small ELSE 0
    IN  IF t.chips[s] <= due THEN t.chips[s] ELSE due
=============================================================================
