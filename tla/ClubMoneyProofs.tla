--------------------------- MODULE ClubMoneyProofs ---------------------------
(***************************************************************************)
(* The money of a member of a club, at any number of tables, with any      *)
(* buy-ins, bets and gains: what the memory of the club and the database   *)
(* have of him agrees with his stacks and his hands, and he risks no more  *)
(* than his limit.                                                         *)
(*                                                                         *)
(* The three are statements about sums over the tables.  Each step of a    *)
(* table is shown to leave the others alone (OnlyAt) and to move its own   *)
(* summands by what it moves the books by (Balanced, Limited).             *)
(***************************************************************************)
EXTENDS ClubMoney, Numbers

\* A member who is not seated has no stack.
OffSeat(m) == m.seated \/ m.chips = 0

\* The seat that a buy-in was asked for is as it was: the lock is held.
Request(t) ==
    pc[t] \in {"asked", "read"} =>
        req[t].kind = IF table[t].seated THEN "addon" ELSE "sit"

NothingToBook(t) == pc[t] \notin {"paid", "counted"} => change[t] = 0

\* A cash-out is not in the row of the table until the call that made it has
\* saved it, with the members.
CashOutIsSaved(t) ==
    CashedNotSaved(t) =>
        members[t] /\ pc[t] \in {"leaving", "save", "paid", "counted", "booked"}

LeavingIsUp(t) ==
    pc[t] = "leaving" => ~table[t].seated /\ saved[t].seated /\ members[t]

\* What the row of a table has of his stack he has there, unless he has been
\* cashed out or his hand is booked.
SavedStack(t) ==
    pc[t] \in {"free", "asked", "read", "seating"} \/ ~members[t] =>
        saved[t].chips <= table[t].chips

Unbooked(t) == IF pc[t] \in {"paid", "counted"} THEN change[t] ELSE 0
SavedIsHeld(t) ==
    pc[t] # "booked" /\ ~CashedNotSaved(t) =>
        saved[t].chips <= Held(t) - Unbooked(t)

AtTable(t) ==
    /\ OffSeat(table[t]) /\ OffSeat(saved[t])
    /\ Request(t) /\ NothingToBook(t) /\ LeavingIsUp(t)
    /\ CashOutIsSaved(t) /\ SavedStack(t) /\ SavedIsHeld(t)

\* The row of a table agrees with the table, seat by seat, ...
SeatIsSaved(t) ==
    /\ pc[t] = "save" => members[t]
    /\ pc[t] \in {"free", "asked", "read", "move"} =>
         saved[t].seated = table[t].seated
    /\ pc[t] \in {"paid", "counted", "booked"} /\ ~members[t] =>
         saved[t].seated = table[t].seated

\* ... bet by bet ...
BetsAreSaved(t) ==
    pc[t] \in {"free", "asked", "read"} =>
        saved[t].bet = table[t].bet /\ saved[t].potted = table[t].potted

\* ... and chip by chip, unless chips have been bought or won since.
ChipsAreSaved(t) ==
    pc[t] \in {"free", "asked", "read"} \/ (pc[t] = "move" /\ ~members[t]) =>
        LacksChips(t) \/ saved[t].chips = table[t].chips

\* A restart gives him back what he has, with the hand that is being booked, if
\* the row lacks nothing of it.
HeldInRow(t) == saved[t].chips + saved[t].bet + saved[t].potted
NothingIsUndone(t) ==
    pc[t] # "booked" /\ ~CashedNotSaved(t) /\ gap[t] = {} =>
        HeldInRow(t) = Held(t) - Unbooked(t)

InRow(t) ==
    SeatIsSaved(t) /\ BetsAreSaved(t) /\ ChipsAreSaved(t) /\ NothingIsUndone(t)

\* What the books miss of a table while one of its calls is under way.
Pending(t) ==
    (IF pc[t] = "seating" THEN req[t].chips ELSE 0)
      - (IF pc[t] = "counted" THEN change[t] ELSE 0)

HeldOf == [t \in Tables |-> Held(t)]
StakeOf == [t \in Tables |-> Stake(t)]
PendingOf == [t \in Tables |-> Pending(t)]

\* The slips that LimitHolds allows.
Tolerable == slips \subseteq {"unsaved", "unbet"}
BooksWithinLimit == Tolerable => SumOver(PendingOf) - (mem + db) <= Limit
NothingForgotten == Tolerable => drift <= 0

ClubInv ==
    /\ TypeOK
    /\ \A t \in Tables : AtTable(t) /\ InRow(t)
    /\ StakesAreCounted
    /\ HandsAreBooked
    /\ BooksWithinLimit
    /\ NothingForgotten

-----------------------------------------------------------------------------
\* SumOver of a function on the tables, by the lemmas about sums.
LEMMA OverTables ==
    ASSUME NEW f, DOMAIN f = Tables
    PROVE  SumOver(f) = SumFunctionOnSet(f, Tables)
<1>1. SumOver(f) = SumFunction(f)
  BY FoldIsSum DEF SumOver
<1> QED
  BY <1>1 DEF SumFunction

\* The sum of integers is one.
LEMMA OverType ==
    ASSUME NEW f \in [Tables -> Int]
    PROVE  SumOver(f) \in Int
<1>1. \A t \in Tables : f[t] \in Int
  OBVIOUS
<1> QED
  BY <1>1, SumType, OverTables, ClubAssumption

\* When one table's summand changes, the sum changes by as much.
LEMMA OverChange ==
    ASSUME NEW f \in [Tables -> Int], NEW g \in [Tables -> Int],
           NEW t \in Tables, \A o \in Tables \ {t} : g[o] = f[o]
    PROVE  SumOver(g) = SumOver(f) - f[t] + g[t]
<1>1. \A o \in Tables : f[o] \in Int /\ g[o] \in Int
  OBVIOUS
<1> QED
  BY <1>1, SumChange, OverTables, ClubAssumption

\* Sums are added table by table.
LEMMA OverAdd ==
    ASSUME NEW f \in [Tables -> Int], NEW g \in [Tables -> Int],
           NEW h \in [Tables -> Int], \A t \in Tables : h[t] = f[t] + g[t]
    PROVE  SumOver(h) = SumOver(f) + SumOver(g)
<1>1. \A t \in Tables : f[t] \in Int /\ g[t] \in Int /\ h[t] = f[t] + g[t]
  OBVIOUS
<1> QED
  BY <1>1, SumAdd, OverTables, ClubAssumption

\* A sum is no more than another, if its summands are.
LEMMA OverAtMost ==
    ASSUME NEW f \in [Tables -> Int], NEW g \in [Tables -> Int],
           \A t \in Tables : f[t] <= g[t]
    PROVE  SumOver(f) <= SumOver(g)
<1>1. \A t \in Tables : f[t] \in Int /\ g[t] \in Int /\ f[t] <= g[t]
  OBVIOUS
<1> QED
  BY <1>1, SumAtMost, OverTables, ClubAssumption

\* Nothing at any table is nothing in all.
LEMMA OverZero ==
    ASSUME NEW f, DOMAIN f = Tables, \A t \in Tables : f[t] = 0
    PROVE  SumOver(f) = 0
BY SumZero, OverTables, ClubAssumption

-----------------------------------------------------------------------------
(***************************************************************************)
(* What a step of table t does.                                            *)
(***************************************************************************)
OnlyAt(t) ==
    \A o \in Tables \ {t} :
        /\ pc'[o] = pc[o] /\ req'[o] = req[o] /\ members'[o] = members[o]
        /\ table'[o] = table[o] /\ saved'[o] = saved[o]
        /\ change'[o] = change[o] /\ gap'[o] = gap[o]

Balanced(t) ==
    /\ mem' + Stake(t)' - drift' = mem + Stake(t) - drift
    /\ db' + change'[t] - Held(t)' + brought' - forfeit' =
         db + change[t] - Held(t) + brought - forfeit
    /\ slips \subseteq slips'

\* Within the limit before or after, where nothing has slipped.
Limited(t) ==
    Tolerable' =>
        /\ Tolerable /\ drift' <= drift
        /\ \/ Pending(t)' - (mem' + db') <= Pending(t) - (mem + db)
           \/ /\ \A o \in Tables : Pending(o) = 0
              /\ Pending(t)' - (mem' + db') <= Limit

TableStep(t) ==
    /\ TypeOK' /\ OnlyAt(t) /\ AtTable(t)' /\ InRow(t)'
    /\ Balanced(t) /\ Limited(t)

\* What is held, at stake or pending at a table is an integer.
LEMMA StakeType ==
    TypeOK => /\ StakeOf \in [Tables -> Int] /\ PendingOf \in [Tables -> Int]
              /\ HeldOf \in [Tables -> Int]
<1> SUFFICES ASSUME TypeOK
             PROVE  /\ StakeOf \in [Tables -> Int]
                    /\ PendingOf \in [Tables -> Int]
                    /\ HeldOf \in [Tables -> Int]
  OBVIOUS
<1>1. ASSUME NEW t \in Tables
      PROVE  Stake(t) \in Int /\ Pending(t) \in Int /\ Held(t) \in Int
  <2>1. table[t].chips \in Nat /\ table[t].bet \in Nat /\ table[t].potted \in Nat
    BY DEF TypeOK, Member
  <2>2. req[t].chips \in Nat /\ change[t] \in Int
    BY DEF TypeOK
  <2> QED
    BY <2>1, <2>2 DEF Stake, Pending, Held
<1> QED
  BY <1>1 DEF StakeOf, PendingOf, HeldOf

\* Such a step keeps the invariant.
LEMMA TableStepKeeps ==
    ASSUME ClubInv, NEW t \in Tables, TableStep(t)
    PROVE  ClubInv'
<1>0. /\ TypeOK' /\ OnlyAt(t) /\ AtTable(t)' /\ InRow(t)'
      /\ Balanced(t) /\ Limited(t)
  BY DEF TableStep
<1>1. /\ StakeOf \in [Tables -> Int] /\ StakeOf' \in [Tables -> Int]
      /\ PendingOf \in [Tables -> Int] /\ PendingOf' \in [Tables -> Int]
      /\ HeldOf \in [Tables -> Int] /\ HeldOf' \in [Tables -> Int]
  <2>1. TypeOK
    BY DEF ClubInv
  <2>2. /\ StakeOf \in [Tables -> Int] /\ PendingOf \in [Tables -> Int]
        /\ HeldOf \in [Tables -> Int]
    BY <2>1, StakeType
  <2>3. (TypeOK => /\ StakeOf \in [Tables -> Int] /\ PendingOf \in [Tables -> Int]
                   /\ HeldOf \in [Tables -> Int])'
    BY StakeType, PTL
  <2> QED
    BY <1>0, <2>2, <2>3
<1>2. \A o \in Tables \ {t} : /\ Stake(o)' = Stake(o) /\ Pending(o)' = Pending(o)
                               /\ Held(o)' = Held(o)
  BY <1>0 DEF OnlyAt, Stake, Pending, Held
<1>3. \A o \in Tables : AtTable(o)' /\ InRow(o)'
  <2>1. ASSUME NEW o \in Tables \ {t}
        PROVE  AtTable(o)' /\ InRow(o)'
    <3>1. AtTable(o) /\ InRow(o)
      BY DEF ClubInv
    <3>2. /\ pc'[o] = pc[o] /\ req'[o] = req[o] /\ members'[o] = members[o]
          /\ table'[o] = table[o] /\ saved'[o] = saved[o]
          /\ change'[o] = change[o] /\ gap'[o] = gap[o]
      BY <1>0 DEF OnlyAt
    <3>3. AtTable(o)'
      BY <3>1, <3>2 DEF AtTable, OffSeat, Request, NothingToBook,
         CashOutIsSaved, CashedNotSaved, LeavingIsUp, SavedStack, SavedIsHeld,
         Held, Unbooked
    <3>4. InRow(o)'
      BY <3>1, <3>2 DEF InRow, SeatIsSaved, BetsAreSaved, ChipsAreSaved,
         NothingIsUndone, HeldInRow, LacksChips, CashedNotSaved, Held, Unbooked
    <3> QED
      BY <3>3, <3>4
  <2> QED
    BY <1>0, <2>1
<1>4. /\ SumOver(StakeOf') = SumOver(StakeOf) - Stake(t) + Stake(t)'
      /\ SumOver(PendingOf') = SumOver(PendingOf) - Pending(t) + Pending(t)'
      /\ SumOver(HeldOf') = SumOver(HeldOf) - Held(t) + Held(t)'
  <2>1. /\ \A o \in Tables \ {t} : StakeOf'[o] = StakeOf[o]
        /\ \A o \in Tables \ {t} : PendingOf'[o] = PendingOf[o]
        /\ \A o \in Tables \ {t} : HeldOf'[o] = HeldOf[o]
    BY <1>2 DEF StakeOf, PendingOf, HeldOf
  <2>2. /\ StakeOf[t] = Stake(t) /\ StakeOf'[t] = Stake(t)'
        /\ PendingOf[t] = Pending(t) /\ PendingOf'[t] = Pending(t)'
        /\ HeldOf[t] = Held(t) /\ HeldOf'[t] = Held(t)'
    BY DEF StakeOf, PendingOf, HeldOf
  <2>3. SumOver(StakeOf') = SumOver(StakeOf) - StakeOf[t] + StakeOf'[t]
    BY <1>1, <2>1, OverChange
  <2>4. SumOver(PendingOf') = SumOver(PendingOf) - PendingOf[t] + PendingOf'[t]
    BY <1>1, <2>1, OverChange
  <2>5. SumOver(HeldOf') = SumOver(HeldOf) - HeldOf[t] + HeldOf'[t]
    BY <1>1, <2>1, OverChange
  <2> QED
    BY <2>2, <2>3, <2>4, <2>5
<1>5. /\ SumOver(StakeOf) \in Int /\ SumOver(PendingOf) \in Int
      /\ SumOver(HeldOf) \in Int /\ SumOver(HeldOf') \in Int
      /\ Stake(t) \in Int /\ Stake(t)' \in Int
      /\ Pending(t) \in Int /\ Pending(t)' \in Int
      /\ Held(t) \in Int /\ Held(t)' \in Int
  BY <1>1, OverType DEF StakeOf, PendingOf, HeldOf
<1>6. /\ mem \in Int /\ db \in Int /\ drift \in Int
      /\ brought \in Int /\ forfeit \in Int
      /\ mem' \in Int /\ db' \in Int /\ drift' \in Int
      /\ brought' \in Int /\ forfeit' \in Int
  BY <1>0 DEF ClubInv, TypeOK
<1>7. StakesAreCounted'
  <2>1. mem + SumOver(StakeOf) - drift = 0
    BY <1>5, <1>6 DEF ClubInv, StakesAreCounted, StakeOf
  <2>2. mem' + Stake(t)' - drift' = mem + Stake(t) - drift
    BY <1>0 DEF Balanced
  <2>3. mem' + SumOver(StakeOf') - drift' = 0
    BY <1>4, <1>5, <1>6, <2>1, <2>2
  <2>4. SumOver(StakeOf') \in Int
    BY <1>1, OverType
  <2>5. mem' + SumOver(StakeOf') = drift'
    <3> DEFINE sum == SumOver(StakeOf')
    <3>1. mem' \in Int /\ drift' \in Int /\ sum \in Int /\ mem' + sum - drift' = 0
      BY <1>6, <2>3, <2>4
    <3> HIDE DEF sum
    <3>2. PICK m \in Int, x \in Int, d \in Int :
             m = mem' /\ x = sum /\ d = drift'
      BY <3>1
    <3>3. m + x - d = 0
      BY <3>1, <3>2
    <3>4. m + x = d
      BY <3>3
    <3> QED
      BY <3>2, <3>4 DEF sum
  <2> QED
    BY <2>5 DEF StakesAreCounted, StakeOf
<1>8. HandsAreBooked'
  <2> SUFFICES ASSUME slips' \cap Undone = {}
               PROVE  db' + SumOver(change') =
                        SumOver(HeldOf') - brought' + forfeit'
    BY DEF HandsAreBooked, AtTables, HeldOf
  <2>1. change \in [Tables -> Int] /\ change' \in [Tables -> Int]
    BY <1>0 DEF ClubInv, TypeOK
  <2>2. SumOver(change') = SumOver(change) - change[t] + change'[t]
    BY <1>0, <2>1, OverChange DEF OnlyAt
  <2>3. /\ SumOver(change) \in Int /\ SumOver(change') \in Int
        /\ change[t] \in Int /\ change'[t] \in Int
    BY <2>1, OverType
  <2>4. slips \cap Undone = {}
    BY <1>0 DEF Balanced
  <2>5. db + SumOver(change) = SumOver(HeldOf) - brought + forfeit
    BY <2>4 DEF ClubInv, HandsAreBooked, AtTables, HeldOf
  <2>6. db' + change'[t] - Held(t)' + brought' - forfeit' =
          db + change[t] - Held(t) + brought - forfeit
    BY <1>0 DEF Balanced
  <2> DEFINE held == SumOver(HeldOf)
             heldAfter == SumOver(HeldOf')
             booking == SumOver(change)
             bookingAfter == SumOver(change')
  <2>7. /\ heldAfter = held - Held(t) + Held(t)'
        /\ held \in Int /\ heldAfter \in Int
        /\ booking \in Int /\ bookingAfter \in Int
        /\ bookingAfter = booking - change[t] + change'[t]
        /\ db + booking = held - brought + forfeit
    BY <1>4, <1>5, <2>2, <2>3, <2>5
  <2> HIDE DEF held, heldAfter, booking, bookingAfter
  <2>8. PICK d \in Int, b \in Int, h \in Int, r \in Int, f \in Int,
             c \in Int, g \in Int :
           /\ d = db' /\ b = bookingAfter /\ h = heldAfter
           /\ r = brought' /\ f = forfeit'
           /\ c = change'[t] /\ g = Held(t)'
    BY <1>5, <1>6, <2>3, <2>7
  <2>9. /\ h = held - Held(t) + g
        /\ b = booking - change[t] + c
        /\ d + c - g + r - f = db + change[t] - Held(t) + brought - forfeit
    BY <2>6, <2>7, <2>8
  <2>10. d + b = h - r + f
    BY <1>5, <1>6, <2>3, <2>7, <2>9
  <2> QED
    BY <2>8, <2>10 DEF bookingAfter, heldAfter
<1>9. BooksWithinLimit'
  <2> SUFFICES ASSUME Tolerable'
               PROVE  SumOver(PendingOf') - (mem' + db') <= Limit
    BY DEF BooksWithinLimit
  <2>1. Limit \in Int /\ SumOver(PendingOf) - (mem + db) <= Limit
    BY <1>0, ClubAssumption DEF ClubInv, BooksWithinLimit, Limited
  <2>2. CASE Pending(t)' - (mem' + db') <= Pending(t) - (mem + db)
    BY <1>4, <1>5, <1>6, <2>1, <2>2
  <2>3. CASE /\ \A o \in Tables : Pending(o) = 0
             /\ Pending(t)' - (mem' + db') <= Limit
    <3>1. SumOver(PendingOf) = 0
      BY <2>3, OverZero DEF PendingOf
    <3> QED
      BY <1>4, <1>5, <1>6, <2>1, <2>3, <3>1
  <2> QED
    BY <1>0, <2>2, <2>3 DEF Limited
<1>10. NothingForgotten'
  BY <1>0, <1>6 DEF ClubInv, NothingForgotten, Limited
<1> QED
  BY <1>0, <1>3, <1>7, <1>8, <1>9, <1>10 DEF ClubInv

-----------------------------------------------------------------------------
\* What is known of table t before a step.
LEMMA Before ==
    ASSUME ClubInv, NEW t \in Tables
    PROVE  /\ TypeOK /\ AtTable(t) /\ InRow(t)
           /\ table[t] \in Member /\ saved[t] \in Member
           /\ table[t].chips \in Nat /\ table[t].bet \in Nat
           /\ table[t].potted \in Nat
           /\ saved[t].chips \in Nat /\ saved[t].bet \in Nat
           /\ saved[t].potted \in Nat
           /\ gap[t] \subseteq {"chips", "bet"}
           /\ req[t].chips \in Nat /\ req[t].row \in Int
           /\ change[t] \in Int
           /\ mem \in Int /\ db \in Int /\ drift \in Int
           /\ brought \in Int /\ forfeit \in Int /\ known \in BOOLEAN
           /\ Limit \in Nat
<1>1. TypeOK /\ AtTable(t) /\ InRow(t)
  BY DEF ClubInv
<1>2. table[t] \in Member /\ saved[t] \in Member
  BY <1>1 DEF TypeOK
<1>3. /\ table[t].chips \in Nat /\ table[t].bet \in Nat
      /\ table[t].potted \in Nat /\ saved[t].chips \in Nat
      /\ saved[t].bet \in Nat /\ saved[t].potted \in Nat
  BY <1>2 DEF Member
<1>4. /\ req[t].chips \in Nat /\ req[t].row \in Int /\ change[t] \in Int
      /\ gap[t] \subseteq {"chips", "bet"}
  BY <1>1 DEF TypeOK
<1> QED
  BY <1>1, <1>2, <1>3, <1>4, ClubAssumption DEF TypeOK

\* Asking for a buy-in.
LEMMA AskToBuyStep ==
    ASSUME ClubInv, NEW t \in Tables, NEW c \in BuyIns,
           NEW k \in {"sit", "addon"}, AskToBuy(t, c, k)
    PROVE  TableStep(t)
<1> USE DEF AskToBuy, Goto, ghosts, ledger
<1>1. c \in Nat
  BY ClubAssumption
<1>2. TypeOK'
  BY <1>1, Before DEF TypeOK, Steps
<1>3. OnlyAt(t)
  BY Before DEF OnlyAt, TypeOK
<1>4. /\ pc[t] = "free" /\ pc'[t] = "asked" /\ req'[t].kind = k
      /\ k = "sit" <=> ~table[t].seated
  BY Before DEF TypeOK
<1>5. AtTable(t)'
  BY <1>4, Before DEF AtTable, OffSeat, Request, NothingToBook, CashOutIsSaved,
     CashedNotSaved, LeavingIsUp, SavedStack, SavedIsHeld, Held, Unbooked
<1>9. InRow(t)'
  BY <1>4, Before DEF AtTable, LeavingIsUp, InRow, SeatIsSaved,
     BetsAreSaved, ChipsAreSaved, NothingIsUndone, HeldInRow, LacksChips,
     CashedNotSaved, Held, Unbooked, NothingToBook
<1>6. Balanced(t)
  BY <1>4, Before DEF Balanced, Stake, Held
<1>7. Limited(t)
  BY <1>4, Before DEF Limited, Pending, Tolerable
<1> QED
  BY <1>2, <1>3, <1>5, <1>6, <1>7, <1>9 DEF TableStep

\* The row is read.
LEMMA FindRowStep ==
    ASSUME ClubInv, NEW t \in Tables, FindRow(t)
    PROVE  TableStep(t)
<1> USE DEF FindRow, Goto, ghosts, ledger
<1>1. TypeOK'
  <2>1. /\ req[t] \in [kind : {"none", "sit", "addon"}, chips : Nat, row : Int]
        /\ db \in Int
    BY Before DEF TypeOK
  <2>2. [req[t] EXCEPT !.row = db]
          \in [kind : {"none", "sit", "addon"}, chips : Nat, row : Int]
    BY <2>1
  <2> QED
    BY <2>2, Before DEF TypeOK, Steps
<1>2. OnlyAt(t)
  BY Before DEF OnlyAt, TypeOK
<1>3. pc[t] = "asked" /\ pc'[t] = "read" /\ req'[t].kind = req[t].kind
  BY Before DEF TypeOK
<1>4. AtTable(t)'
  BY <1>3, Before DEF AtTable, OffSeat, Request, NothingToBook, CashOutIsSaved,
     CashedNotSaved, LeavingIsUp, SavedStack, SavedIsHeld, Held, Unbooked
<1>9. InRow(t)'
  BY <1>3, Before DEF AtTable, LeavingIsUp, InRow, SeatIsSaved,
     BetsAreSaved, ChipsAreSaved, NothingIsUndone, HeldInRow, LacksChips,
     CashedNotSaved, Held, Unbooked, NothingToBook
<1>5. Balanced(t)
  BY <1>3, Before DEF Balanced, Stake, Held
<1>6. Limited(t)
  BY <1>3, Before DEF Limited, Pending, Tolerable
<1> QED
  BY <1>1, <1>2, <1>4, <1>5, <1>6, <1>9 DEF TableStep

\* A refusal.
LEMMA RefuseStep ==
    ASSUME ClubInv, NEW t \in Tables, Refuse(t)
    PROVE  TableStep(t)
<1> USE DEF Refuse, Goto, ghosts, ledger
<1>1. TypeOK'
  BY Before DEF TypeOK, Steps, NoRequest
<1>2. OnlyAt(t)
  BY Before DEF OnlyAt, TypeOK
<1>3. pc[t] = "read" /\ pc'[t] = "free"
  BY Before DEF TypeOK
<1>4. AtTable(t)'
  BY <1>3, Before DEF AtTable, OffSeat, Request, NothingToBook,
     CashOutIsSaved, CashedNotSaved, LeavingIsUp, SavedStack, SavedIsHeld,
     Held, Unbooked
<1>9. InRow(t)'
  BY <1>3, Before DEF AtTable, LeavingIsUp, InRow, SeatIsSaved,
     BetsAreSaved, ChipsAreSaved, NothingIsUndone, HeldInRow, LacksChips,
     CashedNotSaved, Held, Unbooked, NothingToBook
<1>5. Balanced(t)
  BY <1>3, Before DEF Balanced, Stake, Held
<1>6. Limited(t)
  BY <1>3, Before DEF Limited, Pending, Tolerable
<1> QED
  BY <1>1, <1>2, <1>4, <1>5, <1>6, <1>9 DEF TableStep

\* The buy-in is counted.
LEMMA BuyInStep ==
    ASSUME ClubInv, NEW t \in Tables, NEW counted \in BOOLEAN,
           BuyIn(t, counted)
    PROVE  TableStep(t)
<1> USE DEF BuyIn, Buyin, Uncounted, Goto, SaveMembers, ledger
<1>1. TypeOK'
  <2>1. slips' \subseteq Slips
    BY Before DEF TypeOK, Slips
  <2>2. mem' \in Int /\ drift' \in Int /\ known' \in BOOLEAN
    <3>1. CASE counted
      BY <3>1, Before
    <3>2. CASE ~counted
      BY <3>2, Before
    <3> QED
      BY <3>1, <3>2
  <2>3. /\ pc' \in [Tables -> Steps] /\ members' \in [Tables -> BOOLEAN]
        /\ req' \in [Tables -> [kind : {"none", "sit", "addon"},
                                 chips : Nat, row : Int]]
    BY Before DEF TypeOK, Steps, NoRequest
  <2> QED
    BY <2>1, <2>2, <2>3, Before DEF TypeOK
<1>2. OnlyAt(t)
  BY Before DEF OnlyAt, TypeOK
<1>3. pc[t] = "seating" /\ pc'[t] = "save" /\ members'[t]
  BY Before DEF TypeOK
<1>4. AtTable(t)'
  BY <1>3, Before DEF AtTable, OffSeat, Request, NothingToBook,
     CashOutIsSaved, CashedNotSaved, LeavingIsUp, SavedStack, SavedIsHeld,
     Held, Unbooked
<1>9. InRow(t)'
  BY <1>3, Before DEF AtTable, LeavingIsUp, InRow, SeatIsSaved,
     BetsAreSaved, ChipsAreSaved, NothingIsUndone, HeldInRow, LacksChips,
     CashedNotSaved, Held, Unbooked, NothingToBook
<1>5. Balanced(t)
  <2>1. CASE counted
    BY <1>3, <2>1, Before DEF Balanced, Stake, Held
  <2>2. CASE ~counted
    BY <1>3, <2>2, Before DEF Balanced, Stake, Held
  <2> QED
    BY <2>1, <2>2
<1>6. Limited(t)
  <2>1. CASE counted
    BY <1>3, <2>1, Before DEF Limited, Pending, Tolerable
  <2>2. CASE ~counted
    BY <2>2 DEF Limited, Tolerable
  <2> QED
    BY <2>1, <2>2
<1> QED
  BY <1>1, <1>2, <1>4, <1>5, <1>6, <1>9 DEF TableStep

\* The state of the table is written.
LEMMA SaveStep ==
    ASSUME ClubInv, NEW t \in Tables, Save(t)
    PROVE  TableStep(t)
<1> USE DEF Save, Goto, SaveMembers, ghosts, ledger
<1>1. TypeOK'
  <2> DEFINE m == IF members[t] THEN table[t]
                  ELSE WithoutMembers(t)
             g == IF members[t] \/ saved[t].chips = table[t].chips THEN {}
                  ELSE IF pc[t] = "booked" THEN {"chips"} ELSE gap[t] \ {"bet"}
  <2>1. m \in Member
    BY Before DEF WithoutMembers, Member, Hands
  <2>2. saved' = [saved EXCEPT ![t] = m]
    OBVIOUS
  <2>3. gap' = [gap EXCEPT ![t] = g] /\ g \in SUBSET {"chips", "bet"}
    BY Before
  <2> HIDE DEF m, g
  <2> QED
    BY <2>1, <2>2, <2>3, Before DEF TypeOK, Steps
<1>2. OnlyAt(t)
  BY Before DEF OnlyAt, TypeOK
<1>3. /\ pc[t] \in {"save", "move", "booked"} /\ pc'[t] = "free" /\ members'[t]
      /\ members[t] => saved'[t] = table[t]
      /\ ~members[t] => /\ saved'[t].chips = saved[t].chips
                        /\ saved'[t].seated = saved[t].seated
                        /\ saved'[t].bet = table[t].bet
                        /\ saved'[t].potted = table[t].potted
      /\ gap'[t] = {} \/ "chips" \in gap'[t]
      /\ gap'[t] = {} \/ ~members[t]
      /\ gap'[t] = {} => members[t] \/ saved[t].chips = table[t].chips
  <2>1. pc[t] = "move" /\ ~members[t] =>
          "chips" \in gap[t] \/ saved[t].chips = table[t].chips
    BY Before DEF InRow, ChipsAreSaved, LacksChips
  <2>2. pc[t] = "save" => members[t]
    BY Before DEF InRow, SeatIsSaved
  <2> QED
    BY <2>1, <2>2, Before DEF WithoutMembers, TypeOK, Member
<1>4. AtTable(t)'
  BY <1>3, Before DEF AtTable, OffSeat, Request, NothingToBook,
     CashOutIsSaved, CashedNotSaved, LeavingIsUp, SavedStack, SavedIsHeld,
     Held, Unbooked
<1>9. InRow(t)'
  <2>1. SeatIsSaved(t)'
    BY <1>3, Before DEF InRow, SeatIsSaved
  <2>2. BetsAreSaved(t)'
    BY <1>3, Before DEF InRow, BetsAreSaved
  <2>3. ChipsAreSaved(t)'
    BY <1>3, Before DEF InRow, ChipsAreSaved, LacksChips
  <2>4. NothingIsUndone(t)'
    BY <1>3, Before DEF AtTable, InRow, NothingIsUndone, HeldInRow,
       CashedNotSaved, Held, Unbooked, NothingToBook
  <2> QED
    BY <2>1, <2>2, <2>3, <2>4 DEF InRow
<1>5. Balanced(t)
  BY <1>3, Before DEF Balanced, Stake, Held
<1>6. Limited(t)
  BY <1>3, Before DEF Limited, Pending, Tolerable
<1> QED
  BY <1>1, <1>2, <1>4, <1>5, <1>6, <1>9 DEF TableStep

\* A hand is dealt.
LEMMA DealStep ==
    ASSUME ClubInv, NEW t \in Tables, Deal(t)
    PROVE  TableStep(t)
<1> USE DEF Deal, Goto, SaveMembers, ghosts, ledger
<1>1. TypeOK'
  <2> DEFINE m == [table[t] EXCEPT !.hand = "in", !.played = TRUE]
  <2>1. m \in Member
    BY Before DEF Member, Hands
  <2>2. table' = [table EXCEPT ![t] = m]
    OBVIOUS
  <2> HIDE DEF m
  <2> QED
    BY <2>1, <2>2, Before DEF TypeOK, Steps
<1>2. OnlyAt(t)
  BY Before DEF OnlyAt, TypeOK
<1>3. /\ pc[t] = "free" /\ pc'[t] = "save" /\ members'[t]
      /\ table'[t].chips = table[t].chips /\ table'[t].bet = table[t].bet
      /\ table'[t].potted = table[t].potted
      /\ table'[t].seated = table[t].seated
  BY Before DEF TypeOK, Member
<1>4. AtTable(t)'
  BY <1>3, Before DEF AtTable, OffSeat, Request, NothingToBook,
     CashOutIsSaved, CashedNotSaved, LeavingIsUp, SavedStack, SavedIsHeld,
     Held, Unbooked
<1>9. InRow(t)'
  BY <1>3, Before DEF AtTable, LeavingIsUp, InRow, SeatIsSaved,
     BetsAreSaved, ChipsAreSaved, NothingIsUndone, HeldInRow, LacksChips,
     CashedNotSaved, Held, Unbooked, NothingToBook
<1>5. Balanced(t)
  BY <1>3, Before DEF Balanced, Stake, Held
<1>6. Limited(t)
  BY <1>3, Before DEF Limited, Pending, Tolerable
<1> QED
  BY <1>1, <1>2, <1>4, <1>5, <1>6, <1>9 DEF TableStep

\* What a bet, a street and a win make of a member.
LEMMA NewStack ==
    ASSUME NEW m \in Member, NEW x \in Nat, NEW y \in Nat
    PROVE  /\ [m EXCEPT !.chips = x, !.bet = y] \in Member
           /\ [m EXCEPT !.bet = 0, !.potted = x] \in Member
           /\ [m EXCEPT !.chips = x, !.bet = 0, !.potted = 0, !.hand = "none"]
                \in Member
<1>1. [m EXCEPT !.chips = x, !.bet = y] \in Member
  BY DEF Member
<1>2. [m EXCEPT !.bet = 0, !.potted = x] \in Member
  BY DEF Member
<1>3. [m EXCEPT !.chips = x, !.bet = 0, !.potted = 0, !.hand = "none"] \in Member
  BY DEF Member, Hands
<1> QED
  BY <1>1, <1>2, <1>3

\* A bet.
LEMMA PutChipsStep ==
    ASSUME ClubInv, NEW t \in Tables, NEW b \in Bets, PutChips(t, b)
    PROVE  TableStep(t)
<1> USE DEF PutChips, Goto, SaveMembers, ghosts, ledger
<1>0. b \in Nat /\ b <= table[t].chips
  BY ClubAssumption
<1>1. TypeOK'
  <2> DEFINE m == [table[t] EXCEPT !.chips = @ - b, !.bet = @ + b]
  <2>1. m \in Member
    <3>1. table[t].chips - b \in Nat /\ table[t].bet + b \in Nat
      BY <1>0, Before
    <3> QED
      BY <3>1, NewStack, Before
  <2>2. table' = [table EXCEPT ![t] = m]
    OBVIOUS
  <2> HIDE DEF m
  <2> QED
    BY <2>1, <2>2, Before DEF TypeOK, Steps
<1>2. OnlyAt(t)
  BY Before DEF OnlyAt, TypeOK
<1>3. /\ pc[t] = "free" /\ pc'[t] = "move" /\ members'[t]
      /\ table'[t].chips = table[t].chips - b
      /\ table'[t].bet = table[t].bet + b
      /\ table'[t].potted = table[t].potted
      /\ table'[t].seated = table[t].seated
  BY <1>0, Before DEF TypeOK, Member
<1>4. AtTable(t)'
  <2>1. OffSeat(table[t])' /\ OffSeat(saved[t])'
    BY <1>0, <1>3, Before DEF AtTable, OffSeat
  <2>2. /\ Request(t)' /\ NothingToBook(t)' /\ LeavingIsUp(t)'
        /\ CashOutIsSaved(t)' /\ SavedStack(t)'
    BY <1>3, Before DEF AtTable, Request, NothingToBook, LeavingIsUp,
       CashOutIsSaved, CashedNotSaved, SavedStack
  <2>3. SavedIsHeld(t)'
    BY <1>0, <1>3, Before DEF AtTable, SavedIsHeld, CashedNotSaved, Held,
       Unbooked
  <2> QED
    BY <2>1, <2>2, <2>3 DEF AtTable
<1>9. InRow(t)'
  BY <1>0, <1>3, Before DEF AtTable, LeavingIsUp, InRow, SeatIsSaved,
     BetsAreSaved, ChipsAreSaved, NothingIsUndone, HeldInRow, LacksChips,
     CashedNotSaved, Held, Unbooked, NothingToBook
<1>5. Balanced(t)
  BY <1>0, <1>3, Before DEF Balanced, Stake, Held
<1>6. Limited(t)
  BY <1>3, Before DEF Limited, Pending, Tolerable
<1> QED
  BY <1>1, <1>2, <1>4, <1>5, <1>6, <1>9 DEF TableStep

\* What moveToPot's own save makes of the row of the table.
LEMMA PotsStep ==
    ASSUME ClubInv, NEW t \in Tables, PotsWritten(t)
    PROVE  /\ saved'[t].bet = 0 /\ saved'[t].chips = saved[t].chips
           /\ saved'[t].potted = saved[t].potted
           /\ saved'[t].seated = saved[t].seated
           /\ gap'[t] = {} => gap[t] = {} /\ saved[t].bet = 0
           /\ "chips" \in gap[t] => "chips" \in gap'[t]
           /\ saved' \in [Tables -> Member]
           /\ gap' \in [Tables -> SUBSET {"chips", "bet"}]
<1> USE DEF PotsWritten
<1>1. [saved[t] EXCEPT !.bet = 0] \in Member
  BY Before DEF Member
<1>2. saved' \in [Tables -> Member]
  BY <1>1, Before DEF TypeOK
<1>3. gap' \in [Tables -> SUBSET {"chips", "bet"}]
  BY Before DEF TypeOK
<1>4. /\ saved'[t].bet = 0 /\ saved'[t].chips = saved[t].chips
      /\ saved'[t].potted = saved[t].potted
      /\ saved'[t].seated = saved[t].seated
  BY Before DEF TypeOK, Member
<1>5. /\ gap'[t] = {} => gap[t] = {} /\ saved[t].bet = 0
      /\ "chips" \in gap[t] => "chips" \in gap'[t]
  <2>1. gap'[t] = IF saved[t].bet > 0 THEN gap[t] \cup {"bet"} ELSE gap[t]
    BY Before DEF TypeOK
  <2> QED
    BY <2>1, Before
<1> QED
  BY <1>2, <1>3, <1>4, <1>5

\* The bets are moved to the pots.
LEMMA NextStreetStep ==
    ASSUME ClubInv, NEW t \in Tables, NextStreet(t)
    PROVE  TableStep(t)
<1> USE DEF NextStreet, Goto, SaveMembers, ghosts, ledger
<1>0. /\ saved'[t].bet = 0 /\ saved'[t].chips = saved[t].chips
      /\ saved'[t].potted = saved[t].potted
      /\ saved'[t].seated = saved[t].seated
      /\ gap'[t] = {} => gap[t] = {} /\ saved[t].bet = 0
      /\ "chips" \in gap[t] => "chips" \in gap'[t]
      /\ saved' \in [Tables -> Member]
      /\ gap' \in [Tables -> SUBSET {"chips", "bet"}]
  BY PotsStep DEF NextStreet
<1>1. TypeOK'
  <2> DEFINE m == [table[t] EXCEPT !.bet = 0, !.potted = @ + table[t].bet]
  <2>1. m \in Member
    <3>1. table[t].potted + table[t].bet \in Nat
      BY Before
    <3> QED
      BY <3>1, NewStack, Before
  <2>2. table' = [table EXCEPT ![t] = m]
    OBVIOUS
  <2> HIDE DEF m
  <2> QED
    BY <1>0, <2>1, <2>2, Before DEF TypeOK, Steps
<1>2. OnlyAt(t)
  BY Before DEF OnlyAt, TypeOK, PotsWritten
<1>3. /\ pc[t] \in {"free", "move", "leaving"}
      /\ pc'[t] = IF pc[t] = "leaving" THEN "leaving" ELSE "move"
      /\ pc[t] # "free" => members'[t] = members[t]
      /\ table'[t].chips = table[t].chips /\ table'[t].bet = 0
      /\ table'[t].potted = table[t].potted + table[t].bet
      /\ table'[t].seated = table[t].seated
  BY Before DEF TypeOK, Member
<1>4. AtTable(t)'
  BY <1>0, <1>3, Before DEF AtTable, OffSeat, Request, NothingToBook,
     CashOutIsSaved, CashedNotSaved, LeavingIsUp, SavedStack, SavedIsHeld,
     Held, Unbooked
<1>9. InRow(t)'
  BY <1>0, <1>3, Before DEF AtTable, LeavingIsUp, InRow, SeatIsSaved,
     BetsAreSaved, ChipsAreSaved, NothingIsUndone, HeldInRow, LacksChips,
     CashedNotSaved, Held, Unbooked, NothingToBook
<1>5. Balanced(t)
  BY <1>3, Before DEF Balanced, Stake, Held
<1>6. Limited(t)
  BY <1>3, Before DEF Limited, Pending, Tolerable
<1> QED
  BY <1>1, <1>2, <1>4, <1>5, <1>6, <1>9 DEF TableStep

\* A fold.
LEMMA FoldStep ==
    ASSUME ClubInv, NEW t \in Tables, Fold(t)
    PROVE  TableStep(t)
<1> USE DEF Fold, Goto, SaveMembers, ghosts, ledger
<1>1. TypeOK'
  <2>1. [table[t] EXCEPT !.hand = "folded"] \in Member
    BY Before DEF Member, Hands
  <2>2. table' \in [Tables -> Member]
    BY <2>1, Before DEF TypeOK
  <2> QED
    BY <2>2, Before DEF TypeOK, Steps
<1>2. OnlyAt(t)
  BY Before DEF OnlyAt, TypeOK
<1>3. /\ pc[t] = "free" /\ pc'[t] = "move"
      /\ table'[t].chips = table[t].chips /\ table'[t].bet = table[t].bet
      /\ table'[t].potted = table[t].potted
      /\ table'[t].seated = table[t].seated
  BY Before DEF TypeOK, Member
<1>4. AtTable(t)'
  BY <1>3, Before DEF AtTable, OffSeat, Request, NothingToBook,
     CashOutIsSaved, CashedNotSaved, LeavingIsUp, SavedStack, SavedIsHeld,
     Held, Unbooked
<1>9. InRow(t)'
  BY <1>3, Before DEF AtTable, LeavingIsUp, InRow, SeatIsSaved,
     BetsAreSaved, ChipsAreSaved, NothingIsUndone, HeldInRow, LacksChips,
     CashedNotSaved, Held, Unbooked, NothingToBook
<1>5. Balanced(t)
  BY <1>3, Before DEF Balanced, Stake, Held
<1>6. Limited(t)
  BY <1>3, Before DEF Limited, Pending, Tolerable
<1> QED
  BY <1>1, <1>2, <1>4, <1>5, <1>6, <1>9 DEF TableStep

\* A hand is paid.
LEMMA DoWinStep ==
    ASSUME ClubInv, NEW t \in Tables, NEW gain \in Gains, DoWin(t, gain)
    PROVE  TableStep(t)
<1> USE DEF DoWin, Goto, SaveMembers, ghosts, ledger
<1>10. gain \in Nat
  BY ClubAssumption
<1>0. /\ saved'[t].bet = 0 /\ saved'[t].chips = saved[t].chips
      /\ saved'[t].potted = saved[t].potted
      /\ saved'[t].seated = saved[t].seated
      /\ gap'[t] = {} => gap[t] = {} /\ saved[t].bet = 0
      /\ "chips" \in gap[t] => "chips" \in gap'[t]
      /\ saved' \in [Tables -> Member]
      /\ gap' \in [Tables -> SUBSET {"chips", "bet"}]
  BY PotsStep DEF DoWin
<1>1. TypeOK'
  <2> DEFINE m == [table[t] EXCEPT !.chips = @ + gain, !.bet = 0,
                                   !.potted = 0, !.hand = "none"]
  <2>1. m \in Member
    <3>1. table[t].chips + gain \in Nat
      BY <1>10, Before
    <3> QED
      BY <3>1, NewStack, Before
  <2>2. table' = [table EXCEPT ![t] = m]
    OBVIOUS
  <2> HIDE DEF m
  <2> QED
    BY <1>0, <1>10, <2>1, <2>2, Before DEF TypeOK, Steps
<1>2. OnlyAt(t)
  BY Before DEF OnlyAt, TypeOK, PotsWritten
<1>3. /\ pc[t] \in {"free", "move", "leaving"} /\ pc'[t] = "paid"
      /\ pc[t] # "free" => members'[t] = members[t]
      /\ table'[t].chips = table[t].chips + gain /\ table'[t].bet = 0
      /\ table'[t].potted = 0 /\ table'[t].seated = table[t].seated
      /\ change'[t] = gain - (table[t].bet + table[t].potted)
      /\ gain > 0 => table[t].seated
      /\ change[t] = 0
  BY <1>10, Before DEF TypeOK, Member, AtTable, NothingToBook
<1>4. AtTable(t)'
  BY <1>0, <1>10, <1>3, Before DEF AtTable, OffSeat, Request, NothingToBook,
     CashOutIsSaved, CashedNotSaved, LeavingIsUp, SavedStack, SavedIsHeld,
     Held, Unbooked
<1>9. InRow(t)'
  <2>1. SeatIsSaved(t)'
    BY <1>0, <1>10, <1>3, Before DEF AtTable, LeavingIsUp, InRow, SeatIsSaved
  <2>2. BetsAreSaved(t)'
    BY <1>0, <1>10, <1>3, Before DEF InRow, BetsAreSaved
  <2>3. ChipsAreSaved(t)'
    BY <1>0, <1>10, <1>3, Before DEF InRow, ChipsAreSaved, LacksChips
  <2>4. NothingIsUndone(t)'
    <3>1. Unbooked(t) = 0 /\ Unbooked(t)' = change'[t]
      BY <1>3 DEF Unbooked
    <3>2. Held(t)' - change'[t] = Held(t)
      BY <1>10, <1>3, Before DEF Held
    <3>3. gap'[t] = {} => HeldInRow(t)' = HeldInRow(t)
      BY <1>0 DEF HeldInRow
    <3>4. CashedNotSaved(t)' = CashedNotSaved(t)
      BY <1>0, <1>3 DEF CashedNotSaved
    <3>5. Held(t) - Unbooked(t) = Held(t)' - Unbooked(t)'
      BY <3>1, <3>2, Before DEF Held
    <3> QED
      BY <1>0, <1>3, <3>3, <3>4, <3>5, Before DEF InRow, NothingIsUndone
  <2> QED
    BY <2>1, <2>2, <2>3, <2>4 DEF InRow
<1>5. Balanced(t)
  BY <1>10, <1>3, Before DEF Balanced, Stake, Held
<1>6. Limited(t)
  BY <1>10, <1>3, Before DEF Limited, Pending, Tolerable
<1> QED
  BY <1>1, <1>2, <1>4, <1>5, <1>6, <1>9 DEF TableStep

\* The result is counted in memory.
LEMMA CountResultStep ==
    ASSUME ClubInv, NEW t \in Tables, CountResult(t)
    PROVE  TableStep(t)
<1> USE DEF CountResult, Uncounted, Goto, ledger
<1>1. TypeOK'
  BY Before DEF TypeOK, Steps, Slips
<1>2. OnlyAt(t)
  BY Before DEF OnlyAt, TypeOK
<1>3. pc[t] = "paid" /\ pc'[t] = "counted"
  BY Before DEF TypeOK, Member
<1>4. AtTable(t)'
  BY <1>3, Before DEF AtTable, OffSeat, Request, NothingToBook,
     CashOutIsSaved, CashedNotSaved, LeavingIsUp, SavedStack, SavedIsHeld,
     Held, Unbooked
<1>9. InRow(t)'
  BY <1>3, Before DEF AtTable, LeavingIsUp, InRow, SeatIsSaved,
     BetsAreSaved, ChipsAreSaved, NothingIsUndone, HeldInRow, LacksChips,
     CashedNotSaved, Held, Unbooked, NothingToBook
<1>5. Balanced(t)
  <2>1. CASE known
    BY <1>3, <2>1, Before DEF Balanced, Stake, Held
  <2>2. CASE ~known
    BY <1>3, <2>2, Before DEF Balanced, Stake, Held
  <2> QED
    BY <2>1, <2>2
<1>6. Limited(t)
  <2>1. CASE known
    BY <1>3, <2>1, Before DEF Limited, Pending, Tolerable
  <2>2. CASE ~known
    BY <2>2 DEF Limited, Tolerable
  <2> QED
    BY <2>1, <2>2
<1> QED
  BY <1>1, <1>2, <1>4, <1>5, <1>6, <1>9 DEF TableStep

\* The result is booked in the database.
LEMMA BookResultStep ==
    ASSUME ClubInv, NEW t \in Tables, BookResult(t)
    PROVE  TableStep(t)
<1> USE DEF BookResult, Goto, ghosts, ledger
<1>1. TypeOK'
  BY Before DEF TypeOK, Steps
<1>2. OnlyAt(t)
  BY Before DEF OnlyAt, TypeOK
<1>3. pc[t] = "counted" /\ pc'[t] = "booked" /\ change'[t] = 0
  BY Before DEF TypeOK, Member
<1>4. AtTable(t)'
  BY <1>3, Before DEF AtTable, OffSeat, Request, NothingToBook,
     CashOutIsSaved, CashedNotSaved, LeavingIsUp, SavedStack, SavedIsHeld,
     Held, Unbooked
<1>9. InRow(t)'
  BY <1>3, Before DEF AtTable, LeavingIsUp, InRow, SeatIsSaved,
     BetsAreSaved, ChipsAreSaved, NothingIsUndone, HeldInRow, LacksChips,
     CashedNotSaved, Held, Unbooked, NothingToBook
<1>5. Balanced(t)
  BY <1>3, Before DEF Balanced, Stake, Held
<1>6. Limited(t)
  BY <1>3, Before DEF Limited, Pending, Tolerable
<1> QED
  BY <1>1, <1>2, <1>4, <1>5, <1>6, <1>9 DEF TableStep

\* A stack is cashed out.
LEMMA StandUpStep ==
    ASSUME ClubInv, NEW t \in Tables, NEW counted \in BOOLEAN, NEW kept \in BOOLEAN,
           StandUp(t, counted, kept)
    PROVE  TableStep(t)
<1> USE DEF StandUp, Cashout, Goto, SaveMembers, ledger
<1>1. TypeOK'
  <2> DEFINE m == [table[t] EXCEPT !.seated = FALSE, !.chips = 0,
                                   !.played = FALSE]
             left == IF kept /\ table[t].played THEN table[t].chips
                     ELSE lastCashout[t]
  <2>1. m \in Member
    BY Before DEF Member, Hands
  <2>2. table' = [table EXCEPT ![t] = m]
    OBVIOUS
  <2>3. left \in Nat \cup {None}
    BY Before DEF TypeOK
  <2>4. lastCashout' = [lastCashout EXCEPT ![t] = left]
    OBVIOUS
  <2> HIDE DEF m, left
  <2> QED
    BY <2>1, <2>2, <2>3, <2>4, Before DEF TypeOK, Steps
<1>2. OnlyAt(t)
  BY Before DEF OnlyAt, TypeOK
<1>3. /\ pc[t] = "free" /\ pc'[t] = "leaving" /\ members'[t]
      /\ table'[t].chips = 0 /\ table'[t].bet = table[t].bet
      /\ table'[t].potted = table[t].potted
      /\ ~table'[t].seated
  BY Before DEF TypeOK, Member
<1>4. AtTable(t)'
  BY <1>3, Before DEF AtTable, InRow, SeatIsSaved, OffSeat, Request,
     NothingToBook, CashOutIsSaved, CashedNotSaved, LeavingIsUp, SavedStack, SavedIsHeld,
     Held, Unbooked
<1>9. InRow(t)'
  BY <1>3, Before DEF AtTable, LeavingIsUp, InRow, SeatIsSaved,
     BetsAreSaved, ChipsAreSaved, NothingIsUndone, HeldInRow, LacksChips,
     CashedNotSaved, Held, Unbooked, NothingToBook
<1>5. Balanced(t)
  <2>1. CASE counted /\ known
    BY <1>3, <2>1, Before DEF Balanced, Stake, Held
  <2>2. CASE ~ (counted /\ known)
    BY <1>3, <2>2, Before DEF Balanced, Stake, Held
  <2> QED
    BY <2>1, <2>2
<1>6. Limited(t)
  <2>1. CASE counted /\ known
    BY <1>3, <2>1, Before DEF Limited, Pending, Tolerable
  <2>2. CASE ~ (counted /\ known)
    BY <1>3, <2>2, Before DEF Limited, Pending, Tolerable
  <2> QED
    BY <2>1, <2>2
<1> QED
  BY <1>1, <1>2, <1>4, <1>5, <1>6, <1>9 DEF TableStep

\* A seat is left in a hand.
LEMMA LeaveSeatStep ==
    ASSUME ClubInv, NEW t \in Tables, LeaveSeat(t)
    PROVE  TableStep(t)
<1> USE DEF LeaveSeat, Goto, ghosts, ledger
<1>1. TypeOK'
  <2> DEFINE m == [table[t] EXCEPT !.bet = 0,
                                   !.hand = IF table[t].potted > 0
                                            THEN "left" ELSE "none"]
  <2>1. m \in Member
    BY Before DEF Member, Hands
  <2>2. table' = [table EXCEPT ![t] = m]
    OBVIOUS
  <2> HIDE DEF m
  <2> QED
    BY <2>1, <2>2, Before DEF TypeOK, Steps
<1>2. OnlyAt(t)
  BY Before DEF OnlyAt, TypeOK
<1>3. /\ pc[t] = "leaving" /\ pc'[t] = "save"
      /\ table'[t].chips = table[t].chips /\ table'[t].bet = 0
      /\ table'[t].potted = table[t].potted
      /\ table'[t].seated = table[t].seated
  BY Before DEF TypeOK, Member
<1>4. AtTable(t)'
  BY <1>3, Before DEF AtTable, OffSeat, Request, NothingToBook,
     CashOutIsSaved, CashedNotSaved, LeavingIsUp, SavedStack, SavedIsHeld,
     Held, Unbooked
<1>9. InRow(t)'
  BY <1>3, Before DEF AtTable, LeavingIsUp, InRow, SeatIsSaved,
     BetsAreSaved, ChipsAreSaved, NothingIsUndone, HeldInRow, LacksChips,
     CashedNotSaved, Held, Unbooked, NothingToBook
<1>5. Balanced(t)
  BY <1>3, Before DEF Balanced, Stake, Held
<1>6. Limited(t)
  BY <1>3, Before DEF Limited, Pending, Tolerable
<1> QED
  BY <1>1, <1>2, <1>4, <1>5, <1>6, <1>9 DEF TableStep

\* A buy-in that has not raced another is checked on numbers that are final.
LEMMA NotRaced ==
    ASSUME ClubInv, NEW t \in Tables, pc[t] = "read", Raced(t) = {},
           WithinLimit(t)
    PROVE  /\ \A o \in Tables : Pending(o) = 0
           /\ req[t].chips - (mem + db) <= Limit
<1>1. req[t].row = db
  BY DEF Raced
<1>2. \A o \in Tables \ {t} : pc[o] \notin {"seating", "counted"}
  BY DEF Raced
<1>3. \A o \in Tables : pc[o] \notin {"seating", "counted"}
  BY <1>2
<1>4. \A o \in Tables : Pending(o) = 0
  BY <1>3 DEF Pending
<1>5. -(mem + req[t].row) + req[t].chips <= Limit
  BY DEF WithinLimit, PotentialLosses
<1>6. req[t].chips - (mem + db) <= Limit
  BY <1>1, <1>5, Before
<1> QED
  BY <1>4, <1>6

\* He sits down.
LEMMA SitDownStep ==
    ASSUME ClubInv, NEW t \in Tables, SitDown(t)
    PROVE  TableStep(t)
<1> USE DEF SitDown, Goto, Lacks
<1>0. /\ slips' = slips \cup Raced(t)
                    \cup (IF WithinLimit(t) THEN {} ELSE {"returned"})
      /\ req[t].chips \in Nat
  BY Before
<1>1. TypeOK'
  <2> DEFINE m == [table[t] EXCEPT !.seated = TRUE, !.chips = req[t].chips,
                                   !.played = FALSE]
  <2>1. m \in Member
    BY <1>0, Before DEF Member, Hands
  <2>2. table' = [table EXCEPT ![t] = m]
    OBVIOUS
  <2>3. slips' \subseteq Slips
    BY <1>0, Before DEF TypeOK, Raced, Slips
  <2> HIDE DEF m
  <2> QED
    BY <2>1, <2>2, <2>3, Before DEF TypeOK, Steps
<1>2. OnlyAt(t)
  BY Before DEF OnlyAt, TypeOK
<1>3. /\ pc[t] = "read" /\ pc'[t] = "seating"
      /\ table'[t].chips = req[t].chips /\ table'[t].bet = table[t].bet
      /\ table'[t].potted = table[t].potted /\ table'[t].seated
      /\ "chips" \in gap'[t]
  BY Before DEF TypeOK, Member
<1>4. table[t].chips = 0 /\ ~table[t].seated
  BY <1>3, Before DEF AtTable, Request, OffSeat
<1>5. AtTable(t)'
  BY <1>0, <1>3, <1>4, Before DEF AtTable, OffSeat, Request, NothingToBook,
     CashOutIsSaved, CashedNotSaved, LeavingIsUp, SavedStack, SavedIsHeld,
     Held, Unbooked
<1>9. InRow(t)'
  <2>1. SeatIsSaved(t)'
    BY <1>0, <1>3, <1>4, Before DEF InRow, SeatIsSaved
  <2>2. BetsAreSaved(t)'
    BY <1>0, <1>3, <1>4, Before DEF InRow, BetsAreSaved
  <2>3. ChipsAreSaved(t)'
    BY <1>0, <1>3, <1>4, Before DEF InRow, ChipsAreSaved, LacksChips
  <2>4. NothingIsUndone(t)'
    BY <1>0, <1>3, <1>4, Before DEF AtTable, InRow, NothingIsUndone, HeldInRow,
       CashedNotSaved, Held, Unbooked, NothingToBook
  <2> QED
    BY <2>1, <2>2, <2>3, <2>4 DEF InRow
<1>6. Balanced(t)
  BY <1>0, <1>3, <1>4, Before DEF Balanced, Stake, Held
<1>7. Limited(t)
  <2> SUFFICES ASSUME Tolerable' PROVE Limited(t)
    BY DEF Limited
  <2>1. Tolerable /\ Raced(t) = {} /\ WithinLimit(t)
    BY <1>0 DEF Tolerable, Raced
  <2>2. /\ \A o \in Tables : Pending(o) = 0
        /\ req[t].chips - (mem + db) <= Limit
    BY <1>3, <2>1, NotRaced
  <2>3. Pending(t)' = req[t].chips
    BY <1>0, <1>3 DEF Pending
  <2> QED
    BY <2>1, <2>2, <2>3, Before DEF Limited
<1> QED
  BY <1>1, <1>2, <1>5, <1>6, <1>7, <1>9 DEF TableStep

\* He adds chips to his stack.
LEMMA AddOnStep ==
    ASSUME ClubInv, NEW t \in Tables, NEW counted \in BOOLEAN,
           AddOn(t, counted)
    PROVE  TableStep(t)
<1> USE DEF AddOn, Buyin, Uncounted, Goto, Lacks
<1>1. TypeOK'
  <2>1. table[t].chips + req[t].chips \in Nat
    BY Before
  <2>2. [table[t] EXCEPT !.chips = table[t].chips + req[t].chips] \in Member
    BY <2>1, Before DEF Member
  <2>3. slips' \subseteq Slips
    BY Before DEF TypeOK, Raced, Slips
  <2>4. table' \in [Tables -> Member]
    BY <2>2, Before DEF TypeOK
  <2>5. mem' \in Int /\ drift' \in Int /\ known' \in BOOLEAN
    <3>1. CASE counted
      BY <3>1, Before
    <3>2. CASE ~counted
      BY <3>2, Before
    <3> QED
      BY <3>1, <3>2
  <2>6. /\ pc' \in [Tables -> Steps]
        /\ req' \in [Tables -> [kind : {"none", "sit", "addon"},
                                 chips : Nat, row : Int]]
    BY Before DEF TypeOK, Steps, NoRequest
  <2>7. gap' \in [Tables -> SUBSET {"chips", "bet"}] /\ brought' \in Int
    BY Before DEF TypeOK
  <2> QED
    BY <2>3, <2>4, <2>5, <2>6, <2>7, Before DEF TypeOK
<1>2. OnlyAt(t)
  BY Before DEF OnlyAt, TypeOK
<1>3. /\ pc[t] = "read" /\ pc'[t] = "free"
      /\ table'[t].chips = table[t].chips + req[t].chips
      /\ table'[t].bet = table[t].bet /\ table'[t].potted = table[t].potted
      /\ table'[t].seated = table[t].seated
      /\ "chips" \in gap'[t]
  BY Before DEF TypeOK, Member
<1>4. table[t].seated
  BY <1>3, Before DEF AtTable, Request
<1>5. AtTable(t)'
  BY <1>3, <1>4, Before DEF AtTable, OffSeat, Request, NothingToBook,
     CashOutIsSaved, CashedNotSaved, LeavingIsUp, SavedStack, SavedIsHeld,
     Held, Unbooked
<1>9. InRow(t)'
  <2>1. SeatIsSaved(t)'
    BY <1>3, <1>4, Before DEF InRow, SeatIsSaved
  <2>2. BetsAreSaved(t)'
    BY <1>3, <1>4, Before DEF InRow, BetsAreSaved
  <2>3. ChipsAreSaved(t)'
    BY <1>3, <1>4, Before DEF InRow, ChipsAreSaved, LacksChips
  <2>4. NothingIsUndone(t)'
    BY <1>3, <1>4, Before DEF AtTable, InRow, NothingIsUndone, HeldInRow,
       CashedNotSaved, Held, Unbooked, NothingToBook
  <2> QED
    BY <2>1, <2>2, <2>3, <2>4 DEF InRow
<1>6. Balanced(t)
  <2>1. CASE counted
    BY <1>3, <2>1, Before DEF Balanced, Stake, Held
  <2>2. CASE ~counted
    BY <1>3, <2>2, Before DEF Balanced, Stake, Held
  <2> QED
    BY <2>1, <2>2
<1>7. Limited(t)
  <2> SUFFICES ASSUME Tolerable' PROVE Limited(t)
    BY DEF Limited
  <2>1. Tolerable /\ Raced(t) = {} /\ WithinLimit(t) /\ counted
    BY DEF Tolerable, Raced
  <2>2. /\ \A o \in Tables : Pending(o) = 0
        /\ req[t].chips - (mem + db) <= Limit
    BY <1>3, <2>1, NotRaced
  <2>3. Pending(t)' = 0
    BY <1>3 DEF Pending
  <2> QED
    BY <2>1, <2>2, <2>3, Before DEF Limited
<1> QED
  BY <1>1, <1>2, <1>5, <1>6, <1>7, <1>9 DEF TableStep

-----------------------------------------------------------------------------
\* The owner's reset starts the books anew.
LEMMA ResetKeeps ==
    ASSUME ClubInv, ResetPlayerLimit
    PROVE  ClubInv'
<1> USE DEF ResetPlayerLimit, live
<1>1. /\ change \in [Tables -> Int] /\ SumOver(change) \in Int
      /\ HeldOf \in [Tables -> Int] /\ SumOver(HeldOf) \in Int
      /\ db \in Int /\ brought \in Int /\ forfeit \in Int
  BY StakeType, OverType DEF ClubInv, TypeOK
<1>2. TypeOK'
  BY <1>1 DEF ClubInv, TypeOK, Slips
<1>3. \A t \in Tables : AtTable(t)' /\ InRow(t)'
  <2>1. ASSUME NEW t \in Tables
        PROVE  AtTable(t)'
    BY DEF ClubInv, AtTable, OffSeat, Request, NothingToBook, CashOutIsSaved,
       CashedNotSaved, LeavingIsUp, SavedStack, SavedIsHeld, Held, Unbooked
  <2>2. ASSUME NEW t \in Tables
        PROVE  InRow(t)'
    BY DEF ClubInv, InRow, SeatIsSaved, BetsAreSaved, ChipsAreSaved,
       NothingIsUndone, HeldInRow, LacksChips, CashedNotSaved, Held, Unbooked
  <2> QED
    BY <2>1, <2>2
<1>4. StakesAreCounted'
  BY DEF ClubInv, StakesAreCounted, Stake, Held
<1>5. HandsAreBooked'
  <2> SUFFICES ASSUME slips' \cap Undone = {}
               PROVE  db' + SumOver(change') = AtTables' - brought' + forfeit'
    BY DEF HandsAreBooked
  <2>1. AtTables' = AtTables /\ AtTables = SumOver(HeldOf)
    BY DEF AtTables, HeldOf, Held
  <2>2. db + SumOver(change) = AtTables - brought + forfeit
    BY DEF ClubInv, HandsAreBooked
  <2> QED
    BY <1>1, <2>1, <2>2
<1>6. ~Tolerable'
  BY DEF Tolerable
<1> QED
  BY <1>2, <1>3, <1>4, <1>5, <1>6 DEF ClubInv, BooksWithinLimit, NothingForgotten

\* A restart counts what the rows of the tables have.
LEMMA RestartKeeps ==
    ASSUME ClubInv, Restart
    PROVE  ClubInv'
<1> DEFINE chipsOf == [t \in Tables |-> saved[t].chips]
           betsOf == [t \in Tables |-> BetsSaved(t)]
<1>1. \A t \in Tables : /\ saved[t] \in Member /\ saved[t].chips \in Nat
                        /\ saved[t].bet \in Nat /\ saved[t].potted \in Nat
                        /\ AtTable(t)
  <2>1. \A t \in Tables : saved[t] \in Member /\ AtTable(t)
    BY DEF ClubInv, TypeOK
  <2> QED
    BY <2>1 DEF Member
<1>2. /\ chipsOf \in [Tables -> Int] /\ betsOf \in [Tables -> Int]
      /\ SumOver(chipsOf) \in Int /\ SumOver(betsOf) \in Int
  BY <1>1, OverType DEF BetsSaved
<1>3. change \in [Tables -> Int] /\ SumOver(change) \in Int
  BY OverType DEF ClubInv, TypeOK
<1>4. /\ table' = saved /\ saved' = saved
      /\ pc' = [t \in Tables |-> "free"]
      /\ req' = [t \in Tables |-> NoRequest]
      /\ members' = [t \in Tables |-> TRUE]
      /\ change' = [t \in Tables |-> 0]
      /\ lastCashout' = [t \in Tables |-> None]
      /\ mem' = -SumOver(chipsOf) /\ db' = db
      /\ drift' = SumOver(betsOf)
      /\ gap' = [t \in Tables |-> {}] /\ known' \in BOOLEAN
      /\ brought' = brought /\ forfeit' = forfeit
  BY DEF Restart
<1>5. TypeOK'
  <2>1. slips' \subseteq Slips
    BY DEF Restart, Slips, ClubInv, TypeOK
  <2> QED
    BY <1>2, <1>3, <1>4, <2>1 DEF ClubInv, TypeOK, Steps, NoRequest
<1>6. \A t \in Tables : AtTable(t)' /\ InRow(t)'
  <2>1. ASSUME NEW t \in Tables
        PROVE  AtTable(t)'
    BY <1>1, <1>4 DEF AtTable, OffSeat, Request, NothingToBook, CashOutIsSaved,
       CashedNotSaved, LeavingIsUp, SavedStack, SavedIsHeld, Held, Unbooked
  <2>2. ASSUME NEW t \in Tables
        PROVE  InRow(t)'
    BY <1>1, <1>4 DEF InRow, SeatIsSaved, BetsAreSaved, ChipsAreSaved,
       NothingIsUndone, HeldInRow, LacksChips, CashedNotSaved, Held, Unbooked
  <2> QED
    BY <2>1, <2>2
<1>7. StakesAreCounted'
  <2>1. \A t \in Tables : StakeOf'[t] = chipsOf[t] + betsOf[t]
    BY <1>1, <1>4 DEF StakeOf, Stake, Held, BetsSaved
  <2>2. StakeOf' \in [Tables -> Int]
    BY <1>1, <1>4 DEF StakeOf, Stake, Held
  <2>3. SumOver(StakeOf') = SumOver(chipsOf) + SumOver(betsOf)
    BY <1>2, <2>1, <2>2, OverAdd
  <2>4. mem' + SumOver(StakeOf') = drift'
    BY <1>2, <1>4, <2>3
  <2> QED
    BY <2>4 DEF StakesAreCounted, StakeOf
<1>8. HandsAreBooked'
  <2> SUFFICES ASSUME slips' \cap Undone = {}
               PROVE  db' + SumOver(change') = AtTables' - brought' + forfeit'
    BY DEF HandsAreBooked
  <2> DEFINE rowOf == [t \in Tables |-> HeldInRow(t)]
  <2>1. /\ slips \cap Undone = {}
        /\ \A t \in Tables : /\ ~BookedNotSaved(t) /\ ~CashedNotSaved(t)
                             /\ ~LacksChips(t) /\ ~LacksBet(t)
    BY DEF Restart, Undone
  <2>2. ASSUME NEW t \in Tables
        PROVE  /\ Held(t) = HeldInRow(t) + change[t]
               /\ HeldInRow(t) \in Int
    <3>1. gap[t] = {}
      BY <2>1, Before DEF LacksChips, LacksBet
    <3>2. HeldInRow(t) = Held(t) - Unbooked(t)
      BY <2>1, <3>1, Before DEF InRow, NothingIsUndone, BookedNotSaved
    <3>3. Unbooked(t) = change[t]
      BY Before DEF AtTable, NothingToBook, Unbooked
    <3> QED
      BY <3>2, <3>3, Before DEF Held, HeldInRow
  <2>3. /\ HeldOf \in [Tables -> Int] /\ rowOf \in [Tables -> Int]
        /\ \A t \in Tables : HeldOf[t] = rowOf[t] + change[t]
    BY <2>2, StakeType DEF ClubInv, HeldOf
  <2>4. AtTables' = SumOver(rowOf)
    BY <1>4 DEF AtTables, Held, HeldInRow
  <2> HIDE DEF rowOf
  <2>5. SumOver(HeldOf) = SumOver(rowOf) + SumOver(change)
    BY <1>3, <2>3, OverAdd
  <2>6. SumOver(change') = 0
    BY <1>4, OverZero
  <2>7. db + SumOver(change) = SumOver(HeldOf) - brought + forfeit
    BY <2>1 DEF ClubInv, HandsAreBooked, AtTables, HeldOf
  <2>8. /\ SumOver(rowOf) \in Int
        /\ db \in Int /\ brought \in Int /\ forfeit \in Int
    BY <2>3, OverType DEF ClubInv, TypeOK
  <2> QED
    BY <1>3, <1>4, <2>4, <2>5, <2>6, <2>7, <2>8
<1>9. Tolerable' =>
        /\ Tolerable
        /\ \A t \in Tables : ~BookedNotSaved(t) /\ ~CashedNotSaved(t)
        /\ \A t \in Tables : ~ (BetsSaved(t) > 0)
  BY DEF Restart, Tolerable
<1>10. NothingForgotten'
  <2> SUFFICES ASSUME Tolerable' PROVE drift' <= 0
    BY DEF NothingForgotten
  <2>1. \A t \in Tables : betsOf[t] = 0
    BY <1>1, <1>9 DEF BetsSaved
  <2>2. SumOver(betsOf) = 0
    BY <2>1, OverZero
  <2> QED
    BY <1>4, <2>2
<1>11. BooksWithinLimit'
  <2> SUFFICES ASSUME Tolerable'
               PROVE  SumOver(PendingOf') - (mem' + db') <= Limit
    BY DEF BooksWithinLimit
  <2> DEFINE heldOf == [t \in Tables |-> Stake(t) + Pending(t)]
  <2>1. /\ StakeOf \in [Tables -> Int] /\ PendingOf \in [Tables -> Int]
        /\ SumOver(StakeOf) \in Int /\ SumOver(PendingOf) \in Int
    BY StakeType, OverType DEF ClubInv
  <2>2. /\ heldOf \in [Tables -> Int]
        /\ \A t \in Tables : heldOf[t] = StakeOf[t] + PendingOf[t]
    <3>1. \A t \in Tables : Stake(t) \in Int /\ Pending(t) \in Int
      BY <2>1 DEF StakeOf, PendingOf
    <3> QED
      BY <3>1 DEF StakeOf, PendingOf
  <2>3. \A t \in Tables : chipsOf[t] <= heldOf[t]
    <3>1. ASSUME NEW t \in Tables
          PROVE  saved[t].chips <= Stake(t) + Pending(t)
      <4>1. saved[t].chips <= Held(t) - Unbooked(t)
        BY <1>1, <1>9 DEF AtTable, SavedIsHeld, BookedNotSaved
      <4>2. Held(t) - Unbooked(t) = Stake(t) + Pending(t)
        BY Before DEF Held, Unbooked, Stake, Pending
      <4> QED
        BY <4>1, <4>2
    <3> QED
      BY <3>1
  <2>4. SumOver(chipsOf) <= SumOver(heldOf)
    BY <1>2, <2>2, <2>3, OverAtMost
  <2>5. SumOver(heldOf) = SumOver(StakeOf) + SumOver(PendingOf)
    BY <2>1, <2>2, OverAdd
  <2>6. mem + SumOver(StakeOf) - drift = 0 /\ drift <= 0
    BY <1>9, <2>1 DEF ClubInv, StakesAreCounted, StakeOf, NothingForgotten, TypeOK
  <2>7. SumOver(PendingOf) - (mem + db) <= Limit
    BY <1>9 DEF ClubInv, BooksWithinLimit
  <2>8. mem \in Int /\ db \in Int /\ drift \in Int /\ Limit \in Int
    BY ClubAssumption DEF ClubInv, TypeOK
  <2>9. SumOver(PendingOf') = 0
    BY <1>4, OverZero DEF PendingOf, Pending
  <2> HIDE DEF chipsOf, heldOf
  <2>10. SumOver(chipsOf) - db <= Limit
    BY <1>2, <2>1, <2>4, <2>5, <2>6, <2>7, <2>8
  <2> QED
    BY <1>2, <1>4, <2>8, <2>9, <2>10
<1> QED
  BY <1>5, <1>6, <1>7, <1>8, <1>10, <1>11 DEF ClubInv

-----------------------------------------------------------------------------
\* An empty club has the invariant.
LEMMA ClubInit == Init => ClubInv
<1> SUFFICES ASSUME Init PROVE ClubInv
  OBVIOUS
<1> USE DEF Init
<1>1. TypeOK
  <2>1. Away \in Member
    BY DEF Away, Member, Hands
  <2>2. known \in BOOLEAN /\ gap \in [Tables -> SUBSET {"chips", "bet"}]
    OBVIOUS
  <2>3. NoRequest \in [kind : {"none", "sit", "addon"}, chips : Nat, row : Int]
    BY DEF NoRequest
  <2>4. table \in [Tables -> Member] /\ saved \in [Tables -> Member]
    BY <2>1
  <2> QED
    BY <2>2, <2>3, <2>4 DEF TypeOK, Steps
<1>2. \A t \in Tables : AtTable(t) /\ InRow(t)
  BY DEF AtTable, OffSeat, Request, NothingToBook, CashOutIsSaved,
     CashedNotSaved, LeavingIsUp, SavedStack, SavedIsHeld, Held, Unbooked, Away,
     InRow, SeatIsSaved, BetsAreSaved, ChipsAreSaved, NothingIsUndone,
     HeldInRow, LacksChips
<1>3. /\ SumOver(StakeOf) = 0 /\ SumOver(PendingOf) = 0
      /\ SumOver(HeldOf) = 0 /\ SumOver(change) = 0
  BY OverZero DEF StakeOf, PendingOf, HeldOf, Stake, Pending, Held, Away
<1>4. StakesAreCounted
  BY <1>3 DEF StakesAreCounted, StakeOf
<1>5. HandsAreBooked
  BY <1>3 DEF HandsAreBooked, AtTables, HeldOf
<1> QED
  BY <1>1, <1>2, <1>3, <1>4, <1>5, ClubAssumption
  DEF ClubInv, BooksWithinLimit, NothingForgotten

\* A step of nobody's keeps it.
LEMMA NothingMoves == ClubInv /\ UNCHANGED vars => ClubInv'
<1> SUFFICES ASSUME ClubInv, UNCHANGED vars PROVE ClubInv'
  OBVIOUS
<1> USE DEF vars, live, ghosts, ledger
<1>1. TypeOK'
  BY DEF ClubInv, TypeOK
<1>2. \A t \in Tables : AtTable(t)'
  BY DEF ClubInv, AtTable, OffSeat, Request, NothingToBook, CashOutIsSaved,
     CashedNotSaved, LeavingIsUp, SavedStack, SavedIsHeld, Held, Unbooked
<1>3. \A t \in Tables : InRow(t)'
  BY DEF ClubInv, InRow, SeatIsSaved, BetsAreSaved, ChipsAreSaved,
     NothingIsUndone, HeldInRow, LacksChips, CashedNotSaved, Held, Unbooked
<1>4. StakesAreCounted' /\ HandsAreBooked'
  BY DEF ClubInv, StakesAreCounted, HandsAreBooked, AtTables, Stake, Held
<1>5. BooksWithinLimit' /\ NothingForgotten'
  BY DEF ClubInv, BooksWithinLimit, NothingForgotten, Tolerable, PendingOf,
     Pending
<1> QED
  BY <1>1, <1>2, <1>3, <1>4, <1>5 DEF ClubInv

\* Every step keeps it.
LEMMA ClubNext == ClubInv /\ [Next]_vars => ClubInv'
<1> SUFFICES ASSUME ClubInv, [Next]_vars PROVE ClubInv'
  OBVIOUS
<1>1. CASE Buy
  BY <1>1, AskToBuyStep, FindRowStep, RefuseStep, SitDownStep, BuyInStep,
     AddOnStep, TableStepKeeps DEF Buy
<1>2. CASE Play
  BY <1>2, DealStep, NextStreetStep, FoldStep, PutChipsStep, TableStepKeeps
  DEF Play
<1>3. CASE EndHand
  BY <1>3, DoWinStep, CountResultStep, BookResultStep, TableStepKeeps
  DEF EndHand
<1>4. CASE Leave
  BY <1>4, StandUpStep, LeaveSeatStep, TableStepKeeps DEF Leave
<1>5. CASE Write
  BY <1>5, SaveStep, TableStepKeeps DEF Write
<1>6. CASE ResetPlayerLimit
  BY <1>6, ResetKeeps
<1>7. CASE Restart
  BY <1>7, RestartKeeps
<1>8. CASE UNCHANGED vars
  BY <1>8, NothingMoves
<1> QED
  BY <1>1, <1>2, <1>3, <1>4, <1>5, <1>6, <1>7, <1>8 DEF Next

\* The invariant of the theorems below.
LEMMA ClubAlways == Spec => []ClubInv
BY ClubInit, ClubNext, PTL DEF Spec

\* The balance of the member and his buy-ins are integers, his stacks are
\* natural numbers.
THEOREM MoneyIsTyped == Spec => []TypeOK
<1>1. ClubInv => TypeOK
  BY DEF ClubInv
<1> QED
  BY <1>1, ClubAlways, PTL

\* What Club.balance has against a member is what he has at the tables, but
\* for what `drift' says: through buy-ins, add-ons, hands, leaves, restarts
\* and resets at any number of tables at once.
THEOREM StakesCounted == Spec => []StakesAreCounted
<1>1. ClubInv => StakesAreCounted
  BY DEF ClubInv
<1> QED
  BY <1>1, ClubAlways, PTL

\* The hands at all tables are booked to the row of the member once each, but
\* for what a restart undoes: what a call has booked is in the row of its table
\* when the next call starts, or lacks there (NothingIsUndone).
THEOREM HandsBooked == Spec => []HandsAreBooked
<1>1. ClubInv => HandsAreBooked
  BY DEF ClubInv
<1> QED
  BY <1>1, ClubAlways, PTL

\* What a member has on all tables and has lost is within his limit, if no
\* check has raced or been left out, no chips have been counted to nobody, and
\* nothing that was counted or booked has been undone: the books say no less
\* than what he risks, and every buy-in is checked on the books.
THEOREM LimitIsKept == Spec => []LimitHolds
<1>1. ASSUME ClubInv
      PROVE  LimitHolds
  <2> SUFFICES ASSUME Tolerable
               PROVE  SumOver(HeldOf) - (db + SumOver(change)) <= Limit
    BY DEF LimitHolds, AtRisk, AtTables, HeldOf, Tolerable
  <2> DEFINE booked == [t \in Tables |-> Stake(t) + Pending(t)]
  <2>1. ASSUME NEW t \in Tables
        PROVE  /\ Stake(t) \in Int /\ Pending(t) \in Int
               /\ Held(t) \in Int /\ change[t] \in Int
               /\ Stake(t) + Pending(t) = Held(t) - change[t]
    BY <1>1, Before DEF AtTable, NothingToBook, Held, Stake, Pending
  <2>2. /\ StakeOf \in [Tables -> Int] /\ PendingOf \in [Tables -> Int]
        /\ HeldOf \in [Tables -> Int] /\ booked \in [Tables -> Int]
        /\ change \in [Tables -> Int]
    BY <1>1, <2>1 DEF StakeOf, PendingOf, HeldOf, ClubInv, TypeOK
  <2>3. /\ SumOver(StakeOf) \in Int /\ SumOver(PendingOf) \in Int
        /\ SumOver(booked) \in Int /\ SumOver(change) \in Int
    BY <2>2, OverType
  <2>4. SumOver(booked) = SumOver(StakeOf) + SumOver(PendingOf)
    BY <2>2, OverAdd DEF StakeOf, PendingOf
  <2>5. SumOver(HeldOf) = SumOver(booked) + SumOver(change)
    <3>1. \A t \in Tables : HeldOf[t] = booked[t] + change[t]
      BY <2>1 DEF HeldOf
    <3> HIDE DEF booked
    <3> QED
      BY <2>2, <3>1, OverAdd
  <2>6. /\ mem + SumOver(StakeOf) = drift /\ drift <= 0
        /\ SumOver(PendingOf) - (mem + db) <= Limit
    BY <1>1 DEF ClubInv, StakesAreCounted, StakeOf, BooksWithinLimit,
       NothingForgotten
  <2>7. mem \in Int /\ db \in Int /\ drift \in Int /\ Limit \in Int
    BY <1>1, ClubAssumption DEF ClubInv, TypeOK
  <2> HIDE DEF booked
  <2> QED
    BY <2>3, <2>4, <2>5, <2>6, <2>7
<1> QED
  BY <1>1, ClubAlways, PTL
=============================================================================
