------------------------------ MODULE ClubMoney ------------------------------
(***************************************************************************)
(* What one member of a club has at stake at its tables, and the two       *)
(* places the server keeps it in: Club.balance in memory, which buyin,     *)
(* cashout and updateLimitPostWin change at once, and the row ClubBalance  *)
(* of the database, which updateLimitPostWin changes some time after.      *)
(* Each table works under its own lock, so its calls follow each other;    *)
(* the calls of two tables interleave at every query of the database.      *)
(* Every table saves its state, and Game.resume rebuilds it after a        *)
(* restart of the process, which may come at any time.                     *)
(*                                                                         *)
(* The other members of the tables are left out: what a hand gives the     *)
(* member is any of Gains.  The member is not "unlimited".                 *)
(***************************************************************************)
EXTENDS Integers, FiniteSets, Functions

CONSTANTS
    Tables,      \* the tables of the club
    BuyIns,      \* the buy-ins and add-ons tried
    Limit,       \* balance_limit of the member
    Bets,        \* the bets he makes
    Gains,       \* what a hand may pay to him
    MaxBuyIns,   \* bound on the buy-ins and add-ons
    MaxHands,    \* bound on the hands he is dealt
    MaxRestarts, \* bound on the restarts
    MaxResets    \* bound on the owner's resets of his balance

ASSUME ClubAssumption ==
    /\ IsFiniteSet(Tables) /\ Tables # {}
    /\ BuyIns \subseteq Nat \ {0} /\ Bets \subseteq Nat /\ Gains \subseteq Nat
    /\ Limit \in Nat

VARIABLES
    pc,      \* what the holder of the table's lock waits for
    req,     \* the buy-in that is checked: its kind, chips and the row read
    table,   \* the member at the table: what Game keeps in memory
    members, \* whether the next save has the members of the table
    saved,   \* the same in the row of the table in the database
    change,  \* the result of the hand that is being booked
    lastCashout, \* what he left the table with, None if that is no matter
    mem,     \* Club.balance of the member, 0 while that is not a number
    known,   \* whether it is one: no buy-in of his has made it one before
    db,      \* ClubBalance.balance of the member
    \* History.
    drift,   \* the chips that mem should count and does not
    brought, \* the chips he has brought to the tables less those he has taken
    forfeit, \* his bets that have been lost in nobody's name
    gap,     \* what of his the row of the table lacks: "chips", "bet"
    slips,   \* what has gone past the limit or the books: see Slips
    count    \* buy-ins, hands, restarts and resets so far

live == <<pc, req, table, members, change, lastCashout, mem, known>>
ledger == <<brought, forfeit, gap>>
ghosts == <<drift, slips, ledger>>
vars == <<live, saved, db, ghosts, count>>

None == -1
NoRequest == [kind |-> "none", chips |-> 0, row |-> 0]

\* The member at a table: the chips of his seat, the bet of this street, what
\* earlier streets have moved to the pots (-balance_changes), whether he is in
\* the hand, and whether he has been dealt one since he sat down.
Away == [seated |-> FALSE, chips |-> 0, bet |-> 0, potted |-> 0,
         hand |-> "none", played |-> FALSE]

Hands == {"none", "in", "folded", "left"}
Slips == {"raced",   \* a check has passed on numbers about to change
          "returned",\* a buy-in like the last cash-out was not checked
          "reset",   \* the owner has cleared the balance
          "uncounted", \* memory has counted chips in nobody's name, or not
          "revived", \* a restart has undone a cash-out
          "twice",   \* a restart has undone a hand that was booked
          "forgot",  \* a restart has left the bets of a hand uncounted
          "unsaved", \* a restart has lost chips he had bought or won
          "unbet"}   \* a restart has lost a bet between his stack and the pots
Steps == {"free", "asked", "read", "seating", "save", "move",
          "leaving", "paid", "counted", "booked"}

Init ==
    /\ pc = [t \in Tables |-> "free"]
    /\ req = [t \in Tables |-> NoRequest]
    /\ table = [t \in Tables |-> Away]
    /\ members = [t \in Tables |-> TRUE]
    /\ saved = [t \in Tables |-> Away]
    /\ change = [t \in Tables |-> 0]
    /\ lastCashout = [t \in Tables |-> None]
    /\ mem = 0 /\ known = FALSE /\ db = 0
    /\ drift = 0 /\ slips = {}
    /\ brought = 0 /\ forfeit = 0 /\ gap = [t \in Tables |-> {}]
    /\ count = [buyins |-> 0, hands |-> 0, restarts |-> 0, resets |-> 0]

SumOver(f) == FoldFunction(+, 0, f)

Goto(t, step) == pc' = [pc EXCEPT ![t] = step]
SaveMembers(t, yes) == members' = [members EXCEPT ![t] = yes]
Lacks(t, what) == gap' = [gap EXCEPT ![t] = @ \cup {what}]

\* What Club does to its balance of a user.  Until his first buy-in since the
\* start of the process that is undefined, or NaN since he joined the club;
\* buyin makes a number of it, nothing else does.  It is done for the user of
\* a socket: nobody, once that has logged out or been ejected.
Uncounted(yes) == IF yes THEN {} ELSE {"uncounted"}
Buyin(chips, counted) ==
    IF counted THEN mem' = mem - chips /\ known' = TRUE /\ UNCHANGED drift
    ELSE drift' = drift + chips /\ UNCHANGED <<mem, known>>
Cashout(chips, counted) ==
    /\ IF counted /\ known THEN mem' = mem + chips /\ UNCHANGED drift
       ELSE drift' = drift - chips /\ UNCHANGED mem
    /\ UNCHANGED known

-----------------------------------------------------------------------------
\* Buying in: sitDown and scTableAddOn.

\* getPotentialLosses sends its query.
AskToBuy(t, c, kind) ==
    /\ pc[t] = "free" /\ count.buyins < MaxBuyIns
    /\ IF kind = "sit" THEN ~table[t].seated
       ELSE table[t].seated /\ table[t].hand # "in"
    /\ count' = [count EXCEPT !.buyins = @ + 1]
    /\ req' = [req EXCEPT ![t] = [kind |-> kind, chips |-> c, row |-> 0]]
    /\ Goto(t, "asked")
    /\ UNCHANGED <<table, members, change, lastCashout, mem, known, saved, db,
                   ghosts>>

\* The database reads the row.
FindRow(t) ==
    /\ pc[t] = "asked"
    /\ req' = [req EXCEPT ![t].row = db]
    /\ Goto(t, "read")
    /\ UNCHANGED <<table, members, change, lastCashout, mem, known, saved, db,
                   ghosts, count>>

\* Mutant of WithinLimit: the chips on the tables are not added
WithinLimitOfRow(t) == -req[t].row + req[t].chips <= Limit

\* The callback adds what the memory says now.
PotentialLosses(t) == -(mem + req[t].row)
WithinLimit(t) == PotentialLosses(t) + req[t].chips <= Limit

\* A member who comes back within buyin_reset (fresh) must bring at least what
\* he left with; with exactly that he is not checked against the limit.
Returns(t, fresh) ==
    fresh /\ req[t].kind = "sit" /\ lastCashout[t] # None
BuyInAllowed(t, fresh) ==
    IF Returns(t, fresh) /\ req[t].chips <= lastCashout[t]
    THEN req[t].chips = lastCashout[t]
    ELSE WithinLimit(t)

\* Another table has a buy-in that memory does not count yet, or a result
\* that memory counts and the row does not, or the row has changed.
Raced(t) ==
    IF \/ req[t].row # db
       \/ \E o \in Tables \ {t} : pc[o] \in {"seating", "counted"}
    THEN {"raced"} ELSE {}

Refuse(t) ==
    /\ pc[t] = "read"
    /\ \E fresh \in BOOLEAN : ~BuyInAllowed(t, fresh)
    /\ req' = [req EXCEPT ![t] = NoRequest]
    /\ Goto(t, "free")
    /\ UNCHANGED <<table, members, change, lastCashout, mem, known, saved, db,
                   ghosts, count>>

\* doSit: the member has the chips; finish2 counts them after two more
\* queries.
SitDown(t) ==
    /\ pc[t] = "read" /\ req[t].kind = "sit"
    /\ \E fresh \in BOOLEAN :
         /\ BuyInAllowed(t, fresh)
         /\ slips' = slips \cup Raced(t)
                     \cup (IF WithinLimit(t) THEN {} ELSE {"returned"})
    /\ table' = [table EXCEPT ![t] =
                   [table[t] EXCEPT !.seated = TRUE, !.chips = req[t].chips,
                                    !.played = FALSE]]
    /\ brought' = brought + req[t].chips
    /\ Lacks(t, "chips")
    /\ Goto(t, "seating")
    /\ UNCHANGED <<req, members, change, lastCashout, mem, known, saved, db,
                   drift, forfeit, count>>

\* finish2: club.buyin, then updateMongoState({members:true}).  The user is
\* that of the socket by now: a second login or a logout may have come since
\* SitDown.
BuyIn(t, counted) ==
    /\ pc[t] = "seating"
    /\ Buyin(req[t].chips, counted)
    /\ slips' = slips \cup Uncounted(counted)
    /\ req' = [req EXCEPT ![t] = NoRequest]
    /\ SaveMembers(t, TRUE)
    /\ Goto(t, "save")
    /\ UNCHANGED <<table, change, lastCashout, saved, db, ledger, count>>

\* AddOn counts the chips at once, for the user the socket has after the query,
\* and saves nothing.
AddOn(t, counted) ==
    /\ pc[t] = "read" /\ req[t].kind = "addon" /\ WithinLimit(t)
    /\ Buyin(req[t].chips, counted)
    /\ slips' = slips \cup Raced(t) \cup Uncounted(counted)
    /\ table' = [table EXCEPT ![t].chips = @ + req[t].chips]
    /\ brought' = brought + req[t].chips
    /\ Lacks(t, "chips")
    /\ req' = [req EXCEPT ![t] = NoRequest]
    /\ Goto(t, "free")
    /\ UNCHANGED <<members, change, lastCashout, saved, db, forfeit, count>>

\* What updateMongoState writes without the members: the bets, and the state
\* of the table, which tells that a hand is over; a fold is a status of a
\* member.
WithoutMembers(t) ==
    [saved[t] EXCEPT !.bet = table[t].bet, !.potted = table[t].potted,
                     !.hand = IF table[t].hand = "none" THEN "none" ELSE @]

\* updateMongoState has been written: with the members, or without.
Save(t) ==
    /\ pc[t] \in {"save", "move", "booked"}
    /\ saved' = [saved EXCEPT ![t] =
                   IF members[t] THEN table[t] ELSE WithoutMembers(t)]
    /\ gap' = [gap EXCEPT ![t] =
                 IF members[t] \/ saved[t].chips = table[t].chips THEN {}
                 ELSE IF pc[t] = "booked" THEN {"chips"} ELSE @ \ {"bet"}]
    /\ SaveMembers(t, TRUE)
    /\ Goto(t, "free")
    /\ UNCHANGED <<req, table, change, lastCashout, mem, known, db, drift,
                   brought, forfeit, slips, count>>

-----------------------------------------------------------------------------
\* A hand, as far as his chips go.

Deal(t) ==
    /\ pc[t] = "free" /\ count.hands < MaxHands
    /\ table[t].seated /\ table[t].hand = "none" /\ table[t].chips > 0
    /\ count' = [count EXCEPT !.hands = @ + 1]
    /\ table' = [table EXCEPT ![t] =
                   [table[t] EXCEPT !.hand = "in", !.played = TRUE]]
    /\ SaveMembers(t, TRUE)
    /\ Goto(t, "save")
    /\ UNCHANGED <<req, change, lastCashout, mem, known, saved, db, ghosts>>

\* Mutant of PutChips: no check that he has the chips
PutChipsHeLacks(t, b) ==
    /\ pc[t] = "free" /\ table[t].hand = "in"
    /\ table' = [table EXCEPT ![t] =
                   [table[t] EXCEPT !.chips = @ - b, !.bet = @ + b]]
    /\ SaveMembers(t, TRUE)
    /\ Goto(t, "move")
    /\ UNCHANGED <<req, change, lastCashout, mem, known, saved, db,
                   ghosts, count>>

\* setBet, by putChips.
PutChips(t, b) ==
    /\ pc[t] = "free" /\ table[t].hand = "in" /\ b <= table[t].chips
    /\ table' = [table EXCEPT ![t] =
                   [table[t] EXCEPT !.chips = @ - b, !.bet = @ + b]]
    /\ SaveMembers(t, TRUE)
    /\ Goto(t, "move")
    /\ UNCHANGED <<req, change, lastCashout, mem, known, saved, db,
                   ghosts, count>>

\* fold saves the state of the hand and no member.
Fold(t) ==
    /\ pc[t] = "free" /\ table[t].hand = "in"
    /\ table' = [table EXCEPT ![t].hand = "folded"]
    /\ SaveMembers(t, FALSE)
    /\ Goto(t, "move")
    /\ UNCHANGED <<req, change, lastCashout, mem, known, saved, db,
                   ghosts, count>>

\* moveToPot writes the row itself, without the members, before it books the
\* bet: the bet is in the row no more, and what he has put into the pots is not
\* there yet.
PotsWritten(t) ==
    /\ saved' = [saved EXCEPT ![t].bet = 0]
    /\ gap' = [gap EXCEPT ![t] =
                 IF saved[t].bet > 0 THEN @ \cup {"bet"} ELSE @]

\* moveToPot, after the last move of a street, whether it is his; his last may
\* be that he folds and leaves.
NextStreet(t) ==
    /\ pc[t] \in {"free", "move", "leaving"} /\ table[t].bet > 0
    /\ pc[t] = "leaving" => table[t].hand = "in"
    /\ table' = [table EXCEPT ![t] =
                   [table[t] EXCEPT !.bet = 0, !.potted = @ + table[t].bet]]
    /\ \E yes \in IF pc[t] = "free" THEN BOOLEAN ELSE {members[t]} :
         SaveMembers(t, yes)
    /\ PotsWritten(t)
    /\ Goto(t, IF pc[t] = "leaving" THEN "leaving" ELSE "move")
    /\ UNCHANGED <<req, change, lastCashout, mem, known, db, drift, brought,
                   forfeit, slips, count>>

\* The hand is booked to the user of his seat: he is on it, is about to leave
\* it, or has come back to it before the hand is over.
OnHisSeat(t) ==
    \/ table[t].hand \in {"in", "folded"}
    \/ table[t].hand = "left" /\ table[t].seated

\* Mutant of DoWin: the bet of the last street is not in the result
DoWinBeforeMoveToPot(t, gain) ==
    /\ pc[t] \in {"free", "move", "leaving"}
    /\ OnHisSeat(t)
    /\ pc[t] = "leaving" => table[t].hand = "in"
    /\ gain > 0 => table[t].hand = "in" /\ table[t].seated
    /\ change' = [change EXCEPT ![t] = gain - table[t].potted]
    /\ table' = [table EXCEPT ![t] =
                   [table[t] EXCEPT !.chips = @ + gain, !.bet = 0,
                                    !.potted = 0, !.hand = "none"]]
    /\ SaveMembers(t, TRUE)
    /\ PotsWritten(t)
    /\ Goto(t, "paid")
    /\ UNCHANGED <<req, lastCashout, mem, known, db, drift, brought, forfeit,
                   slips, count>>

\* moveToPot and doWin, after his last move or that of another: his stack has
\* what the hand gives him.
DoWin(t, gain) ==
    /\ pc[t] \in {"free", "move", "leaving"}
    /\ OnHisSeat(t)
    /\ pc[t] = "leaving" => table[t].hand = "in"
    /\ gain > 0 => table[t].hand = "in" /\ table[t].seated
    /\ change' = [change EXCEPT ![t] = gain - (table[t].bet + table[t].potted)]
    /\ table' = [table EXCEPT ![t] =
                   [table[t] EXCEPT !.chips = @ + gain, !.bet = 0,
                                    !.potted = 0, !.hand = "none"]]
    /\ \E yes \in IF pc[t] = "free" THEN BOOLEAN ELSE {members[t]} :
         SaveMembers(t, yes)
    /\ PotsWritten(t)
    /\ Goto(t, "paid")
    /\ UNCHANGED <<req, lastCashout, mem, known, db, drift, brought, forfeit,
                   slips, count>>

\* Mutant of CountResult: only a gain is counted, as if a loss had been when
\* the bets were made
CountGain(t) ==
    /\ pc[t] = "paid"
    /\ mem' = IF change[t] > 0 /\ known THEN mem - change[t] ELSE mem
    /\ drift' = IF known THEN drift ELSE drift + change[t]
    /\ slips' = slips \cup Uncounted(known)
    /\ Goto(t, "counted")
    /\ UNCHANGED <<req, table, members, change, lastCashout, known, saved, db,
                   ledger, count>>

\* updateLimitPostWin counts the result in memory, if that has a number of his,
\* and sends $inc.
CountResult(t) ==
    /\ pc[t] = "paid"
    /\ IF known THEN mem' = mem - change[t] /\ UNCHANGED drift
       ELSE drift' = drift + change[t] /\ UNCHANGED mem
    /\ slips' = slips \cup Uncounted(known)
    /\ Goto(t, "counted")
    /\ UNCHANGED <<req, table, members, change, lastCashout, known, saved, db,
                   ledger, count>>

\* The database adds the result to the row.  The last move of the hand saves
\* the table: a bet with its members, a fold without them.
BookResult(t) ==
    /\ pc[t] = "counted"
    /\ db' = db + change[t]
    /\ change' = [change EXCEPT ![t] = 0]
    /\ Goto(t, "booked")
    /\ UNCHANGED <<req, table, members, lastCashout, mem, known, saved, ghosts,
                   count>>

-----------------------------------------------------------------------------
\* standUp cashes the stack out, and folds his hand; that may end the hand
\* (DoWin).  The two saves of that, fold's and standUp's own, are one here.
\* The user is that of the socket, now (counted) and later (kept): a user who
\* leaves and logs out at once may be gone by then, and what he takes with him
\* is cashed out to nobody.
StandUp(t, counted, kept) ==
    /\ pc[t] = "free" /\ table[t].seated
    /\ Cashout(table[t].chips, counted)
    /\ brought' = brought - table[t].chips
    /\ lastCashout' =
         [lastCashout EXCEPT ![t] =
            IF kept /\ table[t].played THEN table[t].chips ELSE @]
    /\ table' = [table EXCEPT ![t] =
                   [table[t] EXCEPT !.seated = FALSE, !.chips = 0,
                                    !.played = FALSE]]
    /\ SaveMembers(t, TRUE)
    /\ Goto(t, "leaving")
    /\ UNCHANGED <<req, change, saved, db, forfeit, gap, slips, count>>

\* If it does not, his bet of this street, unless that is over, goes to the
\* first pot and is booked to nobody.  When an earlier street has put a part of
\* his into the pots, postWinSaveStats will look for the user of his seat, in
\* vain unless he comes back, and end the process.
LeaveSeat(t) ==
    /\ pc[t] = "leaving"
    /\ drift' = drift - table[t].bet
    /\ forfeit' = forfeit + table[t].bet
    /\ table' = [table EXCEPT ![t] =
                   [table[t] EXCEPT !.bet = 0,
                                    !.hand = IF table[t].potted > 0
                                             THEN "left" ELSE "none"]]
    /\ Goto(t, "save")
    /\ UNCHANGED <<req, members, change, lastCashout, mem, known, saved, db,
                   brought, gap, slips, count>>

\* The owner clears the balance of the member, who has settled what the row
\* says: resetPlayerLimit.
ResetPlayerLimit ==
    /\ count.resets < MaxResets
    /\ count' = [count EXCEPT !.resets = @ + 1]
    /\ db' = 0
    /\ brought' = brought + db
    /\ slips' = slips \cup {"reset"}
    /\ UNCHANGED <<live, saved, drift, forfeit, gap>>

\* The hand of table t is in the row of the member, and not in that of the
\* table.
BookedNotSaved(t) == pc[t] = "booked"

\* He has been cashed out, and the row of the table still has him.
CashedNotSaved(t) == saved[t].seated /\ ~table[t].seated

\* The row of the table has bets of his: resume counts the chips of his seat.
BetsSaved(t) == saved[t].bet + saved[t].potted

\* The row of the table has older chips of his, or has lost a bet.
LacksChips(t) == "chips" \in gap[t]
LacksBet(t) == "bet" \in gap[t]

\* The process dies, checkAndResume reads the rows of the tables, and resume
\* buys every member in that it finds on a seat.
Restart ==
    /\ count.restarts < MaxRestarts
    /\ count' = [count EXCEPT !.restarts = @ + 1]
    /\ table' = saved
    /\ pc' = [t \in Tables |-> "free"]
    /\ req' = [t \in Tables |-> NoRequest]
    /\ members' = [t \in Tables |-> TRUE]
    /\ change' = [t \in Tables |-> 0]
    /\ lastCashout' = [t \in Tables |-> None]
    /\ mem' = -SumOver([t \in Tables |-> saved[t].chips])
    /\ known' = \E t \in Tables : saved[t].seated
    /\ drift' = SumOver([t \in Tables |-> BetsSaved(t)])
    /\ gap' = [t \in Tables |-> {}]
    /\ slips' = slips
         \cup (IF \E t \in Tables : BookedNotSaved(t) THEN {"twice"} ELSE {})
         \cup (IF \E t \in Tables : CashedNotSaved(t) THEN {"revived"} ELSE {})
         \cup (IF \E t \in Tables : BetsSaved(t) > 0 THEN {"forgot"} ELSE {})
         \cup (IF \E t \in Tables : LacksChips(t) THEN {"unsaved"} ELSE {})
         \cup (IF \E t \in Tables : LacksBet(t) THEN {"unbet"} ELSE {})
    /\ UNCHANGED <<saved, db, brought, forfeit>>

-----------------------------------------------------------------------------
Buy == \E t \in Tables : \/ \E c \in BuyIns, k \in {"sit", "addon"} :
                              AskToBuy(t, c, k)
                         \/ FindRow(t) \/ Refuse(t) \/ SitDown(t)
                         \/ \E counted \in BOOLEAN :
                              BuyIn(t, counted) \/ AddOn(t, counted)
Play == \E t \in Tables : \/ Deal(t) \/ NextStreet(t) \/ Fold(t)
                          \/ \E b \in Bets : PutChips(t, b)
EndHand == \E t \in Tables : \/ \E gain \in Gains : DoWin(t, gain)
                             \/ CountResult(t) \/ BookResult(t)
Leave == \E t \in Tables : \/ \E counted, kept \in BOOLEAN :
                                (kept => counted) /\ StandUp(t, counted, kept)
                           \/ LeaveSeat(t)
Write == \E t \in Tables : Save(t)

Next == Buy \/ Play \/ EndHand \/ Leave \/ Write \/ ResetPlayerLimit \/ Restart

Spec == Init /\ [][Next]_vars

-----------------------------------------------------------------------------
Member == [seated : BOOLEAN, chips : Nat, bet : Nat, potted : Nat,
           hand : Hands, played : BOOLEAN]

TypeOK ==
    /\ pc \in [Tables -> Steps]
    /\ req \in [Tables -> [kind : {"none", "sit", "addon"},
                           chips : Nat, row : Int]]
    /\ table \in [Tables -> Member]
    /\ saved \in [Tables -> Member]
    /\ members \in [Tables -> BOOLEAN]
    /\ change \in [Tables -> Int]
    /\ lastCashout \in [Tables -> Nat \cup {None}]
    /\ mem \in Int /\ known \in BOOLEAN /\ db \in Int
    /\ drift \in Int /\ brought \in Int /\ forfeit \in Int
    /\ gap \in [Tables -> SUBSET {"chips", "bet"}]
    /\ slips \subseteq Slips

\* What the memory of the club holds against a member is what he has at its
\* tables, through every buy-in, hand and leave of several tables at once.
\* Between the steps of a call it misses the buy-in or the result that is
\* about to be counted; for good it misses the bets of a hand that a restart
\* interrupts, a buy-in whose socket has lost its user, and what has come of
\* that while it had no number for him; and it keeps the bet of a hand that he
\* has left, and a stack that he has left with while he logged out.
Held(t) == table[t].chips + table[t].bet + table[t].potted
Stake(t) ==
    Held(t)
      - (IF pc[t] = "seating" THEN req[t].chips ELSE 0)
      - (IF pc[t] = "paid" THEN change[t] ELSE 0)
StakesAreCounted ==
    mem + SumOver([t \in Tables |-> Stake(t)]) = drift

\* The hands of a member are booked once each, whatever tables they are played
\* at and whenever the process dies: what his row says, with the hands that are
\* being booked, is what he has at the tables less what he has brought there.
\* (A bet that he leaves with is lost in nobody's name.)  A restart does not
\* change that, unless it finds a cash-out or a booked hand that the row of the
\* table does not have, chips bought or won that it does not have, or a bet
\* that moveToPot has taken out of it and not yet into the pots.
Undone == {"revived", "twice", "unsaved", "unbet"}
AtTables == SumOver([t \in Tables |-> Held(t)])
HandsAreBooked ==
    slips \cap Undone = {} =>
        db + SumOver(change) = AtTables - brought + forfeit

\* What a member has at the tables of a club and has lost there is no more than
\* his limit, however many tables he buys in at, unless a check has read a
\* balance that was about to change, he has come back with just what he left
\* with (that is not checked at all), chips have been counted in nobody's name,
\* the owner has cleared his balance, or a restart has undone what was booked
\* or left out his bets.  (What he has gained raises what he may buy in for.)
AtRisk == AtTables - (db + SumOver(change))
LimitHolds == slips \subseteq {"unsaved", "unbet"} => AtRisk <= Limit
=============================================================================
