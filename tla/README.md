# A verification project for the Chip Up Poker server

Chip Up Poker is an online Omaha club: a Node.js server (`src/server`), which
keeps the tables, clubs and tournaments, and clients in Delphi and Qt. This
directory holds TLA+ models of the server's core, the TLC runs that check them
on small instances, and proofs checked by TLAPS. `PROJECT.json` maps every
definition to the lines it models.

Run from this directory:

    tlc -workers 2 -config MCBetting.cfg MCBetting     # model checking
    tlapm BettingProofs.tla                            # proofs

## 1. Inventory

The server is one JavaScript thread. A client's message, a timer and the
answer of the database each run a callback to its end; what is concurrent is
the order of the callbacks. A handler that changes a table calls
`game.writeLock`, does its work in callbacks of the database and `setTimeout`,
and calls `release`. Nearly every line of it asserts something, and an
uncaught exception ends the process (`error.js:2-18`); `master.js` starts a
new one, which resumes the tables from MongoDB.

| Component | State | Operations | Interacts with |
|---|---|---|---|
| read/write lock, `lock.js` | `readers`, `queue`, the closures' `released` and `terminated` | readLock, writeLock, release, timeout | guards every table, club and tournament |
| betting engine, `game.js` | `state`, `dealer`, `current_seat`, `minBet`, `minimum_raise`, `keycount`, `ranOut`, `members[].status/.chips`, `bets` | deal, putChips, fold, stateMachine, checkRoundPass, calcWinners, doWin, AddOn, standUp | runs under the table's lock; called by the message handlers, the clock and disconnections |
| side pots, `pot.js`, `moveToPot` | `pots[].value/.members/.trueMembers`, `balance_changes` | Pot.add, moveToPot | called by checkRoundPass and fold; `balance_changes` is booked by postWinSaveStats |
| dealing, `deal`, `nextDealer`, `getNextSeat` | `dealer`, `todo`, statuses | the loop that deals members in, the blinds | called by stateMachine in tsIdle |
| turn clock, `startTimer`, `stopTimer` | `timer`, the closure DING | start, stop, fire | waits for the table's lock as a handler does |
| seats and waiting list | `seats`, `members`, `sitQueue`, `reserved_seats` | sitDown, standUp, tableSitClose, bootReserved, leave, handleDisconnect, eject, reconnectUser | clubs (limits), sessions (sockets), timers of one and five minutes |
| lifecycle and recovery | `activeGames`, the document in MongoDB | getGame, doClose, close, updateMongoState, resume | the database |
| clubs, `club.js` | `balance` of each member in memory, the rows `ClubBalance`, limits | buyin, cashout, updateLimitPostWin, getPotentialLosses, resetPlayerLimit, kick, suspension | called by sitDown, standUp and postWinSaveStats of every table of the club |
| tournaments, `tournament.js` | `players` in the order of their ranks, `tables` with `clearOut` and `paused`, `bustQueue`, `commonLock` | register, start, handOver, doRebalance, rerebalance, postTransfer, breaks | takes the locks of two tables and its own |
| sessions, `user.js`, `server.js` | `activeUsers`, sockets | login, logout, eject, reconnection | every table the user sits at |
| message handlers, `game_network.js` and others | none | one per message | call the above under its lock |
| cards, `deck.js`, `dag/`, `dag2/`, `omaha/` | the deck | shuffle, evaluate | calcWinners |
| persistence, web, billing, clients | — | input and output | — |

What makes each of them correct:

* **Lock**: readers share, a writer is alone; a free lock has no waiter; first
  come, first served; a cancelled call stays cancelled and is in nobody's way.
* **Betting engine**: no chip is made or lost; whoever has the turn is in the
  hand and has an opponent; a street ends when all have acted and not before;
  an all-in hand is never folded; every hand ends and the lock is released
  whatever the players do; what is booked is what was played; no assertion
  fails.
* **Side pots**: a member can win from each opponent as much as he put in
  himself; an uncalled bet goes back; no pot without a member.
* **Dealing**: nobody is dealt in twice or between the blinds out of turn; the
  button and the big blind are on members that got cards.
* **Clock**: only the seat that has the turn is timed out, and once per turn.
* **Seats**: a user has one seat, a seat one user; a reserved seat is freed;
  the lock is released on every path.
* **Clubs**: what a member has at stake is counted once, over all tables; nobody
  sits down for more than his limit allows; a result is booked once.
* **Tournaments**: no two reports wait for each other's locks; the place of a
  player who is out is final; the winner has every chip; tables play on or are
  merged until there is a winner.
* **Recovery**: after a restart the chips of a member are those he had.
* **Cards**: an evaluator finds the best five cards of a hand.

What is hard here: the order of moves, timers, disconnections and the database's
answers; members who leave in the middle of a hand; `keycount`, `ranOut`
and `minBet`, which several functions count along with; a balance that is kept
in two places; assertions that end the process; locks that depend on every path
calling `release`, and reports that hold three of them. `PROJECT.json` lists
these hazards line by line, with the properties that cover them, or why none
does.

## 2. Modules

| Module | Models | Used by |
|---|---|---|
| `IdealLock` | what a read/write lock promises: a queue of calls, of which those in front get in together when they are compatible | `RWLock` (refinement) |
| `RWLock` | `lock.js` whole: the closures, their flags, who polls whom | `MCRWLock`, `RWLockProofs` |
| `SidePots` | `Pot.add`, `moveToPot`: variables and actions, no table around it | `Rounds`, `Betting` |
| `Rounds` | rounds of betting with any outcome, each ended by `moveToPot` | `MCRounds`, `BettingProofs`, `HandProofs` |
| `Dealing` | who is dealt in, where the button goes and who posts what, as functions of a table | `Betting` |
| `Betting` | a hand, from `deal` to the end of `doWin`, with the calls of players, clocks and leavers | `MCBetting`, `BettingProofs`, `HandProofs` |
| `TurnClock` | `startTimer`, `stopTimer` and DING among the handlers that wait for the lock | `MCTurnClock`, `ClockSessionProofs` |
| `TableSeats` | seats, waiting list, reservations, departures, disconnection, ejection and reconnection at one table, with the lock as a queue of calls | `MCTableSeats`, `TableSeatsProofs` |
| `ServerSession` | the sockets of one user, `activeUsers`, login, logout and ejection | `ClockSessionProofs` |
| `ClubMoney` | what one member has at stake at the tables of a club, in memory and in the database, with crashes | `MCClubMoney`, `ClubMoneyProofs` |
| `Tournament` | a tournament from start to winner: reports, moves, ranks, three locks | `MCTournament`, `TournamentProofs` |
| `HandEval` | the evaluators of hands, and the best five cards by definition | `MCHandEval` |
| `Numbers` | lemmas about numbers: the least and the greatest of a set, sums over a finite set, the induction over sets they rest on | `BettingProofs`, `ClubMoneyProofs`, `TableSeatsProofs`, `TournamentProofs` |
| `BettingProofs` | theorems about the steps of a hand: types, turns, books, side pots, payout | `HandProofs` |
| `HandProofs` | theorems about a hand as a whole, from those: its chips, its assertions, its end | |
| `ClockSessionProofs` | theorems about `TurnClock` and `ServerSession`, the two small components whose actors are timers and sockets; they share no state | |
| `RWLockProofs`, `ClubMoneyProofs`, `TableSeatsProofs`, `TournamentProofs` | theorems | |

**How state corresponds.** Variables carry the names of the fields. The
members' `status` and `chips` are functions of the seat, with `"empty"` for a
null member; `leaving` is the seat that `standUp` has taken the member from
while `seats[x]` still names the user. `pc` and `then` replace the callbacks:
they say what the holder of the lock does next, and `pc = "free"` that nobody
has it. `mv` and `at` are the loop of `moveToPot` that runs and its index.
`failed` names an assertion, or a dereference of null, that has ended the
process; nothing happens after it. `staked`, `acted`, `away` (and `put` in
`Rounds`, `drift`, `brought`, `forfeit`, `gap` and `slips` in `ClubMoney`,
`refused`, `stopped` and `moved` in `TurnClock`) are history: the code does not have them, no guard reads them.

**How actions correspond.** A handler gets the lock and runs until it releases
it. `PutChips`, `FoldInTurn`, `StandUp`, `AddOn`, `PlayNow`, `SitOut`, `Deal` and
`HandOver` of `Betting` are the calls, each up to the point where it calls
`stateMachine` or `moveToPot`; `StateMachine`, `Finish`, `MovePass`, `MergePots`,
`ReturnPot`, `DealStreet`, `CalcWinners`, `PayPot`, `WinDone`,
`WaitForPlayers` and `Release` are what follows, in the order the callbacks
have. A turn of a loop over pots is a step, so that no action needs recursion.
The calls are taken only when `pc = "free"`: `RWLock` shows that the lock
sees to that. The answers of the database that a handler awaits inside the lock
are not told apart there: no other call can see the table between them.

**The lock, twice.** `IdealLock` has a queue of calls and the set of those that
are in; `Enter`, `Wait`, `Leave` and `GiveUp` are all it does. `RWLock` has
closures that poll each other. `RWLock!ImplementsIdealLock` instantiates the
first with the holders and the live closures of the second: every step of
`lock.js` is one of the ideal lock, or none. A call that times out gives up for
good (a late poll of its closure does nothing), but the place it keeps in
`lock.queue` stays in everybody's way; `IdealLock` therefore lets callers wait as
long as a call that was cancelled is in the queue, which is what the code does
and its documentation does not say (section 3).

**TurnClock.** The betting is abstract, the queue of the lock is not: a bet, a
fold, a departure or an ejection may stand in the queue when the clock fires,
and DING then waits behind it. What a handler does when it gets the lock is one
step (`Grant`), its callback of the database, which starts the next clock and
releases the lock, another. After a release the next closure runs before any
other event (`Idle`). Hands are dealt by three callers of the lock, none of which
clears the timers of the others: the timer of `doWin` (`CallNext`, `GrantNext`), a
member who reconnects to an idle table (`GrantBack`), and `dealTimer`, which
`scTablePlayNow` sets (`GrantPlay`) and which calls `stateMachine` five seconds
later whatever the state is by then (`CallDeal`, `GrantDeal`). In the middle of a
hand that is `LateDeal`: the turn or the street moves on with nobody having
moved, and no clock is started.

**TableSeats.** What makes the seats hard is what happens outside the lock: a
handler changes `users`, reads a seat or clears a timer, asks for the lock, and
uses what it knew when its turn comes. `calls` is the queue of the table's lock
(first come, first served, as `RWLockProofs` shows of `lock.js`); an entry is a
closure with what it has captured, the socket and the seat. `Join`, `Sit`,
`StandUp`, `Leave`, `Kick`, `Logout`, `Drop`, `Login`, `Scan`, `TableSitClose` and
the three kinds of timers put an entry there, and an action `Grant...` is what
the handler does when it is served. `standUp` nulls `members[x]` at its start
(`BeginStandUp`) and `seats[x]` at its end (`StandUpDone`), with fold and
database between; in between, `holder` says who has the lock, and messages,
logins and timers see the table half way. `Leaked` is a lock that its holder has
forgotten; the model stops there, as the table does.

| Field of the code | Variable of `TableSeats` |
|---|---|
| `users[userid]`, `reconnect` | `users`, `reconnect` |
| `seats[x].conn` and `.userid`, `members[x]` and `.disconnected` | `seats[x]`: `conn` (`NoConn` is the `fakeconn` of a disconnected member), `user`, `member` |
| `members[x].disconnectTimer` | `seats[x].timer` names the timer, `ejectTimers` are those that run |
| `sitQueue`, `reserved_seats` | the same; `timer` of an offer says that its timer runs, `bootTimers` counts those that outlive their offer |
| `conn.state` and `conn.userid` | `conn`: `"lost"` keeps its userid, `"cleared"` has lost it |

**ServerSession.** `TableSeats` has one table and a few sockets;
`ServerSession` is the other view of the same code: one user, any number of
sockets, and `activeUsers[userid]`. A login is its steps (`AskLogin`,
`EnterLobby`, `FindTable`, `ResumeTable`, `ReplyLogin`), between which the socket
may end, log out or be ejected, since no callback looks whether it still is what
it was. `late` is history: a login has finished while a logout on an
older socket still waited for the table. The module has no run; its two
invariants are proved (section 4).

**ClubMoney.** One member, several tables. Each table is a thread of its own
under its own lock, and every answer of the database is a step, since calls at
the other tables come in between: `AskToBuy`, `FindRow` and `SitDown` or
`Refuse`, `BuyIn`, `Save`; `DoWin`, `CountResult`, `BookResult`, `Save`. `mem` is
`Club.balance`, which holds what the member has taken to his tables as a negative
number; `db` is his row, with the results of his hands; the limit is on the sum.
`known` says whether `Club.balance` has a number of his: until his first counted
buy-in it is undefined, or NaN since he joined (`updateLimitPostWin(0)`), and a
result or a cash-out leaves it so. Buy-ins, add-ons and cash-outs are counted for
the user the socket has at that moment, which a second login or a logout may
have cleared while the database was asked (`counted`). `saved` is the row of each
table: what `updateMongoState` wrote last, with the members, without them
(`WithoutMembers`), or from `moveToPot`, between the bet that is taken and the
pots it goes to (`PotsWritten`). What the row lacks of the table is kept as history
(`gap`), as are the chips the member has brought to the tables (`brought`) and the
bets that a departure has lost in nobody's name (`forfeit`). `Restart` may come at any point: memory is
lost, `resume` reads the rows and buys in everybody it finds seated. The other
members are left out: a hand pays the member any of `Gains`.

**Tournament.** A hand is abstract: it ends with any division of the chips it
was played for. What follows is not: the table reports with its lock held
(`BeginOver`, `StandUpBust`, `ReportOver`), waits for the lock of the tournament
(`tqueue`), busts players, puts the ranks right, decides on a move (`HandOver`),
waits for the lock of the other table (`Move`), stands the player up
(`AfterMove`) and saves. `pc[t]` says where the report of table `t` is, `queue[t]`
is the queue of the table's lock, as above; a report that comes when the lock of
the tournament is released runs before the one that released it goes on
(`SavedBefore`, `ReportedAfter`). `busy` in `HandOver` and `AfterMove` is the
set of tables whose lock some other handler has just then; to the table itself
such a handler is a delay like any other. One assumption is about time:
`postTransfer` comes five seconds after a move and `rerebalance` one second after
a report, so that a report and the moves it still makes come before the timer
of five (`MovesOn`), unless the table has nobody left to play with. A table
of about eight seats or more that is cleared, or a slow database, could take
longer; the model leaves that out.

**HandEval.** Pure functions: a state is a hand, and a step evaluates it. The
graph of `dag/` is not stored but computed: a node is the bag of ranks that leads
to it, and its classes are the best of its sub-bags, which is what `carddag` and
`eqcllist` tabulate. `HandEval` compares `calculate_equivalence_class`,
`partial_evaluate` with `resume_evaluation`, `doEval` of `dag2/omaha.js`, `EVAL_N`
of poker-eval and its Omaha loop with the best of all choices of five cards.

### What the models leave out of the code they model

* In `TableSeats`: stacks, buy-ins and the hand. A buy-in may be refused
  whatever the reason, and `idleUnstick` finds any set of members out of play.
  `sitDown` is one step, though it waits for the database under the lock: for
  `getPotentialLosses` (game.js:385) between the checks of `scTableSit` and
  `doSit`, and for `updateBuyin` between taking the seat and dropping the offer. No
  other call changes a seat meanwhile; `tableSitClose` may come in between, and
  queues the same call as one that comes just before; and a socket that is lost
  meanwhile is as one that is lost just after, with `handleDisconnect` behind it in
  the queue. A socket that is ejected meanwhile has no userid any more, and gets a
  seat that is nobody's: the model leaves that out. A user's first login
  looks for tables at once and finds none; only the sockets of `Returning`
  users do so later. A socket that has logged out does not log in again (its
  user does, with a new one). The table is not closing and has a club.
* Cards: `Betting!CalcWinners` takes any ranking of the hands on either board.
  The second board is a second ranking; when the players have not agreed to
  split the two are equal, which is one of the choices.
* The rake: any whole number of chips up to `MaxRake` once the flop has been
  dealt; the percentages it is computed from are left out.
* Money is counted in units such that a chip is `Chip` of them and every split
  of a pot comes out even, as the code's floating point numbers nearly do.
* `Betting!HandOver(out)` takes out of play any set of seats: those that asked to
  sit out, that were suspended, or that are in the way of a blind.
* In `Betting` nobody sits down, goes offline or is kicked, nobody has asked
  for autoplay, and the table is a cash table that is not being closed. The
  initial state is any table between two hands.
* A call that a handler answers with an error changes nothing and is left out,
  but for the bets that are refused: they stop and start the clock
  (`TurnClock!GrantBet`).
* In `TurnClock` the time bank and the length of a turn: time passes, or not;
  autoplay and tournaments; and a `dealTimer` that sitting out has cleared, which
  is one that has not fired yet. The assertions of the engine are `Betting`'s
  matter, but for the one of DING and the recursion that a late `dealTimer` may
  start. The timer of `doWin` asks for the lock once after every hand.
* In `Betting` the rake of the pots that the limit of a pot-limit bet is computed
  from (game.js:262).
* In `ClubMoney` the users whose limit is "unlimited", the limits of the club as
  a whole, and the two saves of a departure, which are one. A logout between
  `getPotentialLosses` and `doSit` seats nobody: the seat has no user, the chips
  are nobody's stake, and the process ends at the latest when such a seat is to be
  booked. A member whose fold was saved without the members is in the hand
  again after a restart; who wins that hand is any of `Gains`.
* In `Tournament` levels, blinds, breaks, prizes, offline players, and seats: where
  the code goes by the seats of a table, its players may be in any order. The
  chips of a hand stay the same; when a board is split, `doWin` rounds the two
  halves of an odd pot (section 3). At a table that has not dealt yet the dealer
  is -1 (game.js:114), and `findHoles` may offer a seat -1
  (tournament.js:564-570): with two seats a table and an odd number of players.

## 3. Runs

| Run | Instance | Distinct states |
|---|---|---|
| `rwlock` | 2 readers, 2 writers, a reader and a writer with timeouts | 389 |
| `rounds` | 4 seats, 2 rounds, bets of 0 to 2 | 101,779 |
| `betting` | 3 seats, stacks of 1 or 2 big blinds, one hand, one leaver | 618,980 |
| `betting_rounding` | 2 seats, pot limit, rake, one add-on, two hands | 577,412 |
| `seats` | 2 users, 2 seats, no waiting list, 2 calls waiting | 302,610 |
| `seats_waiting` | 2 users, 1 seat, a waiting list of 2 | 538,276 |
| `seats_away` | 2 users, 1 seat, one user logs in twice | 959,908 |
| `turnclock` | 3 seats, 2 streets, a message waiting, all timers | 432,937 |
| `clubmoney` | 2 tables, 3 buy-ins, one hand, one restart, one reset, one or two kinds of slips | 1,598,357 |
| `tournament` | 5 players, 2 tables of 3 seats, one table locked by others | 193,458 |
| `handeval` | 6 ranks; hands of 5 and 7 cards, 2 Omaha boards | 55,122 |
| `tournament_stall` | 4 players, 2 tables of 2 seats: a violation |  |

* **rwlock**: `Exclusion` (and that `readers` counts right), `ImplementsIdealLock`
  (the refinement: nobody passes a call that came earlier, no call that could be
  in waits, a cancelled call never gets in), and, if holders release and
  nobody times out, `EveryCallIsServed`. Two readers make a batch, two writers a
  queue that excludes; one of each may give up.
* **rounds**: after any two rounds of betting the pots follow the rules
  (`SidePotRules`), an uncalled bet has been returned (`NothingUncalled`), what
  is booked is what was taken (`BooksAreRight`), and the loops end. Two rounds
  are what it takes for a pot to be opened on top of one that somebody is all
  in to; four seats give three layers and a folded seat; a bet of two can be
  half called.
* **betting**: every hand of up to three players, heads up included, with a
  member who may stand up at any point: no step makes a chip, unless it pays a
  pot that has to be rounded, and none loses one as long as nobody has left
  (`Conserved`), the turn is with a seat in the hand that has an
  opponent (`SomebodyToAct`), the pots follow the rules (`SidePotLaw`), a street
  ends when all have acted (`EverybodyActs`), the assertions hold
  (`NoAssertionFails`), what will be booked is what was played
  (`BookedIsPlayed`), no folded or absent seat has a claim to a pot
  (`PotsOfTheLiving`), an all-in hand is not folded (`AllInStaysIn`), and the
  hand ends (`HandEnds`). Those that the code breaks as soon as somebody stands
  up are stated for hands without a leaver; each says so where it is defined. A
  stack of one big blind is all in by a blind or by a call, one of two can raise;
  three players make a main pot and a side pot.
* **betting_rounding**: odd pots, a rake and splits: a payout makes or loses at
  most one chip (`PayoutWithinRounding`; nobody stands up here, and the property
  is about hands where nobody has).
* **turnclock**: the clock that runs is that of the seat on turn, which is in
  the hand (`ClockIsOfTheTurn`); whenever the lock is free there is one, or its
  DING waits (`TurnIsTimed`); a DING that has been overtaken forces nobody
  (`ForcedInTurn`); and every turn ends, by a move or by DING (`TurnEnds`), but
  for the exceptions the property names: a departure that stops the clock
  (`stopped`), a refused bet (`refused`), and a `dealTimer` that fires in a hand and
  moves the turn (`moved`), after which the old clock runs on, warns or folds out
  of turn, until the next clock is started. A message that waits with the
  timers lets a move, a departure or a late `dealTimer` overtake a DING; two
  streets let a seat have the turn again.
* **seats**: with one socket per user, nobody has two seats (`OneSeatEach`),
  whoever has a seat is at the table or has a call waiting that takes him from
  it (`SeatedIsPresent`), and a table deletes itself without a stack on it
  (`DeletedWithoutStacks`). Two calls can wait, which is what it takes for a
  `sitDown` to be overtaken by a `leave`.
* **seats_waiting**: an offered seat is free and offered once
  (`ReservedIsFree`), an offer cannot be forgotten (`ReservationExpires`),
  nobody drops out of the list without an offer (`NobodyIsSkipped`), and a user
  who waits while a seat is on offer gets his turn (`WaiterAdvances`). Two
  entries let a user be on the list twice, two calls of `bootReserved` for one
  seat let one withdraw the offer the other made.
* **seats_away**: a seat without a socket has a timer or a call of `eject`
  (`AwayIsEjected`), when sockets of one user follow each other and another user
  wants the seat, and it is emptied or taken back (`AwayEnds`).
* **clubmoney**: what memory holds against a member is what he has at his
  tables (`StakesAreCounted`), what is booked in his row is what he has at the
  tables less what he has brought there, so that each hand is booked once
  (`HandsAreBooked`), and he has no more at stake than his limit (`LimitHolds`),
  over two tables, a restart and a reset of his balance. The history variable
  `slips` names what breaks the second and the third in this code, so that
  everything else that could break them would show: a check that has read a
  balance about to change (`"raced"`), one that is not made (`"returned"`), a
  reset (`"reset"`), chips counted in nobody's name (`"uncounted"`), and a restart
  that books a hand twice, brings a member back, leaves out bets that are not
  counted, or loses chips or a bet that the row of the table does not have
  (`"twice"`, `"revived"`, `"forgot"`, `"unsaved"`, `"unbet"`). Only the four that
  undo something excuse the second property (`Undone`). A limit of two with
  buy-ins of one and two is reached by either and passed by both.
* **tournament**: a whole tournament of five players at two tables of three
  seats. No report waits for the lock of a table (`NobodyIsWaitedFor`); the place
  of a player who is out is final (`PlacesStand`); the winner has all the chips
  and sits where the code looks for him (`WinnerHasAll`); an idle table with two
  players plays on, or loses them (`TablesPlayOn`). Five players are the fewest
  that need two tables of three and can be brought to one by moves of one
  and of two players; the other table may be in a hand, over, or locked by
  somebody else (`MaxOthers`). At this size a move that is not forced is
  tried and never made: that takes seven players at tables of four. Nor is a
  table left with three players once it is to be taken apart, so a player is
  not moved away from a hand that goes on.
* **tournament_stall**: a violation, see below.
* **handeval**: every hand of five and seven cards of a deck with six ranks, and
  every Omaha hand on two boards, is evaluated as the best five cards
  (`DagIsBest`, `MasksAreBest`, `OmahaIsBest`). Six ranks are the fewest with two
  straights and the one below the lowest card, and seven cards of them make every type of
  hand, three pairs, two triples, a straight with a pair, and a straight inside a
  flush. Suits are tried up to their names, and flushes in each suit.

Bounds: `MaxHands`, `MaxAddOns`, `MaxLeavers`, `MaxBuyIns`, `MaxRestarts` and
`MaxResets` are guards of the actions they name; `FewSlips` of `MCClubMoney`
leaves out what follows a third kind of slip and, once `MaxBuyIns` is reached,
a second (one slip is enough to need each exception); `MaxRake` bounds the rake of a
pot, `MaxBet` and `MaxRounds` are those of `Rounds`. The bets tried in `Betting`
are a call, all in, a check and `BetSizes`. `MaxCalls` bounds the calls that
messages and `idleUnstick` may add to the queue of `TableSeats`, `MaxQueue` the
messages in that of `TurnClock`; timers and the ends of sockets always
get in. `MaxWaiting` bounds the waiting list, `MaxBoots` the calls of
`bootReserved` that `tableSitClose` may add for a seat, `MaxConns` the sockets of
a user. Deadlock is not checked where the system stops: when the hands allowed
are over, the tournament has its winner, the process has ended, or, in `rwlock`,
all callers have had the lock or given up; that nobody waits for ever there is
`EveryCallIsServed`.

**Fairness.** `RWLock!FairSpec`: a holder releases in the end, which the
header of `lock.js` asks of its users. `Betting!FairSpec`: the holder of the
lock goes on (its callbacks are called by the event loop), the clock of the
seat that has the turn runs out, and the timer behind `doWin` fires. No player
has to do anything: moves, add-ons and departures are not fair.
`TurnClock!FairSpec` says what is behind that clock: time passes, a handler that
has the lock goes on, and a timer that is due fires. The last is strong
fairness: handlers keep it from firing while they run, and the event loop looks
at its timers between any two of them. The timers that deal need not fire. `TableSeats!FairSpec`: the lock goes to
the first call that waits and its holder goes on (`Locked`), and the timers of
offers and of `eject` fire. Messages, logins and `idleUnstick` are not fair.
`Tournament!FairSpec`: who has a lock goes on (`Held`, `Decides`), timers fire, and
a hand ends, which is what `HandEnds` and `TurnEnds` are about.

### What the models show to go wrong

The first is the run `tournament_stall`. The others were met while modelling:
values of `failed` or `slips` that a model reaches, or properties that fail when
the exception they name is taken away.

* **A tournament that never ends** (tournament.js:581). game.js:1871 says of a table
  with one player left "merge tables or declare winner, handled in handOver
  below". If the last hands of two tables end at about the same time, so that
  neither has moved its player yet, each report marks its
  own table with `clearOut` and finds no table to move its player to, since
  `findEmptyTable` skips tables that are locked, and for ever those with
  `clearOut`, which nothing resets. Each `rerebalance` finds the same. Four
  players at two tables of two are enough.
* lock.js:126-128 promises of a call that times out that "this request is
  canceled"; it stays in the queue, where it is polled, does nothing, and blocks
  everybody behind it. No caller passes a timeout today.
* A pot with a value and no member (game.js:1522-1523, "safety"): one way is that
  the dealer folds to a big blind that is all in, and that seat then stands up.
  Two more need nobody to leave. "If all but 1 have gone all-in" (game.js:2025),
  the last seat that can bet is passed over when it need not call, but only when
  one, two or three others are all in ("FIXME, improve logic for more players",
  game.js:2017-2020). With four it gets the turn and may fold, or is folded by
  its clock; if its bet was the highest, its layer has nobody in it, and the
  assertion ends the process: `Betting` with `N = 6`, stacks of one and three
  big blinds and a fold by the last seat reaches `failed = "potWithoutMembers"`.
  And five seats do when both blinds are all in by less than a big blind, and
  two newcomers, who post one each (game.js:696-702), fold it before the dealer
  does: what they have paid beyond the blinds is a layer with nobody in it
  (`N = 5`, stacks of half a big blind and of two). `betting` has three seats,
  where neither can happen and `NoAssertionFails` holds. That these two are all
  that does it is `AssertionsHold` (section 4).
* `bootReserved` (game.js:2388) keeps the lock when the offer it came for is gone,
  since the user sat down, or declined twice, while it waited; lock.js:137 asks
  every user of the lock to release it.
* The assertion of DING (game.js:2571) fails when a move has overtaken it and
  another clock runs: the process ends (`TurnClock`, `failed`).
* The `dealTimer` of `scTablePlayNow` (game_network.js:389-397) is not cleared when
  a reconnect deals first (game.js:2873-2875), and calls `stateMachine` in the
  middle of the hand: `finish` moves `current_seat` on (game.js:1821), and nobody
  starts a clock. The clock of the seat that had the turn runs on; its DING folds
  that seat out of turn (game.js:2588-2591), or warns and leaves the turn without
  a clock (game.js:2575-2579). With two in the hand and one of them all in,
  `finish` and `stateMachine` may call each other for ever (game.js:1838-1840). If the
  hand ends so, the clock runs on into the next one, and DING may find its seat
  emptied. (`TurnClock`, `moved` and `failed`.)
* `eject` and the kick of a club stop the clock of whoever has the turn, and
  start none: nobody times him out (`TurnClock`, `stopped`).
* Two buy-ins at two tables pass the check of the limit before either counts
  (game.js:385-417), and one that comes between the two halves of a result reads a
  balance that is about to change (`slips`: `"raced"`).
* A member who brings back exactly what he left a table with is not checked
  against his limit at all (game.js:402, `"returned"`).
* `finish2` counts a buy-in for `conn.userid`, which it reads after two answers of
  the database (game.js:333, 323, 317); `AddOn` after one (game.js:288). A second
  login or a lost socket has cleared it by then (user.js:331-334): the chips are on
  the table and counted to nobody (`ClubMoney!BuyIn`, `"uncounted"`).
* `Club.balance` has no number of a member before his first buy-in that is
  counted to him (club.js:311): a result before that is NaN, is not counted, and
  the next buy-in starts anew (`"uncounted"`); so does a cash-out (`drift`).
* Add-ons save nothing, a fold saves no members (game.js:890): a restart before
  the next save takes the chips back (`"unsaved"`). `moveToPot` saves the bets as
  gone before `balance_changes` has them (game.js:1556): a restart then loses
  the bet (`"unbet"`).
* A restart during a hand: its bets are in nobody's balance any more (`drift`);
  between booking and saving, the hand is booked and played again (`"twice"`);
  after a cash-out that was not saved, the member is bought in again
  (`"revived"`). The second flop is restored from `slice(4,6)` (game.js:2750),
  which are two cards of three.
* In `Betting` with a leaver: the uncalled part of his bet is returned to a seat
  that nobody has any more; `standUp` puts his bet into `pots[0]` whatever the
  layers are; it counts `keycount` down even for a member who was not counted;
  `postWinSaveStats` reads the user of an emptied seat (`failed =
  "lossOfNobody"`); and with `ranOut` set, `finish` calls `stateMachine` for ever
  when two seats are left and one of them has a bet to answer
  (game.js:1838-1840).
* A member whom the blind has put all in gets the turn when he is next after
  the big blind, and his clock may fold him. `AllInStaysIn` and
  `EverybodyActs` name this exception.
* The two halves of an odd pot are both rounded (game.js:1080): a chip too
  many or too few. `PayoutWithinRounding` bounds it.
* The waiting list takes users while seats are free, and offers them none until
  somebody stands up; "check that all seats are filled" (game.js:352) is not done.
* The timer of `eject` is not cleared by `standUp`: it then finds an empty seat
  and ends the process (`"ejectOfNobody"`), or stands up the next user of it.
* A login resumes a seat that `eject` has emptied meanwhile
  (`"resumeOfNobody"`), or that somebody else has got; it reads a member that
  `standUp` has nulled (`"scanOfLeaver"`).
* `getTableStatus` asserts on a socket that has logged out while its call waited
  (`"joinOfNobody"`, `"statusForNobody"`); `kick` looks for a seat that is gone
  (`"kickOfNobody"`), `idleUnstick` for one it has emptied itself
  (`"unstickOfNobody"`).
* A login that looks for its tables before the old socket is marked as gone is
  put at the table without its seat: the user may take a second one, and the
  first is emptied by `eject`. `OneSeatEach` and `SeatedIsPresent` are therefore
  checked with one socket per user.
* A logout takes the user out of `activeUsers` when it has had the lock of the
  table, whoever has logged in since (user.js:510-513, user.js:322): two sockets
  may then be in the lobby as one user, and the server tells him nothing
  (`ServerSession!late`; `OneSession` does not hold without it).
* A member who leaves and logs out at once may be cashed out to nobody: `standUp`
  reads the user of the socket when it has the lock and after that
  (game.js:2279, 2355), and what he had stays counted (`ClubMoney!StandUp`,
  `drift`).
* A logout from the waiting list is never completed: `leave` returns without its
  callback. A user who reconnects cannot leave the waiting list.
* The loop over the ranks (tournament.js:323-336) goes by positions while it moves
  players: one who takes the place of a player that moved down is compared with
  part of the seats only, so that his chips are put right a hand later.
  `PlacesStand` and `WinnerHasAll` hold all the same.
* tournament.js:285 asks `counts[x] > 0` of an object: no table but the last is
  ever marked as the final one. tournament.js:685 and 742 return with the
  `commonLock` held when a tournament is not open any more.
* `classes[7462]` (dag/handevaluator.c:9) is filled from 1 on, one place past its
  end for the last line of `eqcllist`.

## 4. Proofs

For every value of the constants that their assumptions admit.

* **`RWLockProofs`** — any finite number of callers, with or without timeouts.
  `LockIsTyped`, `LockExcludes`, `LockIsFirstComeFirstServed`,
  `NoWakeupIsLost`, and `LockImplementsIdealLock`, the refinement. The inductive
  invariant adds to `Exclusion` that the queue has no caller twice and holds just
  the callers that wait or have timed out. `PollStep` says once and for all
  what a poll of the queue keeps; both releases use it.
* **`BettingProofs`** — any number of seats, any blinds, stacks, bets, rakes,
  hands, add-ons and leavers. `BettingIsTyped`: no stack, bet or pot
  becomes negative, dealer and turn are seats. `TurnIsInHand`
  (`SomebodyToAct`): whoever leaves or folds, the turn is with a seat in the
  hand that has an opponent. `BooksAgree` (`BookedIsPlayed`): what
  `postWinSaveStats` will book is what the hand has done to the stack.
  `BookedIsPlayed` is not inductive: a seat that sits out is not booked, so it
  must have no bet and be in no pot (`BetsArePlayed`, `MembersArePlayed`); it can
  sit out only between hands, when there are no bets and no claims (`Resting`);
  and only a seat in the hand may bet, which is the seat that has the turn
  (`TurnInHand`), for which two seats must be left (`TwoInHand`). `Control` says
  which `pc` goes with which street. There is one lemma per action, and
  `Invariance` puts them together. Lemmas about `SidePots` come first: a pass, a
  join or a return of `moveToPot` keeps types, and keeps, for each seat with a
  member, stack plus bet less what is booked (`MoveStepKeeps`).
  With `HInv`, which says who may claim what and what the turn finds:
  `ClaimsAreOfTheLiving` (`PotsOfTheLiving`), as a folded seat becomes a member
  of a pot only where nobody else pays into it; a pass of `moveToPot` makes at
  most one such pot, and the loop that gives uncalled bets back has not passed
  it, since the pot it skips has more payers. And `AllInIsNotFolded`
  (`AllInStaysIn`): an all-in seat has no chips unless an uncalled bet came back
  to it, and then nobody can play any more, so that `finish` gives the turn to no
  seat that is all in. Blinds that put a seat all in at the deal are the
  exception the invariant names.
* **`BettingProofs`, the pots of `Rounds`** — any number of seats, rounds and
  bets. `MoveToPotBooks` (`BooksAreRight`), `SidePotsAreFair` (`SidePotRules`),
  `UncalledIsReturned` (`NothingUncalled`) and `MoveToPotDoesNotFail`. What the
  pots hold can be told from what each seat has paid (`Paid`), at every step
  of `moveToPot`: the pots are worth what has been paid (`PotsArePaid`), and what
  a seat in the hand may claim of them is what it has paid itself, matched by each
  other seat as far as that one has paid (`FairClaims`). `Ledger` adds what keeps
  these two: a seat with more left of its bet has paid no less
  (`HighBetsPaidMore`), so that a pass takes the same from all that have paid the
  most; and only the last pot can be one that a single seat has paid
  (`SoleIsLast`), which nobody else has matched, so that it goes back whole. The
  assertions hold since a seat that has put in the most is in the hand and
  becomes a member of every pot (`Leaders`).
* **`BettingProofs`, the law of the pots in a hand** — `SidePotsKeepTheLaw`
  (`SidePotLaw`): the same ledger over the steps of the engine, where a round is
  what the turns make it. `LInv` adds that nobody has paid more, up to this
  street, than a seat that can bet or has bet in it (`BettorsLead`): such a seat
  was in the hand when the last street ended. A round may leave no seat with
  the highest bet in the hand (section 3): while the bets are
  moved, the one exception is a seat that has folded, and what it has paid more
  is in a pot of its own, which goes back to it (`PlayersLead`).
* **`BettingProofs`, the payout** — `PayoutIsRounded` (`PayoutWithinRounding`):
  `moveToPot` asserts that a pot with chips has a member (`Checked`), so each has
  a winner on either board (`SomebodyWins`); `BettingAssumption` makes shares
  even (`SharedOut`), whatever set of seats wins; and the two halves of a pot are
  each off by at most half a chip (`HalfIsNear`).
* **`BettingProofs`, the turns** — `NobodyIsPassedOver` (`EverybodyActs`): no
  street ends before each seat that can still bet has acted in it. `keycount`
  counts turns, whoever takes them; `ActsInv` says what it counts: it never falls
  short of the seats that owe a turn (`KeysSuffice`), those owe it that come next
  round the table (`TurnsInOrder`, with `After` as the distance), and a seat
  without chips that `finish` passes over is all in (`PassedIsAllIn`). The
  exception is a seat that its blind has put all in and that has the first turn
  of the hand: it is counted, and owes none.
* **`HandProofs`, the chips** — `ChipsAreConserved` (`Conserved`): over a
  whole hand with its side pots, returned bets, leavers and rakes, only the
  rounding of a pot makes chips, and none is lost as long as nobody has stood up.
  For each step it is shown from where to where chips go (`SeatSumChange`,
  `InPotsChange`, `ChipsMoveOn`). What must be known of the pots is little:
  there is always an open one to put a bet in, which is not joined with one
  that holds chips (`OpenPot`), and nothing is left in them between two hands,
  when `deal` starts with a new one (`EmptyAtRest`). That a pot which is given
  back or paid has somebody to take it comes from the law of the pots
  (`SoleIsLast`, `Checked`); with a leaver it may not, and chips are lost.
* **`HandProofs`, the assertions** — any table, bets, raises, folds and
  add-ons, in a hand that nobody leaves. `OtherAssertionsHold`: of the assertions
  of `deal`, `fold`, `finish`, `moveToPot`, `doWin` and `postWinSaveStats`, only
  the one of `moveToPot` that a pot with chips has a member can fail.
  That `deal` finds the two players `stateMachine` has counted is
  `TwoAreDealtIn`; that somebody is left to win, and that a booked loss has a
  user, follows from who may have anything in the pots (`PaidIn`, `AbsentEven`).
  `AssertionsHold`: nor does that one (`NoAssertionFails`) as long as no blind
  has put a seat all in (`Short`) and fewer than four seats are all in; section 3
  has a failure for each condition that is dropped. The invariant `LeadInv` is
  about what the bets of a whole hand have come to: one seat in the hand has
  paid as much as anybody, and whoever has bet less in this street and can bet
  has the turn before it (`SomebodyLeads`), so that a seat that leads is asked
  for nothing until all others have answered. It could fold then, and that is
  what the second part is for: when it is the only one that can bet and the
  others in the hand are all in, `stateMachine` passes it over, and a seat that
  can bet gets the turn alone only to call (`NotAlone`). `moveToPot` then
  finds a member for each layer.
* **`HandProofs`, the end of a hand** — what liveness needs besides fairness.
  `MoveToPotRunsOut`: each turn of `moveToPot`'s loops leaves fewer of them to go
  (`MovesLeft`: a pass uses up the bets of a seat at least and makes one pot, and
  each pot costs the other two loops a turn at most). `HandsRunOut`
  (`HandRunsOut`): as long as nobody leaves a hand, each of its steps shortens
  what is left of it, `Remaining`, five natural numbers (`RemainingIsNatural`)
  compared from the first to the last: the stage the hand is in; the chips of
  the seats that can bet and the number of seats in the hand; the seats that
  `keycount` says have to act; how far the turn is from the nearest seat that is
  awaited; the calls until the handler is done. Only members who take no part
  in the hand, and sit out, come back or buy chips, leave it as long as it was.
  The hard step is `finish`, which calls `stateMachine` again when it passes over a
  seat: that there is always a seat it is on the way to (`SomebodyAwaited`), and
  that it passes over no seat with chips (`NoneSkipped`). The code would
  (`ranOut` and two seats left) if the other one were all in for more than the
  seat has bet, and would go round between the two for ever, which is what
  happens when a member has left (section 3). `CoverInv` excludes it: a seat
  that is all in is passed over when all have answered its bet, or when another
  seat covers it that is all in as well or that those who have bet less come
  before; a seat that folds has been answered itself.
* **`ClubMoneyProofs`** — any finite number of tables, any limit, any number of
  buy-ins, add-ons, hands, leaves, restarts and resets. `MoneyIsTyped`,
  `StakesCounted` (`StakesAreCounted`), `HandsBooked` (`HandsAreBooked`) and
  `LimitIsKept` (`LimitHolds`). A step of a table leaves the others alone
  (`OnlyAt`) and changes its own summands as it changes the books (`Balanced`,
  `Limited`); `Restart` changes all of them at once. The limit is checked on the
  books, and what is at risk is another sum: `BooksWithinLimit` is the invariant,
  with what each call under way is about to add to the books (`Pending`), and
  it bounds what is at risk because no drift is in the member's favour as long
  as there is no slip (`NothingForgotten`). That needs the rows of the tables:
  what a row has of his stack he has there, unless a cash-out has not been saved
  or a result is booked (`SavedIsHeld`, `CashOutIsSaved`). That a restart neither
  repeats nor loses a hand needs more of them: a row agrees with its table seat
  by seat, bet by bet and chip by chip whenever no call is under way, or lacks
  what `gap` says (`InRow`), so that what is restored is what is held, with the
  hand that is being booked (`NothingIsUndone`).
* **`TableSeatsProofs`** — any finite set of users, any seats, sockets and
  bounds. `OfferedSeatsAreFree` (`ReservedIsFree`), `OffersExpire`
  (`ReservationExpires`) and `AbsenceIsTimed` (`AwayIsEjected`). None is
  inductive: that `standUp` may offer its seat needs that the seat has been
  taken all the while and so has no offer (`StandingUp`), and the offers need
  each other. `IInv` joins them with the types. `QuietKeeps`, `BeginKeeps`,
  `BootCalled`, `OfferKeeps`, `TakenKeeps` and `SocketKeeps` say once what the
  steps have in common; one lemma per action uses them. `TableIsTyped` (`TypeOK`)
  adds the type of `reconnect`; what `Spliced` keeps of a list is proved from its
  recursion (`SplicingEnds`, `SplicedKeeps`). `WaitersAreNotSkipped`
  (`NobodyIsSkipped`): a handler that shortens the waiting list takes its first
  and offers him the seat, or takes the socket it was called for.
* **`TableSeatsProofs`, for one socket per user** (`OneSocketEach`, as in the run
  `seats`; with two logins `NobodyHasTwoSeats` is false, section 3) —
  `NobodyHasTwoSeats` (`OneSeatEach`), `NobodySitsAway` (`SeatedIsPresent`) and
  `NoStackIsLost` (`DeletedWithoutStacks`). None is inductive. A seat has the
  socket of its user, or that socket is gone (`OwnSeat`), so that who may sit down
  has no seat under another socket; the sockets for which `away` and `eject` are
  called are gone, and the latter have no seat (`AwayIsGone`, `EjectedIsGone`);
  the socket that `standUp` empties a seat for has no other (`HolderHasNoOther`).
  When a table deletes itself, nobody is in `users`, so that those with a
  socket are leaving; and nobody is in `reconnect`, so that no seat is without a
  socket: its user is in `reconnect` until `eject` empties that seat
  (`AwayIsListed`). `eject` takes the user of a socket from the list and stands up
  whoever has the seat; that these are the same needs `EjectsFromSeat`.
* **`ClockSessionProofs`, the clock** — any finite number of seats, any number of
  streets and waiting calls. `ClockFollowsTurn` (`ClockIsOfTheTurn`),
  `DingForcesTheTurn` (`ForcedInTurn`), which the assertion of DING and the first
  of these give together (`DingOnTurn`), and `TurnHasAClock` (`TurnIsTimed`). The
  last speaks of a free lock only; its invariant `TimedOrStarting` says the same of
  a lock that is held by a callback which starts no clock. All three allow for a
  late `dealTimer` (`moved`), from the step that moves the turn to the next clock
  that is started.
* **`ClockSessionProofs`, the sessions** — any set of sockets, clients that send anything, sockets
  and a process that end at any time. `UserIsKnownByHisSocket`
  (`RegisteredIsLoggedIn`) and `SessionIsAlone` (`OneSession`): until a logout is
  late, an open socket in the lobby is the one the server knows the user by. The
  invariant adds that an open socket has the userid just when it is in the lobby,
  and that a logout that waits on a socket with the userid is the session's own
  (`LogoutIsOurs`): it is what the late logout breaks. `LosesKeeps` does a
  logout, its end behind the lock, and the end of a socket in one.
* **`TournamentProofs`** — any number of players, tables and seats.
  `MovesNeverWait` (`NobodyIsWaitedFor`): whoever holds the lock of the tournament
  never waits for that of a table. That `findEmptyTable` saw the table free is
  not enough; `LocksAreOrdered` says that only the first report of the
  tournament's queue makes moves, that every report is the first of its own
  table's queue, and that the mover's call is the first of the other table's.
  `ChoosesKeeps` and `ReleaseKeepsLocks` are the two ways in which these change.
* **`TournamentProofs`, the records** — `WinnerIsRight` (`WinnerHasAll`) and
  `PlacesAreFinal` (`PlacesStand`), from `RecordsAreRight`. The tournament learns
  of stacks only from the reports, one table at a time, while others play on. So
  the invariant says what a report that waits or runs means: no hand is played
  at a table that has one coming, the first report of a hand precedes those of
  `rerebalance` (`Quiet`), a player without chips who still sits, or is queued,
  has a report of his table behind him (`TableAt`), and who is gone with no
  place yet is queued (`PlayerAt`). The two loops of `handOver` then keep the
  order of the ranks: who is out moves behind everybody with chips and ahead of
  those who went before (`BustedRecord`), and no stack that is put right crosses a
  place that is final (`RecordedRecord`). A winner is declared only when nobody
  else has chips (`Books`, with the total).

The assumptions are those of the modules: `NAssumption` (two seats or more),
`BettingAssumption` (blinds in order, a chip that splits evenly among the
seats, stacks that are positive), `ClientsAssumption` (finitely many
callers, none both reader and writer), `ClockAssumption` and `SeatsAssumption`
(finitely many seats or users, a seat at least), `MarkersAssumption` (the model
values that mark an empty seat and a free lock are no seats and no holders) and
`TournamentAssumption` (as many tables as the players need); `Distinct` of
`ClockSessionProofs` says that the mark for "no socket" is no socket. TLC evaluates them in
the runs of their modules.

**Sums.** Much of this is about sums over seats, pots or tables, which
`SumFunction` of the community modules computes with a fold. What is needed of
them (a sum changes as its summands do, is taken apart and joined, is bounded by
another) is proved in `Numbers` by induction over the subsets of a finite set.
The library's induction theorems take an operator as a parameter; `SubsetsAll`
says the same of a family of sets, which the provers can instantiate.

**Only model-checked.** Liveness (`EveryCallIsServed`, `HandEnds`, `Ends`,
`TurnEnds`, `AwayEnds`, `WaiterAdvances`, `TablesPlayOn`), which needs ENABLED.
(Of `Ends` and `HandEnds` what remains is that fairness takes the next step: that
there is one, and that the call is not put off for ever. That there are only
finitely many is proved.)
The evaluators (`DagIsBest`, `MasksAreBest`, `OmahaIsBest`), whose definitions
recurse over ranks. `NoAssertionFails` without the two conditions of
`AssertionsHold`: it is false for larger tables (section 3), and `betting`
checks it where it holds.

## 5. Plan

The lock, the pots, a hand, the clock, the seats, the money of a member, the
tables of a tournament and the evaluators are done. What would come next:

1. `Dealing` over several hands, with members who come, sit out and go offline
   in between: the assertion of `deal`, and how long a member waits for the blinds.
2. Tournaments with players who are offline, with levels and breaks, and tables
   large enough for the moves that are not forced.
3. Closing tables (`doClose`, `close`, `doDelete`), and the suspension of clubs.
4. A refinement of `Betting` by a simpler game, in which a hand is one step, for
   `TurnClock`, `ClubMoney` and `Tournament`, which assume such a one each.

## 6. Not modelled

Web pages, billing, mail, installers and the schemas of the database: input and
output with no protocol of their own. The master process restarts the server,
which `ClubMoney!Restart` stands for. The Delphi and Qt clients are user
interface: they show the last status of a table and send a message per button,
and what they vendor (a crash reporter, protocol buffers) is not part of the
system's logic; they are most of the repository's C and C++ lines. The server
is JavaScript, but for the evaluators of hands. Of these, `enumerate.c` repeats
the evaluation over the boards that can still come, and the tables for low hands
and jokers serve games that the server does not offer. Shuffling is a source of
chance. Tests and tools were read for what they expect of the program. The rest
of the list is in `PROJECT.json` under `components`.
