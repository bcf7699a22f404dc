----------------------------- MODULE TableSeats -----------------------------
(***************************************************************************)
(* Who sits where at one cash table of a club, across connections:         *)
(* sitDown, standUp, the waiting list with its reservations, leave,        *)
(* handleDisconnect, eject and reconnectUser of src/server/game.js, called *)
(* by the messages of game_network.js, by sockets that open and close      *)
(* (user.js), by the owner's kick (club.js) and by timers.                 *)
(*                                                                         *)
(* Each of them asks for the table's write lock, most of them after they   *)
(* have changed or read something without it; what they captured then they *)
(* use when the lock is theirs.  `calls` is the queue of the lock and an   *)
(* action Grant* is what a handler does once it has it.  standUp takes two *)
(* steps, since it nulls members[x] long before seats[x].  Stacks, limits  *)
(* and the hand being played are left out: a buy-in may be refused, and    *)
(* any members may be the ones that idleUnstick finds out of play.         *)
(***************************************************************************)
EXTENDS Integers, Sequences, FiniteSets, SequencesExt

CONSTANTS
    Users,
    NSeats,     \* obj.seats
    Returning,  \* the users who log in more than once
    MaxConns,   \* how often they do
    MaxCalls,   \* messages are sent only while fewer calls than this wait
    MaxWaiting, \* length of the waiting list
    MaxBoots,   \* calls of bootReserved that one seat can have coming
    Empty,      \* seats[x] is null
    Free,       \* nobody has the lock
    Leaked      \* a handler has returned without calling release

ASSUME SeatsAssumption ==
    /\ IsFiniteSet(Users) /\ Returning \subseteq Users
    /\ NSeats \in Nat \ {0}
    /\ MaxConns \in Nat \ {0}
    /\ {MaxCalls, MaxWaiting, MaxBoots} \subseteq Nat

Seats == 0 .. NSeats - 1

\* The ClientSockets, in order per user
Conns == {c \in Users \X (1 .. MaxConns) : c[2] = 1 \/ c[1] \in Returning}

NoConn == <<>>
NoSeat == -1
\* What waits for the lock: the handlers of a socket, those that name a seat
\* besides, and those of the table
Call == [op : {"join", "stand", "leave", "logout", "away", "kick"},
         conn : Conns, seat : {NoSeat}]
        \cup [op : {"sit", "resume"}, conn : Conns, seat : Seats \cup {NoSeat}]
        \cup [op : {"eject"}, conn : Conns, seat : Seats]
        \cup [op : {"boot"}, conn : {NoConn}, seat : Seats]
        \cup [op : {"unstick"}, conn : {NoConn}, seat : {NoSeat}]

SeatState == [user : Users, conn : Conns \cup {NoConn},
              timer : Conns \cup {NoConn}, member : BOOLEAN]
Reservation == [index : Seats, user : Users, timer : BOOLEAN]
StandUpState == [op : {"stand", "leave", "logout", "eject", "kick", "unstick"},
                 conn : Conns \cup {NoConn}, seat : Seats \cup {NoSeat},
                 todo : SUBSET Seats]

ASSUME MarkersAssumption ==
    /\ Empty \notin SeatState
    /\ Free \notin StandUpState /\ Leaked \notin StandUpState
    /\ Free # Leaked

VARIABLES
    conn,        \* state and userid of each socket: "none" is not open yet,
                 \* "in" logged in, "lost" closed with its userid, "cleared"
                 \* open or closed, with userid null
    scanning,    \* logins that have yet to look for their tables
    users,       \* users[userid], the socket at the table, or NoConn
    reconnect,   \* reconnect[], the userids that may come back
    seats,       \* seats[x] with members[x]: user, conn (NoConn for the
                 \* fakeconn of a disconnected member), timer (the socket
                 \* whose loss set disconnectTimer) and member, which is
                 \* FALSE once standUp has nulled members[x]
    ejectTimers, \* running timers of eject: seat and socket lost
    sitQueue,    \* sitQueue[], each entry the userid object of a socket
    reserved,    \* reserved_seats[]; timer says that its timer runs
    bootTimers,  \* running timers whose reservation is gone, per seat
    calls,       \* handlers that wait for the lock
    holder,      \* Free, Leaked, or the standUp under way
    deleted,     \* the table has deleted itself
    failed       \* the exception that has ended the process

vars == <<conn, scanning, users, reconnect, seats, ejectTimers, sitQueue,
          reserved, bootTimers, calls, holder, deleted, failed>>

Init ==
    /\ conn = [c \in Conns |-> "none"]
    /\ scanning = {}
    /\ users = [u \in Users |-> NoConn]
    /\ reconnect = <<>>
    /\ seats = [s \in Seats |-> Empty]
    /\ ejectTimers = {}
    /\ sitQueue = <<>>
    /\ reserved = <<>>
    /\ bootTimers = [s \in Seats |-> 0]
    /\ calls = <<>>
    /\ holder = Free
    /\ deleted = FALSE
    /\ failed = ""

\* The process has not ended, and the table's lock can still be had: after
\* that no call is served, and the model goes no further.
Runs == failed = "" /\ holder # Leaked

FirstOf(S) == CHOOSE x \in S : \A y \in S : x <= y
LastOf(S) == CHOOSE x \in S : \A y \in S : x >= y

\* findSeat: the first seat of a socket
SeatsOf(c) == {s \in Seats : seats[s] # Empty /\ seats[s].conn = c}
FindSeat(c) == IF SeatsOf(c) = {} THEN NoSeat ELSE FirstOf(SeatsOf(c))

\* reserved_seats[x].index == s, for the first x
ReservationsOf(s) == {i \in DOMAIN reserved : reserved[i].index = s}

Waits(c) == \E i \in DOMAIN sitQueue : sitQueue[i] = c

\* the loops that splice an element out and step over the next one
Spliced(q, u) ==
    LET after[i \in 0 .. Len(q)] ==
            IF i = 0 THEN [kept |-> <<>>, over |-> FALSE]
            ELSE IF q[i] = u /\ ~after[i - 1].over
            THEN [kept |-> after[i - 1].kept, over |-> TRUE]
            ELSE [kept |-> Append(after[i - 1].kept, q[i]), over |-> FALSE]
    IN  after[Len(q)].kept

\* A handler of this kind waits for the lock, with this seat.
Pending(op, s) == \E k \in DOMAIN calls : calls[k].op = op /\ calls[k].seat = s

Ask(op, c, s) == calls' = Append(calls, [op |-> op, conn |-> c, seat |-> s])

-----------------------------------------------------------------------------
(* Sockets.  None of this waits for the lock.                              *)

\* Game.handleDisconnect, for any reason but a logout
Disconnect(c) ==
    IF users[c[1]] # NoConn /\ ~deleted
    THEN /\ users' = [users EXCEPT ![c[1]] = NoConn]
         /\ reconnect' = Append(reconnect, c[1])
         /\ Ask("away", c, NoSeat)
    ELSE UNCHANGED <<users, reconnect, calls>>

\* doLogin, finish3: an older socket of the user is ejected.  The tables of
\* the user are looked for later; a first login is taken to do so before the
\* user does anything else, and finds none.
Login(c) ==
    /\ Runs /\ conn[c] = "none"
    /\ \A n \in 1 .. c[2] - 1 : conn[<<c[1], n>>] # "none"
    /\ \/ \E old \in Conns :
            /\ old[1] = c[1] /\ conn[old] = "in"
            /\ Disconnect(old)
            /\ conn' = [conn EXCEPT ![c] = "in", ![old] = "cleared"]
       \/ /\ \A old \in Conns : old[1] = c[1] => conn[old] # "in"
          /\ conn' = [conn EXCEPT ![c] = "in"]
          /\ UNCHANGED <<users, reconnect, calls>>
    /\ scanning' = IF c[2] = 1 THEN scanning ELSE scanning \cup {c}
    /\ UNCHANGED <<seats, ejectTimers, sitQueue, reserved, bootTimers, holder,
                   deleted, failed>>

\* The seats that the scan of a login stops at: a seat of the user whose
\* member is marked as disconnected, or is null, which ends the process.
Resumable(u) == {s \in Seats : /\ seats[s] # Empty /\ seats[s].user = u
                               /\ seats[s].member => seats[s].conn = NoConn}

\* doLogin, behind getStatusPacket: the tables to be resumed are looked for
\* among the active ones, and reconnectUser is called for them.
Scan(c) ==
    LET u == c[1]
        s == FirstOf(Resumable(u))
        kept == Spliced(reconnect, u)
        resume == [op |-> "resume", conn |-> c, seat |-> NoSeat]
    IN  /\ Runs /\ c \in scanning
        /\ scanning' = scanning \ {c}
        /\ \/ /\ ~deleted /\ Resumable(u) # {} /\ seats[s].member
              /\ Ask("resume", c, s)
              /\ UNCHANGED <<reconnect, failed>>
           \/ /\ ~deleted /\ Resumable(u) # {} /\ ~seats[s].member
              /\ failed' = "scanOfLeaver"
              /\ UNCHANGED <<reconnect, calls>>
           \/ /\ ~deleted /\ Resumable(u) = {}
              /\ reconnect' = kept
              /\ \E n \in 0 .. Len(reconnect) :
                    /\ n = Len(reconnect) - Len(kept)
                    /\ calls' = calls \o [i \in 1 .. n |-> resume]
              /\ UNCHANGED failed
           \/ deleted /\ UNCHANGED <<reconnect, calls, failed>>
        /\ UNCHANGED <<conn, users, seats, ejectTimers, sitQueue, reserved,
                       bootTimers, holder, deleted>>

\* The socket ends ("lost") or fails ("cleared", by logout).
Drop(c, how) ==
    /\ Runs /\ conn[c] = "in"
    /\ Disconnect(c)
    /\ conn' = [conn EXCEPT ![c] = how]
    /\ UNCHANGED <<scanning, seats, ejectTimers, sitQueue, reserved,
                   bootTimers, holder, deleted, failed>>

\* scLogout: leave, with logout as its callback, when the user is at the table
Logout(c) ==
    /\ Runs /\ conn[c] = "in" /\ Len(calls) < MaxCalls
    /\ IF users[c[1]] # NoConn /\ ~deleted
       THEN /\ users' = [users EXCEPT ![c[1]] = NoConn]
            /\ Ask("logout", c, NoSeat)
            /\ UNCHANGED conn
       ELSE /\ conn' = [conn EXCEPT ![c] = "cleared"]
            /\ UNCHANGED <<users, calls>>
    /\ UNCHANGED <<scanning, reconnect, seats, ejectTimers, sitQueue, reserved,
                   bootTimers, holder, deleted, failed>>

-----------------------------------------------------------------------------
(* Messages and timers: they ask for the lock, and some act before.        *)

Message(c) ==
    /\ Runs /\ ~deleted /\ conn[c] = "in" /\ Len(calls) < MaxCalls

Join(c) ==
    /\ Message(c)
    /\ Ask("join", c, NoSeat)
    /\ UNCHANGED <<conn, scanning, users, reconnect, seats, ejectTimers,
                   sitQueue, reserved, bootTimers, holder, deleted, failed>>

\* scTableSit; NoSeat is the seat_index -1 that asks for the waiting list
Sit(c, s) ==
    /\ Message(c)
    /\ s = NoSeat => Len(sitQueue) + Cardinality({i \in DOMAIN calls :
                         /\ calls[i].op = "sit" /\ calls[i].seat = NoSeat})
                     < MaxWaiting
    /\ Ask("sit", c, s)
    /\ UNCHANGED <<conn, scanning, users, reconnect, seats, ejectTimers,
                   sitQueue, reserved, bootTimers, holder, deleted, failed>>

StandUp(c) ==
    /\ Message(c)
    /\ Ask("stand", c, NoSeat)
    /\ UNCHANGED <<conn, scanning, users, reconnect, seats, ejectTimers,
                   sitQueue, reserved, bootTimers, holder, deleted, failed>>

\* scTableLeave: leave deletes the user before it asks for the lock
Leave(c) ==
    /\ Message(c) /\ users[c[1]] # NoConn
    /\ users' = [users EXCEPT ![c[1]] = NoConn]
    /\ Ask("leave", c, NoSeat)
    /\ UNCHANGED <<conn, scanning, reconnect, seats, ejectTimers, sitQueue,
                   reserved, bootTimers, holder, deleted, failed>>

\* Calls of bootReserved for a seat that wait or have their timer running
BootsComing(s) ==
    bootTimers[s] + Cardinality({i \in DOMAIN calls :
                        calls[i].op = "boot" /\ calls[i].seat = s})

\* Mutant of TableSitClose: only the timer is cleared
TableSitCloseOnly(c) ==
    LET mine == {i \in DOMAIN reserved : reserved[i].user = c[1]}
        i == FirstOf(mine)
    IN  /\ Runs /\ ~deleted /\ conn[c] = "in" /\ mine # {}
        /\ BootsComing(reserved[i].index) < MaxBoots
        /\ reserved' = [reserved EXCEPT ![i].timer = FALSE]
        /\ UNCHANGED <<conn, scanning, users, reconnect, seats, ejectTimers,
                       sitQueue, bootTimers, calls, holder, deleted, failed>>

\* tableSitClose, for a user who has been offered a seat
TableSitClose(c) ==
    LET mine == {i \in DOMAIN reserved : reserved[i].user = c[1]}
        i == FirstOf(mine)
    IN  /\ Runs /\ ~deleted /\ conn[c] = "in" /\ mine # {}
        /\ BootsComing(reserved[i].index) < MaxBoots
        /\ reserved' = [reserved EXCEPT ![i].timer = FALSE]
        /\ Ask("boot", NoConn, reserved[i].index)
        /\ UNCHANGED <<conn, scanning, users, reconnect, seats, ejectTimers,
                       sitQueue, bootTimers, holder, deleted, failed>>

\* The owner kicks the user of an active socket, in a seat that is looked for
\* before the lock is asked for.
Kick(c) ==
    /\ Runs /\ ~deleted /\ Len(calls) < MaxCalls
    /\ conn[c] # "none" /\ FindSeat(c) # NoSeat
    /\ Ask("kick", c, NoSeat)
    /\ UNCHANGED <<conn, scanning, users, reconnect, seats, ejectTimers,
                   sitQueue, reserved, bootTimers, holder, deleted, failed>>

\* idleUnstickTimer
UnstickFires ==
    /\ Runs /\ Len(calls) < MaxCalls
    /\ \A i \in DOMAIN calls : calls[i].op # "unstick"
    /\ Ask("unstick", NoConn, NoSeat)
    /\ UNCHANGED <<conn, scanning, users, reconnect, seats, ejectTimers,
                   sitQueue, reserved, bootTimers, holder, deleted, failed>>

\* The minute of a reservation is over, or that of one which is gone.
BootFires(s) ==
    /\ Runs
    /\ \/ \E i \in ReservationsOf(s) :
            /\ reserved[i].timer
            /\ reserved' = [reserved EXCEPT ![i].timer = FALSE]
            /\ UNCHANGED bootTimers
       \/ /\ bootTimers[s] > 0
          /\ bootTimers' = [bootTimers EXCEPT ![s] = @ - 1]
          /\ UNCHANGED reserved
    /\ Ask("boot", NoConn, s)
    /\ UNCHANGED <<conn, scanning, users, reconnect, seats, ejectTimers,
                   sitQueue, holder, deleted, failed>>

\* Five minutes after the socket c was found lost at seat s
EjectFires(s, c) ==
    /\ Runs /\ <<s, c>> \in ejectTimers
    /\ ejectTimers' = ejectTimers \ {<<s, c>>}
    /\ Ask("eject", c, s)
    /\ UNCHANGED <<conn, scanning, users, reconnect, seats, sitQueue, reserved,
                   bootTimers, holder, deleted, failed>>

-----------------------------------------------------------------------------
(* Under the lock.                                                         *)

Granted(op) ==
    /\ Runs /\ holder = Free
    /\ calls # <<>> /\ Head(calls).op = op
    /\ calls' = Tail(calls)

\* The handler dereferences null.
Fail(why) ==
    /\ failed' = why
    /\ UNCHANGED <<conn, scanning, users, reconnect, seats, ejectTimers,
                   sitQueue, reserved, bootTimers, holder, deleted>>

\* The handler finds nothing to do.
Ignore ==
    UNCHANGED <<conn, scanning, users, reconnect, seats, ejectTimers,
                sitQueue, reserved, bootTimers, holder, deleted, failed>>

\* standUp as far as the null of members[s]; `todo` are the seats that
\* idleUnstick has yet to empty.
BeginStandUp(op, c, s, todo) ==
    /\ seats' = [seats EXCEPT ![s].member = FALSE]
    /\ holder' = [op |-> op, conn |-> c, seat |-> s, todo |-> todo]
    /\ UNCHANGED <<conn, scanning, users, reconnect, ejectTimers, sitQueue,
                   reserved, bootTimers, deleted, failed>>

GrantJoin ==
    LET c == Head(calls).conn
    IN  /\ Granted("join")
        /\ \/ conn[c] = "cleared" /\ Fail("joinOfNobody")
           \/ /\ conn[c] # "cleared"
              /\ users' = [users EXCEPT ![c[1]] = c]
              /\ UNCHANGED <<conn, scanning, reconnect, seats, ejectTimers,
                             sitQueue, reserved, bootTimers, holder, deleted,
                             failed>>

\* Mutant of MaySit: the user need not be at the table any more
MaySitThoughGone(c) == conn[c] = "in" /\ FindSeat(c) = NoSeat

\* Mutant of MaySit: the seat that the socket has is not looked for
MaySitAgain(c) == conn[c] = "in" /\ users[c[1]] # NoConn

\* the checks of scTableSit under the lock
MaySit(c) == /\ conn[c] = "in" /\ users[c[1]] # NoConn /\ FindSeat(c) = NoSeat

\* Mutant of Unreserved: the reservation stays when its user sits down
UnreservedNot(s) == reserved

\* sitDown's doSit: the first reservation of the seat is gone, timer and all
Unreserved(s) ==
    IF ReservationsOf(s) = {} THEN reserved
    ELSE RemoveAt(reserved, FirstOf(ReservationsOf(s)))

\* sitDown, in its three outcomes: the waiting list, a seat, a refusal
GrantSit ==
    LET c == Head(calls).conn
        s == Head(calls).seat
        offer == ReservationsOf(s)
    IN  /\ Granted("sit")
        /\ \/ /\ MaySit(c) /\ s = NoSeat
              /\ sitQueue' = Append(sitQueue, c)
              /\ UNCHANGED <<conn, scanning, users, reconnect, seats,
                             ejectTimers, reserved, bootTimers, holder,
                             deleted, failed>>
           \/ /\ MaySit(c) /\ s # NoSeat
              /\ offer # {} => reserved[FirstOf(offer)].user = c[1]
              /\ seats[s] = Empty
              /\ seats' = [seats EXCEPT ![s] =
                             [user |-> c[1], conn |-> c, timer |-> NoConn,
                              member |-> TRUE]]
              /\ reserved' = Unreserved(s)
              /\ UNCHANGED <<conn, scanning, users, reconnect, ejectTimers,
                             sitQueue, bootTimers, holder, deleted, failed>>
           \/ (MaySit(c) => s # NoSeat) /\ Ignore

\* sitQueue.indexOf(conn.userid), which compares objects: a socket finds what
\* it has pushed itself, as long as its userid is not null.
Queued(c) == Waits(c) /\ conn[c] # "cleared"
Dequeued(c) == RemoveAt(sitQueue, FirstOf({i \in DOMAIN sitQueue :
                                            sitQueue[i] = c}))

\* scTableStandUp: the waiting list is left, or the seat
GrantStand ==
    LET c == Head(calls).conn
        s == FindSeat(c)
    IN  /\ Granted("stand")
        /\ \/ s # NoSeat /\ BeginStandUp("stand", c, s, {})
           \/ /\ s = NoSeat /\ Queued(c)
              /\ sitQueue' = Dequeued(c)
              /\ UNCHANGED <<conn, scanning, users, reconnect, seats,
                             ejectTimers, reserved, bootTimers, holder,
                             deleted, failed>>
           \/ s = NoSeat /\ ~Queued(c) /\ Ignore

\* Mutant of Deserted: those who may come back are not counted
DesertedByUsers == \A u \in Users : users[u] = NoConn

\* leave's finish: nobody is at the table and nobody may come back
Deserted == (\A u \in Users : users[u] = NoConn) /\ reconnect = <<>>

\* leave's finish: the table may delete itself, and a logout is completed
AfterLeave(op, c) ==
    /\ deleted' = (deleted \/ Deserted)
    /\ conn' = IF op = "logout" THEN [conn EXCEPT ![c] = "cleared"] ELSE conn

\* leave, under the lock.  A user who leaves the waiting list returns at once
\* and never reaches finish.
GrantLeave(op) ==
    LET c == Head(calls).conn
        s == FindSeat(c)
    IN  /\ Granted(op)
        /\ \/ s # NoSeat /\ BeginStandUp(op, c, s, {})
           \/ /\ s = NoSeat /\ Queued(c)
              /\ sitQueue' = Dequeued(c)
              /\ UNCHANGED <<conn, scanning, users, reconnect, seats,
                             ejectTimers, reserved, bootTimers, holder,
                             deleted, failed>>
           \/ /\ s = NoSeat /\ ~Queued(c)
              /\ AfterLeave(op, c)
              /\ UNCHANGED <<scanning, users, reconnect, seats, ejectTimers,
                             sitQueue, reserved, bootTimers, holder, failed>>

\* Mutant of GrantAway: the member is marked, but no timer is set
GrantAwayUntimed ==
    LET c == Head(calls).conn
        s == FindSeat(c)
    IN  /\ Granted("away")
        /\ \/ s = NoSeat /\ Ignore
           \/ /\ s # NoSeat
              /\ seats' = [seats EXCEPT ![s].conn = NoConn, ![s].timer = c]
              /\ UNCHANGED <<conn, scanning, users, reconnect, ejectTimers,
                             sitQueue, reserved, bootTimers, holder, deleted,
                             failed>>

\* handleDisconnect, under the lock: the seat goes on without a socket, and
\* the timer of eject starts.
GrantAway ==
    LET c == Head(calls).conn
        s == FindSeat(c)
    IN  /\ Granted("away")
        /\ \/ s = NoSeat /\ Ignore
           \/ /\ s # NoSeat
              /\ seats' = [seats EXCEPT ![s].conn = NoConn, ![s].timer = c]
              /\ ejectTimers' = ejectTimers \cup {<<s, c>>}
              /\ UNCHANGED <<conn, scanning, users, reconnect, sitQueue,
                             reserved, bootTimers, holder, deleted, failed>>

\* reconnectUser, for the seat that the login has seen, or for none
GrantResume ==
    LET c == Head(calls).conn
        s == Head(calls).seat
    IN  /\ Granted("resume")
        /\ \/ s # NoSeat /\ seats[s] = Empty /\ Fail("resumeOfNobody")
           \/ conn[c] = "cleared" /\ Fail("statusForNobody")
           \/ /\ conn[c] # "cleared"
              /\ users' = [users EXCEPT ![c[1]] = c]
              /\ \/ /\ s = NoSeat
                    /\ UNCHANGED <<seats, ejectTimers>>
                 \/ /\ s # NoSeat /\ seats[s] # Empty
                    /\ ejectTimers' = ejectTimers \ {<<s, seats[s].timer>>}
                    /\ seats' = [seats EXCEPT ![s].conn = c]
              /\ UNCHANGED <<conn, scanning, reconnect, sitQueue, reserved,
                             bootTimers, holder, deleted, failed>>

\* Mutant of GrantEject: nobody is ejected who is not in reconnect
GrantEjectListed ==
    LET c == Head(calls).conn
        s == Head(calls).seat
    IN  /\ Granted("eject")
        /\ \/ seats[s] = Empty /\ Fail("ejectOfNobody")
           \/ /\ seats[s] # Empty
              /\ IF \E i \in DOMAIN reconnect : reconnect[i] = c[1]
                 THEN BeginStandUp("eject", c, s, {}) ELSE Ignore

\* eject stands up whoever has the seat, and fails when nobody does.
GrantEject ==
    LET c == Head(calls).conn
        s == Head(calls).seat
    IN  /\ Granted("eject")
        /\ \/ seats[s] = Empty /\ Fail("ejectOfNobody")
           \/ seats[s] # Empty /\ BeginStandUp("eject", c, s, {})

\* the owner's kick: the seat seen when the lock was asked for may be empty
GrantKick ==
    LET c == Head(calls).conn
        s == FindSeat(c)
    IN  /\ Granted("kick")
        /\ \/ s = NoSeat /\ Fail("kickOfNobody")
           \/ s # NoSeat /\ BeginStandUp("kick", c, s, {})

\* idleUnstick, for any members that are out of play
GrantUnstick ==
    /\ Granted("unstick")
    /\ \/ Ignore
       \/ \E todo \in SUBSET {s \in Seats : seats[s] # Empty} :
            /\ todo # {}
            /\ holder' = [op |-> "unstick", conn |-> NoConn, seat |-> NoSeat,
                          todo |-> todo]
            /\ UNCHANGED <<conn, scanning, users, reconnect, seats,
                           ejectTimers, sitQueue, reserved, bootTimers,
                           deleted, failed>>

\* Its loop: the last of the seats, and standUp looks for the seat of the
\* socket that is there, which may be another one.
UnstickNext ==
    LET todo == holder.todo
        x == LastOf(todo)
        c == seats[x].conn
    IN  /\ Runs /\ holder # Free /\ holder.seat = NoSeat
        /\ \/ seats[x] = Empty /\ Fail("unstickOfNobody")
           \/ /\ seats[x] # Empty
              /\ BeginStandUp("unstick", c,
                              IF c = NoConn THEN x ELSE FindSeat(c),
                              todo \ {x})
        /\ UNCHANGED calls

\* Mutants of Offered: the reservation keeps the socket; the last who came is
\* offered the seat; the offer has no timer
OfferedSocket(list, s) ==
    IF sitQueue = <<>> THEN list
    ELSE Append(list, [index |-> s, user |-> Head(sitQueue), timer |-> TRUE])
OfferedLast(list, s) ==
    IF sitQueue = <<>> THEN list
    ELSE Append(list, [index |-> s, user |-> sitQueue[Len(sitQueue)][1],
                       timer |-> TRUE])
OfferedForGood(list, s) ==
    IF sitQueue = <<>> THEN list
    ELSE Append(list, [index |-> s, user |-> Head(sitQueue)[1],
                       timer |-> FALSE])

\* A seat is offered to the first of the waiting list, for a minute.
Offered(list, s) ==
    IF sitQueue = <<>> THEN list
    ELSE Append(list, [index |-> s, user |-> Head(sitQueue)[1],
                       timer |-> TRUE])
StillWaiting == IF sitQueue = <<>> THEN <<>> ELSE Tail(sitQueue)

\* bootReserved: the offer is withdrawn and the next user gets one.  Without
\* an offer to withdraw the loop ends and nothing calls release.
GrantBoot ==
    LET s == Head(calls).seat
        offer == FirstOf(ReservationsOf(s))
    IN  /\ Granted("boot")
        /\ \/ /\ ReservationsOf(s) = {}
              /\ holder' = Leaked
              /\ UNCHANGED <<sitQueue, reserved, bootTimers>>
           \/ /\ ReservationsOf(s) # {}
              /\ reserved' = Offered(RemoveAt(reserved, offer), s)
              /\ sitQueue' = StillWaiting
              /\ bootTimers' = IF reserved[offer].timer
                               THEN [bootTimers EXCEPT ![s] = @ + 1]
                               ELSE bootTimers
              /\ UNCHANGED holder
        /\ UNCHANGED <<conn, scanning, users, reconnect, seats, ejectTimers,
                       deleted, failed>>

\* standUp's end: seats[s] is null, the seat is offered to the waiting list,
\* and the caller of standUp goes on.
StandUpDone ==
    LET s == holder.seat
        c == holder.conn
    IN  /\ Runs /\ holder # Free /\ holder.seat # NoSeat
        /\ seats' = [seats EXCEPT ![s] = Empty]
        /\ reserved' = Offered(reserved, s)
        /\ sitQueue' = StillWaiting
        /\ IF holder.op \in {"leave", "logout"} THEN AfterLeave(holder.op, c)
           ELSE UNCHANGED <<conn, deleted>>
        /\ reconnect' = IF holder.op = "eject" THEN Spliced(reconnect, c[1])
                        ELSE reconnect
        /\ failed' = IF holder.op = "stand" /\ conn[c] = "cleared"
                     THEN "statusForNobody" ELSE failed
        /\ holder' = IF holder.todo = {} THEN Free
                     ELSE [holder EXCEPT !.seat = NoSeat]
        /\ UNCHANGED <<scanning, users, ejectTimers, bootTimers, calls>>

-----------------------------------------------------------------------------
Locked ==
    \/ GrantJoin \/ GrantSit \/ GrantStand \/ GrantLeave("leave")
    \/ GrantLeave("logout") \/ GrantAway \/ GrantEject \/ GrantResume
    \/ GrantKick \/ GrantBoot \/ GrantUnstick \/ UnstickNext \/ StandUpDone

Next ==
    \/ Locked
    \/ \E c \in Conns :
        \/ Login(c) \/ Scan(c) \/ Drop(c, "lost") \/ Drop(c, "cleared")
        \/ Logout(c) \/ Join(c) \/ StandUp(c) \/ Leave(c) \/ TableSitClose(c)
        \/ Kick(c)
        \/ \E s \in Seats \cup {NoSeat} : Sit(c, s)
    \/ UnstickFires
    \/ \E s \in Seats : BootFires(s)
    \/ \E s \in Seats, c \in Conns : EjectFires(s, c)

Spec == Init /\ [][Next]_vars

\* The event loop calls the callbacks of whoever holds the lock, the lock
\* goes to the first that waits, and timers fire.  No user has to do anything.
FairSpec ==
    /\ Spec
    /\ WF_vars(Locked)
    /\ \A s \in Seats : WF_vars(BootFires(s))
    /\ \A s \in Seats, c \in Conns : WF_vars(EjectFires(s, c))

-----------------------------------------------------------------------------
(* Properties.                                                             *)

Failures == {"", "scanOfLeaver", "joinOfNobody", "resumeOfNobody",
             "statusForNobody", "ejectOfNobody", "kickOfNobody",
             "unstickOfNobody"}

\* The types of the fields of a table, and of what its timers have captured.
TableTypes ==
    /\ conn \in [Conns -> {"none", "in", "lost", "cleared"}]
    /\ scanning \subseteq Conns
    /\ users \in [Users -> Conns \cup {NoConn}]
    /\ seats \in [Seats -> SeatState \cup {Empty}]
    /\ ejectTimers \subseteq Seats \X Conns
    /\ sitQueue \in Seq(Conns)
    /\ reserved \in Seq(Reservation)
    /\ bootTimers \in [Seats -> Nat]
    /\ calls \in Seq(Call)
    /\ holder \in StandUpState \cup {Free, Leaked}
    /\ deleted \in BOOLEAN
    /\ failed \in Failures

TypeOK == TableTypes /\ reconnect \in Seq(Users)

\* Whoever stands up, sits down, or declines in whatever order, a seat that is
\* on offer is free, and on offer to one user: no reservation of a seat outlives
\* the moment somebody takes it (sitDown, standUp, bootReserved).
ReservedIsFree ==
    /\ \A i \in DOMAIN reserved : seats[reserved[i].index] = Empty
    /\ \A i, j \in DOMAIN reserved :
        reserved[i].index = reserved[j].index => i = j

\* No offer can be forgotten: its timer runs, or a call of bootReserved for
\* its seat waits for the lock, although the timer is cleared by others than
\* those who call bootReserved, and bootReserved withdraws whatever offer it
\* finds.
ReservationExpires ==
    \A i \in DOMAIN reserved :
        reserved[i].timer \/ Pending("boot", reserved[i].index)

\* A member whose socket is gone has his five minutes and no more: the timer
\* of his seat runs or has fired, whoever has sat there before, whoever takes
\* the seat over, and whatever login clears timers meanwhile.
AwayIsEjected ==
    \A s \in Seats :
        seats[s] # Empty /\ seats[s].member /\ seats[s].conn = NoConn =>
            <<s, seats[s].timer>> \in ejectTimers \/ Pending("eject", s)

\* The sockets that are on their way out of the table
Leaving(c) ==
    \/ \E k \in DOMAIN calls : /\ calls[k].op \in {"leave", "logout", "away"}
                               /\ calls[k].conn = c
    \/ holder \notin {Free, Leaked} /\ holder.conn = c

\* A user in a seat is at the table, or is being taken from it: sitDown never
\* seats a user that leave or handleDisconnect has already been called for.
\* (For one socket per user.)
SeatedIsPresent ==
    \A s \in Seats :
        seats[s] # Empty /\ seats[s].conn # NoConn =>
            users[seats[s].user] # NoConn \/ Leaving(seats[s].conn)

\* When a table deletes itself nobody has a seat but those on their way out: no
\* stack is left at a table that no message can reach any more.
\* (For one socket per user.)
DeletedWithoutStacks ==
    [][deleted' /\ ~deleted =>
        \A s \in Seats : seats'[s] # Empty => Leaving(seats[s].conn)]_vars

\* Nobody has two seats.  (For one socket per user.)
OneSeatEach ==
    \A s, t \in Seats :
        seats[s] # Empty /\ seats[t] # Empty /\ seats[s].user = seats[t].user
            => s = t

\* Whoever waits while a seat is on offer is offered one in his turn, or finds
\* the offer taken up, whatever the others do, unless the lock or the process is
\* lost: an offer does not last, and those who ask again queue behind him.
WaiterAdvances ==
    \A c \in Conns :
        (Waits(c) /\ reserved # <<>>)
            ~> \/ ~Runs \/ ~Waits(c) \/ reserved = <<>>
               \/ \E i \in DOMAIN reserved : reserved[i].user = c[1]

\* Every seat without a socket is emptied or taken back.
AwayEnds ==
    \A s \in Seats :
        (seats[s] # Empty /\ seats[s].conn = NoConn)
            ~> (~Runs \/ seats[s] = Empty \/ seats[s].conn # NoConn)

\* Nobody is dropped from the waiting list: whoever is on it and then is not
\* has been offered a seat, or has had a call of his own served.
NobodyIsSkipped ==
    [][\A c \in Conns :
        Waits(c) =>
            \/ \E i \in DOMAIN sitQueue' : sitQueue'[i] = c
            \/ \E i \in DOMAIN reserved' : reserved'[i].user = c[1]
            \/ calls # <<>> /\ Head(calls).conn = c]_vars
=============================================================================
