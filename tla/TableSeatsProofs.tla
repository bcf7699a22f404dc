-------------------------- MODULE TableSeatsProofs --------------------------
(***************************************************************************)
(* What the calls of a table keep, for any users, sockets and seats: a     *)
(* seat on offer is free, no offer and no seat without a socket is left    *)
(* without its timer or its call.  If every user connects only once,       *)
(* nobody has two seats, whoever has a seat is there or is about to leave  *)
(* it, and no seat is left behind at a table that deletes itself.  Whoever *)
(* waits for a seat keeps his place until he is offered one or asks.       *)
(***************************************************************************)
EXTENDS TableSeats, Numbers, SequenceTheorems

(***************************************************************************)
(* That a seat is offered only when it is free needs that standUp ends     *)
(* with a seat which has been taken all the while, so that nobody had an   *)
(* offer of it before.                                                     *)
(***************************************************************************)
StandingUp ==
    holder \notin {Free, Leaked} =>
        /\ holder.seat = NoSeat => holder.todo # {}
        /\ holder.seat # NoSeat => seats[holder.seat] # Empty

IInv ==
    /\ TableTypes /\ StandingUp
    /\ ReservedIsFree /\ ReservationExpires /\ AwayIsEjected

-----------------------------------------------------------------------------
\* The first of some numbers is one of them.
LEMMA FirstIsIn ==
    ASSUME NEW S \in SUBSET Nat, S # {}
    PROVE  FirstOf(S) \in S
BY MinExists DEF FirstOf

\* So is the last of some seats.
LEMMA LastIsIn ==
    ASSUME NEW S \in SUBSET Seats, S # {}
    PROVE  LastOf(S) \in S
<1>1. S \in SUBSET Nat /\ NSeats \in Nat /\ \A x \in S : x <= NSeats
  BY SeatsAssumption DEF Seats
<1>2. \E x \in S : \A y \in S : x >= y
  BY <1>1, MaxExists
<1> QED
  BY <1>2 DEF LastOf

\* findSeat finds a seat that is taken, or none.
LEMMA FoundSeat ==
    ASSUME NEW c, FindSeat(c) # NoSeat
    PROVE  FindSeat(c) \in Seats /\ seats[FindSeat(c)] # Empty
<1>1. SeatsOf(c) # {} /\ FindSeat(c) = FirstOf(SeatsOf(c))
  BY DEF FindSeat
<1>2. SeatsOf(c) \in SUBSET Nat
  BY DEF SeatsOf, Seats
<1>3. FindSeat(c) \in SeatsOf(c)
  BY <1>1, <1>2, FirstIsIn
<1> QED
  BY <1>3 DEF SeatsOf

\* The marks of a free seat and a free lock are no seats and no holders.
LEMMA Marks ==
    ASSUME TableTypes, NEW s \in Seats
    PROVE  /\ seats[s] # Empty => seats[s] \in SeatState
           /\ holder \notin {Free, Leaked} => holder \in StandUpState
           /\ NoSeat \notin Seats /\ NoConn \notin Conns
BY MarkersAssumption DEF TableTypes, NoSeat, Seats, Conns, NoConn

\* An offer is of a seat.
LEMMA Offers ==
    ASSUME TableTypes, NEW i \in DOMAIN reserved
    PROVE  reserved[i] \in Reservation /\ reserved[i].index \in Seats
<1>1. reserved \in Seq(Reservation)
  BY DEF TableTypes
<1>2. reserved[i] \in Reservation
  BY <1>1, LenProperties, ElementOfSeq
<1> QED
  BY <1>2 DEF Reservation

\* A call that is made joins those that wait.
LEMMA Asked ==
    ASSUME TableTypes, NEW x \in Call, calls' = Append(calls, x)
    PROVE  /\ calls' \in Seq(Call)
           /\ \A op, s : Pending(op, s) => Pending(op, s)'
           /\ Pending(x.op, x.seat)'
<1>1. calls \in Seq(Call)
  BY DEF TableTypes
<1>2. /\ calls' \in Seq(Call) /\ Len(calls') = Len(calls) + 1
      /\ \A k \in 1..Len(calls) : calls'[k] = calls[k]
      /\ calls'[Len(calls) + 1] = x
  BY <1>1, AppendProperties
<1>3. DOMAIN calls = 1..Len(calls) /\ DOMAIN calls' = 1..Len(calls)+1
      /\ Len(calls) \in Nat
  BY <1>1, <1>2, LenProperties
<1>4. \A op, s : Pending(op, s) => Pending(op, s)'
  BY <1>2, <1>3 DEF Pending
<1>5. Pending(x.op, x.seat)'
  BY <1>2, <1>3 DEF Pending
<1> QED
  BY <1>2, <1>4, <1>5

\* The lock goes to the first call, and the others wait on.
LEMMA Served ==
    ASSUME TableTypes, NEW op, Granted(op)
    PROVE  /\ Head(calls) \in Call /\ Head(calls).op = op
           /\ calls' \in Seq(Call) /\ holder = Free
           /\ \A o, s : Pending(o, s) => \/ Pending(o, s)'
                                         \/ o = op /\ s = Head(calls).seat
<1>1. calls \in Seq(Call) /\ calls # <<>> /\ Head(calls).op = op
      /\ calls' = Tail(calls) /\ holder = Free
  BY DEF Granted, TableTypes
<1>2. /\ Head(calls) \in Call /\ calls' \in Seq(Call)
      /\ Len(calls') = Len(calls) - 1 /\ Len(calls) \in Nat \ {0}
      /\ \A k \in 1..Len(calls) - 1 : calls'[k] = calls[k + 1]
      /\ Head(calls) = calls[1]
      /\ DOMAIN calls = 1..Len(calls) /\ DOMAIN calls' = 1..Len(calls) - 1
  BY <1>1, HeadTailProperties, LenProperties
<1>3. ASSUME NEW o, NEW s, Pending(o, s)
      PROVE  Pending(o, s)' \/ (o = op /\ s = Head(calls).seat)
  <2>1. PICK k \in 1..Len(calls) : calls[k].op = o /\ calls[k].seat = s
    BY <1>2, <1>3 DEF Pending
  <2>2. CASE k = 1
    BY <1>1, <1>2, <2>1, <2>2
  <2>3. CASE k # 1
    <3>1. k - 1 \in 1..Len(calls) - 1 /\ calls'[k - 1] = calls[k]
      BY <1>2, <2>3
    <3> QED
      BY <1>2, <2>1, <3>1 DEF Pending
  <2> QED
    BY <2>2, <2>3
<1> QED
  BY <1>1, <1>2, <1>3

\* What splicing an entry out of a list leaves.
LEMMA Removed ==
    ASSUME NEW S, NEW q \in Seq(S), NEW i \in DOMAIN q
    PROVE  /\ RemoveAt(q, i) \in Seq(S)
           /\ DOMAIN RemoveAt(q, i) = 1..Len(q) - 1
           /\ \A j \in DOMAIN RemoveAt(q, i) :
                 \E k \in DOMAIN q \ {i} :
                    /\ RemoveAt(q, i)[j] = q[k]
                    /\ k = IF j < i THEN j ELSE j + 1
<1>1. i \in 1..Len(q) /\ Len(q) \in Nat /\ DOMAIN q = 1..Len(q)
  BY LenProperties
<1> DEFINE a == SubSeq(q, 1, i - 1)
           b == SubSeq(q, i + 1, Len(q))
<1>2. /\ a \in Seq(S) /\ Len(a) = i - 1
      /\ \A j \in 1..i - 1 : a[j] = q[j]
  BY <1>1, SubSeqProperties
<1>3. /\ b \in Seq(S) /\ Len(b) = Len(q) - i
      /\ \A j \in 1..Len(q) - i : b[j] = q[i + j]
  BY <1>1, SubSeqProperties
<1>0. RemoveAt(q, i) = a \o b
  BY DEF RemoveAt
<1> HIDE DEF a, b
<1>4. /\ a \o b \in Seq(S) /\ Len(a \o b) = Len(q) - 1
      /\ \A j \in 1..Len(q) - 1 : (a \o b)[j] = IF j < i THEN q[j] ELSE q[j + 1]
  <2>1. /\ a \o b \in Seq(S) /\ Len(a \o b) = Len(a) + Len(b)
        /\ \A j \in 1..Len(a) + Len(b) :
              (a \o b)[j] = IF j <= Len(a) THEN a[j] ELSE b[j - Len(a)]
    BY <1>2, <1>3, ConcatProperties
  <2>2. ASSUME NEW j \in 1..Len(q) - 1
        PROVE  (a \o b)[j] = IF j < i THEN q[j] ELSE q[j + 1]
    <3>1. CASE j < i
      BY <1>1, <1>2, <1>3, <2>1, <3>1
    <3>2. CASE ~(j < i)
      <4>1. j - (i - 1) \in 1..Len(q) - i /\ ~(j <= i - 1)
        BY <1>1, <3>2
      <4>2. b[j - (i - 1)] = q[i + (j - (i - 1))]
        BY <1>3, <4>1
      <4>3. i + (j - (i - 1)) = j + 1
        BY <1>1
      <4>4. j \in 1..Len(a) + Len(b) /\ ~(j <= Len(a))
        BY <1>1, <1>2, <1>3, <3>2
      <4>5. (a \o b)[j] = b[j - Len(a)]
        BY <2>1, <4>4
      <4> QED
        BY <1>2, <3>2, <4>2, <4>3, <4>5
    <3> QED
      BY <3>1, <3>2
  <2>3. Len(a) + Len(b) = Len(q) - 1
    BY <1>1, <1>2, <1>3
  <2> QED
    BY <2>1, <2>2, <2>3
<1>5. DOMAIN RemoveAt(q, i) = 1..Len(q) - 1
  BY <1>0, <1>4, LenProperties
<1>6. ASSUME NEW j \in 1..Len(q) - 1
      PROVE  \E k \in DOMAIN q \ {i} : /\ RemoveAt(q, i)[j] = q[k]
                                       /\ k = IF j < i THEN j ELSE j + 1
  <2> DEFINE k == IF j < i THEN j ELSE j + 1
  <2>1. k \in DOMAIN q \ {i}
    BY <1>1
  <2> QED
    BY <1>0, <1>4, <2>1
<1> QED
  BY <1>0, <1>4, <1>5, <1>6

-----------------------------------------------------------------------------
\* The calls of one kind of timer for one seat are still coming, except for
\* those that `served` names.
StillPending(served) ==
    \A s \in Seats, op \in {"boot", "eject"} :
        Pending(op, s) => Pending(op, s)' \/ <<op, s>> \in served

\* A step that leaves seats, offers and their timers alone
LEMMA QuietKeeps ==
    ASSUME IInv, TableTypes', UNCHANGED <<seats, reserved, ejectTimers, holder>>,
           StillPending({<<"eject", s>> : s \in {t \in Seats : seats[t] = Empty}})
    PROVE  IInv'
<1>1. TableTypes /\ StandingUp /\ ReservedIsFree /\ ReservationExpires
      /\ AwayIsEjected
  BY DEF IInv
<1>2. StandingUp' /\ ReservedIsFree'
  BY <1>1 DEF StandingUp, ReservedIsFree
<1>3. ReservationExpires'
  <2> SUFFICES ASSUME NEW i \in DOMAIN reserved, ~reserved[i].timer
               PROVE  Pending("boot", reserved[i].index)'
    BY DEF ReservationExpires
  <2>1. Pending("boot", reserved[i].index)
    BY <1>1 DEF ReservationExpires
  <2>2. reserved[i].index \in Seats
    BY <1>1, Offers
  <2> QED
    BY <2>1, <2>2 DEF StillPending
<1>4. AwayIsEjected'
  <2> SUFFICES ASSUME NEW s \in Seats, seats[s] # Empty, seats[s].member,
                      seats[s].conn = NoConn,
                      <<s, seats[s].timer>> \notin ejectTimers
               PROVE  Pending("eject", s)'
    BY DEF AwayIsEjected
  <2>1. Pending("eject", s)
    BY <1>1 DEF AwayIsEjected
  <2> QED
    BY <2>1 DEF StillPending
<1> QED
  BY <1>2, <1>3, <1>4 DEF IInv

\* A timer of an offer that is cleared or fires, with a call of bootReserved
LEMMA BootCalled ==
    ASSUME IInv, NEW i \in DOMAIN reserved,
           reserved' = [reserved EXCEPT ![i].timer = FALSE],
           UNCHANGED <<conn, scanning, users, seats, ejectTimers, sitQueue,
                       bootTimers, holder, deleted, failed>>,
           Ask("boot", NoConn, reserved[i].index)
    PROVE  IInv'
<1>1. TableTypes /\ StandingUp /\ ReservedIsFree /\ ReservationExpires
      /\ AwayIsEjected
  BY DEF IInv
<1>2. reserved[i] \in Reservation
  BY <1>1, Offers
<1>3. PICK x \in Call : /\ calls' = Append(calls, x)
                        /\ x.op = "boot" /\ x.seat = reserved[i].index
  BY <1>2 DEF Ask, Call, Reservation
<1>4. /\ calls' \in Seq(Call)
      /\ \A op, s : Pending(op, s) => Pending(op, s)'
      /\ Pending(x.op, x.seat)'
  BY <1>1, <1>3, Asked
<1>5. /\ reserved' \in Seq(Reservation) /\ DOMAIN reserved' = DOMAIN reserved
      /\ \A j \in DOMAIN reserved :
            /\ reserved'[j].index = reserved[j].index
            /\ reserved'[j].timer => reserved[j].timer
            /\ j # i => reserved'[j] = reserved[j]
  <2>1. reserved \in Seq(Reservation)
    BY <1>1 DEF TableTypes
  <2>2. [reserved[i] EXCEPT !.timer = FALSE] \in Reservation
    BY <1>2 DEF Reservation
  <2>3. reserved' = [reserved EXCEPT ![i] = [reserved[i] EXCEPT !.timer = FALSE]]
    OBVIOUS
  <2>4. reserved' \in Seq(Reservation)
    BY <2>1, <2>2, <2>3, ExceptSeq
  <2> QED
    BY <1>2, <2>1, <2>3, <2>4 DEF Reservation
<1>6. TableTypes'
  BY <1>1, <1>4, <1>5 DEF TableTypes
<1>7. StandingUp' /\ ReservedIsFree'
  BY <1>1, <1>5 DEF StandingUp, ReservedIsFree
<1>8. ReservationExpires'
  <2> SUFFICES ASSUME NEW j \in DOMAIN reserved, ~reserved'[j].timer
               PROVE  Pending("boot", reserved[j].index)'
    BY <1>5 DEF ReservationExpires
  <2>1. CASE j = i
    <3>1. reserved'[j].index = x.seat
      BY <1>3, <1>5, <2>1
    <3>2. Pending("boot", x.seat)'
      BY <1>3, <1>4
    <3> QED
      BY <3>1, <3>2 DEF Pending
  <2>2. CASE j # i
    BY <1>1, <1>4, <1>5, <2>2 DEF ReservationExpires
  <2> QED
    BY <2>1, <2>2
<1>9. AwayIsEjected'
  BY <1>1, <1>4 DEF AwayIsEjected
<1> QED
  BY <1>6, <1>7, <1>8, <1>9 DEF IInv

\* standUp begins, for a seat that is taken.
LEMMA BeginKeeps ==
    ASSUME IInv, NEW op \in {"stand", "leave", "logout", "eject", "kick",
                             "unstick"},
           NEW c \in Conns \cup {NoConn}, NEW s \in Seats, seats[s] # Empty,
           NEW todo \in SUBSET Seats, BeginStandUp(op, c, s, todo),
           calls' \in Seq(Call), StillPending({<<"eject", s>>})
    PROVE  IInv'
<1>1. TableTypes /\ StandingUp /\ ReservedIsFree /\ ReservationExpires
      /\ AwayIsEjected
  BY DEF IInv
<1>2. /\ seats' = [seats EXCEPT ![s].member = FALSE]
      /\ holder' = [op |-> op, conn |-> c, seat |-> s, todo |-> todo]
      /\ UNCHANGED <<conn, scanning, users, reconnect, ejectTimers, sitQueue,
                     reserved, bootTimers, deleted, failed>>
  BY DEF BeginStandUp
<1>3. seats \in [Seats -> SeatState \cup {Empty}] /\ seats[s] \in SeatState
  BY <1>1 DEF TableTypes
<1> DEFINE r == [seats[s] EXCEPT !.member = FALSE]
<1>4. r \in SeatState /\ r.member = FALSE
  BY <1>3 DEF SeatState
<1>5. /\ seats' \in [Seats -> SeatState \cup {Empty}] /\ seats'[s] = r
      /\ \A t \in Seats : t # s => seats'[t] = seats[t]
  BY <1>2, <1>3, <1>4
<1>6. r # Empty
  BY <1>4, MarkersAssumption
<1> HIDE DEF r
<1>7. holder' \in StandUpState /\ s # NoSeat /\ holder'.seat = s
  BY <1>2 DEF StandUpState, NoSeat, Seats
<1>8. TableTypes'
  BY <1>1, <1>2, <1>5, <1>7 DEF TableTypes
<1>9. StandingUp'
  BY <1>5, <1>6, <1>7 DEF StandingUp
<1>10. ReservedIsFree'
  <2>1. \A i \in DOMAIN reserved : reserved[i].index \in Seats
                                   /\ reserved[i].index # s
    BY <1>1, Offers DEF ReservedIsFree
  <2> QED
    BY <1>1, <1>2, <1>5, <2>1 DEF ReservedIsFree
<1>11. ReservationExpires'
  <2> SUFFICES ASSUME NEW i \in DOMAIN reserved, ~reserved[i].timer
               PROVE  Pending("boot", reserved[i].index)'
    BY <1>2 DEF ReservationExpires
  <2>1. Pending("boot", reserved[i].index)
    BY <1>1 DEF ReservationExpires
  <2>2. reserved[i].index \in Seats
    BY <1>1, Offers
  <2>3. <<"boot", reserved[i].index>> \notin {<<"eject", s>>}
    OBVIOUS
  <2> QED
    BY <1>2, <2>1, <2>2, <2>3 DEF StillPending
<1>12. AwayIsEjected'
  <2> SUFFICES ASSUME NEW t \in Seats, seats'[t] # Empty, seats'[t].member,
                      seats'[t].conn = NoConn,
                      <<t, seats'[t].timer>> \notin ejectTimers
               PROVE  Pending("eject", t)'
    BY <1>2 DEF AwayIsEjected
  <2>1. t # s /\ seats'[t] = seats[t]
    BY <1>4, <1>5
  <2>2. Pending("eject", t)
    BY <1>1, <2>1 DEF AwayIsEjected
  <2> QED
    BY <2>1, <2>2 DEF StillPending
<1> QED
  BY <1>8, <1>9, <1>10, <1>11, <1>12 DEF IInv

-----------------------------------------------------------------------------
\* All calls wait on when one is made, or none.
LEMMA StillWait ==
    ASSUME TableTypes, calls' = calls \/ \E x \in Call : calls' = Append(calls, x)
    PROVE  calls' \in Seq(Call) /\ \A op, s : Pending(op, s) => Pending(op, s)'
<1>1. CASE calls' = calls
  BY <1>1 DEF TableTypes, Pending
<1>2. ASSUME NEW x \in Call, calls' = Append(calls, x)
      PROVE  /\ calls' \in Seq(Call)
             /\ \A op, s : Pending(op, s) => Pending(op, s)'
  BY <1>2, Asked
<1> QED
  BY <1>1, <1>2

\* A step that does no more than to ask for the lock, for sockets, users and
\* timers that are what they should be
LEMMA AskKeeps ==
    ASSUME IInv,
           calls' = calls \/ \E x \in Call : calls' = Append(calls, x),
           conn' \in [Conns -> {"none", "in", "lost", "cleared"}],
           scanning' \subseteq Conns,
           users' \in [Users -> Conns \cup {NoConn}],
           bootTimers' \in [Seats -> Nat],
           UNCHANGED <<seats, ejectTimers, sitQueue, reserved, holder, deleted,
                       failed>>
    PROVE  IInv'
<1>1. TableTypes
  BY DEF IInv
<1>2. calls' \in Seq(Call) /\ \A op, s : Pending(op, s) => Pending(op, s)'
  BY <1>1, StillWait
<1>3. TableTypes'
  BY <1>1, <1>2 DEF TableTypes
<1> QED
  BY <1>2, <1>3, QuietKeeps DEF StillPending

\* Socket c takes part in a call.
LEMMA Callers ==
    ASSUME NEW c \in Conns, NEW s \in Seats \cup {NoSeat}
    PROVE  /\ \A op \in {"join", "stand", "leave", "logout", "away", "kick"} :
                 [op |-> op, conn |-> c, seat |-> NoSeat] \in Call
           /\ \A op \in {"sit", "resume"} :
                 [op |-> op, conn |-> c, seat |-> s] \in Call
           /\ s \in Seats => [op |-> "eject", conn |-> c, seat |-> s] \in Call
           /\ s \in Seats =>
                 [op |-> "boot", conn |-> NoConn, seat |-> s] \in Call
           /\ [op |-> "unstick", conn |-> NoConn, seat |-> NoSeat] \in Call
           /\ c[1] \in Users
BY DEF Call, Conns

LEMMA DisconnectTypes ==
    ASSUME TableTypes, NEW c \in Conns, Disconnect(c)
    PROVE  /\ users' \in [Users -> Conns \cup {NoConn}]
           /\ calls' = calls \/ \E x \in Call : calls' = Append(calls, x)
<1>1. /\ c[1] \in Users
      /\ [op |-> "away", conn |-> c, seat |-> NoSeat] \in Call
  BY Callers
<1> QED
  BY <1>1 DEF Disconnect, Ask, TableTypes

LEMMA LoginKeeps ==
    ASSUME IInv, NEW c \in Conns, Login(c)
    PROVE  IInv'
<1>1. TableTypes
  BY DEF IInv
<1>2. /\ users' \in [Users -> Conns \cup {NoConn}]
      /\ calls' = calls \/ \E x \in Call : calls' = Append(calls, x)
  <2>1. CASE \E old \in Conns : Disconnect(old)
    BY <1>1, <2>1, DisconnectTypes
  <2>2. CASE UNCHANGED <<users, calls>>
    BY <1>1, <2>2 DEF TableTypes
  <2> QED
    BY <2>1, <2>2 DEF Login
<1>3. conn' \in [Conns -> {"none", "in", "lost", "cleared"}]
  BY <1>1 DEF Login, TableTypes
<1>4. scanning' \subseteq Conns /\ bootTimers' \in [Seats -> Nat]
  BY <1>1 DEF Login, TableTypes
<1>5. UNCHANGED <<seats, ejectTimers, sitQueue, reserved, holder, deleted,
                  failed>>
  BY DEF Login
<1> QED
  BY <1>2, <1>3, <1>4, <1>5, AskKeeps

LEMMA DropKeeps ==
    ASSUME IInv, NEW c \in Conns, NEW how \in {"lost", "cleared"}, Drop(c, how)
    PROVE  IInv'
<1>1. TableTypes
  BY DEF IInv
<1>2. /\ users' \in [Users -> Conns \cup {NoConn}]
      /\ calls' = calls \/ \E x \in Call : calls' = Append(calls, x)
  BY <1>1, DisconnectTypes DEF Drop
<1>3. conn' \in [Conns -> {"none", "in", "lost", "cleared"}]
  BY <1>1 DEF Drop, TableTypes
<1>4. /\ scanning' \subseteq Conns /\ bootTimers' \in [Seats -> Nat]
      /\ UNCHANGED <<seats, ejectTimers, sitQueue, reserved, holder, deleted,
                     failed>>
  BY <1>1 DEF Drop, TableTypes
<1> QED
  BY <1>2, <1>3, <1>4, AskKeeps

LEMMA LogoutKeeps ==
    ASSUME IInv, NEW c \in Conns, Logout(c)
    PROVE  IInv'
<1>1. TableTypes
  BY DEF IInv
<1>2. /\ c[1] \in Users
      /\ [op |-> "logout", conn |-> c, seat |-> NoSeat] \in Call
  BY Callers
<1>3. /\ users' \in [Users -> Conns \cup {NoConn}]
      /\ calls' = calls \/ \E x \in Call : calls' = Append(calls, x)
      /\ conn' \in [Conns -> {"none", "in", "lost", "cleared"}]
  BY <1>1, <1>2 DEF Logout, Ask, TableTypes
<1>4. /\ scanning' \subseteq Conns /\ bootTimers' \in [Seats -> Nat]
      /\ UNCHANGED <<seats, ejectTimers, sitQueue, reserved, holder, deleted,
                     failed>>
  BY <1>1 DEF Logout, TableTypes
<1> QED
  BY <1>3, <1>4, AskKeeps

\* The messages that change no more than who is at the table
LEMMA MessagesKeep ==
    ASSUME IInv, NEW c \in Conns,
           \/ Join(c) \/ StandUp(c) \/ Leave(c) \/ Kick(c)
           \/ \E s \in Seats \cup {NoSeat} : Sit(c, s)
    PROVE  IInv'
<1>1. TableTypes
  BY DEF IInv
<1>2. /\ conn' = conn /\ scanning' = scanning /\ bootTimers' = bootTimers
      /\ UNCHANGED <<seats, ejectTimers, sitQueue, reserved, holder, deleted,
                     failed>>
  BY DEF Join, StandUp, Leave, Kick, Sit
<1>3. users' \in [Users -> Conns \cup {NoConn}]
  BY <1>1, Callers DEF Join, StandUp, Leave, Kick, Sit, TableTypes
<1>4. \E x \in Call : calls' = Append(calls, x)
  <2>1. CASE Join(c) \/ StandUp(c) \/ Leave(c) \/ Kick(c)
    <3>1. \E op \in {"join", "stand", "leave", "logout", "away", "kick"} :
             calls' = Append(calls, [op |-> op, conn |-> c, seat |-> NoSeat])
      BY <2>1 DEF Join, StandUp, Leave, Kick, Ask
    <3> QED
      BY <3>1, Callers
  <2>2. ASSUME NEW s \in Seats \cup {NoSeat}, Sit(c, s)
        PROVE  \E x \in Call : calls' = Append(calls, x)
    BY <2>2, Callers DEF Sit, Ask
  <2> QED
    BY <2>1, <2>2
<1> QED
  BY <1>1, <1>2, <1>3, <1>4, AskKeeps DEF TableTypes

LEMMA UnstickFiresKeeps ==
    ASSUME IInv, UnstickFires
    PROVE  IInv'
<1>1. \E x \in Call : calls' = Append(calls, x)
  BY DEF UnstickFires, Ask, Call
<1> QED
  BY <1>1, AskKeeps DEF UnstickFires, IInv, TableTypes

LEMMA BootFiresKeeps ==
    ASSUME IInv, NEW s \in Seats, BootFires(s)
    PROVE  IInv'
<1>1. ASSUME NEW i \in ReservationsOf(s),
             reserved' = [reserved EXCEPT ![i].timer = FALSE],
             UNCHANGED bootTimers
      PROVE  IInv'
  <2>1. i \in DOMAIN reserved /\ reserved[i].index = s
    BY DEF ReservationsOf
  <2> QED
    BY <1>1, <2>1, BootCalled DEF BootFires
<1>2. CASE bootTimers' = [bootTimers EXCEPT ![s] = @ - 1] /\ bootTimers[s] > 0
           /\ UNCHANGED reserved
  <2>1. bootTimers' \in [Seats -> Nat]
    BY <1>2 DEF IInv, TableTypes
  <2>2. \E x \in Call : calls' = Append(calls, x)
    BY DEF BootFires, Ask, Call
  <2>3. /\ conn' = conn /\ scanning' = scanning /\ users' = users
        /\ UNCHANGED <<seats, ejectTimers, sitQueue, reserved, holder, deleted,
                       failed>>
    BY <1>2 DEF BootFires
  <2> QED
    BY <2>1, <2>2, <2>3, AskKeeps DEF IInv, TableTypes
<1> QED
  BY <1>1, <1>2 DEF BootFires

LEMMA TableSitCloseKeeps ==
    ASSUME IInv, NEW c \in Conns, TableSitClose(c)
    PROVE  IInv'
<1> DEFINE mine == {j \in DOMAIN reserved : reserved[j].user = c[1]}
<1>1. mine \in SUBSET Nat
  BY LenProperties DEF IInv, TableTypes
<1>2. FirstOf(mine) \in mine
  BY <1>1, FirstIsIn DEF TableSitClose
<1>3. PICK i \in DOMAIN reserved : i = FirstOf(mine)
  BY <1>2
<1>4. /\ reserved' = [reserved EXCEPT ![i].timer = FALSE]
      /\ Ask("boot", NoConn, reserved[i].index)
      /\ UNCHANGED <<conn, scanning, users, seats, ejectTimers, sitQueue,
                     bootTimers, holder, deleted, failed>>
  BY <1>3 DEF TableSitClose
<1> QED
  BY <1>4, BootCalled

LEMMA EjectFiresKeeps ==
    ASSUME IInv, NEW s \in Seats, NEW c \in Conns, EjectFires(s, c)
    PROVE  IInv'
<1>1. TableTypes /\ StandingUp /\ ReservedIsFree /\ ReservationExpires
      /\ AwayIsEjected
  BY DEF IInv
<1>2. PICK x \in Call : /\ calls' = Append(calls, x)
                        /\ x.op = "eject" /\ x.seat = s
  BY DEF EjectFires, Ask, Call
<1>3. /\ calls' \in Seq(Call)
      /\ \A o, t : Pending(o, t) => Pending(o, t)'
      /\ Pending("eject", s)'
  <2>1. Pending(x.op, x.seat)'
    BY <1>1, <1>2, Asked
  <2>2. Pending("eject", s)'
    BY <1>2, <2>1
  <2> QED
    BY <1>1, <1>2, <2>2, StillWait
<1>4. /\ ejectTimers' = ejectTimers \ {<<s, c>>}
      /\ UNCHANGED <<conn, scanning, users, reconnect, seats, sitQueue,
                     reserved, bootTimers, holder, deleted, failed>>
  BY DEF EjectFires
<1>5. TableTypes'
  BY <1>1, <1>3, <1>4 DEF TableTypes
<1>6. StandingUp' /\ ReservedIsFree'
  BY <1>1, <1>4 DEF StandingUp, ReservedIsFree
<1>7. ReservationExpires'
  <2> SUFFICES ASSUME NEW i \in DOMAIN reserved, ~reserved[i].timer
               PROVE  Pending("boot", reserved[i].index)'
    BY <1>4 DEF ReservationExpires
  <2>1. Pending("boot", reserved[i].index)
    BY <1>1 DEF ReservationExpires
  <2> QED
    BY <1>3, <1>4, <2>1
<1>8. AwayIsEjected'
  <2> SUFFICES ASSUME NEW t \in Seats, seats[t] # Empty, seats[t].member,
                      seats[t].conn = NoConn,
                      <<t, seats[t].timer>> \notin ejectTimers'
               PROVE  Pending("eject", t)'
    BY <1>4 DEF AwayIsEjected
  <2>1. CASE t = s
    BY <1>3, <2>1
  <2>2. CASE t # s
    <3>1. <<t, seats[t].timer>> \notin ejectTimers
      BY <1>4, <2>2
    <3>2. Pending("eject", t)
      BY <1>1, <3>1 DEF AwayIsEjected
    <3> QED
      BY <1>3, <3>2
  <2> QED
    BY <2>1, <2>2
<1> QED
  BY <1>5, <1>6, <1>7, <1>8 DEF IInv

LEMMA ScanKeeps ==
    ASSUME IInv, NEW c \in Conns, Scan(c)
    PROVE  IInv'
<1>1. TableTypes
  BY DEF IInv
<1>2. /\ scanning' \subseteq Conns /\ failed' \in Failures
      /\ UNCHANGED <<conn, users, seats, ejectTimers, sitQueue, reserved,
                     bootTimers, holder, deleted>>
  BY <1>1 DEF Scan, TableTypes, Failures
<1>3. calls' \in Seq(Call) /\ \A op, s : Pending(op, s) => Pending(op, s)'
  <2> DEFINE first == FirstOf(Resumable(c[1]))
  <2>1. ASSUME Resumable(c[1]) # {}
        PROVE  [op |-> "resume", conn |-> c, seat |-> first] \in Call
    <3>1. Resumable(c[1]) \in SUBSET Nat /\ Resumable(c[1]) \subseteq Seats
      BY DEF Resumable, Seats
    <3>2. first \in Seats
      BY <2>1, <3>1, FirstIsIn
    <3> QED
      BY <3>2, Callers
  <2>2. CASE calls' = calls \/ \E x \in Call : calls' = Append(calls, x)
    BY <1>1, <2>2, StillWait
  <2>3. ASSUME NEW n \in Nat,
               calls' = calls \o [i \in 1 .. n |->
                           [op |-> "resume", conn |-> c, seat |-> NoSeat]]
        PROVE  /\ calls' \in Seq(Call)
               /\ \A op, s : Pending(op, s) => Pending(op, s)'
    <3> DEFINE more == [i \in 1 .. n |->
                           [op |-> "resume", conn |-> c, seat |-> NoSeat]]
    <3>0. [op |-> "resume", conn |-> c, seat |-> NoSeat] \in Call
      BY Callers
    <3>1. more \in Seq(Call) /\ calls \in Seq(Call) /\ calls' = calls \o more
      BY <1>1, <2>3, <3>0, IsASeq DEF TableTypes
    <3> HIDE DEF more
    <3>4. Len(calls) \in Nat /\ Len(more) \in Nat
      BY <3>1, LenProperties
    <3>2. /\ calls' \in Seq(Call) /\ Len(calls') = Len(calls) + Len(more)
          /\ \A k \in 1 .. Len(calls) : calls'[k] = calls[k]
      BY <3>1, <3>4, ConcatProperties
    <3>3. /\ DOMAIN calls = 1 .. Len(calls) /\ DOMAIN calls' = 1 .. Len(calls')
          /\ Len(calls) \in Nat /\ Len(more) \in Nat
      BY <3>1, <3>2, LenProperties
    <3> QED
      BY <3>2, <3>3 DEF Pending
  <2>4. \A a, n : n \in 0 .. a => n \in Nat
    OBVIOUS
  <2>5. CASE \E n \in Nat :
                calls' = calls \o [i \in 1 .. n |->
                           [op |-> "resume", conn |-> c, seat |-> NoSeat]]
    BY <2>3, <2>5
  <2>6. \/ calls' = calls \/ \E x \in Call : calls' = Append(calls, x)
        \/ \E n \in Nat :
                calls' = calls \o [i \in 1 .. n |->
                           [op |-> "resume", conn |-> c, seat |-> NoSeat]]
    BY <2>1, <2>4 DEF Scan, Ask
  <2> QED
    BY <2>2, <2>5, <2>6
<1>4. TableTypes'
  BY <1>1, <1>2, <1>3 DEF TableTypes
<1> QED
  BY <1>2, <1>3, <1>4, QuietKeeps DEF StillPending

-----------------------------------------------------------------------------
\* A handler is served: no timer's call is lost but its own.
LEMMA ServedWait ==
    ASSUME TableTypes, NEW op, Granted(op)
    PROVE  /\ Head(calls) \in Call /\ Head(calls).op = op
           /\ calls' \in Seq(Call) /\ holder = Free
           /\ op \notin {"boot", "eject"} => StillPending({})
           /\ StillPending({<<op, Head(calls).seat>>})
BY Served DEF StillPending

\* The socket and the seat that a call names
LEMMA CallSeats ==
    ASSUME NEW x \in Call
    PROVE  /\ x.op \in {"join", "stand", "leave", "logout", "away", "kick",
                        "sit", "resume", "eject"} => x.conn \in Conns
           /\ x.op \in {"sit", "resume"} => x.seat \in Seats \cup {NoSeat}
           /\ x.op \in {"eject", "boot"} => x.seat \in Seats
BY DEF Call

\* A call that fails, does nothing, or changes no more than users, sockets and
\* the waiting list
LEMMA UsersServed ==
    ASSUME IInv, calls' \in Seq(Call), StillPending({}),
           conn' \in [Conns -> {"none", "in", "lost", "cleared"}],
           users' \in [Users -> Conns \cup {NoConn}],
           sitQueue' \in Seq(Conns), deleted' \in BOOLEAN,
           failed' \in Failures,
           UNCHANGED <<scanning, seats, ejectTimers, reserved, bootTimers,
                       holder>>
    PROVE  IInv'
<1>1. TableTypes'
  BY DEF IInv, TableTypes
<1> QED
  BY <1>1, QuietKeeps DEF StillPending

\* Whoever leaves the waiting list is spliced out of it.
LEMMA DequeuedTypes ==
    ASSUME TableTypes, NEW c \in Conns, Queued(c)
    PROVE  Dequeued(c) \in Seq(Conns)
<1> DEFINE mine == {i \in DOMAIN sitQueue : sitQueue[i] = c}
<1>1. mine # {} /\ mine \in SUBSET Nat /\ sitQueue \in Seq(Conns)
  BY LenProperties DEF TableTypes, Queued, Waits
<1>2. FirstOf(mine) \in mine
  BY <1>1, FirstIsIn
<1> QED
  BY <1>1, <1>2, Removed DEF Dequeued

LEMMA GrantJoinKeeps ==
    ASSUME IInv, GrantJoin
    PROVE  IInv'
<1>1. TableTypes
  BY DEF IInv
<1>2. /\ Head(calls).conn \in Conns /\ calls' \in Seq(Call)
      /\ StillPending({})
  BY <1>1, ServedWait, CallSeats DEF GrantJoin
<1>3. Head(calls).conn[1] \in Users
  BY <1>2, Callers
<1>4. /\ conn' = conn /\ sitQueue' = sitQueue /\ deleted' = deleted
      /\ UNCHANGED <<scanning, seats, ejectTimers, reserved, bootTimers,
                     holder>>
      /\ failed' \in Failures
      /\ users' \in [Users -> Conns \cup {NoConn}]
  BY <1>1, <1>2, <1>3 DEF GrantJoin, Fail, TableTypes, Failures
<1> QED
  BY <1>1, <1>2, <1>4, UsersServed DEF TableTypes

\* A call that finds nothing to do, or fails
LEMMA IgnoreKeeps ==
    ASSUME IInv, NEW op, op \notin {"boot", "eject"}, Granted(op),
           Ignore \/ \E why \in Failures : Fail(why)
    PROVE  IInv'
<1>1. TableTypes
  BY DEF IInv
<1>2. calls' \in Seq(Call) /\ StillPending({})
  BY <1>1, ServedWait
<1>3. /\ conn' = conn /\ users' = users /\ sitQueue' = sitQueue
      /\ deleted' = deleted /\ failed' \in Failures
      /\ UNCHANGED <<scanning, seats, ejectTimers, reserved, bootTimers,
                     holder>>
  BY <1>1 DEF Ignore, Fail, TableTypes
<1> QED
  BY <1>1, <1>2, <1>3, UsersServed DEF TableTypes

\* What may be stood up is a seat that FindSeat has found.
LEMMA FoundKeeps ==
    ASSUME IInv, NEW op \in {"stand", "leave", "logout", "kick"}, Granted(op),
           FindSeat(Head(calls).conn) # NoSeat,
           BeginStandUp(op, Head(calls).conn, FindSeat(Head(calls).conn), {})
    PROVE  IInv'
<1>1. TableTypes
  BY DEF IInv
<1>2. /\ calls' \in Seq(Call) /\ StillPending({})
      /\ Head(calls).conn \in Conns
  BY <1>1, ServedWait, CallSeats
<1>3. PICK c \in Conns, s \in Seats :
        seats[s] # Empty /\ BeginStandUp(op, c, s, {})
  BY <1>2, FoundSeat
<1>4. StillPending({<<"eject", s>>})
  BY <1>2 DEF StillPending
<1> QED
  BY <1>2, <1>3, <1>4, BeginKeeps

LEMMA GrantStandKeeps ==
    ASSUME IInv, GrantStand
    PROVE  IInv'
<1> DEFINE c == Head(calls).conn
<1>1. TableTypes /\ Granted("stand")
  BY DEF IInv, GrantStand
<1>2. /\ calls' \in Seq(Call) /\ StillPending({}) /\ c \in Conns
  <2>1. "stand" \notin {"boot", "eject"}
    OBVIOUS
  <2>2. /\ calls' \in Seq(Call) /\ StillPending({})
        /\ Head(calls) \in Call /\ Head(calls).op = "stand"
    BY <1>1, <2>1, ServedWait
  <2> QED
    BY <2>2, CallSeats
<1>3. CASE FindSeat(c) # NoSeat /\ BeginStandUp("stand", c, FindSeat(c), {})
  BY <1>1, <1>3, FoundKeeps
<1>4. CASE /\ Queued(c) /\ sitQueue' = Dequeued(c)
           /\ UNCHANGED <<conn, scanning, users, reconnect, seats,
                          ejectTimers, reserved, bootTimers, holder,
                          deleted, failed>>
  <2>1. sitQueue' \in Seq(Conns)
    BY <1>1, <1>2, <1>4, DequeuedTypes
  <2> QED
    BY <1>1, <1>2, <1>4, <2>1, UsersServed DEF TableTypes
<1>5. CASE Ignore
  BY <1>1, <1>5, IgnoreKeeps
<1> QED
  BY <1>3, <1>4, <1>5 DEF GrantStand

LEMMA AfterLeaveTypes ==
    ASSUME TableTypes, NEW c \in Conns, NEW op, AfterLeave(op, c)
    PROVE  /\ conn' \in [Conns -> {"none", "in", "lost", "cleared"}]
           /\ deleted' \in BOOLEAN
BY DEF AfterLeave, TableTypes, Deserted

LEMMA GrantLeaveKeeps ==
    ASSUME IInv, NEW op \in {"leave", "logout"}, GrantLeave(op)
    PROVE  IInv'
<1> DEFINE c == Head(calls).conn
<1>1. TableTypes /\ Granted(op)
  BY DEF IInv, GrantLeave
<1>2. /\ calls' \in Seq(Call) /\ StillPending({}) /\ c \in Conns
  BY <1>1, ServedWait, CallSeats
<1>3. CASE FindSeat(c) # NoSeat /\ BeginStandUp(op, c, FindSeat(c), {})
  BY <1>1, <1>3, FoundKeeps
<1>4. CASE /\ Queued(c) /\ sitQueue' = Dequeued(c)
           /\ UNCHANGED <<conn, scanning, users, reconnect, seats,
                          ejectTimers, reserved, bootTimers, holder,
                          deleted, failed>>
  <2>1. sitQueue' \in Seq(Conns)
    BY <1>1, <1>2, <1>4, DequeuedTypes
  <2> QED
    BY <1>1, <1>2, <1>4, <2>1, UsersServed DEF TableTypes
<1>5. CASE /\ AfterLeave(op, c)
           /\ UNCHANGED <<scanning, users, reconnect, seats, ejectTimers,
                          sitQueue, reserved, bootTimers, holder, failed>>
  <2>1. /\ conn' \in [Conns -> {"none", "in", "lost", "cleared"}]
        /\ deleted' \in BOOLEAN
    BY <1>1, <1>2, <1>5, AfterLeaveTypes
  <2> QED
    BY <1>1, <1>2, <1>5, <2>1, UsersServed DEF TableTypes
<1> QED
  BY <1>3, <1>4, <1>5 DEF GrantLeave

LEMMA GrantKickKeeps ==
    ASSUME IInv, GrantKick
    PROVE  IInv'
<1>1. TableTypes /\ Granted("kick")
  BY DEF IInv, GrantKick
<1>2. CASE Fail("kickOfNobody")
  BY <1>1, <1>2, IgnoreKeeps DEF Failures
<1>3. CASE /\ FindSeat(Head(calls).conn) # NoSeat
           /\ BeginStandUp("kick", Head(calls).conn,
                           FindSeat(Head(calls).conn), {})
  BY <1>1, <1>3, FoundKeeps
<1> QED
  BY <1>2, <1>3 DEF GrantKick

LEMMA GrantEjectKeeps ==
    ASSUME IInv, GrantEject
    PROVE  IInv'
<1> DEFINE c == Head(calls).conn
           s == Head(calls).seat
<1>1. TableTypes /\ Granted("eject")
  BY DEF IInv, GrantEject
<1>2. /\ calls' \in Seq(Call) /\ StillPending({<<"eject", s>>})
      /\ c \in Conns /\ s \in Seats
  BY <1>1, ServedWait, CallSeats
<1>3. CASE seats[s] = Empty /\ Fail("ejectOfNobody")
  <2>1. TableTypes' /\ UNCHANGED <<seats, reserved, ejectTimers, holder>>
    BY <1>1, <1>2, <1>3 DEF Fail, TableTypes, Failures
  <2>2. StillPending({<<"eject", t>> : t \in {u \in Seats : seats[u] = Empty}})
    BY <1>2, <1>3 DEF StillPending
  <2> QED
    BY <2>1, <2>2, QuietKeeps
<1>4. CASE seats[s] # Empty /\ BeginStandUp("eject", c, s, {})
  <2>1. PICK d \in Conns, t \in Seats : d = c /\ t = s
    BY <1>2
  <2>2. /\ seats[t] # Empty /\ BeginStandUp("eject", d, t, {})
        /\ StillPending({<<"eject", t>>})
    BY <1>2, <1>4, <2>1
  <2> QED
    BY <1>2, <2>2, BeginKeeps
<1> QED
  BY <1>3, <1>4 DEF GrantEject

LEMMA UnstickNextKeeps ==
    ASSUME IInv, UnstickNext
    PROVE  IInv'
<1>1. TableTypes /\ StandingUp
  BY DEF IInv
<1>2. /\ holder \in StandUpState /\ holder.seat = NoSeat /\ calls' = calls
      /\ holder.todo \in SUBSET Seats /\ holder.todo # {}
  BY <1>1, Marks DEF UnstickNext, Runs, TableTypes, StandUpState, StandingUp
<1> DEFINE x == LastOf(holder.todo)
           c == seats[x].conn
           s == IF c = NoConn THEN x ELSE FindSeat(c)
<1>3. x \in Seats
  BY <1>2, LastIsIn
<1>4. calls' \in Seq(Call) /\ \A served : StillPending(served)
  BY <1>1, <1>2 DEF TableTypes, StillPending, Pending
<1>5. CASE Fail("unstickOfNobody")
  <2>1. TableTypes' /\ UNCHANGED <<seats, reserved, ejectTimers, holder>>
    BY <1>1, <1>2, <1>5 DEF Fail, TableTypes, Failures
  <2> QED
    BY <1>4, <2>1, QuietKeeps
<1>6. CASE seats[x] # Empty /\ BeginStandUp("unstick", c, s, holder.todo \ {x})
  <2>1. c \in Conns \cup {NoConn}
    BY <1>1, <1>3, <1>6 DEF TableTypes, SeatState
  <2>2. ASSUME c # NoConn
        PROVE  s \in Seats /\ seats[s] # Empty
    <3>1. x \in SeatsOf(c)
      BY <1>3, <1>6 DEF SeatsOf
    <3>2. SeatsOf(c) \in SUBSET Nat
      BY DEF SeatsOf, Seats
    <3>3. FindSeat(c) \in SeatsOf(c)
      BY <3>1, <3>2, FirstIsIn DEF FindSeat
    <3> QED
      BY <2>2, <3>3 DEF SeatsOf
  <2>3. s \in Seats /\ seats[s] # Empty
    BY <1>3, <1>6, <2>2
  <2> HIDE DEF c, s, x
  <2>4. holder.todo \ {x} \in SUBSET Seats
    BY <1>2
  <2> QED
    BY <1>4, <1>6, <2>1, <2>3, <2>4, BeginKeeps
<1> QED
  BY <1>5, <1>6 DEF UnstickNext

-----------------------------------------------------------------------------
\* An offer that is spliced out was the only one of its seat.
LEMMA Withdrawn ==
    ASSUME TableTypes, ReservedIsFree, NEW s, ReservationsOf(s) # {}
    PROVE  LET o == FirstOf(ReservationsOf(s))
               list == RemoveAt(reserved, o)
           IN  /\ o \in DOMAIN reserved /\ reserved[o].index = s
               /\ list \in Seq(Reservation)
               /\ \A i \in DOMAIN list :
                     \E k \in DOMAIN reserved :
                        list[i] = reserved[k] /\ reserved[k].index # s
               /\ \A i, j \in DOMAIN list :
                     list[i].index = list[j].index => i = j
<1> DEFINE o == FirstOf(ReservationsOf(s))
           list == RemoveAt(reserved, o)
<1>1. reserved \in Seq(Reservation) /\ DOMAIN reserved \in SUBSET Nat
  BY LenProperties DEF TableTypes
<1>2. o \in ReservationsOf(s)
  BY <1>1, FirstIsIn DEF ReservationsOf
<1>3. o \in DOMAIN reserved /\ reserved[o].index = s
  BY <1>2 DEF ReservationsOf
<1> HIDE DEF o
<1>4. /\ list \in Seq(Reservation) /\ DOMAIN list \in SUBSET Nat
      /\ \A j \in DOMAIN list :
            \E k \in DOMAIN reserved \ {o} :
               list[j] = reserved[k] /\ k = IF j < o THEN j ELSE j + 1
  BY <1>1, <1>3, Removed, LenProperties
<1> HIDE DEF list
<1>5. \A i \in DOMAIN list : \E k \in DOMAIN reserved :
           list[i] = reserved[k] /\ reserved[k].index # s
  BY <1>3, <1>4 DEF ReservedIsFree
<1>6. ASSUME NEW i \in DOMAIN list, NEW j \in DOMAIN list,
             list[i].index = list[j].index
      PROVE  i = j
  <2>1. PICK k \in DOMAIN reserved \ {o} :
           list[i] = reserved[k] /\ k = IF i < o THEN i ELSE i + 1
    BY <1>4
  <2>2. PICK m \in DOMAIN reserved \ {o} :
           list[j] = reserved[m] /\ m = IF j < o THEN j ELSE j + 1
    BY <1>4
  <2>3. k = m
    BY <1>6, <2>1, <2>2 DEF ReservedIsFree
  <2>4. i \in Nat /\ j \in Nat /\ o \in Nat /\ k # o /\ m # o
    BY <1>1, <1>3, <1>4
  <2> QED
    BY <2>1, <2>2, <2>3, <2>4
<1> QED
  BY <1>3, <1>4, <1>5, <1>6 DEF o, list

\* What a list of offers gains when a seat is offered
LEMMA Offering ==
    ASSUME TableTypes, NEW list \in Seq(Reservation), NEW s \in Seats
    PROVE  /\ StillWaiting \in Seq(Conns)
           /\ Offered(list, s) \in Seq(Reservation)
           /\ DOMAIN list \subseteq DOMAIN Offered(list, s)
           /\ \A i \in DOMAIN Offered(list, s) :
                 \/ i \in DOMAIN list /\ Offered(list, s)[i] = list[i]
                 \/ /\ i = Len(list) + 1
                    /\ Offered(list, s)[i].index = s
                    /\ Offered(list, s)[i].timer
<1>1. sitQueue \in Seq(Conns)
  BY DEF TableTypes
<1>2. CASE sitQueue = <<>>
  BY <1>1, <1>2 DEF StillWaiting, Offered
<1>3. CASE sitQueue # <<>>
  <2> DEFINE new == [index |-> s, user |-> Head(sitQueue)[1], timer |-> TRUE]
  <2>1. Head(sitQueue) \in Conns /\ StillWaiting \in Seq(Conns)
    BY <1>1, <1>3, HeadTailProperties DEF StillWaiting
  <2>2. /\ new \in Reservation /\ new.index = s /\ new.timer
        /\ Offered(list, s) = Append(list, new)
    BY <1>3, <2>1, Callers DEF Reservation, Offered
  <2> HIDE DEF new
  <2>3. /\ Offered(list, s) \in Seq(Reservation)
        /\ Len(Offered(list, s)) = Len(list) + 1
        /\ \A i \in 1 .. Len(list) : Offered(list, s)[i] = list[i]
        /\ Offered(list, s)[Len(list) + 1] = new
    BY <2>2, AppendProperties
  <2>4. /\ DOMAIN list = 1 .. Len(list) /\ Len(list) \in Nat
        /\ DOMAIN Offered(list, s) = 1 .. Len(list) + 1
    BY <2>3, LenProperties
  <2> QED
    BY <2>1, <2>2, <2>3, <2>4
<1> QED
  BY <1>2, <1>3

\* The seat s is offered, when it is free and has no offer yet.
LEMMA OfferKeeps ==
    ASSUME TableTypes, NEW list \in Seq(Reservation), NEW s \in Seats,
           \A i \in DOMAIN list :
              \E k \in DOMAIN reserved :
                 list[i] = reserved[k] /\ reserved[k].index # s,
           \A i, j \in DOMAIN list : list[i].index = list[j].index => i = j,
           ReservedIsFree, ReservationExpires,
           reserved' = Offered(list, s), seats'[s] = Empty,
           \A t \in Seats \ {s} : seats'[t] = seats[t],
           \A t \in Seats : t # s /\ Pending("boot", t) => Pending("boot", t)'
    PROVE  ReservedIsFree' /\ ReservationExpires'
<1>1. /\ DOMAIN list \subseteq DOMAIN reserved'
      /\ \A i \in DOMAIN reserved' :
            \/ i \in DOMAIN list /\ reserved'[i] = list[i]
            \/ /\ i = Len(list) + 1
               /\ reserved'[i].index = s /\ reserved'[i].timer
  BY Offering
<1>2. \A i \in DOMAIN list :
         \E k \in DOMAIN reserved :
            /\ list[i] = reserved[k] /\ reserved[k].index \in Seats \ {s}
            /\ seats[reserved[k].index] = Empty
            /\ reserved[k].timer \/ Pending("boot", reserved[k].index)
  <2> SUFFICES ASSUME NEW i \in DOMAIN list
               PROVE  \E k \in DOMAIN reserved :
            /\ list[i] = reserved[k] /\ reserved[k].index \in Seats \ {s}
            /\ seats[reserved[k].index] = Empty
            /\ reserved[k].timer \/ Pending("boot", reserved[k].index)
    OBVIOUS
  <2>1. PICK k \in DOMAIN reserved :
           list[i] = reserved[k] /\ reserved[k].index # s
    OBVIOUS
  <2>2. /\ reserved[k].index \in Seats /\ seats[reserved[k].index] = Empty
        /\ reserved[k].timer \/ Pending("boot", reserved[k].index)
    BY Offers DEF ReservedIsFree, ReservationExpires
  <2> QED
    BY <2>1, <2>2
<1>3. ASSUME NEW i \in DOMAIN reserved'
      PROVE  /\ seats'[reserved'[i].index] = Empty
             /\ ~reserved'[i].timer => Pending("boot", reserved[i].index)'
  <2>1. CASE reserved'[i].index = s /\ reserved'[i].timer
    BY <2>1
  <2>2. CASE i \in DOMAIN list /\ reserved'[i] = list[i]
    <3>1. PICK k \in DOMAIN reserved :
            /\ list[i] = reserved[k] /\ reserved[k].index \in Seats \ {s}
            /\ seats[reserved[k].index] = Empty
            /\ reserved[k].timer \/ Pending("boot", reserved[k].index)
      BY <1>2, <2>2
    <3>2. PICK t \in Seats \ {s} : t = reserved[k].index
      BY <3>1
    <3>3. reserved'[i].index = t /\ reserved'[i].timer = reserved[k].timer
      BY <2>2, <3>1, <3>2
    <3>4. seats'[t] = Empty
      BY <3>1, <3>2
    <3>5. reserved[k].timer \/ Pending("boot", t)'
      BY <3>1, <3>2
    <3> QED
      BY <3>3, <3>4, <3>5 DEF Pending
  <2> QED
    BY <1>1, <2>1, <2>2
<1>4. ASSUME NEW i \in DOMAIN reserved', NEW j \in DOMAIN reserved',
             reserved'[i].index = reserved'[j].index
      PROVE  i = j
  <2>1. \A m \in DOMAIN reserved' :
           m \in DOMAIN list => list[m].index # s
    BY <1>2
  <2> QED
    BY <1>1, <1>4, <2>1
<1> QED
  BY <1>3, <1>4 DEF ReservedIsFree, ReservationExpires

\* A seat is taken, when what is left are offers of other seats.
LEMMA TakenKeeps ==
    ASSUME TableTypes, NEW list \in Seq(Reservation), NEW s \in Seats,
           \A i \in DOMAIN list :
              \E k \in DOMAIN reserved :
                 list[i] = reserved[k] /\ reserved[k].index # s,
           \A i, j \in DOMAIN list : list[i].index = list[j].index => i = j,
           ReservedIsFree, ReservationExpires, reserved' = list,
           \A t \in Seats \ {s} : seats'[t] = seats[t],
           StillPending({})
    PROVE  ReservedIsFree' /\ ReservationExpires'
<1>1. ASSUME NEW i \in DOMAIN reserved'
      PROVE  /\ seats'[reserved'[i].index] = Empty
             /\ ~reserved'[i].timer => Pending("boot", reserved[i].index)'
  <2>1. PICK k \in DOMAIN reserved :
           reserved'[i] = reserved[k] /\ reserved[k].index # s
    OBVIOUS
  <2>2. /\ reserved[k].index \in Seats /\ seats[reserved[k].index] = Empty
        /\ reserved[k].timer \/ Pending("boot", reserved[k].index)
    BY Offers DEF ReservedIsFree, ReservationExpires
  <2>3. PICK t \in Seats \ {s} : t = reserved[k].index
    BY <2>1, <2>2
  <2>4. seats'[t] = Empty
    BY <2>2, <2>3
  <2>5. reserved[k].timer \/ Pending("boot", t)'
    BY <2>2, <2>3 DEF StillPending
  <2> QED
    BY <2>1, <2>3, <2>4, <2>5 DEF Pending
<1> QED
  BY <1>1 DEF ReservedIsFree, ReservationExpires

LEMMA GrantSitKeeps ==
    ASSUME IInv, GrantSit
    PROVE  IInv'
<1>1. TableTypes /\ StandingUp /\ ReservedIsFree /\ ReservationExpires
      /\ AwayIsEjected /\ Granted("sit")
  BY DEF IInv, GrantSit
<1> DEFINE c == Head(calls).conn
           s == Head(calls).seat
<1>2. /\ calls' \in Seq(Call) /\ StillPending({}) /\ holder = Free
      /\ c \in Conns /\ s \in Seats \cup {NoSeat}
  <2>1. "sit" \notin {"boot", "eject"}
    OBVIOUS
  <2>2. /\ calls' \in Seq(Call) /\ StillPending({}) /\ holder = Free
        /\ Head(calls) \in Call /\ Head(calls).op = "sit"
    BY <1>1, <2>1, ServedWait
  <2> QED
    BY <2>2, CallSeats
<1>3. CASE /\ sitQueue' = Append(sitQueue, c)
           /\ UNCHANGED <<conn, scanning, users, reconnect, seats,
                          ejectTimers, reserved, bootTimers, holder,
                          deleted, failed>>
  <2>1. sitQueue' \in Seq(Conns)
    BY <1>1, <1>2, <1>3, AppendProperties DEF TableTypes
  <2> QED
    BY <1>1, <1>2, <1>3, <2>1, UsersServed DEF TableTypes
<1>4. CASE Ignore
  BY <1>1, <1>4, IgnoreKeeps
<1>5. ASSUME NEW t \in Seats, t = s, NEW d \in Conns, d = c,
             seats[t] = Empty,
             seats' = [seats EXCEPT ![t] =
                         [user |-> d[1], conn |-> d, timer |-> NoConn,
                          member |-> TRUE]],
             reserved' = Unreserved(t),
             UNCHANGED <<conn, scanning, users, reconnect, ejectTimers,
                         sitQueue, bootTimers, holder, deleted, failed>>
      PROVE  IInv'
  <2> DEFINE r == [user |-> d[1], conn |-> d, timer |-> NoConn,
                   member |-> TRUE]
  <2>1. r \in SeatState /\ r.conn # NoConn
    BY <1>1, Callers, Marks DEF SeatState
  <2>2. /\ seats' \in [Seats -> SeatState \cup {Empty}] /\ seats'[t] = r
        /\ \A u \in Seats \ {t} : seats'[u] = seats[u]
    BY <1>1, <1>5, <2>1 DEF TableTypes
  <2> HIDE DEF r
  <2>3. PICK list \in Seq(Reservation) :
           /\ reserved' = list
           /\ \A i \in DOMAIN list :
                 \E k \in DOMAIN reserved :
                    list[i] = reserved[k] /\ reserved[k].index # t
           /\ \A i, j \in DOMAIN list :
                 list[i].index = list[j].index => i = j
    <3>1. CASE ReservationsOf(t) = {}
      <4>1. reserved' = reserved
        BY <1>5, <3>1 DEF Unreserved
      <4>2. \A i \in DOMAIN reserved : reserved[i].index # t
        BY <3>1 DEF ReservationsOf
      <4> QED
        BY <1>1, <4>1, <4>2 DEF ReservedIsFree, TableTypes
    <3>2. CASE ReservationsOf(t) # {}
      <4>1. reserved' = RemoveAt(reserved, FirstOf(ReservationsOf(t)))
        BY <1>5, <3>2 DEF Unreserved
      <4> QED
        BY <1>1, <3>2, <4>1, Withdrawn
    <3> QED
      BY <3>1, <3>2
  <2>4. ReservedIsFree' /\ ReservationExpires'
    BY <1>1, <1>2, <2>2, <2>3, TakenKeeps
  <2>5. TableTypes' /\ StandingUp'
    BY <1>1, <1>2, <1>5, <2>2, <2>3 DEF TableTypes, StandingUp
  <2>6. AwayIsEjected'
    <3> SUFFICES ASSUME NEW u \in Seats, seats'[u] # Empty, seats'[u].member,
                        seats'[u].conn = NoConn,
                        <<u, seats'[u].timer>> \notin ejectTimers
                 PROVE  Pending("eject", u)'
      BY <1>5 DEF AwayIsEjected
    <3>1. u # t /\ seats'[u] = seats[u]
      BY <2>1, <2>2
    <3>2. Pending("eject", u)
      BY <1>1, <3>1 DEF AwayIsEjected
    <3> QED
      BY <1>2, <3>2 DEF StillPending
  <2> QED
    BY <2>4, <2>5, <2>6 DEF IInv
<1> QED
  BY <1>2, <1>3, <1>4, <1>5 DEF GrantSit

LEMMA GrantUnstickKeeps ==
    ASSUME IInv, GrantUnstick
    PROVE  IInv'
<1>1. TableTypes /\ ReservedIsFree /\ ReservationExpires /\ AwayIsEjected
      /\ Granted("unstick")
  BY DEF IInv, GrantUnstick
<1>2. calls' \in Seq(Call) /\ StillPending({})
  <2>1. "unstick" \notin {"boot", "eject"}
    OBVIOUS
  <2> QED
    BY <1>1, <2>1, ServedWait
<1>3. CASE Ignore
  BY <1>1, <1>3, IgnoreKeeps
<1>4. ASSUME NEW todo \in SUBSET {s \in Seats : seats[s] # Empty}, todo # {},
             holder' = [op |-> "unstick", conn |-> NoConn, seat |-> NoSeat,
                        todo |-> todo],
             UNCHANGED <<conn, scanning, users, reconnect, seats, ejectTimers,
                         sitQueue, reserved, bootTimers, deleted, failed>>
      PROVE  IInv'
  <2>1. /\ holder' \in StandUpState /\ holder'.seat = NoSeat
        /\ holder'.todo # {}
    BY <1>4 DEF StandUpState
  <2>2. TableTypes' /\ StandingUp' /\ ReservedIsFree'
    BY <1>1, <1>2, <1>4, <2>1 DEF TableTypes, StandingUp, ReservedIsFree
  <2>3. ReservationExpires'
    <3> SUFFICES ASSUME NEW i \in DOMAIN reserved, ~reserved[i].timer
                 PROVE  Pending("boot", reserved[i].index)'
      BY <1>4 DEF ReservationExpires
    <3>1. Pending("boot", reserved[i].index) /\ reserved[i].index \in Seats
      BY <1>1, Offers DEF ReservationExpires
    <3> QED
      BY <1>2, <1>4, <3>1 DEF StillPending
  <2>4. AwayIsEjected'
    <3> SUFFICES ASSUME NEW s \in Seats, seats[s] # Empty, seats[s].member,
                        seats[s].conn = NoConn,
                        <<s, seats[s].timer>> \notin ejectTimers
                 PROVE  Pending("eject", s)'
      BY <1>4 DEF AwayIsEjected
    <3>1. Pending("eject", s)
      BY <1>1 DEF AwayIsEjected
    <3> QED
      BY <1>2, <3>1 DEF StillPending
  <2> QED
    BY <2>2, <2>3, <2>4 DEF IInv
<1> QED
  BY <1>3, <1>4 DEF GrantUnstick

\* A seat gets another socket, or none, and stays taken.
LEMMA SocketKeeps ==
    ASSUME IInv, NEW s \in Seats, seats[s] # Empty,
           NEW r \in SeatState, seats' = [seats EXCEPT ![s] = r],
           r.member /\ r.conn = NoConn => <<s, r.timer>> \in ejectTimers',
           ejectTimers' \subseteq Seats \X Conns,
           \A t \in Seats \ {s}, c \in Conns :
              <<t, c>> \in ejectTimers => <<t, c>> \in ejectTimers',
           users' \in [Users -> Conns \cup {NoConn}],
           calls' \in Seq(Call), StillPending({}), holder = Free,
           UNCHANGED <<conn, scanning, sitQueue, reserved, bootTimers, holder,
                       deleted, failed>>
    PROVE  IInv'
<1>1. TableTypes /\ ReservedIsFree /\ ReservationExpires /\ AwayIsEjected
  BY DEF IInv
<1>2. /\ seats' \in [Seats -> SeatState \cup {Empty}] /\ seats'[s] = r
      /\ \A t \in Seats \ {s} : seats'[t] = seats[t]
  BY <1>1 DEF TableTypes
<1>3. TableTypes' /\ StandingUp'
  BY <1>1, <1>2 DEF TableTypes, StandingUp
<1>4. ReservedIsFree' /\ ReservationExpires'
  <2>1. \A i \in DOMAIN reserved :
           /\ reserved[i].index \in Seats \ {s}
           /\ seats[reserved[i].index] = Empty
           /\ reserved[i].timer \/ Pending("boot", reserved[i].index)
    BY <1>1, Offers DEF ReservedIsFree, ReservationExpires
  <2>2. ReservedIsFree'
    BY <1>1, <1>2, <2>1 DEF ReservedIsFree
  <2>3. ASSUME NEW i \in DOMAIN reserved, ~reserved[i].timer
        PROVE  Pending("boot", reserved[i].index)'
    <3>1. Pending("boot", reserved[i].index) /\ reserved[i].index \in Seats
      BY <2>1, <2>3
    <3> QED
      BY <3>1 DEF StillPending
  <2> QED
    BY <2>2, <2>3 DEF ReservationExpires
<1>5. AwayIsEjected'
  <2> SUFFICES ASSUME NEW t \in Seats, seats'[t] # Empty, seats'[t].member,
                      seats'[t].conn = NoConn,
                      <<t, seats'[t].timer>> \notin ejectTimers'
               PROVE  Pending("eject", t)'
    BY DEF AwayIsEjected
  <2>1. t # s /\ seats'[t] = seats[t]
    BY <1>2
  <2>2. Pending("eject", t)
    <3>1. <<t, seats[t].timer>> \notin ejectTimers
      BY <1>1, <2>1 DEF TableTypes
    <3> QED
      BY <1>1, <2>1, <3>1 DEF AwayIsEjected
  <2> QED
    BY <2>2 DEF StillPending
<1> QED
  BY <1>3, <1>4, <1>5 DEF IInv

LEMMA GrantAwayKeeps ==
    ASSUME IInv, GrantAway
    PROVE  IInv'
<1>1. TableTypes /\ Granted("away")
  BY DEF IInv, GrantAway
<1>2. /\ calls' \in Seq(Call) /\ StillPending({}) /\ holder = Free
      /\ Head(calls).conn \in Conns
  <2>1. "away" \notin {"boot", "eject"}
    OBVIOUS
  <2>2. /\ calls' \in Seq(Call) /\ StillPending({}) /\ holder = Free
        /\ Head(calls) \in Call /\ Head(calls).op = "away"
    BY <1>1, <2>1, ServedWait
  <2> QED
    BY <2>2, CallSeats
<1>3. PICK c \in Conns : c = Head(calls).conn
  BY <1>2
<1>4. CASE Ignore
  BY <1>1, <1>4, IgnoreKeeps
<1>5. ASSUME NEW s \in Seats, s = FindSeat(c),
             seats' = [seats EXCEPT ![s].conn = NoConn, ![s].timer = c],
             ejectTimers' = ejectTimers \cup {<<s, c>>},
             UNCHANGED <<conn, scanning, users, reconnect, sitQueue, reserved,
                         bootTimers, holder, deleted, failed>>
      PROVE  IInv'
  <2>1. seats[s] # Empty /\ seats[s] \in SeatState
    BY <1>1, <1>5, FoundSeat, Marks
  <2>2. PICK r : r = [seats[s] EXCEPT !.conn = NoConn, !.timer = c]
    OBVIOUS
  <2>3. r \in SeatState /\ r.conn = NoConn /\ r.timer = c
    BY <2>1, <2>2 DEF SeatState
  <2>4. seats' = [seats EXCEPT ![s] = r]
    BY <1>1, <1>5, <2>2 DEF TableTypes
  <2>5. /\ ejectTimers' \subseteq Seats \X Conns
        /\ users' \in [Users -> Conns \cup {NoConn}]
    BY <1>1, <1>5 DEF TableTypes
  <2> QED
    BY <1>2, <1>5, <2>1, <2>3, <2>4, <2>5, SocketKeeps
<1> QED
  BY <1>3, <1>4, <1>5, FoundSeat DEF GrantAway

LEMMA GrantResumeKeeps ==
    ASSUME IInv, GrantResume
    PROVE  IInv'
<1>1. TableTypes /\ Granted("resume") /\ AwayIsEjected
  BY DEF IInv, GrantResume
<1>2. /\ calls' \in Seq(Call) /\ StillPending({}) /\ holder = Free
      /\ Head(calls).conn \in Conns /\ Head(calls).seat \in Seats \cup {NoSeat}
  <2>1. "resume" \notin {"boot", "eject"}
    OBVIOUS
  <2>2. /\ calls' \in Seq(Call) /\ StillPending({}) /\ holder = Free
        /\ Head(calls) \in Call /\ Head(calls).op = "resume"
    BY <1>1, <2>1, ServedWait
  <2> QED
    BY <2>2, CallSeats
<1>3. PICK c \in Conns : c = Head(calls).conn
  BY <1>2
<1>4. CASE \E why \in Failures : Fail(why)
  BY <1>1, <1>4, IgnoreKeeps
<1>5. ASSUME users' = [users EXCEPT ![c[1]] = c],
             UNCHANGED <<conn, scanning, reconnect, sitQueue, reserved,
                         bootTimers, holder, deleted, failed>>,
             UNCHANGED <<seats, ejectTimers>>
      PROVE  IInv'
  <2>1. users' \in [Users -> Conns \cup {NoConn}]
    BY <1>1, <1>5, Callers DEF TableTypes
  <2> QED
    BY <1>1, <1>2, <1>5, <2>1, UsersServed DEF TableTypes
<1>6. ASSUME NEW s \in Seats, seats[s] # Empty,
             users' = [users EXCEPT ![c[1]] = c],
             ejectTimers' = ejectTimers \ {<<s, seats[s].timer>>},
             seats' = [seats EXCEPT ![s].conn = c],
             UNCHANGED <<conn, scanning, reconnect, sitQueue, reserved,
                         bootTimers, holder, deleted, failed>>
      PROVE  IInv'
  <2>1. seats[s] \in SeatState
    BY <1>1, <1>6, Marks
  <2>2. PICK r : r = [seats[s] EXCEPT !.conn = c]
    OBVIOUS
  <2>3. r \in SeatState /\ r.conn # NoConn
    BY <1>1, <2>1, <2>2, Marks DEF SeatState
  <2>4. seats' = [seats EXCEPT ![s] = r]
    BY <1>1, <1>6, <2>2 DEF TableTypes
  <2>5. /\ ejectTimers' \subseteq Seats \X Conns
        /\ users' \in [Users -> Conns \cup {NoConn}]
        /\ \A t \in Seats \ {s}, d \in Conns :
              <<t, d>> \in ejectTimers => <<t, d>> \in ejectTimers'
    BY <1>1, <1>6, Callers DEF TableTypes
  <2> QED
    BY <1>2, <1>6, <2>1, <2>3, <2>4, <2>5, SocketKeeps
<1>7. {"resumeOfNobody", "statusForNobody"} \subseteq Failures
  BY DEF Failures
<1> QED
  BY <1>2, <1>3, <1>4, <1>5, <1>6, <1>7 DEF GrantResume

LEMMA GrantBootKeeps ==
    ASSUME IInv, GrantBoot
    PROVE  IInv'
<1>1. TableTypes /\ ReservedIsFree /\ ReservationExpires /\ AwayIsEjected
      /\ Granted("boot")
  BY DEF IInv, GrantBoot
<1>2. /\ calls' \in Seq(Call) /\ holder = Free /\ Head(calls).seat \in Seats
      /\ StillPending({<<"boot", Head(calls).seat>>})
  BY <1>1, ServedWait, CallSeats
<1>3. PICK s \in Seats : s = Head(calls).seat
  BY <1>2
<1>4. \A t \in Seats : t # s /\ Pending("boot", t) => Pending("boot", t)'
  BY <1>2, <1>3 DEF StillPending
<1>5. UNCHANGED <<conn, scanning, users, reconnect, seats, ejectTimers,
                  deleted, failed>>
  BY DEF GrantBoot
<1>6. AwayIsEjected'
  <2> SUFFICES ASSUME NEW t \in Seats, seats[t] # Empty, seats[t].member,
                      seats[t].conn = NoConn,
                      <<t, seats[t].timer>> \notin ejectTimers
               PROVE  Pending("eject", t)'
    BY <1>5 DEF AwayIsEjected
  <2>1. Pending("eject", t)
    BY <1>1 DEF AwayIsEjected
  <2> QED
    BY <1>2, <2>1 DEF StillPending
<1>7. CASE /\ ReservationsOf(s) = {} /\ holder' = Leaked
           /\ UNCHANGED <<sitQueue, reserved, bootTimers>>
  <2>1. TableTypes' /\ StandingUp' /\ ReservedIsFree'
    BY <1>1, <1>2, <1>5, <1>7 DEF TableTypes, StandingUp, ReservedIsFree
  <2>2. ReservationExpires'
    <3> SUFFICES ASSUME NEW i \in DOMAIN reserved, ~reserved[i].timer
                 PROVE  Pending("boot", reserved[i].index)'
      BY <1>7 DEF ReservationExpires
    <3>1. Pending("boot", reserved[i].index) /\ reserved[i].index \in Seats
      BY <1>1, Offers DEF ReservationExpires
    <3>2. reserved[i].index # s
      BY <1>7 DEF ReservationsOf
    <3> QED
      BY <1>4, <1>7, <3>1, <3>2
  <2> QED
    BY <1>6, <2>1, <2>2 DEF IInv
<1>8. CASE /\ ReservationsOf(s) # {} /\ UNCHANGED holder
           /\ reserved' = Offered(RemoveAt(reserved,
                                           FirstOf(ReservationsOf(s))), s)
           /\ sitQueue' = StillWaiting
           /\ bootTimers' = [bootTimers EXCEPT ![s] = @ + 1]
              \/ bootTimers' = bootTimers
  <2>1. PICK o \in DOMAIN reserved, list \in Seq(Reservation) :
           /\ reserved[o].index = s /\ reserved' = Offered(list, s)
           /\ \A i \in DOMAIN list :
                 \E k \in DOMAIN reserved :
                    list[i] = reserved[k] /\ reserved[k].index # s
           /\ \A i, j \in DOMAIN list :
                 list[i].index = list[j].index => i = j
    BY <1>1, <1>8, Withdrawn
  <2>2. seats'[s] = Empty /\ \A t \in Seats \ {s} : seats'[t] = seats[t]
    BY <1>1, <1>5, <2>1 DEF ReservedIsFree
  <2>3. ReservedIsFree' /\ ReservationExpires'
    BY <1>1, <1>4, <2>1, <2>2, OfferKeeps
  <2>4. sitQueue' \in Seq(Conns) /\ reserved' \in Seq(Reservation)
    BY <1>1, <1>8, <2>1, Offering
  <2>5. bootTimers' \in [Seats -> Nat]
    <3>1. bootTimers \in [Seats -> Nat] /\ bootTimers[s] + 1 \in Nat
      BY <1>1 DEF TableTypes
    <3>2. CASE bootTimers' = [bootTimers EXCEPT ![s] = @ + 1]
      BY <3>1, <3>2
    <3>3. CASE bootTimers' = bootTimers
      BY <3>1, <3>3
    <3> QED
      BY <1>8, <3>2, <3>3
  <2>6. TableTypes' /\ StandingUp'
    BY <1>1, <1>2, <1>5, <1>8, <2>4, <2>5 DEF TableTypes, StandingUp
  <2> QED
    BY <1>6, <2>3, <2>6 DEF IInv
<1> QED
  BY <1>3, <1>7, <1>8 DEF GrantBoot

LEMMA StandUpDoneKeeps ==
    ASSUME IInv, StandUpDone
    PROVE  IInv'
<1>1. TableTypes /\ StandingUp /\ ReservedIsFree /\ ReservationExpires
      /\ AwayIsEjected
  BY DEF IInv
<1>2. holder \in StandUpState /\ holder.seat \in Seats
      /\ seats[holder.seat] # Empty
  BY <1>1 DEF StandUpDone, Runs, TableTypes, StandUpState, StandingUp
<1>3. PICK s \in Seats : s = holder.seat /\ seats[s] # Empty
  BY <1>2
<1>4. /\ seats' = [seats EXCEPT ![s] = Empty]
      /\ reserved' = Offered(reserved, s) /\ sitQueue' = StillWaiting
      /\ UNCHANGED <<scanning, users, ejectTimers, bootTimers, calls>>
  BY <1>3 DEF StandUpDone
<1>5. /\ seats' \in [Seats -> SeatState \cup {Empty}] /\ seats'[s] = Empty
      /\ \A t \in Seats \ {s} : seats'[t] = seats[t]
  BY <1>1, <1>4 DEF TableTypes
<1>6. \A op, t : Pending(op, t) => Pending(op, t)'
  BY <1>4 DEF Pending
<1>7. ReservedIsFree' /\ ReservationExpires'
  <2>1. reserved \in Seq(Reservation)
    BY <1>1 DEF TableTypes
  <2>2. PICK list \in Seq(Reservation) :
           /\ list = reserved /\ reserved' = Offered(list, s)
           /\ \A i \in DOMAIN list :
                 \E k \in DOMAIN reserved :
                    list[i] = reserved[k] /\ reserved[k].index # s
           /\ \A i, j \in DOMAIN list :
                 list[i].index = list[j].index => i = j
    BY <1>1, <1>3, <1>4, <2>1 DEF ReservedIsFree
  <2> QED
    BY <1>1, <1>5, <1>6, <2>2, OfferKeeps
<1>8. /\ conn' \in [Conns -> {"none", "in", "lost", "cleared"}]
      /\ deleted' \in BOOLEAN
  BY <1>1, <1>2 DEF StandUpDone, AfterLeave, TableTypes, StandUpState, Deserted
<1>9. failed' \in Failures
  BY <1>1 DEF StandUpDone, TableTypes, Failures
<1>10. /\ holder' \in StandUpState \cup {Free}
       /\ holder' # Free => holder'.seat = NoSeat /\ holder'.todo # {}
  <2>1. CASE holder.todo = {}
    BY <2>1 DEF StandUpDone
  <2>2. CASE holder.todo # {}
    <3>1. holder' = [holder EXCEPT !.seat = NoSeat]
      BY <2>2 DEF StandUpDone
    <3> QED
      BY <1>2, <2>2, <3>1 DEF StandUpState
  <2> QED
    BY <2>1, <2>2
<1>11. sitQueue' \in Seq(Conns) /\ reserved' \in Seq(Reservation)
  BY <1>1, <1>4, Offering DEF TableTypes
<1>12. TableTypes'
  BY <1>1, <1>4, <1>5, <1>8, <1>9, <1>10, <1>11 DEF TableTypes
<1>13. StandingUp'
  BY <1>10 DEF StandingUp
<1>14. AwayIsEjected'
  <2> SUFFICES ASSUME NEW t \in Seats, seats'[t] # Empty, seats'[t].member,
                      seats'[t].conn = NoConn,
                      <<t, seats'[t].timer>> \notin ejectTimers
               PROVE  Pending("eject", t)'
    BY <1>4 DEF AwayIsEjected
  <2>1. seats'[t] = seats[t]
    BY <1>5
  <2> QED
    BY <1>1, <1>6, <2>1 DEF AwayIsEjected
<1> QED
  BY <1>7, <1>12, <1>13, <1>14 DEF IInv

-----------------------------------------------------------------------------
LEMMA InitKeeps == Init => IInv
<1> SUFFICES ASSUME Init PROVE IInv
  OBVIOUS
<1>1. TableTypes
  <2>1. reserved \in Seq(Reservation) /\ calls \in Seq(Call)
        /\ sitQueue \in Seq(Conns)
    BY EmptySeq DEF Init
  <2>2. /\ conn \in [Conns -> {"none", "in", "lost", "cleared"}]
        /\ scanning \subseteq Conns /\ users \in [Users -> Conns \cup {NoConn}]
        /\ seats \in [Seats -> SeatState \cup {Empty}]
        /\ ejectTimers \subseteq Seats \X Conns
    BY DEF Init
  <2>3. /\ bootTimers \in [Seats -> Nat] /\ deleted \in BOOLEAN
        /\ holder \in StandUpState \cup {Free, Leaked} /\ failed \in Failures
    BY DEF Init, Failures
  <2> QED
    BY <2>1, <2>2, <2>3 DEF TableTypes
<1>2. StandingUp /\ ReservedIsFree /\ ReservationExpires
  <2>1. DOMAIN reserved = {} /\ holder = Free
    <3>1. reserved \in Seq(Reservation) /\ Len(reserved) = 0
      BY EmptySeq DEF Init
    <3>2. DOMAIN reserved = 1 .. 0
      BY <3>1, LenProperties
    <3>3. DOMAIN reserved = {}
      BY <3>2
    <3> QED
      BY <3>3 DEF Init
  <2> QED
    BY <2>1 DEF StandingUp, ReservedIsFree, ReservationExpires
<1>3. AwayIsEjected
  BY DEF Init, AwayIsEjected
<1> QED
  BY <1>1, <1>2, <1>3 DEF IInv

LEMMA LockedKeeps ==
    ASSUME IInv, Locked
    PROVE  IInv'
BY GrantJoinKeeps, GrantSitKeeps, GrantStandKeeps, GrantLeaveKeeps,
   GrantAwayKeeps, GrantEjectKeeps, GrantResumeKeeps, GrantKickKeeps,
   GrantBootKeeps, GrantUnstickKeeps, UnstickNextKeeps, StandUpDoneKeeps
   DEF Locked

LEMMA StutterKeeps ==
    ASSUME IInv, UNCHANGED vars
    PROVE  IInv'
<1>1. TableTypes'
  BY DEF IInv, TableTypes, vars
<1>2. \A served : StillPending(served)
  BY DEF StillPending, Pending, vars
<1> QED
  BY <1>1, <1>2, QuietKeeps DEF vars

LEMMA Invariance == Spec => []IInv
<1>1. IInv /\ [Next]_vars => IInv'
  <2> SUFFICES ASSUME IInv, [Next]_vars PROVE IInv'
    OBVIOUS
  <2>1. CASE Locked
    BY <2>1, LockedKeeps
  <2>2. ASSUME NEW c \in Conns,
               \/ Login(c) \/ Scan(c) \/ Drop(c, "lost") \/ Drop(c, "cleared")
               \/ Logout(c) \/ Join(c) \/ StandUp(c) \/ Leave(c)
               \/ TableSitClose(c) \/ Kick(c)
               \/ \E s \in Seats \cup {NoSeat} : Sit(c, s)
        PROVE  IInv'
    BY <2>2, LoginKeeps, ScanKeeps, DropKeeps, LogoutKeeps, MessagesKeep,
       TableSitCloseKeeps
  <2>3. CASE UnstickFires
    BY <2>3, UnstickFiresKeeps
  <2>4. CASE \E s \in Seats : BootFires(s)
    BY <2>4, BootFiresKeeps
  <2>5. CASE \E s \in Seats, c \in Conns : EjectFires(s, c)
    BY <2>5, EjectFiresKeeps
  <2>6. CASE UNCHANGED vars
    BY <2>6, StutterKeeps
  <2> QED
    BY <2>1, <2>2, <2>3, <2>4, <2>5, <2>6 DEF Next
<1> QED
  BY <1>1, InitKeeps, PTL DEF Spec

-----------------------------------------------------------------------------
\* For any number of users, sockets, seats and calls: whoever stands up, sits
\* down or declines in whatever order, a seat that is on offer is free, and on
\* offer to one user (sitDown, standUp and bootReserved of game.js).
THEOREM OfferedSeatsAreFree == Spec => []ReservedIsFree
<1>1. IInv => ReservedIsFree
  BY DEF IInv
<1> QED
  BY <1>1, Invariance, PTL

\* No offer of a seat is ever forgotten: its timer runs or a call of
\* bootReserved for its seat waits for the lock, even after tableSitClose has
\* cleared the timer.
THEOREM OffersExpire == Spec => []ReservationExpires
<1>1. IInv => ReservationExpires
  BY DEF IInv
<1> QED
  BY <1>1, Invariance, PTL

\* A member without a socket always has the timer of eject running for his
\* seat, or its call waiting, whoever sat there before and whatever logins come
\* and go (handleDisconnect, eject and reconnectUser of game.js).
THEOREM AbsenceIsTimed == Spec => []AwayIsEjected
<1>1. IInv => AwayIsEjected
  BY DEF IInv
<1> QED
  BY <1>1, Invariance, PTL
-----------------------------------------------------------------------------
(***************************************************************************)
(* Nobody has two seats, and nobody who has gone keeps one for good.  Both *)
(* need that every user connects once: userLogin takes over the seats of   *)
(* an earlier socket by the name of the user, and while the call that does *)
(* it waits for the lock of the table, the user may take another seat.     *)
(*                                                                         *)
(* A seat then has the socket of its user or none, and a seat without one  *)
(* belongs to somebody whose socket is gone.  Whoever is to be ejected has *)
(* gone and has no seat with his socket any more; and while standUp saves  *)
(* the stack, the seat that it empties is the only one of its socket.      *)
(***************************************************************************)

\* Every user connects once.
OneSocketEach == \A c, d \in Conns : c[1] = d[1] => c = d

Waiting == {calls[k] : k \in DOMAIN calls}
Gone(c) == conn[c] \in {"lost", "cleared"}
Departures == {"leave", "logout", "away"}

\* No login looks for the tables of an earlier one.
NobodyReturns == scanning = {} /\ \A w \in Waiting : w.op # "resume"

\* A seat has the socket of its user, unless that is gone.
OwnSeat ==
    \A s \in Seats : seats[s] # Empty =>
        IF seats[s].conn = NoConn
        THEN \A c \in Conns : c[1] = seats[s].user => Gone(c)
        ELSE seats[s].conn[1] = seats[s].user

AwayIsGone == \A w \in Waiting : w.op = "away" => Gone(w.conn)

\* A socket that a seat is to be emptied for has no seat any more.
Unseated(c) == \A s \in Seats : seats[s] # Empty => seats[s].conn # c
Ejected(c) == \/ \E s \in Seats : <<s, c>> \in ejectTimers
              \/ \E w \in Waiting : w.op = "eject" /\ w.conn = c
EjectedIsGone == \A c \in Conns : Ejected(c) => Gone(c) /\ Unseated(c)

\* standUp empties the one seat of the socket it is called for.
HolderHasNoOther ==
    holder \notin {Free, Leaked} =>
        \A s \in Seats : seats[s] # Empty /\ seats[s].conn # NoConn
                            /\ seats[s].conn = holder.conn => s = holder.seat

SInv ==
    /\ NobodyReturns /\ OwnSeat /\ AwayIsGone /\ EjectedIsGone
    /\ HolderHasNoOther /\ OneSeatEach /\ SeatedIsPresent

-----------------------------------------------------------------------------
\* findSeat, for sockets that have a seat and for those that have none.
LEMMA FoundConn ==
    ASSUME NEW c
    PROVE  /\ FindSeat(c) # NoSeat =>
                /\ FindSeat(c) \in Seats /\ seats[FindSeat(c)] # Empty
                /\ seats[FindSeat(c)].conn = c
           /\ FindSeat(c) = NoSeat => Unseated(c)
<1>1. SeatsOf(c) \in SUBSET Nat
  BY DEF SeatsOf, Seats
<1>2. ASSUME SeatsOf(c) # {}
      PROVE  FindSeat(c) \in SeatsOf(c) /\ FindSeat(c) # NoSeat
  <2>1. FindSeat(c) \in SeatsOf(c)
    BY <1>1, <1>2, FirstIsIn DEF FindSeat
  <2> QED
    BY <1>1, <2>1 DEF NoSeat
<1>3. SeatsOf(c) = {} => FindSeat(c) = NoSeat
  BY DEF FindSeat
<1> QED
  BY <1>2, <1>3 DEF SeatsOf, Unseated

\* Two seats of one socket are one seat.
LEMMA OneSeatOfSocket ==
    ASSUME SInv, NEW s \in Seats, NEW t \in Seats, seats[s] # Empty,
           seats[t] # Empty, seats[s].conn # NoConn,
           seats[s].conn = seats[t].conn
    PROVE  s = t
<1>1. seats[s].user = seats[t].user
  BY DEF SInv, OwnSeat
<1> QED
  BY <1>1 DEF SInv, OneSeatEach

LEMMA AskedWaiting ==
    ASSUME TableTypes, NEW x \in Call, calls' = Append(calls, x)
    PROVE  Waiting' = Waiting \cup {x}
<1>1. calls \in Seq(Call)
  BY DEF TableTypes
<1>2. /\ Len(calls') = Len(calls) + 1 /\ Len(calls) \in Nat
      /\ \A k \in 1..Len(calls) : calls'[k] = calls[k]
      /\ calls'[Len(calls) + 1] = x
      /\ DOMAIN calls = 1..Len(calls) /\ DOMAIN calls' = 1..Len(calls) + 1
  BY <1>1, AppendProperties, LenProperties
<1> QED
  BY <1>2 DEF Waiting

LEMMA ServedWaiting ==
    ASSUME TableTypes, NEW op, Granted(op)
    PROVE  /\ Head(calls) \in Waiting /\ Head(calls) \in Call
           /\ Head(calls).op = op
           /\ Waiting' \subseteq Waiting
           /\ Waiting \subseteq Waiting' \cup {Head(calls)}
           /\ holder = Free
<1>1. calls \in Seq(Call) /\ calls # <<>> /\ Head(calls).op = op
      /\ calls' = Tail(calls) /\ holder = Free
  BY DEF Granted, TableTypes
<1>2. /\ Head(calls) \in Call
      /\ Len(calls') = Len(calls) - 1 /\ Len(calls) \in Nat \ {0}
      /\ \A k \in 1..Len(calls) - 1 : calls'[k] = calls[k + 1]
      /\ Head(calls) = calls[1]
      /\ DOMAIN calls = 1..Len(calls) /\ DOMAIN calls' = 1..Len(calls) - 1
  BY <1>1, HeadTailProperties, LenProperties
<1>3. Waiting' \subseteq Waiting
  <2> SUFFICES ASSUME NEW k \in 1..Len(calls) - 1
               PROVE  calls'[k] \in Waiting
    BY <1>2 DEF Waiting
  <2>1. k + 1 \in 1..Len(calls)
    BY <1>2
  <2> QED
    BY <1>2, <2>1 DEF Waiting
<1>4. ASSUME NEW k \in 1..Len(calls)
      PROVE  calls[k] \in Waiting' \cup {Head(calls)}
  <2>1. CASE k = 1
    BY <1>2, <2>1
  <2>2. CASE k # 1
    <3>1. k - 1 \in 1..Len(calls) - 1 /\ calls'[k - 1] = calls[k]
      BY <1>2, <2>2
    <3> QED
      BY <1>2, <3>1 DEF Waiting
  <2> QED
    BY <2>1, <2>2
<1>5. Head(calls) \in Waiting
  <2>1. 1 \in DOMAIN calls
    BY <1>2
  <2> QED
    BY <1>2, <2>1 DEF Waiting
<1> QED
  BY <1>1, <1>2, <1>3, <1>4, <1>5 DEF Waiting

LEMMA LeavingBy ==
    ASSUME NEW c
    PROVE  Leaving(c) <=> \/ \E w \in Waiting : w.op \in Departures /\ w.conn = c
                          \/ holder \notin {Free, Leaked} /\ holder.conn = c
BY DEF Leaving, Waiting, Departures

\* The seats that are taken have the users and sockets they had.
SameSeats ==
    \A s \in Seats : seats'[s] # Empty =>
        /\ seats[s] # Empty
        /\ seats'[s].user = seats[s].user /\ seats'[s].conn = seats[s].conn

\* Calls that are made and calls that are served, while nobody sits down or
\* loses his socket.
LEMMA SeatsStill ==
    ASSUME SInv, TableTypes, OneSocketEach, SameSeats,
           scanning' = {}, ejectTimers' \subseteq ejectTimers,
           \A c \in Conns : Gone(c) => Gone(c)',
           \A w \in Waiting' \ Waiting :
              /\ w.op # "resume" /\ w.conn \in Conns \cup {NoConn}
              /\ w.op = "away" => Gone(w.conn)'
              /\ w.op = "eject" =>
                    \E s \in Seats : <<s, w.conn>> \in ejectTimers,
           \A w \in Waiting \ Waiting' : w.op \in Departures =>
              Unseated(w.conn) \/ (holder' \notin {Free, Leaked}
                                     /\ holder'.conn = w.conn),
           \A u \in Users : users'[u] = NoConn =>
              \/ users[u] = NoConn
              \/ \E w \in Waiting' : /\ w.op \in Departures
                                     /\ w.conn \in Conns /\ w.conn[1] = u,
           holder' \notin {Free, Leaked} =>
              \A s \in Seats : seats'[s] # Empty /\ seats[s].conn # NoConn
                 /\ seats[s].conn = holder'.conn => s = holder'.seat,
           holder' = holder \/ holder \in {Free, Leaked}
              \/ \A s \in Seats : seats'[s] # Empty /\ seats[s].conn # NoConn
                    => seats[s].conn # holder.conn
    PROVE  SInv'
<1>1. NobodyReturns'
  BY DEF SInv, NobodyReturns
<1>2. \A s \in Seats : seats[s] # Empty =>
         seats[s].user \in Users /\ seats[s].conn \in Conns \cup {NoConn}
  BY DEF TableTypes, SeatState
<1>3. OwnSeat'
  BY DEF SInv, OwnSeat, SameSeats
<1>4. AwayIsGone'
  <2> SUFFICES ASSUME NEW w \in Waiting', w.op = "away"
               PROVE  Gone(w.conn)'
    BY DEF AwayIsGone
  <2>1. CASE w \in Waiting
    <3>1. Gone(w.conn)
      BY <2>1 DEF SInv, AwayIsGone
    <3>2. w.conn \in Conns
      <4>1. w \in Call
        BY <2>1 DEF Waiting, TableTypes
      <4> QED
        BY <4>1 DEF Call
    <3> QED
      BY <3>1, <3>2
  <2> QED
    BY <2>1
<1>5. EjectedIsGone'
  <2> SUFFICES ASSUME NEW c \in Conns, Ejected(c)'
               PROVE  Gone(c)' /\ Unseated(c)'
    BY DEF EjectedIsGone
  <2>1. Ejected(c)
    BY DEF Ejected
  <2> QED
    BY <2>1 DEF SInv, EjectedIsGone, Unseated, SameSeats
<1>6. HolderHasNoOther'
  BY DEF HolderHasNoOther, SameSeats
<1>7. OneSeatEach'
  BY DEF SInv, OneSeatEach, SameSeats
<1>8. SeatedIsPresent'
  <2> SUFFICES ASSUME NEW s \in Seats, seats'[s] # Empty,
                      seats[s] # Empty, seats[s].conn # NoConn
               PROVE  users'[seats[s].user] # NoConn \/ Leaving(seats[s].conn)'
    BY DEF SeatedIsPresent, SameSeats
  <2> DEFINE c == seats[s].conn
             u == seats[s].user
  <2>0. seats'[s].conn = c
    BY DEF SameSeats
  <2>1. c \in Conns /\ u \in Users /\ c[1] = u
    BY <1>2 DEF SInv, OwnSeat
  <2>2. ASSUME NEW w \in Waiting', w.op \in Departures, w.conn = c
        PROVE  Leaving(c)'
    BY <2>0, <2>2 DEF Leaving, Waiting, Departures
  <2>3. ASSUME holder' \notin {Free, Leaked}, holder'.conn = c
        PROVE  Leaving(c)'
    BY <2>0, <2>3 DEF Leaving
  <2>4. CASE users[u] # NoConn
    <3>1. CASE users'[u] # NoConn
      BY <3>1
    <3>2. CASE users'[u] = NoConn
      <4>1. PICK w \in Waiting' : w.op \in Departures /\ w.conn \in Conns
                                  /\ w.conn[1] = u
        BY <2>1, <2>4, <3>2
      <4>2. w.conn = c
        BY <2>1, <4>1 DEF OneSocketEach
      <4> QED
        BY <2>2, <4>1, <4>2
    <3> QED
      BY <3>1, <3>2
  <2>5. CASE Leaving(c)
    <3>1. CASE \E w \in Waiting : w.op \in Departures /\ w.conn = c
      <4>1. PICK w \in Waiting : w.op \in Departures /\ w.conn = c
        BY <3>1
      <4>2. ~ Unseated(w.conn)
        BY <4>1 DEF Unseated
      <4> QED
        BY <2>2, <2>3, <4>1, <4>2
    <3>2. CASE holder \notin {Free, Leaked} /\ holder.conn = c
      <4>1. holder' = holder
        BY <3>2
      <4> QED
        BY <2>3, <3>2, <4>1
    <3> QED
      BY <2>5, <3>1, <3>2, LeavingBy
  <2>6. users[u] # NoConn \/ Leaving(c)
    BY DEF SInv, SeatedIsPresent
  <2> QED
    BY <2>4, <2>5, <2>6
<1> QED
  BY <1>1, <1>3, <1>4, <1>5, <1>6, <1>7, <1>8 DEF SInv

\* What a step that makes a call may do besides.
LEMMA CallMade ==
    ASSUME SInv, TableTypes, OneSocketEach, UNCHANGED <<seats, holder>>,
           scanning' = {}, ejectTimers' \subseteq ejectTimers,
           \A c \in Conns : Gone(c) => Gone(c)',
           \/ UNCHANGED <<calls, users>>
           \/ \E x \in Call :
                 /\ calls' = Append(calls, x) /\ x.op # "resume"
                 /\ x.op = "away" => Gone(x.conn)'
                 /\ x.op = "eject" =>
                       \E s \in Seats : <<s, x.conn>> \in ejectTimers
                 /\ \A u \in Users : users'[u] = NoConn =>
                       users[u] = NoConn
                          \/ (x.op \in Departures /\ x.conn[1] = u)
    PROVE  SInv'
<1>1. SameSeats
  BY DEF SameSeats
<1>2. holder' \notin {Free, Leaked} =>
         \A s \in Seats : seats[s] # Empty /\ seats[s].conn # NoConn
            /\ seats[s].conn = holder'.conn => s = holder'.seat
  BY DEF SInv, HolderHasNoOther
<1>3. CASE UNCHANGED <<calls, users>>
  <2>1. Waiting' = Waiting
    BY <1>3 DEF Waiting
  <2> QED
    BY <1>1, <1>2, <1>3, <2>1, SeatsStill
<1>4. ASSUME NEW x \in Call, calls' = Append(calls, x), x.op # "resume",
             x.op = "away" => Gone(x.conn)',
             x.op = "eject" => \E s \in Seats : <<s, x.conn>> \in ejectTimers,
             \A u \in Users : users'[u] = NoConn =>
                users[u] = NoConn \/ (x.op \in Departures /\ x.conn[1] = u)
      PROVE  SInv'
  <2>1. Waiting' = Waiting \cup {x}
    BY <1>4, AskedWaiting
  <2>2. x.conn \in Conns \cup {NoConn}
    BY DEF Call
  <2>3. x.op \in Departures => x.conn \in Conns
    BY DEF Call, Departures
  <2>4. \A w \in Waiting' \ Waiting :
              /\ w.op # "resume" /\ w.conn \in Conns \cup {NoConn}
              /\ w.op = "away" => Gone(w.conn)'
              /\ w.op = "eject" =>
                    \E s \in Seats : <<s, w.conn>> \in ejectTimers
    BY <1>4, <2>1, <2>2
  <2>5. \A u \in Users : users'[u] = NoConn =>
              \/ users[u] = NoConn
              \/ \E w \in Waiting' : /\ w.op \in Departures
                                     /\ w.conn \in Conns /\ w.conn[1] = u
    BY <1>4, <2>1, <2>3
  <2> QED
    BY <1>1, <1>2, <2>1, <2>4, <2>5, SeatsStill
<1> QED
  BY <1>3, <1>4

\* What a step that serves a call may do besides, when it gives nobody a seat
\* and takes no socket from one.
LEMMA CallServed ==
    ASSUME SInv, TableTypes, OneSocketEach, NEW op, Granted(op), SameSeats,
           UNCHANGED <<scanning, ejectTimers>>,
           \A c \in Conns : Gone(c) => Gone(c)',
           \A u \in Users : users'[u] = NoConn => users[u] = NoConn,
           op \in Departures =>
              \/ Unseated(Head(calls).conn)
              \/ holder' \notin {Free, Leaked}
                    /\ holder'.conn = Head(calls).conn,
           holder' \notin {Free, Leaked} =>
              \A s \in Seats : seats[s] # Empty /\ seats[s].conn # NoConn
                 /\ seats[s].conn = holder'.conn => s = holder'.seat
    PROVE  SInv'
<1>1. /\ Head(calls) \in Waiting /\ Head(calls).op = op
      /\ Waiting' \subseteq Waiting
      /\ Waiting \subseteq Waiting' \cup {Head(calls)}
      /\ holder = Free
  BY ServedWaiting
<1>2. scanning' = {} /\ ejectTimers' \subseteq ejectTimers
  BY DEF SInv, NobodyReturns
<1>3. \A w \in Waiting \ Waiting' : w.op \in Departures =>
              Unseated(w.conn) \/ (holder' \notin {Free, Leaked}
                                     /\ holder'.conn = w.conn)
  BY <1>1
<1>4. holder' \notin {Free, Leaked} =>
         \A s \in Seats : seats'[s] # Empty /\ seats[s].conn # NoConn
            /\ seats[s].conn = holder'.conn => s = holder'.seat
  BY DEF SameSeats
<1> QED
  BY <1>1, <1>2, <1>3, <1>4, SeatsStill

\* standUp begins with a seat; its member goes, the user stays in it.
LEMMA BeginSeats ==
    ASSUME TableTypes, NEW op, NEW c, NEW s \in Seats, seats[s] # Empty,
           NEW todo, BeginStandUp(op, c, s, todo)
    PROVE  /\ SameSeats
           /\ holder' = [op |-> op, conn |-> c, seat |-> s, todo |-> todo]
           /\ UNCHANGED <<conn, scanning, users, ejectTimers>>
<1>1. /\ seats' = [seats EXCEPT ![s].member = FALSE]
      /\ seats \in [Seats -> SeatState \cup {Empty}] /\ seats[s] \in SeatState
  BY DEF BeginStandUp, TableTypes
<1> DEFINE r == [seats[s] EXCEPT !.member = FALSE]
<1>2. /\ r \in SeatState /\ r.user = seats[s].user /\ r.conn = seats[s].conn
  BY <1>1 DEF SeatState
<1>3. r # Empty
  BY <1>2, MarkersAssumption
<1>4. seats'[s] = r /\ \A t \in Seats : t # s => seats'[t] = seats[t]
  BY <1>1
<1> HIDE DEF r
<1>5. SameSeats
  BY <1>2, <1>3, <1>4 DEF SameSeats
<1> QED
  BY <1>5 DEF BeginStandUp

\* A handler that stands up the seat it finds of its socket.
LEMMA FoundStands ==
    ASSUME SInv, TableTypes, OneSocketEach, NEW op, Granted(op),
           NEW c, c = Head(calls).conn, c \in Conns, FindSeat(c) # NoSeat,
           NEW o \in {"stand", "leave", "logout", "kick"},
           BeginStandUp(o, c, FindSeat(c), {})
    PROVE  SInv'
<1> DEFINE s == FindSeat(c)
<1>1. s \in Seats /\ seats[s] # Empty /\ seats[s].conn = c
  BY FoundConn
<1>2. c # NoConn
  BY DEF Conns, NoConn
<1>3. /\ SameSeats /\ UNCHANGED <<conn, scanning, users, ejectTimers>>
      /\ holder' = [op |-> o, conn |-> c, seat |-> s, todo |-> {}]
  BY <1>1, BeginSeats
<1>4. holder' \notin {Free, Leaked} => holder'.conn = c /\ holder'.seat = s
  BY <1>3
<1>5. \A t \in Seats : seats[t] # Empty /\ seats[t].conn # NoConn
         /\ seats[t].conn = c => t = s
  BY <1>1, <1>2, OneSeatOfSocket
<1>6. holder' \notin {Free, Leaked}
  <2>1. holder' \in StandUpState
    BY <1>1, <1>3 DEF StandUpState
  <2> QED
    BY <2>1, MarkersAssumption
<1>7. \A d \in Conns : Gone(d) => Gone(d)'
  BY <1>3 DEF Gone
<1> QED
  BY <1>3, <1>4, <1>5, <1>6, <1>7, CallServed

-----------------------------------------------------------------------------
\* Sockets and messages.
LEMMA LoginSeats ==
    ASSUME SInv, TableTypes, OneSocketEach, NEW c \in Conns, Login(c)
    PROVE  SInv'
<1>1. conn[c] = "none" /\ conn \in [Conns -> {"none", "in", "lost", "cleared"}]
  BY DEF Login, TableTypes
<1>2. \A old \in Conns : old[1] = c[1] => old = c
  BY DEF OneSocketEach
<1>3. conn' = [conn EXCEPT ![c] = "in"] /\ UNCHANGED <<users, calls>>
  BY <1>1, <1>2 DEF Login
<1>4. c[2] = 1
  <2>1. c \in Users \X (1 .. MaxConns) /\ (c[2] = 1 \/ c[1] \in Returning)
    BY DEF Conns
  <2>2. <<c[1], 1>> \in Users \X (1 .. MaxConns)
    BY <2>1, SeatsAssumption
  <2>3. <<c[1], 1>> \in Conns
    BY <2>2 DEF Conns
  <2>4. <<c[1], 1>> = c
    BY <1>2, <2>3
  <2> QED
    BY <2>4
<1>5. scanning' = {}
  BY <1>4 DEF Login, SInv, NobodyReturns
<1>6. \A d \in Conns : Gone(d) => Gone(d)'
  BY <1>1, <1>3 DEF Gone
<1>7. UNCHANGED <<seats, holder, ejectTimers>>
  BY DEF Login
<1> QED
  BY <1>3, <1>5, <1>6, <1>7, CallMade

LEMMA DropSeats ==
    ASSUME SInv, TableTypes, OneSocketEach, NEW c \in Conns,
           NEW how \in {"lost", "cleared"}, Drop(c, how)
    PROVE  SInv'
<1>1. /\ conn' = [conn EXCEPT ![c] = how]
      /\ conn \in [Conns -> {"none", "in", "lost", "cleared"}]
      /\ UNCHANGED <<seats, holder, ejectTimers, scanning>>
  BY DEF Drop, TableTypes
<1>2. Gone(c)' /\ \A d \in Conns : Gone(d) => Gone(d)'
  BY <1>1 DEF Gone
<1>3. scanning' = {}
  BY <1>1 DEF SInv, NobodyReturns
<1>4. \/ UNCHANGED <<calls, users>>
      \/ users' = [users EXCEPT ![c[1]] = NoConn] /\ Ask("away", c, NoSeat)
  BY DEF Drop, Disconnect
<1>5. CASE users' = [users EXCEPT ![c[1]] = NoConn] /\ Ask("away", c, NoSeat)
  <2>1. PICK x \in Call : /\ calls' = Append(calls, x)
                          /\ x.op = "away" /\ x.conn = c
    BY <1>5, Callers DEF Ask
  <2>2. \A u \in Users : users'[u] = NoConn =>
           users[u] = NoConn \/ (x.op \in Departures /\ x.conn[1] = u)
    BY <1>5, <2>1 DEF TableTypes, Departures
  <2> QED
    BY <1>1, <1>2, <1>3, <2>1, <2>2, CallMade
<1> QED
  BY <1>1, <1>2, <1>3, <1>4, <1>5, CallMade

\* leave, and a logout, which take the user from the table before they wait.
LEMMA LeaveSeats ==
    ASSUME SInv, TableTypes, OneSocketEach, NEW c \in Conns,
           Leave(c) \/ Logout(c)
    PROVE  SInv'
<1>1. UNCHANGED <<seats, holder, ejectTimers, scanning>> /\ scanning' = {}
  BY DEF Leave, Logout, SInv, NobodyReturns
<1>2. \A d \in Conns : Gone(d) => Gone(d)'
  BY DEF Leave, Logout, Gone, TableTypes
<1>3. \/ UNCHANGED <<calls, users>>
      \/ /\ users' = [users EXCEPT ![c[1]] = NoConn]
         /\ \E op \in {"leave", "logout"} : Ask(op, c, NoSeat)
  BY DEF Leave, Logout
<1>4. ASSUME users' = [users EXCEPT ![c[1]] = NoConn],
             NEW op \in {"leave", "logout"}, Ask(op, c, NoSeat)
      PROVE  SInv'
  <2>1. PICK x \in Call : /\ calls' = Append(calls, x)
                          /\ x.op = op /\ x.conn = c
    BY <1>4, Callers DEF Ask
  <2>2. \A u \in Users : users'[u] = NoConn =>
           users[u] = NoConn \/ (x.op \in Departures /\ x.conn[1] = u)
    BY <1>4, <2>1 DEF TableTypes, Departures
  <2> QED
    BY <1>1, <1>2, <2>1, <2>2, CallMade
<1> QED
  BY <1>1, <1>2, <1>3, <1>4, CallMade

\* The messages and timers that change nothing of the users, and the first
\* look of a login for its tables.
LEMMA CallersSeats ==
    ASSUME SInv, TableTypes, OneSocketEach, UNCHANGED <<seats, holder, users>>,
           UNCHANGED <<conn, scanning>>, ejectTimers' \subseteq ejectTimers,
           NEW x \in Call, calls' = Append(calls, x),
           x.op \notin {"resume", "away"},
           x.op = "eject" => \E s \in Seats : <<s, x.conn>> \in ejectTimers
    PROVE  SInv'
<1>1. scanning' = {} /\ \A d \in Conns : Gone(d) => Gone(d)'
  BY DEF SInv, NobodyReturns, Gone
<1> QED
  BY <1>1, CallMade

LEMMA MessageSeats ==
    ASSUME SInv, TableTypes, OneSocketEach, NEW c \in Conns,
           \/ Join(c) \/ StandUp(c) \/ Kick(c) \/ TableSitClose(c)
           \/ \E s \in Seats \cup {NoSeat} : Sit(c, s)
    PROVE  SInv'
<1>1. UNCHANGED <<seats, holder, users, conn, scanning, ejectTimers>>
  BY DEF Join, StandUp, Kick, TableSitClose, Sit
<1>2. \E x \in Call : /\ calls' = Append(calls, x)
                      /\ x.op \in {"join", "stand", "kick", "boot", "sit"}
  <2>1. CASE Join(c) \/ StandUp(c) \/ Kick(c)
    <3>1. PICK op \in {"join", "stand", "kick"} : Ask(op, c, NoSeat)
      BY <2>1 DEF Join, StandUp, Kick
    <3> QED
      BY <3>1, Callers DEF Ask
  <2>2. CASE TableSitClose(c)
    <3> DEFINE mine == {j \in DOMAIN reserved : reserved[j].user = c[1]}
    <3>1. mine \in SUBSET Nat
      BY LenProperties DEF TableTypes
    <3>2. FirstOf(mine) \in mine
      BY <2>2, <3>1, FirstIsIn DEF TableSitClose
    <3>3. PICK i \in DOMAIN reserved : i = FirstOf(mine)
      BY <3>2
    <3>4. reserved[i].index \in Seats /\ Ask("boot", NoConn, reserved[i].index)
      BY <2>2, <3>3, Offers DEF TableSitClose
    <3>5. PICK s \in Seats : s = reserved[i].index
      BY <3>4
    <3>6. [op |-> "boot", conn |-> NoConn, seat |-> s] \in Call
      BY Callers
    <3> QED
      BY <3>4, <3>5, <3>6 DEF Ask
  <2>3. ASSUME NEW s \in Seats \cup {NoSeat}, Sit(c, s)
        PROVE  \E x \in Call : /\ calls' = Append(calls, x)
                               /\ x.op \in {"join", "stand", "kick", "boot", "sit"}
    BY <2>3, Callers DEF Sit, Ask
  <2> QED
    BY <2>1, <2>2, <2>3
<1> QED
  BY <1>1, <1>2, CallersSeats

LEMMA TimerSeats ==
    ASSUME SInv, TableTypes, OneSocketEach,
           \/ UnstickFires
           \/ \E s \in Seats : BootFires(s)
           \/ \E s \in Seats, c \in Conns : EjectFires(s, c)
    PROVE  SInv'
<1>1. CASE UnstickFires
  <2>1. \E x \in Call : calls' = Append(calls, x) /\ x.op = "unstick"
    BY <1>1 DEF UnstickFires, Ask, Call
  <2>2. UNCHANGED <<seats, holder, users, conn, scanning, ejectTimers>>
    BY <1>1 DEF UnstickFires
  <2> QED
    BY <2>1, <2>2, CallersSeats
<1>2. ASSUME NEW s \in Seats, BootFires(s)
      PROVE  SInv'
  <2>1. \E x \in Call : calls' = Append(calls, x) /\ x.op = "boot"
    BY <1>2 DEF BootFires, Ask, Call
  <2>2. UNCHANGED <<seats, holder, users, conn, scanning, ejectTimers>>
    BY <1>2 DEF BootFires
  <2> QED
    BY <2>1, <2>2, CallersSeats
<1>3. ASSUME NEW s \in Seats, NEW c \in Conns, EjectFires(s, c)
      PROVE  SInv'
  <2>1. \E x \in Call : /\ calls' = Append(calls, x)
                        /\ x.op = "eject" /\ x.conn = c
    BY <1>3 DEF EjectFires, Ask, Call
  <2>2. /\ UNCHANGED <<seats, holder, users, conn, scanning>>
        /\ <<s, c>> \in ejectTimers /\ ejectTimers' \subseteq ejectTimers
    BY <1>3 DEF EjectFires
  <2> QED
    BY <2>1, <2>2, CallersSeats
<1> QED
  BY <1>1, <1>2, <1>3

-----------------------------------------------------------------------------
\* Under the lock.
LEMMA CallConn ==
    ASSUME NEW w \in Call, w.op \notin {"boot", "unstick"}
    PROVE  w.conn \in Conns
BY DEF Call

\* A handler that finds nothing to do, or that fails, and bootReserved, which
\* has no socket.
LEMMA PassedSeats ==
    ASSUME SInv, TableTypes, OneSocketEach, NEW op, Granted(op),
           UNCHANGED <<seats, scanning, ejectTimers>>,
           holder' \in {Free, Leaked},
           \A c \in Conns : Gone(c) => Gone(c)',
           \A u \in Users : users'[u] = NoConn => users[u] = NoConn,
           op \in Departures => Unseated(Head(calls).conn)
    PROVE  SInv'
<1>1. SameSeats
  BY DEF SameSeats
<1> QED
  BY <1>1, CallServed

LEMMA GrantJoinSeats ==
    ASSUME SInv, TableTypes, OneSocketEach, GrantJoin
    PROVE  SInv'
<1> DEFINE c == Head(calls).conn
<1>1. Granted("join") /\ holder = Free /\ c \in Conns
  BY ServedWaiting, CallConn DEF GrantJoin
<1>2. UNCHANGED <<seats, scanning, ejectTimers, holder, conn>>
      /\ (users' = users \/ users' = [users EXCEPT ![c[1]] = c])
  BY DEF GrantJoin, Fail
<1>3. \A u \in Users : users'[u] = NoConn => users[u] = NoConn
  BY <1>1, <1>2 DEF TableTypes, Conns, NoConn
<1>4. \A d \in Conns : Gone(d) => Gone(d)'
  BY <1>2 DEF Gone
<1> QED
  BY <1>1, <1>2, <1>3, <1>4, PassedSeats DEF Departures

LEMMA GrantStandSeats ==
    ASSUME SInv, TableTypes, OneSocketEach, GrantStand
    PROVE  SInv'
<1> DEFINE c == Head(calls).conn
<1>1. Granted("stand") /\ holder = Free /\ c \in Conns
  BY ServedWaiting, CallConn DEF GrantStand
<1>2. CASE FindSeat(c) # NoSeat
  <2>1. BeginStandUp("stand", c, FindSeat(c), {})
    BY <1>2 DEF GrantStand
  <2> QED
    BY <1>1, <1>2, <2>1, FoundStands
<1>3. CASE FindSeat(c) = NoSeat
  <2>1. UNCHANGED <<seats, scanning, ejectTimers, holder, conn, users>>
    BY <1>3 DEF GrantStand, Ignore
  <2>2. \A d \in Conns : Gone(d) => Gone(d)'
    BY <2>1 DEF Gone
  <2> QED
    BY <1>1, <2>1, <2>2, PassedSeats DEF Departures
<1> QED
  BY <1>2, <1>3

LEMMA GrantLeaveSeats ==
    ASSUME SInv, TableTypes, OneSocketEach, NEW op \in {"leave", "logout"},
           GrantLeave(op)
    PROVE  SInv'
<1> DEFINE c == Head(calls).conn
<1>1. Granted(op) /\ holder = Free /\ c \in Conns
  BY ServedWaiting, CallConn DEF GrantLeave
<1>2. CASE FindSeat(c) # NoSeat
  <2>1. BeginStandUp(op, c, FindSeat(c), {})
    BY <1>2 DEF GrantLeave
  <2> QED
    BY <1>1, <1>2, <2>1, FoundStands
<1>3. CASE FindSeat(c) = NoSeat
  <2>1. UNCHANGED <<seats, scanning, ejectTimers, holder, users>>
        /\ conn' \in {conn, [conn EXCEPT ![c] = "cleared"]}
    BY <1>3 DEF GrantLeave, AfterLeave
  <2>2. \A d \in Conns : Gone(d) => Gone(d)'
    BY <1>1, <2>1 DEF Gone, TableTypes
  <2>3. Unseated(c)
    BY <1>3, FoundConn
  <2> QED
    BY <1>1, <2>1, <2>2, <2>3, PassedSeats
<1> QED
  BY <1>2, <1>3

LEMMA GrantKickSeats ==
    ASSUME SInv, TableTypes, OneSocketEach, GrantKick
    PROVE  SInv'
<1> DEFINE c == Head(calls).conn
<1>1. Granted("kick") /\ holder = Free /\ c \in Conns
  BY ServedWaiting, CallConn DEF GrantKick
<1>2. CASE FindSeat(c) # NoSeat
  <2>1. BeginStandUp("kick", c, FindSeat(c), {})
    BY <1>2 DEF GrantKick
  <2> QED
    BY <1>1, <1>2, <2>1, FoundStands
<1>3. CASE FindSeat(c) = NoSeat
  <2>1. UNCHANGED <<seats, scanning, ejectTimers, holder, conn, users>>
    BY <1>3 DEF GrantKick, Fail
  <2>2. \A d \in Conns : Gone(d) => Gone(d)'
    BY <2>1 DEF Gone
  <2> QED
    BY <1>1, <2>1, <2>2, PassedSeats DEF Departures
<1> QED
  BY <1>2, <1>3

\* eject empties a seat, but the socket it is called for has none.
LEMMA GrantEjectSeats ==
    ASSUME SInv, TableTypes, OneSocketEach, GrantEject
    PROVE  SInv'
<1> DEFINE c == Head(calls).conn
           s == Head(calls).seat
<1>1. /\ Granted("eject") /\ holder = Free /\ c \in Conns
      /\ Head(calls) \in Waiting /\ Head(calls).op = "eject" /\ s \in Seats
  BY ServedWaiting, CallConn DEF GrantEject, Call
<1>2. Unseated(c)
  BY <1>1 DEF SInv, EjectedIsGone, Ejected
<1>3. CASE seats[s] = Empty
  <2>1. UNCHANGED <<seats, scanning, ejectTimers, holder, conn, users>>
    BY <1>3 DEF GrantEject, Fail
  <2>2. \A d \in Conns : Gone(d) => Gone(d)'
    BY <2>1 DEF Gone
  <2> QED
    BY <1>1, <2>1, <2>2, PassedSeats DEF Departures
<1>4. CASE seats[s] # Empty
  <2>1. BeginStandUp("eject", c, s, {})
    BY <1>4 DEF GrantEject
  <2>2. /\ SameSeats /\ UNCHANGED <<conn, scanning, users, ejectTimers>>
        /\ holder'.conn = c
    BY <1>1, <1>4, <2>1, BeginSeats
  <2>3. \A d \in Conns : Gone(d) => Gone(d)'
    BY <2>2 DEF Gone
  <2>4. \A t \in Seats : seats[t] # Empty => seats[t].conn # holder'.conn
    BY <1>2, <2>2 DEF Unseated
  <2> QED
    BY <1>1, <2>2, <2>3, <2>4, CallServed DEF Departures
<1> QED
  BY <1>3, <1>4

\* A login does not resume a seat that it does not look for.
LEMMA NoResume ==
    ASSUME SInv, TableTypes
    PROVE  ~ GrantResume /\ \A c \in Conns : ~ Scan(c)
<1>1. ~ Granted("resume")
  BY ServedWaiting DEF SInv, NobodyReturns
<1> QED
  BY <1>1 DEF GrantResume, Scan, SInv, NobodyReturns

LEMMA GrantBootSeats ==
    ASSUME SInv, TableTypes, OneSocketEach, GrantBoot
    PROVE  SInv'
<1>1. Granted("boot") /\ holder = Free
  BY ServedWaiting DEF GrantBoot
<1>2. /\ UNCHANGED <<seats, scanning, ejectTimers, conn, users>>
      /\ holder' \in {holder, Leaked}
  BY DEF GrantBoot
<1>3. \A d \in Conns : Gone(d) => Gone(d)'
  BY <1>2 DEF Gone
<1> QED
  BY <1>1, <1>2, <1>3, PassedSeats DEF Departures

LEMMA GrantUnstickSeats ==
    ASSUME SInv, TableTypes, OneSocketEach, GrantUnstick
    PROVE  SInv'
<1>1. Granted("unstick") /\ holder = Free
  BY ServedWaiting DEF GrantUnstick
<1>2. /\ UNCHANGED <<seats, scanning, ejectTimers, conn, users>>
      /\ holder' = holder \/ holder'.conn = NoConn
  BY DEF GrantUnstick, Ignore
<1>3. \A d \in Conns : Gone(d) => Gone(d)'
  BY <1>2 DEF Gone
<1>4. SameSeats
  BY <1>2 DEF SameSeats
<1> QED
  BY <1>1, <1>2, <1>3, <1>4, CallServed DEF Departures

\* The loop of idleUnstick: standUp has emptied the seat of the socket it was
\* called for last.
LEMMA UnstickNextSeats ==
    ASSUME SInv, TableTypes, StandingUp, OneSocketEach, UnstickNext
    PROVE  SInv'
<1> DEFINE x == LastOf(holder.todo)
           c == seats[x].conn
           s == IF c = NoConn THEN x ELSE FindSeat(c)
<1>1. /\ holder \notin {Free, Leaked} /\ holder.seat = NoSeat
      /\ calls' = calls
  BY DEF UnstickNext, Runs
<1>2. holder.todo \in SUBSET Seats /\ holder.todo # {}
  BY <1>1 DEF StandingUp, StandUpState, TableTypes
<1>3. x \in Seats
  BY <1>2, LastIsIn
<1>4. \A t \in Seats : seats[t] # Empty /\ seats[t].conn # NoConn
         => seats[t].conn # holder.conn
  BY <1>1, Marks DEF SInv, HolderHasNoOther
<1>5. scanning = {} /\ Waiting' = Waiting
  BY <1>1 DEF SInv, NobodyReturns, Waiting
<1>6. CASE seats[x] = Empty
  <2>1. UNCHANGED <<conn, scanning, users, seats, ejectTimers, holder>>
    BY <1>6 DEF UnstickNext, Fail
  <2>2. SameSeats /\ \A d \in Conns : Gone(d) => Gone(d)'
    BY <2>1 DEF SameSeats, Gone
  <2>3. holder' \notin {Free, Leaked} =>
           \A t \in Seats : seats'[t] # Empty /\ seats[t].conn # NoConn
              /\ seats[t].conn = holder'.conn => t = holder'.seat
    BY <2>1 DEF SInv, HolderHasNoOther
  <2> QED
    BY <1>5, <2>1, <2>2, <2>3, SeatsStill
<1>7. CASE seats[x] # Empty
  <2>1. BeginStandUp("unstick", c, s, holder.todo \ {x})
    BY <1>7 DEF UnstickNext
  <2>2. c # NoConn => FindSeat(c) # NoSeat
    BY <1>3, <1>7, FoundConn DEF Unseated
  <2>3. s \in Seats /\ seats[s] # Empty /\ seats[s].conn = c
    BY <1>3, <1>7, <2>2, FoundConn
  <2>4. /\ SameSeats /\ UNCHANGED <<conn, scanning, users, ejectTimers>>
        /\ holder'.conn = c /\ holder'.seat = s
    BY <2>1, <2>3, BeginSeats
  <2>5. \A d \in Conns : Gone(d) => Gone(d)'
    BY <2>4 DEF Gone
  <2>6. \A t \in Seats : seats'[t] # Empty /\ seats[t].conn # NoConn
           /\ seats[t].conn = c => t = s
    BY <2>3, <2>4, OneSeatOfSocket DEF SameSeats
  <2> HIDE DEF c, s
  <2>7. holder' \notin {Free, Leaked} =>
           \A t \in Seats : seats'[t] # Empty /\ seats[t].conn # NoConn
              /\ seats[t].conn = holder'.conn => t = holder'.seat
    BY <2>4, <2>6
  <2>8. \A t \in Seats : seats'[t] # Empty /\ seats[t].conn # NoConn
           => seats[t].conn # holder.conn
    BY <1>4, <2>4 DEF SameSeats
  <2> QED
    BY <1>5, <2>4, <2>5, <2>7, <2>8, SeatsStill
<1> QED
  BY <1>6, <1>7

\* standUp ends: its seat is empty, and the socket it was called for has none.
LEMMA StandUpDoneSeats ==
    ASSUME SInv, TableTypes, StandingUp, OneSocketEach, StandUpDone
    PROVE  SInv'
<1> DEFINE s == holder.seat
           c == holder.conn
<1>1. /\ holder \notin {Free, Leaked} /\ holder.seat # NoSeat
      /\ seats' = [seats EXCEPT ![s] = Empty]
      /\ UNCHANGED <<scanning, users, ejectTimers, calls>>
      /\ conn' \in {conn, [conn EXCEPT ![c] = "cleared"]}
      /\ holder' \in {Free, [holder EXCEPT !.seat = NoSeat]}
  BY DEF StandUpDone, Runs, AfterLeave
<1>2. holder \in StandUpState /\ s \in Seats
  BY <1>1 DEF StandUpState, TableTypes
<1>3. seats'[s] = Empty /\ \A t \in Seats : t # s => seats'[t] = seats[t]
  BY <1>1, <1>2 DEF TableTypes
<1>4. SameSeats
  BY <1>3 DEF SameSeats
<1>5. \A t \in Seats : seats'[t] # Empty /\ seats[t].conn # NoConn
         => seats[t].conn # holder.conn
  BY <1>1, <1>3, <1>4 DEF SInv, HolderHasNoOther, SameSeats
<1>6. holder' # Free => holder'.conn = holder.conn
  BY <1>1, <1>2 DEF StandUpState
<1>7. \A d \in Conns : Gone(d) => Gone(d)'
  BY <1>1 DEF Gone, TableTypes
<1>8. scanning = {} /\ Waiting' = Waiting
  BY <1>1 DEF SInv, NobodyReturns, Waiting
<1> QED
  BY <1>1, <1>4, <1>5, <1>6, <1>7, <1>8, SeatsStill

\* sitDown.  The user's own socket asks, is open and has no seat; a seat of the
\* user without a socket would mean that this one is gone.
LEMMA GrantSitSeats ==
    ASSUME SInv, TableTypes, OneSocketEach, GrantSit
    PROVE  SInv'
<1> DEFINE c == Head(calls).conn
           s == Head(calls).seat
           new == [user |-> c[1], conn |-> c, timer |-> NoConn, member |-> TRUE]
<1>1. /\ Granted("sit") /\ holder = Free /\ c \in Conns
      /\ Waiting' \subseteq Waiting
      /\ \A w \in Waiting : w.op # "sit" => w \in Waiting'
  BY ServedWaiting, CallConn DEF GrantSit
<1>2. /\ UNCHANGED <<scanning, ejectTimers, holder, conn, users>>
      /\ \A d \in Conns : Gone(d) => Gone(d)'
  BY DEF GrantSit, Ignore, Gone
<1>3. CASE seats' = seats
  BY <1>1, <1>2, <1>3, PassedSeats DEF Departures
<1>4. CASE s # NoSeat /\ MaySit(c) /\ seats[s] = Empty
           /\ seats' = [seats EXCEPT ![s] = new]
  <2>1. s \in Seats /\ seats \in [Seats -> SeatState \cup {Empty}]
    <3>1. Head(calls) \in Call /\ Head(calls).op = "sit"
      BY <1>1, ServedWaiting
    <3> QED
      BY <1>4, <3>1 DEF Call, TableTypes
  <2>2. seats'[s] = new /\ \A t \in Seats : t # s => seats'[t] = seats[t]
    BY <1>4, <2>1
  <2>3. /\ new.user = c[1] /\ new.conn = c /\ c # NoConn /\ c[1] \in Users
    BY <1>1 DEF Conns, NoConn
  <2> HIDE DEF new
  <2>4. conn[c] = "in" /\ users[c[1]] # NoConn /\ Unseated(c) /\ ~ Gone(c)
    BY <1>4, FoundConn DEF MaySit, Gone
  <2>5. NobodyReturns'
    BY <1>1, <1>2 DEF SInv, NobodyReturns
  <2>6. OwnSeat'
    <3> SUFFICES ASSUME NEW t \in Seats, seats'[t] # Empty
                 PROVE  IF seats'[t].conn = NoConn
                        THEN \A d \in Conns : d[1] = seats'[t].user => Gone(d)'
                        ELSE seats'[t].conn[1] = seats'[t].user
      BY DEF OwnSeat
    <3>1. CASE t = s
      BY <2>2, <2>3, <3>1
    <3>2. CASE t # s
      BY <1>2, <2>2, <3>2 DEF SInv, OwnSeat
    <3> QED
      BY <3>1, <3>2
  <2>7. AwayIsGone'
    <3> SUFFICES ASSUME NEW w \in Waiting, w.op = "away"
                 PROVE  Gone(w.conn)'
      BY <1>1 DEF AwayIsGone
    <3>1. Gone(w.conn)
      BY DEF SInv, AwayIsGone
    <3> QED
      BY <1>2, <3>1 DEF Gone
  <2>8. EjectedIsGone'
    <3> SUFFICES ASSUME NEW d \in Conns, Ejected(d)'
                 PROVE  Gone(d)' /\ Unseated(d)'
      BY DEF EjectedIsGone
    <3>1. Ejected(d)
      BY <1>1, <1>2 DEF Ejected
    <3>2. Gone(d) /\ Unseated(d)
      BY <3>1 DEF SInv, EjectedIsGone
    <3>3. d # c
      BY <2>4, <3>2
    <3> QED
      BY <1>2, <2>2, <2>3, <3>2, <3>3 DEF Unseated
  <2>9. HolderHasNoOther'
    BY <1>1, <1>2 DEF HolderHasNoOther
  <2>10. \A t \in Seats : seats[t] # Empty => seats[t].user # c[1]
    <3> SUFFICES ASSUME NEW t \in Seats, seats[t] # Empty,
                        seats[t].user = c[1]
                 PROVE  FALSE
      OBVIOUS
    <3>1. seats[t].conn # NoConn
      BY <1>1, <2>4 DEF SInv, OwnSeat
    <3>2. seats[t].conn \in Conns /\ seats[t].conn[1] = c[1]
      BY <2>1, <3>1 DEF SInv, OwnSeat, SeatState
    <3> QED
      BY <1>1, <2>4, <3>2 DEF OneSocketEach, Unseated
  <2>11. OneSeatEach'
    BY <2>2, <2>3, <2>10 DEF SInv, OneSeatEach
  <2>12. SeatedIsPresent'
    <3> SUFFICES ASSUME NEW t \in Seats, seats'[t] # Empty,
                        seats'[t].conn # NoConn
                 PROVE  \/ (users[seats[t].user])' # NoConn
                        \/ Leaving(seats[t].conn)'
      BY DEF SeatedIsPresent
    <3>1. CASE t = s
      BY <1>2, <2>2, <2>3, <2>4, <3>1
    <3>2. CASE t # s
      <4>1. users[seats[t].user] # NoConn \/ Leaving(seats[t].conn)
        BY <2>2, <3>2 DEF SInv, SeatedIsPresent
      <4>2. CASE Leaving(seats[t].conn)
        <5>1. PICK w \in Waiting : w.op \in Departures /\ w.conn = seats[t].conn
          BY <1>1, <4>2, LeavingBy
        <5>2. w \in Waiting'
          BY <1>1, <5>1 DEF Departures
        <5>3. w.conn = seats'[t].conn
          BY <2>2, <3>2, <5>1
        <5> QED
          BY <5>1, <5>2, <5>3 DEF Leaving, Waiting, Departures
      <4> QED
        BY <1>2, <2>2, <3>2, <4>1, <4>2
    <3> QED
      BY <3>1, <3>2
  <2> QED
    BY <2>5, <2>6, <2>7, <2>8, <2>9, <2>11, <2>12 DEF SInv
<1>5. \/ seats' = seats
      \/ s # NoSeat /\ MaySit(c) /\ seats[s] = Empty
           /\ seats' = [seats EXCEPT ![s] = new]
  BY DEF GrantSit, Ignore
<1> QED
  BY <1>3, <1>4, <1>5

\* handleDisconnect, when it has the lock: its socket is gone, and so the
\* seat may be without one.
LEMMA GrantAwaySeats ==
    ASSUME SInv, TableTypes, OneSocketEach, GrantAway
    PROVE  SInv'
<1> DEFINE c == Head(calls).conn
           s == FindSeat(c)
<1>1. /\ Granted("away") /\ holder = Free /\ c \in Conns
      /\ Head(calls) \in Waiting /\ Head(calls).op = "away"
      /\ Waiting' \subseteq Waiting
      /\ \A w \in Waiting : w = Head(calls) \/ w \in Waiting'
  BY ServedWaiting, CallConn DEF GrantAway
<1>2. /\ UNCHANGED <<scanning, holder, conn, users>>
      /\ \A d \in Conns : Gone(d) => Gone(d)'
  BY DEF GrantAway, Ignore, Gone
<1>3. CASE s = NoSeat
  <2>1. Unseated(c)
    BY <1>3, FoundConn
  <2>2. UNCHANGED <<seats, ejectTimers>>
    BY <1>3 DEF GrantAway, Ignore
  <2> QED
    BY <1>1, <1>2, <2>1, <2>2, PassedSeats
<1>4. CASE s # NoSeat
  <2>1. /\ seats' = [seats EXCEPT ![s].conn = NoConn, ![s].timer = c]
        /\ ejectTimers' = ejectTimers \cup {<<s, c>>}
    BY <1>4 DEF GrantAway
  <2>2. s \in Seats /\ seats[s] # Empty /\ seats[s].conn = c /\ c # NoConn
    BY <1>1, <1>4, FoundConn DEF Conns, NoConn
  <2>3. seats \in [Seats -> SeatState \cup {Empty}] /\ seats[s] \in SeatState
    BY <2>2 DEF TableTypes
  <2>4. /\ seats'[s].user = seats[s].user /\ seats'[s].conn = NoConn
        /\ \A t \in Seats : t # s => seats'[t] = seats[t]
    <3>1. /\ seats'[s] = [[seats[s] EXCEPT !.conn = NoConn] EXCEPT !.timer = c]
          /\ \A t \in Seats : t # s => seats'[t] = seats[t]
      BY <2>1, <2>2, <2>3
    <3> QED
      BY <2>3, <3>1 DEF SeatState
  <2> HIDE DEF s
  <2>5. seats[s].user = c[1]
    BY <2>2 DEF SInv, OwnSeat
  <2>6. Gone(c)
    BY <1>1 DEF SInv, AwayIsGone
  <2>7. \A t \in Seats : t # s /\ seats[t] # Empty => seats[t].conn # c
    BY <2>2, OneSeatOfSocket
  <2>8. NobodyReturns'
    BY <1>1, <1>2 DEF SInv, NobodyReturns
  <2>9. OwnSeat'
    <3> SUFFICES ASSUME NEW t \in Seats, seats'[t] # Empty
                 PROVE  IF seats'[t].conn = NoConn
                        THEN \A d \in Conns : d[1] = seats'[t].user => Gone(d)'
                        ELSE seats'[t].conn[1] = seats'[t].user
      BY DEF OwnSeat
    <3>1. CASE t = s
      <4>1. \A d \in Conns : d[1] = c[1] => d = c
        BY <1>1 DEF OneSocketEach
      <4> QED
        BY <1>1, <1>2, <2>4, <2>5, <2>6, <3>1, <4>1
    <3>2. CASE t # s
      BY <1>2, <2>4, <3>2 DEF SInv, OwnSeat
    <3> QED
      BY <3>1, <3>2
  <2>10. AwayIsGone'
    <3> SUFFICES ASSUME NEW w \in Waiting, w.op = "away"
                 PROVE  Gone(w.conn)'
      BY <1>1 DEF AwayIsGone
    <3>1. Gone(w.conn)
      BY DEF SInv, AwayIsGone
    <3> QED
      BY <1>2, <3>1 DEF Gone
  <2>11. EjectedIsGone'
    <3> SUFFICES ASSUME NEW d \in Conns, Ejected(d)'
                 PROVE  Gone(d)' /\ Unseated(d)'
      BY DEF EjectedIsGone
    <3>1. d # NoConn
      BY DEF Conns, NoConn
    <3>2. CASE d = c
      BY <1>2, <2>4, <2>6, <2>7, <3>1, <3>2 DEF Unseated, Gone
    <3>3. CASE d # c
      <4>1. Ejected(d)
        BY <1>1, <2>1, <3>3 DEF Ejected
      <4>2. Gone(d) /\ Unseated(d)
        BY <4>1 DEF SInv, EjectedIsGone
      <4> QED
        BY <1>2, <2>4, <3>1, <4>2 DEF Unseated
    <3> QED
      BY <3>2, <3>3
  <2>12. HolderHasNoOther'
    BY <1>1, <1>2 DEF HolderHasNoOther
  <2>13. OneSeatEach'
    <3>1. \A t \in Seats : seats'[t] # Empty =>
             seats[t] # Empty /\ seats'[t].user = seats[t].user
      BY <2>2, <2>4
    <3> QED
      BY <3>1 DEF SInv, OneSeatEach
  <2>14. SeatedIsPresent'
    <3> SUFFICES ASSUME NEW t \in Seats, seats'[t] # Empty,
                        seats'[t].conn # NoConn
                 PROVE  \/ (users[seats[t].user])' # NoConn
                        \/ Leaving(seats[t].conn)'
      BY DEF SeatedIsPresent
    <3>1. t # s /\ seats'[t] = seats[t]
      BY <2>4
    <3>2. users[seats[t].user] # NoConn \/ Leaving(seats[t].conn)
      BY <3>1 DEF SInv, SeatedIsPresent
    <3>3. CASE Leaving(seats[t].conn)
      <4>1. PICK w \in Waiting : w.op \in Departures /\ w.conn = seats[t].conn
        BY <1>1, <3>3, LeavingBy
      <4>2. w # Head(calls)
        BY <2>7, <3>1, <4>1
      <4>3. w \in Waiting' /\ w.conn = seats'[t].conn
        BY <1>1, <3>1, <4>1, <4>2
      <4> QED
        BY <4>1, <4>3 DEF Leaving, Waiting, Departures
    <3> QED
      BY <1>2, <3>1, <3>2, <3>3
  <2> QED
    BY <2>8, <2>9, <2>10, <2>11, <2>12, <2>13, <2>14 DEF SInv
<1> QED
  BY <1>3, <1>4

LEMMA SeatsBegin == Init => SInv
<1> SUFFICES ASSUME Init
             PROVE  SInv
  OBVIOUS
<1>1. Waiting = {} /\ scanning = {} /\ ejectTimers = {} /\ holder = Free
      /\ \A s \in Seats : seats[s] = Empty
  <2>1. calls = <<>> /\ DOMAIN calls = {}
    <3>1. DOMAIN << >> = {}
      OBVIOUS
    <3> QED
      BY <3>1 DEF Init
  <2>2. Waiting = {}
    BY <2>1 DEF Waiting
  <2> QED
    BY <2>2 DEF Init
<1> QED
  BY <1>1 DEF SInv, NobodyReturns, OwnSeat, AwayIsGone, EjectedIsGone, Ejected,
     HolderHasNoOther, OneSeatEach, SeatedIsPresent

LEMMA SeatsStep ==
    ASSUME OneSocketEach, SInv, IInv, [Next]_vars
    PROVE  SInv'
<1>1. TableTypes /\ StandingUp
  BY DEF IInv
<1>2. CASE Locked
  BY <1>1, <1>2, GrantJoinSeats, GrantSitSeats, GrantStandSeats,
     GrantLeaveSeats, GrantAwaySeats, GrantEjectSeats, NoResume,
     GrantKickSeats, GrantBootSeats, GrantUnstickSeats, UnstickNextSeats,
     StandUpDoneSeats DEF Locked
<1>3. ASSUME NEW c \in Conns,
             \/ Login(c) \/ Scan(c) \/ Drop(c, "lost") \/ Drop(c, "cleared")
             \/ Logout(c) \/ Join(c) \/ StandUp(c) \/ Leave(c)
             \/ TableSitClose(c) \/ Kick(c)
             \/ \E s \in Seats \cup {NoSeat} : Sit(c, s)
      PROVE  SInv'
  BY <1>1, <1>3, LoginSeats, NoResume, DropSeats, LeaveSeats, MessageSeats
<1>4. CASE \/ UnstickFires
           \/ \E s \in Seats : BootFires(s)
           \/ \E s \in Seats, c \in Conns : EjectFires(s, c)
  BY <1>1, <1>4, TimerSeats
<1>5. CASE UNCHANGED vars
  BY <1>5 DEF vars, SInv, NobodyReturns, OwnSeat, AwayIsGone, EjectedIsGone,
     Ejected, Unseated, HolderHasNoOther, OneSeatEach, SeatedIsPresent,
     Waiting, Gone, Leaving
<1> QED
  BY <1>2, <1>3, <1>4, <1>5 DEF Next

LEMMA SeatsInvariance ==
    ASSUME OneSocketEach
    PROVE  Spec => []SInv
<1>1. SInv /\ IInv /\ [Next]_vars => SInv'
  BY SeatsStep
<1> QED
  BY <1>1, SeatsBegin, Invariance, PTL DEF Spec

\* For users with one socket each: nobody gets a second seat, whatever he asks
\* for, and in whatever order his calls get the lock (scTableSit).
THEOREM NobodyHasTwoSeats ==
    ASSUME OneSocketEach
    PROVE  Spec => []OneSeatEach
<1>1. SInv => OneSeatEach
  BY DEF SInv
<1> QED
  BY <1>1, SeatsInvariance, PTL

\* For users with one socket each: nobody has a seat at a table he has left, or
\* whose socket has ended, without a call on its way that empties the seat or
\* sets its timer (leave and handleDisconnect against sitDown).
THEOREM NobodySitsAway ==
    ASSUME OneSocketEach
    PROVE  Spec => []SeatedIsPresent
<1>1. SInv => SeatedIsPresent
  BY DEF SInv
<1> QED
  BY <1>1, SeatsInvariance, PTL

-----------------------------------------------------------------------------
(***************************************************************************)
(* What is left of reconnect when a user is spliced out of it.             *)
(***************************************************************************)

\* The elements gone through, and what the loop has done by then.
Splicing(g, q, u, D) ==
    g = [i \in D |->
           IF i = 0 THEN [kept |-> <<>>, over |-> FALSE]
           ELSE IF q[i] = u /\ ~g[i - 1].over
           THEN [kept |-> g[i - 1].kept, over |-> TRUE]
           ELSE [kept |-> Append(g[i - 1].kept, q[i]), over |-> FALSE]]

\* The loop ends.
LEMMA SplicingEnds ==
    ASSUME NEW q, NEW u, NEW n \in Nat
    PROVE  \E g : Splicing(g, q, u, 0 .. n)
<1> DEFINE G == {m \in Nat : \E g : Splicing(g, q, u, 0 .. m)}
<1>1. 0 \in G
  <2> DEFINE g == [i \in 0 .. 0 |-> [kept |-> <<>>, over |-> FALSE]]
  <2>1. \A i \in 0 .. 0 : i = 0
    OBVIOUS
  <2>2. Splicing(g, q, u, 0 .. 0)
    BY <2>1, Zenon DEF Splicing
  <2> HIDE DEF g
  <2> QED
    BY <2>2
<1>2. ASSUME NEW m \in G
      PROVE  m + 1 \in G
  <2>1. PICK g : Splicing(g, q, u, 0 .. m)
    OBVIOUS
  <2> DEFINE next(h, i) ==
                IF i = 0 THEN [kept |-> <<>>, over |-> FALSE]
                ELSE IF q[i] = u /\ ~h[i - 1].over
                THEN [kept |-> h[i - 1].kept, over |-> TRUE]
                ELSE [kept |-> Append(h[i - 1].kept, q[i]), over |-> FALSE]
             h == [i \in 0 .. m + 1 |-> next(g, i)]
  <2>2. g = [i \in 0 .. m |-> next(g, i)]
    BY <2>1, Zenon DEF Splicing
  <2>3. \A i \in 0 .. m : i \in 0 .. m + 1
    OBVIOUS
  <2>4. \A i \in 0 .. m : h[i] = g[i]
    <3> HIDE DEF next
    <3> QED
      BY <2>2, <2>3
  <2>5. \A i \in 0 .. m + 1 : i # 0 => i - 1 \in 0 .. m
    OBVIOUS
  <2>6. \A i \in 0 .. m + 1 : next(g, i) = next(h, i)
    <3> HIDE DEF h
    <3> QED
      BY <2>4, <2>5
  <2>7. h = [i \in 0 .. m + 1 |-> next(h, i)]
    <3>1. [i \in 0 .. m + 1 |-> next(g, i)] = [i \in 0 .. m + 1 |-> next(h, i)]
      <4> HIDE DEF next, h
      <4> QED
        BY <2>6, Zenon
    <3> HIDE DEF next
    <3> QED
      BY <3>1
  <2>8. Splicing(h, q, u, 0 .. m + 1)
    <3> HIDE DEF h
    <3> QED
      BY <2>7, Zenon DEF Splicing
  <2>9. \E k : Splicing(k, q, u, 0 .. m + 1)
    <3> HIDE DEF h
    <3> QED
      BY <2>8
  <2> QED
    BY <2>9
<1>3. G = Nat
  <2> HIDE DEF G
  <2>1. G \in SUBSET Nat
    BY DEF G
  <2> QED
    BY <1>1, <1>2, <2>1, NumbersAll
<1> QED
  BY <1>3

\* The loops splice nothing out but what they look for.
LEMMA SplicedKeeps ==
    ASSUME NEW T, NEW q \in Seq(T), NEW u
    PROVE  /\ Spliced(q, u) \in Seq(T)
           /\ \A i \in DOMAIN q : q[i] # u =>
                 \E j \in DOMAIN Spliced(q, u) : Spliced(q, u)[j] = q[i]
<1> DEFINE g == CHOOSE f : Splicing(f, q, u, 0 .. Len(q))
<1>1. Len(q) \in Nat /\ DOMAIN q = 1 .. Len(q) /\ \A i \in DOMAIN q : q[i] \in T
  BY LenProperties
<1>2. Splicing(g, q, u, 0 .. Len(q))
  BY <1>1, SplicingEnds
<1>3. Spliced(q, u) = g[Len(q)].kept
  BY Zenon DEF Spliced, Splicing
<1> HIDE DEF g
<1> DEFINE Good(i) ==
              /\ g[i].kept \in Seq(T) /\ g[i].over \in BOOLEAN
              /\ \A k \in 1 .. i : q[k] # u =>
                    \E j \in DOMAIN g[i].kept : g[i].kept[j] = q[k]
           G == {i \in Nat : i <= Len(q) => Good(i)}
<1>4. ASSUME NEW i \in 0 .. Len(q)
      PROVE  g[i] = IF i = 0 THEN [kept |-> <<>>, over |-> FALSE]
                    ELSE IF q[i] = u /\ ~g[i - 1].over
                    THEN [kept |-> g[i - 1].kept, over |-> TRUE]
                    ELSE [kept |-> Append(g[i - 1].kept, q[i]), over |-> FALSE]
  BY <1>2, Zenon DEF Splicing
<1>5. 0 \in G
  <2>0. 0 \in 0 .. Len(q)
    BY <1>1
  <2>1. g[0] = [kept |-> <<>>, over |-> FALSE]
    BY <1>4, <2>0, Zenon
  <2>2. g[0].kept = <<>> /\ g[0].over = FALSE
    BY <2>1
  <2>3. <<>> \in Seq(T)
    OBVIOUS
  <2>4. 1 .. 0 = {}
    OBVIOUS
  <2>5. Good(0)
    BY <2>2, <2>3, <2>4
  <2> QED
    BY <2>5
<1>6. ASSUME NEW i \in G
      PROVE  i + 1 \in G
  <2> SUFFICES ASSUME i + 1 <= Len(q)
               PROVE  Good(i + 1)
    OBVIOUS
  <2>1. Good(i) /\ i \in Nat
    BY <1>1
  <2> DEFINE r == g[i].kept
             v == q[i + 1]
  <2>2. r \in Seq(T) /\ v \in T /\ (i + 1) - 1 = i /\ i + 1 # 0
        /\ i + 1 \in 0 .. Len(q)
    BY <1>1, <2>1
  <2>3. CASE v = u /\ ~g[i].over
    <3>1. g[i + 1] = [kept |-> r, over |-> TRUE]
      <4>1. g[i + 1] = IF q[i + 1] = u /\ ~g[(i + 1) - 1].over
                       THEN [kept |-> g[(i + 1) - 1].kept, over |-> TRUE]
                       ELSE [kept |-> Append(g[(i + 1) - 1].kept, q[i + 1]),
                             over |-> FALSE]
        BY <1>4, <2>2, Zenon
      <4>2. (i + 1) - 1 = i
        BY <2>2
      <4> QED
        BY <2>3, <4>1, <4>2, Zenon
    <3>2. g[i + 1].kept = r /\ g[i + 1].over = TRUE
      BY <3>1
    <3>3. \A k \in 1 .. i + 1 : q[k] # u => k \in 1 .. i
      BY <2>1, <2>3
    <3> HIDE DEF r
    <3> QED
      BY <2>1, <2>2, <3>2, <3>3 DEF r
  <2>4. CASE ~(v = u /\ ~g[i].over)
    <3>1. g[i + 1] = [kept |-> Append(r, v), over |-> FALSE]
      BY <1>4, <2>2, <2>4
    <3>2. g[i + 1].kept = Append(r, v) /\ g[i + 1].over = FALSE
      BY <3>1
    <3>3. /\ Append(r, v) \in Seq(T)
          /\ DOMAIN r = 1 .. Len(r) /\ Len(r) \in Nat
          /\ DOMAIN Append(r, v) = 1 .. Len(r) + 1
          /\ Append(r, v)[Len(r) + 1] = v
          /\ \A j \in 1 .. Len(r) : Append(r, v)[j] = r[j]
      BY <2>2, AppendProperties, LenProperties
    <3>4. \A k \in 1 .. i + 1 : k = i + 1 \/ k \in 1 .. i
      BY <2>1
    <3>5. ASSUME NEW k \in 1 .. i + 1, q[k] # u
          PROVE  \E j \in DOMAIN Append(r, v) : Append(r, v)[j] = q[k]
      <4>1. CASE k = i + 1
        <5>1. Len(r) + 1 \in DOMAIN Append(r, v)
          BY <3>3
        <5> QED
          BY <3>3, <4>1, <5>1
      <4>2. CASE k \in 1 .. i
        <5>1. PICK j \in DOMAIN r : r[j] = q[k]
          BY <2>1, <3>5, <4>2
        <5>2. j \in DOMAIN Append(r, v)
          BY <3>3
        <5> QED
          BY <3>3, <5>1, <5>2
      <4> QED
        BY <3>4, <4>1, <4>2
    <3> HIDE DEF r, v
    <3> QED
      BY <3>2, <3>3, <3>5
  <2> QED
    BY <2>3, <2>4
<1>7. G = Nat
  <2> HIDE DEF G
  <2>1. G \in SUBSET Nat
    BY DEF G
  <2> QED
    BY <1>5, <1>6, <2>1, NumbersAll
<1>8. Good(Len(q))
  BY <1>1, <1>7
<1> QED
  BY <1>1, <1>3, <1>8

-----------------------------------------------------------------------------
(***************************************************************************)
(* A table deletes itself when nobody is in users and nobody in reconnect. *)
(* The first says that a seat with a socket is about to be left; that the  *)
(* second leaves no seat without a socket is what is shown here: its user  *)
(* is in reconnect until eject empties that seat, for eject takes the user *)
(* of the socket from reconnect but stands up whoever has the seat.        *)
(***************************************************************************)

Listed(u) == \E i \in DOMAIN reconnect : reconnect[i] = u
Held == holder \notin {Free, Leaked}

\* The sockets that a seat is to be emptied for, and the seat.
Ejects(s, c) ==
    \/ <<s, c>> \in ejectTimers
    \/ \E w \in Waiting : w.op = "eject" /\ w.seat = s /\ w.conn = c
    \/ Held /\ holder.op = "eject" /\ holder.seat = s /\ holder.conn = c

\* The user of a seat without a socket may come back.
AwayIsListed ==
    \A s \in Seats :
        seats[s] # Empty /\ seats[s].conn = NoConn => Listed(seats[s].user)

\* So is the user of a seat that is about to lose its socket.
LeaverIsListed ==
    \A w \in Waiting : w.op = "away" => Listed(w.conn[1]) \/ Unseated(w.conn)

\* When a user is taken from reconnect, his own seat is emptied.
EjectsFromSeat ==
    \A s, t \in Seats, c \in Conns :
        seats[s] # Empty /\ seats[s].conn = NoConn /\ c[1] = seats[s].user
            /\ Ejects(t, c) => t = s

\* The socket that eject was called for has no seat itself.
EjectorUnseated ==
    Held /\ holder.op = "eject" => holder.conn \in Conns /\ Unseated(holder.conn)

RInv == AwayIsListed /\ LeaverIsListed /\ EjectsFromSeat /\ EjectorUnseated

\* A step that gives nobody a seat and takes no socket from one.
LEMMA ListStill ==
    ASSUME RInv, TableTypes, SameSeats,
           \A u \in Users : Listed(u) =>
              \/ Listed(u)'
              \/ /\ \A s \in Seats : seats'[s] # Empty /\ seats[s].user = u
                       => seats[s].conn # NoConn
                 /\ \A c \in Conns : c[1] = u => Unseated(c)',
           \A w \in Waiting' : w.op = "away" =>
              w \in Waiting \/ (w.conn \in Conns /\ Listed(w.conn[1])'),
           \A s \in Seats, c \in Conns : Ejects(s, c)' => Ejects(s, c),
           Held' /\ holder'.op = "eject" =>
              \/ Held /\ holder.op = "eject" /\ holder'.conn = holder.conn
              \/ holder'.conn \in Conns /\ Unseated(holder'.conn)
    PROVE  RInv'
<1>1. AwayIsListed'
  <2> SUFFICES ASSUME NEW s \in Seats, seats'[s] # Empty,
                      seats'[s].conn = NoConn
               PROVE  Listed(seats[s].user)'
    BY DEF AwayIsListed
  <2>1. /\ seats[s] # Empty /\ seats'[s].user = seats[s].user
        /\ seats[s].conn = NoConn /\ seats[s].user \in Users
    BY DEF SameSeats, TableTypes, SeatState
  <2>2. PICK u \in Users : u = seats[s].user
    BY <2>1
  <2>3. Listed(u)
    BY <2>1, <2>2 DEF RInv, AwayIsListed
  <2>4. Listed(u)'
    BY <2>1, <2>2, <2>3
  <2> QED
    BY <2>1, <2>2, <2>4 DEF Listed
<1>2. \A c \in Conns : Unseated(c) => Unseated(c)'
  BY DEF Unseated, SameSeats
<1>3. LeaverIsListed'
  <2> SUFFICES ASSUME NEW w \in Waiting', w.op = "away", w \in Waiting
               PROVE  Listed(w.conn[1])' \/ Unseated(w.conn)'
    BY DEF LeaverIsListed
  <2>1. w \in Call
    BY DEF Waiting, TableTypes
  <2>2. w.conn \in Conns /\ w.conn[1] \in Users
    BY <2>1 DEF Call, Conns
  <2>3. Listed(w.conn[1]) \/ Unseated(w.conn)
    BY DEF RInv, LeaverIsListed
  <2> QED
    BY <1>2, <2>2, <2>3
<1>4. EjectsFromSeat'
  BY DEF RInv, EjectsFromSeat, SameSeats
<1>5. EjectorUnseated'
  <2> SUFFICES ASSUME Held', holder'.op = "eject"
               PROVE  holder'.conn \in Conns /\ Unseated(holder.conn)'
    BY DEF EjectorUnseated
  <2>1. CASE Held /\ holder.op = "eject" /\ holder'.conn = holder.conn
    <3>1. holder.conn \in Conns /\ Unseated(holder.conn)
      BY <2>1 DEF RInv, EjectorUnseated
    <3> QED
      BY <2>1, <3>1 DEF Unseated, SameSeats
  <2>2. CASE holder'.conn \in Conns /\ Unseated(holder'.conn)
    BY <2>2 DEF Unseated, SameSeats
  <2> QED
    BY <2>1, <2>2
<1> QED
  BY <1>1, <1>3, <1>4, <1>5 DEF RInv

\* A step that leaves those who may come back as they are, and who they are.
LEMMA ListKept ==
    ASSUME RInv, TableTypes, SameSeats, reconnect' = reconnect,
           ejectTimers' \subseteq ejectTimers,
           \A w \in Waiting' : w.op = "away" => w \in Waiting,
           \A w \in Waiting' : w.op = "eject" =>
              w \in Waiting \/ <<w.seat, w.conn>> \in ejectTimers,
           Held' /\ holder'.op = "eject" =>
              \/ /\ Held /\ holder.op = "eject" /\ holder'.conn = holder.conn
                 /\ holder'.seat \in {holder.seat, NoSeat}
              \/ /\ holder'.conn \in Conns /\ Unseated(holder'.conn)
                 /\ Ejects(holder'.seat, holder'.conn)
    PROVE  RInv'
<1>1. \A u \in Users : Listed(u) => Listed(u)'
  BY DEF Listed
<1>2. \A s \in Seats, c \in Conns : Ejects(s, c)' => Ejects(s, c)
  BY Marks DEF Ejects
<1> QED
  BY <1>1, <1>2, ListStill

\* A call is served, and its handler begins or is done; but for eject.
LEMMA ListServed ==
    ASSUME RInv, TableTypes, SameSeats, UNCHANGED <<reconnect, ejectTimers>>,
           NEW op, Granted(op),
           Held' => holder'.op # "eject"
    PROVE  RInv'
<1>1. Waiting' \subseteq Waiting
  BY ServedWaiting
<1> QED
  BY <1>1, ListKept

\* A call is made, but for that of a lost socket.
LEMMA ListAsked ==
    ASSUME RInv, TableTypes, UNCHANGED <<seats, reconnect, holder>>,
           ejectTimers' \subseteq ejectTimers,
           \/ calls' = calls
           \/ \E x \in Call :
                 /\ calls' = Append(calls, x) /\ x.op # "away"
                 /\ x.op = "eject" => <<x.seat, x.conn>> \in ejectTimers
    PROVE  RInv'
<1>1. SameSeats
  BY DEF SameSeats
<1>2. CASE calls' = calls
  <2>1. Waiting' = Waiting
    BY <1>2 DEF Waiting
  <2> QED
    BY <1>1, <2>1, ListKept DEF Held
<1>3. ASSUME NEW x \in Call, calls' = Append(calls, x), x.op # "away",
             x.op = "eject" => <<x.seat, x.conn>> \in ejectTimers
      PROVE  RInv'
  <2>1. Waiting' = Waiting \cup {x}
    BY <1>3, AskedWaiting
  <2> QED
    BY <1>1, <1>3, <2>1, ListKept DEF Held
<1> QED
  BY <1>2, <1>3

\* standUp begins, for whatever handler but eject.
LEMMA ListBegins ==
    ASSUME RInv, TableTypes, NEW op, Granted(op),
           NEW o \in {"stand", "leave", "logout", "kick"},
           NEW c, FindSeat(c) # NoSeat, BeginStandUp(o, c, FindSeat(c), {})
    PROVE  RInv'
<1>1. FindSeat(c) \in Seats /\ seats[FindSeat(c)] # Empty
  BY FoundConn
<1>2. SameSeats /\ holder'.op = o /\ ejectTimers' = ejectTimers
  BY <1>1, BeginSeats
<1>3. reconnect' = reconnect
  BY DEF BeginStandUp
<1> QED
  BY <1>2, <1>3, ListServed

LEMMA LoginList ==
    ASSUME RInv, TableTypes, OneSocketEach, NEW c \in Conns, Login(c)
    PROVE  RInv'
<1>1. \A old \in Conns : old[1] = c[1] => old = c
  BY DEF OneSocketEach
<1>2. UNCHANGED <<seats, holder, ejectTimers, reconnect, calls>>
  BY <1>1 DEF Login
<1> QED
  BY <1>2, ListAsked

\* handleDisconnect notes that the user may come back before it asks.
LEMMA DropList ==
    ASSUME RInv, TableTypes, reconnect \in Seq(Users), NEW c \in Conns,
           NEW how \in {"lost", "cleared"}, Drop(c, how)
    PROVE  RInv'
<1>1. UNCHANGED <<seats, holder, ejectTimers>>
  BY DEF Drop
<1>2. CASE UNCHANGED <<reconnect, calls>>
  BY <1>1, <1>2, ListAsked
<1>3. CASE reconnect' = Append(reconnect, c[1]) /\ Ask("away", c, NoSeat)
  <2>1. SameSeats
    BY <1>1 DEF SameSeats
  <2>2. c[1] \in Users
    BY DEF Conns
  <2>3. /\ Len(reconnect) \in Nat /\ DOMAIN reconnect = 1 .. Len(reconnect)
        /\ DOMAIN reconnect' = 1 .. Len(reconnect) + 1
        /\ reconnect'[Len(reconnect) + 1] = c[1]
        /\ \A i \in 1 .. Len(reconnect) : reconnect'[i] = reconnect[i]
    BY <1>3, <2>2, AppendProperties, LenProperties
  <2>4. Len(reconnect) + 1 \in DOMAIN reconnect'
    BY <2>3
  <2>5. Listed(c[1])'
    BY <2>3, <2>4 DEF Listed
  <2>6. \A u \in Users : Listed(u) => Listed(u)'
    <3> SUFFICES ASSUME NEW u \in Users, NEW i \in DOMAIN reconnect,
                        reconnect[i] = u
                 PROVE  Listed(u)'
      BY DEF Listed
    <3>1. i \in DOMAIN reconnect' /\ reconnect'[i] = u
      BY <2>3
    <3> QED
      BY <3>1 DEF Listed
  <2>7. PICK x \in Call : /\ calls' = Append(calls, x)
                          /\ x.op = "away" /\ x.conn = c
    BY <1>3, Callers DEF Ask
  <2>8. Waiting' = Waiting \cup {x}
    BY <2>7, AskedWaiting
  <2>9. \A s \in Seats, d \in Conns : Ejects(s, d)' => Ejects(s, d)
    BY <1>1, <2>7, <2>8 DEF Ejects, Held
  <2>10. \A w \in Waiting' : w.op = "away" =>
            w \in Waiting \/ (w.conn \in Conns /\ Listed(w.conn[1])')
    BY <2>5, <2>7, <2>8 DEF Listed
  <2>11. Held' => Held /\ holder'.op = holder.op /\ holder'.conn = holder.conn
    BY <1>1 DEF Held
  <2> QED
    BY <2>1, <2>6, <2>9, <2>10, <2>11, ListStill
<1> QED
  BY <1>2, <1>3 DEF Drop, Disconnect

LEMMA MessageList ==
    ASSUME RInv, TableTypes, NEW c \in Conns,
           \/ Join(c) \/ StandUp(c) \/ Kick(c) \/ TableSitClose(c)
           \/ Leave(c) \/ Logout(c)
           \/ \E s \in Seats \cup {NoSeat} : Sit(c, s)
    PROVE  RInv'
<1>1. UNCHANGED <<seats, holder, reconnect, ejectTimers>>
  BY DEF Join, StandUp, Kick, TableSitClose, Leave, Logout, Sit
<1>2. \/ calls' = calls
      \/ \E x \in Call : calls' = Append(calls, x) /\ x.op \notin {"away", "eject"}
  <2>1. CASE Join(c) \/ StandUp(c) \/ Kick(c) \/ Leave(c) \/ Logout(c)
    <3>1. calls' = calls \/ \E op \in {"join", "stand", "kick", "leave", "logout"} :
                               Ask(op, c, NoSeat)
      BY <2>1 DEF Join, StandUp, Kick, Leave, Logout
    <3> QED
      BY <3>1, Callers DEF Ask
  <2>2. CASE TableSitClose(c)
    <3> DEFINE mine == {j \in DOMAIN reserved : reserved[j].user = c[1]}
    <3>1. mine \in SUBSET Nat
      BY LenProperties DEF TableTypes
    <3>2. FirstOf(mine) \in mine
      BY <2>2, <3>1, FirstIsIn DEF TableSitClose
    <3>3. PICK i \in DOMAIN reserved : i = FirstOf(mine)
      BY <3>2
    <3>4. reserved[i].index \in Seats /\ Ask("boot", NoConn, reserved[i].index)
      BY <2>2, <3>3, Offers DEF TableSitClose
    <3>5. PICK s \in Seats : s = reserved[i].index
      BY <3>4
    <3>6. [op |-> "boot", conn |-> NoConn, seat |-> s] \in Call
      BY Callers
    <3> QED
      BY <3>4, <3>5, <3>6 DEF Ask
  <2>3. ASSUME NEW s \in Seats \cup {NoSeat}, Sit(c, s)
        PROVE  \E x \in Call : /\ calls' = Append(calls, x)
                               /\ x.op \notin {"away", "eject"}
    BY <2>3, Callers DEF Sit, Ask
  <2> QED
    BY <2>1, <2>2, <2>3
<1> QED
  BY <1>1, <1>2, ListAsked

LEMMA TimerList ==
    ASSUME RInv, TableTypes,
           \/ UnstickFires
           \/ \E s \in Seats : BootFires(s)
           \/ \E s \in Seats, c \in Conns : EjectFires(s, c)
    PROVE  RInv'
<1>1. CASE UnstickFires
  <2>1. \E x \in Call : calls' = Append(calls, x) /\ x.op = "unstick"
    BY <1>1 DEF UnstickFires, Ask, Call
  <2>2. UNCHANGED <<seats, holder, reconnect, ejectTimers>>
    BY <1>1 DEF UnstickFires
  <2> QED
    BY <2>1, <2>2, ListAsked
<1>2. ASSUME NEW s \in Seats, BootFires(s)
      PROVE  RInv'
  <2>1. \E x \in Call : calls' = Append(calls, x) /\ x.op = "boot"
    BY <1>2 DEF BootFires, Ask, Call
  <2>2. UNCHANGED <<seats, holder, reconnect, ejectTimers>>
    BY <1>2 DEF BootFires
  <2> QED
    BY <2>1, <2>2, ListAsked
<1>3. ASSUME NEW s \in Seats, NEW c \in Conns, EjectFires(s, c)
      PROVE  RInv'
  <2>1. \E x \in Call : /\ calls' = Append(calls, x)
                        /\ x.op = "eject" /\ x.conn = c /\ x.seat = s
    BY <1>3 DEF EjectFires, Ask, Call
  <2>2. /\ UNCHANGED <<seats, holder, reconnect>>
        /\ <<s, c>> \in ejectTimers /\ ejectTimers' \subseteq ejectTimers
    BY <1>3 DEF EjectFires
  <2> QED
    BY <2>1, <2>2, ListAsked
<1> QED
  BY <1>1, <1>2, <1>3

\* The handlers that empty a seat or none.
LEMMA StandersList ==
    ASSUME RInv, TableTypes,
           GrantStand \/ GrantLeave("leave") \/ GrantLeave("logout") \/ GrantKick
    PROVE  RInv'
<1> DEFINE c == Head(calls).conn
<1>1. PICK op \in {"stand", "leave", "logout", "kick"} :
         /\ Granted(op)
         /\ \/ FindSeat(c) # NoSeat /\ BeginStandUp(op, c, FindSeat(c), {})
            \/ UNCHANGED <<seats, reconnect, ejectTimers, holder>>
  <2>1. CASE GrantStand
    BY <2>1 DEF GrantStand, Ignore
  <2>2. CASE GrantKick
    BY <2>2 DEF GrantKick, Fail
  <2>3. ASSUME NEW op \in {"leave", "logout"}, GrantLeave(op)
        PROVE  /\ Granted(op)
               /\ \/ FindSeat(c) # NoSeat /\ BeginStandUp(op, c, FindSeat(c), {})
                  \/ UNCHANGED <<seats, reconnect, ejectTimers, holder>>
    BY <2>3 DEF GrantLeave
  <2> QED
    BY <2>1, <2>2, <2>3
<1>2. holder = Free
  BY <1>1, ServedWaiting
<1>3. CASE UNCHANGED <<seats, reconnect, ejectTimers, holder>>
  <2>1. SameSeats /\ ~ Held'
    BY <1>2, <1>3 DEF SameSeats, Held
  <2> QED
    BY <1>1, <1>3, <2>1, ListServed
<1> HIDE DEF c
<1> QED
  BY <1>1, <1>3, ListBegins

\* Those that empty no seat.
LEMMA OthersList ==
    ASSUME RInv, TableTypes, GrantJoin \/ GrantBoot \/ GrantUnstick
    PROVE  RInv'
<1>1. PICK op : Granted(op) /\ op \in {"join", "boot", "unstick"}
  BY DEF GrantJoin, GrantBoot, GrantUnstick
<1>2. UNCHANGED <<seats, reconnect, ejectTimers>>
  BY DEF GrantJoin, GrantBoot, GrantUnstick, Fail, Ignore
<1>3. SameSeats /\ holder = Free
  BY <1>1, <1>2, ServedWaiting DEF SameSeats
<1>4. holder' \in {Free, Leaked} \/ holder'.op = "unstick"
  BY <1>3 DEF GrantJoin, GrantBoot, GrantUnstick, Fail, Ignore
<1> QED
  BY <1>1, <1>2, <1>3, <1>4, ListServed DEF Held

LEMMA GrantEjectList ==
    ASSUME RInv, SInv, TableTypes, GrantEject
    PROVE  RInv'
<1> DEFINE c == Head(calls).conn
           s == Head(calls).seat
<1>1. /\ Granted("eject") /\ holder = Free /\ c \in Conns
      /\ Head(calls) \in Waiting /\ Head(calls).op = "eject" /\ s \in Seats
      /\ Waiting' \subseteq Waiting
  BY ServedWaiting, CallConn DEF GrantEject, Call
<1>2. Unseated(c) /\ Ejects(s, c)
  BY <1>1 DEF SInv, EjectedIsGone, Ejected, Ejects
<1>3. CASE seats[s] = Empty
  <2>1. UNCHANGED <<seats, ejectTimers, holder, reconnect>>
    BY <1>3 DEF GrantEject, Fail
  <2> QED
    BY <1>1, <2>1, ListServed DEF Held, SameSeats
<1>4. CASE seats[s] # Empty
  <2>1. BeginStandUp("eject", c, s, {})
    BY <1>4 DEF GrantEject
  <2>2. /\ SameSeats /\ UNCHANGED ejectTimers
        /\ holder'.conn = c /\ holder'.seat = s
    BY <1>1, <1>4, <2>1, BeginSeats
  <2>3. reconnect' = reconnect
    BY <2>1 DEF BeginStandUp
  <2> HIDE DEF c, s
  <2> QED
    BY <1>1, <1>2, <2>2, <2>3, ListKept
<1> QED
  BY <1>3, <1>4

LEMMA UnstickNextList ==
    ASSUME RInv, TableTypes, StandingUp, UnstickNext
    PROVE  RInv'
<1> DEFINE x == LastOf(holder.todo)
           c == seats[x].conn
           s == IF c = NoConn THEN x ELSE FindSeat(c)
<1>1. /\ holder \notin {Free, Leaked} /\ holder.seat = NoSeat
      /\ calls' = calls
  BY DEF UnstickNext, Runs
<1>2. x \in Seats
  BY <1>1, LastIsIn DEF StandingUp, StandUpState, TableTypes
<1>3. Waiting' = Waiting
  BY <1>1 DEF Waiting
<1>4. CASE seats[x] = Empty
  <2>1. UNCHANGED <<seats, ejectTimers, holder, reconnect>>
    BY <1>4 DEF UnstickNext, Fail
  <2>2. SameSeats
    BY <2>1 DEF SameSeats
  <2> QED
    BY <1>3, <2>1, <2>2, ListKept DEF Held
<1>5. CASE seats[x] # Empty
  <2>1. BeginStandUp("unstick", c, s, holder.todo \ {x})
    BY <1>5 DEF UnstickNext
  <2>2. c # NoConn => FindSeat(c) # NoSeat
    BY <1>2, <1>5, FoundConn DEF Unseated
  <2>3. s \in Seats /\ seats[s] # Empty
    BY <1>2, <1>5, <2>2, FoundConn
  <2>4. SameSeats /\ UNCHANGED ejectTimers /\ holder'.op = "unstick"
    BY <2>1, <2>3, BeginSeats
  <2>5. reconnect' = reconnect
    BY <2>1 DEF BeginStandUp
  <2> QED
    BY <1>3, <2>4, <2>5, ListKept
<1> QED
  BY <1>4, <1>5

\* When eject is done, its user is not in reconnect, and nor is he in a seat.
LEMMA StandUpDoneList ==
    ASSUME RInv, SInv, TableTypes, reconnect \in Seq(Users), OneSocketEach,
           StandUpDone
    PROVE  RInv'
<1> DEFINE s == holder.seat
           c == holder.conn
<1>1. /\ Held /\ holder.seat # NoSeat
      /\ seats' = [seats EXCEPT ![s] = Empty]
      /\ UNCHANGED <<ejectTimers, calls>>
      /\ reconnect' = IF holder.op = "eject" THEN Spliced(reconnect, c[1])
                      ELSE reconnect
      /\ holder' \in {Free, [holder EXCEPT !.seat = NoSeat]}
  BY DEF StandUpDone, Runs, Held
<1>2. holder \in StandUpState /\ s \in Seats
  BY <1>1 DEF StandUpState, TableTypes, Held
<1>3. seats'[s] = Empty /\ \A t \in Seats : t # s => seats'[t] = seats[t]
  BY <1>1, <1>2 DEF TableTypes
<1>4. SameSeats
  BY <1>3 DEF SameSeats
<1>5. Held' => /\ holder'.op = holder.op /\ holder'.conn = holder.conn
               /\ holder'.seat = NoSeat
  BY <1>1, <1>2 DEF StandUpState, Held
<1>6. Waiting' = Waiting
  BY <1>1 DEF Waiting
<1>7. CASE holder.op # "eject"
  BY <1>1, <1>4, <1>5, <1>6, <1>7, ListKept
<1>8. CASE holder.op = "eject"
  <2>1. c \in Conns /\ Unseated(c) /\ Ejects(s, c)
    BY <1>1, <1>8 DEF RInv, EjectorUnseated, Ejects
  <2>2. \A t \in Seats, d \in Conns : Ejects(t, d)' => Ejects(t, d)
    BY <1>1, <1>5, <1>6, Marks DEF Ejects
  <2>3. ASSUME NEW u \in Users, Listed(u), u # c[1]
        PROVE  Listed(u)'
    <3>1. PICK i \in DOMAIN reconnect : reconnect[i] = u
      BY <2>3 DEF Listed
    <3>2. \E j \in DOMAIN reconnect' : reconnect'[j] = u
      BY <1>1, <1>8, <2>3, <3>1, SplicedKeeps
    <3> QED
      BY <3>2 DEF Listed
  <2>4. \A d \in Conns : d[1] = c[1] => d = c
    BY <2>1 DEF OneSocketEach
  <2>5. ASSUME NEW d \in Conns, d[1] = c[1]
        PROVE  Unseated(d)'
    <3>1. Unseated(d)
      BY <2>1, <2>4, <2>5
    <3> QED
      BY <1>4, <3>1 DEF Unseated, SameSeats
  <2>6. ASSUME NEW t \in Seats, seats'[t] # Empty, seats[t].user = c[1]
        PROVE  seats[t].conn # NoConn
    <3>1. t # s /\ seats[t] # Empty
      BY <1>3, <1>4, <2>6 DEF SameSeats
    <3> QED
      BY <1>2, <2>1, <2>6, <3>1 DEF RInv, EjectsFromSeat
  <2> QED
    BY <1>4, <1>5, <1>6, <1>8, <1>1, <2>2, <2>3, <2>5, <2>6, ListStill
<1> QED
  BY <1>7, <1>8

\* Nobody takes his seat with a socket that is gone.
LEMMA GrantSitList ==
    ASSUME RInv, SInv, TableTypes, GrantSit
    PROVE  RInv'
<1> DEFINE c == Head(calls).conn
           s == Head(calls).seat
           new == [user |-> c[1], conn |-> c, timer |-> NoConn, member |-> TRUE]
<1>1. /\ Granted("sit") /\ holder = Free /\ c \in Conns
      /\ Waiting' \subseteq Waiting
      /\ Head(calls) \in Call /\ Head(calls).op = "sit"
  BY ServedWaiting, CallConn DEF GrantSit
<1>2. UNCHANGED <<reconnect, ejectTimers, holder>>
  BY DEF GrantSit, Ignore
<1>3. CASE seats' = seats
  <2>1. SameSeats
    BY <1>3 DEF SameSeats
  <2> QED
    BY <1>1, <1>2, <2>1, ListServed DEF Held
<1>4. CASE s # NoSeat /\ MaySit(c) /\ seats' = [seats EXCEPT ![s] = new]
  <2>1. s \in Seats /\ seats \in [Seats -> SeatState \cup {Empty}]
    BY <1>1, <1>4 DEF Call, TableTypes
  <2>2. seats'[s] = new /\ \A t \in Seats : t # s => seats'[t] = seats[t]
    BY <1>4, <2>1
  <2>3. new.conn = c /\ c # NoConn /\ ~ Gone(c)
    BY <1>1, <1>4 DEF Conns, NoConn, MaySit, Gone
  <2> HIDE DEF new, c
  <2>4. AwayIsListed'
    BY <1>2, <2>2, <2>3 DEF RInv, AwayIsListed, Listed
  <2>5. LeaverIsListed'
    <3> SUFFICES ASSUME NEW w \in Waiting, w.op = "away"
                 PROVE  Listed(w.conn[1])' \/ Unseated(w.conn)'
      BY <1>1 DEF LeaverIsListed
    <3>1. w.conn # c
      BY <2>3 DEF SInv, AwayIsGone
    <3>2. Listed(w.conn[1]) \/ Unseated(w.conn)
      BY DEF RInv, LeaverIsListed
    <3>3. Unseated(w.conn) => Unseated(w.conn)'
      BY <2>2, <2>3, <3>1 DEF Unseated
    <3> QED
      BY <1>2, <3>2, <3>3 DEF Listed
  <2>6. \A t \in Seats, d \in Conns : Ejects(t, d)' => Ejects(t, d)
    BY <1>1, <1>2 DEF Ejects, Held
  <2>7. EjectsFromSeat'
    BY <2>2, <2>3, <2>6 DEF RInv, EjectsFromSeat
  <2>8. EjectorUnseated'
    BY <1>1, <1>2 DEF EjectorUnseated, Held
  <2> QED
    BY <2>4, <2>5, <2>7, <2>8 DEF RInv
<1> QED
  BY <1>3, <1>4 DEF GrantSit, Ignore

\* The seat that loses its socket is that of a user who may come back, and
\* whose ejection starts with it.
LEMMA GrantAwayList ==
    ASSUME RInv, SInv, TableTypes, OneSocketEach, GrantAway
    PROVE  RInv'
<1> DEFINE c == Head(calls).conn
           s == FindSeat(c)
<1>1. /\ Granted("away") /\ holder = Free /\ c \in Conns
      /\ Head(calls) \in Waiting /\ Head(calls).op = "away"
      /\ Waiting' \subseteq Waiting
  BY ServedWaiting, CallConn DEF GrantAway
<1>2. UNCHANGED <<reconnect, holder>>
  BY DEF GrantAway, Ignore
<1>3. CASE s = NoSeat
  <2>1. UNCHANGED <<seats, ejectTimers>>
    BY <1>3 DEF GrantAway, Ignore
  <2>2. SameSeats
    BY <2>1 DEF SameSeats
  <2> QED
    BY <1>1, <1>2, <2>1, <2>2, ListServed DEF Held
<1>4. CASE s # NoSeat
  <2>1. /\ seats' = [seats EXCEPT ![s].conn = NoConn, ![s].timer = c]
        /\ ejectTimers' = ejectTimers \cup {<<s, c>>}
    BY <1>4 DEF GrantAway
  <2>2. s \in Seats /\ seats[s] # Empty /\ seats[s].conn = c /\ c # NoConn
    BY <1>1, <1>4, FoundConn DEF Conns, NoConn
  <2>3. seats \in [Seats -> SeatState \cup {Empty}] /\ seats[s] \in SeatState
    BY <2>2 DEF TableTypes
  <2>4. /\ seats'[s].user = seats[s].user /\ seats'[s].conn = NoConn
        /\ \A t \in Seats : t # s => seats'[t] = seats[t]
    <3>1. /\ seats'[s] = [[seats[s] EXCEPT !.conn = NoConn] EXCEPT !.timer = c]
          /\ \A t \in Seats : t # s => seats'[t] = seats[t]
      BY <2>1, <2>2, <2>3
    <3> QED
      BY <2>3, <3>1 DEF SeatState
  <2>5. seats[s].user = c[1]
    BY <2>2 DEF SInv, OwnSeat
  <2>6. Listed(c[1]) /\ ~ Unseated(c)
    <3>1. ~ Unseated(c)
      BY <2>2 DEF Unseated
    <3> QED
      BY <1>1, <3>1 DEF RInv, LeaverIsListed
  <2>7. \A t \in Seats : ~ Ejects(t, c)
    <3>1. ~ Ejected(c)
      BY <1>1, <2>6 DEF SInv, EjectedIsGone
    <3> QED
      BY <1>1, <3>1 DEF Ejected, Ejects, Held
  <2> HIDE DEF s, c
  <2>8. \A t \in Seats, d \in Conns :
           Ejects(t, d)' => Ejects(t, d) \/ (t = s /\ d = c)
    BY <1>1, <1>2, <2>1 DEF Ejects, Held
  <2>9. \A t \in Seats : seats'[t] # Empty =>
           /\ seats[t] # Empty /\ seats'[t].user = seats[t].user
           /\ t # s => seats'[t].conn = seats[t].conn
    BY <2>2, <2>4
  <2>10. AwayIsListed'
    <3> SUFFICES ASSUME NEW t \in Seats, seats'[t] # Empty,
                        seats'[t].conn = NoConn
                 PROVE  Listed(seats[t].user)'
      BY DEF AwayIsListed
    <3>1. Listed(seats[t].user)
      <4>1. CASE t = s
        BY <2>5, <2>6, <4>1
      <4>2. CASE t # s
        BY <2>9, <4>2 DEF RInv, AwayIsListed
      <4> QED
        BY <4>1, <4>2
    <3> QED
      BY <1>2, <2>9, <3>1 DEF Listed
  <2>11. LeaverIsListed'
    <3> SUFFICES ASSUME NEW w \in Waiting, w.op = "away"
                 PROVE  Listed(w.conn[1])' \/ Unseated(w.conn)'
      BY <1>1 DEF LeaverIsListed
    <3>1. Listed(w.conn[1]) \/ Unseated(w.conn)
      BY DEF RInv, LeaverIsListed
    <3>2. w.conn # NoConn
      <4>1. w \in Call
        BY DEF Waiting, TableTypes
      <4> QED
        BY <4>1, CallConn DEF Conns, NoConn
    <3>3. Unseated(w.conn) => Unseated(w.conn)'
      BY <2>4, <2>9, <3>2 DEF Unseated
    <3> QED
      BY <1>2, <3>1, <3>3 DEF Listed
  <2>12. EjectsFromSeat'
    <3> SUFFICES ASSUME NEW t \in Seats, NEW r \in Seats, NEW d \in Conns,
                        seats'[t] # Empty, seats'[t].conn = NoConn,
                        d[1] = seats'[t].user, Ejects(r, d)'
                 PROVE  r = t
      BY DEF EjectsFromSeat
    <3>1. seats[t] # Empty /\ d[1] = seats[t].user
      BY <2>9
    <3>2. CASE t = s
      <4>1. d = c
        BY <1>1, <2>5, <3>1, <3>2 DEF OneSocketEach
      <4> QED
        BY <2>7, <2>8, <3>2, <4>1
    <3>3. CASE t # s
      <4>1. seats[t].conn = NoConn
        BY <2>9, <3>3
      <4>2. d # c
        BY <2>2, <2>5, <3>1, <3>3 DEF SInv, OneSeatEach
      <4>3. Ejects(r, d)
        BY <2>8, <4>2
      <4> QED
        BY <3>1, <4>1, <4>3 DEF RInv, EjectsFromSeat
    <3> QED
      BY <3>2, <3>3
  <2>13. EjectorUnseated'
    BY <1>1, <1>2 DEF EjectorUnseated, Held
  <2> QED
    BY <2>10, <2>11, <2>12, <2>13 DEF RInv
<1> QED
  BY <1>3, <1>4

LEMMA ListBegin == Init => RInv
<1> SUFFICES ASSUME Init
             PROVE  RInv
  OBVIOUS
<1>1. ejectTimers = {} /\ holder = Free /\ \A s \in Seats : seats[s] = Empty
  BY DEF Init
<1>2. Waiting = {}
  <2>1. DOMAIN << >> = {}
    OBVIOUS
  <2>2. DOMAIN calls = {}
    BY <2>1 DEF Init
  <2> QED
    BY <2>2 DEF Waiting
<1> QED
  BY <1>1, <1>2 DEF RInv, AwayIsListed, LeaverIsListed, EjectsFromSeat,
     EjectorUnseated, Held

-----------------------------------------------------------------------------
\* The names of those who may come back.
ReconnectTypes == reconnect \in Seq(Users)

LEMMA ReconnectStep ==
    ASSUME ReconnectTypes, [Next]_vars
    PROVE  ReconnectTypes'
<1> USE DEF ReconnectTypes
<1>1. CASE reconnect' = reconnect
  BY <1>1
<1>2. ASSUME NEW c \in Conns, Disconnect(c)
      PROVE  ReconnectTypes'
  <2>1. c[1] \in Users
    BY DEF Conns
  <2> QED
    BY <1>2, <2>1, AppendProperties DEF Disconnect
<1>3. ASSUME NEW u, reconnect' = Spliced(reconnect, u)
      PROVE  ReconnectTypes'
  BY <1>3, SplicedKeeps
<1>4. CASE Locked
  <2>1. CASE StandUpDone
    BY <1>1, <1>3, <2>1 DEF StandUpDone
  <2>2. CASE GrantJoin \/ GrantSit \/ GrantStand \/ GrantAway \/ GrantEject
             \/ GrantResume \/ GrantKick \/ GrantBoot \/ GrantUnstick
             \/ UnstickNext
    BY <1>1, <2>2 DEF GrantJoin, GrantSit, GrantStand, GrantAway, GrantEject,
       GrantResume, GrantKick, GrantBoot, GrantUnstick, UnstickNext, Fail,
       Ignore, BeginStandUp
  <2>3. CASE GrantLeave("leave") \/ GrantLeave("logout")
    BY <1>1, <2>3 DEF GrantLeave, BeginStandUp
  <2> QED
    BY <1>4, <2>1, <2>2, <2>3 DEF Locked
<1>5. ASSUME NEW c \in Conns, Login(c) \/ Drop(c, "lost") \/ Drop(c, "cleared")
      PROVE  ReconnectTypes'
  BY <1>1, <1>2, <1>5 DEF Login, Drop
<1>6. ASSUME NEW c \in Conns, Scan(c)
      PROVE  ReconnectTypes'
  BY <1>1, <1>3, <1>6 DEF Scan
<1>7. ASSUME NEW c \in Conns,
             \/ Logout(c) \/ Join(c) \/ StandUp(c) \/ Leave(c)
             \/ TableSitClose(c) \/ Kick(c)
             \/ \E s \in Seats \cup {NoSeat} : Sit(c, s)
      PROVE  ReconnectTypes'
  BY <1>1, <1>7 DEF Logout, Join, StandUp, Leave, TableSitClose, Kick, Sit
<1>8. CASE \/ UnstickFires
           \/ \E s \in Seats : BootFires(s)
           \/ \E s \in Seats, c \in Conns : EjectFires(s, c)
  BY <1>1, <1>8 DEF UnstickFires, BootFires, EjectFires
<1>9. CASE UNCHANGED vars
  BY <1>1, <1>9 DEF vars
<1> QED
  BY <1>4, <1>5, <1>6, <1>7, <1>8, <1>9 DEF Next

LEMMA ReconnectInvariance == Spec => []ReconnectTypes
<1>1. Init => ReconnectTypes
  <2>1. << >> \in Seq(Users)
    OBVIOUS
  <2> QED
    BY <2>1 DEF Init, ReconnectTypes
<1>2. ReconnectTypes /\ [Next]_vars => ReconnectTypes'
  BY ReconnectStep
<1> QED
  BY <1>1, <1>2, PTL DEF Spec

LEMMA ListStep ==
    ASSUME OneSocketEach, SInv, IInv, ReconnectTypes, RInv, [Next]_vars
    PROVE  RInv'
<1>1. TableTypes /\ StandingUp /\ reconnect \in Seq(Users)
  BY DEF IInv, ReconnectTypes
<1>2. CASE Locked
  BY <1>1, <1>2, OthersList, GrantSitList, StandersList, GrantAwayList,
     GrantEjectList, NoResume, UnstickNextList, StandUpDoneList DEF Locked
<1>3. ASSUME NEW c \in Conns,
             \/ Login(c) \/ Scan(c) \/ Drop(c, "lost") \/ Drop(c, "cleared")
             \/ Logout(c) \/ Join(c) \/ StandUp(c) \/ Leave(c)
             \/ TableSitClose(c) \/ Kick(c)
             \/ \E s \in Seats \cup {NoSeat} : Sit(c, s)
      PROVE  RInv'
  BY <1>1, <1>3, LoginList, NoResume, DropList, MessageList
<1>4. CASE \/ UnstickFires
           \/ \E s \in Seats : BootFires(s)
           \/ \E s \in Seats, c \in Conns : EjectFires(s, c)
  BY <1>1, <1>4, TimerList
<1>5. CASE UNCHANGED vars
  <2>1. UNCHANGED <<seats, reconnect, holder, ejectTimers, calls>>
    BY <1>5 DEF vars
  <2> QED
    BY <1>1, <2>1, ListAsked
<1> QED
  BY <1>2, <1>3, <1>4, <1>5 DEF Next

LEMMA ListInvariance ==
    ASSUME OneSocketEach
    PROVE  Spec => [](SInv /\ RInv)
<1>1. SInv /\ IInv /\ ReconnectTypes /\ RInv /\ [Next]_vars => RInv'
  BY ListStep
<1> QED
  BY <1>1, ListBegin, SeatsInvariance, ReconnectInvariance, Invariance, PTL
     DEF Spec

\* The table deletes itself when nobody is at it and nobody may come back.
LEMMA DeletedWhenDeserted ==
    ASSUME Next, deleted' /\ ~deleted
    PROVE  Deserted
<1>1. CASE Locked
  <2>1. CASE StandUpDone
    BY <2>1 DEF StandUpDone, AfterLeave
  <2>2. CASE GrantLeave("leave") \/ GrantLeave("logout")
    BY <2>2 DEF GrantLeave, AfterLeave, BeginStandUp
  <2>3. CASE GrantJoin \/ GrantSit \/ GrantStand \/ GrantAway \/ GrantEject
             \/ GrantResume \/ GrantKick \/ GrantBoot \/ GrantUnstick
             \/ UnstickNext
    BY <2>3 DEF GrantJoin, GrantSit, GrantStand, GrantAway, GrantEject,
       GrantResume, GrantKick, GrantBoot, GrantUnstick, UnstickNext, Fail,
       Ignore, BeginStandUp
  <2> QED
    BY <1>1, <2>1, <2>2, <2>3 DEF Locked
<1>2. ASSUME NEW c \in Conns,
             \/ Login(c) \/ Scan(c) \/ Drop(c, "lost") \/ Drop(c, "cleared")
             \/ Logout(c) \/ Join(c) \/ StandUp(c) \/ Leave(c)
             \/ TableSitClose(c) \/ Kick(c)
             \/ \E s \in Seats \cup {NoSeat} : Sit(c, s)
      PROVE  UNCHANGED deleted
  BY <1>2 DEF Login, Scan, Drop, Logout, Join, StandUp, Leave, TableSitClose,
     Kick, Sit
<1>3. CASE \/ UnstickFires
           \/ \E s \in Seats : BootFires(s)
           \/ \E s \in Seats, c \in Conns : EjectFires(s, c)
  BY <1>3 DEF UnstickFires, BootFires, EjectFires
<1> QED
  BY <1>1, <1>2, <1>3 DEF Next

\* At a table that is deserted only those have a seat who are about to leave it.
LEMMA DesertedWithoutStacks ==
    ASSUME TableTypes, SInv, RInv, Deserted, NEW s \in Seats, seats[s] # Empty
    PROVE  Leaving(seats[s].conn)
<1>1. seats[s] \in SeatState /\ seats[s].user \in Users
  BY DEF TableTypes, SeatState
<1>2. users[seats[s].user] = NoConn /\ ~ Listed(seats[s].user)
  <2>1. DOMAIN << >> = {}
    OBVIOUS
  <2> QED
    BY <1>1, <2>1 DEF Deserted, Listed
<1>3. seats[s].conn # NoConn
  BY <1>2 DEF RInv, AwayIsListed
<1> QED
  BY <1>2, <1>3 DEF SInv, SeatedIsPresent

\* No step puts somebody in a seat while the table deletes itself.
LEMMA DeletedSeatsNobody ==
    ASSUME TableTypes, Next, deleted' /\ ~deleted, NEW s \in Seats,
           seats'[s] # Empty
    PROVE  seats[s] # Empty
<1>1. CASE GrantSit
  BY <1>1 DEF GrantSit, Ignore
<1>2. CASE ~ GrantSit
  <2> SUFFICES ASSUME seats[s] = Empty
               PROVE  FALSE
    OBVIOUS
  <2>1. CASE Locked
    <3>1. CASE StandUpDone
      BY <3>1 DEF StandUpDone, TableTypes
    <3>2. CASE GrantLeave("leave") \/ GrantLeave("logout")
      BY <3>2 DEF GrantLeave, AfterLeave, BeginStandUp
    <3>3. CASE GrantJoin \/ GrantStand \/ GrantAway \/ GrantEject
               \/ GrantResume \/ GrantKick \/ GrantBoot \/ GrantUnstick
               \/ UnstickNext
      BY <3>3 DEF GrantJoin, GrantStand, GrantAway, GrantEject,
         GrantResume, GrantKick, GrantBoot, GrantUnstick, UnstickNext, Fail,
         Ignore, BeginStandUp
    <3> QED
      BY <1>2, <2>1, <3>1, <3>2, <3>3 DEF Locked
  <2>2. CASE ~ Locked
    <3>1. deleted' = deleted
      BY <2>2 DEF Next, Login, Scan, Drop, Logout, Join, StandUp, Leave,
         TableSitClose, Kick, Sit, UnstickFires, BootFires, EjectFires
    <3> QED
      BY <3>1
  <2> QED
    BY <2>1, <2>2
<1> QED
  BY <1>1, <1>2

\* For users with one socket each: when a table deletes itself (leave's finish),
\* nobody has a seat but those who are about to leave it, although users and
\* reconnect, which it goes by, are changed without the lock.
THEOREM NoStackIsLost ==
    ASSUME OneSocketEach
    PROVE  Spec => DeletedWithoutStacks
<1>1. ASSUME IInv, SInv, RInv, [Next]_vars
      PROVE  [deleted' /\ ~deleted =>
                \A s \in Seats : seats'[s] # Empty => Leaving(seats[s].conn)]_vars
  <2> SUFFICES ASSUME Next, deleted' /\ ~deleted, NEW s \in Seats,
                      seats'[s] # Empty
               PROVE  Leaving(seats[s].conn)
    BY <1>1
  <2>1. TableTypes
    BY <1>1 DEF IInv
  <2>2. seats[s] # Empty
    BY <2>1, DeletedSeatsNobody
  <2> QED
    BY <1>1, <2>1, <2>2, DeletedWhenDeserted, DesertedWithoutStacks
<1>2. IInv /\ SInv /\ RInv /\ [Next]_vars =>
        [deleted' /\ ~deleted =>
           \A s \in Seats : seats'[s] # Empty => Leaving(seats[s].conn)]_vars
  BY <1>1
<1> QED
  BY <1>2, ListInvariance, Invariance, PTL DEF Spec, DeletedWithoutStacks

\* The fields of a table, the calls that wait and what the timers have captured
\* are what they are taken for, whatever comes in whatever order.
THEOREM TableIsTyped == Spec => []TypeOK
<1>1. IInv /\ ReconnectTypes => TypeOK
  BY DEF IInv, ReconnectTypes, TypeOK
<1> QED
  BY <1>1, Invariance, ReconnectInvariance, PTL

-----------------------------------------------------------------------------
(***************************************************************************)
(* The waiting list.                                                       *)
(***************************************************************************)

\* Whoever has been offered a seat is the first of the waiting list.
LEMMA OfferedFirst ==
    ASSUME TableTypes, NEW list \in Seq(Reservation), NEW s,
           NEW c \in Conns, Waits(c), sitQueue' = StillWaiting,
           reserved' = Offered(list, s)
    PROVE  \/ \E i \in DOMAIN sitQueue' : sitQueue'[i] = c
           \/ \E i \in DOMAIN reserved' : reserved'[i].user = c[1]
<1>1. PICK i \in DOMAIN sitQueue : sitQueue[i] = c
  BY DEF Waits
<1>2. sitQueue \in Seq(Conns) /\ DOMAIN sitQueue = 1 .. Len(sitQueue)
      /\ Len(sitQueue) \in Nat
  BY LenProperties DEF TableTypes
<1>3. sitQueue # <<>>
  BY <1>1, <1>2
<1>4. /\ Head(sitQueue) = sitQueue[1]
      /\ sitQueue' = Tail(sitQueue)
      /\ Len(sitQueue') = Len(sitQueue) - 1
      /\ \A j \in 1 .. Len(sitQueue) - 1 : sitQueue'[j] = sitQueue[j + 1]
      /\ DOMAIN sitQueue' = 1 .. Len(sitQueue) - 1
  BY <1>2, <1>3, HeadTailProperties, LenProperties DEF StillWaiting
<1>5. CASE i = 1
  <2> DEFINE r == [index |-> s, user |-> Head(sitQueue)[1], timer |-> TRUE]
  <2>1. reserved' = Append(list, r) /\ r.user = c[1]
    BY <1>1, <1>3, <1>4, <1>5 DEF Offered
  <2> HIDE DEF r
  <2>2. /\ Len(list) + 1 \in DOMAIN Append(list, r)
        /\ Append(list, r)[Len(list) + 1] = r
    BY LenProperties
  <2> QED
    BY <2>1, <2>2
<1>6. CASE i # 1
  <2>1. i - 1 \in DOMAIN sitQueue' /\ sitQueue'[i - 1] = c
    BY <1>1, <1>2, <1>4, <1>6
  <2> QED
    BY <2>1
<1> QED
  BY <1>5, <1>6

\* Whoever leaves the waiting list has asked for it.
LEMMA OthersStayQueued ==
    ASSUME TableTypes, NEW c \in Conns, NEW d \in Conns, Waits(c), c # d,
           Waits(d), sitQueue' = Dequeued(d)
    PROVE  \E i \in DOMAIN sitQueue' : sitQueue'[i] = c
<1> DEFINE mine == {i \in DOMAIN sitQueue : sitQueue[i] = d}
           n == FirstOf(mine)
<1>1. sitQueue \in Seq(Conns) /\ DOMAIN sitQueue = 1 .. Len(sitQueue)
      /\ Len(sitQueue) \in Nat
  BY LenProperties DEF TableTypes
<1>2. n \in mine
  <2>1. mine \in SUBSET Nat /\ mine # {}
    BY <1>1 DEF Waits
  <2> HIDE DEF mine
  <2> QED
    BY <2>1, FirstIsIn
<1>3. n \in 1 .. Len(sitQueue) /\ sitQueue[n] = d
  BY <1>1, <1>2
<1>4. sitQueue' = RemoveAt(sitQueue, n)
  BY DEF Dequeued
<1> HIDE DEF n
<1>5. PICK i \in 1 .. Len(sitQueue) : sitQueue[i] = c
  BY <1>1 DEF Waits
<1>6. /\ DOMAIN sitQueue' = 1 .. Len(sitQueue) - 1
      /\ \A j \in DOMAIN sitQueue' :
            sitQueue'[j] = IF j < n THEN sitQueue[j] ELSE sitQueue[j + 1]
  BY <1>1, <1>3, <1>4, Removed
<1>7. i # n
  BY <1>3, <1>5
<1>8. CASE i < n
  BY <1>3, <1>5, <1>6, <1>8
<1>9. CASE i > n
  <2>1. i - 1 \in 1 .. Len(sitQueue) - 1 /\ ~ (i - 1 < n) /\ (i - 1) + 1 = i
    BY <1>3, <1>5, <1>9
  <2> QED
    BY <1>5, <1>6, <2>1
<1> QED
  BY <1>1, <1>3, <1>5, <1>7, <1>8, <1>9

\* What may become of those who wait.
Stays(c) ==
    \/ \E i \in DOMAIN sitQueue' : sitQueue'[i] = c
    \/ \E i \in DOMAIN reserved' : reserved'[i].user = c[1]
    \/ calls # <<>> /\ Head(calls).conn = c

\* A handler that leaves the waiting list as it is, or takes its caller from it.
LEMMA CallerLeaves ==
    ASSUME TableTypes, NEW op, Granted(op), op \in {"stand", "leave", "logout"},
           Waits(Head(calls).conn) \/ sitQueue' = sitQueue,
           sitQueue' \in {sitQueue, Dequeued(Head(calls).conn)},
           NEW c \in Conns, Waits(c)
    PROVE  Stays(c)
<1>1. Head(calls).conn \in Conns /\ calls # <<>>
  BY ServedWaiting, CallConn DEF Granted
<1>2. CASE sitQueue' = sitQueue
  BY <1>2 DEF Stays, Waits
<1>3. CASE c = Head(calls).conn
  BY <1>1, <1>3 DEF Stays
<1>4. CASE /\ c # Head(calls).conn /\ Waits(Head(calls).conn)
           /\ sitQueue' = Dequeued(Head(calls).conn)
  BY <1>1, <1>4, OthersStayQueued DEF Stays
<1> QED
  BY <1>2, <1>3, <1>4

LEMMA WaitersStay ==
    ASSUME IInv, Next, NEW c \in Conns, Waits(c)
    PROVE  Stays(c)
<1>1. TableTypes /\ StandingUp
  BY DEF IInv
<1>2. CASE sitQueue' = sitQueue
  BY <1>2 DEF Stays, Waits
<1>3. CASE GrantStand
  BY <1>1, <1>3, CallerLeaves DEF GrantStand, Queued, Ignore, BeginStandUp
<1>4. ASSUME NEW op \in {"leave", "logout"}, GrantLeave(op)
      PROVE  Stays(c)
  BY <1>1, <1>4, CallerLeaves DEF GrantLeave, Queued, BeginStandUp
<1>5. CASE GrantSit
  <2>1. \/ sitQueue' = sitQueue
        \/ sitQueue' = Append(sitQueue, Head(calls).conn)
    BY <1>5 DEF GrantSit, Ignore
  <2>2. CASE sitQueue' = Append(sitQueue, Head(calls).conn)
    <3>0. Granted("sit")
      BY <1>5 DEF GrantSit
    <3>1. sitQueue \in Seq(Conns) /\ Head(calls).conn \in Conns
      <4>1. Head(calls) \in Call /\ Head(calls).op = "sit"
        BY <1>1, <3>0, ServedWaiting
      <4> QED
        BY <1>1, <4>1, CallConn DEF TableTypes
    <3>2. PICK i \in DOMAIN sitQueue : sitQueue[i] = c
      BY DEF Waits
    <3>3. i \in DOMAIN sitQueue' /\ sitQueue'[i] = c
      BY <2>2, <3>1, <3>2, AppendProperties, LenProperties
    <3> QED
      BY <3>3 DEF Stays
  <2> QED
    BY <1>2, <2>1, <2>2
<1>6. CASE GrantBoot
  <2> DEFINE s == Head(calls).seat
             o == FirstOf(ReservationsOf(s))
  <2>1. CASE ReservationsOf(s) = {}
    BY <1>2, <1>6, <2>1 DEF GrantBoot
  <2>2. CASE ReservationsOf(s) # {}
    <3>1. ReservationsOf(s) \in SUBSET Nat /\ reserved \in Seq(Reservation)
      BY <1>1, LenProperties DEF ReservationsOf, TableTypes
    <3>2. o \in DOMAIN reserved
      BY <2>2, <3>1, FirstIsIn DEF ReservationsOf
    <3>3. RemoveAt(reserved, o) \in Seq(Reservation)
      BY <3>1, <3>2, Removed
    <3>4. /\ reserved' = Offered(RemoveAt(reserved, o), s)
          /\ sitQueue' = StillWaiting
      BY <1>6, <2>2 DEF GrantBoot
    <3> HIDE DEF o, s
    <3> QED
      BY <1>1, <3>3, <3>4, OfferedFirst DEF Stays
  <2> QED
    BY <2>1, <2>2
<1>7. CASE StandUpDone
  <2>1. /\ reserved' = Offered(reserved, holder.seat)
        /\ sitQueue' = StillWaiting
    BY <1>7 DEF StandUpDone
  <2>2. reserved \in Seq(Reservation)
    BY <1>1 DEF TableTypes
  <2> QED
    BY <1>1, <2>1, <2>2, OfferedFirst DEF Stays
<1>8. CASE GrantJoin \/ GrantAway \/ GrantEject \/ GrantResume \/ GrantKick
             \/ GrantUnstick \/ UnstickNext
  BY <1>2, <1>8 DEF GrantJoin, GrantAway, GrantEject, GrantResume, GrantKick,
     GrantUnstick, UnstickNext, Fail, Ignore, BeginStandUp
<1>9. CASE ~ Locked
  <2>1. sitQueue' = sitQueue
    BY <1>9 DEF Next, Login, Scan, Drop, Logout, Join, StandUp, Leave,
       TableSitClose, Kick, Sit, UnstickFires, BootFires, EjectFires
  <2> QED
    BY <1>2, <2>1
<1> QED
  BY <1>3, <1>4, <1>5, <1>6, <1>7, <1>8, <1>9 DEF Locked

\* For any number of users, logins, seats and calls: nobody is dropped from the
\* waiting list who has not been offered a seat or asked for it himself, for
\* every handler that takes somebody from it takes the first and offers him the
\* seat, or finds the socket it was called for (standUp, bootReserved, leave).
THEOREM WaitersAreNotSkipped == Spec => NobodyIsSkipped
<1>1. ASSUME IInv, [Next]_vars
      PROVE  [\A c \in Conns : Waits(c) =>
                \/ \E i \in DOMAIN sitQueue' : sitQueue'[i] = c
                \/ \E i \in DOMAIN reserved' : reserved'[i].user = c[1]
                \/ calls # <<>> /\ Head(calls).conn = c]_vars
  <2>1. CASE Next
    BY <1>1, <2>1, WaitersStay DEF Stays
  <2> QED
    BY <1>1, <2>1
<1>2. IInv /\ [Next]_vars =>
         [\A c \in Conns : Waits(c) =>
            \/ \E i \in DOMAIN sitQueue' : sitQueue'[i] = c
            \/ \E i \in DOMAIN reserved' : reserved'[i].user = c[1]
            \/ calls # <<>> /\ Head(calls).conn = c]_vars
  BY <1>1
<1> QED
  BY <1>2, Invariance, PTL DEF Spec, NobodyIsSkipped
=============================================================================
