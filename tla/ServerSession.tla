---------------------------- MODULE ServerSession ----------------------------
(***************************************************************************)
(* The sessions of one account at the server (ClientSocket, in             *)
(* src/server/user.js): the sockets on which it logs in, one after the     *)
(* other or at the same time, and global.activeUsers[userid], the socket   *)
(* that the rest of the server knows the user by.  The user may be at one  *)
(* cash table, whose users[] names a socket as well; a logout and a join   *)
(* wait for the lock of that table.                                        *)
(*                                                                         *)
(* A login takes several steps, since it waits for the database and for    *)
(* the lock of the table: the password is checked and the session changes  *)
(* hands (finish3) some time after the message, then the table is resumed, *)
(* then the answer is sent (finish4).  What happens to the socket in       *)
(* between does not stop it.  A client may send anything at any time, and  *)
(* the socket and the process may end at any.                              *)
(***************************************************************************)

EXTENDS Integers

CONSTANTS
    Conns,  \* the connections
    NoConn  \* no socket

VARIABLES
    socket,      \* per connection: the state (0 before it is made, 1 to log
                 \* in, 2 in the lobby, -1 after its end), whether it has the userid, whether it is open, the
                 \* step of its login, and whether a logout or a join of its
                 \* waits for the table
    activeUser,  \* activeUsers[userid]
    table,       \* users[userid] of the table
    away,        \* the user is in reconnect[] of the table
    late         \* history of this process: a login has finished while a
                 \* logout asked for on an older socket still waited for
                 \* the table

sessionVars == <<socket, activeUser, table, away, late>>

NewSocket == [state |-> 0, userid |-> FALSE, open |-> FALSE, login |-> "none",
              logout |-> FALSE, join |-> FALSE]

SessionStart ==
    /\ socket = [c \in Conns |-> NewSocket]
    /\ activeUser = NoConn /\ table = NoConn
    /\ away = FALSE /\ late = FALSE

\* A client connects: new ClientSocket
Connect(c) ==
    /\ socket[c] = NewSocket
    /\ socket' = [socket EXCEPT ![c].open = TRUE, ![c].state = 1]
    /\ UNCHANGED <<activeUser, table, away, late>>

\* Game.handleDisconnect, for any reason but a logout: the table remembers
\* that the user may come back.
AtTable(c) == socket[c].userid /\ table # NoConn
Disconnect(c) ==
    /\ table' = IF AtTable(c) THEN NoConn ELSE table
    /\ away' = (away \/ AtTable(c))

\* delete global.activeUsers[this.userid], whichever socket is there
Unregistered(c) == IF socket[c].userid THEN NoConn ELSE activeUser

\* ClientSocket.logout, and eject, but for activeUsers
LoggedOut(c) == [socket[c] EXCEPT !.state = 1, !.userid = FALSE]

-----------------------------------------------------------------------------
\* scLogin, which a socket that is logging in or in the lobby refuses: the
\* password is right, or wrong.
AskLogin(c) ==
    /\ socket[c].open /\ socket[c].state = 1 /\ socket[c].login = "none"
    /\ \E lookup \in {"good", "bad"} :
         socket' = [socket EXCEPT ![c].login = lookup]
    /\ UNCHANGED <<activeUser, table, away, late>>

RefuseLogin(c) ==
    /\ socket[c].login = "bad"
    /\ socket' = [socket EXCEPT ![c].login = "none"]
    /\ UNCHANGED <<activeUser, table, away, late>>

\* A logout waits on a socket that has the userid, but not the session.
LogoutIsLate ==
    \E d \in Conns : socket[d].logout /\ socket[d].userid /\ d # activeUser

LoggedIn(c) == [socket[c] EXCEPT !.state = 2, !.userid = TRUE,
                                 !.login = "status"]

\* doLogin up to finish3: the socket takes over from an older one (eject).
\* Nothing asks whether it is still open.
EnterLobby(c) ==
    /\ socket[c].login = "good"
    /\ IF activeUser = NoConn
       THEN /\ socket' = [socket EXCEPT ![c] = LoggedIn(c)]
            /\ UNCHANGED <<table, away>>
       ELSE /\ socket' = [socket EXCEPT ![activeUser] = LoggedOut(activeUser),
                                        ![c] = LoggedIn(c)]
            /\ Disconnect(activeUser)
    /\ activeUser' = c
    /\ late' = (late \/ LogoutIsLate)

\* finish3, behind getStatusPacket: a user who is away from the table gets it
\* back; one who is seated there stays in reconnect[] all the same.
FindTable(c) ==
    /\ socket[c].login = "status"
    /\ socket' = [socket EXCEPT ![c].login = IF away THEN "resume" ELSE "reply"]
    /\ \E seated \in BOOLEAN : away' = (away /\ seated)
    /\ UNCHANGED <<activeUser, table, late>>

\* reconnectUser has the lock, for whoever the socket belongs to now.
ResumeTable(c) ==
    /\ socket[c].login = "resume"
    /\ socket' = [socket EXCEPT ![c].login = "reply"]
    /\ table' = IF socket[c].userid THEN c ELSE table
    /\ UNCHANGED <<activeUser, away, late>>

\* finish4
ReplyLogin(c) ==
    /\ socket[c].login = "reply"
    /\ socket' = [socket EXCEPT ![c].login = "none"]
    /\ UNCHANGED <<activeUser, table, away, late>>

-----------------------------------------------------------------------------
\* scLogout of a user who is at no table: handleDisconnect calls back at once.
LogoutNow(c) ==
    /\ socket[c].open /\ socket[c].state = 2 /\ table = NoConn
    /\ socket' = [socket EXCEPT ![c] = LoggedOut(c)]
    /\ activeUser' = Unregistered(c)
    /\ UNCHANGED <<table, away, late>>

\* scLogout of a user who is at a table: leave takes him from users[] and
\* calls back when it has had the lock, unless he is on the waiting list: then
\* it never does.
LogoutLater(c) ==
    /\ socket[c].open /\ socket[c].state = 2 /\ table # NoConn
    /\ \E waits \in BOOLEAN :
         socket' = [socket EXCEPT ![c].logout = @ \/ ~waits]
    /\ table' = NoConn
    /\ UNCHANGED <<activeUser, away, late>>

\* leave has had the lock: logout, on the socket as it is now.
LogoutDone(c) ==
    /\ socket[c].logout
    /\ \E more \in BOOLEAN :
         socket' = [socket EXCEPT ![c] = [LoggedOut(c) EXCEPT !.logout = more]]
    /\ activeUser' = Unregistered(c)
    /\ UNCHANGED <<table, away, late>>

\* scTableJoin waits for the lock.
AskJoin(c) ==
    /\ socket[c].open /\ socket[c].state = 2
    /\ socket' = [socket EXCEPT ![c].join = TRUE]
    /\ UNCHANGED <<activeUser, table, away, late>>

\* join, for whoever the socket belongs to now
JoinDone(c) ==
    /\ socket[c].join
    /\ \E more \in BOOLEAN : socket' = [socket EXCEPT ![c].join = more]
    /\ table' = IF socket[c].userid THEN c ELSE table
    /\ UNCHANGED <<activeUser, away, late>>

\* scTableLeave takes the user from users[] at once.
LeaveTable(c) ==
    /\ socket[c].open /\ socket[c].state = 2
    /\ table' = NoConn
    /\ UNCHANGED <<socket, activeUser, away, late>>

-----------------------------------------------------------------------------
\* 'end' of the socket, which keeps its userid
SocketEnds(c) ==
    /\ socket[c].open
    /\ socket' = [socket EXCEPT ![c].open = FALSE, ![c].state = -1]
    /\ activeUser' = Unregistered(c)
    /\ Disconnect(c)
    /\ UNCHANGED late

\* 'error' of the socket, and error() when nothing has come for 90 seconds
\* or a message is bad; a queue of messages that is full (full) does not log
\* the user out.
SocketFails(c) ==
    /\ socket[c].open
    /\ \E full \in BOOLEAN :
         /\ socket' = [socket EXCEPT ![c] =
              IF full THEN [@ EXCEPT !.open = FALSE]
              ELSE [LoggedOut(c) EXCEPT !.open = FALSE]]
         /\ activeUser' = IF full THEN activeUser ELSE Unregistered(c)
    /\ Disconnect(c)
    /\ UNCHANGED late

\* The process ends and is started again; the tables are resumed, and their
\* users are in reconnect[].
Restart ==
    /\ socket' = [c \in Conns |-> IF socket[c] = NewSocket THEN NewSocket
                                  ELSE [NewSocket EXCEPT !.state = -1]]
    /\ activeUser' = NoConn /\ table' = NoConn
    /\ away' = (away \/ table # NoConn)
    /\ late' = FALSE

Login(c) == AskLogin(c) \/ RefuseLogin(c) \/ EnterLobby(c) \/ FindTable(c)
            \/ ResumeTable(c) \/ ReplyLogin(c)
Logout(c) == LogoutNow(c) \/ LogoutLater(c) \/ LogoutDone(c)
Table(c) == AskJoin(c) \/ JoinDone(c) \/ LeaveTable(c)
Lose(c) == SocketEnds(c) \/ SocketFails(c)

SessionNext ==
    \/ \E c \in Conns :
         Connect(c) \/ Login(c) \/ Logout(c) \/ Table(c) \/ Lose(c)
    \/ Restart

SessionSpec == SessionStart /\ [][SessionNext]_sessionVars

-----------------------------------------------------------------------------
\* The server knows the user by a socket that is in the lobby with his userid,
\* if it knows him at all: no path through finish3, logout, eject and the ends
\* of sockets, in any order, leaves a socket in activeUsers that belongs to
\* nobody (users are found, told and moved to tables through activeUsers).
RegisteredIsLoggedIn ==
    activeUser # NoConn =>
        socket[activeUser].state = 2 /\ socket[activeUser].userid

\* One live session: a socket that is open and in the lobby is the one the
\* server knows the user by, so that a second login always finds and ejects
\* it.  It is so only until a logout is late (scLogout waits for the lock of
\* the table and then takes the user, not the socket, from activeUsers).
OneSession ==
    ~late => \A c \in Conns :
                socket[c].open /\ socket[c].state = 2 => activeUser = c
=============================================================================
