------------------------------- MODULE SignIn -------------------------------
(***************************************************************************)
(* Operator accounts, their sessions and the sign-in throttle: the         *)
(* handlers of auth.go and users.go as sequences of the statements and     *)
(* critical sections they consist of, run side by side by several          *)
(* connections, with time passing, failing statements and restarts.        *)
(*                                                                         *)
(* A password is the number of times it was replaced; whoever signs in     *)
(* presents the one in force then, which another request may replace, or   *)
(* one that never was.  Times are ages and remaining times, moved by Tick. *)
(* A throttle record nobody counts any more is the same as none.  Rows of  *)
(* the sessions table that agree in all the model keeps are one element.   *)
(***************************************************************************)
EXTENDS Integers, FiniteSets

CONSTANTS
    Users, Addrs, Conns,
    FirstUser,   \* ADMIN_EMAIL
    MaxFailed,   \* maxFailedAttempts
    Window,      \* lockoutWindow, in ticks
    Lockout,     \* lockoutDuration
    Lifetime,    \* SessionLifetime
    MaxRequests  \* bound: sign-ins, management requests and restarts

ASSUME SignInAssumption ==
    /\ IsFiniteSet(Users) /\ FirstUser \in Users
    /\ Addrs # {} /\ Users \cap Addrs = {} /\ IsFiniteSet(Conns)
    /\ MaxFailed \in Nat \ {0, 1} /\ Window \in Nat \ {0}
    /\ Lockout \in 1..Window /\ Lifetime \in Nat \ {0}
    /\ MaxRequests \in Nat

VARIABLES
    adminToken, \* ADMIN_TOKEN is set
    users,      \* the users table
    sessions,   \* the sessions table
    throttle,   \* loginThrottle.records
    conn,       \* the request each connection is serving
    requests,   \* how many were made
    epoch,      \* how often each account was disabled
    raced,      \* an account was disabled on a count that no longer held
    charged     \* wrong answers since an identity's record began or lock ended

store == <<users, sessions, epoch, raced>>
guard == <<throttle, charged>>
vars == <<adminToken, store, guard, conn, requests>>

Keys == Users \cup Addrs
NoRecord == [failures |-> 0, age |-> Window + 1, left |-> 0]
SomeAddr == CHOOSE a \in Addrs : TRUE
Idle == [pc |-> "idle", user |-> FirstUser, addr |-> SomeAddr,
         pass |-> 0, seen |-> 0, then |-> {}]

Active == {u \in Users : users[u].status = "active"}
Never == 0   \* a password no account ever had; the first one is 1

NoAccounts(table) == \A u \in Users : table[u].status = "absent"

\* What bootstrapAdminUser may make of the table: the first account, only where
\* there is none at all; or nothing, for then the count or the INSERT may fail,
\* ADMIN_EMAIL or ADMIN_PASSWORD be unset or the password be refused, and main
\* only warns of it and goes on to serve.
Bootstrapped(table) ==
    {table} \cup
    {t \in {[table EXCEPT ![FirstUser] = [status |-> "active", pass |-> 1]]} :
       NoAccounts(table)}

\* The gateway first starts on an empty database, or one with accounts and a
\* signed-in operator.
Init ==
    /\ adminToken \in BOOLEAN
    /\ \E known \in SUBSET (Users \ {FirstUser}) :
         users \in Bootstrapped([u \in Users |->
                   [status |-> IF u \in known THEN "active" ELSE "absent",
                    pass |-> 1]])
    /\ sessions = {[user |-> u, left |-> Lifetime, epoch |-> 0,
                    overtaken |-> FALSE] : u \in Active}
    /\ throttle = [k \in Keys |-> NoRecord]
    /\ conn = [c \in Conns |-> Idle]
    /\ requests = 0
    /\ epoch = [u \in Users |-> 0]
    /\ raced = FALSE /\ charged = [k \in Keys |-> 0]

Goto(c, pc) == conn' = [conn EXCEPT ![c].pc = pc]
Return(c) == conn' = [conn EXCEPT ![c] = Idle]

(***************************************************************************)
(* handleLogin.                                                            *)
(***************************************************************************)
Login(c) ==
    /\ conn[c].pc = "idle" /\ requests < MaxRequests
    /\ \E u \in Users, a \in Addrs : \E p \in {Never, users[u].pass} :
         conn' = [conn EXCEPT ![c] = [Idle EXCEPT !.pc = "check_email",
                                        !.user = u, !.addr = a, !.pass = p]]
    /\ requests' = requests + 1
    /\ UNCHANGED <<adminToken, store, guard>>

\* sweepLocked, which locked runs every lockoutWindow.
Swept(t) == [k \in Keys |-> IF t[k].left = 0 /\ t[k].age > Window
                            THEN NoRecord ELSE t[k]]

Locked(k) == throttle[k].left > 0

\* The email is looked up first, then the address.
Check(c) ==
    /\ conn[c].pc \in {"check_email", "check_addr"}
    /\ LET email == conn[c].pc = "check_email"
           key == IF email THEN conn[c].user ELSE conn[c].addr
       IN  IF Locked(key) THEN Return(c)
           ELSE Goto(c, IF email THEN "check_addr" ELSE "authenticate")
    /\ throttle' \in {throttle, Swept(throttle)}
    /\ UNCHANGED <<adminToken, store, charged, requests>>

\* Authenticate admits: the password is the account's and it is not disabled.
Admits(u, p) == users[u].status = "active" /\ users[u].pass = p

\* The row is read once; a statement that fails counts as a wrong answer.
Authenticate(c) ==
    /\ conn[c].pc = "authenticate"
    /\ \/ /\ Admits(conn[c].user, conn[c].pass)
          /\ conn' = [conn EXCEPT ![c].pc = "clear_email",
                                  ![c].seen = epoch[conn[c].user]]
       \/ Goto(c, "fail_email")
    /\ UNCHANGED <<adminToken, store, guard, requests>>

\* Mutant of Failed: one wrong answer too many is let pass.
FailedLate(r) ==
    IF r.age > Window THEN [failures |-> 1, age |-> 0, left |-> 0]
    ELSE IF r.failures + 1 > MaxFailed
    THEN [failures |-> 0, age |-> 0, left |-> Lockout]
    ELSE [r EXCEPT !.failures = @ + 1]

\* fail: the window begins with the first wrong answer and does not slide.
Failed(r) ==
    IF r.age > Window THEN [failures |-> 1, age |-> 0, left |-> 0]
    ELSE IF r.failures + 1 >= MaxFailed
    THEN [failures |-> 0, age |-> 0, left |-> Lockout]
    ELSE [r EXCEPT !.failures = @ + 1]

Fail(c) ==
    /\ conn[c].pc \in {"fail_email", "fail_addr"}
    /\ LET email == conn[c].pc = "fail_email"
           key == IF email THEN conn[c].user ELSE conn[c].addr
       IN  /\ throttle' = [throttle EXCEPT ![key] = Failed(@)]
           /\ charged' = [charged EXCEPT ![key] =
                            IF throttle[key].age > Window THEN 1 ELSE @ + 1]
           /\ IF email THEN Goto(c, "fail_addr") ELSE Return(c)
    /\ UNCHANGED <<adminToken, store, requests>>

\* succeed: the record goes, and with it a lock set meanwhile.
Succeed(c) ==
    /\ conn[c].pc \in {"clear_email", "clear_addr"}
    /\ LET email == conn[c].pc = "clear_email"
           key == IF email THEN conn[c].user ELSE conn[c].addr
       IN  /\ throttle' = [throttle EXCEPT ![key] = NoRecord]
           /\ charged' = [charged EXCEPT ![key] = 0]
           /\ Goto(c, IF email THEN "clear_addr" ELSE "session")
    /\ UNCHANGED <<adminToken, store, requests>>

CreateSession(c) ==
    /\ conn[c].pc = "session"
    /\ LET u == conn[c].user IN
       sessions' \in {sessions,
                      sessions \cup {[user |-> u,
                         left |-> Lifetime, epoch |-> conn[c].seen,
                         overtaken |-> conn[c].seen # epoch[u]]}}
    /\ Return(c)
    /\ UNCHANGED <<adminToken, users, epoch, raced, guard, requests>>

(***************************************************************************)
(* Sessions.                                                               *)
(***************************************************************************)
\* ValidateSession.
Valid(s) == s.left > 0 /\ users[s.user].status = "active"

\* A request with an expired session removes the row and is refused.
ExpiredVisit(s) ==
    /\ s.left = 0
    /\ sessions' = sessions \ {s}
    /\ UNCHANGED <<adminToken, users, epoch, raced, guard, conn, requests>>

\* handleLogout; a statement that fails is only logged.
Logout(s) ==
    /\ requests < MaxRequests
    /\ requests' = requests + 1
    /\ sessions' = sessions \ {s}
    /\ UNCHANGED <<adminToken, users, epoch, raced, guard, conn>>

Prune ==
    /\ sessions' = {s \in sessions : s.left > 0}
    /\ UNCHANGED <<adminToken, users, epoch, raced, guard, conn, requests>>

(***************************************************************************)
(* Management: adminCreateUser, adminUpdateUser, handleChangePassword.     *)
(***************************************************************************)
AdminAuthorized == adminToken \/ \E s \in sessions : Valid(s)

Begins(c) == conn[c].pc = "idle" /\ requests < MaxRequests /\ AdminAuthorized

\* CreateUser: one statement; an address that exists is refused.
AdminCreateUser(c) ==
    /\ Begins(c)
    /\ \E u \in Users :
         /\ users[u].status = "absent"
         /\ users' = [users EXCEPT ![u] = [status |-> "active", pass |-> 1]]
    /\ requests' = requests + 1
    /\ UNCHANGED <<adminToken, sessions, epoch, raced, guard, conn>>

\* What the body asks for: to disable or enable an account, to replace its
\* password, or both, in that order.
AdminUpdateUser(c) ==
    /\ Begins(c)
    /\ \E u \in Users, wants \in {{"disable"}, {"enable"}, {"password"},
                                  {"disable", "password"}} :
         conn' = [conn EXCEPT ![c] =
                    [Idle EXCEPT !.user = u, !.then = wants,
                       !.pc = CASE "disable" \in wants -> "count"
                                [] "enable" \in wants -> "set_disabled"
                                [] OTHER -> "set_password"]]
    /\ requests' = requests + 1
    /\ UNCHANGED <<adminToken, store, guard>>

\* Mutant of ActiveUserCount: disabled accounts are counted too.
UserCount == Cardinality({u \in Users : users[u].status # "absent"})

ActiveUserCount == Cardinality(Active)

\* The check that some other account can still sign in.
CountActive(c) ==
    /\ conn[c].pc = "count"
    /\ \/ /\ ActiveUserCount > 1 \/ adminToken
          /\ conn' = [conn EXCEPT ![c].pc = "set_disabled",
                                  ![c].seen = Cardinality(Active)]
       \/ Return(c)     \* refused, or the statement fails
    /\ UNCHANGED <<adminToken, store, guard, requests>>

\* Mutant of Ended: the account's sessions are left to expire.
EndedLater(u) == {}

\* The sessions SetUserDisabled deletes.
Ended(u) == {s \in sessions : s.user = u}

\* SetUserDisabled: the flag and the account's sessions in one transaction.
SetUserDisabled(c) ==
    /\ conn[c].pc = "set_disabled"
    /\ LET u == conn[c].user
           off == "disable" \in conn[c].then
       IN  \/ /\ users[u].status # "absent"
              /\ users' = [users EXCEPT ![u].status =
                             IF off THEN "disabled" ELSE "active"]
              /\ sessions' = IF off THEN sessions \ Ended(u) ELSE sessions
              /\ epoch' = IF off THEN [epoch EXCEPT ![u] = @ + 1] ELSE epoch
              /\ raced' = (raced \/ (off /\ conn[c].seen # Cardinality(Active)))
              /\ IF "password" \in conn[c].then THEN Goto(c, "set_password")
                 ELSE Return(c)
           \/ /\ Return(c)     \* no such user, or a statement fails
              /\ UNCHANGED store
    /\ UNCHANGED <<adminToken, guard, requests>>

\* SetPassword.
SetPassword(c) ==
    /\ conn[c].pc = "set_password"
    /\ LET u == conn[c].user IN
       \/ /\ users[u].status # "absent"
          /\ users' = [users EXCEPT ![u].pass = @ + 1]
       \/ UNCHANGED users
    /\ Return(c)
    /\ UNCHANGED <<adminToken, sessions, epoch, raced, guard, requests>>

\* handleChangePassword: a valid session, then the current password; the
\* throttle is not consulted.
ChangePassword(c) ==
    /\ conn[c].pc = "idle" /\ requests < MaxRequests
    /\ \E s \in sessions : \E p \in {Never, users[s.user].pass} :
         /\ Valid(s)
         /\ conn' = [conn EXCEPT ![c] = [Idle EXCEPT !.pc = "verify",
                                           !.user = s.user, !.pass = p]]
    /\ requests' = requests + 1
    /\ UNCHANGED <<adminToken, store, guard>>

Verify(c) ==
    /\ conn[c].pc = "verify"
    /\ \/ Admits(conn[c].user, conn[c].pass) /\ Goto(c, "set_password")
       \/ Return(c)
    /\ UNCHANGED <<adminToken, store, guard, requests>>

(***************************************************************************)
(* Time and restarts.                                                      *)
(***************************************************************************)
Tick ==
    /\ throttle' = [k \in Keys |->
         [throttle[k] EXCEPT !.age = IF @ > Window THEN @ ELSE @ + 1,
                             !.left = IF @ = 0 THEN 0 ELSE @ - 1]]
    /\ charged' = [k \in Keys |-> IF throttle[k].left = 1 THEN 0 ELSE charged[k]]
    /\ sessions' = {[s EXCEPT !.left = IF @ = 0 THEN 0 ELSE @ - 1] :
                      s \in sessions}
    /\ UNCHANGED <<adminToken, users, epoch, raced, conn, requests>>

\* The process starts again: the throttle and the requests under way are
\* gone, bootstrapAdminUser runs.
Restart ==
    /\ requests < MaxRequests
    /\ requests' = requests + 1
    /\ throttle' = [k \in Keys |-> NoRecord]
    /\ charged' = [k \in Keys |-> 0]
    /\ conn' = [c \in Conns |-> Idle]
    /\ users' \in Bootstrapped(users)
    /\ UNCHANGED <<adminToken, sessions, epoch, raced>>

Next ==
    \/ \E c \in Conns :
         \/ Login(c) \/ Check(c) \/ Authenticate(c) \/ Fail(c) \/ Succeed(c)
         \/ CreateSession(c)
         \/ AdminCreateUser(c) \/ AdminUpdateUser(c) \/ CountActive(c)
         \/ SetUserDisabled(c) \/ SetPassword(c)
         \/ ChangePassword(c) \/ Verify(c)
    \/ \E s \in sessions : ExpiredVisit(s) \/ Logout(s)
    \/ Prune \/ Tick \/ Restart

Spec == Init /\ [][Next]_vars

(***************************************************************************)
(* What the code promises.                                                 *)
(***************************************************************************)
\* However sign-ins overlap, between the start of an identity's record and the
\* end of its lock no more wrong answers are checked than the limit and the
\* other connections that had passed the check before it locked (locked and fail
\* are separate critical sections).
GuessesBounded ==
    \A k \in Keys : charged[k] =< MaxFailed + Cardinality(Conns) - 1

\* Without ADMIN_TOKEN, where there are accounts some account can sign in, unless
\* two requests overlapped so that one disabled an account on a count that no
\* longer held (adminUpdateUser counts, then disables).  Restarts, enabling,
\* creating and failing statements in between do not matter.  Where there is no
\* account at all nobody can: bootstrapAdminUser may leave it so, for the next
\* start to mend; once there is an account no start puts one right.
NeverAllDisabled == adminToken \/ raced \/ NoAccounts(users) \/ Active # {}

\* A session that outlives the disabling of its account, and is accepted again
\* once the account is enabled, is one of a sign-in whose password was checked
\* before the account was disabled and whose row was inserted after
\* (SetUserDisabled deletes the rows that exist; handleLogin inserts later).
SessionsEndWithAccount ==
    \A s \in sessions : s.epoch = epoch[s.user] \/ s.overtaken
=============================================================================
