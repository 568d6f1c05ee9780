---------------------------- MODULE SignInProofs ----------------------------
(***************************************************************************)
(* GuessesBounded, NeverAllDisabled and SessionsEndWithAccount for any     *)
(* accounts, addresses and connections, any limits, windows and lifetimes. *)
(* The last is inductive once types are known; the second needs what a     *)
(* connection that has passed the count, and has not yet disabled the      *)
(* account, still knows; the first, how many sign-ins a check has let pass.*)
(***************************************************************************)
EXTENDS SignIn, FiniteSetTheorems, TLAPS

Accounts == [status : {"absent", "active", "disabled"}, pass : Nat]

Rows == [user : Users, left : Nat, epoch : Nat, overtaken : BOOLEAN]

Places == {"idle", "check_email", "check_addr", "authenticate", "fail_email", "fail_addr",
           "clear_email", "clear_addr", "session", "count", "set_disabled",
           "set_password", "verify"}

Served == [pc : Places, user : Users, addr : Addrs \cup {SomeAddr}, pass : Nat,
           seen : Nat, then : SUBSET {"disable", "enable", "password"}]

Types ==
    /\ users \in [Users -> Accounts]
    /\ sessions \subseteq Rows
    /\ epoch \in [Users -> Nat]
    /\ conn \in [Conns -> Served]

\* A request about to disable an account has seen another active one, unless
\* ADMIN_TOKEN is set.
Knows(q) ==
    q.pc = "set_disabled" /\ "disable" \in q.then => adminToken \/ q.seen > 1

Counted == \A c \in Conns : Knows(conn[c])

IInv == Types /\ Counted /\ NeverAllDisabled /\ SessionsEndWithAccount

\* An idle connection.
LEMMA IdleServed == Idle \in Served /\ Idle.pc = "idle"
BY SignInAssumption DEF Idle, Served, Places

\* bootstrapAdminUser changes no account but to one that can sign in.
LEMMA BootstrapOK ==
    ASSUME NEW table \in [Users -> Accounts], NEW t \in Bootstrapped(table)
    PROVE  /\ t \in [Users -> Accounts]
           /\ \A u \in Users : t[u].status \in {table[u].status, "active"}
BY SignInAssumption DEF Bootstrapped, Accounts

\* The gateway starts with no account or with one that can sign in.
LEMMA InitOK == Init => IInv
<1> SUFFICES ASSUME Init PROVE IInv
  OBVIOUS
<1>1. PICK known \in SUBSET (Users \ {FirstUser}) :
        users \in Bootstrapped([u \in Users |->
                  [status |-> IF u \in known THEN "active" ELSE "absent", pass |-> 1]])
  BY DEF Init
<1> DEFINE table == [u \in Users |->
              [status |-> IF u \in known THEN "active" ELSE "absent", pass |-> 1]]
<1>2. table \in [Users -> Accounts]
  BY DEF Accounts
<1>3. /\ users \in [Users -> Accounts]
      /\ \A u \in Users : users[u].status \in {table[u].status, "active"}
  BY <1>1, <1>2, BootstrapOK
<1>4. NeverAllDisabled
  BY <1>3 DEF NeverAllDisabled, NoAccounts, Active
<1>5. sessions \subseteq Rows /\ SessionsEndWithAccount
  <2>0. /\ sessions = {[user |-> u, left |-> Lifetime, epoch |-> 0, overtaken |-> FALSE] :
                         u \in Active}
        /\ Active \subseteq Users
    BY DEF Init, Active
  <2>1. \A s \in sessions : \E u \in Users :
           s = [user |-> u, left |-> Lifetime, epoch |-> 0, overtaken |-> FALSE]
    BY <2>0
  <2>2. ASSUME NEW s \in sessions
        PROVE  s \in Rows /\ s.epoch = 0 /\ s.user \in Users
    <3>1. PICK u \in Users :
            s = [user |-> u, left |-> Lifetime, epoch |-> 0, overtaken |-> FALSE]
      BY <2>1
    <3>2. Lifetime \in Nat
      BY SignInAssumption
    <3>3. QED
      BY <3>1, <3>2 DEF Rows
  <2>3. \A u \in Users : epoch[u] = 0
    BY DEF Init
  <2>4. QED
    BY <2>2, <2>3 DEF SessionsEndWithAccount
<1>6. conn \in [Conns -> Served] /\ Counted
  BY IdleServed DEF Init, Counted, Knows
<1>7. epoch \in [Users -> Nat]
  BY DEF Init
<1>8. QED
  BY <1>3, <1>4, <1>5, <1>6, <1>7 DEF IInv, Types

\* One connection's request is replaced by one that knows what it must.
LEMMA Replaced ==
    ASSUME Types, Counted, NEW c \in Conns, NEW q \in Served, Knows(q),
           conn' = [conn EXCEPT ![c] = q], adminToken' = adminToken
    PROVE  conn' \in [Conns -> Served] /\ Counted'
<1>1. conn \in [Conns -> Served]
  BY DEF Types
<1>2. \A d \in Conns : conn'[d] = IF d = c THEN q ELSE conn[d]
  BY <1>1
<1>3. \A d \in Conns : Knows(conn'[d])
  BY <1>2 DEF Counted
<1>4. Counted'
  BY <1>3 DEF Counted, Knows
<1>5. QED
  BY <1>1, <1>4

\* A request goes on, to anything but the disabling.
LEMMA GoesOn ==
    ASSUME Types, Counted, NEW c \in Conns, NEW pc \in Places, pc # "set_disabled",
           Goto(c, pc), adminToken' = adminToken
    PROVE  conn' \in [Conns -> Served] /\ Counted'
<1> DEFINE q == [conn[c] EXCEPT !.pc = pc]
<1>1. conn[c] \in Served /\ conn \in [Conns -> Served]
  BY DEF Types
<1>2. q \in Served /\ q.pc = pc
  BY <1>1 DEF Served, Places
<1>3. conn' = [conn EXCEPT ![c] = q]
  BY <1>1 DEF Goto
<1>4. Knows(q)
  BY <1>2 DEF Knows
<1> HIDE DEF q
<1>5. QED
  BY <1>2, <1>3, <1>4, Replaced

\* A request is over.
LEMMA Returns ==
    ASSUME Types, Counted, NEW c \in Conns, Return(c), adminToken' = adminToken
    PROVE  conn' \in [Conns -> Served] /\ Counted'
<1>1. Idle \in Served /\ Knows(Idle)
  BY IdleServed DEF Knows
<1>2. QED
  BY <1>1, Replaced DEF Return

\* A step that leaves accounts and sessions alone, and the account flags with
\* them, concerns the connections only.
LEMMA StoreKept ==
    ASSUME IInv, UNCHANGED store, adminToken' = adminToken,
           conn' \in [Conns -> Served], Counted'
    PROVE  IInv'
BY DEF IInv, Types, store, NeverAllDisabled, NoAccounts, SessionsEndWithAccount, Active

\* Sign-in, up to the session.
LEMMA LoginSteps ==
    ASSUME IInv, NEW c \in Conns,
           Login(c) \/ Check(c) \/ Authenticate(c) \/ Fail(c) \/ Succeed(c)
    PROVE  IInv'
<1>0. Types /\ Counted
  BY DEF IInv
<1>1. UNCHANGED store /\ adminToken' = adminToken
  BY DEF Login, Check, Authenticate, Fail, Succeed
<1>2. CASE Login(c)
  <2>1. PICK u \in Users, a \in Addrs, p \in Nat :
          conn' = [conn EXCEPT ![c] = [Idle EXCEPT !.pc = "check_email",
                                         !.user = u, !.addr = a, !.pass = p]]
    BY <1>0, <1>2 DEF Login, Types, Accounts, Never
  <2> DEFINE q == [Idle EXCEPT !.pc = "check_email", !.user = u, !.addr = a, !.pass = p]
  <2>2. q \in Served /\ q.pc = "check_email"
    BY IdleServed DEF Served, Places
  <2>3. Knows(q)
    BY <2>2 DEF Knows
  <2>4. conn' = [conn EXCEPT ![c] = q]
    BY <2>1
  <2> HIDE DEF q
  <2>5. QED
    BY <1>0, <1>1, <2>2, <2>3, <2>4, Replaced, StoreKept
<1>3. CASE Return(c)
  BY <1>0, <1>1, <1>3, Returns, StoreKept
<1>4. CASE \E pc \in {"check_addr", "authenticate", "fail_email", "fail_addr",
                      "clear_addr", "session"} : Goto(c, pc)
  BY <1>0, <1>1, <1>4, GoesOn, StoreKept DEF Places
<1>5. CASE conn' = [conn EXCEPT ![c].pc = "clear_email", ![c].seen = epoch[conn[c].user]]
  <2> DEFINE q == [conn[c] EXCEPT !.pc = "clear_email", !.seen = epoch[conn[c].user]]
  <2>1. conn[c] \in Served /\ epoch[conn[c].user] \in Nat
    BY <1>0 DEF Types, Served
  <2>2. q \in Served /\ q.pc = "clear_email"
    BY <2>1 DEF Served, Places
  <2>3. conn' = [conn EXCEPT ![c] = q]
    BY <1>0, <1>5 DEF Types
  <2>4. Knows(q)
    BY <2>2 DEF Knows
  <2> HIDE DEF q
  <2>5. QED
    BY <1>0, <1>1, <2>2, <2>3, <2>4, Replaced, StoreKept
<1>6. CASE Check(c)
  BY <1>3, <1>4, <1>6 DEF Check
<1>7. CASE Authenticate(c)
  BY <1>4, <1>5, <1>7 DEF Authenticate
<1>8. CASE Fail(c)
  BY <1>3, <1>4, <1>8 DEF Fail
<1>9. CASE Succeed(c)
  BY <1>4, <1>9 DEF Succeed
<1>10. QED
  BY <1>2, <1>6, <1>7, <1>8, <1>9

\* Management requests, up to their effect on the tables.
LEMMA RequestSteps ==
    ASSUME IInv, NEW c \in Conns,
           AdminUpdateUser(c) \/ CountActive(c) \/ ChangePassword(c) \/ Verify(c)
    PROVE  IInv'
<1>0. Types /\ Counted
  BY DEF IInv
<1>1. UNCHANGED store /\ adminToken' = adminToken
  BY DEF AdminUpdateUser, CountActive, ChangePassword, Verify
<1>2. CASE AdminUpdateUser(c)
  <2>1. PICK u \in Users, wants \in {{"disable"}, {"enable"}, {"password"},
                                     {"disable", "password"}} :
          conn' = [conn EXCEPT ![c] =
                    [Idle EXCEPT !.user = u, !.then = wants,
                       !.pc = CASE "disable" \in wants -> "count"
                                [] "enable" \in wants -> "set_disabled"
                                [] OTHER -> "set_password"]]
    BY <1>2 DEF AdminUpdateUser
  <2>2. PICK pc \in {"count", "set_disabled", "set_password"} :
          /\ conn' = [conn EXCEPT ![c] = [Idle EXCEPT !.user = u, !.then = wants, !.pc = pc]]
          /\ pc = "set_disabled" => "disable" \notin wants
    BY <2>1
  <2> DEFINE q == [Idle EXCEPT !.user = u, !.then = wants, !.pc = pc]
  <2>3. q \in Served /\ q.pc = pc /\ q.then = wants
    BY <2>2, IdleServed DEF Served, Places
  <2>4. Knows(q)
    BY <2>2, <2>3 DEF Knows
  <2>5. conn' = [conn EXCEPT ![c] = q]
    BY <2>2
  <2> HIDE DEF q
  <2>6. QED
    BY <1>0, <1>1, <2>3, <2>4, <2>5, Replaced, StoreKept
<1>3. CASE Return(c)
  BY <1>0, <1>1, <1>3, Returns, StoreKept
<1>4. CASE /\ ActiveUserCount > 1 \/ adminToken
           /\ conn' = [conn EXCEPT ![c].pc = "set_disabled",
                                   ![c].seen = Cardinality(Active)]
  <2> DEFINE n == Cardinality(Active)
             q == [conn[c] EXCEPT !.pc = "set_disabled", !.seen = n]
  <2>1. n \in Nat
    BY SignInAssumption, FS_Subset, FS_CardinalityType DEF Active
  <2> HIDE DEF n
  <2>2. conn[c] \in Served
    BY <1>0 DEF Types
  <2>3. q \in Served /\ q.seen = n
    BY <2>1, <2>2 DEF Served, Places
  <2>4. Knows(q)
    BY <1>4, <2>3 DEF Knows, ActiveUserCount, n
  <2>5. conn' = [conn EXCEPT ![c] = q]
    BY <1>0, <1>4 DEF Types, n
  <2> HIDE DEF q
  <2>6. QED
    BY <1>0, <1>1, <2>3, <2>4, <2>5, Replaced, StoreKept
<1>5. CASE CountActive(c)
  BY <1>3, <1>4, <1>5 DEF CountActive
<1>6. CASE ChangePassword(c)
  <2>1. PICK u \in Users, p \in Nat :
          conn' = [conn EXCEPT ![c] = [Idle EXCEPT !.pc = "verify", !.user = u, !.pass = p]]
    BY <1>0, <1>6 DEF ChangePassword, Types, Accounts, Rows, Never
  <2> DEFINE q == [Idle EXCEPT !.pc = "verify", !.user = u, !.pass = p]
  <2>2. q \in Served /\ q.pc = "verify"
    BY IdleServed DEF Served, Places
  <2>3. Knows(q)
    BY <2>2 DEF Knows
  <2>4. conn' = [conn EXCEPT ![c] = q]
    BY <2>1
  <2> HIDE DEF q
  <2>5. QED
    BY <1>0, <1>1, <2>2, <2>3, <2>4, Replaced, StoreKept
<1>7. CASE Verify(c)
  <2>1. CASE Goto(c, "set_password")
    BY <1>0, <1>1, <2>1, GoesOn, StoreKept DEF Places
  <2>2. QED
    BY <1>3, <1>7, <2>1 DEF Verify
<1>8. QED
  BY <1>2, <1>5, <1>6, <1>7

\* A step on sessions only: rows may go, age, and be added by a sign-in that
\* says whether it was overtaken.
LEMMA SessionsKept ==
    ASSUME IInv, UNCHANGED <<adminToken, users, epoch, raced>>,
           conn' \in [Conns -> Served], Counted',
           \A s \in sessions' : /\ s \in Rows
                                /\ s.epoch = epoch[s.user] \/ s.overtaken
    PROVE  IInv'
BY DEF IInv, Types, NeverAllDisabled, NoAccounts, SessionsEndWithAccount, Active

\* The row a sign-in inserts.
LEMMA CreateSessionStep ==
    ASSUME IInv, NEW c \in Conns, CreateSession(c)
    PROVE  IInv'
<1>1. Types /\ Counted /\ SessionsEndWithAccount
  BY DEF IInv
<1>2. conn' \in [Conns -> Served] /\ Counted'
  BY <1>1, Returns DEF CreateSession
<1> DEFINE row == [user |-> conn[c].user, left |-> Lifetime, epoch |-> conn[c].seen,
                   overtaken |-> conn[c].seen # epoch[conn[c].user]]
<1>3. conn[c].user \in Users /\ conn[c].seen \in Nat
  BY <1>1 DEF Types, Served
<1>4. row \in Rows
  BY <1>3, SignInAssumption DEF Rows
<1>5. row.epoch = epoch[row.user] \/ row.overtaken
  <2>1. CASE conn[c].seen = epoch[conn[c].user]
    BY <2>1
  <2>2. CASE conn[c].seen # epoch[conn[c].user]
    BY <2>2
  <2>3. QED
    BY <2>1, <2>2
<1>6. sessions' \subseteq sessions \cup {row}
  BY DEF CreateSession
<1> HIDE DEF row
<1>7. \A s \in sessions' : s \in Rows /\ (s.epoch = epoch[s.user] \/ s.overtaken)
  BY <1>1, <1>4, <1>5, <1>6 DEF Types, SessionsEndWithAccount
<1>8. QED
  BY <1>2, <1>7, SessionsKept DEF CreateSession

\* Sessions expire, end and age.
LEMMA SessionSteps ==
    ASSUME IInv, Prune \/ Tick \/ (\E s \in sessions : ExpiredVisit(s) \/ Logout(s))
    PROVE  IInv'
<1>1. Types /\ Counted /\ SessionsEndWithAccount
  BY DEF IInv
<1>2. UNCHANGED <<adminToken, users, epoch, raced, conn>>
  BY DEF Prune, Tick, ExpiredVisit, Logout
<1>3. conn' \in [Conns -> Served] /\ Counted'
  BY <1>1, <1>2 DEF Types, Counted, Knows
<1>4. CASE sessions' \subseteq sessions
  <2>1. \A s \in sessions' : s \in Rows /\ (s.epoch = epoch[s.user] \/ s.overtaken)
    BY <1>1, <1>4 DEF Types, SessionsEndWithAccount
  <2>2. QED
    BY <1>2, <1>3, <2>1, SessionsKept
<1>5. CASE Tick
  <2>1. sessions' = {[s EXCEPT !.left = IF @ = 0 THEN 0 ELSE @ - 1] : s \in sessions}
    BY <1>5 DEF Tick
  <2>2. ASSUME NEW t \in sessions'
        PROVE  t \in Rows /\ (t.epoch = epoch[t.user] \/ t.overtaken)
    <3>1. PICK s \in sessions : t = [s EXCEPT !.left = IF @ = 0 THEN 0 ELSE @ - 1]
      BY <2>1
    <3>2. s \in Rows /\ (s.epoch = epoch[s.user] \/ s.overtaken)
      BY <1>1 DEF Types, SessionsEndWithAccount
    <3>3. t \in Rows /\ t.epoch = s.epoch /\ t.user = s.user /\ t.overtaken = s.overtaken
      BY <3>1, <3>2 DEF Rows
    <3>4. QED
      BY <3>2, <3>3
  <2>3. QED
    BY <1>2, <1>3, <2>2, SessionsKept
<1>6. QED
  BY <1>4, <1>5 DEF Prune, ExpiredVisit, Logout

\* Accounts are created, get new passwords, and are loaded again: nobody who
\* could sign in is kept out.
LEMMA AccountsKept ==
    ASSUME IInv, UNCHANGED <<adminToken, sessions, epoch>>, raced => raced',
           users' \in [Users -> Accounts],
           \A u \in Users : users'[u].status \in {users[u].status, "active"},
           conn' \in [Conns -> Served], Counted'
    PROVE  IInv'
<1>1. NeverAllDisabled'
  BY DEF IInv, NeverAllDisabled, NoAccounts, Active
<1>2. QED
  BY <1>1 DEF IInv, Types, SessionsEndWithAccount

\* adminCreateUser, SetPassword and a restart.
LEMMA AccountSteps ==
    ASSUME IInv, Restart \/ (\E c \in Conns : AdminCreateUser(c) \/ SetPassword(c))
    PROVE  IInv'
<1>1. Types /\ Counted
  BY DEF IInv
<1>2. UNCHANGED <<adminToken, sessions, epoch, raced>>
  BY DEF Restart, AdminCreateUser, SetPassword
<1>3. CASE Restart
  <2>1. conn' \in [Conns -> Served] /\ Counted'
    <3>1. conn' = [c \in Conns |-> Idle]
      BY <1>3 DEF Restart
    <3>2. conn' \in [Conns -> Served] /\ \A c \in Conns : conn'[c].pc = "idle"
      BY <3>1, IdleServed
    <3>3. QED
      BY <3>2 DEF Counted, Knows
  <2>2. QED
    BY <1>1, <1>2, <1>3, <2>1, BootstrapOK, AccountsKept DEF Restart, Types
<1>4. ASSUME NEW c \in Conns, AdminCreateUser(c)
      PROVE  IInv'
  <2>1. conn' \in [Conns -> Served] /\ Counted'
    BY <1>1, <1>2, <1>4 DEF AdminCreateUser, Types, Counted, Knows
  <2>2. /\ users' \in [Users -> Accounts]
        /\ \A u \in Users : users'[u].status \in {users[u].status, "active"}
    BY <1>1, <1>4 DEF AdminCreateUser, Types, Accounts
  <2>3. QED
    BY <1>2, <2>1, <2>2, AccountsKept
<1>5. ASSUME NEW c \in Conns, SetPassword(c)
      PROVE  IInv'
  <2>1. conn' \in [Conns -> Served] /\ Counted'
    BY <1>1, <1>2, <1>5, Returns DEF SetPassword
  <2>2. /\ users' \in [Users -> Accounts]
        /\ \A u \in Users : users'[u].status \in {users[u].status, "active"}
    <3>1. CASE users' = users
      BY <1>1, <3>1 DEF Types
    <3>2. CASE users' = [users EXCEPT ![conn[c].user].pass = @ + 1]
      <4>1. users \in [Users -> Accounts] /\ conn[c].user \in Users
        BY <1>1 DEF Types, Served
      <4>2. \A u \in Users : /\ users'[u].status = users[u].status
                             /\ users'[u] \in Accounts
        BY <3>2, <4>1 DEF Accounts
      <4>3. QED
        BY <3>2, <4>1, <4>2
    <3>3. QED
      BY <1>5, <3>1, <3>2 DEF SetPassword
  <2>3. QED
    BY <1>2, <2>1, <2>2, AccountsKept
<1>6. QED
  BY <1>3, <1>4, <1>5

\* With two accounts that can sign in, disabling one leaves another.
LEMMA OneIsLeft ==
    ASSUME NEW u \in Users, Cardinality(Active) > 1
    PROVE  Active \ {u} # {}
<1>1. IsFiniteSet(Active)
  BY SignInAssumption, FS_Subset DEF Active
<1>2. Cardinality(Active) \in Nat
  BY <1>1, FS_CardinalityType
<1>3. /\ IsFiniteSet(Active \ {u})
      /\ Cardinality(Active \ {u}) >= Cardinality(Active) - 1
  BY <1>1, <1>2, FS_RemoveElement
<1>4. Cardinality(Active \ {u}) # 0
  BY <1>2, <1>3
<1>5. QED
  BY <1>4, FS_EmptySet

\* The account's flag and its sessions change together.
LEMMA SetUserDisabledStep ==
    ASSUME IInv, NEW c \in Conns, SetUserDisabled(c)
    PROVE  IInv'
<1>1. Types /\ Counted /\ NeverAllDisabled /\ SessionsEndWithAccount
  BY DEF IInv
<1>2. adminToken' = adminToken
  BY DEF SetUserDisabled
<1>3. conn' \in [Conns -> Served] /\ Counted'
  <2>1. CASE Return(c)
    BY <1>1, <1>2, <2>1, Returns
  <2>2. CASE Goto(c, "set_password")
    BY <1>1, <1>2, <2>2, GoesOn DEF Places
  <2>3. QED
    BY <2>1, <2>2 DEF SetUserDisabled
<1>4. CASE UNCHANGED store
  BY <1>2, <1>3, <1>4, StoreKept
<1> DEFINE u == conn[c].user
           off == "disable" \in conn[c].then
<1>5. CASE /\ users' = [users EXCEPT ![u].status = IF off THEN "disabled" ELSE "active"]
           /\ sessions' = IF off THEN sessions \ Ended(u) ELSE sessions
           /\ epoch' = IF off THEN [epoch EXCEPT ![u] = @ + 1] ELSE epoch
           /\ raced' = (raced \/ (off /\ conn[c].seen # Cardinality(Active)))
  <2>1. u \in Users /\ users \in [Users -> Accounts] /\ epoch \in [Users -> Nat]
    BY <1>1 DEF Types, Served
  <2>2. CASE ~off
    <3>1. UNCHANGED <<sessions, epoch>> /\ (raced => raced')
      BY <1>5, <2>2
    <3>2. users' = [users EXCEPT ![u].status = "active"]
      BY <1>5, <2>2
    <3>3. \A v \in Users : /\ users'[v] \in Accounts
                           /\ users'[v].status \in {users[v].status, "active"}
      BY <2>1, <3>2 DEF Accounts
    <3>4. users' \in [Users -> Accounts]
      BY <2>1, <3>2, <3>3
    <3>5. QED
      BY <1>2, <1>3, <3>1, <3>3, <3>4, AccountsKept
  <2>3. CASE off
    <3>1. /\ users' = [users EXCEPT ![u].status = "disabled"]
          /\ epoch' = [epoch EXCEPT ![u] = @ + 1]
          /\ sessions' = {s \in sessions : s.user # u}
      BY <1>5, <2>3 DEF Ended
    <3>2. /\ \A v \in Users : users'[v] \in Accounts
          /\ \A v \in Users \ {u} : users'[v] = users[v] /\ epoch'[v] = epoch[v]
      BY <2>1, <3>1 DEF Accounts
    <3>3. users' \in [Users -> Accounts] /\ epoch' \in [Users -> Nat]
      BY <2>1, <3>1, <3>2
    <3>4. sessions' \subseteq Rows
      BY <1>1, <3>1 DEF Types
    <3>5. SessionsEndWithAccount'
      <4>1. ASSUME NEW s \in sessions'
            PROVE  s.epoch = epoch'[s.user] \/ s.overtaken
        <5>1. s \in sessions /\ s.user \in Users \ {u}
          BY <1>1, <3>1 DEF Types, Rows
        <5>2. QED
          BY <1>1, <3>2, <5>1 DEF SessionsEndWithAccount
      <4>2. QED
        BY <4>1 DEF SessionsEndWithAccount
    <3>6. NeverAllDisabled'
      <4>1. CASE adminToken
        BY <1>2, <4>1 DEF NeverAllDisabled
      <4>2. CASE raced \/ conn[c].seen # Cardinality(Active)
        <5>1. raced'
          BY <1>5, <2>3, <4>2
        <5>2. QED
          BY <5>1 DEF NeverAllDisabled
      <4>3. CASE ~adminToken /\ conn[c].seen = Cardinality(Active)
        <5>1. Cardinality(Active) > 1
          BY <1>1, <2>3, <4>3 DEF Counted, Knows, SetUserDisabled
        <5>2. PICK v \in Active : v # u
          BY <2>1, <5>1, OneIsLeft
        <5>3. v \in Active'
          BY <3>2, <5>2 DEF Active
        <5>4. QED
          BY <5>3 DEF NeverAllDisabled
      <4>4. QED
        BY <4>1, <4>2, <4>3
    <3>7. QED
      BY <1>3, <3>3, <3>4, <3>5, <3>6 DEF IInv, Types
  <2>4. QED
    BY <2>2, <2>3
<1>6. QED
  BY <1>4, <1>5 DEF SetUserDisabled

\* Every step keeps the invariant.
LEMMA StepOK == IInv /\ [Next]_vars => IInv'
<1> SUFFICES ASSUME IInv, [Next]_vars PROVE IInv'
  OBVIOUS
<1>1. ASSUME NEW c \in Conns,
             \/ Login(c) \/ Check(c) \/ Authenticate(c) \/ Fail(c) \/ Succeed(c)
             \/ AdminUpdateUser(c) \/ CountActive(c) \/ ChangePassword(c) \/ Verify(c)
             \/ CreateSession(c) \/ SetUserDisabled(c)
      PROVE  IInv'
  BY <1>1, LoginSteps, RequestSteps, CreateSessionStep, SetUserDisabledStep
<1>2. CASE Prune \/ Tick \/ (\E s \in sessions : ExpiredVisit(s) \/ Logout(s))
  BY <1>2, SessionSteps
<1>3. CASE Restart \/ (\E c \in Conns : AdminCreateUser(c) \/ SetPassword(c))
  BY <1>3, AccountSteps
<1>4. CASE UNCHANGED vars
  <2>1. UNCHANGED store /\ adminToken' = adminToken /\ conn' = conn
    BY <1>4 DEF vars
  <2>2. conn' \in [Conns -> Served] /\ Counted'
    BY <2>1 DEF IInv, Types, Counted, Knows
  <2>3. QED
    BY <2>1, <2>2, StoreKept
<1>5. QED
  BY <1>1, <1>2, <1>3, <1>4 DEF Next

\* The inductive invariant: types, and what a request past the count knows.
THEOREM Accounted == Spec => []IInv
<1>1. Init => IInv
  BY InitOK
<1>2. IInv /\ [Next]_vars => IInv'
  BY StepOK
<1>3. QED
  BY <1>1, <1>2, PTL DEF Spec

\* Without ADMIN_TOKEN, where there are accounts some account can sign in, for
\* any number of accounts and connections and whatever bootstrapAdminUser did,
\* unless adminUpdateUser disabled one on a count that another request had made
\* untrue in between.
THEOREM LastAccountStays == Spec => []NeverAllDisabled
<1>1. IInv => NeverAllDisabled
  BY DEF IInv
<1>2. QED
  BY <1>1, Accounted, PTL

\* Sessions end with their account (SetUserDisabled), for any number of both,
\* except one of a sign-in that the disabling overtook between Authenticate and
\* CreateSession.
THEOREM SessionsEnd == Spec => []SessionsEndWithAccount
<1>1. IInv => SessionsEndWithAccount
  BY DEF IInv
<1>2. QED
  BY <1>1, Accounted, PTL


(***************************************************************************)
(* The throttle.  Which sign-ins an identity's check has let pass matters  *)
(* once it is locked: each may charge one wrong answer more, and nobody    *)
(* joins them.  A lock outlasts no window, so a locked record's count goes *)
(* on and never starts again at one.                                       *)
(***************************************************************************)
\* A sign-in that has passed the check of k and may still charge it.
Past(q, k) ==
    \/ k \in Users /\ q.user = k /\ q.pc \in {"check_addr", "authenticate", "fail_email"}
    \/ k \in Addrs /\ q.addr = k /\ q.pc \in {"authenticate", "fail_email", "fail_addr"}

\* The sign-ins that may still charge k.
In(k) == {c \in Conns : Past(conn[c], k)}

Records == [failures : Nat, age : Nat, left : Nat]

\* A record, the wrong answers charged and how many sign-ins may add to them.
Fits(r, n, m) ==
    /\ r \in Records /\ n \in Nat /\ r.failures < MaxFailed
    /\ r.left > 0 => /\ r.age + r.left <= Lockout
                     /\ n + m <= MaxFailed + Cardinality(Conns) - 1
    /\ r.left = 0 => n < MaxFailed /\ (r.age <= Window => n <= r.failures)

\* The same of every identity.
Counts ==
    /\ throttle \in [Keys -> Records] /\ charged \in [Keys -> Nat]
    /\ \A k \in Keys : Fits(throttle[k], charged[k], Cardinality(In(k)))

\* No record is a record nothing was charged to.
LEMMA FitsNone == \A m : NoRecord \in Records /\ Fits(NoRecord, 0, m)
BY SignInAssumption DEF NoRecord, Records, Fits

\* What fits with some sign-ins let in fits with fewer.
LEMMA FitsFewer ==
    ASSUME NEW r, NEW n, NEW m \in Nat, NEW less \in Nat, less <= m, Fits(r, n, m),
           Cardinality(Conns) \in Nat
    PROVE  Fits(r, n, less)
BY SignInAssumption DEF Fits

\* One more wrong answer, of a sign-in that was let in before.
LEMMA FitsFailed ==
    ASSUME NEW r, NEW n, NEW m \in Nat, NEW less \in Nat, less < m,
           Cardinality(Conns) \in Nat, m <= Cardinality(Conns), Fits(r, n, m)
    PROVE  /\ Failed(r) \in Records
           /\ Fits(Failed(r), IF r.age > Window THEN 1 ELSE n + 1, less)
<1>1. /\ r \in Records /\ n \in Nat /\ r.failures \in Nat /\ r.age \in Nat /\ r.left \in Nat
      /\ r.failures < MaxFailed
  BY DEF Fits, Records
<1>2. MaxFailed \in Nat /\ MaxFailed > 1 /\ Window \in Nat /\ Lockout \in Nat /\ 0 < Lockout /\ Lockout <= Window
  BY SignInAssumption
<1>3. CASE r.age > Window
  <2>1. Failed(r) = [failures |-> 1, age |-> 0, left |-> 0]
    BY <1>3 DEF Failed
  <2> QED BY <2>1, <1>2, <1>3 DEF Fits, Records
<1>4. CASE r.age <= Window /\ r.failures + 1 >= MaxFailed
  <2>1. Failed(r) = [failures |-> 0, age |-> 0, left |-> Lockout]
    BY <1>4, <1>1, <1>2 DEF Failed
  <2>2. n + 1 + less <= MaxFailed + Cardinality(Conns) - 1
    BY <1>1, <1>2, <1>4 DEF Fits
  <2> QED BY <1>1, <2>1, <2>2, <1>2, <1>4 DEF Fits, Records
<1>5. CASE r.age <= Window /\ r.failures + 1 < MaxFailed
  <2>1. Failed(r) = [r EXCEPT !.failures = @ + 1]
    BY <1>5, <1>1, <1>2 DEF Failed
  <2>2. /\ Failed(r) \in Records /\ Failed(r).failures = r.failures + 1
        /\ Failed(r).age = r.age /\ Failed(r).left = r.left
    BY <2>1, <1>1 DEF Records
  <2>3. r.left > 0 => r.age + r.left <= Lockout /\ n + 1 + less <= MaxFailed + Cardinality(Conns) - 1
    BY <1>1, <1>2 DEF Fits
  <2>4. r.left = 0 => n + 1 < MaxFailed /\ n + 1 <= r.failures + 1
    BY <1>1, <1>2, <1>5 DEF Fits
  <2> QED BY <1>1, <2>2, <2>3, <2>4, <1>2, <1>5 DEF Fits
<1> QED BY <1>1, <1>2, <1>3, <1>4, <1>5

\* What a tick makes of a record.
Aged(r) == [r EXCEPT !.age = IF @ > Window THEN @ ELSE @ + 1,
                     !.left = IF @ = 0 THEN 0 ELSE @ - 1]

\* Time passes over a record; with the lock the count goes.
LEMMA FitsAged ==
    ASSUME NEW r, NEW n, NEW m \in Nat, Cardinality(Conns) \in Nat, Fits(r, n, m)
    PROVE  /\ Aged(r) \in Records
           /\ Fits(Aged(r), IF r.left = 1 THEN 0 ELSE n, m)
<1>1. /\ r \in Records /\ n \in Nat /\ r.failures \in Nat /\ r.age \in Nat /\ r.left \in Nat
      /\ r.failures < MaxFailed
  BY DEF Fits, Records
<1>2. MaxFailed \in Nat /\ MaxFailed > 1 /\ Window \in Nat /\ Lockout \in Nat /\ 0 < Lockout /\ Lockout <= Window
  BY SignInAssumption
<1>3. /\ Aged(r) \in Records /\ Aged(r).failures = r.failures
      /\ Aged(r).age = IF r.age > Window THEN r.age ELSE r.age + 1
      /\ Aged(r).left = IF r.left = 0 THEN 0 ELSE r.left - 1
  <2> DEFINE a == IF r.age > Window THEN r.age ELSE r.age + 1
  <2> DEFINE l == IF r.left = 0 THEN 0 ELSE r.left - 1
  <2>1. a \in Nat /\ l \in Nat
    BY <1>1, <1>2
  <2>2. Aged(r) = [r EXCEPT !.age = a, !.left = l]
    BY DEF Aged
  <2> HIDE DEF a, l
  <2>3. /\ Aged(r) \in Records /\ Aged(r).failures = r.failures
        /\ Aged(r).age = a /\ Aged(r).left = l
    BY <1>1, <2>1, <2>2 DEF Records
  <2> QED BY <2>3 DEF a, l
<1>4. r.left > 0 => r.age + r.left <= Lockout /\ n + m <= MaxFailed + Cardinality(Conns) - 1
  BY DEF Fits
<1>5. r.left = 0 => n < MaxFailed /\ (r.age <= Window => n <= r.failures)
  BY DEF Fits
<1> QED BY <1>1, <1>2, <1>3, <1>4, <1>5 DEF Fits

\* There are no more of them than connections.
LEMMA InFinite ==
    /\ \A k : IsFiniteSet(In(k)) /\ Cardinality(In(k)) \in Nat /\ Cardinality(In(k)) <= Cardinality(Conns)
    /\ Cardinality(Conns) \in Nat
BY SignInAssumption, FS_Subset, FS_CardinalityType DEF In

\* The same after a step.
LEMMA InFinitePrime ==
    \A k : IsFiniteSet(In(k)') /\ Cardinality(In(k)') \in Nat /\ Cardinality(In(k)') <= Cardinality(Conns)
<1>1. \A k : In(k)' \subseteq Conns
  BY DEF In
<1> QED BY <1>1, SignInAssumption, FS_Subset, FS_CardinalityType

\* Nobody is let in, nothing is charged: the counts hold as before.
LEMMA CountsKept ==
    ASSUME Counts, UNCHANGED guard,
           \A k \in Keys : \A d \in Conns : Past(conn'[d], k) => Past(conn[d], k)
    PROVE  Counts'
<1>1. throttle' = throttle /\ charged' = charged
  BY DEF guard
<1>2. ASSUME NEW k \in Keys PROVE Fits(throttle'[k], charged'[k], Cardinality(In(k)'))
  <2>1. In(k)' \subseteq In(k)
    BY DEF In, Past
  <2>2. Cardinality(In(k)') <= Cardinality(In(k))
    BY <2>1, InFinite, FS_Subset
  <2>3. Fits(throttle[k], charged[k], Cardinality(In(k)))
    BY DEF Counts
  <2> QED BY <1>1, <2>2, <2>3, InFinite, InFinitePrime, FitsFewer
<1>3. throttle' \in [Keys -> Records] /\ charged' \in [Keys -> Nat]
  BY <1>1 DEF Counts
<1> QED BY <1>2, <1>3 DEF Counts, Fits

\* One connection's request becomes one no identity's check has let pass.
LEMMA Leaves ==
    ASSUME Types, NEW c \in Conns, NEW q, conn' = [conn EXCEPT ![c] = q],
           \A k \in Keys : Past(q, k) => Past(conn[c], k)
    PROVE  \A k \in Keys : \A d \in Conns : Past(conn'[d], k) => Past(conn[d], k)
<1>1. \A d \in Conns : conn'[d] = IF d = c THEN q ELSE conn[d]
  BY DEF Types
<1> QED BY <1>1

\* An idle connection charges nobody.
LEMMA IdleIsOut == \A k : ~Past(Idle, k)
BY DEF Past, Idle

\* A request moves to another place.
LEMMA Moves ==
    ASSUME Types, NEW c \in Conns, NEW pc, Goto(c, pc)
    PROVE  /\ conn' = [conn EXCEPT ![c] = [conn[c] EXCEPT !.pc = pc]]
           /\ [conn[c] EXCEPT !.pc = pc].pc = pc
           /\ [conn[c] EXCEPT !.pc = pc].user = conn[c].user
           /\ [conn[c] EXCEPT !.pc = pc].addr = conn[c].addr
<1>1. conn[c] \in Served /\ conn \in [Conns -> Served]
  BY DEF Types
<1> QED BY <1>1 DEF Goto, Served

\* Where a request is no sign-in past a check that may still fail.
Outside == {"idle", "check_email", "clear_email", "clear_addr", "session", "count",
            "set_disabled", "set_password", "verify"}

\* Nor does a request at any of these places.
LEMMA OutsideIsOut == \A q : q.pc \in Outside => \A k : ~Past(q, k)
BY DEF Outside, Past

\* A request that goes there lets nobody in.
LEMMA GoesOutside ==
    ASSUME Types, NEW c \in Conns, NEW pc \in Outside, Goto(c, pc)
    PROVE  \A k \in Keys : \A d \in Conns : Past(conn'[d], k) => Past(conn[d], k)
<1> DEFINE q == [conn[c] EXCEPT !.pc = pc]
<1>1. conn' = [conn EXCEPT ![c] = q] /\ q.pc = pc
  BY Moves
<1> HIDE DEF q
<1>2. \A k \in Keys : ~Past(q, k)
  BY <1>1, OutsideIsOut
<1> QED BY <1>1, <1>2, Leaves

\* Nor does one that is over.
LEMMA GoesIdle ==
    ASSUME Types, NEW c \in Conns, Return(c)
    PROVE  \A k \in Keys : \A d \in Conns : Past(conn'[d], k) => Past(conn[d], k)
BY Leaves, IdleIsOut DEF Return

\* A request begins, or one is answered, that is no sign-in past its checks.
LEMMA QuietSteps ==
    ASSUME Types, Counts, NEW c \in Conns,
           \/ Login(c) \/ CreateSession(c) \/ AdminCreateUser(c) \/ AdminUpdateUser(c)
           \/ CountActive(c) \/ SetUserDisabled(c) \/ SetPassword(c)
           \/ ChangePassword(c) \/ Verify(c)
    PROVE  Counts'
<1> DEFINE Kept == \A k \in Keys : \A d \in Conns : Past(conn'[d], k) => Past(conn[d], k)
<1>0. UNCHANGED guard
  BY DEF Login, CreateSession, AdminCreateUser, AdminUpdateUser, CountActive,
         SetUserDisabled, SetPassword, ChangePassword, Verify
<1> SUFFICES Kept
  BY <1>0, CountsKept
<1>1. CASE Login(c)
  <2>1. PICK u \in Users, a \in Addrs :
          \E p \in {Never, users[u].pass} :
             conn' = [conn EXCEPT ![c] = [Idle EXCEPT !.pc = "check_email",
                                            !.user = u, !.addr = a, !.pass = p]]
    BY <1>1 DEF Login
  <2>2. PICK p \in {Never, users[u].pass} :
             conn' = [conn EXCEPT ![c] = [Idle EXCEPT !.pc = "check_email",
                                            !.user = u, !.addr = a, !.pass = p]]
    BY <2>1
  <2> DEFINE q == [Idle EXCEPT !.pc = "check_email", !.user = u, !.addr = a, !.pass = p]
  <2>3. q.pc = "check_email"
    BY DEF Idle
  <2>4. conn' = [conn EXCEPT ![c] = q]
    BY <2>2
  <2> HIDE DEF q
  <2>5. \A k \in Keys : ~Past(q, k)
    BY <2>3, OutsideIsOut DEF Outside
  <2> QED BY <2>4, <2>5, Leaves
<1>2. CASE CreateSession(c)
  BY <1>2, GoesIdle DEF CreateSession
<1>3. CASE AdminCreateUser(c)
  BY <1>3 DEF AdminCreateUser
<1>4. CASE AdminUpdateUser(c)
  <2>1. PICK u \in Users, wants \in {{"disable"}, {"enable"}, {"password"},
                                     {"disable", "password"}} :
          conn' = [conn EXCEPT ![c] =
                    [Idle EXCEPT !.user = u, !.then = wants,
                       !.pc = CASE "disable" \in wants -> "count"
                                [] "enable" \in wants -> "set_disabled"
                                [] OTHER -> "set_password"]]
    BY <1>4 DEF AdminUpdateUser
  <2> DEFINE pc == CASE "disable" \in wants -> "count"
                     [] "enable" \in wants -> "set_disabled"
                     [] OTHER -> "set_password"
  <2> DEFINE q == [Idle EXCEPT !.user = u, !.then = wants, !.pc = pc]
  <2>2. pc \in Outside
    BY DEF Outside
  <2>3. conn' = [conn EXCEPT ![c] = q]
    BY <2>1
  <2> HIDE DEF pc
  <2>4. q.pc = pc
    BY DEF Idle
  <2> HIDE DEF q
  <2>5. \A k \in Keys : ~Past(q, k)
    BY <2>2, <2>4, OutsideIsOut
  <2> QED BY <2>3, <2>5, Leaves
<1>5. CASE CountActive(c)
  <2>1. CASE Return(c)
    BY <2>1, GoesIdle
  <2>2. CASE conn' = [conn EXCEPT ![c].pc = "set_disabled", ![c].seen = Cardinality(Active)]
    <3> DEFINE q == [conn[c] EXCEPT !.pc = "set_disabled", !.seen = Cardinality(Active)]
    <3>1. conn \in [Conns -> Served] /\ conn[c] \in Served
      BY DEF Types
    <3>2. conn' = [conn EXCEPT ![c] = q]
      BY <2>2, <3>1
    <3>3. q.pc = "set_disabled"
      BY <3>1 DEF Served
    <3> HIDE DEF q
    <3>4. \A k \in Keys : ~Past(q, k)
      BY <3>3, OutsideIsOut DEF Outside
    <3> QED BY <3>2, <3>4, Leaves
  <2> QED BY <1>5, <2>1, <2>2 DEF CountActive
<1>6. CASE SetUserDisabled(c)
  <2>1. Return(c) \/ Goto(c, "set_password")
    BY <1>6 DEF SetUserDisabled
  <2> QED BY <2>1, GoesIdle, GoesOutside DEF Outside
<1>7. CASE SetPassword(c)
  BY <1>7, GoesIdle DEF SetPassword
<1>8. CASE ChangePassword(c)
  <2>1. PICK s \in sessions : \E p \in {Never, users[s.user].pass} :
          conn' = [conn EXCEPT ![c] = [Idle EXCEPT !.pc = "verify",
                                         !.user = s.user, !.pass = p]]
    BY <1>8 DEF ChangePassword
  <2>2. PICK p \in {Never, users[s.user].pass} :
          conn' = [conn EXCEPT ![c] = [Idle EXCEPT !.pc = "verify",
                                         !.user = s.user, !.pass = p]]
    BY <2>1
  <2> DEFINE q == [Idle EXCEPT !.pc = "verify", !.user = s.user, !.pass = p]
  <2>3. q.pc = "verify"
    BY DEF Idle
  <2>4. conn' = [conn EXCEPT ![c] = q]
    BY <2>2
  <2> HIDE DEF q
  <2>5. \A k \in Keys : ~Past(q, k)
    BY <2>3, OutsideIsOut DEF Outside
  <2> QED BY <2>4, <2>5, Leaves
<1>9. CASE Verify(c)
  <2>1. Return(c) \/ Goto(c, "set_password")
    BY <1>9 DEF Verify
  <2> QED BY <2>1, GoesIdle, GoesOutside DEF Outside
<1> QED BY <1>1, <1>2, <1>3, <1>4, <1>5, <1>6, <1>7, <1>8, <1>9

\* A record the sweep may take holds nothing anybody counts.
LEMMA FitsSwept ==
    ASSUME NEW r, NEW n, NEW m, Fits(r, n, m)
    PROVE  /\ (IF r.left = 0 /\ r.age > Window THEN NoRecord ELSE r) \in Records
           /\ Fits(IF r.left = 0 /\ r.age > Window THEN NoRecord ELSE r, n, m)
<1>1. CASE r.left = 0 /\ r.age > Window
  <2>1. n \in Nat /\ n < MaxFailed
    BY <1>1 DEF Fits
  <2>2. NoRecord \in Records /\ NoRecord.left = 0 /\ NoRecord.failures = 0 /\ NoRecord.age = Window + 1
    BY SignInAssumption DEF NoRecord, Records
  <2>3. Window \in Nat /\ MaxFailed \in Nat /\ 0 < MaxFailed
    BY SignInAssumption
  <2>4. Fits(NoRecord, n, m)
    BY <2>1, <2>2, <2>3 DEF Fits
  <2> QED BY <1>1, <2>2, <2>4
<1>2. CASE ~(r.left = 0 /\ r.age > Window)
  BY <1>2 DEF Fits
<1> QED BY <1>1, <1>2

\* The check lets a sign-in pass only for an identity that is not locked.
LEMMA CheckCounts ==
    ASSUME Types, Counts, NEW c \in Conns, Check(c)
    PROVE  Counts'
<1> DEFINE email == conn[c].pc = "check_email"
<1> DEFINE key == IF email THEN conn[c].user ELSE conn[c].addr
<1>1. /\ conn[c].pc \in {"check_email", "check_addr"}
      /\ Return(c) \/ (~Locked(key) /\ Goto(c, IF email THEN "check_addr" ELSE "authenticate"))
      /\ throttle' \in {throttle, Swept(throttle)}
      /\ charged' = charged
  BY DEF Check
<1>2. ASSUME NEW k \in Keys, Locked(k), NEW d \in Conns, Past(conn'[d], k)
      PROVE  Past(conn[d], k)
  <2>1. CASE Return(c)
    BY <2>1, <1>2, GoesIdle
  <2>2. CASE ~Locked(key) /\ Goto(c, IF email THEN "check_addr" ELSE "authenticate")
    <3> DEFINE pc == IF email THEN "check_addr" ELSE "authenticate"
    <3> DEFINE q == [conn[c] EXCEPT !.pc = pc]
    <3>1. /\ conn' = [conn EXCEPT ![c] = q] /\ q.pc = pc
          /\ q.user = conn[c].user /\ q.addr = conn[c].addr
      BY <2>2, Moves
    <3>2. conn'[d] = IF d = c THEN q ELSE conn[d]
      BY <3>1 DEF Types
    <3> HIDE DEF q
    <3>3. k # key
      BY <1>2, <2>2
    <3>4. CASE d = c
      <4>1. Past(q, k)
        BY <1>2, <3>2, <3>4
      <4>2. CASE email
        BY <4>1, <4>2, <3>1, <3>3 DEF Past
      <4>3. CASE ~email
        BY <4>1, <4>3, <3>1, <3>3, <3>4, <1>1 DEF Past
      <4> QED BY <4>2, <4>3
    <3>5. CASE d # c
      BY <1>2, <3>2, <3>5
    <3> QED BY <3>4, <3>5
  <2> QED BY <1>1, <2>1, <2>2
<1>3. ASSUME NEW k \in Keys
      PROVE  throttle'[k] \in Records /\ Fits(throttle'[k], charged'[k], Cardinality(In(k)'))
  <2>1. Fits(throttle[k], charged[k], Cardinality(In(k))) /\ throttle[k] \in Records
    BY DEF Counts
  <2>2. Fits(throttle[k], charged[k], Cardinality(In(k)'))
    <3>1. CASE Locked(k)
      <4>1. In(k)' \subseteq In(k)
        <5>1. \A d \in Conns : Past(conn'[d], k) => Past(conn[d], k)
          BY <1>2, <3>1
        <5> QED BY <5>1 DEF In, Past
      <4>2. Cardinality(In(k)') <= Cardinality(In(k))
        BY <4>1, InFinite, FS_Subset
      <4> QED BY <2>1, <4>2, InFinite, InFinitePrime, FitsFewer
    <3>2. CASE ~Locked(k)
      <4>1. ~(throttle[k].left > 0)
        BY <3>2 DEF Locked
      <4> QED BY <2>1, <4>1 DEF Fits
    <3> QED BY <3>1, <3>2
  <2>3. CASE throttle' = throttle
    BY <1>1, <2>1, <2>2, <2>3
  <2>4. CASE throttle' = Swept(throttle)
    <3>1. throttle'[k] = IF throttle[k].left = 0 /\ throttle[k].age > Window
                         THEN NoRecord ELSE throttle[k]
      BY <2>4 DEF Swept
    <3> QED BY <1>1, <2>2, <3>1, FitsSwept
  <2> QED BY <1>1, <2>3, <2>4
<1>4. DOMAIN throttle' = Keys /\ throttle' = [k \in Keys |-> throttle'[k]]
  BY <1>1 DEF Counts, Swept
<1>5. throttle' \in [Keys -> Records] /\ charged' \in [Keys -> Nat]
  BY <1>1, <1>3, <1>4 DEF Counts
<1> QED BY <1>3, <1>5 DEF Counts, Fits

\* The password is looked at: whoever was let in stays in, or leaves.
LEMMA AuthenticateCounts ==
    ASSUME Types, Counts, NEW c \in Conns, Authenticate(c)
    PROVE  Counts'
<1> SUFFICES \A k \in Keys : \A d \in Conns : Past(conn'[d], k) => Past(conn[d], k)
  BY CountsKept DEF Authenticate
<1>0. conn \in [Conns -> Served] /\ conn[c] \in Served /\ conn[c].pc = "authenticate"
  BY DEF Types, Authenticate
<1>1. CASE conn' = [conn EXCEPT ![c].pc = "clear_email", ![c].seen = epoch[conn[c].user]]
  <2> DEFINE q == [conn[c] EXCEPT !.pc = "clear_email", !.seen = epoch[conn[c].user]]
  <2>1. conn' = [conn EXCEPT ![c] = q]
    BY <1>0, <1>1
  <2>2. q.pc = "clear_email"
    BY <1>0 DEF Served
  <2> HIDE DEF q
  <2>3. \A k \in Keys : ~Past(q, k)
    BY <2>2, OutsideIsOut DEF Outside
  <2> QED BY <2>1, <2>3, Leaves
<1>2. CASE Goto(c, "fail_email")
  <2> DEFINE q == [conn[c] EXCEPT !.pc = "fail_email"]
  <2>1. /\ conn' = [conn EXCEPT ![c] = q] /\ q.pc = "fail_email"
        /\ q.user = conn[c].user /\ q.addr = conn[c].addr
    BY <1>2, Moves
  <2> HIDE DEF q
  <2>2. \A k \in Keys : Past(q, k) => Past(conn[c], k)
    BY <1>0, <2>1 DEF Past
  <2> QED BY <2>1, <2>2, Leaves
<1> QED BY <1>1, <1>2 DEF Authenticate

\* One wrong answer is charged, and its sign-in is one less that may charge.
LEMMA FailCounts ==
    ASSUME Types, Counts, NEW c \in Conns, Fail(c)
    PROVE  Counts'
<1> DEFINE email == conn[c].pc = "fail_email"
<1> DEFINE key == IF email THEN conn[c].user ELSE conn[c].addr
<1>0. /\ conn \in [Conns -> Served] /\ conn[c] \in Served
      /\ conn[c].user \in Users /\ conn[c].addr \in Addrs
  <2>1. conn[c] \in Served /\ conn \in [Conns -> Served]
    BY DEF Types
  <2>2. SomeAddr \in Addrs
    BY SignInAssumption DEF SomeAddr
  <2> QED BY <2>1, <2>2 DEF Served
<1>1. /\ conn[c].pc \in {"fail_email", "fail_addr"}
      /\ throttle' = [throttle EXCEPT ![key] = Failed(@)]
      /\ charged' = [charged EXCEPT ![key] = IF throttle[key].age > Window THEN 1 ELSE @ + 1]
      /\ IF email THEN Goto(c, "fail_addr") ELSE Return(c)
  BY DEF Fail
<1>2. key \in Keys
  BY <1>0 DEF Keys
<1>3. \A k \in Keys : \A d \in Conns :
         Past(conn'[d], k) => Past(conn[d], k) /\ ~(k = key /\ d = c)
  <2>1. CASE email
    <3> DEFINE q == [conn[c] EXCEPT !.pc = "fail_addr"]
    <3>1. /\ conn' = [conn EXCEPT ![c] = q] /\ q.pc = "fail_addr"
          /\ q.user = conn[c].user /\ q.addr = conn[c].addr
      BY <2>1, <1>1, Moves
    <3>2. \A d \in Conns : conn'[d] = IF d = c THEN q ELSE conn[d]
      BY <1>0, <3>1
    <3> HIDE DEF q
    <3>3. \A k \in Keys : Past(q, k) => Past(conn[c], k) /\ k # conn[c].user
      BY <2>1, <3>1, <1>0, SignInAssumption DEF Past
    <3> QED BY <2>1, <3>2, <3>3
  <2>2. CASE ~email
    <3>1. conn' = [conn EXCEPT ![c] = Idle]
      BY <2>2, <1>1 DEF Return
    <3>2. \A d \in Conns : conn'[d] = IF d = c THEN Idle ELSE conn[d]
      BY <1>0, <3>1
    <3> QED BY <3>2, IdleIsOut
  <2> QED BY <2>1, <2>2
<1>4. Past(conn[c], key)
  BY <1>0, <1>1 DEF Past
<1> HIDE DEF key
<1>5. /\ throttle \in [Keys -> Records] /\ charged \in [Keys -> Nat]
      /\ \A k \in Keys : Fits(throttle[k], charged[k], Cardinality(In(k)))
  BY DEF Counts
<1>6. ASSUME NEW k \in Keys
      PROVE  /\ throttle'[k] \in Records /\ charged'[k] \in Nat
             /\ Fits(throttle'[k], charged'[k], Cardinality(In(k)'))
  <2>1. Fits(throttle[k], charged[k], Cardinality(In(k)))
    BY <1>5
  <2>2. CASE k = key
    <3>1. throttle'[k] = Failed(throttle[k])
      BY <1>1, <1>5, <2>2
    <3>2. charged'[k] = IF throttle[k].age > Window THEN 1 ELSE charged[k] + 1
      BY <1>1, <1>5, <2>2
    <3>3. c \in In(k)
      BY <1>4, <2>2 DEF In
    <3>4. In(k)' \subseteq In(k) \ {c}
      BY <1>3, <2>2 DEF In, Past
    <3>5. Cardinality(In(k)') < Cardinality(In(k))
      <4>1. IsFiniteSet(In(k)) /\ Cardinality(In(k)) \in Nat
        BY InFinite
      <4>2. IsFiniteSet(In(k) \ {c}) /\ Cardinality(In(k) \ {c}) = Cardinality(In(k)) - 1
        BY <3>3, <4>1, FS_RemoveElement
      <4>3. Cardinality(In(k)') <= Cardinality(In(k) \ {c})
        BY <3>4, <4>2, FS_Subset
      <4> QED BY <4>1, <4>2, <4>3, InFinitePrime
    <3>6. Fits(Failed(throttle[k]), IF throttle[k].age > Window THEN 1 ELSE charged[k] + 1,
               Cardinality(In(k)'))
      BY <2>1, <3>5, InFinite, InFinitePrime, FitsFailed
    <3>7. Failed(throttle[k]) \in Records
      BY <2>1, <3>5, InFinite, InFinitePrime, FitsFailed
    <3> QED BY <1>5, <3>1, <3>2, <3>6, <3>7
  <2>3. CASE k # key
    <3>1. throttle'[k] = throttle[k] /\ charged'[k] = charged[k]
      BY <1>1, <1>5, <2>3
    <3>2. In(k)' \subseteq In(k)
      BY <1>3 DEF In, Past
    <3>3. Cardinality(In(k)') <= Cardinality(In(k))
      BY <3>2, InFinite, FS_Subset
    <3> QED BY <1>5, <2>1, <3>1, <3>3, InFinite, InFinitePrime, FitsFewer
  <2> QED BY <2>2, <2>3
<1>7. throttle' \in [Keys -> Records] /\ charged' \in [Keys -> Nat]
  <2>1. /\ throttle' = [k \in Keys |-> throttle'[k]]
        /\ charged' = [k \in Keys |-> charged'[k]]
    BY <1>1, <1>5
  <2> QED BY <1>6, <2>1
<1> QED BY <1>6, <1>7 DEF Counts, Fits

\* A right answer: the record goes, and the count with it.
LEMMA SucceedCounts ==
    ASSUME Types, Counts, NEW c \in Conns, Succeed(c)
    PROVE  Counts'
<1> DEFINE email == conn[c].pc = "clear_email"
<1> DEFINE key == IF email THEN conn[c].user ELSE conn[c].addr
<1>1. /\ throttle' = [throttle EXCEPT ![key] = NoRecord]
      /\ charged' = [charged EXCEPT ![key] = 0]
      /\ Goto(c, IF email THEN "clear_addr" ELSE "session")
  BY DEF Succeed
<1>2. \A k \in Keys : \A d \in Conns : Past(conn'[d], k) => Past(conn[d], k)
  BY <1>1, GoesOutside DEF Outside
<1> HIDE DEF key
<1>3. /\ throttle \in [Keys -> Records] /\ charged \in [Keys -> Nat]
      /\ \A k \in Keys : Fits(throttle[k], charged[k], Cardinality(In(k)))
  BY DEF Counts
<1>4. throttle' \in [Keys -> Records] /\ charged' \in [Keys -> Nat]
  BY <1>1, <1>3, FitsNone
<1>5. ASSUME NEW k \in Keys PROVE Fits(throttle'[k], charged'[k], Cardinality(In(k)'))
  <2>1. CASE k = key
    BY <1>1, <1>3, <2>1, FitsNone
  <2>2. CASE k # key
    <3>1. throttle'[k] = throttle[k] /\ charged'[k] = charged[k]
      BY <1>1, <1>3, <2>2
    <3>2. In(k)' \subseteq In(k)
      BY <1>2 DEF In, Past
    <3>3. Cardinality(In(k)') <= Cardinality(In(k))
      BY <3>2, InFinite, FS_Subset
    <3> QED BY <1>3, <3>1, <3>3, InFinite, InFinitePrime, FitsFewer
  <2> QED BY <2>1, <2>2
<1> QED BY <1>4, <1>5 DEF Counts, Fits

\* Sessions are none of the throttle's business.
LEMMA VisitCounts ==
    ASSUME Counts, UNCHANGED <<guard, conn>> PROVE Counts'
BY CountsKept DEF Past

\* Time passes over every record.
LEMMA TickCounts == ASSUME Counts, Tick PROVE Counts'
<1>1. /\ throttle' = [k \in Keys |-> Aged(throttle[k])]
      /\ charged' = [k \in Keys |-> IF throttle[k].left = 1 THEN 0 ELSE charged[k]]
      /\ conn' = conn
  BY DEF Tick, Aged
<1>2. ASSUME NEW k \in Keys
      PROVE  /\ throttle'[k] \in Records /\ charged'[k] \in Nat
             /\ Fits(throttle'[k], charged'[k], Cardinality(In(k)'))
  <2>1. Fits(throttle[k], charged[k], Cardinality(In(k))) /\ charged[k] \in Nat
    BY DEF Counts
  <2>2. In(k)' = In(k)
    BY <1>1 DEF In, Past
  <2>3. Aged(throttle[k]) \in Records
    BY <2>1, InFinite, FitsAged
  <2>4. Fits(Aged(throttle[k]), IF throttle[k].left = 1 THEN 0 ELSE charged[k], Cardinality(In(k)))
    BY <2>1, InFinite, FitsAged
  <2> QED BY <1>1, <2>1, <2>2, <2>3, <2>4
<1>3. throttle' \in [Keys -> Records] /\ charged' \in [Keys -> Nat]
  <2>1. /\ throttle' = [k \in Keys |-> throttle'[k]]
        /\ charged' = [k \in Keys |-> charged'[k]]
    BY <1>1
  <2> QED BY <1>2, <2>1
<1> QED BY <1>2, <1>3 DEF Counts, Fits

\* A restart forgets the records and the requests.
LEMMA RestartCounts == ASSUME Restart PROVE Counts'
<1>1. throttle' = [k \in Keys |-> NoRecord] /\ charged' = [k \in Keys |-> 0]
  BY DEF Restart
<1>2. \A k \in Keys : Fits(throttle'[k], charged'[k], Cardinality(In(k)'))
  BY <1>1, FitsNone
<1>3. throttle' \in [Keys -> Records] /\ charged' \in [Keys -> Nat]
  BY <1>1, FitsNone
<1> QED BY <1>2, <1>3 DEF Counts, Fits

\* The gateway starts with neither.
LEMMA InitCounts == Init => Counts
<1> SUFFICES ASSUME Init PROVE Counts
  OBVIOUS
<1>1. throttle = [k \in Keys |-> NoRecord] /\ charged = [k \in Keys |-> 0]
  BY DEF Init
<1> QED BY <1>1, FitsNone DEF Counts

\* Every step keeps the counts.
LEMMA NextCounts == Types /\ Counts /\ [Next]_vars => Counts'
<1> SUFFICES ASSUME Types, Counts, [Next]_vars PROVE Counts'
  OBVIOUS
<1>1. CASE UNCHANGED vars
  BY <1>1, VisitCounts DEF vars
<1>2. ASSUME NEW s \in sessions, ExpiredVisit(s) \/ Logout(s) PROVE Counts'
  BY <1>2, VisitCounts DEF ExpiredVisit, Logout
<1>3. CASE Prune
  BY <1>3, VisitCounts DEF Prune
<1> QED BY <1>1, <1>2, <1>3, QuietSteps, CheckCounts, AuthenticateCounts, FailCounts,
           SucceedCounts, TickCounts, RestartCounts DEF Next

\* However sign-ins overlap, the wrong answers checked between the start of an
\* identity's record and the end of its lock are at most the limit and one for
\* each other connection (loginThrottle.locked and fail, each under the mutex).
THEOREM GuessesAreBounded == Spec => []GuessesBounded
<1>1. Counts => GuessesBounded
  <2> SUFFICES ASSUME Counts, NEW k \in Keys
               PROVE  charged[k] <= MaxFailed + Cardinality(Conns) - 1
    BY DEF GuessesBounded
  <2>1. Fits(throttle[k], charged[k], Cardinality(In(k))) /\ charged[k] \in Nat
    BY DEF Counts
  <2>2. throttle[k].left \in Nat
    BY <2>1 DEF Fits, Records
  <2>3. MaxFailed \in Nat
    BY SignInAssumption
  <2> QED BY <2>1, <2>2, <2>3, InFinite DEF Fits
<1>2. IInv => Types
  BY DEF IInv
<1> QED BY InitCounts, Accounted, NextCounts, <1>1, <1>2, PTL DEF Spec
=============================================================================
