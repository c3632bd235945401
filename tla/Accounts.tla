-------------------------------- MODULE Accounts --------------------------------
(***************************************************************************)
(* Accounts, logins and web sessions: hub/auth/service.py over the tables   *)
(* users and web_sessions of hub/auth/repository.py, as the routes of       *)
(* hub/interfaces/web.py call them.                                         *)
(*                                                                         *)
(* Every statement of the repository commits by itself, and requests run in *)
(* threads: a request is a sequence of steps with one statement or one      *)
(* check of a limiter each.  A stored hash is the password it was made from *)
(* and whether its Argon2 parameters are out of date.  Names and passwords  *)
(* here satisfy the policy; others are turned away before anything changes. *)
(* Nothing in the program disables an account, so every account is active.  *)
(***************************************************************************)
EXTENDS RateLimiter, FiniteSets

CONSTANTS
    Users, Clients, Passwords,
    SessionTtl,    \* session_ttl_seconds
    MaxTime,       \* bound on the clock
    MaxSessions,   \* bound on sessions
    MaxCrashes     \* bound on restarts

VARIABLES
    users,         \* [Users -> None or [pw, old]]
    sessions,      \* web_sessions in the order of their creation
    pc, local,
    legacy,        \* the accounts whose hash is out of date at the start
    changer,       \* observation: the session that last changed the password
    cut,           \* observation: the accounts whose change a restart cut off
    crashes

rows == <<users, sessions>>
observed == <<legacy, changer, cut>>
vars == <<limiter, rows, pc, local, observed, crashes>>

AccountKey(u) == <<"account", u>>
ClientKey(c) == <<"client", c>>
SignupKey(c) == <<"signup", c>>

ASSUME AccountsConstants ==
    /\ Keys = {AccountKey(u) : u \in Users}
                 \cup {ClientKey(c) : c \in Clients} \cup {SignupKey(c) : c \in Clients}
    /\ SessionTtl \in Nat
    /\ None \notin Users \cup Clients \cup Passwords
    /\ None \notin [pw : Passwords, old : BOOLEAN] \cup [key : Keys, at : Nat]

Labels == {"idle", "signup", "insert", "account", "admitted", "client", "verify",
             "rehash", "create", "compare", "update", "revoke"}
LogsIn == {"signup", "insert", "account", "admitted", "client", "verify", "rehash", "create"}

NoLocal == [user |-> None, client |-> None, pw |-> None, new |-> None, sid |-> 0]

(* An account exists from the start, or is signed up for. *)
Init ==
    /\ LimiterInit
    /\ \E p \in Passwords, old \in BOOLEAN, U \in SUBSET Users :
          /\ users = [u \in Users |-> IF u \in U THEN [pw |-> p, old |-> old] ELSE None]
          /\ legacy = IF old THEN U ELSE {}
    /\ sessions = <<>>
    /\ pc = [t \in Threads |-> "idle"]
    /\ local = [t \in Threads |-> NoLocal]
    /\ changer = [u \in Users |-> 0]
    /\ cut = {}
    /\ crashes = 0

Goto(t, label) == pc' = [pc EXCEPT ![t] = label] /\ UNCHANGED local
Start(t, label, l) == pc' = [pc EXCEPT ![t] = label] /\ local' = [local EXCEPT ![t] = l]
Return(t) == Start(t, "idle", NoLocal)

Mine(t) == users[local[t].user]

NewUser(p) == [pw |-> p, old |-> FALSE]
SetPassword(u, p) == users' = [users EXCEPT ![u] = NewUser(p)]

(* A row of web_sessions; "pw" and "fresh" are observations: the password the     *)
(* session is opened with, and whether it still is the account's.                 *)
NewSession(t) ==
    [user |-> local[t].user, exp |-> clock + SessionTtl, revoked |-> FALSE,
     pw |-> local[t].pw, fresh |-> Mine(t).pw = local[t].pw]

(* validate_session: the row is there, not revoked and not expired. *)
Live(s) == ~sessions[s].revoked /\ sessions[s].exp >= clock

(* Room for the session of one more login. *)
Room == Len(sessions) + Cardinality({t \in Threads : pc[t] \in LogsIn}) < MaxSessions

---------------------------------------------------------------------------------
(* Sign-up; the page then logs in with the same credentials *)

Signup(t, u, c, p) ==
    /\ pc[t] = "idle" /\ Room
    /\ ReadClock(t, SignupKey(c))
    /\ Start(t, "signup", [NoLocal EXCEPT !.user = u, !.client = c, !.pw = p])
    /\ UNCHANGED <<rows, observed, crashes>>

SignupLimit(t) ==
    /\ pc[t] = "signup"
    /\ Check(t)
    /\ IF Admits(t) THEN Goto(t, "insert") ELSE Return(t)
    /\ UNCHANGED <<rows, observed, crashes>>

(* create_user; a name that is taken is an error of the UNIQUE constraint. *)
Insert(t) ==
    /\ pc[t] = "insert"
    /\ IF Mine(t) # None
       THEN Return(t) /\ UNCHANGED <<users, limiter>>
       ELSE /\ users' = [users EXCEPT ![local[t].user] = NewUser(local[t].pw)]
            /\ ReadClock(t, AccountKey(local[t].user))
            /\ Goto(t, "account")
    /\ UNCHANGED <<sessions, observed, crashes>>

---------------------------------------------------------------------------------
(* Login *)

Login(t, u, c, p) ==
    /\ pc[t] = "idle" /\ Room
    /\ ReadClock(t, AccountKey(u))
    /\ Start(t, "account", [NoLocal EXCEPT !.user = u, !.client = c, !.pw = p])
    /\ UNCHANGED <<rows, observed, crashes>>

AccountLimit(t) ==
    /\ pc[t] = "account"
    /\ Check(t)
    /\ IF Admits(t) THEN Goto(t, "admitted") ELSE Return(t)
    /\ UNCHANGED <<rows, observed, crashes>>

(* The client's limiter is asked only when the account's has admitted. *)
AskClientLimit(t) ==
    /\ pc[t] = "admitted"
    /\ ReadClock(t, ClientKey(local[t].client))
    /\ Goto(t, "client")
    /\ UNCHANGED <<rows, observed, crashes>>

ClientLimit(t) ==
    /\ pc[t] = "client"
    /\ Check(t)
    /\ IF Admits(t) THEN Goto(t, "verify") ELSE Return(t)
    /\ UNCHANGED <<rows, observed, crashes>>

(* _authenticate *)
Verify(t) ==
    /\ pc[t] = "verify"
    /\ IF Mine(t) = None \/ Mine(t).pw # local[t].pw THEN Return(t)
       ELSE Goto(t, IF Mine(t).old THEN "rehash" ELSE "create")
    /\ UNCHANGED <<limiter, rows, observed, crashes>>

(* The password that was verified is hashed again and stored, whatever is there. *)
Rehash(t) ==
    /\ pc[t] = "rehash"
    /\ SetPassword(local[t].user, local[t].pw)
    /\ Goto(t, "create")
    /\ UNCHANGED <<limiter, sessions, observed, crashes>>

Create(t) ==
    /\ pc[t] = "create"
    /\ sessions' = Append(sessions, NewSession(t))
    /\ Return(t)
    /\ UNCHANGED <<limiter, users, observed, crashes>>

---------------------------------------------------------------------------------
(* Requests with a session *)

RevokeSession(s) == sessions' = [sessions EXCEPT ![s].revoked = TRUE]

Logout(t, s) ==
    /\ pc[t] = "idle"
    /\ Live(s)
    /\ RevokeSession(s)
    /\ UNCHANGED <<limiter, users, pc, local, observed, crashes>>

(* Change the password of the session's user. *)
Change(t, s, old, new) ==
    /\ pc[t] = "idle"
    /\ Live(s)
    /\ Start(t, "compare", [NoLocal EXCEPT !.user = sessions[s].user, !.sid = s,
                               !.pw = old, !.new = new])
    /\ UNCHANGED <<limiter, rows, observed, crashes>>

Compare(t) ==
    /\ pc[t] = "compare"
    /\ IF Mine(t).pw = local[t].pw THEN Goto(t, "update") ELSE Return(t)
    /\ UNCHANGED <<limiter, rows, observed, crashes>>

Update(t) ==
    /\ pc[t] = "update"
    /\ SetPassword(local[t].user, local[t].new)
    /\ changer' = [changer EXCEPT ![local[t].user] = local[t].sid]
    /\ Goto(t, "revoke")
    /\ UNCHANGED <<limiter, sessions, legacy, cut, crashes>>

Others(t) == {s \in DOMAIN sessions : sessions[s].user = local[t].user /\ s # local[t].sid}

(* Mutant: only the sessions that were opened before the one that changes. *)
RevokeTheOlder(t) ==
    /\ pc[t] = "revoke"
    /\ sessions' = [s \in DOMAIN sessions |->
                       IF s \in Others(t) /\ s < local[t].sid
                       THEN [sessions[s] EXCEPT !.revoked = TRUE] ELSE sessions[s]]
    /\ cut' = cut \ {local[t].user}
    /\ Return(t)
    /\ UNCHANGED <<limiter, users, legacy, changer, crashes>>

(* revoke_sessions_for_user *)
Revoke(t) ==
    /\ pc[t] = "revoke"
    /\ sessions' = [s \in DOMAIN sessions |->
                       IF s \in Others(t) THEN [sessions[s] EXCEPT !.revoked = TRUE]
                       ELSE sessions[s]]
    /\ cut' = cut \ {local[t].user}
    /\ Return(t)
    /\ UNCHANGED <<limiter, users, legacy, changer, crashes>>

---------------------------------------------------------------------------------
(* The server goes down: requests end where they are, limiters forget. *)
Restart ==
    /\ crashes < MaxCrashes
    /\ crashes' = crashes + 1
    /\ cut' = cut \cup {local[t].user : t \in {x \in Threads : pc[x] = "revoke"}}
    /\ hits' = [k \in Keys |-> <<>>]
    /\ admitted' = [k \in Keys |-> <<>>]
    /\ asked' = [t \in Threads |-> None]
    /\ pc' = [t \in Threads |-> "idle"]
    /\ local' = [t \in Threads |-> NoLocal]
    /\ UNCHANGED <<clock, rows, legacy, changer>>

Passes ==
    /\ clock < MaxTime
    /\ Tick
    /\ UNCHANGED <<rows, pc, local, observed, crashes>>

Request(t) ==
    \/ \E u \in Users, c \in Clients, p \in Passwords : Signup(t, u, c, p) \/ Login(t, u, c, p)
    \/ \E s \in DOMAIN sessions :
          Logout(t, s) \/ \E old, new \in Passwords : Change(t, s, old, new)

Step(t) ==
    \/ SignupLimit(t)
    \/ Insert(t)
    \/ AccountLimit(t)
    \/ AskClientLimit(t)
    \/ ClientLimit(t)
    \/ Verify(t)
    \/ Rehash(t)
    \/ Create(t)
    \/ Compare(t)
    \/ Update(t)
    \/ Revoke(t)

Next == Passes \/ Restart \/ \E t \in Threads : Request(t) \/ Step(t)

Spec == Init /\ [][Next]_vars

---------------------------------------------------------------------------------
(* Properties *)

(* Every variable has its shape; a request past its first steps has an account,  *)
(* and an attempt is being checked exactly at the labels of the limiters          *)
(* (service.py:114-249).                                                          *)
TypeOK ==
    /\ \A u \in Users : users[u] # None => users[u].pw \in Passwords
    /\ \A s \in DOMAIN sessions :
          /\ sessions[s].user \in Users /\ users[sessions[s].user] # None
          /\ sessions[s].exp <= clock + SessionTtl
    /\ \A t \in Threads :
          /\ pc[t] \in Labels
          /\ pc[t] # "idle" => local[t].user \in Users
          /\ pc[t] \in {"rehash", "create", "compare", "update", "revoke"} => Mine(t) # None
          /\ asked[t] # None <=> pc[t] \in {"signup", "account", "client"}
          /\ pc[t] \in {"compare", "update", "revoke"} => local[t].sid \in DOMAIN sessions
    /\ legacy \subseteq Users /\ cut \subseteq Users
    /\ \A u \in Users : changer[u] \in 0..Len(sessions)

(* No change of the password of u is between its two statements, and none was    *)
(* cut off there.                                                                *)
Settled(u) == u \notin cut /\ \A t \in Threads : pc[t] = "revoke" => local[t].user # u

(* Sessions of u that were opened with a password u no longer has, other than     *)
(* the one that changed it.                                                       *)
Outdated(u) ==
    {s \in DOMAIN sessions :
        /\ sessions[s].user = u /\ ~sessions[s].revoked
        /\ sessions[s].pw # users[u].pw /\ s # changer[u]}

(* Whatever logins and changes run side by side: a session opened with a password *)
(* that then was the account's does not outlive a change of it, but for the       *)
(* session that made the change (service.py:247).  Accounts with an outdated hash *)
(* are left out: a rehash may put the old password back.                          *)
OthersAreLoggedOut ==
    \A u \in Users \ legacy :
       Settled(u) => \A s \in Outdated(u) : ~sessions[s].fresh

(* After a change of the password no other session of the account is open that    *)
(* was opened with the old one (service.py:247, web.py:243).                       *)
OldPasswordIsOut == \A u \in Users \ legacy : Settled(u) => Outdated(u) = {}
=================================================================================
