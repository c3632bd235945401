--------------------------------- MODULE Access ---------------------------------
(***************************************************************************)
(* Who may read and write which project: roles and memberships (the tables  *)
(* users, projects and project_members of hub/auth/repository.py), personal *)
(* access tokens, and the short-lived JWTs they are exchanged for, which    *)
(* the MCP server trusts without asking the database again.                 *)
(*                                                                         *)
(* A web request loads its rights afresh (principal_for_user); a JWT        *)
(* carries a copy of them until it expires.  Each statement of the          *)
(* repository commits by itself: a request is a sequence of them.  The      *)
(* limiter of the exchange is that of RateLimiter.tla and left out; so are  *)
(* names and descriptions of projects.                                      *)
(***************************************************************************)
EXTENDS Naturals, Sequences

CONSTANTS
    Users, Projects,
    Default,       \* default_project, open to everyone
    Threads,
    Ttl,           \* access_token_ttl_seconds
    MaxTime,       \* bound on the clock
    MaxPats,       \* bound on personal access tokens
    MaxJwts        \* bound on exchanges

ASSUME AccessConstants == Default \in Projects /\ Ttl \in Nat

VARIABLES
    clock,
    admins,        \* the users with is_admin
    projects,      \* the table projects
    role,          \* [Users -> [Projects -> Roles]], the table project_members
    pats,          \* personal_access_tokens in the order of their creation
    jwts,          \* the access tokens handed out, in order
    pc, local,
    lost,          \* observation: 1 + the time a right was last taken away, or 0
    late           \* observation: memberships added when their project was gone or going

tables == <<admins, projects, role, pats>>
vars == <<clock, tables, jwts, pc, local, lost, late>>

Roles == {"none", "viewer", "editor"}
MemberScopes == {"read", "submit"}
Scopes == MemberScopes \cup {"review"}

Labels == {"idle", "members", "project", "pat", "time", "user", "issue"}
Exchanging == {"pat", "time", "user", "issue"}

---------------------------------------------------------------------------------
(* hub/auth/principal.py: a principal is [admin, scopes, roles] *)

ScopesFor(admin) == IF admin THEN Scopes ELSE MemberScopes

ProjectRole(who, p) == IF who.admin \/ p = Default THEN "editor" ELSE who.roles[p]
CanRead(who, p) == ProjectRole(who, p) # "none"
CanWrite(who, p) == "submit" \in who.scopes /\ ProjectRole(who, p) = "editor"

NoRole == [p \in Projects |-> "none"]

(* Of an administrator the memberships are not read. *)
Memberships(u, admin) == IF admin THEN NoRole ELSE role[u]

(* principal_for_user *)
Current(u) ==
    [admin |-> u \in admins, scopes |-> ScopesFor(u \in admins),
     roles |-> Memberships(u, u \in admins)]

(* What a principal is let do: a read needs the scope next to the membership. *)
AllRights == {"read", "write", "review"} \X Projects
Rights(who) ==
    {r \in AllRights :
        CASE r[1] = "read"   -> "read" \in who.scopes /\ CanRead(who, r[2])
          [] r[1] = "write"  -> CanWrite(who, r[2])
          [] r[1] = "review" -> "review" \in who.scopes /\ CanWrite(who, r[2])}

---------------------------------------------------------------------------------

NoLocal == [project |-> Default, user |-> CHOOSE u \in Users : TRUE,
            pat |-> 0, at |-> 0, admin |-> FALSE, scopes |-> {}]

Init ==
    /\ clock = 0
    /\ admins \in SUBSET Users
    /\ projects = Projects
    /\ role \in [Users -> {r \in [Projects -> {"none", "editor"}] : r[Default] = "none"}]
    /\ pats = <<>>
    /\ jwts = <<>>
    /\ pc = [t \in Threads |-> "idle"]
    /\ local = [t \in Threads |-> NoLocal]
    /\ lost = [u \in Users |-> [r \in AllRights |-> 0]]
    /\ late = {}

Goto(t, label) == pc' = [pc EXCEPT ![t] = label]
Start(t, label, l) == Goto(t, label) /\ local' = [local EXCEPT ![t] = l]
Return(t) == Start(t, "idle", NoLocal)

Passes == clock < MaxTime /\ clock' = clock + 1 /\ UNCHANGED <<tables, jwts, pc, local, late>>

(* set_user_admin, called by hand. *)
SetAdmin(u) ==
    /\ admins' = IF u \in admins THEN admins \ {u} ELSE admins \cup {u}
    /\ UNCHANGED <<clock, projects, role, pats, jwts, pc, local, late>>

---------------------------------------------------------------------------------
(* Projects: the pages of an administrator, who need not be among Users *)

(* create_project; ProjectExists when the slug is taken. *)
Create(p) ==
    /\ projects' = projects \cup {p}
    /\ UNCHANGED <<clock, admins, role, pats, jwts, pc, local, late>>

(* The default project is not deleted. *)
Delete(t, p) ==
    /\ pc[t] = "idle"
    /\ p # Default
    /\ Start(t, "members", [NoLocal EXCEPT !.project = p])
    /\ UNCHANGED <<clock, tables, jwts, late>>

(* Mutant: the project goes first, its members when its row is gone. *)
DeleteMembersLater(t) ==
    /\ pc[t] = "members"
    /\ projects' = projects \ {local[t].project}
    /\ Goto(t, "project")
    /\ UNCHANGED <<clock, admins, role, pats, jwts, local, late>>

(* delete_project: members first, ... *)
DeleteMembers(t) ==
    /\ pc[t] = "members"
    /\ role' = [u \in Users |-> [role[u] EXCEPT ![local[t].project] = "none"]]
    /\ late' = {m \in late : m[2] # local[t].project}
    /\ Goto(t, "project")
    /\ UNCHANGED <<clock, admins, projects, pats, jwts, local>>

(* ... then the project. *)
DeleteProject(t) ==
    /\ pc[t] = "project"
    /\ projects' = projects \ {local[t].project}
    /\ Return(t)
    /\ UNCHANGED <<clock, admins, role, pats, jwts, late>>

Going(p) == p \notin projects \/ \E t \in Threads : pc[t] = "project" /\ local[t].project = p

(* An upsert. *)
SetRole(p, u, r) == role' = [role EXCEPT ![u][p] = r]

(* add_member: nothing asks whether the project exists. *)
AddMember(p, u, r) ==
    /\ SetRole(p, u, r)
    /\ late' = IF Going(p) THEN late \cup {<<u, p>>} ELSE late
    /\ UNCHANGED <<clock, admins, projects, pats, jwts, pc, local>>

RemoveMember(p, u) ==
    /\ role' = [role EXCEPT ![u][p] = "none"]
    /\ late' = late \ {<<u, p>>}
    /\ UNCHANGED <<clock, admins, projects, pats, jwts, pc, local>>

---------------------------------------------------------------------------------
(* Personal access tokens and their exchange *)

NewPat(u, scopes) == [user |-> u, revoked |-> FALSE, scopes |-> scopes]

(* create_pat: no scopes asked for means all the user has. *)
CreatePat(u, asked) ==
    /\ Len(pats) < MaxPats
    /\ pats' = Append(pats, NewPat(u, IF asked = {} THEN ScopesFor(u \in admins) ELSE asked))
    /\ UNCHANGED <<clock, admins, projects, role, jwts, pc, local, late>>

(* revoke_pat: one's own, once. *)
RevokePat(n) ==
    /\ ~pats[n].revoked
    /\ pats' = [pats EXCEPT ![n].revoked = TRUE]
    /\ UNCHANGED <<clock, admins, projects, role, jwts, pc, local, late>>

Exchange(t, n) ==
    /\ pc[t] = "idle"
    /\ Len(jwts) < MaxJwts /\ \A x \in Threads : pc[x] \notin Exchanging
    /\ Start(t, "pat", [NoLocal EXCEPT !.pat = n])
    /\ UNCHANGED <<clock, tables, jwts, late>>

ReadPat(t) ==
    /\ pc[t] = "pat"
    /\ IF pats[local[t].pat].revoked THEN Return(t)
       ELSE Start(t, "time", [local[t] EXCEPT !.user = pats[local[t].pat].user])
    /\ UNCHANGED <<clock, tables, jwts, late>>

(* now_dt, which becomes the token's iat. *)
ReadTime(t) ==
    /\ pc[t] = "time"
    /\ Start(t, "user", [local[t] EXCEPT !.at = clock])
    /\ UNCHANGED <<clock, tables, jwts, late>>

(* Mutant: the scopes of the PAT, whatever has become of its user. *)
ReadUserOnly(t) ==
    /\ pc[t] = "user"
    /\ Start(t, "issue", [local[t] EXCEPT !.admin = local[t].user \in admins,
                             !.scopes = pats[local[t].pat].scopes])
    /\ UNCHANGED <<clock, tables, jwts, late>>

(* The scopes of the token: those of the PAT that the user still has. *)
ReadUser(t) ==
    LET admin == local[t].user \in admins
    IN  /\ pc[t] = "user"
        /\ Start(t, "issue", [local[t] EXCEPT !.admin = admin,
                                 !.scopes = pats[local[t].pat].scopes \cap ScopesFor(admin)])
        /\ UNCHANGED <<clock, tables, jwts, late>>

Signed(t, iat) ==
    [user |-> local[t].user, admin |-> local[t].admin, scopes |-> local[t].scopes,
     roles |-> Memberships(local[t].user, local[t].admin), exp |-> iat + Ttl]

(* Mutant: the time of issue, not that at which the user was read. *)
IssueNow(t) ==
    /\ pc[t] = "issue"
    /\ jwts' = Append(jwts, Signed(t, clock))
    /\ Return(t)
    /\ UNCHANGED <<clock, tables, late>>

(* The memberships are read, the token is signed. *)
Issue(t) ==
    /\ pc[t] = "issue"
    /\ jwts' = Append(jwts, Signed(t, local[t].at))
    /\ Return(t)
    /\ UNCHANGED <<clock, tables, late>>

---------------------------------------------------------------------------------
(* The web server goes down. *)
Restart ==
    /\ \E t \in Threads : pc[t] = "project"
    /\ pc' = [t \in Threads |-> "idle"]
    /\ local' = [t \in Threads |-> NoLocal]
    /\ UNCHANGED <<clock, tables, jwts, late>>

(* Memberships of the default project decide nothing. *)
Manage ==
    \E p \in Projects \ {Default} :
       \/ Create(p)
       \/ \E u \in Users : RemoveMember(p, u)
       \/ \E u \in Users, r \in Roles \ {"none"} : AddMember(p, u, r)

Token ==
    \/ \E u \in Users, asked \in SUBSET MemberScopes : CreatePat(u, asked)
    \/ \E n \in DOMAIN pats : RevokePat(n)

Request(t) ==
    \/ \E p \in Projects : Delete(t, p)
    \/ \E n \in DOMAIN pats : Exchange(t, n)

Step(t) ==
    \/ DeleteMembers(t)
    \/ DeleteProject(t)
    \/ ReadPat(t)
    \/ ReadTime(t)
    \/ ReadUser(t)
    \/ Issue(t)

Act ==
    \/ Passes
    \/ Restart
    \/ \E u \in Users : SetAdmin(u)
    \/ Manage
    \/ Token
    \/ \E t \in Threads : Request(t) \/ Step(t)

Observe ==
    lost' = [u \in Users |->
               LET gone == Rights(Current(u)) \ Rights(Current(u))'
               IN  [r \in AllRights |-> IF r \in gone THEN clock + 1 ELSE lost[u][r]]]

Next == Act /\ Observe

Spec == Init /\ [][Next]_vars

---------------------------------------------------------------------------------
(* Properties *)

(* Every variable has its shape; an exchange under way has its PAT (repository.py *)
(* 283-425).                                                                       *)
TypeOK ==
    /\ admins \subseteq Users /\ projects \subseteq Projects
    /\ role \in [Users -> [Projects -> Roles]]
    /\ \A n \in DOMAIN pats : pats[n].user \in Users /\ pats[n].scopes \subseteq Scopes
    /\ \A n \in DOMAIN jwts :
          /\ jwts[n].scopes \subseteq Scopes /\ jwts[n].exp <= clock + Ttl
          /\ jwts[n].admin \/ "review" \notin jwts[n].scopes
    /\ \A t \in Threads :
          /\ pc[t] \in Labels
          /\ pc[t] \in Exchanging => local[t].pat \in DOMAIN pats
    /\ late \subseteq Users \X Projects

(* A right taken from a user, through a membership, a role or the deletion of a   *)
(* project, is gone from every token within one lifetime of a token, however long *)
(* the exchange took (jwt_service.py:83, 구현스펙-인증인가-RBAC.md:140).            *)
RightsLapse ==
    \A n \in DOMAIN jwts : jwts[n].exp >= clock =>
       \A r \in Rights(jwts[n]) :
          \/ r \in Rights(Current(jwts[n].user))
          \/ lost[jwts[n].user][r] + Ttl > clock

(* A project that is gone has no members left, even if the server went down while *)
(* it was deleted, but for those that were added when it was gone or going         *)
(* (repository.py:376-379).                                                        *)
DeletedWithMembers ==
    \A u \in Users, p \in Projects :
       role[u][p] # "none" /\ p \notin projects => <<u, p>> \in late
=================================================================================
