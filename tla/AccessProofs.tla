------------------------------ MODULE AccessProofs ------------------------------
(***************************************************************************)
(* Access, for any users, projects, threads and lifetime of a token.        *)
(*                                                                         *)
(* A token outlives the rights it was made from, so that it lapses in time  *)
(* is not inductive: TokensInv measures each right from the moment it was   *)
(* read.  An exchange reads the user first and the memberships later;        *)
(* GrantsInv says of one in between, which took its user for an              *)
(* administrator, what the token it will sign has to satisfy.                *)
(***************************************************************************)
EXTENDS Access, SequenceTheorems, TLAPS

---------------------------------------------------------------------------------
(* Type correctness *)

PatRows == [user : Users, revoked : BOOLEAN, scopes : SUBSET Scopes]
Tokens == [user : Users, admin : BOOLEAN, scopes : SUBSET Scopes,
           roles : [Projects -> Roles], exp : Nat]
Locals == [project : Projects, user : Users \cup {NoLocal.user}, pat : Nat, at : Nat,
           admin : BOOLEAN, scopes : SUBSET Scopes]

(* What an exchange knows where it is. *)
PlaceOK(label, l, size, now) ==
    /\ label \in Labels
    /\ l \in Locals
    /\ label \in Exchanging => l.pat \in 1..size
    /\ label \in {"time", "user", "issue"} => l.user \in Users
    /\ label \in {"user", "issue"} => l.at <= now
    /\ label = "issue" => l.scopes \subseteq ScopesFor(l.admin)

TablesOK ==
    /\ admins \subseteq Users /\ projects \subseteq Projects
    /\ role \in [Users -> [Projects -> Roles]]
    /\ pats \in Seq(PatRows)

TokensOK ==
    /\ jwts \in Seq(Tokens)
    /\ \A n \in 1..Len(jwts) :
          /\ jwts[n].exp <= clock + Ttl
          /\ jwts[n].admin \/ "review" \notin jwts[n].scopes

ThreadsOK ==
    /\ pc \in [Threads -> Labels] /\ local \in [Threads -> Locals]
    /\ \A t \in Threads : PlaceOK(pc[t], local[t], Len(pats), clock)

Shapes ==
    /\ clock \in Nat
    /\ TablesOK /\ TokensOK /\ ThreadsOK
    /\ lost \in [Users -> [AllRights -> Nat]]
    /\ late \subseteq Users \X Projects

LEMMA NoLocalOK ==
  ASSUME NEW size \in Nat, NEW now \in Nat
  PROVE  NoLocal \in Locals /\ PlaceOK("idle", NoLocal, size, now)
<1>1. NoLocal \in Locals
  BY AccessConstants DEF NoLocal, Locals
<1> QED BY <1>1 DEF PlaceOK, Labels, Exchanging

LEMMA ShapesGiveTypeOK == Shapes => TypeOK
<1> SUFFICES ASSUME Shapes PROVE TypeOK
  OBVIOUS
<1>1. \A n \in DOMAIN pats : pats[n].user \in Users /\ pats[n].scopes \subseteq Scopes
  <2>1. \A n \in 1..Len(pats) : pats[n] \in PatRows
    BY DEF Shapes, TablesOK
  <2>2. DOMAIN pats = 1..Len(pats)
    BY DEF Shapes, TablesOK
  <2> QED BY <2>1, <2>2 DEF PatRows
<1>2. \A n \in DOMAIN jwts :
         /\ jwts[n].scopes \subseteq Scopes /\ jwts[n].exp <= clock + Ttl
         /\ jwts[n].admin \/ "review" \notin jwts[n].scopes
  <2>1. \A n \in 1..Len(jwts) : jwts[n] \in Tokens
    BY DEF Shapes, TokensOK
  <2> QED BY <2>1 DEF Tokens, Shapes, TokensOK
<1>3. \A t \in Threads : pc[t] \in Labels /\ (pc[t] \in Exchanging => local[t].pat \in DOMAIN pats)
  BY DEF Shapes, ThreadsOK, PlaceOK, TablesOK
<1> QED BY <1>1, <1>2, <1>3 DEF Shapes, TablesOK, TypeOK

(* A thread that goes on is well placed if its new place is, time passes and PATs *)
(* are added.                                                                     *)
LEMMA ThreadsStay ==
  ASSUME Shapes, NEW t \in Threads, NEW label, NEW l, Start(t, label, l),
         clock' \in Nat, clock <= clock', Len(pats') \in Nat, Len(pats) <= Len(pats'),
         PlaceOK(label, l, Len(pats'), clock')
  PROVE  ThreadsOK'
<1>1. /\ pc' \in [Threads -> Labels] /\ local' \in [Threads -> Locals]
      /\ pc'[t] = label /\ local'[t] = l
      /\ \A u \in Threads \ {t} : pc'[u] = pc[u] /\ local'[u] = local[u]
  BY DEF Start, Goto, Shapes, ThreadsOK, PlaceOK
<1>2. \A u \in Threads \ {t} : PlaceOK(pc[u], local[u], Len(pats'), clock')
  BY DEF Shapes, ThreadsOK, PlaceOK, TablesOK, Locals
<1> QED BY <1>1, <1>2 DEF ThreadsOK

LEMMA ThreadsIdle ==
  ASSUME Shapes, UNCHANGED <<pc, local>>,
         clock' \in Nat, clock <= clock', Len(pats') \in Nat, Len(pats) <= Len(pats')
  PROVE  ThreadsOK'
<1>1. \A u \in Threads : PlaceOK(pc[u], local[u], Len(pats'), clock')
  BY DEF Shapes, ThreadsOK, PlaceOK, TablesOK, Locals
<1> QED BY <1>1 DEF ThreadsOK, Shapes

(* What is added to the tables has their shape. *)
LEMMA TablesStep ==
  ASSUME Shapes, Act
  PROVE  TablesOK' /\ late' \subseteq Users \X Projects /\ Len(pats') \in Nat /\ Len(pats) <= Len(pats')
<1> USE DEF Shapes, TablesOK
<1>0. Len(pats) \in Nat
  OBVIOUS
<1>1. CASE UNCHANGED <<tables, late>>
  BY <1>0, <1>1 DEF tables
<1>2. ASSUME NEW u \in Users, SetAdmin(u) PROVE UNCHANGED <<projects, role, pats, late>> /\ admins' \subseteq Users
  BY <1>2 DEF SetAdmin
<1>3. CASE Manage
  <2>1. PICK p \in Projects \ {Default} :
           \/ Create(p)
           \/ \E u \in Users : RemoveMember(p, u)
           \/ \E u \in Users, r \in Roles \ {"none"} : AddMember(p, u, r)
    BY <1>3 DEF Manage
  <2>2. UNCHANGED <<admins, pats>> /\ projects' \subseteq Projects
    BY <2>1 DEF Create, RemoveMember, AddMember
  <2>3. role' \in [Users -> [Projects -> Roles]]
    <3>1. CASE Create(p)
      BY <3>1 DEF Create
    <3>2. CASE \E u \in Users : RemoveMember(p, u)
      BY <3>2 DEF RemoveMember, Roles
    <3>3. CASE \E u \in Users, r \in Roles \ {"none"} : AddMember(p, u, r)
      BY <3>3 DEF AddMember, SetRole
    <3> QED BY <2>1, <3>1, <3>2, <3>3
  <2>4. late' \subseteq Users \X Projects
    BY <2>1 DEF Create, RemoveMember, AddMember
  <2> QED BY <1>0, <2>2, <2>3, <2>4
<1>4. CASE Token
  <2>1. UNCHANGED <<admins, projects, role, late>>
    BY <1>4 DEF Token, CreatePat, RevokePat
  <2>2. CASE \E u \in Users, asked \in SUBSET MemberScopes : CreatePat(u, asked)
    <3>1. PICK u \in Users, asked \in SUBSET MemberScopes : CreatePat(u, asked)
      BY <2>2
    <3> DEFINE scopes == IF asked = {} THEN ScopesFor(u \in admins) ELSE asked
    <3>2. scopes \subseteq Scopes
      BY DEF Scopes, ScopesFor, MemberScopes
    <3> HIDE DEF scopes
    <3>3. NewPat(u, scopes) \in PatRows
      BY <3>2 DEF NewPat, PatRows
    <3>4. pats' = Append(pats, NewPat(u, scopes))
      BY <3>1 DEF CreatePat, scopes
    <3> QED BY <1>0, <2>1, <3>3, <3>4
  <2>3. CASE \E n \in DOMAIN pats : RevokePat(n)
    <3>0. DOMAIN pats = 1..Len(pats)
      OBVIOUS
    <3>1. PICK n \in 1..Len(pats) :
             pats' = [pats EXCEPT ![n] = [pats[n] EXCEPT !.revoked = TRUE]]
      BY <2>3, <3>0 DEF RevokePat
    <3>2. [pats[n] EXCEPT !.revoked = TRUE] \in PatRows
      <4>1. pats[n] \in PatRows
        OBVIOUS
      <4> QED BY <4>1 DEF PatRows
    <3>3. pats' \in Seq(PatRows) /\ Len(pats') = Len(pats)
      BY <3>1, <3>2, ExceptSeq
    <3> QED BY <1>0, <2>1, <3>3
  <2> QED BY <1>4, <2>2, <2>3 DEF Token
<1>5. ASSUME NEW t \in Threads, DeleteMembers(t) \/ DeleteProject(t)
      PROVE  /\ UNCHANGED <<admins, pats>> /\ projects' \subseteq Projects
             /\ role' \in [Users -> [Projects -> Roles]] /\ late' \subseteq late
  <2>1. CASE DeleteProject(t)
    BY <2>1 DEF DeleteProject
  <2>2. CASE DeleteMembers(t)
    <3>1. /\ UNCHANGED <<admins, pats, projects>> /\ late' \subseteq late
          /\ DOMAIN role' = Users
      BY <2>2 DEF DeleteMembers
    <3>2. \A u \in Users : role'[u] \in [Projects -> Roles]
      BY <2>2 DEF DeleteMembers, Roles
    <3>3. role' = [u \in Users |-> role'[u]]
      BY <2>2 DEF DeleteMembers
    <3> QED BY <3>1, <3>2, <3>3
  <2> QED BY <1>5, <2>1, <2>2
<1>6. ASSUME NEW t \in Threads,
             Request(t) \/ ReadPat(t) \/ ReadTime(t) \/ ReadUser(t) \/ Issue(t)
      PROVE  UNCHANGED <<tables, late>>
  BY <1>6 DEF Request, Delete, Exchange, ReadPat, ReadTime, ReadUser, Issue
<1>7. CASE Passes \/ Restart
  BY <1>1, <1>7 DEF Passes, Restart
<1> QED BY <1>0, <1>1, <1>2, <1>3, <1>4, <1>5, <1>6, <1>7 DEF Act, Step

LEMMA TimePasses ==
  ASSUME Shapes, Act
  PROVE  clock' \in Nat /\ clock <= clock'
<1>1. clock' \in {clock, clock + 1}
  <2>1. CASE Passes \/ Restart \/ \E u \in Users : SetAdmin(u)
    BY <2>1 DEF Passes, Restart, SetAdmin
  <2>2. CASE Manage
    BY <2>2 DEF Manage, Create, RemoveMember, AddMember
  <2>3. CASE Token
    BY <2>3 DEF Token, CreatePat, RevokePat
  <2>4. ASSUME NEW t \in Threads, Request(t) \/ Step(t) PROVE clock' = clock
    BY <2>4 DEF Request, Delete, Exchange, Step, DeleteMembers, DeleteProject, ReadPat,
                ReadTime, ReadUser, Issue
  <2> QED BY <2>1, <2>2, <2>3, <2>4 DEF Act
<1> QED BY <1>1 DEF Shapes

(* A thread that issues a token signs one of the shape. *)
LEMMA SignedOK ==
  ASSUME Shapes, NEW t \in Threads, pc[t] = "issue"
  PROVE  /\ Signed(t, local[t].at) \in Tokens
         /\ Signed(t, local[t].at).exp <= clock + Ttl
         /\ Signed(t, local[t].at).admin \/ "review" \notin Signed(t, local[t].at).scopes
<1> USE AccessConstants
<1>1. /\ local[t].user \in Users /\ local[t].at \in Nat /\ local[t].at <= clock
      /\ local[t].admin \in BOOLEAN
      /\ local[t].scopes \subseteq ScopesFor(local[t].admin)
  <2>1. PlaceOK("issue", local[t], Len(pats), clock)
    BY DEF Shapes, ThreadsOK
  <2> QED BY <2>1 DEF PlaceOK, Locals
<1>2. Memberships(local[t].user, local[t].admin) \in [Projects -> Roles]
  BY <1>1 DEF Shapes, TablesOK, Memberships, NoRole, Roles
<1>3. local[t].scopes \subseteq Scopes /\ (local[t].admin \/ "review" \notin local[t].scopes)
  BY <1>1 DEF ScopesFor, Scopes, MemberScopes
<1> QED BY <1>1, <1>2, <1>3 DEF Signed, Tokens, Shapes

LEMMA TokensStep ==
  ASSUME Shapes, Act
  PROVE  /\ TokensOK'
         /\ jwts' = jwts \/ \E t \in Threads : Issue(t)
<1>1. CASE jwts' = jwts
  <2>1. \A n \in 1..Len(jwts) : jwts[n].exp <= clock' + Ttl
    <3>0. \A n \in 1..Len(jwts) : jwts[n] \in Tokens
      BY DEF Shapes, TokensOK
    <3>1. \A n \in 1..Len(jwts) : jwts[n].exp \in Nat
      BY <3>0 DEF Tokens
    <3> QED BY <3>1, AccessConstants, TimePasses DEF Shapes, TokensOK
  <2> QED BY <1>1, <2>1 DEF Shapes, TokensOK
<1>2. ASSUME NEW t \in Threads, Issue(t) PROVE TokensOK'
  <2> DEFINE j == Signed(t, local[t].at)
  <2>1. j \in Tokens /\ j.exp <= clock + Ttl /\ (j.admin \/ "review" \notin j.scopes)
    BY <1>2, SignedOK DEF Issue
  <2>2. jwts' = Append(jwts, j) /\ clock' = clock
    BY <1>2 DEF Issue
  <2> HIDE DEF j
  <2> QED BY <2>1, <2>2 DEF Shapes, TokensOK
<1>3. jwts' = jwts \/ \E t \in Threads : Issue(t)
  <2>1. CASE Passes \/ Restart \/ \E u \in Users : SetAdmin(u)
    BY <2>1 DEF Passes, Restart, SetAdmin
  <2>2. CASE Manage
    BY <2>2 DEF Manage, Create, RemoveMember, AddMember
  <2>3. CASE Token
    BY <2>3 DEF Token, CreatePat, RevokePat
  <2>4. ASSUME NEW t \in Threads, Request(t) \/ Step(t)
        PROVE  jwts' = jwts \/ \E u \in Threads : Issue(u)
    BY <2>4 DEF Request, Delete, Exchange, Step, DeleteMembers, DeleteProject, ReadPat,
                ReadTime, ReadUser
  <2> QED BY <2>1, <2>2, <2>3, <2>4 DEF Act
<1> QED BY <1>1, <1>2, <1>3

(* Where a step of an exchange leads, its thread is well placed. *)
LEMMA ThreadsStep ==
  ASSUME Shapes, Act
  PROVE  ThreadsOK'
<1>0. /\ clock' \in Nat /\ clock <= clock'
      /\ Len(pats') \in Nat /\ Len(pats) <= Len(pats') /\ clock \in Nat /\ Len(pats) \in Nat
  BY TimePasses, TablesStep DEF Shapes, TablesOK
<1>1. CASE UNCHANGED <<pc, local>>
  BY <1>0, <1>1, ThreadsIdle
<1>2. CASE Passes \/ Manage \/ Token \/ \E u \in Users : SetAdmin(u)
  <2>1. UNCHANGED <<pc, local>>
    BY <1>2 DEF Passes, Manage, Create, RemoveMember, AddMember, Token, CreatePat, RevokePat,
                SetAdmin
  <2> QED BY <1>1, <2>1
<1>3. CASE Restart
  BY <1>0, <1>3, NoLocalOK DEF Restart, ThreadsOK, PlaceOK
<1>4. ASSUME NEW t \in Threads, Request(t) \/ Step(t) PROVE ThreadsOK'
  <2>0. PlaceOK(pc[t], local[t], Len(pats), clock) /\ NoLocal \in Locals
    BY <1>0, NoLocalOK DEF Shapes, ThreadsOK
  <2>1. ASSUME Return(t) PROVE ThreadsOK'
    BY <1>0, <2>1, NoLocalOK, ThreadsStay DEF Return
  <2>2. ASSUME NEW p \in Projects, Delete(t, p) PROVE ThreadsOK'
    <3>1. PlaceOK("members", [NoLocal EXCEPT !.project = p], Len(pats'), clock')
      BY <2>0 DEF PlaceOK, Locals, Labels, Exchanging
    <3> QED BY <1>0, <2>2, <3>1, ThreadsStay DEF Delete
  <2>3. ASSUME NEW n \in DOMAIN pats, Exchange(t, n) PROVE ThreadsOK'
    <3>1. n \in 1..Len(pats) /\ Len(pats') = Len(pats)
      BY <2>3 DEF Exchange, tables, Shapes, TablesOK
    <3>2. PlaceOK("pat", [NoLocal EXCEPT !.pat = n], Len(pats'), clock')
      BY <1>0, <2>0, <3>1 DEF PlaceOK, Locals, Labels, Exchanging
    <3> QED BY <1>0, <2>3, <3>2, ThreadsStay DEF Exchange
  <2>4. CASE DeleteMembers(t)
    <3>1. Start(t, "project", local[t])
      BY <2>4 DEF DeleteMembers, Start, Goto, Shapes, ThreadsOK
    <3>2. PlaceOK("project", local[t], Len(pats'), clock')
      BY <2>0 DEF PlaceOK, Labels, Exchanging
    <3> QED BY <1>0, <3>1, <3>2, ThreadsStay
  <2>5. CASE ReadPat(t)
    <3> DEFINE l == [local[t] EXCEPT !.user = pats[local[t].pat].user]
    <3>1. local[t] \in Locals /\ local[t].pat \in 1..Len(pats)
      BY <2>0, <2>5 DEF ReadPat, PlaceOK, Exchanging
    <3>2. pats[local[t].pat] \in PatRows
      BY <3>1 DEF Shapes, TablesOK
    <3>3. l \in Locals /\ l.user \in Users /\ l.pat = local[t].pat
      BY <3>1, <3>2 DEF Locals, PatRows
    <3>4. Len(pats') = Len(pats)
      BY <2>5 DEF ReadPat, tables
    <3>5. Return(t) \/ Start(t, "time", l)
      BY <2>5 DEF ReadPat
    <3> HIDE DEF l
    <3>6. PlaceOK("time", l, Len(pats'), clock')
      BY <3>1, <3>3, <3>4 DEF PlaceOK, Labels, Exchanging
    <3> QED BY <1>0, <2>1, <3>5, <3>6, ThreadsStay
  <2>6. CASE ReadTime(t)
    <3> DEFINE l == [local[t] EXCEPT !.at = clock]
    <3>1. local[t] \in Locals /\ local[t].pat \in 1..Len(pats) /\ local[t].user \in Users
      BY <2>0, <2>6 DEF ReadTime, PlaceOK, Exchanging
    <3>2. l \in Locals /\ l.user \in Users /\ l.pat = local[t].pat /\ l.at = clock
      BY <1>0, <3>1 DEF Locals
    <3>3. Len(pats') = Len(pats) /\ clock' = clock /\ Start(t, "user", l)
      BY <2>6 DEF ReadTime, tables
    <3> HIDE DEF l
    <3>4. PlaceOK("user", l, Len(pats'), clock')
      BY <1>0, <3>1, <3>2, <3>3 DEF PlaceOK, Labels, Exchanging
    <3> QED BY <1>0, <3>3, <3>4, ThreadsStay
  <2>7. CASE ReadUser(t)
    <3> DEFINE admin == local[t].user \in admins
               l == [local[t] EXCEPT !.admin = admin,
                        !.scopes = pats[local[t].pat].scopes \cap ScopesFor(admin)]
    <3>1. /\ local[t] \in Locals /\ local[t].pat \in 1..Len(pats) /\ local[t].user \in Users
          /\ local[t].at <= clock
      BY <2>0, <2>7 DEF ReadUser, PlaceOK, Exchanging
    <3>2. /\ l \in Locals /\ l.user = local[t].user /\ l.pat = local[t].pat /\ l.at = local[t].at
          /\ l.admin = admin /\ l.scopes \subseteq ScopesFor(admin)
      <4>1. admin \in BOOLEAN
        OBVIOUS
      <4>2. ScopesFor(admin) \subseteq Scopes
        BY DEF ScopesFor, Scopes, MemberScopes
      <4> HIDE DEF admin
      <4> QED BY <3>1, <4>1, <4>2 DEF Locals
    <3>3. Len(pats') = Len(pats) /\ clock' = clock /\ Start(t, "issue", l)
      BY <2>7 DEF ReadUser, tables
    <3> HIDE DEF l, admin
    <3>4. PlaceOK("issue", l, Len(pats'), clock')
      BY <3>1, <3>2, <3>3 DEF PlaceOK, Labels, Exchanging
    <3> QED BY <1>0, <3>3, <3>4, ThreadsStay
  <2>8. CASE DeleteProject(t) \/ Issue(t)
    BY <2>1, <2>8 DEF DeleteProject, Issue
  <2> QED BY <1>4, <2>2, <2>3, <2>4, <2>5, <2>6, <2>7, <2>8 DEF Request, Step
<1> QED BY <1>2, <1>3, <1>4 DEF Act

LEMMA ShapesStep == Shapes /\ Next => Shapes'
<1> SUFFICES ASSUME Shapes, Act, Observe PROVE Shapes'
  BY DEF Next
<1>1. lost' \in [Users -> [AllRights -> Nat]]
  BY DEF Observe, Shapes
<1> QED BY <1>1, TimePasses, TablesStep, TokensStep, ThreadsStep DEF Shapes

LEMMA InitShapes == Init => Shapes
<1> SUFFICES ASSUME Init PROVE Shapes
  OBVIOUS
<1>1. TablesOK
  BY DEF Init, TablesOK, Roles
<1>2. TokensOK
  BY DEF Init, TokensOK
<1>3. ThreadsOK
  BY NoLocalOK DEF Init, ThreadsOK, PlaceOK
<1> QED BY <1>1, <1>2, <1>3 DEF Init, Shapes

LEMMA ShapesAlways == Spec => []Shapes
<1>1. Shapes /\ UNCHANGED vars => Shapes'
  BY DEF vars, tables, Shapes, TablesOK, TokensOK, ThreadsOK
<1> QED BY <1>1, InitShapes, ShapesStep, PTL DEF Spec

(* Every reachable state is of the declared shape. *)
THEOREM AccessTypes == Spec => []TypeOK
  BY ShapesAlways, ShapesGiveTypeOK, PTL

---------------------------------------------------------------------------------
(* Rights lapse with the tokens *)

Held == [u \in Users |-> Rights(Current(u))]

(* The user has the right, or lost it so late that a token may still grant it. *)
Granted(held, gone, u, r, until) == r \in held[u] \/ gone[u][r] + Ttl > until

(* Every right of a token was its user's when the token began to live. *)
TokensInv ==
    \A n \in 1..Len(jwts) : \A r \in Rights(jwts[n]) : Granted(Held, lost, jwts[n].user, r, jwts[n].exp)

(* An exchange that met an administrator met one with every right. *)
GrantsInv ==
    \A t \in Threads :
       pc[t] = "issue" /\ local[t].admin =>
          \A r \in AllRights : Granted(Held, lost, local[t].user, r, local[t].at + Ttl)

(* A right that goes is noted. *)
LEMMA GrantStep ==
  ASSUME Shapes, Observe, NEW u \in Users, NEW r \in AllRights, NEW until \in Nat,
         until <= clock + Ttl, Granted(Held, lost, u, r, until)
  PROVE  Granted(Held', lost', u, r, until)
<1>1. lost'[u][r] = IF r \in Held[u] /\ r \notin Held'[u] THEN clock + 1 ELSE lost[u][r]
  BY DEF Observe, Held
<1>2. clock + 1 + Ttl > until
  BY AccessConstants DEF Shapes
<1>3. CASE r \in Held[u]
  BY <1>1, <1>2, <1>3 DEF Granted
<1>4. CASE r \notin Held[u]
  BY <1>1, <1>4 DEF Granted
<1> QED BY <1>3, <1>4

(* An administrator has every right. *)
LEMMA AdminHolds ==
  ASSUME Shapes, NEW u \in admins, NEW r \in AllRights
  PROVE  r \in Held[u]
<1>1. r[1] \in {"read", "write", "review"} /\ r[2] \in Projects
  BY DEF AllRights
<1>2. Current(u).admin /\ Current(u).scopes = Scopes
  BY DEF Current, ScopesFor
<1>3. CanRead(Current(u), r[2]) /\ CanWrite(Current(u), r[2])
  BY <1>2 DEF CanRead, CanWrite, ProjectRole, Scopes, MemberScopes
<1> QED BY <1>1, <1>2, <1>3 DEF Shapes, TablesOK, Held, Rights, Scopes, MemberScopes

(* The memberships of one who is no administrator, with no more than the scopes of *)
(* a member, grant nothing that the user has not.                                  *)
LEMMA MemberHolds ==
  ASSUME Shapes, NEW u \in Users, NEW who \in Tokens, ~who.admin, who.roles = role[u],
         who.scopes \subseteq MemberScopes, NEW r \in Rights(who)
  PROVE  r \in Held[u]
<1>1. r \in AllRights
  BY DEF Rights
<1>2. CASE u \in admins
  BY <1>1, <1>2, AdminHolds
<1>3. CASE u \notin admins
  <2>1. r[1] \in {"read", "write", "review"} /\ r[2] \in Projects
    BY <1>1 DEF AllRights
  <2>2. ~Current(u).admin /\ Current(u).scopes = MemberScopes /\ Current(u).roles = who.roles
    BY <1>3 DEF Current, ScopesFor, Memberships
  <2>3. ProjectRole(Current(u), r[2]) = ProjectRole(who, r[2])
    BY <2>2 DEF ProjectRole
  <2>4. "review" \notin who.scopes
    BY DEF MemberScopes
  <2>5. CASE r[1] = "read"
    BY <1>1, <2>2, <2>3, <2>5 DEF Rights, Held, CanRead, MemberScopes
  <2>6. CASE r[1] = "write"
    BY <1>1, <2>2, <2>3, <2>6 DEF Rights, Held, CanWrite, MemberScopes
  <2>7. CASE r[1] = "review"
    BY <2>4, <2>7 DEF Rights
  <2> QED BY <2>1, <2>5, <2>6, <2>7
<1> QED BY <1>2, <1>3

(* What an exchange signs, its user has or has just lost. *)
LEMMA SignedGranted ==
  ASSUME Shapes, GrantsInv, NEW t \in Threads, pc[t] = "issue",
         NEW r \in Rights(Signed(t, local[t].at))
  PROVE  /\ r \in AllRights /\ local[t].user \in Users /\ local[t].at + Ttl \in Nat
         /\ local[t].at + Ttl <= clock + Ttl
         /\ Granted(Held, lost, local[t].user, r, local[t].at + Ttl)
<1> DEFINE j == Signed(t, local[t].at)
<1>1. j \in Tokens
  BY SignedOK
<1>2. /\ j.user = local[t].user /\ j.admin = local[t].admin /\ j.scopes = local[t].scopes
      /\ j.roles = Memberships(local[t].user, local[t].admin) /\ j.exp = local[t].at + Ttl
  BY DEF Signed
<1>3. PlaceOK("issue", local[t], Len(pats), clock)
  BY DEF Shapes, ThreadsOK
<1>4. local[t].user \in Users /\ local[t].at \in Nat /\ local[t].at <= clock
  BY <1>3 DEF PlaceOK, Locals
<1>5. r \in AllRights
  BY DEF Rights
<1>6. CASE local[t].admin
  <2>1. Granted(Held, lost, local[t].user, r, local[t].at + Ttl)
    BY <1>5, <1>6 DEF GrantsInv
  <2> QED BY <1>4, <1>5, <2>1, AccessConstants DEF Shapes
<1>7. CASE ~local[t].admin
  <2>1. ~j.admin /\ j.roles = role[local[t].user] /\ j.scopes \subseteq MemberScopes
    BY <1>2, <1>3, <1>7 DEF Memberships, PlaceOK, ScopesFor
  <2>2. r \in Rights(j)
    OBVIOUS
  <2> HIDE DEF j
  <2>3. r \in Held[local[t].user]
    BY <1>1, <1>4, <2>1, <2>2, MemberHolds
  <2> QED BY <1>4, <1>5, <2>3, AccessConstants DEF Shapes, Granted
<1> QED BY <1>6, <1>7

(* Who comes to sign a token, or goes on to. *)
LEMMA IssuersStep ==
  ASSUME Shapes, Act, NEW t \in Threads, pc'[t] = "issue"
  PROVE  \/ pc[t] = "issue" /\ local'[t] = local[t]
         \/ /\ pc[t] = "user" /\ UNCHANGED tables
            /\ local'[t].user = local[t].user /\ local'[t].at = local[t].at
            /\ local'[t].admin <=> local[t].user \in admins
<1> USE DEF Shapes, ThreadsOK
<1>1. CASE UNCHANGED <<pc, local>>
  BY <1>1
<1>2. CASE Passes \/ Manage \/ Token \/ \E u \in Users : SetAdmin(u)
  <2>1. UNCHANGED <<pc, local>>
    BY <1>2 DEF Passes, Manage, Create, RemoveMember, AddMember, Token, CreatePat, RevokePat,
                SetAdmin
  <2> QED BY <1>1, <2>1
<1>3. CASE Restart
  BY <1>3 DEF Restart
<1>4. ASSUME NEW u \in Threads, NEW label, label # "issue", Goto(u, label),
             \A x \in Threads \ {u} : local'[x] = local[x]
      PROVE  pc[t] = "issue" /\ local'[t] = local[t]
  BY <1>4 DEF Goto
<1>5. ASSUME NEW u \in Threads, ReadUser(u)
      PROVE  \/ pc[t] = "issue" /\ local'[t] = local[t]
             \/ /\ pc[t] = "user" /\ UNCHANGED tables
                /\ local'[t].user = local[t].user /\ local'[t].at = local[t].at
                /\ local'[t].admin <=> local[t].user \in admins
  <2>1. CASE u = t
    <3>1. local[t] \in Locals
      OBVIOUS
    <3>2. local'[t] = [local[t] EXCEPT !.admin = local[t].user \in admins,
             !.scopes = pats[local[t].pat].scopes \cap ScopesFor(local[t].user \in admins)]
      BY <1>5, <2>1 DEF ReadUser, Start
    <3> QED BY <1>5, <2>1, <3>1, <3>2 DEF ReadUser, Locals
  <2>2. CASE u # t
    BY <1>5, <2>2 DEF ReadUser, Start, Goto
  <2> QED BY <2>1, <2>2
<1>6. ASSUME NEW u \in Threads, (Request(u) \/ Step(u)) /\ ~ReadUser(u)
      PROVE  pc[t] = "issue" /\ local'[t] = local[t]
  <2>1. \E label \in Labels \ {"issue"} :
           Goto(u, label) /\ \A x \in Threads \ {u} : local'[x] = local[x]
    BY <1>6 DEF Request, Delete, Exchange, Step, DeleteMembers, DeleteProject, ReadPat,
                ReadTime, Issue, Return, Start, Labels
  <2> QED BY <1>4, <2>1
<1> QED BY <1>2, <1>3, <1>5, <1>6 DEF Act

LEMMA LapseStep ==
  ASSUME Shapes, GrantsInv, TokensInv, Next
  PROVE  GrantsInv' /\ TokensInv'
<1>0. Act /\ Observe
  BY DEF Next
<1>1. GrantsInv'
  <2> SUFFICES ASSUME NEW t \in Threads, pc'[t] = "issue", local'[t].admin,
                      NEW r \in AllRights
               PROVE  Granted(Held, lost, local[t].user, r, local[t].at + Ttl)'
    BY DEF GrantsInv
  <2>1. pc[t] \in {"user", "issue"} /\ local'[t].user = local[t].user /\ local'[t].at = local[t].at
    BY <1>0, IssuersStep
  <2>2. /\ local[t].user \in Users /\ local[t].at + Ttl \in Nat
        /\ local[t].at + Ttl <= clock + Ttl
    <3>1. PlaceOK(pc[t], local[t], Len(pats), clock)
      BY DEF Shapes, ThreadsOK
    <3>2. local[t].user \in Users /\ local[t].at \in Nat /\ local[t].at <= clock
      BY <2>1, <3>1 DEF PlaceOK, Locals
    <3> QED BY <3>2, AccessConstants DEF Shapes
  <2>3. Granted(Held, lost, local[t].user, r, local[t].at + Ttl)
    <3>1. CASE pc[t] = "issue"
      BY <1>0, <3>1, IssuersStep DEF GrantsInv
    <3>2. CASE pc[t] = "user"
      <4>1. local[t].user \in admins
        BY <1>0, <3>2, IssuersStep
      <4> QED BY <4>1, AdminHolds DEF Granted
    <3> QED BY <2>1, <3>1, <3>2
  <2>4. Granted(Held', lost', local[t].user, r, local[t].at + Ttl)
    BY <1>0, <2>2, <2>3, GrantStep
  <2> QED BY <2>1, <2>4
<1>2. TokensInv'
  <2>1. ASSUME NEW n \in 1..Len(jwts), NEW r \in Rights(jwts[n])
        PROVE  Granted(Held', lost', jwts[n].user, r, jwts[n].exp)
    <3>1. jwts[n].user \in Users /\ jwts[n].exp \in Nat
      <4>1. jwts[n] \in Tokens
        BY DEF Shapes, TokensOK
      <4> QED BY <4>1 DEF Tokens
    <3>2. jwts[n].exp <= clock + Ttl /\ Granted(Held, lost, jwts[n].user, r, jwts[n].exp)
      BY DEF Shapes, TokensOK, TokensInv
    <3>3. r \in AllRights
      BY DEF Rights
    <3> QED BY <1>0, <3>1, <3>2, <3>3, GrantStep
  <2>2. CASE jwts' = jwts
    BY <2>1, <2>2 DEF TokensInv
  <2>3. ASSUME NEW t \in Threads, Issue(t) PROVE TokensInv'
    <3> DEFINE j == Signed(t, local[t].at)
    <3>1. ASSUME NEW r \in Rights(j) PROVE Granted(Held', lost', j.user, r, j.exp)
      <4>1. j.user = local[t].user /\ j.exp = local[t].at + Ttl
        BY DEF Signed
      <4>2. pc[t] = "issue"
        BY <2>3 DEF Issue
      <4>3. /\ r \in AllRights /\ local[t].user \in Users /\ local[t].at + Ttl \in Nat
            /\ local[t].at + Ttl <= clock + Ttl
            /\ Granted(Held, lost, local[t].user, r, local[t].at + Ttl)
        BY <3>1, <4>2, SignedGranted
      <4>4. Granted(Held', lost', local[t].user, r, local[t].at + Ttl)
        BY <1>0, <4>3, GrantStep
      <4> QED BY <4>1, <4>4
    <3>2. jwts' = Append(jwts, j) /\ j \in Tokens
      BY <2>3, SignedOK DEF Issue
    <3> HIDE DEF j
    <3>3. /\ Len(jwts') = Len(jwts) + 1 /\ Len(jwts) \in Nat
          /\ \A n \in 1..Len(jwts) : jwts'[n] = jwts[n]
          /\ jwts'[Len(jwts) + 1] = j
      BY <3>2 DEF Shapes, TokensOK
    <3>4. \A n \in 1..Len(jwts') : n \in 1..Len(jwts) \/ n = Len(jwts) + 1
      BY <3>3
    <3> QED BY <2>1, <3>1, <3>3, <3>4 DEF TokensInv
  <2> QED BY <1>0, <2>2, <2>3, TokensStep
<1> QED BY <1>1, <1>2

(* Whatever is taken from a user while tokens are exchanged and issued, a token that *)
(* still grants a right a lifetime after it was taken has expired                    *)
(* (jwt_service.py:83).                                                              *)
THEOREM RightsLapseInTime == Spec => []RightsLapse
<1>1. Init => GrantsInv /\ TokensInv
  BY DEF Init, GrantsInv, TokensInv
<1>2. Shapes /\ GrantsInv /\ TokensInv /\ [Next]_vars => GrantsInv' /\ TokensInv'
  <2>1. CASE UNCHANGED vars
    <3>1. UNCHANGED <<Held, lost, jwts, pc, local>>
      BY <2>1 DEF vars, tables, Held, Rights, CanRead, CanWrite, ProjectRole, Current,
                  Memberships
    <3> QED BY <3>1 DEF GrantsInv, TokensInv
  <2> QED BY <2>1, LapseStep
<1>3. Shapes /\ TokensInv => RightsLapse
  <2> SUFFICES ASSUME Shapes, TokensInv, NEW n \in DOMAIN jwts, jwts[n].exp >= clock,
                      NEW r \in Rights(jwts[n]), r \notin Rights(Current(jwts[n].user))
               PROVE  lost[jwts[n].user][r] + Ttl > clock
    BY DEF RightsLapse
  <2>1. n \in 1..Len(jwts)
    BY DEF Shapes, TokensOK
  <2>2. jwts[n] \in Tokens
    BY <2>1 DEF Shapes, TokensOK
  <2>3. jwts[n].user \in Users /\ jwts[n].exp \in Nat /\ r \in AllRights
    BY <2>2 DEF Tokens, Rights
  <2>4. lost[jwts[n].user][r] + Ttl > jwts[n].exp
    BY <2>1, <2>3 DEF TokensInv, Granted, Held
  <2>5. lost[jwts[n].user][r] \in Nat
    BY <2>3 DEF Shapes
  <2> QED BY <2>3, <2>4, <2>5, AccessConstants DEF Shapes
<1> QED BY <1>1, <1>2, <1>3, ShapesAlways, PTL DEF Spec

---------------------------------------------------------------------------------
(* Projects go with their members *)

(* As early as the members of a project are deleted, it has none. *)
GoingInv ==
    \A u \in Users, p \in Projects : role[u][p] # "none" /\ Going(p) => <<u, p>> \in late

(* What keeps the tables keeps this, as long as nobody comes to delete a project. *)
LEMMA GoingStays ==
  ASSUME Shapes, GoingInv, \A p \in Projects : Going(p)' => Going(p),
         \A u \in Users, p \in Projects : role'[u][p] # "none" => role'[u][p] = role[u][p],
         \A u \in Users, p \in Projects :
            <<u, p>> \in late /\ <<u, p>> \notin late' => role'[u][p] = "none"
  PROVE  GoingInv'
  BY DEF GoingInv

LEMMA GoingStep ==
  ASSUME Shapes, GoingInv, Act
  PROVE  GoingInv'
<1> USE DEF Shapes, TablesOK, ThreadsOK
<1>1. ASSUME UNCHANGED <<projects, role, late>>,
             \A t \in Threads : pc'[t] = "project" => pc[t] = "project" /\ local'[t] = local[t]
      PROVE  GoingInv'
  BY <1>1, GoingStays DEF Going
<1>2. CASE Passes \/ Token \/ Restart \/ \E u \in Users : SetAdmin(u)
  <2>1. UNCHANGED <<projects, role, late>>
    BY <1>2 DEF Passes, tables, Token, CreatePat, RevokePat, Restart, SetAdmin
  <2>2. \A t \in Threads : pc'[t] = "project" => pc[t] = "project" /\ local'[t] = local[t]
    BY <1>2 DEF Passes, Token, CreatePat, RevokePat, Restart, SetAdmin
  <2> QED BY <1>1, <2>1, <2>2
<1>3. ASSUME NEW t \in Threads, Request(t) \/ ReadPat(t) \/ ReadTime(t) \/ ReadUser(t) \/ Issue(t)
      PROVE  GoingInv'
  <2>1. UNCHANGED <<projects, role, late>>
    BY <1>3 DEF Request, Delete, Exchange, ReadPat, ReadTime, ReadUser, Issue, tables
  <2>2. \E label \in Labels \ {"project"} : \E l : Start(t, label, l)
    BY <1>3 DEF Request, Delete, Exchange, ReadPat, ReadTime, ReadUser, Issue, Return, Labels
  <2> QED BY <1>1, <2>1, <2>2 DEF Start, Goto
<1>4. ASSUME NEW p \in Projects, Create(p) PROVE GoingInv'
  <2>1. projects \subseteq projects' /\ UNCHANGED <<role, late, pc, local>>
    BY <1>4 DEF Create
  <2> QED BY <2>1, GoingStays DEF Going
<1>5. ASSUME NEW p \in Projects, NEW u \in Users, RemoveMember(p, u) PROVE GoingInv'
  <2>1. UNCHANGED <<projects, pc, local>> /\ late' = late \ {<<u, p>>}
    BY <1>5 DEF RemoveMember
  <2>2. role'[u][p] = "none"
        /\ \A v \in Users, q \in Projects : <<v, q>> # <<u, p>> => role'[v][q] = role[v][q]
    BY <1>5 DEF RemoveMember
  <2> QED BY <2>1, <2>2 DEF GoingInv, Going
<1>6. ASSUME NEW p \in Projects, NEW u \in Users, NEW r \in Roles, AddMember(p, u, r)
      PROVE  GoingInv'
  <2>1. UNCHANGED <<projects, pc, local>>
        /\ late' = IF Going(p) THEN late \cup {<<u, p>>} ELSE late
    BY <1>6 DEF AddMember
  <2>2. \A v \in Users, q \in Projects : <<v, q>> # <<u, p>> => role'[v][q] = role[v][q]
    BY <1>6 DEF AddMember, SetRole
  <2>3. \A q \in Projects : Going(q)' <=> Going(q)
    BY <2>1 DEF Going
  <2> QED BY <2>1, <2>2, <2>3 DEF GoingInv
<1>7. ASSUME NEW t \in Threads, DeleteMembers(t) PROVE GoingInv'
  <2> DEFINE gone == local[t].project
  <2>1. UNCHANGED <<projects, local>> /\ late' = {m \in late : m[2] # gone}
    BY <1>7 DEF DeleteMembers
  <2>2. gone \in Projects
    BY DEF Locals
  <2>3. \A u \in Users, p \in Projects :
           role'[u][p] = IF p = gone THEN "none" ELSE role[u][p]
    BY <1>7, <2>2 DEF DeleteMembers
  <2>4. \A p \in Projects \ {gone} : Going(p)' => Going(p)
    BY <1>7, <2>1 DEF DeleteMembers, Goto, Going
  <2>5. \A u \in Users, p \in Projects \ {gone} : <<u, p>> \in late => <<u, p>> \in late'
    BY <2>1
  <2> HIDE DEF gone
  <2> QED BY <2>3, <2>4, <2>5 DEF GoingInv
<1>8. ASSUME NEW t \in Threads, DeleteProject(t) PROVE GoingInv'
  <2>1. /\ pc[t] = "project" /\ projects' = projects \ {local[t].project}
        /\ UNCHANGED <<role, late>>
        /\ \A u \in Threads : pc'[u] = "project" => pc[u] = "project" /\ local'[u] = local[u]
    BY <1>8 DEF DeleteProject, Return, Start, Goto
  <2>2. \A p \in Projects : Going(p)' => Going(p)
    BY <2>1 DEF Going
  <2> QED BY <2>1, <2>2, GoingStays
<1> QED BY <1>2, <1>3, <1>4, <1>5, <1>6, <1>7, <1>8 DEF Act, Manage, Step

(* Members are deleted before their project: wherever the server goes down, a     *)
(* project that is gone has only the members that were added since its deletion   *)
(* began (repository.py:376-379).                                                  *)
THEOREM MembersGoFirst == Spec => []DeletedWithMembers
<1>1. Init => GoingInv
  BY DEF Init, GoingInv, Going
<1>2. Shapes /\ GoingInv /\ [Next]_vars => GoingInv'
  <2>1. CASE UNCHANGED vars
    BY <2>1 DEF vars, tables, GoingInv, Going
  <2> QED BY <2>1, GoingStep DEF Next
<1>3. GoingInv => DeletedWithMembers
  BY DEF GoingInv, DeletedWithMembers, Going
<1> QED BY <1>1, <1>2, <1>3, ShapesAlways, PTL DEF Spec
=================================================================================
