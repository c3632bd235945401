---------------------------- MODULE AccountsProofs ----------------------------
(***************************************************************************)
(* The limiter, for any keys, limits and window, and accounts, for any      *)
(* number of accounts, clients, threads and restarts:                       *)
(* type correctness, the limits of the login, and that a change of the      *)
(* password ends what was opened with the old one.                          *)
(*                                                                         *)
(* The last is not inductive: between the two statements of a change the    *)
(* sessions of the old password are still open.  ChangesInv says that each  *)
(* of them has a thread that is about to revoke it, which also holds of a   *)
(* session whose own change is under way while another one crosses it, and  *)
(* there even if an earlier change was cut off.                             *)
(***************************************************************************)
EXTENDS Accounts, SequenceTheorems, WellFoundedInduction, TLAPS

---------------------------------------------------------------------------------
(* The limiter: what a queue has forgotten left it for a reason.  LimiterInv says  *)
(* that the attempts no longer in the queue have been outside the window at some   *)
(* time, hence are for ever, and that the others are the last of those admitted,   *)
(* at most MaxOf[k].                                                               *)

Attempts == [key : Keys, at : Nat]
Admissions == [read : Nat, done : Nat]

LimiterTypes ==
    /\ clock \in Nat
    /\ hits \in [Keys -> Seq(Nat)]
    /\ admitted \in [Keys -> Seq(Admissions)]
    /\ \A t \in Threads : asked[t] # None => asked[t] \in Attempts /\ asked[t].at <= clock
    /\ DOMAIN asked = Threads

(* Of the attempts that were admitted in the past the queue has the last, and what  *)
(* it has forgotten is out of the window now.                                       *)
Fits(past, queue, now, max) ==
    /\ Len(queue) <= Len(past)
    /\ Len(queue) <= max
    /\ \A n \in 1..Len(queue) : queue[n] = past[Len(past) - Len(queue) + n].read
    /\ \A i \in 1..Len(past) - Len(queue) : past[i].read + Window < now

Limited(past, max) ==
    \A i \in 1..Len(past) : i + max <= Len(past) => past[i].read + Window < past[i + max].done

LimiterInv ==
    /\ LimiterTypes
    /\ \A k \in Keys : Fits(admitted[k], hits[k], clock, MaxOf[k])
    /\ \A k \in Keys : Limited(admitted[k], MaxOf[k])

(* A set of naturals that is not empty has a least element. *)
LEMMA LeastNatural ==
    ASSUME NEW S \in SUBSET Nat, S # {}
    PROVE  \E n \in S : \A m \in S : n <= m
<1>1. PICK n \in S : \A m \in S : ~(<<m, n>> \in OpToRel(<, Nat))
  BY WFMin, NatLessThanWellFounded, Zenon
<1>2. \A m \in S : <<m, n>> \in Nat \X Nat
  OBVIOUS
<1>3. \A m \in S : ~(m < n)
  BY <1>1, <1>2 DEF OpToRel
<1>4. \A m \in S : n <= m
  BY <1>3
<1> QED
  BY <1>4

(* What popleft removes: nothing that is in the window, and of the rest only as   *)
(* long as the queue begins with it.                                              *)
LEMMA DroppedIsLeast ==
    ASSUME NEW queue \in Seq(Nat), NEW now \in Nat
    PROVE  /\ Dropped(queue, now) \in 0..Len(queue)
           /\ \A n \in 1..Dropped(queue, now) : queue[n] + Window < now
<1> DEFINE d == Dropped(queue, now)
<1>1. Stops(queue, now) \in SUBSET Nat /\ Len(queue) \in Stops(queue, now)
  BY DEF Stops
<1>2. \E n \in Stops(queue, now) : \A m \in Stops(queue, now) : n <= m
  BY <1>1, LeastNatural
<1>3. d \in Stops(queue, now) /\ \A m \in Stops(queue, now) : d <= m
  BY <1>2, Zenon DEF Dropped
<1>4. d \in 0..Len(queue)
  BY <1>3 DEF Stops
<1>5. ASSUME NEW n \in 1..d PROVE queue[n] + Window < now
  <2>1. n - 1 \in 0..Len(queue) /\ n \in 1..Len(queue) /\ ~(d <= n - 1)
    BY <1>4
  <2>2. n - 1 \notin Stops(queue, now)
    BY <1>3, <2>1
  <2>3. ~(queue[(n - 1) + 1] + Window >= now)
    BY <2>1, <2>2 DEF Stops
  <2>4. queue[n] \in Nat
    BY <2>1
  <2> QED
    BY <2>1, <2>3, <2>4, LimiterConstants
<1> QED
  BY <1>4, <1>5

(* The queue that a check leaves behind, before it records the attempt. *)
LEMMA KeptIsSuffix ==
    ASSUME NEW queue \in Seq(Nat), NEW now \in Nat
    PROVE  /\ Kept(queue, now) \in Seq(Nat)
           /\ Len(Kept(queue, now)) = Len(queue) - Dropped(queue, now)
           /\ \A n \in 1..Len(Kept(queue, now)) :
                 Kept(queue, now)[n] = queue[Dropped(queue, now) + n]
<1> DEFINE d == Dropped(queue, now)
<1>1. d \in 0..Len(queue)
  BY DroppedIsLeast
<1>2. /\ Kept(queue, now) \in Seq(Nat)
      /\ Len(Kept(queue, now)) = IF d + 1 <= Len(queue) THEN Len(queue) - (d + 1) + 1 ELSE 0
      /\ \A n \in 1..Len(queue) - (d + 1) + 1 : Kept(queue, now)[n] = queue[d + 1 + n - 1]
  <2> HIDE DEF d
  <2>1. d + 1 \in Int /\ Len(queue) \in Int /\ \A i \in d + 1..Len(queue) : queue[i] \in Nat
    BY <1>1
  <2>2. Kept(queue, now) = SubSeq(queue, d + 1, Len(queue))
    BY Zenon DEF Kept, d
  <2> QED
    BY <2>1, <2>2, SubSeqProperties
<1>3. \A n \in 1..Len(Kept(queue, now)) : d + 1 + n - 1 = d + n
  BY <1>1, <1>2
<1> QED
  BY <1>1, <1>2, <1>3

(* A check drops only what is out of the window. *)
LEMMA KeptFits ==
    ASSUME NEW past \in Seq(Admissions), NEW queue \in Seq(Nat), NEW now \in Nat,
           NEW at \in Nat, at <= now, NEW max \in Nat \ {0}, Fits(past, queue, now, max)
    PROVE  Fits(past, Kept(queue, at), now, max)
<1>1. PICK kept \in Seq(Nat) : kept = Kept(queue, at)
  BY KeptIsSuffix
<1>2. PICK d \in 0..Len(queue) : d = Dropped(queue, at)
  BY DroppedIsLeast
<1>3. /\ Len(kept) = Len(queue) - d
      /\ \A n \in 1..Len(kept) : kept[n] = queue[d + n]
      /\ \A n \in 1..d : queue[n] + Window < at
  <2>1. /\ Len(Kept(queue, at)) = Len(queue) - Dropped(queue, at)
        /\ \A n \in 1..Len(Kept(queue, at)) :
              Kept(queue, at)[n] = queue[Dropped(queue, at) + n]
    BY KeptIsSuffix
  <2>2. \A n \in 1..Dropped(queue, at) : queue[n] + Window < at
    BY DroppedIsLeast
  <2> QED
    BY <1>1, <1>2, <2>1, <2>2, Zenon
<1> DEFINE gone == Len(past) - Len(queue)
<1>4. /\ gone \in Nat /\ Len(past) - Len(kept) = gone + d
      /\ \A n \in 1..Len(queue) : queue[n] = past[gone + n].read
      /\ \A i \in 1..gone : past[i].read + Window < now
      /\ Len(kept) <= Len(past) /\ Len(kept) <= max
  <2>1. Len(past) \in Nat /\ Len(queue) \in Nat /\ Len(queue) <= Len(past) /\ Len(queue) <= max
    BY DEF Fits
  <2>2. Len(kept) = Len(queue) - d /\ d \in 0..Len(queue)
    BY <1>3
  <2>3. /\ \A n \in 1..Len(queue) : queue[n] = past[gone + n].read
        /\ \A i \in 1..gone : past[i].read + Window < now
    BY Zenon DEF Fits
  <2> QED
    BY <2>1, <2>2, <2>3
<1> HIDE DEF gone
<1>5. \A n \in 1..Len(kept) : kept[n] = past[(gone + d) + n].read
  <2> SUFFICES ASSUME NEW n \in 1..Len(kept) PROVE kept[n] = past[(gone + d) + n].read
    OBVIOUS
  <2>1. d + n \in 1..Len(queue) /\ gone + (d + n) = (gone + d) + n
    BY <1>3, <1>4
  <2>2. queue[d + n] = past[gone + (d + n)].read
    BY <2>1, <1>4
  <2> QED
    BY <2>1, <2>2, <1>3
<1>6. \A i \in 1..gone + d : past[i].read + Window < now
  <2> SUFFICES ASSUME NEW i \in 1..gone + d PROVE past[i].read + Window < now
    OBVIOUS
  <2>1. CASE i <= gone
    BY <2>1, <1>4
  <2>2. CASE i > gone
    <3>1. PICK n \in 1..d : i = gone + n
      <4>1. i - gone \in 1..d /\ i = gone + (i - gone)
        BY <2>2, <1>4
      <4> QED
        BY <4>1
    <3>2. n \in 1..Len(queue) /\ queue[n] \in Nat /\ queue[n] = past[i].read
      BY <3>1, <1>4
    <3>3. queue[n] + Window < at
      BY <3>1, <1>3
    <3> QED
      BY <3>2, <3>3, LimiterConstants
  <2> QED
    BY <2>1, <2>2, <1>4
<1>7. Fits(past, kept, now, max)
  BY <1>4, <1>5, <1>6 DEF Fits
<1> QED
  BY <1>1, <1>7

(* An attempt that is admitted follows less than max others in the queue, so the   *)
(* one max before it has been forgotten.                                            *)
LEMMA AdmittedFits ==
    ASSUME NEW past \in Seq(Admissions), NEW queue \in Seq(Nat), NEW now \in Nat,
           NEW at \in Nat, NEW max \in Nat \ {0},
           Fits(past, queue, now, max), Limited(past, max), Len(queue) < max
    PROVE  /\ Fits(Append(past, [read |-> at, done |-> now]), Append(queue, at), now, max)
           /\ Limited(Append(past, [read |-> at, done |-> now]), max)
<1>1. PICK new \in Admissions : new = [read |-> at, done |-> now]
  BY DEF Admissions
<1>2. PICK past2 \in Seq(Admissions) :
          /\ past2 = Append(past, new)
          /\ Len(past2) = Len(past) + 1
          /\ \A i \in 1..Len(past) : past2[i] = past[i]
          /\ past2[Len(past) + 1] = new
  BY AppendProperties
<1>3. PICK queue2 \in Seq(Nat) :
          /\ queue2 = Append(queue, at)
          /\ Len(queue2) = Len(queue) + 1
          /\ \A n \in 1..Len(queue) : queue2[n] = queue[n]
          /\ queue2[Len(queue) + 1] = at
  BY AppendProperties
<1>4. /\ Len(past) \in Nat /\ Len(queue) \in Nat /\ Len(queue) <= Len(past)
      /\ \A i \in 1..Len(past) : past[i].read \in Nat
  <2>1. \A i \in 1..Len(past) : past[i] \in Admissions
    BY ElementOfSeq
  <2>2. Len(queue) <= Len(past)
    BY DEF Fits
  <2> QED
    BY <2>1, <2>2, LenProperties DEF Admissions
<1>5. PICK gone \in Nat : gone = Len(past) - Len(queue) /\ gone = Len(past2) - Len(queue2)
  <2>1. /\ Len(past) - Len(queue) \in Nat
        /\ Len(past) - Len(queue) = Len(past2) - Len(queue2)
    BY <1>2, <1>3, <1>4
  <2> QED
    BY <2>1, Zenon
<1>6. \A n \in 1..Len(queue2) : queue2[n] = past2[gone + n].read
  <2> SUFFICES ASSUME NEW n \in 1..Len(queue2) PROVE queue2[n] = past2[gone + n].read
    OBVIOUS
  <2>1. CASE n \in 1..Len(queue)
    <3>1. gone + n \in 1..Len(past)
      BY <2>1, <1>4, <1>5
    <3>2. queue[n] = past[gone + n].read
      BY <2>1, <1>5 DEF Fits
    <3> QED
      BY <2>1, <3>1, <3>2, <1>2, <1>3
  <2>2. CASE n = Len(queue) + 1
    <3>1. gone + n = Len(past) + 1
      BY <2>2, <1>4, <1>5
    <3> QED
      BY <2>2, <3>1, <1>1, <1>2, <1>3
  <2> QED
    BY <2>1, <2>2, <1>3, <1>4
<1>7. \A i \in 1..gone : i \in 1..Len(past) /\ past2[i].read + Window < now
  <2> SUFFICES ASSUME NEW i \in 1..gone
               PROVE  i \in 1..Len(past) /\ past2[i].read + Window < now
    OBVIOUS
  <2>1. i \in 1..Len(past)
    BY <1>4, <1>5
  <2>2. past[i].read + Window < now
    BY <1>5 DEF Fits
  <2> QED
    BY <2>1, <2>2, <1>2
<1>8. Fits(past2, queue2, now, max)
  <2>1. /\ Len(queue2) <= Len(past2) /\ Len(queue2) <= max
        /\ Len(past2) - Len(queue2) = gone
    BY <1>2, <1>3, <1>4, <1>5
  <2> QED
    BY <2>1, <1>6, <1>7, Zenon DEF Fits
<1>9. Limited(past2, max)
  <2> SUFFICES ASSUME NEW i \in 1..Len(past2), i + max <= Len(past2)
               PROVE  past2[i].read + Window < past2[i + max].done
    BY DEF Limited
  <2>1. CASE i + max <= Len(past)
    <3>1. i \in 1..Len(past) /\ i + max \in 1..Len(past)
      BY <2>1, <1>4
    <3> QED
      BY <2>1, <3>1, <1>2 DEF Limited
  <2>2. CASE i + max = Len(past) + 1
    <3>1. i \in 1..gone
      BY <2>2, <1>4, <1>5
    <3> QED
      BY <2>2, <3>1, <1>1, <1>2, <1>7
  <2>3. Len(past2) = Len(past) + 1 /\ Len(past) \in Nat
    BY <1>2, <1>4
  <2> QED
    BY <2>1, <2>2, <2>3
<1> QED
  BY <1>1, <1>2, <1>3, <1>8, <1>9

LEMMA LimiterStarts == LimiterInit => LimiterInv
<1> SUFFICES ASSUME LimiterInit PROVE LimiterInv
  OBVIOUS
<1>1. \A k \in Keys : hits[k] = <<>> /\ admitted[k] = <<>> /\ MaxOf[k] \in Nat
  BY LimiterConstants DEF LimiterInit
<1>2. \A max \in Nat : Fits(<<>>, <<>>, clock, max) /\ Limited(<<>>, max)
  BY DEF Fits, Limited
<1>3. LimiterTypes
  BY DEF LimiterInit, LimiterTypes
<1> QED
  BY <1>1, <1>2, <1>3 DEF LimiterInv

(* Time only takes attempts further out of the window. *)
LEMMA TickKeeps == LimiterInv /\ Tick => LimiterInv'
<1> SUFFICES ASSUME LimiterInv, Tick PROVE LimiterInv'
  OBVIOUS
<1>1. LimiterTypes'
  <2>1. ASSUME NEW t \in Threads, asked[t] # None
        PROVE  asked[t] \in Attempts /\ asked[t].at <= clock + 1
    BY <2>1 DEF LimiterInv, LimiterTypes, Attempts
  <2> QED
    BY <2>1 DEF LimiterInv, LimiterTypes, Tick
<1>2. ASSUME NEW k \in Keys PROVE Fits(admitted[k], hits[k], clock + 1, MaxOf[k])
  <2>1. /\ clock \in Nat /\ Window \in Nat /\ Len(admitted[k]) \in Nat /\ Len(hits[k]) \in Nat
        /\ \A i \in 1..Len(admitted[k]) : admitted[k][i].read \in Nat
    <3>1. admitted[k] \in Seq(Admissions) /\ hits[k] \in Seq(Nat)
      BY DEF LimiterInv, LimiterTypes
    <3>2. \A i \in 1..Len(admitted[k]) : admitted[k][i] \in Admissions
      BY <3>1, ElementOfSeq
    <3> QED
      BY <3>1, <3>2, LenProperties, LimiterConstants DEF LimiterInv, LimiterTypes, Admissions
  <2>2. /\ Len(hits[k]) <= Len(admitted[k]) /\ Len(hits[k]) <= MaxOf[k]
        /\ \A n \in 1..Len(hits[k]) :
              hits[k][n] = admitted[k][Len(admitted[k]) - Len(hits[k]) + n].read
        /\ \A i \in 1..Len(admitted[k]) - Len(hits[k]) : admitted[k][i].read + Window < clock
    BY Zenon DEF LimiterInv, Fits
  <2>3. ASSUME NEW i \in 1..Len(admitted[k]) - Len(hits[k])
        PROVE  admitted[k][i].read + Window < clock + 1
    <3>1. i \in 1..Len(admitted[k])
      BY <2>1
    <3> QED
      BY <3>1, <2>1, <2>2
  <2> QED
    BY <2>2, <2>3, Zenon DEF Fits
<1> QED
  BY <1>1, <1>2 DEF LimiterInv, Tick

LEMMA ReadClockKeeps ==
    ASSUME LimiterInv, NEW t \in Threads, NEW key \in Keys, ReadClock(t, key)
    PROVE  LimiterInv'
<1>1. LimiterTypes'
  BY DEF LimiterInv, LimiterTypes, Attempts, ReadClock
<1> QED
  BY <1>1 DEF LimiterInv, ReadClock

LEMMA CheckKeeps ==
    ASSUME LimiterInv, NEW t \in Threads, Check(t)
    PROVE  LimiterInv'
<1>1. PICK key \in Keys, at \in Nat : asked[t].key = key /\ asked[t].at = at /\ at <= clock
  BY DEF LimiterInv, LimiterTypes, Attempts, Check
<1>2. /\ clock \in Nat /\ clock' = clock
      /\ hits[key] \in Seq(Nat) /\ admitted[key] \in Seq(Admissions)
      /\ [read |-> at, done |-> clock] \in Admissions
      /\ MaxOf[key] \in Nat \ {0}
  BY <1>1, LimiterConstants DEF LimiterInv, LimiterTypes, Admissions, Check
<1>3. PICK kept \in Seq(Nat) : kept = Kept(hits[key], at)
  BY <1>1, <1>2, KeptIsSuffix
<1>4. /\ Fits(admitted[key], kept, clock, MaxOf[key])
      /\ Limited(admitted[key], MaxOf[key])
  BY <1>1, <1>2, <1>3, KeptFits DEF LimiterInv
<1>5. LimiterTypes' /\ \A k \in Keys : /\ Fits(admitted[k], hits[k], clock, MaxOf[k])'
                                       /\ Limited(admitted[k], MaxOf[k])'
  <2>1. CASE Admits(t)
    <3>1. /\ hits' = [hits EXCEPT ![key] = Append(kept, at)]
          /\ admitted' = [admitted EXCEPT ![key] =
                              Append(admitted[key], [read |-> at, done |-> clock])]
          /\ asked' = [asked EXCEPT ![t] = None]
          /\ Len(kept) < MaxOf[key]
      BY <2>1, <1>1, <1>3 DEF Check, Admits, LimiterInv, LimiterTypes
    <3>2. /\ Fits(Append(admitted[key], [read |-> at, done |-> clock]), Append(kept, at),
                  clock, MaxOf[key])
          /\ Limited(Append(admitted[key], [read |-> at, done |-> clock]), MaxOf[key])
      BY <3>1, <1>1, <1>2, <1>4, AdmittedFits
    <3>3. /\ Append(kept, at) \in Seq(Nat)
          /\ Append(admitted[key], [read |-> at, done |-> clock]) \in Seq(Admissions)
      BY <1>1, <1>2, <1>3
    <3>4. LimiterTypes'
      BY <3>1, <3>3, <1>1, <1>2 DEF LimiterInv, LimiterTypes
    <3> QED
      BY <3>1, <3>2, <3>4, <1>2 DEF LimiterInv, LimiterTypes
  <2>2. CASE ~Admits(t)
    <3>1. /\ hits' = [hits EXCEPT ![key] = kept]
          /\ admitted' = admitted
          /\ asked' = [asked EXCEPT ![t] = None]
      BY <2>2, <1>1, <1>3 DEF Check, LimiterInv, LimiterTypes
    <3>2. LimiterTypes'
      BY <3>1, <1>1, <1>2, <1>3 DEF LimiterInv, LimiterTypes
    <3> QED
      BY <3>1, <3>2, <1>2, <1>4 DEF LimiterInv, LimiterTypes
  <2> QED
    BY <2>1, <2>2
<1> QED
  BY <1>2, <1>5 DEF LimiterInv

LEMMA LimiterSteps == LimiterInv /\ [LimiterNext]_limiter => LimiterInv'
<1> SUFFICES ASSUME LimiterInv, [LimiterNext]_limiter PROVE LimiterInv'
  OBVIOUS
<1>1. CASE Tick
  BY <1>1, TickKeeps
<1>2. ASSUME NEW t \in Threads, Check(t) PROVE LimiterInv'
  BY <1>2, CheckKeeps
<1>3. ASSUME NEW t \in Threads, NEW key \in Keys, ReadClock(t, key) PROVE LimiterInv'
  BY <1>3, ReadClockKeeps
<1>4. CASE UNCHANGED limiter
  BY <1>4 DEF LimiterInv, LimiterTypes, limiter
<1> QED
  BY <1>1, <1>2, <1>3, <1>4 DEF LimiterNext

LEMMA LimiterInvSuffices == LimiterInv => AttemptsAreLimited
<1> SUFFICES ASSUME LimiterInv, NEW k \in Keys, NEW i \in DOMAIN admitted[k],
                    i + MaxOf[k] \in DOMAIN admitted[k]
             PROVE  admitted[k][i].read + Window < admitted[k][i + MaxOf[k]].done
  BY DEF AttemptsAreLimited
<1>1. i \in 1..Len(admitted[k]) /\ i + MaxOf[k] <= Len(admitted[k])
  BY LimiterConstants DEF LimiterInv, LimiterTypes
<1> QED
  BY <1>1 DEF LimiterInv, Limited

(* However attempts overlap, no more of them pass than the limit allows: one that  *)
(* follows MaxOf[k] others passes when the first of those has left the window      *)
(* (ratelimit.py:20-31).                                                            *)
THEOREM WindowIsKept == LimiterSpec => []AttemptsAreLimited
BY LimiterStarts, LimiterSteps, LimiterInvSuffices, PTL DEF LimiterSpec

---------------------------------------------------------------------------------
(* Accounts *)

Hashes == [pw : Passwords, old : BOOLEAN]
SessionRows == [user : Users, exp : Nat, revoked : BOOLEAN, pw : Passwords, fresh : BOOLEAN]
Locals == [user : Users \cup {None}, client : Clients \cup {None},
           pw : Passwords \cup {None}, new : Passwords \cup {None}, sid : Nat]

Shapes ==
    /\ users \in [Users -> {None} \cup Hashes]
    /\ sessions \in Seq(SessionRows)
    /\ pc \in [Threads -> Labels]
    /\ local \in [Threads -> Locals]
    /\ legacy \subseteq Users /\ cut \subseteq Users
    /\ changer \in [Users -> Nat]
    /\ \A u \in Users : changer[u] <= Len(sessions)

(* What a thread knows where it is. *)
ThreadOK(t) ==
    /\ pc[t] # "idle" => local[t].user \in Users /\ local[t].pw \in Passwords
    /\ pc[t] \in LogsIn => local[t].client \in Clients
    /\ pc[t] \in {"rehash", "create", "compare", "update", "revoke"} => Mine(t) # None
    /\ asked[t] # None <=> pc[t] \in {"signup", "account", "client"}
    /\ pc[t] \in {"compare", "update", "revoke"} =>
          local[t].sid \in DOMAIN sessions /\ local[t].new \in Passwords
    /\ pc[t] = "rehash" => local[t].user \in legacy

RowsOK ==
    /\ \A s \in DOMAIN sessions :
          users[sessions[s].user] # None /\ sessions[s].exp <= clock + SessionTtl
    /\ \A u \in Users : users[u] # None /\ users[u].old => u \in legacy

AccountsTypes == LimiterInv /\ Shapes /\ (\A t \in Threads : ThreadOK(t)) /\ RowsOK

---------------------------------------------------------------------------------
(* Types *)

LEMMA AccountsStart == Init => AccountsTypes
<1> SUFFICES ASSUME Init PROVE AccountsTypes
  OBVIOUS
<1>1. LimiterInv
  BY LimiterStarts DEF Init
<1>2. Shapes
  BY DEF Init, Shapes, Hashes, Locals, NoLocal, Labels
<1>3. \A t \in Threads : ThreadOK(t)
  BY DEF Init, ThreadOK, LogsIn, LimiterInit
<1>4. RowsOK
  BY DEF Init, RowsOK
<1> QED
  BY <1>1, <1>2, <1>3, <1>4 DEF AccountsTypes

(* A login or a sign-up begins. *)
LEMMA LoginTypes ==
    ASSUME AccountsTypes, NEW t \in Threads, NEW u \in Users, NEW c \in Clients,
           NEW p \in Passwords, Signup(t, u, c, p) \/ Login(t, u, c, p)
    PROVE  AccountsTypes' /\ [LimiterNext]_limiter
<1>1. SignupKey(c) \in Keys /\ AccountKey(u) \in Keys
  BY AccountsConstants
<1>2. PICK key \in Keys : ReadClock(t, key)
  BY <1>1 DEF Signup, Login
<1>3. PICK label \in {"signup", "account"} :
          Start(t, label, [NoLocal EXCEPT !.user = u, !.client = c, !.pw = p])
  BY DEF Signup, Login
<1>4. UNCHANGED <<rows, observed, crashes>>
  BY DEF Signup, Login
<1>5. LimiterInv'
  BY <1>2, ReadClockKeeps DEF AccountsTypes
<1> DEFINE l == [NoLocal EXCEPT !.user = u, !.client = c, !.pw = p]
<1>6. l \in Locals /\ l.user = u /\ l.client = c /\ l.pw = p
  BY DEF NoLocal, Locals
<1> HIDE DEF l
<1>7. Shapes'
  <2>1. label \in Labels
    BY DEF Labels
  <2>2. pc' = [pc EXCEPT ![t] = label] /\ local' = [local EXCEPT ![t] = l]
    BY <1>3 DEF Start, l
  <2> QED
    BY <1>4, <1>6, <2>1, <2>2 DEF AccountsTypes, Shapes, rows, observed
<1>8. \A x \in Threads : ThreadOK(x)'
  BY <1>2, <1>3, <1>4, <1>6, AccountsConstants
  DEF l, AccountsTypes, ThreadOK, Shapes, Start, LogsIn, Mine, rows, observed, ReadClock,
      LimiterInv, LimiterTypes
<1>9. RowsOK'
  BY <1>2, <1>4 DEF AccountsTypes, RowsOK, rows, observed, ReadClock
<1> QED
  BY <1>2, <1>5, <1>7, <1>8, <1>9 DEF AccountsTypes, LimiterNext

(* A limiter is asked. *)
LEMMA LimitTypes ==
    ASSUME AccountsTypes, NEW t \in Threads,
           SignupLimit(t) \/ AccountLimit(t) \/ ClientLimit(t)
    PROVE  AccountsTypes' /\ [LimiterNext]_limiter
<1>1. Check(t) /\ UNCHANGED <<rows, observed, crashes>>
  BY DEF SignupLimit, AccountLimit, ClientLimit
<1>2. \/ /\ pc[t] \in LogsIn
         /\ \E label \in {"insert", "admitted", "verify"} : Goto(t, label)
      \/ Return(t)
  BY DEF SignupLimit, AccountLimit, ClientLimit, LogsIn
<1>3. LimiterInv'
  BY <1>1, CheckKeeps DEF AccountsTypes
<1>4. Shapes'
  <2>1. NoLocal \in Locals /\ {"idle", "insert", "admitted", "verify"} \subseteq Labels
    BY DEF NoLocal, Locals, Labels
  <2>2. /\ pc' \in [Threads -> Labels] /\ local' \in [Threads -> Locals]
    BY <1>2, <2>1 DEF AccountsTypes, Shapes, Goto, Return, Start
  <2> QED
    BY <1>1, <2>2 DEF AccountsTypes, Shapes, rows, observed
<1>5. \A x \in Threads : ThreadOK(x)'
  BY <1>1, <1>2
  DEF AccountsTypes, ThreadOK, Shapes, Goto, Return, Start, LogsIn, Mine, rows, observed, Check,
      LimiterInv, LimiterTypes
<1>6. RowsOK'
  BY <1>1 DEF AccountsTypes, RowsOK, rows, observed, Check
<1> QED
  BY <1>1, <1>3, <1>4, <1>5, <1>6 DEF AccountsTypes, LimiterNext

LEMMA RevokedIsRow ==
    ASSUME NEW row \in SessionRows
    PROVE  /\ [row EXCEPT !.revoked = TRUE] \in SessionRows
           /\ [row EXCEPT !.revoked = TRUE].user = row.user
           /\ [row EXCEPT !.revoked = TRUE].exp = row.exp
           /\ [row EXCEPT !.revoked = TRUE].revoked
BY DEF SessionRows

LEMMA NewUserIsHash ==
    ASSUME NEW p \in Passwords
    PROVE  NewUser(p) \in Hashes /\ NewUser(p) # None /\ ~NewUser(p).old
<1>1. NewUser(p) \in Hashes
  BY DEF NewUser, Hashes
<1>2. NewUser(p) # None
  BY <1>1, AccountsConstants, Zenon DEF Hashes
<1>3. ~NewUser(p).old
  BY DEF NewUser
<1> QED
  BY <1>1, <1>2, <1>3

(* A row of users is written: for a new account, or a new hash. *)
LEMMA UserTypes ==
    ASSUME AccountsTypes, NEW t \in Threads, Insert(t) \/ Rehash(t) \/ Update(t)
    PROVE  AccountsTypes' /\ [LimiterNext]_limiter
<1>1. CASE Insert(t) /\ Mine(t) # None
  <2>1. Return(t) /\ UNCHANGED <<limiter, users, sessions, observed, crashes>>
    BY <1>1 DEF Insert
  <2>2. LimiterInv'
    BY <2>1, LimiterSteps DEF AccountsTypes
  <2>3. pc' \in [Threads -> Labels] /\ local' \in [Threads -> Locals]
    BY <2>1 DEF AccountsTypes, Shapes, Return, Start, Labels, Locals, NoLocal
  <2>4. Shapes'
    BY <2>1, <2>3 DEF AccountsTypes, Shapes, observed
  <2>5. \A x \in Threads : ThreadOK(x)'
    BY <1>1, <2>1 DEF Insert, AccountsTypes, ThreadOK, Shapes, Return, Start, LogsIn, Mine,
                      observed, limiter
  <2>6. RowsOK'
    BY <2>1 DEF AccountsTypes, RowsOK, limiter, observed
  <2> QED
    BY <2>1, <2>2, <2>4, <2>5, <2>6 DEF AccountsTypes
<1>2. CASE Insert(t) /\ Mine(t) = None
  <2>1. PICK u \in Users, p \in Passwords : u = local[t].user /\ p = local[t].pw
    BY <1>2 DEF Insert, AccountsTypes, ThreadOK
  <2>2. /\ AccountKey(u) \in Keys
        /\ ReadClock(t, AccountKey(u))
        /\ users' = [users EXCEPT ![u] = NewUser(p)]
        /\ Goto(t, "account")
        /\ UNCHANGED <<sessions, observed, crashes>>
    BY <1>2, <2>1, AccountsConstants DEF Insert
  <2>3. NewUser(p) \in Hashes /\ NewUser(p) # None /\ ~NewUser(p).old
    BY NewUserIsHash
  <2>4. LimiterInv'
    BY <2>2, ReadClockKeeps DEF AccountsTypes
  <2>5. pc' \in [Threads -> Labels] /\ local' = local
    BY <2>2 DEF AccountsTypes, Shapes, Goto, Labels
  <2>6. Shapes'
    BY <2>2, <2>3, <2>5 DEF AccountsTypes, Shapes, observed
  <2>7. \A x \in Threads : ThreadOK(x)'
    BY <1>2, <2>2, <2>3, <2>5, AccountsConstants
    DEF Insert, AccountsTypes, ThreadOK, Shapes, Goto, LogsIn, Mine, observed, ReadClock,
        LimiterInv, LimiterTypes
  <2>8. RowsOK'
    BY <2>2, <2>3 DEF AccountsTypes, Shapes, RowsOK, observed, ReadClock
  <2> QED
    BY <2>2, <2>4, <2>6, <2>7, <2>8 DEF AccountsTypes, LimiterNext
<1>3. CASE Rehash(t) \/ Update(t)
  <2>1. PICK u \in Users, p \in Passwords, label \in {"create", "revoke"} :
            /\ u = local[t].user
            /\ users' = [users EXCEPT ![u] = NewUser(p)]
            /\ Goto(t, label)
            /\ label = "create" <=> pc[t] = "rehash"
            /\ label = "revoke" <=> pc[t] = "update"
    BY <1>3 DEF Rehash, Update, SetPassword, AccountsTypes, ThreadOK
  <2>2. UNCHANGED <<limiter, sessions, legacy, cut, crashes>>
    BY <1>3 DEF Rehash, Update, observed
  <2>3. NewUser(p) \in Hashes /\ NewUser(p) # None /\ ~NewUser(p).old
    BY NewUserIsHash
  <2>4. LimiterInv'
    BY <2>2, LimiterSteps DEF AccountsTypes
  <2>5. pc' \in [Threads -> Labels] /\ local' = local
    BY <2>1 DEF AccountsTypes, Shapes, Goto, Labels
  <2>6. changer' \in [Users -> Nat] /\ \A v \in Users : changer'[v] <= Len(sessions)
    BY <1>3 DEF Rehash, Update, observed, AccountsTypes, Shapes, ThreadOK
  <2>7. Shapes'
    BY <2>1, <2>2, <2>3, <2>5, <2>6 DEF AccountsTypes, Shapes
  <2>8. \A x \in Threads : ThreadOK(x)'
    BY <1>3, <2>1, <2>2, <2>3, <2>5
    DEF Rehash, Update, AccountsTypes, ThreadOK, Shapes, Goto, LogsIn, Mine, limiter
  <2>9. RowsOK'
    BY <2>1, <2>2, <2>3 DEF AccountsTypes, Shapes, RowsOK, limiter
  <2> QED
    BY <2>2, <2>4, <2>7, <2>8, <2>9 DEF AccountsTypes
<1> QED
  BY <1>1, <1>2, <1>3

(* A thread goes on without a change of the tables. *)
LEMMA CheckTypes ==
    ASSUME AccountsTypes, NEW t \in Threads, AskClientLimit(t) \/ Verify(t) \/ Compare(t)
    PROVE  AccountsTypes' /\ [LimiterNext]_limiter
<1>1. UNCHANGED <<rows, observed, crashes>>
  BY DEF AskClientLimit, Verify, Compare
<1>2. Return(t) \/ \E label \in {"client", "rehash", "create", "update"} : Goto(t, label)
  BY DEF AskClientLimit, Verify, Compare
<1>3. LimiterInv' /\ [LimiterNext]_limiter
  <2>1. CASE AskClientLimit(t)
    <3>1. ClientKey(local[t].client) \in Keys
      BY <2>1, AccountsConstants DEF AskClientLimit, AccountsTypes, ThreadOK, LogsIn
    <3> QED
      BY <2>1, <3>1, ReadClockKeeps DEF AskClientLimit, AccountsTypes, LimiterNext
  <2>2. CASE Verify(t) \/ Compare(t)
    BY <2>2, LimiterSteps DEF Verify, Compare, AccountsTypes
  <2> QED
    BY <2>1, <2>2
<1>4. Shapes'
  <2>1. NoLocal \in Locals /\ {"idle", "client", "rehash", "create", "update"} \subseteq Labels
    BY DEF NoLocal, Locals, Labels
  <2>2. pc' \in [Threads -> Labels] /\ local' \in [Threads -> Locals]
    BY <1>2, <2>1 DEF AccountsTypes, Shapes, Goto, Return, Start
  <2> QED
    BY <1>1, <2>2 DEF AccountsTypes, Shapes, rows, observed
<1>5. \A x \in Threads : ThreadOK(x)'
  <2>1. CASE AskClientLimit(t)
    BY <2>1, <1>1, AccountsConstants
    DEF AskClientLimit, AccountsTypes, ThreadOK, Shapes, Goto, LogsIn, Mine, rows, observed,
        ReadClock, LimiterInv, LimiterTypes
  <2>2. CASE Verify(t)
    BY <2>2, <1>1
    DEF Verify, AccountsTypes, ThreadOK, RowsOK, Shapes, Goto, Return, Start, LogsIn, Mine,
        rows, observed, limiter
  <2>3. CASE Compare(t)
    BY <2>3, <1>1
    DEF Compare, AccountsTypes, ThreadOK, Shapes, Goto, Return, Start, LogsIn, Mine,
        rows, observed, limiter
  <2> QED
    BY <2>1, <2>2, <2>3
<1>6. RowsOK'
  BY <1>1 DEF AskClientLimit, Verify, Compare, ReadClock, AccountsTypes, RowsOK, rows, observed,
              limiter
<1> QED
  BY <1>3, <1>4, <1>5, <1>6 DEF AccountsTypes

(* The table of sessions is written. *)
LEMMA SessionTypes ==
    ASSUME AccountsTypes, NEW t \in Threads,
           Create(t) \/ Revoke(t) \/ \E s \in DOMAIN sessions : Logout(t, s)
    PROVE  AccountsTypes' /\ [LimiterNext]_limiter
<1>1. UNCHANGED <<limiter, users, legacy, changer>> /\ cut' \subseteq Users
  BY DEF Create, Revoke, Logout, observed, AccountsTypes, Shapes
<1>2. LimiterInv'
  BY <1>1, LimiterSteps DEF AccountsTypes
<1>3. /\ sessions' \in Seq(SessionRows) /\ Len(sessions') >= Len(sessions)
      /\ \A s \in DOMAIN sessions' :
            users[sessions'[s].user] # None /\ sessions'[s].exp <= clock + SessionTtl
  <2>1. CASE Create(t)
    <3>1. NewSession(t) \in SessionRows
      BY <2>1, AccountsConstants
      DEF Create, NewSession, SessionRows, AccountsTypes, ThreadOK, LimiterInv, LimiterTypes
    <3>2. sessions \in Seq(SessionRows) /\ sessions' = Append(sessions, NewSession(t))
      BY <2>1 DEF Create, AccountsTypes, Shapes
    <3>3. users[NewSession(t).user] # None /\ NewSession(t).exp <= clock + SessionTtl
      BY <2>1, AccountsConstants
      DEF Create, NewSession, Mine, AccountsTypes, ThreadOK, LimiterInv, LimiterTypes
    <3> HIDE DEF NewSession
    <3> QED
      BY <3>1, <3>2, <3>3, AppendProperties DEF AccountsTypes, RowsOK
  <2>2. CASE Revoke(t)
    <3>1. /\ DOMAIN sessions' = 1..Len(sessions) /\ sessions \in Seq(SessionRows)
          /\ sessions' = [s \in 1..Len(sessions) |->
                             IF s \in Others(t) THEN [sessions[s] EXCEPT !.revoked = TRUE]
                             ELSE sessions[s]]
      BY <2>2 DEF Revoke, AccountsTypes, Shapes
    <3>2. \A s \in 1..Len(sessions) : sessions[s] \in SessionRows
      BY <3>1, ElementOfSeq
    <3>3. ASSUME NEW s \in 1..Len(sessions)
          PROVE  /\ sessions'[s] \in SessionRows
                 /\ sessions'[s].user = sessions[s].user /\ sessions'[s].exp = sessions[s].exp
      BY <3>1, <3>2, RevokedIsRow
    <3>4. sessions' \in Seq(SessionRows) /\ Len(sessions') = Len(sessions)
      BY <3>1, <3>3, LenProperties
    <3> QED
      BY <3>1, <3>3, <3>4 DEF AccountsTypes, RowsOK
  <2>3. CASE \E s \in DOMAIN sessions : Logout(t, s)
    <3>1. PICK s \in DOMAIN sessions :
              sessions' = [sessions EXCEPT ![s] = [sessions[s] EXCEPT !.revoked = TRUE]]
      BY <2>3 DEF Logout, RevokeSession
    <3>2. sessions \in Seq(SessionRows) /\ s \in 1..Len(sessions)
      BY DEF AccountsTypes, Shapes
    <3>3. sessions[s] \in SessionRows
      BY <3>2, ElementOfSeq
    <3>4. PICK row \in SessionRows :
              /\ row = [sessions[s] EXCEPT !.revoked = TRUE]
              /\ row.user = sessions[s].user /\ row.exp = sessions[s].exp
      BY <3>3, RevokedIsRow, Zenon
    <3> QED
      BY <3>1, <3>2, <3>4, ExceptSeq DEF AccountsTypes, RowsOK
  <2> QED
    BY <2>1, <2>2, <2>3
<1>4. Return(t) \/ UNCHANGED <<pc, local>>
  BY DEF Create, Revoke, Logout
<1>5. Shapes'
  <2>1. NoLocal \in Locals /\ "idle" \in Labels
    BY DEF NoLocal, Locals, Labels
  <2>2. pc' \in [Threads -> Labels] /\ local' \in [Threads -> Locals]
    BY <1>4, <2>1 DEF AccountsTypes, Shapes, Return, Start
  <2>3. \A u \in Users : changer'[u] <= Len(sessions')
    BY <1>1, <1>3 DEF AccountsTypes, Shapes
  <2> QED
    BY <1>1, <1>3, <2>2, <2>3 DEF AccountsTypes, Shapes
<1>6. \A x \in Threads : ThreadOK(x)'
  <2>1. pc[t] \in {"create", "revoke", "idle"} /\ DOMAIN sessions \subseteq DOMAIN sessions'
    BY <1>3 DEF Create, Revoke, Logout, AccountsTypes, Shapes
  <2> QED
    BY <1>1, <1>4, <2>1 DEF AccountsTypes, ThreadOK, Shapes, Return, Start, LogsIn, Mine, limiter
<1>7. RowsOK'
  BY <1>1, <1>3 DEF AccountsTypes, RowsOK, limiter
<1> QED
  BY <1>1, <1>2, <1>5, <1>6, <1>7 DEF AccountsTypes

LEMMA ChangeTypes ==
    ASSUME AccountsTypes, NEW t \in Threads, NEW s \in DOMAIN sessions, NEW old \in Passwords,
           NEW new \in Passwords, Change(t, s, old, new)
    PROVE  AccountsTypes' /\ [LimiterNext]_limiter
<1> DEFINE l == [NoLocal EXCEPT !.user = sessions[s].user, !.sid = s, !.pw = old, !.new = new]
<1>1. UNCHANGED <<limiter, rows, observed, crashes>> /\ pc[t] = "idle"
  BY DEF Change
<1>2. sessions[s].user \in Users /\ s \in Nat /\ users[sessions[s].user] # None
  <2>1. sessions[s] \in SessionRows /\ s \in Nat
    BY ElementOfSeq DEF AccountsTypes, Shapes
  <2> QED
    BY <2>1 DEF AccountsTypes, SessionRows, RowsOK
<1>3. /\ l \in Locals
      /\ l.user = sessions[s].user /\ l.pw = old /\ l.new = new /\ l.sid = s
  BY <1>2 DEF NoLocal, Locals
<1>4. pc' = [pc EXCEPT ![t] = "compare"] /\ local' = [local EXCEPT ![t] = l]
  BY DEF Change, Start
<1> HIDE DEF l
<1>5. LimiterInv'
  BY <1>1, LimiterSteps DEF AccountsTypes
<1>6. Shapes'
  BY <1>1, <1>3, <1>4 DEF AccountsTypes, Shapes, rows, observed, Labels
<1>7. \A x \in Threads : ThreadOK(x)'
  BY <1>1, <1>2, <1>3, <1>4
  DEF AccountsTypes, ThreadOK, Shapes, LogsIn, Mine, rows, observed, limiter
<1>8. RowsOK'
  BY <1>1 DEF AccountsTypes, RowsOK, rows, observed, limiter
<1> QED
  BY <1>1, <1>5, <1>6, <1>7, <1>8 DEF AccountsTypes

LEMMA PassesTypes ==
    ASSUME AccountsTypes, Passes
    PROVE  AccountsTypes' /\ [LimiterNext]_limiter
<1>1. Tick /\ UNCHANGED <<users, sessions, pc, local, legacy, changer, cut>>
  BY DEF Passes, rows, observed
<1>2. LimiterInv'
  BY <1>1, TickKeeps DEF AccountsTypes
<1>3. Shapes' /\ \A x \in Threads : ThreadOK(x)'
  BY <1>1 DEF AccountsTypes, Shapes, ThreadOK, Mine, Tick
<1>4. RowsOK'
  <2>1. ASSUME NEW s \in DOMAIN sessions PROVE sessions[s].exp <= clock + 1 + SessionTtl
    <3>1. sessions[s] \in SessionRows
      BY ElementOfSeq, LenProperties DEF AccountsTypes, Shapes
    <3> QED
      BY <3>1, AccountsConstants
      DEF AccountsTypes, RowsOK, SessionRows, LimiterInv, LimiterTypes
  <2> QED
    BY <1>1, <2>1 DEF AccountsTypes, RowsOK, Tick
<1> QED
  BY <1>1, <1>2, <1>3, <1>4 DEF AccountsTypes, LimiterNext

(* A restart empties the queues of the limiter, and what was admitted before counts *)
(* no more.                                                                          *)
LEMMA RestartTypes ==
    ASSUME AccountsTypes, Restart
    PROVE  AccountsTypes'
<1>1. LimiterInv'
  <2>1. \A k \in Keys : hits'[k] = <<>> /\ admitted'[k] = <<>> /\ MaxOf[k] \in Nat
    BY LimiterConstants DEF Restart
  <2>2. \A max \in Nat : Fits(<<>>, <<>>, clock, max) /\ Limited(<<>>, max)
    BY DEF Fits, Limited
  <2>3. LimiterTypes' /\ clock' = clock
    BY DEF Restart, AccountsTypes, LimiterInv, LimiterTypes
  <2> QED
    BY <2>1, <2>2, <2>3 DEF LimiterInv, Fits
<1>2. cut' \subseteq Users
  BY DEF Restart, AccountsTypes, Shapes, ThreadOK
<1>3. Shapes'
  <2>1. NoLocal \in Locals /\ "idle" \in Labels
    BY DEF NoLocal, Locals, Labels
  <2> QED
    BY <1>2, <2>1 DEF Restart, AccountsTypes, Shapes, rows
<1>4. \A x \in Threads : ThreadOK(x)'
  BY DEF Restart, ThreadOK, LogsIn
<1>5. RowsOK'
  BY DEF Restart, AccountsTypes, RowsOK, rows
<1> QED
  BY <1>1, <1>3, <1>4, <1>5 DEF AccountsTypes

LEMMA AccountsStep == AccountsTypes /\ [Next]_vars => AccountsTypes'
<1> SUFFICES ASSUME AccountsTypes, [Next]_vars PROVE AccountsTypes'
  OBVIOUS
<1>1. CASE Passes
  BY <1>1, PassesTypes
<1>2. CASE Restart
  BY <1>2, RestartTypes
<1>3. ASSUME NEW t \in Threads, Request(t) PROVE AccountsTypes'
  BY <1>3, LoginTypes, ChangeTypes, SessionTypes DEF Request
<1>4. ASSUME NEW t \in Threads, Step(t) PROVE AccountsTypes'
  BY <1>4, LimitTypes, UserTypes, CheckTypes, SessionTypes DEF Step
<1>5. CASE UNCHANGED vars
  BY <1>5, LimiterSteps
  DEF vars, rows, observed, AccountsTypes, Shapes, ThreadOK, RowsOK, Mine, limiter
<1> QED
  BY <1>1, <1>2, <1>3, <1>4, <1>5 DEF Next

LEMMA TypesSuffice == AccountsTypes => TypeOK
<1> SUFFICES ASSUME AccountsTypes PROVE TypeOK
  OBVIOUS
<1>1. \A u \in Users : users[u] # None => users[u].pw \in Passwords
  BY DEF AccountsTypes, Shapes, Hashes
<1>2. \A s \in DOMAIN sessions : sessions[s] \in SessionRows
  BY ElementOfSeq, LenProperties DEF AccountsTypes, Shapes
<1>3. \A s \in DOMAIN sessions :
         /\ sessions[s].user \in Users /\ users[sessions[s].user] # None
         /\ sessions[s].exp <= clock + SessionTtl
  BY <1>2 DEF AccountsTypes, RowsOK, SessionRows
<1>4. \A t \in Threads :
         /\ pc[t] \in Labels
         /\ pc[t] # "idle" => local[t].user \in Users
         /\ pc[t] \in {"rehash", "create", "compare", "update", "revoke"} => Mine(t) # None
         /\ asked[t] # None <=> pc[t] \in {"signup", "account", "client"}
         /\ pc[t] \in {"compare", "update", "revoke"} => local[t].sid \in DOMAIN sessions
  BY DEF AccountsTypes, Shapes, ThreadOK
<1>5. legacy \subseteq Users /\ cut \subseteq Users /\ \A u \in Users : changer[u] \in 0..Len(sessions)
  BY DEF AccountsTypes, Shapes
<1> QED
  BY <1>1, <1>3, <1>4, <1>5 DEF TypeOK

(* Every variable has its shape, a request past its first steps has an account, and  *)
(* an attempt is being checked exactly at the labels of the limiters                 *)
(* (auth/service.py:114-249).                                                        *)
THEOREM TypeCorrect == Spec => []TypeOK
BY AccountsStart, AccountsStep, TypesSuffice, PTL DEF Spec

(* The limits of the accounts, of the clients and of sign-ups hold in the login as it *)
(* asks for them, whatever requests overlap, between two restarts of the server       *)
(* (ratelimit.py:20-31, auth/service.py:124, 177).                                     *)
THEOREM LoginsAreLimited == Spec => []AttemptsAreLimited
<1>1. AccountsTypes => AttemptsAreLimited
  BY LimiterInvSuffices DEF AccountsTypes
<1> QED
  BY <1>1, AccountsStart, AccountsStep, PTL DEF Spec

---------------------------------------------------------------------------------
(* A change of the password logs the others out *)

(* The changes of u between their two statements. *)
Pending(u) == {t \in Threads : pc[t] = "revoke" /\ local[t].user = u}

Endangered(u) == {s \in Outdated(u) : sessions[s].fresh}

(* Some thread is about to revoke s. *)
WillGo(u, s) == \E t \in Pending(u) : local[t].sid # s

ChangesInv ==
    \A u \in Users \ legacy : \A s \in Endangered(u) :
       u \notin cut \/ (\E t \in Pending(u) : local[t].sid = s) => WillGo(u, s)

LEMMA ChangesSuffice == ChangesInv => OthersAreLoggedOut
BY DEF ChangesInv, OthersAreLoggedOut, Settled, Endangered, WillGo, Pending

(* Steps that leave the passwords, the sessions and the changes under way alone. *)
LEMMA QuietKeeps ==
    ASSUME ChangesInv, UNCHANGED <<users, sessions, changer, legacy, cut>>,
           \A u \in Users \ legacy : Pending(u)' = Pending(u),
           \A t \in Threads : pc'[t] = "revoke" => local'[t].sid = local[t].sid
    PROVE  ChangesInv'
<1>1. \A u \in Users : Endangered(u)' = Endangered(u)
  BY DEF Endangered, Outdated
<1>2. ASSUME NEW u \in Users \ legacy, NEW s \in Endangered(u)'
      PROVE  u \notin cut' \/ (\E t \in Pending(u)' : local'[t].sid = s) => WillGo(u, s)'
  <2>1. s \in Endangered(u) /\ Pending(u)' = Pending(u)
    BY <1>1
  <2>2. \A t \in Pending(u) : local'[t].sid = local[t].sid
    BY <2>1 DEF Pending
  <2>3. u \notin cut \/ (\E t \in Pending(u) : local[t].sid = s) => WillGo(u, s)
    BY <2>1 DEF ChangesInv
  <2> QED
    BY <2>1, <2>2, <2>3 DEF WillGo
<1> QED
  BY <1>2 DEF ChangesInv

(* A step of a thread that is not, and will not be, about to revoke. *)
LEMMA OtherStepKeeps ==
    ASSUME AccountsTypes, ChangesInv, NEW t \in Threads,
           UNCHANGED <<users, sessions, changer, legacy, cut>>,
           pc[t] # "revoke",
           \/ Return(t)
           \/ \E label \in Labels \ {"revoke"} : Goto(t, label)
           \/ \E label \in Labels \ {"revoke"}, l \in Locals : Start(t, label, l)
           \/ UNCHANGED <<pc, local>>
    PROVE  ChangesInv'
<1>1. /\ pc'[t] # "revoke"
      /\ \A x \in Threads \ {t} : pc'[x] = pc[x] /\ local'[x] = local[x]
  BY DEF Return, Start, Goto, AccountsTypes, Shapes
<1>2. \A u \in Users : Pending(u)' = Pending(u)
  BY <1>1 DEF Pending
<1>3. \A x \in Threads : pc'[x] = "revoke" => local'[x].sid = local[x].sid
  BY <1>1
<1> QED
  BY <1>2, <1>3, QuietKeeps

(* A password is stored: of an account without sessions, or at the beginning of a  *)
(* change, whose thread is about to revoke all sessions but its own.                *)
LEMMA InsertKeeps ==
    ASSUME AccountsTypes, ChangesInv, NEW t \in Threads, Insert(t)
    PROVE  ChangesInv'
<1>1. CASE Mine(t) # None
  BY <1>1, OtherStepKeeps DEF Insert, observed
<1>2. CASE Mine(t) = None
  <2>1. /\ UNCHANGED <<sessions, changer, legacy, cut, local>>
        /\ users' = [users EXCEPT ![local[t].user] = NewUser(local[t].pw)]
        /\ \A u \in Users : Pending(u)' = Pending(u)
    BY <1>2 DEF Insert, observed, Goto, Pending, AccountsTypes, Shapes
  <2>2. ASSUME NEW u \in Users, NEW s \in Endangered(u)' PROVE s \in Endangered(u)
    <3>1. s \in DOMAIN sessions /\ sessions[s].user = u /\ users[u] # None
      BY <2>1 DEF Endangered, Outdated, AccountsTypes, RowsOK
    <3>2. users'[u] = users[u]
      BY <1>2, <2>1, <3>1 DEF Mine, AccountsTypes, Shapes
    <3> QED
      BY <2>1, <3>1, <3>2 DEF Endangered, Outdated
  <2> QED
    BY <2>1, <2>2 DEF ChangesInv, WillGo
<1> QED
  BY <1>1, <1>2

LEMMA RehashKeeps ==
    ASSUME AccountsTypes, ChangesInv, NEW t \in Threads, Rehash(t)
    PROVE  ChangesInv'
<1>1. /\ UNCHANGED <<sessions, changer, legacy, cut, local>>
      /\ \A u \in Users \ legacy : users'[u] = users[u]
      /\ \A u \in Users : Pending(u)' = Pending(u)
  BY DEF Rehash, SetPassword, observed, Goto, Pending, AccountsTypes, Shapes, ThreadOK
<1>2. \A u \in Users \ legacy : Endangered(u)' = Endangered(u)
  BY <1>1 DEF Endangered, Outdated
<1> QED
  BY <1>1, <1>2 DEF ChangesInv, WillGo

LEMMA UpdateKeeps ==
    ASSUME AccountsTypes, ChangesInv, NEW t \in Threads, Update(t)
    PROVE  ChangesInv'
<1>1. PICK v \in Users : v = local[t].user
  BY DEF Update, AccountsTypes, ThreadOK
<1>2. /\ UNCHANGED <<sessions, legacy, cut, local>>
      /\ \A u \in Users \ {v} : users'[u] = users[u] /\ changer'[u] = changer[u]
      /\ changer'[v] = local[t].sid
      /\ \A u \in Users \ {v} : Pending(u)' = Pending(u)
      /\ t \in Pending(v)'
  BY <1>1 DEF Update, SetPassword, Goto, Pending, AccountsTypes, Shapes
<1>3. ASSUME NEW u \in Users \ legacy, NEW s \in Endangered(u)',
             u \notin cut' \/ (\E x \in Pending(u)' : local'[x].sid = s)
      PROVE  WillGo(u, s)'
  <2>1. CASE u = v
    <3>1. s # changer'[v]
      BY <2>1 DEF Endangered, Outdated
    <3> QED
      BY <2>1, <3>1, <1>2 DEF WillGo
  <2>2. CASE u # v
    <3>1. s \in Endangered(u) /\ Pending(u)' = Pending(u)
      BY <2>2, <1>2 DEF Endangered, Outdated
    <3> QED
      BY <3>1, <1>2, <1>3 DEF ChangesInv, WillGo
  <2> QED
    BY <2>1, <2>2
<1> QED
  BY <1>2, <1>3 DEF ChangesInv

(* A thread that revokes leaves of the sessions of its account only its own: if that  *)
(* is outdated another change has crossed this one, and is still to revoke it.         *)
LEMMA RevokeKeeps ==
    ASSUME AccountsTypes, ChangesInv, NEW t \in Threads, Revoke(t)
    PROVE  ChangesInv'
<1>1. PICK v \in Users : v = local[t].user
  BY DEF Revoke, AccountsTypes, ThreadOK
<1>2. /\ UNCHANGED <<users, legacy, changer>> /\ cut' = cut \ {v}
      /\ t \in Pending(v)
      /\ \A u \in Users : Pending(u)' = Pending(u) \ {t}
      /\ \A x \in Threads \ {t} : local'[x] = local[x]
      /\ \A u \in Users \ {v} : t \notin Pending(u)
  BY <1>1 DEF Revoke, Return, Start, Pending, AccountsTypes, Shapes
<1>3. /\ DOMAIN sessions' = DOMAIN sessions
      /\ \A s \in DOMAIN sessions : /\ s \notin Others(t) => sessions'[s] = sessions[s]
                                    /\ s \in Others(t) => sessions'[s].revoked
  <2>1. \A s \in DOMAIN sessions : sessions[s] \in SessionRows
    BY ElementOfSeq, LenProperties DEF AccountsTypes, Shapes
  <2> QED
    BY <2>1, RevokedIsRow DEF Revoke
<1>4. ASSUME NEW u \in Users \ legacy, NEW s \in Endangered(u)',
             u \notin cut' \/ (\E x \in Pending(u)' : local'[x].sid = s)
      PROVE  WillGo(u, s)'
  <2>1. s \in DOMAIN sessions /\ s \notin Others(t) /\ s \in Endangered(u)
    BY <1>2, <1>3 DEF Endangered, Outdated
  <2>2. CASE u = v
    <3>1. s = local[t].sid
      BY <2>1, <2>2, <1>1 DEF Others, Endangered, Outdated
    <3>2. WillGo(u, s)
      BY <2>1, <2>2, <3>1, <1>2 DEF ChangesInv
    <3>3. PICK x \in Pending(u) : local[x].sid # s
      BY <3>2 DEF WillGo
    <3>4. x # t /\ x \in Pending(u)' /\ local'[x].sid # s
      BY <3>1, <3>3, <1>2 DEF Pending
    <3> QED
      BY <3>4 DEF WillGo
  <2>3. CASE u # v
    <3>1. /\ Pending(u)' = Pending(u) /\ (u \notin cut' <=> u \notin cut)
          /\ \A x \in Pending(u) : local'[x] = local[x]
      BY <2>3, <1>2 DEF Pending
    <3>2. WillGo(u, s)
      BY <2>1, <3>1, <1>4 DEF ChangesInv
    <3> QED
      BY <3>1, <3>2 DEF WillGo
  <2> QED
    BY <2>2, <2>3
<1> QED
  BY <1>2, <1>4 DEF ChangesInv

(* A session is opened or revoked: one that is opened is fresh only if its password   *)
(* still is the account's.                                                             *)
LEMMA SessionKeeps ==
    ASSUME AccountsTypes, ChangesInv, NEW t \in Threads,
           Create(t) \/ \E s \in DOMAIN sessions : Logout(t, s)
    PROVE  ChangesInv'
<1>1. /\ UNCHANGED <<users, legacy, changer, cut>>
      /\ \A u \in Users : Pending(u)' = Pending(u)
      /\ \A u \in Users : \A x \in Pending(u) : local'[x] = local[x]
  BY DEF Create, Logout, observed, Return, Start, Pending, AccountsTypes, Shapes
<1>2. ASSUME NEW u \in Users, NEW s \in Endangered(u)' PROVE s \in Endangered(u)
  <2>1. CASE Create(t)
    <3>1. /\ sessions \in Seq(SessionRows) /\ NewSession(t) \in SessionRows
          /\ sessions' = Append(sessions, NewSession(t))
      BY <2>1, AccountsConstants
      DEF Create, NewSession, SessionRows, AccountsTypes, Shapes, ThreadOK, LimiterInv,
          LimiterTypes
    <3>2. CASE s = Len(sessions) + 1
      <4>1. sessions'[s] = NewSession(t)
        BY <3>1, <3>2, AppendProperties
      <4>2. /\ NewSession(t).user = local[t].user /\ NewSession(t).pw = local[t].pw
            /\ NewSession(t).fresh => users[local[t].user].pw = local[t].pw
        BY DEF NewSession, Mine
      <4> QED
        BY <4>1, <4>2, <1>1 DEF Endangered, Outdated
    <3>3. CASE s # Len(sessions) + 1
      <4>1. s \in 1..Len(sessions) /\ sessions'[s] = sessions[s]
        <5>1. s \in DOMAIN sessions'
          BY DEF Endangered, Outdated
        <5>2. /\ DOMAIN sessions' = 1..Len(sessions) + 1 /\ Len(sessions) \in Nat
              /\ \A i \in 1..Len(sessions) : sessions'[i] = sessions[i]
          BY <3>1, AppendProperties, LenProperties
        <5> QED
          BY <5>1, <5>2, <3>3
      <4>2. s \in DOMAIN sessions
        BY <4>1, <3>1
      <4> QED
        BY <4>1, <4>2, <1>1 DEF Endangered, Outdated
    <3> QED
      BY <3>2, <3>3
  <2>2. CASE \E x \in DOMAIN sessions : Logout(t, x)
    <3>1. PICK x \in DOMAIN sessions :
              sessions' = [sessions EXCEPT ![x] = [sessions[x] EXCEPT !.revoked = TRUE]]
      BY <2>2 DEF Logout, RevokeSession
    <3>2. sessions[x] \in SessionRows
      BY ElementOfSeq, LenProperties DEF AccountsTypes, Shapes
    <3>3. s \in DOMAIN sessions /\ (s # x => sessions'[s] = sessions[s])
          /\ (s = x => sessions'[s].revoked)
      BY <3>1, <3>2, RevokedIsRow DEF Endangered, Outdated
    <3> QED
      BY <3>3, <1>1 DEF Endangered, Outdated
  <2> QED
    BY <2>1, <2>2
<1> QED
  BY <1>1, <1>2 DEF ChangesInv, WillGo

LEMMA ChangesStep == AccountsTypes /\ ChangesInv /\ [Next]_vars => ChangesInv'
<1> SUFFICES ASSUME AccountsTypes, ChangesInv, [Next]_vars PROVE ChangesInv'
  OBVIOUS
<1>1. CASE Passes \/ UNCHANGED vars
  BY <1>1, QuietKeeps DEF Passes, vars, rows, observed, Pending
<1>2. CASE Restart
  <2>1. \A u \in Users : Pending(u)' = {}
    BY <1>2 DEF Restart, Pending
  <2>2. UNCHANGED <<users, sessions, changer, legacy>>
    BY <1>2 DEF Restart, rows
  <2>3. ASSUME NEW u \in Users \ legacy, NEW s \in Endangered(u)', u \notin cut' PROVE FALSE
    <3>1. s \in Endangered(u)
      BY <2>2 DEF Endangered, Outdated
    <3>2. u \notin cut /\ Pending(u) = {}
      BY <1>2, <2>3 DEF Restart, Pending
    <3> QED
      BY <3>1, <3>2, <2>2 DEF ChangesInv, WillGo
  <2> QED
    BY <2>1, <2>2, <2>3 DEF ChangesInv
<1>3. ASSUME NEW t \in Threads, Request(t) PROVE ChangesInv'
  <2>1. ASSUME NEW u \in Users, NEW c \in Clients, NEW p \in Passwords,
               Signup(t, u, c, p) \/ Login(t, u, c, p)
        PROVE  ChangesInv'
    <3>1. [NoLocal EXCEPT !.user = u, !.client = c, !.pw = p] \in Locals
      BY DEF NoLocal, Locals
    <3>2. /\ pc[t] # "revoke" /\ UNCHANGED <<users, sessions, changer, legacy, cut>>
          /\ \E label \in Labels \ {"revoke"}, l \in Locals : Start(t, label, l)
      BY <2>1, <3>1 DEF Signup, Login, rows, observed, Labels
    <3> QED
      BY <3>2, OtherStepKeeps
  <2>2. ASSUME NEW s \in DOMAIN sessions, NEW old \in Passwords, NEW new \in Passwords,
               Change(t, s, old, new)
        PROVE  ChangesInv'
    <3>1. sessions[s] \in SessionRows /\ s \in Nat
      BY ElementOfSeq, LenProperties DEF AccountsTypes, Shapes
    <3>2. [NoLocal EXCEPT !.user = sessions[s].user, !.sid = s, !.pw = old, !.new = new]
              \in Locals
      BY <3>1 DEF NoLocal, Locals, SessionRows
    <3>3. /\ pc[t] # "revoke" /\ UNCHANGED <<users, sessions, changer, legacy, cut>>
          /\ \E label \in Labels \ {"revoke"}, l \in Locals : Start(t, label, l)
      BY <2>2, <3>2 DEF Change, rows, observed, Labels
    <3> QED
      BY <3>3, OtherStepKeeps
  <2>3. ASSUME NEW s \in DOMAIN sessions, Logout(t, s) PROVE ChangesInv'
    BY <2>3, SessionKeeps
  <2> QED
    BY <1>3, <2>1, <2>2, <2>3 DEF Request
<1>4. ASSUME NEW t \in Threads,
             SignupLimit(t) \/ AccountLimit(t) \/ AskClientLimit(t) \/ ClientLimit(t)
                \/ Verify(t) \/ Compare(t)
      PROVE  ChangesInv'
  <2>1. pc[t] # "revoke" /\ UNCHANGED <<users, sessions, changer, legacy, cut>>
    BY <1>4 DEF SignupLimit, AccountLimit, AskClientLimit, ClientLimit, Verify, Compare, rows,
                observed
  <2>2. Return(t) \/ \E label \in {"insert", "admitted", "client", "verify", "rehash", "create",
                                   "update"} : Goto(t, label)
    BY <1>4 DEF SignupLimit, AccountLimit, AskClientLimit, ClientLimit, Verify, Compare
  <2>3. Return(t) \/ \E label \in Labels \ {"revoke"} : Goto(t, label)
    BY <2>2 DEF Labels
  <2> QED
    BY <2>1, <2>3, OtherStepKeeps
<1>5. ASSUME NEW t \in Threads, Step(t) PROVE ChangesInv'
  BY <1>4, <1>5, InsertKeeps, RehashKeeps, UpdateKeeps, RevokeKeeps, SessionKeeps DEF Step
<1> QED
  BY <1>1, <1>2, <1>3, <1>5 DEF Next

(* Whatever logins, changes and restarts come together: a session that was opened    *)
(* with the account's password does not outlive a change of it, but for the one that *)
(* made the change (auth/service.py:247).                                             *)
THEOREM PasswordChangeEndsSessions == Spec => []OthersAreLoggedOut
<1>1. Init => ChangesInv
  BY DEF Init, ChangesInv, Endangered, Outdated
<1>2. AccountsTypes /\ ChangesInv /\ [Next]_vars => AccountsTypes' /\ ChangesInv'
  BY AccountsStep, ChangesStep
<1> QED
  BY <1>1, <1>2, AccountsStart, ChangesSuffice, PTL DEF Spec
=================================================================================
