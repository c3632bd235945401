------------------------------ MODULE RateLimiter ------------------------------
(***************************************************************************)
(* The sliding-window limiter of hub/auth/ratelimit.py.  It keeps, per key, *)
(* the times of the attempts it admitted and drops those that have left     *)
(* the window from the front.                                               *)
(*                                                                         *)
(* An attempt reads the clock before it takes the limiter's lock, so other  *)
(* attempts, with later times, may be recorded in between: the queue need   *)
(* not be sorted.  What is done under the lock is one step.                 *)
(***************************************************************************)
EXTENDS Naturals, Sequences

CONSTANTS
    None,
    Threads,
    Keys,      \* what attempts are counted by: account names, client addresses
    MaxOf,     \* [Keys -> Nat \ {0}]: max_attempts
    Window     \* window_seconds

ASSUME LimiterConstants == MaxOf \in [Keys -> Nat \ {0}] /\ Window \in Nat

VARIABLES
    hits,      \* [Keys -> Seq(Nat)]: the queues of admitted attempts
    clock,     \* time.monotonic()
    asked,     \* [Threads -> None or [key, at]]: the attempts being checked
    admitted   \* observation: [Keys -> Seq([read, done])], every attempt admitted

limiter == <<hits, clock, asked, admitted>>

LimiterInit ==
    /\ hits = [k \in Keys |-> <<>>]
    /\ clock = 0
    /\ asked = [t \in Threads |-> None]
    /\ admitted = [k \in Keys |-> <<>>]

(* How many attempts popleft removes: it stops at the first in the window. *)
Stops(queue, now) ==
    {n \in 0..Len(queue) : n < Len(queue) => queue[n + 1] + Window >= now}
Dropped(queue, now) ==
    CHOOSE n \in Stops(queue, now) : \A m \in Stops(queue, now) : n <= m
Kept(queue, now) == SubSeq(queue, Dropped(queue, now) + 1, Len(queue))

(* Does the attempt of t pass? *)
Admits(t) == Len(Kept(hits[asked[t].key], asked[t].at)) < MaxOf[asked[t].key]

Tick == clock' = clock + 1 /\ UNCHANGED <<hits, asked, admitted>>

ReadClock(t, key) ==
    /\ asked[t] = None
    /\ asked' = [asked EXCEPT ![t] = [key |-> key, at |-> clock]]
    /\ UNCHANGED <<hits, clock, admitted>>

(* Mutant: one attempt more than max_attempts passes. *)
CheckOneMore(t) ==
    /\ asked[t] # None
    /\ LET key == asked[t].key
           kept == Kept(hits[key], asked[t].at)
           passes == Len(kept) <= MaxOf[key]
       IN  /\ hits' = [hits EXCEPT ![key] =
                          IF passes THEN Append(kept, asked[t].at) ELSE kept]
           /\ admitted' = [admitted EXCEPT ![key] =
                  IF passes THEN Append(@, [read |-> asked[t].at, done |-> clock]) ELSE @]
    /\ asked' = [asked EXCEPT ![t] = None]
    /\ UNCHANGED clock

(* check: a refused attempt is not recorded. *)
Check(t) ==
    /\ asked[t] # None
    /\ LET key == asked[t].key
           kept == Kept(hits[key], asked[t].at)
       IN  /\ hits' = [hits EXCEPT ![key] =
                          IF Admits(t) THEN Append(kept, asked[t].at) ELSE kept]
           /\ admitted' = [admitted EXCEPT ![key] =
                  IF Admits(t) THEN Append(@, [read |-> asked[t].at, done |-> clock]) ELSE @]
    /\ asked' = [asked EXCEPT ![t] = None]
    /\ UNCHANGED clock

LimiterNext == Tick \/ \E t \in Threads : Check(t) \/ \E key \in Keys : ReadClock(t, key)

LimiterSpec == LimiterInit /\ [][LimiterNext]_limiter

---------------------------------------------------------------------------------
(* However attempts overlap: of MaxOf[k] + 1 attempts admitted one after the     *)
(* other, the last is admitted more than a window after the first read the clock *)
(* (ratelimit.py:20-31), even when times were recorded out of order.              *)
AttemptsAreLimited ==
    \A k \in Keys : \A i \in DOMAIN admitted[k] :
       i + MaxOf[k] \in DOMAIN admitted[k] =>
          admitted[k][i].read + Window < admitted[k][i + MaxOf[k]].done
=================================================================================
