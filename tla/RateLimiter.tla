---------------------------- MODULE RateLimiter ----------------------------
(***************************************************************************)
(* The fixed-window counter of one bucket and client (core/rate_limit.py): *)
(* three Redis commands per request, between which other requests, the     *)
(* clock and a failing Redis come.                                         *)
(***************************************************************************)
EXTENDS Naturals, FiniteSets

CONSTANTS
  Calls,
  max_requests,
  window,       \* in ticks
  MaxFailures,  \* bound: commands Redis fails
  MaxTime       \* bound: ticks

VARIABLES
  key,       \* the counter and its time to live, 0 for none
  phase,     \* progress of each call
  current,   \* what INCR gave the call
  failures, time

vars == <<key, phase, current, failures, time>>

Absent == [count |-> 0, ttl |-> 0]

Phases == {"new", "expire", "judge", "admitted", "refused", "unavailable"}

TypeOK ==
  /\ key \in [count : Nat, ttl : 0 .. window]
  /\ phase \in [Calls -> Phases]
  /\ current \in [Calls -> Nat]
  /\ failures \in 0 .. MaxFailures
  /\ time \in 0 .. MaxTime

Init ==
  /\ key = Absent
  /\ phase = [c \in Calls |-> "new"]
  /\ current = [c \in Calls |-> 0]
  /\ failures = 0 /\ time = 0

\* Deviation: the window begins with the request that reaches the limit.
INCRAtLimit(c) ==
  /\ phase[c] = "new"
  /\ key' = [key EXCEPT !.count = @ + 1]
  /\ current' = [current EXCEPT ![c] = key'.count]
  /\ phase' = [phase EXCEPT ![c] = IF key'.count = max_requests THEN "expire" ELSE "judge"]
  /\ UNCHANGED <<failures, time>>

INCR(c) ==
  /\ phase[c] = "new"
  /\ key' = [key EXCEPT !.count = @ + 1]
  /\ current' = [current EXCEPT ![c] = key'.count]
  /\ phase' = [phase EXCEPT ![c] = IF key'.count = 1 THEN "expire" ELSE "judge"]
  /\ UNCHANGED <<failures, time>>

EXPIRE(c) ==
  /\ phase[c] = "expire"
  /\ key' = IF key.count > 0 THEN [key EXCEPT !.ttl = window] ELSE key
  /\ phase' = [phase EXCEPT ![c] = "judge"]
  /\ UNCHANGED <<current, failures, time>>

Judge(c) ==
  /\ phase[c] = "judge"
  /\ phase' = [phase EXCEPT ![c] = IF current[c] > max_requests THEN "refused" ELSE "admitted"]
  /\ UNCHANGED <<key, current, failures, time>>

\* A RedisError, before the command is carried out or after it.
RedisFails(c) ==
  /\ phase[c] \in {"new", "expire", "judge"}
  /\ failures < MaxFailures /\ failures' = failures + 1
  /\ phase' = [phase EXCEPT ![c] = "unavailable"]
  /\ \/ UNCHANGED key
     \/ phase[c] = "new" /\ key' = [key EXCEPT !.count = @ + 1]
     \/ phase[c] = "expire" /\ key.count > 0 /\ key' = [key EXCEPT !.ttl = window]
  /\ UNCHANGED <<current, time>>

Tick ==
  /\ time < MaxTime /\ time' = time + 1
  /\ key' = IF key.ttl = 1 THEN Absent
            ELSE IF key.ttl > 1 THEN [key EXCEPT !.ttl = @ - 1] ELSE key
  /\ UNCHANGED <<phase, current, failures>>

Next == Tick \/ \E c \in Calls : INCR(c) \/ EXPIRE(c) \/ Judge(c) \/ RedisFails(c)

Spec == Init /\ [][Next]_vars

(***************************************************************************)
(* Properties.                                                             *)
(***************************************************************************)

(* A counter that would never go away, and refuse its client for ever, has *)
(* its EXPIRE still to come, or was left by a command that failed          *)
(* (rate_limit.py:95-97).                                                  *)
KeyExpires ==
  key.count > 0 /\ key.ttl = 0 => failures > 0 \/ \E c \in Calls : phase[c] = "expire"
=============================================================================
