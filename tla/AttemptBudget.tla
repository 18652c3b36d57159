----------------------------- MODULE AttemptBudget -----------------------------
(***************************************************************************)
(* What a caller of the executor may rely on: one request spends at most   *)
(* so many attempts at the upstream, whatever the accounts answer, and its *)
(* one outcome is final.  An answer or a refusal comes from an attempt; a  *)
(* request that found no account to try fails without one.                 *)
(***************************************************************************)
EXTENDS Naturals

CONSTANT Budget  \* attempts that a request may spend, a natural number

VARIABLES
  spent,   \* attempts of the request so far
  outcome  \* open, answered, refused or failed

vars == << spent, outcome >>

Outcomes == {"open", "answered", "refused", "failed"}

Init == spent = 0 /\ outcome = "open"

Attempt ==
  /\ outcome = "open" /\ spent < Budget
  /\ spent' = spent + 1
  /\ UNCHANGED outcome

Conclude(o) ==
  /\ outcome = "open"
  /\ o \in {"answered", "refused"} => spent > 0
  /\ outcome' = o
  /\ UNCHANGED spent

\* The next request of the caller.
Again == outcome # "open" /\ spent' = 0 /\ outcome' = "open"

Next == Attempt \/ (\E o \in Outcomes \ {"open"} : Conclude(o)) \/ Again

Spec == Init /\ [][Next]_vars

=============================================================================
