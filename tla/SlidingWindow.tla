--------------------------- MODULE SlidingWindow ---------------------------
(***************************************************************************)
(* What the docstring of GlobalRateLimiter promises of one bucket          *)
(* (src/src/utils/rate_limiter.py:178): at most Rpm of the requests let    *)
(* through are less than 60 seconds old.  Requests are numbered in the     *)
(* order they are let through, and they age in that order.                 *)
(***************************************************************************)
EXTENDS Naturals

CONSTANT Rpm

VARIABLES
    granted,   \* requests let through so far
    expired    \* how many of them are 60 seconds old

Init == granted = 0 /\ expired = 0

Grant ==
    /\ granted - expired < Rpm
    /\ granted' = granted + 1
    /\ UNCHANGED expired

Expire ==
    /\ expired < granted
    /\ expired' = expired + 1
    /\ UNCHANGED granted

Next == Grant \/ Expire

Spec == Init /\ [][Next]_<<granted, expired>>
=============================================================================
