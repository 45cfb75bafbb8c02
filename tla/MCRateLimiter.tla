--------------------------- MODULE MCRateLimiter ---------------------------
(***************************************************************************)
(* Instances of RateLimiter for TLC.                                       *)
(***************************************************************************)
EXTENDS RateLimiter

Config(rate, capacity) == [rate |-> rate, capacity |-> capacity]

\* Session limits, and global limits that are faster or burst less.
Slow == {Config(0, 0), Config(1, 2)}
SlowOrFast == {Config(0, 0), Config(1, 2), Config(2, 1)}

\* No session limit, and one global limit.
Unlimited == {Config(0, 0)}
Limited == {Config(1, 2)}
=============================================================================
