---------------------------- MODULE MCRateLimiter ----------------------------
(* A small instance of RateLimiter for TLC. *)
EXTENDS RateLimiter

CONSTANTS c1, c2

TwoClients == {c1, c2}
All(n) == [c \in TwoClients |-> n]

\* The windows: one asks for completions, with a key that has a limit of its own, the other for
\* embeddings, through a gateway whose clock is ahead.  Tokens are not limited.
Windows ==
  [chats |-> {c1}, perIP |-> 2, perUser |-> [c \in TwoClients |-> IF c = c1 THEN 2 ELSE 1],
   perMinute |-> All(0), sizes |-> {1}, ahead |-> [c \in TwoClients |-> IF c = c1 THEN 0 ELSE 1],
   late |-> {"ip", "rpm"}, failing |-> {"ip", "rpm"}, time |-> 7, posts |-> 4]

\* The tokens: both ask for completions, and the windows are wide.
Tokens ==
  [chats |-> TwoClients, perIP |-> 3, perUser |-> All(3), perMinute |-> All(2), sizes |-> {1, 2},
   ahead |-> All(0), late |-> {"expire", "again"}, failing |-> {"incr", "expire"}, time |-> 3, posts |-> 3]

WindowsOrTokens == {Windows, Tokens}
=============================================================================
