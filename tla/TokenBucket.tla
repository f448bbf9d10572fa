---------------------------- MODULE TokenBucket ----------------------------
(***************************************************************************)
(* What the rate limiter promises: every address has, for every tier, one  *)
(* bucket that is filled as time passes and never forgotten.  The level is *)
(* counted in shares of a token: one token is Minute shares, and a bucket  *)
(* of Rpm tokens per minute gains Rpm shares per tick.                     *)
(***************************************************************************)
EXTENDS Naturals

CONSTANTS Clients,     \* addresses
          Tiers,       \* General, Bancho, Direct, Sensitive
          Rpm,         \* [Tiers -> Nat], the configured limits
          Minute,      \* ticks of a minute, and shares of a token
          Jumps        \* ticks that may pass in one step

VARIABLES time,        \* the clock
          level        \* [Clients -> [Tiers -> Nat]], shares in each bucket

Size(t)    == (IF Rpm[t] = 0 THEN 1 ELSE Rpm[t]) * Minute
AtMost(t, x) == IF x < Size(t) THEN x ELSE Size(t)

Init ==
    /\ time = 0
    /\ level = [c \in Clients |-> [t \in Tiers |-> Size(t)]]

\* d ticks pass for everybody
Wait(d) ==
    /\ time' = time + d
    /\ level' = [c \in Clients |-> [t \in Tiers |->
                    AtMost(t, level[c][t] + d * Rpm[t])]]

\* a request takes a token
Take(c, t) == /\ level[c][t] >= Minute
              /\ level' = [level EXCEPT ![c][t] = @ - Minute]
              /\ UNCHANGED time

Next == \/ \E d \in Jumps : Wait(d)
        \/ \E c \in Clients, t \in Tiers : Take(c, t)

Spec == Init /\ [][Next]_<<time, level>>
=============================================================================
