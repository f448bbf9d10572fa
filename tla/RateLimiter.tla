---------------------------- MODULE RateLimiter ----------------------------
(***************************************************************************)
(* The rate limiter in front of every route (utils/ratelimit.rs and the    *)
(* middleware of server/ratelimit.rs): a map from addresses to four token  *)
(* buckets that are filled lazily, when they are next asked, and a worker  *)
(* that forgets the addresses that were idle for long.  A minute is Minute *)
(* ticks and a token is Minute shares, so that the amounts are integers    *)
(* (f64 in the code, whose rounding is not modelled).                      *)
(***************************************************************************)
EXTENDS Naturals

CONSTANTS Clients,     \* addresses that are not whitelisted
          Tiers,       \* General, Bancho, Direct, Sensitive
          Rpm,         \* [Tiers -> Nat], the configured limits
          Minute,      \* ticks of a minute
          IdleMax,     \* idle time after which an address is forgotten
          Jumps,       \* ticks that may pass between two steps
          MaxClock,    \* bound on the clock
          Nothing

ASSUME RateAssumption ==
    /\ Rpm \in [Tiers -> Nat]
    /\ Minute \in Nat \ {0}
    /\ IdleMax \in Nat
    /\ Jumps \subseteq Nat \ {0}
    /\ MaxClock \in Nat
    /\ Nothing \notin Nat

VARIABLES clock,       \* the clock
          tracked,     \* addresses in the map
          tokens,      \* [Clients -> [Tiers -> Nat]], shares in each bucket
          updated,     \* [Clients -> [Tiers -> Nat]], last_update
          seen,        \* [Clients -> Nat], last_seen
          told         \* history: when a refused client may come back

limiterVars == <<clock, tracked, tokens, updated, seen, told>>

Capacity(t)  == (IF Rpm[t] = 0 THEN 1 ELSE Rpm[t]) * Minute

\* a refill that goes past the size of the bucket
MUTANT_Capped(t, x) == x

Capped(t, x) == IF x < Capacity(t) THEN x ELSE Capacity(t)

LimiterInit ==
    /\ clock = 0
    /\ tracked = {}
    /\ tokens = [c \in Clients |-> [t \in Tiers |-> 0]]
    /\ updated = [c \in Clients |-> [t \in Tiers |-> 0]]
    /\ seen = [c \in Clients |-> 0]
    /\ told = [c \in Clients |-> [t \in Tiers |-> Nothing]]

\* shares in the bucket of tier t once it is refilled; or_insert_with makes
\* a full bucket for an address that is not in the map
Refilled(c, t) ==
    IF c \in tracked
    THEN Capped(t, tokens[c][t] + (clock - updated[c][t]) * Rpm[t])
    ELSE Capacity(t)

\* the bucket asked is refilled, a new address gets four full ones
Touched(c, t, left) ==
    /\ tracked' = tracked \cup {c}
    /\ seen' = [seen EXCEPT ![c] = clock]
    /\ tokens' = [tokens EXCEPT ![c] =
                    [u \in Tiers |-> IF u = t THEN left
                                     ELSE IF c \in tracked THEN @[u]
                                     ELSE Capacity(u)]]
    /\ updated' = [updated EXCEPT ![c] =
                    [u \in Tiers |-> IF u = t \/ c \notin tracked THEN clock
                                     ELSE @[u]]]

\* the wait is rounded down
MUTANT_RetryAfter(t, left) ==
    IF Rpm[t] = 0 THEN Minute ELSE (Minute - left) \div Rpm[t]

\* the least whole number of ticks after which a token is there
RetryAfter(t, left) ==
    IF Rpm[t] = 0 THEN Minute
    ELSE CHOOSE w \in 1..Minute :
            /\ left + w * Rpm[t] >= Minute
            /\ \A v \in 1..(w - 1) : left + v * Rpm[t] < Minute

PassRequest(c, t) ==
    /\ Refilled(c, t) >= Minute
    /\ Touched(c, t, Refilled(c, t) - Minute)
    /\ told' = [told EXCEPT ![c][t] = Nothing]
    /\ UNCHANGED clock

RefuseRequest(c, t) ==
    /\ Refilled(c, t) < Minute
    /\ Touched(c, t, Refilled(c, t))
    /\ told' = [told EXCEPT ![c][t] = clock + RetryAfter(t, Refilled(c, t))]
    /\ UNCHANGED clock

\* an address is forgotten once it is idle for a tick
MUTANT_PruneIdle ==
    /\ tracked' = {c \in tracked : clock - seen[c] < 1}
    /\ UNCHANGED <<clock, tokens, updated, seen, told>>

\* prune_stale, every five minutes in the code, at any time here
PruneIdle ==
    /\ tracked' = {c \in tracked : clock - seen[c] < IdleMax}
    /\ UNCHANGED <<clock, tokens, updated, seen, told>>

Elapse(d) ==
    /\ clock + d <= MaxClock
    /\ clock' = clock + d
    /\ UNCHANGED <<tracked, tokens, updated, seen, told>>

LimiterNext ==
    \/ \E c \in Clients, t \in Tiers : PassRequest(c, t) \/ RefuseRequest(c, t)
    \/ PruneIdle
    \/ \E d \in Jumps : Elapse(d)

LimiterSpec == LimiterInit /\ [][LimiterNext]_limiterVars

-----------------------------------------------------------------------------

LimiterTypeOK ==
    /\ clock \in Nat
    /\ tracked \subseteq Clients
    /\ tokens \in [Clients -> [Tiers -> Nat]]
    /\ updated \in [Clients -> [Tiers -> Nat]]
    /\ seen \in [Clients -> Nat]
    /\ told \in [Clients -> [Tiers -> Nat \cup {Nothing}]]
    /\ \A c \in Clients : seen[c] <= clock
    /\ \A c \in Clients, t \in Tiers :
          /\ tokens[c][t] <= Capacity(t)
          /\ updated[c][t] <= seen[c]

(* A refused client that comes back when Retry-After told it to, and sent  *)
(* nothing that passed in between, finds a token (the rounding up of       *)
(* retry_after_seconds and the refill of try_acquire agree).               *)
RetryIsHonest ==
    \A c \in Clients, t \in Tiers :
        told[c][t] # Nothing /\ clock >= told[c][t] /\ Rpm[t] > 0
            => Refilled(c, t) >= Minute

(* Forgetting an idle address is invisible: what passes is what would pass *)
(* if every address had its buckets from the start and kept them.  It      *)
(* needs limits of at least one per minute and an IdleMax of at least a    *)
(* minute: the code prunes after ten.                                      *)
Promise == INSTANCE TokenBucket
              WITH time  <- clock,
                   level <- [c \in Clients |-> [t \in Tiers |-> Refilled(c, t)]]
NeverForgets == Promise!Spec
=============================================================================
