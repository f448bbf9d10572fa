------------------------------ MODULE MCAccess ------------------------------
(***************************************************************************)
(* What stands between a request and its handler, for TLC: the rate        *)
(* limiter, accounts with their sessions, and the machines of game logins. *)
(* The three share no state, so that their interleavings show nothing: a   *)
(* behaviour runs one of them, the others stay as they were started.       *)
(***************************************************************************)
EXTENDS RateLimiter, Accounts, Machines, TLC

VARIABLE subject       \* the component this behaviour is about

vars == <<limiterVars, accountVars, machineVars, subject>>

Init ==
    /\ subject \in {"limiter", "accounts", "machines"}
    /\ LimiterInit /\ AccountsInit /\ MachinesInit
    /\ subject # "accounts" => \A u \in Users : chosen[u] = NoAccount
    /\ subject # "machines" => users = {}

Next ==
    /\ UNCHANGED subject
    /\ \/ /\ subject = "limiter" /\ LimiterNext
          /\ UNCHANGED <<accountVars, machineVars>>
       \/ /\ subject = "accounts" /\ AccountsNext
          /\ UNCHANGED <<limiterVars, machineVars>>
       \/ /\ subject = "machines" /\ MachinesNext
          /\ UNCHANGED <<limiterVars, accountVars>>

Spec == Init /\ [][Next]_vars

TypeOK == LimiterTypeOK /\ AccountsTypeOK /\ MachinesTypeOK

-----------------------------------------------------------------------------
(* Values of the constants *)

\* requests and logins in flight are only compared
Symmetry == Permutations(Browsers) \cup Permutations(Logins)

\* three general requests and one to sign in per minute of four ticks
MCRpm == [t \in Tiers |-> IF t = "general" THEN 3 ELSE 1]

\* bounds: of crashes and sessions, and of recorded machines and the accounts
\* excused from their limit, there are two together
FewSessions == crashes + Cardinality(cookies) =< 2
FewRows     == Cardinality(machineRows) + Cardinality(excused) =< 2

\* a word, and the same with a blank before it
MCWordLength == [w \in Words |-> IF w = " w" THEN 9 ELSE 8]
MCTrimmed    == [w \in Words |-> "w"]

\* the words, and the md5 of the plain one typed by hand
MCTexts == {<<0, "w">>, <<0, " w">>, <<1, "w">>}

\* two plain names and one with a tag, whose clean name is another's
MCClean == [n \in Names |-> IF n = "[x] b" THEN "b" ELSE n]

\* two machines that share a disk, and one that says nothing of itself
MCHardware == {[adapters |-> "m", disk |-> "d"], [adapters |-> "n", disk |-> "d"],
               [adapters |-> "", disk |-> ""]}
=============================================================================
