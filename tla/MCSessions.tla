------------------------------ MODULE MCSessions ------------------------------
(***************************************************************************)
(* Sessions for TLC.  Users, tokens and requests are only compared.        *)
(***************************************************************************)
EXTENDS Sessions, TLC, FiniteSets

Symmetry == Permutations(User) \cup Permutations(Token) \cup Permutations(Request)

\* Bounds: one user at a time is in the lobby or has a seat, and one session at a time
\* lists a name that is no channel's, while nobody is or has.
OneAround ==
    LET around   == lobby_subscribers \cup seated
        mistaken == {t \in DOMAIN sessions : ~ sessions[t].channels \subseteq Channel}
    IN  Cardinality(around) + Cardinality(mistaken) =< 1
=============================================================================
