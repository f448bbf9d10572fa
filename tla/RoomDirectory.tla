---------------------------- MODULE RoomDirectory ----------------------------
(***************************************************************************)
(* What the multiplayer rooms promise, without slots, statuses, counters   *)
(* and tables: who is in which room, who hosts it, which rooms have a      *)
(* round going, and who plays in one.  Module Multiplayer implements it.   *)
(***************************************************************************)
CONSTANTS User, NoUser, RoomId, Nowhere

VARIABLES
    room,     \* where each user is
    host,     \* each room's host, NoUser for a room that does not exist
    round,    \* does the room have a round going?
    playing   \* the users who play in their room's round

vars == <<room, host, round, playing>>

Occupants(m) == {u \in User : room[u] = m}
Others(u)    == Occupants(room[u]) \ {u}

Init ==
    /\ room = [u \in User |-> Nowhere]
    /\ host = [m \in RoomId |-> NoUser]
    /\ round = [m \in RoomId |-> FALSE]
    /\ playing = {}

\* The hosts once u is gone: its room passes to one of the others, or ceases to exist.
Successors(u) ==
    IF room[u] = Nowhere THEN {host}
    ELSE IF Others(u) = {} THEN {[host EXCEPT ![room[u]] = NoUser]}
    ELSE IF host[room[u]] # u THEN {host}
    ELSE {[host EXCEPT ![room[u]] = v] : v \in Others(u)}

\* The rounds once u plays no more: a round may end when nobody is left playing in it.
RoundsAfter(u) ==
    {round} \cup IF room[u] # Nowhere /\ Others(u) \cap playing = {}
                 THEN {[round EXCEPT ![room[u]] = FALSE]} ELSE {}

\* A room that ceases to exist takes its round with it.
Depart(u) ==
    /\ round' \in RoundsAfter(u)
    /\ room[u] # Nowhere /\ Others(u) = {} => ~ round'[room[u]]
    /\ playing' = playing \ {u}

Leave(u) ==
    /\ room[u] # Nowhere
    /\ room' = [room EXCEPT ![u] = Nowhere]
    /\ host' \in Successors(u)
    /\ Depart(u)

Open(u, m) ==
    /\ host[m] = NoUser
    /\ room' = [room EXCEPT ![u] = m]
    /\ \E h \in Successors(u) : host' = [h EXCEPT ![m] = u]
    /\ Depart(u)

\* A room is entered while somebody else is in it, be it the one u is in.
Enter(u, m) ==
    /\ Occupants(m) \ {u} # {}
    /\ room' = [room EXCEPT ![u] = m]
    /\ host' \in Successors(u)
    /\ Depart(u)

HandOver(u, v) ==
    /\ room[u] # Nowhere /\ host[room[u]] = u
    /\ v \in Occupants(room[u])
    /\ host' = [host EXCEPT ![room[u]] = v]
    /\ UNCHANGED <<room, round, playing>>

Begin(u) ==
    /\ room[u] # Nowhere /\ host[room[u]] = u
    /\ round' = [round EXCEPT ![room[u]] = TRUE]
    /\ playing' \in SUBSET (playing \cup Occupants(room[u]))
    /\ playing \subseteq playing'
    /\ UNCHANGED <<room, host>>

Stop(u) ==
    /\ round' \in RoundsAfter(u)
    /\ playing' = playing \ {u}
    /\ UNCHANGED <<room, host>>

Next ==
    \E u \in User :
        \/ Leave(u) \/ Stop(u) \/ Begin(u)
        \/ \E m \in RoomId : Open(u, m) \/ Enter(u, m)
        \/ \E v \in User : HandOver(u, v)

Spec == Init /\ [][Next]_vars
=============================================================================
