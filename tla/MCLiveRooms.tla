----------------------------- MODULE MCLiveRooms -----------------------------
(***************************************************************************)
(* LiveRooms for TLC.                                                      *)
(***************************************************************************)
EXTENDS LiveRooms

Symmetry == Permutations(User)

\* Left out: score frames, load reports and the statuses that a row tells apart from
\* NOT_READY and OPEN no more than anything else does; and rounds, recorded games and
\* more than two tasks, while there are two rooms.
Plain ==
    /\ match_last_scores = {} /\ match_loaded_users = {}
    /\ \A m \in DOMAIN matches : \A s \in Slot :
         matches[m].slots[s].status \in {"OPEN", "NOT_READY", "PLAYING"}
    /\ \/ Cardinality(DOMAIN matches \cup DOMAIN multi_rooms \cup multi_games) =< 1
       \/ match_start_times = {} /\ multi_games = {} /\ Len(tasks) =< 2

\* Bounds: at most one room is stale or has a late task, and there are four rooms,
\* wrong ones and pending tasks in all, of which two are rooms and three are tasks.
FewAtOnce ==
    LET wrong == stale \cup {t.id : t \in {x \in ToSet(tasks) : x.late}}
        rooms == DOMAIN matches \cup DOMAIN multi_rooms \cup multi_games
    IN  /\ Cardinality(wrong) =< 1
        /\ Cardinality(rooms) + Cardinality(wrong) + Len(tasks) =< 4
=============================================================================
