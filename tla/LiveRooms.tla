------------------------------- MODULE LiveRooms -------------------------------
(***************************************************************************)
(* The multi database (src/db/multi.rs), which the web pages read the live *)
(* rooms from, kept up with the rooms of module Multiplayer by the packet  *)
(* arms of handle_client_packets (src/bancho/handler.rs).                  *)
(*                                                                         *)
(* An arm does not write to the database: under the lock on the rooms it   *)
(* spawns tasks, with a copy of the room, and goes on.  The tasks run when *)
(* the runtime runs them, in any order, one transaction or statement each, *)
(* and nobody looks at their failures.                                     *)
(*                                                                         *)
(* Of a row only the players are kept; a room's recorded games are         *)
(* abstracted to there being some.                                         *)
(*                                                                         *)
(* What is late and stale is history: no action reads it.  It says when    *)
(* the database has a reason not to show what the rooms are.               *)
(***************************************************************************)
EXTENDS Multiplayer, Sequences, SequencesExt

CONSTANTS
    MaxTasks,    \* a bound on the spawned tasks that have not run yet
    TasksFail    \* may a task fail?

ASSUME LiveRoomsAssumption == MaxTasks \in Nat /\ TasksFail \in BOOLEAN

VARIABLES
    multi_rooms,   \* the rows of table multi_rooms: room id -> row
    multi_games,   \* the rooms with rows in multi_games and multi_scores
    tasks,         \* the spawned tasks that have not run yet, oldest first; a task is
                   \* late when a newer one has written or deleted the row before it
    stale          \* the rooms for which the last task to have a say was late, or failed

allVars == <<vars, multi_rooms, multi_games, tasks, stale>>

-----------------------------------------------------------------------------
(* What the arms spawn *)

\* The row made from room r.
DbLiveRoom(r) == [players |-> {r.slots[s].user_id : s \in Players(r)}]

Upsert(m, r) == [kind |-> "upsert", id |-> m, late |-> FALSE, row |-> DbLiveRoom(r)]
Delete(m)    == [kind |-> "delete", id |-> m, late |-> FALSE]
Record(m)    == [kind |-> "record", id |-> m, late |-> FALSE]

\* sync_match_to_multi_db: the room as the arm leaves it, if it is still there.
Sync(m) == IF m \in DOMAIN matches' THEN <<Upsert(m, matches'[m])>> ELSE <<>>

\* cleanup_disbanded_matches, once u has left its room.
CleanUp(u) ==
    LET ids == SetToSeq(pending_disbanded_matches \cup Disbanded(u))
    IN  [i \in DOMAIN ids |-> Delete(ids[i])]

\* try_finish_match(m), given that it ends the round or not.
FinishRound(m, ends) == IF ends THEN <<Record(m)>> \o Sync(m) ELSE <<>>

Spawn(ts) ==
    /\ tasks' = tasks \o ts
    /\ Len(tasks') =< MaxTasks
    /\ UNCHANGED <<multi_rooms, multi_games, stale>>

-----------------------------------------------------------------------------
(* The arms *)

\* Did the step end the round of room m, that m survived?
Ends(m) == /\ m \in DOMAIN matches /\ matches[m].in_progress
           /\ m \in DOMAIN matches' /\ ~ matches'[m].in_progress

\* A room that is left by joining or creating another is not synced.
CreateRoom(u) == MatchCreate(u) /\ Spawn(Sync(next_match_id) \o CleanUp(u))

\* A player who disbands the room it joins gets nothing synced or cleaned up.
MUTANT_JoinUnsynced(u, m) == MatchJoin(u, m) /\ Spawn(CleanUp(u))
JoinRoom(u, m) ==
    /\ MatchJoin(u, m)
    /\ Spawn(IF user_to_match'[u] = m THEN Sync(m) \o CleanUp(u) ELSE <<>>)

PartRoom(u) ==
    LET m == RoomOf(u)
    IN  /\ MatchPart(u)
        /\ Spawn(IF ~ IsSeated(u) THEN <<>>
                 ELSE IF m \in Disbanded(u) THEN CleanUp(u)
                 ELSE FinishRound(m, Ends(m)) \o Sync(m))

\* The room that a logout leaves behind, with players in it, is not synced.
LogoutRoom(u) == Logout(u) /\ Spawn(CleanUp(u))
EvictRoom(u)  == Evict(u) /\ Spawn(<<>>)

\* The arms that change the room they are about, and sync it.
ChangeRoom(u) ==
    /\ \/ SetsStatus(u) \/ MatchChangeSettings(u) \/ MatchStart(u)
       \/ \E s \in Slot : MatchChangeSlot(u, s) \/ MatchLock(u, s) \/ MatchChangeHost(u, s)
    /\ Spawn(Sync(RoomOf(u)))

\* OSU_MATCH_CHANGE_MODS, and OSU_MATCH_LOCK of a taken slot: a sync all the same.
ChangeMods(u) == /\ IsSeated(u) \/ Hosts(u)
                 /\ UNCHANGED vars
                 /\ Spawn(Sync(RoomOf(u)))

ChangeTeam(u) ==
    LET m == RoomOf(u)
    IN  MatchChangeTeam(u) /\ Spawn(FinishRound(m, Ends(m)) \o Sync(m))

\* A player who completes is not synced, unless the round ends.
CompleteRound(u) ==
    LET m == RoomOf(u)
    IN  MatchComplete(u) /\ Spawn(FinishRound(m, Ends(m)))

Report(u) == (MatchLoadComplete(u) \/ MatchScoreUpdate(u)) /\ Spawn(<<>>)

Handle(u) ==
    \/ CreateRoom(u) \/ PartRoom(u) \/ LogoutRoom(u) \/ EvictRoom(u)
    \/ \E m \in MatchId : JoinRoom(u, m)
    \/ ChangeRoom(u) \/ ChangeMods(u) \/ ChangeTeam(u) \/ CompleteRound(u) \/ Report(u)

-----------------------------------------------------------------------------
(* The database *)

UpsertRoom(m, row) ==
    /\ multi_rooms' = [n \in DOMAIN multi_rooms \cup {m} |-> IF n = m THEN row ELSE multi_rooms[n]]
    /\ UNCHANGED multi_games

RecordMultiGame(m) == multi_games' = multi_games \cup {m} /\ UNCHANGED multi_rooms

DeleteRoomData(m) ==
    /\ multi_rooms' = Restrict(multi_rooms, DOMAIN multi_rooms \ {m})
    /\ multi_games' = multi_games \ {m}

\* Task i leaves the queue.  Where it decides the row, it leaves older ones late.
Leaves(i) ==
    LET t == tasks[i]
        Outrun(j) == j < i /\ tasks[j].id = t.id /\ t.kind # "record"
    IN  tasks' = RemoveAt([j \in DOMAIN tasks |->
                             [tasks[j] EXCEPT !.late = @ \/ Outrun(j)]], i)

RunTask(i) ==
    LET t == tasks[i]
    IN  /\ \/ t.kind = "upsert" /\ UpsertRoom(t.id, t.row)
           \/ t.kind = "record" /\ RecordMultiGame(t.id)
           \/ t.kind = "delete" /\ DeleteRoomData(t.id)
        /\ stale' = IF t.late THEN stale \cup {t.id}
                    ELSE IF t.kind = "record" THEN stale ELSE stale \ {t.id}
        /\ Leaves(i)
        /\ UNCHANGED vars

FailTask(i) ==
    LET t == tasks[i]
    IN  /\ TasksFail
        /\ stale' = IF t.kind = "record" THEN stale ELSE stale \cup {t.id}
        /\ Leaves(i)
        /\ UNCHANGED <<vars, multi_rooms, multi_games>>

InitDb == multi_rooms = [m \in {} |-> {}] /\ multi_games = {} /\ tasks = <<>> /\ stale = {}

MUTANT_KeepsGhosts == UNCHANGED <<multi_rooms, multi_games>>
ClearOnStartup     == multi_rooms' = [m \in {} |-> {}] /\ multi_games' = {}

\* The process dies, with the rooms and the tasks, and comes back.
Restart ==
    /\ matches' = [m \in {} |-> {}]
    /\ next_match_id' = 1
    /\ user_to_match' = [u \in User |-> NoMatch]
    /\ match_start_times' = {} /\ match_last_scores' = {} /\ match_loaded_users' = {}
    /\ pending_disbanded_matches' = {}
    /\ tasks' = <<>> /\ stale' = {}
    /\ ClearOnStartup

LiveInit == Init /\ InitDb

\* The tasks run in any order.
LiveNext ==
    \/ Restart
    \/ \E u \in User : Handle(u)
    \/ \E i \in DOMAIN tasks : RunTask(i) \/ FailTask(i)

LiveSpec == LiveInit /\ [][LiveNext]_allVars

-----------------------------------------------------------------------------
(* Properties *)

AtRest == tasks = <<>> /\ pending_disbanded_matches = {}

\* Once no task is left and no disbanded room waits for its cleanup, the database
\* only contains data for active rooms, as get_all_live_rooms says of it: no row
\* and no game of a room that is gone.
OnlyActiveRooms == AtRest => DOMAIN multi_rooms \cup multi_games \subseteq DOMAIN matches

\* What the tasks do keep, in whatever order they run: at rest, the rows and games of
\* a room that is gone are there because the last task to write or delete its row
\* failed, or was overtaken by a newer one; the next in its turn clears them up.
OnlyStaleGhosts ==
    AtRest => DOMAIN multi_rooms \cup multi_games \subseteq DOMAIN matches \cup stale

\* The row of a room misses one of its players, once no task is left, for the same
\* reason only: every arm that seats somebody syncs the room.  (Who left may still
\* be shown.)
NobodyMissing ==
    tasks = <<>> =>
        \A m \in (DOMAIN matches \cap DOMAIN multi_rooms) \ stale :
            DbLiveRoom(matches[m]).players \subseteq multi_rooms[m].players

LiveTypeOK ==
    /\ TypeOK
    /\ \A m \in DOMAIN multi_rooms : multi_rooms[m] \in [players : SUBSET User]
    /\ DOMAIN multi_rooms \cup multi_games \subseteq MatchId
    /\ \A i \in DOMAIN tasks : tasks[i].kind \in {"upsert", "record", "delete"}
    /\ stale \subseteq MatchId
=============================================================================
