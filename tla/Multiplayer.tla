------------------------------ MODULE Multiplayer ------------------------------
(***************************************************************************)
(* The multiplayer rooms of the Bancho engine: the part of BanchoState     *)
(* (src/bancho/state.rs) that the OSU_MATCH_* packet arms of               *)
(* handle_client_packets (src/bancho/handler.rs) read and write.           *)
(*                                                                         *)
(* Every arm runs under one write lock, so each is one action.  An arm     *)
(* takes its user id from a session it looked up under an earlier read     *)
(* lock and never looks the session up again before it touches the rooms:  *)
(* here, as in the code, any user id may act at any time, in a room or     *)
(* not, online or not (module Sessions says when the id is stale).         *)
(*                                                                         *)
(* Definitions named MUTANT_x are bugs that the definition after them does *)
(* not have; nothing uses them.                                            *)
(*                                                                         *)
(* Left out: packets sent to clients, names, passwords (a refused join     *)
(* changes nothing), mods and teams, the beatmap, and the values of score  *)
(* frames (module MatchResult computes with those).                        *)
(***************************************************************************)
EXTENDS Integers, FiniteSetsExt, Functions

CONSTANTS
    User,        \* user ids of accounts (positive i32)
    NoUser,      \* the user id of an empty slot, -1
    MaxSlot,     \* index of a room's last slot, 15
    MaxMatchId   \* the largest room id, u16::MAX

ASSUME MultiplayerAssumption ==
    /\ NoUser \notin User
    /\ MaxSlot \in Nat
    /\ MaxMatchId \in Nat \ {0}

Slot    == 0 .. MaxSlot
MatchId == 1 .. MaxMatchId
NoMatch == 0                \* never a room id: next_match_id skips 0

VARIABLES
    matches,                   \* the live rooms: room id -> Match
    next_match_id,
    user_to_match,             \* user -> room id, NoMatch when absent
    match_start_times,         \* rooms with a running round's clock
    match_last_scores,         \* <<room, user>> with a last score frame
    match_loaded_users,        \* <<room, user>> that reported MATCH_LOAD_COMPLETE
    pending_disbanded_matches  \* disbanded rooms whose rows are still to delete

roundVars == <<match_start_times, match_last_scores, match_loaded_users>>
vars == <<matches, next_match_id, user_to_match, roundVars, pending_disbanded_matches>>

-----------------------------------------------------------------------------
(* Slots and rooms *)

HAS_PLAYER == {"NOT_READY", "READY", "NO_MAP", "PLAYING", "COMPLETE"}

MatchSlot == [status : {"OPEN", "LOCKED"} \cup HAS_PLAYER, user_id : User \cup {NoUser}]

Match == [host_id : User, in_progress : BOOLEAN, slots : [Slot -> MatchSlot]]

DefaultSlot == [status |-> "OPEN", user_id |-> NoUser]

NewMatch(u) ==
    [host_id     |-> u,
     in_progress |-> FALSE,
     slots       |-> [s \in Slot |-> IF s = 0 THEN [status |-> "NOT_READY", user_id |-> u]
                                              ELSE DefaultSlot]]

\* The slots of room r that user u holds, that hold a player, that have a status.
SeatsOf(r, u)   == {s \in Slot : r.slots[s].user_id = u}
Players(r)      == {s \in Slot : r.slots[s].status \in HAS_PLAYER /\ r.slots[s].user_id # NoUser}
InStatus(r, st) == {s \in Slot : r.slots[s].status = st}

\* The slots that a joining or moving player may take.
MUTANT_Unlocked(r) == Slot \ InStatus(r, "LOCKED")
FreeSlots(r)       == InStatus(r, "OPEN")

\* The room u's packets are about, and u's slot in it: the first one that holds u.
RoomOf(u)   == user_to_match[u]
IsSeated(u) == RoomOf(u) \in DOMAIN matches /\ SeatsOf(matches[RoomOf(u)], u) # {}
SeatOf(u)   == Min(SeatsOf(matches[RoomOf(u)], u))
Hosts(u)    == RoomOf(u) \in DOMAIN matches /\ matches[RoomOf(u)].host_id = u

-----------------------------------------------------------------------------
(* remove_user_from_match *)

MUTANT_NoSuccessor(r, u) == [r EXCEPT !.slots[Min(SeatsOf(r, u))] = DefaultSlot]

\* Room r once u's slot is back to its default; a leaving host is succeeded by
\* the first player left, in slot order.
Vacate(r, u) ==
    LET v == [r EXCEPT !.slots[Min(SeatsOf(r, u))] = DefaultSlot]
    IN  IF r.host_id = u /\ Players(v) # {}
        THEN [v EXCEPT !.host_id = v.slots[Min(Players(v))].user_id]
        ELSE v

MUTANT_Stays(u) == matches

\* The rooms once u has left: the room that loses its last player goes.
Without(u) ==
    IF ~ IsSeated(u) THEN matches
    ELSE LET r == Vacate(matches[RoomOf(u)], u)
         IN  IF Players(r) = {} THEN Restrict(matches, DOMAIN matches \ {RoomOf(u)})
                                ELSE [matches EXCEPT ![RoomOf(u)] = r]

Disbanded(u) == DOMAIN matches \ DOMAIN Without(u)

MUTANT_KeepsReports(ids) ==
    /\ match_start_times' = match_start_times \ ids
    /\ UNCHANGED <<match_last_scores, match_loaded_users>>

\* The per-round tables drop their entries for rooms ids.
ForgetRounds(ids) ==
    /\ match_start_times'  = match_start_times \ ids
    /\ match_last_scores'  = {e \in match_last_scores : e[1] \notin ids}
    /\ match_loaded_users' = {e \in match_loaded_users : e[1] \notin ids}

-----------------------------------------------------------------------------
(* try_finish_match *)

MUTANT_AllCompleted(r) ==
    /\ r.in_progress
    /\ \A s \in Slot : r.slots[s].status \notin HAS_PLAYER \ {"COMPLETE"}

\* The round is over when nobody plays any more: some completed, or nobody is left.
RoundOver(r) ==
    /\ r.in_progress
    /\ InStatus(r, "PLAYING") = {}
    /\ InStatus(r, "COMPLETE") # {} \/ \A s \in Slot : r.slots[s].status \notin HAS_PLAYER

Conclude(r) ==
    [r EXCEPT !.in_progress = FALSE,
              !.slots = [s \in Slot |-> IF r.slots[s].status \in HAS_PLAYER
                                        THEN [r.slots[s] EXCEPT !.status = "NOT_READY"]
                                        ELSE r.slots[s]]]

\* The rooms among rooms ms whose round try_finish_match(m) ends, and ms once it has.
Finished(ms, m) == {n \in {m} \cap DOMAIN ms : RoundOver(ms[n])}

TryFinish(ms, m) == [n \in DOMAIN ms |-> IF n \in Finished(ms, m) THEN Conclude(ms[n]) ELSE ms[n]]

-----------------------------------------------------------------------------
(* The handlers *)

Init ==
    /\ matches = [m \in {} |-> {}]
    /\ next_match_id = 1
    /\ user_to_match = [u \in User |-> NoMatch]
    /\ match_start_times = {} /\ match_last_scores = {} /\ match_loaded_users = {}
    /\ pending_disbanded_matches = {}

\* Room ids wrap around and skip 0.
MUTANT_KeepsZero(id) == (id + 1) % (MaxMatchId + 1)
NextMatchId(id)      == IF id = MaxMatchId THEN 1 ELSE id + 1

\* OSU_MATCH_CREATE: leave the old room, then insert the new one under the next
\* id, whatever room holds that id.
MatchCreate(u) ==
    LET id == next_match_id
        ms == Without(u)
    IN  /\ matches' = [m \in DOMAIN ms \cup {id} |-> IF m = id THEN NewMatch(u) ELSE ms[m]]
        /\ user_to_match' = [user_to_match EXCEPT ![u] = id]
        /\ next_match_id' = NextMatchId(id)
        /\ ForgetRounds(Disbanded(u))
        /\ pending_disbanded_matches' = {}

\* OSU_MATCH_JOIN: the room and a free slot are looked for before the old room
\* is left, so a player alone in room m who joins m disbands it and is nowhere.
MatchJoin(u, m) ==
    LET ms == Without(u)
    IN  /\ m \in DOMAIN matches
        /\ FreeSlots(matches[m]) # {}
        /\ \/ /\ m \in DOMAIN ms
              /\ matches' = [ms EXCEPT ![m].slots[Min(FreeSlots(ms[m]))] =
                                [status |-> "NOT_READY", user_id |-> u]]
              /\ user_to_match' = [user_to_match EXCEPT ![u] = m]
              /\ pending_disbanded_matches' = {}
           \/ /\ m \notin DOMAIN ms
              /\ matches' = ms
              /\ user_to_match' = [user_to_match EXCEPT ![u] = NoMatch]
              /\ pending_disbanded_matches' = pending_disbanded_matches \cup Disbanded(u)
        /\ ForgetRounds(Disbanded(u))
        /\ UNCHANGED next_match_id

\* OSU_MATCH_PART.  The round of the room left behind ends if u was the last
\* player still playing.  A user whose room id is stale only loses that id.
MatchPart(u) ==
    LET m  == RoomOf(u)
        ms == Without(u)
    IN  /\ m # NoMatch
        /\ user_to_match' = [user_to_match EXCEPT ![u] = NoMatch]
        /\ \/ /\ IsSeated(u)
              /\ matches' = TryFinish(ms, m)
              /\ ForgetRounds(Disbanded(u) \cup Finished(ms, m))
              /\ pending_disbanded_matches' =
                    IF m \in DOMAIN ms THEN pending_disbanded_matches ELSE {}
           \/ /\ ~ IsSeated(u)
              /\ UNCHANGED <<matches, roundVars, pending_disbanded_matches>>
        /\ UNCHANGED next_match_id

\* remove_session, as far as rooms go: no try_finish_match for the room left
\* behind, and no deletion of a disbanded room's rows.
RemoveSession(u) ==
    /\ matches' = Without(u)
    /\ user_to_match' = [user_to_match EXCEPT ![u] = NoMatch]
    /\ ForgetRounds(Disbanded(u))
    /\ UNCHANGED next_match_id

\* OSU_LOGOUT deletes the rows of every disbanded room, the eviction of an old
\* session by a new login does not.
Logout(u) == RemoveSession(u) /\ pending_disbanded_matches' = {}
Evict(u)  == /\ RemoveSession(u)
             /\ pending_disbanded_matches' = pending_disbanded_matches \cup Disbanded(u)

Moved(r, from, to) ==
    [r EXCEPT !.slots = [r.slots EXCEPT ![to] = r.slots[from], ![from] = DefaultSlot]]

\* OSU_MATCH_CHANGE_SLOT: u's slot moves, its status included, to an open slot s.
MatchChangeSlot(u, s) ==
    /\ IsSeated(u)
    /\ s \in FreeSlots(matches[RoomOf(u)])
    /\ matches' = [matches EXCEPT ![RoomOf(u)] = Moved(@, SeatOf(u), s)]
    /\ UNCHANGED <<next_match_id, user_to_match, roundVars, pending_disbanded_matches>>

SetStatus(u, st) ==
    /\ IsSeated(u)
    /\ matches' = [matches EXCEPT ![RoomOf(u)].slots[SeatOf(u)].status = st]
    /\ UNCHANGED <<next_match_id, user_to_match, roundVars, pending_disbanded_matches>>

\* OSU_MATCH_READY, _NOT_READY, _NO_BEATMAP, _HAS_BEATMAP: none of them asks
\* whether a round is in progress.
MatchReady(u)      == SetStatus(u, "READY")
MatchNotReady(u)   == SetStatus(u, "NOT_READY")
MatchNoBeatmap(u)  == SetStatus(u, "NO_MAP")
MatchHasBeatmap(u) == SetStatus(u, "NOT_READY")

MUTANT_AnyStatus(st) == TRUE
Lockable(st)         == st \in {"OPEN", "LOCKED"}

\* OSU_MATCH_LOCK: the host opens a locked slot or locks an open one.
MatchLock(u, s) ==
    /\ Hosts(u)
    /\ Lockable(matches[RoomOf(u)].slots[s].status)
    /\ matches' = [matches EXCEPT ![RoomOf(u)].slots[s].status =
                     IF @ = "OPEN" THEN "LOCKED" ELSE "OPEN"]
    /\ UNCHANGED <<next_match_id, user_to_match, roundVars, pending_disbanded_matches>>

\* Everybody in room r but u who was ready no longer is.
Settled(r, u) ==
    [r EXCEPT !.slots = [s \in Slot |-> IF /\ r.slots[s].user_id \notin {NoUser, u}
                                           /\ r.slots[s].status = "READY"
                                        THEN [r.slots[s] EXCEPT !.status = "NOT_READY"]
                                        ELSE r.slots[s]]]

\* OSU_MATCH_CHANGE_SETTINGS, the settings themselves left out.
MatchChangeSettings(u) ==
    /\ Hosts(u)
    /\ matches' = [matches EXCEPT ![RoomOf(u)] = Settled(@, u)]
    /\ UNCHANGED <<next_match_id, user_to_match, roundVars, pending_disbanded_matches>>

\* OSU_MATCH_CHANGE_HOST: the host names the player in slot s.
MatchChangeHost(u, s) ==
    /\ Hosts(u)
    /\ matches[RoomOf(u)].slots[s].status \in HAS_PLAYER
    /\ matches' = [matches EXCEPT ![RoomOf(u)].host_id = matches[RoomOf(u)].slots[s].user_id]
    /\ UNCHANGED <<next_match_id, user_to_match, roundVars, pending_disbanded_matches>>

\* OSU_MATCH_CHANGE_TEAM, teams left out: it also tries to finish the round.
MatchChangeTeam(u) ==
    /\ IsSeated(u)
    /\ matches' = TryFinish(matches, RoomOf(u))
    /\ ForgetRounds(Finished(matches, RoomOf(u)))
    /\ UNCHANGED <<next_match_id, user_to_match, pending_disbanded_matches>>

\* A room whose round starts: players without the beatmap stay behind, and so do
\* those who completed.
MUTANT_Toggled(r) ==
    [r EXCEPT !.in_progress = ~ @,
              !.slots = [s \in Slot |-> IF r.slots[s].status \in {"READY", "NOT_READY"}
                                        THEN [r.slots[s] EXCEPT !.status = "PLAYING"]
                                        ELSE r.slots[s]]]
Started(r) ==
    [r EXCEPT !.in_progress = TRUE,
              !.slots = [s \in Slot |-> IF r.slots[s].status \in {"READY", "NOT_READY"}
                                        THEN [r.slots[s] EXCEPT !.status = "PLAYING"]
                                        ELSE r.slots[s]]]

\* OSU_MATCH_START: the host starts a round, or starts it over.
MUTANT_KeepsLate(u) ==
    /\ Hosts(u)
    /\ matches' = [matches EXCEPT ![RoomOf(u)] = Started(@)]
    /\ match_start_times' = match_start_times \cup {RoomOf(u)}
    /\ UNCHANGED <<match_last_scores, match_loaded_users>>
    /\ UNCHANGED <<next_match_id, user_to_match, pending_disbanded_matches>>
MatchStart(u) ==
    /\ Hosts(u)
    /\ matches' = [matches EXCEPT ![RoomOf(u)] = Started(@)]
    /\ match_start_times' = match_start_times \cup {RoomOf(u)}
    /\ match_last_scores' = {e \in match_last_scores : e[1] # RoomOf(u)}
    /\ match_loaded_users' = {e \in match_loaded_users : e[1] # RoomOf(u)}
    /\ UNCHANGED <<next_match_id, user_to_match, pending_disbanded_matches>>

\* OSU_MATCH_LOAD_COMPLETE: recorded for the room id, live or not, round or not.
MatchLoadComplete(u) ==
    /\ RoomOf(u) # NoMatch
    /\ match_loaded_users' = match_loaded_users \cup {<<RoomOf(u), u>>}
    /\ UNCHANGED <<matches, next_match_id, user_to_match, match_start_times,
                   match_last_scores, pending_disbanded_matches>>

\* OSU_MATCH_SCORE_UPDATE (relay_match_score_frame): round or not.
MatchScoreUpdate(u) ==
    /\ IsSeated(u)
    /\ match_last_scores' = match_last_scores \cup {<<RoomOf(u), u>>}
    /\ UNCHANGED <<matches, next_match_id, user_to_match, match_start_times,
                   match_loaded_users, pending_disbanded_matches>>

\* OSU_MATCH_COMPLETE: u need not have been playing, nor a round be in progress.
MatchComplete(u) ==
    LET m  == RoomOf(u)
        ms == IF IsSeated(u) THEN [matches EXCEPT ![m].slots[SeatOf(u)].status = "COMPLETE"]
                             ELSE matches
    IN  /\ m # NoMatch
        /\ matches' = TryFinish(ms, m)
        /\ ForgetRounds(Finished(ms, m))
        /\ UNCHANGED <<next_match_id, user_to_match, pending_disbanded_matches>>

-----------------------------------------------------------------------------
(* Specifications *)

\* u enters or leaves a room other than by creating one.
Moves(u) == MatchPart(u) \/ Logout(u) \/ Evict(u) \/ \E m \in MatchId : MatchJoin(u, m)

\* u sets the status of its own slot by a packet other than MATCH_COMPLETE.
SetsStatus(u) == MatchReady(u) \/ MatchNotReady(u) \/ MatchNoBeatmap(u) \/ MatchHasBeatmap(u)

\* u does anything else in its room.
Acts(u) ==
    \/ \E s \in Slot : MatchChangeSlot(u, s) \/ MatchLock(u, s) \/ MatchChangeHost(u, s)
    \/ MatchChangeSettings(u) \/ MatchChangeTeam(u) \/ MatchStart(u)
    \/ MatchLoadComplete(u) \/ MatchScoreUpdate(u) \/ MatchComplete(u)

Step(u) == MatchCreate(u) \/ Moves(u) \/ SetsStatus(u) \/ Acts(u)

Next == \E u \in User : Step(u)
Spec == Init /\ [][Next]_vars

\* The same system while no live room holds the id that the counter comes back
\* to: fewer than MaxMatchId rooms are created in the lifetime of one of them.
CreateFresh(u) == next_match_id \notin DOMAIN matches /\ MatchCreate(u)
NextFresh == \E u \in User : CreateFresh(u) \/ Moves(u) \/ SetsStatus(u) \/ Acts(u)
SpecFresh == Init /\ [][NextFresh]_vars

\* The same system with clients that stay to the end of a round they play in:
\* until it ends they neither leave the room, nor lose their connection, nor
\* touch their status other than by completing; and who plays completes.
StatusOf(u) == IF IsSeated(u) THEN matches[RoomOf(u)].slots[SeatOf(u)].status ELSE "OPEN"
Committed(u) == StatusOf(u) \in {"PLAYING", "COMPLETE"} /\ matches[RoomOf(u)].in_progress
NextCommitted ==
    \E u \in User : \/ ~ Committed(u) /\ (CreateFresh(u) \/ Moves(u) \/ SetsStatus(u))
                    \/ Acts(u)
CompletesPlay(u) == StatusOf(u) = "PLAYING" /\ MatchComplete(u)
SpecCommitted == Init /\ [][NextCommitted]_vars /\ \A u \in User : WF_vars(CompletesPlay(u))

-----------------------------------------------------------------------------
(* Properties *)

TypeOK ==
    /\ DOMAIN matches \subseteq MatchId
    /\ \A m \in DOMAIN matches : matches[m] \in Match
    /\ next_match_id \in MatchId
    /\ user_to_match \in [User -> {NoMatch} \cup MatchId]
    /\ match_start_times \subseteq MatchId
    /\ match_last_scores \subseteq MatchId \X User
    /\ match_loaded_users \subseteq MatchId \X User
    /\ pending_disbanded_matches \subseteq MatchId

\* A slot holds a user id exactly when its status says that it has a player:
\* slots are searched by either, in different handlers.
SlotsConsistent ==
    \A m \in DOMAIN matches : \A s \in Slot :
        matches[m].slots[s].status \in HAS_PLAYER <=> matches[m].slots[s].user_id # NoUser

\* A user is in one slot of one room, and user_to_match names the room: joining,
\* creating and moving never leave a second copy of the player behind.
OneSeat ==
    \A m \in DOMAIN matches : \A s, t \in Slot :
        LET u == matches[m].slots[s].user_id
        IN  u # NoUser => /\ RoomOf(u) = m
                          /\ matches[m].slots[t].user_id = u => t = s

\* Every room has a host and the host is one of its players, however the host
\* and the others come and go (so no room is empty, and none is out of control).
HostIsPlayer ==
    \A m \in DOMAIN matches : \E s \in Players(matches[m]) :
        matches[m].slots[s].user_id = matches[m].host_id

\* Nobody is playing outside a round, and a round has its clock: no interleaving
\* of starts, late joins, moves and exits leaves a player behind in a round
\* that try_finish_match has ended.
PlayingInRound ==
    \A m \in DOMAIN matches :
        /\ InStatus(matches[m], "PLAYING") # {} => matches[m].in_progress
        /\ matches[m].in_progress => m \in match_start_times

\* A score frame is kept only for a live room: disbanding leaves none behind for
\* the next room with that id.
ScoresOfLiveRooms == \A e \in match_last_scores : e[1] \in DOMAIN matches

\* The converse of OneSeat: user_to_match names a room only for who sits in it.
\* It needs fresh ids: a room created over a live one unseats its players.
MappedIsSeated == \A u \in User : RoomOf(u) # NoMatch => IsSeated(u)

\* Clocks are those of running rounds, load reports those of live rooms.  It needs
\* fresh ids, too.
TablesOfRooms ==
    /\ match_start_times = {m \in DOMAIN matches : matches[m].in_progress}
    /\ \A e \in match_loaded_users : e[1] \in DOMAIN matches

Phase(m) == IF m \notin DOMAIN matches THEN "none"
            ELSE IF matches[m].in_progress THEN "round" ELSE "idle"
Emptied(m) == \A u \in User : <<m, u>> \notin match_loaded_users \cup match_last_scores

\* The tables keep the rounds apart: whenever room m opens or goes, or a round of it
\* begins, ends or starts over, no report and no frame of m is left, and the clocks are
\* exactly those of the rounds going on.  A report or frame that comes late, after its
\* round, stays until then, so that it is counted in no other round.
RoundsApart ==
    /\ []TablesOfRooms
    /\ [][\A m \in MatchId :
            \/ Phase(m)' # Phase(m)
            \/ \E u \in User : RoomOf(u) = m /\ MatchStart(u)
            => Emptied(m)']_vars

\* u's room and slot, <<NoMatch>> when nowhere.
Place(u) == IF IsSeated(u) THEN <<RoomOf(u), SeatOf(u)>> ELSE <<NoMatch>>

\* Nobody is seated, moved, unseated or taken out of play by a packet of somebody
\* else, the host included.
OnlyOwnSteps ==
    [][\A u \in User :
         \/ Place(u)' # Place(u)
         \/ StatusOf(u) = "PLAYING" /\ StatusOf(u)' # "PLAYING"
         => Step(u)]_vars

\* A round that somebody plays in ends, or its room does, if its players stay.
RoundEnds ==
    \A m \in MatchId :
        (m \in DOMAIN matches /\ InStatus(matches[m], "PLAYING") # {})
            ~> ~ (m \in DOMAIN matches /\ matches[m].in_progress)

\* The directory of rooms that the tables above stand for, and the promise that
\* every step is one of its steps: a user is in one place, a room exists while it
\* is occupied, it passes from its host to another occupant, and a round never
\* ends while one of the players who stay still plays.
Directory ==
    INSTANCE RoomDirectory WITH
        RoomId  <- MatchId,
        Nowhere <- NoMatch,
        room    <- user_to_match,
        host    <- [m \in MatchId |-> IF m \in DOMAIN matches THEN matches[m].host_id ELSE NoUser],
        round   <- [m \in MatchId |-> m \in DOMAIN matches /\ matches[m].in_progress],
        playing <- {u \in User : StatusOf(u) = "PLAYING"}

IsDirectory == Directory!Spec

=============================================================================
