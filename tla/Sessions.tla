------------------------------- MODULE Sessions -------------------------------
(***************************************************************************)
(* The sessions of the Bancho engine and everything that is kept per       *)
(* connected user: channel members, lobby subscribers, spectators and      *)
(* seats (BanchoState in src/bancho/state.rs), read and written by         *)
(* concurrent HTTP requests: logins and packet polls                       *)
(* (src/server/bancho.rs, src/bancho/handler.rs).                          *)
(*                                                                         *)
(* The state is behind one read-write lock, and a request takes it many    *)
(* times: a login to evict the user's old session and again, some database *)
(* queries later, to add the new one; a poll once to look its session up   *)
(* for each packet and once more to handle the packet, with the user id    *)
(* that it looked up.  An action is what happens under the lock once.      *)
(*                                                                         *)
(* Rooms are reduced to who has a seat: module Multiplayer has the rest.   *)
(* The packets that sessions queue up are left out.                        *)
(***************************************************************************)
EXTENDS Integers, FiniteSets, Functions

CONSTANTS
    User,
    Nobody,              \* not a user: nobody is spectated
    Token,               \* session tokens, UUIDs
    Request,             \* HTTP requests that can be under way at once
    Name,                \* the channel names that clients send
    Channel,             \* the ones of them that are channels
    AutoJoin,            \* the channels that a login joins, #osu and #announce
    MultiplayerChannel,  \* #multiplayer
    SpectatorChannel     \* #spectator

ASSUME SessionsAssumption ==
    /\ Nobody \notin User
    /\ Channel \subseteq Name
    /\ AutoJoin \subseteq Channel
    /\ {MultiplayerChannel, SpectatorChannel} \subseteq Channel

VARIABLES
    sessions,            \* token -> session
    user_id_to_token,    \* user -> token of its session
    members,             \* channel -> the users in it
    lobby_subscribers,
    seated,              \* the users with a seat in a room (user_to_match)
    spectators,          \* host -> the users who watch it
    spectating_target,   \* user -> the host it watches, or Nobody
    request,             \* what each request is doing
    crossed              \* users who ever had two requests under way at once

present == <<members, lobby_subscribers, seated, spectators, spectating_target>>
vars == <<sessions, user_id_to_token, present, request, crossed>>

Session == [user_id : User, channels : SUBSET Name]

-----------------------------------------------------------------------------
(* What requests are doing *)

Idle           == [at |-> "idle"]
LoggingIn(u, t) == [at |-> "login", user |-> u, token |-> t]          \* evicted, not yet added
Polling(u, t)   == [at |-> "poll", user |-> u, token |-> t]           \* between two packets
Handling(u, t)  == [at |-> "packet", user |-> u, token |-> t]         \* session looked up
Joining(u, t, ch) == [at |-> "join", user |-> u, token |-> t, channel |-> ch]

Busy(u) == {q \in Request : request[q] # Idle /\ request[q].user = u}
Goes(q, state) == request' = [request EXCEPT ![q] = state]
Poll(q)    == Polling(request[q].user, request[q].token)
IsAt(q, at) == request[q].at = at

\* A request of user u begins.
Begins(q, u) ==
    /\ request[q] = Idle
    /\ crossed' = IF Busy(u) = {} THEN crossed ELSE crossed \cup {u}

\* A token that nothing refers to: UUIDs are never used twice.
IsFresh(t) == t \notin DOMAIN sessions /\ \A q \in Request : request[q] # Idle => request[q].token # t

-----------------------------------------------------------------------------
(* remove_session *)

\* stop_spectating and remove_session's loop over u's own spectators.
MUTANT_KeepsTargets(u) ==
    /\ spectators' = [h \in User |-> IF h = u THEN {} ELSE spectators[h] \ {u}]
    /\ spectating_target' = [spectating_target EXCEPT ![u] = Nobody]
ForgetSpectating(u) ==
    /\ spectators' = [h \in User |-> IF h = u THEN {} ELSE spectators[h] \ {u}]
    /\ spectating_target' =
         [v \in User |-> IF v = u \/ spectating_target[v] = u THEN Nobody ELSE spectating_target[v]]

\* The session is found by its token, everything else by its user's id.
MUTANT_StaysIndexed(t) ==
    LET u == sessions[t].user_id
    IN  /\ sessions' = Restrict(sessions, DOMAIN sessions \ {t})
        /\ lobby_subscribers' = lobby_subscribers \ {u}
        /\ seated' = seated \ {u}
        /\ members' = [ch \in Channel |-> members[ch] \ {u}]
        /\ ForgetSpectating(u)
        /\ UNCHANGED user_id_to_token
MUTANT_StaysInLobby(t) ==
    LET u == sessions[t].user_id
    IN  /\ sessions' = Restrict(sessions, DOMAIN sessions \ {t})
        /\ user_id_to_token' = Restrict(user_id_to_token, DOMAIN user_id_to_token \ {u})
        /\ seated' = seated \ {u}
        /\ members' = [ch \in Channel |-> members[ch] \ {u}]
        /\ ForgetSpectating(u)
        /\ UNCHANGED lobby_subscribers
RemoveSession(t) ==
    LET u == sessions[t].user_id
    IN  /\ sessions' = Restrict(sessions, DOMAIN sessions \ {t})
        /\ user_id_to_token' = Restrict(user_id_to_token, DOMAIN user_id_to_token \ {u})
        /\ lobby_subscribers' = lobby_subscribers \ {u}
        /\ seated' = seated \ {u}
        /\ members' = [ch \in Channel |-> members[ch] \ {u}]
        /\ ForgetSpectating(u)

-----------------------------------------------------------------------------
(* handle_login *)

Init ==
    /\ sessions = [t \in {} |-> {}]
    /\ user_id_to_token = [u \in {} |-> {}]
    /\ members = [ch \in Channel |-> {}]
    /\ lobby_subscribers = {}
    /\ seated = {}
    /\ spectators = [h \in User |-> {}]
    /\ spectating_target = [u \in User |-> Nobody]
    /\ request = [q \in Request |-> Idle]
    /\ crossed = {}

\* The user's previous session is evicted, if the index knows of one.
MUTANT_KeepsOld(q, u, t) ==
    /\ Begins(q, u)
    /\ IsFresh(t)
    /\ Goes(q, LoggingIn(u, t))
    /\ UNCHANGED <<sessions, user_id_to_token, present>>
LoginEvicts(q, u, t) ==
    /\ Begins(q, u)
    /\ IsFresh(t)
    /\ Goes(q, LoggingIn(u, t))
    /\ IF u \in DOMAIN user_id_to_token THEN RemoveSession(user_id_to_token[u])
       ELSE UNCHANGED <<sessions, user_id_to_token, present>>

\* The new session is added, whatever was added in the meantime.
LoginAdds(q) ==
    LET u == request[q].user
        t == request[q].token
    IN  /\ IsAt(q, "login")
        /\ members' = [ch \in Channel |-> IF ch \in AutoJoin THEN members[ch] \cup {u} ELSE members[ch]]
        /\ sessions' = [k \in DOMAIN sessions \cup {t} |->
                          IF k = t THEN [user_id |-> u, channels |-> AutoJoin] ELSE sessions[k]]
        /\ user_id_to_token' = [v \in DOMAIN user_id_to_token \cup {u} |->
                                  IF v = u THEN t ELSE user_id_to_token[v]]
        /\ Goes(q, Idle)
        /\ UNCHANGED <<lobby_subscribers, seated, spectators, spectating_target, crossed>>

-----------------------------------------------------------------------------
(* handle_packet_poll and handle_client_packets *)

\* A request with the token of no session is told to log in again.
PollStarts(q, t) ==
    /\ t \in DOMAIN sessions
    /\ Begins(q, sessions[t].user_id)
    /\ Goes(q, Polling(sessions[t].user_id, t))
    /\ UNCHANGED <<sessions, user_id_to_token, present>>

\* There is another packet: its session is looked up, and the poll ends if it is gone.
LookUp(q) ==
    /\ IsAt(q, "poll")
    /\ Goes(q, IF request[q].token \in DOMAIN sessions
               THEN Handling(sessions[request[q].token].user_id, request[q].token) ELSE Idle)
    /\ UNCHANGED <<sessions, user_id_to_token, present, crossed>>

PollEnds(q) ==
    /\ IsAt(q, "poll")
    /\ Goes(q, Idle)
    /\ UNCHANGED <<sessions, user_id_to_token, present, crossed>>

\* The session of q's token gains and loses channels, if it is still there.
MUTANT_OrDefault(q, gained, lost) ==
    sessions' = [t \in DOMAIN sessions \cup {request[q].token} |->
                   IF t \notin DOMAIN sessions THEN [channels |-> gained \ lost]
                   ELSE IF t = request[q].token
                   THEN [sessions[t] EXCEPT !.channels = (@ \cup gained) \ lost] ELSE sessions[t]]
SetChannels(q, gained, lost) ==
    sessions' = [t \in DOMAIN sessions |->
                   IF t = request[q].token
                   THEN [sessions[t] EXCEPT !.channels = (@ \cup gained) \ lost] ELSE sessions[t]]

HasSession(q) == request[q].token \in DOMAIN sessions

\* OSU_CHANNEL_JOIN takes the lock twice: for the session, which takes any name, then
\* for the channel, if there is one of that name.
ChannelJoin(q, ch) ==
    /\ IsAt(q, "packet")
    /\ Goes(q, IF HasSession(q) THEN Joining(request[q].user, request[q].token, ch) ELSE Poll(q))
    /\ SetChannels(q, {ch}, {})
    /\ UNCHANGED <<user_id_to_token, present, crossed>>

ChannelJoined(q) ==
    /\ IsAt(q, "join")
    /\ members' = [ch \in Channel |-> IF ch = request[q].channel
                                      THEN members[ch] \cup {request[q].user} ELSE members[ch]]
    /\ Goes(q, Poll(q))
    /\ UNCHANGED <<sessions, user_id_to_token, lobby_subscribers, seated,
                   spectators, spectating_target, crossed>>

MUTANT_PartsSession(q, ch) ==
    /\ IsAt(q, "packet")
    /\ SetChannels(q, {}, {ch})
    /\ Goes(q, Poll(q))
    /\ UNCHANGED <<user_id_to_token, present, crossed>>
ChannelPart(q, ch) ==
    /\ IsAt(q, "packet")
    /\ SetChannels(q, {}, {ch})
    /\ members' = [k \in Channel |-> IF k = ch /\ HasSession(q)
                                     THEN members[k] \ {request[q].user} ELSE members[k]]
    /\ Goes(q, Poll(q))
    /\ UNCHANGED <<user_id_to_token, lobby_subscribers, seated, spectators, spectating_target, crossed>>

\* From here on the arms act on the user id, session or no session.
LobbyJoin(q) ==
    /\ IsAt(q, "packet")
    /\ lobby_subscribers' = lobby_subscribers \cup {request[q].user}
    /\ Goes(q, Poll(q))
    /\ UNCHANGED <<sessions, user_id_to_token, members, seated, spectators, spectating_target, crossed>>

LobbyPart(q) ==
    /\ IsAt(q, "packet")
    /\ lobby_subscribers' = lobby_subscribers \ {request[q].user}
    /\ Goes(q, Poll(q))
    /\ UNCHANGED <<sessions, user_id_to_token, members, seated, spectators, spectating_target, crossed>>

\* OSU_MATCH_CREATE and a granted OSU_MATCH_JOIN; OSU_MATCH_PART, which leaves the
\* channel alone, and an OSU_MATCH_JOIN of one's own room.
TakeSeat(q) ==
    /\ IsAt(q, "packet")
    /\ seated' = seated \cup {request[q].user}
    /\ SetChannels(q, {MultiplayerChannel}, {})
    /\ members' = [members EXCEPT ![MultiplayerChannel] = @ \cup {request[q].user}]
    /\ Goes(q, Poll(q))
    /\ UNCHANGED <<user_id_to_token, lobby_subscribers, spectators, spectating_target, crossed>>

LeaveSeat(q) ==
    /\ IsAt(q, "packet")
    /\ seated' = seated \ {request[q].user}
    /\ Goes(q, Poll(q))
    /\ UNCHANGED <<sessions, user_id_to_token, members, lobby_subscribers,
                   spectators, spectating_target, crossed>>

\* The old host is left even if the new one turns out not to be there.
CanWatch(u, h) == h \in DOMAIN user_id_to_token /\ h # u

StartSpectating(q, h) ==
    LET u    == request[q].user
        left == [k \in User |-> spectators[k] \ {u}]
    IN  /\ IsAt(q, "packet")
        /\ \/ /\ CanWatch(u, h)
              /\ spectators' = [left EXCEPT ![h] = @ \cup {u}]
              /\ spectating_target' = [spectating_target EXCEPT ![u] = h]
              /\ SetChannels(q, {SpectatorChannel}, {})
              /\ members' = [members EXCEPT ![SpectatorChannel] = @ \cup {u}]
           \/ /\ ~ CanWatch(u, h)
              /\ spectators' = left
              /\ spectating_target' = [spectating_target EXCEPT ![u] = Nobody]
              /\ UNCHANGED <<sessions, members>>
        /\ Goes(q, Poll(q))
        /\ UNCHANGED <<user_id_to_token, lobby_subscribers, seated, crossed>>

StopSpectating(q) ==
    LET u == request[q].user
    IN  /\ IsAt(q, "packet")
        /\ spectators' = [h \in User |-> spectators[h] \ {u}]
        /\ spectating_target' = [spectating_target EXCEPT ![u] = Nobody]
        /\ Goes(q, Poll(q))
        /\ UNCHANGED <<sessions, user_id_to_token, members, lobby_subscribers, seated, crossed>>

\* OSU_LOGOUT ends the poll, whether it found a session to remove or not.
Logout(q) ==
    /\ IsAt(q, "packet")
    /\ Goes(q, Idle)
    /\ IF HasSession(q) THEN RemoveSession(request[q].token)
       ELSE UNCHANGED <<sessions, user_id_to_token, present>>
    /\ UNCHANGED crossed

\* Every other packet leaves all this as it is.
OtherPacket(q) ==
    /\ IsAt(q, "packet")
    /\ Goes(q, Poll(q))
    /\ UNCHANGED <<sessions, user_id_to_token, present, crossed>>

Arm(q) ==
    \/ \E ch \in Name : ChannelJoin(q, ch) \/ ChannelPart(q, ch)
    \/ \E h \in User : StartSpectating(q, h)
    \/ StopSpectating(q) \/ LobbyJoin(q) \/ LobbyPart(q) \/ TakeSeat(q) \/ LeaveSeat(q)
    \/ Logout(q) \/ OtherPacket(q)

Next ==
    \E q \in Request :
        \/ \E t \in Token : PollStarts(q, t) \/ \E u \in User : LoginEvicts(q, u, t)
        \/ LoginAdds(q) \/ LookUp(q) \/ PollEnds(q) \/ ChannelJoined(q) \/ Arm(q)

Spec == Init /\ [][Next]_vars

-----------------------------------------------------------------------------
(* Properties *)

TypeOK ==
    /\ DOMAIN sessions \subseteq Token
    /\ \A t \in DOMAIN sessions : sessions[t] \in Session
    /\ DOMAIN user_id_to_token \subseteq User
    /\ members \in [Channel -> SUBSET User]
    /\ lobby_subscribers \subseteq User /\ seated \subseteq User /\ crossed \subseteq User
    /\ spectators \in [User -> SUBSET User]
    /\ spectating_target \in [User -> User \cup {Nobody}]

\* The index never dangles: it leads to a session of the user it is asked for.
\* Packets to a user go through it.
IndexSound ==
    \A u \in DOMAIN user_id_to_token :
        /\ user_id_to_token[u] \in DOMAIN sessions
        /\ sessions[user_id_to_token[u]].user_id = u

\* The two tables of spectating are each other's inverse, and nobody watches itself
\* or somebody who is not connected: logging out, being evicted and changing hosts
\* clean both up, in any interleaving.
SpectatorsAgree ==
    \A u, h \in User :
        /\ u \in spectators[h] <=> spectating_target[u] = h
        /\ u \in spectators[h] => u # h /\ h \in DOMAIN user_id_to_token

\* A user whose requests never overlapped has one session at most and is found
\* through the index.
OneSessionUncrossed ==
    \A t \in DOMAIN sessions :
        sessions[t].user_id \notin crossed =>
            /\ sessions[t].user_id \in DOMAIN user_id_to_token
            /\ user_id_to_token[sessions[t].user_id] = t

\* Such a user leaves no trace once it is gone: it is in no channel, lobby, seat or
\* audience without a session.
OnlineUncrossed ==
    \A u \in User \ (crossed \cup DOMAIN user_id_to_token) :
        /\ \A ch \in Channel : u \notin members[ch]
        /\ u \notin lobby_subscribers \cup seated
        /\ spectating_target[u] = Nobody

\* Such a user's session and the channels agree on the channels that it is in, but
\* for the one that it is about to join.
ChannelsAgree ==
    \A t \in DOMAIN sessions : \A ch \in Channel :
        LET u == sessions[t].user_id
        IN  u \notin crossed =>
              \/ ch \in sessions[t].channels <=> u \in members[ch]
              \/ \E q \in Request : request[q] = Joining(u, t, ch)

\* handle_login: "Evict any previous session for this user".
OneSession ==
    \A t, k \in DOMAIN sessions : sessions[t].user_id = sessions[k].user_id => t = k
=============================================================================
