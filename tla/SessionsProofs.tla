---------------------------- MODULE SessionsProofs ----------------------------
(***************************************************************************)
(* Theorems about module Sessions, for any number of users, requests and   *)
(* channels.                                                               *)
(*                                                                         *)
(* What is per user is written by requests that carry a user id and a      *)
(* token, so the invariant has two halves: what requests know, and what    *)
(* the tables say of each other.  Of a user whose requests overlapped only *)
(* the index and the spectators are sound; the rest is said of the others. *)
(***************************************************************************)
EXTENDS Sessions, TLAPS

-----------------------------------------------------------------------------
(* What requests know *)

RequestState ==
    {Idle} \cup [at : {"login", "poll", "packet"}, user : User, token : Token]
           \cup [at : {"join"}, user : User, token : Token, channel : Name]

\* A request in one of these states works for a session.
Serving == {"poll", "packet", "join"}

RequestsTyped == request \in [Request -> RequestState]

\* The token of a login is new: no session has it, and no other request.
LoginTokensNew ==
    \A q \in Request : IsAt(q, "login") =>
        /\ request[q].token \notin DOMAIN sessions
        /\ \A p \in Request \ {q} : request[p] # Idle => request[p].token # request[q].token

\* The user id that a poll works with is its session's, while there is one.
UsersRemembered ==
    \A q \in Request :
        request[q].at \in Serving /\ request[q].token \in DOMAIN sessions
            => sessions[request[q].token].user_id = request[q].user

\* An uncrossed user has one request at a time,
Alone ==
    \A p, q \in Request :
        /\ request[p] # Idle /\ request[q] # Idle
        /\ request[p].user = request[q].user
        /\ request[q].user \notin crossed
        => p = q

\* so nothing ends its session under it,
SessionHeld ==
    \A q \in Request :
        request[q].at \in Serving /\ request[q].user \notin crossed
            => request[q].token \in DOMAIN sessions

\* and nothing adds one between the two halves of its login.
LoggedOut ==
    \A q \in Request :
        IsAt(q, "login") /\ request[q].user \notin crossed
            => request[q].user \notin DOMAIN user_id_to_token

\* The first half of a channel join has put the channel into the session.
HalfJoined ==
    \A q \in Request :
        IsAt(q, "join") /\ request[q].user \notin crossed
            => request[q].channel \in sessions[request[q].token].channels

RequestsInv ==
    /\ RequestsTyped /\ LoginTokensNew /\ UsersRemembered
    /\ Alone /\ SessionHeld /\ LoggedOut /\ HalfJoined

TablesInv ==
    /\ TypeOK /\ IndexSound /\ SpectatorsAgree
    /\ OneSessionUncrossed /\ OnlineUncrossed /\ ChannelsAgree

Inv == RequestsInv /\ TablesInv

LEMMA IdleStates ==
  ASSUME NEW st \in RequestState
  PROVE  /\ st = Idle <=> st.at = "idle"
         /\ st # Idle => /\ st.at \in {"login"} \cup Serving
                         /\ st.user \in User /\ st.token \in Token
         /\ st.at = "join" => st.channel \in Name
  BY DEF RequestState, Idle, Serving

\* What a request in one of the states with a session is made of.
LEMMA StatesTyped ==
  ASSUME NEW u \in User, NEW t \in Token, NEW ch \in Name
  PROVE  /\ {LoggingIn(u, t), Polling(u, t), Handling(u, t), Joining(u, t, ch)} \subseteq RequestState
         /\ \A st \in {LoggingIn(u, t), Polling(u, t), Handling(u, t), Joining(u, t, ch)} :
              st # Idle /\ st.user = u /\ st.token = t
         /\ LoggingIn(u, t).at = "login" /\ Polling(u, t).at = "poll"
         /\ Handling(u, t).at = "packet" /\ Joining(u, t, ch).at = "join"
         /\ Joining(u, t, ch).channel = ch
<1>1. {LoggingIn(u, t), Polling(u, t), Handling(u, t), Joining(u, t, ch)} \subseteq RequestState
  BY DEF RequestState, LoggingIn, Polling, Handling, Joining
<1>2. /\ \A st \in {LoggingIn(u, t), Polling(u, t), Handling(u, t), Joining(u, t, ch)} :
              st.at # "idle" /\ st.user = u /\ st.token = t
      /\ LoggingIn(u, t).at = "login" /\ Polling(u, t).at = "poll"
      /\ Handling(u, t).at = "packet" /\ Joining(u, t, ch).at = "join"
      /\ Joining(u, t, ch).channel = ch
  BY DEF LoggingIn, Polling, Handling, Joining
<1>3. QED
  BY <1>1, <1>2, IdleStates

LEMMA InitInv == Init => Inv
<1> SUFFICES ASSUME Init PROVE Inv
  OBVIOUS
<1>1. RequestsInv
  BY DEF Init, RequestsInv, RequestsTyped, RequestState, LoginTokensNew, UsersRemembered, Alone,
         SessionHeld, LoggedOut, HalfJoined, IsAt, Idle, Serving
<1>2. TypeOK /\ IndexSound
  BY DEF Init, TypeOK, IndexSound
<1>3. SpectatorsAgree /\ OneSessionUncrossed /\ OnlineUncrossed /\ ChannelsAgree
  BY SessionsAssumption DEF Init, SpectatorsAgree, OneSessionUncrossed, OnlineUncrossed, ChannelsAgree
<1>4. QED
  BY <1>1, <1>2, <1>3 DEF Inv, TablesInv

-----------------------------------------------------------------------------
(* Requests that serve a session: most packets *)

\* A step of request q that changes what is kept for its own user and session only.
OwnTables(q) ==
    /\ UNCHANGED <<user_id_to_token, crossed>>
    /\ DOMAIN sessions' = DOMAIN sessions
    /\ \A t \in DOMAIN sessions :
         /\ sessions'[t] \in Session /\ sessions'[t].user_id = sessions[t].user_id
         /\ t # request[q].token => sessions'[t] = sessions[t]
    /\ members' \in [Channel -> SUBSET User]
    /\ lobby_subscribers' \subseteq User /\ seated' \subseteq User
    /\ \A v \in User \ {request[q].user} :
         /\ \A ch \in Channel : v \in members'[ch] => v \in members[ch]
         /\ \A ch \in Channel : v \in members[ch] => v \in members'[ch]
         /\ v \in lobby_subscribers' => v \in lobby_subscribers
         /\ v \in seated' => v \in seated
         /\ spectating_target'[v] = spectating_target[v]

OwnSpectating ==
    /\ spectators' \in [User -> SUBSET User]
    /\ spectating_target' \in [User -> User \cup {Nobody}]
    /\ SpectatorsAgree'

\* Its session and the channels change alike, or q is left to join one.
OwnChannels(q, st) ==
    \A ch \in Channel :
        \/ (ch \in sessions'[request[q].token].channels) <=> (request[q].user \in members'[ch])
        \/ st = Joining(request[q].user, request[q].token, ch)

LEMMA ServingUncrossed ==
  ASSUME Inv, NEW q \in Request, request[q].at \in Serving, request[q].user \notin crossed
  PROVE  /\ request[q].token \in DOMAIN sessions
         /\ sessions[request[q].token].user_id = request[q].user
         /\ request[q].user \in DOMAIN user_id_to_token
         /\ user_id_to_token[request[q].user] = request[q].token
<1>1. /\ request[q].token \in DOMAIN sessions
      /\ sessions[request[q].token].user_id = request[q].user
  BY DEF Inv, RequestsInv, SessionHeld, UsersRemembered
<1>2. QED
  BY <1>1 DEF Inv, TablesInv, OneSessionUncrossed

LEMMA ServingStates ==
  ASSUME Inv, NEW q \in Request, request[q].at \in Serving
  PROVE  /\ request[q] # Idle /\ request[q].at # "login"
         /\ request[q].user \in User /\ request[q].token \in Token
<1>1. request[q] \in RequestState
  BY DEF Inv, RequestsInv, RequestsTyped
<1>2. request[q] # Idle /\ request[q].at # "login"
  BY DEF Idle, Serving
<1>3. QED
  BY <1>1, <1>2, IdleStates

LEMMA OwnStep ==
  ASSUME Inv, NEW q \in Request, NEW st \in RequestState,
         request[q].at \in Serving, st.at \in Serving,
         st.user = request[q].user, st.token = request[q].token,
         Goes(q, st), OwnTables(q), OwnSpectating,
         request[q].user \notin crossed =>
            /\ OwnChannels(q, st)
            /\ st.at = "join" => st.channel \in sessions'[request[q].token].channels
  PROVE  Inv'
<1> DEFINE u == request[q].user
           t == request[q].token
<1>1. /\ request' \in [Request -> RequestState]
      /\ request'[q] = st
      /\ \A p \in Request \ {q} : request'[p] = request[p]
  BY DEF Goes, Inv, RequestsInv, RequestsTyped
<1>2. /\ request[q] # Idle /\ request[q].at # "login" /\ u \in User /\ t \in Token
      /\ st # Idle /\ st.at # "login"
  BY ServingStates DEF Idle, Serving
<1>3. /\ user_id_to_token' = user_id_to_token /\ crossed' = crossed
      /\ DOMAIN sessions' = DOMAIN sessions
      /\ \A k \in DOMAIN sessions : sessions'[k].user_id = sessions[k].user_id
  BY DEF OwnTables
<1>4. RequestsTyped'
  BY <1>1 DEF RequestsTyped
<1>5. LoginTokensNew'
  BY <1>1, <1>2, <1>3 DEF Inv, RequestsInv, LoginTokensNew, IsAt
<1>6. UsersRemembered' /\ SessionHeld' /\ LoggedOut'
  BY <1>1, <1>2, <1>3 DEF Inv, RequestsInv, UsersRemembered, SessionHeld, LoggedOut, IsAt
<1>7. Alone'
  BY <1>1, <1>2, <1>3 DEF Inv, RequestsInv, Alone
<1>8. \A p \in Request \ {q} :
        request[p].at \in Serving /\ request[p].user \notin crossed => request[p].token # t
  <2> SUFFICES ASSUME NEW p \in Request \ {q}, request[p].at \in Serving,
                      request[p].user \notin crossed, request[p].token = t
               PROVE  FALSE
    OBVIOUS
  <2>1. request[p].user = u
    BY ServingUncrossed DEF Inv, RequestsInv, UsersRemembered
  <2>2. request[p] # Idle
    BY DEF Idle, Serving
  <2>3. QED
    BY <1>2, <2>1, <2>2 DEF Inv, RequestsInv, Alone
<1>9. HalfJoined'
  <2> SUFFICES ASSUME NEW p \in Request, request'[p].at = "join", request'[p].user \notin crossed
               PROVE  request'[p].channel \in sessions'[request'[p].token].channels
    BY <1>3 DEF HalfJoined, IsAt
  <2>1. CASE p = q
    BY <2>1, <1>1
  <2>2. CASE p # q
    <3>1. /\ request'[p] = request[p] /\ request[p].at \in Serving
          /\ request[p].user \notin crossed
      BY <2>2, <1>1 DEF Serving
    <3>2. request[p].token \in DOMAIN sessions /\ request[p].token # t
      BY <3>1, <2>2, <1>8, ServingUncrossed
    <3>3. sessions'[request[p].token] = sessions[request[p].token]
      BY <3>2 DEF OwnTables
    <3>4. QED
      BY <3>1, <3>3 DEF Inv, RequestsInv, HalfJoined, IsAt
  <2>3. QED
    BY <2>1, <2>2
<1>10. TypeOK'
  BY DEF OwnTables, OwnSpectating, Inv, TablesInv, TypeOK
<1>11. IndexSound' /\ OneSessionUncrossed'
  BY <1>3 DEF Inv, TablesInv, IndexSound, OneSessionUncrossed
<1>12. OnlineUncrossed'
  <2> SUFFICES ASSUME NEW v \in User \ (crossed \cup DOMAIN user_id_to_token)
               PROVE  /\ \A ch \in Channel : v \notin members'[ch]
                      /\ v \notin lobby_subscribers' \cup seated'
                      /\ spectating_target'[v] = Nobody
    BY <1>3 DEF OnlineUncrossed
  <2>1. v # u
    BY ServingUncrossed
  <2>2. QED
    BY <2>1 DEF OwnTables, Inv, TablesInv, OnlineUncrossed
<1>13. ChannelsAgree'
  <2> SUFFICES ASSUME NEW k \in DOMAIN sessions, NEW ch \in Channel,
                      sessions[k].user_id \notin crossed
               PROVE  \/ (ch \in sessions'[k].channels) <=> (sessions[k].user_id \in members'[ch])
                      \/ \E p \in Request : request'[p] = Joining(sessions[k].user_id, k, ch)
    BY <1>3 DEF ChannelsAgree
  <2> DEFINE v == sessions[k].user_id
  <2>1. v \in User
    BY DEF Inv, TablesInv, TypeOK, Session
  <2>2. CASE v = u
    <3>1. k = t
      BY <2>2, ServingUncrossed DEF Inv, TablesInv, OneSessionUncrossed
    <3>2. QED
      BY <2>2, <3>1, <1>1 DEF OwnChannels
  <2>3. CASE v # u
    <3>1. k # t
      BY <2>3 DEF Inv, RequestsInv, UsersRemembered
    <3>2. /\ sessions'[k] = sessions[k]
          /\ (v \in members'[ch]) <=> (v \in members[ch])
      BY <2>1, <2>3, <3>1 DEF OwnTables
    <3>3. \/ (ch \in sessions[k].channels) <=> (v \in members[ch])
          \/ \E p \in Request : request[p] = Joining(v, k, ch)
      BY DEF Inv, TablesInv, ChannelsAgree
    <3>4. request[q] # Joining(v, k, ch)
      BY <2>3 DEF Joining
    <3>5. QED
      BY <3>2, <3>3, <3>4, <1>1
  <2>4. QED
    BY <2>2, <2>3
<1>14. QED
  BY <1>4, <1>5, <1>6, <1>7, <1>9, <1>10, <1>11, <1>12, <1>13
     DEF Inv, RequestsInv, TablesInv, OwnSpectating

\* What SetChannels does to the sessions.
LEMMA ChannelsSet ==
  ASSUME Inv, NEW q \in Request, NEW gained, NEW lost, gained \subseteq Name,
         SetChannels(q, gained, lost)
  PROVE  /\ DOMAIN sessions' = DOMAIN sessions
         /\ \A t \in DOMAIN sessions :
              /\ sessions'[t] \in Session /\ sessions'[t].user_id = sessions[t].user_id
              /\ t # request[q].token => sessions'[t] = sessions[t]
              /\ t = request[q].token =>
                   sessions'[t].channels = (sessions[t].channels \cup gained) \ lost
<1>1. \A t \in DOMAIN sessions : sessions[t] \in [user_id : User, channels : SUBSET Name]
  BY DEF Inv, TablesInv, TypeOK, Session
<1>2. QED
  BY <1>1 DEF SetChannels, Session

LEMMA ChannelGained ==
  ASSUME Inv, NEW q \in Request, NEW ch \in Name, SetChannels(q, {ch}, {})
  PROVE  /\ DOMAIN sessions' = DOMAIN sessions
         /\ \A k \in DOMAIN sessions :
              /\ sessions'[k] \in Session /\ sessions'[k].user_id = sessions[k].user_id
              /\ k # request[q].token => sessions'[k] = sessions[k]
              /\ k = request[q].token => sessions'[k].channels = sessions[k].channels \cup {ch}
<1>1. /\ DOMAIN sessions' = DOMAIN sessions
      /\ \A k \in DOMAIN sessions :
           /\ sessions'[k] \in Session /\ sessions'[k].user_id = sessions[k].user_id
           /\ k # request[q].token => sessions'[k] = sessions[k]
           /\ k = request[q].token =>
                sessions'[k].channels = (sessions[k].channels \cup {ch}) \ {}
  BY ChannelsSet
<1>2. QED
  BY <1>1

\* A request in the middle of a packet.
LEMMA PacketStates ==
  ASSUME Inv, NEW q \in Request, IsAt(q, "packet") \/ IsAt(q, "join")
  PROVE  /\ request[q].at \in Serving /\ request[q].user \in User /\ request[q].token \in Token
         /\ Poll(q) \in RequestState /\ Poll(q).at = "poll"
         /\ Poll(q).user = request[q].user /\ Poll(q).token = request[q].token
<1>1. request[q].at \in Serving
  BY DEF IsAt, Serving
<1>2. request[q].user \in User /\ request[q].token \in Token
  BY <1>1, ServingStates
<1>3. QED
  BY <1>1, <1>2 DEF Poll, Polling, RequestState

\* Between two steps of an uncrossed user's poll, its session and the channels agree
\* on every channel but the one it is joining.
LEMMA ServingAgree ==
  ASSUME Inv, NEW q \in Request, request[q].at \in Serving, request[q].user \notin crossed,
         NEW ch \in Channel
  PROVE  \/ (ch \in sessions[request[q].token].channels) <=> (request[q].user \in members[ch])
         \/ request[q].at = "join" /\ request[q].channel = ch
<1> DEFINE u == request[q].user
           t == request[q].token
<1>1. t \in DOMAIN sessions /\ sessions[t].user_id = u
  BY ServingUncrossed
<1>2. \/ (ch \in sessions[t].channels) <=> (u \in members[ch])
      \/ \E p \in Request : request[p] = Joining(u, t, ch)
  BY <1>1 DEF Inv, TablesInv, ChannelsAgree
<1>3. ASSUME NEW p \in Request, request[p] = Joining(u, t, ch) PROVE p = q
  <2>1. request[p].user = u /\ request[p] # Idle /\ request[q] # Idle
    BY <1>3, ServingStates DEF Joining, Idle, Serving
  <2>2. QED
    BY <2>1 DEF Inv, RequestsInv, Alone
<1>4. QED
  BY <1>2, <1>3 DEF Joining

LEMMA ChannelJoinStep ==
  ASSUME Inv, NEW q \in Request, NEW ch \in Name, ChannelJoin(q, ch)
  PROVE  Inv'
<1> DEFINE u  == request[q].user
           t  == request[q].token
           st == IF HasSession(q) THEN Joining(u, t, ch) ELSE Poll(q)
<1>1. /\ IsAt(q, "packet") /\ Goes(q, st) /\ SetChannels(q, {ch}, {})
      /\ UNCHANGED <<user_id_to_token, present, crossed>>
  BY DEF ChannelJoin
<1>2. /\ request[q].at \in Serving /\ u \in User /\ t \in Token
      /\ st \in RequestState /\ st.at \in Serving /\ st.user = u /\ st.token = t
      /\ st.at = "join" => HasSession(q) /\ st.channel = ch
  BY <1>1, PacketStates, StatesTyped DEF Serving
<1>3. /\ DOMAIN sessions' = DOMAIN sessions
      /\ \A k \in DOMAIN sessions :
           /\ sessions'[k] \in Session /\ sessions'[k].user_id = sessions[k].user_id
           /\ k # t => sessions'[k] = sessions[k]
           /\ k = t => sessions'[k].channels = sessions[k].channels \cup {ch}
  BY <1>1, ChannelGained
<1>4. OwnTables(q) /\ OwnSpectating
  BY <1>1, <1>3 DEF OwnTables, OwnSpectating, Inv, TablesInv, TypeOK, present, SpectatorsAgree
<1>5. ASSUME u \notin crossed
      PROVE  /\ OwnChannels(q, st)
             /\ st.at = "join" => st.channel \in sessions'[t].channels
  <2>1. t \in DOMAIN sessions
    BY <1>2, <1>5, ServingUncrossed
  <2>2. st = Joining(u, t, ch) /\ sessions'[t].channels = sessions[t].channels \cup {ch}
    BY <1>3, <2>1 DEF HasSession
  <2>3. ASSUME NEW c \in Channel, c # ch
        PROVE  (c \in sessions'[t].channels) <=> (u \in members'[c])
    <3>1. request[q].at # "join"
      BY <1>1 DEF IsAt
    <3>2. (c \in sessions[t].channels) <=> (u \in members[c])
      BY <1>2, <1>5, <3>1, ServingAgree
    <3>3. QED
      BY <1>1, <2>2, <2>3, <3>2 DEF present
  <2>4. OwnChannels(q, st)
    BY <2>2, <2>3 DEF OwnChannels
  <2>5. QED
    BY <1>2, <2>2, <2>4
<1> HIDE DEF st
<1>6. QED
  BY <1>1, <1>2, <1>4, <1>5, OwnStep

LEMMA ChannelJoinedStep ==
  ASSUME Inv, NEW q \in Request, ChannelJoined(q)
  PROVE  Inv'
<1> DEFINE u == request[q].user
           t == request[q].token
<1>1. /\ IsAt(q, "join") /\ Goes(q, Poll(q))
      /\ members' = [ch \in Channel |-> IF ch = request[q].channel
                                        THEN members[ch] \cup {u} ELSE members[ch]]
      /\ UNCHANGED <<sessions, user_id_to_token, lobby_subscribers, seated,
                     spectators, spectating_target, crossed>>
  BY DEF ChannelJoined
<1>2. /\ request[q].at \in Serving /\ u \in User /\ t \in Token
      /\ Poll(q) \in RequestState /\ Poll(q).at = "poll" /\ Poll(q).user = u /\ Poll(q).token = t
  BY <1>1, PacketStates
<1>3. OwnTables(q) /\ OwnSpectating
  BY <1>1, <1>2 DEF OwnTables, OwnSpectating, Inv, TablesInv, TypeOK, SpectatorsAgree
<1>4. ASSUME u \notin crossed PROVE OwnChannels(q, Poll(q))
  <2> SUFFICES ASSUME NEW ch \in Channel
               PROVE  (ch \in sessions'[t].channels) <=> (u \in members'[ch])
    BY DEF OwnChannels
  <2>1. CASE ch = request[q].channel
    BY <1>1, <1>4, <2>1 DEF Inv, RequestsInv, HalfJoined
  <2>2. CASE ch # request[q].channel
    BY <1>1, <1>2, <1>4, <2>2, ServingAgree
  <2>3. QED
    BY <2>1, <2>2
<1>5. "poll" \in Serving /\ "poll" # "join"
  BY DEF Serving
<1>6. QED
  BY <1>1, <1>2, <1>3, <1>4, <1>5, OwnStep

\* A packet after which the poll goes on.
LEMMA PacketStep ==
  ASSUME Inv, NEW q \in Request, IsAt(q, "packet"), Goes(q, Poll(q)), OwnTables(q), OwnSpectating,
         request[q].user \notin crossed => \A ch \in Channel :
           \/ (ch \in sessions'[request[q].token].channels) <=> (request[q].user \in members'[ch])
           \/ /\ sessions'[request[q].token].channels = sessions[request[q].token].channels
              /\ (request[q].user \in members'[ch]) <=> (request[q].user \in members[ch])
  PROVE  Inv'
<1>1. /\ request[q].at \in Serving /\ request[q].at # "join"
      /\ Poll(q) \in RequestState /\ Poll(q).at = "poll"
      /\ Poll(q).user = request[q].user /\ Poll(q).token = request[q].token
  BY PacketStates DEF IsAt
<1>2. ASSUME request[q].user \notin crossed PROVE OwnChannels(q, Poll(q))
  <2> SUFFICES ASSUME NEW ch \in Channel
               PROVE  (ch \in sessions'[request[q].token].channels) <=> (request[q].user \in members'[ch])
    BY DEF OwnChannels
  <2>1. (ch \in sessions[request[q].token].channels) <=> (request[q].user \in members[ch])
    BY <1>1, <1>2, ServingAgree
  <2>2. QED
    BY <1>2, <2>1
<1>3. "poll" \in Serving /\ "poll" # "join"
  BY DEF Serving
<1>4. QED
  BY <1>1, <1>2, <1>3, OwnStep

LEMMA ChannelPartStep ==
  ASSUME Inv, NEW q \in Request, NEW ch \in Name, ChannelPart(q, ch)
  PROVE  Inv'
<1> DEFINE u == request[q].user
           t == request[q].token
<1>1. /\ IsAt(q, "packet") /\ Goes(q, Poll(q)) /\ SetChannels(q, {}, {ch})
      /\ members' = [k \in Channel |-> IF k = ch /\ HasSession(q)
                                       THEN members[k] \ {u} ELSE members[k]]
      /\ UNCHANGED <<user_id_to_token, lobby_subscribers, seated,
                     spectators, spectating_target, crossed>>
  BY DEF ChannelPart
<1>2. /\ DOMAIN sessions' = DOMAIN sessions
      /\ \A k \in DOMAIN sessions :
           /\ sessions'[k] \in Session /\ sessions'[k].user_id = sessions[k].user_id
           /\ k # t => sessions'[k] = sessions[k]
           /\ k = t => sessions'[k].channels = sessions[k].channels \ {ch}
  <2>1. {ch} \subseteq Name /\ {} \subseteq Name
    OBVIOUS
  <2>2. /\ DOMAIN sessions' = DOMAIN sessions
        /\ \A k \in DOMAIN sessions :
             /\ sessions'[k] \in Session /\ sessions'[k].user_id = sessions[k].user_id
             /\ k # request[q].token => sessions'[k] = sessions[k]
             /\ k = request[q].token =>
                  sessions'[k].channels = (sessions[k].channels \cup {}) \ {ch}
    BY <1>1, <2>1, ChannelsSet
  <2>3. QED
    BY <2>2
<1>3. OwnTables(q)
  BY <1>1, <1>2 DEF OwnTables, Inv, TablesInv, TypeOK
<1>4. OwnSpectating
  BY <1>1 DEF OwnSpectating, Inv, TablesInv, TypeOK, SpectatorsAgree
<1>5. ASSUME u \notin crossed, NEW c \in Channel
      PROVE  (c \in sessions'[t].channels) <=> (u \in members'[c])
  <2>1. request[q].at \in Serving /\ request[q].at # "join"
    BY <1>1, PacketStates DEF IsAt
  <2>2. t \in DOMAIN sessions /\ ((c \in sessions[t].channels) <=> (u \in members[c]))
    BY <1>5, <2>1, ServingUncrossed, ServingAgree
  <2>3. QED
    BY <1>1, <1>2, <2>2 DEF HasSession
<1>6. QED
  BY <1>1, <1>3, <1>4, <1>5, PacketStep

\* Packets that touch neither the session nor a channel.
LEMMA LobbyStep ==
  ASSUME Inv, NEW q \in Request, LobbyJoin(q) \/ LobbyPart(q) \/ LeaveSeat(q) \/ OtherPacket(q)
  PROVE  Inv'
<1>1. /\ IsAt(q, "packet") /\ Goes(q, Poll(q))
      /\ UNCHANGED <<sessions, user_id_to_token, members, spectators, spectating_target, crossed>>
      /\ \/ /\ lobby_subscribers' = lobby_subscribers \cup {request[q].user}
            /\ UNCHANGED seated
         \/ /\ lobby_subscribers' = lobby_subscribers \ {request[q].user}
            /\ UNCHANGED seated
         \/ /\ seated' = seated \ {request[q].user}
            /\ UNCHANGED lobby_subscribers
         \/ UNCHANGED <<lobby_subscribers, seated>>
  BY DEF LobbyJoin, LobbyPart, LeaveSeat, OtherPacket, present
<1>2. request[q].user \in User
  BY <1>1, PacketStates
<1>3. OwnTables(q)
  BY <1>1, <1>2 DEF OwnTables, Inv, TablesInv, TypeOK
<1>4. OwnSpectating
  BY <1>1 DEF OwnSpectating, Inv, TablesInv, TypeOK, SpectatorsAgree
<1>5. QED
  BY <1>1, <1>3, <1>4, PacketStep

\* A channel of the session is entered in the same step.
LEMMA ChannelEntered ==
  ASSUME Inv, NEW q \in Request, NEW ch \in Channel, IsAt(q, "packet"),
         SetChannels(q, {ch}, {}),
         members' = [members EXCEPT ![ch] = @ \cup {request[q].user}]
  PROVE  /\ DOMAIN sessions' = DOMAIN sessions
         /\ \A t \in DOMAIN sessions :
              /\ sessions'[t] \in Session /\ sessions'[t].user_id = sessions[t].user_id
              /\ t # request[q].token => sessions'[t] = sessions[t]
         /\ members' \in [Channel -> SUBSET User]
         /\ \A v \in User \ {request[q].user} : \A c \in Channel :
              (v \in members'[c]) <=> (v \in members[c])
         /\ request[q].user \notin crossed => \A c \in Channel :
              (c \in sessions'[request[q].token].channels) <=> (request[q].user \in members'[c])
<1> DEFINE u == request[q].user
           t == request[q].token
<1>1. ch \in Name
  BY SessionsAssumption
<1>2. /\ DOMAIN sessions' = DOMAIN sessions
      /\ \A k \in DOMAIN sessions :
           /\ sessions'[k] \in Session /\ sessions'[k].user_id = sessions[k].user_id
           /\ k # t => sessions'[k] = sessions[k]
           /\ k = t => sessions'[k].channels = sessions[k].channels \cup {ch}
  BY <1>1, ChannelGained
<1>3. /\ request[q].at \in Serving /\ request[q].at # "join" /\ u \in User
  BY PacketStates DEF IsAt
<1>4. /\ members' \in [Channel -> SUBSET User]
      /\ \A c \in Channel : members'[c] = IF c = ch THEN members[c] \cup {u} ELSE members[c]
  BY <1>3 DEF Inv, TablesInv, TypeOK
<1>5. ASSUME u \notin crossed, NEW c \in Channel
      PROVE  (c \in sessions'[t].channels) <=> (u \in members'[c])
  <2>1. t \in DOMAIN sessions /\ ((c \in sessions[t].channels) <=> (u \in members[c]))
    BY <1>3, <1>5, ServingUncrossed, ServingAgree
  <2>2. QED
    BY <1>2, <1>4, <2>1
<1>6. QED
  BY <1>2, <1>4, <1>5

LEMMA TakeSeatStep ==
  ASSUME Inv, NEW q \in Request, TakeSeat(q)
  PROVE  Inv'
<1> DEFINE ch == MultiplayerChannel
<1>1. /\ IsAt(q, "packet") /\ Goes(q, Poll(q)) /\ SetChannels(q, {ch}, {})
      /\ members' = [members EXCEPT ![ch] = @ \cup {request[q].user}]
      /\ seated' = seated \cup {request[q].user}
      /\ UNCHANGED <<user_id_to_token, lobby_subscribers, spectators, spectating_target, crossed>>
  BY DEF TakeSeat
<1>2. ch \in Channel /\ request[q].user \in User
  BY <1>1, SessionsAssumption, PacketStates
<1> HIDE DEF ch
<1>3. /\ DOMAIN sessions' = DOMAIN sessions
      /\ \A t \in DOMAIN sessions :
           /\ sessions'[t] \in Session /\ sessions'[t].user_id = sessions[t].user_id
           /\ t # request[q].token => sessions'[t] = sessions[t]
      /\ members' \in [Channel -> SUBSET User]
      /\ \A v \in User \ {request[q].user} : \A c \in Channel :
           (v \in members'[c]) <=> (v \in members[c])
      /\ request[q].user \notin crossed => \A c \in Channel :
           (c \in sessions'[request[q].token].channels) <=> (request[q].user \in members'[c])
  BY <1>1, <1>2, ChannelEntered
<1>4. OwnTables(q)
  BY <1>1, <1>2, <1>3 DEF OwnTables, Inv, TablesInv, TypeOK
<1>5. OwnSpectating
  BY <1>1 DEF OwnSpectating, Inv, TablesInv, TypeOK, SpectatorsAgree
<1>6. QED
  BY <1>1, <1>3, <1>4, <1>5, PacketStep

\* The spectator tables after a user has left its host and watches another or nobody.
LEMMA Watching ==
  ASSUME Inv, NEW u \in User, NEW h \in User \cup {Nobody},
         h \in User => CanWatch(u, h),
         UNCHANGED user_id_to_token,
         spectators' = [k \in User |-> spectators'[k]],
         \A k \in User : spectators'[k] = IF k = h THEN spectators[k] \cup {u} ELSE spectators[k] \ {u},
         spectating_target' = [spectating_target EXCEPT ![u] = h]
  PROVE  /\ OwnSpectating
         /\ \A v \in User \ {u} : spectating_target'[v] = spectating_target[v]
<1>1. /\ spectators' \in [User -> SUBSET User]
      /\ spectating_target' \in [User -> User \cup {Nobody}]
      /\ \A v \in User : spectating_target'[v] = IF v = u THEN h ELSE spectating_target[v]
      /\ \A k \in User : spectators'[k] = IF k = h THEN spectators[k] \cup {u} ELSE spectators[k] \ {u}
  BY DEF Inv, TablesInv, TypeOK
<1>2. SpectatorsAgree'
  BY <1>1, SessionsAssumption DEF SpectatorsAgree, CanWatch, Inv, TablesInv
<1>3. QED
  BY <1>1, <1>2 DEF OwnSpectating

LEMMA StopSpectatingStep ==
  ASSUME Inv, NEW q \in Request, StopSpectating(q)
  PROVE  Inv'
<1> DEFINE u == request[q].user
<1>1. /\ IsAt(q, "packet") /\ Goes(q, Poll(q))
      /\ spectators' = [h \in User |-> spectators[h] \ {u}]
      /\ spectating_target' = [spectating_target EXCEPT ![u] = Nobody]
      /\ UNCHANGED <<sessions, user_id_to_token, members, lobby_subscribers, seated, crossed>>
  BY DEF StopSpectating
<1>2. u \in User
  BY <1>1, PacketStates
<1>3. /\ Nobody \in User \cup {Nobody}
      /\ Nobody \in User => CanWatch(u, Nobody)
      /\ spectators' = [k \in User |-> spectators'[k]]
      /\ \A k \in User : spectators'[k] =
           IF k = Nobody THEN spectators[k] \cup {u} ELSE spectators[k] \ {u}
  BY <1>1, SessionsAssumption
<1>4. OwnSpectating /\ \A v \in User \ {u} : spectating_target'[v] = spectating_target[v]
  BY <1>1, <1>2, <1>3, Watching
<1>5. OwnTables(q)
  BY <1>1, <1>4 DEF OwnTables, Inv, TablesInv, TypeOK
<1>6. QED
  BY <1>1, <1>4, <1>5, PacketStep

LEMMA StartSpectatingStep ==
  ASSUME Inv, NEW q \in Request, NEW h \in User, StartSpectating(q, h)
  PROVE  Inv'
<1> DEFINE u == request[q].user
           ch == SpectatorChannel
<1>1. /\ IsAt(q, "packet") /\ Goes(q, Poll(q))
      /\ UNCHANGED <<user_id_to_token, lobby_subscribers, seated, crossed>>
  BY DEF StartSpectating
<1>2. ch \in Channel /\ u \in User
  BY <1>1, SessionsAssumption, PacketStates
<1>3. CASE CanWatch(u, h)
  <2>1. /\ spectators' = [[k \in User |-> spectators[k] \ {u}] EXCEPT ![h] = @ \cup {u}]
        /\ spectating_target' = [spectating_target EXCEPT ![u] = h]
        /\ SetChannels(q, {ch}, {})
        /\ members' = [members EXCEPT ![ch] = @ \cup {u}]
    BY <1>3 DEF StartSpectating
  <2>2. /\ spectators' = [k \in User |-> spectators'[k]]
        /\ \A k \in User : spectators'[k] =
             IF k = h THEN spectators[k] \cup {u} ELSE spectators[k] \ {u}
    BY <2>1
  <2> HIDE DEF ch
  <2>3. OwnSpectating /\ \A v \in User \ {u} : spectating_target'[v] = spectating_target[v]
    BY <1>1, <1>2, <1>3, <2>1, <2>2, Watching
  <2>4. /\ DOMAIN sessions' = DOMAIN sessions
        /\ \A t \in DOMAIN sessions :
             /\ sessions'[t] \in Session /\ sessions'[t].user_id = sessions[t].user_id
             /\ t # request[q].token => sessions'[t] = sessions[t]
        /\ members' \in [Channel -> SUBSET User]
        /\ \A v \in User \ {request[q].user} : \A c \in Channel :
             (v \in members'[c]) <=> (v \in members[c])
        /\ request[q].user \notin crossed => \A c \in Channel :
             (c \in sessions'[request[q].token].channels) <=> (request[q].user \in members'[c])
    BY <1>1, <1>2, <2>1, ChannelEntered
  <2>5. OwnTables(q)
    BY <1>1, <2>3, <2>4 DEF OwnTables, Inv, TablesInv, TypeOK
  <2>6. QED
    BY <1>1, <2>3, <2>4, <2>5, PacketStep
<1>4. CASE ~ CanWatch(u, h)
  <2>1. /\ spectators' = [k \in User |-> spectators[k] \ {u}]
        /\ spectating_target' = [spectating_target EXCEPT ![u] = Nobody]
        /\ UNCHANGED <<sessions, members>>
    BY <1>4 DEF StartSpectating
  <2>2. /\ Nobody \in User \cup {Nobody}
        /\ Nobody \in User => CanWatch(u, Nobody)
        /\ spectators' = [k \in User |-> spectators'[k]]
        /\ \A k \in User : spectators'[k] =
             IF k = Nobody THEN spectators[k] \cup {u} ELSE spectators[k] \ {u}
    BY <2>1, SessionsAssumption
  <2>3. OwnSpectating /\ \A v \in User \ {u} : spectating_target'[v] = spectating_target[v]
    BY <1>1, <1>2, <2>1, <2>2, Watching
  <2>4. OwnTables(q)
    BY <1>1, <2>1, <2>3 DEF OwnTables, Inv, TablesInv, TypeOK
  <2>5. QED
    BY <1>1, <2>1, <2>3, <2>4, PacketStep
<1>5. QED
  BY <1>3, <1>4

-----------------------------------------------------------------------------
(* Requests that begin and end *)

\* A step of request q into state st, at which some sessions may have ended.
LEMMA RequestsAfter ==
  ASSUME Inv, NEW q \in Request, NEW st \in RequestState, Goes(q, st), st.at # "join",
         crossed \subseteq crossed',
         DOMAIN sessions' \subseteq DOMAIN sessions,
         \A k \in DOMAIN sessions' : sessions'[k] = sessions[k],
         DOMAIN user_id_to_token' \subseteq DOMAIN user_id_to_token,
         \A p \in Request \ {q} :
            /\ request[p].at \in Serving /\ request[p].user \notin crossed'
               => request[p].token \in DOMAIN sessions'
            /\ request[p] # Idle /\ st # Idle =>
                 /\ request[p].user = st.user => st.user \in crossed'
                 /\ IsAt(p, "login") \/ st.at = "login" => request[p].token # st.token,
         st.at = "login" => st.token \notin DOMAIN sessions /\ st.user \notin DOMAIN user_id_to_token',
         st.at \in Serving => st.token \in DOMAIN sessions' /\ sessions'[st.token].user_id = st.user
  PROVE  RequestsInv'
<1>1. /\ request' \in [Request -> RequestState]
      /\ request'[q] = st
      /\ \A p \in Request \ {q} : request'[p] = request[p]
  BY DEF Goes, Inv, RequestsInv, RequestsTyped
<1>2. /\ st.at \in Serving => st # Idle
      /\ st.at = "login" => st # Idle
      /\ \A p \in Request : request[p].at \in Serving \/ request[p].at = "login" => request[p] # Idle
  BY DEF Idle, Serving
<1>3. RequestsTyped'
  BY <1>1 DEF RequestsTyped
<1>4. LoginTokensNew'
  BY <1>1, <1>2 DEF Inv, RequestsInv, LoginTokensNew, IsAt
<1>5. UsersRemembered'
  BY <1>1, <1>2 DEF Inv, RequestsInv, UsersRemembered
<1>6. SessionHeld'
  BY <1>1 DEF SessionHeld
<1>7. LoggedOut'
  BY <1>1 DEF Inv, RequestsInv, LoggedOut, IsAt
<1>8. Alone'
  BY <1>1 DEF Inv, RequestsInv, Alone
<1>9. HalfJoined'
  <2> SUFFICES ASSUME NEW p \in Request, request'[p].at = "join", request'[p].user \notin crossed'
               PROVE  request'[p].channel \in sessions'[request'[p].token].channels
    BY DEF HalfJoined, IsAt
  <2>1. p # q /\ request'[p] = request[p] /\ request[p].at \in Serving
    BY <1>1 DEF Serving
  <2>2. request[p].token \in DOMAIN sessions'
    BY <2>1
  <2>3. QED
    BY <2>1, <2>2 DEF Inv, RequestsInv, HalfJoined, IsAt
<1>10. QED
  BY <1>3, <1>4, <1>5, <1>6, <1>7, <1>8, <1>9 DEF RequestsInv

\* The tables when a step leaves them alone, and the requests that join a channel.
LEMMA TablesKept ==
  ASSUME Inv, UNCHANGED <<sessions, user_id_to_token, present>>,
         crossed \subseteq crossed', crossed' \subseteq User,
         \A p \in Request : request[p].at = "join" => request'[p] = request[p]
  PROVE  TablesInv'
<1>1. /\ sessions' = sessions /\ user_id_to_token' = user_id_to_token /\ members' = members
      /\ lobby_subscribers' = lobby_subscribers /\ seated' = seated
      /\ spectators' = spectators /\ spectating_target' = spectating_target
  BY DEF present
<1>2. TypeOK' /\ IndexSound' /\ SpectatorsAgree'
  BY <1>1 DEF Inv, TablesInv, TypeOK, IndexSound, SpectatorsAgree
<1>3. OneSessionUncrossed' /\ OnlineUncrossed'
  BY <1>1 DEF Inv, TablesInv, OneSessionUncrossed, OnlineUncrossed
<1>4. ChannelsAgree'
  <2> SUFFICES ASSUME NEW k \in DOMAIN sessions, NEW ch \in Channel,
                      sessions[k].user_id \notin crossed'
               PROVE  \/ (ch \in sessions[k].channels) <=> (sessions[k].user_id \in members[ch])
                      \/ \E p \in Request : request'[p] = Joining(sessions[k].user_id, k, ch)
    BY <1>1 DEF ChannelsAgree
  <2>1. \/ (ch \in sessions[k].channels) <=> (sessions[k].user_id \in members[ch])
        \/ \E p \in Request : request[p] = Joining(sessions[k].user_id, k, ch)
    BY DEF Inv, TablesInv, ChannelsAgree
  <2>2. QED
    BY <2>1 DEF Joining
<1>5. QED
  BY <1>2, <1>3, <1>4 DEF TablesInv

\* The effect of remove_session, entry by entry.
LEMMA Removal ==
  ASSUME Inv, NEW t \in DOMAIN sessions, RemoveSession(t)
  PROVE  LET u == sessions[t].user_id
         IN  /\ u \in User
             /\ DOMAIN sessions' = DOMAIN sessions \ {t}
             /\ \A k \in DOMAIN sessions' : sessions'[k] = sessions[k]
             /\ DOMAIN user_id_to_token' = DOMAIN user_id_to_token \ {u}
             /\ \A v \in DOMAIN user_id_to_token' : user_id_to_token'[v] = user_id_to_token[v]
             /\ lobby_subscribers' = lobby_subscribers \ {u} /\ seated' = seated \ {u}
             /\ members' \in [Channel -> SUBSET User]
             /\ \A ch \in Channel : members'[ch] = members[ch] \ {u}
             /\ spectators' \in [User -> SUBSET User]
             /\ \A h \in User : spectators'[h] = IF h = u THEN {} ELSE spectators[h] \ {u}
             /\ spectating_target' \in [User -> User \cup {Nobody}]
             /\ \A v \in User : spectating_target'[v] =
                  IF v = u \/ spectating_target[v] = u THEN Nobody ELSE spectating_target[v]
<1> DEFINE u == sessions[t].user_id
<1>1. u \in User
  BY DEF Inv, TablesInv, TypeOK, Session
<1>2. /\ sessions' = [k \in DOMAIN sessions \ {t} |-> sessions[k]]
      /\ user_id_to_token' = [v \in DOMAIN user_id_to_token \ {u} |-> user_id_to_token[v]]
      /\ lobby_subscribers' = lobby_subscribers \ {u} /\ seated' = seated \ {u}
      /\ members' = [ch \in Channel |-> members[ch] \ {u}]
      /\ spectators' = [h \in User |-> IF h = u THEN {} ELSE spectators[h] \ {u}]
      /\ spectating_target' =
           [v \in User |-> IF v = u \/ spectating_target[v] = u THEN Nobody ELSE spectating_target[v]]
  BY DEF RemoveSession, ForgetSpectating, Restrict
<1> HIDE DEF u
<1>3. /\ members' \in [Channel -> SUBSET User]
      /\ spectators' \in [User -> SUBSET User]
      /\ spectating_target' \in [User -> User \cup {Nobody}]
  BY <1>2 DEF Inv, TablesInv, TypeOK
<1>4. QED
  BY <1>1, <1>2, <1>3 DEF u

LEMMA RemovedTables ==
  ASSUME Inv, NEW t \in DOMAIN sessions, RemoveSession(t),
         crossed \subseteq crossed', crossed' \subseteq User,
         \A p \in Request : request[p].at = "join" => request'[p] = request[p]
  PROVE  TablesInv'
<1> DEFINE u == sessions[t].user_id
<1>1. /\ u \in User
      /\ DOMAIN sessions' = DOMAIN sessions \ {t}
      /\ \A k \in DOMAIN sessions' : sessions'[k] = sessions[k]
      /\ DOMAIN user_id_to_token' = DOMAIN user_id_to_token \ {u}
      /\ \A v \in DOMAIN user_id_to_token' : user_id_to_token'[v] = user_id_to_token[v]
      /\ lobby_subscribers' = lobby_subscribers \ {u} /\ seated' = seated \ {u}
      /\ members' \in [Channel -> SUBSET User]
      /\ \A ch \in Channel : members'[ch] = members[ch] \ {u}
      /\ spectators' \in [User -> SUBSET User]
      /\ \A h \in User : spectators'[h] = IF h = u THEN {} ELSE spectators[h] \ {u}
      /\ spectating_target' \in [User -> User \cup {Nobody}]
      /\ \A v \in User : spectating_target'[v] =
           IF v = u \/ spectating_target[v] = u THEN Nobody ELSE spectating_target[v]
  BY Removal
<1>2. TypeOK'
  BY <1>1 DEF Inv, TablesInv, TypeOK
<1>3. IndexSound'
  BY <1>1 DEF Inv, TablesInv, IndexSound
<1>4. SpectatorsAgree'
  BY <1>1, SessionsAssumption DEF Inv, TablesInv, SpectatorsAgree
<1>5. \A k \in DOMAIN sessions' :
        sessions'[k].user_id \notin crossed => /\ sessions'[k].user_id # u
                                               /\ sessions'[k].user_id \in DOMAIN user_id_to_token
                                               /\ user_id_to_token[sessions'[k].user_id] = k
  BY <1>1 DEF Inv, TablesInv, OneSessionUncrossed
<1>6. OneSessionUncrossed'
  BY <1>1, <1>5 DEF OneSessionUncrossed
<1>7. OnlineUncrossed'
  <2> SUFFICES ASSUME NEW v \in User \ (crossed' \cup DOMAIN user_id_to_token')
               PROVE  /\ \A ch \in Channel : v \notin members'[ch]
                      /\ v \notin lobby_subscribers' \cup seated'
                      /\ spectating_target'[v] = Nobody
    BY DEF OnlineUncrossed
  <2>1. CASE v = u
    BY <1>1, <2>1
  <2>2. CASE v # u
    BY <1>1, <2>2 DEF Inv, TablesInv, OnlineUncrossed
  <2>3. QED
    BY <2>1, <2>2
<1>8. ChannelsAgree'
  <2> SUFFICES ASSUME NEW k \in DOMAIN sessions', NEW ch \in Channel,
                      sessions'[k].user_id \notin crossed'
               PROVE  \/ (ch \in sessions'[k].channels) <=> (sessions'[k].user_id \in members'[ch])
                      \/ \E p \in Request : request'[p] = Joining(sessions'[k].user_id, k, ch)
    BY DEF ChannelsAgree
  <2>1. sessions'[k] = sessions[k] /\ k \in DOMAIN sessions /\ sessions[k].user_id # u
    BY <1>1, <1>5
  <2>2. \/ (ch \in sessions[k].channels) <=> (sessions[k].user_id \in members[ch])
        \/ \E p \in Request : request[p] = Joining(sessions[k].user_id, k, ch)
    BY <2>1 DEF Inv, TablesInv, ChannelsAgree
  <2>3. \A p \in Request :
          request[p] = Joining(sessions[k].user_id, k, ch) => request'[p] = request[p]
    BY DEF Joining
  <2>4. (sessions[k].user_id \in members'[ch]) <=> (sessions[k].user_id \in members[ch])
    BY <1>1, <2>1
  <2>5. QED
    BY <2>1, <2>2, <2>3, <2>4
<1>9. QED
  BY <1>2, <1>3, <1>4, <1>6, <1>7, <1>8 DEF TablesInv

\* A request that is not joining a channel ends and leaves everything as it is.
LEMMA EndStep ==
  ASSUME Inv, NEW q \in Request, ~ IsAt(q, "join"), Goes(q, Idle),
         UNCHANGED <<sessions, user_id_to_token, present, crossed>>
  PROVE  Inv'
<1>1. Idle \in RequestState /\ Idle.at \notin Serving \cup {"login", "join"}
  BY DEF RequestState, Idle, Serving
<1>2. \A p \in Request : request[p].at = "join" => request'[p] = request[p]
  BY DEF Goes, IsAt, Inv, RequestsInv, RequestsTyped
<1>3. crossed \subseteq User
  BY DEF Inv, TablesInv, TypeOK
<1>4. TablesInv'
  BY <1>2, <1>3, TablesKept
<1>5. \A p \in Request \ {q} :
        request[p].at \in Serving /\ request[p].user \notin crossed' => request[p].token \in DOMAIN sessions'
  BY DEF Inv, RequestsInv, SessionHeld
<1>6. RequestsInv'
  BY <1>1, <1>5, RequestsAfter
<1>7. QED
  BY <1>4, <1>6 DEF Inv

LEMMA LookUpStep ==
  ASSUME Inv, NEW q \in Request, LookUp(q)
  PROVE  Inv'
<1>1. /\ IsAt(q, "poll")
      /\ UNCHANGED <<sessions, user_id_to_token, present, crossed>>
  BY DEF LookUp
<1>2. CASE request[q].token \notin DOMAIN sessions
  <2>1. Goes(q, Idle) /\ ~ IsAt(q, "join")
    BY <1>1, <1>2 DEF LookUp, IsAt
  <2>2. QED
    BY <1>1, <2>1, EndStep
<1>3. CASE request[q].token \in DOMAIN sessions
  <2> DEFINE st == Handling(request[q].user, request[q].token)
  <2>1. request[q].at \in Serving /\ request[q].at # "join"
    BY <1>1 DEF IsAt, Serving
  <2>2. Goes(q, st)
    BY <1>3, <2>1 DEF LookUp, Inv, RequestsInv, UsersRemembered
  <2>3. /\ st \in RequestState /\ st.at \in Serving /\ st.at # "join"
        /\ st.user = request[q].user /\ st.token = request[q].token
    BY <2>1, ServingStates DEF Handling, RequestState, Serving
  <2> HIDE DEF st
  <2>4. OwnTables(q) /\ OwnSpectating
    BY <1>1 DEF OwnTables, OwnSpectating, present, Inv, TablesInv, TypeOK, SpectatorsAgree
  <2>5. request[q].user \notin crossed => OwnChannels(q, st)
    BY <1>1, <2>1, ServingAgree DEF OwnChannels, present
  <2>6. QED
    BY <2>1, <2>2, <2>3, <2>4, <2>5, OwnStep
<1>4. QED
  BY <1>2, <1>3

\* A request that begins finds its user alone or makes it crossed.
LEMMA Beginning ==
  ASSUME Inv, NEW q \in Request, NEW u \in User, Begins(q, u)
  PROVE  /\ crossed \subseteq crossed' /\ crossed' \subseteq User
         /\ \A p \in Request : request[p] # Idle /\ request[p].user = u => u \in crossed'
         /\ request[q].at = "idle"
<1>1. crossed \subseteq User
  BY DEF Inv, TablesInv, TypeOK
<1>2. ASSUME NEW p \in Request, request[p] # Idle, request[p].user = u PROVE u \in crossed'
  <2>1. p \in Busy(u)
    BY <1>2 DEF Busy
  <2>2. QED
    BY <2>1 DEF Begins
<1>3. crossed \subseteq crossed' /\ crossed' \subseteq User /\ request[q].at = "idle"
  BY <1>1 DEF Begins, Idle
<1>4. QED
  BY <1>2, <1>3

LEMMA PollStartsStep ==
  ASSUME Inv, NEW q \in Request, NEW t \in Token, PollStarts(q, t)
  PROVE  Inv'
<1> DEFINE u  == sessions[t].user_id
           st == Polling(u, t)
<1>1. /\ t \in DOMAIN sessions /\ u \in User /\ Begins(q, u) /\ Goes(q, st)
      /\ UNCHANGED <<sessions, user_id_to_token, present>>
  BY DEF PollStarts, Inv, TablesInv, TypeOK, Session
<1>2. /\ st \in RequestState /\ st.at = "poll" /\ st.user = u /\ st.token = t
  BY <1>1 DEF Polling, RequestState
<1> HIDE DEF u, st
<1>3. /\ crossed \subseteq crossed' /\ crossed' \subseteq User
      /\ \A p \in Request : request[p] # Idle /\ request[p].user = u => u \in crossed'
      /\ request[q].at = "idle"
  BY <1>1, Beginning
<1>4. \A p \in Request : request[p].at = "join" => request'[p] = request[p]
  BY <1>1, <1>3 DEF Goes, Inv, RequestsInv, RequestsTyped
<1>5. TablesInv'
  BY <1>1, <1>3, <1>4, TablesKept
<1>6. ASSUME NEW p \in Request \ {q}
      PROVE  /\ request[p].at \in Serving /\ request[p].user \notin crossed'
                => request[p].token \in DOMAIN sessions'
             /\ request[p] # Idle =>
                  /\ request[p].user = u => u \in crossed'
                  /\ IsAt(p, "login") => request[p].token # t
  BY <1>1, <1>3 DEF Inv, RequestsInv, SessionHeld, LoginTokensNew
<1>7. "poll" # "join" /\ "poll" # "login" /\ sessions'[t].user_id = u
  BY <1>1 DEF u
<1>8. RequestsInv'
  BY <1>1, <1>2, <1>3, <1>6, <1>7, RequestsAfter
<1>9. QED
  BY <1>5, <1>8 DEF Inv

LEMMA LoginEvictsStep ==
  ASSUME Inv, NEW q \in Request, NEW u \in User, NEW t \in Token, LoginEvicts(q, u, t)
  PROVE  Inv'
<1> DEFINE st == LoggingIn(u, t)
           k  == user_id_to_token[u]
<1>1. /\ Begins(q, u) /\ IsFresh(t) /\ Goes(q, st)
      /\ u \in DOMAIN user_id_to_token => RemoveSession(k)
      /\ u \notin DOMAIN user_id_to_token => UNCHANGED <<sessions, user_id_to_token, present>>
  BY DEF LoginEvicts
<1>2. st \in RequestState /\ st.at = "login" /\ st.user = u /\ st.token = t
  BY DEF LoggingIn, RequestState
<1> HIDE DEF st
<1>3. /\ crossed \subseteq crossed' /\ crossed' \subseteq User
      /\ \A p \in Request : request[p] # Idle /\ request[p].user = u => u \in crossed'
      /\ request[q].at = "idle"
  BY <1>1, Beginning
<1>4. \A p \in Request : request[p].at = "join" => request'[p] = request[p]
  BY <1>1, <1>3 DEF Goes, Inv, RequestsInv, RequestsTyped
<1>5. /\ t \notin DOMAIN sessions
      /\ \A p \in Request : request[p] # Idle => request[p].token # t
  BY <1>1 DEF IsFresh
<1>6. "login" \notin Serving /\ "login" # "join"
  BY DEF Serving
<1>7. CASE u \in DOMAIN user_id_to_token
  <2>1. k \in DOMAIN sessions /\ sessions[k].user_id = u /\ RemoveSession(k)
    BY <1>1, <1>7 DEF Inv, TablesInv, IndexSound
  <2> HIDE DEF k
  <2>2. TablesInv'
    BY <1>3, <1>4, <2>1, RemovedTables
  <2>3. /\ DOMAIN sessions' = DOMAIN sessions \ {k}
        /\ \A j \in DOMAIN sessions' : sessions'[j] = sessions[j]
        /\ DOMAIN user_id_to_token' = DOMAIN user_id_to_token \ {u}
    BY <2>1, Removal
  <2>4. ASSUME NEW p \in Request \ {q}, request[p].at \in Serving, request[p].user \notin crossed'
        PROVE  request[p].token \in DOMAIN sessions'
    <3>1. request[p] # Idle /\ request[p].user # u
      BY <1>3, <2>4 DEF Idle, Serving
    <3>2. request[p].token \in DOMAIN sessions /\ request[p].token # k
      BY <1>3, <2>1, <2>4, <3>1 DEF Inv, RequestsInv, SessionHeld, UsersRemembered
    <3>3. QED
      BY <2>3, <3>2
  <2>5. RequestsInv'
    BY <1>1, <1>2, <1>3, <1>5, <1>6, <2>3, <2>4, RequestsAfter
  <2>6. QED
    BY <2>2, <2>5 DEF Inv
<1>8. CASE u \notin DOMAIN user_id_to_token
  <2>1. UNCHANGED <<sessions, user_id_to_token, present>>
    BY <1>1, <1>8
  <2>2. TablesInv'
    BY <1>3, <1>4, <2>1, TablesKept
  <2>3. \A p \in Request \ {q} : request[p].at \in Serving /\ request[p].user \notin crossed'
          => request[p].token \in DOMAIN sessions'
    BY <1>3, <2>1 DEF Inv, RequestsInv, SessionHeld
  <2>4. RequestsInv'
    BY <1>1, <1>2, <1>3, <1>5, <1>6, <1>8, <2>1, <2>3, RequestsAfter
  <2>5. QED
    BY <2>2, <2>4 DEF Inv
<1>9. QED
  BY <1>7, <1>8

LEMMA LogoutStep ==
  ASSUME Inv, NEW q \in Request, Logout(q)
  PROVE  Inv'
<1> DEFINE t == request[q].token
<1>1. /\ IsAt(q, "packet") /\ ~ IsAt(q, "join") /\ Goes(q, Idle) /\ crossed' = crossed
      /\ HasSession(q) => RemoveSession(t)
      /\ ~ HasSession(q) => UNCHANGED <<sessions, user_id_to_token, present>>
  BY DEF Logout, IsAt
<1>2. CASE ~ HasSession(q)
  BY <1>1, <1>2, EndStep
<1>3. CASE HasSession(q)
  <2>1. t \in DOMAIN sessions /\ RemoveSession(t) /\ request[q].at \in Serving
    BY <1>1, <1>3 DEF HasSession, IsAt, Serving
  <2>2. sessions[t].user_id = request[q].user /\ request[q] # Idle
    BY <2>1, ServingStates DEF Inv, RequestsInv, UsersRemembered
  <2>3. \A p \in Request : request[p].at = "join" => request'[p] = request[p]
    BY <1>1 DEF Goes, IsAt, Inv, RequestsInv, RequestsTyped
  <2>4. crossed \subseteq crossed' /\ crossed' \subseteq User
    BY <1>1 DEF Inv, TablesInv, TypeOK
  <2>5. TablesInv'
    BY <2>1, <2>3, <2>4, RemovedTables
  <2>6. /\ DOMAIN sessions' = DOMAIN sessions \ {t}
        /\ \A j \in DOMAIN sessions' : sessions'[j] = sessions[j]
        /\ DOMAIN user_id_to_token' \subseteq DOMAIN user_id_to_token
    BY <2>1, Removal, ZenonT(90)
  <2>7. ASSUME NEW p \in Request \ {q}, request[p].at \in Serving, request[p].user \notin crossed'
        PROVE  request[p].token \in DOMAIN sessions'
    <3>1. /\ request[p] # Idle /\ request[p].token \in DOMAIN sessions
          /\ sessions[request[p].token].user_id = request[p].user
      BY <1>1, <2>7, ServingStates, ServingUncrossed
    <3>2. request[p].token # t
      BY <1>1, <2>2, <2>7, <3>1 DEF Inv, RequestsInv, Alone
    <3>3. QED
      BY <2>6, <3>1, <3>2
  <2>8. Idle \in RequestState /\ Idle.at \notin Serving \cup {"login", "join"}
    BY DEF RequestState, Idle, Serving
  <2>9. RequestsInv'
    BY <1>1, <2>4, <2>6, <2>7, <2>8, RequestsAfter
  <2>10. QED
    BY <2>5, <2>9 DEF Inv
<1>4. QED
  BY <1>2, <1>3

-----------------------------------------------------------------------------
(* The second half of a login *)

\* A user that is logging in with no other request under way has no session and no
\* trace of an old one.
LEMMA LoginClean ==
  ASSUME Inv, NEW q \in Request, IsAt(q, "login"), request[q].user \notin crossed
  PROVE  /\ request[q].user \notin DOMAIN user_id_to_token
         /\ \A k \in DOMAIN sessions : sessions[k].user_id # request[q].user
         /\ \A ch \in Channel : request[q].user \notin members[ch]
<1>1. request[q].user \notin DOMAIN user_id_to_token
  BY DEF Inv, RequestsInv, LoggedOut
<1>2. request[q].user \in User
  <2>1. request[q] \in RequestState /\ request[q] # Idle
    BY DEF IsAt, Idle, Inv, RequestsInv, RequestsTyped
  <2>2. QED
    BY <2>1, IdleStates
<1>3. QED
  BY <1>1, <1>2 DEF Inv, TablesInv, OneSessionUncrossed, OnlineUncrossed

LEMMA LoginAddsStep ==
  ASSUME Inv, NEW q \in Request, LoginAdds(q)
  PROVE  Inv'
<1> DEFINE u == request[q].user
           t == request[q].token
           s == [user_id |-> u, channels |-> AutoJoin]
<1>1. /\ IsAt(q, "login") /\ Goes(q, Idle)
      /\ members' = [ch \in Channel |-> IF ch \in AutoJoin THEN members[ch] \cup {u} ELSE members[ch]]
      /\ sessions' = [k \in DOMAIN sessions \cup {t} |-> IF k = t THEN s ELSE sessions[k]]
      /\ user_id_to_token' = [v \in DOMAIN user_id_to_token \cup {u} |->
                                IF v = u THEN t ELSE user_id_to_token[v]]
      /\ UNCHANGED <<lobby_subscribers, seated, spectators, spectating_target, crossed>>
  BY DEF LoginAdds
<1>2. u \in User /\ t \in Token /\ request[q] # Idle
  <2>1. request[q] \in RequestState /\ request[q] # Idle
    BY <1>1 DEF IsAt, Idle, Inv, RequestsInv, RequestsTyped
  <2>2. QED
    BY <2>1, IdleStates
<1>3. /\ t \notin DOMAIN sessions
      /\ \A p \in Request \ {q} : request[p] # Idle => request[p].token # t
  BY <1>1 DEF Inv, RequestsInv, LoginTokensNew
<1>4. s \in Session /\ s.user_id = u /\ s.channels = AutoJoin
  BY <1>2, SessionsAssumption DEF Session
<1> HIDE DEF s
<1>5. /\ DOMAIN sessions' = DOMAIN sessions \cup {t}
      /\ sessions'[t] = s
      /\ \A k \in DOMAIN sessions : sessions'[k] = sessions[k]
      /\ DOMAIN user_id_to_token' = DOMAIN user_id_to_token \cup {u}
      /\ user_id_to_token'[u] = t
      /\ \A v \in DOMAIN user_id_to_token \ {u} : user_id_to_token'[v] = user_id_to_token[v]
  BY <1>1, <1>3
<1>6. /\ members' \in [Channel -> SUBSET User]
      /\ \A ch \in Channel : members'[ch] = IF ch \in AutoJoin THEN members[ch] \cup {u} ELSE members[ch]
  BY <1>1, <1>2 DEF Inv, TablesInv, TypeOK
<1>7. /\ request' \in [Request -> RequestState]
      /\ request'[q] = Idle /\ Idle.at \notin Serving \cup {"login", "join"}
      /\ \A p \in Request \ {q} : request'[p] = request[p]
  BY <1>1 DEF Goes, Inv, RequestsInv, RequestsTyped, RequestState, Idle, Serving
<1>8. \A p \in Request \ {q} : request[p] # Idle /\ request[p].user \notin crossed => request[p].user # u
  BY <1>2 DEF Inv, RequestsInv, Alone
<1>9. \A p \in Request : request[p].at \in Serving \cup {"login"} => request[p] # Idle
  BY DEF Idle, Serving
<1>10. RequestsInv'
  <2>1. RequestsTyped'
    BY <1>7 DEF RequestsTyped
  <2>2. LoginTokensNew'
    BY <1>3, <1>5, <1>7, <1>9 DEF Inv, RequestsInv, LoginTokensNew, IsAt
  <2>3. UsersRemembered'
    BY <1>3, <1>5, <1>7, <1>9 DEF Inv, RequestsInv, UsersRemembered
  <2>4. Alone'
    BY <1>1, <1>7 DEF Inv, RequestsInv, Alone
  <2>5. SessionHeld'
    BY <1>1, <1>5, <1>7 DEF Inv, RequestsInv, SessionHeld
  <2>6. LoggedOut'
    BY <1>1, <1>5, <1>7, <1>8, <1>9 DEF Inv, RequestsInv, LoggedOut, IsAt
  <2>7. HalfJoined'
    <3> SUFFICES ASSUME NEW p \in Request, request'[p].at = "join", request'[p].user \notin crossed
                 PROVE  request'[p].channel \in sessions'[request'[p].token].channels
      BY <1>1 DEF HalfJoined, IsAt
    <3>1. p # q /\ request'[p] = request[p] /\ request[p].at \in Serving
      BY <1>7 DEF Serving
    <3>2. request[p].token \in DOMAIN sessions
      BY <3>1 DEF Inv, RequestsInv, SessionHeld
    <3>3. QED
      BY <1>5, <3>1, <3>2 DEF Inv, RequestsInv, HalfJoined, IsAt
  <2>8. QED
    BY <2>1, <2>2, <2>3, <2>4, <2>5, <2>6, <2>7 DEF RequestsInv
<1>11. TypeOK'
  BY <1>1, <1>2, <1>4, <1>5, <1>6 DEF Inv, TablesInv, TypeOK
<1>12. IndexSound'
  BY <1>3, <1>4, <1>5 DEF Inv, TablesInv, IndexSound
<1>13. SpectatorsAgree'
  BY <1>1, <1>5 DEF Inv, TablesInv, SpectatorsAgree
<1>14. OneSessionUncrossed'
  <2> SUFFICES ASSUME NEW k \in DOMAIN sessions', sessions'[k].user_id \notin crossed
               PROVE  /\ sessions'[k].user_id \in DOMAIN user_id_to_token'
                      /\ user_id_to_token'[sessions'[k].user_id] = k
    BY <1>1 DEF OneSessionUncrossed
  <2>1. CASE k = t
    BY <1>4, <1>5, <2>1
  <2>2. CASE k # t
    <3>1. k \in DOMAIN sessions /\ sessions'[k] = sessions[k] /\ sessions[k].user_id # u
      BY <1>1, <1>5, <2>2, LoginClean
    <3>2. QED
      BY <1>5, <3>1 DEF Inv, TablesInv, OneSessionUncrossed
  <2>3. QED
    BY <2>1, <2>2
<1>15. OnlineUncrossed'
  BY <1>1, <1>5, <1>6 DEF Inv, TablesInv, OnlineUncrossed
<1>16. ChannelsAgree'
  <2> SUFFICES ASSUME NEW k \in DOMAIN sessions', NEW ch \in Channel,
                      sessions'[k].user_id \notin crossed'
               PROVE  \/ (ch \in sessions'[k].channels) <=> (sessions'[k].user_id \in members'[ch])
                      \/ \E p \in Request : request'[p] = Joining(sessions'[k].user_id, k, ch)
    BY DEF ChannelsAgree
  <2>1. CASE k = t
    <3>1. u \notin crossed /\ sessions'[k].channels = AutoJoin /\ sessions'[k].user_id = u
      BY <1>1, <1>4, <1>5, <2>1
    <3>2. u \notin members[ch]
      BY <1>1, <3>1, LoginClean
    <3>3. QED
      BY <1>6, <3>1, <3>2
  <2>2. CASE k # t
    <3>1. k \in DOMAIN sessions /\ sessions'[k] = sessions[k] /\ sessions[k].user_id \notin crossed
      BY <1>1, <1>5, <2>2
    <3>2. sessions[k].user_id # u
      BY <1>1, <3>1, LoginClean
    <3>3. \/ (ch \in sessions[k].channels) <=> (sessions[k].user_id \in members[ch])
          \/ \E p \in Request : request[p] = Joining(sessions[k].user_id, k, ch)
      BY <3>1 DEF Inv, TablesInv, ChannelsAgree
    <3>4. request[q] # Joining(sessions[k].user_id, k, ch)
      BY <3>2 DEF Joining
    <3>5. (sessions[k].user_id \in members'[ch]) <=> (sessions[k].user_id \in members[ch])
      BY <1>6, <3>2
    <3>6. QED
      BY <1>7, <3>1, <3>3, <3>4, <3>5
  <2>3. QED
    BY <2>1, <2>2
<1>17. QED
  BY <1>10, <1>11, <1>12, <1>13, <1>14, <1>15, <1>16 DEF Inv, TablesInv

-----------------------------------------------------------------------------
(* The invariant, and what it says *)

LEMMA NextInv == Inv /\ [Next]_vars => Inv'
<1> SUFFICES ASSUME Inv, [Next]_vars PROVE Inv'
  OBVIOUS
<1>1. CASE UNCHANGED vars
  <2>1. RequestsInv'
    BY <1>1 DEF vars, Inv, RequestsInv, RequestsTyped, LoginTokensNew, UsersRemembered, Alone,
                SessionHeld, LoggedOut, HalfJoined, IsAt
  <2>2. TablesInv'
    <3>1. /\ UNCHANGED <<sessions, user_id_to_token, present>>
          /\ request' = request /\ crossed' = crossed
      BY <1>1 DEF vars
    <3>2. crossed \subseteq User
      BY DEF Inv, TablesInv, TypeOK
    <3>3. QED
      BY <3>1, <3>2, TablesKept
  <2>3. QED
    BY <2>1, <2>2 DEF Inv
<1>2. ASSUME NEW q \in Request, NEW t \in Token, PollStarts(q, t) PROVE Inv'
  BY <1>2, PollStartsStep
<1>3. ASSUME NEW q \in Request, NEW t \in Token, NEW u \in User, LoginEvicts(q, u, t) PROVE Inv'
  BY <1>3, LoginEvictsStep
<1>4. ASSUME NEW q \in Request, LoginAdds(q) \/ LookUp(q) \/ ChannelJoined(q) PROVE Inv'
  BY <1>4, LoginAddsStep, LookUpStep, ChannelJoinedStep
<1>5. ASSUME NEW q \in Request, PollEnds(q) PROVE Inv'
  BY <1>5, EndStep DEF PollEnds, IsAt
<1>6. ASSUME NEW q \in Request, Arm(q) PROVE Inv'
  <2>1. ASSUME NEW ch \in Name, ChannelJoin(q, ch) \/ ChannelPart(q, ch) PROVE Inv'
    BY <2>1, ChannelJoinStep, ChannelPartStep
  <2>2. ASSUME NEW h \in User, StartSpectating(q, h) PROVE Inv'
    BY <2>2, StartSpectatingStep
  <2>3. CASE StopSpectating(q) \/ TakeSeat(q) \/ Logout(q)
    BY <2>3, StopSpectatingStep, TakeSeatStep, LogoutStep
  <2>4. CASE LobbyJoin(q) \/ LobbyPart(q) \/ LeaveSeat(q) \/ OtherPacket(q)
    BY <2>4, LobbyStep
  <2>5. QED
    BY <1>6, <2>1, <2>2, <2>3, <2>4 DEF Arm
<1>7. QED
  BY <1>1, <1>2, <1>3, <1>4, <1>5, <1>6 DEF Next

\* Requests know what they hold and the tables agree with each other, at every lock
\* that a login, a poll or a packet lets go of.
THEOREM Invariance == Spec => []Inv
<1>1. QED
  BY InitInv, NextInv, PTL DEF Spec

\* The tables stay well typed, and so do the requests.
THEOREM TypeCorrect == Spec => [](TypeOK /\ RequestsTyped)
<1>1. Inv => TypeOK /\ RequestsTyped
  BY DEF Inv, TablesInv, RequestsInv
<1>2. QED
  BY <1>1, Invariance, PTL

\* The index always leads to a session of the user it is asked for, whatever logins,
\* logouts and polls overlap.
THEOREM IndexNeverDangles == Spec => []IndexSound
<1>1. Inv => IndexSound
  BY DEF Inv, TablesInv
<1>2. QED
  BY <1>1, Invariance, PTL

\* Who watches whom is recorded alike on both sides, and only of hosts that are
\* connected.
THEOREM SpectatingAgrees == Spec => []SpectatorsAgree
<1>1. Inv => SpectatorsAgree
  BY DEF Inv, TablesInv
<1>2. QED
  BY <1>1, Invariance, PTL

\* A user whose requests never overlapped has one session at most, the one that the
\* index knows.
THEOREM OneSessionEach == Spec => []OneSessionUncrossed
<1>1. Inv => OneSessionUncrossed
  BY DEF Inv, TablesInv
<1>2. QED
  BY <1>1, Invariance, PTL

\* Such a user leaves nothing behind when its session ends: no channel, lobby entry,
\* seat or host.
THEOREM GoneWithoutTrace == Spec => []OnlineUncrossed
<1>1. Inv => OnlineUncrossed
  BY DEF Inv, TablesInv
<1>2. QED
  BY <1>1, Invariance, PTL

\* Such a user's session and the channels agree about who is in which.
THEOREM ChannelsMatchSession == Spec => []ChannelsAgree
<1>1. Inv => ChannelsAgree
  BY DEF Inv, TablesInv
<1>2. QED
  BY <1>1, Invariance, PTL
=============================================================================
