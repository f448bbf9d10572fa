-------------------------------- MODULE Chat --------------------------------
(***************************************************************************)
(* Chat: public messages, their history in a database, replays of it to    *)
(* those who log in or join a channel, the bot, and private messages with  *)
(* the notice that precedes the first one of two people                    *)
(* (bancho/handler.rs, bancho/bot.rs, db/chat.rs, server/bancho.rs).  A    *)
(* message is stored by a task of its own while it is broadcast, and a     *)
(* replay reads the database between two holds of the lock, so that both   *)
(* can miss each other.  A session is known by its user and its number;    *)
(* logins of one user that cross are the matter of Sessions.tla.           *)
(***************************************************************************)
EXTENDS Naturals, FiniteSets, Sequences

CONSTANTS People,        \* users
          Channels,      \* channels
          Osu,           \* the channel that every login joins
          HistoryLimit,  \* config gameplay.chat_history_limit
          Handlers,      \* requests and spawned replays at once
          MaxSent,       \* bound on the messages
          MaxLogins      \* bound on the logins

ASSUME ChatAssumption ==
    /\ Osu \in Channels
    /\ HistoryLimit \in Nat
    /\ MaxSent \in Nat /\ MaxLogins \in Nat
    /\ IsFiniteSet(Handlers)

VARIABLES current,   \* [People -> number of the session, 0 if none]
          logins,    \* logins so far; the number of the last session
          members,   \* [Channels -> SUBSET People]
          inbox,     \* [People -> messages that were queued for the session]
          stored,    \* rows of chat_messages
          saving,    \* tasks that are about to store a message
          work,      \* [Handlers -> request in flight]
          sent,      \* messages so far; the number of the last one
          warned,    \* pm_warned_pairs
          notices,   \* history: [pairs -> notices sent]
          settled,   \* history: [People -> channels they are done joining]
          due        \* history: [People -> messages they must have]

chatVars == <<current, logins, members, inbox, stored, saving, work, sent,
              warned, notices, settled, due>>

Free      == [step |-> "idle"]
Pair(u, v) == {u, v}
Pairs     == {Pair(u, v) : u, v \in People}

\* get_channel_history: the last rows of the channel
History(ch) ==
    LET of == {i \in DOMAIN stored : stored[i].channel = ch}
    IN {stored[i].id : i \in {j \in of :
                                Cardinality({k \in of : k > j}) < HistoryLimit}}

ChatInit ==
    /\ current = [u \in People |-> 0]
    /\ logins = 0
    /\ members = [ch \in Channels |-> {}]
    /\ inbox = [u \in People |-> {}]
    /\ stored = <<>> /\ saving = {} /\ sent = 0
    /\ work = [h \in Handlers |-> Free]
    /\ warned = {} /\ notices = [p \in Pairs |-> 0]
    /\ settled = [u \in People |-> {}]
    /\ due = [u \in People |-> {}]

Online(u)     == current[u] > 0
WorkGoes(h, step) == work' = [work EXCEPT ![h].step = step]
Ends(h)       == work' = [work EXCEPT ![h] = Free]
BeginWork(h, req) == work[h] = Free /\ work' = [work EXCEPT ![h] = req]

\* enqueue_packet of messages to the sessions of some users
Enqueue(to, ids) ==
    inbox' = [u \in People |-> IF u \in to /\ Online(u) THEN inbox[u] \cup ids
                               ELSE inbox[u]]

\* what a replay must have brought: rows that were among the last before it
\* began and still are
Expected(h, ch) ==
    IF work[h].ok THEN work[h].before \cap History(ch) ELSE {}

-----------------------------------------------------------------------------
(* Sessions *)

\* remove_session
Drop(u) ==
    /\ current' = [current EXCEPT ![u] = 0]
    /\ members' = [ch \in Channels |->
                     IF Online(u) THEN members[ch] \ {u} ELSE members[ch]]
    /\ inbox' = [inbox EXCEPT ![u] = {}]
    /\ settled' = [settled EXCEPT ![u] = {}]
    /\ due' = [due EXCEPT ![u] = {}]

\* a login evicts the session of before ...
LoginStart(h, u) ==
    /\ logins < MaxLogins
    /\ \A k \in Handlers :
          ~(work[k].step \in {"history", "open"} /\ work[k].user = u)
    /\ logins' = logins + 1
    /\ BeginWork(h, [step |-> "history", user |-> u, number |-> logins + 1,
                     before |-> History(Osu), replay |-> {}, ok |-> FALSE])
    /\ Drop(u)
    /\ UNCHANGED <<stored, saving, sent, warned, notices>>

\* ... reads the history, or goes on without ...
LoginHistory(h) ==
    /\ work[h].step = "history"
    /\ \/ work' = [work EXCEPT ![h].step = "open", ![h].ok = TRUE,
                              ![h].replay = History(Osu)]
       \/ WorkGoes(h, "open")
    /\ UNCHANGED <<current, logins, members, inbox, stored, saving, sent,
                   warned, notices, settled, due>>

\* the session is added, but not to the channel
MUTANT_LoginOpen(h) ==
    /\ work[h].step = "open"
    /\ LET u == work[h].user
       IN /\ current' = [current EXCEPT ![u] = work[h].number]
          /\ inbox' = [inbox EXCEPT ![u] = work[h].replay]
          /\ settled' = [settled EXCEPT ![u] = {Osu}]
          /\ due' = [due EXCEPT ![u] = Expected(h, Osu)]
    /\ Ends(h)
    /\ UNCHANGED <<members, logins, stored, saving, sent, warned, notices>>

\* ... and adds the session, with the history in its answer
LoginOpen(h) ==
    /\ work[h].step = "open"
    /\ LET u == work[h].user
       IN /\ current' = [current EXCEPT ![u] = work[h].number]
          /\ members' = [members EXCEPT ![Osu] = @ \cup {u}]
          /\ inbox' = [inbox EXCEPT ![u] = work[h].replay]
          /\ settled' = [settled EXCEPT ![u] = {Osu}]
          /\ due' = [due EXCEPT ![u] = Expected(h, Osu)]
    /\ Ends(h)
    /\ UNCHANGED <<logins, stored, saving, sent, warned, notices>>

\* OSU_LOGOUT
Leave(u) ==
    /\ Online(u)
    /\ Drop(u)
    /\ UNCHANGED <<logins, stored, saving, work, sent, warned, notices>>

\* OSU_CHANNEL_JOIN: the session is told under one hold of the lock ...
Join(h, u, ch) ==
    /\ Online(u)
    /\ BeginWork(h, [step |-> "member", user |-> u, number |-> current[u],
                     channel |-> ch, before |-> History(ch),
                     replay |-> {}, ok |-> FALSE])
    /\ UNCHANGED <<current, logins, members, inbox, stored, saving, sent,
                   warned, notices, settled, due>>

\* ... becomes a member under another, and a task is spawned ...
JoinMember(h) ==
    /\ work[h].step = "member"
    /\ members' = [members EXCEPT ![work[h].channel] = @ \cup {work[h].user}]
    /\ WorkGoes(h, "read")
    /\ UNCHANGED <<current, logins, inbox, stored, saving, sent, warned,
                   notices, settled, due>>

\* ... that reads the history, or gives up ...
ReplayRead(h) ==
    /\ work[h].step = "read"
    /\ \/ work' = [work EXCEPT ![h].step = "replay", ![h].ok = TRUE,
                              ![h].replay = History(work[h].channel)]
       \/ Ends(h)
    /\ UNCHANGED <<current, logins, members, inbox, stored, saving, sent,
                   warned, notices, settled, due>>

\* ... and queues it for the session, if it is still there
Replay(h) ==
    /\ work[h].step = "replay"
    /\ LET u  == work[h].user
           ch == work[h].channel
       IN IF current[u] # work[h].number
          THEN UNCHANGED <<inbox, settled, due>>
          ELSE /\ Enqueue({u}, work[h].replay)
               /\ due' = [due EXCEPT ![u] = @ \cup Expected(h, ch)]
               /\ settled' = IF u \in members[ch]
                             THEN [settled EXCEPT ![u] = @ \cup {ch}]
                             ELSE settled
    /\ Ends(h)
    /\ UNCHANGED <<current, logins, members, stored, saving, sent, warned,
                   notices>>

\* OSU_CHANNEL_PART, under one hold
Part(u, ch) ==
    /\ Online(u)
    /\ members' = [members EXCEPT ![ch] = @ \ {u}]
    /\ settled' = [settled EXCEPT ![u] = @ \ {ch}]
    /\ UNCHANGED <<current, logins, inbox, stored, saving, work, sent, warned,
                   notices, due>>

-----------------------------------------------------------------------------
(* Public messages *)

\* OSU_SEND_PUBLIC_MESSAGE: the filtered message is handed to a task that
\* stores it, also if it is a command for the bot
Say(h, u, ch, command) ==
    /\ Online(u) /\ sent < MaxSent
    /\ sent' = sent + 1
    /\ saving' = saving \cup {[id |-> sent + 1, channel |-> ch]}
    /\ BeginWork(h, [step |-> IF command THEN "command" ELSE "broadcast",
                     user |-> u, channel |-> ch, id |-> sent + 1,
                     reply |-> {},
                     audience |-> {<<v, current[v]>> :
                                      v \in {w \in People \ {u} :
                                                 ch \in settled[w]}}])
    /\ UNCHANGED <<current, logins, members, inbox, stored, warned, notices,
                   settled, due>>

\* save_chat_message, whose failure is ignored
SaveMessage(row) ==
    /\ row \in saving
    /\ saving' = saving \ {row}
    /\ \/ stored' = Append(stored, row)
       \/ UNCHANGED stored
    /\ UNCHANGED <<current, logins, members, inbox, work, sent, warned,
                   notices, settled, due>>

\* broadcast_to_channel_except the sender
Broadcast(h) ==
    /\ work[h].step = "broadcast"
    /\ LET ch == work[h].channel
       IN /\ Enqueue(members[ch] \ {work[h].user}, {work[h].id})
          /\ due' = [u \in People |->
                       IF /\ <<u, current[u]>> \in work[h].audience
                          /\ ch \in settled[u]
                       THEN due[u] \cup {work[h].id} ELSE due[u]]
    /\ Ends(h)
    /\ UNCHANGED <<current, logins, members, stored, saving, sent, warned,
                   notices, settled>>

\* handle_bot_command: !history reads the database, the others answer with a
\* text of the bot, which is not followed here
BotCommand(h) ==
    /\ work[h].step = "command"
    /\ \/ work' = [work EXCEPT ![h].step = "reply",
                              ![h].reply = History(work[h].channel)]
       \/ WorkGoes(h, "reply")
    /\ UNCHANGED <<current, logins, members, inbox, stored, saving, sent,
                   warned, notices, settled, due>>

\* broadcast_to_channel: the reply goes to everybody in it
BotReply(h) ==
    /\ work[h].step = "reply"
    /\ Enqueue(members[work[h].channel], work[h].reply)
    /\ Ends(h)
    /\ UNCHANGED <<current, logins, members, stored, saving, sent, warned,
                   notices, settled, due>>

-----------------------------------------------------------------------------
(* Private messages, which are never stored *)

\* OSU_SEND_PRIVATE_MESSAGE: the sender is looked up, ...
Whisper(h, u, v) ==
    /\ Online(u) /\ sent < MaxSent
    /\ sent' = sent + 1
    /\ BeginWork(h, [step |-> "find", user |-> u, to |-> v, number |-> 0,
                     id |-> sent + 1])
    /\ UNCHANGED <<current, logins, members, inbox, stored, saving, warned,
                   notices, settled, due>>

\* ... then the session of the other one, ...
FindTarget(h) ==
    /\ work[h].step = "find"
    /\ IF Online(work[h].to)
       THEN work' = [work EXCEPT ![h].step = "mark",
                                 ![h].number = current[work[h].to]]
       ELSE Ends(h)
    /\ UNCHANGED <<current, logins, members, inbox, stored, saving, sent,
                   warned, notices, settled, due>>

\* whether the pair was marked before does not matter
MUTANT_MarkPair(h) ==
    /\ work[h].step = "mark"
    /\ warned' = warned \cup {Pair(work[h].user, work[h].to)}
    /\ WorkGoes(h, "notice")
    /\ UNCHANGED <<current, logins, members, inbox, stored, saving, sent,
                   notices, settled, due>>

\* ... the pair is marked, once for both directions, ...
MarkPair(h) ==
    /\ work[h].step = "mark"
    /\ LET p == Pair(work[h].user, work[h].to)
       IN /\ warned' = warned \cup {p}
          /\ WorkGoes(h, IF p \in warned THEN "deliver" ELSE "notice")
    /\ UNCHANGED <<current, logins, members, inbox, stored, saving, sent,
                   notices, settled, due>>

\* ... both get the security notice, if they are still there, ...
SendNotice(h) ==
    /\ work[h].step = "notice"
    /\ notices' = [notices EXCEPT ![Pair(work[h].user, work[h].to)] = @ + 1]
    /\ WorkGoes(h, "deliver")
    /\ UNCHANGED <<current, logins, members, inbox, stored, saving, sent,
                   warned, settled, due>>

\* ... and the message goes to the session that was found
Deliver(h) ==
    /\ work[h].step = "deliver"
    /\ IF current[work[h].to] = work[h].number
       THEN Enqueue({work[h].to}, {work[h].id})
       ELSE UNCHANGED inbox
    /\ Ends(h)
    /\ UNCHANGED <<current, logins, members, stored, saving, sent, warned,
                   notices, settled, due>>

-----------------------------------------------------------------------------

\* the process stops; the database stays
Restart ==
    /\ logins > 0
    /\ current' = [u \in People |-> 0]
    /\ members' = [ch \in Channels |-> {}]
    /\ inbox' = [u \in People |-> {}]
    /\ saving' = {} /\ work' = [h \in Handlers |-> Free]
    /\ warned' = {} /\ notices' = [p \in Pairs |-> 0]
    /\ settled' = [u \in People |-> {}]
    /\ due' = [u \in People |-> {}]
    /\ UNCHANGED <<logins, stored, sent>>

ChatNext ==
    \/ \E h \in Handlers, u \in People :
          \/ LoginStart(h, u)
          \/ \E ch \in Channels : Join(h, u, ch)
          \/ \E ch \in Channels, command \in BOOLEAN : Say(h, u, ch, command)
          \/ \E v \in People : Whisper(h, u, v)
    \/ \E h \in Handlers :
          \/ LoginHistory(h) \/ LoginOpen(h)
          \/ JoinMember(h) \/ ReplayRead(h) \/ Replay(h)
          \/ Broadcast(h) \/ BotCommand(h) \/ BotReply(h)
          \/ FindTarget(h) \/ MarkPair(h) \/ SendNotice(h) \/ Deliver(h)
    \/ \E u \in People : Leave(u) \/ \E ch \in Channels : Part(u, ch)
    \/ \E row \in saving : SaveMessage(row)
    \/ Restart

ChatSpec == ChatInit /\ [][ChatNext]_chatVars

-----------------------------------------------------------------------------

MessageIds == 1..MaxSent
Rows       == [id : MessageIds, channel : Channels]
Entering   == [step : {"history", "open"}, user : People, number : 1..MaxLogins,
               before : SUBSET MessageIds, replay : SUBSET MessageIds,
               ok : BOOLEAN]
Joining    == [step : {"member", "read", "replay"}, user : People,
               number : 1..MaxLogins, channel : Channels,
               before : SUBSET MessageIds, replay : SUBSET MessageIds,
               ok : BOOLEAN]
Saying     == [step : {"broadcast", "command", "reply"}, user : People,
               channel : Channels, id : MessageIds, reply : SUBSET MessageIds,
               audience : SUBSET (People \X (0..MaxLogins))]
Whispering == [step : {"find", "mark", "notice", "deliver"}, user : People,
               to : People, number : 0..MaxLogins, id : MessageIds]
ChatWork   == {Free} \cup Entering \cup Joining \cup Saying \cup Whispering

ChatTypeOK ==
    /\ current \in [People -> 0..MaxLogins] /\ logins \in 0..MaxLogins
    /\ members \in [Channels -> SUBSET People]
    /\ inbox \in [People -> SUBSET MessageIds] /\ stored \in Seq(Rows)
    /\ saving \subseteq Rows /\ sent \in 0..MaxSent
    /\ work \in [Handlers -> ChatWork]
    /\ warned \subseteq Pairs /\ notices \in [Pairs -> Nat]
    /\ settled \in [People -> SUBSET Channels]
    /\ due \in [People -> SUBSET MessageIds]

(* Who has finished to log in or to join a channel has every message that   *)
(* was stored before (as far back as the history goes) and gets every one   *)
(* that is sent from then on: the broadcast and the replay leave no gap,    *)
(* except for messages that are being sent while the session joins.         *)
NoMessageMissed ==
    \A u \in People : due[u] \subseteq inbox[u]

\* requests that are about to send the notice to the two of a pair
Noticing(p) == {h \in Handlers : /\ work[h].step = "notice"
                                 /\ Pair(work[h].user, work[h].to) = p}

(* Two people who write to each other are sent the security notice exactly  *)
(* once while the server runs, whoever writes first and even if both do at  *)
(* the same time.                                                           *)
WarnedOnce ==
    \A p \in Pairs :
        notices[p] + Cardinality(Noticing(p)) = IF p \in warned THEN 1 ELSE 0
=============================================================================
