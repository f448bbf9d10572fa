# Verification of the Ayanomi server

TLA+ modules of the server in this repository, their TLC configurations and
machine-checked proofs. Paths below are relative to the repository unless they
name a module.

## The system

One process, `ayanomi_frontend`, on tokio and axum, with five SQLite databases.
`src/main.rs` mounts the web router; the Bancho engine for game clients is the
other half of the library (`build_bancho_router`, `build_unified_router` in
`src/server/mod.rs`) and shares its state with it (`src/state.rs`).

| Part | State | Operations | Hard because |
|---|---|---|---|
| Bancho state (`bancho/state.rs`) | `BanchoState` behind one `RwLock` | add and remove sessions, leave rooms, broadcast | everything per user lives in a table of its own and must go when the user goes |
| Logins and polls (`server/bancho.rs`) | none | log in, poll | each request takes the lock many times, with database queries in between |
| Packet arms (`bancho/handler.rs`) | none | 40-odd packets | the user id is looked up under one hold of the lock and used under another |
| Rooms and rounds (`bancho/handler.rs`) | `matches`, `user_to_match`, tables of rounds | `OSU_MATCH_*` | any packet in any state, hosts that leave, ids that wrap, rounds that must end |
| Live-room database (`db/multi.rs`) | rows of rooms and games | upsert, record, delete, clear | written by spawned tasks that nothing orders; processes stop |
| Match history (`db/matches.rs`) | rows of results | save, list | the result is computed from what clients sent |
| Scores (`db/scores.rs`, `utils/score_calc.rs`) | `scores`, `stats` | submit, recalculate | several statements without a transaction |
| Accounts, sessions of the web (`server/frontend.rs`, `db/users.rs`, `utils/crypto.rs`) | `users`, `revoked_sessions`, signed cookies | register, log in and out, change the password | two hashes of a password, expiry, revocation, migrations that are interrupted |
| Checks of a game login (`server/bancho.rs`, `db/users.rs`) | `user_hardware` | check the machine, register, record | the check and the row are several queries apart |
| Rate limiter (`utils/ratelimit.rs`) | buckets per address | check, prune | lazy refill, pruning |
| Chat, bot, filter (`bancho/handler.rs`, `bancho/bot.rs`, `db/chat.rs`) | `pm_warned_pairs`, chat rows | public and private messages, replays | storing, broadcasting and replaying are unordered; tokens go stale |
| Codec (`protocol/`) | none | parse and build packets | framing, lengths |
| Uploads (`server/avatars.rs`, `server/backgrounds.rs`) | files | upload, reset, delete, serve | several file operations per request, without a lock |
| Beatmaps (`db/beatmaps.rs`, `get_scores` in `server/web.rs`) | `beatmaps` | resolve, write back | a cache that requests write after they read it |
| Friends (`db/friends.rs`) | pairs | add, remove, list | the two sides of a friendship are two rows |
| osu!direct, badges, backup, pages, telemetry, configuration | tables, files | lookups and single statements | little |

Game clients reach the engine by HTTP requests whose body is a sequence of
packets and whose answer is the session's queue. Arms call `BanchoState`, which
queues packets for other sessions, and spawn tasks that write to the databases.
What makes each part correct is in the tables of properties below. `PROJECT.json` lists every
component, and every place where the code is hard to test ("hazards").

## The modules

```
Multiplayer ──── MultiplayerProofs        RoomDirectory
   │   └── implements ────────────────────────┘
LiveRooms             Sessions             MatchResult             Scores

RateLimiter ─── implements ─── TokenBucket
Accounts   Machines                                        } MCAccess
Chat   Friends   Uploads   Beatmaps                        } MCCommunity
```

`MultiplayerProofs` has the theorems about `Multiplayer` and `RoomDirectory`;
`LiveRoomsProofs` extends it. `SessionsProofs`, `MatchResultProofs` and
`ScoresProofs` are about the module of their name, `Sums` has the lemmas about
sums that the last two use, `AccessProofs` and `CommunityProofs` are about the
modules of their group and its composition. The modules of the first two rows
have an `MC` module each with what only TLC needs. The others are checked two
groups at a time: `MCAccess` is what stands between a request and its handler,
`MCCommunity` what players do besides playing. The components of a group share
no state in the code, so that their interleavings show nothing: a behaviour is
about one of them (`subject`), and the others stay in one initial state. Definitions carry the names of
the source; definitions named `MUTANT_x` are bugs that the definition after them
does not have, and nothing uses them.

### Multiplayer: the rooms

The state is the part of `BanchoState` that the rooms use. Every arm of
`handle_client_packets` runs under one write lock and is one action, with all
that it calls: `remove_user_from_match` (`Without`, `Vacate`, `Disbanded`),
`try_finish_match` (`RoundOver`, `Conclude`, `TryFinish`). `Evict` and `Logout`
are the two callers of `remove_session`. Any user may send any packet at any
time: the arms act on a user id without asking for the session, so the model
does not ask either. Left out: packets to clients, names, passwords (a refused
join changes nothing), mods and teams, the beatmap, `OSU_MATCH_FAILED` and
`OSU_MATCH_SKIP_REQUEST` (broadcasts), and the numbers in score frames.

| Property | It says |
|---|---|
| `SlotsConsistent` | a slot has a user id exactly when its status is one of a player; handlers search by either |
| `OneSeat` | a user is in one slot of one room, and `user_to_match` names it |
| `HostIsPlayer` | a room is hosted by one of its players, so none is empty |
| `PlayingInRound` | nobody plays outside a round, and a round has its clock |
| `ScoresOfLiveRooms` | no score frame waits for the next room of that id |
| `MappedIsSeated` | `user_to_match` names a room only for who sits in it |
| `RoundsApart` | clocks are those of running rounds, and whenever a room opens or goes, or a round begins, ends or starts over, none of its load reports and frames is left |
| `OnlyOwnSteps` | only one's own packets move, unseat or stop a player |
| `RoundEnds` | a round in which somebody plays ends, or its room does |
| `IsDirectory` | the rooms implement `RoomDirectory` |

`MappedIsSeated`, `RoundsApart`, `OnlyOwnSteps` and `IsDirectory` need ids that
are not in use (`SpecFresh`): `OSU_MATCH_CREATE` does not look whether a room
has the next id, and after 65535 creations it may put the new room over a live
one, which unseats everybody in that room. The other properties hold even then,
which `multiplayer_wrap` checks with a single id.

`RoomDirectory` is what the rooms promise, without slots, statuses, counters or
tables: who is where, who hosts, which rooms have a round, who plays. A room
passes to another occupant when its host leaves, and a round does not end while
one of those who stay still plays.

### LiveRooms: the multi database

`LiveRooms` extends `Multiplayer` with the table of rooms, the games recorded
and the tasks that were spawned and have not run. Its actions are those of the
rooms with what each arm spawns. A restart loses rooms and tasks and clears the
tables, as `init_multi_db` does. The tasks run in any order (`RunTask`), since
each is spawned by itself and takes a connection of its own from a pool, and
each may fail (`FailTask`; nobody looks at the result). `late` and `stale` are
history: a task is late when a newer one has decided the row before it, and a
room is stale while the last task to have a say about it was late or failed.

| Property | It says |
|---|---|
| `OnlyStaleGhosts` | at rest a row or a game of a room that is gone is one of a stale room |
| `NobodyMissing` | at rest the row of a room misses none of its players, unless it is stale |

Both would fail for other rooms if an arm forgot to spawn what it owes: that is
what they are about. What the order of the tasks and their failures do to stale
rooms, nothing in the code makes up for, until the next task about the room runs
in its turn or the process restarts. The converse of `NobodyMissing` is false by
design of the code: a room that is left by logging out or by joining another is
not written, so that its row may show who is gone until something else changes
it.

**Finding** (`live_rooms_spawned`): the table is to "only contain data for active
rooms" (comment at `db/multi.rs:378`, property `OnlyActiveRooms`). Even when no
task fails it may not: a user creates a room and leaves it; the deletion runs
before the upsert and the row of a room that is gone stays until the process
restarts or the id comes round again.

### Sessions: logins, polls and presence

An action is what a request does under one hold of the lock. `request` holds
what each request is doing in between: a login that has evicted and not yet
added (`LoggingIn`), a poll between packets (`Polling`), a packet whose session
has been looked up (`Handling`), a channel join between its two holds
(`Joining`). `crossed` is history: the users who ever had two requests under way
at once. Rooms are reduced to who has a seat. A channel name that clients send
need not be that of a channel: the session takes it all the same.

| Property | It says |
|---|---|
| `IndexSound` | `user_id_to_token` leads to a session of that user, in any interleaving |
| `SpectatorsAgree` | the two tables of spectating are inverse, nobody watches itself or somebody who is not connected |
| `OneSessionUncrossed` | a user whose requests never overlapped has one session, and the index finds it |
| `OnlineUncrossed` | such a user is in no channel, lobby, seat or audience without a session |
| `ChannelsAgree` | such a user's session and the channels agree |

The last three are about users whose requests do not overlap, as those of the
game client do not; for others the code promises less.

**Finding** (`sessions_logins`): `handle_login` is to "evict any previous
session for this user" (`server/bancho.rs:260`). Two overlapping logins both
evict before either adds, and leave two sessions, one of which no index knows.

### MatchResult: who won

The loops of `try_finish_match` over slots and scores, one slot a step, for any
seating that `Multiplayer` allows and any frames: missing, left over from
players who are gone, zero or negative. `RightWinner` compares the outcome with
a definition of the winner (the first of the best scores, if there is one that
is not negative) and the saved scores with the seated players; `RightSideWon`
says that with teams exactly the side with the larger total won, and nobody in
a draw. Left out: accuracy and the counts of hits, which are only stored.

### Scores: submissions and statistics

An action is one statement of `save_score`, with `request` between two of them;
the query of `before_row` has no effect and is left out. A statement may
fail (`Fail`; that of `EnsureStats` is ignored, as in the code), the process may
restart, which recalculates some of the rows, all or none (`Restart`: the
failure of a row is ignored at `db/scores.rs:577`, and that of the whole at
`db/mod.rs:249`), and other parts create empty rows (`GetOrCreateStats`).
The session's Relax is a choice. Points and accuracy are weighted sums of the
best scores of each map: a row holds those best scores, and `Points` adds their
points. Three variables are history. `lost` has the scores whose submission
stopped midway; `overtaken` the submissions under way since whose read another
of the same row was completed; `behind` the rows that an overtaken submission
was the last to write.

| Property | It says |
|---|---|
| `CountedOnce` | play count and total score are those of the plays submitted to the end, each once, in any interleaving and across restarts |
| `RankedScoreShown` | the ranked score is a score of the user and not behind a completed submission, in any interleaving |
| `BestShown` | the points are those of existing scores, and of each map of none worse than a completed one, unless the row is behind |
| `RankIsPlace` | the rank of a user is its place on the leaderboard but for ties, unless a submission stopped midway |

`BestShown` holds for submissions that overlap, fail or are cut off, and
whatever the recalculation leaves undone. Its exception is exact: of two
submissions that both read before either writes, the one that writes last puts
back what it read, without the other's score. The row is then behind until the
next submission that was not overtaken, or a recalculation that succeeds; a
restart alone does not mend it. `RankedScoreShown` and `BestShown` leave out rows that mix two kinds of scores, for which they fail:

**Finding** (`scores_mania`): `save_score` is to take the "user's best scores"
(`db/scores.rs:151`). Relaxed plays in mania count in the same row as the others
(there is no relaxed mode of mania), but the points and the ranked score that
are written to it come from one kind only: that of the last play, and after a
restart that of the plays without Relax.

### RateLimiter: the token buckets

The map of buckets behind its mutex: a request that passes (`PassRequest`) or is
refused (`RefuseRequest`), the worker that forgets idle addresses (`PruneIdle`,
at any time), and time. A minute is `Minute` ticks and a token `Minute` shares,
which makes the amounts integers; the code has `f64`, whose rounding is not
modelled. Whitelisted addresses, tiers of paths and the address behind a proxy
are functions of one request.

| Property | It says |
|---|---|
| `RetryIsHonest` | who comes back when `Retry-After` said so finds a token |
| `NeverForgets` | the lazy limiter implements `TokenBucket`, in which every address has its buckets from the start and keeps them |

`NeverForgets` needs an `IdleMax` of a minute at least (the code: ten) and
limits that are not zero: with a limit of zero a forgotten address gets a new
token, which the one that never refills would not give.

### Accounts: passwords and signed sessions

An action is what a request does between two awaits. A password is a text,
`Md5` wraps it once more, and a hash remembers the text it is of and its salt
(the number of the call of `hash_password`), so that a cookie is bound to the
row as in `sign_session`. Registration on the site and in the game, sign-in with
automatic registration, change of the password, sign-out in two statements
(`StartLogout`, `Revoke`), the migration of bare md5 rows that the start waits
for (`Migrate`, `Serve`), crashes and the clock. Assumed: nobody forges a
signature, and the clock does not go back. Turnstile and the rules for names are
choices of the guards.

| Property | It says |
|---|---|
| `PasswordSignsIn` | the password last confirmed to its owner signs in on the site, whatever routes, crashes and migrations went before |
| `SignedOutStaysOut` | a session whose revocation was stored does not authenticate again, but in the second in which it expires: its row counts while `expires_at > now`, the signature while the age is not above the limit |

Observed while modelling, and part of the model: the settings page hashes what
is typed and compares the current password as typed, registration and the game
use its md5, so that an account from the site cannot change its password there,
and one that could is refused by the game afterwards; `register_user` and the
settings keep blanks around a password that `api_login` trims (the exception in
`PasswordSignsIn`); and `create_user` reports a failure when only the statistics
could not be stored, although the account is there.

### Machines: accounts per machine

The checks of `handle_login` before a session is made, each query a step, with
the migration of raw identifiers at the start and accounts made on the site.
`anti_multiaccount` and `block_vpn` are taken as switched on.
`AccountsPerMachine` limits the accounts recorded with the same adapters or the
same disk, and names its exceptions: private addresses, a check that failed with
an error, and a login that was overtaken between its check and its row. A player
who types a name with a tag is registered under it as typed but looked up by
the clean name, so that the next login is refused or registers again.

### Chat

Messages, the tasks that store them (any order, any time), the replays at a login
and a join, the bot's `!history`, and private messages with the notice for a
pair. A session is its user and a number. `due` is history: what a session must
have, namely the rows that were among the last of the channel before its replay
began and still are when it is told, and every message whose sending began after
it had joined.

| Property | It says |
|---|---|
| `NoMessageMissed` | who is done joining has all that is due: replay and broadcast leave no gap |
| `WarnedOnce` | two people get the security notice exactly once while the server runs |

A message that is sent while a session joins may be missed, and one may come
twice; the properties leave that open. `!history` answers everybody in the
channel (`handler.rs:544`), although `bot.rs:274` speaks of the user's session.
Left out: the word filter, the bot's other answers, message lengths.

### Friends, Uploads, Beatmaps

`Friends` is adding, removing and listing query by query, any of which may fail;
the rows name ids that need not exist. `MutualTold`: two friends whose additions
were answered were not both told that the other has not added them, unless a
query for an answer failed.

`Uploads` is the file operations of the handlers for avatars, banners and
backgrounds: files are emptied when they are opened, written, removed one
extension after the other, any of which may fail or be the last before the
process stops. Two requests at one picture interleave anywhere, with any
mixture as result. `UploadShown`: when nobody is at a picture, what is served is
what the last answer said about it. A refused banner is gone, as the code
removes first.

`Beatmaps` is the resolution of a checksum through table, rounds played and
mirror, and what `get_scores` writes back. `FoundStays`: a map is
found when it is cached with a title and its own id, and the requests about it
that are under way have yet to look, or are about to write that id; it then
stays found, whatever the mirror, the history of rounds and the file names say.
Two things keep a map from that, and the property names both. A request that
looked before answers with the placeholder, beatmap 1, and writes it over the
id: while such a request is under way the map is not found. A request whose look
at the row fails (`LookFails`, an error of the database that is taken for no
row) goes on to the mirror and does the same: that step is the exception. From
then on the titled row is believed and the mirror is not asked again.

## The runs

| Run | Bounds | About |
|---|---|---|
| `multiplayer_wrap` | 3 users, 3 slots, 1 id | every create lands on the live room |
| `multiplayer_fresh` | 3 users, 2 slots, 2 ids | two rooms; at most one score frame or load report, and none while there are two rooms (`OneEntry`) |
| `multiplayer_rounds` | 3 users, 2 slots, 1 id | liveness |
| `live_rooms` | 2 users, 2 slots, 2 ids, 3 tasks | tasks in any order, failures, crashes and restarts; statuses that a row does not tell apart are left out, two rooms have two tasks and no rounds (`Plain`), and one room at a time is stale or has a late task, with four rooms, wrong ones and tasks in all (`FewAtOnce`) |
| `live_rooms_spawned` | the same, no failures | violation of `OnlyActiveRooms` |
| `sessions` | 2 users, 3 tokens, 2 requests, 1 channel, 2 names; one user at a time in the lobby or a seat, or one session with a name that is no channel's (`OneAround`) | all interleavings at locks |
| `sessions_logins` | the same, without `OneAround` | violation of `OneSession` |
| `match_result` | 3 users, 3 slots, scores -1 to 2 | all inputs |
| `scores` | 2 users, 2 submissions at once, 3 plays, 3 scores (`FewScores`), one row not yet written (`OneBlank`) | interleavings, failures, restarts |
| `scores_mania` | 1 user, 1 submission, 2 plays in mania | violation of `BestOfUser` |
| `access` | limiter: 1 address, 2 tiers (3 and 1 per minute of 4 ticks), 10 ticks; accounts: 1 user, 2 requests, 2 words of which one has a blank, 2 hashes, 2 sessions, 1 crash, sessions and crashes two together (`FewSessions`), 2 ticks of which a session lives 1; machines: 3 names of which one has a tag, 3 machines, 2 logins, 1 account each, rows and excused accounts two together (`FewRows`) | the three, one at a time |
| `community` | chat: 2 people, 1 channel, 2 requests, 2 messages of which only the first may be public (`OnePublic`), 2 logins, a history of 1; friends: 2 accounts and an id of none, 2 requests at once, 4 in all; uploads: a picture of each kind, 2 extensions, 2 requests at once, 3 in all, files of one picture to begin with (`OneStored`); beatmaps: 1 map, 2 requests at once, 4 in all | the four, one at a time |

Why these are enough to show something: three users are a host, a successor and
somebody who interferes; two slots are one to be full and one to move to, three
let a successor be chosen between two. Two ids are the least for moving from a
room to another, one the least for wrapping. Two requests are the least that
interleave, and three tokens let one user have an old, an orphaned and a new
session while the other user is connected. One channel in all roles (joined at
login, by seats, by spectating) makes those roles interfere. Three scores are two on a map, of which the higher
has fewer points, and one more of that user or another. Addresses are
independent in the limiter, so that one shows what its buckets do, and ten ticks
are two and a half minutes, enough to empty, refill and forget it. One user is
enough for passwords and cookies, which no action relates to another user's;
two hashes are an account and its change or its migration, and a session that
lives one tick of two is signed out before, in and after its last second. Three
names and a limit of one are a second account on a machine and one too many. A
history of one row is full with the first public message; that a second one
pushes it out, and what a replay brings then, is left to the proof of
`NoMessageMissed`, since two make six times the states. Two private messages
are both directions of a pair at once.
Three uploads are a picture, its replacement and somebody in between; four
additions and removals are both sides of a friendship, one of them undone and
done again. The proofs below remove all these bounds, but for liveness.

`access` and `community` end where their bounds do (`CHECK_DEADLOCK FALSE`); in
the model without bounds a request can always begin or time pass. Their
specifications state no fairness: nothing in them is a promise to finish, and
the properties are about safety.

Symmetry is used for users, tokens and requests, which are only compared, and
never in the run that checks liveness. In `access` and `community` it permutes
the requests (the same names in every component of `community`) and the people
who chat; `NeverForgets` and `FoundStays` are action properties about values
that it leaves alone. `Restart` has no bound; pending tasks have one
(`MaxTasks`), in `Spawn`.

Fairness: `RoundEnds` is checked under `SpecCommitted`. Who plays eventually
sends `OSU_MATCH_COMPLETE` (the game client does so when the song is over; the
server has no timeout), and until the round ends nobody who plays in it leaves,
loses the connection or changes status by another packet. Without the second
part rounds can be stranded: `OSU_MATCH_READY`, `OSU_MATCH_NO_BEATMAP` and the
removal of a session take a player out of play without calling
`try_finish_match`, and the round then waits for another completion. No other
property assumes fairness.

## The proofs

Every invariant and action property of a passing run, and both refinements, are
proved for all values of the constants that their `ASSUME`s admit: any users,
slots, ids, requests, tasks and messages. The runs remain what shows that the
cases happen and that a bug in the code would be found. The assumptions are
those of the modules, which the runs evaluate; where one says more than a type,
it is named below.

| Module | Theorem | Property |
|---|---|---|
| `MultiplayerProofs` | `TypeCorrect` | `TypeOK` |
| | `StatusAgreesWithUser` | `SlotsConsistent` |
| | `SeatedOnce` | `OneSeat` |
| | `HostedByPlayer` | `HostIsPlayer` |
| | `PlayedInRound` | `PlayingInRound` |
| | `ScoresGoWithRoom` | `ScoresOfLiveRooms` |
| | `MappedOnlyIfSeated` | `MappedIsSeated` |
| | `RoundsKeptApart` | `RoundsApart` |
| | `OthersLeftAlone` | `OnlyOwnSteps` |
| | `ImplementsDirectory` | `IsDirectory` |
| `LiveRoomsProofs` | `LiveTypeCorrect` | `LiveTypeOK` |
| | `GhostsAreStale` | `OnlyStaleGhosts` |
| | `NobodyLeftOut` | `NobodyMissing` |
| `SessionsProofs` | `TypeCorrect` | `TypeOK` |
| | `IndexNeverDangles` | `IndexSound` |
| | `SpectatingAgrees` | `SpectatorsAgree` |
| | `OneSessionEach` | `OneSessionUncrossed` |
| | `GoneWithoutTrace` | `OnlineUncrossed` |
| | `ChannelsMatchSession` | `ChannelsAgree` |
| `MatchResultProofs` | `TypeCorrect` | `TypeOK` |
| | `WinnerIsRight` | `RightWinner` |
| | `SideIsRight` | `RightSideWon` |
| `ScoresProofs` | `TypeCorrect` | `TypeOK` |
| | `PlaysCountOnce` | `CountedOnce` |
| | `RankedScoreRight` | `RankedScoreShown` |
| | `BestIsShown` | `BestShown` |
| | `RankIsThePlace` | `RankIsPlace` |
| `AccessProofs` | `AccessTypeCorrect` | `TypeOK` |
| | `SignedOutForGood` | `SignedOutStaysOut` |
| | `ChosenPasswordSignsIn` | `PasswordSignsIn` |
| | `NothingForgotten` | `NeverForgets` |
| | `RetryAfterIsEnough` | `RetryIsHonest` |
| | `MachineLimit` | `AccountsPerMachine` |
| `CommunityProofs` | `CommunityTypeCorrect` | `TypeOK` |
| | `NobodyMissesMessages` | `NoMessageMissed` |
| | `NoticeSentOnce` | `WarnedOnce` |
| | `FriendsKnow` | `MutualTold` |
| | `WhatWasSaidIsShown` | `UploadShown` |
| | `FoundForGood` | `FoundStays` |

Each module has one inductive invariant per component, one lemma for each
action, and the theorem that puts them together.

**Rooms.** `Inv` is `TypeOK`, every live room sound by itself (`RoomsSound`:
typed, slots consistent, a user in at most one of its slots, hosted by a player,
nobody playing outside a round), `user_to_match` naming the room of whoever is
seated (`Registered`), clocks (`Clocks`) and score frames of live rooms only.
None of the properties is inductive alone: that a leaving host has a successor
needs that the host sat in one slot only, which needs that slots and statuses
agree, and that the room it leaves is the only one to change needs
`user_to_match`. The argument is by rooms: lemmas say what each operation does to
one sound room (vacating, taking a slot, moving, concluding a round), and each
action's step puts them together. It holds with ids that wrap. Under `SpecFresh`
(a create never takes an id in use) `FreshInv` adds the converse of `Registered`
(`Mapped`) and the clocks and load reports of live rooms (`TablesOfRooms`), and
three results about steps follow: whatever begins or ends a room or a round
leaves none of its reports and frames (`RoundsApart`), a step changes the seat of nobody but its user (`OnlyOwnSteps`), and it is a step of
`RoomDirectory` or none (`IsDirectory`), by one lemma for every kind of step that
the directory knows: opening a room, entering, leaving, handing over, beginning
and stopping a round.

**Live rooms.** The tasks that write the rows run later than the rooms change, so
that the invariant speaks of tasks as much as of rows. Of a room that is gone,
and waits for no cleanup, the row, the games and every task that would write
either have a deletion spawned after them that is still to run (`Cleaned`); of a
live room, the row and every upsert show all its players or have a later upsert
or deletion (`Seen`). Neither asks for an order of running: a task that a newer
one outran is late, a row that a late or failed task was the last to decide is
stale, and both are let off; that nothing else needs to be is what is proved.
`ArmStep` says what an arm must spawn to keep both: tasks that tell the truth, a
deletion for a room it ends, an upsert for a room somebody enters. Each arm's
lemma shows that it does.

**Sessions.** The tables' properties depend on what requests remember between two
holds of the lock: `RequestsInv` says that the token of a login is new, that a
poll's user is its session's, and of users whose requests never overlapped
(those not in `crossed`) that they have one request at a time, whose session is
there, or not there yet during a login. `TablesInv` is the six properties. They
are inductive only together.

**Results and scores.** Both sum over sets that grow. `Sums` proves that the sum
of weights over a finite set is well defined, and adds up over one more element. What is an induction over the size of the
set is done there by a smallest counterexample, since the induction theorems
cannot be instantiated; the proofs of the two modules show that
`MapThenSumSet` is that sum. The invariant of `MatchResult` is that of its loops:
before slot `i`, the leader is the first of the best so far (`Leads`) and the
totals are the sums of the sides so far (`Totals`). The invariant of `Scores` is
about completed submissions (`Counted`): each found a row (`RowsExist`), the row
has their number, their total and their best (`RowRight`), each submission under
way has a score of its own (`Requests`), and what a submission has read covers
its own score and the completed ones of the row, unless it is overtaken
(`ReadsCover`). So the one that writes either covers all that counts from then
on, or leaves the row behind; a row that is not behind shows its best, and a
recalculation, of whichever rows it reaches, only adds to those.

**Access.** That the row of a revoked session stays until it expires
(`RevocationKept`; a clean-up deletes only what expired), and that a row is of
the confirmed text or its md5, with no bare md5 left while the server serves
(`HashOfChosen`). The limiter implements `TokenBucket` for limits above zero and
an `IdleMax` of a minute or more: a bucket filled in two steps is filled in one,
a request leaves the other buckets as they are, and one that was idle for a
minute was full. `RetryIsHonest` is not inductive, as it speaks of one moment;
that a token is there at every moment from the promised one on is (`Awaited`).
`AccountsPerMachine` follows from what a login knows: one that passed its check
and was not overtaken since would pass it again (`StillFits`), so that its row is
not one too many. `MachinesAssumption` says for this that names and machines are
finitely many (sets of accounts have a size) and `Unknown` is no name.

**Community.** `NoMessageMissed` needs that a message is stored under a number
that nothing stored or waiting has (`Stamped`), that who is done joining is a
member with a session (`Seated`), and that a replay that was read holds what was
in the history before and still is (`Sound`). The last is the heart: storing a
message can push rows out of the history and brings none back
(`HistoryAppended`, by cardinalities). `WarnedOnce` is inductive with the types:
sending a notice takes its request out of those that are about to. `MutualTold`:
an addition takes back the answer its row got before, and an answer that says no
finds one of the rows gone. `UploadShown` is the case of a stronger fact in which
nobody is at the picture: what is shown was said, or nothing is known, or a
request in flight still owes an answer about it (`Settled`). It rests on requests
that are alone, whose pictures are nobody else's and which have removed what they
are through with (`Emptied`). `FoundStays` follows from what each step of a
request about the map may write while it is found, which is its own id or
nothing (`StepFound`).

Only model-checked: `RoundEnds`, since liveness under fairness and `ENABLED` are
out of the prover's reach, and what the runs that expect a violation show.

## Plan

1. The codec's framing and ULEB128 as operators compared with a definition.
2. Badges and the pages of admins, if they come to keep more than single
   statements.

## Not modelled

Rendering and routing (`server/frontend.rs` pages, `server/templates.rs`),
configuration, telemetry, country lookup, Turnstile, osu!direct (which passes
searches and downloads on and keeps nothing), badges (single statements of
admins), backups (which `main.rs` does not start), the lists of seasonal
backgrounds, the bot's texts and the word filter have no state of their own
worth a model. The tier of a path, the guards for admin pages and foreign
origins are functions of one request. The codec is left for the plan. What
clients are sent is left out of the modules above, but for chat.
