--------------------------- MODULE CommunityProofs ---------------------------
(***************************************************************************)
(* Chat, friends, uploaded images and the cache of beatmaps, for any       *)
(* number of people, channels, pictures, maps and requests, interleaved.   *)
(*                                                                         *)
(* NoMessageMissed is inductive next to the types and three facts: a       *)
(* message is stored once, under a number that nothing else has (Stamped); *)
(* who is done joining a channel is in it with a session (Seated); and a   *)
(* replay that was read holds what was among the last messages before and  *)
(* still is, while a broadcast is not meant for its sender (Sound).        *)
(*                                                                         *)
(* MutualTold is inductive once the requests are known to be well typed:   *)
(* an addition takes back the answer that its row got before, and an       *)
(* answer that says no finds one of the rows gone.                         *)
(*                                                                         *)
(* UploadShown says nothing while a request is at the picture; what holds  *)
(* then is Settled: what is shown is what was said, or it is unknown, or a *)
(* request owes the answer that will say so.  A request that is alone with *)
(* its pictures knows that the files it is through with are gone (Emptied).*)
(*                                                                         *)
(* A map that is found meets only requests that do not write its row, or   *)
(* write its own id (StepFound), and none that are about to find it anew.  *)
(***************************************************************************)
EXTENDS MCCommunity, FiniteSetTheorems, SequenceTheorems, WellFoundedInduction, TLAPS

-----------------------------------------------------------------------------
(* Chat *)

Stamped ==
    /\ \A row \in saving : row.id <= sent
    /\ \A i \in DOMAIN stored : stored[i].id <= sent
    /\ \A i \in DOMAIN stored, row \in saving : stored[i].id # row.id
    /\ \A row, other \in saving : row.id = other.id => row = other

Seated ==
    \A u \in People, ch \in Channels :
        ch \in settled[u] => u \in members[ch] /\ current[u] # 0

\* the channel that a request replays
Replayed(w) == IF w \in Entering THEN Osu ELSE w.channel

Sound(w) ==
    /\ w \in Entering \cup Joining =>
          /\ \A m \in w.before : m <= sent /\ \A row \in saving : row.id # m
          /\ w.ok => \A ch \in Channels : ch = Replayed(w) =>
                        w.before \cap History(ch) \subseteq w.replay
    /\ w \in Saying => \A a \in w.audience : a[1] # w.user

Requests == \A h \in Handlers : Sound(work[h])

ChatInv ==
    /\ ChatTypeOK /\ Stamped /\ Seated /\ Requests
    /\ NoMessageMissed /\ WarnedOnce

-----------------------------------------------------------------------------
(* The history *)

LEMMA HistoryStored ==
  ASSUME NEW ch, NEW m \in History(ch)
  PROVE  \E i \in DOMAIN stored : stored[i].id = m
BY DEF History

LEMMA HistoryTyped ==
  ASSUME ChatTypeOK, NEW ch
  PROVE  History(ch) \in SUBSET MessageIds
<1> SUFFICES ASSUME NEW m \in History(ch) PROVE m \in MessageIds
  OBVIOUS
<1>1. PICK i \in DOMAIN stored : stored[i].id = m
  BY HistoryStored
<1>2. stored[i] \in Rows
  BY DEF ChatTypeOK
<1>3. QED
  BY <1>1, <1>2 DEF Rows

\* A message that is stored can push others out of the history, and brings
\* none back.
LEMMA HistoryAppended ==
  ASSUME ChatTypeOK, NEW row \in Rows, stored' = Append(stored, row), NEW ch
  PROVE  History(ch)' \subseteq History(ch) \cup {row.id}
<1> DEFINE n       == Len(stored)
           of      == {i \in DOMAIN stored : stored[i].channel = ch}
           later(j) == {k \in of : k > j}
           ofN     == {i \in DOMAIN stored' : stored'[i].channel = ch}
           laterN(j) == {k \in ofN : k > j}
<1>1. /\ n \in Nat /\ DOMAIN stored = 1..n /\ DOMAIN stored' = 1..(n + 1)
      /\ \A i \in 1..n : stored'[i] = stored[i]
      /\ stored'[n + 1] = row
  BY AppendProperties DEF ChatTypeOK
<1>2. of \subseteq ofN
  BY <1>1
<1>3. IsFiniteSet(ofN)
  <2>1. IsFiniteSet(1..(n + 1))
    <3>1. n \in Nat
      BY <1>1
    <3> HIDE DEF n
    <3>2. 1 \in Int /\ n + 1 \in Int
      BY ONLY <3>1
    <3>3. QED
      BY ONLY <3>2, FS_Interval
  <2>2. ofN \in SUBSET (1..(n + 1))
    BY <1>1
  <2> HIDE DEF ofN
  <2>3. QED
    BY <2>1, <2>2, FS_Subset
<1>4. ASSUME NEW j \in of, Cardinality(laterN(j)) < HistoryLimit
      PROVE  Cardinality(later(j)) < HistoryLimit
  <2>1. laterN(j) \in SUBSET ofN /\ later(j) \in SUBSET laterN(j)
    BY <1>2
  <2> HIDE DEF ofN, later, laterN
  <2>2. IsFiniteSet(laterN(j)) /\ IsFiniteSet(later(j))
    BY <1>3, <2>1, FS_Subset
  <2>3. Cardinality(later(j)) <= Cardinality(laterN(j))
    BY <2>1, <2>2, FS_Subset
  <2>4. Cardinality(later(j)) \in Nat /\ Cardinality(laterN(j)) \in Nat
    BY <2>2, FS_CardinalityType
  <2>5. QED
    BY <1>4, <2>3, <2>4, ChatAssumption
<1>5. History(ch) = {stored[i].id : i \in {j \in of : Cardinality(later(j)) < HistoryLimit}}
  BY DEF History
<1>6. History(ch)' = {stored'[i].id : i \in {j \in ofN : Cardinality(laterN(j)) < HistoryLimit}}
  BY DEF History
<1>7. ASSUME NEW m \in History(ch)'
      PROVE  m \in History(ch) \cup {row.id}
  <2>1. PICK i \in ofN : stored'[i].id = m /\ Cardinality(laterN(i)) < HistoryLimit
    BY <1>6, <1>7
  <2>2. CASE i = n + 1
    BY <1>1, <2>1, <2>2
  <2>3. CASE i # n + 1
    <3>1. i \in 1..n /\ i \in of
      BY <1>1, <2>1, <2>3
    <3>2. Cardinality(later(i)) < HistoryLimit
      BY <1>4, <2>1, <3>1
    <3>3. m = stored[i].id
      BY <1>1, <2>1, <3>1
    <3> HIDE DEF of, later
    <3>4. QED
      BY <1>5, <3>1, <3>2, <3>3
  <2>4. QED
    BY <2>2, <2>3
<1>8. QED
  BY <1>7

LEMMA HistorySame ==
  ASSUME UNCHANGED stored, NEW ch
  PROVE  History(ch)' = History(ch)
BY DEF History

-----------------------------------------------------------------------------
(* Requests in flight *)

\* The step of a request says what it holds.
LEMMA WorkKinds ==
  ASSUME NEW w \in ChatWork
  PROVE  /\ w \in Entering <=> w.step \in {"history", "open"}
         /\ w \in Joining <=> w.step \in {"member", "read", "replay"}
         /\ w \in Saying <=> w.step \in {"broadcast", "command", "reply"}
         /\ w \in Whispering <=> w.step \in {"find", "mark", "notice", "deliver"}
         /\ w = Free <=> w.step = "idle"
BY DEF ChatWork, Free, Entering, Joining, Saying, Whispering

LEMMA WorkTyped ==
  ASSUME ChatTypeOK, NEW h \in Handlers
  PROVE  work[h] \in ChatWork
BY DEF ChatTypeOK

\* A request of the other kinds has nothing to keep.
LEMMA SoundOthers ==
  ASSUME NEW w \in ChatWork,
         w.step \in {"idle", "find", "mark", "notice", "deliver"}
  PROVE  Sound(w)
BY WorkKinds DEF Sound

LEMMA FreeTyped == Free \in ChatWork /\ Free.step = "idle" /\ Sound(Free)
<1>1. Free \in ChatWork /\ Free.step = "idle"
  BY DEF ChatWork, Free
<1>2. QED
  BY <1>1, SoundOthers

\* What is known of the requests survives a step that changes one of them and
\* no message.
LEMMA RequestsKept ==
  ASSUME ChatTypeOK, Requests, NEW h \in Handlers, NEW w \in ChatWork, Sound(w),
         work' = [work EXCEPT ![h] = w], UNCHANGED <<stored, saving, sent>>
  PROVE  work' \in [Handlers -> ChatWork] /\ Requests'
<1>1. work' \in [Handlers -> ChatWork]
  BY DEF ChatTypeOK
<1>2. ASSUME NEW k \in Handlers PROVE Sound(work'[k])
  <2>1. CASE k = h
    BY <2>1 DEF ChatTypeOK
  <2>2. CASE k # h
    BY <2>2 DEF ChatTypeOK, Requests
  <2>3. QED
    BY <2>1, <2>2
<1>3. ASSUME NEW k \in Handlers PROVE Sound(work[k])'
  BY <1>2, HistorySame DEF Sound, Replayed
<1>4. QED
  BY <1>1, <1>3 DEF Requests

\* The notices of pairs are not touched by a step that neither starts nor ends
\* one.
LEMMA NoticesKept ==
  ASSUME ChatTypeOK, WarnedOnce, NEW h \in Handlers, NEW w \in ChatWork,
         work' = [work EXCEPT ![h] = w],
         work[h].step # "notice", w.step # "notice", UNCHANGED <<warned, notices>>
  PROVE  WarnedOnce'
<1>1. ASSUME NEW p \in Pairs PROVE Noticing(p)' = Noticing(p)
  BY DEF Noticing, ChatTypeOK
<1>2. QED
  BY <1>1 DEF WarnedOnce

LEMMA WorkGoesOn ==
  ASSUME ChatInv, NEW h \in Handlers, NEW w \in ChatWork, Sound(w),
         work' = [work EXCEPT ![h] = w],
         work[h].step # "notice", w.step # "notice",
         UNCHANGED <<stored, saving, sent, warned, notices>>
  PROVE  work' \in [Handlers -> ChatWork] /\ Requests' /\ WarnedOnce' /\ Stamped'
<1>1. work' \in [Handlers -> ChatWork] /\ Requests'
  BY RequestsKept DEF ChatInv
<1>2. WarnedOnce'
  BY NoticesKept DEF ChatInv
<1>3. QED
  BY <1>1, <1>2 DEF ChatInv, Stamped

\* A step of a request that moves no session and no message.
LEMMA OnlyWork ==
  ASSUME ChatInv, NEW h \in Handlers, NEW w \in ChatWork, Sound(w),
         work' = [work EXCEPT ![h] = w],
         work[h].step # "notice", w.step # "notice",
         UNCHANGED <<current, logins, members, inbox, stored, saving, sent,
                     warned, notices, settled, due>>
  PROVE  ChatInv'
<1>1. work' \in [Handlers -> ChatWork] /\ Requests' /\ WarnedOnce' /\ Stamped'
  BY WorkGoesOn
<1>2. ChatTypeOK'
  BY <1>1 DEF ChatInv, ChatTypeOK
<1>3. Seated' /\ NoMessageMissed'
  BY DEF ChatInv, Seated, NoMessageMissed
<1>4. QED
  BY <1>1, <1>2, <1>3 DEF ChatInv

\* A message of a history was stored under a number that is not being stored.
LEMMA HistoryStamped ==
  ASSUME ChatInv, NEW ch, NEW m \in History(ch)
  PROVE  m <= sent /\ \A row \in saving : row.id # m
BY HistoryStored DEF ChatInv, Stamped

-----------------------------------------------------------------------------
(* Sessions *)

LEMMA DropKeeps ==
  ASSUME ChatInv, NEW u \in People, Drop(u)
  PROVE  /\ current' \in [People -> 0..MaxLogins]
         /\ members' \in [Channels -> SUBSET People]
         /\ inbox' \in [People -> SUBSET MessageIds]
         /\ settled' \in [People -> SUBSET Channels]
         /\ due' \in [People -> SUBSET MessageIds]
         /\ Seated' /\ NoMessageMissed'
<1>1. /\ current' \in [People -> 0..MaxLogins]
      /\ members' \in [Channels -> SUBSET People]
  BY ChatAssumption DEF ChatInv, ChatTypeOK, Drop
<1>2. /\ inbox' \in [People -> SUBSET MessageIds]
      /\ settled' \in [People -> SUBSET Channels]
      /\ due' \in [People -> SUBSET MessageIds]
  BY DEF ChatInv, ChatTypeOK, Drop
<1>3. ASSUME NEW v \in People, NEW ch \in Channels, ch \in settled'[v]
      PROVE  v \in members'[ch] /\ current'[v] # 0
  <2>1. v # u /\ ch \in settled[v]
    BY <1>3 DEF ChatInv, ChatTypeOK, Drop
  <2>2. QED
    BY <2>1 DEF ChatInv, ChatTypeOK, Seated, Drop
<1>4. NoMessageMissed'
  BY DEF ChatInv, ChatTypeOK, NoMessageMissed, Drop
<1>5. QED
  BY <1>1, <1>2, <1>3, <1>4 DEF Seated

LEMMA LoginStartStep ==
  ASSUME ChatInv, NEW h \in Handlers, NEW u \in People, LoginStart(h, u)
  PROVE  ChatInv'
<1> DEFINE w == [step |-> "history", user |-> u, number |-> logins + 1,
                 before |-> History(Osu), replay |-> {}, ok |-> FALSE]
<1>1. /\ logins \in 0..MaxLogins /\ logins < MaxLogins
      /\ logins + 1 \in 1..MaxLogins /\ logins' \in 0..MaxLogins
  BY ChatAssumption DEF ChatInv, ChatTypeOK, LoginStart
<1>2. w \in Entering
  BY <1>1, HistoryTyped DEF ChatInv, Entering
<1>3. w \in ChatWork /\ w.step # "notice" /\ w \notin Saying
  BY <1>2 DEF ChatWork, Saying
<1>4. Sound(w)
  BY <1>3, HistoryStamped DEF Sound
<1>5. work[h].step # "notice" /\ work' = [work EXCEPT ![h] = w]
  BY FreeTyped DEF LoginStart, BeginWork
<1> HIDE DEF w
<1>6. UNCHANGED <<stored, saving, sent, warned, notices>> /\ Drop(u)
  BY DEF LoginStart
<1>7. work' \in [Handlers -> ChatWork] /\ Requests' /\ WarnedOnce' /\ Stamped'
  BY <1>3, <1>4, <1>5, <1>6, WorkGoesOn
<1>8. QED
  BY <1>1, <1>6, <1>7, DropKeeps DEF ChatInv, ChatTypeOK

LEMMA LoginHistoryStep ==
  ASSUME ChatInv, NEW h \in Handlers, LoginHistory(h)
  PROVE  ChatInv'
<1>1. work[h] \in Entering /\ work[h].step = "history" /\ work[h] \in ChatWork
  BY WorkTyped, WorkKinds DEF ChatInv, LoginHistory
<1>2. UNCHANGED <<current, logins, members, inbox, stored, saving, sent, warned,
                  notices, settled, due>>
  BY DEF LoginHistory
<1>3. CASE work' = [work EXCEPT ![h].step = "open", ![h].ok = TRUE,
                                ![h].replay = History(Osu)]
  <2> DEFINE w == [work[h] EXCEPT !.step = "open", !.ok = TRUE, !.replay = History(Osu)]
  <2>1. w \in Entering /\ w.before = work[h].before /\ w.replay = History(Osu)
    BY <1>1, HistoryTyped DEF ChatInv, Entering
  <2>2. w \in ChatWork /\ w.step = "open" /\ w \notin Saying
    BY <1>1, <2>1 DEF ChatWork, Entering, Saying
  <2>3. work' = [work EXCEPT ![h] = w]
    BY <1>3 DEF ChatInv, ChatTypeOK
  <2> HIDE DEF w
  <2>4. Sound(work[h])
    BY DEF ChatInv, Requests
  <2>5. Sound(w)
    BY <1>1, <2>1, <2>2, <2>4 DEF Sound, Replayed
  <2>6. QED
    BY <1>1, <1>2, <2>2, <2>3, <2>5, OnlyWork
<1>4. CASE WorkGoes(h, "open")
  <2> DEFINE w == [work[h] EXCEPT !.step = "open"]
  <2>1. /\ w \in Entering /\ w.before = work[h].before /\ w.ok = work[h].ok
        /\ w.replay = work[h].replay /\ w.step = "open"
    BY <1>1 DEF Entering
  <2>2. w \in ChatWork /\ w \notin Saying
    BY <2>1 DEF ChatWork, Saying
  <2>3. work' = [work EXCEPT ![h] = w]
    BY <1>4 DEF WorkGoes, ChatInv, ChatTypeOK
  <2> HIDE DEF w
  <2>4. Sound(work[h])
    BY DEF ChatInv, Requests
  <2>5. Sound(w)
    BY <1>1, <2>1, <2>2, <2>4 DEF Sound, Replayed
  <2>6. QED
    BY <1>1, <1>2, <2>1, <2>2, <2>3, <2>5, OnlyWork
<1>5. QED
  BY <1>3, <1>4 DEF LoginHistory

\* What a replay must have brought is in it.
LEMMA ExpectedReplayed ==
  ASSUME ChatInv, NEW h \in Handlers, work[h] \in Entering \cup Joining,
         NEW ch \in Channels, ch = Replayed(work[h])
  PROVE  /\ Expected(h, ch) \subseteq work[h].replay
         /\ work[h].replay \subseteq MessageIds
         /\ work[h].user \in People
         /\ work[h].number \in 1..MaxLogins
<1>1. Sound(work[h])
  BY DEF ChatInv, Requests
<1>2. Expected(h, ch) \subseteq work[h].replay
  BY <1>1 DEF Expected, Sound
<1>3. QED
  BY <1>2 DEF Entering, Joining

LEMMA LoginOpenStep ==
  ASSUME ChatInv, NEW h \in Handlers, LoginOpen(h)
  PROVE  ChatInv'
<1> DEFINE u == work[h].user
           n == work[h].number
           news == work[h].replay
           must == Expected(h, Osu)
<1>1. work[h] \in Entering /\ work[h].step = "open"
  BY WorkTyped, WorkKinds DEF ChatInv, LoginOpen
<1>2. must \subseteq news /\ news \subseteq MessageIds /\ u \in People /\ n \in 1..MaxLogins
  BY <1>1, ExpectedReplayed, ChatAssumption DEF Replayed
<1>3. /\ current' = [current EXCEPT ![u] = n]
      /\ members' = [members EXCEPT ![Osu] = @ \cup {u}]
      /\ inbox' = [inbox EXCEPT ![u] = news]
      /\ settled' = [settled EXCEPT ![u] = {Osu}]
      /\ due' = [due EXCEPT ![u] = must]
      /\ work' = [work EXCEPT ![h] = Free]
      /\ UNCHANGED <<logins, stored, saving, sent, warned, notices>>
  BY DEF LoginOpen, Ends
<1> HIDE DEF u, n, news, must
<1>4. work' \in [Handlers -> ChatWork] /\ Requests' /\ WarnedOnce' /\ Stamped'
  BY <1>1, <1>3, FreeTyped, WorkGoesOn
<1>5. ChatTypeOK'
  BY <1>2, <1>3, <1>4, ChatAssumption DEF ChatInv, ChatTypeOK
<1>6. ASSUME NEW v \in People, NEW ch \in Channels, ch \in settled'[v]
      PROVE  v \in members'[ch] /\ current'[v] # 0
  <2>1. CASE v = u
    BY <1>2, <1>3, <1>6, <2>1, ChatAssumption DEF ChatInv, ChatTypeOK
  <2>2. CASE v # u
    BY <1>3, <1>6, <2>2, ChatAssumption DEF ChatInv, ChatTypeOK, Seated
  <2>3. QED
    BY <2>1, <2>2
<1>7. ASSUME NEW v \in People PROVE due'[v] \subseteq inbox'[v]
  BY <1>2, <1>3 DEF ChatInv, ChatTypeOK, NoMessageMissed
<1>8. QED
  BY <1>4, <1>5, <1>6, <1>7 DEF ChatInv, Seated, NoMessageMissed

LEMMA LeaveStep ==
  ASSUME ChatInv, NEW u \in People, Leave(u)
  PROVE  ChatInv'
<1>1. UNCHANGED <<logins, stored, saving, work, sent, warned, notices>> /\ Drop(u)
  BY DEF Leave
<1>2. Stamped' /\ WarnedOnce'
  BY <1>1 DEF ChatInv, Stamped, WarnedOnce, Noticing
<1>3. Requests'
  BY <1>1, HistorySame DEF ChatInv, Requests, Sound, Replayed
<1>4. QED
  BY <1>1, <1>2, <1>3, DropKeeps DEF ChatInv, ChatTypeOK

-----------------------------------------------------------------------------
(* Channels *)

LEMMA JoinStep ==
  ASSUME ChatInv, NEW h \in Handlers, NEW u \in People, NEW ch \in Channels,
         Join(h, u, ch)
  PROVE  ChatInv'
<1> DEFINE w == [step |-> "member", user |-> u, number |-> current[u],
                 channel |-> ch, before |-> History(ch), replay |-> {}, ok |-> FALSE]
<1>1. current[u] \in 1..MaxLogins
  BY ChatAssumption DEF ChatInv, ChatTypeOK, Join, Online
<1>2. w \in Joining
  BY <1>1, HistoryTyped DEF ChatInv, Joining
<1>3. w \in ChatWork /\ w.step # "notice" /\ w \notin Saying
  BY <1>2 DEF ChatWork, Saying
<1>4. Sound(w)
  BY <1>3, HistoryStamped DEF Sound
<1>5. work[h].step # "notice" /\ work' = [work EXCEPT ![h] = w]
  BY FreeTyped DEF Join, BeginWork
<1> HIDE DEF w
<1>6. QED
  BY <1>3, <1>4, <1>5, OnlyWork DEF Join

\* A replay that moves on with the same messages.
LEMMA JoinMemberStep ==
  ASSUME ChatInv, NEW h \in Handlers, JoinMember(h)
  PROVE  ChatInv'
<1> DEFINE w  == [work[h] EXCEPT !.step = "read"]
           u  == work[h].user
           ch == work[h].channel
<1>1. work[h] \in Joining /\ work[h].step = "member"
  BY WorkTyped, WorkKinds DEF ChatInv, JoinMember
<1>2. /\ w \in Joining /\ w.before = work[h].before /\ w.ok = work[h].ok
      /\ w.replay = work[h].replay /\ w.step = "read" /\ w.channel = work[h].channel
      /\ u \in People /\ ch \in Channels
  BY <1>1 DEF Joining
<1>3. w \in ChatWork /\ w \notin Saying /\ w \notin Entering /\ work[h] \notin Entering
  BY <1>1, <1>2 DEF ChatWork, Saying, Entering, Joining
<1>4. /\ work' = [work EXCEPT ![h] = w]
      /\ members' = [members EXCEPT ![ch] = @ \cup {u}]
      /\ UNCHANGED <<current, logins, inbox, stored, saving, sent, warned,
                     notices, settled, due>>
  BY DEF JoinMember, WorkGoes, ChatInv, ChatTypeOK
<1> HIDE DEF w, u, ch
<1>5. Sound(work[h])
  BY DEF ChatInv, Requests
<1>6. Sound(w)
  BY <1>1, <1>2, <1>3, <1>5 DEF Sound, Replayed
<1>7. work' \in [Handlers -> ChatWork] /\ Requests' /\ WarnedOnce' /\ Stamped'
  BY <1>1, <1>2, <1>3, <1>4, <1>6, WorkGoesOn
<1>8. ChatTypeOK'
  BY <1>2, <1>4, <1>7 DEF ChatInv, ChatTypeOK
<1>9. Seated' /\ NoMessageMissed'
  BY <1>2, <1>4 DEF ChatInv, ChatTypeOK, Seated, NoMessageMissed
<1>10. QED
  BY <1>7, <1>8, <1>9 DEF ChatInv

LEMMA ReplayReadStep ==
  ASSUME ChatInv, NEW h \in Handlers, ReplayRead(h)
  PROVE  ChatInv'
<1>1. work[h] \in Joining /\ work[h].step = "read"
  BY WorkTyped, WorkKinds DEF ChatInv, ReplayRead
<1>2. UNCHANGED <<current, logins, members, inbox, stored, saving, sent, warned,
                  notices, settled, due>>
  BY DEF ReplayRead
<1>3. CASE work' = [work EXCEPT ![h].step = "replay", ![h].ok = TRUE,
                                ![h].replay = History(work[h].channel)]
  <2> DEFINE w == [work[h] EXCEPT !.step = "replay", !.ok = TRUE,
                                  !.replay = History(work[h].channel)]
  <2>1. /\ w \in Joining /\ w.before = work[h].before
        /\ w.replay = History(work[h].channel) /\ w.channel = work[h].channel
    BY <1>1, HistoryTyped DEF ChatInv, Joining
  <2>2. w \in ChatWork /\ w.step = "replay" /\ w \notin Saying /\ w \notin Entering
    BY <1>1, <2>1 DEF ChatWork, Joining, Entering, Saying
  <2>3. work' = [work EXCEPT ![h] = w]
    BY <1>3 DEF ChatInv, ChatTypeOK
  <2> HIDE DEF w
  <2>4. Sound(work[h])
    BY DEF ChatInv, Requests
  <2>5. Sound(w)
    BY <1>1, <2>1, <2>2, <2>4 DEF Sound, Replayed
  <2>6. QED
    BY <1>1, <1>2, <2>2, <2>3, <2>5, OnlyWork
<1>4. CASE Ends(h)
  BY <1>1, <1>2, <1>4, FreeTyped, OnlyWork DEF Ends
<1>5. QED
  BY <1>3, <1>4 DEF ReplayRead

LEMMA ReplayStep ==
  ASSUME ChatInv, NEW h \in Handlers, Replay(h)
  PROVE  ChatInv'
<1> DEFINE u  == work[h].user
           n  == work[h].number
           ch == work[h].channel
           news == work[h].replay
           must == Expected(h, ch)
<1>1. work[h] \in Joining /\ work[h] \notin Entering /\ work[h].step = "replay"
  BY WorkTyped, WorkKinds DEF ChatInv, Replay
<1>2. ch \in Channels
  BY <1>1 DEF Joining
<1>3. must \subseteq news /\ news \subseteq MessageIds /\ u \in People /\ n \in 1..MaxLogins
  BY <1>1, <1>2, ExpectedReplayed DEF Replayed
<1>4. /\ work' = [work EXCEPT ![h] = Free]
      /\ UNCHANGED <<current, logins, members, stored, saving, sent, warned, notices>>
  BY DEF Replay, Ends
<1>5. \/ UNCHANGED <<inbox, settled, due>>
      \/ /\ current[u] = n
         /\ inbox' = [v \in People |-> IF v \in {u} /\ Online(v) THEN inbox[v] \cup news
                                       ELSE inbox[v]]
         /\ due' = [due EXCEPT ![u] = @ \cup must]
         /\ \/ u \in members[ch] /\ settled' = [settled EXCEPT ![u] = @ \cup {ch}]
            \/ settled' = settled
  BY DEF Replay, Enqueue
<1> HIDE DEF u, n, ch, news, must
<1>6. work' \in [Handlers -> ChatWork] /\ Requests' /\ WarnedOnce' /\ Stamped'
  BY <1>1, <1>4, FreeTyped, WorkGoesOn
<1>7. CASE UNCHANGED <<inbox, settled, due>>
  BY <1>4, <1>6, <1>7 DEF ChatInv, ChatTypeOK, Seated, NoMessageMissed
<1>8. CASE /\ current[u] = n
           /\ inbox' = [v \in People |-> IF v \in {u} /\ Online(v) THEN inbox[v] \cup news
                                         ELSE inbox[v]]
           /\ due' = [due EXCEPT ![u] = @ \cup must]
           /\ \/ u \in members[ch] /\ settled' = [settled EXCEPT ![u] = @ \cup {ch}]
              \/ settled' = settled
  <2>1. /\ inbox' \in [People -> SUBSET MessageIds]
        /\ due' \in [People -> SUBSET MessageIds]
        /\ settled' \in [People -> SUBSET Channels]
    <3>1. /\ inbox \in [People -> SUBSET MessageIds]
          /\ due \in [People -> SUBSET MessageIds]
          /\ settled \in [People -> SUBSET Channels]
      BY DEF ChatInv, ChatTypeOK
    <3>2. inbox' \in [People -> SUBSET MessageIds]
      BY ONLY <1>3, <1>8, <3>1
    <3>3. due' \in [People -> SUBSET MessageIds]
      BY ONLY <1>3, <1>8, <3>1
    <3>4. settled' \in [People -> SUBSET Channels]
      BY ONLY <1>2, <1>3, <1>8, <3>1
    <3>5. QED
      BY <3>2, <3>3, <3>4
  <2>2. ChatTypeOK'
    BY <1>4, <1>6, <2>1 DEF ChatInv, ChatTypeOK
  <2>3. Online(u)
    BY <1>3, <1>8 DEF Online
  <2>4. ASSUME NEW v \in People PROVE due'[v] \subseteq inbox'[v]
    BY <1>3, <1>8, <2>3 DEF ChatInv, ChatTypeOK, NoMessageMissed
  <2>5. ASSUME NEW v \in People, NEW c \in Channels, c \in settled'[v]
        PROVE  v \in members'[c] /\ current'[v] # 0
    <3>1. CASE c \in settled[v]
      BY <1>4, <3>1 DEF ChatInv, Seated
    <3>2. CASE c \notin settled[v]
      <4>1. u \in members[ch] /\ settled' = [settled EXCEPT ![u] = @ \cup {ch}]
        BY <1>8, <2>5, <3>2
      <4>2. v = u /\ c = ch
        BY <2>5, <3>2, <4>1 DEF ChatInv, ChatTypeOK
      <4>3. current[u] # 0
        BY <1>3, <1>8
      <4>4. QED
        BY <1>4, <4>1, <4>2, <4>3
    <3>3. QED
      BY <3>1, <3>2
  <2>6. QED
    BY <1>6, <2>2, <2>4, <2>5 DEF ChatInv, Seated, NoMessageMissed
<1>9. QED
  BY <1>5, <1>7, <1>8

LEMMA PartStep ==
  ASSUME ChatInv, NEW u \in People, NEW ch \in Channels, Part(u, ch)
  PROVE  ChatInv'
<1>1. /\ members' = [members EXCEPT ![ch] = @ \ {u}]
      /\ settled' = [settled EXCEPT ![u] = @ \ {ch}]
      /\ UNCHANGED <<current, logins, inbox, stored, saving, work, sent, warned,
                     notices, due>>
  BY DEF Part
<1>2. ChatTypeOK'
  BY <1>1 DEF ChatInv, ChatTypeOK
<1>3. ASSUME NEW v \in People, NEW c \in Channels, c \in settled'[v]
      PROVE  v \in members'[c] /\ current'[v] # 0
  BY <1>1, <1>3 DEF ChatInv, ChatTypeOK, Seated
<1>4. Requests'
  BY <1>1, HistorySame DEF ChatInv, Requests, Sound, Replayed
<1>5. Stamped' /\ WarnedOnce' /\ NoMessageMissed'
  BY <1>1 DEF ChatInv, Stamped, WarnedOnce, Noticing, NoMessageMissed
<1>6. QED
  BY <1>2, <1>3, <1>4, <1>5 DEF ChatInv, Seated

-----------------------------------------------------------------------------
(* Public messages *)

LEMMA SayStep ==
  ASSUME ChatInv, NEW h \in Handlers, NEW u \in People, NEW ch \in Channels,
         NEW command \in BOOLEAN, Say(h, u, ch, command)
  PROVE  ChatInv'
<1> DEFINE m == sent + 1
           row == [id |-> m, channel |-> ch]
           to == {<<v, current[v]>> : v \in {x \in People \ {u} : ch \in settled[x]}}
           w == [step |-> IF command THEN "command" ELSE "broadcast",
                 user |-> u, channel |-> ch, id |-> m, reply |-> {}, audience |-> to]
<1>1. /\ sent \in 0..MaxSent /\ m \in MessageIds /\ sent < m
      /\ sent' = m /\ sent' \in 0..MaxSent
  BY ChatAssumption DEF ChatInv, ChatTypeOK, Say, MessageIds
<1>2. row \in Rows /\ row.id = m
  BY <1>1 DEF Rows
<1>3. to \subseteq People \X (0..MaxLogins) /\ \A a \in to : a[1] # u
  BY DEF ChatInv, ChatTypeOK
<1>4. /\ work' = [work EXCEPT ![h] = w] /\ work[h].step # "notice"
      /\ saving' = saving \cup {row}
      /\ UNCHANGED <<current, logins, members, inbox, stored, warned, notices,
                     settled, due>>
  BY FreeTyped DEF Say, BeginWork
<1> HIDE DEF m, row, to
<1>5. w \in Saying /\ w.audience = to /\ w.user = u
  BY <1>1, <1>3 DEF Saying
<1>6. w \in ChatWork /\ w.step # "notice" /\ w \notin Entering \cup Joining
  BY <1>5 DEF ChatWork, Saying, Entering, Joining
<1> HIDE DEF w
<1>7. work' \in [Handlers -> ChatWork] /\ WarnedOnce'
  BY <1>4, <1>6, NoticesKept DEF ChatInv, ChatTypeOK
<1>8. ChatTypeOK'
  BY <1>1, <1>2, <1>4, <1>7 DEF ChatInv, ChatTypeOK
<1>9. Seated' /\ NoMessageMissed'
  BY <1>4 DEF ChatInv, Seated, NoMessageMissed
<1>10. Stamped'
  <2>1. /\ \A r \in saving : r.id \in Int /\ r.id <= sent
        /\ \A i \in DOMAIN stored : stored[i].id \in Int /\ stored[i].id <= sent
    <3>1. \A i \in DOMAIN stored : stored[i] \in Rows
      BY DEF ChatInv, ChatTypeOK
    <3>2. \A r \in Rows : r.id \in Int
      BY DEF Rows, MessageIds
    <3>3. QED
      BY <3>1, <3>2 DEF ChatInv, ChatTypeOK, Stamped
  <2>2. /\ \A r \in saving : r.id <= m /\ r.id # m
        /\ \A i \in DOMAIN stored : stored[i].id <= m /\ stored[i].id # m
    BY <1>1, <2>1 DEF MessageIds
  <2>3. /\ \A r \in saving' : r.id <= m
        /\ \A i \in DOMAIN stored : stored[i].id <= m
    BY <1>1, <1>2, <1>4, <2>2 DEF MessageIds
  <2>4. /\ \A i \in DOMAIN stored, r \in saving' : stored[i].id # r.id
        /\ \A r, other \in saving' : r.id = other.id => r = other
    BY <1>2, <1>4, <2>2 DEF ChatInv, Stamped
  <2>5. QED
    BY <1>1, <1>4, <2>3, <2>4 DEF Stamped
<1>11. Requests'
  <2>1. ASSUME NEW k \in Handlers, k # h PROVE Sound(work[k])'
    <3>1. work'[k] = work[k] /\ Sound(work[k]) /\ work[k] \in ChatWork
      BY <1>4, <2>1 DEF ChatInv, ChatTypeOK, Requests
    <3>2. ASSUME work[k] \in Entering \cup Joining, NEW b \in work[k].before
          PROVE  b <= m /\ \A r \in saving' : r.id # b
      <4>1. b <= sent /\ b \in MessageIds /\ \A r \in saving : r.id # b
        BY <3>1, <3>2 DEF Sound, Entering, Joining
      <4>2. b # m /\ b <= m
        BY <1>1, <4>1 DEF MessageIds
      <4>3. QED
        BY <1>2, <1>4, <4>1, <4>2
    <3>3. QED
      BY <1>1, <1>4, <3>1, <3>2, HistorySame DEF Sound, Replayed
  <2>2. Sound(work[h])'
    <3>1. work'[h] = w
      BY <1>4 DEF ChatInv, ChatTypeOK
    <3>2. QED
      BY <1>3, <1>5, <1>6, <3>1 DEF Sound
  <2>3. QED
    BY <2>1, <2>2 DEF Requests
<1>12. QED
  BY <1>7, <1>8, <1>9, <1>10, <1>11 DEF ChatInv

LEMMA SaveMessageStep ==
  ASSUME ChatInv, NEW row \in saving, SaveMessage(row)
  PROVE  ChatInv'
<1>1. /\ saving' = saving \ {row}
      /\ UNCHANGED <<current, logins, members, inbox, work, sent, warned,
                     notices, settled, due>>
  BY DEF SaveMessage
<1>2. row \in Rows /\ row.id \in MessageIds
  BY DEF ChatInv, ChatTypeOK, Rows
<1>3. Seated' /\ NoMessageMissed' /\ WarnedOnce'
  BY <1>1 DEF ChatInv, Seated, NoMessageMissed, WarnedOnce, Noticing
<1>4. CASE stored' = Append(stored, row)
  <2>1. /\ stored' \in Seq(Rows)
        /\ Len(stored) \in Nat /\ DOMAIN stored = 1..Len(stored)
        /\ DOMAIN stored' = 1..(Len(stored) + 1)
        /\ \A i \in 1..Len(stored) : stored'[i] = stored[i]
        /\ stored'[Len(stored) + 1] = row
    BY <1>2, <1>4, AppendProperties DEF ChatInv, ChatTypeOK
  <2>2. ChatTypeOK'
    BY <1>1, <2>1 DEF ChatInv, ChatTypeOK
  <2>3. \A i \in DOMAIN stored' :
           \/ i \in DOMAIN stored /\ stored'[i] = stored[i]
           \/ stored'[i] = row
    BY <2>1
  <2>4. Stamped'
    BY <1>1, <2>3 DEF ChatInv, Stamped
  <2>5. \A ch \in Channels : History(ch)' \subseteq History(ch) \cup {row.id}
    BY <1>2, <1>4, HistoryAppended DEF ChatInv
  <2>6. Requests'
    BY <1>1, <2>5 DEF ChatInv, Requests, Sound, Replayed
  <2>7. QED
    BY <1>3, <2>2, <2>4, <2>6 DEF ChatInv
<1>5. CASE UNCHANGED stored
  <2>1. ChatTypeOK' /\ Stamped'
    BY <1>1, <1>5 DEF ChatInv, ChatTypeOK, Stamped
  <2>2. Requests'
    BY <1>1, <1>5, HistorySame DEF ChatInv, Requests, Sound, Replayed
  <2>3. QED
    BY <1>3, <2>1, <2>2 DEF ChatInv
<1>6. QED
  BY <1>4, <1>5 DEF SaveMessage

LEMMA BroadcastStep ==
  ASSUME ChatInv, NEW h \in Handlers, Broadcast(h)
  PROVE  ChatInv'
<1> DEFINE ch == work[h].channel
           m == work[h].id
           to == members[ch] \ {work[h].user}
<1>1. work[h] \in Saying /\ work[h].step = "broadcast"
  BY WorkTyped, WorkKinds DEF ChatInv, Broadcast
<1>2. ch \in Channels /\ m \in MessageIds
  BY <1>1 DEF Saying
<1>3. \A a \in work[h].audience : a[1] # work[h].user
  BY <1>1 DEF ChatInv, Requests, Sound
<1>4. /\ work' = [work EXCEPT ![h] = Free]
      /\ inbox' = [v \in People |-> IF v \in to /\ Online(v) THEN inbox[v] \cup {m}
                                    ELSE inbox[v]]
      /\ UNCHANGED <<current, logins, members, stored, saving, sent, warned,
                     notices, settled>>
  BY DEF Broadcast, Ends, Enqueue
<1>5. \E D \in SUBSET {v \in People : v # work[h].user /\ ch \in settled[v]} :
         due' = [v \in People |-> IF v \in D THEN due[v] \cup {m} ELSE due[v]]
  <2> DEFINE D == {v \in People : /\ <<v, current[v]>> \in work[h].audience
                                  /\ ch \in settled[v]}
  <2>1. D \in SUBSET {v \in People : v # work[h].user /\ ch \in settled[v]}
    BY <1>3
  <2>2. due' = [v \in People |-> IF v \in D THEN due[v] \cup {m} ELSE due[v]]
    BY DEF Broadcast
  <2>3. QED
    BY <2>1, <2>2
<1>6. PICK D \in SUBSET {v \in People : v # work[h].user /\ ch \in settled[v]} :
         due' = [v \in People |-> IF v \in D THEN due[v] \cup {m} ELSE due[v]]
  BY <1>5
<1>7. \A v \in D : v \in People /\ v \in to /\ Online(v)
  BY <1>2, <1>6 DEF ChatInv, ChatTypeOK, Seated, Online
<1> HIDE DEF ch, m, to
<1>8. work' \in [Handlers -> ChatWork] /\ Requests' /\ WarnedOnce' /\ Stamped'
  BY <1>1, <1>4, FreeTyped, WorkGoesOn
<1>9. inbox' \in [People -> SUBSET MessageIds] /\ due' \in [People -> SUBSET MessageIds]
  BY <1>2, <1>4, <1>6 DEF ChatInv, ChatTypeOK
<1>10. ChatTypeOK'
  BY <1>4, <1>8, <1>9 DEF ChatInv, ChatTypeOK
<1>11. ASSUME NEW v \in People PROVE due'[v] \subseteq inbox'[v]
  BY <1>4, <1>6, <1>7 DEF ChatInv, NoMessageMissed
<1>12. Seated'
  BY <1>4 DEF ChatInv, Seated
<1>13. QED
  BY <1>8, <1>10, <1>11, <1>12 DEF ChatInv, NoMessageMissed

\* Messages that are queued beside the broadcasts and the replays: answers of
\* the bot and private messages.
LEMMA QueuedBesides ==
  ASSUME ChatInv, NEW h \in Handlers, work[h].step # "notice", Ends(h),
         NEW to, NEW ids \in SUBSET MessageIds,
         Enqueue(to, ids) \/ UNCHANGED inbox,
         UNCHANGED <<current, logins, members, stored, saving, sent, warned,
                     notices, settled, due>>
  PROVE  ChatInv'
<1>1. work' \in [Handlers -> ChatWork] /\ Requests' /\ WarnedOnce' /\ Stamped'
  BY FreeTyped, WorkGoesOn DEF Ends
<1>2. /\ inbox' \in [People -> SUBSET MessageIds]
      /\ \A v \in People : inbox[v] \subseteq inbox'[v]
  BY DEF ChatInv, ChatTypeOK, Enqueue
<1>3. ChatTypeOK'
  BY <1>1, <1>2 DEF ChatInv, ChatTypeOK
<1>4. Seated' /\ NoMessageMissed'
  BY <1>2 DEF ChatInv, Seated, NoMessageMissed
<1>5. QED
  BY <1>1, <1>3, <1>4 DEF ChatInv

LEMMA BotStep ==
  ASSUME ChatInv, NEW h \in Handlers, BotCommand(h) \/ BotReply(h)
  PROVE  ChatInv'
<1>1. CASE BotCommand(h)
  <2>1. work[h] \in Saying /\ work[h].step = "command"
    BY <1>1, WorkTyped, WorkKinds DEF ChatInv, BotCommand
  <2>2. PICK r \in SUBSET MessageIds :
          work' = [work EXCEPT ![h] = [work[h] EXCEPT !.step = "reply", !.reply = r]]
    <3>1. CASE work' = [work EXCEPT ![h].step = "reply",
                                    ![h].reply = History(work[h].channel)]
      BY <3>1, HistoryTyped DEF ChatInv, ChatTypeOK
    <3>2. CASE WorkGoes(h, "reply")
      <4>1. work[h].reply \in SUBSET MessageIds
        BY <2>1 DEF Saying
      <4>2. [work[h] EXCEPT !.step = "reply"]
              = [work[h] EXCEPT !.step = "reply", !.reply = work[h].reply]
        BY <2>1 DEF Saying
      <4>3. QED
        BY <3>2, <4>1, <4>2 DEF WorkGoes, ChatInv, ChatTypeOK
    <3>3. QED
      BY <1>1, <3>1, <3>2 DEF BotCommand
  <2> DEFINE w == [work[h] EXCEPT !.step = "reply", !.reply = r]
  <2>3. /\ w \in Saying /\ w.step = "reply"
        /\ w.audience = work[h].audience /\ w.user = work[h].user
    BY <2>1, <2>2 DEF Saying
  <2> HIDE DEF w
  <2>4. w \in ChatWork /\ w \notin Entering \cup Joining
    BY <2>3 DEF ChatWork, Entering, Joining
  <2>5. Sound(w)
    BY <2>1, <2>3, <2>4 DEF ChatInv, Requests, Sound
  <2>6. work' = [work EXCEPT ![h] = w]
    BY <2>2 DEF w
  <2>7. QED
    BY <1>1, <2>1, <2>3, <2>4, <2>5, <2>6, OnlyWork DEF BotCommand
<1>2. CASE BotReply(h)
  <2>1. work[h] \in Saying /\ work[h].step = "reply"
    BY <1>2, WorkTyped, WorkKinds DEF ChatInv, BotReply
  <2>2. work[h].reply \in SUBSET MessageIds
    BY <2>1 DEF Saying
  <2>3. QED
    BY <1>2, <2>1, <2>2, QueuedBesides DEF BotReply
<1>3. QED
  BY <1>1, <1>2

-----------------------------------------------------------------------------
(* Private messages *)

LEMMA WhisperStep ==
  ASSUME ChatInv, NEW h \in Handlers, NEW u \in People, NEW v \in People,
         Whisper(h, u, v)
  PROVE  ChatInv'
<1> DEFINE w == [step |-> "find", user |-> u, to |-> v, number |-> 0, id |-> sent + 1]
<1>1. /\ sent \in 0..MaxSent /\ sent + 1 \in MessageIds
      /\ sent' = sent + 1 /\ sent' \in 0..MaxSent
  BY ChatAssumption DEF ChatInv, ChatTypeOK, Whisper, MessageIds
<1>2. w \in Whispering
  BY <1>1, ChatAssumption DEF Whispering
<1>3. w \in ChatWork /\ w.step # "notice" /\ w \notin Entering \cup Joining \cup Saying
  BY <1>2 DEF ChatWork, Entering, Joining, Saying
<1>4. /\ work' = [work EXCEPT ![h] = w] /\ work[h].step # "notice"
      /\ UNCHANGED <<current, logins, members, inbox, stored, saving, warned,
                     notices, settled, due>>
  BY FreeTyped DEF Whisper, BeginWork
<1> HIDE DEF w
<1>5. work' \in [Handlers -> ChatWork] /\ WarnedOnce'
  BY <1>3, <1>4, NoticesKept DEF ChatInv, ChatTypeOK
<1>6. ChatTypeOK'
  BY <1>1, <1>4, <1>5 DEF ChatInv, ChatTypeOK
<1>7. Seated' /\ NoMessageMissed'
  BY <1>4 DEF ChatInv, Seated, NoMessageMissed
<1>8. Stamped'
  <2>1. /\ \A i \in DOMAIN stored : stored[i] \in Rows
        /\ \A r \in Rows : r.id \in Int
    <3>1. \A i \in DOMAIN stored : stored[i] \in Rows
      BY DEF ChatInv, ChatTypeOK
    <3>2. \A r \in Rows : r.id \in Int
      BY DEF Rows, MessageIds
    <3>3. QED
      BY <3>1, <3>2
  <2>2. /\ \A r \in saving : r.id \in Int /\ r.id <= sent
        /\ \A i \in DOMAIN stored : stored[i].id \in Int /\ stored[i].id <= sent
    BY <2>1 DEF ChatInv, ChatTypeOK, Stamped
  <2>3. /\ \A r \in saving : r.id <= sent + 1
        /\ \A i \in DOMAIN stored : stored[i].id <= sent + 1
    BY <1>1, <2>2
  <2>4. QED
    BY <1>1, <1>4, <2>3 DEF ChatInv, Stamped
<1>9. Requests'
  <2>1. ASSUME NEW k \in Handlers PROVE Sound(work[k])'
    <3>1. CASE k = h
      <4>1. work'[k] = w
        BY <1>4, <3>1 DEF ChatInv, ChatTypeOK
      <4>2. QED
        BY <1>3, <4>1 DEF Sound
    <3>2. CASE k # h
      <4>1. work'[k] = work[k] /\ Sound(work[k])
        BY <1>4, <3>2 DEF ChatInv, ChatTypeOK, Requests
      <4>2. ASSUME work[k] \in Entering \cup Joining, NEW b \in work[k].before
            PROVE  b <= sent + 1
        BY <1>1, <4>1, <4>2 DEF Sound, Entering, Joining, MessageIds
      <4>3. QED
        BY <1>1, <1>4, <4>1, <4>2, HistorySame DEF Sound, Replayed
    <3>3. QED
      BY <3>1, <3>2
  <2>2. QED
    BY <2>1 DEF Requests
<1>10. QED
  BY <1>5, <1>6, <1>7, <1>8, <1>9 DEF ChatInv

LEMMA FindTargetStep ==
  ASSUME ChatInv, NEW h \in Handlers, FindTarget(h)
  PROVE  ChatInv'
<1>1. work[h] \in Whispering /\ work[h].step = "find"
  BY WorkTyped, WorkKinds DEF ChatInv, FindTarget
<1>2. PICK w \in {Free} \cup Whispering :
         w.step \in {"idle", "mark"} /\ work' = [work EXCEPT ![h] = w]
  <2>1. CASE Ends(h)
    BY <2>1, FreeTyped DEF Ends
  <2>2. CASE work' = [work EXCEPT ![h].step = "mark", ![h].number = current[work[h].to]]
    <3> DEFINE w == [work[h] EXCEPT !.step = "mark", !.number = current[work[h].to]]
    <3>1. current[work[h].to] \in 0..MaxLogins
      BY <1>1 DEF ChatInv, ChatTypeOK, Whispering
    <3>2. w \in Whispering /\ w.step = "mark"
      BY <1>1, <3>1 DEF Whispering
    <3>3. work' = [work EXCEPT ![h] = w]
      BY <2>2 DEF ChatInv, ChatTypeOK
    <3> HIDE DEF w
    <3>4. QED
      BY <3>2, <3>3
  <2>3. QED
    BY <2>1, <2>2 DEF FindTarget
<1>3. w \in ChatWork /\ Sound(w)
  BY <1>2, SoundOthers DEF ChatWork
<1>4. QED
  BY <1>1, <1>2, <1>3, OnlyWork DEF FindTarget

LEMMA DeliverStep ==
  ASSUME ChatInv, NEW h \in Handlers, Deliver(h)
  PROVE  ChatInv'
<1>1. work[h] \in Whispering /\ work[h].step = "deliver"
  BY WorkTyped, WorkKinds DEF ChatInv, Deliver
<1>2. {work[h].id} \in SUBSET MessageIds
  BY <1>1 DEF Whispering
<1>3. QED
  BY <1>1, <1>2, QueuedBesides DEF Deliver

LEMMA NoticingFinite ==
  ASSUME ChatInv, NEW p \in Pairs
  PROVE  /\ IsFiniteSet(Noticing(p)) /\ Cardinality(Noticing(p)) \in Nat
         /\ notices[p] \in Nat
<1>1. Noticing(p) \in SUBSET Handlers
  BY DEF Noticing
<1>2. QED
  BY <1>1, ChatAssumption, FS_Subset, FS_CardinalityType DEF ChatInv, ChatTypeOK

\* A step of a request for a private message that moves nothing but notices.
LEMMA NoticeStep ==
  ASSUME ChatInv, NEW h \in Handlers, NEW w \in Whispering,
         work' = [work EXCEPT ![h] = w],
         warned' \subseteq Pairs, notices' \in [Pairs -> Nat], WarnedOnce',
         UNCHANGED <<current, logins, members, inbox, stored, saving, sent,
                     settled, due>>
  PROVE  ChatInv'
<1>1. w \in ChatWork /\ w.step \in {"find", "mark", "notice", "deliver"}
  BY DEF ChatWork, Whispering
<1>2. work' \in [Handlers -> ChatWork] /\ Requests'
  BY <1>1, SoundOthers, RequestsKept DEF ChatInv
<1>3. ChatTypeOK'
  BY <1>2 DEF ChatInv, ChatTypeOK
<1>4. Stamped' /\ Seated' /\ NoMessageMissed'
  BY DEF ChatInv, Stamped, Seated, NoMessageMissed
<1>5. QED
  BY <1>2, <1>3, <1>4 DEF ChatInv

LEMMA MarkPairStep ==
  ASSUME ChatInv, NEW h \in Handlers, MarkPair(h)
  PROVE  ChatInv'
<1> DEFINE p == Pair(work[h].user, work[h].to)
           s == IF p \in warned THEN "deliver" ELSE "notice"
           w == [work[h] EXCEPT !.step = s]
<1>1. work[h] \in Whispering /\ work[h].step = "mark"
  BY WorkTyped, WorkKinds DEF ChatInv, MarkPair
<1>2. /\ p \in Pairs /\ w \in Whispering
      /\ w.step = s /\ w.user = work[h].user /\ w.to = work[h].to
  BY <1>1 DEF Whispering, Pairs
<1>3. /\ warned' = warned \cup {p} /\ work' = [work EXCEPT ![h] = w]
      /\ UNCHANGED <<current, logins, members, inbox, stored, saving, sent,
                     notices, settled, due>>
  BY DEF MarkPair, WorkGoes, ChatInv, ChatTypeOK
<1>4. Pair(w.user, w.to) = p
  BY <1>2
<1>5. w.step = IF p \in warned THEN "deliver" ELSE "notice"
  BY <1>2
<1> HIDE DEF p, s, w
<1>6. ASSUME NEW q \in Pairs
      PROVE  Noticing(q)' = IF q = p /\ p \notin warned THEN Noticing(q) \cup {h}
                            ELSE Noticing(q)
  <2>1. ASSUME NEW k \in Handlers
        PROVE  k \in Noticing(q)' <=> IF k = h THEN q = p /\ p \notin warned
                                      ELSE k \in Noticing(q)
    BY <1>3, <1>4, <1>5 DEF Noticing, ChatInv, ChatTypeOK
  <2>2. h \notin Noticing(q)
    BY <1>1 DEF Noticing
  <2>3. Noticing(q)' \subseteq Handlers /\ Noticing(q) \subseteq Handlers
    BY DEF Noticing
  <2>4. QED
    BY <2>1, <2>2, <2>3
<1>7. ASSUME NEW q \in Pairs
      PROVE  notices'[q] + Cardinality(Noticing(q)') = IF q \in warned' THEN 1 ELSE 0
  <2>1. notices[q] + Cardinality(Noticing(q)) = IF q \in warned THEN 1 ELSE 0
    BY DEF ChatInv, WarnedOnce
  <2>2. /\ IsFiniteSet(Noticing(q)) /\ Cardinality(Noticing(q)) \in Nat
        /\ notices[q] \in Nat
    BY NoticingFinite
  <2>3. CASE q = p /\ p \notin warned
    <3>1. h \notin Noticing(q)
      BY <1>1 DEF Noticing
    <3>2. Cardinality(Noticing(q)') = Cardinality(Noticing(q)) + 1
      BY <1>6, <2>2, <2>3, <3>1, FS_AddElement
    <3>3. QED
      BY <1>3, <2>1, <2>2, <2>3, <3>2
  <2>4. CASE ~(q = p /\ p \notin warned)
    BY <1>3, <1>6, <2>1, <2>4
  <2>5. QED
    BY <2>3, <2>4
<1>8. WarnedOnce'
  BY <1>7 DEF WarnedOnce
<1>9. warned' \subseteq Pairs /\ notices' \in [Pairs -> Nat]
  BY <1>2, <1>3 DEF ChatInv, ChatTypeOK
<1>10. QED
  BY <1>2, <1>3, <1>8, <1>9, NoticeStep

LEMMA SendNoticeStep ==
  ASSUME ChatInv, NEW h \in Handlers, SendNotice(h)
  PROVE  ChatInv'
<1> DEFINE p == Pair(work[h].user, work[h].to)
           w == [work[h] EXCEPT !.step = "deliver"]
<1>1. work[h] \in Whispering /\ work[h].step = "notice"
  BY WorkTyped, WorkKinds DEF ChatInv, SendNotice
<1>2. p \in Pairs /\ w \in Whispering /\ w.step = "deliver"
  BY <1>1 DEF Whispering, Pairs
<1>3. /\ notices' = [notices EXCEPT ![p] = @ + 1]
      /\ work' = [work EXCEPT ![h] = w]
      /\ UNCHANGED <<current, logins, members, inbox, stored, saving, sent,
                     warned, settled, due>>
  BY DEF SendNotice, WorkGoes, ChatInv, ChatTypeOK
<1>4. \A q \in Pairs : h \in Noticing(q) <=> q = p
  BY <1>1 DEF Noticing
<1> HIDE DEF p, w
<1>5. ASSUME NEW q \in Pairs PROVE Noticing(q)' = Noticing(q) \ {h}
  <2>1. ASSUME NEW k \in Handlers
        PROVE  k \in Noticing(q)' <=> k # h /\ k \in Noticing(q)
    BY <1>2, <1>3 DEF Noticing, ChatInv, ChatTypeOK
  <2>2. Noticing(q)' \subseteq Handlers /\ Noticing(q) \subseteq Handlers
    BY DEF Noticing
  <2>3. QED
    BY <2>1, <2>2
<1>6. ASSUME NEW q \in Pairs
      PROVE  notices'[q] + Cardinality(Noticing(q)') = IF q \in warned' THEN 1 ELSE 0
  <2>1. notices[q] + Cardinality(Noticing(q)) = IF q \in warned THEN 1 ELSE 0
    BY DEF ChatInv, WarnedOnce
  <2>2. /\ IsFiniteSet(Noticing(q)) /\ Cardinality(Noticing(q)) \in Nat
        /\ notices[q] \in Nat
    BY NoticingFinite
  <2>3. CASE q = p
    <3>1. Cardinality(Noticing(q)') = Cardinality(Noticing(q)) - 1
      BY <1>4, <1>5, <2>2, <2>3, FS_RemoveElement
    <3>2. notices'[q] = notices[q] + 1
      BY <1>3, <2>3 DEF ChatInv, ChatTypeOK
    <3>3. QED
      BY <1>3, <2>1, <2>2, <3>1, <3>2
  <2>4. CASE q # p
    <3>1. Noticing(q)' = Noticing(q)
      BY <1>4, <1>5, <2>4
    <3>2. notices'[q] = notices[q]
      BY <1>3, <2>4 DEF ChatInv, ChatTypeOK
    <3>3. QED
      BY <1>3, <2>1, <3>1, <3>2
  <2>5. QED
    BY <2>3, <2>4
<1>7. WarnedOnce'
  BY <1>6 DEF WarnedOnce
<1>8. warned' \subseteq Pairs /\ notices' \in [Pairs -> Nat]
  BY <1>2, <1>3 DEF ChatInv, ChatTypeOK
<1>9. QED
  BY <1>2, <1>3, <1>7, <1>8, NoticeStep

-----------------------------------------------------------------------------

\* Nothing is in flight and nobody is there, at the start and after a restart.
LEMMA FreshRequests ==
  ASSUME work = [h \in Handlers |-> Free]
  PROVE  /\ work \in [Handlers -> ChatWork] /\ Requests
         /\ \A p \in Pairs : Cardinality(Noticing(p)) = 0
<1>1. \A h \in Handlers : work[h] = Free
  OBVIOUS
<1>2. work \in [Handlers -> ChatWork] /\ Requests
  BY <1>1, FreeTyped DEF Requests
<1>3. ASSUME NEW p \in Pairs PROVE Noticing(p) = {}
  BY <1>1, FreeTyped DEF Noticing
<1>4. QED
  BY <1>2, <1>3, FS_EmptySet

LEMMA ChatInitInv == ChatInit => ChatInv
<1> SUFFICES ASSUME ChatInit PROVE ChatInv
  OBVIOUS
<1>1. /\ work \in [Handlers -> ChatWork] /\ Requests
      /\ \A p \in Pairs : Cardinality(Noticing(p)) = 0
  BY FreshRequests DEF ChatInit
<1>2. ChatTypeOK
  BY <1>1, ChatAssumption DEF ChatInit, ChatTypeOK
<1>3. Stamped /\ Seated /\ NoMessageMissed
  BY DEF ChatInit, Stamped, Seated, NoMessageMissed
<1>4. WarnedOnce
  BY <1>1 DEF ChatInit, WarnedOnce
<1>5. QED
  BY <1>1, <1>2, <1>3, <1>4 DEF ChatInv

LEMMA RestartStep ==
  ASSUME ChatInv, Restart
  PROVE  ChatInv'
<1>1. work' = [h \in Handlers |-> Free]
  BY DEF Restart
<1>2. \A h \in Handlers : work'[h] = Free
  BY <1>1
<1>3. work' \in [Handlers -> ChatWork]
  BY <1>1, FreeTyped
<1>4. Requests'
  BY <1>2, WorkKinds, FreeTyped DEF Requests, Sound
<1>5. ASSUME NEW p \in Pairs PROVE Cardinality(Noticing(p)') = 0
  <2>1. Noticing(p)' = {}
    BY <1>2, FreeTyped DEF Noticing
  <2>2. QED
    BY <2>1, FS_EmptySet
<1>6. ChatTypeOK'
  BY <1>3, ChatAssumption DEF Restart, ChatInv, ChatTypeOK
<1>7. Stamped' /\ Seated' /\ NoMessageMissed'
  BY DEF Restart, ChatInv, Stamped, Seated, NoMessageMissed
<1>8. WarnedOnce'
  BY <1>5 DEF Restart, WarnedOnce
<1>9. QED
  BY <1>4, <1>6, <1>7, <1>8 DEF ChatInv

LEMMA ChatNextInv == ChatInv /\ [ChatNext]_chatVars => ChatInv'
<1> SUFFICES ASSUME ChatInv, [ChatNext]_chatVars PROVE ChatInv'
  OBVIOUS
<1>1. CASE UNCHANGED chatVars
  <2>1. ChatTypeOK' /\ Stamped' /\ Seated' /\ NoMessageMissed'
    BY <1>1 DEF chatVars, ChatInv, ChatTypeOK, Stamped, Seated, NoMessageMissed
  <2>2. Requests'
    BY <1>1, HistorySame DEF chatVars, ChatInv, Requests, Sound, Replayed
  <2>3. WarnedOnce'
    BY <1>1 DEF chatVars, ChatInv, WarnedOnce, Noticing
  <2>4. QED
    BY <2>1, <2>2, <2>3 DEF ChatInv
<1>2. CASE ChatNext
  BY <1>2, LoginStartStep, LoginHistoryStep, LoginOpenStep, LeaveStep, JoinStep,
     JoinMemberStep, ReplayReadStep, ReplayStep, PartStep, SayStep,
     SaveMessageStep, BroadcastStep, BotStep, WhisperStep, FindTargetStep,
     MarkPairStep, SendNoticeStep, DeliverStep, RestartStep DEF ChatNext
<1>3. QED
  BY <1>1, <1>2

LEMMA ChatInvHolds == ChatSpec => []ChatInv
BY ChatInitInv, ChatNextInv, PTL DEF ChatSpec

\* Who has finished to log in or to join a channel has, or gets, every message
\* that its history and its broadcasts owe it, for any number of people,
\* messages and requests that interleave.
THEOREM NobodyMissesMessages == ChatSpec => []NoMessageMissed
<1>1. ChatInv => NoMessageMissed
  BY DEF ChatInv
<1>2. QED
  BY <1>1, ChatInvHolds, PTL

\* The security notice of two people is sent once while the server runs,
\* whoever writes first and however many messages are in flight.
THEOREM NoticeSentOnce == ChatSpec => []WarnedOnce
<1>1. ChatInv => WarnedOnce
  BY DEF ChatInv
<1>2. QED
  BY <1>1, ChatInvHolds, PTL

-----------------------------------------------------------------------------
(* Friends *)

FriendsInv == FriendsTypeOK /\ MutualTold

LEMMA FriendsInitInv == FriendsInit => FriendsInv
<1> SUFFICES ASSUME FriendsInit PROVE FriendsInv
  OBVIOUS
<1>1. FriendsTypeOK
  BY FriendsAssumption DEF FriendsInit, FriendsTypeOK, Row
<1>2. MutualTold
  BY DEF FriendsInit, MutualTold, Mutual
<1>3. QED
  BY <1>1, <1>2 DEF FriendsInv

\* A request that is being sent has the type of its state.
LEMMA PendingTyped ==
  ASSUME FriendsTypeOK, NEW t \in Tabs, tab[t].step \in {"add", "tell", "remove"}
  PROVE  /\ tab[t] \in Pending
         /\ <<tab[t].user, tab[t].friend>> \in Row
<1>1. tab[t] \in {NoClick} \cup Pending \cup Listing
  BY DEF FriendsTypeOK
<1>2. tab[t] \in Pending
  BY <1>1 DEF NoClick, Listing
<1>3. QED
  BY <1>2 DEF Pending, Row

\* Whatever a request of type Pending, Listing or none becomes, the table of
\* requests stays well typed.
LEMMA TabTyped ==
  ASSUME FriendsTypeOK, NEW t \in Tabs,
         NEW req \in {NoClick} \cup Pending \cup Listing
  PROVE  [tab EXCEPT ![t] = req] \in [Tabs -> {NoClick} \cup Pending \cup Listing]
BY DEF FriendsTypeOK

LEMMA ClickTyped ==
  ASSUME FriendsTypeOK, NEW t \in Tabs,
         NEW req \in {NoClick} \cup Pending \cup Listing, Click(t, req)
  PROVE  clicks' \in 0..MaxClicks /\ tab' \in [Tabs -> {NoClick} \cup Pending \cup Listing]
<1>1. clicks' \in 0..MaxClicks
  BY FriendsAssumption DEF FriendsTypeOK, Click
<1>2. QED
  BY <1>1, TabTyped DEF Click

LEMMA ClickAddStep ==
  ASSUME FriendsInv, NEW t \in Tabs, NEW u \in Registered, NEW f \in Ids,
         ClickAdd(t, u, f) \/ ClickRemove(t, u, f)
  PROVE  FriendsInv'
<1>1. PICK s \in {"add", "remove"} :
        Click(t, [step |-> s, user |-> u, friend |-> f])
  BY DEF ClickAdd, ClickRemove
<1>2. [step |-> s, user |-> u, friend |-> f] \in {NoClick} \cup Pending \cup Listing
  BY DEF Pending
<1>3. UNCHANGED <<friends, told>>
  BY DEF ClickAdd, ClickRemove
<1>4. FriendsTypeOK'
  BY <1>1, <1>2, <1>3, ClickTyped DEF FriendsInv, FriendsTypeOK
<1>5. QED
  BY <1>3, <1>4 DEF FriendsInv, MutualTold, Mutual

LEMMA ClickListStep ==
  ASSUME FriendsInv, NEW t \in Tabs, NEW u \in Registered, ClickList(t, u)
  PROVE  FriendsInv'
<1> DEFINE req == [step |-> "list", user |-> u, listed |-> {},
                   rows |-> {r \in friends : r[1] = u}]
<1>1. Click(t, req) /\ UNCHANGED <<friends, told>>
  BY DEF ClickList
<1>2. req \in {NoClick} \cup Pending \cup Listing
  BY DEF Listing, FriendsInv, FriendsTypeOK
<1> HIDE DEF req
<1>3. FriendsTypeOK'
  BY <1>1, <1>2, ClickTyped DEF FriendsInv, FriendsTypeOK
<1>4. QED
  BY <1>1, <1>3 DEF FriendsInv, MutualTold, Mutual

LEMMA AddStep ==
  ASSUME FriendsInv, NEW t \in Tabs, AddFriend(t)
  PROVE  FriendsInv'
<1> DEFINE row == <<tab[t].user, tab[t].friend>>
<1>1. tab[t] \in Pending /\ row \in Row /\ clicks' = clicks
  BY PendingTyped DEF AddFriend, FriendsInv
<1>2. CASE /\ friends' = friends \cup {row}
           /\ tab' = [tab EXCEPT ![t].step = "tell"]
           /\ told' = [told EXCEPT ![row] = "none"]
  <2>1. tab' = [tab EXCEPT ![t] = [tab[t] EXCEPT !.step = "tell"]]
    BY <1>2
  <2>2. [tab[t] EXCEPT !.step = "tell"] \in {NoClick} \cup Pending \cup Listing
    BY <1>1 DEF Pending
  <2>3. FriendsTypeOK'
    BY <1>1, <1>2, <2>1, <2>2, TabTyped DEF FriendsInv, FriendsTypeOK
  <2>4. ASSUME NEW u \in Registered, NEW f \in Registered, Mutual(u, f)'
        PROVE  {told'[<<u, f>>], told'[<<f, u>>]} # {"added"}
    <3>1. <<u, f>> \in Row /\ <<f, u>> \in Row
      BY FriendsAssumption DEF Row
    <3>2. CASE row = <<u, f>> \/ row = <<f, u>>
      BY <1>1, <1>2, <3>1, <3>2 DEF FriendsInv, FriendsTypeOK
    <3>3. CASE row # <<u, f>> /\ row # <<f, u>>
      BY <1>1, <1>2, <2>4, <3>1, <3>3
         DEF FriendsInv, FriendsTypeOK, MutualTold, Mutual
    <3>4. QED
      BY <3>2, <3>3
  <2>5. QED
    BY <2>3, <2>4 DEF FriendsInv, MutualTold
<1>3. CASE tab' = [tab EXCEPT ![t] = NoClick] /\ UNCHANGED <<friends, told>>
  BY <1>1, <1>3, TabTyped DEF FriendsInv, FriendsTypeOK, MutualTold, Mutual
<1>4. QED
  BY <1>2, <1>3 DEF AddFriend

LEMMA TellStep ==
  ASSUME FriendsInv, NEW t \in Tabs, Tell(t)
  PROVE  FriendsInv'
<1> DEFINE row == <<tab[t].user, tab[t].friend>>
<1>1. tab[t] \in Pending /\ row \in Row /\ UNCHANGED <<friends, clicks>>
  BY PendingTyped DEF Tell, FriendsInv
<1>2. PICK answer \in {"mutual", "added", "unsure"} :
        /\ told' = [told EXCEPT ![row] = answer]
        /\ answer = "added" => ~ Mutual(row[1], row[2])
  BY DEF Tell
<1>3. FriendsTypeOK'
  BY <1>1, <1>2, TabTyped DEF FriendsInv, FriendsTypeOK, Tell
<1>4. ASSUME NEW u \in Registered, NEW f \in Registered, Mutual(u, f)'
      PROVE  {told'[<<u, f>>], told'[<<f, u>>]} # {"added"}
  <2>1. <<u, f>> \in Row /\ <<f, u>> \in Row
    BY FriendsAssumption DEF Row
  <2>2. Mutual(u, f) /\ Mutual(f, u)
    BY <1>1, <1>4 DEF Mutual
  <2>3. CASE row = <<u, f>> \/ row = <<f, u>>
    BY <1>1, <1>2, <2>1, <2>2, <2>3 DEF FriendsInv, FriendsTypeOK
  <2>4. CASE row # <<u, f>> /\ row # <<f, u>>
    BY <1>1, <1>2, <2>1, <2>2, <2>4 DEF FriendsInv, FriendsTypeOK, MutualTold
  <2>5. QED
    BY <2>3, <2>4
<1>5. QED
  BY <1>3, <1>4 DEF FriendsInv, MutualTold

LEMMA UnfriendStep ==
  ASSUME FriendsInv, NEW t \in Tabs, Unfriend(t)
  PROVE  FriendsInv'
<1>1. friends' \subseteq friends /\ UNCHANGED <<clicks, told>>
  BY DEF Unfriend
<1>2. FriendsTypeOK'
  BY <1>1, TabTyped DEF FriendsInv, FriendsTypeOK, Unfriend
<1>3. QED
  BY <1>1, <1>2 DEF FriendsInv, MutualTold, Mutual

LEMMA ListStep ==
  ASSUME FriendsInv, NEW t \in Tabs,
         ShowList(t) \/ \E r \in Row : ListRow(t, r)
  PROVE  FriendsInv'
<1>1. UNCHANGED <<friends, clicks, told>>
  BY DEF ShowList, ListRow
<1>2. tab' \in [Tabs -> {NoClick} \cup Pending \cup Listing]
  <2>1. CASE ShowList(t)
    BY <2>1, TabTyped DEF ShowList, FriendsInv
  <2>2. ASSUME NEW r \in Row, ListRow(t, r)
        PROVE  tab' \in [Tabs -> {NoClick} \cup Pending \cup Listing]
    <3>1. tab[t] \in Listing
      <4>1. tab[t] \in {NoClick} \cup Pending \cup Listing
        BY DEF FriendsInv, FriendsTypeOK
      <4>2. tab[t].step = "list"
        BY <2>2 DEF ListRow
      <4>3. QED
        BY <4>1, <4>2 DEF NoClick, Pending
    <3>2. PICK entries \in SUBSET Entry :
            tab' = [tab EXCEPT ![t].rows = @ \ {r}, ![t].listed = @ \cup entries]
      <4>1. r[2] \in Ids /\ Mutual(r[1], r[2]) \in BOOLEAN
        BY DEF Row, Mutual
      <4>2. /\ [friend |-> r[2], mutual |-> FALSE] \in Entry
            /\ [friend |-> r[2], mutual |-> Mutual(r[1], r[2])] \in Entry
        BY <4>1, Zenon DEF Entry
      <4>3. QED
        BY <2>2, <4>2, Zenon DEF ListRow
    <3> DEFINE new == [tab[t] EXCEPT !.rows = @ \ {r}, !.listed = @ \cup entries]
    <3>3. tab' = [tab EXCEPT ![t] = new]
      BY <3>2 DEF FriendsInv, FriendsTypeOK
    <3>4. new \in Listing
      BY <3>1 DEF Listing
    <3> HIDE DEF new
    <3>5. QED
      BY <3>3, <3>4, TabTyped DEF FriendsInv
  <2>3. QED
    BY <2>1, <2>2
<1>3. QED
  BY <1>1, <1>2 DEF FriendsInv, FriendsTypeOK, MutualTold, Mutual

LEMMA FriendsNextInv == FriendsInv /\ [FriendsNext]_friendVars => FriendsInv'
<1> SUFFICES ASSUME FriendsInv, [FriendsNext]_friendVars PROVE FriendsInv'
  OBVIOUS
<1>1. CASE UNCHANGED friendVars
  BY <1>1 DEF friendVars, FriendsInv, FriendsTypeOK, MutualTold, Mutual
<1>2. CASE FriendsNext
  BY <1>2, ClickAddStep, ClickListStep, AddStep, TellStep, UnfriendStep, ListStep
     DEF FriendsNext
<1>3. QED
  BY <1>1, <1>2

\* Whatever requests of any number of people interleave, two friends whose
\* additions were answered were not both told that the other has not added them.
THEOREM FriendsKnow == FriendsSpec => []MutualTold
<1>1. FriendsInv => MutualTold
  BY DEF FriendsInv
<1>2. QED
  BY <1>1, FriendsInitInv, FriendsNextInv, PTL DEF FriendsSpec

-----------------------------------------------------------------------------
(* Uploads.  What the invariant says of a request and of the files of a     *)
(* picture is said of any request w and any files f.                        *)

UploadOf == [op : {"upload"}, todo : Seq(Fields), at : Nat, alone : BOOLEAN,
             kept : BOOLEAN, left : Seq(Ext),
             step : {"remove", "open", "write", "sync"}]
ResetOf  == [op : {"reset"}, todo : {<<[picture |-> p]>> : p \in Pictures},
             at : {1}, alone : BOOLEAN, kept : BOOLEAN, left : Seq(Ext),
             step : {"remove"}]

PictureOf(w)  == w.todo[w.at].picture
PicturesOf(w) == {w.todo[i].picture : i \in DOMAIN w.todo}
KindOf(w)     == Kind[PictureOf(w)]
LeftOf(w)     == {w.left[i] : i \in DOMAIN w.left}

\* What the handler has made sure of by its step.
Ordered(w) ==
    /\ w.at \in DOMAIN w.todo
    /\ w.op = "upload" =>
         /\ \/ Len(w.todo) = 1
            \/ \A i \in DOMAIN w.todo : Kind[w.todo[i].picture] = "background"
         /\ w.step = "remove" => KindOf(w) = "banner"
         /\ w.step = "sync" => KindOf(w) = "avatar"
         /\ w.step \in {"write", "sync"} => w.todo[w.at].image \in Images
    /\ w.op = "reset" /\ KindOf(w) = "background" =>
         \/ w.left = <<Png>> /\ w.kept = FALSE
         \/ w.left = <<>>

Works(w) == w \in UploadOf \cup ResetOf /\ Ordered(w)

\* There is no file under the extensions xs.
Gone(f, xs) == \A x \in xs : f[x] = "absent"

\* A request that was alone has removed what it is through with.
Emptied(w, f) ==
    w.alone = TRUE /\ w.kept = FALSE =>
        /\ w.step = "remove" => Gone(f, Ext \ LeftOf(w))
        /\ w.step = "open" /\ KindOf(w) = "banner" => Gone(f, Ext)

\* A request that has to say something about its picture before it ends.
Owes(w) ==
    \/ w.step = "write"
    \/ w.step = "remove" /\ KindOf(w) # "background"
    \/ w.step = "remove" /\ w.left = <<>> /\ w.kept = FALSE
    \/ w.step = "open" /\ KindOf(w) = "banner"

\* Served, for the files of one picture.
ServedOf(f) ==
    LET there == {i \in DOMAIN Extensions : f[Extensions[i]] # "absent"}
    IN IF there = {} THEN "absent"
       ELSE f[Extensions[CHOOSE i \in there : \A j \in there : i <= j]]

\* What is shown is what was said, or unknown, or will be said.
Settled(p) ==
    \/ promised[p] = "unknown"
    \/ ServedOf(files[p]) = promised[p]
    \/ \E r \in InFlight : Owes(upload[r]) /\ PictureOf(upload[r]) = p

FilesTyped ==
    /\ files \in [Pictures -> [Ext -> Content]]
    /\ clientCache \in [Pictures -> Images \cup {"absent"}]
    /\ requests \in 0..MaxRequests
    /\ promised \in [Pictures -> Images \cup {"absent", "unknown"}]
    /\ DOMAIN upload = Uploaders

UploadsInv ==
    /\ FilesTyped
    /\ \A r \in Uploaders : upload[r] = NoRequest \/ Works(upload[r])
    /\ \A p \in Pictures : Kind[p] = "background" => Gone(files[p], Ext \ {Png})
    /\ \A r, q \in InFlight : r # q /\ upload[r].alone = TRUE =>
          PicturesOf(upload[r]) \cap PicturesOf(upload[q]) = {}
    /\ \A r \in InFlight : Emptied(upload[r], files[PictureOf(upload[r])])
    /\ \A p \in Pictures : Settled(p)

-----------------------------------------------------------------------------

LEMMA ExtensionsTyped ==
  /\ Extensions \in Seq(Ext) /\ Extensions # <<>> /\ Len(Extensions) \in Nat
  /\ DOMAIN Extensions = 1 .. Len(Extensions) /\ 1 \in DOMAIN Extensions
  /\ DOMAIN Extensions \subseteq Nat
  /\ Png \in Ext /\ Ext = {Extensions[i] : i \in DOMAIN Extensions}
  /\ MaxRequests \in Nat
<1>1. Extensions \in Seq(Ext) /\ Extensions # <<>> /\ MaxRequests \in Nat
  BY UploadsAssumption DEF Ext
<1>2. /\ Len(Extensions) \in Nat /\ DOMAIN Extensions = 1 .. Len(Extensions)
      /\ 1 \in DOMAIN Extensions /\ DOMAIN Extensions \subseteq Nat
  BY <1>1
<1>3. QED
  BY <1>1, <1>2 DEF Ext, Png

LEMMA ServedIs == \A p \in Pictures : Served(p) = ServedOf(files[p])
BY DEF Served, ServedOf, There, Has

\* A set of numbers that is not empty has a least element.
LEMMA LeastOf ==
  ASSUME NEW S \in SUBSET Nat, S # {}
  PROVE  \E x \in S : \A y \in S : x <= y
<1>1. IsWellFoundedOn(OpToRel(<, Nat), Nat)
  BY NatLessThanWellFounded
<1>2. PICK x \in S : \A y \in S : ~ (<<y, x>> \in OpToRel(<, Nat))
  BY <1>1, WFMin
<1>3. ASSUME NEW y \in S PROVE x <= y
  <2>1. <<y, x>> \in Nat \X Nat /\ ~ (<<y, x>> \in OpToRel(<, Nat))
    BY <1>2
  <2>2. QED
    BY <2>1 DEF OpToRel
<1>4. QED
  BY <1>3

\* The png is looked for first, and who has no file is shown nothing.
LEMMA ServedFiles ==
  ASSUME NEW f \in [Ext -> Content]
  PROVE  /\ f[Png] # "absent" => ServedOf(f) = f[Png]
         /\ Gone(f, Ext) => ServedOf(f) = "absent"
         /\ ServedOf(f) = "absent" \/ \E x \in Ext : ServedOf(f) = f[x]
<1> DEFINE there == {i \in DOMAIN Extensions : f[Extensions[i]] # "absent"}
           first == CHOOSE i \in there : \A j \in there : i <= j
<1>1. there \in SUBSET Nat /\ there \subseteq DOMAIN Extensions
  BY ExtensionsTyped
<1>2. ServedOf(f) = IF there = {} THEN "absent" ELSE f[Extensions[first]]
  BY DEF ServedOf
<1>3. there # {} => first \in there /\ \A j \in there : first <= j
  <2> HIDE DEF there
  <2>1. QED
    BY <1>1, LeastOf
<1>4. f[Png] # "absent" => ServedOf(f) = f[Png]
  <2> SUFFICES ASSUME f[Png] # "absent" PROVE ServedOf(f) = f[Png]
    OBVIOUS
  <2>1. 1 \in there
    BY ExtensionsTyped DEF Png
  <2> HIDE DEF there, first
  <2>2. first \in there /\ first <= 1
    BY <1>3, <2>1
  <2>3. first \in 1 .. Len(Extensions)
    BY <1>1, <2>2, ExtensionsTyped
  <2>4. first = 1
    BY ONLY <2>2, <2>3, ExtensionsTyped
  <2>5. QED
    BY <1>2, <2>1, <2>4 DEF Png
<1>5. Gone(f, Ext) => ServedOf(f) = "absent"
  BY <1>2, ExtensionsTyped DEF Gone
<1>6. ServedOf(f) = "absent" \/ \E x \in Ext : ServedOf(f) = f[x]
  <2>1. CASE there = {}
    BY <1>2, <2>1
  <2>2. CASE there # {}
    <3>1. first \in DOMAIN Extensions
      BY <1>1, <1>3, <2>2
    <3> HIDE DEF there, first
    <3>2. Extensions[first] \in Ext
      BY <3>1, ExtensionsTyped
    <3>3. QED
      BY <1>2, <2>2, <3>2
  <2>3. QED
    BY <2>1, <2>2
<1>7. QED
  BY <1>4, <1>5, <1>6

\* What is known of a request in flight.
LEMMA WorkShape ==
  ASSUME NEW w, Works(w)
  PROVE  /\ w.at \in DOMAIN w.todo /\ PictureOf(w) \in Pictures
         /\ PictureOf(w) \in PicturesOf(w) /\ PicturesOf(w) \subseteq Pictures
         /\ w.step \in {"remove", "open", "write", "sync"} /\ w.step # "idle"
         /\ w.alone \in BOOLEAN /\ w.kept \in BOOLEAN /\ w.left \in Seq(Ext)
         /\ w.op \in {"upload", "reset"} /\ KindOf(w) \in {"avatar", "banner", "background"}
         /\ w.op = "upload" => w \in UploadOf
         /\ w.op = "reset" => w \in ResetOf /\ w.step = "remove"
         /\ w # NoRequest
<1>1. w.at \in DOMAIN w.todo
  BY DEF Works, Ordered
<1>2. /\ w.step \in {"remove", "open", "write", "sync"} /\ w.step # "idle"
      /\ w.alone \in BOOLEAN /\ w.kept \in BOOLEAN /\ w.left \in Seq(Ext)
      /\ w.op \in {"upload", "reset"}
      /\ w.op = "upload" => w \in UploadOf
      /\ w.op = "reset" => w \in ResetOf /\ w.step = "remove"
  BY DEF Works, UploadOf, ResetOf
<1>3. \A i \in DOMAIN w.todo : w.todo[i].picture \in Pictures
  <2>1. CASE w \in UploadOf
    <3>1. w.todo \in Seq(Fields)
      BY <2>1 DEF UploadOf
    <3>2. \A i \in DOMAIN w.todo : w.todo[i] \in Fields
      BY <3>1
    <3>3. QED
      BY <3>2 DEF Fields
  <2>2. CASE w \in ResetOf
    BY <2>2 DEF ResetOf
  <2>3. QED
    BY <2>1, <2>2 DEF Works
<1>4. KindOf(w) \in {"avatar", "banner", "background"}
  BY <1>1, <1>3, UploadsAssumption DEF KindOf, PictureOf
<1>5. w # NoRequest
  BY <1>2 DEF NoRequest
<1>6. QED
  BY <1>1, <1>2, <1>3, <1>4, <1>5 DEF PictureOf, PicturesOf

LEMMA FlightShape ==
  ASSUME UploadsInv
  PROVE  /\ InFlight = {r \in Uploaders : upload[r] # NoRequest}
         /\ \A r \in InFlight : Works(upload[r])
<1>1. \A r \in Uploaders : upload[r] = NoRequest \/ Works(upload[r])
  BY DEF UploadsInv
<1>2. \A r \in Uploaders : Works(upload[r]) => upload[r].step # "idle" /\ upload[r] # NoRequest
  BY WorkShape
<1>3. \A r \in Uploaders : upload[r] = NoRequest => upload[r].step = "idle"
  BY DEF NoRequest
<1>4. QED
  BY <1>1, <1>2, <1>3 DEF InFlight

\* a request ends or goes on with what it does
Follows(new, w) ==
    \/ new = NoRequest
    \/ Works(new) /\ new.todo = w.todo /\ new.alone = w.alone

\* what is shown was said, or a request that is now new or another one says it
Answered(new, r, p) ==
    \/ promised'[p] = "unknown"
    \/ ServedOf(files'[p]) = promised'[p]
    \/ new # NoRequest /\ Owes(new) /\ PictureOf(new) = p
    \/ \E k \in InFlight \ {r} : Owes(upload[k]) /\ PictureOf(upload[k]) = p

HasEmptied(new) == new = NoRequest \/ Emptied(new, files'[PictureOf(new)])

\* The files of one picture change, and so does one request that is at it.
LEMMA StepOfOne ==
  ASSUME UploadsInv, NEW r \in InFlight, NEW new,
         upload' = [upload EXCEPT ![r] = new],
         Follows(new, upload[r]), NEW p, p = PictureOf(upload[r]),
         files' \in [Pictures -> [Ext -> Content]],
         \A q \in Pictures : q # p => files'[q] = files[q] /\ promised'[q] = promised[q],
         clientCache' \in [Pictures -> Images \cup {"absent"}],
         promised' \in [Pictures -> Images \cup {"absent", "unknown"}],
         UNCHANGED requests,
         Kind[p] = "background" => Gone(files'[p], Ext \ {Png}),
         HasEmptied(new), Answered(new, r, p)
  PROVE  UploadsInv'
<1> USE DEF Follows, HasEmptied, Answered
<1>1. /\ InFlight = {k \in Uploaders : upload[k] # NoRequest}
      /\ \A k \in InFlight : Works(upload[k])
  BY FlightShape
<1>2. /\ r \in Uploaders /\ Works(upload[r]) /\ DOMAIN upload = Uploaders
      /\ upload[r] # NoRequest
  BY <1>1 DEF UploadsInv, FilesTyped
<1>3. p \in Pictures /\ p \in PicturesOf(upload[r])
  BY <1>2, WorkShape
<1>4. /\ \A k \in Uploaders : upload'[k] = IF k = r THEN new ELSE upload[k]
      /\ DOMAIN upload' = Uploaders
  BY <1>2
<1>5. \A k \in Uploaders : upload'[k] = NoRequest \/ Works(upload'[k])
  BY <1>4 DEF UploadsInv
<1>6. InFlight' = {k \in Uploaders : upload'[k] # NoRequest}
  <2>1. \A k \in Uploaders : Works(upload'[k]) => upload'[k].step # "idle" /\ upload'[k] # NoRequest
    BY WorkShape
  <2>2. \A k \in Uploaders : upload'[k] = NoRequest => upload'[k].step = "idle"
    BY DEF NoRequest
  <2>3. QED
    BY <1>5, <2>1, <2>2 DEF InFlight
<1>7. \A k \in InFlight' : k \in InFlight
  BY <1>1, <1>2, <1>4, <1>6
<1>8. \A k \in InFlight' : /\ upload'[k].alone = upload[k].alone
                           /\ PicturesOf(upload'[k]) = PicturesOf(upload[k])
  <2>1. ASSUME NEW k \in InFlight'
        PROVE  /\ upload'[k].alone = upload[k].alone
               /\ PicturesOf(upload'[k]) = PicturesOf(upload[k])
    <3>1. CASE k # r
      BY <1>4, <1>6, <3>1
    <3>2. CASE k = r
      <4>1. upload'[k] = new /\ new # NoRequest
        BY <1>2, <1>4, <1>6, <3>2
      <4>2. QED
        BY <3>2, <4>1 DEF PicturesOf
    <3>3. QED
      BY <3>1, <3>2
  <2>2. QED
    BY <2>1
<1>9. \A k, q \in InFlight' : k # q /\ upload'[k].alone = TRUE =>
         PicturesOf(upload'[k]) \cap PicturesOf(upload'[q]) = {}
  BY <1>7, <1>8 DEF UploadsInv
<1>10. \A q \in Pictures : Kind[q] = "background" => Gone(files'[q], Ext \ {Png})
  BY <1>3 DEF UploadsInv
<1>11. ASSUME NEW k \in InFlight'
       PROVE  Emptied(upload'[k], files'[PictureOf(upload'[k])])
  <2>1. CASE k = r
    BY <1>2, <1>4, <1>6, <2>1
  <2>2. CASE k # r
    <3>1. upload'[k] = upload[k] /\ k \in InFlight
      BY <1>4, <1>6, <1>7, <2>2
    <3>2. Works(upload[k]) /\ Emptied(upload[k], files[PictureOf(upload[k])])
      BY <1>1, <3>1 DEF UploadsInv
    <3>3. CASE upload[k].alone = TRUE
      <4>1. PicturesOf(upload[k]) \cap PicturesOf(upload[r]) = {}
        BY <2>2, <3>1, <3>3 DEF UploadsInv
      <4>2. PictureOf(upload[k]) \in PicturesOf(upload[k]) /\ PictureOf(upload[k]) \in Pictures
        BY <3>2, WorkShape
      <4>3. PictureOf(upload[k]) # p
        BY <1>3, <4>1, <4>2
      <4>4. QED
        BY <3>1, <3>2, <4>2, <4>3
    <3>4. CASE upload[k].alone # TRUE
      BY <3>1, <3>4 DEF Emptied
    <3>5. QED
      BY <3>3, <3>4
  <2>3. QED
    BY <2>1, <2>2
<1>12. ASSUME NEW q \in Pictures
       PROVE  \/ promised'[q] = "unknown"
              \/ ServedOf(files'[q]) = promised'[q]
              \/ \E k \in InFlight' : Owes(upload'[k]) /\ PictureOf(upload'[k]) = q
  <2>1. CASE q = p
    <3>1. new # NoRequest => r \in InFlight' /\ upload'[r] = new
      BY <1>2, <1>4, <1>6
    <3>2. \A k \in InFlight \ {r} : k \in InFlight' /\ upload'[k] = upload[k]
      BY <1>1, <1>4, <1>6
    <3>3. QED
      BY <2>1, <3>1, <3>2
  <2>2. CASE q # p
    <3>1. promised'[q] = promised[q] /\ ServedOf(files'[q]) = ServedOf(files[q])
      BY <2>2
    <3>2. \A k \in InFlight : PictureOf(upload[k]) = q => k \in InFlight' /\ upload'[k] = upload[k]
      BY <1>1, <1>4, <1>6, <2>2
    <3>3. QED
      BY <3>1, <3>2 DEF UploadsInv, Settled
  <2>3. QED
    BY <2>1, <2>2
<1>13. FilesTyped'
  BY <1>4 DEF UploadsInv, FilesTyped
<1>14. QED
  BY <1>5, <1>9, <1>10, <1>11, <1>12, <1>13 DEF UploadsInv, Settled

\* The picture of who is alone is nobody else's; what is said of the others is
\* that nothing is known.
LEMMA Said ==
  ASSUME UploadsInv, NEW r \in InFlight, NEW what, Promise(r, what)
  PROVE  /\ \A q \in Pictures : q # PictureOf(upload[r]) => promised'[q] = promised[q]
         /\ promised'[PictureOf(upload[r])] =
               IF upload[r].alone = TRUE THEN what ELSE "unknown"
         /\ what \in Images \cup {"absent", "unknown"} =>
               promised' \in [Pictures -> Images \cup {"absent", "unknown"}]
<1>1. Works(upload[r])
  BY FlightShape
<1>2. PictureOf(upload[r]) \in Pictures /\ upload[r].alone \in BOOLEAN
  BY <1>1, WorkShape
<1>3. promised' = [promised EXCEPT ![PictureOf(upload[r])] =
                     IF upload[r].alone = TRUE THEN what ELSE "unknown"]
  BY <1>2 DEF Promise, Now, PictureOf
<1>4. promised \in [Pictures -> Images \cup {"absent", "unknown"}]
  BY DEF UploadsInv, FilesTyped
<1>5. QED
  BY <1>2, <1>3, <1>4

\* Where nothing changes, what was said holds, but for requests that owe an answer.
LEMMA StillSettled ==
  ASSUME UploadsInv, NEW r \in InFlight, ~Owes(upload[r]),
         NEW p \in Pictures, promised'[p] = promised[p], files'[p] = files[p]
  PROVE  \/ promised'[p] = "unknown"
         \/ ServedOf(files'[p]) = promised'[p]
         \/ \E k \in InFlight \ {r} : Owes(upload[k]) /\ PictureOf(upload[k]) = p
<1>1. Settled(p)
  BY DEF UploadsInv
<1>2. ServedOf(files'[p]) = ServedOf(files[p])
  OBVIOUS
<1>3. QED
  BY <1>1, <1>2 DEF Settled

LEMMA AnswerTyped ==
  ASSUME UploadsInv, NEW r \in InFlight
  PROVE  /\ Works(upload[r]) /\ r \in Uploaders /\ upload[r] # NoRequest
         /\ PictureOf(upload[r]) \in Pictures
         /\ files[PictureOf(upload[r])] \in [Ext -> Content]
         /\ Emptied(upload[r], files[PictureOf(upload[r])])
         /\ KindOf(upload[r]) = "background" => Gone(files[PictureOf(upload[r])], Ext \ {Png})
<1>1. Works(upload[r]) /\ r \in Uploaders /\ upload[r] # NoRequest
  BY FlightShape DEF InFlight
<1>2. QED
  BY <1>1, WorkShape DEF UploadsInv, FilesTyped, KindOf

\* A request that goes on with the next step, and nothing else.
LEMMA GoesOnTyped ==
  ASSUME NEW w, Works(w), w.op = "upload", NEW s \in {"open", "write", "sync"},
         s = "sync" => KindOf(w) = "avatar",
         s \in {"write", "sync"} => w.todo[w.at].image \in Images,
         NEW new, new = [w EXCEPT !.step = s]
  PROVE  /\ Works(new) /\ new.step = s /\ new # NoRequest
         /\ new.todo = w.todo /\ new.at = w.at /\ new.alone = w.alone
         /\ new.kept = w.kept /\ new.left = w.left
         /\ PictureOf(new) = PictureOf(w) /\ KindOf(new) = KindOf(w)
<1>1. w \in UploadOf /\ Ordered(w)
  BY WorkShape DEF Works
<1>2. /\ new \in UploadOf /\ new.step = s /\ new.op = w.op
      /\ new.todo = w.todo /\ new.at = w.at /\ new.alone = w.alone
      /\ new.kept = w.kept /\ new.left = w.left
  BY <1>1 DEF UploadOf
<1>3. PictureOf(new) = PictureOf(w) /\ KindOf(new) = KindOf(w)
  BY <1>2 DEF PictureOf, KindOf
<1>4. Works(new)
  BY <1>1, <1>2, <1>3 DEF Works, Ordered
<1>5. new # NoRequest
  BY <1>4, WorkShape
<1>6. QED
  BY <1>2, <1>3, <1>4, <1>5

\* A request that ends does nothing more and owes nothing more.
LEMMA Ended ==
  ASSUME NEW w
  PROVE  Follows(NoRequest, w) /\ HasEmptied(NoRequest)
BY DEF Follows, HasEmptied

\* An answer after which the files are as they were.
LEMMA AnswerSaid ==
  ASSUME UploadsInv, NEW r \in InFlight, AnswerUpload(r),
         UNCHANGED <<files, requests>>,
         clientCache' \in [Pictures -> Images \cup {"absent"}],
         \/ promised' = promised /\ ~Owes(upload[r])
         \/ \E what \in Images \cup {"absent", "unknown"} :
               /\ Promise(r, what)
               /\ upload[r].alone = TRUE /\ what # "unknown" =>
                     ServedOf(files[PictureOf(upload[r])]) = what
  PROVE  UploadsInv'
<1> DEFINE p == PictureOf(upload[r])
<1>1. /\ Works(upload[r]) /\ p \in Pictures /\ files[p] \in [Ext -> Content]
      /\ Kind[p] = "background" => Gone(files[p], Ext \ {Png})
  BY AnswerTyped DEF KindOf
<1>2. upload' = [upload EXCEPT ![r] = NoRequest]
  BY DEF AnswerUpload
<1>3. files' \in [Pictures -> [Ext -> Content]]
  BY DEF UploadsInv, FilesTyped
<1> HIDE DEF p
<1>4. CASE promised' = promised /\ ~Owes(upload[r])
  <2>1. promised' \in [Pictures -> Images \cup {"absent", "unknown"}]
    BY <1>4 DEF UploadsInv, FilesTyped
  <2>2. \/ promised'[p] = "unknown"
        \/ ServedOf(files'[p]) = promised'[p]
        \/ \E k \in InFlight \ {r} : Owes(upload[k]) /\ PictureOf(upload[k]) = p
    BY <1>1, <1>4, StillSettled
  <2>3. Answered(NoRequest, r, p)
    BY <2>2 DEF Answered
  <2>4. QED
    BY <1>1, <1>2, <1>3, <1>4, <2>1, <2>3, Ended, StepOfOne DEF p
<1>5. CASE \E what \in Images \cup {"absent", "unknown"} :
              /\ Promise(r, what)
              /\ upload[r].alone = TRUE /\ what # "unknown" => ServedOf(files[p]) = what
  <2>1. PICK what \in Images \cup {"absent", "unknown"} :
              /\ Promise(r, what)
              /\ upload[r].alone = TRUE /\ what # "unknown" => ServedOf(files[p]) = what
    BY <1>5
  <2>2. /\ \A q \in Pictures : q # p => promised'[q] = promised[q]
        /\ promised'[p] = IF upload[r].alone = TRUE THEN what ELSE "unknown"
        /\ promised' \in [Pictures -> Images \cup {"absent", "unknown"}]
    BY <2>1, Said DEF p
  <2>3. promised'[p] = "unknown" \/ ServedOf(files'[p]) = promised'[p]
    BY <2>1, <2>2
  <2>4. Answered(NoRequest, r, p)
    BY <2>3 DEF Answered
  <2>5. QED
    BY <1>1, <1>2, <1>3, <2>2, <2>4, Ended, StepOfOne DEF p
<1>6. QED
  BY <1>4, <1>5 DEF p

\* The same for a request that goes on and leaves what is shown.
LEMMA GoesOn ==
  ASSUME UploadsInv, NEW r \in InFlight, upload[r].op = "upload",
         NEW s \in {"open", "write", "sync"}, UploadGoes(r, s),
         s = "sync" => KindOf(upload[r]) = "avatar",
         s \in {"write", "sync"} => Now(r).image \in Images
  PROVE  \E new : /\ upload' = [upload EXCEPT ![r] = new]
                  /\ Works(new) /\ new.step = s /\ new # NoRequest
                  /\ new.todo = upload[r].todo /\ new.alone = upload[r].alone
                  /\ new.kept = upload[r].kept /\ new.left = upload[r].left
                  /\ PictureOf(new) = PictureOf(upload[r])
                  /\ KindOf(new) = KindOf(upload[r])
<1>1. Works(upload[r]) /\ r \in Uploaders
  BY AnswerTyped
<1>2. upload' = [upload EXCEPT ![r] = [upload[r] EXCEPT !.step = s]]
  BY <1>1 DEF UploadGoes, UploadsInv, FilesTyped
<1>3. s \in {"write", "sync"} => upload[r].todo[upload[r].at].image \in Images
  BY DEF Now
<1>4. PICK w : w = upload[r]
  OBVIOUS
<1>5. PICK new : new = [w EXCEPT !.step = s]
  OBVIOUS
<1>6. /\ Works(w) /\ w.op = "upload" /\ (s = "sync" => KindOf(w) = "avatar")
      /\ s \in {"write", "sync"} => w.todo[w.at].image \in Images
  BY <1>1, <1>3, <1>4
<1>7. /\ Works(new) /\ new.step = s /\ new # NoRequest
      /\ new.todo = w.todo /\ new.at = w.at /\ new.alone = w.alone
      /\ new.kept = w.kept /\ new.left = w.left
      /\ PictureOf(new) = PictureOf(w) /\ KindOf(new) = KindOf(w)
  BY ONLY <1>5, <1>6, s \in {"open", "write", "sync"}, GoesOnTyped
<1>8. QED
  BY <1>2, <1>4, <1>5, <1>7

\* One more extension is done, with its file removed or kept.
Shrunk(w)     == [w EXCEPT !.left = Tail(w.left)]
ShrunkKept(w) == [w EXCEPT !.left = Tail(w.left), !.kept = TRUE]

LEMMA LeftShrinks ==
  ASSUME NEW w, Works(w), w.step = "remove", w.left # <<>>, NEW new,
         new = Shrunk(w) \/ new = ShrunkKept(w)
  PROVE  /\ Works(new) /\ new # NoRequest /\ new.step = "remove"
         /\ new.todo = w.todo /\ new.alone = w.alone /\ new.left = Tail(w.left)
         /\ PictureOf(new) = PictureOf(w) /\ KindOf(new) = KindOf(w)
         /\ new = Shrunk(w) => new.kept = w.kept
         /\ new = ShrunkKept(w) => new.kept = TRUE
         /\ KindOf(w) = "background" => w.left = <<Png>> /\ w.kept = FALSE /\ new.left = <<>>
         /\ Head(w.left) \in Ext /\ LeftOf(w) \subseteq LeftOf(new) \cup {Head(w.left)}
<1>1. /\ w.left \in Seq(Ext) /\ w.kept \in BOOLEAN
      /\ w.op \in {"upload", "reset"} /\ Ordered(w)
  BY WorkShape DEF Works
<1>2. Tail(w.left) \in Seq(Ext) /\ Head(w.left) \in Ext
  BY <1>1
<1>5. /\ new \in UploadOf \cup ResetOf
      /\ new.op = w.op /\ new.todo = w.todo /\ new.at = w.at /\ new.alone = w.alone
      /\ new.step = w.step /\ new.left = Tail(w.left)
      /\ new = Shrunk(w) => new.kept = w.kept
      /\ new = ShrunkKept(w) => new.kept = TRUE
  <2>1. CASE w \in UploadOf
    BY <1>2, <2>1 DEF UploadOf, Shrunk, ShrunkKept
  <2>2. CASE w \in ResetOf
    BY <1>2, <2>2 DEF ResetOf, Shrunk, ShrunkKept
  <2>3. QED
    BY <2>1, <2>2 DEF Works
<1>6. PictureOf(new) = PictureOf(w) /\ KindOf(new) = KindOf(w)
  BY <1>5 DEF PictureOf, KindOf
<1>7. KindOf(w) = "background" => w.left = <<Png>> /\ w.kept = FALSE /\ new.left = <<>>
  <2> SUFFICES ASSUME KindOf(w) = "background"
               PROVE  w.left = <<Png>> /\ w.kept = FALSE /\ new.left = <<>>
    OBVIOUS
  <2>1. w.op = "reset"
    BY <1>1 DEF Ordered
  <2>2. w.left = <<Png>> /\ w.kept = FALSE
    BY <1>1, <2>1 DEF Ordered
  <2>3. Tail(<<Png>>) = <<>>
    OBVIOUS
  <2>4. QED
    BY <1>5, <2>2, <2>3
<1>8. Works(new)
  BY <1>1, <1>5, <1>6, <1>7 DEF Works, Ordered
<1>9. LeftOf(w) \subseteq LeftOf(new) \cup {Head(w.left)}
  <2> DEFINE s == w.left
  <2>1. s \in Seq(Ext) /\ s # <<>> /\ new.left = Tail(s)
    BY <1>1, <1>5
  <2> HIDE DEF s
  <2>2. ASSUME NEW i \in DOMAIN s, s[i] # Head(s)
        PROVE  \E j \in DOMAIN Tail(s) : Tail(s)[j] = s[i]
    <3>1. i \in 1 .. Len(s) /\ i # 1 /\ Len(s) \in Nat
      BY <2>1, <2>2
    <3>2. i - 1 \in 1 .. Len(Tail(s)) /\ Tail(s)[i - 1] = s[i]
      BY <2>1, <3>1
    <3>3. QED
      BY <2>1, <3>2
  <2>3. QED
    BY <2>1, <2>2 DEF LeftOf, s
<1>10. QED
  BY <1>2, <1>5, <1>6, <1>7, <1>8, <1>9, WorkShape

-----------------------------------------------------------------------------

\* One more extension is done: its file is removed, or it cannot be.
LEMMA RemoveFileStep ==
  ASSUME UploadsInv, NEW r \in Uploaders, RemoveFile(r)
  PROVE  UploadsInv'
<1>1. r \in InFlight /\ upload[r].step = "remove" /\ upload[r].left # <<>>
  BY DEF RemoveFile, InFlight
<1> SUFFICES ASSUME NEW w, w = upload[r], NEW p, p = PictureOf(upload[r]),
                    NEW x, x = Head(w.left)
             PROVE  UploadsInv'
  OBVIOUS
<1>2. /\ Works(w) /\ p \in Pictures /\ files[p] \in [Ext -> Content]
      /\ Emptied(w, files[p]) /\ (Kind[p] = "background" => Gone(files[p], Ext \ {Png}))
      /\ w.kept \in BOOLEAN /\ w.alone \in BOOLEAN /\ KindOf(w) = Kind[p]
      /\ w.step = "remove" /\ w.left # <<>> /\ p = PictureOf(w)
  BY <1>1, AnswerTyped, WorkShape DEF KindOf
<1>3. /\ files \in [Pictures -> [Ext -> Content]] /\ DOMAIN upload = Uploaders
      /\ clientCache \in [Pictures -> Images \cup {"absent"}]
      /\ promised \in [Pictures -> Images \cup {"absent", "unknown"}]
  BY DEF UploadsInv, FilesTyped
<1>4. UNCHANGED <<clientCache, requests, promised>>
  BY ZenonT(90) DEF RemoveFile
<1>5. \/ /\ files' = [files EXCEPT ![p][x] = "absent"]
         /\ upload' = [upload EXCEPT ![r] = Shrunk(w)]
      \/ /\ upload' = [upload EXCEPT ![r] = ShrunkKept(w)]
         /\ UNCHANGED files
  BY <1>1, <1>3 DEF RemoveFile, Now, PictureOf, Shrunk, ShrunkKept
<1>6. CASE /\ files' = [files EXCEPT ![p][x] = "absent"]
           /\ upload' = [upload EXCEPT ![r] = Shrunk(w)]
  <2>1. PICK new : new = Shrunk(w)
    OBVIOUS
  <2>4. /\ Works(new) /\ new # NoRequest /\ new.step = "remove"
        /\ new.todo = w.todo /\ new.alone = w.alone /\ new.left = Tail(w.left)
        /\ PictureOf(new) = PictureOf(w) /\ KindOf(new) = KindOf(w)
        /\ KindOf(w) = "background" => w.left = <<Png>> /\ w.kept = FALSE /\ new.left = <<>>
        /\ Head(w.left) \in Ext /\ LeftOf(w) \subseteq LeftOf(new) \cup {Head(w.left)}
        /\ new.kept = w.kept
    BY ONLY <1>2, <2>1, LeftShrinks
  <2>5. upload' = [upload EXCEPT ![r] = new]
    BY <1>6, <2>1
  <2>6. /\ files' \in [Pictures -> [Ext -> Content]]
        /\ \A q \in Pictures : q # p => files'[q] = files[q]
        /\ \A y \in Ext : files'[p][y] = IF y = x THEN "absent" ELSE files[p][y]
    BY <1>2, <1>3, <1>6, <2>4 DEF Content
  <2>7. Kind[p] = "background" => Gone(files'[p], Ext \ {Png})
    BY <1>2, <2>6 DEF Gone
  <2>8. Emptied(new, files'[PictureOf(new)])
    <3> SUFFICES ASSUME w.alone = TRUE, w.kept = FALSE, NEW y \in Ext \ LeftOf(new)
                 PROVE  files'[p][y] = "absent"
      BY <1>2, <2>4, ZenonT(90) DEF Emptied, Gone
    <3>1. y \notin LeftOf(w) \/ y = x
      BY <2>4
    <3>2. y \notin LeftOf(w) => files[p][y] = "absent"
      BY <1>2, <2>1 DEF Emptied, Gone
    <3>3. QED
      BY <2>6, <3>1, <3>2
  <2>9. Owes(new)
    BY <1>2, <2>4 DEF Owes
  <2>10.
        /\ promised' \in [Pictures -> Images \cup {"absent", "unknown"}]
        /\ clientCache' \in [Pictures -> Images \cup {"absent"}] /\ UNCHANGED requests
        /\ \A q \in Pictures : q # p => files'[q] = files[q] /\ promised'[q] = promised[q]
        /\ files' \in [Pictures -> [Ext -> Content]] /\ PictureOf(new) = p
    BY <1>2, <1>3, <1>4, <2>4, <2>6
  <2>11. /\ Works(new) /\ new.todo = upload[r].todo /\ new.alone = upload[r].alone
         /\ new # NoRequest /\ Owes(new) /\ PictureOf(new) = p
    BY <2>4, <2>9, <2>10
  <2>12. /\ r \in InFlight /\ p = PictureOf(upload[r])
         /\ new = NoRequest \/ Emptied(new, files'[PictureOf(new)])
    BY <1>1, <2>8
  <2>13. \/ promised'[p] = "unknown"
         \/ ServedOf(files'[p]) = promised'[p]
         \/ new # NoRequest /\ Owes(new) /\ PictureOf(new) = p
         \/ \E i \in InFlight \ {r} : Owes(upload[i]) /\ PictureOf(upload[i]) = p
    BY <2>11
  <2>14. QED
    <3>1. Follows(new, upload[r]) /\ HasEmptied(new) /\ Answered(new, r, p)
      BY <2>11, <2>12, <2>13 DEF Follows, HasEmptied, Answered
    <3>2. QED
      BY ONLY UploadsInv, <2>5, <2>7, <2>10, <2>12, <3>1, StepOfOne
<1>7. CASE /\ upload' = [upload EXCEPT ![r] = ShrunkKept(w)]
           /\ UNCHANGED files
  <2>1. PICK new : new = ShrunkKept(w)
    OBVIOUS
  <2>3. /\ Works(new) /\ new # NoRequest /\ new.step = "remove"
        /\ new.todo = w.todo /\ new.alone = w.alone
        /\ PictureOf(new) = PictureOf(w) /\ KindOf(new) = KindOf(w)
        /\ KindOf(w) = "background" => w.left = <<Png>>
        /\ new.kept = TRUE
    BY ONLY <1>2, <2>1, LeftShrinks
  <2>4. upload' = [upload EXCEPT ![r] = new]
    BY <1>7, <2>1
  <2>5. Emptied(new, files'[PictureOf(new)])
    BY <2>3 DEF Emptied
  <2>6. Owes(new) \/ ~Owes(w)
    BY <1>2, <2>3 DEF Owes
  <2>7. \/ promised'[p] = "unknown"
        \/ ServedOf(files'[p]) = promised'[p]
        \/ new # NoRequest /\ Owes(new) /\ PictureOf(new) = p
        \/ \E i \in InFlight \ {r} : Owes(upload[i]) /\ PictureOf(upload[i]) = p
    <3>1. CASE Owes(new)
      BY <1>2, <2>3, <3>1
    <3>2. CASE ~Owes(upload[r])
      BY <1>1, <1>2, <1>4, <1>7, <3>2, StillSettled
    <3>3. QED
      BY <2>6, <3>1, <3>2
  <2>8. /\ promised' \in [Pictures -> Images \cup {"absent", "unknown"}] /\ promised' = promised
        /\ files' = files
    BY <1>3, <1>4, <1>7
  <2>9. QED
    <3>1. Follows(new, upload[r]) /\ HasEmptied(new) /\ Answered(new, r, p)
      BY <2>3, <2>5, <2>7 DEF Follows, HasEmptied, Answered
    <3>2. QED
      BY ONLY UploadsInv, <1>1, <1>2, <1>3, <1>4, <2>4, <2>8, <3>1,
              p = PictureOf(upload[r]), w = upload[r], StepOfOne
<1>8. QED
  BY <1>5, <1>6, <1>7

LEMMA FilesRemovedStep ==
  ASSUME UploadsInv, NEW r \in Uploaders, FilesRemoved(r)
  PROVE  UploadsInv'
<1> DEFINE w == upload[r]
           p == PictureOf(w)
<1>1. r \in InFlight /\ w.step = "remove" /\ w.left = <<>>
  BY DEF FilesRemoved, InFlight
<1>2. /\ Works(w) /\ p \in Pictures /\ files[p] \in [Ext -> Content]
      /\ Emptied(w, files[p]) /\ (Kind[p] = "background" => Gone(files[p], Ext \ {Png}))
      /\ w.kept \in BOOLEAN /\ KindOf(w) = Kind[p] /\ w.op \in {"upload", "reset"}
  BY <1>1, AnswerTyped, WorkShape DEF KindOf
<1>3. /\ files \in [Pictures -> [Ext -> Content]] /\ DOMAIN upload = Uploaders
      /\ clientCache \in [Pictures -> Images \cup {"absent"}]
      /\ promised \in [Pictures -> Images \cup {"absent", "unknown"}]
  BY DEF UploadsInv, FilesTyped
<1>4. UNCHANGED <<files, requests>>
  BY DEF FilesRemoved
<1>5. w.alone = TRUE /\ w.kept = FALSE => Gone(files[p], Ext) /\ ServedOf(files[p]) = "absent"
  <2>1. LeftOf(w) = {}
    BY <1>1 DEF LeftOf
  <2>2. w.alone = TRUE /\ w.kept = FALSE => Gone(files[p], Ext)
    BY <1>1, <1>2, <2>1 DEF Emptied
  <2>3. QED
    BY <1>2, <2>2, ServedFiles
<1>6. CASE w.op = "upload"
  <2>1. UploadGoes(r, "open") /\ UNCHANGED <<clientCache, promised>>
    BY <1>6 DEF FilesRemoved
  <2>2. PICK new : /\ upload' = [upload EXCEPT ![r] = new]
                   /\ Works(new) /\ new.step = "open" /\ new # NoRequest
                   /\ new.todo = w.todo /\ new.alone = w.alone
                   /\ new.kept = w.kept /\ PictureOf(new) = p /\ KindOf(new) = KindOf(w)
    BY <1>1, <1>6, <2>1, GoesOn
  <2>3. KindOf(w) = "banner"
    BY <1>1, <1>2, <1>6 DEF Works, Ordered
  <2>4. Owes(new)
    BY <2>2, <2>3 DEF Owes
  <2>5. Emptied(new, files'[PictureOf(new)])
    BY <1>4, <1>5, <2>2 DEF Emptied
  <2>6. Follows(new, upload[r]) /\ HasEmptied(new) /\ Answered(new, r, p)
    BY <2>2, <2>4, <2>5 DEF Follows, HasEmptied, Answered
  <2> HIDE DEF w, p
  <2>7. QED
    BY <1>1, <1>2, <1>3, <1>4, <2>1, <2>2, <2>6, StepOfOne DEF w, p
<1>7. CASE w.op = "reset"
  <2>1. /\ AnswerUpload(r)
        /\ IF Kind[p] = "avatar" THEN Sync(p, "absent") ELSE UNCHANGED clientCache
        /\ IF ~w.kept THEN Promise(r, "absent")
           ELSE IF Kind[p] = "background" THEN UNCHANGED promised
           ELSE Promise(r, "unknown")
    BY <1>7 DEF FilesRemoved, Now, PictureOf
  <2>2. clientCache' \in [Pictures -> Images \cup {"absent"}]
    BY <1>2, <1>3, <2>1 DEF Sync
  <2>3. CASE w.kept = FALSE
    BY <1>1, <1>4, <1>5, <2>1, <2>2, <2>3, AnswerSaid
  <2>4. CASE w.kept = TRUE /\ Kind[p] = "background"
    <3>1. ~Owes(w)
      BY <1>1, <1>2, <2>4 DEF Owes
    <3>2. QED
      BY <1>1, <1>4, <2>1, <2>2, <2>4, <3>1, AnswerSaid
  <2>5. CASE w.kept = TRUE /\ Kind[p] # "background"
    BY <1>1, <1>4, <2>1, <2>2, <2>5, AnswerSaid
  <2>6. QED
    BY <1>2, <2>3, <2>4, <2>5
<1>8. QED
  BY <1>2, <1>6, <1>7

LEMMA OpenFileStep ==
  ASSUME UploadsInv, NEW r \in Uploaders, OpenFile(r)
  PROVE  UploadsInv'
<1> DEFINE w == upload[r]
           p == PictureOf(w)
<1>1. r \in InFlight /\ w.step = "open"
  BY DEF OpenFile, InFlight
<1>2. /\ Works(w) /\ p \in Pictures /\ files[p] \in [Ext -> Content]
      /\ Emptied(w, files[p]) /\ (Kind[p] = "background" => Gone(files[p], Ext \ {Png}))
      /\ w.kept \in BOOLEAN /\ KindOf(w) = Kind[p] /\ w.op = "upload"
  <2>1. w.op = "reset" => w.step = "remove"
    BY <1>1, AnswerTyped, WorkShape
  <2>2. QED
    BY <1>1, <2>1, AnswerTyped, WorkShape DEF KindOf
<1>3. /\ files \in [Pictures -> [Ext -> Content]] /\ DOMAIN upload = Uploaders
      /\ clientCache \in [Pictures -> Images \cup {"absent"}]
      /\ promised \in [Pictures -> Images \cup {"absent", "unknown"}]
  BY DEF UploadsInv, FilesTyped
<1>4. UNCHANGED <<clientCache, requests>>
  BY DEF OpenFile
<1>5. CASE Refused(r) /\ UNCHANGED files
  <2>1. /\ AnswerUpload(r)
        /\ IF Kind[p] # "banner" THEN UNCHANGED promised
           ELSE Promise(r, IF w.kept THEN "unknown" ELSE "absent")
    BY <1>5 DEF Refused, Now, PictureOf
  <2>2. CASE Kind[p] # "banner"
    <3>1. ~Owes(w)
      BY <1>1, <1>2, <2>2 DEF Owes
    <3>2. QED
      BY <1>1, <1>3, <1>4, <1>5, <2>1, <2>2, <3>1, AnswerSaid
  <2>3. CASE Kind[p] = "banner" /\ w.kept = TRUE
    BY <1>1, <1>3, <1>4, <1>5, <2>1, <2>3, AnswerSaid
  <2>4. CASE Kind[p] = "banner" /\ w.kept = FALSE
    <3>1. w.alone = TRUE => ServedOf(files[p]) = "absent"
      BY <1>1, <1>2, <2>4, ServedFiles DEF Emptied
    <3>2. Promise(r, "absent")
      BY <2>1, <2>4
    <3>3. QED
      BY <1>1, <1>3, <1>4, <1>5, <2>1, <3>1, <3>2, AnswerSaid
  <2>5. QED
    BY <1>2, <2>2, <2>3, <2>4
<1>6. CASE /\ Now(r).image \in Images
           /\ files' = [files EXCEPT ![p][Png] = "broken"]
           /\ UploadGoes(r, "write")
           /\ UNCHANGED promised
  <2>1. PICK new : /\ upload' = [upload EXCEPT ![r] = new]
                   /\ Works(new) /\ new.step = "write" /\ new # NoRequest
                   /\ new.todo = w.todo /\ new.alone = w.alone
                   /\ PictureOf(new) = p
    BY <1>1, <1>2, <1>6, GoesOn
  <2>2. Owes(new) /\ Emptied(new, files'[PictureOf(new)])
    BY <2>1 DEF Owes, Emptied
  <2> HIDE DEF w, p
  <2>3. /\ files' \in [Pictures -> [Ext -> Content]]
        /\ \A q \in Pictures : q # p => files'[q] = files[q]
        /\ \A y \in Ext : y # Png => files'[p][y] = files[p][y]
    BY <1>2, <1>3, <1>6, ExtensionsTyped DEF Content
  <2>4. Kind[p] = "background" => Gone(files'[p], Ext \ {Png})
    BY <1>2, <2>3 DEF Gone
  <2>5. Follows(new, upload[r]) /\ HasEmptied(new) /\ Answered(new, r, p)
    BY <2>1, <2>2 DEF Follows, HasEmptied, Answered, w
  <2>6. QED
    BY <1>1, <1>3, <1>4, <1>6, <2>1, <2>3, <2>4, <2>5, StepOfOne DEF w, p
<1>7. QED
  BY <1>5, <1>6 DEF OpenFile, Now, PictureOf
\* The next field of a form of several, which are all backgrounds.
Advanced(w) == [w EXCEPT !.at = w.at + 1, !.step = "open"]

LEMMA FieldNext ==
  ASSUME NEW w, Works(w), w.op = "upload", w.at < Len(w.todo),
         NEW new, new = Advanced(w)
  PROVE  /\ Works(new) /\ new # NoRequest /\ new.step = "open"
         /\ new.todo = w.todo /\ new.alone = w.alone /\ KindOf(new) = "background"
<1>1. w \in UploadOf /\ Ordered(w) /\ w.at \in DOMAIN w.todo
  BY WorkShape DEF Works
<1>2. w.todo \in Seq(Fields) /\ w.at \in Nat
  BY <1>1 DEF UploadOf
<1>3. w.at + 1 \in DOMAIN w.todo /\ w.at + 1 \in Nat /\ Len(w.todo) # 1
  <2> DEFINE s == w.todo
             a == w.at
  <2>1. s \in Seq(Fields) /\ a \in Nat /\ a < Len(s) /\ a \in DOMAIN s
    BY <1>1, <1>2
  <2> HIDE DEF s, a
  <2>2. a + 1 \in DOMAIN s /\ a + 1 \in Nat /\ Len(s) # 1
    BY ONLY <2>1
  <2>3. QED
    BY <2>2 DEF s, a
<1>4. PICK b : b = w.at + 1
  OBVIOUS
<1>5. /\ new \in UploadOf /\ new.op = "upload" /\ new.at = b /\ new.step = "open"
      /\ new.todo = w.todo /\ new.alone = w.alone
  BY <1>1, <1>3, <1>4 DEF UploadOf, Advanced
<1>6. \A i \in DOMAIN w.todo : Kind[w.todo[i].picture] = "background"
  BY <1>1, <1>3 DEF Ordered
<1>7. KindOf(new) = "background"
  BY <1>3, <1>4, <1>5, <1>6 DEF KindOf, PictureOf
<1>8. Works(new)
  BY <1>3, <1>4, <1>5, <1>6, <1>7 DEF Works, Ordered
<1>9. QED
  BY <1>5, <1>7, <1>8, WorkShape

\* An image that is written is what is shown, if nobody else was at its file.
LEMMA WriteFileStep ==
  ASSUME UploadsInv, NEW r \in Uploaders, WriteFile(r)
  PROVE  UploadsInv'
<1>1. r \in InFlight /\ upload[r].step = "write"
  BY DEF WriteFile, InFlight
<1> SUFFICES ASSUME NEW w, w = upload[r], NEW p, p = PictureOf(upload[r])
             PROVE  UploadsInv'
  OBVIOUS
<1>2. /\ Works(w) /\ p \in Pictures /\ files[p] \in [Ext -> Content]
      /\ (Kind[p] = "background" => Gone(files[p], Ext \ {Png}))
      /\ w.alone \in BOOLEAN /\ KindOf(w) = Kind[p] /\ w.op = "upload"
      /\ w.step = "write" /\ p = PictureOf(w)
  <2>1. w.op = "reset" => w.step = "remove"
    BY <1>1, AnswerTyped, WorkShape
  <2>2. QED
    BY <1>1, <2>1, AnswerTyped, WorkShape DEF KindOf
<1>3. /\ files \in [Pictures -> [Ext -> Content]] /\ DOMAIN upload = Uploaders
      /\ clientCache \in [Pictures -> Images \cup {"absent"}]
  BY DEF UploadsInv, FilesTyped
<1>4. PICK image : image = w.todo[w.at].image
  OBVIOUS
<1>5. image \in Images /\ image \in Content /\ image # "absent"
  BY <1>2, <1>4, UploadsAssumption, SMTT(90) DEF Works, Ordered, Content
<1>6. /\ Promise(r, image) /\ Written(r) /\ UNCHANGED <<clientCache, requests>>
      /\ Now(r).image = image /\ Now(r).picture = p
  BY <1>4 DEF WriteFile, Now, PictureOf
<1>7. PICK c : /\ files' = [files EXCEPT ![p][Png] = c]
               /\ c \in Content /\ (w.alone = TRUE => c = image)
  <2>1. PICK c \in {Now(r).image} \cup
                (IF upload[r].alone THEN {}
                 ELSE {"broken", files[Now(r).picture][Png]}) :
          files' = [files EXCEPT ![Now(r).picture][Png] = c]
    BY DEF WriteFile
  <2>2. files[p][Png] \in Content /\ "broken" \in Content
    BY <1>2, ExtensionsTyped DEF Content
  <2>3. CASE upload[r].alone = TRUE
    BY <1>2, <1>5, <1>6, <2>1, <2>3
  <2>4. CASE upload[r].alone = FALSE
    BY <1>2, <1>5, <1>6, <2>1, <2>2, <2>4
  <2>5. QED
    BY <1>2, <2>3, <2>4
<1>8. /\ files' \in [Pictures -> [Ext -> Content]] /\ files'[p] \in [Ext -> Content]
      /\ \A q \in Pictures : q # p => files'[q] = files[q]
      /\ files'[p][Png] = c
      /\ \A y \in Ext : y # Png => files'[p][y] = files[p][y]
  BY <1>2, <1>3, <1>7, ExtensionsTyped
<1>9. Kind[p] = "background" => Gone(files'[p], Ext \ {Png})
  BY <1>2, <1>8 DEF Gone
<1>10. /\ \A q \in Pictures : q # p => promised'[q] = promised[q]
       /\ promised'[p] = IF w.alone = TRUE THEN image ELSE "unknown"
       /\ promised' \in [Pictures -> Images \cup {"absent", "unknown"}]
  BY <1>1, <1>5, <1>6, Said
<1>11. promised'[p] = "unknown" \/ ServedOf(files'[p]) = promised'[p]
  <2>1. w.alone = TRUE => ServedOf(files'[p]) = image
    BY <1>5, <1>7, <1>8, ServedFiles
  <2>2. QED
    BY <1>10, <2>1
<1>12. PICK new : /\ upload' = [upload EXCEPT ![r] = new]
                  /\ \/ new = NoRequest
                     \/ Works(new) /\ new.todo = w.todo /\ new.alone = w.alone
                  /\ new = NoRequest \/ Emptied(new, files'[PictureOf(new)])
  <2>1. CASE Kind[p] = "avatar"
    <3>1. UploadGoes(r, "sync")
      BY <1>6, <2>1 DEF Written
    <3>2. PICK new : /\ upload' = [upload EXCEPT ![r] = new]
                     /\ Works(new) /\ new.step = "sync" /\ new # NoRequest
                     /\ new.todo = w.todo /\ new.alone = w.alone
      BY <1>1, <1>2, <1>5, <1>6, <2>1, <3>1, GoesOn
    <3>3. Emptied(new, files'[PictureOf(new)])
      BY <3>2 DEF Emptied
    <3>4. QED
      BY <3>2, <3>3
  <2>2. CASE Kind[p] # "avatar" /\ w.at < Len(w.todo)
    <3>1. upload' = [upload EXCEPT ![r].at = @ + 1, ![r].step = "open"]
      BY <1>6, <2>2 DEF Written
    <3>2. upload' = [upload EXCEPT ![r] = Advanced(w)]
      BY <1>1, <1>3, <3>1 DEF Advanced
    <3>3. PICK new : new = Advanced(w)
      OBVIOUS
    <3>4. /\ Works(new) /\ new # NoRequest /\ new.step = "open"
          /\ new.todo = w.todo /\ new.alone = w.alone /\ KindOf(new) = "background"
      BY ONLY <1>2, <2>2, <3>3, FieldNext
    <3>5. Emptied(new, files'[PictureOf(new)])
      BY <3>4 DEF Emptied
    <3>6. QED
      BY <3>2, <3>3, <3>4, <3>5
  <2>3. CASE Kind[p] # "avatar" /\ ~(w.at < Len(w.todo))
    <3>1. upload' = [upload EXCEPT ![r] = NoRequest]
      BY <1>6, <2>3 DEF Written, AnswerUpload
    <3>2. QED
      BY <3>1
  <2>4. QED
    BY <2>1, <2>2, <2>3
<1>13. clientCache' \in [Pictures -> Images \cup {"absent"}] /\ UNCHANGED requests
  BY <1>3, <1>6
<1>14. Follows(new, upload[r]) /\ HasEmptied(new) /\ Answered(new, r, p)
  BY <1>11, <1>12 DEF Follows, HasEmptied, Answered
<1>15. \A q \in Pictures : q # p => files'[q] = files[q] /\ promised'[q] = promised[q]
  BY <1>8, <1>10
<1>16. /\ r \in InFlight /\ files' \in [Pictures -> [Ext -> Content]]
       /\ promised' \in [Pictures -> Images \cup {"absent", "unknown"}]
       /\ upload' = [upload EXCEPT ![r] = new]
  BY <1>1, <1>8, <1>10, <1>12
<1>17. QED
  BY ONLY UploadsInv, <1>9, <1>13, <1>14, <1>15, <1>16, p = PictureOf(upload[r]), StepOfOne

LEMMA WriteFailsStep ==
  ASSUME UploadsInv, NEW r \in Uploaders, WriteFails(r)
  PROVE  UploadsInv'
<1>1. r \in InFlight /\ AnswerUpload(r) /\ Promise(r, "unknown")
  BY DEF WriteFails, InFlight
<1>2. UNCHANGED <<files, requests>> /\ clientCache' = clientCache
  BY DEF WriteFails
<1>3. clientCache' \in [Pictures -> Images \cup {"absent"}]
  BY <1>2 DEF UploadsInv, FilesTyped
<1>4. QED
  BY <1>1, <1>2, <1>3, AnswerSaid

LEMMA SyncAvatarStep ==
  ASSUME UploadsInv, NEW r \in Uploaders, SyncAvatar(r)
  PROVE  UploadsInv'
<1>1. r \in InFlight /\ AnswerUpload(r) /\ upload[r].step = "sync"
  BY DEF SyncAvatar, InFlight
<1>2. UNCHANGED <<files, requests, promised>>
  BY DEF SyncAvatar
<1>3. Works(upload[r]) /\ upload[r].op = "upload"
  <2>1. Works(upload[r])
    BY <1>1, AnswerTyped
  <2>2. QED
    BY <1>1, <2>1, WorkShape
<1>4. Now(r).image \in Images
  BY <1>1, <1>3 DEF Works, Ordered, Now
<1>5. clientCache' \in [Pictures -> Images \cup {"absent"}]
  BY <1>4 DEF SyncAvatar, Sync, UploadsInv, FilesTyped
<1>6. ~Owes(upload[r])
  BY <1>1 DEF Owes
<1>7. QED
  BY <1>1, <1>2, <1>5, <1>6, AnswerSaid

\* The process stops: what its requests were at is unknown.
LEMMA StopStep ==
  ASSUME UploadsInv, Stop
  PROVE  UploadsInv'
<1>1. /\ upload' = [r \in Uploaders |-> NoRequest]
      /\ UNCHANGED <<files, clientCache, requests>>
      /\ promised' = [p \in Pictures |->
            IF \E r \in InFlight : p \in About(r) THEN "unknown" ELSE promised[p]]
  BY DEF Stop
<1>2. \A r \in Uploaders : upload'[r] = NoRequest /\ upload'[r].step = "idle"
  BY <1>1 DEF NoRequest
<1>3. InFlight' = {}
  BY <1>2 DEF InFlight
<1>4. FilesTyped'
  BY <1>1 DEF UploadsInv, FilesTyped
<1>5. ASSUME NEW p \in Pictures PROVE Settled(p)'
  <2>1. CASE \E r \in InFlight : p \in About(r)
    BY <1>1, <2>1 DEF Settled
  <2>2. CASE ~ \E r \in InFlight : p \in About(r)
    <3>1. promised'[p] = promised[p] /\ files'[p] = files[p]
      BY <1>1, <2>2
    <3>2. \A r \in InFlight : PictureOf(upload[r]) \in About(r)
      BY AnswerTyped, WorkShape DEF About, PicturesOf
    <3>3. promised[p] = "unknown" \/ ServedOf(files[p]) = promised[p]
      BY <2>2, <3>2 DEF UploadsInv, Settled
    <3>4. QED
      BY <3>1, <3>3 DEF Settled
  <2>3. QED
    BY <2>1, <2>2
<1>6. QED
  BY <1>1, <1>2, <1>3, <1>4, <1>5 DEF UploadsInv
\* A request that is no longer alone is otherwise as it was.
NotAlone(w) == [w EXCEPT !.alone = FALSE]

LEMMA LosesAlone ==
  ASSUME NEW w, Works(w), NEW new, new = NotAlone(w)
  PROVE  /\ Works(new) /\ new # NoRequest /\ new.alone = FALSE
         /\ PictureOf(new) = PictureOf(w) /\ PicturesOf(new) = PicturesOf(w)
         /\ Owes(w) => Owes(new)
<1>1. w \in UploadOf \cup ResetOf /\ Ordered(w)
  BY DEF Works
<1>2. /\ new \in UploadOf \cup ResetOf /\ new.alone = FALSE
      /\ new.op = w.op /\ new.todo = w.todo /\ new.at = w.at
      /\ new.step = w.step /\ new.left = w.left /\ new.kept = w.kept
  <2>1. CASE w \in UploadOf
    BY <2>1 DEF UploadOf, NotAlone
  <2>2. CASE w \in ResetOf
    BY <2>2 DEF ResetOf, NotAlone
  <2>3. QED
    BY <1>1, <2>1, <2>2
<1>3. PictureOf(new) = PictureOf(w) /\ PicturesOf(new) = PicturesOf(w) /\ KindOf(new) = KindOf(w)
  BY <1>2 DEF PictureOf, PicturesOf, KindOf
<1>4. Ordered(new)
  BY <1>1, <1>2, <1>3 DEF Ordered
<1>5. Owes(w) => Owes(new)
  BY <1>2, <1>3 DEF Owes
<1>6. Works(new)
  BY <1>2, <1>4 DEF Works
<1>7. QED
  BY <1>2, <1>3, <1>5, <1>6, WorkShape

\* A request starts: it and the ones it meets are no longer alone.
LEMMA BeginStep ==
  ASSUME UploadsInv, NEW r \in Uploaders, NEW req, BeginUpload(r, req),
         Works(req), req.alone = TRUE, Emptied(req, files[PictureOf(req)])
  PROVE  UploadsInv'
<1> DEFINE mine   == PicturesOf(req)
           rivals == {q \in InFlight : PicturesOf(upload[q]) \cap mine # {}}
<1>1. /\ InFlight = {k \in Uploaders : upload[k] # NoRequest}
      /\ \A k \in InFlight : Works(upload[k])
  BY FlightShape
<1>2. r \notin InFlight
  BY DEF BeginUpload, InFlight
<1>3. /\ UNCHANGED <<files, clientCache, promised>>
      /\ requests < MaxRequests /\ requests' = requests + 1
      /\ upload' = [q \in Uploaders |->
            IF q = r THEN [req EXCEPT !.alone = rivals = {}]
            ELSE IF q \in rivals THEN [upload[q] EXCEPT !.alone = FALSE]
            ELSE upload[q]]
  BY DEF BeginUpload, About, PicturesOf
<1>4. \/ rivals = {} /\ upload'[r] = req
      \/ rivals # {} /\ upload'[r] = NotAlone(req)
  <2>1. PICK b : b = (rivals = {})
    OBVIOUS
  <2>2. upload'[r] = [req EXCEPT !.alone = b]
    BY <1>3, <2>1
  <2> HIDE DEF rivals
  <2>3. CASE rivals = {}
    <3>1. b = TRUE
      BY <2>1, <2>3
    <3>2. upload'[r] = req
      <4>1. CASE req \in UploadOf
        BY <2>2, <3>1, <4>1, ZenonT(90) DEF UploadOf
      <4>2. CASE req \in ResetOf
        BY <2>2, <3>1, <4>2, ZenonT(90) DEF ResetOf
      <4>3. QED
        BY <4>1, <4>2 DEF Works
    <3>3. QED
      BY <2>3, <3>2
  <2>4. CASE rivals # {}
    <3>1. b = FALSE
      BY <2>1, <2>4
    <3>2. QED
      BY <2>2, <2>4, <3>1 DEF NotAlone
  <2>5. QED
    BY <2>3, <2>4
<1>5. /\ \A q \in rivals : q \in InFlight /\ upload'[q] = NotAlone(upload[q])
      /\ \A q \in Uploaders \ {r} : q \notin rivals => upload'[q] = upload[q]
      /\ DOMAIN upload' = Uploaders
  BY <1>2, <1>3 DEF NotAlone, InFlight
<1>6. \A k \in InFlight \ rivals : PicturesOf(upload[k]) \cap mine = {}
  OBVIOUS
<1>7. rivals \subseteq InFlight
  OBVIOUS
<1> HIDE DEF rivals
<1>8. /\ Works(upload'[r]) /\ upload'[r] # NoRequest /\ PicturesOf(upload'[r]) = mine
      /\ PictureOf(upload'[r]) = PictureOf(req)
      /\ upload'[r].alone = TRUE => rivals = {}
      /\ Emptied(upload'[r], files[PictureOf(req)])
  <2>1. CASE rivals = {} /\ upload'[r] = req
    BY <2>1, WorkShape
  <2>2. CASE rivals # {} /\ upload'[r] = NotAlone(req)
    <3>1. PICK new : new = NotAlone(req)
      OBVIOUS
    <3>2. /\ Works(new) /\ new # NoRequest /\ new.alone = FALSE
          /\ PictureOf(new) = PictureOf(req) /\ PicturesOf(new) = PicturesOf(req)
      BY <3>1, LosesAlone
    <3>3. QED
      BY <2>2, <3>1, <3>2 DEF Emptied
  <2>3. QED
    BY <1>4, <2>1, <2>2
<1>9. ASSUME NEW k \in InFlight
      PROVE  /\ Works(upload'[k]) /\ upload'[k] # NoRequest
             /\ PictureOf(upload'[k]) = PictureOf(upload[k])
             /\ PicturesOf(upload'[k]) = PicturesOf(upload[k])
             /\ Owes(upload[k]) => Owes(upload'[k])
             /\ upload'[k].alone = TRUE => k \notin rivals /\ upload[k].alone = TRUE
             /\ Emptied(upload'[k], files[PictureOf(upload[k])])
  <2>1. Works(upload[k]) /\ Emptied(upload[k], files[PictureOf(upload[k])])
    BY <1>1 DEF UploadsInv
  <2>2. CASE k \in rivals
    <3>1. PICK new : new = NotAlone(upload[k])
      OBVIOUS
    <3>2. /\ Works(new) /\ new # NoRequest /\ new.alone = FALSE
          /\ PictureOf(new) = PictureOf(upload[k]) /\ PicturesOf(new) = PicturesOf(upload[k])
          /\ Owes(upload[k]) => Owes(new)
      BY <2>1, <3>1, LosesAlone
    <3>3. upload'[k] = new
      BY <1>5, <2>2, <3>1
    <3>4. QED
      BY <3>2, <3>3 DEF Emptied
  <2>3. CASE k \notin rivals
    <3>1. upload'[k] = upload[k]
      BY <1>1, <1>2, <1>5, <2>3
    <3>2. QED
      BY <1>1, <2>1, <2>3, <3>1
  <2>4. QED
    BY <2>2, <2>3
<1>10. \A k \in Uploaders : upload'[k] = NoRequest \/ Works(upload'[k])
  BY <1>1, <1>5, <1>7, <1>8, <1>9
<1>11. InFlight' = InFlight \cup {r}
  <2>1. \A k \in Uploaders : Works(upload'[k]) => upload'[k].step # "idle"
    BY WorkShape
  <2>2. \A k \in Uploaders : upload'[k] = NoRequest => upload'[k].step = "idle"
    BY DEF NoRequest
  <2>3. \A k \in Uploaders \ {r} : k \notin InFlight => upload'[k] = NoRequest
    BY <1>1, <1>5, <1>7
  <2>4. InFlight' = {k \in Uploaders : upload'[k].step # "idle"}
    BY DEF InFlight
  <2>5. \A k \in Uploaders : upload'[k].step # "idle" <=> k \in InFlight \/ k = r
    BY <1>8, <1>9, <2>1, <2>2, <2>3
  <2>6. QED
    BY <1>1, <2>4, <2>5
<1>12. ASSUME NEW k \in InFlight', NEW q \in InFlight', k # q, upload'[k].alone = TRUE
       PROVE  PicturesOf(upload'[k]) \cap PicturesOf(upload'[q]) = {}
  <2>1. CASE k = r
    BY <1>6, <1>8, <1>9, <1>11, <1>12, <2>1
  <2>2. CASE q = r
    BY <1>6, <1>8, <1>9, <1>11, <1>12, <2>2
  <2>3. CASE k # r /\ q # r
    <3>1. k \in InFlight /\ q \in InFlight /\ upload[k].alone = TRUE
      BY <1>9, <1>11, <1>12, <2>3
    <3>2. PicturesOf(upload[k]) \cap PicturesOf(upload[q]) = {}
      BY <1>12, <3>1 DEF UploadsInv
    <3>3. QED
      BY <1>9, <3>1, <3>2
  <2>4. QED
    BY <2>1, <2>2, <2>3
<1>13. \A k \in InFlight' : Emptied(upload'[k], files'[PictureOf(upload'[k])])
  BY <1>3, <1>8, <1>9, <1>11
<1>14. ASSUME NEW p \in Pictures PROVE Settled(p)'
  <2>1. Settled(p)
    BY DEF UploadsInv
  <2>2. promised'[p] = promised[p] /\ files'[p] = files[p]
    BY <1>3
  <2>3. \A k \in InFlight : /\ k \in InFlight' /\ PictureOf(upload'[k]) = PictureOf(upload[k])
                            /\ Owes(upload[k]) => Owes(upload'[k])
    BY <1>9, <1>11
  <2>4. QED
    BY <2>1, <2>2, <2>3 DEF Settled
<1>15. FilesTyped'
  <2>1. requests \in 0 .. MaxRequests /\ MaxRequests \in Nat
    BY ExtensionsTyped DEF UploadsInv, FilesTyped
  <2>2. requests < MaxRequests /\ requests' = requests + 1
    BY <1>3
  <2>3. requests' \in 0 .. MaxRequests
    BY ONLY <2>1, <2>2
  <2>4. QED
    BY <1>3, <1>5, <2>3 DEF UploadsInv, FilesTyped
<1>16. \A p \in Pictures : Kind[p] = "background" => Gone(files'[p], Ext \ {Png})
  BY <1>3 DEF UploadsInv
<1>17. QED
  BY <1>10, <1>12, <1>13, <1>14, <1>15, <1>16 DEF UploadsInv

\* All extensions are left, so that nothing need be gone yet.
LEMMA AllLeft ==
  ASSUME NEW w, w.left = Extensions
  PROVE  LeftOf(w) = Ext
BY DEF LeftOf, Ext

LEMMA StartUploadStep ==
  ASSUME UploadsInv, NEW r \in Uploaders, NEW form \in Seq(Fields), Len(form) \in 1 .. 2,
         StartUpload(r, form)
  PROVE  UploadsInv'
<1> DEFINE banner == Kind[form[1].picture] = "banner"
<1>1. PICK req : req = [op |-> "upload", todo |-> form, at |-> 1,
                        alone |-> TRUE, kept |-> FALSE,
                        left |-> IF banner THEN Extensions ELSE <<>>,
                        step |-> IF banner THEN "remove" ELSE "open"]
  OBVIOUS
<1>2. /\ BeginUpload(r, req)
      /\ \/ Len(form) = 1
         \/ \A i \in DOMAIN form : Kind[form[i].picture] = "background"
  BY <1>1 DEF StartUpload
<1>3. /\ req.op = "upload" /\ req.todo = form /\ req.at = 1 /\ req.alone = TRUE
      /\ req.step \in {"remove", "open"} /\ (req.step = "remove" <=> banner)
      /\ req.step = "remove" => req.left = Extensions
  BY <1>1
<1>4. 1 \in DOMAIN form
  OBVIOUS
<1>5. KindOf(req) = Kind[form[1].picture]
  BY <1>3 DEF KindOf, PictureOf
<1>6. req \in UploadOf
  BY <1>1, ExtensionsTyped DEF UploadOf
<1>7. Ordered(req)
  BY <1>2, <1>3, <1>4, <1>5 DEF Ordered
<1>8. Emptied(req, files[PictureOf(req)])
  <2>1. req.step = "remove" => Gone(files[PictureOf(req)], Ext \ LeftOf(req))
    BY <1>3, AllLeft DEF Gone
  <2>2. ~ (req.step = "open" /\ KindOf(req) = "banner")
    BY <1>3, <1>5
  <2>3. QED
    BY <2>1, <2>2 DEF Emptied
<1>9. QED
  BY <1>2, <1>3, <1>6, <1>7, <1>8, BeginStep DEF Works

LEMMA StartResetStep ==
  ASSUME UploadsInv, NEW r \in Uploaders, NEW p \in Pictures, StartReset(r, p)
  PROVE  UploadsInv'
<1> DEFINE left == IF Kind[p] = "background" THEN <<Png>> ELSE Extensions
<1>1. PICK req : req = [op |-> "reset", todo |-> <<[picture |-> p]>>, at |-> 1,
                        alone |-> TRUE, kept |-> FALSE, step |-> "remove", left |-> left]
  OBVIOUS
<1>2. BeginUpload(r, req)
  BY <1>1 DEF StartReset
<1>3. left \in Seq(Ext)
  <2>1. Png \in Ext /\ Extensions \in Seq(Ext)
    BY ExtensionsTyped
  <2>2. <<Png>> \in Seq(Ext)
    BY <2>1
  <2>3. QED
    BY <2>1, <2>2
<1> HIDE DEF left
<1>4. req \in ResetOf
  BY <1>1, <1>3 DEF ResetOf
<1>5. PictureOf(req) = p /\ KindOf(req) = Kind[p] /\ req.at \in DOMAIN req.todo
  BY <1>1 DEF PictureOf, KindOf
<1>6. Ordered(req)
  BY <1>1, <1>5 DEF Ordered, left
<1>7. Gone(files[p], Ext \ LeftOf(req))
  <2>1. CASE Kind[p] = "background"
    <3>1. Png \in LeftOf(req)
      BY <1>1, <2>1 DEF LeftOf, left
    <3>2. QED
      BY <2>1, <3>1 DEF UploadsInv, Gone
  <2>2. CASE Kind[p] # "background"
    BY <1>1, <2>2, AllLeft DEF Gone, left
  <2>3. QED
    BY <2>1, <2>2
<1>8. Emptied(req, files[PictureOf(req)])
  BY <1>1, <1>5, <1>7 DEF Emptied
<1>9. QED
  BY <1>1, <1>2, <1>4, <1>6, <1>8, BeginStep DEF Works

LEMMA UploadsInitInv == UploadsInit => UploadsInv
<1> SUFFICES ASSUME UploadsInit PROVE UploadsInv
  OBVIOUS
<1>1. InFlight = {} /\ \A r \in Uploaders : upload[r] = NoRequest
  BY DEF UploadsInit, InFlight, NoRequest
<1>2. files \in [Pictures -> [Ext -> Content]]
  BY DEF UploadsInit, Content
<1>3. promised = [p \in Pictures |-> ServedOf(files[p])]
  BY ServedIs DEF UploadsInit
<1>4. ASSUME NEW p \in Pictures PROVE ServedOf(files[p]) \in Images \cup {"absent"}
  <2>1. files[p] \in [Ext -> Images \cup {"absent"}] /\ files[p] \in [Ext -> Content]
    BY <1>2 DEF UploadsInit
  <2>2. QED
    BY <2>1, ServedFiles
<1>5. FilesTyped
  <2>1. MaxRequests \in Nat /\ requests = 0
    BY ExtensionsTyped DEF UploadsInit
  <2>2. requests \in 0 .. MaxRequests
    BY ONLY <2>1
  <2>3. promised \in [Pictures -> Images \cup {"absent", "unknown"}]
    BY <1>3, <1>4
  <2>4. QED
    BY <1>2, <2>2, <2>3 DEF FilesTyped, UploadsInit
<1>6. \A p \in Pictures : Kind[p] = "background" => Gone(files[p], Ext \ {Png})
  BY <1>2 DEF UploadsInit, Gone, Has
<1>7. QED
  BY <1>1, <1>3, <1>5, <1>6 DEF UploadsInv, Settled

LEMMA UploadsNextInv == UploadsInv /\ [UploadsNext]_uploadVars => UploadsInv'
<1> SUFFICES ASSUME UploadsInv, [UploadsNext]_uploadVars PROVE UploadsInv'
  OBVIOUS
<1>1. ASSUME NEW r \in Uploaders, NEW f \in Fields, StartUpload(r, <<f>>) PROVE UploadsInv'
  <2>1. PICK form : form = <<f>>
    OBVIOUS
  <2>2. form \in Seq(Fields) /\ Len(form) \in 1 .. 2
    BY <2>1
  <2>3. StartUpload(r, form)
    BY <1>1, <2>1
  <2>4. QED
    BY <2>2, <2>3, StartUploadStep
<1>2. ASSUME NEW r \in Uploaders, NEW f \in Fields, NEW g \in Fields, StartUpload(r, <<f, g>>)
      PROVE  UploadsInv'
  <2>1. PICK form : form = <<f, g>>
    OBVIOUS
  <2>2. form \in Seq(Fields) /\ Len(form) \in 1 .. 2
    BY <2>1
  <2>3. StartUpload(r, form)
    BY <1>2, <2>1
  <2>4. QED
    BY <2>2, <2>3, StartUploadStep
<1>3. ASSUME NEW r \in Uploaders, NEW p \in Pictures, StartReset(r, p) PROVE UploadsInv'
  BY <1>3, StartResetStep
<1>4. ASSUME NEW r \in Uploaders,
             RemoveFile(r) \/ FilesRemoved(r) \/ OpenFile(r) \/ WriteFile(r)
             \/ WriteFails(r) \/ SyncAvatar(r)
      PROVE  UploadsInv'
  BY <1>4, RemoveFileStep, FilesRemovedStep, OpenFileStep, WriteFileStep, WriteFailsStep,
     SyncAvatarStep
<1>5. CASE Stop
  BY <1>5, StopStep
<1>6. CASE UNCHANGED uploadVars
  <2>1. /\ files' = files /\ clientCache' = clientCache /\ upload' = upload
        /\ requests' = requests /\ promised' = promised
    BY <1>6 DEF uploadVars
  <2>2. InFlight' = InFlight
    BY <2>1 DEF InFlight
  <2>3. FilesTyped'
    BY <2>1 DEF UploadsInv, FilesTyped
  <2>4. \A p \in Pictures : Settled(p)'
    BY <2>1, <2>2 DEF UploadsInv, Settled
  <2>5. QED
    BY <2>1, <2>2, <2>3, <2>4 DEF UploadsInv
<1>7. QED
  BY <1>1, <1>2, <1>3, <1>4, <1>5, <1>6 DEF UploadsNext

LEMMA UploadsSafe == UploadsInv => UploadShown /\ UploadsTypeOK
<1> SUFFICES ASSUME UploadsInv PROVE UploadShown /\ UploadsTypeOK
  OBVIOUS
<1>1. \A r \in InFlight : /\ PictureOf(upload[r]) \in About(r)
                          /\ upload[r].step \in {"remove", "open", "write", "sync"}
                          /\ upload[r].at \in DOMAIN upload[r].todo
  BY AnswerTyped, WorkShape DEF About, PicturesOf
<1>2. UploadsTypeOK
  BY <1>1 DEF UploadsInv, FilesTyped, UploadsTypeOK
<1>3. UploadShown
  BY <1>1, ServedIs DEF UploadsInv, Settled, UploadShown
<1>4. QED
  BY <1>2, <1>3

\* Whatever requests interleave, once nobody is at a picture what is shown is
\* what the last answer said, unless requests overlapped, a write or a removal
\* failed or the process stopped.
THEOREM WhatWasSaidIsShown == UploadsSpec => []UploadShown
<1>1. UploadsSpec => []UploadsInv
  BY UploadsInitInv, UploadsNextInv, PTL DEF UploadsSpec
<1>2. QED
  BY <1>1, UploadsSafe, PTL

-----------------------------------------------------------------------------
(* Beatmaps *)

BeatmapsInv == BeatmapsTypeOK

LEMMA MergedTyped ==
  ASSUME NEW old \in Meta \cup {NoRow}, NEW new \in Meta
  PROVE  Merged(old, new) \in Meta
<1>1. CASE old = NoRow
  BY <1>1 DEF Merged
<1>2. CASE old # NoRow
  <2> DEFINE t == new.titled \/ old.titled
             i == IF new.id > 0 THEN new.id ELSE old.id
  <2>1. i \in Nat /\ t \in BOOLEAN
    BY <1>2 DEF Meta
  <2>2. Merged(old, new) = [id |-> i, titled |-> t]
    BY <1>2 DEF Merged
  <2> HIDE DEF t, i
  <2>3. QED
    BY <2>1, <2>2 DEF Meta
<1>3. QED
  BY <1>1, <1>2

\* What names the map or nothing takes nothing from a row with a title.
LEMMA MergedSame ==
  ASSUME NEW old \in Meta, old # NoRow, old.titled = TRUE,
         NEW new \in Meta, new.id \in {0, old.id}
  PROVE  Merged(old, new) = old
<1> DEFINE t == new.titled \/ old.titled
           i == IF new.id > 0 THEN new.id ELSE old.id
<1>1. old.id \in Nat /\ old = [id |-> old.id, titled |-> old.titled]
  BY DEF Meta
<1>2. i = old.id
  BY <1>1
<1>3. t = TRUE
  OBVIOUS
<1>4. Merged(old, new) = [id |-> i, titled |-> t]
  BY DEF Merged
<1> HIDE DEF t, i
<1>5. QED
  BY <1>1, <1>2, <1>3, <1>4

LEMMA AskTyped ==
  ASSUME BeatmapsInv, NEW r \in Askers, ask[r].step # "idle"
  PROVE  /\ ask[r] \in [step : {"look", "history", "reread", "mirror", "save", "answer"},
                        map : Maps, file : Files, meta : Meta]
         /\ ask[r].map \in Maps /\ ask[r].meta \in Meta
<1>1. ask[r] \in Question
  BY DEF BeatmapsInv, BeatmapsTypeOK
<1>2. ask[r] # NotAsking
  BY DEF NotAsking
<1>3. QED
  BY <1>1, <1>2 DEF Question

\* A row is saved, or it is not.
LEMMA SaveStep ==
  ASSUME BeatmapsInv, NEW m \in Maps, NEW meta \in Meta, SaveMap(m, meta)
  PROVE  /\ known' \in [Maps -> Meta \cup {NoRow}]
         /\ \A q \in Maps : q # m => known'[q] = known[q]
         /\ RowFound(m) /\ meta.id \in {0, IdOf[m]} => known'[m] = known[m]
<1>1. known \in [Maps -> Meta \cup {NoRow}]
  BY DEF BeatmapsInv, BeatmapsTypeOK
<1>2. CASE UNCHANGED known
  BY <1>1, <1>2
<1>3. CASE known' = [known EXCEPT ![m] = Merged(known[m], meta)]
  <2>1. Merged(known[m], meta) \in Meta
    BY <1>1, MergedTyped
  <2>2. RowFound(m) /\ meta.id \in {0, IdOf[m]} => Merged(known[m], meta) = known[m]
    <3> SUFFICES ASSUME RowFound(m), meta.id \in {0, IdOf[m]}
                 PROVE  Merged(known[m], meta) = known[m]
      OBVIOUS
    <3>1. known[m] \in Meta /\ known[m] # NoRow /\ known[m].id = IdOf[m]
      BY <1>1 DEF RowFound
    <3>2. known[m].titled = TRUE
      BY <3>1 DEF RowFound, Meta
    <3>3. QED
      BY <3>1, <3>2, MergedSame
  <2>3. QED
    BY <1>1, <1>3, <2>1, <2>2
<1>4. QED
  BY <1>2, <1>3 DEF SaveMap

\* A request that goes on to step s, and what it has resolved then.
Onward(w, s, meta) == [w EXCEPT !.step = s, !.meta = meta]

Steps == {"look", "history", "reread", "mirror", "save", "answer"}

LEMMA OnwardTyped ==
  ASSUME BeatmapsInv, NEW r \in Askers, ask[r].step # "idle", NEW s \in Steps,
         NEW meta \in Meta
  PROVE  /\ Onward(ask[r], s, meta) \in Question
         /\ Onward(ask[r], s, meta).step = s
         /\ Onward(ask[r], s, meta).map = ask[r].map
         /\ Onward(ask[r], s, meta).meta = meta
<1>1. ask[r] \in [step : Steps, map : Maps, file : Files, meta : Meta]
  BY AskTyped DEF Steps
<1>2. QED
  BY <1>1 DEF Onward, Question, Steps

\* A request that goes on keeps what it has resolved, or resolves something.
LEMMA GoesOnward ==
  ASSUME BeatmapsInv, NEW r \in Askers, ask[r].step # "idle", NEW s \in Steps
  PROVE  /\ AskGoes(r, s) => ask' = [ask EXCEPT ![r] = Onward(ask[r], s, ask[r].meta)]
         /\ \A meta : Resolved(r, s, meta) => ask' = [ask EXCEPT ![r] = Onward(ask[r], s, meta)]
<1>1. ask[r] \in [step : Steps, map : Maps, file : Files, meta : Meta]
  BY AskTyped DEF Steps
<1>2. [ask[r] EXCEPT !.step = s] = [ask[r] EXCEPT !.step = s, !.meta = ask[r].meta]
  BY <1>1
<1>3. QED
  BY <1>2 DEF AskGoes, Resolved, Onward

\* What a step of one request about m must leave for a found map to stay found.
LEMMA StepFound ==
  ASSUME BeatmapsInv, NEW r \in Askers, NEW m \in Maps, NEW w, ask' = [ask EXCEPT ![r] = w],
         w.step = "idle" \/ w.map = m,
         \A q \in Maps : q # m => known'[q] = known[q],
         Found(m) => RowFound(m)' /\ Harmless(w, m)
  PROVE  \A q \in Maps : Found(q) => Found(q)'
<1> SUFFICES ASSUME NEW q \in Maps, Found(q) PROVE Found(q)'
  OBVIOUS
<1>1. RowFound(q)'
  BY DEF Found, RowFound
<1>2. Harmless(w, q)
  BY DEF Harmless
<1>3. \A x \in Askers : ask'[x] = w \/ ask'[x] = ask[x]
  BY DEF BeatmapsInv, BeatmapsTypeOK
<1>4. ASSUME NEW x \in Askers PROVE Harmless(ask'[x], q)
  BY <1>2, <1>3 DEF Found
<1>5. \A x \in Askers : Harmless(ask[x], q)'
  BY <1>4 DEF Harmless
<1>6. QED
  BY <1>1, <1>5 DEF Found

LEMMA OnlyAsk ==
  ASSUME BeatmapsInv, NEW r \in Askers, NEW w \in Question, ask' = [ask EXCEPT ![r] = w],
         known' \in [Maps -> Meta \cup {NoRow}], UNCHANGED <<played, asked>>
  PROVE  BeatmapsInv'
BY DEF BeatmapsInv, BeatmapsTypeOK

LEMMA RowTyped ==
  ASSUME BeatmapsInv, NEW m \in Maps
  PROVE  /\ known[m] # NoRow => known[m] \in Meta
         /\ played[m] # NoRow => played[m] \in Meta
BY DEF BeatmapsInv, BeatmapsTypeOK

LEMMA AskStep ==
  ASSUME BeatmapsInv, NEW r \in Askers, NEW m \in Maps, NEW f \in Files, Ask(r, m, f)
  PROVE  BeatmapsInv' /\ \A q \in Maps : Found(q) => Found(q)'
<1> DEFINE w == [step |-> "look", map |-> m, file |-> f, meta |-> NoMeta]
<1>1. w \in Question /\ w.map = m /\ Harmless(w, m)
  BY DEF Question, NoMeta, Meta, Harmless
<1>2. ask' = [ask EXCEPT ![r] = w] /\ UNCHANGED <<known, played>>
  BY DEF Ask
<1> HIDE DEF w
<1>3. asked' \in 0 .. MaxAsked
  <2>1. asked \in 0 .. MaxAsked /\ MaxAsked \in Nat
    BY BeatmapsAssumption DEF BeatmapsInv, BeatmapsTypeOK
  <2>2. asked < MaxAsked /\ asked' = asked + 1
    BY DEF Ask
  <2>3. QED
    BY ONLY <2>1, <2>2
<1>4. BeatmapsInv'
  BY <1>1, <1>2, <1>3 DEF BeatmapsInv, BeatmapsTypeOK
<1>5. (Found(m) => RowFound(m)') /\ \A q \in Maps : q # m => known'[q] = known[q]
  BY <1>2 DEF Found, RowFound
<1>6. QED
  BY <1>1, <1>2, <1>4, <1>5, StepFound

\* The steps that resolve a map without saving it.  While the map is found, nobody about
\* it but a look is among them.
LEMMA ReadStep ==
  ASSUME BeatmapsInv, NEW r \in Askers, Look(r) \/ Reread(r) \/ AskMirror(r)
  PROVE  BeatmapsInv' /\ \A q \in Maps : Found(q) => Found(q)'
<1>1. /\ ask[r].step \in {"look", "reread", "mirror"} /\ ask[r].step # "idle"
      /\ UNCHANGED <<known, played, asked>>
  BY DEF Look, Reread, AskMirror
<1>2. PICK m \in Maps : m = ask[r].map
  BY <1>1, AskTyped
<1>3. \E s \in Steps, meta \in Meta :
         /\ ask' = [ask EXCEPT ![r] = Onward(ask[r], s, meta)]
         /\ Found(m) => s = "answer" /\ meta.id = IdOf[m]
  <2>0. ask[r].meta \in Meta /\ (known[m] # NoRow => known[m] \in Meta)
    BY <1>1, <1>2, AskTyped, RowTyped
  <2>1. CASE Look(r)
    <3>1. CASE known[m] # NoRow /\ known[m].titled /\ Resolved(r, "answer", known[m])
      <4>1. "answer" \in Steps
        BY DEF Steps
      <4>2. ask' = [ask EXCEPT ![r] = Onward(ask[r], "answer", known[m])]
        BY <1>1, <3>1, <4>1, GoesOnward
      <4>3. QED
        BY <2>0, <3>1, <4>1, <4>2 DEF Found, RowFound
    <3>2. CASE ~(known[m] # NoRow /\ known[m].titled) /\ AskGoes(r, "history")
      <4>1. "history" \in Steps
        BY DEF Steps
      <4>2. ask' = [ask EXCEPT ![r] = Onward(ask[r], "history", ask[r].meta)]
        BY <1>1, <3>2, <4>1, GoesOnward
      <4>3. ~Found(m)
        BY <3>2 DEF Found, RowFound
      <4>4. QED
        BY <2>0, <4>1, <4>2, <4>3
    <3>3. QED
      BY <1>2, <2>1, <3>1, <3>2 DEF Look
  <2>2. CASE Reread(r) \/ AskMirror(r)
    <3>1. ~Found(m)
      <4>1. ask[r].step \in {"reread", "mirror"}
        BY <2>2 DEF Reread, AskMirror
      <4>2. ~Harmless(ask[r], m)
        BY <1>2, <4>1 DEF Harmless
      <4>3. QED
        BY <4>2 DEF Found
    <3>2. \A id \in {0, IdOf[m]}, t \in BOOLEAN : [id |-> id, titled |-> t] \in Meta
      BY BeatmapsAssumption DEF Meta
    <3>3. \E s \in Steps : AskGoes(r, s) \/ \E meta \in Meta : Resolved(r, s, meta)
      <4>1. CASE Reread(r)
        BY <1>2, <2>0, <4>1 DEF Reread, Steps
      <4>2. CASE AskMirror(r)
        BY <1>2, <3>2, <4>2 DEF AskMirror, Steps
      <4>3. QED
        BY <2>2, <4>1, <4>2
    <3>4. QED
      BY <1>1, <2>0, <3>1, <3>3, GoesOnward
  <2>3. QED
    BY <2>1, <2>2
<1>4. PICK s \in Steps, meta \in Meta :
         /\ ask' = [ask EXCEPT ![r] = Onward(ask[r], s, meta)]
         /\ Found(m) => s = "answer" /\ meta.id = IdOf[m]
  BY <1>3
<1>5. /\ Onward(ask[r], s, meta) \in Question /\ Onward(ask[r], s, meta).map = m
      /\ Onward(ask[r], s, meta).step = s /\ Onward(ask[r], s, meta).meta = meta
  BY <1>1, <1>2, OnwardTyped
<1>6. Found(m) => RowFound(m)' /\ Harmless(Onward(ask[r], s, meta), m)
  BY <1>1, <1>4, <1>5 DEF Found, RowFound, Harmless
<1>7. known' \in [Maps -> Meta \cup {NoRow}]
  BY <1>1 DEF BeatmapsInv, BeatmapsTypeOK
<1>8. \A q \in Maps : q # m => known'[q] = known[q]
  BY <1>1
<1>9. QED
  BY <1>1, <1>4, <1>5, <1>6, <1>7, <1>8, OnlyAsk, StepFound

\* A failed look leaves the other maps as they are.
LEMMA LookFailsStep ==
  ASSUME BeatmapsInv, NEW r \in Askers, LookFails(r)
  PROVE  BeatmapsInv' /\ \A q \in Maps : Found(q) => Found(q)' \/ ask[r].map = q
<1>1. ask[r].step # "idle" /\ UNCHANGED <<known, played, asked>> /\ AskGoes(r, "history")
  BY DEF LookFails
<1>2. PICK m \in Maps : m = ask[r].map
  BY <1>1, AskTyped
<1> DEFINE w == Onward(ask[r], "history", ask[r].meta)
<1>3. "history" \in Steps /\ ask[r].meta \in Meta
  BY <1>1, AskTyped DEF Steps
<1>4. w \in Question /\ w.map = m /\ ask' = [ask EXCEPT ![r] = w]
  BY <1>1, <1>2, <1>3, OnwardTyped, GoesOnward
<1> HIDE DEF w
<1>5. BeatmapsInv'
  <2>1. known' \in [Maps -> Meta \cup {NoRow}]
    BY <1>1 DEF BeatmapsInv, BeatmapsTypeOK
  <2>2. QED
    BY <1>1, <1>4, <2>1, OnlyAsk
<1>6. ASSUME NEW q \in Maps, Found(q), q # m PROVE Found(q)'
  <2>1. RowFound(q)'
    BY <1>1, <1>6 DEF Found, RowFound
  <2>2. \A x \in Askers : ask'[x] = w \/ ask'[x] = ask[x]
    BY <1>4 DEF BeatmapsInv, BeatmapsTypeOK
  <2>3. Harmless(w, q)
    BY <1>4, <1>6 DEF Harmless
  <2>4. \A x \in Askers : Harmless(ask'[x], q)
    BY <1>6, <2>2, <2>3 DEF Found
  <2>5. \A x \in Askers : Harmless(ask[x], q)'
    BY <2>4 DEF Harmless
  <2>6. QED
    BY <2>1, <2>5 DEF Found
<1>7. QED
  BY <1>2, <1>5, <1>6

\* A request about a found map has looked at its row: it does not ask the history.
LEMMA HistoryStep ==
  ASSUME BeatmapsInv, NEW r \in Askers, AskHistory(r)
  PROVE  BeatmapsInv' /\ \A q \in Maps : Found(q) => Found(q)'
<1>1. ask[r].step = "history" /\ ask[r].step # "idle" /\ UNCHANGED <<played, asked>>
  BY DEF AskHistory
<1>2. PICK m \in Maps : m = ask[r].map
  BY <1>1, AskTyped
<1>3. ~Found(m)
  <2>1. ~Harmless(ask[r], m)
    BY <1>1, <1>2 DEF Harmless
  <2>2. QED
    BY <2>1 DEF Found
<1>4. PICK s \in Steps : AskGoes(r, s)
  BY DEF AskHistory, Steps
<1>5. /\ known' \in [Maps -> Meta \cup {NoRow}]
      /\ \A q \in Maps : q # m => known'[q] = known[q]
  <2>1. CASE UNCHANGED known
    BY <2>1 DEF BeatmapsInv, BeatmapsTypeOK
  <2>2. CASE played[m] # NoRow /\ SaveMap(m, played[m])
    BY <2>2, RowTyped, SaveStep
  <2>3. QED
    BY <1>2, <2>1, <2>2 DEF AskHistory
<1> DEFINE w == Onward(ask[r], s, ask[r].meta)
<1>6. w \in Question /\ w.map = m /\ ask' = [ask EXCEPT ![r] = w]
  BY <1>1, <1>2, <1>4, AskTyped, OnwardTyped, GoesOnward
<1> HIDE DEF w
<1>7. QED
  BY <1>1, <1>3, <1>5, <1>6, OnlyAsk, StepFound

\* Nobody saves for a found map what does not know its id.
LEMMA SaveMirroredStep ==
  ASSUME BeatmapsInv, NEW r \in Askers, SaveMirrored(r)
  PROVE  BeatmapsInv' /\ \A q \in Maps : Found(q) => Found(q)'
<1>1. /\ ask[r].step = "save" /\ ask[r].step # "idle"
      /\ UNCHANGED <<played, asked>> /\ AskGoes(r, "answer")
  BY DEF SaveMirrored
<1>2. PICK m \in Maps : m = ask[r].map
  BY <1>1, AskTyped
<1>3. SaveMap(m, ask[r].meta) /\ ask[r].meta \in Meta
  BY <1>1, <1>2, AskTyped DEF SaveMirrored
<1>4. Found(m) => RowFound(m) /\ ask[r].meta.id = IdOf[m]
  <2>1. Found(m) => RowFound(m) /\ Harmless(ask[r], m)
    BY DEF Found
  <2>2. QED
    BY <1>1, <1>2, <2>1 DEF Harmless
<1>5. /\ known' \in [Maps -> Meta \cup {NoRow}]
      /\ \A q \in Maps : q # m => known'[q] = known[q]
      /\ Found(m) => known'[m] = known[m]
  BY <1>3, <1>4, SaveStep
<1> DEFINE w == Onward(ask[r], "answer", ask[r].meta)
<1>6. /\ w \in Question /\ w.map = m /\ w.step = "answer" /\ w.meta = ask[r].meta
      /\ ask' = [ask EXCEPT ![r] = w]
  <2>1. "answer" \in Steps
    BY DEF Steps
  <2>2. QED
    BY <1>1, <1>2, <1>3, <2>1, OnwardTyped, GoesOnward
<1> HIDE DEF w
<1>7. Found(m) => RowFound(m)' /\ Harmless(w, m)
  BY <1>4, <1>5, <1>6 DEF RowFound, Harmless
<1>8. QED
  BY <1>1, <1>5, <1>6, <1>7, OnlyAsk, StepFound

\* An answer that names the map's own id is what get_scores keeps.
LEMMA AnswerScoresStep ==
  ASSUME BeatmapsInv, NEW r \in Askers, AnswerScores(r)
  PROVE  BeatmapsInv' /\ \A q \in Maps : Found(q) => Found(q)'
<1>1. /\ ask[r].step = "answer" /\ ask[r].step # "idle"
      /\ UNCHANGED <<played, asked>> /\ ask' = [ask EXCEPT ![r] = NotAsking]
  BY DEF AnswerScores
<1>2. PICK m \in Maps : m = ask[r].map
  BY <1>1, AskTyped
<1>3. NotAsking \in Question /\ NotAsking.step = "idle" /\ Harmless(NotAsking, m)
  BY DEF NotAsking, Question, Harmless
<1>4. ask[r].meta \in Meta
  BY <1>1, AskTyped
<1>5. AnswerId(ask[r].meta) \in Nat
  BY <1>4 DEF AnswerId, Placeholder, Meta
<1>6. Found(m) => RowFound(m) /\ AnswerId(ask[r].meta) = IdOf[m]
  <2>1. Found(m) => RowFound(m) /\ Harmless(ask[r], m)
    BY DEF Found
  <2>2. Found(m) => RowFound(m) /\ ask[r].meta.id = IdOf[m]
    BY <1>1, <1>2, <2>1 DEF Harmless
  <2>3. IdOf[m] \in Nat /\ IdOf[m] > 1
    BY BeatmapsAssumption DEF Placeholder
  <2>4. QED
    BY <2>2, <2>3 DEF AnswerId
<1>7. /\ known' \in [Maps -> Meta \cup {NoRow}]
      /\ \A q \in Maps : q # m => known'[q] = known[q]
      /\ Found(m) => known'[m] = known[m]
  <2>1. CASE UNCHANGED known
    BY <2>1 DEF BeatmapsInv, BeatmapsTypeOK
  <2>2. CASE SaveMap(m, [id |-> AnswerId(ask[r].meta), titled |-> ask[r].file = "titled"])
    <3> DEFINE t    == ask[r].file = "titled"
               meta == [id |-> AnswerId(ask[r].meta), titled |-> t]
    <3>1. t \in BOOLEAN
      OBVIOUS
    <3>2. SaveMap(m, meta)
      BY <2>2
    <3> HIDE DEF t
    <3>3. meta \in Meta /\ meta.id = AnswerId(ask[r].meta)
      BY <1>5, <3>1 DEF Meta
    <3> HIDE DEF meta
    <3>4. QED
      BY <1>6, <3>2, <3>3, SaveStep
  <2>3. QED
    BY <1>2, <2>1, <2>2 DEF AnswerScores
<1>8. Found(m) => RowFound(m)'
  BY <1>6, <1>7 DEF RowFound
<1>9. QED
  BY <1>1, <1>3, <1>7, <1>8, OnlyAsk, StepFound

LEMMA PlayStep ==
  ASSUME BeatmapsInv, NEW m \in Maps, NEW id \in {0, IdOf[m]}, Play(m, id)
  PROVE  BeatmapsInv' /\ UNCHANGED <<known, ask>>
<1>1. /\ played' = [played EXCEPT ![m] = [id |-> id, titled |-> TRUE]]
      /\ UNCHANGED <<known, ask, asked>>
  BY DEF Play
<1>2. [id |-> id, titled |-> TRUE] \in Meta
  BY BeatmapsAssumption DEF Meta
<1>3. QED
  BY <1>1, <1>2 DEF BeatmapsInv, BeatmapsTypeOK

LEMMA BeatmapsInitInv == BeatmapsInit => BeatmapsInv
BY BeatmapsAssumption DEF BeatmapsInit, BeatmapsInv, BeatmapsTypeOK, Question

\* A map that is found stays so, unless a look at its row fails.
Stays == \A m \in Maps : Found(m) => \/ Found(m)'
                                     \/ \E r \in Askers : LookFails(r) /\ ask[r].map = m

LEMMA BeatmapsNextStays ==
  BeatmapsInv /\ [BeatmapsNext]_beatmapVars => BeatmapsInv' /\ Stays
<1> SUFFICES ASSUME BeatmapsInv, [BeatmapsNext]_beatmapVars
             PROVE  BeatmapsInv' /\ Stays
  OBVIOUS
<1>1. ASSUME NEW r \in Askers, NEW m \in Maps, NEW f \in Files, Ask(r, m, f)
      PROVE  BeatmapsInv' /\ Stays
  BY <1>1, AskStep DEF Stays
<1>2. ASSUME NEW r \in Askers, Look(r) \/ Reread(r) \/ AskMirror(r)
      PROVE  BeatmapsInv' /\ Stays
  BY <1>2, ReadStep DEF Stays
<1>3. ASSUME NEW r \in Askers, AskHistory(r) \/ SaveMirrored(r) \/ AnswerScores(r)
      PROVE  BeatmapsInv' /\ Stays
  BY <1>3, HistoryStep, SaveMirroredStep, AnswerScoresStep DEF Stays
<1>4. ASSUME NEW r \in Askers, LookFails(r)
      PROVE  BeatmapsInv' /\ Stays
  BY <1>4, LookFailsStep DEF Stays
<1>5. ASSUME UNCHANGED <<known, ask>> PROVE Stays
  BY <1>5 DEF Stays, Found, RowFound, Harmless
<1>6. ASSUME NEW m \in Maps, NEW id \in {0, IdOf[m]}, Play(m, id)
      PROVE  BeatmapsInv' /\ Stays
  BY <1>5, <1>6, PlayStep
<1>7. CASE UNCHANGED beatmapVars
  <2>1. BeatmapsInv' /\ UNCHANGED <<known, ask>>
    BY <1>7 DEF beatmapVars, BeatmapsInv, BeatmapsTypeOK
  <2>2. QED
    BY <1>5, <2>1
<1>8. QED
  BY <1>1, <1>2, <1>3, <1>4, <1>6, <1>7 DEF BeatmapsNext

LEMMA BeatmapsNextInv == BeatmapsInv /\ [BeatmapsNext]_beatmapVars => BeatmapsInv'
BY BeatmapsNextStays

\* A map that was found, with no older request for it that does not know its id, stays
\* found whoever asks for it, for any number of maps and requests, unless a look at its
\* row fails.
THEOREM FoundForGood == BeatmapsSpec => FoundStays
<1>1. BeatmapsSpec => []BeatmapsInv
  BY BeatmapsInitInv, BeatmapsNextInv, PTL DEF BeatmapsSpec
<1>2. BeatmapsInv /\ [BeatmapsNext]_beatmapVars =>
         [\A m \in Maps :
             Found(m) => \/ Found(m)'
                         \/ \E r \in Askers : LookFails(r) /\ ask[r].map = m]_beatmapVars
  BY BeatmapsNextStays DEF Stays
<1>3. QED
  BY <1>1, <1>2, PTL DEF BeatmapsSpec, FoundStays

-----------------------------------------------------------------------------
(* The four together *)

CommunityInv == ChatInv /\ FriendsInv /\ UploadsInv /\ BeatmapsInv

LEMMA CommunityNextInv == CommunityInv /\ [Next]_vars => CommunityInv'
<1> SUFFICES ASSUME CommunityInv, [Next]_vars PROVE CommunityInv'
  OBVIOUS
<1>1. /\ [ChatNext]_chatVars /\ [FriendsNext]_friendVars
      /\ [UploadsNext]_uploadVars /\ [BeatmapsNext]_beatmapVars
  BY DEF Next, vars
<1>2. QED
  BY <1>1, ChatNextInv, FriendsNextInv, UploadsNextInv, BeatmapsNextInv DEF CommunityInv

\* Sessions, messages, friends, files and rows of beatmaps are well typed at
\* any time.
THEOREM CommunityTypeCorrect == Spec => []TypeOK
<1>1. Init => CommunityInv
  BY ChatInitInv, FriendsInitInv, UploadsInitInv, BeatmapsInitInv DEF Init, CommunityInv
<1>2. CommunityInv => TypeOK
  BY UploadsSafe DEF CommunityInv, ChatInv, FriendsInv, BeatmapsInv, TypeOK
<1>3. QED
  BY <1>1, <1>2, CommunityNextInv, PTL DEF Spec
==============================================================================
