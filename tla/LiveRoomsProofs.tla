---------------------------- MODULE LiveRoomsProofs ----------------------------
(***************************************************************************)
(* Theorems about module LiveRooms, for any number of users, slots, room   *)
(* ids and tasks, when the tasks run in any order, and may fail.           *)
(*                                                                         *)
(* What the database will say once no task is left depends on the last     *)
(* task about each room, so the inductive invariant compares positions in  *)
(* the queue, of the tasks that are not late.  Of a room that is gone and  *)
(* waits for no cleanup, every such task that writes is followed by a      *)
(* deletion, and so is every row there is, unless the room is stale        *)
(* (Cleaned).  Of a live room, every such upsert, and the row there is     *)
(* unless the room is stale, is followed by another task that decides the  *)
(* row, or shows all its players (Seen).                                   *)
(*                                                                         *)
(* One lemma says which tasks an arm has to spawn for that (ArmStep), and  *)
(* one that a task may leave the queue from any place (TaskStep): it makes *)
(* the older tasks about its room late, and those behind it still follow.  *)
(***************************************************************************)
EXTENDS LiveRooms, MultiplayerProofs, FiniteSetTheorems

-----------------------------------------------------------------------------
(* The inductive invariant *)

DbRoom == [players : SUBSET User]
Task   == [kind : {"upsert"}, id : MatchId, late : BOOLEAN, row : DbRoom]
             \cup [kind : {"delete", "record"}, id : MatchId, late : BOOLEAN]

\* The players that a row made from room r shows.
Shown(r) == DbLiveRoom(r).players

LiveTyped ==
    /\ tasks \in Seq(Task)
    /\ DOMAIN multi_rooms \subseteq MatchId
    /\ \A m \in DOMAIN multi_rooms : multi_rooms[m] \in DbRoom
    /\ multi_games \subseteq MatchId
    /\ stale \subseteq MatchId

\* Room m is deleted by a task after the i-th, one that is not late.
DeletedAfter(m, i) == \E j \in DOMAIN tasks : j > i /\ tasks[j] = Delete(m)

\* The row of room m is written or deleted by a task after the i-th, that is not late.
DecidedAfter(m, i) ==
    \E j \in DOMAIN tasks :
        j > i /\ tasks[j].id = m /\ tasks[j].kind # "record" /\ ~ tasks[j].late

\* What there is, or will be, of room m is deleted afterwards.
Cleaned(m) ==
    /\ m \in DOMAIN multi_rooms \cup multi_games => m \in stale \/ DeletedAfter(m, 0)
    /\ \A i \in DOMAIN tasks :
          tasks[i].id = m /\ tasks[i].kind # "delete" /\ ~ tasks[i].late => DeletedAfter(m, i)

\* The last row of room m, written or to be written, shows its players.
Seen(m) ==
    /\ m \in DOMAIN multi_rooms =>
          \/ m \in stale
          \/ DecidedAfter(m, 0)
          \/ Shown(matches[m]) \subseteq multi_rooms[m].players
    /\ \A i \in DOMAIN tasks :
          tasks[i].id = m /\ tasks[i].kind = "upsert" /\ ~ tasks[i].late =>
             DecidedAfter(m, i) \/ Shown(matches[m]) \subseteq tasks[i].row.players

\* The rooms whose data may be in the database.
Kept == DOMAIN matches \cup pending_disbanded_matches

AllCleaned == \A m \in MatchId \ Kept : Cleaned(m)
AllSeen    == \A m \in DOMAIN matches : Seen(m)

LiveInv == LiveTyped /\ AllCleaned /\ AllSeen

-----------------------------------------------------------------------------
(* Tasks *)

Has(ts, t) == \E i \in DOMAIN ts : ts[i] = t

LEMMA TaskFields ==
  ASSUME NEW m \in MatchId, NEW r, Sound(r)
  PROVE  /\ Upsert(m, r) \in Task /\ Upsert(m, r).kind = "upsert"
         /\ Upsert(m, r).id = m /\ Upsert(m, r).row.players = Shown(r)
         /\ Delete(m) \in Task /\ Delete(m).kind = "delete" /\ Delete(m).id = m
         /\ Record(m) \in Task /\ Record(m).kind = "record" /\ Record(m).id = m
<1>1. DbLiveRoom(r) \in DbRoom
  BY DEF DbLiveRoom, DbRoom, Sound, Match, MatchSlot, Players
<1>2. QED
  BY <1>1 DEF Upsert, Delete, Record, Task, Shown

LEMMA NotLate == \A m, r : ~ Upsert(m, r).late /\ ~ Record(m).late /\ ~ Delete(m).late
BY DEF Upsert, Record, Delete

LEMMA DeleteFields ==
  ASSUME NEW m \in MatchId
  PROVE  Delete(m) \in Task /\ Delete(m).kind = "delete" /\ Delete(m).id = m
BY DEF Delete, Task

\* The row of a sound room shows exactly the users who sit in it.
LEMMA ShownSeated ==
  ASSUME NEW r, Sound(r)
  PROVE  Shown(r) = Seated(r)
<1>1. Shown(r) = {r.slots[s].user_id : s \in Players(r)}
  BY DEF Shown, DbLiveRoom
<1>2. QED
  BY <1>1, PlayersSeated

LEMMA HasConcat ==
  ASSUME NEW a \in Seq(Task), NEW b \in Seq(Task)
  PROVE  /\ a \o b \in Seq(Task)
         /\ \A t : Has(a \o b, t) <=> Has(a, t) \/ Has(b, t)
<1>1. /\ a \o b \in Seq(Task) /\ DOMAIN (a \o b) = 1 .. Len(a) + Len(b)
      /\ DOMAIN a = 1 .. Len(a) /\ DOMAIN b = 1 .. Len(b)
      /\ Len(a) \in Nat /\ Len(b) \in Nat
      /\ \A i \in 1 .. Len(a) + Len(b) : (a \o b)[i] = IF i =< Len(a) THEN a[i] ELSE b[i - Len(a)]
  OBVIOUS
<1>2. ASSUME NEW t, Has(a \o b, t) PROVE Has(a, t) \/ Has(b, t)
  <2>1. PICK i \in 1 .. Len(a) + Len(b) : (a \o b)[i] = t
    BY <1>1, <1>2 DEF Has
  <2>2. CASE i =< Len(a)
    BY <1>1, <2>1, <2>2 DEF Has
  <2>3. CASE ~ (i =< Len(a))
    <3>1. i - Len(a) \in 1 .. Len(b) /\ b[i - Len(a)] = t
      BY <1>1, <2>1, <2>3
    <3>2. QED
      BY <3>1, <1>1 DEF Has
  <2>4. QED
    BY <2>2, <2>3
<1>3. ASSUME NEW t, Has(a, t) PROVE Has(a \o b, t)
  BY <1>1, <1>3 DEF Has
<1>4. ASSUME NEW t, Has(b, t) PROVE Has(a \o b, t)
  <2>1. PICK i \in 1 .. Len(b) : b[i] = t
    BY <1>1, <1>4 DEF Has
  <2>2. Len(a) + i \in 1 .. Len(a) + Len(b) /\ (a \o b)[Len(a) + i] = t
    BY <1>1, <2>1
  <2>3. QED
    BY <2>2, <1>1 DEF Has
<1>5. QED
  BY <1>1, <1>2, <1>3, <1>4

LEMMA HasNothing == << >> \in Seq(Task) /\ \A t : ~ Has(<< >>, t)
BY DEF Has

LEMMA HasOne ==
  ASSUME NEW x \in Task
  PROVE  <<x>> \in Seq(Task) /\ \A t : Has(<<x>>, t) <=> t = x
BY DEF Has

\* A sequence made of a set has every element of the set.
LEMMA SetSequence ==
  ASSUME NEW S, IsFiniteSet(S)
  PROVE  /\ SetToSeq(S) \in [1 .. Cardinality(S) -> S]
         /\ \A x \in S : \E i \in 1 .. Cardinality(S) : SetToSeq(S)[i] = x
<1> DEFINE n == Cardinality(S)
           f == SetToSeq(S)
<1>1. n \in Nat /\ ExistsBijection(1 .. n, S)
  BY FS_CardinalityType
<1>2. \E g \in [1 .. n -> S] : IsInjective(g)
  BY <1>1 DEF ExistsBijection, Bijection, Injection, IsInjective
<1>3. f \in [1 .. n -> S] /\ IsInjective(f)
  BY <1>2 DEF SetToSeq
<1>4. f \in Injection(1 .. n, S)
  BY <1>3 DEF Injection, IsInjective
<1>5. Cardinality(1 .. n) = n
  BY <1>1, FS_Interval
<1> HIDE DEF f
<1>6. f \in Surjection(1 .. n, S)
  BY <1>4, <1>5, FS_Injection
<1>7. QED
  BY <1>3, <1>6 DEF Surjection, f

-----------------------------------------------------------------------------
(* Spawning tasks *)

\* The tasks ts are about rooms that go, or about live rooms as the arm leaves them.
Truthful(ts) ==
    \A t : Has(ts, t) =>
        \/ \E n \in MatchId : t = Delete(n)
        \/ \E n \in DOMAIN matches' : t \in {Upsert(n, matches'[n]), Record(n)}

\* Every room that ceases to exist, or to wait for its cleanup, is deleted by ts.
Clears(ts) == \A m \in Kept \ Kept' : Has(ts, Delete(m))

\* Every room is upserted by ts, or nobody has come to it.
Shows(ts) ==
    \A m \in DOMAIN matches' :
        \/ Has(ts, Upsert(m, matches'[m]))
        \/ m \in DOMAIN matches /\ Shown(matches'[m]) \subseteq Shown(matches[m])

\* What there is in the queue once ts is behind it.
LEMMA Queue ==
  ASSUME LiveInv, NEW ts \in Seq(Task), Spawn(ts)
  PROVE  /\ tasks' \in Seq(Task)
         /\ Len(tasks) \in Nat
         /\ DOMAIN tasks \subseteq DOMAIN tasks'
         /\ DOMAIN tasks \subseteq Nat /\ DOMAIN tasks' \subseteq Nat \ {0}
         /\ \A i \in DOMAIN tasks : tasks'[i] = tasks[i] /\ i =< Len(tasks)
         /\ \A i \in DOMAIN tasks' : i \notin DOMAIN tasks => Has(ts, tasks'[i])
         /\ \A t : Has(ts, t) =>
               \E i \in DOMAIN tasks' : i > Len(tasks) /\ tasks'[i] = t
<1>1. tasks \in Seq(Task) /\ tasks' = tasks \o ts
  BY DEF LiveInv, LiveTyped, Spawn
<1>2. /\ tasks' \in Seq(Task)
      /\ DOMAIN tasks = 1 .. Len(tasks) /\ DOMAIN ts = 1 .. Len(ts)
      /\ DOMAIN tasks' = 1 .. Len(tasks) + Len(ts)
      /\ Len(tasks) \in Nat /\ Len(ts) \in Nat
      /\ \A i \in 1 .. Len(tasks) + Len(ts) :
            tasks'[i] = IF i =< Len(tasks) THEN tasks[i] ELSE ts[i - Len(tasks)]
  BY <1>1
<1>3. ASSUME NEW i \in DOMAIN tasks', i \notin DOMAIN tasks PROVE Has(ts, tasks'[i])
  <2>1. i - Len(tasks) \in DOMAIN ts /\ tasks'[i] = ts[i - Len(tasks)]
    BY <1>2, <1>3
  <2>2. QED
    BY <2>1 DEF Has
<1>4. ASSUME NEW t, Has(ts, t)
      PROVE  \E i \in DOMAIN tasks' : i > Len(tasks) /\ tasks'[i] = t
  <2>1. PICK j \in 1 .. Len(ts) : ts[j] = t
    BY <1>2, <1>4 DEF Has
  <2>2. Len(tasks) + j \in DOMAIN tasks' /\ Len(tasks) + j > Len(tasks)
        /\ tasks'[Len(tasks) + j] = t
    BY <1>2, <2>1
  <2>3. QED
    BY <2>2
<1>5. QED
  BY <1>2, <1>3, <1>4

LEMMA ArmStep ==
  ASSUME Inv, LiveInv, Inv', NEW ts \in Seq(Task), Spawn(ts),
         Truthful(ts), Clears(ts), Shows(ts)
  PROVE  LiveInv'
<1>1. /\ tasks' \in Seq(Task)
      /\ Len(tasks) \in Nat
      /\ DOMAIN tasks \subseteq DOMAIN tasks'
      /\ DOMAIN tasks \subseteq Nat /\ DOMAIN tasks' \subseteq Nat \ {0}
      /\ \A i \in DOMAIN tasks : tasks'[i] = tasks[i] /\ i =< Len(tasks)
      /\ \A i \in DOMAIN tasks' : i \notin DOMAIN tasks => Has(ts, tasks'[i])
      /\ \A t : Has(ts, t) =>
            \E i \in DOMAIN tasks' : i > Len(tasks) /\ tasks'[i] = t
  BY Queue
<1>2. multi_rooms' = multi_rooms /\ multi_games' = multi_games /\ stale' = stale
  BY DEF Spawn
<1>3. LiveTyped'
  BY <1>1, <1>2 DEF LiveInv, LiveTyped
<1>4. \A n \in DOMAIN matches' : n \in MatchId /\ Sound(matches'[n])
  BY DEF Inv, TypeOK, RoomsSound
<1>5. \A t : Has(ts, t) =>
        /\ t.kind # "delete" => t.id \in DOMAIN matches'
        /\ t.kind = "upsert" => t.row.players = Shown(matches'[t.id])
  <2> SUFFICES ASSUME NEW t, Has(ts, t)
               PROVE  /\ t.kind # "delete" => t.id \in DOMAIN matches'
                      /\ t.kind = "upsert" => t.row.players = Shown(matches'[t.id])
    OBVIOUS
  <2>1. CASE \E n \in MatchId : t = Delete(n)
    BY <2>1, DeleteFields
  <2>2. ASSUME NEW n \in DOMAIN matches', t \in {Upsert(n, matches'[n]), Record(n)}
        PROVE  /\ t.kind # "delete" => t.id \in DOMAIN matches'
               /\ t.kind = "upsert" => t.row.players = Shown(matches'[t.id])
    BY <2>2, <1>4, TaskFields
  <2>3. QED
    BY <2>1, <2>2 DEF Truthful
<1>6. \A m, i : DeletedAfter(m, i) => DeletedAfter(m, i)'
  BY <1>1 DEF DeletedAfter
<1>7. \A m, i : DecidedAfter(m, i) => DecidedAfter(m, i)'
  BY <1>1 DEF DecidedAfter
<1>8. \A m : Has(ts, Delete(m)) => \A i \in DOMAIN tasks \cup {0} : DeletedAfter(m, i)'
  <2> SUFFICES ASSUME NEW m, Has(ts, Delete(m)), NEW i \in DOMAIN tasks \cup {0}
               PROVE  DeletedAfter(m, i)'
    OBVIOUS
  <2>1. PICK j \in DOMAIN tasks' : j > Len(tasks) /\ tasks'[j] = Delete(m)
    BY <1>1
  <2>2. i =< Len(tasks) /\ i \in Nat /\ j \in Nat
    BY <1>1
  <2>3. j > i
    BY <2>1, <2>2, <1>1
  <2>4. QED
    BY <2>1, <2>3 DEF DeletedAfter
<1>9. ASSUME NEW m \in MatchId \ Kept' PROVE Cleaned(m)'
  <2>1. m \notin DOMAIN matches'
    BY DEF Kept
  <2>2. ASSUME NEW i \in DOMAIN tasks', tasks'[i].id = m, tasks'[i].kind # "delete"
        PROVE  i \in DOMAIN tasks
    BY <1>1, <1>5, <2>1, <2>2
  <2>3. CASE m \in Kept
    <3>1. \A i \in DOMAIN tasks \cup {0} : DeletedAfter(m, i)'
      BY <1>8, <2>3 DEF Clears
    <3>2. QED
      BY <2>2, <3>1 DEF Cleaned
  <2>4. CASE m \notin Kept
    <3>1. Cleaned(m)
      BY <2>4 DEF LiveInv, AllCleaned
    <3>2. m \in DOMAIN multi_rooms' \cup multi_games' => m \in stale' \/ DeletedAfter(m, 0)'
      BY <3>1, <1>2, <1>6 DEF Cleaned
    <3>3. ASSUME NEW i \in DOMAIN tasks', tasks'[i].id = m, tasks'[i].kind # "delete",
                 ~ tasks'[i].late
          PROVE  DeletedAfter(m, i)'
      BY <3>1, <3>3, <2>2, <1>1, <1>6 DEF Cleaned
    <3>4. QED
      BY <3>2, <3>3 DEF Cleaned
  <2>5. QED
    BY <2>3, <2>4
<1>10. ASSUME NEW m \in DOMAIN matches' PROVE Seen(m)'
  <2>1. ASSUME NEW i \in DOMAIN tasks' \ DOMAIN tasks, tasks'[i].id = m, tasks'[i].kind = "upsert"
        PROVE  Shown(matches'[m]) \subseteq tasks'[i].row.players
    BY <1>1, <1>5, <2>1
  <2>2. CASE Has(ts, Upsert(m, matches'[m]))
    <3>1. PICK j \in DOMAIN tasks' : j > Len(tasks) /\ tasks'[j] = Upsert(m, matches'[m])
      BY <1>1, <2>2
    <3>2. tasks'[j].id = m /\ tasks'[j].kind = "upsert" /\ ~ tasks'[j].late
      BY <3>1, <1>4, TaskFields, NotLate
    <3>3. ASSUME NEW i \in DOMAIN tasks \cup {0} PROVE DecidedAfter(m, i)'
      <4>1. i =< Len(tasks) /\ i \in Nat /\ j \in Nat
        BY <1>1
      <4>2. j > i
        BY <4>1, <3>1, <1>1
      <4>3. QED
        BY <4>2, <3>2 DEF DecidedAfter
    <3>4. QED
      BY <2>1, <3>3 DEF Seen
  <2>3. CASE m \in DOMAIN matches /\ Shown(matches'[m]) \subseteq Shown(matches[m])
    <3>1. Seen(m)
      BY <2>3 DEF LiveInv, AllSeen
    <3>2. m \in DOMAIN multi_rooms' =>
            \/ m \in stale'
            \/ DecidedAfter(m, 0)'
            \/ Shown(matches'[m]) \subseteq multi_rooms'[m].players
      BY <3>1, <2>3, <1>2, <1>7 DEF Seen
    <3>3. ASSUME NEW i \in DOMAIN tasks', tasks'[i].id = m, tasks'[i].kind = "upsert",
                 ~ tasks'[i].late
          PROVE  DecidedAfter(m, i)' \/ Shown(matches'[m]) \subseteq tasks'[i].row.players
      <4>1. CASE i \notin DOMAIN tasks
        BY <4>1, <3>3, <2>1
      <4>2. CASE i \in DOMAIN tasks
        <5>1. /\ tasks[i].id = m /\ tasks[i].kind = "upsert" /\ ~ tasks[i].late
              /\ tasks'[i] = tasks[i]
          BY <4>2, <3>3, <1>1
        <5>2. DecidedAfter(m, i) \/ Shown(matches[m]) \subseteq tasks[i].row.players
          BY <5>1, <4>2, <3>1 DEF Seen
        <5>3. QED
          BY <5>1, <5>2, <2>3, <1>7
      <4>3. QED
        BY <4>1, <4>2
    <3>4. QED
      BY <3>2, <3>3 DEF Seen
  <2>4. QED
    BY <2>2, <2>3 DEF Shows
<1>11. QED
  BY <1>3, <1>9, <1>10 DEF LiveInv, AllCleaned, AllSeen

-----------------------------------------------------------------------------
(* Tasks that run, or fail *)

\* The place that the k-th task had before the i-th left.
Was(k, i) == IF k < i THEN k ELSE k + 1

\* Task i makes task j late.
Outruns(i, j) == j < i /\ tasks[j].id = tasks[i].id /\ tasks[i].kind # "record"

LEMMA LateField ==
  ASSUME NEW t \in Task, NEW b \in BOOLEAN
  PROVE  /\ t.late \in BOOLEAN
         /\ [t EXCEPT !.late = b] \in Task
         /\ [t EXCEPT !.late = b].id = t.id /\ [t EXCEPT !.late = b].kind = t.kind
         /\ [t EXCEPT !.late = b].late = b
         /\ t.kind = "upsert" => [t EXCEPT !.late = b].row = t.row
         /\ b = t.late => [t EXCEPT !.late = b] = t
<1>1. CASE t \in [kind : {"upsert"}, id : MatchId, late : BOOLEAN, row : DbRoom]
  BY <1>1 DEF Task
<1>2. CASE t \in [kind : {"delete", "record"}, id : MatchId, late : BOOLEAN]
  BY <1>2 DEF Task
<1>3. QED
  BY <1>1, <1>2 DEF Task

\* The queue without its i-th task.
LEMMA LeavesQueue ==
  ASSUME LiveInv, NEW i \in DOMAIN tasks, Leaves(i)
  PROVE  /\ tasks' \in Seq(Task)
         /\ \A k \in DOMAIN tasks' :
               /\ Was(k, i) \in DOMAIN tasks \ {i}
               /\ tasks'[k].id = tasks[Was(k, i)].id /\ tasks'[k].kind = tasks[Was(k, i)].kind
               /\ tasks'[k].late <=> (tasks[Was(k, i)].late \/ Outruns(i, Was(k, i)))
               /\ tasks'[k].kind = "upsert" => tasks'[k].row = tasks[Was(k, i)].row
               /\ ~ Outruns(i, Was(k, i)) => tasks'[k] = tasks[Was(k, i)]
         /\ \A j \in DOMAIN tasks \ {i} : \E k \in DOMAIN tasks' : Was(k, i) = j
<1> DEFINE n  == Len(tasks)
           ts == [j \in DOMAIN tasks |-> [tasks[j] EXCEPT !.late = @ \/ Outruns(i, j)]]
<1>1. tasks \in Seq(Task) /\ n \in Nat /\ DOMAIN tasks = 1 .. n /\ i \in 1 .. n
  BY DEF LiveInv, LiveTyped
<1>2. tasks' = RemoveAt(ts, i)
  BY DEF Leaves, Outruns
<1>3. \A j \in 1 .. n :
         /\ ts[j] \in Task
         /\ ts[j].id = tasks[j].id /\ ts[j].kind = tasks[j].kind
         /\ ts[j].late <=> (tasks[j].late \/ Outruns(i, j))
         /\ ts[j].kind = "upsert" => ts[j].row = tasks[j].row
         /\ ~ Outruns(i, j) => ts[j] = tasks[j]
  <2> SUFFICES ASSUME NEW j \in 1 .. n
               PROVE  /\ ts[j] \in Task
                      /\ ts[j].id = tasks[j].id /\ ts[j].kind = tasks[j].kind
                      /\ ts[j].late <=> (tasks[j].late \/ Outruns(i, j))
                      /\ ts[j].kind = "upsert" => ts[j].row = tasks[j].row
                      /\ ~ Outruns(i, j) => ts[j] = tasks[j]
    OBVIOUS
  <2>1. PICK b \in BOOLEAN : b = (tasks[j].late \/ Outruns(i, j))
    OBVIOUS
  <2>2. tasks[j] \in Task /\ ts[j] = [tasks[j] EXCEPT !.late = b]
    BY <1>1, <2>1
  <2> HIDE DEF ts
  <2>3. /\ tasks[j].late \in BOOLEAN
        /\ [tasks[j] EXCEPT !.late = b] \in Task
        /\ [tasks[j] EXCEPT !.late = b].id = tasks[j].id
        /\ [tasks[j] EXCEPT !.late = b].kind = tasks[j].kind
        /\ [tasks[j] EXCEPT !.late = b].late = b
        /\ tasks[j].kind = "upsert" => [tasks[j] EXCEPT !.late = b].row = tasks[j].row
        /\ b = tasks[j].late => [tasks[j] EXCEPT !.late = b] = tasks[j]
    BY <2>2, LateField
  <2>4. ~ Outruns(i, j) => b = tasks[j].late
    BY <2>1, <2>3
  <2>5. QED
    BY <2>1, <2>2, <2>3, <2>4
<1>4. ts \in Seq(Task) /\ Len(ts) = n
  <2>1. ts \in [1 .. n -> Task]
    <3>1. DOMAIN ts = 1 .. n /\ ts = [j \in 1 .. n |-> ts[j]]
      BY <1>1
    <3> HIDE DEF ts
    <3>2. QED
      BY <1>3, <3>1
  <2> HIDE DEF ts
  <2>2. QED
    BY <1>1, <2>1
<1> HIDE DEF ts
<1>5. tasks' = SubSeq(ts, 1, i - 1) \o SubSeq(ts, i + 1, n)
  BY <1>2, <1>4 DEF RemoveAt
<1>6. /\ tasks' \in Seq(Task) /\ DOMAIN tasks' = 1 .. n - 1
      /\ \A k \in 1 .. n - 1 : tasks'[k] = IF k < i THEN ts[k] ELSE ts[k + 1]
  <2> DEFINE a == SubSeq(ts, 1, i - 1)
             b == SubSeq(ts, i + 1, n)
  <2>1. /\ a \in Seq(Task) /\ Len(a) = i - 1
        /\ \A k \in 1 .. i - 1 : a[k] = ts[k]
    BY <1>1, <1>4
  <2>2. /\ b \in Seq(Task) /\ Len(b) = n - i
        /\ \A k \in 1 .. n - i : b[k] = ts[i + k]
    BY <1>1, <1>4
  <2>3. tasks' = a \o b
    BY <1>5
  <2> HIDE DEF a, b
  <2>4. /\ tasks' \in Seq(Task) /\ DOMAIN tasks' = 1 .. n - 1
        /\ \A k \in 1 .. n - 1 : tasks'[k] = IF k =< i - 1 THEN a[k] ELSE b[k - (i - 1)]
    <3>1. /\ a \o b \in Seq(Task) /\ DOMAIN (a \o b) = 1 .. Len(a) + Len(b)
          /\ \A k \in 1 .. Len(a) + Len(b) :
                (a \o b)[k] = IF k =< Len(a) THEN a[k] ELSE b[k - Len(a)]
      <4>1. Len(a) \in Nat /\ Len(b) \in Nat /\ a \in Seq(Task) /\ b \in Seq(Task)
        BY <1>1, <2>1, <2>2
      <4>2. QED
        BY ONLY <4>1
    <3>2. Len(a) = i - 1 /\ Len(a) + Len(b) = n - 1
      BY <1>1, <2>1, <2>2
    <3>3. QED
      BY <2>3, <3>1, <3>2
  <2>5. ASSUME NEW k \in 1 .. n - 1, ~ (k < i)
        PROVE  k - (i - 1) \in 1 .. n - i /\ i + (k - (i - 1)) = k + 1
    BY <1>1, <2>5
  <2>6. \A k \in 1 .. n - 1 : (k =< i - 1 <=> k < i) /\ (k < i => k \in 1 .. i - 1)
    BY <1>1
  <2>7. QED
    BY <2>1, <2>2, <2>4, <2>5, <2>6
<1>7. \A k \in 1 .. n - 1 : Was(k, i) \in 1 .. n /\ Was(k, i) # i /\ tasks'[k] = ts[Was(k, i)]
  BY <1>1, <1>6 DEF Was
<1>8. \A j \in (1 .. n) \ {i} : \E k \in 1 .. n - 1 : Was(k, i) = j
  <2> SUFFICES ASSUME NEW j \in 1 .. n, j # i PROVE \E k \in 1 .. n - 1 : Was(k, i) = j
    OBVIOUS
  <2>1. CASE j < i
    BY <1>1, <2>1 DEF Was
  <2>2. CASE j > i
    <3>1. j - 1 \in 1 .. n - 1 /\ Was(j - 1, i) = j
      BY <1>1, <2>2 DEF Was
    <3>2. QED
      BY <3>1
  <2>3. QED
    BY <1>1, <2>1, <2>2
<1>9. ASSUME NEW k \in DOMAIN tasks'
      PROVE  /\ Was(k, i) \in DOMAIN tasks \ {i}
             /\ tasks'[k].id = tasks[Was(k, i)].id /\ tasks'[k].kind = tasks[Was(k, i)].kind
             /\ tasks'[k].late <=> (tasks[Was(k, i)].late \/ Outruns(i, Was(k, i)))
             /\ tasks'[k].kind = "upsert" => tasks'[k].row = tasks[Was(k, i)].row
             /\ ~ Outruns(i, Was(k, i)) => tasks'[k] = tasks[Was(k, i)]
  <2> DEFINE j == Was(k, i)
  <2>1. j \in 1 .. n /\ j # i /\ tasks'[k] = ts[j]
    BY <1>6, <1>7
  <2> HIDE DEF j
  <2>2. QED
    BY <1>1, <1>3, <2>1 DEF j
<1>10. \A j \in DOMAIN tasks \ {i} : \E k \in DOMAIN tasks' : Was(k, i) = j
  BY <1>1, <1>6, <1>8
<1>11. QED
  BY <1>6, <1>9, <1>10

\* What follows task j that is not outrun still does, for the k-th of the queue.
LEMMA StillFollows ==
  ASSUME LiveInv, NEW i \in DOMAIN tasks, Leaves(i), NEW m,
         NEW j \in Nat, NEW k \in Nat, k = 0 \/ Was(k, i) = j,
         m # tasks[i].id \/ tasks[i].kind = "record" \/ j >= i
  PROVE  /\ DeletedAfter(m, j) /\ (j >= i \/ tasks[i] # Delete(m)) => DeletedAfter(m, k)'
         /\ DecidedAfter(m, j) => DecidedAfter(m, k)'
<1>1. /\ tasks \in Seq(Task) /\ DOMAIN tasks = 1 .. Len(tasks) /\ Len(tasks) \in Nat
      /\ tasks' \in Seq(Task) /\ DOMAIN tasks' = 1 .. Len(tasks') /\ Len(tasks') \in Nat
  BY LeavesQueue DEF LiveInv, LiveTyped
<1>2. ASSUME NEW d \in DOMAIN tasks, d > j, d # i, tasks[d].id = m
      PROVE  \E l \in DOMAIN tasks' : l > k /\ tasks'[l] = tasks[d]
  <2>1. PICK l \in DOMAIN tasks' : Was(l, i) = d
    BY <1>2, LeavesQueue
  <2>2. ~ Outruns(i, d)
    BY <1>1, <1>2 DEF Outruns
  <2>3. tasks'[l] = tasks[d]
    BY <2>1, <2>2, LeavesQueue
  <2>4. l > k
    BY <1>1, <1>2, <2>1 DEF Was
  <2>5. QED
    BY <2>3, <2>4
<1>3. ASSUME DeletedAfter(m, j), j >= i \/ tasks[i] # Delete(m) PROVE DeletedAfter(m, k)'
  <2>1. PICK d \in DOMAIN tasks : d > j /\ tasks[d] = Delete(m)
    BY <1>3 DEF DeletedAfter
  <2>2. d # i /\ tasks[d].id = m
    BY <1>1, <1>3, <2>1 DEF Delete
  <2>3. QED
    BY <1>2, <2>1, <2>2 DEF DeletedAfter
<1>4. ASSUME DecidedAfter(m, j) PROVE DecidedAfter(m, k)'
  <2>1. PICK d \in DOMAIN tasks : /\ d > j /\ tasks[d].id = m
                                  /\ tasks[d].kind # "record" /\ ~ tasks[d].late
    BY <1>4 DEF DecidedAfter
  <2>2. d # i
    BY <1>1, <2>1
  <2>3. QED
    BY <1>2, <2>1, <2>2 DEF DecidedAfter
<1>5. QED
  BY <1>3, <1>4

LEMMA TaskStep ==
  ASSUME Inv, LiveInv, NEW i \in DOMAIN tasks, RunTask(i) \/ FailTask(i)
  PROVE  LiveInv'
<1> DEFINE t == tasks[i]
<1>1. /\ tasks \in Seq(Task) /\ t \in Task /\ i \in Nat /\ i > 0
      /\ DOMAIN tasks \subseteq Nat
  BY DEF LiveInv, LiveTyped
<1>2. Leaves(i)
  BY DEF RunTask, FailTask
<1>3. matches' = matches /\ Kept' = Kept
  BY DEF RunTask, FailTask, vars, Kept
<1>4. /\ t.id \in MatchId /\ t.kind \in {"upsert", "record", "delete"} /\ t.late \in BOOLEAN
      /\ t.kind = "upsert" => t.row \in DbRoom
  BY <1>1 DEF Task
<1> HIDE DEF t
\* What the task does to the rows, the games and the staleness of each room.
<1>5. /\ \A m \in DOMAIN multi_rooms' :
            \/ m \in DOMAIN multi_rooms /\ multi_rooms'[m] = multi_rooms[m]
                  /\ (m # t.id \/ t.kind = "record" \/ m \in stale')
            \/ m = t.id /\ t.kind = "upsert" /\ multi_rooms'[m] = t.row
                  /\ (t.late => m \in stale')
      /\ \A m \in multi_games' :
            \/ m \in multi_games
            \/ m = t.id /\ t.kind = "record" /\ (t.late => m \in stale')
      /\ t.kind = "delete" => t.id \notin DOMAIN multi_rooms' \cup multi_games' \/ t.id \in stale'
      /\ t.kind = "upsert" /\ t.late => t.id \in stale'
      /\ \A m \in stale : m \in stale' \/ (m = t.id /\ t.kind # "record")
      /\ stale' \subseteq stale \cup {t.id}
  <2>1. CASE RunTask(i)
    <3>1. stale' = IF t.late THEN stale \cup {t.id}
                   ELSE IF t.kind = "record" THEN stale ELSE stale \ {t.id}
      BY <2>1 DEF RunTask, t
    <3>2. /\ t.late => t.id \in stale'
          /\ \A m \in stale : m \in stale' \/ (m = t.id /\ t.kind # "record")
          /\ stale' \subseteq stale \cup {t.id}
      BY <3>1
    <3>3. CASE t.kind = "upsert" /\ UpsertRoom(t.id, t.row)
      <4>1. /\ \A m \in DOMAIN multi_rooms' :
                  \/ m = t.id /\ multi_rooms'[m] = t.row
                  \/ m # t.id /\ m \in DOMAIN multi_rooms /\ multi_rooms'[m] = multi_rooms[m]
            /\ multi_games' = multi_games
        BY <3>3 DEF UpsertRoom
      <4>2. QED
        BY <3>2, <3>3, <4>1
    <3>4. CASE t.kind = "record" /\ RecordMultiGame(t.id)
      <4>1. multi_rooms' = multi_rooms /\ multi_games' = multi_games \cup {t.id}
        BY <3>4 DEF RecordMultiGame
      <4>2. QED
        BY <3>2, <3>4, <4>1
    <3>5. CASE t.kind = "delete" /\ DeleteRoomData(t.id)
      <4>1. /\ \A m \in DOMAIN multi_rooms' :
                  m # t.id /\ m \in DOMAIN multi_rooms /\ multi_rooms'[m] = multi_rooms[m]
            /\ multi_games' = multi_games \ {t.id}
        BY <3>5 DEF DeleteRoomData, Restrict
      <4>2. QED
        BY <3>2, <3>5, <4>1
    <3>6. QED
      BY <2>1, <3>3, <3>4, <3>5 DEF RunTask, t
  <2>2. CASE FailTask(i)
    <3>1. /\ stale' = IF t.kind = "record" THEN stale ELSE stale \cup {t.id}
          /\ multi_rooms' = multi_rooms /\ multi_games' = multi_games
      BY <2>2 DEF FailTask, t
    <3>2. QED
      BY <3>1
  <2>3. QED
    BY <2>1, <2>2
<1>6. /\ tasks' \in Seq(Task) /\ DOMAIN tasks' \subseteq Nat
      /\ \A k \in DOMAIN tasks' :
            /\ Was(k, i) \in DOMAIN tasks \ {i}
            /\ tasks'[k].id = tasks[Was(k, i)].id /\ tasks'[k].kind = tasks[Was(k, i)].kind
            /\ tasks'[k].late <=> (tasks[Was(k, i)].late \/ Outruns(i, Was(k, i)))
            /\ tasks'[k].kind = "upsert" => tasks'[k].row = tasks[Was(k, i)].row
  BY <1>2, LeavesQueue
<1>7. LiveTyped'
  BY <1>4, <1>5, <1>6 DEF LiveInv, LiveTyped
\* A task that is not late afterwards was not before, and what followed it does.
<1>8. ASSUME NEW k \in DOMAIN tasks', NEW m, tasks'[k].id = m, ~ tasks'[k].late
      PROVE  /\ ~ tasks[Was(k, i)].late
             /\ m # t.id \/ t.kind = "record" \/ Was(k, i) >= i
  BY <1>1, <1>6, <1>8 DEF Outruns, t
<1>9. ASSUME NEW m, NEW j \in Nat, NEW k \in Nat, k = 0 \/ Was(k, i) = j,
             m # t.id \/ t.kind = "record" \/ j >= i
      PROVE  /\ DeletedAfter(m, j) => DeletedAfter(m, k)'
             /\ DecidedAfter(m, j) => DecidedAfter(m, k)'
  <2>1. j >= i \/ tasks[i] # Delete(m)
    BY <1>9 DEF t, Delete
  <2>2. m # tasks[i].id \/ tasks[i].kind = "record" \/ j >= i
    BY <1>9 DEF t
  <2>3. QED
    BY <2>1, <2>2, <1>2, <1>9, StillFollows
<1>10. ASSUME NEW m \in MatchId \ Kept PROVE Cleaned(m)'
  <2>1. Cleaned(m)
    BY DEF LiveInv, AllCleaned
  <2>2. ASSUME m \in DOMAIN multi_rooms' \cup multi_games', m \notin stale'
        PROVE  DeletedAfter(m, 0)'
    <3>1. CASE m # t.id
      <4>1. m \in DOMAIN multi_rooms \cup multi_games /\ m \notin stale
        BY <1>5, <2>2, <3>1
      <4>2. QED
        BY <4>1, <3>1, <2>1, <1>9 DEF Cleaned
    <3>2. CASE m = t.id /\ t.kind # "delete" /\ ~ t.late
      <4>1. DeletedAfter(m, i)
        BY <2>1, <3>2 DEF Cleaned, t
      <4>2. QED
        BY <4>1, <1>1, <1>9
    <3>3. CASE m = t.id /\ t.kind = "record" /\ t.late
      <4>1. m \in DOMAIN multi_rooms \cup multi_games /\ m \notin stale
        BY <1>5, <2>2, <3>3
      <4>2. QED
        BY <4>1, <3>3, <2>1, <1>9 DEF Cleaned
    <3>4. QED
      BY <1>4, <1>5, <2>2, <3>1, <3>2, <3>3
  <2>3. ASSUME NEW k \in DOMAIN tasks', tasks'[k].id = m, tasks'[k].kind # "delete",
               ~ tasks'[k].late
        PROVE  DeletedAfter(m, k)'
    <3>1. Was(k, i) \in DOMAIN tasks /\ k \in Nat /\ Was(k, i) \in Nat
      BY <1>1, <1>6
    <3>2. DeletedAfter(m, Was(k, i))
      BY <2>1, <2>3, <3>1, <1>6, <1>8 DEF Cleaned
    <3>3. QED
      BY <3>1, <3>2, <2>3, <1>8, <1>9
  <2>4. QED
    BY <2>2, <2>3 DEF Cleaned
<1>11. ASSUME NEW m \in DOMAIN matches PROVE Seen(m)'
  <2>1. Seen(m)
    BY DEF LiveInv, AllSeen
  <2>2. ASSUME m \in DOMAIN multi_rooms', m \notin stale'
        PROVE  DecidedAfter(m, 0)' \/ Shown(matches[m]) \subseteq multi_rooms'[m].players
    <3>1. CASE /\ m # t.id \/ t.kind = "record"
               /\ m \in DOMAIN multi_rooms /\ multi_rooms'[m] = multi_rooms[m]
      <4>1. m \notin stale
        BY <1>5, <2>2, <3>1
      <4>2. QED
        BY <4>1, <3>1, <2>1, <1>9 DEF Seen
    <3>2. CASE m = t.id /\ t.kind = "upsert" /\ multi_rooms'[m] = t.row /\ ~ t.late
      <4>1. DecidedAfter(m, i) \/ Shown(matches[m]) \subseteq t.row.players
        BY <2>1, <3>2 DEF Seen, t
      <4>2. QED
        BY <4>1, <3>2, <1>1, <1>9
    <3>3. QED
      BY <1>5, <2>2, <3>1, <3>2
  <2>3. ASSUME NEW k \in DOMAIN tasks', tasks'[k].id = m, tasks'[k].kind = "upsert",
               ~ tasks'[k].late
        PROVE  DecidedAfter(m, k)' \/ Shown(matches[m]) \subseteq tasks'[k].row.players
    <3>1. Was(k, i) \in DOMAIN tasks /\ k \in Nat /\ Was(k, i) \in Nat
      BY <1>1, <1>6
    <3>2. \/ DecidedAfter(m, Was(k, i))
          \/ Shown(matches[m]) \subseteq tasks[Was(k, i)].row.players
      BY <2>1, <2>3, <3>1, <1>6, <1>8 DEF Seen
    <3>3. QED
      BY <3>1, <3>2, <2>3, <1>6, <1>8, <1>9
  <2>4. QED
    BY <2>2, <2>3, <1>3 DEF Seen, Shown, DbLiveRoom, Players
<1>12. QED
  BY <1>3, <1>7, <1>10, <1>11 DEF LiveInv, AllCleaned, AllSeen

-----------------------------------------------------------------------------
(* What the arms spawn *)

LEMMA Syncs ==
  ASSUME Inv', NEW m
  PROVE  /\ Sync(m) \in Seq(Task)
         /\ \A t : Has(Sync(m), t) <=> m \in DOMAIN matches' /\ t = Upsert(m, matches'[m])
<1>1. CASE m \in DOMAIN matches'
  <2>1. m \in MatchId /\ Sound(matches'[m])
    BY <1>1 DEF Inv, TypeOK, RoomsSound
  <2>2. Upsert(m, matches'[m]) \in Task
    BY <2>1, TaskFields
  <2>3. QED
    BY <1>1, <2>2, HasOne DEF Sync
<1>2. CASE m \notin DOMAIN matches'
  BY <1>2, HasNothing DEF Sync
<1>3. QED
  BY <1>1, <1>2

LEMMA CleansUp ==
  ASSUME Inv, NEW u \in User
  PROVE  /\ CleanUp(u) \in Seq(Task)
         /\ \A t : Has(CleanUp(u), t) => \E n \in MatchId : t = Delete(n)
         /\ \A n \in pending_disbanded_matches \cup Disbanded(u) : Has(CleanUp(u), Delete(n))
<1> DEFINE S == pending_disbanded_matches \cup Disbanded(u)
           n == Cardinality(S)
           f == SetToSeq(S)
<1>1. S \subseteq MatchId
  BY DEF Inv, TypeOK, Disbanded
<1>2. IsFiniteSet(S)
  <2>1. IsFiniteSet(MatchId)
    BY MultiplayerAssumption, FS_Interval DEF MatchId
  <2>2. QED
    BY <1>1, <2>1, FS_Subset
<1>3. /\ n \in Nat
      /\ f \in [1 .. n -> S]
      /\ \A x \in S : \E i \in 1 .. n : f[i] = x
  BY <1>2, SetSequence, FS_CardinalityType
<1>4. CleanUp(u) = [i \in 1 .. n |-> Delete(f[i])]
  BY <1>3 DEF CleanUp
<1> HIDE DEF S, n, f
<1>5. \A i \in 1 .. n : f[i] \in MatchId /\ Delete(f[i]) \in Task
  BY <1>1, <1>3, DeleteFields
<1>6. CleanUp(u) \in Seq(Task) /\ DOMAIN CleanUp(u) = 1 .. n
  BY <1>3, <1>4, <1>5
<1>7. QED
  BY <1>3, <1>4, <1>5, <1>6 DEF Has, S

LEMMA FinishesRound ==
  ASSUME Inv', NEW m \in DOMAIN matches', NEW ends
  PROVE  /\ FinishRound(m, ends) \in Seq(Task)
         /\ \A t : Has(FinishRound(m, ends), t) => t \in {Upsert(m, matches'[m]), Record(m)}
         /\ ends = TRUE => Has(FinishRound(m, ends), Upsert(m, matches'[m]))
<1>1. m \in MatchId /\ Sound(matches'[m])
  BY DEF Inv, TypeOK, RoomsSound
<1>2. /\ <<Record(m)>> \in Seq(Task)
      /\ \A t : Has(<<Record(m)>>, t) <=> t = Record(m)
  BY <1>1, TaskFields, HasOne
<1>3. /\ Sync(m) \in Seq(Task)
      /\ \A t : Has(Sync(m), t) <=> t = Upsert(m, matches'[m])
  BY Syncs
<1>4. /\ <<Record(m)>> \o Sync(m) \in Seq(Task)
      /\ \A t : Has(<<Record(m)>> \o Sync(m), t) <=> t \in {Upsert(m, matches'[m]), Record(m)}
  BY <1>2, <1>3, HasConcat
<1>5. QED
  BY <1>4, HasNothing DEF FinishRound

\* A handler that only leaves u's room disbands no other.
LEMMA OnlyOwnRoom ==
  ASSUME NEW u \in User
  PROVE  Disbanded(u) \subseteq {RoomOf(u)}
BY DEF Disbanded, Without, Restrict

\* Somebody leaves: nobody comes to a room.
LEMMA NobodyComes ==
  ASSUME Inv, NEW u \in User
  PROVE  \A n \in DOMAIN Without(u) :
           n \in DOMAIN matches /\ Shown(Without(u)[n]) \subseteq Shown(matches[n])
<1> SUFFICES ASSUME NEW n \in DOMAIN Without(u)
             PROVE  n \in DOMAIN matches /\ Shown(Without(u)[n]) \subseteq Shown(matches[n])
  OBVIOUS
<1>1. /\ n \in DOMAIN matches /\ Sound(matches[n]) /\ Sound(Without(u)[n])
      /\ Seated(Without(u)[n]) = Seated(matches[n]) \ {u}
  BY Leaving DEF Inv, RoomsSound
<1>2. QED
  BY <1>1, ShownSeated

\* Nothing is spawned where no room goes and nobody comes.
LEMMA QuietStep ==
  ASSUME Inv, LiveInv, Inv', Spawn(<< >>), Kept \subseteq Kept',
         \A n \in DOMAIN matches' :
            n \in DOMAIN matches /\ Shown(matches'[n]) \subseteq Shown(matches[n])
  PROVE  LiveInv'
<1>1. Truthful(<< >>) /\ Clears(<< >>) /\ Shows(<< >>) /\ << >> \in Seq(Task)
  BY HasNothing DEF Truthful, Clears, Shows
<1>2. QED
  BY <1>1, ArmStep

\* A room m gets a player, or is new, and is synced; the rooms left behind are deleted.
LEMMA EnterStep ==
  ASSUME Inv, LiveInv, Inv', NEW u \in User, NEW m \in DOMAIN matches',
         DOMAIN Without(u) \subseteq DOMAIN matches',
         \A n \in DOMAIN matches' \ {m} :
            n \in DOMAIN Without(u) /\ matches'[n] = Without(u)[n],
         Spawn(Sync(m) \o CleanUp(u))
  PROVE  LiveInv'
<1> DEFINE ts == Sync(m) \o CleanUp(u)
<1>1. /\ ts \in Seq(Task)
      /\ \A t : Has(ts, t) => t = Upsert(m, matches'[m]) \/ \E n \in MatchId : t = Delete(n)
      /\ Has(ts, Upsert(m, matches'[m]))
      /\ \A n \in pending_disbanded_matches \cup Disbanded(u) : Has(ts, Delete(n))
  <2>1. /\ Sync(m) \in Seq(Task)
        /\ \A t : Has(Sync(m), t) <=> t = Upsert(m, matches'[m])
    BY Syncs
  <2>2. /\ CleanUp(u) \in Seq(Task)
        /\ \A t : Has(CleanUp(u), t) => \E n \in MatchId : t = Delete(n)
        /\ \A n \in pending_disbanded_matches \cup Disbanded(u) : Has(CleanUp(u), Delete(n))
    BY CleansUp
  <2>3. /\ ts \in Seq(Task)
        /\ \A t : Has(ts, t) <=> Has(Sync(m), t) \/ Has(CleanUp(u), t)
    BY <2>1, <2>2, HasConcat
  <2>4. QED
    BY <2>1, <2>2, <2>3
<1>2. Spawn(ts)
  OBVIOUS
<1> HIDE DEF ts
<1>3. Truthful(ts)
  BY <1>1 DEF Truthful
<1>4. Kept \ Kept' \subseteq pending_disbanded_matches \cup Disbanded(u)
  BY DEF Kept, Disbanded
<1>5. Clears(ts)
  BY <1>1, <1>4 DEF Clears
<1>6. Shows(ts)
  BY <1>1, NobodyComes DEF Shows
<1>7. QED
  BY <1>1, <1>2, <1>3, <1>5, <1>6, ArmStep

\* u leaves, and the rooms left behind are deleted.
LEMMA LeaveStep ==
  ASSUME Inv, LiveInv, Inv', NEW u \in User,
         DOMAIN matches' = DOMAIN Without(u), Shows(<< >>), Spawn(CleanUp(u))
  PROVE  LiveInv'
<1>1. /\ CleanUp(u) \in Seq(Task)
      /\ \A t : Has(CleanUp(u), t) => \E n \in MatchId : t = Delete(n)
      /\ \A n \in pending_disbanded_matches \cup Disbanded(u) : Has(CleanUp(u), Delete(n))
  BY CleansUp
<1>2. Truthful(CleanUp(u))
  BY <1>1 DEF Truthful
<1>3. Clears(CleanUp(u))
  <2>1. Kept \ Kept' \subseteq pending_disbanded_matches \cup Disbanded(u)
    BY DEF Kept, Disbanded
  <2>2. QED
    BY <1>1, <2>1 DEF Clears
<1>4. Shows(CleanUp(u))
  BY HasNothing DEF Shows
<1>5. QED
  BY <1>1, <1>2, <1>3, <1>4, ArmStep

\* Only room m changes, and it is synced.
LEMMA SyncStep ==
  ASSUME Inv, LiveInv, Inv', NEW m, NEW ts \in Seq(Task), Spawn(ts),
         DOMAIN matches' = DOMAIN matches,
         pending_disbanded_matches' = pending_disbanded_matches,
         \A n \in DOMAIN matches \ {m} : matches'[n] = matches[n],
         \A t : Has(ts, t) => m \in DOMAIN matches' /\ t \in {Upsert(m, matches'[m]), Record(m)},
         m \in DOMAIN matches' => \/ Has(ts, Upsert(m, matches'[m]))
                                  \/ Shown(matches'[m]) \subseteq Shown(matches[m])
  PROVE  LiveInv'
<1>1. Truthful(ts) /\ Clears(ts) /\ Shows(ts)
  BY DEF Truthful, Clears, Shows, Kept
<1>2. QED
  BY <1>1, ArmStep

-----------------------------------------------------------------------------
(* The arms *)

\* Every arm is a step of the rooms, or leaves them alone.
LEMMA HandleIsStep ==
  ASSUME NEW u \in User, Handle(u)
  PROVE  [Next]_vars
<1>1. CASE CreateRoom(u)
  BY <1>1 DEF CreateRoom, Next, Step
<1>2. CASE PartRoom(u) \/ LogoutRoom(u) \/ EvictRoom(u)
  BY <1>2 DEF PartRoom, LogoutRoom, EvictRoom, Next, Step, Moves
<1>3. CASE \E m \in MatchId : JoinRoom(u, m)
  BY <1>3 DEF JoinRoom, Next, Step, Moves
<1>4. CASE ChangeRoom(u)
  BY <1>4 DEF ChangeRoom, Next, Step, Acts
<1>5. CASE ChangeMods(u)
  BY <1>5 DEF ChangeMods
<1>6. CASE ChangeTeam(u) \/ CompleteRound(u) \/ Report(u)
  BY <1>6 DEF ChangeTeam, CompleteRound, Report, Next, Step, Acts
<1>7. QED
  BY <1>1, <1>2, <1>3, <1>4, <1>5, <1>6 DEF Handle

LEMMA CreateRoomStep ==
  ASSUME Inv, LiveInv, Inv', NEW u \in User, CreateRoom(u)
  PROVE  LiveInv'
<1> DEFINE id == next_match_id
<1>1. /\ DOMAIN matches' = DOMAIN Without(u) \cup {id}
      /\ \A n \in DOMAIN matches' \ {id} : matches'[n] = Without(u)[n]
  BY DEF CreateRoom, MatchCreate
<1>2. Spawn(Sync(id) \o CleanUp(u))
  BY DEF CreateRoom
<1> HIDE DEF id
<1>3. QED
  BY <1>1, <1>2, EnterStep

LEMMA JoinRoomStep ==
  ASSUME Inv, LiveInv, Inv', NEW u \in User, NEW m \in MatchId, JoinRoom(u, m)
  PROVE  LiveInv'
<1>1. m # NoMatch /\ u \in DOMAIN user_to_match
  BY MultiplayerAssumption DEF MatchId, NoMatch, Inv, TypeOK
<1>2. MatchJoin(u, m)
  BY DEF JoinRoom
<1>3. CASE m \in DOMAIN Without(u)
  <2>1. /\ DOMAIN matches' = DOMAIN Without(u)
        /\ \A n \in DOMAIN matches' \ {m} : matches'[n] = Without(u)[n]
        /\ user_to_match'[u] = m
    BY <1>1, <1>2, <1>3 DEF MatchJoin
  <2>2. Spawn(Sync(m) \o CleanUp(u))
    BY <2>1 DEF JoinRoom
  <2>3. QED
    BY <1>3, <2>1, <2>2, EnterStep
<1>4. CASE m \notin DOMAIN Without(u)
  <2>1. /\ matches' = Without(u)
        /\ user_to_match'[u] = NoMatch
        /\ pending_disbanded_matches' = pending_disbanded_matches \cup Disbanded(u)
    BY <1>1, <1>2, <1>4 DEF MatchJoin
  <2>2. Spawn(<< >>)
    BY <2>1, <1>1 DEF JoinRoom
  <2>3. Kept \subseteq Kept'
    BY <2>1 DEF Kept, Disbanded
  <2>4. QED
    BY <2>1, <2>2, <2>3, NobodyComes, QuietStep
<1>5. QED
  BY <1>3, <1>4

\* The last player of a round may end it by leaving.
LEMMA PartRoomStep ==
  ASSUME Inv, LiveInv, Inv', NEW u \in User, PartRoom(u)
  PROVE  LiveInv'
<1> DEFINE m  == RoomOf(u)
           ms == Without(u)
<1>1. MatchPart(u)
  BY DEF PartRoom
<1>2. CASE ~ IsSeated(u)
  <2>1. matches' = matches /\ pending_disbanded_matches' = pending_disbanded_matches
    BY <1>1, <1>2 DEF MatchPart
  <2>2. Spawn(<< >>)
    BY <1>2 DEF PartRoom
  <2>3. Kept' = Kept
    BY <2>1 DEF Kept
  <2>4. QED
    BY <2>1, <2>2, <2>3, QuietStep
<1>3. CASE IsSeated(u)
  <2>1. matches' = TryFinish(ms, m)
    BY <1>1, <1>3 DEF MatchPart
  <2>2. /\ DOMAIN ms \subseteq DOMAIN matches
        /\ \A n \in DOMAIN ms : Sound(ms[n]) /\ Seated(ms[n]) = Seated(matches[n]) \ {u}
    BY Leaving
  <2>3. /\ DOMAIN matches' = DOMAIN ms
        /\ \A n \in DOMAIN ms : /\ Sound(matches'[n]) /\ Sound(matches[n])
                                /\ Seated(matches'[n]) \subseteq Seated(matches[n])
    BY <2>1, <2>2, Finishing DEF Inv, RoomsSound
  <2>4. \A n \in DOMAIN ms : Shown(matches'[n]) \subseteq Shown(matches[n])
    BY <2>3, ShownSeated
  <2>5. Shows(<< >>)
    BY <2>2, <2>3, <2>4 DEF Shows
  <2>6. CASE m \in Disbanded(u)
    <3>1. Spawn(CleanUp(u))
      BY <1>3, <2>6 DEF PartRoom
    <3>2. QED
      BY <2>3, <2>5, <3>1, LeaveStep
  <2>7. CASE m \notin Disbanded(u)
    <3>1. m \in DOMAIN matches /\ DOMAIN ms = DOMAIN matches
      BY <1>3, <2>2, <2>7, OnlyOwnRoom DEF Disbanded, IsSeated
    <3>2. pending_disbanded_matches' = pending_disbanded_matches
      BY <1>1, <1>3, <3>1 DEF MatchPart
    <3> DEFINE ts == FinishRound(m, Ends(m)) \o Sync(m)
    <3>3. Spawn(ts)
      BY <1>3, <2>7 DEF PartRoom
    <3>4. m \in DOMAIN matches'
      BY <2>3, <3>1
    <3>5. /\ ts \in Seq(Task)
          /\ \A t : Has(ts, t) => t \in {Upsert(m, matches'[m]), Record(m)}
      BY <3>4, FinishesRound, Syncs, HasConcat
    <3> HIDE DEF ts, m
    <3>6. Truthful(ts)
      BY <3>4, <3>5 DEF Truthful
    <3>7. Clears(ts) /\ Shows(ts)
      BY <2>3, <2>4, <3>1, <3>2 DEF Clears, Kept, Shows
    <3>8. QED
      BY <3>3, <3>5, <3>6, <3>7, ArmStep
  <2>8. QED
    BY <2>6, <2>7
<1>4. QED
  BY <1>2, <1>3

LEMMA LogoutRoomStep ==
  ASSUME Inv, LiveInv, Inv', NEW u \in User, LogoutRoom(u) \/ EvictRoom(u)
  PROVE  LiveInv'
<1>1. matches' = Without(u)
  BY DEF LogoutRoom, EvictRoom, Logout, Evict, RemoveSession
<1>2. CASE LogoutRoom(u)
  <2>1. Spawn(CleanUp(u))
    BY <1>2 DEF LogoutRoom
  <2>2. Shows(<< >>)
    BY <1>1, NobodyComes DEF Shows
  <2>3. QED
    BY <1>1, <2>1, <2>2, LeaveStep
<1>3. CASE EvictRoom(u)
  <2>1. Spawn(<< >>) /\ Kept \subseteq Kept'
    BY <1>1, <1>3 DEF EvictRoom, Evict, Kept, Disbanded
  <2>2. QED
    BY <1>1, <2>1, NobodyComes, QuietStep
<1>4. QED
  BY <1>2, <1>3

\* A handler that changes one room and syncs it.
LEMMA ChangeRoomStep ==
  ASSUME Inv, LiveInv, Inv', NEW u \in User, ChangeRoom(u) \/ ChangeMods(u)
  PROVE  LiveInv'
<1> DEFINE m == RoomOf(u)
<1>1. Spawn(Sync(m))
  BY DEF ChangeRoom, ChangeMods
<1>2. /\ DOMAIN matches' = DOMAIN matches
      /\ \A n \in DOMAIN matches \ {m} : matches'[n] = matches[n]
      /\ pending_disbanded_matches' = pending_disbanded_matches
  <2>1. CASE ChangeMods(u)
    BY <2>1 DEF ChangeMods, vars
  <2>2. CASE SetsStatus(u)
    BY <2>2 DEF SetsStatus, MatchReady, MatchNotReady, MatchNoBeatmap, MatchHasBeatmap, SetStatus
  <2>3. CASE MatchChangeSettings(u) \/ MatchStart(u)
    BY <2>3 DEF MatchChangeSettings, MatchStart
  <2>4. ASSUME NEW s \in Slot, MatchChangeSlot(u, s) \/ MatchLock(u, s) \/ MatchChangeHost(u, s)
        PROVE  /\ DOMAIN matches' = DOMAIN matches
               /\ \A n \in DOMAIN matches \ {m} : matches'[n] = matches[n]
               /\ pending_disbanded_matches' = pending_disbanded_matches
    BY <2>4 DEF MatchChangeSlot, MatchLock, MatchChangeHost
  <2>5. QED
    BY <2>1, <2>2, <2>3, <2>4 DEF ChangeRoom
<1>3. /\ Sync(m) \in Seq(Task)
      /\ \A t : Has(Sync(m), t) <=> m \in DOMAIN matches' /\ t = Upsert(m, matches'[m])
  BY Syncs
<1> DEFINE ts == Sync(m)
<1>4. ts \in Seq(Task) /\ Spawn(ts)
  BY <1>1, <1>3
<1> HIDE DEF ts, m
<1>5. Truthful(ts)
  BY <1>3 DEF Truthful, ts
<1>6. Clears(ts)
  BY <1>2 DEF Clears, Kept
<1>7. Shows(ts)
  BY <1>2, <1>3 DEF Shows, ts
<1>8. QED
  BY <1>4, <1>5, <1>6, <1>7, ArmStep

\* A handler that may end the round of a room.
LEMMA ChangeTeamStep ==
  ASSUME Inv, LiveInv, Inv', NEW u \in User, ChangeTeam(u)
  PROVE  LiveInv'
<1> DEFINE m  == RoomOf(u)
           ts == FinishRound(m, Ends(m)) \o Sync(m)
<1>1. MatchChangeTeam(u) /\ Spawn(ts)
  BY DEF ChangeTeam
<1>2. /\ DOMAIN matches' = DOMAIN matches /\ m \in DOMAIN matches'
      /\ \A n \in DOMAIN matches \ {m} : matches'[n] = matches[n]
      /\ pending_disbanded_matches' = pending_disbanded_matches
  BY <1>1 DEF MatchChangeTeam, IsSeated, TryFinish, Finished
<1>3. /\ ts \in Seq(Task)
      /\ \A t : Has(ts, t) => t \in {Upsert(m, matches'[m]), Record(m)}
      /\ Has(ts, Upsert(m, matches'[m]))
  <2> DEFINE a == FinishRound(m, Ends(m))
  <2>1. /\ a \in Seq(Task)
        /\ \A t : Has(a, t) => t \in {Upsert(m, matches'[m]), Record(m)}
    BY <1>2, FinishesRound
  <2>2. /\ Sync(m) \in Seq(Task)
        /\ \A t : Has(Sync(m), t) <=> t = Upsert(m, matches'[m])
    BY <1>2, Syncs
  <2> HIDE DEF a
  <2>3. /\ a \o Sync(m) \in Seq(Task)
        /\ \A t : Has(a \o Sync(m), t) <=> Has(a, t) \/ Has(Sync(m), t)
    BY <2>1, <2>2, HasConcat
  <2>4. QED
    BY <2>1, <2>2, <2>3 DEF a
<1> HIDE DEF ts, m
<1>4. Truthful(ts)
  BY <1>2, <1>3 DEF Truthful
<1>5. Clears(ts) /\ Shows(ts)
  BY <1>2, <1>3 DEF Clears, Kept, Shows
<1>6. QED
  BY <1>1, <1>3, <1>4, <1>5, ArmStep

\* Completing a round seats nobody, so that no sync is needed.
LEMMA CompleteRoundStep ==
  ASSUME Inv, LiveInv, Inv', NEW u \in User, CompleteRound(u)
  PROVE  LiveInv'
<1> DEFINE m  == RoomOf(u)
           q  == [matches[m] EXCEPT !.slots[SeatOf(u)].status = "COMPLETE"]
           ms == IF IsSeated(u) THEN [matches EXCEPT ![m] = q] ELSE matches
           ts == FinishRound(m, Ends(m))
<1>1. Spawn(ts) /\ matches' = TryFinish(ms, m)
      /\ pending_disbanded_matches' = pending_disbanded_matches
  BY DEF CompleteRound, MatchComplete
<1>2. /\ DOMAIN ms = DOMAIN matches
      /\ \A n \in DOMAIN ms : Sound(ms[n]) /\ Seated(ms[n]) = Seated(matches[n])
  <2>1. CASE ~ IsSeated(u)
    BY <2>1 DEF Inv, RoomsSound
  <2>2. CASE IsSeated(u)
    <3>1. /\ m \in DOMAIN matches /\ Sound(matches[m]) /\ SeatOf(u) \in Slot
          /\ matches[m].slots[SeatOf(u)].user_id # NoUser
      BY <2>2, OwnSeat
    <3>2. "COMPLETE" \in HAS_PLAYER \ {"PLAYING"}
      BY DEF HAS_PLAYER
    <3>3. Sound(q) /\ Seated(q) = Seated(matches[m])
      BY <3>1, <3>2, SoundStatus
    <3>4. ms = [matches EXCEPT ![m] = q]
      BY <2>2
    <3> HIDE DEF q, m, ms
    <3>5. QED
      BY <3>1, <3>3, <3>4 DEF Inv, RoomsSound
  <2>3. QED
    BY <2>1, <2>2
<1> HIDE DEF ms, q
<1>3. /\ DOMAIN matches' = DOMAIN matches
      /\ \A n \in DOMAIN matches : /\ Sound(matches'[n]) /\ Sound(matches[n])
                                   /\ Seated(matches'[n]) = Seated(matches[n])
  BY <1>1, <1>2, Finishing DEF Inv, RoomsSound
<1>4. \A n \in DOMAIN matches : Shown(matches'[n]) \subseteq Shown(matches[n])
  BY <1>3, ShownSeated
<1>5. /\ ts \in Seq(Task)
      /\ \A t : Has(ts, t) => m \in DOMAIN matches' /\ t \in {Upsert(m, matches'[m]), Record(m)}
  <2>1. CASE m \in DOMAIN matches'
    BY <2>1, FinishesRound
  <2>2. CASE m \notin DOMAIN matches'
    BY <2>2, HasNothing DEF FinishRound, Ends
  <2>3. QED
    BY <2>1, <2>2
<1> HIDE DEF ts, m
<1>6. Truthful(ts)
  BY <1>5 DEF Truthful
<1>7. Clears(ts) /\ Shows(ts)
  BY <1>1, <1>3, <1>4 DEF Clears, Kept, Shows
<1>8. QED
  BY <1>1, <1>5, <1>6, <1>7, ArmStep

LEMMA ReportRoomStep ==
  ASSUME Inv, LiveInv, Inv', NEW u \in User, Report(u)
  PROVE  LiveInv'
<1>1. /\ matches' = matches /\ pending_disbanded_matches' = pending_disbanded_matches
      /\ Spawn(<< >>)
  BY DEF Report, MatchLoadComplete, MatchScoreUpdate
<1>2. QED
  BY <1>1, QuietStep DEF Kept

-----------------------------------------------------------------------------
(* Every step *)

LEMMA LiveInitInv == LiveInit => Inv /\ LiveInv
<1>1. Init => Inv
  BY InitInv
<1>2. Init /\ InitDb => LiveInv
  BY DEF Init, InitDb, LiveInv, LiveTyped, AllCleaned, AllSeen, Cleaned
<1>3. QED
  BY <1>1, <1>2 DEF LiveInit

LEMMA RestartStep == Restart => Inv' /\ LiveInv'
<1>1. Restart => Init' /\ InitDb'
  BY DEF Restart, ClearOnStartup, Init, InitDb
<1>2. LiveInit' => Inv' /\ LiveInv'
  BY LiveInitInv, PTL
<1>3. QED
  BY <1>1, <1>2 DEF LiveInit

LEMMA LiveNextInv == Inv /\ LiveInv /\ [LiveNext]_allVars => Inv' /\ LiveInv'
<1> SUFFICES ASSUME Inv, LiveInv, [LiveNext]_allVars PROVE Inv' /\ LiveInv'
  OBVIOUS
<1>1. CASE Restart
  BY <1>1, RestartStep
<1>2. ASSUME NEW u \in User, Handle(u) PROVE Inv' /\ LiveInv'
  <2>1. Inv'
    BY <1>2, HandleIsStep, NextInv
  <2>2. QED
    BY <1>2, <2>1, CreateRoomStep, JoinRoomStep, PartRoomStep, LogoutRoomStep, ChangeRoomStep,
       ChangeTeamStep, CompleteRoundStep, ReportRoomStep DEF Handle
<1>3. ASSUME NEW i \in DOMAIN tasks, RunTask(i) \/ FailTask(i) PROVE Inv' /\ LiveInv'
  <2>1. UNCHANGED vars
    BY <1>3 DEF RunTask, FailTask, vars
  <2>2. Inv'
    BY <2>1, NextInv
  <2>3. QED
    BY <1>3, <2>2, TaskStep
<1>4. CASE UNCHANGED allVars
  <2>1. Inv'
    BY <1>4, NextInv DEF allVars
  <2>2. matches' = matches /\ pending_disbanded_matches' = pending_disbanded_matches
        /\ multi_rooms' = multi_rooms /\ multi_games' = multi_games /\ tasks' = tasks /\ stale' = stale
    BY <1>4 DEF allVars, vars
  <2>3. LiveInv'
    BY <2>2 DEF LiveInv, LiveTyped, AllCleaned, AllSeen, Kept, Cleaned, Seen, Shown, DbLiveRoom,
                Players, DeletedAfter, DecidedAfter
  <2>4. QED
    BY <2>1, <2>3
<1>5. QED
  BY <1>1, <1>2, <1>3, <1>4 DEF LiveNext

THEOREM LiveInvariance == LiveSpec => [](Inv /\ LiveInv)
<1>1. QED
  BY LiveInitInv, LiveNextInv, PTL DEF LiveSpec

-----------------------------------------------------------------------------
(* What the invariant says *)

\* Rooms, rows and tasks keep their types.
THEOREM LiveTypeCorrect == LiveSpec => []LiveTypeOK
<1>1. Inv /\ LiveInv => LiveTypeOK
  BY DEF Inv, LiveInv, LiveTyped, LiveTypeOK, DbRoom, Task
<1>2. QED
  BY <1>1, LiveInvariance, PTL

\* Once no task is left and no disbanded room waits for its cleanup, a room that is
\* gone has no row and no game, unless the last task to write or delete its row failed
\* or was overtaken.
THEOREM GhostsAreStale == LiveSpec => []OnlyStaleGhosts
<1>1. LiveInv => OnlyStaleGhosts
  <2> SUFFICES ASSUME LiveInv, AtRest, NEW m \in DOMAIN multi_rooms \cup multi_games,
                      m \notin stale
               PROVE  m \in DOMAIN matches
    BY DEF OnlyStaleGhosts
  <2>1. m \in MatchId
    BY DEF LiveInv, LiveTyped
  <2>2. ~ DeletedAfter(m, 0)
    BY DEF AtRest, DeletedAfter
  <2>3. m \in Kept
    BY <2>1, <2>2 DEF LiveInv, AllCleaned, Cleaned
  <2>4. QED
    BY <2>3 DEF Kept, AtRest
<1>2. QED
  BY <1>1, LiveInvariance, PTL

\* Once no task is left, the row of a live room misses none of its players, unless the
\* last task to write it failed or was overtaken.
THEOREM NobodyLeftOut == LiveSpec => []NobodyMissing
<1>1. LiveInv => NobodyMissing
  <2> SUFFICES ASSUME LiveInv, tasks = << >>,
                      NEW m \in (DOMAIN matches \cap DOMAIN multi_rooms) \ stale
               PROVE  DbLiveRoom(matches[m]).players \subseteq multi_rooms[m].players
    BY DEF NobodyMissing
  <2>1. ~ DecidedAfter(m, 0)
    BY DEF DecidedAfter
  <2>2. Shown(matches[m]) \subseteq multi_rooms[m].players
    BY <2>1 DEF LiveInv, AllSeen, Seen
  <2>3. QED
    BY <2>2 DEF Shown
<1>2. QED
  BY <1>1, LiveInvariance, PTL
=============================================================================
