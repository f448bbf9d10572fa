--------------------------- MODULE MultiplayerProofs ---------------------------
(***************************************************************************)
(* Theorems about module Multiplayer, for any number of users, slots and   *)
(* room ids: with room ids that wrap around onto live rooms first, then    *)
(* what holds while room ids are fresh (SpecFresh), that the rooms         *)
(* implement module RoomDirectory among it.                                *)
(*                                                                         *)
(* The invariants of Multiplayer are mostly about one room at a time.      *)
(* Sound(r) gathers what they say of room r.  The lemmas on rooms show     *)
(* that every room a handler makes out of a sound one is sound; the lemmas *)
(* on steps put the rooms back together.                                   *)
(*                                                                         *)
(* For the directory, who plays in a room is told by its slots: lemmas say *)
(* what each handler does to the seats of other users and to the players   *)
(* of the round, and then that the handlers that act in a room, and the    *)
(* ones that leave it, are steps of the directory.                         *)
(***************************************************************************)
EXTENDS Multiplayer, WellFoundedInduction, TLAPS

-----------------------------------------------------------------------------
(* The least element of a set of naturals *)

NatLess == {ss \in Nat \X Nat : ss[1] < ss[2]}

LEMMA NatLessWellFounded == IsWellFoundedOn(NatLess, Nat)
<1>1. OpToRel(<, Nat) = NatLess
  BY DEF OpToRel, NatLess
<1>2. QED
  BY <1>1, NatLessThanWellFounded

\* Handlers look for the first slot of some kind: Min is one of the slots looked for.
LEMMA MinInSet ==
  ASSUME NEW S \in SUBSET Nat, S # {}
  PROVE  Min(S) \in S
<1>1. PICK x \in S : \A y \in S : ~ (<<y, x>> \in NatLess)
  BY NatLessWellFounded, WFMin
<1>2. \A y \in S : x =< y
  <2> TAKE y \in S
  <2>1. <<y, x>> \in Nat \X Nat /\ ~ (<<y, x>> \in NatLess)
    BY <1>1
  <2>2. ~ (<<y, x>>[1] < <<y, x>>[2])
    BY <2>1 DEF NatLess
  <2>3. QED
    BY <2>2
<1>3. QED
  BY <1>2 DEF Min

LEMMA FirstSlot ==
  ASSUME NEW S \in SUBSET Slot, S # {}
  PROVE  Min(S) \in S
<1>1. S \in SUBSET Nat
  BY MultiplayerAssumption DEF Slot
<1>2. QED
  BY <1>1, MinInSet

-----------------------------------------------------------------------------
(* Rooms *)

\* The users who sit in room r.
Seated(r) == {r.slots[s].user_id : s \in Slot} \ {NoUser}

OneSeatEach(r) ==
    \A s, t \in Slot :
        r.slots[s].user_id = r.slots[t].user_id /\ r.slots[s].user_id # NoUser => s = t

Sound(r) ==
    /\ r \in Match
    /\ \A s \in Slot : r.slots[s].status \in HAS_PLAYER <=> r.slots[s].user_id # NoUser
    /\ OneSeatEach(r)
    /\ r.host_id \in Seated(r)
    /\ InStatus(r, "PLAYING") # {} => r.in_progress

LEMMA SoundNewMatch ==
  ASSUME NEW u \in User
  PROVE  Sound(NewMatch(u)) /\ Seated(NewMatch(u)) = {u} /\ ~ NewMatch(u).in_progress
<1>1. 0 \in Slot
  BY MultiplayerAssumption DEF Slot
<1>2. QED
  BY <1>1, MultiplayerAssumption
     DEF Sound, NewMatch, Match, MatchSlot, HAS_PLAYER, DefaultSlot, OneSeatEach, Seated, InStatus

\* The players of a sound room are the users who sit in it.
LEMMA PlayersSeated ==
  ASSUME NEW r, Sound(r)
  PROVE  /\ \A s \in Players(r) : r.slots[s].user_id \in Seated(r)
         /\ \A v \in Seated(r) : \E s \in Players(r) : r.slots[s].user_id = v
  BY DEF Sound, Players, Seated

\* Leaving a room takes exactly the leaving user out of it, and leaves a sound
\* room if somebody is left.
LEMMA SoundVacate ==
  ASSUME NEW r, NEW u \in User, Sound(r), SeatsOf(r, u) # {}
  PROVE  /\ Seated(Vacate(r, u)) = Seated(r) \ {u}
         /\ Vacate(r, u).in_progress = r.in_progress
         /\ Players(Vacate(r, u)) # {} => Sound(Vacate(r, u))
<1> DEFINE k == Min(SeatsOf(r, u))
           v == [r EXCEPT !.slots[k] = DefaultSlot]
<1>1. k \in Slot /\ r.slots[k].user_id = u
  BY FirstSlot DEF SeatsOf
<1>2. u # NoUser
  BY MultiplayerAssumption
<1>3. /\ v.host_id = r.host_id /\ v.in_progress = r.in_progress
      /\ v \in Match
      /\ \A s \in Slot : v.slots[s] = IF s = k THEN DefaultSlot ELSE r.slots[s]
  BY <1>1 DEF Sound, Match, MatchSlot, DefaultSlot
<1>4. /\ \A s \in Slot : v.slots[s].status \in HAS_PLAYER <=> v.slots[s].user_id # NoUser
      /\ OneSeatEach(v)
  BY <1>1, <1>3 DEF Sound, DefaultSlot, HAS_PLAYER, OneSeatEach
<1>5. Seated(v) = Seated(r) \ {u}
  BY <1>1, <1>2, <1>3 DEF Sound, DefaultSlot, Seated, OneSeatEach
<1>6. InStatus(v, "PLAYING") # {} => v.in_progress
  BY <1>3 DEF Sound, DefaultSlot, InStatus
<1>7. CASE ~ (r.host_id = u /\ Players(v) # {})
  <2>1. Vacate(r, u) = v
    BY <1>7 DEF Vacate
  <2>2. Players(v) # {} => v.host_id \in Seated(v)
    BY <1>3, <1>5, <1>7 DEF Sound
  <2>3. Players(v) # {} => Sound(v)
    BY <1>3, <1>4, <1>6, <2>2 DEF Sound
  <2>4. QED
    BY <2>1, <2>3, <1>3, <1>5
<1>8. CASE r.host_id = u /\ Players(v) # {}
  <2> DEFINE h == v.slots[Min(Players(v))].user_id
             w == [v EXCEPT !.host_id = h]
  <2>1. Vacate(r, u) = w
    BY <1>8 DEF Vacate
  <2>2. Min(Players(v)) \in Players(v)
    BY <1>8, FirstSlot DEF Players
  <2>3. h \in User /\ h \in Seated(v)
    BY <2>2, <1>3 DEF Players, Seated, Match, MatchSlot
  <2>4. /\ w \in Match /\ w.host_id = h /\ w.in_progress = v.in_progress
        /\ w.slots = v.slots
    BY <2>3, <1>3 DEF Match
  <2>5. Seated(w) = Seated(v) /\ OneSeatEach(w) /\ InStatus(w, "PLAYING") = InStatus(v, "PLAYING")
    BY <2>4, <1>4 DEF Seated, OneSeatEach, InStatus
  <2>6. Sound(w)
    BY <2>3, <2>4, <2>5, <1>4, <1>6 DEF Sound
  <2>7. QED
    BY <2>1, <2>4, <2>5, <2>6, <1>3, <1>5
<1>9. QED
  BY <1>7, <1>8

\* A room in which only statuses change, and no status starts or stops standing
\* for a player, keeps its players.
LEMMA SoundRestatus ==
  ASSUME NEW r, Sound(r), NEW q \in Match,
         q.host_id = r.host_id,
         \A s \in Slot : /\ q.slots[s].user_id = r.slots[s].user_id
                         /\ q.slots[s].status \in HAS_PLAYER <=> r.slots[s].status \in HAS_PLAYER,
         InStatus(q, "PLAYING") # {} => q.in_progress
  PROVE  Sound(q) /\ Seated(q) = Seated(r)
<1>1. Seated(q) = Seated(r) /\ OneSeatEach(q)
  BY DEF Sound, Seated, OneSeatEach
<1>2. QED
  BY <1>1 DEF Sound

\* A round that is over ends for every player.
LEMMA SoundConclude ==
  ASSUME NEW r, Sound(r)
  PROVE  /\ Sound(Conclude(r)) /\ Seated(Conclude(r)) = Seated(r)
         /\ ~ Conclude(r).in_progress
<1> DEFINE q == Conclude(r)
<1>1. /\ q \in Match /\ q.host_id = r.host_id /\ ~ q.in_progress
      /\ \A s \in Slot : q.slots[s] = IF r.slots[s].status \in HAS_PLAYER
                                     THEN [r.slots[s] EXCEPT !.status = "NOT_READY"]
                                     ELSE r.slots[s]
  <2>1. r \in Match /\ \A s \in Slot : r.slots[s] \in MatchSlot
    BY DEF Sound, Match
  <2>2. /\ q.host_id = r.host_id /\ q.in_progress = FALSE
        /\ q.slots = [s \in Slot |-> IF r.slots[s].status \in HAS_PLAYER
                                     THEN [r.slots[s] EXCEPT !.status = "NOT_READY"]
                                     ELSE r.slots[s]]
    BY <2>1 DEF Conclude, Match
  <2>3. \A s \in Slot : [r.slots[s] EXCEPT !.status = "NOT_READY"] \in MatchSlot
    BY <2>1 DEF MatchSlot, HAS_PLAYER
  <2>4. q.slots \in [Slot -> MatchSlot]
    BY <2>1, <2>2, <2>3
  <2>5. q \in Match
    BY <2>1, <2>4 DEF Conclude, Match
  <2>6. QED
    BY <2>2, <2>5
<1>2. \A s \in Slot : /\ q.slots[s].user_id = r.slots[s].user_id
                      /\ q.slots[s].status \in HAS_PLAYER <=> r.slots[s].status \in HAS_PLAYER
                      /\ q.slots[s].status # "PLAYING"
  <2> TAKE s \in Slot
  <2>1. r.slots[s] \in MatchSlot
    BY DEF Sound, Match
  <2>2. QED
    BY <1>1, <2>1 DEF MatchSlot, HAS_PLAYER
<1>3. InStatus(q, "PLAYING") = {}
  BY <1>2 DEF InStatus
<1> HIDE DEF q
<1>4. Sound(q) /\ Seated(q) = Seated(r)
  BY <1>1, <1>2, <1>3, SoundRestatus
<1>5. QED
  BY <1>1, <1>4 DEF q

\* Starting a round, over an old one or not.
LEMMA SoundStarted ==
  ASSUME NEW r, Sound(r)
  PROVE  Sound(Started(r)) /\ Seated(Started(r)) = Seated(r)
<1> DEFINE q == Started(r)
<1>1. /\ q \in Match /\ q.host_id = r.host_id /\ q.in_progress
      /\ \A s \in Slot : q.slots[s] = IF r.slots[s].status \in {"READY", "NOT_READY"}
                                     THEN [r.slots[s] EXCEPT !.status = "PLAYING"]
                                     ELSE r.slots[s]
  <2>1. r \in Match /\ \A s \in Slot : r.slots[s] \in MatchSlot
    BY DEF Sound, Match
  <2>2. /\ q.host_id = r.host_id /\ q.in_progress = TRUE
        /\ q.slots = [s \in Slot |-> IF r.slots[s].status \in {"READY", "NOT_READY"}
                                     THEN [r.slots[s] EXCEPT !.status = "PLAYING"]
                                     ELSE r.slots[s]]
    BY <2>1 DEF Started, Match
  <2>3. \A s \in Slot : [r.slots[s] EXCEPT !.status = "PLAYING"] \in MatchSlot
    BY <2>1 DEF MatchSlot, HAS_PLAYER
  <2>4. q.slots \in [Slot -> MatchSlot]
    BY <2>1, <2>2, <2>3
  <2>5. q \in Match
    BY <2>1, <2>4 DEF Started, Match
  <2>6. QED
    BY <2>2, <2>5
<1>2. \A s \in Slot : /\ q.slots[s].user_id = r.slots[s].user_id
                      /\ q.slots[s].status \in HAS_PLAYER <=> r.slots[s].status \in HAS_PLAYER
  <2> TAKE s \in Slot
  <2>1. r.slots[s] \in MatchSlot
    BY DEF Sound, Match
  <2>2. QED
    BY <1>1, <2>1 DEF MatchSlot, HAS_PLAYER
<1> HIDE DEF q
<1>3. Sound(q) /\ Seated(q) = Seated(r)
  BY <1>1, <1>2, SoundRestatus
<1>4. QED
  BY <1>3 DEF q

\* Changed settings only cost players their readiness.
LEMMA SoundSettled ==
  ASSUME NEW r, Sound(r), NEW u
  PROVE  /\ Sound(Settled(r, u)) /\ Seated(Settled(r, u)) = Seated(r)
         /\ Settled(r, u).in_progress = r.in_progress
<1> DEFINE q == Settled(r, u)
<1>1. /\ q \in Match /\ q.host_id = r.host_id /\ q.in_progress = r.in_progress
      /\ \A s \in Slot : q.slots[s] = IF /\ r.slots[s].user_id \notin {NoUser, u}
                                         /\ r.slots[s].status = "READY"
                                     THEN [r.slots[s] EXCEPT !.status = "NOT_READY"]
                                     ELSE r.slots[s]
  BY DEF Sound, Settled, Match, MatchSlot, HAS_PLAYER
<1>2. \A s \in Slot : /\ q.slots[s].user_id = r.slots[s].user_id
                      /\ q.slots[s].status \in HAS_PLAYER <=> r.slots[s].status \in HAS_PLAYER
                      /\ q.slots[s].status = "PLAYING" => r.slots[s].status = "PLAYING"
  <2> TAKE s \in Slot
  <2>1. r.slots[s] \in MatchSlot
    BY DEF Sound, Match
  <2>2. QED
    BY <1>1, <2>1 DEF MatchSlot, HAS_PLAYER
<1>3. InStatus(q, "PLAYING") # {} => q.in_progress
  BY <1>1, <1>2 DEF InStatus, Sound
<1> HIDE DEF q
<1>4. Sound(q) /\ Seated(q) = Seated(r)
  BY <1>1, <1>2, <1>3, SoundRestatus
<1>5. QED
  BY <1>1, <1>4 DEF q

\* A player's own slot takes a status other than PLAYING.
LEMMA SoundStatus ==
  ASSUME NEW r, Sound(r), NEW k \in Slot, r.slots[k].user_id # NoUser,
         NEW st \in HAS_PLAYER \ {"PLAYING"}
  PROVE  /\ Sound([r EXCEPT !.slots[k].status = st])
         /\ Seated([r EXCEPT !.slots[k].status = st]) = Seated(r)
         /\ [r EXCEPT !.slots[k].status = st].in_progress = r.in_progress
<1> DEFINE q == [r EXCEPT !.slots[k].status = st]
<1>1. /\ q \in Match /\ q.host_id = r.host_id /\ q.in_progress = r.in_progress
      /\ \A s \in Slot : q.slots[s] = IF s = k THEN [r.slots[s] EXCEPT !.status = st]
                                              ELSE r.slots[s]
  BY DEF Sound, Match, MatchSlot
<1>2. \A s \in Slot : /\ q.slots[s].user_id = r.slots[s].user_id
                      /\ q.slots[s].status \in HAS_PLAYER <=> r.slots[s].status \in HAS_PLAYER
                      /\ q.slots[s].status = "PLAYING" => r.slots[s].status = "PLAYING"
  <2> TAKE s \in Slot
  <2>1. r.slots[s] \in MatchSlot
    BY DEF Sound, Match
  <2>2. QED
    BY <1>1, <2>1 DEF MatchSlot, Sound
<1>3. InStatus(q, "PLAYING") # {} => q.in_progress
  BY <1>1, <1>2 DEF InStatus, Sound
<1> HIDE DEF q
<1>4. Sound(q) /\ Seated(q) = Seated(r)
  BY <1>1, <1>2, <1>3, SoundRestatus
<1>5. QED
  BY <1>1, <1>4 DEF q

\* A slot without a player is locked or opened.
LEMMA SoundLock ==
  ASSUME NEW r, Sound(r), NEW k \in Slot, r.slots[k].status \notin HAS_PLAYER,
         NEW st \in {"OPEN", "LOCKED"}
  PROVE  /\ Sound([r EXCEPT !.slots[k].status = st])
         /\ Seated([r EXCEPT !.slots[k].status = st]) = Seated(r)
         /\ [r EXCEPT !.slots[k].status = st].in_progress = r.in_progress
<1> DEFINE q == [r EXCEPT !.slots[k].status = st]
<1>1. /\ q \in Match /\ q.host_id = r.host_id /\ q.in_progress = r.in_progress
      /\ \A s \in Slot : q.slots[s] = IF s = k THEN [r.slots[s] EXCEPT !.status = st]
                                              ELSE r.slots[s]
  BY DEF Sound, Match, MatchSlot
<1>2. \A s \in Slot : /\ q.slots[s].user_id = r.slots[s].user_id
                      /\ q.slots[s].status \in HAS_PLAYER <=> r.slots[s].status \in HAS_PLAYER
                      /\ q.slots[s].status = "PLAYING" => r.slots[s].status = "PLAYING"
  <2> TAKE s \in Slot
  <2>1. r.slots[s] \in MatchSlot
    BY DEF Sound, Match
  <2>2. QED
    BY <1>1, <2>1 DEF MatchSlot, Sound, HAS_PLAYER
<1>3. InStatus(q, "PLAYING") # {} => q.in_progress
  BY <1>1, <1>2 DEF InStatus, Sound
<1> HIDE DEF q
<1>4. Sound(q) /\ Seated(q) = Seated(r)
  BY <1>1, <1>2, <1>3, SoundRestatus
<1>5. QED
  BY <1>1, <1>4 DEF q

\* A player moves to a free slot.
LEMMA SoundMoved ==
  ASSUME NEW r, Sound(r), NEW k \in Slot, NEW n \in FreeSlots(r), r.slots[k].user_id # NoUser
  PROVE  /\ Sound(Moved(r, k, n)) /\ Seated(Moved(r, k, n)) = Seated(r)
         /\ Moved(r, k, n).in_progress = r.in_progress
<1> DEFINE q == Moved(r, k, n)
<1>1. /\ n \in Slot /\ r.slots[n].status = "OPEN" /\ r.slots[n].user_id = NoUser
      /\ n # k
  BY DEF FreeSlots, InStatus, Sound, HAS_PLAYER
<1>2. /\ q \in Match /\ q.host_id = r.host_id /\ q.in_progress = r.in_progress
      /\ \A s \in Slot : q.slots[s] = IF s = k THEN DefaultSlot
                                     ELSE IF s = n THEN r.slots[k] ELSE r.slots[s]
  BY <1>1 DEF Sound, Match, MatchSlot, DefaultSlot, Moved
<1> HIDE DEF q
<1>3. \A s \in Slot : q.slots[s].status \in HAS_PLAYER <=> q.slots[s].user_id # NoUser
  BY <1>2 DEF Sound, DefaultSlot, HAS_PLAYER
<1>4. OneSeatEach(q)
  BY <1>1, <1>2 DEF Sound, DefaultSlot, OneSeatEach
<1>5. Seated(q) = Seated(r)
  <2>1. Seated(q) \subseteq Seated(r)
    BY <1>2 DEF Seated, DefaultSlot
  <2>2. ASSUME NEW v \in Seated(r) PROVE v \in Seated(q)
    <3>1. PICK s \in Slot : r.slots[s].user_id = v /\ v # NoUser
      BY DEF Seated
    <3>2. CASE s = k
      BY <1>1, <1>2, <3>1, <3>2 DEF Seated
    <3>3. CASE s # k
      BY <1>1, <1>2, <3>1, <3>3 DEF Seated
    <3>4. QED
      BY <3>2, <3>3
  <2>3. QED
    BY <2>1, <2>2
<1>6. InStatus(q, "PLAYING") # {} => q.in_progress
  BY <1>2 DEF InStatus, Sound, DefaultSlot
<1>7. Sound(q)
  BY <1>2, <1>3, <1>4, <1>5, <1>6 DEF Sound
<1>8. QED
  BY <1>2, <1>5, <1>7 DEF q

\* A user who is not in the room takes a free slot.
LEMMA SoundJoined ==
  ASSUME NEW r, Sound(r), NEW k \in FreeSlots(r), NEW u \in User, u \notin Seated(r)
  PROVE  LET q == [r EXCEPT !.slots[k] = [status |-> "NOT_READY", user_id |-> u]]
         IN  Sound(q) /\ Seated(q) = Seated(r) \cup {u} /\ q.in_progress = r.in_progress
<1> DEFINE q == [r EXCEPT !.slots[k] = [status |-> "NOT_READY", user_id |-> u]]
<1>1. k \in Slot /\ r.slots[k].user_id = NoUser /\ u # NoUser
  BY MultiplayerAssumption DEF FreeSlots, InStatus, Sound, HAS_PLAYER
<1>2. /\ q \in Match /\ q.host_id = r.host_id /\ q.in_progress = r.in_progress
      /\ \A s \in Slot : q.slots[s] = IF s = k THEN [status |-> "NOT_READY", user_id |-> u]
                                              ELSE r.slots[s]
  BY <1>1 DEF Sound, Match, MatchSlot, HAS_PLAYER
<1> HIDE DEF q
<1>3. \A s \in Slot : q.slots[s].status \in HAS_PLAYER <=> q.slots[s].user_id # NoUser
  BY <1>1, <1>2 DEF Sound, HAS_PLAYER
<1>4. OneSeatEach(q)
  BY <1>1, <1>2 DEF Sound, OneSeatEach, Seated
<1>5. Seated(q) = Seated(r) \cup {u}
  BY <1>1, <1>2 DEF Seated
<1>6. InStatus(q, "PLAYING") # {} => q.in_progress
  BY <1>2 DEF InStatus, Sound
<1>7. Sound(q)
  BY <1>2, <1>3, <1>4, <1>5, <1>6 DEF Sound
<1>8. QED
  BY <1>2, <1>5, <1>7 DEF q

\* Another player becomes the host.
LEMMA SoundHost ==
  ASSUME NEW r, Sound(r), NEW k \in Slot, r.slots[k].status \in HAS_PLAYER
  PROVE  LET q == [r EXCEPT !.host_id = r.slots[k].user_id]
         IN  Sound(q) /\ Seated(q) = Seated(r) /\ q.in_progress = r.in_progress
<1> DEFINE q == [r EXCEPT !.host_id = r.slots[k].user_id]
<1>1. r.slots[k].user_id \in User /\ r.slots[k].user_id \in Seated(r)
  BY DEF Sound, Match, MatchSlot, Seated
<1>2. /\ q \in Match /\ q.host_id = r.slots[k].user_id /\ q.in_progress = r.in_progress
      /\ q.slots = r.slots
  BY <1>1 DEF Sound, Match
<1> HIDE DEF q
<1>3. Seated(q) = Seated(r) /\ OneSeatEach(q) /\ InStatus(q, "PLAYING") = InStatus(r, "PLAYING")
  BY <1>2 DEF Sound, Seated, OneSeatEach, InStatus
<1>4. Sound(q)
  BY <1>1, <1>2, <1>3 DEF Sound
<1>5. QED
  BY <1>2, <1>3, <1>4 DEF q

-----------------------------------------------------------------------------
(* The inductive invariant *)

RoomsSound == \A m \in DOMAIN matches : Sound(matches[m])
Registered == \A m \in DOMAIN matches : \A v \in Seated(matches[m]) : user_to_match[v] = m
Clocks     == \A m \in DOMAIN matches : matches[m].in_progress => m \in match_start_times

Inv == TypeOK /\ RoomsSound /\ Registered /\ Clocks /\ ScoresOfLiveRooms

LEMMA SeatedUsers ==
  ASSUME NEW r, Sound(r)
  PROVE  /\ Seated(r) \subseteq User
         /\ \A v \in User : v \in Seated(r) <=> SeatsOf(r, v) # {}
  BY MultiplayerAssumption DEF Seated, SeatsOf, Sound, Match, MatchSlot

\* The slot that a handler finds for a seated user.
LEMMA OwnSeat ==
  ASSUME Inv, NEW u \in User, IsSeated(u)
  PROVE  /\ RoomOf(u) \in DOMAIN matches /\ Sound(matches[RoomOf(u)])
         /\ SeatOf(u) \in Slot
         /\ matches[RoomOf(u)].slots[SeatOf(u)].user_id = u
         /\ u # NoUser
<1>1. SeatsOf(matches[RoomOf(u)], u) \in SUBSET Slot /\ SeatsOf(matches[RoomOf(u)], u) # {}
  BY DEF IsSeated, SeatsOf
<1>2. SeatOf(u) \in SeatsOf(matches[RoomOf(u)], u)
  BY <1>1, FirstSlot DEF SeatOf
<1>3. QED
  BY <1>2, MultiplayerAssumption DEF Inv, RoomsSound, IsSeated, SeatsOf

\* The rooms once u has left: u is in none of them, and nothing else is different.
LEMMA Leaving ==
  ASSUME Inv, NEW u \in User
  PROVE  /\ DOMAIN Without(u) \subseteq DOMAIN matches
         /\ \A n \in DOMAIN Without(u) :
              /\ Sound(Without(u)[n])
              /\ Seated(Without(u)[n]) = Seated(matches[n]) \ {u}
              /\ Without(u)[n].in_progress = matches[n].in_progress
<1> DEFINE k == RoomOf(u)
           r == Vacate(matches[k], u)
<1>1. \A n \in DOMAIN matches : /\ Sound(matches[n])
                                /\ u \in Seated(matches[n]) <=> n = k /\ IsSeated(u)
  BY SeatedUsers DEF Inv, RoomsSound, Registered, IsSeated, RoomOf
<1>2. CASE ~ IsSeated(u)
  BY <1>1, <1>2 DEF Without
<1>3. CASE IsSeated(u)
  <2>1. k \in DOMAIN matches /\ SeatsOf(matches[k], u) # {}
    BY <1>3 DEF IsSeated
  <2>2. /\ Seated(r) = Seated(matches[k]) \ {u}
        /\ r.in_progress = matches[k].in_progress
        /\ Players(r) # {} => Sound(r)
    BY <1>1, <2>1, SoundVacate
  <2>3. CASE Players(r) = {}
    <3>1. Without(u) = [n \in DOMAIN matches \ {k} |-> matches[n]]
      BY <1>3, <2>3 DEF Without, Restrict
    <3>2. QED
      BY <3>1, <1>1
  <2>4. CASE Players(r) # {}
    <3>1. Without(u) = [matches EXCEPT ![k] = r]
      BY <1>3, <2>4 DEF Without
    <3>2. QED
      BY <3>1, <1>1, <2>1, <2>2, <2>4
  <2>5. QED
    BY <2>3, <2>4
<1>4. QED
  BY <1>2, <1>3

\* The free slots of a room that u leaves stay free.
LEMMA FreeSlotsStay ==
  ASSUME Inv, NEW u \in User, NEW m \in DOMAIN Without(u), NEW s \in Slot,
         matches[m].slots[s].status = "OPEN"
  PROVE  Without(u)[m].slots[s].status = "OPEN"
<1> DEFINE k == RoomOf(u)
           r == Vacate(matches[k], u)
<1>1. CASE ~ IsSeated(u)
  BY <1>1 DEF Without
<1>2. CASE IsSeated(u)
  <2>1. k \in DOMAIN matches /\ matches[k] \in Match
    BY <1>2 DEF IsSeated, Inv, TypeOK
  <2>2. m # k => Without(u)[m] = matches[m]
    BY <1>2, Leaving DEF Without, Restrict
  <2>3. m = k => Without(u)[m] = r
    BY <1>2, <2>1 DEF Without, Restrict
  <2>4. r.slots = [matches[k].slots EXCEPT ![Min(SeatsOf(matches[k], u))] = DefaultSlot]
    BY <2>1 DEF Vacate, Match
  <2>5. matches[k].slots[s].status = "OPEN" => r.slots[s].status = "OPEN"
    BY <2>1, <2>4 DEF Match, DefaultSlot
  <2>6. QED
    BY <2>2, <2>3, <2>5
<1>3. QED
  BY <1>1, <1>2

\* try_finish_match ends rounds and does nothing else.
LEMMA Finishing ==
  ASSUME NEW ms, \A n \in DOMAIN ms : Sound(ms[n]), NEW m
  PROVE  /\ DOMAIN TryFinish(ms, m) = DOMAIN ms
         /\ \A n \in DOMAIN ms :
              /\ Sound(TryFinish(ms, m)[n])
              /\ Seated(TryFinish(ms, m)[n]) = Seated(ms[n])
              /\ TryFinish(ms, m)[n].in_progress =>
                    ms[n].in_progress /\ n \notin Finished(ms, m)
  BY SoundConclude DEF TryFinish

-----------------------------------------------------------------------------
(* Every step preserves it *)

LEMMA InitInv == Init => Inv
  BY MultiplayerAssumption
     DEF Init, Inv, TypeOK, RoomsSound, Registered, Clocks, ScoresOfLiveRooms, NoMatch, MatchId

\* What Forget leaves in the tables of the rounds.
LEMMA TablesForgotten ==
  ASSUME Inv, NEW ids, ForgetRounds(ids)
  PROVE  /\ match_start_times' \subseteq MatchId
         /\ match_last_scores' \subseteq MatchId \X User
         /\ match_loaded_users' \subseteq MatchId \X User
         /\ \A m \in DOMAIN matches \ ids : m \in match_start_times => m \in match_start_times'
         /\ \A e \in match_last_scores' : e[1] \in DOMAIN matches \ ids
  BY DEF Inv, TypeOK, ForgetRounds, ScoresOfLiveRooms

\* A handler changes one room, and nobody's seat is another's afterwards.
LEMMA InPlace ==
  ASSUME Inv, NEW m \in DOMAIN matches, NEW q,
         Sound(q), Seated(q) = Seated(matches[m]), q.in_progress = matches[m].in_progress,
         matches' = [matches EXCEPT ![m] = q],
         UNCHANGED <<next_match_id, user_to_match, roundVars, pending_disbanded_matches>>
  PROVE  Inv'
<1>1. DOMAIN matches' = DOMAIN matches /\ m \in MatchId
  BY DEF Inv, TypeOK
<1>2. \A n \in DOMAIN matches : matches'[n] = IF n = m THEN q ELSE matches[n]
  OBVIOUS
<1>3. TypeOK'
  BY <1>1, <1>2 DEF Inv, TypeOK, roundVars, Sound, RoomsSound
<1>4. RoomsSound' /\ Registered' /\ Clocks'
  BY <1>1, <1>2 DEF Inv, RoomsSound, Registered, Clocks, roundVars
<1>5. ScoresOfLiveRooms'
  BY <1>1 DEF Inv, ScoresOfLiveRooms, roundVars
<1>6. QED
  BY <1>3, <1>4, <1>5 DEF Inv

LEMMA StatusStep ==
  ASSUME Inv, NEW u \in User, SetsStatus(u)
  PROVE  Inv'
<1>1. PICK st \in HAS_PLAYER \ {"PLAYING"} : SetStatus(u, st)
  BY DEF SetsStatus, MatchReady, MatchNotReady, MatchNoBeatmap, MatchHasBeatmap, HAS_PLAYER
<1> DEFINE m == RoomOf(u)
           q == [matches[m] EXCEPT !.slots[SeatOf(u)].status = st]
<1>2. /\ m \in DOMAIN matches /\ Sound(matches[m]) /\ SeatOf(u) \in Slot
      /\ matches[m].slots[SeatOf(u)].user_id # NoUser
  BY <1>1, OwnSeat DEF SetStatus
<1>3. Sound(q) /\ Seated(q) = Seated(matches[m]) /\ q.in_progress = matches[m].in_progress
  BY <1>2, SoundStatus
<1>4. /\ matches' = [matches EXCEPT ![m] = q]
      /\ UNCHANGED <<next_match_id, user_to_match, roundVars, pending_disbanded_matches>>
  BY <1>1 DEF SetStatus
<1> HIDE DEF q, m
<1>5. QED
  BY <1>2, <1>3, <1>4, InPlace

LEMMA ChangeSlotStep ==
  ASSUME Inv, NEW u \in User, NEW s \in Slot, MatchChangeSlot(u, s)
  PROVE  Inv'
<1> DEFINE m == RoomOf(u)
           q == Moved(matches[m], SeatOf(u), s)
<1>1. /\ m \in DOMAIN matches /\ Sound(matches[m]) /\ SeatOf(u) \in Slot
      /\ matches[m].slots[SeatOf(u)].user_id # NoUser
      /\ s \in FreeSlots(matches[m])
  BY OwnSeat DEF MatchChangeSlot
<1>2. Sound(q) /\ Seated(q) = Seated(matches[m]) /\ q.in_progress = matches[m].in_progress
  BY <1>1, SoundMoved
<1>3. /\ matches' = [matches EXCEPT ![m] = q]
      /\ UNCHANGED <<next_match_id, user_to_match, roundVars, pending_disbanded_matches>>
  BY DEF MatchChangeSlot
<1> HIDE DEF q, m
<1>4. QED
  BY <1>1, <1>2, <1>3, InPlace

LEMMA LockStep ==
  ASSUME Inv, NEW u \in User, NEW s \in Slot, MatchLock(u, s)
  PROVE  Inv'
<1> DEFINE m  == RoomOf(u)
           st == IF matches[m].slots[s].status = "OPEN" THEN "LOCKED" ELSE "OPEN"
           q  == [matches[m] EXCEPT !.slots[s].status = st]
<1>1. m \in DOMAIN matches /\ Sound(matches[m])
  BY DEF MatchLock, Hosts, Inv, RoomsSound
<1>2. matches[m].slots[s].status \notin HAS_PLAYER
  BY DEF MatchLock, Lockable, HAS_PLAYER
<1>3. Sound(q) /\ Seated(q) = Seated(matches[m]) /\ q.in_progress = matches[m].in_progress
  <2>1. st \in {"OPEN", "LOCKED"}
    OBVIOUS
  <2> HIDE DEF st
  <2>2. QED
    BY <1>1, <1>2, <2>1, SoundLock
<1>4. /\ matches' = [matches EXCEPT ![m] = q]
      /\ UNCHANGED <<next_match_id, user_to_match, roundVars, pending_disbanded_matches>>
  BY DEF MatchLock
<1> HIDE DEF q, m
<1>5. QED
  BY <1>1, <1>3, <1>4, InPlace

LEMMA SettingsStep ==
  ASSUME Inv, NEW u \in User, MatchChangeSettings(u)
  PROVE  Inv'
<1> DEFINE m == RoomOf(u)
<1>1. m \in DOMAIN matches /\ Sound(matches[m])
  BY DEF MatchChangeSettings, Hosts, Inv, RoomsSound
<1>2. QED
  BY <1>1, SoundSettled, InPlace DEF MatchChangeSettings

LEMMA ChangeHostStep ==
  ASSUME Inv, NEW u \in User, NEW s \in Slot, MatchChangeHost(u, s)
  PROVE  Inv'
<1> DEFINE m == RoomOf(u)
           q == [matches[m] EXCEPT !.host_id = matches[m].slots[s].user_id]
<1>1. /\ m \in DOMAIN matches /\ Sound(matches[m])
      /\ matches[m].slots[s].status \in HAS_PLAYER
  BY DEF MatchChangeHost, Hosts, Inv, RoomsSound
<1>2. Sound(q) /\ Seated(q) = Seated(matches[m]) /\ q.in_progress = matches[m].in_progress
  BY <1>1, SoundHost
<1>3. /\ matches' = [matches EXCEPT ![m] = q]
      /\ UNCHANGED <<next_match_id, user_to_match, roundVars, pending_disbanded_matches>>
  BY DEF MatchChangeHost
<1> HIDE DEF q, m
<1>4. QED
  BY <1>1, <1>2, <1>3, InPlace

\* A handler puts the rooms ms, with the same seats, through try_finish_match.
LEMMA FinishStep ==
  ASSUME Inv, NEW ms, NEW m,
         DOMAIN ms = DOMAIN matches,
         \A n \in DOMAIN ms : /\ Sound(ms[n])
                              /\ Seated(ms[n]) = Seated(matches[n])
                              /\ ms[n].in_progress = matches[n].in_progress,
         matches' = TryFinish(ms, m),
         ForgetRounds(Finished(ms, m)),
         UNCHANGED <<next_match_id, user_to_match, pending_disbanded_matches>>
  PROVE  Inv'
<1>1. /\ DOMAIN matches' = DOMAIN matches
      /\ \A n \in DOMAIN matches : /\ Sound(matches'[n])
                                   /\ Seated(matches'[n]) = Seated(matches[n])
                                   /\ matches'[n].in_progress =>
                                         matches[n].in_progress /\ n \notin Finished(ms, m)
  BY Finishing
<1> DEFINE ids == Finished(ms, m)
<1>2. ForgetRounds(ids)
  OBVIOUS
<1> HIDE DEF ids
<1>3. /\ match_start_times' \subseteq MatchId
      /\ match_last_scores' \subseteq MatchId \X User
      /\ match_loaded_users' \subseteq MatchId \X User
      /\ \A n \in DOMAIN matches \ ids : n \in match_start_times => n \in match_start_times'
      /\ \A e \in match_last_scores' : e[1] \in DOMAIN matches \ ids
  BY <1>2, TablesForgotten
<1>4. user_to_match' = user_to_match /\ next_match_id' = next_match_id
      /\ pending_disbanded_matches' = pending_disbanded_matches
  OBVIOUS
<1>5. RoomsSound'
  BY <1>1 DEF RoomsSound
<1>6. Registered'
  BY <1>1, <1>4 DEF Inv, Registered
<1>7. TypeOK'
  BY <1>1, <1>3, <1>4 DEF Inv, TypeOK, Sound
<1>8. Clocks' /\ ScoresOfLiveRooms'
  BY <1>1, <1>3 DEF Inv, Clocks, ScoresOfLiveRooms, ids
<1>9. QED
  BY <1>5, <1>6, <1>7, <1>8 DEF Inv

LEMMA TeamStep ==
  ASSUME Inv, NEW u \in User, MatchChangeTeam(u)
  PROVE  Inv'
<1> DEFINE m == RoomOf(u)
<1>1. \A n \in DOMAIN matches : Sound(matches[n])
  BY DEF Inv, RoomsSound
<1>2. /\ matches' = TryFinish(matches, m)
      /\ ForgetRounds(Finished(matches, m))
      /\ UNCHANGED <<next_match_id, user_to_match, pending_disbanded_matches>>
  BY DEF MatchChangeTeam
<1> HIDE DEF m
<1>3. QED
  BY <1>1, <1>2, FinishStep

LEMMA CompleteStep ==
  ASSUME Inv, NEW u \in User, MatchComplete(u)
  PROVE  Inv'
<1> DEFINE m  == RoomOf(u)
           q  == [matches[m] EXCEPT !.slots[SeatOf(u)].status = "COMPLETE"]
           ms == IF IsSeated(u) THEN [matches EXCEPT ![m] = q] ELSE matches
<1>1. /\ DOMAIN ms = DOMAIN matches
      /\ \A n \in DOMAIN ms : /\ Sound(ms[n])
                              /\ Seated(ms[n]) = Seated(matches[n])
                              /\ ms[n].in_progress = matches[n].in_progress
  <2>1. CASE ~ IsSeated(u)
    BY <2>1 DEF Inv, RoomsSound
  <2>2. CASE IsSeated(u)
    <3>1. /\ m \in DOMAIN matches /\ Sound(matches[m]) /\ SeatOf(u) \in Slot
          /\ matches[m].slots[SeatOf(u)].user_id # NoUser
      BY <2>2, OwnSeat
    <3>2. "COMPLETE" \in HAS_PLAYER \ {"PLAYING"}
      BY DEF HAS_PLAYER
    <3>3. Sound(q) /\ Seated(q) = Seated(matches[m]) /\ q.in_progress = matches[m].in_progress
      BY <3>1, <3>2, SoundStatus
    <3>4. ms = [matches EXCEPT ![m] = q]
      BY <2>2
    <3> HIDE DEF q, m, ms
    <3>5. QED
      BY <3>1, <3>3, <3>4 DEF Inv, RoomsSound
  <2>3. QED
    BY <2>1, <2>2
<1>2. /\ matches' = TryFinish(ms, m)
      /\ ForgetRounds(Finished(ms, m))
      /\ UNCHANGED <<next_match_id, user_to_match, pending_disbanded_matches>>
  BY DEF MatchComplete
<1> HIDE DEF ms, m, q
<1>3. QED
  BY <1>1, <1>2, FinishStep

LEMMA StartStep ==
  ASSUME Inv, NEW u \in User, MatchStart(u)
  PROVE  Inv'
<1> DEFINE m == RoomOf(u)
<1>1. m \in DOMAIN matches /\ Sound(matches[m]) /\ m \in MatchId
  BY DEF MatchStart, Hosts, Inv, RoomsSound, TypeOK
<1>2. /\ DOMAIN matches' = DOMAIN matches
      /\ \A n \in DOMAIN matches : matches'[n] = IF n = m THEN Started(matches[m]) ELSE matches[n]
  BY <1>1 DEF MatchStart
<1>3. \A n \in DOMAIN matches : Sound(matches'[n]) /\ Seated(matches'[n]) = Seated(matches[n])
  BY <1>2, SoundStarted DEF Inv, RoomsSound
<1>4. TypeOK'
  BY <1>1, <1>2, <1>3 DEF Inv, TypeOK, MatchStart, Sound
<1>5. RoomsSound' /\ Registered' /\ Clocks' /\ ScoresOfLiveRooms'
  BY <1>2, <1>3 DEF Inv, RoomsSound, Registered, Clocks, ScoresOfLiveRooms, MatchStart
<1>6. QED
  BY <1>4, <1>5 DEF Inv

LEMMA ReportStep ==
  ASSUME Inv, NEW u \in User, MatchLoadComplete(u) \/ MatchScoreUpdate(u)
  PROVE  Inv'
<1>1. UNCHANGED <<matches, next_match_id, user_to_match, match_start_times, pending_disbanded_matches>>
  BY DEF MatchLoadComplete, MatchScoreUpdate
<1>2. user_to_match[u] \in MatchId
  BY DEF MatchLoadComplete, MatchScoreUpdate, IsSeated, RoomOf, Inv, TypeOK
<1>3. TypeOK'
  BY <1>1, <1>2 DEF Inv, TypeOK, MatchLoadComplete, MatchScoreUpdate, RoomOf
<1>4. RoomsSound' /\ Registered' /\ Clocks'
  BY <1>1 DEF Inv, RoomsSound, Registered, Clocks
<1>5. ScoresOfLiveRooms'
  BY <1>1 DEF Inv, ScoresOfLiveRooms, MatchLoadComplete, MatchScoreUpdate, IsSeated
<1>6. QED
  BY <1>3, <1>4, <1>5 DEF Inv

LEMMA RemoveStep ==
  ASSUME Inv, NEW u \in User, Logout(u) \/ Evict(u)
  PROVE  Inv'
<1>1. /\ matches' = Without(u)
      /\ user_to_match' = [user_to_match EXCEPT ![u] = NoMatch]
      /\ ForgetRounds(Disbanded(u))
      /\ UNCHANGED next_match_id
  BY DEF Logout, Evict, RemoveSession
<1>2. DOMAIN matches \ Disbanded(u) = DOMAIN matches'
  BY <1>1, Leaving DEF Disbanded
<1>3. pending_disbanded_matches' \subseteq MatchId
  BY DEF Logout, Evict, Disbanded, Inv, TypeOK
<1>4. user_to_match' \in [User -> {NoMatch} \cup MatchId]
  BY <1>1 DEF Inv, TypeOK
<1>5. TypeOK'
  BY <1>1, <1>3, <1>4, TablesForgotten, Leaving DEF Inv, TypeOK, Sound
<1>6. RoomsSound' /\ Clocks' /\ ScoresOfLiveRooms'
  BY <1>1, <1>2, TablesForgotten, Leaving DEF Inv, RoomsSound, Clocks, ScoresOfLiveRooms
<1>7. Registered'
  BY <1>1, Leaving, SeatedUsers DEF Inv, RoomsSound, Registered, TypeOK
<1>8. QED
  BY <1>5, <1>6, <1>7 DEF Inv

\* The new room replaces whatever room had its id.
LEMMA CreateStep ==
  ASSUME Inv, NEW u \in User, MatchCreate(u)
  PROVE  Inv'
<1> DEFINE id == next_match_id
<1>1. /\ DOMAIN matches' = DOMAIN Without(u) \cup {id}
      /\ \A n \in DOMAIN matches' : matches'[n] = IF n = id THEN NewMatch(u) ELSE Without(u)[n]
      /\ user_to_match' = [user_to_match EXCEPT ![u] = id]
      /\ next_match_id' = NextMatchId(id)
      /\ ForgetRounds(Disbanded(u))
      /\ pending_disbanded_matches' = {}
  BY DEF MatchCreate
<1>2. id \in MatchId /\ next_match_id' \in MatchId
  BY <1>1, MultiplayerAssumption DEF Inv, TypeOK, NextMatchId, MatchId
<1>3. /\ \A n \in DOMAIN matches' : Sound(matches'[n])
      /\ \A n \in DOMAIN matches' \ {id} : /\ n \in DOMAIN Without(u)
                                           /\ Seated(matches'[n]) = Seated(matches[n]) \ {u}
                                           /\ matches'[n].in_progress = matches[n].in_progress
      /\ Seated(matches'[id]) = {u} /\ ~ matches'[id].in_progress
  BY <1>1, Leaving, SoundNewMatch
<1>4. DOMAIN Without(u) = DOMAIN matches \ Disbanded(u)
  BY Leaving DEF Disbanded
<1>5. TypeOK'
  BY <1>1, <1>2, <1>3, Leaving, TablesForgotten DEF Inv, TypeOK, Sound
<1>6. RoomsSound'
  BY <1>3 DEF RoomsSound
<1>7. Registered'
  BY <1>1, <1>3, Leaving, SeatedUsers DEF Inv, RoomsSound, Registered, TypeOK
<1>8. Clocks' /\ ScoresOfLiveRooms'
  BY <1>1, <1>3, <1>4, TablesForgotten DEF Inv, Clocks, ScoresOfLiveRooms
<1>9. QED
  BY <1>5, <1>6, <1>7, <1>8 DEF Inv

LEMMA JoinStep ==
  ASSUME Inv, NEW u \in User, NEW m \in MatchId, MatchJoin(u, m)
  PROVE  Inv'
<1> DEFINE ms == Without(u)
<1>1. ForgetRounds(Disbanded(u)) /\ next_match_id' = next_match_id /\ m \in DOMAIN matches
  BY DEF MatchJoin
<1>2. DOMAIN ms = DOMAIN matches \ Disbanded(u)
  BY Leaving DEF Disbanded
<1>3. CASE m \in DOMAIN ms
  <2> DEFINE k == Min(FreeSlots(ms[m]))
             q == [ms[m] EXCEPT !.slots[k] = [status |-> "NOT_READY", user_id |-> u]]
  <2>1. /\ matches' = [ms EXCEPT ![m] = q]
        /\ user_to_match' = [user_to_match EXCEPT ![u] = m]
        /\ pending_disbanded_matches' = {}
    BY <1>3 DEF MatchJoin
  <2>2. Sound(ms[m]) /\ u \notin Seated(ms[m])
    BY <1>3, Leaving
  <2>3. FreeSlots(ms[m]) \in SUBSET Slot /\ FreeSlots(ms[m]) # {}
    <3>1. FreeSlots(matches[m]) # {}
      BY DEF MatchJoin
    <3>2. PICK s \in Slot : matches[m].slots[s].status = "OPEN"
      BY <3>1 DEF FreeSlots, InStatus
    <3>3. ms[m].slots[s].status = "OPEN"
      BY <1>3, <3>2, FreeSlotsStay
    <3>4. QED
      BY <3>3 DEF FreeSlots, InStatus
  <2>4. k \in FreeSlots(ms[m])
    BY <2>3, FirstSlot
  <2>5. Sound(q) /\ Seated(q) = Seated(ms[m]) \cup {u} /\ q.in_progress = ms[m].in_progress
    BY <2>2, <2>4, SoundJoined
  <2> HIDE DEF q, ms
  <2>6. /\ DOMAIN matches' = DOMAIN ms
        /\ \A n \in DOMAIN ms : matches'[n] = IF n = m THEN q ELSE ms[n]
    BY <2>1
  <2>7. \A n \in DOMAIN ms : /\ Sound(matches'[n])
                             /\ Seated(matches'[n]) \subseteq
                                  (Seated(matches[n]) \ {u}) \cup (IF n = m THEN {u} ELSE {})
                             /\ matches'[n].in_progress = matches[n].in_progress
    BY <2>5, <2>6, Leaving DEF ms
  <2>8. TypeOK'
    BY <1>1, <1>2, <2>1, <2>6, <2>7, TablesForgotten DEF Inv, TypeOK, Sound
  <2>9. RoomsSound' /\ Registered'
    BY <1>2, <2>1, <2>6, <2>7, SeatedUsers DEF Inv, RoomsSound, Registered, TypeOK
  <2>10. Clocks' /\ ScoresOfLiveRooms'
    BY <1>1, <1>2, <2>6, <2>7, TablesForgotten DEF Inv, Clocks, ScoresOfLiveRooms
  <2>11. QED
    BY <2>8, <2>9, <2>10 DEF Inv
<1>4. CASE m \notin DOMAIN ms
  <2>1. /\ matches' = ms
        /\ user_to_match' = [user_to_match EXCEPT ![u] = NoMatch]
        /\ pending_disbanded_matches' = pending_disbanded_matches \cup Disbanded(u)
    BY <1>4 DEF MatchJoin
  <2>2. pending_disbanded_matches' \subseteq MatchId
    BY <2>1 DEF Disbanded, Inv, TypeOK
  <2>3. TypeOK'
    BY <1>1, <1>2, <2>1, <2>2, Leaving, TablesForgotten DEF Inv, TypeOK, Sound
  <2>4. RoomsSound' /\ Clocks' /\ ScoresOfLiveRooms'
    BY <1>1, <1>2, <2>1, Leaving, TablesForgotten DEF Inv, RoomsSound, Clocks, ScoresOfLiveRooms
  <2>5. Registered'
    BY <2>1, Leaving, SeatedUsers DEF Inv, RoomsSound, Registered, TypeOK
  <2>6. QED
    BY <2>3, <2>4, <2>5 DEF Inv
<1>5. QED
  BY <1>3, <1>4

LEMMA PartStep ==
  ASSUME Inv, NEW u \in User, MatchPart(u)
  PROVE  Inv'
<1> DEFINE m   == RoomOf(u)
           ms  == Without(u)
           ids == Disbanded(u) \cup Finished(ms, m)
<1>1. user_to_match' = [user_to_match EXCEPT ![u] = NoMatch] /\ next_match_id' = next_match_id
  BY DEF MatchPart
<1>2. CASE IsSeated(u)
  <2>1. /\ matches' = TryFinish(ms, m)
        /\ ForgetRounds(ids)
        /\ pending_disbanded_matches' \subseteq pending_disbanded_matches
    BY <1>2 DEF MatchPart
  <2>2. /\ DOMAIN ms \subseteq DOMAIN matches
        /\ \A n \in DOMAIN ms : /\ Sound(ms[n])
                                /\ Seated(ms[n]) = Seated(matches[n]) \ {u}
                                /\ ms[n].in_progress = matches[n].in_progress
    BY Leaving
  <2>3. /\ DOMAIN matches' = DOMAIN ms
        /\ \A n \in DOMAIN ms : /\ Sound(matches'[n])
                                /\ Seated(matches'[n]) = Seated(matches[n]) \ {u}
                                /\ matches'[n].in_progress =>
                                      matches[n].in_progress /\ n \notin Finished(ms, m)
    BY <2>1, <2>2, Finishing
  <2>4. /\ \A n \in DOMAIN matches' : matches'[n].in_progress => n \in DOMAIN matches \ ids
        /\ DOMAIN matches \ ids \subseteq DOMAIN matches'
    BY <2>2, <2>3 DEF Disbanded
  <2> HIDE DEF ids
  <2>5. /\ match_start_times' \subseteq MatchId
        /\ match_last_scores' \subseteq MatchId \X User
        /\ match_loaded_users' \subseteq MatchId \X User
        /\ \A n \in DOMAIN matches \ ids : n \in match_start_times => n \in match_start_times'
        /\ \A e \in match_last_scores' : e[1] \in DOMAIN matches \ ids
    BY <2>1, TablesForgotten
  <2>6. TypeOK'
    BY <1>1, <2>1, <2>2, <2>3, <2>5 DEF Inv, TypeOK, Sound
  <2>7. RoomsSound' /\ Registered'
    BY <1>1, <2>2, <2>3, SeatedUsers DEF Inv, RoomsSound, Registered, TypeOK
  <2>8. Clocks' /\ ScoresOfLiveRooms'
    BY <2>2, <2>3, <2>4, <2>5 DEF Inv, Clocks, ScoresOfLiveRooms
  <2>9. QED
    BY <2>6, <2>7, <2>8 DEF Inv
<1>3. CASE ~ IsSeated(u)
  <2>1. UNCHANGED <<matches, roundVars, pending_disbanded_matches>>
    BY <1>3 DEF MatchPart
  <2>2. \A n \in DOMAIN matches : u \notin Seated(matches[n])
    BY <1>3, SeatedUsers DEF Inv, RoomsSound, Registered, IsSeated, RoomOf
  <2>3. TypeOK' /\ RoomsSound' /\ Clocks' /\ ScoresOfLiveRooms'
    BY <1>1, <2>1 DEF Inv, TypeOK, RoomsSound, Clocks, ScoresOfLiveRooms, roundVars
  <2>4. Registered'
    BY <1>1, <2>1, <2>2, SeatedUsers DEF Inv, RoomsSound, Registered, TypeOK
  <2>5. QED
    BY <2>3, <2>4 DEF Inv
<1>4. QED
  BY <1>2, <1>3

LEMMA NextInv == Inv /\ [Next]_vars => Inv'
<1> SUFFICES ASSUME Inv, [Next]_vars PROVE Inv'
  OBVIOUS
<1>1. CASE UNCHANGED vars
  BY <1>1 DEF vars, roundVars, Inv, TypeOK, RoomsSound, Registered, Clocks, ScoresOfLiveRooms
<1>2. ASSUME NEW u \in User, MatchCreate(u) PROVE Inv'
  BY <1>2, CreateStep
<1>3. ASSUME NEW u \in User, Moves(u) PROVE Inv'
  BY <1>3, PartStep, RemoveStep, JoinStep DEF Moves
<1>4. ASSUME NEW u \in User, SetsStatus(u) PROVE Inv'
  BY <1>4, StatusStep
<1>5. ASSUME NEW u \in User, Acts(u) PROVE Inv'
  <2>1. CASE \E s \in Slot : MatchChangeSlot(u, s) \/ MatchLock(u, s) \/ MatchChangeHost(u, s)
    BY <2>1, ChangeSlotStep, LockStep, ChangeHostStep
  <2>2. CASE MatchChangeSettings(u) \/ MatchChangeTeam(u) \/ MatchStart(u)
    BY <2>2, SettingsStep, TeamStep, StartStep
  <2>3. CASE MatchLoadComplete(u) \/ MatchScoreUpdate(u) \/ MatchComplete(u)
    BY <2>3, ReportStep, CompleteStep
  <2>4. QED
    BY <1>5, <2>1, <2>2, <2>3 DEF Acts
<1>6. QED
  BY <1>1, <1>2, <1>3, <1>4, <1>5 DEF Next, Step

THEOREM Invariance == Spec => []Inv
<1>1. QED
  BY InitInv, NextInv, PTL DEF Spec

-----------------------------------------------------------------------------
(* What the invariant says *)

\* The rooms stay well typed: room ids in range, sixteen typed slots, tables
\* that mention only rooms and users.
THEOREM TypeCorrect == Spec => []TypeOK
<1>1. Inv => TypeOK
  BY DEF Inv
<1>2. QED
  BY <1>1, Invariance, PTL

\* A slot's status and its user id never disagree about whether it is taken.
THEOREM StatusAgreesWithUser == Spec => []SlotsConsistent
<1>1. Inv => SlotsConsistent
  BY DEF Inv, RoomsSound, Sound, SlotsConsistent
<1>2. QED
  BY <1>1, Invariance, PTL

\* Nobody ever sits in two slots, in one room or in two.
THEOREM SeatedOnce == Spec => []OneSeat
<1>1. Inv => OneSeat
  <2> SUFFICES ASSUME Inv, NEW m \in DOMAIN matches, NEW s \in Slot, NEW t \in Slot,
                      matches[m].slots[s].user_id # NoUser
               PROVE  /\ RoomOf(matches[m].slots[s].user_id) = m
                      /\ matches[m].slots[t].user_id = matches[m].slots[s].user_id => t = s
    BY DEF OneSeat
  <2>1. Sound(matches[m])
    BY DEF Inv, RoomsSound
  <2>2. matches[m].slots[s].user_id \in Seated(matches[m])
    BY DEF Seated
  <2>3. RoomOf(matches[m].slots[s].user_id) = m
    BY <2>2 DEF Inv, Registered, RoomOf
  <2>4. matches[m].slots[t].user_id = matches[m].slots[s].user_id => t = s
    BY <2>1 DEF Sound, OneSeatEach
  <2>5. QED
    BY <2>3, <2>4
<1>2. QED
  BY <1>1, Invariance, PTL

\* Every room is hosted by one of its players.
THEOREM HostedByPlayer == Spec => []HostIsPlayer
<1>1. Inv => HostIsPlayer
  <2> SUFFICES ASSUME Inv, NEW m \in DOMAIN matches
               PROVE  \E s \in Players(matches[m]) :
                        matches[m].slots[s].user_id = matches[m].host_id
    BY DEF HostIsPlayer
  <2>1. Sound(matches[m])
    BY DEF Inv, RoomsSound
  <2>2. matches[m].host_id \in Seated(matches[m])
    BY <2>1 DEF Sound
  <2>3. QED
    BY <2>1, <2>2, PlayersSeated
<1>2. QED
  BY <1>1, Invariance, PTL

\* Nobody plays outside a round, and every round has its clock.
THEOREM PlayedInRound == Spec => []PlayingInRound
<1>1. Inv => PlayingInRound
  BY DEF Inv, RoomsSound, Sound, Clocks, PlayingInRound
<1>2. QED
  BY <1>1, Invariance, PTL

\* No score frame outlives its room.
THEOREM ScoresGoWithRoom == Spec => []ScoresOfLiveRooms
<1>1. Inv => ScoresOfLiveRooms
  BY DEF Inv
<1>2. QED
  BY <1>1, Invariance, PTL

-----------------------------------------------------------------------------
(* Who sits and plays in a room *)

\* The users who play in room r.
PlaysIn(r) == {r.slots[s].user_id : s \in InStatus(r, "PLAYING")}

\* Nobody but u is moved between r and q.
SeatsKept(r, q, u) == \A v \in User \ {u} : SeatsOf(q, v) = SeatsOf(r, v)

\* Between r and q the players of the round are the same.
PlayKept(r, q) == PlaysIn(q) = PlaysIn(r)

LEMMA PlaysSeated ==
  ASSUME NEW r, Sound(r)
  PROVE  PlaysIn(r) \subseteq Seated(r) /\ PlaysIn(r) \subseteq User
<1>1. \A s \in InStatus(r, "PLAYING") : s \in Slot /\ r.slots[s].user_id # NoUser
  BY DEF InStatus, Sound, HAS_PLAYER
<1>2. QED
  BY <1>1, SeatedUsers DEF PlaysIn, Seated

\* A user's status is that of its one seat.
LEMMA OwnStatus ==
  ASSUME NEW r, Sound(r), NEW u \in User, SeatsOf(r, u) # {}
  PROVE  r.slots[Min(SeatsOf(r, u))].status = "PLAYING" <=> u \in PlaysIn(r)
<1> DEFINE k == Min(SeatsOf(r, u))
<1>1. k \in Slot /\ r.slots[k].user_id = u /\ u # NoUser
  BY FirstSlot, MultiplayerAssumption DEF SeatsOf
<1> HIDE DEF k
<1>2. \A s \in Slot : r.slots[s].user_id = u => s = k
  BY <1>1 DEF Sound, OneSeatEach
<1>3. r.slots[k].status = "PLAYING" <=> u \in PlaysIn(r)
  BY <1>1, <1>2 DEF PlaysIn, InStatus
<1>4. QED
  BY <1>3 DEF k

LEMMA VacateKeeps ==
  ASSUME NEW r, NEW u \in User, Sound(r), SeatsOf(r, u) # {}
  PROVE  /\ SeatsKept(r, Vacate(r, u), u)
         /\ PlaysIn(Vacate(r, u)) = PlaysIn(r) \ {u}
         /\ r.host_id # u => Vacate(r, u).host_id = r.host_id
         /\ Players(Vacate(r, u)) = {} <=> Seated(r) \subseteq {u}
<1> DEFINE k == Min(SeatsOf(r, u))
           q == Vacate(r, u)
<1>1. k \in Slot /\ r.slots[k].user_id = u /\ u # NoUser
  BY FirstSlot, MultiplayerAssumption DEF SeatsOf
<1>2. \A s \in Slot : q.slots[s] = IF s = k THEN DefaultSlot ELSE r.slots[s]
  BY <1>1 DEF Vacate, Sound, Match
<1>3. r.host_id # u => q.host_id = r.host_id
  BY DEF Vacate, Sound, Match
<1> HIDE DEF k, q
<1>4. SeatsKept(r, q, u)
  BY <1>1, <1>2, MultiplayerAssumption DEF SeatsKept, SeatsOf, DefaultSlot
<1>5. \A s \in Slot : r.slots[s].user_id = u => s = k
  BY <1>1 DEF Sound, OneSeatEach
<1>6. PlaysIn(q) = PlaysIn(r) \ {u}
  <2>1. InStatus(q, "PLAYING") = InStatus(r, "PLAYING") \ {k}
    BY <1>2 DEF InStatus, DefaultSlot
  <2>2. \A s \in InStatus(q, "PLAYING") : q.slots[s].user_id = r.slots[s].user_id
    BY <1>2, <2>1 DEF InStatus
  <2>3. \A s \in InStatus(r, "PLAYING") : s = k <=> r.slots[s].user_id = u
    BY <1>1, <1>5 DEF InStatus
  <2>4. QED
    BY <2>1, <2>2, <2>3 DEF PlaysIn
<1>7. Players(q) = {} <=> Seated(r) \subseteq {u}
  <2>1. Players(q) = {s \in Slot \ {k} : r.slots[s].user_id # NoUser}
    BY <1>2 DEF Players, Sound, DefaultSlot, HAS_PLAYER
  <2>2. QED
    BY <1>1, <1>5, <2>1 DEF Seated
<1>8. QED
  BY <1>3, <1>4, <1>6, <1>7 DEF q

\* Rooms in which nobody moves: r and q have the same users in the same slots.
LEMMA RestatusKeeps ==
  ASSUME NEW r, NEW q, \A s \in Slot : q.slots[s].user_id = r.slots[s].user_id
  PROVE  /\ \A v \in User : SeatsOf(q, v) = SeatsOf(r, v)
         /\ \A u \in User : SeatsKept(r, q, u)
         /\ InStatus(r, "PLAYING") \subseteq InStatus(q, "PLAYING") => PlaysIn(r) \subseteq PlaysIn(q)
         /\ InStatus(q, "PLAYING") = InStatus(r, "PLAYING") => PlayKept(r, q)
<1>1. \A v \in User : SeatsOf(q, v) = SeatsOf(r, v)
  BY DEF SeatsOf
<1>2. InStatus(r, "PLAYING") \subseteq InStatus(q, "PLAYING") => PlaysIn(r) \subseteq PlaysIn(q)
  BY DEF PlaysIn, InStatus
<1>3. InStatus(q, "PLAYING") = InStatus(r, "PLAYING") => PlayKept(r, q)
  BY DEF PlaysIn, InStatus, PlayKept
<1>4. QED
  BY <1>1, <1>2, <1>3 DEF SeatsKept

\* A round that try_finish_match ends has no player left.
LEMMA ConcludeKeeps ==
  ASSUME NEW r, Sound(r), RoundOver(r)
  PROVE  /\ Conclude(r).host_id = r.host_id
         /\ \A v \in User : SeatsOf(Conclude(r), v) = SeatsOf(r, v)
         /\ PlaysIn(r) = {} /\ PlaysIn(Conclude(r)) = {}
<1> DEFINE q == Conclude(r)
<1>1. /\ q.host_id = r.host_id
      /\ \A s \in Slot : q.slots[s] = IF r.slots[s].status \in HAS_PLAYER
                                     THEN [r.slots[s] EXCEPT !.status = "NOT_READY"]
                                     ELSE r.slots[s]
  BY DEF Sound, Conclude, Match
<1>2. \A s \in Slot : q.slots[s].user_id = r.slots[s].user_id /\ q.slots[s].status # "PLAYING"
  <2> TAKE s \in Slot
  <2>1. r.slots[s] \in MatchSlot
    BY DEF Sound, Match
  <2>2. QED
    BY <1>1, <2>1 DEF MatchSlot, HAS_PLAYER
<1> HIDE DEF q
<1>3. PlaysIn(r) = {} /\ PlaysIn(q) = {}
  BY <1>2 DEF PlaysIn, InStatus, RoundOver
<1>4. QED
  BY <1>1, <1>2, <1>3, RestatusKeeps DEF q

LEMMA StartedKeeps ==
  ASSUME NEW r, Sound(r)
  PROVE  /\ Started(r).host_id = r.host_id /\ Started(r).in_progress
         /\ \A v \in User : SeatsOf(Started(r), v) = SeatsOf(r, v)
         /\ PlaysIn(r) \subseteq PlaysIn(Started(r))
<1> DEFINE q == Started(r)
<1>1. /\ q.host_id = r.host_id /\ q.in_progress
      /\ \A s \in Slot : q.slots[s] = IF r.slots[s].status \in {"READY", "NOT_READY"}
                                     THEN [r.slots[s] EXCEPT !.status = "PLAYING"]
                                     ELSE r.slots[s]
  BY DEF Sound, Started, Match
<1>2. \A s \in Slot : /\ q.slots[s].user_id = r.slots[s].user_id
                      /\ r.slots[s].status = "PLAYING" => q.slots[s].status = "PLAYING"
  <2> TAKE s \in Slot
  <2>1. r.slots[s] \in MatchSlot
    BY DEF Sound, Match
  <2>2. QED
    BY <1>1, <2>1 DEF MatchSlot
<1> HIDE DEF q
<1>3. InStatus(r, "PLAYING") \subseteq InStatus(q, "PLAYING")
  BY <1>2 DEF InStatus
<1>4. QED
  BY <1>1, <1>2, <1>3, RestatusKeeps DEF q

LEMMA SettledKeeps ==
  ASSUME NEW r, Sound(r), NEW u
  PROVE  /\ Settled(r, u).host_id = r.host_id
         /\ \A v \in User : SeatsOf(Settled(r, u), v) = SeatsOf(r, v)
         /\ PlayKept(r, Settled(r, u))
<1> DEFINE q == Settled(r, u)
<1>1. /\ q.host_id = r.host_id
      /\ \A s \in Slot : q.slots[s] = IF /\ r.slots[s].user_id \notin {NoUser, u}
                                         /\ r.slots[s].status = "READY"
                                     THEN [r.slots[s] EXCEPT !.status = "NOT_READY"]
                                     ELSE r.slots[s]
  BY DEF Sound, Settled, Match
<1>2. \A s \in Slot : /\ q.slots[s].user_id = r.slots[s].user_id
                      /\ r.slots[s].status = "PLAYING" <=> q.slots[s].status = "PLAYING"
  <2> TAKE s \in Slot
  <2>1. r.slots[s] \in MatchSlot
    BY DEF Sound, Match
  <2>2. QED
    BY <1>1, <2>1 DEF MatchSlot
<1> HIDE DEF q
<1>3. InStatus(q, "PLAYING") = InStatus(r, "PLAYING")
  BY <1>2 DEF InStatus
<1>4. QED
  BY <1>1, <1>2, <1>3, RestatusKeeps DEF q

\* A slot takes a status other than PLAYING: its user, if any, plays no more.
LEMMA StatusKeeps ==
  ASSUME NEW r, Sound(r), NEW k \in Slot,
         NEW st \in ({"OPEN", "LOCKED"} \cup HAS_PLAYER) \ {"PLAYING"}
  PROVE  LET q == [r EXCEPT !.slots[k].status = st]
         IN  /\ q.host_id = r.host_id
             /\ \A v \in User : SeatsOf(q, v) = SeatsOf(r, v)
             /\ PlaysIn(q) = PlaysIn(r) \ {r.slots[k].user_id}
<1> DEFINE q == [r EXCEPT !.slots[k].status = st]
<1>1. /\ q.host_id = r.host_id
      /\ \A s \in Slot : q.slots[s] = IF s = k THEN [r.slots[s] EXCEPT !.status = st]
                                              ELSE r.slots[s]
  BY DEF Sound, Match
<1>2. \A s \in Slot : /\ q.slots[s].user_id = r.slots[s].user_id
                      /\ q.slots[s].status = "PLAYING" <=> r.slots[s].status = "PLAYING" /\ s # k
  <2> TAKE s \in Slot
  <2>1. r.slots[s] \in MatchSlot
    BY DEF Sound, Match
  <2>2. QED
    BY <1>1, <2>1 DEF MatchSlot
<1> HIDE DEF q
<1>3. InStatus(q, "PLAYING") = InStatus(r, "PLAYING") \ {k}
  BY <1>2 DEF InStatus
<1>4. \A s \in InStatus(r, "PLAYING") : s \in Slot /\ (r.slots[s].user_id = r.slots[k].user_id <=> s = k)
  BY DEF InStatus, Sound, OneSeatEach, HAS_PLAYER
<1>5. \A s \in InStatus(q, "PLAYING") : q.slots[s].user_id = r.slots[s].user_id
  BY <1>2 DEF InStatus
<1>6. PlaysIn(q) = PlaysIn(r) \ {r.slots[k].user_id}
  BY <1>3, <1>4, <1>5 DEF PlaysIn
<1>7. QED
  BY <1>1, <1>2, <1>6, RestatusKeeps DEF q

LEMMA MovedKeeps ==
  ASSUME NEW r, Sound(r), NEW k \in Slot, NEW n \in FreeSlots(r), r.slots[k].user_id # NoUser
  PROVE  /\ SeatsKept(r, Moved(r, k, n), r.slots[k].user_id)
         /\ PlayKept(r, Moved(r, k, n))
         /\ Moved(r, k, n).host_id = r.host_id
<1> DEFINE q == Moved(r, k, n)
<1>1. /\ n \in Slot /\ r.slots[n].status = "OPEN" /\ r.slots[n].user_id = NoUser
      /\ n # k
  BY DEF FreeSlots, InStatus, Sound, HAS_PLAYER
<1>2. /\ q.host_id = r.host_id
      /\ \A s \in Slot : q.slots[s] = IF s = k THEN DefaultSlot
                                     ELSE IF s = n THEN r.slots[k] ELSE r.slots[s]
  BY <1>1 DEF Sound, Match, Moved
<1> HIDE DEF q
<1>3. SeatsKept(r, q, r.slots[k].user_id)
  BY <1>1, <1>2, MultiplayerAssumption DEF SeatsKept, SeatsOf, DefaultSlot
<1>4. PlayKept(r, q)
  <2>1. ASSUME NEW v \in PlaysIn(r) PROVE v \in PlaysIn(q)
    <3>1. PICK s \in Slot : r.slots[s].status = "PLAYING" /\ r.slots[s].user_id = v
      BY <2>1 DEF PlaysIn, InStatus
    <3>2. CASE s = k
      <4>1. q.slots[n] = r.slots[k]
        BY <1>1, <1>2
      <4>2. QED
        BY <1>1, <3>1, <3>2, <4>1 DEF PlaysIn, InStatus
    <3>3. CASE s # k
      <4>1. q.slots[s] = r.slots[s]
        BY <1>1, <1>2, <3>1, <3>3
      <4>2. QED
        BY <3>1, <4>1 DEF PlaysIn, InStatus
    <3>4. QED
      BY <3>2, <3>3
  <2>2. ASSUME NEW v \in PlaysIn(q) PROVE v \in PlaysIn(r)
    <3>1. PICK s \in Slot : q.slots[s].status = "PLAYING" /\ q.slots[s].user_id = v
      BY <2>2 DEF PlaysIn, InStatus
    <3>2. q.slots[s] = r.slots[IF s = n THEN k ELSE s]
      BY <1>1, <1>2, <3>1 DEF DefaultSlot
    <3>3. QED
      BY <3>1, <3>2 DEF PlaysIn, InStatus
  <2>3. QED
    BY <2>1, <2>2 DEF PlayKept
<1>5. QED
  BY <1>2, <1>3, <1>4 DEF q

LEMMA JoinedKeeps ==
  ASSUME NEW r, Sound(r), NEW k \in FreeSlots(r), NEW u \in User
  PROVE  LET q == [r EXCEPT !.slots[k] = [status |-> "NOT_READY", user_id |-> u]]
         IN  SeatsKept(r, q, u) /\ PlayKept(r, q) /\ q.host_id = r.host_id
<1> DEFINE q == [r EXCEPT !.slots[k] = [status |-> "NOT_READY", user_id |-> u]]
<1>1. k \in Slot /\ r.slots[k].user_id = NoUser /\ r.slots[k].status = "OPEN"
  BY DEF FreeSlots, InStatus, Sound, HAS_PLAYER
<1>2. /\ q.host_id = r.host_id
      /\ \A s \in Slot : q.slots[s] = IF s = k THEN [status |-> "NOT_READY", user_id |-> u]
                                              ELSE r.slots[s]
  BY <1>1 DEF Sound, Match
<1> HIDE DEF q
<1>3. SeatsKept(r, q, u)
  BY <1>1, <1>2, MultiplayerAssumption DEF SeatsKept, SeatsOf
<1>4. InStatus(q, "PLAYING") = InStatus(r, "PLAYING")
  BY <1>1, <1>2 DEF InStatus
<1>5. \A s \in InStatus(r, "PLAYING") : q.slots[s] = r.slots[s]
  BY <1>1, <1>2 DEF InStatus
<1>6. PlayKept(r, q)
  BY <1>4, <1>5 DEF PlayKept, PlaysIn
<1>7. QED
  BY <1>2, <1>3, <1>6 DEF q

LEMMA HostKeeps ==
  ASSUME NEW r, Sound(r), NEW h
  PROVE  LET q == [r EXCEPT !.host_id = h]
         IN  /\ q.host_id = h
             /\ \A v \in User : SeatsOf(q, v) = SeatsOf(r, v)
             /\ PlayKept(r, q)
<1>1. [r EXCEPT !.host_id = h].host_id = h /\ [r EXCEPT !.host_id = h].slots = r.slots
  BY DEF Sound, Match
<1>2. QED
  BY <1>1 DEF SeatsOf, PlayKept, PlaysIn, InStatus

LEMMA NewMatchPlays ==
  ASSUME NEW u \in User
  PROVE  PlaysIn(NewMatch(u)) = {} /\ NewMatch(u).host_id = u
  BY DEF PlaysIn, InStatus, NewMatch, DefaultSlot

-----------------------------------------------------------------------------
(* The invariant of fresh ids *)

Mapped ==
    \A v \in User : user_to_match[v] # NoMatch =>
        user_to_match[v] \in DOMAIN matches /\ v \in Seated(matches[user_to_match[v]])

FreshInv == Inv /\ Mapped /\ TablesOfRooms

\* Where a user sits.
LEMMA Sitting ==
  ASSUME FreshInv, NEW u \in User
  PROVE  /\ IsSeated(u) <=> user_to_match[u] # NoMatch
         /\ \A n \in DOMAIN matches : u \in Seated(matches[n]) <=> user_to_match[u] = n
         /\ \A n \in DOMAIN matches : n # NoMatch
  BY SeatedUsers, MultiplayerAssumption
     DEF FreshInv, Inv, RoomsSound, Registered, Mapped, IsSeated, RoomOf, TypeOK, NoMatch, MatchId

\* The rooms once u has left: a room stays if somebody else sits in it.
LEMMA LeavingKeeps ==
  ASSUME Inv, NEW u \in User
  PROVE  /\ DOMAIN Without(u) = {n \in DOMAIN matches : ~ (Seated(matches[n]) \subseteq {u})}
         /\ \A n \in DOMAIN Without(u) :
              /\ SeatsKept(matches[n], Without(u)[n], u)
              /\ PlaysIn(Without(u)[n]) = PlaysIn(matches[n]) \ {u}
              /\ matches[n].host_id # u => Without(u)[n].host_id = matches[n].host_id
<1> DEFINE k == RoomOf(u)
           r == Vacate(matches[k], u)
<1>1. \A n \in DOMAIN matches : /\ Sound(matches[n])
                                /\ u \in Seated(matches[n]) <=> n = k /\ IsSeated(u)
                                /\ Seated(matches[n]) # {}
                                /\ PlaysIn(matches[n]) \subseteq Seated(matches[n])
  <2>1. \A n \in DOMAIN matches : /\ Sound(matches[n])
                                  /\ u \in Seated(matches[n]) <=> n = k /\ IsSeated(u)
    BY SeatedUsers DEF Inv, RoomsSound, Registered, IsSeated, RoomOf
  <2>2. QED
    BY <2>1, PlaysSeated DEF Sound
<1>2. \A n \in DOMAIN matches : n # k \/ ~ IsSeated(u) =>
        /\ PlaysIn(matches[n]) = PlaysIn(matches[n]) \ {u}
        /\ ~ (Seated(matches[n]) \subseteq {u})
  BY <1>1
<1>3. CASE ~ IsSeated(u)
  <2>1. Without(u) = matches
    BY <1>3 DEF Without
  <2>2. QED
    BY <1>2, <1>3, <2>1 DEF SeatsKept
<1>4. CASE IsSeated(u)
  <2>1. k \in DOMAIN matches /\ SeatsOf(matches[k], u) # {} /\ Sound(matches[k])
    BY <1>1, <1>4 DEF IsSeated
  <2>2. /\ SeatsKept(matches[k], r, u)
        /\ PlaysIn(r) = PlaysIn(matches[k]) \ {u}
        /\ matches[k].host_id # u => r.host_id = matches[k].host_id
        /\ Players(r) = {} <=> Seated(matches[k]) \subseteq {u}
    BY <2>1, VacateKeeps
  <2>3. CASE Players(r) = {}
    <3>1. Without(u) = [n \in DOMAIN matches \ {k} |-> matches[n]]
      BY <1>4, <2>3 DEF Without, Restrict
    <3>2. DOMAIN Without(u) = {n \in DOMAIN matches : ~ (Seated(matches[n]) \subseteq {u})}
      BY <1>2, <2>2, <2>3, <3>1
    <3>3. QED
      BY <1>2, <3>1, <3>2 DEF SeatsKept
  <2>4. CASE Players(r) # {}
    <3>1. Without(u) = [matches EXCEPT ![k] = r]
      BY <1>4, <2>4 DEF Without
    <3>2. DOMAIN Without(u) = {n \in DOMAIN matches : ~ (Seated(matches[n]) \subseteq {u})}
      BY <1>2, <2>1, <2>2, <2>4, <3>1
    <3> HIDE DEF k, r
    <3>3. ASSUME NEW n \in DOMAIN matches
          PROVE  /\ SeatsKept(matches[n], Without(u)[n], u)
                 /\ PlaysIn(Without(u)[n]) = PlaysIn(matches[n]) \ {u}
                 /\ matches[n].host_id # u => Without(u)[n].host_id = matches[n].host_id
      <4>1. CASE n = k
        BY <2>1, <2>2, <3>1, <4>1
      <4>2. CASE n # k
        BY <1>2, <3>1, <4>2 DEF SeatsKept
      <4>3. QED
        BY <4>1, <4>2
    <3>4. QED
      BY <3>2, <3>3
  <2>5. QED
    BY <2>3, <2>4
<1>5. QED
  BY <1>3, <1>4

-----------------------------------------------------------------------------
(* The directory that the rooms stand for *)

Host    == [m \in MatchId |-> IF m \in DOMAIN matches THEN matches[m].host_id ELSE NoUser]
Round   == [m \in MatchId |-> m \in DOMAIN matches /\ matches[m].in_progress]
Playing == {u \in User : StatusOf(u) = "PLAYING"}

Others(u) == {v \in User : user_to_match[v] = user_to_match[u]} \ {u}

HostsAfter(u) ==
    IF user_to_match[u] = NoMatch THEN {Host}
    ELSE IF Others(u) = {} THEN {[Host EXCEPT ![user_to_match[u]] = NoUser]}
    ELSE IF Host[user_to_match[u]] # u THEN {Host}
    ELSE {[Host EXCEPT ![user_to_match[u]] = v] : v \in Others(u)}

RoundsAfter(u) ==
    {Round} \cup IF user_to_match[u] # NoMatch /\ Others(u) \cap Playing = {}
                 THEN {[Round EXCEPT ![user_to_match[u]] = FALSE]} ELSE {}

Departs(u) ==
    /\ Round' \in RoundsAfter(u)
    /\ user_to_match[u] # NoMatch /\ Others(u) = {} => ~ Round'[user_to_match[u]]
    /\ Playing' = Playing \ {u}

\* The actions of the directory in these words.
LEMMA Words ==
  ASSUME NEW u
  PROVE  /\ HostsAfter(u) = Directory!Successors(u)
         /\ RoundsAfter(u) = Directory!RoundsAfter(u)
         /\ Departs(u) <=> Directory!Depart(u)
<1>1. HostsAfter(u) = Directory!Successors(u)
  BY DEF HostsAfter, Host, Others, Directory!Successors, Directory!Others, Directory!Occupants
<1>2. RoundsAfter(u) = Directory!RoundsAfter(u)
  BY DEF RoundsAfter, Round, Playing, Others, Directory!RoundsAfter, Directory!Others, Directory!Occupants
<1>3. Departs(u) <=> Directory!Depart(u)
  BY <1>2 DEF Departs, Round, Playing, Others, Directory!Depart, Directory!Others, Directory!Occupants
<1>4. QED
  BY <1>1, <1>2, <1>3

LEMMA IsStutter ==
  ASSUME user_to_match' = user_to_match, Host' = Host, Round' = Round, Playing' = Playing
  PROVE  UNCHANGED Directory!vars
  BY DEF Directory!vars, Host, Round, Playing

LEMMA IsLeave ==
  ASSUME NEW u \in User, user_to_match[u] # NoMatch,
         user_to_match' = [user_to_match EXCEPT ![u] = NoMatch],
         Host' \in HostsAfter(u), Departs(u)
  PROVE  Directory!Next
<1>1. Directory!Leave(u)
  BY Words DEF Directory!Leave, Host
<1>2. QED
  BY <1>1 DEF Directory!Next

LEMMA IsOpen ==
  ASSUME NEW u \in User, NEW m \in MatchId, Host[m] = NoUser,
         user_to_match' = [user_to_match EXCEPT ![u] = m],
         NEW h \in HostsAfter(u), Host' = [h EXCEPT ![m] = u], Departs(u)
  PROVE  Directory!Next
<1>1. Directory!Open(u, m)
  BY Words DEF Directory!Open, Host
<1>2. QED
  BY <1>1 DEF Directory!Next

LEMMA IsEnter ==
  ASSUME NEW u \in User, NEW m \in MatchId, NEW v \in User, user_to_match[v] = m, v # u,
         user_to_match' = [user_to_match EXCEPT ![u] = m],
         Host' \in HostsAfter(u), Departs(u)
  PROVE  Directory!Next
<1>1. Directory!Enter(u, m)
  BY Words DEF Directory!Enter, Directory!Occupants, Host
<1>2. QED
  BY <1>1 DEF Directory!Next

LEMMA IsHandOver ==
  ASSUME NEW u \in User, NEW v \in User,
         user_to_match[u] # NoMatch, Host[user_to_match[u]] = u,
         user_to_match[v] = user_to_match[u], user_to_match' = user_to_match,
         Host' = [Host EXCEPT ![user_to_match[u]] = v], Round' = Round, Playing' = Playing
  PROVE  Directory!Next
<1>1. Directory!HandOver(u, v)
  BY DEF Directory!HandOver, Directory!Occupants, Host, Round, Playing
<1>2. QED
  BY <1>1 DEF Directory!Next

LEMMA IsBegin ==
  ASSUME NEW u \in User, user_to_match[u] # NoMatch, Host[user_to_match[u]] = u,
         user_to_match' = user_to_match, Host' = Host,
         Round' = [Round EXCEPT ![user_to_match[u]] = TRUE],
         Playing \subseteq Playing',
         Playing' \subseteq Playing \cup {v \in User : user_to_match[v] = user_to_match[u]}
  PROVE  Directory!Next
<1>1. Directory!Begin(u)
  BY DEF Directory!Begin, Directory!Occupants, Host, Round, Playing
<1>2. QED
  BY <1>1 DEF Directory!Next

LEMMA IsStop ==
  ASSUME NEW u \in User, user_to_match' = user_to_match, Host' = Host,
         Round' \in RoundsAfter(u), Playing' = Playing \ {u}
  PROVE  Directory!Next
<1>1. Directory!Stop(u)
  BY Words DEF Directory!Stop, Host, Round, Playing
<1>2. QED
  BY <1>1 DEF Directory!Next

LEMMA InitDirectory == Init => Directory!Init
  BY DEF Init, Directory!Init, StatusOf, IsSeated, RoomOf

-----------------------------------------------------------------------------
(* What a step of u does to the others, and to the directory *)

OthersStay(u) == \A v \in User \ {u} : Place(v)' = Place(v)

Refines(u) ==
    /\ FreshInv' /\ OthersStay(u) /\ Playing \ {u} \subseteq Playing'
    /\ Directory!Next \/ UNCHANGED Directory!vars

\* Seats and players of the round, user by user.
LEMMA Occupancy ==
  FreshInv => \A u \in User :
    /\ IsSeated(u) <=> user_to_match[u] # NoMatch
    /\ user_to_match[u] # NoMatch => user_to_match[u] \in DOMAIN matches
    /\ u \in Playing <=> /\ user_to_match[u] # NoMatch
                         /\ u \in PlaysIn(matches[user_to_match[u]])
<1> SUFFICES ASSUME FreshInv, NEW u \in User
             PROVE  /\ IsSeated(u) <=> user_to_match[u] # NoMatch
                    /\ user_to_match[u] # NoMatch => user_to_match[u] \in DOMAIN matches
                    /\ u \in Playing <=> /\ user_to_match[u] # NoMatch
                                         /\ u \in PlaysIn(matches[user_to_match[u]])
  OBVIOUS
<1>1. /\ IsSeated(u) <=> user_to_match[u] # NoMatch
      /\ user_to_match[u] # NoMatch => user_to_match[u] \in DOMAIN matches
  BY Sitting DEF FreshInv, Mapped
<1>2. CASE ~ IsSeated(u)
  BY <1>1, <1>2 DEF Playing, StatusOf
<1>3. CASE IsSeated(u)
  <2>1. /\ Sound(matches[user_to_match[u]])
        /\ SeatsOf(matches[user_to_match[u]], u) # {}
    BY <1>3 DEF IsSeated, RoomOf, FreshInv, Inv, RoomsSound
  <2>2. matches[user_to_match[u]].slots[Min(SeatsOf(matches[user_to_match[u]], u))].status = "PLAYING"
          <=> u \in PlaysIn(matches[user_to_match[u]])
    BY <2>1, OwnStatus
  <2>3. QED
    BY <1>1, <1>3, <2>2 DEF Playing, StatusOf, SeatOf, RoomOf
<1>4. QED
  BY <1>1, <1>2, <1>3

LEMMA OccupancyNext ==
  FreshInv' => (\A u \in User :
    /\ IsSeated(u) <=> user_to_match[u] # NoMatch
    /\ user_to_match[u] # NoMatch => user_to_match[u] \in DOMAIN matches
    /\ u \in Playing <=> /\ user_to_match[u] # NoMatch
                         /\ u \in PlaysIn(matches[user_to_match[u]]))'
  BY Occupancy, PTL

LEMMA Staying ==
  ASSUME FreshInv, FreshInv', NEW u \in User,
         \A v \in User \ {u} : user_to_match'[v] = user_to_match[v],
         \A n \in DOMAIN matches : n \in DOMAIN matches' => SeatsKept(matches[n], matches'[n], u)
  PROVE  OthersStay(u)
<1> SUFFICES ASSUME NEW v \in User \ {u} PROVE Place(v)' = Place(v)
  BY DEF OthersStay
<1>1. /\ IsSeated(v) <=> user_to_match[v] # NoMatch
      /\ IsSeated(v)' <=> user_to_match'[v] # NoMatch
      /\ user_to_match'[v] = user_to_match[v]
      /\ user_to_match[v] # NoMatch => user_to_match[v] \in DOMAIN matches
      /\ user_to_match'[v] # NoMatch => user_to_match'[v] \in DOMAIN matches'
  BY Occupancy, OccupancyNext
<1>2. CASE user_to_match[v] = NoMatch
  BY <1>1, <1>2 DEF Place
<1>3. CASE user_to_match[v] # NoMatch
  <2>1. SeatsOf(matches'[user_to_match[v]], v) = SeatsOf(matches[user_to_match[v]], v)
    BY <1>1, <1>3 DEF SeatsKept
  <2>2. QED
    BY <1>1, <1>3, <2>1 DEF Place, SeatOf, RoomOf
<1>4. QED
  BY <1>2, <1>3

\* The rounds' tables after ForgetRounds(ids).
LEMMA TablesKept ==
  ASSUME TablesOfRooms, NEW ids, ForgetRounds(ids),
         DOMAIN matches \ ids \subseteq DOMAIN matches',
         \A n : n \in DOMAIN matches' /\ matches'[n].in_progress <=>
                  n \in DOMAIN matches /\ n \notin ids /\ matches[n].in_progress
  PROVE  TablesOfRooms'
<1>1. match_start_times' = {n \in DOMAIN matches' : matches'[n].in_progress}
  BY DEF TablesOfRooms, ForgetRounds
<1>2. \A e \in match_loaded_users' : e[1] \in DOMAIN matches'
  BY DEF TablesOfRooms, ForgetRounds
<1>3. QED
  BY <1>1, <1>2 DEF TablesOfRooms

\* A step changes one room, without moving anybody but u.
LEMMA RoomChanged ==
  ASSUME FreshInv, Inv', TablesOfRooms', NEW u \in User, NEW m \in DOMAIN matches, NEW q,
         Seated(q) = Seated(matches[m]), SeatsKept(matches[m], q, u),
         DOMAIN matches' = DOMAIN matches,
         \A n \in DOMAIN matches : matches'[n] = IF n = m THEN q ELSE matches[n],
         user_to_match' = user_to_match
  PROVE  /\ FreshInv' /\ OthersStay(u) /\ m \in MatchId
         /\ Host' = [Host EXCEPT ![m] = q.host_id]
         /\ \A n \in MatchId : Round'[n] = IF n = m THEN q.in_progress ELSE Round[n]
         /\ \A v \in User : v \in Playing  <=> IF user_to_match[v] = m THEN v \in PlaysIn(matches[m])
                                                                    ELSE v \in Playing
         /\ \A v \in User : v \in Playing' <=> IF user_to_match[v] = m THEN v \in PlaysIn(q)
                                                                    ELSE v \in Playing
<1>1. m \in MatchId /\ m # NoMatch
  BY MultiplayerAssumption DEF FreshInv, Inv, TypeOK, MatchId, NoMatch
<1>2. Mapped'
  BY DEF Mapped, FreshInv
<1>3. FreshInv'
  BY <1>2 DEF FreshInv
<1>4. OthersStay(u)
  BY <1>3, Staying DEF SeatsKept
<1>5. Host' = [Host EXCEPT ![m] = q.host_id]
  BY <1>1 DEF Host
<1>6. \A n \in MatchId : Round'[n] = IF n = m THEN q.in_progress ELSE Round[n]
  BY <1>1 DEF Round, FreshInv, Inv, TypeOK, Match
<1>7. \A v \in User : v \in Playing  <=> IF user_to_match[v] = m THEN v \in PlaysIn(matches[m])
                                                                ELSE v \in Playing
  BY <1>1, Occupancy
<1>8. \A v \in User : v \in Playing' <=> IF user_to_match[v] = m THEN v \in PlaysIn(q)
                                                                ELSE v \in Playing
  BY <1>1, <1>3, Occupancy, OccupancyNext
<1>9. QED
  BY <1>1, <1>3, <1>4, <1>5, <1>6, <1>7, <1>8

\* Nothing that the directory shows changes.
LEMMA QuietChange ==
  ASSUME FreshInv, Inv', TablesOfRooms', NEW u \in User, NEW m \in DOMAIN matches, NEW q,
         Seated(q) = Seated(matches[m]), SeatsKept(matches[m], q, u),
         DOMAIN matches' = DOMAIN matches,
         \A n \in DOMAIN matches : matches'[n] = IF n = m THEN q ELSE matches[n],
         user_to_match' = user_to_match,
         q.host_id = matches[m].host_id, q.in_progress = matches[m].in_progress,
         PlayKept(matches[m], q)
  PROVE  Refines(u)
<1>1. /\ FreshInv' /\ OthersStay(u) /\ m \in MatchId
      /\ Host' = [Host EXCEPT ![m] = q.host_id]
      /\ \A n \in MatchId : Round'[n] = IF n = m THEN q.in_progress ELSE Round[n]
      /\ \A v \in User : v \in Playing  <=> IF user_to_match[v] = m THEN v \in PlaysIn(matches[m])
                                                                 ELSE v \in Playing
      /\ \A v \in User : v \in Playing' <=> IF user_to_match[v] = m THEN v \in PlaysIn(q)
                                                                 ELSE v \in Playing
  BY RoomChanged
<1>2. Host' = Host
  BY <1>1 DEF Host
<1>3. Round' = Round
  <2>1. \A n \in MatchId : Round'[n] = Round[n]
    BY <1>1 DEF Round, FreshInv, Inv, RoomsSound, Sound, Match
  <2>2. Round = [n \in MatchId |-> Round[n]] /\ Round' = [n \in MatchId |-> Round'[n]]
    BY DEF Round
  <2>3. QED
    BY <2>1, <2>2
<1>4. Playing' = Playing
  BY <1>1 DEF PlayKept, Playing
<1>5. QED
  BY <1>1, <1>2, <1>3, <1>4, IsStutter DEF Refines

\* u plays no more, and perhaps the round in which nobody plays ends.
LEMMA StopChange ==
  ASSUME FreshInv, Inv', TablesOfRooms', NEW u \in User, NEW m \in DOMAIN matches, NEW q,
         Seated(q) = Seated(matches[m]), SeatsKept(matches[m], q, u),
         DOMAIN matches' = DOMAIN matches,
         \A n \in DOMAIN matches : matches'[n] = IF n = m THEN q ELSE matches[n],
         user_to_match' = user_to_match,
         q.host_id = matches[m].host_id, user_to_match[u] = m,
         PlaysIn(q) = PlaysIn(matches[m]) \ {u},
         \/ q.in_progress = matches[m].in_progress
         \/ q.in_progress = FALSE /\ PlaysIn(q) = {}
  PROVE  Refines(u)
<1>1. /\ FreshInv' /\ OthersStay(u) /\ m \in MatchId
      /\ Host' = [Host EXCEPT ![m] = q.host_id]
      /\ \A n \in MatchId : Round'[n] = IF n = m THEN q.in_progress ELSE Round[n]
      /\ \A v \in User : v \in Playing  <=> IF user_to_match[v] = m THEN v \in PlaysIn(matches[m])
                                                                 ELSE v \in Playing
      /\ \A v \in User : v \in Playing' <=> IF user_to_match[v] = m THEN v \in PlaysIn(q)
                                                                 ELSE v \in Playing
  BY RoomChanged
<1>2. Host' = Host
  BY <1>1 DEF Host
<1>3. Playing' = Playing \ {u}
  BY <1>1 DEF Playing
<1>4. Round = [n \in MatchId |-> Round[n]] /\ Round' = [n \in MatchId |-> Round'[n]]
  BY DEF Round
<1>5. Round' \in RoundsAfter(u)
  <2>1. CASE q.in_progress = matches[m].in_progress
    <3>1. \A n \in MatchId : Round'[n] = Round[n]
      BY <1>1, <2>1 DEF Round, FreshInv, Inv, RoomsSound, Sound, Match
    <3>2. QED
      BY <1>4, <3>1 DEF RoundsAfter
  <2>2. CASE q.in_progress = FALSE /\ PlaysIn(q) = {}
    <3>1. Others(u) \cap Playing = {}
      BY <1>1, <2>2 DEF Others
    <3>2. user_to_match[u] # NoMatch
      BY MultiplayerAssumption, <1>1 DEF MatchId, NoMatch
    <3>3. Round' = [Round EXCEPT ![m] = FALSE]
      BY <1>1, <1>4, <2>2
    <3>4. QED
      BY <3>1, <3>2, <3>3 DEF RoundsAfter
  <2>3. QED
    BY <2>1, <2>2
<1>6. QED
  BY <1>1, <1>2, <1>3, <1>5, IsStop DEF Refines

-----------------------------------------------------------------------------
(* The handlers that act in a room *)

\* The tables of the rounds are untouched, and so is each room's progress.
LEMMA TablesSame ==
  ASSUME TablesOfRooms, roundVars' = roundVars, DOMAIN matches' = DOMAIN matches,
         \A n \in DOMAIN matches : matches'[n].in_progress = matches[n].in_progress
  PROVE  TablesOfRooms'
<1>1. match_start_times' = match_start_times /\ match_loaded_users' = match_loaded_users
  BY DEF roundVars
<1>2. QED
  BY <1>1 DEF TablesOfRooms

LEMMA StatusRefines ==
  ASSUME FreshInv, NEW u \in User, SetsStatus(u)
  PROVE  Refines(u)
<1>1. PICK st \in HAS_PLAYER \ {"PLAYING"} : SetStatus(u, st)
  BY DEF SetsStatus, MatchReady, MatchNotReady, MatchNoBeatmap, MatchHasBeatmap, HAS_PLAYER
<1> DEFINE m == RoomOf(u)
           k == SeatOf(u)
           q == [matches[m] EXCEPT !.slots[k].status = st]
<1>2. /\ m \in DOMAIN matches /\ Sound(matches[m]) /\ k \in Slot
      /\ matches[m].slots[k].user_id = u /\ u # NoUser
  BY <1>1, OwnSeat DEF SetStatus, FreshInv
<1>3. Sound(q) /\ Seated(q) = Seated(matches[m]) /\ q.in_progress = matches[m].in_progress
  BY <1>2, SoundStatus
<1>4. /\ q.host_id = matches[m].host_id
      /\ \A v \in User : SeatsOf(q, v) = SeatsOf(matches[m], v)
      /\ PlaysIn(q) = PlaysIn(matches[m]) \ {u}
  BY <1>2, StatusKeeps
<1>5. /\ matches' = [matches EXCEPT ![m] = q]
      /\ user_to_match' = user_to_match /\ roundVars' = roundVars
  BY <1>1 DEF SetStatus
<1>6. user_to_match[u] = m
  BY DEF RoomOf
<1> HIDE DEF q, m, k
<1>7. /\ DOMAIN matches' = DOMAIN matches
      /\ \A n \in DOMAIN matches : matches'[n] = IF n = m THEN q ELSE matches[n]
  BY <1>2, <1>5
<1>8. TablesOfRooms'
  BY <1>3, <1>5, <1>7, TablesSame DEF FreshInv
<1>9. Inv'
  BY StatusStep DEF FreshInv
<1>10. SeatsKept(matches[m], q, u)
  BY <1>4 DEF SeatsKept
<1>11. QED
  BY <1>2, <1>3, <1>4, <1>5, <1>6, <1>7, <1>8, <1>9, <1>10, StopChange

LEMMA ChangeSlotRefines ==
  ASSUME FreshInv, NEW u \in User, NEW s \in Slot, MatchChangeSlot(u, s)
  PROVE  Refines(u)
<1> DEFINE m == RoomOf(u)
           q == Moved(matches[m], SeatOf(u), s)
<1>1. /\ m \in DOMAIN matches /\ Sound(matches[m]) /\ SeatOf(u) \in Slot
      /\ matches[m].slots[SeatOf(u)].user_id = u /\ u # NoUser
      /\ s \in FreeSlots(matches[m])
  BY OwnSeat DEF MatchChangeSlot, FreshInv
<1>2. Sound(q) /\ Seated(q) = Seated(matches[m]) /\ q.in_progress = matches[m].in_progress
  BY <1>1, SoundMoved
<1>3. SeatsKept(matches[m], q, u) /\ PlayKept(matches[m], q) /\ q.host_id = matches[m].host_id
  BY <1>1, MovedKeeps
<1>4. /\ matches' = [matches EXCEPT ![m] = q]
      /\ user_to_match' = user_to_match /\ roundVars' = roundVars
  BY DEF MatchChangeSlot
<1> HIDE DEF q, m
<1>5. /\ DOMAIN matches' = DOMAIN matches
      /\ \A n \in DOMAIN matches : matches'[n] = IF n = m THEN q ELSE matches[n]
  BY <1>1, <1>4
<1>6. TablesOfRooms'
  BY <1>2, <1>4, <1>5, TablesSame DEF FreshInv
<1>7. Inv'
  BY ChangeSlotStep DEF FreshInv
<1>8. QED
  BY <1>1, <1>2, <1>3, <1>4, <1>5, <1>6, <1>7, QuietChange

LEMMA LockRefines ==
  ASSUME FreshInv, NEW u \in User, NEW s \in Slot, MatchLock(u, s)
  PROVE  Refines(u)
<1> DEFINE m  == RoomOf(u)
           st == IF matches[m].slots[s].status = "OPEN" THEN "LOCKED" ELSE "OPEN"
           q  == [matches[m] EXCEPT !.slots[s].status = st]
<1>1. m \in DOMAIN matches /\ Sound(matches[m])
  BY DEF MatchLock, Hosts, Inv, RoomsSound, FreshInv
<1>2. matches[m].slots[s].status \notin HAS_PLAYER
  BY DEF MatchLock, Lockable, HAS_PLAYER
<1>3. st \in {"OPEN", "LOCKED"}
  OBVIOUS
<1>4. /\ matches' = [matches EXCEPT ![m] = q]
      /\ user_to_match' = user_to_match /\ roundVars' = roundVars
  BY DEF MatchLock
<1> HIDE DEF st
<1>5. Sound(q) /\ Seated(q) = Seated(matches[m]) /\ q.in_progress = matches[m].in_progress
  BY <1>1, <1>2, <1>3, SoundLock
<1>6. /\ q.host_id = matches[m].host_id
      /\ \A v \in User : SeatsOf(q, v) = SeatsOf(matches[m], v)
      /\ PlaysIn(q) = PlaysIn(matches[m]) \ {matches[m].slots[s].user_id}
  <2>1. st \in ({"OPEN", "LOCKED"} \cup HAS_PLAYER) \ {"PLAYING"}
    BY <1>3
  <2>2. QED
    BY <1>1, <2>1, StatusKeeps
<1>7. matches[m].slots[s].user_id = NoUser /\ NoUser \notin PlaysIn(matches[m])
  BY <1>1, <1>2, PlaysSeated DEF Sound, Seated
<1>8. PlayKept(matches[m], q) /\ SeatsKept(matches[m], q, u)
  BY <1>6, <1>7 DEF PlayKept, SeatsKept
<1> HIDE DEF q, m
<1>9. /\ DOMAIN matches' = DOMAIN matches
      /\ \A n \in DOMAIN matches : matches'[n] = IF n = m THEN q ELSE matches[n]
  BY <1>1, <1>4
<1>10. TablesOfRooms'
  BY <1>4, <1>5, <1>9, TablesSame DEF FreshInv
<1>11. Inv'
  BY LockStep DEF FreshInv
<1>12. QED
  BY <1>1, <1>4, <1>5, <1>6, <1>8, <1>9, <1>10, <1>11, QuietChange

LEMMA SettingsRefines ==
  ASSUME FreshInv, NEW u \in User, MatchChangeSettings(u)
  PROVE  Refines(u)
<1> DEFINE m == RoomOf(u)
           q == Settled(matches[m], u)
<1>1. m \in DOMAIN matches /\ Sound(matches[m])
  BY DEF MatchChangeSettings, Hosts, Inv, RoomsSound, FreshInv
<1>2. Seated(q) = Seated(matches[m]) /\ q.in_progress = matches[m].in_progress
  BY <1>1, SoundSettled
<1>3. SeatsKept(matches[m], q, u) /\ PlayKept(matches[m], q) /\ q.host_id = matches[m].host_id
  BY <1>1, SettledKeeps DEF SeatsKept
<1>4. /\ matches' = [matches EXCEPT ![m] = q]
      /\ user_to_match' = user_to_match /\ roundVars' = roundVars
  BY DEF MatchChangeSettings
<1> HIDE DEF q, m
<1>5. /\ DOMAIN matches' = DOMAIN matches
      /\ \A n \in DOMAIN matches : matches'[n] = IF n = m THEN q ELSE matches[n]
  BY <1>1, <1>4
<1>6. TablesOfRooms'
  BY <1>2, <1>4, <1>5, TablesSame DEF FreshInv
<1>7. Inv'
  BY SettingsStep DEF FreshInv
<1>8. QED
  BY <1>1, <1>2, <1>3, <1>4, <1>5, <1>6, <1>7, QuietChange

LEMMA ChangeHostRefines ==
  ASSUME FreshInv, NEW u \in User, NEW s \in Slot, MatchChangeHost(u, s)
  PROVE  Refines(u)
<1> DEFINE m == RoomOf(u)
           v == matches[m].slots[s].user_id
           q == [matches[m] EXCEPT !.host_id = v]
<1>1. /\ m \in DOMAIN matches /\ Sound(matches[m]) /\ matches[m].host_id = u
      /\ matches[m].slots[s].status \in HAS_PLAYER
  BY DEF MatchChangeHost, Hosts, Inv, RoomsSound, FreshInv
<1>2. v \in User /\ user_to_match[v] = m
  <2>1. v \in Seated(matches[m])
    BY <1>1 DEF Sound, Seated
  <2>2. QED
    BY <1>1, <2>1, SeatedUsers DEF FreshInv, Inv, Registered
<1>3. /\ matches' = [matches EXCEPT ![m] = q]
      /\ user_to_match' = user_to_match /\ roundVars' = roundVars
  BY DEF MatchChangeHost
<1>4. Sound(q) /\ Seated(q) = Seated(matches[m]) /\ q.in_progress = matches[m].in_progress
  BY <1>1, SoundHost
<1>5. /\ q.host_id = v /\ SeatsKept(matches[m], q, u) /\ PlayKept(matches[m], q)
  BY <1>1, HostKeeps DEF SeatsKept
<1>6. user_to_match[u] = m
  BY DEF RoomOf
<1> HIDE DEF q, m, v
<1>7. /\ DOMAIN matches' = DOMAIN matches
      /\ \A n \in DOMAIN matches : matches'[n] = IF n = m THEN q ELSE matches[n]
  BY <1>1, <1>3
<1>8. TablesOfRooms'
  BY <1>3, <1>4, <1>7, TablesSame DEF FreshInv
<1>9. Inv'
  BY ChangeHostStep DEF FreshInv
<1>10. /\ FreshInv' /\ OthersStay(u) /\ m \in MatchId
       /\ Host' = [Host EXCEPT ![m] = q.host_id]
       /\ \A n \in MatchId : Round'[n] = IF n = m THEN q.in_progress ELSE Round[n]
       /\ \A w \in User : w \in Playing  <=> IF user_to_match[w] = m THEN w \in PlaysIn(matches[m])
                                                                  ELSE w \in Playing
       /\ \A w \in User : w \in Playing' <=> IF user_to_match[w] = m THEN w \in PlaysIn(q)
                                                                  ELSE w \in Playing
  BY <1>1, <1>3, <1>4, <1>5, <1>7, <1>8, <1>9, RoomChanged
<1>11. Round' = Round
  <2>1. \A n \in MatchId : Round'[n] = Round[n]
    BY <1>1, <1>4, <1>10 DEF Round, Sound, Match
  <2>2. Round = [n \in MatchId |-> Round[n]] /\ Round' = [n \in MatchId |-> Round'[n]]
    BY DEF Round
  <2>3. QED
    BY <2>1, <2>2
<1>12. Playing' = Playing
  BY <1>5, <1>10 DEF PlayKept, Playing
<1>13. Host[m] = u /\ m # NoMatch
  BY <1>1, <1>10, MultiplayerAssumption DEF Host, MatchId, NoMatch
<1>14. Host' = [Host EXCEPT ![m] = v]
  BY <1>5, <1>10
<1>15. Directory!Next
  BY <1>2, <1>3, <1>6, <1>11, <1>12, <1>13, <1>14, IsHandOver
<1>16. QED
  BY <1>10, <1>12, <1>15 DEF Refines

LEMMA StartRefines ==
  ASSUME FreshInv, NEW u \in User, MatchStart(u)
  PROVE  Refines(u)
<1> DEFINE m == RoomOf(u)
           q == Started(matches[m])
<1>1. m \in DOMAIN matches /\ Sound(matches[m]) /\ matches[m].host_id = u
  BY DEF MatchStart, Hosts, Inv, RoomsSound, FreshInv
<1>2. Sound(q) /\ Seated(q) = Seated(matches[m])
  BY <1>1, SoundStarted
<1>3. /\ q.host_id = u /\ q.in_progress = TRUE /\ SeatsKept(matches[m], q, u)
      /\ PlaysIn(matches[m]) \subseteq PlaysIn(q)
  BY <1>1, <1>2, StartedKeeps DEF SeatsKept, Sound, Match
<1>4. /\ matches' = [matches EXCEPT ![m] = q]
      /\ match_start_times' = match_start_times \cup {m}
      /\ match_loaded_users' \subseteq match_loaded_users
      /\ user_to_match' = user_to_match
  BY DEF MatchStart
<1>5. user_to_match[u] = m
  BY DEF RoomOf
<1> HIDE DEF q, m
<1>6. /\ DOMAIN matches' = DOMAIN matches
      /\ \A n \in DOMAIN matches : matches'[n] = IF n = m THEN q ELSE matches[n]
  BY <1>1, <1>4
<1>7. TablesOfRooms'
  BY <1>1, <1>3, <1>4, <1>6 DEF FreshInv, TablesOfRooms
<1>8. Inv'
  BY StartStep DEF FreshInv
<1>9. /\ FreshInv' /\ OthersStay(u) /\ m \in MatchId
      /\ Host' = [Host EXCEPT ![m] = q.host_id]
      /\ \A n \in MatchId : Round'[n] = IF n = m THEN q.in_progress ELSE Round[n]
      /\ \A w \in User : w \in Playing  <=> IF user_to_match[w] = m THEN w \in PlaysIn(matches[m])
                                                                 ELSE w \in Playing
      /\ \A w \in User : w \in Playing' <=> IF user_to_match[w] = m THEN w \in PlaysIn(q)
                                                                 ELSE w \in Playing
  BY <1>1, <1>2, <1>3, <1>4, <1>6, <1>7, <1>8, RoomChanged
<1>10. Host[m] = u /\ m # NoMatch
  BY <1>1, <1>9, MultiplayerAssumption DEF Host, MatchId, NoMatch
<1>11. Host' = Host
  BY <1>3, <1>9, <1>10 DEF Host
<1>12. Round' = [Round EXCEPT ![m] = TRUE]
  <2>1. Round = [n \in MatchId |-> Round[n]] /\ Round' = [n \in MatchId |-> Round'[n]]
    BY DEF Round
  <2>2. QED
    BY <1>3, <1>9, <2>1
<1>13. /\ Playing \subseteq Playing'
       /\ Playing' \subseteq Playing \cup {w \in User : user_to_match[w] = user_to_match[u]}
  BY <1>3, <1>5, <1>9 DEF Playing
<1>14. Directory!Next
  BY <1>4, <1>5, <1>10, <1>11, <1>12, <1>13, IsBegin
<1>15. QED
  BY <1>9, <1>13, <1>14 DEF Refines

\* Reports about the round change its tables only.
LEMMA ReportRefines ==
  ASSUME FreshInv, NEW u \in User, MatchLoadComplete(u) \/ MatchScoreUpdate(u)
  PROVE  Refines(u)
<1>1. /\ matches' = matches /\ user_to_match' = user_to_match
      /\ match_start_times' = match_start_times
      /\ match_loaded_users' \subseteq match_loaded_users \cup {<<RoomOf(u), u>>}
      /\ user_to_match[u] # NoMatch
  BY MultiplayerAssumption
     DEF MatchLoadComplete, MatchScoreUpdate, IsSeated, RoomOf, FreshInv, Inv, TypeOK, MatchId, NoMatch
<1> DEFINE m == user_to_match[u]
           q == matches[m]
<1>2. m \in DOMAIN matches
  BY <1>1 DEF FreshInv, Mapped
<1>3. TablesOfRooms'
  BY <1>1, <1>2 DEF FreshInv, TablesOfRooms, RoomOf
<1>4. Inv'
  BY ReportStep DEF FreshInv
<1>5. SeatsKept(matches[m], q, u) /\ PlayKept(matches[m], q)
  BY DEF SeatsKept, PlayKept
<1>6. QED
  BY <1>1, <1>2, <1>3, <1>4, <1>5, QuietChange

\* Room m, changed to c by a packet of u, goes through try_finish_match.
LEMMA FinishRefines ==
  ASSUME FreshInv, Inv', NEW u \in User, NEW m \in DOMAIN matches, user_to_match[u] = m,
         NEW c, Sound(c), Seated(c) = Seated(matches[m]), SeatsKept(matches[m], c, u),
         c.host_id = matches[m].host_id, c.in_progress = matches[m].in_progress,
         PlayKept(matches[m], c) \/ PlaysIn(c) = PlaysIn(matches[m]) \ {u},
         NEW ms, DOMAIN ms = DOMAIN matches,
         \A n \in DOMAIN matches : ms[n] = IF n = m THEN c ELSE matches[n],
         matches' = TryFinish(ms, m), ForgetRounds(Finished(ms, m)),
         user_to_match' = user_to_match
  PROVE  Refines(u)
<1> DEFINE q == IF RoundOver(c) THEN Conclude(c) ELSE c
           ids == Finished(ms, m)
<1>0. /\ FreshInv /\ Inv' /\ u \in User /\ m \in DOMAIN matches /\ user_to_match[u] = m
      /\ user_to_match' = user_to_match
      /\ Seated(c) = Seated(matches[m]) /\ SeatsKept(matches[m], c, u)
      /\ c.host_id = matches[m].host_id
  OBVIOUS
<1>1. ids = IF RoundOver(c) THEN {m} ELSE {}
  BY DEF Finished
<1>2. /\ DOMAIN matches' = DOMAIN matches
      /\ \A n \in DOMAIN matches : matches'[n] = IF n = m THEN q ELSE matches[n]
  BY <1>1 DEF TryFinish
<1>3. /\ RoundOver(c) => Seated(Conclude(c)) = Seated(c) /\ Conclude(c).in_progress = FALSE
      /\ RoundOver(c) => /\ Conclude(c).host_id = c.host_id
                         /\ \A v \in User : SeatsOf(Conclude(c), v) = SeatsOf(c, v)
                         /\ PlaysIn(c) = {} /\ PlaysIn(Conclude(c)) = {}
      /\ RoundOver(c) => c.in_progress
  BY SoundConclude, ConcludeKeeps DEF RoundOver, Sound, Match
<1>4. TablesOfRooms'
  <2>1. ForgetRounds(ids)
    OBVIOUS
  <2>2. q.in_progress <=> matches[m].in_progress /\ ~ RoundOver(c)
    BY <1>3
  <2> HIDE DEF ids, q
  <2>3. \A n : n \in DOMAIN matches' /\ matches'[n].in_progress <=>
                 n \in DOMAIN matches /\ n \notin ids /\ matches[n].in_progress
    BY <1>1, <1>2, <2>2
  <2>4. QED
    BY <1>2, <2>1, <2>3, TablesKept DEF FreshInv
<1>5. CASE RoundOver(c)
  <2>1. /\ Seated(q) = Seated(matches[m]) /\ SeatsKept(matches[m], q, u)
        /\ q.host_id = matches[m].host_id
        /\ q.in_progress = FALSE /\ PlaysIn(q) = {}
    BY <1>3, <1>5 DEF SeatsKept
  <2>2. PlaysIn(q) = PlaysIn(matches[m]) \ {u}
    BY <1>3, <1>5, <2>1 DEF PlayKept
  <2> HIDE DEF q
  <2>3. \/ q.in_progress = matches[m].in_progress
        \/ q.in_progress = FALSE /\ PlaysIn(q) = {}
    BY <2>1
  <2>4. QED
    BY ONLY <1>0, <1>2, <1>4, <2>1, <2>2, <2>3, StopChange
<1>6. CASE ~ RoundOver(c) /\ PlayKept(matches[m], c)
  <2>1. \A n \in DOMAIN matches : matches'[n] = IF n = m THEN c ELSE matches[n]
    BY <1>2, <1>6
  <2>2. QED
    BY <1>2, <1>4, <1>6, <2>1, QuietChange
<1>7. CASE ~ RoundOver(c) /\ PlaysIn(c) = PlaysIn(matches[m]) \ {u}
  <2>1. \A n \in DOMAIN matches : matches'[n] = IF n = m THEN c ELSE matches[n]
    BY <1>2, <1>7
  <2>2. \/ c.in_progress = matches[m].in_progress
        \/ c.in_progress = FALSE /\ PlaysIn(c) = {}
    OBVIOUS
  <2>3. PlaysIn(c) = PlaysIn(matches[m]) \ {u} /\ DOMAIN matches' = DOMAIN matches
    BY <1>2, <1>7
  <2>4. QED
    BY ONLY <1>0, <1>4, <2>1, <2>2, <2>3, StopChange
<1>8. QED
  BY <1>5, <1>6, <1>7

LEMMA TeamRefines ==
  ASSUME FreshInv, NEW u \in User, MatchChangeTeam(u)
  PROVE  Refines(u)
<1> DEFINE m == user_to_match[u]
           c == matches[m]
<1>1. m \in DOMAIN matches /\ Sound(c)
  BY OwnSeat DEF MatchChangeTeam, FreshInv, RoomOf
<1>2. /\ matches' = TryFinish(matches, m) /\ ForgetRounds(Finished(matches, m))
      /\ user_to_match' = user_to_match
  BY DEF MatchChangeTeam, RoomOf
<1>3. SeatsKept(matches[m], c, u) /\ PlayKept(matches[m], c)
  BY DEF SeatsKept, PlayKept
<1>4. Inv'
  BY TeamStep DEF FreshInv
<1>5. QED
  BY <1>1, <1>2, <1>3, <1>4, FinishRefines

LEMMA CompleteRefines ==
  ASSUME FreshInv, NEW u \in User, MatchComplete(u)
  PROVE  Refines(u)
<1> DEFINE m  == RoomOf(u)
           k  == SeatOf(u)
           c  == [matches[m] EXCEPT !.slots[k].status = "COMPLETE"]
           ms == [matches EXCEPT ![m] = c]
<1>1. m # NoMatch /\ user_to_match[u] = m
  BY DEF MatchComplete, RoomOf
<1>2. IsSeated(u)
  BY <1>1, Occupancy
<1>3. /\ m \in DOMAIN matches /\ Sound(matches[m]) /\ k \in Slot
      /\ matches[m].slots[k].user_id = u /\ u # NoUser
  BY <1>2, OwnSeat DEF FreshInv
<1>4. /\ matches' = TryFinish(ms, m) /\ ForgetRounds(Finished(ms, m))
      /\ user_to_match' = user_to_match
  BY <1>2 DEF MatchComplete
<1>5. "COMPLETE" \in HAS_PLAYER \ {"PLAYING"}
  BY DEF HAS_PLAYER
<1>6. Sound(c) /\ Seated(c) = Seated(matches[m]) /\ c.in_progress = matches[m].in_progress
  BY <1>3, <1>5, SoundStatus
<1>7. /\ c.host_id = matches[m].host_id
      /\ \A v \in User : SeatsOf(c, v) = SeatsOf(matches[m], v)
      /\ PlaysIn(c) = PlaysIn(matches[m]) \ {u}
  BY <1>3, <1>5, StatusKeeps
<1> HIDE DEF c, m, k
<1>8. /\ DOMAIN ms = DOMAIN matches
      /\ \A n \in DOMAIN matches : ms[n] = IF n = m THEN c ELSE matches[n]
  BY <1>3
<1> HIDE DEF ms
<1>9. Inv'
  BY CompleteStep DEF FreshInv
<1>10. SeatsKept(matches[m], c, u)
  BY <1>7 DEF SeatsKept
<1>11. QED
  BY <1>1, <1>3, <1>4, <1>6, <1>7, <1>8, <1>9, <1>10, FinishRefines

-----------------------------------------------------------------------------
(* The handlers that leave a room *)

\* The room that u leaves, seen from user_to_match.
LEMMA RoomMates ==
  ASSUME FreshInv, NEW u \in User
  PROVE  /\ \A n \in DOMAIN matches :
              n # user_to_match[u] => u \notin Seated(matches[n]) /\ n \in DOMAIN Without(u)
         /\ user_to_match[u] = NoMatch => DOMAIN Without(u) = DOMAIN matches
         /\ user_to_match[u] # NoMatch =>
              /\ user_to_match[u] \in DOMAIN matches
              /\ Others(u) = Seated(matches[user_to_match[u]]) \ {u}
              /\ user_to_match[u] \in DOMAIN Without(u) <=> Others(u) # {}
<1>1. \A n \in DOMAIN matches : /\ Seated(matches[n]) # {} /\ Seated(matches[n]) \subseteq User
                                /\ n # NoMatch
                                /\ \A v \in User : v \in Seated(matches[n]) <=> user_to_match[v] = n
  BY Sitting, SeatedUsers, MultiplayerAssumption DEF FreshInv, Inv, RoomsSound, Sound
<1>2. DOMAIN Without(u) = {n \in DOMAIN matches : ~ (Seated(matches[n]) \subseteq {u})}
  BY LeavingKeeps DEF FreshInv
<1>3. \A n \in DOMAIN matches :
        n # user_to_match[u] => u \notin Seated(matches[n]) /\ n \in DOMAIN Without(u)
  BY <1>1, <1>2
<1>4. user_to_match[u] = NoMatch => DOMAIN Without(u) = DOMAIN matches
  BY <1>1, <1>2, <1>3
<1>5. ASSUME user_to_match[u] # NoMatch
      PROVE  /\ user_to_match[u] \in DOMAIN matches
             /\ Others(u) = Seated(matches[user_to_match[u]]) \ {u}
             /\ user_to_match[u] \in DOMAIN Without(u) <=> Others(u) # {}
  <2>1. user_to_match[u] \in DOMAIN matches
    BY <1>5 DEF FreshInv, Mapped
  <2>2. Others(u) = Seated(matches[user_to_match[u]]) \ {u}
    BY <1>1, <2>1 DEF Others
  <2>3. QED
    BY <1>2, <2>1, <2>2
<1>6. QED
  BY <1>3, <1>4, <1>5

\* The hosts of the rooms that are left are the successors that the directory allows.
LEMMA HostsLeft ==
  ASSUME FreshInv, NEW u \in User
  PROVE  [n \in MatchId |-> IF n \in DOMAIN Without(u) THEN Without(u)[n].host_id ELSE NoUser]
           \in HostsAfter(u)
<1> DEFINE k  == user_to_match[u]
           ms == Without(u)
           h  == [n \in MatchId |-> IF n \in DOMAIN ms THEN ms[n].host_id ELSE NoUser]
<1>1. /\ \A n \in DOMAIN matches : n # k => u \notin Seated(matches[n]) /\ n \in DOMAIN ms
      /\ k = NoMatch => DOMAIN ms = DOMAIN matches
      /\ k # NoMatch => /\ k \in DOMAIN matches
                        /\ Others(u) = Seated(matches[k]) \ {u}
                        /\ k \in DOMAIN ms <=> Others(u) # {}
  BY RoomMates
<1>2. /\ DOMAIN ms \subseteq DOMAIN matches
      /\ \A n \in DOMAIN ms : /\ ms[n].host_id \in Seated(matches[n]) \ {u}
                              /\ matches[n].host_id # u => ms[n].host_id = matches[n].host_id
                              /\ matches[n].host_id \in Seated(matches[n])
  BY Leaving, LeavingKeeps DEF FreshInv, Inv, RoomsSound, Sound
<1>3. \A n \in DOMAIN ms : n # k => ms[n].host_id = matches[n].host_id
  BY <1>1, <1>2
<1>4. DOMAIN matches \subseteq MatchId /\ \A n \in DOMAIN matches : n # NoMatch
  BY MultiplayerAssumption DEF FreshInv, Inv, TypeOK, MatchId, NoMatch
<1> HIDE DEF ms, k
<1>5. \A n \in MatchId : n # k => h[n] = Host[n]
  BY <1>1, <1>2, <1>3 DEF Host
<1>6. CASE k = NoMatch
  <2>1. h = Host
    BY <1>1, <1>2, <1>4, <1>5, <1>6 DEF Host
  <2>2. QED
    BY <1>6, <2>1 DEF HostsAfter, k, h, ms
<1>7. CASE k # NoMatch /\ Others(u) = {}
  <2>1. k \in MatchId /\ k \notin DOMAIN ms
    BY <1>1, <1>4, <1>7
  <2>2. h = [Host EXCEPT ![k] = NoUser]
    BY <1>5, <2>1 DEF Host
  <2>3. QED
    BY <1>7, <2>2 DEF HostsAfter, k, h, ms
<1>8. CASE k # NoMatch /\ Others(u) # {} /\ Host[k] # u
  <2>1. k \in MatchId /\ k \in DOMAIN ms /\ k \in DOMAIN matches
    BY <1>1, <1>4, <1>8
  <2>2. h[k] = Host[k]
    BY <1>2, <1>8, <2>1 DEF Host
  <2>3. h = Host
    BY <1>5, <2>2 DEF Host
  <2>4. QED
    BY <1>8, <2>3 DEF HostsAfter, k, h, ms
<1>9. CASE k # NoMatch /\ Others(u) # {} /\ Host[k] = u
  <2>1. k \in MatchId /\ k \in DOMAIN ms
    BY <1>1, <1>4, <1>9
  <2>2. ms[k].host_id \in Others(u)
    BY <1>1, <1>2, <1>9, <2>1
  <2>3. h = [Host EXCEPT ![k] = ms[k].host_id]
    BY <1>5, <2>1 DEF Host
  <2>4. QED
    BY <1>9, <2>2, <2>3 DEF HostsAfter, k, h, ms
<1>10. QED
  BY <1>6, <1>7, <1>8, <1>9

\* A step of u that leaves u's room and puts u in room x, or nowhere.  The round
\* of the room left behind may end if nobody plays in it.
Puts(u, x) ==
    /\ user_to_match' = [user_to_match EXCEPT ![u] = x]
    /\ DOMAIN matches' = DOMAIN Without(u) \cup ({x} \ {NoMatch})
    /\ \A n \in DOMAIN Without(u) :
         /\ SeatsKept(Without(u)[n], matches'[n], u)
         /\ Seated(Without(u)[n]) \subseteq Seated(matches'[n])
         /\ PlaysIn(matches'[n]) = PlaysIn(Without(u)[n])
         /\ matches'[n].host_id = Without(u)[n].host_id
         /\ \/ matches'[n].in_progress = Without(u)[n].in_progress
            \/ /\ n = user_to_match[u] /\ PlaysIn(Without(u)[n]) = {}
               /\ matches'[n].in_progress = FALSE
    /\ x # NoMatch =>
         /\ u \in Seated(matches'[x]) /\ u \notin PlaysIn(matches'[x])
         /\ x \notin DOMAIN Without(u) => x \notin DOMAIN matches /\ ~ matches'[x].in_progress

LEMMA PutsKeeps ==
  ASSUME FreshInv, Inv', TablesOfRooms', NEW u \in User, NEW x \in MatchId \cup {NoMatch}, Puts(u, x)
  PROVE  FreshInv' /\ OthersStay(u) /\ Playing' = Playing \ {u}
<1> DEFINE ms == Without(u)
<1>1. \A v \in User \ {u} : user_to_match'[v] = user_to_match[v]
  BY DEF Puts
<1>2. user_to_match'[u] = x
  BY DEF Puts, FreshInv, Inv, TypeOK
<1>3. \A v \in User \ {u} : user_to_match[v] # NoMatch =>
        user_to_match[v] \in DOMAIN ms /\ v \in Seated(ms[user_to_match[v]])
  <2> TAKE v \in User \ {u}
  <2> HAVE user_to_match[v] # NoMatch
  <2>1. user_to_match[v] \in DOMAIN matches /\ v \in Seated(matches[user_to_match[v]])
    BY DEF FreshInv, Mapped
  <2>2. user_to_match[v] \in DOMAIN ms
    BY <2>1, LeavingKeeps DEF FreshInv
  <2>3. QED
    BY <2>1, <2>2, Leaving DEF FreshInv
<1>4. Mapped'
  <2>1. ASSUME NEW v \in User, user_to_match'[v] # NoMatch
        PROVE  user_to_match'[v] \in DOMAIN matches' /\ v \in Seated(matches'[user_to_match'[v]])
    <3>1. CASE v = u
      BY <1>2, <2>1, <3>1 DEF Puts
    <3>2. CASE v # u
      BY <1>1, <1>3, <2>1, <3>2 DEF Puts
    <3>3. QED
      BY <3>1, <3>2
  <2>2. QED
    BY <2>1 DEF Mapped
<1>5. FreshInv'
  BY <1>4 DEF FreshInv
<1>6. \A n \in DOMAIN matches : n \in DOMAIN matches' => SeatsKept(matches[n], matches'[n], u)
  <2> TAKE n \in DOMAIN matches
  <2> HAVE n \in DOMAIN matches'
  <2>1. n \in DOMAIN ms
    BY DEF Puts
  <2>2. SeatsKept(matches[n], ms[n], u) /\ SeatsKept(ms[n], matches'[n], u)
    BY <2>1, LeavingKeeps DEF Puts, FreshInv
  <2>3. QED
    BY <2>2 DEF SeatsKept
<1>7. OthersStay(u)
  BY <1>1, <1>5, <1>6, Staying
<1>8. \A v \in User \ {u} : v \in Playing' <=> v \in Playing
  <2> TAKE v \in User \ {u}
  <2>1. /\ v \in Playing <=> /\ user_to_match[v] # NoMatch
                             /\ v \in PlaysIn(matches[user_to_match[v]])
        /\ v \in Playing' <=> /\ user_to_match[v] # NoMatch
                              /\ v \in PlaysIn(matches'[user_to_match[v]])
    BY <1>1, <1>5, Occupancy, OccupancyNext
  <2>2. user_to_match[v] # NoMatch =>
          PlaysIn(matches'[user_to_match[v]]) = PlaysIn(matches[user_to_match[v]]) \ {u}
    BY <1>3, LeavingKeeps DEF Puts, FreshInv
  <2>3. QED
    BY <2>1, <2>2
<1>9. u \notin Playing'
  BY <1>2, <1>5, OccupancyNext DEF Puts
<1>10. Playing' = Playing \ {u}
  BY <1>8, <1>9 DEF Playing
<1>11. QED
  BY <1>5, <1>7, <1>10

LEMMA PutsDeparts ==
  ASSUME FreshInv, Inv', TablesOfRooms', NEW u \in User, NEW x \in MatchId \cup {NoMatch}, Puts(u, x)
  PROVE  Departs(u)
<1> DEFINE k  == user_to_match[u]
           ms == Without(u)
<1>1. Playing' = Playing \ {u}
  BY PutsKeeps
<1>2. /\ \A n \in DOMAIN matches : n # k => u \notin Seated(matches[n]) /\ n \in DOMAIN ms
      /\ k = NoMatch => DOMAIN ms = DOMAIN matches
      /\ k # NoMatch => /\ k \in DOMAIN matches
                        /\ Others(u) = Seated(matches[k]) \ {u}
                        /\ k \in DOMAIN ms <=> Others(u) # {}
  BY RoomMates
<1>3. /\ DOMAIN ms \subseteq DOMAIN matches
      /\ \A n \in DOMAIN ms : /\ ms[n].in_progress = matches[n].in_progress
                              /\ matches[n].in_progress \in BOOLEAN
                              /\ PlaysIn(ms[n]) = PlaysIn(matches[n]) \ {u}
      /\ DOMAIN matches \subseteq MatchId
      /\ \A n \in DOMAIN matches : n # NoMatch
  <2>1. /\ DOMAIN ms \subseteq DOMAIN matches
        /\ \A n \in DOMAIN ms : /\ ms[n].in_progress = matches[n].in_progress
                                /\ PlaysIn(ms[n]) = PlaysIn(matches[n]) \ {u}
    BY Leaving, LeavingKeeps DEF FreshInv
  <2>2. \A n \in DOMAIN matches : matches[n].in_progress \in BOOLEAN
    BY DEF FreshInv, Inv, RoomsSound, Sound, Match
  <2>3. DOMAIN matches \subseteq MatchId /\ \A n \in DOMAIN matches : n # NoMatch
    BY MultiplayerAssumption DEF FreshInv, Inv, TypeOK, MatchId, NoMatch
  <2>4. QED
    BY <2>1, <2>2, <2>3
<1> HIDE DEF ms, k
<1>4. \A n \in DOMAIN ms : n # k => matches'[n].in_progress = matches[n].in_progress
  BY <1>3 DEF Puts, ms, k
<1>5. \A n \in MatchId : n # k => Round'[n] = Round[n]
  <2> TAKE n \in MatchId
  <2> HAVE n # k
  <2>1. CASE n \in DOMAIN ms
    BY <1>3, <1>4, <2>1 DEF Round, Puts, ms
  <2>2. CASE n \notin DOMAIN ms
    <3>1. n \notin DOMAIN matches
      BY <1>2, <2>2
    <3>2. n \in DOMAIN matches' => n = x /\ x # NoMatch /\ ~ matches'[x].in_progress
      BY <2>2 DEF Puts, ms
    <3>3. QED
      BY <3>1, <3>2 DEF Round
  <2>3. QED
    BY <2>1, <2>2
<1>6. Round = [n \in MatchId |-> Round[n]] /\ Round' = [n \in MatchId |-> Round'[n]]
  BY DEF Round
<1>7. CASE k = NoMatch
  <2>1. \A n \in MatchId : Round'[n] = Round[n]
    BY <1>5, <1>7, MultiplayerAssumption DEF MatchId, NoMatch
  <2>2. Round' = Round
    BY <1>6, <2>1
  <2>3. QED
    BY <1>1, <1>7, <2>2 DEF Departs, RoundsAfter, k
<1>8. CASE k # NoMatch /\ Others(u) = {}
  <2>1. k \notin DOMAIN ms /\ k \in DOMAIN matches /\ k \in MatchId
    BY <1>2, <1>3, <1>8
  <2>2. k \notin DOMAIN matches'
    BY <1>8, <2>1 DEF Puts, ms
  <2>3. Round'[k] = FALSE
    BY <2>1, <2>2 DEF Round
  <2>4. Round' = [Round EXCEPT ![k] = FALSE]
    BY <1>5, <1>6, <2>1, <2>3
  <2>5. QED
    BY <1>1, <1>8, <2>3, <2>4 DEF Departs, RoundsAfter, k
<1>9. CASE k # NoMatch /\ Others(u) # {}
  <2>1. k \in DOMAIN ms /\ k \in DOMAIN matches /\ k \in MatchId
    BY <1>2, <1>3, <1>9
  <2>2. k \in DOMAIN matches'
    BY <2>1 DEF Puts, ms
  <2>3. CASE matches'[k].in_progress = ms[k].in_progress
    <3>1. Round'[k] = Round[k]
      BY <1>3, <2>1, <2>2, <2>3 DEF Round
    <3>2. Round' = Round
      BY <1>5, <1>6, <3>1
    <3>3. QED
      BY <1>1, <1>9, <3>2 DEF Departs, RoundsAfter, k
  <2>4. CASE PlaysIn(ms[k]) = {} /\ matches'[k].in_progress = FALSE
    <3>1. Round'[k] = FALSE
      BY <2>1, <2>2, <2>4 DEF Round
    <3>2. Round' = [Round EXCEPT ![k] = FALSE]
      BY <1>5, <1>6, <3>1
    <3>3. PlaysIn(matches[k]) \subseteq {u}
      BY <1>3, <2>1, <2>4
    <3>4. Others(u) \cap Playing = {}
      BY <3>3, Occupancy DEF Others, k
    <3>5. QED
      BY <1>1, <1>9, <3>2, <3>4 DEF Departs, RoundsAfter, k
  <2>5. QED
    BY <2>1, <2>3, <2>4 DEF Puts, ms
<1>10. QED
  BY <1>7, <1>8, <1>9

\* u is put in no room: a step only if u was in one.
LEMMA PutsNowhere ==
  ASSUME FreshInv, Inv', TablesOfRooms', NEW u \in User, Puts(u, NoMatch)
  PROVE  Refines(u)
<1>1. FreshInv' /\ OthersStay(u) /\ Playing' = Playing \ {u} /\ Departs(u)
  BY PutsKeeps, PutsDeparts
<1>2. Host' = [n \in MatchId |-> IF n \in DOMAIN Without(u) THEN Without(u)[n].host_id ELSE NoUser]
  BY DEF Host, Puts
<1>3. Host' \in HostsAfter(u)
  BY <1>2, HostsLeft
<1>4. CASE user_to_match[u] # NoMatch
  BY <1>1, <1>3, <1>4, IsLeave DEF Refines, Puts
<1>5. CASE user_to_match[u] = NoMatch
  <2>1. user_to_match' = user_to_match
    <3>1. user_to_match = [v \in User |-> user_to_match[v]]
      BY DEF FreshInv, Inv, TypeOK
    <3>2. QED
      BY <1>5, <3>1 DEF Puts
  <2>2. Host' = Host
    BY <1>3, <1>5 DEF HostsAfter
  <2>3. Round' = Round
    BY <1>1, <1>5 DEF Departs, RoundsAfter
  <2>4. u \notin Playing
    BY <1>5, Occupancy
  <2>5. Playing' = Playing
    BY <1>1, <2>4
  <2>6. QED
    BY <1>1, <2>1, <2>2, <2>3, <2>5, IsStutter DEF Refines
<1>6. QED
  BY <1>4, <1>5

\* The tables of the rounds when the rounds of rooms ids are forgotten.
LEMMA PutsTables ==
  ASSUME FreshInv, NEW u \in User, NEW x \in MatchId \cup {NoMatch}, Puts(u, x),
         NEW ids, ForgetRounds(ids),
         DOMAIN matches \ ids \subseteq DOMAIN Without(u),
         \A n \in DOMAIN Without(u) :
           matches'[n].in_progress <=> Without(u)[n].in_progress /\ n \notin ids
  PROVE  TablesOfRooms'
<1>1. /\ DOMAIN Without(u) \subseteq DOMAIN matches
      /\ \A n \in DOMAIN Without(u) : Without(u)[n].in_progress = matches[n].in_progress
  BY Leaving DEF FreshInv
<1>2. \A n : n \in DOMAIN matches' /\ matches'[n].in_progress <=>
               n \in DOMAIN matches /\ n \notin ids /\ matches[n].in_progress
  BY <1>1 DEF Puts
<1>3. DOMAIN matches \ ids \subseteq DOMAIN matches'
  BY DEF Puts
<1>4. QED
  BY <1>2, <1>3, TablesKept DEF FreshInv

LEMMA RemoveRefines ==
  ASSUME FreshInv, NEW u \in User, Logout(u) \/ Evict(u)
  PROVE  Refines(u)
<1>1. /\ matches' = Without(u)
      /\ user_to_match' = [user_to_match EXCEPT ![u] = NoMatch]
      /\ ForgetRounds(Disbanded(u))
  BY DEF Logout, Evict, RemoveSession
<1>2. Puts(u, NoMatch)
  BY <1>1 DEF Puts, SeatsKept
<1>3. DOMAIN Without(u) \subseteq DOMAIN matches
  BY Leaving DEF FreshInv
<1>4. TablesOfRooms'
  BY <1>1, <1>2, <1>3, PutsTables DEF Disbanded
<1>5. Inv'
  BY RemoveStep DEF FreshInv
<1>6. QED
  BY <1>2, <1>4, <1>5, PutsNowhere

LEMMA PartRefines ==
  ASSUME FreshInv, NEW u \in User, MatchPart(u)
  PROVE  Refines(u)
<1> DEFINE m   == RoomOf(u)
           ms  == Without(u)
           ids == Disbanded(u) \cup Finished(ms, m)
<1>1. m # NoMatch /\ m = user_to_match[u]
  BY DEF MatchPart, RoomOf
<1>2. IsSeated(u)
  BY <1>1, Occupancy
<1>3. /\ matches' = TryFinish(ms, m) /\ ForgetRounds(ids)
      /\ user_to_match' = [user_to_match EXCEPT ![u] = NoMatch]
  BY <1>2 DEF MatchPart
<1>4. /\ DOMAIN ms \subseteq DOMAIN matches
      /\ \A n \in DOMAIN ms : Sound(ms[n])
  BY Leaving DEF FreshInv
<1> HIDE DEF ms, m
<1>5. /\ DOMAIN matches' = DOMAIN ms
      /\ \A n \in DOMAIN ms : /\ n \notin Finished(ms, m) => matches'[n] = ms[n]
                              /\ n \in Finished(ms, m) =>
                                   matches'[n] = Conclude(ms[n]) /\ n = m /\ RoundOver(ms[n])
  BY <1>3 DEF TryFinish, Finished
<1>6. ASSUME NEW n \in DOMAIN ms, n \in Finished(ms, m)
      PROVE  /\ \A v \in User : SeatsOf(matches'[n], v) = SeatsOf(ms[n], v)
             /\ Seated(matches'[n]) = Seated(ms[n])
             /\ PlaysIn(matches'[n]) = {} /\ PlaysIn(ms[n]) = {}
             /\ matches'[n].host_id = ms[n].host_id
             /\ matches'[n].in_progress = FALSE
             /\ n = user_to_match[u]
  <2>1. /\ Sound(Conclude(ms[n])) /\ Seated(Conclude(ms[n])) = Seated(ms[n])
        /\ ~ Conclude(ms[n]).in_progress
        /\ Conclude(ms[n]).host_id = ms[n].host_id
        /\ \A v \in User : SeatsOf(Conclude(ms[n]), v) = SeatsOf(ms[n], v)
        /\ PlaysIn(ms[n]) = {} /\ PlaysIn(Conclude(ms[n])) = {}
    BY <1>4, <1>5, <1>6, SoundConclude, ConcludeKeeps
  <2>2. matches'[n] = Conclude(ms[n]) /\ n = m
    BY <1>5, <1>6
  <2>3. Conclude(ms[n]).in_progress = FALSE
    BY <2>1 DEF Sound, Match
  <2>4. QED
    BY <1>1, <2>1, <2>2, <2>3
<1>7. Puts(u, NoMatch)
  <2>1. DOMAIN matches' = DOMAIN Without(u) \cup ({NoMatch} \ {NoMatch})
    BY <1>5 DEF ms
  <2>2. ASSUME NEW n \in DOMAIN ms
        PROVE  /\ SeatsKept(ms[n], matches'[n], u)
               /\ Seated(ms[n]) \subseteq Seated(matches'[n])
               /\ PlaysIn(matches'[n]) = PlaysIn(ms[n])
               /\ matches'[n].host_id = ms[n].host_id
               /\ \/ matches'[n].in_progress = ms[n].in_progress
                  \/ /\ n = user_to_match[u] /\ PlaysIn(ms[n]) = {}
                     /\ matches'[n].in_progress = FALSE
    <3>1. CASE n \in Finished(ms, m)
      BY <1>6, <3>1 DEF SeatsKept
    <3>2. CASE n \notin Finished(ms, m)
      BY <1>5, <3>2 DEF SeatsKept
    <3>3. QED
      BY <3>1, <3>2
  <2>3. QED
    BY <1>3, <2>1, <2>2 DEF Puts, ms
<1>8. /\ DOMAIN matches \ ids \subseteq DOMAIN ms
      /\ \A n \in DOMAIN ms : matches'[n].in_progress <=> ms[n].in_progress /\ n \notin ids
  <2>1. \A n \in DOMAIN ms : n \in ids <=> n \in Finished(ms, m)
    BY DEF Disbanded, ms
  <2>2. \A n \in DOMAIN ms : matches'[n].in_progress <=> ms[n].in_progress /\ n \notin Finished(ms, m)
    BY <1>5, <1>6
  <2>3. DOMAIN matches \ ids \subseteq DOMAIN ms
    BY DEF Disbanded, ms
  <2>4. QED
    BY <2>1, <2>2, <2>3
<1> HIDE DEF ids
<1>9. TablesOfRooms'
  BY <1>3, <1>7, <1>8, PutsTables DEF ms
<1>10. Inv'
  BY PartStep DEF FreshInv
<1>11. QED
  BY <1>7, <1>9, <1>10, PutsNowhere

LEMMA CreateRefines ==
  ASSUME FreshInv, NEW u \in User, CreateFresh(u)
  PROVE  Refines(u)
<1> DEFINE id == next_match_id
           ms == Without(u)
           h  == [n \in MatchId |-> IF n \in DOMAIN ms THEN ms[n].host_id ELSE NoUser]
<1>1. MatchCreate(u) /\ id \notin DOMAIN matches
  BY DEF CreateFresh
<1>2. /\ DOMAIN matches' = DOMAIN ms \cup {id}
      /\ \A n \in DOMAIN matches' : matches'[n] = IF n = id THEN NewMatch(u) ELSE ms[n]
      /\ user_to_match' = [user_to_match EXCEPT ![u] = id]
      /\ ForgetRounds(Disbanded(u))
  BY <1>1 DEF MatchCreate
<1>3. id \in MatchId /\ id # NoMatch
  BY MultiplayerAssumption DEF FreshInv, Inv, TypeOK, MatchId, NoMatch
<1>4. DOMAIN ms \subseteq DOMAIN matches
  BY Leaving DEF FreshInv
<1>5. \A n \in DOMAIN ms : n # id /\ matches'[n] = ms[n]
  BY <1>1, <1>2, <1>4
<1>6. /\ matches'[id] = NewMatch(u)
      /\ Seated(NewMatch(u)) = {u} /\ PlaysIn(NewMatch(u)) = {} /\ ~ NewMatch(u).in_progress
      /\ NewMatch(u).host_id = u
  BY <1>2, SoundNewMatch, NewMatchPlays
<1> HIDE DEF id
<1>7. Puts(u, id)
  BY <1>1, <1>2, <1>3, <1>5, <1>6 DEF Puts, SeatsKept
<1>8. /\ DOMAIN matches \ Disbanded(u) \subseteq DOMAIN ms
      /\ \A n \in DOMAIN ms : n \notin Disbanded(u)
  BY DEF Disbanded
<1>9. TablesOfRooms'
  BY <1>2, <1>3, <1>5, <1>7, <1>8, PutsTables
<1>10. Inv'
  BY <1>1, CreateStep DEF FreshInv
<1>11. FreshInv' /\ OthersStay(u) /\ Departs(u)
  BY <1>3, <1>7, <1>9, <1>10, PutsKeeps, PutsDeparts
<1>12. h \in HostsAfter(u)
  BY HostsLeft
<1>13. Host' = [h EXCEPT ![id] = u] /\ Host[id] = NoUser
  <2>1. \A n \in MatchId : Host'[n] = IF n = id THEN u ELSE h[n]
    BY <1>2, <1>5, <1>6 DEF Host
  <2>2. Host' = [n \in MatchId |-> Host'[n]]
    BY DEF Host
  <2>3. QED
    BY <1>1, <1>3, <2>1, <2>2 DEF Host
<1> HIDE DEF h
<1>14. Directory!Next
  BY <1>2, <1>3, <1>11, <1>12, <1>13, IsOpen
<1>15. QED
  BY <1>11, <1>14 DEF Refines, Departs

LEMMA JoinRefines ==
  ASSUME FreshInv, NEW u \in User, NEW m \in MatchId, MatchJoin(u, m)
  PROVE  Refines(u)
<1> DEFINE ms == Without(u)
<1>1. ForgetRounds(Disbanded(u)) /\ m \in DOMAIN matches
  BY DEF MatchJoin
<1>2. DOMAIN ms \subseteq DOMAIN matches /\ DOMAIN ms = DOMAIN matches \ Disbanded(u)
  BY Leaving DEF Disbanded, FreshInv
<1>3. Inv'
  BY JoinStep DEF FreshInv
<1>4. CASE m \in DOMAIN ms
  <2> DEFINE k == Min(FreeSlots(ms[m]))
             q == [ms[m] EXCEPT !.slots[k] = [status |-> "NOT_READY", user_id |-> u]]
  <2>1. /\ matches' = [ms EXCEPT ![m] = q]
        /\ user_to_match' = [user_to_match EXCEPT ![u] = m]
    BY <1>4 DEF MatchJoin
  <2>2. Sound(ms[m]) /\ u \notin Seated(ms[m])
    BY <1>4, Leaving DEF FreshInv
  <2>3. k \in FreeSlots(ms[m])
    <3>1. PICK s \in Slot : matches[m].slots[s].status = "OPEN"
      BY DEF MatchJoin, FreeSlots, InStatus
    <3>2. ms[m].slots[s].status = "OPEN"
      BY <1>4, <3>1, FreeSlotsStay DEF FreshInv
    <3>3. FreeSlots(ms[m]) \in SUBSET Slot /\ FreeSlots(ms[m]) # {}
      BY <3>2 DEF FreeSlots, InStatus
    <3>4. QED
      BY <3>3, FirstSlot
  <2>4. Seated(q) = Seated(ms[m]) \cup {u} /\ q.in_progress = ms[m].in_progress
    BY <2>2, <2>3, SoundJoined
  <2>5. SeatsKept(ms[m], q, u) /\ PlayKept(ms[m], q) /\ q.host_id = ms[m].host_id
    BY <2>2, <2>3, JoinedKeeps
  <2>6. u \notin PlaysIn(ms[m])
    BY <2>2, PlaysSeated
  <2>7. m # NoMatch
    BY MultiplayerAssumption DEF MatchId, NoMatch
  <2> HIDE DEF q, k, ms
  <2>8. /\ DOMAIN matches' = DOMAIN ms /\ matches'[m] = q
        /\ \A n \in DOMAIN ms : n # m => matches'[n] = ms[n]
    BY <1>4, <2>1
  <2>9. \A n \in DOMAIN ms : /\ SeatsKept(ms[n], matches'[n], u)
                             /\ Seated(ms[n]) \subseteq Seated(matches'[n])
                             /\ PlaysIn(matches'[n]) = PlaysIn(ms[n])
                             /\ matches'[n].host_id = ms[n].host_id
                             /\ matches'[n].in_progress = ms[n].in_progress
    <3> TAKE n \in DOMAIN ms
    <3>1. CASE n = m
      BY <2>4, <2>5, <2>8, <3>1 DEF PlayKept
    <3>2. CASE n # m
      BY <2>8, <3>2 DEF SeatsKept
    <3>3. QED
      BY <3>1, <3>2
  <2>10. Puts(u, m)
    <3>1. u \in Seated(matches'[m]) /\ u \notin PlaysIn(matches'[m])
      BY <2>4, <2>5, <2>6, <2>8 DEF PlayKept
    <3>2. DOMAIN matches' = DOMAIN ms \cup ({m} \ {NoMatch})
      BY <1>4, <2>8
    <3>3. QED
      BY <1>4, <2>1, <2>9, <3>1, <3>2 DEF Puts, ms
  <2>11. TablesOfRooms'
    <3>1. /\ DOMAIN matches \ Disbanded(u) \subseteq DOMAIN ms
          /\ \A n \in DOMAIN ms : matches'[n].in_progress <=> ms[n].in_progress /\ n \notin Disbanded(u)
      BY <1>2, <2>9
    <3>2. QED
      BY <1>1, <2>10, <3>1, PutsTables DEF ms
  <2>12. FreshInv' /\ OthersStay(u) /\ Departs(u)
    BY <1>3, <2>10, <2>11, PutsKeeps, PutsDeparts
  <2>13. Host' \in HostsAfter(u)
    <3>1. Host' = [n \in MatchId |-> IF n \in DOMAIN ms THEN ms[n].host_id ELSE NoUser]
      BY <2>8, <2>9 DEF Host
    <3>2. QED
      BY <3>1, HostsLeft DEF ms
  <2>14. PICK v \in User : v # u /\ user_to_match[v] = m
    <3>1. PICK v : v \in Seated(matches[m]) /\ v # u
      BY <1>4, LeavingKeeps DEF ms, FreshInv
    <3>2. v \in User /\ user_to_match[v] = m
      BY <1>1, <3>1, SeatedUsers DEF FreshInv, Inv, RoomsSound, Registered
    <3>3. QED
      BY <3>1, <3>2
  <2>15. Directory!Next
    BY <2>1, <2>12, <2>13, <2>14, IsEnter
  <2>16. QED
    BY <2>12, <2>15 DEF Refines, Departs
<1>5. CASE m \notin DOMAIN ms
  <2>1. matches' = ms /\ user_to_match' = [user_to_match EXCEPT ![u] = NoMatch]
    BY <1>5 DEF MatchJoin
  <2>2. Puts(u, NoMatch)
    BY <2>1 DEF Puts, SeatsKept
  <2>3. TablesOfRooms'
    BY <1>1, <1>2, <2>1, <2>2, PutsTables
  <2>4. QED
    BY <1>3, <2>2, <2>3, PutsNowhere
<1>6. QED
  BY <1>4, <1>5

-----------------------------------------------------------------------------
(* Every step of the rooms is a step of the directory *)

LEMMA InitFresh == Init => FreshInv
<1> SUFFICES ASSUME Init PROVE FreshInv
  OBVIOUS
<1>1. Inv
  BY InitInv
<1>2. Mapped /\ TablesOfRooms
  BY DEF Init, Mapped, TablesOfRooms
<1>3. QED
  BY <1>1, <1>2 DEF FreshInv

LEMMA StepRefines ==
  ASSUME FreshInv, NEW u \in User, CreateFresh(u) \/ Moves(u) \/ SetsStatus(u) \/ Acts(u)
  PROVE  Refines(u)
<1>1. CASE CreateFresh(u) \/ SetsStatus(u)
  BY <1>1, CreateRefines, StatusRefines
<1>2. CASE Moves(u)
  BY <1>2, PartRefines, RemoveRefines, JoinRefines DEF Moves
<1>3. CASE Acts(u)
  <2>1. CASE \E s \in Slot : MatchChangeSlot(u, s) \/ MatchLock(u, s) \/ MatchChangeHost(u, s)
    BY <2>1, ChangeSlotRefines, LockRefines, ChangeHostRefines
  <2>2. CASE MatchChangeSettings(u) \/ MatchChangeTeam(u) \/ MatchStart(u)
    BY <2>2, SettingsRefines, TeamRefines, StartRefines
  <2>3. CASE MatchLoadComplete(u) \/ MatchScoreUpdate(u) \/ MatchComplete(u)
    BY <2>3, ReportRefines, CompleteRefines
  <2>4. QED
    BY <1>3, <2>1, <2>2, <2>3 DEF Acts
<1>4. QED
  BY <1>1, <1>2, <1>3

\* A step that changes nothing, in the tables, in the directory and in the seats.
LEMMA NothingRefines ==
  ASSUME UNCHANGED vars
  PROVE  /\ FreshInv => FreshInv'
         /\ UNCHANGED Directory!vars
         /\ \A u \in User : Place(u)' = Place(u) /\ StatusOf(u)' = StatusOf(u)
<1>1. /\ matches' = matches /\ user_to_match' = user_to_match /\ next_match_id' = next_match_id
      /\ match_start_times' = match_start_times /\ match_last_scores' = match_last_scores
      /\ match_loaded_users' = match_loaded_users
      /\ pending_disbanded_matches' = pending_disbanded_matches
  BY DEF vars, roundVars
<1>2. FreshInv => FreshInv'
  BY <1>1 DEF FreshInv, Inv, TypeOK, RoomsSound, Registered, Clocks, ScoresOfLiveRooms, Mapped, TablesOfRooms
<1>3. \A u \in User : Place(u)' = Place(u) /\ StatusOf(u)' = StatusOf(u)
  BY <1>1 DEF Place, StatusOf, IsSeated, RoomOf, SeatOf
<1>4. Host' = Host /\ Round' = Round /\ Playing' = Playing
  BY <1>1, <1>3 DEF Host, Round, Playing
<1>5. UNCHANGED Directory!vars
  BY <1>1, <1>4, IsStutter
<1>6. QED
  BY <1>2, <1>3, <1>5

LEMMA NextFreshInv == FreshInv /\ [NextFresh]_vars => FreshInv'
<1> SUFFICES ASSUME FreshInv, [NextFresh]_vars PROVE FreshInv'
  OBVIOUS
<1>1. CASE UNCHANGED vars
  BY <1>1, NothingRefines
<1>2. CASE NextFresh
  BY <1>2, StepRefines DEF NextFresh, Refines
<1>3. QED
  BY <1>1, <1>2

LEMMA NextDirectory == FreshInv /\ [NextFresh]_vars => [Directory!Next]_(Directory!vars)
<1> SUFFICES ASSUME FreshInv, [NextFresh]_vars PROVE [Directory!Next]_(Directory!vars)
  OBVIOUS
<1>1. CASE UNCHANGED vars
  BY <1>1, NothingRefines
<1>2. CASE NextFresh
  BY <1>2, StepRefines DEF NextFresh, Refines
<1>3. QED
  BY <1>1, <1>2

\* While room ids are fresh, the inductive invariant holds: that of the rooms,
\* with user_to_match naming only rooms in which the user sits, and the tables of
\* the rounds mentioning only rounds that are going on.
THEOREM FreshInvariance == SpecFresh => []FreshInv
<1>1. FreshInv /\ [NextFresh]_vars => FreshInv'
  BY NextFreshInv
<1>2. QED
  BY <1>1, InitFresh, PTL DEF SpecFresh

\* While room ids are fresh, user_to_match names a room only for who sits in it:
\* no exit, eviction or failed join leaves a user with the id of a room that has
\* forgotten the user.
THEOREM MappedOnlyIfSeated == SpecFresh => []MappedIsSeated
<1>1. FreshInv => MappedIsSeated
  BY Occupancy DEF MappedIsSeated, RoomOf
<1>2. QED
  BY <1>1, FreshInvariance, PTL

\* A step that adds nothing to the tables, except the clock of a round whose other
\* entries it drops, empties the tables of the rooms whose phase it changes: the
\* clocks tell the rounds, before and after.
LEMMA PhaseEnds ==
  ASSUME FreshInv, FreshInv', NEW ids,
         match_start_times \ match_start_times' \subseteq ids,
         match_start_times' \ match_start_times \subseteq ids,
         match_loaded_users' \subseteq match_loaded_users,
         match_last_scores' \subseteq match_last_scores,
         \A e \in match_loaded_users' \cup match_last_scores' : e[1] \notin ids,
         NEW m \in MatchId, Phase(m)' # Phase(m)
  PROVE  Emptied(m)'
<1>1. /\ match_start_times = {n \in DOMAIN matches : matches[n].in_progress}
      /\ match_start_times' = {n \in DOMAIN matches' : matches'[n].in_progress}
      /\ \A e \in match_loaded_users \cup match_last_scores : e[1] \in DOMAIN matches
      /\ \A e \in match_loaded_users' \cup match_last_scores' : e[1] \in DOMAIN matches'
  BY DEF FreshInv, Inv, TablesOfRooms, ScoresOfLiveRooms
<1>2. CASE m \notin DOMAIN matches \/ m \notin DOMAIN matches'
  BY <1>1, <1>2 DEF Emptied
<1>3. CASE m \in DOMAIN matches /\ m \in DOMAIN matches'
  <2>1. matches'[m].in_progress # matches[m].in_progress
    BY <1>3 DEF Phase
  <2>2. matches[m].in_progress \in BOOLEAN /\ matches'[m].in_progress \in BOOLEAN
    BY <1>3 DEF FreshInv, Inv, TypeOK, Match
  <2>3. m \in ids
    BY <1>1, <1>3, <2>1, <2>2
  <2>4. QED
    BY <2>3 DEF Emptied
<1>4. QED
  BY <1>2, <1>3

\* The same for the clean-up of the rounds of rooms ids.
LEMMA ForgottenEmpty ==
  ASSUME FreshInv, FreshInv', NEW ids, ForgetRounds(ids), NEW m \in MatchId, Phase(m)' # Phase(m)
  PROVE  Emptied(m)'
<1>1. /\ match_start_times' = match_start_times \ ids
      /\ match_loaded_users' = {e \in match_loaded_users : e[1] \notin ids}
      /\ match_last_scores' = {e \in match_last_scores : e[1] \notin ids}
  BY DEF ForgetRounds
<1>2. QED
  BY <1>1, PhaseEnds

LEMMA StartEmpties ==
  ASSUME NEW u \in User, MatchStart(u)
  PROVE  Emptied(RoomOf(u))'
<1>1. \A v \in User : /\ <<RoomOf(u), v>> \notin match_loaded_users'
                       /\ <<RoomOf(u), v>> \notin match_last_scores'
  BY DEF MatchStart
<1>2. RoomOf(u)' = RoomOf(u)
  BY DEF MatchStart, RoomOf
<1>3. QED
  BY <1>1, <1>2 DEF Emptied

LEMMA StepEmpties ==
  ASSUME FreshInv, FreshInv', NEW u \in User,
         CreateFresh(u) \/ Moves(u) \/ SetsStatus(u) \/ Acts(u),
         NEW m \in MatchId, Phase(m)' # Phase(m)
  PROVE  Emptied(m)'
<1>1. CASE \E ids : ForgetRounds(ids)
  BY <1>1, ForgottenEmpty
<1>2. CASE UNCHANGED roundVars
  <2>1. /\ match_start_times' = match_start_times \ {}
        /\ match_last_scores' = {e \in match_last_scores : e[1] \notin {}}
        /\ match_loaded_users' = {e \in match_loaded_users : e[1] \notin {}}
    BY <1>2 DEF roundVars
  <2>2. ForgetRounds({})
    BY ONLY <2>1 DEF ForgetRounds
  <2>3. QED
    BY <2>2, <1>1
<1>3. CASE MatchStart(u)
  <2>1. /\ match_start_times' = match_start_times \cup {RoomOf(u)}
        /\ match_loaded_users' = {e \in match_loaded_users : e[1] \notin {RoomOf(u)}}
        /\ match_last_scores' = {e \in match_last_scores : e[1] \notin {RoomOf(u)}}
    BY <1>3 DEF MatchStart
  <2>2. QED
    BY <2>1, PhaseEnds
<1>4. ~ (MatchLoadComplete(u) \/ MatchScoreUpdate(u))
  BY DEF MatchLoadComplete, MatchScoreUpdate, Phase
<1>5. CASE CreateFresh(u) \/ Moves(u)
  BY <1>1, <1>2, <1>5
     DEF CreateFresh, MatchCreate, Moves, MatchPart, Logout, Evict, RemoveSession, MatchJoin
<1>6. CASE SetsStatus(u)
  BY <1>2, <1>6
     DEF SetsStatus, MatchReady, MatchNotReady, MatchNoBeatmap, MatchHasBeatmap, SetStatus
<1>7. CASE Acts(u)
  BY <1>1, <1>2, <1>3, <1>4, <1>7
     DEF Acts, MatchChangeSlot, MatchLock, MatchChangeHost, MatchChangeSettings, MatchChangeTeam,
         MatchComplete
<1>8. QED
  BY <1>5, <1>6, <1>7

\* While room ids are fresh, the clocks are those of the rounds going on, and no report
\* or frame is left where a room opens or goes, or a round begins, ends or starts over:
\* none is counted in a round that it is not about.
THEOREM RoundsKeptApart == SpecFresh => RoundsApart
<1> DEFINE Bounded == \A m \in MatchId :
                        \/ Phase(m)' # Phase(m)
                        \/ \E u \in User : RoomOf(u) = m /\ MatchStart(u)
                        => Emptied(m)'
<1>1. FreshInv => TablesOfRooms
  BY DEF FreshInv
<1>2. FreshInv /\ FreshInv' /\ [NextFresh]_vars => [Bounded]_vars
  <2> SUFFICES ASSUME FreshInv, FreshInv', NextFresh PROVE Bounded
    OBVIOUS
  <2>1. PICK u \in User : CreateFresh(u) \/ Moves(u) \/ SetsStatus(u) \/ Acts(u)
    BY DEF NextFresh
  <2>2. ASSUME NEW m \in MatchId, Phase(m)' # Phase(m) PROVE Emptied(m)'
    BY <2>1, <2>2, StepEmpties
  <2>3. ASSUME NEW v \in User, MatchStart(v) PROVE Emptied(RoomOf(v))'
    BY <2>3, StartEmpties
  <2>4. ASSUME NEW v \in User, MatchStart(v) PROVE RoomOf(v)' = RoomOf(v)
    BY <2>4 DEF MatchStart, RoomOf
  <2>5. QED
    BY <2>2, <2>3, <2>4 DEF Emptied
<1>3. QED
  BY <1>1, <1>2, FreshInvariance, PTL DEF SpecFresh, RoundsApart

\* Nobody, the host included, seats, moves or unseats another user, nor takes
\* another user out of play.
THEOREM OthersLeftAlone == SpecFresh => OnlyOwnSteps
<1> DEFINE Touched(u) == \/ Place(u)' # Place(u)
                         \/ StatusOf(u) = "PLAYING" /\ StatusOf(u)' # "PLAYING"
<1>1. FreshInv /\ [NextFresh]_vars => [\A u \in User : Touched(u) => Step(u)]_vars
  <2> SUFFICES ASSUME FreshInv, NextFresh, NEW v \in User, Touched(v) PROVE Step(v)
    OBVIOUS
  <2>1. PICK u \in User : CreateFresh(u) \/ Moves(u) \/ SetsStatus(u) \/ Acts(u)
    BY DEF NextFresh
  <2>2. Step(u)
    BY <2>1 DEF Step, CreateFresh
  <2>3. OthersStay(u) /\ Playing \ {u} \subseteq Playing'
    BY <2>1, StepRefines DEF Refines
  <2>4. v # u => ~ Touched(v)
    BY <2>3 DEF OthersStay, Playing
  <2>5. QED
    BY <2>2, <2>4
<1>2. QED
  BY <1>1, FreshInvariance, PTL DEF SpecFresh, OnlyOwnSteps

\* The tables of the rooms implement the directory: while room ids are fresh,
\* every packet, logout and eviction is one step of module RoomDirectory, or
\* nothing that it shows.
THEOREM ImplementsDirectory == SpecFresh => IsDirectory
<1>1. Init => Directory!Init
  BY InitDirectory
<1>2. FreshInv /\ [NextFresh]_vars => [Directory!Next]_(Directory!vars)
  BY NextDirectory
<1>3. QED
  BY <1>1, <1>2, FreshInvariance, PTL DEF SpecFresh, IsDirectory, Directory!Spec

=============================================================================
