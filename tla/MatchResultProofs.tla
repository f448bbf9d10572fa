--------------------------- MODULE MatchResultProofs ---------------------------
(***************************************************************************)
(* The result of a round for any number of slots and users, and any scores *)
(* that clients report.                                                    *)
(*                                                                         *)
(* The invariant is that of the loops: what has been collected is what the *)
(* slots before the current one say.  The totals of the teams are sums     *)
(* over slots, which become sums over the saved scores because a slot has  *)
(* one score, marked or not.                                               *)
(***************************************************************************)
EXTENDS MatchResult, Sums

\* The seated slots that a loop has passed when it comes to slot n.
Before(n) == {s \in Seated : s < n}

\* Those of a team among the slots in S.
Side(S, team) == {s \in S : slots[s].team = team}

\* What the slots are worth, and what the collected scores are.
SlotPoints == [s \in Slot |-> Points(s)]
RecordPoints == [sc \in NewMatchScore |-> sc.score]

TotalOf(S) == MapThenSumSet(LAMBDA sc : sc.score, S)

\* The saved score of slot s, and with the mark of a winner.
Collected(S) == {ScoreOf(s) : s \in S}
MarkedScore(s) == [ScoreOf(s) EXCEPT !.won = Wins(ScoreOf(s))]

-----------------------------------------------------------------------------
(* The inductive invariant *)

InputOK ==
    /\ slots \in [Slot -> [user_id : User \cup {Nobody}, team : Team]]
    /\ \A s, r \in Seated : slots[s].user_id = slots[r].user_id => s = r
    /\ \A u \in DOMAIN last_scores : last_scores[u] \in Score
    /\ team_vs \in BOOLEAN

\* The first of the best of S leads, if any of S has a score that is not negative.
Leads(S) ==
    /\ highest_score \in Int /\ highest_score >= -1
    /\ \A s \in S : Points(s) =< highest_score \/ Points(s) < 0
    /\ \/ winner_id = Nobody /\ highest_score = -1
       \/ \E s \in S : /\ winner_id = slots[s].user_id
                       /\ Points(s) = highest_score /\ Points(s) >= 0
                       /\ \A r \in S : r < s => Points(r) < Points(s)

Totals(S) ==
    /\ blue_score = Sum(SlotPoints, Side(S, "blue"))
    /\ red_score = Sum(SlotPoints, Side(S, "red"))

LoopInv ==
    /\ i \in Slot
    /\ at \in {"scores", "teams", "winners", "done"}
    /\ at = "scores" => /\ match_scores = Collected(Before(i)) /\ Leads(Before(i))
                        /\ blue_score = 0 /\ red_score = 0
    /\ at = "teams" => /\ match_scores = Collected(Seated) /\ Leads(Seated)
                       /\ team_vs /\ Totals(Before(i))
    /\ at = "winners" => /\ match_scores = Collected(Seated) /\ Leads(Seated)
                         /\ IF team_vs THEN Totals(Seated) ELSE blue_score = 0 /\ red_score = 0
    /\ at = "done" => /\ match_scores = {MarkedScore(s) : s \in Seated} /\ Leads(Seated)
                      /\ IF team_vs THEN Totals(Seated) ELSE blue_score = 0 /\ red_score = 0

Inv == InputOK /\ LoopInv

-----------------------------------------------------------------------------
(* Slots and their scores *)

LEMMA Slots ==
  ASSUME InputOK
  PROVE  /\ Seated \subseteq Slot /\ IsFiniteSet(Seated)
         /\ \A s \in Slot : s \in Int /\ s >= 0 /\ s =< MaxSlot
         /\ \A s \in Slot : Points(s) \in Int /\ Points(s) \in Score \cup {0}
         /\ \A s \in Seated : /\ slots[s].user_id \in User /\ slots[s].team \in Team
                              /\ ScoreOf(s) \in NewMatchScore
                              /\ ScoreOf(s).user_id = slots[s].user_id
                              /\ ScoreOf(s).slot_id = s
                              /\ ScoreOf(s).team = slots[s].team
                              /\ ScoreOf(s).score = Points(s)
                              /\ ScoreOf(s).won = FALSE
         /\ SlotPoints = [s \in Slot |-> Points(s)]
         /\ \A s \in Slot : SlotPoints[s] = Points(s)
<1>1. Seated \subseteq Slot
  BY DEF Seated
<1>2. IsFiniteSet(Slot)
  BY FS_Interval, MatchResultAssumption DEF Slot
<1>3. IsFiniteSet(Seated)
  BY <1>1, <1>2, FS_Subset
<1>4. \A s \in Slot : s \in Int /\ s >= 0 /\ s =< MaxSlot
  BY MatchResultAssumption DEF Slot
<1>5. ASSUME NEW s \in Slot
      PROVE  /\ Points(s) \in Int /\ Points(s) \in Score \cup {0}
             /\ Points(s) = IF slots[s].user_id \in DOMAIN last_scores
                            THEN last_scores[slots[s].user_id] ELSE 0
  <2>1. Points(s) = IF slots[s].user_id \in DOMAIN last_scores
                    THEN last_scores[slots[s].user_id] ELSE 0
    BY DEF Points, ScoreOf
  <2>2. 0 \in Int /\ \A x \in Score : x \in Int
    BY MatchResultAssumption
  <2>3. CASE slots[s].user_id \in DOMAIN last_scores
    <3>1. last_scores[slots[s].user_id] \in Score
      BY <2>3 DEF InputOK
    <3>2. QED
      BY <2>1, <2>2, <2>3, <3>1
  <2>4. CASE slots[s].user_id \notin DOMAIN last_scores
    BY <2>1, <2>2, <2>4
  <2>5. QED
    BY <2>3, <2>4
<1>6. ASSUME NEW s \in Seated
      PROVE  /\ slots[s].user_id \in User /\ slots[s].team \in Team
             /\ ScoreOf(s) \in NewMatchScore
             /\ ScoreOf(s).user_id = slots[s].user_id
             /\ ScoreOf(s).slot_id = s
             /\ ScoreOf(s).team = slots[s].team
             /\ ScoreOf(s).score = Points(s)
             /\ ScoreOf(s).won = FALSE
  <2>1. slots[s].user_id \in User /\ slots[s].team \in Team /\ s \in Slot
    BY <1>1 DEF Seated, InputOK
  <2> DEFINE p == slots[s].user_id \in DOMAIN last_scores
  <2>2. ScoreOf(s) = [user_id |-> slots[s].user_id, slot_id |-> s, team |-> slots[s].team,
                      score |-> Points(s), passed |-> p, won |-> FALSE]
    BY DEF ScoreOf, Points
  <2>3. p \in BOOLEAN
    OBVIOUS
  <2> HIDE DEF p
  <2>4. Points(s) \in Score \cup {0}
    BY <1>5, <2>1
  <2>5. QED
    BY <2>1, <2>2, <2>3, <2>4 DEF NewMatchScore
<1>7. QED
  BY <1>1, <1>3, <1>4, <1>5, <1>6 DEF SlotPoints

LEMMA BeforeNext ==
  ASSUME InputOK, NEW n \in Slot
  PROVE  /\ Before(0) = {} /\ n \notin Before(n) /\ Before(n) \subseteq Seated
         /\ Before(n + 1) = IF n \in Seated THEN Before(n) \cup {n} ELSE Before(n)
         /\ ~ (n < MaxSlot) => Before(n + 1) = Seated
         /\ n < MaxSlot => n + 1 \in Slot
         /\ 0 \in Slot
<1>1. n \in Int /\ n >= 0 /\ n =< MaxSlot /\ MaxSlot \in Nat
  BY Slots, MatchResultAssumption
<1>2. \A s \in Seated : s \in Int /\ s >= 0 /\ s =< MaxSlot
  BY Slots
<1>3. Before(0) = {} /\ n \notin Before(n) /\ Before(n) \subseteq Seated
  BY <1>1, <1>2 DEF Before
<1>4. \A s \in Seated : s < n + 1 <=> s < n \/ s = n
  BY <1>1, <1>2
<1>5. Before(n + 1) = IF n \in Seated THEN Before(n) \cup {n} ELSE Before(n)
  BY <1>4 DEF Before
<1>6. ASSUME ~ (n < MaxSlot) PROVE Before(n + 1) = Seated
  <2>1. n = MaxSlot
    BY <1>1, <1>6
  <2>2. \A s \in Seated : s < n + 1
    BY <1>1, <1>2, <2>1
  <2>3. QED
    BY <2>2 DEF Before
<1>7. n < MaxSlot => n + 1 \in Slot
  BY <1>1 DEF Slot
<1>8. 0 \in Slot
  BY <1>1 DEF Slot
<1>9. QED
  BY <1>3, <1>5, <1>6, <1>7, <1>8

\* The loops read the room and do not write it.
LEMMA SameInput ==
  ASSUME UNCHANGED input
  PROVE  /\ slots' = slots /\ last_scores' = last_scores /\ team_vs' = team_vs
         /\ Seated' = Seated
         /\ \A s : ScoreOf(s)' = ScoreOf(s) /\ Points(s)' = Points(s)
         /\ \A S : Collected(S)' = Collected(S)
         /\ \A n : Before(n)' = Before(n)
         /\ \A S, team : Side(S, team)' = Side(S, team)
         /\ SlotPoints' = SlotPoints
         /\ InputOK => InputOK'
<1>1. slots' = slots /\ last_scores' = last_scores /\ team_vs' = team_vs
  BY DEF input
<1>2. Seated' = Seated
  BY <1>1 DEF Seated
<1>3. \A s : ScoreOf(s)' = ScoreOf(s) /\ Points(s)' = Points(s)
  BY <1>1 DEF ScoreOf, Points
<1>4. \A S : Collected(S)' = Collected(S)
  BY <1>3 DEF Collected
<1>5. (\A n : Before(n)' = Before(n)) /\ \A S, team : Side(S, team)' = Side(S, team)
  BY <1>1, <1>2 DEF Before, Side
<1>6. SlotPoints' = SlotPoints
  BY <1>3 DEF SlotPoints
<1>7. InputOK => InputOK'
  BY <1>1, <1>2 DEF InputOK
<1>8. QED
  BY <1>1, <1>2, <1>3, <1>4, <1>5, <1>6, <1>7

LEMMA CollectStep ==
  ASSUME Inv, CollectScore, NEW n, n = i
  PROVE  /\ match_scores' = Collected(Before(n + 1))
         /\ Leads(Before(n + 1))'
<1>1. /\ n \in Slot /\ match_scores = Collected(Before(n)) /\ Leads(Before(n)) /\ InputOK
      /\ UNCHANGED input
  BY DEF Inv, LoopInv, CollectScore
<1> DEFINE S == Before(n)
<1>2. /\ S \subseteq Seated /\ n \notin S
      /\ Before(n + 1) = IF n \in Seated THEN S \cup {n} ELSE S
  BY <1>1, BeforeNext
<1>3. /\ Before(n + 1)' = Before(n + 1) /\ (\A s : Points(s)' = Points(s)) /\ slots' = slots
  BY <1>1, SameInput
<1>4. CASE n \notin Seated
  <2>1. /\ match_scores' = match_scores /\ highest_score' = highest_score
        /\ winner_id' = winner_id
    BY <1>4 DEF CollectScore
  <2>2. Before(n + 1) = S
    BY <1>2, <1>4
  <2>3. Leads(Before(n + 1))'
    BY <1>1, <1>3, <2>1, <2>2 DEF Leads
  <2>4. QED
    BY <1>1, <2>1, <2>2, <2>3
<1>5. CASE n \in Seated
  <2>1. /\ match_scores' = match_scores \cup {ScoreOf(n)}
        /\ IF Points(n) > highest_score
           THEN highest_score' = Points(n) /\ winner_id' = slots[n].user_id
           ELSE highest_score' = highest_score /\ winner_id' = winner_id
    BY <1>5 DEF CollectScore, IsBest, Points
  <2>2. Before(n + 1) = S \cup {n}
    BY <1>2, <1>5
  <2>3. match_scores' = Collected(Before(n + 1))
    BY <1>1, <2>1, <2>2 DEF Collected
  <2>4. /\ \A s \in Seated : Points(s) \in Int /\ s \in Int
        /\ \A s \in S : s < n
        /\ highest_score \in Int /\ highest_score >= -1
    BY <1>1, Slots DEF Before, Leads
  <2>5. Leads(Before(n + 1))'
    <3>1. /\ highest_score' \in Int /\ highest_score' >= -1
          /\ \A s \in S \cup {n} : Points(s) =< highest_score' \/ Points(s) < 0
      <4>1. \A s \in S : Points(s) =< highest_score \/ Points(s) < 0
        BY <1>1 DEF Leads
      <4>2. Points(n) \in Int /\ \A s \in S : Points(s) \in Int
        BY <1>2, <1>5, <2>4
      <4> HIDE DEF S
      <4>3. CASE Points(n) > highest_score
        BY <2>1, <2>4, <4>1, <4>2, <4>3
      <4>4. CASE ~ (Points(n) > highest_score)
        BY <2>1, <2>4, <4>1, <4>2, <4>4
      <4>5. QED
        BY <4>3, <4>4
    <3>2. \/ winner_id' = Nobody /\ highest_score' = -1
          \/ \E s \in S \cup {n} : /\ winner_id' = slots[s].user_id
                                   /\ Points(s) = highest_score' /\ Points(s) >= 0
                                   /\ \A r \in S \cup {n} : r < s => Points(r) < Points(s)
      <4>1. CASE Points(n) > highest_score
        <5>1. winner_id' = slots[n].user_id /\ Points(n) = highest_score' /\ Points(n) >= 0
          BY <1>5, <2>1, <2>4, <4>1
        <5>2. ASSUME NEW r \in S \cup {n}, r < n PROVE Points(r) < Points(n)
          <6>1. r \in S
            BY <1>5, <2>4, <5>2
          <6>2. Points(r) =< highest_score \/ Points(r) < 0
            BY <1>1, <6>1 DEF Leads
          <6>3. Points(r) \in Int /\ Points(n) \in Int
            BY <1>2, <1>5, <2>4, <6>1
          <6>4. QED
            BY <2>4, <4>1, <6>2, <6>3
        <5>3. QED
          BY <5>1, <5>2
      <4>2. CASE ~ (Points(n) > highest_score)
        <5>1. highest_score' = highest_score /\ winner_id' = winner_id
          BY <2>1, <4>2
        <5>2. CASE winner_id = Nobody /\ highest_score = -1
          BY <5>1, <5>2
        <5>3. ASSUME NEW s \in S, winner_id = slots[s].user_id, Points(s) = highest_score,
                     Points(s) >= 0, \A r \in S : r < s => Points(r) < Points(s)
              PROVE  \A r \in S \cup {n} : r < s => Points(r) < Points(s)
          <6>1. s < n /\ s \in Int /\ n \in Int
            BY <1>2, <1>5, <2>4
          <6>2. ~ (n < s)
            BY <6>1
          <6>3. QED
            BY <5>3, <6>2
        <5>4. \/ winner_id = Nobody /\ highest_score = -1
              \/ \E s \in S : /\ winner_id = slots[s].user_id
                              /\ Points(s) = highest_score /\ Points(s) >= 0
                              /\ \A r \in S : r < s => Points(r) < Points(s)
          BY <1>1 DEF Leads
        <5>5. QED
          BY <5>1, <5>2, <5>3, <5>4
      <4>3. QED
        BY <4>1, <4>2
    <3>3. Before(n + 1)' = S \cup {n}
      BY <1>3, <2>2
    <3> HIDE DEF S
    <3>4. QED
      BY <1>3, <3>1, <3>2, <3>3 DEF Leads
  <2>6. QED
    BY <2>3, <2>5
<1>6. QED
  BY <1>4, <1>5

-----------------------------------------------------------------------------
(* Totals *)

LEMMA RecordTypes ==
  \A sc \in NewMatchScore : sc.score \in Int /\ RecordPoints[sc] = sc.score
<1>1. \A sc \in NewMatchScore : sc.score \in Score \cup {0}
  BY DEF NewMatchScore
<1>2. \A x \in Score \cup {0} : x \in Int
  BY MatchResultAssumption
<1>3. QED
  BY <1>1, <1>2 DEF RecordPoints

LEMMA TotalIsSum ==
  ASSUME NEW S, IsFiniteSet(S), S \subseteq NewMatchScore
  PROVE  TotalOf(S) = Sum(RecordPoints, S)
<1> DEFINE w == RecordPoints
           P(g) == g = [T \in SUBSET S |-> IF T = {} THEN 0
                                           ELSE Pick(T).score + g[T \ {Pick(T)}]]
           c == CHOOSE g : P(g)
<1>1. TotalOf(S) = c[S]
  BY DEF TotalOf, MapThenSumSet, MapThenFoldSet, Pick
<1>2. ASSUME NEW g PROVE P(g) <=> IsSum(g, w, S)
  <2>1. \A T \in SUBSET S : T # {} => w[Pick(T)] = Pick(T).score
    BY PickIn, RecordTypes
  <2>2. [T \in SUBSET S |-> IF T = {} THEN 0 ELSE Pick(T).score + g[T \ {Pick(T)}]]
          = [T \in SUBSET S |-> IF T = {} THEN 0 ELSE w[Pick(T)] + g[T \ {Pick(T)}]]
    BY <2>1
  <2>3. QED
    BY <2>2 DEF IsSum
<1> HIDE DEF P
<1>3. P(SumsOver(w, S))
  BY <1>2, SumExists
<1>4. P(c)
  BY <1>3
<1>5. IsSum(c, w, S) /\ IsSum(SumsOver(w, S), w, S)
  BY <1>2, <1>4, SumExists
<1> HIDE DEF c
<1>6. S \in SUBSET S
  OBVIOUS
<1>7. c[S] = SumsOver(w, S)[S]
  BY ONLY <1>5, <1>6, IsFiniteSet(S), SumUnique
<1>8. QED
  BY <1>1, <1>7 DEF Sum

\* The loop over the scores adds what slot n is worth to the total of its team.
LEMMA TeamStep ==
  ASSUME InputOK, match_scores = Collected(Seated), NEW n \in Slot, n = i,
         NEW team, NEW total, total = Sum(SlotPoints, Side(Before(n), team))
  PROVE  Total(total, team) = Sum(SlotPoints, Side(Before(n + 1), team))
<1> DEFINE S == Side(Before(n), team)
           X == {sc \in match_scores : sc.slot_id = n /\ sc.team = team}
<1>1. Total(total, team) = total + TotalOf(X)
  BY DEF Total, TotalOf
<1>2. /\ Before(n) \subseteq Seated /\ n \notin Before(n)
      /\ Before(n + 1) = IF n \in Seated THEN Before(n) \cup {n} ELSE Before(n)
  BY BeforeNext
<1>3. S \subseteq Seated /\ n \notin S /\ IsFiniteSet(S)
  BY <1>2, Slots, FS_Subset DEF Side
<1>4. \A s \in Slot : SlotPoints[s] = Points(s) /\ Points(s) \in Int
  BY Slots
<1>5. Sum(SlotPoints, S) \in Int
  <2>1. \A s \in S : SlotPoints[s] \in Int
    BY <1>3, <1>4, Slots
  <2> HIDE DEF S
  <2>2. QED
    BY <1>3, <2>1, SumType
<1>6. \A s \in Seated : /\ ScoreOf(s) \in NewMatchScore /\ ScoreOf(s).slot_id = s
                        /\ ScoreOf(s).team = slots[s].team /\ ScoreOf(s).score = Points(s)
  BY Slots
<1>7. CASE n \in Side(Seated, team)
  <2>1. n \in Seated /\ slots[n].team = team
    BY <1>7 DEF Side
  <2>2. X = {ScoreOf(n)}
    BY <1>6, <2>1 DEF Collected
  <2>3. Side(Before(n + 1), team) = S \cup {n}
    BY <1>2, <2>1 DEF Side
  <2>4. TotalOf(X) = Points(n)
    <3> DEFINE e == ScoreOf(n)
    <3>1. e \in NewMatchScore /\ RecordPoints[e] = Points(n) /\ Points(n) \in Int
      BY <1>4, <1>6, <2>1, RecordTypes
    <3>2. IsFiniteSet({e})
      BY FS_Singleton
    <3>3. TotalOf({e}) = Sum(RecordPoints, {e})
      <4>1. {e} \subseteq NewMatchScore
        BY <3>1
      <4> HIDE DEF e
      <4>2. QED
        BY <3>2, <4>1, TotalIsSum
    <3>4. Sum(RecordPoints, {} \cup {e}) = Sum(RecordPoints, {}) + RecordPoints[e]
      <4>1. IsFiniteSet({}) /\ e \notin {} /\ \A x \in {} \cup {e} : RecordPoints[x] \in Int
        BY <3>1, FS_EmptySet
      <4> HIDE DEF e
      <4>2. QED
        BY ONLY <4>1, SumAdd
    <3>5. {} \cup {e} = {e} /\ Sum(RecordPoints, {}) = 0
      BY SumEmpty
    <3>6. X = {e}
      BY <2>2
    <3> HIDE DEF e, X
    <3>7. QED
      BY <3>1, <3>3, <3>4, <3>5, <3>6
  <2>5. Sum(SlotPoints, S \cup {n}) = Sum(SlotPoints, S) + SlotPoints[n]
    <3>1. \A s \in S \cup {n} : SlotPoints[s] \in Int
      BY <1>3, <1>4, Slots
    <3> HIDE DEF S
    <3>2. QED
      BY ONLY <1>3, <3>1, SumAdd
  <2>6. QED
    BY <1>1, <1>4, <2>3, <2>4, <2>5
<1>8. CASE n \notin Side(Seated, team)
  <2>1. X = {}
    <3>1. \A s \in Seated : s = n => slots[s].team # team
      BY <1>8 DEF Side
    <3>2. QED
      BY <1>6, <3>1 DEF Collected
  <2>2. Side(Before(n + 1), team) = S
    BY <1>2, <1>8 DEF Side
  <2>3. TotalOf({}) = 0
    <3>1. IsFiniteSet({}) /\ {} \subseteq NewMatchScore
      BY FS_EmptySet
    <3>2. QED
      BY <3>1, TotalIsSum, SumEmpty
  <2>4. QED
    BY <1>1, <1>5, <2>1, <2>2, <2>3
<1>9. QED
  BY <1>7, <1>8

-----------------------------------------------------------------------------
(* The loops keep the invariant *)

LEMMA InitInv == Init => Inv
<1> SUFFICES ASSUME Init PROVE Inv
  OBVIOUS
<1>1. InputOK
  BY DEF Init, InputOK
<1>2. i = 0 /\ 0 \in Slot /\ Before(0) = {}
  <2>1. 0 \in Slot
    BY MatchResultAssumption DEF Slot
  <2>2. QED
    BY <1>1, <2>1, BeforeNext DEF Init
<1>3. Leads(Before(0)) /\ Collected(Before(0)) = {}
  BY <1>2 DEF Init, Leads, Collected
<1>4. QED
  BY <1>1, <1>2, <1>3 DEF Init, Inv, LoopInv

\* Before the first slot the totals are zero, as they are set to.
LEMMA NoTotals == InputOK /\ i = 0 /\ blue_score = 0 /\ red_score = 0 => Totals(Before(i))
<1> SUFFICES ASSUME InputOK, i = 0, blue_score = 0, red_score = 0 PROVE Totals(Before(i))
  OBVIOUS
<1>1. Before(i) = {}
  <2>1. 0 \in Slot
    BY MatchResultAssumption DEF Slot
  <2>2. QED
    BY <2>1, BeforeNext
<1>2. \A team : Side(Before(i), team) = {}
  BY <1>1 DEF Side
<1>3. QED
  BY <1>2, SumEmpty DEF Totals

LEMMA CollectKeeps ==
  ASSUME Inv, CollectScore
  PROVE  Inv'
<1> SUFFICES ASSUME NEW n, n = i PROVE Inv'
  OBVIOUS
<1>1. /\ n \in Slot /\ InputOK /\ UNCHANGED input /\ at = "scores"
      /\ blue_score = 0 /\ red_score = 0 /\ blue_score' = 0 /\ red_score' = 0
  BY DEF Inv, LoopInv, CollectScore
<1>2. match_scores' = Collected(Before(n + 1)) /\ Leads(Before(n + 1))'
  BY CollectStep
<1>3. /\ Before(n + 1)' = Before(n + 1) /\ Before(0)' = Before(0) /\ Seated' = Seated
      /\ (\A S : Collected(S)' = Collected(S)) /\ team_vs' = team_vs /\ InputOK'
  BY <1>1, SameInput
<1>4. team_vs \in BOOLEAN
  BY <1>1 DEF InputOK
<1>5. CASE n < MaxSlot
  <2>1. i' = n + 1 /\ at' = "scores" /\ n + 1 \in Slot
    BY <1>1, <1>5, BeforeNext DEF CollectScore, Advance
  <2>2. match_scores' = Collected(Before(i))' /\ Leads(Before(i))'
    BY <1>2, <1>3, <2>1 DEF Leads
  <2>3. QED
    BY <1>1, <1>3, <2>1, <2>2 DEF Inv, LoopInv
<1>6. CASE ~ (n < MaxSlot)
  <2>1. i' = 0 /\ at' = (IF team_vs THEN "teams" ELSE "winners") /\ 0 \in Slot
        /\ Before(n + 1) = Seated
    BY <1>1, <1>6, BeforeNext DEF CollectScore, Advance
  <2>2. match_scores' = Collected(Seated)' /\ Leads(Seated)'
    BY <1>2, <1>3, <2>1 DEF Leads
  <2>3. Totals(Before(i))'
    <3>1. (InputOK /\ i = 0 /\ blue_score = 0 /\ red_score = 0)' => Totals(Before(i))'
      BY NoTotals, PTL
    <3>2. QED
      BY <1>1, <1>3, <2>1, <3>1
  <2>4. QED
    BY <1>1, <1>3, <1>4, <2>1, <2>2, <2>3 DEF Inv, LoopInv
<1>7. QED
  BY <1>5, <1>6

LEMMA TeamsKeeps ==
  ASSUME Inv, TotalTeams
  PROVE  Inv'
<1> SUFFICES ASSUME NEW n, n = i PROVE Inv'
  OBVIOUS
<1>1. /\ n \in Slot /\ InputOK /\ UNCHANGED input /\ at = "teams" /\ team_vs
      /\ match_scores = Collected(Seated) /\ Leads(Seated) /\ Totals(Before(n))
      /\ match_scores' = match_scores /\ highest_score' = highest_score /\ winner_id' = winner_id
      /\ blue_score' = Total(blue_score, "blue") /\ red_score' = Total(red_score, "red")
  BY DEF Inv, LoopInv, TotalTeams
<1>2. /\ Before(n + 1)' = Before(n + 1) /\ Seated' = Seated
      /\ (\A S : Collected(S)' = Collected(S)) /\ team_vs' = team_vs /\ InputOK'
      /\ (\A s : Points(s)' = Points(s)) /\ slots' = slots /\ SlotPoints' = SlotPoints
      /\ \A S, team : Side(S, team)' = Side(S, team)
  BY <1>1, SameInput
<1>3. match_scores' = Collected(Seated)' /\ Leads(Seated)'
  BY <1>1, <1>2 DEF Leads
<1>4. /\ blue_score' = Sum(SlotPoints, Side(Before(n + 1), "blue"))
      /\ red_score' = Sum(SlotPoints, Side(Before(n + 1), "red"))
  <2>1. blue_score = Sum(SlotPoints, Side(Before(n), "blue"))
        /\ red_score = Sum(SlotPoints, Side(Before(n), "red"))
    BY <1>1 DEF Totals
  <2>2. QED
    BY <1>1, <2>1, TeamStep
<1>5. CASE n < MaxSlot
  <2>1. i' = n + 1 /\ at' = "teams" /\ n + 1 \in Slot
    BY <1>1, <1>5, BeforeNext DEF TotalTeams, Advance
  <2>2. Totals(Before(i))'
    BY <1>2, <1>4, <2>1 DEF Totals, Side
  <2>3. QED
    BY <1>1, <1>2, <1>3, <2>1, <2>2 DEF Inv, LoopInv
<1>6. CASE ~ (n < MaxSlot)
  <2>1. i' = 0 /\ at' = "winners" /\ 0 \in Slot /\ Before(n + 1) = Seated
    BY <1>1, <1>6, BeforeNext DEF TotalTeams, Advance
  <2>2. Totals(Seated)'
    BY <1>2, <1>4, <2>1 DEF Totals, Side
  <2>3. QED
    BY <1>1, <1>2, <1>3, <2>1, <2>2 DEF Inv, LoopInv
<1>7. QED
  BY <1>5, <1>6

LEMMA MarkKeeps ==
  ASSUME Inv, MarkWinners
  PROVE  Inv'
<1>1. /\ InputOK /\ UNCHANGED input /\ at = "winners" /\ at' = "done" /\ i' = i
      /\ match_scores = Collected(Seated) /\ Leads(Seated) /\ i \in Slot
      /\ match_scores' = {[sc EXCEPT !.won = Wins(sc)] : sc \in match_scores}
      /\ highest_score' = highest_score /\ winner_id' = winner_id
      /\ blue_score' = blue_score /\ red_score' = red_score
  BY DEF Inv, LoopInv, MarkWinners
<1>2. /\ Seated' = Seated /\ team_vs' = team_vs /\ InputOK' /\ slots' = slots
      /\ (\A s : ScoreOf(s)' = ScoreOf(s) /\ Points(s)' = Points(s)) /\ SlotPoints' = SlotPoints
  BY <1>1, SameInput
<1>3. WinningTeam' = WinningTeam
  BY <1>1 DEF WinningTeam
<1>4. \A s : MarkedScore(s)' = MarkedScore(s)
  BY <1>1, <1>2, <1>3 DEF MarkedScore, Wins
<1>5. match_scores' = {MarkedScore(s) : s \in Seated}
  BY <1>1 DEF Collected, MarkedScore
<1>6. match_scores' = {MarkedScore(s) : s \in Seated}'
  BY <1>2, <1>4, <1>5
<1>7. Leads(Seated)'
  BY <1>1, <1>2 DEF Leads
<1>8. IF team_vs' THEN Totals(Seated)' ELSE blue_score' = 0 /\ red_score' = 0
  <2>1. IF team_vs THEN Totals(Seated) ELSE blue_score = 0 /\ red_score = 0
    BY <1>1 DEF Inv, LoopInv
  <2>2. Totals(Seated)' <=> Totals(Seated)
    BY <1>1, <1>2 DEF Totals, Side
  <2>3. QED
    BY <1>1, <1>2, <2>1, <2>2
<1>9. QED
  BY <1>1, <1>2, <1>6, <1>7, <1>8 DEF Inv, LoopInv

LEMMA NextInv == Inv /\ [Next]_vars => Inv'
<1> SUFFICES ASSUME Inv, [Next]_vars PROVE Inv'
  OBVIOUS
<1>1. CASE UNCHANGED vars
  <2>1. /\ UNCHANGED input /\ at' = at /\ i' = i /\ match_scores' = match_scores
        /\ highest_score' = highest_score /\ winner_id' = winner_id
        /\ blue_score' = blue_score /\ red_score' = red_score
    BY <1>1 DEF vars
  <2>2. /\ slots' = slots /\ last_scores' = last_scores /\ team_vs' = team_vs /\ Seated' = Seated
        /\ (\A s : ScoreOf(s)' = ScoreOf(s) /\ Points(s)' = Points(s))
        /\ (\A S : Collected(S)' = Collected(S)) /\ SlotPoints' = SlotPoints
        /\ (\A n : Before(n)' = Before(n)) /\ InputOK'
    BY <2>1, SameInput DEF Inv
  <2>3. WinningTeam' = WinningTeam
    BY <2>1 DEF WinningTeam
  <2>4. \A s : MarkedScore(s)' = MarkedScore(s)
    BY <2>1, <2>2, <2>3 DEF MarkedScore, Wins
  <2>5. /\ Leads(Before(i))' <=> Leads(Before(i))
        /\ Leads(Seated)' <=> Leads(Seated)
    BY <2>1, <2>2 DEF Leads
  <2>6. /\ Totals(Before(i))' <=> Totals(Before(i))
        /\ Totals(Seated)' <=> Totals(Seated)
    BY <2>1, <2>2 DEF Totals, Side
  <2>7. {MarkedScore(s) : s \in Seated}' = {MarkedScore(s) : s \in Seated}
    BY <2>2, <2>4
  <2>8. Collected(Before(i))' = Collected(Before(i)) /\ Collected(Seated)' = Collected(Seated)
    BY <2>1, <2>2 DEF Collected
  <2>9. LoopInv'
    BY <2>1, <2>2, <2>5, <2>6, <2>7, <2>8 DEF Inv, LoopInv
  <2>10. QED
    BY <2>2, <2>9 DEF Inv
<1>2. CASE Next
  BY <1>2, CollectKeeps, TeamsKeeps, MarkKeeps DEF Next
<1>3. QED
  BY <1>1, <1>2

-----------------------------------------------------------------------------
(* The theorems *)

\* The loops have collected what the slots they have passed say.
THEOREM Invariance == Spec => []Inv
BY InitInv, NextInv, PTL DEF Spec

\* A marked score is the score of its slot but for the mark.
LEMMA Marked ==
  ASSUME InputOK, NEW s \in Seated
  PROVE  /\ MarkedScore(s) \in NewMatchScore
         /\ MarkedScore(s).user_id = slots[s].user_id /\ MarkedScore(s).slot_id = s
         /\ MarkedScore(s).team = slots[s].team /\ MarkedScore(s).score = Points(s)
         /\ MarkedScore(s).won <=> Wins(ScoreOf(s))
         /\ [MarkedScore(s) EXCEPT !.won = FALSE] = ScoreOf(s)
<1> DEFINE sc == ScoreOf(s)
<1>1. /\ sc \in NewMatchScore /\ sc.user_id = slots[s].user_id /\ sc.slot_id = s
      /\ sc.team = slots[s].team /\ sc.score = Points(s) /\ sc.won = FALSE
  BY Slots
<1>2. PICK x \in BOOLEAN : x <=> Wins(sc)
  <2>1. Wins(sc) \/ ~ Wins(sc)
    OBVIOUS
  <2>2. QED
    BY <2>1
<1>3. MarkedScore(s) = [sc EXCEPT !.won = x]
  <2>1. Wins(sc) = x
    <3>1. Wins(sc) \in BOOLEAN
      BY DEF Wins
    <3>2. QED
      BY <1>2, <3>1
  <2>2. QED
    BY <2>1 DEF MarkedScore
<1> HIDE DEF sc
<1>4. /\ [sc EXCEPT !.won = x] \in NewMatchScore
      /\ [sc EXCEPT !.won = x].won = x
      /\ [[sc EXCEPT !.won = x] EXCEPT !.won = FALSE] = sc
  BY <1>1, <1>2 DEF NewMatchScore
<1>5. QED
  BY <1>1, <1>2, <1>3, <1>4 DEF sc, NewMatchScore

LEMMA InvTypes == Inv => TypeOK
<1> SUFFICES ASSUME Inv PROVE TypeOK
  OBVIOUS
<1>1. match_scores \subseteq NewMatchScore
  <2>1. Before(i) \subseteq Seated
    BY DEF Before
  <2>2. \A s \in Seated : ScoreOf(s) \in NewMatchScore /\ MarkedScore(s) \in NewMatchScore
    BY Slots, Marked DEF Inv
  <2>3. QED
    BY <2>1, <2>2 DEF Inv, LoopInv, Collected
<1>2. \A S : S \subseteq Seated /\ Leads(S) => highest_score \in Int /\ winner_id \in User \cup {Nobody}
  BY Slots DEF Leads, Inv
<1>3. \A S : S \subseteq Seated /\ Totals(S) => blue_score \in Int /\ red_score \in Int
  <2>1. ASSUME NEW S, S \subseteq Seated, NEW team PROVE Sum(SlotPoints, Side(S, team)) \in Int
    <3>1. Side(S, team) \subseteq Seated /\ IsFiniteSet(Side(S, team))
      BY <2>1, Slots, FS_Subset DEF Side, Inv
    <3>2. \A s \in Side(S, team) : SlotPoints[s] \in Int
      BY <3>1, Slots DEF Inv
    <3>3. QED
      BY <3>1, <3>2, SumType
  <2>2. QED
    BY <2>1 DEF Totals
<1>4. Before(i) \subseteq Seated /\ 0 \in Int
  BY DEF Before
<1>5. highest_score \in Int /\ winner_id \in User \cup {Nobody}
  BY <1>2, <1>4 DEF Inv, LoopInv
<1>6. blue_score \in Int /\ red_score \in Int
  BY <1>3, <1>4 DEF Inv, LoopInv
<1>7. QED
  BY <1>1, <1>5, <1>6 DEF Inv, LoopInv, TypeOK

\* The scores, the winner and the totals stay well typed.
THEOREM TypeCorrect == Spec => []TypeOK
BY Invariance, InvTypes, PTL

\* Who leads among all the seated is the winner.
LEMMA LeaderWins ==
  ASSUME InputOK, Leads(Seated)
  PROVE  winner_id = Winner(Seated)
<1> DEFINE best == {s \in Seated : Points(s) >= 0 /\ \A r \in Seated : Points(s) >= Points(r)}
<1>1. Winner(Seated) = IF best = {} THEN Nobody
                       ELSE slots[CHOOSE s \in best : \A r \in best : s =< r].user_id
  BY DEF Winner
<1>2. /\ \A s \in Seated : Points(s) \in Int /\ s \in Int
      /\ highest_score \in Int
      /\ \A s \in Seated : Points(s) =< highest_score \/ Points(s) < 0
  BY Slots DEF Leads
<1>3. CASE winner_id = Nobody /\ highest_score = -1
  <2>1. \A s \in Seated : ~ (Points(s) >= 0)
    BY <1>2, <1>3
  <2>2. best = {}
    BY <2>1
  <2>3. QED
    BY <1>1, <1>3, <2>2
<1>4. ASSUME NEW s \in Seated, winner_id = slots[s].user_id, Points(s) = highest_score,
             Points(s) >= 0, \A r \in Seated : r < s => Points(r) < Points(s)
      PROVE  winner_id = Winner(Seated)
  <2>1. s \in best
    <3>1. \A r \in Seated : Points(s) >= Points(r)
      BY <1>2, <1>4
    <3>2. QED
      BY <1>4, <3>1
  <2>2. ASSUME NEW r \in best PROVE s =< r
    <3>1. r \in Seated /\ Points(r) >= Points(s)
      BY <1>4
    <3>2. ~ (r < s)
      BY <1>2, <1>4, <3>1
    <3>3. QED
      BY <1>2, <3>1, <3>2
  <2>3. ASSUME NEW t \in best, \A r \in best : t =< r PROVE t = s
    <3>1. t =< s /\ s =< t
      BY <2>1, <2>2, <2>3
    <3>2. t \in Int /\ s \in Int
      BY <1>2
    <3>3. QED
      BY <3>1, <3>2
  <2> HIDE DEF best
  <2>4. (CHOOSE t \in best : \A r \in best : t =< r) = s
    BY <2>1, <2>2, <2>3
  <2>5. QED
    BY <1>1, <1>4, <2>1, <2>4
<1>5. QED
  BY <1>3, <1>4 DEF Leads

LEMMA InvWinner == Inv => RightWinner
<1> SUFFICES ASSUME Inv, at = "done"
             PROVE  /\ winner_id = Winner(Seated)
                    /\ {[sc EXCEPT !.won = FALSE] : sc \in match_scores} = {ScoreOf(s) : s \in Seated}
  BY DEF RightWinner
<1>1. match_scores = {MarkedScore(s) : s \in Seated} /\ Leads(Seated) /\ InputOK
  BY DEF Inv, LoopInv
<1>2. \A s \in Seated : [MarkedScore(s) EXCEPT !.won = FALSE] = ScoreOf(s)
  BY <1>1, Marked
<1>3. {[sc EXCEPT !.won = FALSE] : sc \in match_scores} = {ScoreOf(s) : s \in Seated}
  <2> DEFINE Unmarked(sc) == [sc EXCEPT !.won = FALSE]
  <2>1. \A s \in Seated : Unmarked(MarkedScore(s)) = ScoreOf(s)
    BY <1>2
  <2> HIDE DEF Unmarked
  <2>2. {Unmarked(sc) : sc \in {MarkedScore(s) : s \in Seated}} = {ScoreOf(s) : s \in Seated}
    <3>1. {Unmarked(sc) : sc \in {MarkedScore(s) : s \in Seated}}
            = {Unmarked(MarkedScore(s)) : s \in Seated}
      OBVIOUS
    <3>2. QED
      BY <2>1, <3>1
  <2>3. QED
    BY <1>1, <2>2 DEF Unmarked
<1>4. QED
  BY <1>1, <1>3, LeaderWins

\* The saved result names the first of the best scores that are not negative, and gives
\* every seated player one score, for any number of slots and any reports.
THEOREM WinnerIsRight == Spec => []RightWinner
BY Invariance, InvWinner, PTL

\* The total of a side of the saved scores is the total of its slots.
LEMMA SideTotal ==
  ASSUME InputOK, match_scores = {MarkedScore(s) : s \in Seated}, NEW team
  PROVE  TotalOf({sc \in match_scores : sc.team = team}) = Sum(SlotPoints, Side(Seated, team))
<1> DEFINE T == Side(Seated, team)
           f == [s \in Slot |-> MarkedScore(s)]
           In == {sc \in match_scores : sc.team = team}
<1>1. /\ T \subseteq Seated /\ T \subseteq Slot /\ IsFiniteSet(T)
      /\ \A s \in Seated : s \in T <=> slots[s].team = team
  BY Slots, FS_Subset DEF Side
<1>2. \A s \in Seated : /\ f[s] = MarkedScore(s) /\ f[s] \in NewMatchScore
                        /\ f[s].slot_id = s /\ f[s].team = slots[s].team
                        /\ f[s].score = Points(s)
  BY Marked, Slots
<1>3. match_scores = {f[s] : s \in Seated}
  <2>1. \A s \in Seated : f[s] = MarkedScore(s)
    BY <1>2
  <2> HIDE DEF f
  <2>2. QED
    BY <2>1
<1>4. \A s \in Seated : /\ SlotPoints[s] \in Int
                        /\ RecordPoints[f[s]] = SlotPoints[s]
  BY <1>2, Slots, RecordTypes
<1> HIDE DEF f, T
<1>5. In = {f[s] : s \in T}
  BY <1>1, <1>2, <1>3
<1>6. In \subseteq NewMatchScore
  BY <1>1, <1>2, <1>5
<1>7. IsFiniteSet({f[s] : s \in T})
  BY <1>1, FiniteImage
<1>8. Sum(RecordPoints, {f[s] : s \in T}) = Sum(SlotPoints, T)
  <2>1. \A x, y \in T : f[x] = f[y] => x = y
    BY <1>1, <1>2
  <2>2. \A x \in T : SlotPoints[x] \in Int /\ RecordPoints[f[x]] = SlotPoints[x]
    BY <1>1, <1>4
  <2>3. IsFiniteSet(T)
    BY <1>1
  <2>4. QED
    BY ONLY <2>1, <2>2, <2>3, SumImage
<1> HIDE DEF In
<1>9. TotalOf(In) = Sum(RecordPoints, In)
  BY <1>5, <1>6, <1>7, TotalIsSum
<1>10. QED
  BY <1>5, <1>8, <1>9 DEF In, T

LEMMA InvSides == Inv => RightSideWon
<1> SUFFICES ASSUME Inv, at = "done" PROVE RightSideWon
  BY DEF RightSideWon
<1> DEFINE Won == {sc \in match_scores : sc.won}
           In(team) == {sc \in match_scores : sc.team = team}
<1>1. /\ match_scores = {MarkedScore(s) : s \in Seated} /\ Leads(Seated) /\ InputOK
      /\ team_vs => Totals(Seated)
  BY DEF Inv, LoopInv
<1>2. ASSUME NEW sc \in match_scores
      PROVE  \E s \in Seated : /\ sc = MarkedScore(s)
                               /\ sc.user_id = slots[s].user_id /\ sc.team = slots[s].team
                               /\ sc.won <=> Wins(ScoreOf(s))
  <2>1. PICK s \in Seated : sc = MarkedScore(s)
    BY <1>1
  <2>2. QED
    BY <1>1, <2>1, Marked
<1>3. CASE team_vs
  <2>1. blue_score = TotalOf(In("blue")) /\ red_score = TotalOf(In("red"))
    BY <1>1, <1>3, SideTotal DEF Totals
  <2>2. blue_score \in Int /\ red_score \in Int
    BY InvTypes DEF TypeOK
  <2>3. ASSUME NEW sc \in match_scores
        PROVE  sc.won <=> sc.team = WinningTeam /\ WinningTeam # "neutral"
    <3>1. PICK s \in Seated : sc.team = slots[s].team /\ (sc.won <=> Wins(ScoreOf(s)))
      BY <1>2
    <3>2. ScoreOf(s).team = slots[s].team
      BY <1>1, Slots
    <3>3. QED
      BY <1>3, <3>1, <3>2 DEF Wins
  <2>4. blue_score > red_score => WinningTeam = "blue"
    BY DEF WinningTeam
  <2>5. red_score > blue_score => WinningTeam = "red"
    BY <2>2 DEF WinningTeam
  <2>6. red_score = blue_score => WinningTeam = "neutral"
    BY <2>2 DEF WinningTeam
  <2>7. /\ blue_score > red_score => Won = In("blue")
        /\ red_score > blue_score => Won = In("red")
        /\ red_score = blue_score => Won = {}
    BY <2>3, <2>4, <2>5, <2>6
  <2>8. QED
    BY <1>3, <2>1, <2>7 DEF RightSideWon, TotalOf
<1>4. CASE ~ team_vs
  <2>1. winner_id = Winner(Seated)
    BY <1>1, LeaderWins
  <2>2. ASSUME NEW sc \in match_scores PROVE sc.won <=> sc.user_id = winner_id
    <3>1. PICK s \in Seated : sc.user_id = slots[s].user_id /\ (sc.won <=> Wins(ScoreOf(s)))
      BY <1>2
    <3>2. ScoreOf(s).user_id = slots[s].user_id
      BY <1>1, Slots
    <3>3. QED
      BY <1>4, <3>1, <3>2 DEF Wins
  <2>3. \A sc \in match_scores : sc.user_id # Nobody
    <3>1. \A s \in Seated : slots[s].user_id \in User
      BY <1>1, Slots
    <3>2. \A sc \in match_scores : sc.user_id \in User
      BY <1>2, <3>1
    <3>3. QED
      BY <3>2, MatchResultAssumption
  <2>4. winner_id # Nobody => \E sc \in match_scores : sc.user_id = winner_id
    <3>1. winner_id # Nobody => \E s \in Seated : winner_id = slots[s].user_id
      BY <1>1 DEF Leads
    <3>2. \A s \in Seated : /\ MarkedScore(s) \in match_scores
                            /\ MarkedScore(s).user_id = slots[s].user_id
      BY <1>1, Marked
    <3>3. QED
      BY <3>1, <3>2
  <2>5. {sc.user_id : sc \in Won} = {winner_id} \ {Nobody}
    BY <2>2, <2>3, <2>4
  <2>6. QED
    BY <1>4, <2>1, <2>5 DEF RightSideWon
<1>5. QED
  BY <1>3, <1>4

\* With teams the side with the larger total has won, all of it and nobody else, and
\* nobody has in a draw; without teams the winner alone has.
THEOREM SideIsRight == Spec => []RightSideWon
BY Invariance, InvSides, PTL
=============================================================================
