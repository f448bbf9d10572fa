----------------------------- MODULE ScoresProofs -----------------------------
(***************************************************************************)
(* Scores and statistics for any number of users, plays and submissions.   *)
(*                                                                         *)
(* The inductive invariant speaks of the scores whose submission was       *)
(* completed (Counted): their row exists (RowsExist), and of each row it   *)
(* says what it must show of them (RowRight).  That an update counts a     *)
(* play once needs submissions that have scores of their own (Requests);   *)
(* that it shows the best needs that what was read covers what has been    *)
(* completed (ReadsCover), which holds until another submission of the row *)
(* is; that the rank is the place on the leaderboard needs rows without a  *)
(* counted play to be blank (the last conjunct of RowRight).               *)
(*                                                                         *)
(* A step completes no submission and leaves rows alone (AllKept), makes a *)
(* row (WithRowKeeps), updates one (RowUpdated) or recalculates some       *)
(* (RowRecalculated).                                                      *)
(***************************************************************************)
EXTENDS Scores, Sums

-----------------------------------------------------------------------------
(* Scores, points and sums *)

\* What the best of a user's scores say: a map and the points for it.
Best == {[map |-> p.map, pp |-> p.pp] : p \in Play}

\* The weights that the sums are made of, and the sums.
ScoreWeight == [s \in Score |-> s.play.score]
PointWeight == [b \in Best |-> b.pp]

TotalOf(S) == MapThenSumSet(LAMBDA s : s.play.score, S)

LEMMA PlayTypes ==
  /\ \A s \in Score : /\ s.user \in User /\ s.relax \in BOOLEAN /\ s.play \in Play
                      /\ s.play.score \in Nat /\ s.play.pp \in Nat
                      /\ s.play.mode \in {"osu", "mania"}
                      /\ ScoreWeight[s] = s.play.score
  /\ \A b \in Best : b.pp \in Nat /\ PointWeight[b] = b.pp
<1>1. \A p \in Play : p.score \in Nat /\ p.pp \in Nat /\ p.mode \in {"osu", "mania"}
  BY ScoresAssumption
<1>2. \A s \in Score : s.user \in User /\ s.relax \in BOOLEAN /\ s.play \in Play
  BY DEF Score
<1>3. QED
  BY <1>1, <1>2 DEF Best, ScoreWeight, PointWeight

LEMMA TotalIsSum ==
  ASSUME NEW S, IsFiniteSet(S), S \subseteq Score
  PROVE  TotalOf(S) = Sum(ScoreWeight, S)
<1> DEFINE w == ScoreWeight
           P(g) == g = [T \in SUBSET S |-> IF T = {} THEN 0
                                           ELSE Pick(T).play.score + g[T \ {Pick(T)}]]
           c == CHOOSE g : P(g)
<1>1. TotalOf(S) = c[S]
  BY DEF TotalOf, MapThenSumSet, MapThenFoldSet, Pick
<1>2. ASSUME NEW g PROVE P(g) <=> IsSum(g, w, S)
  <2>1. \A T \in SUBSET S : T # {} => w[Pick(T)] = Pick(T).play.score
    BY PickIn, PlayTypes
  <2>2. [T \in SUBSET S |-> IF T = {} THEN 0 ELSE Pick(T).play.score + g[T \ {Pick(T)}]]
          = [T \in SUBSET S |-> IF T = {} THEN 0 ELSE w[Pick(T)] + g[T \ {Pick(T)}]]
    BY <2>1
  <2>3. QED
    BY <2>2 DEF IsSum
<1> HIDE DEF P
<1>3. P(SumsOver(w, S))
  BY <1>2, SumExists
<1>4. P(c)
  BY <1>3
<1>5. IsSum(c, w, S) /\ IsSum(SumsOver(w, S), w, S)
  BY <1>2, <1>4, SumExists
<1> HIDE DEF c
<1>6. S \in SUBSET S
  OBVIOUS
<1>7. c[S] = SumsOver(w, S)[S]
  BY ONLY <1>5, <1>6, IsFiniteSet(S), SumUnique
<1>8. QED
  BY <1>1, <1>7 DEF Sum

LEMMA PointsAreSum ==
  ASSUME NEW row, IsFiniteSet(row.best), row.best \subseteq Best
  PROVE  Points(row) = Sum(PointWeight, row.best)
<1> DEFINE w == PointWeight
           S == row.best
           P(g) == g = [T \in SUBSET S |-> IF T = {} THEN 0
                                           ELSE Pick(T).pp + g[T \ {Pick(T)}]]
           c == CHOOSE g : P(g)
<1>1. Points(row) = c[S]
  BY DEF Points, MapThenSumSet, MapThenFoldSet, Pick
<1> HIDE DEF S
<1>2. ASSUME NEW g PROVE P(g) <=> IsSum(g, w, S)
  <2>1. \A T \in SUBSET S : T # {} => w[Pick(T)] = Pick(T).pp
    BY PickIn, PlayTypes DEF S
  <2>2. [T \in SUBSET S |-> IF T = {} THEN 0 ELSE Pick(T).pp + g[T \ {Pick(T)}]]
          = [T \in SUBSET S |-> IF T = {} THEN 0 ELSE w[Pick(T)] + g[T \ {Pick(T)}]]
    BY <2>1
  <2>3. QED
    BY <2>2 DEF IsSum
<1>3. IsFiniteSet(S)
  BY DEF S
<1> HIDE DEF P
<1>4. P(SumsOver(w, S))
  BY <1>2, <1>3, SumExists
<1>5. P(c)
  BY <1>4
<1>6. IsSum(c, w, S) /\ IsSum(SumsOver(w, S), w, S)
  BY <1>2, <1>3, <1>5, SumExists
<1> HIDE DEF c
<1>7. S \in SUBSET S
  OBVIOUS
<1>8. c[S] = SumsOver(w, S)[S]
  BY ONLY <1>3, <1>6, <1>7, SumUnique
<1>9. QED
  BY <1>1, <1>8 DEF Sum, S

-----------------------------------------------------------------------------
(* The inductive invariant *)

Row == [best : SUBSET Best, ranked_score : Nat, play_count : Nat, total_score : Nat]

Typed ==
    /\ scores \subseteq Score /\ IsFiniteSet(scores) /\ lost \subseteq scores
    /\ DOMAIN stats \subseteq User \X StatsModes
    /\ \A k \in DOMAIN stats : stats[k] \in Row /\ IsFiniteSet(stats[k].best)

\* A submission under way, before and after it reads.
Submission == [at : {"inserted", "ensured"}, score : Score]
                \cup [at : {"read"}, score : Score, best : SUBSET Best]

\* A submission under way has a score of its own, that nobody has given up.
Requests ==
    /\ DOMAIN request = Request
    /\ \A q \in Request : request[q] # Idle =>
         /\ request[q] \in Submission /\ request[q].score \in scores \ lost
         /\ request[q].at = "read" => IsFiniteSet(request[q].best)
         /\ \A r \in Request : request[r] # Idle /\ request[r].score = request[q].score => r = q

\* The scores whose submission was completed.
Counted == scores \ (lost \cup InFlight)
CountedIn(k) == {s \in Counted : RowOf(s) = k}

\* A completed submission found a row, and rows are never removed.
RowsExist == \A s \in Counted : RowOf(s) \in DOMAIN stats

\* What a submission has read covers its own score and those of the row whose submission
\* was completed, as long as no other of the row has been completed since.
ReadsCover ==
    \A q \in Request : LET s == request[q].score IN
        request[q].at = "read" /\ q \notin overtaken /\ ~ Mixed(RowOf(s)) =>
            Shows(request[q].best, RowScores(RowOf(s)), CountedIn(RowOf(s)) \cup {s})

\* The histories speak of submissions that have read and of rows that exist.
Marks ==
    /\ overtaken \subseteq {q \in Request : request[q].at = "read"}
    /\ behind \subseteq DOMAIN stats

\* What is right about one row.  The last conjunct says that a row without a counted play
\* shows nothing, unless a submission has stopped midway.
RowRight(k) ==
    /\ stats[k].play_count = Cardinality(CountedIn(k))
    /\ stats[k].total_score = TotalOf(CountedIn(k))
    /\ ~ Mixed(k) =>
         /\ stats[k].ranked_score \in {0} \cup {s.play.score : s \in RowScores(k)}
         /\ \A s \in CountedIn(k) : stats[k].ranked_score >= s.play.score
    /\ ~ Mixed(k) /\ k \notin behind => Shows(stats[k].best, RowScores(k), CountedIn(k))
    /\ lost = {} /\ stats[k].play_count = 0 => stats[k].best = {} /\ stats[k].ranked_score = 0

RowsRight == \A k \in DOMAIN stats : RowRight(k)

Inv == Typed /\ Requests /\ Marks /\ RowsExist /\ ReadsCover /\ RowsRight

-----------------------------------------------------------------------------
(* What the queries find *)

LEMMA RowTypes ==
  \A s \in Score : /\ RowOf(s) \in User \X StatsModes
                   /\ RowOf(s)[1] = s.user /\ RowOf(s)[2][1] = s.play.mode
                   /\ RowOf(s)[2][2] = (s.relax /\ s.play.mode # "mania")
<1>1. ASSUME NEW s \in Score PROVE StatsMode(s.play.mode, s.relax) \in StatsModes
  BY PlayTypes DEF StatsMode, StatsModes
<1>2. QED
  BY <1>1, PlayTypes DEF RowOf, StatsMode

LEMMA ScoresOfRow ==
  ASSUME Typed, NEW k \in User \X StatsModes
  PROVE  /\ ScoresFor(k[1], k[2][1], k[2][2]) \subseteq RowScores(k)
         /\ ~ Mixed(k) => ScoresFor(k[1], k[2][1], k[2][2]) = RowScores(k)
<1>1. k[2] \in StatsModes /\ k = <<k[1], k[2]>>
  OBVIOUS
<1>2. /\ k[2] = <<k[2][1], k[2][2]>>
      /\ k[2][2] \in BOOLEAN
      /\ k[2][1] = "mania" => k[2][2] = FALSE
  <2>1. ASSUME NEW m, m = <<"osu", FALSE>> \/ m = <<"osu", TRUE>> \/ m = <<"mania", FALSE>>
        PROVE  m = <<m[1], m[2]>> /\ m[2] \in BOOLEAN /\ (m[1] = "mania" => m[2] = FALSE)
    <3>1. CASE m = <<"osu", FALSE>>
      BY <3>1
    <3>2. CASE m = <<"osu", TRUE>>
      BY <3>2
    <3>3. CASE m = <<"mania", FALSE>>
      BY <3>3
    <3>4. QED
      BY <2>1, <3>1, <3>2, <3>3
  <2>2. QED
    BY <1>1, <2>1 DEF StatsModes
<1>3. ASSUME NEW s \in scores, s.user = k[1], s.play.mode = k[2][1], s.relax = k[2][2]
      PROVE  RowOf(s) = k
  <2>1. StatsMode(s.play.mode, s.relax) = k[2]
    BY <1>2, <1>3 DEF StatsMode
  <2>2. QED
    BY <1>1, <1>3, <2>1 DEF RowOf
<1>4. ASSUME NEW s \in scores, RowOf(s) = k
      PROVE  s.user = k[1] /\ s.play.mode = k[2][1]
  BY <1>4, RowTypes DEF Typed
<1>5. QED
  BY <1>3, <1>4 DEF ScoresFor, RowScores, Mixed

\* Of a score, its row and the other scores of the row as the statement sees them.
LEMMA ScoresOfSame ==
  ASSUME Typed, NEW s \in scores, ~ Mixed(RowOf(s))
  PROVE  ScoresFor(s.user, s.play.mode, s.relax) = RowScores(RowOf(s))
<1> DEFINE k == RowOf(s)
<1>1. s \in Score
  BY DEF Typed
<1>2. k \in User \X StatsModes /\ k[1] = s.user /\ k[2][1] = s.play.mode
  BY <1>1, RowTypes
<1>3. s.relax = k[2][2]
  BY DEF Mixed, RowScores
<1>4. ScoresFor(k[1], k[2][1], k[2][2]) = RowScores(k)
  BY <1>2, ScoresOfRow
<1>5. QED
  BY <1>2, <1>3, <1>4

LEMMA HighestShown ==
  ASSUME NEW S, IsFiniteSet(S), S \subseteq Score
  PROVE  /\ HighestScore(S) \in {0} \cup {s.play.score : s \in S}
         /\ HighestScore(S) \in Nat
         /\ \A s \in S : HighestScore(S) >= s.play.score
<1> DEFINE N == {ScoreWeight[s] : s \in S}
           Z == {0} \cup {s.play.score : s \in S}
<1>1. N = {s.play.score : s \in S}
  BY PlayTypes
<1>2. IsFiniteSet(N)
  BY FiniteImage
<1>3. IsFiniteSet(N \cup {0})
  <2> HIDE DEF N
  <2>1. QED
    BY <1>2, FS_AddElement
<1>4. Z = N \cup {0}
  BY <1>1
<1>5. Z \subseteq Nat
  BY PlayTypes
<1>6. \A s \in S : s.play.score \in Z
  OBVIOUS
<1>7. Z # {}
  OBVIOUS
<1>8. HighestScore(S) = Max(Z)
  BY DEF HighestScore
<1> HIDE DEF Z, N
<1>9. Max(Z) \in Z /\ \A x \in Z : x =< Max(Z)
  <2>1. IsFiniteSet(Z) /\ Z \subseteq Int
    BY <1>3, <1>4, <1>5
  <2>2. QED
    BY ONLY <2>1, <1>7, Greatest
<1>10. \A s \in S : s.play.score =< Max(Z)
  BY <1>6, <1>9
<1>11. Max(Z) \in Nat
  BY <1>5, <1>9
<1>12. \A s \in S : s.play.score \in Nat
  BY <1>5, <1>6
<1>13. \A s \in S : Max(Z) >= s.play.score
  BY <1>10, <1>11, <1>12
<1>14. QED
  BY <1>8, <1>9, <1>11, <1>13 DEF Z

LEMMA BestShows ==
  ASSUME NEW S, IsFiniteSet(S), S \subseteq Score
  PROVE  /\ IsFiniteSet(BestOf(S)) /\ BestOf(S) \subseteq Best
         /\ \A b \in BestOf(S) : \E s \in S : s.play.map = b.map /\ s.play.pp = b.pp
         /\ \A s \in S : \E b \in BestOf(S) : b.map = s.play.map /\ b.pp >= s.play.pp
         /\ S = {} => BestOf(S) = {}
<1> DEFINE w == [s \in Score |-> [map |-> s.play.map, pp |-> s.play.pp]]
           Tops == {t \in S : \A k \in S : k.play.map = t.play.map => k.play.pp =< t.play.pp}
<1>1. BestOf(S) = {w[s] : s \in Tops}
  BY DEF BestOf
<1>2. \A s \in S : w[s] = [map |-> s.play.map, pp |-> s.play.pp] /\ w[s] \in Best
  BY PlayTypes DEF Best
<1>3. Tops \subseteq S /\ IsFiniteSet(Tops)
  BY FS_Subset
<1>4. IsFiniteSet({w[s] : s \in Tops})
  <2> HIDE DEF w, Tops
  <2>1. QED
    BY <1>3, FiniteImage
<1>5. ASSUME NEW s \in S
      PROVE  \E t \in Tops : t.play.map = s.play.map /\ t.play.pp >= s.play.pp
  <2> DEFINE M == {x \in S : x.play.map = s.play.map}
             P == {x.play.pp : x \in M}
             f == [x \in M |-> x.play.pp]
  <2>1. IsFiniteSet(M) /\ s \in M
    BY FS_Subset
  <2>2. \A x \in M : x \in S /\ x.play.pp \in Nat /\ x.play.pp \in P
    BY PlayTypes
  <2>3. P = {f[x] : x \in M}
    OBVIOUS
  <2>4. IsFiniteSet(P)
    <3> HIDE DEF f, P, M
    <3>1. QED
      BY <2>1, <2>3, FiniteImage
  <2>5. P \subseteq Int /\ P # {}
    BY <2>1, <2>2
  <2>6. Max(P) \in P /\ \A x \in P : x =< Max(P)
    <3> HIDE DEF P
    <3>1. QED
      BY ONLY <2>4, <2>5, Greatest
  <2>7. PICK t \in M : t.play.pp = Max(P)
    BY <2>6
  <2>8. \A x \in M : x.play.pp =< t.play.pp
    BY <2>2, <2>6, <2>7
  <2>9. t \in Tops /\ t.play.map = s.play.map
    BY <2>7, <2>8
  <2>10. t.play.pp >= s.play.pp
    <3>1. s.play.pp =< t.play.pp /\ s.play.pp \in Nat /\ t.play.pp \in Nat
      BY <2>1, <2>2, <2>7, <2>8
    <3>2. QED
      BY <3>1
  <2>11. QED
    BY <2>9, <2>10
<1>6. ASSUME NEW b \in BestOf(S)
      PROVE  \E s \in S : s.play.map = b.map /\ s.play.pp = b.pp
  <2>1. PICK s \in Tops : b = w[s]
    <3> HIDE DEF w
    <3>1. QED
      BY <1>1
  <2>2. w[s].map = s.play.map /\ w[s].pp = s.play.pp
    BY <1>2, <1>3
  <2> HIDE DEF w
  <2>3. QED
    BY <1>3, <2>1, <2>2
<1>7. ASSUME NEW s \in S
      PROVE  \E b \in BestOf(S) : b.map = s.play.map /\ b.pp >= s.play.pp
  <2>1. PICK t \in Tops : t.play.map = s.play.map /\ t.play.pp >= s.play.pp
    BY <1>5
  <2>2. w[t] \in BestOf(S) /\ w[t].map = t.play.map /\ w[t].pp = t.play.pp
    BY <1>1, <1>2, <1>3
  <2>3. QED
    BY <2>1, <2>2
<1>8. BestOf(S) \subseteq Best
  BY <1>1, <1>2, <1>3
<1>9. S = {} => BestOf(S) = {}
  BY <1>1, <1>3
<1>10. QED
  BY <1>1, <1>4, <1>6, <1>7, <1>8, <1>9

LEMMA FiniteRows ==
  ASSUME Typed
  PROVE  \A k : /\ RowScores(k) \subseteq scores /\ RowScores(k) \subseteq Score
                /\ IsFiniteSet(RowScores(k))
                /\ CountedIn(k) \subseteq RowScores(k) /\ IsFiniteSet(CountedIn(k))
<1>1. \A k : RowScores(k) \subseteq scores /\ CountedIn(k) \subseteq RowScores(k)
  BY DEF RowScores, CountedIn, Counted
<1>2. \A k : IsFiniteSet(RowScores(k)) /\ IsFiniteSet(CountedIn(k))
  <2>1. \A k : RowScores(k) \subseteq scores /\ CountedIn(k) \subseteq scores
    BY <1>1
  <2>2. IsFiniteSet(scores)
    BY DEF Typed
  <2>3. QED
    BY <2>1, <2>2, FS_Subset
<1>3. QED
  BY <1>1, <1>2 DEF Typed

LEMMA FiniteSelection ==
  ASSUME Typed, NEW u, NEW m, NEW r
  PROVE  /\ ScoresFor(u, m, r) \subseteq Score /\ IsFiniteSet(ScoresFor(u, m, r))
<1>1. ScoresFor(u, m, r) \subseteq scores
  BY DEF ScoresFor
<1>2. QED
  BY <1>1, FS_Subset DEF Typed

-----------------------------------------------------------------------------
(* What a statement does to a row *)

LEMMA ShowsMore ==
  ASSUME NEW best, NEW ss, NEW more, NEW done, NEW fewer, Shows(best, ss, done),
         ss \subseteq more, fewer \subseteq done
  PROVE  Shows(best, more, fewer)
BY DEF Shows

\* A row that a step does not write is still right if the step completes no submission
\* for it: new scores are under way, and what has been given up stays given up.
LEMMA RowKept ==
  ASSUME NEW k, RowRight(k), stats'[k] = stats[k], CountedIn(k)' = CountedIn(k),
         scores \subseteq scores', lost \subseteq lost', k \in behind => k \in behind'
  PROVE  RowRight(k)'
<1>1. RowScores(k) \subseteq RowScores(k)'
  BY DEF RowScores
<1>2. Mixed(k) => Mixed(k)'
  BY <1>1 DEF Mixed
<1>3. /\ stats'[k].play_count = Cardinality(CountedIn(k)')
      /\ stats'[k].total_score = TotalOf(CountedIn(k)')
  BY DEF RowRight
<1>4. ~ Mixed(k)' =>
         /\ stats'[k].ranked_score \in {0} \cup {s.play.score : s \in RowScores(k)'}
         /\ \A s \in CountedIn(k)' : stats'[k].ranked_score >= s.play.score
  BY <1>1, <1>2 DEF RowRight
<1>5. ASSUME ~ Mixed(k)', k \notin behind'
      PROVE  Shows(stats'[k].best, RowScores(k)', CountedIn(k)')
  <2>1. Shows(stats[k].best, RowScores(k), CountedIn(k))
    BY <1>2, <1>5 DEF RowRight
  <2>2. QED
    BY <1>1, <2>1, ShowsMore
<1>6. lost' = {} /\ stats'[k].play_count = 0 => stats'[k].best = {} /\ stats'[k].ranked_score = 0
  BY DEF RowRight
<1>7. QED
  BY <1>3, <1>4, <1>5, <1>6 DEF RowRight

\* A new row says nothing, and there is nothing for it to say.
LEMMA RowMade ==
  ASSUME NEW k, stats'[k] = NewRow, CountedIn(k)' = {}
  PROVE  RowRight(k)'
<1>1. Cardinality({}) = 0 /\ TotalOf({}) = 0
  <2>1. IsFiniteSet({}) /\ Cardinality({}) = 0 /\ {} \subseteq Score
    BY FS_EmptySet
  <2>2. QED
    BY <2>1, TotalIsSum, SumEmpty
<1>2. /\ NewRow.best = {} /\ NewRow.ranked_score = 0
      /\ NewRow.play_count = 0 /\ NewRow.total_score = 0
  BY DEF NewRow
<1>3. /\ stats'[k].play_count = Cardinality(CountedIn(k)')
      /\ stats'[k].total_score = TotalOf(CountedIn(k)')
  BY <1>1, <1>2
<1>4. Shows(stats'[k].best, RowScores(k)', CountedIn(k)')
  BY <1>2 DEF Shows
<1>5. QED
  BY <1>2, <1>3, <1>4 DEF RowRight

\* A row is made again from all its scores: a play whose submission has stopped shows.
LEMMA RowRecalculated ==
  ASSUME Typed, NEW k \in DOMAIN stats, RowRight(k), stats'[k] = Recalculated(k),
         scores' = scores, CountedIn(k)' = CountedIn(k),
         lost' = {} => CountedIn(k) = RowScores(k)
  PROVE  RowRight(k)'
<1> DEFINE ss == ScoresFor(k[1], k[2][1], k[2][2])
<1>1. k \in User \X StatsModes
  BY DEF Typed
<1>2. ss \subseteq RowScores(k) /\ (~ Mixed(k) => ss = RowScores(k))
  BY <1>1, ScoresOfRow
<1>3. RowScores(k)' = RowScores(k) /\ (Mixed(k)' <=> Mixed(k))
  BY DEF RowScores, Mixed
<1>4. ss \subseteq Score /\ IsFiniteSet(ss)
  BY FiniteSelection
<1>5. stats'[k] = [stats[k] EXCEPT !.best = BestOf(ss), !.ranked_score = HighestScore(ss)]
  BY DEF Recalculated
<1>0. CountedIn(k) \subseteq RowScores(k) /\ IsFiniteSet(CountedIn(k))
  BY FiniteRows
<1> HIDE DEF ss
<1>6. HighestScore(ss) \in {0} \cup {s.play.score : s \in ss}
      /\ \A s \in ss : HighestScore(ss) >= s.play.score
  BY <1>4, HighestShown
<1>7. /\ \A b \in BestOf(ss) : \E s \in ss : s.play.map = b.map /\ s.play.pp = b.pp
      /\ \A s \in ss : \E b \in BestOf(ss) : b.map = s.play.map /\ b.pp >= s.play.pp
      /\ ss = {} => BestOf(ss) = {}
  BY <1>4, BestShows
<1>8. /\ stats'[k].best = BestOf(ss) /\ stats'[k].ranked_score = HighestScore(ss)
      /\ stats'[k].play_count = stats[k].play_count /\ stats'[k].total_score = stats[k].total_score
  <2>1. stats[k] \in Row
    BY DEF Typed
  <2>2. QED
    BY <1>5, <2>1 DEF Row
<1>9. /\ stats'[k].play_count = Cardinality(CountedIn(k)')
      /\ stats'[k].total_score = TotalOf(CountedIn(k)')
  BY <1>8 DEF RowRight
<1>10. ~ Mixed(k)' =>
         /\ stats'[k].ranked_score \in {0} \cup {s.play.score : s \in RowScores(k)'}
         /\ \A s \in CountedIn(k)' : stats'[k].ranked_score >= s.play.score
  BY <1>0, <1>2, <1>3, <1>6, <1>8
<1>11. ~ Mixed(k)' => Shows(stats'[k].best, RowScores(k)', CountedIn(k)')
  <2>1. Shows(BestOf(ss), ss, ss)
    BY <1>7 DEF Shows
  <2>2. ~ Mixed(k) => Shows(BestOf(ss), RowScores(k), CountedIn(k))
    BY <1>0, <1>2, <2>1, ShowsMore
  <2>3. QED
    BY <1>3, <1>8, <2>2
<1>12. ASSUME lost' = {}, stats'[k].play_count = 0
       PROVE  stats'[k].best = {} /\ stats'[k].ranked_score = 0
  <2>1. Cardinality(CountedIn(k)) = 0
    BY <1>9, <1>12
  <2>2. CountedIn(k) = {}
    BY <1>0, <2>1, FS_EmptySet
  <2>3. ss = {}
    BY <1>2, <1>12, <2>2
  <2>4. QED
    BY <1>6, <1>7, <1>8, <2>3
<1>13. QED
  BY <1>9, <1>10, <1>11, <1>12 DEF RowRight

\* The update counts the play once, and shows what the subquery and the read found.
LEMMA RowUpdated ==
  ASSUME Typed, NEW s \in scores, NEW k, k = RowOf(s), k \in DOMAIN stats, RowRight(k),
         NEW best, k \in behind' \/ Mixed(k) \/ Shows(best, RowScores(k), CountedIn(k) \cup {s}),
         stats'[k] = Updated(stats[k], s, best), scores' = scores,
         s \notin CountedIn(k), CountedIn(k)' = CountedIn(k) \cup {s}
  PROVE  RowRight(k)'
<1> DEFINE ss == ScoresFor(s.user, s.play.mode, s.relax)
           C == CountedIn(k)
<1>1. stats[k] \in Row /\ s \in Score
  BY DEF Typed
<1>3. RowScores(k)' = RowScores(k) /\ (Mixed(k)' <=> Mixed(k))
  BY DEF RowScores, Mixed
<1>4. ss \subseteq Score /\ IsFiniteSet(ss)
  BY FiniteSelection
<1>5. ~ Mixed(k) => ss = RowScores(k)
  BY ScoresOfSame
<1>6. C \subseteq RowScores(k) /\ RowScores(k) \subseteq Score /\ IsFiniteSet(C) /\ s \in RowScores(k)
  <2>1. s \in RowScores(k)
    BY DEF RowScores
  <2>2. QED
    BY <2>1, FiniteRows
<1>7. /\ stats'[k].best = best /\ stats'[k].ranked_score = HighestScore(ss)
      /\ stats'[k].play_count = stats[k].play_count + 1
      /\ stats'[k].total_score = stats[k].total_score + s.play.score
  BY DEF Updated
<1>8. C \cup {s} \subseteq RowScores(k)
  BY <1>6
<1>9. stats'[k].play_count = Cardinality(C \cup {s})
  <2>1. Cardinality(C \cup {s}) = Cardinality(C) + 1
    BY <1>6, FS_AddElement
  <2>2. QED
    BY <1>7, <2>1 DEF RowRight
<1>10. stats'[k].total_score = TotalOf(C \cup {s})
  <2>1. C \subseteq Score /\ IsFiniteSet(C \cup {s}) /\ C \cup {s} \subseteq Score
    BY <1>6, FS_AddElement
  <2>2. TotalOf(C) = Sum(ScoreWeight, C) /\ TotalOf(C \cup {s}) = Sum(ScoreWeight, C \cup {s})
    BY <1>6, <2>1, TotalIsSum
  <2>3. \A x \in C \cup {s} : ScoreWeight[x] \in Int
    BY <2>1, PlayTypes
  <2>4. s \notin C
    OBVIOUS
  <2>5. Sum(ScoreWeight, C \cup {s}) = Sum(ScoreWeight, C) + ScoreWeight[s]
    <3> HIDE DEF C
    <3>1. QED
      BY ONLY <1>6, <2>3, <2>4, SumAdd
  <2>6. ScoreWeight[s] = s.play.score
    BY <1>1, PlayTypes
  <2>7. QED
    BY <1>7, <2>2, <2>5, <2>6 DEF RowRight
<1>11. ~ Mixed(k)' =>
         /\ stats'[k].ranked_score \in {0} \cup {t.play.score : t \in RowScores(k)'}
         /\ \A t \in CountedIn(k)' : stats'[k].ranked_score >= t.play.score
  <2>1. HighestScore(ss) \in {0} \cup {t.play.score : t \in ss}
        /\ \A t \in ss : HighestScore(ss) >= t.play.score
    BY <1>4, HighestShown
  <2> HIDE DEF ss
  <2>2. QED
    BY <1>3, <1>5, <1>7, <1>8, <2>1
<1>12. ~ Mixed(k)' /\ k \notin behind' => Shows(stats'[k].best, RowScores(k)', CountedIn(k)')
  BY <1>3, <1>7
<1>13. stats'[k].play_count # 0
  <2>1. stats[k].play_count \in Nat
    BY <1>1 DEF Row
  <2>2. QED
    BY <1>7, <2>1
<1>14. QED
  BY <1>9, <1>10, <1>11, <1>12, <1>13 DEF RowRight

-----------------------------------------------------------------------------
(* Submissions under way *)

\* The scores under way, said without the image of a set.
LEMMA UnderWay ==
  \A s : s \in InFlight <=> \E q \in Request : request[q] # Idle /\ request[q].score = s
BY DEF InFlight

\* A submission that only moves on keeps its score, and nothing more is counted.
LEMMA MovedOn ==
  ASSUME Requests, NEW q \in Request, request[q] # Idle, NEW state, state # Idle,
         state.score = request[q].score, Goes(q, state)
  PROVE  InFlight' = InFlight
<1>1. /\ request'[q] = state
      /\ \A r \in Request : r # q => request'[r] = request[r]
  BY DEF Goes, Requests
<1>2. \A s : s \in InFlight' <=> \E r \in Request : request'[r] # Idle /\ request'[r].score = s
  BY DEF InFlight
<1>3. \A s : s \in InFlight' <=> s \in InFlight
  BY <1>1, <1>2, UnderWay
<1>4. QED
  BY <1>3

\* A submission that ends takes its score, and no other, from those under way.
LEMMA Ended ==
  ASSUME Requests, NEW q \in Request, request[q] # Idle, Goes(q, Idle)
  PROVE  InFlight' = InFlight \ {request[q].score} /\ request[q].score \in InFlight
<1>1. /\ request'[q] = Idle
      /\ \A r \in Request : r # q => request'[r] = request[r]
  BY DEF Goes, Requests
<1>2. \A s : s \in InFlight' <=> \E r \in Request : request'[r] # Idle /\ request'[r].score = s
  BY DEF InFlight
<1>3. \A r \in Request : request[r] # Idle /\ request[r].score = request[q].score => r = q
  BY DEF Requests
<1>4. \A s : s \in InFlight' <=> s \in InFlight \ {request[q].score}
  BY <1>1, <1>2, <1>3, UnderWay
<1>5. QED
  BY <1>4, UnderWay

\* What makes the first three parts of the invariant hold after a step of one submission.
LEMMA RequestsAfter ==
  ASSUME Requests, NEW q \in Request, NEW state, Goes(q, state),
         scores \subseteq scores', lost \subseteq lost',
         \A r \in Request \ {q} : request[r] # Idle => request[r].score \notin lost',
         state # Idle =>
           /\ state \in Submission /\ state.score \in scores' \ lost'
           /\ state.at = "read" => IsFiniteSet(state.best)
           /\ \A r \in Request \ {q} : request[r] # Idle => request[r].score # state.score
  PROVE  Requests'
<1>1. /\ DOMAIN request' = Request /\ request'[q] = state
      /\ \A r \in Request : r # q => request'[r] = request[r]
  BY DEF Goes, Requests
<1>2. ASSUME NEW p \in Request, request'[p] # Idle
      PROVE  /\ request'[p] \in Submission /\ request'[p].score \in scores' \ lost'
             /\ request'[p].at = "read" => IsFiniteSet(request'[p].best)
             /\ \A r \in Request : request'[r] # Idle /\ request'[r].score = request'[p].score => r = p
  <2>1. CASE p = q
    BY <1>1, <1>2, <2>1
  <2>2. CASE p # q
    <3>1. request'[p] = request[p] /\ request[p] # Idle
      BY <1>1, <1>2, <2>2
    <3>2. request'[p].score \in scores' \ lost'
      BY <2>2, <3>1 DEF Requests
    <3>3. /\ request'[p] \in Submission
          /\ request'[p].at = "read" => IsFiniteSet(request'[p].best)
      BY <3>1 DEF Requests
    <3>4. ASSUME NEW r \in Request, request'[r] # Idle, request'[r].score = request'[p].score
          PROVE  r = p
      BY <1>1, <2>2, <3>1, <3>4 DEF Requests
    <3>5. QED
      BY <3>2, <3>3, <3>4
  <2>3. QED
    BY <2>1, <2>2
<1>3. QED
  BY <1>1, <1>2 DEF Requests

\* A step that leaves the rows alone and completes no submission.
LEMMA AllKept ==
  ASSUME RowsExist, RowsRight, stats' = stats, Counted' = Counted,
         scores \subseteq scores', lost \subseteq lost', behind \subseteq behind'
  PROVE  RowsExist' /\ RowsRight'
<1>1. \A k : CountedIn(k)' = CountedIn(k)
  BY DEF CountedIn
<1>2. ASSUME NEW k \in DOMAIN stats PROVE RowRight(k)'
  BY <1>1, RowKept DEF RowsRight
<1>3. QED
  BY <1>2 DEF RowsRight, RowsExist

\* Of the submissions but q, those that have read and are not overtaken were not before
\* the step, and no submission of their row is completed by it.
OthersCover(q) ==
    \A r \in Request \ {q} : request[r].at = "read" /\ r \notin overtaken' =>
        /\ r \notin overtaken
        /\ \A k : k = RowOf(request[r].score) => CountedIn(k)' = CountedIn(k)

\* A submission that has read just now covers what it must.
CoversNow(state) ==
    \A best, s, k : state.at = "read" /\ best = state.best /\ s = state.score /\ k = RowOf(s) =>
        Mixed(k)' \/ Shows(best, RowScores(k)', CountedIn(k)' \cup {s})

\* What other submissions have read still covers what it must, unless a submission of the
\* row has been completed and they are overtaken.
LEMMA ReadsAfter ==
  ASSUME Requests, ReadsCover, NEW q \in Request, NEW state, Goes(q, state),
         scores \subseteq scores', OthersCover(q), CoversNow(state)
  PROVE  ReadsCover'
<1>1. /\ request'[q] = state
      /\ \A r \in Request : r # q => request'[r] = request[r]
  BY DEF Goes, Requests
<1>2. \A k : RowScores(k) \subseteq RowScores(k)' /\ (Mixed(k) => Mixed(k)')
  BY DEF RowScores, Mixed
<1>3. SUFFICES ASSUME NEW r \in Request, NEW s, s = request'[r].score, NEW k, k = RowOf(s),
                      request'[r].at = "read", r \notin overtaken', ~ Mixed(k)'
               PROVE  Shows(request'[r].best, RowScores(k)', CountedIn(k)' \cup {s})
  BY DEF ReadsCover
<1>4. CASE r = q
  BY <1>1, <1>3, <1>4 DEF CoversNow
<1>5. CASE r # q
  <2>1. /\ request[r].at = "read" /\ s = request[r].score /\ request'[r].best = request[r].best
        /\ r \notin overtaken /\ CountedIn(k)' = CountedIn(k)
    BY <1>1, <1>3, <1>5 DEF OthersCover
  <2>2. Shows(request[r].best, RowScores(k), CountedIn(k) \cup {s})
    BY <1>2, <1>3, <2>1 DEF ReadsCover
  <2>3. QED
    BY <1>2, <2>1, <2>2, ShowsMore
<1>6. QED
  BY <1>4, <1>5

\* Counted in a row is what is counted at all.
LEMMA CountedSame ==
  ASSUME Counted' = Counted
  PROVE  \A k : CountedIn(k)' = CountedIn(k)
BY DEF CountedIn

\* A step that completes nothing overtakes nobody.
LEMMA OthersSame ==
  ASSUME NEW q, Counted' = Counted, overtaken \ {q} \subseteq overtaken'
  PROVE  OthersCover(q)
BY CountedSame DEF OthersCover

-----------------------------------------------------------------------------
(* The actions *)

LEMMA InsertKeeps ==
  ASSUME Inv, NEW q \in Request, NEW u \in User, NEW p \in Play, NEW x \in BOOLEAN,
         InsertScore(q, u, p, x)
  PROVE  Inv'
<1> DEFINE s == Submitted(u, p, x)
           state == [at |-> "inserted", score |-> s]
<1>1. /\ request[q] = Idle /\ IsNew(u, p) /\ scores' = scores \cup {s} /\ Goes(q, state)
      /\ stats' = stats /\ lost' = lost /\ overtaken' = overtaken /\ behind' = behind
  BY DEF InsertScore
<1>2. s \in Score /\ s.user = u /\ s.play = p
  <2>1. p.relax \in BOOLEAN
    BY ScoresAssumption
  <2>2. QED
    BY <2>1 DEF Submitted, Score
<1>3. s \notin scores
  BY <1>1, <1>2 DEF IsNew
<1>4. state # Idle /\ state \in Submission /\ state.at = "inserted" /\ state.score = s
  BY <1>2 DEF Idle, Submission
<1> HIDE DEF state, s
<1>5. /\ \A r \in Request : r # q => request'[r] = request[r]
      /\ request'[q] = state
  BY <1>1 DEF Goes, Inv, Requests
<1>6. Typed'
  <2>1. IsFiniteSet(scores')
    BY <1>1, FS_AddElement DEF Inv, Typed
  <2>2. QED
    BY <1>1, <1>2, <2>1 DEF Inv, Typed
<1>7. Requests'
  <2>1. \A r \in Request \ {q} : request[r] # Idle =>
            request[r].score \in scores \ lost /\ request[r].score # s
    BY <1>3 DEF Inv, Requests
  <2>2. s \in scores' \ lost'
    BY <1>1, <1>3 DEF Inv, Typed
  <2>3. QED
    BY <1>1, <1>4, <2>1, <2>2, RequestsAfter DEF Inv
<1>8. Counted' = Counted
  <2>1. \A t : t \in InFlight' <=> \E r \in Request : request'[r] # Idle /\ request'[r].score = t
    BY DEF InFlight
  <2>2. \A t : t \in InFlight' <=> t \in InFlight \/ t = s
    BY <1>1, <1>4, <1>5, <2>1, UnderWay
  <2>3. QED
    BY <1>1, <1>3, <2>2 DEF Counted
<1>9. RowsExist' /\ RowsRight'
  BY <1>1, <1>8, AllKept DEF Inv
<1>10. ReadsCover' /\ Marks'
  <2>1. OthersCover(q)
    BY <1>1, <1>8, OthersSame
  <2>0. CoversNow(state)
    BY <1>4 DEF CoversNow
  <2>4. ReadsCover'
    BY <1>1, <2>0, <2>1, ReadsAfter DEF Inv
  <2>2. Marks'
    BY <1>1, <1>5 DEF Inv, Marks, Idle
  <2>3. QED
    BY <2>2, <2>4
<1>11. QED
  BY <1>6, <1>7, <1>9, <1>10 DEF Inv

\* INSERT OR IGNORE makes a row that no completed submission has been waiting for.
LEMMA WithRowKeeps ==
  ASSUME Typed, RowsExist, RowsRight, NEW k \in User \X StatsModes, stats' = WithRow(k),
         Counted' = Counted, scores' = scores, lost' = lost, behind' = behind
  PROVE  Typed' /\ RowsExist' /\ RowsRight'
<1>1. /\ DOMAIN stats' = DOMAIN stats \cup {k}
      /\ \A j \in DOMAIN stats : stats'[j] = stats[j]
      /\ k \notin DOMAIN stats => stats'[k] = NewRow
  BY DEF WithRow
<1>2. \A j : CountedIn(j)' = CountedIn(j)
  BY DEF CountedIn
<1>3. NewRow \in Row /\ IsFiniteSet(NewRow.best)
  BY FS_EmptySet DEF NewRow, Row
<1>4. Typed'
  BY <1>1, <1>3 DEF Typed
<1>5. RowsExist'
  BY <1>1 DEF RowsExist
<1>6. ASSUME NEW j \in DOMAIN stats PROVE RowRight(j)'
  BY <1>1, <1>2, RowKept DEF RowsRight
<1>7. ASSUME k \notin DOMAIN stats PROVE RowRight(k)'
  <2>1. CountedIn(k) = {}
    BY <1>7 DEF RowsExist, CountedIn
  <2>2. CountedIn(k)' = {} /\ stats'[k] = NewRow
    BY <1>1, <1>2, <1>7, <2>1
  <2>3. QED
    BY <2>2, RowMade
<1>8. QED
  BY <1>1, <1>4, <1>5, <1>6, <1>7 DEF RowsRight

LEMMA EnsureKeeps ==
  ASSUME Inv, NEW q \in Request, EnsureStats(q)
  PROVE  Inv'
<1> DEFINE state == [request[q] EXCEPT !.at = "ensured"]
<1>1. /\ request[q].at = "inserted" /\ Goes(q, state)
      /\ stats' = stats \/ stats' = WithRow(RowOf(request[q].score))
      /\ scores' = scores /\ lost' = lost /\ overtaken' = overtaken /\ behind' = behind
  BY DEF EnsureStats
<1>2. request[q] # Idle /\ request[q].score \in scores \ lost /\ request[q].score \in Score
  BY <1>1 DEF Inv, Requests, Typed, Idle
<1>3. state \in Submission /\ state.at = "ensured" /\ state.score = request[q].score
  <2>1. request[q] \in [at : {"inserted", "ensured"}, score : Score]
    BY <1>1, <1>2 DEF Inv, Requests, Submission
  <2>2. QED
    BY <2>1 DEF Submission
<1>4. state # Idle
  BY <1>3 DEF Idle
<1> HIDE DEF state
<1>5. InFlight' = InFlight
  BY <1>1, <1>2, <1>3, <1>4, MovedOn DEF Inv
<1>6. Counted' = Counted
  BY <1>1, <1>5 DEF Counted
<1>7. Requests'
  <2>1. \A r \in Request \ {q} : request[r] # Idle =>
            request[r].score \in scores \ lost /\ request[r].score # request[q].score
    BY <1>2 DEF Inv, Requests
  <2>2. QED
    BY <1>1, <1>2, <1>3, <1>4, <2>1, RequestsAfter DEF Inv
<1>8. ReadsCover' /\ Marks'
  <2>0. OthersCover(q) /\ CoversNow(state)
    BY <1>1, <1>3, <1>6, OthersSame DEF CoversNow
  <2>1. ReadsCover'
    BY <1>1, <2>0, ReadsAfter DEF Inv
  <2>2. DOMAIN stats \subseteq DOMAIN stats'
    BY <1>1 DEF WithRow
  <2>3. overtaken \subseteq {r \in Request : request'[r].at = "read"}
    BY <1>1 DEF Inv, Requests, Marks, Goes
  <2>4. QED
    BY <1>1, <2>1, <2>2, <2>3 DEF Inv, Marks
<1>9. Typed' /\ RowsExist' /\ RowsRight'
  <2>1. CASE stats' = stats
    <3>1. Typed'
      BY <1>1, <2>1 DEF Inv, Typed
    <3>2. QED
      BY <1>1, <1>6, <2>1, <3>1, AllKept DEF Inv
  <2>2. CASE stats' = WithRow(RowOf(request[q].score))
    <3>1. RowOf(request[q].score) \in User \X StatsModes
      BY <1>2, RowTypes
    <3>2. QED
      BY <1>1, <1>6, <2>2, <3>1, WithRowKeeps DEF Inv
  <2>3. QED
    BY <1>1, <2>1, <2>2
<1>10. QED
  BY <1>7, <1>8, <1>9 DEF Inv

LEMMA ReadKeeps ==
  ASSUME Inv, NEW q \in Request, ReadBest(q)
  PROVE  Inv'
<1> DEFINE s == request[q].score
           best == BestOf(ScoresFor(s.user, s.play.mode, s.relax))
           state == [at |-> "read", score |-> s, best |-> best]
<1>1. /\ request[q].at = "ensured" /\ Goes(q, state)
      /\ stats' = stats /\ scores' = scores /\ lost' = lost
      /\ overtaken' = overtaken /\ behind' = behind
  BY DEF ReadBest
<1>2. request[q] # Idle /\ s \in scores \ lost /\ s \in Score
  BY <1>1 DEF Inv, Requests, Typed, Idle
<1>3. IsFiniteSet(best) /\ best \subseteq Best
  <2> DEFINE ss == ScoresFor(s.user, s.play.mode, s.relax)
  <2>1. ss \subseteq Score /\ IsFiniteSet(ss)
    BY FiniteSelection DEF Inv
  <2> HIDE DEF ss
  <2>2. IsFiniteSet(BestOf(ss)) /\ BestOf(ss) \subseteq Best
    BY <2>1, BestShows
  <2>3. QED
    BY <2>2 DEF ss
<1>4. /\ state \in Submission /\ state # Idle /\ state.at = "read" /\ state.score = s
      /\ state.best = best
  <2> HIDE DEF best, s
  <2>1. QED
    BY <1>2, <1>3 DEF Submission, Idle
<1> HIDE DEF state
<1>5. InFlight' = InFlight
  BY <1>1, <1>2, <1>4, MovedOn DEF Inv
<1>6. Counted' = Counted
  BY <1>1, <1>5 DEF Counted
<1>7. Requests'
  <2>1. \A r \in Request \ {q} : request[r] # Idle =>
            request[r].score \in scores \ lost /\ request[r].score # request[q].score
    BY <1>2 DEF Inv, Requests
  <2> HIDE DEF best
  <2>2. QED
    BY <1>1, <1>2, <1>3, <1>4, <2>1, RequestsAfter DEF Inv
<1>8. CoversNow(state)
  <2> SUFFICES ASSUME NEW t, t = state.score, NEW k, k = RowOf(t)
               PROVE  Mixed(k)' \/ Shows(state.best, RowScores(k)', CountedIn(k)' \cup {t})
    BY DEF CoversNow
  <2> DEFINE ss == ScoresFor(t.user, t.play.mode, t.relax)
  <2>0. t = s /\ t \in scores \ lost
    BY <1>2, <1>4
  <2>1. ss \subseteq Score /\ IsFiniteSet(ss)
    BY FiniteSelection DEF Inv
  <2>2. Mixed(k) \/ ss = RowScores(k)
    BY <2>0, ScoresOfSame DEF Inv
  <2>3. CountedIn(k) \cup {t} \subseteq RowScores(k)
    BY <2>0 DEF CountedIn, Counted, RowScores
  <2>4. RowScores(k)' = RowScores(k) /\ CountedIn(k)' = CountedIn(k) /\ (Mixed(k)' <=> Mixed(k))
    BY <1>1, <1>6 DEF RowScores, CountedIn, Mixed
  <2>5. state.best = BestOf(ss)
    BY <1>4, <2>0
  <2> HIDE DEF best, ss
  <2>6. Shows(BestOf(ss), ss, ss)
    BY <2>1, BestShows DEF Shows
  <2>7. Mixed(k) \/ Shows(BestOf(ss), RowScores(k), CountedIn(k) \cup {t})
    BY <2>2, <2>3, <2>6, ShowsMore
  <2>8. QED
    BY <2>4, <2>5, <2>7
<1>11. ReadsCover'
  <2>1. OthersCover(q)
    BY <1>1, <1>6, OthersSame
  <2>2. QED
    BY <1>1, <1>8, <2>1, ReadsAfter DEF Inv
<1>0. Marks'
  BY <1>1, <1>4 DEF Inv, Requests, Marks, Goes
<1>9. Typed' /\ RowsExist' /\ RowsRight'
  <2>1. Typed'
    BY <1>1 DEF Inv, Typed
  <2>2. QED
    BY <1>1, <1>6, <2>1, AllKept DEF Inv
<1>10. QED
  BY <1>0, <1>7, <1>9, <1>11 DEF Inv

\* A submission that ends: what that leaves of the submissions and of the histories.
LEMMA EndKeeps ==
  ASSUME Inv, NEW q \in Request, request[q] # Idle, Goes(q, Idle),
         scores' = scores, lost' \subseteq lost \cup {request[q].score}, lost \subseteq lost',
         DOMAIN stats' = DOMAIN stats, behind' \subseteq DOMAIN stats,
         overtaken' \subseteq {r \in Request : request[r].at = "read"} \ {q},
         OthersCover(q)
  PROVE  Requests' /\ ReadsCover' /\ Marks'
<1>1. \A r \in Request \ {q} : request[r] # Idle => request[r].score \notin lost'
  BY DEF Inv, Requests
<1>2. Requests'
  BY <1>1, RequestsAfter DEF Inv
<1>3. CoversNow(Idle)
  BY DEF CoversNow, Idle
<1>4. ReadsCover'
  BY <1>3, ReadsAfter DEF Inv
<1>5. Marks'
  BY DEF Inv, Requests, Marks, Goes
<1>6. QED
  BY <1>2, <1>4, <1>5

\* A submission that gives its score up completes nothing.
LEMMA GivenUp ==
  ASSUME Inv, NEW q \in Request, request[q] # Idle, Goes(q, Idle),
         scores' = scores, behind' = behind, overtaken' = overtaken \ {q}, stats' = stats,
         lost' = lost \cup {request[q].score}
  PROVE  Inv'
<1>1. request[q].score \in scores
  BY DEF Inv, Requests
<1>2. Typed'
  BY <1>1 DEF Inv, Typed
<1>3. Counted' = Counted
  BY Ended DEF Inv, Counted
<1>4. RowsExist' /\ RowsRight'
  BY <1>3, AllKept DEF Inv
<1>5. OthersCover(q)
  BY <1>3, OthersSame
<1>6. /\ behind' \subseteq DOMAIN stats
      /\ overtaken' \subseteq {r \in Request : request[r].at = "read"} \ {q}
  BY DEF Inv, Marks
<1>7. Requests' /\ ReadsCover' /\ Marks'
  BY <1>5, <1>6, EndKeeps
<1>8. QED
  BY <1>2, <1>4, <1>7 DEF Inv

LEMMA FailKeeps ==
  ASSUME Inv, NEW q \in Request, Fail(q)
  PROVE  Inv'
BY GivenUp DEF Fail

LEMMA UpdateKeeps ==
  ASSUME Inv, NEW q \in Request, UpdateStats(q)
  PROVE  Inv'
<1> SUFFICES ASSUME NEW s, NEW k, NEW best,
                    s = request[q].score, k = RowOf(s), best = request[q].best
             PROVE  Inv'
  OBVIOUS
<1>1. /\ request[q].at = "read" /\ Goes(q, Idle) /\ scores' = scores
      /\ \/ /\ k \in DOMAIN stats /\ stats' = [stats EXCEPT ![k] = Updated(@, s, best)]
            /\ overtaken' = (overtaken \cup Reading(k)) \ {q}
            /\ behind' = IF q \in overtaken THEN behind \cup {k} ELSE behind \ {k}
            /\ lost' = lost
         \/ /\ stats' = stats /\ lost' = lost \cup {s}
            /\ overtaken' = overtaken \ {q} /\ behind' = behind
  BY DEF UpdateStats
<1>2. request[q] # Idle /\ s \in scores \ lost /\ s \in Score
  BY <1>1 DEF Inv, Requests, Typed, Idle
<1>3. CASE /\ stats' = stats /\ lost' = lost \cup {s}
           /\ overtaken' = overtaken \ {q} /\ behind' = behind
  BY <1>1, <1>2, <1>3, GivenUp
<1>4. CASE /\ k \in DOMAIN stats /\ lost' = lost
           /\ stats' = [stats EXCEPT ![k] = Updated(@, s, best)]
           /\ overtaken' = (overtaken \cup Reading(k)) \ {q}
           /\ behind' = IF q \in overtaken THEN behind \cup {k} ELSE behind \ {k}
  <2>1. /\ DOMAIN stats' = DOMAIN stats /\ stats'[k] = Updated(stats[k], s, best)
        /\ \A j \in DOMAIN stats : j # k => stats'[j] = stats[j]
    BY <1>4
  <2>3. InFlight' = InFlight \ {s} /\ s \in InFlight
    BY <1>1, <1>2, Ended DEF Inv
  <2>4. Counted' = Counted \cup {s} /\ s \notin Counted
    BY <1>1, <1>2, <1>4, <2>3 DEF Counted
  <2>5. /\ CountedIn(k)' = CountedIn(k) \cup {s} /\ s \notin CountedIn(k)
        /\ \A j : j # k => CountedIn(j)' = CountedIn(j)
    BY <2>4 DEF CountedIn
  <2>6. IsFiniteSet(best) /\ best \subseteq Best
    BY <1>1, <1>2 DEF Inv, Requests, Submission
  <2>2. Requests' /\ ReadsCover' /\ Marks'
    <3>1. /\ behind' \subseteq DOMAIN stats
          /\ overtaken' \subseteq {r \in Request : request[r].at = "read"} \ {q}
      BY <1>4 DEF Inv, Marks, Reading
    <3>2. OthersCover(q)
      BY <1>4, <2>5 DEF Reading, OthersCover
    <3>3. lost' \subseteq lost \cup {request[q].score} /\ lost \subseteq lost'
      BY <1>4
    <3>4. request[q] # Idle /\ Goes(q, Idle) /\ scores' = scores /\ DOMAIN stats' = DOMAIN stats
      BY <1>1, <1>2, <2>1
    <3>5. QED
      BY ONLY <3>1, <3>2, <3>3, <3>4, Inv, q \in Request, EndKeeps
  <2>7. k \in behind' \/ Mixed(k) \/ Shows(best, RowScores(k), CountedIn(k) \cup {s})
    BY <1>1, <1>4 DEF Inv, ReadsCover
  <2>8. RowRight(k)
    BY <1>4 DEF Inv, RowsRight
  <2>9. RowRight(k)'
    <3>1. s \in scores
      BY <1>2
    <3>2. Typed /\ k \in DOMAIN stats
      BY <1>4 DEF Inv
    <3>3. k = RowOf(s)
      OBVIOUS
    <3>4. QED
      BY ONLY <1>1, <2>1, <2>5, <2>7, <2>8, <3>1, <3>2, <3>3, RowUpdated
  <2>10. Updated(stats[k], s, best) \in Row /\ Updated(stats[k], s, best).best = best
    <3> DEFINE ss == ScoresFor(s.user, s.play.mode, s.relax)
    <3>1. ss \subseteq Score /\ IsFiniteSet(ss)
      BY FiniteSelection DEF Inv
    <3> HIDE DEF ss
    <3>2. HighestScore(ss) \in Nat
      BY <3>1, HighestShown
    <3>3. stats[k].play_count \in Nat /\ stats[k].total_score \in Nat
      BY <1>4 DEF Inv, Typed, Row
    <3>4. s.play.score \in Nat
      BY <1>2, PlayTypes
    <3>5. stats[k].play_count + 1 \in Nat /\ stats[k].total_score + s.play.score \in Nat
      BY <3>3, <3>4
    <3>6. QED
      BY <2>6, <3>2, <3>5 DEF Updated, Row, ss
  <2>11. Typed'
    BY <1>1, <1>4, <2>1, <2>6, <2>10 DEF Inv, Typed
  <2>0. Goes(q, Idle) /\ scores' = scores
    BY <1>1
  <2>12. ASSUME NEW j \in DOMAIN stats, j # k PROVE RowRight(j)'
    <3>1. /\ RowRight(j) /\ stats'[j] = stats[j] /\ CountedIn(j)' = CountedIn(j)
          /\ scores \subseteq scores' /\ lost \subseteq lost' /\ (j \in behind => j \in behind')
      BY <1>4, <2>0, <2>1, <2>5, <2>12 DEF Inv, RowsRight
    <3>2. QED
      BY <3>1, RowKept
  <2>13. RowsRight'
    BY <2>1, <2>9, <2>12 DEF RowsRight
  <2>14. RowsExist'
    BY <1>4, <2>1, <2>4 DEF Inv, RowsExist
  <2>15. QED
    BY <2>2, <2>11, <2>13, <2>14 DEF Inv
<1>5. QED
  BY <1>1, <1>3, <1>4

LEMMA CreateKeeps ==
  ASSUME Inv, NEW u \in User, NEW mode \in StatsModes, GetOrCreateStats(u, mode)
  PROVE  Inv'
<1>1. /\ stats' = WithRow(<<u, mode>>) /\ scores' = scores /\ request' = request
      /\ lost' = lost /\ overtaken' = overtaken /\ behind' = behind
  BY DEF GetOrCreateStats
<1>2. InFlight' = InFlight
  BY <1>1 DEF InFlight
<1>3. Counted' = Counted
  BY <1>1, <1>2 DEF Counted
<1>4. <<u, mode>> \in User \X StatsModes
  OBVIOUS
<1>5. Typed' /\ RowsExist' /\ RowsRight'
  BY <1>1, <1>3, <1>4, WithRowKeeps DEF Inv
<1>6. Requests'
  BY <1>1 DEF Inv, Requests
<1>7. ReadsCover' /\ Marks'
  <2>1. \A k : CountedIn(k)' = CountedIn(k)
    BY <1>3, CountedSame
  <2>2. \A k : RowScores(k)' = RowScores(k)
    BY <1>1 DEF RowScores
  <2>3. \A k : Mixed(k)' <=> Mixed(k)
    BY <2>2 DEF Mixed
  <2>4. ReadsCover'
    BY <1>1, <2>1, <2>2, <2>3 DEF Inv, ReadsCover
  <2>5. DOMAIN stats \subseteq DOMAIN stats'
    BY <1>1 DEF WithRow
  <2>6. QED
    BY <1>1, <2>4, <2>5 DEF Inv, Marks
<1>8. QED
  BY <1>5, <1>6, <1>7 DEF Inv

\* The recalculation of a row shows the plays of stopped submissions, without counting
\* them; a row that it fails for stays as right, or as far behind, as it was.
LEMMA RestartKeeps ==
  ASSUME Inv, Restart
  PROVE  Inv'
<1> PICK redone \in SUBSET DOMAIN stats :
          /\ stats' = [k \in DOMAIN stats |-> IF k \in redone THEN Recalculated(k) ELSE stats[k]]
          /\ behind' = behind \ redone
  BY DEF Restart
<1>1. /\ lost' = lost \cup InFlight /\ request' = [q \in Request |-> Idle]
      /\ scores' = scores /\ overtaken' = {}
  BY DEF Restart
<1>2. InFlight \subseteq scores
  BY UnderWay DEF Inv, Requests
<1>3. InFlight' = {}
  BY <1>1 DEF InFlight
<1>4. Counted' = Counted
  BY <1>1, <1>3 DEF Counted
<1>5. \A k : CountedIn(k)' = CountedIn(k)
  BY <1>4 DEF CountedIn
<1>6. ASSUME NEW k \in DOMAIN stats PROVE RowRight(k)'
  <2>1. RowRight(k)
    BY DEF Inv, RowsRight
  <2>2. CASE k \in redone
    <3>1. stats'[k] = Recalculated(k)
      BY <2>2
    <3>2. lost' = {} => CountedIn(k) = RowScores(k)
      BY <1>1 DEF CountedIn, Counted, RowScores
    <3>3. QED
      BY <1>1, <1>5, <2>1, <3>1, <3>2, RowRecalculated DEF Inv
  <2>3. CASE k \notin redone
    <3>1. stats'[k] = stats[k] /\ (k \in behind => k \in behind')
      BY <2>3
    <3>2. QED
      BY <1>1, <1>5, <2>1, <3>1, RowKept
  <2>4. QED
    BY <2>2, <2>3
<1>7. ASSUME NEW k \in DOMAIN stats
      PROVE  Recalculated(k) \in Row /\ IsFiniteSet(Recalculated(k).best)
  <2> DEFINE ss == ScoresFor(k[1], k[2][1], k[2][2])
  <2>1. ss \subseteq Score /\ IsFiniteSet(ss)
    BY FiniteSelection DEF Inv
  <2>2. stats[k] \in Row
    BY DEF Inv, Typed
  <2>3. Recalculated(k) = [stats[k] EXCEPT !.best = BestOf(ss), !.ranked_score = HighestScore(ss)]
    BY DEF Recalculated
  <2> HIDE DEF ss
  <2>4. HighestScore(ss) \in Nat /\ IsFiniteSet(BestOf(ss)) /\ BestOf(ss) \subseteq Best
    BY <2>1, HighestShown, BestShows
  <2>5. QED
    BY <2>2, <2>3, <2>4 DEF Row
<1>8. /\ DOMAIN stats' = DOMAIN stats
      /\ \A k \in DOMAIN stats : stats'[k] = Recalculated(k) \/ stats'[k] = stats[k]
  OBVIOUS
<1>9. Typed'
  BY <1>1, <1>2, <1>7, <1>8 DEF Inv, Typed
<1>10. Requests' /\ ReadsCover' /\ Marks'
  BY <1>1, <1>8 DEF Inv, Requests, ReadsCover, Marks, Idle
<1>11. RowsExist' /\ RowsRight'
  BY <1>4, <1>6, <1>8 DEF Inv, RowsExist, RowsRight
<1>12. QED
  BY <1>9, <1>10, <1>11 DEF Inv

-----------------------------------------------------------------------------
(* The theorems *)

LEMMA InitInv == Init => Inv
<1> SUFFICES ASSUME Init PROVE Inv
  OBVIOUS
<1>1. Typed
  BY FS_EmptySet DEF Init, Typed
<1>2. Requests /\ ReadsCover /\ Marks
  BY DEF Init, Requests, ReadsCover, Marks, Idle
<1>3. RowsExist /\ RowsRight
  BY DEF Init, RowsExist, RowsRight, Counted
<1>4. QED
  BY <1>1, <1>2, <1>3 DEF Inv

LEMMA NextInv == Inv /\ [Next]_vars => Inv'
<1> SUFFICES ASSUME Inv, [Next]_vars PROVE Inv'
  OBVIOUS
<1>1. CASE UNCHANGED vars
  <2>1. /\ scores' = scores /\ stats' = stats /\ request' = request
        /\ lost' = lost /\ overtaken' = overtaken /\ behind' = behind
    BY <1>1 DEF vars
  <2>2. InFlight' = InFlight
    BY <2>1 DEF InFlight
  <2>3. Counted' = Counted
    BY <2>1, <2>2 DEF Counted
  <2>4. RowsExist' /\ RowsRight'
    BY <2>1, <2>3, AllKept DEF Inv
  <2>5. Typed' /\ Requests'
    BY <2>1 DEF Inv, Typed, Requests
  <2>6. ReadsCover' /\ Marks'
    <3>1. \A k : CountedIn(k)' = CountedIn(k) /\ RowScores(k)' = RowScores(k)
      BY <2>1, <2>3, CountedSame DEF RowScores
    <3>2. \A k : Mixed(k)' <=> Mixed(k)
      BY <3>1 DEF Mixed
    <3>3. QED
      BY <2>1, <3>1, <3>2 DEF Inv, ReadsCover, Marks
  <2>7. QED
    BY <2>4, <2>5, <2>6 DEF Inv
<1>2. CASE Next
  <2>1. ASSUME NEW q \in Request, EnsureStats(q) PROVE Inv'
    BY <2>1, EnsureKeeps
  <2>2. ASSUME NEW q \in Request, ReadBest(q) PROVE Inv'
    BY <2>2, ReadKeeps
  <2>3. ASSUME NEW q \in Request, UpdateStats(q) PROVE Inv'
    BY <2>3, UpdateKeeps
  <2>4. ASSUME NEW q \in Request, Fail(q) PROVE Inv'
    BY <2>4, FailKeeps
  <2>5. ASSUME NEW q \in Request, NEW u \in User, NEW p \in Play, NEW x \in BOOLEAN,
               InsertScore(q, u, p, x)
        PROVE  Inv'
    BY <2>5, InsertKeeps
  <2>6. ASSUME NEW u \in User, NEW mode \in StatsModes, GetOrCreateStats(u, mode) PROVE Inv'
    BY <2>6, CreateKeeps
  <2>7. ASSUME Restart PROVE Inv'
    BY <2>7, RestartKeeps
  <2>8. QED
    BY <1>2, <2>1, <2>2, <2>3, <2>4, <2>5, <2>6, <2>7 DEF Next
<1>3. QED
  BY <1>1, <1>2

\* Submissions have scores of their own, rows say what was counted, and what was read
\* covers it until it is overtaken: save_score, recalculate_user_stats and get_or_create_stats keep it so.
THEOREM Invariance == Spec => []Inv
BY InitInv, NextInv, PTL DEF Spec

LEMMA InvTypes == Inv => TypeOK
BY DEF Inv, Typed, Requests, Marks, TypeOK, Row

\* The tables hold rows of users in one of the modes, and a submission a score that
\* save_score has inserted.
THEOREM TypeCorrect == Spec => []TypeOK
BY Invariance, InvTypes, PTL

LEMMA CountedOf == \A k : RowScores(k) \ (lost \cup InFlight) = CountedIn(k)
BY DEF RowScores, CountedIn, Counted

LEMMA InvCounts == Inv => CountedOnce
<1> SUFFICES ASSUME Inv, NEW k \in DOMAIN stats
             PROVE  LET counted == RowScores(k) \ (lost \cup InFlight)
                    IN  /\ stats[k].play_count = Cardinality(counted)
                        /\ stats[k].total_score = TotalOf(counted)
  BY DEF CountedOnce, TotalOf
<1>1. QED
  BY CountedOf DEF Inv, RowsRight, RowRight

\* The play count and the total score are those of the completed submissions, each once:
\* the UNIQUE checksum refuses a second, and the increments of one UPDATE do not get lost,
\* however many submissions interleave, fail or are cut off by a restart.
THEOREM PlaysCountOnce == Spec => []CountedOnce
BY Invariance, InvCounts, PTL

LEMMA InvRanked == Inv => RankedScoreShown
BY CountedOf DEF Inv, RowsRight, RowRight, RankedScoreShown

\* The ranked score is a score of the user, and no lower than that of any completed
\* submission: the subquery of the UPDATE reads it at the moment of writing.
THEOREM RankedScoreRight == Spec => []RankedScoreShown
BY Invariance, InvRanked, PTL

LEMMA InvBest == Inv => BestShown
BY CountedOf DEF Inv, RowsRight, RowRight, BestShown, ShowsBest

\* The points shown are those of the best completed scores, overlapping and interrupted
\* submissions and failed recalculations included, unless a submission was completed
\* between the read and the update that wrote the row last.
THEOREM BestIsShown == Spec => []BestShown
BY Invariance, InvBest, PTL

LEMMA PointsTypes ==
  ASSUME Inv
  PROVE  \A k \in DOMAIN stats :
           /\ Points(stats[k]) \in Nat /\ stats[k].ranked_score \in Nat
           /\ stats[k].play_count \in Nat /\ stats[k].total_score \in Nat
           /\ stats[k].best = {} => Points(stats[k]) = 0
<1> SUFFICES ASSUME NEW k \in DOMAIN stats
             PROVE  /\ Points(stats[k]) \in Nat /\ stats[k].ranked_score \in Nat
                    /\ stats[k].play_count \in Nat /\ stats[k].total_score \in Nat
                    /\ stats[k].best = {} => Points(stats[k]) = 0
  OBVIOUS
<1>1. stats[k] \in Row /\ IsFiniteSet(stats[k].best)
  BY DEF Inv, Typed
<1>2. stats[k].best \subseteq Best
  BY <1>1 DEF Row
<1>3. Points(stats[k]) = Sum(PointWeight, stats[k].best)
  BY <1>1, <1>2, PointsAreSum
<1>4. \A b \in stats[k].best : PointWeight[b] \in Nat
  BY <1>2, PlayTypes
<1>5. Sum(PointWeight, stats[k].best) \in Nat
  BY <1>1, <1>4, SumType
<1>6. QED
  BY <1>1, <1>3, <1>5, SumEmpty DEF Row

LEMMA InvRanks == Inv => RankIsPlace
<1> SUFFICES ASSUME Inv, lost = {}, NEW mode \in StatsModes, NEW u \in Listed(mode)
             PROVE  LET even == {v \in Listed(mode) :
                                   /\ ~ Above(stats[<<v, mode>>], stats[<<u, mode>>])
                                   /\ ~ Above(stats[<<u, mode>>], stats[<<v, mode>>])}
                    IN  UserRank(u, mode) = 1 + Cardinality(ShownAbove(u, mode) \ even)
  BY DEF RankIsPlace
<1> DEFINE row(v) == stats[<<v, mode>>]
           even == {v \in Listed(mode) : ~ Above(row(v), row(u)) /\ ~ Above(row(u), row(v))}
           A == {v \in User : {<<u, mode>>, <<v, mode>>} \subseteq DOMAIN stats /\ Above(row(v), row(u))}
           B == ShownAbove(u, mode) \ even
<1>1. u \in User /\ <<u, mode>> \in DOMAIN stats
  BY DEF Listed
<1>2. B = {v \in Listed(mode) : Above(row(v), row(u))}
  BY DEF ShownAbove, Precedes
<1>3. ASSUME NEW v \in User, <<v, mode>> \in DOMAIN stats, Above(row(v), row(u))
      PROVE  v \in Listed(mode)
  <2>1. CASE row(v).play_count > 0
    BY <1>3, <2>1 DEF Listed
  <2>2. CASE ~ (row(v).play_count > 0)
    <3>1. row(v).play_count = 0
      <4>1. row(v).play_count \in Nat
        BY <1>3, PointsTypes
      <4>2. QED
        BY <2>2, <4>1
    <3>2. row(v).best = {} /\ row(v).ranked_score = 0
      BY <1>3, <3>1 DEF Inv, RowsRight, RowRight
    <3>3. Points(row(v)) = 0
      BY <1>3, <3>2, PointsTypes
    <3>4. Points(row(u)) \in Nat /\ row(u).ranked_score \in Nat
      BY <1>1, PointsTypes
    <3>5. FALSE
      <4> HIDE DEF row
      <4>1. QED
        BY <1>3, <3>2, <3>3, <3>4 DEF Above
    <3>6. QED
      BY <3>5
  <2>3. QED
    BY <2>1, <2>2
<1>4. A = B
  <2>1. Listed(mode) = {v \in User : v \in Listed(mode) /\ <<v, mode>> \in DOMAIN stats}
    BY DEF Listed
  <2>2. QED
    BY <1>1, <1>2, <1>3, <2>1
<1>5. QED
  BY <1>4 DEF UserRank

\* The rank of get_user_rank is the place that get_leaderboard gives the user, unless a
\* submission stopped midway: users off the leaderboard have no points to be above with.
THEOREM RankIsThePlace == Spec => []RankIsPlace
BY Invariance, InvRanks, PTL
=============================================================================
