-------------------------------- MODULE Scores --------------------------------
(***************************************************************************)
(* Submitted scores and the statistics made from them: submit_score        *)
(* (src/server/web.rs), save_score and the recalculation at startup        *)
(* (src/db/scores.rs), ranks and the leaderboard (src/db/users.rs).        *)
(*                                                                         *)
(* save_score is a series of statements without a transaction, and an      *)
(* action is one of them.  Submissions interleave, a statement may fail,   *)
(* and the process may stop between two of them.                           *)
(*                                                                         *)
(* The performance points and the accuracy of a row are weighted sums of   *)
(* a user's best scores; kept here are the points of the best score of     *)
(* each map, of which there are fewer than the hundred that count.  Modes  *)
(* are two: "osu" stands for the three that have a relaxed variant.        *)
(* Comparing the sums of points stands for comparing the weighted ones.    *)
(***************************************************************************)
EXTENDS Integers, FiniteSetsExt, Functions

CONSTANTS
    User,
    Request,   \* submissions that can be under way at once
    Play       \* what clients submit: [checksum, map, mode, relax, score, pp]

ASSUME ScoresAssumption ==
    \A p \in Play : /\ p.mode \in {"osu", "mania"} /\ p.relax \in BOOLEAN
                    /\ p.score \in Nat \ {0} /\ p.pp \in Nat

VARIABLES
    scores,    \* the rows of table scores
    stats,     \* the rows of table stats: <<user, statistics mode>> -> row
    request,   \* what each submission is doing
    lost,      \* history: scores whose submission stopped before it updated stats
    overtaken, \* history: submissions since whose read another of the row was completed
    behind     \* history: rows that one of those was the last to write

vars == <<scores, stats, request, lost, overtaken, behind>>

Score == [user : User, play : Play, relax : BOOLEAN]

\* Relaxed plays have statistics of their own, but in mania.
StatsModes == {<<"osu", FALSE>>, <<"osu", TRUE>>, <<"mania", FALSE>>}
MUTANT_AlwaysRelax(mode, relax) == <<mode, relax>>
StatsMode(mode, relax) == <<mode, relax /\ mode # "mania">>
RowOf(s) == <<s.user, StatsMode(s.play.mode, s.relax)>>

NewRow == [best |-> {}, ranked_score |-> 0, play_count |-> 0, total_score |-> 0]

Idle == [at |-> "idle"]
\* The submissions that have read and are about to write the row.
Reading(k) == {q \in Request : request[q].at = "read" /\ RowOf(request[q].score) = k}
InFlight == {request[q].score : q \in {r \in Request : request[r] # Idle}}
Goes(q, state) == request' = [request EXCEPT ![q] = state]

-----------------------------------------------------------------------------
(* Queries *)

\* The scores that the statistics of a mode are made from.
ScoresFor(u, mode, relax) == {s \in scores : s.user = u /\ s.play.mode = mode /\ s.relax = relax}

\* Of each map the points of the best score.
MUTANT_ByScore(ss) ==
    {[map |-> s.play.map, pp |-> s.play.pp] :
        s \in {t \in ss : \A k \in ss : k.play.map = t.play.map => k.play.score =< t.play.score}}
BestOf(ss) ==
    {[map |-> s.play.map, pp |-> s.play.pp] :
        s \in {t \in ss : \A k \in ss : k.play.map = t.play.map => k.play.pp =< t.play.pp}}

HighestScore(ss) == Max({0} \cup {s.play.score : s \in ss})

-----------------------------------------------------------------------------
(* save_score *)

Init ==
    /\ scores = {}
    /\ stats = [k \in {} |-> {}]
    /\ request = [q \in Request |-> Idle]
    /\ lost = {}
    /\ overtaken = {}
    /\ behind = {}

\* submit_score: the session of the user may have Relax on, which the play then counts as.
Submitted(u, p, session_is_relax) ==
    [user |-> u, play |-> p, relax |-> p.relax \/ session_is_relax]

\* A second score of the user with that checksum is refused, and so is its submission.
MUTANT_Accepts(u, p) == TRUE
IsNew(u, p) == \A s \in scores : s.user = u => s.play.checksum # p.checksum

InsertScore(q, u, p, session_is_relax) ==
    LET s == Submitted(u, p, session_is_relax)
    IN  /\ request[q] = Idle
        /\ IsNew(u, p)
        /\ scores' = scores \cup {s}
        /\ Goes(q, [at |-> "inserted", score |-> s])
        /\ UNCHANGED <<stats, lost, overtaken, behind>>

WithRow(k) == [j \in DOMAIN stats \cup {k} |-> IF j \in DOMAIN stats THEN stats[j] ELSE NewRow]

\* The failure of this statement is ignored.
EnsureStats(q) ==
    /\ request[q].at = "inserted"
    /\ stats' \in {stats, WithRow(RowOf(request[q].score))}
    /\ Goes(q, [request[q] EXCEPT !.at = "ensured"])
    /\ UNCHANGED <<scores, lost, overtaken, behind>>

ReadBest(q) ==
    LET s == request[q].score
    IN  /\ request[q].at = "ensured"
        /\ Goes(q, [at |-> "read", score |-> s,
                    best |-> BestOf(ScoresFor(s.user, s.play.mode, s.relax))])
        /\ UNCHANGED <<scores, stats, lost, overtaken, behind>>

\* One UPDATE with a subquery for the ranked score: it finds the row, or nothing.
MUTANT_Overwrites(row, s, best) ==
    [best |-> best, play_count |-> row.play_count + 1, total_score |-> row.total_score + s.play.score,
     ranked_score |-> s.play.score]
Updated(row, s, best) ==
    [best |-> best, play_count |-> row.play_count + 1, total_score |-> row.total_score + s.play.score,
     ranked_score |-> HighestScore(ScoresFor(s.user, s.play.mode, s.relax))]

UpdateStats(q) ==
    LET s == request[q].score
        k == RowOf(s)
    IN  /\ request[q].at = "read"
        /\ \/ /\ k \in DOMAIN stats
              /\ stats' = [stats EXCEPT ![k] = Updated(@, s, request[q].best)]
              /\ overtaken' = (overtaken \cup Reading(k)) \ {q}
              /\ behind' = IF q \in overtaken THEN behind \cup {k} ELSE behind \ {k}
              /\ UNCHANGED lost
           \/ /\ k \notin DOMAIN stats
              /\ lost' = lost \cup {s}
              /\ overtaken' = overtaken \ {q}
              /\ UNCHANGED <<stats, behind>>
        /\ Goes(q, Idle)
        /\ UNCHANGED scores

\* A statement fails, and the submission with it; what it has written stays.
Fail(q) ==
    /\ request[q] # Idle
    /\ lost' = lost \cup {request[q].score}
    /\ overtaken' = overtaken \ {q}
    /\ Goes(q, Idle)
    /\ UNCHANGED <<scores, stats, behind>>

-----------------------------------------------------------------------------
(* The other writers of statistics *)

\* Logins, profile pages and internal_stats_update look at statistics that may not exist.
GetOrCreateStats(u, mode) ==
    /\ stats' = WithRow(<<u, mode>>)
    /\ UNCHANGED <<scores, request, lost, overtaken, behind>>

\* recalculate_user_stats, of one row: what it counts stays as it is.
Recalculated(k) ==
    LET ss == ScoresFor(k[1], k[2][1], k[2][2])
    IN  [stats[k] EXCEPT !.best = BestOf(ss), !.ranked_score = HighestScore(ss)]

\* The process stops, and starts again: it recalculates before it takes requests.  The
\* failure of a row is ignored, and so is that of the whole.
Restart ==
    /\ lost' = lost \cup InFlight
    /\ request' = [q \in Request |-> Idle]
    /\ overtaken' = {}
    /\ \E redone \in SUBSET DOMAIN stats :
         /\ stats' = [k \in DOMAIN stats |-> IF k \in redone THEN Recalculated(k) ELSE stats[k]]
         /\ behind' = behind \ redone
    /\ UNCHANGED scores

Next ==
    \/ \E q \in Request :
         \/ EnsureStats(q) \/ ReadBest(q) \/ UpdateStats(q) \/ Fail(q)
         \/ \E u \in User, p \in Play, relax \in BOOLEAN : InsertScore(q, u, p, relax)
    \/ \E u \in User, mode \in StatsModes : GetOrCreateStats(u, mode)
    \/ Restart

Spec == Init /\ [][Next]_vars

-----------------------------------------------------------------------------
(* get_user_rank and get_leaderboard *)

Points(row) == MapThenSumSet(LAMBDA b : b.pp, row.best)

Above(a, b) == \/ Points(a) > Points(b)
               \/ Points(a) = Points(b) /\ a.ranked_score > b.ranked_score

\* One more than the users with more points, or as many and a higher ranked score.
MUTANT_ByPoints(u, mode) ==
    1 + Cardinality({v \in User : /\ {<<u, mode>>, <<v, mode>>} \subseteq DOMAIN stats
                                  /\ Points(stats[<<v, mode>>]) > Points(stats[<<u, mode>>])})
UserRank(u, mode) ==
    1 + Cardinality({v \in User : /\ {<<u, mode>>, <<v, mode>>} \subseteq DOMAIN stats
                                  /\ Above(stats[<<v, mode>>], stats[<<u, mode>>])})

\* The users on the leaderboard, and those of them that it shows above u for sure and
\* perhaps (it says nothing of users who are even in all three columns).
Listed(mode) ==
    {u \in User : /\ <<u, mode>> \in DOMAIN stats
                  /\ stats[<<u, mode>>].play_count > 0 \/ stats[<<u, mode>>].total_score > 0}
Precedes(a, b) == Above(a, b) \/ (~ Above(b, a) /\ a.play_count > b.play_count)
ShownAbove(u, mode) == {v \in Listed(mode) : Precedes(stats[<<v, mode>>], stats[<<u, mode>>])}

-----------------------------------------------------------------------------
(* Properties *)

\* The tables hold rows of users in one of the modes, and submissions scores that exist.
TypeOK ==
    /\ scores \subseteq Score /\ lost \subseteq scores
    /\ DOMAIN stats \subseteq User \X StatsModes
    /\ \A k \in DOMAIN stats : stats[k].play_count \in Nat /\ stats[k].total_score \in Nat
    /\ \A q \in Request : request[q] # Idle => request[q].score \in scores
    /\ overtaken \subseteq {q \in Request : request[q].at = "read"}
    /\ behind \subseteq DOMAIN stats

RowScores(k) == {s \in scores : RowOf(s) = k}

\* Mania rows also count relaxed plays, and then there are two kinds of scores in one row.
Mixed(k) == \E s \in RowScores(k) : s.relax # k[2][2]

\* Every play counts once, however often it is submitted and however submissions
\* interleave; only those whose submission stopped midway do not count.
CountedOnce ==
    \A k \in DOMAIN stats :
        LET counted == RowScores(k) \ (lost \cup InFlight)
        IN  /\ stats[k].play_count = Cardinality(counted)
            /\ stats[k].total_score = MapThenSumSet(LAMBDA s : s.play.score, counted)

\* Whatever interleaves, fails or crashes, the ranked score is a score of the user, and
\* no lower than any whose submission was completed.
RankedScoreShown ==
    \A k \in DOMAIN stats : ~ Mixed(k) =>
        /\ stats[k].ranked_score \in {0} \cup {s.play.score : s \in RowScores(k)}
        /\ \A s \in RowScores(k) \ (lost \cup InFlight) : stats[k].ranked_score >= s.play.score

\* Points that are those of scores in ss and, of each map, of none worse than one in done.
Shows(best, ss, done) ==
    /\ \A b \in best : \E s \in ss : s.play.map = b.map /\ s.play.pp = b.pp
    /\ \A s \in done : \E b \in best : b.map = s.play.map /\ b.pp >= s.play.pp
ShowsBest(k) == Shows(stats[k].best, RowScores(k), RowScores(k) \ (lost \cup InFlight))

\* However submissions overlap, fail or are cut off, and whatever the recalculation at
\* startup leaves undone, the points shown are those of scores that exist and of none
\* worse than a completed one, but in one case: a submission completed between the read
\* and the update of another, which then undid it, and the next update or recalculation
\* of the row makes up for that.
BestShown == \A k \in DOMAIN stats : ~ Mixed(k) /\ k \notin behind => ShowsBest(k)

\* The rank on a profile is the place on the leaderboard, but for users who are even in
\* points and ranked score, unless a submission stopped midway: the leaderboard leaves
\* out users without a counted play, and the rank does not.
RankIsPlace ==
    lost = {} =>
        \A mode \in StatsModes : \A u \in Listed(mode) :
            LET even == {v \in Listed(mode) : /\ ~ Above(stats[<<v, mode>>], stats[<<u, mode>>])
                                              /\ ~ Above(stats[<<u, mode>>], stats[<<v, mode>>])}
            IN  UserRank(u, mode) = 1 + Cardinality(ShownAbove(u, mode) \ even)

\* save_score: "Query user's best scores (top 100 per unique beatmap)", to "update user
\* stats" with them.
BestOfUser == \A k \in DOMAIN stats : k \notin behind => ShowsBest(k)
=============================================================================
