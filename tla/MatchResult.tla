----------------------------- MODULE MatchResult -----------------------------
(***************************************************************************)
(* The result of a round, as try_finish_match computes it                  *)
(* (src/bancho/handler.rs): one pass over the slots that collects a score  *)
(* of every seated player and the best of them, one over the scores that   *)
(* totals the teams, and the marking of the winners.  It runs under the    *)
(* lock: the steps are those of its loops.                                 *)
(*                                                                         *)
(* Of a score frame only the total score counts, whatever the room's       *)
(* scoring type.  Clients send it, as a signed integer.                    *)
(***************************************************************************)
EXTENDS Integers, FiniteSetsExt

CONSTANTS
    User,
    Nobody,       \* the user id of an empty slot, and of no winner: -1
    MaxSlot,      \* slots are 0 .. MaxSlot
    Score         \* total scores that clients report

ASSUME MatchResultAssumption ==
    /\ Nobody \notin User
    /\ MaxSlot \in Nat
    /\ Score \subseteq Int

VARIABLES
    slots,           \* slot -> who sits in it and in which team
    last_scores,     \* the total score in the last frame of those who sent one
    team_vs,         \* is the room's team type TEAM_VS?
    at,              \* which loop runs: "scores", "teams", "winners" or "done"
    i,               \* the slot that it has come to
    match_scores,
    highest_score,
    winner_id,
    blue_score,
    red_score

input == <<slots, last_scores, team_vs>>
vars == <<input, at, i, match_scores, highest_score, winner_id, blue_score, red_score>>

Slot == 0 .. MaxSlot
Team == {"neutral", "blue", "red"}
Seated == {s \in Slot : slots[s].user_id # Nobody}

NewMatchScore ==
    [user_id : User, slot_id : Slot, team : Team, score : Score \cup {0}, passed : BOOLEAN, won : BOOLEAN]

-----------------------------------------------------------------------------

\* Anyone may sit anywhere, once (Multiplayer!OneSeat), and frames are kept of players
\* who have left and may be missing of players who have not.
Init ==
    /\ slots \in [Slot -> [user_id : User \cup {Nobody}, team : Team]]
    /\ \A s \in Slot : slots[s].user_id = Nobody => slots[s].team = "neutral"
    /\ \A s, r \in Seated : slots[s].user_id = slots[r].user_id => s = r
    /\ \E reporters \in SUBSET User : last_scores \in [reporters -> Score]
    /\ team_vs \in BOOLEAN
    /\ at = "scores"
    /\ i = 0
    /\ match_scores = {}
    /\ highest_score = -1
    /\ winner_id = Nobody
    /\ blue_score = 0
    /\ red_score = 0

\* The loop goes on to the next slot, and then to the next loop.
MUTANT_OneTooFar(next) ==
    IF i =< MaxSlot THEN i' = i + 1 /\ UNCHANGED at ELSE i' = 0 /\ at' = next
Advance(next) ==
    IF i < MaxSlot THEN i' = i + 1 /\ UNCHANGED at ELSE i' = 0 /\ at' = next

\* The score of the player in slot s: zero, and not passed, without a frame.
ScoreOf(s) ==
    LET u        == slots[s].user_id
        reported == u \in DOMAIN last_scores
    IN  [user_id |-> u, slot_id |-> s, team |-> slots[s].team,
         score |-> IF reported THEN last_scores[u] ELSE 0, passed |-> reported, won |-> FALSE]

MUTANT_OrEqual(score) == score >= highest_score
IsBest(score) == score > highest_score

CollectScore ==
    /\ at = "scores"
    /\ IF i \in Seated
       THEN /\ match_scores' = match_scores \cup {ScoreOf(i)}
            /\ IF IsBest(ScoreOf(i).score)
               THEN highest_score' = ScoreOf(i).score /\ winner_id' = slots[i].user_id
               ELSE UNCHANGED <<highest_score, winner_id>>
       ELSE UNCHANGED <<match_scores, highest_score, winner_id>>
    /\ Advance(IF team_vs THEN "teams" ELSE "winners")
    /\ UNCHANGED <<input, blue_score, red_score>>

\* The total of a team after slot i.
Total(total, team) ==
    total + MapThenSumSet(LAMBDA sc : sc.score, {sc \in match_scores : sc.slot_id = i /\ sc.team = team})

TotalTeams ==
    /\ at = "teams"
    /\ blue_score' = Total(blue_score, "blue")
    /\ red_score' = Total(red_score, "red")
    /\ Advance("winners")
    /\ UNCHANGED <<input, match_scores, highest_score, winner_id>>

WinningTeam ==
    IF blue_score > red_score THEN "blue" ELSE IF red_score > blue_score THEN "red" ELSE "neutral"

MUTANT_EvenInDraw(sc) == IF team_vs THEN sc.team = WinningTeam ELSE sc.user_id = winner_id
Wins(sc) ==
    IF team_vs THEN sc.team = WinningTeam /\ WinningTeam # "neutral" ELSE sc.user_id = winner_id

MarkWinners ==
    /\ at = "winners"
    /\ match_scores' = {[sc EXCEPT !.won = Wins(sc)] : sc \in match_scores}
    /\ at' = "done"
    /\ UNCHANGED <<input, i, highest_score, winner_id, blue_score, red_score>>

Next == CollectScore \/ TotalTeams \/ MarkWinners

Spec == Init /\ [][Next]_vars

-----------------------------------------------------------------------------
(* Properties *)

TypeOK ==
    /\ match_scores \subseteq NewMatchScore
    /\ i \in Slot
    /\ highest_score \in Int
    /\ winner_id \in User \cup {Nobody}
    /\ blue_score \in Int /\ red_score \in Int

Points(s) == ScoreOf(s).score

\* What a user of the results page would call the winner of the slots in S: the first
\* of the best scores, if there is one that is not negative.
Winner(S) ==
    LET best == {s \in S : Points(s) >= 0 /\ \A r \in S : Points(s) >= Points(r)}
    IN  IF best = {} THEN Nobody
        ELSE slots[CHOOSE s \in best : \A r \in best : s =< r].user_id

\* The saved result names that winner, teams or not, and it gives every seated player
\* one score: its last report, whoever left, joined late or never reported.
RightWinner ==
    at = "done" =>
        /\ winner_id = Winner(Seated)
        /\ {[sc EXCEPT !.won = FALSE] : sc \in match_scores} = {ScoreOf(s) : s \in Seated}

\* The side of the players who are marked as winners has strictly outscored the other
\* side, and has no loser.  Without teams that is one player and everybody else.
RightSideWon ==
    at = "done" =>
        LET Won        == {sc \in match_scores : sc.won}
            Sum(S)     == MapThenSumSet(LAMBDA sc : sc.score, S)
            In(team)   == {sc \in match_scores : sc.team = team}
        IN  IF team_vs
            THEN /\ Sum(In("blue")) > Sum(In("red")) => Won = In("blue")
                 /\ Sum(In("red")) > Sum(In("blue")) => Won = In("red")
                 /\ Sum(In("red")) = Sum(In("blue")) => Won = {}
            ELSE {sc.user_id : sc \in Won} = {Winner(Seated)} \ {Nobody}
=============================================================================
