----------------------------- MODULE Beatmaps ------------------------------
(***************************************************************************)
(* What the server knows of beatmaps (db/beatmaps.rs): a table that caches *)
(* by checksum what the mirror answered, what the history of rounds says,  *)
(* and the file name that the game sends along when it asks for scores     *)
(* (get_scores of server/web.rs).  A map without a known id is answered as *)
(* beatmap 1, and the answer is cached, too.  Of a map only its id and     *)
(* whether it has a title are modelled.                                    *)
(***************************************************************************)
EXTENDS Naturals

CONSTANTS Maps,        \* checksums
          IdOf,        \* [Maps -> Nat], the ids the mirror knows
          Askers,      \* requests in flight at once
          MaxAsked,    \* bound on the requests
          NoRow

Placeholder == 1

ASSUME BeatmapsAssumption ==
    /\ IdOf \in [Maps -> Nat]
    /\ \A m \in Maps : IdOf[m] > Placeholder
    /\ MaxAsked \in Nat

VARIABLES known,       \* [Maps -> row of beatmaps or NoRow]
          played,      \* [Maps -> row of match_history or NoRow]
          ask,         \* [Askers -> request in flight]
          asked        \* requests so far

beatmapVars == <<known, played, ask, asked>>

Meta     == [id : Nat, titled : BOOLEAN]
NoMeta   == [id |-> 0, titled |-> FALSE]
NotAsking == [step |-> "idle"]

BeatmapsInit ==
    /\ known = [m \in Maps |-> NoRow]
    /\ played = [m \in Maps |-> NoRow]
    /\ ask = [r \in Askers |-> NotAsking]
    /\ asked = 0

\* save_beatmap: what is new wins where it says something
Merged(old, new) ==
    IF old = NoRow THEN new
    ELSE [id |-> IF new.id > 0 THEN new.id ELSE old.id,
          titled |-> new.titled \/ old.titled]

\* its errors are ignored by every caller
SaveMap(m, meta) ==
    \/ known' = [known EXCEPT ![m] = Merged(@, meta)]
    \/ UNCHANGED known

AskGoes(r, step) == ask' = [ask EXCEPT ![r].step = step]
Resolved(r, step, meta) ==
    ask' = [ask EXCEPT ![r].step = step, ![r].meta = meta]

\* get_scores with or without a file name, which may give no title; the
\* answer to a submitted score and the profile page resolve the map only
Ask(r, m, file) ==
    /\ ask[r].step = "idle" /\ asked < MaxAsked
    /\ asked' = asked + 1
    /\ ask' = [ask EXCEPT ![r] = [step |-> "look", map |-> m, file |-> file,
                                  meta |-> NoMeta]]
    /\ UNCHANGED <<known, played>>

\* a cached row with a title is the answer
Look(r) ==
    LET row == known[ask[r].map]
        hit == row # NoRow /\ row.titled
    IN /\ ask[r].step = "look"
       /\ \/ hit /\ Resolved(r, "answer", row)
          \/ ~hit /\ AskGoes(r, "history")
       /\ UNCHANGED <<known, played, asked>>

\* a query that fails finds nothing
LookFails(r) ==
    /\ ask[r].step = "look"
    /\ AskGoes(r, "history")
    /\ UNCHANGED <<known, played, asked>>

\* a round that was played on the map names it
AskHistory(r) ==
    /\ ask[r].step = "history"
    /\ LET m == ask[r].map
       IN \/ AskGoes(r, "mirror") /\ UNCHANGED known
          \/ played[m] # NoRow /\ SaveMap(m, played[m]) /\ AskGoes(r, "reread")
    /\ UNCHANGED <<played, asked>>

Reread(r) ==
    /\ ask[r].step = "reread"
    /\ \/ LET row == known[ask[r].map]
          IN row # NoRow /\ Resolved(r, "answer", row)
       \/ AskGoes(r, "mirror")
    /\ UNCHANGED <<known, played, asked>>

\* the mirror answers, with an id or a set left out, or fails within the
\* three seconds it has
AskMirror(r) ==
    /\ ask[r].step = "mirror"
    /\ \/ \E id \in {0, IdOf[ask[r].map]}, t \in BOOLEAN :
             Resolved(r, "save", [id |-> id, titled |-> t])
       \/ AskGoes(r, "answer")
    /\ UNCHANGED <<known, played, asked>>

SaveMirrored(r) ==
    /\ ask[r].step = "save"
    /\ SaveMap(ask[r].map, ask[r].meta)
    /\ AskGoes(r, "answer")
    /\ UNCHANGED <<played, asked>>

\* every answer names the placeholder
MUTANT_AnswerId(meta) == Placeholder

\* the id in the answer
AnswerId(meta) == IF meta.id > 0 THEN meta.id ELSE Placeholder

\* get_scores keeps the name and the id of its answer
AnswerScores(r) ==
    /\ ask[r].step = "answer"
    /\ IF ask[r].file = "none" THEN UNCHANGED known
       ELSE SaveMap(ask[r].map, [id |-> AnswerId(ask[r].meta),
                                 titled |-> ask[r].file = "titled"])
    /\ ask' = [ask EXCEPT ![r] = NotAsking]
    /\ UNCHANGED <<played, asked>>

\* save_match_result: a round ends whose host's client knew the id or not
Play(m, id) ==
    /\ played[m] = NoRow
    /\ played' = [played EXCEPT ![m] = [id |-> id, titled |-> TRUE]]
    /\ UNCHANGED <<known, ask, asked>>

Files == {"none", "titled", "untitled"}

BeatmapsNext ==
    \/ \E r \in Askers :
          \/ \E m \in Maps, f \in Files : Ask(r, m, f)
          \/ Look(r) \/ LookFails(r) \/ AskHistory(r) \/ Reread(r) \/ AskMirror(r)
          \/ SaveMirrored(r) \/ AnswerScores(r)
    \/ \E m \in Maps : \E id \in {0, IdOf[m]} : Play(m, id)

BeatmapsSpec == BeatmapsInit /\ [][BeatmapsNext]_beatmapVars

-----------------------------------------------------------------------------

Question == {NotAsking} \cup
    [step : {"look", "history", "reread", "mirror", "save", "answer"},
     map : Maps, file : Files, meta : Meta]

BeatmapsTypeOK ==
    /\ known \in [Maps -> Meta \cup {NoRow}]
    /\ played \in [Maps -> Meta \cup {NoRow}]
    /\ ask \in [Askers -> Question]
    /\ asked \in 0..MaxAsked

\* m is cached with a title and its own id
RowFound(m) == known[m] # NoRow /\ known[m].titled /\ known[m].id = IdOf[m]

\* w is not about m, has yet to look, or is about to write m's own id
Harmless(w, m) ==
    \/ w.step \in {"idle", "look"}
    \/ w.map # m
    \/ w.step \in {"save", "answer"} /\ w.meta.id = IdOf[m]

Found(m) == RowFound(m) /\ \A r \in Askers : Harmless(ask[r], m)

(* Found is for good: once a map is cached with a title and its own id, and *)
(* the requests that began to resolve it before are through or know the id, *)
(* too, everybody is answered with it and nobody writes the placeholder     *)
(* over it, whatever the mirror, the history of rounds and the file names   *)
(* say and whichever save fails.  Only a failed look at the row, which      *)
(* sends a request on to the mirror, can undo it.                           *)
FoundStays ==
    [][\A m \in Maps :
          Found(m) => \/ Found(m)'
                      \/ \E r \in Askers : LookFails(r) /\ ask[r].map = m]_beatmapVars
=============================================================================
