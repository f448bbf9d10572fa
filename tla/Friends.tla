------------------------------ MODULE Friends ------------------------------
(***************************************************************************)
(* Friends (db/friends.rs and the routes of server/frontend.rs): a table   *)
(* of pairs in a database of its own, to which one side adds and from      *)
(* which one side removes.  Every query is a step, so that the pair that a *)
(* request writes and the pair that it reads afterwards may be changed by  *)
(* the other side in between.                                              *)
(***************************************************************************)
EXTENDS Naturals

CONSTANTS Ids,         \* ids a request may name, of accounts or of none
          Registered,    \* ids of the users table
          Tabs,        \* requests in flight at once
          MaxClicks    \* bound on the requests

ASSUME FriendsAssumption == Registered \subseteq Ids /\ MaxClicks \in Nat

VARIABLES friends,     \* rows <<user, friend>>
          tab,         \* [Tabs -> request in flight]
          clicks,      \* requests so far
          told         \* history: [rows -> what the last add was answered]

friendVars == <<friends, tab, clicks, told>>

Row == Registered \X Ids

NoClick == [step |-> "idle"]

FriendsInit ==
    /\ friends = {}
    /\ tab = [t \in Tabs |-> NoClick]
    /\ clicks = 0
    /\ told = [row \in Row |-> "none"]

\* is_mutual_friend
Mutual(u, f) == <<u, f>> \in friends /\ <<f, u>> \in friends

Click(t, req) ==
    /\ tab[t].step = "idle" /\ clicks < MaxClicks
    /\ clicks' = clicks + 1
    /\ tab' = [tab EXCEPT ![t] = req]

\* add_friend_api up to the insertion: a name is looked up, an id is taken as
\* it is, of an account or not, and nobody befriends oneself
ClickAdd(t, u, f) ==
    /\ u # f
    /\ Click(t, [step |-> "add", user |-> u, friend |-> f])
    /\ UNCHANGED <<friends, told>>

\* add_friend, which an error may end
AddFriend(t) ==
    /\ tab[t].step = "add"
    /\ LET row == <<tab[t].user, tab[t].friend>>
       IN \/ /\ friends' = friends \cup {row}
             /\ tab' = [tab EXCEPT ![t].step = "tell"]
             /\ told' = [told EXCEPT ![row] = "none"]
          \/ /\ tab' = [tab EXCEPT ![t] = NoClick]
             /\ UNCHANGED <<friends, told>>
    /\ UNCHANGED clicks

\* the caller is compared with themselves
MUTANT_Tell(t) ==
    /\ tab[t].step = "tell"
    /\ LET row == <<tab[t].user, tab[t].friend>>
       IN told' = [told EXCEPT ![row] =
                      IF Mutual(row[1], row[1]) THEN "mutual" ELSE "added"]
    /\ tab' = [tab EXCEPT ![t] = NoClick]
    /\ UNCHANGED <<friends, clicks>>

\* the answer says whether the two are friends of each other; when the query
\* fails it says that they are not
Tell(t) ==
    /\ tab[t].step = "tell"
    /\ LET row == <<tab[t].user, tab[t].friend>>
       IN \E answer \in {IF Mutual(row[1], row[2]) THEN "mutual" ELSE "added",
                         "unsure"} :
             told' = [told EXCEPT ![row] = answer]
    /\ tab' = [tab EXCEPT ![t] = NoClick]
    /\ UNCHANGED <<friends, clicks>>

\* remove_friend_api, which does not tell the other side
ClickRemove(t, u, f) ==
    /\ Click(t, [step |-> "remove", user |-> u, friend |-> f])
    /\ UNCHANGED <<friends, told>>

Unfriend(t) ==
    /\ tab[t].step = "remove"
    /\ \/ friends' = friends \ {<<tab[t].user, tab[t].friend>>}
       \/ UNCHANGED friends
    /\ tab' = [tab EXCEPT ![t] = NoClick]
    /\ UNCHANGED <<clicks, told>>

\* get_friends_list: the rows of the user first ...
ClickList(t, u) ==
    /\ Click(t, [step |-> "list", user |-> u, listed |-> {},
                 rows |-> {r \in friends : r[1] = u}])
    /\ UNCHANGED <<friends, told>>

\* ... then, one after the other, the account, without which the row is left
\* out, and the other direction, which is not there when its query fails
ListRow(t, r) ==
    /\ tab[t].step = "list" /\ r \in tab[t].rows
    /\ \E entries \in {{}, {[friend |-> r[2], mutual |-> FALSE]},
                       {[friend |-> r[2], mutual |-> Mutual(r[1], r[2])]}} :
          /\ entries # {} => r[2] \in Registered
          /\ tab' = [tab EXCEPT ![t].rows = @ \ {r},
                                ![t].listed = @ \cup entries]
    /\ UNCHANGED <<friends, clicks, told>>

ShowList(t) ==
    /\ tab[t].step = "list" /\ tab[t].rows = {}
    /\ tab' = [tab EXCEPT ![t] = NoClick]
    /\ UNCHANGED <<friends, clicks, told>>

FriendsNext ==
    \E t \in Tabs :
       \/ \E u \in Registered, f \in Ids : ClickAdd(t, u, f)
       \/ AddFriend(t) \/ Tell(t)
       \/ \E u \in Registered, f \in Ids : ClickRemove(t, u, f)
       \/ Unfriend(t)
       \/ \E u \in Registered : ClickList(t, u)
       \/ \E r \in Row : ListRow(t, r)
       \/ ShowList(t)

FriendsSpec == FriendsInit /\ [][FriendsNext]_friendVars

-----------------------------------------------------------------------------

Entry   == [friend : Ids, mutual : BOOLEAN]
Pending == [step : {"add", "tell", "remove"}, user : Registered, friend : Ids]
Listing == [step : {"list"}, user : Registered, rows : SUBSET Row,
            listed : SUBSET Entry]

FriendsTypeOK ==
    /\ friends \subseteq Row
    /\ told \in [Row -> {"none", "added", "mutual", "unsure"}]
    /\ clicks \in 0..MaxClicks
    /\ tab \in [Tabs -> {NoClick} \cup Pending \cup Listing]

(* Two people who have each other as friends, and whose additions have both *)
(* been answered, know it: at least one of the answers said so, whichever   *)
(* way the two requests (and others of theirs) interleaved, unless a query  *)
(* for an answer failed.                                                    *)
MutualTold ==
    \A u, f \in Registered :
        Mutual(u, f) => {told[<<u, f>>], told[<<f, u>>]} # {"added"}
=============================================================================
