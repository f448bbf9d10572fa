---------------------------- MODULE MCCommunity ----------------------------
(***************************************************************************)
(* What players do besides playing, for TLC: chat, friends, the images     *)
(* they upload and the beatmaps they ask for.  The four share no state, so *)
(* that their interleavings show nothing: a behaviour runs one of them,    *)
(* the others stay as they were started.                                   *)
(***************************************************************************)
EXTENDS Chat, Friends, Uploads, Beatmaps, TLC

VARIABLE subject       \* the component this behaviour is about

vars == <<chatVars, friendVars, uploadVars, beatmapVars, subject>>

\* a bound: one picture has files to begin with, under any extensions
OneStored == \A p, q \in Pictures : There(p) # {} /\ There(q) # {} => p = q

Init ==
    /\ subject \in {"chat", "friends", "uploads", "beatmaps"}
    /\ ChatInit /\ FriendsInit /\ UploadsInit /\ BeatmapsInit
    /\ subject # "uploads" => \A p \in Pictures, x \in Ext : ~Has(p, x)
    /\ OneStored

\* a bound: of the messages, only the first one may be public; a second one
\* makes six times the states
OnePublic ==
    \A h \in Handlers :
        work[h].step \in {"broadcast", "command"} => work[h].id = 1

Next ==
    /\ UNCHANGED subject
    /\ \/ /\ subject = "chat" /\ ChatNext /\ OnePublic'
          /\ UNCHANGED <<friendVars, uploadVars, beatmapVars>>
       \/ /\ subject = "friends" /\ FriendsNext
          /\ UNCHANGED <<chatVars, uploadVars, beatmapVars>>
       \/ /\ subject = "uploads" /\ UploadsNext
          /\ UNCHANGED <<chatVars, friendVars, beatmapVars>>
       \/ /\ subject = "beatmaps" /\ BeatmapsNext
          /\ UNCHANGED <<chatVars, friendVars, uploadVars>>

Spec == Init /\ [][Next]_vars

TypeOK == ChatTypeOK /\ FriendsTypeOK /\ UploadsTypeOK /\ BeatmapsTypeOK

-----------------------------------------------------------------------------
(* Values of the constants *)

\* people who chat and requests that are handled are only compared; the
\* requests of chat, uploads and beatmaps have the same names, since a
\* behaviour has those of one of them
Symmetry == Permutations(People) \cup Permutations(Handlers)

\* one picture of every kind
MCKind == "a" :> "avatar" @@ "b" :> "banner" @@ "x" :> "background"

MCExtensions == <<"png", "jpg">>

MCIdOf == [m \in Maps |-> 2]
=============================================================================
