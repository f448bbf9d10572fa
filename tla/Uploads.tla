------------------------------ MODULE Uploads ------------------------------
(***************************************************************************)
(* The images people upload: avatars and banners of the accounts           *)
(* (server/avatars.rs) and the backgrounds of the menu                     *)
(* (server/backgrounds.rs), kept as plain files.  A handler runs from one  *)
(* call of the file system to the next without a lock, so that requests    *)
(* about the same picture interleave between them; writing a file empties  *)
(* it first and may stop half way, and removing one may fail unnoticed.    *)
(***************************************************************************)
EXTENDS Naturals, Sequences, FiniteSets

CONSTANTS Pictures,    \* an avatar, a banner, names of backgrounds
          Kind,        \* [Pictures -> {"avatar", "banner", "background"}]
          Extensions,  \* extensions in the order in which they are looked for
          Images,      \* contents that pass sanitize_uploaded_image
          Junk,        \* contents that do not
          Uploaders,   \* requests in flight at once
          MaxRequests  \* bound on the requests

ASSUME UploadsAssumption ==
    /\ Kind \in [Pictures -> {"avatar", "banner", "background"}]
    /\ Extensions \in Seq({Extensions[i] : i \in DOMAIN Extensions})
    /\ Extensions # <<>> /\ MaxRequests \in Nat
    /\ {"absent", "broken", "unknown"} \cap (Images \cup Junk) = {}
    /\ Images \cap Junk = {}

VARIABLES files,       \* [Pictures -> [extensions -> content]]
          clientCache, \* the osu! client's copy of avatars on this machine
          upload,      \* [Uploaders -> request in flight]
          requests,    \* requests so far
          promised     \* history: what the last answer said is shown

uploadVars == <<files, clientCache, upload, requests, promised>>

Ext       == {Extensions[i] : i \in DOMAIN Extensions}
Png       == Extensions[1]
Content   == Images \cup {"absent", "broken"}
NoRequest == [step |-> "idle"]

Has(p, x) == files[p][x] # "absent"

\* places in the list of extensions under which there is a file
There(p) == {i \in DOMAIN Extensions : Has(p, Extensions[i])}

\* get_avatar, get_banner and serve_background_file: the first file there is
Served(p) ==
    IF There(p) = {} THEN "absent"
    ELSE files[p][Extensions[CHOOSE i \in There(p) :
                                \A j \in There(p) : i <= j]]

\* avatars and banners may have been put there under any extension
UploadsInit ==
    /\ files \in [Pictures -> [Ext -> Images \cup {"absent"}]]
    /\ \A p \in Pictures, x \in Ext \ {Png} :
          Kind[p] = "background" => ~Has(p, x)
    /\ clientCache = [p \in Pictures |-> "absent"]
    /\ upload = [r \in Uploaders |-> NoRequest]
    /\ requests = 0
    /\ promised = [p \in Pictures |-> Served(p)]

-----------------------------------------------------------------------------
(* Requests *)

\* pictures the request has to do with
About(r) == {upload[r].todo[i].picture : i \in DOMAIN upload[r].todo}

InFlight == {r \in Uploaders : upload[r].step # "idle"}

\* a request starts; the ones about the same picture are no longer alone
BeginUpload(r, req) ==
    /\ upload[r].step = "idle" /\ requests < MaxRequests
    /\ requests' = requests + 1
    /\ LET mine   == {req.todo[i].picture : i \in DOMAIN req.todo}
           rivals == {q \in InFlight : About(q) \cap mine # {}}
       IN upload' = [q \in Uploaders |->
             IF q = r THEN [req EXCEPT !.alone = rivals = {}]
             ELSE IF q \in rivals THEN [upload[q] EXCEPT !.alone = FALSE]
             ELSE upload[q]]
    /\ UNCHANGED <<files, clientCache, promised>>

UploadGoes(r, step) == upload' = [upload EXCEPT ![r].step = step]
AnswerUpload(r)     == upload' = [upload EXCEPT ![r] = NoRequest]

\* the picture at hand and what the form wants it to be
Now(r) == upload[r].todo[upload[r].at]

\* what an answer says holds if nobody else was at the same picture
Promise(r, what) ==
    promised' = [promised EXCEPT ![Now(r).picture] =
                    IF upload[r].alone THEN what ELSE "unknown"]

\* upload_avatar_api and upload_banner_api use one field of the form,
\* upload_background_api every field; a background is stored as it is named
Fields == [picture : Pictures, image : Images \cup Junk]
StartUpload(r, form) ==
    /\ \/ Len(form) = 1
       \/ \A i \in DOMAIN form : Kind[form[i].picture] = "background"
    /\ LET banner == Kind[form[1].picture] = "banner"
       IN BeginUpload(r, [op |-> "upload", todo |-> form, at |-> 1,
                          alone |-> TRUE, kept |-> FALSE,
                          left |-> IF banner THEN Extensions ELSE <<>>,
                          step |-> IF banner THEN "remove" ELSE "open"])

\* a reset removes the png only
MUTANT_StartReset(r, p) ==
    BeginUpload(r, [op |-> "reset", todo |-> <<[picture |-> p]>>, at |-> 1,
                    alone |-> TRUE, kept |-> FALSE, step |-> "remove",
                    left |-> <<Png>>])

\* reset_avatar_api, reset_banner_api, delete_background_api
StartReset(r, p) ==
    BeginUpload(r, [op |-> "reset", todo |-> <<[picture |-> p]>>, at |-> 1,
                    alone |-> TRUE, kept |-> FALSE, step |-> "remove",
                    left |-> IF Kind[p] = "background" THEN <<Png>>
                             ELSE Extensions])

-----------------------------------------------------------------------------
(* Steps *)

\* one file is removed; a failure is ignored, except for a background
RemoveFile(r) ==
    /\ upload[r].step = "remove" /\ upload[r].left # <<>>
    /\ LET p == Now(r).picture
           x == Head(upload[r].left)
       IN \/ /\ files' = [files EXCEPT ![p][x] = "absent"]
             /\ upload' = [upload EXCEPT ![r].left = Tail(@)]
          \/ /\ Has(p, x)
             /\ upload' = [upload EXCEPT ![r].left = Tail(@),
                                         ![r].kept = TRUE]
             /\ UNCHANGED files
    /\ UNCHANGED <<clientCache, requests, promised>>

\* sync_to_local_osu_cache, whose failure is ignored
Sync(p, image) ==
    \/ clientCache' = [clientCache EXCEPT ![p] = image]
    \/ UNCHANGED clientCache

\* the files are gone: a reset answers, an upload goes on
FilesRemoved(r) ==
    /\ upload[r].step = "remove" /\ upload[r].left = <<>>
    /\ LET p == Now(r).picture
       IN IF upload[r].op = "upload"
          THEN /\ UploadGoes(r, "open")
               /\ UNCHANGED <<clientCache, promised>>
          ELSE /\ AnswerUpload(r)
               /\ IF Kind[p] = "avatar" THEN Sync(p, "absent")
                  ELSE UNCHANGED clientCache
               /\ IF ~upload[r].kept THEN Promise(r, "absent")
                  ELSE IF Kind[p] = "background" THEN UNCHANGED promised
                  ELSE Promise(r, "unknown")
    /\ UNCHANGED <<files, requests>>

\* what an upload that is refused leaves behind: a banner is gone by then
Refused(r) ==
    /\ AnswerUpload(r)
    /\ IF Kind[Now(r).picture] # "banner" THEN UNCHANGED promised
       ELSE Promise(r, IF upload[r].kept THEN "unknown" ELSE "absent")

\* the image is checked, and the file opened and emptied, or neither
OpenFile(r) ==
    /\ upload[r].step = "open"
    /\ \/ Refused(r) /\ UNCHANGED files
       \/ /\ Now(r).image \in Images
          /\ files' = [files EXCEPT ![Now(r).picture][Png] = "broken"]
          /\ UploadGoes(r, "write")
          /\ UNCHANGED promised
    /\ UNCHANGED <<clientCache, requests>>

\* one field too many
MUTANT_Written(r) ==
    IF Kind[Now(r).picture] = "avatar" THEN UploadGoes(r, "sync")
    ELSE IF upload[r].at <= Len(upload[r].todo)
    THEN upload' = [upload EXCEPT ![r].at = @ + 1, ![r].step = "open"]
    ELSE AnswerUpload(r)

\* the next field of the form, the client's cache, or the answer
Written(r) ==
    IF Kind[Now(r).picture] = "avatar" THEN UploadGoes(r, "sync")
    ELSE IF upload[r].at < Len(upload[r].todo)
    THEN upload' = [upload EXCEPT ![r].at = @ + 1, ![r].step = "open"]
    ELSE AnswerUpload(r)

\* the image is written; when others are at the same file, what is left of
\* each of them is open
WriteFile(r) ==
    /\ upload[r].step = "write"
    /\ \E c \in {Now(r).image} \cup
                (IF upload[r].alone THEN {}
                 ELSE {"broken", files[Now(r).picture][Png]}) :
          files' = [files EXCEPT ![Now(r).picture][Png] = c]
    /\ Written(r)
    /\ Promise(r, Now(r).image)
    /\ UNCHANGED <<clientCache, requests>>

\* the disk is full: the file stays as it is, and the answer is an error
WriteFails(r) ==
    /\ upload[r].step = "write"
    /\ AnswerUpload(r)
    /\ Promise(r, "unknown")
    /\ UNCHANGED <<files, clientCache, requests>>

SyncAvatar(r) ==
    /\ upload[r].step = "sync"
    /\ Sync(Now(r).picture, Now(r).image)
    /\ AnswerUpload(r)
    /\ UNCHANGED <<files, requests, promised>>

\* the process stops: nobody repairs what the requests left half done
Stop ==
    /\ InFlight # {}
    /\ upload' = [r \in Uploaders |-> NoRequest]
    /\ promised' = [p \in Pictures |->
          IF \E r \in InFlight : p \in About(r) THEN "unknown"
          ELSE promised[p]]
    /\ UNCHANGED <<files, clientCache, requests>>

UploadsNext ==
    \/ \E r \in Uploaders :
          \/ \E f \in Fields : StartUpload(r, <<f>>)
          \/ \E f, g \in Fields : StartUpload(r, <<f, g>>)
          \/ \E p \in Pictures : StartReset(r, p)
          \/ RemoveFile(r) \/ FilesRemoved(r)
          \/ OpenFile(r) \/ WriteFile(r) \/ WriteFails(r) \/ SyncAvatar(r)
    \/ Stop

UploadsSpec == UploadsInit /\ [][UploadsNext]_uploadVars

-----------------------------------------------------------------------------

UploadsTypeOK ==
    /\ files \in [Pictures -> [Ext -> Content]]
    /\ clientCache \in [Pictures -> Images \cup {"absent"}]
    /\ \A r \in InFlight :
          /\ upload[r].step \in {"remove", "open", "write", "sync"}
          /\ upload[r].at \in DOMAIN upload[r].todo
    /\ requests \in 0..MaxRequests
    /\ promised \in [Pictures -> Images \cup {"absent", "unknown"}]

(* Once nobody is at a picture any more, what is shown is what the last     *)
(* answer about it said: the image stored, nothing after a reset, and the   *)
(* avatar or background of before if an upload was refused.  Open is only   *)
(* what requests that overlapped, a write that failed, a file that could    *)
(* not be removed or a stop of the process left.                            *)
UploadShown ==
    \A p \in Pictures :
        promised[p] # "unknown" /\ (\A r \in InFlight : p \notin About(r))
            => Served(p) = promised[p]
=============================================================================
