----------------------------- MODULE Accounts -----------------------------
(***************************************************************************)
(* Accounts, their passwords and the signed sessions of the web site       *)
(* (server/frontend.rs, utils/crypto.rs, db/users.rs).  A password is      *)
(* typed by a person, sent as its md5 by the game, hashed as bcrypt of the *)
(* md5 by registration and of the text itself by the settings page, and    *)
(* may lie in the table as a bare md5 from before.  A session is a signed  *)
(* cookie: the server stores only the ones that signed out.  Every await   *)
(* of a handler is a step, so that requests interleave.                    *)
(***************************************************************************)
EXTENDS Naturals, FiniteSets

CONSTANTS Users,        \* user names, each with the row it may get
          Words,        \* words people have as passwords
          WordLength,   \* [Words -> Nat]
          Trimmed,      \* [Words -> Words], without the blanks around it
          Texts,        \* what they type: a word or the md5 of one
          Browsers,     \* requests in flight at once
          AutoRegister, \* config gameplay.auto_register
          TTL,          \* SESSION_TTL_SECONDS, in ticks
          MaxTime,      \* bound on the clock
          MaxHashes,    \* bound on the calls of hash_password
          MaxSessions,  \* bound on the sessions handed out
          MaxCrashes,   \* bound on the restarts
          NoAccount

ASSUME AccountsAssumption ==
    /\ WordLength \in [Words -> Nat]
    /\ Trimmed \in [Words -> Words]
    /\ Texts \subseteq {0, 1} \X Words
    /\ TTL \in Nat /\ MaxTime \in Nat /\ MaxHashes \in Nat

VARIABLES now,        \* the clock
          serving,    \* FALSE from the start of the process to axum::serve
          crashes,
          hashes,     \* calls of hash_password so far: the salt of the next
          rows,       \* [Users -> row of the users table or NoAccount]
          revoked,    \* rows of revoked_sessions
          cookies,    \* sessions handed out and kept by browsers
          web,        \* [Browsers -> request in flight]
          chosen,     \* history: the password last confirmed to each user
          signedOut   \* history: sessions whose revocation was stored

accountVars == <<now, serving, crashes, hashes, rows, revoked, cookies, web,
                 chosen, signedOut>>

\* A text is the k-th md5 of a word: <<0, w>> is the word, <<1, w>> what the
\* game sends for it; people can type an md5, too.
Md5(x)    == <<x[1] + 1, x[2]>>
Trim(x)   == IF x[1] = 0 THEN <<0, Trimmed[x[2]]>> ELSE x
Length(x) == IF x[1] = 0 THEN WordLength[x[2]] ELSE 32

\* a stored hash: bcrypt with a fresh salt, or the bare md5 of old tables
Hashed(x, salt) == [form |-> "bcrypt", of |-> x, salt |-> salt]
Bare(x)         == [form |-> "md5", of |-> x, salt |-> 0]
Verify(x, h)    == h.form = "bcrypt" /\ h.of = x

\* api_login tries the md5 of what was typed, then the text itself
WebAccepts(x, h) == Verify(Md5(x), h) \/ Verify(x, h)

Idle == [step |-> "idle"]

-----------------------------------------------------------------------------
(* Start of the process *)

AccountsInit ==
    /\ now = 0 /\ serving = FALSE /\ crashes = 0 /\ hashes = 0
    /\ chosen \in [Users -> {NoAccount} \cup {x \in Texts : x[1] = 0}]
    /\ rows = [u \in Users |-> IF chosen[u] = NoAccount THEN NoAccount
                               ELSE Bare(Md5(chosen[u]))]
    /\ revoked = {} /\ cookies = {} /\ signedOut = {}
    /\ web = [b \in Browsers |-> Idle]

Unmigrated == {u \in Users : rows[u] # NoAccount /\ rows[u].form = "md5"}

\* migrate_legacy_md5_passwords rewrites one row after the other
Migrate(u) ==
    /\ ~serving /\ u \in Unmigrated /\ hashes < MaxHashes
    /\ rows' = [rows EXCEPT ![u] = Hashed(@.of, hashes)]
    /\ hashes' = hashes + 1
    /\ UNCHANGED <<now, serving, crashes, revoked, cookies, web, chosen,
                   signedOut>>

\* the server does not wait for the migration
MUTANT_Serve ==
    /\ ~serving
    /\ serving' = TRUE
    /\ UNCHANGED <<now, crashes, hashes, rows, revoked, cookies, web, chosen,
                   signedOut>>

Serve ==
    /\ ~serving /\ Unmigrated = {}
    /\ serving' = TRUE
    /\ UNCHANGED <<now, crashes, hashes, rows, revoked, cookies, web, chosen,
                   signedOut>>

\* the process stops at any point; the requests in flight are lost
Crash ==
    /\ crashes < MaxCrashes
    /\ crashes' = crashes + 1
    /\ serving' = FALSE
    /\ web' = [b \in Browsers |-> Idle]
    /\ UNCHANGED <<now, hashes, rows, revoked, cookies, chosen, signedOut>>

Tick ==
    /\ now < MaxTime
    /\ now' = now + 1
    /\ UNCHANGED <<serving, crashes, hashes, rows, revoked, cookies, web,
                   chosen, signedOut>>

-----------------------------------------------------------------------------
(* Signing up and in *)

Begin(b, req) ==
    /\ serving /\ web[b].step = "idle"
    /\ web' = [web EXCEPT ![b] = req]

\* sign_session with the hash the handler holds
Sign(u, h) ==
    cookies' = cookies \cup {[user |-> u, issued |-> now, salt |-> h.salt]}

\* a form that asks for an account; one that fails to look the name up goes
\* on as if it were free
AskAccount(b, u, x) ==
    /\ Length(x) >= 8
    /\ Begin(b, [step |-> "create", user |-> u, text |-> x, signs |-> FALSE])
    /\ UNCHANGED <<now, serving, crashes, hashes, rows, revoked, cookies,
                   chosen, signedOut>>

\* register_user takes the password as it was typed, osu_register_user, the
\* form of the game, without the blanks around it
StartRegister(b, u, x)     == AskAccount(b, u, x)
StartGameRegister(b, u, x) == AskAccount(b, u, Trim(x))

\* api_login: the row is looked up, and checked against what is typed
\* without the blanks around it
StartLogin(b, u, typed) ==
    LET x == Trim(typed) IN
    /\ IF rows[u] # NoAccount
       THEN /\ WebAccepts(x, rows[u])
            /\ Cardinality(cookies) < MaxSessions
            /\ Begin(b, [step |-> "sign", user |-> u, hash |-> rows[u]])
       ELSE /\ AutoRegister /\ Length(x) >= 8
            /\ Begin(b, [step |-> "create", user |-> u, text |-> x,
                         signs |-> TRUE])
    /\ UNCHANGED <<now, serving, crashes, hashes, rows, revoked, cookies,
                   chosen, signedOut>>

LoginSigns(b) ==
    /\ web[b].step = "sign"
    /\ Sign(web[b].user, web[b].hash)
    /\ web' = [web EXCEPT ![b] = Idle]
    /\ UNCHANGED <<now, serving, crashes, hashes, rows, revoked, chosen,
                   signedOut>>

\* create_user: the name is unique in the table; when the statistics of the
\* account cannot be stored it is there, and the answer says it is not
CreateAccount(b) ==
    /\ web[b].step = "create"
    /\ web' = [web EXCEPT ![b] = Idle]
    /\ LET u == web[b].user
           h == Hashed(Md5(web[b].text), hashes)
       IN \/ /\ rows[u] # NoAccount
             /\ UNCHANGED <<hashes, rows, cookies, chosen>>
          \/ /\ rows[u] = NoAccount /\ hashes < MaxHashes
             /\ rows' = [rows EXCEPT ![u] = h]
             /\ hashes' = hashes + 1
             /\ \/ /\ chosen' = [chosen EXCEPT ![u] = web[b].text]
                   /\ IF web[b].signs THEN Sign(u, h) ELSE UNCHANGED cookies
                \/ UNCHANGED <<chosen, cookies>>
    /\ UNCHANGED <<now, serving, crashes, revoked, signedOut>>

-----------------------------------------------------------------------------
(* Sessions *)

ExpiresAt(c) == c.issued + TTL

\* is_session_revoked
IsRevoked(c) == \E r \in revoked : r.token = c /\ r.expires > now

\* a session whose age is not looked at
MUTANT_Valid(c) == rows[c.user] # NoAccount /\ rows[c.user].salt = c.salt

\* verify_session against the row of the user
Valid(c) == /\ rows[c.user] # NoAccount /\ rows[c.user].salt = c.salt
            /\ now - c.issued <= TTL

\* what get_authenticated_user answers when nothing happens in between
Authenticates(c) == serving /\ ~IsRevoked(c) /\ Valid(c)

\* change_password_api: the session is checked first ...
StartChange(b, c, old, new) ==
    /\ c \in cookies /\ ~IsRevoked(c)
    /\ Begin(b, [step |-> "load", cookie |-> c, old |-> old, new |-> new])
    /\ UNCHANGED <<now, serving, crashes, hashes, rows, revoked, cookies,
                   chosen, signedOut>>

\* ... then the user's row is read, and the current password compared with
\* it as it was typed ...
LoadUser(b) ==
    /\ web[b].step = "load"
    /\ LET c == web[b].cookie
       IN web' = [web EXCEPT ![b] =
                    IF /\ Valid(c) /\ Length(web[b].new) >= 6
                       /\ Verify(web[b].old, rows[c.user])
                    THEN [step |-> "change", user |-> c.user,
                          text |-> web[b].new]
                    ELSE Idle]
    /\ UNCHANGED <<now, serving, crashes, hashes, rows, revoked, cookies,
                   chosen, signedOut>>

\* ... and the new one stored, hashed as it was typed
ChangePassword(b) ==
    /\ web[b].step = "change" /\ hashes < MaxHashes
    /\ rows' = [rows EXCEPT ![web[b].user] = Hashed(web[b].text, hashes)]
    /\ hashes' = hashes + 1
    /\ chosen' = [chosen EXCEPT ![web[b].user] = web[b].text]
    /\ web' = [web EXCEPT ![b] = Idle]
    /\ UNCHANGED <<now, serving, crashes, revoked, cookies, signedOut>>

\* revoke_session: expired rows are deleted, a statement that may fail and
\* end the request, which answers success all the same ...
StartLogout(b, c) ==
    /\ c \in cookies
    /\ Begin(b, [step |-> "revoke", cookie |-> c])
    /\ \/ revoked' = {r \in revoked : r.expires > now}
       \/ UNCHANGED revoked
    /\ UNCHANGED <<now, serving, crashes, hashes, rows, cookies, chosen,
                   signedOut>>

\* ... and the session is stored until it expires
Revoke(b) ==
    /\ web[b].step = "revoke"
    /\ LET c == web[b].cookie
       IN \/ /\ revoked' = {r \in revoked : r.token # c}
                            \cup {[token |-> c, expires |-> ExpiresAt(c)]}
             /\ signedOut' = signedOut \cup {c}
          \/ UNCHANGED <<revoked, signedOut>>
    /\ web' = [web EXCEPT ![b] = Idle]
    /\ UNCHANGED <<now, serving, crashes, hashes, rows, cookies, chosen>>

AccountsNext ==
    \/ \E u \in Users : Migrate(u)
    \/ Serve \/ Crash \/ Tick
    \/ \E b \in Browsers :
          \/ \E u \in Users, x \in Texts : StartRegister(b, u, x)
          \/ \E u \in Users, x \in Texts : StartGameRegister(b, u, x)
          \/ \E u \in Users, x \in Texts : StartLogin(b, u, x)
          \/ LoginSigns(b) \/ CreateAccount(b)
          \/ \E c \in cookies, old, new \in Texts : StartChange(b, c, old, new)
          \/ LoadUser(b) \/ ChangePassword(b)
          \/ \E c \in cookies : StartLogout(b, c)
          \/ Revoke(b)

AccountsSpec == AccountsInit /\ [][AccountsNext]_accountVars

-----------------------------------------------------------------------------

Hash   == [form : {"bcrypt", "md5"}, of : {0, 1, 2} \X Words, salt : Nat]
ASSUME NoAccountAssumption == NoAccount \notin Hash

Cookie == [user : Users, issued : Nat, salt : Nat]
Typed  == {0, 1} \X Words
Request ==
         {Idle}
    \cup [step : {"create"}, user : Users, text : Typed, signs : BOOLEAN]
    \cup [step : {"sign"}, user : Users, hash : Hash]
    \cup [step : {"load"}, cookie : Cookie, old : Typed, new : Typed]
    \cup [step : {"change"}, user : Users, text : Typed]
    \cup [step : {"revoke"}, cookie : Cookie]

AccountsTypeOK ==
    /\ now \in Nat /\ serving \in BOOLEAN /\ crashes \in Nat /\ hashes \in Nat
    /\ rows \in [Users -> Hash \cup {NoAccount}]
    /\ revoked \subseteq [token : Cookie, expires : Nat]
    /\ cookies \subseteq Cookie /\ signedOut \subseteq Cookie
    /\ web \in [Browsers -> Request]
    /\ chosen \in [Users -> Typed \cup {NoAccount}]

(* Whatever route made or changed an account, and however often the start  *)
(* was interrupted in the migration of old passwords, the password last    *)
(* confirmed to its owner signs in on the site while it serves.  The       *)
(* exception is a password with blanks around it, which registration and   *)
(* the settings keep and the form to sign in drops.                        *)
PasswordSignsIn ==
    serving => \A u \in Users :
        chosen[u] # NoAccount /\ Trim(chosen[u]) = chosen[u]
            => rows[u] # NoAccount /\ WebAccepts(Trim(chosen[u]), rows[u])

(* A session whose revocation was stored never authenticates again: its    *)
(* row outlives it.  The one second in which the row no longer counts and  *)
(* the signature still does, the second it expires, is excepted.           *)
SignedOutStaysOut ==
    \A c \in signedOut : Authenticates(c) => now = ExpiresAt(c)
=============================================================================
