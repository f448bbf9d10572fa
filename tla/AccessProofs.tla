----------------------------- MODULE AccessProofs -----------------------------
(***************************************************************************)
(* Accounts, machines and the rate limiter, for any number of users,       *)
(* requests, logins, addresses and limits.                                 *)
(*                                                                         *)
(* Accounts: two invariants are inductive next to the types.               *)
(* RevocationKept: a session that signed out has its row until it expires, *)
(* as the clean-up before a revocation deletes expired rows only.          *)
(* HashOfChosen: a row holds a hash of the password that was confirmed, or *)
(* of its md5, and no bare md5 is left while the server serves.            *)
(*                                                                         *)
(* The rate limiter implements TokenBucket: buckets that are filled when   *)
(* they are next asked, and dropped when nobody asked for long, cannot be  *)
(* told from buckets that are always there.  The products of the refill    *)
(* are kept apart in lemmas about numbers.  Retry-After is honest because  *)
(* a token is there at every time from the promised one on (Awaited).      *)
(*                                                                         *)
(* Machines: a login that passed its check passes it still, until another  *)
(* one writes its row (StillFits); with that, a row that is written adds   *)
(* at most one user to less than the limit.                                *)
(***************************************************************************)
EXTENDS MCAccess, FiniteSetTheorems, WellFoundedInduction, TLAPS

-----------------------------------------------------------------------------
(* Accounts *)

RevocationKept ==
    \A c \in signedOut :
        \/ now >= ExpiresAt(c)
        \/ \E r \in revoked : r.token = c /\ r.expires = ExpiresAt(c)

HashOfChosen ==
    /\ serving => Unmigrated = {}
    /\ \A u \in Users : chosen[u] # NoAccount =>
          rows[u] # NoAccount /\ rows[u].of \in {Md5(chosen[u]), chosen[u]}

AccountsInv == AccountsTypeOK /\ RevocationKept /\ HashOfChosen

\* What is typed stays a text, and its md5 can be hashed.
LEMMA TextTyped ==
  ASSUME NEW x \in Typed
  PROVE  Trim(x) \in Typed /\ Md5(x) \in {0, 1, 2} \X Words /\ x \in {0, 1, 2} \X Words
BY AccountsAssumption DEF Typed, Trim, Md5

\* A stored hash is a hash, and no missing row.
LEMMA HashTyped ==
  ASSUME NEW x \in {0, 1, 2} \X Words, NEW salt \in Nat
  PROVE  /\ Hashed(x, salt) \in Hash /\ Hashed(x, salt) # NoAccount
         /\ Hashed(x, salt).of = x /\ Hashed(x, salt).form = "bcrypt"
         /\ Hashed(x, salt).salt = salt
<1>1. Hashed(x, salt) \in Hash
  BY DEF Hash, Hashed
<1>2. QED
  BY <1>1, NoAccountAssumption DEF Hashed

\* A request in flight has the type of its step.
LEMMA RequestTyped ==
  ASSUME AccountsTypeOK, NEW b \in Browsers
  PROVE  /\ web[b].step = "create" =>
               web[b] \in [step : {"create"}, user : Users, text : Typed, signs : BOOLEAN]
         /\ web[b].step = "sign" =>
               web[b] \in [step : {"sign"}, user : Users, hash : Hash]
         /\ web[b].step = "load" =>
               web[b] \in [step : {"load"}, cookie : Cookie, old : Typed, new : Typed]
         /\ web[b].step = "change" =>
               web[b] \in [step : {"change"}, user : Users, text : Typed]
         /\ web[b].step = "revoke" =>
               web[b] \in [step : {"revoke"}, cookie : Cookie]
<1>1. web[b] \in Request
  BY DEF AccountsTypeOK
<1>2. QED
  BY <1>1 DEF Request, Idle

\* The table of requests stays well typed whatever request one becomes.
LEMMA WebTyped ==
  ASSUME AccountsTypeOK, NEW b \in Browsers, NEW req \in Request
  PROVE  [web EXCEPT ![b] = req] \in [Browsers -> Request]
BY DEF AccountsTypeOK

LEMMA IdleTyped == Idle \in Request
BY DEF Request

\* A step that leaves the clock, the revocations and the passwords alone
\* keeps what is known about them.
LEMMA KeepsHashes ==
  ASSUME HashOfChosen, UNCHANGED <<rows, chosen>>, serving' = serving
  PROVE  HashOfChosen'
BY DEF HashOfChosen, Unmigrated, Md5

LEMMA KeepsRevocations ==
  ASSUME RevocationKept, UNCHANGED <<now, revoked, signedOut>>
  PROVE  RevocationKept'
BY DEF RevocationKept, ExpiresAt

LEMMA AccountsInitInv == AccountsInit => AccountsInv
<1> SUFFICES ASSUME AccountsInit PROVE AccountsInv
  OBVIOUS
<1>1. chosen \in [Users -> {NoAccount} \cup {x \in Texts : x[1] = 0}]
  BY DEF AccountsInit
<1>2. ASSUME NEW u \in Users, chosen[u] # NoAccount
      PROVE  /\ rows[u] = Bare(Md5(chosen[u]))
             /\ chosen[u] \in Typed /\ rows[u] \in Hash
  <2>1. chosen[u] \in Typed
    BY <1>1, <1>2, AccountsAssumption DEF Typed
  <2>2. rows[u] = Bare(Md5(chosen[u]))
    BY <1>2 DEF AccountsInit
  <2>3. QED
    BY <2>1, <2>2, TextTyped DEF Bare, Hash
<1>3. ASSUME NEW u \in Users, chosen[u] = NoAccount
      PROVE  rows[u] = NoAccount
  BY <1>3 DEF AccountsInit
<1>4. rows \in [Users -> Hash \cup {NoAccount}]
  <2>1. \A u \in Users : rows[u] \in Hash \cup {NoAccount}
    BY <1>2, <1>3
  <2>2. rows = [u \in Users |-> rows[u]]
    BY DEF AccountsInit
  <2>3. QED
    BY <2>1, <2>2
<1>5. chosen \in [Users -> Typed \cup {NoAccount}]
  BY <1>1, <1>2
<1>6. AccountsTypeOK
  BY <1>4, <1>5, IdleTyped DEF AccountsInit, AccountsTypeOK
<1>7. RevocationKept
  BY DEF AccountsInit, RevocationKept
<1>8. HashOfChosen
  <2>1. ~serving
    BY DEF AccountsInit
  <2>2. ASSUME NEW u \in Users, chosen[u] # NoAccount
        PROVE  rows[u] # NoAccount /\ rows[u].of \in {Md5(chosen[u]), chosen[u]}
    <3>1. rows[u] # NoAccount
      BY <1>2, <2>2, NoAccountAssumption
    <3>2. rows[u] = Bare(Md5(chosen[u]))
      BY <1>2, <2>2
    <3>3. \A x : Bare(x).of = x
      BY DEF Bare
    <3>4. QED
      BY <3>1, <3>2, <3>3
  <2>3. QED
    BY <2>1, <2>2 DEF HashOfChosen
<1>9. QED
  BY <1>6, <1>7, <1>8 DEF AccountsInv

-----------------------------------------------------------------------------

LEMMA MigrateStep ==
  ASSUME AccountsInv, NEW u \in Users, Migrate(u)
  PROVE  AccountsInv'
<1>1. rows[u] \in Hash /\ rows[u] # NoAccount /\ hashes \in Nat
  BY DEF AccountsInv, AccountsTypeOK, Migrate, Unmigrated
<1>2. rows[u].of \in {0, 1, 2} \X Words
  BY <1>1 DEF Hash
<1> DEFINE h == Hashed(rows[u].of, hashes)
<1>3. h \in Hash /\ h # NoAccount /\ h.of = rows[u].of
  BY <1>1, <1>2, HashTyped
<1>4. rows' = [rows EXCEPT ![u] = h]
  BY DEF Migrate
<1>5. ~serving' /\ UNCHANGED <<now, crashes, revoked, cookies, web, chosen, signedOut>>
  BY DEF Migrate
<1> HIDE DEF h
<1>6. rows' \in [Users -> Hash \cup {NoAccount}]
  BY <1>3, <1>4 DEF AccountsInv, AccountsTypeOK
<1>7. AccountsTypeOK'
  BY <1>1, <1>5, <1>6 DEF AccountsInv, AccountsTypeOK, Migrate
<1>8. HashOfChosen'
  <2>1. ASSUME NEW v \in Users, chosen[v] # NoAccount
        PROVE  rows'[v] # NoAccount /\ rows'[v].of \in {Md5(chosen[v]), chosen[v]}
    BY <1>3, <1>4, <2>1 DEF AccountsInv, AccountsTypeOK, HashOfChosen
  <2>2. QED
    BY <1>5, <2>1 DEF HashOfChosen, Md5
<1>9. QED
  BY <1>5, <1>7, <1>8, KeepsRevocations DEF AccountsInv

LEMMA ProcessStep ==
  ASSUME AccountsInv, Serve \/ Crash \/ Tick
  PROVE  AccountsInv'
<1>1. CASE Serve
  <2>1. AccountsTypeOK'
    BY <1>1 DEF Serve, AccountsInv, AccountsTypeOK
  <2>2. HashOfChosen'
    BY <1>1 DEF Serve, AccountsInv, HashOfChosen, Unmigrated, Md5
  <2>3. QED
    BY <1>1, <2>1, <2>2, KeepsRevocations DEF Serve, AccountsInv
<1>2. CASE Crash
  <2>1. AccountsTypeOK'
    <3>1. web' \in [Browsers -> Request]
      BY <1>2, IdleTyped DEF Crash
    <3>2. crashes' \in Nat /\ serving' \in BOOLEAN
      <4>1. crashes' = crashes + 1 /\ serving' = FALSE
        BY <1>2, Zenon DEF Crash
      <4>2. crashes \in Nat
        BY DEF AccountsInv, AccountsTypeOK
      <4>3. crashes' \in Nat
        BY <4>1, <4>2, SMT
      <4>4. serving' \in BOOLEAN
        BY <4>1, Zenon
      <4>5. QED
        BY <4>3, <4>4
    <3>3. UNCHANGED <<now, hashes, rows, revoked, cookies, chosen, signedOut>>
      BY <1>2 DEF Crash
    <3>4. QED
      BY <3>1, <3>2, <3>3 DEF AccountsInv, AccountsTypeOK
  <2>2. HashOfChosen'
    BY <1>2 DEF Crash, AccountsInv, HashOfChosen, Md5
  <2>3. QED
    BY <1>2, <2>1, <2>2, KeepsRevocations DEF Crash, AccountsInv
<1>3. CASE Tick
  <2>1. AccountsTypeOK'
    BY <1>3 DEF Tick, AccountsInv, AccountsTypeOK
  <2>2. HashOfChosen'
    BY <1>3, KeepsHashes DEF Tick, AccountsInv
  <2>3. RevocationKept'
    <3>1. ASSUME NEW c \in signedOut
          PROVE  \/ now' >= ExpiresAt(c)
                 \/ \E r \in revoked : r.token = c /\ r.expires = ExpiresAt(c)
      <4>1. ExpiresAt(c) \in Nat /\ now \in Nat
        BY AccountsAssumption DEF AccountsInv, AccountsTypeOK, Cookie, ExpiresAt
      <4>2. QED
        BY <1>3, <4>1 DEF Tick, AccountsInv, RevocationKept
    <3>2. QED
      BY <1>3, <3>1 DEF Tick, RevocationKept, ExpiresAt
  <2>4. QED
    BY <2>1, <2>2, <2>3 DEF AccountsInv
<1>4. QED
  BY <1>1, <1>2, <1>3

\* A request that begins changes nothing else but, in StartLogout, the rows of
\* revoked sessions.
LEMMA BeginTyped ==
  ASSUME AccountsTypeOK, NEW b \in Browsers, NEW req \in Request, Begin(b, req)
  PROVE  web' \in [Browsers -> Request]
BY WebTyped DEF Begin

LEMMA StartAccountStep ==
  ASSUME AccountsInv, NEW b \in Browsers, NEW u \in Users, NEW x \in Texts,
         \/ StartRegister(b, u, x) \/ StartGameRegister(b, u, x)
         \/ StartLogin(b, u, x)
  PROVE  AccountsInv'
<1>1. x \in Typed /\ Trim(x) \in Typed
  BY AccountsAssumption, TextTyped DEF Typed
<1>2. PICK req \in Request : Begin(b, req)
  <2>1. CASE StartRegister(b, u, x) \/ StartGameRegister(b, u, x)
    <3>1. PICK y \in {x, Trim(x)} : AskAccount(b, u, y)
      BY <2>1 DEF StartRegister, StartGameRegister
    <3>2. [step |-> "create", user |-> u, text |-> y, signs |-> FALSE] \in Request
      BY <1>1 DEF Request
    <3>3. QED
      BY <3>1, <3>2 DEF AskAccount
  <2>2. CASE StartLogin(b, u, x)
    <3>1. CASE rows[u] # NoAccount
      <4>1. rows[u] \in Hash
        BY <3>1 DEF AccountsInv, AccountsTypeOK
      <4>2. [step |-> "sign", user |-> u, hash |-> rows[u]] \in Request
        BY <4>1 DEF Request
      <4>3. QED
        BY <2>2, <3>1, <4>2 DEF StartLogin
    <3>2. CASE rows[u] = NoAccount
      <4>1. [step |-> "create", user |-> u, text |-> Trim(x), signs |-> TRUE] \in Request
        BY <1>1 DEF Request
      <4>2. QED
        BY <2>2, <3>2, <4>1 DEF StartLogin
    <3>3. QED
      BY <3>1, <3>2
  <2>3. QED
    BY <2>1, <2>2
<1>3. UNCHANGED <<now, serving, crashes, hashes, rows, revoked, cookies, chosen, signedOut>>
  BY DEF StartRegister, StartGameRegister, AskAccount, StartLogin
<1>4. AccountsTypeOK'
  BY <1>2, <1>3, BeginTyped DEF AccountsInv, AccountsTypeOK
<1>5. QED
  BY <1>3, <1>4, KeepsHashes, KeepsRevocations DEF AccountsInv

LEMMA StartSessionStep ==
  ASSUME AccountsInv, NEW b \in Browsers, NEW c \in cookies,
         \/ \E old, new \in Texts : StartChange(b, c, old, new)
         \/ StartLogout(b, c)
  PROVE  AccountsInv'
<1>1. c \in Cookie
  BY DEF AccountsInv, AccountsTypeOK
<1>2. CASE \E old, new \in Texts : StartChange(b, c, old, new)
  <2>1. PICK old \in Texts, new \in Texts : StartChange(b, c, old, new)
    BY <1>2
  <2>2. [step |-> "load", cookie |-> c, old |-> old, new |-> new] \in Request
    BY <1>1, AccountsAssumption DEF Request, Typed
  <2>3. UNCHANGED <<now, serving, crashes, hashes, rows, revoked, cookies, chosen, signedOut>>
    BY <2>1 DEF StartChange
  <2>4. AccountsTypeOK'
    BY <2>1, <2>2, <2>3, BeginTyped DEF StartChange, AccountsInv, AccountsTypeOK
  <2>5. QED
    BY <2>3, <2>4, KeepsHashes, KeepsRevocations DEF AccountsInv
<1>3. CASE StartLogout(b, c)
  <2>1. [step |-> "revoke", cookie |-> c] \in Request
    BY <1>1 DEF Request
  <2>2. UNCHANGED <<now, serving, crashes, hashes, rows, cookies, chosen, signedOut>>
    BY <1>3 DEF StartLogout
  <2>3. revoked' \subseteq revoked /\ {r \in revoked : r.expires > now} \subseteq revoked'
    BY <1>3 DEF StartLogout
  <2>4. AccountsTypeOK'
    BY <1>3, <2>1, <2>2, <2>3, BeginTyped DEF StartLogout, AccountsInv, AccountsTypeOK
  <2>5. RevocationKept'
    <3>1. ASSUME NEW s \in signedOut
          PROVE  \/ now >= ExpiresAt(s)
                 \/ \E r \in revoked' : r.token = s /\ r.expires = ExpiresAt(s)
      <4>1. ExpiresAt(s) \in Nat /\ now \in Nat
        BY AccountsAssumption DEF AccountsInv, AccountsTypeOK, Cookie, ExpiresAt
      <4>2. QED
        BY <2>3, <4>1 DEF AccountsInv, RevocationKept
    <3>2. QED
      BY <2>2, <3>1 DEF RevocationKept, ExpiresAt
  <2>6. QED
    BY <2>2, <2>4, <2>5, KeepsHashes DEF AccountsInv
<1>4. QED
  BY <1>2, <1>3

-----------------------------------------------------------------------------

LEMMA SignTyped ==
  ASSUME AccountsTypeOK, NEW u \in Users, NEW h \in Hash, Sign(u, h)
  PROVE  cookies' \subseteq Cookie
<1>1. [user |-> u, issued |-> now, salt |-> h.salt] \in Cookie
  BY DEF AccountsTypeOK, Cookie, Hash
<1>2. QED
  BY <1>1 DEF AccountsTypeOK, Sign

LEMMA LoginSignsStep ==
  ASSUME AccountsInv, NEW b \in Browsers, LoginSigns(b)
  PROVE  AccountsInv'
<1>1. web[b].user \in Users /\ web[b].hash \in Hash
  BY RequestTyped DEF AccountsInv, LoginSigns
<1>2. cookies' \subseteq Cookie
  BY <1>1, SignTyped DEF AccountsInv, LoginSigns
<1>3. web' \in [Browsers -> Request]
  BY IdleTyped, WebTyped DEF AccountsInv, LoginSigns
<1>4. UNCHANGED <<now, serving, crashes, hashes, rows, revoked, chosen, signedOut>>
  BY DEF LoginSigns
<1>5. AccountsTypeOK'
  BY <1>2, <1>3, <1>4 DEF AccountsInv, AccountsTypeOK
<1>6. QED
  BY <1>4, <1>5, KeepsHashes, KeepsRevocations DEF AccountsInv

\* A row that is written with a hash of the text or of its md5, by CreateAccount
\* or ChangePassword.
LEMMA RowWritten ==
  ASSUME AccountsInv, NEW u \in Users, NEW x \in Typed,
         NEW y \in {x, Md5(x)},
         rows' = [rows EXCEPT ![u] = Hashed(y, hashes)],
         hashes' = hashes + 1,
         \/ chosen' = [chosen EXCEPT ![u] = x]
         \/ chosen' = chosen /\ rows[u] = NoAccount,
         UNCHANGED serving
  PROVE  /\ rows' \in [Users -> Hash \cup {NoAccount}]
         /\ chosen' \in [Users -> Typed \cup {NoAccount}]
         /\ hashes' \in Nat
         /\ HashOfChosen'
<1> DEFINE h == Hashed(y, hashes)
<1>1. h \in Hash /\ h # NoAccount /\ h.of = y /\ h.form = "bcrypt"
  BY TextTyped, HashTyped, SMTT(90) DEF AccountsInv, AccountsTypeOK
<1>2. rows' = [rows EXCEPT ![u] = h]
  OBVIOUS
<1> HIDE DEF h
<1>3. rows' \in [Users -> Hash \cup {NoAccount}]
  BY <1>1, <1>2 DEF AccountsInv, AccountsTypeOK
<1>4. chosen' \in [Users -> Typed \cup {NoAccount}] /\ hashes' \in Nat
  BY DEF AccountsInv, AccountsTypeOK
<1>5. serving => Unmigrated' = {}
  <2>1. Unmigrated' \subseteq Unmigrated
    BY <1>1, <1>2 DEF AccountsInv, AccountsTypeOK, Unmigrated
  <2>2. QED
    BY <2>1 DEF AccountsInv, HashOfChosen
<1>6. ASSUME NEW v \in Users, chosen'[v] # NoAccount
      PROVE  rows'[v] # NoAccount /\ rows'[v].of \in {Md5(chosen'[v]), chosen'[v]}
  <2>1. CASE v # u
    <3>1. rows'[v] = rows[v] /\ chosen'[v] = chosen[v]
      BY <1>2, <2>1 DEF AccountsInv, AccountsTypeOK
    <3>2. QED
      BY <1>6, <3>1 DEF AccountsInv, HashOfChosen
  <2>2. CASE v = u
    <3>1. rows'[v] = h
      BY <1>2, <2>2 DEF AccountsInv, AccountsTypeOK
    <3>2. chosen'[v] = x
      <4>1. CASE chosen' = chosen /\ rows[u] = NoAccount
        BY <1>6, <2>2, <4>1 DEF AccountsInv, HashOfChosen
      <4>2. CASE chosen' = [chosen EXCEPT ![u] = x]
        BY <2>2, <4>2 DEF AccountsInv, AccountsTypeOK
      <4>3. QED
        BY <4>1, <4>2
    <3>3. QED
      BY <1>1, <3>1, <3>2
  <2>3. QED
    BY <2>1, <2>2
<1>7. HashOfChosen'
  BY <1>5, <1>6 DEF HashOfChosen, Md5
<1>8. QED
  BY <1>3, <1>4, <1>7

LEMMA CreateAccountStep ==
  ASSUME AccountsInv, NEW b \in Browsers, CreateAccount(b)
  PROVE  AccountsInv'
<1> DEFINE u == web[b].user
           x == web[b].text
           h == Hashed(Md5(x), hashes)
<1>1. u \in Users /\ x \in Typed
  BY RequestTyped DEF AccountsInv, CreateAccount
<1>2. web' \in [Browsers -> Request]
  BY IdleTyped, WebTyped DEF AccountsInv, CreateAccount
<1>3. UNCHANGED <<now, serving, crashes, revoked, signedOut>>
  BY DEF CreateAccount
<1>4. RevocationKept'
  BY <1>3, KeepsRevocations DEF AccountsInv
<1>5. CASE UNCHANGED <<hashes, rows, cookies, chosen>>
  <2>1. AccountsTypeOK'
    BY <1>2, <1>3, <1>5 DEF AccountsInv, AccountsTypeOK
  <2>2. QED
    BY <1>3, <1>4, <1>5, <2>1, KeepsHashes DEF AccountsInv
<1>6. CASE /\ rows[u] = NoAccount
           /\ rows' = [rows EXCEPT ![u] = h]
           /\ hashes' = hashes + 1
           /\ \/ chosen' = [chosen EXCEPT ![u] = x] /\ (Sign(u, h) \/ UNCHANGED cookies)
              \/ UNCHANGED <<chosen, cookies>>
  <2>1. h \in Hash
    BY <1>1, TextTyped, HashTyped DEF AccountsInv, AccountsTypeOK
  <2>2. cookies' \subseteq Cookie
    <3> HIDE DEF u, h
    <3>1. QED
      BY <1>1, <1>6, <2>1, SignTyped DEF AccountsInv, AccountsTypeOK
  <2>3. /\ rows' \in [Users -> Hash \cup {NoAccount}]
        /\ chosen' \in [Users -> Typed \cup {NoAccount}]
        /\ hashes' \in Nat
        /\ HashOfChosen'
    <3>1. PICK y \in {x, Md5(x)} : y = Md5(x)
      OBVIOUS
    <3> HIDE DEF u, x
    <3>2. QED
      BY <1>1, <1>3, <1>6, <3>1, RowWritten
  <2>4. AccountsTypeOK'
    BY <1>2, <1>3, <2>2, <2>3 DEF AccountsInv, AccountsTypeOK
  <2>5. QED
    BY <1>4, <2>3, <2>4 DEF AccountsInv
<1>7. QED
  BY <1>5, <1>6 DEF CreateAccount

LEMMA ChangeStep ==
  ASSUME AccountsInv, NEW b \in Browsers, LoadUser(b) \/ ChangePassword(b)
  PROVE  AccountsInv'
<1>1. CASE LoadUser(b)
  <2>1. web[b].cookie.user \in Users /\ web[b].new \in Typed
    BY <1>1, RequestTyped DEF AccountsInv, LoadUser, Cookie
  <2>2. PICK req \in Request : web' = [web EXCEPT ![b] = req]
    <3>1. [step |-> "change", user |-> web[b].cookie.user, text |-> web[b].new] \in Request
      BY <2>1 DEF Request
    <3>2. QED
      BY <1>1, <3>1, IdleTyped DEF LoadUser
  <2>3. UNCHANGED <<now, serving, crashes, hashes, rows, revoked, cookies, chosen, signedOut>>
    BY <1>1 DEF LoadUser
  <2>4. AccountsTypeOK'
    BY <2>2, <2>3, WebTyped DEF AccountsInv, AccountsTypeOK
  <2>5. QED
    BY <2>3, <2>4, KeepsHashes, KeepsRevocations DEF AccountsInv
<1>2. CASE ChangePassword(b)
  <2> DEFINE u == web[b].user
             x == web[b].text
  <2>1. u \in Users /\ x \in Typed
    BY <1>2, RequestTyped DEF AccountsInv, ChangePassword
  <2>2. web' \in [Browsers -> Request]
    BY <1>2, IdleTyped, WebTyped DEF AccountsInv, ChangePassword
  <2>3. UNCHANGED <<now, serving, crashes, revoked, cookies, signedOut>>
    BY <1>2 DEF ChangePassword
  <2>4. /\ rows' = [rows EXCEPT ![u] = Hashed(x, hashes)]
        /\ hashes' = hashes + 1
        /\ chosen' = [chosen EXCEPT ![u] = x]
    BY <1>2 DEF ChangePassword
  <2> HIDE DEF u, x
  <2>5. /\ rows' \in [Users -> Hash \cup {NoAccount}]
        /\ chosen' \in [Users -> Typed \cup {NoAccount}]
        /\ hashes' \in Nat
        /\ HashOfChosen'
    BY <2>1, <2>3, <2>4, RowWritten
  <2>6. AccountsTypeOK'
    BY <2>2, <2>3, <2>5 DEF AccountsInv, AccountsTypeOK
  <2>7. QED
    BY <2>3, <2>5, <2>6, KeepsRevocations DEF AccountsInv
<1>3. QED
  BY <1>1, <1>2

LEMMA RevokeStep ==
  ASSUME AccountsInv, NEW b \in Browsers, Revoke(b)
  PROVE  AccountsInv'
<1> DEFINE c   == web[b].cookie
           row == [token |-> c, expires |-> ExpiresAt(c)]
<1>1. c \in Cookie
  BY RequestTyped DEF AccountsInv, Revoke
<1>2. web' \in [Browsers -> Request]
  BY IdleTyped, WebTyped DEF AccountsInv, Revoke
<1>3. UNCHANGED <<now, serving, crashes, hashes, rows, cookies, chosen>>
  BY DEF Revoke
<1>4. HashOfChosen'
  BY <1>3, KeepsHashes DEF AccountsInv
<1>5. CASE UNCHANGED <<revoked, signedOut>>
  <2>1. AccountsTypeOK'
    BY <1>2, <1>3, <1>5 DEF AccountsInv, AccountsTypeOK
  <2>2. QED
    BY <1>3, <1>4, <1>5, <2>1, KeepsRevocations DEF AccountsInv
<1>6. CASE /\ revoked' = {r \in revoked : r.token # c} \cup {row}
           /\ signedOut' = signedOut \cup {c}
  <2>1. row \in [token : Cookie, expires : Nat]
    BY <1>1, AccountsAssumption DEF Cookie, ExpiresAt
  <2>2. row.token = c /\ row.expires = ExpiresAt(c)
    OBVIOUS
  <2> HIDE DEF row, c
  <2>3. AccountsTypeOK'
    BY <1>1, <1>2, <1>3, <1>6, <2>1 DEF AccountsInv, AccountsTypeOK
  <2>4. ASSUME NEW s \in signedOut'
        PROVE  \/ now >= ExpiresAt(s)
               \/ \E r \in revoked' : r.token = s /\ r.expires = ExpiresAt(s)
    <3>1. CASE s = c
      BY <1>6, <2>2, <3>1
    <3>2. CASE s # c
      BY <1>6, <2>4, <3>2 DEF AccountsInv, RevocationKept
    <3>3. QED
      BY <3>1, <3>2
  <2>5. RevocationKept'
    BY <1>3, <2>4 DEF RevocationKept, ExpiresAt
  <2>6. QED
    BY <1>4, <2>3, <2>5 DEF AccountsInv
<1>7. QED
  BY <1>5, <1>6 DEF Revoke

LEMMA AccountsNextInv == AccountsInv /\ [AccountsNext]_accountVars => AccountsInv'
<1> SUFFICES ASSUME AccountsInv, [AccountsNext]_accountVars PROVE AccountsInv'
  OBVIOUS
<1>1. CASE UNCHANGED accountVars
  <2>1. AccountsTypeOK'
    BY <1>1 DEF accountVars, AccountsInv, AccountsTypeOK
  <2>2. QED
    BY <1>1, <2>1, KeepsHashes, KeepsRevocations DEF accountVars, AccountsInv
<1>2. CASE AccountsNext
  BY <1>2, MigrateStep, ProcessStep, StartAccountStep, StartSessionStep,
     LoginSignsStep, CreateAccountStep, ChangeStep, RevokeStep DEF AccountsNext
<1>3. QED
  BY <1>1, <1>2

-----------------------------------------------------------------------------

LEMMA AccountsInvHolds == AccountsSpec => []AccountsInv
BY AccountsInitInv, AccountsNextInv, PTL DEF AccountsSpec

\* A session whose revocation was stored never authenticates again but in the
\* second in which it expires, whatever is signed in, changed or restarted.
THEOREM SignedOutForGood == AccountsSpec => []SignedOutStaysOut
<1>1. AccountsInv => SignedOutStaysOut
  <2> SUFFICES ASSUME AccountsInv, NEW c \in signedOut, Authenticates(c)
               PROVE  now = ExpiresAt(c)
    BY DEF SignedOutStaysOut
  <2>1. c \in Cookie /\ now \in Nat /\ revoked \subseteq [token : Cookie, expires : Nat]
    BY DEF AccountsInv, AccountsTypeOK
  <2>2. ExpiresAt(c) \in Nat /\ c.issued \in Nat /\ TTL \in Nat
    BY <2>1, AccountsAssumption DEF Cookie, ExpiresAt
  <2>3. now >= ExpiresAt(c)
    BY <2>1, <2>2 DEF AccountsInv, RevocationKept, Authenticates, IsRevoked
  <2>4. now - c.issued <= TTL
    BY DEF Authenticates, Valid
  <2>5. QED
    BY <2>1, <2>2, <2>3, <2>4 DEF ExpiresAt
<1>2. QED
  BY <1>1, AccountsInvHolds, PTL

\* The password last confirmed to an owner signs in on the site while it
\* serves, whatever routes, crashes and migrations went before.
THEOREM ChosenPasswordSignsIn == AccountsSpec => []PasswordSignsIn
<1>1. AccountsInv => PasswordSignsIn
  <2> SUFFICES ASSUME AccountsInv, serving, NEW u \in Users,
                      chosen[u] # NoAccount, Trim(chosen[u]) = chosen[u]
               PROVE  rows[u] # NoAccount /\ WebAccepts(chosen[u], rows[u])
    BY DEF PasswordSignsIn
  <2>1. rows[u] # NoAccount /\ rows[u].of \in {Md5(chosen[u]), chosen[u]}
    BY DEF AccountsInv, HashOfChosen
  <2>2. rows[u].form = "bcrypt"
    <3>1. rows[u] \in Hash /\ rows[u].form # "md5"
      BY <2>1 DEF AccountsInv, AccountsTypeOK, HashOfChosen, Unmigrated
    <3>2. QED
      BY <3>1 DEF Hash
  <2>3. QED
    BY <2>1, <2>2 DEF WebAccepts, Verify
<1>2. QED
  BY <1>1, AccountsInvHolds, PTL

-----------------------------------------------------------------------------
(* Numbers *)

LEMMA Distributes ==
  ASSUME NEW e \in Nat, NEW d \in Nat, NEW r \in Nat
  PROVE  (e + d) * r = e * r + d * r /\ e * r \in Nat /\ d * r \in Nat
OBVIOUS

LEMMA ProductGrows ==
  ASSUME NEW a \in Nat, NEW b \in Nat, NEW r \in Nat, a <= b
  PROVE  a * r <= b * r
<1>1. PICK d \in Nat : b = a + d
  <2>1. b - a \in Nat /\ b = a + (b - a)
    OBVIOUS
  <2>2. QED
    BY <2>1
<1>2. QED
  BY <1>1, Distributes

LEMMA CapacityTyped ==
  ASSUME NEW t \in Tiers
  PROVE  /\ Rpm[t] \in Nat /\ Minute \in Nat
         /\ Capacity(t) \in Nat /\ Capacity(t) >= Minute
         /\ Rpm[t] > 0 => Capacity(t) = Minute * Rpm[t]
<1>1. Rpm[t] \in Nat /\ Minute \in Nat
  BY RateAssumption
<1>2. CASE Rpm[t] = 0
  BY <1>1, <1>2 DEF Capacity
<1>3. CASE Rpm[t] # 0
  <2>1. Capacity(t) = Rpm[t] * Minute
    BY <1>3 DEF Capacity
  <2>2. Rpm[t] * Minute \in Nat /\ 1 * Minute <= Rpm[t] * Minute
    BY <1>1, <1>3, ProductGrows
  <2>3. Rpm[t] * Minute = Minute * Rpm[t] /\ 1 * Minute = Minute
    BY <1>1
  <2>4. QED
    BY <1>1, <2>1, <2>2, <2>3
<1>4. QED
  BY <1>2, <1>3

LEMMA CappedTyped ==
  ASSUME NEW t \in Tiers, NEW x \in Nat
  PROVE  /\ Capped(t, x) \in Nat /\ Capped(t, x) <= Capacity(t)
         /\ x >= Capacity(t) => Capped(t, x) = Capacity(t)
         /\ x <= Capacity(t) => Capped(t, x) = x
BY CapacityTyped DEF Capped

\* A bucket that is filled in two steps is filled in one.
LEMMA CappedTwice ==
  ASSUME NEW t \in Tiers, NEW x \in Nat, NEW y \in Nat
  PROVE  Capped(t, Capped(t, x) + y) = Capped(t, x + y)
<1>1. Capacity(t) \in Nat
  BY CapacityTyped
<1>2. QED
  BY <1>1 DEF Capped

-----------------------------------------------------------------------------
(* The buckets are well typed: LimiterTypeOK but for the waiting times that *)
(* refused clients were told, of which the refinement knows nothing         *)

BucketsTyped ==
    /\ clock \in Nat
    /\ tracked \subseteq Clients
    /\ tokens \in [Clients -> [Tiers -> Nat]]
    /\ updated \in [Clients -> [Tiers -> Nat]]
    /\ seen \in [Clients -> Nat]
    /\ \A c \in Clients : seen[c] <= clock
    /\ \A c \in Clients, t \in Tiers :
          /\ tokens[c][t] <= Capacity(t)
          /\ updated[c][t] <= seen[c]

\* What is in a bucket when it is asked is a number of shares that fits it.
LEMMA RefilledTyped ==
  ASSUME BucketsTyped, NEW c \in Clients, NEW t \in Tiers
  PROVE  /\ Refilled(c, t) \in Nat /\ Refilled(c, t) <= Capacity(t)
         /\ clock - updated[c][t] \in Nat /\ clock - seen[c] \in Nat
         /\ clock - updated[c][t] >= clock - seen[c]
<1>1. /\ tokens[c][t] \in Nat /\ updated[c][t] \in Nat /\ seen[c] \in Nat
      /\ clock \in Nat /\ updated[c][t] <= seen[c] /\ seen[c] <= clock
  BY DEF BucketsTyped
<1>2. clock - updated[c][t] \in Nat
  BY <1>1
<1>3. (clock - updated[c][t]) * Rpm[t] \in Nat
  BY <1>2, CapacityTyped, Distributes
<1>4. tokens[c][t] + (clock - updated[c][t]) * Rpm[t] \in Nat
  BY <1>1, <1>3
<1>5. Capacity(t) \in Nat
  BY CapacityTyped
<1>6. QED
  BY <1>1, <1>2, <1>4, <1>5, CappedTyped DEF Refilled

LEMMA LimiterInitTyped == LimiterInit => BucketsTyped
<1> SUFFICES ASSUME LimiterInit PROVE BucketsTyped
  OBVIOUS
<1>1. \A t \in Tiers : Capacity(t) \in Nat
  BY CapacityTyped
<1>2. QED
  BY <1>1 DEF LimiterInit, BucketsTyped

LEMMA TouchedTyped ==
  ASSUME BucketsTyped, NEW c \in Clients, NEW t \in Tiers,
         NEW left \in Nat, left <= Capacity(t), Touched(c, t, left),
         UNCHANGED clock
  PROVE  BucketsTyped'
<1>1. \A u \in Tiers : Capacity(u) \in Nat
  BY CapacityTyped
<1>2. /\ tracked' \subseteq Clients
      /\ seen' \in [Clients -> Nat] /\ \A k \in Clients : seen'[k] <= clock
  BY DEF BucketsTyped, Touched
<1>3. ASSUME NEW u \in Tiers
      PROVE  /\ tokens'[c][u] \in Nat /\ tokens'[c][u] <= Capacity(u)
             /\ updated'[c][u] \in Nat /\ updated'[c][u] <= seen'[c]
  BY <1>1 DEF BucketsTyped, Touched
<1>4. \A k \in Clients \ {c} : /\ tokens'[k] = tokens[k]
                               /\ updated'[k] = updated[k] /\ seen'[k] = seen[k]
  BY DEF BucketsTyped, Touched
<1>5. tokens' \in [Clients -> [Tiers -> Nat]]
  BY <1>1 DEF BucketsTyped, Touched
<1>6. updated' \in [Clients -> [Tiers -> Nat]]
  <2> DEFINE new == [u \in Tiers |-> IF u = t \/ c \notin tracked THEN clock
                                     ELSE updated[c][u]]
  <2>1. new \in [Tiers -> Nat]
    BY DEF BucketsTyped
  <2>2. updated' = [updated EXCEPT ![c] = new]
    BY DEF Touched
  <2> HIDE DEF new
  <2>3. QED
    BY <2>1, <2>2 DEF BucketsTyped
<1>7. \A k \in Clients, u \in Tiers : /\ tokens'[k][u] <= Capacity(u)
                                      /\ updated'[k][u] <= seen'[k]
  BY <1>3, <1>4 DEF BucketsTyped
<1>8. QED
  BY <1>2, <1>5, <1>6, <1>7 DEF BucketsTyped

\* What is left after a request, whether it passed or not.
LEMMA RequestLeaves ==
  ASSUME BucketsTyped, NEW c \in Clients, NEW t \in Tiers,
         PassRequest(c, t) \/ RefuseRequest(c, t)
  PROVE  /\ UNCHANGED clock
         /\ \E left \in Nat : /\ left <= Capacity(t) /\ Touched(c, t, left)
                              /\ \/ /\ PassRequest(c, t)
                                    /\ Refilled(c, t) >= Minute
                                    /\ left = Refilled(c, t) - Minute
                                 \/ left = Refilled(c, t)
<1>1. /\ Refilled(c, t) \in Nat /\ Refilled(c, t) <= Capacity(t)
      /\ Capacity(t) \in Nat /\ Minute \in Nat
  BY RefilledTyped, CapacityTyped
<1>2. CASE PassRequest(c, t)
  <2>1. /\ Refilled(c, t) >= Minute /\ UNCHANGED clock
        /\ Touched(c, t, Refilled(c, t) - Minute)
    BY <1>2 DEF PassRequest
  <2>2. /\ Refilled(c, t) - Minute \in Nat
        /\ Refilled(c, t) - Minute <= Capacity(t)
    BY <1>1, <2>1
  <2>3. QED
    BY <1>2, <2>1, <2>2
<1>3. CASE RefuseRequest(c, t)
  BY <1>1, <1>3 DEF RefuseRequest
<1>4. QED
  BY <1>2, <1>3

LEMMA LimiterNextTyped ==
  BucketsTyped /\ [LimiterNext]_limiterVars => BucketsTyped'
<1> SUFFICES ASSUME BucketsTyped, [LimiterNext]_limiterVars PROVE BucketsTyped'
  OBVIOUS
<1>1. ASSUME NEW c \in Clients, NEW t \in Tiers,
             PassRequest(c, t) \/ RefuseRequest(c, t)
      PROVE  BucketsTyped'
  BY <1>1, RequestLeaves, TouchedTyped
<1>2. CASE PruneIdle
  BY <1>2 DEF PruneIdle, BucketsTyped
<1>3. ASSUME NEW d \in Jumps, Elapse(d) PROVE BucketsTyped'
  <2>1. d \in Nat
    BY RateAssumption
  <2>2. /\ clock' = clock + d /\ UNCHANGED <<tracked, tokens, updated, seen>>
    BY <1>3 DEF Elapse
  <2>3. clock' \in Nat /\ \A c \in Clients : seen[c] <= clock'
    BY <2>1, <2>2 DEF BucketsTyped
  <2>4. QED
    BY <2>2, <2>3 DEF BucketsTyped
<1>4. CASE UNCHANGED limiterVars
  BY <1>4 DEF limiterVars, BucketsTyped
<1>5. QED
  BY <1>1, <1>2, <1>3, <1>4 DEF LimiterNext

-----------------------------------------------------------------------------
(* The refinement *)

\* Time that passes fills every bucket at once, also those that nobody asks.
LEMMA ElapseFills ==
  ASSUME BucketsTyped, NEW d \in Jumps, Elapse(d), NEW c \in Clients, NEW t \in Tiers
  PROVE  Refilled(c, t)' = Capped(t, Refilled(c, t) + d * Rpm[t])
<1>1. d \in Nat
  BY RateAssumption
<1>2. /\ clock' = clock + d /\ UNCHANGED <<tracked, tokens, updated, seen>>
  BY DEF Elapse
<1> DEFINE e == clock - updated[c][t]
           had == tokens[c][t]
           r == Rpm[t]
<1>3. /\ e \in Nat /\ had \in Nat /\ r \in Nat /\ Capacity(t) \in Nat
      /\ clock' - updated[c][t] = e + d
  BY <1>1, <1>2, RefilledTyped, CapacityTyped DEF BucketsTyped
<1>4. (e + d) * r = e * r + d * r /\ e * r \in Nat /\ d * r \in Nat
  BY <1>1, <1>3, Distributes
<1>5. Refilled(c, t) = IF c \in tracked THEN Capped(t, had + e * r) ELSE Capacity(t)
  BY DEF Refilled
<1>6. Refilled(c, t)' = IF c \in tracked THEN Capped(t, had + (e + d) * r)
                        ELSE Capacity(t)
  BY <1>2, <1>3 DEF Refilled, Capped, Capacity
<1> HIDE DEF e, had, r
<1>7. CASE c \in tracked
  <2>1. had + e * r \in Nat /\ had + (e + d) * r = (had + e * r) + d * r
    BY <1>3, <1>4
  <2>2. Capped(t, Capped(t, had + e * r) + d * r) = Capped(t, (had + e * r) + d * r)
    BY <1>4, <2>1, CappedTwice
  <2>3. QED
    BY <1>5, <1>6, <1>7, <2>1, <2>2 DEF r
<1>8. CASE c \notin tracked
  <2>1. Capacity(t) + d * r \in Nat /\ Capacity(t) + d * r >= Capacity(t)
    BY <1>3, <1>4
  <2>2. Capped(t, Capacity(t) + d * r) = Capacity(t)
    BY <2>1, CappedTyped
  <2>3. QED
    BY <1>5, <1>6, <1>8, <2>2 DEF r
<1>9. QED
  BY <1>7, <1>8

LEMMA ElapseWaits ==
  ASSUME BucketsTyped, NEW d \in Jumps, Elapse(d)
  PROVE  Promise!Wait(d)
<1>1. clock' = clock + d
  BY DEF Elapse
<1>2. \A t, x : Promise!AtMost(t, x) = Capped(t, x)
  BY DEF Promise!AtMost, Promise!Size, Capped, Capacity
<1>3. [c \in Clients |-> [t \in Tiers |-> Refilled(c, t)']]
        = [c \in Clients |-> [t \in Tiers |-> Capped(t, Refilled(c, t) + d * Rpm[t])]]
  BY ElapseFills
<1>4. QED
  BY <1>1, <1>2, <1>3 DEF Promise!Wait

\* A request leaves every other bucket as it is.
LEMMA RequestTouches ==
  ASSUME BucketsTyped, NEW c \in Clients, NEW t \in Tiers,
         NEW left \in Nat, left <= Capacity(t), Touched(c, t, left), UNCHANGED clock
  PROVE  \A k \in Clients, u \in Tiers :
            Refilled(k, u)' = IF k = c /\ u = t THEN left ELSE Refilled(k, u)
<1> SUFFICES ASSUME NEW k \in Clients, NEW u \in Tiers
             PROVE  Refilled(k, u)' = IF k = c /\ u = t THEN left ELSE Refilled(k, u)
  OBVIOUS
<1>1. Refilled(k, u)' = IF k \in tracked'
                        THEN Capped(u, tokens'[k][u] + (clock - updated'[k][u]) * Rpm[u])
                        ELSE Capacity(u)
  BY DEF Refilled, Capped, Capacity
<1>2. tracked' = tracked \cup {c}
  BY DEF Touched
<1>3. CASE k # c
  <2>1. tokens'[k] = tokens[k] /\ updated'[k] = updated[k] /\ (k \in tracked' <=> k \in tracked)
    BY <1>3 DEF BucketsTyped, Touched
  <2>2. QED
    BY <1>1, <1>3, <2>1 DEF Refilled
<1>4. CASE k = c /\ (u = t \/ c \notin tracked)
  <2>1. updated'[k][u] = clock
    BY <1>4 DEF BucketsTyped, Touched
  <2>2. tokens'[k][u] = IF u = t THEN left ELSE Capacity(u)
    BY <1>4 DEF BucketsTyped, Touched
  <2>3. (clock - updated'[k][u]) * Rpm[u] = 0 /\ tokens'[k][u] \in Nat
        /\ tokens'[k][u] <= Capacity(u)
    <3>1. clock \in Nat /\ Rpm[u] \in Nat /\ Capacity(u) \in Nat
      BY CapacityTyped DEF BucketsTyped
    <3>2. QED
      BY <2>1, <2>2, <3>1
  <2>4. Capped(u, tokens'[k][u] + (clock - updated'[k][u]) * Rpm[u]) = tokens'[k][u]
    BY <2>3, CappedTyped
  <2>5. QED
    BY <1>1, <1>2, <1>4, <2>2, <2>4 DEF Refilled
<1>5. CASE k = c /\ u # t /\ c \in tracked
  <2>1. tokens'[k][u] = tokens[k][u] /\ updated'[k][u] = updated[k][u]
    BY <1>5 DEF BucketsTyped, Touched
  <2>2. QED
    BY <1>1, <1>2, <1>5, <2>1 DEF Refilled
<1>6. QED
  BY <1>3, <1>4, <1>5

\* An address that is forgotten had full buckets.
LEMMA PruneUnseen ==
  ASSUME BucketsTyped, PruneIdle, IdleMax >= Minute, \A t \in Tiers : Rpm[t] > 0
  PROVE  \A k \in Clients, u \in Tiers : Refilled(k, u)' = Refilled(k, u)
<1> SUFFICES ASSUME NEW k \in Clients, NEW u \in Tiers
             PROVE  Refilled(k, u)' = Refilled(k, u)
  OBVIOUS
<1>1. Refilled(k, u)' = IF k \in tracked'
                        THEN Capped(u, tokens[k][u] + (clock - updated[k][u]) * Rpm[u])
                        ELSE Capacity(u)
  BY DEF PruneIdle, Refilled, Capped, Capacity
<1>2. tracked' = {c \in tracked : clock - seen[c] < IdleMax}
  BY DEF PruneIdle
<1>3. CASE k \in tracked' \/ k \notin tracked
  BY <1>1, <1>2, <1>3 DEF Refilled
<1>4. CASE k \in tracked /\ k \notin tracked'
  <2> DEFINE e == clock - updated[k][u]
             full == Minute * Rpm[u]
  <2>1. /\ Minute \in Nat /\ Rpm[u] \in Nat /\ tokens[k][u] \in Nat /\ e \in Nat
        /\ Capacity(u) = full /\ Capacity(u) \in Nat
    BY RefilledTyped, CapacityTyped DEF BucketsTyped
  <2>2. e >= Minute
    BY <1>2, <1>4, <2>1, RefilledTyped, RateAssumption
  <2> HIDE DEF e, full
  <2>3. full <= e * Rpm[u] /\ e * Rpm[u] \in Nat
    BY <2>1, <2>2, ProductGrows, Distributes DEF full
  <2>4. /\ tokens[k][u] + e * Rpm[u] \in Nat
        /\ tokens[k][u] + e * Rpm[u] >= Capacity(u)
    BY <2>1, <2>3
  <2>5. Capped(u, tokens[k][u] + e * Rpm[u]) = Capacity(u)
    BY <2>4, CappedTyped
  <2>6. QED
    BY <1>1, <1>4, <2>5 DEF Refilled, e
<1>5. QED
  BY <1>3, <1>4

LEMMA LevelsStutter ==
  ASSUME \A k \in Clients, u \in Tiers : Refilled(k, u)' = Refilled(k, u),
         UNCHANGED clock
  PROVE  UNCHANGED <<clock, [c \in Clients |-> [t \in Tiers |-> Refilled(c, t)]]>>
<1>1. [c \in Clients |-> [t \in Tiers |-> Refilled(c, t)']]
        = [c \in Clients |-> [t \in Tiers |-> Refilled(c, t)]]
  OBVIOUS
<1>2. QED
  BY <1>1

\* What passes takes a token from the bucket that was always there.
LEMMA PassTakes ==
  ASSUME BucketsTyped, NEW c \in Clients, NEW t \in Tiers,
         Refilled(c, t) >= Minute, UNCHANGED clock,
         \A k \in Clients, u \in Tiers :
            Refilled(k, u)' = IF k = c /\ u = t THEN Refilled(c, t) - Minute
                              ELSE Refilled(k, u)
  PROVE  Promise!Take(c, t)
<1> DEFINE level == [k \in Clients |-> [u \in Tiers |-> Refilled(k, u)]]
           next  == [k \in Clients |-> [u \in Tiers |-> Refilled(k, u)']]
<1>1. level[c][t] = Refilled(c, t)
  OBVIOUS
<1>2. next = [level EXCEPT ![c][t] = @ - Minute]
  <2>1. \A k \in Clients : next[k] = [level EXCEPT ![c][t] = @ - Minute][k]
    <3>1. ASSUME NEW k \in Clients, k # c
          PROVE  next[k] = [level EXCEPT ![c][t] = @ - Minute][k]
      BY <3>1
    <3>2. next[c] = [level[c] EXCEPT ![t] = @ - Minute]
      OBVIOUS
    <3>3. [level EXCEPT ![c][t] = @ - Minute][c] = [level[c] EXCEPT ![t] = @ - Minute]
      OBVIOUS
    <3>4. QED
      BY <3>1, <3>2, <3>3
  <2>2. QED
    BY <2>1
<1>3. level' = next
  OBVIOUS
<1>4. level' = [level EXCEPT ![c][t] = @ - Minute]
  BY <1>2, <1>3
<1>5. QED
  BY <1>1, <1>4 DEF Promise!Take

\* Forgetting an address that was idle for IdleMax cannot be noticed: the lazy
\* limiter implements the one that keeps every bucket, if no limit is zero and
\* an address is kept for a minute at least.
THEOREM NothingForgotten ==
  ASSUME IdleMax >= Minute, \A t \in Tiers : Rpm[t] > 0
  PROVE  LimiterSpec => NeverForgets
<1>1. LimiterInit => BucketsTyped
  BY LimiterInitTyped DEF LimiterTypeOK, BucketsTyped
<1>2. LimiterInit => Promise!Init
  BY DEF LimiterInit, Promise!Init, Promise!Size, Refilled, Capacity
<1>3. BucketsTyped /\ [LimiterNext]_limiterVars
        => [Promise!Next]_<<clock, [c \in Clients |-> [t \in Tiers |-> Refilled(c, t)]]>>
  <2> SUFFICES ASSUME BucketsTyped, [LimiterNext]_limiterVars
               PROVE  \/ Promise!Next
                      \/ UNCHANGED <<clock, [c \in Clients |-> [t \in Tiers |-> Refilled(c, t)]]>>
    OBVIOUS
  <2>1. ASSUME NEW c \in Clients, NEW t \in Tiers,
               PassRequest(c, t) \/ RefuseRequest(c, t)
        PROVE  \/ Promise!Take(c, t)
               \/ UNCHANGED <<clock, [k \in Clients |-> [u \in Tiers |-> Refilled(k, u)]]>>
    <3>1. PICK left \in Nat : /\ left <= Capacity(t) /\ Touched(c, t, left)
                              /\ \/ /\ Refilled(c, t) >= Minute
                                    /\ left = Refilled(c, t) - Minute
                                 \/ left = Refilled(c, t)
      BY <2>1, RequestLeaves
    <3>2. UNCHANGED clock
      BY <2>1, RequestLeaves
    <3>3. \A k \in Clients, u \in Tiers :
             Refilled(k, u)' = IF k = c /\ u = t THEN left ELSE Refilled(k, u)
      BY <3>1, <3>2, RequestTouches
    <3>4. CASE left = Refilled(c, t)
      BY <3>2, <3>3, <3>4, LevelsStutter
    <3>5. CASE Refilled(c, t) >= Minute /\ left = Refilled(c, t) - Minute
      BY <3>2, <3>3, <3>5, PassTakes
    <3>6. QED
      BY <3>1, <3>4, <3>5
  <2>2. CASE PruneIdle
    BY <2>2, PruneUnseen, LevelsStutter DEF PruneIdle
  <2>3. ASSUME NEW d \in Jumps, Elapse(d) PROVE Promise!Wait(d)
    BY <2>3, ElapseWaits
  <2>4. CASE UNCHANGED limiterVars
    <3>1. \A k \in Clients, u \in Tiers : Refilled(k, u)' = Refilled(k, u)
      BY <2>4 DEF limiterVars, Refilled, Capped, Capacity
    <3>2. QED
      BY <2>4, <3>1, LevelsStutter DEF limiterVars
  <2>5. QED
    BY <2>1, <2>2, <2>3, <2>4 DEF LimiterNext, Promise!Next
<1>4. QED
  BY <1>1, <1>2, <1>3, LimiterNextTyped, PTL
     DEF LimiterSpec, NeverForgets, Promise!Spec
-----------------------------------------------------------------------------
(* Retry-After.  What is inductive is not the promise for the moment it    *)
(* names but the one for every later moment, which time cannot break.      *)

\* Whenever a refused client is back after the time it was told, a token is there.
Awaited(c, t) ==
    told[c][t] # Nothing /\ Rpm[t] > 0 =>
        \A w \in Nat : clock + w >= told[c][t] => Refilled(c, t) + w * Rpm[t] >= Minute

RetryInv ==
    /\ BucketsTyped
    /\ told \in [Clients -> [Tiers -> Nat \cup {Nothing}]]
    /\ \A c \in Clients, t \in Tiers : Awaited(c, t)

\* Each number of a set of numbers is at least one of them.
LEMMA LeastOf ==
  ASSUME NEW S \in SUBSET Nat, S # {}
  PROVE  \E x \in S : \A y \in S : x <= y
<1>1. IsWellFoundedOn(OpToRel(<, Nat), Nat)
  BY NatLessThanWellFounded
<1>2. PICK x \in S : \A y \in S : ~ (<<y, x>> \in OpToRel(<, Nat))
  BY <1>1, WFMin
<1>3. ASSUME NEW y \in S PROVE x <= y
  <2>1. <<y, x>> \in Nat \X Nat /\ ~ (<<y, x>> \in OpToRel(<, Nat))
    BY <1>2
  <2>2. QED
    BY <2>1 DEF OpToRel
<1>4. QED
  BY <1>3

\* The waiting time is long enough, if it is not for ever.
LEMMA RetryAfterFills ==
  ASSUME NEW t \in Tiers, NEW left \in Nat, left < Minute
  PROVE  /\ RetryAfter(t, left) \in Nat
         /\ Rpm[t] > 0 => left + RetryAfter(t, left) * Rpm[t] >= Minute
<1>1. Rpm[t] \in Nat /\ Minute \in Nat \ {0}
  BY RateAssumption
<1>2. CASE Rpm[t] = 0
  BY <1>1, <1>2 DEF RetryAfter
<1>3. CASE Rpm[t] # 0
  <2> DEFINE S == {w \in 1 .. Minute : left + w * Rpm[t] >= Minute}
  <2>1. Minute \in S
    <3>1. 1 * Rpm[t] <= Minute * Rpm[t] /\ Minute * Rpm[t] \in Nat
      BY <1>1, ProductGrows, Distributes
    <3>2. Minute * 1 <= Minute * Rpm[t]
      <4>1. 1 * Minute <= Rpm[t] * Minute
        BY <1>1, <1>3, ProductGrows
      <4>2. 1 * Minute = Minute * 1 /\ Rpm[t] * Minute = Minute * Rpm[t]
        BY <1>1
      <4>3. QED
        BY <4>1, <4>2
    <3>3. QED
      BY <1>1, <3>1, <3>2
  <2>2. S \in SUBSET Nat
    BY <1>1
  <2>3. PICK m \in S : \A y \in S : m <= y
    BY <2>1, <2>2, LeastOf
  <2>4. /\ m \in 1 .. Minute /\ left + m * Rpm[t] >= Minute
        /\ \A v \in 1 .. (m - 1) : left + v * Rpm[t] < Minute
    <3>1. m \in 1 .. Minute /\ left + m * Rpm[t] >= Minute
      OBVIOUS
    <3>2. ASSUME NEW v \in 1 .. (m - 1) PROVE left + v * Rpm[t] < Minute
      <4>1. v \in 1 .. Minute /\ ~(m <= v) /\ v \in Nat
        BY <1>1, <3>1
      <4>2. ~(left + v * Rpm[t] >= Minute)
        BY <2>3, <4>1
      <4>3. v * Rpm[t] \in Nat
        BY <1>1, <4>1, Distributes
      <4>4. QED
        BY <1>1, <4>2, <4>3
    <3>3. QED
      BY <3>1, <3>2
  <2> HIDE DEF S
  <2>5. \E w \in 1 .. Minute :
           /\ left + w * Rpm[t] >= Minute
           /\ \A v \in 1 .. (w - 1) : left + v * Rpm[t] < Minute
    BY <2>4
  <2>6. /\ RetryAfter(t, left) \in 1 .. Minute
        /\ left + RetryAfter(t, left) * Rpm[t] >= Minute
    BY <1>3, <2>5 DEF RetryAfter
  <2>7. QED
    BY <1>1, <2>6
<1>4. QED
  BY <1>2, <1>3

LEMMA RetryInitInv == LimiterInit => RetryInv
<1> SUFFICES ASSUME LimiterInit PROVE RetryInv
  OBVIOUS
<1>1. told = [c \in Clients |-> [t \in Tiers |-> Nothing]]
  BY DEF LimiterInit
<1>2. QED
  BY <1>1, LimiterInitTyped DEF RetryInv, Awaited

\* A bucket that holds as much as before keeps what its client was told.
LEMMA AwaitedStays ==
  ASSUME NEW c \in Clients, NEW t \in Tiers, Awaited(c, t),
         Refilled(c, t)' = Refilled(c, t), told'[c][t] = told[c][t], UNCHANGED clock
  PROVE  Awaited(c, t)'
BY DEF Awaited

LEMMA RequestAwaited ==
  ASSUME RetryInv, NEW c \in Clients, NEW t \in Tiers,
         PassRequest(c, t) \/ RefuseRequest(c, t)
  PROVE  RetryInv'
<1>1. BucketsTyped' /\ UNCHANGED clock
  BY LimiterNextTyped, RequestLeaves DEF RetryInv, LimiterNext
<1>2. /\ Refilled(c, t) \in Nat /\ Minute \in Nat /\ Rpm[t] \in Nat /\ clock \in Nat
  BY RefilledTyped, RateAssumption DEF RetryInv, BucketsTyped
<1>3. PICK left \in Nat : left <= Capacity(t) /\ Touched(c, t, left)
  BY RequestLeaves DEF RetryInv
<1>4. \A k \in Clients, u \in Tiers :
         k # c \/ u # t => Refilled(k, u)' = Refilled(k, u)
  BY <1>1, <1>3, RequestTouches DEF RetryInv
<1>5. PICK when \in Nat \cup {Nothing} : told' = [told EXCEPT ![c][t] = when]
  <2>1. CASE PassRequest(c, t)
    BY <2>1 DEF PassRequest
  <2>2. CASE RefuseRequest(c, t)
    <3>1. RetryAfter(t, Refilled(c, t)) \in Nat
      BY <1>2, <2>2, RetryAfterFills DEF RefuseRequest
    <3>2. clock + RetryAfter(t, Refilled(c, t)) \in Nat
      BY <1>2, <3>1
    <3>3. QED
      BY <2>2, <3>2 DEF RefuseRequest
  <2>3. QED
    BY <2>1, <2>2
<1>6. told' \in [Clients -> [Tiers -> Nat \cup {Nothing}]]
  BY <1>5 DEF RetryInv
<1>7. \A k \in Clients, u \in Tiers : k # c \/ u # t => told'[k][u] = told[k][u]
  BY <1>5 DEF RetryInv
<1>8. Awaited(c, t)'
  <2>1. CASE PassRequest(c, t)
    <3>1. told'[c][t] = Nothing
      BY <2>1 DEF PassRequest, RetryInv
    <3>2. QED
      BY <3>1 DEF Awaited
  <2>2. CASE RefuseRequest(c, t)
    <3> DEFINE wait == RetryAfter(t, Refilled(c, t))
    <3>1. wait \in Nat /\ (Rpm[t] > 0 => Refilled(c, t) + wait * Rpm[t] >= Minute)
      BY <1>2, <2>2, RetryAfterFills DEF RefuseRequest
    <3>2. told'[c][t] = clock + wait
      BY <2>2 DEF RefuseRequest, RetryInv
    <3>3. Refilled(c, t)' = Refilled(c, t)
      <4>1. Refilled(c, t) <= Capacity(t) /\ Touched(c, t, Refilled(c, t))
        BY <2>2, RefilledTyped DEF RefuseRequest, RetryInv
      <4>2. QED
        BY <1>1, <1>2, <4>1, RequestTouches DEF RetryInv
    <3> HIDE DEF wait
    <3>4. ASSUME NEW w \in Nat, clock + w >= clock + wait, Rpm[t] > 0
          PROVE  Refilled(c, t) + w * Rpm[t] >= Minute
      <4>1. wait <= w
        BY <1>2, <3>1, <3>4
      <4>2. wait * Rpm[t] <= w * Rpm[t]
        BY <1>2, <3>1, <4>1, ProductGrows
      <4>3. w * Rpm[t] \in Nat /\ wait * Rpm[t] \in Nat
        BY <1>2, <3>1, Distributes
      <4>4. QED
        BY <1>2, <3>1, <3>4, <4>2, <4>3
    <3>5. QED
      BY <1>1, <3>2, <3>3, <3>4 DEF Awaited
  <2>3. QED
    BY <2>1, <2>2
<1>9. ASSUME NEW k \in Clients, NEW u \in Tiers
      PROVE  Awaited(k, u)'
  <2>1. CASE k # c \/ u # t
    BY <1>1, <1>4, <1>7, <2>1, AwaitedStays DEF RetryInv
  <2>2. CASE k = c /\ u = t
    BY <1>8, <2>2
  <2>3. QED
    BY <2>1, <2>2
<1>10. QED
  BY <1>1, <1>6, <1>9 DEF RetryInv

\* Whoever is forgotten will find full buckets, also before IdleMax is a minute.
LEMMA PruneAwaited ==
  ASSUME RetryInv, PruneIdle
  PROVE  RetryInv'
<1>1. BucketsTyped' /\ UNCHANGED <<clock, told>>
  BY LimiterNextTyped DEF RetryInv, LimiterNext, PruneIdle
<1>2. ASSUME NEW k \in Clients, NEW u \in Tiers PROVE Awaited(k, u)'
  <2>1. \/ Refilled(k, u)' = Refilled(k, u)
        \/ Refilled(k, u)' = Capacity(u)
    BY DEF PruneIdle, Refilled, Capped, Capacity
  <2>2. CASE Refilled(k, u)' = Refilled(k, u)
    BY <1>1, <2>2, AwaitedStays DEF RetryInv
  <2>3. CASE Refilled(k, u)' = Capacity(u)
    <3>1. \A w \in Nat : Capacity(u) + w * Rpm[u] >= Minute
      <4>1. Capacity(u) \in Nat /\ Capacity(u) >= Minute /\ Rpm[u] \in Nat /\ Minute \in Nat
        BY CapacityTyped
      <4>2. ASSUME NEW w \in Nat PROVE w * Rpm[u] \in Nat
        BY <4>1, Distributes
      <4>3. QED
        BY <4>1, <4>2
    <3>2. QED
      BY <2>3, <3>1 DEF Awaited
  <2>4. QED
    BY <2>1, <2>2, <2>3
<1>3. QED
  BY <1>1, <1>2 DEF RetryInv

LEMMA ElapseAwaited ==
  ASSUME RetryInv, NEW d \in Jumps, Elapse(d)
  PROVE  RetryInv'
<1>1. BucketsTyped' /\ UNCHANGED told /\ clock' = clock + d
  BY LimiterNextTyped DEF RetryInv, LimiterNext, Elapse
<1>2. ASSUME NEW k \in Clients, NEW u \in Tiers PROVE Awaited(k, u)'
  <2>1. /\ d \in Nat /\ clock \in Nat /\ Rpm[u] \in Nat /\ Minute \in Nat
        /\ Capacity(u) \in Nat /\ Capacity(u) >= Minute /\ Refilled(k, u) \in Nat
    BY RateAssumption, CapacityTyped, RefilledTyped DEF RetryInv, BucketsTyped
  <2>2. Refilled(k, u)' = Capped(u, Refilled(k, u) + d * Rpm[u])
    BY ElapseFills DEF RetryInv
  <2>3. ASSUME NEW w \in Nat, told[k][u] # Nothing, Rpm[u] > 0,
               (clock + d) + w >= told[k][u]
        PROVE  Refilled(k, u)' + w * Rpm[u] >= Minute
    <3>1. /\ (d + w) * Rpm[u] = d * Rpm[u] + w * Rpm[u]
          /\ d * Rpm[u] \in Nat /\ w * Rpm[u] \in Nat
      BY <2>1, Distributes
    <3>2. told[k][u] \in Nat
      BY <2>3 DEF RetryInv
    <3>3. d + w \in Nat /\ clock + (d + w) >= told[k][u]
      BY <2>1, <2>3, <3>2
    <3>4. Refilled(k, u) + (d + w) * Rpm[u] >= Minute
      BY <2>3, <3>3 DEF RetryInv, Awaited
    <3>5. \/ Refilled(k, u)' = Refilled(k, u) + d * Rpm[u]
          \/ Refilled(k, u)' = Capacity(u)
      BY <2>2 DEF Capped
    <3>6. QED
      BY <2>1, <3>1, <3>4, <3>5
  <2>4. QED
    BY <1>1, <2>3 DEF Awaited
<1>3. QED
  BY <1>1, <1>2 DEF RetryInv

LEMMA RetryNextInv == RetryInv /\ [LimiterNext]_limiterVars => RetryInv'
<1> SUFFICES ASSUME RetryInv, [LimiterNext]_limiterVars PROVE RetryInv'
  OBVIOUS
<1>1. CASE UNCHANGED limiterVars
  <2>1. ASSUME NEW k \in Clients, NEW u \in Tiers PROVE Awaited(k, u)'
    BY <1>1 DEF RetryInv, Awaited, limiterVars, Refilled, Capped, Capacity
  <2>2. QED
    BY <1>1, <2>1, LimiterNextTyped DEF RetryInv, limiterVars
<1>2. QED
  BY <1>1, RequestAwaited, PruneAwaited, ElapseAwaited DEF LimiterNext

LEMMA RetryInvHolds == LimiterSpec => []RetryInv
BY RetryInitInv, RetryNextInv, PTL DEF LimiterSpec

\* A client that was refused, and comes back when Retry-After told it to without
\* having passed in between, passes, for every limit and every forgetting of
\* idle addresses (retry_after_seconds rounds up what try_acquire refills).
THEOREM RetryAfterIsEnough == LimiterSpec => []RetryIsHonest
<1>1. RetryInv => RetryIsHonest
  <2> SUFFICES ASSUME RetryInv, NEW c \in Clients, NEW t \in Tiers,
                      told[c][t] # Nothing, clock >= told[c][t], Rpm[t] > 0
               PROVE  Refilled(c, t) >= Minute
    BY DEF RetryIsHonest
  <2>1. /\ clock \in Nat /\ Rpm[t] \in Nat /\ Minute \in Nat /\ Refilled(c, t) \in Nat
    BY RefilledTyped, CapacityTyped DEF RetryInv, BucketsTyped
  <2>2. clock + 0 >= told[c][t] => Refilled(c, t) + 0 * Rpm[t] >= Minute
    BY DEF RetryInv, Awaited
  <2>3. QED
    BY <2>1, <2>2
<1>2. QED
  BY <1>1, RetryInvHolds, PTL

\* Buckets never hold more than their size, last_update is not after last_seen,
\* and last_seen not in the future.
THEOREM LimiterTypeCorrect == LimiterSpec => []LimiterTypeOK
<1>1. RetryInv => LimiterTypeOK
  BY DEF RetryInv, BucketsTyped, LimiterTypeOK
<1>2. QED
  BY <1>1, RetryInvHolds, PTL

-----------------------------------------------------------------------------
(* Accounts per machine *)

\* The users recorded with some adapters, or with some disk.
AdapterUsers(a) == {r.user : r \in {q \in machineRows : q.hw.adapters = a}}
DiskUsers(d)    == {r.user : r \in {q \in machineRows : q.hw.disk = d}}

\* TooMany, for the rows of any moment.
NamingIn(rs, h) == {r \in rs : /\ r.protected
                               /\ \/ h.adapters # "" /\ r.hw.adapters = h.adapters
                                  \/ h.disk # "" /\ r.hw.disk = h.disk}
Full(rs, who, h) ==
    /\ h.adapters # "" \/ h.disk # ""
    /\ Cardinality({r.user : r \in NamingIn(rs, h)} \ {who}) >= MaxPerMachine

\* A login that passed its check, and was not overtaken since, passes it still.
StillFits(l) ==
    login[l].step \in {"create", "record"} /\ login[l].checked = TRUE =>
        ~Full(machineRows, IF login[l].step = "record" THEN login[l].who ELSE Unknown,
              login[l].hw)

MachinesInv ==
    /\ MachinesTypeOK
    /\ started => \A r \in machineRows : r.protected = TRUE
    /\ \A l \in Logins : login[l].step # "idle" => started
    /\ \A l \in Logins : StillFits(l)
    /\ AccountsPerMachine

LEMMA TooManyIsFull ==
  ASSUME NEW who, NEW h
  PROVE  TooMany(who, h) <=> Full(machineRows, who, h)
BY DEF TooMany, Full, Naming, NamingIn

LEMMA MaxTyped == MaxPerMachine \in Nat
BY MachinesAssumption

\* Sets of names can be counted, and a smaller one has not more of them.
LEMMA NamesCounted ==
  ASSUME NEW S, NEW T, S \subseteq T, T \subseteq Names
  PROVE  /\ IsFiniteSet(T) /\ Cardinality(S) \in Nat /\ Cardinality(T) \in Nat
         /\ Cardinality(S) <= Cardinality(T)
<1>1. IsFiniteSet(T)
  BY MachinesAssumption, FS_Subset
<1>2. IsFiniteSet(S) /\ Cardinality(S) <= Cardinality(T)
  BY <1>1, FS_Subset
<1>3. QED
  BY <1>1, <1>2, FS_CardinalityType

\* The number of users of some rows is not above the number of the rows.
LEMMA UsersOfRows ==
  ASSUME NEW R, R \subseteq MachineOf, NEW Q, Q \subseteq R
  PROVE  /\ Cardinality({r.user : r \in Q}) \in Nat /\ Cardinality(R) \in Nat
         /\ Cardinality({r.user : r \in Q}) <= Cardinality(R)
<1>1. IsFiniteSet(R)
  <2> DEFINE P  == (Names \X Hardware) \X BOOLEAN
             of == [p \in P |-> [user |-> p[1][1], hw |-> p[1][2], protected |-> p[2]]]
  <2>1. IsFiniteSet(P)
    <3>1. IsFiniteSet(Names \X Hardware)
      BY MachinesAssumption, FS_Product
    <3>2. IsFiniteSet({TRUE, FALSE}) /\ BOOLEAN = {TRUE, FALSE}
      <4>1. IsFiniteSet({TRUE})
        BY FS_Singleton
      <4>2. IsFiniteSet({TRUE} \cup {FALSE})
        BY <4>1, FS_AddElement
      <4>3. {TRUE} \cup {FALSE} = {TRUE, FALSE}
        OBVIOUS
      <4>4. QED
        BY <4>2, <4>3
    <3>3. QED
      BY <3>1, <3>2, FS_Product
  <2>2. of \in Surjection(P, MachineOf)
    <3>1. of \in [P -> MachineOf]
      BY DEF MachineOf
    <3>2. ASSUME NEW r \in MachineOf PROVE \E p \in P : of[p] = r
      <4>1. <<<<r.user, r.hw>>, r.protected>> \in P
        BY DEF MachineOf
      <4>2. of[<<<<r.user, r.hw>>, r.protected>>] = r
        BY <4>1 DEF MachineOf
      <4>3. QED
        BY <4>1, <4>2
    <3> HIDE DEF of, P
    <3>3. QED
      BY <3>1, <3>2 DEF Surjection
  <2>3. IsFiniteSet(MachineOf)
    BY <2>1, <2>2, FS_Surjection
  <2>4. QED
    BY <2>3, FS_Subset
<1>2. IsFiniteSet(Q) /\ Cardinality(Q) <= Cardinality(R)
  BY <1>1, FS_Subset
<1> DEFINE T == {r.user : r \in Q}
           g == [r \in Q |-> r.user]
<1>3. g \in Surjection(Q, T)
  BY DEF Surjection
<1> HIDE DEF g
<1>4. IsFiniteSet(T) /\ Cardinality(T) <= Cardinality(Q)
  BY <1>2, <1>3, FS_Surjection
<1>5. Cardinality(T) \in Nat /\ Cardinality(Q) \in Nat /\ Cardinality(R) \in Nat
  BY <1>1, <1>2, <1>4, FS_CardinalityType
<1>6. QED
  BY <1>2, <1>4, <1>5

LEMMA RecordedNames ==
  ASSUME MachinesTypeOK
  PROVE  /\ \A a : AdapterUsers(a) \subseteq Names
         /\ \A d : DiskUsers(d) \subseteq Names
         /\ \A h : {r.user : r \in NamingIn(machineRows, h)} \subseteq Names
BY DEF MachinesTypeOK, MachineOf, AdapterUsers, DiskUsers, NamingIn

LEMMA MachinesInitInv == MachinesInit => MachinesInv
<1> SUFFICES ASSUME MachinesInit PROVE MachinesInv
  OBVIOUS
<1>1. /\ users \subseteq Names
      /\ machineRows \subseteq [user : users, hw : Hardware, protected : {FALSE}]
      /\ Cardinality(machineRows) <= MaxPerMachine
      /\ started = FALSE /\ login = [l \in Logins |-> NoLogin] /\ excused = {}
  BY DEF MachinesInit
<1>2. machineRows \subseteq MachineOf
  BY <1>1 DEF MachineOf
<1>3. NoLogin \in Login
  BY DEF Login
<1>4. MachinesTypeOK
  BY <1>1, <1>2, <1>3 DEF MachinesTypeOK
<1>5. \A l \in Logins : login[l].step = "idle"
  BY <1>1 DEF NoLogin
<1>6. AccountsPerMachine
  <2>1. ASSUME NEW Q, Q \subseteq machineRows
        PROVE  Cardinality({r.user : r \in Q} \ excused) <= MaxPerMachine
    <3>1. {r.user : r \in Q} \ excused = {r.user : r \in Q}
      BY <1>1
    <3>2. /\ Cardinality({r.user : r \in Q}) \in Nat /\ Cardinality(machineRows) \in Nat
          /\ Cardinality({r.user : r \in Q}) <= Cardinality(machineRows)
      BY <1>2, <2>1, UsersOfRows
    <3>3. QED
      BY <1>1, <3>1, <3>2, MaxTyped
  <2>2. QED
    BY <2>1 DEF AccountsPerMachine
<1>7. QED
  BY <1>1, <1>4, <1>5, <1>6 DEF MachinesInv, StillFits

-----------------------------------------------------------------------------
(* The steps of a login *)

\* What is known of a login holds as long as its record and the rows stay.
LEMMA FitStays ==
  ASSUME NEW l \in Logins, StillFits(l), login'[l] = login[l], UNCHANGED machineRows
  PROVE  StillFits(l)'
BY DEF StillFits

LEMMA LimitStays ==
  ASSUME AccountsPerMachine, UNCHANGED <<machineRows, excused>>
  PROVE  AccountsPerMachine'
BY DEF AccountsPerMachine

\* A login in flight has the type of its step.
LEMMA LoginTyped ==
  ASSUME MachinesTypeOK, NEW l \in Logins
  PROVE  /\ login[l].step = "check" =>
               login[l] \in [step : {"check"}, name : Names, hw : Hardware,
                             exempt : BOOLEAN, who : Names \cup {Unknown}]
         /\ login[l].step = "create" =>
               login[l] \in [step : {"create"}, name : Names, hw : Hardware,
                             checked : BOOLEAN]
         /\ login[l].step = "record" =>
               login[l] \in [step : {"record"}, who : Names, hw : Hardware,
                             checked : BOOLEAN]
<1>1. login[l] \in Login
  BY DEF MachinesTypeOK
<1>2. QED
  BY <1>1 DEF Login, NoLogin

\* A step that turns one login into another that fits.
LEMMA LoginStep ==
  ASSUME MachinesInv, started = TRUE, NEW l \in Logins, NEW new \in Login,
         login' = [login EXCEPT ![l] = new],
         StillFits(l)', users' \subseteq Names,
         UNCHANGED <<started, machineRows, excused>>
  PROVE  MachinesInv'
<1>1. \A k \in Logins : k # l => login'[k] = login[k]
  BY DEF MachinesInv, MachinesTypeOK
<1>2. login' \in [Logins -> Login]
  BY DEF MachinesInv, MachinesTypeOK
<1>3. MachinesTypeOK'
  BY <1>2 DEF MachinesInv, MachinesTypeOK
<1>4. \A k \in Logins : StillFits(k)'
  <2> TAKE k \in Logins
  <2>1. CASE k = l
    BY <2>1
  <2>2. CASE k # l
    BY <1>1, <2>2, FitStays DEF MachinesInv
  <2>3. QED
    BY <2>1, <2>2
<1>5. AccountsPerMachine'
  BY LimitStays DEF MachinesInv
<1>6. QED
  BY <1>3, <1>4, <1>5 DEF MachinesInv

LEMMA ArriveStep ==
  ASSUME MachinesInv, NEW l \in Logins, NEW n \in Names, NEW h \in Hardware,
         NEW net \in Networks, Arrive(l, n, h, net)
  PROVE  MachinesInv'
<1> DEFINE p   == (net = "private")
           new == [step |-> "check", name |-> n, hw |-> h, exempt |-> p,
                   who |-> IF Clean[n] \in users THEN Clean[n] ELSE Unknown]
<1>1. /\ login' = [login EXCEPT ![l] = new] /\ started \in BOOLEAN /\ started
      /\ UNCHANGED <<started, users, machineRows, excused>>
  BY DEF Arrive, MachinesInv, MachinesTypeOK
<1>2. new \in Login
  <2>1. p \in BOOLEAN
    OBVIOUS
  <2> HIDE DEF p
  <2>2. (IF Clean[n] \in users THEN Clean[n] ELSE Unknown) \in Names \cup {Unknown}
    BY DEF MachinesInv, MachinesTypeOK
  <2>3. QED
    BY <2>1, <2>2 DEF Login
<1>3. new.step = "check"
  OBVIOUS
<1> HIDE DEF new
<1>4. StillFits(l)'
  <2>1. login'[l] = new
    BY <1>1 DEF MachinesInv, MachinesTypeOK
  <2>2. QED
    BY <1>3, <2>1 DEF StillFits
<1>5. QED
  BY <1>1, <1>2, <1>4, LoginStep DEF MachinesInv, MachinesTypeOK

\* What a login becomes when its check is over, and when it has its account.
LEMMA KnownTyped ==
  ASSUME MachinesTypeOK, NEW l \in Logins, NEW u \in Names, NEW b \in BOOLEAN,
         login[l].step \in {"check", "create"}
  PROVE  /\ Known(l, u, b) \in Login /\ Known(l, u, b).step = "record"
         /\ Known(l, u, b).who = u /\ Known(l, u, b).hw = login[l].hw
         /\ Known(l, u, b).checked = b
<1>1. login[l].hw \in Hardware
  BY LoginTyped
<1>2. QED
  BY <1>1 DEF Known, Login

LEMMA CheckStep ==
  ASSUME MachinesInv, NEW l \in Logins, Check(l)
  PROVE  MachinesInv'
<1>1. /\ login[l].who \in Names \cup {Unknown} /\ login[l].name \in Names
      /\ login[l].hw \in Hardware /\ login[l].step = "check"
  BY LoginTyped DEF MachinesInv, Check
<1>2. started = TRUE /\ UNCHANGED <<started, users, machineRows, excused>>
  BY <1>1 DEF Check, MachinesInv, MachinesTypeOK
<1>3. CASE login' = [login EXCEPT ![l] = NoLogin]
  <2>1. NoLogin \in Login /\ NoLogin.step = "idle"
    BY DEF NoLogin, Login
  <2>2. StillFits(l)'
    BY <1>3, <2>1 DEF StillFits, MachinesInv, MachinesTypeOK
  <2>3. QED
    BY <1>2, <1>3, <2>1, <2>2, LoginStep DEF MachinesInv, MachinesTypeOK
<1>4. ASSUME NEW b \in BOOLEAN, AfterCheck(l, b),
             b = TRUE => ~Full(machineRows, login[l].who, login[l].hw)
      PROVE  MachinesInv'
  <2>1. CASE login[l].who # Unknown
    <3> DEFINE new == Known(l, login[l].who, b)
    <3>1. login' = [login EXCEPT ![l] = new]
      BY <1>4, <2>1 DEF AfterCheck, MachinesInv, MachinesTypeOK
    <3>2. /\ new \in Login /\ new.step = "record" /\ new.who = login[l].who
          /\ new.hw = login[l].hw /\ new.checked = b
      BY <1>1, <2>1, KnownTyped DEF MachinesInv
    <3> HIDE DEF new
    <3>3. login'[l] = new
      BY <3>1 DEF MachinesInv, MachinesTypeOK
    <3>4. StillFits(l)'
      BY <1>2, <1>4, <3>2, <3>3 DEF StillFits
    <3>5. QED
      BY <1>2, <3>1, <3>2, <3>4, LoginStep DEF MachinesInv, MachinesTypeOK
  <2>2. CASE login[l].who = Unknown
    <3> DEFINE new == [step |-> "create", name |-> login[l].name, hw |-> login[l].hw,
                       checked |-> b]
    <3>1. login' = [login EXCEPT ![l] = new]
      BY <1>4, <2>2 DEF AfterCheck, MachinesInv, MachinesTypeOK
    <3>2. /\ new \in Login /\ new.step = "create"
          /\ new.hw = login[l].hw /\ new.checked = b
      BY <1>1 DEF Login
    <3> HIDE DEF new
    <3>3. login'[l] = new
      BY <3>1 DEF MachinesInv, MachinesTypeOK
    <3>4. StillFits(l)'
      BY <1>2, <1>4, <2>2, <3>2, <3>3 DEF StillFits
    <3>5. QED
      BY <1>2, <3>1, <3>2, <3>4, LoginStep DEF MachinesInv, MachinesTypeOK
  <2>3. QED
    BY <2>1, <2>2
<1>5. \/ AfterCheck(l, FALSE)
      \/ login' = [login EXCEPT ![l] = NoLogin]
      \/ ~TooMany(login[l].who, login[l].hw) /\ AfterCheck(l, TRUE)
  BY DEF Check
<1>6. QED
  BY <1>3, <1>4, <1>5, TooManyIsFull

\* A machine that has room for an account to be made has room for it once made.
LEMMA RoomForNew ==
  ASSUME MachinesInv, NEW n \in Names, NEW h, ~Full(machineRows, Unknown, h)
  PROVE  ~Full(machineRows, n, h)
<1> SUFFICES ASSUME h.adapters # "" \/ h.disk # ""
             PROVE  ~(Cardinality({r.user : r \in NamingIn(machineRows, h)} \ {n}) >= MaxPerMachine)
  BY DEF Full
<1> DEFINE S == {r.user : r \in NamingIn(machineRows, h)}
<1>1. S \subseteq Names
  BY RecordedNames DEF MachinesInv
<1>2. S \ {Unknown} = S
  BY <1>1, MachinesAssumption
<1>3. ~(Cardinality(S) >= MaxPerMachine)
  BY <1>2 DEF Full
<1> HIDE DEF S
<1>4. /\ Cardinality(S \ {n}) \in Nat /\ Cardinality(S) \in Nat
      /\ Cardinality(S \ {n}) <= Cardinality(S)
  BY <1>1, NamesCounted
<1>5. ASSUME NEW few \in Nat, NEW many \in Nat, few <= many, ~(many >= MaxPerMachine)
      PROVE  ~(few >= MaxPerMachine)
  BY ONLY <1>5, MaxTyped
<1>6. ~(Cardinality(S \ {n}) >= MaxPerMachine)
  BY <1>3, <1>4, <1>5
<1>7. QED
  BY <1>6 DEF S

LEMMA CreateStep ==
  ASSUME MachinesInv, NEW l \in Logins, Create(l)
  PROVE  MachinesInv'
<1>1. /\ login[l].name \in Names /\ login[l].hw \in Hardware
      /\ login[l].checked \in BOOLEAN /\ login[l].step = "create"
  BY LoginTyped DEF MachinesInv, Create
<1>2. started = TRUE /\ UNCHANGED <<started, machineRows, excused>>
  BY <1>1 DEF Create, MachinesInv, MachinesTypeOK
<1>3. users' \subseteq Names
  BY <1>1 DEF Create, MachinesInv, MachinesTypeOK
<1>4. CASE login' = [login EXCEPT ![l] = NoLogin]
  <2>1. NoLogin \in Login /\ NoLogin.step = "idle"
    BY DEF NoLogin, Login
  <2>2. StillFits(l)'
    BY <1>4, <2>1 DEF StillFits, MachinesInv, MachinesTypeOK
  <2>3. QED
    BY <1>2, <1>3, <1>4, <2>1, <2>2, LoginStep
<1>5. CASE login' = [login EXCEPT ![l] = Known(l, login[l].name, @.checked)]
  <2> DEFINE new == Known(l, login[l].name, login[l].checked)
  <2>1. login' = [login EXCEPT ![l] = new]
    BY <1>5 DEF MachinesInv, MachinesTypeOK
  <2>2. /\ new \in Login /\ new.step = "record" /\ new.who = login[l].name
        /\ new.hw = login[l].hw /\ new.checked = login[l].checked
    BY <1>1, KnownTyped DEF MachinesInv
  <2> HIDE DEF new
  <2>3. login'[l] = new
    BY <2>1 DEF MachinesInv, MachinesTypeOK
  <2>4. login[l].checked = TRUE => ~Full(machineRows, login[l].name, login[l].hw)
    <3>1. login[l].checked = TRUE => ~Full(machineRows, Unknown, login[l].hw)
      BY <1>1 DEF MachinesInv, StillFits
    <3>2. QED
      BY <1>1, <3>1, RoomForNew
  <2>5. StillFits(l)'
    BY <1>2, <2>2, <2>3, <2>4 DEF StillFits
  <2>6. QED
    BY <1>2, <1>3, <2>1, <2>2, <2>5, LoginStep
<1>6. QED
  BY <1>4, <1>5 DEF Create

\* Fewer users on a machine, apart from the excused, are within the limit, and so
\* is one more than less than the limit.
LEMMA NotMoreThan ==
  ASSUME NEW A, A \subseteq Names, Cardinality(A) <= MaxPerMachine, NEW B, B \subseteq A
  PROVE  Cardinality(B) <= MaxPerMachine
BY NamesCounted, MaxTyped

LEMMA OneMore ==
  ASSUME NEW N, N \subseteq Names, NEW u \in Names,
         ~(Cardinality(N \ {u}) >= MaxPerMachine), NEW B, B \subseteq N \cup {u}
  PROVE  Cardinality(B) <= MaxPerMachine
<1> DEFINE S == N \ {u}
<1>1. IsFiniteSet(S) /\ Cardinality(S) \in Nat
  BY NamesCounted
<1>2. S \subseteq Names /\ u \notin S /\ B \subseteq S \cup {u} /\ S \cup {u} \subseteq Names
  OBVIOUS
<1>3. ~(Cardinality(S) >= MaxPerMachine)
  OBVIOUS
<1> HIDE DEF S
<1>4. Cardinality(S \cup {u}) = Cardinality(S) + 1
  BY <1>1, <1>2, FS_AddElement
<1>5. Cardinality(S \cup {u}) <= MaxPerMachine
  BY <1>1, <1>3, <1>4, MaxTyped
<1>6. QED
  BY <1>2, <1>5, NotMoreThan

LEMMA LimitMeans ==
  AccountsPerMachine <=>
    /\ \A a \in Adapters : Cardinality(AdapterUsers(a) \ excused) <= MaxPerMachine
    /\ \A d \in Disks : Cardinality(DiskUsers(d) \ excused) <= MaxPerMachine
BY DEF AccountsPerMachine, AdapterUsers, DiskUsers

\* A row that is written adds its user to the ones of its adapters and disk.
LEMMA RowAdds ==
  ASSUME NEW r, machineRows' = machineRows \cup {r}
  PROVE  /\ \A a : AdapterUsers(a)' = IF r.hw.adapters = a THEN AdapterUsers(a) \cup {r.user}
                                      ELSE AdapterUsers(a)
         /\ \A d : DiskUsers(d)' = IF r.hw.disk = d THEN DiskUsers(d) \cup {r.user}
                                   ELSE DiskUsers(d)
BY DEF AdapterUsers, DiskUsers

LEMMA RecordLimit ==
  ASSUME MachinesInv, NEW l \in Logins, login[l].step = "record", NEW r,
         r = [user |-> login[l].who, hw |-> login[l].hw, protected |-> TRUE],
         machineRows' = machineRows \cup {r},
         excused' = IF login[l].checked THEN excused ELSE excused \cup {r.user}
  PROVE  AccountsPerMachine'
<1>1. login[l].who \in Names /\ login[l].hw \in Hardware /\ login[l].checked \in BOOLEAN
  BY LoginTyped DEF MachinesInv
<1>2. /\ \A a : AdapterUsers(a) \subseteq Names
      /\ \A d : DiskUsers(d) \subseteq Names
      /\ \A h : {q.user : q \in NamingIn(machineRows, h)} \subseteq Names
  BY RecordedNames DEF MachinesInv
<1>3. /\ \A a \in Adapters : Cardinality(AdapterUsers(a) \ excused) <= MaxPerMachine
      /\ \A d \in Disks : Cardinality(DiskUsers(d) \ excused) <= MaxPerMachine
  BY LimitMeans DEF MachinesInv
<1>4. \A q \in machineRows : q.protected = TRUE
  BY DEF MachinesInv
<1> DEFINE u == login[l].who
           h == login[l].hw
           N == {q.user : q \in NamingIn(machineRows, h)}
<1>5. r.user = u /\ r.hw = h
  OBVIOUS
<1>6. /\ h.adapters # "" => AdapterUsers(h.adapters) \subseteq N
      /\ h.disk # "" => DiskUsers(h.disk) \subseteq N
  BY <1>4 DEF NamingIn, AdapterUsers, DiskUsers
<1>7. login[l].checked = TRUE => ~Full(machineRows, u, h)
  BY DEF MachinesInv, StillFits
<1>8. login[l].checked = TRUE /\ (h.adapters # "" \/ h.disk # "") =>
         ~(Cardinality(N \ {u}) >= MaxPerMachine)
  BY <1>7 DEF Full
<1>9. u \in Names /\ N \subseteq Names
  BY <1>1, <1>2
<1>10. /\ \A a : AdapterUsers(a)' = IF h.adapters = a THEN AdapterUsers(a) \cup {u}
                                    ELSE AdapterUsers(a)
       /\ \A d : DiskUsers(d)' = IF h.disk = d THEN DiskUsers(d) \cup {u}
                                 ELSE DiskUsers(d)
  BY <1>5, RowAdds
<1>11. excused \subseteq excused' /\ (login[l].checked # TRUE => u \in excused')
  BY <1>1, <1>5
<1> HIDE DEF N, u, h
<1>12. ASSUME NEW A, A \subseteq Names, Cardinality(A \ excused) <= MaxPerMachine,
              NEW B, \/ B = A
                     \/ /\ B = A \cup {u} /\ A \subseteq N
                        /\ h.adapters # "" \/ h.disk # ""
       PROVE  Cardinality(B \ excused') <= MaxPerMachine
  <2>1. CASE B = A \/ login[l].checked # TRUE
    <3>1. A \ excused \subseteq Names /\ B \ excused' \subseteq A \ excused
      BY <1>11, <1>12, <2>1
    <3>2. QED
      BY ONLY <1>12, <3>1, NotMoreThan
  <2>2. CASE B # A /\ login[l].checked = TRUE
    <3>1. ~(Cardinality(N \ {u}) >= MaxPerMachine)
      BY <1>8, <1>12, <2>2
    <3>2. B \ excused' \subseteq N \cup {u}
      BY <1>12, <2>2
    <3>3. QED
      BY ONLY <1>9, <3>1, <3>2, OneMore
  <2>3. QED
    BY <2>1, <2>2
<1>13. ASSUME NEW a \in Adapters PROVE Cardinality(AdapterUsers(a)' \ excused') <= MaxPerMachine
  <2>1. a # ""
    BY DEF Adapters
  <2>2. AdapterUsers(a)' = AdapterUsers(a)
        \/ /\ AdapterUsers(a)' = AdapterUsers(a) \cup {u} /\ AdapterUsers(a) \subseteq N
           /\ h.adapters # "" \/ h.disk # ""
    BY <1>6, <1>10, <2>1
  <2>3. QED
    BY <1>2, <1>3, <1>12, <2>2
<1>14. ASSUME NEW d \in Disks PROVE Cardinality(DiskUsers(d)' \ excused') <= MaxPerMachine
  <2>1. d # ""
    BY DEF Disks
  <2>2. DiskUsers(d)' = DiskUsers(d)
        \/ /\ DiskUsers(d)' = DiskUsers(d) \cup {u} /\ DiskUsers(d) \subseteq N
           /\ h.adapters # "" \/ h.disk # ""
    BY <1>6, <1>10, <2>1
  <2>3. QED
    BY <1>2, <1>3, <1>12, <2>2
<1>15. QED
  BY <1>13, <1>14 DEF AccountsPerMachine, AdapterUsers, DiskUsers, Adapters, Disks

\* A login that was overtaken counts as unchecked.
LEMMA OvertakenTyped ==
  ASSUME MachinesTypeOK, NEW k \in Logins, login[k].step \in {"create", "record"}
  PROVE  /\ [login[k] EXCEPT !.checked = FALSE] \in Login
         /\ [login[k] EXCEPT !.checked = FALSE].step = login[k].step
         /\ [login[k] EXCEPT !.checked = FALSE].checked = FALSE
<1>1. CASE login[k].step = "create"
  <2>1. login[k] \in [step : {"create"}, name : Names, hw : Hardware, checked : BOOLEAN]
    BY <1>1, LoginTyped
  <2>2. [login[k] EXCEPT !.checked = FALSE]
           \in [step : {"create"}, name : Names, hw : Hardware, checked : BOOLEAN]
    BY <2>1
  <2>3. QED
    BY <1>1, <2>1, <2>2 DEF Login
<1>2. CASE login[k].step = "record"
  <2>1. login[k] \in [step : {"record"}, who : Names, hw : Hardware, checked : BOOLEAN]
    BY <1>2, LoginTyped
  <2>2. [login[k] EXCEPT !.checked = FALSE]
           \in [step : {"record"}, who : Names, hw : Hardware, checked : BOOLEAN]
    BY <2>1
  <2>3. QED
    BY <1>2, <2>1, <2>2 DEF Login
<1>3. QED
  BY <1>1, <1>2

LEMMA RecordStep ==
  ASSUME MachinesInv, NEW l \in Logins, Record(l)
  PROVE  MachinesInv'
<1>1. /\ login[l].who \in Names /\ login[l].hw \in Hardware
      /\ login[l].checked \in BOOLEAN /\ login[l].step = "record"
  BY LoginTyped DEF MachinesInv, Record
<1>2. started = TRUE /\ UNCHANGED <<started, users>>
  BY <1>1 DEF Record, MachinesInv, MachinesTypeOK
<1>3. NoLogin \in Login /\ NoLogin.step = "idle"
  BY DEF NoLogin, Login
<1>4. CASE login' = [login EXCEPT ![l] = NoLogin] /\ UNCHANGED <<machineRows, excused>>
  <2>1. StillFits(l)'
    BY <1>3, <1>4 DEF StillFits, MachinesInv, MachinesTypeOK
  <2>2. QED
    BY <1>2, <1>3, <1>4, <2>1, LoginStep DEF MachinesInv, MachinesTypeOK
<1> DEFINE r == [user |-> login[l].who, hw |-> login[l].hw, protected |-> TRUE]
<1>5. CASE /\ machineRows' = machineRows \cup {r}
           /\ excused' = IF login[l].checked THEN excused ELSE excused \cup {r.user}
           /\ login' = [k \in Logins |->
                          IF k = l THEN NoLogin
                          ELSE IF login[k].step \in {"create", "record"}
                          THEN [login[k] EXCEPT !.checked = FALSE]
                          ELSE login[k]]
  <2>1. AccountsPerMachine'
    BY <1>1, <1>5, RecordLimit
  <2>2. r \in MachineOf /\ r.protected = TRUE /\ r.user \in Names
    BY <1>1 DEF MachineOf
  <2> HIDE DEF r
  <2>3. ASSUME NEW k \in Logins
        PROVE  /\ login'[k] \in Login
               /\ login'[k].step \in {"create", "record"} => login'[k].checked = FALSE
    <3>1. login[k] \in Login
      BY DEF MachinesInv, MachinesTypeOK
    <3>2. CASE k = l
      BY <1>3, <1>5, <3>2
    <3>3. CASE k # l /\ login[k].step \in {"create", "record"}
      <4>1. login'[k] = [login[k] EXCEPT !.checked = FALSE]
        BY <1>5, <3>3
      <4>2. QED
        BY <3>3, <4>1, OvertakenTyped DEF MachinesInv
    <3>4. CASE k # l /\ login[k].step \notin {"create", "record"}
      <4>1. login'[k] = login[k]
        BY <1>5, <3>4
      <4>2. QED
        BY <3>1, <3>4, <4>1
    <3>5. QED
      BY <3>2, <3>3, <3>4
  <2>4. login' \in [Logins -> Login]
    BY <1>5, <2>3
  <2>5. machineRows' \subseteq MachineOf /\ \A q \in machineRows' : q.protected = TRUE
    BY <1>2, <1>5, <2>2 DEF MachinesInv, MachinesTypeOK
  <2>6. excused' \subseteq Names
    BY <1>5, <2>2 DEF MachinesInv, MachinesTypeOK
  <2>7. MachinesTypeOK'
    BY <1>2, <2>4, <2>5, <2>6 DEF MachinesInv, MachinesTypeOK
  <2>8. QED
    BY <1>2, <2>1, <2>3, <2>5, <2>7 DEF MachinesInv, StillFits
<1>6. QED
  BY <1>4, <1>5 DEF Record

-----------------------------------------------------------------------------
(* Before and beside the logins *)

\* The migration replaces a row by one of the same user and machine.
LEMMA ProtectStep ==
  ASSUME MachinesInv, NEW q \in machineRows, Protect(q)
  PROVE  MachinesInv'
<1> DEFINE p == [q EXCEPT !.protected = TRUE]
<1>1. /\ started = FALSE /\ machineRows' = (machineRows \ {q}) \cup {p}
      /\ UNCHANGED <<started, users, login, excused>>
  BY DEF Protect, MachinesInv, MachinesTypeOK
<1>2. p \in MachineOf /\ p.user = q.user /\ p.hw = q.hw
  BY DEF MachinesInv, MachinesTypeOK, MachineOf
<1> HIDE DEF p
<1>3. MachinesTypeOK'
  BY <1>1, <1>2 DEF MachinesInv, MachinesTypeOK
<1>4. \A l \in Logins : login[l].step = "idle"
  BY <1>1 DEF MachinesInv
<1>5. AccountsPerMachine'
  <2>1. /\ \A a : AdapterUsers(a)' \subseteq AdapterUsers(a)
        /\ \A d : DiskUsers(d)' \subseteq DiskUsers(d)
    BY <1>1, <1>2 DEF AdapterUsers, DiskUsers
  <2>2. /\ \A a : AdapterUsers(a) \subseteq Names
        /\ \A d : DiskUsers(d) \subseteq Names
    BY RecordedNames DEF MachinesInv
  <2>3. /\ \A a \in Adapters : Cardinality(AdapterUsers(a) \ excused) <= MaxPerMachine
        /\ \A d \in Disks : Cardinality(DiskUsers(d) \ excused) <= MaxPerMachine
    BY LimitMeans DEF MachinesInv
  <2>4. /\ \A a \in Adapters : Cardinality(AdapterUsers(a)' \ excused) <= MaxPerMachine
        /\ \A d \in Disks : Cardinality(DiskUsers(d)' \ excused) <= MaxPerMachine
    <3>1. ASSUME NEW A, A \subseteq Names, Cardinality(A \ excused) <= MaxPerMachine,
                 NEW B, B \subseteq A
          PROVE  Cardinality(B \ excused) <= MaxPerMachine
      <4>1. A \ excused \subseteq Names /\ B \ excused \subseteq A \ excused
        BY <3>1
      <4>2. QED
        BY ONLY <3>1, <4>1, NotMoreThan
    <3>2. QED
      BY <2>1, <2>2, <2>3, <3>1
  <2>5. QED
    BY <1>1, <2>4 DEF AccountsPerMachine, AdapterUsers, DiskUsers, Adapters, Disks
<1>6. QED
  BY <1>1, <1>3, <1>4, <1>5 DEF MachinesInv, StillFits

LEMMA MachinesNextInv == MachinesInv /\ [MachinesNext]_machineVars => MachinesInv'
<1> SUFFICES ASSUME MachinesInv, [MachinesNext]_machineVars PROVE MachinesInv'
  OBVIOUS
<1>1. ASSUME UNCHANGED <<machineRows, login, excused>>, users' \subseteq Names,
             started' \in BOOLEAN, started => started',
             started' => \A r \in machineRows : r.protected = TRUE
      PROVE  MachinesInv'
  <2>1. \A l \in Logins : StillFits(l)'
    BY <1>1, FitStays DEF MachinesInv
  <2>2. AccountsPerMachine'
    BY <1>1, LimitStays DEF MachinesInv
  <2>3. QED
    BY <1>1, <2>1, <2>2 DEF MachinesInv, MachinesTypeOK
<1>2. CASE ServeLogins
  <2>1. \A r \in machineRows : r.protected = TRUE
    <3>1. \A r \in machineRows : r.protected \in BOOLEAN /\ r.protected
      BY <1>2 DEF ServeLogins, MachinesInv, MachinesTypeOK, MachineOf
    <3>2. QED
      BY <3>1
  <2>2. QED
    BY <1>1, <1>2, <2>1 DEF ServeLogins, MachinesInv, MachinesTypeOK
<1>3. ASSUME NEW n \in Names, RegisterElsewhere(n) PROVE MachinesInv'
  BY <1>1, <1>3 DEF RegisterElsewhere, MachinesInv, MachinesTypeOK
<1>4. CASE UNCHANGED machineVars
  BY <1>1, <1>4 DEF machineVars, MachinesInv, MachinesTypeOK
<1>5. QED
  BY <1>2, <1>3, <1>4, ProtectStep, ArriveStep, CheckStep, CreateStep, RecordStep
     DEF MachinesNext

LEMMA MachinesInvHolds == MachinesSpec => []MachinesInv
BY MachinesInitInv, MachinesNextInv, PTL DEF MachinesSpec

\* Rows, logins in flight and names stay what they should be, for any machines
\* and any number of logins at once.
THEOREM MachinesTypeCorrect == MachinesSpec => []MachinesTypeOK
BY MachinesInvHolds, PTL DEF MachinesInv

\* However many logins are under way at once, no adapters and no disk are
\* recorded for more accounts than allowed, except by logins that were not
\* checked or were overtaken by another between check_multiaccount and
\* record_user_hardware.
THEOREM MachineLimit == MachinesSpec => []AccountsPerMachine
BY MachinesInvHolds, PTL DEF MachinesInv

-----------------------------------------------------------------------------
(* The three together, as TLC runs them: a step of one leaves the others     *)

AccessInv == RetryInv /\ AccountsInv /\ MachinesInv

LEMMA AccessNextInv == AccessInv /\ [Next]_vars => AccessInv'
<1> SUFFICES ASSUME AccessInv, [Next]_vars PROVE AccessInv'
  OBVIOUS
<1>1. [LimiterNext]_limiterVars /\ [AccountsNext]_accountVars /\ [MachinesNext]_machineVars
  BY DEF Next, vars
<1>2. QED
  BY <1>1, RetryNextInv, AccountsNextInv, MachinesNextInv DEF AccessInv

\* Buckets, accounts, sessions and rows of machines are well typed at any time.
THEOREM AccessTypeCorrect == Spec => []TypeOK
<1>1. Init => AccessInv
  BY RetryInitInv, AccountsInitInv, MachinesInitInv DEF Init, AccessInv
<1>2. AccessInv => TypeOK
  BY DEF AccessInv, RetryInv, BucketsTyped, LimiterTypeOK, AccountsInv, MachinesInv, TypeOK
<1>3. QED
  BY <1>1, <1>2, AccessNextInv, PTL DEF Spec
===============================================================================
