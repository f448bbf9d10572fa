------------------------------ MODULE Machines ------------------------------
(***************************************************************************)
(* The checks of a game login before its session is made (handle_login of  *)
(* server/bancho.rs): the address, the account looked up or registered on  *)
(* the fly, and the limit of accounts per machine.  A machine is known by  *)
(* the fingerprints of its adapters and of its disk, either of which may   *)
(* be missing; the table keeps one row per login.  Rows written before the *)
(* fingerprints were introduced are rewritten when the process starts.     *)
(***************************************************************************)
EXTENDS Naturals, FiniteSets

CONSTANTS Names,         \* names typed at a login
          Clean,         \* [Names -> Names \cup {""}], clean_username
          Hardware,      \* machines: [adapters, disk], "" where unknown
          Logins,        \* logins in flight at once
          RegisterOnLogin,  \* config gameplay.auto_register
          MaxPerMachine, \* config security.max_accounts_per_hwid
          Unknown

ASSUME MachinesAssumption ==
    /\ Clean \in [Names -> Names \cup {""}]
    /\ MaxPerMachine \in Nat
    /\ Unknown \notin Names
    /\ IsFiniteSet(Names) /\ IsFiniteSet(Hardware)

VARIABLES started,     \* the migration is over and logins are served
          users,       \* names of the users table
          machineRows, \* rows of user_hardware: [user, hw, protected]
          login,       \* [Logins -> login in flight]
          excused      \* history: users recorded on a machine unchecked

machineVars == <<started, users, machineRows, login, excused>>

NoLogin   == [step |-> "idle"]
Networks  == {"public", "private", "vpn"}
MachineOf == [user : Names, hw : Hardware, protected : BOOLEAN]

\* the database of an earlier version: names on machines, within the limit
MachinesInit ==
    /\ started = FALSE
    /\ users \in SUBSET Names
    /\ machineRows \in
          {rs \in SUBSET [user : users, hw : Hardware, protected : {FALSE}] :
              Cardinality(rs) <= MaxPerMachine}
    /\ login = [l \in Logins |-> NoLogin]
    /\ excused = {}

\* migrate_legacy_hardware_identifiers, row by row
Protect(r) ==
    /\ ~started /\ r \in machineRows /\ ~r.protected
    /\ machineRows' = (machineRows \ {r}) \cup {[r EXCEPT !.protected = TRUE]}
    /\ UNCHANGED <<started, users, login, excused>>

ServeLogins ==
    /\ ~started /\ \A r \in machineRows : r.protected
    /\ started' = TRUE
    /\ UNCHANGED <<users, machineRows, login, excused>>

\* the disk is not compared
MUTANT_Naming(h) == {r \in machineRows :
                       /\ r.protected
                       /\ h.adapters # "" /\ r.hw.adapters = h.adapters}

\* rows that name the machine h by its adapters or its disk; a raw value
\* never equals a fingerprint
Naming(h) == {r \in machineRows :
                /\ r.protected
                /\ \/ h.adapters # "" /\ r.hw.adapters = h.adapters
                   \/ h.disk # "" /\ r.hw.disk = h.disk}

\* check_multiaccount, for the account who (Unknown: not made yet)
TooMany(who, h) ==
    /\ h.adapters # "" \/ h.disk # ""
    /\ Cardinality({r.user : r \in Naming(h)} \ {who}) >= MaxPerMachine

\* the address passes and the account is looked up by its clean name; a
\* known account whose password is wrong is refused (Accounts.tla)
Arrive(l, n, h, net) ==
    /\ started /\ login[l].step = "idle" /\ net # "vpn"
    /\ Clean[n] \in users \/ RegisterOnLogin
    /\ login' = [login EXCEPT ![l] =
          [step |-> "check", name |-> n, hw |-> h, exempt |-> net = "private",
           who |-> IF Clean[n] \in users THEN Clean[n] ELSE Unknown]]
    /\ UNCHANGED <<started, users, machineRows, excused>>

\* a login whose account is known, with the outcome of its check
Known(l, u, checked) ==
    [step |-> "record", who |-> u, hw |-> login[l].hw, checked |-> checked]

AfterCheck(l, checked) ==
    login' = [login EXCEPT ![l] =
                IF @.who # Unknown THEN Known(l, @.who, checked)
                ELSE [step |-> "create", name |-> @.name, hw |-> @.hw,
                      checked |-> checked]]

\* the limit, from which private addresses are exempt; when the query fails
\* the login goes on
Check(l) ==
    /\ login[l].step = "check"
    /\ \/ AfterCheck(l, FALSE)
       \/ /\ ~login[l].exempt /\ TooMany(login[l].who, login[l].hw)
          /\ login' = [login EXCEPT ![l] = NoLogin]
       \/ /\ ~login[l].exempt /\ ~TooMany(login[l].who, login[l].hw)
          /\ AfterCheck(l, TRUE)
    /\ UNCHANGED <<started, users, machineRows, excused>>

\* create_user under the name as it was typed; a taken one is an error, and
\* so are statistics that cannot be stored, after the account was
Create(l) ==
    /\ login[l].step = "create"
    /\ LET n == login[l].name
       IN IF n \in users
          THEN /\ login' = [login EXCEPT ![l] = NoLogin]
               /\ UNCHANGED users
          ELSE /\ users' = users \cup {n}
               /\ \/ login' = [login EXCEPT ![l] = Known(l, n, @.checked)]
                  \/ login' = [login EXCEPT ![l] = NoLogin]
    /\ UNCHANGED <<started, machineRows, excused>>

\* record_user_hardware, whose failure is ignored; logins that are between
\* their check and their row are overtaken by this one
Record(l) ==
    /\ login[l].step = "record"
    /\ LET r == [user |-> login[l].who, hw |-> login[l].hw, protected |-> TRUE]
       IN \/ /\ machineRows' = machineRows \cup {r}
             /\ excused' = IF login[l].checked THEN excused
                           ELSE excused \cup {r.user}
             /\ login' = [k \in Logins |->
                            IF k = l THEN NoLogin
                            ELSE IF login[k].step \in {"create", "record"}
                            THEN [login[k] EXCEPT !.checked = FALSE]
                            ELSE login[k]]
          \/ /\ login' = [login EXCEPT ![l] = NoLogin]
             /\ UNCHANGED <<machineRows, excused>>
    /\ UNCHANGED <<started, users>>

\* an account made on the web, which knows of no machine
RegisterElsewhere(n) ==
    /\ started /\ n \notin users
    /\ users' = users \cup {n}
    /\ UNCHANGED <<started, machineRows, login, excused>>

MachinesNext ==
    \/ \E r \in machineRows : Protect(r)
    \/ ServeLogins
    \/ \E l \in Logins :
          \/ \E n \in Names, h \in Hardware, net \in Networks :
                Arrive(l, n, h, net)
          \/ Check(l) \/ Create(l) \/ Record(l)
    \/ \E n \in Names : RegisterElsewhere(n)

MachinesSpec == MachinesInit /\ [][MachinesNext]_machineVars

-----------------------------------------------------------------------------

Login ==
         {NoLogin}
    \cup [step : {"check"}, name : Names, hw : Hardware, exempt : BOOLEAN,
          who : Names \cup {Unknown}]
    \cup [step : {"create"}, name : Names, hw : Hardware, checked : BOOLEAN]
    \cup [step : {"record"}, who : Names, hw : Hardware, checked : BOOLEAN]

MachinesTypeOK ==
    /\ started \in BOOLEAN /\ users \subseteq Names /\ excused \subseteq Names
    /\ machineRows \subseteq MachineOf
    /\ login \in [Logins -> Login]

Adapters == {h.adapters : h \in Hardware} \ {""}
Disks    == {h.disk : h \in Hardware} \ {""}

(* Not more than MaxPerMachine accounts are recorded with the same adapters *)
(* or the same disk, except for accounts that came from a private address,  *)
(* whose check failed with an error, or whose check was overtaken by        *)
(* another login before their own row was written.                          *)
AccountsPerMachine ==
    /\ \A a \in Adapters :
          Cardinality({r.user : r \in {q \in machineRows :
                                          q.hw.adapters = a}} \ excused)
              <= MaxPerMachine
    /\ \A d \in Disks :
          Cardinality({r.user : r \in {q \in machineRows :
                                          q.hw.disk = d}} \ excused)
              <= MaxPerMachine
=============================================================================
