--------------------------- MODULE Administration ---------------------------
(***************************************************************************)
(* The users collection under the servers that boot on it                  *)
(* (cmd/serve.go, auth/bootstrap.go), the requests of its accounts         *)
(* (controllers/auth.go) and those of the administrators                   *)
(* (controllers/admin.go).                                                 *)
(*                                                                         *)
(* A request carries the caller as the gate has read it, then makes one    *)
(* database call a step; nothing holds the rows still in between.  Booting *)
(* is three calls, each of which may fail: the failure is logged and the   *)
(* server serves all the same.  Passwords and sessions are in Accounts:    *)
(* here whoever owns a row may call.                                       *)
(***************************************************************************)
EXTENDS Integers, FiniteSets

CONSTANTS
    Clients,      \* requests in flight at once
    Servers,      \* replicas that boot on the same database
    Ids,          \* object ids of users, each minted once
    Names,        \* usernames
    Regions,      \* the catalogue of regions
    Operations    \* the requests each client makes

OwnerOperations == {"promote", "demote", "region", "flag"}
AdminOperations == {"hide", "reactivate", "delete", "reset", "act"}
OwnOperations == {"onboard", "profile"}
AllOperations == OwnerOperations \cup AdminOperations \cup OwnOperations \cup {"signup", "cli"}

ASSUME TheBootstrapNameIsAName == "admin" \in Names
Nobody == "nobody"
ASSUME NobodyIsNoId == Nobody \notin Ids
ASSUME OfferedOperations == Operations \in [Clients -> SUBSET AllOperations]

VARIABLES
    users,     \* the rows, by id
    unused,    \* the ids not minted yet
    indexed,   \* the unique index on the username exists
    server,    \* where each server stands in its boot
    req,       \* the request each client has in flight
    (* Observation only, read by no guard: *)
    lapses     \* what went wrong in a boot so far

vars == <<users, unused, indexed, server, req, lapses>>

NoRegion == "none"
Roles == {"user", "admin", "superadmin"}
User == [name : Names, role : Roles, region : Regions \cup {NoRegion},
         disabled : BOOLEAN, mustChange : BOOLEAN]

NoRequest == [op |-> "none", pc |-> "idle", caller |-> Nobody, role |-> "user",
              region |-> NoRegion, target |-> Nobody, to |-> NoRegion, overtaken |-> FALSE]

Init ==
    /\ users = [i \in {} |-> Nobody]
    /\ unused = Ids
    /\ indexed = FALSE
    /\ server = [s \in Servers |-> "down"]
    /\ req = [c \in Clients |-> NoRequest]
    /\ lapses = {}

Stored == DOMAIN users
Owners == {i \in Stored : users[i].role = "superadmin"}
Named(n) == {i \in Stored : users[i].name = n}

\* The unique index decides, for an insert and for an update.
NameTaken(n, except) == indexed /\ Named(n) \ {except} # {}

------------------------------------------------------------------------------
(***************************************************************************)
(* Booting.                                                                *)
(***************************************************************************)
Boot(s) ==
    /\ server[s] = "down"
    /\ server' = [server EXCEPT ![s] = "index"]
    /\ UNCHANGED <<users, unused, indexed, req, lapses>>

\* The index cannot be built over names that are already double.
EnsureIndexes(s) ==
    /\ server[s] = "index"
    /\ \A i, j \in Stored : users[i].name = users[j].name => i = j
    /\ indexed' = TRUE
    /\ server' = [server EXCEPT ![s] = "count"]
    /\ UNCHANGED <<users, unused, req, lapses>>

IndexFails(s) ==
    /\ server[s] = "index"
    /\ server' = [server EXCEPT ![s] = "count"]
    /\ lapses' = lapses \cup {"index"}
    /\ UNCHANGED <<users, unused, indexed, req>>

\* Faulty variant: the bootstrap looks for its own name, not for the role.
CountOwners_ByName(s) ==
    /\ server[s] = "count"
    /\ server' = [server EXCEPT ![s] = IF Named("admin") # {} THEN "up" ELSE "insert"]
    /\ UNCHANGED <<users, unused, indexed, req, lapses>>

CountOwners(s) ==
    /\ server[s] = "count"
    /\ server' = [server EXCEPT ![s] = IF Owners # {} THEN "up" ELSE "insert"]
    /\ UNCHANGED <<users, unused, indexed, req, lapses>>

InsertOwner(s) ==
    /\ server[s] \in {"insert", "late"}
    /\ ~NameTaken("admin", Nobody)
    /\ \E i \in unused :
        /\ users' = [j \in Stored \cup {i} |->
                        IF j \in Stored THEN users[j]
                        ELSE [name |-> "admin", role |-> "superadmin", region |-> NoRegion,
                              disabled |-> FALSE, mustChange |-> TRUE]]
        /\ unused' = unused \ {i}
    /\ server' = [t \in Servers |-> CASE t = s -> "up"
                                      [] server[t] = "insert" -> "late"
                                      [] OTHER -> server[t]]
    /\ lapses' = IF server[s] = "late" THEN lapses \cup {"overlap"} ELSE lapses
    /\ UNCHANGED <<indexed, req>>

\* The name is taken: a warning, and the server is up.
InsertRefused(s) ==
    /\ server[s] \in {"insert", "late"}
    /\ NameTaken("admin", Nobody)
    /\ server' = [server EXCEPT ![s] = "up"]
    /\ UNCHANGED <<users, unused, indexed, req, lapses>>

\* Counting, hashing or inserting fails: a warning as well.
BootstrapFails(s) ==
    /\ server[s] \in {"count", "insert", "late"}
    /\ server' = [server EXCEPT ![s] = "up"]
    /\ lapses' = lapses \cup {"bootstrap"}
    /\ UNCHANGED <<users, unused, indexed, req>>

\* A server may stop at any moment of its life.
Stop(s) ==
    /\ server[s] # "down"
    /\ server' = [server EXCEPT ![s] = "down"]
    /\ UNCHANGED <<users, unused, indexed, req, lapses>>

Serving == \E s \in Servers : server[s] = "up"

------------------------------------------------------------------------------
(***************************************************************************)
(* The rows a request may touch.                                           *)
(***************************************************************************)
\* domain.User.Oversees, on the rows as they are.
Oversees(u, t) ==
    CASE users[u].role = "superadmin" -> t # u
      [] users[u].role = "admin" -> users[t].role = "user" /\ users[t].region = users[u].region
      [] OTHER -> FALSE

\* Faulty variant: the region alone makes the scope.
loadTargetUser_AnyRole(r) ==
    /\ r.target \in Stored
    /\ r.role # "superadmin" => users[r.target].region = r.region

\* The caller is the one the gate read, of no use after; the target is read now.
loadTargetUser(r) ==
    /\ r.target \in Stored
    /\ r.role # "superadmin" =>
        users[r.target].role = "user" /\ users[r.target].region = r.region

\* Faulty variant: the owner may hide the owner.
NotOwnAccount_Unchecked(r) == r.op \in {"delete", "promote", "demote", "region"} => r.target # r.caller

\* Flags and the portfolio of one's own account are allowed.
NotOwnAccount(r) ==
    r.op \in {"hide", "delete", "promote", "demote", "region"} => r.target # r.caller

\* The rosters an administrator picks targets from, hidden accounts included:
\* queries of their own beside the scope.
AdminListUsers(i) ==
    {t \in Stored : users[i].role # "superadmin" =>
                        users[t].region = users[i].region /\ users[t].role = "user"}

AdminListAdmins(i) ==
    {t \in Stored : users[i].role = "superadmin" /\ users[t].role \in {"admin", "superadmin"}}

Promotable(r) ==
    /\ r.op = "promote" => users[r.target].role = "user"
    /\ r.op = "demote" => users[r.target].role = "admin"

\* What the request writes into its target's row; the portfolio, the switches
\* and the lockout are other fields.
Patched(r, u) ==
    CASE r.op = "promote" -> [u EXCEPT !.role = "admin"]
      [] r.op = "demote" -> [u EXCEPT !.role = "user"]
      [] r.op = "region" -> [u EXCEPT !.region = r.to]
      [] r.op = "hide" -> [u EXCEPT !.disabled = TRUE]
      [] r.op = "reactivate" -> [u EXCEPT !.disabled = FALSE]
      [] r.op = "profile" -> [u EXCEPT !.name = r.to]
      [] r.op \in {"onboard", "cli"} -> [u EXCEPT !.mustChange = FALSE]
      [] OTHER -> u

------------------------------------------------------------------------------
(***************************************************************************)
(* Requests.                                                               *)
(***************************************************************************)
At(c, pc) == req[c].pc = pc
Move(c, pc) == req' = [req EXCEPT ![c].pc = pc]
Finish(c) == req' = [req EXCEPT ![c] = NoRequest]

Tier(op) ==
    CASE op \in OwnerOperations -> {"superadmin"}
      [] op \in AdminOperations -> {"admin", "superadmin"}
      [] OTHER -> Roles

Targets(op, i) == IF op \in OwnOperations THEN {i} ELSE Ids \ unused

Values(op) ==
    CASE op = "region" -> Regions
      [] op = "profile" -> Names
      [] OTHER -> {NoRegion}

\* AuthGate: the caller's row decides, and travels with the request.
AuthGate(c) ==
    /\ At(c, "idle") /\ Serving
    /\ \E op \in (OwnerOperations \cup AdminOperations \cup OwnOperations) \cap Operations[c], i \in Stored :
        /\ ~users[i].disabled
        /\ users[i].mustChange => op = "onboard"
        /\ users[i].role \in Tier(op)
        /\ \E t \in Targets(op, i), v \in Values(op) :
            req' = [req EXCEPT ![c] =
                [op |-> op, pc |-> IF op \in OwnOperations THEN "name" ELSE "load",
                 caller |-> i, role |-> users[i].role, region |-> users[i].region,
                 target |-> t, to |-> v, overtaken |-> FALSE]]
    /\ UNCHANGED <<users, unused, indexed, server, lapses>>

LoadTarget(c) ==
    LET r == req[c] IN
    /\ At(c, "load")
    /\ IF loadTargetUser(r) /\ NotOwnAccount(r) /\ Promotable(r)
       THEN req' = [req EXCEPT ![c] = [r EXCEPT !.pc = "write", !.role = "user",
                                                !.region = NoRegion]]
       ELSE Finish(c)
    /\ UNCHANGED <<users, unused, indexed, server, lapses>>

\* UpdateProfile looks a new name up before it writes it.
CheckName(c) ==
    LET r == req[c] IN
    /\ At(c, "name")
    /\ IF r.op = "profile" /\ Named(r.to) \ {r.target} # {} THEN Finish(c) ELSE Move(c, "write")
    /\ UNCHANGED <<users, unused, indexed, server, lapses>>

\* Signup has no caller: it looks its name up, then inserts.
SignupStart(c) ==
    /\ At(c, "idle") /\ Serving /\ "signup" \in Operations[c]
    /\ \E n \in Names, g \in Regions :
        /\ Named(n) = {}
        /\ req' = [req EXCEPT ![c] = [NoRequest EXCEPT !.op = "signup", !.pc = "insert",
                                                       !.to = n, !.region = g]]
    /\ UNCHANGED <<users, unused, indexed, server, lapses>>

SignupInserts(c) ==
    LET r == req[c] IN
    /\ At(c, "insert")
    /\ IF NameTaken(r.to, Nobody) THEN UNCHANGED <<users, unused>>
       ELSE \E i \in unused :
            /\ users' = [j \in Stored \cup {i} |->
                            IF j \in Stored THEN users[j]
                            ELSE [name |-> r.to, role |-> "user", region |-> r.region,
                                  disabled |-> FALSE, mustChange |-> FALSE]]
            /\ unused' = unused \ {i}
    /\ Finish(c)
    /\ UNCHANGED <<indexed, server, lapses>>

\* The break-glass command, on the machine: no gate, no scope.
SetPassword(c) ==
    /\ At(c, "idle") /\ "cli" \in Operations[c]
    /\ \E i \in Stored :
        req' = [req EXCEPT ![c] = [NoRequest EXCEPT !.op = "cli", !.pc = "write", !.target = i]]
    /\ UNCHANGED <<users, unused, indexed, server, lapses>>

\* The requests that act on a row whose scope this one changes are overtaken.
Overtaking(c, i) ==
    [d \in Clients |->
        IF d = c THEN NoRequest
        ELSE [req[d] EXCEPT !.overtaken = @ \/ i \in {req[d].caller, req[d].target}]]

Rescoped(r, u) ==
    \/ r.op = "delete"
    \/ Patched(r, u).role # u.role
    \/ Patched(r, u).region # u.region

Write(c) ==
    LET r == req[c]
        i == r.target
    IN  /\ At(c, "write")
        /\ IF i \notin Stored \/ (r.op = "profile" /\ NameTaken(r.to, i))
           THEN UNCHANGED <<users, unused>> /\ Finish(c)
           ELSE /\ users' = IF r.op = "delete" THEN [j \in Stored \ {i} |-> users[j]]
                            ELSE [users EXCEPT ![i] = Patched(r, @)]
                /\ IF Rescoped(r, users[i]) THEN req' = Overtaking(c, i) ELSE Finish(c)
                /\ UNCHANGED unused
        /\ UNCHANGED <<indexed, server, lapses>>

\* A failed call, a caller gone, a server stopped: the request ends.
GiveUp(c) ==
    /\ ~At(c, "idle")
    /\ Finish(c)
    /\ UNCHANGED <<users, unused, indexed, server, lapses>>

Starting(s) ==
    \/ Boot(s) \/ EnsureIndexes(s) \/ IndexFails(s) \/ CountOwners(s)
    \/ InsertOwner(s) \/ InsertRefused(s) \/ BootstrapFails(s) \/ Stop(s)

Request(c) ==
    \/ AuthGate(c) \/ LoadTarget(c) \/ CheckName(c) \/ SignupStart(c) \/ SignupInserts(c)
    \/ SetPassword(c) \/ Write(c) \/ GiveUp(c)

Next == (\E s \in Servers : Starting(s)) \/ (\E c \in Clients : Request(c))

Spec == Init /\ [][Next]_vars

------------------------------------------------------------------------------
\* "There is exactly one super admin" (domain/user.go:9-10; copyholdings.go:164-177
\* refuses to run otherwise).  Booting counts, then inserts, in two calls: a
\* second owner needs a boot that slept, between its two calls, through the
\* insert of another, and then inserts all the same, the unique index on the
\* name "admin" being unbuilt or the first owner renamed.
OneOwner == "overlap" \notin lapses => Cardinality(Owners) <= 1

\* "The deployment must never lock out its only owner" (admin.go:183,
\* admin.go:330): while a server serves there is an owner who is not hidden,
\* whatever administrators do to each other at once, unless a boot's failed
\* call, which is only logged, left the name to be taken by a signup, or two
\* boots made two owners.
OwnerStands ==
    Serving /\ lapses \cap {"bootstrap", "overlap"} = {} => \E i \in Owners : ~users[i].disabled

\* The list a client shows to pick the target of a request from.
Roster(op, i) == IF op = "demote" THEN AdminListAdmins(i) ELSE AdminListUsers(i)

\* An administrator "reaches only role:user rows in their own region"
\* (admin.go:39-42), by the caller the gate read and a target read later: a
\* request about to write is in the scope domain.User.Oversees draws on the rows
\* as they are now, and its target on the list its caller is shown; or writes to
\* its own row; or one of the rows changed meanwhile.
WritesStayInScope ==
    \A c \in Clients :
        LET r == req[c] IN
        r.pc = "write" /\ r.caller # Nobody =>
            \/ r.overtaken \/ r.caller = r.target
            \/ Oversees(r.caller, r.target) /\ r.target \in Roster(r.op, r.caller)
=============================================================================
