------------------------------ MODULE Accounts ------------------------------
(***************************************************************************)
(* One account, its sessions and its data, under the requests of its owner *)
(* (controllers/auth.go), the administrators' (controllers/admin.go) and   *)
(* the gate in front of both (httpserver/auth.go).                         *)
(*                                                                         *)
(* A request takes one step per database call, and nothing makes two calls *)
(* of a request atomic.  It may be given up between two calls: a call      *)
(* fails and the handler returns the error, the caller goes away, or the   *)
(* server stops.  Administrators are other accounts, never hidden here; a  *)
(* request that is refused at once changes nothing and is left out.        *)
(***************************************************************************)
EXTENDS Integers, FiniteSets

CONSTANTS
    Clients,              \* requests in flight at once, at most one each
    SessionIds,           \* session ids, each minted once
    recoveryMaxFailures,  \* wrong recoveries that close the recovery
    Operations,           \* the operations offered to the clients
    MaxEpoch,             \* bound on password changes and hides
    MaxFaults             \* bound on requests given up

Collections == {"gold", "holdings", "transactions", "snapshots"}
Gated == {"logout", "change"} \cup Collections
AllOperations == Gated \cup {"signup", "login", "recover", "hide", "delete", "admin"}

ASSUME FiniteClients == IsFiniteSet(Clients)
ASSUME RecoveryAllowsATry == recoveryMaxFailures \in Nat \ {0}
ASSUME KnownOperations == Operations \subseteq AllOperations
ASSUME Bounds == MaxEpoch \in Nat /\ MaxFaults \in Nat

VARIABLES
    account,   \* the users row: status, disabled, locked, recovery failures
    sessions,  \* the stored sessions
    unused,    \* session ids not minted yet
    data,      \* the collections that hold rows of the account
    req,       \* the request each client has in flight
    (* Observation only, read by no guard but the bounds: *)
    epoch,     \* password changes and hides so far
    strays,    \* collections written after the purge that should have emptied them
    lapsed,    \* a request was given up before its purge of the sessions
    guesses,   \* wrong recoveries judged since the failures were last cleared
    faults     \* requests given up

stored == <<account, sessions, unused, data>>
ghosts == <<epoch, strays, lapsed, guesses, faults>>
vars == <<stored, req, ghosts>>

(***************************************************************************)
(* A session is its id.  What the observation adds: the epoch its owner    *)
(* proved the password in, and whether it was stored too late for a purge  *)
(* that should have met it.                                                *)
(***************************************************************************)
Session == [id : SessionIds, epoch : Nat, late : BOOLEAN]
Named(s) == {x \in sessions : x.id = s}

NoRequest == [op |-> "none", pc |-> "idle", sid |-> "none", epoch |-> 0, locks |-> FALSE]

Pcs == {"idle", "lookup", "insert", "check", "issue", "register", "reset", "purge",
        "session", "user", "refresh", "work", "others"}
       \cup {"gold", "holdings", "transactions", "sessions", "account"}

MaxRegistered == recoveryMaxFailures - 1 + Cardinality(Clients)

\* Type correctness.  The failures stop one short of the limit plus the
\* recoveries that were under way when the last was judged.
TypeOK ==
    /\ account \in [status : {"absent", "present", "deleted"}, disabled : BOOLEAN,
                    locked : BOOLEAN, failures : 0..MaxRegistered]
    /\ sessions \subseteq Session /\ unused \subseteq SessionIds
    /\ \A x \in sessions : x.id \notin unused /\ Named(x.id) = {x}
    /\ data \subseteq Collections
    /\ req \in [Clients -> [op : AllOperations \cup {"none"}, pc : Pcs,
                            sid : SessionIds \cup {"none"}, epoch : Nat, locks : BOOLEAN]]
    /\ epoch \in Nat /\ strays \subseteq Collections
    /\ lapsed \in BOOLEAN /\ guesses \in Nat /\ faults \in Nat

Init ==
    /\ account = [status |-> "absent", disabled |-> FALSE, locked |-> FALSE, failures |-> 0]
    /\ sessions = {} /\ unused = SessionIds
    /\ data = {}
    /\ req = [c \in Clients |-> NoRequest]
    /\ epoch = 0 /\ strays = {} /\ lapsed = FALSE /\ guesses = 0 /\ faults = 0

------------------------------------------------------------------------------
At(c, pc) == req[c].pc = pc
Doing(c, op, pc) == req[c].op = op /\ req[c].pc = pc
Present == account.status = "present"

Begin(c, request) ==
    /\ At(c, "idle")
    /\ request.op \in Operations
    /\ req' = [req EXCEPT ![c] = request]

Request(op, pc) == [NoRequest EXCEPT !.op = op, !.pc = pc]

Move(c, pc) == req' = [req EXCEPT ![c].pc = pc]
Finish(c) == req' = [req EXCEPT ![c] = NoRequest]

(***************************************************************************)
(* Store calls.  An update of a row that is gone matches nothing, and says *)
(* nothing of it.                                                          *)
(***************************************************************************)
UpdateUser(new) == account' = IF Present THEN new ELSE account

\* The calls of a deletion, in order.
Rank == [gold |-> 1, holdings |-> 2, transactions |-> 3, sessions |-> 4, account |-> 5]
After == [gold |-> "holdings", holdings |-> "transactions",
          transactions |-> "sessions", sessions |-> "account"]

\* A deletion under way has already emptied the collection.
Passed(collection) ==
    \E d \in Clients : req[d].op = "delete" /\ Rank[req[d].pc] > Rank[collection]

\* issueSession: a fresh id, for the account as it was when it was checked.
issueSession(c) ==
    /\ \E s \in unused :
        /\ unused' = unused \ {s}
        /\ sessions' = sessions \cup
               {[id |-> s, epoch |-> req[c].epoch,
                 late |-> req[c].epoch # epoch \/ ~Present \/ Passed("sessions")]}
    /\ Finish(c)

\* invalidateAllSessions.
PurgeSessions ==
    /\ sessions' = {}
    /\ lapsed' = FALSE

------------------------------------------------------------------------------
(***************************************************************************)
(* The routes without a session.                                           *)
(***************************************************************************)
SignupStart(c) ==
    /\ account.status = "absent"
    /\ Begin(c, Request("signup", "insert"))
    /\ UNCHANGED <<stored, ghosts>>

\* The unique index on the username decides between two signups.
SignupInserts(c) ==
    /\ At(c, "insert")
    /\ IF account.status = "absent"
       THEN account' = [account EXCEPT !.status = "present"] /\ Move(c, "issue")
       ELSE UNCHANGED account /\ Finish(c)
    /\ UNCHANGED <<sessions, unused, data, ghosts>>

\* Login with the right password; a wrong one only counts login_failures, which
\* nothing reads.
Login(c) ==
    /\ Present /\ ~account.disabled /\ ~account.locked
    /\ Begin(c, [Request("login", "issue") EXCEPT !.epoch = epoch])
    /\ UNCHANGED <<stored, ghosts>>

Issue(c) ==
    /\ At(c, "issue")
    /\ issueSession(c)
    /\ UNCHANGED <<account, data, epoch, strays, lapsed, guesses, faults>>

\* Faulty variant: only the lock is looked at, not the count.
RecoveryOpen_LockOnly == Present /\ ~account.disabled /\ ~account.locked

RecoveryOpen ==
    /\ Present /\ ~account.disabled
    /\ ~account.locked /\ account.failures < recoveryMaxFailures

\* RecoverPassword judges the answers on the row it has read.
RecoverWrong(c) ==
    /\ RecoveryOpen
    /\ Begin(c, [Request("recover", "register") EXCEPT
                     !.locks = account.failures + 1 >= recoveryMaxFailures])
    /\ guesses' = guesses + 1
    /\ UNCHANGED <<stored, epoch, strays, lapsed, faults>>

RecoverRight(c) ==
    /\ RecoveryOpen
    /\ epoch < MaxEpoch
    /\ Begin(c, Request("recover", "reset"))
    /\ UNCHANGED <<stored, ghosts>>

RegisterRecoveryFailure(c) ==
    /\ At(c, "register")
    /\ UpdateUser([account EXCEPT !.failures = @ + 1, !.locked = @ \/ req[c].locks])
    /\ Finish(c)
    /\ UNCHANGED <<sessions, unused, data, ghosts>>

\* The new password and the cleared counter; the sessions go in the next call.
RecoverResets(c) ==
    /\ At(c, "reset")
    /\ UpdateUser([account EXCEPT !.failures = 0])
    /\ epoch' = epoch + 1
    /\ guesses' = 0
    /\ Move(c, "purge")
    /\ UNCHANGED <<sessions, unused, data, strays, lapsed, faults>>

Purge(c) ==
    /\ At(c, "purge")
    /\ PurgeSessions
    /\ Finish(c)
    /\ UNCHANGED <<account, unused, data, epoch, strays, guesses, faults>>

------------------------------------------------------------------------------
(***************************************************************************)
(* AuthGate: the session, then its user, then the sliding expiry.  Time is *)
(* abstract: a session may expire whenever it is looked at, or be removed  *)
(* by the database's own expiry.                                           *)
(***************************************************************************)
Call(c) ==
    /\ \E op \in Gated, s \in SessionIds \ unused :
        /\ op = "change" => epoch < MaxEpoch
        /\ Begin(c, [Request(op, "session") EXCEPT !.sid = s])
    /\ UNCHANGED <<stored, ghosts>>

GateSession(c) ==
    /\ At(c, "session")
    /\ IF Named(req[c].sid) # {} THEN Move(c, "user") ELSE Finish(c)
    /\ UNCHANGED <<stored, ghosts>>

GateExpired(c) ==
    /\ At(c, "session")
    /\ sessions' = sessions \ Named(req[c].sid)
    /\ Finish(c)
    /\ UNCHANGED <<account, unused, data, ghosts>>

GateUser(c) ==
    /\ At(c, "user")
    /\ IF Present /\ ~account.disabled THEN Move(c, "refresh") ELSE Finish(c)
    /\ UNCHANGED <<stored, ghosts>>

\* Faulty variant: the refresh stores the session it has read.
refreshSession_Saves(c) ==
    /\ At(c, "refresh")
    /\ sessions' = (sessions \ Named(req[c].sid)) \cup
                    {[id |-> req[c].sid, epoch |-> epoch, late |-> FALSE]}
    /\ Move(c, "work")
    /\ UNCHANGED <<account, unused, data, ghosts>>

\* SetExpiry updates the session if it is still there.
refreshSession(c) ==
    /\ At(c, "refresh")
    /\ Move(c, "work")
    /\ UNCHANGED <<stored, ghosts>>

TtlExpires ==
    /\ \E x \in sessions : sessions' = sessions \ {x}
    /\ UNCHANGED <<account, unused, data, req, ghosts>>

------------------------------------------------------------------------------
(***************************************************************************)
(* The routes behind the gate, in the state the gate has seen.             *)
(***************************************************************************)
Logout(c) ==
    /\ Doing(c, "logout", "work")
    /\ sessions' = sessions \ Named(req[c].sid)
    /\ Finish(c)
    /\ UNCHANGED <<account, unused, data, ghosts>>

\* ChangePassword keeps the caller's own session.
ChangePassword(c) ==
    /\ Doing(c, "change", "work")
    /\ epoch' = epoch + 1
    /\ sessions' = {IF x.id = req[c].sid THEN [x EXCEPT !.epoch = epoch + 1] ELSE x :
                        x \in sessions}
    /\ Move(c, "others")
    /\ UNCHANGED <<account, unused, data, strays, lapsed, guesses, faults>>

DeleteOthers(c) ==
    /\ At(c, "others")
    /\ sessions' = Named(req[c].sid)
    /\ Finish(c)
    /\ UNCHANGED <<account, unused, data, ghosts>>

\* Any handler that stores a row of the account.
StoreRow(c) ==
    LET op == req[c].op IN
    /\ At(c, "work") /\ op \in Collections
    /\ data' = data \cup {op}
    /\ strays' = IF op # "snapshots" /\ (~Present \/ Passed(op)) THEN strays \cup {op} ELSE strays
    /\ Finish(c)
    /\ UNCHANGED <<account, sessions, unused, epoch, lapsed, guesses, faults>>

------------------------------------------------------------------------------
(***************************************************************************)
(* Administration.  A handler reads its target first, only to know that it *)
(* exists and is in scope, so a single update is one step.                 *)
(***************************************************************************)
AdminResetLockout ==
    /\ "admin" \in Operations
    /\ Present
    /\ account' = [account EXCEPT !.locked = FALSE, !.failures = 0]
    /\ guesses' = 0
    /\ UNCHANGED <<sessions, unused, data, req, epoch, strays, lapsed, faults>>

AdminReactivateUser ==
    /\ "admin" \in Operations
    /\ Present
    /\ account' = [account EXCEPT !.disabled = FALSE]
    /\ UNCHANGED <<sessions, unused, data, req, ghosts>>

\* Faulty variant: the sessions are left to expire.
AdminHideUser_KeepsSessions(c) ==
    /\ Present
    /\ epoch < MaxEpoch
    /\ At(c, "idle") /\ "hide" \in Operations
    /\ account' = [account EXCEPT !.disabled = TRUE]
    /\ epoch' = epoch + 1
    /\ UNCHANGED <<sessions, unused, data, req, strays, lapsed, guesses, faults>>

AdminHideUser(c) ==
    /\ Present
    /\ epoch < MaxEpoch
    /\ Begin(c, Request("hide", "purge"))
    /\ account' = [account EXCEPT !.disabled = TRUE]
    /\ epoch' = epoch + 1
    /\ UNCHANGED <<sessions, unused, data, strays, lapsed, guesses, faults>>

AdminDeleteUser(c) ==
    /\ Present
    /\ Begin(c, Request("delete", "gold"))
    /\ UNCHANGED <<stored, ghosts>>

\* Faulty variant: the account goes before the data.
DeleteStep_UserFirst(c) ==
    LET pc == req[c].pc IN
    /\ req[c].op = "delete"
    /\ data' = IF pc = "account" THEN {"snapshots"} \cap data ELSE data
    /\ sessions' = IF pc = "sessions" THEN {} ELSE sessions
    /\ account' = IF pc = "gold" THEN [account EXCEPT !.status = "deleted"] ELSE account
    /\ IF pc = "account" THEN Finish(c) ELSE Move(c, After[pc])
    /\ UNCHANGED <<unused, strays, lapsed, epoch, guesses, faults>>

\* The data, the sessions, and the account last.
DeleteStep(c) ==
    LET pc == req[c].pc IN
    /\ req[c].op = "delete"
    /\ data' = data \ {pc}
    /\ strays' = strays \ {pc}
    /\ IF pc = "sessions" THEN PurgeSessions ELSE UNCHANGED <<sessions, lapsed>>
    /\ account' = IF pc = "account" THEN [account EXCEPT !.status = "deleted"] ELSE account
    /\ IF pc = "account" THEN Finish(c) ELSE Move(c, After[pc])
    /\ UNCHANGED <<unused, epoch, guesses, faults>>

------------------------------------------------------------------------------
\* A request is given up, at a failed call or between two calls.
GiveUp(c) ==
    /\ ~At(c, "idle")
    /\ faults < MaxFaults
    /\ faults' = faults + 1
    /\ lapsed' = (lapsed \/ At(c, "purge") \/ At(c, "others"))
    /\ Finish(c)
    /\ UNCHANGED <<stored, epoch, strays, guesses>>

Public(c) ==
    \/ SignupStart(c) \/ SignupInserts(c) \/ Login(c) \/ Issue(c)
    \/ RecoverWrong(c) \/ RecoverRight(c) \/ RegisterRecoveryFailure(c) \/ RecoverResets(c)
    \/ Purge(c)

Gate(c) == Call(c) \/ GateSession(c) \/ GateExpired(c) \/ GateUser(c) \/ refreshSession(c)

Owner(c) == Logout(c) \/ ChangePassword(c) \/ DeleteOthers(c) \/ StoreRow(c)

Admin(c) == AdminHideUser(c) \/ AdminDeleteUser(c) \/ DeleteStep(c)

Next ==
    \/ \E c \in Clients : Public(c) \/ Gate(c) \/ Owner(c) \/ Admin(c) \/ GiveUp(c)
    \/ AdminResetLockout \/ AdminReactivateUser \/ TtlExpires

Spec == Init /\ [][Next]_vars

------------------------------------------------------------------------------
\* "At 3 set locked = true" (DD-001 4.3, auth.go:290-301).  The count is read
\* and written in two calls, so recoveries under way together are judged on the
\* same count; what is left of the promise is that no more are ever judged than
\* the limit, the others under way and the requests given up account for.
GuessesAreCapped ==
    guesses <= recoveryMaxFailures - 1 + Cardinality(Clients) + faults

\* "Changing the password signs out their other sessions" (PRD-001 6.3) and a
\* hide kills the live ones (admin.go:194-198): the password, or the flag, is
\* written before the sessions are deleted, so a session of an earlier epoch is
\* about to be deleted, or was issued by a login that overlapped the change, or
\* the request was given up in between.
SignedOutUnlessLate ==
    \A x \in sessions :
        \/ x.epoch = epoch
        \/ x.late
        \/ \E c \in Clients : At(c, "purge") \/ (At(c, "others") /\ req[c].sid # x.id)
        \/ lapsed

\* A request past the gate slides the expiry of a session that may have been
\* deleted since (httpserver/auth.go:247-262): it never brings it back.
EndedStaysEnded ==
    [][\A x \in sessions' : Named(x.id) = {} => x.id \in unused]_vars

\* "The user row goes last ... gold rows can never be orphaned behind a vanished
\* account" (admin.go:250-254): whatever is given up and retried, an account that
\* is gone leaves no data and no session, except what a request that was already
\* past the gate stored after the deletion went by.  The snapshots stay.
DeletedLeavesOnlyStrays ==
    account.status = "deleted" =>
        /\ data \ {"snapshots"} \subseteq strays
        /\ \A x \in sessions : x.late

\* "DeleteByUser removes every snapshot owned by uid (used when a user is
\* permanently deleted)" (snapshots.go:267-268): nothing calls it.
DeletedLeavesNoSnapshot ==
    account.status = "deleted" /\ (\A c \in Clients : At(c, "idle")) => "snapshots" \notin data
==============================================================================
