--------------------------- MODULE AccountsProofs ---------------------------
(***************************************************************************)
(* What holds of an account for any number of requests at once, any number *)
(* of sessions, any limit on recoveries and any number of requests given   *)
(* up: type correctness, the cap on recoveries, and what is left of the    *)
(* sessions after a change of password, a hide or a deletion.              *)
(***************************************************************************)
EXTENDS Accounts, FiniteSetTheorems, TLAPS

ReqType == [op : AllOperations \cup {"none"}, pc : Pcs, sid : SessionIds \cup {"none"},
            epoch : Nat, locks : BOOLEAN]
DeleteCalls == {"gold", "holdings", "transactions", "sessions", "account"}

\* A request is a deletion exactly while it is at one of its calls.
ReqInv ==
    /\ req \in [Clients -> ReqType]
    /\ \A c \in Clients : req[c].op = "delete" => req[c].pc \in DeleteCalls

SessionsInv ==
    /\ sessions \subseteq Session /\ unused \subseteq SessionIds
    /\ \A x \in sessions : x.id \notin unused /\ Named(x.id) = {x}

Row == [status : {"absent", "present", "deleted"}, disabled : BOOLEAN,
        locked : BOOLEAN, failures : Nat]

RowInv ==
    /\ account \in Row
    /\ data \subseteq Collections
    /\ epoch \in Nat /\ strays \subseteq Collections
    /\ lapsed \in BOOLEAN /\ guesses \in Nat /\ faults \in Nat

------------------------------------------------------------------------------
(***************************************************************************)
(* Requests.                                                               *)
(***************************************************************************)
LEMMA NoRequestIsTyped == NoRequest \in ReqType /\ NoRequest.op # "delete"
  BY DEF NoRequest, ReqType, Pcs

LEMMA RequestIsTyped ==
  ASSUME NEW op \in AllOperations, NEW pc \in Pcs
  PROVE  /\ Request(op, pc) \in ReqType
         /\ Request(op, pc).op = op /\ Request(op, pc).pc = pc
  BY DEF Request, NoRequest, ReqType

LEMMA JudgedIsTyped ==
  ASSUME NEW locks \in BOOLEAN
  PROVE  LET r == [Request("recover", "register") EXCEPT !.locks = locks]
         IN  r \in ReqType /\ r.op = "recover" /\ r.pc = "register"
  BY RequestIsTyped DEF ReqType, AllOperations, Pcs

\* How a step of a client changes its request, a wrong recovery apart.
Shape(c) ==
    \/ Finish(c)
    \/ \E pc \in Pcs \ {"register"} :
          /\ Move(c, pc) /\ ~At(c, "register")
          /\ req[c].pc \in DeleteCalls => pc \in DeleteCalls
    \/ \E r \in ReqType :
          /\ Begin(c, r) /\ r.pc # "register"
          /\ r.op = "delete" => r.pc \in DeleteCalls

LEMMA BeginHasShape ==
  ASSUME NEW c \in Clients, NEW request \in ReqType, Begin(c, request),
         request.pc # "register", request.op = "delete" => request.pc \in DeleteCalls
  PROVE  Shape(c)
  BY DEF Shape

LEMMA MoveHasShape ==
  ASSUME NEW c \in Clients, NEW pc \in Pcs, Move(c, pc), pc # "register",
         ~At(c, "register"), req[c].pc \in DeleteCalls => pc \in DeleteCalls
  PROVE  Shape(c)
  BY DEF Shape

LEMMA FinishHasShape ==
  ASSUME NEW c \in Clients, Finish(c)
  PROVE  Shape(c)
  BY DEF Shape

LEMMA ShapeIsTyped ==
  ASSUME ReqInv, NEW c \in Clients, Shape(c)
  PROVE  ReqInv'
<1>1. CASE Finish(c)
  BY <1>1, NoRequestIsTyped DEF ReqInv, Finish
<1>2. CASE \E pc \in Pcs \ {"register"} :
             Move(c, pc) /\ (req[c].pc \in DeleteCalls => pc \in DeleteCalls)
  BY <1>2 DEF ReqInv, Move, ReqType
<1>3. CASE \E r \in ReqType : Begin(c, r) /\ (r.op = "delete" => r.pc \in DeleteCalls)
  BY <1>3 DEF ReqInv, Begin
<1> QED BY <1>1, <1>2, <1>3 DEF Shape

LEMMA PublicHasShape ==
  ASSUME ReqInv, RowInv, NEW c \in Clients, Public(c), ~RecoverWrong(c)
  PROVE  Shape(c)
<1>1. CASE SignupStart(c)
  BY <1>1, RequestIsTyped, BeginHasShape DEF SignupStart, AllOperations, Pcs
<1>2. CASE SignupInserts(c)
  BY <1>2, MoveHasShape, FinishHasShape DEF SignupInserts, At, Pcs, DeleteCalls
<1>3. CASE Login(c)
  <2> DEFINE r == [Request("login", "issue") EXCEPT !.epoch = epoch]
  <2>1. r \in ReqType /\ r.op = "login" /\ r.pc = "issue"
    BY RequestIsTyped DEF ReqType, AllOperations, Pcs, RowInv
  <2> QED BY <1>3, <2>1, BeginHasShape DEF Login
<1>4. CASE Issue(c)
  BY <1>4, FinishHasShape DEF Issue, issueSession
<1>5. CASE RecoverRight(c)
  BY <1>5, RequestIsTyped, BeginHasShape DEF RecoverRight, AllOperations, Pcs
<1>6. CASE RegisterRecoveryFailure(c) \/ Purge(c)
  BY <1>6, FinishHasShape DEF RegisterRecoveryFailure, Purge
<1>7. CASE RecoverResets(c)
  BY <1>7, MoveHasShape DEF RecoverResets, At, Pcs, DeleteCalls
<1> QED BY <1>1, <1>2, <1>3, <1>4, <1>5, <1>6, <1>7 DEF Public

LEMMA GateHasShape ==
  ASSUME ReqInv, NEW c \in Clients, Gate(c)
  PROVE  Shape(c)
<1>1. CASE Call(c)
  <2>1. PICK op \in Gated, s \in SessionIds \ unused :
            Begin(c, [Request(op, "session") EXCEPT !.sid = s])
    BY <1>1 DEF Call
  <2>2. op \in AllOperations /\ op # "delete"
    BY DEF Gated, AllOperations, Collections
  <2>3. /\ [Request(op, "session") EXCEPT !.sid = s] \in ReqType
        /\ [Request(op, "session") EXCEPT !.sid = s].op = op
        /\ [Request(op, "session") EXCEPT !.sid = s].pc = "session"
    BY <2>2, RequestIsTyped DEF ReqType, Pcs
  <2> QED BY <2>1, <2>2, <2>3, BeginHasShape
<1>2. CASE GateSession(c) \/ GateUser(c) \/ refreshSession(c)
  BY <1>2, MoveHasShape, FinishHasShape
     DEF GateSession, GateUser, refreshSession, At, Pcs, DeleteCalls
<1>3. CASE GateExpired(c)
  BY <1>3, FinishHasShape DEF GateExpired
<1> QED BY <1>1, <1>2, <1>3 DEF Gate

LEMMA OwnerHasShape ==
  ASSUME ReqInv, NEW c \in Clients, Owner(c)
  PROVE  Shape(c)
<1>1. CASE ChangePassword(c)
  BY <1>1, MoveHasShape DEF ChangePassword, Doing, At, Pcs, DeleteCalls
<1>2. CASE Logout(c) \/ DeleteOthers(c) \/ StoreRow(c)
  BY <1>2, FinishHasShape DEF Logout, DeleteOthers, StoreRow
<1> QED BY <1>1, <1>2 DEF Owner

LEMMA AdminHasShape ==
  ASSUME ReqInv, NEW c \in Clients, Admin(c)
  PROVE  Shape(c)
<1>1. CASE AdminHideUser(c)
  BY <1>1, RequestIsTyped, BeginHasShape DEF AdminHideUser, AllOperations, Pcs
<1>2. CASE AdminDeleteUser(c)
  BY <1>2, RequestIsTyped, BeginHasShape DEF AdminDeleteUser, AllOperations, Pcs, DeleteCalls
<1>3. CASE DeleteStep(c)
  <2>1. CASE req[c].pc = "account"
    BY <1>3, <2>1, FinishHasShape DEF DeleteStep
  <2>2. CASE req[c].pc # "account"
    <3>1. /\ After[req[c].pc] \in Pcs /\ After[req[c].pc] \in DeleteCalls
          /\ After[req[c].pc] # "register" /\ ~At(c, "register")
      BY <1>3, <2>2 DEF DeleteStep, ReqInv, DeleteCalls, After, Pcs, At
    <3> QED BY <1>3, <2>2, <3>1, MoveHasShape DEF DeleteStep
  <2> QED BY <2>1, <2>2
<1> QED BY <1>1, <1>2, <1>3 DEF Admin

\* A wrong recovery begins a request that waits to register.
LEMMA RecoverWrongBegins ==
  ASSUME NEW c \in Clients, RecoverWrong(c)
  PROVE  \E r \in ReqType : Begin(c, r) /\ r.op = "recover" /\ r.pc = "register"
<1> DEFINE locks == account.failures + 1 >= recoveryMaxFailures
           r == [Request("recover", "register") EXCEPT !.locks = locks]
<1>1. locks \in BOOLEAN
  OBVIOUS
<1>2. r \in ReqType /\ r.op = "recover" /\ r.pc = "register"
  BY <1>1, JudgedIsTyped
<1>3. Begin(c, r)
  BY DEF RecoverWrong
<1> QED BY <1>2, <1>3

LEMMA NextKeepsRequests == ReqInv /\ RowInv /\ [Next]_vars => ReqInv'
<1> SUFFICES ASSUME ReqInv, RowInv, [Next]_vars PROVE ReqInv'
  OBVIOUS
<1>1. ASSUME NEW c \in Clients, RecoverWrong(c) PROVE ReqInv'
  BY <1>1, RecoverWrongBegins DEF ReqInv, Begin
<1>2. ASSUME NEW c \in Clients, ~RecoverWrong(c),
             Public(c) \/ Gate(c) \/ Owner(c) \/ Admin(c) \/ GiveUp(c)
      PROVE  ReqInv'
  BY <1>2, PublicHasShape, GateHasShape, OwnerHasShape, AdminHasShape, FinishHasShape,
     ShapeIsTyped DEF GiveUp
<1>3. CASE AdminResetLockout \/ AdminReactivateUser \/ TtlExpires \/ UNCHANGED vars
  BY <1>3 DEF AdminResetLockout, AdminReactivateUser, TtlExpires, vars, ReqInv
<1> QED BY <1>1, <1>2, <1>3 DEF Next

------------------------------------------------------------------------------
(***************************************************************************)
(* Sessions: their ids are minted once, and one document has one id.       *)
(***************************************************************************)
LEMMA FewerSessions ==
  ASSUME SessionsInv, sessions' \subseteq sessions, unused' = unused
  PROVE  SessionsInv'
  BY DEF SessionsInv, Named

LEMMA NextKeepsSessions == ReqInv /\ RowInv /\ SessionsInv /\ [Next]_vars => SessionsInv'
<1> SUFFICES ASSUME ReqInv, RowInv, SessionsInv, [Next]_vars PROVE SessionsInv'
  OBVIOUS
<1> USE DEF stored, ghosts
<1>1. ASSUME NEW c \in Clients, Public(c) PROVE SessionsInv'
  <2>1. CASE Issue(c)
    <3> DEFINE late == req[c].epoch # epoch \/ ~Present \/ Passed("sessions")
    <3>1. PICK s \in unused :
            /\ unused' = unused \ {s}
            /\ sessions' = sessions \cup {[id |-> s, epoch |-> req[c].epoch, late |-> late]}
      BY <2>1 DEF Issue, issueSession
    <3>2. late \in BOOLEAN
      OBVIOUS
    <3> HIDE DEF late
    <3> DEFINE new == [id |-> s, epoch |-> req[c].epoch, late |-> late]
    <3>3. new \in Session /\ new.id = s
      BY <3>2 DEF Session, SessionsInv, ReqInv, ReqType
    <3>4. \A x \in sessions : x.id # s
      BY DEF SessionsInv
    <3> HIDE DEF new
    <3> QED BY <3>1, <3>3, <3>4 DEF SessionsInv, Named, new
  <2>2. CASE Purge(c)
    BY <2>2, FewerSessions DEF Purge, PurgeSessions
  <2> QED
    BY <1>1, <2>1, <2>2, FewerSessions
       DEF Public, SignupStart, SignupInserts, Login, RecoverWrong, RecoverRight,
           RegisterRecoveryFailure, RecoverResets
<1>2. ASSUME NEW c \in Clients, Gate(c) PROVE SessionsInv'
  BY <1>2, FewerSessions
     DEF Gate, Call, GateSession, GateExpired, GateUser, refreshSession
<1>3. ASSUME NEW c \in Clients, Owner(c) PROVE SessionsInv'
  <2>1. CASE ChangePassword(c)
    <3> DEFINE kept(x) == IF x.id = req[c].sid THEN [x EXCEPT !.epoch = epoch + 1] ELSE x
    <3>1. sessions' = {kept(x) : x \in sessions} /\ unused' = unused
      BY <2>1 DEF ChangePassword
    <3>2. ASSUME NEW x \in sessions PROVE kept(x) \in Session /\ kept(x).id = x.id
      BY DEF SessionsInv, RowInv, Session
    <3> HIDE DEF kept
    <3>3. ASSUME NEW y \in sessions' PROVE y \in Session /\ y.id \notin unused'
      BY <3>1, <3>2 DEF SessionsInv
    <3>4. ASSUME NEW y \in sessions', NEW z \in sessions', y.id = z.id PROVE y = z
      <4>1. PICK a \in sessions : y = kept(a)
        BY <3>1
      <4>2. PICK b \in sessions : z = kept(b)
        BY <3>1
      <4>3. a.id = b.id
        BY <3>2, <3>4, <4>1, <4>2
      <4>4. a = b
        BY <4>3 DEF SessionsInv, Named
      <4> QED BY <4>1, <4>2, <4>4
    <3> QED BY <3>1, <3>3, <3>4 DEF SessionsInv, Named
  <2>2. CASE Logout(c) \/ DeleteOthers(c) \/ StoreRow(c)
    BY <2>2, FewerSessions DEF Logout, DeleteOthers, StoreRow, Named
  <2> QED BY <1>3, <2>1, <2>2 DEF Owner
<1>4. ASSUME NEW c \in Clients, Admin(c) \/ GiveUp(c) PROVE SessionsInv'
  BY <1>4, FewerSessions
     DEF Admin, AdminHideUser, AdminDeleteUser, DeleteStep, PurgeSessions, GiveUp
<1>5. CASE AdminResetLockout \/ AdminReactivateUser \/ TtlExpires \/ UNCHANGED vars
  BY <1>5, FewerSessions DEF AdminResetLockout, AdminReactivateUser, TtlExpires, vars
<1> QED BY <1>1, <1>2, <1>3, <1>4, <1>5 DEF Next

------------------------------------------------------------------------------
(***************************************************************************)
(* The account, its data and what is observed of them.                     *)
(***************************************************************************)
LEMMA RowUpdates ==
  ASSUME NEW a \in Row, NEW b \in BOOLEAN, NEW n \in Nat
  PROVE  /\ [a EXCEPT !.disabled = b] \in Row
         /\ [a EXCEPT !.locked = b, !.failures = n] \in Row
         /\ [a EXCEPT !.failures = n, !.locked = b] \in Row
         /\ [a EXCEPT !.locked = b, !.failures = n].failures = n
         /\ [a EXCEPT !.failures = n, !.locked = b].failures = n
         /\ [a EXCEPT !.locked = b, !.failures = n].status = a.status
         /\ [a EXCEPT !.failures = n, !.locked = b].status = a.status
<1>1. [a EXCEPT !.disabled = b] \in Row
  BY DEF Row
<1> DEFINE l == [a EXCEPT !.locked = b]
           f == [a EXCEPT !.failures = n]
<1>2. l \in Row /\ l.status = a.status /\ f \in Row /\ f.status = a.status
  BY DEF Row
<1>3. [a EXCEPT !.locked = b, !.failures = n] = [l EXCEPT !.failures = n]
  OBVIOUS
<1>4. [a EXCEPT !.failures = n, !.locked = b] = [f EXCEPT !.locked = b]
  OBVIOUS
<1>5. f.failures = n
  BY DEF Row
<1> HIDE DEF l, f
<1>6. /\ [l EXCEPT !.failures = n] \in Row /\ [l EXCEPT !.failures = n].failures = n
      /\ [l EXCEPT !.failures = n].status = l.status
  BY <1>2 DEF Row
<1>7. /\ [f EXCEPT !.locked = b] \in Row /\ [f EXCEPT !.locked = b].failures = n
      /\ [f EXCEPT !.locked = b].status = f.status
  BY <1>2, <1>5 DEF Row
<1> QED BY <1>1, <1>2, <1>3, <1>4, <1>6, <1>7

LEMMA NextKeepsRow == ReqInv /\ RowInv /\ [Next]_vars => RowInv'
<1> SUFFICES ASSUME ReqInv, RowInv, [Next]_vars PROVE RowInv'
  OBVIOUS
<1> USE DEF stored, ghosts, RowInv
<1>1. ASSUME NEW c \in Clients, Public(c) PROVE RowInv'
  <2>1. CASE SignupInserts(c)
    BY <2>1 DEF SignupInserts, Row
  <2>2. CASE RegisterRecoveryFailure(c)
    <3> DEFINE locks == account.locked \/ req[c].locks
               n == account.failures + 1
    <3>1. locks \in BOOLEAN /\ n \in Nat
      BY DEF Row
    <3>2. account' = IF Present THEN [account EXCEPT !.failures = n, !.locked = locks]
                                ELSE account
      BY <2>2 DEF RegisterRecoveryFailure, UpdateUser
    <3> HIDE DEF locks, n
    <3>3. account' \in Row
      BY <3>1, <3>2, RowUpdates
    <3> QED BY <2>2, <3>3 DEF RegisterRecoveryFailure
  <2>3. CASE RecoverResets(c)
    BY <2>3 DEF RecoverResets, UpdateUser, Row
  <2>4. CASE RecoverWrong(c)
    BY <2>4 DEF RecoverWrong
  <2>5. CASE Purge(c)
    BY <2>5 DEF Purge, PurgeSessions
  <2>6. CASE SignupStart(c) \/ Login(c) \/ Issue(c) \/ RecoverRight(c)
    BY <2>6 DEF SignupStart, Login, Issue, RecoverRight
  <2> QED BY <1>1, <2>1, <2>2, <2>3, <2>4, <2>5, <2>6 DEF Public
<1>2. ASSUME NEW c \in Clients, Gate(c) PROVE RowInv'
  BY <1>2 DEF Gate, Call, GateSession, GateExpired, GateUser, refreshSession
<1>3. ASSUME NEW c \in Clients, Owner(c) PROVE RowInv'
  BY <1>3 DEF Owner, Logout, ChangePassword, DeleteOthers, StoreRow
<1>4. ASSUME NEW c \in Clients, Admin(c) PROVE RowInv'
  <2>1. CASE AdminHideUser(c)
    <3>1. account' \in Row
      BY <2>1, RowUpdates, 0 \in Nat, TRUE \in BOOLEAN, Zenon DEF AdminHideUser
    <3> QED BY <2>1, <3>1 DEF AdminHideUser
  <2>2. CASE AdminDeleteUser(c)
    BY <2>2 DEF AdminDeleteUser
  <2>3. CASE DeleteStep(c)
    <3>1. CASE At(c, "account")
      BY <2>3, <3>1 DEF DeleteStep, At, PurgeSessions, Row
    <3>2. CASE ~At(c, "account")
      BY <2>3, <3>2 DEF DeleteStep, At, PurgeSessions, Row
    <3> QED BY <3>1, <3>2
  <2> QED BY <1>4, <2>1, <2>2, <2>3 DEF Admin
<1>5. ASSUME NEW c \in Clients, GiveUp(c) PROVE RowInv'
  <2>1. (lapsed \/ At(c, "purge") \/ At(c, "others")) \in BOOLEAN
    OBVIOUS
  <2> QED BY <1>5, <2>1 DEF GiveUp
<1>6. CASE AdminResetLockout \/ AdminReactivateUser \/ TtlExpires \/ UNCHANGED vars
  <2>1. CASE AdminResetLockout
    <3>1. account' \in Row
      BY <2>1, RowUpdates, 0 \in Nat, FALSE \in BOOLEAN, Zenon DEF AdminResetLockout
    <3> QED BY <2>1, <3>1 DEF AdminResetLockout
  <2>2. CASE AdminReactivateUser
    BY <2>2, RowUpdates DEF AdminReactivateUser
  <2>3. CASE TtlExpires \/ UNCHANGED vars
    BY <2>3 DEF TtlExpires, vars
  <2> QED BY <1>6, <2>1, <2>2, <2>3
<1> QED BY <1>1, <1>2, <1>3, <1>4, <1>5, <1>6 DEF Next
------------------------------------------------------------------------------
(***************************************************************************)
(* The cap on recoveries.  A wrong recovery is judged when the row shows   *)
(* fewer failures than the limit, and then waits to register its own: the  *)
(* failures of the row and the recoveries that wait stay below the limit   *)
(* plus the clients, and account for every wrong recovery but those given  *)
(* up before they registered.                                              *)
(***************************************************************************)
Registering == {c \in Clients : At(c, "register")}

CountInv ==
    /\ account.failures + Cardinality(Registering) <= MaxRegistered
    /\ guesses <= MaxRegistered + faults
    /\ account.status = "absent" => guesses = 0
    /\ Present => guesses <= account.failures + Cardinality(Registering) + faults

LEMMA CardinalitiesAreNat ==
  /\ Cardinality(Clients) \in Nat /\ MaxRegistered \in Nat
  /\ IsFiniteSet(Registering) /\ Cardinality(Registering) \in Nat
  /\ Cardinality(Registering) <= Cardinality(Clients)
<1>1. Cardinality(Clients) \in Nat
  BY FiniteClients, FS_CardinalityType
<1>2. Registering \subseteq Clients
  BY DEF Registering
<1>3. IsFiniteSet(Registering) /\ Cardinality(Registering) <= Cardinality(Clients)
  BY <1>2, FiniteClients, FS_Subset
<1>4. Cardinality(Registering) \in Nat
  BY <1>3, FS_CardinalityType
<1> QED BY <1>1, <1>3, <1>4, RecoveryAllowsATry DEF MaxRegistered

LEMMA JoinsRegistering ==
  ASSUME ReqInv, NEW c \in Clients, NEW r, r.pc = "register", Begin(c, r)
  PROVE  /\ Cardinality(Registering') = Cardinality(Registering) + 1
         /\ Cardinality(Registering) < Cardinality(Clients)
<1>1. c \notin Registering /\ Registering' = Registering \cup {c}
  BY DEF Registering, Begin, At, ReqInv
<1>2. Cardinality(Registering') = Cardinality(Registering) + 1
  BY <1>1, CardinalitiesAreNat, FS_AddElement
<1>3. Registering \cup {c} \subseteq Clients
  BY DEF Registering
<1>4. Cardinality(Registering \cup {c}) <= Cardinality(Clients)
  BY <1>3, FiniteClients, FS_Subset
<1> QED BY <1>1, <1>2, <1>4, CardinalitiesAreNat

LEMMA LeavesRegistering ==
  ASSUME ReqInv, NEW c \in Clients, At(c, "register"), Finish(c)
  PROVE  Cardinality(Registering') = Cardinality(Registering) - 1
<1>1. c \in Registering /\ Registering' = Registering \ {c}
  BY DEF Registering, Finish, At, ReqInv, NoRequest
<1> QED BY <1>1, CardinalitiesAreNat, FS_RemoveElement

LEMMA StaysOutOfRegistering ==
  ASSUME ReqInv, NEW c \in Clients, ~At(c, "register"), Shape(c)
  PROVE  Registering' = Registering
  BY DEF Shape, Registering, Finish, Move, Begin, At, ReqInv, ReqType, NoRequest

\* A step that no recovery waits on, and that leaves the counts alone or clears
\* them; a deletion may take the account away.
Quiet ==
    /\ Registering' = Registering
    /\ faults' = faults /\ guesses' = guesses
    /\ account'.failures = account.failures
    /\ \/ account'.status = account.status
       \/ account.status = "absent"
       \/ account'.status = "deleted"

Cleared ==
    /\ Registering' = Registering
    /\ faults' = faults /\ guesses' = 0
    /\ account'.status = account.status
    /\ account'.failures = account.failures \/ account'.failures = 0
    /\ Present => account'.failures = 0

LEMMA QuietKeepsCounts == RowInv /\ CountInv /\ Quiet /\ RowInv' => CountInv'
  BY CardinalitiesAreNat DEF Quiet, CountInv, RowInv, Row, Present, MaxRegistered

LEMMA ClearedKeepsCounts == RowInv /\ CountInv /\ Cleared /\ RowInv' => CountInv'
  BY CardinalitiesAreNat DEF Cleared, CountInv, RowInv, Row, Present, MaxRegistered
LEMMA PublicKeepsCounts ==
  ASSUME ReqInv, RowInv, RowInv', CountInv, NEW c \in Clients, Public(c)
  PROVE  CountInv'
<1> USE DEF stored, ghosts
<1>1. CASE RecoverWrong(c)
  <2>1. /\ Cardinality(Registering') = Cardinality(Registering) + 1
        /\ Cardinality(Registering) < Cardinality(Clients)
    BY <1>1, RecoverWrongBegins, JoinsRegistering
  <2>2. /\ account.failures < recoveryMaxFailures /\ Present
        /\ account' = account /\ guesses' = guesses + 1 /\ faults' = faults
    BY <1>1 DEF RecoverWrong, RecoveryOpen
  <2> QED
    BY <2>1, <2>2, CardinalitiesAreNat, RecoveryAllowsATry
       DEF CountInv, RowInv, Row, Present, MaxRegistered
<1>2. CASE RegisterRecoveryFailure(c)
  <2> DEFINE locks == account.locked \/ req[c].locks
             n == account.failures + 1
  <2>1. Cardinality(Registering') = Cardinality(Registering) - 1
    BY <1>2, LeavesRegistering DEF RegisterRecoveryFailure
  <2>2. locks \in BOOLEAN /\ n \in Nat
    BY DEF RowInv, Row
  <2>3. /\ account' = IF Present THEN [account EXCEPT !.failures = n, !.locked = locks]
                                ELSE account
        /\ guesses' = guesses /\ faults' = faults
    BY <1>2 DEF RegisterRecoveryFailure, UpdateUser
  <2> HIDE DEF locks, n
  <2>4. account \in Row
    BY DEF RowInv
  <2>5. /\ account'.status = account.status
        /\ account'.failures = IF Present THEN n ELSE account.failures
    <3>1. CASE Present
      <4> DEFINE f == [account EXCEPT !.failures = n]
      <4>1. f \in Row /\ f.status = account.status /\ f.failures = n
        BY <2>2, <2>4 DEF Row
      <4>2. account' = [f EXCEPT !.locked = locks]
        BY <2>3, <3>1
      <4> HIDE DEF f
      <4> QED BY <2>2, <3>1, <4>1, <4>2 DEF Row
    <3>2. CASE ~Present
      BY <2>3, <3>2
    <3> QED BY <3>1, <3>2
  <2> QED
    BY <2>1, <2>3, <2>5, CardinalitiesAreNat DEF n, CountInv, RowInv, Row, Present, MaxRegistered
<1>3. CASE SignupInserts(c)
  <2>1. Registering' = Registering
    BY <1>3, PublicHasShape, StaysOutOfRegistering DEF SignupInserts, RecoverWrong, Begin, At, Public
  <2>2. Quiet
    BY <1>3, <2>1 DEF SignupInserts, Quiet, RowInv, Row
  <2> QED BY <2>2, QuietKeepsCounts
<1>4. CASE RecoverResets(c)
  <2>1. Registering' = Registering
    BY <1>4, PublicHasShape, StaysOutOfRegistering DEF RecoverResets, RecoverWrong, Begin, At, Public
  <2>2. Cleared
    BY <1>4, <2>1 DEF RecoverResets, UpdateUser, Cleared, RowInv, Row, Present
  <2> QED BY <2>2, ClearedKeepsCounts
<1>5. CASE SignupStart(c) \/ Login(c) \/ RecoverRight(c) \/ Issue(c) \/ Purge(c)
  <2>1. Quiet \/ RecoverWrong(c)
    <3>1. ~At(c, "register")
      BY <1>5 DEF SignupStart, Login, RecoverRight, Issue, Purge, Begin, At
    <3>2. CASE ~RecoverWrong(c)
      <4>1. Registering' = Registering
        BY <3>1, <3>2, PublicHasShape, StaysOutOfRegistering
      <4> QED
        BY <4>1, <1>5 DEF SignupStart, Login, RecoverRight, Issue, Purge, PurgeSessions, Quiet
    <3> QED BY <3>2
  <2> QED BY <2>1, <1>1, QuietKeepsCounts
<1> QED BY <1>1, <1>2, <1>3, <1>4, <1>5 DEF Public

LEMMA NextKeepsCounts ==
  ReqInv /\ RowInv /\ CountInv /\ [Next]_vars => CountInv'
<1> SUFFICES ASSUME ReqInv, RowInv, CountInv, [Next]_vars PROVE CountInv'
  OBVIOUS
<1>1. RowInv'
  BY NextKeepsRow
<1> USE DEF stored, ghosts
<1>2. ASSUME NEW c \in Clients, Public(c) PROVE CountInv'
  BY <1>1, <1>2, PublicKeepsCounts
<1>3. ASSUME NEW c \in Clients, Gate(c) \/ Owner(c) \/ Admin(c) PROVE CountInv'
  <2>1. ~At(c, "register")
    BY <1>3 DEF Gate, Call, GateSession, GateExpired, GateUser, refreshSession, Owner, Logout,
         ChangePassword, DeleteOthers, StoreRow, Doing, Admin, AdminHideUser, AdminDeleteUser,
         DeleteStep, Begin, At, ReqInv, DeleteCalls
  <2>2. Registering' = Registering
    BY <1>3, <2>1, GateHasShape, OwnerHasShape, AdminHasShape, StaysOutOfRegistering
  <2>3. ASSUME Gate(c) PROVE Quiet
    BY <2>2, <2>3 DEF Quiet, Gate, Call, GateSession, GateExpired, GateUser, refreshSession
  <2>4. ASSUME Owner(c) PROVE Quiet
    BY <2>2, <2>4 DEF Quiet, Owner, Logout, ChangePassword, DeleteOthers, StoreRow
  <2>5. ASSUME AdminHideUser(c) \/ AdminDeleteUser(c) \/ DeleteStep(c) PROVE Quiet
    BY <2>2, <2>5 DEF Quiet, AdminHideUser, AdminDeleteUser, DeleteStep, PurgeSessions, RowInv, Row
  <2>6. Quiet
    BY <1>3, <2>3, <2>4, <2>5 DEF Admin
  <2> QED BY <1>1, <2>6, QuietKeepsCounts
<1>4. ASSUME NEW c \in Clients, GiveUp(c) PROVE CountInv'
  <2>1. /\ account' = account /\ guesses' = guesses /\ faults' = faults + 1
        /\ Finish(c)
    BY <1>4 DEF GiveUp
  <2>2. \/ Cardinality(Registering') = Cardinality(Registering)
        \/ Cardinality(Registering') = Cardinality(Registering) - 1
    BY <2>1, FinishHasShape, StaysOutOfRegistering, LeavesRegistering
  <2> QED
    BY <2>1, <2>2, CardinalitiesAreNat DEF CountInv, RowInv, Row, Present, MaxRegistered
<1>5. CASE AdminResetLockout
  <2>1. account'.failures = 0 /\ account'.status = account.status
    BY <1>5, RowUpdates, 0 \in Nat, FALSE \in BOOLEAN, Zenon DEF AdminResetLockout, RowInv
  <2>2. Cleared
    BY <1>5, <2>1 DEF AdminResetLockout, Cleared, Registering, At
  <2> QED BY <1>1, <2>2, ClearedKeepsCounts
<1>6. CASE AdminReactivateUser \/ TtlExpires \/ UNCHANGED vars
  <2>1. Quiet
    BY <1>6 DEF AdminReactivateUser, TtlExpires, vars, Quiet, Registering, At, RowInv, Row
  <2> QED BY <1>1, <2>1, QuietKeepsCounts
<1> QED BY <1>2, <1>3, <1>4, <1>5, <1>6 DEF Next

------------------------------------------------------------------------------
(***************************************************************************)
(* Type correctness and the cap, as theorems of the specification.         *)
(***************************************************************************)
TypeInv == ReqInv /\ SessionsInv /\ RowInv /\ CountInv

LEMMA InitTypeInv == Init => TypeInv
<1> SUFFICES ASSUME Init PROVE TypeInv
  OBVIOUS
<1>1. ReqInv /\ SessionsInv /\ RowInv
  BY NoRequestIsTyped DEF Init, ReqInv, SessionsInv, RowInv, Row, NoRequest
<1>2. CountInv
  <2>1. Registering = {}
    BY DEF Registering, Init, At, NoRequest
  <2>2. Cardinality(Registering) = 0
    BY <2>1, FS_EmptySet
  <2> QED BY <2>2, CardinalitiesAreNat DEF Init, CountInv, Present
<1> QED BY <1>1, <1>2 DEF TypeInv

LEMMA NextTypeInv == TypeInv /\ [Next]_vars => TypeInv'
  BY NextKeepsRequests, NextKeepsSessions, NextKeepsRow, NextKeepsCounts DEF TypeInv

LEMMA TypeInvIsTyped == TypeInv => TypeOK /\ GuessesAreCapped
<1> SUFFICES ASSUME TypeInv PROVE TypeOK /\ GuessesAreCapped
  OBVIOUS
<1>1. account.failures \in 0..MaxRegistered
  BY CardinalitiesAreNat DEF TypeInv, RowInv, Row, CountInv
<1>2. account \in [status : {"absent", "present", "deleted"}, disabled : BOOLEAN,
                   locked : BOOLEAN, failures : 0..MaxRegistered]
  BY <1>1 DEF TypeInv, RowInv, Row
<1>3. TypeOK
  BY <1>2 DEF TypeOK, TypeInv, ReqInv, ReqType, SessionsInv, RowInv
<1>4. GuessesAreCapped
  BY DEF GuessesAreCapped, TypeInv, CountInv, MaxRegistered
<1> QED BY <1>3, <1>4

\* However many requests overlap and however many are given up, every state is
\* well typed: in particular the failures on the row stop one short of the limit
\* plus the requests in flight (RecoverPassword, auth.go:282-309).
THEOREM TypeCorrect == Spec => []TypeOK
<1>1. Spec => []TypeInv
  BY InitTypeInv, NextTypeInv, PTL DEF Spec
<1> QED BY <1>1, TypeInvIsTyped, PTL

\* The wrong recoveries judged since the counter was last cleared never exceed the
\* limit less one, the requests in flight and the requests given up.
THEOREM GuessesStayCapped == Spec => []GuessesAreCapped
<1>1. Spec => []TypeInv
  BY InitTypeInv, NextTypeInv, PTL DEF Spec
<1> QED BY <1>1, TypeInvIsTyped, PTL
------------------------------------------------------------------------------
(***************************************************************************)
(* Sessions that end stay ended.                                           *)
(***************************************************************************)
Ended == \A x \in sessions' : Named(x.id) = {} => x.id \in unused

LEMMA FewerStayEnded ==
  ASSUME sessions' \subseteq sessions
  PROVE  Ended
  BY DEF Ended, Named

LEMMA NextStaysEnded == TypeInv /\ [Next]_vars => Ended
<1> SUFFICES ASSUME TypeInv, [Next]_vars PROVE Ended
  OBVIOUS
<1> USE DEF stored, ghosts
<1>1. ASSUME NEW c \in Clients, Public(c) PROVE Ended
  <2>1. CASE Issue(c)
    <3> DEFINE late == req[c].epoch # epoch \/ ~Present \/ Passed("sessions")
    <3>1. PICK s \in unused :
            sessions' = sessions \cup {[id |-> s, epoch |-> req[c].epoch, late |-> late]}
      BY <2>1 DEF Issue, issueSession
    <3> HIDE DEF late
    <3> QED BY <3>1 DEF Ended, Named
  <2>2. CASE ~Issue(c)
    BY <1>1, <2>2, FewerStayEnded
       DEF Public, SignupStart, SignupInserts, Login, RecoverWrong, RecoverRight,
           RegisterRecoveryFailure, RecoverResets, Purge, PurgeSessions
  <2> QED BY <2>1, <2>2
<1>2. ASSUME NEW c \in Clients, Gate(c) PROVE Ended
  BY <1>2, FewerStayEnded
     DEF Gate, Call, GateSession, GateExpired, GateUser, refreshSession
<1>3. ASSUME NEW c \in Clients, Owner(c) PROVE Ended
  <2>1. CASE ChangePassword(c)
    <3>1. ASSUME NEW y \in sessions' PROVE \E x \in sessions : y.id = x.id
      BY <2>1, <3>1 DEF ChangePassword, TypeInv, SessionsInv, Session
    <3> QED BY <3>1 DEF Ended, Named
  <2>2. CASE Logout(c) \/ DeleteOthers(c) \/ StoreRow(c)
    BY <2>2, FewerStayEnded DEF Logout, DeleteOthers, StoreRow, Named
  <2> QED BY <1>3, <2>1, <2>2 DEF Owner
<1>4. ASSUME NEW c \in Clients, Admin(c) \/ GiveUp(c) PROVE Ended
  BY <1>4, FewerStayEnded
     DEF Admin, AdminHideUser, AdminDeleteUser, DeleteStep, PurgeSessions, GiveUp
<1>5. CASE AdminResetLockout \/ AdminReactivateUser \/ TtlExpires \/ UNCHANGED vars
  BY <1>5, FewerStayEnded DEF AdminResetLockout, AdminReactivateUser, TtlExpires, vars
<1> QED BY <1>1, <1>2, <1>3, <1>4, <1>5 DEF Next

\* A request past the gate, a slow login or a change of password never brings back
\* a session that was deleted or has expired.
THEOREM EndedSessionsStayEnded == Spec => EndedStaysEnded
<1>1. Spec => []TypeInv
  BY InitTypeInv, NextTypeInv, PTL DEF Spec
<1>2. TypeInv /\ [Next]_vars => [Ended]_vars
  BY NextStaysEnded
<1> QED BY <1>1, <1>2, PTL DEF Spec, EndedStaysEnded, Ended

------------------------------------------------------------------------------
(***************************************************************************)
(* Signing out.  The password or the flag is written in one call and the   *)
(* sessions are deleted in a later one: between the two the request still  *)
(* has the deletion ahead of it, and no step of another request takes that *)
(* away.                                                                   *)
(***************************************************************************)
Ahead(c, x) == At(c, "purge") \/ (At(c, "others") /\ req[c].sid # x.id)

\* A step that neither writes a password nor deletes what it had ahead.
LEMMA OthersStayAhead ==
  ASSUME SignedOutUnlessLate, NEW c \in Clients,
         ~At(c, "purge"), ~At(c, "others"),
         \A d \in Clients \ {c} : req'[d] = req[d],
         epoch' = epoch, sessions' \subseteq sessions, lapsed' = lapsed
  PROVE  SignedOutUnlessLate'
<1> SUFFICES ASSUME NEW x \in sessions'
             PROVE  \/ x.epoch = epoch'
                    \/ x.late
                    \/ \E d \in Clients : Ahead(d, x)'
                    \/ lapsed'
  BY DEF SignedOutUnlessLate, Ahead
<1>1. CASE \E d \in Clients : Ahead(d, x)
  BY <1>1 DEF Ahead, At
<1>2. CASE x.epoch = epoch \/ x.late \/ lapsed
  BY <1>2
<1> QED BY <1>1, <1>2 DEF SignedOutUnlessLate, Ahead

\* A request that has just written it has the deletion ahead.
LEMMA PurgeAhead ==
  ASSUME NEW c \in Clients, At(c, "purge")'
  PROVE  SignedOutUnlessLate'
  BY DEF SignedOutUnlessLate

LEMMA ShapeKeepsOthers ==
  ASSUME ReqInv, NEW c \in Clients, Shape(c)
  PROVE  \A d \in Clients \ {c} : req'[d] = req[d]
  BY DEF Shape, Finish, Move, Begin, ReqInv
LEMMA PublicSignsOut ==
  ASSUME TypeInv, SignedOutUnlessLate, NEW c \in Clients, Public(c)
  PROVE  SignedOutUnlessLate'
<1> USE DEF stored, ghosts
<1>1. \A d \in Clients \ {c} : req'[d] = req[d]
  <2>1. CASE RecoverWrong(c)
    BY <2>1, RecoverWrongBegins DEF Begin, TypeInv, ReqInv
  <2>2. CASE ~RecoverWrong(c)
    BY <2>2, PublicHasShape, ShapeKeepsOthers DEF TypeInv
  <2> QED BY <2>1, <2>2
<1>2. CASE RecoverResets(c)
  <2>1. At(c, "purge")'
    BY <1>2 DEF RecoverResets, Move, At, TypeInv, ReqInv, ReqType
  <2> QED BY <2>1, PurgeAhead
<1>3. CASE Purge(c)
  BY <1>3 DEF Purge, PurgeSessions, SignedOutUnlessLate
<1>4. CASE Issue(c)
  <2> DEFINE late == req[c].epoch # epoch \/ ~Present \/ Passed("sessions")
  <2>1. PICK s \in unused :
          sessions' = sessions \cup {[id |-> s, epoch |-> req[c].epoch, late |-> late]}
    BY <1>4 DEF Issue, issueSession
  <2> DEFINE new == [id |-> s, epoch |-> req[c].epoch, late |-> late]
  <2>2. late \in BOOLEAN
    OBVIOUS
  <2>3. new.epoch = epoch \/ late
    OBVIOUS
  <2> HIDE DEF late
  <2>4. new.late = late
    OBVIOUS
  <2>5. new.epoch = epoch \/ new.late
    BY <2>2, <2>3, <2>4
  <2>6. ~At(c, "purge") /\ ~At(c, "others") /\ epoch' = epoch /\ lapsed' = lapsed
    BY <1>4 DEF Issue, At
  <2>7. sessions' = sessions \cup {new}
    BY <2>1
  <2> HIDE DEF new
  <2> QED BY <1>1, <2>5, <2>6, <2>7 DEF SignedOutUnlessLate, At
<1>5. CASE SignupStart(c) \/ SignupInserts(c) \/ Login(c) \/ RecoverWrong(c)
           \/ RecoverRight(c) \/ RegisterRecoveryFailure(c)
  <2>1. ~At(c, "purge") /\ ~At(c, "others")
    BY <1>5 DEF SignupStart, SignupInserts, Login, RecoverWrong, RecoverRight,
         RegisterRecoveryFailure, Begin, At
  <2>2. epoch' = epoch /\ sessions' = sessions /\ lapsed' = lapsed
    BY <1>5 DEF SignupStart, SignupInserts, Login, RecoverWrong, RecoverRight,
         RegisterRecoveryFailure
  <2> QED BY <1>1, <2>1, <2>2, OthersStayAhead
<1> QED BY <1>2, <1>3, <1>4, <1>5 DEF Public

LEMMA OwnerSignsOut ==
  ASSUME TypeInv, SignedOutUnlessLate, NEW c \in Clients, Owner(c)
  PROVE  SignedOutUnlessLate'
<1> USE DEF stored, ghosts
<1>1. \A d \in Clients \ {c} : req'[d] = req[d]
  BY OwnerHasShape, ShapeKeepsOthers DEF TypeInv
<1>2. CASE ChangePassword(c)
  <2> DEFINE kept(x) == IF x.id = req[c].sid THEN [x EXCEPT !.epoch = epoch + 1] ELSE x
  <2>1. sessions' = {kept(x) : x \in sessions} /\ epoch' = epoch + 1
    BY <1>2 DEF ChangePassword
  <2>2. At(c, "others")' /\ req'[c].sid = req[c].sid
    BY <1>2 DEF ChangePassword, Move, At, TypeInv, ReqInv, ReqType
  <2>3. ASSUME NEW x \in sessions
        PROVE  kept(x).epoch = epoch + 1 \/ kept(x).id # req[c].sid
    BY DEF TypeInv, SessionsInv, Session, RowInv
  <2> HIDE DEF kept
  <2>4. \A y \in sessions' : y.epoch = epoch' \/ (At(c, "others")' /\ req'[c].sid # y.id)
    BY <2>1, <2>2, <2>3
  <2> QED BY <2>4 DEF SignedOutUnlessLate
<1>3. CASE DeleteOthers(c)
  <2>1. /\ sessions' = Named(req[c].sid) /\ epoch' = epoch /\ lapsed' = lapsed
        /\ At(c, "others")
    BY <1>3 DEF DeleteOthers
  <2> SUFFICES ASSUME NEW x \in sessions'
               PROVE  \/ x.epoch = epoch'
                      \/ x.late
                      \/ \E d \in Clients : Ahead(d, x)'
                      \/ lapsed'
    BY DEF SignedOutUnlessLate, Ahead
  <2>2. x \in sessions /\ x.id = req[c].sid
    BY <2>1 DEF Named
  <2>3. ~Ahead(c, x)
    BY <2>1, <2>2 DEF Ahead, At
  <2>4. CASE \E d \in Clients : Ahead(d, x)
    BY <1>1, <2>3, <2>4 DEF Ahead, At
  <2>5. CASE x.epoch = epoch \/ x.late \/ lapsed
    BY <2>1, <2>5
  <2> QED BY <2>2, <2>4, <2>5 DEF SignedOutUnlessLate, Ahead
<1>4. CASE Logout(c) \/ StoreRow(c)
  <2>1. ~At(c, "purge") /\ ~At(c, "others")
    BY <1>4 DEF Logout, StoreRow, Doing, At
  <2>2. epoch' = epoch /\ sessions' \subseteq sessions /\ lapsed' = lapsed
    BY <1>4 DEF Logout, StoreRow
  <2> QED BY <1>1, <2>1, <2>2, OthersStayAhead
<1> QED BY <1>2, <1>3, <1>4 DEF Owner

LEMMA NextSignsOut == TypeInv /\ SignedOutUnlessLate /\ [Next]_vars => SignedOutUnlessLate'
<1> SUFFICES ASSUME TypeInv, SignedOutUnlessLate, [Next]_vars PROVE SignedOutUnlessLate'
  OBVIOUS
<1> USE DEF stored, ghosts
<1>1. ASSUME NEW c \in Clients, Public(c) PROVE SignedOutUnlessLate'
  BY <1>1, PublicSignsOut
<1>2. ASSUME NEW c \in Clients, Gate(c) PROVE SignedOutUnlessLate'
  <2>1. \A d \in Clients \ {c} : req'[d] = req[d]
    BY <1>2, GateHasShape, ShapeKeepsOthers DEF TypeInv
  <2>2. ~At(c, "purge") /\ ~At(c, "others")
    BY <1>2 DEF Gate, Call, GateSession, GateExpired, GateUser, refreshSession, Begin, At
  <2>3. epoch' = epoch /\ sessions' \subseteq sessions /\ lapsed' = lapsed
    BY <1>2 DEF Gate, Call, GateSession, GateExpired, GateUser, refreshSession
  <2> QED BY <2>1, <2>2, <2>3, OthersStayAhead
<1>3. ASSUME NEW c \in Clients, Owner(c) PROVE SignedOutUnlessLate'
  BY <1>3, OwnerSignsOut
<1>4. ASSUME NEW c \in Clients, Admin(c) PROVE SignedOutUnlessLate'
  <2>1. \A d \in Clients \ {c} : req'[d] = req[d]
    BY <1>4, AdminHasShape, ShapeKeepsOthers DEF TypeInv
  <2>2. CASE AdminHideUser(c)
    <3>1. At(c, "purge")'
      <4>1. req' = [req EXCEPT ![c] = Request("hide", "purge")]
        BY <2>2 DEF AdminHideUser, Begin
      <4>2. Request("hide", "purge").pc = "purge"
        BY RequestIsTyped DEF AllOperations, Pcs
      <4> QED BY <4>1, <4>2 DEF At, TypeInv, ReqInv
    <3> QED BY <3>1, PurgeAhead
  <2>3. CASE AdminDeleteUser(c)
    <3>1. ~At(c, "purge") /\ ~At(c, "others")
      BY <2>3 DEF AdminDeleteUser, Begin, At
    <3>2. epoch' = epoch /\ sessions' = sessions /\ lapsed' = lapsed
      BY <2>3 DEF AdminDeleteUser
    <3> QED BY <2>1, <3>1, <3>2, OthersStayAhead
  <2>4. CASE DeleteStep(c)
    <3>1. CASE At(c, "sessions")
      BY <2>4, <3>1 DEF DeleteStep, At, PurgeSessions, SignedOutUnlessLate
    <3>2. CASE ~At(c, "sessions")
      <4>1. ~At(c, "purge") /\ ~At(c, "others")
        BY <2>4 DEF DeleteStep, At, TypeInv, ReqInv, DeleteCalls
      <4>2. epoch' = epoch /\ sessions' = sessions /\ lapsed' = lapsed
        BY <2>4, <3>2 DEF DeleteStep, At
      <4> QED BY <2>1, <4>1, <4>2, OthersStayAhead
    <3> QED BY <3>1, <3>2
  <2> QED BY <1>4, <2>2, <2>3, <2>4 DEF Admin
<1>5. ASSUME NEW c \in Clients, GiveUp(c) PROVE SignedOutUnlessLate'
  <2>1. /\ epoch' = epoch /\ sessions' = sessions
        /\ lapsed' = (lapsed \/ At(c, "purge") \/ At(c, "others"))
    BY <1>5 DEF GiveUp
  <2>2. CASE At(c, "purge") \/ At(c, "others")
    BY <2>1, <2>2 DEF SignedOutUnlessLate
  <2>3. CASE ~At(c, "purge") /\ ~At(c, "others")
    <3>1. lapsed' = lapsed
      BY <2>1, <2>3 DEF TypeInv, RowInv
    <3>2. \A d \in Clients \ {c} : req'[d] = req[d]
      BY <1>5 DEF GiveUp, Finish, TypeInv, ReqInv
    <3> QED BY <2>1, <2>3, <3>1, <3>2, OthersStayAhead
  <2> QED BY <2>2, <2>3
<1>6. CASE AdminResetLockout \/ AdminReactivateUser \/ TtlExpires \/ UNCHANGED vars
  BY <1>6 DEF AdminResetLockout, AdminReactivateUser, TtlExpires, vars,
       SignedOutUnlessLate, At
<1> QED BY <1>1, <1>2, <1>3, <1>4, <1>5, <1>6 DEF Next

\* A change of password, a recovery and a hide leave no session of an earlier
\* epoch, but those about to be deleted, those of a login that overlapped the
\* change, and those of a request given up between its two calls.
THEOREM SessionsAreSignedOut == Spec => []SignedOutUnlessLate
<1>1. Init => SignedOutUnlessLate
  BY DEF Init, SignedOutUnlessLate
<1>2. TypeInv /\ SignedOutUnlessLate /\ [Next]_vars => (TypeInv /\ SignedOutUnlessLate)'
  BY NextTypeInv, NextSignsOut
<1> QED BY InitTypeInv, <1>1, <1>2, PTL DEF Spec
------------------------------------------------------------------------------
(***************************************************************************)
(* Deletion.  A deletion has emptied what it went by: a collection of      *)
(* lower rank holds rows only as a stray, and once the sessions are gone   *)
(* only late sessions are left.                                            *)
(***************************************************************************)
Purged == {"gold", "holdings", "transactions"}

Emptied(d) ==
    req[d].op = "delete" =>
        /\ \A k \in Purged \cap data : Rank[k] < Rank[req[d].pc] => k \in strays
        /\ req[d].pc = "account" => \A x \in sessions : x.late

DeletionInv == DeletedLeavesOnlyStrays /\ \A d \in Clients : Emptied(d)

\* What a step stores, and what it forgets of the strays, once the deletion went by.
StoresOnlyStrays ==
    /\ \A k \in Purged \cap data' :
          ~Present \/ Passed(k) => k \in strays' \/ (k \in data /\ k \notin strays)
    /\ (\A x \in sessions : x.late) /\ (~Present \/ Passed("sessions"))
         => \A x \in sessions' : x.late

LEMMA Ranks ==
  /\ Rank["gold"] = 1 /\ Rank["holdings"] = 2 /\ Rank["transactions"] = 3
  /\ Rank["sessions"] = 4 /\ Rank["account"] = 5
  BY DEF Rank

LEMMA StrayStepsKeepDeletion ==
  ASSUME TypeInv, DeletionInv, NEW c \in Clients, StoresOnlyStrays, data' \subseteq Collections,
         \A d \in Clients \ {c} : req'[d] = req[d], Emptied(c)',
         account'.status = "deleted" => account.status = "deleted"
  PROVE  DeletionInv'
<1>1. ASSUME NEW d \in Clients PROVE Emptied(d)'
  <2>1. CASE d = c
    BY <2>1
  <2>2. CASE d # c
    <3> SUFFICES ASSUME req[d].op = "delete"
                 PROVE  /\ \A k \in Purged \cap data' :
                              Rank[k] < Rank[req[d].pc] => k \in strays'
                        /\ req[d].pc = "account" => \A x \in sessions' : x.late
      BY <2>2 DEF Emptied
    <3>1. ASSUME NEW k \in Purged \cap data', Rank[k] < Rank[req[d].pc] PROVE k \in strays'
      <4>1. Passed(k)
        BY <3>1, Ranks DEF Passed, TypeInv, ReqInv, DeleteCalls, Purged
      <4>2. k \in data => k \in strays
        BY <3>1 DEF DeletionInv, Emptied
      <4> QED BY <4>1, <4>2 DEF StoresOnlyStrays
    <3>2. ASSUME req[d].pc = "account" PROVE \A x \in sessions' : x.late
      <4>1. Passed("sessions")
        BY <3>2, Ranks DEF Passed
      <4> QED BY <3>2, <4>1 DEF DeletionInv, Emptied, StoresOnlyStrays
    <3> QED BY <3>1, <3>2
  <2> QED BY <2>1, <2>2
<1>2. DeletedLeavesOnlyStrays'
  <2> SUFFICES ASSUME account'.status = "deleted"
               PROVE  data' \ {"snapshots"} \subseteq strays' /\ \A x \in sessions' : x.late
    BY DEF DeletedLeavesOnlyStrays
  <2>1. ~Present /\ data \ {"snapshots"} \subseteq strays /\ \A x \in sessions : x.late
    BY DEF DeletionInv, DeletedLeavesOnlyStrays, Present
  <2>2. data' \ {"snapshots"} \subseteq strays'
    BY <2>1 DEF StoresOnlyStrays, Purged, Collections
  <2> QED BY <2>1, <2>2 DEF StoresOnlyStrays
<1> QED BY <1>1, <1>2 DEF DeletionInv

LEMMA NotDeletingIsEmptied ==
  ASSUME NEW c \in Clients, TypeInv', DeletionInv,
         req'[c].op = "delete" => req'[c].pc = "gold"
  PROVE  Emptied(c)'
  BY Ranks DEF Emptied, Purged
\* No step of another route begins a deletion.
LEMMA PublicDoesNotDelete ==
  ASSUME TypeInv, NEW c \in Clients, Public(c)
  PROVE  req'[c].op # "delete"
<1> USE DEF TypeInv, ReqInv
<1>1. CASE SignupStart(c) \/ RecoverRight(c)
  BY <1>1, RequestIsTyped DEF SignupStart, RecoverRight, Begin, AllOperations, Pcs
<1>2. CASE Login(c)
  <2> DEFINE r == [Request("login", "issue") EXCEPT !.epoch = epoch]
  <2>1. r.op = "login"
    BY RequestIsTyped DEF ReqType, AllOperations, Pcs
  <2> QED BY <1>2, <2>1 DEF Login, Begin
<1>3. CASE RecoverWrong(c)
  BY <1>3, RecoverWrongBegins DEF Begin
<1>4. CASE SignupInserts(c) \/ RecoverResets(c)
  BY <1>4, NoRequestIsTyped
     DEF SignupInserts, RecoverResets, Move, Finish, At, DeleteCalls, ReqType
<1>5. CASE Issue(c) \/ RegisterRecoveryFailure(c) \/ Purge(c)
  BY <1>5, NoRequestIsTyped DEF Issue, issueSession, RegisterRecoveryFailure, Purge, Finish
<1> QED BY <1>1, <1>2, <1>3, <1>4, <1>5 DEF Public

LEMMA GateAndOwnerDoNotDelete ==
  ASSUME TypeInv, NEW c \in Clients, Gate(c) \/ Owner(c)
  PROVE  req'[c].op # "delete"
<1> USE DEF TypeInv, ReqInv
<1>1. CASE Call(c)
  <2>1. PICK op \in Gated, s \in SessionIds \ unused :
            Begin(c, [Request(op, "session") EXCEPT !.sid = s])
    BY <1>1 DEF Call
  <2>2. op \in AllOperations /\ op # "delete"
    BY DEF Gated, AllOperations, Collections
  <2>3. [Request(op, "session") EXCEPT !.sid = s].op = op
    BY <2>2, RequestIsTyped DEF ReqType, Pcs
  <2> QED BY <2>1, <2>2, <2>3 DEF Begin
<1>2. CASE GateSession(c) \/ GateUser(c) \/ refreshSession(c) \/ ChangePassword(c)
  BY <1>2, NoRequestIsTyped
     DEF GateSession, GateUser, refreshSession, ChangePassword, Doing, Move, Finish, At,
         DeleteCalls, ReqType
<1>3. CASE GateExpired(c) \/ Logout(c) \/ DeleteOthers(c) \/ StoreRow(c)
  BY <1>3, NoRequestIsTyped DEF GateExpired, Logout, DeleteOthers, StoreRow, Finish
<1> QED BY <1>1, <1>2, <1>3 DEF Gate, Owner

LEMMA PublicKeepsDeletion ==
  ASSUME TypeInv, TypeInv', DeletionInv, NEW c \in Clients, Public(c)
  PROVE  DeletionInv'
<1> USE DEF stored, ghosts
<1>1. \A d \in Clients \ {c} : req'[d] = req[d]
  <2>1. CASE RecoverWrong(c)
    BY <2>1, RecoverWrongBegins DEF Begin, TypeInv, ReqInv
  <2>2. CASE ~RecoverWrong(c)
    BY <2>2, PublicHasShape, ShapeKeepsOthers DEF TypeInv
  <2> QED BY <2>1, <2>2
<1>2. Emptied(c)'
  BY PublicDoesNotDelete, NotDeletingIsEmptied
<1>3. data' = data /\ strays' = strays
  BY DEF Public, SignupStart, SignupInserts, Login, Issue, RecoverWrong, RecoverRight,
         RegisterRecoveryFailure, RecoverResets, Purge
<1>4. account'.status = "deleted" => account.status = "deleted"
  <2>1. CASE RegisterRecoveryFailure(c)
    <3> DEFINE locks == account.locked \/ req[c].locks
               f == [account EXCEPT !.failures = account.failures + 1]
    <3>1. locks \in BOOLEAN /\ f \in Row /\ f.status = account.status
      BY DEF TypeInv, RowInv, Row
    <3>2. account' = account \/ account' = [f EXCEPT !.locked = locks]
      BY <2>1 DEF RegisterRecoveryFailure, UpdateUser
    <3> HIDE DEF locks, f
    <3> QED BY <3>1, <3>2 DEF Row
  <2>2. CASE SignupInserts(c)
    BY <2>2 DEF SignupInserts, TypeInv, RowInv, Row
  <2>3. CASE RecoverResets(c)
    BY <2>3 DEF RecoverResets, UpdateUser, TypeInv, RowInv, Row
  <2> QED
    BY <2>1, <2>2, <2>3
       DEF Public, SignupStart, Login, Issue, RecoverWrong, RecoverRight, Purge
<1>5. StoresOnlyStrays
  <2>1. CASE Issue(c)
    <3> DEFINE late == req[c].epoch # epoch \/ ~Present \/ Passed("sessions")
    <3>1. PICK s \in unused :
            sessions' = sessions \cup {[id |-> s, epoch |-> req[c].epoch, late |-> late]}
      BY <2>1 DEF Issue, issueSession
    <3>2. ~Present \/ Passed("sessions") => late
      OBVIOUS
    <3> HIDE DEF late
    <3> QED BY <1>3, <3>1, <3>2 DEF StoresOnlyStrays
  <2>2. CASE ~Issue(c)
    <3>1. sessions' \subseteq sessions
      BY <2>2 DEF Public, SignupStart, SignupInserts, Login, RecoverWrong, RecoverRight,
           RegisterRecoveryFailure, RecoverResets, Purge, PurgeSessions
    <3> QED BY <1>3, <3>1 DEF StoresOnlyStrays
  <2> QED BY <2>1, <2>2
<1> QED BY <1>1, <1>2, <1>3, <1>4, <1>5, StrayStepsKeepDeletion DEF TypeInv, RowInv
LEMMA OwnerKeepsDeletion ==
  ASSUME TypeInv, TypeInv', DeletionInv, NEW c \in Clients, Owner(c)
  PROVE  DeletionInv'
<1> USE DEF stored, ghosts
<1>1. \A d \in Clients \ {c} : req'[d] = req[d]
  BY OwnerHasShape, ShapeKeepsOthers DEF TypeInv
<1>2. Emptied(c)'
  BY GateAndOwnerDoNotDelete, NotDeletingIsEmptied
<1>3. account' = account
  BY DEF Owner, Logout, ChangePassword, DeleteOthers, StoreRow
<1>4. StoresOnlyStrays
  <2>1. CASE StoreRow(c)
    <3> DEFINE op == req[c].op
    <3>1. /\ data' = data \cup {op} /\ sessions' = sessions
          /\ strays' = IF op # "snapshots" /\ (~Present \/ Passed(op)) THEN strays \cup {op}
                                                                     ELSE strays
      BY <2>1 DEF StoreRow
    <3> HIDE DEF op
    <3> QED BY <3>1 DEF StoresOnlyStrays, Purged
  <2>2. CASE ChangePassword(c)
    <3>1. data' = data /\ strays' = strays
      BY <2>2 DEF ChangePassword
    <3>2. \A y \in sessions' : \E x \in sessions : y.late = x.late
      BY <2>2 DEF ChangePassword, TypeInv, SessionsInv, Session
    <3> QED BY <3>1, <3>2 DEF StoresOnlyStrays
  <2>3. CASE Logout(c) \/ DeleteOthers(c)
    <3>1. data' = data /\ strays' = strays /\ sessions' \subseteq sessions
      BY <2>3 DEF Logout, DeleteOthers, Named
    <3> QED BY <3>1 DEF StoresOnlyStrays
  <2> QED BY <2>1, <2>2, <2>3 DEF Owner
<1> QED BY <1>1, <1>2, <1>3, <1>4, StrayStepsKeepDeletion DEF TypeInv, RowInv

LEMMA AdminKeepsDeletion ==
  ASSUME TypeInv, TypeInv', DeletionInv, NEW c \in Clients, Admin(c)
  PROVE  DeletionInv'
<1> USE DEF stored, ghosts
<1>1. \A d \in Clients \ {c} : req'[d] = req[d]
  BY AdminHasShape, ShapeKeepsOthers DEF TypeInv
<1>2. CASE AdminHideUser(c) \/ AdminDeleteUser(c)
  <2>1. req'[c].op = "delete" => req'[c].pc = "gold"
    BY <1>2, RequestIsTyped
       DEF AdminHideUser, AdminDeleteUser, Begin, AllOperations, Pcs, TypeInv, ReqInv
  <2>2. data' = data /\ strays' = strays /\ sessions' = sessions
    BY <1>2 DEF AdminHideUser, AdminDeleteUser
  <2>3. account'.status = account.status
    BY <1>2 DEF AdminHideUser, AdminDeleteUser, TypeInv, RowInv, Row
  <2>4. Emptied(c)' /\ StoresOnlyStrays
    BY <2>1, <2>2, NotDeletingIsEmptied DEF StoresOnlyStrays
  <2> QED BY <1>1, <2>2, <2>3, <2>4, StrayStepsKeepDeletion DEF TypeInv, RowInv
<1>3. CASE DeleteStep(c)
  <2> DEFINE pc == req[c].pc
  <2>1. /\ pc \in DeleteCalls /\ req[c].op = "delete"
        /\ data' = data \ {pc} /\ strays' = strays \ {pc}
    BY <1>3 DEF DeleteStep, TypeInv, ReqInv
  <2>2. sessions' = (IF pc = "sessions" THEN {} ELSE sessions)
    BY <1>3 DEF DeleteStep, PurgeSessions
  <2>3. StoresOnlyStrays
    BY <2>1, <2>2 DEF StoresOnlyStrays
  <2>4. \A k \in Purged \cap data : Rank[k] < Rank[pc] => k \in strays
    BY <2>1 DEF DeletionInv, Emptied
  <2>5. CASE pc # "account"
    <3>1. account' = account
      BY <1>3, <2>5 DEF DeleteStep
    <3>2. req'[c].op = "delete" /\ req'[c].pc = After[pc]
      BY <1>3, <2>5 DEF DeleteStep, Move, TypeInv, ReqInv, ReqType
    <3>3. /\ Rank[After[pc]] = Rank[pc] + 1
          /\ After[pc] = "account" => pc = "sessions"
      BY <2>1, <2>5, Ranks DEF After, DeleteCalls
    <3>4. \A k \in Purged \cap data' : Rank[k] < Rank[After[pc]] => k \in strays'
      <4> SUFFICES ASSUME NEW k \in Purged \cap data', Rank[k] < Rank[pc] + 1
                   PROVE  k \in strays'
        BY <3>3
      <4>1. k # pc
        BY <2>1
      <4>2. Rank[k] < Rank[pc]
        BY <2>1, <4>1, Ranks DEF Purged, DeleteCalls
      <4> QED BY <2>1, <2>4, <4>1, <4>2
    <3>5. Emptied(c)'
      BY <2>2, <3>2, <3>3, <3>4 DEF Emptied
    <3> QED BY <1>1, <2>1, <2>3, <3>1, <3>5, StrayStepsKeepDeletion DEF TypeInv, RowInv
  <2>6. CASE pc = "account"
    <3>1. \A x \in sessions : x.late
      BY <2>1, <2>6 DEF DeletionInv, Emptied
    <3>2. \A k \in Purged \cap data : k \in strays
      BY <2>4, <2>6, Ranks DEF Purged
    <3>3. data' = data /\ strays' = strays /\ sessions' = sessions
      BY <2>1, <2>2, <2>6 DEF Collections, TypeInv, RowInv
    <3>4. DeletedLeavesOnlyStrays'
      BY <3>1, <3>2, <3>3 DEF DeletedLeavesOnlyStrays, Purged, Collections, TypeInv, RowInv
    <3>5. req'[c].op # "delete"
      BY <1>3, <2>6, NoRequestIsTyped DEF DeleteStep, Finish, TypeInv, ReqInv
    <3>6. \A d \in Clients : Emptied(d)'
      BY <1>1, <3>3, <3>5 DEF DeletionInv, Emptied
    <3> QED BY <3>4, <3>6 DEF DeletionInv
  <2> QED BY <2>5, <2>6
<1> QED BY <1>2, <1>3 DEF Admin

LEMMA NextKeepsDeletion == TypeInv /\ DeletionInv /\ [Next]_vars => DeletionInv'
<1> SUFFICES ASSUME TypeInv, DeletionInv, [Next]_vars PROVE DeletionInv'
  OBVIOUS
<1>0. TypeInv'
  BY NextTypeInv
<1> USE DEF stored, ghosts
<1>1. ASSUME NEW c \in Clients, Public(c) \/ Owner(c) \/ Admin(c) PROVE DeletionInv'
  BY <1>0, <1>1, PublicKeepsDeletion, OwnerKeepsDeletion, AdminKeepsDeletion
<1>2. ASSUME NEW c \in Clients, Gate(c) \/ GiveUp(c) PROVE DeletionInv'
  <2>1. \A d \in Clients \ {c} : req'[d] = req[d]
    BY <1>2, GateHasShape, FinishHasShape, ShapeKeepsOthers DEF TypeInv, GiveUp
  <2>2. req'[c].op # "delete"
    BY <1>2, GateAndOwnerDoNotDelete, NoRequestIsTyped DEF GiveUp, Finish, TypeInv, ReqInv
  <2>3. data' = data /\ strays' = strays /\ sessions' \subseteq sessions /\ account' = account
    BY <1>2 DEF Gate, Call, GateSession, GateExpired, GateUser, refreshSession, GiveUp
  <2>4. Emptied(c)' /\ StoresOnlyStrays
    BY <1>0, <2>2, <2>3, NotDeletingIsEmptied DEF StoresOnlyStrays
  <2> QED BY <2>1, <2>3, <2>4, StrayStepsKeepDeletion DEF TypeInv, RowInv
<1>3. CASE AdminResetLockout \/ AdminReactivateUser \/ TtlExpires \/ UNCHANGED vars
  <2>1. /\ req' = req /\ data' = data /\ strays' = strays /\ sessions' \subseteq sessions
    BY <1>3 DEF AdminResetLockout, AdminReactivateUser, TtlExpires, vars
  <2>2. account'.status = "deleted" => account.status = "deleted"
    <3>1. CASE AdminResetLockout
      BY <3>1, RowUpdates, 0 \in Nat, FALSE \in BOOLEAN, Zenon
         DEF AdminResetLockout, TypeInv, RowInv
    <3>2. CASE ~AdminResetLockout
      BY <1>3, <3>2 DEF AdminReactivateUser, TtlExpires, vars, TypeInv, RowInv, Row
    <3> QED BY <3>1, <3>2
  <2> QED
    BY <2>1, <2>2 DEF DeletionInv, Emptied, DeletedLeavesOnlyStrays
<1> QED BY <1>1, <1>2, <1>3 DEF Next

\* However a deletion is interrupted and retried, an account that is gone leaves no
\* session and no row of the purged collections, except what a request past the
\* gate stored after the deletion went by.
THEOREM DeletionLeavesOnlyStrays == Spec => []DeletedLeavesOnlyStrays
<1>1. Init => DeletionInv
  BY DEF Init, DeletionInv, DeletedLeavesOnlyStrays, Emptied, NoRequest
<1>2. TypeInv /\ DeletionInv /\ [Next]_vars => (TypeInv /\ DeletionInv)'
  BY NextTypeInv, NextKeepsDeletion
<1>3. DeletionInv => DeletedLeavesOnlyStrays
  BY DEF DeletionInv
<1> QED BY InitTypeInv, <1>1, <1>2, <1>3, PTL DEF Spec
==============================================================================
