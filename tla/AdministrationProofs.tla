------------------------- MODULE AdministrationProofs -------------------------
(***************************************************************************)
(* What holds of the users collection for any number of servers, accounts, *)
(* names, regions and requests at once, whatever boot fails: there is one  *)
(* owner, who stays present and visible, and no request writes outside the *)
(* scope of its caller.                                                    *)
(***************************************************************************)
EXTENDS Administration, FiniteSetTheorems, TLAPS

ScopedOperations == OwnerOperations \cup AdminOperations

ReqType == [op : AllOperations \cup {"none"}, pc : {"idle", "load", "name", "insert", "write"},
            caller : Ids \cup {Nobody}, role : Roles, region : Regions \cup {NoRegion},
            target : Ids \cup {Nobody}, to : Names \cup Regions \cup {NoRegion},
            overtaken : BOOLEAN]

\* A request that acts on a row names one that was stored when it started, and
\* carries the value its operation needs.
WellFormed(r) ==
    /\ r.pc \in {"load", "name", "write"} => r.target \in Ids \ unused
    /\ r.op = "region" => r.to \in Regions
    /\ r.op \in {"profile", "signup"} => r.to \in Names
    /\ r.pc = "insert" => r.op = "signup" /\ r.region \in Regions
    /\ r.pc = "load" => r.op \in ScopedOperations /\ r.role \in Tier(r.op)
    /\ r.pc = "name" => r.op \in OwnOperations

RowsOK ==
    /\ users \in [Stored -> User]
    /\ Stored \subseteq Ids /\ unused \subseteq Ids /\ Stored \cap unused = {}

RequestsOK == req \in [Clients -> ReqType] /\ \A c \in Clients : WellFormed(req[c])

TypeInv ==
    /\ RowsOK /\ RequestsOK
    /\ server \in [Servers -> {"down", "index", "count", "insert", "late", "up"}]

------------------------------------------------------------------------------
(***************************************************************************)
(* Type correctness.                                                       *)
(***************************************************************************)
LEMMA NoRequestIsTyped == NoRequest \in ReqType /\ WellFormed(NoRequest)
  BY DEF NoRequest, ReqType, WellFormed, Roles, NoRegion

\* What a request writes into a row is a row again.
LEMMA PatchedIsARow ==
  ASSUME NEW r \in ReqType, WellFormed(r), NEW u \in User
  PROVE  /\ Patched(r, u) \in User
         /\ r.op \notin {"promote", "demote"} => Patched(r, u).role = u.role
         /\ r.op # "hide" /\ u.disabled = FALSE => Patched(r, u).disabled = FALSE
         /\ Patched(r, u).role \in {u.role, "user", "admin"}
  BY DEF WellFormed, Patched, User, Roles, ReqType

\* Minting an id for a new row.
NewRow(i, row) == [j \in Stored \cup {i} |-> IF j \in Stored THEN users[j] ELSE row]

LEMMA NewRowKeepsRows ==
  ASSUME RowsOK, NEW i \in unused, NEW row \in User,
         users' = NewRow(i, row), unused' = unused \ {i}
  PROVE  /\ RowsOK' /\ i \notin Stored /\ Stored' = Stored \cup {i}
         /\ users'[i] = row /\ \A j \in Stored : users'[j] = users[j]
  <1>1. Stored' = Stored \cup {i} /\ i \notin Stored
    BY DEF NewRow, Stored, RowsOK
  <1>2. users'[i] = row /\ \A j \in Stored : users'[j] = users[j]
    BY <1>1 DEF NewRow
  <1>3. users' \in [Stored' -> User]
    BY <1>1, <1>2 DEF NewRow, RowsOK, Stored
  <1>4. QED
    BY <1>1, <1>2, <1>3 DEF RowsOK

\* The two inserts.
LEMMA InsertOwnerRow ==
  ASSUME RowsOK, NEW s \in Servers, InsertOwner(s)
  PROVE  \E i \in unused :
            /\ RowsOK' /\ unused' = unused \ {i} /\ i \notin Stored /\ Stored' = Stored \cup {i}
            /\ \A j \in Stored : users'[j] = users[j]
            /\ users'[i].role = "superadmin" /\ users'[i].disabled = FALSE
  <1> DEFINE row == [name |-> "admin", role |-> "superadmin", region |-> NoRegion,
                     disabled |-> FALSE, mustChange |-> TRUE]
  <1>1. PICK i \in unused : users' = NewRow(i, row) /\ unused' = unused \ {i}
    BY Zenon DEF InsertOwner, NewRow
  <1>2. row \in User /\ row.role = "superadmin" /\ row.disabled = FALSE
    BY TheBootstrapNameIsAName DEF User, Roles, NoRegion
  <1> HIDE DEF row
  <1>3. QED
    BY <1>1, <1>2, NewRowKeepsRows

LEMMA SignupRow ==
  ASSUME RowsOK, RequestsOK, NEW c \in Clients, SignupInserts(c)
  PROVE  \/ UNCHANGED <<users, unused>>
         \/ \E i \in unused :
            /\ RowsOK' /\ unused' = unused \ {i} /\ i \notin Stored /\ Stored' = Stored \cup {i}
            /\ \A j \in Stored : users'[j] = users[j]
            /\ users'[i].role = "user"
  <1> DEFINE row == [name |-> req[c].to, role |-> "user", region |-> req[c].region,
                     disabled |-> FALSE, mustChange |-> FALSE]
  <1>1. CASE ~UNCHANGED <<users, unused>>
    <2>1. PICK i \in unused : users' = NewRow(i, row) /\ unused' = unused \ {i}
      BY <1>1, Zenon DEF SignupInserts, NewRow
    <2>2. row \in User /\ row.role = "user"
      BY DEF User, Roles, RequestsOK, WellFormed, SignupInserts, At, ReqType
    <2> HIDE DEF row
    <2>3. QED
      BY <2>1, <2>2, NewRowKeepsRows
  <1>2. QED
    BY <1>1

\* The write of an administrator, an account or the machine.
LEMMA WriteRow ==
  ASSUME RowsOK, RequestsOK, NEW c \in Clients, Write(c)
  PROVE  /\ RowsOK' /\ unused' = unused
         /\ \/ users' = users /\ Finish(c)
            \/ /\ req[c].target \in Stored
               /\ \A j \in Stored \ {req[c].target} : j \in Stored' /\ users'[j] = users[j]
               /\ \/ /\ req[c].op = "delete" /\ Stored' = Stored \ {req[c].target}
                     /\ req' = Overtaking(c, req[c].target)
                  \/ /\ req[c].op # "delete" /\ Stored' = Stored
                     /\ users'[req[c].target] = Patched(req[c], users[req[c].target])
                     /\ IF Rescoped(req[c], users[req[c].target])
                        THEN req' = Overtaking(c, req[c].target) ELSE Finish(c)
  <1> DEFINE r == req[c]
             i == r.target
  <1>1. r \in ReqType /\ WellFormed(r)
    BY DEF RequestsOK
  <1> HIDE DEF r
  <1>2. CASE users' = users /\ unused' = unused /\ Finish(c)
    BY <1>2 DEF RowsOK, Stored
  <1>3. CASE /\ i \in Stored /\ r.op = "delete" /\ users' = [j \in Stored \ {i} |-> users[j]]
             /\ unused' = unused /\ IF Rescoped(r, users[i]) THEN req' = Overtaking(c, i) ELSE Finish(c)
    <2>1. Stored' = Stored \ {i} /\ \A j \in Stored \ {i} : users'[j] = users[j]
      BY <1>3 DEF Stored
    <2>2. RowsOK'
      BY <1>3, <2>1 DEF RowsOK, Stored
    <2>3. req' = Overtaking(c, i)
      BY <1>3 DEF Rescoped
    <2>4. QED
      BY <1>3, <2>1, <2>2, <2>3 DEF r
  <1>4. CASE /\ i \in Stored /\ r.op # "delete" /\ users' = [users EXCEPT ![i] = Patched(r, users[i])]
             /\ unused' = unused /\ IF Rescoped(r, users[i]) THEN req' = Overtaking(c, i) ELSE Finish(c)
    <2>1. users[i] \in User
      BY <1>4 DEF RowsOK
    <2>2. Patched(r, users[i]) \in User
      BY <1>1, <2>1, PatchedIsARow
    <2>3. /\ Stored' = Stored /\ users'[i] = Patched(r, users[i])
          /\ \A j \in Stored \ {i} : users'[j] = users[j]
      BY <1>4 DEF RowsOK, Stored
    <2>4. RowsOK'
      BY <1>4, <2>2, <2>3 DEF RowsOK, Stored
    <2>5. QED
      BY <1>4, <2>3, <2>4 DEF r
  <1>5. QED
    BY <1>2, <1>3, <1>4 DEF Write, r

\* Nothing but these three touches a row.
LEMMA OthersLeaveRows ==
  ASSUME [Next]_vars
  PROVE  \/ UNCHANGED <<users, unused>>
         \/ \E s \in Servers : InsertOwner(s)
         \/ \E c \in Clients : SignupInserts(c) \/ Write(c)
  BY DEF Next, vars, Starting, Request, Boot, EnsureIndexes, IndexFails, CountOwners,
         InsertRefused, BootstrapFails, Stop, AuthGate, LoadTarget, CheckName,
         SignupStart, SetPassword, GiveUp

LEMMA RowsStayOK ==
  ASSUME TypeInv, [Next]_vars
  PROVE  RowsOK' /\ unused' \subseteq unused
  BY OthersLeaveRows, InsertOwnerRow, SignupRow, WriteRow DEF TypeInv, RowsOK, Stored

\* What a step makes of the requests: those it does not act for keep their
\* fields, and its own starts, moves or ends.
LEMMA RequestSteps ==
  ASSUME [Next]_vars, TypeInv, NEW c \in Clients
  PROVE  \/ req'[c] = req[c]
         \/ req'[c] = NoRequest
         \/ req'[c] = [req[c] EXCEPT !.overtaken = TRUE]
         \/ AuthGate(c) \/ LoadTarget(c) \/ CheckName(c) \/ SignupStart(c) \/ SetPassword(c)
  <1>1. req \in [Clients -> ReqType]
    BY DEF TypeInv, RequestsOK
  <1>2. CASE UNCHANGED req
    BY <1>2
  <1>3. ASSUME NEW d \in Clients, Finish(d)
        PROVE  req'[c] = IF c = d THEN NoRequest ELSE req[c]
    BY <1>1, <1>3 DEF Finish
  <1>4. ASSUME NEW d \in Clients, NEW i, req' = Overtaking(d, i)
        PROVE  req'[c] \in {NoRequest, req[c], [req[c] EXCEPT !.overtaken = TRUE]}
    <2>1. CASE c = d
      BY <1>4, <2>1 DEF Overtaking
    <2>2. CASE c # d
      <3>1. req'[c] = [req[c] EXCEPT !.overtaken = req[c].overtaken \/ i \in {req[c].caller, req[c].target}]
        BY <1>4, <2>2 DEF Overtaking
      <3>2. req[c] = [req[c] EXCEPT !.overtaken = req[c].overtaken]
        BY <1>1 DEF ReqType
      <3>3. CASE i \in {req[c].caller, req[c].target}
        BY <3>1, <3>3
      <3>4. CASE i \notin {req[c].caller, req[c].target}
        <4>1. (req[c].overtaken \/ i \in {req[c].caller, req[c].target}) = req[c].overtaken
          BY <1>1, <3>4 DEF ReqType
        <4>2. QED
          BY <3>1, <3>2, <4>1
      <3>5. QED
        BY <3>3, <3>4
    <2>3. QED
      BY <2>1, <2>2
  <1>5. ASSUME NEW s \in Servers, Starting(s) PROVE UNCHANGED req
    BY <1>5 DEF Starting, Boot, EnsureIndexes, IndexFails, CountOwners, InsertOwner,
                InsertRefused, BootstrapFails, Stop
  <1>6. ASSUME NEW d \in Clients, Write(d)
        PROVE  Finish(d) \/ req' = Overtaking(d, req[d].target)
    BY <1>6, WriteRow DEF TypeInv
  <1>7. ASSUME NEW d \in Clients, SignupInserts(d) \/ GiveUp(d) PROVE Finish(d)
    BY <1>7 DEF SignupInserts, GiveUp
  <1>8. ASSUME NEW d \in Clients \ {c},
               AuthGate(d) \/ LoadTarget(d) \/ CheckName(d) \/ SignupStart(d) \/ SetPassword(d)
        PROVE  req'[c] = req[c]
    <2>1. \E value : req' = [req EXCEPT ![d] = value]
      BY <1>8, Zenon DEF AuthGate, LoadTarget, CheckName, SignupStart, SetPassword, Move, Finish
    <2>2. QED
      BY <1>1, <2>1
  <1> DEFINE kept == req'[c] \in {NoRequest, req[c], [req[c] EXCEPT !.overtaken = TRUE]}
  <1>9. ASSUME NEW d \in Clients, Finish(d) \/ req' = Overtaking(d, req[d].target)
        PROVE  kept
    BY <1>3, <1>4, <1>9
  <1>10. UNCHANGED req => kept
    OBVIOUS
  <1>11. ASSUME NEW d \in Clients \ {c}, req'[c] = req[c] PROVE kept
    BY <1>11
  <1>12. kept => \/ req'[c] = req[c]
                 \/ req'[c] = NoRequest
                 \/ req'[c] = [req[c] EXCEPT !.overtaken = TRUE]
    OBVIOUS
  <1> HIDE DEF kept
  <1>13. QED
    BY <1>5, <1>6, <1>7, <1>8, <1>9, <1>10, <1>11, <1>12, Zenon DEF Next, vars, Request

\* What the gate lets through, and what the load makes of it.
LEMMA GatedRequest ==
  ASSUME TypeInv, NEW c \in Clients, AuthGate(c)
  PROVE  /\ req'[c] \in ReqType /\ WellFormed(req'[c])
         /\ req'[c].caller \in Stored /\ ~req'[c].overtaken
         /\ users[req'[c].caller].role = req'[c].role
         /\ users[req'[c].caller].region = req'[c].region
         /\ req'[c].pc \in {"load", "name"}
         /\ req'[c].pc = "name" => req'[c].caller = req'[c].target
         /\ Owners # {} \/ req'[c].role # "superadmin"
  <1> USE DEF TypeInv, RequestsOK, RowsOK
  <1> DEFINE request(op, i, t, v) ==
               [op |-> op, pc |-> IF op \in OwnOperations THEN "name" ELSE "load",
                caller |-> i, role |-> users[i].role, region |-> users[i].region,
                target |-> t, to |-> v, overtaken |-> FALSE]
  <1>0. PICK op \in (OwnerOperations \cup AdminOperations \cup OwnOperations) \cap Operations[c],
             i \in Stored :
               /\ users[i].role \in Tier(op)
               /\ \E t \in Targets(op, i), v \in Values(op) :
                    req' = [req EXCEPT ![c] = request(op, i, t, v)]
    BY Zenon DEF AuthGate
  <1>1. PICK t \in Targets(op, i), v \in Values(op) : req' = [req EXCEPT ![c] = request(op, i, t, v)]
    BY <1>0
  <1>2. users[i] \in User /\ i \in Ids /\ t \in Ids \ unused
    BY <1>0, <1>1 DEF Targets
  <1>3. req'[c] = request(op, i, t, v)
    BY <1>0, <1>1
  <1>4. /\ op \in AllOperations /\ v \in Names \cup Regions \cup {NoRegion}
        /\ op = "region" => v \in Regions
        /\ op = "profile" => v \in Names
        /\ op # "signup"
    BY <1>0, <1>1 DEF AllOperations, Values, OwnerOperations, AdminOperations, OwnOperations
  <1>5. op \in OwnOperations \/ op \in ScopedOperations
    BY <1>0, <1>1 DEF ScopedOperations
  <1>6. op \in OwnOperations => t = i
    BY <1>0, <1>1 DEF Targets
  <1>7. request(op, i, t, v) \in ReqType
    BY <1>2, <1>4 DEF ReqType, User
  <1>8. WellFormed(request(op, i, t, v))
    BY <1>0, <1>1, <1>2, <1>4, <1>5 DEF WellFormed
  <1>9. QED
    BY <1>0, <1>1, <1>2, <1>3, <1>6, <1>7, <1>8 DEF Owners

LEMMA LoadedIsTyped ==
  ASSUME NEW r \in ReqType, WellFormed(r), r.pc = "load",
         NEW loaded, loaded = [r EXCEPT !.pc = "write", !.role = "user", !.region = NoRegion]
  PROVE  /\ loaded \in ReqType /\ WellFormed(loaded)
         /\ loaded.pc = "write" /\ loaded.op = r.op /\ loaded.target = r.target
         /\ loaded.caller = r.caller /\ loaded.overtaken = r.overtaken
  <1>1. /\ loaded.pc = "write" /\ loaded.op = r.op /\ loaded.to = r.to /\ loaded.target = r.target
        /\ loaded.caller = r.caller /\ loaded.overtaken = r.overtaken
    BY DEF ReqType
  <1>2. loaded \in ReqType
    BY DEF ReqType, Roles
  <1>3. WellFormed(loaded)
    BY <1>1 DEF WellFormed
  <1>4. QED
    BY <1>1, <1>2, <1>3

LEMMA NamedIsTyped ==
  ASSUME NEW r \in ReqType, WellFormed(r), r.pc = "name",
         NEW named, named = [r EXCEPT !.pc = "write"]
  PROVE  named \in ReqType /\ WellFormed(named)
  <1>1. named.pc = "write" /\ named.op = r.op /\ named.to = r.to /\ named.target = r.target
    BY DEF ReqType
  <1>2. named \in ReqType
    BY DEF ReqType
  <1>3. QED
    BY <1>1, <1>2 DEF WellFormed

LEMMA OvertakenIsTyped ==
  ASSUME NEW r \in ReqType, WellFormed(r), NEW met, met = [r EXCEPT !.overtaken = TRUE]
  PROVE  met \in ReqType /\ WellFormed(met)
  <1>1. /\ met.pc = r.pc /\ met.op = r.op /\ met.to = r.to /\ met.target = r.target
        /\ met.region = r.region /\ met.role = r.role
    BY DEF ReqType
  <1>2. met \in ReqType
    BY DEF ReqType
  <1>3. QED
    BY <1>1, <1>2 DEF WellFormed

LEMMA LoadedRequest ==
  ASSUME TypeInv, NEW c \in Clients, LoadTarget(c)
  PROVE  /\ UNCHANGED <<users, unused>> /\ req[c].pc = "load"
         /\ \/ req'[c] = NoRequest
            \/ /\ loadTargetUser(req[c]) /\ NotOwnAccount(req[c]) /\ Promotable(req[c])
               /\ req'[c].pc = "write" /\ req'[c].op = req[c].op
               /\ req'[c].target = req[c].target /\ req'[c].caller = req[c].caller
               /\ req'[c].overtaken = req[c].overtaken
               /\ req'[c] \in ReqType /\ WellFormed(req'[c])
  <1> USE DEF TypeInv, RequestsOK
  <1> DEFINE moved == [req[c] EXCEPT !.pc = "write", !.role = "user", !.region = NoRegion]
  <1>1. req[c].pc = "load" /\ UNCHANGED <<users, unused>>
    BY DEF LoadTarget, At
  <1>2. /\ moved \in ReqType /\ WellFormed(moved) /\ moved.pc = "write"
        /\ moved.op = req[c].op /\ moved.target = req[c].target
        /\ moved.caller = req[c].caller /\ moved.overtaken = req[c].overtaken
    BY <1>1, LoadedIsTyped
  <1> HIDE DEF moved
  <1>3. CASE Finish(c)
    BY <1>1, <1>3 DEF Finish
  <1>4. CASE ~Finish(c)
    <2>1. loadTargetUser(req[c]) /\ NotOwnAccount(req[c]) /\ Promotable(req[c]) /\ req' = [req EXCEPT ![c] = moved]
      BY <1>4, Zenon DEF LoadTarget, moved
    <2>2. QED
      BY <1>1, <1>2, <2>1 DEF moved
  <1>5. QED
    BY <1>3, <1>4

\* The other steps that start or move a request.
LEMMA MovedRequest ==
  ASSUME TypeInv, NEW c \in Clients, CheckName(c) \/ SignupStart(c) \/ SetPassword(c)
  PROVE  /\ UNCHANGED <<users, unused>>
         /\ req'[c] \in ReqType /\ WellFormed(req'[c])
         /\ \/ req'[c] = NoRequest
            \/ req[c].pc = "name" /\ req'[c] = [req[c] EXCEPT !.pc = "write"]
            \/ req'[c].caller = Nobody /\ req'[c].pc \in {"insert", "write"}
               /\ (req'[c].pc = "write" => req'[c].op = "cli" /\ Stored # {})
               /\ (req'[c].pc = "insert" => Serving)
  <1> USE DEF TypeInv, RequestsOK, RowsOK
  <1>1. UNCHANGED <<users, unused>>
    BY DEF CheckName, SignupStart, SetPassword
  <1>2. CASE CheckName(c)
    <2> DEFINE moved == [req[c] EXCEPT !.pc = "write"]
    <2>1. Finish(c) \/ req' = [req EXCEPT ![c] = moved]
      BY <1>2 DEF CheckName, Move
    <2>2. req[c].pc = "name"
      BY <1>2 DEF CheckName, At
    <2>3. moved \in ReqType /\ WellFormed(moved)
      BY <2>2, NamedIsTyped
    <2>4. QED
      BY <1>1, <2>1, <2>2, <2>3, NoRequestIsTyped DEF Finish
  <1>3. CASE SignupStart(c)
    <2> DEFINE request(n, g) == [NoRequest EXCEPT !.op = "signup", !.pc = "insert",
                                                  !.to = n, !.region = g]
    <2>0. Serving
      BY <1>3 DEF SignupStart
    <2>1. PICK n \in Names, g \in Regions : req' = [req EXCEPT ![c] = request(n, g)]
      BY <1>3, Zenon DEF SignupStart
    <2>2. /\ request(n, g) \in ReqType /\ WellFormed(request(n, g))
          /\ request(n, g).caller = Nobody /\ request(n, g).pc = "insert"
      BY DEF NoRequest, ReqType, WellFormed, Roles, AllOperations
    <2> HIDE DEF request
    <2>3. QED
      BY <1>1, <2>0, <2>1, <2>2
  <1>4. CASE SetPassword(c)
    <2> DEFINE request(i) == [NoRequest EXCEPT !.op = "cli", !.pc = "write", !.target = i]
    <2>1. PICK i \in Stored : req' = [req EXCEPT ![c] = request(i)]
      BY <1>4, Zenon DEF SetPassword
    <2>2. /\ request(i) \in ReqType /\ WellFormed(request(i))
          /\ request(i).caller = Nobody /\ request(i).pc = "write" /\ request(i).op = "cli"
      BY <2>1 DEF NoRequest, ReqType, WellFormed, Roles, AllOperations
    <2> HIDE DEF request
    <2>3. QED
      BY <1>1, <2>1, <2>2
  <1>5. QED
    BY <1>2, <1>3, <1>4

LEMMA RequestsStayTyped ==
  ASSUME TypeInv, [Next]_vars, NEW c \in Clients
  PROVE  req'[c] \in ReqType /\ WellFormed(req[c])'
  <1>1. req[c] \in ReqType /\ WellFormed(req[c]) /\ unused' \subseteq unused
    BY RowsStayOK DEF TypeInv, RequestsOK
  <1>2. req'[c] \in ReqType /\ WellFormed(req'[c])
    <2>1. CASE req'[c] = [req[c] EXCEPT !.overtaken = TRUE]
      BY <1>1, <2>1, OvertakenIsTyped
    <2>2. CASE req'[c] = req[c] \/ req'[c] = NoRequest
      BY <1>1, <2>2, NoRequestIsTyped
    <2>3. CASE AuthGate(c) \/ LoadTarget(c) \/ CheckName(c) \/ SignupStart(c) \/ SetPassword(c)
      <3>1. CASE AuthGate(c)
        BY <3>1, GatedRequest
      <3>2. CASE LoadTarget(c)
        BY <3>2, LoadedRequest, NoRequestIsTyped
      <3>3. QED
        BY <2>3, <3>1, <3>2, MovedRequest
    <2>4. QED
      BY <2>1, <2>2, <2>3, RequestSteps
  <1>3. QED
    BY <1>1, <1>2 DEF WellFormed

LEMMA TypeInvHolds == Spec => []TypeInv
<1>1. Init => TypeInv
  BY NoRequestIsTyped DEF Init, TypeInv, RowsOK, RequestsOK, Stored
<1>2. TypeInv /\ [Next]_vars => TypeInv'
  <2> SUFFICES ASSUME TypeInv, [Next]_vars PROVE TypeInv'
    OBVIOUS
  <2>1. RowsOK'
    BY RowsStayOK
  <2>2. \A c \in Clients : req'[c] \in ReqType /\ WellFormed(req[c])'
    BY RequestsStayTyped
  <2>3. req' = [c \in Clients |-> req'[c]]
    <3>1. \A d \in Clients : \A value : req' = [req EXCEPT ![d] = value] => req' = [c \in Clients |-> req'[c]]
      BY DEF TypeInv, RequestsOK
    <3>2. \A d \in Clients : \A i : req' = Overtaking(d, i) => req' = [c \in Clients |-> req'[c]]
      BY DEF Overtaking
    <3>3. UNCHANGED req => req' = [c \in Clients |-> req'[c]]
      BY DEF TypeInv, RequestsOK
    <3>4. \/ UNCHANGED req
          \/ \E d \in Clients : \/ \E value : req' = [req EXCEPT ![d] = value]
                                \/ \E i : req' = Overtaking(d, i)
      <4> DEFINE moved(d) == \/ \E value : req' = [req EXCEPT ![d] = value]
                             \/ \E i : req' = Overtaking(d, i)
      <4>1. ASSUME NEW d \in Clients, AuthGate(d) PROVE moved(d)
        BY <4>1, Zenon DEF AuthGate
      <4>2. ASSUME NEW d \in Clients, LoadTarget(d) PROVE moved(d)
        BY <4>2, Zenon DEF LoadTarget, Finish
      <4>3. ASSUME NEW d \in Clients, CheckName(d) PROVE moved(d)
        BY <4>3, Zenon DEF CheckName, Finish, Move
      <4>4. ASSUME NEW d \in Clients, SignupStart(d) \/ SetPassword(d) PROVE moved(d)
        BY <4>4, Zenon DEF SignupStart, SetPassword
      <4>5. ASSUME NEW d \in Clients, Write(d) PROVE moved(d)
        BY <4>5, Zenon DEF Write, Finish
      <4>6. ASSUME NEW d \in Clients, SignupInserts(d) \/ GiveUp(d) PROVE moved(d)
        BY <4>6, Zenon DEF SignupInserts, GiveUp, Finish
      <4>7. ASSUME NEW s \in Servers, Starting(s) PROVE UNCHANGED req
        BY <4>7 DEF Starting, Boot, EnsureIndexes, IndexFails, CountOwners, InsertOwner,
                    InsertRefused, BootstrapFails, Stop
      <4> HIDE DEF moved
      <4>8. UNCHANGED req \/ \E d \in Clients : moved(d)
        BY <4>1, <4>2, <4>3, <4>4, <4>5, <4>6, <4>7, Zenon DEF Next, vars, Request
      <4>9. QED
        BY <4>8, Zenon DEF moved
    <3>5. QED
      BY <3>1, <3>2, <3>3, <3>4, Zenon
  <2>4. server' \in [Servers -> {"down", "index", "count", "insert", "late", "up"}]
    <3> DEFINE Stages == {"down", "index", "count", "insert", "late", "up"}
    <3>1. ASSUME NEW s \in Servers, Starting(s), ~InsertOwner(s)
          PROVE  \E stage \in Stages : server' = [server EXCEPT ![s] = stage]
      BY <3>1 DEF Starting, Boot, EnsureIndexes, IndexFails, CountOwners, InsertRefused,
                  BootstrapFails, Stop
    <3>2. ASSUME NEW s \in Servers, InsertOwner(s) PROVE server' \in [Servers -> Stages]
      BY <3>2 DEF InsertOwner, TypeInv
    <3>3. ASSUME NEW c \in Clients, Request(c) PROVE UNCHANGED server
      BY <3>3 DEF Request, AuthGate, LoadTarget, CheckName, SignupStart, SignupInserts,
                  SetPassword, Write, GiveUp
    <3>4. QED
      BY <3>1, <3>2, <3>3 DEF Next, vars, TypeInv
  <2>5. QED
    BY <2>1, <2>2, <2>3, <2>4 DEF TypeInv, RequestsOK
<1>3. QED
  BY <1>1, <1>2, PTL DEF Spec

------------------------------------------------------------------------------
(***************************************************************************)
(* One owner.  A boot that has counted none and not yet inserted would     *)
(* break it, so the invariant keeps: while such a boot has met no other    *)
(* insert, there is still no owner.                                        *)
(***************************************************************************)
OwnerInv ==
    "overlap" \notin lapses =>
        /\ \A i, j \in Owners : i = j
        /\ \A s \in Servers : server[s] = "insert" => Owners = {}


\* Only the bootstrap makes an owner.
LEMMA OnlyBootsMakeOwners ==
  ASSUME TypeInv, [Next]_vars, \A s \in Servers : ~InsertOwner(s)
  PROVE  Owners' \subseteq Owners
  <1> USE DEF TypeInv
  <1>1. CASE UNCHANGED users
    BY <1>1 DEF Owners, Stored
  <1>2. ASSUME NEW c \in Clients, SignupInserts(c) PROVE Owners' \subseteq Owners
    BY <1>2, SignupRow DEF Owners, Stored
  <1>3. ASSUME NEW c \in Clients, Write(c) PROVE Owners' \subseteq Owners
    <2>1. ASSUME NEW i \in Stored
          PROVE Patched(req[c], users[i]).role \in {users[i].role, "user", "admin"}
      BY <2>1, PatchedIsARow DEF RowsOK, RequestsOK
    <2>2. ASSUME NEW i \in Stored', users'[i].role = "superadmin"
          PROVE  i \in Stored /\ users[i].role = "superadmin"
      <3>1. CASE users' = users
        BY <2>2, <3>1 DEF Stored
      <3>2. CASE i = req[c].target /\ users' # users
        <4>1. i \in Stored /\ users'[i] = Patched(req[c], users[i])
          BY <1>3, <2>2, <3>2, WriteRow
        <4>2. QED
          BY <2>1, <2>2, <4>1
      <3>3. CASE i # req[c].target /\ users' # users
        BY <1>3, <2>2, <3>3, WriteRow
      <3>4. QED
        BY <3>1, <3>2, <3>3
    <2>3. QED
      BY <2>2 DEF Owners
  <1>4. QED
    BY <1>1, <1>2, <1>3, OthersLeaveRows

LEMMA LapsesGrow == ASSUME [Next]_vars PROVE lapses \subseteq lapses'
  BY DEF Next, vars, Starting, Boot, EnsureIndexes, IndexFails, CountOwners, InsertOwner,
         InsertRefused, BootstrapFails, Stop, Request, AuthGate, LoadTarget, CheckName,
         SignupStart, SignupInserts, SetPassword, Write, GiveUp

\* How a server moves in its boot.
LEMMA ServerSteps ==
  ASSUME TypeInv, [Next]_vars, NEW s \in Servers, \A t \in Servers : ~InsertOwner(t)
  PROVE  \/ server'[s] = server[s] \/ server'[s] \in {"down", "index", "count"}
         \/ server'[s] = "insert" /\ Owners = {} /\ UNCHANGED users
         \/ server'[s] = "up" /\ Owners # {} /\ UNCHANGED users
         \/ server'[s] = "up" /\ Stored # {} /\ UNCHANGED users
         \/ server'[s] = "up" /\ "bootstrap" \in lapses'
  <1>1. CASE UNCHANGED server
    BY <1>1
  <1>2. ASSUME NEW c \in Clients, Request(c) PROVE UNCHANGED server
    BY <1>2 DEF Request, AuthGate, LoadTarget, CheckName, SignupStart, SignupInserts,
                SetPassword, Write, GiveUp
  <1>3. ASSUME NEW t \in Servers, Starting(t)
        PROVE  /\ s # t => server'[s] = server[s]
               /\ \/ server'[t] = server[t] \/ server'[t] \in {"down", "index", "count"}
                  \/ server'[t] = "insert" /\ Owners = {} /\ UNCHANGED users
                  \/ server'[t] = "up" /\ Owners # {} /\ UNCHANGED users
                  \/ server'[t] = "up" /\ Stored # {} /\ UNCHANGED users
                  \/ server'[t] = "up" /\ "bootstrap" \in lapses'
    <2> USE DEF TypeInv
    <2>1. CASE Boot(t) \/ EnsureIndexes(t) \/ IndexFails(t)
      BY <2>1 DEF Boot, EnsureIndexes, IndexFails
    <2>2. CASE CountOwners(t) \/ Stop(t)
      BY <2>2 DEF CountOwners, Stop
    <2>3. CASE InsertRefused(t) \/ BootstrapFails(t)
      BY <2>3 DEF InsertRefused, BootstrapFails, NameTaken, Named
    <2>4. QED
      BY <1>3, <2>1, <2>2, <2>3 DEF Starting
  <1>4. QED
    BY <1>1, <1>2, <1>3 DEF Next, vars

LEMMA OwnerInvHolds == Spec => [](TypeInv /\ OwnerInv)
<1>1. Init => OwnerInv
  BY DEF Init, OwnerInv, Owners, Stored
<1>2. TypeInv /\ OwnerInv /\ [Next]_vars => OwnerInv'
  <2> SUFFICES ASSUME TypeInv, OwnerInv, [Next]_vars PROVE OwnerInv'
    OBVIOUS
  <2>1. CASE \A s \in Servers : ~InsertOwner(s)
    <3> SUFFICES ASSUME "overlap" \notin lapses'
                 PROVE  /\ \A i, j \in Owners' : i = j
                        /\ \A s \in Servers : server'[s] = "insert" => Owners' = {}
      BY DEF OwnerInv
    <3>1. /\ \A i, j \in Owners : i = j
          /\ \A s \in Servers : server[s] = "insert" => Owners = {}
      BY LapsesGrow DEF OwnerInv
    <3>2. Owners' \subseteq Owners
      BY <2>1, OnlyBootsMakeOwners
    <3>3. ASSUME NEW s \in Servers, server'[s] = "insert" PROVE Owners = {}
      BY <2>1, <3>1, <3>3, ServerSteps
    <3>4. QED
      BY <3>1, <3>2, <3>3
  <2>2. ASSUME NEW s \in Servers, InsertOwner(s) PROVE OwnerInv'
    <3>1. CASE "overlap" \notin lapses /\ server[s] = "insert"
      <4>1. Owners = {}
        BY <3>1 DEF OwnerInv
      <4>2. PICK i \in unused : Stored' = Stored \cup {i} /\ \A j \in Stored : users'[j] = users[j]
        BY <2>2, InsertOwnerRow DEF TypeInv
      <4>3. \A j \in Owners' : j = i
        BY <4>1, <4>2 DEF Owners, Stored
      <4>4. \A t \in Servers : server'[t] # "insert"
        BY <2>2 DEF InsertOwner
      <4>5. QED
        BY <4>3, <4>4 DEF OwnerInv
    <3>2. CASE "overlap" \in lapses \/ server[s] = "late"
      BY <2>2, <3>2 DEF InsertOwner, OwnerInv
    <3>3. QED
      BY <2>2, <3>1, <3>2 DEF InsertOwner
  <2>3. QED
    BY <2>1, <2>2
<1>3. QED
  BY <1>1, <1>2, TypeInvHolds, PTL DEF Spec

\* The deployment has one owner at most, unless a boot slept through another's
\* insert and then inserted as well: neither promotions nor renames nor a missing
\* index make a second.
THEOREM OneOwnerHolds == Spec => []OneOwner
<1>1. TypeInv /\ OwnerInv => OneOwner
  <2> SUFFICES ASSUME OwnerInv, "overlap" \notin lapses PROVE Cardinality(Owners) <= 1
    BY DEF OneOwner
  <2>1. \A i, j \in Owners : i = j
    BY DEF OwnerInv
  <2>2. CASE Owners = {}
    BY <2>2, FS_EmptySet
  <2>3. ASSUME NEW i \in Owners PROVE Cardinality(Owners) = 1
    <3>1. Owners = {i}
      BY <2>1, <2>3
    <3>2. QED
      BY <3>1, FS_Singleton
  <2>4. QED
    BY <2>2, <2>3
<1>2. QED
  BY <1>1, OwnerInvHolds, PTL

(***************************************************************************)
(* The index.  A server past it has built it, or noted that it could not.  *)
(***************************************************************************)
IndexInv ==
    "index" \notin lapses =>
        \A s \in Servers : server[s] \in {"count", "insert", "late", "up"} => indexed

\* A boot makes a second owner only where the index does not hold it back: it
\* could not be built, or no account is called "admin" any more.  While the first
\* owner keeps the name, the index alone keeps overlapping boots to one owner.
THEOREM SecondOwnersNeedAFreeName ==
  Spec => [][\A s \in Servers : InsertOwner(s) => "index" \in lapses \/ Named("admin") = {}]_vars
<1>1. Init => IndexInv
  BY DEF Init, IndexInv
<1>2. TypeInv /\ IndexInv /\ [Next]_vars => IndexInv'
  <2> SUFFICES ASSUME TypeInv, IndexInv, [Next]_vars PROVE IndexInv'
    OBVIOUS
  <2> USE DEF IndexInv
  <2>1. CASE UNCHANGED <<server, lapses, indexed>>
    BY <2>1
  <2>2. ASSUME NEW c \in Clients, Request(c) PROVE UNCHANGED <<server, lapses, indexed>>
    BY <2>2 DEF Request, AuthGate, LoadTarget, CheckName, SignupStart, SignupInserts,
                SetPassword, Write, GiveUp
  <2>3. ASSUME NEW t \in Servers, Starting(t) PROVE IndexInv'
    <3> USE DEF TypeInv
    <3>1. CASE Boot(t) \/ EnsureIndexes(t) \/ IndexFails(t)
      BY <3>1 DEF Boot, EnsureIndexes, IndexFails
    <3>2. CASE CountOwners(t) \/ Stop(t)
      BY <3>2 DEF CountOwners, Stop
    <3>3. CASE InsertRefused(t) \/ BootstrapFails(t)
      BY <3>3 DEF InsertRefused, BootstrapFails
    <3>4. CASE InsertOwner(t)
      BY <3>4 DEF InsertOwner
    <3>5. QED
      BY <2>3, <3>1, <3>2, <3>3, <3>4 DEF Starting
  <2>4. QED
    BY <2>1, <2>2, <2>3 DEF Next, vars
<1>3. TypeInv /\ IndexInv =>
        \A s \in Servers : InsertOwner(s) => "index" \in lapses \/ Named("admin") = {}
  <2> SUFFICES ASSUME TypeInv, IndexInv, NEW s \in Servers, InsertOwner(s), "index" \notin lapses
               PROVE  Named("admin") = {}
    OBVIOUS
  <2>1. indexed /\ ~NameTaken("admin", Nobody)
    BY DEF IndexInv, InsertOwner
  <2>2. Nobody \notin Named("admin")
    BY NobodyIsNoId DEF TypeInv, RowsOK, Named
  <2>3. QED
    BY <2>1, <2>2 DEF NameTaken
<1>4. QED
  BY <1>1, <1>2, <1>3, TypeInvHolds, PTL DEF Spec

------------------------------------------------------------------------------
(***************************************************************************)
(* The owner stands.  Rows come after the owner, whom no request in flight *)
(* removes, demotes or hides: at the load the only caller above the owner  *)
(* is the owner, who is refused as the target, and from then on the target *)
(* is known not to be the owner.                                           *)
(***************************************************************************)
StandingInv ==
    lapses \cap {"bootstrap", "overlap"} = {} =>
        /\ Stored # {} => Owners # {}
        /\ \A i \in Owners : ~users[i].disabled
        /\ \A s \in Servers : server[s] \in {"late", "up"} => Owners # {}
        /\ \A c \in Clients :
            LET r == req[c] IN
            /\ r.pc # "idle" => Owners # {}
            /\ r.pc = "load" /\ r.role = "superadmin" => r.caller \in Owners
            /\ r.pc = "write" /\ r.op \in {"hide", "delete", "promote", "demote"}
                 => r.target \notin Owners


\* While nothing is inserted by a boot, the rows there are were there, and only
\* the target of a write is touched.
LEMMA StandingRows ==
  ASSUME TypeInv, OwnerInv, StandingInv, [Next]_vars, \A s \in Servers : ~InsertOwner(s),
         lapses \cap {"bootstrap", "overlap"} = {}
  PROVE  /\ Owners' = Owners
         /\ \A i \in Owners' : ~users'[i].disabled
         /\ Stored' # {} => Owners' # {}
  <1> USE DEF TypeInv
  <1>1. Owners' \subseteq Owners
    BY OnlyBootsMakeOwners
  <1>2. CASE UNCHANGED users
    BY <1>2 DEF StandingInv, Owners, Stored
  <1>3. ASSUME NEW c \in Clients, SignupInserts(c), ~UNCHANGED <<users, unused>>
        PROVE  /\ Owners \subseteq Owners' /\ Owners # {}
               /\ \A i \in Owners : users'[i] = users[i]
    <2>1. Owners # {}
      BY <1>3 DEF StandingInv, SignupInserts, At
    <2>2. QED
      BY <1>3, <2>1, SignupRow DEF Owners
  <1>4. ASSUME NEW c \in Clients, Write(c)
        PROVE  /\ Owners \subseteq Owners'
               /\ \A i \in Owners : users'[i].disabled = FALSE
               /\ Owners # {}
    <2> DEFINE r == req[c]
    <2>1. r \in ReqType /\ WellFormed(r) /\ r.pc = "write" /\ users \in [Stored -> User]
      BY <1>4 DEF RequestsOK, RowsOK, Write, At
    <2>2. r.op \in {"hide", "delete", "promote", "demote"} => r.target \notin Owners
      BY <2>1 DEF StandingInv
    <2>3. \A i \in Owners : i \in Stored /\ users[i].role = "superadmin" /\ users[i].disabled = FALSE
      BY <2>1 DEF StandingInv, Owners, User
    <2>4. Owners # {}
      BY <2>1 DEF StandingInv
    <2>5. CASE r.target \in Owners
      <3>1. /\ Patched(r, users[r.target]).role = "superadmin"
            /\ Patched(r, users[r.target]).disabled = FALSE
        BY <2>1, <2>2, <2>3, <2>5, PatchedIsARow
      <3>2. \A i \in Owners : i \in Stored' /\ users'[i].role = "superadmin" /\ users'[i].disabled = FALSE
        <4>1. \A i \in Owners \ {r.target} : i \in Stored' /\ users'[i] = users[i]
          BY <1>4, <2>3, WriteRow DEF Stored
        <4>2. CASE users' = users
          BY <2>3, <4>2 DEF Stored
        <4>3. CASE users' # users
          <5>1. r.op # "delete"
            BY <2>2, <2>5
          <5>2. r.target \in Stored' /\ users'[r.target] = Patched(r, users[r.target])
            BY <1>4, <2>3, <2>5, <4>3, <5>1, WriteRow
          <5>3. QED
            BY <2>3, <3>1, <4>1, <5>2
        <4>4. QED
          BY <4>2, <4>3
      <3>3. QED
        BY <2>4, <3>2 DEF Owners
    <2>6. CASE r.target \notin Owners
      <3>1. \A i \in Owners : i \in Stored' /\ users'[i] = users[i]
        BY <1>4, <2>3, <2>6, WriteRow DEF Stored
      <3>2. QED
        BY <2>3, <2>4, <3>1 DEF Owners
    <2>7. QED
      BY <2>5, <2>6
  <1>5. ASSUME NEW c \in Clients, SignupInserts(c) \/ Write(c)
        PROVE  /\ Owners' = Owners
               /\ \A i \in Owners' : ~users'[i].disabled
               /\ Stored' # {} => Owners' # {}
    BY <1>1, <1>2, <1>3, <1>4, <1>5 DEF StandingInv
  <1>6. QED
    BY <1>2, <1>5, OthersLeaveRows

\* A load lets no request past that would strike the owner.
LEMMA LoadsSpareTheOwner ==
  ASSUME TypeInv, OwnerInv, StandingInv, lapses \cap {"bootstrap", "overlap"} = {},
         NEW c \in Clients, LoadTarget(c), req'[c] # NoRequest,
         req'[c].op \in {"hide", "delete", "promote", "demote"}
  PROVE  req'[c].target \notin Owners
  <1> DEFINE r == req[c]
  <1>1. r \in ReqType /\ r.pc = "load"
    BY LoadedRequest DEF TypeInv, RequestsOK
  <1>2. /\ loadTargetUser(r) /\ NotOwnAccount(r)
        /\ req'[c].target = r.target /\ req'[c].op = r.op
    BY <1>1, LoadedRequest
  <1>3. CASE r.role # "superadmin"
    BY <1>2, <1>3 DEF loadTargetUser, Owners
  <1>4. CASE r.role = "superadmin"
    <2>1. r.caller \in Owners /\ \A i, j \in Owners : i = j
      BY <1>1, <1>4 DEF StandingInv, OwnerInv
    <2>2. r.target # r.caller
      BY <1>2 DEF NotOwnAccount
    <2>3. QED
      BY <1>2, <2>1, <2>2
  <1>5. QED
    BY <1>3, <1>4

LEMMA StandingInvHolds == Spec => [](TypeInv /\ OwnerInv /\ StandingInv)
<1>1. Init => StandingInv
  BY DEF Init, StandingInv, Owners, Stored, NoRequest
<1>2. TypeInv /\ OwnerInv /\ StandingInv /\ [Next]_vars => StandingInv'
  <2> SUFFICES ASSUME TypeInv, OwnerInv, StandingInv, [Next]_vars,
                      (lapses \cap {"bootstrap", "overlap"})' = {}
               PROVE  StandingInv'
    BY DEF StandingInv
  <2>1. lapses \cap {"bootstrap", "overlap"} = {}
    BY LapsesGrow
  <2>2. ASSUME NEW s \in Servers, InsertOwner(s) PROVE StandingInv'
    <3>1. server[s] = "insert"
      BY <2>2 DEF InsertOwner
    <3>2. Owners = {} /\ Stored = {} /\ \A c \in Clients : req[c].pc = "idle"
      BY <2>1, <3>1 DEF OwnerInv, StandingInv
    <3>3. Owners' # {} /\ \A i \in Owners' : users'[i].disabled = FALSE
      BY <2>2, <3>2, InsertOwnerRow DEF TypeInv, Owners
    <3>4. req' = req
      BY <2>2 DEF InsertOwner
    <3>5. QED
      BY <3>2, <3>3, <3>4 DEF StandingInv
  <2>3. ASSUME \A s \in Servers : ~InsertOwner(s) PROVE StandingInv'
    <3>1. /\ Owners' = Owners /\ \A i \in Owners' : ~users'[i].disabled
          /\ Stored' # {} => Owners' # {}
      BY <2>1, <2>3, StandingRows
    <3>2. \A s \in Servers : server'[s] \in {"late", "up"} => Owners # {}
      BY <2>1, <2>3, ServerSteps DEF StandingInv
    <3> DEFINE sound(r) == /\ r.pc # "idle" => Owners # {}
                           /\ r.pc = "load" /\ r.role = "superadmin" => r.caller \in Owners
                           /\ r.pc = "write" /\ r.op \in {"hide", "delete", "promote", "demote"}
                                => r.target \notin Owners
    <3>3. ASSUME NEW c \in Clients PROVE sound(req'[c])
      <4>1. sound(req[c]) /\ req[c] \in ReqType
        BY <2>1 DEF StandingInv, TypeInv, RequestsOK
      <4>2. CASE req'[c] = req[c] \/ req'[c] = NoRequest
        BY <4>1, <4>2 DEF NoRequest
      <4>3. CASE req'[c] = [req[c] EXCEPT !.overtaken = TRUE]
        BY <4>1, <4>3 DEF ReqType
      <4>4. CASE AuthGate(c)
        <5>1. Owners # {}
          <6>1. Stored # {}
            BY <4>4, GatedRequest
          <6>2. QED
            BY <2>1, <6>1 DEF StandingInv
        <5>2. QED
          BY <4>4, <5>1, GatedRequest DEF Owners
      <4>5. CASE LoadTarget(c)
        <5>1. req'[c] = NoRequest \/ (req'[c].pc = "write" /\ req[c].pc = "load")
          BY <4>5, LoadedRequest
        <5>2. QED
          BY <2>1, <4>1, <4>5, <5>1, LoadsSpareTheOwner DEF NoRequest
      <4>6. CASE CheckName(c) \/ SignupStart(c) \/ SetPassword(c)
        <5>1. CASE req'[c] = NoRequest
          BY <4>1, <5>1 DEF NoRequest
        <5>2. CASE req[c].pc = "name" /\ req'[c] = [req[c] EXCEPT !.pc = "write"]
          <6>1. req'[c].pc = "write" /\ req'[c].op = req[c].op
            BY <4>1, <5>2 DEF ReqType
          <6>2. req[c].op \in OwnOperations
            BY <5>2 DEF TypeInv, RequestsOK, WellFormed
          <6>3. QED
            BY <4>1, <5>2, <6>1, <6>2 DEF OwnOperations
        <5>3. CASE /\ req'[c].pc \in {"insert", "write"}
                   /\ req'[c].pc = "write" => req'[c].op = "cli" /\ Stored # {}
                   /\ req'[c].pc = "insert" => Serving
          BY <2>1, <5>3 DEF StandingInv, Serving
        <5>4. QED
          BY <4>6, <5>1, <5>2, <5>3, MovedRequest
      <4>7. QED
        BY <4>2, <4>3, <4>4, <4>5, <4>6, RequestSteps
    <3>4. QED
      BY <3>1, <3>2, <3>3 DEF StandingInv
  <2>4. QED
    BY <2>2, <2>3
<1>3. QED
  BY <1>1, <1>2, OwnerInvHolds, PTL DEF Spec

\* While a server serves there is an owner, not hidden and not demoted, whatever the
\* administrators do to one another, unless a boot's failed call or a boot that
\* slept through another's insert came first.
THEOREM OwnerStandsHolds == Spec => []OwnerStands
<1>1. StandingInv => OwnerStands
  BY DEF StandingInv, OwnerStands, Serving
<1>2. QED
  BY <1>1, StandingInvHolds, PTL

------------------------------------------------------------------------------
(***************************************************************************)
(* The scope.  Until it is overtaken a request carries its caller as the   *)
(* row still is, and once loaded its target is in the caller's scope.      *)
(***************************************************************************)
InScope(op, u, t) == {u, t} \subseteq Stored /\ Oversees(u, t) /\ t \in Roster(op, u)

Scoped(c) ==
    LET r == req[c] IN
    /\ r.pc = "load" => \/ r.overtaken
                        \/ /\ r.caller \in Stored
                           /\ users[r.caller].role = r.role /\ users[r.caller].region = r.region
    /\ r.pc = "name" => r.caller = r.target
    /\ r.pc = "write" => r.caller = Nobody \/ r.overtaken \/ r.caller = r.target
                           \/ InScope(r.op, r.caller, r.target)

ScopeInv == \A c \in Clients : Scoped(c)

\* The row keeps what a scope is drawn from.
RowKept(i) ==
    i \in Stored => i \in Stored' /\ users'[i].role = users[i].role
                      /\ users'[i].region = users[i].region

\* A step that changes a row's scope overtakes every request that acts on it.
LEMMA RowsKeptOrOvertaken ==
  ASSUME TypeInv, [Next]_vars, NEW c \in Clients
  PROVE  \/ req'[c] = NoRequest
         \/ req'[c].overtaken
         \/ RowKept(req[c].caller) /\ RowKept(req[c].target)
  <1> USE DEF TypeInv
  <1>1. CASE UNCHANGED users
    BY <1>1 DEF RowKept, Stored
  <1>2. ASSUME NEW s \in Servers, InsertOwner(s) PROVE \A i : RowKept(i)
    BY <1>2, InsertOwnerRow DEF RowKept
  <1>3. ASSUME NEW d \in Clients, SignupInserts(d), ~UNCHANGED users PROVE \A i : RowKept(i)
    BY <1>3, SignupRow DEF RowKept
  <1>4. ASSUME NEW d \in Clients, Write(d), ~UNCHANGED users
        PROVE  \/ req'[c] = NoRequest
               \/ req'[c].overtaken
               \/ RowKept(req[c].caller) /\ RowKept(req[c].target)
    <2> DEFINE i == req[d].target
    <2>1. \A j \in Stored \ {i} : j \in Stored' /\ users'[j] = users[j]
      BY <1>4, WriteRow
    <2>2. \A j : j # i => RowKept(j)
      BY <2>1 DEF RowKept
    <2>3. CASE req' = Overtaking(d, i)
      <3>1. CASE c = d
        BY <2>3, <3>1 DEF Overtaking
      <3>2. CASE c # d
        <4>1. req'[c] = [req[c] EXCEPT !.overtaken = req[c].overtaken \/ i \in {req[c].caller, req[c].target}]
          BY <2>3, <3>2 DEF Overtaking
        <4>2. req[c] \in ReqType
          BY DEF RequestsOK
        <4>3. i \in {req[c].caller, req[c].target} => req'[c].overtaken
          BY <4>1, <4>2 DEF ReqType
        <4>4. QED
          BY <2>2, <4>3
      <3>3. QED
        BY <3>1, <3>2
    <2>4. CASE req' # Overtaking(d, i)
      <3>1. /\ Stored' = Stored /\ users'[i] = Patched(req[d], users[i])
            /\ ~Rescoped(req[d], users[i])
        BY <1>4, <2>4, WriteRow
      <3>2. RowKept(i)
        BY <3>1 DEF Rescoped, RowKept
      <3>3. QED
        BY <2>2, <3>2
    <2>5. QED
      BY <2>3, <2>4
  <1>5. QED
    BY <1>1, <1>2, <1>3, <1>4, OthersLeaveRows

LEMMA ScopeStays ==
  ASSUME NEW op, NEW u, NEW t, InScope(op, u, t), RowKept(u), RowKept(t)
  PROVE  InScope(op, u, t)'
  <1>1. /\ {u, t} \subseteq Stored /\ {u, t} \subseteq Stored'
        /\ users'[u].role = users[u].role /\ users'[u].region = users[u].region
        /\ users'[t].role = users[t].role /\ users'[t].region = users[t].region
    BY DEF InScope, RowKept
  <1>2. Oversees(u, t)'
    BY <1>1 DEF InScope, Oversees
  <1>3. (t \in Roster(op, u))'
    BY <1>1 DEF InScope, Roster, AdminListAdmins, AdminListUsers
  <1>4. QED
    BY <1>1, <1>2, <1>3 DEF InScope

\* What the load admits is in scope.
LEMMA LoadsAreInScope ==
  ASSUME TypeInv, ScopeInv, NEW c \in Clients, LoadTarget(c), req'[c] # NoRequest,
         ~req[c].overtaken, req[c].caller # req[c].target
  PROVE  InScope(req[c].op, req[c].caller, req[c].target)
  <1> DEFINE r == req[c]
  <1>1. r.pc = "load" /\ r.op \in ScopedOperations /\ r.role \in Tier(r.op)
    BY LoadedRequest DEF TypeInv, RequestsOK, WellFormed
  <1>2. loadTargetUser(r) /\ Promotable(r)
    BY LoadedRequest
  <1>3. r.caller \in Stored /\ users[r.caller].role = r.role /\ users[r.caller].region = r.region
    BY <1>1 DEF ScopeInv, Scoped
  <1> HIDE DEF r
  <1>4. r.target \in Stored
    BY <1>2 DEF loadTargetUser
  <1>5. CASE r.role = "superadmin"
    <2>1. Oversees(r.caller, r.target)
      BY <1>3, <1>5 DEF Oversees, r
    <2>2. r.op = "demote" => users[r.target].role = "admin"
      BY <1>2 DEF Promotable
    <2>3. r.target \in Roster(r.op, r.caller)
      BY <1>3, <1>4, <1>5, <2>2 DEF Roster, AdminListAdmins, AdminListUsers
    <2>4. QED
      BY <1>3, <1>4, <2>1, <2>3 DEF InScope, r
  <1>6. CASE r.role # "superadmin"
    <2>1. r.role = "admin" /\ r.op \in AdminOperations
      BY <1>1, <1>6 DEF Tier, ScopedOperations
    <2>2. users[r.target].role = "user" /\ users[r.target].region = r.region
      BY <1>2, <1>6 DEF loadTargetUser
    <2>3. Oversees(r.caller, r.target)
      BY <1>3, <2>1, <2>2 DEF Oversees
    <2>4. r.op # "demote"
      BY <2>1 DEF AdminOperations
    <2>5. r.target \in Roster(r.op, r.caller)
      BY <1>3, <1>4, <2>2, <2>4 DEF Roster, AdminListUsers
    <2>6. QED
      BY <1>3, <1>4, <2>3, <2>5 DEF InScope, r
  <1>7. QED
    BY <1>5, <1>6

LEMMA StepKeepsScope ==
  ASSUME TypeInv, ScopeInv, [Next]_vars, NEW c \in Clients
  PROVE  Scoped(c)'
  <1>1. req[c] \in ReqType /\ Scoped(c)
    BY DEF TypeInv, RequestsOK, ScopeInv
  <1>2. CASE req'[c] = NoRequest
    BY <1>2 DEF Scoped, NoRequest
  <1>3. CASE req'[c].overtaken /\ req'[c] = [req[c] EXCEPT !.overtaken = TRUE]
    BY <1>1, <1>3 DEF Scoped, ReqType
  <1>4. CASE /\ req'[c] = req[c] /\ ~req[c].overtaken
             /\ RowKept(req[c].caller) /\ RowKept(req[c].target)
    <2>1. req[c].pc = "load" => /\ req[c].caller \in Stored'
                                /\ users'[req[c].caller].role = req[c].role
                                /\ users'[req[c].caller].region = req[c].region
      BY <1>1, <1>4 DEF Scoped, RowKept
    <2>2. \A op, u, t : InScope(op, u, t) /\ RowKept(u) /\ RowKept(t) => InScope(op, u, t)'
      BY ScopeStays
    <2>3. QED
      BY <1>1, <1>4, <2>1, <2>2 DEF Scoped
  <1>5. CASE AuthGate(c)
    <2>1. UNCHANGED users
      BY <1>5 DEF AuthGate
    <2>2. QED
      BY <1>5, <2>1, GatedRequest DEF Scoped, Stored
  <1>6. CASE LoadTarget(c) /\ req'[c] # NoRequest
    <2>1. /\ UNCHANGED users /\ req'[c].pc = "write" /\ req'[c].op = req[c].op
          /\ req'[c].target = req[c].target /\ req'[c].caller = req[c].caller
          /\ req'[c].overtaken = req[c].overtaken
      BY <1>6, LoadedRequest
    <2>2. \A op, u, t : InScope(op, u, t) => InScope(op, u, t)'
      BY <2>1, ScopeStays DEF RowKept, Stored
    <2>3. QED
      BY <1>6, <2>1, <2>2, LoadsAreInScope DEF Scoped
  <1>7. CASE CheckName(c) \/ SignupStart(c) \/ SetPassword(c)
    <2>1. CASE req[c].pc = "name" /\ req'[c] = [req[c] EXCEPT !.pc = "write"]
      BY <1>1, <2>1 DEF Scoped, ReqType
    <2>2. CASE req'[c].caller = Nobody /\ req'[c].pc \in {"insert", "write"}
      BY <2>2 DEF Scoped
    <2>3. QED
      BY <1>2, <1>7, <2>1, <2>2, MovedRequest
  <1>8. QED
    <2>1. CASE req'[c] = req[c] /\ req[c].overtaken
      BY <1>1, <2>1 DEF Scoped
    <2>2. CASE req'[c] = req[c] /\ ~req[c].overtaken
      BY <1>2, <1>4, <2>2, RowsKeptOrOvertaken
    <2>3. CASE req'[c] = [req[c] EXCEPT !.overtaken = TRUE]
      BY <1>1, <1>3, <2>3 DEF ReqType
    <2>4. QED
      BY <1>2, <1>5, <1>6, <1>7, <2>1, <2>2, <2>3, RequestSteps

\* No request writes outside the scope of its caller, whatever changes between
\* the gate, the load and the write, unless one of its two rows changed scope in
\* between.
THEOREM WritesStayInScopeHolds == Spec => []WritesStayInScope
<1>1. Init => ScopeInv
  BY DEF Init, ScopeInv, Scoped, NoRequest
<1>2. TypeInv /\ ScopeInv /\ [Next]_vars => ScopeInv'
  BY StepKeepsScope DEF ScopeInv
<1>3. ScopeInv => WritesStayInScope
  BY DEF ScopeInv, Scoped, InScope, WritesStayInScope
<1>4. QED
  BY <1>1, <1>2, <1>3, TypeInvHolds, PTL DEF Spec
==============================================================================
