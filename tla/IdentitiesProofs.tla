-------------------------- MODULE IdentitiesProofs --------------------------
(***************************************************************************)
(* Proofs, for any number of users, identities and concurrent requests,    *)
(* that an identity which had an account does not register a second one,   *)
(* that wechat_openid is the user's own, and that a rebinding takes effect.*)
(*                                                                         *)
(* The argument: an identity leaves the owners' table only with its        *)
(* account, which was archived before (ErasedWhenArchived), so that one    *)
(* without an owner is in the history (GoneIsRemembered); a login that did *)
(* not find it there is about a new one (AskedWhenNew).  A rebinding knows *)
(* which rows have changed since it read them (SeenIsCurrent), so that     *)
(* without such a change it computes wechat_openid from the rows it leaves.*)
(***************************************************************************)
EXTENDS Identities, TLAPS

USE DEF accounts, requests, ghosts, bounds

-----------------------------------------------------------------------------
(***************************************************************************)
(* Type correctness.                                                       *)
(***************************************************************************)
\* There are no accounts at first.
LEMMA InitIInv == Init => IInv
  BY IdentitiesAssumption DEF Init, IInv, TypeOK, NoRows, Labels, GoneIsRemembered,
     AskedWhenNew, ErasedWhenArchived, SeenIsCurrent, OpenIDIsOwn

\* What a step may do to the bookkeeping of its request.
RequestsOK ==
  /\ pc \in [Requests -> Labels]
  /\ user \in [Requests -> Users \cup {NoUser}]
  /\ identity \in [Requests -> Identities \cup {NoIdentity}]
  /\ \A r \in Requests :
       /\ pc[r] \in {"history", "owner", "create", "record", "link", "transfer"}
            <=> identity[r] \in Identities
       /\ pc[r] \in {"link", "transfer", "erase"} <=> user[r] \in Users
  /\ view \in [Requests -> [Identities -> Users \cup {NoUser}]]

\* A request that returns forgets what it was about.
LEMMA ReturnType == ASSUME TypeOK, NEW r \in Requests, Return(r) PROVE RequestsOK'
  BY IdentitiesAssumption DEF TypeOK, Return, RequestsOK, Labels, NoRows

\* A login goes on with its identity.
LEMMA GotoType ==
  ASSUME TypeOK, NEW r \in Requests, NEW label \in {"owner", "create", "record"},
         pc[r] \in {"history", "owner", "create"}, Goto(r, label)
  PROVE  RequestsOK'
  BY DEF TypeOK, Goto, RequestsOK, Labels

\* A request about an identity, a user or both begins.
LEMMA StartType ==
  ASSUME TypeOK, NEW r \in Requests, NEW label, NEW u, NEW i, Start(r, label, u, i),
         view' \in [Requests -> [Identities -> Users \cup {NoUser}]],
         \/ label = "history" /\ u = NoUser /\ i \in Identities
         \/ label \in {"link", "transfer"} /\ u \in Users /\ i \in Identities
         \/ label = "erase" /\ u \in Users /\ i = NoIdentity
  PROVE  RequestsOK'
  BY IdentitiesAssumption DEF TypeOK, Start, RequestsOK, Labels

\* Rows that change are noted as identities.
LEMMA ChangedType ==
  ASSUME TypeOK, NEW rows \in SUBSET Identities, RowsChange(rows)
  PROVE  changed' \in [Requests -> SUBSET Identities]
  BY DEF TypeOK, RowsChange

\* A step that writes nothing keeps the tables' types.
LEMMA NothingWrittenType ==
  ASSUME TypeOK, NothingWritten, RequestsOK', faults' \in Nat, crashes' \in Nat
  PROVE  TypeOK'
  <1>1. changed' \in [Requests -> SUBSET Identities]
    BY ChangedType DEF NothingWritten
  <1> QED BY <1>1 DEF TypeOK, NothingWritten, RequestsOK

\* A new row of user_identities, of a living user.
LEMMA SetOwnerType ==
  ASSUME TypeOK, NEW i \in Identities, NEW u \in live', SetOwner(i, u),
         live \subseteq live', history' = history
  PROVE  /\ owner' \in [Identities -> live' \cup {NoUser}]
         /\ \A j \in Identities : owner'[j] # NoUser => j \in ever'
         /\ ever' \subseteq Identities /\ late' \subseteq ever'
         /\ changed' \in [Requests -> SUBSET Identities]
  <1>1. changed' \in [Requests -> SUBSET Identities]
    BY ChangedType DEF SetOwner
  <1>2. owner' = [owner EXCEPT ![i] = u] /\ ever' = ever \cup {i}
    BY DEF SetOwner
  <1>3. late' \subseteq late \cup {i}
    BY DEF SetOwner
  <1> QED BY <1>1, <1>2, <1>3 DEF TypeOK

\* The wechat_openid that comes with an identity.
LEMMA WithOpenIDType ==
  ASSUME TypeOK, NEW u \in Users, NEW i \in Identities
  PROVE  /\ WithOpenID(u, i) \in [Users -> Wechat \cup {NoIdentity}]
         /\ \A v \in Users \ {u} : WithOpenID(u, i)[v] = openid[v]
  BY DEF TypeOK, WithOpenID

\* The account a login creates is one more, with one more identity.
LEMMA NewUserType ==
  ASSUME TypeOK, NEW r \in Requests, NEW u \in Users, NewUser(r, u), RequestsOK',
         faults' \in Nat, crashes' \in Nat
  PROVE  TypeOK'
  <1> DEFINE i == identity[r]
  <1>1. i \in Identities /\ u \notin used
    BY DEF TypeOK, NewUser
  <1>2. /\ live' = live \cup {u} /\ used' = used \cup {u}
        /\ openid' = WithOpenID(u, i) /\ SetOwner(i, u)
        /\ UNCHANGED <<history, tickets, raced>>
    BY DEF NewUser
  <1>3. /\ owner' \in [Identities -> live' \cup {NoUser}]
        /\ \A j \in Identities : owner'[j] # NoUser => j \in ever'
        /\ ever' \subseteq Identities /\ late' \subseteq ever'
        /\ changed' \in [Requests -> SUBSET Identities]
    BY <1>1, <1>2, SetOwnerType
  <1>4. /\ openid' \in [Users -> Wechat \cup {NoIdentity}]
        /\ \A v \in Users \ {u} : openid'[v] = openid[v]
    BY <1>1, <1>2, WithOpenIDType
  <1> QED BY <1>1, <1>2, <1>3, <1>4 DEF TypeOK, RequestsOK

\* Binding an identity to a user, wechat_openid with it.
LEMMA LinkIdentityType == ASSUME TypeOK, NEW r \in Requests, LinkIdentity(r) PROVE TypeOK'
  <1> DEFINE u == user[r]
             i == identity[r]
  <1>1. /\ u \in Users /\ i \in Identities /\ RequestsOK'
        /\ faults' \in Nat /\ crashes' \in Nat
    BY ReturnType DEF TypeOK, LinkIdentity
  <1>2. CASE NothingWritten
    BY <1>1, <1>2, NothingWrittenType
  <1>3. CASE /\ u \in live /\ openid' = WithOpenID(u, i) /\ SetOwner(i, u)
             /\ UNCHANGED <<accounts, history, tickets, raced>>
    <2>1. /\ owner' \in [Identities -> live' \cup {NoUser}]
          /\ \A j \in Identities : owner'[j] # NoUser => j \in ever'
          /\ ever' \subseteq Identities /\ late' \subseteq ever'
          /\ changed' \in [Requests -> SUBSET Identities]
      BY <1>1, <1>3, SetOwnerType
    <2>2. /\ openid' \in [Users -> Wechat \cup {NoIdentity}]
          /\ \A v \in Users \ {u} : openid'[v] = openid[v]
      BY <1>1, <1>3, WithOpenIDType
    <2> QED BY <1>1, <1>3, <2>1, <2>2 DEF TypeOK, RequestsOK
  <1> QED BY <1>2, <1>3 DEF LinkIdentity

\* A write to wechat_openid of somebody who lives, or of nobody.
LEMMA WriteType ==
  ASSUME NEW column \in [Users -> Wechat \cup {NoIdentity}],
         \A u \in Users \ live : column[u] = NoIdentity,
         NEW v, NEW w \in Wechat \cup {NoIdentity}
  PROVE  /\ Write(column, v, w) \in [Users -> Wechat \cup {NoIdentity}]
         /\ \A u \in Users \ live : Write(column, v, w)[u] = NoIdentity
  BY DEF Write

\* So is a rebinding.
LEMMA TransferType ==
  ASSUME TypeOK, NEW r \in Requests, TransferThirdPartyIdentity(r) PROVE TypeOK'
  <1> DEFINE u == user[r]
             i == identity[r]
             prev == view[r][i]
             lost(x) == IF prev = NoUser THEN openid ELSE Write(openid, prev, x)
             gained(x) == IF i \in Wechat THEN Write(lost(x), u, i) ELSE lost(x)
             synced(x, y) == Write(gained(x), u, y)
  <1>1. /\ u \in Users /\ i \in Identities /\ RequestsOK'
        /\ faults' \in Nat /\ crashes' \in Nat
    BY ReturnType DEF TypeOK, TransferThirdPartyIdentity
  <1>2. CASE NothingWritten
    BY <1>1, <1>2, NothingWrittenType
  <1>3. CASE \E x, y \in Wechat \cup {NoIdentity} :
               /\ u \in live /\ openid' = synced(x, y) /\ SetOwner(i, u)
               /\ raced' \subseteq raced \cup Users
               /\ UNCHANGED <<accounts, history, tickets>>
    <2>1. PICK x, y \in Wechat \cup {NoIdentity} : openid' = synced(x, y)
      BY <1>3
    <2>2. /\ u \in live /\ SetOwner(i, u) /\ raced' \subseteq raced \cup Users
          /\ UNCHANGED <<accounts, history, tickets>>
      BY <1>3
    <2>3. /\ owner' \in [Identities -> live' \cup {NoUser}]
          /\ \A j \in Identities : owner'[j] # NoUser => j \in ever'
          /\ ever' \subseteq Identities /\ late' \subseteq ever'
          /\ changed' \in [Requests -> SUBSET Identities]
      BY <1>1, <2>2, SetOwnerType
    <2> DEFINE Column(c) == /\ c \in [Users -> Wechat \cup {NoIdentity}]
                            /\ \A v \in Users \ live : c[v] = NoIdentity
    <2>4. Column(lost(x))
      BY WriteType DEF TypeOK
    <2> HIDE DEF lost
    <2>5. Column(gained(x))
      BY <2>4, WriteType DEF TypeOK
    <2> HIDE DEF gained
    <2>6. Column(synced(x, y))
      BY <2>5, WriteType DEF TypeOK
    <2> QED BY <1>1, <2>1, <2>2, <2>3, <2>6 DEF TypeOK, RequestsOK
  <1> QED BY <1>2, <1>3 DEF TransferThirdPartyIdentity

\* The archive is of identities that have an account.
LEMMA ArchiveType ==
  ASSUME TypeOK, NEW r \in Requests, NEW u \in Users, Archive(r, u) PROVE TypeOK'
  <1>1. RequestsOK'
    BY StartType DEF Archive, TypeOK
  <1>2. Owned(u) \subseteq Identities
    BY IdentitiesAssumption DEF Owned, TypeOK
  <1> QED BY <1>1, <1>2 DEF Archive, TypeOK, RequestsOK

\* A deleted account leaves no row behind.
LEMMA EraseType == ASSUME TypeOK, NEW r \in Requests, Erase(r) PROVE TypeOK'
  <1> DEFINE u == user[r]
  <1>1. u \in Users /\ RequestsOK'
    BY ReturnType DEF TypeOK, Erase
  <1>2. changed' \in [Requests -> SUBSET Identities]
    BY ChangedType DEF Erase, Owned
  <1>3. /\ live' = live \ {u} /\ UNCHANGED <<used, history, tickets, ever, raced, bounds>>
        /\ owner' = [i \in Identities |-> IF owner[i] = u THEN NoUser ELSE owner[i]]
        /\ openid' = [openid EXCEPT ![u] = NoIdentity]
        /\ late' \subseteq late \cup Owned(u)
    BY DEF Erase
  <1>4. Owned(u) \subseteq ever
    BY <1>1, IdentitiesAssumption DEF Owned, TypeOK
  <1> QED BY <1>1, <1>2, <1>3, <1>4 DEF TypeOK, RequestsOK

\* A wechat_openid is that of somebody who lives.
LEMMA MigrateType == ASSUME TypeOK, MigrateIdentities PROVE TypeOK'
  <1> DEFINE restored == {i \in Wechat : owner[i] = NoUser /\ \E u \in Users : openid[u] = i}
  <1>1. /\ owner' = [i \in Identities |-> IF i \in restored
                                    THEN CHOOSE u \in Users : openid[u] = i ELSE owner[i]]
        /\ ever' = ever \cup restored /\ late' \subseteq late \cup restored
        /\ UNCHANGED <<accounts, openid, history, tickets, raced, bounds>>
        /\ UNCHANGED <<pc, user, identity, view>> /\ RowsChange(restored)
    BY DEF MigrateIdentities
  <1>2. restored \subseteq Identities
    BY IdentitiesAssumption
  <1>3. changed' \in [Requests -> SUBSET Identities]
    BY <1>1, <1>2, ChangedType
  <1>4. ASSUME NEW i \in restored
        PROVE  (CHOOSE u \in Users : openid[u] = i) \in live
    <2>1. PICK u \in Users : openid[u] = i
      OBVIOUS
    <2>2. \A v \in Users : openid[v] = i => v \in live
      BY IdentitiesAssumption DEF TypeOK
    <2> QED BY <2>1, <2>2
  <1> HIDE DEF restored
  <1>5. owner' \in [Identities -> live' \cup {NoUser}]
    BY <1>1, <1>4 DEF TypeOK
  <1>6. \A i \in Identities : owner'[i] # NoUser => i \in ever'
    BY <1>1 DEF TypeOK
  <1> QED BY <1>1, <1>2, <1>3, <1>5, <1>6 DEF TypeOK

\* Every step keeps the types.
LEMMA StepTypeOK == TypeOK /\ [Next]_vars => TypeOK'
  <1> SUFFICES ASSUME TypeOK, [Next]_vars PROVE TypeOK'
    OBVIOUS
  <1>1. ASSUME NEW r \in Requests, Login(r) PROVE TypeOK'
    <2>1. ASSUME NEW i \in Identities, FindUser(r, i) PROVE TypeOK'
      <3>1. RequestsOK' BY <2>1, StartType DEF FindUser, TypeOK
      <3> QED BY <2>1, <3>1, NothingWrittenType DEF FindUser, TypeOK
    <2>2. ASSUME InHistory(r) \/ HasOwner(r) \/ CreateUserFails(r) PROVE TypeOK'
      <3>1. RequestsOK'
        BY <2>2, ReturnType, GotoType DEF InHistory, HasOwner, CreateUserFails
      <3> QED
        BY <2>2, <3>1, NothingWrittenType DEF InHistory, HasOwner, CreateUserFails, TypeOK
    <2>3. CASE RecordHistory(r)
      <3>1. RequestsOK' BY <2>3, ReturnType DEF RecordHistory
      <3>2. identity[r] \in Identities BY <2>3 DEF RecordHistory, TypeOK
      <3> QED BY <2>3, <3>1, <3>2 DEF RecordHistory, TypeOK, RequestsOK
    <2>4. ASSUME NEW u \in Users, CreateUser(r, u) PROVE TypeOK'
      <3>1. RequestsOK' BY <2>4, GotoType DEF CreateUser, NewUser
      <3> QED BY <2>4, <3>1, NewUserType DEF CreateUser, TypeOK
    <2>5. ASSUME NEW u \in Users, CommitReplyLost(r, u) PROVE TypeOK'
      <3>1. RequestsOK' BY <2>5, ReturnType DEF CommitReplyLost
      <3> QED BY <2>5, <3>1, NewUserType DEF CommitReplyLost, Fault, TypeOK
    <2> QED BY <1>1, <2>1, <2>2, <2>3, <2>4, <2>5 DEF Login
  <1>2. ASSUME NEW r \in Requests, Bind(r) PROVE TypeOK'
    <2>1. ASSUME NEW u \in Users, NEW i \in Identities, FindForLink(r, u, i) PROVE TypeOK'
      <3>1. RequestsOK' BY <2>1, StartType DEF FindForLink, TypeOK
      <3> QED BY <2>1, <3>1, NothingWrittenType DEF FindForLink, TypeOK
    <2>2. ASSUME NEW u \in Users, NEW i \in Identities, FindForTransfer(r, u, i) PROVE TypeOK'
      <3>1. view' \in [Requests -> [Identities -> Users \cup {NoUser}]]
        BY <2>2 DEF FindForTransfer, TypeOK
      <3>2. RequestsOK' BY <2>2, <3>1, StartType DEF FindForTransfer
      <3> QED BY <2>2, <3>2, NothingWrittenType DEF FindForTransfer, TypeOK
    <2> QED BY <1>2, <2>1, <2>2, LinkIdentityType, TransferType DEF Bind
  <1>3. ASSUME NEW r \in Requests, Delete(r) PROVE TypeOK'
    BY <1>3, EraseType, ArchiveType DEF Delete
  <1>4. ASSUME NEW r \in Requests, CallFails(r) PROVE TypeOK'
    <2>1. RequestsOK' BY <1>4, ReturnType DEF CallFails
    <2> QED BY <1>4, <2>1, NothingWrittenType DEF CallFails, Fault, TypeOK
  <1>5. ASSUME NEW u \in Users, CreateAccount(u) PROVE TypeOK'
    BY <1>5 DEF CreateAccount, TypeOK
  <1>6. ASSUME NEW u \in Users, ArchiveFails(u) PROVE TypeOK'
    <2>1. Owned(u) \subseteq ever
      BY IdentitiesAssumption DEF Owned, TypeOK
    <2> QED BY <1>6, <2>1 DEF ArchiveFails, Fault, TypeOK
  <1>7. ASSUME NEW u \in Users, NEW i \in Identities, MergeOrLink(u, i) PROVE TypeOK'
    BY <1>7 DEF MergeOrLink, TypeOK
  <1>8. ASSUME NEW t \in tickets, TicketExpires(t) PROVE TypeOK'
    BY <1>8 DEF TicketExpires, TypeOK
  <1>9. CASE MigrateHistory
    BY <1>9 DEF MigrateHistory, TypeOK
  <1>10. CASE Crash
    BY <1>10, IdentitiesAssumption DEF Crash, TypeOK, NoRows, Labels
  <1>11. CASE UNCHANGED vars
    BY <1>11 DEF vars, TypeOK
  <1> QED BY <1>1, <1>2, <1>3, <1>4, <1>5, <1>6, <1>7, <1>8, <1>9, <1>10, <1>11, MigrateType
          DEF Next

\* The variables have their types in every reachable state.
THEOREM TypeCorrect == Spec => []TypeOK
  <1>1. Init => TypeOK
    BY InitIInv DEF IInv
  <1> QED BY <1>1, StepTypeOK, PTL DEF Spec

-----------------------------------------------------------------------------
(***************************************************************************)
(* What is gone is remembered.                                             *)
(***************************************************************************)
Remembered == GoneIsRemembered /\ AskedWhenNew /\ ErasedWhenArchived

\* No request gets past the history, or past the archive.
NoneGetsPast ==
  \A q \in Requests : pc'[q] \in {"owner", "create", "erase"}
    => pc'[q] = pc[q] /\ user'[q] = user[q] /\ identity'[q] = identity[q]

\* Only a request that starts or goes on gets anywhere.
LEMMA ReturnsFromThere ==
  ASSUME TypeOK, NEW r \in Requests, Return(r) PROVE NoneGetsPast
  BY DEF TypeOK, Return, NoneGetsPast

LEMMA StartsBefore ==
  ASSUME TypeOK, NEW r \in Requests, NEW label \in {"history", "link", "transfer"},
         NEW u, NEW i, Start(r, label, u, i)
  PROVE  NoneGetsPast
  BY DEF TypeOK, Start, NoneGetsPast

\* While owners stay, the history only grows.
LEMMA OwnersStay ==
  ASSUME IInv, NoneGetsPast, UNCHANGED <<owner, ever>>,
         history \subseteq history', late \subseteq late'
  PROVE  Remembered'
  BY DEF IInv, TypeOK, GoneIsRemembered, AskedWhenNew, ErasedWhenArchived, Remembered,
     NoneGetsPast, Owned

\* An identity that gets an owner is not gone, and one that gets a doomed one
\* is late.
LEMMA OwnerSet ==
  ASSUME IInv, NoneGetsPast, NEW i \in Identities, NEW u \in Users, SetOwner(i, u),
         history' = history
  PROVE  Remembered'
  <1>1. /\ owner' = [owner EXCEPT ![i] = u] /\ ever' = ever \cup {i}
        /\ late' = IF Doomed(u) THEN late \cup ({i} \ history) ELSE late
    BY DEF SetOwner
  <1>2. GoneIsRemembered'
    BY <1>1, IdentitiesAssumption DEF IInv, TypeOK, GoneIsRemembered
  <1>3. AskedWhenNew'
    BY <1>1, IdentitiesAssumption DEF IInv, TypeOK, AskedWhenNew, NoneGetsPast
  <1>4. ErasedWhenArchived'
    <2> SUFFICES ASSUME NEW r \in Requests, pc'[r] = "erase",
                        NEW j \in Identities, owner'[j] = user'[r]
                 PROVE  j \in history' \cup late'
      BY DEF ErasedWhenArchived, Owned
    <2>1. pc[r] = "erase" /\ user'[r] = user[r]
      BY DEF NoneGetsPast
    <2>2. CASE j = i
      <3>1. Doomed(u) BY <1>1, <2>1, <2>2 DEF Doomed, IInv, TypeOK
      <3> QED BY <1>1, <2>2, <3>1
    <2>3. CASE j # i
      BY <1>1, <2>1, <2>3 DEF IInv, TypeOK, ErasedWhenArchived, Owned
    <2> QED BY <2>2, <2>3
  <1> QED BY <1>2, <1>3, <1>4 DEF Remembered

\* A login gets past the history with an identity that is not in it.
LEMMA PastHistory ==
  ASSUME IInv, NEW r \in Requests, InHistory(r) \/ HasOwner(r) PROVE Remembered'
  <1>1. UNCHANGED <<owner, ever, history, late>>
    BY DEF InHistory, HasOwner, NothingWritten
  <1>2. CASE Return(r)
    BY <1>1, <1>2, ReturnsFromThere, OwnersStay DEF IInv
  <1>3. CASE pc[r] = "history" /\ identity[r] \notin history /\ Goto(r, "owner")
    BY <1>1, <1>3 DEF IInv, TypeOK, Goto, GoneIsRemembered, AskedWhenNew, ErasedWhenArchived,
       Remembered, Owned
  <1>4. CASE pc[r] = "owner" /\ Goto(r, "create")
    BY <1>1, <1>4 DEF IInv, TypeOK, Goto, GoneIsRemembered, AskedWhenNew, ErasedWhenArchived,
       Remembered, Owned
  <1> QED BY <1>2, <1>3, <1>4 DEF InHistory, HasOwner

\* A deletion begins with everything it will take in the history.
LEMMA ArchiveRemembers ==
  ASSUME IInv, NEW r \in Requests, NEW u \in Users, Archive(r, u) PROVE Remembered'
  BY DEF IInv, TypeOK, Archive, Start, GoneIsRemembered, AskedWhenNew, ErasedWhenArchived,
     Remembered, Owned

\* And takes nothing a login under way has not been told of.
LEMMA EraseRemembers == ASSUME IInv, NEW r \in Requests, Erase(r) PROVE Remembered'
  <1> DEFINE u == user[r]
  <1>1. u \in Users /\ pc[r] = "erase" /\ NoneGetsPast
    BY ReturnsFromThere DEF IInv, TypeOK, Erase
  <1>2. /\ UNCHANGED <<history, ever>>
        /\ owner' = [i \in Identities |-> IF owner[i] = u THEN NoUser ELSE owner[i]]
        /\ late' = late \cup {i \in Owned(u) : LoggingIn(i)}
    BY DEF Erase
  <1>3. Owned(u) \subseteq history \cup late
    BY <1>1 DEF IInv, ErasedWhenArchived
  <1>4. GoneIsRemembered'
    BY <1>2, <1>3 DEF IInv, TypeOK, GoneIsRemembered, Owned
  <1>5. AskedWhenNew'
    <2> SUFFICES ASSUME NEW q \in Requests, pc'[q] \in {"owner", "create"},
                        identity'[q] \in ever', owner'[identity'[q]] = NoUser
                 PROVE  identity'[q] \in late'
      BY DEF AskedWhenNew
    <2>1. pc[q] \in {"owner", "create"} /\ identity'[q] = identity[q]
      BY <1>1 DEF NoneGetsPast
    <2>2. identity[q] \in Identities /\ LoggingIn(identity[q])
      BY <2>1 DEF IInv, TypeOK, LoggingIn
    <2> QED BY <1>2, <2>1, <2>2 DEF IInv, AskedWhenNew, Owned
  <1>6. ErasedWhenArchived'
    <2> SUFFICES ASSUME NEW q \in Requests, pc'[q] = "erase",
                        NEW i \in Identities, owner'[i] = user'[q]
                 PROVE  i \in history' \cup late'
      BY DEF ErasedWhenArchived, Owned
    <2>1. pc[q] = "erase" /\ user'[q] = user[q] /\ user[q] \in Users
      BY <1>1 DEF NoneGetsPast, IInv, TypeOK
    <2>2. owner[i] = user[q]
      BY <1>2, <2>1, IdentitiesAssumption
    <2> QED BY <1>2, <2>1, <2>2 DEF IInv, ErasedWhenArchived, Owned
  <1> QED BY <1>4, <1>5, <1>6 DEF Remembered

\* An identity that a migration restores has an owner again.
LEMMA MigrateRemembers == ASSUME IInv, MigrateIdentities PROVE Remembered'
  <1> DEFINE restored == {i \in Wechat : owner[i] = NoUser /\ \E u \in Users : openid[u] = i}
  <1>1. /\ owner' = [i \in Identities |-> IF i \in restored
                                    THEN CHOOSE u \in Users : openid[u] = i ELSE owner[i]]
        /\ ever' = ever \cup restored
        /\ late' = late \cup {i \in restored \ history : Doomed(owner'[i])}
        /\ UNCHANGED <<history, pc, user, identity>>
    BY DEF MigrateIdentities
  <1>2. \A i \in restored : owner'[i] \in Users
    BY <1>1, IdentitiesAssumption
  <1>3. restored \subseteq Identities
    BY IdentitiesAssumption
  <1> HIDE DEF restored
  <1>4. GoneIsRemembered'
    BY <1>1, <1>2, <1>3, IdentitiesAssumption DEF IInv, TypeOK, GoneIsRemembered
  <1>5. AskedWhenNew'
    BY <1>1, <1>2, <1>3, IdentitiesAssumption DEF IInv, TypeOK, AskedWhenNew
  <1>6. ErasedWhenArchived'
    <2> SUFFICES ASSUME NEW q \in Requests, pc[q] = "erase",
                        NEW i \in Identities, owner'[i] = user[q]
                 PROVE  i \in history \cup late'
      BY <1>1 DEF ErasedWhenArchived, Owned
    <2>1. CASE i \in restored
      <3>1. Doomed(owner'[i]) BY DEF Doomed
      <3> QED BY <1>1, <2>1, <3>1
    <2>2. CASE i \notin restored
      BY <1>1, <2>2 DEF IInv, ErasedWhenArchived, Owned
    <2> QED BY <2>1, <2>2
  <1> QED BY <1>4, <1>5, <1>6 DEF Remembered

\* Every step keeps what is gone remembered.
LEMMA StepRemembered == IInv /\ [Next]_vars => Remembered'
  <1> SUFFICES ASSUME IInv, [Next]_vars PROVE Remembered'
    OBVIOUS
  <1> USE DEF Remembered
  <1>1. ASSUME NEW r \in Requests, Login(r) PROVE Remembered'
    <2>1. ASSUME NEW i \in Identities, FindUser(r, i) PROVE Remembered'
      BY <2>1, StartsBefore, OwnersStay DEF FindUser, NothingWritten, IInv
    <2>2. CASE CreateUserFails(r)
      BY <2>2, ReturnsFromThere, OwnersStay DEF CreateUserFails, NothingWritten, IInv
    <2>3. CASE RecordHistory(r)
      BY <2>3, ReturnsFromThere, OwnersStay DEF RecordHistory, IInv
    <2>4. ASSUME NEW u \in Users, NewUser(r, u), NoneGetsPast PROVE Remembered'
      <3>1. identity[r] \in Identities
        BY <2>4 DEF NewUser, IInv, TypeOK
      <3> QED BY <2>4, <3>1, OwnerSet DEF NewUser
    <2>5. ASSUME NEW u \in Users, CreateUser(r, u) PROVE Remembered'
      <3>1. NoneGetsPast BY <2>5 DEF CreateUser, Goto, NoneGetsPast, IInv, TypeOK
      <3> QED BY <2>4, <2>5, <3>1 DEF CreateUser
    <2>6. ASSUME NEW u \in Users, CommitReplyLost(r, u) PROVE Remembered'
      BY <2>4, <2>6, ReturnsFromThere DEF CommitReplyLost, IInv
    <2> QED BY <1>1, <2>1, <2>2, <2>3, <2>5, <2>6, PastHistory DEF Login
  <1>2. ASSUME NEW r \in Requests, Bind(r) PROVE Remembered'
    <2>1. ASSUME NEW u \in Users, NEW i \in Identities, FindForLink(r, u, i) PROVE Remembered'
      BY <2>1, StartsBefore, OwnersStay DEF FindForLink, NothingWritten, IInv
    <2>2. ASSUME NEW u \in Users, NEW i \in Identities, FindForTransfer(r, u, i)
          PROVE  Remembered'
      BY <2>2, StartsBefore, OwnersStay DEF FindForTransfer, NothingWritten, IInv
    <2>3. ASSUME LinkIdentity(r) \/ TransferThirdPartyIdentity(r) PROVE Remembered'
      <3>1. NoneGetsPast /\ identity[r] \in Identities
        BY <2>3, ReturnsFromThere DEF LinkIdentity, TransferThirdPartyIdentity, IInv, TypeOK
      <3>2. CASE NothingWritten
        BY <3>1, <3>2, OwnersStay DEF NothingWritten
      <3>3. CASE /\ user[r] \in live /\ SetOwner(identity[r], user[r])
                 /\ UNCHANGED <<accounts, history>>
        BY <3>1, <3>3, OwnerSet DEF IInv, TypeOK
      <3> QED BY <2>3, <3>2, <3>3 DEF LinkIdentity, TransferThirdPartyIdentity
    <2> QED BY <1>2, <2>1, <2>2, <2>3 DEF Bind
  <1>3. ASSUME NEW r \in Requests, Delete(r) PROVE Remembered'
    BY <1>3, ArchiveRemembers, EraseRemembers DEF Delete
  <1>4. ASSUME NEW r \in Requests, CallFails(r) PROVE Remembered'
    BY <1>4, ReturnsFromThere, OwnersStay DEF CallFails, NothingWritten, IInv
  <1>5. CASE \/ \E u \in Users : CreateAccount(u) \/ ArchiveFails(u)
             \/ \E u \in Users, i \in Identities : MergeOrLink(u, i)
             \/ \E t \in tickets : TicketExpires(t)
             \/ MigrateHistory \/ Crash \/ UNCHANGED vars
    <2>1. UNCHANGED <<owner, ever, late>> /\ history \subseteq history'
      BY <1>5 DEF CreateAccount, ArchiveFails, MergeOrLink, TicketExpires, MigrateHistory,
         Crash, vars
    <2>2. NoneGetsPast
      BY <1>5 DEF CreateAccount, ArchiveFails, MergeOrLink, TicketExpires, MigrateHistory,
         Crash, vars, NoneGetsPast
    <2> QED BY <2>1, <2>2, OwnersStay
  <1> QED BY <1>1, <1>2, <1>3, <1>4, <1>5, MigrateRemembers DEF Next

-----------------------------------------------------------------------------
(***************************************************************************)
(* The copy of a WeChat identity is of one's own.                          *)
(***************************************************************************)
Rebound == SeenIsCurrent /\ OpenIDIsOwn

\* wechat_openid of u agrees with its rows.
Proper(u) ==
  IF Owned(u) \cap Wechat = {} THEN openid[u] = NoIdentity
  ELSE openid[u] \in Owned(u) \cap Wechat

\* No rebinding begins, and those under way stay as they are.
NoneBegins ==
  \A q \in Requests : pc'[q] = "transfer"
    => pc[q] = "transfer" /\ user'[q] = user[q] /\ identity'[q] = identity[q] /\ view'[q] = view[q]

\* A request that returns begins none.
LEMMA ReturnBeginsNone == ASSUME TypeOK, NEW r \in Requests, Return(r) PROVE NoneBegins
  BY DEF TypeOK, Return, NoneBegins

\* Nor does one that goes on or begins as something else.
LEMMA OthersBeginNone ==
  ASSUME TypeOK, NEW r \in Requests, NEW label, label # "transfer",
         \/ Goto(r, label)
         \/ view' = view /\ \E u, i : Start(r, label, u, i)
  PROVE  NoneBegins
  BY DEF TypeOK, Goto, Start, NoneBegins

\* The rows that change are no longer counted on.
LEMMA SeenStays ==
  ASSUME IInv, NoneBegins, NEW rows \in SUBSET Identities, RowsChange(rows),
         \A i \in Identities \ rows : owner'[i] = owner[i]
  PROVE  SeenIsCurrent'
  <1> SUFFICES ASSUME NEW q \in Requests, pc'[q] = "transfer"
               PROVE  /\ view'[q][identity'[q]] # user'[q]
                      /\ \A i \in Identities \ changed'[q] : view'[q][i] = owner'[i]
    BY DEF SeenIsCurrent
  <1>1. /\ pc[q] = "transfer" /\ user'[q] = user[q]
        /\ identity'[q] = identity[q] /\ view'[q] = view[q]
    BY DEF NoneBegins
  <1>2. changed'[q] = changed[q] \cup rows
    BY <1>1 DEF RowsChange
  <1> QED BY <1>1, <1>2 DEF IInv, SeenIsCurrent

\* While no row changes, nothing need be noted.
LEMMA SeenKept ==
  ASSUME IInv, NoneBegins, UNCHANGED <<owner, changed>> PROVE SeenIsCurrent'
  BY DEF IInv, SeenIsCurrent, NoneBegins

\* While neither rows nor copies change, they agree.
LEMMA OpenIDStays ==
  ASSUME IInv, UNCHANGED <<owner, openid, raced>>, live' \subseteq live PROVE OpenIDIsOwn'
  BY DEF IInv, OpenIDIsOwn, Owned

\* Who is no account has neither.
LEMMA StrangersHaveNone == ASSUME TypeOK, NEW u \in Users \ live PROVE Proper(u)
  <1>1. Owned(u) = {}
    BY IdentitiesAssumption DEF TypeOK, Owned
  <1> QED BY <1>1 DEF TypeOK, Proper

\* An identity nobody had comes with its copy.
LEMMA OpenIDComes ==
  ASSUME IInv, NEW i \in Identities, NEW u \in Users, owner[i] = NoUser,
         owner' = [owner EXCEPT ![i] = u], openid' = WithOpenID(u, i),
         live' \subseteq live \cup {u}, raced' = raced
  PROVE  OpenIDIsOwn'
  <1> SUFFICES ASSUME NEW v \in live' \ raced PROVE Proper(v)'
    BY DEF OpenIDIsOwn, Proper
  <1>1. v \in Users /\ Proper(v)
    <2>1. v \in Users
      BY DEF IInv, TypeOK
    <2> QED BY <2>1, StrangersHaveNone DEF IInv, OpenIDIsOwn, Proper
  <1>2. CASE v # u
    <2>1. Owned(v)' = Owned(v) /\ openid'[v] = openid[v]
      BY <1>1, <1>2, IdentitiesAssumption DEF Owned, WithOpenID, IInv, TypeOK
    <2> QED BY <1>1, <2>1 DEF Proper
  <1>3. CASE v = u /\ i \in Wechat
    <2>1. i \in Owned(u)' /\ openid'[u] = i
      BY <1>3 DEF Owned, WithOpenID, IInv, TypeOK
    <2> QED BY <1>3, <2>1 DEF Proper
  <1>4. CASE v = u /\ i \notin Wechat
    <2>1. Owned(u)' \cap Wechat = Owned(u) \cap Wechat /\ openid'[u] = openid[u]
      BY <1>1, <1>4, IdentitiesAssumption DEF Owned, WithOpenID, IInv, TypeOK
    <2> QED BY <1>1, <1>4, <2>1 DEF Proper
  <1> QED BY <1>2, <1>3, <1>4

\* The identities a rebinding sees of v are those v will have, unless rows of
\* v have changed.
LEMMA SeenIsOwned ==
  ASSUME IInv, NEW r \in Requests, pc[r] = "transfer", NEW v \in Users,
         owner' = [owner EXCEPT ![identity[r]] = user[r]],
         v \in {user[r], view[r][identity[r]]},
         \A j \in changed[r] : view[r][j] # v /\ owner'[j] # v
  PROVE  SeenWechat(r, v) = Owned(v)' \cap Wechat
  <1> DEFINE u == user[r]
             i == identity[r]
  <1>1. /\ u \in Users /\ i \in Identities /\ Wechat \subseteq Identities
        /\ view[r][i] # u /\ owner'[i] = u
        /\ \A j \in Identities \ {i} : owner'[j] = owner[j]
        /\ \A j \in Identities \ changed[r] : view[r][j] = owner[j]
    BY IdentitiesAssumption DEF IInv, TypeOK, SeenIsCurrent
  <1>2. i \notin changed[r]
    BY <1>1
  <1>3. \A j \in Wechat \ {i} : view[r][j] = v <=> owner'[j] = v
    BY <1>1
  <1>4. CASE v = u
    BY <1>1, <1>2, <1>3, <1>4 DEF SeenWechat, Owned
  <1>5. CASE v # u
    BY <1>1, <1>2, <1>3, <1>5 DEF SeenWechat, Owned
  <1> QED BY <1>4, <1>5

\* A copy that is computed from them agrees.
LEMMA SyncIsProper ==
  ASSUME NEW r, NEW v, NEW column, SeenWechat(r, v) = Owned(v)' \cap Wechat,
         Sync(r, v, column, openid'[v])
  PROVE  Proper(v)'
  BY DEF Sync, Proper

\* So a rebinding leaves both users' copies right, and takes nobody else's.
LEMMA TransferOpenID ==
  ASSUME IInv, NEW r \in Requests, TransferThirdPartyIdentity(r) PROVE OpenIDIsOwn'
  <1> DEFINE u == user[r]
             i == identity[r]
             prev == view[r][i]
             lost(x) == IF prev = NoUser THEN openid ELSE Write(openid, prev, x)
             gained(x) == IF i \in Wechat THEN Write(lost(x), u, i) ELSE lost(x)
             synced(x, y) == Write(gained(x), u, y)
  <1>1. /\ pc[r] = "transfer" /\ u \in Users /\ i \in Identities /\ prev \in Users \cup {NoUser}
        /\ prev # u
    BY DEF IInv, TypeOK, SeenIsCurrent, TransferThirdPartyIdentity
  <1>2. CASE NothingWritten
    BY <1>2, OpenIDStays DEF NothingWritten
  <1>3. ASSUME NEW x \in Wechat \cup {NoIdentity}, NEW y \in Wechat \cup {NoIdentity},
               prev # NoUser => Sync(r, prev, openid, x), Sync(r, u, gained(x), y),
               u \in live, prev = NoUser => owner[i] = NoUser,
               Unique(gained(x)), openid' = synced(x, y), SetOwner(i, u),
               raced' = raced \cup {v \in {u, prev} \cap Users :
                              \E j \in changed[r] : view[r][j] = v \/ owner'[j] = v},
               live' = live
        PROVE  OpenIDIsOwn'
    <2> SUFFICES ASSUME NEW v \in live \ raced' PROVE Proper(v)'
      BY <1>3 DEF OpenIDIsOwn, Proper
    <2>1. /\ v \in Users /\ v \notin raced /\ owner' = [owner EXCEPT ![i] = u]
          /\ v \in {u, prev} => \A j \in changed[r] : view[r][j] # v /\ owner'[j] # v
      BY <1>3 DEF SetOwner, IInv, TypeOK
    <2>2. /\ openid \in [Users -> Wechat \cup {NoIdentity}]
          /\ lost(x) \in [Users -> Wechat \cup {NoIdentity}]
          /\ gained(x) \in [Users -> Wechat \cup {NoIdentity}]
      BY <1>3, IdentitiesAssumption DEF Write, IInv, TypeOK
    <2>3. openid'[u] = y /\ (v # u => openid'[v] = gained(x)[v])
      <3> HIDE DEF gained
      <3> QED BY <1>1, <1>3, <2>2 DEF Write
    <2>4. v # u => gained(x)[v] = lost(x)[v]
      <3> HIDE DEF lost
      <3> QED BY <1>1, <2>2 DEF Write
    <2>5. v # u => openid'[v] = lost(x)[v] /\ gained(x)[v] = lost(x)[v]
      BY <2>3, <2>4
    <2>6. CASE v \in {u, prev}
      <3>1. SeenWechat(r, v) = Owned(v)' \cap Wechat
        BY <1>1, <2>1, <2>6, SeenIsOwned
      <3>2. CASE v = u
        <4>1. openid'[v] = y
          BY <2>3, <3>2
        <4>2. Sync(r, v, gained(x), openid'[v])
          BY <1>3, <3>2, <4>1
        <4> HIDE DEF lost, gained, synced
        <4> QED BY <3>1, <4>2, SyncIsProper
      <3>3. CASE v = prev
        <4>1. openid'[v] = x
          BY <1>1, <2>1, <2>2, <2>5, <3>3, IdentitiesAssumption DEF Write
        <4>2. prev # NoUser
          BY <2>1, <3>3, IdentitiesAssumption
        <4>3. Sync(r, v, openid, openid'[v])
          BY <1>3, <3>3, <4>1, <4>2
        <4> HIDE DEF lost, gained, synced
        <4> QED BY <3>1, <4>3, SyncIsProper
      <3> QED BY <2>6, <3>2, <3>3
    <2>7. CASE v \notin {u, prev}
      <3>1. Proper(v) /\ openid'[v] = openid[v] /\ gained(x)[v] = openid[v]
        BY <2>1, <2>2, <2>5, <2>7 DEF Write, IInv, OpenIDIsOwn, Proper
      <3>2. openid[v] # i
        <4>1. CASE i \in Wechat
          <5>1. gained(x)[u] = i
            BY <1>1, <1>3, <2>2, <4>1 DEF Write
          <5> QED BY <1>1, <1>3, <2>1, <2>7, <3>1, <5>1, IdentitiesAssumption DEF Unique
        <4>2. CASE i \notin Wechat
          BY <1>1, <2>1, <2>2, <4>2, IdentitiesAssumption
        <4> QED BY <4>1, <4>2
      <3>3. \A j \in Identities \ {i} : owner'[j] = owner[j]
        BY <2>1
      <3>4. owner'[i] # v
        BY <1>1, <2>1, <2>7 DEF IInv, TypeOK
      <3>5. CASE Owned(v) \cap Wechat = {}
        BY <3>1, <3>3, <3>4, <3>5 DEF Proper, Owned
      <3>6. CASE openid[v] \in Owned(v) \cap Wechat
        BY <3>1, <3>2, <3>3, <3>6 DEF Proper, Owned
      <3> QED BY <3>1, <3>5, <3>6 DEF Proper
    <2> QED BY <2>6, <2>7
  <1>4. \/ NothingWritten
        \/ \E x, y \in Wechat \cup {NoIdentity} :
             /\ prev # NoUser => Sync(r, prev, openid, x)
             /\ Sync(r, u, gained(x), y)
             /\ u \in live /\ (prev = NoUser => owner[i] = NoUser)
             /\ Unique(gained(x)) /\ openid' = synced(x, y) /\ SetOwner(i, u)
             /\ raced' = raced \cup {v \in {u, prev} \cap Users :
                              \E j \in changed[r] : view[r][j] = v \/ owner'[j] = v}
             /\ live' = live
    BY DEF TransferThirdPartyIdentity
  <1> HIDE DEF u, i, prev, lost, gained, synced
  <1> QED BY <1>2, <1>3, <1>4

\* A migration restores identities that no right copy is of.
LEMMA MigrateOpenID == ASSUME IInv, MigrateIdentities PROVE Rebound'
  <1> DEFINE restored == {i \in Wechat : owner[i] = NoUser /\ \E u \in Users : openid[u] = i}
  <1>1. /\ owner' = [i \in Identities |-> IF i \in restored
                                    THEN CHOOSE u \in Users : openid[u] = i ELSE owner[i]]
        /\ UNCHANGED <<pc, user, identity, view>> /\ RowsChange(restored)
        /\ UNCHANGED <<live, openid, raced>> /\ restored \in SUBSET Identities
    BY IdentitiesAssumption DEF MigrateIdentities
  <1>2. ASSUME NEW i \in restored, owner'[i] \in live PROVE owner'[i] \in raced
    <2>1. openid[owner'[i]] = i /\ i \in Wechat /\ owner[i] = NoUser
      BY <1>1
    <2>2. i \notin Owned(owner'[i]) /\ i # NoIdentity
      BY <1>2, <2>1, IdentitiesAssumption DEF Owned, IInv, TypeOK
    <2> QED BY <1>2, <2>1, <2>2 DEF IInv, OpenIDIsOwn
  <1>3. \A i \in Identities \ restored : owner'[i] = owner[i]
    BY <1>1
  <1> HIDE DEF restored
  <1>4. SeenIsCurrent'
    BY <1>1, <1>3, SeenStays DEF NoneBegins
  <1>5. OpenIDIsOwn'
    <2> SUFFICES ASSUME NEW v \in live \ raced PROVE Proper(v)'
      BY <1>1 DEF OpenIDIsOwn, Proper
    <2>1. Owned(v)' = Owned(v)
      <3>1. \A i \in restored : owner[i] # v
        BY IdentitiesAssumption DEF restored, IInv, TypeOK
      <3> QED BY <1>1, <1>2, <1>3, <3>1, IdentitiesAssumption DEF Owned, IInv, TypeOK
    <2> QED BY <1>1, <2>1 DEF IInv, OpenIDIsOwn, Proper
  <1> QED BY <1>4, <1>5 DEF Rebound

\* A deletion takes the rows and the copy of one account.
LEMMA EraseOpenID == ASSUME IInv, NEW r \in Requests, Erase(r) PROVE Rebound'
  <1> DEFINE u == user[r]
  <1>1. /\ u \in Users /\ NoneBegins /\ live' = live \ {u} /\ raced' = raced
        /\ owner' = [i \in Identities |-> IF owner[i] = u THEN NoUser ELSE owner[i]]
        /\ openid' = [openid EXCEPT ![u] = NoIdentity]
        /\ RowsChange(Owned(u)) /\ Owned(u) \in SUBSET Identities
    BY ReturnBeginsNone DEF IInv, TypeOK, Erase, Owned
  <1>2. \A i \in Identities \ Owned(u) : owner'[i] = owner[i]
    BY <1>1 DEF Owned
  <1>3. SeenIsCurrent'
    BY <1>1, <1>2, SeenStays
  <1>4. OpenIDIsOwn'
    <2> SUFFICES ASSUME NEW v \in live \ raced, v # u PROVE Proper(v)'
      BY <1>1 DEF OpenIDIsOwn, Proper
    <2>1. v \in Users /\ v # NoUser /\ openid'[v] = openid[v]
      BY <1>1, IdentitiesAssumption DEF IInv, TypeOK
    <2>2. Owned(v)' = Owned(v)
      BY <1>1, <2>1 DEF Owned
    <2> QED BY <2>1, <2>2 DEF IInv, OpenIDIsOwn, Proper
  <1> QED BY <1>3, <1>4 DEF Rebound

\* A rebinding begins with the rows as they are.
LEMMA FindOpenID ==
  ASSUME IInv, NEW r \in Requests, NEW u \in Users, NEW i \in Identities, FindForTransfer(r, u, i)
  PROVE  Rebound'
  <1>1. /\ Start(r, "transfer", u, i) /\ view' = [view EXCEPT ![r] = owner] /\ owner[i] # u
        /\ RowsChange({}) /\ UNCHANGED <<owner, openid, raced, live>>
    BY DEF FindForTransfer, NothingWritten
  <1>2. SeenIsCurrent'
    <2> SUFFICES ASSUME NEW q \in Requests, pc'[q] = "transfer"
                 PROVE  /\ view'[q][identity'[q]] # user'[q]
                        /\ \A j \in Identities \ changed'[q] : view'[q][j] = owner'[j]
      BY DEF SeenIsCurrent
    <2>1. CASE q = r
      BY <1>1, <2>1 DEF Start, IInv, TypeOK
    <2>2. CASE q # r
      <3>1. /\ pc[q] = "transfer" /\ user'[q] = user[q]
            /\ identity'[q] = identity[q] /\ view'[q] = view[q]
        BY <1>1, <2>2 DEF Start, IInv, TypeOK
      <3>2. changed'[q] = changed[q]
        BY <1>1, <3>1 DEF RowsChange
      <3> QED BY <1>1, <3>1, <3>2 DEF IInv, SeenIsCurrent
    <2> QED BY <2>1, <2>2
  <1> QED BY <1>1, <1>2, OpenIDStays DEF Rebound

\* Every step keeps both.
LEMMA StepRebound == IInv /\ [Next]_vars => Rebound'
  <1> SUFFICES ASSUME IInv, [Next]_vars PROVE Rebound'
    OBVIOUS
  <1>0. TypeOK
    BY DEF IInv
  <1>1. ASSUME NoneBegins, NothingWritten PROVE Rebound'
    <2>1. RowsChange({}) /\ UNCHANGED <<owner, openid, raced, live>>
      BY <1>1 DEF NothingWritten
    <2> QED BY <1>1, <2>1, SeenStays, OpenIDStays DEF Rebound
  <1>2. ASSUME NoneBegins, UNCHANGED <<owner, changed, openid, raced, live>> PROVE Rebound'
    BY <1>2, SeenKept, OpenIDStays DEF Rebound
  <1>3. ASSUME NoneBegins, NEW i \in Identities, NEW u \in Users, SetOwner(i, u) PROVE SeenIsCurrent'
    <2>1. RowsChange({i}) /\ \A j \in Identities \ {i} : owner'[j] = owner[j]
      BY <1>0, <1>3 DEF SetOwner, TypeOK
    <2> QED BY <1>3, <2>1, SeenStays
  <1>4. ASSUME NEW r \in Requests, Login(r) PROVE Rebound'
    <2>1. ASSUME \/ \E i \in Identities : FindUser(r, i)
                 \/ InHistory(r) \/ HasOwner(r) \/ CreateUserFails(r)
          PROVE  Rebound'
      <3>1. NoneBegins
        BY <1>0, <2>1, ReturnBeginsNone, OthersBeginNone
           DEF FindUser, InHistory, HasOwner, CreateUserFails
      <3> QED BY <1>1, <2>1, <3>1 DEF FindUser, InHistory, HasOwner, CreateUserFails
    <2>2. CASE RecordHistory(r)
      <3>1. NoneBegins
        BY <1>0, <2>2, ReturnBeginsNone DEF RecordHistory
      <3> QED BY <1>2, <2>2, <3>1 DEF RecordHistory
    <2>3. ASSUME NEW u \in Users, NewUser(r, u), NoneBegins PROVE Rebound'
      <3>1. /\ identity[r] \in Identities /\ owner[identity[r]] = NoUser
            /\ SetOwner(identity[r], u) /\ openid' = WithOpenID(u, identity[r])
            /\ live' = live \cup {u} /\ raced' = raced
        BY <1>0, <2>3 DEF NewUser, Insertable, TypeOK
      <3>2. owner' = [owner EXCEPT ![identity[r]] = u]
        BY <3>1 DEF SetOwner
      <3> QED BY <1>3, <2>3, <3>1, <3>2, OpenIDComes DEF Rebound
    <2>4. ASSUME NEW u \in Users, CreateUser(r, u) PROVE Rebound'
      BY <1>0, <2>3, <2>4, OthersBeginNone DEF CreateUser
    <2>5. ASSUME NEW u \in Users, CommitReplyLost(r, u) PROVE Rebound'
      BY <1>0, <2>3, <2>5, ReturnBeginsNone DEF CommitReplyLost
    <2> QED BY <1>4, <2>1, <2>2, <2>4, <2>5 DEF Login
  <1>5. ASSUME NEW r \in Requests, Bind(r) PROVE Rebound'
    <2>1. ASSUME NEW u \in Users, NEW i \in Identities, FindForLink(r, u, i) PROVE Rebound'
      BY <1>0, <1>1, <2>1, OthersBeginNone DEF FindForLink
    <2>2. CASE LinkIdentity(r)
      <3>1. NoneBegins /\ user[r] \in Users /\ identity[r] \in Identities
        BY <1>0, <2>2, ReturnBeginsNone DEF LinkIdentity, TypeOK
      <3>2. CASE NothingWritten
        BY <1>1, <3>1, <3>2
      <3>3. CASE /\ user[r] \in live /\ Insertable(user[r], identity[r])
                 /\ openid' = WithOpenID(user[r], identity[r]) /\ SetOwner(identity[r], user[r])
                 /\ UNCHANGED <<accounts, history, tickets, raced>>
        <4>1. /\ owner[identity[r]] = NoUser /\ owner' = [owner EXCEPT ![identity[r]] = user[r]]
              /\ live' = live /\ raced' = raced
          BY <3>3 DEF Insertable, SetOwner
        <4> QED BY <1>3, <3>1, <3>3, <4>1, OpenIDComes DEF Rebound
      <3> QED BY <2>2, <3>2, <3>3 DEF LinkIdentity
    <2>3. CASE TransferThirdPartyIdentity(r)
      <3>1. NoneBegins /\ user[r] \in Users /\ identity[r] \in Identities
        BY <1>0, <2>3, ReturnBeginsNone DEF TransferThirdPartyIdentity, TypeOK
      <3>2. NothingWritten \/ SetOwner(identity[r], user[r])
        BY <2>3 DEF TransferThirdPartyIdentity
      <3> QED BY <1>1, <1>3, <2>3, <3>1, <3>2, TransferOpenID DEF Rebound
    <2> QED BY <1>5, <2>1, <2>2, <2>3, FindOpenID DEF Bind
  <1>6. ASSUME NEW r \in Requests, Delete(r) PROVE Rebound'
    <2>1. ASSUME NEW u \in Users, Archive(r, u) PROVE Rebound'
      BY <1>0, <1>2, <2>1, OthersBeginNone DEF Archive
    <2> QED BY <1>6, <2>1, EraseOpenID DEF Delete
  <1>7. ASSUME NEW r \in Requests, CallFails(r) PROVE Rebound'
    BY <1>0, <1>1, <1>7, ReturnBeginsNone DEF CallFails
  <1>8. ASSUME NEW u \in Users, CreateAccount(u) PROVE Rebound'
    <2>1. UNCHANGED <<owner, changed, openid, raced>> /\ live' = live \cup {u} /\ NoneBegins
      BY <1>8 DEF CreateAccount, NoneBegins
    <2>2. ASSUME NEW v \in live \cup {u}, v \notin raced PROVE Proper(v)'
      <3>1. Proper(v)
        BY <1>0, <2>2, StrangersHaveNone DEF IInv, OpenIDIsOwn, Proper
      <3> QED BY <2>1, <3>1 DEF Proper, Owned
    <2> QED BY <2>1, <2>2, SeenKept DEF Rebound, OpenIDIsOwn, Proper
  <1>9. CASE \/ \E u \in Users : ArchiveFails(u)
             \/ \E u \in Users, i \in Identities : MergeOrLink(u, i)
             \/ \E t \in tickets : TicketExpires(t)
             \/ MigrateHistory \/ UNCHANGED vars
    BY <1>2, <1>9 DEF ArchiveFails, MergeOrLink, TicketExpires, MigrateHistory, vars, NoneBegins
  <1>10. CASE Crash
    BY <1>10, OpenIDStays DEF Crash, Rebound, SeenIsCurrent
  <1> QED BY <1>4, <1>5, <1>6, <1>7, <1>8, <1>9, <1>10, MigrateOpenID DEF Next

\* Every step keeps the invariant.
LEMMA StepIInv == IInv /\ [Next]_vars => IInv'
  BY StepTypeOK, StepRemembered, StepRebound DEF IInv, Remembered, Rebound

-----------------------------------------------------------------------------
(***************************************************************************)
(* What users may rely on.                                                 *)
(***************************************************************************)
\* An identity that had an account and has none is in the history.
THEOREM GoneIsRememberedAlways == Spec => []GoneIsRemembered
  <1>1. IInv => GoneIsRemembered
    BY DEF IInv
  <1> QED BY InitIInv, StepIInv, <1>1, PTL DEF Spec

\* Nobody registers a second time with an identity.
THEOREM NobodyRegistersTwice == Spec => NoSecondAccount
  <1> DEFINE Step == \A i \in ever \ late : owner[i] = NoUser => owner'[i] \in used \cup {NoUser}
  <1>1. IInv /\ [Next]_vars => [Step]_vars
    <2> SUFFICES ASSUME IInv, Next, NEW i \in ever \ late, owner[i] = NoUser
                 PROVE  owner'[i] \in used \cup {NoUser}
      OBVIOUS
    <2>1. i \in Identities /\ live \subseteq used
      BY DEF IInv, TypeOK
    <2>2. CASE owner'[i] = owner[i]
      BY <2>2
    <2>3. ASSUME NEW r \in Requests, NEW u \in Users, NewUser(r, u)
          PROVE  owner'[i] = owner[i]
      <3>1. identity[r] \in Identities /\ owner[identity[r]] = NoUser /\ pc[r] = "create"
        BY <2>3 DEF NewUser, Insertable, IInv, TypeOK
      <3>2. identity[r] # i
        BY <3>1 DEF IInv, AskedWhenNew
      <3> QED BY <2>1, <2>3, <3>2 DEF NewUser, SetOwner, IInv, TypeOK
    <2>4. ASSUME NEW r \in Requests, LinkIdentity(r) \/ TransferThirdPartyIdentity(r)
          PROVE  owner'[i] \in used \cup {NoUser}
      <3>1. CASE NothingWritten
        BY <3>1 DEF NothingWritten
      <3>2. CASE user[r] \in live /\ SetOwner(identity[r], user[r])
        BY <2>1, <3>2 DEF SetOwner, IInv, TypeOK
      <3> QED BY <2>4, <3>1, <3>2 DEF LinkIdentity, TransferThirdPartyIdentity
    <2>5. CASE MigrateIdentities
      <3>1. owner'[i] \in live \cup {NoUser}
        BY <2>1, <2>5, MigrateType DEF IInv, TypeOK, MigrateIdentities
      <3> QED BY <2>1, <3>1
    <2>6. ASSUME NEW r \in Requests, Erase(r) PROVE owner'[i] = NoUser
      BY <2>1, <2>6 DEF Erase
    <2> QED BY <2>2, <2>3, <2>4, <2>5, <2>6 DEF Next, Login, Bind, Delete, FindUser, InHistory,
            HasOwner, CreateUser, CreateUserFails, RecordHistory, CommitReplyLost, FindForLink,
            FindForTransfer, Archive, CallFails, CreateAccount, ArchiveFails, MergeOrLink,
            TicketExpires, MigrateHistory, Crash, NothingWritten
  <1> QED BY InitIInv, StepIInv, <1>1, PTL DEF Spec, NoSecondAccount

\* A user's wechat_openid is one of its own WeChat identities, if it has any,
\* unless a rebinding used rows that had changed.
THEOREM OpenIDIsOwnAlways == Spec => []OpenIDIsOwn
  <1>1. IInv => OpenIDIsOwn
    BY DEF IInv
  <1> QED BY InitIInv, StepIInv, <1>1, PTL DEF Spec

\* Columns that agree with the rows meet no key.
LEMMA OwnIsUnique ==
  ASSUME NEW column, NEW rows,
         \A v \in Users : column[v] = NoIdentity \/ rows[column[v]] = v
  PROVE  Unique(column)
  BY DEF Unique

\* A rebinding nobody interfered with writes such columns only.
LEMMA TransferFits ==
  ASSUME IInv, NEW r \in Requests, TransferThirdPartyIdentity(r),
         raced = {}, changed[r] = {}, user[r] \in live
  PROVE  owner'[identity[r]] = user[r]
  <1> DEFINE u == user[r]
             i == identity[r]
             prev == view[r][i]
             rows == [owner EXCEPT ![i] = u]
             lost(x) == IF prev = NoUser THEN openid ELSE Write(openid, prev, x)
             gained(x) == IF i \in Wechat THEN Write(lost(x), u, i) ELSE lost(x)
             synced(x, y) == Write(gained(x), u, y)
             Agree(column) == \A v \in Users : column[v] = NoIdentity \/ rows[column[v]] = v
             Typed(column) == column \in [Users -> Wechat \cup {NoIdentity}]
  <1>1. /\ u \in Users /\ i \in Identities /\ Wechat \subseteq Identities
        /\ view[r] \in [Identities -> Users \cup {NoUser}] /\ prev = owner[i] /\ prev # u
        /\ \A j \in Identities : view[r][j] = owner[j]
        /\ owner \in [Identities -> live \cup {NoUser}]
    BY IdentitiesAssumption DEF TransferThirdPartyIdentity, IInv, TypeOK, SeenIsCurrent
  <1>2. Typed(openid) /\ \A v \in Users : openid[v] = NoIdentity \/ owner[openid[v]] = v
    BY DEF IInv, TypeOK, OpenIDIsOwn, Owned
  <1>3. /\ SeenWechat(r, u) \subseteq {j \in Wechat : rows[j] = u}
        /\ prev # NoUser => SeenWechat(r, prev) \subseteq {j \in Wechat : rows[j] = prev}
    BY <1>1 DEF SeenWechat
  <1>4. ASSUME NEW x \in Wechat \cup {NoIdentity}, NEW y \in Wechat \cup {NoIdentity},
               prev # NoUser => Sync(r, prev, openid, x), Sync(r, u, gained(x), y)
        PROVE  Unique(lost(x)) /\ Unique(gained(x)) /\ Unique(synced(x, y))
    <2>1. /\ prev # NoUser /\ x # NoIdentity => rows[x] = prev
          /\ y # NoIdentity => rows[y] = u
      BY <1>3, <1>4 DEF Sync
    <2>2. Typed(lost(x)) /\ Agree(lost(x))
      <3>1. CASE prev = NoUser
        BY <1>1, <1>2, <3>1, IdentitiesAssumption
      <3>2. CASE prev # NoUser
        <4>1. /\ Typed(lost(x)) /\ lost(x)[prev] = x
              /\ \A v \in Users \ {prev} : lost(x)[v] = openid[v]
          BY <1>1, <1>2, <3>2 DEF Write
        <4> HIDE DEF lost
        <4> QED BY <1>1, <1>2, <2>1, <3>2, <4>1, IdentitiesAssumption
      <3> QED BY <3>1, <3>2
    <2> HIDE DEF lost
    <2>3. Typed(gained(x)) /\ Agree(gained(x))
      BY <1>1, <2>2 DEF Write
    <2> HIDE DEF gained
    <2>4. Agree(synced(x, y))
      BY <1>1, <2>1, <2>3 DEF Write
    <2> HIDE DEF rows, synced
    <2> QED BY <2>2, <2>3, <2>4, OwnIsUnique
  <1>5. SetOwner(i, u)
    BY <1>1, <1>4 DEF TransferThirdPartyIdentity
  <1> QED BY <1>1, <1>5 DEF SetOwner

\* A confirmed rebinding takes effect.
THEOREM RebindingTakesEffect == Spec => RebindingWorks
  <1> DEFINE Step == \A r \in Requests :
                       \/ pc[r] # "transfer" \/ pc'[r] = "transfer" \/ bounds' # bounds
                       \/ raced # {} \/ changed[r] # {} \/ user[r] \notin live
                       \/ owner'[identity[r]] = user[r]
  <1>1. IInv /\ [Next]_vars => [Step]_vars
    <2> SUFFICES ASSUME IInv, Next, NEW r \in Requests, pc[r] = "transfer", pc'[r] # "transfer",
                        bounds' = bounds, raced = {}, changed[r] = {}, user[r] \in live
                 PROVE  owner'[identity[r]] = user[r]
      OBVIOUS
    <2>1. TypeOK /\ UNCHANGED <<faults, crashes>>
      BY DEF IInv
    <2>2. ASSUME NEW q \in Requests, pc[q] # "transfer",
                 \/ Return(q) \/ \E label : Goto(q, label)
                 \/ \E label, u, i : Start(q, label, u, i)
          PROVE  FALSE
      BY <2>1, <2>2 DEF Return, Goto, Start, TypeOK
    <2>3. ASSUME NEW q \in Requests, Login(q) PROVE FALSE
      <3>1. \/ Return(q) \/ \E label : Goto(q, label)
            \/ \E label, u, i : Start(q, label, u, i)
        BY <2>3 DEF Login, FindUser, InHistory, HasOwner, CreateUserFails, RecordHistory,
           CreateUser, CommitReplyLost
      <3>2. pc[q] # "transfer"
        BY <2>3 DEF Login, FindUser, InHistory, HasOwner, CreateUserFails, RecordHistory,
           CreateUser, CommitReplyLost, NewUser, Start
      <3> QED BY <2>2, <3>1, <3>2
    <2>4. ASSUME NEW q \in Requests, Bind(q), ~TransferThirdPartyIdentity(q) PROVE FALSE
      <3>1. Return(q) \/ \E label, u, i : Start(q, label, u, i)
        BY <2>4 DEF Bind, FindForLink, FindForTransfer, LinkIdentity
      <3>2. pc[q] # "transfer"
        BY <2>4 DEF Bind, FindForLink, FindForTransfer, LinkIdentity, Start
      <3> QED BY <2>2, <3>1, <3>2
    <2>5. ASSUME NEW q \in Requests, Delete(q) PROVE FALSE
      <3>1. Return(q) \/ \E label, u, i : Start(q, label, u, i)
        BY <2>5 DEF Delete, Erase, Archive
      <3>2. pc[q] # "transfer"
        BY <2>5 DEF Delete, Erase, Archive, Start
      <3> QED BY <2>2, <3>1, <3>2
    <2>6. ASSUME NEW q \in Requests, TransferThirdPartyIdentity(q)
          PROVE  owner'[identity[r]] = user[r]
      <3>1. q = r
        BY <2>1, <2>6 DEF TransferThirdPartyIdentity, Return, TypeOK
      <3> QED BY <2>6, <3>1, TransferFits
    <2>7. pc' = pc \/ \E q \in Requests : Login(q) \/ Bind(q) \/ Delete(q)
      BY <2>1 DEF Next, CallFails, Fault, CreateAccount, ArchiveFails, MergeOrLink, TicketExpires,
         MigrateIdentities, MigrateHistory, Crash, TypeOK
    <2> QED BY <2>3, <2>4, <2>5, <2>6, <2>7
  <1> QED BY InitIInv, StepIInv, <1>1, PTL DEF Spec, RebindingWorks
=============================================================================
