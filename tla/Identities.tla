----------------------------- MODULE Identities -----------------------------
(***************************************************************************)
(* Whose account a third-party identity opens: first logins that create    *)
(* the account, linking, the rebinding of an identity of another account   *)
(* with a ticket, deletion, and the history that keeps a deleted account's *)
(* identity from registering again (internal/store/identities.go,          *)
(* merge.go, referral_invite.go, internal/api/server.go, rebind_*.go).     *)
(*                                                                         *)
(* The table user_identities is owner: a row per identity, whose key is    *)
(* unique.  users.wechat_openid, unique too, is a copy of one WeChat       *)
(* identity of the user.  Transactions are REPEATABLE READ: what they read *)
(* is the state of their first query and their own writes, what they write *)
(* meets the keys as they are; a transaction that writes does so in one    *)
(* step, the commit, and one that meets a key or a missing user changes    *)
(* nothing.                                                                *)
(*                                                                         *)
(* Left out: the exchange of a code for the identity (another service),    *)
(* the referral work after a registration, tokens, MergeUserAbsorb and     *)
(* GetUserByWechatOpenID, which nothing calls, and the reuse of an id by   *)
(* AdminCreateUser.                                                        *)
(***************************************************************************)
EXTENDS Naturals, FiniteSets

CONSTANTS
  Users,        \* bound: the ids AUTO_INCREMENT gives out
  NoUser,
  Identities,   \* (provider, subject)
  Wechat,       \* those of provider wechat
  NoIdentity,
  Requests,     \* handlers that may run at the same time
  MaxTickets,   \* bound: tickets good at the same time
  MaxFaults,    \* bound: failing calls
  MaxCrashes    \* bound: restarts of the server

ASSUME IdentitiesAssumption ==
  /\ NoUser \notin Users
  /\ Wechat \subseteq Identities
  /\ NoIdentity \notin Identities
  /\ MaxTickets \in Nat /\ MaxFaults \in Nat /\ MaxCrashes \in Nat

VARIABLES
  live,          \* the accounts
  used,          \* ids given out so far
  owner,         \* user_identities
  openid,        \* users.wechat_openid
  history,       \* registered_identity_history
  tickets,       \* rebind tickets in clients' hands: <<user, identity>>
  pc, user, identity,  \* where each request is, for whom and about what
  view,          \* user_identities as a rebinding saw it
  changed,       \* and the rows that changed since
  ever,          \* history variable: identities that ever had an account
  late,          \* history variable: identities bound to an account after it
                 \* was archived, or deleted during a first login
  raced,         \* history variable: users whose rows a rebinding saw stale
  faults, crashes

accounts == <<live, used>>
requests == <<pc, user, identity, view, changed>>
ghosts == <<ever, late, raced>>
bounds == <<faults, crashes>>
vars == <<accounts, owner, openid, history, tickets, requests, ghosts, bounds>>

Labels == {"idle", "history", "owner", "create", "record", "link", "transfer", "erase"}

TypeOK ==
  /\ used \subseteq Users /\ live \subseteq used
  /\ owner \in [Identities -> live \cup {NoUser}]
  /\ \A i \in Identities : owner[i] # NoUser => i \in ever
  /\ openid \in [Users -> Wechat \cup {NoIdentity}]
  /\ \A u \in Users \ live : openid[u] = NoIdentity
  /\ history \subseteq Identities
  /\ tickets \subseteq Users \X Identities
  /\ pc \in [Requests -> Labels]
  /\ user \in [Requests -> Users \cup {NoUser}]
  /\ identity \in [Requests -> Identities \cup {NoIdentity}]
  /\ \A r \in Requests :
       /\ pc[r] \in {"history", "owner", "create", "record", "link", "transfer"}
            <=> identity[r] \in Identities
       /\ pc[r] \in {"link", "transfer", "erase"} <=> user[r] \in Users
  /\ view \in [Requests -> [Identities -> Users \cup {NoUser}]]
  /\ changed \in [Requests -> SUBSET Identities]
  /\ ever \subseteq Identities /\ late \subseteq ever /\ raced \subseteq Users
  /\ faults \in Nat /\ crashes \in Nat

NoRows == [i \in Identities |-> NoUser]

Init ==
  /\ live = {} /\ used = {}
  /\ owner = NoRows
  /\ openid = [u \in Users |-> NoIdentity]
  /\ history = {} /\ tickets = {}
  /\ pc = [r \in Requests |-> "idle"]
  /\ user = [r \in Requests |-> NoUser]
  /\ identity = [r \in Requests |-> NoIdentity]
  /\ view = [r \in Requests |-> NoRows]
  /\ changed = [r \in Requests |-> {}]
  /\ ever = {} /\ late = {} /\ raced = {}
  /\ faults = 0 /\ crashes = 0

Owned(u) == {i \in Identities : owner[i] = u}

\* Two users never have the same wechat_openid.
Unique(column) ==
  \A u, v \in Users : column[u] = column[v] => u = v \/ column[u] = NoIdentity

-----------------------------------------------------------------------------
(***************************************************************************)
(* Steps of a request.                                                     *)
(***************************************************************************)
Start(r, label, u, i) ==
  /\ pc[r] = "idle"
  /\ pc' = [pc EXCEPT ![r] = label]
  /\ user' = [user EXCEPT ![r] = u]
  /\ identity' = [identity EXCEPT ![r] = i]

Goto(r, label) ==
  /\ pc' = [pc EXCEPT ![r] = label]
  /\ UNCHANGED <<user, identity, view>>

Return(r) ==
  /\ pc' = [pc EXCEPT ![r] = "idle"]
  /\ user' = [user EXCEPT ![r] = NoUser]
  /\ identity' = [identity EXCEPT ![r] = NoIdentity]
  /\ view' = [view EXCEPT ![r] = NoRows]

\* The rows of these identities are no longer the ones a rebinding saw.
RowsChange(rows) ==
  changed' = [r \in Requests |-> IF pc[r] = "transfer" /\ pc'[r] = "transfer"
                                 THEN changed[r] \cup rows ELSE {}]

\* The account is archived and about to be deleted.
Doomed(u) == \E r \in Requests : pc[r] = "erase" /\ user[r] = u

SetOwner(i, u) ==
  /\ owner' = [owner EXCEPT ![i] = u]
  /\ ever' = ever \cup {i}
  /\ late' = IF Doomed(u) THEN late \cup ({i} \ history) ELSE late
  /\ RowsChange({i})

NothingWritten ==
  /\ UNCHANGED <<accounts, owner, openid, history, tickets, ghosts>>
  /\ RowsChange({})

\* An account without identities: a phone registration, or one the operator
\* creates.
CreateAccount(u) ==
  /\ u \notin used
  /\ live' = live \cup {u} /\ used' = used \cup {u}
  /\ UNCHANGED <<owner, openid, history, tickets, requests, ghosts, bounds>>

-----------------------------------------------------------------------------
(***************************************************************************)
(* Login (EnsureUserForIdentity).  An identity somebody owns opens that    *)
(* account and changes nothing; another one is asked after in the history, *)
(* then once more among the owners, before the account is created.         *)
(***************************************************************************)
FindUser(r, i) ==
  /\ owner[i] = NoUser
  /\ Start(r, "history", NoUser, i)
  /\ NothingWritten /\ UNCHANGED <<view, bounds>>

\* Variant: the history is not asked.
IgnoreHistory(r) ==
  /\ pc[r] = "history"
  /\ Goto(r, "owner")
  /\ NothingWritten /\ UNCHANGED bounds

InHistory(r) ==
  /\ pc[r] = "history"
  /\ \/ identity[r] \in history /\ Return(r)       \* refused
     \/ identity[r] \notin history /\ Goto(r, "owner")
  /\ NothingWritten /\ UNCHANGED bounds

HasOwner(r) ==
  /\ pc[r] = "owner"
  /\ \/ owner[identity[r]] # NoUser /\ Return(r)   \* refused
     \/ owner[identity[r]] = NoUser /\ Goto(r, "create")
  /\ NothingWritten /\ UNCHANGED bounds

\* INSERT of the user and of the identity, wechat_openid with it.
Insertable(u, i) ==
  /\ owner[i] = NoUser
  /\ i \in Wechat => Unique([openid EXCEPT ![u] = i])

WithOpenID(u, i) == IF i \in Wechat THEN [openid EXCEPT ![u] = i] ELSE openid

\* The account of this login.
NewUser(r, u) ==
  /\ pc[r] = "create" /\ u \notin used
  /\ Insertable(u, identity[r])
  /\ live' = live \cup {u} /\ used' = used \cup {u}
  /\ openid' = WithOpenID(u, identity[r])
  /\ SetOwner(identity[r], u)
  /\ UNCHANGED <<history, tickets, raced>>

CreateUser(r, u) == Goto(r, "record") /\ NewUser(r, u) /\ UNCHANGED bounds

\* Somebody else's insert came first.
CreateUserFails(r) ==
  /\ pc[r] = "create" /\ Return(r)
  /\ owner[identity[r]] # NoUser \/ \E u \in Users : openid[u] = identity[r]
  /\ NothingWritten /\ UNCHANGED bounds

RecordHistory(r) ==
  /\ pc[r] = "record" /\ Return(r)
  /\ history' = history \cup {identity[r]}
  /\ UNCHANGED <<accounts, owner, openid, tickets, changed, ghosts, bounds>>

-----------------------------------------------------------------------------
(***************************************************************************)
(* Linking and rebinding by a logged-in user.                              *)
(***************************************************************************)
\* LinkIdentity finds that nobody has the identity; for one that somebody
\* has it changes nothing.
FindForLink(r, u, i) ==
  /\ u \in live /\ owner[i] = NoUser
  /\ Start(r, "link", u, i)
  /\ NothingWritten /\ UNCHANGED <<view, bounds>>

LinkIdentity(r) ==
  LET u == user[r]  i == identity[r] IN
  /\ pc[r] = "link" /\ Return(r)
  /\ \/ /\ u \in live /\ Insertable(u, i)
        /\ openid' = WithOpenID(u, i)
        /\ SetOwner(i, u)
        /\ UNCHANGED <<accounts, history, tickets, raced>>
     \/ ~(u \in live /\ Insertable(u, i)) /\ NothingWritten
  /\ UNCHANGED bounds

\* mergeOrLinkIdentity: an identity of somebody else earns a ticket; one of
\* nobody is linked as above.
MergeOrLink(u, i) ==
  /\ Cardinality(tickets) < MaxTickets
  /\ u \in live /\ owner[i] \notin {u, NoUser}
  /\ tickets' = tickets \cup {<<u, i>>}
  /\ UNCHANGED <<accounts, owner, openid, history, requests, ghosts, bounds>>

\* Ten minutes are over; until then a ticket may be used more than once.
TicketExpires(t) ==
  /\ tickets' = tickets \ {t}
  /\ UNCHANGED <<accounts, owner, openid, history, requests, ghosts, bounds>>

\* TransferThirdPartyIdentity begins: unless the identity is the user's own.
FindForTransfer(r, u, i) ==
  /\ <<u, i>> \in tickets /\ u \in live /\ owner[i] # u
  /\ Start(r, "transfer", u, i)
  /\ view' = [view EXCEPT ![r] = owner]
  /\ NothingWritten /\ UNCHANGED bounds

\* The WeChat identities of v a transfer sees: as they were, but for its own
\* DELETE, unless that took another row, and its own INSERT.
SeenWechat(r, v) ==
  LET i == identity[r]
      before == {j \in Wechat : view[r][j] = v} \ (IF i \in changed[r] THEN {} ELSE {i})
  IN  IF v = user[r] THEN before \cup ({i} \cap Wechat) ELSE before

\* Variant: an account that loses an identity is left without a wechat_openid.
SyncClears(r, v, column, w) == w = NoIdentity

\* Variant: the column is left as it is.
SyncKeeps(r, v, column, w) == w = column[v]

\* syncWechatOpenIDColumnTx: one of those, or NULL.
Sync(r, v, column, w) ==
  IF SeenWechat(r, v) = {} THEN w = NoIdentity ELSE w \in SeenWechat(r, v)

Write(column, v, w) == IF v \in live THEN [column EXCEPT ![v] = w] ELSE column

TransferThirdPartyIdentity(r) ==
  LET u == user[r]  i == identity[r]  prev == view[r][i]
      taken == IF prev = NoUser THEN owner[i] ELSE NoUser
  IN
  /\ pc[r] = "transfer" /\ Return(r)
  /\ \E x, y \in Wechat \cup {NoIdentity} :
       LET lost == IF prev = NoUser THEN openid ELSE Write(openid, prev, x)
           gained == IF i \in Wechat THEN Write(lost, u, i) ELSE lost
           synced == Write(gained, u, y)
           fits == u \in live /\ taken = NoUser /\ Unique(lost) /\ Unique(gained) /\ Unique(synced)
       IN /\ prev # NoUser => Sync(r, prev, openid, x)
          /\ Sync(r, u, gained, y)
          /\ \/ /\ fits
                /\ openid' = synced
                /\ SetOwner(i, u)
                /\ raced' = raced \cup {v \in {u, prev} \cap Users :
                              \E j \in changed[r] : view[r][j] = v \/ owner'[j] = v}
                /\ UNCHANGED <<accounts, history, tickets>>
             \/ ~fits /\ NothingWritten
  /\ UNCHANGED bounds

-----------------------------------------------------------------------------
(***************************************************************************)
(* Deletion, by the user or the operator: the identities are put into the  *)
(* history and then the account goes, its rows with it.                    *)
(***************************************************************************)
\* Variant: nothing is archived.
ArchiveNothing(r, u) ==
  /\ u \in live
  /\ Start(r, "erase", u, NoIdentity)
  /\ NothingWritten /\ UNCHANGED <<view, bounds>>

Archive(r, u) ==
  /\ u \in live
  /\ Start(r, "erase", u, NoIdentity)
  /\ history' = history \cup Owned(u)
  /\ UNCHANGED <<accounts, owner, openid, tickets, view, changed, ghosts, bounds>>

\* A login that has not found the identity's owner is on its way.
LoggingIn(i) == \E q \in Requests : identity[q] = i /\ pc[q] \in {"history", "owner", "create"}

\* DELETE FROM users, with what refers to the account.
Erase(r) ==
  LET u == user[r] IN
  /\ pc[r] = "erase" /\ Return(r)
  /\ live' = live \ {u}
  /\ owner' = [i \in Identities |-> IF owner[i] = u THEN NoUser ELSE owner[i]]
  /\ openid' = [openid EXCEPT ![u] = NoIdentity]
  /\ RowsChange(Owned(u))
  /\ late' = late \cup {i \in Owned(u) : LoggingIn(i)}
  /\ UNCHANGED <<used, history, tickets, ever, raced, bounds>>

-----------------------------------------------------------------------------
(***************************************************************************)
(* Every deployment may run the migrations again: WeChat users get the     *)
(* identity of their wechat_openid, and the history everybody's.           *)
(***************************************************************************)
MigrateIdentities ==
  LET restored == {i \in Wechat : owner[i] = NoUser /\ \E u \in Users : openid[u] = i} IN
  /\ restored # {}
  /\ owner' = [i \in Identities |-> IF i \in restored
                                    THEN CHOOSE u \in Users : openid[u] = i ELSE owner[i]]
  /\ ever' = ever \cup restored
  /\ late' = late \cup {i \in restored \ history : Doomed(owner'[i])}
  /\ UNCHANGED <<pc, user, identity, view>> /\ RowsChange(restored)
  /\ UNCHANGED <<accounts, openid, history, tickets, raced, bounds>>

MigrateHistory ==
  /\ history' = history \cup {i \in Identities : owner[i] # NoUser}
  /\ UNCHANGED <<accounts, owner, openid, tickets, requests, ghosts, bounds>>

-----------------------------------------------------------------------------
(***************************************************************************)
(* Failures.                                                               *)
(***************************************************************************)
Fault == faults < MaxFaults /\ faults' = faults + 1 /\ UNCHANGED crashes

\* A call fails and changes nothing; of the archive, a part may be written.
CallFails(r) ==
  /\ Fault
  /\ pc[r] # "idle" /\ Return(r)
  /\ NothingWritten

ArchiveFails(u) ==
  /\ Fault
  /\ \E part \in SUBSET Owned(u) : history' = history \cup part
  /\ UNCHANGED <<accounts, owner, openid, tickets, requests, ghosts>>

\* The account is created but the commit's reply is lost: not recorded.
CommitReplyLost(r, u) == Fault /\ Return(r) /\ NewUser(r, u)

Crash ==
  /\ crashes < MaxCrashes /\ crashes' = crashes + 1
  /\ pc' = [r \in Requests |-> "idle"]
  /\ user' = [r \in Requests |-> NoUser]
  /\ identity' = [r \in Requests |-> NoIdentity]
  /\ view' = [r \in Requests |-> NoRows]
  /\ changed' = [r \in Requests |-> {}]
  /\ UNCHANGED <<accounts, owner, openid, history, tickets, ghosts, faults>>

-----------------------------------------------------------------------------
Login(r) ==
  \/ \E i \in Identities : FindUser(r, i)
  \/ InHistory(r) \/ HasOwner(r) \/ CreateUserFails(r) \/ RecordHistory(r)
  \/ \E u \in Users : CreateUser(r, u) \/ CommitReplyLost(r, u)

Bind(r) ==
  \/ \E u \in Users, i \in Identities : FindForLink(r, u, i) \/ FindForTransfer(r, u, i)
  \/ LinkIdentity(r) \/ TransferThirdPartyIdentity(r)

Delete(r) == Erase(r) \/ \E u \in Users : Archive(r, u)

Next ==
  \/ \E r \in Requests : Login(r) \/ Bind(r) \/ Delete(r) \/ CallFails(r)
  \/ \E u \in Users : CreateAccount(u) \/ ArchiveFails(u)
  \/ \E u \in Users, i \in Identities : MergeOrLink(u, i)
  \/ \E t \in tickets : TicketExpires(t)
  \/ MigrateIdentities \/ MigrateHistory
  \/ Crash

Spec == Init /\ [][Next]_vars

-----------------------------------------------------------------------------
(***************************************************************************)
(* Properties.                                                             *)
(***************************************************************************)
\* An identity that had an account and has none is in the history, although
\* recording it at registration may fail silently (identities.go:107): the
\* deletion archives it, unless it was bound to the account meanwhile.
GoneIsRemembered == \A i \in ever : owner[i] = NoUser => i \in history \cup late

\* Why: a first login that got past the history, and an account that is
\* archived, have nothing to do with an identity that is gone and unrecorded.
AskedWhenNew ==
  \A r \in Requests :
    pc[r] \in {"owner", "create"} /\ identity[r] \in ever /\ owner[identity[r]] = NoUser
      => identity[r] \in late
ErasedWhenArchived ==
  \A r \in Requests : pc[r] = "erase" => Owned(user[r]) \subseteq history \cup late

\* wechat_openid is a WeChat identity of its user, and NULL only if there is
\* none (merge.go:138), with two of them and after either is rebound; unless
\* a rebinding used rows that had changed.
OpenIDIsOwn ==
  \A u \in live \ raced :
    IF Owned(u) \cap Wechat = {} THEN openid[u] = NoIdentity
    ELSE openid[u] \in Owned(u) \cap Wechat

\* Why: a rebinding is of another's identity, and knows all rows but those that
\* have changed.
SeenIsCurrent ==
  \A r \in Requests : pc[r] = "transfer" =>
    /\ view[r][identity[r]] # user[r]
    /\ \A i \in Identities \ changed[r] : view[r][i] = owner[i]

IInv ==
  /\ TypeOK /\ GoneIsRemembered /\ AskedWhenNew /\ ErasedWhenArchived
  /\ SeenIsCurrent /\ OpenIDIsOwn

\* So nobody registers twice with an identity (identities.go:74): no login
\* creates an account for one that had an account before.
NoSecondAccount ==
  [][\A i \in ever \ late : owner[i] = NoUser => owner'[i] \in used \cup {NoUser}]_vars

\* A confirmed rebinding takes effect (rebind_handlers.go:34): the unique key
\* of wechat_openid stops none that no other request interfered with.
RebindingWorks ==
  [][\A r \in Requests :
       \/ pc[r] # "transfer" \/ pc'[r] = "transfer" \/ bounds' # bounds
       \/ raced # {} \/ changed[r] # {} \/ user[r] \notin live
       \/ owner'[identity[r]] = user[r]]_vars
=============================================================================
