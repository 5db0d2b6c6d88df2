------------------------------ MODULE SmsQuota ------------------------------
(***************************************************************************)
(* The sliding-window counter that limits public text messages             *)
(* (internal/smsquota/window.go) and the two handlers that reserve with it *)
(* before they call the SMS gateway and undo the reservation when the      *)
(* gateway fails (api/phone_register_handlers.go:67,                       *)
(* api/password_reset_handlers.go:125).                                    *)
(*                                                                         *)
(* BeginSend and undo each hold the counter's mutex from start to end, so  *)
(* each is one step; the call of the gateway lies between them and holds   *)
(* nothing.  The counter lives in memory: a restart starts this behaviour  *)
(* over, so the model is one life of the process.  A gateway call ends     *)
(* (the HTTP client gives up) long before a stamp it made leaves the       *)
(* window.                                                                 *)
(***************************************************************************)
EXTENDS Naturals, Sequences, FiniteSets, SequencesExt

CONSTANTS
  Keys,          \* the counters: one per client address, phone and device
  Clients,
  KeysOf,        \* the keys a client's request counts against, in order
  Requests,      \* request goroutines that may be live at the same time
  NoClient,
  PerWindow,     \* smsPublicQuotaPerWindow
  Window,        \* the length of the window
  MaxSend,       \* a gateway call ends within this time
  MaxNow         \* bound: the last moment of the behaviour

ASSUME QuotaAssumption ==
  /\ KeysOf \in [Clients -> Seq(Keys)]
  /\ \A c \in Clients : IsInjective(KeysOf[c])
  /\ NoClient \notin Clients
  /\ IsFiniteSet(Requests)
  /\ PerWindow \in Nat \ {0} /\ Window \in Nat \ {0}
  /\ MaxSend \in Nat /\ MaxSend < Window
  /\ MaxNow \in Nat

VARIABLES
  now,
  events,        \* Window.events: the stamps of each key, oldest first
  client,        \* the client whose text a goroutine is sending, or NoClient
  stamp,         \* the moment of the reservation it holds
  sent,          \* history: the reservations behind the texts that were sent
  dropped        \* history: the stamps an undo dropped that were not its own

quotaVars == <<now, events, client, stamp, sent, dropped>>

QuotaTypeOK ==
  /\ now \in Nat
  /\ events \in [Keys -> Seq(Nat)]
  /\ client \in [Requests -> Clients \cup {NoClient}]
  /\ stamp \in [Requests -> Nat]
  /\ sent \in [Keys -> Seq(Nat)]
  /\ dropped \in [Keys -> Seq(Nat)]
  /\ \A r \in Requests : stamp[r] <= now /\ (client[r] = NoClient => stamp[r] = 0)
  /\ \A k \in Keys : \A i \in DOMAIN events[k] :
       events[k][i] <= now /\ \A j \in 1..i : events[k][j] <= events[k][i]

QuotaInit ==
  /\ now = 0
  /\ events = [k \in Keys |-> <<>>]
  /\ client = [r \in Requests |-> NoClient]
  /\ stamp = [r \in Requests |-> 0]
  /\ sent = [k \in Keys |-> <<>>]
  /\ dropped = [k \in Keys |-> <<>>]

-----------------------------------------------------------------------------
InWindow(t) == t + Window > now

\* The loop of pruneKey over the first stamps of ts: what it has kept of them, in
\* their order, strictly younger than the window.
Kept(ts, n) ==
  LET kept[i \in 0..n] ==
        IF i = 0 THEN <<>>
        ELSE IF InWindow(ts[i]) THEN Append(kept[i - 1], ts[i]) ELSE kept[i - 1]
  IN  kept[n]

pruneKey(ts) == Kept(ts, Len(ts))
Pruned(k) == pruneKey(events[k])

KeySet(c) == ToSet(KeysOf[c])

\* Variant: one text too many.
FullLoose(k) == Len(Pruned(k)) > PerWindow

Full(k) == Len(Pruned(k)) >= PerWindow

\* The keys the check loop reaches: it stops at the first full one.
Visited(c) ==
  {KeysOf[c][i] : i \in {j \in DOMAIN KeysOf[c] :
                           \A h \in 1..j - 1 : ~Full(KeysOf[c][h])}}

\* BeginSend of a client with room under each key, and one stamp for each.
Reserve(r, c) ==
  /\ client[r] = NoClient
  /\ \A k \in KeySet(c) : ~Full(k)
  /\ events' = [k \in Keys |-> IF k \in KeySet(c) THEN Append(Pruned(k), now)
                               ELSE events[k]]
  /\ client' = [client EXCEPT ![r] = c]
  /\ stamp' = [stamp EXCEPT ![r] = now]
  /\ UNCHANGED <<now, sent, dropped>>

\* BeginSend of a client with a full key: nothing is reserved.
Refused(r, c) ==
  /\ client[r] = NoClient
  /\ \E k \in KeySet(c) : Full(k)
  /\ events' = [k \in Keys |-> IF k \in Visited(c) THEN Pruned(k) ELSE events[k]]
  /\ UNCHANGED <<now, client, stamp, sent, dropped>>

Finish(r) ==
  /\ client' = [client EXCEPT ![r] = NoClient]
  /\ stamp' = [stamp EXCEPT ![r] = 0]
  /\ UNCHANGED now

\* The gateway takes the text: the reservation stays.
Sent(r) ==
  /\ client[r] # NoClient
  /\ sent' = [k \in Keys |-> IF k \in KeySet(client[r])
                             THEN Append(sent[k], stamp[r]) ELSE sent[k]]
  /\ Finish(r)
  /\ UNCHANGED <<events, dropped>>

\* Variant: a failed text keeps its reservation.
FailedUncredited(r) ==
  /\ client[r] # NoClient
  /\ Finish(r)
  /\ UNCHANGED <<events, sent, dropped>>

TakesAnothers(r, k) ==
  k \in KeySet(client[r]) /\ events[k] # <<>> /\ Last(events[k]) # stamp[r]

\* The gateway fails: undo drops the last stamp of each key, whosever it is.
Failed(r) ==
  /\ client[r] # NoClient
  /\ events' = [k \in Keys |-> IF k \in KeySet(client[r]) /\ events[k] # <<>>
                               THEN Front(events[k]) ELSE events[k]]
  /\ dropped' = [k \in Keys |-> IF TakesAnothers(r, k)
                                THEN Append(dropped[k], Last(events[k])) ELSE dropped[k]]
  /\ Finish(r)
  /\ UNCHANGED sent

Tick ==
  /\ now < MaxNow
  /\ \A r \in Requests : client[r] # NoClient => now < stamp[r] + MaxSend
  /\ now' = now + 1
  /\ UNCHANGED <<events, client, stamp, sent, dropped>>

QuotaNext ==
  \/ Tick
  \/ \E r \in Requests :
       \/ \E c \in Clients : Reserve(r, c) \/ Refused(r, c)
       \/ Sent(r)
       \/ Failed(r)

QuotaSpec == QuotaInit /\ [][QuotaNext]_quotaVars

-----------------------------------------------------------------------------
(***************************************************************************)
(* Properties.                                                             *)
(***************************************************************************)
Live(seq) == Cardinality({i \in DOMAIN seq : InWindow(seq[i])})

Pending(k) ==
  Cardinality({r \in Requests : /\ client[r] # NoClient
                                /\ k \in KeySet(client[r])})

\* Of the texts that went out, never more than PerWindow were reserved under one
\* key within one window, and one for each stamp of the window that an undo
\* took from another reservation: a quota that was exceeded is itself again
\* when those have left the window (window.go:78-94, sms_public_quota.go:9).
ExceededByDroppedAlone == \A k \in Keys : Live(sent[k]) <= PerWindow + Live(dropped[k])

\* The counter never holds more live stamps than texts were sent or are being
\* sent, so that a failed one costs its sender nothing, in whatever order
\* requests end; and what it holds less was taken by another's undo, so that a
\* text is not forgotten before its time (window.go:78-94).
AccountIsKept ==
  \A k \in Keys :
    LET owed == Live(sent[k]) + Pending(k)
    IN  Live(events[k]) <= owed /\ owed <= Live(events[k]) + Live(dropped[k])

(***************************************************************************)
(* Why they hold.  From any moment of the window on, the counter has no    *)
(* more stamps than there are texts sent or being sent, and lacks none but *)
(* dropped ones; no text is on its way for as long as the window; and what *)
(* BeginSend lets through leaves room.                                     *)
(***************************************************************************)
Since(seq, t) == Cardinality({i \in DOMAIN seq : seq[i] >= t})

PendingSince(k, t) ==
  Cardinality({r \in Requests : /\ client[r] # NoClient
                                /\ k \in KeySet(client[r]) /\ stamp[r] >= t})

Balanced ==
  \A k \in Keys : \A t \in 0..now : InWindow(t) =>
    LET owed == Since(sent[k], t) + PendingSince(k, t)
    IN  Since(events[k], t) <= owed /\ owed <= Since(events[k], t) + Since(dropped[k], t)

InLimit == \A k \in Keys : Live(events[k]) <= PerWindow

PendingIsRecent == \A r \in Requests : client[r] # NoClient => now <= stamp[r] + MaxSend

SentByNow == \A k \in Keys : \A i \in DOMAIN sent[k] : sent[k][i] <= now

QuotaInv == QuotaTypeOK /\ Balanced /\ InLimit /\ PendingIsRecent /\ SentByNow
=============================================================================
