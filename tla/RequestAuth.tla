----------------------------- MODULE RequestAuth -----------------------------
(***************************************************************************)
(* AuthMiddleware and the nonce store: how a request is authenticated.     *)
(*                                                                         *)
(* Every request runs in a goroutine of its own.  It reads the clock once, *)
(* before its body, which may take any time to arrive, and what it reads   *)
(* then decides both the drift check and the nonce store, so calls of      *)
(* Remember come with instants that are neither current nor in order.      *)
(* Within one process the registered keys do not change once there are     *)
(* any; a restart forgets the nonces.                                      *)
(***************************************************************************)
EXTENDS Naturals, Sequences, Functions

CONSTANTS
  Message,         \* requests that may arrive, any number of times: identity,
                   \* key, timestamp, nonce, and whether digest and signature
                   \* fit ("genuine")
  Registered,      \* the keys of the key manager
  Allowed,         \* the principal the service is bound to
  Handler,         \* goroutines that serve requests
  NoMessage,
  Drift,           \* maxTimestampDriftV2
  MaxClock,        \* bound: the instants of the clock
  MaxRestarts      \* bound: restarts of the service

ASSUME RequestAssumption ==
  /\ Drift \in Nat \ {0} /\ MaxClock \in Nat /\ MaxRestarts \in Nat
  /\ \A m \in Message : m.ts \in Nat /\ m.genuine \in BOOLEAN

VARIABLES
  clock,
  serving,         \* what each goroutine does: request, step, instant it read
  seen, order,     \* the nonce store
  accepted,        \* history of this process: accepted requests, each with
                   \* the instant it had read and the one at which Remember
                   \* accepted it
  refused,         \* history of this process: nonce keys refused as replayed
  restarts

requestVars == <<clock, serving, seen, order, accepted, refused, restarts>>
storeVars == <<seen, order>>

\* Mutant: nonces are kept for as long as a timestamp may be late.
TtlOfDrift == Drift

Idle == [msg |-> NoMessage, at |-> "idle", now |-> 0]
Ttl == 2 * Drift

NonceKey(m) == <<m.key, m.ts, m.nonce>>

-----------------------------------------------------------------------------
(* The nonce store.                                                        *)

\* evictExpiredLocked: entries leave from the front of order as long as they
\* have expired, and take along what is seen unless that is a later entry.
Expired(now) == {n \in 0 .. Len(order) : \A i \in 1 .. n : order[i].expires <= now}
EvictCount(now) == CHOOSE n \in Expired(now) : \A k \in Expired(now) : k <= n
Gone(now) ==
  {k \in DOMAIN seen : \E i \in 1 .. EvictCount(now) :
                         order[i].key = k /\ order[i].expires = seen[k]}

\* Mutant: one entry too many leaves order.
KeptButOne(now) == SubSeq(order, EvictCount(now) + 2, Len(order))

Kept(now) == SubSeq(order, EvictCount(now) + 1, Len(order))

\* Remember: evicts, then records the key unless it is there and unexpired.
Replayed(key, now) ==
  key \in DOMAIN seen \ Gone(now) /\ seen[key] > now

Remember(key, now) ==
  LET left == Restrict(seen, DOMAIN seen \ Gone(now)) IN
  IF Replayed(key, now)
    THEN seen' = left /\ order' = Kept(now)
    ELSE /\ seen' = [k \in DOMAIN left \cup {key} |->
                       IF k = key THEN now + Ttl ELSE left[k]]
         /\ order' = Append(Kept(now), [key |-> key, expires |-> now + Ttl])

-----------------------------------------------------------------------------
(* A request.                                                              *)

\* AuthMiddleware and authenticateRequest up to the drift check: the service
\* is initialized, the principal is the bound one, all headers are there, and
\* the timestamp is within the drift on either side, bounds included.
Arrive(h, m) ==
  /\ serving[h] = Idle
  /\ m.who = Allowed
  /\ clock <= m.ts + Drift /\ m.ts <= clock + Drift
  /\ serving' = [serving EXCEPT ![h] = [msg |-> m, at |-> "body", now |-> clock]]
  /\ UNCHANGED <<clock, storeVars, accepted, refused, restarts>>

\* Mutant: the nonce is recorded of requests that fail verification.
VerifyLate(h) ==
  /\ serving[h].at = "body"
  /\ serving' = [serving EXCEPT ![h] = [@ EXCEPT !.at = "nonce"]]
  /\ UNCHANGED <<clock, storeVars, accepted, refused, restarts>>

\* hashRequestBody returns, now or later; digest and signature are verified
\* with a registered key.
Verify(h) ==
  /\ serving[h].at = "body"
  /\ serving' = [serving EXCEPT ![h] =
       IF serving[h].msg.genuine /\ serving[h].msg.key \in Registered
         THEN [serving[h] EXCEPT !.at = "nonce"] ELSE Idle]
  /\ UNCHANGED <<clock, storeVars, accepted, refused, restarts>>

\* The nonce store decides; an accepted request goes on to its handler.
Decide(h) ==
  LET r == serving[h]  key == NonceKey(r.msg) IN
  /\ r.at = "nonce"
  /\ Remember(key, r.now)
  /\ IF Replayed(key, r.now)
       THEN refused' = refused \cup {key} /\ UNCHANGED accepted
       ELSE /\ accepted' = IF r.msg.genuine
                             THEN Append(accepted, [key |-> key, ts |-> r.msg.ts,
                                                    now |-> r.now, on |-> clock])
                             ELSE accepted
            /\ UNCHANGED refused
  /\ serving' = [serving EXCEPT ![h] = Idle]
  /\ UNCHANGED <<clock, restarts>>

Tick ==
  /\ clock < MaxClock /\ clock' = clock + 1
  /\ UNCHANGED <<serving, storeVars, accepted, refused, restarts>>

\* requestNonceStore is new in every process.
Restart ==
  /\ restarts < MaxRestarts /\ restarts' = restarts + 1
  /\ serving' = [h \in Handler |-> Idle]
  /\ seen' = [k \in {} |-> 0] /\ order' = << >> /\ accepted' = << >> /\ refused' = {}
  /\ UNCHANGED clock

-----------------------------------------------------------------------------
RequestInit ==
  /\ clock = 0 /\ serving = [h \in Handler |-> Idle]
  /\ seen = [k \in {} |-> 0] /\ order = << >> /\ accepted = << >> /\ refused = {}
  /\ restarts = 0

RequestNext ==
  \/ \E h \in Handler : Verify(h) \/ Decide(h) \/ \E m \in Message : Arrive(h, m)
  \/ Tick \/ Restart

RequestSpec == RequestInit /\ [][RequestNext]_requestVars

-----------------------------------------------------------------------------
\* As long as the window of its timestamp is open, a process accepts a request
\* at most once, however long bodies take and in whatever order handlers reach
\* the nonce store (nonceStore, authenticateRequest) - but for one instant: the
\* window includes both its ends, a nonce expires exactly one window after the
\* instant that was read, so what was read at the opening instant is accepted
\* again at the closing one.  Nothing is said of later instants: a copy whose
\* instant was read in the window and whose body ends after it, when the nonce
\* has been evicted, is accepted again.
AcceptedOnceInWindow ==
  \A i, j \in DOMAIN accepted :
    i < j /\ accepted[i].key = accepted[j].key =>
      \/ accepted[j].on > accepted[j].ts + Drift
      \/ /\ accepted[j].on = accepted[j].ts + Drift
         /\ accepted[i].now + Drift = accepted[i].ts

\* A request is refused as replayed only if one with its key, timestamp and
\* nonce was accepted before: requests that fail verification leave no trace
\* (authenticateRequest records the nonce last).
RefusedOnlyIfAccepted ==
  \A k \in refused : \E i \in DOMAIN accepted : accepted[i].key = k

\* Nothing stays in the nonce store for ever: everything that is seen has its
\* entry in order, by which it will be evicted (evictExpiredLocked).
SeenIsOrdered ==
  \A k \in DOMAIN seen :
    \E i \in DOMAIN order : order[i] = [key |-> k, expires |-> seen[k]]

\* The nonce store refuses what was accepted within its window, but at the last
\* instant of it, refuses nothing else, and can evict all that it holds
\* (nonceStore).
NoncesSound == AcceptedOnceInWindow /\ RefusedOnlyIfAccepted /\ SeenIsOrdered
=============================================================================
