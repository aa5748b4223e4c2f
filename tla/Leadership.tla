----------------------------- MODULE Leadership -----------------------------
(***************************************************************************)
(* The fenced leadership lease of one trading session: the row of          *)
(* orchestration_leases in PostgreSQL (daybreak_orchestration/             *)
(* leadership.py), and the copy of it that every orchestrator process      *)
(* keeps (SessionOrchestrator._lease, service.py).                         *)
(*                                                                         *)
(* Time is a number of ticks.  now is the true time; a process reads its   *)
(* own clock, which is ahead of now by a fixed skew of at most MaxSkew.  A *)
(* call hands the repository a timestamp that its caller read at most      *)
(* MaxDelay ticks before the statement reaches the database.               *)
(*                                                                         *)
(* acquire and renew are two transactions: the statement on the row, and   *)
(* then the audit event.  Only when the second is through does the caller  *)
(* get the lease that the first one returned.                              *)
(***************************************************************************)
EXTENDS Integers

CONSTANTS Holder,         \* the orchestrator processes (holder_id)
          NoHolder,       \* the holder of a lease nobody has asked for yet
          Ttl,            \* leadership_ttl_seconds
          RenewInterval,  \* leadership_renew_interval_seconds
          MaxSkew,        \* bound on the difference of two process clocks
          MaxDelay,       \* bound on the age of a timestamp handed to the database
          MaxTime,        \* bound of the model: the last tick of the clock
          MaxToken        \* bound of the model: how often the lease is granted

ASSUME LeadershipAssumption ==
  /\ NoHolder \notin Holder
  /\ Ttl \in Nat \ {0}
  /\ RenewInterval \in Nat \ {0}
  /\ MaxSkew \in Nat
  /\ MaxDelay \in Nat
  /\ MaxTime \in Nat
  /\ MaxToken \in Nat

\* OrchestrationPolicy.times_are_monotonic only asks that the renew interval is
\* below the TTL.  A cached check is sound when it also leaves room for the
\* clock skew and for the delay of a call.
ASSUME LeaseMargin == RenewInterval + MaxSkew + MaxDelay =< Ttl

VARIABLES now,   \* true time
          skew,  \* how far each process's clock is ahead of now
          row,   \* the row of orchestration_leases for the session
          held,  \* _lease of each process; token 0 when it is None
          asked  \* the lease a statement returned, while its audit event is due

leaseVars == <<now, skew, row, held, asked>>

NoLease == [token |-> 0, renewed |-> 0, expires |-> 0]
NoRow   == [holder |-> NoHolder, token |-> 0, renewed |-> 0, expires |-> 0,
            active |-> FALSE]

Lease == [token : Nat, renewed : Nat, expires : Nat]
Row   == [holder : Holder \cup {NoHolder}, token : Nat, renewed : Nat,
          expires : Nat, active : BOOLEAN]

Clock(h) == now + skew[h]

\* The timestamps a call of h that reaches the database now may carry.
Readings(h) == {ts \in 0 .. Clock(h) : Clock(h) - ts =< MaxDelay}

HasLease(h) == held[h].token > 0

\* A statement has returned a lease and the audit event is not written yet.
Asking(h) == asked[h].token > 0

LeaseOf(r) == [token |-> r.token, renewed |-> r.renewed, expires |-> r.expires]

LeaseInit ==
  /\ now = 0
  /\ skew \in [Holder -> 0 .. MaxSkew]
  /\ row = NoRow
  /\ held = [h \in Holder |-> NoLease]
  /\ asked = [h \in Holder |-> NoLease]

-----------------------------------------------------------------------------
(* PostgresLeadershipRepository: each statement is one atomic update.      *)

\* Broken variant: compares with the wrong column, the time of the last renewal.
MayAcquireByRenewal(ts) == ~ row.active \/ row.renewed =< ts

\* The WHERE clause of the upsert in acquire.  The first INSERT is the case of
\* the row that is not there yet (NoRow is inactive and has token 0).
MayAcquire(ts) == ~ row.active \/ row.expires =< ts

\* Broken variant: a takeover keeps the fencing token of the row.
AcquiredRowSameToken(h, ts) ==
  [holder |-> h, token |-> IF row.token = 0 THEN 1 ELSE row.token,
   renewed |-> ts, expires |-> ts + Ttl, active |-> TRUE]

AcquiredRow(h, ts) ==
  [holder |-> h, token |-> row.token + 1, renewed |-> ts, expires |-> ts + Ttl,
   active |-> TRUE]

\* The upsert of acquire, committed.
Acquire(h, ts) ==
  /\ ~ HasLease(h) /\ ~ Asking(h)
  /\ row.token < MaxToken
  /\ MayAcquire(ts)
  /\ row' = AcquiredRow(h, ts)
  /\ asked' = [asked EXCEPT ![h] = LeaseOf(row')]
  /\ UNCHANGED <<now, skew, held>>

\* Broken variant: identifies the row by the session alone.
MayRenewAnyLease(h, ts) == row.active /\ row.expires > ts

\* The WHERE clause of the update in renew.
MayRenew(h, ts) ==
  /\ row.holder = h
  /\ row.token = held[h].token
  /\ row.active
  /\ row.expires > ts

RenewedRow(ts) ==
  [holder |-> row.holder, token |-> row.token, renewed |-> ts, expires |-> ts + Ttl,
   active |-> row.active]

\* Broken variant: once the leader, always the leader.
CachedCheckAlways(h, ts) == HasLease(h)

\* _renew_leadership answers from memory while the last renewal is recent.
CachedCheck(h, ts) ==
  /\ HasLease(h)
  /\ ts - held[h].renewed < RenewInterval

\* _renew_leadership: the interval has passed.  The update of renew, committed.
Renew(h, ts) ==
  /\ HasLease(h) /\ ~ Asking(h)
  /\ ~ CachedCheck(h, ts)
  /\ MayRenew(h, ts)
  /\ row' = RenewedRow(ts)
  /\ asked' = [asked EXCEPT ![h] = LeaseOf(row')]
  /\ UNCHANGED <<now, skew, held>>

\* _save_lease_event stores the audit event: the caller gets its lease.
Audit(h) ==
  /\ Asking(h)
  /\ held' = [held EXCEPT ![h] = asked[h]]
  /\ asked' = [asked EXCEPT ![h] = NoLease]
  /\ UNCHANGED <<now, skew, row>>

\* _save_lease_event raises: the caller keeps the copy it had, if any.  A lease
\* acquired this way is nobody's to release.
AuditRaises(h) ==
  /\ Asking(h)
  /\ asked' = [asked EXCEPT ![h] = NoLease]
  /\ UNCHANGED <<now, skew, row, held>>

\* release: deactivates the row if it is still this lease's; the process is
\* done with its copy either way, whatever becomes of the audit event.
ReleasedRow(h, ts) ==
  IF row.holder = h /\ row.token = held[h].token /\ row.active
  THEN [row EXCEPT !.active = FALSE, !.renewed = ts, !.expires = ts]
  ELSE row

Release(h, ts) ==
  /\ HasLease(h) /\ ~ Asking(h)
  /\ row' = ReleasedRow(h, ts)
  /\ held' = [held EXCEPT ![h] = NoLease]
  /\ UNCHANGED <<now, skew, asked>>

\* The process dies: its copies are gone, the row stays until it expires.
LeaseCrash(h) ==
  /\ HasLease(h) \/ Asking(h)
  /\ held' = [held EXCEPT ![h] = NoLease]
  /\ asked' = [asked EXCEPT ![h] = NoLease]
  /\ UNCHANGED <<now, skew, row>>

Tick ==
  /\ now < MaxTime
  /\ now' = now + 1
  /\ UNCHANGED <<skew, row, held, asked>>

LeaseNext ==
  \/ Tick
  \/ \E h \in Holder : Audit(h) \/ AuditRaises(h) \/ LeaseCrash(h)
  \/ \E h \in Holder : \E ts \in Readings(h) :
       Acquire(h, ts) \/ Renew(h, ts) \/ Release(h, ts)

LeaseSpec == LeaseInit /\ [][LeaseNext]_leaseVars

-----------------------------------------------------------------------------
(* Properties.                                                             *)

\* Types of the lease row, of the processes' copies and of the clocks.
LeaseTypeOK ==
  /\ now \in Nat
  /\ skew \in [Holder -> 0 .. MaxSkew]
  /\ row \in Row
  /\ held \in [Holder -> Lease]
  /\ asked \in [Holder -> Lease]

\* Whenever _renew_leadership would answer from memory (service.py:356-359), the
\* database row still is this process's: skipping the round trip never lets a
\* deposed process take itself for the leader.
CachedCheckSound ==
  \A h \in Holder : \A ts \in Readings(h) :
    CachedCheck(h, ts) => /\ row.holder = h
                          /\ row.token = held[h].token
                          /\ row.active

\* Of two leases that processes hold at once, the older one has run out by its
\* holder's own clock, give or take MaxSkew (the WHERE clause of acquire compares
\* timestamps of two clocks): with clocks that agree no two leases are unexpired
\* together, otherwise they overlap by less than the skew.
ExclusiveLease ==
  \A h, g \in Holder :
    (HasLease(h) /\ HasLease(g) /\ h # g)
      => /\ held[h].token # held[g].token
         /\ held[h].token < held[g].token => held[h].expires =< Clock(h) + MaxSkew
=============================================================================
