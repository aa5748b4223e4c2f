--------------------------- MODULE SessionProofs ---------------------------
(***************************************************************************)
(* Proofs about Session and about Leadership, which it extends, for every  *)
(* number of processes and of calls of run, every TTL, renew interval, skew *)
(* and delay that leave LeaseMargin, every plan that leaves CutoffMargin    *)
(* and every set of faulty collaborators; and about Flatten, the call every *)
(* session ends in, for every set of symbols and every quantity: while no   *)
(* accepted close is reported as failed, one call never has the broker      *)
(* close more than its target, and a single call never has more closes      *)
(* outstanding than the account holds.                                      *)
(***************************************************************************)
EXTENDS Session, Flatten, TLAPS

-----------------------------------------------------------------------------
(* The lease.                                                              *)

\* What is true of a lease l that the repository returned to process h, whether
\* h has learned of it yet or not: it was issued under the row's token or an
\* earlier one, its expiry is its renewal plus the TTL; while it is the row's the
\* row is h's, and when it is superseded it has expired, up to the skew.
Issued(h, l) ==
  l.token > 0 =>
    /\ l.token =< row.token
    /\ l.renewed =< Clock(h)
    /\ l.expires = l.renewed + Ttl
    /\ l.token = row.token => row.holder = h /\ row.active /\ l.expires =< row.expires
    /\ l.token < row.token => l.expires =< Clock(h) + MaxSkew

\* The fencing token that process h has or is about to get.
TokenOf(h) == IF HasLease(h) THEN held[h].token ELSE asked[h].token

\* No fencing token is issued twice.
DistinctTokens ==
  \A h, g \in Holder : (TokenOf(h) > 0 /\ h # g) => TokenOf(h) # TokenOf(g)

\* The inductive invariant.
LeaseInv ==
  /\ LeaseTypeOK
  /\ \A h \in Holder :
       /\ Issued(h, held[h]) /\ Issued(h, asked[h])
       /\ (HasLease(h) /\ Asking(h)) => asked[h].token = held[h].token
  /\ DistinctTokens

USE LeadershipAssumption

\* An empty lease row and processes without a lease satisfy the invariant.
LEMMA LeaseInitInv == LeaseInit => LeaseInv
  BY DEF LeaseInit, LeaseInv, LeaseTypeOK, NoRow, NoLease, Row, Lease, HasLease, Asking,
         Issued, TokenOf, DistinctTokens

\* A timestamp handed to the database is not ahead of its process's clock.
LEMMA ReadingsBound ==
  ASSUME LeaseTypeOK, NEW h \in Holder, NEW ts \in Readings(h)
  PROVE  /\ ts \in Nat
         /\ ts =< now + skew[h]
         /\ now + skew[h] - ts =< MaxDelay
         /\ skew[h] \in 0 .. MaxSkew
  BY DEF LeaseTypeOK, Readings, Clock

\* A process's copies after a step that does not touch the row: the clocks do not
\* go back, and each copy is one it had, or none.
LEMMA CopiesKept ==
  ASSUME LeaseInv, now' >= now, UNCHANGED <<skew, row>>, LeaseTypeOK',
         NEW g \in Holder,
         held'[g] \in {held[g], asked[g], NoLease}, asked'[g] \in {asked[g], NoLease}
  PROVE  /\ Issued(g, held[g])' /\ Issued(g, asked[g])'
         /\ TokenOf(g)' \in {0, TokenOf(g)}
         /\ (HasLease(g) /\ Asking(g))' => asked'[g].token = held'[g].token
<1> USE DEF LeaseInv, LeaseTypeOK, Row, Lease, NoLease
<1>1. ASSUME NEW l \in {held[g], asked[g], NoLease}
      PROVE  /\ l \in Lease /\ Issued(g, l)
             /\ Issued(g, l) => (l.token > 0 =>
                  /\ l.token =< row'.token
                  /\ l.renewed =< now' + skew'[g]
                  /\ l.expires = l.renewed + Ttl
                  /\ l.token = row'.token => row'.holder = g /\ row'.active /\ l.expires =< row'.expires
                  /\ l.token < row'.token => l.expires =< now' + skew'[g] + MaxSkew)
  BY <1>1 DEF Issued, Clock
<1>2. Issued(g, held[g])' /\ Issued(g, asked[g])'
  BY <1>1 DEF Issued, Clock
<1>3. TokenOf(g)' \in {0, TokenOf(g)}
  BY DEF TokenOf, HasLease, Asking
<1>4. (HasLease(g) /\ Asking(g))' => asked'[g].token = held'[g].token
  BY DEF HasLease, Asking
<1> QED BY <1>2, <1>3, <1>4

\* Every step of the lease keeps the invariant: acquire, renew, release, the
\* audit events and their failures, a crash and the passing of time.
LEMMA LeaseNextInv == LeaseInv /\ [LeaseNext]_leaseVars => LeaseInv'
<1> SUFFICES ASSUME LeaseInv, [LeaseNext]_leaseVars PROVE LeaseInv'
  OBVIOUS
<1>0. LeaseTypeOK
  BY DEF LeaseInv
<1>1. CASE \/ UNCHANGED leaseVars \/ Tick
           \/ \E h \in Holder : Audit(h) \/ AuditRaises(h) \/ LeaseCrash(h)
  <2>1. now' >= now /\ UNCHANGED <<skew, row>> /\ LeaseTypeOK'
    BY <1>0, <1>1 DEF leaseVars, Tick, Audit, AuditRaises, LeaseCrash, LeaseTypeOK, Lease, NoLease
  <2>2. ASSUME NEW g \in Holder
        PROVE  held'[g] \in {held[g], asked[g], NoLease} /\ asked'[g] \in {asked[g], NoLease}
    BY <1>0, <1>1 DEF leaseVars, Tick, Audit, AuditRaises, LeaseCrash, LeaseTypeOK
  <2>3. \A g \in Holder :
          /\ Issued(g, held[g])' /\ Issued(g, asked[g])'
          /\ TokenOf(g)' \in {0, TokenOf(g)}
          /\ (HasLease(g) /\ Asking(g))' => asked'[g].token = held'[g].token
    BY <2>1, <2>2, CopiesKept
  <2>4. DistinctTokens'
    BY <2>3 DEF DistinctTokens, LeaseInv
  <2> QED BY <2>1, <2>3, <2>4 DEF LeaseInv
<1>2. ASSUME NEW h \in Holder, NEW ts \in Readings(h), Acquire(h, ts) PROVE LeaseInv'
  <2> USE <1>0, <1>2, ReadingsBound DEF Acquire, AcquiredRow, LeaseOf, LeaseTypeOK, Row, Lease
  <2>1. LeaseTypeOK'
    OBVIOUS
  <2>2. /\ UNCHANGED <<now, skew, held>> /\ row'.token = row.token + 1
        /\ ~ HasLease(h) /\ ~ Asking(h) /\ ~ HasLease(h)'
        /\ asked'[h] = [token |-> row.token + 1, renewed |-> ts, expires |-> ts + Ttl]
        /\ \A g \in Holder \ {h} : asked'[g] = asked[g]
    BY DEF HasLease
  <2>3. Issued(h, held[h])' /\ Issued(h, asked[h])'
    BY <2>2 DEF Issued, HasLease, Clock
  <2>4. ASSUME NEW g \in Holder \ {h}, NEW l \in {held[g], asked[g]}, l.token > 0
        PROVE  /\ l.token < row'.token
               /\ l.renewed =< Clock(g)
               /\ l.expires = l.renewed + Ttl
               /\ l.expires =< Clock(g) + MaxSkew
    <3>1. l \in Lease /\ Issued(g, l)
      BY <2>4 DEF LeaseInv
    <3>2. row.active => row.expires =< ts
      BY DEF MayAcquire
    <3> QED BY <2>2, <2>4, <3>1, <3>2 DEF Issued, Clock
  <2>5. ASSUME NEW g \in Holder \ {h}
        PROVE  /\ Issued(g, held[g])' /\ Issued(g, asked[g])'
               /\ TokenOf(g)' = TokenOf(g) /\ TokenOf(g) < row'.token
               /\ (HasLease(g) /\ Asking(g))' => asked'[g].token = held'[g].token
    BY <2>2, <2>4 DEF Issued, Clock, TokenOf, HasLease, Asking, LeaseInv
  <2>6. TokenOf(h)' = row'.token
    BY <2>2 DEF TokenOf
  <2>7. DistinctTokens'
    BY <2>5, <2>6 DEF DistinctTokens, LeaseInv
  <2> QED BY <2>1, <2>2, <2>3, <2>5, <2>7 DEF LeaseInv
<1>3. ASSUME NEW h \in Holder, NEW ts \in Readings(h), Renew(h, ts) PROVE LeaseInv'
  <2> USE <1>0, <1>3, ReadingsBound
          DEF Renew, MayRenew, RenewedRow, LeaseOf, LeaseTypeOK, Row, Lease
  <2>1. LeaseTypeOK'
    OBVIOUS
  <2>2. /\ UNCHANGED <<now, skew, held>> /\ row'.token = row.token /\ row'.active
        /\ row.holder = h /\ row'.holder = h /\ row'.expires = ts + Ttl
        /\ HasLease(h) /\ held[h].token = row.token
        /\ asked'[h] = [token |-> row.token, renewed |-> ts, expires |-> ts + Ttl]
        /\ \A g \in Holder \ {h} : asked'[g] = asked[g]
    OBVIOUS
  <2>3. held[h].renewed =< ts /\ Issued(h, held[h])
    BY DEF CachedCheck, LeaseInv
  <2>4. Issued(h, held[h])' /\ Issued(h, asked[h])'
    BY <2>2, <2>3 DEF Issued, HasLease, Clock
  <2>5. ASSUME NEW g \in Holder \ {h}
        PROVE  /\ Issued(g, held[g])' /\ Issued(g, asked[g])'
               /\ TokenOf(g)' = TokenOf(g)
               /\ (HasLease(g) /\ Asking(g))' => asked'[g].token = held'[g].token
    BY <2>2 DEF Issued, Clock, TokenOf, HasLease, Asking, LeaseInv
  <2>6. TokenOf(h)' = TokenOf(h)
    BY <2>2 DEF TokenOf, HasLease
  <2>7. DistinctTokens'
    BY <2>5, <2>6 DEF DistinctTokens, LeaseInv
  <2> QED BY <2>1, <2>2, <2>4, <2>5, <2>7 DEF LeaseInv
<1>4. ASSUME NEW h \in Holder, NEW ts \in Readings(h), Release(h, ts) PROVE LeaseInv'
  <2> USE <1>0, <1>4, ReadingsBound
          DEF Release, ReleasedRow, NoLease, LeaseTypeOK, Row, Lease
  <2>1. LeaseTypeOK'
    OBVIOUS
  <2>2. /\ UNCHANGED <<now, skew, asked>> /\ row'.token = row.token
        /\ HasLease(h) /\ ~ Asking(h) /\ held'[h].token = 0
        /\ \A g \in Holder \ {h} : held'[g] = held[g]
        /\ row' = row \/ (row.holder = h /\ row.token = held[h].token)
    OBVIOUS
  <2>3. ASSUME NEW g \in Holder \ {h}
        PROVE  /\ Issued(g, held[g])' /\ Issued(g, asked[g])'
               /\ TokenOf(g)' = TokenOf(g)
               /\ (HasLease(g) /\ Asking(g))' => asked'[g].token = held'[g].token
    BY <2>2 DEF Issued, Clock, TokenOf, HasLease, Asking, LeaseInv
  <2>4. /\ Issued(h, held[h])' /\ Issued(h, asked[h])'
        /\ TokenOf(h)' = 0 /\ ~ HasLease(h)'
    BY <2>2 DEF Issued, Clock, TokenOf, HasLease, Asking
  <2>5. DistinctTokens'
    BY <2>3, <2>4 DEF DistinctTokens, LeaseInv
  <2> QED BY <2>1, <2>2, <2>3, <2>4, <2>5 DEF LeaseInv
<1> QED
  BY <1>1, <1>2, <1>3, <1>4 DEF LeaseNext

\* The invariant of the lease row and of the copies that acquire and renew of
\* PostgresLeadershipRepository hand out, for any number of processes.
THEOREM LeaseInvariant == LeaseSpec => []LeaseInv
  BY LeaseInitInv, LeaseNextInv, PTL DEF LeaseSpec

\* The lease row, the copies and the clocks keep their types.
THEOREM LeaseTypeCorrect == LeaseSpec => []LeaseTypeOK
<1>1. LeaseInv => LeaseTypeOK
  BY DEF LeaseInv
<1> QED BY <1>1, LeaseInvariant, PTL

\* Of two leases that processes hold at once, the one with the older fencing token
\* has run out by its holder's own clock, give or take MaxSkew (acquire and renew
\* of PostgresLeadershipRepository).
THEOREM LeaseExclusive == LeaseSpec => []ExclusiveLease
<1>1. LeaseInv => ExclusiveLease
  <2> SUFFICES ASSUME LeaseInv, NEW h \in Holder, NEW g \in Holder,
                      HasLease(h), HasLease(g), h # g
               PROVE  /\ held[h].token # held[g].token
                      /\ held[h].token < held[g].token => held[h].expires =< Clock(h) + MaxSkew
    BY DEF ExclusiveLease
  <2>1. held[h].token # held[g].token
    BY DEF LeaseInv, DistinctTokens, TokenOf, HasLease
  <2>2. held[g].token =< row.token
    BY DEF LeaseInv, Issued, HasLease
  <2>3. held[h].token < row.token => held[h].expires =< Clock(h) + MaxSkew
    BY DEF LeaseInv, Issued, HasLease
  <2> QED BY <2>1, <2>2, <2>3 DEF LeaseInv, LeaseTypeOK, Row, Lease
<1> QED BY <1>1, LeaseInvariant, PTL

\* A lease that has not expired by more than the skew is the row's.
LEMMA FreshLease ==
  ASSUME LeaseInv, NEW h \in Holder, HasLease(h), Clock(h) + MaxSkew < held[h].expires
  PROVE  row.holder = h /\ row.token = held[h].token /\ row.active
<1>1. /\ held[h].token =< row.token
      /\ held[h].token = row.token => row.holder = h /\ row.active
      /\ held[h].token < row.token => held[h].expires =< Clock(h) + MaxSkew
  <2>1. Issued(h, held[h]) /\ held[h].token > 0
    BY DEF LeaseInv, HasLease
  <2> QED BY <2>1 DEF Issued
<1>2. /\ held[h].token \in Nat /\ row.token \in Nat /\ held[h].expires \in Nat
      /\ Clock(h) \in Nat /\ MaxSkew \in Nat
  BY DEF LeaseInv, LeaseTypeOK, Row, Lease, Clock
<1> QED BY <1>1, <1>2

\* The arithmetic behind the cached check: a superseded lease has expired up to
\* the skew, a lease renewed less than RenewInterval ago has not.
LEMMA LeaseInvCached == LeaseInv => CachedCheckSound
<1> SUFFICES ASSUME LeaseInv, NEW h \in Holder, NEW ts \in Readings(h), CachedCheck(h, ts)
             PROVE  row.holder = h /\ row.token = held[h].token /\ row.active
  BY DEF CachedCheckSound
<1>1. HasLease(h) /\ ts - held[h].renewed < RenewInterval /\ held[h].expires = held[h].renewed + Ttl
  BY DEF CachedCheck, LeaseInv, Issued, HasLease
<1>2. Clock(h) + MaxSkew < held[h].expires
  BY <1>1, LeaseMargin, ReadingsBound DEF LeaseInv, LeaseTypeOK, Lease, Clock
<1> QED BY <1>1, <1>2, FreshLease

\* Skipping the round trip to the database is safe: the lease that
\* _renew_leadership confirms from memory is still the one in the row.
THEOREM LeaseCachedCheckSound == LeaseSpec => []CachedCheckSound
  BY LeaseInvCached, LeaseInvariant, PTL

USE SessionAssumption

-----------------------------------------------------------------------------
(* The session only ever touches the lease through steps of the lease.     *)

\* A session starts with the lease module's initial row.
LEMMA SessionLeaseInit == SessionInit => LeaseInit
  BY DEF SessionInit

\* The steps of run that leave the lease alone.
PlainStep(h) ==
  \/ Begin(h) \/ ReadSwitch(h) \/ InitSwitch(h) \/ AcquireRaises(h)
  \/ CheckSwitch(h) \/ CheckSwitchRaises(h)
  \/ Preflight(h) \/ PreflightRaises(h) \/ WaitOver(h) \/ WaitSleep(h)
  \/ CheckEntryCutoff(h) \/ StartHook(h) \/ HookReturns(h) \/ HookRaises(h)
  \/ EndPhase(h) \/ EndPhaseRaises(h)
  \/ ActivateSwitch(h) \/ ActivateSwitchRaises(h)
  \/ AlertSent(h) \/ AlertRaises(h) \/ FlattenRaises(h)
  \/ \E complete \in BOOLEAN : FlattenEnds(h, complete)
  \/ \E ts \in Readings(h) :
       AcquireDenied(h, ts) \/ RenewCached(h, ts) \/ RenewRaises(h, ts)

\* The steps of run that are a step on the lease row, on its audit event, or drop
\* the lease.
LeaseStep(h) ==
  \/ AcquireAudited(h) \/ RenewAudited(h) \/ AuditFails(h) \/ Crash(h)
  \/ \E ts \in Readings(h) : AcquireLeadership(h, ts) \/ RenewRow(h, ts) \/ Finish(h, ts)

\* These are all the steps there are.
LEMMA StepCases ==
  ASSUME [SessionNext]_vars
  PROVE  \/ SessionTick \/ OperatorKill \/ UNCHANGED vars
         \/ \E h \in Holder : PlainStep(h) \/ LeaseStep(h)
  BY DEF SessionNext, ProcessStep, PlainStep, LeaseStep

\* A plain step does not touch the lease.
LEMMA PlainKeepsLease ==
  ASSUME NEW h \in Holder, PlainStep(h) PROVE UNCHANGED leaseVars
<1>1. ASSUME NEW ts \in Readings(h),
             AcquireDenied(h, ts) \/ RenewCached(h, ts) \/ RenewRaises(h, ts)
      PROVE  UNCHANGED leaseVars
  BY <1>1 DEF AcquireDenied, RenewCached, RenewRaises
<1>2. CASE \/ Begin(h) \/ ReadSwitch(h) \/ InitSwitch(h) \/ AcquireRaises(h)
           \/ CheckSwitch(h) \/ CheckSwitchRaises(h)
           \/ Preflight(h) \/ PreflightRaises(h) \/ WaitOver(h) \/ WaitSleep(h)
           \/ CheckEntryCutoff(h) \/ StartHook(h) \/ HookReturns(h) \/ HookRaises(h)
           \/ EndPhase(h) \/ EndPhaseRaises(h)
           \/ ActivateSwitch(h) \/ ActivateSwitchRaises(h)
           \/ AlertSent(h) \/ AlertRaises(h) \/ FlattenRaises(h)
           \/ \E complete \in BOOLEAN : FlattenEnds(h, complete)
  BY <1>2 DEF Begin, ReadSwitch, InitSwitch, AcquireRaises, CheckSwitch, CheckSwitchRaises,
     Preflight, PreflightRaises, WaitOver, WaitSleep, CheckEntryCutoff, StartHook, HookReturns,
     HookRaises, EndPhase, EndPhaseRaises, ActivateSwitch, ActivateSwitchRaises, AlertSent,
     AlertRaises, FlattenRaises, FlattenEnds
<1> QED BY <1>1, <1>2 DEF PlainStep

\* Every step of run is a step of the lease or leaves it alone.
LEMMA SessionLeaseStep == [SessionNext]_vars => [LeaseNext]_leaseVars
<1> SUFFICES ASSUME [SessionNext]_vars PROVE [LeaseNext]_leaseVars
  OBVIOUS
<1>1. CASE SessionTick \/ OperatorKill \/ UNCHANGED vars
  BY <1>1 DEF SessionTick, OperatorKill, vars, LeaseNext
<1>2. ASSUME NEW h \in Holder, PlainStep(h) PROVE [LeaseNext]_leaseVars
  BY <1>2, PlainKeepsLease
<1>3. ASSUME NEW h \in Holder, LeaseStep(h) PROVE [LeaseNext]_leaseVars
  BY <1>3 DEF LeaseStep, AcquireAudited, RenewAudited, AuditFails, Crash, AcquireLeadership,
              RenewRow, Finish, LeaseNext
<1> QED BY <1>1, <1>2, <1>3, StepCases

\* The processes of a session use the lease as the lease module says: what is
\* proved of LeaseSpec holds of every session.
THEOREM SessionImplementsLease == SessionSpec => LeaseSpec
  BY SessionLeaseInit, SessionLeaseStep, PTL DEF SessionSpec, LeaseSpec

-----------------------------------------------------------------------------
(* The locals of a run.                                                    *)

\* Where a run is, a call of _renew_leadership counted as the place it returns to.
Where(h) == IF run[h].pc \in {"renew", "renewed"} THEN run[h].then ELSE run[h].pc

\* Which stages a run can be in at each place.
Shape(h) ==
  /\ run[h].then # "none" <=> run[h].pc \in {"renew", "renewed"}
  /\ Where(h) \in {"read", "init", "acquire", "granted", "acquired"} => run[h].stage = "PREFLIGHT"
  /\ Where(h) = "probe" => run[h].stage \in {"PREFLIGHT", "ELIGIBILITY_LOCK"}
  /\ Where(h) = "wait" => run[h].stage # "PREFLIGHT"
  /\ Where(h) = "cutoff" => run[h].stage = "EXECUTION"
  /\ Where(h) \in {"call", "hook", "ended"} => run[h].stage \in Hooks

\* The places inside the try block, after the lease was acquired.
Inside == {"acquired", "probe", "wait", "cutoff", "call", "hook", "ended"}

\* Inside the try block a run has a lease; it looks at the cutoff of new entries
\* and calls the execution hook only when their time has come; and before a hook
\* the lease was checked at started.
LeaseChecked(h) ==
  /\ Where(h) \in Inside => HasLease(h)
  /\ (Where(h) \in {"cutoff", "call"} /\ run[h].stage = "EXECUTION")
       => Clock(h) >= PlanAt["EXECUTION"]
  /\ run[h].pc = "call" =>
       /\ run[h].started =< Clock(h)
       /\ run[h].started < held[h].renewed + RenewInterval

LocalOK(h) == Shape(h) /\ LeaseChecked(h)

\* A run whose lease was confirmed for the execution hook, which it will call
\* without looking again.
Sure(h) ==
  /\ run[h].stage = "EXECUTION"
  /\ run[h].pc = "call" \/ (run[h].pc = "renewed" /\ run[h].then = "call")

\* A run that has evaluated in time, and whose lease is not confirmed yet.
Waiting(h) ==
  /\ run[h].stage \in {"ELIGIBILITY_LOCK", "EXECUTION"}
  /\ Where(h) \in {"probe", "wait", "cutoff", "call"}
  /\ ~ Sure(h)

\* What a step of process h does to the entries: nothing; it confirms the lease
\* for the execution hook; or it calls that hook.
Quiet(h) ==
  /\ entries' = entries
  /\ Sure(h)' => Sure(h)
  /\ Waiting(h)' => Waiting(h) \/ Clock(h) =< EvalCutoff

Confirms(h) ==
  /\ entries' = entries
  /\ Waiting(h) /\ Sure(h)' /\ ~ Waiting(h)'
  /\ HasLease(h) /\ held'[h] = held[h] /\ Clock(h) >= PlanAt["EXECUTION"]
  /\ held[h].token = row.token /\ row'.token = row.token

Enters(h) ==
  /\ entries' = entries + 1
  /\ Sure(h) /\ ~ Sure(h)' /\ ~ Waiting(h)'

\* A step of h keeps the types of the locals, touches no other run, and keeps what
\* is true of the locals.
Local(h) ==
  /\ run' \in [Holder -> Run]
  /\ \A g \in Holder \ {h} : run'[g] = run[g]
  /\ LocalOK(h)'
  /\ Quiet(h) \/ Confirms(h) \/ Enters(h)

\* A step that leaves the try block, or comes after it.
Leaves(h) ==
  /\ run' \in [Holder -> Run]
  /\ \A g \in Holder \ {h} : run'[g] = run[g]
  /\ run'[h].pc \in {"idle", "kill", "alert", "flatten", "finish", "done"}
  /\ run'[h].then = "none"
  /\ entries' = entries

\* Such a step asks nothing of the lease.
LEMMA LeavesLocal ==
  ASSUME NEW h \in Holder, Leaves(h) PROVE Local(h)
  BY DEF Leaves, Local, LocalOK, Shape, LeaseChecked, Where, Inside, Quiet, Sure, Waiting

\* The steps of run after which it is past the try block.
LeavingStep(h) ==
  \/ AcquireRaises(h) \/ CheckSwitchRaises(h) \/ PreflightRaises(h)
  \/ HookRaises(h) \/ EndPhaseRaises(h) \/ AuditFails(h)
  \/ ActivateSwitch(h) \/ ActivateSwitchRaises(h)
  \/ AlertSent(h) \/ AlertRaises(h) \/ FlattenRaises(h)
  \/ \E complete \in BOOLEAN : FlattenEnds(h, complete)
  \/ \E ts \in Readings(h) : AcquireDenied(h, ts) \/ RenewRaises(h, ts) \/ Finish(h, ts)
  \/ Crash(h)

\* A new record for h.
LEMMA RecordLeaves ==
  ASSUME run \in [Holder -> Run], NEW h \in Holder, NEW r \in Run,
         run' = [run EXCEPT ![h] = r], entries' = entries,
         r.pc \in {"idle", "kill", "alert", "flatten", "finish", "done"}, r.then = "none"
  PROVE  Leaves(h)
  BY DEF Leaves

\* Raising leaves the try block.
LEMMA RaiseLeaves ==
  ASSUME run \in [Holder -> Run], NEW h \in Holder, Raise(h), entries' = entries
  PROVE  Leaves(h)
<1> DEFINE r == [run[h] EXCEPT !.pc = "kill", !.then = "none", !.stage = "PREFLIGHT",
                               !.path = "error"]
<1>1. /\ "kill" \in Steps /\ "none" \in Returns /\ "PREFLIGHT" \in Stage /\ "error" \in Paths
  BY DEF Steps, Returns, Stage, Paths
<1>2. r \in Run /\ r.pc = "kill" /\ r.then = "none"
  BY <1>1, ZenonT(60) DEF Run
<1>3. run' = [run EXCEPT ![h] = r]
  BY DEF Raise
<1> HIDE DEF r
<1> QED BY <1>2, <1>3, RecordLeaves

\* So does every other of these steps.
LEMMA LeavingSteps ==
  ASSUME run \in [Holder -> Run], NEW h \in Holder, Shape(h), LeavingStep(h)
  PROVE  Leaves(h)
<1> USE DEF At, Goto
<1>0. run[h].pc \notin {"renew", "renewed"} => run[h].then = "none"
  BY DEF Shape
<1>1. CASE \/ AcquireRaises(h) \/ CheckSwitchRaises(h) \/ PreflightRaises(h)
           \/ HookRaises(h) \/ EndPhaseRaises(h) \/ AuditFails(h)
  BY <1>1, RaiseLeaves DEF AcquireRaises, CheckSwitchRaises, PreflightRaises, HookRaises,
     EndPhaseRaises, AuditFails
<1>2. ASSUME NEW ts \in Readings(h), RenewRaises(h, ts) PROVE Leaves(h)
  BY <1>2, RaiseLeaves DEF RenewRaises
<1>3. CASE ActivateSwitch(h) \/ ActivateSwitchRaises(h)
  BY <1>0, <1>3 DEF ActivateSwitch, ActivateSwitchRaises, Leaves, Run, Steps
<1>4. CASE AlertSent(h)
  <2> DEFINE p == IF run[h].path \in {"error", "persistent"} THEN "flatten" ELSE "finish"
             o == IF run[h].path = "error" THEN "KILLED"
                  ELSE IF run[h].path = "incomplete" THEN "FLATTEN_INCOMPLETE"
                  ELSE run[h].outcome
  <2>1. p \in {"flatten", "finish"} /\ o \in Outcomes
    BY DEF Run, Outcomes
  <2>2. run' = [run EXCEPT ![h].pc = p, ![h].outcome = o] /\ run[h].pc = "alert" /\ entries' = entries
    BY <1>4 DEF AlertSent
  <2> HIDE DEF p, o
  <2> DEFINE r == [run[h] EXCEPT !.pc = p, !.outcome = o]
  <2>3. p \in Steps
    BY <2>1 DEF Steps
  <2>4. r \in Run /\ r.pc = p /\ r.then = run[h].then
    BY <2>1, <2>3, ZenonT(60) DEF Run
  <2>5. run' = [run EXCEPT ![h] = r]
    BY <2>2
  <2> HIDE DEF r
  <2> QED BY <1>0, <2>1, <2>2, <2>4, <2>5, RecordLeaves
<1>5. CASE AlertRaises(h)
  BY <1>0, <1>5, RaiseLeaves DEF AlertRaises, Leaves, Run, Steps
<1>6. CASE FlattenRaises(h)
  <2> DEFINE p == IF run[h].path = "normal" THEN "kill" ELSE "finish"
             a == IF run[h].path = "normal" THEN "error" ELSE run[h].path
  <2>1. PICK f \in {"raised", "complete", "incomplete"} :
          run' = [run EXCEPT ![h].pc = p, ![h].stage = "PREFLIGHT", ![h].path = a, ![h].flat = f]
    <3>1. PICK f \in (IF run[h].flat = "none" THEN {"raised"} ELSE {run[h].flat}) \cup
                     (IF run[h].path = "normal" /\ "database" \in Faulty
                      THEN {"complete", "incomplete"} ELSE {}) :
            run' = [run EXCEPT ![h].pc = p, ![h].stage = "PREFLIGHT", ![h].path = a, ![h].flat = f]
      BY <1>6 DEF FlattenRaises
    <3>2. run[h].flat \in {"none", "raised", "complete", "incomplete"}
      BY DEF Run
    <3> QED BY <3>1, <3>2
  <2>2. p \in {"kill", "finish"} /\ a \in Paths /\ run[h].pc = "flatten" /\ entries' = entries
    BY <1>6 DEF FlattenRaises, Run, Paths
  <2> HIDE DEF p, a
  <2> DEFINE r == [run[h] EXCEPT !.pc = p, !.stage = "PREFLIGHT", !.path = a, !.flat = f]
  <2>3. p \in Steps /\ "PREFLIGHT" \in Stage
    BY <2>2 DEF Steps, Stage
  <2>4. r \in Run /\ r.pc = p /\ r.then = run[h].then
    BY <2>1, <2>2, <2>3, ZenonT(60) DEF Run
  <2>5. run' = [run EXCEPT ![h] = r]
    BY <2>1
  <2> HIDE DEF r
  <2> QED BY <1>0, <2>2, <2>4, <2>5, RecordLeaves
<1>7. ASSUME NEW complete \in BOOLEAN, FlattenEnds(h, complete) PROVE Leaves(h)
  BY <1>0, <1>7 DEF FlattenEnds, Leaves, Run, Steps, Paths
<1>8. ASSUME NEW ts \in Readings(h), AcquireDenied(h, ts) PROVE Leaves(h)
  <2> DEFINE r == [run[h] EXCEPT !.pc = "alert", !.path = "denied", !.outcome = "BLOCKED"]
  <2>1. "alert" \in Steps /\ "denied" \in Paths /\ "BLOCKED" \in Outcomes
    BY DEF Steps, Paths, Outcomes
  <2>2. r \in Run /\ r.pc = "alert" /\ r.then = run[h].then
    BY <2>1, ZenonT(60) DEF Run
  <2>3. run' = [run EXCEPT ![h] = r] /\ run[h].then = "none" /\ entries' = entries
    BY <1>0, <1>8 DEF AcquireDenied
  <2> HIDE DEF r
  <2> QED BY <2>2, <2>3, RecordLeaves
<1>9. ASSUME NEW ts \in Readings(h), Finish(h, ts) PROVE Leaves(h)
  <2> DEFINE r == [run[h] EXCEPT !.pc = "done", !.stage = "PREFLIGHT", !.seen = "none"]
  <2>1. "done" \in Steps /\ "PREFLIGHT" \in Stage /\ "none" \in Switch
    BY DEF Steps, Stage, Switch
  <2>2. r \in Run /\ r.pc = "done" /\ r.then = run[h].then
    BY <2>1, ZenonT(60) DEF Run
  <2>3. run' = [run EXCEPT ![h] = r] /\ run[h].then = "none" /\ entries' = entries
    BY <1>0, <1>9 DEF Finish
  <2> HIDE DEF r
  <2> QED BY <2>2, <2>3, RecordLeaves
<1>10. CASE Crash(h)
  BY <1>10 DEF Crash, NoRun, Leaves, Run, Steps, Returns, Stage, Switch, Paths, Outcomes
<1> QED BY <1>1, <1>2, <1>3, <1>4, <1>5, <1>6, <1>7, <1>8, <1>9, <1>10 DEF LeavingStep

\* The other steps that leave the lease alone.
LEMMA InnerSteps ==
  ASSUME LeaseInv, run \in [Holder -> Run], latest \in Switch,
         NEW h \in Holder, LocalOK(h), PlainStep(h), ~ LeavingStep(h)
  PROVE  Local(h)
<1> USE DEF At, Goto, CallRenew, Raise, LocalOK, Shape, LeaseChecked, Where, Inside, Hooks,
            Local, Quiet, Sure, Waiting, HasLease, Clock,
            Run, Steps, Returns, Stage, Timed, Switch, Paths, Outcomes
<1>1. UNCHANGED <<now, skew, row, held>>
  BY PlainKeepsLease DEF leaseVars
<1>2. CASE Begin(h)
  BY <1>1, <1>2 DEF Begin, NoRun
<1>3. CASE ReadSwitch(h)
  BY <1>1, <1>3 DEF ReadSwitch
<1>4. CASE InitSwitch(h)
  BY <1>1, <1>4 DEF InitSwitch
<1>5. CASE CheckSwitch(h)
  BY <1>1, <1>5 DEF CheckSwitch
<1>6. CASE Preflight(h)
  BY <1>1, <1>6 DEF Preflight, Following
<1>7. CASE WaitOver(h)
  BY <1>1, <1>7 DEF WaitOver
<1>8. CASE WaitSleep(h)
  BY <1>1, <1>8 DEF WaitSleep
<1>9. CASE CheckEntryCutoff(h)
  BY <1>1, <1>9 DEF CheckEntryCutoff
<1>10. CASE StartHook(h)
  <2>1. /\ run' \in [Holder -> Run] /\ \A g \in Holder \ {h} : run'[g] = run[g]
        /\ run[h].pc = "call" /\ run'[h].pc = "hook"
        /\ run'[h].stage = run[h].stage /\ run'[h].then = run[h].then
    <3> DEFINE r == [run[h] EXCEPT !.pc = "hook", !.started = 0]
    <3>1. "hook" \in Steps /\ 0 \in Nat
      OBVIOUS
    <3>2. r \in Run /\ r.pc = "hook" /\ r.stage = run[h].stage /\ r.then = run[h].then
      BY <3>1, ZenonT(60)
    <3>3. run' = [run EXCEPT ![h] = r] /\ run[h].pc = "call"
      BY <1>10 DEF StartHook
    <3> HIDE DEF r
    <3> QED BY <3>2, <3>3
  <2>2. LocalOK(h)'
    BY <1>1, <2>1
  <2>3. Enters(h) \/ Quiet(h)
    BY <1>10, <2>1 DEF StartHook, Enters
  <2> QED BY <2>1, <2>2, <2>3
<1>11. CASE HookReturns(h)
  BY <1>1, <1>11 DEF HookReturns
<1>12. CASE EndPhase(h)
  BY <1>1, <1>12 DEF EndPhase, Following, CutoffMissed
<1>13. ASSUME NEW ts \in Readings(h), RenewCached(h, ts) PROVE Local(h)
  <2>1. HasLease(h) /\ ts \in Nat /\ ts =< Clock(h) /\ ts - held[h].renewed < RenewInterval
    BY <1>13, ReadingsBound DEF RenewCached, CachedCheck, LeaseInv
  <2>2. row.token = held[h].token
    BY <1>13, LeaseInvCached DEF RenewCached, CachedCheckSound
  <2>3. CASE run[h].then = "call"
    BY <1>1, <1>13, <2>1, <2>2, <2>3 DEF RenewCached, RenewReturns, Confirms
  <2>4. CASE run[h].then # "call"
    BY <1>1, <1>13, <2>1, <2>4 DEF RenewCached, RenewReturns
  <2> QED BY <2>3, <2>4
<1> QED
  BY <1>2, <1>3, <1>4, <1>5, <1>6, <1>7, <1>8, <1>9, <1>10, <1>11, <1>12, <1>13 DEF PlainStep, LeavingStep

\* The statements on the lease row and their audit events.
LEMMA RowSteps ==
  ASSUME LeaseInv, run \in [Holder -> Run], NEW h \in Holder, LocalOK(h)
  PROVE  /\ AcquireAudited(h) \/ RenewAudited(h) => Local(h)
         /\ \A ts \in Readings(h) : AcquireLeadership(h, ts) \/ RenewRow(h, ts) => Local(h)
<1> USE DEF At, Goto, LocalOK, Shape, LeaseChecked, Where, Inside, Hooks,
            Local, Quiet, Sure, Waiting, HasLease, Clock,
            Run, Steps, Returns, Stage, Timed
<1>1. ASSUME AcquireAudited(h) PROVE Local(h)
  <2>1. HasLease(h)'
    BY <1>1 DEF AcquireAudited, Audit, Asking, LeaseInv, LeaseTypeOK
  <2> QED BY <1>1, <2>1 DEF AcquireAudited
<1>2. ASSUME RenewAudited(h) PROVE Local(h)
  <2>1. /\ HasLease(h)' /\ UNCHANGED <<now, skew>>
        /\ held'[h].renewed = asked[h].renewed /\ asked[h].renewed =< Clock(h)
        /\ asked[h].renewed \in Nat
    BY <1>2 DEF RenewAudited, Audit, Asking, LeaseInv, LeaseTypeOK, Lease, Issued
  <2> QED BY <1>2, <2>1 DEF RenewAudited, RenewReturns
<1>3. ASSUME NEW ts \in Readings(h), AcquireLeadership(h, ts) PROVE Local(h)
  BY <1>3 DEF AcquireLeadership
<1>4. ASSUME NEW ts \in Readings(h), RenewRow(h, ts) PROVE Local(h)
  <2>1. /\ HasLease(h) /\ UNCHANGED <<now, skew, held>>
        /\ row.token = held[h].token /\ row'.token = row.token
    BY <1>4 DEF RenewRow, Renew, MayRenew, RenewedRow
  <2>2. CASE run[h].then = "call"
    BY <1>4, <2>1, <2>2 DEF RenewRow, Confirms
  <2>3. CASE run[h].then # "call"
    BY <1>4, <2>1, <2>3 DEF RenewRow
  <2> QED BY <2>2, <2>3
<1> QED BY <1>1, <1>2, <1>3, <1>4

\* Every step of a process.
LEMMA LocalStep ==
  ASSUME LeaseInv, run \in [Holder -> Run], latest \in Switch,
         NEW h \in Holder, LocalOK(h), PlainStep(h) \/ LeaseStep(h)
  PROVE  Local(h)
<1>1. CASE LeavingStep(h)
  BY <1>1, LeavingSteps, LeavesLocal DEF LocalOK
<1>2. CASE PlainStep(h) /\ ~ LeavingStep(h)
  BY <1>2, InnerSteps
<1>3. CASE LeaseStep(h) /\ ~ LeavingStep(h)
  BY <1>3, RowSteps DEF LeaseStep, LeavingStep
<1> QED BY <1>1, <1>2, <1>3

-----------------------------------------------------------------------------
(* Entries begin at most once.                                             *)

\* A lease that another one has superseded.
Stale(h) == held[h].token # row.token

\* Entries have begun, or some process is sure to begin them.
Late == entries = 1 \/ \E h \in Holder : Sure(h)

\* Once that is so, it is too late for another run to evaluate in time, and every
\* run that still waits for its confirmation has lost the lease.
EntriesOK ==
  /\ entries \in {0, 1}
  /\ \A h \in Holder : Sure(h) => entries = 0 /\ \A g \in Holder \ {h} : ~ Sure(g)
  /\ Late => /\ now + MaxSkew >= PlanAt["EXECUTION"]
             /\ \A h \in Holder : Waiting(h) => Stale(h)

\* The inductive invariant of a session.
EntryInv ==
  /\ LeaseInv
  /\ SessionTypeOK
  /\ \A h \in Holder : LocalOK(h)
  /\ EntriesOK

\* No process has begun anything at first.
LEMMA EntryInvInit == SessionInit => EntryInv
<1> SUFFICES ASSUME SessionInit PROVE EntryInv
  OBVIOUS
<1>1. LeaseInv
  BY LeaseInitInv DEF SessionInit
<1>2. NoRun \in Run
  BY DEF NoRun, Run, Steps, Returns, Stage, Switch, Paths, Outcomes
<1>3. SessionTypeOK
  <2>1. run \in [Holder -> Run]
    BY <1>2 DEF SessionInit
  <2>2. latest = "none" /\ inactiveRow = FALSE /\ runs = 0 /\ entries = 0
    BY DEF SessionInit
  <2>3. latest \in Switch /\ inactiveRow \in BOOLEAN
    BY <2>2 DEF Switch
  <2>4. runs \in 0 .. MaxRuns /\ entries \in Nat
    BY <2>2
  <2> QED BY <1>1, <2>1, <2>3, <2>4 DEF SessionTypeOK, LeaseInv
<1>4. \A h \in Holder : LocalOK(h) /\ ~ Sure(h)
  BY DEF SessionInit, NoRun, LocalOK, Shape, LeaseChecked, Where, Inside, Sure
<1> QED BY <1>1, <1>3, <1>4 DEF SessionInit, EntryInv, EntriesOK, Late

\* What a step of process h does to the lease, as the others see it.
LEMMA LeaseStepFacts ==
  ASSUME LeaseInv, NEW h \in Holder, PlainStep(h) \/ LeaseStep(h)
  PROVE  /\ UNCHANGED <<now, skew>>
         /\ \A g \in Holder \ {h} : held'[g] = held[g]
         /\ row'.token \in {row.token, row.token + 1}
         /\ (HasLease(h) /\ HasLease(h)') => held'[h].token = held[h].token
<1>1. CASE PlainStep(h)
  BY <1>1, PlainKeepsLease DEF leaseVars
<1> USE DEF HasLease, LeaseInv, LeaseTypeOK, Row, Lease, NoLease
<1>2. CASE AcquireAudited(h) \/ RenewAudited(h)
  BY <1>2 DEF AcquireAudited, RenewAudited, Audit, Asking
<1>3. CASE AuditFails(h)
  BY <1>3 DEF AuditFails, AuditRaises
<1>4. ASSUME NEW ts \in Readings(h), AcquireLeadership(h, ts) \/ RenewRow(h, ts)
      PROVE  /\ UNCHANGED <<now, skew, held>> /\ row'.token \in {row.token, row.token + 1}
  BY <1>4 DEF AcquireLeadership, RenewRow, Acquire, AcquiredRow, Renew, RenewedRow
<1>5. ASSUME NEW ts \in Readings(h), Finish(h, ts) \/ Release(h, ts)
      PROVE  /\ UNCHANGED <<now, skew>> /\ row'.token = row.token
             /\ \A g \in Holder \ {h} : held'[g] = held[g]
             /\ held'[h] = held[h] \/ ~ HasLease(h)'
  <2>1. CASE Release(h, ts)
    BY <2>1 DEF Release, ReleasedRow
  <2>2. CASE UNCHANGED leaseVars
    BY <2>2 DEF leaseVars
  <2> QED BY <1>5, <2>1, <2>2 DEF Finish
<1>6. CASE Crash(h)
  <2>1. CASE LeaseCrash(h) \/ UNCHANGED leaseVars
    BY <2>1 DEF LeaseCrash, leaseVars
  <2> QED BY <1>5, <1>6, <2>1 DEF Crash
<1> QED BY <1>1, <1>2, <1>3, <1>4, <1>5, <1>6 DEF LeaseStep

\* Every step of a process keeps the types that are not the lease's or a run's.
LEMMA TableTypes ==
  ASSUME SessionTypeOK, NEW h \in Holder, PlainStep(h) \/ LeaseStep(h)
  PROVE  latest' \in Switch /\ inactiveRow' \in BOOLEAN /\ runs' \in 0 .. MaxRuns
<1> USE DEF SessionTypeOK, Switch, SaveActive, SaveInactive
<1>1. CASE LeaseStep(h)
  BY <1>1 DEF LeaseStep, AcquireAudited, RenewAudited, AuditFails, Crash, AcquireLeadership,
              RenewRow, Finish
<1>2. CASE Begin(h)
  BY <1>2 DEF Begin
<1>3. CASE \/ ReadSwitch(h) \/ InitSwitch(h) \/ AcquireRaises(h)
           \/ CheckSwitch(h) \/ CheckSwitchRaises(h)
           \/ Preflight(h) \/ PreflightRaises(h) \/ WaitOver(h) \/ WaitSleep(h)
           \/ CheckEntryCutoff(h) \/ StartHook(h) \/ HookReturns(h) \/ HookRaises(h)
           \/ EndPhase(h) \/ EndPhaseRaises(h)
  BY <1>3 DEF ReadSwitch, InitSwitch, AcquireRaises, CheckSwitch, CheckSwitchRaises,
     Preflight, PreflightRaises, WaitOver, WaitSleep, CheckEntryCutoff, StartHook, HookReturns,
     HookRaises, EndPhase, EndPhaseRaises
<1>4. CASE \/ ActivateSwitch(h) \/ ActivateSwitchRaises(h)
           \/ AlertSent(h) \/ AlertRaises(h) \/ FlattenRaises(h)
           \/ \E complete \in BOOLEAN : FlattenEnds(h, complete)
  BY <1>4 DEF ActivateSwitch, ActivateSwitchRaises, AlertSent,
     AlertRaises, FlattenRaises, FlattenEnds
<1>5. ASSUME NEW ts \in Readings(h),
             AcquireDenied(h, ts) \/ RenewCached(h, ts) \/ RenewRaises(h, ts)
      PROVE  UNCHANGED <<latest, inactiveRow, runs>>
  BY <1>5 DEF AcquireDenied, RenewCached, RenewRaises
<1> QED BY <1>1, <1>2, <1>3, <1>4, <1>5 DEF PlainStep

\* A step of a process keeps the bookkeeping of the entries.
LEMMA EntriesStep ==
  ASSUME EntryInv, LeaseInv', NEW h \in Holder, PlainStep(h) \/ LeaseStep(h), Local(h)
  PROVE  EntriesOK'
<1>1. /\ UNCHANGED <<now, skew>>
      /\ \A g \in Holder \ {h} : held'[g] = held[g]
      /\ row'.token \in {row.token, row.token + 1}
      /\ (HasLease(h) /\ HasLease(h)') => held'[h].token = held[h].token
  BY LeaseStepFacts DEF EntryInv
<1>2. /\ \A g \in Holder \ {h} : (Sure(g)' <=> Sure(g)) /\ (Waiting(g)' <=> Waiting(g))
      /\ LocalOK(h)' /\ LocalOK(h)
  BY DEF Local, Sure, Waiting, Where, EntryInv
<1>3. \A g \in Holder : Waiting(g) => HasLease(g)
  BY DEF EntryInv, LocalOK, LeaseChecked, Waiting, Inside
<1>4. Waiting(h)' => HasLease(h)'
  BY <1>2 DEF LocalOK, LeaseChecked, Waiting, Inside
<1>5. \A g \in Holder : HasLease(g) => held[g].token =< row.token /\ held[g].token \in Nat
  BY DEF EntryInv, LeaseInv, Issued, HasLease, LeaseTypeOK, Lease
<1>6. row.token \in Nat
  BY DEF EntryInv, LeaseInv, LeaseTypeOK, Row
<1>7. ASSUME NEW g \in Holder, Waiting(g), Waiting(g)', Stale(g) PROVE Stale(g)'
  <2>1. HasLease(g) /\ held'[g].token = held[g].token
    BY <1>1, <1>3, <1>4, <1>7
  <2> QED BY <1>1, <1>5, <1>6, <1>7, <2>1 DEF Stale
<1>8. /\ now \in Nat /\ MaxSkew \in Nat /\ PlanAt["EXECUTION"] \in Nat
      /\ skew[h] \in 0 .. MaxSkew /\ Clock(h) = now + skew[h]
  BY DEF EntryInv, LeaseInv, LeaseTypeOK, Timed, Clock
<1>9. CASE Quiet(h)
  <2>1. ASSUME Late' PROVE Late
    BY <1>2, <1>9, <2>1 DEF Late, Quiet
  <2>2. ASSUME Late, NEW g \in Holder, Waiting(g)' PROVE Waiting(g)
    <3>1. now + MaxSkew >= PlanAt["EXECUTION"]
      BY <2>2 DEF EntryInv, EntriesOK
    <3>2. ~ (Clock(h) =< EvalCutoff)
      BY <1>8, <3>1, CutoffMargin
    <3> QED BY <1>2, <1>9, <2>2, <3>2 DEF Quiet
  <2> QED BY <1>1, <1>2, <1>7, <1>9, <2>1, <2>2 DEF EntriesOK, EntryInv, Quiet
<1>10. CASE Confirms(h)
  <2>1. ~ Late
    BY <1>10 DEF Confirms, EntryInv, EntriesOK, Stale
  <2>2. entries' = 0 /\ \A g \in Holder \ {h} : ~ Sure(g)'
    BY <1>2, <1>10, <2>1 DEF Confirms, EntryInv, EntriesOK, Late
  <2>3. now' + MaxSkew >= PlanAt["EXECUTION"]
    BY <1>1, <1>8, <1>10 DEF Confirms
  <2>4. ASSUME NEW g \in Holder, Waiting(g)' PROVE Stale(g)'
    <3>1. g # h /\ HasLease(g) /\ HasLease(h)
      BY <1>2, <1>3, <1>10, <2>4 DEF Confirms
    <3>2. held[g].token # held[h].token
      BY <3>1 DEF EntryInv, LeaseInv, DistinctTokens, TokenOf, HasLease
    <3> QED BY <1>1, <1>10, <3>1, <3>2 DEF Confirms, Stale
  <2> QED BY <2>2, <2>3, <2>4 DEF EntriesOK, Late
<1>11. CASE Enters(h)
  <2>1. Late /\ entries = 0 /\ \A g \in Holder \ {h} : ~ Sure(g)
    BY <1>11 DEF Enters, EntryInv, EntriesOK, Late
  <2>2. entries' = 1 /\ \A g \in Holder : ~ Sure(g)'
    BY <1>2, <1>11, <2>1 DEF Enters
  <2>3. now' + MaxSkew >= PlanAt["EXECUTION"]
    BY <1>1, <2>1 DEF EntryInv, EntriesOK
  <2>4. ASSUME NEW g \in Holder, Waiting(g)' PROVE Stale(g)'
    <3>1. Waiting(g)
      BY <1>2, <1>11, <2>4 DEF Enters
    <3> QED BY <1>7, <2>1, <2>4, <3>1 DEF EntryInv, EntriesOK
  <2> QED BY <2>2, <2>3, <2>4 DEF EntriesOK
<1> QED BY <1>9, <1>10, <1>11 DEF Local

\* Every step keeps the invariant.
LEMMA EntryInvNext == EntryInv /\ [SessionNext]_vars => EntryInv'
<1> SUFFICES ASSUME EntryInv, [SessionNext]_vars PROVE EntryInv'
  OBVIOUS
<1>1. LeaseInv /\ LeaseInv'
  BY SessionLeaseStep, LeaseNextInv DEF EntryInv
<1>2. ASSUME NEW h \in Holder, PlainStep(h) \/ LeaseStep(h) PROVE EntryInv'
  <2>1. Local(h)
    BY <1>2, LocalStep DEF EntryInv, SessionTypeOK
  <2>2. EntriesOK'
    BY <1>1, <1>2, <2>1, EntriesStep
  <2>3. SessionTypeOK'
    BY <1>1, <1>2, <2>1, <2>2, TableTypes DEF EntryInv, SessionTypeOK, LeaseInv, Local, EntriesOK
  <2>4. ASSUME NEW g \in Holder \ {h} PROVE LocalOK(g)'
    <3>1. run'[g] = run[g] /\ held'[g] = held[g] /\ Clock(g)' = Clock(g) /\ LocalOK(g)
      BY <1>1, <1>2, <2>1, LeaseStepFacts DEF EntryInv, Local, Clock
    <3> QED BY <3>1 DEF LocalOK, Shape, LeaseChecked, Where, HasLease
  <2> QED BY <1>1, <2>1, <2>2, <2>3, <2>4 DEF EntryInv, Local
<1>3. CASE SessionTick \/ OperatorKill \/ UNCHANGED vars
  <2>1. /\ UNCHANGED <<skew, row, held, run, runs, inactiveRow, entries>>
        /\ now' \in {now, now + 1} /\ latest' \in {latest, "active"}
    BY <1>3 DEF SessionTick, Tick, OperatorKill, SaveActive, vars, leaseVars, sessionVars
  <2>2. SessionTypeOK'
    BY <1>1, <2>1 DEF EntryInv, SessionTypeOK, LeaseInv, Switch
  <2>3. now \in Nat /\ PlanAt["EXECUTION"] \in Nat /\ MaxSkew \in Nat
    BY DEF EntryInv, LeaseInv, LeaseTypeOK, Timed
  <2>4. ASSUME NEW g \in Holder PROVE LocalOK(g)'
    <3>1. /\ Clock(g) \in Nat /\ Clock(g)' \in {Clock(g), Clock(g) + 1}
          /\ run[g].started \in Nat
      BY <2>1 DEF Clock, EntryInv, SessionTypeOK, LeaseTypeOK, Run
    <3> QED BY <2>1, <2>3, <3>1 DEF EntryInv, LocalOK, Shape, LeaseChecked, Where, HasLease
  <2>5. EntriesOK'
    BY <2>1, <2>3 DEF EntryInv, EntriesOK, Late, Sure, Waiting, Where, Stale
  <2> QED BY <1>1, <2>2, <2>4, <2>5 DEF EntryInv
<1> QED BY <1>2, <1>3, StepCases

\* The inductive invariant behind EntriesOnce: how the stage of a run, the
\* clock, the fencing tokens and the count of entries hang together.
THEOREM EntryInvariant == SessionSpec => []EntryInv
  BY EntryInvInit, EntryInvNext, PTL DEF SessionSpec

\* The locals of run and the kill-switch table keep their types.
THEOREM SessionTypeCorrect == SessionSpec => []SessionTypeOK
<1>1. EntryInv => SessionTypeOK
  BY DEF EntryInv
<1> QED BY <1>1, EntryInvariant, PTL

\* Entries begin at most once in a session, for any number of processes, calls
\* of run, crashes and failures, however long a process takes between the check of
\* its lease and the call of the hook (the evaluator cutoff and the lease together).
THEOREM SessionEntriesOnce == SessionSpec => []EntriesOnce
<1>1. EntryInv => EntriesOnce
  BY DEF EntryInv, EntriesOK, EntriesOnce
<1> QED BY <1>1, EntryInvariant, PTL

\* Only the call of a hook begins one.
LEMMA HookEntered ==
  ASSUME run \in [Holder -> Run], NEW h \in Holder, LocalOK(h),
         PlainStep(h) \/ LeaseStep(h), ~ LeavingStep(h),
         run[h].pc # "hook", run'[h].pc = "hook"
  PROVE  run[h].pc = "call"
<1> USE DEF At, Goto, CallRenew, Raise, Run
<1>1. CASE Begin(h)
  BY <1>1 DEF Begin, NoRun
<1>11. CASE ReadSwitch(h) \/ InitSwitch(h)
  BY <1>11 DEF ReadSwitch, InitSwitch
<1>2. CASE CheckSwitch(h) \/ Preflight(h)
  BY <1>2 DEF CheckSwitch, Preflight
<1>3. CASE WaitOver(h) \/ WaitSleep(h)
  BY <1>3 DEF WaitOver, WaitSleep
<1>4. CASE CheckEntryCutoff(h)
  BY <1>4 DEF CheckEntryCutoff
<1>5. CASE StartHook(h) \/ HookReturns(h)
  BY <1>5 DEF StartHook, HookReturns
<1>6. CASE EndPhase(h)
  BY <1>6 DEF EndPhase
<1>7. ASSUME NEW ts \in Readings(h), RenewCached(h, ts) PROVE FALSE
  <2>1. run'[h].pc = run[h].then
    BY <1>7 DEF RenewCached, RenewReturns
  <2> QED BY <2>1 DEF Returns
<1>8. CASE RenewAudited(h)
  <2>1. run'[h].pc = run[h].then
    BY <1>8 DEF RenewAudited, RenewReturns
  <2> QED BY <2>1 DEF Returns
<1>9. CASE AcquireAudited(h)
  BY <1>9 DEF AcquireAudited
<1>10. ASSUME NEW ts \in Readings(h), AcquireLeadership(h, ts) \/ RenewRow(h, ts) PROVE FALSE
  BY <1>10 DEF AcquireLeadership, RenewRow
<1> QED
  BY <1>1, <1>2, <1>3, <1>4, <1>5, <1>6, <1>7, <1>8, <1>9, <1>10, <1>11
     DEF PlainStep, LeaseStep, LeavingStep

\* A hook that is called within HookSlack of the reading its lease was checked
\* with starts in the process whose lease the row carries at that moment: the
\* renewal and the call are steps of their own, with any steps of others between.
THEOREM SessionHookLeader == SessionSpec => HookStartsAsLeader
<1> DEFINE Enter(g) == run[g].pc # "hook" /\ run'[g].pc = "hook" /\ Clock(g) - run[g].started =< HookSlack
           Leads(g) == row.holder = g /\ row.token = held[g].token /\ row.active
<1>1. ASSUME EntryInv, [SessionNext]_vars, NEW g \in Holder, Enter(g) PROVE Leads(g)
  <2>1. run[g].pc = "call"
    <3>1. CASE SessionTick \/ OperatorKill \/ UNCHANGED vars
      BY <1>1, <3>1 DEF SessionTick, OperatorKill, vars, sessionVars
    <3>2. ASSUME NEW h \in Holder, PlainStep(h) \/ LeaseStep(h) PROVE run[g].pc = "call"
      <4>1. run \in [Holder -> Run] /\ LocalOK(h) /\ latest \in Switch /\ LeaseInv
        BY <1>1 DEF EntryInv, SessionTypeOK
      <4>2. g = h
        BY <1>1, <3>2, <4>1, LocalStep DEF Local
      <4>3. ~ LeavingStep(h)
        BY <1>1, <4>1, <4>2, LeavingSteps DEF LocalOK, Leaves
      <4> QED BY <1>1, <3>2, <4>1, <4>2, <4>3, HookEntered
    <3> QED BY <1>1, <3>1, <3>2, StepCases
  <2>2. /\ HasLease(g) /\ run[g].started < held[g].renewed + RenewInterval
        /\ held[g].expires = held[g].renewed + Ttl
    BY <1>1, <2>1 DEF EntryInv, LocalOK, LeaseChecked, Where, Inside, LeaseInv, Issued, HasLease
  <2>3. /\ Clock(g) \in Nat /\ run[g].started \in Nat /\ held[g].renewed \in Nat
        /\ MaxSkew \in Nat /\ Ttl \in Nat /\ RenewInterval \in Nat
    BY <1>1 DEF EntryInv, SessionTypeOK, LeaseTypeOK, Lease, Run, Clock
  <2>4. Clock(g) + MaxSkew < held[g].expires
    BY <1>1, <2>2, <2>3 DEF HookSlack
  <2> QED BY <1>1, <2>2, <2>4, FreshLease DEF EntryInv
<1>2. EntryInv /\ [SessionNext]_vars
        => [\A h \in Holder :
              (run[h].pc # "hook" /\ run'[h].pc = "hook" /\ Clock(h) - run[h].started =< HookSlack)
                => row.holder = h /\ row.token = held[h].token /\ row.active]_vars
  BY <1>1
<1> QED BY <1>2, EntryInvariant, PTL DEF SessionSpec, HookStartsAsLeader

-----------------------------------------------------------------------------
(* The kill switch and the end of a run.  Before the session's first state *)
(* is stored, InitSwitch of a run that read the empty table may hide an    *)
(* active state, see the README, "Divergences"; from then on nothing does. *)

\* What stopped says of a run: the switch is active for good, and the run does not
\* get past the check of what it read.
StoppedOK(h) ==
  run[h].stopped =>
    /\ inactiveRow /\ latest = "active"
    /\ Where(h) \notin {"init", "probe", "wait", "cutoff", "call", "hook", "ended"}
    /\ Where(h) \in {"acquire", "granted", "acquired"} => run[h].seen = "active"

StoppedInv == \A h \in Holder : StoppedOK(h)

\* The places of a run that has got past the check of the switch.
PastCheck(h) ==
  Where(h) \in {"probe", "wait", "cutoff", "call", "hook", "ended", "kill", "alert",
                "flatten", "finish", "done"}

\* How each path leads to its end when the database does not fail.
EndOK(h) ==
  /\ run[h].seen = "inactive" => inactiveRow
  /\ Where(h) \in {"acquire", "granted", "acquired"} => run[h].seen # "none"
  /\ (PastCheck(h) /\ run[h].path \notin {"denied", "persistent"}) => inactiveRow
  /\ run[h].pc \notin {"kill", "alert", "flatten", "finish", "done"} => run[h].path = "normal"
  /\ run[h].pc = "kill" => run[h].path = "error"
  /\ run[h].pc = "alert" =>
       /\ run[h].path # "normal"
       /\ run[h].path = "denied" => run[h].outcome = "BLOCKED"
       /\ run[h].path = "persistent" => run[h].outcome = "KILLED"
       /\ run[h].path \in {"error", "incomplete"} => latest = "active"
  /\ run[h].pc = "flatten" =>
       \/ run[h].path = "normal"
       \/ /\ run[h].path \in {"error", "persistent"}
          /\ run[h].outcome = "KILLED"
          /\ run[h].path = "error" => latest = "active"
  /\ run[h].pc \in {"finish", "done"} =>
       /\ (run[h].outcome = "KILLED" /\ ~ run[h].unheard) => run[h].flat # "none"
       /\ (run[h].outcome \in {"COMPLETED", "NO_SETUPS"} /\ ~ run[h].unheard)
            => run[h].flat = "complete"
       /\ (/\ run[h].path # "denied" /\ run[h].flat # "complete"
           /\ run[h].path = "persistent" => run[h].stopped)
            => latest = "active"

EndInv ==
  /\ latest = "inactive" => inactiveRow
  /\ \A h \in Holder : EndOK(h)

\* A step saves an active state, the inactive one, or none.
Kept == UNCHANGED <<latest, inactiveRow>> \/ SaveActive \/ SaveInactive

\* Nothing else is done to the table.
LEMMA TableKept ==
  ASSUME [SessionNext]_vars PROVE Kept
<1> USE DEF Kept
<1>1. ASSUME NEW h \in Holder, LeaseStep(h) PROVE Kept
  BY <1>1 DEF LeaseStep, AcquireAudited, RenewAudited, AuditFails, Crash, AcquireLeadership,
              RenewRow, Finish
<1>2. ASSUME NEW h \in Holder,
             \/ Begin(h) \/ ReadSwitch(h) \/ InitSwitch(h) \/ AcquireRaises(h)
             \/ CheckSwitch(h) \/ CheckSwitchRaises(h)
             \/ Preflight(h) \/ PreflightRaises(h) \/ WaitOver(h) \/ WaitSleep(h)
             \/ CheckEntryCutoff(h) \/ StartHook(h) \/ HookReturns(h) \/ HookRaises(h)
             \/ EndPhase(h) \/ EndPhaseRaises(h)
      PROVE  Kept
  BY <1>2 DEF Begin, ReadSwitch, InitSwitch, AcquireRaises, CheckSwitch, CheckSwitchRaises,
     Preflight, PreflightRaises, WaitOver, WaitSleep, CheckEntryCutoff, StartHook, HookReturns,
     HookRaises, EndPhase, EndPhaseRaises
<1>3. ASSUME NEW h \in Holder,
             \/ ActivateSwitch(h) \/ ActivateSwitchRaises(h)
             \/ AlertSent(h) \/ AlertRaises(h) \/ FlattenRaises(h)
             \/ \E complete \in BOOLEAN : FlattenEnds(h, complete)
      PROVE  Kept
  BY <1>3 DEF ActivateSwitch, ActivateSwitchRaises, AlertSent, AlertRaises, FlattenRaises,
     FlattenEnds
<1>4. ASSUME NEW h \in Holder, NEW ts \in Readings(h),
             AcquireDenied(h, ts) \/ RenewCached(h, ts) \/ RenewRaises(h, ts)
      PROVE  Kept
  BY <1>4 DEF AcquireDenied, RenewCached, RenewRaises
<1>5. ASSUME OperatorKill PROVE Kept
  BY <1>5 DEF OperatorKill
<1>6. ASSUME SessionTick \/ UNCHANGED vars PROVE Kept
  BY <1>6 DEF SessionTick, vars, sessionVars
<1> HIDE DEF Kept
<1> QED BY <1>1, <1>2, <1>3, <1>4, <1>5, <1>6, StepCases DEF PlainStep

\* With the inactive state in the table nobody saves it again, so the switch stays
\* active.
LEMMA SwitchStays ==
  ASSUME inactiveRow, [SessionNext]_vars
  PROVE  inactiveRow' /\ latest' \in {latest, "active"}
  BY TableKept DEF Kept, SaveActive, SaveInactive

\* A step changes the record of one process at most.
LEMMA OneRunMoves ==
  ASSUME EntryInv, [SessionNext]_vars, NEW g \in Holder
  PROVE  run'[g] = run[g] \/ PlainStep(g) \/ LeaseStep(g)
<1>1. CASE SessionTick \/ OperatorKill \/ UNCHANGED vars
  BY <1>1 DEF SessionTick, OperatorKill, vars, sessionVars
<1>2. ASSUME NEW h \in Holder, PlainStep(h) \/ LeaseStep(h), g # h PROVE run'[g] = run[g]
  <2>1. Local(h)
    BY <1>2, LocalStep DEF EntryInv, SessionTypeOK
  <2> QED BY <1>2, <2>1 DEF Local
<1> QED BY <1>1, <1>2, StepCases

\* Whether a run was stopped at its beginning is not forgotten before it ends.
LEMMA StoppedKept ==
  ASSUME run \in [Holder -> Run], NEW h \in Holder, LeavingStep(h), ~ Crash(h)
  PROVE  run'[h].stopped = run[h].stopped
<1> USE DEF Goto, Raise, Run
<1>1. CASE \/ AcquireRaises(h) \/ CheckSwitchRaises(h) \/ PreflightRaises(h)
           \/ HookRaises(h) \/ EndPhaseRaises(h) \/ AuditFails(h)
  BY <1>1 DEF AcquireRaises, CheckSwitchRaises, PreflightRaises, HookRaises,
     EndPhaseRaises, AuditFails
<1>2. CASE ActivateSwitch(h) \/ ActivateSwitchRaises(h) \/ AlertRaises(h)
  BY <1>2 DEF ActivateSwitch, ActivateSwitchRaises, AlertRaises
<1>3. CASE AlertSent(h)
  BY <1>3 DEF AlertSent
<1>4. CASE FlattenRaises(h)
  BY <1>4 DEF FlattenRaises
<1>5. ASSUME NEW complete \in BOOLEAN, FlattenEnds(h, complete)
      PROVE  run'[h].stopped = run[h].stopped
  BY <1>5 DEF FlattenEnds
<1>6. ASSUME NEW ts \in Readings(h), AcquireDenied(h, ts) \/ RenewRaises(h, ts) \/ Finish(h, ts)
      PROVE  run'[h].stopped = run[h].stopped
  BY <1>6 DEF AcquireDenied, RenewRaises, Finish
<1> QED BY <1>1, <1>2, <1>3, <1>4, <1>5, <1>6 DEF LeavingStep

\* What the steps of a run do to what it has seen of the switch.
LEMMA StoppedStep ==
  ASSUME EntryInv, StoppedInv, [SessionNext]_vars,
         NEW h \in Holder, PlainStep(h) \/ LeaseStep(h)
  PROVE  StoppedOK(h)'
<1> USE DEF At, Goto, CallRenew, StoppedOK, Where
<1>1. /\ run \in [Holder -> Run] /\ StoppedOK(h) /\ LocalOK(h) /\ Shape(h)
      /\ inactiveRow => inactiveRow' /\ latest' \in {latest, "active"}
  BY SwitchStays DEF EntryInv, SessionTypeOK, StoppedInv, LocalOK
<1>2. CASE Begin(h)
  BY <1>1, <1>2 DEF Begin, NoRun, Run
<1>3. CASE ReadSwitch(h) \/ InitSwitch(h)
  BY <1>1, <1>3 DEF ReadSwitch, InitSwitch, Run
<1>4. CASE CheckSwitch(h)
  BY <1>1, <1>4 DEF CheckSwitch, Run
<1>5. CASE Crash(h)
  BY <1>1, <1>5 DEF Crash, NoRun, Run
<1>6. CASE LeavingStep(h) /\ ~ Crash(h)
  <2>1. /\ run'[h].pc \in {"idle", "kill", "alert", "flatten", "finish", "done"}
        /\ run'[h].then = "none"
    BY <1>1, <1>6, LeavingSteps DEF Leaves
  <2>2. run'[h].stopped = run[h].stopped
    BY <1>1, <1>6, StoppedKept
  <2> QED BY <1>1, <2>1, <2>2
<1>7. CASE Preflight(h) \/ WaitOver(h) \/ WaitSleep(h) \/ CheckEntryCutoff(h)
  BY <1>1, <1>7 DEF Preflight, WaitOver, WaitSleep, CheckEntryCutoff, Raise, Run
<1>8. CASE StartHook(h) \/ HookReturns(h) \/ EndPhase(h)
  BY <1>1, <1>8 DEF StartHook, HookReturns, EndPhase, Run
<1>9. ASSUME NEW ts \in Readings(h), RenewCached(h, ts) PROVE StoppedOK(h)'
  BY <1>1, <1>9 DEF RenewCached, RenewReturns, Run, Shape
<1>10. CASE AcquireAudited(h) \/ RenewAudited(h)
  BY <1>1, <1>10 DEF AcquireAudited, RenewAudited, RenewReturns, Run, Shape
<1>11. ASSUME NEW ts \in Readings(h), AcquireLeadership(h, ts) \/ RenewRow(h, ts)
       PROVE  StoppedOK(h)'
  BY <1>1, <1>11 DEF AcquireLeadership, RenewRow, Run
<1> QED
  BY <1>2, <1>3, <1>4, <1>5, <1>6, <1>7, <1>8, <1>9, <1>10, <1>11 DEF PlainStep, LeaseStep, LeavingStep

\* Every step keeps it.
LEMMA StoppedNextInv == EntryInv /\ StoppedInv /\ [SessionNext]_vars => StoppedInv'
<1> SUFFICES ASSUME EntryInv, StoppedInv, [SessionNext]_vars, NEW g \in Holder
             PROVE  StoppedOK(g)'
  BY DEF StoppedInv
<1>1. CASE run'[g] = run[g]
  BY <1>1, SwitchStays DEF StoppedInv, StoppedOK, Where
<1>2. CASE PlainStep(g) \/ LeaseStep(g)
  BY <1>2, StoppedStep
<1> QED BY <1>1, <1>2, OneRunMoves

\* Once the session's first kill-switch state is stored, a run that begins while
\* the switch is active starts no hook, for any number of processes, whatever other
\* runs - those that read the empty table and store the inactive state late among
\* them - crashes and the operator do meanwhile.
THEOREM StoppedRunStartsNothing == SessionSpec => []NoHookInStoppedRun
<1>1. SessionInit => StoppedInv
  BY DEF SessionInit, StoppedInv, StoppedOK, NoRun
<1>2. StoppedInv => NoHookInStoppedRun
  BY DEF StoppedInv, StoppedOK, Where, NoHookInStoppedRun, At
<1> QED BY <1>1, <1>2, StoppedNextInv, EntryInvariant, PTL DEF SessionSpec

\* What the steps of a run do to the way it will end.
LEMMA EndStep ==
  ASSUME "database" \notin Faulty,
         EntryInv, StoppedInv, EndInv, [SessionNext]_vars,
         NEW h \in Holder, PlainStep(h) \/ LeaseStep(h)
  PROVE  EndOK(h)'
<1> USE DEF At, Goto, CallRenew, Raise, EndOK, Where, PastCheck, Run
<1>1. /\ run \in [Holder -> Run] /\ EndOK(h) /\ StoppedOK(h) /\ Shape(h)
      /\ inactiveRow => inactiveRow' /\ latest' \in {latest, "active"}
      /\ "database" \notin Faulty /\ latest \in Switch
  BY SwitchStays DEF EntryInv, SessionTypeOK, StoppedInv, EndInv, LocalOK
<1>2. CASE Begin(h)
  BY <1>1, <1>2 DEF Begin, NoRun
<1>3. CASE Crash(h)
  BY <1>1, <1>3 DEF Crash, NoRun
<1>4. CASE ReadSwitch(h)
  BY <1>1, <1>4 DEF ReadSwitch, EndInv, Switch
<1>5. CASE InitSwitch(h)
  BY <1>1, <1>5 DEF InitSwitch, SaveInactive
<1>6. CASE CheckSwitch(h)
  BY <1>1, <1>6 DEF CheckSwitch, Switch
<1>7. CASE \/ AcquireRaises(h) \/ CheckSwitchRaises(h) \/ AuditFails(h) \/ ActivateSwitchRaises(h)
  BY <1>1, <1>7 DEF AcquireRaises, CheckSwitchRaises, AuditFails, ActivateSwitchRaises
<1>8. CASE PreflightRaises(h) \/ HookRaises(h) \/ EndPhaseRaises(h)
  BY <1>1, <1>8 DEF PreflightRaises, HookRaises, EndPhaseRaises
<1>9. CASE Preflight(h) \/ WaitSleep(h) \/ CheckEntryCutoff(h)
  BY <1>1, <1>9 DEF Preflight, WaitSleep, CheckEntryCutoff
<1>10. CASE WaitOver(h)
  BY <1>1, <1>10 DEF WaitOver
<1>11. CASE StartHook(h) \/ HookReturns(h)
  BY <1>1, <1>11 DEF StartHook, HookReturns
<1>12. CASE EndPhase(h)
  BY <1>1, <1>12 DEF EndPhase
<1>13. CASE ActivateSwitch(h)
  BY <1>1, <1>13 DEF ActivateSwitch, SaveActive
<1>14. CASE AlertRaises(h)
  <2>1. CASE run[h].path = "incomplete"
    BY <1>1, <1>14, <2>1 DEF AlertRaises
  <2>2. CASE run[h].path # "incomplete"
    <3>1. /\ run[h].pc = "alert" /\ UNCHANGED <<latest, inactiveRow>>
          /\ run'[h].pc = "finish" /\ run'[h].path = run[h].path /\ run'[h].unheard
          /\ run'[h].seen = run[h].seen /\ run'[h].then = run[h].then
          /\ run'[h].outcome = run[h].outcome /\ run'[h].stopped = run[h].stopped
      BY <1>1, <1>14, <2>2 DEF AlertRaises
    <3> QED BY <1>1, <2>2, <3>1 DEF StoppedOK, Paths
  <2> QED BY <2>1, <2>2
<1>15. CASE AlertSent(h)
  BY <1>1, <1>15 DEF AlertSent, Paths
<1>16. CASE FlattenRaises(h)
  <2>1. PICK f \in (IF run[h].flat = "none" THEN {"raised"} ELSE {run[h].flat}) \cup
                   (IF run[h].path = "normal" /\ "database" \in Faulty
                    THEN {"complete", "incomplete"} ELSE {}) :
          run' = [run EXCEPT ![h].pc = IF run[h].path = "normal" THEN "kill" ELSE "finish",
                             ![h].stage = "PREFLIGHT",
                             ![h].path = IF run[h].path = "normal" THEN "error" ELSE run[h].path,
                             ![h].flat = f]
    BY <1>16 DEF FlattenRaises
  <2>2. /\ f # "none" /\ (run[h].flat = "complete" => f = "complete")
        /\ (f = "complete" => run[h].flat = "complete")
        /\ run[h].pc = "flatten" /\ UNCHANGED <<latest, inactiveRow>>
    BY <1>1, <1>16, <2>1 DEF FlattenRaises
  <2>3. CASE run[h].path = "normal"
    BY <1>1, <2>1, <2>2, <2>3
  <2>4. CASE run[h].path # "normal"
    <3>1. /\ run'[h].pc = "finish" /\ run'[h].path = run[h].path /\ run'[h].flat = f
          /\ run'[h].seen = run[h].seen /\ run'[h].then = run[h].then
          /\ run'[h].outcome = run[h].outcome /\ run'[h].unheard = run[h].unheard
          /\ run'[h].stopped = run[h].stopped
      BY <1>1, <2>1, <2>4
    <3> QED BY <1>1, <2>2, <2>4, <3>1 DEF StoppedOK
  <2> QED BY <2>3, <2>4
<1>17. ASSUME NEW complete \in BOOLEAN, FlattenEnds(h, complete) PROVE EndOK(h)'
  <2>1. CASE run[h].path = "normal" /\ ~ complete
    BY <1>1, <1>17, <2>1 DEF FlattenEnds, SaveActive
  <2>2. CASE ~ (run[h].path = "normal" /\ ~ complete)
    <3>1. /\ run[h].pc = "flatten" /\ UNCHANGED <<latest, inactiveRow>>
          /\ run'[h].pc = "finish" /\ run'[h].path = run[h].path
          /\ run'[h].flat = (IF complete THEN "complete" ELSE "incomplete")
          /\ run'[h].seen = run[h].seen /\ run'[h].then = run[h].then
          /\ run'[h].outcome = run[h].outcome /\ run'[h].unheard = run[h].unheard
          /\ run'[h].stopped = run[h].stopped
      BY <1>1, <1>17, <2>2 DEF FlattenEnds
    <3> QED BY <1>1, <2>2, <3>1 DEF StoppedOK
  <2> QED BY <2>1, <2>2
<1>18. ASSUME NEW ts \in Readings(h), AcquireDenied(h, ts) PROVE EndOK(h)'
  BY <1>1, <1>18 DEF AcquireDenied
<1>19. ASSUME NEW ts \in Readings(h), RenewRaises(h, ts) PROVE EndOK(h)'
  BY <1>1, <1>19 DEF RenewRaises, Shape, Returns
<1>20. ASSUME NEW ts \in Readings(h), RenewCached(h, ts) PROVE EndOK(h)'
  BY <1>1, <1>20 DEF RenewCached, RenewReturns, Shape, Returns
<1>21. ASSUME NEW ts \in Readings(h), AcquireLeadership(h, ts) \/ RenewRow(h, ts)
       PROVE  EndOK(h)'
  BY <1>1, <1>21 DEF AcquireLeadership, RenewRow
<1>22. CASE AcquireAudited(h)
  BY <1>1, <1>22 DEF AcquireAudited
<1>23. CASE RenewAudited(h)
  BY <1>1, <1>23 DEF RenewAudited, RenewReturns, Shape, Returns
<1>24. ASSUME NEW ts \in Readings(h), Finish(h, ts) PROVE EndOK(h)'
  BY <1>1, <1>24 DEF Finish
<1> QED
  BY <1>2, <1>3, <1>4, <1>5, <1>6, <1>7, <1>8, <1>9, <1>10, <1>11, <1>12, <1>13, <1>14, <1>15,
     <1>16, <1>17, <1>18, <1>19, <1>20, <1>21, <1>22, <1>23, <1>24 DEF PlainStep, LeaseStep

\* However a run ends: a killed run has flattened, a clean result is flat, and whatever else
\* happened leaves the switch active, whichever hook, probe, alert or flatten raised.  A database
\* that fails inside a handler of run ends it without that.
THEOREM RunsEndSafely ==
  ASSUME "database" \notin Faulty
  PROVE  SessionSpec => []EndIsSafe
<1>1. SessionInit => StoppedInv /\ EndInv
  BY DEF SessionInit, StoppedInv, StoppedOK, EndInv, EndOK, PastCheck, Where, NoRun
<1>2. EntryInv /\ StoppedInv /\ EndInv /\ [SessionNext]_vars => StoppedInv' /\ EndInv'
  <2> SUFFICES ASSUME EntryInv, StoppedInv, EndInv, [SessionNext]_vars
               PROVE  StoppedInv' /\ EndInv'
    OBVIOUS
  <2>1. StoppedInv'
    BY StoppedNextInv
  <2>2. ASSUME NEW g \in Holder PROVE EndOK(g)'
    <3>1. CASE run'[g] = run[g]
      BY <3>1, SwitchStays DEF EndInv, EndOK, StoppedInv, StoppedOK, PastCheck, Where
    <3>2. CASE PlainStep(g) \/ LeaseStep(g)
      BY <3>2, EndStep
    <3> QED BY <3>1, <3>2, OneRunMoves
  <2>3. latest' = "inactive" => inactiveRow'
    BY TableKept DEF Kept, SaveActive, SaveInactive, EndInv
  <2> QED BY <2>1, <2>2, <2>3 DEF EndInv
<1>3. StoppedInv /\ EndInv => EndIsSafe
  BY DEF EndInv, EndOK, EndIsSafe, KilledRunFlattens, CleanResultIsFlat, UnsafeEndLeavesSwitch, At
<1> QED BY <1>1, <1>2, <1>3, EntryInvariant, PTL DEF SessionSpec

-----------------------------------------------------------------------------
(* Flatten.                                                                *)

USE FlattenAssumption DEF FlattenAssumption

(***************************************************************************)
(* What makes the two properties inductive: a listing is capped by the     *)
(* target and by what was ever in the account, and submitted_quantities is *)
(* exactly what the broker accepted.                                       *)
(***************************************************************************)
Covered(s) ==
    /\ seen[s] <= target[s]
    /\ seen[s] <= foreign[s] + bought[s]
    /\ submitted[s] = issued[s]
    /\ submitted[s] <= target[s]
    /\ submitted[s] <= foreign[s] + bought[s]
    /\ pc = "discover" => seen[s] = 0 /\ submitted[s] = 0

FlattenInv == FlattenTypeOK /\ \A s \in Symbol : Covered(s)

(***************************************************************************)
(* In the first call the accepted closes are the open and the filled ones. *)
(***************************************************************************)
FirstCall == calls = 1 => \A s \in Symbol : issued[s] = closing[s] + closed[s]

(* The initial quantities and an empty call satisfy the invariant.          *)
LEMMA FlattenInitInv == FlattenInit => FlattenInv /\ FirstCall
<1> SUFFICES ASSUME FlattenInit PROVE FlattenInv /\ FirstCall
  OBVIOUS
<1>1. FlattenTypeOK
  <2>1. errors \in BOOLEAN /\ expired \in BOOLEAN
    BY DEF FlattenInit
  <2>2. bought \in Quantity /\ open \in Quantity /\ foreign \in Quantity
    <3>1. /\ bought \in [Symbol -> 0..MaxQty] /\ open \in [Symbol -> 0..MaxQty]
          /\ foreign \in [Symbol -> Foreign]
      BY DEF FlattenInit
    <3>2. 0..MaxQty \subseteq Nat /\ Foreign \subseteq Nat
      OBVIOUS
    <3> QED  BY <3>1, <3>2 DEF Quantity
  <2>3. leg \in Quantity /\ ledger \in Quantity
    BY <2>2 DEF FlattenInit, Quantity, Ledger
  <2>4. /\ sold \in Quantity /\ closing \in Quantity /\ closed \in Quantity
        /\ target \in Quantity /\ seen \in Quantity /\ submitted \in Quantity
        /\ issued \in Quantity /\ fresh \in Quantity
    BY DEF FlattenInit, Quantity, None
  <2>5. \A s \in Symbol : Account(s) >= 0
    BY <2>2 DEF FlattenInit, Quantity, None, Account
  <2>6. /\ pc = "discover" /\ outcome = "none" /\ todo = {} /\ canceling = {}
        /\ calls \in 1..MaxCalls /\ lost \in 0..MaxLost
    BY DEF FlattenInit
  <2> QED  BY <2>1, <2>2, <2>3, <2>4, <2>5, <2>6 DEF FlattenTypeOK
<1>2. FirstCall /\ \A s \in Symbol : Covered(s)
  BY <1>1 DEF FlattenInit, FlattenTypeOK, Quantity, None, Covered, FirstCall
<1> QED  BY <1>1, <1>2 DEF FlattenInv

(***************************************************************************)
(* Every step keeps the types: a close or an exit sells at most what the   *)
(* account holds, and only positive quantities are closed.                 *)
(***************************************************************************)
LEMMA FlattenStepType == FlattenTypeOK /\ [FlattenNext]_flattenVars => FlattenTypeOK'
<1> SUFFICES ASSUME FlattenTypeOK, [FlattenNext]_flattenVars PROVE FlattenTypeOK'
  OBVIOUS
<1> USE DEF FlattenTypeOK, Quantity, Account, market
<1>1. CASE Discover
  BY <1>1 DEF Discover, Discovered, Larger
<1>2. CASE DiscoverRaises
  BY <1>2 DEF DiscoverRaises
<1>3. CASE CancelOrders
  BY <1>3 DEF CancelOrders, Targets, LiveOrders, Unlisted
<1>4. CASE CancelOrdersRaises
  BY <1>4 DEF CancelOrdersRaises, Targets, LiveOrders, Unlisted
<1>5. CASE ListEnds
  BY <1>5 DEF ListEnds, GoTo, Listed
<1>6. CASE ListRaises
  BY <1>6 DEF ListRaises, None
<1>7. CASE VerifyRaises
  BY <1>7 DEF VerifyRaises
<1>8. CASE CloseEnds
  BY <1>8 DEF CloseEnds, GoTo
<1>9. CASE Wake
  BY <1>9 DEF Wake, GoTo
<1>10. CASE Poll
  BY <1>10 DEF Poll, Targets, Unlisted
<1>11. CASE PollExpired
  BY <1>11 DEF PollExpired, Return
<1>12. CASE VerifyEnds
  BY <1>12 DEF VerifyEnds, Return, GoTo, Listed
<1>13. CASE DeadlinePasses
  BY <1>13 DEF DeadlinePasses
<1>14. CASE FlattenAgain
  <2>1. errors' \in BOOLEAN /\ expired' \in BOOLEAN
    BY <1>14 DEF FlattenAgain
  <2>2. /\ ledger' \in Quantity /\ target' \in Quantity /\ seen' \in Quantity
        /\ submitted' \in Quantity /\ issued' \in Quantity
    BY <1>14 DEF FlattenAgain, None
  <2>3. calls' \in 1..MaxCalls
    BY <1>14 DEF FlattenAgain
  <2> QED  BY <1>14, <2>1, <2>2, <2>3 DEF FlattenAgain
<1>15. ASSUME NEW s \in Symbol, ListPosition(s) PROVE FlattenTypeOK'
  BY <1>15 DEF ListPosition, Smaller
<1>16. ASSUME NEW s \in Symbol, CloseUncovered(s) PROVE FlattenTypeOK'
  BY <1>16 DEF CloseUncovered, Uncovered, Plus
<1>17. ASSUME NEW s \in Symbol, CloseRefused(s) PROVE FlattenTypeOK'
  BY <1>17 DEF CloseRefused
<1>18. ASSUME NEW s \in Symbol, CloseAmbiguous(s) PROVE FlattenTypeOK'
  BY <1>18 DEF CloseAmbiguous, Uncovered, Plus
<1>19. ASSUME NEW s \in Symbol, CloseCovered(s) PROVE FlattenTypeOK'
  BY <1>19 DEF CloseCovered, GoTo
<1>20. ASSUME NEW s \in Symbol, ParentFills(s) PROVE FlattenTypeOK'
  BY <1>20 DEF ParentFills, Plus, service, Larger
<1>21. ASSUME NEW s \in Symbol, LegFills(s) PROVE FlattenTypeOK'
  BY <1>21 DEF LegFills, Plus, service, Smaller
<1>22. ASSUME NEW s \in Symbol, CancelSettles(s) PROVE FlattenTypeOK'
  BY <1>22 DEF CancelSettles, service
<1>23. ASSUME NEW s \in Symbol, CloseFills(s) PROVE FlattenTypeOK'
  BY <1>23 DEF CloseFills, Plus, service, Smaller
<1>24. CASE UNCHANGED flattenVars
  BY <1>24 DEF flattenVars, service
<1> QED
  BY <1>1, <1>2, <1>3, <1>4, <1>5, <1>6, <1>7, <1>8, <1>9, <1>10, <1>11, <1>12, <1>13, <1>14, <1>15, <1>16, <1>17, <1>18, <1>19, <1>20, <1>21, <1>22, <1>23, <1>24 DEF FlattenNext, ServiceStep, BrokerStep

(* Every step keeps the coverage of each symbol.                            *)
LEMMA FlattenStepCovered ==
    ASSUME MaxLost = 0
    PROVE  FlattenInv /\ [FlattenNext]_flattenVars => \A s \in Symbol : Covered(s)'
<1> SUFFICES ASSUME MaxLost = 0, FlattenInv, [FlattenNext]_flattenVars, NEW t \in Symbol
             PROVE  Covered(t)'
  OBVIOUS
<1> USE DEF FlattenInv, FlattenTypeOK, Quantity, Account, market, Covered
<1>1. CASE Discover
  BY <1>1 DEF Discover, Discovered, Larger
<1>2. CASE DiscoverRaises
  BY <1>2 DEF DiscoverRaises
<1>3. CASE CancelOrders
  BY <1>3 DEF CancelOrders, Targets, LiveOrders, Unlisted
<1>4. CASE CancelOrdersRaises
  BY <1>4 DEF CancelOrdersRaises, Targets, LiveOrders, Unlisted
<1>5. CASE ListEnds
  BY <1>5 DEF ListEnds, GoTo, Listed
<1>6. CASE ListRaises
  BY <1>6 DEF ListRaises, None
<1>7. CASE VerifyRaises
  BY <1>7 DEF VerifyRaises
<1>8. CASE CloseEnds
  BY <1>8 DEF CloseEnds, GoTo
<1>9. CASE Wake
  BY <1>9 DEF Wake, GoTo
<1>10. CASE Poll
  BY <1>10 DEF Poll, Targets, Unlisted
<1>11. CASE PollExpired
  BY <1>11 DEF PollExpired, Return
<1>12. CASE VerifyEnds
  BY <1>12 DEF VerifyEnds, Return, GoTo, Listed
<1>13. CASE DeadlinePasses
  BY <1>13 DEF DeadlinePasses
<1>14. CASE FlattenAgain
  BY <1>14 DEF FlattenAgain, None
<1>15. ASSUME NEW s \in Symbol, ListPosition(s) PROVE Covered(t)'
  BY <1>15 DEF ListPosition, Smaller
<1>16. ASSUME NEW s \in Symbol, CloseUncovered(s) PROVE Covered(t)'
  BY <1>16 DEF CloseUncovered, Uncovered, Plus
<1>17. ASSUME NEW s \in Symbol, CloseRefused(s) PROVE Covered(t)'
  BY <1>17 DEF CloseRefused
<1>18. ASSUME NEW s \in Symbol, CloseAmbiguous(s) PROVE Covered(t)'
  BY <1>18 DEF CloseAmbiguous, Uncovered, Plus
<1>19. ASSUME NEW s \in Symbol, CloseCovered(s) PROVE Covered(t)'
  BY <1>19 DEF CloseCovered, GoTo
<1>20. ASSUME NEW s \in Symbol, ParentFills(s) PROVE Covered(t)'
  BY <1>20 DEF ParentFills, Plus, service, Larger
<1>21. ASSUME NEW s \in Symbol, LegFills(s) PROVE Covered(t)'
  BY <1>21 DEF LegFills, Plus, service, Smaller
<1>22. ASSUME NEW s \in Symbol, CancelSettles(s) PROVE Covered(t)'
  BY <1>22 DEF CancelSettles, service
<1>23. ASSUME NEW s \in Symbol, CloseFills(s) PROVE Covered(t)'
  BY <1>23 DEF CloseFills, Plus, service, Smaller
<1>24. CASE UNCHANGED flattenVars
  BY <1>24 DEF flattenVars, service
<1> QED
  BY <1>1, <1>2, <1>3, <1>4, <1>5, <1>6, <1>7, <1>8, <1>9, <1>10, <1>11, <1>12, <1>13, <1>14, <1>15, <1>16, <1>17, <1>18, <1>19, <1>20, <1>21, <1>22, <1>23, <1>24 DEF FlattenNext, ServiceStep, BrokerStep

(* In the first call every step keeps the account of the accepted closes.   *)
LEMMA FlattenStepFirst ==
    FlattenInv /\ FirstCall /\ [FlattenNext]_flattenVars => FirstCall'
<1> SUFFICES ASSUME FlattenInv, FirstCall, [FlattenNext]_flattenVars PROVE FirstCall'
  OBVIOUS
<1> USE DEF FlattenInv, FlattenTypeOK, Quantity, market, FirstCall
<1>1. CASE Discover
  BY <1>1 DEF Discover, Discovered, Larger
<1>2. CASE DiscoverRaises
  BY <1>2 DEF DiscoverRaises
<1>3. CASE CancelOrders
  BY <1>3 DEF CancelOrders, Targets, LiveOrders, Unlisted
<1>4. CASE CancelOrdersRaises
  BY <1>4 DEF CancelOrdersRaises, Targets, LiveOrders, Unlisted
<1>5. CASE ListEnds
  BY <1>5 DEF ListEnds, GoTo, Listed
<1>6. CASE ListRaises
  BY <1>6 DEF ListRaises, None
<1>7. CASE VerifyRaises
  BY <1>7 DEF VerifyRaises
<1>8. CASE CloseEnds
  BY <1>8 DEF CloseEnds, GoTo
<1>9. CASE Wake
  BY <1>9 DEF Wake, GoTo
<1>10. CASE Poll
  BY <1>10 DEF Poll, Targets, Unlisted
<1>11. CASE PollExpired
  BY <1>11 DEF PollExpired, Return
<1>12. CASE VerifyEnds
  BY <1>12 DEF VerifyEnds, Return, GoTo, Listed
<1>13. CASE DeadlinePasses
  BY <1>13 DEF DeadlinePasses
<1>14. CASE FlattenAgain
  BY <1>14 DEF FlattenAgain, None
<1>15. ASSUME NEW s \in Symbol, ListPosition(s) PROVE FirstCall'
  BY <1>15 DEF ListPosition, Smaller
<1>16. ASSUME NEW s \in Symbol, CloseUncovered(s) PROVE FirstCall'
  BY <1>16 DEF CloseUncovered, Uncovered, Plus
<1>17. ASSUME NEW s \in Symbol, CloseRefused(s) PROVE FirstCall'
  BY <1>17 DEF CloseRefused
<1>18. ASSUME NEW s \in Symbol, CloseAmbiguous(s) PROVE FirstCall'
  BY <1>18 DEF CloseAmbiguous, Uncovered, Plus
<1>19. ASSUME NEW s \in Symbol, CloseCovered(s) PROVE FirstCall'
  BY <1>19 DEF CloseCovered, GoTo
<1>20. ASSUME NEW s \in Symbol, ParentFills(s) PROVE FirstCall'
  BY <1>20 DEF ParentFills, Plus, service, Larger
<1>21. ASSUME NEW s \in Symbol, LegFills(s) PROVE FirstCall'
  BY <1>21 DEF LegFills, Plus, service, Smaller
<1>22. ASSUME NEW s \in Symbol, CancelSettles(s) PROVE FirstCall'
  BY <1>22 DEF CancelSettles, service
<1>23. ASSUME NEW s \in Symbol, CloseFills(s) PROVE FirstCall'
  BY <1>23 DEF CloseFills, Plus, service, Smaller
<1>24. CASE UNCHANGED flattenVars
  BY <1>24 DEF flattenVars, service
<1> QED
  BY <1>1, <1>2, <1>3, <1>4, <1>5, <1>6, <1>7, <1>8, <1>9, <1>10, <1>11, <1>12, <1>13, <1>14, <1>15, <1>16, <1>17, <1>18, <1>19, <1>20, <1>21, <1>22, <1>23, <1>24 DEF FlattenNext, ServiceStep, BrokerStep

(***************************************************************************)
(* The invariant of flatten when no accepted close raises.                 *)
(***************************************************************************)
THEOREM FlattenInvariant ==
    ASSUME MaxLost = 0
    PROVE  FlattenSpec => [](FlattenInv /\ FirstCall)
<1>1. FlattenInv /\ FirstCall /\ [FlattenNext]_flattenVars => (FlattenInv /\ FirstCall)'
  BY FlattenStepType, FlattenStepCovered, FlattenStepFirst DEF FlattenInv
<1> QED  BY FlattenInitInv, <1>1, PTL DEF FlattenSpec

(***************************************************************************)
(* Type correctness of flatten, for every number of symbols and shares.    *)
(***************************************************************************)
THEOREM FlattenTypeCorrect == FlattenSpec => []FlattenTypeOK
<1>1. FlattenInit => FlattenTypeOK
  BY FlattenInitInv DEF FlattenInv
<1> QED  BY <1>1, FlattenStepType, PTL DEF FlattenSpec

(***************************************************************************)
(* However parents, exits and closes fill around the polls, and however    *)
(* often flatten is called, no call closes more than its target.           *)
(***************************************************************************)
THEOREM FlattenWithinTarget ==
    ASSUME MaxLost = 0
    PROVE  FlattenSpec => []ClosesWithinTarget
<1>1. FlattenInv => ClosesWithinTarget
  BY DEF FlattenInv, Covered, ClosesWithinTarget, FlattenTypeOK, Quantity
<1> QED  BY FlattenInvariant, <1>1, PTL

(***************************************************************************)
(* A single call never has more closes waiting than the account holds.     *)
(***************************************************************************)
THEOREM FlattenNoDuplicate ==
    ASSUME MaxLost = 0, MaxCalls = 1
    PROVE  FlattenSpec => []NoDuplicateClose
<1>1. FlattenInv /\ FirstCall => NoDuplicateClose
  BY DEF FlattenInv, Covered, FirstCall, NoDuplicateClose, FlattenTypeOK, Quantity, Account
<1> QED  BY FlattenInvariant, <1>1, PTL

-----------------------------------------------------------------------------
(***************************************************************************)
(* Completion.  While no request has failed, a target that was listed as   *)
(* empty holds no more than was bought since; a call is complete only when *)
(* every target was.  Lost closes, earlier calls and shares of others make *)
(* no difference here.                                                     *)
(***************************************************************************)
FlatOK(s) ==
    (/\ ~ errors /\ pc \notin {"discover", "cancel"} /\ (pc = "list" => s \notin todo)
     /\ target[s] > 0 /\ seen[s] = 0)
        => Account(s) - foreign[s] <= fresh[s]

FlatInv ==
    /\ \A s \in Symbol : FlatOK(s)
    /\ outcome = "complete" => pc = "done" /\ ~ errors /\ Listed = {}

(* Every step keeps it.                                                     *)
LEMMA FlattenStepFlat ==
    FlattenTypeOK /\ FlatInv /\ [FlattenNext]_flattenVars => FlatInv'
<1> SUFFICES ASSUME FlattenTypeOK, FlatInv, [FlattenNext]_flattenVars PROVE FlatInv'
  OBVIOUS
<1> USE DEF FlattenTypeOK, Quantity, Account, market, FlatInv, FlatOK, Listed
<1>1. CASE Discover
  BY <1>1 DEF Discover, Discovered, Larger
<1>2. CASE DiscoverRaises
  BY <1>2 DEF DiscoverRaises
<1>3. CASE CancelOrders
  BY <1>3 DEF CancelOrders, Targets, LiveOrders, Unlisted
<1>4. CASE CancelOrdersRaises
  BY <1>4 DEF CancelOrdersRaises, Targets, LiveOrders, Unlisted
<1>5. CASE ListEnds
  BY <1>5 DEF ListEnds, GoTo, Listed
<1>6. CASE ListRaises
  BY <1>6 DEF ListRaises, None
<1>7. CASE VerifyRaises
  BY <1>7 DEF VerifyRaises
<1>8. CASE CloseEnds
  BY <1>8 DEF CloseEnds, GoTo
<1>9. CASE Wake
  BY <1>9 DEF Wake, GoTo
<1>10. CASE Poll
  BY <1>10 DEF Poll, Targets, Unlisted
<1>11. CASE PollExpired
  BY <1>11 DEF PollExpired, Return
<1>12. CASE VerifyEnds
  BY <1>12 DEF VerifyEnds, Return, GoTo, Listed
<1>13. CASE DeadlinePasses
  BY <1>13 DEF DeadlinePasses
<1>14. CASE FlattenAgain
  BY <1>14 DEF FlattenAgain, None
<1>15. ASSUME NEW s \in Symbol, ListPosition(s) PROVE FlatInv'
  BY <1>15 DEF ListPosition, Smaller
<1>16. ASSUME NEW s \in Symbol, CloseUncovered(s) PROVE FlatInv'
  BY <1>16 DEF CloseUncovered, Uncovered, Plus
<1>17. ASSUME NEW s \in Symbol, CloseRefused(s) PROVE FlatInv'
  BY <1>17 DEF CloseRefused
<1>18. ASSUME NEW s \in Symbol, CloseAmbiguous(s) PROVE FlatInv'
  BY <1>18 DEF CloseAmbiguous, Uncovered, Plus
<1>19. ASSUME NEW s \in Symbol, CloseCovered(s) PROVE FlatInv'
  BY <1>19 DEF CloseCovered, GoTo
<1>20. ASSUME NEW s \in Symbol, ParentFills(s) PROVE FlatInv'
  BY <1>20 DEF ParentFills, Plus, service, Larger
<1>21. ASSUME NEW s \in Symbol, LegFills(s) PROVE FlatInv'
  BY <1>21 DEF LegFills, Plus, service, Smaller
<1>22. ASSUME NEW s \in Symbol, CancelSettles(s) PROVE FlatInv'
  BY <1>22 DEF CancelSettles, service
<1>23. ASSUME NEW s \in Symbol, CloseFills(s) PROVE FlatInv'
  BY <1>23 DEF CloseFills, Plus, service, Smaller
<1>24. CASE UNCHANGED flattenVars
  BY <1>24 DEF flattenVars, service
<1> QED
  BY <1>1, <1>2, <1>3, <1>4, <1>5, <1>6, <1>7, <1>8, <1>9, <1>10, <1>11, <1>12, <1>13, <1>14, <1>15, <1>16, <1>17, <1>18, <1>19, <1>20, <1>21, <1>22, <1>23, <1>24 DEF FlattenNext, ServiceStep, BrokerStep

(***************************************************************************)
(* A call that reports completion left nothing of a target but what was    *)
(* bought after that symbol was last asked for: for every account, every   *)
(* number of calls and every number of lost closes.                        *)
(***************************************************************************)
THEOREM FlattenCompleteIsFlat == FlattenSpec => []CompleteIsFlat
<1>1. FlattenInit => FlatInv
  BY DEF FlattenInit, FlatInv, FlatOK
<1>2. FlattenTypeOK /\ FlatInv => CompleteIsFlat
  BY DEF FlatInv, FlatOK, CompleteIsFlat, Listed, Targets, FlattenTypeOK, Quantity
<1> QED  BY <1>1, <1>2, FlattenStepFlat, FlattenTypeCorrect, PTL DEF FlattenSpec
=============================================================================
