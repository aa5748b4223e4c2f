--------------------------- MODULE RecorderProofs ---------------------------
(***************************************************************************)
(* Proofs about the two services whose tables are append-only: Recorder    *)
(* and the BatchWriter inside it, for any number of streams, pollers and   *)
(* events and every size of the queue and the batch, and Evaluator, for    *)
(* every number of calls and attempts, every cutoff and timeout and every  *)
(* set of outputs.                                                         *)
(*                                                                         *)
(* The library's induction principles take a predicate as a parameter,     *)
(* which the provers cannot be given; LeastNumber, which speaks of a set,  *)
(* takes their place.                                                      *)
(***************************************************************************)
EXTENDS Recorder, Evaluator, SequenceTheorems, WellFoundedInduction, TLAPS

FutureState == {"none", "pending", "ok", "error"}
Item == Event \cup {STOP}
AllEvents == UNION {EventsOf(s) : s \in Source}

\* Before the sentinel is put.
BeforeStop == owner \in {"none", "running", "stopping"}

\* The queue holds these events in this order, with the sentinel among them or not.
QueueHolds(rest) ==
  \/ queue = rest
  \/ /\ ~ BeforeStop
     /\ \E a, b \in Seq(Event) : rest = a \o b /\ queue = (a \o <<STOP>>) \o b

\* What was accepted is in the table, in the batch or in the queue, in this order; a writer
\* that has failed has dropped what was not in the table.
Pipeline ==
  \E rest \in Seq(Event) : /\ accepted = (table \o batch) \o rest
                           /\ writer # "failed" => QueueHolds(rest)

\* A call that returned has its events in the table.
ReturnedIsStored == \A s \in Source : call[s] = "ok" => EventsOf(s) \subseteq Elements(table)

\* The writer's task and its owner.
OwnerOK ==
  /\ owner = "none" => writer = "none"
  /\ owner = "stopped" => writer = "ended"
  /\ writer \in {"last", "ended"} => ~ BeforeStop
  /\ writer \in {"none", "ended", "failed"} => batch = <<>>

\* The inductive invariant of the writer.
WriterInv ==
  /\ WriterTypeOK
  /\ future \in [AllEvents -> FutureState]
  /\ AckMeansPersisted /\ ReturnedIsStored /\ Pipeline /\ OwnerOK

-----------------------------------------------------------------------------
(* Sequences.                                                              *)

\* A set of numbers that is not empty has a least one.
LEMMA LeastNumber ==
  ASSUME NEW T \in SUBSET Nat, T # {}
  PROVE  \E i \in T : \A j \in T : i =< j
<1> DEFINE R == OpToRel(<, Nat)
<1>1. IsWellFoundedOn(R, Nat)
  BY NatLessThanWellFounded
<1>2. \A i, j \in Nat : j < i => <<j, i>> \in R
  BY DEF OpToRel
<1> HIDE DEF R
<1>3. PICK i \in T : \A j \in T : ~ (<<j, i>> \in R)
  BY <1>1, WFMin
<1>4. ASSUME NEW j \in T PROVE i =< j
  <2>1. i \in Nat /\ j \in Nat /\ ~ (j < i)
    BY <1>2, <1>3
  <2> QED BY <2>1
<1> QED BY <1>4

\* The sentinel is no event.
LEMMA StopIsNoEvent == STOP \notin Event
  BY WriterAssumption DEF Event

\* The drain loop of _run keeps everything that was queued behind the sentinel, in order.
LEMMA DrainKeepsAll ==
  ASSUME NEW q \in Seq(Event)
  PROVE  WithoutStop(<<STOP>> \o q) = q
<1> DEFINE s == <<STOP>> \o q
           Step(f, i) == IF i = 0 THEN <<>>
                         ELSE IF s[i] = STOP THEN f[i - 1] ELSE Append(f[i - 1], s[i])
           Rec(f) == f = [i \in 0 .. Len(s) |-> Step(f, i)]
           kept == CHOOSE f : Rec(f)
           w == [i \in 0 .. Len(s) |-> IF i = 0 THEN <<>> ELSE SubSeq(q, 1, i - 1)]
<1>1. WithoutStop(s) = kept[Len(s)]
  BY DEF WithoutStop
<1>2. /\ Len(s) = Len(q) + 1 /\ Len(q) \in Nat
      /\ s[1] = STOP /\ \A i \in 2 .. Len(s) : s[i] = q[i-1] /\ s[i] # STOP
  BY StopIsNoEvent
<1> HIDE DEF s
<1>3. \A i \in 0 .. Len(s) : w[i] = Step(w, i)
  <2> SUFFICES ASSUME NEW i \in 0 .. Len(s) PROVE w[i] = Step(w, i)
    OBVIOUS
  <2>1. CASE i = 0
    BY <2>1
  <2>2. CASE i = 1
    <3>1. w[1] = <<>> /\ w[0] = <<>> /\ i - 1 = 0
      BY <1>2, <2>2
    <3> HIDE DEF w
    <3> QED BY <1>2, <2>2, <3>1
  <2>3. CASE i > 1
    <3>1. i \in 2 .. Len(s) /\ i - 1 \in 1 .. Len(q) /\ i - 1 \in 0 .. Len(s) /\ i - 1 # 0
      BY <1>2, <2>3
    <3>2. w[i] = SubSeq(q, 1, i - 1) /\ w[i - 1] = SubSeq(q, 1, (i - 1) - 1)
      BY <2>3, <3>1
    <3>3. SubSeq(q, 1, i - 1) = Append(SubSeq(q, 1, (i - 1) - 1), q[i - 1])
      BY <3>1
    <3> HIDE DEF w
    <3> QED BY <1>2, <2>3, <3>1, <3>2, <3>3
  <2> QED BY <1>2, <2>1, <2>2, <2>3
<1>4. w[Len(s)] = q /\ Rec(w)
  <2>1. w[Len(s)] = q
    BY <1>2
  <2>2. w = [i \in 0 .. Len(s) |-> w[i]]
    OBVIOUS
  <2> HIDE DEF w, Step
  <2> QED BY <1>3, <2>1, <2>2
<1> HIDE DEF w
<1>5. \A i \in 0 .. Len(s) : kept[i] = Step(kept, i)
  <2>1. Rec(kept)
    <3> HIDE DEF Rec
    <3> QED BY <1>4
  <2> HIDE DEF Step, kept
  <2> QED BY <2>1
<1> HIDE DEF kept
<1>6. \A i \in 0 .. Len(s) : kept[i] = w[i]
  <2> DEFINE T == {i \in Nat : i =< Len(s) /\ kept[i] # w[i]}
  <2> SUFFICES ASSUME T # {} PROVE FALSE
    BY <1>2
  <2>1. PICK i \in T : \A j \in T : i =< j
    BY LeastNumber
  <2>2. i \in 0 .. Len(s) /\ kept[i] # w[i] /\ (i # 0 => kept[i - 1] = w[i - 1])
    BY <1>2, <2>1
  <2> HIDE DEF T
  <2> QED BY <1>3, <1>5, <2>2
<1>7. Len(s) \in 0 .. Len(s)
  BY <1>2
<1> QED BY <1>1, <1>4, <1>6, <1>7 DEF s

\* Concatenation of sequences of events is associative.
LEMMA EventConcat ==
  ASSUME NEW x \in Seq(Event), NEW y \in Seq(Event), NEW z \in Seq(Event)
  PROVE  (x \o y) \o z = x \o (y \o z)
  BY SMTT(30)

\* A concatenation of three parts may be read from either end.
Regroups(x, y, z) == (x \o y) \o z = x \o (y \o z)

\* It may, for sequences of events.
LEMMA EventRegroups == \A x, y, z \in Seq(Event) : Regroups(x, y, z)
  BY EventConcat DEF Regroups

\* An event that is appended goes to the end of the last part.
LEMMA EventAppend ==
  ASSUME NEW x \in Seq(Event), NEW y \in Seq(Event), NEW e \in Event
  PROVE  Append(x \o y, e) = x \o Append(y, e)
  OBVIOUS

\* The same of what the queue may hold.
LEMMA ItemAppend ==
  ASSUME NEW x \in Seq(Item), NEW y \in Seq(Item), NEW e \in Item
  PROVE  Append(x \o y, e) = x \o Append(y, e)
  OBVIOUS

\* Taking the first event of the rest into the batch keeps the whole.
LEMMA TakeFirst ==
  \A x, y, r \in Seq(Event) :
    r # <<>> => (x \o y) \o r = (x \o Append(y, Head(r))) \o Tail(r)
<1> SUFFICES ASSUME NEW x \in Seq(Event), NEW y \in Seq(Event), NEW r \in Seq(Event), r # <<>>
             PROVE  (x \o y) \o r = (x \o Append(y, Head(r))) \o Tail(r)
  OBVIOUS
<1>1. PICK t \in Seq(Event), h \in Event : t = Tail(r) /\ h = Head(r)
  <2>1. Tail(r) \in Seq(Event) /\ Head(r) \in Event
    OBVIOUS
  <2> QED BY <2>1
<1>2. r = <<h>> \o t
  <2>1. r = <<Head(r)>> \o Tail(r)
    <3>1. <<Head(r)>> \o Tail(r) \in Seq(Event) /\ Len(<<Head(r)>> \o Tail(r)) = Len(r)
      OBVIOUS
    <3>2. \A i \in 1 .. Len(r) : (<<Head(r)>> \o Tail(r))[i] = r[i]
      OBVIOUS
    <3> QED BY <3>1, <3>2, SeqEqual
  <2> QED BY <1>1, <2>1
<1>3. PICK u \in Seq(Event) : u = <<h>>
  <2>1. <<h>> \in Seq(Event)
    OBVIOUS
  <2> QED BY <2>1
<1>4. Append(y, h) = y \o u
  BY <1>3, AppendIsConcat
<1>5. PICK v \in Seq(Event) : v = x \o y
  <2>1. x \o y \in Seq(Event)
    OBVIOUS
  <2> QED BY <2>1
<1>6. (v \o u) \o t = v \o (u \o t)
  <2>1. Regroups(v, u, t)
    BY EventRegroups
  <2> QED BY <2>1 DEF Regroups
<1>7. (x \o y) \o u = x \o (y \o u)
  <2>1. Regroups(x, y, u)
    BY EventRegroups
  <2> QED BY <2>1 DEF Regroups
<1> QED BY <1>1, <1>2, <1>3, <1>4, <1>5, <1>6, <1>7, Zenon

\* The empty sequence adds nothing.
LEMMA EventEmpty ==
  ASSUME NEW x \in Seq(Event)
  PROVE  x \o <<>> = x /\ <<>> \o x = x
  OBVIOUS

\* What is in a concatenation.
LEMMA ElementsConcat ==
  ASSUME NEW t \in Seq(Event), NEW b \in Seq(Event)
  PROVE  Elements(t \o b) = Elements(t) \cup Elements(b)
<1>1. /\ Len(t \o b) = Len(t) + Len(b) /\ Len(t) \in Nat /\ Len(b) \in Nat
      /\ \A i \in 1 .. Len(t) : (t \o b)[i] = t[i]
      /\ \A i \in 1 .. Len(b) : (t \o b)[Len(t) + i] = b[i]
  OBVIOUS
<1>2. ASSUME NEW i \in 1 .. Len(t \o b) PROVE (t \o b)[i] \in Elements(t) \cup Elements(b)
  <2>1. CASE i =< Len(t)
    BY <1>1, <2>1 DEF Elements
  <2>2. CASE i > Len(t)
    <3>1. i - Len(t) \in 1 .. Len(b) /\ Len(t) + (i - Len(t)) = i
      BY <1>1, <2>2
    <3> QED BY <1>1, <3>1 DEF Elements
  <2> QED BY <1>1, <2>1, <2>2
<1>3. ASSUME NEW i \in 1 .. Len(t) PROVE t[i] \in Elements(t \o b)
  BY <1>1 DEF Elements
<1>4. ASSUME NEW i \in 1 .. Len(b) PROVE b[i] \in Elements(t \o b)
  <2>1. Len(t) + i \in 1 .. Len(t \o b) /\ (t \o b)[Len(t) + i] = b[i]
    BY <1>1
  <2> QED BY <2>1 DEF Elements
<1> QED BY <1>2, <1>3, <1>4 DEF Elements

\* Before start nothing is accepted or stored.
LEMMA WriterInitInv == WriterInit => WriterInv
<1> SUFFICES ASSUME WriterInit PROVE WriterInv
  OBVIOUS
<1>1. hasTask \in BOOLEAN /\ fatal \in BOOLEAN
  BY DEF WriterInit
<1>2. WriterTypeOK
  <2>1. /\ queue \in Seq(Event \cup {STOP}) /\ Len(queue) =< QueueMax
        /\ batch \in Seq(Event) /\ table \in Seq(Event) /\ accepted \in Seq(Event)
    BY WriterAssumption DEF WriterInit
  <2> QED BY <1>1, <2>1 DEF WriterInit, WriterTypeOK
<1>3. future \in [AllEvents -> FutureState] /\ \A e \in AllEvents : future[e] = "none"
  BY DEF WriterInit, AllEvents, FutureState
<1>4. Pipeline
  <2>1. <<>> \in Seq(Event) /\ <<>> = (<<>> \o <<>>) \o <<>>
    OBVIOUS
  <2> QED BY <2>1 DEF WriterInit, Pipeline, QueueHolds
<1> QED BY <1>2, <1>3, <1>4 DEF WriterInit, WriterInv, AckMeansPersisted, ReturnedIsStored, OwnerOK

CallState == {"off", "ready", "putting", "waiting", "ok", "raised", "cancelled"}

\* A source's step that hands nothing over.
LEMMA CallKeepsInv ==
  ASSUME WriterInv, NEW s \in Source, NEW v \in CallState,
         call' = [call EXCEPT ![s] = v], sent' \in [Source -> Nat],
         v = "ok" => EventsOf(s) \subseteq Elements(table),
         UNCHANGED <<queueVars, ownerVars, accepted>>
  PROVE  WriterInv'
<1>1. WriterTypeOK' /\ (future \in [AllEvents -> FutureState])'
  BY DEF WriterInv, WriterTypeOK, queueVars, ownerVars, CallState, AllEvents
<1>2. AckMeansPersisted' /\ Pipeline' /\ OwnerOK'
  BY DEF WriterInv, AckMeansPersisted, Pipeline, QueueHolds, BeforeStop, OwnerOK, queueVars, ownerVars
<1>3. ReturnedIsStored'
  BY DEF WriterInv, WriterTypeOK, ReturnedIsStored, queueVars
<1> QED BY <1>1, <1>2, <1>3 DEF WriterInv

\* The queue takes an event, from a put that had room or from one that waited for it.
LEMMA AcceptKeepsInv ==
  ASSUME WriterInv, NEW s \in Source, Accept(s)
  PROVE  WriterInv'
<1>1. sent[s] + 1 \in Nat /\ Coming(s) \in Event
  BY DEF WriterInv, WriterTypeOK, Coming, Event
<1>c. PICK c \in Event : c = Coming(s)
  BY <1>1
<1>2. /\ queue' = Append(queue, c) /\ accepted' = Append(accepted, c) /\ Len(queue) < QueueMax
      /\ UNCHANGED <<batch, writer, fatal, table, owner, hasTask>>
      /\ sent' = [sent EXCEPT ![s] = sent[s] + 1]
      /\ \E v \in CallState \ {"ok"} : call' = [call EXCEPT ![s] = v]
      /\ future' = future \/ future' = [future EXCEPT ![c] = "pending"]
  <2>1. Len(queue) \in Nat
    BY DEF WriterInv, WriterTypeOK
  <2>2. \E v \in CallState \ {"ok"} : call' = [call EXCEPT ![s] = v]
    <3>1. "waiting" \in CallState \ {"ok"} /\ "ready" \in CallState \ {"ok"}
      BY DEF CallState
    <3>2. \/ call' = [call EXCEPT ![s] = "waiting"]
          \/ call' = [call EXCEPT ![s] = "ready"]
      BY DEF Accept
    <3> QED BY <3>1, <3>2
  <2>3. future' = future \/ future' = [future EXCEPT ![c] = "pending"]
    BY <1>c DEF Accept
  <2>4. ~ Full /\ queue' = Append(queue, c) /\ accepted' = Append(accepted, c)
        /\ UNCHANGED <<batch, writer, fatal, table, owner, hasTask>>
        /\ sent' = [sent EXCEPT ![s] = sent[s] + 1]
    BY <1>c DEF Accept, ownerVars
  <2>5. Len(queue) < QueueMax
    BY WriterAssumption, <2>1, <2>4 DEF Full
  <2> QED BY <2>2, <2>3, <2>4, <2>5
<1>3. WriterTypeOK' /\ (future \in [AllEvents -> FutureState])'
  <2>1. queue' \in Seq(Event \cup {STOP}) /\ Len(queue') =< QueueMax /\ accepted' \in Seq(Event)
    BY WriterAssumption, <1>1, <1>2 DEF WriterInv, WriterTypeOK
  <2>2. future' \in [AllEvents -> FutureState]
    BY <1>2 DEF WriterInv, FutureState
  <2>3. /\ call' \in [Source -> CallState] /\ sent' \in [Source -> Nat]
        /\ batch' \in Seq(Event) /\ table' \in Seq(Event)
    BY <1>1, <1>2 DEF WriterInv, WriterTypeOK, CallState
  <2>4. \A e \in DOMAIN future' : future'[e] \in FutureState
    BY <2>2
  <2> QED BY <1>2, <2>1, <2>2, <2>3, <2>4 DEF WriterInv, WriterTypeOK, CallState, AllEvents, FutureState
<1>4. AckMeansPersisted' /\ ReturnedIsStored' /\ OwnerOK'
  BY <1>2 DEF WriterInv, WriterTypeOK, AckMeansPersisted, ReturnedIsStored, OwnerOK, BeforeStop
<1>5. Pipeline'
  <2>1. PICK rest \in Seq(Event) : /\ accepted = (table \o batch) \o rest
                                   /\ writer # "failed" => QueueHolds(rest)
    BY DEF WriterInv, Pipeline
  <2>2. Append(rest, c) \in Seq(Event) /\ accepted' = (table' \o batch') \o Append(rest, c)
    <3>1. Append((table \o batch) \o rest, c) = (table \o batch) \o Append(rest, c)
      <4>1. table \o batch \in Seq(Event)
        BY DEF WriterInv, WriterTypeOK
      <4> QED BY <4>1, EventAppend
    <3>2. Append(rest, c) \in Seq(Event)
      OBVIOUS
    <3> QED BY <1>2, <2>1, <3>1, <3>2
  <2>3. QueueHolds(rest) => QueueHolds(Append(rest, c))'
    <3>1. CASE queue = rest
      BY <1>2, <3>1 DEF QueueHolds
    <3>2. ASSUME NEW a \in Seq(Event), NEW b \in Seq(Event),
                 ~ BeforeStop, rest = a \o b, queue = (a \o <<STOP>>) \o b
          PROVE  QueueHolds(Append(rest, c))'
      <4>1. Append(b, c) \in Seq(Event) /\ Append(rest, c) = a \o Append(b, c)
        <5>1. Append(b, c) \in Seq(Event)
          OBVIOUS
        <5>2. Append(a \o b, c) = a \o Append(b, c)
          BY EventAppend
        <5> QED BY <3>2, <5>1, <5>2
      <4>2. a \o <<STOP>> \in Seq(Item) /\ b \in Seq(Item) /\ c \in Item
        BY DEF Item
      <4>3. queue' = (a \o <<STOP>>) \o Append(b, c)
        BY <1>2, <3>2, <4>2, ItemAppend
      <4> QED BY <1>2, <3>2, <4>1, <4>3 DEF QueueHolds, BeforeStop
    <3> QED BY <3>1, <3>2 DEF QueueHolds
  <2> QED BY <1>2, <2>1, <2>2, <2>3 DEF Pipeline
<1> QED BY <1>3, <1>4, <1>5 DEF WriterInv

\* Every step of a source.
LEMMA SourceKeepsInv ==
  ASSUME WriterInv, NEW s \in Source, SourceStep(s)
  PROVE  WriterInv'
<1>1. CASE Enqueue(s) \/ PutResumes(s)
  BY <1>1, AcceptKeepsInv DEF Enqueue, PutResumes
<1>2. CASE ~ (Enqueue(s) \/ PutResumes(s))
  <2>1. PICK v \in CallState : /\ call' = [call EXCEPT ![s] = v]
                               /\ v = "ok" => WaitReturns(s)
    BY <1>2 DEF SourceStep, SourceCalls, EnqueueBlocks, EnqueueRaises, WaitReturns, WaitRaises,
       SourceCancelled, SourceSkips, CallState
  <2>2. UNCHANGED <<queueVars, ownerVars, accepted>> /\ sent' \in [Source -> Nat]
    <3>1. SourceSkips(s) => sent' \in [Source -> Nat]
      BY DEF SourceSkips, WriterInv, WriterTypeOK
    <3> QED BY <1>2, <3>1 DEF SourceStep, SourceCalls, EnqueueBlocks, EnqueueRaises, WaitReturns, WaitRaises,
       SourceCancelled, SourceSkips, WriterInv, WriterTypeOK
  <2>3. v = "ok" => EventsOf(s) \subseteq Elements(table)
    <3> SUFFICES ASSUME v = "ok", NEW e \in EventsOf(s) PROVE e \in Elements(table)
      OBVIOUS
    <3>1. future[e] = "ok" /\ e \in AllEvents
      BY <2>1 DEF WaitReturns, AllEvents
    <3> QED BY <3>1 DEF WriterInv, AckMeansPersisted
  <2> QED BY <2>1, <2>2, <2>3, CallKeepsInv
<1> QED BY <1>1, <1>2

\* What the table holds only grows, and acknowledgements with it.
LEMMA StoredStays ==
  ASSUME WriterInv, NEW t \in Seq(Event), Elements(table) \subseteq Elements(t), table' = t,
         call' = call, future' \in [AllEvents -> FutureState],
         \A e \in AllEvents : future'[e] = "ok" => future[e] = "ok" \/ e \in Elements(t)
  PROVE  AckMeansPersisted' /\ ReturnedIsStored'
  BY DEF WriterInv, AckMeansPersisted, ReturnedIsStored

\* An event is taken from the queue into the batch.
LEMMA GetKeepsInv ==
  ASSUME WriterInv, Get
  PROVE  WriterInv'
<1>1. /\ writer = "get" /\ queue # <<>> /\ Head(queue) # STOP
      /\ batch' = Append(batch, Head(queue)) /\ queue' = Tail(queue)
      /\ writer' \in {"get", "flush"}
      /\ UNCHANGED <<fatal, table, future, owner, hasTask, accepted, call, sent>>
  BY DEF Get, ownerVars, sourceVars
<1>2. /\ queue \in Seq(Item) /\ batch \in Seq(Event) /\ table \in Seq(Event)
      /\ Len(queue) \in Nat /\ Len(queue) =< QueueMax
  BY DEF WriterInv, WriterTypeOK, Item
<1>3. Head(queue) \in Event /\ Tail(queue) \in Seq(Item) /\ Len(Tail(queue)) = Len(queue) - 1
  BY <1>1, <1>2 DEF Item
<1>4. WriterTypeOK' /\ (future \in [AllEvents -> FutureState])'
  <2>1. batch' \in Seq(Event)
    BY <1>1, <1>2, <1>3
  <2>2. queue' \in Seq(Event \cup {STOP}) /\ Len(queue') =< QueueMax
    BY <1>1, <1>2, <1>3, WriterAssumption DEF Item
  <2> QED BY <1>1, <2>1, <2>2 DEF WriterInv, WriterTypeOK, AllEvents
<1>5. AckMeansPersisted' /\ ReturnedIsStored' /\ OwnerOK'
  BY <1>1 DEF WriterInv, AckMeansPersisted, ReturnedIsStored, OwnerOK, BeforeStop
<1>6. Pipeline'
  <2>1. PICK rest \in Seq(Event) : accepted = (table \o batch) \o rest /\ QueueHolds(rest)
    BY <1>1 DEF WriterInv, Pipeline
  <2>5. rest # <<>> =>
          (table \o batch) \o rest = (table \o Append(batch, Head(rest))) \o Tail(rest)
    <3>1. table \in Seq(Event) /\ batch \in Seq(Event) /\ rest \in Seq(Event)
      BY <1>2
    <3> QED BY <3>1, TakeFirst, SMTT(30)
  <2>2. ASSUME NEW r \in Seq(Event), NEW h \in Event, rest # <<>>, Head(rest) = h, h = Head(queue),
               Tail(rest) = r, QueueHolds(r)'
        PROVE  Pipeline'
    <3>1. accepted' = (table' \o batch') \o r
      BY <1>1, <2>1, <2>2, <2>5
    <3> QED BY <2>2, <3>1 DEF Pipeline
  <2>3. CASE queue = rest
    <3>1. Tail(rest) \in Seq(Event)
      BY <1>1, <2>3
    <3>2. PICK r \in Seq(Event) : r = Tail(rest)
      BY <3>1
    <3>3. QueueHolds(r)'
      BY <1>1, <2>3, <3>2 DEF QueueHolds
    <3> QED BY <1>1, <1>3, <2>2, <2>3, <3>2, <3>3
  <2>4. ASSUME NEW a \in Seq(Event), NEW b \in Seq(Event),
               ~ BeforeStop, rest = a \o b, queue = (a \o <<STOP>>) \o b
        PROVE  Pipeline'
    <3>1. a # <<>>
      <4> SUFFICES ASSUME a = <<>> PROVE FALSE
        OBVIOUS
      <4>1. (<<>> \o <<STOP>>) \o b # <<>> /\ Head((<<>> \o <<STOP>>) \o b) = STOP
        OBVIOUS
      <4> QED BY <1>1, <2>4, <4>1
    <3>2. Tail(a) \in Seq(Event) /\ Head(a) \in Event
      BY <3>1
    <3>3. rest # <<>> /\ Head(rest) = Head(a) /\ Tail(rest) = Tail(a) \o b
      BY <2>4, <3>1, SMTT(30)
    <3>4. Head(queue) = Head(a) /\ Tail(queue) = (Tail(a) \o <<STOP>>) \o b
      BY <2>4, <3>1, SMTT(30)
    <3>5. PICK r \in Seq(Event), d \in Seq(Event) : r = Tail(rest) /\ d = Tail(a) /\ r = d \o b
      <4>1. Tail(a) \o b \in Seq(Event)
        BY <3>2
      <4> QED BY <3>2, <3>3, <4>1
    <3>6. QueueHolds(r)'
      BY <1>1, <2>4, <3>4, <3>5 DEF QueueHolds, BeforeStop
    <3> QED BY <1>3, <2>2, <3>3, <3>4, <3>5, <3>6
  <2> QED BY <2>1, <2>3, <2>4 DEF QueueHolds
<1> QED BY <1>4, <1>5, <1>6 DEF WriterInv

\* The sentinel is taken: everything behind it goes into the last batch.
LEMMA GetStopKeepsInv ==
  ASSUME WriterInv, GetStop
  PROVE  WriterInv' /\ queue' = <<>>
<1>1. /\ writer = "get" /\ queue # <<>> /\ Head(queue) = STOP
      /\ batch' = batch \o WithoutStop(queue) /\ queue' = <<>> /\ writer' = "last"
      /\ UNCHANGED <<fatal, table, future, owner, hasTask, accepted, call, sent>>
  BY DEF GetStop, ownerVars, sourceVars
<1>2. batch \in Seq(Event) /\ table \in Seq(Event) /\ <<>> \in Seq(Event)
  BY DEF WriterInv, WriterTypeOK
<1>3. PICK rest \in Seq(Event) : accepted = (table \o batch) \o rest /\ QueueHolds(rest)
  BY <1>1 DEF WriterInv, Pipeline
<1>4. PICK a \in Seq(Event), b \in Seq(Event) :
        ~ BeforeStop /\ rest = a \o b /\ queue = (a \o <<STOP>>) \o b
  <2>1. queue # rest
    <3> SUFFICES ASSUME queue = rest PROVE FALSE
      OBVIOUS
    <3>1. Head(rest) \in Event
      BY <1>1
    <3> QED BY <1>1, <3>1, StopIsNoEvent
  <2> QED BY <1>3, <2>1 DEF QueueHolds
<1>5. a = <<>>
  <2> SUFFICES ASSUME a # <<>> PROVE FALSE
    OBVIOUS
  <2>1. Head((a \o <<STOP>>) \o b) = Head(a) /\ Head(a) \in Event
    OBVIOUS
  <2> QED BY <1>1, <1>4, <2>1, StopIsNoEvent
<1>6. rest = b /\ queue = <<STOP>> \o b
  <2>1. <<>> \o b = b /\ <<>> \o <<STOP>> = <<STOP>>
    OBVIOUS
  <2> QED BY <1>4, <1>5, <2>1
<1>7. batch' = batch \o rest /\ batch' \in Seq(Event)
  <2>1. WithoutStop(queue) = rest
    BY <1>6, DrainKeepsAll
  <2> QED BY <1>1, <1>2, <2>1
<1>8. WriterTypeOK' /\ (future \in [AllEvents -> FutureState])'
  <2>1. queue' \in Seq(Event \cup {STOP}) /\ Len(queue') =< QueueMax
    BY <1>1, WriterAssumption
  <2> QED BY <1>1, <1>7, <2>1 DEF WriterInv, WriterTypeOK, AllEvents
<1>9. AckMeansPersisted' /\ ReturnedIsStored' /\ OwnerOK'
  BY <1>1, <1>4 DEF WriterInv, AckMeansPersisted, ReturnedIsStored, OwnerOK, BeforeStop
<1>10. Pipeline'
  <2>1. (table \o batch) \o rest = table \o (batch \o rest)
    <3>1. Regroups(table, batch, rest)
      BY <1>2, EventRegroups
    <3> QED BY <3>1 DEF Regroups
  <2>2. table \o (batch \o rest) \in Seq(Event)
    BY <1>2
  <2>3. table \o (batch \o rest) = (table \o (batch \o rest)) \o <<>>
    BY <2>2, EventEmpty
  <2>4. accepted' = (table' \o batch') \o <<>>
    BY <1>1, <1>3, <1>7, <2>1, <2>3
  <2> QED BY <1>1, <1>2, <2>4 DEF Pipeline, QueueHolds
<1> QED BY <1>1, <1>8, <1>9, <1>10 DEF WriterInv

\* The batch goes to the table and its futures are resolved.
LEMMA FlushKeepsInv ==
  ASSUME WriterInv, Flush
  PROVE  WriterInv'
<1>1. /\ writer \in {"flush", "last"}
      /\ table' = table \o batch /\ future' = Resolve(Elements(batch), "ok") /\ batch' = <<>>
      /\ writer' = IF writer = "last" THEN "ended" ELSE "get"
      /\ UNCHANGED <<queue, fatal, owner, hasTask, accepted, call, sent>>
  BY DEF Flush, ownerVars, sourceVars
<1>2. /\ batch \in Seq(Event) /\ table \in Seq(Event) /\ <<>> \in Seq(Event)
      /\ table \o batch \in Seq(Event)
  BY DEF WriterInv, WriterTypeOK
<1>3. Elements(table \o batch) = Elements(table) \cup Elements(batch)
  BY <1>2, ElementsConcat
<1>4. /\ future' \in [AllEvents -> FutureState]
      /\ \A e \in AllEvents : future'[e] = "ok" => future[e] = "ok" \/ e \in Elements(batch)
  BY <1>1 DEF WriterInv, Resolve, FutureState
<1>5. WriterTypeOK' /\ (future \in [AllEvents -> FutureState])'
  BY <1>1, <1>2, <1>4 DEF WriterInv, WriterTypeOK, AllEvents, FutureState
<1>6. AckMeansPersisted' /\ ReturnedIsStored'
  <2>1. \A e \in AllEvents :
          future'[e] = "ok" => future[e] = "ok" \/ e \in Elements(table \o batch)
    BY <1>3, <1>4
  <2> QED BY <1>1, <1>2, <1>3, <1>4, <2>1, StoredStays
<1>7. OwnerOK'
  BY <1>1 DEF WriterInv, OwnerOK, BeforeStop
<1>8. Pipeline'
  <2>1. PICK rest \in Seq(Event) : accepted = (table \o batch) \o rest /\ QueueHolds(rest)
    BY <1>1 DEF WriterInv, Pipeline
  <2>2. table \o batch = (table \o batch) \o <<>>
    BY <1>2, EventEmpty
  <2>3. accepted' = (table' \o batch') \o rest
    BY <1>1, <2>1, <2>2
  <2>4. QueueHolds(rest)'
    BY <1>1, <2>1 DEF QueueHolds, BeforeStop
  <2> QED BY <2>3, <2>4 DEF Pipeline
<1> QED BY <1>5, <1>6, <1>7, <1>8 DEF WriterInv

\* The task ends with an exception, its last transaction committed or not.
LEMMA DiesKeepsInv ==
  ASSUME WriterInv, Dies, table' \in {table, table \o batch}, owner # "none", owner # "stopped",
         UNCHANGED <<ownerVars, sourceVars>>
  PROVE  WriterInv'
<1>1. /\ future' = Resolve(Elements(batch) \cup Elements(queue), "error")
      /\ batch' = <<>> /\ queue' = <<>> /\ writer' = "failed" /\ fatal' = TRUE
      /\ UNCHANGED <<owner, hasTask, accepted, call, sent>>
  BY DEF Dies, ownerVars, sourceVars
<1>2. /\ batch \in Seq(Event) /\ table \in Seq(Event) /\ <<>> \in Seq(Event)
      /\ table \o batch \in Seq(Event)
  BY DEF WriterInv, WriterTypeOK
<1>3. table' \in Seq(Event) /\ Elements(table) \subseteq Elements(table')
  <2>1. Elements(table \o batch) = Elements(table) \cup Elements(batch)
    BY <1>2, ElementsConcat
  <2> QED BY <1>2, <2>1
<1>4. /\ future' \in [AllEvents -> FutureState]
      /\ \A e \in AllEvents : future'[e] = "ok" => future[e] = "ok"
  BY <1>1 DEF WriterInv, Resolve, FutureState
<1>5. WriterTypeOK' /\ (future \in [AllEvents -> FutureState])'
  <2>1. queue' \in Seq(Event \cup {STOP}) /\ Len(queue') =< QueueMax
    BY <1>1, WriterAssumption
  <2>2. fatal' \in BOOLEAN
    BY <1>1
  <2> QED BY <1>1, <1>2, <1>3, <1>4, <2>1, <2>2 DEF WriterInv, WriterTypeOK, AllEvents, FutureState
<1>6. AckMeansPersisted' /\ ReturnedIsStored' /\ OwnerOK'
  BY <1>1, <1>3, <1>4 DEF WriterInv, AckMeansPersisted, ReturnedIsStored, OwnerOK, BeforeStop
<1>7. Pipeline'
  <2>1. PICK rest \in Seq(Event) : accepted = (table \o batch) \o rest
    BY DEF WriterInv, Pipeline
  <2>2. CASE table' = table
    <3>1. (table \o batch) \o rest = table \o (batch \o rest) /\ batch \o rest \in Seq(Event)
      <4>1. Regroups(table, batch, rest)
        BY <1>2, EventRegroups
      <4> QED BY <1>2, <4>1 DEF Regroups
    <3>2. table = table \o <<>>
      BY <1>2, EventEmpty
    <3>3. accepted' = (table' \o batch') \o (batch \o rest)
      BY <1>1, <2>1, <2>2, <3>1, <3>2
    <3> QED BY <1>1, <3>1, <3>3 DEF Pipeline
  <2>3. CASE table' = table \o batch
    <3>1. table \o batch = (table \o batch) \o <<>>
      BY <1>2, EventEmpty
    <3>2. accepted' = (table' \o batch') \o rest
      BY <1>1, <2>1, <2>3, <3>1
    <3> QED BY <1>1, <3>2 DEF Pipeline
  <2> QED BY <2>2, <2>3
<1> QED BY <1>5, <1>6, <1>7 DEF WriterInv

\* The writer's flags stay flags.
LEMMA WriterFlags ==
  ASSUME WriterInv, OwnerStep
  PROVE  hasTask' \in BOOLEAN /\ fatal' \in BOOLEAN
<1>1. hasTask \in BOOLEAN /\ fatal \in BOOLEAN
  BY DEF WriterInv, WriterTypeOK
<1>2. hasTask' \in BOOLEAN
  BY <1>1 DEF OwnerStep, Start, Stop, PutStop, Joined, StopTimesOut, Aborted
<1>3. fatal' \in BOOLEAN
  BY <1>1 DEF OwnerStep, Start, Stop, PutStop, Joined, StopTimesOut, Aborted, queueVars
<1> QED BY <1>2, <1>3

\* A step of the owner that puts nothing on the queue.
LEMMA OwnerQuietKeepsInv ==
  ASSUME WriterInv, Start \/ Stop \/ Joined \/ StopTimesOut \/ Aborted
  PROVE  WriterInv'
<1>1. /\ UNCHANGED <<queue, batch, table, future, accepted, call, sent>>
      /\ writer' = IF owner = "none" THEN "get" ELSE writer
      /\ owner' \in {"running", "stopping", "stopped", "stopFailed", "aborting", "aborted"}
      /\ owner' \in {"running", "stopping"} => BeforeStop
      /\ owner' = "stopped" => writer = "ended"
      /\ owner = "none" => owner' = "running"
  BY DEF Start, Stop, Joined, StopTimesOut, Aborted, queueVars, sourceVars, BeforeStop
<1>2. hasTask' \in BOOLEAN /\ fatal' \in BOOLEAN
  BY WriterFlags DEF OwnerStep
<1>3. WriterTypeOK' /\ (future \in [AllEvents -> FutureState])'
  BY <1>1, <1>2 DEF WriterInv, WriterTypeOK, AllEvents
<1>4. AckMeansPersisted' /\ ReturnedIsStored'
  BY <1>1 DEF WriterInv, AckMeansPersisted, ReturnedIsStored
<1>5. OwnerOK'
  BY <1>1 DEF WriterInv, WriterTypeOK, OwnerOK, BeforeStop
<1>6. Pipeline'
  <2>1. PICK rest \in Seq(Event) : /\ accepted = (table \o batch) \o rest
                                   /\ writer # "failed" => QueueHolds(rest)
    BY DEF WriterInv, Pipeline
  <2>2. writer' # "failed" => QueueHolds(rest)
    BY <1>1, <2>1 DEF WriterInv, OwnerOK
  <2>3. QueueHolds(rest) => QueueHolds(rest)'
    BY <1>1 DEF QueueHolds, BeforeStop
  <2> QED BY <1>1, <2>1, <2>2, <2>3 DEF Pipeline
<1> QED BY <1>3, <1>4, <1>5, <1>6 DEF WriterInv

\* The sentinel is put behind everything that was accepted so far.
LEMMA PutStopKeepsInv ==
  ASSUME WriterInv, PutStop
  PROVE  WriterInv'
<1>1. /\ UNCHANGED <<batch, writer, fatal, table, future, hasTask, accepted, call, sent>>
      /\ owner = "stopping" /\ owner' = "joining" /\ queue' = Append(queue, STOP) /\ ~ Full
  BY DEF PutStop, sourceVars
<1>2. WriterTypeOK' /\ (future \in [AllEvents -> FutureState])'
  <2>1. queue' \in Seq(Event \cup {STOP}) /\ Len(queue') =< QueueMax
    BY <1>1, WriterAssumption DEF WriterInv, WriterTypeOK, Full
  <2> QED BY <1>1, <2>1 DEF WriterInv, WriterTypeOK, AllEvents
<1>3. AckMeansPersisted' /\ ReturnedIsStored' /\ OwnerOK'
  BY <1>1 DEF WriterInv, AckMeansPersisted, ReturnedIsStored, OwnerOK, BeforeStop
<1>4. Pipeline'
  <2>1. PICK rest \in Seq(Event) : /\ accepted = (table \o batch) \o rest
                                   /\ writer # "failed" => QueueHolds(rest)
    BY DEF WriterInv, Pipeline
  <2>2. QueueHolds(rest) => QueueHolds(rest)'
    <3> SUFFICES ASSUME QueueHolds(rest) PROVE QueueHolds(rest)'
      OBVIOUS
    <3>1. queue = rest
      BY <1>1 DEF QueueHolds, BeforeStop
    <3>2. Append(rest, STOP) = (rest \o <<STOP>>) \o <<>> /\ rest = rest \o <<>>
      OBVIOUS
    <3>3. <<>> \in Seq(Event)
      OBVIOUS
    <3> QED BY <1>1, <3>1, <3>2, <3>3 DEF QueueHolds, BeforeStop
  <2> QED BY <1>1, <2>1, <2>2 DEF Pipeline
<1> QED BY <1>2, <1>3, <1>4 DEF WriterInv

\* Every step of the writer, of its owner and of a source keeps the invariant.
LEMMA WriterNextInv == WriterInv /\ [WriterNext]_writerVars => WriterInv'
<1> SUFFICES ASSUME WriterInv, [WriterNext]_writerVars PROVE WriterInv'
  OBVIOUS
<1>1. CASE FlushTimer
  <2>1. /\ writer = "get" /\ writer' = "flush"
        /\ UNCHANGED <<queue, batch, fatal, table, future, owner, hasTask, accepted, call, sent>>
    BY <1>1 DEF FlushTimer, ownerVars, sourceVars
  <2> QED BY <2>1 DEF WriterInv, WriterTypeOK, AllEvents, AckMeansPersisted, ReturnedIsStored, OwnerOK,
             BeforeStop, Pipeline, QueueHolds
<1>2. CASE FlushRaises \/ Cancelled
  <2>1. /\ Dies /\ table' \in {table, table \o batch} /\ Alive
        /\ UNCHANGED <<ownerVars, sourceVars>>
    BY <1>2 DEF FlushRaises, Cancelled, Alive
  <2>2. owner # "none" /\ owner # "stopped"
    BY <2>1 DEF WriterInv, OwnerOK, Alive
  <2> QED BY <2>1, <2>2, DiesKeepsInv
<1>3. CASE Get \/ GetStop \/ Flush
  BY <1>3, GetKeepsInv, GetStopKeepsInv, FlushKeepsInv
<1>4. CASE OwnerStep
  BY <1>4, OwnerQuietKeepsInv, PutStopKeepsInv DEF OwnerStep
<1>5. CASE \E s \in Source : SourceStep(s)
  BY <1>5, SourceKeepsInv
<1>6. CASE UNCHANGED writerVars
  <2>1. UNCHANGED <<queue, batch, writer, fatal, table, future, owner, hasTask, accepted, call, sent>>
    BY <1>6 DEF writerVars, queueVars, ownerVars, sourceVars
  <2> QED BY <2>1, ZenonT(60) DEF WriterInv, WriterTypeOK, AllEvents, AckMeansPersisted, ReturnedIsStored, OwnerOK,
             BeforeStop, Pipeline, QueueHolds
<1> QED BY <1>1, <1>2, <1>3, <1>4, <1>5, <1>6 DEF WriterNext, TaskStep

\* The invariant holds in every behaviour of the writer, whoever uses it.
THEOREM WriterInvHolds == WriterSpec => []WriterInv
  BY WriterInitInv, WriterNextInv, PTL DEF WriterSpec

\* From the pipeline to what it promises: the table is an initial part of what was accepted.
LEMMA PipelineIsOrder ==
  ASSUME WriterInv
  PROVE  AcceptanceOrder
<1>1. PICK rest \in Seq(Event) : accepted = (table \o batch) \o rest
  BY DEF WriterInv, Pipeline
<1>2. table \in Seq(Event) /\ batch \in Seq(Event)
  BY DEF WriterInv, WriterTypeOK
<1>3. PICK x \in Seq(Event) : x = batch \o rest
  <2>1. batch \o rest \in Seq(Event)
    BY <1>2
  <2> QED BY <2>1
<1>4. accepted = table \o x
  <2>1. Regroups(table, batch, rest)
    BY <1>2, EventRegroups
  <2> QED BY <1>1, <1>3, <2>1 DEF Regroups
<1>5. table = SubSeq(table \o x, 1, Len(table)) /\ Len(table) \in 0 .. Len(table \o x)
  BY <1>2
<1> QED BY <1>4, <1>5 DEF AcceptanceOrder

-----------------------------------------------------------------------------
(* The recorder around the writer.                                         *)

\* How far run_capture is and what it has done to the writer.
StageOK ==
  /\ stage = "open" => owner = "none"
  /\ stage \in {"manifest", "watch"} => owner = "running"
  /\ owner \notin {"none", "running"} => stage \in {"stopWriter", "done"}
  /\ owner = "none" => stage = "open" \/ errors

\* No service runs before the manifest is stored, and one that returned hands nothing over.
TasksOK ==
  /\ stage \in {"open", "manifest"} => \A s \in Service : task[s] = "none"
  /\ \A s \in Service : IF task[s] = "none" THEN call[s] = "off" ELSE accepted # <<>>
  /\ \A s \in Stream : task[s] \in {"returned", "ended"} => call[s] # "putting"

\* Without an error, whatever was started is waited for and came back.
SettledOK ==
  ~ errors =>
    /\ \A s \in Service : task[s] # "cancelled"
    /\ stage \notin {"open", "manifest"} => \A s \in Service : task[s] # "none"
    /\ stage # "watch" => \A s \in Service : task[s] # "ended"
    /\ stage \in {"settlePollers", "stopWriter", "done"} => \A s \in Stream : task[s] = "returned"
    /\ stage \in {"stopWriter", "done"} => \A p \in Poller : task[p] = "returned"

\* Then nothing comes behind the last batch.
DrainedOK == ~ errors /\ writer \in {"last", "ended"} => queue = <<>>

\* The manifest is what the queue took first.
ManifestOK == accepted # <<>> => Head(accepted) = <<Main, 1>>

\* What a stored status rests on.
StatusOK == status = "completed" => stage = "done" /\ ~ errors /\ writer = "ended"

\* The inductive invariant of the recorder.
RecorderInv ==
  /\ WriterInv /\ RecorderTypeOK
  /\ StageOK /\ TasksOK /\ SettledOK /\ DrainedOK /\ ManifestOK /\ StatusOK
  /\ CheckpointDurable

\* Before run_capture has done anything.
LEMMA RecorderInitInv == RecorderInit => RecorderInv
<1> SUFFICES ASSUME RecorderInit PROVE RecorderInv
  OBVIOUS
<1>1. WriterInv
  BY WriterInitInv DEF RecorderInit
<1>2. errors \in BOOLEAN /\ marked \subseteq AllAged
  BY DEF RecorderInit, AllAged
<1>3. RecorderTypeOK
  <2>1. WriterTypeOK
    BY <1>1 DEF WriterInv
  <2>2. marked \subseteq Event \cup AllAged /\ failures \subseteq Event
    BY <1>2 DEF RecorderInit
  <2> QED BY <1>2, <2>1, <2>2 DEF RecorderInit, RecorderTypeOK
<1>4. StageOK /\ TasksOK /\ DrainedOK /\ ManifestOK /\ StatusOK /\ CheckpointDurable
  <2>1. CheckpointDurable
    BY <1>2 DEF CheckpointDurable
  <2> QED BY <2>1, RecorderAssumption DEF RecorderInit, WriterInit, StageOK, TasksOK, DrainedOK, ManifestOK,
             StatusOK, Service
<1>5. SettledOK
  BY DEF RecorderInit, SettledOK, Service
<1> QED BY <1>1, <1>3, <1>4, <1>5 DEF RecorderInv

\* Whatever the recorder does to its writer is a step the writer allows.
LEMMA RecorderStepIsWriterStep == [RecorderNext]_recorderVars => [WriterNext]_writerVars
<1> SUFFICES ASSUME [RecorderNext]_recorderVars, ~ UNCHANGED writerVars PROVE WriterNext
  OBVIOUS
<1>1. Main \in Source /\ Stream \subseteq Source /\ Poller \subseteq Source
  BY RecorderAssumption
<1>2. CASE WriterStep
  BY <1>2 DEF WriterStep, WriterNext
<1>3. CASE CaptureStep
  <2>1. \/ OwnerStep \/ SourceStep(Main)
        \/ \E p \in Poller : SourceStep(p)
    BY <1>3 DEF CaptureStep, SaveManifest, SaveManifestRaises, SubmitManifest, Launch, LaunchRaises,
       CaptureCancelled, WatchEnds, StopStreams, StreamsSettled, StreamsTimeOut, PollersSettled,
       PollerTimesOut, StopWriter, FinishSession, OwnerStep, SourceStep
  <2> QED BY <1>1, <2>1 DEF WriterNext
<1>4. CASE ServiceStep
  <2>1. \E s \in Stream \cup Poller : SourceStep(s)
    BY <1>4 DEF ServiceStep, HandleMessage, HandlerRaises, StreamReturns, StreamRaises, Poll, MarkSeen,
       PollerReturns, PollerRaises, SourceStep
  <2> QED BY <1>1, <2>1 DEF WriterNext
<1> QED BY <1>2, <1>3, <1>4 DEF RecorderNext, recorderVars

\* The recorder is one of the owners the writer was proved for.
THEOREM RecorderRunsTheWriter == RecorderSpec => WriterSpec
<1>1. RecorderInit => WriterInit
  BY DEF RecorderInit
<1> QED BY <1>1, RecorderStepIsWriterStep, PTL DEF RecorderSpec, WriterSpec


\* The table only grows, and so do the checkpoint's grounds.
LEMMA TableGrows ==
  ASSUME WriterInv, [WriterNext]_writerVars
  PROVE  Elements(table) \subseteq Elements(table')
<1>1. table \in Seq(Event) /\ batch \in Seq(Event)
  BY DEF WriterInv, WriterTypeOK
<1>2. table' = table \/ table' = table \o batch
  BY DEF WriterNext, TaskStep, OwnerStep, SourceStep, Get, FlushTimer, GetStop, Flush, FlushRaises, Cancelled,
     Start, Stop, PutStop, Joined, StopTimesOut, Aborted, SourceCalls, Enqueue, EnqueueBlocks, PutResumes,
     EnqueueRaises, WaitReturns, WaitRaises, SourceCancelled, SourceSkips, Accept, writerVars, queueVars
<1> QED BY <1>1, <1>2, ElementsConcat

\* A step of run_capture or of a service that leaves the writer and the calls alone.
QuietStep ==
  \/ SaveManifestRaises \/ Launch \/ LaunchRaises \/ WatchEnds \/ StopStreams
  \/ CaptureCancelled /\ UNCHANGED writerVars
  \/ StreamsSettled \/ StreamsTimeOut \/ PollersSettled \/ FinishSession
  \/ \E s \in Stream : StreamReturns(s) \/ StreamRaises(s)
  \/ \E p \in Poller : MarkSeen(p) \/ PollerReturns(p) \/ PollerRaises(p)

LEMMA QuietKeepsInv ==
  ASSUME RecorderInv, QuietStep
  PROVE  RecorderInv'
<1>1. UNCHANGED writerVars
  BY DEF QuietStep, SaveManifestRaises, Launch, LaunchRaises, WatchEnds, StopStreams, StreamsSettled,
     StreamsTimeOut, PollersSettled, FinishSession, StreamReturns, Returns, StreamRaises, MarkSeen, PollerReturns, PollerRaises
<1>2. UNCHANGED <<queue, batch, writer, fatal, table, future, owner, hasTask, accepted, call, sent>>
  BY <1>1 DEF writerVars, queueVars, ownerVars, sourceVars
<1>3. WriterInv'
  BY <1>1, WriterNextInv DEF RecorderInv
<1>4. errors' \in BOOLEAN /\ (errors => errors')
  BY DEF QuietStep, SaveManifestRaises, Launch, LaunchRaises, CaptureCancelled, WatchEnds, StopStreams, StreamsSettled,
     StreamsTimeOut, PollersSettled, FinishSession, StreamReturns, Returns, StreamRaises, MarkSeen, PollerReturns,
     PollerRaises, Advance, captureVars, RecorderInv, RecorderTypeOK
<1>5. marked' \subseteq Event \cup AllAged /\ CheckpointDurable'
  <2>1. CASE \E p \in Poller : MarkSeen(p)
    <3>1. PICK p \in Poller : marked' = marked \cup ToMark(p) /\ call[p] = "ok"
      BY <2>1 DEF MarkSeen
    <3>2. p \in Source
      BY RecorderAssumption
    <3>3. EventsOf(p) \subseteq Elements(table) /\ EventsOf(p) \subseteq Event
      BY <3>1, <3>2, WriterAssumption DEF RecorderInv, WriterInv, ReturnedIsStored, EventsOf, Event
    <3>4. FilingsOf(p) \subseteq EventsOf(p) /\ AgedOf(p) \subseteq AllAged
      BY <3>2, WriterAssumption DEF FilingsOf, EventsOf, AllAged
    <3>5. ToMark(p) \subseteq Elements(table) \cup AllAged /\ ToMark(p) \subseteq Event \cup AllAged
      BY <3>3, <3>4 DEF ToMark
    <3>6. marked \subseteq Elements(table) \cup AllAged /\ marked \subseteq Event \cup AllAged
      BY DEF RecorderInv, RecorderTypeOK, CheckpointDurable
    <3> QED BY <1>2, <3>1, <3>5, <3>6 DEF CheckpointDurable
  <2>2. CASE ~ \E p \in Poller : MarkSeen(p)
    <3>1. marked' = marked
      BY <2>2 DEF QuietStep, SaveManifestRaises, Launch, LaunchRaises, CaptureCancelled, WatchEnds, StopStreams,
         StreamsSettled, StreamsTimeOut, PollersSettled, FinishSession, StreamReturns, Returns, StreamRaises, PollerReturns,
         PollerRaises, serviceVars
    <3> QED BY <1>2, <3>1 DEF RecorderInv, RecorderTypeOK, CheckpointDurable
  <2> QED BY <2>1, <2>2
<1>6. RecorderTypeOK'
  <2>1. WriterTypeOK'
    BY <1>3 DEF WriterInv
  <2>2. failures' = failures
    BY DEF QuietStep, SaveManifestRaises, Launch, LaunchRaises, CaptureCancelled, WatchEnds, StopStreams,
         StreamsSettled, StreamsTimeOut, PollersSettled, FinishSession, StreamReturns, Returns, StreamRaises, PollerReturns,
         PollerRaises, MarkSeen, serviceVars
  <2>3. task' \in [Service -> {"none", "running", "returned", "ended", "raised", "cancelled"}]
    BY DEF QuietStep, SaveManifestRaises, Launch, LaunchRaises, CaptureCancelled, WatchEnds, StopStreams,
         StreamsSettled, StreamsTimeOut, PollersSettled, FinishSession, StreamReturns, Returns, StreamRaises, PollerReturns,
         PollerRaises, MarkSeen, serviceVars, RecorderInv, RecorderTypeOK
  <2>4. /\ stage' \in {"open", "manifest", "watch", "stopStreams", "settleStreams",
                       "settlePollers", "stopWriter", "done"}
        /\ status' \in {"running", "completed", "failed"}
    BY DEF QuietStep, SaveManifestRaises, Launch, LaunchRaises, CaptureCancelled, WatchEnds, StopStreams,
         StreamsSettled, StreamsTimeOut, PollersSettled, FinishSession, StreamReturns, Returns, StreamRaises, PollerReturns,
         PollerRaises, MarkSeen, Advance, captureVars, RecorderInv, RecorderTypeOK
  <2> QED BY <1>4, <1>5, <2>1, <2>2, <2>3, <2>4 DEF RecorderInv, RecorderTypeOK
<1>7. StageOK'
  BY <1>2, <1>4 DEF RecorderInv, StageOK, QuietStep, SaveManifestRaises, Launch, LaunchRaises, CaptureCancelled,
     WatchEnds, StopStreams, StreamsSettled, StreamsTimeOut, PollersSettled, FinishSession, StreamReturns,
     Returns, StreamRaises, PollerReturns, PollerRaises, MarkSeen, Advance, captureVars
<1>8. DrainedOK' /\ ManifestOK'
  BY <1>2, <1>4 DEF RecorderInv, DrainedOK, ManifestOK
<1>9. StatusOK'
  BY <1>2, <1>4 DEF RecorderInv, StatusOK, StageOK, WriterInv, OwnerOK, QuietStep, SaveManifestRaises, Launch, LaunchRaises, CaptureCancelled,
     WatchEnds, StopStreams, StreamsSettled, StreamsTimeOut, PollersSettled, FinishSession, StreamReturns,
     Returns, StreamRaises, PollerReturns, PollerRaises, MarkSeen, Advance, captureVars
<1>10. TasksOK'
  <2>1. CASE Launch
    <3>1. accepted # <<>>
      <4>1. <<Main, 1>> \in EventsOf(Main) /\ Main \in Source /\ call[Main] = "ok"
        BY <2>1, RecorderAssumption DEF EventsOf, Launch
      <4>2. table # <<>>
        BY <4>1 DEF RecorderInv, WriterInv, ReturnedIsStored, Elements
      <4>3. PICK n \in 0 .. Len(accepted) : table = SubSeq(accepted, 1, n)
        BY PipelineIsOrder DEF RecorderInv, AcceptanceOrder
      <4> QED BY <4>2, <4>3
    <3> QED BY <1>2, <2>1, <3>1, RecorderAssumption DEF Launch, Advance, TasksOK, Service
  <2>2. CASE ~ Launch
    <3>1. stage' \in {"open", "manifest"} => stage \in {"open", "manifest"}
      BY <2>2 DEF QuietStep, SaveManifestRaises, LaunchRaises, CaptureCancelled, WatchEnds,
         StopStreams, StreamsSettled, StreamsTimeOut, PollersSettled, FinishSession, StreamReturns, Returns, StreamRaises,
         PollerReturns, PollerRaises, MarkSeen, Advance, captureVars
    <3>2. \A s \in Service : task'[s] = "none" <=> task[s] = "none"
      BY <2>2 DEF QuietStep, SaveManifestRaises, LaunchRaises, CaptureCancelled, WatchEnds,
         StopStreams, StreamsSettled, StreamsTimeOut, PollersSettled, FinishSession, StreamReturns, Returns, StreamRaises,
         PollerReturns, PollerRaises, MarkSeen, serviceVars, Running, RecorderInv, RecorderTypeOK
    <3>3. \A s \in Stream : task'[s] \in {"returned", "ended"} =>
                            task[s] \in {"returned", "ended"} \/ call[s] # "putting"
      BY <2>2, RecorderAssumption DEF QuietStep, SaveManifestRaises, LaunchRaises, CaptureCancelled, WatchEnds,
         StopStreams, StreamsSettled, StreamsTimeOut, PollersSettled, FinishSession, StreamReturns, Returns, StreamRaises,
         PollerReturns, PollerRaises, MarkSeen, serviceVars, Running, Service, RecorderInv, RecorderTypeOK
    <3> QED BY <1>2, <3>1, <3>2, <3>3 DEF RecorderInv, TasksOK
  <2> QED BY <2>1, <2>2
<1>11. SettledOK'
  <2> SUFFICES ASSUME ~ errors' PROVE SettledOK'
    BY DEF SettledOK
  <2>1. ~ errors /\ SettledOK /\ task \in [Service -> {"none", "running", "returned", "ended", "raised", "cancelled"}]
    BY <1>4 DEF RecorderInv, RecorderTypeOK
  <2>2. CASE Launch
    BY <2>1, <2>2 DEF Launch, Advance, SettledOK, Service
  <2>3. CASE \/ SaveManifestRaises \/ LaunchRaises \/ StreamsTimeOut
             \/ CaptureCancelled /\ UNCHANGED writerVars
    BY <2>3 DEF SaveManifestRaises, LaunchRaises, StreamsTimeOut, CaptureCancelled, Advance
  <2>4. CASE WatchEnds \/ StopStreams
    BY <2>1, <2>4 DEF WatchEnds, StopStreams, Advance, serviceVars, SettledOK, Service, Running
  <2>5. CASE StreamsSettled \/ PollersSettled \/ FinishSession
    BY <2>1, <2>5 DEF StreamsSettled, PollersSettled, FinishSession, Advance, captureVars, serviceVars,
       SettledOK, Service, Running
  <2>6. CASE \/ \E s \in Stream : StreamReturns(s) \/ StreamRaises(s)
             \/ \E p \in Poller : MarkSeen(p) \/ PollerReturns(p) \/ PollerRaises(p)
    <3>1. stage' = stage
      BY <2>6 DEF StreamReturns, StreamRaises, MarkSeen, PollerReturns, PollerRaises, captureVars
    <3>2. \A s \in Service :
             \/ task'[s] = task[s]
             \/ task[s] = "running" /\ task'[s] \in {"returned", "ended", "raised"}
      BY <2>1, <2>6 DEF StreamReturns, Returns, StreamRaises, MarkSeen, PollerReturns, PollerRaises, Service
    <3>3. \A s \in Service : task'[s] = "ended" => task[s] = "ended" \/ stage \in {"open", "manifest", "watch"}
      BY <2>1, <2>6 DEF StreamReturns, Returns, StreamRaises, MarkSeen, PollerReturns, PollerRaises, Service,
         StopRequested
    <3>4. stage \in {"open", "manifest"} => \A s \in Service : task[s] # "running"
      BY DEF RecorderInv, TasksOK
    <3> QED BY <2>1, <3>1, <3>2, <3>3, <3>4 DEF SettledOK, Service
  <2> QED BY <2>2, <2>3, <2>4, <2>5, <2>6 DEF QuietStep
<1> QED BY <1>3, <1>5, <1>6, <1>7, <1>8, <1>9, <1>10, <1>11 DEF RecorderInv


\* A step of the writer's task.
LEMMA TaskKeepsInv ==
  ASSUME RecorderInv, WriterStep
  PROVE  RecorderInv'
<1>1. /\ UNCHANGED <<owner, hasTask, accepted, call, sent, stage, status, errors, task, failures, marked>>
      /\ Alive
  BY DEF WriterStep, TaskStep, Get, FlushTimer, GetStop, Flush, FlushRaises, Cancelled, ownerVars, sourceVars,
     captureVars, serviceVars, Alive
<1>2. WriterInv' /\ Elements(table) \subseteq Elements(table')
  BY WriterNextInv, TableGrows DEF RecorderInv, WriterStep, WriterNext
<1>3. RecorderTypeOK'
  BY <1>1, <1>2 DEF RecorderInv, RecorderTypeOK, WriterInv
<1>4. StageOK' /\ TasksOK' /\ SettledOK' /\ ManifestOK' /\ CheckpointDurable'
  BY <1>1, <1>2 DEF RecorderInv, StageOK, TasksOK, SettledOK, ManifestOK, CheckpointDurable
<1>5. StatusOK'
  BY <1>1 DEF RecorderInv, StatusOK, Alive
<1>6. DrainedOK'
  <2>1. CASE GetStop
    BY <2>1, GetStopKeepsInv DEF RecorderInv, DrainedOK
  <2>2. CASE ~ GetStop
    <3>1. writer' \in {"last", "ended"} => writer = "last" /\ queue' = queue
      BY <2>2 DEF WriterStep, TaskStep, Get, FlushTimer, Flush, FlushRaises, Cancelled, Dies
    <3> QED BY <1>1, <3>1 DEF RecorderInv, DrainedOK
  <2> QED BY <2>1, <2>2
<1> QED BY <1>2, <1>3, <1>4, <1>5, <1>6 DEF RecorderInv

\* run_capture starts the writer, and in the end stops or aborts it.
LEMMA OwnerKeepsInv ==
  ASSUME RecorderInv, SaveManifest \/ StopWriter
  PROVE  RecorderInv'
<1>1. OwnerStep
  BY DEF SaveManifest, StopWriter, OwnerStep
<1>2. UNCHANGED <<batch, table, future, accepted, call, sent, status, task, failures, marked>>
  BY DEF SaveManifest, StopWriter, Start, Stop, PutStop, Joined, StopTimesOut, Aborted, queueVars, sourceVars,
     Advance, captureVars, serviceVars
<1>3. WriterInv'
  BY <1>1, WriterNextInv DEF RecorderInv, WriterNext
<1>4. errors' = errors
  BY DEF SaveManifest, StopWriter, Advance, captureVars, RecorderInv, RecorderTypeOK
<1>5. RecorderTypeOK'
  <2>1. stage' \in {"manifest", stage}
    BY DEF SaveManifest, StopWriter, Advance, captureVars
  <2> QED BY <1>2, <1>3, <1>4, <2>1 DEF RecorderInv, RecorderTypeOK, WriterInv
<1>6. StageOK'
  BY <1>4 DEF RecorderInv, StageOK, SaveManifest, StopWriter, Start, Stop, PutStop, Joined, StopTimesOut, Aborted, Advance, captureVars, ownerVars
<1>7. TasksOK' /\ SettledOK' /\ ManifestOK' /\ CheckpointDurable'
  <2>1. stage' = stage \/ (stage = "open" /\ stage' = "manifest")
    BY DEF SaveManifest, StopWriter, Advance, captureVars
  <2> QED BY <1>2, <1>4, <2>1 DEF RecorderInv, TasksOK, SettledOK, ManifestOK, CheckpointDurable
<1>8. DrainedOK' /\ StatusOK'
  <2>1. CASE PutStop
    <3>1. writer' = writer /\ writer \notin {"last", "ended"}
      BY <2>1 DEF PutStop, RecorderInv, WriterInv, OwnerOK, BeforeStop
    <3> QED BY <1>2, <1>4, <3>1 DEF RecorderInv, DrainedOK, StatusOK
  <2>2. CASE ~ PutStop
    <3>1. /\ queue' = queue /\ writer' \in {writer, "get"}
          /\ stage' = stage \/ stage = "open"
          /\ writer' # writer => stage = "open"
      BY <2>2 DEF SaveManifest, StopWriter, Start, Stop, Joined, StopTimesOut, Aborted, queueVars, Advance, captureVars
    <3> QED BY <1>2, <1>4, <3>1 DEF RecorderInv, DrainedOK, StatusOK
  <2> QED BY <2>1, <2>2
<1> QED BY <1>3, <1>5, <1>6, <1>7, <1>8 DEF RecorderInv

\* What a step of a source leaves alone.
LEMMA SourceFrame ==
  ASSUME NEW s \in Source, SourceStep(s), WriterInv
  PROVE  /\ UNCHANGED <<batch, writer, fatal, table, owner, hasTask>>
         /\ Accept(s) \/ UNCHANGED <<queue, accepted>>
         /\ \A r \in Source \ {s} : call'[r] = call[r]
  BY DEF SourceStep, SourceCalls, Enqueue, EnqueueBlocks, PutResumes, EnqueueRaises, WaitReturns, WaitRaises,
     SourceCancelled, SourceSkips, Accept, queueVars, ownerVars, WriterInv, WriterTypeOK

\* A source's step that changes nothing else: what it has to respect.
LEMMA SourceKeepsRecorder ==
  ASSUME RecorderInv, NEW s \in Source, SourceStep(s),
         UNCHANGED <<captureVars, task, marked>>, failures' \subseteq Event,
         s \in Service => task[s] # "none",
         s \in Stream /\ task[s] \in {"returned", "ended"} => call'[s] # "putting",
         Accept(s) => \/ s = Main /\ sent[Main] = 0
                      \/ accepted # <<>>,
         Accept(s) => errors \/ writer \notin {"last", "ended"}
  PROVE  RecorderInv'
<1>1. /\ UNCHANGED <<batch, writer, fatal, table, owner, hasTask, stage, status, errors, task, marked>>
      /\ Accept(s) \/ UNCHANGED <<queue, accepted>>
      /\ \A r \in Source \ {s} : call'[r] = call[r]
  BY SourceFrame DEF RecorderInv, captureVars
<1>2. WriterInv'
  BY SourceKeepsInv DEF RecorderInv
<1>3. RecorderTypeOK'
  BY <1>1, <1>2 DEF RecorderInv, RecorderTypeOK, WriterInv
<1>4. StageOK' /\ SettledOK' /\ StatusOK' /\ CheckpointDurable'
  BY <1>1 DEF RecorderInv, StageOK, SettledOK, StatusOK, CheckpointDurable
<1>5. DrainedOK'
  BY <1>1 DEF RecorderInv, DrainedOK
<1>6. ManifestOK' /\ (accepted # <<>> => accepted' # <<>>)
  <2>1. CASE Accept(s)
    <3>1. PICK c \in Event : c = Coming(s) /\ accepted' = Append(accepted, c)
      <4>1. Coming(s) \in Event /\ accepted' = Append(accepted, Coming(s))
        BY <2>1, SMTT(30) DEF Accept, RecorderInv, WriterInv, WriterTypeOK, Coming, Event
      <4> QED BY <4>1
    <3>2. accepted \in Seq(Event)
      BY DEF RecorderInv, WriterInv, WriterTypeOK
    <3>3. CASE accepted # <<>>
      <4>1. Head(Append(accepted, c)) = Head(accepted) /\ Append(accepted, c) # <<>>
        BY <3>2, <3>3
      <4> QED BY <3>1, <3>3, <4>1 DEF RecorderInv, ManifestOK
    <3>4. CASE accepted = <<>>
      <4>1. c = <<Main, 1>>
        BY <2>1, <3>1, <3>4 DEF Coming
      <4>2. Head(Append(<<>>, c)) = c
        OBVIOUS
      <4> QED BY <3>1, <3>4, <4>1, <4>2 DEF ManifestOK
    <3> QED BY <3>3, <3>4
  <2>2. CASE UNCHANGED <<queue, accepted>>
    BY <2>2 DEF RecorderInv, ManifestOK
  <2> QED BY <1>1, <2>1, <2>2
<1>7. TasksOK'
  BY <1>1, <1>6, RecorderAssumption DEF RecorderInv, TasksOK, Service
<1> QED BY <1>2, <1>3, <1>4, <1>5, <1>6, <1>7 DEF RecorderInv


\* run_capture submits the manifest before anything else is submitted.
LEMMA ManifestKeepsInv ==
  ASSUME RecorderInv, SubmitManifest
  PROVE  RecorderInv'
<1>1. SourceStep(Main) /\ Main \in Source /\ Main \notin Service /\ Main \notin Stream
  BY RecorderAssumption DEF SubmitManifest, SourceStep, Service
<1>2. UNCHANGED <<captureVars, task, marked>> /\ failures' \subseteq Event
  BY DEF SubmitManifest, serviceVars, RecorderInv, RecorderTypeOK
<1>3. Accept(Main) => sent[Main] = 0
  <2>1. CASE Enqueue(Main)
    BY <1>1, <2>1, RecorderAssumption DEF Enqueue, RecorderInv, WriterInv, WriterTypeOK
  <2>2. CASE ~ Enqueue(Main)
    <3>1. sent' = sent
      BY <2>2 DEF SubmitManifest, SourceCalls, EnqueueRaises, WaitReturns, WaitRaises
    <3>2. Accept(Main) => sent' # sent
      BY <1>1 DEF Accept, RecorderInv, WriterInv, WriterTypeOK
    <3> QED BY <3>1, <3>2
  <2> QED BY <2>1, <2>2
<1>4. writer \notin {"last", "ended"}
  BY DEF SubmitManifest, RecorderInv, StageOK, WriterInv, OwnerOK, BeforeStop
<1> QED BY <1>1, <1>2, <1>3, <1>4, SourceKeepsRecorder

\* A service that is not done hands an event over, is refused, waits or hears back.
LEMMA ServiceKeepsInv ==
  ASSUME RecorderInv, NEW s \in Service,
         \/ s \in Stream /\ (HandleMessage(s) \/ HandlerRaises(s))
         \/ s \in Poller /\ Poll(s)
  PROVE  RecorderInv'
<1>1. SourceStep(s) /\ s \in Source /\ s # Main
  BY RecorderAssumption DEF HandleMessage, HandlerRaises, Poll, SourceStep, Service
<1>2. UNCHANGED <<captureVars, task, marked>>
  BY DEF HandleMessage, HandlerRaises, Poll, serviceVars
<1>3. failures' \subseteq Event
  <2>1. Coming(s) \in Event
    BY <1>1 DEF RecorderInv, WriterInv, WriterTypeOK, Coming, Event
  <2> QED BY <2>1 DEF HandleMessage, HandlerRaises, Poll, serviceVars, RecorderInv, RecorderTypeOK
<1>4. task[s] # "none"
  BY DEF HandleMessage, HandlerRaises, Poll, Handling, SourceSkips, RecorderInv, TasksOK
<1>5. accepted # <<>>
  BY <1>4 DEF RecorderInv, TasksOK
<1>6. Accept(s) => task[s] \in {"running", "cancelled"} \/ call[s] = "putting"
  <2>1. CASE HandlerRaises(s)
    <3>1. Accept(s) => accepted' # accepted
      BY <1>1 DEF Accept, RecorderInv, WriterInv, WriterTypeOK
    <3> QED BY <2>1, <3>1 DEF HandlerRaises, SourceSkips
  <2>2. CASE ~ HandlerRaises(s)
    BY <2>2 DEF HandleMessage, Poll, Handling
  <2> QED BY <2>1, <2>2
<1>7. s \in Stream /\ task[s] \in {"returned", "ended"} => call'[s] # "putting"
  <2>1. s \in Stream /\ task[s] \in {"returned", "ended"} => HandlerRaises(s)
    BY RecorderAssumption DEF HandleMessage, Poll, Handling, RecorderInv, TasksOK
  <2>2. HandlerRaises(s) => call'[s] = "ready"
    BY <1>1 DEF HandlerRaises, SourceSkips, RecorderInv, WriterInv, WriterTypeOK
  <2> QED BY <2>1, <2>2
<1>8. Accept(s) => errors \/ writer \notin {"last", "ended"}
  <2> SUFFICES ASSUME Accept(s), ~ errors, writer \in {"last", "ended"} PROVE FALSE
    OBVIOUS
  <2>1. stage \in {"stopWriter", "done"}
    BY DEF RecorderInv, StageOK, WriterInv, OwnerOK, BeforeStop
  <2>2. task[s] = "returned"
    BY <2>1 DEF RecorderInv, SettledOK, Service
  <2>3. s \in Poller
    BY <1>6, <2>2 DEF RecorderInv, TasksOK, Service
  <2> QED BY <2>2, <2>3, RecorderAssumption DEF Poll
<1> QED BY <1>1, <1>2, <1>3, <1>4, <1>5, <1>7, <1>8, SourceKeepsRecorder

\* A cancellation of run_capture, or of a poller that does not end in time.
LEMMA CancellationKeepsInv ==
  ASSUME RecorderInv, CaptureCancelled \/ PollerTimesOut, ~ QuietStep
  PROVE  RecorderInv'
<1>1. errors' = TRUE
  BY DEF CaptureCancelled, PollerTimesOut, Advance
<1>2. [WriterNext]_writerVars
  BY RecorderStepIsWriterStep DEF RecorderNext, CaptureStep
<1>3. WriterInv'
  BY <1>2, WriterNextInv DEF RecorderInv
<1>4. UNCHANGED <<queue, batch, writer, fatal, table, future, owner, hasTask, accepted, sent, status, failures, marked>>
  BY DEF CaptureCancelled, PollerTimesOut, QuietStep, SourceCancelled, Advance, serviceVars, writerVars, queueVars,
     ownerVars, sourceVars
<1>5. /\ \/ stage' = "stopStreams" /\ stage = "manifest"
         \/ stage' = "settlePollers" /\ stage = "settlePollers"
      /\ \A s \in Service : \/ task'[s] = task[s]
                            \/ task[s] = "running" /\ task'[s] = "cancelled"
      /\ task' \in [Service -> {"none", "running", "returned", "ended", "raised", "cancelled"}]
  <2>1. CASE CaptureCancelled
    BY <2>1 DEF CaptureCancelled, QuietStep, Advance, serviceVars, RecorderInv, RecorderTypeOK
  <2>2. CASE PollerTimesOut
    <3>1. PICK p \in Poller \cap Running : task' = [task EXCEPT ![p] = "cancelled"]
      BY <2>2 DEF PollerTimesOut
    <3>2. p \in Service /\ task[p] = "running"
      BY <3>1 DEF Running
    <3>3. stage' = "settlePollers" /\ stage = "settlePollers"
      BY <2>2 DEF PollerTimesOut, Advance
    <3> QED BY <3>1, <3>2, <3>3 DEF RecorderInv, RecorderTypeOK
  <2> QED BY <2>1, <2>2
<1>6. \A s \in Service : \/ call'[s] = call[s]
                         \/ task[s] = "running" /\ call'[s] = "cancelled"
  <2>0. call \in [Source -> CallState] /\ Service \subseteq Source
    BY RecorderAssumption DEF RecorderInv, WriterInv, WriterTypeOK, CallState, Service
  <2>1. CASE CaptureCancelled
    <3>1. call' = [call EXCEPT ![Main] = "cancelled"]
      BY <2>1 DEF CaptureCancelled, QuietStep, SourceCancelled
    <3> QED BY <2>0, <3>1, RecorderAssumption DEF Service
  <2>2. CASE PollerTimesOut
    <3>1. PICK p \in Poller \cap Running : call' = [call EXCEPT ![p] = "cancelled"] \/ call' = call
      BY <2>2 DEF PollerTimesOut, SourceCancelled, writerVars, sourceVars
    <3>2. p \in Service /\ task[p] = "running"
      BY <3>1 DEF Running
    <3> QED BY <2>0, <3>1, <3>2
  <2> QED BY <2>1, <2>2
<1>7. RecorderTypeOK'
  <2>1. errors' \in BOOLEAN
    BY <1>1
  <2> QED BY <1>3, <1>4, <1>5, <2>1 DEF RecorderInv, RecorderTypeOK, WriterInv
<1>8. StageOK'
  BY <1>1, <1>4, <1>5 DEF RecorderInv, StageOK
<1>9. TasksOK'
  BY <1>4, <1>5, <1>6, RecorderAssumption DEF RecorderInv, TasksOK, Service
<1>10. SettledOK' /\ DrainedOK' /\ ManifestOK' /\ StatusOK' /\ CheckpointDurable'
  BY <1>1, <1>4, <1>5 DEF RecorderInv, SettledOK, DrainedOK, ManifestOK, StatusOK, CheckpointDurable
<1> QED BY <1>3, <1>7, <1>8, <1>9, <1>10 DEF RecorderInv

\* Every step of the recorder keeps the invariant.
LEMMA RecorderNextInv == RecorderInv /\ [RecorderNext]_recorderVars => RecorderInv'
<1> SUFFICES ASSUME RecorderInv, [RecorderNext]_recorderVars PROVE RecorderInv'
  OBVIOUS
<1>1. CASE CaptureStep
  <2>1. \/ QuietStep \/ SaveManifest \/ StopWriter \/ SubmitManifest
        \/ (CaptureCancelled \/ PollerTimesOut) /\ ~ QuietStep
    BY <1>1 DEF CaptureStep, QuietStep
  <2> QED BY <2>1, QuietKeepsInv, OwnerKeepsInv, ManifestKeepsInv, CancellationKeepsInv
<1>2. CASE WriterStep
  BY <1>2, TaskKeepsInv
<1>3. CASE ServiceStep
  <2>1. \/ QuietStep
        \/ \E s \in Service : \/ s \in Stream /\ (HandleMessage(s) \/ HandlerRaises(s))
                              \/ s \in Poller /\ Poll(s)
    BY <1>3 DEF ServiceStep, QuietStep, Service
  <2> QED BY <2>1, QuietKeepsInv, ServiceKeepsInv
<1>4. CASE UNCHANGED recorderVars
  <2>1. WriterInv'
    BY <1>4, WriterNextInv DEF RecorderInv, recorderVars
  <2>2. UNCHANGED <<queue, batch, writer, fatal, table, future, owner, hasTask, accepted, call, sent,
                    stage, status, errors, task, failures, marked>>
    BY <1>4 DEF recorderVars, writerVars, queueVars, ownerVars, sourceVars, captureVars, serviceVars
  <2> QED BY <2>1, <2>2 DEF RecorderInv, RecorderTypeOK, WriterInv, StageOK, TasksOK, SettledOK, DrainedOK,
             ManifestOK, StatusOK, CheckpointDurable
<1> QED BY <1>1, <1>2, <1>3, <1>4 DEF RecorderNext

\* The invariant holds in every behaviour of the recorder.
THEOREM RecorderInvHolds == RecorderSpec => []RecorderInv
  BY RecorderInitInv, RecorderNextInv, PTL DEF RecorderSpec

-----------------------------------------------------------------------------
(* What the invariant gives.                                               *)

\* Every variable of the recorder and of its writer keeps its type, and the queue its bound.
THEOREM RecorderTypesHold == RecorderSpec => []RecorderTypeOK
<1>1. RecorderInv => RecorderTypeOK
  BY DEF RecorderInv
<1> QED BY <1>1, RecorderInvHolds, PTL

\* submit_and_wait: whatever fails and whoever waits for room, an event that was acknowledged is in
\* the table.
THEOREM AckStaysBacked == RecorderSpec => []AckMeansPersisted
<1>1. RecorderInv => AckMeansPersisted
  BY DEF RecorderInv, WriterInv
<1> QED BY <1>1, RecorderInvHolds, PTL

\* ingest_seq: the table is an initial part of what the queue took, with no gap and no exchange.
THEOREM TableKeepsOrder == RecorderSpec => []AcceptanceOrder
<1>1. RecorderInv => AcceptanceOrder
  BY PipelineIsOrder DEF RecorderInv
<1> QED BY <1>1, RecorderInvHolds, PTL

\* run_capture and the SEC checkpoint: the manifest is the first event of the table, and what is
\* marked as seen is in it, or was too old to be stored when its CIK was first polled.
THEOREM StoredComesFirst == RecorderSpec => []StoredFirst
<1>1. RecorderInv => StoredFirst
  <2> SUFFICES ASSUME RecorderInv, table # <<>> PROVE Head(table) = <<Main, 1>>
    BY DEF RecorderInv, StoredFirst, ManifestFirst
  <2>1. PICK n \in 0 .. Len(accepted) : table = SubSeq(accepted, 1, n)
    BY PipelineIsOrder DEF RecorderInv, AcceptanceOrder
  <2>2. accepted \in Seq(Event)
    BY DEF RecorderInv, WriterInv, WriterTypeOK
  <2>3. n > 0 /\ accepted # <<>>
    BY <2>1, <2>2
  <2>4. Head(SubSeq(accepted, 1, n)) = Head(accepted)
    BY <2>2, <2>3
  <2> QED BY <2>1, <2>3, <2>4 DEF RecorderInv, ManifestOK
<1> QED BY <1>1, RecorderInvHolds, PTL

\* finish_session: a session that is reported complete has stored all that its queue accepted, its
\* writer ended by itself and every service returned.
THEOREM StatusStaysTrue == RecorderSpec => []StatusIsTrue
<1>1. RecorderInv => StatusIsTrue
  <2> SUFFICES ASSUME RecorderInv, status = "completed"
               PROVE  table = accepted /\ writer = "ended" /\ \A s \in Service : task[s] = "returned"
    BY DEF StatusIsTrue, CompletedIsWhole, FailureIsReported
  <2>1. stage = "done" /\ ~ errors /\ writer = "ended"
    BY DEF RecorderInv, StatusOK
  <2>2. \A s \in Service : task[s] = "returned"
    BY <2>1 DEF RecorderInv, SettledOK, Service
  <2>3. queue = <<>> /\ batch = <<>> /\ table \in Seq(Event)
    BY <2>1 DEF RecorderInv, DrainedOK, WriterInv, OwnerOK, WriterTypeOK
  <2>4. PICK rest \in Seq(Event) : accepted = (table \o batch) \o rest /\ QueueHolds(rest)
    BY <2>1 DEF RecorderInv, WriterInv, Pipeline
  <2>5. rest = <<>>
    <3>1. \A a, b \in Seq(Event) : (a \o <<STOP>>) \o b # <<>>
      OBVIOUS
    <3> QED BY <2>3, <2>4, <3>1 DEF QueueHolds
  <2>6. (table \o <<>>) \o <<>> = table
    BY <2>3, EventEmpty
  <2> QED BY <2>1, <2>2, <2>3, <2>4, <2>5, <2>6
<1> QED BY <1>1, RecorderInvHolds, PTL

-----------------------------------------------------------------------------
(* The evaluator.                                                          *)

PrimaryAttempts == {a \in attempts : a.role = "primary"}

\* A coroutine that has begun an attempt and not stored it yet.
Trying(t) == pc[t] \in {"asking", "waiting", "saving"}

\* A primary attempt only succeeds in time.
SucceedsInTime(a) ==
  a.role = "primary" /\ a.status = "succeeded" => a.received =< Cutoff

\* What a coroutine has in hand.
PendingOK(t) ==
  /\ Trying(t) => number[t] \in 1 .. MaxAttempts /\ callId[t] \in 1 .. MaxCalls
  /\ pc[t] \in {"saving", "concluding"} =>
       pending[t] \in Attempt /\ pending[t].role = RoleOf(t) /\ SucceedsInTime(pending[t])
  /\ pc[t] = "saving" => pending[t].number = number[t]
  /\ pc[t] = "concluding" => pending[t] \in attempts

\* The first attempt is stored before any other, and the unique key on it keeps
\* every other call of the run from storing one.
FirstIsStored ==
  /\ PrimaryAttempts # {} => \E a \in PrimaryAttempts : a.number = 1
  /\ result # NoResult /\ ~ tooMany => PrimaryAttempts # {}

\* A caller that has stored an attempt and not concluded yet.
Retrying(c) == Trying(c) /\ number[c] > 1
Decides(c)  == Retrying(c) \/ pc[c] = "concluding"

\* There is at most one, whoever else evaluates the run at the same time.
OneDecides == \A c, d \in Callers : Decides(c) /\ Decides(d) => c = d

\* A second attempt is only made by the call that stored the first, which failed on
\* the way to the provider, and the run has no result yet.
SecondIsRetry ==
  \A c \in Callers : Retrying(c) =>
    /\ result = NoResult
    /\ PrimaryAttempts # {}
    /\ \A a \in PrimaryAttempts : a.status = "transport_error"

\* Only the last attempt of the call that concludes decides.
LastDecides ==
  \A c \in Callers : pc[c] = "concluding" =>
    /\ result = NoResult
    /\ \A a \in PrimaryAttempts : a = pending[c] \/ a.status = "transport_error"

\* A request with too many candidates never gets to the provider.
RejectedStays ==
  /\ tooMany => /\ \A c \in Callers : pc[c] \in {"idle", "rejecting"}
                /\ result \in {NoResult, Unready("input_rejected")}
  /\ \A c \in Callers : ~ tooMany => pc[c] # "rejecting"

\* What a stored result says.
ResultOK ==
  result # NoResult =>
    /\ result.output # NoOutput => result.status = "primary_valid"
    /\ result.status = "primary_valid" =>
         \A a \in PrimaryAttempts : a.status \in {"succeeded", "transport_error"}

\* Before anything is concluded or asked the run was evaluated.
RunIsEvaluated == result # NoResult \/ (\E c \in Callers : pc[c] # "idle") => calls >= 1

\* There is nothing to compare before there is a result.
ComparisonHasResult == comparison # NoComparison => result # NoResult

\* The shadow path runs on a stored output.
ShadowHasPrimary ==
  pc["shadow"] # "idle" => result # NoResult /\ result.output # NoOutput

\* What relates the coroutines to each other and to the tables.
TasksAgree ==
  /\ OneDecides /\ SecondIsRetry /\ LastDecides
  /\ RejectedStays /\ RunIsEvaluated /\ ShadowHasPrimary

\* What the coroutines have in hand, as types.
HandsOK ==
  /\ callId \in [Task -> Nat] /\ number \in [Task -> Nat]
  /\ pending \in [Task -> Attempt \cup {NoPending}]

\* The inductive invariant.
EvaluatorInv ==
  /\ EvaluatorTypeOK /\ HandsOK
  /\ tooMany \in BOOLEAN
  /\ \A t \in Task : PendingOK(t)
  /\ \A a \in attempts : SucceedsInTime(a)
  /\ FirstIsStored /\ TasksAgree /\ ResultOK /\ ComparisonHasResult
  /\ answers \subseteq IF result = NoResult THEN {} ELSE {result}
  /\ DecisionInTime /\ ComparisonIsBacked

USE EvaluatorAssumption DEF EvaluatorPolicy

\* A run that has not been evaluated satisfies the invariant.
LEMMA EvaluatorInitInv == EvaluatorInit => EvaluatorInv
  BY DEF EvaluatorInit, EvaluatorInv, EvaluatorTypeOK, HandsOK, PendingOK, Trying,
         SucceedsInTime, FirstIsStored, TasksAgree, OneDecides, Decides, Retrying,
         SecondIsRetry, LastDecides, RejectedStays, ResultOK, ShadowHasPrimary,
         DecisionInTime, ComparisonIsBacked, RunIsEvaluated, ComparisonHasResult,
         PrimaryAttempts, Task, NoResult, NoComparison

\* The shadow path is a role of its own.
LEMMA Roles ==
  /\ RoleOf("shadow") = "shadow"
  /\ \A c \in Callers : c \in Task /\ c # "shadow" /\ RoleOf(c) = "primary"
  /\ \A t \in Task : t = "shadow" \/ t \in Callers
  BY DEF RoleOf, Task

\* While the tables and answers stay as they are, so does what is said of them alone.
LEMMA TablesUnchanged ==
  ASSUME EvaluatorInv, UNCHANGED <<tables, answers, tooMany>>
  PROVE  /\ (\A a \in attempts : SucceedsInTime(a))'
         /\ FirstIsStored' /\ ResultOK' /\ DecisionInTime' /\ ComparisonIsBacked'
         /\ ComparisonHasResult'
         /\ PrimaryAttempts' = PrimaryAttempts
         /\ (answers \subseteq IF result = NoResult THEN {} ELSE {result})'
  BY DEF tables, EvaluatorInv, SucceedsInTime, FirstIsStored, ResultOK, DecisionInTime,
         ComparisonIsBacked, ComparisonHasResult, PrimaryAttempts

\* A coroutine that goes on with its attempt, and touches nothing else.
LEMMA GoesOn ==
  ASSUME EvaluatorInv, NEW t \in Task, NEW place \in {"waiting", "saving"}, Trying(t),
         Go(t, place), t = "shadow" \/ ~ tooMany,
         UNCHANGED <<calls, tooMany, number, answers, tables>>,
         \A u \in Task : u # t => pending'[u] = pending[u]
  PROVE  TasksAgree'
<1>1. /\ \A u \in Task : pc'[u] = IF u = t THEN place ELSE pc[u]
      /\ UNCHANGED <<calls, tooMany, number, answers, attempts, result, comparison>>
  BY DEF Go, EvaluatorInv, EvaluatorTypeOK, tables
<1>2. \A u \in Task : /\ Retrying(u)' <=> Retrying(u)
                      /\ (pc[u] = "concluding")' <=> pc[u] = "concluding"
                      /\ (pc[u] = "idle")' <=> pc[u] = "idle"
                      /\ (pc[u] = "rejecting")' <=> pc[u] = "rejecting"
                      /\ Decides(u)' <=> Decides(u)
  BY <1>1 DEF Retrying, Trying, Decides
<1>3. OneDecides' /\ SecondIsRetry'
  BY <1>1, <1>2, TablesUnchanged, Roles DEF EvaluatorInv, TasksAgree, OneDecides, SecondIsRetry
<1>4. LastDecides'
  BY <1>1, <1>2, TablesUnchanged, Roles DEF EvaluatorInv, TasksAgree, LastDecides
<1>5. RejectedStays'
  BY <1>1, <1>2, Roles DEF EvaluatorInv, TasksAgree, RejectedStays, Trying
<1>6. RunIsEvaluated' /\ ShadowHasPrimary'
  BY <1>1, <1>2, Roles DEF EvaluatorInv, TasksAgree, RunIsEvaluated, ShadowHasPrimary, Task
<1> QED BY <1>3, <1>4, <1>5, <1>6 DEF TasksAgree

\* An attempt that is built with a valid status and output is one the table takes.
LEMMA BuiltIsAttempt ==
  ASSUME EvaluatorInv, NEW t \in Task, Trying(t),
         NEW s \in Failure \cup {"succeeded"}, NEW o \in Outputs \cup {NoOutput}
  PROVE  /\ Built(t, s, o) \in Attempt
         /\ Built(t, s, o).role = RoleOf(t) /\ Built(t, s, o).number = number[t]
         /\ Built(t, s, o).status = s
         /\ RoleOf(t) = "primary" /\ s = "succeeded" => Built(t, s, o).received = now
  BY DEF EvaluatorInv, EvaluatorTypeOK, PendingOK, Built, Attempt, Role, RoleOf

\* A call of the provider that ends, however it ends, leaves an attempt to be saved.
LEMMA EndsCall ==
  ASSUME EvaluatorInv, NEW t \in Task, Trying(t), t = "shadow" \/ ~ tooMany,
         NEW s \in Failure \cup {"succeeded"}, NEW o \in Outputs \cup {NoOutput},
         RoleOf(t) = "primary" /\ s = "succeeded" => now =< Cutoff,
         Hand(t, Built(t, s, o))
  PROVE  EvaluatorInv'
<1> DEFINE b == Built(t, s, o)
<1>1. /\ b \in Attempt /\ b.role = RoleOf(t) /\ b.number = number[t] /\ SucceedsInTime(b)
  BY BuiltIsAttempt DEF SucceedsInTime
<1> HIDE DEF b
<1>2. /\ pending' = [pending EXCEPT ![t] = b] /\ Go(t, "saving")
      /\ UNCHANGED <<now, calls, tooMany, callId, number, answers, tables>>
  BY DEF Hand, b
<1>3. EvaluatorTypeOK' /\ HandsOK'
  BY <1>1, <1>2 DEF EvaluatorInv, EvaluatorTypeOK, HandsOK, Go, tables
<1>4. ASSUME NEW u \in Task PROVE PendingOK(u)'
  BY <1>1, <1>2 DEF EvaluatorInv, EvaluatorTypeOK, HandsOK, PendingOK, Trying, Go, tables,
     SucceedsInTime
<1>5. TasksAgree'
  BY <1>2, GoesOn DEF EvaluatorInv, HandsOK
<1> QED BY <1>2, <1>3, <1>4, <1>5, TablesUnchanged DEF EvaluatorInv, tables

\* Asking the provider, by either role.
LEMMA AskKeepsInv ==
  ASSUME EvaluatorInv, NEW t \in Task, Ask(t)
  PROVE  EvaluatorInv'
<1>1. /\ pc[t] = "asking" /\ Go(t, "waiting") /\ Trying(t)
      /\ UNCHANGED <<now, calls, tooMany, callId, number, pending, answers, tables>>
  BY DEF Ask, Trying
<1>2. EvaluatorTypeOK' /\ HandsOK' /\ \A u \in Task : PendingOK(u)'
  BY <1>1 DEF EvaluatorInv, EvaluatorTypeOK, HandsOK, PendingOK, Trying, SucceedsInTime,
     tables, Go
<1>3. t = "shadow" \/ ~ tooMany
  BY <1>1, Roles DEF EvaluatorInv, TasksAgree, RejectedStays
<1>4. TasksAgree'
  BY <1>1, <1>3, GoesOn
<1> QED BY <1>1, <1>2, <1>4, TablesUnchanged DEF EvaluatorInv, tables

\* The provider's answer, its failure and the timeouts.
LEMMA AnswerKeepsInv ==
  ASSUME EvaluatorInv, NEW t \in Task,
         TooLateToAsk(t) \/ TimesOut(t) \/ \E kind \in Kinds : Answered(t, kind)
  PROVE  EvaluatorInv'
<1>1. Trying(t) /\ (t = "shadow" \/ ~ tooMany)
  BY Roles DEF TooLateToAsk, TimesOut, Answered, Trying, EvaluatorInv, TasksAgree, RejectedStays
<1>2. CASE TooLateToAsk(t) \/ TimesOut(t)
  <2>1. "deadline_exceeded" \in Failure \cup {"succeeded"} /\ NoOutput \in Outputs \cup {NoOutput}
    BY DEF Failure
  <2> QED BY <1>1, <1>2, <2>1, EndsCall DEF TooLateToAsk, TimesOut
<1>3. ASSUME NEW kind \in Kinds, Answered(t, kind) PROVE EvaluatorInv'
  <2> DEFINE s == StatusOfAnswer(t, kind)
  <2>1. s \in Failure \cup {"succeeded"} /\ (RoleOf(t) = "primary" /\ s = "succeeded" => now =< Cutoff)
    BY DEF StatusOfAnswer, Kind, Failure, EvaluatorInv, EvaluatorTypeOK
  <2>2. PICK o \in IF s = "succeeded" THEN Outputs ELSE {NoOutput} : Hand(t, Built(t, s, o))
    BY <1>3 DEF Answered
  <2>3. o \in Outputs \cup {NoOutput}
    BY <2>2
  <2> HIDE DEF s
  <2> QED BY <1>1, <2>1, <2>2, <2>3, EndsCall
<1> QED BY <1>2, <1>3

\* The heart of it: an attempt is stored only by the call that may still decide the run,
\* and with the first one that call shuts out every other.
LEMMA SaveKeepsInv ==
  ASSUME EvaluatorInv, NEW t \in Task, SaveAttempt(t)
  PROVE  EvaluatorInv'
<1> DEFINE a == pending[t]
<1>1. /\ a \in Attempt /\ a.role = RoleOf(t) /\ a.number = number[t] /\ SucceedsInTime(a)
      /\ number[t] \in 1 .. MaxAttempts /\ callId[t] \in 1 .. MaxCalls /\ pc[t] = "saving"
      /\ attempts' = attempts \cup {a}
      /\ UNCHANGED <<now, calls, tooMany, callId, answers, result, comparison>>
      /\ \A b \in attempts : b.role = RoleOf(t) => b.number # a.number
      /\ \/ /\ a.status = "transport_error" /\ a.number < MaxAttempts
            /\ number' = [number EXCEPT ![t] = number[t] + 1] /\ Go(t, "asking")
            /\ pending' = [pending EXCEPT ![t] = NoPending]
         \/ UNCHANGED <<number, pending>> /\ Go(t, "concluding")
  BY DEF SaveAttempt, EvaluatorInv, PendingOK, Trying, MayRetry, AttemptConflicts
<1>2. /\ t \in Callers => PrimaryAttempts' = PrimaryAttempts \cup {a}
      /\ t = "shadow" => PrimaryAttempts' = PrimaryAttempts
  BY <1>1, Roles DEF PrimaryAttempts
<1> HIDE DEF a
<1>3. \A u \in Task : /\ u # t => pc'[u] = pc[u] /\ number'[u] = number[u] /\ pending'[u] = pending[u]
                      /\ Retrying(u)' => u = t \/ Retrying(u)
                      /\ Decides(u)' => u = t \/ Decides(u)
  BY <1>1 DEF EvaluatorInv, EvaluatorTypeOK, HandsOK, Go, Retrying, Trying, Decides
<1>4. \A c \in Callers : Decides(c) => PrimaryAttempts # {} /\ result = NoResult
  BY Roles DEF Decides, EvaluatorInv, TasksAgree, SecondIsRetry, LastDecides, PendingOK,
     PrimaryAttempts
<1>5. ASSUME t \in Callers
      PROVE  /\ result = NoResult /\ ~ tooMany
             /\ \A b \in PrimaryAttempts : b.status = "transport_error"
             /\ \A c \in Callers : Decides(c) => c = t
             /\ PrimaryAttempts = {} => a.number = 1
  <2>1. ~ tooMany
    BY <1>1, <1>5 DEF EvaluatorInv, TasksAgree, RejectedStays
  <2>2. CASE PrimaryAttempts = {}
    <3>1. ~ Retrying(t)
      BY <1>5, <2>2 DEF EvaluatorInv, TasksAgree, SecondIsRetry
    <3>2. number[t] = 1
      BY <1>1, <3>1 DEF Retrying, Trying
    <3> QED BY <1>1, <1>4, <2>1, <2>2, <3>2 DEF EvaluatorInv, FirstIsStored
  <2>3. CASE PrimaryAttempts # {}
    <3>1. number[t] # 1
      BY <1>1, <1>5, <2>3, Roles DEF EvaluatorInv, FirstIsStored, PrimaryAttempts
    <3>2. Retrying(t)
      BY <1>1, <3>1 DEF Retrying, Trying
    <3>3. Decides(t)
      BY <3>2 DEF Decides
    <3> QED BY <1>5, <2>1, <2>3, <3>2, <3>3 DEF EvaluatorInv, TasksAgree, SecondIsRetry, OneDecides
  <2> QED BY <2>2, <2>3
<1>6. EvaluatorTypeOK' /\ HandsOK'
  BY <1>1 DEF EvaluatorInv, EvaluatorTypeOK, HandsOK, Go
<1>7. ASSUME NEW u \in Task PROVE PendingOK(u)'
  <2>1. CASE u = t
    BY <1>1, <2>1 DEF a, EvaluatorInv, EvaluatorTypeOK, HandsOK, PendingOK, Trying, Go, SucceedsInTime
  <2>2. CASE u # t
    BY <1>1, <1>3, <2>2 DEF EvaluatorInv, PendingOK, Trying, SucceedsInTime
  <2> QED BY <2>1, <2>2
<1>8. (\A b \in attempts : SucceedsInTime(b))'
  BY <1>1 DEF EvaluatorInv, SucceedsInTime
<1>9. FirstIsStored'
  <2>1. CASE t \in Callers
    BY <1>1, <1>2, <1>5, <2>1 DEF EvaluatorInv, FirstIsStored
  <2>2. CASE t = "shadow"
    BY <1>1, <1>2, <2>2 DEF EvaluatorInv, FirstIsStored
  <2> QED BY <2>1, <2>2, Roles
<1>10. OneDecides'
  <2>1. CASE t \in Callers
    BY <1>3, <1>5, <2>1, Roles DEF OneDecides
  <2>2. CASE t = "shadow"
    BY <1>3, <2>2, Roles DEF EvaluatorInv, TasksAgree, OneDecides
  <2> QED BY <2>1, <2>2, Roles
<1>11. SecondIsRetry'
  <2>1. CASE t \in Callers
    <3>1. \A c \in Callers : Retrying(c)' => c = t
      BY <1>3, <1>5, Roles, <2>1 DEF Decides
    <3>2. Retrying(t)' => a.status = "transport_error"
      BY <1>1, <1>6 DEF Retrying, Trying, Go, EvaluatorInv, EvaluatorTypeOK
    <3> QED BY <1>1, <1>2, <1>5, <2>1, <3>1, <3>2 DEF SecondIsRetry
  <2>2. CASE t = "shadow"
    BY <1>1, <1>2, <1>3, <2>2, Roles DEF EvaluatorInv, TasksAgree, SecondIsRetry
  <2> QED BY <2>1, <2>2, Roles
<1>12. LastDecides'
  <2>1. CASE t \in Callers
    <3>1. \A c \in Callers : pc'[c] = "concluding" => c = t
      BY <1>3, <1>5, Roles, <2>1 DEF Decides
    <3>2. pc'[t] = "concluding" => pending'[t] = a
      BY <1>1 DEF a, Go, EvaluatorInv, EvaluatorTypeOK
    <3> QED BY <1>1, <1>2, <1>5, <2>1, <3>1, <3>2 DEF LastDecides
  <2>2. CASE t = "shadow"
    BY <1>1, <1>2, <1>3, <2>2, Roles DEF EvaluatorInv, TasksAgree, LastDecides
  <2> QED BY <2>1, <2>2, Roles
<1>13. RejectedStays'
  <2>1. CASE t \in Callers
    BY <1>1, <1>3, <1>5, <2>1, Roles DEF EvaluatorInv, EvaluatorTypeOK, TasksAgree, RejectedStays, Go
  <2>2. CASE t = "shadow"
    BY <1>1, <1>3, <2>2, Roles DEF EvaluatorInv, TasksAgree, RejectedStays
  <2> QED BY <2>1, <2>2, Roles
<1>14. RunIsEvaluated' /\ ShadowHasPrimary'
  <2>1. (\E c \in Callers : pc'[c] # "idle") => \E c \in Callers : pc[c] # "idle"
    BY <1>1, <1>3, Roles
  <2>2. pc'["shadow"] # "idle" => pc["shadow"] # "idle"
    BY <1>1, <1>3 DEF Task
  <2> QED BY <1>1, <2>1, <2>2 DEF EvaluatorInv, TasksAgree, RunIsEvaluated, ShadowHasPrimary
<1>15. ResultOK'
  BY <1>1, <1>2, <1>5, Roles DEF EvaluatorInv, ResultOK
<1>16. DecisionInTime' /\ ComparisonIsBacked' /\ ComparisonHasResult'
  BY <1>1 DEF EvaluatorInv, DecisionInTime, ComparisonIsBacked, ComparisonHasResult
<1> QED BY <1>1, <1>6, <1>7, <1>8, <1>9, <1>10, <1>11, <1>12, <1>13, <1>14, <1>15, <1>16
        DEF EvaluatorInv, TasksAgree

\* Coroutines that end, one by itself or several with their process, hold nothing any
\* more; what is left of the invariant does not depend on the tables staying as they are.
LEMMA LeavesKeepHands ==
  ASSUME EvaluatorInv, NEW S \in SUBSET Task,
         pc' = [t \in Task |-> IF t \in S THEN "idle" ELSE pc[t]],
         callId' = [t \in Task |-> IF t \in S THEN 0 ELSE callId[t]],
         number' = [t \in Task |-> IF t \in S THEN 0 ELSE number[t]],
         pending' = [t \in Task |-> IF t \in S THEN NoPending ELSE pending[t]],
         UNCHANGED <<now, calls, attempts>>
  PROVE  /\ pc' \in [Task -> {"idle", "rejecting", "asking", "waiting", "saving", "concluding"}]
         /\ HandsOK' /\ \A t \in Task : PendingOK(t)'
         /\ \A t \in Task : /\ t \in S => pc'[t] = "idle" /\ ~ Decides(t)' /\ ~ Retrying(t)'
                            /\ t \notin S => /\ pc'[t] = pc[t] /\ pending'[t] = pending[t]
                                             /\ Decides(t)' <=> Decides(t)
                                             /\ Retrying(t)' <=> Retrying(t)
<1>1. pc' \in [Task -> {"idle", "rejecting", "asking", "waiting", "saving", "concluding"}] /\ HandsOK'
  BY DEF EvaluatorInv, EvaluatorTypeOK, HandsOK
<1>2. ASSUME NEW t \in Task PROVE PendingOK(t)'
  BY DEF EvaluatorInv, PendingOK, Trying, SucceedsInTime
<1>3. ASSUME NEW t \in Task
      PROVE  /\ t \in S => pc'[t] = "idle" /\ ~ Decides(t)' /\ ~ Retrying(t)'
             /\ t \notin S => /\ pc'[t] = pc[t] /\ pending'[t] = pending[t]
                              /\ Decides(t)' <=> Decides(t)
                              /\ Retrying(t)' <=> Retrying(t)
  BY DEF Decides, Retrying, Trying
<1> QED BY <1>1, <1>2, <1>3

\* A coroutine that leaves.
LEMMA LeftIsLeaving ==
  ASSUME EvaluatorInv, NEW t \in Task, Left(t)
  PROVE  /\ pc' = [u \in Task |-> IF u \in {t} THEN "idle" ELSE pc[u]]
         /\ callId' = [u \in Task |-> IF u \in {t} THEN 0 ELSE callId[u]]
         /\ number' = [u \in Task |-> IF u \in {t} THEN 0 ELSE number[u]]
         /\ pending' = [u \in Task |-> IF u \in {t} THEN NoPending ELSE pending[u]]
  BY ZenonT(60) DEF Left, EvaluatorInv, EvaluatorTypeOK, HandsOK

\* Coroutines that end without a trace in the tables.
LEMMA LeavesKeepInv ==
  ASSUME EvaluatorInv, NEW S \in SUBSET Task,
         pc' = [t \in Task |-> IF t \in S THEN "idle" ELSE pc[t]],
         callId' = [t \in Task |-> IF t \in S THEN 0 ELSE callId[t]],
         number' = [t \in Task |-> IF t \in S THEN 0 ELSE number[t]],
         pending' = [t \in Task |-> IF t \in S THEN NoPending ELSE pending[t]],
         UNCHANGED <<now, calls, tooMany, answers, attempts, result, comparison>>
  PROVE  EvaluatorInv'
<1>1. EvaluatorTypeOK' /\ HandsOK' /\ \A t \in Task : PendingOK(t)'
  BY LeavesKeepHands DEF EvaluatorInv, EvaluatorTypeOK
<1>2. PrimaryAttempts' = PrimaryAttempts
  BY DEF PrimaryAttempts
<1>3. OneDecides' /\ SecondIsRetry'
  BY <1>2, LeavesKeepHands, Roles DEF EvaluatorInv, TasksAgree, OneDecides, SecondIsRetry
<1>4. LastDecides' /\ RejectedStays'
  BY <1>2, LeavesKeepHands, Roles DEF EvaluatorInv, TasksAgree, LastDecides, RejectedStays
<1>5. RunIsEvaluated' /\ ShadowHasPrimary'
  BY LeavesKeepHands, Roles DEF EvaluatorInv, TasksAgree, RunIsEvaluated, ShadowHasPrimary, Task
<1> QED BY <1>1, <1>3, <1>4, <1>5, TablesUnchanged DEF EvaluatorInv, TasksAgree, tables

\* An exception leaves a coroutine; a crash ends some or all.
LEMMA LossKeepsInv ==
  ASSUME EvaluatorInv, Crash \/ \E t \in Task : SaveRaises(t)
  PROVE  EvaluatorInv'
<1>1. CASE Crash
  <2>1. PICK S \in SUBSET Task :
          /\ pc' = [t \in Task |-> IF t \in S THEN "idle" ELSE pc[t]]
          /\ callId' = [t \in Task |-> IF t \in S THEN 0 ELSE callId[t]]
          /\ number' = [t \in Task |-> IF t \in S THEN 0 ELSE number[t]]
          /\ pending' = [t \in Task |-> IF t \in S THEN NoPending ELSE pending[t]]
          /\ UNCHANGED <<now, calls, tooMany, answers, tables>>
    BY <1>1, Zenon DEF Crash
  <2> QED BY <2>1, LeavesKeepInv DEF tables
<1>2. ASSUME NEW t \in Task, SaveRaises(t) PROVE EvaluatorInv'
  <2>1. Left(t) /\ UNCHANGED <<now, calls, tooMany, answers, attempts, result, comparison>>
    BY <1>2 DEF SaveRaises, tables
  <2>2. {t} \in SUBSET Task
    OBVIOUS
  <2> QED BY <2>1, <2>2, LeftIsLeaving, LeavesKeepInv
<1> QED BY <1>1, <1>2

\* The start of either path.
LEMMA StartKeepsInv ==
  ASSUME EvaluatorInv, EvaluateShadow \/ \E c \in Callers : EvaluatePrimary(c)
  PROVE  EvaluatorInv'
<1>1. PICK t \in Task : /\ pc[t] = "idle"
                        /\ t # "shadow" => EvaluatePrimary(t)
                        /\ t = "shadow" => EvaluateShadow
  BY Roles DEF EvaluatePrimary, EvaluateShadow, Task
<1>2. /\ number' = [number EXCEPT ![t] = 1] /\ calls' \in 1 .. MaxCalls /\ calls' >= calls
      /\ callId' = [callId EXCEPT ![t] = calls']
      /\ pc' = [pc EXCEPT ![t] = IF t # "shadow" /\ tooMany THEN "rejecting" ELSE "asking"]
      /\ UNCHANGED <<now, tooMany, pending, answers, tables>>
      /\ t = "shadow" => result # NoResult /\ result.output # NoOutput
  <2>1. CASE t # "shadow"
    BY <1>1, <2>1 DEF EvaluatePrimary, Go, EvaluatorInv, EvaluatorTypeOK
  <2>2. CASE t = "shadow"
    <3>1. calls >= 1
      BY <1>1, <2>2 DEF EvaluateShadow, EvaluatorInv, TasksAgree, RunIsEvaluated
    <3> QED BY <1>1, <2>2, <3>1 DEF EvaluateShadow, Go, EvaluatorInv, EvaluatorTypeOK
  <2> QED BY <2>1, <2>2
<1>3. EvaluatorTypeOK' /\ HandsOK'
  BY <1>2 DEF EvaluatorInv, EvaluatorTypeOK, HandsOK, tables
<1>4. ASSUME NEW u \in Task PROVE PendingOK(u)'
  BY <1>1, <1>2 DEF EvaluatorInv, EvaluatorTypeOK, HandsOK, PendingOK, Trying, SucceedsInTime, tables
<1>5. \A u \in Task : /\ u # t => pc'[u] = pc[u]
                      /\ pending'[u] = pending[u]
                      /\ Retrying(u)' => Retrying(u)
                      /\ Decides(u)' => Decides(u)
                      /\ pc'[u] = "concluding" => pc[u] = "concluding"
  BY <1>1, <1>2 DEF EvaluatorInv, EvaluatorTypeOK, HandsOK, Retrying, Trying, Decides
<1>6. OneDecides' /\ SecondIsRetry' /\ LastDecides'
  BY <1>2, <1>5, TablesUnchanged, Roles DEF EvaluatorInv, TasksAgree, OneDecides,
     SecondIsRetry, LastDecides, tables
<1>7. RejectedStays'
  BY <1>1, <1>2, <1>5, Roles DEF EvaluatorInv, EvaluatorTypeOK, TasksAgree, RejectedStays, tables
<1>8. RunIsEvaluated' /\ ShadowHasPrimary'
  BY <1>2, <1>5, Roles DEF EvaluatorInv, EvaluatorTypeOK, TasksAgree, RunIsEvaluated,
     ShadowHasPrimary, tables, Task
<1> QED BY <1>2, <1>3, <1>4, <1>6, <1>7, <1>8, TablesUnchanged DEF EvaluatorInv, TasksAgree, tables

\* A primary result is stored when there is none, and returned; or it is the one that
\* is stored already.  No other caller is about to decide the run.
LEMMA ConcludeKeepsInv ==
  ASSUME EvaluatorInv, NEW c \in Callers, NEW res, Conclude(c, res), res \in Result,
         pc[c] # "idle",
         \A d \in Callers : Decides(d) => d = c,
         result = NoResult \/ result = res,
         tooMany => res = Unready("input_rejected"),
         ~ tooMany => PrimaryAttempts # {},
         res.output # NoOutput => res.status = "primary_valid",
         res.status = "primary_valid" =>
           /\ \A a \in PrimaryAttempts : a.status \in {"succeeded", "transport_error"}
           /\ res.ready =< Cutoff
           /\ \E a \in attempts : /\ a.role = "primary" /\ a.status = "succeeded"
                                  /\ <<a.call, a.number>> = res.selected
                                  /\ a.output = res.output /\ a.received = res.ready
  PROVE  EvaluatorInv'
<1>1. /\ result' = res /\ answers' = answers \cup {res} /\ res # NoResult
      /\ UNCHANGED <<now, calls, tooMany, attempts, comparison>>
      /\ PrimaryAttempts' = PrimaryAttempts
  BY DEF Conclude, ResultRow, Result, NoResult, PrimaryAttempts
<1>2. c \in Task /\ {c} \in SUBSET Task /\ Left(c)
  BY Roles DEF Conclude
<1>3. /\ pc' \in [Task -> {"idle", "rejecting", "asking", "waiting", "saving", "concluding"}]
      /\ HandsOK' /\ \A t \in Task : PendingOK(t)'
      /\ \A t \in Task : /\ t = c => pc'[t] = "idle" /\ ~ Decides(t)' /\ ~ Retrying(t)'
                         /\ t # c => /\ pc'[t] = pc[t]
                                     /\ Decides(t)' <=> Decides(t)
                                     /\ Retrying(t)' <=> Retrying(t)
  <2>1. /\ pc' = [u \in Task |-> IF u \in {c} THEN "idle" ELSE pc[u]]
        /\ callId' = [u \in Task |-> IF u \in {c} THEN 0 ELSE callId[u]]
        /\ number' = [u \in Task |-> IF u \in {c} THEN 0 ELSE number[u]]
        /\ pending' = [u \in Task |-> IF u \in {c} THEN NoPending ELSE pending[u]]
        /\ UNCHANGED <<now, calls, attempts>>
    BY <1>1, <1>2, LeftIsLeaving
  <2>2. \A t \in Task : t = c <=> t \in {c}
    OBVIOUS
  <2> DEFINE S == {c}
  <2> HIDE DEF S
  <2>3. S \in SUBSET Task /\ \A t \in Task : t = c <=> t \in S
    BY <1>2, <2>2 DEF S
  <2>4. /\ pc' \in [Task -> {"idle", "rejecting", "asking", "waiting", "saving", "concluding"}]
        /\ HandsOK' /\ \A t \in Task : PendingOK(t)'
        /\ \A t \in Task : /\ t \in S => pc'[t] = "idle" /\ ~ Decides(t)' /\ ~ Retrying(t)'
                           /\ t \notin S => /\ pc'[t] = pc[t]
                                            /\ Decides(t)' <=> Decides(t)
                                            /\ Retrying(t)' <=> Retrying(t)
    BY <2>1, <2>3, LeavesKeepHands DEF S
  <2> QED BY <2>3, <2>4
<1>4. EvaluatorTypeOK'
  BY <1>1, <1>3 DEF EvaluatorInv, EvaluatorTypeOK
<1>5. \A d \in Callers : ~ Decides(d)'
  BY <1>3, Roles
<1>6. OneDecides' /\ SecondIsRetry' /\ LastDecides'
  BY <1>5 DEF OneDecides, SecondIsRetry, LastDecides, Decides
<1>7. RejectedStays'
  BY <1>1, <1>3, Roles DEF EvaluatorInv, TasksAgree, RejectedStays
<1>8. RunIsEvaluated' /\ ShadowHasPrimary'
  BY <1>1, <1>3, Roles DEF EvaluatorInv, TasksAgree, RunIsEvaluated, ShadowHasPrimary, Task
<1>9. (\A a \in attempts : SucceedsInTime(a))' /\ FirstIsStored' /\ ResultOK'
  BY <1>1 DEF EvaluatorInv, SucceedsInTime, FirstIsStored, ResultOK
<1>10. ComparisonIsBacked' /\ ComparisonHasResult'
  BY <1>1 DEF EvaluatorInv, ComparisonIsBacked, ComparisonHasResult
<1>11. DecisionInTime' /\ (answers \subseteq IF result = NoResult THEN {} ELSE {result})'
  BY <1>1 DEF EvaluatorInv, DecisionInTime
<1> QED BY <1>1, <1>3, <1>4, <1>6, <1>7, <1>8, <1>9, <1>10, <1>11 DEF EvaluatorInv, TasksAgree

\* The two ways a primary call concludes.
LEMMA PrimaryKeepsInv ==
  ASSUME EvaluatorInv, NEW c \in Callers, RejectInput(c) \/ ConcludePrimary(c)
  PROVE  EvaluatorInv'
<1>1. \A st \in {"primary_invalid", "cutoff_missed", "input_rejected"} :
        /\ Unready(st) \in Result /\ Unready(st).status = st /\ Unready(st).output = NoOutput
  BY DEF Unready, Result
<1>2. CASE RejectInput(c)
  <2>1. /\ tooMany /\ (result = NoResult \/ result = Unready("input_rejected"))
        /\ \A d \in Callers : ~ Decides(d)
    BY <1>2 DEF RejectInput, EvaluatorInv, TasksAgree, RejectedStays, Decides, Retrying, Trying
  <2> QED BY <1>1, <1>2, <2>1, ConcludeKeepsInv DEF RejectInput
<1>3. CASE ConcludePrimary(c)
  <2> DEFINE a == pending[c]
             v == [status |-> "primary_valid", selected |-> <<a.call, a.number>>,
                   output |-> a.output, ready |-> a.received]
  <2>1. /\ pc[c] = "concluding" /\ ~ tooMany /\ result = NoResult
        /\ a \in Attempt /\ a.role = "primary" /\ a \in attempts /\ SucceedsInTime(a)
        /\ \A b \in PrimaryAttempts : b = a \/ b.status = "transport_error"
        /\ \A d \in Callers : Decides(d) => d = c
    BY <1>3, Roles DEF ConcludePrimary, EvaluatorInv, TasksAgree, PendingOK, LastDecides,
       RejectedStays, OneDecides, Decides
  <2>2. PrimaryAttempts # {}
    BY <2>1 DEF PrimaryAttempts
  <2>3. CASE a.status = "succeeded"
    <3>1. Conclude(c, v)
      BY <1>3, <2>3 DEF ConcludePrimary
    <3>2. /\ v \in Result /\ v.status = "primary_valid" /\ v.ready = a.received
          /\ v.selected = <<a.call, a.number>> /\ v.output = a.output
      BY <2>1 DEF Attempt, Result
    <3> HIDE DEF a, v
    <3>3. v.ready =< Cutoff
      BY <2>1, <2>3, <3>2 DEF SucceedsInTime
    <3>4. \E b \in attempts : /\ b.role = "primary" /\ b.status = "succeeded"
                              /\ <<b.call, b.number>> = v.selected
                              /\ b.output = v.output /\ b.received = v.ready
      BY <2>1, <2>3, <3>2
    <3>5. \A b \in PrimaryAttempts : b.status \in {"succeeded", "transport_error"}
      BY <2>1, <2>3
    <3> QED BY <2>1, <2>2, <3>1, <3>2, <3>3, <3>4, <3>5, ConcludeKeepsInv
  <2>4. CASE a.status # "succeeded"
    <3>1. PICK st \in {"primary_invalid", "cutoff_missed"} : Conclude(c, Unready(st))
      BY <1>3, <2>4 DEF ConcludePrimary
    <3> QED BY <1>1, <2>1, <2>2, <3>1, ConcludeKeepsInv
  <2> QED BY <2>3, <2>4
<1> QED BY <1>2, <1>3

\* A comparison is stored for the result the shadow path was started with.
LEMMA ShadowKeepsInv ==
  ASSUME EvaluatorInv, ConcludeShadow
  PROVE  EvaluatorInv'
<1> DEFINE a == pending["shadow"]
<1>1. /\ pc["shadow"] = "concluding" /\ "shadow" \in Task /\ {"shadow"} \in SUBSET Task
      /\ a \in attempts /\ a.role = "shadow"
      /\ result # NoResult /\ result.status = "primary_valid"
  BY Roles DEF ConcludeShadow, EvaluatorInv, TasksAgree, PendingOK, ShadowHasPrimary, ResultOK, Task
<1>2. /\ UNCHANGED <<now, calls, tooMany, answers, attempts, result>> /\ Left("shadow")
      /\ PrimaryAttempts' = PrimaryAttempts
  BY DEF ConcludeShadow, PrimaryAttempts
<1>3. PICK p \in attempts : /\ p.role = "primary" /\ p.status = "succeeded"
                            /\ <<p.call, p.number>> = result.selected /\ p.output = result.output
  BY <1>1 DEF EvaluatorInv, DecisionInTime
<1>4. \/ comparison' = comparison
      \/ /\ a.status = "succeeded"
         /\ comparison' = [match |-> IF a.output = result.output THEN "exact" ELSE "different",
                           primary |-> result.selected, shadow |-> <<a.call, a.number>>]
  BY DEF ConcludeShadow, ComparisonRow
<1> HIDE DEF a
<1>5. ComparisonIsBacked'
  <2>1. CASE comparison' = comparison
    BY <1>2, <2>1 DEF EvaluatorInv, ComparisonIsBacked
  <2>2. CASE comparison' # comparison
    <3>1. /\ a.status = "succeeded" /\ comparison'.primary = result.selected
          /\ comparison'.shadow = <<a.call, a.number>>
          /\ (comparison'.match = "exact") <=> (p.output = a.output)
      BY <1>3, <1>4, <2>2
    <3> QED BY <1>1, <1>2, <1>3, <3>1 DEF ComparisonIsBacked
  <2> QED BY <2>1, <2>2
<1>6. /\ pc' \in [Task -> {"idle", "rejecting", "asking", "waiting", "saving", "concluding"}]
      /\ HandsOK' /\ \A t \in Task : PendingOK(t)'
      /\ pc'["shadow"] = "idle"
      /\ \A c \in Callers : /\ pc'[c] = pc[c] /\ pending'[c] = pending[c]
                            /\ Decides(c)' <=> Decides(c)
                            /\ Retrying(c)' <=> Retrying(c)
  BY <1>1, <1>2, LeftIsLeaving, LeavesKeepHands, Roles
<1>7. EvaluatorTypeOK'
  BY <1>2, <1>6 DEF EvaluatorInv, EvaluatorTypeOK
<1>8. TasksAgree'
  BY <1>2, <1>6 DEF EvaluatorInv, TasksAgree, OneDecides, SecondIsRetry, LastDecides,
     RejectedStays, RunIsEvaluated, ShadowHasPrimary
<1>9. /\ (\A b \in attempts : SucceedsInTime(b))' /\ FirstIsStored' /\ ResultOK' /\ DecisionInTime'
      /\ (answers \subseteq IF result = NoResult THEN {} ELSE {result})'
  BY <1>2 DEF EvaluatorInv, SucceedsInTime, FirstIsStored, ResultOK, DecisionInTime
<1> QED BY <1>1, <1>2, <1>5, <1>6, <1>7, <1>8, <1>9 DEF EvaluatorInv, ComparisonHasResult

\* Time passes, or nothing does.
LEMMA TimeKeepsInv ==
  ASSUME EvaluatorInv, Tick \/ UNCHANGED evaluatorVars
  PROVE  EvaluatorInv'
<1>1. /\ UNCHANGED <<calls, tooMany, pc, callId, number, deadline, pending, answers, tables>>
      /\ now' \in Nat
  BY DEF EvaluatorInv, EvaluatorTypeOK, Tick, evaluatorVars, tables
<1>2. EvaluatorTypeOK' /\ HandsOK' /\ \A t \in Task : PendingOK(t)'
  BY <1>1 DEF EvaluatorInv, EvaluatorTypeOK, HandsOK, PendingOK, Trying, SucceedsInTime, tables
<1>3. TasksAgree'
  BY <1>1, TablesUnchanged DEF EvaluatorInv, TasksAgree, OneDecides, SecondIsRetry, LastDecides,
     RejectedStays, RunIsEvaluated, ShadowHasPrimary, Decides, Retrying, Trying, tables
<1> QED BY <1>1, <1>2, <1>3, TablesUnchanged DEF EvaluatorInv, tables

\* Every step of either path, the clock and a crash keep the invariant.
LEMMA EvaluatorNextInv == EvaluatorInv /\ [EvaluatorNext]_evaluatorVars => EvaluatorInv'
  BY AskKeepsInv, AnswerKeepsInv, SaveKeepsInv, LossKeepsInv, StartKeepsInv, PrimaryKeepsInv,
     ShadowKeepsInv, TimeKeepsInv DEF EvaluatorNext, Serve, Conclusion

\* The invariant holds in every behaviour of the service.
THEOREM EvaluatorInvHolds == EvaluatorSpec => []EvaluatorInv
  BY EvaluatorInitInv, EvaluatorNextInv, PTL DEF EvaluatorSpec

\* The tables hold rows of their types: no attempt_number beyond max_attempts is ever
\* inserted (_evaluate_role).
THEOREM EvaluatorTypesHold == EvaluatorSpec => []EvaluatorTypeOK
<1>1. EvaluatorInv => EvaluatorTypeOK
  BY DEF EvaluatorInv
<1> QED BY <1>1, EvaluatorInvHolds, PTL

\* A valid decision was complete by the cutoff and rests on a stored primary attempt,
\* for every timeout, retry and lateness of the answer (_call_once, evaluate_primary).
THEOREM DecisionIsInTime == EvaluatorSpec => []DecisionInTime
<1>1. EvaluatorInv => DecisionInTime
  BY DEF EvaluatorInv
<1> QED BY <1>1, EvaluatorInvHolds, PTL

\* Every caller of the run gets the stored result, and no other call turns a stored
\* failure into a valid decision, however many evaluate the run at the same time, and
\* however often they die and begin again (save_attempt's unique key, save_result).
THEOREM OutcomeStaysFinal == EvaluatorSpec => []OutcomeIsFinal
<1>1. EvaluatorInv => AnswersAgree
  BY DEF EvaluatorInv, AnswersAgree
<1>2. EvaluatorInv => FailuresAreFinal
  BY DEF EvaluatorInv, FailuresAreFinal, ResultOK, PrimaryAttempts, Failure, NoResult
<1> QED BY <1>1, <1>2, EvaluatorInvHolds, PTL DEF OutcomeIsFinal

\* A stored comparison is about the selected primary attempt and a stored shadow attempt,
\* and says exact only if their outputs agree (evaluate_shadow).
THEOREM ComparisonStaysBacked == EvaluatorSpec => []ComparisonIsBacked
<1>1. EvaluatorInv => ComparisonIsBacked
  BY DEF EvaluatorInv
<1> QED BY <1>1, EvaluatorInvHolds, PTL
=============================================================================
