------------------------- MODULE RabbitQueryProofs -------------------------
(***************************************************************************)
(* Proofs about RabbitQuery, for any processes, domains, queries and       *)
(* number of interruptions: a query is in one place, and what an answer    *)
(* may leave behind in the map of answers.                                 *)
(***************************************************************************)
EXTENDS RabbitQuery, FiniteSetTheorems, TLAPS

Queued(q) == \E k \in DOMAIN workQueue[DomainOf[q]] : workQueue[DomainOf[q]][k] = q
Worked(q) == \E n \in Nodes : \E j \in jobs[n] : j.query = q
Answering(q) == \E k \in DOMAIN responseQueue[Asker[q]] : responseQueue[Asker[q]][k] = q
Resolved(q) == call[q] \in {"value", "error", "thrown"}

(* A query has one copy: in the queue of its domain or with one consumer.  *)
PlaceInv ==
    /\ \A d \in Domains : \A k \in DOMAIN workQueue[d] :
         /\ DomainOf[workQueue[d][k]] = d
         /\ \A l \in DOMAIN workQueue[d] : workQueue[d][k] = workQueue[d][l] => k = l
    /\ \A m, n \in Nodes : \A i \in jobs[m], j \in jobs[n] : i.query = j.query => m = n /\ i = j
    /\ \A n \in Nodes : \A i, j \in jobs[n] : DomainOf[i.query] = DomainOf[j.query] => i = j
    /\ \A q \in Queries : Queued(q) => ~Worked(q)

(* What has become of a query, by the places where it is found.            *)
HistoryInv ==
    /\ \A q \in Queries : call[q] = "new" => answers[q] = 0 /\ q \notin redelivered \cup acked
    /\ \A q \in Queries : Queued(q) \/ Worked(q) => call[q] # "new" /\ ~IsLocal(q)
    /\ \A q \in Queries : q \in acked => ~Queued(q) /\ ~Worked(q) /\ answers[q] > 0
    /\ \A q \in Queries : (answers[q] > 0 \/ q \in redelivered) /\ q \notin acked => Queued(q) \/ Worked(q)

(* A second answer comes only after a redelivery.                          *)
AgainInv ==
    /\ \A q \in Queries : answers[q] > 1 \/ (Queued(q) /\ answers[q] > 0) => q \in redelivered
    /\ \A n \in Nodes : \A j \in jobs[n] :
         IF j.phase = "answered" THEN answers[j.query] > 0
         ELSE answers[j.query] > 0 => j.query \in redelivered

(* Every answer on its way is one of its own, and who is back from its     *)
(* wait has taken one.                                                     *)
AnswerInv ==
    /\ \A n \in Nodes : \A k \in DOMAIN responseQueue[n] :
         /\ Asker[responseQueue[n][k]] = n /\ ~IsLocal(responseQueue[n][k])
         /\ call[responseQueue[n][k]] # "new" /\ answers[responseQueue[n][k]] > 0
         /\ Resolved(responseQueue[n][k]) => answers[responseQueue[n][k]] > 1
         /\ \A l \in DOMAIN responseQueue[n] :
              responseQueue[n][k] = responseQueue[n][l] => k = l \/ answers[responseQueue[n][k]] > 1
    /\ \A q \in Queries : Resolved(q) /\ (Queued(q) \/ Worked(q)) => answers[q] > 0

IInv == TypeOK /\ PlaceInv /\ HistoryInv /\ AgainInv /\ AnswerInv /\ OnlyLateAnswersStay

-----------------------------------------------------------------------------
(* Sequences *)
LEMMA HeadAndTail ==
    ASSUME NEW S, NEW s \in Seq(S), s # <<>>
    PROVE  /\ Head(s) \in S /\ Head(s) = s[1] /\ 1 \in DOMAIN s /\ Tail(s) \in Seq(S)
           /\ \A k \in DOMAIN Tail(s) : k \in Nat /\ k + 1 \in DOMAIN s /\ k + 1 # 1 /\ Tail(s)[k] = s[k + 1]
           /\ \A k \in DOMAIN s : k = 1 \/ \E l \in DOMAIN Tail(s) : k = l + 1
<1>1. \A k \in DOMAIN Tail(s) : k \in Nat /\ k + 1 \in DOMAIN s /\ k + 1 # 1 /\ Tail(s)[k] = s[k + 1]
  OBVIOUS
<1>2. \A k \in DOMAIN s : k # 1 => k - 1 \in DOMAIN Tail(s) /\ k = (k - 1) + 1
  OBVIOUS
<1> QED
  BY <1>1, <1>2

LEMMA Appended ==
    ASSUME NEW S, NEW s \in Seq(S), NEW e \in S
    PROVE  /\ Append(s, e) \in Seq(S) /\ DOMAIN Append(s, e) = 1..Len(s) + 1
           /\ DOMAIN s = 1..Len(s) /\ Len(s) \in Nat
           /\ Append(s, e)[Len(s) + 1] = e
           /\ \A k \in DOMAIN s : k \in DOMAIN Append(s, e) /\ Append(s, e)[k] = s[k]
           /\ \A k \in DOMAIN Append(s, e) : k \in DOMAIN s \/ k = Len(s) + 1
OBVIOUS

LEMMA Prepended ==
    ASSUME NEW S, NEW s \in Seq(S), NEW e \in S
    PROVE  /\ <<e>> \o s \in Seq(S) /\ DOMAIN (<<e>> \o s) = 1..Len(s) + 1 /\ (<<e>> \o s)[1] = e
           /\ DOMAIN s = 1..Len(s) /\ Len(s) \in Nat
           /\ \A k \in DOMAIN s : (<<e>> \o s)[k + 1] = s[k]
           /\ \A k \in DOMAIN (<<e>> \o s) : k = 1 \/ (k - 1 \in DOMAIN s /\ (<<e>> \o s)[k] = s[k - 1])
OBVIOUS

LEMMA FunctionOfOne ==
    ASSUME NEW x, NEW f \in [1..1 -> {x}] PROVE f = <<x>>
<1>1. DOMAIN f = DOMAIN <<x>> /\ \A i \in DOMAIN f : f[i] = <<x>>[i]
  OBVIOUS
<1> QED
  BY <1>1

LEMMA SequenceOfOne ==
    /\ SetToSeq({}) = <<>>
    /\ \A x : SetToSeq({x}) = <<x>>
<1>1. SetToSeq({}) = <<>>
  <2>1. Cardinality({}) = 0
    BY FS_EmptySet
  <2>2. \E f \in [1..0 -> {}] : IsInjective(f)
    <3>1. <<>> \in [1..0 -> {}] /\ IsInjective(<<>>)
      BY DEF IsInjective
    <3> QED
      BY <3>1
  <2>3. SetToSeq({}) \in [1..0 -> {}]
    BY <2>1, <2>2 DEF SetToSeq
  <2> QED
    BY <2>3
<1>2. ASSUME NEW x PROVE SetToSeq({x}) = <<x>>
  <2>1. Cardinality({x}) = 1
    BY FS_Singleton
  <2>2. \E f \in [1..1 -> {x}] : IsInjective(f)
    <3>1. [k \in 1..1 |-> x] \in [1..1 -> {x}] /\ IsInjective([k \in 1..1 |-> x])
      BY DEF IsInjective
    <3> QED
      BY <3>1
  <2>3. SetToSeq({x}) \in [1..1 -> {x}]
    BY <2>1, <2>2 DEF SetToSeq
  <2> QED
    BY <2>3, FunctionOfOne
<1> QED
  BY <1>1, <1>2

(* What a process held of a domain is at most one message.                 *)
LEMMA RequeueEffect ==
    ASSUME TypeOK, PlaceInv, NEW n \in Nodes, NEW d \in Domains
    PROVE  \/ JobsOf(n, d) = {} /\ Requeue(n)[d] = workQueue[d]
           \/ \E j \in jobs[n] : JobsOf(n, d) = {j} /\ Requeue(n)[d] = <<j.query>> \o workQueue[d]
<1>1. Requeue(n)[d] = SetToSeq(Held(JobsOf(n, d))) \o workQueue[d]
  BY DEF Requeue
<1>2. workQueue[d] \in Seq(Queries)
  BY DEF TypeOK
<1>3. CASE JobsOf(n, d) = {}
  <2>1. Held(JobsOf(n, d)) = {}
    BY <1>3 DEF Held
  <2>2. <<>> \o workQueue[d] = workQueue[d]
    BY <1>2
  <2> QED
    BY <1>1, <1>3, <2>1, <2>2, SequenceOfOne
<1>4. CASE JobsOf(n, d) # {}
  <2>1. PICK j : j \in JobsOf(n, d)
    BY <1>4
  <2>2. j \in jobs[n] /\ JobsOf(n, d) = {j}
    BY <2>1 DEF JobsOf, PlaceInv
  <2>3. Held(JobsOf(n, d)) = {j.query}
    BY <2>2 DEF Held
  <2> QED
    BY <1>1, <2>2, <2>3, SequenceOfOne
<1> QED
  BY <1>3, <1>4

-----------------------------------------------------------------------------
(* What the types say of the elements. *)
LEMMA Elements ==
    ASSUME TypeOK
    PROVE  /\ \A d \in Domains : workQueue[d] \in Seq(Queries)
           /\ \A n \in Nodes : responseQueue[n] \in Seq(Queries)
           /\ \A d \in Domains : \A k \in DOMAIN workQueue[d] : workQueue[d][k] \in Queries
           /\ \A n \in Nodes : \A k \in DOMAIN responseQueue[n] : responseQueue[n][k] \in Queries
           /\ \A n \in Nodes : \A j \in jobs[n] : j \in Job
           /\ \A n \in Nodes : \A j \in jobs[n] : j.query \in Queries
           /\ \A q \in Queries : Asker[q] \in Nodes /\ DomainOf[q] \in Domains
           /\ \A q \in Queries : call[q] \in Calls /\ answers[q] \in Nat
<1>1. \A d \in Domains : workQueue[d] \in Seq(Queries)
  BY DEF TypeOK
<1>2. \A n \in Nodes : responseQueue[n] \in Seq(Queries)
  BY DEF TypeOK
<1>3. \A n \in Nodes : \A j \in jobs[n] : j \in Job
  BY DEF TypeOK
<1>4. \A n \in Nodes : \A j \in jobs[n] : j.query \in Queries
  BY <1>3 DEF Job
<1>5. \A q \in Queries : call[q] \in Calls /\ answers[q] \in Nat
  BY DEF TypeOK
<1> QED
  BY <1>1, <1>2, <1>3, <1>4, <1>5, RoutingAssumption

LEMMA Initially == Init => IInv
<1> SUFFICES ASSUME Init PROVE IInv
  OBVIOUS
<1>1. /\ \A d \in Domains : workQueue[d] = <<>>
      /\ \A n \in Nodes : jobs[n] = {} /\ responseQueue[n] = <<>> /\ responseMap[n] = {}
      /\ \A q \in Queries : call[q] = "new" /\ answers[q] = 0
      /\ acked = {} /\ redelivered = {}
  BY DEF Init
<1>2. TypeOK
  BY BoundsAssumption DEF Init, TypeOK, Calls
<1>3. \A q \in Queries : ~Queued(q) /\ ~Worked(q)
  BY <1>1, RoutingAssumption DEF Queued, Worked
<1>4. PlaceInv
  BY <1>1, <1>3 DEF PlaceInv
<1>5. HistoryInv /\ AgainInv
  BY <1>1, <1>3 DEF HistoryInv, AgainInv
<1>6. AnswerInv /\ OnlyLateAnswersStay
  BY <1>1, <1>3 DEF AnswerInv, OnlyLateAnswersStay
<1> QED
  BY <1>2, <1>4, <1>5, <1>6 DEF IInv

LEMMA QuietSteps ==
    ASSUME IInv, TypeOK',
           UNCHANGED <<call, workQueue, jobs, responseQueue, responseMap, answers, acked, redelivered>>
    PROVE  IInv'
BY DEF IInv, PlaceInv, HistoryInv, AgainInv, AnswerInv, OnlyLateAnswersStay, Queued, Worked, Resolved

LEMMA StartUpStep ==
    ASSUME IInv, NEW n \in Nodes, Bootstrap(n) \/ Subscribe(n) PROVE IInv'
<1>1. TypeOK'
  <2>1. CASE Bootstrap(n)
    BY <2>1, RoutingAssumption DEF Bootstrap, IInv, TypeOK
  <2>2. CASE Subscribe(n)
    BY <2>2 DEF Subscribe, IInv, TypeOK
  <2> QED
    BY <2>1, <2>2
<1>2. UNCHANGED <<call, workQueue, jobs, responseQueue, responseMap, answers, acked, redelivered>>
  BY DEF Bootstrap, Subscribe
<1> QED
  BY <1>1, <1>2, QuietSteps

(* What is executed in the process of who asks, or on a closed channel.    *)
LEMMA ImmediateStep ==
    ASSUME IInv, NEW q \in Queries, NEW where \in {"thrown", "error", "value"}, Start(q, where),
           UNCHANGED <<processes, workQueue, jobs, responseQueue, responseMap, answers, acked,
                       redelivered, interruptions>>
    PROVE  IInv'
<1>1. call[q] = "new" /\ call' = [call EXCEPT ![q] = where] /\ call \in [Queries -> Calls]
  BY DEF Start, IInv, TypeOK
<1>2. TypeOK'
  BY <1>1 DEF IInv, TypeOK, Calls, Outcomes, processes
<1>3. \A r \in Queries : r # q => call'[r] = call[r]
  BY <1>1
<1>4. ~Queued(q) /\ ~Worked(q) /\ q \notin redelivered
  BY <1>1 DEF IInv, HistoryInv
<1>5. PlaceInv' /\ AgainInv'
  BY DEF IInv, PlaceInv, AgainInv, Queued, Worked
<1>6. \A r : (Queued(r)' <=> Queued(r)) /\ (Worked(r)' <=> Worked(r))
  BY DEF Queued, Worked
<1>7. HistoryInv'
  BY <1>1, <1>3, <1>4, <1>6 DEF IInv, HistoryInv
<1>8. AnswerInv'
  <2>1. \A n \in Nodes : \A k \in DOMAIN responseQueue[n] : responseQueue[n][k] # q
    BY <1>1 DEF IInv, AnswerInv
  <2> QED
    BY <1>3, <1>4, <1>6, <2>1, Elements DEF IInv, AnswerInv, Resolved
<1>9. OnlyLateAnswersStay'
  <2>1. \A n \in Nodes : q \notin responseMap[n]
    BY <1>1, <1>4 DEF IInv, OnlyLateAnswersStay
  <2>2. \A n \in Nodes : responseMap[n] \subseteq Queries
    BY DEF IInv, TypeOK
  <2> QED
    BY <1>3, <2>1, <2>2 DEF IInv, OnlyLateAnswersStay
<1> QED
  BY <1>2, <1>5, <1>7, <1>8, <1>9 DEF IInv

LEMMA PublishStep ==
    ASSUME IInv, NEW q \in Queries, ~IsLocal(q), Start(q, "waiting"),
           workQueue' = IF DomainOf[q] \in bound
                        THEN [workQueue EXCEPT ![DomainOf[q]] = Append(@, q)]
                        ELSE workQueue,
           UNCHANGED <<processes, jobs, responseQueue, responseMap, answers, acked, redelivered,
                       interruptions>>
    PROVE  IInv'
<1> DEFINE d == DomainOf[q]
<1>1. call[q] = "new" /\ call' = [call EXCEPT ![q] = "waiting"] /\ call \in [Queries -> Calls]
  BY DEF Start, IInv, TypeOK
<1>2. workQueue \in [Domains -> Seq(Queries)] /\ d \in Domains /\ workQueue[d] \in Seq(Queries)
  BY RoutingAssumption DEF IInv, TypeOK
<1>3. TypeOK'
  BY <1>1, <1>2 DEF IInv, TypeOK, Calls, Outcomes, processes
<1>4. \A r \in Queries : r # q => call'[r] = call[r]
  BY <1>1
<1>5. ~Queued(q) /\ ~Worked(q) /\ q \notin redelivered /\ q \notin acked /\ answers[q] = 0
  BY <1>1 DEF IInv, HistoryInv
<1>6. \A k \in DOMAIN workQueue[d] : workQueue[d][k] # q
  BY <1>5 DEF Queued
<1>7. \A e \in Domains : workQueue'[e] = workQueue[e] \/ (e = d /\ workQueue'[e] = Append(workQueue[d], q))
  BY <1>2
<1>8. PlaceInv'
  <2>1. ASSUME NEW e \in Domains
        PROVE  \A k \in DOMAIN workQueue'[e] :
                 /\ DomainOf[workQueue'[e][k]] = e
                 /\ \A l \in DOMAIN workQueue'[e] : workQueue'[e][k] = workQueue'[e][l] => k = l
    BY <1>2, <1>6, <1>7, Appended DEF IInv, PlaceInv
  <2>2. \A r \in Queries : Queued(r)' => Queued(r) \/ r = q
    BY <1>2, <1>7, Appended, RoutingAssumption DEF Queued
  <2>3. \A r : Worked(r)' <=> Worked(r)
    BY DEF Worked
  <2> QED
    BY <1>5, <2>1, <2>2, <2>3 DEF IInv, PlaceInv
<1>9. /\ \A r \in Queries : Queued(r)' => Queued(r) \/ r = q
      /\ \A r \in Queries : Queued(r) => Queued(r)'
      /\ \A r : Worked(r)' <=> Worked(r)
  <2>1. \A r \in Queries : Queued(r)' => Queued(r) \/ r = q
    BY <1>2, <1>7, Appended, RoutingAssumption DEF Queued
  <2>2. \A r \in Queries : Queued(r) => Queued(r)'
    BY <1>2, <1>7, Appended, RoutingAssumption DEF Queued
  <2> QED
    BY <2>1, <2>2 DEF Worked
<1>10. HistoryInv'
  BY <1>1, <1>4, <1>5, <1>9 DEF IInv, HistoryInv
<1>11. AgainInv'
  BY <1>5, <1>9 DEF IInv, AgainInv
<1>12. AnswerInv'
  <2>1. \A n \in Nodes : \A k \in DOMAIN responseQueue[n] : responseQueue[n][k] # q
    BY <1>1 DEF IInv, AnswerInv
  <2>2. call'[q] = "waiting"
    BY <1>1
  <2>3. \A r \in Queries : Resolved(r)' => r # q /\ Resolved(r)
    BY <1>4, <2>2 DEF Resolved
  <2>4. IInv /\ AnswerInv
    BY DEF IInv
  <2> QED
    BY <1>4, <1>9, <2>1, <2>3, <2>4, Elements DEF AnswerInv, IInv
<1>13. OnlyLateAnswersStay'
  <2>1. \A n \in Nodes : q \notin responseMap[n]
    BY <1>1, <1>5 DEF IInv, OnlyLateAnswersStay
  <2>2. \A n \in Nodes : responseMap[n] \subseteq Queries
    BY DEF IInv, TypeOK
  <2> QED
    BY <1>4, <2>1, <2>2 DEF IInv, OnlyLateAnswersStay
<1> QED
  BY <1>3, <1>8, <1>10, <1>11, <1>12, <1>13 DEF IInv

LEMMA ExecuteStep ==
    ASSUME IInv, NEW q \in Queries, Execute(q) PROVE IInv'
<1>1. CASE IsLocal(q)
  <2>1. LocalResult(q) \in {"thrown", "error", "value"} /\ Start(q, LocalResult(q))
    BY <1>1 DEF Execute, LocalResult
  <2> QED
    BY <1>1, <2>1, ImmediateStep DEF Execute
<1>2. CASE ~IsLocal(q) /\ Asker[q] \notin connected
  BY <1>2, ImmediateStep DEF Execute
<1>3. CASE ~IsLocal(q) /\ Asker[q] \in connected
  BY <1>3, PublishStep DEF Execute
<1> QED
  BY <1>1, <1>2, <1>3

-----------------------------------------------------------------------------
LEMMA ReceiveWorkStep ==
    ASSUME IInv, NEW n \in Nodes, NEW d \in Domains, ReceiveWork(n, d) PROVE IInv'
<1>0. PICK q : q = Head(workQueue[d])
  OBVIOUS
<1> DEFINE e == [query |-> q, phase |-> IF HasHandler(q) THEN "handling" ELSE "stuck"]
<1>1. workQueue \in [Domains -> Seq(Queries)] /\ jobs \in [Nodes -> SUBSET Job] /\ TypeOK
  BY DEF IInv, TypeOK
<1>2. /\ workQueue[d] \in Seq(Queries) /\ workQueue[d] # <<>> /\ JobsOf(n, d) = {}
      /\ workQueue' = [workQueue EXCEPT ![d] = Tail(workQueue[d])]
      /\ jobs' = [jobs EXCEPT ![n] = jobs[n] \cup {e}]
      /\ UNCHANGED <<processes, call, responseQueue, responseMap, answers, acked, redelivered,
                     interruptions>>
  BY <1>0, <1>1 DEF ReceiveWork, MayReceive
<1>3. /\ q \in Queries /\ q = workQueue[d][1] /\ 1 \in DOMAIN workQueue[d]
      /\ Tail(workQueue[d]) \in Seq(Queries)
  BY <1>0, <1>2, HeadAndTail
<1>4. e \in Job /\ e.query = q /\ e.phase # "answered"
  BY <1>3 DEF Job
<1>5. DomainOf[q] = d
  BY <1>3 DEF IInv, PlaceInv
<1>6. Queued(q) /\ ~Worked(q)
  BY <1>3, <1>5 DEF IInv, PlaceInv, Queued
<1>7. /\ \A m \in Nodes : m # n => jobs'[m] = jobs[m]
      /\ \A j : j \in jobs'[n] <=> j \in jobs[n] \/ j = e
  BY <1>1, <1>2
<1>8. workQueue'[d] = Tail(workQueue[d]) /\ \A c \in Domains : c # d => workQueue'[c] = workQueue[c]
  BY <1>1, <1>2
<1>9. TypeOK'
  <2>1. workQueue' \in [Domains -> Seq(Queries)]
    BY <1>1, <1>2, <1>3
  <2>2. jobs' \in [Nodes -> SUBSET Job]
    BY <1>1, <1>2, <1>4
  <2> QED
    BY <1>1, <1>2, <2>1, <2>2 DEF TypeOK, processes
<1>10. \A r \in Queries : Worked(r)' <=> Worked(r) \/ r = q
  <2>1. \A r : Worked(r) => Worked(r)'
    BY <1>7 DEF Worked
  <2>2. \A r : Worked(r)' => Worked(r) \/ r = q
    BY <1>4, <1>7 DEF Worked
  <2>3. Worked(q)'
    BY <1>4, <1>7 DEF Worked
  <2> QED
    BY <2>1, <2>2, <2>3
<1>11. \A r \in Queries : Queued(r)' <=> Queued(r) /\ r # q
  <2> SUFFICES ASSUME NEW r \in Queries PROVE Queued(r)' <=> Queued(r) /\ r # q
    OBVIOUS
  <2>1. CASE DomainOf[r] # d
    BY <1>5, <1>8, <2>1, RoutingAssumption DEF Queued
  <2>2. CASE DomainOf[r] = d
    <3>1. \A k, l \in DOMAIN workQueue[d] : workQueue[d][k] = workQueue[d][l] => k = l
      BY DEF IInv, PlaceInv
    <3>2. ASSUME Queued(r)' PROVE Queued(r) /\ r # q
      <4>1. PICK k \in DOMAIN Tail(workQueue[d]) : Tail(workQueue[d])[k] = r
        BY <1>8, <2>2, <3>2 DEF Queued
      <4>2. k + 1 \in DOMAIN workQueue[d] /\ k + 1 # 1 /\ workQueue[d][k + 1] = r
        BY <1>2, <4>1, HeadAndTail
      <4>3. r # q
        BY <1>3, <3>1, <4>2
      <4> QED
        BY <2>2, <4>2, <4>3 DEF Queued
    <3>3. ASSUME Queued(r), r # q PROVE Queued(r)'
      <4>1. PICK k \in DOMAIN workQueue[d] : workQueue[d][k] = r
        BY <2>2, <3>3 DEF Queued
      <4>2. k # 1
        BY <1>3, <3>3, <4>1
      <4>3. PICK l \in DOMAIN Tail(workQueue[d]) : k = l + 1
        BY <1>2, <4>1, <4>2, HeadAndTail
      <4>4. Tail(workQueue[d])[l] = r
        BY <1>2, <4>1, <4>3, HeadAndTail
      <4> QED
        BY <1>8, <2>2, <4>3, <4>4 DEF Queued
    <3> QED
      BY <3>2, <3>3
  <2> QED
    BY <2>1, <2>2
<1>12. PlaceInv'
  <2>1. ASSUME NEW c \in Domains
        PROVE  \A k \in DOMAIN workQueue'[c] :
                 /\ DomainOf[workQueue'[c][k]] = c
                 /\ \A l \in DOMAIN workQueue'[c] : workQueue'[c][k] = workQueue'[c][l] => k = l
    <3>1. CASE c = d
      BY <1>2, <1>8, <3>1, HeadAndTail DEF IInv, PlaceInv
    <3> QED
      BY <1>8, <3>1 DEF IInv, PlaceInv
  <2>2. \A m \in Nodes : \A i \in jobs[m] : i.query # q
    BY <1>6 DEF Worked
  <2>3. \A i \in jobs[n] : DomainOf[i.query] # d
    BY <1>2 DEF JobsOf
  <2>4. \A k, m \in Nodes : \A i \in jobs'[k], j \in jobs'[m] : i.query = j.query => k = m /\ i = j
    BY <1>4, <1>7, <2>2 DEF IInv, PlaceInv
  <2>5. \A m \in Nodes : \A i, j \in jobs'[m] : DomainOf[i.query] = DomainOf[j.query] => i = j
    BY <1>4, <1>5, <1>7, <2>3 DEF IInv, PlaceInv
  <2>6. \A r \in Queries : Queued(r)' => ~Worked(r)'
    BY <1>10, <1>11 DEF IInv, PlaceInv
  <2> QED
    BY <2>1, <2>4, <2>5, <2>6 DEF PlaceInv
<1>13. \A r \in Queries : Queued(r)' \/ Worked(r)' <=> Queued(r) \/ Worked(r)
  BY <1>6, <1>10, <1>11
<1>14. HistoryInv'
  BY <1>2, <1>6, <1>10, <1>11, <1>13 DEF IInv, HistoryInv
<1>15. AgainInv'
  <2>1. answers[q] > 0 => q \in redelivered
    BY <1>3, <1>6 DEF IInv, AgainInv
  <2> QED
    BY <1>2, <1>4, <1>7, <1>11, <2>1 DEF IInv, AgainInv
<1>16. AnswerInv'
  BY <1>2, <1>13 DEF IInv, AnswerInv, Resolved
<1>17. OnlyLateAnswersStay'
  BY <1>2 DEF IInv, OnlyLateAnswersStay
<1> QED
  BY <1>9, <1>12, <1>14, <1>15, <1>16, <1>17 DEF IInv

LEMMA RespondStep ==
    ASSUME IInv, NEW n \in Nodes, NEW j, Respond(n, j) PROVE IInv'
<1> DEFINE q == j.query
           done == [j EXCEPT !.phase = "answered"]
<1>1. /\ TypeOK /\ jobs \in [Nodes -> SUBSET Job] /\ answers \in [Queries -> Nat]
      /\ responseQueue \in [Nodes -> Seq(Queries)]
  BY DEF IInv, TypeOK
<1>2. /\ j \in jobs[n] /\ j.phase = "handling"
      /\ jobs' = [jobs EXCEPT ![n] = (jobs[n] \ {j}) \cup {done}]
      /\ answers' = [answers EXCEPT ![q] = answers[q] + 1]
      /\ UNCHANGED <<processes, call, workQueue, responseMap, acked, redelivered, interruptions>>
  BY <1>1 DEF Respond
<1>3. j \in Job /\ q \in Queries /\ Asker[q] \in Nodes
  BY <1>1, <1>2, Elements
<1>4. done \in Job /\ done.query = q /\ done.phase = "answered"
  BY <1>3 DEF Job
<1>5. \/ responseQueue' = [responseQueue EXCEPT ![Asker[q]] = Append(responseQueue[Asker[q]], q)]
      \/ responseQueue' = responseQueue
  BY <1>1, <1>3 DEF Respond, RoutingKey
<1>6. /\ \A m \in Nodes : m # n => jobs'[m] = jobs[m]
      /\ \A i : i \in jobs'[n] <=> (i \in jobs[n] /\ i # j) \/ i = done
  BY <1>1, <1>2
<1>7. /\ answers[q] \in Nat /\ answers'[q] = answers[q] + 1
      /\ \A r \in Queries : r # q => answers'[r] = answers[r]
      /\ \A r \in Queries : answers[r] \in Nat /\ answers'[r] \in Nat
  BY <1>1, <1>2, <1>3
<1>8. TypeOK'
  <2>1. jobs' \in [Nodes -> SUBSET Job]
    BY <1>1, <1>2, <1>4
  <2>2. answers' \in [Queries -> Nat]
    BY <1>1, <1>2, <1>3
  <2>3. responseQueue' \in [Nodes -> Seq(Queries)]
    <3>1. Append(responseQueue[Asker[q]], q) \in Seq(Queries)
      BY <1>1, <1>3, Appended
    <3> QED
      BY <1>1, <1>5, <3>1
  <2> QED
    BY <1>1, <1>2, <2>1, <2>2, <2>3 DEF TypeOK, processes
<1>9. Worked(q) /\ ~Queued(q) /\ call[q] # "new" /\ ~IsLocal(q) /\ q \notin acked
  BY <1>2, <1>3 DEF IInv, PlaceInv, HistoryInv, Worked
<1>10. /\ \A r \in Queries : Worked(r)' <=> Worked(r)
       /\ \A r \in Queries : Queued(r)' <=> Queued(r)
  <2>1. \A r \in Queries : Worked(r)' => Worked(r)
    BY <1>2, <1>4, <1>6 DEF Worked
  <2>2. \A r \in Queries : Worked(r) => Worked(r)'
    BY <1>2, <1>4, <1>6 DEF Worked
  <2> QED
    BY <1>2, <2>1, <2>2 DEF Queued
<1>11. PlaceInv'
  <2>1. \A m \in Nodes : \A i \in jobs'[m] :
          (m = n /\ i = done) \/ (i \in jobs[m] /\ i.query # q /\ (m = n => DomainOf[i.query] # DomainOf[q]))
    BY <1>2, <1>6 DEF IInv, PlaceInv
  <2>2. /\ \A k, m \in Nodes : \A i \in jobs[k], l \in jobs[m] : i.query = l.query => k = m /\ i = l
        /\ \A m \in Nodes : \A i, l \in jobs[m] : DomainOf[i.query] = DomainOf[l.query] => i = l
    BY DEF IInv, PlaceInv
  <2>3. ASSUME NEW k \in Nodes, NEW m \in Nodes, NEW i \in jobs'[k], NEW l \in jobs'[m], i.query = l.query
        PROVE  k = m /\ i = l
    <3>1. CASE i = done /\ k = n
      BY <1>4, <2>1, <2>3, <3>1
    <3>2. CASE i \in jobs[k] /\ i.query # q
      <4>1. l \in jobs[m]
        BY <1>4, <2>1, <2>3, <3>2
      <4> QED
        BY <2>2, <2>3, <3>2, <4>1
    <3> QED
      BY <2>1, <3>1, <3>2
  <2>4. ASSUME NEW m \in Nodes, NEW i \in jobs'[m], NEW l \in jobs'[m], DomainOf[i.query] = DomainOf[l.query]
        PROVE  i = l
    BY <1>4, <2>1, <2>2, <2>4
  <2> QED
    BY <1>2, <1>10, <2>3, <2>4 DEF IInv, PlaceInv
<1>12. HistoryInv'
  BY <1>2, <1>7, <1>9, <1>10 DEF IInv, HistoryInv
<1>13. answers[q] > 0 => q \in redelivered
  BY <1>2 DEF IInv, AgainInv
<1>14. AgainInv'
  <2>1. \A m \in Nodes : \A i \in jobs'[m] : i = done \/ (i \in jobs[m] /\ i.query # q)
    BY <1>2, <1>6 DEF IInv, PlaceInv
  <2>2. \A m \in Nodes : \A i \in jobs[m] : i.query \in Queries
    BY <1>1, Elements
  <2>3. \A r \in Queries : answers'[r] > 1 \/ (Queued(r)' /\ answers'[r] > 0) => r \in redelivered'
    BY <1>2, <1>7, <1>9, <1>10, <1>13 DEF IInv, AgainInv
  <2>4. \A m \in Nodes : \A i \in jobs'[m] :
          IF i.phase = "answered" THEN answers'[i.query] > 0
          ELSE answers'[i.query] > 0 => i.query \in redelivered'
    <3> SUFFICES ASSUME NEW m \in Nodes, NEW i \in jobs'[m]
                 PROVE  IF i.phase = "answered" THEN answers'[i.query] > 0
                        ELSE answers'[i.query] > 0 => i.query \in redelivered'
      OBVIOUS
    <3>1. CASE i = done
      BY <1>4, <1>7, <3>1
    <3>2. CASE i \in jobs[m] /\ i.query # q
      <4>1. answers'[i.query] = answers[i.query]
        BY <1>7, <2>2, <3>2
      <4> QED
        BY <1>2, <3>2, <4>1 DEF IInv, AgainInv
    <3> QED
      BY <2>1, <3>1, <3>2
  <2> QED
    BY <2>3, <2>4 DEF AgainInv
<1>15. AnswerInv'
  <2>1. Resolved(q) => answers'[q] > 1
    BY <1>3, <1>7, <1>9 DEF IInv, AnswerInv
  <2>2. \A m \in Nodes : \A k \in DOMAIN responseQueue[m] : responseQueue[m][k] = q => answers'[q] > 1
    BY <1>7 DEF IInv, AnswerInv
  <2>3. \A r \in Queries : Resolved(r)' <=> Resolved(r)
    BY <1>2 DEF Resolved
  <2>4. ASSUME NEW m \in Nodes, NEW k \in DOMAIN responseQueue[m], NEW r, r = responseQueue[m][k]
        PROVE  /\ Asker[r] = m /\ ~IsLocal(r) /\ call'[r] # "new" /\ answers'[r] > 0
               /\ Resolved(r)' => answers'[r] > 1
               /\ \A l \in DOMAIN responseQueue[m] : r = responseQueue[m][l] => k = l \/ answers'[r] > 1
    <3>1. r \in Queries
      BY <1>1, <2>4, Elements
    <3> QED
      BY <1>2, <1>7, <2>2, <2>3, <2>4, <3>1 DEF IInv, AnswerInv
  <2>5. \A r \in Queries : Resolved(r)' /\ (Queued(r)' \/ Worked(r)') => answers'[r] > 0
    BY <1>7, <1>10, <2>3 DEF IInv, AnswerInv
  <2>6. ASSUME NEW m \in Nodes, NEW k \in DOMAIN responseQueue'[m], NEW r, r = responseQueue'[m][k]
        PROVE  /\ Asker[r] = m /\ ~IsLocal(r) /\ call'[r] # "new" /\ answers'[r] > 0
               /\ Resolved(r)' => answers'[r] > 1
               /\ \A l \in DOMAIN responseQueue'[m] : r = responseQueue'[m][l] => k = l \/ answers'[r] > 1
    <3>1. CASE responseQueue'[m] = responseQueue[m]
      BY <2>4, <2>6, <3>1
    <3>2. CASE m = Asker[q] /\ responseQueue'[m] = Append(responseQueue[m], q)
      <4>1. responseQueue[m] \in Seq(Queries)
        BY <1>1
      <4>2. CASE r = q
        <5>1. \A l \in DOMAIN responseQueue'[m] : responseQueue'[m][l] = q =>
                answers'[q] > 1 \/ l = Len(responseQueue[m]) + 1
          BY <1>3, <2>2, <3>2, <4>1, Appended
        <5>2. \A l \in DOMAIN responseQueue'[m] : r = responseQueue'[m][l] => k = l \/ answers'[r] > 1
          BY <2>6, <4>2, <5>1
        <5> QED
          BY <1>2, <1>7, <1>9, <2>1, <2>3, <1>3, <3>2, <4>2, <5>2
      <4>3. CASE r # q
        <5>1. k \in DOMAIN responseQueue[m] /\ r = responseQueue[m][k]
          BY <1>3, <2>6, <3>2, <4>1, <4>3, Appended
        <5>2. \A l \in DOMAIN responseQueue'[m] : r = responseQueue'[m][l] =>
                l \in DOMAIN responseQueue[m] /\ r = responseQueue[m][l]
          BY <1>3, <3>2, <4>1, <4>3, Appended
        <5> QED
          BY <2>4, <5>1, <5>2
      <4> QED
        BY <4>2, <4>3
    <3>3. responseQueue'[m] = responseQueue[m] \/ (m = Asker[q] /\ responseQueue'[m] = Append(responseQueue[m], q))
      BY <1>1, <1>3, <1>5
    <3> QED
      BY <3>1, <3>2, <3>3
  <2> QED
    BY <2>5, <2>6 DEF AnswerInv, IsLocal
<1>16. OnlyLateAnswersStay'
  <2>1. \A m \in Nodes : responseMap[m] \subseteq Queries
    BY <1>1 DEF TypeOK
  <2> QED
    BY <1>2, <1>7, <2>1 DEF IInv, OnlyLateAnswersStay
<1> QED
  BY <1>8, <1>11, <1>12, <1>14, <1>15, <1>16 DEF IInv

LEMMA AcknowledgeStep ==
    ASSUME IInv, NEW n \in Nodes, NEW j, Acknowledge(n, j) PROVE IInv'
<1> DEFINE q == j.query
<1>1. TypeOK /\ jobs \in [Nodes -> SUBSET Job]
  BY DEF IInv, TypeOK
<1>2. /\ j \in jobs[n] /\ j.phase = "answered"
      /\ acked' = acked \cup {q}
      /\ jobs' = [jobs EXCEPT ![n] = jobs[n] \ {j}]
      /\ UNCHANGED <<processes, call, workQueue, responseQueue, responseMap, answers, redelivered,
                     interruptions>>
  BY DEF Acknowledge
<1>3. q \in Queries
  BY <1>1, <1>2, Elements
<1>4. /\ \A m \in Nodes : m # n => jobs'[m] = jobs[m]
      /\ jobs'[n] = jobs[n] \ {j}
      /\ \A m \in Nodes : jobs'[m] \subseteq jobs[m]
  BY <1>1, <1>2
<1>5. TypeOK'
  <2>1. jobs' \in [Nodes -> SUBSET Job]
    BY <1>1, <1>2
  <2> QED
    BY <1>1, <1>2, <1>3, <2>1 DEF TypeOK, processes
<1>6. Worked(q) /\ ~Queued(q) /\ call[q] # "new" /\ answers[q] > 0
  BY <1>2, <1>3 DEF IInv, PlaceInv, HistoryInv, AgainInv, Worked
<1>7. \A r \in Queries : Worked(r)' <=> Worked(r) /\ r # q
  <2>1. \A r \in Queries : Worked(r) /\ r # q => Worked(r)'
    BY <1>4 DEF Worked
  <2>2. \A r \in Queries : Worked(r)' => Worked(r) /\ r # q
    BY <1>2, <1>4 DEF Worked, IInv, PlaceInv
  <2> QED
    BY <2>1, <2>2
<1>8. \A r \in Queries : Queued(r)' <=> Queued(r)
  BY <1>2 DEF Queued
<1>9. PlaceInv'
  BY <1>2, <1>4, <1>7, <1>8 DEF IInv, PlaceInv
<1>10. HistoryInv'
  BY <1>2, <1>6, <1>7, <1>8 DEF IInv, HistoryInv
<1>11. AgainInv'
  BY <1>2, <1>4, <1>8 DEF IInv, AgainInv
<1>12. AnswerInv'
  <2>1. \A r : Resolved(r)' <=> Resolved(r)
    BY <1>2 DEF Resolved
  <2> QED
    BY <1>2, <1>7, <1>8, <2>1 DEF IInv, AnswerInv
<1>13. OnlyLateAnswersStay'
  BY <1>2 DEF IInv, OnlyLateAnswersStay
<1> QED
  BY <1>5, <1>9, <1>10, <1>11, <1>12, <1>13 DEF IInv

-----------------------------------------------------------------------------
(* The wait of a query has come to an end, and nothing else has happened   *)
(* to its places.                                                          *)
LEMMA PlacesStay ==
    ASSUME IInv, UNCHANGED <<workQueue, jobs, answers, acked, redelivered>>,
           \A r \in Queries : call'[r] = "new" <=> call[r] = "new"
    PROVE  PlaceInv' /\ HistoryInv' /\ AgainInv' /\ \A r : (Queued(r)' <=> Queued(r)) /\ (Worked(r)' <=> Worked(r))
<1>1. \A r : (Queued(r)' <=> Queued(r)) /\ (Worked(r)' <=> Worked(r))
  BY DEF Queued, Worked
<1>2. PlaceInv' /\ AgainInv'
  BY <1>1 DEF IInv, PlaceInv, AgainInv
<1>3. HistoryInv'
  BY <1>1 DEF IInv, HistoryInv
<1> QED
  BY <1>1, <1>2, <1>3

LEMMA TimeoutStep ==
    ASSUME IInv, NEW q \in Queries, Timeout(q) PROVE IInv'
<1>1. /\ call \in [Queries -> Calls] /\ call[q] = "waiting" /\ call' = [call EXCEPT ![q] = "timedOut"]
      /\ UNCHANGED <<processes, workQueue, jobs, responseQueue, responseMap, answers, acked,
                     redelivered, interruptions>>
  BY DEF Timeout, IInv, TypeOK
<1>2. TypeOK'
  BY <1>1 DEF IInv, TypeOK, Calls, Outcomes, processes
<1>3. /\ \A r \in Queries : call'[r] = "new" <=> call[r] = "new"
      /\ \A r \in Queries : Resolved(r)' <=> Resolved(r)
      /\ \A r \in Queries : call[r] \in {"timedOut", "lost"} => call'[r] \in {"timedOut", "lost"}
  BY <1>1 DEF Resolved
<1>4. PlaceInv' /\ HistoryInv' /\ AgainInv' /\ \A r : (Queued(r)' <=> Queued(r)) /\ (Worked(r)' <=> Worked(r))
  BY <1>1, <1>3, PlacesStay
<1>5. AnswerInv'
  <2>1. \A n \in Nodes : \A k \in DOMAIN responseQueue[n] : responseQueue[n][k] \in Queries
    BY Elements DEF IInv
  <2> QED
    BY <1>1, <1>3, <1>4, <2>1 DEF IInv, AnswerInv
<1>6. OnlyLateAnswersStay'
  <2>1. \A n \in Nodes : responseMap[n] \subseteq Queries
    BY DEF IInv, TypeOK
  <2> QED
    BY <1>1, <1>3, <2>1 DEF IInv, OnlyLateAnswersStay
<1> QED
  BY <1>2, <1>4, <1>5, <1>6 DEF IInv

LEMMA ReceiveResponseStep ==
    ASSUME IInv, NEW n \in Nodes, ReceiveResponse(n) PROVE IInv'
<1>1. PICK q : q = Head(responseQueue[n])
  OBVIOUS
<1>2. /\ TypeOK /\ responseQueue \in [Nodes -> Seq(Queries)] /\ call \in [Queries -> Calls]
      /\ responseMap \in [Nodes -> SUBSET Queries] /\ responseQueue[n] \in Seq(Queries)
  BY DEF IInv, TypeOK
<1>3. /\ responseQueue[n] # <<>>
      /\ responseQueue' = [responseQueue EXCEPT ![n] = Tail(responseQueue[n])]
      /\ UNCHANGED <<processes, workQueue, jobs, answers, acked, redelivered, interruptions>>
  BY <1>2 DEF ReceiveResponse
<1>4. /\ q \in Queries /\ q = responseQueue[n][1] /\ 1 \in DOMAIN responseQueue[n]
      /\ Tail(responseQueue[n]) \in Seq(Queries)
  BY <1>1, <1>2, <1>3, HeadAndTail
<1>5. /\ Asker[q] = n /\ ~IsLocal(q) /\ call[q] # "new" /\ answers[q] > 0
      /\ Resolved(q) => answers[q] > 1
      /\ \A l \in DOMAIN responseQueue[n] : responseQueue[n][l] = q => l = 1 \/ answers[q] > 1
  BY <1>4 DEF IInv, AnswerInv
<1>6. /\ \A m \in Nodes : m # n => responseQueue'[m] = responseQueue[m]
      /\ responseQueue'[n] = Tail(responseQueue[n])
      /\ \A k \in DOMAIN responseQueue'[n] :
           k \in Nat /\ k + 1 \in DOMAIN responseQueue[n] /\ k + 1 # 1 /\ responseQueue'[n][k] = responseQueue[n][k + 1]
  BY <1>2, <1>3, HeadAndTail
<1>7. \/ /\ call[q] = "waiting" /\ responseMap' = responseMap
         /\ call' = [call EXCEPT ![q] = ParseResponse(q)]
      \/ /\ call[q] # "waiting" /\ call' = call
         /\ responseMap' = [responseMap EXCEPT ![n] = responseMap[n] \cup {q}]
  BY <1>1 DEF ReceiveResponse, AwaitResponse
<1>8. ParseResponse(q) \in {"value", "error", "thrown"}
  BY DEF ParseResponse
<1>9. TypeOK'
  <2>1. responseQueue' \in [Nodes -> Seq(Queries)]
    BY <1>2, <1>3, <1>4
  <2>2. call' \in [Queries -> Calls]
    BY <1>2, <1>7, <1>8 DEF Calls, Outcomes
  <2>3. responseMap' \in [Nodes -> SUBSET Queries]
    BY <1>2, <1>4, <1>7
  <2> QED
    BY <1>2, <1>3, <2>1, <2>2, <2>3 DEF TypeOK, processes
<1>10. /\ \A r \in Queries : r # q => call'[r] = call[r]
       /\ \A r \in Queries : call'[r] = "new" <=> call[r] = "new"
       /\ \A r \in Queries : Resolved(r)' => Resolved(r) \/ r = q
       /\ \A r \in Queries : call[r] \in {"timedOut", "lost"} => call'[r] \in {"timedOut", "lost"}
  BY <1>2, <1>4, <1>5, <1>7, <1>8 DEF Resolved
<1>11. PlaceInv' /\ HistoryInv' /\ AgainInv' /\ \A r : (Queued(r)' <=> Queued(r)) /\ (Worked(r)' <=> Worked(r))
  BY <1>3, <1>10, PlacesStay
<1>12. AnswerInv'
  <2>1. ASSUME NEW m \in Nodes, NEW k \in DOMAIN responseQueue'[m], NEW r, r = responseQueue'[m][k]
        PROVE  /\ Asker[r] = m /\ ~IsLocal(r) /\ call'[r] # "new" /\ answers'[r] > 0
               /\ Resolved(r)' => answers'[r] > 1
               /\ \A l \in DOMAIN responseQueue'[m] : r = responseQueue'[m][l] => k = l \/ answers'[r] > 1
    <3>1. PICK i \in DOMAIN responseQueue[m] :
            r = responseQueue[m][i] /\ (m = n => k \in Nat /\ i = k + 1 /\ i # 1) /\ (m # n => i = k)
      BY <1>6, <2>1
    <3>2. r \in Queries
      BY <1>2, <3>1, Elements
    <3>3. /\ Asker[r] = m /\ ~IsLocal(r) /\ call[r] # "new" /\ answers[r] > 0
          /\ Resolved(r) => answers[r] > 1
          /\ \A l \in DOMAIN responseQueue[m] : r = responseQueue[m][l] => i = l \/ answers[r] > 1
      BY <3>1 DEF IInv, AnswerInv
    <3>4. r = q => answers[r] > 1
      BY <1>4, <1>5, <3>1, <3>3
    <3>5. ASSUME NEW l \in DOMAIN responseQueue'[m], r = responseQueue'[m][l] PROVE k = l \/ answers[r] > 1
      <4>1. CASE m = n
        <5>1. l + 1 \in DOMAIN responseQueue[m] /\ l \in Nat /\ r = responseQueue[m][l + 1]
          BY <1>6, <3>5, <4>1
        <5>2. i = l + 1 \/ answers[r] > 1
          BY <3>3, <5>1
        <5>3. i = k + 1 /\ k \in Nat
          BY <3>1, <4>1
        <5> QED
          BY <5>1, <5>2, <5>3
      <4>2. CASE m # n
        BY <1>6, <3>1, <3>3, <3>5, <4>2
      <4> QED
        BY <4>1, <4>2
    <3> QED
      BY <1>3, <1>10, <3>2, <3>3, <3>4, <3>5
  <2>2. \A r \in Queries : Resolved(r)' /\ (Queued(r)' \/ Worked(r)') => answers'[r] > 0
    BY <1>3, <1>5, <1>10, <1>11 DEF IInv, AnswerInv
  <2> QED
    BY <2>1, <2>2 DEF AnswerInv, IsLocal
<1>13. OnlyLateAnswersStay'
  <2>1. \A m \in Nodes : responseMap[m] \subseteq Queries
    BY <1>2
  <2>2. call[q] # "waiting" => call[q] \in {"timedOut", "lost"} \/ (q \in redelivered /\ answers[q] > 1)
    BY <1>2, <1>4, <1>5 DEF IInv, AgainInv, Resolved, Calls, Outcomes
  <2>3. \A m \in Nodes : \A r \in responseMap'[m] :
          r \in responseMap[m] \/ (r = q /\ m = n /\ call[q] # "waiting")
    BY <1>2, <1>7
  <2>4. \A m \in Nodes : \A r \in responseMap[m] :
          /\ Asker[r] = m /\ ~IsLocal(r)
          /\ call'[r] \in {"timedOut", "lost"} \/ (r \in redelivered' /\ answers'[r] > 1)
    BY <1>3, <1>10, <2>1 DEF IInv, OnlyLateAnswersStay
  <2>5. call[q] # "waiting" =>
          call'[q] \in {"timedOut", "lost"} \/ (q \in redelivered' /\ answers'[q] > 1)
    BY <1>3, <1>4, <1>10, <2>2
  <2> QED
    BY <1>5, <2>3, <2>4, <2>5 DEF OnlyLateAnswersStay, IsLocal
<1> QED
  BY <1>9, <1>11, <1>12, <1>13 DEF IInv

-----------------------------------------------------------------------------
(* A process loses its channels.  What it held goes back to the queues.    *)
LEMMA RequeuedPlaces ==
    ASSUME IInv, NEW n \in Nodes, LoseChannels(n)
    PROVE  /\ \A r \in Queries : Queued(r)' <=> Queued(r) \/ \E j \in jobs[n] : j.query = r
           /\ \A d \in Domains : \A k \in DOMAIN workQueue'[d] :
                /\ DomainOf[workQueue'[d][k]] = d
                /\ \A l \in DOMAIN workQueue'[d] : workQueue'[d][k] = workQueue'[d][l] => k = l
           /\ workQueue' \in [Domains -> Seq(Queries)]
<1>1. TypeOK /\ PlaceInv
  BY DEF IInv
<1>2. \A d \in Domains : workQueue'[d] = Requeue(n)[d]
  BY DEF LoseChannels
<1>3. /\ \A d \in Domains : workQueue[d] \in Seq(Queries)
      /\ \A j \in jobs[n] : j.query \in Queries
      /\ \A q \in Queries : DomainOf[q] \in Domains
  BY <1>1, Elements
<1>4. \A j \in jobs[n] : ~Queued(j.query)
  BY <1>1, <1>3 DEF PlaceInv, Worked
<1>5. ASSUME NEW d \in Domains
      PROVE  /\ workQueue'[d] \in Seq(Queries)
             /\ \A k \in DOMAIN workQueue'[d] :
                  /\ DomainOf[workQueue'[d][k]] = d
                  /\ \A l \in DOMAIN workQueue'[d] : workQueue'[d][k] = workQueue'[d][l] => k = l
             /\ \A r \in Queries : DomainOf[r] = d =>
                  ((\E k \in DOMAIN workQueue'[d] : workQueue'[d][k] = r)
                    <=> Queued(r) \/ \E j \in jobs[n] : j.query = r)
  <2>1. CASE JobsOf(n, d) = {} /\ Requeue(n)[d] = workQueue[d]
    <3>1. workQueue'[d] = workQueue[d]
      BY <1>2, <2>1
    <3>2. \A j \in jobs[n] : DomainOf[j.query] # d
      BY <2>1 DEF JobsOf
    <3> QED
      BY <1>1, <1>3, <3>1, <3>2 DEF PlaceInv, Queued
  <2>2. ASSUME NEW j \in jobs[n], JobsOf(n, d) = {j}, Requeue(n)[d] = <<j.query>> \o workQueue[d]
        PROVE  <1>5!2
    <3>1. PICK q \in Queries : q = j.query /\ DomainOf[q] = d /\ ~Queued(q)
      BY <1>3, <1>4, <2>2 DEF JobsOf
    <3>2. \A i \in jobs[n] : DomainOf[i.query] = d => i = j
      BY <2>2 DEF JobsOf
    <3>3. workQueue'[d] = <<q>> \o workQueue[d] /\ workQueue[d] \in Seq(Queries)
      BY <1>2, <1>3, <2>2, <3>1
    <3>4. \A k \in DOMAIN workQueue[d] : workQueue[d][k] # q
      BY <3>1 DEF Queued
    <3>5. /\ workQueue'[d] \in Seq(Queries) /\ 1 \in DOMAIN workQueue'[d] /\ workQueue'[d][1] = q
          /\ \A k \in DOMAIN workQueue[d] : k + 1 \in DOMAIN workQueue'[d] /\ workQueue'[d][k + 1] = workQueue[d][k]
          /\ \A k \in DOMAIN workQueue'[d] :
               k \in Nat /\ (k = 1 \/ (k - 1 \in DOMAIN workQueue[d] /\ workQueue'[d][k] = workQueue[d][k - 1]))
      BY <3>3, Prepended
    <3>6. ASSUME NEW k \in DOMAIN workQueue'[d], NEW l \in DOMAIN workQueue'[d],
                 workQueue'[d][k] = workQueue'[d][l]
          PROVE  k = l
      <4>1. (k = 1 /\ l = 1) \/ (k # 1 /\ l # 1)
        <5>1. \A i \in DOMAIN workQueue'[d] : i # 1 => workQueue'[d][i] # q
          BY <3>4, <3>5
        <5>2. (k # 1 => workQueue'[d][k] # q) /\ (l # 1 => workQueue'[d][l] # q)
          BY <5>1
        <5>3. (k = 1 => workQueue'[d][k] = q) /\ (l = 1 => workQueue'[d][l] = q)
          BY <3>5
        <5> QED
          BY <3>6, <5>2, <5>3
      <4>2. CASE k # 1 /\ l # 1
        <5>1. k - 1 = l - 1
          BY <1>1, <3>5, <3>6, <4>2 DEF PlaceInv
        <5> QED
          BY <3>5, <5>1
      <4> QED
        BY <4>1, <4>2
    <3>7. \A k \in DOMAIN workQueue'[d] : DomainOf[workQueue'[d][k]] = d
      BY <1>1, <3>1, <3>5 DEF PlaceInv
    <3>8. ASSUME NEW r \in Queries, DomainOf[r] = d
          PROVE  (\E k \in DOMAIN workQueue'[d] : workQueue'[d][k] = r)
                   <=> Queued(r) \/ \E i \in jobs[n] : i.query = r
      <4>1. (\E k \in DOMAIN workQueue'[d] : workQueue'[d][k] = r) <=> Queued(r) \/ r = q
        BY <3>5, <3>8 DEF Queued
      <4>2. (\E i \in jobs[n] : i.query = r) <=> r = q
        BY <3>1, <3>2, <3>8
      <4> QED
        BY <4>1, <4>2
    <3> QED
      BY <3>5, <3>6, <3>7, <3>8
  <2> QED
    BY <1>1, <2>1, <2>2, RequeueEffect
<1>6. workQueue' \in [Domains -> Seq(Queries)]
  BY <1>5 DEF LoseChannels, Requeue
<1>7. \A r \in Queries : Queued(r)' <=> Queued(r) \/ \E j \in jobs[n] : j.query = r
  BY <1>3, <1>5 DEF Queued
<1> QED
  BY <1>5, <1>6, <1>7

LEMMA LoseChannelsStep ==
    ASSUME IInv, NEW n \in Nodes, LoseChannels(n),
           up' = up \/ up' = up \ {n},
           responseMap' \in [Nodes -> SUBSET Queries], call' \in [Queries -> Calls],
           \A m \in Nodes : responseMap'[m] \subseteq responseMap[m],
           \A r \in Queries : call'[r] = call[r] \/ (call[r] = "waiting" /\ call'[r] = "lost")
    PROVE  IInv'
<1>1. /\ TypeOK /\ jobs \in [Nodes -> SUBSET Job] /\ responseQueue \in [Nodes -> Seq(Queries)]
      /\ \A m \in Nodes : responseMap[m] \subseteq Queries
  BY DEF IInv, TypeOK
<1>2. /\ interruptions < MaxInterruptions /\ interruptions' = interruptions + 1
      /\ connected' = connected \ {n} /\ listening' = listening \ {n}
      /\ redelivered' = redelivered \cup Held(jobs[n])
      /\ jobs' = [jobs EXCEPT ![n] = {}]
      /\ responseQueue' = [responseQueue EXCEPT ![n] = <<>>]
      /\ UNCHANGED <<bound, answers, acked>>
  BY DEF LoseChannels
<1>3. /\ \A m \in Nodes : m # n => jobs'[m] = jobs[m] /\ responseQueue'[m] = responseQueue[m]
      /\ jobs'[n] = {} /\ responseQueue'[n] = <<>>
  BY <1>1, <1>2
<1>4. \A j \in jobs[n] : j.query \in Queries /\ j.query \in redelivered'
  BY <1>1, <1>2, Elements DEF Held
<1>5. TypeOK'
  <2>1. Held(jobs[n]) \subseteq Queries
    BY <1>4 DEF Held
  <2>2. jobs' \in [Nodes -> SUBSET Job] /\ responseQueue' \in [Nodes -> Seq(Queries)]
    BY <1>1, <1>2
  <2>3. interruptions' \in 0..MaxInterruptions
    BY <1>1, <1>2, BoundsAssumption DEF TypeOK
  <2>4. listening' \subseteq connected' /\ connected' \subseteq up' /\ up' \subseteq Nodes
    BY <1>1, <1>2 DEF TypeOK
  <2>5. answers' \in [Queries -> Nat] /\ bound' \subseteq Domains /\ acked' \cup redelivered' \subseteq Queries
    BY <1>1, <1>2, <2>1 DEF TypeOK
  <2> QED
    BY <2>2, <2>3, <2>4, <2>5, RequeuedPlaces DEF TypeOK
<1>6. \A r \in Queries : Queued(r)' <=> Queued(r) \/ \E j \in jobs[n] : j.query = r
  BY RequeuedPlaces
<1>7. \A r \in Queries : Worked(r)' <=> \E m \in Nodes : m # n /\ \E j \in jobs[m] : j.query = r
  BY <1>3 DEF Worked
<1>8. \A r \in Queries : Queued(r)' \/ Worked(r)' <=> Queued(r) \/ Worked(r)
  BY <1>6, <1>7 DEF Worked
<1>9. PlaceInv'
  <2>1. \A r \in Queries : Queued(r)' => ~Worked(r)'
    BY <1>6, <1>7 DEF IInv, PlaceInv, Worked
  <2>2. \A k, m \in Nodes : \A i \in jobs'[k], j \in jobs'[m] : i.query = j.query => k = m /\ i = j
    BY <1>3 DEF IInv, PlaceInv
  <2>3. \A m \in Nodes : \A i, j \in jobs'[m] : DomainOf[i.query] = DomainOf[j.query] => i = j
    BY <1>3 DEF IInv, PlaceInv
  <2> QED
    BY <2>1, <2>2, <2>3, RequeuedPlaces DEF PlaceInv
<1>10. \A r \in Queries : r \in redelivered' => r \in redelivered \/ Worked(r)
  BY <1>2 DEF Held, Worked
<1>11. \A r \in Queries : call'[r] = "new" <=> call[r] = "new"
  OBVIOUS
<1>12. HistoryInv'
  BY <1>2, <1>8, <1>10, <1>11 DEF IInv, HistoryInv
<1>13. AgainInv'
  <2>1. \A m \in Nodes : \A j \in jobs'[m] : j \in jobs[m]
    BY <1>3
  <2>2. redelivered \subseteq redelivered'
    BY <1>2
  <2>3. \A m \in Nodes : \A j \in jobs'[m] :
          IF j.phase = "answered" THEN answers'[j.query] > 0
          ELSE answers'[j.query] > 0 => j.query \in redelivered'
    BY <1>2, <2>1, <2>2 DEF IInv, AgainInv
  <2>4. \A r \in Queries : answers'[r] > 1 \/ (Queued(r)' /\ answers'[r] > 0) => r \in redelivered'
    BY <1>2, <1>4, <1>6, <2>2 DEF IInv, AgainInv
  <2> QED
    BY <2>3, <2>4 DEF AgainInv
<1>14. AnswerInv'
  <2>1. \A r \in Queries : Resolved(r)' <=> Resolved(r)
    BY DEF Resolved
  <2>2. ASSUME NEW m \in Nodes, NEW k \in DOMAIN responseQueue'[m], NEW r, r = responseQueue'[m][k]
        PROVE  /\ Asker[r] = m /\ ~IsLocal(r) /\ call'[r] # "new" /\ answers'[r] > 0
               /\ Resolved(r)' => answers'[r] > 1
               /\ \A l \in DOMAIN responseQueue'[m] : r = responseQueue'[m][l] => k = l \/ answers'[r] > 1
    <3>1. m # n /\ responseQueue'[m] = responseQueue[m]
      BY <1>3, <2>2
    <3>2. r \in Queries
      BY <1>1, <2>2, <3>1, Elements
    <3> QED
      BY <1>2, <1>11, <2>1, <2>2, <3>1, <3>2 DEF IInv, AnswerInv
  <2>3. \A r \in Queries : Resolved(r)' /\ (Queued(r)' \/ Worked(r)') => answers'[r] > 0
    BY <1>2, <1>8, <2>1 DEF IInv, AnswerInv
  <2> QED
    BY <2>2, <2>3 DEF AnswerInv, IsLocal
<1>15. OnlyLateAnswersStay'
  <2>1. redelivered \subseteq redelivered' /\ answers' = answers
    BY <1>2
  <2>2. \A r \in Queries : call[r] \in {"timedOut", "lost"} => call'[r] \in {"timedOut", "lost"}
    OBVIOUS
  <2> QED
    BY <1>1, <2>1, <2>2 DEF IInv, OnlyLateAnswersStay, IsLocal
<1> QED
  BY <1>5, <1>9, <1>12, <1>13, <1>14, <1>15 DEF IInv

LEMMA InterruptionStep ==
    ASSUME IInv, NEW n \in Nodes, ConnectionCloses(n) \/ Crash(n) PROVE IInv'
<1>1. responseMap \in [Nodes -> SUBSET Queries] /\ call \in [Queries -> Calls]
  BY DEF IInv, TypeOK
<1>2. CASE ConnectionCloses(n)
  BY <1>1, <1>2, LoseChannelsStep DEF ConnectionCloses
<1>3. CASE Crash(n)
  <2>1. /\ responseMap' \in [Nodes -> SUBSET Queries]
        /\ \A m \in Nodes : responseMap'[m] \subseteq responseMap[m]
    BY <1>1, <1>3 DEF Crash
  <2>2. call' \in [Queries -> Calls]
    BY <1>1, <1>3 DEF Crash, Calls
  <2>3. \A r \in Queries : call'[r] = call[r] \/ (call[r] = "waiting" /\ call'[r] = "lost")
    BY <1>3 DEF Crash
  <2> QED
    BY <1>3, <2>1, <2>2, <2>3, LoseChannelsStep DEF Crash
<1> QED
  BY <1>2, <1>3

-----------------------------------------------------------------------------
LEMMA NothingHappens == IInv /\ UNCHANGED vars => IInv'
<1> SUFFICES ASSUME IInv, UNCHANGED vars PROVE IInv'
  OBVIOUS
<1>1. TypeOK'
  BY DEF IInv, TypeOK, vars, processes
<1> QED
  BY <1>1, QuietSteps DEF vars

LEMMA IInvStays == IInv /\ [Next]_vars => IInv'
<1> SUFFICES ASSUME IInv, [Next]_vars PROVE IInv'
  OBVIOUS
<1>1. ASSUME NEW q \in Queries, Execute(q) \/ Timeout(q) PROVE IInv'
  BY <1>1, ExecuteStep, TimeoutStep
<1>2. ASSUME NEW n \in Nodes,
             Bootstrap(n) \/ Subscribe(n) \/ ReceiveResponse(n) \/ ConnectionCloses(n) \/ Crash(n)
      PROVE  IInv'
  BY <1>2, StartUpStep, ReceiveResponseStep, InterruptionStep
<1>3. ASSUME NEW n \in Nodes, NEW d \in Domains, Work(n, d) PROVE IInv'
  BY <1>3, ReceiveWorkStep, RespondStep, AcknowledgeStep DEF Work
<1>4. CASE UNCHANGED vars
  BY <1>4, NothingHappens
<1> QED
  BY <1>1, <1>2, <1>3, <1>4 DEF Next

(* Every variable keeps its type. *)
THEOREM TypeCorrect == Spec => []TypeOK
<1>1. IInv => TypeOK
  BY DEF IInv
<1> QED
  BY <1>1, Initially, IInvStays, PTL DEF Spec

(* The map of answers keeps only late answers and second ones.             *)
THEOREM LateAnswersAreAllThatStays == Spec => []OnlyLateAnswersStay
<1>1. IInv => OnlyLateAnswersStay
  BY DEF IInv
<1> QED
  BY <1>1, Initially, IInvStays, PTL DEF Spec

LEMMA AtMostOne ==
    ASSUME NEW S, \A x, y \in S : x = y
    PROVE  (S = {} /\ Cardinality(S) = 0) \/ (S # {} /\ Cardinality(S) = 1)
<1>1. CASE S = {}
  BY <1>1, FS_EmptySet
<1>2. CASE S # {}
  <2>1. PICK x : S = {x}
    BY <1>2
  <2> QED
    BY <2>1, FS_Singleton
<1> QED
  BY <1>1, <1>2

(* From its way into the queue of its domain to the acknowledgement of an  *)
(* answer there is one copy of a query, with the broker or with a          *)
(* consumer, whatever dies or is delivered again.                          *)
THEOREM QueriesHaveOnePlace == Spec => []OnePlace
<1>1. IInv => OnePlace
  <2> SUFFICES ASSUME IInv, NEW q \in Queries
               PROVE  /\ Places(q) <= 1
                      /\ q \in acked => Places(q) = 0 /\ answers[q] > 0
                      /\ (answers[q] > 0 \/ q \in redelivered) /\ q \notin acked => Places(q) = 1
    BY DEF OnePlace
  <2> DEFINE A == {i \in DOMAIN workQueue[DomainOf[q]] : workQueue[DomainOf[q]][i] = q}
             B == {n \in Nodes : q \in Held(jobs[n])}
  <2>1. DomainOf[q] \in Domains
    BY RoutingAssumption
  <2>2. \A x, y \in A : x = y
    BY <2>1 DEF IInv, PlaceInv
  <2>3. \A x, y \in B : x = y
    BY DEF IInv, PlaceInv, Held
  <2>4. (A # {} <=> Queued(q)) /\ (B # {} <=> Worked(q))
    BY DEF Queued, Worked, Held
  <2>5. ~(Queued(q) /\ Worked(q))
    BY DEF IInv, PlaceInv
  <2>6. Places(q) = IF Queued(q) \/ Worked(q) THEN 1 ELSE 0
    <3>1. (A = {} /\ Cardinality(A) = 0) \/ (A # {} /\ Cardinality(A) = 1)
      BY <2>2, AtMostOne
    <3>2. (B = {} /\ Cardinality(B) = 0) \/ (B # {} /\ Cardinality(B) = 1)
      BY <2>3, AtMostOne
    <3>3. Places(q) = Cardinality(A) + Cardinality(B)
      BY DEF Places
    <3> QED
      BY <2>4, <2>5, <3>1, <3>2, <3>3
  <2> QED
    BY <2>6 DEF IInv, HistoryInv
<1> QED
  BY <1>1, Initially, IInvStays, PTL DEF Spec
=============================================================================
