-------------------------- MODULE Requests_proofs ---------------------------
(***************************************************************************)
(* What surrounds a request, for any number of clients, scrapes and        *)
(* engines: an idempotency key has one job, and what is stored can run;    *)
(* the cache serves what the request could have got itself; and the        *)
(* engines of a scrape are reported truly.                                 *)
(***************************************************************************)
EXTENDS JobRequests, ScrapePage, FiniteSetTheorems, TLAPS

-----------------------------------------------------------------------------
(* One job for a key: requests that race for it.                           *)

(* What a client has under way is a record of three fields. *)
IsCall(e) == e = [at |-> e.at, request |-> e.request, answer |-> e.answer]

(* A request whose transaction runs will have a row. *)
AsksForRow(e) == e.at \in {"begin", "reserved", "inserted"} => RowOf(e.request) # NoRow

(* A transaction that holds a key is the only one, and the key is not      *)
(* taken yet; a taken key has exactly one job.                             *)
KeysInv ==
    /\ call = [c \in Callers |-> call[c]] /\ \A c \in Callers : IsCall(call[c])
    /\ asked \in Workloads /\ \A c \in Callers : AsksForRow(call[c])
    /\ rows = [j \in JobIds |-> rows[j]]
    /\ \A k \in Keys :
          /\ \A c \in Callers : HoldsKey(c, k) =>
                k \notin keys /\ \A d \in Callers : HoldsKey(d, k) => d = c
          /\ k \notin keys => \A j \in Accepted : rows[j].key # k
          /\ k \in keys => \E j \in Accepted : {i \in Accepted : rows[i].key = k} = {j}

(* How a client's request moves on. *)
LEMMA CallMoved ==
  ASSUME KeysInv, NEW c \in Callers, NEW next, NEW answer
  PROVE  /\ Goes(c, next) =>
               call' = [call EXCEPT ![c] = [at |-> next, request |-> call[c].request,
                                            answer |-> call[c].answer]]
         /\ Ends(c, answer) =>
               call' = [call EXCEPT ![c] = [at |-> "ended", request |-> call[c].request,
                                            answer |-> answer]]
<1> DEFINE e == call[c]
<1>1. PICK a, q, r : e = [at |-> a, request |-> q, answer |-> r]
  BY DEF KeysInv, IsCall
<1>2. e.request = q /\ e.answer = r
  BY <1>1
<1>3. Goes(c, next) => call' = [call EXCEPT ![c] = [e EXCEPT !.at = next]]
  BY DEF Goes, KeysInv
<1> DEFINE f == [e EXCEPT !.at = "ended"]
<1>4. Ends(c, answer) => call' = [call EXCEPT ![c] = [e EXCEPT !.at = "ended", !.answer = answer]]
  BY DEF Ends, KeysInv
<1>5. [e EXCEPT !.at = "ended", !.answer = answer] = [f EXCEPT !.answer = answer]
  OBVIOUS
<1> HIDE DEF e
<1>6. [e EXCEPT !.at = next] = [at |-> next, request |-> q, answer |-> r]
  BY <1>1
<1>7. f = [at |-> "ended", request |-> q, answer |-> r]
  BY <1>1
<1> HIDE DEF f
<1>8. [f EXCEPT !.answer = answer] = [at |-> "ended", request |-> q, answer |-> answer]
  BY <1>7
<1>9. QED
  BY <1>2, <1>3, <1>4, <1>5, <1>6, <1>8 DEF e

(* A request that does not come to hold a key, and commits nothing.        *)
LEMMA CallWithoutKey ==
  ASSUME KeysInv, NEW c \in Callers, NEW e, IsCall(e), AsksForRow(e),
         call' = [call EXCEPT ![c] = e], UNCHANGED <<asked, keys, rows>>,
         \A k \in Keys : e.at \in {"reserved", "inserted"} /\ e.request.key = k => HoldsKey(c, k)
  PROVE  KeysInv'
<1>1. /\ call' = [d \in Callers |-> call'[d]] /\ call'[c] = e
      /\ \A d \in Callers : d # c => call'[d] = call[d]
  BY DEF KeysInv
<1>2. \A k \in Keys : \A d \in Callers : HoldsKey(d, k)' => HoldsKey(d, k)
  BY <1>1 DEF HoldsKey
<1>3. asked' \in Workloads /\ \A d \in Callers : IsCall(call'[d]) /\ AsksForRow(call'[d])
  BY <1>1 DEF KeysInv
<1>4. Accepted' = Accepted /\ rows' = [j \in JobIds |-> rows'[j]]
  BY DEF Accepted, KeysInv
<1>5. ASSUME NEW k \in Keys
      PROVE  /\ \A d \in Callers : HoldsKey(d, k)' =>
                   k \notin keys' /\ \A f \in Callers : HoldsKey(f, k)' => f = d
             /\ k \notin keys' => \A j \in Accepted' : rows'[j].key # k
             /\ k \in keys' => \E j \in Accepted' : {i \in Accepted' : rows'[i].key = k} = {j}
  BY <1>2, <1>4 DEF KeysInv
<1>6. QED
  BY <1>1, <1>3, <1>4, <1>5 DEF KeysInv

(* Every step of a request keeps KeysInv. *)
LEMMA KeysStep ==
  KeysInv /\ [RequestsNext]_requestVars => KeysInv'
<1> SUFFICES ASSUME KeysInv, [RequestsNext]_requestVars PROVE KeysInv'
  OBVIOUS
<1>1. ASSUME NEW c \in Callers, NEW q \in asked, Submit(c, q) PROVE KeysInv'
  <2>1. PICK e : /\ IsCall(e) /\ AsksForRow(e) /\ e.at \in {"begin", "ended"}
                 /\ call' = [call EXCEPT ![c] = e]
    <3> DEFINE e1 == [at |-> "begin", request |-> Passed(q), answer |-> Omitted]
               e2 == [at |-> "ended", request |-> q, answer |-> "invalid"]
    <3>1. call' = [call EXCEPT ![c] = e1] \/ call' = [call EXCEPT ![c] = e2]
      BY <1>1 DEF Submit
    <3>2. IsCall(e1) /\ e1.at = "begin" /\ IsCall(e2) /\ e2.at = "ended" /\ AsksForRow(e2)
      BY DEF IsCall, AsksForRow
    <3>3. call' = [call EXCEPT ![c] = e1] => AsksForRow(e1) \/ call' = [call EXCEPT ![c] = e2]
      BY <1>1, RowAssumption DEF Submit, AsksForRow, KeysInv
    <3> HIDE DEF e1, e2
    <3>4. QED
      BY <3>1, <3>2, <3>3
  <2>2. UNCHANGED <<asked, keys, rows>>
    BY <1>1 DEF Submit
  <2>3. QED
    BY <2>1, <2>2, CallWithoutKey
<1>2. ASSUME NEW c \in Callers, ReserveKey(c) PROVE KeysInv'
  <2> DEFINE k == call[c].request.key
  <2>1. UNCHANGED <<asked, keys, rows>> /\ \A d \in Callers : ~HoldsKey(d, k)
    BY <1>2 DEF ReserveKey, Reserve
  <2>2. CASE k \in keys
    <3>1. call' = [call EXCEPT ![c] = [at |-> "ended", request |-> call[c].request, answer |-> "conflict"]]
      BY <1>2, <2>2, CallMoved DEF ReserveKey
    <3> DEFINE e == [at |-> "ended", request |-> call[c].request, answer |-> "conflict"]
    <3>2. IsCall(e) /\ AsksForRow(e) /\ e.at = "ended"
      BY DEF IsCall, AsksForRow
    <3> HIDE DEF e
    <3>3. QED
      BY <2>1, <3>1, <3>2, CallWithoutKey DEF e
  <2>3. CASE k \notin keys
    <3> DEFINE e == [at |-> "reserved", request |-> call[c].request, answer |-> call[c].answer]
    <3>1. call' = [call EXCEPT ![c] = e]
      BY <1>2, <2>3, CallMoved DEF ReserveKey
    <3>2. IsCall(e) /\ AsksForRow(e) /\ e.at = "reserved" /\ e.request.key = k
      BY <1>2 DEF IsCall, AsksForRow, KeysInv, ReserveKey
    <3> HIDE DEF e
    <3>3. /\ call' = [d \in Callers |-> call'[d]] /\ call'[c] = e
          /\ \A d \in Callers : d # c => call'[d] = call[d]
      BY <3>1 DEF KeysInv
    <3>4. \A x \in Keys : \A d \in Callers :
             HoldsKey(d, x)' => HoldsKey(d, x) \/ (d = c /\ x = k)
      BY <3>2, <3>3 DEF HoldsKey
    <3> HIDE DEF k
    <3>5. asked' \in Workloads /\ \A d \in Callers : IsCall(call'[d]) /\ AsksForRow(call'[d])
      BY <2>1, <3>2, <3>3 DEF KeysInv
    <3>6. Accepted' = Accepted /\ rows' = [j \in JobIds |-> rows'[j]]
      BY <2>1 DEF Accepted, KeysInv
    <3>7. ASSUME NEW x \in Keys
          PROVE  /\ \A d \in Callers : HoldsKey(d, x)' =>
                       x \notin keys' /\ \A f \in Callers : HoldsKey(f, x)' => f = d
                 /\ x \notin keys' => \A j \in Accepted' : rows'[j].key # x
                 /\ x \in keys' => \E j \in Accepted' : {i \in Accepted' : rows'[i].key = x} = {j}
      <4>1. \A d \in Callers : HoldsKey(d, x)' =>
               x \notin keys' /\ \A f \in Callers : HoldsKey(f, x)' => f = d
        BY <2>1, <2>3, <3>4 DEF KeysInv
      <4>2. QED
        BY <2>1, <3>6, <4>1 DEF KeysInv
    <3>8. QED
      BY <3>3, <3>5, <3>6, <3>7 DEF KeysInv
  <2>4. QED
    BY <2>2, <2>3
<1>3. ASSUME NEW c \in Callers, InsertJob(c) PROVE KeysInv'
  <2>1. PICK e : /\ IsCall(e) /\ AsksForRow(e) /\ e.at \in {"inserted", "ended"} /\ e.request = call[c].request
                 /\ call' = [call EXCEPT ![c] = e]
    <3> DEFINE e1 == [at |-> "inserted", request |-> call[c].request, answer |-> call[c].answer]
               e2 == [at |-> "ended", request |-> call[c].request, answer |-> "error"]
    <3>1. call' = [call EXCEPT ![c] = e1] \/ call' = [call EXCEPT ![c] = e2]
      BY <1>3, CallMoved DEF InsertJob
    <3>2. /\ IsCall(e1) /\ e1.at = "inserted" /\ e1.request = call[c].request
          /\ IsCall(e2) /\ e2.at = "ended" /\ e2.request = call[c].request
          /\ AsksForRow(e1) /\ AsksForRow(e2)
      BY <1>3 DEF IsCall, AsksForRow, KeysInv, InsertJob
    <3> HIDE DEF e1, e2
    <3>3. QED
      BY <3>1, <3>2
  <2>2. UNCHANGED <<asked, keys, rows>>
    BY <1>3 DEF InsertJob
  <2>3. \A k \in Keys : e.request.key = k => HoldsKey(c, k)
    BY <1>3, <2>1, RequestsAssumption DEF InsertJob, HoldsKey
  <2>4. QED
    BY <2>1, <2>2, <2>3, CallWithoutKey
<1>4. ASSUME NEW c \in Callers, NEW j \in JobIds, Commit(c, j) PROVE KeysInv'
  <2> DEFINE q == call[c].request
             k == q.key
             e == [at |-> "ended", request |-> call[c].request, answer |-> "accepted"]
  <2>1. /\ call[c].at = "inserted" /\ rows[j] = NoRow
        /\ RowOf(q) # NoRow /\ UNCHANGED asked
        /\ keys' = keys \cup ({k} \ {NoKey}) /\ rows' = [rows EXCEPT ![j] = RowOf(q)]
        /\ call' = [call EXCEPT ![c] = e]
    BY <1>4, CallMoved DEF Commit, KeysInv, AsksForRow
  <2>2. IsCall(e) /\ AsksForRow(e) /\ e.at = "ended"
    BY DEF IsCall, AsksForRow
  <2> HIDE DEF e
  <2>3. /\ call' = [d \in Callers |-> call'[d]] /\ call'[c] = e
        /\ \A d \in Callers : d # c => call'[d] = call[d]
    BY <2>1 DEF KeysInv
  <2>4. /\ rows' = [i \in JobIds |-> rows'[i]] /\ rows'[j] = RowOf(q)
        /\ \A i \in JobIds : i # j => rows'[i] = rows[i]
    BY <2>1 DEF KeysInv
  <2>5. RowOf(q).key = k
    BY DEF RowOf
  <2>6. Accepted' = Accepted \cup {j} /\ j \notin Accepted
    BY <2>1, <2>4 DEF Accepted
  <2>7. \A x \in Keys : \A d \in Callers : HoldsKey(d, x)' => HoldsKey(d, x) /\ d # c
    BY <2>2, <2>3 DEF HoldsKey
  <2>8. k \in Keys => HoldsKey(c, k)
    BY <2>1 DEF HoldsKey
  <2> HIDE DEF q, k
  <2>9. ASSUME NEW x \in Keys
        PROVE  /\ \A d \in Callers : HoldsKey(d, x)' =>
                     x \notin keys' /\ \A f \in Callers : HoldsKey(f, x)' => f = d
               /\ x \notin keys' => \A i \in Accepted' : rows'[i].key # x
               /\ x \in keys' => \E i \in Accepted' : {h \in Accepted' : rows'[h].key = x} = {i}
    <3>1. CASE x = k
      <4>1. HoldsKey(c, x) /\ x \notin keys /\ x # NoKey
        BY <2>8, <2>9, <3>1, RequestsAssumption DEF KeysInv
      <4>2. \A i \in Accepted : rows'[i] = rows[i] /\ rows[i].key # x
        BY <2>4, <2>6, <4>1 DEF KeysInv, Accepted
      <4>3. {h \in Accepted' : rows'[h].key = x} = {j}
        BY <2>4, <2>5, <2>6, <3>1, <4>2
      <4>4. \A d \in Callers : ~HoldsKey(d, x)'
        BY <2>7, <4>1 DEF KeysInv
      <4>5. x \in keys'
        BY <2>1, <3>1, <4>1
      <4>6. QED
        BY <2>6, <4>3, <4>4, <4>5
    <3>2. CASE x # k
      <4>1. x \in keys' <=> x \in keys
        BY <2>1, <3>2
      <4>2. \A h \in Accepted' : rows'[h].key = x <=> h \in Accepted /\ rows[h].key = x
        BY <2>4, <2>5, <2>6, <3>2 DEF Accepted
      <4>3. {h \in Accepted' : rows'[h].key = x} = {h \in Accepted : rows[h].key = x}
        BY <2>6, <4>2
      <4>4. QED
        BY <2>6, <2>7, <4>1, <4>2, <4>3 DEF KeysInv
    <3>3. QED
      BY <3>1, <3>2
  <2>10. asked' \in Workloads /\ \A d \in Callers : IsCall(call'[d]) /\ AsksForRow(call'[d])
    BY <2>1, <2>2, <2>3 DEF KeysInv
  <2>11. QED
    BY <2>3, <2>4, <2>9, <2>10 DEF KeysInv
<1>5. ASSUME NEW c \in Callers, Breaks(c) \/ Leaves(c) PROVE KeysInv'
  <2>1. PICK e : /\ IsCall(e) /\ AsksForRow(e) /\ e.at \in {"ended", "idle"}
                 /\ call' = [call EXCEPT ![c] = e]
    <3> DEFINE e1 == [at |-> "ended", request |-> call[c].request, answer |-> "error"]
    <3>1. call' = [call EXCEPT ![c] = e1] \/ call' = [call EXCEPT ![c] = Idle]
      BY <1>5, CallMoved DEF Breaks, Leaves
    <3>2. IsCall(e1) /\ e1.at = "ended" /\ AsksForRow(e1)
          /\ IsCall(Idle) /\ Idle.at = "idle" /\ AsksForRow(Idle)
      BY DEF IsCall, Idle, AsksForRow
    <3> HIDE DEF e1
    <3>3. QED
      BY <3>1, <3>2
  <2>2. UNCHANGED <<asked, keys, rows>>
    BY <1>5 DEF Breaks, Leaves
  <2>3. QED
    BY <2>1, <2>2, CallWithoutKey
<1>6. CASE UNCHANGED requestVars
  BY <1>6 DEF requestVars, KeysInv, HoldsKey, Accepted
<1>7. QED
  BY <1>1, <1>2, <1>3, <1>4, <1>5, <1>6 DEF RequestsNext

(* A key has one job if it is reserved and none if it is not: for any      *)
(* number of requests that race, break off or are sent again.              *)
THEOREM OneJobTheorem == RequestsSpec => []OneJobPerKey
<1>1. RequestsInit => KeysInv
  BY DEF RequestsInit, KeysInv, IsCall, AsksForRow, Idle, HoldsKey, Accepted
<1>2. KeysInv => OneJobPerKey
  <2> SUFFICES ASSUME KeysInv, NEW k \in Keys
               PROVE  Cardinality({j \in Accepted : rows[j].key = k}) = IF k \in keys THEN 1 ELSE 0
    BY DEF OneJobPerKey
  <2>1. CASE k \in keys
    BY <2>1, FS_Singleton DEF KeysInv
  <2>2. CASE k \notin keys
    <3>1. {j \in Accepted : rows[j].key = k} = {}
      BY <2>2 DEF KeysInv
    <3>2. QED
      BY <2>2, <3>1, FS_EmptySet
  <2>3. QED
    BY <2>1, <2>2
<1>3. QED
  BY <1>1, <1>2, KeysStep, PTL DEF RequestsSpec

-----------------------------------------------------------------------------
(* What is stored can run.                                                 *)

(* A request that passed the checks of the handler and of the store, as    *)
(* far as its tasks are concerned.                                         *)
IsJob(q) ==
    /\ RowOf(q) # NoRow
    /\ q.urls \in Seq(STRING) /\ q.urls # << >> /\ q.limit \in Nat
    /\ IF IsBatch(q) THEN Cardinality(Distinct(q.urls)) <= MaxUrls ELSE Len(q.urls) = 1

Runnable(row) ==
    /\ ChecksPass(row)
    /\ Cardinality(row.tasks) \in 1 .. row.limit

(* Before its transaction a request is a job, after the INSERT its row can *)
(* run, and so can the rows of all that committed.                         *)
RowsInv ==
    /\ asked \in Workloads
    /\ call = [c \in Callers |-> call[c]] /\ \A c \in Callers : IsCall(call[c])
    /\ rows = [j \in JobIds |-> rows[j]]
    /\ \A c \in Callers :
          /\ call[c].at \in {"begin", "reserved"} => IsJob(call[c].request)
          /\ call[c].at = "inserted" => Runnable(RowOf(call[c].request))
    /\ \A j \in Accepted : Runnable(rows[j])

(* A number that fits is not changed by its cast.                          *)
LEMMA CastFits ==
  ASSUME NEW max \in Nat, NEW n \in 0 .. max
  PROVE  Signed(n, max) = n
<1>1. n % (2 * (max + 1)) = n
  <2> DEFINE m == 2 * (max + 1)
  <2>1. m \in Nat \ {0} /\ n \in 0 .. m - 1
    OBVIOUS
  <2> HIDE DEF m
  <2>2. n % m = n
    BY <2>1
  <2>3. QED
    BY <2>2 DEF m
<1>2. QED
  BY <1>1 DEF Signed

(* The tasks of a job are at least one, and at most its limit.             *)
LEMMA JobFits ==
  ASSUME NEW q, IsJob(q), ChecksPass(RowOf(q))
  PROVE  Runnable(RowOf(q))
<1>1. /\ RowOf(q).tasks = Distinct(q.urls)
      /\ RowOf(q).limit = Signed(IF IsBatch(q) THEN Cardinality(Distinct(q.urls)) ELSE q.limit, BigMax)
  BY DEF RowOf
<1>2. Len(q.urls) \in Nat \ {0} /\ DOMAIN q.urls = 1 .. Len(q.urls)
  BY DEF IsJob
<1>3. Distinct(q.urls) = {q.urls[i] : i \in 1 .. Len(q.urls)}
  BY <1>2 DEF Distinct, ToSet
<1>4. IsFiniteSet(Distinct(q.urls)) /\ Cardinality(Distinct(q.urls)) <= Len(q.urls)
  <2>1. IsFiniteSet(1 .. Len(q.urls)) /\ Cardinality(1 .. Len(q.urls)) = Len(q.urls)
    <3> DEFINE n == Len(q.urls)
    <3>1. n \in Nat \ {0}
      BY <1>2
    <3> HIDE DEF n
    <3>2. IsFiniteSet(1 .. n) /\ Cardinality(1 .. n) = n
      BY <3>1, FS_Interval
    <3>3. QED
      BY <3>2 DEF n
  <2>2. q.urls \in [1 .. Len(q.urls) -> STRING]
    BY <1>2 DEF IsJob
  <2>3. \A y \in Distinct(q.urls) : \E i \in 1 .. Len(q.urls) : q.urls[i] = y
    BY <1>3
  <2>4. q.urls \in Surjection(1 .. Len(q.urls), Distinct(q.urls))
    BY <1>3, <2>2, <2>3 DEF Surjection
  <2>5. QED
    BY <2>1, <2>4, FS_Surjection
<1>5. Cardinality(Distinct(q.urls)) \in Nat \ {0}
  <2>1. q.urls[1] \in Distinct(q.urls)
    BY <1>2, <1>3
  <2>2. Distinct(q.urls) # {}
    BY <2>1
  <2>3. QED
    BY <1>4, <2>2, FS_CardinalityType, FS_EmptySet
<1>6. RowOf(q).limit > 0 => Cardinality(Distinct(q.urls)) \in 1 .. RowOf(q).limit
  <2>1. CASE IsBatch(q)
    <3>1. Cardinality(Distinct(q.urls)) \in 0 .. BigMax /\ BigMax \in Nat
      BY <1>5, <2>1, RequestsAssumption DEF IsJob
    <3>2. RowOf(q).limit = Cardinality(Distinct(q.urls))
      BY <1>1, <2>1, <3>1, CastFits
    <3>3. QED
      BY <1>5, <3>2
  <2>2. CASE ~IsBatch(q)
    <3>1. Cardinality(Distinct(q.urls)) = 1
      <4>1. Len(q.urls) = 1
        BY <2>2 DEF IsJob
      <4>2. QED
        BY <1>4, <1>5, <4>1
    <3>2. RowOf(q).limit = Signed(q.limit, BigMax) /\ q.limit \in Nat /\ BigMax \in Nat
      BY <1>1, <2>2, RequestsAssumption DEF IsJob
    <3>3. Signed(q.limit, BigMax) \in Int
      BY <3>2 DEF Signed
    <3>4. QED
      BY <3>1, <3>2, <3>3
  <2>3. QED
    BY <2>1, <2>2
<1>7. QED
  BY <1>1, <1>6 DEF Runnable, ChecksPass, JobChecks, RetryChecks, ThrottleChecks

(* A request that moves on and stores nothing.                             *)
LEMMA CallWithoutRow ==
  ASSUME RowsInv, NEW c \in Callers, NEW e, IsCall(e), call' = [call EXCEPT ![c] = e],
         UNCHANGED <<asked, rows>>,
         e.at \in {"begin", "reserved"} => IsJob(e.request),
         e.at = "inserted" => Runnable(RowOf(e.request))
  PROVE  RowsInv'
<1>1. /\ call' = [d \in Callers |-> call'[d]] /\ call'[c] = e
      /\ \A d \in Callers : d # c => call'[d] = call[d]
  BY DEF RowsInv
<1>2. Accepted' = Accepted
  BY DEF Accepted
<1>3. QED
  BY <1>1, <1>2 DEF RowsInv

(* Every step of a request keeps RowsInv. *)
LEMMA RowsStep == KeysInv /\ RowsInv /\ [RequestsNext]_requestVars => RowsInv'
<1> SUFFICES ASSUME KeysInv, RowsInv, [RequestsNext]_requestVars PROVE RowsInv'
  OBVIOUS
<1>1. ASSUME NEW c \in Callers, NEW q \in asked, Submit(c, q) PROVE RowsInv'
  <2> DEFINE e1 == [at |-> "begin", request |-> Passed(q), answer |-> Omitted]
             e2 == [at |-> "ended", request |-> q, answer |-> "invalid"]
  <2>1. UNCHANGED <<asked, rows>>
    BY <1>1 DEF Submit
  <2>2. CASE Decoded(q) /\ ValidJob(Passed(q))
    <3>1. IsJob(Passed(q))
      BY <2>2, RowAssumption DEF RowsInv, IsJob, ValidJob
    <3>2. call' = [call EXCEPT ![c] = e1]
      BY <1>1, <2>2 DEF Submit
    <3>3. IsCall(e1) /\ e1.at = "begin" /\ e1.request = Passed(q)
      BY DEF IsCall
    <3> HIDE DEF e1
    <3>4. QED
      BY <2>1, <3>1, <3>2, <3>3, CallWithoutRow
  <2>3. CASE ~(Decoded(q) /\ ValidJob(Passed(q)))
    <3>1. call' = [call EXCEPT ![c] = e2]
      BY <1>1, <2>3 DEF Submit
    <3>2. IsCall(e2) /\ e2.at = "ended"
      BY DEF IsCall
    <3> HIDE DEF e2
    <3>3. QED
      BY <2>1, <3>1, <3>2, CallWithoutRow
  <2>4. QED
    BY <2>2, <2>3
<1>2. ASSUME NEW c \in Callers, NEW next \in {"reserved", "inserted"}, Goes(c, next),
             UNCHANGED <<asked, rows>>, IsJob(call[c].request),
             next = "inserted" => ChecksPass(RowOf(call[c].request))
      PROVE  RowsInv'
  <2> DEFINE e == [at |-> next, request |-> call[c].request, answer |-> call[c].answer]
  <2>1. call' = [call EXCEPT ![c] = e]
    BY <1>2, CallMoved
  <2>2. IsCall(e) /\ e.at = next /\ e.request = call[c].request
    BY DEF IsCall
  <2> HIDE DEF e
  <2>3. QED
    BY <1>2, <2>1, <2>2, CallWithoutRow, JobFits
<1>3. ASSUME NEW c \in Callers, NEW answer, Ends(c, answer), UNCHANGED <<asked, rows>>
      PROVE  RowsInv'
  <2> DEFINE e == [at |-> "ended", request |-> call[c].request, answer |-> answer]
  <2>1. call' = [call EXCEPT ![c] = e]
    BY <1>3, CallMoved
  <2>2. IsCall(e) /\ e.at = "ended"
    BY DEF IsCall
  <2> HIDE DEF e
  <2>3. QED
    BY <1>3, <2>1, <2>2, CallWithoutRow
<1>4. ASSUME NEW c \in Callers, ReserveKey(c) \/ InsertJob(c) PROVE RowsInv'
  <2>1. IsJob(call[c].request) /\ UNCHANGED <<asked, rows>>
    BY <1>4 DEF ReserveKey, InsertJob, RowsInv
  <2>2. QED
    BY <1>2, <1>3, <1>4, <2>1 DEF ReserveKey, InsertJob
<1>5. ASSUME NEW c \in Callers, NEW j \in JobIds, Commit(c, j) PROVE RowsInv'
  <2> DEFINE row == RowOf(call[c].request)
             e == [at |-> "ended", request |-> call[c].request, answer |-> "accepted"]
  <2>1. /\ Runnable(row) /\ rows' = [rows EXCEPT ![j] = row] /\ UNCHANGED asked
    BY <1>5 DEF Commit, RowsInv
  <2>2. call' = [call EXCEPT ![c] = e]
    BY <1>5, CallMoved DEF Commit
  <2>3. IsCall(e) /\ e.at = "ended"
    BY DEF IsCall
  <2> HIDE DEF e, row
  <2>4. /\ call' = [d \in Callers |-> call'[d]] /\ call'[c] = e
        /\ \A d \in Callers : d # c => call'[d] = call[d]
    BY <2>2 DEF RowsInv
  <2>5. /\ rows' = [i \in JobIds |-> rows'[i]] /\ rows'[j] = row
        /\ \A i \in JobIds : i # j => rows'[i] = rows[i]
    BY <2>1 DEF RowsInv
  <2>6. \A i \in Accepted' : Runnable(rows'[i])
    BY <2>1, <2>5 DEF RowsInv, Accepted
  <2>7. QED
    BY <2>1, <2>3, <2>4, <2>5, <2>6 DEF RowsInv
<1>6. ASSUME NEW c \in Callers, Leaves(c) PROVE RowsInv'
  <2>1. IsCall(Idle) /\ Idle.at = "idle"
    BY DEF IsCall, Idle
  <2>2. QED
    BY <1>6, <2>1, CallWithoutRow DEF Leaves
<1>7. CASE UNCHANGED requestVars
  BY <1>7 DEF requestVars, RowsInv, Accepted
<1>8. QED
  BY <1>1, <1>3, <1>4, <1>5, <1>6, <1>7 DEF RequestsNext, Breaks

(* Whatever numbers a client sends, a stored job can run: for any widths   *)
(* of the columns, any limits of the routes and any requests.              *)
THEOREM RunnableTheorem == RequestsSpec => []RowsRunnable
<1>1. RequestsInit => RowsInv
  BY DEF RequestsInit, RowsInv, IsCall, Idle, Accepted
<1>2. RequestsInit => KeysInv
  BY DEF RequestsInit, KeysInv, IsCall, AsksForRow, Idle, HoldsKey, Accepted
<1>3. RowsInv => RowsRunnable
  BY DEF RowsInv, RowsRunnable, Runnable, ChecksPass, JobChecks,
         RetryChecks, ThrottleChecks
<1>4. QED
  BY <1>1, <1>2, <1>3, KeysStep, RowsStep, PTL DEF RequestsSpec

-----------------------------------------------------------------------------
(* One scrape and the cache.                                               *)

Makers == {"bee_engine", "tls_client", "http_static", "http"}
Verdicts == {"success", "failed", "selected", "rejected"}
Points == {"lookup", "run", "check", "put", "answer", "answered", "failed"}

PageType == [engine : Makers, score : Scores, image : BOOLEAN, state : BOOLEAN,
             acted : BOOLEAN, fallback : BOOLEAN, outcomes : SUBSET (Makers \X Verdicts)]

(* Which of the two branches of scrape_page made a page. *)
Branch(p) == IF p.engine = "bee_engine" THEN "bee_engine" ELSE "http"

(* What the branches hand to select_best_engine: each reports its own      *)
(* success, and failures.                                                  *)
IsCandidate(p) ==
    /\ p \in PageType
    /\ <<p.engine, "success">> \in p.outcomes
    /\ \A o \in p.outcomes : o = <<p.engine, "success">> \/ o[2] = "failed"

(* The candidates of a request come from branches it runs and that are     *)
(* done, at most one from each.                                            *)
CandidatesOK(q, working, candidates) ==
    /\ \A p \in candidates : IsCandidate(p) /\ Branch(p) \in Plan(q) \ working
    /\ \A p, o \in candidates : Branch(p) = Branch(o) => p = o

ModeAllows(mode, p) ==
    /\ mode = "never" => p.engine # "bee_engine"
    /\ mode = "always" => p.engine = "bee_engine"

(* SelectionSound, of one page. *)
ReportedTruly(p, candidates, failures) ==
    LET reported(status) == {o[1] : o \in {x \in p.outcomes : x[2] = status}}
    IN
    /\ reported("selected") = {p.engine}
    /\ \A c \in candidates :
          /\ c.score <= p.score
          /\ c.engine \in reported("selected") \cup reported("rejected")
    /\ failures \subseteq reported("failed")
    /\ p.fallback <=> reported("failed") # {}

ScrapeTypes ==
    /\ request \in [Scrapes -> RequestType]
    /\ at \in [Scrapes -> Points]
    /\ pending \in [Scrapes -> SUBSET {"bee_engine", "http"}]
    /\ failed \in [Scrapes -> SUBSET Makers]
    /\ pages \in [Scrapes -> SUBSET PageType]
    /\ page \in [Scrapes -> PageType \cup {NoPage}]
    /\ cached \subseteq Scrapes
    /\ cache \in [CacheKeys -> PageType \cup {NoPage}]

ScrapeOK(r) ==
    /\ pending[r] \subseteq Plan(request[r])
    /\ at[r] = "lookup" => pages[r] = {} /\ failed[r] = {}
    /\ CandidatesOK(request[r], pending[r], pages[r])
    /\ at[r] \in {"check", "put"} =>
          page[r] \in PageType /\ ModeAllows(request[r].mode, page[r])
    /\ r \in cached =>
          /\ at[r] \in {"check", "answer", "answered", "failed"}
          /\ ModeAllows(request[r].mode, page[r]) /\ HasImage(r)
    /\ r \notin cached /\ at[r] \in {"check", "put", "answer", "answered"} =>
          ReportedTruly(page[r], pages[r], failed[r])

CacheOK == \A k \in CacheKeys : cache[k] # NoPage => ModeAllows(k[2], cache[k])

ScrapeInv == ScrapeTypes /\ CacheOK /\ \A r \in Scrapes : ScrapeOK(r)

(* Of at most one rendered and one fetched page, one is better than the    *)
(* other: the CHOOSE of Chosen has something to choose.                    *)
LEMMA BestExists ==
  ASSUME NEW q, NEW working, NEW ps, ps # {}, CandidatesOK(q, working, ps)
  PROVE  \E p \in ps : \A o \in ps \ {p} : Better(p, o)
<1>1. \A p \in ps : p.score \in {1, 2} /\ Branch(p) \in {"bee_engine", "http"}
  BY DEF CandidatesOK, IsCandidate, PageType, Scores, Branch
<1>2. PICK p \in ps : TRUE
  OBVIOUS
<1>3. CASE \E o \in ps : o # p
  <2>1. PICK o \in ps : o # p
    BY <1>3
  <2>2. Branch(o) # Branch(p) /\ \A x \in ps : x = o \/ x = p
    BY <1>1, <2>1 DEF CandidatesOK, Branch
  <2>3. Better(o, p) \/ Better(p, o)
    BY <1>1, <2>2 DEF Better, Branch
  <2>4. QED
    BY <2>2, <2>3
<1>4. QED
  BY <1>2, <1>3

(* What select_best_engine and score_single_page make of the candidates.   *)
LEMMA ChosenSound ==
  ASSUME ScrapeTypes, NEW r \in Scrapes, pages[r] # {},
         CandidatesOK(request[r], pending[r], pages[r])
  PROVE  /\ Chosen(r) \in PageType
         /\ ModeAllows(request[r].mode, Chosen(r))
         /\ ReportedTruly(Chosen(r), pages[r], failed[r])
<1> DEFINE best == Best(r)
           rejected == Beaten(r)
           failures == failed[r] \X {"failed"}
           outcomes == Reports(r)
           fallback == \E o \in outcomes : o[2] = "failed"
           chosen == [best EXCEPT !.outcomes = outcomes, !.fallback = fallback]
<1>1. best \in pages[r] /\ \A q \in pages[r] \ {best} : Better(best, q)
  BY BestExists DEF Best
<1>2. Chosen(r) = chosen
  BY DEF Chosen
<1>3. outcomes = Relabelled(best, "selected") \cup rejected \cup failures
  BY DEF Reports
<1>4. \A o : o \in rejected <=> \E p \in pages[r] \ {best} : o \in Relabelled(p, "rejected")
  BY DEF Beaten
<1> HIDE DEF best
<1>5. \A p \in pages[r] : IsCandidate(p) /\ Branch(p) \in Plan(request[r])
  BY DEF CandidatesOK
<1>6. \A p \in pages[r], status \in Verdicts :
         /\ <<p.engine, status>> \in Relabelled(p, status)
         /\ \A o \in Relabelled(p, status) :
               /\ o \in Makers \X Verdicts
               /\ o = <<p.engine, status>> \/ o[2] = "failed"
  <2> SUFFICES ASSUME NEW p \in pages[r], NEW status \in Verdicts
               PROVE  /\ <<p.engine, status>> \in Relabelled(p, status)
                      /\ \A o \in Relabelled(p, status) :
                            /\ o \in Makers \X Verdicts
                            /\ o = <<p.engine, status>> \/ o[2] = "failed"
    OBVIOUS
  <2>1. /\ p \in PageType /\ <<p.engine, "success">> \in p.outcomes
        /\ \A o \in p.outcomes : o = <<p.engine, "success">> \/ o[2] = "failed"
        /\ p.engine \in Makers /\ p.outcomes \subseteq Makers \X Verdicts
    BY <1>5 DEF IsCandidate, PageType
  <2>2. <<p.engine, status>> \in Relabelled(p, status)
    BY <2>1 DEF Relabelled
  <2>3. ASSUME NEW o \in Relabelled(p, status)
        PROVE  o \in Makers \X Verdicts /\ (o = <<p.engine, status>> \/ o[2] = "failed")
    <3>1. PICK x \in p.outcomes : o = <<x[1], IF x[2] = "success" THEN status ELSE x[2]>>
      BY DEF Relabelled
    <3>2. QED
      BY <2>1, <3>1 DEF Verdicts
  <2>4. QED
    BY <2>2, <2>3
<1>7. outcomes \in SUBSET (Makers \X Verdicts) /\ fallback \in BOOLEAN
  <2>1. Relabelled(best, "selected") \subseteq Makers \X Verdicts
    BY <1>1, <1>6 DEF Verdicts
  <2>2. ASSUME NEW o \in rejected PROVE o \in Makers \X Verdicts
    <3>1. PICK p \in pages[r] \ {best} : o \in Relabelled(p, "rejected")
      BY <1>4
    <3>2. QED
      BY <1>6, <3>1 DEF Verdicts
  <2>3. failures \subseteq Makers \X Verdicts
    BY DEF ScrapeTypes, Verdicts
  <2>4. QED
    BY <1>3, <2>1, <2>2, <2>3
<1>8. /\ <<best.engine, "selected">> \in outcomes
      /\ \A o \in outcomes : o[2] = "selected" => o[1] = best.engine
  <2>1. \A o \in Relabelled(best, "selected") : o = <<best.engine, "selected">> \/ o[2] = "failed"
    BY <1>1, <1>6 DEF Verdicts
  <2>2. \A o \in rejected : o[2] \in {"rejected", "failed"}
    BY <1>4, <1>6 DEF Verdicts
  <2>3. \A o \in failures : o[2] = "failed"
    OBVIOUS
  <2>4. <<best.engine, "selected">> \in Relabelled(best, "selected")
    BY <1>1, <1>6 DEF Verdicts
  <2>5. QED
    BY <1>3, <2>1, <2>2, <2>3, <2>4
<1>9. \A p \in pages[r] \ {best} : <<p.engine, "rejected">> \in outcomes
  BY <1>3, <1>4, <1>6 DEF Verdicts
<1>10. \A engine \in failed[r] : <<engine, "failed">> \in outcomes
  BY <1>3
<1>11. best \in PageType /\ best.score \in {1, 2}
  BY <1>1, <1>5 DEF IsCandidate, PageType, Scores
<1>12. \A p \in pages[r] : p.score <= best.score
  <2> SUFFICES ASSUME NEW p \in pages[r], p # best PROVE p.score <= best.score
    BY <1>11
  <2>1. p.score \in {1, 2}
    BY <1>5 DEF IsCandidate, PageType, Scores
  <2>2. Better(best, p)
    BY <1>1
  <2>3. QED
    BY <1>11, <2>1, <2>2 DEF Better
<1> HIDE DEF outcomes, fallback
<1>13. /\ chosen \in PageType /\ chosen.outcomes = outcomes /\ chosen.fallback = fallback
       /\ chosen.engine = best.engine /\ chosen.score = best.score
  BY <1>7, <1>11 DEF PageType
<1>14. fallback <=> \E o \in outcomes : o[2] = "failed"
  BY DEF fallback
<1> HIDE DEF chosen
<1>15. ModeAllows(request[r].mode, chosen)
  <2>1. Branch(best) \in Plan(request[r]) /\ request[r] \in RequestType
    BY <1>1, <1>5 DEF ScrapeTypes
  <2>2. QED
    BY <1>13, <2>1 DEF ModeAllows, Branch, Plan, RequestType
<1>16. ReportedTruly(chosen, pages[r], failed[r])
  <2> DEFINE reported(status) == {o[1] : o \in {x \in chosen.outcomes : x[2] = status}}
  <2>1. ASSUME NEW engine, NEW status, <<engine, status>> \in outcomes
        PROVE  engine \in reported(status)
    <3>1. <<engine, status>> \in {x \in chosen.outcomes : x[2] = status}
      BY <1>13, <2>1
    <3>2. <<engine, status>>[1] = engine
      OBVIOUS
    <3>3. QED
      BY <3>1, <3>2
  <2>2. reported("selected") = {chosen.engine}
    BY <1>8, <1>13
  <2>3. \A p \in pages[r] : p.engine \in reported("selected") \cup reported("rejected")
    <3>1. \A p \in pages[r] \ {best} : p.engine \in reported("rejected")
      BY <1>9, <2>1
    <3>2. QED
      BY <1>13, <2>2, <3>1
  <2>4. failed[r] \subseteq reported("failed")
    BY <1>10, <2>1
  <2>5. chosen.fallback <=> reported("failed") # {}
    BY <1>13, <1>14
  <2>6. QED
    BY <1>12, <1>13, <2>2, <2>3, <2>4, <2>5 DEF ReportedTruly
<1>17. QED
  BY <1>2, <1>13, <1>15, <1>16

(* A step of one scrape that leaves the cache alone.                       *)
LEMMA OneScrapeMoves ==
  ASSUME ScrapeInv, NEW r \in Scrapes, ScrapeTypes', ScrapeOK(r)', UNCHANGED <<request, cache>>,
         \A x \in Scrapes \ {r} :
            /\ at'[x] = at[x] /\ pending'[x] = pending[x] /\ failed'[x] = failed[x]
            /\ pages'[x] = pages[x] /\ page'[x] = page[x] /\ (x \in cached' <=> x \in cached)
  PROVE  ScrapeInv'
<1>1. CacheOK'
  BY DEF ScrapeInv, CacheOK
<1>2. ASSUME NEW x \in Scrapes \ {r} PROVE ScrapeOK(x)'
  BY <1>2 DEF ScrapeInv, ScrapeOK, HasImage
<1>3. QED
  BY <1>1, <1>2 DEF ScrapeInv

(* A branch that comes back with a page adds a candidate of its own.       *)
LEMMA OneMoreCandidate ==
  ASSUME NEW q, NEW working, NEW ps, CandidatesOK(q, working, ps), NEW p, IsCandidate(p),
         Branch(p) \in working, working \subseteq Plan(q)
  PROVE  CandidatesOK(q, working \ {Branch(p)}, ps \cup {p})
  BY DEF CandidatesOK

(* A branch that ends, with a page or without one.                         *)
LEMMA BranchEnds ==
  ASSUME ScrapeInv, NEW r \in Scrapes, at[r] = "run", NEW branch \in pending[r],
         pending' = [pending EXCEPT ![r] = pending[r] \ {branch}],
         UNCHANGED <<request, at, page, cached, cache>>,
         \/ \E p : /\ IsCandidate(p) /\ Branch(p) = branch
                   /\ pages' = [pages EXCEPT ![r] = pages[r] \cup {p}] /\ failed' = failed
         \/ /\ failed' = [failed EXCEPT ![r] = failed[r] \cup {branch}] /\ pages' = pages
  PROVE  ScrapeInv'
<1>1. ScrapeOK(r) /\ ScrapeTypes
  BY DEF ScrapeInv
<1>2. /\ pending'[r] = pending[r] \ {branch} /\ branch \in Makers
      /\ \A x \in Scrapes \ {r} : pending'[x] = pending[x]
  BY <1>1 DEF ScrapeTypes, Makers
<1>3. CandidatesOK(request[r], pending'[r], pages'[r])
  <2>1. CASE pages' = pages
    BY <1>1, <1>2, <2>1 DEF ScrapeOK, CandidatesOK
  <2>2. CASE pages' # pages
    <3>1. PICK p : IsCandidate(p) /\ Branch(p) = branch /\ pages'[r] = pages[r] \cup {p}
      BY <1>1, <2>2 DEF ScrapeTypes
    <3>2. QED
      BY <1>1, <1>2, <3>1, OneMoreCandidate DEF ScrapeOK
  <2>3. QED
    BY <2>1, <2>2
<1>4. r \notin cached
  BY <1>1 DEF ScrapeOK
<1>5. ScrapeTypes'
  <2>1. pending' \in [Scrapes -> SUBSET {"bee_engine", "http"}]
    BY <1>1 DEF ScrapeTypes
  <2>2. pages' \in [Scrapes -> SUBSET PageType]
    <3>1. CASE \E p : IsCandidate(p) /\ pages' = [pages EXCEPT ![r] = pages[r] \cup {p}]
      <4>1. PICK p \in PageType : pages' = [pages EXCEPT ![r] = pages[r] \cup {p}]
        BY <3>1 DEF IsCandidate
      <4>2. QED
        BY <1>1, <4>1 DEF ScrapeTypes
    <3>2. QED
      BY <1>1, <3>1 DEF ScrapeTypes
  <2>3. failed' \in [Scrapes -> SUBSET Makers]
    BY <1>1, <1>2 DEF ScrapeTypes
  <2>4. QED
    BY <1>1, <2>1, <2>2, <2>3 DEF ScrapeTypes
<1>6. ScrapeOK(r)'
  BY <1>1, <1>2, <1>3, <1>4 DEF ScrapeOK
<1>7. QED
  BY <1>1, <1>2, <1>5, <1>6, OneScrapeMoves DEF ScrapeTypes

(* What the static fetch and the TLS client hand on is a candidate.        *)
LEMMA FetchedIsCandidate ==
  ASSUME NEW engine \in {"tls_client", "http_static"}, NEW failures \in SUBSET Makers,
         NEW score \in Scores
  PROVE  /\ IsCandidate(FetchedBy(engine, failures, score))
         /\ Branch(FetchedBy(engine, failures, score)) = "http"
<1> DEFINE p == FetchedBy(engine, failures, score)
           os == {<<engine, "success">>} \cup {<<f, "failed">> : f \in failures}
<1>1. os \subseteq Makers \X Verdicts /\ \A o \in os : o = <<engine, "success">> \/ o[2] = "failed"
  BY DEF Makers, Verdicts
<1>2. p = [engine |-> engine, score |-> score, image |-> FALSE, state |-> FALSE,
           acted |-> FALSE, fallback |-> failures # {}, outcomes |-> os]
  BY DEF FetchedBy
<1>3. <<engine, "success">> \in os
  OBVIOUS
<1> HIDE DEF os, p
<1>4. p \in PageType
  BY <1>1, <1>2 DEF PageType, Makers
<1>5. p.engine = engine /\ p.outcomes = os
  BY <1>2
<1>6. QED
  BY <1>1, <1>3, <1>4, <1>5 DEF IsCandidate, Branch, p

(* So is what the rendering hands on.                                      *)
LEMMA RenderedIsCandidate ==
  ASSUME NEW score \in Scores, NEW image \in BOOLEAN, NEW acted \in BOOLEAN, NEW p,
         p = [engine |-> "bee_engine", score |-> score, image |-> image,
              state |-> TRUE, acted |-> acted, fallback |-> FALSE,
              outcomes |-> {<<"bee_engine", "success">>}]
  PROVE  IsCandidate(p) /\ Branch(p) = "bee_engine"
<1>1. p \in PageType
  BY DEF PageType, Makers, Verdicts
<1>2. QED
  BY <1>1 DEF IsCandidate, Branch

(* A row that is served keeps its engine and its image.                    *)
LEMMA ServedPage ==
  ASSUME NEW p \in PageType
  PROVE  FromCache(p) \in PageType /\ FromCache(p).engine = p.engine /\ FromCache(p).image = p.image
<1> DEFINE p1 == [p EXCEPT !.outcomes = {}]
           p2 == [p1 EXCEPT !.fallback = TRUE]
           p3 == [p2 EXCEPT !.state = FALSE]
<1>1. FromCache(p) = p3
  BY DEF FromCache
<1>2. p1 \in PageType /\ p1.engine = p.engine /\ p1.image = p.image
  BY DEF PageType
<1> HIDE DEF p1
<1>3. p2 \in PageType /\ p2.engine = p.engine /\ p2.image = p.image
  BY <1>2 DEF PageType
<1> HIDE DEF p2
<1>4. p3 \in PageType /\ p3.engine = p.engine /\ p3.image = p.image
  BY <1>3 DEF PageType
<1>5. QED
  BY <1>1, <1>4

(* ScrapeInv holds initially. *)
LEMMA ScrapeStart == ScrapeInit => ScrapeInv
  BY DEF ScrapeInit, ScrapeInv, ScrapeTypes, CacheOK, ScrapeOK, CandidatesOK, Points

(* Every step of a scrape, and the ageing of the cache, keeps ScrapeInv.   *)
LEMMA ScrapeStep == ScrapeInv /\ [ScrapeNext]_scrapeVars => ScrapeInv'
<1> SUFFICES ASSUME ScrapeInv, [ScrapeNext]_scrapeVars PROVE ScrapeInv'
  OBVIOUS
<1>1. ScrapeTypes /\ CacheOK /\ \A r \in Scrapes : ScrapeOK(r)
  BY DEF ScrapeInv
<1>2. ASSUME NEW r \in Scrapes, LookupHits(r) PROVE ScrapeInv'
  <2> DEFINE k == CacheKey(request[r])
  <2>1. /\ k \in CacheKeys /\ cache[k] \in PageType /\ k[2] = request[r].mode
        /\ request[r].image => cache[k].image
    BY <1>1, <1>2 DEF LookupHits, Usable, CacheKey, CacheKeys, ScrapeTypes
  <2>2. ModeAllows(request[r].mode, cache[k])
    BY <1>1, <1>2, <2>1 DEF CacheOK, LookupHits, Usable
  <2> DEFINE p == FromCache(cache[k])
  <2>3. p \in PageType /\ p.engine = cache[k].engine /\ p.image = cache[k].image
    BY <2>1, ServedPage
  <2>4. /\ page' = [page EXCEPT ![r] = p] /\ cached' = cached \cup {r}
        /\ at' = [at EXCEPT ![r] = "check"]
        /\ UNCHANGED <<request, pending, failed, pages, cache>>
    BY <1>2 DEF LookupHits
  <2> HIDE DEF p, k
  <2>5. ScrapeTypes'
    BY <1>1, <2>3, <2>4 DEF ScrapeTypes, Points
  <2>6. at'[r] = "check" /\ page'[r] = p /\ r \in cached'
    BY <1>1, <2>4 DEF ScrapeTypes
  <2>7. ScrapeOK(r)'
    BY <1>1, <1>2, <2>1, <2>2, <2>3, <2>4, <2>6 DEF ScrapeOK, ModeAllows, HasImage, LookupHits
  <2>8. QED
    BY <1>1, <2>4, <2>5, <2>7, OneScrapeMoves DEF ScrapeTypes
<1>3. ASSUME NEW r \in Scrapes, LookupMisses(r) PROVE ScrapeInv'
  <2>1. /\ at[r] = "lookup" /\ at' = [at EXCEPT ![r] = "run"]
        /\ pending' = [pending EXCEPT ![r] = Plan(request[r])]
        /\ UNCHANGED <<request, failed, pages, page, cached, cache>>
    BY <1>3 DEF LookupMisses
  <2>2. ScrapeTypes'
    BY <1>1, <2>1 DEF ScrapeTypes, Points, Plan
  <2>3. at'[r] = "run" /\ pending'[r] = Plan(request[r]) /\ pages[r] = {} /\ r \notin cached
    BY <1>1, <2>1 DEF ScrapeTypes, ScrapeOK
  <2>4. ScrapeOK(r)'
    BY <2>1, <2>3 DEF ScrapeOK, CandidatesOK
  <2>5. QED
    BY <1>1, <2>1, <2>2, <2>4, OneScrapeMoves DEF ScrapeTypes
<1>4. ASSUME NEW r \in Scrapes, NEW e \in Engines, RenderAt(r, e) PROVE ScrapeInv'
  <2>1. at[r] = "run" /\ "bee_engine" \in pending[r] /\ UNCHANGED <<request, at, page, cached, cache>>
    BY <1>4 DEF RenderAt, Running
  <2>2. ASSUME NEW score \in Scores, NEW image \in BOOLEAN, NEW p,
               p = [engine |-> "bee_engine", score |-> score, image |-> image,
                    state |-> TRUE, acted |-> request[r].actions, fallback |-> FALSE,
                    outcomes |-> {<<"bee_engine", "success">>}],
               Succeeds(r, "bee_engine", p)
        PROVE  ScrapeInv'
    <3>1. request[r].actions \in BOOLEAN
      BY <1>1 DEF ScrapeTypes, RequestType
    <3>2. IsCandidate(p) /\ Branch(p) = "bee_engine"
      BY <2>2, <3>1, RenderedIsCandidate
    <3>3. QED
      BY <2>1, <2>2, <3>2, BranchEnds DEF Succeeds
  <2>3. ASSUME Fails(r, "bee_engine") PROVE ScrapeInv'
    BY <2>1, <2>3, BranchEnds DEF Fails
  <2>4. CASE UNCHANGED <<pending, failed, pages>>
    BY <1>1, <2>1, <2>4 DEF ScrapeInv, ScrapeTypes, ScrapeOK, CacheOK, HasImage
  <2>5. QED
    BY <1>4, <2>2, <2>3, <2>4 DEF RenderAt
<1>5. ASSUME NEW r \in Scrapes, FetchWithTls(r) \/ FetchStatic(r) PROVE ScrapeInv'
  <2>1. at[r] = "run" /\ "http" \in pending[r] /\ UNCHANGED <<request, at, page, cached, cache>>
    BY <1>5 DEF FetchWithTls, FetchStatic, Running
  <2>2. ASSUME NEW engine \in {"tls_client", "http_static"}, NEW failures \in SUBSET Makers,
               NEW score \in Scores, Succeeds(r, "http", FetchedBy(engine, failures, score))
        PROVE  ScrapeInv'
    <3>1. PICK p : p = FetchedBy(engine, failures, score)
      OBVIOUS
    <3>2. IsCandidate(p) /\ Branch(p) = "http" /\ Succeeds(r, "http", p)
      BY <2>2, <3>1, FetchedIsCandidate
    <3>3. QED
      BY <2>1, <3>2, BranchEnds DEF Succeeds
  <2>3. ASSUME Fails(r, "http") PROVE ScrapeInv'
    BY <2>1, <2>3, BranchEnds DEF Fails
  <2>4. CASE UNCHANGED <<pending, failed, pages>>
    BY <1>1, <2>1, <2>4 DEF ScrapeInv, ScrapeTypes, ScrapeOK, CacheOK, HasImage
  <2>5. {} \in SUBSET Makers /\ (IF TlsClient THEN {"tls_client"} ELSE {}) \in SUBSET Makers
    BY DEF Makers
  <2>6. QED
    BY <1>5, <2>2, <2>3, <2>4, <2>5 DEF FetchWithTls, FetchStatic
<1>6. ASSUME NEW r \in Scrapes, Select(r) PROVE ScrapeInv'
  <2>1. r \notin cached /\ UNCHANGED <<request, pending, failed, pages, cached, cache>>
    BY <1>1, <1>6 DEF Select, ScrapeOK
  <2>2. CASE pages[r] # {}
    <3>1. /\ page' = [page EXCEPT ![r] = Chosen(r)] /\ at' = [at EXCEPT ![r] = "check"]
      BY <1>6, <2>2 DEF Select
    <3>2. /\ Chosen(r) \in PageType /\ ModeAllows(request[r].mode, Chosen(r))
          /\ ReportedTruly(Chosen(r), pages[r], failed[r])
      BY <1>1, <2>2, ChosenSound DEF ScrapeOK
    <3>3. PICK p : p = Chosen(r)
      OBVIOUS
    <3>4. ScrapeTypes' /\ at'[r] = "check" /\ page'[r] = p
      BY <1>1, <2>1, <3>1, <3>2, <3>3 DEF ScrapeTypes, Points
    <3>5. ScrapeOK(r)'
      BY <1>1, <2>1, <3>2, <3>3, <3>4 DEF ScrapeOK
    <3>6. QED
      BY <1>1, <2>1, <3>1, <3>4, <3>5, OneScrapeMoves DEF ScrapeTypes
  <2>3. CASE pages[r] = {}
    <3>1. at' = [at EXCEPT ![r] = "failed"] /\ UNCHANGED page
      BY <1>6, <2>3 DEF Select
    <3>2. ScrapeTypes' /\ at'[r] = "failed"
      BY <1>1, <2>1, <3>1 DEF ScrapeTypes, Points
    <3>3. ScrapeOK(r)'
      BY <1>1, <2>1, <3>1, <3>2 DEF ScrapeOK
    <3>4. QED
      BY <1>1, <2>1, <3>1, <3>2, <3>3, OneScrapeMoves DEF ScrapeTypes
  <2>4. QED
    BY <2>2, <2>3
<1>7. ASSUME NEW r \in Scrapes, Check(r) \/ Answer(r) PROVE ScrapeInv'
  <2>1. UNCHANGED <<request, pending, failed, pages, page, cached, cache>>
    BY <1>7 DEF Check, Answer
  <2>2. PICK next \in {"failed", "answer", "put", "answered"} :
           /\ at' = [at EXCEPT ![r] = next]
           /\ next = "put" => r \notin cached /\ at[r] = "check"
           /\ at[r] \in {"check", "answer"}
    BY <1>7 DEF Check, Answer
  <2>3. ScrapeTypes' /\ at'[r] = next
    BY <1>1, <2>1, <2>2 DEF ScrapeTypes, Points
  <2>4. ScrapeOK(r)'
    BY <1>1, <2>1, <2>2, <2>3 DEF ScrapeOK, HasImage
  <2>5. QED
    BY <1>1, <2>1, <2>2, <2>3, <2>4, OneScrapeMoves DEF ScrapeTypes
<1>8. ASSUME NEW r \in Scrapes, Put(r) PROVE ScrapeInv'
  <2>1. /\ at[r] = "put" /\ at' = [at EXCEPT ![r] = "answer"]
        /\ UNCHANGED <<request, pending, failed, pages, page, cached>>
        /\ \/ cache' = [cache EXCEPT ![CacheKey(request[r])] = page[r]]
           \/ cache' = cache
    BY <1>8 DEF Put
  <2>2. /\ CacheKey(request[r]) \in CacheKeys /\ CacheKey(request[r])[2] = request[r].mode
        /\ page[r] \in PageType /\ ModeAllows(request[r].mode, page[r]) /\ r \notin cached
    BY <1>1, <2>1 DEF CacheKey, CacheKeys, ScrapeTypes, ScrapeOK
  <2>3. CacheOK' /\ cache' \in [CacheKeys -> PageType \cup {NoPage}]
    <3> DEFINE k == CacheKey(request[r])
    <3> HIDE DEF k
    <3>1. k \in CacheKeys /\ k[2] = request[r].mode
      BY <2>2 DEF k
    <3>2. cache' = [cache EXCEPT ![k] = page[r]] \/ cache' = cache
      BY <2>1 DEF k
    <3>3. QED
      BY <1>1, <2>2, <3>1, <3>2 DEF CacheOK, ScrapeTypes
  <2>4. ScrapeTypes' /\ at'[r] = "answer"
    BY <1>1, <2>1, <2>3 DEF ScrapeTypes, Points
  <2>5. ScrapeOK(r)'
    BY <1>1, <2>1, <2>2, <2>4 DEF ScrapeOK
  <2>6. ASSUME NEW x \in Scrapes \ {r} PROVE ScrapeOK(x)'
    BY <1>1, <2>1, <2>6 DEF ScrapeOK, ScrapeTypes, HasImage
  <2>7. QED
    BY <2>3, <2>4, <2>5, <2>6 DEF ScrapeInv
<1>9. ASSUME UNCHANGED <<request, at, pending, failed, pages, page, cached>>,
             cache' = cache \/ CacheCleanup
      PROVE  ScrapeInv'
  <2>1. \A r \in Scrapes : ScrapeOK(r)'
    BY <1>1, <1>9 DEF ScrapeOK, HasImage
  <2>2. ScrapeTypes' /\ CacheOK'
    BY <1>1, <1>9 DEF ScrapeTypes, CacheOK, CacheCleanup
  <2>3. QED
    BY <2>1, <2>2 DEF ScrapeInv
<1>10. QED
  BY <1>2, <1>3, <1>4, <1>5, <1>6, <1>7, <1>8, <1>9
     DEF ScrapeNext, scrapeVars, GoesStale, Lapses, CacheCleanup

(* What the cache serves is a page the request could have got itself: for  *)
(* any number of scrapes, targets and engines, and any order in which rows *)
(* are written, age and are cleaned up.                                    *)
THEOREM CacheTheorem == ScrapeSpec => []CachedPagePossible
<1>1. ScrapeInv => CachedPagePossible
  BY DEF ScrapeInv, ScrapeTypes, ScrapeOK, CachedPagePossible, ModeAllows
<1>2. QED
  BY <1>1, ScrapeStart, ScrapeStep, PTL DEF ScrapeSpec

(* The engines are reported truly, whichever engine comes back first and   *)
(* whichever of them fail.                                                 *)
THEOREM SelectionTheorem == ScrapeSpec => []SelectionSound
<1>1. ScrapeInv => SelectionSound
  <2>1. ScrapeInv => \A r \in Scrapes \ cached :
           at[r] \in {"check", "put", "answer", "answered"} =>
              ReportedTruly(page[r], pages[r], failed[r])
    BY DEF ScrapeInv, ScrapeOK
  <2>2. QED
    BY <2>1 DEF SelectionSound, ReportedTruly
<1>2. QED
  BY <1>1, ScrapeStart, ScrapeStep, PTL DEF ScrapeSpec
=============================================================================
