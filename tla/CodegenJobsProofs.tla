------------------------- MODULE CodegenJobsProofs -------------------------
(***************************************************************************)
(* Theorems about CodegenJobs, for every number of jobs, users and         *)
(* requests, every TTL, with and without faults.                           *)
(***************************************************************************)
EXTENDS CodegenJobs, TLAPS

RedisType ==
    /\ redis \in [Jobs -> [Keys -> Entries]]
    /\ \A j \in Jobs : redis[j]["state"].val \in Phases \cup {Nil}
RequestType ==
    /\ req \in [Requests -> RequestRecords]
    /\ \A r \in Requests : req[r] = IdleRequest \/ req[r].job \in Jobs

-----------------------------------------------------------------------------
(* What the three ways to change Redis do.                                  *)

\* A write changes one key of one job and keeps the type of the store.
LEMMA SetEffect ==
    ASSUME RedisType, NEW j \in Jobs, NEW k \in Keys, NEW v \in Values, Set(j, k, v),
           k = "state" => v \in Phases
    PROVE  /\ RedisType'
           /\ redis'[j][k] = [val |-> v, ttl |-> TTL]
           /\ \A i \in Jobs, l \in Keys : i # j \/ l # k => redis'[i][l] = redis[i][l]
<1>1. [val |-> v, ttl |-> TTL] \in Entries
  BY TTLAssumption DEF Entries
<1>2. redis' \in [Jobs -> [Keys -> Entries]]
  BY <1>1 DEF RedisType, Set
<1>3. redis'[j][k] = [val |-> v, ttl |-> TTL]
  BY <1>1 DEF RedisType, Set
<1>4. \A i \in Jobs, l \in Keys : i # j \/ l # k => redis'[i][l] = redis[i][l]
  BY DEF RedisType, Set
<1>5. \A i \in Jobs : redis'[i]["state"].val \in Phases \cup {Nil}
  BY <1>3, <1>4 DEF RedisType, Keys
<1> QED
  BY <1>2, <1>3, <1>4, <1>5 DEF RedisType

\* A deletion changes only the named keys of one job, and keeps the type.
LEMMA DelEffect ==
    ASSUME RedisType, NEW j \in Jobs, NEW ks \in SUBSET Keys, Del(j, ks)
    PROVE  /\ RedisType'
           /\ \A l \in ks : redis'[j][l] = Missing
           /\ \A i \in Jobs, l \in Keys : i # j \/ l \notin ks => redis'[i][l] = redis[i][l]
<1>1. Missing \in Entries
  BY TTLAssumption DEF Entries, Missing, Values
<1>2. [k \in Keys |-> IF k \in ks THEN Missing ELSE redis[j][k]] \in [Keys -> Entries]
  BY <1>1 DEF RedisType
<1>3. redis' \in [Jobs -> [Keys -> Entries]]
  BY <1>2 DEF RedisType, Del
<1>4. /\ \A l \in ks : redis'[j][l] = Missing
      /\ \A i \in Jobs, l \in Keys : i # j \/ l \notin ks => redis'[i][l] = redis[i][l]
  BY DEF RedisType, Del
<1>5. \A i \in Jobs : redis'[i]["state"].val \in Phases \cup {Nil}
  BY <1>4 DEF RedisType, Keys, Missing
<1> QED
  BY <1>3, <1>4, <1>5 DEF RedisType

\* The clock keeps every value and the type.
LEMMA TickEffect ==
    ASSUME RedisType, Tick
    PROVE  /\ RedisType'
           /\ \A i \in Jobs, l \in Keys : redis'[i][l].val = redis[i][l].val
           /\ \A i \in Jobs, l \in Keys : redis[i][l].ttl = 0 => redis'[i][l].ttl = 0
<1>1. \A i \in Jobs, l \in Keys :
         [val |-> redis[i][l].val,
          ttl |-> IF redis[i][l].ttl = 0 THEN 0 ELSE redis[i][l].ttl - 1] \in Entries
  <2> SUFFICES ASSUME NEW i \in Jobs, NEW l \in Keys
               PROVE  /\ redis[i][l].val \in Values
                      /\ (IF redis[i][l].ttl = 0 THEN 0 ELSE redis[i][l].ttl - 1) \in 0..TTL
    BY DEF Entries
  <2>1. redis[i][l].val \in Values /\ redis[i][l].ttl \in 0..TTL
    BY DEF RedisType, Entries
  <2> QED
    BY <2>1, TTLAssumption
<1> QED
  BY <1>1 DEF RedisType, Tick, Keys

-----------------------------------------------------------------------------
(* Types.                                                                   *)

\* The constants the code writes are values, states and events.
LEMMA Constants ==
    /\ {"queued", "running", "done", "failed", "cancelled", "task", "message"} \subseteq Values
    /\ {"state", "userId", "taskId", "result", "error"} = Keys
    /\ {"cancelled", "failed", "none", "notFound", "infra", "result", "missing",
        "failedBare", "cancelOk"} \subseteq Events
    /\ Phases \subseteq Events
    /\ {"queued", "running", "done", "failed", "cancelled"} = Phases
    /\ Nil \notin Phases /\ Nil \notin Users
BY NilAssumption DEF Values, Phases, Keys, Events

\* What the ways a request moves on do to its record.
LEMMA RequestMoves ==
    ASSUME req \in [Requests -> RequestRecords], NEW r \in Requests
    PROVE  /\ \A to : Goto(r, to) =>
                 req' = [q \in Requests |-> IF q = r THEN req'[r] ELSE req[q]]
                 /\ req'[r].pc = to /\ req'[r].event = req[r].event
                 /\ req'[r].kind = req[r].kind /\ req'[r].user = req[r].user
                 /\ req'[r].job = req[r].job /\ req'[r].gone = req[r].gone
           /\ \A e : Reply(r, e) \/ Finish(r, e) =>
                 req' = [q \in Requests |-> IF q = r THEN req'[r] ELSE req[q]]
                 /\ req'[r].pc \in {"closed", "fastEnd"} /\ req'[r].event = e
                 /\ req'[r].kind = req[r].kind /\ req'[r].user = req[r].user
                 /\ req'[r].job = req[r].job /\ req'[r].gone = req[r].gone
<1>1. ASSUME NEW to, Goto(r, to)
      PROVE  req' = [q \in Requests |-> IF q = r THEN req'[r] ELSE req[q]]
             /\ req'[r].pc = to /\ req'[r].event = req[r].event
             /\ req'[r].kind = req[r].kind /\ req'[r].user = req[r].user
             /\ req'[r].job = req[r].job /\ req'[r].gone = req[r].gone
  BY <1>1 DEF Goto, RequestRecords
<1>2. ASSUME NEW to, NEW e, req' = [req EXCEPT ![r] = [@ EXCEPT !.pc = to, !.event = e]]
      PROVE  req' = [q \in Requests |-> IF q = r THEN req'[r] ELSE req[q]]
             /\ req'[r].pc = to /\ req'[r].event = e
             /\ req'[r].kind = req[r].kind /\ req'[r].user = req[r].user
             /\ req'[r].job = req[r].job /\ req'[r].gone = req[r].gone
  BY <1>2 DEF RequestRecords
<1>3. ASSUME NEW e, Reply(r, e)
      PROVE  req' = [q \in Requests |-> IF q = r THEN req'[r] ELSE req[q]]
             /\ req'[r].pc \in {"closed", "fastEnd"} /\ req'[r].event = e
             /\ req'[r].kind = req[r].kind /\ req'[r].user = req[r].user
             /\ req'[r].job = req[r].job /\ req'[r].gone = req[r].gone
  BY <1>2, <1>3 DEF Reply
<1>4. ASSUME NEW e, Finish(r, e)
      PROVE  req' = [q \in Requests |-> IF q = r THEN req'[r] ELSE req[q]]
             /\ req'[r].pc \in {"closed", "fastEnd"} /\ req'[r].event = e
             /\ req'[r].kind = req[r].kind /\ req'[r].user = req[r].user
             /\ req'[r].job = req[r].job /\ req'[r].gone = req[r].gone
  BY <1>2, <1>4 DEF Finish
<1> QED
  BY <1>1, <1>3, <1>4

\* A request that is not idle names a job.
LEMMA RequestJob ==
    ASSUME RequestType
    PROVE  \A r \in Requests : req[r].pc # "idle" => req[r].job \in Jobs
BY DEF RequestType, IdleRequest

LEMMA SubmitTypes ==
    ASSUME TypeOK, NEW j \in Jobs, SubmitStep(j)
    PROVE  TypeOK'
<1>1. RedisType
  BY DEF TypeOK, RedisType
<1>2. submit[j].user \in Users \cup {Nil} /\ submit[j].user \in Values
  BY DEF TypeOK, Submits, Values
<1>3. \A from, to \in SubmitPcs : SubmitGoto(j, from, to) => submit' \in [Jobs -> Submits]
  BY DEF SubmitGoto, Submits, TypeOK
<1>4. CASE PrimeState(j)
  <2>1. RedisType'
    BY <1>1, <1>4, SetEffect, Constants DEF PrimeState, SetFails, RedisType
  <2> QED
    BY <1>3, <1>4, <2>1 DEF PrimeState, TypeOK, SubmitPcs, RedisType
<1>5. CASE PrimeUser(j)
  <2>1. RedisType'
    BY <1>1, <1>2, <1>5, SetEffect, Constants DEF PrimeUser, SetFails, RedisType
  <2> QED
    BY <1>3, <1>5, <2>1 DEF PrimeUser, TypeOK, SubmitPcs, RedisType
<1>6. CASE Enqueue(j)
  <2>1. worker' \in [Jobs -> Workers]
    <3>1. [worker EXCEPT ![j].pc = "pending"] \in [Jobs -> Workers]
      BY DEF Workers, WorkerPcs, TypeOK
    <3> QED
      BY <1>6, <3>1 DEF Enqueue, TypeOK
  <2> QED
    BY <1>3, <1>6, <2>1 DEF Enqueue, TypeOK, SubmitPcs
<1>7. CASE Rollback(j)
  <2>1. RedisType'
    BY <1>1, <1>7, DelEffect, Constants DEF Rollback, RedisType
  <2> QED
    BY <1>3, <1>7, <2>1 DEF Rollback, TypeOK, SubmitPcs, RedisType
<1>8. CASE RecordTask(j)
  <2>1. RedisType'
    BY <1>1, <1>8, SetEffect, Constants DEF RecordTask, SetFails, RedisType
  <2> QED
    BY <1>3, <1>8, <2>1 DEF RecordTask, TypeOK, SubmitPcs, RedisType
<1> QED
  BY <1>4, <1>5, <1>6, <1>7, <1>8 DEF SubmitStep

\* A step of the handler keeps the worker's type and, through its writes, the store's.
LEMMA HandlerTypes ==
    ASSUME TypeOK, NEW j \in Jobs, HandlerStep(j)
    PROVE  TypeOK'
<1>1. RedisType
  BY DEF TypeOK, RedisType
<1>2. ASSUME NEW k \in Keys, NEW v \in Values, k = "state" => v \in Phases,
             PutOk(j, k, v) \/ PutFails(j, k, v)
      PROVE  RedisType'
  BY <1>1, <1>2, SetEffect DEF PutOk, PutFails, SetFails, RedisType
<1>3. \A from, to \in WorkerPcs : WorkerGoto(j, from, to) => worker' \in [Jobs -> Workers]
  <2>1. \A to \in WorkerPcs : [worker EXCEPT ![j].pc = to] \in [Jobs -> Workers]
    BY DEF Workers, TypeOK
  <2> QED
    BY <2>1 DEF WorkerGoto
<1>4. GiveUp(j) => worker' \in [Jobs -> Workers]
  <2>1. worker[j].ctxDone \in BOOLEAN
    BY DEF TypeOK, Workers
  <2>2. [worker[j] EXCEPT !.pc = "putError", !.detached = worker[j].ctxDone] \in Workers
    BY <2>1 DEF TypeOK, Workers, WorkerPcs, Busy
  <2> QED
    BY <2>2 DEF GiveUp, TypeOK
<1>5. worker[j].resp \in Values
  BY DEF TypeOK, Workers, Values
<1>6. /\ UNCHANGED <<submit, cancelSig, req>>
      /\ RedisType' \/ UNCHANGED redis
      /\ worker' \in [Jobs -> Workers]
  <2>1. CASE MarkRunning(j)
    BY <1>2, <1>3, <2>1, Constants DEF MarkRunning, WorkerPcs, Busy
  <2>2. CASE Decode(j)
    <3>1. [worker EXCEPT ![j] = [@ EXCEPT !.pc = "putResult", !.resp = "complete"]]
             \in [Jobs -> Workers]
      BY DEF TypeOK, Workers, WorkerPcs, Busy
    <3>2. [worker EXCEPT ![j].pc = "early"] \in [Jobs -> Workers]
      BY DEF TypeOK, Workers, WorkerPcs, Busy
    <3> QED
      BY <1>4, <2>2, <3>1, <3>2 DEF Decode
  <2>3. CASE EarlyCheck(j)
    BY <1>3, <1>4, <2>3 DEF EarlyCheck, WorkerPcs, Busy
  <2>4. CASE Delay(j)
    BY <1>3, <2>4 DEF Delay, WorkerPcs, Busy
  <2>5. CASE Generate(j)
    <3>1. \A s \in {"complete", "partial"} :
             [worker EXCEPT ![j] = [@ EXCEPT !.pc = "late", !.resp = s]] \in [Jobs -> Workers]
      BY DEF TypeOK, Workers, WorkerPcs, Busy
    <3> QED
      BY <1>4, <2>5, <3>1 DEF Generate
  <2>6. CASE LateCheck(j)
    BY <1>3, <1>4, <2>6 DEF LateCheck, WorkerPcs, Busy
  <2>7. CASE PutResult(j)
    BY <1>2, <1>3, <1>5, <2>7, Constants DEF PutResult, WorkerPcs, Busy
  <2>8. CASE PutDone(j)
    BY <1>2, <1>3, <2>8, Constants DEF PutDone, WorkerPcs, Busy
  <2>9. CASE PutError(j)
    BY <1>2, <1>3, <2>9, Constants DEF PutError, WorkerPcs, Busy
  <2>10. CASE PutFailed(j)
    BY <1>2, <1>3, <2>10, Constants DEF PutFailed, WorkerPcs, Busy
  <2> QED
    BY <2>1, <2>2, <2>3, <2>4, <2>5, <2>6, <2>7, <2>8, <2>9, <2>10 DEF HandlerStep
<1> QED
  BY <1>1, <1>6 DEF TypeOK, RedisType

\* A step of a request keeps the type of its record and of the store.
LEMMA RequestTypes ==
    ASSUME TypeOK, NEW r \in Requests, RequestStep(r)
    PROVE  TypeOK'
<1>1. RedisType /\ RequestType
  BY DEF TypeOK, RedisType, RequestType
<1>2. ASSUME NEW to \in RequestPcs \ {"idle"}, req[r].pc # "idle", Goto(r, to)
      PROVE  RequestType'
  <2>1. req[r].job \in Jobs
    BY <1>1, <1>2, RequestJob
  <2>2. req' \in [Requests -> RequestRecords]
    BY <1>1, <1>2 DEF Goto, RequestRecords, RequestType
  <2> QED
    BY <1>1, <1>2, <2>1, <2>2, RequestMoves DEF RequestType
<1>3. ASSUME NEW to \in RequestPcs \ {"idle"}, NEW e \in Events, req[r].pc # "idle",
             req' = [req EXCEPT ![r] = [@ EXCEPT !.pc = to, !.event = e]]
      PROVE  RequestType'
  <2>1. req[r].job \in Jobs
    BY <1>1, <1>3, RequestJob
  <2>2. req' \in [Requests -> RequestRecords]
    BY <1>1, <1>3 DEF RequestRecords, RequestType
  <2>3. req'[r].job = req[r].job
    BY <1>1, <1>3 DEF RequestRecords, RequestType
  <2>4. \A q \in Requests : q # r => req'[q] = req[q]
    BY <1>1, <1>3 DEF RequestType
  <2> QED
    BY <1>1, <2>1, <2>2, <2>3, <2>4 DEF RequestType
<1>4. ASSUME NEW e \in Events, req[r].pc # "idle", Reply(r, e) \/ Finish(r, e)
      PROVE  RequestType'
  <2>1. CASE Reply(r, e)
    BY <1>3, <1>4, <2>1 DEF Reply, RequestPcs
  <2>2. CASE Finish(r, e)
    <3>1. (IF req[r].loop THEN "closed" ELSE "fastEnd") \in RequestPcs \ {"idle"}
      BY DEF RequestPcs
    <3> QED
      BY <1>3, <1>4, <2>2, <3>1 DEF Finish
  <2> QED
    BY <1>4, <2>1, <2>2
<1>5. req[r].kind \in Kinds
  BY DEF TypeOK, RequestRecords
<1>6. /\ RequestType'
      /\ RedisType'
      /\ cancelSig' \in [Jobs -> {"none", "sent", "seen"}]
      /\ UNCHANGED <<submit, worker>>
  <2> USE <1>1
  <2>1. UNCHANGED redis => RedisType'
    BY DEF RedisType
  <2>2. cancelSig \in [Jobs -> {"none", "sent", "seen"}]
    BY DEF TypeOK
  <2>3. CASE Gate(r)
    BY <1>2, <1>4, <1>5, <2>1, <2>2, <2>3, Constants DEF Gate, Kinds, RequestPcs
  <2>4. CASE ReadState(r)
    <3>1. CASE req' = [req EXCEPT ![r].loop = TRUE]
      <4>1. req[r].job \in Jobs
        BY <2>4, RequestJob DEF ReadState
      <4>2. req' \in [Requests -> RequestRecords] /\ req'[r].job = req[r].job
        BY <3>1 DEF RequestRecords, RequestType
      <4>3. \A q \in Requests : q # r => req'[q] = req[q]
        BY <3>1 DEF RequestType
      <4>4. RequestType'
        BY <4>1, <4>2, <4>3 DEF RequestType
      <4> QED
        BY <2>1, <2>2, <2>4, <4>4 DEF ReadState
    <3> QED
      BY <1>2, <1>4, <2>1, <2>2, <2>4, <3>1, Constants DEF ReadState, RequestPcs
  <2>5. CASE ReadResult(r)
    BY <1>4, <2>1, <2>2, <2>5, Constants DEF ReadResult
  <2>6. CASE ReadError(r)
    BY <1>4, <2>1, <2>2, <2>6, Constants DEF ReadError
  <2>7. CASE LoopGone(r)
    BY <1>2, <2>1, <2>2, <2>7 DEF LoopGone, RequestPcs
  <2>8. CASE FastEnd(r)
    BY <1>2, <2>1, <2>2, <2>8 DEF FastEnd, RequestPcs
  <2>9. CASE FindTask(r)
    BY <1>2, <1>4, <2>1, <2>2, <2>9, Constants DEF FindTask, RequestPcs
  <2>10. CASE SendCancel(r)
    BY <1>2, <2>1, <2>2, <2>10 DEF SendCancel, RequestPcs
  <2>11. CASE MarkCancelled(r)
    <3>1. req[r].job \in Jobs
      BY <2>11, RequestJob DEF MarkCancelled
    <3>2. RedisType'
      BY <2>1, <2>11, <3>1, SetEffect, Constants DEF MarkCancelled, SetFails
    <3> QED
      BY <1>2, <1>4, <2>2, <2>11, <3>2, Constants DEF MarkCancelled, RequestPcs
  <2>12. CASE Query(r)
    <3>1. Get(req[r].job, "state") \in Phases \cup {Nil}
      <4>1. req[r].job \in Jobs
        BY <2>12, RequestJob DEF Query
      <4> QED
        BY <4>1 DEF RedisType, Get
    <3> QED
      BY <1>4, <2>1, <2>2, <2>12, <3>1, Constants DEF Query
  <2> QED
    BY <2>3, <2>4, <2>5, <2>6, <2>7, <2>8, <2>9, <2>10, <2>11, <2>12 DEF RequestStep
<1> QED
  BY <1>6 DEF TypeOK, RedisType, RequestType

\* The types of the variables hold in every reachable state.
THEOREM TypeCorrect == Spec => []TypeOK
<1>1. Init => TypeOK
  <2> SUFFICES ASSUME Init PROVE TypeOK
    OBVIOUS
  <2>1. Missing \in Entries
    BY TTLAssumption DEF Missing, Entries, Values
  <2>2. IdleRequest \in RequestRecords
    BY DEF IdleRequest, RequestRecords, RequestPcs, Kinds, Events
  <2>3. [pc |-> "none", ctxDone |-> FALSE, detached |-> FALSE, resp |-> Nil] \in Workers
    BY DEF Workers, WorkerPcs
  <2>4. [pc |-> "none", user |-> Nil] \in Submits
    BY DEF Submits, SubmitPcs
  <2>5. redis \in [Jobs -> [Keys -> Entries]]
        /\ \A j \in Jobs : redis[j]["state"].val \in Phases \cup {Nil}
    BY <2>1 DEF Init, Keys, Missing
  <2> QED
    BY <2>2, <2>3, <2>4, <2>5 DEF Init, TypeOK, IdleRequest
<1>2. TypeOK /\ [Next]_vars => TypeOK'
  <2> SUFFICES ASSUME TypeOK, [Next]_vars PROVE TypeOK'
    OBVIOUS
  <2>1. ASSUME NEW j \in Jobs, NEW u \in Users, SubmitArrive(j, u)
        PROVE  TypeOK'
    <3>1. [pc |-> "primeState", user |-> u] \in Submits
      BY DEF Submits, SubmitPcs
    <3> QED
      BY <2>1, <3>1 DEF SubmitArrive, TypeOK
  <2>2. ASSUME NEW j \in Jobs, Dequeue(j) \/ Timeout(j) \/ DeliverCancel(j) \/ Crash(j)
        PROVE  TypeOK'
    <3>1. \A to \in WorkerPcs : [worker EXCEPT ![j].pc = to] \in [Jobs -> Workers]
      BY DEF Workers, TypeOK
    <3>2. \A b \in BOOLEAN : [worker EXCEPT ![j].ctxDone = b] \in [Jobs -> Workers]
      BY DEF Workers, TypeOK
    <3>3. CASE Dequeue(j) \/ Crash(j)
      <4>1. worker' \in [Jobs -> Workers]
        BY <3>1, <3>3 DEF Dequeue, WorkerGoto, Crash, WorkerPcs, Busy
      <4> QED
        BY <3>3, <4>1 DEF Dequeue, Crash, TypeOK
    <3>4. CASE Timeout(j)
      BY <3>2, <3>4 DEF Timeout, TypeOK
    <3>5. CASE DeliverCancel(j)
      <4>1. (worker[j].ctxDone \/ worker[j].pc \in Busy) \in BOOLEAN
        OBVIOUS
      <4>2. worker' \in [Jobs -> Workers]
        BY <3>2, <3>5, <4>1 DEF DeliverCancel
      <4>3. cancelSig' \in [Jobs -> {"none", "sent", "seen"}]
        BY <3>5 DEF DeliverCancel, TypeOK
      <4> QED
        BY <3>5, <4>2, <4>3 DEF DeliverCancel, TypeOK
    <3> QED
      BY <2>2, <3>3, <3>4, <3>5
  <2>3. ASSUME NEW r \in Requests, NEW kind \in Kinds, NEW u \in Users, NEW j \in Jobs,
               Arrive(r, kind, u, j)
        PROVE  TypeOK'
    <3>1. [pc |-> "gate", kind |-> kind, user |-> u, job |-> j,
           loop |-> FALSE, gone |-> FALSE, event |-> "none"] \in RequestRecords
      BY DEF RequestRecords, RequestPcs, Events
    <3> QED
      BY <2>3, <3>1 DEF Arrive, TypeOK
  <2>4. ASSUME NEW r \in Requests, Leave(r) \/ Recycle(r)
        PROVE  TypeOK'
    <3>1. CASE Leave(r)
      <4>1. RequestType /\ req[r].job \in Jobs
        BY <3>1, RequestJob DEF Leave, TypeOK, RequestType
      <4>2. req' \in [Requests -> RequestRecords] /\ req'[r].job = req[r].job
        BY <3>1 DEF Leave, TypeOK, RequestRecords
      <4>3. \A q \in Requests : q # r => req'[q] = req[q]
        BY <3>1 DEF Leave, TypeOK
      <4>4. RequestType'
        BY <4>1, <4>2, <4>3 DEF RequestType
      <4> QED
        BY <3>1, <4>4 DEF Leave, TypeOK, RequestType
    <3>2. CASE Recycle(r)
      <4>1. IdleRequest \in RequestRecords
        BY DEF IdleRequest, RequestRecords, RequestPcs, Kinds, Events
      <4> QED
        BY <3>2, <4>1 DEF Recycle, TypeOK, IdleRequest
    <3> QED
      BY <2>4, <3>1, <3>2
  <2>5. CASE Tick
    <3>1. RedisType'
      BY <2>5, TickEffect DEF TypeOK, RedisType
    <3> QED
      BY <2>5, <3>1 DEF Tick, TypeOK, RedisType
  <2>6. CASE UNCHANGED vars
    BY <2>6 DEF vars, TypeOK
  <2> QED
    BY <2>1, <2>2, <2>3, <2>4, <2>5, <2>6, SubmitTypes, HandlerTypes, RequestTypes
       DEF Next, JobStep, ClientStep
<1> QED
  BY <1>1, <1>2, PTL DEF Spec
-----------------------------------------------------------------------------
(* Publication: what the worker writes, and in which order.                 *)

PubJob(j) ==
    /\ worker[j].pc = "late" /\ ~worker[j].ctxDone => worker[j].resp = "complete"
    /\ worker[j].pc = "putResult" => worker[j].resp = "complete"
    /\ worker[j].pc = "putDone" => redis[j]["result"].val = "complete"
    /\ redis[j]["result"].val \in {Nil, "complete"}
    /\ redis[j]["state"].val = "done" => redis[j]["result"].val = "complete"

PubReq(r) ==
    /\ req[r].pc = "readResult" => redis[req[r].job]["result"].val = "complete"
    /\ req[r].event = "missing" /\ ~RedisFaults =>
          redis[req[r].job]["result"].val = "complete"

LEMMA PublicationParts ==
    Publication <=> (\A j \in Jobs : PubJob(j)) /\ (\A r \in Requests : PubReq(r))
BY DEF Publication, PubJob, PubReq, NoPartialResult, DoneHasResult, MissingOnlyAfterExpiry

\* What every step does to the results: none is partial, none is lost, and
\* whatever is marked done has one.
ResultsKept ==
    \A i \in Jobs :
        /\ redis'[i]["result"].val \in {Nil, "complete"}
        /\ redis[i]["result"].val = "complete" => redis'[i]["result"].val = "complete"
        /\ redis'[i]["state"].val = "done" => redis'[i]["result"].val = "complete"

\* A write that is not a partial result and not an early "done" keeps every job's part.
LEMMA PubWrite ==
    ASSUME TypeOK, NEW j \in Jobs, NEW k \in Keys, NEW v \in Values,
           \A i \in Jobs : PubJob(i),
           k = "state" => v \in Phases,
           k = "result" => v = "complete",
           k = "state" /\ v = "done" => redis[j]["result"].val = "complete",
           Set(j, k, v) \/ UNCHANGED redis
    PROVE  ResultsKept
<1>1. RedisType
  BY DEF TypeOK, RedisType
<1>2. CASE Set(j, k, v)
  <2>1. /\ redis'[j][k] = [val |-> v, ttl |-> TTL]
        /\ \A i \in Jobs, l \in Keys : i # j \/ l # k => redis'[i][l] = redis[i][l]
    BY <1>1, <1>2, SetEffect
  <2>2. SUFFICES ASSUME NEW i \in Jobs
                 PROVE  /\ redis'[i]["result"].val \in {Nil, "complete"}
                        /\ redis[i]["result"].val = "complete" =>
                              redis'[i]["result"].val = "complete"
                        /\ redis'[i]["state"].val = "done" =>
                              redis'[i]["result"].val = "complete"
    BY DEF ResultsKept
  <2>3. CASE i # j
    BY <2>1, <2>3 DEF PubJob, Keys
  <2>4. CASE i = j /\ k = "result"
    BY <2>1, <2>4 DEF PubJob, Keys
  <2>5. CASE i = j /\ k = "state"
    BY <2>1, <2>5 DEF PubJob, Keys
  <2>6. CASE i = j /\ k \notin {"result", "state"}
    BY <2>1, <2>6 DEF PubJob, Keys
  <2> QED
    BY <2>3, <2>4, <2>5, <2>6
<1>3. CASE UNCHANGED redis
  BY <1>3 DEF PubJob, ResultsKept
<1> QED
  BY <1>2, <1>3

LEMMA PubSubmit ==
    ASSUME TypeOK, \A i \in Jobs : PubJob(i), NEW j \in Jobs, SubmitStep(j)
    PROVE  ResultsKept
<1>1. submit[j].user \in Values
  BY DEF TypeOK, Submits, Values
<1>2. CASE PrimeState(j)
  BY <1>2, PubWrite, Constants DEF PrimeState, SetFails
<1>3. CASE PrimeUser(j)
  BY <1>1, <1>3, PubWrite, Constants DEF PrimeUser, SetFails
<1>4. CASE Enqueue(j)
  BY <1>4 DEF Enqueue, ResultsKept, PubJob
<1>5. CASE Rollback(j)
  <2>1. CASE UNCHANGED redis
    BY <2>1 DEF ResultsKept, PubJob
  <2>2. ASSUME NEW ks \in SUBSET {"state", "userId"}, "state" \in ks, Del(j, ks)
        PROVE  ResultsKept
    <3>1. /\ redis'[j]["state"] = Missing
          /\ \A i \in Jobs : redis'[i]["result"] = redis[i]["result"]
          /\ \A i \in Jobs : i # j => redis'[i]["state"] = redis[i]["state"]
      <4>1. ks \in SUBSET Keys /\ "result" \notin ks /\ "result" \in Keys /\ "state" \in Keys
        BY <2>2, Constants
      <4>2. RedisType
        BY DEF TypeOK, RedisType
      <4> QED
        BY <2>2, <4>1, <4>2, DelEffect
    <3>2. Nil # "done"
      BY Constants
    <3> QED
      BY <3>1, <3>2 DEF ResultsKept, PubJob, Missing
  <2> QED
    BY <1>5, <2>1, <2>2 DEF Rollback
<1>6. CASE RecordTask(j)
  BY <1>6, PubWrite, Constants DEF RecordTask, SetFails
<1> QED
  BY <1>2, <1>3, <1>4, <1>5, <1>6 DEF SubmitStep

LEMMA PubHandler ==
    ASSUME TypeOK, \A i \in Jobs : PubJob(i), NEW j \in Jobs, HandlerStep(j)
    PROVE  ResultsKept /\ \A i \in Jobs : PubJob(i)'
<1>1. worker \in [Jobs -> Workers]
  BY DEF TypeOK
<1>2. ASSUME NEW k \in Keys, NEW v \in Values, k # "result", v # "done",
             k = "state" => v \in Phases,
             PutOk(j, k, v) \/ PutFails(j, k, v)
      PROVE  ResultsKept
  BY <1>2, PubWrite DEF PutOk, PutFails, SetFails
<1>3. UNCHANGED redis => ResultsKept
  BY DEF ResultsKept, PubJob
<1>4. \A i \in Jobs : i # j => worker'[i] = worker[i]
  BY <1>1 DEF HandlerStep, MarkRunning, Decode, EarlyCheck, Delay, Generate, LateCheck,
              PutResult, PutDone, PutError, PutFailed, WorkerGoto, GiveUp
<1>5. ASSUME ResultsKept,
             /\ worker'[j].pc = "late" /\ ~worker'[j].ctxDone => worker'[j].resp = "complete"
             /\ worker'[j].pc = "putResult" => worker'[j].resp = "complete"
             /\ worker'[j].pc = "putDone" => redis'[j]["result"].val = "complete"
      PROVE  ResultsKept /\ \A i \in Jobs : PubJob(i)'
  BY <1>4, <1>5 DEF ResultsKept, PubJob
<1>6. CASE MarkRunning(j)
  BY <1>1, <1>2, <1>5, <1>6, Constants DEF MarkRunning, WorkerGoto, Workers
<1>7. CASE Decode(j)
  <2>1. CASE GiveUp(j)
    <3>1. worker'[j].pc = "putError"
      BY <1>1, <2>1 DEF GiveUp, Workers
    <3> QED
      BY <1>3, <1>5, <1>7, <3>1 DEF Decode
  <2>2. CASE worker' = [worker EXCEPT ![j] = [@ EXCEPT !.pc = "putResult", !.resp = "complete"]]
    <3>1. worker'[j].pc = "putResult" /\ worker'[j].resp = "complete"
      BY <1>1, <2>2 DEF Workers
    <3> QED
      BY <1>3, <1>5, <1>7, <3>1 DEF Decode
  <2>3. CASE worker' = [worker EXCEPT ![j].pc = "early"]
    <3>1. worker'[j].pc = "early"
      BY <1>1, <2>3 DEF Workers
    <3> QED
      BY <1>3, <1>5, <1>7, <3>1 DEF Decode
  <2> QED
    BY <1>7, <2>1, <2>2, <2>3 DEF Decode
<1>8. CASE EarlyCheck(j)
  <2>1. CASE worker[j].ctxDone
    <3>1. GiveUp(j) /\ UNCHANGED redis
      BY <1>8, <2>1 DEF EarlyCheck
    <3>2. worker'[j].pc = "putError"
      BY <1>1, <3>1 DEF GiveUp, Workers
    <3> QED
      BY <1>3, <1>5, <3>1, <3>2
  <2>2. CASE ~worker[j].ctxDone
    <3>1. worker'[j].pc \in {"delay", "generate"}
      BY <1>1, <1>8, <2>2 DEF EarlyCheck, WorkerGoto, Workers
    <3> QED
      BY <1>3, <1>5, <1>8, <3>1 DEF EarlyCheck
  <2> QED
    BY <2>1, <2>2
<1>9. CASE Delay(j)
  BY <1>1, <1>3, <1>5, <1>9 DEF Delay, WorkerGoto, Workers
<1>10. CASE Generate(j)
  <2>1. CASE GiveUp(j)
    <3>1. worker'[j].pc = "putError"
      BY <1>1, <2>1 DEF GiveUp, Workers
    <3> QED
      BY <1>3, <1>5, <1>10, <3>1 DEF Generate
  <2>2. ASSUME NEW s \in {"complete"} \cup (IF worker[j].ctxDone THEN {"partial"} ELSE {}),
               worker' = [worker EXCEPT ![j] = [@ EXCEPT !.pc = "late", !.resp = s]]
        PROVE  ResultsKept /\ \A i \in Jobs : PubJob(i)'
    <3>1. /\ worker'[j].pc = "late" /\ worker'[j].resp = s
          /\ worker'[j].ctxDone = worker[j].ctxDone
      BY <1>1, <2>2 DEF Workers
    <3>2. ~worker[j].ctxDone => s = "complete"
      BY <2>2
    <3> QED
      BY <1>3, <1>5, <1>10, <3>1, <3>2 DEF Generate
  <2> QED
    BY <1>10, <2>1, <2>2 DEF Generate
<1>11. CASE LateCheck(j)
  BY <1>1, <1>3, <1>5, <1>11 DEF LateCheck, GiveUp, WorkerGoto, Workers, PubJob
<1>12. CASE PutResult(j)
  <2>1. worker[j].resp = "complete" /\ worker[j].resp \in Values
    BY <1>12 DEF PutResult, WorkerGoto, PubJob, Values
  <2>2. ResultsKept
    BY <1>12, <2>1, <1>3, PubWrite, Constants DEF PutResult, PutOk, PutFails, SetFails
  <2>3. worker'[j].pc = "putDone" => redis'[j]["result"].val = "complete"
    <3>1. CASE PutOk(j, "result", worker[j].resp)
      <4>1. RedisType
        BY DEF TypeOK, RedisType
      <4>2. Set(j, "result", "complete") /\ "complete" \in Values
        BY <2>1, <3>1 DEF PutOk
      <4>3. redis'[j]["result"] = [val |-> "complete", ttl |-> TTL]
        BY <4>1, <4>2, SetEffect, Constants
      <4> QED
        BY <4>3
    <3>2. CASE WorkerGoto(j, "putResult", "over")
      BY <1>1, <3>2 DEF WorkerGoto, Workers
    <3> QED
      BY <1>12, <3>1, <3>2 DEF PutResult
  <2>4. worker'[j].pc \in {"putDone", "over"}
    BY <1>1, <1>12 DEF PutResult, WorkerGoto, Workers
  <2> QED
    BY <1>5, <2>2, <2>3, <2>4
<1>13. CASE PutDone(j)
  <2>1. redis[j]["result"].val = "complete"
    BY <1>13 DEF PutDone, WorkerGoto, PubJob
  <2>2. ResultsKept
    BY <1>13, <2>1, <1>3, PubWrite, Constants DEF PutDone, PutOk, PutFails, SetFails
  <2>3. worker'[j].pc = "over"
    BY <1>1, <1>13 DEF PutDone, WorkerGoto, Workers
  <2> QED
    BY <1>5, <2>2, <2>3
<1>14. CASE PutError(j)
  BY <1>1, <1>2, <1>5, <1>14, Constants DEF PutError, WorkerGoto, Workers
<1>15. CASE PutFailed(j)
  BY <1>1, <1>2, <1>5, <1>15, Constants DEF PutFailed, WorkerGoto, Workers
<1> QED
  BY <1>6, <1>7, <1>8, <1>9, <1>10, <1>11, <1>12, <1>13, <1>14, <1>15 DEF HandlerStep

\* Requests only mark jobs cancelled, and read a result when there is one.
LEMMA PubRequest ==
    ASSUME TypeOK, \A i \in Jobs : PubJob(i), \A q \in Requests : PubReq(q),
           NEW r \in Requests, RequestStep(r)
    PROVE  ResultsKept /\ \A q \in Requests : PubReq(q)'
<1>1. req \in [Requests -> RequestRecords] /\ RequestType
  BY DEF TypeOK, RequestType
<1>2. ResultsKept
  <2>1. CASE MarkCancelled(r)
    <3>1. req[r].job \in Jobs
      BY <1>1, <2>1, RequestJob DEF MarkCancelled
    <3> QED
      BY <2>1, <3>1, PubWrite, Constants DEF MarkCancelled, SetFails
  <2>2. CASE UNCHANGED redis
    BY <2>2 DEF ResultsKept, PubJob
  <2> QED
    BY <2>1, <2>2 DEF RequestStep, Gate, ReadState, ReadResult, ReadError, LoopGone, FastEnd,
                      FindTask, SendCancel, Query
<1>3. \A q \in Requests : q # r => req'[q] = req[q]
  BY <1>1 DEF RequestStep, Gate, ReadState, ReadResult, ReadError, LoopGone, FastEnd,
              FindTask, SendCancel, MarkCancelled, Query, Goto, Reply, Finish
<1>4. req[r].pc # "idle" /\ req[r].job \in Jobs
  BY <1>1, RequestJob DEF RequestStep, Gate, ReadState, ReadResult, ReadError, LoopGone,
              FastEnd, FindTask, SendCancel, MarkCancelled, Query
<1>5. /\ req'[r].job = req[r].job
      /\ req'[r].pc = "readResult" => redis[req[r].job]["result"].val = "complete"
      /\ req'[r].event = "missing" /\ ~RedisFaults =>
            redis[req[r].job]["result"].val = "complete"
  <2> USE RequestMoves
  <2>1. CASE ReadState(r)
    <3>1. CASE req' = [req EXCEPT ![r].loop = TRUE]
      BY <1>1, <2>1, <3>1 DEF ReadState, RequestRecords, PubReq
    <3>2. Get(req[r].job, "state") = "done" => redis[req[r].job]["result"].val = "complete"
      BY <1>4, Constants DEF Get, PubJob
    <3> QED
      BY <1>1, <2>1, <3>1, <3>2 DEF ReadState, PubReq
  <2>2. CASE ReadResult(r)
    BY <1>1, <2>2 DEF ReadResult, PubReq
  <2>3. CASE Gate(r)
    <3>1. req[r].kind \in Kinds
      BY <1>1 DEF RequestRecords
    <3> QED
      BY <1>1, <2>3, <3>1 DEF Gate, PubReq, Kinds
  <2>4. CASE ReadError(r)
    BY <1>1, <2>4 DEF ReadError, PubReq
  <2>5. CASE LoopGone(r) \/ FastEnd(r) \/ SendCancel(r)
    BY <1>1, <2>5 DEF LoopGone, FastEnd, SendCancel, PubReq
  <2>6. CASE FindTask(r) \/ MarkCancelled(r)
    BY <1>1, <2>6 DEF FindTask, MarkCancelled, PubReq
  <2>7. CASE Query(r)
    <3>1. Get(req[r].job, "state") \in Phases \cup {Nil}
      BY <1>4 DEF TypeOK, Get
    <3>2. (IF Get(req[r].job, "state") = Nil THEN "notFound" ELSE Get(req[r].job, "state"))
             # "missing"
      BY <3>1 DEF Phases
    <3> QED
      BY <1>1, <2>7, <3>2 DEF Query, PubReq
  <2> QED
    BY <2>1, <2>2, <2>3, <2>4, <2>5, <2>6, <2>7 DEF RequestStep
<1>6. ASSUME NEW q \in Requests, q # r
      PROVE  PubReq(q)'
  <2>1. CASE req[q] = IdleRequest
    BY <1>3, <1>6, <2>1 DEF PubReq, IdleRequest
  <2>2. CASE req[q].job \in Jobs
    BY <1>2, <1>3, <1>6, <2>2 DEF PubReq, ResultsKept
  <2> QED
    BY <1>1, <2>1, <2>2 DEF RequestType
<1>7. PubReq(r)'
  BY <1>2, <1>4, <1>5 DEF PubReq, ResultsKept
<1> QED
  BY <1>2, <1>6, <1>7

\* The steps outside the three handlers neither write values nor move a worker on
\* to a publication.
LEMMA PubOther ==
    ASSUME TypeOK, Publication, NEW j \in Jobs,
           (\E u \in Users : SubmitArrive(j, u)) \/ Dequeue(j) \/ Timeout(j)
             \/ DeliverCancel(j) \/ Crash(j)
    PROVE  Publication'
<1>1. worker \in [Jobs -> Workers]
  BY DEF TypeOK
<1>2. redis' = redis /\ req' = req
  BY DEF SubmitArrive, Dequeue, Timeout, DeliverCancel, Crash
<1>3. \A i \in Jobs :
         /\ worker'[i].pc \in {worker[i].pc, "markRunning", "crashed"}
         /\ worker'[i].resp = worker[i].resp
         /\ ~worker'[i].ctxDone => ~worker[i].ctxDone
  <2>1. CASE \E u \in Users : SubmitArrive(j, u)
    BY <2>1 DEF SubmitArrive
  <2>2. CASE Dequeue(j) \/ Crash(j)
    BY <1>1, <2>2 DEF Dequeue, WorkerGoto, Crash, Workers
  <2>3. CASE Timeout(j)
    BY <1>1, <2>3 DEF Timeout, Workers
  <2>4. CASE DeliverCancel(j)
    BY <1>1, <2>4 DEF DeliverCancel, Workers
  <2> QED
    BY <2>1, <2>2, <2>3, <2>4
<1>4. \A i \in Jobs : PubJob(i)'
  BY <1>2, <1>3, PublicationParts DEF PubJob
<1>5. \A q \in Requests : PubReq(q)'
  BY <1>2, PublicationParts DEF PubReq
<1> QED
  BY <1>4, <1>5 DEF Publication, PubJob, PubReq, NoPartialResult, DoneHasResult,
                    MissingOnlyAfterExpiry

LEMMA PublicationStep ==
    ASSUME TypeOK, Publication, [Next]_vars
    PROVE  Publication'
<1>1. (\A j \in Jobs : PubJob(j)) /\ (\A r \in Requests : PubReq(r)) /\ RequestType
  BY PublicationParts DEF TypeOK, RequestType
<1>2. ASSUME \A j \in Jobs : PubJob(j)', \A r \in Requests : PubReq(r)'
      PROVE  Publication'
  BY <1>2 DEF Publication, PubJob, PubReq, NoPartialResult, DoneHasResult,
              MissingOnlyAfterExpiry
<1>3. ASSUME ResultsKept, req' = req
      PROVE  \A r \in Requests : PubReq(r)'
  <2> SUFFICES ASSUME NEW r \in Requests
               PROVE  PubReq(r)'
    OBVIOUS
  <2>1. CASE req[r] = IdleRequest
    BY <1>3, <2>1 DEF PubReq, IdleRequest
  <2>2. CASE req[r].job \in Jobs
    BY <1>1, <1>3, <2>2 DEF PubReq, ResultsKept
  <2> QED
    BY <1>1, <2>1, <2>2 DEF RequestType
<1>4. ASSUME ResultsKept, worker' = worker
      PROVE  \A j \in Jobs : PubJob(j)'
  BY <1>1, <1>4 DEF PubJob, ResultsKept
<1>5. ASSUME NEW j \in Jobs, SubmitStep(j)
      PROVE  Publication'
  <2>1. ResultsKept
    BY <1>1, <1>5, PubSubmit
  <2>2. req' = req
    BY <1>5 DEF SubmitStep, PrimeState, PrimeUser, Enqueue, Rollback, RecordTask
  <2>3. \A i \in Jobs : worker'[i].pc \in {worker[i].pc, "pending"}
                       /\ worker'[i].ctxDone = worker[i].ctxDone
                       /\ worker'[i].resp = worker[i].resp
    BY <1>5 DEF SubmitStep, PrimeState, PrimeUser, Enqueue, Rollback, RecordTask, TypeOK,
                Workers
  <2>4. \A i \in Jobs : PubJob(i)'
    BY <1>1, <2>1, <2>3 DEF PubJob, ResultsKept
  <2> QED
    BY <1>2, <1>3, <2>1, <2>2, <2>4
<1>6. ASSUME NEW j \in Jobs, HandlerStep(j)
      PROVE  Publication'
  <2>1. req' = req
    BY <1>6 DEF HandlerStep, MarkRunning, Decode, EarlyCheck, Delay, Generate, LateCheck,
                PutResult, PutDone, PutError, PutFailed
  <2> QED
    BY <1>1, <1>2, <1>3, <1>6, <2>1, PubHandler
<1>7. ASSUME NEW r \in Requests, RequestStep(r)
      PROVE  Publication'
  <2>1. worker' = worker
    BY <1>7 DEF RequestStep, Gate, ReadState, ReadResult, ReadError, LoopGone, FastEnd,
                FindTask, SendCancel, MarkCancelled, Query
  <2> QED
    BY <1>1, <1>2, <1>4, <1>7, <2>1, PubRequest
<1>8. ASSUME NEW r \in Requests,
             \/ \E kind \in Kinds, u \in Users, j \in Jobs : Arrive(r, kind, u, j)
             \/ Leave(r) \/ Recycle(r)
      PROVE  Publication'
  <2>1. redis' = redis /\ worker' = worker
    BY <1>8 DEF Arrive, Leave, Recycle
  <2>2. \A j \in Jobs : PubJob(j)'
    BY <1>1, <2>1 DEF PubJob
  <2>3. \A q \in Requests :
           \/ req'[q].pc \in {"idle", "gate"} /\ req'[q].event = "none"
           \/ req'[q].pc = req[q].pc /\ req'[q].event = req[q].event /\ req'[q].job = req[q].job
    BY <1>8 DEF Arrive, Leave, Recycle, IdleRequest, TypeOK, RequestRecords
  <2>4. \A q \in Requests : PubReq(q)'
    BY <1>1, <2>1, <2>3 DEF PubReq
  <2> QED
    BY <1>2, <2>2, <2>4
<1>9. CASE Tick
  <2>1. ResultsKept
    BY <1>1, <1>9, TickEffect, Constants DEF TypeOK, RedisType, ResultsKept, PubJob
  <2>2. worker' = worker /\ req' = req
    BY <1>9 DEF Tick
  <2> QED
    BY <1>2, <1>3, <1>4, <2>1, <2>2
<1>10. CASE UNCHANGED vars
  BY <1>1, <1>2, <1>10 DEF vars, PubJob, PubReq
<1> QED
  BY <1>5, <1>6, <1>7, <1>8, <1>9, <1>10, PubOther DEF Next, JobStep, ClientStep

LEMMA PublicationInit == Init => Publication
<1> SUFFICES ASSUME Init PROVE Publication
  OBVIOUS
<1>1. \A j \in Jobs : redis[j]["result"].val = Nil /\ redis[j]["state"].val = Nil
  BY DEF Init, Missing, Keys
<1>2. \A j \in Jobs : worker[j].pc = "none"
  BY DEF Init
<1>3. \A r \in Requests : req[r].pc = "idle" /\ req[r].event = "none"
  BY DEF Init, IdleRequest
<1>4. Nil # "done"
  BY Constants
<1> QED
  BY <1>1, <1>2, <1>3, <1>4
     DEF Publication, NoPartialResult, DoneHasResult, MissingOnlyAfterExpiry

\* No partial result is ever published, a job marked done has a complete result,
\* and a stream is told of a missing result only after the result has expired.
THEOREM ResultsInOrder ==
    Spec => [](NoPartialResult /\ DoneHasResult /\ MissingOnlyAfterExpiry)
<1>1. Init => Publication
  BY PublicationInit
<1>2. TypeOK /\ Publication /\ [Next]_vars => Publication'
  BY PublicationStep
<1>3. Publication => NoPartialResult /\ DoneHasResult /\ MissingOnlyAfterExpiry
  BY DEF Publication
<1> QED
  BY <1>1, <1>2, <1>3, TypeCorrect, PTL DEF Spec

-----------------------------------------------------------------------------
(* Admission: who gets past the gate.                                       *)

\* The keys a step does not write keep their entries.
LEMMA OtherKeys ==
    ASSUME TypeOK, NEW j \in Jobs, NEW k \in Keys, NEW v \in Values,
           k = "state" => v \in Phases,
           Set(j, k, v) \/ UNCHANGED redis
    PROVE  \A i \in Jobs, l \in Keys : i # j \/ l # k => redis'[i][l] = redis[i][l]
<1>1. RedisType
  BY DEF TypeOK, RedisType
<1> QED
  BY <1>1, SetEffect

\* A step that writes one key, and fails or not.
Writes(j, k) ==
    \E v \in Values : (k = "state" => v \in Phases) /\ (Set(j, k, v) \/ UNCHANGED redis)

\* What every step outside the clock and the rollback writes.
LEMMA HandlerWrites ==
    ASSUME TypeOK, NEW j \in Jobs, HandlerStep(j)
    PROVE  \E k \in {"state", "result", "error"} : Writes(j, k)
<1>1. worker[j].resp \in Values
  BY DEF TypeOK, Workers, Values
<1>2. ASSUME NEW k, NEW v \in Values, k = "state" => v \in Phases,
             PutOk(j, k, v) \/ PutFails(j, k, v)
      PROVE  Writes(j, k)
  BY <1>2 DEF PutOk, PutFails, SetFails, Writes
<1>3. CASE MarkRunning(j)
  BY <1>2, <1>3, Constants DEF MarkRunning
<1>4. CASE PutResult(j)
  BY <1>1, <1>2, <1>4, Constants DEF PutResult
<1>5. CASE PutDone(j)
  BY <1>2, <1>5, Constants DEF PutDone
<1>6. CASE PutError(j)
  BY <1>2, <1>6, Constants DEF PutError
<1>7. CASE PutFailed(j)
  BY <1>2, <1>7, Constants DEF PutFailed
<1>8. UNCHANGED redis => Writes(j, "state")
  BY Constants DEF Writes
<1>9. CASE Decode(j) \/ EarlyCheck(j) \/ Delay(j) \/ Generate(j) \/ LateCheck(j)
  BY <1>8, <1>9 DEF Decode, EarlyCheck, Delay, Generate, LateCheck
<1> QED
  BY <1>3, <1>4, <1>5, <1>6, <1>7, <1>9 DEF HandlerStep

\* A request writes nothing but the state, when it marks its job cancelled.
LEMMA RequestWrites ==
    ASSUME TypeOK, NEW r \in Requests, RequestStep(r)
    PROVE  \/ UNCHANGED redis
           \/ /\ MarkCancelled(r) /\ req[r].pc = "mark" /\ req[r].job \in Jobs
              /\ Set(req[r].job, "state", "cancelled")
<1>1. CASE MarkCancelled(r)
  <2>1. req[r].job \in Jobs
    BY <1>1, RequestJob DEF MarkCancelled, TypeOK, RequestType
  <2> QED
    BY <1>1, <2>1 DEF MarkCancelled, SetFails
<1> QED
  BY <1>1 DEF RequestStep, Gate, ReadState, ReadResult, ReadError, LoopGone, FastEnd,
              FindTask, SendCancel, Query

AdmJob(j) ==
    /\ redis[j]["userId"].val \in {Nil, submit[j].user}
    /\ submit[j].pc = "none" => redis[j]["userId"].val = Nil

AdmReq(r) ==
    /\ req[r].pc # "idle" => req[r].user \in Users /\ submit[req[r].job].pc = "accepted"
    /\ req[r].pc \in {"read", "readResult", "readError", "query"} =>
          submit[req[r].job].user = req[r].user
    /\ req[r].kind # "stream" /\ req[r].pc \in {"task", "signal", "mark"} =>
          submit[req[r].job].user = req[r].user
    /\ req[r].gone => req[r].kind = "stream"
    /\ req[r].pc = "idle" => req[r] = IdleRequest
    /\ req[r].event \notin {"none", "notFound"} => submit[req[r].job].user = req[r].user

LEMMA AdmissionParts ==
    /\ Admission => (\A j \in Jobs : AdmJob(j)) /\ (\A r \in Requests : AdmReq(r))
    /\ (\A j \in Jobs : AdmJob(j)') /\ (\A r \in Requests : AdmReq(r)') => Admission'
BY DEF Admission, AdmJob, AdmReq, Isolation

\* What every step does to the owners: an accepted job keeps its submitter.
OwnersKept ==
    /\ \A i \in Jobs : AdmJob(i)'
    /\ \A i \in Jobs : submit[i].pc = "accepted" => submit'[i] = submit[i]

LEMMA OwnersSubmit ==
    ASSUME TypeOK, \A i \in Jobs : AdmJob(i), NEW j \in Jobs,
           SubmitStep(j) \/ \E u \in Users : SubmitArrive(j, u)
    PROVE  OwnersKept
<1>1. submit \in [Jobs -> Submits] /\ submit[j].user \in Values /\ RedisType
  BY DEF TypeOK, Submits, Values, RedisType
<1>2. ASSUME UNCHANGED <<redis>> \/ \A i \in Jobs : redis'[i]["userId"] = redis[i]["userId"],
             \A i \in Jobs : submit'[i].user = submit[i].user,
             \A i \in Jobs : i # j => submit'[i] = submit[i],
             submit[j].pc # "accepted", submit'[j].pc # "none"
      PROVE  OwnersKept
  BY <1>2 DEF OwnersKept, AdmJob
<1>3. \A from, to : SubmitGoto(j, from, to) =>
         /\ \A i \in Jobs : submit'[i].user = submit[i].user
         /\ \A i \in Jobs : i # j => submit'[i] = submit[i]
         /\ submit[j].pc = from /\ submit'[j].pc = to
  BY <1>1 DEF SubmitGoto, Submits
<1>4. CASE \E u \in Users : SubmitArrive(j, u)
  <2>1. submit[j].pc = "none" /\ UNCHANGED redis
    BY <1>4 DEF SubmitArrive
  <2>2. submit'[j].pc = "primeState" /\ \A i \in Jobs : i # j => submit'[i] = submit[i]
    BY <1>1, <1>4 DEF SubmitArrive, Submits
  <2>3. redis[j]["userId"].val = Nil
    BY <2>1 DEF AdmJob
  <2> QED
    BY <2>1, <2>2, <2>3 DEF OwnersKept, AdmJob
<1>5. CASE PrimeState(j)
  <2>1. Set(j, "state", "queued") \/ UNCHANGED redis
    BY <1>5 DEF PrimeState, SetFails
  <2>2. \A i \in Jobs : redis'[i]["userId"] = redis[i]["userId"]
    BY <2>1, OtherKeys, Constants
  <2> QED
    BY <1>2, <1>3, <1>5, <2>2 DEF PrimeState
<1>6. CASE PrimeUser(j)
  <2>1. Set(j, "userId", submit[j].user) \/ UNCHANGED redis
    BY <1>6 DEF PrimeUser, SetFails
  <2>2. /\ \A i \in Jobs : i # j => redis'[i]["userId"] = redis[i]["userId"]
        /\ redis'[j]["userId"].val \in {submit[j].user, redis[j]["userId"].val}
    <3>1. CASE Set(j, "userId", submit[j].user)
      <4>1. "userId" \in Keys /\ "userId" # "state"
        BY Constants
      <4>2. redis'[j]["userId"] = [val |-> submit[j].user, ttl |-> TTL]
        BY <1>1, <3>1, <4>1, SetEffect
      <4>3. \A i \in Jobs : i # j => redis'[i]["userId"] = redis[i]["userId"]
        BY <1>1, <3>1, <4>1, SetEffect
      <4> QED
        BY <4>2, <4>3
    <3>2. CASE UNCHANGED redis
      BY <3>2
    <3> QED
      BY <2>1, <3>1, <3>2
  <2>3. /\ \A i \in Jobs : submit'[i].user = submit[i].user
        /\ \A i \in Jobs : i # j => submit'[i] = submit[i]
        /\ submit[j].pc = "primeUser" /\ submit'[j].pc \in {"enqueue", "undoState"}
    BY <1>3, <1>6 DEF PrimeUser
  <2> QED
    BY <2>2, <2>3 DEF OwnersKept, AdmJob
<1>7. CASE Enqueue(j)
  BY <1>2, <1>3, <1>7 DEF Enqueue
<1>8. CASE Rollback(j)
  <2>1. ASSUME NEW ks \in SUBSET {"state", "userId"}, Del(j, ks),
               NEW from \in {"undoState", "undoAll"}, SubmitGoto(j, from, "refused")
        PROVE  OwnersKept
    <3>1. ks \in SUBSET Keys /\ "userId" \in Keys
      BY Constants
    <3>2. \A i \in Jobs : redis'[i]["userId"].val \in {Nil, redis[i]["userId"].val}
      BY <1>1, <2>1, <3>1, DelEffect DEF Missing
    <3>3. \A i \in Jobs : i # j => redis'[i]["userId"] = redis[i]["userId"]
      BY <1>1, <2>1, <3>1, DelEffect
    <3> QED
      BY <1>3, <2>1, <3>2, <3>3 DEF OwnersKept, AdmJob
  <2>2. CASE UNCHANGED redis
    BY <1>2, <1>3, <1>8, <2>2 DEF Rollback
  <2> QED
    BY <1>8, <2>1, <2>2 DEF Rollback
<1>9. CASE RecordTask(j)
  <2>1. Set(j, "taskId", "task") \/ UNCHANGED redis
    BY <1>9 DEF RecordTask, SetFails
  <2>2. \A i \in Jobs : redis'[i]["userId"] = redis[i]["userId"]
    BY <2>1, OtherKeys, Constants
  <2> QED
    BY <1>2, <1>3, <1>9, <2>2 DEF RecordTask
<1> QED
  BY <1>4, <1>5, <1>6, <1>7, <1>8, <1>9 DEF SubmitStep

LEMMA OwnersStep ==
    ASSUME TypeOK, \A i \in Jobs : AdmJob(i), [Next]_vars
    PROVE  OwnersKept
<1>1. ASSUME submit' = submit,
             \A i \in Jobs : redis'[i]["userId"].val = redis[i]["userId"].val
      PROVE  OwnersKept
  BY <1>1 DEF OwnersKept, AdmJob
<1>2. ASSUME NEW j \in Jobs, HandlerStep(j)
      PROVE  OwnersKept
  <2>1. submit' = submit
    BY <1>2 DEF HandlerStep, MarkRunning, Decode, EarlyCheck, Delay, Generate, LateCheck,
                PutResult, PutDone, PutError, PutFailed
  <2>2. \A i \in Jobs : redis'[i]["userId"] = redis[i]["userId"]
    BY <1>2, HandlerWrites, OtherKeys, Constants DEF Writes
  <2> QED
    BY <1>1, <2>1, <2>2
<1>3. ASSUME NEW r \in Requests, RequestStep(r)
      PROVE  OwnersKept
  <2>1. submit' = submit
    BY <1>3 DEF RequestStep, Gate, ReadState, ReadResult, ReadError, LoopGone, FastEnd,
                FindTask, SendCancel, MarkCancelled, Query
  <2>2. \A i \in Jobs : redis'[i]["userId"] = redis[i]["userId"]
    BY <1>3, RequestWrites, OtherKeys, Constants
  <2> QED
    BY <1>1, <2>1, <2>2
<1>4. CASE Tick
  BY <1>1, <1>4, TickEffect, Constants DEF Tick, TypeOK, RedisType
<1>5. ASSUME NEW j \in Jobs, Dequeue(j) \/ Timeout(j) \/ DeliverCancel(j) \/ Crash(j)
      PROVE  OwnersKept
  BY <1>1, <1>5 DEF Dequeue, Timeout, DeliverCancel, Crash
<1>6. ASSUME NEW r \in Requests,
             \/ \E kind \in Kinds, u \in Users, j \in Jobs : Arrive(r, kind, u, j)
             \/ Leave(r) \/ Recycle(r)
      PROVE  OwnersKept
  BY <1>1, <1>6 DEF Arrive, Leave, Recycle
<1>7. CASE UNCHANGED vars
  BY <1>1, <1>7 DEF vars
<1> QED
  BY <1>2, <1>3, <1>4, <1>5, <1>6, <1>7, OwnersSubmit DEF Next, JobStep, ClientStep

\* A step of a request keeps its own part.
LEMMA AdmRequest ==
    ASSUME TypeOK, \A i \in Jobs : AdmJob(i), NEW r \in Requests, AdmReq(r), RequestStep(r)
    PROVE  AdmReq(r)'
<1>1. req \in [Requests -> RequestRecords] /\ RequestType
  BY DEF TypeOK, RequestType
<1>2. submit' = submit
  BY DEF RequestStep, Gate, ReadState, ReadResult, ReadError, LoopGone, FastEnd,
         FindTask, SendCancel, MarkCancelled, Query
<1>3. req[r].pc # "idle" /\ req[r].job \in Jobs
  BY <1>1, RequestJob DEF RequestStep, Gate, ReadState, ReadResult, ReadError, LoopGone,
              FastEnd, FindTask, SendCancel, MarkCancelled, Query
<1>4. ASSUME NEW to, Goto(r, to), to # "idle",
             to \in {"read", "readResult", "readError", "query"} =>
               submit[req[r].job].user = req[r].user,
             req[r].kind # "stream" /\ to \in {"task", "signal", "mark"} =>
               submit[req[r].job].user = req[r].user
      PROVE  AdmReq(r)'
  <2>1. /\ req'[r].pc = to /\ req'[r].event = req[r].event
        /\ req'[r].kind = req[r].kind /\ req'[r].user = req[r].user
        /\ req'[r].job = req[r].job /\ req'[r].gone = req[r].gone
    BY <1>1, <1>4, RequestMoves
  <2> QED
    BY <1>2, <1>3, <1>4, <2>1 DEF AdmReq
<1>5. ASSUME NEW e, Reply(r, e) \/ Finish(r, e),
             e \notin {"none", "notFound"} => submit[req[r].job].user = req[r].user
      PROVE  AdmReq(r)'
  <2>1. /\ req'[r].pc \in {"closed", "fastEnd"} /\ req'[r].event = e
        /\ req'[r].kind = req[r].kind /\ req'[r].user = req[r].user
        /\ req'[r].job = req[r].job /\ req'[r].gone = req[r].gone
    BY <1>1, <1>5, RequestMoves
  <2> QED
    BY <1>2, <1>3, <1>5, <2>1 DEF AdmReq
<1>6. CASE Gate(r)
  <2>1. req[r].kind \in Kinds
    BY <1>1 DEF RequestRecords
  <2>2. CASE req[r].gone
    <3>1. Goto(r, "task") /\ req[r].kind = "stream"
      BY <1>6, <2>2 DEF Gate, AdmReq
    <3> QED
      BY <1>4, <3>1
  <2>3. CASE ~req[r].gone /\ Get(req[r].job, "userId") = req[r].user
    <3>1. submit[req[r].job].user = req[r].user
      BY <1>3, <2>3, Constants DEF AdmReq, AdmJob, Get
    <3> QED
      BY <1>4, <1>5, <1>6, <2>1, <2>3, <3>1 DEF Gate, Kinds
  <2>4. CASE ~req[r].gone /\ Get(req[r].job, "userId") # req[r].user
    BY <1>5, <1>6, <2>4 DEF Gate
  <2> QED
    BY <2>2, <2>3, <2>4
<1>7. CASE ReadState(r)
  <2>1. submit[req[r].job].user = req[r].user
    BY <1>7 DEF ReadState, AdmReq
  <2>2. CASE req' = [req EXCEPT ![r].loop = TRUE]
    <3>1. /\ req'[r].pc = req[r].pc /\ req'[r].event = req[r].event
          /\ req'[r].kind = req[r].kind /\ req'[r].user = req[r].user
          /\ req'[r].job = req[r].job /\ req'[r].gone = req[r].gone
      BY <1>1, <2>2 DEF RequestRecords
    <3> QED
      BY <1>2, <1>3, <3>1 DEF AdmReq
  <2> QED
    BY <1>4, <1>5, <1>7, <2>1, <2>2 DEF ReadState
<1>8. CASE ReadResult(r) \/ ReadError(r)
  <2>1. submit[req[r].job].user = req[r].user
    BY <1>8 DEF ReadResult, ReadError, AdmReq
  <2> QED
    BY <1>5, <1>8, <2>1 DEF ReadResult, ReadError
<1>9. CASE LoopGone(r)
  BY <1>4, <1>9 DEF LoopGone, AdmReq
<1>10. CASE FastEnd(r)
  <2>1. Goto(r, "closed") \/ (Goto(r, "task") /\ req[r].kind = "stream")
    BY <1>10 DEF FastEnd, AdmReq
  <2> QED
    BY <1>4, <2>1
<1>11. CASE FindTask(r)
  <2>1. req[r].kind # "stream" => submit[req[r].job].user = req[r].user
    BY <1>11 DEF FindTask, AdmReq
  <2> QED
    BY <1>4, <1>5, <1>11, <2>1 DEF FindTask
<1>12. CASE SendCancel(r)
  BY <1>4, <1>12 DEF SendCancel, AdmReq
<1>13. CASE MarkCancelled(r)
  <2>1. req[r].kind # "stream" => submit[req[r].job].user = req[r].user
    BY <1>13 DEF MarkCancelled, AdmReq
  <2> QED
    BY <1>4, <1>5, <1>13, <2>1 DEF MarkCancelled
<1>14. CASE Query(r)
  <2>1. submit[req[r].job].user = req[r].user
    BY <1>14 DEF Query, AdmReq
  <2> QED
    BY <1>5, <1>14, <2>1 DEF Query
<1> QED
  BY <1>6, <1>7, <1>8, <1>9, <1>10, <1>11, <1>12, <1>13, <1>14 DEF RequestStep

LEMMA AdmissionStep ==
    ASSUME TypeOK, Admission, [Next]_vars
    PROVE  Admission'
<1>1. (\A j \in Jobs : AdmJob(j)) /\ (\A r \in Requests : AdmReq(r)) /\ RequestType
  BY AdmissionParts DEF TypeOK, RequestType
<1>2. OwnersKept
  BY <1>1, OwnersStep
<1>3. ASSUME NEW q \in Requests, req'[q] = req[q]
      PROVE  AdmReq(q)'
  <2>1. CASE req[q] = IdleRequest
    BY <1>3, <2>1 DEF AdmReq, IdleRequest
  <2>2. CASE req[q].pc # "idle"
    <3>1. req[q].job \in Jobs /\ submit[req[q].job].pc = "accepted"
      BY <1>1, <2>2, RequestJob DEF AdmReq
    <3>2. submit'[req[q].job] = submit[req[q].job]
      BY <1>2, <3>1 DEF OwnersKept
    <3> QED
      BY <1>1, <1>3, <3>2 DEF AdmReq
  <2> QED
    BY <1>1, <2>1, <2>2 DEF AdmReq
<1>4. \A r \in Requests : AdmReq(r)'
  <2>1. ASSUME NEW r \in Requests, RequestStep(r)
        PROVE  \A q \in Requests : AdmReq(q)'
    <3>1. \A q \in Requests : q # r => req'[q] = req[q]
      BY <1>1, <2>1 DEF RequestType, RequestStep, Gate, ReadState, ReadResult, ReadError,
             LoopGone, FastEnd, FindTask, SendCancel, MarkCancelled, Query, Goto, Reply, Finish
    <3> QED
      BY <1>1, <1>3, <2>1, <3>1, AdmRequest
  <2>2. ASSUME NEW r \in Requests, NEW kind \in Kinds, NEW u \in Users, NEW j \in Jobs,
               Arrive(r, kind, u, j)
        PROVE  \A q \in Requests : AdmReq(q)'
    <3>1. \A q \in Requests : q # r => req'[q] = req[q]
      BY <1>1, <2>2 DEF RequestType, Arrive
    <3>2. req'[r] = [pc |-> "gate", kind |-> kind, user |-> u, job |-> j,
                     loop |-> FALSE, gone |-> FALSE, event |-> "none"]
      BY <1>1, <2>2 DEF RequestType, Arrive
    <3>3. submit'[j].pc = "accepted"
      BY <2>2 DEF Arrive
    <3>4. AdmReq(r)'
      BY <3>2, <3>3 DEF AdmReq
    <3> QED
      BY <1>3, <3>1, <3>4
  <2>3. ASSUME NEW r \in Requests, Leave(r)
        PROVE  \A q \in Requests : AdmReq(q)'
    <3>1. \A q \in Requests : q # r => req'[q] = req[q]
      BY <1>1, <2>3 DEF RequestType, Leave
    <3>2. /\ req'[r].pc = req[r].pc /\ req'[r].event = req[r].event
          /\ req'[r].kind = req[r].kind /\ req'[r].user = req[r].user
          /\ req'[r].job = req[r].job /\ req[r].kind = "stream" /\ req[r].pc # "idle"
          /\ submit' = submit
      BY <1>1, <2>3 DEF RequestType, RequestRecords, Leave
    <3>3. AdmReq(r)'
      BY <1>1, <3>2 DEF AdmReq
    <3> QED
      BY <1>3, <3>1, <3>3
  <2>4. ASSUME NEW r \in Requests, Recycle(r)
        PROVE  \A q \in Requests : AdmReq(q)'
    <3>1. \A q \in Requests : q # r => req'[q] = req[q]
      BY <1>1, <2>4 DEF RequestType, Recycle
    <3>2. req'[r] = IdleRequest
      BY <1>1, <2>4 DEF RequestType, Recycle
    <3>3. AdmReq(r)'
      BY <3>2 DEF AdmReq, IdleRequest
    <3> QED
      BY <1>3, <3>1, <3>3
  <2>5. CASE req' = req
    BY <1>3, <2>5
  <2>6. ASSUME NEW j \in Jobs, JobStep(j)
        PROVE  req' = req
    BY <2>6 DEF JobStep, SubmitArrive, SubmitStep, PrimeState, PrimeUser, Enqueue, Rollback,
       RecordTask, Dequeue, HandlerStep, MarkRunning, Decode, EarlyCheck, Delay, Generate,
       LateCheck, PutResult, PutDone, PutError, PutFailed, Timeout, DeliverCancel, Crash
  <2>7. Tick \/ UNCHANGED vars => req' = req
    BY DEF Tick, vars
  <2> QED
    BY <2>1, <2>2, <2>3, <2>4, <2>5, <2>6, <2>7 DEF Next, ClientStep
<1> QED
  BY <1>2, <1>4, AdmissionParts DEF OwnersKept

LEMMA AdmissionInit == Init => Admission
<1> SUFFICES ASSUME Init PROVE Admission
  OBVIOUS
<1>1. \A j \in Jobs : redis[j]["userId"].val = Nil
  BY DEF Init, Missing, Keys
<1>2. \A r \in Requests :
         /\ req[r] = IdleRequest /\ req[r].pc = "idle" /\ req[r].kind = "status"
         /\ req[r].gone = FALSE /\ req[r].event = "none"
  BY DEF Init, IdleRequest
<1> QED
  BY <1>1, <1>2 DEF Admission, Isolation

\* Whatever a request is told beyond "no such job", its caller submitted the job:
\* for any number of users, jobs and requests, whatever fails.
THEOREM IsolationCorrect == Spec => []Isolation
<1>1. Init => Admission
  BY AdmissionInit
<1>2. TypeOK /\ Admission /\ [Next]_vars => Admission'
  BY AdmissionStep
<1>3. Admission => Isolation
  BY DEF Admission
<1> QED
  BY <1>1, <1>2, <1>3, TypeCorrect, PTL DEF Spec

-----------------------------------------------------------------------------
(* Handover: when the task exists.                                          *)

HandJob(j) ==
    /\ submit[j].pc \in {"none", "primeState", "primeUser", "enqueue", "undoState"} =>
          worker[j].pc = "none"
    /\ submit[j].pc \in {"recordTask", "accepted"} => worker[j].pc # "none"

\* Where the steps with a choice lead.
LEMMA Choices ==
    ASSUME TypeOK, NEW j \in Jobs
    PROVE  /\ GiveUp(j) => worker'[j].pc = "putError"
           /\ Decode(j) => /\ worker[j].pc = "decode"
                           /\ worker'[j].pc \in {"putError", "putResult", "early"}
           /\ Generate(j) => /\ worker[j].pc = "generate"
                             /\ worker'[j].pc \in {"putError", "late"}
<1>1. worker \in [Jobs -> Workers]
  BY DEF TypeOK
<1>2. GiveUp(j) => worker'[j].pc = "putError"
  BY <1>1 DEF GiveUp, Workers
<1>3. worker' = [worker EXCEPT ![j] = [@ EXCEPT !.pc = "putResult", !.resp = "complete"]]
         => worker'[j].pc = "putResult"
  BY <1>1 DEF Workers
<1>4. worker' = [worker EXCEPT ![j].pc = "early"] => worker'[j].pc = "early"
  BY <1>1 DEF Workers
<1>5. \A s : worker' = [worker EXCEPT ![j] = [@ EXCEPT !.pc = "late", !.resp = s]]
               => worker'[j].pc = "late"
  BY <1>1 DEF Workers
<1> QED
  BY <1>2, <1>3, <1>4, <1>5 DEF Decode, Generate

\* The worker's steps concern one job, whose task exists before and after.
LEMMA WorkerMoves ==
    ASSUME TypeOK, NEW j \in Jobs,
           Dequeue(j) \/ HandlerStep(j) \/ Timeout(j) \/ DeliverCancel(j) \/ Crash(j)
    PROVE  /\ submit' = submit
           /\ \A i \in Jobs : i # j => worker'[i] = worker[i]
           /\ worker'[j].pc = "none" <=> worker[j].pc = "none"
<1>1. worker \in [Jobs -> Workers]
  BY DEF TypeOK
<1>2. submit' = submit
  BY DEF Dequeue, HandlerStep, MarkRunning, Decode, EarlyCheck, Delay, Generate, LateCheck,
         PutResult, PutDone, PutError, PutFailed, Timeout, DeliverCancel, Crash
<1>3. \A i \in Jobs : i # j => worker'[i] = worker[i]
  BY <1>1 DEF Dequeue, HandlerStep, MarkRunning, Decode, EarlyCheck, Delay, Generate,
         LateCheck, PutResult, PutDone, PutError, PutFailed, Timeout, DeliverCancel, Crash,
         WorkerGoto, GiveUp
<1>4. worker'[j].pc = "none" <=> worker[j].pc = "none"
  <2>1. \A from, to : WorkerGoto(j, from, to) => worker[j].pc = from /\ worker'[j].pc = to
    BY <1>1 DEF WorkerGoto, Workers
  <2>2. GiveUp(j) => worker'[j].pc = "putError"
    BY <1>1 DEF GiveUp, Workers
  <2>3. CASE Dequeue(j) \/ MarkRunning(j) \/ Delay(j) \/ PutResult(j) \/ PutDone(j)
               \/ PutError(j) \/ PutFailed(j)
    BY <2>1, <2>3 DEF Dequeue, MarkRunning, Delay, PutResult, PutDone, PutError, PutFailed
  <2>4. CASE EarlyCheck(j) \/ LateCheck(j)
    <3>1. worker[j].pc \in {"early", "late"}
      BY <2>4 DEF EarlyCheck, LateCheck
    <3>2. GiveUp(j) \/ \E to \in {"delay", "generate", "putResult"} : \E from : WorkerGoto(j, from, to)
      BY <2>4 DEF EarlyCheck, LateCheck
    <3> QED
      BY <2>1, <2>2, <3>1, <3>2
  <2>5. CASE Decode(j)
    BY <2>5, Choices
  <2>6. CASE Generate(j)
    BY <2>6, Choices
  <2>7. CASE Timeout(j) \/ DeliverCancel(j)
    BY <1>1, <2>7 DEF Timeout, DeliverCancel, Workers
  <2>8. CASE Crash(j)
    BY <1>1, <2>8 DEF Crash, Busy, Workers
  <2> QED
    BY <2>3, <2>4, <2>5, <2>6, <2>7, <2>8 DEF HandlerStep
<1> QED
  BY <1>2, <1>3, <1>4

\* What the steps of a submission do to its own counter and to the worker's.
LEMMA SubmitMoves ==
    ASSUME TypeOK, NEW j \in Jobs, SubmitStep(j) \/ \E u \in Users : SubmitArrive(j, u)
    PROVE  /\ \A i \in Jobs : i # j => submit'[i] = submit[i]
           /\ \A i \in Jobs : i # j => worker'[i] = worker[i]
           /\ ~RedisFaults /\ submit[j].pc \notin {"undoState", "undoAll", "refused"} =>
                 submit'[j].pc \notin {"undoState", "undoAll", "refused"}
           /\ \/ /\ worker' = worker
                 /\ \/ submit[j].pc = "none" /\ submit'[j].pc = "primeState"
                    \/ submit[j].pc = "primeState" /\ submit'[j].pc \in {"primeUser", "refused"}
                    \/ submit[j].pc = "primeUser" /\ submit'[j].pc \in {"enqueue", "undoState"}
                    \/ submit[j].pc = "enqueue" /\ submit'[j].pc = "undoAll"
                    \/ submit[j].pc \in {"undoState", "undoAll"} /\ submit'[j].pc = "refused"
                    \/ submit[j].pc = "recordTask" /\ submit'[j].pc = "accepted"
              \/ /\ worker' = [worker EXCEPT ![j].pc = "pending"]
                 /\ submit[j].pc = "enqueue" /\ submit'[j].pc \in {"recordTask", "undoAll"}
<1>1. submit \in [Jobs -> Submits] /\ worker \in [Jobs -> Workers]
  BY DEF TypeOK
<1>2. \A from, to : SubmitGoto(j, from, to) =>
         /\ \A i \in Jobs : i # j => submit'[i] = submit[i]
         /\ submit[j].pc = from /\ submit'[j].pc = to
  BY <1>1 DEF SubmitGoto, Submits
<1>3. CASE \E u \in Users : SubmitArrive(j, u)
  BY <1>1, <1>3 DEF SubmitArrive
<1>4. CASE PrimeState(j)
  BY <1>2, <1>4 DEF PrimeState, SetFails
<1>5. CASE PrimeUser(j)
  BY <1>2, <1>5 DEF PrimeUser, SetFails
<1>6. CASE Enqueue(j)
  <2>1. worker' = worker \/ worker' = [worker EXCEPT ![j].pc = "pending"]
    BY <1>6 DEF Enqueue
  <2>2. \A i \in Jobs : i # j => worker'[i] = worker[i]
    BY <1>1, <2>1
  <2>3. CASE SubmitGoto(j, "enqueue", "recordTask") /\ worker' = [worker EXCEPT ![j].pc = "pending"]
    BY <1>2, <2>2, <2>3
  <2>4. CASE RedisFaults /\ SubmitGoto(j, "enqueue", "undoAll")
    BY <1>2, <2>1, <2>2, <2>4
  <2> QED
    BY <1>6, <2>3, <2>4 DEF Enqueue
<1>7. CASE Rollback(j)
  BY <1>2, <1>7 DEF Rollback
<1>8. CASE RecordTask(j)
  BY <1>2, <1>8 DEF RecordTask
<1> QED
  BY <1>3, <1>4, <1>5, <1>6, <1>7, <1>8 DEF SubmitStep

\* Requests and the clock leave submissions and workers alone.
LEMMA Bystanders ==
    ASSUME [Next]_vars,
           \A j \in Jobs : ~(SubmitStep(j) \/ \E u \in Users : SubmitArrive(j, u)),
           \A j \in Jobs : ~(Dequeue(j) \/ HandlerStep(j) \/ Timeout(j) \/ DeliverCancel(j)
                             \/ Crash(j))
    PROVE  submit' = submit /\ worker' = worker
<1>1. \/ \E r \in Requests : ClientStep(r)
      \/ Tick \/ UNCHANGED vars
  BY DEF Next, JobStep
<1>2. ASSUME NEW r \in Requests, ClientStep(r)
      PROVE  submit' = submit /\ worker' = worker
  BY <1>2 DEF ClientStep, Arrive, Leave, Recycle, RequestStep, Gate, ReadState, ReadResult,
              ReadError, LoopGone, FastEnd, FindTask, SendCancel, MarkCancelled, Query
<1> QED
  BY <1>1, <1>2 DEF Tick, vars

LEMMA HandoverStep ==
    ASSUME TypeOK, \A i \in Jobs : HandJob(i), [Next]_vars
    PROVE  \A i \in Jobs : HandJob(i)'
<1>1. ASSUME NEW j \in Jobs, SubmitStep(j) \/ \E u \in Users : SubmitArrive(j, u)
      PROVE  \A i \in Jobs : HandJob(i)'
  <2>1. \A i \in Jobs : i # j => HandJob(i)'
    BY <1>1, SubmitMoves DEF HandJob
  <2>2. CASE /\ worker' = worker
             /\ \/ submit[j].pc = "none" /\ submit'[j].pc = "primeState"
                \/ submit[j].pc = "primeState" /\ submit'[j].pc \in {"primeUser", "refused"}
                \/ submit[j].pc = "primeUser" /\ submit'[j].pc \in {"enqueue", "undoState"}
                \/ submit[j].pc = "enqueue" /\ submit'[j].pc = "undoAll"
                \/ submit[j].pc \in {"undoState", "undoAll"} /\ submit'[j].pc = "refused"
                \/ submit[j].pc = "recordTask" /\ submit'[j].pc = "accepted"
    <3>1. HandJob(j)'
      BY <2>2 DEF HandJob
    <3> QED
      BY <2>1, <3>1
  <2>3. CASE /\ worker' = [worker EXCEPT ![j].pc = "pending"]
             /\ submit'[j].pc \in {"recordTask", "undoAll"}
    <3>1. worker'[j].pc = "pending"
      BY <2>3 DEF TypeOK, Workers
    <3> QED
      BY <2>1, <2>3, <3>1 DEF HandJob
  <2> QED
    BY <1>1, <2>2, <2>3, SubmitMoves
<1>2. ASSUME NEW j \in Jobs,
             Dequeue(j) \/ HandlerStep(j) \/ Timeout(j) \/ DeliverCancel(j) \/ Crash(j)
      PROVE  \A i \in Jobs : HandJob(i)'
  BY <1>2, WorkerMoves DEF HandJob
<1> QED
  BY <1>1, <1>2, Bystanders DEF HandJob

-----------------------------------------------------------------------------
(* Outcome: how a run ends when Redis works.                                *)

OutJob(j) ==
    /\ submit[j].pc \notin {"undoState", "undoAll", "refused"}
    /\ worker[j].pc = "putFailed" /\ CanWrite(j) => redis[j]["error"].val = "message"
    /\ redis[j]["state"].val = "failed" => redis[j]["error"].val = "message"
    /\ worker[j].pc = "over" /\ ~worker[j].ctxDone =>
          redis[j]["state"].val \in {"done", "failed", "cancelled"}

\* A run's own step.
LEMMA OutHandler ==
    ASSUME TypeOK, ~RedisFaults, NEW j \in Jobs, OutJob(j), HandlerStep(j)
    PROVE  OutJob(j)'
<1>1. worker \in [Jobs -> Workers] /\ RedisType
  BY DEF TypeOK, RedisType
<1>2. submit' = submit
  BY WorkerMoves
<1>3. \A from, to : WorkerGoto(j, from, to) =>
         /\ worker[j].pc = from /\ worker'[j].pc = to
         /\ worker'[j].ctxDone = worker[j].ctxDone
         /\ worker'[j].detached = worker[j].detached
  BY <1>1 DEF WorkerGoto, Workers
<1>4. \A k, v : PutFails(j, k, v) => worker[j].ctxDone /\ ~CanWrite(j) /\ UNCHANGED redis
  BY DEF PutFails, SetFails, CanWrite
<1>5. \A k, v : PutOk(j, k, v) => CanWrite(j) /\ Set(j, k, v)
  BY DEF PutOk
<1>6. ASSUME NEW k \in Keys, NEW v \in Values, k = "state" => v \in Phases, Set(j, k, v)
      PROVE  /\ redis'[j][k].val = v
             /\ \A l \in Keys : l # k => redis'[j][l] = redis[j][l]
  <2>1. redis'[j][k] = [val |-> v, ttl |-> TTL]
    BY <1>1, <1>6, SetEffect
  <2> QED
    BY <1>6, <2>1, OtherKeys
<1>7. CASE UNCHANGED redis /\ worker'[j].pc \notin {"over", "putFailed"}
  BY <1>2, <1>7 DEF OutJob
<1>8. CASE MarkRunning(j)
  <2>1. worker'[j].pc = "decode"
    BY <1>3, <1>8 DEF MarkRunning
  <2>2. CASE UNCHANGED redis
    BY <1>7, <2>1, <2>2
  <2>3. CASE Set(j, "state", "running")
    <3>1. redis'[j]["state"].val = "running"
      BY <1>6, <2>3, Constants
    <3> QED
      BY <1>2, <2>1, <3>1 DEF OutJob
  <2> QED
    BY <1>4, <1>5, <1>8, <2>2, <2>3 DEF MarkRunning
<1>9. CASE Decode(j) \/ EarlyCheck(j) \/ Generate(j) \/ LateCheck(j)
  <2>1. UNCHANGED redis
    BY <1>9 DEF Decode, EarlyCheck, Generate, LateCheck
  <2>2. GiveUp(j) => worker'[j].pc = "putError"
    BY <1>1 DEF GiveUp, Workers
  <2>3. CASE EarlyCheck(j) \/ LateCheck(j)
    <3>1. GiveUp(j) \/ \E to \in {"delay", "generate", "putResult"} : \E from : WorkerGoto(j, from, to)
      BY <2>3 DEF EarlyCheck, LateCheck
    <3> QED
      BY <1>3, <1>7, <2>1, <2>2, <3>1
  <2>4. CASE Decode(j) \/ Generate(j)
    <3>1. worker'[j].pc \in {"putError", "putResult", "early", "late"}
      BY <2>4, Choices
    <3> QED
      BY <1>7, <2>1, <3>1
  <2> QED
    BY <1>9, <2>3, <2>4
<1>10. CASE Delay(j)
  <2>1. UNCHANGED redis
    BY <1>10 DEF Delay
  <2>2. worker'[j].pc = "generate" \/ (worker'[j].pc = "over" /\ worker'[j].ctxDone)
    BY <1>3, <1>10 DEF Delay
  <2> QED
    BY <1>2, <2>1, <2>2 DEF OutJob
<1>11. CASE PutResult(j)
  <2>1. CASE WorkerGoto(j, "putResult", "putDone") /\ PutOk(j, "result", worker[j].resp)
    <3>1. worker[j].resp \in Values
      BY <1>1 DEF Workers, Values
    <3>2. redis'[j]["state"] = redis[j]["state"] /\ redis'[j]["error"] = redis[j]["error"]
      BY <1>5, <1>6, <2>1, <3>1, Constants
    <3>3. worker'[j].pc = "putDone"
      BY <1>3, <2>1
    <3> QED
      BY <1>2, <3>2, <3>3 DEF OutJob
  <2>2. CASE WorkerGoto(j, "putResult", "over") /\ PutFails(j, "result", worker[j].resp)
    <3>1. worker'[j].pc = "over" /\ worker'[j].ctxDone /\ UNCHANGED redis
      BY <1>3, <1>4, <2>2
    <3> QED
      BY <1>2, <3>1 DEF OutJob
  <2> QED
    BY <1>11, <2>1, <2>2 DEF PutResult
<1>12. CASE PutDone(j)
  <2>1. worker'[j].pc = "over" /\ worker'[j].ctxDone = worker[j].ctxDone
    BY <1>3, <1>12 DEF PutDone
  <2>2. CASE PutOk(j, "state", "done")
    <3>1. redis'[j]["state"].val = "done"
      BY <1>5, <1>6, <2>2, Constants
    <3> QED
      BY <1>2, <2>1, <3>1 DEF OutJob
  <2>3. CASE PutFails(j, "state", "done")
    BY <1>2, <1>4, <2>1, <2>3 DEF OutJob
  <2> QED
    BY <1>12, <2>2, <2>3 DEF PutDone
<1>13. CASE PutError(j)
  <2>1. /\ worker'[j].pc = "putFailed" /\ worker'[j].ctxDone = worker[j].ctxDone
        /\ worker'[j].detached = worker[j].detached
    BY <1>3, <1>13 DEF PutError
  <2>2. CASE PutOk(j, "error", "message")
    <3>1. redis'[j]["error"].val = "message"
      BY <1>5, <1>6, <2>2, Constants
    <3> QED
      BY <1>2, <2>1, <3>1 DEF OutJob
  <2>3. CASE PutFails(j, "error", "message")
    <3>1. ~CanWrite(j)' /\ UNCHANGED redis
      BY <1>4, <2>1, <2>3 DEF CanWrite
    <3> QED
      BY <1>2, <2>1, <3>1 DEF OutJob
  <2> QED
    BY <1>13, <2>2, <2>3 DEF PutError
<1>14. CASE PutFailed(j)
  <2>1. /\ worker[j].pc = "putFailed" /\ worker'[j].pc = "over"
        /\ worker'[j].ctxDone = worker[j].ctxDone
    BY <1>3, <1>14 DEF PutFailed
  <2>2. CASE PutOk(j, "state", "failed")
    <3>1. /\ redis'[j]["state"].val = "failed"
          /\ redis'[j]["error"] = redis[j]["error"]
          /\ CanWrite(j)
      BY <1>5, <1>6, <2>2, Constants
    <3> QED
      BY <1>2, <2>1, <3>1 DEF OutJob
  <2>3. CASE PutFails(j, "state", "failed")
    BY <1>2, <1>4, <2>1, <2>3 DEF OutJob
  <2> QED
    BY <1>14, <2>2, <2>3 DEF PutFailed
<1> QED
  BY <1>8, <1>9, <1>10, <1>11, <1>12, <1>13, <1>14 DEF HandlerStep

\* A step of the submission: its rollbacks are not reached.
LEMMA OutSubmit ==
    ASSUME TypeOK, ~RedisFaults, NEW j \in Jobs, OutJob(j), HandJob(j),
           SubmitStep(j) \/ \E u \in Users : SubmitArrive(j, u)
    PROVE  OutJob(j)'
<1>1. submit'[j].pc \notin {"undoState", "undoAll", "refused"}
  BY SubmitMoves DEF OutJob
<1>2. submit[j].user \in Values /\ RedisType
  BY DEF TypeOK, Submits, Values, RedisType
<1>3. CASE PrimeState(j)
  <2>1. worker' = worker /\ worker[j].pc = "none"
    BY <1>3 DEF PrimeState, HandJob, SubmitGoto
  <2>2. Set(j, "state", "queued")
    BY <1>3 DEF PrimeState, SetFails
  <2>3. redis'[j]["state"] = [val |-> "queued", ttl |-> TTL]
    BY <1>2, <2>2, SetEffect, Constants
  <2> QED
    BY <1>1, <2>1, <2>3 DEF OutJob
<1>4. CASE \/ PrimeUser(j) \/ RecordTask(j)
           \/ \E u \in Users : SubmitArrive(j, u)
  <2>1. worker' = worker
    BY <1>4 DEF PrimeUser, RecordTask, SubmitArrive
  <2>2. \/ UNCHANGED redis
        \/ Set(j, "userId", submit[j].user) \/ Set(j, "taskId", "task")
    BY <1>4 DEF PrimeUser, RecordTask, SubmitArrive, SetFails
  <2>3. redis'[j]["state"] = redis[j]["state"] /\ redis'[j]["error"] = redis[j]["error"]
    BY <1>2, <2>2, OtherKeys, Constants
  <2>4. CanWrite(j)' = CanWrite(j)
    BY <2>1 DEF CanWrite
  <2> QED
    BY <1>1, <2>1, <2>3, <2>4 DEF OutJob
<1>5. CASE Enqueue(j)
  <2>1. worker'[j].pc = "pending" /\ UNCHANGED redis
    BY <1>5 DEF Enqueue, TypeOK, Workers
  <2> QED
    BY <1>1, <2>1 DEF OutJob
<1>6. CASE Rollback(j)
  BY <1>6 DEF Rollback, SubmitGoto, OutJob
<1> QED
  BY <1>3, <1>4, <1>5, <1>6 DEF SubmitStep

\* The job's other steps, and those of every other job, request and the clock.
LEMMA OutcomeStep ==
    ASSUME TypeOK, ~RedisFaults, \A i \in Jobs : OutJob(i), \A i \in Jobs : HandJob(i),
           [Next]_vars
    PROVE  \A i \in Jobs : OutJob(i)'
<1>1. RedisType /\ RequestType /\ worker \in [Jobs -> Workers]
  BY DEF TypeOK, RedisType, RequestType
<1>2. ASSUME NEW i \in Jobs, submit'[i] = submit[i], worker'[i] = worker[i],
             redis'[i]["state"].val = redis[i]["state"].val \/ redis'[i]["state"].val = "cancelled",
             redis'[i]["error"].val = redis[i]["error"].val
      PROVE  OutJob(i)'
  BY <1>2 DEF OutJob, CanWrite
<1>3. ASSUME NEW j \in Jobs, SubmitStep(j) \/ \E u \in Users : SubmitArrive(j, u)
      PROVE  \A i \in Jobs : OutJob(i)'
  <2>1. \A i \in Jobs : i # j => redis'[i] = redis[i]
    BY <1>1, <1>3 DEF SubmitStep, PrimeState, PrimeUser, Enqueue, Rollback, RecordTask,
           SubmitArrive, SetFails, Set, Del, RedisType
  <2>2. \A i \in Jobs : i # j => OutJob(i)'
    BY <1>2, <1>3, <2>1, SubmitMoves
  <2> QED
    BY <1>3, <2>2, OutSubmit
<1>4. ASSUME NEW j \in Jobs, HandlerStep(j)
      PROVE  \A i \in Jobs : OutJob(i)'
  <2>1. \A i \in Jobs : i # j => redis'[i]["state"] = redis[i]["state"]
                              /\ redis'[i]["error"] = redis[i]["error"]
    BY <1>4, HandlerWrites, OtherKeys, Constants DEF Writes
  <2>2. submit' = submit /\ \A i \in Jobs : i # j => worker'[i] = worker[i]
    BY <1>4, WorkerMoves
  <2>3. \A i \in Jobs : i # j => OutJob(i)'
    BY <1>2, <2>1, <2>2
  <2> QED
    BY <1>4, <2>3, OutHandler
<1>5. ASSUME NEW j \in Jobs, Dequeue(j) \/ Timeout(j) \/ DeliverCancel(j) \/ Crash(j)
      PROVE  \A i \in Jobs : OutJob(i)'
  <2>1. UNCHANGED <<redis, submit>>
    BY <1>5 DEF Dequeue, Timeout, DeliverCancel, Crash
  <2>2. \A i \in Jobs : i # j => worker'[i] = worker[i]
    BY <1>5, WorkerMoves
  <2>3. worker'[j].pc \in {"markRunning", "crashed"}
        \/ /\ worker'[j].pc = worker[j].pc /\ worker'[j].detached = worker[j].detached
           /\ worker[j].ctxDone => worker'[j].ctxDone
    BY <1>1, <1>5 DEF Dequeue, WorkerGoto, Timeout, DeliverCancel, Crash, Workers
  <2>4. OutJob(j)'
    BY <2>1, <2>3 DEF OutJob, CanWrite
  <2>5. \A i \in Jobs : i # j => OutJob(i)'
    BY <1>2, <2>1, <2>2
  <2> QED
    BY <2>4, <2>5
<1>6. ASSUME NEW r \in Requests, RequestStep(r)
      PROVE  \A i \in Jobs : OutJob(i)'
  <2>1. submit' = submit /\ worker' = worker
    BY <1>6 DEF RequestStep, Gate, ReadState, ReadResult, ReadError, LoopGone, FastEnd,
                FindTask, SendCancel, MarkCancelled, Query
  <2>2. CASE UNCHANGED redis
    BY <1>2, <2>1, <2>2
  <2>3. CASE req[r].job \in Jobs /\ Set(req[r].job, "state", "cancelled")
    <3>1. \A i \in Jobs : redis'[i]["error"] = redis[i]["error"]
      BY <2>3, OtherKeys, Constants
    <3>2. \A i \in Jobs : i # req[r].job => redis'[i]["state"] = redis[i]["state"]
      BY <2>3, OtherKeys, Constants
    <3>3. redis'[req[r].job]["state"] = [val |-> "cancelled", ttl |-> TTL]
      BY <1>1, <2>3, SetEffect, Constants
    <3>4. \A i \in Jobs : redis'[i]["state"].val \in {redis[i]["state"].val, "cancelled"}
      BY <3>2, <3>3
    <3> QED
      BY <1>2, <2>1, <3>1, <3>4
  <2> QED
    BY <1>6, <2>2, <2>3, RequestWrites
<1>7. CASE Tick
  <2>1. UNCHANGED <<submit, worker>>
    BY <1>7 DEF Tick
  <2>2. \A i \in Jobs : redis'[i]["state"].val = redis[i]["state"].val
                     /\ redis'[i]["error"].val = redis[i]["error"].val
    BY <1>1, <1>7, TickEffect, Constants
  <2> QED
    BY <1>2, <2>1, <2>2
<1>8. CASE UNCHANGED <<redis, submit, worker>>
  BY <1>2, <1>8
<1>9. ASSUME NEW r \in Requests,
             \/ \E kind \in Kinds, u \in Users, j \in Jobs : Arrive(r, kind, u, j)
             \/ Leave(r) \/ Recycle(r)
      PROVE  UNCHANGED <<redis, submit, worker>>
  BY <1>9 DEF Arrive, Leave, Recycle
<1> QED
  BY <1>3, <1>4, <1>5, <1>6, <1>7, <1>8, <1>9 DEF Next, JobStep, ClientStep, vars

\* The parts together, of which the properties are instances.
Settling == Handover /\ (~RedisFaults => Outcome)

LEMMA SettlingParts ==
    /\ Settling => (\A j \in Jobs : HandJob(j)) /\ (~RedisFaults => \A j \in Jobs : OutJob(j))
    /\ (\A j \in Jobs : HandJob(j)') /\ (~RedisFaults => \A j \in Jobs : OutJob(j)') => Settling'
BY DEF Settling, Handover, Outcome, HandJob, OutJob, FailedHasMessage, FinishedJobsSettle

LEMMA SettlingStep ==
    ASSUME TypeOK, Settling, [Next]_vars
    PROVE  Settling'
BY SettlingParts, HandoverStep, OutcomeStep

LEMMA SettlingInit == Init => Settling
<1> SUFFICES ASSUME Init PROVE Settling
  OBVIOUS
<1>1. \A j \in Jobs : redis[j]["state"].val = Nil
  BY DEF Init, Missing, Keys
<1>2. \A j \in Jobs : worker[j].pc = "none" /\ submit[j].pc = "none"
  BY DEF Init
<1> QED
  BY <1>1, <1>2, Constants
     DEF Settling, Handover, Outcome, FailedHasMessage, FinishedJobsSettle

LEMMA SettlingHolds == Spec => []Settling
<1>1. TypeOK /\ Settling /\ [Next]_vars => Settling'
  BY SettlingStep
<1> QED
  BY SettlingInit, <1>1, TypeCorrect, PTL DEF Spec

\* "failed" comes with its message, unless Redis refuses writes.
THEOREM FailedHasMessageCorrect == Spec => []FailedHasMessage
<1>1. Settling => FailedHasMessage
  BY DEF Settling, Outcome, FailedHasMessage
<1> QED
  BY <1>1, SettlingHolds, PTL

\* A handler that ends with its context alive leaves a final state.
THEOREM SettlesCorrect == Spec => []FinishedJobsSettle
<1>1. Settling => FinishedJobsSettle
  BY DEF Settling, Outcome, FinishedJobsSettle
<1> QED
  BY <1>1, SettlingHolds, PTL

\* Two parts of ResultsInOrder by name.
THEOREM NoPartialCorrect == Spec => []NoPartialResult
BY ResultsInOrder, PTL

THEOREM MissingCorrect == Spec => []MissingOnlyAfterExpiry
BY ResultsInOrder, PTL

-----------------------------------------------------------------------------
(* The service implements the abstract life of a job.                       *)

Phase == [j \in Jobs |-> Get(j, "state")]
Run == [j \in Jobs |-> RunOf(worker[j].pc)]

\* What the abstract life allows, over the two functions.
Alive ==
    \/ /\ Run' = Run
       /\ \E gone \in SUBSET Jobs : Phase' = [j \in Jobs |-> IF j \in gone THEN Nil ELSE Phase[j]]
    \/ \E j \in Jobs :
          \/ Run[j] = "absent" /\ Phase' = [Phase EXCEPT ![j] = "queued"] /\ Run' = Run
          \/ Run[j] = "absent" /\ Run' = [Run EXCEPT ![j] = "waiting"] /\ Phase' = Phase
          \/ /\ Run[j] = "waiting" /\ Run' = [Run EXCEPT ![j] = "busy"]
             /\ Phase' = [Phase EXCEPT ![j] = "running"] \/ Phase' = Phase
          \/ /\ Run[j] = "busy" /\ Run' = [Run EXCEPT ![j] = "ended"]
             /\ \E p \in {"done", "failed"} : Phase' = [Phase EXCEPT ![j] = p]
          \/ /\ Run[j] \in {"waiting", "busy"} /\ Run' = [Run EXCEPT ![j] = "ended"]
             /\ Phase' = Phase
          \/ Run[j] # "absent" /\ Phase' = [Phase EXCEPT ![j] = "cancelled"] /\ Run' = Run
    \/ Run' = Run /\ Phase' = Phase

LEMMA AliveIs == Alive => Lifecycle!Next \/ UNCHANGED Lifecycle!lifeVars
<1>1. ASSUME NEW j \in Jobs, Run[j] = "absent", Phase' = [Phase EXCEPT ![j] = "queued"], Run' = Run
      PROVE  Lifecycle!Next
  BY <1>1 DEF Lifecycle!Next, Lifecycle!Queue, Lifecycle!Show, Phase, Run
<1>2. ASSUME NEW j \in Jobs, Run[j] = "absent", Run' = [Run EXCEPT ![j] = "waiting"], Phase' = Phase
      PROVE  Lifecycle!Next
  BY <1>2 DEF Lifecycle!Next, Lifecycle!Accept, Lifecycle!Move, Phase, Run
<1>3. ASSUME NEW j \in Jobs, Run[j] = "waiting", Run' = [Run EXCEPT ![j] = "busy"],
             Phase' = [Phase EXCEPT ![j] = "running"] \/ Phase' = Phase
      PROVE  Lifecycle!Next
  BY <1>3 DEF Lifecycle!Next, Lifecycle!Begin, Lifecycle!Move, Lifecycle!Show, Phase, Run
<1>4. ASSUME NEW j \in Jobs, Run[j] = "busy", Run' = [Run EXCEPT ![j] = "ended"],
             NEW p \in {"done", "failed"}, Phase' = [Phase EXCEPT ![j] = p]
      PROVE  Lifecycle!Next
  BY <1>4 DEF Lifecycle!Next, Lifecycle!Publish, Lifecycle!Move, Lifecycle!Show, Phase, Run
<1>5. ASSUME NEW j \in Jobs, Run[j] \in {"waiting", "busy"}, Run' = [Run EXCEPT ![j] = "ended"],
             Phase' = Phase
      PROVE  Lifecycle!Next
  BY <1>5 DEF Lifecycle!Next, Lifecycle!Abandon, Lifecycle!Move, Phase, Run
<1>6. ASSUME NEW j \in Jobs, Run[j] # "absent", Phase' = [Phase EXCEPT ![j] = "cancelled"],
             Run' = Run
      PROVE  Lifecycle!Next
  BY <1>6 DEF Lifecycle!Next, Lifecycle!Cancel, Lifecycle!Show, Phase, Run
<1>7. ASSUME NEW gone \in SUBSET Jobs, Run' = Run,
             Phase' = [j \in Jobs |-> IF j \in gone THEN Nil ELSE Phase[j]]
      PROVE  Lifecycle!Next
  BY <1>7 DEF Lifecycle!Next, Lifecycle!Forget, Phase, Run
<1>8. Run' = Run /\ Phase' = Phase => UNCHANGED Lifecycle!lifeVars
  BY DEF Lifecycle!lifeVars, Phase, Run
<1> QED
  BY <1>1, <1>2, <1>3, <1>4, <1>5, <1>6, <1>7, <1>8 DEF Alive

\* A write shows in the phase when it goes to the state, and else not.
LEMMA PhaseSet ==
    ASSUME TypeOK, NEW j \in Jobs, NEW k \in Keys, NEW v \in Values, k = "state" => v \in Phases,
           Set(j, k, v)
    PROVE  Phase' = IF k = "state" THEN [Phase EXCEPT ![j] = v] ELSE Phase
<1>1. RedisType
  BY DEF TypeOK, RedisType
<1>2. /\ redis'[j][k] = [val |-> v, ttl |-> TTL]
      /\ \A i \in Jobs, l \in Keys : i # j \/ l # k => redis'[i][l] = redis[i][l]
  BY <1>1, SetEffect
<1>3. "state" \in Keys /\ TTL # 0
  BY Constants, TTLAssumption
<1>4. CASE k = "state"
  <2>1. \A i \in Jobs : Get(i, "state")' = IF i = j THEN v ELSE Get(i, "state")
    BY <1>2, <1>3, <1>4 DEF Get
  <2> QED
    BY <1>4, <2>1 DEF Phase
<1>5. CASE k # "state"
  <2>1. \A i \in Jobs : Get(i, "state")' = Get(i, "state")
    BY <1>2, <1>3, <1>5 DEF Get
  <2> QED
    BY <1>5, <2>1 DEF Phase
<1> QED
  BY <1>4, <1>5

LEMMA PhaseSame == UNCHANGED redis => Phase' = Phase
BY DEF Phase, Get

\* The run of a job is that of its worker.
LEMMA RunStep ==
    ASSUME TypeOK, NEW j \in Jobs, \A i \in Jobs : i # j => worker'[i] = worker[i]
    PROVE  Run' = [Run EXCEPT ![j] = RunOf(worker'[j].pc)]
<1>1. \A i \in Jobs : RunOf(worker[i].pc)' = IF i = j THEN RunOf(worker'[j].pc) ELSE RunOf(worker[i].pc)
  OBVIOUS
<1> QED
  BY <1>1 DEF Run

LEMMA RunSame ==
    ASSUME TypeOK, NEW j \in Jobs, \A i \in Jobs : i # j => worker'[i] = worker[i],
           RunOf(worker'[j].pc) = RunOf(worker[j].pc)
    PROVE  Run' = Run
<1>1. \A i \in Jobs : RunOf(worker[i].pc)' = RunOf(worker[i].pc)
  OBVIOUS
<1> QED
  BY <1>1 DEF Run

LEMMA LifeSubmit ==
    ASSUME TypeOK, NEW j \in Jobs, HandJob(j),
           SubmitStep(j) \/ \E u \in Users : SubmitArrive(j, u)
    PROVE  Alive
<1>1. submit[j].user \in Values /\ RedisType
  BY DEF TypeOK, Submits, Values, RedisType
<1>2. worker' = worker => Run' = Run
  BY DEF Run
<1>3. CASE PrimeState(j)
  <2>1. worker' = worker /\ Run[j] = "absent"
    BY <1>3 DEF PrimeState, SubmitGoto, HandJob, Run, RunOf
  <2>2. UNCHANGED redis \/ Set(j, "state", "queued")
    BY <1>3 DEF PrimeState, SetFails
  <2>3. Phase' = Phase \/ Phase' = [Phase EXCEPT ![j] = "queued"]
    BY <2>2, PhaseSame, PhaseSet, Constants
  <2> QED
    BY <1>2, <2>1, <2>3 DEF Alive
<1>4. CASE \/ PrimeUser(j) \/ RecordTask(j)
           \/ \E u \in Users : SubmitArrive(j, u)
  <2>1. worker' = worker
    BY <1>4 DEF PrimeUser, RecordTask, SubmitArrive
  <2>2. \/ UNCHANGED redis
        \/ Set(j, "userId", submit[j].user) \/ Set(j, "taskId", "task")
    BY <1>4 DEF PrimeUser, RecordTask, SubmitArrive, SetFails
  <2>3. Phase' = Phase
    BY <1>1, <2>2, PhaseSame, PhaseSet, Constants
  <2> QED
    BY <1>2, <2>1, <2>3 DEF Alive
<1>5. CASE Enqueue(j)
  <2>1. Phase' = Phase
    BY <1>5, PhaseSame DEF Enqueue
  <2>2. CASE worker' = worker
    BY <1>2, <2>1, <2>2 DEF Alive
  <2>3. CASE worker' = [worker EXCEPT ![j].pc = "pending"]
    <3>1. worker'[j].pc = "pending" /\ \A i \in Jobs : i # j => worker'[i] = worker[i]
      BY <2>3 DEF TypeOK, Workers
    <3>2. Run' = [Run EXCEPT ![j] = "waiting"]
      BY <3>1, RunStep DEF RunOf
    <3>3. Run[j] = "absent"
      BY <1>5 DEF Enqueue, SubmitGoto, HandJob, Run, RunOf
    <3> QED
      BY <2>1, <3>2, <3>3 DEF Alive
  <2> QED
    BY <1>5, <2>2, <2>3 DEF Enqueue
<1>6. CASE Rollback(j)
  <2>1. worker' = worker
    BY <1>6 DEF Rollback
  <2>2. CASE UNCHANGED redis
    BY <1>2, <2>1, <2>2, PhaseSame DEF Alive
  <2>3. ASSUME NEW ks \in SUBSET {"state", "userId"}, "state" \in ks, Del(j, ks)
        PROVE  Alive
    <3>1. ks \in SUBSET Keys /\ "state" \in Keys
      BY Constants
    <3>2. /\ redis'[j]["state"] = Missing
          /\ \A i \in Jobs : i # j => redis'[i]["state"] = redis[i]["state"]
      BY <1>1, <2>3, <3>1, DelEffect
    <3>3. \A i \in Jobs : Get(i, "state")' = IF i \in {j} THEN Nil ELSE Get(i, "state")
      BY <3>2 DEF Get, Missing
    <3>4. Phase' = [i \in Jobs |-> IF i \in {j} THEN Nil ELSE Phase[i]]
      BY <3>3 DEF Phase
    <3> QED
      BY <1>2, <2>1, <3>4 DEF Alive
  <2> QED
    BY <1>6, <2>2, <2>3 DEF Rollback
<1> QED
  BY <1>3, <1>4, <1>5, <1>6 DEF SubmitStep

LEMMA LifeWorker ==
    ASSUME TypeOK, NEW j \in Jobs,
           Dequeue(j) \/ HandlerStep(j) \/ Timeout(j) \/ DeliverCancel(j) \/ Crash(j)
    PROVE  Alive
<1>1. worker \in [Jobs -> Workers] /\ worker[j].resp \in Values
  BY DEF TypeOK, Workers, Values
<1>2. \A i \in Jobs : i # j => worker'[i] = worker[i]
  BY WorkerMoves
<1>3. Run' = [Run EXCEPT ![j] = RunOf(worker'[j].pc)] /\ Run[j] = RunOf(worker[j].pc)
  BY <1>2, RunStep DEF Run
<1>4. RunOf(worker'[j].pc) = RunOf(worker[j].pc) => Run' = Run
  BY <1>2, RunSame
<1>5. \A from, to : WorkerGoto(j, from, to) => worker[j].pc = from /\ worker'[j].pc = to
  BY <1>1 DEF WorkerGoto, Workers
<1>6. \A k, v : PutOk(j, k, v) \/ PutFails(j, k, v) => UNCHANGED redis \/ Set(j, k, v)
  BY DEF PutOk, PutFails, SetFails
<1>7. CASE Dequeue(j) \/ Timeout(j) \/ DeliverCancel(j)
  <2>1. RunOf(worker'[j].pc) = RunOf(worker[j].pc)
    <3>1. CASE Dequeue(j)
      BY <1>5, <3>1 DEF Dequeue, RunOf
    <3>2. CASE Timeout(j) \/ DeliverCancel(j)
      <4>1. worker'[j].pc = worker[j].pc
        BY <1>1, <3>2 DEF Timeout, DeliverCancel, Workers
      <4> QED
        BY <4>1
    <3> QED
      BY <1>7, <3>1, <3>2
  <2> QED
    BY <1>4, <1>7, <2>1, PhaseSame DEF Dequeue, Timeout, DeliverCancel, Alive
<1>8. CASE Crash(j)
  <2>1. Run[j] \in {"waiting", "busy"} /\ worker'[j].pc = "crashed"
    BY <1>1, <1>3, <1>8 DEF Crash, Busy, RunOf, Workers
  <2>2. Run' = [Run EXCEPT ![j] = "ended"]
    BY <1>3, <2>1 DEF RunOf
  <2> QED
    BY <1>8, <2>1, <2>2, PhaseSame DEF Crash, Alive
<1>9. CASE MarkRunning(j)
  <2>1. Run[j] = "waiting" /\ Run' = [Run EXCEPT ![j] = "busy"]
    <3>1. worker[j].pc = "markRunning" /\ worker'[j].pc = "decode"
      BY <1>5, <1>9 DEF MarkRunning
    <3>2. RunOf(worker[j].pc) = "waiting" /\ RunOf(worker'[j].pc) = "busy"
      BY <3>1 DEF RunOf
    <3> QED
      BY <1>3, <3>2
  <2>2. UNCHANGED redis \/ Set(j, "state", "running")
    BY <1>6, <1>9 DEF MarkRunning
  <2>3. Phase' = Phase \/ Phase' = [Phase EXCEPT ![j] = "running"]
    BY <2>2, PhaseSame, PhaseSet, Constants
  <2> QED
    BY <2>1, <2>3 DEF Alive
<1>10. CASE Decode(j) \/ EarlyCheck(j) \/ Generate(j) \/ LateCheck(j)
  <2>1. UNCHANGED redis
    BY <1>10 DEF Decode, EarlyCheck, Generate, LateCheck
  <2>2. worker[j].pc \in {"decode", "early", "generate", "late"}
    BY <1>10 DEF Decode, EarlyCheck, Generate, LateCheck
  <2>3. worker'[j].pc \in {"putError", "putResult", "early", "late", "delay", "generate"}
    <3>1. CASE Decode(j) \/ Generate(j)
      BY <3>1, Choices
    <3>2. CASE EarlyCheck(j) \/ LateCheck(j)
      <4>1. GiveUp(j) \/ \E to \in {"delay", "generate", "putResult"} : \E from : WorkerGoto(j, from, to)
        BY <3>2 DEF EarlyCheck, LateCheck
      <4> QED
        BY <1>5, <4>1, Choices
    <3> QED
      BY <1>10, <3>1, <3>2
  <2>4. RunOf(worker'[j].pc) = "busy" /\ RunOf(worker[j].pc) = "busy"
    BY <2>2, <2>3 DEF RunOf
  <2> QED
    BY <1>4, <2>1, <2>4, PhaseSame DEF Alive
<1>11. CASE Delay(j)
  <2>1. Run[j] = "busy" /\ worker'[j].pc \in {"generate", "over"} /\ UNCHANGED redis
    BY <1>3, <1>5, <1>11 DEF Delay, RunOf
  <2>2. Run' \in {Run, [Run EXCEPT ![j] = "ended"]}
    BY <1>3, <1>4, <2>1 DEF RunOf
  <2> QED
    BY <2>1, <2>2, PhaseSame DEF Alive
<1>12. CASE PutResult(j)
  <2>1. Run[j] = "busy" /\ worker'[j].pc \in {"putDone", "over"}
    BY <1>3, <1>5, <1>12 DEF PutResult, RunOf
  <2>2. Run' \in {Run, [Run EXCEPT ![j] = "ended"]}
    BY <1>3, <1>4, <2>1 DEF RunOf
  <2>3. UNCHANGED redis \/ Set(j, "result", worker[j].resp)
    BY <1>6, <1>12 DEF PutResult
  <2>4. Phase' = Phase
    BY <1>1, <2>3, PhaseSame, PhaseSet, Constants
  <2> QED
    BY <2>1, <2>2, <2>4 DEF Alive
<1>13. CASE PutError(j)
  <2>1. RunOf(worker'[j].pc) = "busy" /\ RunOf(worker[j].pc) = "busy"
    BY <1>5, <1>13 DEF PutError, RunOf
  <2>2. UNCHANGED redis \/ Set(j, "error", "message")
    BY <1>6, <1>13 DEF PutError
  <2>3. Phase' = Phase
    BY <2>2, PhaseSame, PhaseSet, Constants
  <2> QED
    BY <1>4, <2>1, <2>3 DEF Alive
<1>14. ASSUME NEW p \in {"done", "failed"}, NEW from \in {"putDone", "putFailed"},
              WorkerGoto(j, from, "over"), PutOk(j, "state", p) \/ PutFails(j, "state", p)
       PROVE  Alive
  <2>1. Run[j] = "busy" /\ Run' = [Run EXCEPT ![j] = "ended"]
    <3>1. worker[j].pc \in {"putDone", "putFailed"} /\ worker'[j].pc = "over"
      BY <1>5, <1>14
    <3>2. RunOf(worker[j].pc) = "busy" /\ RunOf(worker'[j].pc) = "ended"
      BY <3>1 DEF RunOf
    <3> QED
      BY <1>3, <3>2
  <2>2. UNCHANGED redis \/ Set(j, "state", p)
    BY <1>6, <1>14
  <2>3. Phase' = Phase \/ Phase' = [Phase EXCEPT ![j] = p]
    BY <2>2, PhaseSame, PhaseSet, Constants
  <2> QED
    BY <2>1, <2>3 DEF Alive
<1>15. CASE PutDone(j) \/ PutFailed(j)
  BY <1>14, <1>15 DEF PutDone, PutFailed
<1> QED
  BY <1>7, <1>8, <1>9, <1>10, <1>11, <1>12, <1>13, <1>15 DEF HandlerStep

LEMMA LifeStep ==
    ASSUME TypeOK, \A j \in Jobs : HandJob(j), \A r \in Requests : AdmReq(r), [Next]_vars
    PROVE  Alive
<1>1. ASSUME NEW j \in Jobs, JobStep(j)
      PROVE  Alive
  BY <1>1, LifeSubmit, LifeWorker DEF JobStep
<1>2. worker' = worker => Run' = Run
  BY DEF Run
<1>3. ASSUME NEW r \in Requests, RequestStep(r)
      PROVE  Alive
  <2>1. worker' = worker
    BY <1>3 DEF RequestStep, Gate, ReadState, ReadResult, ReadError, LoopGone, FastEnd,
                FindTask, SendCancel, MarkCancelled, Query
  <2>2. CASE UNCHANGED redis
    BY <1>2, <2>1, <2>2, PhaseSame DEF Alive
  <2>3. CASE /\ req[r].pc = "mark" /\ req[r].job \in Jobs
             /\ Set(req[r].job, "state", "cancelled")
    <3>1. Run[req[r].job] # "absent"
      <4>1. worker[req[r].job].pc # "none"
        BY <2>3 DEF AdmReq, HandJob
      <4> QED
        BY <2>3, <4>1 DEF Run, RunOf
    <3>2. Phase' = [Phase EXCEPT ![req[r].job] = "cancelled"]
      BY <2>3, PhaseSet, Constants
    <3> QED
      BY <1>2, <2>1, <2>3, <3>1, <3>2 DEF Alive
  <2> QED
    BY <1>3, <2>2, <2>3, RequestWrites
<1>4. CASE Tick
  <2>1. /\ \A i \in Jobs, l \in Keys : redis'[i][l].val = redis[i][l].val
        /\ \A i \in Jobs, l \in Keys : redis[i][l].ttl = 0 => redis'[i][l].ttl = 0
    BY <1>4, TickEffect DEF TypeOK, RedisType
  <2>2. \A i \in Jobs : Get(i, "state")' = IF redis'[i]["state"].ttl = 0 THEN Nil ELSE Get(i, "state")
    BY <2>1, Constants DEF Get
  <2> DEFINE gone == {i \in Jobs : redis'[i]["state"].ttl = 0}
  <2>3. Phase' = [i \in Jobs |-> IF i \in gone THEN Nil ELSE Phase[i]]
    BY <2>2 DEF Phase
  <2>4. Run' = Run
    BY <1>2, <1>4 DEF Tick
  <2> QED
    BY <2>3, <2>4 DEF Alive
<1>5. CASE UNCHANGED <<redis, worker>>
  BY <1>2, <1>5, PhaseSame DEF Alive
<1>6. ASSUME NEW r \in Requests,
             \/ \E kind \in Kinds, u \in Users, j \in Jobs : Arrive(r, kind, u, j)
             \/ Leave(r) \/ Recycle(r)
      PROVE  UNCHANGED <<redis, worker>>
  BY <1>6 DEF Arrive, Leave, Recycle
<1> QED
  BY <1>1, <1>3, <1>4, <1>5, <1>6 DEF Next, ClientStep, vars

\* Every step of the handlers, the worker and the clock is a step of the abstract
\* life, or changes nothing in it.
THEOREM LifecycleCorrect == Spec => LifecycleHolds
<1>1. Init => Lifecycle!Init
  BY DEF Init, Lifecycle!Init, Get, Missing, RunOf, Keys
<1>2. TypeOK /\ Admission /\ Settling /\ [Next]_vars => [Lifecycle!Next]_(Lifecycle!lifeVars)
  BY LifeStep, AliveIs, AdmissionParts, SettlingParts
<1>3. Spec => []Admission
  <2>1. TypeOK /\ Admission /\ [Next]_vars => Admission'
    BY AdmissionStep
  <2> QED
    BY AdmissionInit, <2>1, TypeCorrect, PTL DEF Spec
<1> QED
  BY <1>1, <1>2, <1>3, TypeCorrect, SettlingHolds, PTL DEF Spec, LifecycleHolds, Lifecycle!Spec
=============================================================================
