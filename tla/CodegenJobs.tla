----------------------------- MODULE CodegenJobs -----------------------------
(***************************************************************************)
(* Asynchronous code generation: the HTTP handlers that submit, stream,    *)
(* cancel and query a job (server/handler/codegen), the worker that runs   *)
(* it (server/cmd/worker) and the Redis keys codegen:job:{id}:* they meet  *)
(* in.  Every Redis call is one step, so the handlers and the worker       *)
(* interleave between any two of them.                                     *)
(*                                                                         *)
(* Data is abstract: a result is "complete" or "partial", an error is      *)
(* "message", a task id is "task".  The language key, which nothing reads  *)
(* for a decision, is left out.                                            *)
(***************************************************************************)
EXTENDS Naturals

CONSTANTS
    Jobs,         \* job ids
    Users,        \* authenticated user ids
    Requests,     \* HTTP requests in progress: streams, cancels, status queries
    Nil,          \* the missing value (redis.Nil)
    TTL,          \* CodegenJobTTL in ticks of the clock
    RedisFaults,  \* may a Redis or queue call return an error?
    TestHook      \* is IOTMAKER_CODEGEN_DELAY_MS set?

Phases == {"queued", "running", "done", "failed", "cancelled"}

ASSUME TTLAssumption == TTL \in Nat \ {0}
ASSUME FlagAssumption == RedisFaults \in BOOLEAN /\ TestHook \in BOOLEAN
ASSUME NilAssumption ==
    Nil \notin Users \cup Phases \cup {"task", "complete", "partial", "message"}

VARIABLES
    redis,      \* redis[j][k]: value last written to the key and its time to live
    submit,     \* submit[j]: the submit handler of job j and its caller
    worker,     \* worker[j]: the task of job j and the handler running it
    cancelSig,  \* cancelSig[j]: the cancel message Asynq publishes to the workers
    req         \* req[r]: one stream, cancel or status request

vars == <<redis, submit, worker, cancelSig, req>>

-----------------------------------------------------------------------------
(* Redis: an expired key keeps the value last written, as history, and no   *)
(* reader sees it.                                                          *)

Keys == {"state", "userId", "taskId", "result", "error"}
Values == Phases \cup Users \cup {Nil, "task", "complete", "partial", "message"}
Missing == [val |-> Nil, ttl |-> 0]

Get(j, k) == IF redis[j][k].ttl = 0 THEN Nil ELSE redis[j][k].val

Set(j, k, v) == redis' = [redis EXCEPT ![j][k] = [val |-> v, ttl |-> TTL]]

Del(j, ks) ==
    redis' = [redis EXCEPT ![j] = [k \in Keys |-> IF k \in ks THEN Missing ELSE redis[j][k]]]

\* A write that returns an error may still have been carried out.
SetFails(j, k, v) == RedisFaults /\ (UNCHANGED redis \/ Set(j, k, v))

-----------------------------------------------------------------------------
(* Submit: prime the keys, enqueue, record the task id, answer 202.         *)

SubmitGoto(j, from, to) ==
    /\ submit[j].pc = from
    /\ submit' = [submit EXCEPT ![j].pc = to]

SubmitArrive(j, u) ==
    /\ submit[j].pc = "none"
    /\ submit' = [submit EXCEPT ![j] = [pc |-> "primeState", user |-> u]]
    /\ UNCHANGED <<redis, worker, cancelSig, req>>

PrimeState(j) ==
    /\ \/ SubmitGoto(j, "primeState", "primeUser") /\ Set(j, "state", "queued")
       \/ SubmitGoto(j, "primeState", "refused") /\ SetFails(j, "state", "queued")
    /\ UNCHANGED <<worker, cancelSig, req>>

PrimeUser(j) ==
    /\ \/ SubmitGoto(j, "primeUser", "enqueue") /\ Set(j, "userId", submit[j].user)
       \/ SubmitGoto(j, "primeUser", "undoState") /\ SetFails(j, "userId", submit[j].user)
    /\ UNCHANGED <<worker, cancelSig, req>>

\* The queue may take the task and still report an error to the client.
Enqueue(j) ==
    /\ \/ /\ SubmitGoto(j, "enqueue", "recordTask")
          /\ worker' = [worker EXCEPT ![j].pc = "pending"]
       \/ /\ RedisFaults
          /\ SubmitGoto(j, "enqueue", "undoAll")
          /\ UNCHANGED worker \/ worker' = [worker EXCEPT ![j].pc = "pending"]
    /\ UNCHANGED <<redis, cancelSig, req>>

\* The rollback uses the request context too: its failure is ignored.
Rollback(j) ==
    /\ \/ SubmitGoto(j, "undoState", "refused") /\ Del(j, {"state"})
       \/ SubmitGoto(j, "undoAll", "refused") /\ Del(j, {"state", "userId"})
       \/ /\ RedisFaults
          /\ \/ SubmitGoto(j, "undoState", "refused")
             \/ SubmitGoto(j, "undoAll", "refused")
          /\ UNCHANGED redis
    /\ UNCHANGED <<worker, cancelSig, req>>

\* Mutation: the state is primed after the task is on the queue.
RecordTaskPrimingLate(j) ==
    /\ SubmitGoto(j, "recordTask", "accepted")
    /\ Set(j, "state", "queued")
    /\ UNCHANGED <<worker, cancelSig, req>>

\* Written after the task is on the queue; an error is ignored.
RecordTask(j) ==
    /\ SubmitGoto(j, "recordTask", "accepted")
    /\ Set(j, "taskId", "task") \/ SetFails(j, "taskId", "task")
    /\ UNCHANGED <<worker, cancelSig, req>>

SubmitStep(j) ==
    \/ PrimeState(j) \/ PrimeUser(j) \/ Enqueue(j) \/ Rollback(j) \/ RecordTask(j)

-----------------------------------------------------------------------------
(* Worker: makeCodegenHandler and the publish helpers.                      *)

Busy == {"markRunning", "decode", "early", "delay", "generate", "late",
         "putResult", "putDone", "putError", "putFailed"}

WorkerGoto(j, from, to) ==
    /\ worker[j].pc = from
    /\ worker' = [worker EXCEPT ![j].pc = to]

\* publishCodegenError on entry: detach from a context that is already dead.
GiveUp(j) ==
    worker' = [worker EXCEPT ![j] = [@ EXCEPT !.pc = "putError", !.detached = worker[j].ctxDone]]

\* Writes go through the task's context unless the handler has detached.
CanWrite(j) == ~worker[j].ctxDone \/ worker[j].detached
PutOk(j, k, v) == CanWrite(j) /\ Set(j, k, v)
PutFails(j, k, v) == IF CanWrite(j) THEN SetFails(j, k, v) ELSE UNCHANGED redis

Dequeue(j) ==
    WorkerGoto(j, "pending", "markRunning") /\ UNCHANGED <<redis, submit, cancelSig, req>>

MarkRunning(j) ==
    /\ WorkerGoto(j, "markRunning", "decode")
    /\ PutOk(j, "state", "running") \/ PutFails(j, "state", "running")
    /\ UNCHANGED <<submit, cancelSig, req>>

\* A payload that does not decode, a case preview, or a full generation.
Decode(j) ==
    /\ worker[j].pc = "decode"
    /\ \/ GiveUp(j)
       \/ worker' = [worker EXCEPT ![j] = [@ EXCEPT !.pc = "putResult", !.resp = "complete"]]
       \/ worker' = [worker EXCEPT ![j].pc = "early"]
    /\ UNCHANGED <<redis, submit, cancelSig, req>>

EarlyCheck(j) ==
    /\ worker[j].pc = "early"
    /\ IF worker[j].ctxDone THEN GiveUp(j)
       ELSE WorkerGoto(j, "early", IF TestHook THEN "delay" ELSE "generate")
    /\ UNCHANGED <<redis, submit, cancelSig, req>>

\* The test delay: when the context ends first, the handler just returns.
Delay(j) ==
    /\ \/ WorkerGoto(j, "delay", "generate")
       \/ worker[j].ctxDone /\ WorkerGoto(j, "delay", "over")
    /\ UNCHANGED <<redis, submit, cancelSig, req>>

\* Generate checks its context between stages and returns what it has; it
\* may also panic, which the deferred recover publishes as an error.
Generate(j) ==
    /\ worker[j].pc = "generate"
    /\ \/ \E r \in {"complete"} \cup (IF worker[j].ctxDone THEN {"partial"} ELSE {}) :
             worker' = [worker EXCEPT ![j] = [@ EXCEPT !.pc = "late", !.resp = r]]
       \/ GiveUp(j)
    /\ UNCHANGED <<redis, submit, cancelSig, req>>

\* Mutation: a context that has ended is detached from, and what there is published.
LateCheckPublishing(j) ==
    /\ worker[j].pc = "late"
    /\ worker' = [worker EXCEPT ![j] = [@ EXCEPT !.pc = "putResult",
                                                !.detached = worker[j].ctxDone]]
    /\ UNCHANGED <<redis, submit, cancelSig, req>>

LateCheck(j) ==
    /\ worker[j].pc = "late"
    /\ IF worker[j].ctxDone THEN GiveUp(j) ELSE WorkerGoto(j, "late", "putResult")
    /\ UNCHANGED <<redis, submit, cancelSig, req>>

\* Mutation: the state is flipped before the result is written.
PutResultStateFirst(j) ==
    /\ WorkerGoto(j, "putResult", "putDone") /\ PutOk(j, "state", "done")
    /\ UNCHANGED <<submit, cancelSig, req>>

\* publishCodegenResult: the result first, the state second.
PutResult(j) ==
    /\ \/ WorkerGoto(j, "putResult", "putDone") /\ PutOk(j, "result", worker[j].resp)
       \/ WorkerGoto(j, "putResult", "over") /\ PutFails(j, "result", worker[j].resp)
    /\ UNCHANGED <<submit, cancelSig, req>>

PutDone(j) ==
    /\ WorkerGoto(j, "putDone", "over")
    /\ PutOk(j, "state", "done") \/ PutFails(j, "state", "done")
    /\ UNCHANGED <<submit, cancelSig, req>>

\* Mutation: the message goes through the task's context, detached or not.
PutErrorAttached(j) ==
    /\ WorkerGoto(j, "putError", "putFailed")
    /\ IF worker[j].ctxDone THEN UNCHANGED redis ELSE Set(j, "error", "message")
    /\ UNCHANGED <<submit, cancelSig, req>>

\* publishCodegenError: the message first (its loss is tolerated), then the state.
PutError(j) ==
    /\ WorkerGoto(j, "putError", "putFailed")
    /\ PutOk(j, "error", "message") \/ PutFails(j, "error", "message")
    /\ UNCHANGED <<submit, cancelSig, req>>

PutFailed(j) ==
    /\ WorkerGoto(j, "putFailed", "over")
    /\ PutOk(j, "state", "failed") \/ PutFails(j, "state", "failed")
    /\ UNCHANGED <<submit, cancelSig, req>>

HandlerStep(j) ==
    \/ MarkRunning(j) \/ Decode(j) \/ EarlyCheck(j) \/ Delay(j) \/ Generate(j)
    \/ LateCheck(j) \/ PutResult(j) \/ PutDone(j) \/ PutError(j) \/ PutFailed(j)

\* asynq.Timeout: the task's context ends while the handler is anywhere.
Timeout(j) ==
    /\ worker[j].pc \in Busy
    /\ ~worker[j].ctxDone
    /\ worker' = [worker EXCEPT ![j].ctxDone = TRUE]
    /\ UNCHANGED <<redis, submit, cancelSig, req>>

\* The cancel message reaches the workers: it ends the context of a task
\* being processed and means nothing to one that is waiting or over.
DeliverCancel(j) ==
    /\ cancelSig[j] = "sent"
    /\ cancelSig' = [cancelSig EXCEPT ![j] = "seen"]
    /\ worker' = [worker EXCEPT ![j].ctxDone = @ \/ worker[j].pc \in Busy]
    /\ UNCHANGED <<redis, submit, req>>

\* Mutation: the queue runs an interrupted task again.
CrashRetried(j) ==
    /\ worker[j].pc \in Busy
    /\ worker' = [worker EXCEPT ![j].pc = "pending"]
    /\ UNCHANGED <<redis, submit, cancelSig, req>>

\* The worker process dies; with MaxRetry(0) the task is archived, not rerun.
Crash(j) ==
    /\ worker[j].pc \in Busy
    /\ worker' = [worker EXCEPT ![j].pc = "crashed"]
    /\ UNCHANGED <<redis, submit, cancelSig, req>>

-----------------------------------------------------------------------------
(* Requests on an accepted job.                                             *)

Kinds == {"stream", "cancel", "status"}

IdleRequest == [pc |-> "idle", kind |-> "status", user |-> Nil, job |-> Nil,
                loop |-> FALSE, gone |-> FALSE, event |-> "none"]

\* A client learns the job id from the 202 answer, so it comes after it.
Arrive(r, kind, u, j) ==
    /\ req[r].pc = "idle"
    /\ submit[j].pc = "accepted"
    /\ req' = [req EXCEPT ![r] = [pc |-> "gate", kind |-> kind, user |-> u, job |-> j,
                                  loop |-> FALSE, gone |-> FALSE, event |-> "none"]]
    /\ UNCHANGED <<redis, submit, worker, cancelSig>>

\* The browser closes the EventSource: the request context ends.
Leave(r) ==
    /\ req[r].kind = "stream"
    /\ req[r].pc \notin {"idle", "closed"}
    /\ ~req[r].gone
    /\ req' = [req EXCEPT ![r].gone = TRUE]
    /\ UNCHANGED <<redis, submit, worker, cancelSig>>

Goto(r, to) == req' = [req EXCEPT ![r].pc = to]
Reply(r, event) == req' = [req EXCEPT ![r] = [@ EXCEPT !.pc = "closed", !.event = event]]

\* checkAndDeliver returned true: the ticker loop returns at once, the fast
\* path looks at the context first.
Finish(r, event) ==
    req' = [req EXCEPT ![r] = [@ EXCEPT !.pc = IF req[r].loop THEN "closed" ELSE "fastEnd",
                                        !.event = event]]

\* Mutation: the gate asks whether the job has an owner, not who it is.
GateAnyOwner(r) ==
    /\ req[r].pc = "gate"
    /\ Get(req[r].job, "userId") # Nil
    /\ Goto(r, CASE req[r].kind = "stream" -> "read"
                 [] req[r].kind = "cancel" -> "task"
                 [] req[r].kind = "status" -> "query")
    /\ UNCHANGED <<redis, submit, worker, cancelSig>>

\* ownsJob in front of every endpoint; each refusal looks like a missing job.
Gate(r) ==
    /\ req[r].pc = "gate"
    /\ IF req[r].gone THEN Goto(r, "task")
       ELSE \/ /\ Get(req[r].job, "userId") = req[r].user
               /\ Goto(r, CASE req[r].kind = "stream" -> "read"
                            [] req[r].kind = "cancel" -> "task"
                            [] req[r].kind = "status" -> "query")
            \/ /\ RedisFaults \/ Get(req[r].job, "userId") # req[r].user
               /\ Reply(r, "notFound")
    /\ UNCHANGED <<redis, submit, worker, cancelSig>>

\* Mutation: a missing state means keep polling.
ReadStatePatient(r) ==
    LET phase == Get(req[r].job, "state") IN
    /\ req[r].pc = "read"
    /\ IF req[r].gone THEN Finish(r, "none")
       ELSE \/ phase \in {Nil, "queued", "running"} /\ req' = [req EXCEPT ![r].loop = TRUE]
            \/ phase = "done" /\ Goto(r, "readResult")
            \/ phase = "cancelled" /\ Finish(r, "cancelled")
            \/ phase = "failed" /\ Goto(r, "readError")
    /\ UNCHANGED <<redis, submit, worker, cancelSig>>

\* checkAndDeliver: read the state and act on what was read.
ReadState(r) ==
    LET phase == Get(req[r].job, "state") IN
    /\ req[r].pc = "read"
    /\ IF req[r].gone THEN Finish(r, "none")
       ELSE \/ RedisFaults /\ Finish(r, "infra")
            \/ phase = Nil /\ Finish(r, "notFound")
            \/ phase \in {"queued", "running"} /\ req' = [req EXCEPT ![r].loop = TRUE]
            \/ phase = "done" /\ Goto(r, "readResult")
            \/ phase = "cancelled" /\ Finish(r, "cancelled")
            \/ phase = "failed" /\ Goto(r, "readError")
    /\ UNCHANGED <<redis, submit, worker, cancelSig>>

ReadResult(r) ==
    /\ req[r].pc = "readResult"
    /\ IF req[r].gone THEN Finish(r, "none")
       ELSE \/ Get(req[r].job, "result") # Nil /\ Finish(r, "result")
            \/ /\ RedisFaults \/ Get(req[r].job, "result") = Nil
               /\ Finish(r, "missing")
    /\ UNCHANGED <<redis, submit, worker, cancelSig>>

ReadError(r) ==
    /\ req[r].pc = "readError"
    /\ IF req[r].gone THEN Finish(r, "none")
       ELSE \/ Get(req[r].job, "error") # Nil /\ Finish(r, "failed")
            \/ /\ RedisFaults \/ Get(req[r].job, "error") = Nil
               /\ Finish(r, "failedBare")
    /\ UNCHANGED <<redis, submit, worker, cancelSig>>

\* The select of the ticker loop takes ctx.Done.
LoopGone(r) ==
    /\ req[r].pc = "read" /\ req[r].loop /\ req[r].gone
    /\ Goto(r, "task")
    /\ UNCHANGED <<redis, submit, worker, cancelSig>>

\* After the fast path: a context that has ended by now cancels the job, also
\* when the event has just been delivered.
FastEnd(r) ==
    /\ req[r].pc = "fastEnd"
    /\ Goto(r, IF req[r].gone THEN "task" ELSE "closed")
    /\ UNCHANGED <<redis, submit, worker, cancelSig>>

\* Cancelling, for handleCancel and for cancelTaskFromStream: find the task ...
FindTask(r) ==
    /\ req[r].pc = "task"
    /\ \/ Get(req[r].job, "taskId") # Nil /\ Goto(r, "signal")
       \/ /\ RedisFaults \/ Get(req[r].job, "taskId") = Nil
          /\ IF req[r].kind = "stream" THEN Goto(r, "closed") ELSE Reply(r, "notFound")
    /\ UNCHANGED <<redis, submit, worker, cancelSig>>

\* ... ask Asynq to end it (an error is ignored) ...
SendCancel(r) ==
    /\ req[r].pc = "signal"
    /\ Goto(r, "mark")
    /\ \/ cancelSig' = [cancelSig EXCEPT ![req[r].job] = "sent"]
       \/ RedisFaults /\ UNCHANGED cancelSig
    /\ UNCHANGED <<redis, submit, worker>>

\* ... and overwrite whatever state the job is in.
MarkCancelled(r) ==
    /\ req[r].pc = "mark"
    /\ Set(req[r].job, "state", "cancelled") \/ SetFails(req[r].job, "state", "cancelled")
    /\ IF req[r].kind = "stream" THEN Goto(r, "closed") ELSE Reply(r, "cancelOk")
    /\ UNCHANGED <<submit, worker, cancelSig>>

\* handleStatus; the answer is the state read, or "unknown" (notFound).
Query(r) ==
    /\ req[r].pc = "query"
    /\ \/ Reply(r, IF Get(req[r].job, "state") = Nil THEN "notFound"
                   ELSE Get(req[r].job, "state"))
       \/ RedisFaults /\ Reply(r, "infra")
    /\ UNCHANGED <<redis, submit, worker, cancelSig>>

\* The connection is over; the request slot takes another one.
Recycle(r) ==
    /\ req[r].pc = "closed"
    /\ req' = [req EXCEPT ![r] = IdleRequest]
    /\ UNCHANGED <<redis, submit, worker, cancelSig>>

RequestStep(r) ==
    \/ Gate(r) \/ ReadState(r) \/ ReadResult(r) \/ ReadError(r) \/ LoopGone(r)
    \/ FastEnd(r) \/ FindTask(r) \/ SendCancel(r) \/ MarkCancelled(r) \/ Query(r)

-----------------------------------------------------------------------------
\* One tick of the clock: every key grows older, and is gone at zero.
Tick ==
    /\ \E j \in Jobs, k \in Keys : redis[j][k].ttl > 0
    /\ redis' = [j \in Jobs |-> [k \in Keys |->
                   [val |-> redis[j][k].val,
                    ttl |-> IF redis[j][k].ttl = 0 THEN 0 ELSE redis[j][k].ttl - 1]]]
    /\ UNCHANGED <<submit, worker, cancelSig, req>>
-----------------------------------------------------------------------------
Init ==
    /\ redis = [j \in Jobs |-> [k \in Keys |-> Missing]]
    /\ submit = [j \in Jobs |-> [pc |-> "none", user |-> Nil]]
    /\ worker = [j \in Jobs |->
                   [pc |-> "none", ctxDone |-> FALSE, detached |-> FALSE, resp |-> Nil]]
    /\ cancelSig = [j \in Jobs |-> "none"]
    /\ req = [r \in Requests |-> IdleRequest]

JobStep(j) ==
    \/ \E u \in Users : SubmitArrive(j, u)
    \/ SubmitStep(j)
    \/ Dequeue(j) \/ HandlerStep(j)
    \/ Timeout(j) \/ DeliverCancel(j) \/ Crash(j)

ClientStep(r) ==
    \/ \E kind \in Kinds, u \in Users, j \in Jobs : Arrive(r, kind, u, j)
    \/ Leave(r) \/ RequestStep(r) \/ Recycle(r)

Next ==
    \/ \E j \in Jobs : JobStep(j)
    \/ \E r \in Requests : ClientStep(r)
    \/ Tick

Spec == Init /\ [][Next]_vars

\* The HTTP server runs its handlers and time passes.  Nothing is asked of
\* the worker: its process may be down or its queue never reach the job.
Fairness == WF_vars(Tick) /\ \A r \in Requests : WF_vars(RequestStep(r))

FairSpec == Spec /\ Fairness

-----------------------------------------------------------------------------
SubmitPcs == {"none", "primeState", "primeUser", "enqueue", "recordTask", "accepted",
              "undoState", "undoAll", "refused"}
WorkerPcs == Busy \cup {"none", "pending", "over", "crashed"}
RequestPcs == {"idle", "gate", "read", "readResult", "readError", "fastEnd", "task",
               "signal", "mark", "query", "closed"}
Events == Phases \cup {"none", "notFound", "infra", "result", "missing", "failedBare",
                       "cancelOk"}

Entries == [val : Values, ttl : 0..TTL]
Submits == [pc : SubmitPcs, user : Users \cup {Nil}]
Workers == [pc : WorkerPcs, ctxDone : BOOLEAN, detached : BOOLEAN,
            resp : {Nil, "complete", "partial"}]
RequestRecords == [pc : RequestPcs, kind : Kinds, user : Users \cup {Nil},
                   job : Jobs \cup {Nil}, loop : BOOLEAN, gone : BOOLEAN, event : Events]

\* The types of the variables.
TypeOK ==
    /\ redis \in [Jobs -> [Keys -> Entries]]
    /\ \A j \in Jobs : redis[j]["state"].val \in Phases \cup {Nil}
    /\ submit \in [Jobs -> Submits]
    /\ worker \in [Jobs -> Workers]
    /\ cancelSig \in [Jobs -> {"none", "sent", "seen"}]
    /\ req \in [Requests -> RequestRecords]
    /\ \A r \in Requests : req[r] = IdleRequest \/ req[r].job \in Jobs

\* "done" is never written before a complete result: publishCodegenResult
\* writes the result first, whichever write fails and whoever else writes.
DoneHasResult ==
    \A j \in Jobs : redis[j]["state"].val = "done" => redis[j]["result"].val = "complete"

\* What Generate returns after its context ended is never published, however
\* late the timeout or the cancellation comes.
NoPartialResult == \A j \in Jobs : redis[j]["result"].val \in {Nil, "complete"}

\* A stream only reports a missing result when the result was published and has
\* expired since, or Redis answered with an error.
MissingOnlyAfterExpiry ==
    \A r \in Requests :
        req[r].event = "missing" /\ ~RedisFaults =>
            redis[req[r].job]["result"].val = "complete"

\* "failed" is never written before its message, unless Redis refuses the message.
FailedHasMessage ==
    \A j \in Jobs :
        redis[j]["state"].val = "failed" /\ ~RedisFaults =>
            redis[j]["error"].val = "message"

\* Whatever a request is told beyond "no such job", its caller submitted the job.
Isolation ==
    \A r \in Requests :
        req[r].event \notin {"none", "notFound"} => submit[req[r].job].user = req[r].user

\* A handler that ends with its context alive, and Redis working, leaves the job
\* in a final state, whatever cancels come in between.
FinishedJobsSettle ==
    \A j \in Jobs :
        worker[j].pc = "over" /\ ~worker[j].ctxDone /\ ~RedisFaults =>
            redis[j]["state"].val \in {"done", "failed", "cancelled"}

\* Every stream ends: the job settles, or the clock removes its record.
StreamEnds ==
    \A r \in Requests :
        req[r].kind = "stream" /\ req[r].pc \in {"gate", "read"} ~> req[r].pc = "closed"

-----------------------------------------------------------------------------
(* The inductive invariant behind these properties, in four parts.          *)

\* A result on its way to Redis is complete, and "done" comes after it.
Publication ==
    /\ \A j \in Jobs :
          /\ worker[j].pc = "late" /\ ~worker[j].ctxDone => worker[j].resp = "complete"
          /\ worker[j].pc = "putResult" => worker[j].resp = "complete"
          /\ worker[j].pc = "putDone" => redis[j]["result"].val = "complete"
    /\ \A r \in Requests :
          req[r].pc = "readResult" => redis[req[r].job]["result"].val = "complete"
    /\ NoPartialResult /\ DoneHasResult /\ MissingOnlyAfterExpiry

\* A request past the gate comes from the submitter of its job, which stays one.
\* Only a stream whose client is gone gets past it otherwise, to cancel unseen.
Admission ==
    /\ \A j \in Jobs :
          /\ redis[j]["userId"].val \in {Nil, submit[j].user}
          /\ submit[j].pc = "none" => redis[j]["userId"].val = Nil
    /\ \A r \in Requests :
          /\ req[r].pc # "idle" =>
                req[r].user \in Users /\ submit[req[r].job].pc = "accepted"
          /\ req[r].pc \in {"read", "readResult", "readError", "query"} =>
                submit[req[r].job].user = req[r].user
          /\ req[r].kind # "stream" /\ req[r].pc \in {"task", "signal", "mark"} =>
                submit[req[r].job].user = req[r].user
          /\ req[r].gone => req[r].kind = "stream"
          /\ req[r].pc = "idle" => req[r] = IdleRequest
    /\ Isolation

\* The task exists once the submission is accepted and not before the queue has it.
Handover ==
    \A j \in Jobs :
        /\ submit[j].pc \in {"none", "primeState", "primeUser", "enqueue", "undoState"} =>
              worker[j].pc = "none"
        /\ submit[j].pc \in {"recordTask", "accepted"} => worker[j].pc # "none"

\* With Redis working, a handler that can write ends in a final state.
Outcome ==
    /\ ~RedisFaults => \A j \in Jobs :
          /\ submit[j].pc \notin {"undoState", "undoAll", "refused"}
          /\ worker[j].pc = "putFailed" /\ CanWrite(j) => redis[j]["error"].val = "message"
    /\ FailedHasMessage /\ FinishedJobsSettle

Inv == TypeOK /\ Publication /\ Admission /\ Handover /\ Outcome

-----------------------------------------------------------------------------
(* What the code's comments say and its steps do not keep.                  *)

\* stream.go: when the task timeout fires "the worker marks state=failed".
TimeoutEndsJob ==
    \A j \in Jobs :
        worker[j].pc = "over" /\ worker[j].ctxDone => Get(j, "state") # "running"

\* cancel.go: the worker may overwrite "cancelled" only with "failed".
CancelledStaysTerminal ==
    [][\A j \in Jobs : Get(j, "state") = "cancelled" =>
          Get(j, "state")' \in {"cancelled", "failed", Nil}]_vars

-----------------------------------------------------------------------------
(* The abstract life of a job.                                              *)

RunOf(pc) ==
    CASE pc = "none" -> "absent"
      [] pc \in {"pending", "markRunning"} -> "waiting"
      [] pc \in {"over", "crashed"} -> "ended"
      [] OTHER -> "busy"

Lifecycle == INSTANCE JobLifecycle WITH
    phase <- [j \in Jobs |-> Get(j, "state")],
    run <- [j \in Jobs |-> RunOf(worker[j].pc)]

\* Every step of the handlers, the worker and the clock is a step of the
\* abstract life of the jobs, or changes nothing in it.
LifecycleHolds == Lifecycle!Spec
=============================================================================
