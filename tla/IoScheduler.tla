----------------------------- MODULE IoScheduler -----------------------------
(***************************************************************************)
(* The standard I/O scheduler (rust/lance-io/src/scheduler.rs): requests   *)
(* are split into chunks, a loop admits chunks by priority while there are *)
(* IOPS and bytes in the budget, and the bytes of a request come back only *)
(* when its caller has taken, or given up on, the whole response.  Callers *)
(* wait for the loop and the loop waits for callers.                       *)
(*                                                                         *)
(* A smaller priority is more urgent.  A caller consumes its responses in  *)
(* the order in which it submitted the requests.                           *)
(***************************************************************************)
EXTENDS Integers, FiniteSets, Functions

CONSTANTS
  Requests,
  Caller,       \* Caller[r]: who submits and consumes r
  Rank,         \* Rank[r]: the order in which a caller submits
  Priority,     \* Priority[r]
  Chunks,       \* Chunks[r]: number of reads r is split into
  Size,         \* Size[r]: bytes of each of them
  Bypass,       \* requests with bypass_backpressure
  Capacity,     \* io_capacity
  BufferSize    \* io_buffer_size, not 0

ASSUME IoSchedulerAssumption ==
  /\ IsFiniteSet(Requests)
  /\ {Rank, Priority} \subseteq [Requests -> Nat]
  /\ {Chunks, Size} \subseteq [Requests -> Nat \ {0}]
  /\ Bypass \subseteq Requests
  /\ {Capacity, BufferSize} \subseteq Nat \ {0}
  /\ \A r, s \in Requests : Caller[r] = Caller[s] /\ Rank[r] = Rank[s] => r = s

VARIABLES
  req,        \* req[r]: the request, its chunks and its batch
  iops,       \* iops_avail
  bytes,      \* bytes_avail, which may be negative
  inflight,   \* inflight[p]: how often p is in priorities_in_flight
  permit,     \* a notification nobody has waited for yet
  loop,       \* the I/O loop: "awake", "asleep" or "stopped"
  closed,     \* done_scheduling
  failFast    \* SchedulerErrorMode::FailFast, for the life of the scheduler

vars == <<req, iops, bytes, inflight, permit, loop, closed, failFast>>

Priorities == Range(Priority)
Charge(r)  == IF r \in Bypass THEN 0 ELSE Size[r]

Init ==
  /\ req = [r \in Requests |->
       [st |-> "new", sent |-> 0, queued |-> 0, running |-> 0, admitted |-> 0,
        delivered |-> 0, err |-> FALSE, cancelled |-> FALSE, lost |-> FALSE]]
  /\ iops = Capacity
  /\ bytes = BufferSize
  /\ inflight = [p \in Priorities |-> 0]
  /\ permit = FALSE
  /\ loop = "awake"
  /\ closed = FALSE
  /\ failFast \in BOOLEAN

(***************************************************************************)
(* The batch of a request is dropped once submission is over and every     *)
(* chunk was delivered.  That sends the response, or discards it if the    *)
(* caller is gone.                                                         *)
(***************************************************************************)
Answered(r, q) ==
  IF q.st = "open" /\ q.delivered = Chunks[r]
  THEN [q EXCEPT !.st = IF q.lost THEN "gone" ELSE "ready"]
  ELSE q

(* Deviation: only a response that its caller received is refunded.        *)
Settle_Received(new) ==
  LET gone == {r \in Requests : new[r].st = "gone" /\ req[r].st # "gone" /\ ~new[r].lost}
  IN /\ req' = new
     /\ bytes' = bytes + SumFunctionOnSet([r \in gone |-> Charge(r) * new[r].admitted], gone)
     /\ inflight' = [p \in Priorities |->
          inflight[p] - SumFunctionOnSet([r \in gone |-> new[r].admitted],
                                         {r \in gone : Priority[r] = p})]

(* A response that is dropped refunds its reservation: on_bytes_consumed.  *)
Settle(new) ==
  LET gone == {r \in Requests : new[r].st = "gone" /\ req[r].st # "gone"}
  IN /\ req' = new
     /\ bytes' = bytes + SumFunctionOnSet([r \in gone |-> Charge(r) * new[r].admitted], gone)
     /\ inflight' = [p \in Priorities |->
          inflight[p] - SumFunctionOnSet([r \in gone |-> new[r].admitted],
                                         {r \in gone : Priority[r] = p})]

(* A pending chunk is cancelled: delivered as an error, never admitted.    *)
Dropped(r, q) ==
  Answered(r, [q EXCEPT !.delivered = @ + q.queued, !.queued = 0, !.err = @ \/ q.queued > 0])

(***************************************************************************)
(* Callers                                                                 *)
(***************************************************************************)
Before(r) == {q \in Requests : Caller[q] = Caller[r] /\ Rank[q] < Rank[r]}

(* do_submit_request.  The scheduler expects that responses are consumed   *)
(* in priority order; only a request that has been admitted may have a     *)
(* more urgent one submitted behind it, and be consumed first.             *)
Submit(r) ==
  /\ req[r].st = "new" /\ ~closed
  /\ \A q \in Before(r) : req[q].st # "new"
  /\ \A q \in Before(r) : req[q].st # "gone" /\ Priority[q] > Priority[r]
                          => req[q].running + req[q].admitted > 0
  /\ req' = [req EXCEPT ![r].st = "submitting"]
  /\ UNCHANGED <<iops, bytes, inflight, permit, loop, closed, failFast>>

(* One chunk enters the queue; after the last one the caller holds only    *)
(* the future.                                                             *)
Push(r) ==
  /\ req[r].st = "submitting"
  /\ LET q == [req[r] EXCEPT !.sent = @ + 1, !.queued = @ + 1,
                             !.st = IF req[r].sent + 1 = Chunks[r] THEN "open" ELSE @]
     IN Settle([req EXCEPT ![r] = Answered(r, q)])
  /\ permit' = TRUE
  /\ UNCHANGED <<iops, loop, closed, failFast>>

(* Deviation: the refund does not notify the loop.                         *)
Consume_Quiet(r) ==
  /\ req[r].st = "ready"
  /\ \A q \in Before(r) : req[q].st = "gone" \/ req[q].lost
  /\ Settle([req EXCEPT ![r].st = "gone"])
  /\ UNCHANGED <<iops, permit, loop, closed, failFast>>

(* The caller takes the data of the request it waits for.                  *)
Consume(r) ==
  /\ req[r].st = "ready"
  /\ \A q \in Before(r) : req[q].st = "gone" \/ req[q].lost
  /\ Settle([req EXCEPT ![r].st = "gone"])
  /\ permit' = TRUE
  /\ UNCHANGED <<iops, loop, closed, failFast>>

(* The caller drops the future before it has the data.                     *)
Abandon(r) ==
  /\ req[r].st \in {"open", "ready"} /\ ~req[r].lost
  /\ Settle([req EXCEPT ![r].lost = TRUE, ![r].st = IF @ = "ready" THEN "gone" ELSE @])
  /\ permit' = (permit \/ req[r].st = "ready")
  /\ UNCHANGED <<iops, loop, closed, failFast>>

(* The scheduler is dropped: everything pending is cancelled.              *)
Close ==
  /\ ~closed
  /\ \A r \in Requests : req[r].st # "submitting"
  /\ closed' = TRUE
  /\ Settle([r \in Requests |-> Dropped(r, req[r])])
  /\ permit' = TRUE
  /\ UNCHANGED <<iops, loop, failFast>>

(***************************************************************************)
(* The I/O loop                                                            *)
(***************************************************************************)
MinInFlight(p) == \A s \in Priorities : inflight[s] > 0 => p <= s

(* Deviation: the chunks of an admitted request compete for bytes again.   *)
CanDeliver_Compete(r) ==
  /\ iops > 0
  /\ \/ r \in Bypass
     \/ MinInFlight(Priority[r])
     \/ Size[r] <= bytes

CanDeliver(r) ==
  /\ iops > 0
  /\ \/ r \in Bypass
     \/ MinInFlight(Priority[r])
     \/ inflight[Priority[r]] > 0
     \/ Size[r] <= bytes

(* The heap: chunks that bypass backpressure first, then by priority.      *)
Queued   == {r \in Requests : req[r].queued > 0}
Outranks(q, r) == \/ q \in Bypass /\ r \notin Bypass
                  \/ (q \in Bypass <=> r \in Bypass) /\ Priority[q] < Priority[r]
Head     == {r \in Queued : \A q \in Queued : ~Outranks(q, r)}

(* pop returns the head if next_task lets it, and run_io_loop spawns it.   *)
Admit(r) ==
  /\ loop = "awake"
  /\ r \in Head /\ CanDeliver(r)
  /\ req' = [req EXCEPT ![r].queued = @ - 1, ![r].running = @ + 1]
  /\ inflight' = [inflight EXCEPT ![Priority[r]] = @ + 1]
  /\ iops' = iops - 1
  /\ bytes' = bytes - Charge(r)
  /\ UNCHANGED <<permit, loop, closed, failFast>>

(* pop finds nothing it may start: it ends, or waits to be notified.       *)
Sleep ==
  /\ loop = "awake"
  /\ \A r \in Head : ~CanDeliver(r)
  /\ loop' = IF closed THEN "stopped" ELSE "asleep"
  /\ UNCHANGED <<req, iops, bytes, inflight, permit, closed, failFast>>

Wake ==
  /\ loop = "asleep" /\ permit
  /\ loop' = "awake" /\ permit' = FALSE
  /\ UNCHANGED <<req, iops, bytes, inflight, closed, failFast>>

(* A read ends and its callback runs: the IOP is free again, the chunk is  *)
(* delivered and, in fail-fast mode, the first error cancels the request's *)
(* other chunks, those that are running included.                          *)
Complete(r, ok) ==
  /\ req[r].running > 0
  /\ req[r].cancelled => ~ok
  /\ LET q      == [req[r] EXCEPT !.running = @ - 1, !.delivered = @ + 1,
                                  !.admitted = @ + 1, !.err = @ \/ ~ok]
         cancel == failFast /\ ~ok /\ ~req[r].cancelled
     IN Settle([req EXCEPT ![r] = IF cancel THEN Dropped(r, [q EXCEPT !.cancelled = TRUE])
                                            ELSE Answered(r, q)])
  /\ iops' = iops + 1
  /\ permit' = TRUE
  /\ UNCHANGED <<loop, closed, failFast>>

Next ==
  \/ \E r \in Requests :
       \/ Submit(r) \/ Push(r) \/ Consume(r) \/ Abandon(r) \/ Admit(r)
       \/ \E ok \in BOOLEAN : Complete(r, ok)
  \/ Close \/ Sleep \/ Wake

Spec == Init /\ [][Next]_vars

(* The loop runs on its own task, reads end, and a caller that has begun   *)
(* to submit finishes, and takes the responses it waits for.  Nobody has   *)
(* to abandon a request or to close the scheduler.                         *)
Progress ==
  \/ Sleep \/ Wake
  \/ \E r \in Requests : \/ Admit(r) \/ Push(r) \/ Consume(r)
                         \/ \E ok \in BOOLEAN : Complete(r, ok)

FairSpec == Spec /\ WF_vars(Progress)

(***************************************************************************)
(* Properties                                                              *)
(***************************************************************************)

(* Chunks of r that hold a place in priorities_in_flight and bytes of the  *)
(* budget: those being read and those of a response not yet dropped.       *)
Holding(r) == IF req[r].st = "gone" THEN 0 ELSE req[r].running + req[r].admitted

(* Whatever is cancelled, abandoned or closed on the way, no IOP, byte or  *)
(* priority is leaked or returned twice, and every chunk is in one place.  *)
AccountsBalance ==
  /\ iops = Capacity - SumFunction([r \in Requests |-> req[r].running])
  /\ bytes = BufferSize - SumFunction([r \in Requests |-> Charge(r) * Holding(r)])
  /\ \A p \in Priorities :
       inflight[p] = SumFunction([r \in {q \in Requests : Priority[q] = p} |-> Holding(r)])
  /\ \A r \in Requests :
       /\ req[r].sent = req[r].queued + req[r].running + req[r].delivered
       /\ req[r].sent <= Chunks[r]
       /\ req[r].st = "gone" => req[r].delivered = Chunks[r]

(* No wake-up is lost: the loop never waits, without a notification on its *)
(* way, while the chunk at the head of the queue could be started.         *)
SleepsOnlyWhenBlocked ==
  loop = "asleep" /\ ~permit => \A r \in Head : ~CanDeliver(r)

(* No deadlock between the budget and the callers: in the end every        *)
(* request that was submitted has been answered and its answer dropped,    *)
(* however small the budget is.                                            *)
EveryRequestEnds ==
  <>[](\A r \in Requests : req[r].st \in {"new", "gone"})
==============================================================================
