------------------------------- MODULE Worker -------------------------------
(***************************************************************************)
(* The worker thread of the application (Navit.java, CWorkerThread): one    *)
(* thread that runs all of the C code, and the threads that give it work.   *)
(* Each kind of job has a queue; a round of the worker's loop empties the   *)
(* queues in a fixed order.  The threads of the timers (NavitTimeout.java)  *)
(* post the callbacks that are due.                                        *)
(*                                                                         *)
(* The jobs are taken to end, and not to wait: none of the Java methods     *)
(* that the C code calls clears the interrupt of the worker.  The model     *)
(* begins when NavitMain has run.                                          *)
(***************************************************************************)
EXTENDS Naturals, Sequences, FiniteSets

CONSTANTS
  Producers,   \* threads that give positions and jobs to the worker
  Timers,      \* the timers of the C code
  Nobody,      \* no timer
  MaxFixes,    \* positions that wait before the oldest is dropped: 5
  Budget,      \* callbacks of timers in one round: 10
  Offers,      \* the kinds of jobs that each producer offers
  MaxWaiting,  \* bound of the model: jobs of one kind that wait
  MaxPosts     \* bound of the model: posts of one timer that wait

(* The queues of jobs, but those of positions (queue6) and timers (queue4): *)
(* queue8, queue, queue5, queue3, queue7 and queue2.                        *)
Kinds == {"low", "msg", "size", "motion", "geo", "activity"}

ASSUME WorkerAssumption ==
  /\ IsFiniteSet(Producers)
  /\ Nobody \notin Timers
  /\ MaxFixes \in Nat
  /\ Budget \in Nat \ {0}
  /\ Offers \in [Producers -> SUBSET Kinds]
  /\ MaxWaiting \in Nat
  /\ MaxPosts \in Nat \ {0}

VARIABLES
  stage,       \* where the worker is in its loop
  step,        \* where it is in the loop of that queue: check, fix, poll
  count,       \* count_timeout_callbacks
  interrupted, \* the interrupt status of the worker
  waiting,     \* the number of jobs in each queue
  fixes,       \* the number of positions in queue6
  newest,      \* what became of the position that was offered last
  posts,       \* queue4: the timers whose callbacks are due
  called,      \* the timer whose callback was just called
  pc,          \* where each producer is
  multi,       \* NavitTimeout.event_multi: the timer fires again and again
  running,     \* NavitTimeout.running
  thread       \* where the thread of each timer is

worker == <<stage, step, count, called>>
queues == <<waiting, fixes, newest, posts>>
timers == <<multi, running, thread>>
vars == <<worker, interrupted, queues, pc, timers>>

Stages == Kinds \cup {"loop", "sleep", "gps", "timer"}

(* The order in which run() empties the queues.                             *)
After ==
  [low |-> "gps", gps |-> "msg", msg |-> "size", size |-> "timer",
   timer |-> "motion", motion |-> "geo", geo |-> "activity", activity |-> "loop"]

Init ==
  /\ stage = "loop" /\ step = "check" /\ count = 0 /\ called = Nobody
  /\ interrupted = FALSE
  /\ waiting = [q \in Kinds |-> 0]
  /\ fixes = 0 /\ newest = "handled" /\ posts = <<>>
  /\ pc = [p \in Producers |-> "idle"]
  /\ multi = [t \in Timers |-> FALSE]
  /\ running = [t \in Timers |-> FALSE]
  /\ thread = [t \in Timers |-> "none"]

-----------------------------------------------------------------------------
(* Producers.  A job is put into its queue, then the worker is interrupted. *)
Offer(p, q) ==
  /\ pc[p] = "idle"
  /\ waiting[q] < MaxWaiting
  /\ waiting' = [waiting EXCEPT ![q] = @ + 1]
  /\ pc' = [pc EXCEPT ![p] = "interrupt"]
  /\ UNCHANGED <<worker, interrupted, fixes, newest, posts, timers>>

Interrupt(p) ==
  /\ pc[p] = "interrupt"
  /\ interrupted' = TRUE
  /\ pc' = [pc EXCEPT ![p] = "idle"]
  /\ UNCHANGED <<worker, queues, timers>>

(* VehicleCallback3: the size of the queue is read, and the oldest position *)
(* polled if too many wait, until the new one is put at the end.  Another   *)
(* producer or the worker may poll between the reading and the poll.        *)
NewFix(p) ==
  /\ pc[p] = "idle"
  /\ pc' = [pc EXCEPT ![p] = "trim"]
  /\ UNCHANGED <<worker, interrupted, queues, timers>>

(* Mutant: one position too many may wait.                                  *)
TrimLate(p) ==
  /\ pc[p] = "trim"
  /\ pc' = [pc EXCEPT ![p] = IF fixes > MaxFixes + 1 THEN "drop" ELSE "offer"]
  /\ UNCHANGED <<worker, interrupted, queues, timers>>

Trim(p) ==
  /\ pc[p] = "trim"
  /\ pc' = [pc EXCEPT ![p] = IF fixes > MaxFixes THEN "drop" ELSE "offer"]
  /\ UNCHANGED <<worker, interrupted, queues, timers>>

(* The head of the queue is polled; the newest position is the last one.    *)
Poll(fate) ==
  /\ fixes' = IF fixes = 0 THEN 0 ELSE fixes - 1
  /\ newest' = IF fixes = 1 THEN fate ELSE newest

(* Mutant: a producer that dropped a position leaves it at that.            *)
DropInstead(p) ==
  /\ pc[p] = "drop"
  /\ Poll("dropped")
  /\ pc' = [pc EXCEPT ![p] = "interrupt"]
  /\ UNCHANGED <<worker, interrupted, waiting, posts, timers>>

Drop(p) ==
  /\ pc[p] = "drop"
  /\ Poll("dropped")
  /\ pc' = [pc EXCEPT ![p] = "trim"]
  /\ UNCHANGED <<worker, interrupted, waiting, posts, timers>>

OfferFix(p) ==
  /\ pc[p] = "offer"
  /\ fixes' = fixes + 1
  /\ newest' = "waiting"
  /\ pc' = [pc EXCEPT ![p] = "interrupt"]
  /\ UNCHANGED <<worker, interrupted, waiting, posts, timers>>

-----------------------------------------------------------------------------
(* Mutant: a one-shot that has fired stays as it is.                        *)
TimerFiresAgain(t) ==
  /\ thread[t] = "sleep"
  /\ thread' = [thread EXCEPT ![t] = IF running[t] THEN "post" ELSE "none"]
  /\ UNCHANGED <<worker, interrupted, queues, pc, multi, running>>

(* The thread of a timer.  After its sleep it posts the callback, unless it *)
(* was removed; a one-shot is not running any more when it does.            *)
TimerWakes(t) ==
  /\ thread[t] = "sleep"
  /\ thread' = [thread EXCEPT ![t] = IF running[t] THEN "post" ELSE "none"]
  /\ running' = [running EXCEPT ![t] = @ /\ multi[t]]
  /\ UNCHANGED <<worker, interrupted, queues, pc, multi>>

TimerPosts(t) ==
  /\ thread[t] = "post"
  /\ Cardinality({i \in DOMAIN posts : posts[i] = t}) < MaxPosts
  /\ posts' = Append(posts, t)
  /\ thread' = [thread EXCEPT ![t] = "interrupt"]
  /\ UNCHANGED <<worker, interrupted, waiting, fixes, newest, pc, multi, running>>

TimerInterrupts(t) ==
  /\ thread[t] = "interrupt"
  /\ interrupted' = TRUE
  /\ thread' = [thread EXCEPT ![t] = IF running[t] THEN "sleep" ELSE "none"]
  /\ UNCHANGED <<worker, queues, pc, multi, running>>

(* What a job does to timers: event_android_add_timeout makes new ones and  *)
(* event_android_remove_timeout stops some.  A timer whose thread ended and *)
(* that has no post left stands for a new one, a removed one stays as it is. *)
New(t) == thread[t] = "none" /\ \A i \in DOMAIN posts : posts[i] # t

ChangeTimers ==
  \E started \in SUBSET {t \in Timers : New(t)}, removed \in SUBSET Timers,
     kind \in [Timers -> BOOLEAN] :
    /\ multi' = [t \in Timers |-> IF t \in started THEN kind[t] ELSE multi[t]]
    /\ running' = [t \in Timers |-> (running[t] \/ t \in started) /\ t \notin removed]
    /\ thread' = [t \in Timers |-> IF t \in started THEN "sleep" ELSE thread[t]]

-----------------------------------------------------------------------------
(* Mutant: only positions keep the worker from sleeping.                    *)
LoopTopForFixes ==
  /\ stage = "loop"
  /\ stage' = IF fixes = 0 THEN "sleep" ELSE "low"
  /\ UNCHANGED <<step, count, called, interrupted, queues, pc, timers>>

(* The worker sleeps unless timers or positions wait.                       *)
LoopTop ==
  /\ stage = "loop"
  /\ stage' = IF posts = <<>> /\ fixes = 0 THEN "sleep" ELSE "low"
  /\ UNCHANGED <<step, count, called, interrupted, queues, pc, timers>>

(* An interrupt ends the sleep, also one that came before; or two seconds.  *)
Wake ==
  /\ stage = "sleep"
  /\ stage' = "low"
  /\ interrupted' = FALSE
  /\ UNCHANGED <<step, count, called, queues, pc, timers>>

(* One job of a queue is done.  After each message, and before each job of  *)
(* queue7, the worker looks for a position.                                 *)
Serve(q) ==
  /\ stage = q
  /\ step = IF q = "geo" THEN "poll" ELSE "check"
  /\ waiting[q] > 0
  /\ waiting' = [waiting EXCEPT ![q] = @ - 1]
  /\ step' = IF q = "msg" THEN "fix" ELSE "check"
  /\ ChangeTimers
  /\ UNCHANGED <<stage, count, called, interrupted, fixes, newest, posts, pc>>

BeforeGeo ==
  /\ stage = "geo" /\ step = "check"
  /\ waiting["geo"] > 0
  /\ step' = "fix"
  /\ UNCHANGED <<stage, count, called, interrupted, queues, pc, timers>>

Leave(q) ==
  /\ stage = q /\ step = "check"
  /\ waiting[q] = 0
  /\ stage' = After[q]
  /\ UNCHANGED <<step, count, called, interrupted, queues, pc, timers>>

(* A position is handled: NavitVehicle.VehicleCallback.                     *)
HandleFix ==
  /\ fixes > 0
  /\ Poll("handled")
  /\ ChangeTimers

Fixes ==
  /\ stage = "gps"
  /\ HandleFix
  /\ UNCHANGED <<worker, interrupted, waiting, posts, pc>>

LeaveFixes ==
  /\ stage = "gps"
  /\ fixes = 0
  /\ stage' = After["gps"]
  /\ UNCHANGED <<step, count, called, interrupted, queues, pc, timers>>

LookForFix ==
  /\ step = "fix"
  /\ IF fixes > 0 THEN HandleFix ELSE UNCHANGED <<fixes, newest, timers>>
  /\ step' = IF stage = "geo" THEN "poll" ELSE "check"
  /\ called' = Nobody
  /\ UNCHANGED <<stage, count, interrupted, waiting, posts, pc>>

(* Mutant: only a post whose timer is called leaves the queue.              *)
TimeoutPeeks ==
  /\ stage = "timer" /\ step = "check"
  /\ count < Budget /\ posts # <<>>
  /\ count' = count + 1
  /\ IF running[Head(posts)] \/ ~multi[Head(posts)]
       THEN called' = Head(posts) /\ ChangeTimers /\ posts' = Tail(posts)
       ELSE UNCHANGED <<called, timers, posts>>
  /\ step' = "fix"
  /\ UNCHANGED <<stage, interrupted, waiting, fixes, newest, pc>>

(* Mutant: the callbacks are not counted.                                   *)
TimeoutUncounted ==
  /\ stage = "timer" /\ step = "check"
  /\ count < Budget /\ posts # <<>>
  /\ posts' = Tail(posts)
  /\ IF running[Head(posts)] \/ ~multi[Head(posts)]
       THEN called' = Head(posts) /\ ChangeTimers
       ELSE UNCHANGED <<called, timers>>
  /\ step' = "fix"
  /\ UNCHANGED <<stage, count, interrupted, waiting, fixes, newest, pc>>

(* Mutant: one callback too many is called.                                 *)
TimeoutOnceMore ==
  /\ stage = "timer" /\ step = "check"
  /\ count <= Budget /\ posts # <<>>
  /\ count' = count + 1
  /\ posts' = Tail(posts)
  /\ IF running[Head(posts)] \/ ~multi[Head(posts)]
       THEN called' = Head(posts) /\ ChangeTimers
       ELSE UNCHANGED <<called, timers>>
  /\ step' = "fix"
  /\ UNCHANGED <<stage, interrupted, waiting, fixes, newest, pc>>

(* The callback of a timer is called unless a repeating one was removed.    *)
Timeout ==
  /\ stage = "timer" /\ step = "check"
  /\ count < Budget /\ posts # <<>>
  /\ count' = count + 1
  /\ posts' = Tail(posts)
  /\ IF running[Head(posts)] \/ ~multi[Head(posts)]
       THEN called' = Head(posts) /\ ChangeTimers
       ELSE UNCHANGED <<called, timers>>
  /\ step' = "fix"
  /\ UNCHANGED <<stage, interrupted, waiting, fixes, newest, pc>>

LeaveTimers ==
  /\ stage = "timer" /\ step = "check"
  /\ count = Budget \/ posts = <<>>
  /\ count' = 0
  /\ stage' = After["timer"]
  /\ UNCHANGED <<step, called, interrupted, queues, pc, timers>>

-----------------------------------------------------------------------------
Round ==
  \/ LoopTop
  \/ Wake
  \/ \E q \in Kinds : Serve(q) \/ Leave(q)
  \/ BeforeGeo
  \/ Fixes
  \/ LeaveFixes
  \/ LookForFix
  \/ Timeout
  \/ LeaveTimers

GiveFix(p) == Trim(p) \/ Drop(p) \/ OfferFix(p) \/ Interrupt(p)

Produce(p) == NewFix(p) \/ GiveFix(p) \/ \E q \in Offers[p] : Offer(p, q)

RunTimer(t) == TimerWakes(t) \/ TimerPosts(t) \/ TimerInterrupts(t)

Next ==
  \/ Round
  \/ \E p \in Producers : Produce(p)
  \/ \E t \in Timers : RunTimer(t)

Spec == Init /\ [][Next]_vars

(* The threads run; nobody has to have work for the worker.                 *)
Fairness ==
  /\ WF_vars(Round)
  /\ \A p \in Producers : WF_vars(GiveFix(p))
  /\ \A t \in Timers : WF_vars(RunTimer(t))

FairSpec == Spec /\ Fairness

-----------------------------------------------------------------------------
(* Every variable has its type; the counters stay within their bounds.      *)
TypeOK ==
  /\ stage \in Stages
  /\ step \in {"check", "fix", "poll"}
  /\ count \in 0..Budget
  /\ called \in Timers \cup {Nobody}
  /\ interrupted \in BOOLEAN
  /\ waiting \in [Kinds -> Nat]
  /\ fixes \in Nat
  /\ newest \in {"waiting", "handled", "dropped"}
  /\ posts \in Seq(Timers)
  /\ pc \in [Producers -> {"idle", "trim", "drop", "offer", "interrupt"}]
  /\ multi \in [Timers -> BOOLEAN]
  /\ running \in [Timers -> BOOLEAN]
  /\ thread \in [Timers -> {"none", "sleep", "post", "interrupt"}]

(* Some thread has interrupted the worker or is about to.                   *)
Signalled ==
  \/ interrupted
  \/ \E p \in Producers : pc[p] = "interrupt"
  \/ \E t \in Timers : thread[t] = "interrupt"

(* The worker never sleeps through a job: whenever something waits in any   *)
(* of the queues while it sleeps, an interrupt will wake it.                *)
NoSleepWithWork ==
  stage = "sleep" /\ ~Signalled =>
    fixes = 0 /\ posts = <<>> /\ \A q \in Kinds : waiting[q] = 0

(* Positions are dropped, but the newest is not: it waits or was handled,   *)
(* or the thread that dropped it is about to offer a newer one.             *)
NewestFixReaches ==
  newest = "dropped" => \E p \in Producers : pc[p] \in {"trim", "drop", "offer"}

(* The positions that wait are limited though every producer may have read  *)
(* the size before the others offered.                                      *)
FixesBounded == fixes <= MaxFixes + Cardinality(Producers)

(* A one-shot timer, whose callback is called even if the timer was removed *)
(* while its post waits, is called at most once for each start: of the      *)
(* posts in the queue and the one its thread may still make there is one.   *)
StillPosts(t) == thread[t] = "post" \/ (thread[t] = "sleep" /\ running[t])

OneShotOnce ==
  \A t \in Timers : ~multi[t] =>
    /\ \A i, j \in DOMAIN posts : posts[i] = t /\ posts[j] = t => i = j
    /\ StillPosts(t) => \A i \in DOMAIN posts : posts[i] # t

(* Once the producers rest, every queue gets empty again, and the callback  *)
(* of every timer is called again, although the timers never rest.          *)
Served ==
  <>[](\A p \in Producers : pc[p] = "idle") =>
    /\ \A q \in Kinds : []<>(waiting[q] = 0)
    /\ []<>(fixes = 0)
    /\ \A t \in Timers : []<>(called = t \/ ~running[t])

(* Once the producers rest, nothing is left of a timer that was removed or  *)
(* has fired: its thread ends and its posts leave the queue, called or not. *)
RemovedEnds ==
  <>[](\A p \in Producers : pc[p] = "idle") =>
    \A t \in Timers : ~running[t] ~> New(t)
=============================================================================
