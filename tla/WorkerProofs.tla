---------------------------- MODULE WorkerProofs ----------------------------
(* Theorems about Worker: its types, that the worker never sleeps through a *)
(* job, that the newest position is not lost and that the positions which   *)
(* wait are limited, and that a one-shot timer is called once; for any      *)
(* number of producers, timers and waiting jobs.                            *)
EXTENDS Worker, FiniteSetTheorems, TLAPS

(* Jobs leave the variables of the timers in their types.                   *)
LEMMA ChangeTimersType ==
  ASSUME TypeOK, ChangeTimers
  PROVE  /\ multi' \in [Timers -> BOOLEAN]
         /\ running' \in [Timers -> BOOLEAN]
         /\ thread' \in [Timers -> {"none", "sleep", "post", "interrupt"}]
<1>1. PICK started \in SUBSET {t \in Timers : New(t)}, removed \in SUBSET Timers,
           kind \in [Timers -> BOOLEAN] :
        /\ multi' = [t \in Timers |-> IF t \in started THEN kind[t] ELSE multi[t]]
        /\ running' = [t \in Timers |-> (running[t] \/ t \in started) /\ t \notin removed]
        /\ thread' = [t \in Timers |-> IF t \in started THEN "sleep" ELSE thread[t]]
  BY DEF ChangeTimers
<1> USE DEF TypeOK
<1>2. multi' \in [Timers -> BOOLEAN]
  BY <1>1
<1>3. running' \in [Timers -> BOOLEAN]
  BY <1>1
<1>4. thread' \in [Timers -> {"none", "sleep", "post", "interrupt"}]
  BY <1>1
<1> QED
  BY <1>2, <1>3, <1>4

(* A step of a producer keeps the types.                                    *)
LEMMA ProduceType ==
  ASSUME TypeOK, NEW p \in Producers, Produce(p)
  PROVE  TypeOK'
<1> USE DEF TypeOK, worker, queues, timers, Kinds
<1>1. CASE NewFix(p)
  BY <1>1 DEF NewFix
<1>2. CASE Trim(p)
  BY <1>2 DEF Trim
<1>3. CASE Drop(p)
  BY <1>3 DEF Drop, Poll
<1>4. CASE OfferFix(p)
  BY <1>4 DEF OfferFix
<1>5. CASE Interrupt(p)
  BY <1>5 DEF Interrupt
<1>6. ASSUME NEW q \in Offers[p], Offer(p, q)
      PROVE  TypeOK'
  <2>1. q \in Kinds
    BY <1>6, WorkerAssumption
  <2>2. waiting' \in [Kinds -> Nat]
    BY <1>6, <2>1 DEF Offer
  <2> QED
    BY <1>6, <2>2 DEF Offer
<1> QED
  BY <1>1, <1>2, <1>3, <1>4, <1>5, <1>6 DEF Produce, GiveFix

(* A step of a timer's thread keeps the types.                              *)
LEMMA RunTimerType ==
  ASSUME TypeOK, NEW t \in Timers, RunTimer(t)
  PROVE  TypeOK'
<1> USE DEF TypeOK, worker, queues, timers
<1>1. CASE TimerWakes(t)
  BY <1>1 DEF TimerWakes
<1>2. CASE TimerPosts(t)
  BY <1>2 DEF TimerPosts
<1>3. CASE TimerInterrupts(t)
  BY <1>3 DEF TimerInterrupts
<1> QED
  BY <1>1, <1>2, <1>3 DEF RunTimer

(* A step of the worker keeps the types.                                    *)
LEMMA RoundType ==
  ASSUME TypeOK, Round
  PROVE  TypeOK'
<1> USE DEF TypeOK, worker, queues, timers, Stages, Kinds, After
<1>1. CASE LoopTop
  BY <1>1 DEF LoopTop
<1>2. CASE Wake
  BY <1>2 DEF Wake
<1>3. ASSUME NEW q \in Kinds, Serve(q)
      PROVE  TypeOK'
  <2>1. waiting' \in [Kinds -> Nat]
    BY <1>3 DEF Serve
  <2> QED
    BY <1>3, <2>1, ChangeTimersType DEF Serve
<1>4. ASSUME NEW q \in Kinds, Leave(q)
      PROVE  TypeOK'
  BY <1>4 DEF Leave
<1>5. CASE BeforeGeo
  BY <1>5 DEF BeforeGeo
<1>6. CASE Fixes
  BY <1>6, ChangeTimersType DEF Fixes, HandleFix, Poll
<1>7. CASE LeaveFixes
  BY <1>7 DEF LeaveFixes
<1>8. CASE LookForFix
  <2>1. CASE fixes > 0
    BY <1>8, <2>1, ChangeTimersType DEF LookForFix, HandleFix, Poll
  <2>2. CASE ~(fixes > 0)
    BY <1>8, <2>2 DEF LookForFix
  <2> QED
    BY <2>1, <2>2
<1>9. CASE Timeout
  <2>1. Head(posts) \in Timers /\ Tail(posts) \in Seq(Timers)
    BY <1>9 DEF Timeout
  <2>2. count' \in 0..Budget
    BY <1>9, WorkerAssumption DEF Timeout
  <2>3. CASE running[Head(posts)] \/ ~multi[Head(posts)]
    BY <1>9, <2>1, <2>2, <2>3, ChangeTimersType DEF Timeout
  <2>4. CASE ~(running[Head(posts)] \/ ~multi[Head(posts)])
    BY <1>9, <2>1, <2>2, <2>4 DEF Timeout
  <2> QED
    BY <2>3, <2>4
<1>10. CASE LeaveTimers
  BY <1>10, WorkerAssumption DEF LeaveTimers
<1> QED
  BY <1>1, <1>2, <1>3, <1>4, <1>5, <1>6, <1>7, <1>8, <1>9, <1>10 DEF Round

(* Every variable has its type, whatever producers and timers there are.    *)
THEOREM TypeCorrect == Spec => []TypeOK
<1>1. Init => TypeOK
  <2> SUFFICES ASSUME Init
               PROVE  TypeOK
    OBVIOUS
  <2>1. count \in 0..Budget /\ posts \in Seq(Timers) /\ fixes \in Nat
    BY WorkerAssumption DEF Init
  <2>2. waiting \in [Kinds -> Nat]
    BY DEF Init
  <2> QED
    BY <2>1, <2>2 DEF Init, TypeOK, Stages
<1>2. TypeOK /\ [Next]_vars => TypeOK'
  <2> SUFFICES ASSUME TypeOK, [Next]_vars
               PROVE  TypeOK'
    OBVIOUS
  <2>1. CASE UNCHANGED vars
    BY <2>1 DEF vars, worker, queues, timers, TypeOK
  <2> QED
    BY <2>1, RoundType, ProduceType, RunTimerType DEF Next
<1> QED
  BY <1>1, <1>2, PTL DEF Spec

-----------------------------------------------------------------------------
(* No lost wake-up.  A job that waits is either announced by an interrupt,  *)
(* or its queue is still to be emptied before the worker can sleep.         *)
Place ==
  [low |-> 1, gps |-> 2, msg |-> 3, size |-> 4, timer |-> 5, motion |-> 6,
   geo |-> 7, activity |-> 8, loop |-> 9, sleep |-> 9]

Ahead(q) == Place[stage] <= Place[q]

WakeInv ==
  ~Signalled =>
    /\ \A q \in Kinds : waiting[q] > 0 => Ahead(q)
    /\ fixes > 0 => Ahead("gps")
    /\ stage = "sleep" => posts = <<>>

(* A producer that adds a job has still to interrupt the worker.            *)
LEMMA ProduceWakes ==
  ASSUME TypeOK, WakeInv, NEW p \in Producers, Produce(p)
  PROVE  WakeInv'
<1> USE DEF WakeInv, Signalled, Ahead, worker, queues, timers
<1>1. CASE NewFix(p)
  BY <1>1 DEF NewFix, TypeOK
<1>2. CASE Trim(p)
  BY <1>2 DEF Trim, TypeOK
<1>3. CASE Drop(p)
  BY <1>3 DEF Drop, Poll, TypeOK
<1>4. CASE OfferFix(p)
  <2>1. pc'[p] = "interrupt"
    BY <1>4 DEF OfferFix, TypeOK
  <2> QED
    BY <2>1
<1>5. CASE Interrupt(p)
  BY <1>5 DEF Interrupt
<1>6. ASSUME NEW q \in Offers[p], Offer(p, q)
      PROVE  WakeInv'
  <2>1. pc'[p] = "interrupt"
    BY <1>6 DEF Offer, TypeOK
  <2> QED
    BY <2>1
<1> QED
  BY <1>1, <1>2, <1>3, <1>4, <1>5, <1>6 DEF Produce, GiveFix

(* A timer that posts has still to interrupt the worker.                    *)
LEMMA RunTimerWakes ==
  ASSUME TypeOK, WakeInv, NEW t \in Timers, RunTimer(t)
  PROVE  WakeInv'
<1> USE DEF WakeInv, Signalled, Ahead, worker, queues, timers
<1>1. CASE TimerWakes(t)
  BY <1>1 DEF TimerWakes, TypeOK
<1>2. CASE TimerPosts(t)
  <2>1. thread'[t] = "interrupt"
    BY <1>2 DEF TimerPosts, TypeOK
  <2> QED
    BY <2>1
<1>3. CASE TimerInterrupts(t)
  BY <1>3 DEF TimerInterrupts
<1> QED
  BY <1>1, <1>2, <1>3 DEF RunTimer

(* A job does not end what a timer's thread is about to do.                 *)
LEMMA ChangeTimersSignals ==
  ASSUME TypeOK, ChangeTimers, UNCHANGED <<interrupted, pc>>, Signalled
  PROVE  Signalled'
BY DEF TypeOK, ChangeTimers, New, Signalled

(* The worker leaves a queue only when it is empty, and begins to sleep     *)
(* only when no timer waits; after a sleep all queues are ahead.            *)
LEMMA RoundWakes ==
  ASSUME TypeOK, WakeInv, Round
  PROVE  WakeInv'
<1> USE DEF TypeOK, WakeInv, Ahead, Place, Kinds, Stages, After
<1>1. CASE LoopTop
  BY <1>1 DEF LoopTop, Signalled, queues, timers
<1>2. CASE Wake
  BY <1>2 DEF Wake, queues
<1>3. ASSUME NEW q \in Kinds, Serve(q)
      PROVE  WakeInv'
  <2>1. Signalled => Signalled'
    BY <1>3, ChangeTimersSignals DEF Serve
  <2>2. \A r \in Kinds : waiting'[r] > 0 => waiting[r] > 0
    BY <1>3 DEF Serve
  <2>3. UNCHANGED <<stage, fixes, posts>>
    BY <1>3 DEF Serve
  <2> QED
    BY <2>1, <2>2, <2>3
<1>4. ASSUME NEW q \in Kinds, Leave(q)
      PROVE  WakeInv'
  <2>1. Signalled => Signalled'
    BY <1>4 DEF Leave, Signalled, timers
  <2>2. UNCHANGED <<waiting, fixes, posts>> /\ stage' = After[q] /\ stage = q /\ waiting[q] = 0
    BY <1>4 DEF Leave, queues
  <2>3. Place[stage'] = Place[q] + 1 /\ stage' # "sleep"
    BY <2>2
  <2>4. ASSUME ~Signalled', NEW r \in Kinds, waiting[r] > 0
        PROVE  Place[stage'] <= Place[r]
    <3>1. r # q /\ Place[q] <= Place[r]
      BY <2>1, <2>2, <2>4
    <3> QED
      BY <2>3, <3>1
  <2>5. ASSUME ~Signalled', fixes > 0
        PROVE  Place[stage'] <= Place["gps"]
    <3>1. Place[q] <= Place["gps"]
      BY <2>1, <2>2, <2>5
    <3> QED
      BY <2>3, <3>1
  <2> QED
    BY <2>2, <2>3, <2>4, <2>5
<1>5. CASE BeforeGeo
  BY <1>5 DEF BeforeGeo, Signalled, queues, timers
<1>6. CASE Fixes
  <2>1. Signalled => Signalled'
    BY <1>6, ChangeTimersSignals DEF Fixes, HandleFix
  <2>2. UNCHANGED <<stage, waiting, posts>> /\ (fixes' > 0 => fixes > 0)
    BY <1>6 DEF Fixes, HandleFix, Poll, worker
  <2> QED
    BY <2>1, <2>2
<1>7. CASE LeaveFixes
  BY <1>7 DEF LeaveFixes, Signalled, queues, timers
<1>8. CASE LookForFix
  <2>1. Signalled => Signalled'
    <3>1. CASE fixes > 0
      BY <1>8, <3>1, ChangeTimersSignals DEF LookForFix, HandleFix
    <3>2. CASE ~(fixes > 0)
      BY <1>8, <3>2 DEF LookForFix, Signalled, timers
    <3> QED
      BY <3>1, <3>2
  <2>2. UNCHANGED <<stage, waiting, posts>> /\ (fixes' > 0 => fixes > 0)
    BY <1>8 DEF LookForFix, HandleFix, Poll
  <2> QED
    BY <2>1, <2>2
<1>9. CASE Timeout
  <2>1. Signalled => Signalled'
    <3>1. CASE ChangeTimers
      BY <1>9, <3>1, ChangeTimersSignals DEF Timeout
    <3>2. CASE UNCHANGED timers
      BY <1>9, <3>2 DEF Timeout, Signalled, timers
    <3> QED
      BY <1>9, <3>1, <3>2 DEF Timeout
  <2>2. UNCHANGED <<stage, waiting, fixes>> /\ stage = "timer"
    BY <1>9 DEF Timeout
  <2> QED
    BY <2>1, <2>2
<1>10. CASE LeaveTimers
  BY <1>10 DEF LeaveTimers, Signalled, queues, timers
<1> QED
  BY <1>1, <1>2, <1>3, <1>4, <1>5, <1>6, <1>7, <1>8, <1>9, <1>10 DEF Round

(* Asleep, no queue is ahead.                                               *)
LEMMA WakeInvSuffices ==
  ASSUME TypeOK, WakeInv
  PROVE  NoSleepWithWork
BY DEF TypeOK, WakeInv, Ahead, Place, Kinds, NoSleepWithWork

(* While the worker sleeps nothing waits in any of its queues, unless a     *)
(* thread has interrupted it or is about to: no wake-up is lost.            *)
THEOREM NeverSleepsWithWork == Spec => []NoSleepWithWork
<1>1. Init => WakeInv
  BY DEF Init, WakeInv, Signalled
<1>2. TypeOK /\ WakeInv /\ [Next]_vars => WakeInv'
  <2> SUFFICES ASSUME TypeOK, WakeInv, [Next]_vars
               PROVE  WakeInv'
    OBVIOUS
  <2>1. CASE UNCHANGED vars
    BY <2>1 DEF vars, worker, queues, timers, WakeInv, Signalled, Ahead
  <2> QED
    BY <2>1, RoundWakes, ProduceWakes, RunTimerWakes DEF Next
<1>3. TypeOK /\ WakeInv => NoSleepWithWork
  BY WakeInvSuffices
<1> QED
  BY <1>1, <1>2, <1>3, TypeCorrect, PTL DEF Spec

-----------------------------------------------------------------------------
(* Positions.  The one that drops the newest position polled to make room   *)
(* for its own; OfferFix is the only way on from there.                     *)
LEMMA NewestStep ==
  ASSUME TypeOK, NewestFixReaches, Next
  PROVE  NewestFixReaches'
<1> USE DEF TypeOK, NewestFixReaches, worker, queues, timers
<1>1. CASE Round
  <2>1. newest' = newest \/ newest' = "handled"
    BY <1>1 DEF Round, LoopTop, Wake, Serve, Leave, BeforeGeo, Fixes, HandleFix,
                Poll, LeaveFixes, LookForFix, Timeout, LeaveTimers
  <2>2. pc' = pc
    BY <1>1 DEF Round, LoopTop, Wake, Serve, Leave, BeforeGeo, Fixes,
                LeaveFixes, LookForFix, Timeout, LeaveTimers
  <2> QED
    BY <2>1, <2>2
<1>2. ASSUME NEW p \in Producers, Produce(p)
      PROVE  NewestFixReaches'
  <2>1. CASE NewFix(p)
    BY <2>1 DEF NewFix
  <2>2. CASE Trim(p)
    BY <2>2 DEF Trim
  <2>3. CASE Drop(p)
    BY <2>3 DEF Drop
  <2>4. CASE OfferFix(p)
    BY <2>4 DEF OfferFix
  <2>5. CASE Interrupt(p)
    BY <2>5 DEF Interrupt
  <2>6. ASSUME NEW q \in Offers[p], Offer(p, q)
        PROVE  NewestFixReaches'
    BY <2>6 DEF Offer
  <2> QED
    BY <1>2, <2>1, <2>2, <2>3, <2>4, <2>5, <2>6 DEF Produce, GiveFix
<1>3. ASSUME NEW t \in Timers, RunTimer(t)
      PROVE  NewestFixReaches'
  BY <1>3 DEF RunTimer, TimerWakes, TimerPosts, TimerInterrupts
<1> QED
  BY <1>1, <1>2, <1>3 DEF Next

(* The newest position waits or was handled, unless a newer one is about to *)
(* be offered, however the producers and the worker poll.                   *)
THEOREM NewestFixNeverLost == Spec => []NewestFixReaches
<1>1. Init => NewestFixReaches
  BY DEF Init, NewestFixReaches
<1>2. TypeOK /\ NewestFixReaches /\ [Next]_vars => NewestFixReaches'
  BY NewestStep DEF vars, queues, NewestFixReaches
<1> QED
  BY <1>1, <1>2, TypeCorrect, PTL DEF Spec

(* The producers that read a size small enough and have not offered yet.    *)
Offering == {p \in Producers : pc[p] = "offer"}

BoundInv == fixes + Cardinality(Offering) <= MaxFixes + Cardinality(Producers)

(* Offering is a finite set, no larger than that of all producers.          *)
LEMMA OfferingFinite ==
  /\ IsFiniteSet(Offering)
  /\ Cardinality(Offering) \in Nat
  /\ Cardinality(Producers) \in Nat
  /\ Cardinality(Offering) <= Cardinality(Producers)
BY FS_Subset, FS_CardinalityType, WorkerAssumption DEF Offering

(* A producer that may offer read at most MaxFixes; one that offers leaves. *)
LEMMA BoundStep ==
  ASSUME TypeOK, BoundInv, Next
  PROVE  BoundInv'
<1> USE OfferingFinite DEF BoundInv
<1>0. /\ Cardinality(Offering)' \in Nat
      /\ Cardinality(Offering)' <= Cardinality(Producers)
      /\ MaxFixes \in Nat
  <2>1. Offering' \subseteq Producers
    BY DEF Offering
  <2> QED
    BY <2>1, FS_Subset, FS_CardinalityType, WorkerAssumption
<1>1. CASE Offering' = Offering /\ fixes' \in Nat /\ fixes' <= fixes
  BY <1>0, <1>1 DEF TypeOK
<1>2. CASE Round
  <2>1. fixes' \in Nat /\ fixes' <= fixes
    BY <1>2 DEF Round, LoopTop, Wake, Serve, Leave, BeforeGeo, Fixes, HandleFix,
                Poll, LeaveFixes, LookForFix, Timeout, LeaveTimers, queues, TypeOK
  <2>2. pc' = pc
    BY <1>2 DEF Round, LoopTop, Wake, Serve, Leave, BeforeGeo, Fixes,
                LeaveFixes, LookForFix, Timeout, LeaveTimers
  <2> QED
    BY <1>1, <2>1, <2>2 DEF Offering
<1>3. ASSUME NEW p \in Producers, Produce(p)
      PROVE  BoundInv'
  <2> USE DEF TypeOK, worker, queues, timers
  <2>1. CASE NewFix(p)
    BY <1>1, <2>1 DEF NewFix, Offering
  <2>2. CASE Trim(p)
    <3>1. CASE fixes > MaxFixes
      BY <1>1, <2>2, <3>1 DEF Trim, Offering
    <3>2. CASE ~(fixes > MaxFixes)
      BY <1>0, <2>2, <3>2 DEF Trim
    <3> QED
      BY <3>1, <3>2
  <2>3. CASE Drop(p)
    BY <1>1, <2>3 DEF Drop, Poll, Offering
  <2>4. CASE OfferFix(p)
    <3>1. p \in Offering /\ Offering' = Offering \ {p}
      BY <2>4 DEF OfferFix, Offering
    <3>2. Cardinality(Offering)' = Cardinality(Offering) - 1
      BY <3>1, FS_RemoveElement
    <3> QED
      BY <1>0, <2>4, <3>2 DEF OfferFix
  <2>5. CASE Interrupt(p)
    BY <1>1, <2>5 DEF Interrupt, Offering
  <2>6. ASSUME NEW q \in Offers[p], Offer(p, q)
        PROVE  BoundInv'
    BY <1>1, <2>6 DEF Offer, Offering
  <2> QED
    BY <1>3, <2>1, <2>2, <2>3, <2>4, <2>5, <2>6 DEF Produce, GiveFix
<1>4. ASSUME NEW t \in Timers, RunTimer(t)
      PROVE  BoundInv'
  <2>1. UNCHANGED <<fixes, pc>>
    BY <1>4 DEF RunTimer, TimerWakes, TimerPosts, TimerInterrupts, queues
  <2> QED
    BY <1>1, <2>1 DEF Offering, TypeOK
<1> QED
  BY <1>2, <1>3, <1>4 DEF Next

(* Each producer may find room before the others offer, but no more.        *)
THEOREM FixesAlwaysBounded == Spec => []FixesBounded
<1>1. Init => BoundInv
  <2> SUFFICES ASSUME Init
               PROVE  BoundInv
    OBVIOUS
  <2>1. Offering = {}
    BY DEF Init, Offering
  <2> QED
    BY <2>1, FS_EmptySet, OfferingFinite, WorkerAssumption DEF Init, BoundInv
<1>2. TypeOK /\ BoundInv /\ [Next]_vars => BoundInv'
  BY BoundStep DEF vars, queues, BoundInv, Offering
<1>3. TypeOK /\ BoundInv => FixesBounded
  BY OfferingFinite, WorkerAssumption DEF TypeOK, BoundInv, FixesBounded
<1> QED
  BY <1>1, <1>2, <1>3, TypeCorrect, PTL DEF Spec

-----------------------------------------------------------------------------
(* A one-shot that fires stops running before it posts, so one that runs is *)
(* asleep; that is why its thread never posts again.                        *)
OneShotInv ==
  \A t \in Timers : ~multi[t] =>
    /\ running[t] => thread[t] = "sleep"
    /\ \A i, j \in DOMAIN posts : posts[i] = t /\ posts[j] = t => i = j
    /\ StillPosts(t) => \A i \in DOMAIN posts : posts[i] # t

(* What a round of the worker does to timers and posts: a job may change    *)
(* the timers, and the first post may leave the queue.                      *)
LEMMA OneShotRound ==
  ASSUME TypeOK, OneShotInv,
         ChangeTimers \/ UNCHANGED timers,
         posts' = posts \/ (posts # <<>> /\ posts' = Tail(posts))
  PROVE  OneShotInv'
<1>1. PICK started \in SUBSET {t \in Timers : New(t)} :
        \A t \in Timers :
          /\ t \notin started => multi'[t] = multi[t] /\ thread'[t] = thread[t]
          /\ t \notin started => (running'[t] => running[t])
          /\ t \in started => thread'[t] = "sleep"
  <2>1. CASE UNCHANGED timers
    <3>1. {} \in SUBSET {t \in Timers : New(t)}
      OBVIOUS
    <3> QED
      BY <2>1, <3>1 DEF timers
  <2>2. CASE ChangeTimers
    BY <2>2 DEF ChangeTimers
  <2> QED
    BY <2>1, <2>2
<1> SUFFICES ASSUME NEW t \in Timers, ~multi'[t]
             PROVE  /\ running'[t] => thread'[t] = "sleep"
                    /\ \A i, j \in DOMAIN posts' : posts'[i] = t /\ posts'[j] = t => i = j
                    /\ StillPosts(t)' => \A i \in DOMAIN posts' : posts'[i] # t
  BY DEF OneShotInv
<1>2. ASSUME NEW i \in DOMAIN posts'
      PROVE  \/ posts' = posts
             \/ i + 1 \in DOMAIN posts /\ posts'[i] = posts[i + 1] /\ posts' # posts
  <2>1. CASE posts' = posts
    BY <2>1
  <2>2. CASE posts' # posts
    <3>1. posts \in Seq(Timers) /\ posts # <<>> /\ posts' = Tail(posts)
      BY <2>2 DEF TypeOK
    <3>2. i \in 1..(Len(posts) - 1) /\ Len(posts) \in Nat
      BY <3>1, <1>2
    <3>3. posts'[i] = posts[i + 1] /\ i + 1 \in DOMAIN posts
      BY <3>1, <3>2
    <3> QED
      BY <2>2, <3>3
  <2> QED
    BY <2>1, <2>2
<1>3. CASE t \in started
  <2>1. \A i \in DOMAIN posts : posts[i] # t
    BY <1>3 DEF New
  <2>2. \A i \in DOMAIN posts' : posts'[i] # t
    BY <1>2, <2>1
  <2> QED
    BY <1>1, <1>3, <2>2
<1>4. CASE t \notin started
  <2>1. ~multi[t] /\ thread'[t] = thread[t] /\ (running'[t] => running[t])
    BY <1>1, <1>4
  <2>2. StillPosts(t)' => StillPosts(t)
    BY <2>1 DEF StillPosts
  <2>3. /\ running[t] => thread[t] = "sleep"
        /\ \A i, j \in DOMAIN posts : posts[i] = t /\ posts[j] = t => i = j
        /\ StillPosts(t) => \A i \in DOMAIN posts : posts[i] # t
    BY <2>1 DEF OneShotInv
  <2>4. ASSUME NEW i \in DOMAIN posts', NEW j \in DOMAIN posts', posts'[i] = t, posts'[j] = t
        PROVE  i = j
    <3>1. CASE posts' = posts
      BY <2>3, <2>4, <3>1
    <3>2. CASE posts' # posts
      <4>1. i + 1 = j + 1
        BY <1>2, <2>3, <2>4, <3>2
      <4>2. i \in Nat /\ j \in Nat
        BY <3>2 DEF TypeOK
      <4> QED
        BY <4>1, <4>2
    <3> QED
      BY <3>1, <3>2
  <2>5. StillPosts(t)' => \A i \in DOMAIN posts' : posts'[i] # t
    BY <1>2, <2>2, <2>3
  <2> QED
    BY <2>1, <2>3, <2>4, <2>5
<1> QED
  BY <1>3, <1>4

(* A thread of a timer makes at most the one post that it still owes.       *)
LEMMA OneShotTimer ==
  ASSUME TypeOK, OneShotInv, NEW s \in Timers, RunTimer(s)
  PROVE  OneShotInv'
<1> SUFFICES ASSUME NEW t \in Timers, ~multi'[t]
             PROVE  /\ running'[t] => thread'[t] = "sleep"
                    /\ \A i, j \in DOMAIN posts' : posts'[i] = t /\ posts'[j] = t => i = j
                    /\ StillPosts(t)' => \A i \in DOMAIN posts' : posts'[i] # t
  BY DEF OneShotInv
<1>1. ~multi[t]
  BY DEF RunTimer, TimerWakes, TimerPosts, TimerInterrupts
<1>2. /\ running[t] => thread[t] = "sleep"
      /\ \A i, j \in DOMAIN posts : posts[i] = t /\ posts[j] = t => i = j
      /\ StillPosts(t) => \A i \in DOMAIN posts : posts[i] # t
  BY <1>1 DEF OneShotInv
<1>3. CASE TimerWakes(s)
  <2>1. posts' = posts
    BY <1>3 DEF TimerWakes, queues
  <2>2. running'[t] => thread'[t] = "sleep"
    BY <1>1, <1>2, <1>3 DEF TimerWakes, TypeOK
  <2>3. StillPosts(t)' => StillPosts(t)
    BY <1>1, <1>2, <1>3 DEF TimerWakes, TypeOK, StillPosts
  <2> QED
    BY <1>2, <2>1, <2>2, <2>3
<1>4. CASE TimerPosts(s)
  <2>1. /\ posts' = Append(posts, s) /\ running' = running
        /\ thread[s] = "post" /\ thread' = [thread EXCEPT ![s] = "interrupt"]
    BY <1>4 DEF TimerPosts
  <2>2. posts \in Seq(Timers) /\ thread \in [Timers -> {"none", "sleep", "post", "interrupt"}]
    BY DEF TypeOK
  <2>3. CASE t = s
    <3>1. \A i \in DOMAIN posts : posts[i] # t
      BY <1>2, <2>1, <2>3 DEF StillPosts
    <3>2. thread'[t] = "interrupt" /\ ~running[t]
      BY <1>2, <2>1, <2>2, <2>3
    <3>3. \A i \in DOMAIN posts' : posts'[i] = t => i = Len(posts) + 1
      BY <2>1, <2>2, <3>1
    <3> QED
      BY <2>1, <3>2, <3>3 DEF StillPosts
  <2>4. CASE t # s
    <3>1. thread'[t] = thread[t] /\ (StillPosts(t)' => StillPosts(t))
      BY <2>1, <2>2, <2>4 DEF StillPosts
    <3>2. \A i \in DOMAIN posts' : posts'[i] = t => i \in DOMAIN posts /\ posts[i] = t
      BY <2>1, <2>2, <2>4
    <3> QED
      BY <1>2, <2>1, <3>1, <3>2
  <2> QED
    BY <2>3, <2>4
<1>5. CASE TimerInterrupts(s)
  <2>1. posts' = posts /\ running' = running
    BY <1>5 DEF TimerInterrupts, queues
  <2>2. running'[t] => thread'[t] = "sleep"
    BY <1>2, <1>5, <2>1 DEF TimerInterrupts, TypeOK
  <2>3. StillPosts(t)' => StillPosts(t)
    BY <1>2, <1>5, <2>1 DEF TimerInterrupts, TypeOK, StillPosts
  <2> QED
    BY <1>2, <2>1, <2>2, <2>3
<1> QED
  BY <1>3, <1>4, <1>5 DEF RunTimer

(* A one-shot timer is called at most once for each start, whenever it is   *)
(* removed and however many posts of others wait.                           *)
THEOREM OneShotsCalledOnce == Spec => []OneShotOnce
<1>1. Init => OneShotInv
  BY DEF Init, OneShotInv
<1>2. TypeOK /\ OneShotInv /\ [Next]_vars => OneShotInv'
  <2> SUFFICES ASSUME TypeOK, OneShotInv, [Next]_vars
               PROVE  OneShotInv'
    OBVIOUS
  <2>1. CASE UNCHANGED vars
    BY <2>1, OneShotRound DEF vars, queues
  <2>2. ASSUME NEW p \in Producers, Produce(p)
        PROVE  OneShotInv'
    <3>1. UNCHANGED <<timers, posts>>
      BY <2>2 DEF Produce, GiveFix, NewFix, Trim, Drop, OfferFix, Interrupt, Offer, queues
    <3> QED
      BY <3>1, OneShotRound
  <2>3. CASE Round
    <3>1. ChangeTimers \/ UNCHANGED timers
      BY <2>3 DEF Round, LoopTop, Wake, Serve, Leave, BeforeGeo, Fixes, LeaveFixes,
                  LookForFix, HandleFix, Timeout, LeaveTimers
    <3>2. posts' = posts \/ (posts # <<>> /\ posts' = Tail(posts))
      BY <2>3 DEF Round, LoopTop, Wake, Serve, Leave, BeforeGeo, Fixes, LeaveFixes,
                  LookForFix, Timeout, LeaveTimers, queues
    <3> QED
      BY <3>1, <3>2, OneShotRound
  <2> QED
    BY <2>1, <2>2, <2>3, OneShotTimer DEF Next
<1>3. OneShotInv => OneShotOnce
  BY DEF OneShotInv, OneShotOnce
<1> QED
  BY <1>1, <1>2, <1>3, TypeCorrect, PTL DEF Spec
=============================================================================
