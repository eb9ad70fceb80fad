--------------------------- MODULE DownloadScheduler ---------------------------
(* HostAwareDownloadScheduler (models/download_scheduler.py): which download *)
(* may start now.  Its state is a record q, guarded by one condition lock:   *)
(*   q.pending      tasks that wait; q.before: pairs of them, in the order   *)
(*                  they were queued,                                        *)
(*   q.keys         dedup keys in flight (a task stands for its key),        *)
(*   q.byHost, q.active, q.exclusive   the in-flight counters,               *)
(*   q.overdue      the exclusive task is past exclusive_timeout,            *)
(*   q.maxParallel, q.perHost, q.closed.                                     *)
(* Every method is an operator on q.  A waiter that times out and looks      *)
(* again is the same as one that waits, so the condition's wake-ups are left *)
(* out.                                                                      *)
EXTENDS Integers

CONSTANTS Task, Host,
          HostOf,      \* [Task -> Host]
          Exclusive    \* tasks that run alone: the annotator verify

ASSUME SchedulerAssumption ==
    /\ HostOf \in [Task -> Host]
    /\ Exclusive \subseteq Task

Limit == Nat \ {0}

Queue(maxParallel, perHost) ==
    [pending |-> {}, before |-> {}, keys |-> {}, byHost |-> [h \in Host |-> 0],
     active |-> 0, exclusive |-> 0, overdue |-> FALSE,
     maxParallel |-> maxParallel, perHost |-> perHost, closed |-> FALSE]

QueueState == [pending: SUBSET Task, before: SUBSET (Task \X Task),
               keys: SUBSET Task, byHost: [Host -> Nat], active: Nat, exclusive: Nat, overdue: BOOLEAN,
               maxParallel: Limit, perHost: Limit, closed: BOOLEAN]

HasWork(q) == q.pending # {} \/ q.active > 0

-----------------------------------------------------------------------------
\* The orders in which a list may name tasks, one time each.
Orders(tasks) ==
    {order \in SUBSET (tasks \X tasks) :
        \A s, t \in tasks :
            /\ <<s, t>> \in order <=> s # t /\ <<t, s>> \notin order
            /\ \A r \in tasks : <<r, s>> \in order /\ <<s, t>> \in order => <<r, t>> \in order}

\* Those of tasks that nothing of them is queued before: one, if there is any.
First(q, tasks) == {t \in tasks : \A s \in tasks : <<s, t>> \notin q.before}

\* tasks behind what waits, among themselves in the given order
Behind(q, tasks, order) ==
    [q EXCEPT !.pending = @ \cup tasks, !.before = @ \cup (q.pending \X tasks) \cup order]

\* Mutant: only what waits is looked at for a duplicate.
EnqueueAgain(q, task) == IF task \in q.pending THEN q ELSE Behind(q, {task}, {})

Enqueue(q, task) == IF task \in q.keys \cup q.pending THEN q ELSE Behind(q, {task}, {})

EnqueueMany(q, tasks, order) ==
    LET fresh == tasks \ (q.keys \cup q.pending)
    IN Behind(q, fresh, order \cap (fresh \X fresh))

Prune(q, keep) == [q EXCEPT !.pending = @ \cap keep, !.before = @ \cap (keep \X keep)]

SetLimits(q, maxParallel, perHost) ==
    [q EXCEPT !.maxParallel = maxParallel, !.perHost = perHost]

Close(q) == [q EXCEPT !.closed = TRUE]

\* time.monotonic() passes exclusive_started_at + exclusive_timeout.
ExclusiveTimesOut(q) == [q EXCEPT !.overdue = TRUE]

\* Mutant: the time bound is not looked at.
ExclusivityForever(q) == q.exclusive > 0

ExclusivityActive(q) == q.exclusive > 0 /\ ~q.overdue

\* Mutant: an exclusive task starts while others run.
FindAdmissibleAtOnce(q) ==
    LET ordinary == q.pending \ Exclusive
        fits     == {t \in ordinary : q.byHost[HostOf[t]] < q.perHost}
    IN IF q.active >= q.maxParallel THEN {}
       ELSE IF ~ExclusivityActive(q) /\ fits # {} THEN First(q, fits)
       ELSE IF ordinary = {} THEN First(q, q.pending)
       ELSE {}

\* The first ordinary task whose host has room; an exclusive task only when
\* nothing ordinary waits and nothing is in flight.  The set of it, or {}.
FindAdmissible(q) ==
    LET ordinary == q.pending \ Exclusive
        fits     == {t \in ordinary : q.byHost[HostOf[t]] < q.perHost}
    IN IF q.active >= q.maxParallel THEN {}
       ELSE IF ~ExclusivityActive(q) /\ fits # {} THEN First(q, fits)
       ELSE IF ordinary = {} /\ q.active = 0 THEN First(q, q.pending)
       ELSE {}

\* acquire, when it returns task
Acquire(q, task) ==
    [Prune(q, Task \ {task}) EXCEPT
              !.keys      = @ \cup {task},
              !.byHost[HostOf[task]] = @ + 1,
              !.active    = @ + 1,
              !.exclusive = IF task \in Exclusive THEN @ + 1 ELSE @,
              !.overdue   = IF task \in Exclusive THEN FALSE ELSE @]

LessOne(n) == IF n > 0 THEN n - 1 ELSE 0

\* Mutant: the host's slot is kept.
ReleaseKeepsHost(q, task) ==
    LET exclusive == IF task \in Exclusive THEN LessOne(q.exclusive) ELSE q.exclusive
    IN [q EXCEPT !.active = LessOne(@), !.exclusive = exclusive, !.keys = @ \ {task},
                 !.overdue = @ /\ exclusive > 0]

\* Mutant: every release is taken for an exclusive one, and not floored.
ReleaseUnfloored(q, task) ==
    [q EXCEPT !.active = LessOne(@), !.exclusive = @ - 1, !.keys = @ \ {task},
              !.byHost[HostOf[task]] = LessOne(@)]

Release(q, task) ==
    LET exclusive == IF task \in Exclusive THEN LessOne(q.exclusive) ELSE q.exclusive
    IN [q EXCEPT !.active    = LessOne(@),
                 !.exclusive = exclusive,
                 !.overdue   = @ /\ exclusive > 0,
                 !.keys      = @ \ {task},
                 !.byHost[HostOf[task]] = LessOne(@)]
=============================================================================
