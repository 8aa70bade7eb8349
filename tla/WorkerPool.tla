----------------------------- MODULE WorkerPool -----------------------------
(***************************************************************************)
(* modules/ai/worker-pool.ts: requests for a move, the worker threads that *)
(* compute them and the queue in between.  The pool is complete but the    *)
(* controller does not call it yet.                                        *)
(*                                                                         *)
(* A thread works on the requests posted to it in order.  It may take for  *)
(* ever, and it may die at any time; the pool learns of that only later,   *)
(* by the exit event.  The outcome of a request (a move, an error of the   *)
(* strategy, a timeout) is not told apart: the caller falls back.          *)
(***************************************************************************)
EXTENDS Integers, Sequences, FiniteSets, SequencesExt

CONSTANTS
    MaxRequests,    \* bound: requests ever made
    MaxPoolSize,    \* bound: config.workerPoolSize
    MaxDeaths,      \* bound: threads that die
    CanShutDown     \* whether shutdownPool is called

ASSUME PoolAssumption ==
    /\ MaxRequests \in Nat /\ MaxPoolSize \in Nat \ {0} /\ MaxDeaths \in Nat
    /\ CanShutDown \in BOOLEAN

VARIABLES
    size,           \* config.workerPoolSize
    phase,          \* "running", "shuttingDown" (still initialized) or "down"
    workers,        \* the array workers, of ids
    created,        \* workerIdCounter
    busy,           \* ids of the ManagedWorkers marked busy
    dead,           \* ids of threads that have exited
    mailbox,        \* requests posted to a thread, by worker id
    responses,      \* messages from the threads not delivered yet
    pending,        \* pendingRequests with an armed timer: <<request, worker>>
    requestQueue,
    settled,        \* requests whose promise is resolved or rejected
    asked           \* number of requests made; they are named 1, 2, ...

pool == <<size, phase, workers, created, busy>>
threads == <<dead, mailbox, responses>>
requests == <<pending, requestQueue, settled, asked>>
poolVars == <<pool, threads, requests>>

Requests == 1 .. MaxRequests
Ids == 0 .. MaxPoolSize + MaxDeaths - 1

PoolInit ==
    /\ size \in 1 .. MaxPoolSize
    /\ phase = "running"
    /\ workers = [i \in 1 .. size |-> i - 1]
    /\ created = size
    /\ busy = {} /\ dead = {}
    /\ mailbox = [w \in Ids |-> << >>]
    /\ responses = {}
    /\ pending = {} /\ requestQueue = << >> /\ settled = {} /\ asked = 0

-----------------------------------------------------------------------------

\* workers.find((w) => !w.busy)
IdleWorker(w, marked) ==
    \E i \in DOMAIN workers :
        /\ workers[i] = w /\ w \notin marked
        /\ \A j \in 1 .. i - 1 : workers[j] \in marked

\* dispatchToWorker; posting to a thread that has exited does nothing
DispatchToWorker(w, r, marked, waiting) ==
    /\ busy' = marked \cup {w}
    /\ pending' = waiting \cup {<<r, w>>}
    /\ mailbox' = IF w \in dead THEN mailbox ELSE [mailbox EXCEPT ![w] = Append(@, r)]

\* processQueue, with the workers in marked busy and the requests in waiting pending
ProcessQueue(marked, waiting) ==
    \/ \E w \in Ids :
          /\ requestQueue # << >> /\ IdleWorker(w, marked)
          /\ DispatchToWorker(w, Head(requestQueue), marked, waiting)
          /\ requestQueue' = Tail(requestQueue)
    \/ /\ requestQueue = << >> \/ Range(workers) \subseteq marked
       /\ busy' = marked /\ pending' = waiting
       /\ UNCHANGED <<mailbox, requestQueue>>

\* computeMove: a full queue rejects the request at once.
ComputeMove(r) ==
    /\ phase # "down" /\ r = asked + 1
    /\ asked' = r
    /\ UNCHANGED <<size, phase, workers, created, dead, responses>>
    /\ IF Len(requestQueue) >= size * 2
       THEN settled' = settled \cup {r} /\ UNCHANGED <<busy, mailbox, pending, requestQueue>>
       ELSE /\ UNCHANGED settled
            /\ \/ \E w \in Ids : IdleWorker(w, busy) /\ DispatchToWorker(w, r, busy, pending)
                  /\ UNCHANGED requestQueue
               \/ Range(workers) \subseteq busy /\ requestQueue' = Append(requestQueue, r)
                  /\ UNCHANGED <<busy, mailbox, pending>>

\* The thread: handleRequest of worker.ts answers every request, with a move or
\* an error.
Answer(w) ==
    /\ w \notin dead /\ mailbox[w] # << >>
    /\ mailbox' = [mailbox EXCEPT ![w] = Tail(@)]
    /\ responses' = responses \cup {<<Head(mailbox[w]), w>>}
    /\ UNCHANGED <<pool, dead, requests>>

Pending(r) == \E entry \in pending : entry[1] = r
WithoutRequest(r) == {entry \in pending : entry[1] # r}

\* Mutant: an answer that comes too late marks the worker idle all the same.
MutantLateAnswer(r, w) ==
    /\ <<r, w>> \in responses
    /\ responses' = responses \ {<<r, w>>}
    /\ UNCHANGED <<size, phase, workers, created, dead, asked>>
    /\ settled' = settled \cup {r}
    /\ ProcessQueue(busy \ {w}, WithoutRequest(r))

\* handleWorkerResponse: an answer to a request that has timed out is discarded.
HandleWorkerResponse(r, w) ==
    /\ <<r, w>> \in responses
    /\ responses' = responses \ {<<r, w>>}
    /\ UNCHANGED <<size, phase, workers, created, dead, asked>>
    /\ IF Pending(r)
       THEN /\ settled' = settled \cup {r}
            /\ ProcessQueue(busy \ {w}, WithoutRequest(r))
       ELSE UNCHANGED <<busy, mailbox, pending, requestQueue, settled>>

\* The timer of dispatchToWorker, which holds the worker it was set for
MoveTimeout(r, w) ==
    /\ <<r, w>> \in pending
    /\ settled' = settled \cup {r}
    /\ ProcessQueue(busy \ {w}, WithoutRequest(r))
    /\ UNCHANGED <<size, phase, workers, created, dead, responses, asked>>

\* A thread dies, with what was posted to it
ThreadDies(w) ==
    /\ w \in Range(workers) \ dead
    /\ Cardinality(dead) < MaxDeaths
    /\ dead' = dead \cup {w}
    /\ mailbox' = [mailbox EXCEPT ![w] = << >>]
    /\ UNCHANGED <<pool, responses, requests>>

\* The exit event: handleWorkerCrash puts a new worker last.  If the thread
\* cannot be spawned, its number is used up and the pool goes on with a worker
\* less, in the end with none.  What was dispatched to the old one stays
\* pending, and processQueue is not called.
HandleWorkerCrash(w) ==
    /\ phase = "running"
    /\ w \in dead
    /\ \A r \in Requests : <<r, w>> \notin responses    \* messages come first
    /\ \E i \in DOMAIN workers :
          /\ workers[i] = w
          /\ \/ workers' = Append(RemoveAt(workers, i), created)
             \/ workers' = RemoveAt(workers, i)
    /\ created' = created + 1
    /\ UNCHANGED <<size, phase, busy, threads, requests>>

\* Mutant: only what is pending on a worker is rejected.
MutantQueueDropped ==
    /\ CanShutDown /\ phase = "running"
    /\ phase' = "shuttingDown"
    /\ settled' = settled \cup {entry[1] : entry \in pending}
    /\ requestQueue' = << >> /\ pending' = {}
    /\ UNCHANGED <<size, workers, created, busy, threads, asked>>

\* shutdownPool, up to the await: everything waiting is rejected, but the
\* workers keep their marks and the pool stays initialized.
ShutdownPool ==
    /\ CanShutDown /\ phase = "running"
    /\ phase' = "shuttingDown"
    /\ settled' = settled \cup Range(requestQueue) \cup {entry[1] : entry \in pending}
    /\ requestQueue' = << >> /\ pending' = {}
    /\ UNCHANGED <<size, workers, created, busy, threads, asked>>

\* All threads are terminated.
PoolIsDown ==
    /\ phase = "shuttingDown"
    /\ phase' = "down"
    /\ workers' = << >>
    /\ dead' = 0 .. created - 1
    /\ mailbox' = [w \in Ids |-> << >>] /\ responses' = {}
    /\ UNCHANGED <<size, created, busy, requests>>

Timeouts == \E r \in Requests, w \in Ids : MoveTimeout(r, w)

PoolNext ==
    \/ \E r \in Requests : ComputeMove(r)
    \/ \E w \in Ids : Answer(w) \/ ThreadDies(w) \/ HandleWorkerCrash(w)
    \/ \E r \in Requests, w \in Ids : HandleWorkerResponse(r, w)
    \/ Timeouts
    \/ ShutdownPool \/ PoolIsDown

PoolSpec == PoolInit /\ [][PoolNext]_poolVars

\* Timers fire; threads may hang, and answers may never come.
PoolFairness == WF_poolVars(Timeouts)

-----------------------------------------------------------------------------
(* Properties.                                                             *)

\* While the pool runs, a worker is marked busy exactly as long as one request
\* is pending on it, whatever late answers arrive: none is given two requests,
\* and none is lost to the pool.
BusyMeansPending ==
    phase = "running" =>
        /\ \A i \in DOMAIN workers :
              workers[i] \in busy <=> \E r \in Requests : <<r, workers[i]>> \in pending
        /\ \A e, f \in pending : e # f => e[1] # f[1] /\ e[2] # f[2]

\* Every request made to a running pool is settled in the end, even if no
\* thread ever answers, and however many threads could not be replaced: only
\* one queued in a pool that has lost its last worker may wait for ever.
RequestsSettle ==
    \A r \in Requests :
        (r =< asked /\ phase = "running") ~>
            \/ r \in settled
            \/ phase = "running" /\ workers = << >> /\ r \in Range(requestQueue)

=============================================================================
