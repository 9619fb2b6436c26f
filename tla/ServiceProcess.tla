--------------------------- MODULE ServiceProcess ---------------------------
(***************************************************************************)
(* The pods of a service, from start to exit: main.go of the order,        *)
(* inventory, notification, payment and product service.                   *)
(*                                                                         *)
(* A pod goes through the stages of its run function, then waits in a      *)
(* select for a signal or for the error of its gRPC server or consumer.    *)
(* After a signal it drains its requests, but not its consumer; after an   *)
(* error it returns at once.  Deferred closes run in both cases.           *)
(* Kubernetes starts a pod again that has ended, unless it had been told   *)
(* to go.  The pods share the schema of their service in PostgreSQL.       *)
(***************************************************************************)
EXTENDS Integers, SequencesExt

CONSTANTS Pods,
          Requests,   \* requests that clients send
          Latest,     \* the version of the last embedded migration
          MaxFaults   \* crashes and failures of stages, handlers and servers

ASSUME ServiceProcessAssumption ==
    /\ Latest \in Nat \ {0}
    /\ MaxFaults \in Nat
    /\ "none" \notin Pods

VARIABLES main,      \* the run function that the pods execute
          pods,      \* pod -> how far its process is
          requests,  \* request -> its pod and the effects it still has to have
          schema,    \* version, dirty flag and lock of the migrations
          postgres,  \* whether PostgreSQL is up
          faults

vars == <<main, pods, requests, schema, postgres, faults>>

-----------------------------------------------------------------------------
(* The run functions: their stages, and what a request and a record do.    *)

\* A mutant of OrderMain: the probes are answered before the schema is migrated.
HealthFirst ==
    [stages  |-> <<"health", "Migrate", "Connect", "EnsureTopics", "Serve", "Run">>,
     request |-> <<"commit", "publish">>,
     record  |-> <<"commit">>]

OrderMain ==
    [stages  |-> <<"Migrate", "Connect", "EnsureTopics", "health", "Serve", "Run">>,
     request |-> <<"commit", "publish">>,
     record  |-> <<"commit">>]

InventoryMain ==
    [stages  |-> <<"Migrate", "Connect", "EnsureTopics", "health", "Serve", "Run">>,
     request |-> <<>>,
     record  |-> <<"commit", "publish">>]

NotificationMain ==
    [stages  |-> <<"Migrate", "Connect", "health", "Serve", "Run">>,
     request |-> <<>>,
     record  |-> <<"commit">>]

PaymentMain ==
    [stages  |-> <<"EnsureTopics", "health", "Run">>,
     request |-> <<>>,
     record  |-> <<"publish">>]

ProductMain ==
    [stages  |-> <<"Migrate", "Connect", "health", "Serve">>,
     request |-> <<>>,
     record  |-> <<>>]

Mains == {OrderMain, InventoryMain, NotificationMain, PaymentMain, ProductMain}

-----------------------------------------------------------------------------
(* State *)

NoPod == "none"

\* A pod without a process.  todo: the stages still to come; record: what the
\* handler has still to do with the record it has; told: the pod has been sent
\* its signal.
Off == [at |-> "off", todo |-> <<>>, grpc |-> "off", consumer |-> "off",
        record |-> <<>>, errCh |-> "none", told |-> FALSE]

\* A request before it is sent.  by: how the process ended that handled it.
NotSent == [at |-> "none", pod |-> NoPod, todo |-> <<>>, by |-> "none"]

Rests(s) == { SubSeq(s, i, Len(s)) : i \in 1..Len(s) + 1 }

Processes ==
    [at       : {"off", "start", "select", "drain", "close", "abort"},
     todo     : Rests(main.stages),
     grpc     : {"off", "serving", "returned"},
     consumer : {"off", "running", "returned"},
     record   : Rests(main.record),
     errCh    : {"none", "canceled", "error"},
     told     : BOOLEAN]

Handlings ==
    [at   : {"none", "handled", "answered", "failed", "half done"},
     pod  : Pods \cup {NoPod},
     todo : Rests(main.request),
     by   : {"none", "signal", "error", "crash"}]

TypeOK ==
    /\ main \in Mains
    /\ pods \in [Pods -> Processes]
    /\ \A p \in Pods : pods[p].at = "start" <=> pods[p].todo # <<>>
    /\ requests \in [Requests -> Handlings]
    /\ schema \in [version : 0..Latest, dirty : BOOLEAN, lock : Pods \cup {NoPod}]
    /\ postgres \in BOOLEAN
    /\ faults \in 0..MaxFaults

\* An earlier release may have left any older version.
Init ==
    /\ main \in Mains
    /\ pods = [p \in Pods |-> Off]
    /\ requests = [r \in Requests |-> NotSent]
    /\ schema \in [version : 0..Latest, dirty : {FALSE}, lock : {NoPod}]
    /\ postgres \in BOOLEAN
    /\ faults = 0

Fault == faults < MaxFaults /\ faults' = faults + 1

\* The process of p is in front of stage.
Before(p, stage) == pods[p].at = "start" /\ Head(pods[p].todo) = stage

\* The process of p goes on to its next stage, or to its select.
Passed(pod) == [pod EXCEPT !.todo = Tail(@),
                           !.at = IF Len(pod.todo) = 1 THEN "select" ELSE "start"]

\* A request whose process has ended: nothing has happened, or not all of it.
Ended(r, cause) ==
    [r EXCEPT !.at = IF r.todo = main.request THEN "failed" ELSE "half done", !.by = cause]

\* The process of p ends.  Its requests end, PostgreSQL takes back its lock.
End(p, cause) ==
    /\ pods' = [pods EXCEPT ![p] = [Off EXCEPT !.told = pods[p].told]]
    /\ requests' = [r \in Requests |->
                       IF requests[r].at = "handled" /\ requests[r].pod = p
                       THEN Ended(requests[r], cause) ELSE requests[r]]
    /\ schema' = IF schema.lock = p THEN [schema EXCEPT !.lock = NoPod] ELSE schema
    /\ UNCHANGED <<main, postgres>>

-----------------------------------------------------------------------------
(* From the start to the select *)

\* Kubernetes starts a pod's container, as often as it ends.
Start(p) ==
    /\ pods[p].at = "off"
    /\ ~pods[p].told
    /\ pods' = [pods EXCEPT ![p].at = "start", ![p].todo = main.stages]
    /\ UNCHANGED <<main, requests, schema, postgres, faults>>

\* Up takes the advisory lock and looks at the version.
LockMigrations(p) ==
    /\ Before(p, "Migrate")
    /\ postgres
    /\ ~pods[p].told
    /\ ~schema.dirty
    /\ schema.lock = NoPod
    /\ schema' = [schema EXCEPT !.lock = p]
    /\ UNCHANGED <<main, pods, requests, postgres, faults>>

\* A mutant of Pending: one migration too many.
PendingToo == schema.version <= Latest

Pending == schema.version < Latest

\* One migration: its version is written down as dirty before it runs, and as
\* clean after it.
ApplyMigration(p) ==
    /\ schema.lock = p
    /\ \/ /\ ~schema.dirty /\ Pending
          /\ schema' = [schema EXCEPT !.dirty = TRUE, !.version = @ + 1]
       \/ /\ schema.dirty
          /\ schema' = [schema EXCEPT !.dirty = FALSE]
    /\ UNCHANGED <<main, pods, requests, postgres, faults>>

Migrated(p) ==
    /\ schema.lock = p
    /\ ~schema.dirty /\ ~Pending
    /\ schema' = [schema EXCEPT !.lock = NoPod]
    /\ pods' = [pods EXCEPT ![p] = Passed(@)]
    /\ UNCHANGED <<main, requests, postgres, faults>>

\* Migrate tries once: it fails without a database, with a dirty one, and when
\* its context has been cancelled.
MigrateRefused(p) ==
    /\ Before(p, "Migrate")
    /\ schema.lock # p
    /\ ~postgres \/ pods[p].told \/ (schema.dirty /\ schema.lock = NoPod)
    /\ End(p, "error")
    /\ UNCHANGED faults

\* A stage that is retried until it succeeds, unless its context is cancelled.
Reach(p, stage) ==
    /\ Before(p, stage)
    /\ \/ /\ ~pods[p].told
          /\ pods' = [pods EXCEPT ![p] = Passed(@)]
          /\ UNCHANGED <<main, requests, schema, postgres>>
       \/ /\ pods[p].told
          /\ End(p, "error")
    /\ UNCHANGED faults

Connect(p)      == Reach(p, "Connect")
EnsureTopics(p) == Reach(p, "EnsureTopics")

\* The goroutines of the health server, the gRPC server and the consumer.
Go(p) ==
    /\ pods' = [pods EXCEPT ![p] =
          CASE Before(p, "health") -> Passed(@)
            [] Before(p, "Serve")  -> [Passed(@) EXCEPT !.grpc = "serving"]
            [] Before(p, "Run")    -> [Passed(@) EXCEPT !.consumer = "running"]
            [] OTHER               -> @]
    /\ pods' # pods
    /\ UNCHANGED <<main, requests, schema, postgres, faults>>

\* A stage gives up: a migration that fails, retries that are exhausted, a port
\* that is taken.
StageFails(p) ==
    /\ pods[p].at = "start"
    /\ Head(pods[p].todo) \in {"Migrate", "Connect", "EnsureTopics", "Serve"}
    /\ End(p, "error")
    /\ Fault

PostgresUp ==
    /\ ~postgres
    /\ postgres' = TRUE
    /\ UNCHANGED <<main, pods, requests, schema, faults>>

-----------------------------------------------------------------------------
(* Requests and records *)

\* The deferred closes of producer and pool: what runs on cannot publish.
Possible(p, effect) == effect = "publish" => pods[p].at \notin {"close", "abort"}

Send(r, p) ==
    /\ requests[r].at = "none"
    /\ pods[p].grpc = "serving"
    /\ requests' = [requests EXCEPT
          ![r] = [at |-> "handled", pod |-> p, todo |-> main.request, by |-> "none"]]
    /\ UNCHANGED <<main, pods, schema, postgres, faults>>

\* The next effect of a request, or its answer.
HandleRequest(r) ==
    /\ requests[r].at = "handled"
    /\ \/ /\ requests[r].todo = <<>>
          /\ requests' = [requests EXCEPT ![r].at = "answered"]
       \/ /\ requests[r].todo # <<>>
          /\ Possible(requests[r].pod, Head(requests[r].todo))
          /\ requests' = [requests EXCEPT ![r].todo = Tail(@)]
    /\ UNCHANGED <<main, pods, schema, postgres, faults>>

\* The consumer polls a record, unless its context has been cancelled.
TakeRecord(p) ==
    /\ pods[p].consumer = "running"
    /\ pods[p].record = <<>>
    /\ ~pods[p].told
    /\ pods' = [pods EXCEPT ![p].record = main.record]
    /\ UNCHANGED <<main, requests, schema, postgres, faults>>

HandleRecord(p) ==
    /\ pods[p].consumer = "running"
    /\ pods[p].record # <<>>
    /\ Possible(p, Head(pods[p].record))
    /\ pods' = [pods EXCEPT ![p].record = Tail(@)]
    /\ UNCHANGED <<main, requests, schema, postgres, faults>>

\* Run returns: with the error of its cancelled context, wherever it is; or with
\* the error of a handler that keeps failing.
Return(p, err) ==
    /\ pods[p].consumer = "running"
    /\ pods' = [pods EXCEPT ![p].consumer = "returned",
                            ![p].errCh = IF @ = "none" THEN err ELSE @]
    /\ UNCHANGED <<main, requests, schema, postgres>>

ConsumerCanceled(p) == pods[p].told /\ Return(p, "canceled") /\ UNCHANGED faults
ConsumerFails(p)    == pods[p].record # <<>> /\ Return(p, "error") /\ Fault

ServeFails(p) ==
    /\ pods[p].grpc = "serving"
    /\ pods' = [pods EXCEPT ![p].grpc = "returned",
                            ![p].errCh = IF @ = "none" THEN "error" ELSE @]
    /\ Fault
    /\ UNCHANGED <<main, requests, schema, postgres>>

-----------------------------------------------------------------------------
(* From the select to the end *)

\* A rolling update or a node that is emptied: some pod of the service stays.
Signal(p) ==
    /\ pods[p].at # "off"
    /\ ~pods[p].told
    /\ \E other \in Pods \ {p} : ~pods[other].told
    /\ pods' = [pods EXCEPT ![p].told = TRUE]
    /\ UNCHANGED <<main, requests, schema, postgres, faults>>

\* Mutants of Signalled and Failed: the select waits for errCh alone, and only for
\* the signal.
OnlyCanceled(p) == pods[p].errCh = "canceled"
NeverFailed(p)  == FALSE

\* ctx is done.
Signalled(p) == pods[p].told

\* errCh has an error that is not the cancelled context's.
Failed(p) == pods[p].errCh = "error"

\* A signal lets GracefulStop close the listener; an error returns at once.
Select(p) ==
    /\ pods[p].at = "select"
    /\ \/ /\ Signalled(p)
          /\ pods' = [pods EXCEPT ![p].at = "drain",
                                  ![p].grpc = IF @ = "serving" THEN "returned" ELSE @]
       \/ /\ Failed(p)
          /\ pods' = [pods EXCEPT ![p].at = "abort"]
    /\ UNCHANGED <<main, requests, schema, postgres, faults>>

\* A mutant of Drained: Stop instead of GracefulStop.
NotWaited(p) == TRUE

\* GracefulStop returns when the requests of the pod have been answered.
Drained(p) ==
    \A r \in Requests : requests[r].pod = p => requests[r].at # "handled"

GracefulStop(p) ==
    /\ pods[p].at = "drain"
    /\ Drained(p)
    /\ pods' = [pods EXCEPT ![p].at = "close"]
    /\ UNCHANGED <<main, requests, schema, postgres, faults>>

\* The deferred closes have run, main returns.
Exit(p) ==
    /\ \/ pods[p].at = "close" /\ End(p, "signal")
       \/ pods[p].at = "abort" /\ End(p, "error")
    /\ UNCHANGED faults

Crash(p) ==
    /\ pods[p].at # "off"
    /\ End(p, "crash")
    /\ Fault

-----------------------------------------------------------------------------
\* Nobody has anything to do but to wait for requests.
Rest ==
    /\ \A p \in Pods : pods[p].at = "select" \/ (pods[p].at = "off" /\ pods[p].told)
    /\ \A r \in Requests : requests[r].at # "handled"
    /\ UNCHANGED vars

\* What a process does by itself.
Step(p) ==
    \/ LockMigrations(p) \/ ApplyMigration(p) \/ Migrated(p) \/ MigrateRefused(p)
    \/ Connect(p) \/ EnsureTopics(p)
    \/ Go(p)
    \/ ConsumerCanceled(p)
    \/ Select(p)
    \/ GracefulStop(p)
    \/ Exit(p)

Next ==
    \/ \E p \in Pods :
          \/ Start(p) \/ Step(p) \/ Signal(p)
          \/ TakeRecord(p) \/ HandleRecord(p)
          \/ StageFails(p) \/ ConsumerFails(p) \/ ServeFails(p) \/ Crash(p)
    \/ \E r \in Requests : HandleRequest(r) \/ \E p \in Pods : Send(r, p)
    \/ PostgresUp
    \/ Rest

Spec == Init /\ [][Next]_vars

\* Processes and handlers go on, Kubernetes restarts, PostgreSQL comes up.
Fairness ==
    /\ WF_vars(PostgresUp)
    /\ \A p \in Pods : WF_vars(Start(p)) /\ WF_vars(Step(p))
    /\ \A r \in Requests : WF_vars(HandleRequest(r))

FairSpec == Spec /\ Fairness

-----------------------------------------------------------------------------
(* Properties *)

Ready(p) == pods[p].at # "off" /\ "health" \in Range(main.stages) \ Range(pods[p].todo)

\* While a pod answers its readiness probe the schema of its service is complete
\* and clean, whichever pod has migrated it and whatever other pods that start,
\* fail or end do to it.
ReadySchema ==
    "Migrate" \in Range(main.stages) =>
        \A p \in Pods : Ready(p) => schema.version = Latest /\ ~schema.dirty

\* A signal never leaves a request half done: an order that is committed is also
\* published, although listener, producer and pool are being closed.
SignalFinishesRequests ==
    \A r \in Requests : requests[r].at = "half done" => requests[r].by # "signal"

(***************************************************************************)
(* The inductive invariant behind the two: the lock of the migrations is   *)
(* with a pod that is at its migrations, a pod that is past them has left  *)
(* a complete schema, which nothing takes away, and a pod whose listener   *)
(* is closed gets no request, so what it has drained it stays rid of.      *)
(***************************************************************************)
LockHeld == schema.lock # NoPod => Before(schema.lock, "Migrate")

Past(p) == pods[p].at # "off" /\ ~Before(p, "Migrate")

MigratedFirst ==
    "Migrate" \in Range(main.stages) =>
        \A p \in Pods : Past(p) => schema.version = Latest /\ ~schema.dirty

Drains ==
    \A p \in Pods : /\ pods[p].at \in {"drain", "close"} => pods[p].grpc # "serving"
                    /\ pods[p].at = "close" => Drained(p)

ProcessInv == TypeOK /\ LockHeld /\ MigratedFirst /\ Drains /\ SignalFinishesRequests

\* A pod that is told to go ends by itself, with requests and records in hand.
EndsWhenTold == \A p \in Pods : pods[p].told ~> pods[p].at = "off"

\* The process died in the middle of a migration, which no pod repairs.
StuckDirty == schema.dirty /\ schema.lock = NoPod

\* A consumer that stops, or a start that fails, never leaves the service without
\* a consumer for good: no process lives on without its consumer.
ConsumesAgain ==
    "Run" \in Range(main.stages) =>
        <>[](StuckDirty \/ \E p \in Pods : pods[p].consumer = "running")
=============================================================================
