------------------------ MODULE ServiceProcessProofs ------------------------
(***************************************************************************)
(* A pod that answers its readiness probe has a complete schema under it,  *)
(* and a signal leaves no request half done, for any number of pods,       *)
(* requests, migrations and faults.                                        *)
(***************************************************************************)
EXTENDS ServiceProcess, SequenceTheorems, TLAPS

-----------------------------------------------------------------------------
(* What is left of a sequence, and the stages of the run functions.        *)

LEMMA RestFacts ==
    ASSUME NEW S, NEW s \in Seq(S), NEW t \in Rests(s)
    PROVE  /\ t \in Seq(S)
           /\ t # <<>> => /\ \E i \in 1..Len(s) : t = SubSeq(s, i, Len(s)) /\ Head(t) = s[i]
                          /\ Tail(t) \in Rests(s)
                          /\ Tail(t) # <<>> => \E i \in 2..Len(s) : Head(Tail(t)) = s[i]
                          /\ Len(t) = 1 <=> Tail(t) = <<>>
<1>p. PICK i \in 1..Len(s) + 1 : t = SubSeq(s, i, Len(s))
  BY DEF Rests
<1>1. Len(s) \in Nat
  OBVIOUS
<1>2. /\ t \in Seq(S) /\ Len(t) = Len(s) - i + 1
      /\ \A j \in 1..Len(s) - i + 1 : t[j] = s[i + j - 1]
  BY <1>p, <1>1
<1>3. CASE t # <<>>
  <2>1. i \in 1..Len(s)
    BY <1>1, <1>2, <1>3
  <2>2. Head(t) = s[i]
    BY <1>1, <1>2, <2>1
  <2>3. /\ Tail(t) \in Seq(S) /\ Len(Tail(t)) = Len(s) - i
        /\ \A j \in 1..Len(s) - i : Tail(t)[j] = t[j + 1]
    BY <1>1, <1>2, <1>3, <2>1
  <2>4. /\ SubSeq(s, i + 1, Len(s)) \in Seq(S) /\ Len(SubSeq(s, i + 1, Len(s))) = Len(s) - i
        /\ \A j \in 1..Len(s) - i : SubSeq(s, i + 1, Len(s))[j] = s[i + j]
    BY <1>1, <2>1
  <2>5. \A j \in 1..Len(s) - i : Tail(t)[j] = SubSeq(s, i + 1, Len(s))[j]
    BY <1>1, <1>2, <2>1, <2>3, <2>4
  <2>6. Tail(t) = SubSeq(s, i + 1, Len(s))
    BY <1>1, <2>1, <2>3, <2>4, <2>5, SeqEqual
  <2>7. Tail(t) \in Rests(s)
    <3>1. i + 1 \in 1..Len(s) + 1
      BY <1>1, <2>1
    <3> QED
      BY <2>6, <3>1 DEF Rests
  <2>8. Len(t) = 1 <=> Tail(t) = <<>>
    <3>1. Len(t) = 1 <=> Len(Tail(t)) = 0
      <4> DEFINE all == Len(t)  fewer == Len(Tail(t))
      <4>1. all = Len(s) - i + 1 /\ fewer = Len(s) - i
        BY <1>2, <2>3
      <4> HIDE DEF all, fewer
      <4>2. all = 1 <=> fewer = 0
        BY <1>1, <4>1
      <4> QED
        BY <4>2 DEF all, fewer
    <3>2. Len(Tail(t)) = 0 <=> Tail(t) = <<>>
      BY <2>3, EmptySeq
    <3> QED
      BY <3>1, <3>2
  <2>9. ASSUME Tail(t) # <<>>
        PROVE  \E k \in 2..Len(s) : Head(Tail(t)) = s[k]
    <3>1. Len(s) - i >= 1
      BY <1>1, <2>1, <2>3, <2>9
    <3>2. Head(Tail(t)) = s[i + 1]
      BY <1>1, <2>1, <2>3, <2>4, <2>5, <3>1
    <3>3. i + 1 \in 2..Len(s)
      BY <1>1, <2>1, <3>1
    <3> QED
      BY <3>2, <3>3
  <2> QED
    BY <1>p, <1>2, <2>1, <2>2, <2>7, <2>8, <2>9
<1> QED
  BY <1>2, <1>3

LEMMA RestsContain ==
    ASSUME NEW S, NEW s \in Seq(S)
    PROVE  s \in Rests(s) /\ <<>> \in Rests(s)
<1>1. Len(s) \in Nat
  OBVIOUS
<1>2. SubSeq(s, 1, Len(s)) = s
  BY <1>1
<1>3. SubSeq(s, Len(s) + 1, Len(s)) = <<>>
  BY <1>1
<1> QED
  BY <1>1, <1>2, <1>3 DEF Rests

Names == {"health", "Migrate", "Connect", "EnsureTopics", "Serve", "Run", "commit", "publish"}

\* The migrations are the first stage or none, and every pod answers its probe.
LEMMA MainFacts ==
    ASSUME NEW m \in Mains
    PROVE  /\ m.stages \in Seq(Names) /\ m.stages # <<>>
           /\ m.request \in Seq(Names) /\ m.record \in Seq(Names)
           /\ \A i \in 2..Len(m.stages) : m.stages[i] # "Migrate"
           /\ "Migrate" \in Range(m.stages) => Head(m.stages) = "Migrate"
           /\ "health" \in Range(m.stages)
<1>1. CASE m = OrderMain
  <2>1. /\ m.stages = <<"Migrate", "Connect", "EnsureTopics", "health", "Serve", "Run">>
        /\ m.request = <<"commit", "publish">> /\ m.record = <<"commit">>
    BY <1>1 DEF OrderMain
  <2>2. m.stages \in Seq(Names) /\ m.stages # <<>>
    BY <2>1 DEF Names
  <2>3. m.request \in Seq(Names) /\ m.record \in Seq(Names)
    BY <2>1 DEF Names
  <2>6. \A i \in 2..Len(m.stages) : m.stages[i] # "Migrate"
    BY <2>1
  <2>4. "health" \in Range(m.stages)
    BY <2>1 DEF Range
  <2>5. "Migrate" \in Range(m.stages) => Head(m.stages) = "Migrate"
    BY <2>1 DEF Range
  <2> QED
    BY <2>2, <2>3, <2>4, <2>5, <2>6
<1>2. CASE m = InventoryMain
  <2>1. /\ m.stages = <<"Migrate", "Connect", "EnsureTopics", "health", "Serve", "Run">>
        /\ m.request = <<>> /\ m.record = <<"commit", "publish">>
    BY <1>2 DEF InventoryMain
  <2>2. m.stages \in Seq(Names) /\ m.stages # <<>>
    BY <2>1 DEF Names
  <2>3. m.request \in Seq(Names) /\ m.record \in Seq(Names)
    BY <2>1 DEF Names
  <2>6. \A i \in 2..Len(m.stages) : m.stages[i] # "Migrate"
    BY <2>1
  <2>4. "health" \in Range(m.stages)
    BY <2>1 DEF Range
  <2>5. "Migrate" \in Range(m.stages) => Head(m.stages) = "Migrate"
    BY <2>1 DEF Range
  <2> QED
    BY <2>2, <2>3, <2>4, <2>5, <2>6
<1>3. CASE m = NotificationMain
  <2>1. /\ m.stages = <<"Migrate", "Connect", "health", "Serve", "Run">>
        /\ m.request = <<>> /\ m.record = <<"commit">>
    BY <1>3 DEF NotificationMain
  <2>2. m.stages \in Seq(Names) /\ m.stages # <<>>
    BY <2>1 DEF Names
  <2>3. m.request \in Seq(Names) /\ m.record \in Seq(Names)
    BY <2>1 DEF Names
  <2>6. \A i \in 2..Len(m.stages) : m.stages[i] # "Migrate"
    BY <2>1
  <2>4. "health" \in Range(m.stages)
    BY <2>1 DEF Range
  <2>5. "Migrate" \in Range(m.stages) => Head(m.stages) = "Migrate"
    BY <2>1 DEF Range
  <2> QED
    BY <2>2, <2>3, <2>4, <2>5, <2>6
<1>4. CASE m = PaymentMain
  <2>1. /\ m.stages = <<"EnsureTopics", "health", "Run">>
        /\ m.request = <<>> /\ m.record = <<"publish">>
    BY <1>4 DEF PaymentMain
  <2>2. m.stages \in Seq(Names) /\ m.stages # <<>>
    BY <2>1 DEF Names
  <2>3. m.request \in Seq(Names) /\ m.record \in Seq(Names)
    BY <2>1 DEF Names
  <2>6. \A i \in 2..Len(m.stages) : m.stages[i] # "Migrate"
    BY <2>1
  <2>4. "health" \in Range(m.stages)
    BY <2>1 DEF Range
  <2>5. "Migrate" \in Range(m.stages) => Head(m.stages) = "Migrate"
    BY <2>1 DEF Range
  <2> QED
    BY <2>2, <2>3, <2>4, <2>5, <2>6
<1>5. CASE m = ProductMain
  <2>1. /\ m.stages = <<"Migrate", "Connect", "health", "Serve">>
        /\ m.request = <<>> /\ m.record = <<>>
    BY <1>5 DEF ProductMain
  <2>2. m.stages \in Seq(Names) /\ m.stages # <<>>
    BY <2>1 DEF Names
  <2>3. m.request \in Seq(Names) /\ m.record \in Seq(Names)
    BY <2>1 DEF Names
  <2>6. \A i \in 2..Len(m.stages) : m.stages[i] # "Migrate"
    BY <2>1
  <2>4. "health" \in Range(m.stages)
    BY <2>1 DEF Range
  <2>5. "Migrate" \in Range(m.stages) => Head(m.stages) = "Migrate"
    BY <2>1 DEF Range
  <2> QED
    BY <2>2, <2>3, <2>4, <2>5, <2>6
<1> QED
  BY <1>1, <1>2, <1>3, <1>4, <1>5 DEF Mains

LEMMA StageFacts ==
    ASSUME NEW m \in Mains, NEW t \in Rests(m.stages), t # <<>>
    PROVE  /\ Tail(t) \in Rests(m.stages)
           /\ Tail(t) # <<>> => Head(Tail(t)) # "Migrate"
           /\ Len(t) = 1 <=> Tail(t) = <<>>
           /\ Head(t) = "Migrate" => t = m.stages
<1>1. /\ m.stages \in Seq(Names)
      /\ \A i \in 2..Len(m.stages) : m.stages[i] # "Migrate"
  BY MainFacts
<1>2. /\ Tail(t) \in Rests(m.stages) /\ (Len(t) = 1 <=> Tail(t) = <<>>)
      /\ Tail(t) # <<>> => \E i \in 2..Len(m.stages) : Head(Tail(t)) = m.stages[i]
      /\ \E i \in 1..Len(m.stages) : t = SubSeq(m.stages, i, Len(m.stages)) /\ Head(t) = m.stages[i]
  BY <1>1, RestFacts
<1>3. ASSUME Head(t) = "Migrate" PROVE t = m.stages
  <2>p. PICK i \in 1..Len(m.stages) :
           t = SubSeq(m.stages, i, Len(m.stages)) /\ Head(t) = m.stages[i]
    BY <1>2
  <2>1. Len(m.stages) \in Nat
    BY <1>1
  <2>2. i = 1
    BY <1>1, <1>3, <2>p, <2>1
  <2>3. SubSeq(m.stages, 1, Len(m.stages)) = m.stages
    BY <1>1, <2>1
  <2> QED
    BY <2>p, <2>2, <2>3
<1> QED
  BY <1>1, <1>2, <1>3

-----------------------------------------------------------------------------
(* Processes *)

LEMMA ProcessFields ==
    ASSUME NEW t \in Processes
    PROVE  /\ t = [at |-> t.at, todo |-> t.todo, grpc |-> t.grpc, consumer |-> t.consumer,
                   record |-> t.record, errCh |-> t.errCh, told |-> t.told]
           /\ t.at \in {"off", "start", "select", "drain", "close", "abort"}
           /\ t.todo \in Rests(main.stages)
           /\ t.grpc \in {"off", "serving", "returned"}
           /\ t.consumer \in {"off", "running", "returned"}
           /\ t.record \in Rests(main.record)
           /\ t.errCh \in {"none", "canceled", "error"}
           /\ t.told \in BOOLEAN
  BY DEF Processes

\* A process with two fields changed.
LEMMA AtAndTodo ==
    ASSUME NEW t \in Processes, NEW at, NEW todo
    PROVE  [t EXCEPT !.at = at, !.todo = todo]
              = [at |-> at, todo |-> todo, grpc |-> t.grpc, consumer |-> t.consumer,
                 record |-> t.record, errCh |-> t.errCh, told |-> t.told]
<1> DEFINE u == [t EXCEPT !.at = at, !.todo = todo]
<1>1. DOMAIN t = {"at", "todo", "grpc", "consumer", "record", "errCh", "told"}
  BY DEF Processes
<1>2. u = [f \in DOMAIN u |-> u[f]] /\ DOMAIN u = DOMAIN t
  OBVIOUS
<1>3. /\ u.at = at /\ u.todo = todo /\ u.grpc = t.grpc
      /\ u.consumer = t.consumer /\ u.record = t.record /\ u.errCh = t.errCh /\ u.told = t.told
  BY <1>1
<1> HIDE DEF u
<1>4. u = [at |-> at, todo |-> todo, grpc |-> t.grpc, consumer |-> t.consumer,
           record |-> t.record, errCh |-> t.errCh, told |-> t.told]
  BY <1>1, <1>2, <1>3
<1> QED
  BY <1>4 DEF u

LEMMA TodoAndAt ==
    ASSUME NEW t \in Processes, NEW at, NEW todo
    PROVE  [t EXCEPT !.todo = todo, !.at = at]
              = [at |-> at, todo |-> todo, grpc |-> t.grpc, consumer |-> t.consumer,
                 record |-> t.record, errCh |-> t.errCh, told |-> t.told]
<1> DEFINE u == [t EXCEPT !.todo = todo, !.at = at]
<1>1. DOMAIN t = {"at", "todo", "grpc", "consumer", "record", "errCh", "told"}
  BY DEF Processes
<1>2. u = [f \in DOMAIN u |-> u[f]] /\ DOMAIN u = DOMAIN t
  OBVIOUS
<1>3. /\ u.at = at /\ u.todo = todo /\ u.grpc = t.grpc
      /\ u.consumer = t.consumer /\ u.record = t.record /\ u.errCh = t.errCh /\ u.told = t.told
  BY <1>1
<1> HIDE DEF u
<1>4. u = [at |-> at, todo |-> todo, grpc |-> t.grpc, consumer |-> t.consumer,
           record |-> t.record, errCh |-> t.errCh, told |-> t.told]
  BY <1>1, <1>2, <1>3
<1> QED
  BY <1>4 DEF u

LEMMA AtAndGrpc ==
    ASSUME NEW t \in Processes, NEW at, NEW grpc
    PROVE  [t EXCEPT !.at = at, !.grpc = grpc]
              = [at |-> at, todo |-> t.todo, grpc |-> grpc, consumer |-> t.consumer,
                 record |-> t.record, errCh |-> t.errCh, told |-> t.told]
<1> DEFINE u == [t EXCEPT !.at = at, !.grpc = grpc]
<1>1. DOMAIN t = {"at", "todo", "grpc", "consumer", "record", "errCh", "told"}
  BY DEF Processes
<1>2. u = [f \in DOMAIN u |-> u[f]] /\ DOMAIN u = DOMAIN t
  OBVIOUS
<1>3. /\ u.at = at /\ u.todo = t.todo /\ u.grpc = grpc
      /\ u.consumer = t.consumer /\ u.record = t.record /\ u.errCh = t.errCh /\ u.told = t.told
  BY <1>1
<1> HIDE DEF u
<1>4. u = [at |-> at, todo |-> t.todo, grpc |-> grpc, consumer |-> t.consumer,
           record |-> t.record, errCh |-> t.errCh, told |-> t.told]
  BY <1>1, <1>2, <1>3
<1> QED
  BY <1>4 DEF u

LEMMA GrpcAndErr ==
    ASSUME NEW t \in Processes, NEW grpc, NEW errCh
    PROVE  [t EXCEPT !.grpc = grpc, !.errCh = errCh]
              = [at |-> t.at, todo |-> t.todo, grpc |-> grpc, consumer |-> t.consumer,
                 record |-> t.record, errCh |-> errCh, told |-> t.told]
<1> DEFINE u == [t EXCEPT !.grpc = grpc, !.errCh = errCh]
<1>1. DOMAIN t = {"at", "todo", "grpc", "consumer", "record", "errCh", "told"}
  BY DEF Processes
<1>2. u = [f \in DOMAIN u |-> u[f]] /\ DOMAIN u = DOMAIN t
  OBVIOUS
<1>3. /\ u.at = t.at /\ u.todo = t.todo /\ u.grpc = grpc
      /\ u.consumer = t.consumer /\ u.record = t.record /\ u.errCh = errCh /\ u.told = t.told
  BY <1>1
<1> HIDE DEF u
<1>4. u = [at |-> t.at, todo |-> t.todo, grpc |-> grpc, consumer |-> t.consumer,
           record |-> t.record, errCh |-> errCh, told |-> t.told]
  BY <1>1, <1>2, <1>3
<1> QED
  BY <1>4 DEF u

LEMMA ConsumerAndErr ==
    ASSUME NEW t \in Processes, NEW consumer, NEW errCh
    PROVE  [t EXCEPT !.consumer = consumer, !.errCh = errCh]
              = [at |-> t.at, todo |-> t.todo, grpc |-> t.grpc, consumer |-> consumer,
                 record |-> t.record, errCh |-> errCh, told |-> t.told]
<1> DEFINE u == [t EXCEPT !.consumer = consumer, !.errCh = errCh]
<1>1. DOMAIN t = {"at", "todo", "grpc", "consumer", "record", "errCh", "told"}
  BY DEF Processes
<1>2. u = [f \in DOMAIN u |-> u[f]] /\ DOMAIN u = DOMAIN t
  OBVIOUS
<1>3. /\ u.at = t.at /\ u.todo = t.todo /\ u.grpc = t.grpc
      /\ u.consumer = consumer /\ u.record = t.record /\ u.errCh = errCh /\ u.told = t.told
  BY <1>1
<1> HIDE DEF u
<1>4. u = [at |-> t.at, todo |-> t.todo, grpc |-> t.grpc, consumer |-> consumer,
           record |-> t.record, errCh |-> errCh, told |-> t.told]
  BY <1>1, <1>2, <1>3
<1> QED
  BY <1>4 DEF u

\* A process that goes on to its next stage.
LEMMA PassedFacts ==
    ASSUME main \in Mains, NEW t \in Processes, t.todo # <<>>
    PROVE  /\ Passed(t) \in Processes
           /\ Passed(t).at \in {"start", "select"}
           /\ Passed(t).at = "start" <=> Passed(t).todo # <<>>
           /\ Passed(t).at = "start" => Head(Passed(t).todo) # "Migrate"
           /\ Passed(t) # t
<1>1. t.todo \in Rests(main.stages)
  BY ProcessFields
<1>2. /\ Tail(t.todo) \in Rests(main.stages)
      /\ Tail(t.todo) # <<>> => Head(Tail(t.todo)) # "Migrate"
      /\ Len(t.todo) = 1 <=> Tail(t.todo) = <<>>
  BY <1>1, StageFacts
<1> DEFINE at == IF Len(t.todo) = 1 THEN "select" ELSE "start"
           u == [at |-> at, todo |-> Tail(t.todo), grpc |-> t.grpc, consumer |-> t.consumer,
                 record |-> t.record, errCh |-> t.errCh, told |-> t.told]
<1>3. Passed(t) = u
  BY TodoAndAt DEF Passed
<1>4. u \in Processes
  <2>1. at \in {"off", "start", "select", "drain", "close", "abort"}
    OBVIOUS
  <2> HIDE DEF at
  <2>2. /\ t.grpc \in {"off", "serving", "returned"}
        /\ t.consumer \in {"off", "running", "returned"}
        /\ t.record \in Rests(main.record)
        /\ t.errCh \in {"none", "canceled", "error"}
        /\ t.told \in BOOLEAN
    BY ProcessFields
  <2> QED
    BY <1>2, <2>1, <2>2, SMT DEF Processes
<1>5. Tail(t.todo) # t.todo
  <2>1. t.todo \in Seq(Names)
    BY <1>1, MainFacts, RestFacts
  <2>2. Len(Tail(t.todo)) # Len(t.todo)
    BY <2>1
  <2> QED
    BY <2>2
<1> QED
  BY <1>2, <1>3, <1>4, <1>5

-----------------------------------------------------------------------------
(* Steps of one process *)

\* A step that changes the process of p alone, to t, and may give its lock back.
LEMMA ProcessStep ==
    ASSUME ProcessInv, NEW p \in Pods, NEW t \in Processes,
           pods' = [pods EXCEPT ![p] = t], UNCHANGED <<main, requests, postgres>>,
           \/ UNCHANGED schema
           \/ schema' = [schema EXCEPT !.lock = NoPod],
           faults' \in 0..MaxFaults,
           t.at = "start" <=> t.todo # <<>>,
           schema'.lock = p => t.at = "start" /\ Head(t.todo) = "Migrate",
           "Migrate" \in Range(main.stages) =>
              \/ t.at = "off"
              \/ t.at = "start" /\ Head(t.todo) = "Migrate"
              \/ schema.version = Latest /\ ~schema.dirty,
           t.at \in {"drain", "close"} => t.grpc # "serving",
           t.at = "close" => Drained(p)
    PROVE  ProcessInv'
<1>1. pods'[p] = t /\ \A q \in Pods \ {p} : pods'[q] = pods[q]
  BY DEF ProcessInv, TypeOK
<1>2. pods' \in [Pods -> Processes] /\ Processes' = Processes
  BY DEF ProcessInv, TypeOK, Processes
<1>3. \A q \in Pods : pods'[q].at = "start" <=> pods'[q].todo # <<>>
  BY <1>1 DEF ProcessInv, TypeOK
<1>4. /\ schema'.version = schema.version /\ schema'.dirty = schema.dirty
      /\ schema'.lock \in {schema.lock, NoPod}
      /\ schema' \in [version : 0..Latest, dirty : BOOLEAN, lock : Pods \cup {NoPod}]
  BY DEF ProcessInv, TypeOK
<1>5. TypeOK'
  BY <1>2, <1>3, <1>4 DEF ProcessInv, TypeOK, Handlings
<1>6. LockHeld'
  <2>1. SUFFICES ASSUME schema'.lock # NoPod
                 PROVE  Before(schema.lock, "Migrate")' /\ schema'.lock = schema.lock
    BY DEF LockHeld, Before
  <2>2. schema'.lock = schema.lock /\ schema.lock \in Pods
    BY <1>4, <2>1 DEF ProcessInv, TypeOK
  <2>3. Before(schema.lock, "Migrate")
    BY <2>1, <2>2 DEF ProcessInv, LockHeld
  <2> QED
    BY <1>1, <2>2, <2>3 DEF Before
<1>7. MigratedFirst'
  <2>1. SUFFICES ASSUME "Migrate" \in Range(main.stages), NEW q \in Pods, Past(q)'
                 PROVE  schema.version = Latest /\ ~schema.dirty
    BY <1>4 DEF MigratedFirst
  <2>2. CASE q = p
    BY <1>1, <2>1, <2>2 DEF Past, Before
  <2>3. CASE q # p
    BY <1>1, <2>1, <2>3 DEF Past, Before, ProcessInv, MigratedFirst
  <2> QED
    BY <2>2, <2>3
<1>8. Drains'
  BY <1>1 DEF Drains, Drained, ProcessInv
<1> QED
  BY <1>5, <1>6, <1>7, <1>8 DEF ProcessInv, SignalFinishesRequests

\* The process of p ends; after its drain it has no request.
LEMMA Ends ==
    ASSUME ProcessInv, NEW p \in Pods, NEW cause \in {"signal", "error", "crash"},
           End(p, cause), faults' \in 0..MaxFaults,
           cause = "signal" => Drained(p)
    PROVE  ProcessInv'
<1> DEFINE t == [Off EXCEPT !.told = pods[p].told]
<1>1. pods' = [pods EXCEPT ![p] = t]
  BY DEF End
<1>2. t = [at |-> "off", todo |-> <<>>, grpc |-> "off", consumer |-> "off",
           record |-> <<>>, errCh |-> "none", told |-> pods[p].told]
  BY DEF Off
<1>3. t \in Processes
  <2>1. /\ main.stages \in Seq(Names) /\ main.record \in Seq(Names)
    BY MainFacts DEF ProcessInv, TypeOK
  <2>2. <<>> \in Rests(main.stages) /\ <<>> \in Rests(main.record)
    BY <2>1, RestsContain
  <2>3. pods[p].told \in BOOLEAN
    BY ProcessFields DEF ProcessInv, TypeOK
  <2> QED
    BY <1>2, <2>2, <2>3, SMT DEF Processes
<1>4. t.at = "off" /\ t.todo = <<>>
  BY <1>2
<1> HIDE DEF t
<1>5. pods'[p] = t /\ \A q \in Pods \ {p} : pods'[q] = pods[q]
  BY <1>1 DEF ProcessInv, TypeOK
<1>6. UNCHANGED <<main, postgres>>
  BY DEF End
<1>7. pods' \in [Pods -> Processes] /\ Processes' = Processes
  BY <1>1, <1>3, <1>6 DEF ProcessInv, TypeOK, Processes
<1>8. \A q \in Pods : pods'[q].at = "start" <=> pods'[q].todo # <<>>
  BY <1>4, <1>5 DEF ProcessInv, TypeOK
<1>9. /\ schema'.version = schema.version /\ schema'.dirty = schema.dirty
      /\ schema'.lock # NoPod => schema'.lock = schema.lock /\ schema.lock # p
      /\ schema' \in [version : 0..Latest, dirty : BOOLEAN, lock : Pods \cup {NoPod}]
  BY DEF ProcessInv, TypeOK, End
<1>10. ASSUME NEW r \in Requests
       PROVE  /\ requests'[r] \in Handlings
              /\ requests'[r].pod = requests[r].pod
              /\ requests'[r].at = "handled" => requests[r].at = "handled"
              /\ requests'[r].at = "half done" => requests'[r].by # "signal"
  <2>1. requests'[r] = IF requests[r].at = "handled" /\ requests[r].pod = p
                       THEN Ended(requests[r], cause) ELSE requests[r]
    BY DEF End
  <2>2. requests[r] \in Handlings /\ (requests[r].at = "half done" => requests[r].by # "signal")
    BY DEF ProcessInv, TypeOK, SignalFinishesRequests
  <2>3. CASE ~(requests[r].at = "handled" /\ requests[r].pod = p)
    BY <2>1, <2>2, <2>3
  <2>4. CASE requests[r].at = "handled" /\ requests[r].pod = p
    <3>1. cause # "signal"
      BY <2>4 DEF Drained
    <3> DEFINE h == requests[r]
               at == IF h.todo = main.request THEN "failed" ELSE "half done"
               u == [h EXCEPT !.at = at, !.by = cause]
    <3>2. requests'[r] = u
      BY <2>1, <2>4 DEF Ended
    <3>3. DOMAIN h = {"at", "pod", "todo", "by"} /\ u = [f \in DOMAIN u |-> u[f]]
          /\ DOMAIN u = DOMAIN h
      BY <2>2 DEF Handlings
    <3>4. u.at = at /\ u.pod = h.pod /\ u.todo = h.todo /\ u.by = cause
      BY <3>3
    <3>5. at \in {"failed", "half done"}
      OBVIOUS
    <3> HIDE DEF u, at
    <3>6. u = [at |-> at, pod |-> h.pod, todo |-> h.todo, by |-> cause]
      BY <3>3, <3>4
    <3>7. h.pod \in Pods \cup {NoPod} /\ h.todo \in Rests(main.request)
      BY <2>2 DEF Handlings
    <3>8. u \in Handlings
      BY <3>5, <3>6, <3>7 DEF Handlings
    <3> QED
      BY <3>1, <3>2, <3>4, <3>5, <3>8
  <2> QED
    BY <2>3, <2>4
<1>11. requests' \in [Requests -> Handlings']
  <2>1. requests' = [r \in Requests |-> requests'[r]] /\ Handlings' = Handlings
    BY <1>6 DEF End, Handlings
  <2> QED
    BY <1>10, <2>1
<1>12. TypeOK'
  BY <1>6, <1>7, <1>8, <1>9, <1>11 DEF ProcessInv, TypeOK
<1>13. LockHeld'
  BY <1>5, <1>9 DEF ProcessInv, TypeOK, LockHeld, Before
<1>14. MigratedFirst'
  BY <1>4, <1>5, <1>6, <1>9 DEF ProcessInv, MigratedFirst, Past, Before
<1>15. Drains'
  BY <1>4, <1>5, <1>10 DEF ProcessInv, Drains, Drained
<1>16. SignalFinishesRequests'
  BY <1>10 DEF SignalFinishesRequests
<1> QED
  BY <1>12, <1>13, <1>14, <1>15, <1>16 DEF ProcessInv

-----------------------------------------------------------------------------
(* The actions *)

\* The process of a pod, and what the invariant says of it.
LEMMA ProcessOf ==
    ASSUME ProcessInv, NEW p \in Pods
    PROVE  /\ pods[p] \in Processes
           /\ main \in Mains
           /\ faults \in 0..MaxFaults
           /\ pods[p].at = "start" <=> pods[p].todo # <<>>
           /\ schema.lock = p => pods[p].at = "start" /\ Head(pods[p].todo) = "Migrate"
           /\ "Migrate" \in Range(main.stages) =>
                 \/ pods[p].at = "off"
                 \/ pods[p].at = "start" /\ Head(pods[p].todo) = "Migrate"
                 \/ schema.version = Latest /\ ~schema.dirty
           /\ pods[p].at \in {"drain", "close"} => pods[p].grpc # "serving"
           /\ pods[p].at = "close" => Drained(p)
<1>1. p # NoPod
  BY ServiceProcessAssumption DEF NoPod
<1> QED
  BY <1>1 DEF ProcessInv, TypeOK, LockHeld, MigratedFirst, Past, Before, Drains

LEMMA FaultBound ==
    ASSUME ProcessInv, Fault
    PROVE  faults' \in 0..MaxFaults
  BY ServiceProcessAssumption DEF ProcessInv, TypeOK, Fault

\* A process that is past its migrations goes on to its next stage, starting a
\* server or its consumer.
LEMMA PassesOn ==
    ASSUME ProcessInv, NEW p \in Pods,
           pods[p].at = "start", Head(pods[p].todo) # "Migrate",
           NEW t \in {Passed(pods[p]), [Passed(pods[p]) EXCEPT !.grpc = "serving"],
                      [Passed(pods[p]) EXCEPT !.consumer = "running"]},
           pods' = [pods EXCEPT ![p] = t],
           UNCHANGED <<main, requests, schema, postgres, faults>>
    PROVE  ProcessInv'
<1>1. /\ pods[p] \in Processes /\ pods[p].todo # <<>> /\ schema.lock # p
      /\ "Migrate" \in Range(main.stages) => schema.version = Latest /\ ~schema.dirty
      /\ main \in Mains /\ faults \in 0..MaxFaults
  BY ProcessOf
<1>p. PICK u : u = Passed(pods[p])
  OBVIOUS
<1>2. /\ u \in Processes /\ u.at \in {"start", "select"}
      /\ u.at = "start" <=> u.todo # <<>>
      /\ u.at = "start" => Head(u.todo) # "Migrate"
  BY <1>1, <1>p, PassedFacts
<1>3. t = u \/ t = [u EXCEPT !.grpc = "serving"] \/ t = [u EXCEPT !.consumer = "running"]
  BY <1>p
<1>4. t \in Processes /\ t.at = u.at /\ t.todo = u.todo
  BY <1>2, <1>3 DEF Processes
<1> QED
  BY <1>1, <1>2, <1>4, ProcessStep

LEMMA InitInv == Init => ProcessInv
<1> SUFFICES ASSUME Init
             PROVE  ProcessInv
  OBVIOUS
<1>1. main \in Mains
  BY DEF Init
<1>2. /\ <<>> \in Rests(main.stages) /\ <<>> \in Rests(main.record)
      /\ <<>> \in Rests(main.request)
  BY <1>1, MainFacts, RestsContain
<1>3. Off \in Processes
  BY <1>2 DEF Off, Processes
<1>4. NotSent \in Handlings
  BY <1>2 DEF NotSent, Handlings
<1>5. TypeOK
  <2>1. pods \in [Pods -> Processes] /\ requests \in [Requests -> Handlings]
    BY <1>3, <1>4 DEF Init
  <2>2. \A p \in Pods : pods[p].at = "start" <=> pods[p].todo # <<>>
    BY DEF Init, Off
  <2>3. schema \in [version : 0..Latest, dirty : BOOLEAN, lock : Pods \cup {NoPod}]
    BY DEF Init
  <2>4. postgres \in BOOLEAN /\ faults \in 0..MaxFaults
    BY ServiceProcessAssumption DEF Init
  <2> QED
    BY <1>1, <2>1, <2>2, <2>3, <2>4 DEF TypeOK
<1>6. LockHeld /\ MigratedFirst /\ Drains
  BY DEF Init, LockHeld, MigratedFirst, Past, Drains, Off
<1>7. SignalFinishesRequests
  BY DEF Init, SignalFinishesRequests, NotSent
<1> QED
  BY <1>5, <1>6, <1>7 DEF ProcessInv

LEMMA StartStep ==
    ASSUME ProcessInv, NEW p \in Pods, Start(p)
    PROVE  ProcessInv'
<1>1. /\ pods[p] \in Processes /\ pods[p].at = "off" /\ schema.lock # p
      /\ main \in Mains /\ faults \in 0..MaxFaults
  BY ProcessOf DEF Start
<1>2. /\ main.stages \in Seq(Names) /\ main.stages # <<>>
      /\ "Migrate" \in Range(main.stages) => Head(main.stages) = "Migrate"
  BY <1>1, MainFacts
<1>3. main.stages \in Rests(main.stages)
  BY <1>2, RestsContain
<1>p. PICK t : t = [pods[p] EXCEPT !.at = "start", !.todo = main.stages]
  OBVIOUS
<1>4. /\ t \in Processes /\ t.at = "start" /\ t.todo = main.stages
  <2> DEFINE old == pods[p]
  <2>1. old \in Processes
    BY <1>1
  <2>2. t = [old EXCEPT !.at = "start", !.todo = main.stages]
    BY <1>p
  <2> HIDE DEF old
  <2>3. t = [at |-> "start", todo |-> main.stages, grpc |-> old.grpc,
             consumer |-> old.consumer, record |-> old.record, errCh |-> old.errCh,
             told |-> old.told]
    BY <2>1, <2>2, AtAndTodo, Zenon
  <2> QED
    BY <1>3, <2>1, <2>3, SMT DEF Processes
<1>5. pods' = [pods EXCEPT ![p] = t]
  BY <1>p DEF Start
<1>6. UNCHANGED <<main, requests, schema, postgres, faults>>
  BY DEF Start
<1> QED
  BY <1>1, <1>2, <1>4, <1>5, <1>6, ProcessStep

\* The steps of a migration change the schema alone.
LEMMA SchemaStep ==
    ASSUME ProcessInv, UNCHANGED <<main, pods, requests, postgres, faults>>,
           schema' \in [version : 0..Latest, dirty : BOOLEAN, lock : Pods \cup {NoPod}],
           schema'.lock # NoPod => Before(schema'.lock, "Migrate"),
           \/ schema'.version = schema.version /\ schema'.dirty = schema.dirty
           \/ schema.version # Latest
           \/ schema.dirty
    PROVE  ProcessInv'
<1>1. TypeOK'
  BY DEF ProcessInv, TypeOK, Processes, Handlings
<1>2. LockHeld'
  BY DEF LockHeld, Before
<1>3. MigratedFirst'
  BY DEF ProcessInv, MigratedFirst, Past, Before
<1>4. Drains' /\ SignalFinishesRequests'
  BY DEF ProcessInv, Drains, Drained, SignalFinishesRequests
<1> QED
  BY <1>1, <1>2, <1>3, <1>4 DEF ProcessInv

LEMMA LockMigrationsStep ==
    ASSUME ProcessInv, NEW p \in Pods, LockMigrations(p)
    PROVE  ProcessInv'
<1>1. /\ schema' = [schema EXCEPT !.lock = p] /\ Before(p, "Migrate")
      /\ UNCHANGED <<main, pods, requests, postgres, faults>>
  BY DEF LockMigrations
<1>2. schema \in [version : 0..Latest, dirty : BOOLEAN, lock : Pods \cup {NoPod}]
  BY DEF ProcessInv, TypeOK
<1>3. /\ schema' \in [version : 0..Latest, dirty : BOOLEAN, lock : Pods \cup {NoPod}]
      /\ schema'.lock = p
      /\ schema'.version = schema.version /\ schema'.dirty = schema.dirty
  BY <1>1, <1>2
<1> QED
  BY <1>1, <1>3, SchemaStep

LEMMA ApplyMigrationStep ==
    ASSUME ProcessInv, NEW p \in Pods, ApplyMigration(p)
    PROVE  ProcessInv'
<1>1. /\ schema.lock = p /\ UNCHANGED <<main, pods, requests, postgres, faults>>
      /\ \/ /\ ~schema.dirty /\ schema.version < Latest
            /\ schema' = [schema EXCEPT !.dirty = TRUE, !.version = @ + 1]
         \/ schema.dirty /\ schema' = [schema EXCEPT !.dirty = FALSE]
  BY DEF ApplyMigration, Pending
<1>2. schema \in [version : 0..Latest, dirty : BOOLEAN, lock : Pods \cup {NoPod}]
  BY DEF ProcessInv, TypeOK
<1>3. p # NoPod /\ Latest \in Nat
  BY ServiceProcessAssumption DEF NoPod
<1>4. Before(p, "Migrate")
  BY <1>1, <1>3 DEF ProcessInv, LockHeld
<1>5. CASE ~schema.dirty /\ schema.version < Latest
  <2>1. /\ schema'.lock = p
        /\ schema' = [version |-> schema.version + 1, dirty |-> TRUE, lock |-> p]
    BY <1>1, <1>2, <1>5
  <2>2. schema.version + 1 \in 0..Latest
    BY <1>2, <1>3, <1>5
  <2>3. schema' \in [version : 0..Latest, dirty : BOOLEAN, lock : Pods \cup {NoPod}]
    BY <2>1, <2>2
  <2>4. schema.version # Latest
    BY <1>2, <1>3, <1>5
  <2> QED
    BY <1>1, <1>4, <2>1, <2>3, <2>4, SchemaStep
<1>6. CASE schema.dirty
  <2>1. schema' = [schema EXCEPT !.dirty = FALSE]
    BY <1>1, <1>6
  <2>2. /\ schema' \in [version : 0..Latest, dirty : BOOLEAN, lock : Pods \cup {NoPod}]
        /\ schema'.lock = p
    BY <1>1, <1>2, <2>1
  <2> QED
    BY <1>1, <1>4, <1>6, <2>2, SchemaStep
<1> QED
  BY <1>1, <1>5, <1>6

LEMMA MigratedStep ==
    ASSUME ProcessInv, NEW p \in Pods, Migrated(p)
    PROVE  ProcessInv'
<1>1. /\ schema.lock = p /\ ~schema.dirty /\ ~(schema.version < Latest)
      /\ schema' = [schema EXCEPT !.lock = NoPod]
      /\ pods' = [pods EXCEPT ![p] = Passed(pods[p])]
      /\ UNCHANGED <<main, requests, postgres, faults>>
  BY DEF Migrated, Pending
<1>2. schema \in [version : 0..Latest, dirty : BOOLEAN, lock : Pods \cup {NoPod}]
  BY DEF ProcessInv, TypeOK
<1>3. schema.version = Latest
  BY <1>1, <1>2, ServiceProcessAssumption
<1>4. p # NoPod
  BY ServiceProcessAssumption DEF NoPod
<1>5. schema'.lock # p
  BY <1>1, <1>2, <1>4
<1>6. pods[p] \in Processes /\ pods[p].todo # <<>> /\ main \in Mains /\ faults \in 0..MaxFaults
  BY <1>1, ProcessOf
<1>p. PICK t : t = Passed(pods[p])
  OBVIOUS
<1>7. /\ t \in Processes /\ t.at \in {"start", "select"}
      /\ t.at = "start" <=> t.todo # <<>>
  BY <1>6, <1>p, PassedFacts
<1>8. pods' = [pods EXCEPT ![p] = t]
  BY <1>1, <1>p
<1> QED
  BY <1>1, <1>3, <1>5, <1>6, <1>7, <1>8, ProcessStep

LEMMA MigrateRefusedStep ==
    ASSUME ProcessInv, NEW p \in Pods, MigrateRefused(p)
    PROVE  ProcessInv'
<1>1. End(p, "error") /\ faults' \in 0..MaxFaults
  BY ProcessOf DEF MigrateRefused
<1> QED
  BY <1>1, Ends

LEMMA ReachStep ==
    ASSUME ProcessInv, NEW p \in Pods, NEW stage, stage # "Migrate", Reach(p, stage)
    PROVE  ProcessInv'
<1>1. CASE End(p, "error")
  <2>1. faults' \in 0..MaxFaults
    BY ProcessOf DEF Reach
  <2> QED
    BY <1>1, <2>1, Ends
<1>2. CASE /\ pods' = [pods EXCEPT ![p] = Passed(@)]
           /\ UNCHANGED <<main, requests, schema, postgres>>
  <2>1. /\ pods[p].at = "start" /\ Head(pods[p].todo) # "Migrate"
        /\ UNCHANGED <<main, requests, schema, postgres, faults>>
    BY <1>2 DEF Reach, Before
  <2>2. pods' = [pods EXCEPT ![p] = Passed(pods[p])]
    BY <1>2
  <2> QED
    BY <2>1, <2>2, PassesOn
<1> QED
  BY <1>1, <1>2 DEF Reach

LEMMA GoStep ==
    ASSUME ProcessInv, NEW p \in Pods, Go(p)
    PROVE  ProcessInv'
<1>1. /\ UNCHANGED <<main, requests, schema, postgres, faults>>
      /\ pods' # pods
      /\ pods' = [pods EXCEPT ![p] =
            CASE Before(p, "health") -> Passed(pods[p])
              [] Before(p, "Serve")  -> [Passed(pods[p]) EXCEPT !.grpc = "serving"]
              [] Before(p, "Run")    -> [Passed(pods[p]) EXCEPT !.consumer = "running"]
              [] OTHER               -> pods[p]]
  BY DEF Go
<1>2. pods \in [Pods -> Processes]
  BY DEF ProcessInv, TypeOK
<1>3. CASE Before(p, "health")
  <2>1. pods' = [pods EXCEPT ![p] = Passed(pods[p])]
    BY <1>1, <1>3 DEF Before
  <2>2. pods[p].at = "start" /\ Head(pods[p].todo) # "Migrate"
    BY <1>3 DEF Before
  <2> QED
    BY <1>1, <2>1, <2>2, PassesOn
<1>4. CASE Before(p, "Serve")
  <2>1. pods' = [pods EXCEPT ![p] = [Passed(pods[p]) EXCEPT !.grpc = "serving"]]
    BY <1>1, <1>4 DEF Before
  <2>2. pods[p].at = "start" /\ Head(pods[p].todo) # "Migrate"
    BY <1>4 DEF Before
  <2> QED
    BY <1>1, <2>1, <2>2, PassesOn
<1>5. CASE Before(p, "Run")
  <2>1. pods' = [pods EXCEPT ![p] = [Passed(pods[p]) EXCEPT !.consumer = "running"]]
    BY <1>1, <1>5 DEF Before
  <2>2. pods[p].at = "start" /\ Head(pods[p].todo) # "Migrate"
    BY <1>5 DEF Before
  <2> QED
    BY <1>1, <2>1, <2>2, PassesOn
<1>6. CASE ~Before(p, "health") /\ ~Before(p, "Serve") /\ ~Before(p, "Run")
  <2>1. pods' = [pods EXCEPT ![p] = pods[p]]
    BY <1>1, <1>6
  <2> QED
    BY <1>1, <1>2, <2>1
<1> QED
  BY <1>3, <1>4, <1>5, <1>6

LEMMA StageFailsStep ==
    ASSUME ProcessInv, NEW p \in Pods, StageFails(p)
    PROVE  ProcessInv'
<1>1. End(p, "error") /\ faults' \in 0..MaxFaults
  BY FaultBound DEF StageFails
<1> QED
  BY <1>1, Ends

LEMMA CrashStep ==
    ASSUME ProcessInv, NEW p \in Pods, Crash(p)
    PROVE  ProcessInv'
<1>1. End(p, "crash") /\ faults' \in 0..MaxFaults
  BY FaultBound DEF Crash
<1> QED
  BY <1>1, Ends

\* Drains made sure that Exit after a signal leaves no request behind.
LEMMA ExitStep ==
    ASSUME ProcessInv, NEW p \in Pods, Exit(p)
    PROVE  ProcessInv'
<1>1. faults' \in 0..MaxFaults
  BY ProcessOf DEF Exit
<1>2. CASE pods[p].at = "close" /\ End(p, "signal")
  <2>1. Drained(p)
    BY <1>2, ProcessOf
  <2> QED
    BY <1>1, <1>2, <2>1, Ends
<1>3. CASE pods[p].at = "abort" /\ End(p, "error")
  BY <1>1, <1>3, Ends
<1> QED
  BY <1>2, <1>3 DEF Exit

\* A step that leaves a process where it is: its records, its consumer, its
\* signal, or a server that returns.
LEMMA SameStageStep ==
    ASSUME ProcessInv, NEW p \in Pods, NEW t \in Processes,
           pods' = [pods EXCEPT ![p] = t],
           UNCHANGED <<main, requests, schema, postgres>>, faults' \in 0..MaxFaults,
           t.at = pods[p].at, t.todo = pods[p].todo,
           t.grpc = pods[p].grpc \/ t.grpc = "returned"
    PROVE  ProcessInv'
<1>1. /\ pods[p].at = "start" <=> pods[p].todo # <<>>
      /\ schema.lock = p => pods[p].at = "start" /\ Head(pods[p].todo) = "Migrate"
      /\ "Migrate" \in Range(main.stages) =>
            \/ pods[p].at = "off"
            \/ pods[p].at = "start" /\ Head(pods[p].todo) = "Migrate"
            \/ schema.version = Latest /\ ~schema.dirty
      /\ pods[p].at \in {"drain", "close"} => pods[p].grpc # "serving"
      /\ pods[p].at = "close" => Drained(p)
  BY ProcessOf
<1> QED
  BY <1>1, ProcessStep

LEMMA TakeRecordStep ==
    ASSUME ProcessInv, NEW p \in Pods, TakeRecord(p)
    PROVE  ProcessInv'
<1>1. /\ pods' = [pods EXCEPT ![p] = [pods[p] EXCEPT !.record = main.record]]
      /\ UNCHANGED <<main, requests, schema, postgres, faults>>
  BY DEF TakeRecord
<1>2. pods[p] \in Processes /\ main \in Mains /\ faults \in 0..MaxFaults
  BY ProcessOf
<1>3. main.record \in Rests(main.record)
  BY <1>2, MainFacts, RestsContain
<1>p. PICK t : t = [pods[p] EXCEPT !.record = main.record]
  OBVIOUS
<1>4. /\ t \in Processes /\ t.at = pods[p].at /\ t.todo = pods[p].todo
      /\ t.grpc = pods[p].grpc
  BY <1>2, <1>3, <1>p DEF Processes
<1>5. pods' = [pods EXCEPT ![p] = t]
  BY <1>1, <1>p
<1> QED
  BY <1>1, <1>2, <1>4, <1>5, SameStageStep

LEMMA HandleRecordStep ==
    ASSUME ProcessInv, NEW p \in Pods, HandleRecord(p)
    PROVE  ProcessInv'
<1>1. /\ pods' = [pods EXCEPT ![p] = [pods[p] EXCEPT !.record = Tail(pods[p].record)]]
      /\ UNCHANGED <<main, requests, schema, postgres, faults>>
      /\ pods[p].record # <<>>
  BY DEF HandleRecord
<1>2. pods[p] \in Processes /\ main \in Mains /\ faults \in 0..MaxFaults
  BY ProcessOf
<1>3. Tail(pods[p].record) \in Rests(main.record)
  BY <1>1, <1>2, MainFacts, ProcessFields, RestFacts
<1>p. PICK t : t = [pods[p] EXCEPT !.record = Tail(pods[p].record)]
  OBVIOUS
<1>4. /\ t \in Processes /\ t.at = pods[p].at /\ t.todo = pods[p].todo
      /\ t.grpc = pods[p].grpc
  BY <1>2, <1>3, <1>p DEF Processes
<1>5. pods' = [pods EXCEPT ![p] = t]
  BY <1>1, <1>p
<1> QED
  BY <1>1, <1>2, <1>4, <1>5, SameStageStep

LEMMA SignalStep ==
    ASSUME ProcessInv, NEW p \in Pods, Signal(p)
    PROVE  ProcessInv'
<1>1. /\ pods' = [pods EXCEPT ![p] = [pods[p] EXCEPT !.told = TRUE]]
      /\ UNCHANGED <<main, requests, schema, postgres, faults>>
  BY DEF Signal
<1>2. pods[p] \in Processes /\ faults \in 0..MaxFaults
  BY ProcessOf
<1>p. PICK t : t = [pods[p] EXCEPT !.told = TRUE]
  OBVIOUS
<1>4. /\ t \in Processes /\ t.at = pods[p].at /\ t.todo = pods[p].todo
      /\ t.grpc = pods[p].grpc
  BY <1>2, <1>p DEF Processes
<1>5. pods' = [pods EXCEPT ![p] = t]
  BY <1>1, <1>p
<1> QED
  BY <1>1, <1>2, <1>4, <1>5, SameStageStep

LEMMA ReturnStep ==
    ASSUME ProcessInv, NEW p \in Pods, NEW err \in {"canceled", "error"}, Return(p, err),
           faults' \in 0..MaxFaults
    PROVE  ProcessInv'
<1> DEFINE old == pods[p]
           errCh == IF old.errCh = "none" THEN err ELSE old.errCh
<1>1. UNCHANGED <<main, requests, schema, postgres>>
  BY DEF Return
<1>2. old \in Processes
  BY ProcessOf
<1>p. PICK t : t = [old EXCEPT !.consumer = "returned", !.errCh = errCh]
  OBVIOUS
<1>3. pods' = [pods EXCEPT ![p] = t]
  BY <1>p DEF Return
<1>4. errCh \in {"none", "canceled", "error"}
  BY <1>2 DEF Processes
<1> HIDE DEF old, errCh
<1>5. t = [at |-> old.at, todo |-> old.todo, grpc |-> old.grpc, consumer |-> "returned",
           record |-> old.record, errCh |-> errCh, told |-> old.told]
  BY <1>2, <1>p, ConsumerAndErr, Zenon
<1>6. t \in Processes /\ t.at = old.at /\ t.todo = old.todo /\ t.grpc = old.grpc
  BY <1>2, <1>4, <1>5, SMT DEF Processes
<1> QED
  BY <1>1, <1>3, <1>6, SameStageStep DEF old

LEMMA ServeFailsStep ==
    ASSUME ProcessInv, NEW p \in Pods, ServeFails(p)
    PROVE  ProcessInv'
<1> DEFINE old == pods[p]
           errCh == IF old.errCh = "none" THEN "error" ELSE old.errCh
<1>1. UNCHANGED <<main, requests, schema, postgres>> /\ faults' \in 0..MaxFaults
  BY FaultBound DEF ServeFails
<1>2. old \in Processes
  BY ProcessOf
<1>p. PICK t : t = [old EXCEPT !.grpc = "returned", !.errCh = errCh]
  OBVIOUS
<1>3. pods' = [pods EXCEPT ![p] = t]
  BY <1>p DEF ServeFails
<1>4. errCh \in {"none", "canceled", "error"}
  BY <1>2 DEF Processes
<1> HIDE DEF old, errCh
<1>5. t = [at |-> old.at, todo |-> old.todo, grpc |-> "returned", consumer |-> old.consumer,
           record |-> old.record, errCh |-> errCh, told |-> old.told]
  BY <1>2, <1>p, GrpcAndErr, Zenon
<1>6. t \in Processes /\ t.at = old.at /\ t.todo = old.todo /\ t.grpc = "returned"
  BY <1>2, <1>4, <1>5, SMT DEF Processes
<1> QED
  BY <1>1, <1>3, <1>6, SameStageStep DEF old

\* A process in its select is past its stages.
LEMMA SelectStep ==
    ASSUME ProcessInv, NEW p \in Pods, Select(p)
    PROVE  ProcessInv'
<1> DEFINE old == pods[p]
           grpc == IF old.grpc = "serving" THEN "returned" ELSE old.grpc
<1>1. /\ old.at = "select" /\ UNCHANGED <<main, requests, schema, postgres, faults>>
      /\ \/ pods' = [pods EXCEPT ![p] = [old EXCEPT !.at = "drain", !.grpc = grpc]]
         \/ pods' = [pods EXCEPT ![p] = [old EXCEPT !.at = "abort"]]
  BY DEF Select
<1>2. /\ old \in Processes /\ old.todo = <<>> /\ schema.lock # p /\ faults \in 0..MaxFaults
      /\ "Migrate" \in Range(main.stages) => schema.version = Latest /\ ~schema.dirty
  BY <1>1, ProcessOf
<1>3. grpc \in {"off", "returned"}
  BY <1>2 DEF Processes
<1> HIDE DEF old, grpc
<1>4. CASE pods' = [pods EXCEPT ![p] = [old EXCEPT !.at = "drain", !.grpc = grpc]]
  <2>p. PICK t : t = [old EXCEPT !.at = "drain", !.grpc = grpc]
    OBVIOUS
  <2>1. t = [at |-> "drain", todo |-> old.todo, grpc |-> grpc, consumer |-> old.consumer,
             record |-> old.record, errCh |-> old.errCh, told |-> old.told]
    BY <1>2, <2>p, AtAndGrpc, Zenon
  <2>2. /\ t \in Processes /\ t.at = "drain" /\ t.todo = <<>> /\ t.grpc # "serving"
    BY <1>2, <1>3, <2>1, SMT DEF Processes
  <2>3. pods' = [pods EXCEPT ![p] = t]
    BY <1>4, <2>p
  <2> QED
    BY <1>1, <1>2, <2>2, <2>3, ProcessStep
<1>5. CASE pods' = [pods EXCEPT ![p] = [old EXCEPT !.at = "abort"]]
  <2>p. PICK t : t = [old EXCEPT !.at = "abort"]
    OBVIOUS
  <2>1. t \in Processes /\ t.at = "abort" /\ t.todo = <<>>
    BY <1>2, <2>p DEF Processes
  <2>2. pods' = [pods EXCEPT ![p] = t]
    BY <1>5, <2>p
  <2> QED
    BY <1>1, <1>2, <2>1, <2>2, ProcessStep
<1> QED
  BY <1>1, <1>4, <1>5

LEMMA GracefulStopStep ==
    ASSUME ProcessInv, NEW p \in Pods, GracefulStop(p)
    PROVE  ProcessInv'
<1>1. /\ pods[p].at = "drain" /\ Drained(p)
      /\ pods' = [pods EXCEPT ![p] = [pods[p] EXCEPT !.at = "close"]]
      /\ UNCHANGED <<main, requests, schema, postgres, faults>>
  BY DEF GracefulStop
<1>2. /\ pods[p] \in Processes /\ pods[p].todo = <<>> /\ schema.lock # p
      /\ pods[p].grpc # "serving" /\ faults \in 0..MaxFaults
      /\ "Migrate" \in Range(main.stages) => schema.version = Latest /\ ~schema.dirty
  BY <1>1, ProcessOf
<1>p. PICK t : t = [pods[p] EXCEPT !.at = "close"]
  OBVIOUS
<1>3. t \in Processes /\ t.at = "close" /\ t.todo = <<>> /\ t.grpc # "serving"
  BY <1>2, <1>p DEF Processes
<1>4. pods' = [pods EXCEPT ![p] = t]
  BY <1>1, <1>p
<1> QED
  BY <1>1, <1>2, <1>3, <1>4, ProcessStep

\* A step that changes one request, which no pod past its drain has.
LEMMA RequestStep ==
    ASSUME ProcessInv, NEW r \in Requests, NEW h \in Handlings,
           requests' = [requests EXCEPT ![r] = h],
           UNCHANGED <<main, pods, schema, postgres, faults>>,
           h.at \in {"handled", "answered"},
           \A p \in Pods : h.at = "handled" /\ h.pod = p => pods[p].at # "close"
    PROVE  ProcessInv'
<1>1. requests'[r] = h /\ \A q \in Requests \ {r} : requests'[q] = requests[q]
  BY DEF ProcessInv, TypeOK
<1>2. requests' \in [Requests -> Handlings] /\ Handlings' = Handlings /\ Processes' = Processes
  BY DEF ProcessInv, TypeOK, Processes, Handlings
<1>3. TypeOK'
  BY <1>2 DEF ProcessInv, TypeOK
<1>4. LockHeld' /\ MigratedFirst'
  BY DEF ProcessInv, LockHeld, MigratedFirst, Past, Before
<1>5. Drains'
  BY <1>1 DEF ProcessInv, Drains, Drained
<1>6. SignalFinishesRequests'
  BY <1>1 DEF ProcessInv, SignalFinishesRequests
<1> QED
  BY <1>3, <1>4, <1>5, <1>6 DEF ProcessInv

LEMMA SendStep ==
    ASSUME ProcessInv, NEW r \in Requests, NEW p \in Pods, Send(r, p)
    PROVE  ProcessInv'
<1>p. PICK h : h = [at |-> "handled", pod |-> p, todo |-> main.request, by |-> "none"]
  OBVIOUS
<1>1. /\ pods[p].grpc = "serving" /\ requests' = [requests EXCEPT ![r] = h]
      /\ UNCHANGED <<main, pods, schema, postgres, faults>>
  BY <1>p DEF Send
<1>2. pods[p].at # "close" /\ main \in Mains
  BY <1>1, ProcessOf
<1>3. main.request \in Rests(main.request)
  BY <1>2, MainFacts, RestsContain
<1>4. h \in Handlings /\ h.at = "handled" /\ h.pod = p
  BY <1>3, <1>p DEF Handlings
<1> QED
  BY <1>1, <1>2, <1>4, RequestStep

LEMMA HandleRequestStep ==
    ASSUME ProcessInv, NEW r \in Requests, HandleRequest(r)
    PROVE  ProcessInv'
<1>1. /\ requests[r].at = "handled"
      /\ \/ requests' = [requests EXCEPT ![r] = [requests[r] EXCEPT !.at = "answered"]]
         \/ /\ requests[r].todo # <<>>
            /\ requests' = [requests EXCEPT
                              ![r] = [requests[r] EXCEPT !.todo = Tail(requests[r].todo)]]
      /\ UNCHANGED <<main, pods, schema, postgres, faults>>
  BY DEF HandleRequest
<1>2. requests[r] \in Handlings /\ main \in Mains
  BY DEF ProcessInv, TypeOK
<1>3. \A p \in Pods : requests[r].pod = p => pods[p].at # "close"
  BY <1>1 DEF ProcessInv, Drains, Drained
<1>4. CASE requests' = [requests EXCEPT ![r] = [requests[r] EXCEPT !.at = "answered"]]
  <2>p. PICK h : h = [requests[r] EXCEPT !.at = "answered"]
    OBVIOUS
  <2>1. h \in Handlings /\ h.at = "answered"
    BY <1>2, <2>p DEF Handlings
  <2>2. requests' = [requests EXCEPT ![r] = h]
    BY <1>4, <2>p
  <2> QED
    BY <1>1, <2>1, <2>2, RequestStep
<1>5. CASE /\ requests[r].todo # <<>>
           /\ requests' = [requests EXCEPT
                             ![r] = [requests[r] EXCEPT !.todo = Tail(requests[r].todo)]]
  <2>1. requests[r].todo \in Rests(main.request)
    BY <1>2 DEF Handlings
  <2>2. Tail(requests[r].todo) \in Rests(main.request)
    BY <1>2, <1>5, <2>1, MainFacts, RestFacts
  <2>p. PICK h : h = [requests[r] EXCEPT !.todo = Tail(requests[r].todo)]
    OBVIOUS
  <2>3. h \in Handlings /\ h.at = "handled" /\ h.pod = requests[r].pod
    BY <1>1, <1>2, <2>2, <2>p DEF Handlings
  <2>4. requests' = [requests EXCEPT ![r] = h]
    BY <1>5, <2>p
  <2>5. \A p \in Pods : h.at = "handled" /\ h.pod = p => pods[p].at # "close"
    BY <1>3, <2>3
  <2>6. UNCHANGED <<main, pods, schema, postgres, faults>>
    BY <1>1
  <2>7. h \in Handlings /\ h.at \in {"handled", "answered"}
    BY <2>3
  <2> QED
    BY <2>4, <2>5, <2>6, <2>7, RequestStep
<1> QED
  BY <1>1, <1>4, <1>5

\* Steps that only PostgreSQL or nobody takes.
LEMMA QuietStep ==
    ASSUME ProcessInv, UNCHANGED <<main, pods, requests, schema, faults>>, postgres' \in BOOLEAN
    PROVE  ProcessInv'
<1>1. TypeOK'
  BY DEF ProcessInv, TypeOK, Processes, Handlings
<1>2. LockHeld' /\ MigratedFirst'
  BY DEF ProcessInv, LockHeld, MigratedFirst, Past, Before
<1>3. Drains' /\ SignalFinishesRequests'
  BY DEF ProcessInv, Drains, Drained, SignalFinishesRequests
<1> QED
  BY <1>1, <1>2, <1>3 DEF ProcessInv

LEMMA StepStep ==
    ASSUME ProcessInv, NEW p \in Pods, Step(p)
    PROVE  ProcessInv'
<1>1. CASE LockMigrations(p)
  BY <1>1, LockMigrationsStep
<1>2. CASE ApplyMigration(p)
  BY <1>2, ApplyMigrationStep
<1>3. CASE Migrated(p)
  BY <1>3, MigratedStep
<1>4. CASE MigrateRefused(p)
  BY <1>4, MigrateRefusedStep
<1>5. CASE Connect(p) \/ EnsureTopics(p)
  BY <1>5, ReachStep DEF Connect, EnsureTopics
<1>6. CASE Go(p)
  BY <1>6, GoStep
<1>7. CASE ConsumerCanceled(p)
  <2>1. Return(p, "canceled") /\ faults' \in 0..MaxFaults
    BY <1>7, ProcessOf DEF ConsumerCanceled
  <2> QED
    BY <2>1, ReturnStep
<1>8. CASE Select(p)
  BY <1>8, SelectStep
<1>9. CASE GracefulStop(p)
  BY <1>9, GracefulStopStep
<1>10. CASE Exit(p)
  BY <1>10, ExitStep
<1> QED
  BY <1>1, <1>2, <1>3, <1>4, <1>5, <1>6, <1>7, <1>8, <1>9, <1>10 DEF Step

LEMMA NextInv == ProcessInv /\ [Next]_vars => ProcessInv'
<1> SUFFICES ASSUME ProcessInv, [Next]_vars
             PROVE  ProcessInv'
  OBVIOUS
<1>1. ASSUME NEW p \in Pods,
             \/ Start(p) \/ Step(p) \/ Signal(p) \/ TakeRecord(p) \/ HandleRecord(p)
             \/ StageFails(p) \/ ConsumerFails(p) \/ ServeFails(p) \/ Crash(p)
      PROVE  ProcessInv'
  <2>1. CASE Start(p)
    BY <2>1, StartStep
  <2>2. CASE Step(p)
    BY <2>2, StepStep
  <2>3. CASE Signal(p)
    BY <2>3, SignalStep
  <2>4. CASE TakeRecord(p)
    BY <2>4, TakeRecordStep
  <2>5. CASE HandleRecord(p)
    BY <2>5, HandleRecordStep
  <2>6. CASE StageFails(p)
    BY <2>6, StageFailsStep
  <2>7. CASE ConsumerFails(p)
    <3>1. Return(p, "error") /\ faults' \in 0..MaxFaults
      BY <2>7, FaultBound DEF ConsumerFails
    <3> QED
      BY <3>1, ReturnStep
  <2>8. CASE ServeFails(p)
    BY <2>8, ServeFailsStep
  <2>9. CASE Crash(p)
    BY <2>9, CrashStep
  <2> QED
    BY <1>1, <2>1, <2>2, <2>3, <2>4, <2>5, <2>6, <2>7, <2>8, <2>9
<1>2. ASSUME NEW r \in Requests, HandleRequest(r)
      PROVE  ProcessInv'
  BY <1>2, HandleRequestStep
<1>3. ASSUME NEW r \in Requests, NEW p \in Pods, Send(r, p)
      PROVE  ProcessInv'
  BY <1>3, SendStep
<1>4. CASE PostgresUp
  BY <1>4, QuietStep DEF PostgresUp
<1>5. CASE Rest \/ UNCHANGED vars
  <2>1. UNCHANGED vars
    BY <1>5 DEF Rest
  <2>2. postgres' \in BOOLEAN /\ UNCHANGED <<main, pods, requests, schema, faults>>
    BY <2>1 DEF vars, ProcessInv, TypeOK
  <2> QED
    BY <2>2, QuietStep
<1> QED
  BY <1>1, <1>2, <1>3, <1>4, <1>5 DEF Next

-----------------------------------------------------------------------------
(* Results *)

\* The lock of the migrations is with a pod that is at its migrations, a pod that
\* is past them has left a complete and clean schema, and a pod that has drained
\* its requests has none and gets none.
THEOREM ProcessInvariance == Spec => []ProcessInv
<1>1. Init => ProcessInv
  BY InitInv
<1>2. ProcessInv /\ [Next]_vars => ProcessInv'
  BY NextInv
<1> QED
  BY <1>1, <1>2, PTL DEF Spec

\* A process is always somewhere in its run function, with stages left only while
\* it starts; the version of the schema stays between none and the last migration.
THEOREM ProcessTypeCorrect == Spec => []TypeOK
<1>1. ProcessInv => TypeOK
  BY DEF ProcessInv
<1> QED
  BY <1>1, ProcessInvariance, PTL

\* A pod that answers its readiness probe is past its migrations: health comes
\* after Migrate in every run function that has it.
LEMMA ReadyIsPast ==
    ASSUME ProcessInv, "Migrate" \in Range(main.stages), NEW p \in Pods, Ready(p)
    PROVE  Past(p)
<1>1. pods[p] \in Processes /\ main \in Mains /\ (pods[p].at = "start" => pods[p].todo # <<>>)
  BY ProcessOf
<1>2. "health" \in Range(main.stages) /\ pods[p].todo \in Rests(main.stages)
  BY <1>1, MainFacts, ProcessFields
<1>3. CASE Before(p, "Migrate")
  <2>1. pods[p].todo # <<>> /\ Head(pods[p].todo) = "Migrate"
    BY <1>1, <1>3 DEF Before
  <2>2. pods[p].todo = main.stages
    BY <1>1, <1>2, <2>1, StageFacts
  <2> QED
    BY <1>2, <2>2 DEF Ready
<1> QED
  BY <1>3 DEF Past, Ready

\* While a pod answers its readiness probe its service's schema is complete and
\* clean, whichever pod migrated it and however many start, fail or end meanwhile.
THEOREM ReadyMeansMigrated == Spec => []ReadySchema
<1>1. ProcessInv => ReadySchema
  BY ReadyIsPast DEF ReadySchema, ProcessInv, MigratedFirst
<1> QED
  BY <1>1, ProcessInvariance, PTL

\* A signal leaves no request half done: GracefulStop returns before the deferred
\* closes run and the process exits.
THEOREM SignalsFinishRequests == Spec => []SignalFinishesRequests
<1>1. ProcessInv => SignalFinishesRequests
  BY DEF ProcessInv
<1> QED
  BY <1>1, ProcessInvariance, PTL
=============================================================================
