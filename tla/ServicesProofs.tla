--------------------------- MODULE ServicesProofs ---------------------------
(***************************************************************************)
(* Theorems about Services for any tasks, calls, components and time-outs: *)
(* types, the tables of the bus, the tasks that are accepted, and that     *)
(* request() gives its callers what RequestReply promises, liveness apart. *)
(***************************************************************************)
EXTENDS Services, SequenceTheorems, FiniteSetTheorems, TLAPS

-----------------------------------------------------------------------------
(* Sequences without duplicates. *)

In(x, s) == \E i \in 1..Len(s) : s[i] = x
Distinct(s) == \A i, j \in 1..Len(s) : s[i] = s[j] => i = j

LEMMA AppendNew ==
  ASSUME NEW S, NEW s \in Seq(S), NEW o \in S, Distinct(s), ~In(o, s)
  PROVE  /\ Append(s, o) \in Seq(S)
         /\ Distinct(Append(s, o))
         /\ \A x \in S : In(x, Append(s, o)) <=> In(x, s) \/ x = o
  BY DEF Distinct, In

LEMMA MinOfOne ==
  ASSUME NEW k \in Nat
  PROVE  Min({k}) = k
  BY DEF Min

LEMMA SelectDistinct ==
  ASSUME NEW S, NEW s \in Seq(S), NEW k \in 1..Len(s), Distinct(s)
  PROVE  RemoveFirst(s, s[k]) = RemoveAt(s, k)
<1>1. {i \in 1..Len(s) : s[i] = s[k]} = {k}
  BY DEF Distinct
<1>2. Min({k}) = k
  BY MinOfOne
<1>3. QED
  BY <1>1, <1>2 DEF RemoveFirst, SelectInSeq

LEMMA RemoveAtParts ==
  ASSUME NEW S, NEW s \in Seq(S), NEW k \in 1..Len(s)
  PROVE  /\ RemoveAt(s, k) \in Seq(S)
         /\ Len(RemoveAt(s, k)) = Len(s) - 1
         /\ \A i \in 1..(Len(s) - 1) :
              RemoveAt(s, k)[i] = IF i < k THEN s[i] ELSE s[i + 1]
<1> DEFINE l == SubSeq(s, 1, k - 1)
           r == SubSeq(s, k + 1, Len(s))
<1>1. /\ l \in Seq(S) /\ Len(l) = k - 1
      /\ \A i \in 1..(k - 1) : l[i] = s[i]
  OBVIOUS
<1>2. /\ r \in Seq(S) /\ Len(r) = Len(s) - k
      /\ \A i \in 1..(Len(s) - k) : r[i] = s[k + i]
  OBVIOUS
<1>3. RemoveAt(s, k) = l \o r
  BY DEF RemoveAt
<1> HIDE DEF l, r
<1>4. /\ l \o r \in Seq(S) /\ Len(l \o r) = Len(l) + Len(r)
      /\ \A i \in 1..(Len(l) + Len(r)) :
           (l \o r)[i] = IF i <= Len(l) THEN l[i] ELSE r[i - Len(l)]
  BY <1>1, <1>2, ConcatProperties
<1>5. ASSUME NEW i \in 1..(Len(s) - 1)
      PROVE  (l \o r)[i] = IF i < k THEN s[i] ELSE s[i + 1]
  <2>1. CASE i < k
    BY <1>1, <1>2, <1>4, <2>1
  <2>2. CASE i >= k
    <3>1. (l \o r)[i] = r[i - (k - 1)] /\ i - (k - 1) \in 1..(Len(s) - k)
      BY <1>1, <1>2, <1>4, <2>2
    <3>2. r[i - (k - 1)] = s[k + (i - (k - 1))]
      BY <1>2, <3>1
    <3>3. k + (i - (k - 1)) = i + 1
      BY <2>2
    <3>4. QED
      BY <2>2, <3>1, <3>2, <3>3
  <2>3. i < k \/ i >= k
    OBVIOUS
  <2>4. QED
    BY <2>1, <2>2, <2>3, Zenon
<1>6. QED
  BY <1>1, <1>2, <1>3, <1>4, <1>5

LEMMA RemoveKnown ==
  ASSUME NEW S, NEW s \in Seq(S), NEW o \in S, Distinct(s), In(o, s)
  PROVE  /\ RemoveFirst(s, o) \in Seq(S)
         /\ Distinct(RemoveFirst(s, o))
         /\ \A x \in S : In(x, RemoveFirst(s, o)) <=> In(x, s) /\ x # o
<1>1. PICK k \in 1..Len(s) : s[k] = o
  BY DEF In
<1> DEFINE t == RemoveAt(s, k)
<1>2. RemoveFirst(s, o) = t
  BY <1>1, SelectDistinct
<1>3. /\ t \in Seq(S) /\ Len(t) = Len(s) - 1
      /\ \A i \in 1..(Len(s) - 1) : t[i] = IF i < k THEN s[i] ELSE s[i + 1]
  BY RemoveAtParts
<1> HIDE DEF t
<1>4. Distinct(t)
  BY <1>3 DEF Distinct
<1>5. ASSUME NEW x \in S, In(x, t) PROVE In(x, s) /\ x # o
  BY <1>1, <1>3, <1>5 DEF In, Distinct
<1>6. ASSUME NEW x \in S, In(x, s), x # o PROVE In(x, t)
  <2>1. PICK j \in 1..Len(s) : s[j] = x
    BY <1>6 DEF In
  <2>2. CASE j < k
    BY <1>3, <2>1, <2>2 DEF In
  <2>3. CASE j > k
    <3>1. j - 1 \in 1..(Len(s) - 1) /\ t[j - 1] = x
      BY <1>3, <2>1, <2>3
    <3>2. QED
      BY <1>3, <3>1 DEF In
  <2>4. QED
    BY <1>1, <1>6, <2>1, <2>2, <2>3
<1>7. QED
  BY <1>2, <1>3, <1>4, <1>5, <1>6

LEMMA LengthOfDistinct ==
  ASSUME NEW S, NEW s \in Seq(S), Distinct(s)
  PROVE  Len(s) = Cardinality(ToSet(s))
<1>1. ToSet(s) = {s[i] : i \in 1..Len(s)}
  BY DEF ToSet
<1>2. s \in Bijection(1..Len(s), ToSet(s))
  BY <1>1 DEF Bijection, Injection, Surjection, Distinct, IsInjective
<1>3. ExistsBijection(1..Len(s), ToSet(s)) /\ Len(s) \in Nat
  BY <1>2 DEF ExistsBijection
<1>4. QED
  BY <1>3, FS_CountingElements

-----------------------------------------------------------------------------
(* The tables of subscriptions. *)

USE BusAssumption, ServiceAssumption

Listening ==
  /\ handlers \in [Events -> Seq(Owners)]
  /\ subscriptions \subseteq Owners \X Events
  /\ \A e \in Events :
       /\ Distinct(handlers[e])
       /\ \A o \in Owners : In(o, handlers[e]) <=> <<o, e>> \in subscriptions

LEMMA SubscribeListening ==
  ASSUME Listening, NEW o \in Owners, NEW es \in SUBSET Events,
         \A e \in es : <<o, e>> \notin subscriptions, Subscribe(o, es)
  PROVE  Listening'
<1>1. subscriptions' = subscriptions \cup ({o} \X es)
  BY DEF Subscribe
<1>2. ASSUME NEW e \in Events
      PROVE  /\ handlers'[e] \in Seq(Owners) /\ Distinct(handlers'[e])
             /\ \A x \in Owners :
                  In(x, handlers'[e]) <=> <<x, e>> \in subscriptions'
  <2> DEFINE s == handlers[e]
  <2>1. /\ s \in Seq(Owners) /\ Distinct(s)
        /\ \A x \in Owners : In(x, s) <=> <<x, e>> \in subscriptions
    BY DEF Listening
  <2>2. handlers'[e] = IF e \in es THEN Append(s, o) ELSE s
    BY DEF Subscribe
  <2> HIDE DEF s
  <2>3. CASE e \in es
    <3>1. ~In(o, s)
      BY <2>1, <2>3
    <3>2. /\ Append(s, o) \in Seq(Owners) /\ Distinct(Append(s, o))
          /\ \A x \in Owners : In(x, Append(s, o)) <=> In(x, s) \/ x = o
      BY <2>1, <3>1, AppendNew
    <3>3. \A x : <<x, e>> \in subscriptions'
                   <=> <<x, e>> \in subscriptions \/ x = o
      BY <1>1, <2>3
    <3>4. QED
      BY <2>1, <2>2, <2>3, <3>2, <3>3
  <2>4. CASE e \notin es
    <3>1. \A x : <<x, e>> \in subscriptions' <=> <<x, e>> \in subscriptions
      BY <1>1, <2>4
    <3>2. QED
      BY <2>1, <2>2, <2>4, <3>1
  <2>5. QED
    BY <2>3, <2>4
<1>3. handlers' = [e \in Events |-> handlers'[e]]
  BY DEF Subscribe
<1>4. handlers' \in [Events -> Seq(Owners)]
  BY <1>2, <1>3
<1>5. subscriptions' \subseteq Owners \X Events
  BY <1>1 DEF Listening
<1>6. QED
  BY <1>2, <1>4, <1>5 DEF Listening

LEMMA UnsubscribeListening ==
  ASSUME Listening, NEW o \in Owners, Unsubscribe(o)
  PROVE  Listening'
<1>1. subscriptions' = {x \in subscriptions : x[1] # o}
  BY DEF Unsubscribe
<1>2. ASSUME NEW e \in Events
      PROVE  /\ handlers'[e] \in Seq(Owners) /\ Distinct(handlers'[e])
             /\ \A x \in Owners :
                  In(x, handlers'[e]) <=> <<x, e>> \in subscriptions'
  <2> DEFINE s == handlers[e]
  <2>1. /\ s \in Seq(Owners) /\ Distinct(s)
        /\ \A x \in Owners : In(x, s) <=> <<x, e>> \in subscriptions
    BY DEF Listening
  <2>2. handlers'[e] = IF <<o, e>> \in subscriptions
                       THEN RemoveFirst(s, o) ELSE s
    BY DEF Unsubscribe
  <2>3. \A x : <<x, e>> \in subscriptions'
                 <=> <<x, e>> \in subscriptions /\ x # o
    BY <1>1
  <2> HIDE DEF s
  <2>4. CASE <<o, e>> \in subscriptions
    <3>1. In(o, s)
      BY <2>1, <2>4
    <3>2. /\ RemoveFirst(s, o) \in Seq(Owners) /\ Distinct(RemoveFirst(s, o))
          /\ \A x \in Owners : In(x, RemoveFirst(s, o)) <=> In(x, s) /\ x # o
      BY <2>1, <3>1, RemoveKnown
    <3>3. QED
      BY <2>1, <2>2, <2>3, <2>4, <3>2
  <2>5. CASE <<o, e>> \notin subscriptions
    BY <2>1, <2>2, <2>3, <2>5
  <2>6. QED
    BY <2>4, <2>5
<1>3. handlers' = [e \in Events |-> handlers'[e]]
  BY DEF Unsubscribe
<1>4. handlers' \in [Events -> Seq(Owners)]
  BY <1>2, <1>3
<1>5. subscriptions' \subseteq Owners \X Events
  BY <1>1 DEF Listening
<1>6. QED
  BY <1>2, <1>4, <1>5 DEF Listening

LEMMA EmptyListening ==
  ASSUME handlers = [e \in Events |-> << >>], subscriptions = {}
  PROVE  Listening
<1>1. \A e \in Events : handlers[e] = << >> /\ << >> \in Seq(Owners) /\ Len(<< >>) = 0
  OBVIOUS
<1>2. QED
  BY <1>1 DEF Listening, Distinct, In

LEMMA DisposeListening ==
  ASSUME DisposeBus
  PROVE  Listening'
<1>1. handlers' = [e \in Events |-> << >>] /\ subscriptions' = {}
  BY DEF DisposeBus
<1>2. \A e \in Events : handlers'[e] = << >> /\ << >> \in Seq(Owners) /\ Len(<< >>) = 0
  BY <1>1
<1>3. QED
  BY <1>1, <1>2 DEF Listening, Distinct, In

LEMMA ListeningAgrees ==
  ASSUME Listening
  PROVE  SubscriptionsAgree
<1> SUFFICES ASSUME NEW e \in Events
             PROVE  /\ Listeners(e) = {o \in Owners : <<o, e>> \in subscriptions}
                    /\ Len(handlers[e]) = Cardinality(Listeners(e))
  BY DEF SubscriptionsAgree
<1>1. /\ handlers[e] \in Seq(Owners) /\ Distinct(handlers[e])
      /\ \A o \in Owners : In(o, handlers[e]) <=> <<o, e>> \in subscriptions
  BY DEF Listening
<1>2. Len(handlers[e]) = Cardinality(Listeners(e))
  BY <1>1, LengthOfDistinct DEF Listeners
<1>3. Listeners(e) = {o \in Owners : <<o, e>> \in subscriptions}
  BY <1>1 DEF Listeners, ToSet, In
<1>4. QED
  BY <1>2, <1>3

-----------------------------------------------------------------------------
(* The table of pending requests. *)

(* Cleaning finds no request that its timer has not settled before. *)
CleaningIsLate == RequestTimeout <= MaxRequestAge

PendingInv ==
  /\ pendingRequests \subseteq Requests
  /\ timers = pendingRequests
  /\ age \in [Requests -> 0..RequestTimeout]
  /\ outcome \in [Requests -> {"idle", "waiting", "value", "error", "dropped"}]
  /\ \A r \in pendingRequests : outcome[r] = "waiting"
  /\ CleaningIsLate =>
       \A r \in Requests : outcome[r] = "waiting" => r \in pendingRequests

LEMMA SettlePending ==
  ASSUME PendingInv, NEW r \in Requests, NEW o \in {"value", "error"},
         SettleRequest(r, o)
  PROVE  PendingInv'
  BY DEF PendingInv, SettleRequest

LEMMA RequestPending ==
  ASSUME PendingInv, NEW r \in Requests, NEW e, Request(r, e)
  PROVE  PendingInv' /\ Replies!Ask(r)
<1>1. CASE handlers[e] = << >>
  BY <1>1, SettlePending
     DEF Request, SettleRequest, PendingInv, Replies!Ask, Replies!Settled
<1>2. CASE handlers[e] # << >>
  BY <1>2 DEF Request, PendingInv, Replies!Ask, Replies!Settled
<1>3. QED
  BY <1>1, <1>2

LEMMA RespondPending ==
  ASSUME PendingInv, NEW r \in Requests, NEW o \in {"value", "error"}, Respond(r, o)
  PROVE  PendingInv' /\ (Replies!Settle(r) \/ UNCHANGED outcome)
<1>1. CASE r \in pendingRequests
  BY <1>1, SettlePending
     DEF Respond, SettleRequest, PendingInv, Replies!Settle, Replies!Settled
<1>2. CASE r \notin pendingRequests
  BY <1>2 DEF Respond, PendingInv, requests
<1>3. QED
  BY <1>1, <1>2

LEMMA TimeoutPending ==
  ASSUME PendingInv, NEW r \in Requests, TimeoutFires(r)
  PROVE  PendingInv' /\ Replies!Settle(r)
<1>1. r \in pendingRequests /\ SettleRequest(r, "error")
  BY DEF TimeoutFires, PendingInv
<1>2. PendingInv'
  BY <1>1, SettlePending
<1>3. QED
  BY <1>1, <1>2
     DEF SettleRequest, PendingInv, Replies!Settle, Replies!Settled

LEMMA CleanupPending ==
  ASSUME PendingInv, CleanupStaleRequests
  PROVE  PendingInv' /\ UNCHANGED outcome
<1> DEFINE stale == {r \in pendingRequests : age[r] > MaxRequestAge}
<1>1. /\ pendingRequests' = pendingRequests \ stale
      /\ timers' = timers \ stale
      /\ age' = [r \in Requests |-> IF r \in stale THEN 0 ELSE age[r]]
      /\ UNCHANGED outcome
  BY DEF CleanupStaleRequests
<1>2. CleaningIsLate => stale = {}
  BY DEF CleaningIsLate, PendingInv
<1> HIDE DEF stale
<1>3. QED
  BY <1>1, <1>2 DEF PendingInv, CleaningIsLate

LEMMA TickPending ==
  ASSUME PendingInv, Tick
  PROVE  PendingInv' /\ UNCHANGED outcome
  BY DEF PendingInv, Tick, CleaningIsLate

LEMMA DropPending ==
  ASSUME PendingInv, DropRequests
  PROVE  PendingInv' /\ Replies!Drop
  BY DEF PendingInv, DropRequests, Replies!Drop, CleaningIsLate

-----------------------------------------------------------------------------
(* The invariant. *)

LEMMA SetupFacts ==
  /\ Len(SetupOrder) = 8 /\ SetupOrder[1] = "Persistence" /\ SetupOrder[6] = "Dependency"
  /\ \A i \in 1..8 : SetupOrder[i] \in Users \ {"Executor", "Waiter"}
  /\ \A i, j \in 1..8 : SetupOrder[i] = SetupOrder[j] => i = j
  BY DEF SetupOrder, Users, ToSet

LEMMA UserFacts ==
  /\ {"Executor", "Waiter"} \cup Essential \subseteq Users /\ Users \subseteq Owners
  /\ \A o \in Users : Subscribes(o) \subseteq Events
  /\ \A o \in Essential : "TaskDelegated" \in Subscribes(o)
  /\ "TaskDelegated" \in Events
<1>1. {"Executor", "Waiter"} \cup Essential \subseteq Users
  BY DEF SetupOrder, Users, ToSet, Essential
<1>2. \A o \in Essential : "TaskDelegated" \in Subscribes(o)
  BY DEF Essential, Subscribes
<1>3. "Persistence" \in Essential
  BY DEF Essential
<1>4. QED
  BY <1>1, <1>2, <1>3

(* Who listens has been set up, and the handlers that have been set up      *)
(* listen as long as the bus exists.                                        *)
ListenersInv ==
  /\ \A o \in Owners, e \in Events : <<o, e>> \in subscriptions =>
       \/ o = "Executor" /\ stage # "boot"
       \/ o = "Waiter" /\ waitsFor # NoTask
       \/ \E i \in 1..setUp : o = SetupOrder[i]
  /\ stage = "boot" => setUp = 0
  /\ taskManager = "service" => setUp = 8
  /\ \A o \in Essential, i \in 1..setUp :
       stage # "exited" /\ o = SetupOrder[i] =>
         <<o, "TaskDelegated">> \in subscriptions

(* A command makes its one call first, and cancellations while it waits.    *)
CommandInv ==
  /\ waitsFor # NoTask =>
       mode \in Delegations /\ \E c \in Calls : call[c].step # "idle"
  /\ CommandLine /\ waitsFor = NoTask =>
       \A c, d \in Calls :
         call[c].step # "idle" /\ call[d].step # "idle" => c = d
  /\ CommandLine => \A c \in Calls : call[c].step = "asked" =>
       call[c].op = IF waitsFor = NoTask THEN mode ELSE "cancel"

(* What a query handler has seen is still there, and an end is an end. *)
SeenSound(c) ==
  call[c].step = "asked" =>
    /\ call[c].op # "status" => call[c].task \in Tasks
    /\ call[c].task \in Tasks /\ call[c].seen # "missing" => HasRow(call[c].task)
    /\ call[c].task \in Tasks /\ call[c].seen \in Terminal =>
         rows[call[c].task].status \in Terminal

SeenInv == \A c \in Calls : SeenSound(c)

RowSound(t) ==
  LET row == rows[t]
  IN /\ t # OldTask => Essential \subseteq row.servedBy
     /\ row.continueFrom # NoTask =>
          HasRow(row.continueFrom) /\ row.continueFrom \in row.dependsOn
     /\ row.retryOf = NoTask <=> row.parentTaskId = NoTask
     /\ row.retryOf # NoTask =>
          /\ HasRow(row.retryOf) /\ rows[row.retryOf].status \in Terminal
          /\ row.retryCount = rows[row.retryOf].retryCount + 1
          /\ HasRow(row.parentTaskId)
          /\ rows[row.parentTaskId].retryOf = NoTask

RowInv == \A t \in Tasks : HasRow(t) => RowSound(t)

(* Only a task manager that has been set up is asked. *)
AskedInv ==
  \A c \in Calls : call[c].step = "asked" => taskManager = "service"

StateTypes ==
  /\ mode \in {"server"} \cup Operations
  /\ stage \in {"boot", "settingUp", "ready", "stopping", "closed", "exited"}
  /\ setUp \in 0..8
  /\ taskManager \in {"none", "service", "error"}
  /\ serving \subseteq Calls
  /\ exitCode \in {-1, 0, 1, 130}

CallTypes ==
  call \in [Calls ->
    [op : Operations \cup {"none"}, task : Tasks \cup {NoTask},
     seen : Terminal \cup {"queued", "missing", "all", "none"},
     step : {"idle", "asked", "ok", "failed", "hangs"}]]

TaskTypes ==
  /\ rows \in [Tasks -> Row \cup {NoTask}]
  /\ waitsFor \in Tasks \cup {NoTask}

TableTypes == pending \in [Tasks -> SUBSET Tasks] /\ dropped \subseteq Tasks

Inv ==
  /\ Listening /\ PendingInv
  /\ StateTypes /\ CallTypes /\ TaskTypes /\ TableTypes
  /\ ListenersInv /\ CommandInv /\ AskedInv /\ SeenInv /\ RowInv

LEMMA InvTypes == Inv => TypeOK
<1> SUFFICES ASSUME Inv PROVE TypeOK
  OBVIOUS
<1>1. BusTypeOK
  BY DEF Inv, Listening, PendingInv, BusTypeOK
<1>2. QED
  BY <1>1, SetupFacts
     DEF Inv, StateTypes, CallTypes, TaskTypes, TableTypes, TypeOK

LEMMA InvInit == Init => Inv
<1> SUFFICES ASSUME Init PROVE Inv
  OBVIOUS
<1>1. Listening /\ subscriptions = {}
  BY EmptyListening DEF Init, BusInit
<1>2. PendingInv
  BY DEF Init, BusInit, PendingInv
<1>3. StateTypes
  BY DEF Init, StateTypes
<1>4. CallTypes /\ \A c \in Calls : call[c].step = "idle"
  BY DEF Init, CallTypes, Idle
<1>5. \A t \in Tasks : \/ rows[t] = NoTask
                       \/ \E s \in Terminal \cup {"queued"} : rows[t] = OldRow(s) /\ t = OldTask
  BY DEF Init, Terminal
<1>6. \A s \in Terminal \cup {"queued"} :
        OldRow(s) \in Row /\ OldRow(s).continueFrom = NoTask
        /\ OldRow(s).retryOf = NoTask /\ OldRow(s).parentTaskId = NoTask
  BY UserFacts DEF OldRow, Row
<1>7. TaskTypes
  <2>1. DOMAIN rows = Tasks /\ rows = [t \in Tasks |-> rows[t]]
    BY DEF Init
  <2>2. QED
    BY <1>5, <1>6, <2>1 DEF Init, TaskTypes
<1>8. RowInv
  BY <1>5, <1>6 DEF RowInv, RowSound, HasRow
<1>9. ListenersInv /\ CommandInv /\ AskedInv /\ SeenInv
  BY <1>1, <1>4 DEF Init, ListenersInv, CommandInv, AskedInv, SeenInv, SeenSound
<1>10. TableTypes
  BY DEF Init, TableTypes
<1>11. QED
  BY <1>1, <1>2, <1>3, <1>4, <1>7, <1>8, <1>9, <1>10 DEF Inv

-----------------------------------------------------------------------------
(* The steps, grouped by what they have in common. *)

Asking(c) ==
  \E op \in Operations \ {"delegate"}, t \in Tasks \cup {NoTask} :
    (op # "status" => t \in Tasks) /\ StartCall(c, op, t)

Telling(c) == \E op \in {"status", "logs"} : Answered(c, op) /\ Tell(c)
Again(c) == \E op \in {"retry", "resume"} : Answered(c, op) /\ TryAgain(c)

LEMMA NextCases ==
  ASSUME Next
  PROVE  \/ SetUpStep \/ SetUpFails \/ Shutdown \/ ServerExits \/ Timers
         \/ DisposeEnds
         \/ \E c \in Calls :
              \/ CommandEnds(c) \/ DisposeContainer(c) \/ DelegateTask(c)
              \/ Asking(c) \/ QueryAnswers(c) \/ Telling(c) \/ Again(c)
              \/ Cancel(c) \/ DelegateContinue(c)
         \/ \E c \in Calls, op \in Operations, t \in Tasks : CallFails(c, op, t)
         \/ \E t \in Tasks, s \in Terminal : TaskEnds(t, s)
<1>1. ASSUME NEW c \in Calls, Asks(c) PROVE Asking(c)
  BY <1>1 DEF Asks, Asking, TaskStatus, TaskLogs, CancelTask, RetryTask,
              ResumeTask, ContinueTask, Operations
<1>2. ASSUME NEW c \in Calls, Continue(c)
      PROVE  Telling(c) \/ Again(c) \/ Cancel(c) \/ DelegateContinue(c)
  BY <1>2 DEF Continue, Telling, Again, GetStatus, GetLogs, Retry, Resume
<1>3. QED
  BY <1>1, <1>2 DEF Next, Ends

-----------------------------------------------------------------------------
(* Requests. *)

LEMMA RequestsUnchanged ==
  ASSUME PendingInv, UNCHANGED requests
  PROVE  PendingInv' /\ UNCHANGED outcome
  BY DEF PendingInv, requests, CleaningIsLate

LEMMA StepPending ==
  Inv /\ [Next]_vars => PendingInv' /\ [Replies!Next]_outcome
<1> SUFFICES ASSUME Inv, [Next]_vars PROVE PendingInv' /\ [Replies!Next]_outcome
  OBVIOUS
<1>1. PendingInv
  BY DEF Inv
<1>2. CASE UNCHANGED requests
  BY <1>1, <1>2, RequestsUnchanged
<1>3. CASE DropRequests
  BY <1>1, <1>3, DropPending DEF Replies!Next
<1>4. CASE Timers
  <2>1. CASE \E c \in Calls : TimeoutFires(c)
    BY <1>1, <2>1, TimeoutPending DEF Replies!Next, Calls
  <2>2. QED
    BY <1>1, <1>4, <2>1, TickPending, CleanupPending DEF Timers
<1>5. ASSUME NEW c \in Calls, Asking(c) PROVE PendingInv' /\ [Replies!Next]_outcome
  <2>1. PICK op \in Operations : Request(c, Query(op))
    BY <1>5 DEF Asking, StartCall, Ask
  <2>2. PendingInv' /\ Replies!Ask(c)
    BY <1>1, <2>1, RequestPending DEF Calls
  <2>3. QED
    BY <2>2 DEF Replies!Next, Calls
<1>6. ASSUME NEW c \in Calls, QueryAnswers(c)
      PROVE  PendingInv' /\ [Replies!Next]_outcome
  <2>1. PICK o \in {"value", "error"} : Respond(c, o)
    BY <1>6 DEF QueryAnswers
  <2>2. PendingInv' /\ (Replies!Settle(c) \/ UNCHANGED outcome)
    BY <1>1, <2>1, RespondPending DEF Calls
  <2>3. QED
    BY <2>2 DEF Replies!Next, Calls
<1>7. CASE UNCHANGED vars
  BY <1>2, <1>7 DEF vars, busVars
<1>8. CASE SetUpStep \/ SetUpFails \/ Shutdown
  BY <1>2, <1>8
     DEF SetUpStep, Bootstrap, SetUpNext, SetUpDone, SetUpFails, Shutdown, busVars
<1>9. CASE ServerExits \/ DisposeEnds
  BY <1>3, <1>9 DEF ServerExits, DisposeEnds, DisposeBus
<1>10. ASSUME NEW c \in Calls, CommandEnds(c)
       PROVE  PendingInv' /\ [Replies!Next]_outcome
  BY <1>3, <1>10 DEF CommandEnds
<1>11. ASSUME NEW c \in Calls,
              \/ DisposeContainer(c) \/ DelegateTask(c) \/ Telling(c) \/ Again(c)
              \/ Cancel(c) \/ DelegateContinue(c)
       PROVE  PendingInv' /\ [Replies!Next]_outcome
  BY <1>2, <1>11 DEF DisposeContainer, DelegateTask, Telling, Tell, Again, TryAgain,
                     Cancel, DelegateContinue, busVars
<1>12. CASE \/ \E c \in Calls, op \in Operations, t \in Tasks : CallFails(c, op, t)
            \/ \E t \in Tasks, s \in Terminal : TaskEnds(t, s)
  BY <1>2, <1>12 DEF CallFails, TaskEnds, busVars
<1>13. QED
  BY <1>4, <1>5, <1>6, <1>7, <1>8, <1>9, <1>10, <1>11, <1>12, NextCases

-----------------------------------------------------------------------------
(* A delegation, and the command that waits for its end. *)

LEMMA FirstCall ==
  ASSUME Inv, NEW c \in Calls, mode \in Delegations,
         DelegateTask(c) \/ DelegateContinue(c) \/ Again(c)
  PROVE  waitsFor = NoTask
<1>1. CommandInv /\ CommandLine
  BY DEF Inv, CommandLine, Delegations
<1>2. CASE DelegateTask(c)
  <2>1. \A d \in Calls : call[d].step = "idle"
    BY <1>1, <1>2 DEF DelegateTask, MayCall, Sigint, CommandLine
  <2>2. QED
    BY <1>1, <2>1 DEF CommandInv
<1>3. CASE DelegateContinue(c) \/ Again(c)
  <2>1. call[c].step = "asked" /\ call[c].op # "cancel"
    BY <1>3 DEF DelegateContinue, Again, Answered
  <2>2. QED
    BY <1>1, <2>1 DEF CommandInv
<1>4. QED
  BY <1>2, <1>3

NewTask == CHOOSE new \in Fresh : TRUE

LEMMA NewTaskFresh ==
  ASSUME Fresh # {}
  PROVE  NewTask \in Tasks \ {OldTask} /\ ~HasRow(NewTask) /\ NewTask # NoTask
  BY DEF NewTask, Fresh

(* What EmitTaskDelegated does, part by part. *)
LEMMA DelegatedParts ==
  ASSUME NEW c \in Calls, NEW row, EmitTaskDelegated(c, row)
  PROVE  /\ NewTask \in Tasks \ {OldTask} /\ ~HasRow(NewTask) /\ NewTask # NoTask
         /\ rows' \in {rows, [rows EXCEPT ![NewTask] = row]}
         /\ pending' \in {pending, [pending EXCEPT ![NewTask] = row.dependsOn]}
         /\ Finish(c, "ok") \/ Finish(c, "hangs")
         /\ \/ mode \in Delegations /\ WaitForTaskCompletion(NewTask)
            \/ UNCHANGED <<waitsFor, listening>>
         /\ UNCHANGED <<dropped, cancelledBySigint, exitCode>>
<1>1. NewTask \in Tasks \ {OldTask} /\ ~HasRow(NewTask) /\ NewTask # NoTask
  BY NewTaskFresh DEF EmitTaskDelegated
<1>2. QED
  BY <1>1 DEF EmitTaskDelegated, NewTask

-----------------------------------------------------------------------------
(* Subscriptions. *)

LEMMA ListenersKept ==
  ASSUME Inv,
         subscriptions' \subseteq subscriptions,
         \A o \in Essential, e \in Events :
           <<o, e>> \in subscriptions => <<o, e>> \in subscriptions',
         UNCHANGED setUp,
         stage' = "boot" <=> stage = "boot",
         stage = "exited" => stage' = "exited",
         taskManager' = "service" => taskManager = "service" \/ setUp = 8,
         waitsFor # NoTask => waitsFor' # NoTask
  PROVE  ListenersInv'
  BY UserFacts DEF Inv, ListenersInv

LEMMA UnsubscribeKeeps ==
  ASSUME Inv, NEW o \in {"Executor", "Waiter"}, Unsubscribe(o)
  PROVE  /\ Listening'
         /\ subscriptions' \subseteq subscriptions
         /\ \A x \in Essential, e \in Events :
              <<x, e>> \in subscriptions => <<x, e>> \in subscriptions'
<1>1. Listening'
  BY UserFacts, UnsubscribeListening DEF Inv
<1>2. subscriptions' = {x \in subscriptions : x[1] # o}
  BY DEF Unsubscribe
<1>3. QED
  BY <1>1, <1>2 DEF Essential

LEMMA SameListening ==
  ASSUME Listening, UNCHANGED listening
  PROVE  Listening'
  BY DEF Listening, listening

LEMMA TaskEndListening ==
  ASSUME Inv, NEW t, NEW s, EmitTaskEnd(t, s),
         UNCHANGED <<stage, setUp, taskManager, waitsFor>>
  PROVE  Listening' /\ ListenersInv'
<1>1. CASE UNCHANGED listening
  BY <1>1, SameListening, ListenersKept DEF Inv, listening
<1>2. CASE Unsubscribe("Waiter")
  BY <1>2, UnsubscribeKeeps, ListenersKept
<1>3. QED
  BY <1>1, <1>2 DEF EmitTaskEnd

LEMMA WaiterListening ==
  ASSUME Inv, waitsFor = NoTask, WaitForTaskCompletion(NewTask),
         NewTask # NoTask, UNCHANGED <<stage, setUp, taskManager>>
  PROVE  Listening' /\ ListenersInv'
<1> DEFINE es == Subscribes("Waiter")
<1>1. es \in SUBSET Events /\ "Waiter" \in Owners
  BY UserFacts
<1>2. Listening /\ ListenersInv /\ StateTypes
  BY DEF Inv
<1>3. \A e \in Events : <<"Waiter", e>> \notin subscriptions
  BY <1>1, <1>2, SetupFacts DEF ListenersInv, StateTypes
<1>4. Subscribe("Waiter", es) /\ waitsFor' = NewTask
  BY DEF WaitForTaskCompletion
<1> HIDE DEF es
<1>5. Listening'
  BY <1>1, <1>2, <1>3, <1>4, SubscribeListening
<1>6. subscriptions' = subscriptions \cup ({"Waiter"} \X es)
  BY <1>4 DEF Subscribe
<1>7. ListenersInv'
  BY <1>1, <1>2, <1>4, <1>6 DEF ListenersInv
<1>8. QED
  BY <1>5, <1>7

LEMMA DelegatedListening ==
  ASSUME Inv, NEW c \in Calls, NEW row, EmitTaskDelegated(c, row),
         mode \in Delegations => waitsFor = NoTask,
         UNCHANGED <<stage, setUp, taskManager>>
  PROVE  Listening' /\ ListenersInv'
<1>1. CASE UNCHANGED <<waitsFor, listening>>
  BY <1>1, SameListening, ListenersKept DEF Inv, listening
<1>2. CASE mode \in Delegations /\ WaitForTaskCompletion(NewTask)
  BY <1>2, DelegatedParts, WaiterListening
<1>3. QED
  BY <1>1, <1>2, DelegatedParts

LEMMA BootstrapListening ==
  ASSUME Inv, Bootstrap
  PROVE  Listening' /\ ListenersInv'
<1>1. Listening /\ ListenersInv /\ setUp = 0 /\ stage = "boot" /\ stage' = "settingUp"
  BY DEF Inv, ListenersInv, Bootstrap
<1>2. UNCHANGED <<setUp, taskManager, waitsFor>>
  BY DEF Bootstrap, cliVars
<1>3. CASE UNCHANGED listening
  BY <1>1, <1>2, <1>3, SameListening DEF ListenersInv, listening
<1>4. CASE Subscribe("Executor", Subscribes("Executor"))
  <2> DEFINE es == Subscribes("Executor")
  <2>1. es \in SUBSET Events /\ "Executor" \in Owners
    BY UserFacts
  <2>2. Subscribe("Executor", es)
    BY <1>4
  <2> HIDE DEF es
  <2>3. \A e \in es : <<"Executor", e>> \notin subscriptions
    BY <1>1, <2>1 DEF ListenersInv
  <2>4. Listening'
    BY <1>1, <2>1, <2>2, <2>3, SubscribeListening
  <2>5. subscriptions' = subscriptions \cup ({"Executor"} \X es)
    BY <2>2 DEF Subscribe
  <2>6. ListenersInv'
    BY <1>1, <1>2, <2>1, <2>5 DEF ListenersInv
  <2>7. QED
    BY <2>4, <2>6
<1>5. QED
  BY <1>3, <1>4 DEF Bootstrap

LEMMA SetUpListening ==
  ASSUME Inv, SetUpNext
  PROVE  Listening' /\ ListenersInv'
<1> DEFINE o == SetupOrder[setUp + 1]
           es == Subscribes(o)
<1>1. Listening /\ ListenersInv /\ StateTypes
  BY DEF Inv
<1>2. setUp \in 0..7 /\ setUp' = setUp + 1 /\ stage = "settingUp"
  BY <1>1, SetupFacts DEF SetUpNext, StateTypes
<1>3. UNCHANGED <<stage, taskManager, waitsFor>> /\ Subscribe(o, es)
  BY DEF SetUpNext, cliVars
<1>4. /\ o \in Users \ {"Executor", "Waiter"}
      /\ \A i \in 1..setUp : SetupOrder[i] # o
  BY <1>2, SetupFacts
<1>5. o \in Owners /\ es \in SUBSET Events /\ (o \in Essential => "TaskDelegated" \in es)
  BY <1>4, UserFacts
<1>6. setUp + 1 \in 1..(setUp + 1) /\ o = SetupOrder[setUp + 1]
  BY <1>2
<1>7. 1..(setUp + 1) = (1..setUp) \cup {setUp + 1}
  BY <1>2
<1> HIDE DEF o, es
<1>8. \A e \in es : <<o, e>> \notin subscriptions
  BY <1>1, <1>4, <1>5 DEF ListenersInv
<1>9. Listening'
  BY <1>1, <1>3, <1>5, <1>8, SubscribeListening
<1>10. subscriptions' = subscriptions \cup ({o} \X es)
  BY <1>3 DEF Subscribe
<1>11. \A x \in Owners, e \in Events : <<x, e>> \in subscriptions' =>
         \/ x = "Executor" /\ stage' # "boot"
         \/ x = "Waiter" /\ waitsFor' # NoTask
         \/ \E i \in 1..setUp' : x = SetupOrder[i]
  BY <1>1, <1>2, <1>3, <1>6, <1>7, <1>10 DEF ListenersInv
<1>12. taskManager' # "service" /\ stage' # "boot"
  BY <1>1, <1>2, <1>3 DEF ListenersInv
<1>13. \A x \in Essential, i \in 1..setUp' :
         stage' # "exited" /\ x = SetupOrder[i] =>
           <<x, "TaskDelegated">> \in subscriptions'
  BY <1>1, <1>2, <1>3, <1>5, <1>6, <1>7, <1>10 DEF ListenersInv
<1>14. QED
  BY <1>9, <1>11, <1>12, <1>13 DEF ListenersInv

LEMMA StepListening == Inv /\ [Next]_vars => Listening' /\ ListenersInv'
<1> SUFFICES ASSUME Inv, [Next]_vars PROVE Listening' /\ ListenersInv'
  OBVIOUS
<1>1. ASSUME UNCHANGED <<listening, setUp, waitsFor>>,
             stage' = "boot" <=> stage = "boot",
             stage = "exited" => stage' = "exited",
             taskManager' = "service" => taskManager = "service" \/ setUp = 8
      PROVE  Listening' /\ ListenersInv'
  BY <1>1, SameListening, ListenersKept DEF Inv, listening
<1>2. CASE SetUpStep \/ SetUpFails
  <2>1. CASE SetUpDone \/ SetUpFails
    BY <1>1, <2>1, SetupFacts DEF SetUpDone, SetUpFails, busVars, cliVars
  <2>2. QED
    BY <1>2, <2>1, BootstrapListening, SetUpListening DEF SetUpStep
<1>3. CASE Shutdown
  BY <1>3, UnsubscribeKeeps, ListenersKept DEF Shutdown, cliVars
<1>4. CASE DisposeEnds
  <2>1. Listening' /\ subscriptions' = {}
    BY <1>4, DisposeListening DEF DisposeEnds, DisposeBus
  <2>2. UNCHANGED <<setUp, taskManager>> /\ stage' = "exited"
    BY <1>4 DEF DisposeEnds
  <2>3. QED
    BY <2>1, <2>2 DEF Inv, ListenersInv
<1>5. ASSUME NEW c \in Calls, CommandEnds(c) \/ DisposeContainer(c)
      PROVE  Listening' /\ ListenersInv'
  BY <1>1, <1>5 DEF CommandEnds, DisposeContainer, Over, busVars
<1>6. CASE ServerExits \/ Timers \/ UNCHANGED vars
  <2>1. CASE Timers
    BY <1>1, <2>1 DEF Timers, Tick, CleanupStaleRequests, TimeoutFires,
                       listening, services, cliVars
  <2>2. QED
    BY <1>1, <1>6, <2>1 DEF ServerExits, vars, busVars, services, cliVars
<1>7. ASSUME NEW c \in Calls, Asking(c) \/ QueryAnswers(c) \/ Telling(c)
      PROVE  Listening' /\ ListenersInv'
  BY <1>1, <1>7 DEF Asking, StartCall, QueryAnswers, Telling, Tell,
                    services, busVars, cliVars
<1>8. ASSUME NEW c \in Calls, NEW op, NEW t, CallFails(c, op, t)
      PROVE  Listening' /\ ListenersInv'
  BY <1>1, <1>8 DEF CallFails, services, busVars, cliVars
<1>9. ASSUME NEW c \in Calls, Cancel(c) PROVE Listening' /\ ListenersInv'
  BY <1>1, <1>9, TaskEndListening DEF Cancel, services
<1>10. ASSUME NEW t, NEW s, TaskEnds(t, s) PROVE Listening' /\ ListenersInv'
  BY <1>10, TaskEndListening DEF TaskEnds, services
<1>11. ASSUME NEW c \in Calls, DelegateTask(c) \/ Again(c) \/ DelegateContinue(c)
       PROVE  Listening' /\ ListenersInv'
  <2>1. mode \in Delegations => waitsFor = NoTask
    BY <1>11, FirstCall
  <2>2. UNCHANGED <<stage, setUp, taskManager>>
    BY <1>11 DEF DelegateTask, Again, TryAgain, DelegateContinue, services
  <2>3. \/ \E row : EmitTaskDelegated(c, row)
        \/ UNCHANGED <<listening, cliVars>>
    BY <1>11 DEF DelegateTask, Again, TryAgain, DelegateContinue
  <2>4. QED
    BY <1>1, <2>1, <2>2, <2>3, DelegatedListening DEF cliVars
<1>12. QED
  BY <1>2, <1>3, <1>4, <1>5, <1>6, <1>7, <1>8, <1>9, <1>10, <1>11, NextCases

-----------------------------------------------------------------------------
(* Calls. *)

LEMMA FinishParts ==
  ASSUME CallTypes, NEW c \in Calls, NEW res \in {"ok", "failed", "hangs"},
         Finish(c, res)
  PROVE  /\ CallTypes'
         /\ call'[c].step = res
         /\ \A d \in Calls \ {c} : call'[d] = call[d]
  BY DEF CallTypes, Finish, Idle

LEMMA AskParts ==
  ASSUME CallTypes, TaskTypes, NEW c \in Calls, NEW op \in Operations,
         NEW t \in Tasks \cup {NoTask}, Ask(c, op, t)
  PROVE  /\ CallTypes'
         /\ call'[c].step = "asked" /\ call'[c].op = op
         /\ call'[c].task = t /\ call'[c].seen = StatusOf(t)
         /\ \A d \in Calls \ {c} : call'[d] = call[d]
<1>1. StatusOf(t) \in Terminal \cup {"queued", "missing", "all", "none"}
  BY DEF StatusOf, HasRow, TaskTypes, Row
<1>2. QED
  BY <1>1 DEF Ask, CallTypes

LEMMA FinishCommand ==
  ASSUME CallTypes, CommandInv, NEW c \in Calls,
         NEW res \in {"ok", "failed", "hangs"}, Finish(c, res), UNCHANGED mode,
         \/ call[c].step # "idle"
         \/ CommandLine => waitsFor # NoTask
         \/ \A d \in Calls : call[d].step = "idle",
         \/ UNCHANGED waitsFor
         \/ waitsFor = NoTask /\ waitsFor' # NoTask /\ mode \in Delegations
  PROVE  CommandInv'
<1>1. /\ call'[c].step = res
      /\ \A d \in Calls \ {c} : call'[d] = call[d]
  BY FinishParts
<1>2. CommandLine /\ waitsFor = NoTask =>
        \A d \in Calls \ {c} : call[d].step = "idle"
  BY DEF CommandInv
<1>3. CASE UNCHANGED waitsFor
  BY <1>1, <1>2, <1>3 DEF CommandInv, CommandLine
<1>4. CASE waitsFor = NoTask /\ waitsFor' # NoTask /\ mode \in Delegations
  <2>1. \A d \in Calls \ {c} : call'[d].step = "idle"
    BY <1>1, <1>2, <1>4 DEF CommandLine, Delegations
  <2>2. QED
    BY <1>1, <1>4, <2>1 DEF CommandInv
<1>5. QED
  BY <1>3, <1>4

LEMMA AskCommand ==
  ASSUME Inv, NEW c \in Calls, Asking(c)
  PROVE  CallTypes' /\ CommandInv'
<1>1. PICK op \in Operations, t \in Tasks \cup {NoTask} :
        /\ op # "status" => t \in Tasks
        /\ Ask(c, op, t) /\ MayCall(op, t) /\ UNCHANGED <<mode, waitsFor>>
  BY DEF Asking, StartCall, services
<1>2. /\ CallTypes'
      /\ call'[c].step = "asked" /\ call'[c].op = op
      /\ \A d \in Calls \ {c} : call'[d] = call[d]
  BY <1>1, AskParts DEF Inv
<1>3. CASE mode = "server"
  BY <1>1, <1>2, <1>3 DEF Inv, CommandInv, CommandLine, Delegations
<1>4. CASE mode = op /\ \A d \in Calls : call[d].step = "idle"
  BY <1>1, <1>2, <1>4 DEF Inv, CommandInv, CommandLine
<1>5. CASE Sigint(op, t)
  <2>1. waitsFor # NoTask /\ op = "cancel"
    BY <1>1, <1>5 DEF Sigint
  <2>2. QED
    BY <1>1, <1>2, <2>1 DEF Inv, CommandInv, CommandLine
<1>6. QED
  BY <1>1, <1>3, <1>4, <1>5 DEF MayCall

LEMMA StepCommand == Inv /\ [Next]_vars => CallTypes' /\ CommandInv'
<1> SUFFICES ASSUME Inv, [Next]_vars PROVE CallTypes' /\ CommandInv'
  OBVIOUS
<1>1. CallTypes /\ CommandInv /\ TaskTypes
  BY DEF Inv
<1>2. CASE UNCHANGED <<call, mode, waitsFor>>
  BY <1>1, <1>2 DEF CallTypes, CommandInv, CommandLine
<1>3. CASE \/ SetUpStep \/ SetUpFails \/ Shutdown \/ ServerExits \/ Timers
           \/ DisposeEnds \/ UNCHANGED vars
  BY <1>2, <1>3 DEF SetUpStep, Bootstrap, SetUpNext, SetUpDone, SetUpFails,
                    Shutdown, ServerExits, Timers, DisposeEnds, vars, services,
                    callVars, cliVars
<1>4. ASSUME NEW c \in Calls,
             CommandEnds(c) \/ DisposeContainer(c) \/ QueryAnswers(c)
      PROVE  CallTypes' /\ CommandInv'
  BY <1>2, <1>4 DEF CommandEnds, DisposeContainer, QueryAnswers, services,
                    callVars, cliVars
<1>5. ASSUME NEW t, NEW s, TaskEnds(t, s) PROVE CallTypes' /\ CommandInv'
  BY <1>2, <1>5 DEF TaskEnds, services, callVars
<1>6. ASSUME NEW c \in Calls, NEW res \in {"ok", "failed", "hangs"},
             Finish(c, res), UNCHANGED mode,
             \/ call[c].step # "idle"
             \/ CommandLine => waitsFor # NoTask
             \/ \A d \in Calls : call[d].step = "idle",
             \/ UNCHANGED waitsFor
             \/ waitsFor = NoTask /\ waitsFor' # NoTask /\ mode \in Delegations
      PROVE  CallTypes' /\ CommandInv'
  BY <1>1, <1>6, FinishParts, FinishCommand
<1>7. ASSUME NEW c \in Calls, Telling(c) \/ Cancel(c)
      PROVE  CallTypes' /\ CommandInv'
  <2>1. \/ Finish(c, "ok") \/ Finish(c, "failed")
    BY <1>7 DEF Telling, Tell, Cancel
  <2>2. call[c].step # "idle" /\ UNCHANGED <<mode, waitsFor>>
    BY <1>7 DEF Telling, Tell, Cancel, Answered, services, cliVars
  <2>3. QED
    BY <1>6, <2>1, <2>2
<1>8. ASSUME NEW c \in Calls, NEW op \in Operations, NEW t \in Tasks,
             CallFails(c, op, t)
      PROVE  CallTypes' /\ CommandInv'
  <2>1. Finish(c, "failed") /\ UNCHANGED <<mode, waitsFor>>
    BY <1>8 DEF CallFails, services, cliVars
  <2>2. \/ CommandLine => waitsFor # NoTask
        \/ \A d \in Calls : call[d].step = "idle"
    BY <1>8 DEF CallFails, MayCall, Sigint, CommandLine
  <2>3. QED
    BY <1>6, <2>1, <2>2
<1>9. ASSUME NEW c \in Calls, DelegateTask(c) \/ Again(c) \/ DelegateContinue(c)
      PROVE  CallTypes' /\ CommandInv'
  <2>1. UNCHANGED mode /\ (mode \in Delegations => waitsFor = NoTask)
    BY <1>9, FirstCall
       DEF DelegateTask, Again, TryAgain, DelegateContinue, services
  <2>2. \/ call[c].step # "idle"
        \/ CommandLine => waitsFor # NoTask
        \/ \A d \in Calls : call[d].step = "idle"
    BY <1>9 DEF DelegateTask, MayCall, Sigint, CommandLine, Again,
                DelegateContinue, Answered
  <2>3. CASE Finish(c, "failed") /\ UNCHANGED cliVars
    BY <1>6, <2>1, <2>2, <2>3 DEF cliVars
  <2>4. ASSUME NEW row, EmitTaskDelegated(c, row)
        PROVE  CallTypes' /\ CommandInv'
    <3>1. /\ Finish(c, "ok") \/ Finish(c, "hangs")
          /\ \/ UNCHANGED waitsFor
             \/ waitsFor = NoTask /\ waitsFor' # NoTask /\ mode \in Delegations
      BY <2>1, <2>4, DelegatedParts DEF WaitForTaskCompletion
    <3>2. QED
      BY <1>6, <2>1, <2>2, <3>1
  <2>5. QED
    BY <1>9, <2>3, <2>4 DEF DelegateTask, Again, TryAgain, DelegateContinue
<1>10. QED
  BY <1>3, <1>4, <1>5, <1>7, <1>8, <1>9, AskCommand, NextCases

-----------------------------------------------------------------------------
(* The table of tasks. *)

RowsInv == TaskTypes /\ SeenInv /\ RowInv

LEMMA RowsKept ==
  ASSUME Inv, NEW c \in Calls, call'[c].step # "asked",
         \A d \in Calls \ {c} : call'[d] = call[d],
         UNCHANGED rows, waitsFor' \in Tasks \cup {NoTask}
  PROVE  RowsInv'
  BY DEF Inv, RowsInv, TaskTypes, SeenInv, SeenSound, RowInv, RowSound, HasRow

LEMMA RowsUnchanged ==
  ASSUME Inv, UNCHANGED <<call, rows, waitsFor>>
  PROVE  RowsInv'
  BY DEF Inv, RowsInv, TaskTypes, SeenInv, SeenSound, RowInv, RowSound, HasRow

LEMMA RowsSeen ==
  ASSUME Inv, NEW c \in Calls, Asking(c)
  PROVE  RowsInv'
<1>1. PICK op \in Operations, t \in Tasks \cup {NoTask} :
        /\ op # "status" => t \in Tasks
        /\ Ask(c, op, t) /\ UNCHANGED <<rows, waitsFor>>
  BY DEF Asking, StartCall
<1>2. /\ call'[c].op = op /\ call'[c].task = t /\ call'[c].seen = StatusOf(t)
      /\ \A d \in Calls \ {c} : call'[d] = call[d]
  BY <1>1, AskParts DEF Inv
<1>3. t \in Tasks /\ StatusOf(t) # "missing" =>
        HasRow(t) /\ StatusOf(t) = rows[t].status
  BY DEF StatusOf, HasRow
<1>4. t \in Tasks /\ StatusOf(t) \in Terminal => StatusOf(t) # "missing"
  BY DEF Terminal
<1>5. QED
  BY <1>1, <1>2, <1>3, <1>4
     DEF Inv, RowsInv, TaskTypes, SeenInv, SeenSound, RowInv, RowSound, HasRow

(* The row of u is the same, but for an open task that may have ended. *)
RowStays(u) ==
  /\ HasRow(u)' <=> HasRow(u)
  /\ HasRow(u) =>
       /\ rows[u].status \in Terminal => rows'[u].status \in Terminal
       /\ rows'[u].servedBy = rows[u].servedBy
       /\ rows'[u].continueFrom = rows[u].continueFrom
       /\ rows'[u].dependsOn = rows[u].dependsOn
       /\ rows'[u].retryOf = rows[u].retryOf
       /\ rows'[u].parentTaskId = rows[u].parentTaskId
       /\ rows'[u].retryCount = rows[u].retryCount

LEMMA EndedParts ==
  ASSUME TaskTypes, NEW t \in Tasks, HasRow(t), NEW s \in Terminal,
         rows' = [rows EXCEPT ![t].status = s]
  PROVE  /\ rows' \in [Tasks -> Row \cup {NoTask}]
         /\ \A u \in Tasks : RowStays(u)
<1>1. rows[t] \in Row
  BY DEF TaskTypes, HasRow
<1> DEFINE new == [rows[t] EXCEPT !.status = s]
<1>2. rows' = [rows EXCEPT ![t] = new]
  OBVIOUS
<1>3. /\ new \in Row /\ new.status = s
      /\ new.servedBy = rows[t].servedBy /\ new.continueFrom = rows[t].continueFrom
      /\ new.dependsOn = rows[t].dependsOn /\ new.retryOf = rows[t].retryOf
      /\ new.parentTaskId = rows[t].parentTaskId
      /\ new.retryCount = rows[t].retryCount
  BY <1>1 DEF Row
<1>4. new # NoTask
  BY <1>3
<1> HIDE DEF new
<1>5. rows' \in [Tasks -> Row \cup {NoTask}]
  BY <1>2, <1>3 DEF TaskTypes
<1>6. ASSUME NEW u \in Tasks
      PROVE  rows'[u] = IF u = t THEN new ELSE rows[u]
  BY <1>2 DEF TaskTypes
<1>7. QED
  BY <1>3, <1>4, <1>5, <1>6 DEF HasRow, RowStays

LEMMA StayingSeen ==
  ASSUME SeenInv, NEW c \in Calls, \A u \in Tasks : HasRow(u) => RowStays(u),
         call'[c] = call[c] \/ call'[c].step # "asked"
  PROVE  SeenSound(c)'
<1>1. call[c].seen \in Terminal => call[c].seen # "missing"
  BY DEF Terminal
<1>2. \A v : HasRow(v) => v \in Tasks
  BY DEF HasRow
<1>3. SeenSound(c)
  BY DEF SeenInv
<1>4. QED
  BY <1>1, <1>2, <1>3 DEF SeenSound, RowStays, HasRow

LEMMA StayingRow ==
  ASSUME RowInv, NEW t \in Tasks, HasRow(t),
         \A u \in Tasks : HasRow(u) => RowStays(u)
  PROVE  RowSound(t)'
<1>1. RowSound(t) /\ RowStays(t)
  BY DEF RowInv
<1>2. \A v : HasRow(v) => v \in Tasks
  BY DEF HasRow
<1>3. \A v : HasRow(v) => RowStays(v) /\ v \in Tasks /\ rows'[v] # NoTask
  BY <1>2 DEF RowStays, HasRow
<1>4. QED
  BY <1>1, <1>3 DEF RowSound, RowStays, HasRow

LEMMA RowsEnded ==
  ASSUME Inv, NEW t, NEW s \in Terminal, EmitTaskEnd(t, s),
         \A c \in Calls : call'[c] = call[c] \/ call'[c].step # "asked",
         UNCHANGED waitsFor
  PROVE  RowsInv'
<1>1. TaskTypes /\ SeenInv /\ RowInv
  BY DEF Inv
<1>2. rows' \in [Tasks -> Row \cup {NoTask}] /\ \A u \in Tasks : RowStays(u)
  <2>1. CASE UNCHANGED rows
    BY <1>1, <2>1 DEF TaskTypes, RowStays, HasRow
  <2>2. CASE HasRow(t) /\ rows' = [rows EXCEPT ![t].status = s]
    BY <1>1, <2>2, EndedParts DEF HasRow
  <2>3. QED
    BY <2>1, <2>2 DEF EmitTaskEnd
<1>3. TaskTypes'
  BY <1>1, <1>2 DEF TaskTypes
<1>4. \A c \in Calls : SeenSound(c)'
  BY <1>1, <1>2, StayingSeen
<1>5. \A u \in Tasks : HasRow(u)' => RowSound(u)'
  BY <1>1, <1>2, StayingRow DEF RowStays
<1>6. QED
  BY <1>3, <1>4, <1>5 DEF RowsInv, SeenInv, RowInv

(* A new row may refer to what is there, and to ended tasks. *)
NewRowSound(row) ==
  /\ row \in Row /\ Essential \subseteq row.servedBy
  /\ row.continueFrom # NoTask =>
       HasRow(row.continueFrom) /\ row.continueFrom \in row.dependsOn
  /\ row.retryOf = NoTask <=> row.parentTaskId = NoTask
  /\ row.retryOf # NoTask =>
       /\ HasRow(row.retryOf) /\ rows[row.retryOf].status \in Terminal
       /\ row.retryCount = rows[row.retryOf].retryCount + 1
       /\ HasRow(row.parentTaskId)
       /\ rows[row.parentTaskId].retryOf = NoTask

LEMMA RowsAdded ==
  ASSUME Inv, NEW c \in Calls, NEW row, EmitTaskDelegated(c, row),
         NewRowSound(row)
  PROVE  RowsInv'
<1>1. TaskTypes /\ SeenInv /\ RowInv /\ CallTypes
  BY DEF Inv
<1>2. /\ NewTask \in Tasks \ {OldTask} /\ ~HasRow(NewTask) /\ NewTask # NoTask
      /\ rows' \in {rows, [rows EXCEPT ![NewTask] = row]}
      /\ Finish(c, "ok") \/ Finish(c, "hangs")
      /\ waitsFor' \in {waitsFor, NewTask}
  BY DelegatedParts DEF WaitForTaskCompletion
<1>3. \A d \in Calls : call'[d] = call[d] \/ call'[d].step # "asked"
  BY <1>1, <1>2, FinishParts
<1>4. \A u \in Tasks \ {NewTask} : rows'[u] = rows[u]
  BY <1>1, <1>2 DEF TaskTypes
<1>5. \A u : HasRow(u) => RowStays(u) /\ u \in Tasks \ {NewTask}
  BY <1>2, <1>4 DEF RowStays, HasRow
<1>6. TaskTypes'
  BY <1>1, <1>2 DEF TaskTypes, NewRowSound
<1>7. \A d \in Calls : SeenSound(d)'
  BY <1>1, <1>3, <1>5, StayingSeen
<1>8. ASSUME NEW u \in Tasks, HasRow(u)' PROVE RowSound(u)'
  <2>1. CASE HasRow(u)
    BY <1>1, <1>5, <2>1, StayingRow
  <2>2. CASE ~HasRow(u)
    <3>1. u = NewTask /\ rows'[u] = row
      BY <1>1, <1>2, <1>4, <1>8, <2>2 DEF TaskTypes, HasRow
    <3>2. \A v : HasRow(v) => v \in Tasks /\ rows'[v] = rows[v] /\ rows'[v] # NoTask
      BY <1>4, <1>5 DEF HasRow
    <3>3. QED
      BY <3>1, <3>2 DEF NewRowSound, RowSound, HasRow
  <2>3. QED
    BY <2>1, <2>2
<1>9. QED
  BY <1>6, <1>7, <1>8 DEF RowsInv, SeenInv, RowInv

LEMMA EssentialListen ==
  ASSUME Inv, taskManager = "service", stage # "exited"
  PROVE  Essential \subseteq Listeners("TaskDelegated")
         /\ Listeners("TaskDelegated") \subseteq Owners
<1>1. setUp = 8 /\ Listening /\ ListenersInv
  BY DEF Inv, ListenersInv
<1>2. \A o \in Essential : <<o, "TaskDelegated">> \in subscriptions
  BY <1>1, SetupFacts DEF ListenersInv, Essential
<1>3. SubscriptionsAgree
  BY <1>1, ListeningAgrees
<1>4. Listeners("TaskDelegated") = {o \in Owners : <<o, "TaskDelegated">> \in subscriptions}
  BY <1>3, UserFacts DEF SubscriptionsAgree
<1>5. QED
  BY <1>2, <1>4, UserFacts

LEMMA PlainRow ==
  ASSUME Inv, taskManager = "service", stage # "exited",
         NEW from \in Tasks \cup {NoTask}, NEW deps \in SUBSET Tasks,
         from # NoTask => HasRow(from) /\ from \in deps
  PROVE  NewRowSound(NewRow(from, deps, NoTask))
  BY EssentialListen DEF NewRow, NewRowSound, Row

LEMMA RetryRow ==
  ASSUME Inv, taskManager = "service", stage # "exited",
         NEW t \in Tasks, HasRow(t), rows[t].status \in Terminal
  PROVE  NewRowSound(NewRow(NoTask, {}, t))
<1> DEFINE row == NewRow(NoTask, {}, t)
           root == IF rows[t].parentTaskId # NoTask THEN rows[t].parentTaskId ELSE t
<1>1. rows[t] \in Row /\ RowSound(t)
  BY DEF Inv, TaskTypes, RowInv, HasRow
<1>2. t # NoTask /\ Essential \subseteq Listeners("TaskDelegated")
      /\ Listeners("TaskDelegated") \subseteq Owners
  BY EssentialListen
<1>3. root \in Tasks /\ root # NoTask /\ HasRow(root) /\ rows[root].retryOf = NoTask
  BY <1>1, <1>2 DEF Row, RowSound
<1>4. rows[t].retryCount \in Nat
  BY <1>1 DEF Row
<1>5. /\ row.status = "queued" /\ row.servedBy = Listeners("TaskDelegated")
      /\ row.continueFrom = NoTask /\ row.dependsOn = {} /\ row.retryOf = t
      /\ row.parentTaskId = root /\ row.retryCount = rows[t].retryCount + 1
  BY <1>2 DEF NewRow
<1>6. row = [status |-> "queued", servedBy |-> Listeners("TaskDelegated"),
             continueFrom |-> NoTask, dependsOn |-> {}, retryOf |-> t,
             parentTaskId |-> root, retryCount |-> rows[t].retryCount + 1]
  BY <1>2 DEF NewRow
<1> HIDE DEF root
<1>7. row \in Row
  BY <1>2, <1>3, <1>4, <1>6 DEF Row
<1> HIDE DEF row
<1>8. NewRowSound(row)
  BY <1>2, <1>3, <1>5, <1>7 DEF NewRowSound
<1>9. QED
  BY <1>8 DEF row

LEMMA Delegating ==
  ASSUME Inv, NEW c \in Calls, DelegateTask(c) \/ Again(c) \/ DelegateContinue(c)
  PROVE  RowsInv'
<1>1. stage # "exited"
  BY DEF DelegateTask, MayCall, Sigint, Serves, Again, DelegateContinue, Answered
<1>2. taskManager = "service"
  BY DEF DelegateTask, Again, DelegateContinue, Answered, Inv, AskedInv
<1>3. CASE Finish(c, "failed") /\ UNCHANGED <<rows, cliVars>>
  BY <1>3, FinishParts, RowsKept DEF Inv, TaskTypes, cliVars
<1>4. CASE DelegateTask(c)
  BY <1>1, <1>2, <1>4, PlainRow, RowsAdded DEF DelegateTask
<1>5. SeenSound(c)
  BY DEF Inv, SeenInv
<1>6. CASE DelegateContinue(c)
  <2>1. CASE Found(c)
    <3>1. PICK deps \in {{}, {call[c].task}} :
            EmitTaskDelegated(c, NewRow(call[c].task, deps \cup {call[c].task}, NoTask))
      BY <1>6, <2>1 DEF DelegateContinue
    <3>2. call[c].task \in Tasks /\ HasRow(call[c].task)
      BY <1>5, <1>6, <2>1 DEF DelegateContinue, Answered, Found, SeenSound
    <3>3. QED
      BY <1>1, <1>2, <3>1, <3>2, PlainRow, RowsAdded
  <2>2. QED
    BY <1>3, <1>6, <2>1 DEF DelegateContinue, tables
<1>7. CASE Again(c)
  <2>1. CASE Found(c) /\ call[c].seen \in Terminal
    <3>1. EmitTaskDelegated(c, NewRow(NoTask, {}, call[c].task))
      BY <1>7, <2>1 DEF Again, TryAgain
    <3>2. /\ call[c].task \in Tasks /\ HasRow(call[c].task)
          /\ rows[call[c].task].status \in Terminal
      BY <1>5, <1>7, <2>1 DEF Again, Answered, Found, SeenSound
    <3>3. QED
      BY <1>1, <1>2, <3>1, <3>2, RetryRow, RowsAdded
  <2>2. QED
    BY <1>3, <1>7, <2>1 DEF Again, TryAgain, tables
<1>8. QED
  BY <1>4, <1>6, <1>7

LEMMA StepRows == Inv /\ [Next]_vars => RowsInv'
<1> SUFFICES ASSUME Inv, [Next]_vars PROVE RowsInv'
  OBVIOUS
<1>1. CASE UNCHANGED <<call, rows, waitsFor>>
  BY <1>1, RowsUnchanged
<1>2. CASE \/ SetUpStep \/ SetUpFails \/ Shutdown \/ ServerExits \/ Timers
           \/ DisposeEnds \/ UNCHANGED vars
  BY <1>1, <1>2 DEF SetUpStep, Bootstrap, SetUpNext, SetUpDone, SetUpFails,
                    Shutdown, ServerExits, Timers, DisposeEnds, vars, services,
                    tables, callVars, cliVars
<1>3. ASSUME NEW c \in Calls,
             CommandEnds(c) \/ DisposeContainer(c) \/ QueryAnswers(c)
      PROVE  RowsInv'
  BY <1>1, <1>3 DEF CommandEnds, DisposeContainer, QueryAnswers, services,
                    tables, callVars, cliVars
<1>4. ASSUME NEW c \in Calls, NEW res \in {"ok", "failed"}, Finish(c, res)
      PROVE  /\ call'[c].step # "asked"
             /\ \A d \in Calls \ {c} : call'[d] = call[d]
  BY <1>4, FinishParts DEF Inv
<1>5. ASSUME NEW c \in Calls, Telling(c) PROVE RowsInv'
  <2>1. \/ Finish(c, "ok") \/ Finish(c, "failed")
    BY <1>5 DEF Telling, Tell
  <2>2. UNCHANGED <<rows, waitsFor>>
    BY <1>5 DEF Telling, Tell, tables, cliVars
  <2>3. QED
    BY <1>4, <2>1, <2>2, RowsKept DEF Inv, TaskTypes
<1>6. ASSUME NEW c \in Calls, NEW op, NEW t, CallFails(c, op, t) PROVE RowsInv'
  <2>1. Finish(c, "failed") /\ UNCHANGED <<rows, waitsFor>>
    BY <1>6 DEF CallFails, tables, cliVars
  <2>2. QED
    BY <1>4, <2>1, RowsKept DEF Inv, TaskTypes
<1>7. ASSUME NEW c \in Calls, Cancel(c) PROVE RowsInv'
  <2>1. Finish(c, "ok") /\ UNCHANGED waitsFor
    BY <1>7 DEF Cancel
  <2>2. /\ call'[c].step # "asked"
        /\ \A d \in Calls \ {c} : call'[d] = call[d]
    BY <1>4, <2>1
  <2>3. CASE UNCHANGED rows
    BY <2>1, <2>2, <2>3, RowsKept DEF Inv, TaskTypes
  <2>4. CASE EmitTaskEnd(call[c].task, "failed")
    <3>1. "failed" \in Terminal
      BY DEF Terminal
    <3>2. QED
      BY <2>1, <2>2, <2>4, <3>1, RowsEnded
  <2>5. QED
    BY <1>7, <2>3, <2>4 DEF Cancel, tables
<1>8. ASSUME NEW t \in Tasks, NEW s \in Terminal, TaskEnds(t, s) PROVE RowsInv'
  BY <1>8, RowsEnded DEF TaskEnds, callVars
<1>9. QED
  BY <1>2, <1>3, <1>5, <1>6, <1>7, <1>8, RowsSeen, Delegating, NextCases

-----------------------------------------------------------------------------
(* The table of dependencies, and the tasks out of the queue. *)

LEMMA DelegatedTables ==
  ASSUME TableTypes, NEW c \in Calls, NEW row, row.dependsOn \subseteq Tasks,
         EmitTaskDelegated(c, row)
  PROVE  TableTypes'
<1>1. /\ pending' \in {pending, [pending EXCEPT ![NewTask] = row.dependsOn]}
      /\ UNCHANGED dropped
  BY DelegatedParts
<1>2. QED
  BY <1>1 DEF TableTypes

LEMMA StepTables == Inv /\ [Next]_vars => TableTypes'
<1> SUFFICES ASSUME Inv, [Next]_vars PROVE TableTypes'
  OBVIOUS
<1>1. TableTypes /\ SeenInv
  BY DEF Inv
<1>2. CASE UNCHANGED tables
  BY <1>1, <1>2 DEF TableTypes, tables
<1>3. CASE \/ SetUpStep \/ SetUpFails \/ Shutdown \/ ServerExits \/ Timers
           \/ DisposeEnds \/ UNCHANGED vars
  BY <1>2, <1>3 DEF SetUpStep, Bootstrap, SetUpNext, SetUpDone, SetUpFails,
                    Shutdown, ServerExits, Timers, DisposeEnds, vars
<1>4. ASSUME NEW c \in Calls,
             CommandEnds(c) \/ DisposeContainer(c) \/ QueryAnswers(c) \/ Telling(c)
      PROVE  TableTypes'
  BY <1>2, <1>4 DEF CommandEnds, DisposeContainer, QueryAnswers, Telling, Tell
<1>5. ASSUME NEW c, NEW op, NEW t, CallFails(c, op, t) PROVE TableTypes'
  BY <1>2, <1>5 DEF CallFails
<1>6. ASSUME NEW c \in Calls, Asking(c) PROVE TableTypes'
  <2>1. PICK op, t : TakeFromQueue(op, t) /\ UNCHANGED pending
    BY <1>6 DEF Asking, StartCall
  <2>2. QED
    BY <1>1, <2>1 DEF TableTypes, TakeFromQueue, HasRow
<1>7. ASSUME NEW t, NEW s, EmitTaskEnd(t, s) PROVE TableTypes'
  BY <1>1, <1>7 DEF TableTypes, EmitTaskEnd
<1>8. ASSUME NEW c \in Calls, Cancel(c) PROVE TableTypes'
  BY <1>2, <1>7, <1>8 DEF Cancel
<1>9. ASSUME NEW t, NEW s, TaskEnds(t, s) PROVE TableTypes'
  BY <1>7, <1>9 DEF TaskEnds
<1>10. ASSUME NEW c \in Calls, DelegateTask(c) \/ Again(c) PROVE TableTypes'
  <2>1. \A t : NewRow(NoTask, {}, t).dependsOn \subseteq Tasks
    BY DEF NewRow
  <2>2. \/ \E t : EmitTaskDelegated(c, NewRow(NoTask, {}, t))
        \/ UNCHANGED tables
    BY <1>10 DEF DelegateTask, Again, TryAgain
  <2>3. QED
    BY <1>1, <1>2, <2>1, <2>2, DelegatedTables
<1>11. ASSUME NEW c \in Calls, DelegateContinue(c) PROVE TableTypes'
  <2> DEFINE from == call[c].task
  <2>1. CASE Found(c)
    <3>1. from \in Tasks
      BY <1>1, <1>11 DEF DelegateContinue, Answered, SeenInv, SeenSound
    <3>2. PICK deps \in {{}, {from}} :
            EmitTaskDelegated(c, NewRow(from, deps \cup {from}, NoTask))
      BY <1>11, <2>1 DEF DelegateContinue
    <3>3. NewRow(from, deps \cup {from}, NoTask).dependsOn = {from}
      BY DEF NewRow
    <3>4. QED
      BY <1>1, <3>1, <3>2, <3>3, DelegatedTables
  <2>2. QED
    BY <1>2, <1>11, <2>1 DEF DelegateContinue
<1>12. QED
  BY <1>3, <1>4, <1>5, <1>6, <1>8, <1>9, <1>10, <1>11, NextCases

-----------------------------------------------------------------------------
(* The rest of the state. *)

LEMMA StepState == Inv /\ [Next]_vars => StateTypes' /\ AskedInv'
<1> SUFFICES ASSUME Inv, [Next]_vars PROVE StateTypes' /\ AskedInv'
  OBVIOUS
<1>1. StateTypes /\ AskedInv /\ CallTypes /\ setUp \in 0..8
      /\ (taskManager = "service" => setUp = 8)
  BY DEF Inv, StateTypes, ListenersInv
<1>2. ASSUME \A c \in Calls : call'[c] = call[c] \/ call'[c].step # "asked",
             taskManager = "service" => taskManager' = "service"
      PROVE  AskedInv'
  BY <1>1, <1>2 DEF AskedInv
<1>3. CASE SetUpStep \/ SetUpFails
  BY <1>1, <1>2, <1>3, SetupFacts
     DEF SetUpStep, Bootstrap, SetUpNext, SetUpDone, SetUpFails, StateTypes,
         callVars, cliVars
<1>4. CASE \/ Shutdown \/ ServerExits \/ Timers \/ DisposeEnds \/ UNCHANGED vars
  BY <1>1, <1>2, <1>4
     DEF Shutdown, ServerExits, Timers, DisposeEnds, StateTypes, vars, services,
         callVars, cliVars
<1>5. ASSUME NEW c \in Calls, CommandEnds(c) \/ DisposeContainer(c) \/ QueryAnswers(c)
      PROVE  StateTypes' /\ AskedInv'
  BY <1>1, <1>2, <1>5
     DEF CommandEnds, DisposeContainer, QueryAnswers, ResultCode, StateTypes,
         services, callVars, cliVars
<1>6. ASSUME NEW t, NEW s, TaskEnds(t, s) PROVE StateTypes' /\ AskedInv'
  BY <1>1, <1>2, <1>6 DEF TaskEnds, EmitTaskEnd, StateTypes, services, callVars
<1>7. ASSUME NEW c \in Calls, Asking(c) PROVE StateTypes' /\ AskedInv'
  <2>1. PICK op \in Operations, t \in Tasks \cup {NoTask} : StartCall(c, op, t)
    BY <1>7 DEF Asking
  <2>2. StateTypes'
    BY <1>1, <2>1 DEF StartCall, Ask, StateTypes, services
  <2>3. taskManager = "service" /\ UNCHANGED taskManager
    BY <2>1 DEF StartCall, services
  <2>4. QED
    BY <2>2, <2>3 DEF AskedInv
<1>8. ASSUME NEW c \in Calls, NEW res \in {"ok", "failed", "hangs"},
             Finish(c, res), UNCHANGED <<services, serving>>,
             exitCode' \in {-1, 0, 1, 130}
      PROVE  StateTypes' /\ AskedInv'
  <2>1. \A d \in Calls : call'[d] = call[d] \/ call'[d].step # "asked"
    BY <1>1, <1>8, FinishParts
  <2>2. QED
    BY <1>1, <1>2, <1>8, <2>1 DEF StateTypes, services
<1>9. ASSUME NEW c \in Calls, Telling(c) \/ Cancel(c)
      PROVE  StateTypes' /\ AskedInv'
  <2>1. \/ Finish(c, "ok") \/ Finish(c, "failed")
    BY <1>9 DEF Telling, Tell, Cancel
  <2>2. UNCHANGED <<services, serving>> /\ exitCode' \in {-1, 0, 1, 130}
    BY <1>1, <1>9 DEF Telling, Tell, Cancel, EmitTaskEnd, StateTypes, cliVars
  <2>3. QED
    BY <1>8, <2>1, <2>2
<1>10. ASSUME NEW c \in Calls, NEW op, NEW t, CallFails(c, op, t)
       PROVE  StateTypes' /\ AskedInv'
  <2>1. Finish(c, "failed") /\ UNCHANGED <<services, serving, exitCode>>
    BY <1>10 DEF CallFails, cliVars
  <2>2. QED
    BY <1>1, <1>8, <2>1 DEF StateTypes
<1>11. ASSUME NEW c \in Calls, DelegateTask(c) \/ Again(c) \/ DelegateContinue(c)
       PROVE  StateTypes' /\ AskedInv'
  <2>1. UNCHANGED <<services, serving>>
    BY <1>11 DEF DelegateTask, Again, TryAgain, DelegateContinue
  <2>2. \/ \E row : EmitTaskDelegated(c, row)
        \/ Finish(c, "failed") /\ UNCHANGED cliVars
    BY <1>11 DEF DelegateTask, Again, TryAgain, DelegateContinue
  <2>3. /\ UNCHANGED exitCode
        /\ \E res \in {"ok", "failed", "hangs"} : Finish(c, res)
    BY <2>2, DelegatedParts DEF cliVars
  <2>4. QED
    BY <1>1, <1>8, <2>1, <2>3 DEF StateTypes
<1>12. QED
  BY <1>3, <1>4, <1>5, <1>6, <1>7, <1>9, <1>10, <1>11, NextCases

-----------------------------------------------------------------------------
(* The theorems. *)

LEMMA InvStep == Inv /\ [Next]_vars => Inv'
  BY StepPending, StepListening, StepCommand, StepRows, StepTables,
     StepState
     DEF Inv, RowsInv

LEMMA InvAlways == Spec => []Inv
  BY InvInit, InvStep, PTL DEF Spec

(* Every variable keeps its type; in particular no timer of the bus is ever *)
(* passed over, so no request grows older than the timeout.                 *)
THEOREM TypeCorrect == Spec => []TypeOK
  BY InvAlways, InvTypes, PTL

(* If cleaning is not more frequent than requests time out, the two tables  *)
(* of the bus agree, through any set-up, failure, wait and disposal, and a  *)
(* request is in its table exactly while its caller waits and its timer     *)
(* runs (event-bus.ts).                                                     *)
THEOREM BusStaysConsistent == CleaningIsLate => (Spec => []BusConsistent)
<1>1. CleaningIsLate /\ Inv => BusConsistent
  BY ListeningAgrees DEF Inv, PendingInv, BusConsistent, PendingAgrees
<1>2. SUFFICES ASSUME CleaningIsLate PROVE Spec => []BusConsistent
  OBVIOUS
<1>3. Inv => BusConsistent
  BY <1>1, <1>2
<1>4. QED
  BY <1>3, InvAlways, PTL

(* However late the answers are on which delegate, retry and resume decide, *)
(* and however the set-up has gone, a task is created only under handlers   *)
(* that save and guard it, and builds only on tasks that are there and, for *)
(* a retry, have ended (task-manager.ts).                                   *)
THEOREM CallsAccepted == Spec => []AcceptedCalls
<1>1. RowInv => AcceptedCalls
  BY DEF RowInv, RowSound, AcceptedCalls, StatusOf, HasRow
<1>2. QED
  BY <1>1, InvAlways, PTL DEF Inv

(* Every step of a process is for each request one of RequestReply, or      *)
(* none: a request that is settled stays as it is, whichever of answer,     *)
(* error, timeout and cleaning come after (event-bus.ts respond).           *)
THEOREM SettledOnce == Spec => Replies!Init /\ [][Replies!Next]_outcome
<1>1. Init => Replies!Init
  BY DEF Init, BusInit, Replies!Init
<1>2. Inv /\ [Next]_vars => [Replies!Next]_outcome
  BY StepPending
<1>3. QED
  BY <1>1, <1>2, InvAlways, PTL DEF Spec
=============================================================================
