------------------------------ MODULE EventBus ------------------------------
(***************************************************************************)
(* InMemoryEventBus: who listens to what, and the requests that wait for   *)
(* an answer.  The module has the bus's state and operations; Services has *)
(* the components that use it and the specification.                       *)
(*                                                                         *)
(* A component subscribes to an event at most once, each time with a       *)
(* function of its own, so the pair <<component, event>> stands for the    *)
(* subscription id and for the function.  Functions for all events         *)
(* (subscribeAll) are registered by nobody and left out.                   *)
(*                                                                         *)
(* The limit of subscriptions is left out too: the configuration allows no  *)
(* fewer than 100, and a process makes fewer than 50.                      *)
(*                                                                         *)
(* A handler is any asynchronous function, as the interfaces allow: it may *)
(* answer at once, late or never.                                          *)
(***************************************************************************)
EXTENDS Integers, FiniteSets, SequencesExt

CONSTANTS
  Owners,                 \* the components that subscribe
  Events,
  Requests,               \* correlation ids
  RequestTimeout,         \* eventRequestTimeoutMs
  MaxRequestAge           \* eventCleanupIntervalMs

ASSUME BusAssumption == RequestTimeout \in Nat \ {0} /\ MaxRequestAge \in Nat \ {0}

VARIABLES
  handlers,         \* handlers[e]: who is called on event e, in this order
  subscriptions,
  pendingRequests,
  timers,           \* requests whose timeout is armed
  age,              \* age[r]: time since the pending request r was made
  outcome           \* outcome[r]: what the caller's promise holds

listening == <<handlers, subscriptions>>
requests == <<pendingRequests, timers, age, outcome>>
busVars == <<listening, requests>>

Listeners(e) == ToSet(handlers[e])

BusTypeOK ==
  /\ handlers \in [Events -> Seq(Owners)]
  /\ subscriptions \subseteq Owners \X Events
  /\ pendingRequests \subseteq Requests /\ timers \subseteq Requests
  /\ age \in [Requests -> 0..RequestTimeout]
  /\ outcome \in [Requests -> {"idle", "waiting", "value", "error", "dropped"}]

BusInit ==
  /\ handlers = [e \in Events |-> << >>] /\ subscriptions = {}
  /\ pendingRequests = {} /\ timers = {}
  /\ age = [r \in Requests |-> 0]
  /\ outcome = [r \in Requests |-> "idle"]

-----------------------------------------------------------------------------
(* subscribe and unsubscribe *)

(* The component o subscribes to the events es, one after the other. *)
Subscribe(o, es) ==
  /\ handlers' = [e \in Events |-> IF e \in es THEN Append(handlers[e], o)
                                   ELSE handlers[e]]
  /\ subscriptions' = subscriptions \cup ({o} \X es)

(* Mutant: the function stays in the list of the event. *)
UnsubscribeIdOnly(o) ==
  /\ subscriptions' = {s \in subscriptions : s[1] # o}
  /\ UNCHANGED handlers

(* o gives back every subscription it holds. *)
Unsubscribe(o) ==
  /\ handlers' = [e \in Events |-> IF <<o, e>> \in subscriptions
                                   THEN RemoveFirst(handlers[e], o)
                                   ELSE handlers[e]]
  /\ subscriptions' = {s \in subscriptions : s[1] # o}

-----------------------------------------------------------------------------
(* request, respond, respondError *)

(* Whatever is written first is what the caller gets. *)
SettleRequest(r, o) ==
  /\ pendingRequests' = pendingRequests \ {r}
  /\ timers' = timers \ {r}
  /\ outcome' = [outcome EXCEPT ![r] = o]
  /\ age' = [age EXCEPT ![r] = 0]

(* The request is stored and its timer armed before the first handler is    *)
(* called; without a handler it is rejected on the spot.                    *)
Request(r, e) ==
  /\ outcome[r] = "idle"
  /\ IF handlers[e] = << >> THEN SettleRequest(r, "error")
     ELSE /\ pendingRequests' = pendingRequests \cup {r}
          /\ timers' = timers \cup {r}
          /\ outcome' = [outcome EXCEPT ![r] = "waiting"]
          /\ UNCHANGED age

(* Mutant: a late answer overwrites the earlier one. *)
RespondAlways(r, o) == SettleRequest(r, o)

(* An answer to a request that is no longer pending is ignored. *)
Respond(r, o) ==
  IF r \in pendingRequests THEN SettleRequest(r, o) ELSE UNCHANGED requests

TimeoutFires(r) ==
  /\ r \in timers /\ age[r] = RequestTimeout
  /\ IF r \in pendingRequests THEN SettleRequest(r, "error")
     ELSE timers' = timers \ {r} /\ UNCHANGED <<pendingRequests, age, outcome>>
  /\ UNCHANGED listening

(* An overdue request is dropped, not settled.  The interval between two    *)
(* cleanings is not modelled: they may come at any time.                    *)
CleanupStaleRequests ==
  /\ LET stale == {r \in pendingRequests : age[r] > MaxRequestAge}
     IN /\ pendingRequests' = pendingRequests \ stale
        /\ timers' = timers \ stale
        /\ age' = [r \in Requests |-> IF r \in stale THEN 0 ELSE age[r]]
  /\ UNCHANGED <<outcome, listening>>

(* Mutant: the timer of a request can be passed over. *)
TickPastTimers ==
  /\ age' = [r \in Requests |-> IF r \in pendingRequests THEN age[r] + 1 ELSE age[r]]
  /\ UNCHANGED <<listening, pendingRequests, timers, outcome>>

(* Timers run in the order in which they are due. *)
Tick ==
  /\ \A r \in timers : age[r] < RequestTimeout
  /\ age' = [r \in Requests |-> IF r \in pendingRequests THEN age[r] + 1 ELSE age[r]]
  /\ UNCHANGED <<listening, pendingRequests, timers, outcome>>

(* The promises of a bus that is gone are never settled. *)
DropRequests ==
  /\ pendingRequests' = {} /\ timers' = {}
  /\ outcome' = [r \in Requests |-> IF outcome[r] = "waiting" THEN "dropped"
                                    ELSE outcome[r]]
  /\ age' = [r \in Requests |-> 0]

(* dispose *)
DisposeBus ==
  /\ DropRequests
  /\ handlers' = [e \in Events |-> << >>]
  /\ subscriptions' = {}

-----------------------------------------------------------------------------
(* The functions called on an event are those of its subscriptions, each    *)
(* once: nobody is called after unsubscribing, nobody subscribed is passed  *)
(* over, through set-up, stopped executors and command lines that come and  *)
(* go (event-bus.ts subscribe, unsubscribe, dispose).                       *)
SubscriptionsAgree ==
  \A e \in Events :
    /\ Listeners(e) = {o \in Owners : <<o, e>> \in subscriptions}
    /\ Len(handlers[e]) = Cardinality(Listeners(e))

(* A request is in the map exactly while its caller waits and its timer     *)
(* runs, whichever of answer, error, timeout and cleaning comes first       *)
(* (event-bus.ts request).                                                  *)
PendingAgrees ==
  \A r \in Requests :
    /\ r \in pendingRequests <=> outcome[r] = "waiting"
    /\ r \in timers <=> r \in pendingRequests
=============================================================================
