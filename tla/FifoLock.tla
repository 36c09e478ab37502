------------------------------ MODULE FifoLock ------------------------------
(***************************************************************************)
(* What the spawn lock promises: clients stand in one line, in the order   *)
(* in which they asked, and only the client at the front may be inside.    *)
(* A client inside leaves before the next one enters.  WorkerSpawning      *)
(* shows that the chain of promises in WorkerHandler implements it.        *)
(***************************************************************************)
EXTENDS Naturals, Sequences

CONSTANT Clients

VARIABLES
  line,    \* the clients waiting or inside, in order of arrival
  inside   \* the clients inside the critical section

InLine(c) == \E i \in DOMAIN line : line[i] = c

Init ==
  /\ line = << >>
  /\ inside = {}

Arrive(c) ==
  /\ ~ InLine(c)
  /\ line' = Append(line, c)
  /\ UNCHANGED inside

Enter ==
  /\ line # << >>
  /\ inside = {}
  /\ inside' = {Head(line)}
  /\ UNCHANGED line

Leave ==
  /\ line # << >>
  /\ inside = {Head(line)}
  /\ line' = Tail(line)
  /\ inside' = {}

Next == Enter \/ Leave \/ \E c \in Clients : Arrive(c)

Spec == Init /\ [][Next]_<<line, inside>>
=============================================================================
