------------------------------- MODULE PollSet -------------------------------
(***************************************************************************)
(* What the poll table promises the gateway: each client socket is polled, *)
(* or in the hands of the gateway, or forgotten, never two of these; one   *)
(* is forgotten only when Capacity others are polled.  PollTable           *)
(* implements this specification.                                          *)
(***************************************************************************)
EXTENDS Naturals, FiniteSets

CONSTANTS Fds, Capacity

VARIABLES watched,    \* sockets that are polled
          held,       \* sockets reported readable and not polled again yet
          forgotten   \* sockets that nobody polls, handles or closes any more

pvars == <<watched, held, forgotten>>

PInit == watched = {} /\ held = {} /\ forgotten = {}

Accept(f) ==
  /\ f \notin watched \cup held \cup forgotten
  /\ watched' = watched \cup {f}
  /\ UNCHANGED <<held, forgotten>>

Report(f) ==
  /\ f \in watched
  /\ watched' = watched \ {f}
  /\ held' = held \cup {f}
  /\ UNCHANGED forgotten

\* A disconnected socket is reported and closed.
Disconnect(f) ==
  /\ f \in watched
  /\ watched' = watched \ {f}
  /\ UNCHANGED <<held, forgotten>>

Return(f) ==
  /\ f \in held
  /\ watched' = watched \cup {f}
  /\ held' = held \ {f}
  /\ UNCHANGED forgotten

Close(f) ==
  /\ f \in held
  /\ held' = held \ {f}
  /\ UNCHANGED <<watched, forgotten>>

\* The connection goes on under the number of a duplicate.
Move(f, g) ==
  /\ f \in held /\ g \notin watched \cup held \cup forgotten
  /\ held' = (held \ {f}) \cup {g}
  /\ UNCHANGED <<watched, forgotten>>

Forget(lost) ==
  /\ lost \subseteq held
  /\ Cardinality(watched) >= Capacity
  /\ held' = held \ lost
  /\ forgotten' = forgotten \cup lost
  /\ UNCHANGED watched

PNext ==
  \/ \E f \in Fds : Accept(f) \/ Report(f) \/ Disconnect(f) \/ Return(f) \/ Close(f)
  \/ \E f, g \in Fds : Move(f, g)
  \/ \E lost \in SUBSET Fds : Forget(lost)

PSpec == PInit /\ [][PNext]_pvars
=============================================================================
