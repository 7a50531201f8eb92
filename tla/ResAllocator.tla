---------------------------- MODULE ResAllocator ----------------------------
(***************************************************************************)
(* What a resource pool of the gateway promises its callers, whatever its  *)
(* threads and queues do: an accepted request runs at most once, on one    *)
(* resource that runs nothing else meanwhile; it is given up only after a  *)
(* stop; a resource that could not be rebuilt never comes back.  ResPool   *)
(* implements this specification.                                          *)
(***************************************************************************)
CONSTANTS Resources, AllRequests, Free, Gone

VARIABLES alloc,    \* resource -> the request running on it, Free or Gone
          phase,    \* request -> its phase
          stopped   \* has the pool been told to stop?

avars == <<alloc, phase, stopped>>

Phases == {"outside", "waiting", "running", "ended", "refused", "dropped"}

AInit ==
  /\ alloc = [r \in Resources |-> Free]
  /\ phase = [q \in AllRequests |-> "outside"]
  /\ stopped = FALSE

Becomes(q, p) == phase' = [phase EXCEPT ![q] = p]

Accept(q) ==
  /\ phase[q] = "outside"
  /\ Becomes(q, "waiting")
  /\ UNCHANGED <<alloc, stopped>>

Refuse(q) ==
  /\ phase[q] = "outside"
  /\ Becomes(q, "refused")
  /\ UNCHANGED <<alloc, stopped>>

Start(q, r) ==
  /\ phase[q] = "waiting"
  /\ alloc[r] = Free
  /\ Becomes(q, "running")
  /\ alloc' = [alloc EXCEPT ![r] = q]
  /\ UNCHANGED stopped

End(q, r, left) ==
  /\ alloc[r] = q
  /\ phase[q] = "running"
  /\ Becomes(q, "ended")
  /\ alloc' = [alloc EXCEPT ![r] = left]
  /\ UNCHANGED stopped

\* The start of a request fails: the request ends without having run.
Fail(q) ==
  /\ phase[q] = "waiting"
  /\ Becomes(q, "ended")
  /\ UNCHANGED <<alloc, stopped>>

Drop(q) ==
  /\ stopped
  /\ phase[q] = "waiting"
  /\ Becomes(q, "dropped")
  /\ UNCHANGED <<alloc, stopped>>

Lose(r) ==
  /\ alloc[r] = Free
  /\ alloc' = [alloc EXCEPT ![r] = Gone]
  /\ UNCHANGED <<phase, stopped>>

Stop ==
  /\ stopped' = TRUE
  /\ UNCHANGED <<alloc, phase>>

ANext ==
  \/ \E q \in AllRequests : Accept(q) \/ Refuse(q) \/ Fail(q) \/ Drop(q)
  \/ \E q \in AllRequests, r \in Resources :
       Start(q, r) \/ End(q, r, Free) \/ End(q, r, Gone)
  \/ \E r \in Resources : Lose(r)
  \/ Stop

ASpec == AInit /\ [][ANext]_avars
=============================================================================
