---------------------------- MODULE LeasedServer ----------------------------
(***************************************************************************)
(* What a model server promises to whoever leases it, without the callers, *)
(* their polls and deadlines: leases are only given on a server that has   *)
(* answered and has a model on record, and a server that is alive is only  *)
(* given another model while nobody holds a lease, its last load is not    *)
(* kept for whom it was made, and no load goes on that is in time.  It may *)
(* be stopped and die whenever, and then its leases protect nothing.       *)
(***************************************************************************)
CONSTANTS
    Holder,  \* whoever may hold leases
    Plan,    \* what the server may be told to load
    NoPlan

VARIABLES
    child,   \* the process: none, loading, healthy or dead
    plan,    \* what is on record as its model
    state,   \* on record: "loading", "ready" or "idle", which is neither
    fresh,   \* the load on record is in time
    claim,   \* a load that was finished is kept for whom it was made
    holders  \* of leases on this server

vars == <<child, plan, state, fresh, claim, holders>>

Init ==
    /\ child = "none" /\ plan = NoPlan /\ state = "idle"
    /\ fresh = FALSE /\ claim = FALSE /\ holders = {}

Alive == child \in {"loading", "healthy"}

Protected ==
    holders # {} \/ claim \/ (state = "loading" /\ (fresh \/ child = "healthy"))

Load(p) ==
    /\ Alive => ~Protected
    /\ child' = "loading" /\ plan' = p /\ state' = "loading"
    /\ fresh' = TRUE /\ claim' = FALSE /\ holders' = {}

\* A load that could not be started may stay on record.
Stop ==
    /\ child' = "none" /\ plan' = NoPlan /\ state' \in {"idle", "loading"}
    /\ fresh' = FALSE /\ claim' = FALSE /\ holders' = {}

\* Somebody finds that the load is over, and may not be whom it was made for.
Notice ==
    /\ child = "healthy" /\ state # "ready"
    /\ state' = "ready" /\ fresh' = FALSE /\ claim' = (claim \/ holders = {})
    /\ UNCHANGED <<child, plan, holders>>

\* Perhaps given back at once.
Lease(h) ==
    /\ child = "healthy" /\ plan # NoPlan
    /\ state' = "ready" /\ fresh' \in {FALSE, fresh} /\ claim' = FALSE
    /\ holders' \in {holders, holders \cup {h}}
    /\ UNCHANGED <<child, plan>>

Drop(h) ==
    /\ h \in holders /\ holders' = holders \ {h}
    /\ UNCHANGED <<child, plan, state, fresh, claim>>

\* A server without a model is started over one that is gone, or fails to, or
\* it is only found that it is gone.  What else is on record stays.
Start ==
    /\ ~Alive /\ child' \in {child, "loading", "healthy", "dead"}
    /\ state' \in {"idle", "ready"} /\ (state' = "ready" => child' = "healthy")
    /\ UNCHANGED <<plan, fresh, claim, holders>>

BecomeHealthy ==
    /\ child = "loading" /\ child' = "healthy"
    /\ UNCHANGED <<plan, state, fresh, claim, holders>>

Die ==
    /\ Alive /\ child' = "dead"
    /\ UNCHANGED <<plan, state, fresh, claim, holders>>

Age ==
    /\ \/ fresh /\ fresh' = FALSE /\ UNCHANGED claim
       \/ claim /\ claim' = FALSE /\ UNCHANGED fresh
    /\ UNCHANGED <<child, plan, state, holders>>

Next ==
    \/ \E p \in Plan : Load(p)
    \/ \E h \in Holder : Lease(h) \/ Drop(h)
    \/ Stop \/ Notice \/ Start \/ BecomeHealthy \/ Die \/ Age

Spec == Init /\ [][Next]_vars
=============================================================================
