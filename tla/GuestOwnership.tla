--------------------------- MODULE GuestOwnership ---------------------------
(***************************************************************************)
(* What a cluster promises about the guests the platform makes on it: a    *)
(* guest has one owner at a time, it is destroyed once and never comes     *)
(* back, and nobody destroys it while it serves an instance or waits in    *)
(* the warm pool.  Guests.tla is shown to implement it.                    *)
(***************************************************************************)
EXTENDS Naturals

CONSTANTS GuestIds, InstanceIds, Nobody, Pool, Unmade, Destroyed

VARIABLES
    owner,    \* of each guest
    serving   \* the instances their customers may use

vars == <<owner, serving>>

Owners == InstanceIds \cup {Nobody, Pool, Unmade, Destroyed}

TypeOK ==
    /\ owner \in [GuestIds -> Owners]
    /\ serving \subseteq InstanceIds

Init ==
    /\ owner = [g \in GuestIds |-> Unmade]
    /\ serving = {}

OwnerBecomes(g, o) == owner' = [owner EXCEPT ![g] = o] /\ UNCHANGED serving

Make(g) == owner[g] = Unmade /\ OwnerBecomes(g, Nobody)

Adopt(g) == owner[g] = Nobody /\ OwnerBecomes(g, Pool)

\* What becomes an instance's guest was nobody's or the pool's.
Take(g, i) ==
    /\ owner[g] \in {Nobody, Pool}
    /\ i \notin serving
    /\ owner' = [h \in GuestIds |->
            IF h = g THEN i ELSE IF owner[h] = i THEN Nobody ELSE owner[h]]
    /\ UNCHANGED serving

\* A record is lost or given up; the guest runs on.
Lose(g) ==
    /\ owner[g] \in InstanceIds \cup {Pool}
    /\ owner[g] \notin serving
    /\ OwnerBecomes(g, Nobody)

Destroy(g) ==
    /\ owner[g] \in InstanceIds \cup {Nobody}
    /\ owner[g] \notin serving
    /\ OwnerBecomes(g, Destroyed)

Serve(i) ==
    /\ \E g \in GuestIds : owner[g] = i
    /\ serving' = serving \cup {i}
    /\ UNCHANGED owner

Release(i) ==
    /\ i \in serving
    /\ serving' = serving \ {i}
    /\ UNCHANGED owner

Next ==
    \/ \E g \in GuestIds : Make(g) \/ Adopt(g) \/ Lose(g) \/ Destroy(g)
    \/ \E i \in InstanceIds : Serve(i) \/ Release(i) \/ \E g \in GuestIds : Take(g, i)

Spec == Init /\ [][Next]_vars

\* A serving instance has one guest, and keeps it while it serves.
ServedByOneGuest ==
    \A i \in serving : \E g \in GuestIds :
        /\ owner[g] = i
        /\ \A h \in GuestIds : owner[h] = i => h = g
=============================================================================
