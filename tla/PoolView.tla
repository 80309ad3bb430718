-------------------------------- MODULE PoolView --------------------------------
(***************************************************************************)
(* The world pool as the scenario loop meets it: who has each world, and   *)
(* whether the pool is recovering the ones that are down.  WorldPool       *)
(* implements this module, and HostedScheduler is written against it.      *)
(***************************************************************************)
CONSTANTS Worlds, Users

VARIABLES
  started,    \* start() has run
  holder,     \* the user that has each world, "free" or "down"
  recovering  \* a reconcile task runs, or a demotion waits for one

vars == <<started, holder, recovering>>

Becomes(w, h) == holder' = [holder EXCEPT ![w] = h]

Init == started = FALSE /\ holder = [w \in Worlds |-> "down"] /\ recovering = FALSE

\* What start() got: a world may be down from the first.
Start == /\ ~started /\ started' = TRUE
         /\ holder' \in [Worlds -> {"free", "down"}]
         /\ UNCHANGED recovering

--------------------------------------------------------------------------------
(* What the pool does. *)

\* lease() returns a world to a user that has none.
Grant(u, w) == /\ holder[w] = "free" /\ \A v \in Worlds : holder[v] # u
               /\ Becomes(w, u)
               /\ UNCHANGED <<started, recovering>>

\* lease() found the world unfit: it is never down without a recovery on its way.
Lose(w) == /\ holder[w] = "free" /\ Becomes(w, "down")
           /\ recovering' = TRUE /\ UNCHANGED started

\* A demotion creates its task although another pass has answered it already.
Reschedule == recovering' = TRUE /\ UNCHANGED <<started, holder>>

\* A pass brings worlds back: only while it runs, and only worlds nobody has.
Restore == /\ recovering
           /\ \E back \in SUBSET {w \in Worlds : holder[w] = "down"} :
                holder' = [w \in Worlds |-> IF w \in back THEN "free" ELSE holder[w]]
           /\ UNCHANGED <<started, recovering>>

Recovered == recovering /\ recovering' = FALSE /\ UNCHANGED <<started, holder>>

--------------------------------------------------------------------------------
(* What its users do: each gives back the world it has, sound or not. *)

Return(u, w) == /\ holder[w] = u /\ Becomes(w, "free")
                /\ UNCHANGED <<started, recovering>>

Discard(u, w) == /\ holder[w] = u /\ Becomes(w, "down")
                 /\ recovering' = TRUE /\ UNCHANGED started

Next == \/ Start \/ Reschedule \/ Restore \/ Recovered
        \/ \E w \in Worlds : \/ Lose(w)
                             \/ \E u \in Users : Grant(u, w) \/ Return(u, w) \/ Discard(u, w)

Spec == Init /\ [][Next]_vars
================================================================================
