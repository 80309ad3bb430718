------------------------------- MODULE WorldLease -------------------------------
(***************************************************************************)
(* What the world pool promises to the scenario loop, and nothing of how:  *)
(* a world is held by at most one client, a client is only given a clean   *)
(* world, and a world is made clean again only while nobody holds it.      *)
(***************************************************************************)
CONSTANTS Worlds, Clients, NoWorld

VARIABLES held,   \* the world each client holds, or NoWorld
          clean   \* the worlds nobody has used since they were last restored

vars == <<held, clean>>

Free(w) == \A c \in Clients : held[c] # w

Init == /\ held = [c \in Clients |-> NoWorld]
        /\ clean = Worlds

Acquire(c, w) == /\ held[c] = NoWorld /\ Free(w) /\ w \in clean
                 /\ held' = [held EXCEPT ![c] = w]
                 /\ UNCHANGED clean

Use(c) == /\ held[c] # NoWorld
          /\ clean' = clean \ {held[c]}
          /\ UNCHANGED held

GiveBack(c) == /\ held[c] # NoWorld
               /\ held' = [held EXCEPT ![c] = NoWorld]
               /\ UNCHANGED clean

Restore(w) == /\ Free(w)
              /\ clean' = clean \cup {w}
              /\ UNCHANGED held

Next == \/ \E c \in Clients : Use(c) \/ GiveBack(c)
        \/ \E w \in Worlds : Restore(w) \/ \E c \in Clients : Acquire(c, w)

Spec == Init /\ [][Next]_vars
================================================================================
