----------------------------- MODULE Visibility -----------------------------
(***************************************************************************)
(* What the server promises the clients about sight, without sessions'     *)
(* viewer sets, monitor sets, groups or search: a client that entered is   *)
(* told at every moment of exactly the entities less than VisibleRange     *)
(* away from its own and of its own, and every step sends it exactly the   *)
(* notices that make the difference - one per entity that came into range, *)
(* one per entity that left it, none besides.                              *)
(***************************************************************************)
EXTENDS Geometry, FiniteSets

CONSTANTS Clients, Points, Spawn, VisibleRange

VARIABLES
  place,     \* position of every entity, by id; ids count up from 1
  avatar,    \* the entity of every client that entered
  told,      \* entities every client has been told of and not told away
  notices    \* what the last step told: <<client, kind, entity>>

vars == <<place, avatar, told, notices>>

\* What client c should know of with these places and avatars.
Area(c, p, a) ==
  IF c \notin DOMAIN a THEN {}
  ELSE {a[c]} \union {e \in DOMAIN p : Within(p[e], p[a[c]], VisibleRange)}

\* The notices that take every client from `before` to `after`.
Difference(before, after, a) ==
  UNION {{<<c, IF e = a[c] THEN "SPAWN_ENTITY" ELSE "APPEAR_ENTITY", e>> :
             e \in after[c] \ before[c]}
         \union
         {<<c, "DISAPPEAR_ENTITY", e>> : e \in before[c] \ after[c]} :
           c \in DOMAIN a}

Tell ==
  /\ told' = [c \in Clients |-> Area(c, place', avatar')]
  /\ notices' = Difference(told, told', avatar')

Init ==
  /\ DOMAIN place = 1 .. Cardinality(DOMAIN place)
  /\ \A e \in DOMAIN place : place[e] \in Points
  /\ avatar = [c \in {} |-> 0]
  /\ told = [c \in Clients |-> {}]
  /\ notices = {}

\* A client enters with a new entity.
Enter(c) ==
  /\ c \notin DOMAIN avatar
  /\ LET id == Cardinality(DOMAIN place) + 1
     IN /\ place' = [e \in DOMAIN place \union {id} |-> IF e = id THEN Spawn ELSE place[e]]
        /\ avatar' = [d \in DOMAIN avatar \union {c} |-> IF d = c THEN id ELSE avatar[d]]
  /\ Tell

\* Everybody moves.
Move ==
  /\ place' \in [DOMAIN place -> Points]
  /\ UNCHANGED avatar
  /\ Tell

\* Anything else the server does tells nobody about sight.
Other == notices' = {} /\ UNCHANGED <<place, avatar, told>>

Next == (\E c \in Clients : Enter(c)) \/ Move \/ Other

Spec == Init /\ [][Next]_vars
=============================================================================
