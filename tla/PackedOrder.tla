---------------------------- MODULE PackedOrder ----------------------------
(***************************************************************************)
(* What the dependency calls of a command promise (apusys.h): the          *)
(* sub-commands are partitioned into packs that are triggered at the same  *)
(* time, and an edge makes one whole pack wait for another whole pack.     *)
(* Nothing here knows of pack ids or of an adjacency matrix.               *)
(***************************************************************************)
EXTENDS Naturals

CONSTANT Item           \* the sub-commands that may ever be created

VARIABLES packs,        \* the current packs: disjoint non-empty sets of items
          order         \* pairs <<p, q>> of packs: q waits until p is done

vars == <<packs, order>>

Touches(q) == \E p \in packs : <<p, q>> \in order \/ <<q, p>> \in order

Create(i) == /\ \A p \in packs : i \notin p
             /\ packs' = packs \cup {{i}}
             /\ UNCHANGED order

\* One pack waits for another one, never mutually.
Before(p, q) == /\ p # q
                /\ <<q, p>> \notin order
                /\ order' = order \cup {<<p, q>>}
                /\ UNCHANGED packs

\* A single item without dependencies joins a pack: where p stood in the
\* order, p \cup {i} now stands.
Join(p, i) ==
  LET joined(q) == IF q = p THEN p \cup {i} ELSE q
  IN  /\ p # {i}
      /\ {i} \in packs
      /\ ~Touches({i})
      /\ packs' = {joined(q) : q \in packs \ {{i}}}
      /\ order' = {<<joined(e[1]), joined(e[2])>> : e \in order}

Init == packs = {} /\ order = {}

Next == \/ \E i \in Item : Create(i)
        \/ \E p, q \in packs : Before(p, q)
        \/ \E p \in packs, i \in Item : Join(p, i)

Spec == Init /\ [][Next]_vars
=============================================================================
