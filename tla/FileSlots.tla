----------------------------- MODULE FileSlots -----------------------------
(***************************************************************************)
(* The intrusive per-file lists of pool/file_slots.rs, which the frames    *)
(* (frame_pages.rs) and the misses are threaded on.  A list structure is a *)
(* record: head, by file slot, and next, previous and owner, by index.  An *)
(* end of a list links to itself; NoLink is the zero link, which in next   *)
(* means a vacant slot.                                                    *)
(***************************************************************************)
EXTENDS Integers, FiniteSets

CONSTANT NoLink

\* try_new: every slot vacant, every head empty.
EmptyLists(indices, owners) ==
  [head |-> [o \in owners |-> NoLink],
   next |-> [i \in indices |-> NoLink],
   previous |-> [i \in indices |-> NoLink],
   owner |-> [i \in indices |-> NoLink]]

Occupied(l, i) == l.next[i] # NoLink

\* insert: the slot becomes the head of its owner's list.
Linked(l, i, o) ==
  LET head == l.head[o] IN
  [head |-> [l.head EXCEPT ![o] = i],
   next |-> [l.next EXCEPT ![i] = IF head = NoLink THEN i ELSE head],
   previous |-> [j \in DOMAIN l.previous |-> IF j \in {i, head} THEN i ELSE l.previous[j]],
   owner |-> [l.owner EXCEPT ![i] = o]]

\* remove: the neighbours are joined; a neighbour left without one on that side
\* becomes an end.  The payload, which nobody reads any more, is forgotten.
Unlinked(l, i) ==
  LET p == l.previous[i]
      n == l.next[i]
      o == l.owner[i]
  IN [head |-> IF p # i THEN l.head ELSE [l.head EXCEPT ![o] = IF n = i THEN NoLink ELSE n],
      next |-> [j \in DOMAIN l.next |->
                  IF j = i THEN NoLink
                  ELSE IF j = p THEN IF n = i THEN p ELSE n ELSE l.next[j]],
      previous |-> [j \in DOMAIN l.previous |->
                      IF j = i THEN NoLink
                      ELSE IF j = n THEN IF p = i THEN n ELSE p ELSE l.previous[j]],
      owner |-> [l.owner EXCEPT ![i] = NoLink]]

\* for_file: where the traversal of o's list is after each number of steps.
Cursor(l, o) ==
  LET cursor[k \in 0 .. Cardinality(DOMAIN l.next)] ==
        IF k = 0 THEN l.head[o]
        ELSE LET c == cursor[k - 1] IN
             IF c = NoLink THEN NoLink
             ELSE IF l.next[c] = c THEN NoLink ELSE l.next[c]
  IN cursor

\* The slots a traversal visits.
ForFile(l, o) == {Cursor(l, o)[k] : k \in DOMAIN Cursor(l, o)} \ {NoLink}

\* What insert, remove and for_file assert: a traversal ends, visits slots of its
\* owner only, and neighbours point at each other.
WellLinked(l) ==
  /\ \A o \in DOMAIN l.head :
       /\ Cursor(l, o)[Cardinality(DOMAIN l.next)] = NoLink
       /\ \A i \in ForFile(l, o) : l.owner[i] = o
  /\ \A i \in DOMAIN l.next : Occupied(l, i) =>
       /\ l.previous[i] = i <=> l.head[l.owner[i]] = i
       /\ l.previous[i] # i => l.next[l.previous[i]] = i
       /\ l.next[i] # i => l.previous[l.next[i]] = i
=============================================================================
