--------------------------------- MODULE List ---------------------------------
(***************************************************************************)
(* Circular doubly linked lists, source/list.c.  A heap h is a record with *)
(* the fields prev and next, the p_prev and p_next of every item; it may   *)
(* have further fields.  No code calls lstitem_append.                     *)
(***************************************************************************)
EXTENDS Naturals, SequencesExt

lstitem_init(h, i) == [h EXCEPT !.prev[i] = i, !.next[i] = i]

\* Insert i before pos.
lstitem_prepend(h, i, pos) ==
    [h EXCEPT !.prev[i] = h.prev[pos],
              !.next[i] = pos,
              !.next[h.prev[pos]] = i,
              !.prev[pos] = i]

lstitem_remove(h, i) ==
    [h EXCEPT !.next[h.prev[i]] = h.next[i],
              !.prev[h.next[i]] = h.prev[i],
              !.prev[i] = i,
              !.next[i] = i]

-----------------------------------------------------------------------------
\* The item n steps behind i.
Follow(h, i, n) ==
    LET at[k \in 0 .. n] == IF k = 0 THEN i ELSE h.next[at[k - 1]] IN at[n]

\* The items of the circle that head points to, as a loop over p_next visits
\* them.  A chain that does not come back to head within as many steps as there
\* are items is no circle.
IsCircle(h, head, N) == \E n \in 1 .. N : Follow(h, head, n) = head

Items(h, head, N) ==
    LET len == CHOOSE n \in 1 .. N :
                  /\ Follow(h, head, n) = head
                  /\ \A m \in 1 .. (n - 1) : Follow(h, head, m) # head
    IN  [k \in 1 .. len |-> Follow(h, head, k - 1)]

\* The circle is linked in both directions.
Linked(h, head, N) ==
    /\ IsCircle(h, head, N)
    /\ \A i \in Range(Items(h, head, N)) : h.prev[h.next[i]] = i /\ h.next[h.prev[i]] = i
=============================================================================
