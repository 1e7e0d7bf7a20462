------------------------------ MODULE Policies ------------------------------
(***************************************************************************)
(* The page replacement policies of lab3: map_swappable and                *)
(* swap_out_victim of swap_fifo.c, swap_clock.c and swap_lru.c in kern/mm. *)
(* They work on a record s with the list of the policy, s.queue (the page  *)
(* list_add put behind the head last comes first), page->visited,          *)
(* s.visited, and the policy sm itself, s.sm.                              *)
(***************************************************************************)
EXTENDS Integers, SequencesExt

CONSTANTS
  Frame,     \* the page frames there are (check_rp of check_swap)
  TOP        \* the top bit of page->visited (bit 31 in the code)

ASSUME PoliciesAssumption ==
  /\ Frame # {} /\ \A f \in Frame : f \notin Nat
  /\ TOP \in Nat \ {0}

-----------------------------------------------------------------------------
\* Mutant: all pages of the list but the new one keep their bits.
visited_on_map_no_aging(s, f) == [s.visited EXCEPT ![f] = TOP]

\* page->visited when f has come: clock marks it; lru sets its top bit, above what f still
\* has of the page before, and halves the others.
visited_on_map(s, f) ==
  CASE s.sm = "fifo" -> s.visited
    [] s.sm = "clock" -> [s.visited EXCEPT ![f] = 1]
    [] s.sm = "lru" ->
         [g \in Frame |->
            IF g = f THEN TOP + (s.visited[f] % TOP)
            ELSE IF g \in Range(s.queue) THEN s.visited[g] \div 2 ELSE s.visited[g]]

\* Mutant: list_add_before in the place of list_add, so the new page comes last.
map_swappable_before(s, f) == [s EXCEPT !.queue = @ \o <<f>>, !.visited = visited_on_map(s, f)]

\* The new page goes to the front of the list.
map_swappable(s, f) == [s EXCEPT !.queue = <<f>> \o @, !.visited = visited_on_map(s, f)]

\* page->visited after swap_out_victim: clock clears the mark of the last page of the list,
\* finds it again and takes it; lru halves them all.
visited_on_victim(s) ==
  CASE s.sm = "fifo" -> s.visited
    [] s.sm = "clock" -> [s.visited EXCEPT ![Last(s.queue)] = 0]
    [] s.sm = "lru" -> [g \in Frame |-> IF g \in Range(s.queue) THEN s.visited[g] \div 2 ELSE s.visited[g]]

\* Where in the list the page is that swap_out_victim unlinks; lru: the first with the least
\* visited.
victim_place(s) ==
  IF s.sm = "lru"
  THEN LET bits == visited_on_victim(s)
           least == {i \in DOMAIN s.queue :
                       \A j \in DOMAIN s.queue : bits[s.queue[i]] <= bits[s.queue[j]]}
       IN  CHOOSE i \in least : \A j \in least : i <= j
  ELSE Len(s.queue)

\* The frame it unlinks.
victim(s) == s.queue[victim_place(s)]

\* Mutant: the victim stays on the list.
swap_out_victim_linked(s) == [s EXCEPT !.visited = visited_on_victim(s)]

swap_out_victim(s) ==
  [s EXCEPT !.queue = RemoveAt(@, victim_place(s)), !.visited = visited_on_victim(s)]
=============================================================================
