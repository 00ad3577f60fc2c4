-------------------------- MODULE SingleLinkedList --------------------------
(***************************************************************************)
(* The functions of the programs under linked_list/single_linked_list, as  *)
(* operators on a heap of nodes.  A heap record holds one list: its head,  *)
(* the nodes that are allocated, and their fields.  Reading a field        *)
(* through NULL or through a freed node gives FAULT, and a loop stops      *)
(* there.  A function returns the heap it leaves and its return value, or  *)
(* FAULT as the value if it made such an access.                           *)
(*                                                                         *)
(* The programs allocate the size of a pointer, 8 bytes, for a node of 16; *)
(* the smallest block of a 64-bit glibc has 24 usable bytes and holds it.  *)
(***************************************************************************)
EXTENDS Integers, Sequences, FiniteSets, SequencesExt

CONSTANTS Node,      \* the nodes malloc can return
          CAPACITY,  \* slots of the hash table (20 in the code)
          INT_MAX,   \* the largest int
          NULL, FAULT

ASSUME NodeAssumption == /\ Node \subseteq Nat
                         /\ CAPACITY \in Nat \ {0} /\ INT_MAX \in Nat
                         /\ NULL \notin Node /\ FAULT \notin Node

Address == Node \cup {NULL, FAULT}

Heap == [head : Node \cup {NULL}, live : SUBSET Node,
         next : [Node -> Node \cup {NULL}], value : [Node -> Int]]

EmptyHeap == [head  |-> NULL, live |-> {},
              next  |-> [n \in Node |-> NULL], value |-> [n \in Node |-> 0]]

NextOf(h, p)  == IF p \in h.live THEN h.next[p] ELSE FAULT
ValueOf(h, p) == IF p \in h.live THEN h.value[p] ELSE FAULT

\* The result of a function, and the result of one that made a bad access.
Returns(h, r) == [heap |-> h, ret |-> r]
Crash(h)      == Returns(h, FAULT)

Fresh(h) == CHOOSE n \in Node \ h.live : \A m \in Node \ h.live : n <= m

malloc(h, v) == LET n == Fresh(h) IN
  [h EXCEPT !.live = @ \cup {n}, !.value[n] = v, !.next[n] = NULL]

\* Mutant: a node that is unlinked is not freed.
freeForgotten(h, p) == h

free(h, p) == [h EXCEPT !.live = @ \ {p}]

\* while (Go) { prev = current; current = current->next; count++; }
Walk(h, p, Go(_, _)) ==
  LET walk[i \in Nat, a \in Address, q \in Address] ==
        IF q # FAULT /\ Go(q, i) THEN walk[i + 1, q, NextOf(h, q)]
                                 ELSE [prev |-> a, current |-> q, count |-> i]
  IN  walk[0, NULL, p]

\* print_list: the values it prints.
print_list(h) ==
  LET rest[p \in Address] ==
        IF p \in h.live THEN <<h.value[p]>> \o rest[h.next[p]]
                        ELSE IF p = NULL THEN <<>> ELSE <<FAULT>>
  IN  rest[h.head]

------------------------------------------------------------------------------
(* insert/                                                                 *)

LastNode(h) == Walk(h, h.head, LAMBDA q, i : NextOf(h, q) # NULL)

append(h, v) ==
  IF h.head = NULL THEN [malloc(h, v) EXCEPT !.head = Fresh(h)]
  ELSE [malloc(h, v) EXCEPT !.next[LastNode(h).current] = Fresh(h)]

insert_to_head(h, v) ==
  [malloc(h, v) EXCEPT !.next[Fresh(h)] = h.head, !.head = Fresh(h)]

\* new_node->next = p->next; p->next = new_node
LinkAfter(h, p, v) ==
  IF p \notin h.live THEN Crash(h)
  ELSE Returns([malloc(h, v) EXCEPT !.next[Fresh(h)] = h.next[p],
                                    !.next[p] = Fresh(h)], 0)

\* The "position" is the value of the node to insert after.
insert_after_position(h, position, v) ==
  LinkAfter(h, Walk(h, h.head, LAMBDA q, i : ValueOf(h, q) # position).current, v)

\* Two pointers, one twice as fast.
search_middle(h) ==
  LET move[slow \in Address, fast \in Address] ==
        IF fast # NULL /\ NextOf(h, fast) # NULL
        THEN move[NextOf(h, slow), NextOf(h, NextOf(h, fast))] ELSE slow
  IN  move[h.head, h.head]

insert_at_middle(h, v) == LinkAfter(h, search_middle(h), v)

------------------------------------------------------------------------------
(* delete/                                                                 *)

\* prev->next = current->next, or *head_ref = current->next; free(current)
Unlink(h, prev, p) ==
  Returns(IF prev = NULL THEN free([h EXCEPT !.head = h.next[p]], p)
                         ELSE free([h EXCEPT !.next[prev] = h.next[p]], p), 0)

\* Mutant: --delete_position stops one node early.
delete_by_positionEarly(h, position) ==
  LET w == Walk(h, h.head, LAMBDA q, i : q # NULL /\ i + 1 # position)
  IN  IF w.current = NULL THEN Returns(h, 0) ELSE Unlink(h, w.prev, w.current)

\* delete_position-- runs past the end of the list when it starts negative.
delete_by_position(h, position) ==
  LET w == Walk(h, h.head, LAMBDA q, i : q # NULL /\ i # position)
  IN  IF w.current = NULL THEN Returns(h, 0) ELSE Unlink(h, w.prev, w.current)

\* The head is read before anything is tested.
delete_by_value(h, v) ==
  LET w == Walk(h, h.head, LAMBDA q, i : q # NULL /\ ValueOf(h, q) # v)
  IN  IF h.head = NULL THEN Crash(h)
      ELSE IF w.current = NULL THEN Returns(h, 0)
      ELSE Unlink(h, w.prev, w.current)

\* (*head_ref)->next is read before *head_ref is compared with NULL.
delete_alternate(h) ==
  LET loop[g \in Heap, p \in Address] ==
        IF p = NULL \/ NextOf(g, p) = NULL THEN g
        ELSE LET cut == Unlink(g, p, NextOf(g, p)).heap IN loop[cut, cut.next[p]]
  IN  IF h.head = NULL THEN Crash(h) ELSE Returns(loop[h, h.head], 0)

\* while (current->next != midd): the head itself has no predecessor.
delete_middle(h) ==
  LET mid == search_middle(h)
      p   == Walk(h, h.head, LAMBDA q, i : NextOf(h, q) # mid).current
  IN  IF p = FAULT THEN Crash(h) ELSE Unlink(h, p, mid)

delete_duplicate(h) ==
  LET loop[g \in Heap, p \in Address] ==
        LET n == NextOf(g, p) IN
        IF n = NULL THEN g
        ELSE IF ValueOf(g, p) = ValueOf(g, n) THEN loop[Unlink(g, p, n).heap, p]
        ELSE loop[g, n]
  IN  IF h.head = NULL THEN Crash(h) ELSE Returns(loop[h, h.head], 0)

hash_func(key) == key % CAPACITY

\* insert_item: the slot is marked unless it already was; the test of size_used
\* never fails, since at most CAPACITY slots can be marked.
insert_item(tb, v) == tb \cup {hash_func(v)}

\* find_item does not compare the value that is stored.
find_item(tb, v) == hash_func(v) \in tb

delete_duplicate_using_hash(h) ==
  LET loop[g \in Heap, p \in Address, tb \in SUBSET (0..(CAPACITY - 1))] ==
        LET n == NextOf(g, p) IN
        IF n = NULL THEN g
        ELSE IF find_item(tb, ValueOf(g, n))
             THEN loop[Unlink(g, p, n).heap, p, tb]
             ELSE loop[g, n, insert_item(tb, ValueOf(g, n))]
  IN  IF h.head = NULL THEN Returns(h, 0)
      ELSE Returns(loop[h, h.head, insert_item({}, ValueOf(h, h.head))], 0)

------------------------------------------------------------------------------
(* move/ and reverse/                                                      *)

move_tail_to_head(h) ==
  LET w == LastNode(h)
  IN  IF h.head = NULL \/ NextOf(h, h.head) = NULL THEN Returns(h, 0)
      ELSE Returns([h EXCEPT !.next[w.current] = h.head, !.head = w.current,
                             !.next[w.prev] = NULL], 0)

\* (*head_ref)->next is read before *head_ref is compared with NULL.
reverse(h) ==
  LET loop[g \in Heap, prev_one \in Address, p \in Address] ==
        IF p = NULL THEN [g EXCEPT !.head = prev_one]
        ELSE loop[[g EXCEPT !.next[p] = prev_one], p, NextOf(g, p)]
  IN  IF h.head = NULL THEN Crash(h) ELSE Returns(loop[h, NULL, h.head], 0)

------------------------------------------------------------------------------
(* length/, search/ and calculate/                                         *)

get_length(h) == IF h.head = NULL THEN 0 ELSE LastNode(h).count + 1

search_position(h, v) ==
  LET w == Walk(h, h.head, LAMBDA q, i : q # NULL /\ ValueOf(h, q) # v)
  IN  IF w.current = NULL THEN -1 ELSE w.count

search_key(h, position) ==
  LET w == Walk(h, h.head, LAMBDA q, i : q # NULL /\ i # position)
  IN  IF w.current = NULL THEN -1 ELSE ValueOf(h, w.current)

search_key_and_count(h, v) ==
  LET count[p \in Address] ==
        IF p = NULL THEN 0
        ELSE count[NextOf(h, p)] + (IF ValueOf(h, p) = v THEN 1 ELSE 0)
  IN  IF h.head = NULL THEN -1 ELSE count[h.head]

\* Mutant: without the test pos > len.
search_from_endLow(h, position) ==
  IF h.head = NULL \/ get_length(h) < position THEN -1
  ELSE ValueOf(h, Walk(h, h.head, LAMBDA q, i : i < get_length(h) - position).current)

\* pos = len passes the test for "Out of bound".
search_from_end(h, position) ==
  LET len == get_length(h)
      pos == len - position
  IN  IF h.head = NULL \/ pos < 0 \/ pos > len THEN -1
      ELSE ValueOf(h, Walk(h, h.head, LAMBDA q, i : i < pos).current)

search_middle_divide(h) ==
  LET middle == get_length(h) \div 2
  IN  IF h.head = NULL THEN -1
      ELSE ValueOf(h, Walk(h, h.head, LAMBDA q, i : i < middle).current)

search_middle_value(h) ==
  IF h.head = NULL THEN -1 ELSE ValueOf(h, search_middle(h))

\* append(&head, v, 1): the new last node points back to the node that is
\* "back" links behind the head, and that node is printed.
append_loop(h, v, back) ==
  LET g == append(h, v)
      t == Walk(g, g.head, LAMBDA q, i : i < back).current
  IN  IF h.head = NULL THEN Returns(g, 0)
      ELSE IF t \notin g.live THEN Crash(g)
      ELSE Returns([g EXCEPT !.next[Fresh(h)] = t], 0)

\* Floyd's two pointers: where they meet, or NULL.
Meet(h) ==
  LET move[slow \in Address, fast \in Address] ==
        IF fast = NULL \/ NextOf(h, fast) = NULL THEN NULL
        ELSE LET s == NextOf(h, slow)
                 f == NextOf(h, NextOf(h, fast))
             IN  IF s = f THEN s ELSE move[s, f]
  IN  move[h.head, h.head]

search_loop(h) ==
  IF h.head = NULL THEN -1 ELSE IF Meet(h) = NULL THEN 0 ELSE 1

\* Mutant: loop_len starts from 0.
search_loop_and_countFrom0(h) ==
  IF search_loop(h) < 1 THEN search_loop(h)
  ELSE Walk(h, Meet(h), LAMBDA q, i : NextOf(h, q) # Meet(h)).count

\* From where they meet, once round.
search_loop_and_count(h) ==
  IF search_loop(h) < 1 THEN search_loop(h)
  ELSE Walk(h, Meet(h), LAMBDA q, i : NextOf(h, q) # Meet(h)).count + 1

\* *head_ref1 and *head_ref2 are main's own heads: they end where the lists
\* first differ.
compare(h1, h2) ==
  LET loop[p \in Address, q \in Address] ==
        IF p = NULL \/ q = NULL THEN [ret |-> 0, head1 |-> p, head2 |-> q]
        ELSE IF ValueOf(h1, p) = ValueOf(h2, q) THEN loop[NextOf(h1, p), NextOf(h2, q)]
        ELSE [ret |-> IF ValueOf(h1, p) > ValueOf(h2, q) THEN 1 ELSE -1,
              head1 |-> p, head2 |-> q]
      len1 == get_length(h1)
      len2 == get_length(h2)
  IN  IF len1 = len2 THEN loop[h1.head, h2.head]
      ELSE [ret |-> IF len1 > len2 THEN 1 ELSE -1,
            head1 |-> h1.head, head2 |-> h2.head]

\* Signed arithmetic of the build: it wraps around.
ToInt(n) == ((n + INT_MAX + 1) % (2 * (INT_MAX + 1))) - (INT_MAX + 1)

\* num = num*10 + value, from the head on.
Number(h) ==
  LET num[n \in Int, p \in Address] ==
        IF p = NULL THEN n ELSE num[ToInt(n * 10 + ValueOf(h, p)), NextOf(h, p)]
  IN  num[0, h.head]

multiply(h1, h2) == ToInt(Number(h1) * Number(h2))

subtract(h1, h2) == ToInt(IF Number(h1) > Number(h2) THEN Number(h1) - Number(h2)
                                                     ELSE Number(h2) - Number(h1))

\* The last node is always added; the others from index len - num on.
sum_of_last_N_nodes(h, num) ==
  LET len == get_length(h)
      loop[p \in Address, idx \in Nat, sum \in Int] ==
        IF NextOf(h, p) = NULL THEN sum + ValueOf(h, p)
        ELSE IF idx # len - num THEN loop[NextOf(h, p), idx + 1, sum]
        ELSE loop[NextOf(h, p), idx, sum + ValueOf(h, p)]
  IN  IF h.head = NULL THEN 0 ELSE loop[h.head, 0, 0]
==============================================================================
