------------------------------ MODULE Programs ------------------------------
(***************************************************************************)
(* The programs of linked_list, sort and math and the multicast sender.    *)
(* One of them runs, prog.  A list program appends values (the literals of *)
(* its main are replaced by any values), calls its function, with what the *)
(* user enters as the argument, and prints the result.                     *)
(*                                                                         *)
(* One action per program.  input and input2 are the lists that were built *)
(* (or the array that was filled), as sequences, for the properties; ret   *)
(* is what the function returned or printed.                               *)
(***************************************************************************)
EXTENDS SingleLinkedList, Sorting

CONSTANTS Value,    \* the values of list elements
          MaxLen,   \* bound: elements of a list, or of both lists together
          Entry,    \* what a user may enter
          Arrays,   \* the arrays that are sorted
          Operands  \* the operands of gcd

New == Max(Value) + 1     \* the value that main inserts

VARIABLES prog, pc, h, h2, input, input2, arg, ret

vars == <<prog, pc, h, h2, input, input2, arg, ret>>

ListPrograms ==
  {"append_to_tail", "insert_to_head", "insert_after_position",
   "insert_at_middle", "delete_by_position", "delete_by_value",
   "delete_alternate", "delete_middle", "delete_duplicate",
   "delete_duplicate_using_hash", "move_tail_to_head", "reverse",
   "get_length", "check_len_is_even_or_odd", "search_position", "search_key",
   "search_key_and_count", "search_from_end", "search_middle_divide",
   "search_middle_two_pointers", "sum_of_last_N_nodes"}

LoopPrograms == {"search_loop", "search_loop_and_count"}
PairPrograms == {"compare", "multiply", "subtract"}
SortPrograms == {"bubble_sort", "insertion_sort", "selection_sort",
                 "merge_sort", "quick_sort"}

Init == /\ prog \in ListPrograms \cup LoopPrograms \cup PairPrograms
                      \cup SortPrograms \cup {"gcd", "multicast"}
        /\ pc = "build"
        /\ h = EmptyHeap /\ h2 = EmptyHeap
        /\ input = <<>> /\ input2 = <<>>
        /\ arg = 0 /\ ret = 0

------------------------------------------------------------------------------
(* The parts of main.                                                      *)

\* for (...) append(&head, i);
Fill == /\ pc = "build" /\ Len(input) + Len(input2) < MaxLen
        /\ \E v \in Value : h' = append(h, v) /\ input' = Append(input, v)
        /\ UNCHANGED <<prog, pc, h2, input2, arg, ret>>

\* for (...) insert_to_head(&head, i);
FillHead == /\ pc = "build" /\ Len(input) < MaxLen
            /\ \E v \in Value : h' = insert_to_head(h, v) /\ input' = <<v>> \o input
            /\ UNCHANGED <<prog, pc, h2, input2, arg, ret>>

\* append(&head_2, i);
Fill2 == /\ pc = "build" /\ Len(input) + Len(input2) < MaxLen
         /\ \E v \in Value : h2' = append(h2, v) /\ input2' = Append(input2, v)
         /\ UNCHANGED <<prog, pc, h, input, arg, ret>>

\* scanf(&a); the call of a function that changes the list; print_list
Edit(a, result) == /\ pc \in {"build", "again"} /\ pc' = "done"
                   /\ arg' = a /\ h' = result.heap /\ ret' = result.ret
                   /\ UNCHANGED <<prog, h2, input, input2>>

\* scanf(&a); the call of a function that does not; printf of what it returned
Ask(a, r) == Edit(a, Returns(h, r))

\* The end of a program that prints its list and calls nothing else.
Stop == Ask(0, 0)

\* The same for two lists, whose heads the function moves.
AskPair(r, p, q) == /\ pc = "build" /\ pc' = "done"
                    /\ ret' = r
                    /\ h' = [h EXCEPT !.head = p] /\ h2' = [h2 EXCEPT !.head = q]
                    /\ UNCHANGED <<prog, input, input2, arg>>

------------------------------------------------------------------------------
(* The programs.                                                           *)

AppendToTail == prog = "append_to_tail" /\ (Fill \/ Stop)

InsertToHead == prog = "insert_to_head" /\ (FillHead \/ Stop)

InsertAfterPosition ==
  /\ prog = "insert_after_position"
  /\ Fill \/ \E a \in Entry : Edit(a, insert_after_position(h, a, New))

InsertAtMiddle ==
  prog = "insert_at_middle" /\ (Fill \/ Edit(0, insert_at_middle(h, New)))

\* The only program that goes on: while (1) around the question.
DeleteByPosition ==
  /\ prog = "delete_by_position"
  /\ \/ Fill
     \/ \E a \in Entry : Edit(a, delete_by_position(h, a))
     \/ /\ pc = "done" /\ pc' = "again" /\ input' = print_list(h)
        /\ UNCHANGED <<prog, h, h2, input2, arg, ret>>

DeleteByValue ==
  /\ prog = "delete_by_value"
  /\ Fill \/ \E a \in Entry : Edit(a, delete_by_value(h, a))

DeleteAlternate ==
  prog = "delete_alternate" /\ (Fill \/ Edit(0, delete_alternate(h)))

DeleteMiddle == prog = "delete_middle" /\ (Fill \/ Edit(0, delete_middle(h)))

\* Its main builds a sorted list.
DeleteDuplicate ==
  /\ prog = "delete_duplicate"
  /\ (Fill /\ IsSorted(input', <=)) \/ Edit(0, delete_duplicate(h))

DeleteDuplicateUsingHash ==
  /\ prog = "delete_duplicate_using_hash"
  /\ Fill \/ Edit(0, delete_duplicate_using_hash(h))

MoveTailToHead ==
  prog = "move_tail_to_head" /\ (FillHead \/ Edit(0, move_tail_to_head(h)))

ReverseList == prog = "reverse" /\ (Fill \/ Edit(0, reverse(h)))

GetLength == prog = "get_length" /\ (Fill \/ Ask(0, get_length(h)))

CheckLenIsEvenOrOdd ==
  prog = "check_len_is_even_or_odd" /\ (Fill \/ Ask(0, get_length(h) % 2))

SearchPosition == /\ prog = "search_position"
                  /\ Fill \/ \E a \in Entry : Ask(a, search_position(h, a))

SearchKey == /\ prog = "search_key"
             /\ Fill \/ \E a \in Entry : Ask(a, search_key(h, a))

SearchKeyAndCount ==
  /\ prog = "search_key_and_count"
  /\ Fill \/ \E a \in Entry : Ask(a, search_key_and_count(h, a))

SearchFromEnd == /\ prog = "search_from_end"
                 /\ Fill \/ \E a \in Entry : Ask(a, search_from_end(h, a))

SearchMiddleDivide ==
  prog = "search_middle_divide" /\ (Fill \/ Ask(0, search_middle_divide(h)))

SearchMiddleTwoPointers ==
  prog = "search_middle_two_pointers" /\ (Fill \/ Ask(0, search_middle_value(h)))

\* arg is make_loop; one program loops back to the third node, one to the fourth.
SearchLoop ==
  /\ prog = "search_loop"
  /\ \/ Fill
     \/ Ask(0, search_loop(h))
     \/ LET made == append_loop(h, New, 2)
        IN  Edit(1, [made EXCEPT !.ret = IF @ = FAULT THEN FAULT
                                         ELSE search_loop(made.heap)])

SearchLoopAndCount ==
  /\ prog = "search_loop_and_count"
  /\ \/ Fill
     \/ Ask(0, search_loop_and_count(h))
     \/ LET made == append_loop(h, New, 3)
        IN  Edit(1, [made EXCEPT !.ret = IF @ = FAULT THEN FAULT
                                         ELSE search_loop_and_count(made.heap)])

CompareTwoLists ==
  /\ prog = "compare"
  /\ \/ Fill \/ Fill2
     \/ LET c == compare(h, h2) IN AskPair(c.ret, c.head1, c.head2)

MultiplyTwoLists ==
  prog = "multiply" /\ (Fill \/ Fill2 \/ AskPair(multiply(h, h2), NULL, NULL))

SubtractTwoLists ==
  prog = "subtract" /\ (Fill \/ Fill2 \/ AskPair(subtract(h, h2), NULL, NULL))

SumOfLastNNodes ==
  /\ prog = "sum_of_last_N_nodes"
  /\ Fill \/ \E a \in Entry : Ask(a, sum_of_last_N_nodes(h, a))

\* main of a sorting program: the array is filled with rand() % num.
Sort(program, Sorted(_)) ==
  /\ prog = program /\ pc = "build" /\ pc' = "done"
  /\ \E a \in Arrays : input' = a /\ ret' = Sorted(a)
  /\ UNCHANGED <<prog, h, h2, input2, arg>>

BubbleSort    == Sort("bubble_sort", bubble_sort)
InsertionSort == Sort("insertion_sort", insertion_sort)
SelectionSort == Sort("selection_sort", selection_sort)
MergeSort     == Sort("merge_sort", merge_sort)
QuickSort     == Sort("quick_sort", quick_sort)

Gcd == /\ prog = "gcd" /\ pc = "build" /\ pc' = "done"
       /\ \E i, j \in Operands : input' = <<i, j>> /\ ret' = gcd(i, j)
       /\ UNCHANGED <<prog, h, h2, input2, arg>>

\* Mutant: the source first, as in the TODO of main.
FrameSourceFirst(dest, own) == set_dest_mac(set_source_mac(EmptyFrame, own), dest)

\* Steps 1 and 2 of main.
Frame(dest, own) == set_source_mac(set_dest_mac(EmptyFrame, dest), own)

\* The destination is the address in argv[2], of which sscanf may read fewer
\* than six numbers; the source that of the interface, if it is up.
Multicast ==
  /\ prog = "multicast" /\ pc = "build" /\ pc' = "done"
  /\ \E dest \in {[k \in 1..n |-> k] : n \in 0..6}, up \in BOOLEAN :
       LET own == [k \in 1..6 |-> 10 + k]
       IN  /\ input' = dest /\ input2' = own /\ arg' = up
           /\ ret' = IF up THEN Frame(dest, own) ELSE -1
  /\ UNCHANGED <<prog, h, h2>>

Next ==
  \/ AppendToTail \/ InsertToHead \/ InsertAfterPosition \/ InsertAtMiddle
  \/ DeleteByPosition \/ DeleteByValue \/ DeleteAlternate \/ DeleteMiddle
  \/ DeleteDuplicate \/ DeleteDuplicateUsingHash \/ MoveTailToHead \/ ReverseList
  \/ GetLength \/ CheckLenIsEvenOrOdd \/ SearchPosition \/ SearchKey
  \/ SearchKeyAndCount \/ SearchFromEnd \/ SearchMiddleDivide
  \/ SearchMiddleTwoPointers \/ SearchLoop \/ SearchLoopAndCount
  \/ CompareTwoLists \/ MultiplyTwoLists \/ SubtractTwoLists \/ SumOfLastNNodes
  \/ BubbleSort \/ InsertionSort \/ SelectionSort \/ MergeSort \/ QuickSort
  \/ Gcd \/ Multicast

Spec == Init /\ [][Next]_vars
------------------------------------------------------------------------------
(* What the programs are for, on sequences.                                *)

FirstAt(s, v) == Min({i \in DOMAIN s : s[i] = v})
Middle(s)     == Len(s) \div 2 + 1
Sum(s)        == FoldLeft(+, 0, s)
Decimal(s)    == FoldLeft(LAMBDA n, d : 10 * n + d, 0, s)
Distance(m, n) == IF m > n THEN m - n ELSE n - m

\* The elements that are not equal to an earlier one.
Firsts(s) ==
  LET kept == {i \in DOMAIN s : \A j \in 1..(i - 1) : s[j] # s[i]}
  IN  [k \in 1..Cardinality(kept) |-> s[SetToSortSeq(kept, <)[k]]]

Edited(s, a) ==
  CASE prog = "insert_after_position" -> InsertAt(s, FirstAt(s, a) + 1, New)
    [] prog = "insert_at_middle"      -> InsertAt(s, Middle(s) + 1, New)
    [] prog = "delete_by_position"    ->
         IF a + 1 \in DOMAIN s THEN RemoveAt(s, a + 1) ELSE s
    [] prog = "delete_by_value"       -> RemoveFirst(s, a)
    [] prog = "delete_alternate"      ->
         [k \in 1..((Len(s) + 1) \div 2) |-> s[2 * k - 1]]
    [] prog = "delete_middle"         -> RemoveAt(s, Middle(s))
    [] prog \in {"delete_duplicate", "delete_duplicate_using_hash"} -> Firsts(s)
    [] prog = "move_tail_to_head" /\ s # <<>> -> <<Last(s)>> \o Front(s)
    [] prog = "reverse"               -> Reverse(s)
    [] OTHER                          -> s

Answer(s, a) ==
  CASE prog = "get_length"               -> Len(s)
    [] prog = "check_len_is_even_or_odd" -> Len(s) % 2
    [] prog = "search_position"          ->
         IF Contains(s, a) THEN FirstAt(s, a) - 1 ELSE -1
    [] prog = "search_key"               -> IF a + 1 \in DOMAIN s THEN s[a + 1] ELSE -1
    [] prog = "search_key_and_count"     ->
         IF s = <<>> THEN -1 ELSE Cardinality({i \in DOMAIN s : s[i] = a})
    [] prog = "search_from_end"          ->
         IF a \in DOMAIN s THEN Reverse(s)[a] ELSE -1
    [] prog \in {"search_middle_divide", "search_middle_two_pointers"} ->
         IF s = <<>> THEN -1 ELSE s[Middle(s)]
    [] prog = "sum_of_last_N_nodes"      ->
         IF a \in DOMAIN s THEN Sum(SubSeq(s, Len(s) - a + 1, Len(s)))
         ELSE IF s = <<>> THEN 0 ELSE Last(s)
    [] OTHER                             -> 0

\* Shorter lists first, then the first difference decides.
Order(s, t) ==
  LET differ == {i \in DOMAIN s \cap DOMAIN t : s[i] # t[i]}
      Sign(m, n) == IF m > n THEN 1 ELSE IF m < n THEN -1 ELSE 0
  IN  IF Len(s) # Len(t) \/ differ = {} THEN Sign(Len(s), Len(t))
      ELSE Sign(s[Min(differ)], t[Min(differ)])

\* The nodes that can be reached from p.
ReachedFrom(p) ==
  LET reach[q \in Address, seen \in SUBSET Node] ==
        IF q \in h.live \ seen THEN reach[h.next[q], seen \cup {q}] ELSE seen
  IN  reach[p, {}]

Cycle == {n \in h.live : n \in ReachedFrom(h.next[n])}

\* Two different values of the list have the same slot in the hash table.
Collides(s) == \E u, v \in Range(s) : u # v /\ u % CAPACITY = v % CAPACITY

Returned == pc = "done" /\ ret # FAULT

------------------------------------------------------------------------------
(* Properties.                                                             *)

\* print_list after append, insert, delete, move and reverse prints the list
\* that the operation stands for, at every length and for every user entry,
\* and the search programs print the list they were given.  The one exception is
\* delete_duplicate_using_hash on values that collide: find_item takes any mark
\* in the slot for the value, so that values are deleted that are no duplicates.
\* Even then no value is left twice, and a value that is gone from the list has
\* its slot in common with one that is left.
EditsMatch ==
  /\ pc = "build" => print_list(h) = input /\ print_list(h2) = input2
  /\ prog \in ListPrograms /\ Returned =>
       LET out == print_list(h)
       IN  IF prog = "delete_duplicate_using_hash" /\ Collides(input)
           THEN /\ Firsts(out) = out /\ Range(out) \subseteq Range(input)
                /\ \A v \in Range(input) : \E u \in Range(out) : u % CAPACITY = v % CAPACITY
           ELSE out = Edited(input, arg)

\* The search, length and sum functions return what they are named for, both
\* ways to the middle agree, and a user entry that names no element is answered
\* by "can not find" (-1), or by the last element when summing.  The two
\* pointers of search_loop meet if and only if a node leads back to itself, and
\* one round from there counts the nodes of the loop.  A number that an int can
\* hold is computed exactly, and gcd by subtraction ends with the greatest
\* common divisor.
AnswersMatch ==
  Returned =>
    /\ prog \in ListPrograms => ret = Answer(input, arg)
    /\ prog = "compare" => ret = Order(input, input2)
    /\ prog = "search_loop" /\ h.head # NULL => (ret = 1 <=> Cycle # {})
    /\ prog = "search_loop_and_count" /\ h.head # NULL => ret = Cardinality(Cycle)
    /\ prog = "gcd" =>
         ret = Max({d \in 1..input[1] : input[1] % d = 0 /\ input[2] % d = 0})
    /\ LET m == Decimal(input)
           n == Decimal(input2)
       IN  prog \in {"multiply", "subtract"} /\ Max({m, n}) <= INT_MAX =>
             /\ prog = "subtract" => ret = Distance(m, n)
             /\ prog = "multiply" /\ m * n <= INT_MAX => ret = m * n

\* A function reads through NULL or a freed node exactly on these inputs: a key
\* to insert after that is not there, position 0 from the end, a list too short
\* to have a middle node with a predecessor, an empty list where *head_ref is
\* read before it is tested, and a loop back to a node that does not exist.
FaultsOnlyOn ==
  pc = "done" =>
    (ret = FAULT <=>
       \/ prog = "insert_after_position" /\ ~ Contains(input, arg)
       \/ prog = "search_from_end" /\ input # <<>> /\ arg = 0
       \/ prog = "delete_middle" /\ Len(input) < 2
       \/ /\ prog \in {"insert_at_middle", "delete_by_value", "delete_alternate",
                       "delete_duplicate", "reverse"}
          /\ input = <<>>
       \/ prog = "search_loop" /\ arg = 1 /\ Len(input) = 1
       \/ prog = "search_loop_and_count" /\ arg = 1 /\ Len(input) \in {1, 2})

\* No node is leaked and none is freed while it is linked: the allocated nodes
\* are the ones that the head leads to.
MemoryKept ==
  prog \in ListPrograms \cup LoopPrograms /\ (pc = "done" => ret # FAULT)
    => h.live = ReachedFrom(h.head)

\* Every sorting program leaves a sorted permutation of its array; merge_sort
\* does so up to 8 elements, since do_merge swaps the sizes of its copies.
SortsCorrect ==
  prog \in SortPrograms /\ Returned /\ (prog = "merge_sort" => Length(input) < 9) =>
    /\ DOMAIN ret = DOMAIN input
    /\ \A i \in DOMAIN ret : i > 0 => ret[i - 1] <= ret[i]
    /\ \A v \in Range(input) \cup Range(ret) :
         Quantify(DOMAIN ret, LAMBDA i : ret[i] = v) =
         Quantify(DOMAIN input, LAMBDA i : input[i] = v)

\* The frame that is sent has the octets that the user gave as its destination
\* and the address of the interface as its source, although sscanf writes four
\* octets for each of the first six.
FrameAddressed ==
  prog = "multicast" /\ Returned /\ arg =>
    /\ \A k \in 1..6 : ret[k - 1] = IF k \in DOMAIN input THEN input[k] ELSE 0
    /\ \A k \in 1..6 : ret[k + 5] = input2[k]
==============================================================================
