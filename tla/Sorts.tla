-------------------------------- MODULE Sorts --------------------------------
(***************************************************************************)
(* The menu program of examples/DataStruct/sortAlgorithm: a sort is chosen *)
(* and rearranges a copy of the array.  Vectors are functions on 0..n-1,   *)
(* as the code indexes them; the elements are integers as randomArray      *)
(* draws them, none of them negative: bucketSort indexes with the element, *)
(* which is undefined below 0 (and drops the fraction of a double, the     *)
(* menu says "only int").  The turns of a loop are functions of what it    *)
(* changes; where the code leaves a loop early, the turns left change      *)
(* nothing.                                                                *)
(***************************************************************************)
EXTENDS Integers, Sequences, FiniteSets, Loops

CONSTANTS
    Value,      \* the elements
    MaxLength   \* bound: elements of an array

ASSUME ValueAssumption == Value \subseteq Nat

VARIABLES original, nums, choose

sortVars == <<original, nums, choose>>

Index(n) == 0..(n - 1)
length(v) == Cardinality(DOMAIN v)

\* The vectors as long as v.
Like(v) == [DOMAIN v -> Value]

swap(v, i, j) == [v EXCEPT ![i] = v[j], ![j] = v[i]]

bubbleSort(v) ==
    LET Compare == [j \in Index(length(v) - 1) |-> [w \in Like(v) |->
                        IF w[j] > w[j + 1] THEN swap(w, j, j + 1) ELSE w]]
        Round   == [r \in Index(length(v) - 1) |-> [w \in Like(v) |->
                        After(w, length(v) - 1 - r, Compare)]]
    IN After(v, length(v) - 1, Round)

\* The largest element: the code starts from INT_MIN.
m_max(v) ==
    After(v[0], length(v), [i \in DOMAIN v |-> [m \in Value |-> IF m > v[i] THEN m ELSE v[i]]])

\* Counts per value, then each value as often as it was counted.
bucketSort(v) ==
    LET bucket(j) == Cardinality({i \in DOMAIN v : v[i] = j})
        Fill == [j \in 0..m_max(v) |-> [s \in [i : Nat, v : [DOMAIN v -> Nat]] |->
                    [i |-> s.i + bucket(j),
                     v |-> [m \in DOMAIN v |->
                              IF m \in s.i..(s.i + bucket(j) - 1) THEN j ELSE s.v[m]]]]]
    IN After([i |-> 0, v |-> v], m_max(v) + 1, Fill).v

\* (index - 1) / 2 of the code rounds towards 0: the parent of the root is it.
Parent(index) == IF index = 0 THEN 0 ELSE (index - 1) \div 2

heapInsert(v, index) ==
    LET Up == [s \in [i : DOMAIN v, v : Like(v)] |->
                 IF s.v[s.i] > s.v[Parent(s.i)]
                 THEN [i |-> Parent(s.i), v |-> swap(s.v, s.i, Parent(s.i))] ELSE s]
    IN After([i |-> index, v |-> v], index, [k \in Index(index) |-> Up]).v

heapify(v, n) ==
    LET Largest(w, left) == IF left + 1 < n /\ w[left + 1] > w[left] THEN left + 1 ELSE left
        Down == [s \in [i : DOMAIN v, v : Like(v)] |->
                   LET left == 2 * s.i + 1  child == Largest(s.v, left)
                   IN  IF left >= n \/ s.v[child] <= s.v[s.i] THEN s
                       ELSE [i |-> child, v |-> swap(s.v, child, s.i)]]
    IN After([i |-> 0, v |-> v], n, [k \in Index(n) |-> Down]).v

heapSort(v) ==
    LET Push == [i \in DOMAIN v |-> [w \in Like(v) |-> heapInsert(w, i)]]
        Pop  == [r \in DOMAIN v |-> [w \in Like(v) |->
                    LET n == length(v) - 1 - r         \* swap with --size, then heapify
                    IN  heapify(swap(w, 0, n), n)]]
    IN After(After(v, length(v), Push), length(v), Pop)

\* The element goes left while it is smaller than its left neighbour.
insertionSort(v) ==
    LET Place(w, i) == CHOOSE k \in 0..i : /\ k = 0 \/ w[i] >= w[k - 1]
                                          /\ \A m \in (k + 1)..i : w[i] < w[m - 1]
        Insert == [r \in Index(length(v) - 1) |-> [w \in Like(v) |->
                     LET i == r + 1  j == Place(w, i)
                     IN  [m \in DOMAIN v |-> IF m = j THEN w[i]
                                             ELSE IF m > j /\ m <= i THEN w[m - 1] ELSE w[m]]]]
    IN After(v, length(v) - 1, Insert)

\* Two sorted neighbours left..mid and mid+1..right; of equals the right one first.
merge_ForgetsRest(left, mid, right, v) ==
    LET Take == [s \in [i : Nat, j : Nat, tmp : Seq(Value)] |->
                   IF s.i <= mid /\ s.j <= right /\ v[s.i] < v[s.j]
                   THEN [i |-> s.i + 1, j |-> s.j, tmp |-> Append(s.tmp, v[s.i])]
                   ELSE IF s.j <= right
                   THEN [i |-> s.i, j |-> s.j + 1, tmp |-> Append(s.tmp, v[s.j])]
                   ELSE s]
        tmp  == After([i |-> left, j |-> mid + 1, tmp |-> <<>>], right - left + 1,
                      [k \in 0..(right - left) |-> Take]).tmp
    IN [m \in DOMAIN v |-> IF m - left + 1 \in DOMAIN tmp THEN tmp[m - left + 1] ELSE v[m]]

merge(left, mid, right, v) ==
    LET Take == [s \in [i : Nat, j : Nat, tmp : Seq(Value)] |->
                   IF s.i <= mid /\ (s.j <= right => v[s.i] < v[s.j])
                   THEN [i |-> s.i + 1, j |-> s.j, tmp |-> Append(s.tmp, v[s.i])]
                   ELSE [i |-> s.i, j |-> s.j + 1, tmp |-> Append(s.tmp, v[s.j])]]
        tmp  == After([i |-> left, j |-> mid + 1, tmp |-> <<>>], right - left + 1,
                      [k \in 0..(right - left) |-> Take]).tmp
    IN [m \in DOMAIN v |-> IF m \in left..right THEN tmp[m - left + 1] ELSE v[m]]

mergeSort(l, r, v) ==
    LET sort[p \in (DOMAIN v) \X (DOMAIN v) \X Like(v)] ==
        LET left == p[1]  right == p[2]  mid == (left + right) \div 2  IN
        IF left >= right THEN p[3]
        ELSE merge(left, mid, right, sort[<<mid + 1, right, sort[<<left, mid, p[3]>>]>>])
    IN sort[<<l, r, v>>]

\* The pivot, drawn at random, goes to L; smaller or equal elements move before
\* it, larger ones to the end.  The result and the pivot's place.
partition(L, R, v, pivot) ==
    LET Turn == [s \in [l : L..R, more : L..R, v : Like(v)] |->
                   IF s.l >= s.more THEN s
                   ELSE IF s.v[s.l + 1] <= s.v[s.l]
                   THEN [l |-> s.l + 1, more |-> s.more, v |-> swap(s.v, s.l + 1, s.l)]
                   ELSE [l |-> s.l, more |-> s.more - 1, v |-> swap(s.v, s.l + 1, s.more)]]
    IN After([l |-> L, more |-> R, v |-> swap(v, pivot, L)], R - L, [k \in Index(R - L) |-> Turn])

\* Every result the draws of the pivots allow.
quickSort(first, last, v) ==
    LET sort[p \in (0..(last + 1)) \X ((-1)..last) \X Like(v)] ==
        LET L == p[1]  R == p[2]  IN
        IF L >= R THEN {p[3]}
        ELSE UNION {LET s == partition(L, R, p[3], pivot)
                    IN  UNION {sort[<<s.l + 1, R, x>>] : x \in sort[<<L, s.l - 1, s.v>>]} :
                        pivot \in L..R}
    IN sort[<<first, last, v>>]

selectionSort(v) ==
    LET Least(w, i) == CHOOSE j \in i..(length(v) - 1) :
                          /\ \A k \in i..(length(v) - 1) : w[j] <= w[k]
                          /\ \A k \in i..(j - 1) : w[j] < w[k]
        Select == [i \in DOMAIN v |-> [w \in Like(v) |-> swap(w, i, Least(w, i))]]
    IN After(v, length(v), Select)

------------------------------------------------------------------------------
\* The arrays that can be drawn: any elements of the range.
generateRandomArray == UNION {[Index(n) -> Value] : n \in 1..MaxLength}

SortInit == original = <<>> /\ nums = <<>> /\ choose = 0

Draw ==
    /\ choose = 0 /\ original = <<>>
    /\ \E v \in generateRandomArray : original' = v /\ nums' = v
    /\ UNCHANGED choose

\* The menu: a fresh copy of the array and one sort; a sort leaves an array of
\* fewer than two elements alone.
Choose(c) ==
    LET v == original IN
    /\ original # <<>> /\ choose = 0
    /\ nums' \in IF length(v) < 2 THEN {v}
                 ELSE CASE c = 1 -> {bubbleSort(v)}
                        [] c = 2 -> {bucketSort(v)}
                        [] c = 3 -> {heapSort(v)}
                        [] c = 4 -> {insertionSort(v)}
                        [] c = 5 -> {mergeSort(0, length(v) - 1, v)}
                        [] c = 6 -> quickSort(0, length(v) - 1, v)
                        [] c = 7 -> {selectionSort(v)}
    /\ choose' = c
    /\ UNCHANGED original

SortNext == Draw \/ \E c \in 1..7 : Choose(c)

------------------------------------------------------------------------------
(* Properties. *)

\* Whatever sort of sort_impl.h is chosen, and whatever pivots quickSort draws,
\* the array ends up in ascending order and holds each value as often as before.
SortedAndSame ==
    choose # 0 =>
        /\ \A i \in 1..(length(nums) - 1) : nums[i - 1] <= nums[i]
        /\ \A x \in Value : Cardinality({i \in DOMAIN nums : nums[i] = x})
                              = Cardinality({i \in DOMAIN original : original[i] = x})
==============================================================================
