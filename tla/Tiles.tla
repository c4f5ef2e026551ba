-------------------------------- MODULE Tiles --------------------------------
(***************************************************************************)
(* bday5/challenge-problems: sorting and multiplying matrices in tiles     *)
(* (mergesort.c, matrix.c) and the tests that test_mat.c and               *)
(* test_mat_opt.c run on the results (testing.c).                          *)
(*                                                                         *)
(* Arrays are functions on 0 .. n - 1.  An element of a product is a sum   *)
(* of doubles, which depends on the order of its terms: it is the sequence *)
(* of the terms added, each the indices of the factors in a and b.         *)
(***************************************************************************)
EXTENDS Integers, Sequences, SequencesExt

\* 0, 1, .., n - 1, the rounds of a loop.
Upto(n) == [i \in 1 .. n |-> i - 1]

-----------------------------------------------------------------------------
(* mergesort.c                                                              *)

\* The copies L and R of arr[l .. m] and arr[m+1 .. r] are merged back; of
\* equal elements that of L comes first.
merge(arr, l, m, r) ==
    LET n1 == m - l + 1
        n2 == r - m
        L  == [i \in 0 .. n1 - 1 |-> arr[l + i]]
        R  == [j \in 0 .. n2 - 1 |-> arr[m + 1 + j]]
        Take(acc, k) ==
          IF acc.i < n1 /\ (acc.j < n2 => L[acc.i] <= R[acc.j])
          THEN [acc EXCEPT !.arr[l + k] = L[acc.i], !.i = @ + 1]
          ELSE [acc EXCEPT !.arr[l + k] = R[acc.j], !.j = @ + 1]
    IN  FoldLeft(Take, [arr |-> arr, i |-> 0, j |-> 0], Upto(n1 + n2)).arr

RECURSIVE mergeSort(_, _, _)
mergeSort(arr, l, r) ==
    IF l >= r THEN arr
    ELSE LET m == l + (r - l) \div 2
         IN  merge(mergeSort(mergeSort(arr, l, m), m + 1, r), l, m, r)

\* Slip: a last, short tile is not counted.
nTilesWhole(size, tile) == size \div tile

nTiles(size, tile) ==
    IF size % tile = 0 THEN size \div tile ELSE size \div tile + 1

\* The last element of a tile.
LastOf(size, tile, i) ==
    IF size - i * tile < tile THEN size - 1 ELSE (i + 1) * tile - 1

\* Every tile is sorted, then merged with all that is before it.
sort2D(arr, m, n, tile) ==
    LET size == m * n
        Sort(x, i)  == mergeSort(x, i * tile, LastOf(size, tile, i))
        Merge2(x, i) == merge(x, 0, (i + 1) * tile - 1, LastOf(size, tile, i + 1))
    IN  FoldLeft(Merge2, FoldLeft(Sort, arr, Upto(nTiles(size, tile))),
                 Upto(nTiles(size, tile) - 1))

test_sorting(arr, size) == \A i \in 1 .. size - 1 : arr[i] >= arr[i - 1]

-----------------------------------------------------------------------------
(* matrix.c                                                                 *)

\* The terms that are added to c[i][j] for the k of a range.
Terms(size, i, j, first, count) ==
    [k \in 1 .. count |-> <<i * size + (first + k - 1), (first + k - 1) * size + j>>]

\* mat_multiply, whatever c held.
mat_multiply(size) ==
    [x \in 0 .. size * size - 1 |-> Terms(size, x \div size, x % size, 0, size)]

\* The cells of tile <<ti, tj>>, ti and tj < n_tiles, are zeroed, and for every tk
\* the product of tiles <<ti, tk>> and <<tk, tj>> is added; only whole tiles are.
mat_multiply_opt(c, size, tile) ==
    LET n_tiles == size \div tile
        Add(x, sum, tk) ==
          sum \o Terms(size, x \div size, x % size, tk * tile, tile)
        Tiled(i) == i \div tile < n_tiles
    IN  [x \in DOMAIN c |->
            IF Tiled(x \div size) /\ Tiled(x % size)
            THEN FoldLeft(LAMBDA sum, tk : Add(x, sum, tk), <<>>, Upto(n_tiles))
            ELSE c[x]]

\* Sums are compared with !=.
test_mat_multipy(c, size) ==
    \A i, j \in 0 .. size - 1 :
        c[i * size + j] = Terms(size, i, j, 0, size)

=============================================================================
