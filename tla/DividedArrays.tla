---------------------------- MODULE DividedArrays ----------------------------
(***************************************************************************)
(* Arrays that are worked on in parts: by the threads of find_max, and by  *)
(* the tiles of bday5, which are given the array of find_max before it     *)
(* starts.                                                                 *)
(***************************************************************************)
EXTENDS FindMax, Tiles, FiniteSets

\* An element before the multiplication: what is no term of a product.
Old == <<<<-1, -1>>>>

\* test_mat_opt.c fills c with other numbers.
OldMatrix(n) == [x \in 0 .. n * n - 1 |-> Old]

\* The elements of arr that are v.
Places(arr, v) == {i \in DOMAIN arr : arr[i] = v}

\* However the tile divides the array, also when it is larger or leaves a short
\* tile, sort2D returns the elements it was given in order, though it merges
\* from the beginning again and again.  A product in tiles passes the test, and
\* is the sum in the order of mat_multiply, exactly if the tile divides the
\* size; otherwise the cells behind the last whole tile keep what they had
\* (matrix.c:50).
TilesAreWhole ==
    (mainPc = "create" /\ ctr = 0 /\ num_threads = 1) =>
        LET n == num_elements
            c(tile) == mat_multiply_opt(OldMatrix(n), n, tile)
        IN  \A tile \in 1 .. n + 1 :
               /\ LET s == sort2D(a, n, 1, tile)
                  IN  /\ test_sorting(s, n)
                      /\ \A v \in Values :
                             Cardinality(Places(s, v)) = Cardinality(Places(a, v))
               /\ test_mat_multipy(c(tile), n) <=> n % tile = 0
               /\ test_mat_multipy(c(tile), n) <=> c(tile) = mat_multiply(n)
               /\ \A x \in 0 .. n * n - 1 :
                      c(tile)[x] = Old <=>
                          \/ x \div n >= n - (n % tile)
                          \/ x % n >= n - (n % tile)

=============================================================================
