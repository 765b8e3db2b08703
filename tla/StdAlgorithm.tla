---------------------------- MODULE StdAlgorithm ----------------------------
(***************************************************************************)
(* The libstdc++ algorithms the allocator calls on short vectors (one      *)
(* element per app or per worker), written out because their results on    *)
(* ties, or under a comparator that is not a strict weak order, are what   *)
(* the allocator goes on with.                                             *)
(***************************************************************************)
EXTENDS Naturals, Sequences, SequencesExt

(* std::sort on at most 16 elements is libstdc++'s                       *)
(* __insertion_sort: an element that goes before the first moves to the    *)
(* front, any other is shifted back while it goes before its predecessor.  *)
(* Less need not be a strict weak order; the result is then whatever this  *)
(* procedure produces.                                                     *)
StdSort(s, Less(_, _)) ==
    LET RECURSIVE Back(_, _, _)
        Back(t, v, k) == IF Less(v, t[k]) THEN Back(t, v, k - 1) ELSE k + 1
        RECURSIVE Pass(_, _)
        Pass(t, i) ==
            IF i > Len(t) THEN t
            ELSE LET j == IF Less(t[i], t[1]) THEN 1 ELSE Back(t, t[i], i - 1)
                 IN  Pass(InsertAt(RemoveAt(t, i), j, t[i]), i + 1)
    IN  Pass(s, 2)

(* std::nth_element on at most 3 elements: __introselect leaves its loop   *)
(* at once and runs __insertion_sort over the whole range, so the range     *)
(* comes out sorted, equal elements in their previous order.               *)
NthElementSmall(s, Less(_, _)) == StdSort(s, Less)
=============================================================================
