---------------------------- MODULE MCFeaturePath ----------------------------
(* Small instances of FeaturePath for TLC. *)
EXTENDS FeaturePath

\* Lines of two neighbouring columns share a signature.
HalfColumn(line) == line.col \div 2

\* "If tot cnts are same and same as vetex tot index, BF processing was
\* correct" (CacheReplacement.cpp:508): the index vectors of the Bloom filters
\* cover every row, and a row that is to use an overlapped filter has one.
ASSUME FiltersCoverRows ==
    \A rows \in 1..12, filters \in 1..5, overlap \in {0, 1, 33, 50, 99, 100} :
        LET own == bfIdx(rows, filters)
            ovl == ovlBFIdx(rows, filters, overlap)
            use == useOvlBF(rows, filters, overlap)
        IN  /\ Len(own) = rows /\ Len(ovl) = rows /\ Len(use) = rows
            /\ \A r \in 1..rows : use[r] => ovl[r] \in 0..filters-1
=============================================================================
