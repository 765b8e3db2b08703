--------------------------- MODULE MC_BlockBuffer ---------------------------
(* One worker, one tenant, three slots (two in the tenant's partition, one *)
(* unallocated), two data blocks of inode 2 and one shared metadata block. *)
EXTENDS BlockBuffer

CONSTANTS s1, s2, s3, b1, b2, b3, a1

MCSlots == {s1, s2, s3}
MCBlocks == {b1, b2, b3}
MCApps == {a1}
MCBlockIndex == (b1 :> 2) @@ (b2 :> 2) @@ (b3 :> 0)
MCInitTag == (s1 :> a1) @@ (s2 :> a1) @@ (s3 :> UNALLOC)

\* a smaller buffer for runs that let a block be rewritten: one tenant slot,
\* one unallocated slot, one data block of inode 2, one metadata block
MCSlotsSmall == {s1, s3}
MCBlocksSmall == {b1, b3}
MCBlockIndexSmall == (b1 :> 2) @@ (b3 :> 0)
MCInitTagSmall == (s1 :> a1) @@ (s3 :> UNALLOC)

\* s1, s2 start in the same partition and b1, b2 belong to the same inode
MCSymmetry == Permutations({s1, s2}) \cup Permutations({b1, b2})

\* bounds the pin counts that a broken release can drive below zero
MCConstraint == \A s \in Slots : refs[s] >= -1
=============================================================================
