----------------------------- MODULE MCPointPool ----------------------------
(***************************************************************************)
(* Points for TLC: a dropped key-value before one that another goroutine   *)
(* uses the key of, an array that cannot be made, uint64s to convert.      *)
(***************************************************************************)
EXTENDS PointPool, TLC

CONSTANTS p1, p2

Symmetry == Permutations({p1, p2})

In(kvs, u64) == [kvs |-> kvs, enableU64Field |-> u64]

MCInputs ==
    {In(<<<<"a", "S", "x">>, <<"b", "U", "1">>>>, TRUE), In(<<<<"", "S", "y">>, <<"b", "S", "x">>>>, TRUE),
     In(<<<<"a", "A", NoArray>>>>, TRUE), In(<<<<"a", "U", "2">>>>, FALSE)}

=============================================================================
