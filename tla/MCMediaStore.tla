----------------------------- MODULE MCMediaStore -----------------------------
(* Instances of MediaStore for TLC: an empty content, some of one byte, a     *)
(* large one of two.                                                          *)
EXTENDS MediaStore

CONSTANTS Empty, Large

MCSizeOf == [c \in Contents |-> IF c = Empty THEN 0 ELSE IF c = Large THEN 2 ELSE 1]

MCTTLs == {1, Never}

=============================================================================
