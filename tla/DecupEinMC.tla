----------------------------- MODULE DecupEinMC -----------------------------
(***************************************************************************)
(* DecupEin for TLC.  The exclusive disjunction, which DecupEin counts bit *)
(* by bit so that it can be reasoned about, is compared with the operator  *)
(* of the community modules.                                               *)
(***************************************************************************)
EXTENDS DecupEin

LOCAL INSTANCE Bitwise

\* exor is a fold of ^ over the bytes.
ASSUME ExorOfTwo == \A a, b \in Bytes : Exor(<<a, b>>) = a ^^ b

Samples == {0, 1, 17, 85, 128, 170, 240, 255}

ASSUME ExorOfThree == \A a, b, c \in Samples : Exor(<<a, b, c>>) = (a ^^ b) ^^ c

=============================================================================
