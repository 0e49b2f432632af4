---------------------------- MODULE MCAisReceiver ----------------------------
(* AisReceiver for TLC: two messages of two fragments and one of one. *)
EXTENDS AisReceiver, TLC

CONSTANTS m1, m2, m3, a, b, c

MCParts == m1 :> 2 @@ m2 :> 2 @@ m3 :> 1
MCIdent == m1 :> a @@ m2 :> b @@ m3 :> c

\* Sequence numbers are digits and come round again.
MCIdentAgain == m1 :> a @@ m2 :> a @@ m3 :> c

==============================================================================
