----------------------------- MODULE MCRhibIngest -----------------------------
(* RhibIngest for TLC: a file of up to two lines beside one of up to one line. *)
EXTENDS RhibIngest, TLC

CONSTANTS f1, f2, r1

MCMaxLines == f1 :> 2 @@ f2 :> 1

\* Every kind of line, and a record that both files hold.
MCKinds == f1 :> {r1, "raise", "other"} @@ f2 :> {r1}

==============================================================================
