--------------------------- MODULE MCContextFiles --------------------------
(* ContextFiles with two entities: one whose events fill its buffer, and   *)
(* one without any.                                                         *)
EXTENDS ContextFiles

MCOrder == <<"a", "b">>
MCMaxEmits == [a |-> 3, b |-> 0]
=============================================================================
