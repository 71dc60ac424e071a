-------------------------- MODULE MCContextAssembly --------------------------
(* Texts of three lengths: an empty one, a short one and a long one.          *)
EXTENDS ContextAssembly

MCTokensOf == [text \in Contents |-> <<0, 1, 3>>[text + 1]]
=============================================================================
