--------------------------- MODULE SessionMC ---------------------------
(***************************************************************************)
(* Session for TLC.  Prompts are interchangeable, and so are the message   *)
(* ids the client gives them.                                              *)
(***************************************************************************)
EXTENDS Session, TLC

Symmetry == Permutations(Prompts) \cup Permutations(MessageIds)
=======================================================================
