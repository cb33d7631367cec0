----------------------------- MODULE MCRegistry -----------------------------
(* An instance of Registry: one thread on many handles.                     *)
EXTENDS Registry

CONSTANT t1

OneThread == {t1}

============================================================================
