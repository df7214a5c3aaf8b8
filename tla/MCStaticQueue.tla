---------------------------- MODULE MCStaticQueue ----------------------------
(* The queue, on a small instance. *)
EXTENDS StaticQueue

\* m_array[N_MEMB] may read as either; or as in use, where the program goes on.
Either == {TRUE, FALSE}
InUse == {TRUE}
=============================================================================
