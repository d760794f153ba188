---------------------------- MODULE MCProcessPool ----------------------------
(***************************************************************************)
(* Values for TLC: which processes fail, and the symmetry of connections.  *)
(***************************************************************************)
EXTENDS ProcessPool, TLC

Nobody     == {}
FirstChild == {0}
AnyChild   == Child
Anybody    == Proc
KillOrCtrlC == {{Parent}, Proc}
JustKill   == {{Parent}}
Clients    == Permutations(Conns)
=============================================================================
