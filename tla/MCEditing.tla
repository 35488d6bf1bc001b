----------------------------- MODULE MCEditing ------------------------------
(* An instance of Editing for TLC: two paths that hold one of two contents *)
(* or nothing, one of them writable.                                       *)
EXTENDS Editing, TLC

CONSTANTS p, q, a, b

MCPaths == {p, q}
MCWritable == {p}
MCContents == {a, b}
(* One replacement, and one that is followed by another that fails. *)
MCEdits == {<<<<a, b>>>>, <<<<b, a>>>>, <<<<a, b>>, <<a, b>>>>, <<<<b, a>>, <<b, a>>>>}

Alike == Permutations(MCContents)
=============================================================================
