------------------------------- MODULE MCPFind -------------------------------
(***************************************************************************)
(* A small tree for TLC.  Under the root: a subdirectory with two matching *)
(* files and a subdirectory of its own, one opendir refuses, one access()  *)
(* refuses, a matching file, and an entry stat fails on.                   *)
(***************************************************************************)
EXTENDS PFind

TreePath == {"/", "/a", "/a/b", "/a/f", "/a/b/f", "/x", "/y", "/f", "/broken"}
TreeKind == [p \in TreePath |->
  CASE p \in {"/", "/a", "/a/b"} -> "dir"
    [] p = "/x" -> "unopenable"
    [] p = "/y" -> "denied"
    [] p = "/broken" -> "unstatable"
    [] OTHER -> "match"]
TreeEntries == [p \in TreePath |->
  CASE p = "/" -> {"/a", "/x", "/y", "/f", "/broken"}
    [] p = "/a" -> {"/a/b", "/a/f"}
    [] p = "/a/b" -> {"/a/b/f"}
    [] OTHER -> {}]

=============================================================================
