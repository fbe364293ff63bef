-------------------------------- MODULE MCVFS --------------------------------
(***************************************************************************)
(* VFS on a table of five nodes: the root, a seeded directory /a and file  *)
(* /a/b, and two nodes to create.  The paths reach the same nodes by       *)
(* absolute and relative names and through `..'.                           *)
(***************************************************************************)
EXTENDS VFS

Abs(parts) == [abs |-> TRUE, parts |-> parts]
Rel(parts) == [abs |-> FALSE, parts |-> parts]

MCPaths == {Abs(<<"a">>), Abs(<<"a", "b">>), Abs(<<"b">>), Rel(<<"b">>), Rel(<<"..">>),
            Rel(<<"..", "a", "">>)}
MCSeedDirs == <<Abs(<<"a">>)>>
MCSeedFiles == <<[path |-> Abs(<<"a", "b">>), content |-> "x"]>>
=============================================================================
