------------------------------ MODULE MCScopes ------------------------------
(* Paths whose names collide, in three scopes: the one there is before any *)
(* file, and those of two files, switched to again and again.              *)
EXTENDS Scopes

Nm(stem, sfx) == [stem |-> stem, sfx |-> sfx]

\* Names collide as the same identifier, also one that is only the beginning of
\* a path's last element, and as a name that looks like another's resolution;
\* those three make the probing loop run twice.  One path has no identifier.
MCPaths == {"database/sql", "x/sql-driver", "y/sql_1", "y/2d"}

MCAnonymous == {"y/2d"}
MCExact     == {"database/sql", "y/sql_1"}
MCStems     == {"sql", "pkg"}

MCLeadIdent ==
  [p \in PkgPaths \ MCAnonymous |->
     IF p = "y/sql_1" THEN Nm("sql", <<1>>) ELSE Nm("sql", <<>>)]
=============================================================================
