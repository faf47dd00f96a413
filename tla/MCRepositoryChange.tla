-------------------------- MODULE MCRepositoryChange --------------------------
(***************************************************************************)
(* Instances of RepositoryChange for TLC.                                  *)
(***************************************************************************)
EXTENDS RepositoryChange, TLC

CONSTANTS a, b

Op(type, path) == [type |-> type, path |-> path, dest |-> path]
Rename(path, dest) == [type |-> "rename", path |-> path, dest |-> dest]

\* Every operation type; two packets have two operations.
EveryType == {<<Op("create", a), Op("replace", b)>>, <<Op("delete", a)>>, <<Rename(a, b)>>, <<Op("chmod", b), Op("create", a)>>}

Foreign == {NoFile, [content |-> "old", exec |-> FALSE]}
===============================================================================
