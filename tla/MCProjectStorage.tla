--------------------------- MODULE MCProjectStorage ---------------------------
(* ProjectStorage on a small project: a collection, a folder in it, and a    *)
(* request in the folder.                                                    *)
EXTENDS ProjectStorage, TLC

CONSTANTS c, f, r

SmallHome == (c :> Root) @@ (f :> c) @@ (r :> f)
SmallAbove == (c :> {}) @@ (f :> {c}) @@ (r :> {f, c})
=============================================================================
