--------------------------- MODULE MCFileStorage ----------------------------
(* A small instance of FileStorage: two handlers, two files, two clock values, *)
(* an update of the category at one and of the tags at the other.              *)
EXTENDS FileStorage

MCUpdates == {<<"t1", {"category"}>>, <<"t2", {"tags"}>>}
=============================================================================
