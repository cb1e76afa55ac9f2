---------------------------- MODULE MCS3Download ----------------------------
(***************************************************************************)
(* A bucket for S3Download.  Of one application it may have the key of its *)
(* folder, a plain object, a compressed one with the same name but for its *)
(* suffix, and one further down; of another application a plain object     *)
(* whose name ends with .gz.                                               *)
(***************************************************************************)
EXTENDS S3Download

Key(path, gz, gzip, p) == [path |-> path, gz |-> gz, gzip |-> gzip, prefix |-> p]

MCKeys ==
  <<Key(<<"a">>, FALSE, FALSE, 1),
    Key(<<"a", "vrg">>, FALSE, FALSE, 1),
    Key(<<"a", "vrg">>, TRUE, TRUE, 1),
    Key(<<"a", "x", "pvc">>, TRUE, TRUE, 1),
    Key(<<"b", "vrg">>, TRUE, FALSE, 2)>>
=============================================================================
