---------------------------- MODULE MCFileFormat ----------------------------
(* Model-checking instance of FileFormat.                                  *)
EXTENDS FileFormat
=============================================================================
