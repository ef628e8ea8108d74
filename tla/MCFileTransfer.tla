---------------------------- MODULE MCFileTransfer ----------------------------
(***************************************************************************)
(* Two files of two chunks for TLC.                                        *)
(***************************************************************************)
EXTENDS FileTransfer, TLC

CONSTANTS f1, f2
===============================================================================
