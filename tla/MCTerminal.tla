---------------------------- MODULE MCTerminal ----------------------------
(***************************************************************************)
(* A contact and a channel for TLC.                                        *)
(***************************************************************************)
EXTENDS Terminal

CONSTANTS contact, channel
===========================================================================
