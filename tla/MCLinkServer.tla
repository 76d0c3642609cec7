----------------------------- MODULE MCLinkServer -----------------------------
(* Two links and two positions; a configuration names both links or too few *)
(* of them.                                                                 *)
EXTENDS LinkServer

CONSTANTS l0, l1
MCElinks == {{l0, l1}, {l0}}
=============================================================================
