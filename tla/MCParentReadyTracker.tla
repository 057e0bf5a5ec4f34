------------------------ MODULE MCParentReadyTracker ------------------------
(***************************************************************************)
(* The parent-ready tracker with windows of two slots, one block id per     *)
(* slot and a node that leads every other window.                           *)
(***************************************************************************)
EXTENDS ParentReadyTracker

MCId == {1}
MCMine == {2, 4}
=============================================================================
