---------------------------- MODULE MCRsyncProcess ----------------------------
(* rsync with two descendants.                                             *)
EXTENDS RsyncProcess
=============================================================================
