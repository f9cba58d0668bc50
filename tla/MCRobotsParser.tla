---------------------------- MODULE MCRobotsParser ----------------------------
(* Two agents, two paths, one delay: every file of up to MaxLines lines.     *)
EXTENDS RobotsParser
=============================================================================
