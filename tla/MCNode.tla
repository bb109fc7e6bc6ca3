------------------------------- MODULE MCNode -------------------------------
(* A node for TLC: two builds of two blocks, one of them in the factory    *)
(* partition, and a size limit that lets a body be longer than a build.    *)
EXTENDS Node
TwoBuilds == {"old", "new"}
=============================================================================
