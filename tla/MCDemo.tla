------------------------------- MODULE MCDemo -------------------------------
(* The dictionaries of MCFactGraph behind the demonstration page.          *)
EXTENDS MCFactGraph, Demo
=============================================================================
