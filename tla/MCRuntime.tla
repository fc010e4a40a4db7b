----------------------------- MODULE MCRuntime -----------------------------
(***************************************************************************)
(* Runtime on a small instance: two workers of one kind or two, one with a *)
(* cache of one entry, and two jobs, of the same computation or not, which *)
(* needs the network or does not.                                          *)
(***************************************************************************)
EXTENDS Runtime

CONSTANTS w1, w2

TwoWorkers == {w1, w2}
OneCache == {w1}
TwoKeys == {"local", "online"}
Online == {"online"}
=============================================================================
