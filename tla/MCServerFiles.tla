---------------------------- MODULE MCServerFiles ----------------------------
(* A small instance of ServerFiles for TLC: two mods share the name of their key
   file, one has none. *)
EXTENDS ServerFiles, TLC

CONSTANTS m1, m2, x1, x2, x3, x4

TwoModsets == m1 :> {x1, x2, x3} @@ m2 :> {x2, x4}

Names == x1 :> "k1" @@ x2 :> "k1" @@ x3 :> None @@ x4 :> "k2"

Uploads == {[password |-> "secret"], [hostName |-> "fun", other |-> "on"]}
=============================================================================
