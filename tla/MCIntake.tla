------------------------------ MODULE MCIntake ------------------------------
(* A small instance of Intake for TLC: a message that gives its sender and *)
(* one that names an address only in the text.                             *)
EXTENDS Intake, TLC

CONSTANTS Offer, Anonymous, Ann, Bob

Messages == {Offer, Anonymous}
People   == {Ann, Bob}
Senders  == (Offer :> Ann) @@ (Anonymous :> None)
=============================================================================
