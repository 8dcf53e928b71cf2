---------------------------- MODULE MCSimHarness ----------------------------
(* A stop text, a fail text that ends with it, and two values of the pins. *)
EXTENDS SimHarness
MCStop == <<"o", "k">>
MCFail == <<"n", "o", "k">>
MCExpect == <<1, 0>>
=============================================================================
