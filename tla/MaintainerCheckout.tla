------------------------ MODULE MaintainerCheckout --------------------------
(* The maintainers' checkout: integrations, a registry-check and an export of the *)
(* user kit work on the same three files.  Checks and exports only read them.     *)
EXTENDS RegistryCheck, KitExport

checkoutVars == <<vars, checkVars, kitVars, leftover>>

CheckoutInit == Init /\ CheckInit /\ KitInit

CheckoutNext ==
  \/ Next /\ CheckSees /\ CommitsLeave /\ UNCHANGED kitVars
  \/ CheckNext /\ UNCHANGED <<vars, kitVars, leftover>>
  \/ KitNext /\ UNCHANGED <<vars, checkVars, leftover>>

CheckoutSpec == CheckoutInit /\ [][CheckoutNext]_checkoutVars
=============================================================================
