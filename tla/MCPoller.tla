------------------------------ MODULE MCPoller ------------------------------
(***************************************************************************)
(* A small instance of DomainPoller: two domains with a comID each.        *)
(***************************************************************************)
EXTENDS DomainPoller

CONSTANTS d1, d2, com1, com2

TheDomains == {d1, d2}
TheComs == {com1, com2}
TheComOf == [d \in Domains |-> IF d = d1 THEN com1 ELSE com2]
=============================================================================
