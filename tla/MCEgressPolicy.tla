--------------------------- MODULE MCEgressPolicy ---------------------------
(* An instance of EgressPolicy with addresses of three bits: 0..3 is denied *)
(* by default, 6 is the Worker host, 7 a group address.                     *)
EXTENDS EgressPolicy, TLC

Block(address, prefix) == [address |-> address, prefix |-> prefix]
MCDefaultDeny == {Block(0, 2), Block(2, 2)}
MCHostAddresses == {6}
MCGroupAddresses == {7}
Web == [protocol |-> "tcp", portMin |-> 1, portMax |-> 1]
DenyUpper == [action |-> "deny", network |-> Block(4, 2), service |-> AnyService]
AllowUpper == [action |-> "allow", network |-> Block(4, 2), service |-> AnyService]
AllowWeb == [action |-> "allow", network |-> Block(0, 1), service |-> Web]
MCRuleChoices == {DenyUpper, AllowUpper, AllowWeb}
MCInitialRules == {DenyUpper}
Symmetry == Permutations(Admins)
MCProtected == {Block(5, 3)}
MCLocalProtected == {Block(0, 3)}
=============================================================================
