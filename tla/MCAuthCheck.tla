---------------------------- MODULE MCAuthCheck ----------------------------
EXTENDS AuthCheck

CONSTANTS alice, bob

MCPolicies == {[trust |-> alice, prefixed |-> {}], [trust |-> NoOne, prefixed |-> {bob}]}

MCConfigs == {[w \in Whats |-> w],
              [w \in Whats |-> IF w = "checkuser" THEN "checkacl" ELSE ""]}
=============================================================================
