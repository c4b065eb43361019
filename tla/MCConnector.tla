---------------------------- MODULE MCConnector -----------------------------
(* Instances of Connector for TLC, with two tenants.                        *)
EXTENDS Connector

CONSTANTS A, B, keyA, keyB, secretA, secretB

SecretDef == [k \in Keys |-> IF k = keyA THEN secretA ELSE secretB]
Body(tenant, key, secret, enabled) ==
    [tenant |-> tenant, key |-> key, secret |-> secret, enabled |-> enabled]

\* Another tenant with its key; a good key, the secret left out, for a tenant
\* it is not of; and off.
BodiesDef == {Body(B, keyB, secretB, TRUE), Body(B, keyA, NoSecret, TRUE),
              Body(A, keyA, NoSecret, FALSE)}

EnvDef == {[tenant |-> A, key |-> keyA, secret |-> secretA], Null}
AlwaysDef == EnvDef \ {Null}
=============================================================================
