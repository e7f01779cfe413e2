------------------------- MODULE MCAttributeAuthority -------------------------
EXTENDS AttributeAuthority

CONSTANTS alice, carol, u1, p1, s1, s2, a1

\* Carol's RSA key is too small.
TwoClients ==
    [q \in Queries |->
        IF q = s2 THEN [client |-> carol, form |-> "small"]
        ELSE [client |-> alice, form |-> "good"]]

AttrsOrNone == {{}, {a1}}
==============================================================================
