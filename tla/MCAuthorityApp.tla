---------------------------- MODULE MCAuthorityApp ----------------------------
EXTENDS AuthorityApp

CONSTANTS alice, bob, u1, p1, p2, s1, s2, s3, a1

\* Alice, the program's consumer, sends s1; bob's s2 has no payload and s3 is
\* unreadable; p2 is a wildcard query.
AllForms ==
    [q \in Queries |->
        CASE q = s2 -> [client |-> bob, form |-> "bare"]
          [] q = s3 -> [client |-> bob, form |-> "garbled"]
          [] q = p2 -> [client |-> bob, form |-> "wild"]
          [] OTHER  -> [client |-> alice, form |-> "good"]]
JustA1 == {a1}
Attrs == {JustA1}
==============================================================================
