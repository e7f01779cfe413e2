--------------------------- MODULE MCAccessManager ----------------------------
EXTENDS AccessManager

CONSTANTS t1, t2, q1, q2, q3, q4

\* q3 is a wildcard query, q4 names no topic.
Requests ==
    [q \in Queries |->
        CASE q = q2 -> [topic |-> t2, form |-> "good"]
          [] q = q3 -> [topic |-> t1, form |-> "wild"]
          [] q = q4 -> [topic |-> t1, form |-> "root"]
          [] OTHER  -> [topic |-> t1, form |-> "good"]]
==============================================================================
