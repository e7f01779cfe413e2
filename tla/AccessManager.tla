---------------------------- MODULE AccessManager -----------------------------
(***************************************************************************)
(* The access manager (src/src/access_manager.rs): the store of policies   *)
(* by topic, and the handler that answers policy queries one at a time     *)
(* from its queue.  The key expression of a query names a topic below      *)
(* access_manager/policy ("good"), contains wildcards ("wild"), or is the  *)
(* prefix itself ("root"), which the queryable's ** matches too and in     *)
(* which the handler finds no topic.                                       *)
(***************************************************************************)
EXTENDS Naturals, Sequences

CONSTANTS
    Topics, Policies,
    Queries,        \* policy queries
    Request,        \* the topic and the form of each query
    None            \* no policy, no query in hand

ASSUME RequestAssumption ==
    Request \in [Queries -> [topic : Topics, form : {"good", "wild", "root"}]]
ASSUME NoneAssumption == None \notin Policies /\ None \notin Queries

VARIABLES
    policies,       \* topic -> policy, or None
    queue,          \* queries waiting at the queryable
    handler,        \* progress of handle_policy_query
    query,          \* what became of each query
    inForce         \* history: the policies, or None, that the topic of each
                    \*   query has had since the queryable accepted it

vars == <<policies, queue, handler, query, inForce>>

\* The handler has not declared its queryable, waits for a query, has received
\* one, holds the policy of its topic, or has ended.
Handlers == [at : {"starting", "recv", "got", "policy", "stopped"},
             query : Queries \cup {None}, policy : Policies \cup {None}]
Starting == [at |-> "starting", query |-> None, policy |-> None]
Receiving == [Starting EXCEPT !.at = "recv"]
Stopped == [Starting EXCEPT !.at = "stopped"]
Outcomes == [st : {"unsent", "waiting", "replied", "unanswered"},
             policy : Policies \cup {None}]
Outcome(st) == [st |-> st, policy |-> None]

TypeOK ==
    /\ policies \in [Topics -> Policies \cup {None}]
    /\ queue \in Seq(Queries)
    /\ handler \in Handlers
    /\ query \in [Queries -> Outcomes]
    /\ inForce \in [Queries -> SUBSET (Policies \cup {None})]

Init ==
    /\ policies = [tp \in Topics |-> None]
    /\ queue = <<>>
    /\ handler = Starting
    /\ query = [q \in Queries |-> Outcome("unsent")]
    /\ inForce = [q \in Queries |-> {}]

\* set_policy.
SetPolicy(tp, pol) ==
    /\ policies' = [policies EXCEPT ![tp] = pol]
    /\ inForce' = [q \in Queries |->
           IF Request[q].topic = tp /\ query[q].st = "waiting"
           THEN inForce[q] \cup {pol} ELSE inForce[q]]
    /\ UNCHANGED <<queue, handler, query>>

\* A get without queryable finishes at once.
Send(q) ==
    /\ query[q].st = "unsent"
    /\ IF handler.at \in {"starting", "stopped"}
       THEN /\ query' = [query EXCEPT ![q] = Outcome("unanswered")]
            /\ UNCHANGED <<queue, inForce>>
       ELSE /\ query' = [query EXCEPT ![q] = Outcome("waiting")]
            /\ queue' = Append(queue, q)
            /\ inForce' = [inForce EXCEPT ![q] = {policies[Request[q].topic]}]
    /\ UNCHANGED <<policies, handler>>

Declare ==
    /\ handler.at = "starting"
    /\ handler' = Receiving
    /\ UNCHANGED <<policies, queue, query, inForce>>

\* The unwrap panics: the queryable goes away, and with it the query in hand
\* and those waiting.
Panic ==
    /\ handler' = Stopped
    /\ queue' = <<>>
    /\ query' = [q \in Queries |->
           IF \E i \in DOMAIN queue : queue[i] = q
           THEN Outcome("unanswered") ELSE query[q]]

\* A wildcard query is ignored.
Receive ==
    /\ handler.at = "recv"
    /\ queue # <<>>
    /\ LET q == Head(queue)
       IN  \/ /\ Request[q].form = "wild"
              /\ queue' = Tail(queue)
              /\ query' = [query EXCEPT ![q] = Outcome("unanswered")]
              /\ UNCHANGED handler
           \/ /\ Request[q].form = "root"
              /\ Panic
           \/ /\ Request[q].form = "good"
              /\ queue' = Tail(queue)
              /\ handler' = [handler EXCEPT !.at = "got", !.query = q]
              /\ UNCHANGED query
    /\ UNCHANGED <<policies, inForce>>

\* Slips that the properties have to notice: whatever the topic, some policy
\* or none is found; a query of a topic without policy stays open; the reply
\* carries the topic.
SomePolicy(q) == LET known == {tp \in Topics : policies[tp] # None}
                 IN  IF known = {} THEN None
                     ELSE policies[CHOOSE tp \in known : TRUE]
NoPolicy(q) == None
KeepOpen(q) == UNCHANGED query
TopicAsAnswer == Request[handler.query].topic

\* get_policy.
Policy(q) == policies[Request[q].topic]

Deny(q) == query' = [query EXCEPT ![q] = Outcome("unanswered")]

\* A query of a topic without policy gets no reply.
GetPolicy ==
    /\ handler.at = "got"
    /\ IF Policy(handler.query) = None
       THEN Deny(handler.query) /\ handler' = Receiving
       ELSE /\ handler' = [handler EXCEPT !.at = "policy",
                                          !.policy = Policy(handler.query)]
            /\ UNCHANGED query
    /\ UNCHANGED <<policies, queue, inForce>>

Answer == handler.policy

Reply ==
    /\ handler.at = "policy"
    /\ query' = [query EXCEPT ![handler.query] =
                    [st |-> "replied", policy |-> Answer]]
    /\ handler' = Receiving
    /\ UNCHANGED <<policies, queue, inForce>>

HandlePolicy == Declare \/ Receive \/ GetPolicy \/ Reply

Next == \/ \E tp \in Topics, pol \in Policies : SetPolicy(tp, pol)
        \/ \E q \in Queries : Send(q)
        \/ HandlePolicy

\* The handler's task runs; nobody has to set a policy or send a query.
Spec == Init /\ [][Next]_vars /\ WF_vars(HandlePolicy)
-----------------------------------------------------------------------------
\* A query is answered with a policy its topic has had at some moment since
\* the query was accepted, although the policy may be replaced while the
\* query waits and between look-up and reply: never with a policy replaced
\* before, nor with another topic's.
AnswerInForce ==
    \A q \in Queries : query[q].st = "replied" => query[q].policy \in inForce[q]

\* An accepted query that names a topic fails only because the topic has at
\* some moment since been without policy, or because the handler has ended.
DeniedOnlyWithoutPolicy ==
    \A q \in Queries :
        /\ query[q].st = "unanswered" /\ Request[q].form = "good"
        /\ inForce[q] # {} /\ None \notin inForce[q]
        => handler.at = "stopped"

\* Every query finishes, also those caught by the end of the handler.
EveryQueryEnds ==
    \A q \in Queries :
        (query[q].st = "waiting") ~> (query[q].st \in {"replied", "unanswered"})
==============================================================================
