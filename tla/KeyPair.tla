------------------------------- MODULE KeyPair -------------------------------
(***************************************************************************)
(* What the attribute authority promises to those who use its keys: each   *)
(* pair replaces the one before it, the public key first and then the      *)
(* master key, and no update starts before the last one is complete.       *)
(* AttributeAuthority implements it when its updates are made one at a     *)
(* time; KeyDelivery uses it.                                              *)
(***************************************************************************)
EXTENDS Naturals

VARIABLES
    pk,     \* the number of the pair the public key is of
    msk     \* the number of the pair the master key is of

vars == <<pk, msk>>

Init == pk = 0 /\ msk = 0

ReplacePk == pk = msk /\ pk' = pk + 1 /\ UNCHANGED msk

ReplaceMsk == pk # msk /\ msk' = pk /\ UNCHANGED pk

\* A new authority starts with a pair of its own.
Renew == pk' = pk + 1 /\ msk' = pk + 1

Next == ReplacePk \/ ReplaceMsk \/ Renew

Spec == Init /\ [][Next]_vars
==============================================================================
