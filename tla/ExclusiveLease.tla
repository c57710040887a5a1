---------------------------- MODULE ExclusiveLease ----------------------------
(***************************************************************************)
(* What claims promise about one task: it is leased to one owner at a      *)
(* time, until a deadline.  A lease in force is never replaced; one that   *)
(* has lapsed is replaced only under a larger fence; a lease can be given  *)
(* back.  Claims.tla is the pair of operations on files that implements it.*)
(***************************************************************************)
EXTENDS Naturals

CONSTANTS Leases, NoLease

VARIABLES lease, now

Init == lease = NoLease /\ now = 0

InForce(l) == l # NoLease /\ now < l.expires

Grant(l) == /\ ~InForce(lease)
            /\ lease # NoLease => l.fence > lease.fence
            /\ lease' = l
            /\ UNCHANGED now

GiveBack == /\ lease # NoLease
            /\ lease' = NoLease
            /\ UNCHANGED now

Tick == now' = now + 1 /\ UNCHANGED lease

Next == GiveBack \/ Tick \/ \E l \in Leases : Grant(l)

Spec == Init /\ [][Next]_<<lease, now>>
===============================================================================
