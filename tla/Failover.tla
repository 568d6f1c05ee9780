------------------------------ MODULE Failover ------------------------------
(***************************************************************************)
(* What the gateway promises one caller, with everything about breakers,   *)
(* benches, upstream calls and interleaving left out.                      *)
(*                                                                         *)
(* A request is given an ordered plan of placements ("slots").  It is      *)
(* answered by one slot, or refused once every slot has been given up, or  *)
(* cut off by the slot whose text the caller was already reading.  Text of *)
(* two slots never reaches the same caller.                                *)
(*                                                                         *)
(* AttemptChain is shown to implement this specification.                  *)
(***************************************************************************)
EXTENDS Naturals

CONSTANT Requests     \* the requests

VARIABLES status,     \* where each request stands
          slots,      \* how many placements its plan has
          gaveUp,     \* the slots it has given up on
          from        \* the slots whose text its caller has seen

fvars == <<status, slots, gaveUp, from>>

Statuses == {"new", "open", "answered", "refused", "cut off"}

FInit ==
    /\ status = [r \in Requests |-> "new"]
    /\ slots  = [r \in Requests |-> 0]
    /\ gaveUp = [r \in Requests |-> {}]
    /\ from   = [r \in Requests |-> {}]

\* The request is given a plan of any length.  A plan with no slot refuses it
\* at once.
Accept(r) ==
    /\ status[r] = "new"
    /\ slots'[r] \in Nat
    /\ slots'  = [slots EXCEPT ![r] = slots'[r]]
    /\ status' = [status EXCEPT ![r] = IF slots'[r] = 0 THEN "refused" ELSE "open"]
    /\ UNCHANGED <<gaveUp, from>>

\* Slots are given up in the order of the plan, and only while the caller has
\* seen nothing.
GiveUp(r) ==
    /\ status[r] = "open"
    /\ from[r] = {}
    /\ \E s \in 1..slots[r] :
          /\ gaveUp[r] = 1..(s - 1)
          /\ gaveUp' = [gaveUp EXCEPT ![r] = 1..s]
    /\ UNCHANGED <<status, slots, from>>

\* The first text of the slot being tried reaches the caller.
Commit(r) ==
    /\ status[r] = "open"
    /\ from[r] = {}
    /\ \E s \in 1..slots[r] :
          /\ gaveUp[r] = 1..(s - 1)
          /\ from' = [from EXCEPT ![r] = {s}]
    /\ UNCHANGED <<status, slots, gaveUp>>

Answer(r) ==
    /\ status[r] = "open"
    /\ gaveUp[r] # 1..slots[r]
    /\ status' = [status EXCEPT ![r] = "answered"]
    /\ UNCHANGED <<slots, gaveUp, from>>

Refuse(r) ==
    /\ status[r] = "open"
    /\ from[r] = {}
    /\ gaveUp[r] = 1..slots[r]
    /\ status' = [status EXCEPT ![r] = "refused"]
    /\ UNCHANGED <<slots, gaveUp, from>>

\* The slot the caller was reading fails: the request ends there.
CutOff(r) ==
    /\ status[r] = "open"
    /\ from[r] # {}
    /\ status' = [status EXCEPT ![r] = "cut off"]
    /\ gaveUp' = [gaveUp EXCEPT ![r] = @ \cup from[r]]
    /\ UNCHANGED <<slots, from>>

FNext ==
    \E r \in Requests :
        \/ Accept(r) \/ GiveUp(r) \/ Commit(r)
        \/ Answer(r) \/ Refuse(r) \/ CutOff(r)

FSpec == FInit /\ [][FNext]_fvars
=============================================================================
