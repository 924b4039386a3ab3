------------------------------- MODULE WorkPool -------------------------------
(***************************************************************************)
(* What _validate_all promises about a list of proxies                     *)
(* (check_validation.py): each is taken by one worker and stays in its     *)
(* hands until it is dealt with, however often it has to be checked again; *)
(* a list is given up only as a whole, and begun anew only when nobody     *)
(* has a proxy of it any more.                                             *)
(***************************************************************************)
EXTENDS Naturals

CONSTANTS
    Pools,
    Workers,        \* pairs of a pool and a number
    Addrs,
    None

VARIABLES
    left,           \* the pool's addresses that nobody has taken
    hand,           \* the address a worker has
    done            \* how many addresses of the pool are dealt with

Members(p) == {w \in Workers : w[1] = p}

Begin(p) ==
    /\ \A w \in Members(p) : hand[w] = None
    /\ left' = [left EXCEPT ![p] = Addrs] /\ done' = [done EXCEPT ![p] = 0]
    /\ UNCHANGED hand

Take(w, a) ==
    /\ hand[w] = None /\ a \in left[w[1]]
    /\ \A v \in Members(w[1]) : hand[v] # a
    /\ left' = [left EXCEPT ![w[1]] = @ \ {a}] /\ hand' = [hand EXCEPT ![w] = a]
    /\ UNCHANGED done

Finish(w) ==
    /\ hand[w] # None /\ hand[w] \notin left[w[1]]
    /\ hand' = [hand EXCEPT ![w] = None] /\ done' = [done EXCEPT ![w[1]] = @ + 1]
    /\ UNCHANGED left

GiveUp(p) ==
    /\ left' = [left EXCEPT ![p] = {}]
    /\ hand' = [w \in Workers |-> IF w[1] = p THEN None ELSE hand[w]]
    /\ UNCHANGED done

Init ==
    /\ left = [p \in Pools |-> {}] /\ hand = [w \in Workers |-> None]
    /\ done = [p \in Pools |-> 0]
Next ==
    \/ \E p \in Pools : Begin(p) \/ GiveUp(p)
    \/ \E w \in Workers : Finish(w) \/ \E a \in Addrs : Take(w, a)
Spec == Init /\ [][Next]_<<left, hand, done>>
===============================================================================
