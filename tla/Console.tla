------------------------------ MODULE Console ------------------------------
(***************************************************************************)
(* What the pages of the admin console (Gatesentry/ui) have in common: a   *)
(* browser keeps several requests in flight, the server takes them up and  *)
(* the answers come back in any order, and each may be lost.               *)
(***************************************************************************)
EXTENDS Naturals, FiniteSets

CONSTANTS Slots,   \* requests of one page in flight at a time, a bound
          Null,    \* what a page has not loaded, or the user not typed, yet
          Beyond   \* "yes", or a bound: "no" if the user of a page stops at the first
                   \* mishap that the page's history records

\* Array.prototype.filter: the entries of d at the places in K, in their order.
Kept(d, K) ==
  [k \in 1..Cardinality(K) |-> d[CHOOSE i \in K : Cardinality({j \in K : j <= i}) = k]]
=============================================================================
