--------------------------- MODULE MCCalculations ---------------------------
(* Instances of Calculations for TLC.                                      *)
EXTENDS Calculations

NoLookups == [f \in Fields |-> {}]

(* Every way in which four fields can depend on each other without a       *)
(* circle, in any order of the document.                                   *)
FourFields ==
  {d \in [needs : [Fields -> SUBSET Fields], looks : {NoLookups}] :
     (\A f \in Fields : f \notin d.needs[f]) /\ Acyclic(d)}

(* Every way in which three can, with at most one lookup, and with circles *)
(* of one or two fields.                                                   *)
Three ==
  {m \in [Fields -> SUBSET (1..3)] :
     m[4] = {} /\ (m[3] = {} \/ Acyclic([needs |-> m, looks |-> NoLookups]))}

OneLookup ==
  {[f \in Fields |-> IF f = from THEN {to} ELSE {}] :
     from \in 1..3, to \in 1..3}

ThreeFields ==
  {[needs |-> n, looks |-> l] : n \in Three, l \in OneLookup \cup {NoLookups}}

(* Lookups go from a calculated field and from one that is calculated from *)
(* it.                                                                     *)
TwoLookups ==
  [needs |-> <<{}, {1}, {2}, {}>>, looks |-> <<{}, {4}, {4}, {}>>]

MCDesigns == FourFields \cup {TwoLookups} \cup ThreeFields
=============================================================================
