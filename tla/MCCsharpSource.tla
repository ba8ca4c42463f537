---------------------------- MODULE MCCsharpSource ----------------------------
(* Small instances of CsharpSource: labels separate the two queries. *)
EXTENDS CsharpSource, TLC

CONSTANTS q1, q2, order, item

MCKindOf == [v \in Values |-> IF v = order THEN "node" ELSE "relation"]
MCLabelsOf == [v \in Values |-> IF v = order THEN {"Order"} ELSE {"HAS"}]

\* The first query asks for every label, the others for orders alone.
MCRequested ==
    [q \in Queries |->
        IF q = q1 THEN [node |-> {}, relation |-> {}]
        ELSE [node |-> {"Order"}, relation |-> {"OWNS"}]]
\* Pushers are interchangeable in every action and property.
PusherSymmetry == Permutations(Pushers)
===============================================================================
