----------------------------- MODULE MCVerifier -----------------------------
(***************************************************************************)
(* All the graphs of five events, each naming one or two earlier ones: a  *)
(* chain, a diamond, two roots; and in each at most one flaw of one event. *)
(* With a cap of four, five events are one too many for the walk.          *)
(***************************************************************************)
EXTENDS Verifier

MCIds == 1 .. 5

Below(i) == {S \in SUBSET (1 .. i - 1) : Cardinality(S) \in 1 .. 2}

Shapes ==
  { << {}, b, c, d, e >> :
      b \in {{}} \cup Below(2), c \in Below(3), d \in Below(4), e \in Below(5)}

Flaws ==
  {<<"none", 0>>} \cup ({"absent", "unsigned"} \X {1, 3, 4})
    \cup ({"unstamped"} \X {4, 5}) \cup ({"unlawful"} \X {1})

Flawed(flaw, kind, i) == flaw = <<kind, i>>

LogOf(p, flaw) ==
  [i \in {j \in MCIds : ~Flawed(flaw, "absent", j)} |->
    [type |-> IF p[i] = {} THEN "genesis" ELSE IF i > 3 THEN "origination" ELSE "other",
     parents |-> p[i],
     signed |-> ~Flawed(flaw, "unsigned", i),
     stamped |-> ~Flawed(flaw, "unstamped", i),
     lawful |-> ~Flawed(flaw, "unlawful", i)]]

MCLogs == {LogOf(p, f) : p \in Shapes, f \in Flaws}
=============================================================================
