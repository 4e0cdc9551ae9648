--------------------------- MODULE MCLoanPipeline ---------------------------
(* A loan or two, two settlements racing for them. *)
EXTENDS LoanPipeline, TLC

Interchangeable == Permutations(Loans) \cup Permutations(Settles)
=============================================================================
