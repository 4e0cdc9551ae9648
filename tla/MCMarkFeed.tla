----------------------------- MODULE MCMarkFeed -----------------------------
(***************************************************************************)
(* A loan, and two ticks of the settlement watch that may overlap.  The    *)
(* averages are of a window of six seconds: three trades at the times of   *)
(* one of four rows, in every order, and so with two of them listed twice. *)
(***************************************************************************)
EXTENDS MarkFeed

PriceOf == <<1, 7, 49>>
Trade(n, t) == [tx |-> n, at |-> t, price |-> PriceOf[n]]

\* Apart, with a tie, and with a trade before or after the window.
Times == { <<2, 3, 5>>, <<2, 3, 3>>, <<-1, 3, 5>>, <<1, 3, 7>> }

Orders == {o \in [1 .. 3 -> 1 .. 3] : \A i, j \in 1 .. 3 : o[i] = o[j] => i = j}

MCVenueLists ==
  LET Lists == {[n \in 1 .. 3 |-> Trade(n, t[o[n]])] : t \in Times, o \in Orders}
  IN  Lists \cup {<< l[3] >> \o Append(l, l[1]) : l \in Lists}
=============================================================================
