-------------------------------- MODULE Twap --------------------------------
(***************************************************************************)
(* The time-weighted average price of a window, as a poller computes it    *)
(* from the trades the venue lists: repeated transactions are dropped,     *)
(* times clamped to the window, and each price weighs as long as it stood. *)
(* Times count from the start of the window, prices are integers: the      *)
(* average is kept as its numerator over the length of the window.         *)
(***************************************************************************)
EXTENDS Integers, Sequences, FiniteSets, Sums

CONSTANTS
  WindowLen,
  MinTrades,     \* MIN_TRADES_IN_WINDOW
  VenueLists     \* the lists of trades considered

ASSUME TwapAssumption ==
  /\ WindowLen \in Nat \ {0} /\ MinTrades \in Nat \ {0}
  /\ \A list \in VenueLists :
       list \in Seq([tx : {list[i].tx : i \in DOMAIN list}, at : Int, price : Nat])

\* The first listing of every transaction.
Kept(list) == {i \in DOMAIN list : \A j \in 1 .. i - 1 : list[j].tx # list[i].tx}

Before(list, i, j) == list[i].at < list[j].at \/ (list[i].at = list[j].at /\ i < j)

\* Mutant: the trades are taken in the order of the venue.
TapeUnsorted(list) ==
  [k \in 1 .. Cardinality(Kept(list)) |->
    list[CHOOSE i \in Kept(list) : Cardinality({j \in Kept(list) : j < i}) = k - 1]]

\* The trades without repetitions, by time; ties stay in the venue's order.
Tape(list) ==
  [k \in 1 .. Cardinality(Kept(list)) |->
    list[CHOOSE i \in Kept(list) :
           Cardinality({j \in Kept(list) : Before(list, j, i)}) = k - 1]]

\* The first trade of the list gives the price the window starts with.
Bootstrap(list) == IF list = <<>> THEN 0 ELSE list[1].price

Clamp(t) == IF t < 0 THEN 0 ELSE IF t > WindowLen THEN WindowLen ELSE t

\* Segment 0 is the bootstrap price's, segment k that of the k-th trade.
Starts(list) ==
  [k \in 0 .. Len(Tape(list)) + 1 |->
    IF k = 0 THEN 0
    ELSE IF k > Len(Tape(list)) THEN WindowLen ELSE Clamp(Tape(list)[k].at)]

Lengths(list) ==
  [k \in 0 .. Len(Tape(list)) |-> Starts(list)[k + 1] - Starts(list)[k]]

Prices(list) ==
  [k \in 0 .. Len(Tape(list)) |-> IF k = 0 THEN Bootstrap(list) ELSE Tape(list)[k].price]

Sum(f) == Total(f, DOMAIN f)

Numerator(list) == Sum([k \in DOMAIN Prices(list) |-> Prices(list)[k] * Lengths(list)[k]])
Denominator(list) == Sum(Lengths(list))

\* Enough trades, and no price stood for more than half of the covered time.
Valid(list) ==
  /\ Len(Tape(list)) >= MinTrades
  /\ \A k \in DOMAIN Lengths(list) : 2 * Lengths(list)[k] <= Denominator(list)

-----------------------------------------------------------------------------
(* The reference: second by second, the price of the last trade so far.    *)

InForce(list, s) ==
  LET past == {i \in Kept(list) : list[i].at <= s}
  IN  IF past = {} THEN Bootstrap(list)
      ELSE list[CHOOSE i \in past : \A j \in past \ {i} : Before(list, j, i)].price

StepIntegral(list) == Sum([s \in 0 .. WindowLen - 1 |-> InForce(list, s)])
=============================================================================
