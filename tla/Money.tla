------------------------------- MODULE Money --------------------------------
(***************************************************************************)
(* The money capabilities of the corpus, in whole minor units: a total     *)
(* allocated by weights, a remittance advice settled, and an amount read.  *)
(* Weights are whole numbers: the decimals of the code, of 28 digits, tell *)
(* apart whatever exact fractions of them do.                              *)
(***************************************************************************)
EXTENDS Integers, Sequences, FiniteSets, SequencesExt

Total(numbers) == FoldLeft(LAMBDA a, b : a + b, 0, numbers)
Magnitude(n) == IF n < 0 THEN -n ELSE n

\* Every share floored, and what is left over to the largest remainders, the
\* earliest first.
LargestRemainder(weights, magnitude) ==
  LET floor(i) == (magnitude * weights[i]) \div Total(weights)
      rest(i) == (magnitude * weights[i]) % Total(weights)
      left == magnitude - Total([i \in DOMAIN weights |-> floor(i)])
      before(i, j) == rest(i) > rest(j) \/ (rest(i) = rest(j) /\ i < j)
  IN  [i \in DOMAIN weights |->
        floor(i) + IF Cardinality({j \in DOMAIN weights : before(j, i)}) < left THEN 1 ELSE 0]

\* money_allocate: by magnitude, with the sign put back; refused are no
\* weights, a negative one, and none above zero.
Allocate(weights, units) ==
  IF weights = <<>> \/ (\E i \in DOMAIN weights : weights[i] < 0) \/ Total(weights) = 0 THEN <<>>
  ELSE LET shares == LargestRemainder(weights, Magnitude(units))
       IN  [i \in DOMAIN weights |-> IF units < 0 THEN -shares[i] ELSE shares[i]]

-----------------------------------------------------------------------------
(* remittance_nwf. A line is an account, a header, too short, or a row with *)
(* an amount in tenths of a cent, a trailing minus, and a status.          *)

Cents(row) == IF row.credit THEN -(row.tenths \div 10) ELSE row.tenths \div 10

Rows(lines) == {i \in DOMAIN lines : lines[i].kind = "row"}
Sum(lines, places) == Total([i \in DOMAIN lines |-> IF i \in places THEN Cents(lines[i]) ELSE 0])

Settle(lines) ==
  LET held == {i \in Rows(lines) : lines[i].status = "H"}
  IN  [settled |-> Sum(lines, Rows(lines) \ held), held |-> Sum(lines, held),
       count |-> Cardinality(Rows(lines))]

-----------------------------------------------------------------------------
(* money_parse, of what is left when spaces, sign and currency are off: a   *)
(* sequence of "0" for any digit, "." and ",". A number is told by how many  *)
(* of the digits are whole ones and how many are a fraction.                *)

Count(text, char) == Cardinality({i \in DOMAIN text : text[i] = char})
LastPlace(text, chars) == CHOOSE i \in DOMAIN text : text[i] \in chars /\ \A j \in (i + 1)..Len(text) : text[j] \notin chars

\* The lengths of the parts between the separators.
PartsOf(text, separator) ==
  FoldLeft(LAMBDA parts, char : IF char = separator THEN Append(parts, 0) ELSE [parts EXCEPT ![Len(parts)] = @ + 1],
           <<0>>, text)

\* grouping: by threes, the Indian way, or not at all.
Grouping(parts) ==
  LET n == Len(parts)
  IN  CASE n = 1 -> "none"
        [] n > 1 /\ parts[1] <= 3 /\ (\A i \in 2..n : parts[i] = 3) -> "three"
        [] n > 1 /\ parts[1] \in 1..2 /\ (\A i \in 2..(n - 1) : parts[i] = 2) /\ parts[n] = 3
             /\ ~(\A i \in 2..n : parts[i] = 3) -> "indian"
        [] OTHER -> "illegal"

\* The readings of a text with a separator: the last one is the point, unless
\* it is the only kind and there are more of it, or three digits follow.
Separated(text) ==
  LET p == LastPlace(text, {".", ","})
      decimal == text[p]
      group == IF decimal = "." THEN "," ELSE "."
      styles == IF decimal = "." THEN <<"us", "eu">> ELSE <<"eu", "us">>
      before == SubSeq(text, 1, p - 1)
      tail == Len(text) - p
      both == Count(text, group) > 0
      many == ~both /\ Count(text, decimal) > 1
      legal == /\ tail > 0
               /\ both => Count(before, decimal) = 0 /\ Grouping(PartsOf(before, group)) # "illegal"
               /\ ~both => Count(before, "0") > 0
               /\ many => Grouping(PartsOf(text, decimal)) # "illegal"
      reading(style, fraction) == [style |-> style, whole |-> Count(text, "0") - fraction, fraction |-> fraction]
  IN  CASE ~legal -> <<>>
        [] legal /\ many -> <<reading("grouped", 0)>>
        [] legal /\ ~many /\ (both \/ tail # 3) -> <<reading(styles[1], tail)>>
        [] legal /\ ~many /\ ~both /\ tail = 3 -> <<reading(styles[2], 0), reading(styles[1], tail)>>

MoneyReadings(text) ==
  CASE text = <<>> -> <<>>
    [] text # <<>> /\ Count(text, "0") = Len(text) -> <<[style |-> "plain", whole |-> Len(text), fraction |-> 0]>>
    [] Count(text, "0") # Len(text) -> Separated(text)

\* interpret: a hint chooses between two readings, and does nothing else.
Amount(text, hint) ==
  LET readings == MoneyReadings(text)
      hinted == {r \in Range(readings) : r.style = hint}
      value(r) == <<r.whole, r.fraction>>
  IN  CASE readings = <<>> -> [value |-> <<>>, ambiguous |-> FALSE]
        [] Len(readings) = 1 -> [value |-> value(readings[1]), ambiguous |-> FALSE]
        [] Len(readings) = 2 /\ hinted # {} -> [value |-> value(CHOOSE r \in hinted : TRUE), ambiguous |-> FALSE]
        [] Len(readings) = 2 /\ hinted = {} -> [value |-> <<>>, ambiguous |-> TRUE]

-----------------------------------------------------------------------------
(* Properties.                                                             *)

\* Not a unit is lost or made, no share is a whole unit from its exact value,
\* a heavier weight never gets less, an equal one later never more, and a
\* refund is split as the charge was.
AllocationsAddUp(weights, units) ==
  LET shares == Allocate(weights, units)
  IN  shares # <<>> =>
        /\ Total(shares) = units
        /\ \A i \in DOMAIN weights :
             Magnitude(shares[i] * Total(weights) - units * weights[i]) < Total(weights)
        /\ \A i, j \in DOMAIN weights :
             weights[i] > weights[j] \/ (weights[i] = weights[j] /\ i < j)
               => Magnitude(shares[i]) >= Magnitude(shares[j])
        /\ Allocate(weights, -units) = [i \in DOMAIN shares |-> -shares[i]]

\* An advice and the same advice with every charge a credit cancel out, held
\* rows and settled ones, fractions of a cent included.
CreditsCancel(lines) ==
  LET reversed == [i \in DOMAIN lines |-> [lines[i] EXCEPT !.credit = ~@]]
  IN  /\ Settle(lines).settled + Settle(reversed).settled = 0
      /\ Settle(lines).held + Settle(reversed).held = 0

\* What a text means to somebody who groups with one separator and points with
\* the other: digits that are grouped properly or not at all, then perhaps the
\* point and more digits.
Means(text, group, point) ==
  LET p == IF Count(text, point) = 1 THEN LastPlace(text, {point}) ELSE Len(text) + 1
      parts == PartsOf(SubSeq(text, 1, p - 1), group)
      legal == /\ Count(text, point) <= 1 /\ parts[1] > 0 /\ Grouping(parts) # "illegal"
               /\ p <= Len(text) => p < Len(text) /\ Count(SubSeq(text, p, Len(text)), group) = 0
  IN  IF legal THEN {<<Count(SubSeq(text, 1, p - 1), "0"), Count(SubSeq(text, p, Len(text)), "0")>>} ELSE {}

\* Nobody's thousand is anybody's one: an amount that is given without a hint
\* is what the text means to everybody to whom it means anything; whatever it
\* means to one of them is among its readings; and what is ambiguous is so by
\* a factor of a thousand, and each hint settles it.
AmountsAreNotGuessed(text) ==
  LET amount == Amount(text, "none")
      meant == Means(text, ",", ".") \cup Means(text, ".", ",")
      read == {<<r.whole, r.fraction>> : r \in Range(MoneyReadings(text))}
  IN  /\ amount.value # <<>> => meant \subseteq {amount.value}
      /\ meant \subseteq read
      /\ amount.ambiguous => /\ {Amount(text, hint).value : hint \in {"us", "eu"}} = read
                             /\ \E w \in 1..Len(text) : read = {<<w, 3>>, <<w + 3, 0>>}
      /\ ~amount.ambiguous => \A hint \in {"us", "eu"} : Amount(text, hint) = amount

=============================================================================
