--------------------------- MODULE Handler_proofs ---------------------------
(* The work limit of ComputeWorkResponsePayload, for all numbers. *)
EXTENDS Handler, TLAPS

\* Integer division in two inequalities.
LEMMA Quotient ==
  ASSUME NEW k \in Nat, NEW i \in Nat \ {0}
  PROVE  /\ k \div i \in Nat
         /\ (k \div i) * i <= k
         /\ k < ((k \div i) + 1) * i
  OBVIOUS

\* Multiplication by a natural number is monotone.
LEMMA ProductMonotone ==
  ASSUME NEW a \in Nat, NEW b \in Nat, NEW i \in Nat, a <= b
  PROVE  a * i <= b * i
  OBVIOUS

\* The test in ComputeWorkResponsePayload, which divides, refuses exactly the
\* work whose product exceeds kMaxWorkUnits, zero iterations included.
THEOREM DivisionTestExact ==
  \A iterations, units \in Nat :
    TooMuchWork(iterations, units) <=> iterations * units > kMaxWorkUnits
<1> TAKE iterations, units \in Nat
<1> DEFINE q == kMaxWorkUnits \div iterations
<1>1. kMaxWorkUnits \in Nat
  BY HandlerAssumption
<1>2. CASE iterations = 0
  BY <1>1, <1>2 DEF TooMuchWork
<1>3. CASE iterations # 0
  <2>1. q \in Nat /\ q * iterations <= kMaxWorkUnits
                  /\ kMaxWorkUnits < (q + 1) * iterations
    BY <1>1, <1>3, Quotient
  <2> HIDE DEF q
  <2>2. CASE units > q
    <3>1. (q + 1) * iterations <= units * iterations
      <4>1. q + 1 \in Nat /\ q + 1 <= units
        BY <2>1, <2>2
      <4>2. QED
        BY <4>1, ProductMonotone
    <3>2. iterations * units > kMaxWorkUnits
      BY <1>1, <2>1, <3>1
    <3>3. QED
      BY <1>3, <2>2, <3>2 DEF TooMuchWork, q
  <2>3. CASE ~(units > q)
    <3>1. units * iterations <= q * iterations
      <4>1. units <= q
        BY <2>1, <2>3
      <4>2. QED
        BY <2>1, <4>1, ProductMonotone
    <3>2. ~(iterations * units > kMaxWorkUnits)
      BY <1>1, <2>1, <3>1
    <3>3. QED
      BY <2>3, <3>2 DEF TooMuchWork, q
  <2>4. QED
    BY <2>2, <2>3
<1>4. QED
  BY <1>2, <1>3
=============================================================================
