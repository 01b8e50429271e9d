-------------------------------- MODULE Loop --------------------------------
(***************************************************************************)
(* A loop over a list: Body is run for one item after the other, on what   *)
(* the item before it has left.  The context is what the loop does not     *)
(* change.  Modules instantiate this one for each of their loops.          *)
(***************************************************************************)
EXTENDS Naturals, Sequences, WellFoundedInduction, TLAPS

CONSTANT Body(_, _, _)

Run(s, context, items) ==
  LET after[n \in 0..Len(items)] ==
        IF n = 0 THEN s ELSE Body(after[n - 1], context, items[n])
  IN after[Len(items)]

-----------------------------------------------------------------------------
\* What is known of the first natural number and of the one after each that
\* it is known of, is known of all.
LEMMA InductionOnNat ==
  ASSUME NEW S, 0 \in S, \A n \in Nat : n \in S => n + 1 \in S
  PROVE  Nat \subseteq S
<1> DEFINE T == Nat \ S
<1>1. SUFFICES ASSUME T # {}
               PROVE  FALSE
  OBVIOUS
<1>2. PICK m \in T : \A k \in T : ~ (<<k, m>> \in OpToRel(<, Nat))
  BY <1>1, NatLessThanWellFounded, WFMin
<1>3. m \in Nat /\ m # 0
  OBVIOUS
<1>4. m - 1 \in Nat /\ (m - 1) + 1 = m /\ m - 1 < m
  BY <1>3
<1>5. m - 1 \in S
  BY <1>2, <1>3, <1>4 DEF OpToRel
<1>6. QED
  BY <1>4, <1>5

\* The loop runs as it reads: from s, Body maps what each round leaves to
\* what the next one leaves.
LEMMA RunIs ==
  ASSUME NEW s, NEW context, NEW items, Len(items) \in Nat
  PROVE  \E after :
           /\ after[0] = s
           /\ \A n \in 1..Len(items) : after[n] = Body(after[n - 1], context, items[n])
           /\ Run(s, context, items) = after[Len(items)]
<1> DEFINE Round(g, n) == IF n = 0 THEN s ELSE Body(g[n - 1], context, items[n])
           Rounds(g, n) == g = [i \in 0..n |-> Round(g, i)]
           after[n \in 0..Len(items)] ==
             IF n = 0 THEN s ELSE Body(after[n - 1], context, items[n])
           S == {n \in Nat : \E g : Rounds(g, n)}
<1>1. 0 \in S
  <2> DEFINE g == [i \in 0..0 |-> s]
  <2>1. Rounds(g, 0)
    OBVIOUS
  <2>2. QED
    BY <2>1
<1>2. ASSUME NEW n \in Nat, n \in S
      PROVE  n + 1 \in S
  <2>1. PICK g : Rounds(g, n)
    BY <1>2
  <2> DEFINE h == [i \in 0..(n + 1) |-> Round(g, i)]
  <2>2. ASSUME NEW i \in 0..(n + 1)
        PROVE  h[i] = Round(h, i)
    <3>1. CASE i = 0
      BY <3>1
    <3>2. CASE i # 0
      <4>1. i - 1 \in 0..n /\ i - 1 \in 0..(n + 1)
        BY <3>2
      <4>2. g[i - 1] = Round(g, i - 1)
        BY <2>1, <4>1
      <4>3. h[i - 1] = g[i - 1]
        BY <4>1, <4>2
      <4>4. QED
        BY <3>2, <4>3
    <3>3. QED
      BY <3>1, <3>2
  <2> HIDE DEF Round
  <2>3. Rounds(h, n + 1)
    BY <2>2
  <2> HIDE DEF Rounds, h
  <2>4. QED
    BY <2>3
<1>3. Len(items) \in S
  <2> HIDE DEF S
  <2>1. QED
    BY <1>1, <1>2, InductionOnNat
<1>4. after = [n \in 0..Len(items) |-> Round(after, n)]
  BY <1>3
<1> HIDE DEF after
<1>5. after[0] = s /\ \A n \in 1..Len(items) : after[n] = Body(after[n - 1], context, items[n])
  BY <1>4
<1>6. Run(s, context, items) = after[Len(items)]
  BY DEF Run, after
<1>7. QED
  BY <1>5, <1>6

=============================================================================
