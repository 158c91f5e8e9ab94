----------------------------- MODULE DataLemmas ------------------------------
(***************************************************************************)
(* Facts about numbers and sequences that several proofs use.              *)
(***************************************************************************)
EXTENDS Integers, Sequences, TLAPS

-----------------------------------------------------------------------------
(* Multiples.                                                              *)

(* A multiple of n is n times something. *)
LEMMA MultipleIsProduct ==
    ASSUME NEW n \in Nat \ {0}, NEW a \in Int, a % n = 0
    PROVE  \E k \in Int : a = n * k
<1>1. a = n * (a \div n) + (a % n)
  OBVIOUS
<1>2. (a \div n) \in Int
  OBVIOUS
<1>3. a = n * (a \div n)
  BY <1>1, <1>2
<1> QED BY <1>2, <1>3, Zenon

(* Products with a positive factor preserve the order. *)
LEMMA ProductMonotone ==
    ASSUME NEW n \in Nat \ {0}, NEW i \in Int, NEW j \in Int, i <= j
    PROVE  n * i <= n * j
OBVIOUS

(* ... and reflect it. *)
LEMMA ProductCancel ==
    ASSUME NEW n \in Nat \ {0}, NEW i \in Int, NEW j \in Int, n * i < n * j
    PROVE  i < j
OBVIOUS

(* The next multiple of n below a multiple of n is n less. *)
LEMMA NextMultipleDown ==
    ASSUME NEW n \in Nat \ {0}, NEW w \in Int, NEW x \in Int,
           w % n = 0, x % n = 0, w - n <= x, x < w
    PROVE  x = w - n
<1>1. PICK i \in Int : w = n * i
  BY MultipleIsProduct
<1>2. PICK j \in Int : x = n * j
  BY MultipleIsProduct
<1>3. j < i
  BY <1>1, <1>2, ProductCancel
<1>4. n * j <= n * (i - 1)
  BY <1>3, ProductMonotone
<1>5. n * (i - 1) = n * i - n
  OBVIOUS
<1> QED BY <1>1, <1>2, <1>4, <1>5

(* A positive multiple of n is at least n, and stays a multiple less n. *)
LEMMA PositiveMultiple ==
    ASSUME NEW n \in Nat \ {0}, NEW a \in Nat, a % n = 0, a > 0
    PROVE  a >= n
<1>1. PICK i \in Int : a = n * i
  BY MultipleIsProduct
<1>2. n * 0 < n * i
  BY <1>1
<1>3. 0 < i
  BY <1>2, ProductCancel
<1>4. n * 1 <= n * i
  BY <1>3, ProductMonotone
<1> QED BY <1>1, <1>4

(* A product is a multiple of its factor. *)
LEMMA ProductIsMultiple ==
    ASSUME NEW n \in Nat \ {0}, NEW k \in Int
    PROVE  (n * k) % n = 0
<1> DEFINE x == n * k
           q == x \div n
           r == x % n
<1>1. x \in Int /\ q \in Int /\ r \in Int
  OBVIOUS
<1>2. x = n * q + r /\ 0 <= r /\ r < n
  OBVIOUS
<1>3. n * (k - q) = n * k - n * q
  BY <1>1
<1> HIDE DEF q, r
<1>4. n * (k - q) = r
  BY <1>1, <1>2, <1>3
<1>5. n * (k - q) < n * 1
  BY <1>1, <1>2, <1>4
<1>6. k - q < 1
  BY <1>1, <1>5, ProductCancel
<1>7. n * (-1) < n * (k - q)
  BY <1>1, <1>2, <1>4
<1>8. -1 < k - q
  BY <1>1, <1>7, ProductCancel
<1>9. k - q = 0
  BY <1>1, <1>6, <1>8
<1>10. r = 0
  BY <1>1, <1>4, <1>9
<1> QED BY <1>10 DEF r

(* Adding or removing n keeps a multiple of n. *)
LEMMA ShiftMultiple ==
    ASSUME NEW n \in Nat \ {0}, NEW a \in Int, a % n = 0
    PROVE  (a + n) % n = 0 /\ (a - n) % n = 0
<1>1. PICK k \in Int : a = n * k
  BY MultipleIsProduct, Zenon
<1>2. a + n = n * (k + 1) /\ a - n = n * (k - 1)
  BY <1>1
<1>3. (n * (k + 1)) % n = 0 /\ (n * (k - 1)) % n = 0
  BY ProductIsMultiple
<1> QED BY <1>2, <1>3

(* Facts about the front of a nonempty sequence, as the provers need them. *)
LEMMA TailFacts ==
    ASSUME NEW S, NEW q \in Seq(S), q # << >>
    PROVE  /\ Len(q) \in Nat \ {0}
           /\ Head(q) = q[1]
           /\ Head(q) \in S
           /\ Tail(q) \in Seq(S)
           /\ Len(Tail(q)) = Len(q) - 1
           /\ \A i \in 1 .. Len(Tail(q)) : Tail(q)[i] = q[i + 1]
OBVIOUS

(* Facts about a sequence with one element more. *)
LEMMA AppendFacts ==
    ASSUME NEW S, NEW q \in Seq(S), NEW e \in S
    PROVE  /\ Append(q, e) \in Seq(S)
           /\ Len(q) \in Nat
           /\ Len(Append(q, e)) = Len(q) + 1
           /\ \A i \in 1 .. Len(q) : Append(q, e)[i] = q[i]
           /\ Append(q, e)[Len(q) + 1] = e
OBVIOUS

(* The elements of a sequence.                                              *)
LEMMA SeqFacts ==
    ASSUME NEW S, NEW q \in Seq(S)
    PROVE  /\ Len(q) \in Nat /\ DOMAIN q = 1..Len(q) /\ \A i \in 1..Len(q) : q[i] \in S
           /\ q = << >> <=> Len(q) = 0
OBVIOUS

(* The elements of two sequences put together.                              *)
LEMMA ConcatFacts ==
    ASSUME NEW S, NEW s \in Seq(S), NEW t \in Seq(S)
    PROVE  /\ s \o t \in Seq(S) /\ Len(s \o t) = Len(s) + Len(t)
           /\ \A i \in 1..Len(s) + Len(t) : (s \o t)[i] = IF i <= Len(s) THEN s[i] ELSE t[i - Len(s)]
OBVIOUS

(* ... of which the second has one element, or none.                        *)
LEMMA ConcatOne ==
    ASSUME NEW S, NEW s \in Seq(S), NEW e \in S
    PROVE  /\ s \o << e >> \in Seq(S) /\ Len(s \o << e >>) = Len(s) + 1
           /\ DOMAIN (s \o << e >>) = 1..Len(s) + 1
           /\ \A i \in 1..Len(s) : (s \o << e >>)[i] = s[i]
           /\ (s \o << e >>)[Len(s) + 1] = e
OBVIOUS

LEMMA ConcatEmpty ==
    ASSUME NEW S, NEW s \in Seq(S)
    PROVE  s \o << >> = s /\ << >> \o s = s
OBVIOUS

(* Sequences of the same elements.                                          *)
LEMMA SeqSame ==
    ASSUME NEW S, NEW s \in Seq(S), NEW t \in Seq(S), Len(s) = Len(t), \A i \in 1..Len(s) : s[i] = t[i]
    PROVE  s = t
OBVIOUS

(* Counting to a, and then on to a + k.                                     *)
CountTo(a) == [i \in 1..a |-> i]

LEMMA CountOn ==
    ASSUME NEW a \in Nat, NEW k \in Nat
    PROVE  /\ CountTo(a) \in Seq(Nat) /\ Len(CountTo(a)) = a
           /\ CountTo(a) \o [i \in 1..k |-> a + i] = CountTo(a + k)
           /\ Append(CountTo(a), a + 1) = CountTo(a + 1)
<1>1. ASSUME NEW m \in Nat, NEW s \in [1..m -> Nat] PROVE s \in Seq(Nat) /\ Len(s) = m
  <2>1. s \in Seq(Nat)
    OBVIOUS
  <2>2. Len(s) \in Nat /\ 1..Len(s) = 1..m
    BY <2>1
  <2> QED BY <2>1, <2>2
<1>2. ASSUME NEW m \in Nat
      PROVE  CountTo(m) \in Seq(Nat) /\ Len(CountTo(m)) = m /\ \A i \in 1..m : CountTo(m)[i] = i
  <2>1. CountTo(m) \in [1..m -> Nat] /\ \A i \in 1..m : CountTo(m)[i] = i
    BY DEF CountTo
  <2> QED BY <1>1, <2>1
<1>3. ASSUME NEW m \in Nat PROVE CountTo(a) \o [i \in 1..m |-> a + i] = CountTo(a + m)
  <2> DEFINE s == CountTo(a)
             t == [i \in 1..m |-> a + i]
             u == CountTo(a + m)
  <2>1. t \in [1..m -> Nat] /\ \A i \in 1..m : t[i] = a + i
    OBVIOUS
  <2>2. t \in Seq(Nat) /\ Len(t) = m
    BY <1>1, <2>1
  <2>3. s \in Seq(Nat) /\ Len(s) = a /\ \A i \in 1..a : s[i] = i
    BY <1>2
  <2>4. u \in Seq(Nat) /\ Len(u) = a + m /\ \A i \in 1..a + m : u[i] = i
    BY <1>2
  <2> HIDE DEF s, t, u
  <2>5. /\ s \o t \in Seq(Nat) /\ Len(s \o t) = a + m
        /\ \A i \in 1..a + m : (s \o t)[i] = IF i <= a THEN s[i] ELSE t[i - a]
    BY <2>2, <2>3, ConcatFacts, ZenonT(30)
  <2>6. ASSUME NEW i \in 1..a + m PROVE (s \o t)[i] = u[i]
    <3>1. CASE i <= a
      <4>1. i \in 1..a /\ (s \o t)[i] = s[i]
        BY <2>5, <2>6, <3>1
      <4> QED BY <2>3, <2>4, <2>6, <4>1
    <3>2. CASE i > a
      <4>1. i \in Nat /\ i <= a + m /\ ~(i <= a)
        BY <2>6, <3>2
      <4>2. i - a \in 1..m /\ a + (i - a) = i
        BY <4>1
      <4>3. (s \o t)[i] = t[i - a]
        BY <2>5, <2>6, <4>1
      <4>4. t[i - a] = i
        BY <2>1, <4>2
      <4> QED BY <2>4, <2>6, <4>3, <4>4
    <3>3. i <= a \/ i > a
      BY <2>6
    <3> QED BY <3>1, <3>2, <3>3, Zenon
  <2>7. s \o t = u
    BY <2>4, <2>5, <2>6, SeqSame, Zenon
  <2> QED BY <2>7, Zenon DEF s, t, u
<1>4. Append(CountTo(a), a + 1) = CountTo(a + 1)
  <2>1. Append(CountTo(a), a + 1) = CountTo(a) \o << a + 1 >>
    BY <1>2, SMTT(30)
  <2>2. << a + 1 >> = [i \in 1..1 |-> a + i]
    OBVIOUS
  <2> QED BY <1>3, <2>1, <2>2, Zenon
<1> QED BY <1>2, <1>3, <1>4, Zenon
=============================================================================
