----------------------------- MODULE NamesProofs -----------------------------
(***************************************************************************)
(* Proofs about Names: a name is read back as the key it was made of, the  *)
(* names of a set of groups as the groups, and the parts of a package id   *)
(* give the id. The functions that the conversions are made of are         *)
(* recursive; each is unrolled by looking at the smallest length at which  *)
(* it would go wrong.                                                      *)
(***************************************************************************)
EXTENDS Names, FiniteSetTheorems, SequenceTheorems, WellFoundedInduction, TLAPS

(***************************************************************************)
(* Induction over the natural numbers                                      *)
(***************************************************************************)
(* A set of numbers that is not empty has a smallest element.              *)
LEMMA Least ==
  ASSUME NEW S \in SUBSET Nat, S # {}
  PROVE  \E x \in S : \A y \in S : x <= y
<1>1. \E x \in S : \A y \in S : ~(<<y, x>> \in OpToRel(<, Nat))
  <2> HIDE DEF OpToRel
  <2> QED  BY WFMin, NatLessThanWellFounded, Zenon
<1>2. PICK x \in S : \A y \in S : ~(<<y, x>> \in OpToRel(<, Nat))
  BY <1>1
<1>3. ASSUME NEW y \in S PROVE x <= y
  <2>1. <<y, x>> \notin {ss \in Nat \X Nat : ss[1] < ss[2]}
    BY <1>2 DEF OpToRel
  <2> QED  BY <2>1
<1> QED  BY <1>3

(***************************************************************************)
(* What the recursive functions of the library compute                     *)
(***************************************************************************)
(* f[i] is the concatenation of the first i of the k sequences.            *)
Flat(seqs, f, k) == f = [i \in 1..k |-> IF i = 1 THEN seqs[i] ELSE f[i - 1] \o seqs[i]]

(* There is such a function: a smallest length without one would be the    *)
(* length after one that has one.                                          *)
LEMMA FlatExists ==
  ASSUME NEW seqs, NEW L \in Nat
  PROVE  \E f : Flat(seqs, f, L)
<1> DEFINE Bad == {l \in Nat : ~ \E f : Flat(seqs, f, l)}
<1> SUFFICES ASSUME Bad # {} PROVE FALSE
  OBVIOUS
<1>1. PICK x \in Bad : \A y \in Bad : x <= y
  <2>1. Bad \in SUBSET Nat
    OBVIOUS
  <2> HIDE DEF Bad
  <2> QED  BY <2>1, Least
<1>2. x \in Nat /\ ~ \E f : Flat(seqs, f, x)
  BY <1>1
<1>3. x # 0
  <2>1. Flat(seqs, [i \in 1..0 |-> {}], 0)
    BY DEF Flat
  <2> QED  BY <2>1, <1>2
<1>4. PICK f : Flat(seqs, f, x - 1)
  BY <1>1, <1>2, <1>3
<1> DEFINE g == [i \in 1..x |-> IF i = x THEN (IF x = 1 THEN seqs[1] ELSE f[x - 1] \o seqs[x])
                                          ELSE f[i]]
<1>5. ASSUME NEW i \in 1..x PROVE g[i] = IF i = 1 THEN seqs[i] ELSE g[i - 1] \o seqs[i]
  <2>1. CASE i = x
    <3>1. CASE i = 1
      BY <2>1, <3>1
    <3>2. CASE i # 1
      <4>1. i - 1 \in 1..x /\ i - 1 # x
        BY <3>2, <1>2
      <4>2. g[i - 1] = f[i - 1]
        BY <4>1
      <4> QED  BY <4>2, <2>1, <3>2
    <3> QED  BY <3>1, <3>2
  <2>2. CASE i # x
    <3>1. i \in 1..(x - 1)
      BY <2>2, <1>2
    <3>2. f[i] = IF i = 1 THEN seqs[i] ELSE f[i - 1] \o seqs[i]
      BY <3>1, <1>4 DEF Flat
    <3>3. g[i] = f[i]
      BY <2>2
    <3>4. CASE i = 1
      BY <3>2, <3>3, <3>4
    <3>5. CASE i # 1
      <4>1. i - 1 \in 1..x /\ i - 1 # x
        BY <3>5, <1>2
      <4>2. g[i - 1] = f[i - 1]
        BY <4>1
      <4> QED  BY <3>2, <3>3, <4>2, <3>5
    <3> QED  BY <3>4, <3>5
  <2> QED  BY <2>1, <2>2
<1>6. Flat(seqs, g, x)
  <2> DEFINE h == [i \in 1..x |-> IF i = 1 THEN seqs[i] ELSE g[i - 1] \o seqs[i]]
  <2>1. \A i \in 1..x : g[i] = h[i]
    BY <1>5
  <2>2. g = h
    BY <2>1
  <2> QED  BY <2>2 DEF Flat
<1> QED  BY <1>6, <1>2

(* f[i] is that concatenation, and the last one is that of all.            *)
Unrolls(seqs, f, k) ==
  /\ FlattenSeq(seqs) = f[k]
  /\ \A i \in 1..k : f[i] = IF i = 1 THEN seqs[i] ELSE f[i - 1] \o seqs[i]

(* FlattenSeq() concatenates the sequences one by one.                     *)
LEMMA Flattened ==
  ASSUME NEW seqs, NEW k \in Nat, Len(seqs) = k, k # 0
  PROVE  \E f : Unrolls(seqs, f, k)
<1> DEFINE f == CHOOSE f : f = [i \in 1..Len(seqs) |-> IF i = 1 THEN seqs[i] ELSE f[i - 1] \o seqs[i]]
<1>1. Flat(seqs, f, k)
  BY FlatExists DEF Flat
<1>2. FlattenSeq(seqs) = f[k]
  BY DEF FlattenSeq
<1>3. PICK e : Flat(seqs, e, k) /\ FlattenSeq(seqs) = e[k]
  <2> HIDE DEF f
  <2> QED  BY <1>1, <1>2
<1>4. ASSUME NEW i \in 1..k
      PROVE  e[i] = IF i = 1 THEN seqs[i] ELSE e[i - 1] \o seqs[i]
  BY <1>3, Zenon DEF Flat
<1> QED  BY <1>3, <1>4, Zenon DEF Unrolls

(* The state of camelCased() before the first character.                   *)
Start == [key |-> <<>>, capital |-> TRUE]

(* h is the state of camelCased() after each set of characters, taken in   *)
(* the order of their positions.                                           *)
Iter(name, h, k) ==
  h = [s \in SUBSET (1..k) |-> IF s = {} THEN Start ELSE Camel(h[s \ {Max(s)}], name[Max(s)])]

(* The maximum of a set of positions is its last one.                      *)
LEMMA Greatest ==
  ASSUME NEW k \in Nat, NEW s \in SUBSET (1..k), s # {}
  PROVE  Max(s) \in s /\ \A y \in s : Max(s) >= y
<1> DEFINE down == {k - y : y \in s}
<1>1. down \in SUBSET Nat
  <2> SUFFICES ASSUME NEW y \in s
               PROVE  k - y \in Nat
    OBVIOUS
  <2>1. y \in 1..k
    OBVIOUS
  <2> QED  BY <2>1
<1>2. down # {}
  OBVIOUS
<1>3. PICK d \in down : \A e \in down : d <= e
  <2> HIDE DEF down
  <2> QED  BY <1>2, <1>1, Least
<1>4. PICK x \in s : d = k - x
  BY <1>3
<1>5. ASSUME NEW y \in s PROVE x >= y
  <2>1. d <= k - y
    BY <1>3
  <2>2. x \in 1..k /\ y \in 1..k
    OBVIOUS
  <2> QED  BY <2>1, <2>2, <1>4
<1> QED  BY <1>5 DEF Max

(* There is such a function.                                               *)
LEMMA IterExists ==
  ASSUME NEW name, NEW L \in Nat
  PROVE  \E h : Iter(name, h, L)
<1> DEFINE Bad == {l \in Nat : ~ \E h : Iter(name, h, l)}
<1> SUFFICES ASSUME Bad # {} PROVE FALSE
  OBVIOUS
<1>1. PICK k \in Bad : \A y \in Bad : k <= y
  <2>1. Bad \in SUBSET Nat
    OBVIOUS
  <2> HIDE DEF Bad
  <2> QED  BY <2>1, Least
<1>2. k \in Nat /\ ~ \E h : Iter(name, h, k)
  BY <1>1
<1>3. k # 0
  <2> DEFINE h == [s \in SUBSET (1..0) |-> Start]
  <2>1. \A s \in SUBSET (1..0) : s = {}
    OBVIOUS
  <2>2. Iter(name, h, 0)
    BY <2>1 DEF Iter
  <2> QED  BY <2>2, <1>2
<1>4. PICK h : Iter(name, h, k - 1)
  BY <1>1, <1>2, <1>3
<1> DEFINE g == [s \in SUBSET (1..k) |->
                   IF s \in SUBSET (1..(k - 1)) THEN h[s] ELSE Camel(h[s \ {k}], name[k])]
<1>5. ASSUME NEW s \in SUBSET (1..k)
      PROVE g[s] = IF s = {} THEN Start ELSE Camel(g[s \ {Max(s)}], name[Max(s)])
  <2>1. s # {} => Max(s) \in s /\ \A y \in s : Max(s) >= y
    BY Greatest, <1>2
  <2>2. CASE s \in SUBSET (1..(k - 1))
    <3>1. g[s] = h[s]
      BY <2>2
    <3>2. h[s] = IF s = {} THEN Start ELSE Camel(h[s \ {Max(s)}], name[Max(s)])
      BY <1>4, <2>2 DEF Iter
    <3>3. s \ {Max(s)} \in SUBSET (1..(k - 1)) /\ s \ {Max(s)} \in SUBSET (1..k)
      BY <2>2
    <3>4. g[s \ {Max(s)}] = h[s \ {Max(s)}]
      BY <3>3
    <3> QED  BY <3>1, <3>2, <3>4
  <2>3. CASE s \notin SUBSET (1..(k - 1))
    <3>1. PICK y \in s : y \notin 1..(k - 1)
      BY <2>3
    <3>2. y = k /\ k \in s
      BY <3>1, <1>2
    <3>3. Max(s) \in s /\ Max(s) >= k /\ Max(s) \in 1..k
      BY <2>1, <3>2
    <3>4. Max(s) = k
      BY <3>3, <1>2
    <3>5. s \ {k} \in SUBSET (1..(k - 1)) /\ s \ {k} \in SUBSET (1..k)
      <4>1. \A e \in s \ {k} : e \in 1..(k - 1)
        BY <1>2
      <4> QED  BY <4>1
    <3>6. g[s \ {k}] = h[s \ {k}]
      BY <3>5
    <3>7. g[s] = Camel(h[s \ {k}], name[k])
      BY <2>3
    <3> QED  BY <3>2, <3>4, <3>6, <3>7
  <2> QED  BY <2>2, <2>3
<1>6. Iter(name, g, k)
  <2> DEFINE e == [s \in SUBSET (1..k) |-> IF s = {} THEN Start
                                             ELSE Camel(g[s \ {Max(s)}], name[Max(s)])]
  <2>1. \A s \in SUBSET (1..k) : g[s] = e[s]
    BY <1>5
  <2>2. g = e
    <3> HIDE DEF e, g
    <3>1. g = [s \in SUBSET (1..k) |-> g[s]]
      BY DEF g
    <3>2. e = [s \in SUBSET (1..k) |-> e[s]]
      BY DEF e
    <3> QED  BY <2>1, <3>1, <3>2
  <2> QED  BY <2>2 DEF Iter
<1> QED  BY <1>6, <1>2

(* FoldLeft() computes it.                                                 *)
LEMMA Folded ==
  ASSUME NEW name, NEW k \in Nat, DOMAIN name = 1..k
  PROVE  \E h : Iter(name, h, k) /\ camelCased(name) = h[1..k].key
<1> DEFINE h == CHOOSE h : h = [s \in SUBSET (DOMAIN name) |->
                                  IF s = {} THEN Start ELSE Camel(h[s \ {Max(s)}], name[Max(s)])]
<1>1. Iter(name, h, k) 
  <2>1. PICK f : Iter(name, f, k)
    BY IterExists
  <2>2. f = [s \in SUBSET (DOMAIN name) |-> IF s = {} THEN Start
                                              ELSE Camel(f[s \ {Max(s)}], name[Max(s)])]
    BY <2>1 DEF Iter
  <2>3. h = [s \in SUBSET (DOMAIN name) |-> IF s = {} THEN Start
                                              ELSE Camel(h[s \ {Max(s)}], name[Max(s)])]
    BY <2>2
  <2> QED  BY <2>3 DEF Iter
<1>2. camelCased(name) = h[DOMAIN name].key
  BY Zenon DEF camelCased, FoldLeft, MapThenFoldSet, Start
<1> QED  BY <1>1, <1>2

(***************************************************************************)
(* Spelling a key                                                          *)
(***************************************************************************)
(* What hyphenated() writes for each word of a key.                        *)
Pieces(key) ==
  [i \in DOMAIN key |-> (IF i > 1 /\ key[i].upper THEN <<Dash>> ELSE <<>>) \o <<Lower(key[i])>>]

(* The words of keys and the characters of names with texts T.             *)
Capitals(T) == {Capital(t) : t \in T}
Chars(T) == {Dash} \cup {Lower(c) : c \in Capitals(T)}

(* A sequence that is extended by two elements.                            *)
LEMMA Extended ==
  ASSUME NEW C, NEW q \in Seq(C), NEW d \in C, NEW w \in C, NEW r, r = q \o <<d, w>>
  PROVE  /\ r \in Seq(C) /\ Len(r) = Len(q) + 2 /\ Len(q) \in Nat
         /\ r[Len(q) + 1] = d /\ r[Len(q) + 2] = w
         /\ \A n \in 1..Len(q) : r[n] = q[n]
OBVIOUS

(* A sequence of two elements is made of them.                             *)
LEMMA TwoLong ==
  ASSUME NEW C, NEW r \in Seq(C), Len(r) = 2
  PROVE  r = <<r[1], r[2]>>
OBVIOUS

(* Two sequences of one element make one of two.                           *)
LEMMA TwoOnes ==
  ASSUME NEW a, NEW b
  PROVE  <<a>> \o <<b>> = <<a, b>>
<1> DEFINE C == {a, b}
<1>1. <<a>> \in Seq(C) /\ <<b>> \in Seq(C) /\ Len(<<a>>) = 1 /\ Len(<<b>>) = 1
  OBVIOUS
<1>2. PICK p \in Seq(C) : p = <<a>> /\ Len(p) = 1 /\ p[1] = a
  BY <1>1
<1>3. PICK q \in Seq(C) : q = <<b>> /\ Len(q) = 1 /\ q[1] = b
  BY <1>1
<1> HIDE DEF C
<1>4. p \o q \in Seq(C)
  OBVIOUS
<1>5. PICK r \in Seq(C) : r = p \o q
  BY <1>4
<1>6. Len(r) = 2 /\ r[1] = a /\ r[2] = b
  BY <1>2, <1>3, <1>5
<1> QED  BY <1>2, <1>3, <1>5, <1>6, TwoLong

(* hyphenated() puts the words of a key, in lower case, at the odd         *)
(* positions of the name, and a dash between them.                         *)
LEMMA Spelled ==
  ASSUME NEW T, NEW key \in Seq(Capitals(T)), key # <<>>
  PROVE  LET name == hyphenated(key)
         IN /\ name \in Seq(Chars(T)) /\ Len(name) = 2 * Len(key) - 1
            /\ \A j \in 1..Len(key) : name[2 * j - 1] = Lower(key[j])
            /\ \A j \in 1..(Len(key) - 1) : name[2 * j] = Dash
<1> DEFINE L == Len(key)
           P == Pieces(key)
           Char == Chars(T)
<1>1. L \in Nat /\ L # 0 /\ DOMAIN key = 1..L
  OBVIOUS
<1>2. /\ P[1] = <<Lower(key[1])>>
      /\ \A i \in 2..L : P[i] = <<Dash, Lower(key[i])>>
      /\ \A i \in 1..L : Lower(key[i]) \in Char
      /\ Dash \in Char
  <2>1. \A i \in 1..L : key[i] \in Capitals(T) /\ key[i].upper = TRUE
    BY DEF Capitals, Capital
  <2>2. \A i \in 1..L : Lower(key[i]) \in Char
    BY <2>1 DEF Chars
  <2>3. Dash \in Char
    BY DEF Chars
  <2>4. P[1] = <<Lower(key[1])>>
    BY <1>1 DEF Pieces
  <2>5. ASSUME NEW i \in 2..L PROVE P[i] = <<Dash, Lower(key[i])>>
    <3>1. i \in 1..L /\ i > 1 /\ key[i].upper = TRUE
      BY <2>1, <1>1
    <3>2. P[i] = <<Dash>> \o <<Lower(key[i])>>
      BY <1>1, <3>1 DEF Pieces
    <3> QED  BY <3>2, TwoOnes
  <2> QED  BY <2>2, <2>3, <2>4, <2>5
<1>3. Len(P) = L
  BY <1>1 DEF Pieces
<1>4. PICK f : Unrolls(P, f, L)
  <2> HIDE DEF P
  <2> QED  BY <1>1, <1>3, Flattened
<1>5. hyphenated(key) = f[L]
  BY <1>4 DEF hyphenated, Pieces, Unrolls
<1> DEFINE Good(i) == /\ f[i] \in Seq(Char) /\ Len(f[i]) = 2 * i - 1
                      /\ \A j \in 1..i : f[i][2 * j - 1] = Lower(key[j])
                      /\ \A j \in 1..(i - 1) : f[i][2 * j] = Dash
<1>6. \A i \in 1..L : f[i] = IF i = 1 THEN P[i] ELSE f[i - 1] \o P[i]
  BY <1>4 DEF Unrolls
<1>7. \A i \in 1..L : i \in Nat /\ i >= 1
  BY <1>1
<1> HIDE DEF P, L, Char
<1>8. Good(1)
  <2>1. f[1] = <<Lower(key[1])>>
    BY <1>1, <1>2, <1>6
  <2>2. Lower(key[1]) \in Char
    BY <1>1, <1>2
  <2>3. f[1] \in Seq(Char) /\ Len(f[1]) = 1
    BY <2>1, <2>2
  <2> QED  BY <2>1, <2>3
<1>9. ASSUME NEW i \in 2..L, Good(i - 1)
      PROVE  Good(i)
  <2>1. i \in Nat /\ i >= 2 /\ i \in 1..L /\ i - 1 \in 1..L /\ i # 1
    BY <1>1
  <2>2. PICK w \in Char : w = Lower(key[i])
    <3>1. Lower(key[i]) \in Char
      BY <1>2, <2>1
    <3> QED  BY <3>1
  <2>3. PICK d \in Char : d = Dash
    BY <1>2
  <2>4. f[i] = f[i - 1] \o <<d, w>> 
    <3>1. f[i] = f[i - 1] \o P[i]
      BY <2>1, <1>6
    <3> QED  BY <3>1, <1>2, <2>2, <2>3
  <2>5. PICK q \in Seq(Char) : q = f[i - 1] /\ Len(q) = 2 * i - 3
    <3>1. 2 * (i - 1) - 1 = 2 * i - 3
      BY <2>1
    <3> QED  BY <1>9, <3>1
  <2>6. PICK r : r = f[i]
    OBVIOUS
  <2>7. r = q \o <<d, w>>
    BY <2>4, <2>5, <2>6
  <2>8. /\ r \in Seq(Char) /\ Len(r) = Len(q) + 2
        /\ r[Len(q) + 1] = d /\ r[Len(q) + 2] = w
        /\ \A n \in 1..Len(q) : r[n] = q[n]
    BY <2>7, Extended
  <2>9. f[i] \in Seq(Char) /\ Len(f[i]) = 2 * i - 1
    BY <2>1, <2>6, <2>5, <2>8
  <2>10. f[i][2 * i - 1] = w /\ f[i][2 * i - 2] = d
    <3>1. Len(q) + 1 = 2 * i - 2 /\ Len(q) + 2 = 2 * i - 1
      BY <2>1, <2>5
    <3> QED  BY <3>1, <2>6, <2>8
  <2>11. \A n \in 1..(2 * i - 3) : f[i][n] = f[i - 1][n]
    BY <2>6, <2>5, <2>8
  <2>12. ASSUME NEW j \in 1..i PROVE f[i][2 * j - 1] = Lower(key[j])
    <3>1. CASE j = i
      BY <3>1, <2>10, <2>2
    <3>2. CASE j # i
      <4>1. j \in 1..(i - 1) /\ 2 * j - 1 \in 1..(2 * i - 3)
        BY <3>2, <2>1
      <4> QED  BY <4>1, <2>11, <1>9
    <3> QED  BY <3>1, <3>2
  <2>13. ASSUME NEW j \in 1..(i - 1) PROVE f[i][2 * j] = Dash
    <3>1. CASE j = i - 1
      <4>1. 2 * j = 2 * i - 2
        BY <3>1, <2>1
      <4> QED  BY <4>1, <2>10, <2>3
    <3>2. CASE j # i - 1
      <4>1. j \in 1..((i - 1) - 1) /\ 2 * j \in 1..(2 * i - 3)
        BY <3>2, <2>1
      <4> QED  BY <4>1, <2>11, <1>9
    <3> QED  BY <3>1, <3>2
  <2> QED  BY <2>9, <2>12, <2>13
<1>10. \A i \in 1..L : Good(i)
  <2> DEFINE Bad == {i \in 1..L : ~Good(i)}
  <2> SUFFICES ASSUME Bad # {} PROVE FALSE
    OBVIOUS
  <2>1. PICK k \in Bad : \A e \in Bad : k <= e
    <3>1. Bad \in SUBSET Nat
      BY <1>1
    <3> HIDE DEF Bad
    <3> QED  BY <3>1, Least
  <2>2. k \in 1..L /\ ~Good(k)
    OBVIOUS
  <2> HIDE DEF Good
  <2>3. k # 1
    BY <1>8, <2>2
  <2>4. k \in 2..L /\ k - 1 \in 1..L /\ k - 1 < k
    BY <2>2, <2>3, <1>1
  <2>5. k - 1 \notin Bad
    BY <2>1, <2>2, <2>4, <1>1
  <2>6. Good(k - 1)
    BY <2>4, <2>5
  <2> QED  BY <2>6, <2>4, <2>2, <1>9
<1>11. Good(L)
  BY <1>10, <1>1
<1> QED  BY <1>11, <1>5 DEF L, Char

(***************************************************************************)
(* Reading it back                                                         *)
(***************************************************************************)
(* A state of camelCased().                                                *)
State(k, b) == [key |-> k, capital |-> b]

(* An assignment to one field of two.                                      *)
LEMMA UpperSet ==
  ASSUME NEW a, NEW b, NEW c
  PROVE  [[text |-> a, upper |-> b] EXCEPT !.upper = c] = [text |-> a, upper |-> c]
OBVIOUS

(* An assignment to one field of two.                                      *)
LEMMA CapitalSet ==
  ASSUME NEW a, NEW b, NEW c
  PROVE  [[key |-> a, capital |-> b] EXCEPT !.capital = c] = [key |-> a, capital |-> c]
OBVIOUS

(* A word after a separator is a capital one; a separator is expected      *)
(* then.                                                                   *)
LEMMA CamelWord ==
  ASSUME NEW t, t # "-", t # "~", NEW k
  PROVE  Camel(State(k, TRUE), Lower(Capital(t))) = State(Append(k, Capital(t)), FALSE)
<1> DEFINE c == Lower(Capital(t))
<1>1. c = [text |-> t, upper |-> FALSE]
  BY UpperSet, Zenon DEF Lower, Capital
<1>2. c # Dash /\ c # Tilde
  BY <1>1 DEF Dash, Tilde
<1>3. [c EXCEPT !.upper = TRUE] = Capital(t)
  <2>1. [c EXCEPT !.upper = TRUE] = [[text |-> t, upper |-> FALSE] EXCEPT !.upper = TRUE]
    BY <1>1
  <2>2. [[text |-> t, upper |-> FALSE] EXCEPT !.upper = TRUE] = [text |-> t, upper |-> TRUE]
    BY UpperSet, Zenon
  <2> QED  BY <2>1, <2>2 DEF Capital
<1> HIDE DEF c
<1>4. Camel(State(k, TRUE), c) = [key |-> Append(k, [c EXCEPT !.upper = TRUE]), capital |-> FALSE]
  BY <1>2 DEF Camel, State
<1>5. Camel(State(k, TRUE), c) = State(Append(k, Capital(t)), FALSE)
  BY <1>3, <1>4 DEF State
<1> QED  BY <1>5 DEF c

(* A dash makes the next word a capital one.                               *)
LEMMA CamelDash ==
  ASSUME NEW k
  PROVE  Camel(State(k, FALSE), Dash) = State(k, TRUE)
<1>1. Dash # Tilde
  BY DEF Dash, Tilde
<1>2. Camel(State(k, FALSE), Dash) = [State(k, FALSE) EXCEPT !.capital = TRUE]
  BY <1>1, Zenon DEF Camel
<1>3. [State(k, FALSE) EXCEPT !.capital = TRUE] = State(k, TRUE)
  BY CapitalSet, Zenon DEF State
<1> QED  BY <1>2, <1>3

(* camelCased() takes the characters of a name one by one.                 *)
LEMMA Stepped ==
  ASSUME NEW name, NEW n \in Nat, DOMAIN name = 1..n
  PROVE  \E h : /\ camelCased(name) = h[n].key
                /\ h[0] = State(<<>>, TRUE)
                /\ \A m \in 1..n : h[m] = Camel(h[m - 1], name[m])
<1>1. PICK g : Iter(name, g, n) /\ camelCased(name) = g[1..n].key
  BY Folded
<1> DEFINE h == [m \in 0..n |-> g[1..m]]
<1>2. h[0] = State(<<>>, TRUE)
  <2>1. 1..0 = {} /\ {} \in SUBSET (1..n)
    OBVIOUS
  <2>2. g[{}] = Start
    BY <1>1, <2>1 DEF Iter
  <2> QED  BY <2>1, <2>2 DEF Start, State
<1>3. ASSUME NEW m \in 1..n
      PROVE  h[m] = Camel(h[m - 1], name[m])
  <2>1. m \in Nat /\ 1..m \in SUBSET (1..n) /\ 1..m # {}
    OBVIOUS
  <2>2. Max(1..m) = m
    <3>1. Max(1..m) \in 1..m /\ \A y \in 1..m : Max(1..m) >= y
      BY <2>1, Greatest
    <3>2. m \in 1..m
      OBVIOUS
    <3> QED  BY <3>1, <3>2
  <2>3. (1..m) \ {m} = 1..(m - 1)
    OBVIOUS
  <2>4. g[1..m] = Camel(g[(1..m) \ {Max(1..m)}], name[Max(1..m)])
    BY <1>1, <2>1 DEF Iter
  <2>5. g[1..m] = Camel(g[1..(m - 1)], name[m])
    BY <2>2, <2>3, <2>4
  <2>6. h[m] = g[1..m] /\ h[m - 1] = g[1..(m - 1)]
    OBVIOUS
  <2> QED  BY <2>5, <2>6
<1>4. h[n] = g[1..n]
  OBVIOUS
<1> QED  BY <1>1, <1>2, <1>3, <1>4

(* enumFromString() reads what enumToString() writes: turning a key into a *)
(* name and the name into a key gives the key again, for all keys of       *)
(* capital words, of any number, that are neither a dash nor a tilde.      *)
THEOREM NamesRoundTrip ==
  ASSUME NEW T, "-" \notin T, "~" \notin T, NEW key \in Seq(Capitals(T)), key # <<>>
  PROVE  camelCased(hyphenated(key)) = key
<1> DEFINE L == Len(key)
           name == hyphenated(key)
           n == 2 * L - 1
<1>1. L \in Nat /\ L # 0 /\ n \in Nat /\ key = [j \in 1..L |-> key[j]]
  OBVIOUS
<1>2. /\ name \in Seq(Chars(T)) /\ Len(name) = n
      /\ \A j \in 1..L : name[2 * j - 1] = Lower(key[j])
      /\ \A j \in 1..(L - 1) : name[2 * j] = Dash
  BY Spelled
<1>3. \A j \in 1..L : \E t \in T : t # "-" /\ t # "~" /\ key[j] = Capital(t)
  BY DEF Capitals
<1> HIDE DEF name
<1>4. DOMAIN name = 1..n
  BY <1>2
<1>5. PICK h : /\ camelCased(name) = h[n].key
               /\ h[0] = State(<<>>, TRUE)
               /\ \A m \in 1..n : h[m] = Camel(h[m - 1], name[m])
  <2> HIDE DEF n
  <2> QED  BY <1>1, <1>4, Stepped
<1> DEFINE Upto(i) == [j \in 1..i |-> key[j]]
           Good(i) == h[2 * i - 1] = State(Upto(i), FALSE)
<1>6. ASSUME NEW i \in 1..L
      PROVE  Append(Upto(i - 1), key[i]) = Upto(i)
  <2>1. i \in 1..L /\ i \in Nat /\ i - 1 \in Nat
    BY <1>1
  <2> HIDE DEF L
  <2>2. Upto(i - 1) \in Seq({key[j] : j \in 1..L}) /\ Len(Upto(i - 1)) = i - 1
    <3>1. \A j \in 1..(i - 1) : key[j] \in {key[e] : e \in 1..L}
      BY <2>1, <1>1
    <3> QED  BY <2>1, <3>1
  <2>3. PICK q : q = Upto(i - 1)
    OBVIOUS
  <2>4. key[i] \in {key[j] : j \in 1..L}
    OBVIOUS
  <2>5. Append(q, key[i]) = [j \in 1..i |-> IF j = i THEN key[i] ELSE q[j]]
    <3> HIDE DEF Upto
    <3> QED  BY <2>1, <2>2, <2>3, <2>4
  <2>6. \A j \in 1..i : (IF j = i THEN key[i] ELSE q[j]) = key[j]
    BY <2>1, <2>3
  <2> QED  BY <2>3, <2>5, <2>6
<1>7. ASSUME NEW i \in 1..L, h[2 * i - 2] = State(Upto(i - 1), TRUE)
      PROVE  Good(i)
  <2>1. 2 * i - 1 \in 1..n /\ (2 * i - 1) - 1 = 2 * i - 2
    BY <1>1
  <2>2. h[2 * i - 1] = Camel(h[2 * i - 2], name[2 * i - 1])
    BY <1>5, <2>1
  <2>3. PICK t \in T : t # "-" /\ t # "~" /\ key[i] = Capital(t)
    BY <1>3
  <2>4. name[2 * i - 1] = Lower(Capital(t))
    BY <1>2, <2>3
  <2> HIDE DEF Upto
  <2>5. h[2 * i - 1] = State(Append(Upto(i - 1), key[i]), FALSE)
    BY <1>7, <2>2, <2>3, <2>4, CamelWord
  <2> QED  BY <2>5, <1>6
<1>8. Good(1)
  <2>1. 2 * 1 - 2 = 0 /\ 1 \in 1..L /\ Upto(1 - 1) = <<>>
    BY <1>1
  <2> HIDE DEF Good, Upto
  <2> QED  BY <2>1, <1>5, <1>7
<1>9. ASSUME NEW i \in 2..L, Good(i - 1)
      PROVE  Good(i)
  <2>1. /\ 2 * i - 2 \in 1..n /\ (2 * i - 2) - 1 = 2 * (i - 1) - 1 /\ i \in 1..L
        /\ i - 1 \in 1..(L - 1) /\ 2 * (i - 1) = 2 * i - 2
    BY <1>1
  <2>2. h[2 * i - 2] = Camel(h[2 * (i - 1) - 1], name[2 * i - 2])
    BY <1>5, <2>1
  <2>3. name[2 * i - 2] = Dash
    BY <1>2, <2>1
  <2> HIDE DEF Upto
  <2>4. h[2 * i - 2] = State(Upto(i - 1), TRUE)
    BY <1>9, <2>2, <2>3, CamelDash
  <2> QED  BY <2>1, <2>4, <1>7
<1> HIDE DEF Good
<1>10. Good(L)
  <2> DEFINE Bad == {i \in 1..L : ~Good(i)}
  <2> SUFFICES ASSUME Bad # {} PROVE FALSE
    BY <1>1
  <2>1. PICK k \in Bad : \A e \in Bad : k <= e
    <3>1. Bad \in SUBSET Nat
      BY <1>1
    <3> HIDE DEF Bad
    <3> QED  BY <3>1, Least
  <2>2. k \in 1..L /\ ~Good(k)
    OBVIOUS
  <2>3. k # 1
    BY <1>8, <2>2
  <2>4. k \in 2..L /\ k - 1 \in 1..L /\ k - 1 < k
    BY <2>2, <2>3, <1>1
  <2>5. k - 1 \notin Bad
    BY <2>1, <2>2, <2>4, <1>1
  <2>6. Good(k - 1)
    BY <2>4, <2>5
  <2> QED  BY <2>6, <2>4, <2>2, <1>9
<1>11. h[n] = State(Upto(L), FALSE)
  BY <1>10 DEF Good
<1>12. h[n].key = key
  BY <1>11, <1>1 DEF State
<1> QED  BY <1>12, <1>5 DEF name

(***************************************************************************)
(* The table of groups                                                     *)
(***************************************************************************)
(* There are 35 groups.                                                    *)
LEMMA TableSize == Group = 0..34 /\ Len(GroupWords) = 35
<1>1. Len(GroupWords) = 35
  BY DEF GroupWords
<1> QED  BY <1>1 DEF Group

(* No two groups have the same words.                                      *)
LEMMA WordsDistinct ==
  ASSUME NEW g \in 0..34, NEW h \in 0..34, GroupWords[g + 1] = GroupWords[h + 1]
  PROVE  g = h
BY DEF GroupWords

(* A group has one word or two, none of them a dash or a tilde.            *)
LEMMA WordsThere ==
  ASSUME NEW g \in 0..34
  PROVE  \/ \E v : GroupWords[g + 1] = <<v>> /\ v # "-" /\ v # "~"
         \/ \E v, w : GroupWords[g + 1] = <<v, w>> /\ v # "-" /\ v # "~" /\ w # "-" /\ w # "~"
BY DEF GroupWords

(* The texts of the words of groups.                                       *)
Texts == {GroupWords[g + 1][1] : g \in Group}
         \cup {GroupWords[g + 1][2] : g \in {e \in Group : Len(GroupWords[e + 1]) = 2}}

(* The keys of groups are among those of NamesRoundTrip.                   *)
LEMMA Keys ==
  ASSUME NEW g \in Group
  PROVE  GroupKey(g) \in Seq(Capitals(Texts)) /\ GroupKey(g) # <<>>
<1> DEFINE words == GroupWords[g + 1]
<1>1. CASE \E v : words = <<v>>
  <2>1. PICK v : words = <<v>>
    BY <1>1
  <2>2. v \in Texts
    BY <2>1 DEF Texts
  <2>3. Capital(v) \in Capitals(Texts)
    BY <2>2 DEF Capitals
  <2>4. GroupKey(g) = [i \in 1..1 |-> Capital(words[i])]
    BY <2>1 DEF GroupKey
  <2>5. GroupKey(g) = [i \in 1..1 |-> Capital(v)]
    BY <2>1, <2>4
  <2> QED  BY <2>3, <2>5
<1>2. CASE \E v, w : words = <<v, w>>
  <2>1. PICK v, w : words = <<v, w>>
    BY <1>2
  <2>2. v \in Texts /\ w \in Texts
    BY <2>1 DEF Texts
  <2>3. Capital(v) \in Capitals(Texts) /\ Capital(w) \in Capitals(Texts)
    BY <2>2 DEF Capitals
  <2>4. GroupKey(g) = [i \in 1..2 |-> Capital(words[i])]
    BY <2>1 DEF GroupKey
  <2>5. GroupKey(g) = [i \in 1..2 |-> IF i = 1 THEN Capital(v) ELSE Capital(w)]
    BY <2>1, <2>4
  <2> QED  BY <2>3, <2>5
<1> QED
  <2> HIDE DEF words
  <2> QED  BY <1>1, <1>2, TableSize, WordsThere DEF words

(* No two groups have the same key.                                        *)
LEMMA KeysDistinct ==
  ASSUME NEW g \in Group, NEW h \in Group, GroupKey(g) = GroupKey(h)
  PROVE  g = h
<1> DEFINE u == GroupWords[g + 1]
           v == GroupWords[h + 1]
<1>1. g \in 0..34 /\ h \in 0..34
  BY TableSize
<1>2. DOMAIN u = DOMAIN v
  BY DEF GroupKey
<1>3. \A i \in DOMAIN u : Capital(u[i]) = Capital(v[i])
  BY <1>2 DEF GroupKey
<1>4. \A i \in DOMAIN u : u[i] = v[i]
  BY <1>3 DEF Capital
<1>5. /\ u = [i \in DOMAIN u |-> u[i]]
      /\ v = [i \in DOMAIN v |-> v[i]]
  BY <1>1, WordsThere
<1>6. u = v
  <2> HIDE DEF u, v
  <2> QED  BY <1>2, <1>4, <1>5
<1> QED  BY <1>1, <1>6, WordsDistinct

(* No text is a separator.                                                 *)
LEMMA TextsPlain == "-" \notin Texts /\ "~" \notin Texts
BY TableSize, WordsThere DEF Texts

(* A group is read from its name.                                          *)
LEMMA GroupsRead ==
  ASSUME NEW g \in Group
  PROVE  enumFromString(enumToString(g)) = g
<1>1. camelCased(hyphenated(GroupKey(g))) = GroupKey(g)
  <2>1. GroupKey(g) \in Seq(Capitals(Texts)) /\ GroupKey(g) # <<>>
    BY Keys
  <2> QED  BY <2>1, TextsPlain, NamesRoundTrip
<1>2. {h \in Group : GroupKey(h) = GroupKey(g)} = {g}
  BY KeysDistinct
<1> QED  BY <1>1, <1>2 DEF enumFromString, enumToString

(* The empty name, which the values without a key have, is read as         *)
(* Unknown.                                                                *)
LEMMA NoName == enumFromString(<<>>) = GroupUnknown
<1>1. camelCased(<<>>) = <<>>
  <2>1. 0 \in Nat /\ DOMAIN <<>> = 1..0
    OBVIOUS
  <2>2. PICK h : camelCased(<<>>) = h[0].key /\ h[0] = State(<<>>, TRUE)
    BY <2>1, Stepped
  <2> QED  BY <2>2 DEF State
<1>2. {h \in Group : GroupKey(h) = <<>>} = {}
  BY Keys
<1> QED  BY <1>1, <1>2 DEF enumFromString

(* What enumFromString() makes of the name of any value.                   *)
LEMMA NamesRead ==
  ASSUME NEW i \in Nat
  PROVE  enumFromString(enumToString(i)) = IF i \in Group THEN i ELSE GroupUnknown
BY GroupsRead, NoName DEF enumToString

(***************************************************************************)
(* Searching a set of groups                                               *)
(***************************************************************************)
(* What searchGroups() sends for each bit.                                 *)
Sent(mask) == [i \in 1..63 |-> IF TestBit(mask, i) # {} /\ i # GroupUnknown
                                 THEN <<enumToString(i)>> ELSE <<>>]

(* names are those of the bits 1..k of mask; src says of which bit each    *)
(* is.                                                                     *)
NamesOf(names, src, mask, k) ==
  /\ names \in Seq({enumToString(b) : b \in 1..63})
  /\ src \in [1..Len(names) -> mask \cap (1..k)]
  /\ \A n \in 1..Len(names) : names[n] = enumToString(src[n])
  /\ \A m, n \in 1..Len(names) : src[m] = src[n] => m = n
  /\ \A b \in mask \cap (1..k) : \E n \in 1..Len(names) : src[n] = b

(* The next bit adds its name, or nothing.                                 *)
LEMMA OneMore ==
  ASSUME NEW mask, NEW k \in 1..63, NEW names, NEW src, NamesOf(names, src, mask, k - 1),
         NEW more, more = names \o Sent(mask)[k]
  PROVE  \E s : NamesOf(more, s, mask, k)
<1> DEFINE C == {enumToString(b) : b \in 1..63}
<1>1. k \in Nat /\ k # 0 /\ names \in Seq(C) /\ Len(names) \in Nat
  BY DEF NamesOf
<1>2. CASE k \notin mask
  <2>1. Sent(mask)[k] = <<>>
    BY <1>2 DEF Sent, TestBit
  <2>2. more = names
    BY <2>1, <1>1
  <2>3. mask \cap (1..k) = mask \cap (1..(k - 1))
    BY <1>2, <1>1
  <2> QED  BY <2>2, <2>3 DEF NamesOf
<1>3. CASE k \in mask
  <2> DEFINE L == Len(names)
             s == [n \in 1..(L + 1) |-> IF n = L + 1 THEN k ELSE src[n]]
  <2>1. Sent(mask)[k] = <<enumToString(k)>>
    <3>1. TestBit(mask, k) # {}
      BY <1>3 DEF TestBit
    <3> QED  BY <3>1, <1>1 DEF Sent, GroupUnknown
  <2>2. PICK c \in C : c = enumToString(k)
    OBVIOUS
  <2> HIDE DEF C
  <2>3. more = names \o <<c>>
    BY <2>1, <2>2
  <2>4. more \in Seq(C) /\ Len(more) = L + 1 /\ more[L + 1] = c /\ \A n \in 1..L : more[n] = names[n]
    BY <2>3, <1>1
  <2>5. \A n \in 1..L : src[n] \in mask \cap (1..(k - 1))
    BY DEF NamesOf
  <2>6. L \in Nat
    BY <1>1
  <2> HIDE DEF L
  <2>7. \A n \in 1..(L + 1) : n = L + 1 \/ n \in 1..L
    BY <2>6
  <2>8. s \in [1..(L + 1) -> mask \cap (1..k)]
    <3> SUFFICES ASSUME NEW n \in 1..(L + 1)
                 PROVE  s[n] \in mask \cap (1..k)
      OBVIOUS
    <3>1. CASE n = L + 1
      BY <3>1, <1>3, <1>1
    <3>2. CASE n # L + 1
      <4>1. s[n] = src[n] /\ src[n] \in mask \cap (1..(k - 1))
        BY <3>2, <2>5, <2>7
      <4> QED  BY <4>1, <1>1
    <3> QED  BY <3>1, <3>2
  <2>9. ASSUME NEW n \in 1..(L + 1)
        PROVE  more[n] = enumToString(s[n])
    <3>1. CASE n = L + 1
      BY <3>1, <2>4, <2>2
    <3>2. CASE n # L + 1
      <4>1. n \in 1..L
        BY <2>7, <3>2
      <4> QED  BY <4>1, <3>2, <2>4 DEF NamesOf, L
    <3> QED  BY <3>1, <3>2
  <2>10. ASSUME NEW m \in 1..(L + 1), NEW n \in 1..(L + 1), s[m] = s[n]
         PROVE  m = n
    <3>1. CASE m = L + 1 /\ n # L + 1
      <4>1. s[m] = k /\ s[n] \in 1..(k - 1)
        BY <3>1, <2>5, <2>7
      <4> QED  BY <4>1, <2>10, <1>1
    <3>2. CASE m # L + 1 /\ n = L + 1
      <4>1. s[n] = k /\ s[m] \in 1..(k - 1)
        BY <3>2, <2>5, <2>7
      <4> QED  BY <4>1, <2>10, <1>1
    <3>3. CASE m # L + 1 /\ n # L + 1
      <4>1. m \in 1..L /\ n \in 1..L /\ src[m] = src[n]
        BY <3>3, <2>7, <2>10
      <4> QED  BY <4>1 DEF NamesOf, L
    <3> QED  BY <3>1, <3>2, <3>3
  <2>11. ASSUME NEW b \in mask \cap (1..k)
         PROVE  \E n \in 1..(L + 1) : s[n] = b
    <3>1. CASE b = k
      <4>1. L + 1 \in 1..(L + 1) /\ s[L + 1] = k
        BY <2>6
      <4> QED  BY <3>1, <4>1
    <3>2. CASE b # k
      <4>1. b \in mask \cap (1..(k - 1))
        BY <3>2, <1>1
      <4>2. PICK n \in 1..L : src[n] = b
        BY <4>1 DEF NamesOf, L
      <4>3. n \in 1..(L + 1) /\ n # L + 1
        BY <2>6
      <4> QED  BY <4>2, <4>3
    <3> QED  BY <3>1, <3>2
  <2> HIDE DEF s
  <2>12. NamesOf(more, s, mask, k)
    BY <2>4, <2>8, <2>9, <2>10, <2>11 DEF NamesOf, C
  <2> QED  BY <2>12
<1> QED  BY <1>2, <1>3

(* A sequence of at most one element.                                      *)
LEMMA AtMostOne ==
  ASSUME NEW C, NEW c \in C, NEW p, p = <<>> \/ p = <<c>>
  PROVE  p \in Seq(C)
<1>1. <<>> \in Seq(C) /\ <<c>> \in Seq(C)
  OBVIOUS
<1> QED
  BY <1>1

(* searchGroups() sends the names of the bits 1..63 that are set, each     *)
(* once.                                                                   *)
LEMMA Searched ==
  ASSUME NEW mask
  PROVE  \E src : NamesOf(searchGroups(mask), src, mask, 63)
<1> DEFINE P == Sent(mask)
<1>1. Len(P) = 63
  BY DEF Sent
<1>2. \A i \in 1..63 : P[i] = <<>> \/ P[i] = <<enumToString(i)>>
  BY DEF Sent
<1>3. FlattenSeq(P) = searchGroups(mask)
  BY DEF searchGroups, Sent
<1>4. P = Sent(mask)
  OBVIOUS
<1> HIDE DEF P
<1>5. PICK f : Unrolls(P, f, 63)
  <2>1. PICK k \in Nat : k = 63
    OBVIOUS
  <2>2. Len(P) = k /\ k # 0
    BY <1>1, <2>1
  <2>3. \E f : Unrolls(P, f, k)
    BY <2>2, Flattened
  <2> QED  BY <2>1, <2>3, Zenon
<1>6. \A i \in 1..63 : f[i] = IF i = 1 THEN P[i] ELSE f[i - 1] \o P[i]
  BY <1>5, Zenon DEF Unrolls
<1>7. searchGroups(mask) = f[63]
  BY <1>5, <1>3 DEF Unrolls
<1> DEFINE Good(k) == \E src : NamesOf(f[k], src, mask, k)
<1>8. Good(1)
  <2> DEFINE C == {enumToString(b) : b \in 1..63}
  <2>1. NamesOf(<<>>, <<>>, mask, 0)
    BY DEF NamesOf
  <2>2. 1 \in 1..63 /\ 1 - 1 = 0
    OBVIOUS
  <2>3. P[1] \in Seq(C)
    <3>1. PICK c \in C : c = enumToString(1)
      OBVIOUS
    <3>2. P[1] = <<>> \/ P[1] = <<c>>
      BY <1>2, <2>2, <3>1
    <3> HIDE DEF C
    <3> QED  BY <3>2, AtMostOne
  <2> HIDE DEF C
  <2>4. f[1] = <<>> \o P[1]
    BY <1>6, <2>2, <2>3, ConcatEmptySeq
  <2> QED  BY <1>4, <2>1, <2>4, <2>2, OneMore
<1>9. ASSUME NEW k \in 2..63, Good(k - 1)
      PROVE  Good(k)
  <2>1. PICK src : NamesOf(f[k - 1], src, mask, k - 1)
    BY <1>9
  <2>2. k \in 1..63 /\ k # 1
    OBVIOUS
  <2>3. f[k] = f[k - 1] \o Sent(mask)[k]
    BY <1>6, <1>4, <2>2
  <2> QED  BY <2>1, <2>2, <2>3, OneMore
<1> HIDE DEF Good
<1>10. Good(63)
  <2> DEFINE Bad == {i \in 1..63 : ~Good(i)}
  <2> SUFFICES ASSUME Bad # {} PROVE FALSE
    OBVIOUS
  <2>1. PICK k \in Bad : \A e \in Bad : k <= e
    <3>1. Bad \in SUBSET Nat
      OBVIOUS
    <3> HIDE DEF Bad
    <3> QED  BY <3>1, Least
  <2>2. k \in 1..63 /\ ~Good(k)
    OBVIOUS
  <2>3. k # 1
    BY <1>8, <2>2
  <2>4. k \in 2..63 /\ k - 1 \in 1..63 /\ k - 1 < k
    BY <2>2, <2>3
  <2>5. k - 1 \notin Bad
    BY <2>1, <2>2, <2>4
  <2>6. Good(k - 1)
    BY <2>4, <2>5
  <2> QED  BY <2>6, <2>4, <2>2, <1>9
<1> QED  BY <1>7, <1>10 DEF Good

(* What is read back are the groups in mask, each once, and some Unknown.  *)
Recovers(read, mask) ==
  /\ ToSet(read) \ {GroupUnknown} = (mask \cap Group) \ {GroupUnknown}
  /\ \A m, n \in DOMAIN read : read[m] = read[n] /\ m # n => read[m] = GroupUnknown

(* It is what is read from the names that are sent.                        *)
LEMMA AllRead ==
  ASSUME NEW mask, mask \subseteq 0..63, NEW names, names = searchGroups(mask),
         NEW read, DOMAIN read = DOMAIN names,
         \A n \in DOMAIN names : read[n] = enumFromString(names[n])
  PROVE  Recovers(read, mask)
<1>1. PICK src : NamesOf(names, src, mask, 63)
  BY Searched
<1> DEFINE L == Len(names)
<1>2. /\ DOMAIN names = 1..L
      /\ \A n \in 1..L : src[n] \in mask /\ src[n] \in 1..63 /\ names[n] = enumToString(src[n])
      /\ \A m, n \in 1..L : src[m] = src[n] => m = n
      /\ \A b \in mask \cap (1..63) : \E n \in 1..L : src[n] = b
  <2>1. DOMAIN names = 1..L
    BY <1>1 DEF NamesOf
  <2>2. \A n \in 1..L : src[n] \in mask \cap (1..63)
    BY <1>1 DEF NamesOf
  <2> QED  BY <1>1, <2>1, <2>2 DEF NamesOf
<1> HIDE DEF L
<1>3. DOMAIN read = 1..L /\ \A n \in 1..L : read[n] = enumFromString(names[n])
  BY <1>2
<1>4. \A n \in 1..L : read[n] = IF src[n] \in Group THEN src[n] ELSE GroupUnknown
  <2> SUFFICES ASSUME NEW n \in 1..L
               PROVE  read[n] = IF src[n] \in Group THEN src[n] ELSE GroupUnknown
    OBVIOUS
  <2>1. src[n] \in Nat /\ names[n] = enumToString(src[n])
    <3>1. src[n] \in 1..63 /\ names[n] = enumToString(src[n])
      BY <1>2
    <3> QED  BY <3>1
  <2>2. read[n] = enumFromString(enumToString(src[n]))
    BY <1>3, <2>1
  <2> QED  BY <2>1, <2>2, NamesRead
<1>5. DOMAIN read = 1..L
  BY <1>3
<1>6. ToSet(read) = {read[n] : n \in 1..L}
  BY <1>5 DEF ToSet
<1>7. ASSUME NEW g \in ToSet(read) \ {GroupUnknown}
      PROVE  g \in (mask \cap Group) \ {GroupUnknown}
  <2>1. PICK n \in 1..L : g = read[n]
    BY <1>6
  <2> QED  BY <2>1, <1>2, <1>4
<1>8. ASSUME NEW g \in (mask \cap Group) \ {GroupUnknown}
      PROVE  g \in ToSet(read) \ {GroupUnknown}
  <2>1. g \in mask \cap (1..63)
    BY DEF GroupUnknown
  <2>2. PICK n \in 1..L : src[n] = g
    BY <2>1, <1>2
  <2> QED  BY <2>2, <1>4, <1>6
<1>9. ASSUME NEW m \in 1..L, NEW n \in 1..L, read[m] = read[n], m # n
      PROVE  read[m] = GroupUnknown
  <2>1. src[m] # src[n]
    BY <1>2, <1>9
  <2> QED  BY <2>1, <1>4, <1>9
<1>10. ToSet(read) \ {GroupUnknown} = (mask \cap Group) \ {GroupUnknown}
  <2> HIDE DEF GroupUnknown
  <2> QED  BY <1>7, <1>8
<1>11. \A m, n \in DOMAIN read : read[m] = read[n] /\ m # n => read[m] = GroupUnknown
  BY <1>5, <1>9
<1> QED  BY <1>10, <1>11 DEF Recovers

(***************************************************************************)
(* Cutting a package id                                                    *)
(***************************************************************************)
(* The minimum of a set of numbers is its smallest element.                *)
LEMMA Smallest ==
  ASSUME NEW S \in SUBSET Nat, S # {}
  PROVE  Min(S) \in S /\ \A y \in S : Min(S) <= y
<1>1. \E x \in S : \A y \in S : x <= y
  BY Least
<1> QED  BY <1>1 DEF Min

(* There is no separator between from and at, where the first one is.      *)
Found(pid, from, at) ==
  \/ /\ at = 0
     /\ \A i \in from..Len(pid) : pid[i] # Separator
  \/ /\ at \in from..Len(pid)
     /\ pid[at] = Separator
     /\ \A i \in from..(at - 1) : pid[i] # Separator

(* indexOf() finds it.                                                     *)
LEMMA IndexFound ==
  ASSUME NEW C, NEW pid \in Seq(C), NEW from \in Nat
  PROVE  Found(pid, from, indexOf(pid, from))
<1> DEFINE I == {i \in from..Len(pid) : pid[i] = Separator}
<1>1. indexOf(pid, from) = IF I # {} THEN Min(I) ELSE 0
  BY DEF indexOf, SelectInSubSeq
<1>2. I \in SUBSET Nat
  OBVIOUS
<1>3. CASE I = {}
  BY <1>1, <1>3 DEF Found
<1>4. CASE I # {}
  <2>1. Min(I) \in I /\ \A y \in I : Min(I) <= y
    <3> HIDE DEF I
    <3> QED  BY <1>2, <1>4, Smallest
  <2>2. PICK at \in I : at = indexOf(pid, from) /\ \A y \in I : at <= y
    BY <2>1, <1>1, <1>4
  <2>3. at \in from..Len(pid) /\ pid[at] = Separator
    OBVIOUS
  <2>4. ASSUME NEW i \in from..(at - 1)
        PROVE  pid[i] # Separator
    <3>1. i \in from..Len(pid) /\ ~(at <= i)
      BY <2>3
    <3>2. i \notin I
      BY <3>1, <2>2
    <3> QED  BY <3>1, <3>2
  <2> HIDE DEF I
  <2> QED  BY <2>2, <2>3, <2>4 DEF Found
<1> QED  BY <1>3, <1>4

(* A sequence is put together again from what is in front of an element,   *)
(* the element and what is behind it.                                      *)
LEMMA Joined ==
  ASSUME NEW C, NEW pid \in Seq(C), NEW k \in 1..Len(pid), NEW e \in k..Len(pid)
  PROVE  SubSeq(pid, 1, k - 1) \o (<<pid[k]>> \o SubSeq(pid, k + 1, e)) = SubSeq(pid, 1, e)
<1>1. <<pid[k]>> \o SubSeq(pid, k + 1, e) = SubSeq(pid, k, e)
  BY SubSeqRecursiveFirst
<1>2. SubSeq(pid, 1, k - 1) \o SubSeq(pid, k, e) = SubSeq(pid, 1, e)
  <2>1. k - 1 \in (1 - 1)..Len(pid) /\ (k - 1) + 1 = k /\ e \in (k - 1)..Len(pid)
        /\ 1 \in 1..(Len(pid) + 1)
    <3>1. Len(pid) \in Nat /\ k \in Nat /\ e \in Nat /\ 1 <= k /\ k <= e /\ e <= Len(pid)
      OBVIOUS
    <3> QED  BY <3>1
  <2>2. SubSeq(pid, 1, k - 1) \o SubSeq(pid, (k - 1) + 1, e) = SubSeq(pid, 1, e)
    BY <2>1, ConcatAdjacentSubSeq
  <2> QED  BY <2>1, <2>2
<1> QED
  BY <1>1, <1>2

(* Between two separators there is none.                                   *)
LEMMA Apart ==
  ASSUME NEW C, NEW pid \in Seq(C), NEW m \in 1..(Len(pid) + 1), NEW e \in 0..Len(pid), m <= e + 1,
         \A i \in m..e : pid[i] # Separator
  PROVE  Separator \notin ToSet(SubSeq(pid, m, e))
<1>1. /\ SubSeq(pid, m, e) \in Seq(C)
      /\ \A i \in 1..((e - m) + 1) : SubSeq(pid, m, e)[i] = pid[m + i - 1]
      /\ Len(SubSeq(pid, m, e)) = (e - m) + 1
  OBVIOUS
<1>2. PICK t : t = SubSeq(pid, m, e) /\ DOMAIN t = 1..((e - m) + 1)
               /\ \A i \in 1..((e - m) + 1) : t[i] = pid[m + i - 1]
  <2>1. PICK t : t = SubSeq(pid, m, e)
    OBVIOUS
  <2>2. DOMAIN t = 1..((e - m) + 1)
    BY <1>1, <2>1
  <2> QED  BY <1>1, <2>1, <2>2
<1>3. ASSUME NEW i \in 1..((e - m) + 1)
      PROVE  t[i] # Separator
  <2>1. m + i - 1 \in m..e
    OBVIOUS
  <2> QED  BY <2>1, <1>2
<1> QED  BY <1>2, <1>3 DEF ToSet

(* Where the parts of a package id begin and end.                          *)
LEMMA PartsCut ==
  ASSUME NEW C, NEW pid \in Seq(C),
         NEW a, a = indexOf(pid, 1), NEW b, b = indexOf(pid, a + 1), NEW c, c = indexOf(pid, b + 1)
  PROVE  /\ packageName(pid) = SubSeq(pid, 1, IF a = 0 THEN Len(pid) ELSE a - 1)
         /\ packageVersion(pid) = IF a = 0 THEN <<>>
                                  ELSE SubSeq(pid, a + 1, IF b = 0 THEN Len(pid) ELSE b - 1)
         /\ packageArch(pid) = IF a = 0 \/ b = 0 THEN <<>>
                               ELSE SubSeq(pid, b + 1, IF c = 0 THEN Len(pid) ELSE c - 1)
         /\ packageData(pid) = IF a = 0 \/ b = 0 \/ c = 0 THEN <<>>
                               ELSE SubSeq(pid, c + 1, Len(pid))
<1> DEFINE second == IF a = 0 THEN 0 ELSE b
           third == IF second = 0 THEN 0 ELSE indexOf(pid, second + 1)
<1>1. nth(pid) = <<a, second, third>>
  BY Zenon DEF nth
<1>2. nth(pid)[1] = a /\ nth(pid)[2] = second /\ nth(pid)[3] = third
  BY <1>1
<1> HIDE DEF second, third
<1>3. packageName(pid) = SubSeq(pid, 1, IF a = 0 THEN Len(pid) ELSE a - 1)
  BY DEF packageName, mid
<1>4. packageVersion(pid) = IF a = 0 THEN <<>> ELSE mid(pid, a + 1)
  BY <1>2 DEF packageVersion
<1>5. mid(pid, a + 1) = SubSeq(pid, a + 1, IF b = 0 THEN Len(pid) ELSE b - 1)
  BY DEF mid
<1>6. packageArch(pid) = IF second = 0 THEN <<>> ELSE mid(pid, second + 1)
  BY <1>2 DEF packageArch
<1>7. mid(pid, b + 1) = SubSeq(pid, b + 1, IF c = 0 THEN Len(pid) ELSE c - 1)
  BY DEF mid
<1>8. packageData(pid) = IF third = 0 THEN <<>> ELSE SubSeq(pid, third + 1, Len(pid))
  BY <1>2 DEF packageData
<1>9. second = (IF a = 0 THEN 0 ELSE b) /\ (second = b => third = IF b = 0 THEN 0 ELSE c)
      /\ (second = 0 => third = 0)
  BY DEF second, third
<1> QED  BY <1>3, <1>4, <1>5, <1>6, <1>7, <1>8, <1>9

(* The first three separators of an id, 0 for those it does not have.      *)
Cuts(pid, a, b, c) ==
  \/ a = 0 /\ \A i \in 1..Len(pid) : pid[i] # Separator
  \/ /\ a \in 1..Len(pid) /\ pid[a] = Separator
     /\ \A i \in 1..(a - 1) : pid[i] # Separator
     /\ \/ b = 0 /\ \A i \in (a + 1)..Len(pid) : pid[i] # Separator
        \/ /\ b \in (a + 1)..Len(pid) /\ pid[b] = Separator
           /\ \A i \in (a + 1)..(b - 1) : pid[i] # Separator
           /\ \/ c = 0 /\ \A i \in (b + 1)..Len(pid) : pid[i] # Separator
              \/ /\ c \in (b + 1)..Len(pid) /\ pid[c] = Separator
                 /\ \A i \in (b + 1)..(c - 1) : pid[i] # Separator

(* They are where indexOf() finds them.                                    *)
LEMMA CutsFound ==
  ASSUME NEW C, NEW pid \in Seq(C),
         NEW a, a = indexOf(pid, 1), NEW b, b = indexOf(pid, a + 1), NEW c, c = indexOf(pid, b + 1)
  PROVE  Cuts(pid, a, b, c)
<1>1. Found(pid, 1, a)
  BY IndexFound
<1>2. CASE a = 0
  BY <1>1, <1>2 DEF Found, Cuts
<1>3. CASE a # 0
  <2>1. a \in 1..Len(pid) /\ pid[a] = Separator /\ \A i \in 1..(a - 1) : pid[i] # Separator
    BY <1>1, <1>3 DEF Found
  <2>2. a + 1 \in Nat
    BY <2>1
  <2>3. Found(pid, a + 1, b)
    BY <2>2, IndexFound
  <2>4. CASE b = 0
    BY <2>1, <2>3, <2>4 DEF Found, Cuts
  <2>5. CASE b # 0
    <3>1. /\ b \in (a + 1)..Len(pid) /\ pid[b] = Separator
          /\ \A i \in (a + 1)..(b - 1) : pid[i] # Separator
      BY <2>3, <2>5 DEF Found
    <3>2. b + 1 \in Nat
      BY <2>2, <3>1
    <3>3. Found(pid, b + 1, c)
      BY <3>2, IndexFound
    <3> QED  BY <2>1, <3>1, <3>3 DEF Found, Cuts
  <2> QED  BY <2>4, <2>5
<1> QED  BY <1>2, <1>3

(* Adding one element.                                                     *)
LEMMA OneAdded ==
  ASSUME NEW S, IsFiniteSet(S), NEW x, x \notin S, NEW n \in Nat, Cardinality(S) = n
  PROVE  IsFiniteSet(S \cup {x}) /\ Cardinality(S \cup {x}) = n + 1
BY FS_AddElement

(* An id has one part more than separators, but no more than four.         *)
LEMMA Counted ==
  ASSUME NEW C, NEW pid \in Seq(C), NEW a, NEW b, NEW c, Cuts(pid, a, b, c)
  PROVE  Present(pid) = IF a = 0 THEN 1 ELSE IF b = 0 THEN 2 ELSE IF c = 0 THEN 3 ELSE 4
<1> DEFINE S == {i \in DOMAIN pid : pid[i] = Separator}
           N == Len(pid)
<1>1. N \in Nat /\ DOMAIN pid = 1..N
  OBVIOUS
<1>2. IsFiniteSet(S)
  <2>1. S \subseteq 1..N
    OBVIOUS
  <2>2. IsFiniteSet(1..N)
    BY <1>1, FS_Interval
  <2> HIDE DEF S
  <2> QED  BY <2>1, <2>2, FS_Subset
<1>3. Separators(pid) = Cardinality(S)
  BY DEF Separators
<1>4. CASE a = 0
  <2>1. S = {}
    BY <1>4, <1>1 DEF Cuts
  <2>2. Separators(pid) = 0
    BY <2>1, <1>3, FS_EmptySet
  <2> QED  BY <1>4, <2>2 DEF Present
<1>5. CASE a # 0 /\ b = 0
  <2>1. a \in 1..N /\ pid[a] = Separator /\ (\A i \in 1..(a - 1) : pid[i] # Separator)
        /\ \A i \in (a + 1)..N : pid[i] # Separator
    BY <1>5, <1>1 DEF Cuts
  <2>2. S = {a}
    <3>1. \A i \in 1..N : i \in 1..(a - 1) \/ i = a \/ i \in (a + 1)..N
      BY <1>1, <2>1
    <3> QED  BY <2>1, <3>1, <1>1
  <2>3. Separators(pid) = 1
    BY <2>2, <1>3, FS_Singleton
  <2> QED  BY <1>5, <2>3 DEF Present
<1>6. CASE a # 0 /\ b # 0
  <2>1. /\ a \in 1..N /\ pid[a] = Separator /\ \A i \in 1..(a - 1) : pid[i] # Separator
        /\ b \in (a + 1)..N /\ pid[b] = Separator /\ \A i \in (a + 1)..(b - 1) : pid[i] # Separator
    BY <1>6 DEF Cuts
  <2>2. a < b /\ a \in S /\ b \in S /\ a \in Nat /\ b \in Nat
    BY <1>1, <2>1
  <2>3. Cardinality({a, b}) = 2 /\ IsFiniteSet({a, b})
    <3>1. IsFiniteSet({a}) /\ Cardinality({a}) = 1
      BY FS_Singleton
    <3>2. b \notin {a} /\ 1 \in Nat
      BY <2>2
    <3>3. IsFiniteSet({a} \cup {b}) /\ Cardinality({a} \cup {b}) = 1 + 1
      BY <3>1, <3>2, OneAdded
    <3>4. {a} \cup {b} = {a, b}
      OBVIOUS
    <3>5. 1 + 1 = 2
      OBVIOUS
    <3> QED  BY <3>4, <3>3, <3>5, Zenon
  <2>4. CASE c = 0
    <3>1. \A i \in (b + 1)..N : pid[i] # Separator
      BY <1>6, <2>4 DEF Cuts
    <3>2. \A i \in 1..N : i \in 1..(a - 1) \/ i = a \/ i \in (a + 1)..(b - 1) \/ i = b \/ i \in (b + 1)..N
      BY <1>1, <2>1
    <3>3. S = {a, b}
      BY <1>1, <2>1, <3>1, <3>2
    <3>4. Separators(pid) = 2
      BY <3>3, <1>3, <2>3
    <3> QED  BY <1>6, <2>4, <3>4 DEF Present
  <2>5. CASE c # 0
    <3>1. c \in (b + 1)..N /\ pid[c] = Separator
      BY <1>6, <2>5 DEF Cuts
    <3>2. c \in S /\ c # a /\ c # b
      BY <3>1, <2>2, <1>1
    <3>3. Cardinality({a, b} \cup {c}) = 2 + 1
      <4>1. c \notin {a, b} /\ 2 \in Nat
        BY <3>2
      <4> QED  BY <2>3, <4>1, OneAdded
    <3>4. {a, b} \cup {c} \subseteq S
      BY <2>2, <3>2
    <3>5. Cardinality({a, b} \cup {c}) <= Cardinality(S)
      <4> DEFINE U == {a, b} \cup {c}
      <4>1. U \subseteq S
        BY <3>4
      <4> HIDE DEF S, U
      <4>2. Cardinality(U) <= Cardinality(S)
        BY <1>2, <4>1, FS_Subset
      <4> QED  BY <4>2 DEF U
    <3>6. Cardinality(S) \in Nat
      <4> HIDE DEF S
      <4> QED  BY <1>2, FS_CardinalityType
    <3>7. Separators(pid) >= 3
      <4>1. PICK m, n : m = Cardinality({a, b} \cup {c}) /\ n = Cardinality(S)
        OBVIOUS
      <4>2. m = 3 /\ m <= n /\ n \in Nat
        <5> HIDE DEF S
        <5>1. m = 2 + 1 /\ m <= n /\ n \in Nat
          BY <3>3, <3>5, <3>6, <4>1, Zenon
        <5> QED  BY <5>1
      <4>3. n >= 3
        BY <4>2
      <4> QED  BY <1>3, <4>1, <4>3
    <3> QED  BY <1>6, <2>5, <3>7 DEF Present
  <2> QED  BY <2>4, <2>5
<1> QED  BY <1>4, <1>5, <1>6

(* The concatenations of the first parts, with the separators between      *)
(* them.                                                                   *)
Grown(pid, f1, f2, f3, f4) ==
  /\ f1 = <<>> \o packageName(pid)
  /\ f2 = f1 \o (<<Separator>> \o packageVersion(pid))
  /\ f3 = f2 \o (<<Separator>> \o packageArch(pid))
  /\ f4 = f3 \o (<<Separator>> \o packageData(pid))

(* The concatenation of the parts that are present.                        *)
LEMMA CutFlat ==
  ASSUME NEW pid, NEW k \in 1..4, Present(pid) = k,
         NEW f1, NEW f2, NEW f3, NEW f4, Grown(pid, f1, f2, f3, f4)
  PROVE  /\ k = 1 => FlattenSeq(Cut(pid)) = f1
         /\ k = 2 => FlattenSeq(Cut(pid)) = f2
         /\ k = 3 => FlattenSeq(Cut(pid)) = f3
         /\ k = 4 => FlattenSeq(Cut(pid)) = f4
<1> DEFINE P == Cut(pid)
<1>1. PICK p1, p2, p3, p4 : p1 = packageName(pid) /\ p2 = packageVersion(pid)
                            /\ p3 = packageArch(pid) /\ p4 = packageData(pid)
  OBVIOUS
<1>2. /\ f1 = <<>> \o p1
      /\ f2 = f1 \o (<<Separator>> \o p2)
      /\ f3 = f2 \o (<<Separator>> \o p3)
      /\ f4 = f3 \o (<<Separator>> \o p4)
  BY <1>1, Zenon DEF Grown
<1>3. /\ Parts(pid)[1] = p1 /\ Parts(pid)[2] = p2 /\ Parts(pid)[3] = p3 /\ Parts(pid)[4] = p4
  BY <1>1 DEF Parts
<1>4. \A i \in 1..k : P[i] = (IF i = 1 THEN <<>> ELSE <<Separator>>) \o Parts(pid)[i]
  BY DEF Cut
<1>5. Len(P) = k /\ k \in Nat /\ k # 0
  BY DEF Cut
<1> HIDE DEF P
<1>6. PICK f : Unrolls(P, f, k)
  BY <1>5, Flattened
<1>7. \A i \in 1..k : f[i] = IF i = 1 THEN P[i] ELSE f[i - 1] \o P[i]
  BY <1>6, Zenon DEF Unrolls
<1>8. FlattenSeq(Cut(pid)) = f[k]
  BY <1>6 DEF P, Unrolls
<1>9. f[1] = f1
  <2>1. 1 \in 1..k
    BY <1>5
  <2>2. P[1] = <<>> \o p1
    BY <2>1, <1>3, <1>4
  <2> QED  BY <2>1, <2>2, <1>7, <1>2
<1>10. ASSUME NEW i \in 2..k
      PROVE  f[i] = f[i - 1] \o (<<Separator>> \o Parts(pid)[i])
  <2>1. i \in 1..k /\ i # 1
    OBVIOUS
  <2>2. P[i] = <<Separator>> \o Parts(pid)[i]
    BY <2>1, <1>4
  <2>3. f[i] = f[i - 1] \o P[i]
    BY <2>1, <1>7
  <2> QED  BY <2>2, <2>3
<1>11. ASSUME 2 \in 2..k
      PROVE  f[2] = f2
  <2>1. f[2] = f[2 - 1] \o (<<Separator>> \o Parts(pid)[2])
    BY <1>10, <1>11
  <2>2. 2 - 1 = 1
    OBVIOUS
  <2> QED  BY <1>3, <1>9, <1>2, <2>1, <2>2
<1>12. ASSUME 2 \in 2..k, 3 \in 2..k
      PROVE  f[3] = f3
  <2>1. f[3] = f[3 - 1] \o (<<Separator>> \o Parts(pid)[3])
    BY <1>10, <1>12
  <2>2. 3 - 1 = 2
    OBVIOUS
  <2> QED  BY <1>3, <1>11, <1>12, <1>2, <2>1, <2>2
<1>13. ASSUME 2 \in 2..k, 3 \in 2..k, 4 \in 2..k
       PROVE  f[4] = f4
  <2>1. f[4] = f[4 - 1] \o (<<Separator>> \o Parts(pid)[4])
    BY <1>10, <1>13
  <2>2. 4 - 1 = 3
    OBVIOUS
  <2> QED  BY <1>3, <1>12, <1>13, <1>2, <2>1, <2>2
<1>14. ASSUME k = 1
       PROVE  FlattenSeq(Cut(pid)) = f1
  BY <1>14, <1>9, <1>8
<1>15. ASSUME k = 2
       PROVE  FlattenSeq(Cut(pid)) = f2
  <2>1. 2 \in 2..k
    BY <1>15
  <2>2. f[2] = f2
    BY <2>1, <1>11
  <2> QED  BY <2>2, <1>15, <1>8, Zenon
<1>16. ASSUME k = 3
       PROVE  FlattenSeq(Cut(pid)) = f3
  <2>1. 2 \in 2..k /\ 3 \in 2..k
    BY <1>16
  <2>2. f[3] = f3
    BY <2>1, <1>12
  <2> QED  BY <2>2, <1>16, <1>8, Zenon
<1>17. ASSUME k = 4
       PROVE  FlattenSeq(Cut(pid)) = f4
  <2>1. 2 \in 2..k /\ 3 \in 2..k /\ 4 \in 2..k
    BY <1>17
  <2>2. f[4] = f4
    BY <2>1, <1>13
  <2> QED  BY <2>2, <1>17, <1>8, Zenon
<1> QED  BY <1>14, <1>15, <1>16, <1>17, Zenon

(* The four parts of a package id, put together, give the id: for every    *)
(* sequence of characters, with any number of separators in any place.     *)
THEOREM IdReassembled ==
  ASSUME NEW C, NEW pid \in Seq(C)
  PROVE  Reassembled(pid)
<1> DEFINE N == Len(pid)
<1>1. PICK a, b, c : a = indexOf(pid, 1) /\ b = indexOf(pid, a + 1) /\ c = indexOf(pid, b + 1)
  OBVIOUS
<1>2. PICK p1, p2, p3, p4 : p1 = packageName(pid) /\ p2 = packageVersion(pid)
                            /\ p3 = packageArch(pid) /\ p4 = packageData(pid)
  OBVIOUS
<1>3. /\ p1 = SubSeq(pid, 1, IF a = 0 THEN N ELSE a - 1)
      /\ p2 = IF a = 0 THEN <<>> ELSE SubSeq(pid, a + 1, IF b = 0 THEN N ELSE b - 1)
      /\ p3 = IF a = 0 \/ b = 0 THEN <<>> ELSE SubSeq(pid, b + 1, IF c = 0 THEN N ELSE c - 1)
      /\ p4 = IF a = 0 \/ b = 0 \/ c = 0 THEN <<>> ELSE SubSeq(pid, c + 1, N)
  BY <1>1, <1>2, PartsCut
<1>4. Cuts(pid, a, b, c)
  BY <1>1, CutsFound
<1>5. Present(pid) = IF a = 0 THEN 1 ELSE IF b = 0 THEN 2 ELSE IF c = 0 THEN 3 ELSE 4
  BY <1>4, Counted
<1>6. PICK f1, f2, f3, f4 : Grown(pid, f1, f2, f3, f4)
  BY Zenon DEF Grown
<1>7. /\ f1 = <<>> \o p1
      /\ f2 = f1 \o (<<Separator>> \o p2)
      /\ f3 = f2 \o (<<Separator>> \o p3)
      /\ f4 = f3 \o (<<Separator>> \o p4)
  BY <1>2, <1>6, Zenon DEF Grown
<1>8. FlattenSeq(Cut(pid)) = IF a = 0 THEN f1 ELSE IF b = 0 THEN f2 ELSE IF c = 0 THEN f3 ELSE f4
  <2>1. PICK k \in 1..4 : k = Present(pid)
    BY <1>5
  <2>2. /\ k = 1 => FlattenSeq(Cut(pid)) = f1
        /\ k = 2 => FlattenSeq(Cut(pid)) = f2
        /\ k = 3 => FlattenSeq(Cut(pid)) = f3
        /\ k = 4 => FlattenSeq(Cut(pid)) = f4
    BY <2>1, <1>6, CutFlat
  <2> QED  BY <2>1, <2>2, <1>5
<1>9. N \in Nat /\ pid = SubSeq(pid, 1, N)
  BY SubSeqFull
<1>10. Parts(pid) = <<p1, p2, p3, p4>>
  BY <1>2 DEF Parts
<1>11. \A i \in 1..N : pid[i] \in C
  OBVIOUS
<1> HIDE DEF N
<1>12. CASE a = 0
  <2>1. p1 = pid /\ p2 = <<>> /\ p3 = <<>> /\ p4 = <<>>
    BY <1>3, <1>9, <1>12
  <2>2. f1 = pid
    BY <2>1, <1>7, ConcatEmptySeq
  <2>3. Separator \notin ToSet(pid)
    <3>1. \A i \in 1..Len(pid) : pid[i] # Separator
      BY <1>4, <1>9, <1>12 DEF Cuts, N
    <3> QED  BY <3>1 DEF ToSet
  <2>4. Separator \notin ToSet(<<>>)
    BY DEF ToSet
  <2>5. \A i \in (Present(pid) + 1)..4 : Parts(pid)[i] = <<>>
    BY <1>5, <1>12, <1>10, <2>1
  <2>6. \A i \in 1..3 : Separator \notin ToSet(Parts(pid)[i])
    BY <1>10, <2>1, <2>3, <2>4
  <2> QED  BY <1>8, <1>12, <2>2, <2>5, <2>6 DEF Reassembled
<1>13. CASE a # 0
  <2>1. /\ a \in 1..N /\ pid[a] = Separator /\ \A i \in 1..(a - 1) : pid[i] # Separator
    BY <1>4, <1>13 DEF Cuts, N
  <2>2. p1 = SubSeq(pid, 1, a - 1)
    BY <1>3, <1>13
  <2>3. f1 = SubSeq(pid, 1, a - 1)
    <3>1. SubSeq(pid, 1, a - 1) \in Seq(C)
      BY <2>1, <1>9 DEF N
    <3> QED  BY <3>1, <2>2, <1>7, ConcatEmptySeq
  <2>4. Separator \notin ToSet(p1)
    <3>1. 1 \in 1..(Len(pid) + 1) /\ a - 1 \in 0..Len(pid) /\ 1 <= (a - 1) + 1
      BY <2>1, <1>9 DEF N
    <3> QED  BY <3>1, <2>1, <2>2, Apart
  <2>5. Separator \notin ToSet(<<>>)
    BY DEF ToSet
  <2>6. \A e \in a..N :
           SubSeq(pid, 1, a - 1) \o (<<Separator>> \o SubSeq(pid, a + 1, e)) = SubSeq(pid, 1, e)
    BY <2>1, Joined DEF N
  <2>7. CASE b = 0
    <3>1. p2 = SubSeq(pid, a + 1, N) /\ p3 = <<>> /\ p4 = <<>>
      BY <1>3, <1>13, <2>7
    <3>2. N \in a..N
      BY <1>9, <2>1
    <3>3. f2 = pid
      BY <3>1, <3>2, <2>6, <2>3, <1>7, <1>9
    <3>4. Separator \notin ToSet(p2)
      <4>1. a + 1 \in 1..(Len(pid) + 1) /\ N \in 0..Len(pid) /\ a + 1 <= N + 1
        BY <2>1, <1>9 DEF N
      <4>2. \A i \in (a + 1)..N : pid[i] # Separator
        BY <1>4, <1>13, <2>7, <2>1 DEF Cuts, N
      <4> QED  BY <4>1, <4>2, <3>1, Apart
    <3>5. \A i \in (Present(pid) + 1)..4 : Parts(pid)[i] = <<>>
      BY <1>5, <1>13, <2>7, <1>10, <3>1
    <3>6. \A i \in 1..3 : Separator \notin ToSet(Parts(pid)[i])
      <4>1. Separator \notin ToSet(p3)
        BY <2>5, <3>1
      <4> QED  BY <1>10, <2>4, <3>4, <4>1
    <3> QED  BY <1>8, <1>13, <2>7, <3>3, <3>5, <3>6 DEF Reassembled
  <2>8. CASE b # 0
    <3>1. /\ b \in (a + 1)..N /\ pid[b] = Separator /\ \A i \in (a + 1)..(b - 1) : pid[i] # Separator
          /\ \/ c = 0 /\ \A i \in (b + 1)..N : pid[i] # Separator
             \/ /\ c \in (b + 1)..N /\ pid[c] = Separator
                /\ \A i \in (b + 1)..(c - 1) : pid[i] # Separator
      BY <1>4, <1>13, <2>8 DEF Cuts, N
    <3>2. p2 = SubSeq(pid, a + 1, b - 1)
      BY <1>3, <1>13, <2>8
    <3>3. b - 1 \in a..N /\ b \in 1..N
      BY <1>9, <2>1, <3>1
    <3>4. f2 = SubSeq(pid, 1, b - 1)
      BY <3>2, <3>3, <2>6, <2>3, <1>7
    <3>5. Separator \notin ToSet(p2)
      <4>1. a + 1 \in 1..(Len(pid) + 1) /\ b - 1 \in 0..Len(pid) /\ a + 1 <= (b - 1) + 1
        BY <2>1, <1>9, <3>1 DEF N
      <4> QED  BY <4>1, <3>1, <3>2, Apart
    <3>6. \A e \in b..N :
           SubSeq(pid, 1, b - 1) \o (<<Separator>> \o SubSeq(pid, b + 1, e)) = SubSeq(pid, 1, e)
      BY <3>1, <3>3, Joined DEF N
    <3>7. CASE c = 0
      <4>1. p3 = SubSeq(pid, b + 1, N) /\ p4 = <<>>
        BY <1>3, <1>13, <2>8, <3>7
      <4>2. N \in b..N
        BY <1>9, <3>3
      <4>3. f3 = pid
        BY <4>1, <4>2, <3>6, <3>4, <1>7, <1>9
      <4>4. Separator \notin ToSet(p3)
        <5>1. b + 1 \in 1..(Len(pid) + 1) /\ N \in 0..Len(pid) /\ b + 1 <= N + 1
          BY <3>3, <1>9 DEF N
        <5>2. \A i \in (b + 1)..N : pid[i] # Separator
          BY <3>1, <3>7, <3>3
        <5> QED  BY <5>1, <5>2, <4>1, Apart
      <4>5. \A i \in (Present(pid) + 1)..4 : Parts(pid)[i] = <<>>
        BY <1>5, <1>13, <2>8, <3>7, <1>10, <4>1
      <4>6. \A i \in 1..3 : Separator \notin ToSet(Parts(pid)[i])
        BY <1>10, <2>4, <3>5, <4>4
      <4> QED  BY <1>8, <1>13, <2>8, <3>7, <4>3, <4>5, <4>6 DEF Reassembled
    <3>8. CASE c # 0
      <4>1. p3 = SubSeq(pid, b + 1, c - 1) /\ p4 = SubSeq(pid, c + 1, N)
        BY <1>3, <1>13, <2>8, <3>8
      <4>2. /\ c \in (b + 1)..N /\ pid[c] = Separator /\ \A i \in (b + 1)..(c - 1) : pid[i] # Separator
        BY <3>1, <3>8
      <4>3. c - 1 \in b..N /\ c \in 1..N /\ N \in c..N
        BY <1>9, <3>3, <4>2
      <4>4. f3 = SubSeq(pid, 1, c - 1)
        BY <4>1, <4>3, <3>6, <3>4, <1>7
      <4>5. SubSeq(pid, 1, c - 1) \o (<<Separator>> \o SubSeq(pid, c + 1, N)) = SubSeq(pid, 1, N)
        BY <4>2, <4>3, Joined DEF N
      <4>6. f4 = pid
        BY <4>1, <4>4, <4>5, <1>7, <1>9
      <4>7. Separator \notin ToSet(p3)
        <5>1. b + 1 \in 1..(Len(pid) + 1) /\ c - 1 \in 0..Len(pid) /\ b + 1 <= (c - 1) + 1
          BY <3>3, <1>9, <4>2 DEF N
        <5> QED  BY <5>1, <4>2, <4>1, Apart
      <4>8. \A i \in (Present(pid) + 1)..4 : Parts(pid)[i] = <<>>
        BY <1>5, <1>13, <2>8, <3>8
      <4>9. \A i \in 1..3 : Separator \notin ToSet(Parts(pid)[i])
        BY <1>10, <2>4, <3>5, <4>7
      <4> QED  BY <1>8, <1>13, <2>8, <3>8, <4>6, <4>8, <4>9 DEF Reassembled
    <3> QED  BY <3>7, <3>8
  <2> QED  BY <2>7, <2>8
<1> QED  BY <1>12, <1>13
==============================================================================
