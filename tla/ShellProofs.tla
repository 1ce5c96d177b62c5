---------------------------- MODULE ShellProofs ----------------------------
(***************************************************************************)
(* Proofs about Shell and Tty, for lines, arguments and screens of every   *)
(* size.                                                                   *)
(***************************************************************************)
EXTENDS Shell, WellFoundedInduction, TLAPS

-----------------------------------------------------------------------------
(* Numbers and loops *)

(* Every set of numbers that is not empty has a least one. *)
LEMMA LeastNumber ==
    ASSUME NEW S \in SUBSET Nat, S # {}
    PROVE  \E x \in S : \A y \in S : x =< y
<1>1. PICK x \in S : \A y \in S : ~(<<y, x>> \in OpToRel(<, Nat))
  BY NatLessThanWellFounded, WFMin
<1>2. \A y \in S : ~(y < x)
  BY <1>1, Zenon DEF OpToRel
<1> QED
  BY <1>2

LEMMA MinIsMember ==
    ASSUME NEW S \in SUBSET Nat, S # {}
    PROVE  Min(S) \in S /\ \A y \in S : Min(S) =< y
  BY LeastNumber DEF Min

(* h are the states of a loop over 1 .. n from a on; step k is g[k]. *)
Steps(S, a, g, n, h) ==
    /\ h \in [0 .. n -> S]
    /\ h[0] = a
    /\ \A k \in 1 .. n : h[k] = g[k][h[k - 1]]

(* A loop whose steps stay in a set has such states. *)
LEMMA StepsExist ==
    ASSUME NEW S, NEW a \in S, NEW n \in Nat, NEW g \in [1 .. n -> [S -> S]]
    PROVE  \E h : Steps(S, a, g, n, h)
<1> DEFINE M == {m \in 0 .. n : ~(\E h : Steps(S, a, g, m, h))}
<1> SUFFICES ASSUME M # {}
             PROVE  FALSE
  <2>1. n \in 0 .. n
    OBVIOUS
  <2> QED
    BY <2>1
<1>1. PICK m \in M : \A y \in M : m =< y
  <2>1. M \in SUBSET Nat
    OBVIOUS
  <2> QED
    BY <2>1, LeastNumber
<1>2. m \in 0 .. n /\ ~(\E h : Steps(S, a, g, m, h))
  BY <1>1
<1>3. CASE m = 0
  <2>1. Steps(S, a, g, 0, [k \in 0 .. 0 |-> a])
    BY DEF Steps
  <2> QED
    BY <1>2, <1>3, <2>1
<1>4. CASE m # 0
  <2>1. m \in 1 .. n /\ m - 1 \in 0 .. n /\ m - 1 \notin M
    BY <1>1, <1>2, <1>4
  <2>2. PICK h : Steps(S, a, g, m - 1, h)
    BY <2>1
  <2> DEFINE f == [k \in 0 .. m |-> IF k = m THEN g[m][h[m - 1]] ELSE h[k]]
  <2>3. /\ f[m] = g[m][h[m - 1]]
        /\ \A k \in 0 .. (m - 1) : f[k] = h[k] /\ h[k] \in S
    BY <1>2, <2>1, <2>2 DEF Steps
  <2>4. f \in [0 .. m -> S]
    <3>1. g[m] \in [S -> S] /\ h[m - 1] \in S
      <4>1. m - 1 \in 0 .. (m - 1)
        BY <2>1
      <4> QED
        BY <2>1, <2>3, <4>1
    <3>2. ASSUME NEW k \in 0 .. m
          PROVE  (IF k = m THEN g[m][h[m - 1]] ELSE h[k]) \in S
      <4>1. k # m => k \in 0 .. (m - 1)
        BY <2>1
      <4> QED
        BY <2>3, <3>1, <4>1
    <3> QED
      BY <3>2
  <2> HIDE DEF f
  <2>5. f[0] = a
    BY <1>2, <2>1, <2>2, <2>3 DEF Steps
  <2>6. ASSUME NEW k \in 1 .. m
        PROVE  f[k] = g[k][f[k - 1]]
    <3>1. f[k - 1] = h[k - 1]
      BY <1>2, <2>3
    <3>2. CASE k = m
      BY <2>3, <3>1, <3>2
    <3>3. CASE k # m
      <4>1. k \in 1 .. (m - 1) /\ k \in 0 .. (m - 1)
        BY <1>2, <3>3
      <4> QED
        BY <2>2, <2>3, <3>1, <4>1 DEF Steps
    <3> QED
      BY <3>2, <3>3
  <2>7. Steps(S, a, g, m, f)
    BY <2>4, <2>5, <2>6 DEF Steps
  <2> QED
    BY <1>2, <2>7
<1> QED
  BY <1>3, <1>4

-----------------------------------------------------------------------------
(* The terminal *)

Shown == Char \cup {Blank, ">", BS}

Terminal == [row : 0 .. (U16 - 1), col : 0 .. (U16 - 1), vga : [Cell -> Shown],
             hit : BOOLEAN]

(* What is written to the terminal. *)
Output == Char \cup {NL, BS, Blank, ">"}

LEMMA U16IsPositive == U16 \in Nat \ {0} /\ U16 - 1 \in Nat /\ Width \in 1 .. (U16 - 1)
<1>1. U16 \in Nat \ {0}
  BY DEF U16
<1> QED
  BY <1>1, TtyAssumption

LEMMA InitTyped == tty_init \in Terminal
  BY U16IsPositive DEF tty_init, Terminal, Shown

LEMMA PutcharTyped ==
    ASSUME NEW t \in Terminal, NEW c \in Shown
    PROVE  tty_putchar(t, c) \in Terminal
  BY DEF tty_putchar, Terminal

LEMMA PrintTyped ==
    ASSUME NEW t \in Terminal, NEW c \in Shown
    PROVE  Print1(t, c) \in Terminal
<1> DEFINE col == (t.col + 1) % U16
           put == tty_putchar(t, c)
<1>1. put \in Terminal
  BY PutcharTyped
<1>2. col \in 0 .. (U16 - 1)
  BY U16IsPositive DEF Terminal
<1>3. Print1(t, c) = IF col >= Width THEN [put EXCEPT !.row = (@ + 1) % U16, !.col = 0]
                                     ELSE [put EXCEPT !.col = col]
  BY DEF Print1
<1> HIDE DEF col, put
<1>4. (put.row + 1) % U16 \in 0 .. (U16 - 1) /\ 0 \in 0 .. (U16 - 1)
  BY <1>1, U16IsPositive DEF Terminal
<1> QED
  BY <1>1, <1>2, <1>3, <1>4 DEF Terminal

LEMMA BackspaceTyped ==
    ASSUME NEW t \in Terminal
    PROVE  tty_backspace(t) \in Terminal
<1> DEFINE back == IF t.col = 0 THEN [t EXCEPT !.row = @ - 1, !.col = Width - 1]
                                ELSE [t EXCEPT !.col = @ - 1]
           p == Print1(back, Blank)
<1>1. CASE t.row = 0 /\ t.col = 0
  BY <1>1 DEF tty_backspace
<1>2. CASE ~(t.row = 0 /\ t.col = 0)
  <2>1. tty_backspace(t) = [p EXCEPT !.col = (@ - 1) % U16]
    BY <1>2 DEF tty_backspace
  <2>2. back \in Terminal
    <3>1. t.row \in 0 .. (U16 - 1) /\ t.col \in 0 .. (U16 - 1) /\ Width - 1 \in 0 .. (U16 - 1)
      BY U16IsPositive DEF Terminal
    <3>2. CASE t.col = 0
      <4>1. t.row - 1 \in 0 .. (U16 - 1)
        BY <1>2, <3>1, <3>2, U16IsPositive
      <4> QED
        BY <3>1, <3>2, <4>1 DEF Terminal
    <3>3. CASE t.col # 0
      <4>1. t.col - 1 \in 0 .. (U16 - 1)
        BY <3>1, <3>3, U16IsPositive
      <4> QED
        BY <3>3, <4>1 DEF Terminal
    <3> QED
      BY <3>2, <3>3
  <2>3. p \in Terminal
    BY <2>2, PrintTyped DEF Shown
  <2> HIDE DEF p
  <2>4. (p.col - 1) % U16 \in 0 .. (U16 - 1)
    BY <2>3, U16IsPositive DEF Terminal
  <2> QED
    BY <2>1, <2>3, <2>4 DEF Terminal
<1> QED
  BY <1>1, <1>2

(* tty_writechar() leaves row and column in 16 bits, and only characters   *)
(* in the video memory.                                                    *)
LEMMA WritecharTyped ==
    ASSUME NEW t \in Terminal, NEW c \in Output
    PROVE  tty_writechar(t, c) \in Terminal
<1>1. CASE c = NL
  <2>1. tty_writechar(t, c) = [t EXCEPT !.row = (@ + 1) % U16, !.col = 0]
    BY <1>1 DEF tty_writechar, tty_newline, NL, TAB, BS
  <2>2. (t.row + 1) % U16 \in 0 .. (U16 - 1) /\ 0 \in 0 .. (U16 - 1)
    BY U16IsPositive DEF Terminal
  <2> QED
    BY <2>1, <2>2 DEF Terminal
<1>2. CASE c = TAB
  <2>1. tty_writechar(t, c) = Print1(Print1(Print1(Print1(t, Blank), Blank), Blank), Blank)
    BY <1>2 DEF tty_writechar, tty_tab, NL, TAB, BS
  <2>2. Blank \in Shown
    BY DEF Shown
  <2> QED
    BY <2>1, <2>2, PrintTyped
<1>3. CASE c = BS
  BY <1>3, BackspaceTyped DEF tty_writechar, BS, NL, TAB
<1>4. CASE c \notin {NL, TAB, BS}
  <2>1. tty_writechar(t, c) = Print1(t, c)
    BY <1>4 DEF tty_writechar
  <2>2. c \in Shown
    BY <1>4 DEF Output, Shown
  <2> QED
    BY <2>1, <2>2, PrintTyped
<1> QED
  BY <1>1, <1>2, <1>3, <1>4

(* tty_writestr() writes one character after the other. *)
LEMMA WritestrSteps ==
    ASSUME NEW t \in Terminal, NEW s \in Seq(Output)
    PROVE  \E w \in [0 .. Len(s) -> Terminal] :
              /\ w[0] = t /\ tty_writestr(t, s) = w[Len(s)]
              /\ \A k \in 1 .. Len(s) : w[k] = tty_writechar(w[k - 1], s[k])
<1> DEFINE n == Len(s)
           g == [k \in 1 .. n |-> [u \in Terminal |-> tty_writechar(u, s[k])]]
           w == CHOOSE f : f = [k \in 0 .. n |-> IF k = 0 THEN t ELSE tty_writechar(f[k - 1], s[k])]
<1>0. n \in Nat /\ \A k \in 1 .. n : s[k] \in Output
  OBVIOUS
<1>1. tty_writestr(t, s) = w[n]
  BY DEF tty_writestr
<1> HIDE DEF n
<1>2. g \in [1 .. n -> [Terminal -> Terminal]]
  BY <1>0, WritecharTyped
<1>3. PICK h : Steps(Terminal, t, g, n, h)
  <2> HIDE DEF g
  <2> QED
    BY <1>0, <1>2, StepsExist
<1>4. h \in [0 .. n -> Terminal] /\ h[0] = t
  BY <1>3 DEF Steps
<1>5. h = [k \in 0 .. n |-> IF k = 0 THEN t ELSE tty_writechar(h[k - 1], s[k])]
  <2>1. ASSUME NEW k \in 0 .. n
        PROVE  h[k] = IF k = 0 THEN t ELSE tty_writechar(h[k - 1], s[k])
    <3>1. CASE k = 0
      BY <1>4, <3>1
    <3>2. CASE k # 0
      <4>1. k \in 1 .. n /\ k - 1 \in 0 .. n
        BY <1>0, <3>2
      <4>2. h[k] = g[k][h[k - 1]]
        BY <1>3, <4>1 DEF Steps
      <4>3. h[k - 1] \in Terminal
        BY <1>4, <4>1
      <4> QED
        BY <3>2, <4>1, <4>2, <4>3
    <3> QED
      BY <3>1, <3>2
  <2> QED
    BY <1>4, <2>1
<1>6. w = [k \in 0 .. n |-> IF k = 0 THEN t ELSE tty_writechar(w[k - 1], s[k])]
  BY <1>5
<1> HIDE DEF w
<1>7. w[0] = t /\ \A k \in 1 .. n : w[k] = tty_writechar(w[k - 1], s[k])
  <2>1. 0 \in 0 .. n /\ \A k \in 1 .. n : k \in 0 .. n /\ k # 0
    BY <1>0
  <2> QED
    BY <1>6, <2>1
<1> DEFINE B == {k \in 0 .. n : w[k] \notin Terminal}
<1>8. ASSUME B # {}
      PROVE  FALSE
  <2>1. B \in SUBSET Nat
    BY <1>0
  <2>2. PICK k \in B : \A y \in B : k =< y
    BY <1>8, <2>1, LeastNumber
  <2>3. k \in 0 .. n /\ w[k] \notin Terminal
    BY <2>2
  <2>4. k # 0
    BY <1>7, <2>3
  <2>5. k \in 1 .. n /\ k - 1 \in 0 .. n /\ ~(k =< k - 1)
    BY <1>0, <2>3, <2>4
  <2>6. w[k - 1] \in Terminal
    BY <2>2, <2>5
  <2> QED
    BY <1>0, <1>7, <2>3, <2>5, <2>6, WritecharTyped
<1>9. \A k \in 0 .. n : w[k] \in Terminal
  BY <1>8
<1>10. w \in [0 .. n -> Terminal]
  BY <1>6, <1>9
<1> QED
  BY <1>1, <1>7, <1>10 DEF n

LEMMA WritestrTyped ==
    ASSUME NEW t \in Terminal, NEW s \in Seq(Output)
    PROVE  tty_writestr(t, s) \in Terminal
<1>1. PICK w \in [0 .. Len(s) -> Terminal] : tty_writestr(t, s) = w[Len(s)]
  BY WritestrSteps
<1>2. Len(s) \in 0 .. Len(s)
  OBVIOUS
<1> QED
  BY <1>1, <1>2

-----------------------------------------------------------------------------
(* Texts on the screen *)

LEMMA DivMod ==
    ASSUME NEW x \in Int
    PROVE  /\ x \div Width \in Int /\ x % Width \in 0 .. (Width - 1)
           /\ x = Width * (x \div Width) + (x % Width)
  BY U16IsPositive

LEMMA RowOfCell ==
    ASSUME NEW row \in Nat, NEW col \in 0 .. (Width - 1)
    PROVE  row * Width + col \in Nat /\ (row * Width + col) \div Width = row
<1>0. Width \in Nat \ {0}
  BY U16IsPositive
<1>1. row * Width \in Nat
  BY <1>0
<1>2. row * Width + col \in Nat
  BY <1>0, <1>1
<1>3. (row * Width + col) \div Width = row
  BY <1>0
<1> QED
  BY <1>2, <1>3

(* The first cell of the row below a cell's. *)
Below(x) == (x \div Width + 1) * Width

LEMMA BelowIsBelow ==
    ASSUME NEW x \in Nat
    PROVE  Below(x) \in Nat /\ Below(x) > x
<1>0. Width \in Nat \ {0}
  BY U16IsPositive
<1>1. PICK q \in Int : q = x \div Width
  BY DivMod
<1>2. PICK r \in 0 .. (Width - 1) : x = Width * q + r
  BY <1>1, DivMod
<1>3. Below(x) = Width * q + Width
  BY <1>0, <1>1 DEF Below
<1>4. Width * q \in Int
  BY <1>0
<1> QED
  BY <1>0, <1>2, <1>3, <1>4

(* Where the characters of a text are, one after the other. *)
LEMMA CellFacts ==
    ASSUME NEW text \in Seq(Output)
    PROVE  /\ CellOf(text)[1] = 0
           /\ \A k \in 1 .. (Len(text) + 1) : CellOf(text)[k] \in Nat
           /\ \A k \in 1 .. Len(text) :
                 CellOf(text)[k + 1] = IF text[k] = NL THEN Below(CellOf(text)[k])
                                       ELSE CellOf(text)[k] + 1
<1> DEFINE n == Len(text)
           g == [k \in 1 .. n |-> [x \in Nat |-> IF text[k] = NL THEN Below(x) ELSE x + 1]]
           Body(f, k) == IF k = 1 THEN 0
                         ELSE IF text[k - 1] = NL THEN (f[k - 1] \div Width + 1) * Width
                         ELSE f[k - 1] + 1
           w == CHOOSE f : f = [k \in 1 .. (n + 1) |-> Body(f, k)]
<1>0. n \in Nat
  OBVIOUS
<1>1. CellOf(text) = w
  BY DEF CellOf
<1> HIDE DEF n
<1>2. g \in [1 .. n -> [Nat -> Nat]]
  BY BelowIsBelow
<1>3. PICK h : Steps(Nat, 0, g, n, h)
  <2> HIDE DEF g
  <2> QED
    BY <1>0, <1>2, StepsExist
<1> DEFINE f0 == [k \in 1 .. (n + 1) |-> h[k - 1]]
<1>4. h \in [0 .. n -> Nat] /\ h[0] = 0
  BY <1>3 DEF Steps
<1>5. ASSUME NEW k \in 1 .. (n + 1)
      PROVE  f0[k] = Body(f0, k)
  <2>1. CASE k = 1
    BY <1>0, <1>4, <2>1
  <2>2. CASE k # 1
    <3>1. k - 1 \in 1 .. n /\ k - 1 \in 1 .. (n + 1) /\ k - 1 - 1 \in 0 .. n /\ k - 1 \in 0 .. n
      BY <1>0, <2>2
    <3>2. h[k - 1] = g[k - 1][h[k - 1 - 1]]
      BY <1>3, <3>1 DEF Steps
    <3>3. h[k - 1 - 1] \in Nat
      BY <1>4, <3>1
    <3>4. f0[k] = h[k - 1] /\ f0[k - 1] = h[k - 1 - 1]
      BY <3>1
    <3>5. h[k - 1] = IF text[k - 1] = NL THEN Below(h[k - 1 - 1]) ELSE h[k - 1 - 1] + 1
      BY <3>1, <3>2, <3>3
    <3> HIDE DEF f0
    <3> QED
      BY <2>2, <3>4, <3>5 DEF Below
  <2> QED
    BY <2>1, <2>2
<1>6. f0 = [k \in 1 .. (n + 1) |-> Body(f0, k)]
  <2> HIDE DEF Body
  <2> QED
    BY <1>5
<1>7. w = [k \in 1 .. (n + 1) |-> Body(w, k)]
  <2> HIDE DEF Body, f0
  <2> QED
    BY <1>6
<1> HIDE DEF w
<1>8. w[1] = 0
  BY <1>0, <1>7
<1>9. ASSUME NEW k \in 1 .. n
      PROVE  w[k + 1] = IF text[k] = NL THEN Below(w[k]) ELSE w[k] + 1
  <2>1. k + 1 \in 1 .. (n + 1) /\ k + 1 # 1 /\ k + 1 - 1 = k
    BY <1>0
  <2>2. w[k + 1] = Body(w, k + 1)
    <3> HIDE DEF Body
    <3> QED
      BY <1>7, <2>1
  <2> QED
    BY <2>1, <2>2 DEF Below
<1> DEFINE B == {k \in 1 .. (n + 1) : w[k] \notin Nat}
<1>10. ASSUME B # {}
       PROVE  FALSE
  <2>1. B \in SUBSET Nat
    BY <1>0
  <2>2. PICK k \in B : \A y \in B : k =< y
    BY <1>10, <2>1, LeastNumber
  <2>3. k \in 1 .. (n + 1) /\ w[k] \notin Nat
    BY <2>2
  <2>4. k # 1
    BY <1>8, <2>3
  <2>5. k - 1 \in 1 .. n /\ k - 1 \in 1 .. (n + 1) /\ ~(k =< k - 1) /\ (k - 1) + 1 = k
    BY <1>0, <2>3, <2>4
  <2>6. w[k - 1] \in Nat
    BY <2>2, <2>5
  <2>7. w[k] = IF text[k - 1] = NL THEN Below(w[k - 1]) ELSE w[k - 1] + 1
    BY <1>9, <2>5
  <2>8. Below(w[k - 1]) \in Nat
    BY <2>6, BelowIsBelow, Zenon
  <2>9. w[k - 1] + 1 \in Nat
    BY <2>6
  <2> QED
    BY <2>3, <2>7, <2>8, <2>9
<1> QED
  BY <1>1, <1>8, <1>9, <1>10 DEF n

(* A text that begins like another one is laid out like it, as far as it   *)
(* does.                                                                   *)
LEMMA CellsAgree ==
    ASSUME NEW text \in Seq(Output), NEW other \in Seq(Output),
           NEW n \in Nat, n =< Len(text), n =< Len(other),
           \A k \in 1 .. n : text[k] = other[k]
    PROVE  \A k \in 1 .. (n + 1) : CellOf(text)[k] = CellOf(other)[k]
<1> DEFINE B == {k \in 1 .. (n + 1) : CellOf(text)[k] # CellOf(other)[k]}
<1> SUFFICES ASSUME B # {}
             PROVE  FALSE
  OBVIOUS
<1>1. B \in SUBSET Nat
  OBVIOUS
<1>2. PICK k \in B : \A y \in B : k =< y
  BY <1>1, LeastNumber
<1>3. k \in 1 .. (n + 1) /\ CellOf(text)[k] # CellOf(other)[k]
  BY <1>2
<1>4. k # 1
  BY <1>3, CellFacts
<1>5. /\ k - 1 \in 1 .. n /\ k - 1 \in 1 .. (n + 1) /\ ~(k =< k - 1) /\ (k - 1) + 1 = k
      /\ k - 1 \in 1 .. Len(text) /\ k - 1 \in 1 .. Len(other)
  BY <1>3, <1>4
<1>6. CellOf(text)[k - 1] = CellOf(other)[k - 1] /\ text[k - 1] = other[k - 1]
  BY <1>2, <1>5
<1>7. CellOf(text)[k] = IF text[k - 1] = NL THEN Below(CellOf(text)[k - 1])
                        ELSE CellOf(text)[k - 1] + 1
  BY <1>5, CellFacts
<1>8. CellOf(other)[k] = IF other[k - 1] = NL THEN Below(CellOf(other)[k - 1])
                         ELSE CellOf(other)[k - 1] + 1
  BY <1>5, CellFacts
<1> QED
  BY <1>3, <1>6, <1>7, <1>8

(* Every character is behind the ones before it. *)
LEMMA CellsGrow ==
    ASSUME NEW text \in Seq(Output), NEW j \in 1 .. Len(text)
    PROVE  CellOf(text)[j] < CellOf(text)[Len(text) + 1]
<1> DEFINE n == Len(text)
           B == {k \in (j + 1) .. (n + 1) : ~(CellOf(text)[j] < CellOf(text)[k])}
<1>0. n \in Nat /\ j \in 1 .. n
  OBVIOUS
<1> SUFFICES ASSUME B # {}
             PROVE  FALSE
  BY <1>0
<1>1. B \in SUBSET Nat
  OBVIOUS
<1>2. PICK k \in B : \A y \in B : k =< y
  BY <1>1, LeastNumber
<1>3. k \in (j + 1) .. (n + 1) /\ ~(CellOf(text)[j] < CellOf(text)[k])
  BY <1>2
<1>4. k - 1 \in 1 .. n /\ (k - 1) + 1 = k /\ ~(k =< k - 1) /\ k - 1 \in 1 .. (n + 1)
  BY <1>0, <1>3
<1>5. CellOf(text)[k - 1] \in Nat /\ CellOf(text)[j] \in Nat
  <2>1. j \in 1 .. (n + 1)
    BY <1>0
  <2> QED
    BY <1>4, <2>1, CellFacts
<1>6. CellOf(text)[k] = IF text[k - 1] = NL THEN Below(CellOf(text)[k - 1])
                        ELSE CellOf(text)[k - 1] + 1
  BY <1>4, CellFacts
<1>7. CellOf(text)[k] \in Nat /\ CellOf(text)[k] > CellOf(text)[k - 1]
  <2>1. Below(CellOf(text)[k - 1]) \in Nat /\ Below(CellOf(text)[k - 1]) > CellOf(text)[k - 1]
    BY <1>5, BelowIsBelow
  <2> QED
    BY <1>5, <1>6, <2>1
<1>8. CASE k - 1 = j
  BY <1>3, <1>5, <1>7, <1>8
<1>9. CASE k - 1 # j
  <2>1. k - 1 \in (j + 1) .. (n + 1)
    BY <1>0, <1>3, <1>4, <1>9
  <2>2. CellOf(text)[j] < CellOf(text)[k - 1]
    BY <1>2, <1>4, <2>1
  <2> QED
    BY <1>3, <1>5, <1>7, <2>2
<1> QED
  BY <1>8, <1>9

(* The cell behind a text. *)
End(text) == CellOf(text)[Len(text) + 1]

(* A text is on the screen, and the cursor behind it. *)
Laid(text, t) ==
    /\ Cursor(t) = End(text)
    /\ t.vga = Rendered(text, CellOf(text))
    /\ t.col < Width
    /\ ~t.hit

(* The same, or the text has run into the kernel. *)
Stands(text, t) == IF t.hit THEN End(text) > KernelCell ELSE Laid(text, t)

(* The cursor is n rows into the kernel at most, with nothing written      *)
(* there; and how many rows that may be.                                   *)
Far(t, n) == ~t.hit => Cursor(t) =< KernelCell + Width * n
Most == Size + Len(Banner) + 6

Here(text, x) == {k \in DOMAIN text : CellOf(text)[k] = x /\ text[k] # NL}

LEMMA RenderedIs ==
    ASSUME NEW text
    PROVE  Rendered(text, CellOf(text)) =
              [x \in Cell |-> IF Here(text, x) = {} THEN Blank ELSE text[Min(Here(text, x))]]
  BY DEF Rendered, Here

(* A text that goes on: what is on the screen stays there, and the cell    *)
(* behind it was blank.                                                    *)
LEMMA AppendShows ==
    ASSUME NEW text \in Seq(Output), NEW c \in Output
    PROVE  LET long == Append(text, c)
               p == CellOf(text)[Len(text) + 1]
           IN  /\ p \in Nat /\ long \in Seq(Output)
               /\ CellOf(long)[Len(long) + 1] = IF c = NL THEN Below(p) ELSE p + 1
               /\ Rendered(long, CellOf(long)) =
                     [x \in Cell |-> IF x = p /\ c # NL THEN c
                                     ELSE Rendered(text, CellOf(text))[x]]
               /\ p \in Cell => Rendered(text, CellOf(text))[p] = Blank
<1> DEFINE long == Append(text, c)
           n == Len(text)
           p == CellOf(text)[n + 1]
<1>0. /\ n \in Nat /\ long \in Seq(Output) /\ Len(long) = n + 1 /\ long[n + 1] = c
      /\ DOMAIN text = 1 .. n /\ DOMAIN long = 1 .. (n + 1)
      /\ \A k \in 1 .. n : long[k] = text[k]
  OBVIOUS
<1> HIDE DEF n, long
<1>1. \A k \in 1 .. (n + 1) : CellOf(long)[k] = CellOf(text)[k]
  <2>1. n =< Len(text) /\ n =< Len(long)
    BY <1>0 DEF n
  <2> QED
    BY <1>0, <2>1, CellsAgree
<1>2. p \in Nat
  <2>1. n + 1 \in 1 .. (n + 1)
    BY <1>0
  <2> QED
    BY <2>1, CellFacts DEF n
<1>3. CellOf(long)[n + 1] = p
  <2>1. n + 1 \in 1 .. (n + 1)
    BY <1>0
  <2> QED
    BY <1>1, <2>1
<1>4. CellOf(long)[Len(long) + 1] = IF c = NL THEN Below(p) ELSE p + 1
  <2>1. n + 1 \in 1 .. Len(long)
    BY <1>0
  <2>2. CellOf(long)[(n + 1) + 1] = IF long[n + 1] = NL THEN Below(CellOf(long)[n + 1])
                                    ELSE CellOf(long)[n + 1] + 1
    BY <1>0, <2>1, CellFacts
  <2> QED
    BY <1>0, <1>3, <2>2
<1>5. ASSUME NEW x
      PROVE  Here(long, x) = Here(text, x) \cup (IF x = p /\ c # NL THEN {n + 1} ELSE {})
  <2>1. ASSUME NEW k \in 1 .. n
        PROVE  k \in Here(long, x) <=> k \in Here(text, x)
    <3>1. k \in 1 .. (n + 1)
      BY <1>0
    <3>2. CellOf(long)[k] = CellOf(text)[k] /\ long[k] = text[k]
      BY <1>0, <1>1, <3>1
    <3> QED
      BY <1>0, <3>1, <3>2 DEF Here
  <2>2. n + 1 \in Here(long, x) <=> x = p /\ c # NL
    BY <1>0, <1>3 DEF Here
  <2>3. Here(text, x) \subseteq 1 .. n /\ Here(long, x) \subseteq 1 .. (n + 1)
    BY <1>0 DEF Here
  <2>4. \A k \in 1 .. (n + 1) : k \in 1 .. n \/ k = n + 1
    BY <1>0
  <2> QED
    BY <2>1, <2>2, <2>3, <2>4
<1>6. Here(text, p) = {}
  <2>1. \A k \in 1 .. n : CellOf(text)[k] < p
    BY CellsGrow DEF n
  <2>2. \A k \in 1 .. n : CellOf(text)[k] # p
    BY <1>2, <2>1
  <2> QED
    BY <1>0, <2>2 DEF Here
<1>7. p \in Cell => Rendered(text, CellOf(text))[p] = Blank
  BY <1>6, RenderedIs
<1>8. ASSUME NEW x \in Cell
      PROVE  Rendered(long, CellOf(long))[x] =
                IF x = p /\ c # NL THEN c ELSE Rendered(text, CellOf(text))[x]
  <2>1. CASE x = p /\ c # NL
    <3>1. Here(long, x) = {n + 1}
      BY <1>5, <1>6, <2>1
    <3>2. Min({n + 1}) = n + 1
      <4>1. {n + 1} \in SUBSET Nat /\ {n + 1} # {}
        BY <1>0
      <4> QED
        BY <4>1, MinIsMember
    <3>3. Rendered(long, CellOf(long))[x] = long[Min(Here(long, x))]
      BY <3>1, RenderedIs
    <3> QED
      BY <1>0, <2>1, <3>1, <3>2, <3>3
  <2>2. CASE ~(x = p /\ c # NL)
    <3>1. Here(long, x) = Here(text, x)
      BY <1>5, <2>2
    <3>2. CASE Here(text, x) = {}
      BY <2>2, <3>1, <3>2, RenderedIs
    <3>3. CASE Here(text, x) # {}
      <4>1. Here(text, x) \in SUBSET Nat
        BY <1>0 DEF Here
      <4>2. Min(Here(text, x)) \in Here(text, x)
        BY <3>3, <4>1, MinIsMember
      <4>3. Min(Here(text, x)) \in 1 .. n
        BY <1>0, <4>2 DEF Here
      <4>4. long[Min(Here(text, x))] = text[Min(Here(text, x))]
        BY <1>0, <4>3
      <4> QED
        BY <2>2, <3>1, <3>3, <4>4, RenderedIs
    <3> QED
      BY <3>2, <3>3
  <2> QED
    BY <2>1, <2>2
<1>9. Rendered(long, CellOf(long)) =
         [x \in Cell |-> IF x = p /\ c # NL THEN c ELSE Rendered(text, CellOf(text))[x]]
  <2> DEFINE R == Rendered(long, CellOf(long))
  <2>1. R = [x \in Cell |-> R[x]]
    BY RenderedIs
  <2> HIDE DEF R
  <2>2. \A x \in Cell : R[x] = IF x = p /\ c # NL THEN c ELSE Rendered(text, CellOf(text))[x]
    BY <1>8 DEF R
  <2> HIDE DEF p
  <2>3. R = [x \in Cell |-> IF x = p /\ c # NL THEN c ELSE Rendered(text, CellOf(text))[x]]
    BY <2>1, <2>2
  <2> QED
    BY <2>3 DEF R
<1> QED
  BY <1>0, <1>2, <1>4, <1>7, <1>9 DEF n, long

LEMMA CursorIsCell ==
    ASSUME NEW t \in Terminal, t.col < Width
    PROVE  Cursor(t) \in Nat /\ Cursor(t) \div Width = t.row /\ t.row \in Nat
<1>1. t.row \in Nat /\ t.col \in 0 .. (Width - 1)
  BY U16IsPositive DEF Terminal
<1> QED
  BY <1>1, RowOfCell DEF Cursor

LEMMA MostIsNumber == Most \in Nat /\ Width \in Nat \ {0} /\ KernelCell \in Nat
  BY ShellAssumption, TtyAssumption, U16IsPositive DEF Most

LEMMA TimesGrows ==
    ASSUME NEW a \in Nat, NEW b \in Nat, a =< b
    PROVE  Width * a \in Nat /\ Width * b \in Nat /\ Width * a =< Width * b
<1>0. Width \in Nat
  BY U16IsPositive
<1>1. PICK d \in Nat : b = a + d
  <2>1. b - a \in Nat /\ b = a + (b - a)
    OBVIOUS
  <2> QED
    BY <2>1
<1>2. Width * b = Width * a + Width * d
  BY <1>0, <1>1
<1>3. Width * a \in Nat /\ Width * d \in Nat
  BY <1>0
<1> QED
  BY <1>2, <1>3

LEMMA FarFurther ==
    ASSUME NEW text, NEW t \in Terminal, Stands(text, t), NEW n \in Nat, Far(t, 0)
    PROVE  Far(t, n)
<1> SUFFICES ASSUME ~t.hit
             PROVE  Cursor(t) =< KernelCell + Width * n
  BY DEF Far
<1>1. Cursor(t) \in Nat /\ KernelCell \in Nat
  BY CursorIsCell, MostIsNumber DEF Stands, Laid
<1>2. Width * 0 \in Nat /\ Width * n \in Nat /\ Width * 0 =< Width * n
  BY TimesGrows
<1> QED
  BY <1>1, <1>2 DEF Far

(* There the rows still have 16 bits. *)
LEMMA RowFits ==
    ASSUME NEW t \in Terminal, t.col < Width, NEW n \in 0 .. Most,
           Cursor(t) =< KernelCell + Width * n
    PROVE  t.row < U16 - 1
<1>0. /\ Width \in Nat \ {0} /\ U16 \in Nat \ {0} /\ U16 - 1 \in Nat /\ KernelCell \in Nat
      /\ t.row \in Nat /\ t.col \in Nat /\ Most \in Nat /\ n \in Nat
  BY MostIsNumber, U16IsPositive DEF Terminal
<1> SUFFICES ASSUME t.row >= U16 - 1
             PROVE  FALSE
  BY <1>0
<1>1. Width * (U16 - 1) =< Width * t.row /\ Width * (U16 - 1) \in Nat /\ Width * t.row \in Nat
  BY <1>0, TimesGrows
<1>2. Width * (n + 2) =< Width * (Most + 2) /\ Width * (n + 2) \in Nat /\ Width * (Most + 2) \in Nat
  <2>1. n + 2 \in Nat /\ Most + 2 \in Nat /\ n + 2 =< Most + 2
    BY <1>0
  <2> QED
    BY <2>1, TimesGrows
<1>3. KernelCell + Width * (Most + 2) =< Width * U16
  <2>1. Most + 2 = Size + Len(Banner) + 8
    BY ShellAssumption DEF Most
  <2> QED
    BY <2>1, RowsAssumption
<1>4. Width * (n + 2) = Width * n + 2 * Width /\ Width * (U16 - 1) = Width * U16 - Width
  BY <1>0
<1>5. Cursor(t) = Width * t.row + t.col
  BY <1>0 DEF Cursor
<1>6. Width * n \in Nat /\ Width * U16 \in Nat
  BY <1>0
<1> QED
  BY <1>0, <1>1, <1>2, <1>3, <1>4, <1>5, <1>6

(* A text only grows. *)
LEMMA EndGrows ==
    ASSUME NEW text \in Seq(Output), NEW c \in Output
    PROVE  /\ End(text) \in Nat /\ End(Append(text, c)) \in Nat /\ End(text) < End(Append(text, c))
           /\ End(Append(text, c)) = IF c = NL THEN Below(End(text)) ELSE End(text) + 1
<1>1. /\ End(text) \in Nat
      /\ End(Append(text, c)) = IF c = NL THEN Below(End(text)) ELSE End(text) + 1
  BY AppendShows DEF End
<1>2. Below(End(text)) \in Nat /\ Below(End(text)) > End(text)
  BY <1>1, BelowIsBelow
<1> QED
  BY <1>1, <1>2

LEMMA ShowNewline ==
    ASSUME NEW text \in Seq(Output), NEW t \in Terminal, Stands(text, t),
           NEW n \in 0 .. Most, Far(t, n)
    PROVE  Stands(Append(text, NL), tty_newline(t)) /\ Far(tty_newline(t), n + 1)
<1> DEFINE u == tty_newline(t)
<1>0. Width \in Nat \ {0} /\ U16 \in Nat \ {0} /\ t.row \in Nat /\ n \in Nat /\ KernelCell \in Nat
  BY U16IsPositive, MostIsNumber DEF Terminal
<1>1. NL \in Output
  BY DEF Output
<1>2. u.row = (t.row + 1) % U16 /\ u.col = 0 /\ u.vga = t.vga /\ u.hit = t.hit
  BY DEF tty_newline, Terminal
<1>3. CASE t.hit
  <2>1. End(text) > KernelCell
    BY <1>3 DEF Stands
  <2>2. End(Append(text, NL)) > KernelCell
    BY <1>0, <1>1, <2>1, EndGrows
  <2> QED
    BY <1>2, <1>3, <2>2 DEF Stands, Far
<1>4. CASE ~t.hit
  <2>1. Laid(text, t) /\ Cursor(t) =< KernelCell + Width * n
    BY <1>4 DEF Stands, Far
  <2>2. t.row < U16 - 1
    BY <2>1, RowFits DEF Laid
  <2>3. u.row = t.row + 1
    BY <1>0, <1>2, <2>2
  <2>4. Cursor(t) \div Width = t.row /\ Cursor(t) \in Nat
    BY <2>1, CursorIsCell DEF Laid
  <2>5. Cursor(u) = Below(Cursor(t))
    BY <1>0, <1>2, <2>3, <2>4 DEF Cursor, Below
  <2>6. Rendered(Append(text, NL), CellOf(Append(text, NL))) = Rendered(text, CellOf(text))
    <3>1. Rendered(Append(text, NL), CellOf(Append(text, NL)))
             = [x \in Cell |-> Rendered(text, CellOf(text))[x]]
      BY <1>1, AppendShows
    <3> QED
      BY <3>1, RenderedIs
  <2>7. End(Append(text, NL)) = Below(End(text))
    BY <1>1, EndGrows
  <2>8. Laid(Append(text, NL), u)
    BY <1>0, <1>2, <1>4, <2>1, <2>5, <2>6, <2>7 DEF Laid
  <2>9. Cursor(u) =< KernelCell + Width * (n + 1)
    <3>1. t.row * Width \in Nat /\ (t.row + 1) * Width = t.row * Width + Width
          /\ Width * n \in Nat /\ Width * (n + 1) = Width * n + Width
      BY <1>0
    <3>2. Cursor(t) = t.row * Width + t.col /\ t.col \in Nat /\ Cursor(u) = (t.row + 1) * Width + 0
      BY <1>2, <2>3 DEF Cursor, Terminal
    <3> HIDE DEF u
    <3> QED
      BY <1>0, <2>1, <3>1, <3>2
  <2> QED
    BY <1>2, <1>4, <2>8, <2>9 DEF Stands, Far
<1> QED
  BY <1>3, <1>4

(* In front of the kernel. *)
LEMMA ShowGlyphInFront ==
    ASSUME NEW text \in Seq(Output), NEW t \in Terminal, Laid(text, t), t.row < U16 - 1,
           NEW c \in Shown, c # NL, Cursor(t) < KernelCell
    PROVE  Laid(Append(text, c), Print1(t, c)) /\ Cursor(Print1(t, c)) = Cursor(t) + 1
<1> DEFINE u == Print1(t, c)
           put == tty_putchar(t, c)
           p == Cursor(t)
<1>0. /\ Width \in Nat \ {0} /\ U16 \in Nat \ {0} /\ t.row \in Nat /\ Width < U16
      /\ t.col \in 0 .. (Width - 1)
  BY U16IsPositive DEF Terminal, Laid
<1>1. (t.row + 1) % U16 = t.row + 1 /\ (t.col + 1) % U16 = t.col + 1
  <2>1. t.row + 1 \in 0 .. (U16 - 1) /\ t.col + 1 \in 0 .. (U16 - 1)
    BY <1>0
  <2>2. \A x \in 0 .. (U16 - 1) : x % U16 = x
    BY <1>0
  <2> QED
    BY <2>1, <2>2
<1>2. put.row = t.row /\ put.col = t.col /\ put \in Terminal
  BY PutcharTyped DEF tty_putchar, Terminal
<1>11. put.hit = FALSE
  <2>1. Cursor(t) \in Nat /\ KernelCell \in Nat /\ ~t.hit
    BY CursorIsCell, MostIsNumber DEF Laid
  <2>2. ~(Cursor(t) >= KernelCell)
    BY <2>1
  <2> QED
    BY <2>1, <2>2 DEF tty_putchar, Terminal
<1>3. put.vga = [x \in Cell |-> IF x = p THEN c ELSE t.vga[x]]
  <2>1. t.vga \in [Cell -> Shown] /\ t.vga = [x \in Cell |-> t.vga[x]]
    BY DEF Terminal
  <2> HIDE DEF p
  <2>2. CASE p \in Cell
    <3>1. put.vga = [t.vga EXCEPT ![p] = c]
      BY <2>2 DEF tty_putchar, Terminal, p
    <3> QED
      BY <2>1, <2>2, <3>1
  <2>3. CASE p \notin Cell
    <3>1. put.vga = t.vga
      BY <2>3 DEF tty_putchar, p, Terminal
    <3>2. \A x \in Cell : x # p
      BY <2>3
    <3> QED
      BY <2>1, <3>1, <3>2
  <2> QED
    BY <2>2, <2>3
<1>4. u = IF t.col + 1 >= Width THEN [put EXCEPT !.row = (t.row + 1) % U16, !.col = 0]
          ELSE [put EXCEPT !.col = t.col + 1]
  BY <1>1, <1>2 DEF Print1
<1>5. u.vga = put.vga /\ u.hit = put.hit
  BY <1>2, <1>4 DEF Terminal
<1>6. Cursor(u) = p + 1 /\ u.col < Width /\ u.row \in t.row .. (t.row + 1)
  <2>0. t.row * Width \in Nat
    BY <1>0
  <2>1. CASE t.col + 1 >= Width
    <3>1. u.row = t.row + 1 /\ u.col = 0
      BY <1>1, <1>2, <1>4, <2>1 DEF Terminal
    <3>2. t.col + 1 = Width
      BY <1>0, <2>1
    <3>3. (t.row + 1) * Width = t.row * Width + Width
      BY <1>0
    <3>4. Cursor(u) = (t.row + 1) * Width + 0 /\ p = t.row * Width + t.col
      BY <3>1 DEF Cursor
    <3>5. Cursor(u) = p + 1
      <4> DEFINE above == t.row * Width
      <4>1. Cursor(u) = above + Width /\ p = above + t.col /\ above \in Nat
        BY <1>0, <2>0, <3>3, <3>4
      <4> HIDE DEF above, u, p
      <4> QED
        BY <1>0, <3>2, <4>1
    <3>6. u.col < Width
      BY <1>0, <3>1
    <3>7. u.row \in t.row .. (t.row + 1)
      BY <1>0, <3>1
    <3> QED
      BY <3>5, <3>6, <3>7
  <2>2. CASE ~(t.col + 1 >= Width)
    <3>1. u.row = t.row /\ u.col = t.col + 1
      BY <1>2, <1>4, <2>2 DEF Terminal
    <3>2. Cursor(u) = t.row * Width + (t.col + 1) /\ p = t.row * Width + t.col
      BY <3>1 DEF Cursor
    <3> DEFINE above == t.row * Width
    <3>3. Cursor(u) = above + (t.col + 1) /\ p = above + t.col /\ above \in Nat
      BY <2>0, <3>2
    <3> HIDE DEF u, p, above
    <3>4. Cursor(u) = p + 1
      BY <1>0, <3>3
    <3>5. u.col < Width /\ u.row \in t.row .. (t.row + 1)
      BY <1>0, <2>2, <3>1
    <3> QED
      BY <3>4, <3>5
  <2> QED
    BY <2>1, <2>2
<1>7. c \in Output
  BY DEF Shown, Output
<1>8. p = End(text) /\ t.vga = Rendered(text, CellOf(text))
  BY DEF Laid
<1>9. End(Append(text, c)) = p + 1
  BY <1>7, <1>8, EndGrows
<1>10. Rendered(Append(text, c), CellOf(Append(text, c)))
          = [x \in Cell |-> IF x = p THEN c ELSE t.vga[x]]
  <2>1. Rendered(Append(text, c), CellOf(Append(text, c)))
           = [x \in Cell |-> IF x = End(text) /\ c # NL THEN c
                             ELSE Rendered(text, CellOf(text))[x]]
    BY <1>7, AppendShows DEF End
  <2> QED
    BY <1>8, <2>1
<1> QED
  BY <1>11, <1>3, <1>5, <1>6, <1>9, <1>10 DEF Laid

(* A glyph is written behind the text, or over the kernel. *)
LEMMA ShowGlyph ==
    ASSUME NEW text \in Seq(Output), NEW t \in Terminal, Stands(text, t),
           NEW n \in 0 .. Most, Far(t, n), NEW c \in Shown, c # NL
    PROVE  Stands(Append(text, c), Print1(t, c)) /\ Far(Print1(t, c), 0)
<1> DEFINE u == Print1(t, c)
           put == tty_putchar(t, c)
<1> SUFFICES Stands(Append(text, c), u) /\ Far(u, 0)
  OBVIOUS
<1>0. KernelCell \in Nat /\ c \in Output /\ Width \in Nat /\ Width * 0 = 0
  BY MostIsNumber DEF Shown, Output
<1>1. End(text) \in Nat /\ End(Append(text, c)) = End(text) + 1
  BY <1>0, EndGrows
<1>2. u.hit = put.hit /\ put \in Terminal
  BY PutcharTyped DEF Print1, Terminal
<1>3. CASE t.hit
  <2>1. put.hit
    BY <1>3 DEF tty_putchar, Terminal
  <2>2. End(text) > KernelCell
    BY <1>3 DEF Stands
  <2> HIDE DEF u, put
  <2> QED
    BY <1>0, <1>1, <1>2, <2>1, <2>2 DEF Stands, Far
<1>4. CASE ~t.hit /\ Cursor(t) >= KernelCell
  <2>1. Laid(text, t) /\ Cursor(t) = End(text)
    BY <1>4 DEF Stands, Laid
  <2>2. Cursor(t) \notin Cell
    BY <1>0, <1>1, <1>4, <2>1, TtyAssumption DEF Cell
  <2>3. put.hit
    BY <1>4, <2>2 DEF tty_putchar, Terminal
  <2> HIDE DEF u, put
  <2> QED
    BY <1>0, <1>1, <1>2, <1>4, <2>1, <2>3 DEF Stands, Far
<1>5. CASE ~t.hit /\ ~(Cursor(t) >= KernelCell)
  <2>1. Laid(text, t) /\ Cursor(t) = End(text) /\ Cursor(t) =< KernelCell + Width * n
    BY <1>5 DEF Stands, Laid, Far
  <2>2. t.row < U16 - 1
    BY <2>1, RowFits DEF Laid
  <2>3. Cursor(t) < KernelCell
    BY <1>0, <1>1, <1>5, <2>1
  <2>4. Laid(Append(text, c), u) /\ Cursor(u) = Cursor(t) + 1
    BY <2>1, <2>2, <2>3, ShowGlyphInFront
  <2> HIDE DEF u
  <2>5. Cursor(u) =< KernelCell
    BY <1>0, <1>1, <2>1, <2>3, <2>4
  <2> QED
    BY <1>0, <2>4, <2>5 DEF Stands, Far, Laid
<1> QED
  BY <1>3, <1>4, <1>5

(* A deletion takes back the last character of a text, in every column but *)
(* the first.                                                              *)
LEMMA DeleteShows ==
    ASSUME NEW text \in Seq(Output), NEW c \in Shown, c # NL,
           NEW t \in Terminal, Laid(Append(text, c), t), t.col # 0, Far(t, 0)
    PROVE  Laid(text, tty_backspace(t)) /\ Far(tty_backspace(t), 0)
<1> DEFINE back == [t EXCEPT !.col = t.col - 1]
           put == tty_putchar(back, Blank)
           u == tty_backspace(t)
           p == CellOf(text)[Len(text) + 1]
<1>0. /\ Width \in Nat \ {0} /\ U16 \in Nat \ {0} /\ t.row \in Nat /\ Width < U16
      /\ t.col \in 1 .. (Width - 1)
  BY U16IsPositive DEF Terminal, Laid
<1>1. back \in Terminal /\ back.row = t.row /\ back.col = t.col - 1 /\ back.vga = t.vga
      /\ back.hit = FALSE
  BY <1>0, U16IsPositive DEF Terminal, Laid
<1>2. put.row = t.row /\ put.col = t.col - 1 /\ put \in Terminal
  BY <1>1, PutcharTyped DEF tty_putchar, Terminal, Shown
<1>3. Print1(back, Blank) = [put EXCEPT !.col = t.col]
  <2>1. (back.col + 1) % U16 = t.col /\ ~(t.col >= Width)
    BY <1>0, <1>1
  <2> QED
    BY <2>1 DEF Print1
<1>4. u = [Print1(back, Blank) EXCEPT !.col = (@ - 1) % U16]
  BY <1>0 DEF tty_backspace
<1>5. u.row = t.row /\ u.col = t.col - 1 /\ u.vga = put.vga /\ u.hit = put.hit
  <2>1. (t.col - 1) % U16 = t.col - 1
    BY <1>0
  <2> QED
    BY <1>2, <1>3, <1>4, <2>1 DEF Terminal
<1>6. c \in Output
  BY DEF Shown, Output
<1>7. p \in Nat /\ Cursor(t) = p + 1
  BY <1>6, EndGrows DEF Laid, End
<1>8. Cursor(back) = p /\ Cursor(u) = p
  <2>1. t.row * Width \in Nat
    BY <1>0
  <2>2. Cursor(t) = t.row * Width + t.col /\ Cursor(back) = t.row * Width + (t.col - 1)
    BY <1>1 DEF Cursor
  <2>3. Cursor(u) = Cursor(back)
    BY <1>1, <1>5 DEF Cursor
  <2> HIDE DEF p, u, back
  <2> QED
    BY <1>0, <1>7, <2>1, <2>2, <2>3
<1> DEFINE R == Rendered(text, CellOf(text))
<1>9. t.vga = [x \in Cell |-> IF x = p THEN c ELSE R[x]]
  <2>1. t.vga = Rendered(Append(text, c), CellOf(Append(text, c)))
    BY DEF Laid
  <2>2. Rendered(Append(text, c), CellOf(Append(text, c)))
           = [x \in Cell |-> IF x = p /\ c # NL THEN c ELSE R[x]]
    BY <1>6, AppendShows
  <2> QED
    BY <2>1, <2>2
<1>10. p \in Cell => R[p] = Blank
  BY <1>6, AppendShows
<1>11. R = [x \in Cell |-> R[x]]
  BY RenderedIs
<1>12. put.vga = R
  <2> HIDE DEF p, R
  <2>1. CASE p \in Cell
    <3>1. put.vga = [t.vga EXCEPT ![p] = Blank]
      BY <1>1, <1>8, <2>1 DEF tty_putchar, Terminal
    <3>2. put.vga = [x \in Cell |-> IF x = p THEN Blank ELSE R[x]]
      BY <1>9, <2>1, <3>1
    <3> QED
      BY <1>10, <1>11, <2>1, <3>2
  <2>2. CASE p \notin Cell
    <3>1. put.vga = back.vga
      BY <1>1, <1>8, <2>2 DEF tty_putchar, Terminal
    <3>2. \A x \in Cell : x # p
      BY <2>2
    <3> QED
      BY <1>1, <1>9, <1>11, <3>1, <3>2
  <2> QED
    BY <2>1, <2>2
<1>13. u.col < Width
  BY <1>0, <1>5
<1>14. p < KernelCell /\ Width * 0 = 0 /\ KernelCell \in Nat
  <2>1. Cursor(t) =< KernelCell + Width * 0 /\ Width * 0 = 0 /\ KernelCell \in Nat
    BY MostIsNumber DEF Far, Laid
  <2> HIDE DEF p
  <2> QED
    BY <1>7, <2>1
<1>15. put.hit = FALSE
  <2>1. ~(Cursor(back) >= KernelCell)
    BY <1>7, <1>8, <1>14
  <2> HIDE DEF back
  <2> QED
    BY <1>1, <2>1 DEF tty_putchar, Terminal
<1>16. Far(u, 0)
  <2> HIDE DEF u, p
  <2> QED
    BY <1>7, <1>8, <1>14 DEF Far
<1> QED
  BY <1>5, <1>8, <1>12, <1>13, <1>15, <1>16 DEF Laid, End

(* What a character of a line looks like. *)
Look(c) == IF c = TAB THEN TabStop ELSE <<c>>

LEMMA LookTyped ==
    ASSUME NEW c \in Output
    PROVE  Look(c) \in Seq(Output)
<1>1. Blank \in Output
  BY DEF Output
<1>2. TabStop \in Seq(Output) /\ <<c>> \in Seq(Output)
  BY <1>1 DEF TabStop
<1> QED
  BY <1>2 DEF Look

LEMMA ConcatAssoc ==
    ASSUME NEW a \in Seq(Output), NEW b \in Seq(Output), NEW c \in Seq(Output)
    PROVE  (a \o b) \o c = a \o (b \o c)
  OBVIOUS

LEMMA ExpandEmpty == Expand(<<>>) = <<>>
<1>1. [k \in DOMAIN <<>> |-> IF <<>>[k] = TAB THEN TabStop ELSE <<(<<>>[k])>>] = <<>>
  OBVIOUS
<1>2. FlattenSeq(<<>>) = <<>>
  BY DEF FlattenSeq
<1> QED
  BY <1>1, <1>2 DEF Expand

(* A text is expanded one character after the other. *)
LEMMA ExpandSteps ==
    ASSUME NEW s \in Seq(Output)
    PROVE  \E e \in [0 .. Len(s) -> Seq(Output)] :
              /\ e[0] = <<>> /\ Expand(s) = e[Len(s)]
              /\ \A k \in 1 .. Len(s) : e[k] = e[k - 1] \o Look(s[k])
<1> DEFINE n == Len(s)
           seqs == [k \in DOMAIN s |-> Look(s[k])]
           g == [k \in 1 .. n |-> [x \in Seq(Output) |-> x \o Look(s[k])]]
           Body(f, k) == IF k = 1 THEN seqs[k] ELSE f[k - 1] \o seqs[k]
           w == CHOOSE f : f = [k \in 1 .. n |-> Body(f, k)]
<1>0. n \in Nat /\ DOMAIN s = 1 .. n /\ \A k \in 1 .. n : s[k] \in Output /\ Look(s[k]) \in Seq(Output)
  BY LookTyped
<1>1. Expand(s) = FlattenSeq(seqs)
  BY DEF Expand, Look
<1>2. Len(seqs) = n
  <2>1. seqs = [k \in 1 .. n |-> Look(s[k])]
    BY <1>0
  <2> HIDE DEF n, seqs
  <2> QED
    BY <1>0, <2>1
<1> HIDE DEF n
<1>3. CASE n = 0
  <2>1. s = <<>>
    BY <1>0, <1>3 DEF n
  <2>2. Expand(s) = <<>>
    BY <2>1, ExpandEmpty
  <2> DEFINE e == [k \in 0 .. n |-> <<>>]
  <2>3. e \in [0 .. n -> Seq(Output)] /\ e[0] = <<>> /\ e[n] = <<>>
    BY <1>0
  <2>4. \A k \in 1 .. n : FALSE
    BY <1>3
  <2> HIDE DEF e
  <2> QED
    BY <2>2, <2>3, <2>4 DEF n
<1>4. CASE n # 0
  <2>1. g \in [1 .. n -> [Seq(Output) -> Seq(Output)]]
    <3>1. \A k \in 1 .. n : \A x \in Seq(Output) : x \o Look(s[k]) \in Seq(Output)
      BY <1>0
    <3> QED
      BY <3>1
  <2>2. PICK h : Steps(Seq(Output), <<>>, g, n, h)
    <3>1. <<>> \in Seq(Output)
      OBVIOUS
    <3> HIDE DEF g
    <3> QED
      BY <1>0, <2>1, <3>1, StepsExist
  <2>3. h \in [0 .. n -> Seq(Output)] /\ h[0] = <<>>
    BY <2>2 DEF Steps
  <2>4. ASSUME NEW k \in 1 .. n
        PROVE  h[k] = h[k - 1] \o Look(s[k]) /\ h[k - 1] \in Seq(Output)
    <3>1. k - 1 \in 0 .. n
      BY <1>0
    <3>2. h[k - 1] \in Seq(Output)
      BY <2>3, <3>1
    <3>3. h[k] = g[k][h[k - 1]]
      BY <2>2 DEF Steps
    <3> QED
      BY <3>2, <3>3
  <2> DEFINE f0 == [k \in 1 .. n |-> h[k]]
  <2>5. ASSUME NEW k \in 1 .. n
        PROVE  f0[k] = Body(f0, k)
    <3>1. CASE k = 1
      <4>1. h[1] = <<>> \o Look(s[1])
        <5>1. 1 - 1 = 0
          OBVIOUS
        <5> QED
          BY <2>3, <2>4, <3>1, <5>1
      <4>2. h[1] = Look(s[1])
        BY <1>0, <3>1, <4>1
      <4> QED
        BY <1>0, <3>1, <4>2
    <3>2. CASE k # 1
      <4>1. k - 1 \in 1 .. n
        BY <1>0, <3>2
      <4> QED
        BY <1>0, <2>4, <3>2, <4>1
    <3> QED
      BY <3>1, <3>2
  <2>6. f0 = [k \in 1 .. n |-> Body(f0, k)]
    <3> HIDE DEF Body
    <3> QED
      BY <2>5
  <2>7. w = [k \in 1 .. n |-> Body(w, k)]
    <3> HIDE DEF Body, f0
    <3> QED
      BY <2>6
  <2>8. Expand(s) = w[n]
    BY <1>1, <1>2, <1>4 DEF FlattenSeq
  <2> HIDE DEF w
  <2> DEFINE B == {k \in 1 .. n : w[k] # h[k]}
  <2>9. ASSUME B # {}
        PROVE  FALSE
    <3>1. B \in SUBSET Nat
      OBVIOUS
    <3>2. PICK k \in B : \A y \in B : k =< y
      BY <2>9, <3>1, LeastNumber
    <3>3. k \in 1 .. n /\ w[k] # h[k]
      BY <3>2
    <3>4. w[k] = Body(w, k) /\ h[k] = f0[k] /\ f0[k] = Body(f0, k)
      <4> HIDE DEF Body
      <4> QED
        BY <2>5, <2>7, <3>3
    <3>5. CASE k = 1
      BY <3>3, <3>4, <3>5
    <3>6. CASE k # 1
      <4>1. k - 1 \in 1 .. n /\ ~(k =< k - 1)
        BY <1>0, <3>3, <3>6
      <4>2. w[k - 1] = h[k - 1] /\ f0[k - 1] = h[k - 1]
        BY <3>2, <4>1
      <4> HIDE DEF f0
      <4> QED
        BY <3>3, <3>4, <3>6, <4>2
    <3> QED
      BY <3>5, <3>6
  <2>10. w[n] = h[n]
    <3>1. n \in 1 .. n
      BY <1>0, <1>4
    <3> QED
      BY <2>9, <3>1
  <2> QED
    BY <2>3, <2>4, <2>8, <2>10 DEF n
<1> QED
  BY <1>3, <1>4

LEMMA ExpandTyped ==
    ASSUME NEW s \in Seq(Output)
    PROVE  Expand(s) \in Seq(Output)
<1>1. PICK e \in [0 .. Len(s) -> Seq(Output)] : Expand(s) = e[Len(s)]
  BY ExpandSteps
<1>2. Len(s) \in 0 .. Len(s)
  OBVIOUS
<1> QED
  BY <1>1, <1>2

LEMMA ExpandConcat ==
    ASSUME NEW s \in Seq(Output), NEW r \in Seq(Output)
    PROVE  Expand(s \o r) = Expand(s) \o Expand(r)
<1> DEFINE n == Len(s)
           m == Len(r)
           both == s \o r
<1>0. /\ n \in Nat /\ m \in Nat /\ both \in Seq(Output) /\ Len(both) = n + m
      /\ \A k \in 1 .. n : both[k] = s[k]
      /\ \A k \in 1 .. m : both[n + k] = r[k]
  OBVIOUS
<1>1. PICK e \in [0 .. n -> Seq(Output)] :
          /\ e[0] = <<>> /\ Expand(s) = e[n]
          /\ \A k \in 1 .. n : e[k] = e[k - 1] \o Look(s[k])
  BY ExpandSteps
<1>2. PICK f \in [0 .. m -> Seq(Output)] :
          /\ f[0] = <<>> /\ Expand(r) = f[m]
          /\ \A k \in 1 .. m : f[k] = f[k - 1] \o Look(r[k])
  BY ExpandSteps
<1> HIDE DEF both
<1>3. PICK h \in [0 .. (n + m) -> Seq(Output)] :
          /\ h[0] = <<>> /\ Expand(both) = h[n + m]
          /\ \A k \in 1 .. (n + m) : h[k] = h[k - 1] \o Look(both[k])
  <2> HIDE DEF n, m
  <2>1. \E h \in [0 .. Len(both) -> Seq(Output)] :
            /\ h[0] = <<>> /\ Expand(both) = h[Len(both)]
            /\ \A k \in 1 .. Len(both) : h[k] = h[k - 1] \o Look(both[k])
    BY <1>0, ExpandSteps
  <2> QED
    BY <1>0, <2>1
<1>4. \A k \in 1 .. m : Look(r[k]) \in Seq(Output)
  BY LookTyped
<1> HIDE DEF n, m
<1> DEFINE B == {k \in 0 .. n : h[k] # e[k]}
<1>5. ASSUME B # {}
      PROVE  FALSE
  <2>1. B \in SUBSET Nat
    OBVIOUS
  <2>2. PICK k \in B : \A y \in B : k =< y
    BY <1>5, <2>1, LeastNumber
  <2>3. k \in 0 .. n /\ h[k] # e[k]
    BY <2>2
  <2>4. k # 0
    BY <1>1, <1>3, <2>3
  <2>5. k \in 1 .. n /\ k - 1 \in 0 .. n /\ ~(k =< k - 1) /\ k \in 1 .. (n + m)
    BY <1>0, <2>3, <2>4
  <2>6. h[k - 1] = e[k - 1]
    BY <2>2, <2>5
  <2> QED
    BY <1>0, <1>1, <1>3, <2>3, <2>5, <2>6
<1>6. h[n] = e[n]
  <2>1. n \in 0 .. n
    BY <1>0
  <2> QED
    BY <1>5, <2>1
<1> DEFINE C == {k \in 0 .. m : h[n + k] # e[n] \o f[k]}
<1>7. e[n] \in Seq(Output)
  <2>1. n \in 0 .. n
    BY <1>0
  <2> QED
    BY <1>1, <2>1
<1>8. ASSUME C # {}
      PROVE  FALSE
  <2>1. C \in SUBSET Nat
    OBVIOUS
  <2>2. PICK k \in C : \A y \in C : k =< y
    BY <1>8, <2>1, LeastNumber
  <2>3. k \in 0 .. m /\ h[n + k] # e[n] \o f[k]
    BY <2>2
  <2>4. k # 0
    <3>1. e[n] \o <<>> = e[n] /\ n + 0 = n
      BY <1>0, <1>7
    <3> QED
      BY <1>2, <1>6, <2>3, <3>1
  <2>5. /\ k \in 1 .. m /\ k - 1 \in 0 .. m /\ ~(k =< k - 1)
        /\ n + k \in 1 .. (n + m) /\ n + k - 1 = n + (k - 1)
    BY <1>0, <2>3, <2>4
  <2>6. h[n + (k - 1)] = e[n] \o f[k - 1]
    BY <2>2, <2>5
  <2>7. h[n + k] = h[n + (k - 1)] \o Look(r[k])
    <3>1. PICK j \in 1 .. (n + m) : j = n + k
      BY <2>5
    <3>2. h[j] = h[j - 1] \o Look(both[j])
      BY <1>3
    <3>3. both[j] = r[k] /\ j - 1 = n + (k - 1)
      BY <1>0, <2>5, <3>1
    <3> QED
      BY <3>1, <3>2, <3>3
  <2>8. f[k] = f[k - 1] \o Look(r[k])
    BY <1>2, <2>5
  <2>9. f[k - 1] \in Seq(Output) /\ Look(r[k]) \in Seq(Output)
    BY <1>2, <1>4, <2>5
  <2>10. (e[n] \o f[k - 1]) \o Look(r[k]) = e[n] \o (f[k - 1] \o Look(r[k]))
    BY <1>7, <2>9, ConcatAssoc
  <2> QED
    BY <2>3, <2>6, <2>7, <2>8, <2>10
<1>9. h[n + m] = e[n] \o f[m]
  <2>1. m \in 0 .. m
    BY <1>0
  <2> QED
    BY <1>8, <2>1
<1> QED
  BY <1>1, <1>2, <1>3, <1>9 DEF both

LEMMA ExpandOne ==
    ASSUME NEW c \in Output
    PROVE  Expand(<<c>>) = Look(c)
<1> DEFINE s == <<c>>
<1>1. s \in Seq(Output) /\ Len(s) = 1 /\ s[1] = c
  OBVIOUS
<1> HIDE DEF s
<1>2. PICK e \in [0 .. 1 -> Seq(Output)] :
          /\ e[0] = <<>> /\ Expand(s) = e[1]
          /\ \A k \in 1 .. 1 : e[k] = e[k - 1] \o Look(s[k])
  BY <1>1, ExpandSteps
<1>3. e[1] = <<>> \o Look(c)
  <2>1. 1 - 1 = 0 /\ 1 \in 1 .. 1
    OBVIOUS
  <2> QED
    BY <1>1, <1>2, <2>1
<1>4. Look(c) \in Seq(Output)
  BY LookTyped
<1> QED
  BY <1>2, <1>3, <1>4 DEF s

LEMMA ExpandPrompt == Expand(Prompt) = Prompt /\ Expand(<<NL>>) = <<NL>>
<1>1. ">" \in Output /\ Blank \in Output /\ NL \in Output
  BY DEF Output
<1>2. ">" # TAB /\ Blank # TAB /\ NL # TAB
  BY DEF TAB, Blank, NL
<1>3. <<">">> \in Seq(Output) /\ <<Blank>> \in Seq(Output)
  BY <1>1
<1>4. Prompt = <<">">> \o <<Blank>>
  BY DEF Prompt
<1>5. Expand(<<">">>) = <<">">> /\ Expand(<<Blank>>) = <<Blank>> /\ Expand(<<NL>>) = <<NL>>
  BY <1>1, <1>2, ExpandOne DEF Look
<1>6. Expand(Prompt) = Expand(<<">">>) \o Expand(<<Blank>>)
  BY <1>3, <1>4, ExpandConcat
<1> QED
  BY <1>4, <1>5, <1>6

(* A character goes behind the text, or into the kernel; only a newline    *)
(* moves the cursor down without writing.                                  *)
LEMMA ShowChar ==
    ASSUME NEW text \in Seq(Output), NEW t \in Terminal, Stands(text, t),
           NEW n \in 0 .. Most, Far(t, n), NEW c \in Output, c # BS
    PROVE  /\ Stands(text \o Look(c), tty_writechar(t, c))
           /\ Far(tty_writechar(t, c), n + 1)
           /\ c # NL => Far(tty_writechar(t, c), 0)
<1>0. /\ 0 \in 0 .. Most /\ n + 1 \in Nat /\ tty_writechar(t, c) \in Terminal
  BY MostIsNumber, WritecharTyped
<1>1. CASE c = NL
  <2>1. c # TAB /\ tty_writechar(t, c) = tty_newline(t)
    BY <1>1 DEF tty_writechar, NL, TAB, BS
  <2>2. text \o Look(c) = Append(text, NL)
    BY <1>1, <2>1 DEF Look
  <2>3. Stands(Append(text, NL), tty_newline(t)) /\ Far(tty_newline(t), n + 1)
    BY ShowNewline
  <2> QED
    BY <1>1, <2>1, <2>2, <2>3
<1>2. CASE c = TAB
  <2> DEFINE t1 == Print1(t, Blank)
             t2 == Print1(t1, Blank)
             t3 == Print1(t2, Blank)
             t4 == Print1(t3, Blank)
             x1 == Append(text, Blank)
             x2 == Append(x1, Blank)
             x3 == Append(x2, Blank)
             x4 == Append(x3, Blank)
  <2>1. tty_writechar(t, c) = t4
    BY <1>2 DEF tty_writechar, tty_tab, NL, TAB, BS
  <2>2. Blank \in Shown /\ Blank # NL /\ Blank \in Output
    BY DEF Shown, Output, Blank, NL
  <2>3. text \o Look(c) = x4
    BY <1>2, <2>2 DEF Look, TabStop
  <2>4. t1 \in Terminal /\ t2 \in Terminal /\ t3 \in Terminal
    BY <2>2, PrintTyped
  <2>5. x1 \in Seq(Output) /\ x2 \in Seq(Output) /\ x3 \in Seq(Output)
    BY <2>2
  <2>6. Stands(x1, t1) /\ Far(t1, 0)
    BY <2>2, ShowGlyph
  <2> HIDE DEF t1, x1
  <2>7. Stands(x2, t2) /\ Far(t2, 0)
    BY <1>0, <2>2, <2>4, <2>5, <2>6, ShowGlyph
  <2> HIDE DEF t2, x2
  <2>8. Stands(x3, t3) /\ Far(t3, 0)
    BY <1>0, <2>2, <2>4, <2>5, <2>7, ShowGlyph
  <2> HIDE DEF t3, x3
  <2>9. Stands(x4, t4) /\ Far(t4, 0)
    BY <1>0, <2>2, <2>4, <2>5, <2>8, ShowGlyph
  <2> HIDE DEF t4, x4
  <2> QED
    BY <1>0, <2>1, <2>3, <2>9, FarFurther
<1>3. CASE c \notin {NL, TAB, BS}
  <2>1. tty_writechar(t, c) = Print1(t, c) /\ c # NL /\ c # TAB
    BY <1>3 DEF tty_writechar
  <2>2. c \in Shown
    BY <1>3 DEF Output, Shown
  <2>3. text \o Look(c) = Append(text, c)
    BY <2>1 DEF Look
  <2>4. Stands(Append(text, c), Print1(t, c)) /\ Far(Print1(t, c), 0)
    BY <2>1, <2>2, ShowGlyph
  <2> QED
    BY <1>0, <2>1, <2>3, <2>4, FarFurther
<1> QED
  BY <1>1, <1>2, <1>3

(* So does a string that does not end in a newline: whatever newlines are  *)
(* in it, a glyph comes after them.                                        *)
LEMMA WriteShows ==
    ASSUME NEW text \in Seq(Output), NEW t \in Terminal, Stands(text, t), Far(t, 0),
           NEW s \in Seq(Output), \A k \in 1 .. Len(s) : s[k] # BS,
           Len(s) \in 1 .. Most, s[Len(s)] # NL
    PROVE  Stands(text \o Expand(s), tty_writestr(t, s)) /\ Far(tty_writestr(t, s), 0)
<1> DEFINE n == Len(s)
<1>0. n \in 1 .. Most /\ Most \in Nat /\ s[n] # NL
  BY MostIsNumber
<1>1. PICK e \in [0 .. n -> Seq(Output)] :
          /\ e[0] = <<>> /\ Expand(s) = e[n]
          /\ \A k \in 1 .. n : e[k] = e[k - 1] \o Look(s[k])
  BY ExpandSteps
<1>2. PICK w \in [0 .. n -> Terminal] :
          /\ w[0] = t /\ tty_writestr(t, s) = w[n]
          /\ \A k \in 1 .. n : w[k] = tty_writechar(w[k - 1], s[k])
  BY WritestrSteps
<1>3. \A k \in 1 .. n : s[k] \in Output /\ s[k] # BS
  OBVIOUS
<1> HIDE DEF n
<1> DEFINE Good(k) == Stands(text \o e[k], w[k]) /\ Far(w[k], k)
           B == {k \in 0 .. n : ~Good(k)}
<1>4. ASSUME NEW k \in 1 .. n, Good(k - 1)
      PROVE  Good(k) /\ (s[k] # NL => Far(w[k], 0))
  <2>1. k - 1 \in 0 .. n /\ k - 1 \in 0 .. Most /\ (k - 1) + 1 = k
    BY <1>0
  <2>2. /\ w[k - 1] \in Terminal /\ e[k - 1] \in Seq(Output)
        /\ text \o e[k - 1] \in Seq(Output)
    BY <1>1, <1>2, <2>1
  <2>3. /\ Stands((text \o e[k - 1]) \o Look(s[k]), tty_writechar(w[k - 1], s[k]))
        /\ Far(tty_writechar(w[k - 1], s[k]), (k - 1) + 1)
        /\ s[k] # NL => Far(tty_writechar(w[k - 1], s[k]), 0)
    BY <1>3, <1>4, <2>1, <2>2, ShowChar
  <2>4. w[k] = tty_writechar(w[k - 1], s[k]) /\ e[k] = e[k - 1] \o Look(s[k])
    BY <1>1, <1>2
  <2>5. (text \o e[k - 1]) \o Look(s[k]) = text \o e[k]
    <3>1. Look(s[k]) \in Seq(Output)
      BY <1>3, LookTyped
    <3>2. (text \o e[k - 1]) \o Look(s[k]) = text \o (e[k - 1] \o Look(s[k]))
      BY <2>2, <3>1, ConcatAssoc
    <3> QED
      BY <2>4, <3>2
  <2> QED
    BY <2>1, <2>3, <2>4, <2>5
<1>5. ASSUME B # {}
      PROVE  FALSE
  <2>1. B \in SUBSET Nat
    OBVIOUS
  <2>2. PICK k \in B : \A y \in B : k =< y
    <3> HIDE DEF B
    <3> QED
      BY <1>5, <2>1, LeastNumber
  <2>3. k \in 0 .. n /\ ~Good(k)
    BY <2>2
  <2>4. k # 0
    <3>1. text \o e[0] = text
      BY <1>1
    <3>2. Good(0)
      BY <1>2, <3>1
    <3> QED
      BY <2>3, <3>2
  <2>5. k \in 1 .. n /\ k - 1 \in 0 .. n /\ ~(k =< k - 1)
    BY <1>0, <2>3, <2>4
  <2> HIDE DEF Good
  <2>6. Good(k - 1)
    BY <2>2, <2>5
  <2> QED
    BY <1>4, <2>3, <2>5, <2>6
<1>6. Good(n) /\ Good(n - 1) /\ n \in 1 .. n
  <2>1. n \in 0 .. n /\ n - 1 \in 0 .. n /\ n \in 1 .. n
    BY <1>0
  <2> HIDE DEF Good
  <2> QED
    BY <1>5, <2>1
<1>7. Stands(text \o e[n], w[n]) /\ Far(w[n], 0)
  BY <1>0, <1>4, <1>6
<1> QED
  BY <1>1, <1>2, <1>7 DEF n

-----------------------------------------------------------------------------
(* Strings *)

Chars == Char \cup {BS}

(* A buffer of n + 1 characters, the last of which is NUL. *)
Buffer(n) == {b \in [0 .. n -> Chars \cup {NUL}] : b[n] = NUL}

LEMMA NulIsNoChar == NUL \notin Chars /\ BS \notin Char /\ NUL \notin Char
  BY ShellAssumption DEF Chars, NUL, BS

(* A string ends at the first NUL. *)
LEMMA CStringEnds ==
    ASSUME NEW n \in Nat, NEW b \in Buffer(n), NEW from \in 0 .. n
    PROVE  \E end \in from .. n :
              /\ b[end] = NUL
              /\ \A j \in from .. (end - 1) : b[j] \in Chars
              /\ CString(b, from) = [k \in 1 .. (end - from) |-> b[from + k - 1]]
              /\ CString(b, from) \in Seq(Chars)
              /\ Len(CString(b, from)) = end - from
<1> DEFINE E == {j \in DOMAIN b : j >= from /\ b[j] = NUL}
           end == Min(E)
           cs == [k \in 1 .. (end - from) |-> b[from + k - 1]]
<1>0. b \in [0 .. n -> Chars \cup {NUL}] /\ b[n] = NUL /\ DOMAIN b = 0 .. n
  BY DEF Buffer
<1>1. E \in SUBSET Nat /\ n \in E
  BY <1>0
<1>2. end \in E /\ \A j \in E : end =< j
  <2> HIDE DEF E
  <2> QED
    BY <1>1, MinIsMember
<1>3. CString(b, from) = cs
  BY DEF CString
<1> HIDE DEF end
<1>4. end \in from .. n /\ b[end] = NUL
  BY <1>0, <1>2
<1>5. ASSUME NEW j \in from .. (end - 1)
      PROVE  b[j] \in Chars
  <2>1. j \in 0 .. n /\ ~(end =< j) /\ j >= from
    BY <1>4
  <2> QED
    BY <1>0, <1>2, <2>1
<1>6. end - from \in Nat
  BY <1>4
<1>7. \A k \in 1 .. (end - from) : from + k - 1 \in from .. (end - 1)
  BY <1>4
<1>8. cs \in [1 .. (end - from) -> Chars]
  BY <1>5, <1>7
<1>9. cs \in Seq(Chars) /\ Len(cs) = end - from
  BY <1>6, <1>8
<1> QED
  BY <1>3, <1>4, <1>5, <1>9

(* A string copied into a buffer that has room for it. *)
LEMMA StrncpyTyped ==
    ASSUME NEW n \in Nat, NEW b \in Buffer(n), NEW s \in Seq(Chars), Len(s) < n
    PROVE  strncpy(b, s) \in Buffer(n)
<1>0. b \in [0 .. n -> Chars \cup {NUL}] /\ b[n] = NUL /\ DOMAIN b = 0 .. n /\ Len(s) \in Nat
  BY DEF Buffer
<1> DEFINE At(j) == IF j < Len(s) THEN s[j + 1] ELSE IF j = Len(s) THEN NUL ELSE b[j]
<1>1. strncpy(b, s) = [j \in 0 .. n |-> At(j)]
  BY <1>0 DEF strncpy
<1>2. ASSUME NEW j \in 0 .. n
      PROVE  At(j) \in Chars \cup {NUL}
  <2>1. CASE j < Len(s)
    <3>1. j + 1 \in 1 .. Len(s)
      BY <1>0, <2>1
    <3>2. s[j + 1] \in Chars
      BY <3>1
    <3> QED
      BY <2>1, <3>2
  <2>2. CASE ~(j < Len(s))
    BY <1>0, <2>2
  <2> QED
    BY <2>1, <2>2
<1>3. At(n) = NUL
  BY <1>0
<1> HIDE DEF At
<1> QED
  BY <1>1, <1>2, <1>3 DEF Buffer

-----------------------------------------------------------------------------
(* Tokens *)

LEMMA SizeIsPositive ==
    /\ Size \in Nat /\ Size - 1 \in Nat /\ Size >= 3
    /\ Len(Echo) + 1 \in 0 .. (Size - 1)
  BY ShellAssumption

(* What strtok() works on. *)
Parsing ==
    [s : Buffer(Size), last : {NULL} \cup 0 .. Size, args : Seq(Seq(Chars)), token : Seq(Chars)]

(* strtok() stays inside the string, and leaves it terminated. *)
LEMMA StrtokTyped ==
    ASSUME NEW p \in Parsing
    PROVE  strtok(p) \in Parsing
<1> DEFINE from == IF p.last = NULL THEN 0 ELSE p.last
           B == {j \in DOMAIN p.s : j >= from /\ p.s[j] # Blank}
           start == Min(B)
           E == {j \in DOMAIN p.s : j >= start /\ p.s[j] \in {Blank, NUL}}
           end == Min(E)
           cut == [p.s EXCEPT ![end] = NUL]
           next == IF p.s[end] = Blank THEN end + 1 ELSE end
<1>0. /\ p.s \in [0 .. Size -> Chars \cup {NUL}] /\ p.s[Size] = NUL /\ DOMAIN p.s = 0 .. Size
      /\ p.last \in {NULL} \cup 0 .. Size /\ Size \in Nat
  BY SizeIsPositive DEF Parsing, Buffer
<1>1. from \in 0 .. Size
  BY <1>0
<1>2. B \in SUBSET Nat /\ Size \in B
  <2>1. NUL # Blank
    BY DEF NUL, Blank
  <2> HIDE DEF from
  <2>2. B \in SUBSET Nat
    BY <1>0
  <2>3. Size \in DOMAIN p.s /\ Size >= from /\ p.s[Size] # Blank
    BY <1>0, <1>1, <2>1
  <2> QED
    BY <2>2, <2>3
<1>3. start \in B
  <2> HIDE DEF B
  <2> QED
    BY <1>2, MinIsMember
<1>4. start \in 0 .. Size
  <2> HIDE DEF start, from
  <2> QED
    BY <1>0, <1>3
<1>5. E \in SUBSET Nat /\ Size \in E
  <2> HIDE DEF start
  <2> QED
    BY <1>0, <1>4
<1>6. end \in E
  <2> HIDE DEF E
  <2> QED
    BY <1>5, MinIsMember
<1>7. end \in 0 .. Size /\ p.s[end] \in {Blank, NUL}
  <2> HIDE DEF end, start
  <2> QED
    BY <1>0, <1>6
<1>8. cut \in Buffer(Size)
  <2> HIDE DEF end
  <2> QED
    BY <1>0, <1>7 DEF Buffer
<1>9. next \in 0 .. Size
  <2> HIDE DEF end
  <2>1. p.s[end] = Blank => end # Size
    BY <1>0 DEF NUL, Blank
  <2> QED
    BY <1>0, <1>7, <2>1
<1>10. CString(cut, start) \in Seq(Chars)
  <2> HIDE DEF cut, start
  <2> QED
    BY <1>0, <1>4, <1>8, CStringEnds
<1>11. strtok(p) = IF p.s[start] = NUL
                   THEN [p EXCEPT !.last = NULL, !.token = NoToken]
                   ELSE [p EXCEPT !.s = cut, !.last = next, !.token = CString(cut, start)]
  BY DEF strtok
<1>12. NoToken \in Seq(Chars)
  BY DEF NoToken
<1> HIDE DEF start, cut, next
<1> QED
  BY <1>8, <1>9, <1>10, <1>11, <1>12 DEF Parsing

LEMMA TruncateTyped ==
    ASSUME NEW s \in Seq(Chars)
    PROVE  Truncate(s, ArgSize) \in Seq(Chars)
<1> DEFINE m == Min({Len(s), ArgSize - 1})
<1>1. {Len(s), ArgSize - 1} \in SUBSET Nat
  BY ShellAssumption
<1>2. m \in {Len(s), ArgSize - 1} /\ m =< Len(s)
  BY <1>1, MinIsMember
<1>3. m \in 0 .. Len(s)
  <2> HIDE DEF m
  <2> QED
    BY <1>1, <1>2
<1> HIDE DEF m
<1>4. SubSeq(s, 1, m) \in Seq(Chars)
  BY <1>3
<1> QED
  BY <1>4 DEF Truncate, m

(* A turn of enki_parse_cmd()'s loop. *)
ParseStep(p) ==
    IF p.token = NoToken THEN p
    ELSE strtok([p EXCEPT !.args = Append(@, Truncate(p.token, ArgSize))])

LEMMA ParseStepTyped ==
    ASSUME NEW p \in Parsing
    PROVE  ParseStep(p) \in Parsing
<1> DEFINE q == [p EXCEPT !.args = Append(@, Truncate(p.token, ArgSize))]
<1>1. Truncate(p.token, ArgSize) \in Seq(Chars)
  BY TruncateTyped DEF Parsing
<1>2. Append(p.args, Truncate(p.token, ArgSize)) \in Seq(Seq(Chars))
  BY <1>1 DEF Parsing
<1>3. q \in Parsing
  BY <1>2 DEF Parsing
<1> HIDE DEF q
<1>4. ParseStep(p) = IF p.token = NoToken THEN p ELSE strtok(q)
  BY DEF ParseStep, q
<1> QED
  BY <1>3, <1>4, StrtokTyped

(* What enki_parse_cmd() begins with. *)
Copied(cmd) == [s |-> strncpy(scmd, cmd), last |-> last, args |-> <<>>, token |-> NoToken]

LEMMA CopiedTyped ==
    ASSUME NEW cmd \in Seq(Chars), Len(cmd) < Size,
           scmd \in Buffer(Size), last \in {NULL} \cup 0 .. Size
    PROVE  Copied(cmd) \in Parsing
<1>1. strncpy(scmd, cmd) \in Buffer(Size)
  BY SizeIsPositive, StrncpyTyped
<1> QED
  BY <1>1 DEF Copied, Parsing, NoToken

(* Its loop, turn by turn, for each allocation that succeeds. *)
LEMMA ParseSteps ==
    ASSUME NEW cmd \in Seq(Chars), Len(cmd) < Size, NEW room \in Nat,
           scmd \in Buffer(Size), last \in {NULL} \cup 0 .. Size
    PROVE  \E w \in [0 .. room -> Parsing] :
              /\ w[0] = strtok(Copied(cmd)) /\ enki_parse_cmd(cmd, room) = w[room]
              /\ \A n \in 1 .. room : w[n] = ParseStep(w[n - 1])
<1> DEFINE a == strtok(Copied(cmd))
           g == [k \in 1 .. room |-> [p \in Parsing |-> ParseStep(p)]]
           Body(f, n) == IF n = 0 THEN a
                         ELSE IF f[n - 1].token = NoToken THEN f[n - 1]
                         ELSE strtok([f[n - 1] EXCEPT
                                 !.args = Append(@, Truncate(f[n - 1].token, ArgSize))])
           w == CHOOSE f : f = [n \in 0 .. room |-> Body(f, n)]
<1>1. enki_parse_cmd(cmd, room) = w[room]
  BY DEF enki_parse_cmd, Copied
<1>4. a \in Parsing
  BY CopiedTyped, StrtokTyped
<1> HIDE DEF a
<1>5. g \in [1 .. room -> [Parsing -> Parsing]]
  BY ParseStepTyped
<1>6. PICK h : Steps(Parsing, a, g, room, h)
  <2> HIDE DEF g
  <2> QED
    BY <1>4, <1>5, StepsExist
<1>7. h \in [0 .. room -> Parsing] /\ h[0] = a
  BY <1>6 DEF Steps
<1>8. ASSUME NEW f, NEW n \in 1 .. room
      PROVE  Body(f, n) = ParseStep(f[n - 1])
  BY DEF ParseStep
<1>9. Body(h, 0) = a /\ Body(w, 0) = a
  OBVIOUS
<1>10. h = [n \in 0 .. room |-> Body(h, n)]
  <2>1. ASSUME NEW n \in 0 .. room
        PROVE  h[n] = Body(h, n)
    <3>1. CASE n = 0
      BY <1>7, <1>9, <3>1
    <3>2. CASE n # 0
      <4>1. n \in 1 .. room /\ n - 1 \in 0 .. room
        BY <3>2
      <4>2. h[n] = g[n][h[n - 1]]
        BY <1>6, <4>1 DEF Steps
      <4>3. h[n - 1] \in Parsing
        BY <1>7, <4>1
      <4>4. h[n] = ParseStep(h[n - 1])
        BY <4>1, <4>2, <4>3
      <4>5. Body(h, n) = ParseStep(h[n - 1])
        BY <1>8, <4>1
      <4> QED
        BY <4>4, <4>5
    <3> QED
      BY <3>1, <3>2
  <2> HIDE DEF Body
  <2> QED
    BY <1>7, <2>1
<1>11. w = [n \in 0 .. room |-> Body(w, n)]
  <2> HIDE DEF Body
  <2> QED
    BY <1>10
<1> HIDE DEF w, Body
<1> DEFINE N == {n \in 0 .. room : w[n] \notin Parsing}
<1>12. ASSUME N # {}
       PROVE  FALSE
  <2>1. N \in SUBSET Nat
    OBVIOUS
  <2>2. PICK n \in N : \A y \in N : n =< y
    BY <1>12, <2>1, LeastNumber
  <2>3. n \in 0 .. room /\ w[n] \notin Parsing /\ w[n] = Body(w, n)
    BY <1>11, <2>2
  <2>4. n # 0
    BY <1>4, <1>9, <2>3
  <2>5. n \in 1 .. room /\ n - 1 \in 0 .. room /\ ~(n =< n - 1)
    BY <2>3, <2>4
  <2>6. w[n - 1] \in Parsing
    BY <2>2, <2>5
  <2>7. w[n] = ParseStep(w[n - 1])
    BY <1>8, <2>3, <2>5
  <2> QED
    BY <2>3, <2>6, <2>7, ParseStepTyped
<1>13. w \in [0 .. room -> Parsing]
  BY <1>11, <1>12
<1>14. w[0] = a
  <2>1. 0 \in 0 .. room
    OBVIOUS
  <2> QED
    BY <1>9, <1>11, <2>1
<1>15. ASSUME NEW n \in 1 .. room
       PROVE  w[n] = ParseStep(w[n - 1])
  <2>1. n \in 0 .. room
    OBVIOUS
  <2> QED
    BY <1>8, <1>11, <2>1
<1> QED
  BY <1>1, <1>13, <1>14, <1>15 DEF a

(* enki_parse_cmd() leaves the copy of the command terminated, and         *)
(* strtok()'s place inside it, however many allocations succeed.           *)
LEMMA ParseTyped ==
    ASSUME NEW cmd \in Seq(Chars), Len(cmd) < Size, NEW room \in Nat,
           scmd \in Buffer(Size), last \in {NULL} \cup 0 .. Size
    PROVE  enki_parse_cmd(cmd, room) \in Parsing
<1>1. PICK w \in [0 .. room -> Parsing] : enki_parse_cmd(cmd, room) = w[room]
  BY ParseSteps
<1>2. room \in 0 .. room
  OBVIOUS
<1> QED
  BY <1>1, <1>2

(* Where strtok() goes on. *)
From(p) == IF p.last = NULL THEN 0 ELSE p.last

(* strtok() skips blanks, and cuts off what is in front of the next one. *)
Cuts(p, from) ==
    \E start \in from .. Size :
        /\ \A j \in from .. (start - 1) : p.s[j] = Blank
        /\ p.s[start] # Blank
        /\ \/ p.s[start] = NUL /\ strtok(p) = [p EXCEPT !.last = NULL, !.token = NoToken]
           \/ /\ p.s[start] # NUL
              /\ \E end \in (start + 1) .. Size :
                    /\ p.s[end] \in {Blank, NUL}
                    /\ \A j \in start .. (end - 1) : p.s[j] \notin {Blank, NUL}
                    /\ strtok(p) = [p EXCEPT
                          !.s = [p.s EXCEPT ![end] = NUL],
                          !.last = IF p.s[end] = Blank THEN end + 1 ELSE end,
                          !.token = [k \in 1 .. (end - start) |-> p.s[start + k - 1]]]

LEMMA StrtokCuts ==
    ASSUME NEW p \in Parsing
    PROVE  Cuts(p, From(p))
<1> DEFINE from == From(p)
           B == {j \in DOMAIN p.s : j >= from /\ p.s[j] # Blank}
           start == Min(B)
           E == {j \in DOMAIN p.s : j >= start /\ p.s[j] \in {Blank, NUL}}
           end == Min(E)
           cut == [p.s EXCEPT ![end] = NUL]
           next == IF p.s[end] = Blank THEN end + 1 ELSE end
<1>0. /\ p.s \in [0 .. Size -> Chars \cup {NUL}] /\ p.s[Size] = NUL /\ DOMAIN p.s = 0 .. Size
      /\ p.last \in {NULL} \cup 0 .. Size /\ Size \in Nat
  BY SizeIsPositive DEF Parsing, Buffer
<1>1. from \in 0 .. Size
  BY <1>0 DEF From
<1>2. B \in SUBSET Nat /\ Size \in B
  <2> HIDE DEF from
  <2>1. NUL # Blank
    BY DEF NUL, Blank
  <2>2. B \in SUBSET Nat
    BY <1>0
  <2>3. Size \in DOMAIN p.s /\ Size >= from /\ p.s[Size] # Blank
    BY <1>0, <1>1, <2>1
  <2> QED
    BY <2>2, <2>3
<1>3. start \in B /\ \A j \in B : start =< j
  <2> HIDE DEF B
  <2> QED
    BY <1>2, MinIsMember
<1>4. strtok(p) = IF p.s[start] = NUL
                  THEN [p EXCEPT !.last = NULL, !.token = NoToken]
                  ELSE [p EXCEPT !.s = cut, !.last = next, !.token = CString(cut, start)]
  BY DEF strtok, From
<1> HIDE DEF start, from
<1>5. start \in from .. Size /\ start \in 0 .. Size /\ p.s[start] # Blank
  BY <1>0, <1>1, <1>3
<1>6. ASSUME NEW j \in from .. (start - 1)
      PROVE  p.s[j] = Blank
  <2>1. j \in 0 .. Size /\ j >= from /\ ~(start =< j)
    BY <1>0, <1>1, <1>5
  <2> QED
    BY <1>0, <1>3, <2>1
<1>7. CASE p.s[start] = NUL
  <2>1. Cuts(p, from)
    BY <1>4, <1>5, <1>6, <1>7 DEF Cuts
  <2> QED
    BY <2>1 DEF from
<1>8. CASE p.s[start] # NUL
  <2>1. E \in SUBSET Nat /\ Size \in E
    BY <1>0, <1>5
  <2>2. end \in E /\ \A j \in E : end =< j
    <3> HIDE DEF E
    <3> QED
      BY <2>1, MinIsMember
  <2> HIDE DEF end
  <2>3. end \in start .. Size /\ end # start /\ p.s[end] \in {Blank, NUL}
    BY <1>0, <1>5, <1>8, <2>2
  <2>4. end \in (start + 1) .. Size
    BY <1>0, <1>5, <2>3
  <2>5. ASSUME NEW j \in start .. (end - 1)
        PROVE  p.s[j] \notin {Blank, NUL}
    <3>1. j \in 0 .. Size /\ j >= start /\ ~(end =< j)
      BY <1>0, <1>5, <2>4
    <3> QED
      BY <1>0, <2>2, <3>1
  <2>6. cut \in Buffer(Size)
    <3>1. end \in 0 .. Size
      BY <1>0, <1>5, <2>4
    <3> QED
      BY <1>0, <3>1 DEF Buffer
  <2>7. cut[end] = NUL /\ \A j \in start .. (end - 1) : cut[j] = p.s[j]
    BY <1>0, <1>5, <2>4
  <2> HIDE DEF cut
  <2>8. PICK e \in start .. Size :
            /\ cut[e] = NUL
            /\ \A j \in start .. (e - 1) : cut[j] \in Chars
            /\ CString(cut, start) = [k \in 1 .. (e - start) |-> cut[start + k - 1]]
    <3>1. \E e \in start .. Size :
              /\ cut[e] = NUL
              /\ \A j \in start .. (e - 1) : cut[j] \in Chars
              /\ CString(cut, start) = [k \in 1 .. (e - start) |-> cut[start + k - 1]]
              /\ CString(cut, start) \in Seq(Chars)
              /\ Len(CString(cut, start)) = e - start
      BY <1>0, <1>5, <2>6, CStringEnds
    <3> QED
      BY <3>1
  <2>9. e = end
    <3>1. ~(e < end)
      <4>1. e < end => e \in start .. (end - 1)
        BY <1>0, <1>5, <2>4
      <4> QED
        BY <2>5, <2>7, <2>8, <4>1
    <3>2. ~(end < e)
      <4>1. end < e => end \in start .. (e - 1)
        BY <1>0, <1>5, <2>4
      <4> QED
        BY <2>7, <2>8, <4>1, NulIsNoChar
    <3> QED
      BY <1>0, <1>5, <2>4, <3>1, <3>2
  <2>10. ASSUME NEW k \in 1 .. (end - start)
         PROVE  cut[start + k - 1] = p.s[start + k - 1]
    <3>1. start + k - 1 \in start .. (end - 1)
      BY <1>0, <1>5, <2>4
    <3> QED
      BY <2>7, <3>1
  <2>11. CString(cut, start) = [k \in 1 .. (end - start) |-> p.s[start + k - 1]]
    BY <2>8, <2>9, <2>10
  <2>12. strtok(p) = [p EXCEPT !.s = [p.s EXCEPT ![end] = NUL], !.last = next,
                               !.token = [k \in 1 .. (end - start) |-> p.s[start + k - 1]]]
    BY <1>4, <1>8, <2>11 DEF cut
  <2>13. \E z \in (start + 1) .. Size :
             /\ p.s[z] \in {Blank, NUL}
             /\ \A j \in start .. (z - 1) : p.s[j] \notin {Blank, NUL}
             /\ strtok(p) = [p EXCEPT
                   !.s = [p.s EXCEPT ![z] = NUL],
                   !.last = IF p.s[z] = Blank THEN z + 1 ELSE z,
                   !.token = [k \in 1 .. (z - start) |-> p.s[start + k - 1]]]
    BY <2>3, <2>4, <2>5, <2>12
  <2>14. Cuts(p, from)
    BY <1>5, <1>6, <1>8, <2>13 DEF Cuts
  <2> QED
    BY <2>14 DEF from
<1> QED
  BY <1>7, <1>8

-----------------------------------------------------------------------------
(* Words *)

(* The words of s that begin at m or in front of it have been found. *)
Found(s, a, m) ==
    /\ a \in Seq(Seq(Chars))
    /\ \E first \in [1 .. Len(a) -> Starts(s)] :
          /\ \A j, n \in 1 .. Len(a) : j < n => first[j] < first[n]
          /\ \A k \in Starts(s) : k =< m => \E n \in 1 .. Len(a) : first[n] = k
          /\ \A n \in 1 .. Len(a) : first[n] =< m
          /\ \A n \in 1 .. Len(a) : a[n] = Truncate(Word(s, first[n]), ArgSize)

LEMMA FoundMore ==
    ASSUME NEW s \in Seq(Char), NEW a, NEW m \in Nat, NEW o \in Nat, m =< o, Found(s, a, m),
           \A k \in Starts(s) : ~(m < k /\ k =< o)
    PROVE  Found(s, a, o)
<1>1. PICK first \in [1 .. Len(a) -> Starts(s)] :
          /\ \A j, n \in 1 .. Len(a) : j < n => first[j] < first[n]
          /\ \A k \in Starts(s) : k =< m => \E n \in 1 .. Len(a) : first[n] = k
          /\ \A n \in 1 .. Len(a) : first[n] =< m
          /\ \A n \in 1 .. Len(a) : a[n] = Truncate(Word(s, first[n]), ArgSize)
  BY DEF Found
<1>2. Starts(s) \subseteq Nat
  BY DEF Starts
<1>3. \A k \in Starts(s) : k =< o => k =< m
  BY <1>2
<1>4. \A n \in 1 .. Len(a) : first[n] =< o
  BY <1>1, <1>2
<1> QED
  BY <1>1, <1>3, <1>4 DEF Found

LEMMA FoundNext ==
    ASSUME NEW s \in Seq(Char), NEW a, NEW st \in Starts(s), Found(s, a, st - 1),
           Truncate(Word(s, st), ArgSize) \in Seq(Chars)
    PROVE  Found(s, Append(a, Truncate(Word(s, st), ArgSize)), st)
<1> DEFINE b == Append(a, Truncate(Word(s, st), ArgSize))
           l == Len(a)
<1>0. a \in Seq(Seq(Chars))
  BY DEF Found
<1>1. PICK first \in [1 .. l -> Starts(s)] :
          /\ \A j, n \in 1 .. l : j < n => first[j] < first[n]
          /\ \A k \in Starts(s) : k =< st - 1 => \E n \in 1 .. l : first[n] = k
          /\ \A n \in 1 .. l : first[n] =< st - 1
          /\ \A n \in 1 .. l : a[n] = Truncate(Word(s, first[n]), ArgSize)
  BY DEF Found
<1>2. Starts(s) \subseteq Nat
  BY DEF Starts
<1>3. /\ b \in Seq(Seq(Chars)) /\ l \in Nat /\ Len(b) = l + 1
      /\ b[l + 1] = Truncate(Word(s, st), ArgSize)
      /\ \A n \in 1 .. l : b[n] = a[n]
  BY <1>0
<1> HIDE DEF b, l
<1> DEFINE f == [n \in 1 .. (l + 1) |-> IF n = l + 1 THEN st ELSE first[n]]
<1>4. f \in [1 .. (l + 1) -> Starts(s)]
  BY <1>1, <1>3
<1>5. f[l + 1] = st /\ \A n \in 1 .. l : f[n] = first[n] /\ n \in 1 .. (l + 1) /\ n # l + 1
  BY <1>3
<1>6. \A n \in 1 .. (l + 1) : n \in 1 .. l \/ n = l + 1
  BY <1>3
<1>7. l + 1 \in 1 .. (l + 1)
  BY <1>3
<1> HIDE DEF f
<1>8. ASSUME NEW j \in 1 .. (l + 1), NEW n \in 1 .. (l + 1), j < n
      PROVE  f[j] < f[n]
  <2>1. j \in 1 .. l
    BY <1>3, <1>8
  <2>2. CASE n = l + 1
    <3>1. first[j] =< st - 1 /\ first[j] \in Nat /\ st \in Nat
      BY <1>1, <1>2, <2>1
    <3> QED
      BY <1>5, <2>1, <2>2, <3>1
  <2>3. CASE n # l + 1
    <3>1. n \in 1 .. l
      BY <1>6, <2>3
    <3> QED
      BY <1>1, <1>5, <1>8, <2>1, <3>1
  <2> QED
    BY <2>2, <2>3
<1>9. ASSUME NEW k \in Starts(s), k =< st
      PROVE  \E n \in 1 .. (l + 1) : f[n] = k
  <2>1. CASE k = st
    BY <1>5, <1>7, <2>1
  <2>2. CASE k # st
    <3>1. k =< st - 1
      BY <1>2, <1>9, <2>2
    <3> QED
      BY <1>1, <1>5, <3>1
  <2> QED
    BY <2>1, <2>2
<1>10. ASSUME NEW n \in 1 .. (l + 1)
       PROVE  f[n] =< st /\ b[n] = Truncate(Word(s, f[n]), ArgSize)
  <2>1. CASE n \in 1 .. l
    <3>1. f[n] = first[n] /\ first[n] =< st - 1 /\ first[n] \in Nat /\ st \in Nat
      BY <1>1, <1>2, <1>5, <2>1
    <3>2. f[n] =< st
      BY <3>1
    <3> QED
      BY <1>1, <1>3, <2>1, <3>1, <3>2
  <2>2. CASE n = l + 1
    BY <1>2, <1>3, <1>5, <2>2
  <2> QED
    BY <1>6, <2>1, <2>2
<1>11. Found(s, b, st)
  BY <1>3, <1>4, <1>8, <1>9, <1>10 DEF Found
<1> QED
  BY <1>11 DEF b

(* The word that begins somewhere, if its end is known. *)
LEMMA WordIs ==
    ASSUME NEW s \in Seq(Char), NEW st \in 1 .. Len(s), NEW e \in st .. Len(s),
           e = Len(s) \/ s[e + 1] = Blank,
           \A j \in (st + 1) .. e : s[j] # Blank
    PROVE  Word(s, st) = [k \in 1 .. (e - st + 1) |-> s[st + k - 1]]
<1> DEFINE E == {x \in st .. Len(s) : x = Len(s) \/ s[x + 1] = Blank}
<1>1. E \in SUBSET Nat /\ e \in E
  OBVIOUS
<1>2. Min(E) \in E /\ \A y \in E : Min(E) =< y
  <2> HIDE DEF E
  <2> QED
    BY <1>1, MinIsMember
<1>3. Min(E) = e
  <2> DEFINE x == Min(E)
  <2> HIDE DEF x
  <2>1. x \in st .. Len(s) /\ (x = Len(s) \/ s[x + 1] = Blank) /\ x =< e
    BY <1>1, <1>2 DEF x
  <2>2. ~(x < e)
    <3>1. x < e => x + 1 \in (st + 1) .. e /\ x # Len(s)
      BY <2>1
    <3> QED
      BY <2>1, <3>1
  <2> QED
    BY <2>1, <2>2 DEF x
<1>4. Word(s, st) = SubSeq(s, st, e)
  BY <1>3 DEF Word
<1>5. SubSeq(s, st, e) = [k \in 1 .. (e - st + 1) |-> s[st + k - 1]]
  OBVIOUS
<1> QED
  BY <1>4, <1>5

(* What strtok() has not read of s yet is as it was copied. *)
Unread(s, b, m) ==
    /\ m \in 0 .. Len(s)
    /\ \A j \in m .. (Len(s) - 1) : b[j] = s[j + 1]
    /\ b[Len(s)] = NUL
    /\ m = 0 \/ m = Len(s) \/ s[m] = Blank

(* Between two calls of strtok(), on a copy of s: the words in front of    *)
(* the token are arguments, and it is the next one.                        *)
ParseInv(s, p) ==
    IF p.token = NoToken THEN p.last = NULL /\ Found(s, p.args, Len(s))
    ELSE \E st \in Starts(s) :
            /\ p.token = Word(s, st) /\ Found(s, p.args, st - 1)
            /\ p.last \in st .. Len(s) /\ Unread(s, p.s, p.last)
            /\ \A k \in Starts(s) : ~(st < k /\ k =< p.last)

LEMMA StrtokFinds ==
    ASSUME NEW s \in Seq(Char), Len(s) < Size, NEW p \in Parsing,
           Unread(s, p.s, From(p)), Found(s, p.args, From(p))
    PROVE  ParseInv(s, strtok(p))
<1> DEFINE from == From(p)
           l == Len(s)
           b == p.s
<1>0. /\ l \in Nat /\ l \in 0 .. Size /\ from \in 0 .. l /\ Size \in Nat
      /\ \A j \in from .. (l - 1) : b[j] = s[j + 1] /\ s[j + 1] \in Char /\ b[j] # NUL
      /\ b[l] = NUL /\ NUL # Blank
      /\ from = 0 \/ from = l \/ s[from] = Blank
  <2>1. l \in Nat /\ l \in 0 .. Size /\ Size \in Nat
    BY SizeIsPositive
  <2>2. from \in 0 .. l /\ b[l] = NUL /\ (from = 0 \/ from = l \/ s[from] = Blank)
    BY DEF Unread
  <2>3. ASSUME NEW j \in from .. (l - 1)
        PROVE  b[j] = s[j + 1] /\ s[j + 1] \in Char /\ b[j] # NUL
    <3>1. b[j] = s[j + 1]
      BY DEF Unread
    <3>2. j + 1 \in 1 .. Len(s)
      BY <2>1, <2>2
    <3>3. s[j + 1] \in Char
      BY <3>2
    <3> QED
      BY <3>1, <3>3, NulIsNoChar
  <2>4. NUL # Blank
    BY DEF NUL, Blank
  <2> QED
    BY <2>1, <2>2, <2>3, <2>4
<1>00. Starts(s) = {k \in 1 .. l : s[k] # Blank /\ (k = 1 \/ s[k - 1] = Blank)}
  BY DEF Starts
<1>1. PICK start \in from .. Size :
          /\ \A j \in from .. (start - 1) : b[j] = Blank
          /\ b[start] # Blank
          /\ \/ b[start] = NUL /\ strtok(p) = [p EXCEPT !.last = NULL, !.token = NoToken]
             \/ /\ b[start] # NUL
                /\ \E end \in (start + 1) .. Size :
                      /\ b[end] \in {Blank, NUL}
                      /\ \A j \in start .. (end - 1) : b[j] \notin {Blank, NUL}
                      /\ strtok(p) = [p EXCEPT
                            !.s = [b EXCEPT ![end] = NUL],
                            !.last = IF b[end] = Blank THEN end + 1 ELSE end,
                            !.token = [k \in 1 .. (end - start) |-> b[start + k - 1]]]
  BY StrtokCuts DEF Cuts
<1>2. b \in [0 .. Size -> Chars \cup {NUL}]
  BY DEF Parsing, Buffer
<1> HIDE DEF l, b, from
<1>3. start \in from .. l
  <2>1. ~(l < start)
    <3>1. l < start => l \in from .. (start - 1)
      BY <1>0
    <3> QED
      BY <1>0, <1>1, <3>1
  <2> QED
    BY <1>0, <2>1
<1>4. ASSUME NEW k \in Starts(s), from < k, k =< start
      PROVE  FALSE
  <2>1. k \in 1 .. l /\ s[k] # Blank
    BY <1>00
  <2>2. k - 1 \in from .. (start - 1) /\ k - 1 \in from .. (l - 1) /\ (k - 1) + 1 = k
    BY <1>0, <1>3, <1>4, <2>1
  <2> QED
    BY <1>0, <1>1, <2>1, <2>2
<1>5. Found(s, p.args, start)
  <2>1. from \in Nat /\ start \in Nat /\ from =< start
    BY <1>0, <1>3
  <2>2. \A k \in Starts(s) : ~(from < k /\ k =< start)
    BY <1>4
  <2> QED
    BY <2>1, <2>2, FoundMore DEF from
<1>6. CASE b[start] = NUL
  <2>1. strtok(p) = [p EXCEPT !.last = NULL, !.token = NoToken]
    BY <1>1, <1>6
  <2>2. start = l
    <3>1. start # l => start \in from .. (l - 1)
      BY <1>0, <1>3
    <3> QED
      BY <1>0, <1>6, <3>1
  <2>3. strtok(p).token = NoToken /\ strtok(p).last = NULL /\ strtok(p).args = p.args
    BY <2>1 DEF Parsing
  <2> QED
    BY <1>5, <2>2, <2>3 DEF ParseInv, l
<1>7. CASE b[start] # NUL
  <2>1. PICK end \in (start + 1) .. Size :
            /\ b[end] \in {Blank, NUL}
            /\ \A j \in start .. (end - 1) : b[j] \notin {Blank, NUL}
            /\ strtok(p) = [p EXCEPT
                  !.s = [b EXCEPT ![end] = NUL],
                  !.last = IF b[end] = Blank THEN end + 1 ELSE end,
                  !.token = [k \in 1 .. (end - start) |-> b[start + k - 1]]]
    BY <1>1, <1>7
  <2> DEFINE q == strtok(p)
             st == start + 1
             next == IF b[end] = Blank THEN end + 1 ELSE end
  <2>2. /\ q.s = [b EXCEPT ![end] = NUL] /\ q.last = next /\ q.args = p.args
        /\ q.token = [k \in 1 .. (end - start) |-> b[start + k - 1]]
    BY <2>1 DEF Parsing
  <2> HIDE DEF q
  <2>3. start # l /\ start \in from .. (l - 1) /\ start \in Nat
    BY <1>0, <1>3, <1>7
  <2>4. end \in (start + 1) .. l
    <3>1. ~(l < end)
      <4>1. l < end => l \in start .. (end - 1)
        BY <1>0, <2>3
      <4> QED
        BY <1>0, <2>1, <4>1
    <3> QED
      BY <1>0, <2>3, <3>1
  <2>5. end # l => s[end + 1] = Blank /\ b[end] = Blank
    <3>1. end # l => end \in from .. (l - 1)
      BY <1>0, <2>3, <2>4
    <3> QED
      BY <1>0, <2>1, <3>1
  <2>6. ASSUME NEW j \in (start + 1) .. end
        PROVE  s[j] # Blank /\ j - 1 \in from .. (l - 1) /\ s[j] = b[j - 1]
    <3>1. j - 1 \in from .. (l - 1) /\ j - 1 \in start .. (end - 1) /\ (j - 1) + 1 = j
      BY <1>0, <2>3, <2>4
    <3> QED
      BY <1>0, <2>1, <3>1
  <2>7. st \in 1 .. l /\ st \in Nat /\ st =< end
    BY <1>0, <2>3, <2>4
  <2>8. st \in Starts(s)
    <3>1. s[st] # Blank
      <4>1. st \in (start + 1) .. end
        BY <2>4
      <4> QED
        BY <2>6, <4>1
    <3>2. st = 1 \/ s[st - 1] = Blank
      <4>1. st - 1 = start
        BY <2>3
      <4>2. CASE start = from
        <5>1. from = 0 \/ s[from] = Blank
          BY <1>0, <2>3, <4>2
        <5> QED
          BY <4>1, <4>2, <5>1
      <4>3. CASE start # from
        <5>1. start - 1 \in from .. (start - 1) /\ start - 1 \in from .. (l - 1) /\ (start - 1) + 1 = start
          BY <1>0, <2>3, <4>3
        <5> QED
          BY <1>0, <1>1, <4>1, <5>1
      <4> QED
        BY <4>2, <4>3
    <3> QED
      BY <1>00, <2>7, <3>1, <3>2
  <2>9. q.token = Word(s, st)
    <3>1. Word(s, st) = [k \in 1 .. (end - st + 1) |-> s[st + k - 1]]
      <4>1. end \in st .. l
        BY <1>0, <2>4
      <4>2. end = l \/ s[end + 1] = Blank
        BY <2>5
      <4>3. \A j \in (st + 1) .. end : s[j] # Blank
        BY <2>4, <2>6, <2>7
      <4> HIDE DEF st
      <4> QED
        BY <2>7, <4>1, <4>2, <4>3, WordIs DEF l
    <3>2. end - st + 1 = end - start
      BY <2>3, <2>4
    <3>3. ASSUME NEW k \in 1 .. (end - start)
          PROVE  s[st + k - 1] = b[start + k - 1]
      <4>1. start + k \in (start + 1) .. end /\ st + k - 1 = start + k
        BY <2>3, <2>4
      <4>2. s[start + k] = b[start + k - 1]
        BY <2>6, <4>1
      <4> QED
        BY <4>1, <4>2
    <3> HIDE DEF st
    <3> QED
      BY <2>2, <3>1, <3>2, <3>3
  <2>10. q.token # NoToken
    <3>1. 1 \in 1 .. (end - start)
      BY <2>3, <2>4
    <3>2. DOMAIN q.token = 1 .. (end - start)
      BY <2>2
    <3>3. DOMAIN NoToken = {}
      BY DEF NoToken
    <3> QED
      BY <3>1, <3>2, <3>3
  <2>11. next \in st .. l /\ (end # l => next = end + 1) /\ (end = l => next = l)
    <3>1. CASE end = l
      BY <1>0, <2>3, <2>4, <3>1
    <3>2. CASE end # l
      BY <1>0, <2>3, <2>4, <2>5, <3>2
    <3> QED
      BY <3>1, <3>2
  <2>12. Unread(s, q.s, next)
    <3>1. ASSUME NEW j \in next .. (l - 1)
          PROVE  q.s[j] = s[j + 1]
      <4>1. j \in from .. (l - 1) /\ j # end /\ j \in 0 .. Size
        BY <1>0, <2>3, <2>4, <2>11
      <4> QED
        BY <1>0, <1>2, <2>2, <4>1
    <3>2. q.s[l] = NUL
      BY <1>0, <1>2, <2>2
    <3>3. next = 0 \/ next = l \/ s[next] = Blank
      BY <2>5, <2>11
    <3>4. next \in 0 .. l
      BY <2>7, <2>11
    <3> HIDE DEF next
    <3> QED
      BY <3>1, <3>2, <3>3, <3>4 DEF Unread, l
  <2>13. ASSUME NEW k \in Starts(s), st < k, k =< next
         PROVE  FALSE
    <3>1. k \in 1 .. l /\ s[k] # Blank /\ k # 1 /\ s[k - 1] = Blank
      BY <1>00, <2>7, <2>13
    <3>2. CASE k =< end
      <4>1. k - 1 \in (start + 1) .. end
        BY <2>3, <2>4, <2>13, <3>1, <3>2
      <4> QED
        BY <2>6, <3>1, <4>1
    <3>3. CASE ~(k =< end)
      <4>1. k = end + 1 /\ end # l
        BY <1>0, <2>4, <2>11, <2>13, <3>1, <3>3
      <4> QED
        BY <2>5, <3>1, <4>1
    <3> QED
      BY <3>2, <3>3
  <2>14. Found(s, q.args, st - 1)
    <3>1. st - 1 = start
      BY <2>3
    <3> QED
      BY <1>5, <2>2, <3>1
  <2> HIDE DEF st, next
  <2>15. ParseInv(s, q)
    BY <2>2, <2>8, <2>9, <2>10, <2>11, <2>12, <2>13, <2>14 DEF ParseInv, l
  <2> QED
    BY <2>15 DEF q
<1> QED
  BY <1>6, <1>7

LEMMA StrtokEnds ==
    ASSUME NEW p \in Parsing
    PROVE  strtok(p).token = NoToken => strtok(p).last = NULL
<1> DEFINE b == p.s
           from == From(p)
<1>0. from \in Nat /\ Size \in Nat
  BY SizeIsPositive DEF From, Parsing
<1>1. PICK start \in from .. Size :
          /\ \A j \in from .. (start - 1) : b[j] = Blank
          /\ b[start] # Blank
          /\ \/ b[start] = NUL /\ strtok(p) = [p EXCEPT !.last = NULL, !.token = NoToken]
             \/ /\ b[start] # NUL
                /\ \E end \in (start + 1) .. Size :
                      /\ b[end] \in {Blank, NUL}
                      /\ \A j \in start .. (end - 1) : b[j] \notin {Blank, NUL}
                      /\ strtok(p) = [p EXCEPT
                            !.s = [b EXCEPT ![end] = NUL],
                            !.last = IF b[end] = Blank THEN end + 1 ELSE end,
                            !.token = [k \in 1 .. (end - start) |-> b[start + k - 1]]]
  BY StrtokCuts DEF Cuts
<1> HIDE DEF from
<1>2. CASE strtok(p) = [p EXCEPT !.last = NULL, !.token = NoToken]
  BY <1>2 DEF Parsing
<1>3. CASE \E end \in (start + 1) .. Size :
              strtok(p) = [p EXCEPT
                  !.s = [b EXCEPT ![end] = NUL],
                  !.last = IF b[end] = Blank THEN end + 1 ELSE end,
                  !.token = [k \in 1 .. (end - start) |-> b[start + k - 1]]]
  <2>1. PICK end \in (start + 1) .. Size :
            strtok(p) = [p EXCEPT
                !.s = [b EXCEPT ![end] = NUL],
                !.last = IF b[end] = Blank THEN end + 1 ELSE end,
                !.token = [k \in 1 .. (end - start) |-> b[start + k - 1]]]
    BY <1>3
  <2>2. strtok(p).token = [k \in 1 .. (end - start) |-> b[start + k - 1]]
    BY <2>1 DEF Parsing
  <2>3. 1 \in 1 .. (end - start)
    BY <1>0
  <2>4. DOMAIN NoToken = {}
    BY DEF NoToken
  <2>5. DOMAIN strtok(p).token = 1 .. (end - start)
    BY <2>2
  <2> QED
    BY <2>3, <2>4, <2>5
<1>4. \/ strtok(p) = [p EXCEPT !.last = NULL, !.token = NoToken]
      \/ \E end \in (start + 1) .. Size :
            strtok(p) = [p EXCEPT
                !.s = [b EXCEPT ![end] = NUL],
                !.last = IF b[end] = Blank THEN end + 1 ELSE end,
                !.token = [k \in 1 .. (end - start) |-> b[start + k - 1]]]
  BY <1>1, Zenon
<1> QED
  BY <1>2, <1>3, <1>4

LEMMA StepTyped ==
    ASSUME NEW p \in Parsing
    PROVE  LET q == [p EXCEPT !.args = Append(@, Truncate(p.token, ArgSize))]
           IN  /\ q \in Parsing /\ q.s = p.s /\ q.last = p.last
               /\ q.args = Append(p.args, Truncate(p.token, ArgSize))
               /\ Truncate(p.token, ArgSize) \in Seq(Chars)
<1> DEFINE q == [p EXCEPT !.args = Append(@, Truncate(p.token, ArgSize))]
<1>1. Truncate(p.token, ArgSize) \in Seq(Chars)
  BY TruncateTyped DEF Parsing
<1>2. Append(p.args, Truncate(p.token, ArgSize)) \in Seq(Seq(Chars))
  BY <1>1 DEF Parsing
<1>3. q \in Parsing
  BY <1>2 DEF Parsing
<1>4. q.s = p.s /\ q.last = p.last /\ q.args = Append(p.args, Truncate(p.token, ArgSize))
  BY DEF Parsing
<1> QED
  BY <1>1, <1>3, <1>4

(* strtok() is back at the start when enki_parse_cmd() got all of the      *)
(* words.                                                                  *)
LEMMA ParseEnds ==
    ASSUME NEW cmd \in Seq(Chars), Len(cmd) < Size, NEW room \in Nat,
           scmd \in Buffer(Size), last \in {NULL} \cup 0 .. Size
    PROVE  enki_parse_cmd(cmd, room).token = NoToken => enki_parse_cmd(cmd, room).last = NULL
<1> DEFINE Ends(p) == p.token = NoToken => p.last = NULL
<1>1. PICK w \in [0 .. room -> Parsing] :
          /\ w[0] = strtok(Copied(cmd)) /\ enki_parse_cmd(cmd, room) = w[room]
          /\ \A n \in 1 .. room : w[n] = ParseStep(w[n - 1])
  BY ParseSteps
<1>2. Ends(w[0])
  BY <1>1, CopiedTyped, StrtokEnds
<1>3. ASSUME NEW n \in 1 .. room, Ends(w[n - 1])
      PROVE  Ends(w[n])
  <2> DEFINE p == w[n - 1]
             q == [p EXCEPT !.args = Append(@, Truncate(p.token, ArgSize))]
  <2>1. p \in Parsing
    <3>1. n - 1 \in 0 .. room
      OBVIOUS
    <3> QED
      BY <1>1, <3>1
  <2>2. w[n] = IF p.token = NoToken THEN p ELSE strtok(q)
    BY <1>1 DEF ParseStep
  <2> HIDE DEF p
  <2>3. q \in Parsing
    BY <2>1, StepTyped
  <2> HIDE DEF q
  <2>4. Ends(strtok(q))
    BY <2>3, StrtokEnds
  <2> QED
    BY <1>3, <2>2, <2>4 DEF p
<1> HIDE DEF Ends
<1> DEFINE B == {n \in 0 .. room : ~Ends(w[n])}
<1>4. ASSUME B # {}
      PROVE  FALSE
  <2>1. B \in SUBSET Nat
    OBVIOUS
  <2>2. PICK n \in B : \A y \in B : n =< y
    BY <1>4, <2>1, LeastNumber
  <2>3. n \in 0 .. room /\ ~Ends(w[n])
    BY <2>2
  <2>4. n # 0
    BY <1>2, <2>3
  <2>5. n \in 1 .. room /\ n - 1 \in 0 .. room /\ ~(n =< n - 1)
    BY <2>3, <2>4
  <2>6. Ends(w[n - 1])
    BY <2>2, <2>5
  <2> QED
    BY <1>3, <2>3, <2>5, <2>6
<1>5. room \in 0 .. room
  OBVIOUS
<1>6. Ends(enki_parse_cmd(cmd, room))
  BY <1>1, <1>4, <1>5
<1> QED
  BY <1>6 DEF Ends

LEMMA ParseStepFinds ==
    ASSUME NEW s \in Seq(Char), Len(s) < Size, NEW p \in Parsing, ParseInv(s, p)
    PROVE  ParseInv(s, ParseStep(p))
<1> DEFINE q == [p EXCEPT !.args = Append(@, Truncate(p.token, ArgSize))]
<1>1. CASE p.token = NoToken
  <2>1. ParseStep(p) = p
    BY <1>1 DEF ParseStep
  <2> QED
    BY <2>1
<1>2. CASE p.token # NoToken
  <2>1. ParseStep(p) = strtok(q)
    BY <1>2 DEF ParseStep
  <2>2. /\ q \in Parsing /\ q.s = p.s /\ q.last = p.last
        /\ q.args = Append(p.args, Truncate(p.token, ArgSize))
        /\ Truncate(p.token, ArgSize) \in Seq(Chars)
    BY StepTyped
  <2> HIDE DEF q
  <2>3. PICK st \in Starts(s) :
            /\ p.token = Word(s, st) /\ Found(s, p.args, st - 1)
            /\ p.last \in st .. Len(s) /\ Unread(s, p.s, p.last)
            /\ \A k \in Starts(s) : ~(st < k /\ k =< p.last)
    BY <1>2 DEF ParseInv
  <2>4. Found(s, q.args, st)
    <3>1. Truncate(Word(s, st), ArgSize) \in Seq(Chars)
      BY <2>2, <2>3
    <3>2. Found(s, Append(p.args, Truncate(Word(s, st), ArgSize)), st)
      BY <2>3, <3>1, FoundNext
    <3> QED
      BY <2>2, <2>3, <3>2
  <2>5. st \in Nat /\ p.last \in Nat /\ st =< p.last
    <3>1. st \in Nat
      BY DEF Starts
    <3> QED
      BY <2>3, <3>1
  <2>6. Found(s, q.args, p.last)
    BY <2>3, <2>4, <2>5, FoundMore
  <2>7. From(q) = p.last
    BY <2>2, <2>5 DEF From, NULL
  <2>8. ParseInv(s, strtok(q))
    BY <2>2, <2>3, <2>6, <2>7, StrtokFinds
  <2> QED
    BY <2>1, <2>8
<1> QED
  BY <1>1, <1>2

(* Begun at the start of a line, enki_parse_cmd() finds its words. *)
LEMMA ParseFinds ==
    ASSUME NEW s \in Seq(Char), Len(s) < Size, NEW room \in Nat,
           scmd \in Buffer(Size), last = NULL
    PROVE  ParseInv(s, enki_parse_cmd(s, room))
<1>0. s \in Seq(Chars) /\ last \in {NULL} \cup 0 .. Size
  <2>1. Char \subseteq Chars
    BY DEF Chars
  <2> QED
    BY <2>1
<1>1. PICK w \in [0 .. room -> Parsing] :
          /\ w[0] = strtok(Copied(s)) /\ enki_parse_cmd(s, room) = w[room]
          /\ \A n \in 1 .. room : w[n] = ParseStep(w[n - 1])
  BY <1>0, ParseSteps
<1>2. ParseInv(s, w[0])
  <2> DEFINE c == Copied(s)
  <2>1. c \in Parsing
    BY <1>0, CopiedTyped
  <2>2. c.s = strncpy(scmd, s) /\ c.last = NULL /\ c.args = <<>>
    BY DEF Copied
  <2> HIDE DEF c
  <2>3. From(c) = 0
    BY <2>2 DEF From
  <2>4. Unread(s, c.s, 0)
    <3>1. DOMAIN scmd = 0 .. Size /\ Size \in Nat /\ Len(s) \in Nat
      BY SizeIsPositive DEF Buffer
    <3>2. ASSUME NEW j \in 0 .. (Len(s) - 1)
          PROVE  c.s[j] = s[j + 1]
      <4>1. j \in 0 .. Size /\ j < Len(s)
        BY <3>1
      <4> QED
        BY <2>2, <3>1, <4>1 DEF strncpy
    <3>3. c.s[Len(s)] = NUL
      <4>1. Len(s) \in 0 .. Size /\ ~(Len(s) < Len(s))
        BY <3>1
      <4> QED
        BY <2>2, <3>1, <4>1 DEF strncpy
    <3> QED
      BY <3>1, <3>2, <3>3 DEF Unread
  <2>5. Found(s, c.args, 0)
    <3>1. Len(<<>>) = 0 /\ 1 .. 0 = {} /\ <<>> \in Seq(Seq(Chars))
      OBVIOUS
    <3>2. Starts(s) \subseteq 1 .. Len(s) /\ Len(s) \in Nat
      BY DEF Starts
    <3>3. \A k \in Starts(s) : ~(k =< 0)
      BY <3>2
    <3>4. <<>> \in [1 .. 0 -> Starts(s)]
      BY <3>1
    <3> QED
      BY <2>2, <3>1, <3>3, <3>4 DEF Found
  <2>6. ParseInv(s, strtok(c))
    BY <2>1, <2>3, <2>4, <2>5, StrtokFinds
  <2> QED
    BY <1>1, <2>6 DEF c
<1> DEFINE B == {n \in 0 .. room : ~ParseInv(s, w[n])}
<1>3. ASSUME B # {}
      PROVE  FALSE
  <2>1. B \in SUBSET Nat
    OBVIOUS
  <2>2. PICK n \in B : \A y \in B : n =< y
    BY <1>3, <2>1, LeastNumber
  <2>3. n \in 0 .. room /\ ~ParseInv(s, w[n])
    BY <2>2
  <2>4. n # 0
    BY <1>2, <2>3
  <2>5. n \in 1 .. room /\ n - 1 \in 0 .. room /\ ~(n =< n - 1)
    BY <2>3, <2>4
  <2>6. ParseInv(s, w[n - 1]) /\ w[n - 1] \in Parsing
    BY <1>1, <2>2, <2>5
  <2> QED
    BY <1>1, <2>3, <2>5, <2>6, ParseStepFinds
<1>4. room \in 0 .. room
  OBVIOUS
<1> QED
  BY <1>1, <1>3, <1>4

-----------------------------------------------------------------------------
(* The shell *)

(* The line that the user means is what the buffer holds. *)
LineInv ==
    "line" \notin mess => i = Len(typed) /\ \A k \in 0 .. (i - 1) : buf[k] = typed[k + 1]

IInv ==
    /\ buf \in Buffer(Size - 1)
    /\ i \in 0 .. (Size - 1)
    /\ tty \in Terminal
    /\ scmd \in Buffer(Size)
    /\ last \in {NULL} \cup 0 .. Size
    /\ typed \in Seq(Char)
    /\ LineInv

LEMMA PromptIsOutput == Prompt \in Seq(Output) /\ <<NL>> \in Seq(Output)
  BY DEF Prompt, Output

LEMMA BannerIsOutput ==
    Banner \in Seq(Output) /\ Banner \o Prompt \in Seq(Output)
<1>1. Banner \in Seq(Output)
  BY ShellAssumption DEF Output
<1> QED
  BY <1>1, PromptIsOutput

LEMMA InitIsGood == Init => IInv
<1> SUFFICES ASSUME Init
             PROVE  IInv
  OBVIOUS
<1>1. buf \in Buffer(Size - 1) /\ i \in 0 .. (Size - 1) /\ scmd \in Buffer(Size)
  BY SizeIsPositive DEF Init, Buffer
<1>2. tty \in Terminal
  BY InitTyped, BannerIsOutput, WritestrTyped DEF Init
<1>3. last \in {NULL} \cup 0 .. Size /\ typed \in Seq(Char)
  BY DEF Init
<1>4. LineInv
  BY DEF Init, LineInv
<1> QED
  BY <1>1, <1>2, <1>3, <1>4 DEF IInv

(* The buffer with one character changed in front of its last one. *)
LEMMA StoreTyped ==
    ASSUME NEW n \in Nat, NEW b \in Buffer(n), NEW k \in 0 .. n, NEW c \in Chars \cup {NUL},
           k = n => c = NUL
    PROVE  [b EXCEPT ![k] = c] \in Buffer(n)
  BY DEF Buffer

LEMMA KeyIsGood ==
    ASSUME IInv, NEW c \in Char, Key(c)
    PROVE  IInv'
<1>0. /\ buf \in Buffer(Size - 1) /\ i \in 0 .. (Size - 1) /\ i < Size - 1 /\ typed \in Seq(Char)
      /\ buf' = [buf EXCEPT ![i] = c] /\ i' = i + 1 /\ typed' = Append(typed, c) /\ mess' = mess
      /\ UNCHANGED <<scmd, last>> /\ tty' = tty_writechar(tty, c)
      /\ DOMAIN buf = 0 .. (Size - 1)
  BY DEF IInv, Key, Typing, Reading, Buffer
<1>1. buf' \in Buffer(Size - 1)
  <2>1. i # Size - 1 /\ c \in Chars \cup {NUL}
    BY <1>0, SizeIsPositive DEF Chars
  <2> QED
    BY <1>0, <2>1, SizeIsPositive, StoreTyped
<1>2. i' \in 0 .. (Size - 1) /\ typed' \in Seq(Char)
  BY <1>0, SizeIsPositive
<1>3. tty' \in Terminal
  BY <1>0, WritecharTyped DEF IInv, Output
<1>4. LineInv'
  <2> SUFFICES ASSUME "line" \notin mess
               PROVE  i' = Len(typed') /\ \A k \in 0 .. (i' - 1) : buf'[k] = typed'[k + 1]
    BY <1>0 DEF LineInv
  <2>1. i = Len(typed) /\ \A k \in 0 .. (i - 1) : buf[k] = typed[k + 1]
    BY DEF IInv, LineInv
  <2>2. ASSUME NEW k \in 0 .. i
        PROVE  buf'[k] = typed'[k + 1]
    <3>1. CASE k = i
      BY <1>0, <2>1, <3>1
    <3>2. CASE k # i
      <4>1. k \in 0 .. (i - 1) /\ k + 1 \in 1 .. Len(typed) /\ k \in 0 .. (Size - 1)
        BY <1>0, <2>1, <3>2, SizeIsPositive
      <4>2. typed'[k + 1] = typed[k + 1]
        BY <1>0, <4>1
      <4>3. buf'[k] = buf[k]
        BY <1>0, <3>2, <4>1
      <4> QED
        BY <2>1, <4>1, <4>2, <4>3
    <3> QED
      BY <3>1, <3>2
  <2>3. i' - 1 = i /\ i' = Len(typed')
    BY <1>0, <2>1
  <2> QED
    BY <2>2, <2>3
<1> QED
  BY <1>0, <1>1, <1>2, <1>3, <1>4 DEF IInv

LEMMA BackspaceIsGood ==
    ASSUME IInv, Backspace
    PROVE  IInv'
<1>0. /\ buf \in Buffer(Size - 1) /\ i \in 1 .. (Size - 1) /\ i - 1 \in 0 .. (Size - 1)
      /\ typed \in Seq(Char)
      /\ buf' = [buf EXCEPT ![i - 1] = NUL] /\ i' = i - 1
      /\ typed' = IF typed = <<>> THEN typed ELSE Front(typed)
      /\ "line" \in mess' <=> "line" \in mess
      /\ UNCHANGED <<scmd, last>> /\ tty' = tty_writechar(tty, BS)
      /\ DOMAIN buf = 0 .. (Size - 1)
  <2>1. "line" # "screen"
    OBVIOUS
  <2>2. i \in 1 .. (Size - 1) /\ i - 1 \in 0 .. (Size - 1)
    BY SizeIsPositive DEF IInv, Backspace
  <2>3. "line" \in mess' <=> "line" \in mess
    BY <2>1 DEF Backspace
  <2> QED
    BY <2>2, <2>3 DEF IInv, Backspace, Buffer
<1>1. buf' \in Buffer(Size - 1)
  BY <1>0, SizeIsPositive, StoreTyped
<1>2. i' \in 0 .. (Size - 1)
  BY <1>0
<1>3. typed # <<>> => /\ Front(typed) \in Seq(Char) /\ Len(Front(typed)) = Len(typed) - 1
                      /\ \A k \in 1 .. (Len(typed) - 1) : Front(typed)[k] = typed[k]
  <2> SUFFICES ASSUME typed # <<>>
               PROVE  /\ Front(typed) \in Seq(Char) /\ Len(Front(typed)) = Len(typed) - 1
                      /\ \A k \in 1 .. (Len(typed) - 1) : Front(typed)[k] = typed[k]
    OBVIOUS
  <2>1. Len(typed) \in Nat \ {0} /\ Len(typed) - 1 \in 0 .. Len(typed)
    BY <1>0
  <2>2. Front(typed) = SubSeq(typed, 1, Len(typed) - 1)
    BY DEF Front
  <2> DEFINE n == Len(typed) - 1
  <2>3. n \in Nat /\ n =< Len(typed)
    BY <2>1
  <2> HIDE DEF n
  <2>4. SubSeq(typed, 1, n) \in Seq(Char)
    BY <1>0, <2>3
  <2>5. Len(SubSeq(typed, 1, n)) = n
    BY <1>0, <2>3
  <2>6. \A k \in 1 .. n : SubSeq(typed, 1, n)[k] = typed[k]
    BY <1>0, <2>3
  <2> QED
    BY <2>2, <2>4, <2>5, <2>6 DEF n
<1>4. typed' \in Seq(Char)
  BY <1>0, <1>3
<1>5. tty' \in Terminal
  BY <1>0, WritecharTyped DEF IInv, Output
<1>6. LineInv'
  <2> SUFFICES ASSUME "line" \notin mess
               PROVE  i' = Len(typed') /\ \A k \in 0 .. (i' - 1) : buf'[k] = typed'[k + 1]
    BY <1>0 DEF LineInv
  <2>1. i = Len(typed) /\ \A k \in 0 .. (i - 1) : buf[k] = typed[k + 1]
    BY DEF IInv, LineInv
  <2>2. typed # <<>>
    BY <1>0, <2>1
  <2>3. /\ typed' = Front(typed) /\ Len(typed') = i - 1
        /\ \A k \in 1 .. (i - 1) : typed'[k] = typed[k]
    BY <1>0, <1>3, <2>1, <2>2
  <2>4. ASSUME NEW k \in 0 .. (i - 1 - 1)
        PROVE  buf'[k] = typed'[k + 1]
    <3>1. k \in 0 .. (i - 1) /\ k # i - 1 /\ k + 1 \in 1 .. (i - 1) /\ k \in 0 .. (Size - 1)
      BY <1>0, SizeIsPositive
    <3>2. buf'[k] = buf[k]
      BY <1>0, <3>1
    <3> QED
      BY <2>1, <2>3, <3>1, <3>2
  <2> QED
    BY <1>0, <2>3, <2>4
<1> QED
  BY <1>0, <1>1, <1>2, <1>4, <1>5, <1>6 DEF IInv

LEMMA BackspaceOnEmptyLineIsGood ==
    ASSUME IInv, BackspaceOnEmptyLine
    PROVE  IInv'
<1>0. /\ buf \in Buffer(Size - 1) /\ 0 \in 0 .. (Size - 1) /\ 1 \in 0 .. (Size - 1)
      /\ buf' = [buf EXCEPT ![0] = BS] /\ i' = 1 /\ "line" \in mess'
      /\ UNCHANGED <<scmd, last, typed>> /\ tty' = tty_writechar(tty, BS)
  BY SizeIsPositive DEF IInv, BackspaceOnEmptyLine
<1>1. buf' \in Buffer(Size - 1)
  <2>1. 0 # Size - 1 /\ BS \in Chars \cup {NUL}
    BY SizeIsPositive DEF Chars
  <2> QED
    BY <1>0, <2>1, SizeIsPositive, StoreTyped
<1>2. tty' \in Terminal
  BY <1>0, WritecharTyped DEF IInv, Output
<1>3. LineInv'
  BY <1>0 DEF LineInv
<1> QED
  BY <1>0, <1>1, <1>2, <1>3 DEF IInv

(* The line that return, or a full buffer, ends. *)
LEMMA LineEnds ==
    ASSUME IInv
    PROVE  LET line == [buf EXCEPT ![i] = NUL]
           IN  /\ line \in Buffer(Size - 1)
               /\ CString(line, 0) \in Seq(Chars) /\ Len(CString(line, 0)) < Size
               /\ cmd_echo(line) \in Seq(Output)
<1> DEFINE line == [buf EXCEPT ![i] = NUL]
<1>1. line \in Buffer(Size - 1)
  BY SizeIsPositive, StoreTyped DEF IInv
<1> HIDE DEF line
<1>2. 0 \in 0 .. (Size - 1)
  BY SizeIsPositive
<1>3. CString(line, 0) \in Seq(Chars) /\ Len(CString(line, 0)) < Size
  <2>1. PICK end \in 0 .. (Size - 1) :
            CString(line, 0) \in Seq(Chars) /\ Len(CString(line, 0)) = end - 0
    BY <1>1, <1>2, SizeIsPositive, CStringEnds
  <2> QED
    BY <2>1, SizeIsPositive
<1>4. cmd_echo(line) \in Seq(Chars)
  BY <1>1, SizeIsPositive, CStringEnds DEF cmd_echo
<1>5. cmd_echo(line) \in Seq(Output)
  <2>1. Chars \subseteq Output
    BY DEF Chars, Output
  <2> QED
    BY <1>4, <2>1
<1> QED
  BY <1>1, <1>3, <1>5 DEF line

(* The string at an index of the line that return, or a full buffer, ends. *)
LEMMA LineAt ==
    ASSUME IInv, "line" \notin mess, NEW from \in 0 .. i
    PROVE  /\ i = Len(typed)
           /\ CString([buf EXCEPT ![i] = NUL], from) = SubSeq(typed, from + 1, Len(typed))
<1> DEFINE line == [buf EXCEPT ![i] = NUL]
<1>1. i = Len(typed) /\ \A k \in 0 .. (i - 1) : buf[k] = typed[k + 1]
  BY DEF IInv, LineInv
<1>2. line \in Buffer(Size - 1)
  BY LineEnds
<1>3. i \in 0 .. (Size - 1) /\ typed \in Seq(Char) /\ DOMAIN buf = 0 .. (Size - 1)
  BY DEF IInv, Buffer
<1>4. line[i] = NUL /\ \A k \in 0 .. (i - 1) : line[k] = typed[k + 1] /\ line[k] # NUL
  <2>1. line[i] = NUL
    BY <1>3
  <2>2. ASSUME NEW k \in 0 .. (i - 1)
        PROVE  line[k] = typed[k + 1] /\ line[k] # NUL
    <3>1. k \in 0 .. (Size - 1) /\ k # i /\ k + 1 \in 1 .. Len(typed)
      BY <1>1, <1>3, SizeIsPositive
    <3>2. line[k] = typed[k + 1]
      BY <1>1, <1>3, <3>1
    <3>3. typed[k + 1] \in Char
      BY <1>3, <3>1
    <3> QED
      BY <3>2, <3>3, NulIsNoChar
  <2> QED
    BY <2>1, <2>2
<1> HIDE DEF line
<1>5. PICK end \in from .. (Size - 1) :
          /\ line[end] = NUL /\ \A j \in from .. (end - 1) : line[j] \in Chars
          /\ CString(line, from) = [k \in 1 .. (end - from) |-> line[from + k - 1]]
  <2>1. from \in 0 .. (Size - 1)
    BY <1>3, SizeIsPositive
  <2>2. \E end \in from .. (Size - 1) :
            /\ line[end] = NUL
            /\ \A j \in from .. (end - 1) : line[j] \in Chars
            /\ CString(line, from) = [k \in 1 .. (end - from) |-> line[from + k - 1]]
            /\ CString(line, from) \in Seq(Chars)
            /\ Len(CString(line, from)) = end - from
    BY <1>2, <2>1, SizeIsPositive, CStringEnds
  <2> QED
    BY <2>2
<1>6. end = i
  <2>1. ~(end < i)
    <3>1. end < i => end \in 0 .. (i - 1)
      BY <1>3
    <3> QED
      BY <1>4, <1>5, <3>1
  <2>2. ~(i < end)
    <3>1. i < end => i \in from .. (end - 1)
      BY <1>3
    <3> QED
      BY <1>4, <1>5, <3>1, NulIsNoChar
  <2> QED
    BY <1>3, <2>1, <2>2
<1>7. ASSUME NEW k \in 1 .. (i - from)
      PROVE  line[from + k - 1] = typed[from + k]
  <2>1. from + k - 1 \in 0 .. (i - 1) /\ (from + k - 1) + 1 = from + k
    BY <1>3
  <2> QED
    BY <1>4, <2>1
<1>8. CString(line, from) = [k \in 1 .. (i - from) |-> typed[from + k]]
  BY <1>5, <1>6, <1>7
<1>9. SubSeq(typed, from + 1, Len(typed)) = [k \in 1 .. (Len(typed) - from) |-> typed[from + k]]
  <2>1. from \in 0 .. Len(typed)
    BY <1>1
  <2> QED
    BY <1>3, <2>1
<1> QED
  BY <1>1, <1>8, <1>9 DEF line

(* The line, with the prompt in front of it. *)
LEMMA LineIsWhole ==
    ASSUME IInv, "line" \notin mess
    PROVE  i = Len(typed) /\ CString([buf EXCEPT ![i] = NUL], 0) = typed
<1>1. 0 \in 0 .. i /\ typed \in Seq(Char)
  BY DEF IInv
<1>2. CString([buf EXCEPT ![i] = NUL], 0) = SubSeq(typed, 0 + 1, Len(typed)) /\ i = Len(typed)
  BY <1>1, LineAt
<1>3. SubSeq(typed, 0 + 1, Len(typed)) = typed
  BY <1>1
<1> QED
  BY <1>2, <1>3

(* The text behind "echo ". *)
LEMMA EchoIsRest ==
    ASSUME IInv, "line" \notin mess, IsEcho(typed), typed # Echo
    PROVE  cmd_echo([buf EXCEPT ![i] = NUL]) = SubSeq(typed, Len(Echo) + 2, Len(typed))
<1>1. typed \in Seq(Char) /\ i = Len(typed) /\ Echo \in Seq(Char) /\ Len(Echo) \in Nat
  BY LineIsWhole, ShellAssumption DEF IInv
<1>2. Len(Echo) =< Len(typed) /\ SubSeq(Echo, 1, Len(Echo)) = SubSeq(typed, 1, Len(Echo))
  BY DEF IsEcho, IsPrefix
<1>3. Len(Echo) # Len(typed)
  <2>1. SubSeq(Echo, 1, Len(Echo)) = Echo /\ SubSeq(typed, 1, Len(typed)) = typed
    BY <1>1
  <2> QED
    BY <1>2, <2>1
<1>4. Len(Echo) + 1 \in 0 .. i
  BY <1>1, <1>2, <1>3
<1>5. (Len(Echo) + 1) + 1 = Len(Echo) + 2
  BY <1>1
<1>6. CString([buf EXCEPT ![i] = NUL], Len(Echo) + 1)
         = SubSeq(typed, (Len(Echo) + 1) + 1, Len(typed))
  BY <1>4, LineAt
<1> QED
  BY <1>5, <1>6 DEF cmd_echo

LEMMA SubmitIsGood ==
    ASSUME IInv, Submit
    PROVE  IInv'
<1> DEFINE line == [buf EXCEPT ![i] = NUL]
<1>1. /\ line \in Buffer(Size - 1)
      /\ CString(line, 0) \in Seq(Chars) /\ Len(CString(line, 0)) < Size
      /\ cmd_echo(line) \in Seq(Output)
  BY LineEnds
<1>2. ASSUME i' = 0, typed' = <<>>, buf' = line, tty' \in Terminal,
             scmd' \in Buffer(Size), last' \in {NULL} \cup 0 .. Size
      PROVE  IInv'
  <2> HIDE DEF line
  <2>1. i' \in 0 .. (Size - 1) /\ typed' \in Seq(Char)
    BY <1>2, SizeIsPositive
  <2>2. LineInv'
    BY <1>2 DEF LineInv
  <2> QED
    BY <1>1, <1>2, <2>1, <2>2 DEF IInv
<1>3. CASE SubmitEcho
  <2>1. /\ tty' = tty_writestr(tty, <<NL>> \o cmd_echo(line) \o <<NL>> \o Prompt)
        /\ i' = 0 /\ typed' = <<>> /\ buf' = line /\ UNCHANGED <<scmd, last>>
    BY <1>3 DEF SubmitEcho, Submitted
  <2> HIDE DEF line
  <2>2. <<NL>> \o cmd_echo(line) \o <<NL>> \o Prompt \in Seq(Output)
    BY <1>1, PromptIsOutput
  <2>3. tty' \in Terminal
    BY <2>1, <2>2, WritestrTyped DEF IInv
  <2> QED
    BY <1>2, <2>1, <2>3 DEF IInv
<1>4. CASE \E room \in 0 .. (Size \div 2) : SubmitCommand(room)
  <2>1. PICK room \in 0 .. (Size \div 2) : SubmitCommand(room)
    BY <1>4
  <2> DEFINE p == enki_parse_cmd(CString(line, 0), room)
  <2>2. /\ tty' = tty_writestr(tty, <<NL>> \o Prompt)
        /\ i' = 0 /\ typed' = <<>> /\ buf' = line /\ scmd' = p.s /\ last' = p.last
    BY <2>1 DEF SubmitCommand, Submitted
  <2>3. p \in Parsing
    <3> HIDE DEF line
    <3>1. room \in Nat
      OBVIOUS
    <3> QED
      BY <1>1, <3>1, ParseTyped DEF IInv
  <2> HIDE DEF line, p
  <2>4. <<NL>> \o Prompt \in Seq(Output)
    BY PromptIsOutput
  <2>5. tty' \in Terminal
    BY <2>2, <2>4, WritestrTyped DEF IInv
  <2>6. p.s \in Buffer(Size) /\ p.last \in {NULL} \cup 0 .. Size
    BY <2>3 DEF Parsing
  <2> QED
    BY <1>2, <2>2, <2>5, <2>6
<1> QED
  BY <1>3, <1>4 DEF Submit

LEMMA UnchangedIsGood ==
    ASSUME IInv, UNCHANGED vars
    PROVE  IInv'
  BY DEF vars, IInv, LineInv

(* Whatever is typed, and however the command is cut into words, the line  *)
(* and the copy of it stay terminated, all indices inside them, and the    *)
(* line is what the user means.                                            *)
THEOREM ShellInductive == Spec => []IInv
<1>1. Init => IInv
  BY InitIsGood
<1>2. IInv /\ [Next]_vars => IInv'
  <2> SUFFICES ASSUME IInv, [Next]_vars
               PROVE  IInv'
    OBVIOUS
  <2>1. CASE \E c \in Char : Key(c)
    BY <2>1, KeyIsGood
  <2>2. CASE Backspace
    BY <2>2, BackspaceIsGood
  <2>3. CASE BackspaceOnEmptyLine
    BY <2>3, BackspaceOnEmptyLineIsGood
  <2>4. CASE Submit
    BY <2>4, SubmitIsGood
  <2>5. CASE Poll
    BY <2>5, UnchangedIsGood DEF Poll
  <2>6. CASE Ruined
    BY <2>6, UnchangedIsGood DEF Ruined
  <2>7. CASE UNCHANGED vars
    BY <2>7, UnchangedIsGood
  <2> QED
    BY <2>1, <2>2, <2>3, <2>4, <2>5, <2>6, <2>7 DEF Next
<1> QED
  BY <1>1, <1>2, PTL DEF Spec

(* The indices of readline() and strtok() stay inside their buffers, which *)
(* stay terminated, and the terminal's row and column keep their 16 bits.  *)
THEOREM TypeCorrect == Spec => []TypeOK
<1>1. IInv => TypeOK
  <2> SUFFICES ASSUME IInv
               PROVE  TypeOK
    OBVIOUS
  <2>1. Chars \cup {NUL} = Char \cup {NUL, BS}
    BY DEF Chars
  <2> QED
    BY <2>1 DEF IInv, TypeOK, Buffer, Terminal, Shown
<1> QED
  BY <1>1, ShellInductive, PTL

(* readline() holds what the user typed, deletions included, unless a      *)
(* backspace was typed on the empty line.                                  *)
THEOREM LineStaysTyped == Spec => []LineIsTyped
<1>1. IInv => LineIsTyped
  BY LineIsWhole DEF LineIsTyped
<1> QED
  BY <1>1, ShellInductive, PTL

-----------------------------------------------------------------------------
(* The screen *)

(* The screen shows the text as far as the kernel, as long as the user can *)
(* rely on it.                                                             *)
ScreenInv ==
    /\ shown \in Seq(Output)
    /\ "screen" \notin mess =>
          /\ "line" \notin mess
          /\ Stands(shown \o Expand(typed), tty)
          /\ Far(tty, 0)

LEMMA BoundsAreNumbers ==
    Size \in Nat /\ Len(Echo) \in Nat /\ Len(Banner) \in Nat
  BY ShellAssumption

LEMMA CharIsOutput ==
    /\ Char \subseteq Output
    /\ \A c \in Char : c # NL /\ c # BS /\ c \in Shown
    /\ \A s \in Seq(Char) : s \in Seq(Output)
<1>1. Char \subseteq Output
  BY DEF Output
<1>2. \A c \in Char : c # NL /\ c # BS /\ c \in Shown
  BY ShellAssumption DEF Shown
<1> QED
  BY <1>1, <1>2

(* Output without backspaces, and without tabs too. *)
Written == Output \ {BS}
Plain == Output \ {BS, TAB}

LEMMA WrittenStrings ==
    /\ \A s \in Seq(Plain) : s \in Seq(Written) /\ \A k \in 1 .. Len(s) : s[k] # TAB
    /\ \A s \in Seq(Written) : s \in Seq(Output) /\ \A k \in 1 .. Len(s) : s[k] # BS
    /\ \A s \in Seq(Char) : s \in Seq(Written)
<1>1. Plain \subseteq Written /\ Written \subseteq Output /\ Char \subseteq Written
  BY CharIsOutput DEF Plain, Written
<1>2. TAB \notin Plain /\ BS \notin Written
  BY DEF Plain, Written
<1>3. ASSUME NEW s \in Seq(Plain)
      PROVE  s \in Seq(Written) /\ \A k \in 1 .. Len(s) : s[k] # TAB
  BY <1>1, <1>2
<1>4. ASSUME NEW s \in Seq(Written)
      PROVE  s \in Seq(Output) /\ \A k \in 1 .. Len(s) : s[k] # BS
  BY <1>1, <1>2
<1>5. ASSUME NEW s \in Seq(Char)
      PROVE  s \in Seq(Written)
  BY <1>1
<1> QED
  BY <1>3, <1>4, <1>5

LEMMA PromptIsPlain ==
    Len(Prompt) = 2 /\ Prompt \in Seq(Plain) /\ <<NL>> \in Seq(Plain)
<1>1. ">" \in Plain /\ Blank \in Plain /\ NL \in Plain
  BY DEF Plain, Output, BS, TAB, Blank, NL
<1> QED
  BY <1>1 DEF Prompt

LEMMA ConcatLength ==
    ASSUME NEW S, NEW a \in Seq(S), NEW b \in Seq(S)
    PROVE  a \o b \in Seq(S) /\ Len(a \o b) = Len(a) + Len(b) /\ Len(a) \in Nat /\ Len(b) \in Nat
  OBVIOUS

LEMMA LastIsBlank ==
    ASSUME NEW a \in Seq(Output)
    PROVE  Len(a \o Prompt) = Len(a) + 2 /\ (a \o Prompt)[Len(a) + 2] # NL
<1> DEFINE x == Append(a, ">")
<1>1. ">" \in Output /\ Blank \in Output /\ Blank # NL
  BY DEF Output, Blank, NL
<1>2. a \o Prompt = Append(x, Blank)
  BY <1>1 DEF Prompt
<1>3. x \in Seq(Output) /\ Len(x) = Len(a) + 1 /\ Len(a) \in Nat
  BY <1>1
<1> HIDE DEF x
<1>4. Len(Append(x, Blank)) = Len(x) + 1 /\ Append(x, Blank)[Len(x) + 1] = Blank
  BY <1>1, <1>3
<1>5. Len(x) + 1 = Len(a) + 2
  BY <1>3
<1> QED
  BY <1>1, <1>2, <1>4, <1>5

LEMMA InitShows ==
    ASSUME Init
    PROVE  ScreenInv
<1> DEFINE s == Banner \o Prompt
<1>0. s \in Seq(Output) /\ <<>> \in Seq(Output) /\ tty_init \in Terminal
  BY BannerIsOutput, InitTyped
<1>1. Stands(<<>>, tty_init)
  <2>1. CellOf(<<>>)[1] = 0
    BY <1>0, CellFacts
  <2>2. Len(<<>>) + 1 = 1
    OBVIOUS
  <2>3. Cursor(tty_init) = 0 /\ tty_init.col < Width /\ ~tty_init.hit
    BY U16IsPositive DEF Cursor, tty_init
  <2>4. \A x : Here(<<>>, x) = {}
    BY DEF Here
  <2>5. Rendered(<<>>, CellOf(<<>>)) = [x \in Cell |-> Blank]
    BY <2>4, RenderedIs
  <2>6. tty_init.vga = [x \in Cell |-> Blank]
    BY DEF tty_init
  <2>7. Laid(<<>>, tty_init)
    BY <2>1, <2>2, <2>3, <2>5, <2>6 DEF Laid, End
  <2> QED
    BY <2>3, <2>7 DEF Stands
<1>2. Far(tty_init, 0)
  <2>1. Cursor(tty_init) = 0
    BY U16IsPositive DEF Cursor, tty_init
  <2> QED
    BY <2>1, MostIsNumber DEF Far
<1>3. Len(s) \in 1 .. Most /\ s[Len(s)] # NL
  <2>1. Len(s) = Len(Banner) + 2 /\ s[Len(Banner) + 2] # NL
    BY BannerIsOutput, LastIsBlank
  <2>2. Len(Banner) + 2 \in 1 .. Most
    BY BoundsAreNumbers DEF Most
  <2> HIDE DEF s
  <2> QED
    BY <2>1, <2>2
<1>4. \A k \in 1 .. Len(s) : s[k] # BS
  <2>1. Char \cup {NL} \subseteq Written
    BY CharIsOutput DEF Written, Output, NL, BS
  <2>2. Banner \in Seq(Written) /\ Prompt \in Seq(Written)
    BY <2>1, ShellAssumption, PromptIsPlain, WrittenStrings
  <2>3. s \in Seq(Written)
    BY <2>2
  <2> QED
    BY <2>3, WrittenStrings
<1>5. Stands(<<>> \o Expand(s), tty) /\ Far(tty, 0)
  <2>1. tty = tty_writestr(tty_init, s)
    BY DEF Init
  <2> HIDE DEF s
  <2>2. Stands(<<>> \o Expand(s), tty_writestr(tty_init, s)) /\ Far(tty_writestr(tty_init, s), 0)
    BY <1>0, <1>1, <1>2, <1>3, <1>4, WriteShows
  <2> QED
    BY <2>1, <2>2
<1>6. shown = Expand(Banner) \o Prompt /\ typed = <<>> /\ mess = {}
  BY DEF Init
<1>7. shown \in Seq(Output) /\ shown \o Expand(typed) = <<>> \o Expand(s)
  <2>1. Expand(Banner) \in Seq(Output) /\ Prompt \in Seq(Output)
    BY BannerIsOutput, PromptIsOutput, ExpandTyped
  <2>2. Expand(s) = Expand(Banner) \o Prompt
    BY BannerIsOutput, PromptIsOutput, ExpandConcat, ExpandPrompt
  <2>3. Expand(Banner) \o Prompt \in Seq(Output)
    BY <2>1
  <2> HIDE DEF s
  <2> QED
    BY <1>6, <2>2, <2>3, ExpandEmpty
<1> QED
  BY <1>5, <1>6, <1>7 DEF ScreenInv

LEMMA KeyShows ==
    ASSUME IInv, ScreenInv, NEW c \in Char, Key(c)
    PROVE  ScreenInv'
<1>0. /\ tty' = tty_writechar(tty, c) /\ typed' = Append(typed, c)
      /\ UNCHANGED <<shown, mess>>
      /\ tty \in Terminal /\ typed \in Seq(Char) /\ shown \in Seq(Output)
  BY DEF Key, Typing, IInv, ScreenInv
<1> SUFFICES ASSUME "screen" \notin mess
             PROVE  /\ "line" \notin mess
                    /\ Stands(shown \o Expand(typed'), tty')
                    /\ Far(tty', 0)
  BY <1>0 DEF ScreenInv
<1>1. "line" \notin mess /\ Stands(shown \o Expand(typed), tty) /\ Far(tty, 0)
  BY DEF ScreenInv
<1>2. /\ typed \in Seq(Output) /\ <<c>> \in Seq(Output) /\ c \in Output /\ c # BS /\ c # NL
      /\ Expand(typed) \in Seq(Output) /\ Look(c) \in Seq(Output)
  BY <1>0, CharIsOutput, ExpandTyped, LookTyped
<1>3. typed' = typed \o <<c>>
  BY <1>0
<1>4. Expand(typed') = Expand(typed) \o Look(c)
  BY <1>2, <1>3, ExpandConcat, ExpandOne
<1>5. shown \o Expand(typed') = (shown \o Expand(typed)) \o Look(c)
  <2>1. shown \o (Expand(typed) \o Look(c)) = (shown \o Expand(typed)) \o Look(c)
    BY <1>0, <1>2, ConcatAssoc
  <2> QED
    BY <1>4, <2>1
<1>6. shown \o Expand(typed) \in Seq(Output) /\ 0 \in 0 .. Most
  BY <1>0, <1>2, MostIsNumber
<1>7. Stands((shown \o Expand(typed)) \o Look(c), tty') /\ Far(tty', 0)
  BY <1>0, <1>1, <1>2, <1>6, ShowChar
<1> QED
  BY <1>1, <1>5, <1>7

LEMMA BackspaceShows ==
    ASSUME IInv, ScreenInv, Backspace
    PROVE  ScreenInv'
<1>0. /\ tty' = tty_writechar(tty, BS) /\ ~tty.hit
      /\ typed' = IF typed = <<>> THEN typed ELSE Front(typed)
      /\ mess' = IF tty.col = 0 \/ buf[i - 1] = TAB THEN mess \cup {"screen"} ELSE mess
      /\ UNCHANGED shown /\ i >= 1 /\ i \in 0 .. (Size - 1)
      /\ tty \in Terminal /\ typed \in Seq(Char) /\ shown \in Seq(Output)
  BY DEF Backspace, Typing, IInv, ScreenInv
<1> SUFFICES ASSUME "screen" \notin mess'
             PROVE  /\ "line" \notin mess'
                    /\ Stands(shown \o Expand(typed'), tty')
                    /\ Far(tty', 0)
  BY <1>0 DEF ScreenInv
<1>1. mess' = mess /\ "screen" \notin mess /\ tty.col # 0 /\ buf[i - 1] # TAB
  BY <1>0
<1>2. "line" \notin mess /\ Laid(shown \o Expand(typed), tty) /\ Far(tty, 0)
  BY <1>0, <1>1 DEF ScreenInv, Stands
<1>3. i = Len(typed) /\ \A k \in 0 .. (i - 1) : buf[k] = typed[k + 1]
  BY <1>2 DEF IInv, LineInv
<1> DEFINE c == typed[Len(typed)]
           f == Front(typed)
<1>4. Len(typed) \in Nat /\ Len(typed) >= 1 /\ typed # <<>>
  BY <1>0, <1>3
<1>5. c \in Char /\ c # TAB
  <2>1. i - 1 \in 0 .. (i - 1) /\ (i - 1) + 1 = Len(typed)
    BY <1>0, <1>3
  <2>2. buf[i - 1] = c
    BY <1>3, <2>1
  <2> QED
    BY <1>0, <1>1, <1>4, <2>2
<1>6. f \in Seq(Char) /\ typed = f \o <<c>>
  <2> DEFINE n == Len(typed) - 1
  <2>1. f = SubSeq(typed, 1, n)
    BY DEF Front
  <2>2. n \in Nat /\ n + 1 = Len(typed)
    BY <1>4
  <2> HIDE DEF n, f
  <2>3. f \in Seq(Char) /\ Len(f) = n /\ \A k \in 1 .. n : f[k] = typed[k]
    BY <1>0, <2>1, <2>2
  <2> QED
    BY <1>0, <2>2, <2>3
<1>7. typed' = f
  BY <1>0, <1>4
<1> HIDE DEF f, c
<1>8. /\ f \in Seq(Output) /\ <<c>> \in Seq(Output) /\ c \in Output /\ c # NL /\ c \in Shown
      /\ Expand(f) \in Seq(Output)
  BY <1>5, <1>6, CharIsOutput, ExpandTyped
<1>9. Expand(typed) = Expand(f) \o <<c>>
  BY <1>5, <1>6, <1>8, ExpandConcat, ExpandOne DEF Look
<1>10. shown \o Expand(typed) = Append(shown \o Expand(f), c) /\ shown \o Expand(f) \in Seq(Output)
  BY <1>0, <1>8, <1>9
<1>11. tty' = tty_backspace(tty)
  BY <1>0 DEF tty_writechar, BS, NL, TAB
<1>12. Laid(shown \o Expand(f), tty') /\ Far(tty', 0)
  BY <1>0, <1>1, <1>2, <1>8, <1>10, <1>11, DeleteShows
<1> QED
  BY <1>1, <1>2, <1>7, <1>12 DEF Stands, Laid

(* A prompt, and a text with a prompt behind it, each on lines of its own. *)
Alone == <<NL>> \o Prompt
Framed(c) == <<NL>> \o c \o <<NL>> \o Prompt

LEMMA AloneIsPlain == Alone \in Seq(Plain) /\ Len(Alone) = 3 /\ Alone[3] # NL
<1>1. <<NL>> \in Seq(Plain) /\ Prompt \in Seq(Plain) /\ Len(<<NL>>) = 1 /\ Len(Prompt) = 2
  BY PromptIsPlain
<1>2. Alone \in Seq(Plain) /\ Len(Alone) = Len(<<NL>>) + Len(Prompt)
  BY PromptIsPlain, ConcatLength DEF Alone
<1>3. Len(<<NL>>) + 2 = 3 /\ <<NL>> \in Seq(Output)
  BY PromptIsOutput
<1>4. Alone[3] # NL
  BY <1>3, LastIsBlank DEF Alone
<1> QED
  BY <1>1, <1>2, <1>4

LEMMA FramedIsWritten ==
    ASSUME NEW c \in Seq(Written)
    PROVE  /\ Framed(c) \in Seq(Written) /\ Len(Framed(c)) = Len(c) + 4
           /\ Framed(c)[Len(Framed(c))] # NL
<1>1. <<NL>> \in Seq(Written) /\ Prompt \in Seq(Written)
  BY PromptIsPlain, WrittenStrings
<1>2. <<NL>> \o c \in Seq(Written) /\ Len(<<NL>> \o c) = Len(<<NL>>) + Len(c)
  BY <1>1, ConcatLength
<1>3. /\ <<NL>> \o c \o <<NL>> \in Seq(Written)
      /\ Len(<<NL>> \o c \o <<NL>>) = Len(<<NL>> \o c) + Len(<<NL>>)
  BY <1>1, <1>2, ConcatLength
<1>4. /\ Framed(c) \in Seq(Written)
      /\ Len(Framed(c)) = Len(<<NL>> \o c \o <<NL>>) + Len(Prompt)
  BY <1>1, <1>3, ConcatLength DEF Framed
<1>5. Len(c) \in Nat /\ Len(<<NL>>) = 1 /\ Len(Prompt) = 2
  BY PromptIsPlain
<1>6. Framed(c)[Len(Framed(c))] # NL
  <2> DEFINE m == <<NL>> \o c \o <<NL>>
  <2>1. Framed(c) = m \o Prompt /\ m \in Seq(Output)
    BY <1>3, WrittenStrings DEF Framed
  <2> HIDE DEF m
  <2> QED
    BY <2>1, LastIsBlank
<1> QED
  BY <1>2, <1>3, <1>4, <1>5, <1>6

(* What they look like behind another text. *)
LEMMA AloneLooks ==
    ASSUME NEW a \in Seq(Output)
    PROVE  a \o Expand(Alone) = a \o <<NL>> \o <<>> \o Prompt
<1>1. Expand(Alone) = <<NL>> \o Prompt
  BY PromptIsOutput, ExpandConcat, ExpandPrompt DEF Alone
<1>2. a \o (<<NL>> \o Prompt) = (a \o <<NL>>) \o Prompt
  BY PromptIsOutput, ConcatAssoc
<1>3. a \o <<NL>> \in Seq(Output)
  BY PromptIsOutput
<1>4. a \o <<NL>> \o <<>> = a \o <<NL>>
  BY <1>3
<1> QED
  BY <1>1, <1>2, <1>4

LEMMA FramedLooks ==
    ASSUME NEW a \in Seq(Output), NEW c \in Seq(Output)
    PROVE  a \o Expand(Framed(c)) = a \o <<NL>> \o (Expand(c) \o <<NL>>) \o Prompt
<1> DEFINE n == <<NL>>
           e == Expand(c)
           m == n \o e \o n
<1>1. n \in Seq(Output) /\ e \in Seq(Output) /\ Prompt \in Seq(Output)
  BY PromptIsOutput, ExpandTyped
<1>2. Expand(Framed(c)) = m \o Prompt
  <2>1. n \o c \in Seq(Output) /\ n \o c \o n \in Seq(Output)
    BY <1>1
  <2>2. Expand(Framed(c)) = Expand(n \o c \o n) \o Expand(Prompt)
    BY <1>1, <2>1, ExpandConcat DEF Framed
  <2>3. Expand(n \o c \o n) = Expand(n \o c) \o Expand(n)
    BY <1>1, <2>1, ExpandConcat
  <2>4. Expand(n \o c) = Expand(n) \o e
    BY <1>1, ExpandConcat
  <2> QED
    BY <2>2, <2>3, <2>4, ExpandPrompt
<1> HIDE DEF n, e
<1>3. m = n \o (e \o n) /\ e \o n \in Seq(Output)
  BY <1>1, ConcatAssoc
<1>4. a \o (n \o (e \o n)) = (a \o n) \o (e \o n)
  BY <1>1, <1>3, ConcatAssoc
<1>5. m \in Seq(Output)
  BY <1>1
<1> HIDE DEF m
<1>6. a \o (m \o Prompt) = (a \o m) \o Prompt
  BY <1>1, <1>5, ConcatAssoc
<1>7. a \o Expand(Framed(c)) = (a \o n) \o (e \o n) \o Prompt
  BY <1>2, <1>3, <1>4, <1>6
<1> QED
  BY <1>7 DEF n, e

(* What the history variables make of the end of a line. *)
LEMMA SubmittedText ==
    ASSUME IInv, ScreenInv, NEW starved, Submitted(starved)
    PROVE  /\ shown' \in Seq(Output)
           /\ typed' = <<>> /\ shown' \o Expand(typed') = shown'
           /\ "line" \notin mess' /\ ("screen" \notin mess' => "screen" \notin mess /\ typed # Echo)
<1> DEFINE rest == SubSeq(typed, Len(Echo) + 2, Len(typed))
<1>1. typed \in Seq(Char) /\ typed \in Seq(Output) /\ Expand(typed) \in Seq(Output) /\ shown \in Seq(Output)
  BY CharIsOutput, ExpandTyped DEF IInv, ScreenInv
<1>2. rest \in Seq(Char)
  <2>1. Len(Echo) + 2 \in Nat \ {0} /\ Len(typed) \in Nat
    BY <1>1, ShellAssumption
  <2> QED
    BY <1>1, <2>1
<1>3. Expand(rest) \in Seq(Output) /\ Prompt \in Seq(Output) /\ <<NL>> \in Seq(Output)
  BY <1>2, CharIsOutput, ExpandTyped, PromptIsOutput
<1> HIDE DEF rest
<1>4. /\ shown' = shown \o Expand(typed) \o <<NL>>
                    \o (IF IsEcho(typed) THEN Expand(rest) \o <<NL>> ELSE <<>>) \o Prompt
      /\ typed' = <<>>
      /\ mess' = (mess \ {"line", "args"}) \cup (IF starved THEN {"args"} ELSE {})
                    \cup (IF typed = Echo THEN {"screen"} ELSE {})
  BY DEF Submitted, rest
<1>5. shown' \in Seq(Output)
  <2>1. (IF IsEcho(typed) THEN Expand(rest) \o <<NL>> ELSE <<>>) \in Seq(Output)
    BY <1>3
  <2> DEFINE middle == IF IsEcho(typed) THEN Expand(rest) \o <<NL>> ELSE <<>>
  <2>2. shown' = shown \o Expand(typed) \o <<NL>> \o middle \o Prompt
    BY <1>4
  <2> HIDE DEF middle
  <2> QED
    BY <1>1, <1>3, <2>1, <2>2 DEF middle
<1>6. shown' \o Expand(typed') = shown'
  <2>1. Expand(typed') = <<>>
    BY <1>4, ExpandEmpty
  <2>2. shown' \o <<>> = shown'
    BY <1>5
  <2> QED
    BY <2>1, <2>2
<1>7. "line" \notin mess' /\ ("screen" \notin mess' => "screen" \notin mess /\ typed # Echo)
  BY <1>4
<1> QED
  BY <1>4, <1>5, <1>6, <1>7

LEMMA EchoShows ==
    ASSUME IInv, ScreenInv, SubmitEcho
    PROVE  ScreenInv'
<1> DEFINE line == [buf EXCEPT ![i] = NUL]
           a == shown \o Expand(typed)
           ce == cmd_echo(line)
           s == Framed(ce)
<1>1. /\ IsEcho(CString(line, 0)) /\ tty' = tty_writestr(tty, s) /\ Submitted("args" \in mess)
  BY DEF SubmitEcho, Framed
<1>2. /\ shown' \in Seq(Output)
      /\ typed' = <<>> /\ shown' \o Expand(typed') = shown'
      /\ "line" \notin mess' /\ ("screen" \notin mess' => "screen" \notin mess /\ typed # Echo)
  BY <1>1, SubmittedText
<1> SUFFICES ASSUME "screen" \notin mess, typed # Echo
             PROVE  Stands(shown', tty') /\ Far(tty', 0)
  BY <1>2 DEF ScreenInv
<1>3. "line" \notin mess /\ Stands(a, tty) /\ Far(tty, 0)
  BY DEF ScreenInv
<1>4. IsEcho(typed) /\ ce = SubSeq(typed, Len(Echo) + 2, Len(typed))
  <2>1. CString(line, 0) = typed
    BY <1>3, LineIsWhole
  <2> QED
    BY <1>1, <1>3, <2>1, EchoIsRest
<1>5. /\ typed \in Seq(Char) /\ i = Len(typed) /\ i \in 0 .. (Size - 1) /\ tty \in Terminal
      /\ Len(Echo) \in Nat \ {0}
  BY <1>3, LineIsWhole, ShellAssumption DEF IInv
<1>7. ce \in Seq(Char) /\ Len(ce) \in 0 .. (Size - 1)
  <2> HIDE DEF ce
  <2>1. Len(Echo) + 1 \in 0 .. Len(typed) \/ Len(Echo) + 1 > Len(typed)
    BY <1>5
  <2> QED
    BY <1>4, <1>5, <2>1, BoundsAreNumbers
<1>8. a \in Seq(Output) /\ Expand(typed) \in Seq(Output) /\ shown \in Seq(Output)
  BY <1>5, CharIsOutput, ExpandTyped DEF ScreenInv
<1>9. Expand(ce) \in Seq(Output) /\ ce \in Seq(Output) /\ ce \in Seq(Written)
  <2> HIDE DEF ce
  <2> QED
    BY <1>7, WrittenStrings, ExpandTyped
<1>10. s \in Seq(Written) /\ s \in Seq(Output) /\ Len(s) = Len(ce) + 4
  <2> HIDE DEF ce
  <2> QED
    BY <1>9, FramedIsWritten, WrittenStrings
<1>12. shown' = a \o Expand(s)
  <2>1. shown' = a \o <<NL>> \o (Expand(ce) \o <<NL>>) \o Prompt
    BY <1>1, <1>4 DEF Submitted
  <2> HIDE DEF ce, a
  <2> QED
    BY <1>8, <1>9, <2>1, FramedLooks
<1> HIDE DEF line, a, ce, s
<1>13. Len(s) \in 1 .. Most /\ s[Len(s)] # NL
  <2> HIDE DEF ce
  <2>1. Len(s) \in 1 .. Most
    BY <1>7, <1>10, BoundsAreNumbers DEF Most
  <2>2. s[Len(s)] # NL
    BY <1>9, FramedIsWritten DEF s
  <2> QED
    BY <2>1, <2>2
<1>14. Stands(a \o Expand(s), tty_writestr(tty, s)) /\ Far(tty_writestr(tty, s), 0)
  <2>1. \A k \in 1 .. Len(s) : s[k] # BS
    BY <1>10, WrittenStrings
  <2> QED
    BY <1>3, <1>5, <1>8, <1>10, <1>13, <2>1, WriteShows
<1> QED
  BY <1>1, <1>12, <1>14

LEMMA CommandShows ==
    ASSUME IInv, ScreenInv, NEW room, SubmitCommand(room)
    PROVE  ScreenInv'
<1> DEFINE line == [buf EXCEPT ![i] = NUL]
           a == shown \o Expand(typed)
           s == Alone
<1>1. /\ ~IsEcho(CString(line, 0)) /\ tty' = tty_writestr(tty, s)
      /\ \E starved : Submitted(starved)
  BY DEF SubmitCommand, Alone
<1>2. PICK starved : Submitted(starved)
  BY <1>1
<1>3. /\ shown' \in Seq(Output)
      /\ typed' = <<>> /\ shown' \o Expand(typed') = shown'
      /\ "line" \notin mess' /\ ("screen" \notin mess' => "screen" \notin mess /\ typed # Echo)
  BY <1>2, SubmittedText
<1> SUFFICES ASSUME "screen" \notin mess
             PROVE  Stands(shown', tty') /\ Far(tty', 0)
  BY <1>3 DEF ScreenInv
<1>4. "line" \notin mess /\ Stands(a, tty) /\ Far(tty, 0)
  BY DEF ScreenInv
<1>5. ~IsEcho(typed)
  BY <1>1, <1>4, LineIsWhole
<1>6. typed \in Seq(Char) /\ tty \in Terminal
  BY DEF IInv
<1>7. a \in Seq(Output)
  <2>1. Expand(typed) \in Seq(Output) /\ shown \in Seq(Output)
    BY <1>6, CharIsOutput, ExpandTyped DEF ScreenInv
  <2> QED
    BY <2>1
<1>8. s \in Seq(Written) /\ s \in Seq(Output) /\ Len(s) = 3 /\ s[3] # NL
  BY AloneIsPlain, WrittenStrings
<1>9. shown' = a \o Expand(s)
  <2>1. shown' = a \o <<NL>> \o <<>> \o Prompt
    BY <1>2, <1>5 DEF Submitted
  <2> HIDE DEF a
  <2> QED
    BY <1>7, <2>1, AloneLooks
<1> HIDE DEF a, s
<1>10. Len(s) \in 1 .. Most /\ s[Len(s)] # NL
  BY <1>8, BoundsAreNumbers DEF Most
<1>11. Stands(a \o Expand(s), tty_writestr(tty, s)) /\ Far(tty_writestr(tty, s), 0)
  <2>1. \A k \in 1 .. Len(s) : s[k] # BS
    BY <1>8, WrittenStrings
  <2> QED
    BY <1>4, <1>6, <1>7, <1>8, <1>10, <2>1, WriteShows
<1> QED
  BY <1>1, <1>9, <1>11

(* The screen shows the banner, the prompts, the lines and the output of   *)
(* echo, through wraps, tabs and deletions, on screens of every size, and  *)
(* the kernel behind it is written over if and only if they run into it:   *)
(* as long as no backspace was typed where the terminal cannot undo it.    *)
THEOREM ScreenStaysRight == Spec => []ScreenShowsText
<1>1. Init => ScreenInv
  BY InitShows
<1>2. IInv /\ ScreenInv /\ [Next]_vars => ScreenInv'
  <2> SUFFICES ASSUME IInv, ScreenInv, [Next]_vars
               PROVE  ScreenInv'
    OBVIOUS
  <2>1. CASE \E c \in Char : Key(c)
    BY <2>1, KeyShows
  <2>2. CASE Backspace
    BY <2>2, BackspaceShows
  <2>3. CASE BackspaceOnEmptyLine
    BY <2>3 DEF BackspaceOnEmptyLine, ScreenInv
  <2>4. CASE Submit
    BY <2>4, EchoShows, CommandShows DEF Submit
  <2>5. CASE UNCHANGED vars
    BY <2>5 DEF vars, ScreenInv
  <2>6. CASE Poll \/ Ruined
    BY <2>5, <2>6 DEF Poll, Ruined
  <2> QED
    BY <2>1, <2>2, <2>3, <2>4, <2>5, <2>6 DEF Next
<1>3. IInv /\ ScreenInv => ScreenShowsText
  <2> DEFINE text == shown \o Expand(typed)
  <2> SUFFICES ASSUME IInv, ScreenInv, "screen" \notin mess
               PROVE  /\ tty.hit <=> End(text) > KernelCell
                      /\ ~tty.hit => Cursor(tty) = End(text) /\ tty.vga = Rendered(text, CellOf(text))
    BY DEF ScreenShowsText, End
  <2>1. Stands(text, tty) /\ Far(tty, 0) /\ tty \in Terminal
    BY DEF ScreenInv, IInv
  <2> HIDE DEF text
  <2>2. CASE tty.hit
    BY <2>1, <2>2 DEF Stands
  <2>3. CASE ~tty.hit
    <3>1. Laid(text, tty) /\ Cursor(tty) =< KernelCell + Width * 0
      BY <2>1, <2>3 DEF Stands, Far
    <3>2. Cursor(tty) \in Nat /\ Width * 0 = 0 /\ KernelCell \in Nat
      BY <2>1, <3>1, CursorIsCell, MostIsNumber DEF Laid
    <3>3. ~(Cursor(tty) > KernelCell)
      BY <3>1, <3>2
    <3> QED
      BY <2>3, <3>1, <3>3 DEF Laid
  <2> QED
    BY <2>2, <2>3
<1> QED
  BY <1>1, <1>2, <1>3, ShellInductive, PTL DEF Spec

-----------------------------------------------------------------------------
(* Arguments *)

(* strtok() begins with the line, unless a command before ran out of       *)
(* memory.                                                                 *)
ArgsInv == "args" \notin mess => last = NULL

LEMMA ArgsStep ==
    ASSUME IInv, ArgsInv, [Next]_vars
    PROVE  ArgsInv'
<1>1. CASE \E c \in Char : Key(c)
  BY <1>1 DEF Key, ArgsInv
<1>2. CASE Backspace
  BY <1>2 DEF Backspace, ArgsInv
<1>3. CASE BackspaceOnEmptyLine
  BY <1>3 DEF BackspaceOnEmptyLine, ArgsInv
<1>4. CASE SubmitEcho
  BY <1>4 DEF SubmitEcho, Submitted, ArgsInv
<1>5. ASSUME NEW room \in 0 .. (Size \div 2), SubmitCommand(room)
      PROVE  ArgsInv'
  <2> DEFINE line == [buf EXCEPT ![i] = NUL]
             p == enki_parse_cmd(CString(line, 0), room)
  <2>1. last' = p.last /\ Submitted(p.token # NoToken)
    BY <1>5 DEF SubmitCommand
  <2>2. p.token = NoToken => p.last = NULL
    <3>1. CString(line, 0) \in Seq(Chars) /\ Len(CString(line, 0)) < Size
      BY LineEnds
    <3>2. room \in Nat
      OBVIOUS
    <3> QED
      BY <3>1, <3>2, ParseEnds DEF IInv
  <2> HIDE DEF p
  <2> QED
    BY <2>1, <2>2 DEF Submitted, ArgsInv
<1>6. CASE UNCHANGED vars
  BY <1>6 DEF vars, ArgsInv
<1> QED
  BY <1>1, <1>2, <1>3, <1>4, <1>5, <1>6 DEF Next, Submit, Poll, Ruined

LEMMA SubmitFinds ==
    ASSUME IInv, ArgsInv, Submit, "line" \notin mess, "args" \notin mess \cup mess'
    PROVE  IF IsEcho(typed) THEN args' = <<>> ELSE AreWords(typed, args')
<1> DEFINE line == [buf EXCEPT ![i] = NUL]
<1>0. CString(line, 0) = typed /\ last = NULL /\ "args" \notin mess'
  BY LineIsWhole DEF ArgsInv
<1>1. CASE SubmitEcho
  BY <1>0, <1>1 DEF SubmitEcho
<1>2. ASSUME NEW room \in 0 .. (Size \div 2), SubmitCommand(room)
      PROVE  ~IsEcho(typed) /\ AreWords(typed, args')
  <2> DEFINE p == enki_parse_cmd(typed, room)
  <2>1. ~IsEcho(typed) /\ args' = p.args /\ Submitted(p.token # NoToken)
    BY <1>0, <1>2 DEF SubmitCommand
  <2>2. typed \in Seq(Char) /\ Len(typed) < Size /\ scmd \in Buffer(Size)
    <3>1. Len(CString(line, 0)) < Size
      BY LineEnds
    <3> QED
      BY <1>0, <3>1 DEF IInv
  <2>3. ParseInv(typed, p)
    <3>1. room \in Nat
      OBVIOUS
    <3> QED
      BY <1>0, <2>2, <3>1, ParseFinds
  <2> HIDE DEF p
  <2>4. p.token = NoToken
    BY <1>0, <2>1 DEF Submitted
  <2>5. Found(typed, p.args, Len(typed))
    BY <2>3, <2>4 DEF ParseInv
  <2>6. /\ DOMAIN p.args = 1 .. Len(p.args)
        /\ \A k \in Starts(typed) : k =< Len(typed)
    BY <2>2, <2>5 DEF Found, Starts
  <2>7. AreWords(typed, p.args)
    BY <2>5, <2>6 DEF Found, AreWords
  <2> QED
    BY <2>1, <2>7
<1> QED
  BY <1>1, <1>2 DEF Submit

(* A command is given the words of its line, each up to the size of an     *)
(* argument, if there is memory for them and was for those of the command  *)
(* before; echo is given nothing.                                          *)
THEOREM ArgsStayWords == Spec => ArgsAreWords
<1>1. Init => ArgsInv
  BY DEF Init, ArgsInv
<1>2. IInv /\ ArgsInv /\ [Next]_vars => ArgsInv'
  BY ArgsStep
<1>3. IInv /\ ArgsInv /\ [Next]_vars =>
         [Submit /\ "line" \notin mess /\ "args" \notin mess \cup mess'
            => IF IsEcho(typed) THEN args' = <<>> ELSE AreWords(typed, args')]_vars
  BY SubmitFinds
<1> QED
  BY <1>1, <1>2, <1>3, ShellInductive, PTL DEF Spec, ArgsAreWords
=============================================================================
