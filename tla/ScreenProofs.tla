---------------------------- MODULE ScreenProofs ----------------------------
(***************************************************************************)
(* Proofs about Screen, for every size of the screen and every text: it    *)
(* implements the lines of Text, shows its cursor and spills only in front *)
(* of video memory; and about StringCalls, for every word size and memory: *)
(* numerals stand wherever they are.                                       *)
(*                                                                         *)
(* The routines work on a record of buffer, row and column; a lemma for    *)
(* each says which record it makes, how its lines look and what it spills. *)
(***************************************************************************)
EXTENDS Screen, StringCalls, FiniteSetTheorems, SequenceTheorems, WellFoundedInduction, TLAPS

CellOrForeign == ((Chars \cup {Space}) \X Colors) \cup {Foreign}
Rows == 0 .. Height - 1
Screens == [buffer : [Memory -> CellOrForeign], row : Rows, column : (-Width) .. Width]

\* Left of the first column the cursor is only in the first row.
LeftAtHome(s) == s.column < 0 => s.row = 0

\* The index of a cell of a line, both counted from 1, and the lines of a screen.
Place(r, c) == (r - 1) * Width + c - 1
Cells(b) == [r \in 1 .. Height |-> [c \in 1 .. Width |-> b[(r - 1) * Width + c - 1]]]
Put(L, r, c, cell) == [L EXCEPT ![r][c] = cell]
Look(s) == [lines |-> Cells(s.buffer), row |-> s.row, column |-> s.column]

\* What may change around video memory on the way from s to t.
Spill(s, t) ==
  \A n \in Memory \ Visible :
    \/ t.buffer[n] = s.buffer[n]
    \/ n < 0 /\ t.buffer[n] = s.buffer[n + Width]
    \/ n < 0 /\ s.row = 0 /\ s.column <= 0

ScreenInv == CursorShown /\ LeftAtHome(Screen)

----------------------------------------------------------------------------
\* Arithmetic of rows and columns.
LEMMA Measures ==
  /\ Width \in Nat \ {0} /\ Height \in Nat \ {0}
  /\ Width * Height \in Nat /\ Width * (Height + 1) = Width * Height + Width
  /\ \A i \in Int : i \in Memory <=> -Width <= i /\ i < Width * Height + Width
  /\ \A i \in Int : i \in Visible <=> 0 <= i /\ i < Width * Height
  /\ Visible \subseteq Memory /\ Memory \subseteq Int
<1>1. Width \in Nat \ {0} /\ Height \in Nat \ {0}
  BY ScreenAssumption
<1>2. Width * Height \in Nat /\ Width * (Height + 1) = Width * Height + Width
  BY <1>1
<1> DEFINE m == Width * Height
           x == Width * (Height + 1)
<1>3. Memory = -Width .. x - 1 /\ Visible = 0 .. m - 1
  BY DEF Memory, Visible
<1>4. m \in Nat /\ x = m + Width
  BY <1>2
<1> HIDE DEF m, x
<1>5. /\ \A i \in Int : i \in Memory <=> -Width <= i /\ i < m + Width
      /\ \A i \in Int : i \in Visible <=> 0 <= i /\ i < m
      /\ Visible \subseteq Memory /\ Memory \subseteq Int
  BY <1>1, <1>3, <1>4
<1> QED
  BY <1>1, <1>2, <1>5 DEF m

LEMMA RowBelow ==
  ASSUME NEW r \in Rows
  PROVE  r * Width \in Nat /\ r * Width + Width <= Width * Height
<1>1. r \in Nat /\ r + 1 <= Height /\ Width \in Nat \ {0} /\ Height \in Nat
  BY Measures DEF Rows
<1>2. (r + 1) * Width <= Height * Width
  BY <1>1, SMT
<1>3. (r + 1) * Width = r * Width + Width /\ Height * Width = Width * Height /\ r * Width \in Nat
  BY <1>1
<1> QED
  BY <1>2, <1>3

\* Where a row and a column from 0 on are on the screen.
LEMMA CellAt ==
  ASSUME NEW r \in Rows, NEW c \in 0 .. Width - 1
  PROVE  r * Width + c \in Visible /\ r * Width + c \in Memory
<1>1. r * Width \in Nat /\ r * Width + Width <= Width * Height /\ Width \in Nat
  BY RowBelow, Measures
<1>2. r * Width + c \in Int /\ 0 <= r * Width + c /\ r * Width + c < Width * Height
  BY <1>1, Measures
<1> QED
  BY <1>2, Measures

LEMMA PlaceThere ==
  ASSUME NEW r \in 1 .. Height, NEW c \in 1 .. Width
  PROVE  Place(r, c) \in Visible /\ Place(r, c) \in Memory
<1>1. r - 1 \in Rows /\ c - 1 \in 0 .. Width - 1 /\ (r - 1) * Width + (c - 1) \in Visible
  BY Measures, CellAt DEF Rows
<1>2. (r - 1) * Width \in Int
  BY <1>1, RowBelow
<1>3. (r - 1) * Width + (c - 1) = (r - 1) * Width + c - 1
  BY <1>1, <1>2
<1> QED
  BY <1>1, <1>3, Measures DEF Place

\* Different cells have different indices.
LEMMA SamePlace ==
  ASSUME NEW r \in 1 .. Height, NEW c \in 1 .. Width,
         NEW row \in Rows, NEW col \in 0 .. Width - 1
  PROVE  Place(r, c) = row * Width + col <=> r = row + 1 /\ c = col + 1
<1> DEFINE q == r - 1
           d == c - 1
<1>1. /\ q \in Nat /\ d \in 0 .. Width - 1 /\ row \in Nat /\ Width \in Nat \ {0}
      /\ r = q + 1 /\ c = d + 1
  BY Measures DEF Rows
<1> HIDE DEF q, d
<1>2. Place(r, c) = q * Width + d
  <2>1. Place(r, c) = (r - 1) * Width + c - 1 /\ r - 1 = q
    BY <1>1 DEF Place
  <2>2. q * Width \in Nat
    BY <1>1
  <2> QED
    BY <1>1, <2>1, <2>2
<1>3. ASSUME NEW a \in Nat, NEW b \in Nat, a < b PROVE a * Width + Width <= b * Width
  <2>1. (a + 1) * Width <= b * Width
    BY <1>1, <1>3, SMT
  <2> QED
    BY <1>1, <2>1
<1>4. ASSUME q * Width + d = row * Width + col PROVE q = row /\ d = col
  <2>1. q * Width \in Nat /\ row * Width \in Nat
    BY <1>1
  <2>2. ~(q < row) /\ ~(row < q)
    BY <1>1, <1>3, <1>4, <2>1
  <2> QED
    BY <1>1, <1>4, <2>1, <2>2
<1> QED
  BY <1>1, <1>2, <1>4

\* Numbers below a bound have a lowest: the intervals 0 .. i are finite, and
\* strict inclusion among them is well founded.
LEMMA LowestOf ==
  ASSUME NEW n \in Nat, NEW S \in SUBSET (0 .. n), S # {}
  PROVE  \E i \in S : \A j \in S : i <= j
<1> DEFINE U == 0 .. n
           T == {0 .. i : i \in S}
           R == StrictSubsetOrdering(U)
<1>1. IsFiniteSet(U)
  BY FS_Interval
<1>2. IsWellFoundedOn(R, SUBSET U)
  <2> HIDE DEF U
  <2> QED
    BY <1>1, FS_FiniteSubsetsOfFinite, FS_StrictSubsetOrderingWellFounded, Zenon
<1>3. T \subseteq SUBSET U /\ T # {}
  <2> SUFFICES ASSUME NEW i \in S PROVE 0 .. i \subseteq U
    OBVIOUS
  <2> QED
    OBVIOUS
<1>4. PICK t \in T : \A u \in T : <<u, t>> \notin R
  <2> HIDE DEF T, R, U
  <2> QED
    BY <1>2, <1>3, WFMin
<1>5. PICK i \in S : t = 0 .. i
  OBVIOUS
<1>6. ASSUME NEW j \in S, ~ (i <= j)
      PROVE  FALSE
  <2>1. j \in Nat /\ i \in Nat /\ j < i
    BY <1>6
  <2>2. 0 .. j \subseteq 0 .. i /\ i \in 0 .. i /\ i \notin 0 .. j
    BY <2>1
  <2>3. 0 .. j \in T /\ 0 .. j \in SUBSET U /\ 0 .. i \in SUBSET U
    <3>1. 0 .. j \in T /\ 0 .. i \in T
      OBVIOUS
    <3> HIDE DEF T
    <3> QED
      BY <1>3, <3>1
  <2>4. <<0 .. j, 0 .. i>> \in R
    BY <2>2, <2>3 DEF StrictSubsetOrdering
  <2> QED
    BY <1>4, <1>5, <2>3, <2>4
<1> QED
  BY <1>6

----------------------------------------------------------------------------
\* The lines, cell by cell.
LEMMA CellsAre ==
  ASSUME NEW b
  PROVE  /\ DOMAIN Cells(b) = 1 .. Height
         /\ \A r \in 1 .. Height : /\ DOMAIN Cells(b)[r] = 1 .. Width
                                  /\ \A c \in 1 .. Width : Cells(b)[r][c] = b[Place(r, c)]
BY DEF Cells, Place

\* One cell is put on the screen.
LEMMA PutThere ==
  ASSUME NEW b \in [Memory -> CellOrForeign], NEW cell,
         NEW row \in Rows, NEW col \in 0 .. Width - 1
  PROVE  Cells([b EXCEPT ![row * Width + col] = cell])
           = Put(Cells(b), row + 1, col + 1, cell)
<1> DEFINE n == row * Width + col
           b2 == [b EXCEPT ![n] = cell]
           L == [Cells(b) EXCEPT ![row + 1][col + 1] = cell]
<1>1. n \in Memory /\ row + 1 \in 1 .. Height /\ col + 1 \in 1 .. Width
  BY CellAt, Measures DEF Rows
<1>2. DOMAIN L = 1 .. Height /\ L = [r \in 1 .. Height |-> L[r]]
  BY CellsAre
<1>3. ASSUME NEW r \in 1 .. Height
      PROVE  L[r] = [c \in 1 .. Width |-> b2[Place(r, c)]]
  <2>1. \A c \in 1 .. Width : Place(r, c) \in Memory /\ (Place(r, c) = n <=> r = row + 1 /\ c = col + 1)
    BY PlaceThere, SamePlace
  <2>2. L[r] = IF r = row + 1 THEN [Cells(b)[r] EXCEPT ![col + 1] = cell] ELSE Cells(b)[r]
    BY <1>1, CellsAre
  <2>3. Cells(b)[r] = [c \in 1 .. Width |-> b[Place(r, c)]]
    BY DEF Cells, Place
  <2> HIDE DEF n, L
  <2>4. \A c \in 1 .. Width : b2[Place(r, c)] = IF r = row + 1 /\ c = col + 1 THEN cell ELSE b[Place(r, c)]
    BY <1>1, <2>1
  <2> HIDE DEF b2
  <2> QED
    BY <1>1, <2>2, <2>3, <2>4
<1> HIDE DEF L, b2
<1>4. \A r \in 1 .. Height : Cells(b2)[r] = L[r]
  BY <1>3 DEF Cells, Place
<1>5. Cells(b2) = [r \in 1 .. Height |-> Cells(b2)[r]]
  BY DEF Cells
<1>6. Cells(b2) = L
  BY <1>2, <1>4, <1>5
<1> QED
  BY <1>6 DEF L, b2, Put

\* What is put elsewhere does not show.
LEMMA PutElsewhere ==
  ASSUME NEW b \in [Memory -> CellOrForeign], NEW cell, NEW n, n \notin Visible
  PROVE  Cells([b EXCEPT ![n] = cell]) = Cells(b)
<1>1. \A r \in 1 .. Height, c \in 1 .. Width : Place(r, c) \in Memory /\ Place(r, c) # n
  BY PlaceThere
<1>2. \A r \in 1 .. Height, c \in 1 .. Width : [b EXCEPT ![n] = cell][Place(r, c)] = b[Place(r, c)]
  BY <1>1
<1> QED
  BY <1>2 DEF Cells, Place

----------------------------------------------------------------------------
\* Scrolling.  After row y has been copied, all before it has moved a row up:
\* the copying in place never reads what it has overwritten.
LEMMA ScrolledUp ==
  ASSUME NEW s \in Screens
  PROVE  vga_scroll_up(s) = [s EXCEPT !.buffer =
           [i \in Memory |-> IF i \in (Height - 1) * Width .. Height * Width - 1 THEN Blank(vga_color)
                             ELSE IF i < (Height - 1) * Width THEN s.buffer[i + Width]
                             ELSE s.buffer[i]]]
<1> DEFINE b == s.buffer
           Step(f) == [y \in 0 .. Height |->
              IF y = 0 THEN b
              ELSE [i \in Memory |-> IF i \in (y - 2) * Width .. (y - 1) * Width - 1
                                     THEN f[y - 1][i + Width] ELSE f[y - 1][i]]]
           Moved == CHOOSE f : f = Step(f)
           Up(y) == [i \in Memory |-> IF i < (y - 1) * Width THEN b[i + Width] ELSE b[i]]
           F == [y \in 0 .. Height |-> Up(y)]
<1>1. vga_scroll_up(s) = [s EXCEPT !.buffer = [i \in Memory |->
         IF i \in (Height - 1) * Width .. Height * Width - 1 THEN Blank(vga_color)
         ELSE Moved[Height][i]]]
  BY DEF vga_scroll_up
<1>2. b \in [Memory -> CellOrForeign]
  BY DEF Screens
<1> HIDE DEF b
<1>3. Up(0) = b
  <2>1. \A i \in Memory : ~(i < (0 - 1) * Width)
    BY Measures
  <2> QED
    BY <1>2, <2>1
<1>4. ASSUME NEW y \in 1 .. Height
      PROVE  Up(y) = [i \in Memory |-> IF i \in (y - 2) * Width .. (y - 1) * Width - 1
                                       THEN Up(y - 1)[i + Width] ELSE Up(y - 1)[i]]
  <2> SUFFICES ASSUME NEW i \in Memory
      PROVE  Up(y)[i] = IF i \in (y - 2) * Width .. (y - 1) * Width - 1
                        THEN Up(y - 1)[i + Width] ELSE Up(y - 1)[i]
    OBVIOUS
  <2> DEFINE z == (y - 2) * Width
             e == (y - 1) * Width
  <2>1. y - 1 \in Rows
    BY Measures DEF Rows
  <2>2. e \in Nat /\ e + Width <= Width * Height
    BY <2>1, RowBelow
  <2>3. e = z + Width /\ z \in Int /\ (y - 1 - 1) * Width = z
    <3>1. y \in Int /\ Width \in Int
      BY Measures
    <3> QED
      BY <3>1
  <2>4. i \in Int /\ Width \in Nat /\ Width * Height \in Nat /\ -Width <= i
    BY Measures
  <2>5. Up(y)[i] = IF i < e THEN b[i + Width] ELSE b[i]
    OBVIOUS
  <2>6. \A j \in Memory : Up(y - 1)[j] = IF j < z THEN b[j + Width] ELSE b[j]
    BY <2>3
  <2> HIDE DEF z, e, Up
  <2>7. CASE i \in z .. e - 1
    <3>1. i + Width \in Memory /\ ~(i + Width < z) /\ i < e
      <4>1. i + Width \in Int /\ -Width <= i + Width /\ i + Width < Width * Height + Width
        BY <2>2, <2>3, <2>4, <2>7
      <4> QED
        BY <2>2, <2>3, <2>4, <2>7, <4>1, Measures
    <3>2. Up(y)[i] = Up(y - 1)[i + Width]
      BY <2>5, <2>6, <3>1
    <3> QED
      BY <2>7, <3>2 DEF z, e
  <2>8. CASE i \notin z .. e - 1
    <3>1. i < z \/ ~(i < e)
      BY <2>2, <2>3, <2>4, <2>8
    <3>2. i < z => i < e
      BY <2>2, <2>3, <2>4
    <3>3. Up(y)[i] = Up(y - 1)[i]
      BY <2>5, <2>6, <3>1, <3>2
    <3> QED
      BY <2>8, <3>3 DEF z, e
  <2> QED
    BY <2>7, <2>8
<1>5. Height \in Nat \ {0} /\ Height \in 0 .. Height
  BY Measures
<1>6. F = Step(F)
  <2>1. \A y \in 0 .. Height : F[y] = Up(y)
    OBVIOUS
  <2> HIDE DEF Up, F
  <2>2. \A y \in 0 .. Height : y # 0 => y - 1 \in 0 .. Height /\ y \in 1 .. Height
    BY <1>5
  <2>3. ASSUME NEW y \in 0 .. Height, y # 0
        PROVE  Up(y) = [i \in Memory |-> IF i \in (y - 2) * Width .. (y - 1) * Width - 1
                                         THEN F[y - 1][i + Width] ELSE F[y - 1][i]]
    <3>1. y \in 1 .. Height /\ F[y - 1] = Up(y - 1)
      BY <2>1, <2>2, <2>3
    <3> QED
      BY <1>4, <3>1
  <2>4. F = [y \in 0 .. Height |-> Up(y)]
    BY DEF F
  <2> QED
    BY <1>3, <2>3, <2>4
<1>7. ASSUME NEW f, f = Step(f) PROVE \A y \in 0 .. Height : f[y] = Up(y)
  <2> DEFINE Wrong == {y \in 0 .. Height : f[y] # Up(y)}
  <2> SUFFICES ASSUME Wrong # {} PROVE FALSE
    OBVIOUS
  <2>1. PICK y \in Wrong : \A w \in Wrong : y <= w
    <3> HIDE DEF Up
    <3>1. Wrong \in SUBSET (0 .. Height)
      OBVIOUS
    <3> HIDE DEF Wrong
    <3> QED
      BY <1>5, <3>1, LowestOf
  <2> HIDE DEF Up
  <2>2. y \in 0 .. Height
    OBVIOUS
  <2>3. y # 0
    <3>1. Step(f)[0] = b
      BY <1>5
    <3>2. f[0] = Step(f)[0]
      <4> HIDE DEF Step
      <4> QED
        BY <1>7
    <3> QED
      BY <1>3, <3>1, <3>2
  <2>4. y - 1 \in 0 .. Height /\ y \in 1 .. Height /\ ~(y <= y - 1)
    BY <1>5, <2>2, <2>3
  <2>5. f[y - 1] = Up(y - 1)
    BY <2>1, <2>4
  <2>6. f[y] = [i \in Memory |-> IF i \in (y - 2) * Width .. (y - 1) * Width - 1
                                 THEN f[y - 1][i + Width] ELSE f[y - 1][i]]
    BY <1>7, <2>2, <2>3
  <2>7. f[y] = Up(y)
    BY <1>4, <2>4, <2>5, <2>6
  <2> QED
    BY <2>7
<1>8. Moved = Step(Moved)
  <2> HIDE DEF F, Step
  <2> QED
    BY <1>6
<1>9. Moved[Height] = Up(Height)
  <2> HIDE DEF Moved, Step, Up
  <2> QED
    BY <1>5, <1>7, <1>8
<1>10. \A i \in Memory : Moved[Height][i] = IF i < (Height - 1) * Width THEN b[i + Width] ELSE b[i]
  <2> HIDE DEF Moved
  <2> QED
    BY <1>9
<1> HIDE DEF Moved
<1> QED
  BY <1>1, <1>10 DEF b

Scrolled(b) ==
  [i \in Memory |-> IF i \in (Height - 1) * Width .. Height * Width - 1 THEN Blank(vga_color)
                    ELSE IF i < (Height - 1) * Width THEN b[i + Width]
                    ELSE b[i]]

LEMMA LastRow ==
  LET last == (Height - 1) * Width
  IN  /\ last \in Nat /\ Height * Width = last + Width /\ Width * Height = last + Width
      /\ \A i \in Memory : i \in Int /\ -Width <= i /\ i < last + Width + Width
      /\ \A i \in Memory : i \in Visible <=> 0 <= i /\ i < last + Width
      /\ \A i \in Int : -Width <= i /\ i < last + Width + Width => i \in Memory
<1> DEFINE last == (Height - 1) * Width
<1>1. Height - 1 \in Rows
  BY Measures DEF Rows
<1>2. last \in Nat
  BY <1>1, RowBelow
<1>3. Height * Width = last + Width /\ Width * Height = last + Width
  BY Measures
<1> HIDE DEF last
<1> QED
  BY <1>2, <1>3, Measures DEF last

LEMMA ScrolledMemory ==
  ASSUME NEW b \in [Memory -> CellOrForeign]
  PROVE  /\ Scrolled(b) \in [Memory -> CellOrForeign]
         /\ \A n \in Memory \ Visible :
              Scrolled(b)[n] = b[n] \/ (n < 0 /\ Scrolled(b)[n] = b[n + Width])
<1> DEFINE last == (Height - 1) * Width
           size == Height * Width
<1>1. /\ last \in Nat /\ size = last + Width /\ Width \in Nat \ {0}
      /\ \A i \in Memory : i \in Int /\ -Width <= i /\ i < last + Width + Width
      /\ \A i \in Memory : i \in Visible <=> 0 <= i /\ i < last + Width
      /\ \A i \in Int : -Width <= i /\ i < last + Width + Width => i \in Memory
  BY LastRow, Measures
<1>2. Scrolled(b) = [i \in Memory |-> IF i \in last .. size - 1 THEN Blank(vga_color)
                                      ELSE IF i < last THEN b[i + Width] ELSE b[i]]
  BY DEF Scrolled
<1>3. Blank(vga_color) \in CellOrForeign
  BY ScreenAssumption DEF Blank, vga_entry, CellOrForeign
<1> HIDE DEF last, size
<1>4. \A i \in Memory : i < last => i + Width \in Memory
  BY <1>1
<1>5. ASSUME NEW n \in Memory \ Visible
      PROVE  Scrolled(b)[n] = b[n] \/ (n < 0 /\ Scrolled(b)[n] = b[n + Width])
  <2>1. n < 0 \/ last + Width <= n
    BY <1>1
  <2>2. n \notin last .. size - 1
    BY <1>1, <2>1
  <2>3. last + Width <= n => ~(n < last)
    BY <1>1
  <2>4. n < 0 => n < last
    BY <1>1
  <2> QED
    BY <1>2, <2>1, <2>2, <2>3, <2>4
<1> QED
  BY <1>2, <1>3, <1>4, <1>5

\* Scrolling drops the top line and adds a blank one.
LEMMA ScrolledCells ==
  ASSUME NEW b \in [Memory -> CellOrForeign]
  PROVE  Cells(Scrolled(b)) = Append(Tail(Cells(b)), Lines!BlankLine)
<1> DEFINE L == Cells(b)
           T == Tail(L)
           A == Append(T, Lines!BlankLine)
           LineOf == [1 .. Width -> CellOrForeign]
<1>1. Height \in Nat \ {0} /\ Width \in Nat \ {0}
  BY Measures
<1>2. L \in [1 .. Height -> LineOf]
  BY PlaceThere DEF Cells, Place
<1>3. Lines!BlankLine \in LineOf
  BY ScreenAssumption
  DEF Lines!BlankLine, Lines!Blank, Lines!Space, Lines!vga_entry, CellOrForeign, Space
<1> HIDE DEF L, LineOf
<1>4. L \in Seq(LineOf) /\ Len(L) = Height /\ L # << >>
  BY <1>1, <1>2
<1>5. T \in Seq(LineOf) /\ Len(T) = Height - 1 /\ \A r \in 1 .. Height - 1 : T[r] = L[r + 1]
  BY <1>1, <1>4
<1> HIDE DEF T
<1>6. /\ DOMAIN A = 1 .. Height /\ A = [r \in 1 .. Height |-> A[r]]
      /\ \A r \in 1 .. Height - 1 : A[r] = L[r + 1]
      /\ A[Height] = Lines!BlankLine
  <2>1. A \in Seq(LineOf) /\ Len(A) = Len(T) + 1 /\ A[Len(T) + 1] = Lines!BlankLine
        /\ \A r \in 1 .. Len(T) : A[r] = T[r]
    BY <1>3, <1>5, AppendProperties
  <2> HIDE DEF A
  <2>2. Len(T) + 1 = Height /\ A = [r \in 1 .. Len(A) |-> A[r]] /\ DOMAIN A = 1 .. Len(A)
    BY <1>1, <1>5, <2>1
  <2> QED
    BY <1>5, <2>1, <2>2
<1> HIDE DEF A
<1> DEFINE last == (Height - 1) * Width
           size == Height * Width
<1>7. /\ last \in Nat /\ size = last + Width /\ Width * Height = last + Width
      /\ Scrolled(b) = [i \in Memory |-> IF i \in last .. size - 1 THEN Blank(vga_color)
                                      ELSE IF i < last THEN b[i + Width] ELSE b[i]]
  BY LastRow DEF Scrolled
<1>8. ASSUME NEW r \in 1 .. Height - 1, NEW c \in 1 .. Width
      PROVE  Place(r, c) \in Memory /\ Place(r, c) < last /\ Place(r, c) + Width = Place(r + 1, c)
  <2>1. r \in 1 .. Height /\ r + 1 \in 1 .. Height
    BY <1>1
  <2>2. Place(r, c) \in Memory /\ Place(r + 1, c) \in Visible
    BY <2>1, PlaceThere
  <2>3. (r + 1 - 1) * Width = (r - 1) * Width + Width /\ (r - 1) * Width \in Int
    BY <1>1
  <2>4. Place(r, c) + Width = Place(r + 1, c) /\ Place(r, c) \in Int
    BY <1>1, <2>3 DEF Place
  <2>5. Place(r + 1, c) \in Int /\ Place(r + 1, c) < Width * Height
    BY <2>2, Measures
  <2> HIDE DEF last
  <2> QED
    BY <1>1, <1>7, <2>2, <2>4, <2>5
<1>9. ASSUME NEW c \in 1 .. Width
      PROVE  Place(Height, c) \in Memory /\ Place(Height, c) \in last .. size - 1
  <2>1. Place(Height, c) \in Memory
    BY <1>1, PlaceThere
  <2>2. Place(Height, c) = last + c - 1
    BY DEF Place
  <2> HIDE DEF last, size
  <2> QED
    BY <1>1, <1>7, <2>1, <2>2
<1> HIDE DEF last, size
<1>10. \A r \in 1 .. Height - 1, c \in 1 .. Width : Scrolled(b)[Place(r, c)] = b[Place(r + 1, c)]
  <2> SUFFICES ASSUME NEW r \in 1 .. Height - 1, NEW c \in 1 .. Width
               PROVE  Scrolled(b)[Place(r, c)] = b[Place(r + 1, c)]
    OBVIOUS
  <2>1. Place(r, c) \in Memory /\ Place(r, c) < last /\ Place(r, c) + Width = Place(r + 1, c)
    BY <1>8
  <2>2. Place(r, c) \notin last .. size - 1
    BY <1>7, <2>1
  <2> QED
    BY <1>7, <2>1, <2>2
<1>11. \A c \in 1 .. Width : Scrolled(b)[Place(Height, c)] = Blank(vga_color)
  BY <1>7, <1>9
<1>12. ASSUME NEW r \in 1 .. Height
       PROVE  Cells(Scrolled(b))[r] = A[r]
  <2>1. Cells(Scrolled(b))[r] = [c \in 1 .. Width |-> Scrolled(b)[Place(r, c)]]
    BY DEF Cells, Place
  <2>2. CASE r = Height
    <3>1. Cells(Scrolled(b))[r] = [c \in 1 .. Width |-> Blank(vga_color)]
      BY <1>11, <2>1, <2>2
    <3> QED
      BY <1>6, <2>2, <3>1
      DEF Lines!BlankLine, Lines!Blank, Lines!Space, Lines!vga_entry, Blank, Space, vga_entry
  <2>3. CASE r # Height
    <3>1. r \in 1 .. Height - 1 /\ r + 1 \in 1 .. Height
      BY <1>1, <2>3
    <3>2. L[r + 1] = [c \in 1 .. Width |-> b[Place(r + 1, c)]]
      BY <3>1 DEF L, Cells, Place
    <3> QED
      BY <1>6, <1>10, <2>1, <3>1, <3>2
  <2> QED
    BY <2>2, <2>3
<1>13. Cells(Scrolled(b)) = [r \in 1 .. Height |-> Cells(Scrolled(b))[r]]
  BY DEF Cells
<1>14. Cells(Scrolled(b)) = A
  BY <1>6, <1>12, <1>13
<1> QED
  BY <1>14 DEF A, T, L

----------------------------------------------------------------------------
\* The routines.
LEMMA ScreenFields ==
  ASSUME NEW s \in Screens
  PROVE  /\ s = [buffer |-> s.buffer, row |-> s.row, column |-> s.column]
         /\ s.buffer \in [Memory -> CellOrForeign] /\ s.row \in Rows
         /\ s.column \in (-Width) .. Width /\ s.row \in Nat /\ s.column \in Int
         /\ s.row * Width \in Nat /\ s.row * Width + Width <= Width * Height
<1>1. /\ s = [buffer |-> s.buffer, row |-> s.row, column |-> s.column]
      /\ s.buffer \in [Memory -> CellOrForeign] /\ s.row \in Rows
      /\ s.column \in (-Width) .. Width
  BY DEF Screens
<1> QED
  BY <1>1, Measures, RowBelow DEF Rows

LEMMA BlankIsCell ==
  ASSUME NEW color \in Colors
  PROVE  Blank(color) \in CellOrForeign /\ Lines!Blank(color) = Blank(color)
BY DEF Blank, vga_entry, Space, CellOrForeign, Lines!Blank, Lines!vga_entry, Lines!Space

\* What the operators of Text do, field by field.
LEMMA NewLineFields ==
  ASSUME NEW L, NEW r, NEW c, NEW p, p = [lines |-> L, row |-> r, column |-> c]
  PROVE  /\ r < Height - 1 =>
              Lines!NewLine(p) = [lines |-> L, row |-> r + 1, column |-> 0]
         /\ ~(r < Height - 1) =>
              Lines!NewLine(p) = [lines |-> Append(Tail(L), Lines!BlankLine),
                                  row |-> r, column |-> 0]
BY DEF Lines!NewLine

LEMMA TypedFields ==
  ASSUME NEW L, NEW r, NEW c, NEW p, p = [lines |-> L, row |-> r, column |-> c], NEW cell,
         c # Width
  PROVE  /\ c < 0 => Lines!Typed(p, cell) = [lines |-> L, row |-> r, column |-> c + 1]
         /\ ~(c < 0) => Lines!Typed(p, cell) =
                           [lines |-> Put(L, r + 1, c + 1, cell), row |-> r, column |-> c + 1]
BY DEF Lines!Typed, Put

LEMMA NewLineRight ==
  ASSUME NEW s \in Screens
  PROVE  LET t == vga_new_line(s)
         IN  /\ t \in Screens /\ t.column = 0
             /\ Look(t) = Lines!NewLine(Look(s))
             /\ Spill(s, t)
<1> DEFINE t == vga_new_line(s)
           p == Look(s)
<1>1. /\ s = [buffer |-> s.buffer, row |-> s.row, column |-> s.column]
      /\ s.buffer \in [Memory -> CellOrForeign] /\ s.row \in Rows
      /\ Width \in Nat \ {0} /\ Height \in Nat \ {0}
  BY ScreenFields, Measures
<1>2. p = [lines |-> Cells(s.buffer), row |-> s.row, column |-> s.column]
  BY DEF Look
<1>3. CASE s.row < Height - 1
  <2>1. t = [buffer |-> s.buffer, row |-> s.row + 1, column |-> 0]
    <3>1. t = [[s EXCEPT !.row = @ + 1] EXCEPT !.column = 0]
      BY <1>3 DEF vga_new_line
    <3> QED
      BY <1>1, <3>1
  <2>2. s.row + 1 \in Rows /\ 0 \in (-Width) .. Width
    BY <1>1, <1>3 DEF Rows
  <2>3. t \in Screens
    BY <1>1, <2>1, <2>2 DEF Screens
  <2>4. Look(t) = [lines |-> Cells(s.buffer), row |-> s.row + 1, column |-> 0]
    BY <2>1 DEF Look
  <2>5. Lines!NewLine(p) = [lines |-> Cells(s.buffer), row |-> s.row + 1, column |-> 0]
    <3> HIDE DEF p
    <3> QED
      BY <1>2, <1>3, NewLineFields
  <2>6. Spill(s, t)
    BY <2>1 DEF Spill
  <2> QED
    BY <2>1, <2>3, <2>4, <2>5, <2>6
<1>4. CASE ~(s.row < Height - 1)
  <2>1. vga_scroll_up(s) = [buffer |-> Scrolled(s.buffer), row |-> s.row, column |-> s.column]
    BY <1>1, ScrolledUp DEF Scrolled
  <2>2. t = [buffer |-> Scrolled(s.buffer), row |-> s.row, column |-> 0]
    BY <1>4, <2>1 DEF vga_new_line
  <2>3. t \in Screens
    BY <1>1, <2>2, ScrolledMemory DEF Screens
  <2>4. Look(t) = [lines |-> Append(Tail(Cells(s.buffer)), Lines!BlankLine),
                   row |-> s.row, column |-> 0]
    <3>1. /\ Cells(Scrolled(s.buffer)) = Append(Tail(Cells(s.buffer)), Lines!BlankLine)
          /\ t.buffer = Scrolled(s.buffer) /\ t.row = s.row /\ t.column = 0
      BY <1>1, <2>2, ScrolledCells
    <3> HIDE DEF t
    <3> QED
      BY <3>1 DEF Look
  <2>5. Lines!NewLine(p) = [lines |-> Append(Tail(Cells(s.buffer)), Lines!BlankLine),
                            row |-> s.row, column |-> 0]
    <3> HIDE DEF p
    <3> QED
      BY <1>2, <1>4, NewLineFields
  <2>6. Spill(s, t)
    BY <1>1, <2>2, ScrolledMemory DEF Spill
  <2> QED
    BY <2>2, <2>3, <2>4, <2>5, <2>6
<1> QED
  BY <1>3, <1>4

LEMMA StampRight ==
  ASSUME NEW s \in Screens, LeftAtHome(s), s.column > -Width, NEW cell \in CellOrForeign
  PROVE  LET t == Stamp(s, cell)
         IN  /\ t \in Screens /\ LeftAtHome(t)
             /\ Look(t) = Lines!Typed(Look(s), cell)
             /\ Spill(s, t)
<1> DEFINE u == IF s.column = Width THEN vga_new_line(s) ELSE s
           t == Stamp(s, cell)
           n == u.row * Width + u.column
<1>1. /\ u \in Screens /\ Spill(s, u) /\ LeftAtHome(u)
      /\ u.column \in (-Width) .. Width - 1
      /\ Look(u) = IF s.column = Width THEN Lines!NewLine(Look(s)) ELSE Look(s)
      /\ u.column < 0 => u = s
  <2>1. CASE s.column = Width
    BY <2>1, NewLineRight, Measures DEF LeftAtHome
  <2>2. CASE s.column # Width
    BY <2>2, ScreenFields, Measures DEF Spill
  <2> QED
    BY <2>1, <2>2
<1>2. Stamp(s, cell) = [u EXCEPT !.buffer[Index(u)] = cell, !.column = @ + 1]
  BY DEF Stamp
<1>3. Lines!Typed(Look(s), cell) = Lines!Typed(Look(u), cell) /\ u.column # Width
  <2>1. Look(s).column = s.column /\ Look(u).column = u.column
    BY DEF Look
  <2>2. u.column # Width
    BY <1>1, Measures
  <2> HIDE DEF u
  <2> QED
    BY <1>1, <2>1, <2>2 DEF Lines!Typed
<1> HIDE DEF u
<1>4. /\ u = [buffer |-> u.buffer, row |-> u.row, column |-> u.column]
      /\ u.buffer \in [Memory -> CellOrForeign] /\ u.row \in Rows
      /\ u.row \in Nat /\ u.column \in Int /\ u.column < Width /\ Width \in Nat \ {0}
  BY <1>1, ScreenFields, Measures
<1>5. t = [buffer |-> [u.buffer EXCEPT ![n] = cell], row |-> u.row, column |-> u.column + 1]
  BY <1>2, <1>4 DEF Index
<1>6. [u.buffer EXCEPT ![n] = cell] \in [Memory -> CellOrForeign]
  BY <1>4
<1>7. u.column + 1 \in (-Width) .. Width
  BY <1>1, Measures
<1>8. t \in Screens
  BY <1>4, <1>5, <1>6, <1>7 DEF Screens
<1>9. LeftAtHome(t)
  BY <1>1, <1>4, <1>5 DEF LeftAtHome
<1>10. Look(t) = [lines |-> Cells([u.buffer EXCEPT ![n] = cell]),
                  row |-> u.row, column |-> u.column + 1]
  BY <1>5 DEF Look
<1>11. Look(u) = [lines |-> Cells(u.buffer), row |-> u.row, column |-> u.column]
  BY DEF Look
<1> DEFINE p == Look(u)
<1>14. /\ u.column < 0 => Lines!Typed(p, cell) = [lines |-> Cells(u.buffer), row |-> u.row, column |-> u.column + 1]
       /\ ~(u.column < 0) =>
            Lines!Typed(p, cell) =
              [lines |-> Put(Cells(u.buffer), u.row + 1, u.column + 1, cell),
               row |-> u.row, column |-> u.column + 1]
  <2> HIDE DEF p
  <2> QED
    BY <1>3, <1>11, TypedFields DEF p
<1>12. CASE u.column < 0
  <2>1. u = s /\ u.row = 0 /\ n = u.column
    BY <1>1, <1>4, <1>12 DEF LeftAtHome
  <2>2. n \notin Visible
    BY <1>4, <1>12, <2>1, Measures
  <2>3. Cells([u.buffer EXCEPT ![n] = cell]) = Cells(u.buffer)
    BY <1>4, <2>2, PutElsewhere
  <2>4. Lines!Typed(Look(s), cell) = [lines |-> Cells(u.buffer), row |-> u.row, column |-> u.column + 1]
    BY <1>3, <1>12, <1>14
  <2>5. \A k \in Memory \ Visible : t.buffer[k] = s.buffer[k] \/ k = n
    BY <1>4, <1>5, <2>1
  <2>6. n < 0 /\ s.row = 0 /\ s.column <= 0
    BY <1>4, <1>12, <2>1
  <2>7. Spill(s, t)
    BY <2>5, <2>6 DEF Spill
  <2> QED
    BY <1>8, <1>9, <1>10, <2>3, <2>4, <2>7
<1>13. CASE ~(u.column < 0)
  <2>1. u.column \in 0 .. Width - 1
    BY <1>4, <1>13
  <2>2. n \in Visible
    BY <1>4, <2>1, CellAt
  <2>3. Cells([u.buffer EXCEPT ![n] = cell]) = Put(Cells(u.buffer), u.row + 1, u.column + 1, cell)
    <3> DEFINE b == u.buffer
               r == u.row
               c == u.column
    <3>1. b \in [Memory -> CellOrForeign] /\ r \in Rows /\ c \in 0 .. Width - 1
      BY <1>4, <2>1
    <3> HIDE DEF b, r, c
    <3>2. Cells([b EXCEPT ![r * Width + c] = cell]) = Put(Cells(b), r + 1, c + 1, cell)
      BY <3>1, PutThere
    <3> QED
      BY <3>2 DEF b, r, c
  <2>4. Lines!Typed(Look(s), cell) =
          [lines |-> Put(Cells(u.buffer), u.row + 1, u.column + 1, cell),
           row |-> u.row, column |-> u.column + 1]
    BY <1>3, <1>13, <1>14
  <2>5. \A k \in Memory \ Visible : t.buffer[k] = u.buffer[k]
    BY <1>4, <1>5, <2>2
  <2>6. Spill(s, t)
    BY <1>1, <2>5 DEF Spill
  <2> QED
    BY <1>8, <1>9, <1>10, <2>3, <2>4, <2>6
<1> QED
  BY <1>12, <1>13

LEMMA ErasedFields ==
  ASSUME NEW L, NEW r, NEW c, NEW p, p = [lines |-> L, row |-> r, column |-> c], NEW blank
  PROVE  /\ c > 0 => Lines!Erased(p, blank) =
                        [lines |-> Put(L, r + 1, c, blank), row |-> r, column |-> c - 1]
         /\ ~(c > 0) /\ r > 0 =>
              Lines!Erased(p, blank) =
                [lines |-> Put(L, r, Width, blank), row |-> r - 1, column |-> Width - 1]
         /\ ~(c > 0) /\ ~(r > 0) =>
              Lines!Erased(p, blank) = [lines |-> L, row |-> r, column |-> c - 1]
BY DEF Lines!Erased, Put

LEMMA BackspaceRight ==
  ASSUME NEW s \in Screens, LeftAtHome(s), s.column > -Width, NEW blank \in CellOrForeign
  PROVE  LET t == Backspace(s, blank)
         IN  /\ t \in Screens /\ LeftAtHome(t)
             /\ Look(t) = Lines!Erased(Look(s), blank)
             /\ Spill(s, t)
<1> DEFINE b == s.buffer
           r == s.row
           c == s.column
           t == Backspace(s, blank)
           p == Look(s)
<1>1. /\ s = [buffer |-> b, row |-> r, column |-> c]
      /\ b \in [Memory -> CellOrForeign] /\ r \in Rows /\ r \in Nat /\ r * Width \in Nat
      /\ c \in Int /\ -Width < c /\ c <= Width /\ Width \in Nat \ {0}
  BY ScreenFields, Measures
<1>2. p = [lines |-> Cells(b), row |-> r, column |-> c]
  BY DEF Look
<1>3. c < 0 => r = 0
  BY DEF LeftAtHome
<1> HIDE DEF b, r, c
<1>4. ASSUME NEW row \in Rows, NEW col, NEW k,
             t = [buffer |-> [b EXCEPT ![k] = blank], row |-> row, column |-> col],
             col \in (-Width) .. Width, col < 0 => row = 0,
             k \in Visible \/ (k < 0 /\ r = 0 /\ c <= 0)
      PROVE  t \in Screens /\ LeftAtHome(t) /\ Spill(s, t)
  <2> HIDE DEF t
  <2>1. t \in Screens /\ LeftAtHome(t)
    BY <1>1, <1>4 DEF Screens, LeftAtHome
  <2>2. \A n \in Memory \ Visible : t.buffer[n] = b[n] \/ n = k
    BY <1>1, <1>4
  <2>3. s.buffer = b /\ s.row = r /\ s.column = c
    BY <1>1
  <2>4. Spill(s, t)
    BY <1>4, <2>2, <2>3 DEF Spill
  <2> QED
    BY <2>1, <2>4
<1>5. CASE c > 0
  <2> DEFINE k == r * Width + (c - 1)
  <2>1. c - 1 \in 0 .. Width - 1 /\ k \in Visible
    BY <1>1, <1>5, CellAt
  <2>2. t = [s EXCEPT !.buffer[Index(s) - 1] = blank, !.column = @ - 1]
    <3>1. s.column # 0
      BY <1>1, <1>5
    <3> QED
      BY <3>1 DEF Backspace
  <2>3. Index(s) - 1 = k
    BY <1>1 DEF Index
  <2>4. t = [buffer |-> [b EXCEPT ![k] = blank], row |-> r, column |-> c - 1]
    BY <1>1, <2>2, <2>3
  <2>5. t \in Screens /\ LeftAtHome(t) /\ Spill(s, t)
    <3>1. c - 1 \in (-Width) .. Width /\ ~(c - 1 < 0)
      BY <1>1, <1>5
    <3> HIDE DEF k, t
    <3> QED
      BY <1>1, <1>4, <2>1, <2>4, <3>1
  <2>6. Cells([b EXCEPT ![k] = blank]) = Put(Cells(b), r + 1, c - 1 + 1, blank)
    BY <1>1, <2>1, PutThere
  <2>7. c - 1 + 1 = c
    BY <1>1
  <2>8. Look(t) = [lines |-> Put(Cells(b), r + 1, c, blank), row |-> r, column |-> c - 1]
    BY <2>4, <2>6, <2>7 DEF Look
  <2>9. Lines!Erased(p, blank) = [lines |-> Put(Cells(b), r + 1, c, blank), row |-> r, column |-> c - 1]
    <3> HIDE DEF p
    <3> QED
      BY <1>2, <1>5, ErasedFields
  <2> QED
    BY <2>5, <2>8, <2>9
<1>6. CASE ~(c > 0) /\ r > 0
  <2> DEFINE row == r - 1
             col == Width - 1
             k == row * Width + col
             u == [buffer |-> b, row |-> row, column |-> Width]
  <2>1. c = 0 /\ row \in Rows /\ col \in 0 .. Width - 1
    <3>1. c = 0
      BY <1>1, <1>3, <1>6
    <3>2. r \in 0 .. Height - 1 /\ Height \in Nat
      BY <1>1, Measures DEF Rows
    <3> QED
      BY <1>1, <1>6, <3>1, <3>2 DEF Rows
  <2>2. k \in Visible
    BY <2>1, CellAt
  <2>3. t = [u EXCEPT !.buffer[Index(u) - 1] = blank, !.column = @ - 1]
    <3>1. [s EXCEPT !.row = @ - 1, !.column = Width] = u
      <4> DEFINE m == [s EXCEPT !.row = @ - 1]
      <4>1. m = [buffer |-> b, row |-> row, column |-> c]
        BY <1>1
      <4>2. [s EXCEPT !.row = @ - 1, !.column = Width] = [m EXCEPT !.column = Width]
        OBVIOUS
      <4> HIDE DEF m
      <4> QED
        BY <4>1, <4>2
    <3> HIDE DEF u
    <3> QED
      BY <1>1, <1>6, <2>1, <3>1 DEF Backspace
  <2>4. Index(u) - 1 = k
    <3>1. row * Width \in Int
      BY <1>1
    <3> HIDE DEF row
    <3> QED
      BY <1>1, <3>1 DEF Index
  <2>5. t = [buffer |-> [b EXCEPT ![k] = blank], row |-> row, column |-> col]
    BY <2>3, <2>4
  <2>6. t \in Screens /\ LeftAtHome(t) /\ Spill(s, t)
    <3>1. col \in (-Width) .. Width /\ ~(col < 0)
      BY <1>1
    <3> HIDE DEF k, t, col, row
    <3> QED
      BY <1>4, <2>1, <2>2, <2>5, <3>1
  <2>7. Cells([b EXCEPT ![k] = blank]) = Put(Cells(b), row + 1, col + 1, blank)
    <3> HIDE DEF row, col
    <3> QED
      BY <1>1, <2>1, PutThere
  <2>8. row + 1 = r /\ col + 1 = Width
    BY <1>1
  <2>9. Look(t) = [lines |-> Put(Cells(b), r, Width, blank), row |-> row, column |-> col]
    BY <2>5, <2>7, <2>8 DEF Look
  <2>10. Lines!Erased(p, blank) = [lines |-> Put(Cells(b), r, Width, blank), row |-> row, column |-> col]
    <3> HIDE DEF p
    <3> QED
      BY <1>2, <1>6, ErasedFields
  <2> QED
    BY <2>6, <2>9, <2>10
<1>7. CASE ~(c > 0) /\ ~(r > 0)
  <2> DEFINE k == Index(s) - 1
  <2>1. r = 0 /\ k = c - 1 /\ k < 0
    <3>1. r = 0
      BY <1>1, <1>7
    <3>2. Index(s) = 0 * Width + c
      BY <1>1, <3>1 DEF Index
    <3> QED
      BY <1>1, <1>7, <3>1, <3>2
  <2>2. t = [s EXCEPT !.buffer[k] = blank, !.column = @ - 1]
    BY <1>1, <2>1 DEF Backspace
  <2> HIDE DEF k
  <2>3. t = [buffer |-> [b EXCEPT ![k] = blank], row |-> r, column |-> c - 1]
    BY <1>1, <2>2
  <2>4. t \in Screens /\ LeftAtHome(t) /\ Spill(s, t)
    <3>1. c - 1 \in (-Width) .. Width /\ c <= 0
      BY <1>1, <1>7
    <3> HIDE DEF t
    <3> QED
      BY <1>1, <1>4, <2>1, <2>3, <3>1
  <2>5. Cells([b EXCEPT ![k] = blank]) = Cells(b)
    <3>1. k \notin Visible
      BY <1>1, <2>1, Measures
    <3> QED
      BY <1>1, <3>1, PutElsewhere
  <2>6. Look(t) = [lines |-> Cells(b), row |-> r, column |-> c - 1]
    BY <2>3, <2>5 DEF Look
  <2>7. Lines!Erased(p, blank) = [lines |-> Cells(b), row |-> r, column |-> c - 1]
    <3> HIDE DEF p
    <3> QED
      BY <1>2, <1>7, ErasedFields
  <2> QED
    BY <2>4, <2>6, <2>7
<1> QED
  BY <1>5, <1>6, <1>7

LEMMA TabRight ==
  ASSUME NEW s \in Screens, LeftAtHome(s), NEW blank \in CellOrForeign
  PROVE  LET t == Tab(s, blank)
         IN  /\ t \in Screens /\ LeftAtHome(t)
             /\ Look(t) = Lines!Wiped(Look(s), blank)
<1> DEFINE b == s.buffer
           t == Tab(s, blank)
           p == Look(s)
           b2 == [i \in Memory |-> IF i >= Index(s) THEN blank ELSE b[i]]
           x == s.row * Width + s.column
<1>1. /\ s = [buffer |-> b, row |-> s.row, column |-> s.column]
      /\ b \in [Memory -> CellOrForeign] /\ s.row \in Rows /\ x \in Int
      /\ s.column \in (-Width) .. Width /\ Width \in Nat \ {0}
  BY ScreenFields, Measures
<1>2. t = [buffer |-> b2, row |-> s.row, column |-> s.column]
  BY <1>1 DEF Tab
<1>3. b2 \in [Memory -> CellOrForeign]
  BY <1>1
<1>4. Index(s) = x
  BY DEF Index
<1>5. t \in Screens /\ LeftAtHome(t)
  <2> HIDE DEF b2
  <2> QED
    BY <1>1, <1>2, <1>3 DEF Screens, LeftAtHome
<1>6. Lines!Wiped(p, blank) =
        [p EXCEPT !.lines = [r \in 1 .. Height |-> [c \in 1 .. Width |->
           IF (r - 1) * Width + c > p.row * Width + p.column THEN blank ELSE @[r][c]]]]
  BY DEF Lines!Wiped
<1>7. p = [lines |-> Cells(b), row |-> s.row, column |-> s.column]
  BY DEF Look
<1>8. Lines!Wiped(p, blank) =
        [lines |-> [r \in 1 .. Height |-> [c \in 1 .. Width |->
           IF (r - 1) * Width + c > x THEN blank ELSE Cells(b)[r][c]]],
         row |-> s.row, column |-> s.column]
  <2> DEFINE L == [r \in 1 .. Height |-> [c \in 1 .. Width |->
                    IF (r - 1) * Width + c > x THEN blank ELSE Cells(b)[r][c]]]
  <2>1. Lines!Wiped(p, blank) = [p EXCEPT !.lines = L]
    <3>1. p.lines = Cells(b) /\ p.row * Width + p.column = x
      BY <1>7
    <3> HIDE DEF p, x
    <3> QED
      BY <1>6, <3>1
  <2> HIDE DEF p, L
  <2>2. [p EXCEPT !.lines = L] = [lines |-> L, row |-> s.row, column |-> s.column]
    BY <1>7
  <2> QED
    BY <2>1, <2>2 DEF L
<1> HIDE DEF x
<1>9. ASSUME NEW r \in 1 .. Height, NEW c \in 1 .. Width
      PROVE  b2[Place(r, c)] = IF (r - 1) * Width + c > x THEN blank ELSE Cells(b)[r][c]
  <2>1. Place(r, c) \in Memory
    BY PlaceThere
  <2>2. (r - 1) * Width \in Int
    BY <1>1, Measures
  <2>3. Place(r, c) >= x <=> (r - 1) * Width + c > x
    BY <1>1, <2>2 DEF Place
  <2>4. Cells(b)[r][c] = b[Place(r, c)]
    BY CellsAre
  <2> QED
    BY <1>4, <2>1, <2>3, <2>4
<1>10. Cells(b2) = [r \in 1 .. Height |-> [c \in 1 .. Width |->
           IF (r - 1) * Width + c > x THEN blank ELSE Cells(b)[r][c]]]
  <2>1. Cells(b2) = [r \in 1 .. Height |-> [c \in 1 .. Width |-> b2[Place(r, c)]]]
    BY DEF Cells, Place
  <2> HIDE DEF b2
  <2> QED
    BY <1>9, <2>1
<1>11. Look(t) = [lines |-> Cells(b2), row |-> s.row, column |-> s.column]
  BY <1>2 DEF Look
<1> QED
  BY <1>5, <1>8, <1>10, <1>11

----------------------------------------------------------------------------
\* A character, whichever it is.
TextStep(p, q) ==
  \/ \E cell \in Lines!Cell : q = Lines!Typed(p, cell)
  \/ q = Lines!NewLine(p)
  \/ \E color \in Colors : \/ q = Lines!Erased(p, Lines!Blank(color))
                           \/ q = Lines!Wiped(p, Lines!Blank(color))
  \/ q = [p EXCEPT !.column = 0]
  \/ \E r \in 0 .. Height - 1, c \in 0 .. Width : q = [p EXCEPT !.row = r, !.column = c]

LEMMA CellsOfText ==
  /\ Lines!Cell \subseteq CellOrForeign
  /\ \A ch \in Chars, color \in Colors : vga_entry(ch, color) \in Lines!Cell
BY DEF Lines!Cell, Lines!Space, Space, CellOrForeign, vga_entry

\* What a routine does with the screen as it is.
Fits(t) == t \in Screens /\ LeftAtHome(t) /\ TextStep(Look(Screen), Look(t))

LEMMA ScreenIsOne ==
  ASSUME TypeOK
  PROVE  /\ Screen \in Screens /\ Screen.column > -Width
         /\ Screen = [buffer |-> vga_buffer, row |-> vga_row, column |-> vga_column]
<1>1. /\ vga_buffer \in [Memory -> CellOrForeign] /\ vga_row \in Rows
      /\ vga_column \in 1 - Width .. Width /\ Width \in Nat
  BY Measures DEF TypeOK, CellOrForeign, Rows
<1>2. vga_column \in (-Width) .. Width /\ vga_column > -Width
  BY <1>1
<1> QED
  BY <1>1, <1>2 DEF Screen, Screens

LEMMA Characters ==
  ASSUME TypeOK, LeftAtHome(Screen), NEW color \in Colors, NEW ch \in Chars \cup Controls
  PROVE  LET t == vga_put(Screen, color, ch)
         IN  Fits(t) /\ (ch # "tab" => Spill(Screen, t))
<1> DEFINE s == Screen
           t == vga_put(s, color, ch)
<1>1. s \in Screens /\ s.column > -Width /\ LeftAtHome(s)
  BY ScreenIsOne
<1>2. Blank(color) \in CellOrForeign /\ Lines!Blank(color) = Blank(color)
  BY BlankIsCell
<1> SUFFICES Fits(t) /\ (ch # "tab" => Spill(s, t))
  OBVIOUS
<1>3. CASE ch = "nl"
  <2>1. t = vga_new_line(s)
    BY <1>3 DEF vga_put
  <2>2. t \in Screens /\ t.column = 0 /\ Look(t) = Lines!NewLine(Look(s)) /\ Spill(s, t)
    BY <1>1, <2>1, NewLineRight
  <2> HIDE DEF t
  <2> QED
    BY <2>2 DEF Fits, TextStep, LeftAtHome
<1>4. CASE ch = "cr"
  <2>1. t = [s EXCEPT !.column = 0]
    BY <1>4 DEF vga_put
  <2> HIDE DEF t, s
  <2>2. t = [buffer |-> s.buffer, row |-> s.row, column |-> 0]
    BY <1>1, <2>1, ScreenFields
  <2>3. t \in Screens
    BY <1>1, <2>2, ScreenFields, Measures DEF Screens
  <2>4. Look(t) = [Look(s) EXCEPT !.column = 0]
    <3>1. Look(t) = [lines |-> Cells(s.buffer), row |-> s.row, column |-> 0]
      BY <2>2 DEF Look
    <3>2. Look(s) = [lines |-> Cells(s.buffer), row |-> s.row, column |-> s.column]
      BY DEF Look
    <3> QED
      BY <3>1, <3>2
  <2>5. Spill(s, t)
    BY <2>2 DEF Spill
  <2>6. LeftAtHome(t)
    BY <2>2 DEF LeftAtHome
  <2>7. TextStep(Look(s), Look(t))
    BY <2>4 DEF TextStep
  <2> QED
    BY <2>3, <2>5, <2>6, <2>7 DEF Fits, s
<1>5. CASE ch = "bs"
  <2>1. t = Backspace(s, Blank(color))
    BY <1>5 DEF vga_put
  <2>2. /\ t \in Screens /\ LeftAtHome(t)
        /\ Look(t) = Lines!Erased(Look(s), Lines!Blank(color)) /\ Spill(s, t)
    BY <1>1, <1>2, <2>1, BackspaceRight
  <2> HIDE DEF t
  <2> QED
    BY <2>2 DEF Fits, TextStep
<1>6. CASE ch = "tab"
  <2>1. t = Tab(s, Blank(color))
    BY <1>6 DEF vga_put
  <2>2. t \in Screens /\ LeftAtHome(t) /\ Look(t) = Lines!Wiped(Look(s), Lines!Blank(color))
    BY <1>1, <1>2, <2>1, TabRight
  <2> HIDE DEF t
  <2> QED
    BY <1>6, <2>2 DEF Fits, TextStep
<1>7. CASE ch \notin Controls
  <2>1. ch \in Chars /\ ch # "nl" /\ ch # "cr" /\ ch # "bs" /\ ch # "tab"
    BY <1>7 DEF Controls
  <2>2. t = Stamp(s, vga_entry(ch, color))
    BY <2>1 DEF vga_put
  <2>3. vga_entry(ch, color) \in Lines!Cell /\ vga_entry(ch, color) \in CellOrForeign
    BY <2>1, CellsOfText
  <2>4. /\ t \in Screens /\ LeftAtHome(t)
        /\ Look(t) = Lines!Typed(Look(s), vga_entry(ch, color)) /\ Spill(s, t)
    BY <1>1, <2>2, <2>3, StampRight
  <2> HIDE DEF t
  <2> QED
    BY <2>3, <2>4 DEF Fits, TextStep
<1> QED
  BY <1>3, <1>4, <1>5, <1>6, <1>7 DEF Controls

\* What vga_printf makes of a character.
LEMMA FormatCharacters ==
  ASSUME TypeOK, LeftAtHome(Screen), NEW ch \in Chars \cup {"nl"}
  PROVE  LET t == IF ch = "nl" THEN vga_new_line(Screen)
                  ELSE Stamp(Screen, vga_entry(ch, vga_color))
         IN  Fits(t) /\ Spill(Screen, t)
<1> DEFINE s == Screen
           t == IF ch = "nl" THEN vga_new_line(s) ELSE Stamp(s, vga_entry(ch, vga_color))
<1>1. s \in Screens /\ s.column > -Width /\ LeftAtHome(s)
  BY ScreenIsOne
<1> SUFFICES Fits(t) /\ Spill(s, t)
  OBVIOUS
<1>2. CASE ch = "nl"
  <2>1. t = vga_new_line(s)
    BY <1>2
  <2>2. t \in Screens /\ t.column = 0 /\ Look(t) = Lines!NewLine(Look(s)) /\ Spill(s, t)
    BY <1>1, <2>1, NewLineRight
  <2> HIDE DEF t
  <2> QED
    BY <2>2 DEF Fits, TextStep, LeftAtHome
<1>3. CASE ch # "nl"
  <2>1. ch \in Chars /\ vga_color \in Colors
    BY <1>3, ScreenAssumption
  <2>2. t = Stamp(s, vga_entry(ch, vga_color))
    BY <1>3
  <2>3. vga_entry(ch, vga_color) \in Lines!Cell /\ vga_entry(ch, vga_color) \in CellOrForeign
    BY <2>1, CellsOfText
  <2>4. /\ t \in Screens /\ LeftAtHome(t)
        /\ Look(t) = Lines!Typed(Look(s), vga_entry(ch, vga_color)) /\ Spill(s, t)
    BY <1>1, <2>2, <2>3, StampRight
  <2> HIDE DEF t
  <2> QED
    BY <2>3, <2>4 DEF Fits, TextStep
<1> QED
  BY <1>2, <1>3

----------------------------------------------------------------------------
\* The invariant.
Settled ==
  /\ crt' \in 0 .. CursorSpan - 1
  /\ mode' \in {"idle", "printf", "hung", "lost"}
  /\ mode' = "idle" => crt' = (vga_row' * Width + vga_column') % CursorSpan

LEMMA BecomesInv ==
  ASSUME NEW t \in Screens, LeftAtHome(t), Becomes(t), Settled
  PROVE  ScreenInv'
<1>1. /\ t.buffer \in [Memory -> CellOrForeign] /\ t.row \in Rows
      /\ t.column \in (-Width) .. Width /\ t.column > -Width /\ Width \in Nat
  BY ScreenFields, Measures DEF Becomes
<1>2. vga_buffer' = t.buffer /\ vga_row' = t.row /\ vga_column' = t.column
  BY DEF Becomes
<1>3. t.column \in 1 - Width .. Width
  BY <1>1
<1>4. TypeOK'
  BY <1>1, <1>2, <1>3 DEF TypeOK, Settled, CellOrForeign, Rows
<1>5. CursorShown'
  BY <1>4 DEF CursorShown, Settled, Index, Screen
<1>6. LeftAtHome(Screen)'
  BY <1>2 DEF LeftAtHome, Screen
<1> QED
  BY <1>5, <1>6 DEF ScreenInv

LEMMA CursorValue ==
  ASSUME NEW t \in Screens
  PROVE  Index(t) \in Int /\ Index(t) % CursorSpan \in 0 .. CursorSpan - 1
<1>1. Index(t) \in Int
  BY ScreenFields DEF Index
<1> QED
  BY <1>1, ScreenAssumption

LEMMA ScreenInit == Init => ScreenInv
<1> SUFFICES ASSUME Init PROVE ScreenInv
  OBVIOUS
<1>1. /\ Width \in Nat \ {0} /\ Height \in Nat \ {0} /\ vga_color \in Colors
      /\ CursorSpan \in Nat \ {0}
  BY ScreenAssumption
<1>2. Blank(vga_color) \in CellOrForeign /\ Foreign \in CellOrForeign
  BY <1>1, BlankIsCell DEF CellOrForeign
<1>3. vga_buffer \in [Memory -> CellOrForeign]
  BY <1>2 DEF Init
<1>4. vga_row = 0 /\ vga_column = 0 /\ crt = 0 /\ mode = "idle"
  BY DEF Init
<1>5. TypeOK
  BY <1>1, <1>3, <1>4 DEF TypeOK, CellOrForeign
<1>6. 0 * Width + 0 = 0 /\ 0 % CursorSpan = 0
  BY <1>1
<1> QED
  BY <1>4, <1>5, <1>6 DEF ScreenInv, CursorShown, LeftAtHome, Screen, Index

\* A step prints, or moves the cursor, or leaves the picture as it is.
Prints == \E t : /\ Fits(t) /\ Becomes(t)
                 /\ mode' = "hung" \/ Spill(Screen, t)
Moves ==
  /\ UNCHANGED vga_buffer
  /\ \E row \in 0 .. Height - 1, col \in 0 .. Width : vga_row' = row /\ vga_column' = col
Stays == UNCHANGED <<vga_buffer, vga_row, vga_column>>

LEMMA StepEffect ==
  ASSUME ScreenInv, [Next]_vars
  PROVE  ScreenInv' /\ (Prints \/ Moves \/ Stays)
<1>1. TypeOK /\ LeftAtHome(Screen) /\ (mode = "idle" => crt = Index(Screen) % CursorSpan)
  BY DEF ScreenInv, CursorShown
<1>2. ASSUME NEW call \in Puts, vga_put_char(call[1], call[2])
      PROVE  ScreenInv' /\ Prints
  <2> DEFINE color == call[1]
             ch == call[2]
             t == vga_put(Screen, color, ch)
  <2>1. color \in Colors /\ ch \in Chars \cup Controls
    BY ScreenAssumption
  <2>2. Becomes(t) /\ IF ch = "tab" THEN mode' = "hung" /\ UNCHANGED crt
                      ELSE vga_update_cursor(t) /\ UNCHANGED mode
    BY <1>2 DEF vga_put_char
  <2> HIDE DEF color, ch
  <2>3. Fits(t) /\ (ch # "tab" => Spill(Screen, t))
    BY <1>1, <2>1, Characters
  <2> HIDE DEF t
  <2>4. t \in Screens /\ LeftAtHome(t)
    BY <2>3 DEF Fits
  <2>5. Settled
    <3>1. CASE ch = "tab"
      BY <1>1, <2>2, <3>1 DEF Settled, TypeOK
    <3>2. CASE ch # "tab"
      <4>1. crt' = Index(t) % CursorSpan /\ mode' = mode
        BY <2>2, <3>2 DEF vga_update_cursor
      <4>2. Index(t) = vga_row' * Width + vga_column'
        BY <2>2 DEF Becomes, Index
      <4> QED
        BY <1>1, <2>4, <4>1, <4>2, CursorValue DEF Settled, TypeOK
    <3> QED
      BY <3>1, <3>2
  <2>6. ScreenInv'
    BY <2>2, <2>4, <2>5, BecomesInv
  <2>7. Prints
    BY <2>2, <2>3 DEF Prints
  <2> QED
    BY <2>6, <2>7
<1>3. ASSUME NEW ch \in Chars \cup {"nl"}, PrintfChar(ch)
      PROVE  ScreenInv' /\ Prints
  <2> DEFINE fresh == vga_new_line(Screen)
             t == IF ch = "nl" THEN fresh ELSE Stamp(Screen, vga_entry(ch, vga_color))
  <2>1. /\ mode = "printf" /\ mode' = mode /\ Becomes(t)
        /\ crt' = Index(fresh) % CursorSpan \/ crt' = crt
    BY <1>3 DEF PrintfChar, vga_update_cursor
  <2>2. Fits(t) /\ Spill(Screen, t)
    BY <1>1, FormatCharacters
  <2>3. fresh \in Screens
    BY <1>1, ScreenIsOne, NewLineRight
  <2> HIDE DEF t, fresh
  <2>4. t \in Screens /\ LeftAtHome(t)
    BY <2>2 DEF Fits
  <2>5. Settled
    BY <1>1, <2>1, <2>3, CursorValue DEF Settled, TypeOK
  <2>6. ScreenInv'
    BY <2>1, <2>4, <2>5, BecomesInv
  <2>7. Prints
    BY <2>1, <2>2 DEF Prints
  <2> QED
    BY <2>6, <2>7
<1>4. CASE vga_printf \/ PrintfNumber
  <2>1. Stays /\ crt' = crt /\ mode' \in {"printf", "lost"}
    BY <1>4 DEF vga_printf, PrintfNumber, Stays
  <2> QED
    BY <1>1, <2>1 DEF Stays, ScreenInv, CursorShown, TypeOK, LeftAtHome, Screen
<1>5. CASE PrintfEnd
  <2>1. Stays /\ crt' = Index(Screen) % CursorSpan /\ mode' = "idle"
    BY <1>5 DEF PrintfEnd, Stays, vga_update_cursor
  <2>2. crt' \in 0 .. CursorSpan - 1
    BY <1>1, <2>1, ScreenIsOne, CursorValue
  <2>3. Index(Screen)' = Index(Screen) /\ LeftAtHome(Screen)' = LeftAtHome(Screen)
    BY <2>1 DEF Stays, Index, Screen, LeftAtHome
  <2>4. TypeOK'
    BY <1>1, <2>1, <2>2 DEF Stays, TypeOK
  <2> QED
    BY <1>1, <2>1, <2>3, <2>4 DEF ScreenInv, CursorShown
<1>6. ASSUME NEW row \in 0 .. Height - 1, NEW col \in 0 .. Width, vga_set_pos(row, col)
      PROVE  ScreenInv' /\ Moves
  <2>1. /\ vga_row' = row /\ vga_column' = col /\ vga_buffer' = vga_buffer /\ mode' = mode
        /\ crt' = (row * Width + col) % CursorSpan
    BY <1>6 DEF vga_set_pos
  <2>2. /\ row \in Int /\ col \in Int /\ Width \in Nat \ {0} /\ CursorSpan \in Nat \ {0}
        /\ row * Width \in Int
    BY Measures, ScreenAssumption
  <2>3. row * Width + col \in Int
    BY <2>2
  <2>4. (row * Width + col) % CursorSpan \in 0 .. CursorSpan - 1
    BY <2>2, <2>3
  <2>5. col \in 1 - Width .. Width /\ ~(col < 0)
    BY <2>2
  <2>6. TypeOK'
    BY <1>1, <2>1, <2>4, <2>5 DEF TypeOK
  <2>7. CursorShown' /\ LeftAtHome(Screen)'
    BY <2>1, <2>5, <2>6 DEF CursorShown, Index, Screen, LeftAtHome
  <2>8. Moves
    BY <2>1 DEF Moves
  <2> QED
    BY <2>7, <2>8 DEF ScreenInv
<1>7. CASE UNCHANGED vars
  BY <1>1, <1>7 DEF vars, Stays, ScreenInv, CursorShown, TypeOK, LeftAtHome, Screen, Index
<1> QED
  BY <1>2, <1>3, <1>4, <1>5, <1>6, <1>7 DEF Next

\* The cursor is shown, and left of the first column it is in the top row
\* (vga.c:48-142).
THEOREM ScreenInvariance == Spec => []ScreenInv
<1>1. ScreenInv /\ [Next]_vars => ScreenInv'
  BY StepEffect
<1> QED
  BY <1>1, ScreenInit, PTL DEF Spec

\* Between calls the blinking cursor is where the next character will be.
THEOREM CursorFollows == Spec => []CursorShown
<1>1. ScreenInv => CursorShown
  BY DEF ScreenInv
<1> QED
  BY <1>1, ScreenInvariance, PTL

\* Printing writes on the screen, or in front of it in the two ways the property
\* names.
THEOREM SpillsOnlyInFront == Spec => SpillsInFront
<1>1. ASSUME ScreenInv, [Next]_vars
      PROVE  \A i \in Memory \ Visible :
               \/ vga_buffer'[i] = vga_buffer[i]
               \/ mode' = "hung"
               \/ i < 0 /\ vga_buffer'[i] = vga_buffer[i + Width]
               \/ i < 0 /\ vga_row = 0 /\ vga_column <= 0
  <2>1. CASE Prints
    <3>1. PICK t : Fits(t) /\ Becomes(t) /\ (mode' = "hung" \/ Spill(Screen, t))
      BY <2>1 DEF Prints
    <3> QED
      BY <3>1 DEF Becomes, Spill, Screen
  <2>2. CASE Moves \/ Stays
    BY <2>2 DEF Moves, Stays
  <2> QED
    BY <1>1, <2>1, <2>2, StepEffect
<1>2. ScreenInv /\ [Next]_vars =>
        [\A i \in Memory \ Visible :
           \/ vga_buffer'[i] = vga_buffer[i]
           \/ mode' = "hung"
           \/ i < 0 /\ vga_buffer'[i] = vga_buffer[i + Width]
           \/ i < 0 /\ vga_row = 0 /\ vga_column <= 0]_vars
  BY <1>1
<1> QED
  BY <1>2, ScreenInvariance, PTL DEF Spec, SpillsInFront

----------------------------------------------------------------------------
\* Screen implements Text.
LEMMA ShownLooks == Shown = Look(Screen)
BY DEF Shown, Look, Cells, Screen

LEMMA ShownInit == Init => Lines!Init
<1> SUFFICES ASSUME Init PROVE Lines!Init
  OBVIOUS
<1>1. \A r \in 1 .. Height, c \in 1 .. Width : vga_buffer[Place(r, c)] = Blank(vga_color)
  BY PlaceThere DEF Init
<1>2. Cells(vga_buffer) = [r \in 1 .. Height |-> Lines!BlankLine]
  BY <1>1
  DEF Cells, Place, Lines!BlankLine, Lines!Blank, Lines!vga_entry, Lines!Space,
      Blank, vga_entry, Space
<1>3. Shown = [lines |-> Cells(vga_buffer), row |-> 0, column |-> 0]
  BY ShownLooks DEF Init, Look, Screen
<1> QED
  BY <1>2, <1>3 DEF Lines!Init

LEMMA ShownNext ==
  ASSUME ScreenInv, [Next]_vars
  PROVE  [Lines!Next]_Shown
<1>1. CASE Prints
  <2>1. PICK t : Fits(t) /\ Becomes(t)
    BY <1>1 DEF Prints
  <2>2. Shown' = Look(t)
    BY <2>1 DEF Shown, Look, Cells, Becomes
  <2>3. TextStep(Shown, Shown')
    BY <2>1, <2>2, ShownLooks DEF Fits
  <2> QED
    BY <2>3 DEF TextStep, Lines!Next
<1>2. CASE Moves
  <2>1. PICK row \in 0 .. Height - 1, col \in 0 .. Width : vga_row' = row /\ vga_column' = col
    BY <1>2 DEF Moves
  <2>2. Shown' = [lines |-> Cells(vga_buffer), row |-> row, column |-> col]
    BY <1>2, <2>1 DEF Moves, Shown, Cells
  <2>3. Shown = [lines |-> Cells(vga_buffer), row |-> vga_row, column |-> vga_column]
    BY DEF Shown, Cells
  <2>4. Shown' = [Shown EXCEPT !.row = row, !.column = col]
    <3> DEFINE p == Shown
               m == [p EXCEPT !.row = row]
    <3>1. [p EXCEPT !.row = row, !.column = col] = [m EXCEPT !.column = col]
      OBVIOUS
    <3>2. p = [lines |-> Cells(vga_buffer), row |-> vga_row, column |-> vga_column]
      BY <2>3
    <3> HIDE DEF p
    <3>3. m = [lines |-> Cells(vga_buffer), row |-> row, column |-> vga_column]
      BY <3>2
    <3> HIDE DEF m
    <3>4. [m EXCEPT !.column = col] = [lines |-> Cells(vga_buffer), row |-> row, column |-> col]
      BY <3>3
    <3> QED
      BY <2>2, <3>1, <3>4 DEF p
  <2> QED
    BY <2>4 DEF Lines!Next
<1>3. CASE Stays
  BY <1>3 DEF Stays, Shown
<1> QED
  BY <1>1, <1>2, <1>3, StepEffect

\* Video memory shows the lines that the text makes, on screens of every size.
THEOREM ImplementsText == Spec => ShowsText
<1>1. ScreenInv /\ [Next]_vars => [Lines!Next]_Shown
  BY ShownNext
<1> QED
  BY <1>1, ShownInit, ScreenInvariance, PTL DEF Spec, ShowsText, Lines!Spec

----------------------------------------------------------------------------
(***************************************************************************)
(* The routines of Strings.  Each is a recursive function, which first has *)
(* to be shown to exist: a function of a finite domain on which every      *)
(* value is made of the value at an argument of less measure.              *)
(***************************************************************************)
Recursive(D, V, n, measure, next, Last, start, step) ==
  /\ n \in Nat /\ measure \in [D -> 0 .. n] /\ next \in [D -> D] /\ Last \subseteq D
  /\ start \in [D -> V] /\ step \in [D -> [V -> V]]
  /\ \A x \in D : x \notin Last => measure[next[x]] < measure[x]

\* Such a function exists: otherwise there is a least measure up to which none does.
LEMMA Recursion ==
  ASSUME NEW D, NEW V, NEW n, NEW measure, NEW next, NEW Last, NEW start, NEW step,
         Recursive(D, V, n, measure, next, Last, start, step)
  PROVE  \E f : /\ f \in [D -> V]
                /\ \A x \in Last : f[x] = start[x]
                /\ \A x \in D : x \notin Last => f[x] = step[x][f[next[x]]]
<1> USE DEF Recursive
<1> DEFINE Value(f, x) == IF x \in Last THEN start[x] ELSE step[x][f[next[x]]]
           Upto(i, f) == \A x \in D : measure[x] <= i => f[x] = Value(f, x)
           Wrong == {i \in 0 .. n : \A f \in [D -> V] : ~Upto(i, f)}
<1>0. \A x \in D : /\ measure[x] \in 0 .. n /\ measure[x] \in Nat /\ next[x] \in D
                   /\ \A f \in [D -> V] : Value(f, x) \in V
  OBVIOUS
<1> HIDE DEF Value
<1>1. SUFFICES ASSUME Wrong # {} PROVE FALSE
  <2>1. n \notin Wrong
    BY <1>1
  <2>2. PICK f \in [D -> V] : Upto(n, f)
    BY <2>1
  <2>3. \A x \in D : f[x] = Value(f, x)
    BY <2>2, <1>0
  <2> QED
    BY <2>3 DEF Value
<1>2. PICK i \in Wrong : \A w \in Wrong : i <= w
  <2>1. Wrong \in SUBSET (0 .. n)
    OBVIOUS
  <2> HIDE DEF Wrong
  <2> QED
    BY <1>1, <2>1, LowestOf
<1>3. i \in 0 .. n /\ i \in Nat /\ \A f \in [D -> V] : ~Upto(i, f)
  OBVIOUS
<1>4. PICK f \in [D -> V] : \A x \in D : measure[x] < i => f[x] = Value(f, x)
  <2>1. CASE i = 0
    <3>1. \A x \in D : ~(measure[x] < i)
      BY <1>0, <2>1
    <3> QED
      BY <3>1
  <2>2. CASE i # 0
    <3>1. i - 1 \in 0 .. n /\ ~(i <= i - 1)
      BY <1>3, <2>2
    <3>2. i - 1 \notin Wrong
      BY <1>2, <3>1
    <3>3. PICK f \in [D -> V] : Upto(i - 1, f)
      BY <3>1, <3>2
    <3>4. \A x \in D : measure[x] < i => measure[x] <= i - 1
      BY <1>0, <1>3
    <3> QED
      BY <3>3, <3>4
  <2> QED
    BY <2>1, <2>2
<1> DEFINE g == [x \in D |-> IF measure[x] < i THEN f[x] ELSE Value(f, x)]
<1>5. g \in [D -> V]
  BY <1>0
<1>6. ASSUME NEW x \in D, measure[x] <= i PROVE Value(g, x) = Value(f, x)
  <2>1. CASE x \in Last
    BY <2>1 DEF Value
  <2>2. CASE x \notin Last
    <3>1. measure[next[x]] < measure[x]
      BY <2>2
    <3>2. measure[next[x]] < i /\ next[x] \in D
      BY <1>0, <1>3, <1>6, <3>1
    <3>3. g[next[x]] = f[next[x]]
      BY <3>2
    <3> QED
      BY <3>3 DEF Value
  <2> QED
    BY <2>1, <2>2
<1>7. Upto(i, g)
  <2> SUFFICES ASSUME NEW x \in D, measure[x] <= i PROVE g[x] = Value(g, x)
    OBVIOUS
  <2>1. g[x] = Value(f, x)
    BY <1>4
  <2> HIDE DEF g
  <2> QED
    BY <1>6, <2>1
<1> QED
  BY <1>3, <1>5, <1>7

\* A loop of n turns.
Loop(n, V, v, step) == n \in Nat /\ v \in V /\ step \in [1 .. n -> [V -> V]]
LoopRun(f, n, V, v, step) ==
  f \in [0 .. n -> V] /\ f[0] = v /\ \A i \in 1 .. n : f[i] = step[i][f[i - 1]]

\* The function of a loop's turns exists.
LEMMA Turns ==
  ASSUME NEW n, NEW V, NEW v, NEW step, Loop(n, V, v, step)
  PROVE  \E f : LoopRun(f, n, V, v, step)
<1> USE DEF Loop, LoopRun
<1> DEFINE D == 0 .. n
           measure == [i \in D |-> i]
           next == [i \in D |-> IF i = 0 THEN 0 ELSE i - 1]
           start == [i \in D |-> v]
           turn == [i \in D |-> IF i = 0 THEN [w \in V |-> w] ELSE step[i]]
           zero == {0}
<1>1. Recursive(D, V, n, measure, next, zero, start, turn)
  BY DEF Recursive
<1>3. \A i \in D : (i \in zero <=> i = 0) /\ (i # 0 => next[i] = i - 1 /\ turn[i] = step[i]) /\ start[i] = v
  OBVIOUS
<1> HIDE DEF D, measure, next, start, turn, zero
<1>4. PICK f : /\ f \in [D -> V]
               /\ \A i \in zero : f[i] = start[i]
               /\ \A i \in D : i \notin zero => f[i] = turn[i][f[next[i]]]
  BY <1>1, Recursion
<1> QED
  <2>1. 0 \in D /\ \A i \in 1 .. n : i \in D /\ i # 0 /\ i \notin zero
    BY <1>3 DEF D
  <2>2. f[0] = v
    BY <1>3, <1>4, <2>1
  <2>3. \A i \in 1 .. n : f[i] = step[i][f[i - 1]]
    BY <1>3, <1>4, <2>1
  <2> QED
    BY <1>4, <2>2, <2>3 DEF D

----------------------------------------------------------------------------
\* Numbers.

\* Products and division, in the form the solver takes.
LEMMA Times ==
  ASSUME NEW a \in Nat, NEW b \in Nat, NEW c \in Nat, a <= b
  PROVE  a * c \in Nat /\ b * c \in Nat /\ a * c <= b * c
OBVIOUS

LEMMA Division ==
  ASSUME NEW n \in Nat, NEW b \in Nat \ {0}
  PROVE  /\ n \div b \in Nat /\ n % b \in Nat /\ n % b < b
         /\ (n \div b) * b \in Nat /\ n = (n \div b) * b + (n % b)
OBVIOUS

\* E holds the powers of b, up to the n-th.
Powers(E, b, n) ==
  E \in [0 .. n -> Nat] /\ E[0] = 1 /\ \A i \in 1 .. n : E[i] = b * E[i - 1]

\* The powers are the turns of a loop, so that there are such.
LEMMA PowersExist ==
  ASSUME NEW b \in Nat, NEW n \in Nat
  PROVE  \E E : Powers(E, b, n)
<1> DEFINE step == [i \in 1 .. n |-> [v \in Nat |-> b * v]]
<1>1. Loop(n, Nat, 1, step)
  BY DEF Loop
<1>2. \A i \in 1 .. n, v \in Nat : step[i][v] = b * v
  OBVIOUS
<1> HIDE DEF step
<1>3. PICK E : LoopRun(E, n, Nat, 1, step)
  BY <1>1, Turns
<1>4. \A i \in 1 .. n : E[i - 1] \in Nat
  BY <1>3 DEF LoopRun
<1>5. \A i \in 1 .. n : E[i] = b * E[i - 1]
  BY <1>2, <1>3, <1>4 DEF LoopRun
<1> QED
  BY <1>3, <1>5 DEF LoopRun, Powers

\* The powers of a base never shrink.
LEMMA PowersGrow ==
  ASSUME NEW b \in Nat, b >= 2, NEW n \in Nat, NEW E, Powers(E, b, n)
  PROVE  /\ \A i \in 0 .. n : E[i] \in Nat /\ E[i] >= 1
         /\ \A i \in 1 .. n : E[i] = E[i - 1] * b
         /\ \A j \in 0 .. n : \A i \in 0 .. j : E[i] <= E[j]
<1>1. \A i \in 0 .. n : E[i] \in Nat
  BY DEF Powers
<1>2. \A i \in 1 .. n : i - 1 \in 0 .. n /\ E[i] = E[i - 1] * b /\ E[i - 1] <= E[i]
  <2> SUFFICES ASSUME NEW i \in 1 .. n
               PROVE  i - 1 \in 0 .. n /\ E[i] = E[i - 1] * b /\ E[i - 1] <= E[i]
    OBVIOUS
  <2>1. i - 1 \in 0 .. n /\ E[i] = b * E[i - 1] /\ E[i - 1] \in Nat
    BY <1>1 DEF Powers
  <2> DEFINE e == E[i - 1]
  <2>2. e \in Nat
    BY <2>1
  <2> HIDE DEF e
  <2>3. b * e = e * b /\ 1 * e <= b * e /\ 1 * e = e
    BY <2>2, Times
  <2> QED
    BY <2>1, <2>3 DEF e
<1>3. ASSUME NEW j \in 0 .. n, NEW i \in 0 .. j PROVE E[i] <= E[j]
  <2> DEFINE Wrong == {k \in 0 .. n : i <= k /\ ~(E[i] <= E[k])}
  <2> SUFFICES ASSUME Wrong # {} PROVE FALSE
    OBVIOUS
  <2>1. PICK k \in Wrong : \A w \in Wrong : k <= w
    <3>1. Wrong \in SUBSET (0 .. n)
      OBVIOUS
    <3> HIDE DEF Wrong
    <3> QED
      BY <3>1, LowestOf
  <2>2. k \in 0 .. n /\ i <= k /\ ~(E[i] <= E[k]) /\ i \in 0 .. n
    OBVIOUS
  <2>3. k # i
    BY <1>1, <2>2
  <2>4. k - 1 \in 0 .. n /\ i <= k - 1 /\ ~(k <= k - 1) /\ k \in 1 .. n
    BY <2>2, <2>3
  <2>5. E[i] <= E[k - 1]
    BY <2>1, <2>4
  <2> QED
    BY <1>1, <1>2, <2>2, <2>4, <2>5
<1>4. \A i \in 0 .. n : E[i] >= 1
  <2>1. E[0] = 1 /\ \A i \in 0 .. n : 0 \in 0 .. i /\ E[0] <= E[i]
    BY <1>3 DEF Powers
  <2> QED
    BY <1>1, <2>1
<1> QED
  BY <1>1, <1>2, <1>3, <1>4

\* pow, while the power fits in a word.
LEMMA PowRight ==
  ASSUME NEW b \in Nat, b >= 2, NEW n \in Nat, NEW E, Powers(E, b, n),
         NEW degree \in 0 .. n, E[degree] < WordSpan
  PROVE  pow(b, degree) = E[degree]
<1> DEFINE Def(f) == [d \in 0 .. degree |-> IF b = 0 \/ d = 0 THEN 1 ELSE (b * f[d - 1]) % WordSpan]
           P == CHOOSE f : f = Def(f)
           F == [d \in 0 .. degree |-> E[d]]
<1>1. pow(b, degree) = P[degree]
  BY DEF pow
<1>2. /\ \A d \in 0 .. degree : E[d] \in Nat /\ E[d] < WordSpan /\ d \in 0 .. n
      /\ \A d \in 1 .. degree : E[d] = b * E[d - 1] /\ d - 1 \in 0 .. degree
      /\ E[0] = 1
  <2>1. WordSpan \in Nat
    BY StringsAssumption
  <2>2. \A d \in 0 .. degree : d \in 0 .. n /\ E[d] \in Nat /\ E[d] <= E[degree]
    BY PowersGrow
  <2>3. E[degree] \in Nat
    BY PowersGrow
  <2> QED
    BY <2>1, <2>2, <2>3 DEF Powers
<1>3. \A v \in Nat : v < WordSpan => v % WordSpan = v
  BY StringsAssumption
<1>4. ASSUME NEW f, f = Def(f) PROVE \A d \in 0 .. degree : f[d] = E[d]
  <2> DEFINE Wrong == {d \in 0 .. degree : f[d] # E[d]}
  <2> SUFFICES ASSUME Wrong # {} PROVE FALSE
    OBVIOUS
  <2>1. PICK d \in Wrong : \A w \in Wrong : d <= w
    <3>1. Wrong \in SUBSET (0 .. degree) /\ degree \in Nat
      OBVIOUS
    <3> HIDE DEF Wrong
    <3> QED
      BY <3>1, LowestOf
  <2>2. d \in 0 .. degree /\ f[d] # E[d]
    OBVIOUS
  <2>3. f[d] = IF b = 0 \/ d = 0 THEN 1 ELSE (b * f[d - 1]) % WordSpan
    BY <1>4, <2>2
  <2> HIDE DEF Def
  <2>4. d # 0
    BY <1>2, <2>2, <2>3
  <2>5. d \in 1 .. degree /\ d - 1 \in 0 .. degree /\ ~(d <= d - 1)
    BY <2>2, <2>4
  <2>6. f[d - 1] = E[d - 1]
    BY <2>1, <2>5
  <2>7. f[d] = E[d] % WordSpan
    BY <1>2, <2>3, <2>4, <2>5, <2>6
  <2> QED
    BY <1>2, <1>3, <2>2, <2>7
<1>5. F = Def(F)
  <2>1. \A d \in 0 .. degree : F[d] = IF b = 0 \/ d = 0 THEN 1 ELSE (b * F[d - 1]) % WordSpan
    <3> SUFFICES ASSUME NEW d \in 0 .. degree, d # 0
                 PROVE  E[d] = (b * F[d - 1]) % WordSpan
      BY <1>2
    <3>1. d \in 1 .. degree /\ F[d - 1] = E[d - 1] /\ E[d] = b * E[d - 1]
      BY <1>2
    <3> QED
      BY <1>2, <1>3, <3>1
  <2>2. F = [d \in 0 .. degree |-> F[d]]
    OBVIOUS
  <2> HIDE DEF F
  <2> QED
    BY <2>1, <2>2
<1>6. P = Def(P)
  <2> HIDE DEF F, Def
  <2> QED
    BY <1>5
<1> HIDE DEF P, Def
<1> QED
  BY <1>1, <1>4, <1>6

\* get_digits gets nearer to 0 with every division.
LEMMA QuotientLess ==
  ASSUME NEW n \in Nat, n # 0, NEW b \in Nat, b >= 2
  PROVE  n \div b \in Nat /\ n \div b < n
<1> DEFINE q == n \div b
<1>1. q \in Nat /\ q * b <= n
  <2>1. b \in Nat \ {0}
    OBVIOUS
  <2>2. /\ n \div b \in Nat /\ n % b \in Nat /\ (n \div b) * b \in Nat
        /\ n = (n \div b) * b + (n % b)
    BY <2>1, Division
  <2> QED
    BY <2>2
<1> HIDE DEF q
<1>2. 2 * q <= q * b
  BY <1>1
<1>3. q < n
  BY <1>1, <1>2
<1> QED
  BY <1>1, <1>3 DEF q

\* What get_digits has counted of each number on its way down.
Counted(D, b, number) ==
  /\ D \in [0 .. number -> Nat] /\ D[0] = 0
  /\ \A n \in 1 .. number : D[n] = 1 + D[n \div b]

\* get_digits counts, for each number on the way, one digit more than for its quotient.
LEMMA DigitsCounted ==
  ASSUME NEW number \in Nat, NEW b \in Nat, b >= 2
  PROVE  \E D : Counted(D, b, number) /\ get_digits(number, b) = D[number]
<1> DEFINE A == 0 .. number
           Def(f) == [n \in A |-> IF n = 0 THEN 0 ELSE 1 + f[n \div b]]
           C == CHOOSE f : f = Def(f)
           measure == [n \in A |-> n]
           next == [n \in A |-> IF n = 0 THEN 0 ELSE n \div b]
           start == [n \in A |-> 0]
           step == [n \in A |-> [v \in Nat |-> 1 + v]]
           zero == {0}
<1>1. get_digits(number, b) = C[number]
  BY DEF get_digits
<1>2. \A n \in A : n # 0 => n \div b \in A /\ n \div b < n
  <2> SUFFICES ASSUME NEW n \in A, n # 0 PROVE n \div b \in A /\ n \div b < n
    OBVIOUS
  <2>1. n \in Nat /\ n <= number
    OBVIOUS
  <2>2. n \div b \in Nat /\ n \div b < n
    BY <2>1, QuotientLess
  <2> QED
    BY <2>1, <2>2
<1>3. next \in [A -> A] /\ \A n \in A : n # 0 => next[n] = n \div b
  BY <1>2
<1>4. /\ measure \in [A -> 0 .. number] /\ start \in [A -> Nat] /\ step \in [A -> [Nat -> Nat]]
      /\ \A n \in A : measure[n] = n /\ start[n] = 0 /\ \A v \in Nat : step[n][v] = 1 + v
      /\ zero \subseteq A /\ 0 \in zero /\ \A n \in A : n \notin zero <=> n # 0
      /\ 0 \in A /\ number \in A /\ \A n \in A : n \in Int
  OBVIOUS
<1>5. \A n \in 1 .. number : n \in A /\ n # 0
  OBVIOUS
<1> HIDE DEF A, next, measure, start, step, zero
<1>6. Recursive(A, Nat, number, measure, next, zero, start, step)
  <2>1. \A n \in A : n \notin zero => n # 0 /\ next[n] = n \div b /\ n \div b \in A /\ n \div b < n
    BY <1>2, <1>3, <1>4
  <2>2. ASSUME NEW n \in A, n \notin zero PROVE measure[next[n]] < measure[n]
    <3>1. next[n] = n \div b /\ n \div b \in A /\ n \div b < n
      BY <2>1, <2>2
    <3>2. measure[n] = n /\ measure[n \div b] = n \div b
      BY <1>4, <3>1
    <3> QED
      BY <3>1, <3>2
  <2> QED
    BY <1>3, <1>4, <2>2 DEF Recursive
<1>7. PICK f : /\ f \in [A -> Nat]
               /\ \A n \in zero : f[n] = start[n]
               /\ \A n \in A : n \notin zero => f[n] = step[n][f[next[n]]]
  BY <1>6, Recursion
<1>8. f = Def(f)
  <2>1. f[0] = 0
    BY <1>4, <1>7
  <2>2. ASSUME NEW n \in A, n # 0 PROVE f[n] = 1 + f[n \div b]
    <3>1. n \notin zero /\ next[n] = n \div b /\ n \div b \in A
      BY <1>2, <1>3, <1>4, <2>2
    <3>2. f[n] = step[n][f[n \div b]] /\ f[n \div b] \in Nat
      BY <1>7, <3>1
    <3> QED
      BY <1>4, <3>2
  <2> QED
    BY <1>7, <2>1, <2>2
<1>9. C = Def(C)
  <2> HIDE DEF Def
  <2> QED
    BY <1>8
<1> HIDE DEF C
<1>10. C[0] = 0 /\ \A n \in A : n # 0 => C[n] = 1 + C[n \div b]
  BY <1>4, <1>9
<1>11. C \in [A -> Nat]
  <2> DEFINE Wrong == {n \in 0 .. number : C[n] \notin Nat}
  <2>1. Wrong = {}
    <3> SUFFICES ASSUME Wrong # {} PROVE FALSE
      OBVIOUS
    <3>1. PICK n \in Wrong : \A w \in Wrong : n <= w
      <4>1. Wrong \in SUBSET (0 .. number)
        OBVIOUS
      <4> HIDE DEF Wrong
      <4> QED
        BY <4>1, LowestOf
    <3>2. n \in A /\ C[n] \notin Nat
      BY DEF A
    <3>3. n # 0
      BY <1>10, <3>2
    <3>4. n \div b \in A /\ n \div b < n
      BY <1>2, <3>2, <3>3
    <3>5. n \div b \notin Wrong
      <4>1. n \in Int /\ n \div b \in Int
        BY <1>4, <3>2, <3>4
      <4> QED
        BY <3>1, <3>4, <4>1
    <3>6. C[n \div b] \in Nat
      BY <3>4, <3>5 DEF A
    <3> QED
      BY <1>10, <3>2, <3>3, <3>6
  <2>2. C = [n \in A |-> C[n]]
    BY <1>9
  <2>3. \A n \in A : C[n] \in Nat
    BY <2>1 DEF A
  <2> QED
    BY <2>2, <2>3
<1>12. Counted(C, b, number)
  BY <1>5, <1>10, <1>11 DEF Counted, A
<1> QED
  BY <1>1, <1>12

\* A number of as many digits lies between two powers.
LEMMA DigitsRight ==
  ASSUME NEW number \in Nat, NEW b \in Nat, b >= 2,
         NEW E, Powers(E, b, number), NEW D, Counted(D, b, number),
         NEW n \in 1 .. number
  PROVE  D[n] \in 1 .. n /\ E[D[n] - 1] <= n /\ n < E[D[n]]
<1> DEFINE Right(m) == D[m] \in 1 .. m /\ E[D[m] - 1] <= m /\ m < E[D[m]]
           Wrong == {m \in 0 .. number : m # 0 /\ ~Right(m)}
<1> SUFFICES ASSUME Wrong # {} PROVE FALSE
  OBVIOUS
<1>1. PICK m \in Wrong : \A w \in Wrong : m <= w
  <2>1. Wrong \in SUBSET (0 .. number)
    OBVIOUS
  <2> HIDE DEF Wrong
  <2> QED
    BY <2>1, LowestOf
<1>2. m \in 1 .. number /\ ~Right(m) /\ m \in Nat /\ m # 0 /\ m <= number
  OBVIOUS
<1> DEFINE q == m \div b
           r == m % b
<1>3. q \in Nat /\ q < m /\ r \in Nat /\ r < b /\ q * b \in Nat /\ m = q * b + r
  <2>1. b \in Nat \ {0}
    OBVIOUS
  <2>2. q \in Nat /\ q < m
    BY <1>2, QuotientLess
  <2>3. r \in Nat /\ r < b /\ q * b \in Nat /\ m = q * b + r
    BY <1>2, <2>1, Division
  <2> QED
    BY <2>2, <2>3
<1>4. D[m] = 1 + D[q] /\ D[0] = 0
  BY <1>2 DEF Counted
<1>5. /\ \A i \in 0 .. number : E[i] \in Nat
      /\ \A i \in 1 .. number : E[i] = E[i - 1] * b
      /\ E[0] = 1
  <2>1. E[0] = 1
    BY DEF Powers
  <2> QED
    BY <2>1, PowersGrow
<1> HIDE DEF q, r
<1>6. CASE q = 0
  <2>1. D[m] = 1 /\ m = r /\ 1 \in 1 .. number
    BY <1>2, <1>3, <1>4, <1>6
  <2>2. E[1] = E[0] * b
    BY <1>5, <2>1
  <2>3. E[1] = b
    BY <1>5, <2>2
  <2>4. D[m] - 1 = 0
    BY <2>1
  <2> QED
    BY <1>2, <1>3, <1>5, <2>1, <2>3, <2>4
<1>7. CASE q # 0
  <2>1. Right(q)
    <3>1. q \in 0 .. number /\ ~(m <= q)
      BY <1>2, <1>3
    <3>2. q \notin Wrong
      BY <1>1, <3>1
    <3> HIDE DEF Right
    <3> QED
      BY <1>7, <3>1, <3>2
  <2> DEFINE d == D[q]
             e == E[d - 1]
             e1 == E[d]
  <2>2. d \in 1 .. q /\ e <= q /\ q < e1
    BY <2>1
  <2>3. d \in 1 .. number /\ d + 1 \in 1 .. number /\ d + 1 \in 1 .. m /\ d - 1 \in 0 .. number
        /\ d \in 0 .. number /\ d + 1 - 1 = d
    BY <1>2, <1>3, <2>2
  <2>4. e \in Nat /\ e1 \in Nat /\ e1 = e * b /\ E[d + 1] = e1 * b
    BY <1>5, <2>3
  <2>5. D[m] = d + 1
    BY <1>4, <2>3
  <2> HIDE DEF d, e, e1
  <2>6. e1 <= q * b
    BY <1>3, <2>2, <2>4, Times
  <2>7. (q + 1) * b <= e1 * b /\ (q + 1) * b = q * b + b /\ e1 * b \in Nat
    <3>1. q + 1 <= e1 /\ q + 1 \in Nat
      BY <1>3, <2>2, <2>4
    <3>2. (q + 1) * b <= e1 * b /\ e1 * b \in Nat
      BY <2>4, <3>1, Times
    <3> QED
      BY <1>3, <3>2
  <2>8. e1 <= m /\ m < e1 * b
    BY <1>3, <2>4, <2>6, <2>7
  <2>9. Right(m)
    BY <2>3, <2>4, <2>5, <2>8 DEF e1
  <2> QED
    BY <1>2, <2>9
<1> QED
  BY <1>6, <1>7

\* A sum of a digit and what is left is what it was taken from.
LEMMA DigitTaken ==
  ASSUME NEW x \in Nat, NEW e \in Nat, e >= 1, NEW b \in Nat, x < e * b, NEW v \in Nat
  PROVE  /\ x \div e \in 0 .. b - 1
         /\ (v * b + (x \div e)) * e + (x % e) = v * (e * b) + x
<1> DEFINE d == x \div e
           r == x % e
<1>1. e \in Nat \ {0}
  OBVIOUS
<1>2. d \in Nat /\ r \in Nat /\ r < e /\ d * e \in Nat /\ x = d * e + r
  BY <1>1, Division
<1> HIDE DEF d, r
<1>3. d < b
  <2> SUFFICES ASSUME b <= d PROVE FALSE
    BY <1>2
  <2>1. b * e <= d * e /\ b * e \in Nat /\ b * e = e * b
    BY <1>2, Times
  <2> QED
    BY <1>2, <2>1
<1>4. (v * b + d) * e = (v * b) * e + d * e /\ (v * b) * e = v * (e * b)
  <2>1. v * b \in Nat /\ v * (e * b) \in Nat
    OBVIOUS
  <2>2. (v * b) * e = v * (e * b)
    OBVIOUS
  <2> DEFINE vb == v * b
  <2>3. vb \in Nat
    BY <2>1
  <2> HIDE DEF vb
  <2>4. (vb + d) * e = vb * e + d * e
    BY <1>2, <2>3
  <2> QED
    BY <2>2, <2>4 DEF vb
<1>5. v * (e * b) \in Nat
  OBVIOUS
<1>6. (v * b + d) * e + r = v * (e * b) + x
  <2> DEFINE w == v * (e * b)
             u == (v * b + d) * e
             g == d * e
  <2>1. u = w + g /\ w \in Nat /\ g \in Nat /\ x = g + r
    BY <1>2, <1>4, <1>5
  <2> HIDE DEF w, u, g
  <2>2. u + r = w + x
    BY <1>2, <2>1
  <2> QED
    BY <2>2 DEF w, u
<1> QED
  BY <1>2, <1>3, <1>6 DEF d, r

\* What itoa has left after each turn, num, when p is the power the turn divides by.
ItoaRun(num, p, number, base, digits) ==
  /\ num \in [0 .. digits -> Nat] /\ num[0] = number
  /\ \A t \in 1 .. digits : num[t] = num[t - 1] % p[t]
  /\ itoa(number, base) = Append([t \in 1 .. digits |-> Digit(num[t - 1] \div p[t])], NUL)

\* itoa leaves the remainders by its powers, and writes the digits of the quotients.
LEMMA ItoaWrites ==
  ASSUME NEW number \in Nat, number > 0, NEW base \in Nat, base >= 2,
         get_digits(number, base) \in Nat, NEW p \in [1 .. get_digits(number, base) -> Nat],
         \A t \in 1 .. get_digits(number, base) :
           p[t] # 0 /\ pow(base, get_digits(number, base) - t) = p[t]
  PROVE  \E num : ItoaRun(num, p, number, base, get_digits(number, base))
<1> DEFINE digits == get_digits(number, base)
           Turn(f, t) == [num |-> f[t - 1].num % pow(base, digits - t),
                          str |-> Append(f[t - 1].str, Digit(f[t - 1].num \div pow(base, digits - t)))]
           Def(f) == [t \in 0 .. digits |->
              IF t = 0 THEN [num |-> number, str |-> <<>>] ELSE Turn(f, t)]
           After == CHOOSE f : f = Def(f)
           step == [t \in 1 .. digits |-> [v \in Nat |-> v % p[t]]]
<1>1. itoa(number, base) = Append(After[digits].str, NUL)
  <2>1. itoa(number, base) = IF base < 2 THEN <<NUL>>
                             ELSE IF number = 0 THEN <<Digit(0), NUL>>
                             ELSE Append(After[digits].str, NUL)
    BY Zenon DEF itoa
  <2> HIDE DEF After, digits
  <2> QED
    BY <2>1
<1>0. /\ digits \in Nat /\ p \in [1 .. digits -> Nat]
      /\ \A t \in 1 .. digits : p[t] # 0 /\ p[t] \in Nat /\ pow(base, digits - t) = p[t]
  OBVIOUS
<1> HIDE DEF digits
<1>2. \A t \in 1 .. digits, v \in Nat : v % p[t] \in Nat
  <2> SUFFICES ASSUME NEW t \in 1 .. digits, NEW v \in Nat PROVE v % p[t] \in Nat
    OBVIOUS
  <2>1. p[t] \in Nat \ {0}
    BY <1>0
  <2> QED
    BY <2>1, Division
<1>3. Loop(digits, Nat, number, step) /\ \A t \in 1 .. digits, v \in Nat : step[t][v] = v % p[t]
  BY <1>0, <1>2 DEF Loop
<1> HIDE DEF step
<1>4. PICK num : LoopRun(num, digits, Nat, number, step)
  BY <1>3, Turns
<1>5. /\ num \in [0 .. digits -> Nat] /\ num[0] = number
      /\ \A t \in 1 .. digits : num[t] = num[t - 1] % p[t] /\ num[t - 1] \in Nat
  <2>1. num \in [0 .. digits -> Nat] /\ num[0] = number
    BY <1>4 DEF LoopRun
  <2>2. \A t \in 1 .. digits : t - 1 \in 0 .. digits
    BY <1>0
  <2>3. ASSUME NEW t \in 1 .. digits PROVE num[t] = num[t - 1] % p[t] /\ num[t - 1] \in Nat
    <3>1. num[t] = step[t][num[t - 1]] /\ num[t - 1] \in Nat
      BY <1>4, <2>1, <2>2 DEF LoopRun
    <3> QED
      BY <1>3, <3>1
  <2> QED
    BY <2>1, <2>3
<1> DEFINE Dig(t) == Digit(num[t - 1] \div p[t])
           str(t) == [i \in 1 .. t |-> Dig(i)]
           Rec(t) == [num |-> num[t], str |-> str(t)]
           F == [t \in 0 .. digits |-> Rec(t)]
<1>6. ASSUME NEW t \in 1 .. digits PROVE str(t) = Append(str(t - 1), Dig(t))
  <2>1. t \in Nat /\ t - 1 \in Nat /\ t - 1 + 1 = t
    BY <1>0
  <2> HIDE DEF Dig
  <2> QED
    BY <2>1
<1>7. str(0) = <<>>
  OBVIOUS
<1> HIDE DEF str
<1>8. ASSUME NEW f, NEW t \in 1 .. digits, f[t - 1] = Rec(t - 1)
      PROVE  Turn(f, t) = Rec(t)
  <2>1. f[t - 1].num = num[t - 1] /\ f[t - 1].str = str(t - 1)
    BY <1>8
  <2>2. num[t] = num[t - 1] % p[t] /\ pow(base, digits - t) = p[t]
    BY <1>0, <1>5
  <2>3. str(t) = Append(str(t - 1), Digit(num[t - 1] \div p[t]))
    BY <1>6
  <2> QED
    BY <2>1, <2>2, <2>3
<1>9. Rec(0) = [num |-> number, str |-> <<>>]
  BY <1>5, <1>7
<1>10. \A t \in 0 .. digits : t # 0 => t \in 1 .. digits /\ t - 1 \in 0 .. digits /\ ~(t <= t - 1)
  BY <1>0
<1> HIDE DEF Turn, Rec
<1>11. F = Def(F)
  <2>1. \A t \in 0 .. digits : F[t] = Rec(t)
    OBVIOUS
  <2> HIDE DEF F
  <2>2. \A t \in 0 .. digits : t # 0 => Turn(F, t) = Rec(t)
    BY <1>8, <1>10, <2>1
  <2>3. F = [t \in 0 .. digits |-> Rec(t)]
    BY DEF F
  <2> QED
    BY <1>9, <2>2, <2>3
<1>12. ASSUME NEW f, f = Def(f) PROVE f[digits] = Rec(digits)
  <2> DEFINE Wrong == {t \in 0 .. digits : f[t] # Rec(t)}
  <2>1. digits \in 0 .. digits
    BY <1>0
  <2> SUFFICES ASSUME Wrong # {} PROVE FALSE
    BY <2>1
  <2>2. PICK t \in Wrong : \A w \in Wrong : t <= w
    <3>1. Wrong \in SUBSET (0 .. digits)
      OBVIOUS
    <3> HIDE DEF Wrong
    <3> QED
      BY <1>0, <3>1, LowestOf
  <2>3. t \in 0 .. digits /\ f[t] # Rec(t)
    OBVIOUS
  <2>4. f[t] = IF t = 0 THEN [num |-> number, str |-> <<>>] ELSE Turn(f, t)
    BY <1>12, <2>3
  <2>5. t # 0
    BY <1>9, <2>3, <2>4
  <2>6. f[t - 1] = Rec(t - 1)
    BY <1>10, <2>2, <2>3, <2>5
  <2> QED
    BY <1>8, <1>10, <2>3, <2>4, <2>5, <2>6
<1>13. After[digits] = Rec(digits)
  <2>1. After = Def(After)
    <3> HIDE DEF F, Def
    <3> QED
      BY <1>11
  <2> HIDE DEF After, Def
  <2> QED
    BY <1>12, <2>1
<1>14. itoa(number, base) = Append(str(digits), NUL)
  <2> HIDE DEF After, str
  <2>1. Rec(digits).str = str(digits)
    BY DEF Rec
  <2> QED
    BY <1>1, <1>13, <2>1
<1> QED
  BY <1>5, <1>14 DEF digits, str, ItoaRun

\* The digit that a character stands for.
WorthOf(ch) == IF ch >= 65 THEN ch - 55 ELSE ch - 48

LEMMA DigitWorth == \A d \in Nat : WorthOf(Digit(d)) = d /\ (d > 0 => Digit(d) # Digit(0))
BY DEF WorthOf, Digit

\* A numeral means what its digits add up to from the front.
Value(M, d, k, b) ==
  M \in [0 .. k -> Nat] /\ M[0] = 0 /\ \A i \in 1 .. k : M[i] = M[i - 1] * b + d[i]

\* There is such a sum for all digits.
LEMMA ValueExists ==
  ASSUME NEW k \in Nat, NEW b \in Nat, NEW d \in [1 .. k -> Nat]
  PROVE  \E M : Value(M, d, k, b)
<1> DEFINE step == [i \in 1 .. k |-> [v \in Nat |-> v * b + d[i]]]
<1>1. \A i \in 1 .. k, v \in Nat : v * b + d[i] \in Nat
  <2> SUFFICES ASSUME NEW i \in 1 .. k, NEW v \in Nat PROVE v * b + d[i] \in Nat
    OBVIOUS
  <2>1. d[i] \in Nat /\ v * b \in Nat
    OBVIOUS
  <2> QED
    BY <2>1
<1>2. Loop(k, Nat, 0, step) /\ \A i \in 1 .. k, v \in Nat : step[i][v] = v * b + d[i]
  BY <1>1 DEF Loop
<1> HIDE DEF step
<1>3. PICK M : LoopRun(M, k, Nat, 0, step)
  BY <1>2, Turns
<1>4. M \in [0 .. k -> Nat] /\ M[0] = 0
  BY <1>3 DEF LoopRun
<1>5. ASSUME NEW i \in 1 .. k PROVE M[i] = M[i - 1] * b + d[i]
  <2>1. i - 1 \in 0 .. k
    OBVIOUS
  <2>2. M[i] = step[i][M[i - 1]] /\ M[i - 1] \in Nat
    BY <1>3, <1>4, <2>1 DEF LoopRun
  <2> QED
    BY <1>2, <2>2
<1> QED
  BY <1>4, <1>5 DEF Value

\* It is what Meaning makes of the characters.
LEMMA MeaningIs ==
  ASSUME NEW k \in Nat, NEW b \in Nat, NEW d \in [1 .. k -> Nat], NEW M, Value(M, d, k, b),
         NEW str, str = [i \in 1 .. k |-> Digit(d[i])]
  PROVE  Meaning(str, b) = M[k]
<1> DEFINE Def(f) == [n \in 0 .. Len(str) |-> IF n = 0 THEN 0
                                              ELSE f[n - 1] * b + WorthOf(str[n])]
           Sum == CHOOSE f : f = Def(f)
<1>1. Meaning(str, b) = Sum[Len(str)]
  BY DEF Meaning, WorthOf
<1>2. Len(str) = k
  OBVIOUS
<1>3. \A n \in 1 .. k : WorthOf(str[n]) = d[n]
  BY DigitWorth
<1>4. M = [n \in 0 .. k |-> M[n]] /\ M[0] = 0 /\ \A n \in 1 .. k : M[n] = M[n - 1] * b + d[n]
  BY DEF Value
<1>5. \A n \in 0 .. k : n # 0 => n \in 1 .. k /\ n - 1 \in 0 .. k /\ ~(n <= n - 1)
  OBVIOUS
<1>6. M = Def(M)
  <2>1. \A n \in 0 .. k : M[n] = IF n = 0 THEN 0 ELSE M[n - 1] * b + WorthOf(str[n])
    BY <1>3, <1>4, <1>5
  <2> HIDE DEF WorthOf
  <2> QED
    BY <1>2, <1>4, <2>1
<1>7. ASSUME NEW f, f = Def(f) PROVE f[k] = M[k]
  <2> DEFINE Wrong == {n \in 0 .. k : f[n] # M[n]}
  <2>1. k \in 0 .. k
    OBVIOUS
  <2> SUFFICES ASSUME Wrong # {} PROVE FALSE
    BY <2>1
  <2>2. PICK n \in Wrong : \A w \in Wrong : n <= w
    <3>1. Wrong \in SUBSET (0 .. k)
      OBVIOUS
    <3> HIDE DEF Wrong
    <3> QED
      BY <3>1, LowestOf
  <2>3. n \in 0 .. k /\ f[n] # M[n]
    OBVIOUS
  <2>4. f[n] = IF n = 0 THEN 0 ELSE f[n - 1] * b + WorthOf(str[n])
    BY <1>2, <1>7, <2>3
  <2>5. n # 0
    BY <1>4, <2>3, <2>4
  <2>6. f[n - 1] = M[n - 1]
    BY <1>5, <2>2, <2>3, <2>5
  <2> QED
    BY <1>3, <1>4, <1>5, <2>3, <2>4, <2>5, <2>6
<1>8. Sum = Def(Sum)
  <2> HIDE DEF Def
  <2> QED
    BY <1>6
<1> HIDE DEF Sum, Def
<1> QED
  BY <1>1, <1>2, <1>7, <1>8

\* A numeral of one character means its digit.
LEMMA DigitMeans ==
  ASSUME NEW d \in Nat, NEW b \in Nat
  PROVE  Meaning(<<Digit(d)>>, b) = d
<1> DEFINE e == [i \in 1 .. 1 |-> d]
           M == [i \in 0 .. 1 |-> IF i = 0 THEN 0 ELSE d]
<1>1. e \in [1 .. 1 -> Nat] /\ 1 \in Nat
  OBVIOUS
<1>2. Value(M, e, 1, b)
  <2>1. M \in [0 .. 1 -> Nat] /\ M[0] = 0 /\ M[1] = d /\ e[1] = d
    OBVIOUS
  <2>2. \A i \in 1 .. 1 : i = 1 /\ i - 1 = 0
    OBVIOUS
  <2> HIDE DEF M, e
  <2>3. M[1] = M[0] * b + e[1]
    BY <2>1
  <2> QED
    BY <2>1, <2>2, <2>3 DEF Value
<1>3. <<Digit(d)>> = [i \in 1 .. 1 |-> Digit(e[i])]
  <2>1. \A i \in 1 .. 1 : Digit(e[i]) = Digit(d)
    OBVIOUS
  <2> HIDE DEF e
  <2>2. [i \in 1 .. 1 |-> Digit(e[i])] = [i \in 1 .. 1 |-> Digit(d)]
    BY <2>1
  <2> QED
    BY <2>2
<1>4. M[1] = d
  OBVIOUS
<1> DEFINE str == <<Digit(d)>>
           k == 1
<1>5. /\ str = [i \in 1 .. k |-> Digit(e[i])] /\ k \in Nat /\ e \in [1 .. k -> Nat]
      /\ Value(M, e, k, b)
  BY <1>1, <1>2, <1>3
<1> HIDE DEF M, e, str, k
<1>6. Meaning(str, b) = M[k]
  BY <1>5, MeaningIs
<1> QED
  BY <1>4, <1>6 DEF str, k

\* What itoa must make of a number in a base.
NumeralRight(number, base) ==
  LET str == itoa(number, base)
      numeral == SubSeq(str, 1, Len(str) - 1)
  IN  /\ str \in Seq(Nat) /\ Len(str) >= 1 /\ str[Len(str)] = NUL
      /\ \A i \in 1 .. Len(str) - 1 : str[i] >= 48 /\ (str[i] <= 57 \/ str[i] <= base + 54)
      /\ Meaning(numeral, base) = number
      /\ number > 0 => numeral[1] # Digit(0)
      /\ \A i \in DOMAIN numeral : Meaning(<<numeral[i]>>, base) \in 0 .. base - 1

\* It is enough to know the digits.
LEMMA NumeralOfDigits ==
  ASSUME NEW number \in Nat, NEW base \in Nat, NEW k \in Nat, k >= 1,
         NEW d \in [1 .. k -> 0 .. base - 1], NEW M, Value(M, d, k, base), M[k] = number,
         number > 0 => d[1] > 0,
         itoa(number, base) = Append([i \in 1 .. k |-> Digit(d[i])], NUL)
  PROVE  NumeralRight(number, base)
<1> DEFINE numeral == [i \in 1 .. k |-> Digit(d[i])]
           str == itoa(number, base)
<1>1. ASSUME NEW i \in 1 .. k
      PROVE  d[i] \in Nat /\ d[i] \in 0 .. base - 1 /\ Digit(d[i]) \in Nat
  <2>1. d[i] \in 0 .. base - 1
    OBVIOUS
  <2>2. d[i] \in Nat
    BY <2>1
  <2> QED
    BY <2>1, <2>2 DEF Digit
<1>2. numeral \in Seq(Nat) /\ Len(numeral) = k /\ \A i \in 1 .. k : numeral[i] = Digit(d[i])
  <2>1. numeral \in [1 .. k -> Nat]
    BY <1>1
  <2> QED
    BY <2>1
<1>3. str = Append(numeral, NUL)
  OBVIOUS
<1> HIDE DEF numeral
<1>4. Len(str) = k + 1 /\ str[k + 1] = 0 /\ \A i \in 1 .. k : str[i] = numeral[i]
  BY <1>2, <1>3 DEF NUL
<1>5. str \in Seq(Nat)
  <2>1. NUL \in Nat
    BY DEF NUL
  <2>2. Append(numeral, NUL) \in Seq(Nat)
    BY <1>2, <2>1, AppendProperties
  <2> QED
    BY <1>3, <2>2
<1> HIDE DEF str
<1>6. SubSeq(str, 1, Len(str) - 1) = numeral
  <2>1. k + 1 - 1 = k
    OBVIOUS
  <2>2. SubSeq(str, 1, k) = [i \in 1 .. k |-> str[i]]
    BY <1>4, <1>5
  <2>3. [i \in 1 .. k |-> str[i]] = numeral
    BY <1>2, <1>4
  <2> QED
    BY <1>4, <2>1, <2>2, <2>3
<1>7. d \in [1 .. k -> Nat]
  BY <1>1
<1>8. Meaning(numeral, base) = number
  BY <1>7, MeaningIs DEF numeral
<1>9. number > 0 => numeral[1] # Digit(0)
  BY <1>1, <1>2, DigitWorth
<1>10. \A i \in 1 .. k : Meaning(<<numeral[i]>>, base) \in 0 .. base - 1
  BY <1>1, <1>2, DigitMeans
<1>11. DOMAIN numeral = 1 .. k
  BY <1>2
<1>12. \A i \in 1 .. Len(str) - 1 : str[i] >= 48 /\ (str[i] <= 57 \/ str[i] <= base + 54)
  <2> SUFFICES ASSUME NEW i \in 1 .. k
               PROVE  str[i] >= 48 /\ (str[i] <= 57 \/ str[i] <= base + 54)
    BY <1>4
  <2> DEFINE digit == d[i]
             ch == str[i]
  <2>1. ch = Digit(digit) /\ digit \in 0 .. base - 1
    BY <1>1, <1>2, <1>4
  <2> HIDE DEF digit, ch
  <2>2. ch >= 48 /\ (ch <= 57 \/ ch <= base + 54)
    BY <2>1 DEF Digit
  <2> QED
    BY <2>2 DEF ch
<1>13. Len(str) >= 1
  BY <1>4
<1> QED
  BY <1>4, <1>5, <1>6, <1>8, <1>9, <1>10, <1>11, <1>12, <1>13 DEF NumeralRight, NUL, str

\* itoa's own case of 0.
LEMMA ZeroRight ==
  ASSUME NEW base \in Nat, base >= 2
  PROVE  NumeralRight(0, base)
<1> DEFINE d == [i \in 1 .. 1 |-> 0]
           M == [i \in 0 .. 1 |-> 0]
           n == [i \in 1 .. 1 |-> Digit(d[i])]
<1>1. d \in [1 .. 1 -> 0 .. base - 1] /\ M[1] = 0 /\ 1 \in Nat /\ 0 \in Nat
  OBVIOUS
<1>2. Value(M, d, 1, base)
  BY DEF Value
<1>3. itoa(0, base) = Append(n, NUL)
  <2>1. \A i \in 1 .. 1 : Digit(d[i]) = 48
    BY DEF Digit
  <2>2. Digit(0) = 48
    BY DEF Digit
  <2>3. n = <<48>>
    <3> HIDE DEF d
    <3> QED
      BY <2>1
  <2>4. itoa(0, base) = <<48, 0>>
    BY <2>2 DEF itoa, NUL
  <2> HIDE DEF n
  <2> QED
    BY <2>3, <2>4 DEF NUL
<1> HIDE DEF M, d
<1> DEFINE k == 1
           zero == 0
<1>4. /\ itoa(zero, base) = Append([i \in 1 .. k |-> Digit(d[i])], NUL)
      /\ zero \in Nat /\ k \in Nat /\ k >= 1 /\ d \in [1 .. k -> 0 .. base - 1]
      /\ Value(M, d, k, base) /\ M[k] = zero /\ (zero > 0 => d[1] > 0)
  BY <1>1, <1>2, <1>3
<1> HIDE DEF k, zero
<1>5. NumeralRight(zero, base)
  BY <1>4, NumeralOfDigits
<1> QED
  BY <1>5 DEF zero

\* The invariant of itoa's loop: what the digits written are worth, moved to
\* their place, and what is left make the number.
LEMMA PositiveRight ==
  ASSUME NEW number \in Nat, number > 0, number < WordSpan, NEW base \in Nat, base >= 2
  PROVE  NumeralRight(number, base)
<1>1. PICK E : Powers(E, base, number)
  BY PowersExist
<1>2. PICK D : Counted(D, base, number) /\ get_digits(number, base) = D[number]
  BY DigitsCounted
<1> DEFINE k == get_digits(number, base)
<1>3. k \in 1 .. number /\ E[k - 1] <= number /\ number < E[k]
  <2>1. number \in 1 .. number
    OBVIOUS
  <2> QED
    BY <1>1, <1>2, <2>1, DigitsRight
<1>4. k \in Nat /\ k >= 1
  BY <1>3
<1>5. /\ \A i \in 0 .. number : E[i] \in Nat /\ E[i] >= 1
      /\ \A i \in 1 .. number : E[i] = E[i - 1] * base
      /\ \A j \in 0 .. number : \A i \in 0 .. j : E[i] <= E[j]
      /\ E[0] = 1
  <2>1. E[0] = 1
    BY <1>1 DEF Powers
  <2> QED
    BY <1>1, <2>1, PowersGrow
<1>6. \A t \in 1 .. k : /\ k - t \in 0 .. number /\ k - t \in 0 .. k - 1
                       /\ k - t + 1 \in 1 .. number /\ k - (t - 1) = k - t + 1
                       /\ t - 1 \in 0 .. k
  BY <1>3, <1>4
<1> DEFINE p == [t \in 1 .. k |-> E[k - t]]
<1>7. ASSUME NEW t \in 1 .. k
      PROVE  /\ p[t] = E[k - t] /\ p[t] \in Nat /\ p[t] >= 1
             /\ E[k - (t - 1)] = p[t] * base /\ pow(base, k - t) = p[t]
  <2>1. p[t] = E[k - t] /\ E[k - t] \in Nat /\ E[k - t] >= 1
    BY <1>5, <1>6
  <2>2. E[k - t] <= E[k - 1]
    BY <1>3, <1>4, <1>5, <1>6
  <2>3. E[k - t] < WordSpan
    <3>1. E[k - 1] \in Nat /\ WordSpan \in Nat
      BY <1>3, <1>4, <1>5, StringsAssumption
    <3> QED
      BY <1>3, <2>1, <2>2, <3>1
  <2>4. pow(base, k - t) = E[k - t]
    BY <1>1, <1>6, <2>3, PowRight
  <2>5. E[k - t + 1] = E[k - t] * base
    <3>1. k - t + 1 - 1 = k - t
      BY <1>4
    <3> QED
      BY <1>5, <1>6, <3>1
  <2> QED
    BY <1>6, <2>1, <2>4, <2>5
<1>8. p \in [1 .. k -> Nat] /\ \A t \in 1 .. k : p[t] # 0 /\ pow(base, k - t) = p[t]
  BY <1>7
<1> HIDE DEF p
<1>20. PICK num : ItoaRun(num, p, number, base, k)
  BY <1>4, <1>8, ItoaWrites
<1> HIDE DEF k
<1>9. /\ num \in [0 .. k -> Nat] /\ num[0] = number
      /\ \A t \in 1 .. k : num[t] = num[t - 1] % p[t]
      /\ itoa(number, base) = Append([t \in 1 .. k |-> Digit(num[t - 1] \div p[t])], NUL)
  BY <1>20 DEF ItoaRun
<1>10. ASSUME NEW t \in 0 .. k PROVE num[t] < E[k - t]
  <2>1. CASE t = 0
    BY <1>3, <1>4, <1>9, <2>1
  <2>2. CASE t # 0
    <3>1. t \in 1 .. k /\ t - 1 \in 0 .. k
      BY <1>4, <2>2
    <3>2. num[t - 1] \in Nat /\ p[t] \in Nat \ {0} /\ p[t] = E[k - t]
      BY <1>7, <1>9, <3>1
    <3>3. num[t - 1] % p[t] < p[t]
      BY <3>2, Division
    <3> QED
      BY <1>9, <3>1, <3>2, <3>3
  <2> QED
    BY <2>1, <2>2
<1> DEFINE d == [t \in 1 .. k |-> num[t - 1] \div p[t]]
<1>11. ASSUME NEW t \in 1 .. k, NEW v \in Nat
       PROVE  /\ d[t] \in 0 .. base - 1
              /\ (v * base + d[t]) * E[k - t] + num[t] = v * E[k - (t - 1)] + num[t - 1]
  <2>1. /\ num[t - 1] \in Nat /\ p[t] \in Nat /\ p[t] >= 1 /\ p[t] = E[k - t]
        /\ E[k - (t - 1)] = p[t] * base /\ t - 1 \in 0 .. k
    BY <1>6, <1>7, <1>9
  <2>2. num[t - 1] < p[t] * base
    BY <1>10, <2>1
  <2>3. num[t] = num[t - 1] % p[t] /\ d[t] = num[t - 1] \div p[t]
    BY <1>9
  <2> HIDE DEF d
  <2> DEFINE x == num[t - 1]
             e == p[t]
  <2>4. x \in Nat /\ e \in Nat /\ e >= 1 /\ x < e * base
    BY <2>1, <2>2
  <2>5. d[t] = x \div e /\ num[t] = x % e
    BY <2>3
  <2>6. E[k - t] = e /\ E[k - (t - 1)] = e * base
    BY <2>1
  <2> HIDE DEF x, e
  <2>7. x \div e \in 0 .. base - 1 /\ (v * base + (x \div e)) * e + (x % e) = v * (e * base) + x
    BY <2>4, DigitTaken
  <2> QED
    BY <2>5, <2>6, <2>7 DEF x
<1>12. d \in [1 .. k -> 0 .. base - 1] /\ d \in [1 .. k -> Nat]
  <2>1. 0 \in Nat /\ \A t \in 1 .. k : d[t] \in 0 .. base - 1
    BY <1>11
  <2> QED
    BY <2>1
<1>13. PICK M : Value(M, d, k, base)
  <2> HIDE DEF d
  <2> QED
    BY <1>4, <1>12, ValueExists
<1>14. M[0] = 0 /\ \A t \in 0 .. k : M[t] \in Nat
  BY <1>13 DEF Value
<1>15. \A t \in 1 .. k : M[t] = M[t - 1] * base + d[t]
  BY <1>13 DEF Value
<1>16. itoa(number, base) = Append([t \in 1 .. k |-> Digit(d[t])], NUL)
  <2>1. \A t \in 1 .. k : Digit(d[t]) = Digit(num[t - 1] \div p[t])
    OBVIOUS
  <2> HIDE DEF d
  <2>2. [t \in 1 .. k |-> Digit(d[t])] = [t \in 1 .. k |-> Digit(num[t - 1] \div p[t])]
    BY <2>1
  <2> QED
    BY <1>9, <2>2
<1> DEFINE Kept(t) == M[t] * E[k - t] + num[t] = number
           Wrong == {t \in 0 .. k : ~Kept(t)}
<1>17. Wrong = {}
  <2> SUFFICES ASSUME Wrong # {} PROVE FALSE
    OBVIOUS
  <2>1. PICK t \in Wrong : \A w \in Wrong : t <= w
    <3>1. Wrong \in SUBSET (0 .. k)
      OBVIOUS
    <3> HIDE DEF Wrong
    <3> QED
      BY <1>4, <3>1, LowestOf
  <2>2. t \in 0 .. k /\ ~Kept(t)
    OBVIOUS
  <2> HIDE DEF d
  <2>3. t # 0
    <3>1. M[0] * E[k - 0] + num[0] = number
      <4>1. k - 0 = k /\ k \in 0 .. number
        BY <1>3
      <4>2. M[0] = 0 /\ E[k - 0] \in Nat /\ num[0] = number
        BY <1>5, <1>9, <1>14, <4>1
      <4> QED
        BY <4>2
    <3> QED
      BY <2>2, <3>1
  <2>4. t \in 1 .. k /\ t - 1 \in 0 .. k /\ ~(t <= t - 1)
    BY <1>4, <2>2, <2>3
  <2>5. Kept(t - 1)
    BY <2>1, <2>4
  <2>6. (M[t - 1] * base + d[t]) * E[k - t] + num[t] = M[t - 1] * E[k - (t - 1)] + num[t - 1]
    BY <1>11, <1>14, <2>4
  <2>7. Kept(t)
    BY <1>15, <2>4, <2>5, <2>6
  <2> QED
    BY <2>2, <2>7
<1>18. M[k] = number
  <2>1. k \in 0 .. k /\ k - k = 0
    BY <1>4
  <2>2. Kept(k)
    BY <1>17, <2>1
  <2>3. num[k] < 1 /\ num[k] \in Nat /\ M[k] \in Nat /\ M[k] * E[0] + num[k] = number
    BY <1>5, <1>9, <1>10, <1>14, <2>1, <2>2
  <2> QED
    BY <1>5, <2>3
<1>19. d[1] > 0
  <2>1. 1 \in 1 .. k /\ d[1] = number \div p[1] /\ p[1] \in Nat /\ p[1] >= 1 /\ p[1] = E[k - 1]
    BY <1>4, <1>7, <1>9
  <2> DEFINE e == p[1]
             q == number \div e
  <2>2. e \in Nat \ {0} /\ e <= number
    BY <1>3, <2>1
  <2> HIDE DEF e
  <2>3. q \in Nat /\ number % e < e /\ number = q * e + (number % e) /\ number % e \in Nat
    BY <2>2, Division
  <2> HIDE DEF q
  <2>4. q # 0
    BY <2>2, <2>3
  <2> HIDE DEF d
  <2> QED
    BY <2>1, <2>3, <2>4 DEF q, e
<1> HIDE DEF d
<1> QED
  BY <1>4, <1>12, <1>13, <1>16, <1>18, <1>19, NumeralOfDigits

\* itoa writes the numeral of every word, in every base.
LEMMA NumeralsHold ==
  ASSUME NEW number \in 0 .. WordSpan - 1, NEW base \in 2 .. MaxBase
  PROVE  NumeralRight(number, base)
<1>1. number \in Nat /\ number < WordSpan /\ base \in Nat /\ base >= 2
  BY StringsAssumption
<1> QED
  BY <1>1, ZeroRight, PositiveRight

----------------------------------------------------------------------------
\* Memory.  The string at a ends at e.
EndsAt(m, a, e) ==
  /\ m \in Contents /\ a \in Addresses /\ e \in Addresses /\ a <= e
  /\ m[e] = NUL /\ \A c \in a .. e - 1 : m[c] # NUL

\* Addresses are numbers, and every memory ends with a NUL.
LEMMA Places ==
  /\ MemorySize \in Nat /\ Addresses = 0 .. MemorySize - 1 /\ MemorySize - 1 \in Addresses
  /\ Addresses \subseteq Nat
  /\ \A m \in Contents : m \in [Addresses -> Bytes] /\ m[MemorySize - 1] = NUL
BY StringsAssumption DEF Addresses, Contents

\* Every string ends, at the first NUL from its start on.
LEMMA StringEnds ==
  ASSUME NEW m \in Contents, NEW a \in Addresses
  PROVE  \E e : /\ EndsAt(m, a, e)
                /\ String(m, a) = [i \in 1 .. e - a |-> m[a + i - 1]]
<1> DEFINE Least(e) == e \in Ends(m, a) /\ \A f \in Ends(m, a) : e <= f
           end == CHOOSE e \in Ends(m, a) : \A f \in Ends(m, a) : e <= f
<1>1. \E e : Least(e)
  <2>1. Ends(m, a) \in SUBSET (0 .. MemorySize - 1) /\ MemorySize - 1 \in Nat
    BY Places DEF Ends
  <2>2. MemorySize - 1 \in Ends(m, a)
    BY Places DEF Ends, Addresses
  <2> HIDE DEF end
  <2> QED
    BY <2>1, <2>2, LowestOf
<1>2. Least(end)
  BY <1>1
<1>3. String(m, a) = [i \in 1 .. end - a |-> m[a + i - 1]]
  BY DEF String
<1> HIDE DEF end
<1>4. end \in Addresses /\ a <= end /\ m[end] = NUL
  BY <1>2 DEF Ends
<1>5. ASSUME NEW c \in a .. end - 1, m[c] = NUL PROVE FALSE
  <2>1. c \in Addresses /\ c >= a /\ ~(end <= c)
    BY <1>4, Places
  <2>2. c \in Ends(m, a)
    BY <1>5, <2>1 DEF Ends
  <2> QED
    BY <1>2, <2>1, <2>2
<1> QED
  BY <1>3, <1>4, <1>5 DEF EndsAt

\* strlen counts the bytes up to the end; the proof goes from the end to the front.
LEMMA StrlenRight ==
  ASSUME NEW m, NEW a, NEW e, EndsAt(m, a, e)
  PROVE  strlen(m, a) = e - a
<1> DEFINE A == Addresses
           Def(f) == [x \in DOMAIN m |-> IF m[x] = NUL THEN 0 ELSE 1 + f[x + 1]]
           Length == CHOOSE f : f = Def(f)
           measure == [x \in A |-> MemorySize - 1 - x]
           next == [x \in A |-> IF m[x] = NUL THEN x ELSE x + 1]
           start == [x \in A |-> 0]
           step == [x \in A |-> [v \in Nat |-> 1 + v]]
           Last == {x \in A : m[x] = NUL}
<1>1. strlen(m, a) = Length[a]
  BY DEF strlen
<1>2. DOMAIN m = A /\ m[MemorySize - 1] = NUL /\ MemorySize - 1 \in Nat
  BY Places DEF EndsAt
<1>3. \A x \in A : m[x] # NUL => x + 1 \in A /\ MemorySize - 1 - (x + 1) < MemorySize - 1 - x
  <2> SUFFICES ASSUME NEW x \in A, m[x] # NUL
      PROVE  x + 1 \in A /\ MemorySize - 1 - (x + 1) < MemorySize - 1 - x
    OBVIOUS
  <2>1. x # MemorySize - 1
    BY <1>2
  <2> QED
    BY <2>1, Places
<1>4. Recursive(A, Nat, MemorySize - 1, measure, next, Last, start, step)
  <2>1. \A x \in A : MemorySize - 1 - x \in 0 .. MemorySize - 1
    BY Places
  <2>2. next \in [A -> A]
    BY <1>3
  <2>3. \A x \in A : x \notin Last => next[x] = x + 1 /\ x + 1 \in A /\ m[x] # NUL
    BY <1>3
  <2>4. \A x \in A : x \notin Last => measure[next[x]] < measure[x]
    BY <1>3, <2>3
  <2>5. measure \in [A -> 0 .. MemorySize - 1]
    BY <2>1
  <2>6. start \in [A -> Nat] /\ step \in [A -> [Nat -> Nat]] /\ Last \subseteq A
    OBVIOUS
  <2> HIDE DEF measure, next, start, step, Last, A
  <2> QED
    BY <1>2, <2>2, <2>4, <2>5, <2>6 DEF Recursive
<1>5. PICK f : /\ f \in [A -> Nat]
               /\ \A x \in Last : f[x] = start[x]
               /\ \A x \in A : x \notin Last => f[x] = step[x][f[next[x]]]
  <2> HIDE DEF measure, next, start, step, Last, A
  <2> QED
    BY <1>4, Recursion
<1>6. f = Def(f)
  <2>1. ASSUME NEW x \in A PROVE f[x] = IF m[x] = NUL THEN 0 ELSE 1 + f[x + 1]
    <3>1. CASE m[x] = NUL
      BY <1>5, <3>1
    <3>2. CASE m[x] # NUL
      <4>1. x \notin Last /\ next[x] = x + 1 /\ x + 1 \in A
        BY <1>3, <3>2
      <4>2. f[x] = step[x][f[x + 1]] /\ f[x + 1] \in Nat
        BY <1>5, <4>1
      <4> QED
        BY <3>2, <4>2
    <3> QED
      BY <3>1, <3>2
  <2> QED
    BY <1>2, <1>5, <2>1
<1>7. Length = Def(Length)
  <2> HIDE DEF Def
  <2> QED
    BY <1>6
<1> HIDE DEF Length
<1>8. \A x \in A : Length[x] = IF m[x] = NUL THEN 0 ELSE 1 + Length[x + 1]
  BY <1>2, <1>7
<1>9. a \in Nat /\ e \in Nat /\ a <= e /\ e \in A /\ e - a \in Nat
  BY Places DEF EndsAt
<1>10. \A i \in 0 .. e - a : e - i \in A /\ (i # 0 => m[e - i] # NUL)
  <2> SUFFICES ASSUME NEW i \in 0 .. e - a PROVE e - i \in A /\ (i # 0 => m[e - i] # NUL)
    OBVIOUS
  <2>1. e - i \in A
    BY <1>9, Places
  <2>2. i # 0 => e - i \in a .. e - 1
    BY <1>9
  <2> QED
    BY <2>1, <2>2 DEF EndsAt
<1> DEFINE Wrong == {i \in 0 .. e - a : Length[e - i] # i}
<1>11. Wrong = {}
  <2> SUFFICES ASSUME Wrong # {} PROVE FALSE
    OBVIOUS
  <2>1. PICK i \in Wrong : \A w \in Wrong : i <= w
    <3>1. Wrong \in SUBSET (0 .. e - a)
      OBVIOUS
    <3> HIDE DEF Wrong
    <3> QED
      BY <1>9, <3>1, LowestOf
  <2>2. i \in 0 .. e - a /\ Length[e - i] # i
    OBVIOUS
  <2>3. i # 0
    <3>1. Length[e] = 0 /\ e - 0 = e
      BY <1>8, <1>9 DEF EndsAt
    <3> QED
      BY <2>2, <3>1
  <2>4. i - 1 \in 0 .. e - a /\ ~(i <= i - 1) /\ e - i + 1 = e - (i - 1)
    BY <1>9, <2>2, <2>3
  <2>5. Length[e - (i - 1)] = i - 1
    BY <2>1, <2>4
  <2>6. Length[e - i] = 1 + Length[e - i + 1]
    BY <1>8, <1>10, <2>2, <2>3
  <2> QED
    BY <2>2, <2>4, <2>5, <2>6
<1>12. e - a \in 0 .. e - a /\ e - (e - a) = a
  BY <1>9
<1> QED
  BY <1>1, <1>11, <1>12

\* The loop of strcmp stops at the first i with a difference or the end.
StopsAt(m, a, b, s) ==
  /\ ~(m[a + s] # NUL /\ m[a + s] = m[b + s])
  /\ \A i \in 0 .. s - 1 : m[a + i] # NUL /\ m[a + i] = m[b + i]
  /\ strcmp(m, a, b) <=> m[a + s] = m[b + s]

\* It does stop, at the end of the first string or before.
LEMMA StrcmpStops ==
  ASSUME NEW m, NEW a, NEW b, strlen(m, a) \in Nat, m[a + strlen(m, a)] = NUL
  PROVE  \E s \in 0 .. strlen(m, a) : StopsAt(m, a, b, s)
<1> DEFINE L == strlen(m, a)
           Goes(i) == m[a + i] # NUL /\ m[a + i] = m[b + i]
           A == 0 .. L
           Def(f) == [i \in A |-> IF m[a + i] # NUL /\ m[a + i] = m[b + i] THEN f[i + 1] ELSE i]
           Stop == CHOOSE f : f = Def(f)
           measure == [i \in A |-> L - i]
           next == [i \in A |-> IF i = L THEN i ELSE i + 1]
           step == [i \in A |-> [v \in A |-> v]]
           start == [i \in A |-> i]
           Last == {i \in A : ~Goes(i)}
<1>1. strcmp(m, a, b) = (m[a + Stop[0]] = m[b + Stop[0]])
  BY DEF strcmp
<1>2. L \in Nat /\ m[a + L] = NUL
  OBVIOUS
<1> HIDE DEF L, Goes
<1>3. L \in Last
  BY <1>2 DEF Goes
<1>4. \A i \in A : Goes(i) => i + 1 \in A /\ L - (i + 1) < L - i /\ next[i] = i + 1
  <2> SUFFICES ASSUME NEW i \in A, Goes(i)
               PROVE  i + 1 \in A /\ L - (i + 1) < L - i /\ next[i] = i + 1
    OBVIOUS
  <2>1. i # L
    BY <1>2 DEF Goes
  <2> QED
    BY <1>2, <2>1
<1>5. /\ measure \in [A -> A] /\ next \in [A -> A] /\ step \in [A -> [A -> A]]
      /\ start \in [A -> A] /\ Last \subseteq A
      /\ \A i \in A : /\ measure[i] = L - i /\ start[i] = i /\ (i \notin Last <=> Goes(i))
                      /\ \A v \in A : step[i][v] = v
  BY <1>2
<1> HIDE DEF measure, next, step, start, Last
<1>6. Recursive(A, A, L, measure, next, Last, start, step)
  <2>1. ASSUME NEW i \in A, i \notin Last PROVE measure[next[i]] < measure[i]
    <3>1. i + 1 \in A /\ L - (i + 1) < L - i /\ next[i] = i + 1
      BY <1>4, <1>5, <2>1
    <3>2. measure[i] = L - i /\ measure[i + 1] = L - (i + 1)
      BY <1>5, <3>1
    <3> QED
      BY <3>1, <3>2
  <2> QED
    BY <1>2, <1>5, <2>1 DEF Recursive
<1>7. PICK f : /\ f \in [A -> A]
               /\ \A i \in Last : f[i] = start[i]
               /\ \A i \in A : i \notin Last => f[i] = step[i][f[next[i]]]
  <2> HIDE DEF A
  <2> QED
    BY <1>6, Recursion
<1>8. f = Def(f)
  <2>1. ASSUME NEW i \in A PROVE f[i] = IF Goes(i) THEN f[i + 1] ELSE i
    <3>1. CASE Goes(i)
      <4>1. i \notin Last /\ next[i] = i + 1 /\ i + 1 \in A
        BY <1>4, <1>5, <3>1
      <4>2. f[i] = step[i][f[i + 1]] /\ f[i + 1] \in A
        BY <1>7, <4>1
      <4> QED
        BY <1>5, <3>1, <4>2
    <3>2. CASE ~Goes(i)
      BY <1>5, <1>7, <3>2
    <3> QED
      BY <3>1, <3>2
  <2>2. f = [i \in A |-> f[i]]
    BY <1>7
  <2> HIDE DEF A
  <2> QED
    BY <2>1, <2>2 DEF Goes
<1>9. Stop = Def(Stop)
  <2> HIDE DEF Def
  <2> QED
    BY <1>8
<1> HIDE DEF Stop
<1>10. \A i \in A : Stop[i] = IF Goes(i) THEN Stop[i + 1] ELSE i
  <2> HIDE DEF A
  <2> QED
    BY <1>9 DEF Goes
<1>11. PICK s \in Last : \A i \in Last : s <= i
  BY <1>2, <1>3, <1>5, LowestOf
<1>12. s \in A /\ ~Goes(s)
  BY <1>5, <1>11
<1>13. \A i \in 0 .. s - 1 : Goes(i) /\ i \in A /\ i + 1 \in 0 .. s
  <2> SUFFICES ASSUME NEW i \in 0 .. s - 1 PROVE Goes(i) /\ i \in A /\ i + 1 \in 0 .. s
    OBVIOUS
  <2>1. i \in A /\ ~(s <= i) /\ i + 1 \in 0 .. s
    BY <1>2, <1>12
  <2> QED
    BY <1>5, <1>11, <2>1
<1> DEFINE Wrong == {i \in 0 .. s : Stop[s - i] # s}
<1>14. Wrong = {}
  <2> SUFFICES ASSUME Wrong # {} PROVE FALSE
    OBVIOUS
  <2>1. PICK i \in Wrong : \A w \in Wrong : i <= w
    <3>1. Wrong \in SUBSET (0 .. s) /\ s \in Nat
      BY <1>12
    <3> HIDE DEF Wrong
    <3> QED
      BY <3>1, LowestOf
  <2>2. i \in 0 .. s /\ Stop[s - i] # s
    OBVIOUS
  <2>3. i # 0
    <3>1. s - 0 = s /\ Stop[s] = s
      BY <1>10, <1>12
    <3> QED
      BY <2>2, <3>1
  <2>4. i - 1 \in 0 .. s /\ ~(i <= i - 1) /\ s - i + 1 = s - (i - 1) /\ s - i \in 0 .. s - 1
    BY <1>12, <2>2, <2>3
  <2>5. Stop[s - (i - 1)] = s
    BY <2>1, <2>4
  <2>6. Stop[s - i] = Stop[s - i + 1]
    BY <1>10, <1>13, <2>4
  <2> QED
    BY <2>2, <2>4, <2>5, <2>6
<1>15. Stop[0] = s
  <2>1. s \in 0 .. s /\ s - s = 0
    BY <1>12
  <2> QED
    BY <1>14, <2>1
<1> QED
  BY <1>1, <1>12, <1>13, <1>15 DEF L, Goes, StopsAt

\* strcmp says whether the strings have the same length and bytes.
LEMMA StrcmpRight ==
  ASSUME NEW m, NEW a, NEW e, EndsAt(m, a, e), NEW b, NEW f, EndsAt(m, b, f)
  PROVE  strcmp(m, a, b) <=> e - a = f - b /\ \A i \in 0 .. e - a - 1 : m[a + i] = m[b + i]
<1> DEFINE L == e - a
<1>1. /\ a \in Nat /\ e \in Nat /\ b \in Nat /\ f \in Nat /\ L \in Nat /\ a + L = e
      /\ f - b \in Nat /\ b + (f - b) = f
      /\ m[e] = NUL /\ m[f] = NUL
      /\ \A c \in a .. e - 1 : m[c] # NUL
      /\ \A c \in b .. f - 1 : m[c] # NUL
  BY Places DEF EndsAt
<1>2. strlen(m, a) = L
  BY StrlenRight
<1>6. \E s \in 0 .. L : StopsAt(m, a, b, s)
  BY <1>1, <1>2, StrcmpStops
<1>3. PICK s \in 0 .. L : /\ ~(m[a + s] # NUL /\ m[a + s] = m[b + s])
                          /\ \A i \in 0 .. s - 1 : m[a + i] # NUL /\ m[a + i] = m[b + i]
                          /\ strcmp(m, a, b) <=> m[a + s] = m[b + s]
  BY <1>6 DEF StopsAt
<1> HIDE DEF L
<1>4. ASSUME strcmp(m, a, b)
      PROVE  L = f - b /\ \A i \in 0 .. L - 1 : m[a + i] = m[b + i]
  <2>1. m[a + s] = NUL /\ m[b + s] = NUL
    BY <1>3, <1>4
  <2>2. s = L
    <3> SUFFICES ASSUME s < L PROVE FALSE
      BY <1>1
    <3>1. a + s \in a .. e - 1
      BY <1>1
    <3> QED
      BY <1>1, <2>1, <3>1
  <2>3. s = f - b
    <3>1. ~(s < f - b)
      <4> SUFFICES ASSUME s < f - b PROVE FALSE
        OBVIOUS
      <4>1. b + s \in b .. f - 1
        BY <1>1
      <4> QED
        BY <1>1, <2>1, <4>1
    <3>2. ~(f - b < s)
      <4> SUFFICES ASSUME f - b < s PROVE FALSE
        OBVIOUS
      <4>1. f - b \in 0 .. s - 1 /\ b + (f - b) = f
        BY <1>1
      <4> QED
        BY <1>1, <1>3, <4>1
    <3> QED
      BY <1>1, <3>1, <3>2
  <2> QED
    BY <1>3, <2>2, <2>3
<1>5. ASSUME L = f - b, \A i \in 0 .. L - 1 : m[a + i] = m[b + i]
      PROVE  strcmp(m, a, b)
  <2>1. s = L
    <3> SUFFICES ASSUME s < L PROVE FALSE
      BY <1>1
    <3>1. a + s \in a .. e - 1 /\ s \in 0 .. L - 1
      BY <1>1
    <3> QED
      BY <1>1, <1>3, <1>5, <3>1
  <2>2. m[a + s] = NUL /\ m[b + s] = NUL
    BY <1>1, <1>5, <2>1
  <2> QED
    BY <1>3, <2>2
<1> QED
  BY <1>4, <1>5 DEF L

\* strlen and strcmp in terms of the strings themselves.
LEMMA StringsEqual ==
  ASSUME NEW m \in Contents, NEW a \in Addresses, NEW b \in Addresses
  PROVE  /\ strlen(m, a) = Len(String(m, a))
         /\ strcmp(m, a, b) <=> String(m, a) = String(m, b)
<1>1. PICK e : EndsAt(m, a, e) /\ String(m, a) = [i \in 1 .. e - a |-> m[a + i - 1]]
  BY StringEnds
<1>2. PICK f : EndsAt(m, b, f) /\ String(m, b) = [i \in 1 .. f - b |-> m[b + i - 1]]
  BY StringEnds
<1> DEFINE s == String(m, a)
           t == String(m, b)
<1>3. a \in Nat /\ b \in Nat /\ e - a \in Nat /\ f - b \in Nat
  BY <1>1, <1>2, Places DEF EndsAt
<1>4. /\ Len(s) = e - a /\ DOMAIN s = 1 .. e - a /\ \A i \in 1 .. e - a : s[i] = m[a + i - 1]
      /\ Len(t) = f - b /\ DOMAIN t = 1 .. f - b /\ \A i \in 1 .. f - b : t[i] = m[b + i - 1]
      /\ s = [i \in 1 .. e - a |-> s[i]] /\ t = [i \in 1 .. f - b |-> t[i]]
  BY <1>1, <1>2, <1>3
<1> HIDE DEF s, t
<1>5. strlen(m, a) = Len(s)
  BY <1>1, <1>4, StrlenRight
<1>6. strcmp(m, a, b) <=> e - a = f - b /\ \A i \in 0 .. e - a - 1 : m[a + i] = m[b + i]
  BY <1>1, <1>2, StrcmpRight
<1>7. ASSUME s = t PROVE strcmp(m, a, b)
  <2>1. e - a = f - b
    BY <1>4, <1>7
  <2>2. ASSUME NEW i \in 0 .. e - a - 1 PROVE m[a + i] = m[b + i]
    <3>1. i + 1 \in 1 .. e - a /\ a + (i + 1) - 1 = a + i /\ b + (i + 1) - 1 = b + i
      BY <1>3
    <3>2. s[i + 1] = m[a + i] /\ t[i + 1] = m[b + i]
      BY <1>4, <2>1, <3>1
    <3> QED
      BY <1>7, <3>2
  <2> QED
    BY <1>6, <2>1, <2>2
<1>8. ASSUME strcmp(m, a, b) PROVE s = t
  <2>1. e - a = f - b /\ \A i \in 0 .. e - a - 1 : m[a + i] = m[b + i]
    BY <1>6, <1>8
  <2>2. ASSUME NEW i \in 1 .. e - a PROVE s[i] = t[i]
    <3>1. i - 1 \in 0 .. e - a - 1 /\ a + i - 1 = a + (i - 1) /\ b + i - 1 = b + (i - 1)
      BY <1>3
    <3> QED
      BY <1>4, <2>1, <3>1
  <2> QED
    BY <1>4, <2>1, <2>2
<1> QED
  BY <1>5, <1>7, <1>8 DEF s, t

\* After i turns of memcpy the first i bytes are there: no turn reads a byte that
\* an earlier one wrote.
LEMMA MemcpyRight ==
  ASSUME NEW m \in [Addresses -> Bytes], NEW a \in Addresses, NEW b \in Addresses, NEW n \in Nat,
         a + n <= MemorySize, b + n <= MemorySize, a <= b \/ b + n <= a
  PROVE  memcpy(m, a, b, n) =
           [c \in Addresses |-> IF c \in a .. a + n - 1 THEN m[b + c - a] ELSE m[c]]
<1> DEFINE A == 0 .. n
           Def(f) == [i \in A |-> IF i = 0 THEN m
                                  ELSE [f[i - 1] EXCEPT ![a + i - 1] = f[i - 1][b + i - 1]]]
           After == CHOOSE f : f = Def(f)
           Copied(i) == [c \in Addresses |-> IF c \in a .. a + i - 1 THEN m[b + c - a] ELSE m[c]]
           F == [i \in A |-> Copied(i)]
<1>1. memcpy(m, a, b, n) = After[n]
  BY DEF memcpy
<1>2. a \in Nat /\ b \in Nat /\ MemorySize \in Nat /\ \A c : c \in Addresses <=> c \in Nat /\ c < MemorySize
  BY Places
<1>3. ASSUME NEW i \in 1 .. n
      PROVE  Copied(i) = [Copied(i - 1) EXCEPT ![a + i - 1] = Copied(i - 1)[b + i - 1]]
  <2>1. /\ i \in Nat /\ a + i - 1 \in Addresses /\ b + i - 1 \in Addresses
        /\ ~(b + i - 1 \in a .. a + (i - 1) - 1)
    BY <1>2
  <2> DEFINE was == Copied(i - 1)
             here == a + i - 1
             there == b + i - 1
  <2>2. was[there] = m[there]
    BY <2>1
  <2>3. DOMAIN was = Addresses /\ here \in Addresses
    BY <2>1
  <2>4. ASSUME NEW c \in Addresses
        PROVE  Copied(i)[c] = IF c = here THEN m[there] ELSE was[c]
    <3>1. CASE c = here
      <4>1. c \in a .. a + i - 1 /\ b + c - a = there
        BY <1>2, <2>1, <3>1
      <4> QED
        BY <3>1, <4>1
    <3>2. CASE c # here
      <4>1. c \in a .. a + i - 1 <=> c \in a .. a + (i - 1) - 1
        BY <1>2, <3>2
      <4> QED
        BY <3>2, <4>1
    <3> QED
      BY <3>1, <3>2
  <2>5. Copied(i) = [c \in Addresses |-> Copied(i)[c]]
    OBVIOUS
  <2>6. [was EXCEPT ![here] = m[there]] = [c \in Addresses |-> IF c = here THEN m[there] ELSE was[c]]
    <3> HIDE DEF here, there, was
    <3> QED
      BY <2>3
  <2> HIDE DEF Copied, here, there, was
  <2>7. Copied(i) = [was EXCEPT ![here] = was[there]]
    BY <2>2, <2>4, <2>5, <2>6
  <2> QED
    BY <2>7 DEF was, here, there
<1>4. Copied(0) = m
  <2>1. \A c \in Addresses : ~(c \in a .. a + 0 - 1)
    BY <1>2
  <2> QED
    BY <2>1
<1>5. \A i \in A : i # 0 => i \in 1 .. n /\ i - 1 \in A /\ ~(i <= i - 1)
  OBVIOUS
<1> HIDE DEF Copied
<1>6. F = Def(F)
  <2>1. \A i \in A : F[i] = Copied(i)
    OBVIOUS
  <2>2. F = [i \in A |-> F[i]]
    OBVIOUS
  <2> HIDE DEF F, A
  <2>3. ASSUME NEW i \in A
        PROVE  F[i] = IF i = 0 THEN m ELSE [F[i - 1] EXCEPT ![a + i - 1] = F[i - 1][b + i - 1]]
    BY <1>3, <1>4, <1>5, <2>1
  <2> QED
    BY <2>2, <2>3
<1>7. After = Def(After)
  <2> HIDE DEF F, Def
  <2> QED
    BY <1>6
<1> HIDE DEF After
<1>8. \A i \in A : After[i] = IF i = 0 THEN m
                              ELSE [After[i - 1] EXCEPT ![a + i - 1] = After[i - 1][b + i - 1]]
  <2> HIDE DEF A
  <2> QED
    BY <1>7
<1> DEFINE Wrong == {i \in 0 .. n : After[i] # Copied(i)}
<1>9. Wrong = {}
  <2> SUFFICES ASSUME Wrong # {} PROVE FALSE
    OBVIOUS
  <2>1. PICK i \in Wrong : \A w \in Wrong : i <= w
    <3>1. Wrong \in SUBSET (0 .. n)
      OBVIOUS
    <3> HIDE DEF Wrong
    <3> QED
      BY <3>1, LowestOf
  <2>2. i \in A /\ After[i] # Copied(i)
    OBVIOUS
  <2>3. i # 0
    BY <1>4, <1>8, <2>2
  <2>4. After[i - 1] = Copied(i - 1)
    BY <1>5, <2>1, <2>2, <2>3
  <2> QED
    BY <1>3, <1>5, <1>8, <2>2, <2>3, <2>4
<1>10. n \in 0 .. n
  OBVIOUS
<1>11. After[n] = Copied(n)
  BY <1>9, <1>10
<1> QED
  BY <1>1, <1>11 DEF Copied

\* strcpy's loop writes at a alone, and does not run past the end of the source:
\* that byte it would write only if a were the end, and then there is no turn.
\* It writes nothing when it returns NULL.
LEMMA StrcpyRight ==
  ASSUME NEW m \in Contents, NEW a \in Addresses, NEW b \in Addresses
  PROVE  /\ strcpy(m, a, b).mem \in [Addresses -> Bytes]
         /\ \A c \in Addresses \ {a} : strcpy(m, a, b).mem[c] = m[c]
         /\ strcpy(m, a, b).ret = NULL => strcpy(m, a, b).mem = m
<1> DEFINE A == 0 .. MemorySize
           Turn(was) == IF was.mem[was.src] = NUL THEN was
                        ELSE [mem |-> [was.mem EXCEPT ![a] = was.mem[was.src]], src |-> was.src + 1]
           first == [mem |-> m, src |-> b]
           Def(f) == [t \in A |-> IF t = 0 THEN first ELSE Turn(f[t - 1])]
           After == CHOOSE f : f = Def(f)
<1>1. strcpy(m, a, b) = IF strlen(m, a) < strlen(m, b) THEN [mem |-> m, ret |-> NULL]
                        ELSE [mem |-> After[MemorySize].mem, ret |-> a]
  BY Zenon DEF strcpy
<1>2. CASE strlen(m, a) < strlen(m, b)
  <2>1. m \in [Addresses -> Bytes]
    BY Places
  <2> QED
    BY <1>1, <1>2, <2>1
<1>3. CASE ~(strlen(m, a) < strlen(m, b))
  <2>1. PICK e : EndsAt(m, a, e)
    BY StringEnds
  <2>2. PICK f : EndsAt(m, b, f)
    BY StringEnds
  <2>3. strlen(m, a) = e - a /\ strlen(m, b) = f - b
    BY <2>1, <2>2, StrlenRight
  <2>4. /\ a \in Nat /\ b \in Nat /\ e \in Nat /\ f \in Nat /\ a <= e /\ b <= f /\ f \in Addresses
        /\ m[f] = NUL /\ m[e] = NUL /\ \A x \in a .. e - 1 : m[x] # NUL
        /\ \A x \in b .. f : x \in Addresses
        /\ MemorySize \in Nat /\ MemorySize \in 0 .. MemorySize
    BY <2>1, <2>2, Places DEF EndsAt
  <2>5. a = f => b = f
    <3> SUFFICES ASSUME a = f PROVE b = f
      OBVIOUS
    <3>1. e = a
      <4> SUFFICES ASSUME a <= e - 1 PROVE FALSE
        BY <2>4
      <4>1. a \in a .. e - 1
        BY <2>4
      <4> QED
        BY <2>4, <4>1
    <3> QED
      BY <1>3, <2>3, <2>4, <3>1
  <2> DEFINE V == {v \in [mem : [Addresses -> Bytes], src : b .. f] :
                     v.mem[f] = NUL /\ \A x \in Addresses \ {a} : v.mem[x] = m[x]}
             step == [t \in 1 .. MemorySize |-> [v \in V |-> Turn(v)]]
  <2>6. first \in V
    BY <2>4, Places
  <2>7. ASSUME NEW v \in V PROVE Turn(v) \in V
    <3>1. CASE v.mem[v.src] = NUL
      BY <3>1
    <3>2. CASE v.mem[v.src] # NUL
      <4>1. /\ v.mem \in [Addresses -> Bytes] /\ v.src \in b .. f /\ v.mem[f] = NUL
            /\ \A x \in Addresses \ {a} : v.mem[x] = m[x]
        OBVIOUS
      <4>2. v.src # f /\ v.src + 1 \in b .. f /\ v.src \in Addresses
        BY <2>4, <3>2, <4>1
      <4>3. a # f
        BY <2>4, <2>5, <4>1, <4>2
      <4> DEFINE mem == [v.mem EXCEPT ![a] = v.mem[v.src]]
      <4>4. mem \in [Addresses -> Bytes] /\ mem[f] = NUL /\ \A x \in Addresses \ {a} : mem[x] = m[x]
        BY <2>4, <4>1, <4>2, <4>3
      <4>5. Turn(v) = [mem |-> mem, src |-> v.src + 1]
        BY <3>2
      <4> HIDE DEF mem, Turn
      <4> QED
        BY <4>2, <4>4, <4>5
    <3> QED
      BY <3>1, <3>2
  <2>8. \A v \in V : v.mem \in [Addresses -> Bytes] /\ \A c \in Addresses \ {a} : v.mem[c] = m[c]
    OBVIOUS
  <2> HIDE DEF V, Turn, first
  <2>9. Loop(MemorySize, V, first, step)
    BY <2>4, <2>6, <2>7 DEF Loop
  <2>10. \A t \in 1 .. MemorySize : \A v \in V : step[t][v] = Turn(v)
    OBVIOUS
  <2> HIDE DEF step
  <2>11. PICK g : LoopRun(g, MemorySize, V, first, step)
    BY <2>9, Turns
  <2>12. /\ g \in [A -> V] /\ g[0] = first
         /\ \A t \in A : t # 0 => t \in 1 .. MemorySize /\ t - 1 \in A /\ ~(t <= t - 1)
         /\ \A t \in A : t # 0 => g[t] = Turn(g[t - 1])
    <3>1. g \in [A -> V] /\ g[0] = first /\ \A t \in 1 .. MemorySize : g[t] = step[t][g[t - 1]]
      BY <2>11 DEF LoopRun
    <3>2. \A t \in A : t # 0 => t \in 1 .. MemorySize /\ t - 1 \in A /\ ~(t <= t - 1)
      BY <2>4
    <3> HIDE DEF A
    <3> QED
      BY <2>10, <3>1, <3>2
  <2>13. g = Def(g)
    <3> HIDE DEF A
    <3>1. g = [t \in A |-> g[t]]
      BY <2>12
    <3> QED
      BY <2>12, <3>1
  <2>14. After = Def(After)
    <3> HIDE DEF Def
    <3> QED
      BY <2>13
  <2> HIDE DEF After
  <2>15. \A t \in A : After[t] = IF t = 0 THEN first ELSE Turn(After[t - 1])
    <3> HIDE DEF A
    <3> QED
      BY <2>14
  <2> DEFINE Wrong == {t \in 0 .. MemorySize : After[t] \notin V}
  <2>16. Wrong = {}
    <3> SUFFICES ASSUME Wrong # {} PROVE FALSE
      OBVIOUS
    <3>1. PICK t \in Wrong : \A w \in Wrong : t <= w
      <4>1. Wrong \in SUBSET (0 .. MemorySize)
        OBVIOUS
      <4> HIDE DEF Wrong
      <4> QED
        BY <2>4, <4>1, LowestOf
    <3>2. t \in A /\ After[t] \notin V
      OBVIOUS
    <3>3. t # 0
      BY <2>6, <2>15, <3>2
    <3>4. After[t - 1] \in V
      BY <2>12, <3>1, <3>2, <3>3
    <3> QED
      BY <2>7, <2>15, <3>2, <3>3, <3>4
  <2>17. After[MemorySize] \in V
    BY <2>4, <2>16
  <2>18. strcpy(m, a, b).mem = After[MemorySize].mem /\ strcpy(m, a, b).ret = a
    BY <1>1, <1>3
  <2>19. a # NULL
    BY <2>4 DEF NULL
  <2> QED
    BY <2>8, <2>17, <2>18, <2>19
<1> QED
  BY <1>2, <1>3

----------------------------------------------------------------------------
\* The callers.  A numeral is in memory, whole.
Stands(m, note) ==
  /\ Numeral(note) \subseteq Addresses
  /\ \A i \in 1 .. Len(itoa(note.number, note.base)) :
       m[note.at + i - 1] = itoa(note.number, note.base)[i]

CallsInv ==
  memory \in Contents /\ notes \subseteq Note /\ \A note \in notes : Stands(memory, note)

\* What itoa writes are bytes, the last of them the only NUL.
LEMMA ItoaBytes ==
  ASSUME NEW number \in 0 .. WordSpan - 1, NEW base \in 2 .. MaxBase
  PROVE  /\ itoa(number, base) \in Seq(Bytes) /\ Len(itoa(number, base)) \in Nat \ {0}
         /\ itoa(number, base)[Len(itoa(number, base))] = NUL
         /\ \A i \in 1 .. Len(itoa(number, base)) - 1 : itoa(number, base)[i] # NUL
<1> DEFINE str == itoa(number, base)
<1>1. /\ str \in Seq(Nat) /\ Len(str) >= 1 /\ str[Len(str)] = NUL
      /\ \A i \in 1 .. Len(str) - 1 : str[i] >= 48 /\ (str[i] <= 57 \/ str[i] <= base + 54)
  BY NumeralsHold DEF NumeralRight
<1> HIDE DEF str
<1>2. ASSUME NEW i \in 1 .. Len(str) PROVE str[i] \in Bytes
  <2>1. CASE i = Len(str)
    BY <1>1, <2>1 DEF Bytes, NUL
  <2>2. CASE i # Len(str)
    <3>1. i \in 1 .. Len(str) - 1 /\ str[i] \in Nat
      BY <1>1, <2>2
    <3>2. str[i] <= 57 \/ str[i] <= base + 54
      BY <1>1, <3>1
    <3>3. base \in Int /\ base <= 201
      BY DEF MaxBase
    <3> DEFINE ch == str[i]
    <3>4. ch \in Nat /\ (ch <= 57 \/ ch <= base + 54)
      BY <3>1, <3>2
    <3> HIDE DEF ch
    <3>5. ch \in 0 .. 255
      BY <3>3, <3>4
    <3> QED
      BY <3>5 DEF ch, Bytes
  <2> QED
    BY <2>1, <2>2
<1>3. Len(str) \in Nat /\ str = [i \in 1 .. Len(str) |-> str[i]]
  BY <1>1
<1>4. str \in Seq(Bytes)
  <2>1. str \in [1 .. Len(str) -> Bytes]
    BY <1>2, <1>3
  <2> QED
    BY <1>3, <2>1
<1>5. \A i \in 1 .. Len(str) - 1 : str[i] # NUL
  BY <1>1, <1>3 DEF NUL
<1> QED
  BY <1>1, <1>3, <1>4, <1>5 DEF str

\* Areas are intervals: inside memory, and apart, they are so by their ends.
LEMMA Areas ==
  ASSUME NEW a \in Addresses, NEW n \in Nat, Area(a, n) \subseteq Addresses
  PROVE  /\ a + n <= MemorySize
         /\ \A b \in Addresses : Area(a, n) \cap Area(b, n) = {} => a <= b \/ b + n <= a
         /\ \A i \in 1 .. n : a + i - 1 \in Area(a, n)
<1>1. a \in Nat /\ MemorySize \in Nat /\ a <= MemorySize - 1
  BY Places
<1>2. a + n <= MemorySize
  <2>1. CASE n = 0
    BY <1>1, <2>1
  <2>2. CASE n # 0
    <3>1. a + n - 1 \in Area(a, n)
      BY <1>1, <2>2 DEF Area
    <3>2. a + n - 1 <= MemorySize - 1
      BY <3>1, Places
    <3> QED
      BY <1>1, <3>2
  <2> QED
    BY <2>1, <2>2
<1>3. ASSUME NEW b \in Addresses, Area(a, n) \cap Area(b, n) = {} PROVE a <= b \/ b + n <= a
  <2>1. b \in Nat
    BY Places
  <2> SUFFICES ASSUME b < a, a < b + n PROVE FALSE
    BY <1>1, <2>1
  <2>2. a \in Area(a, n) /\ a \in Area(b, n)
    BY <1>1, <2>1 DEF Area
  <2> QED
    BY <1>3, <2>2
<1>4. \A i \in 1 .. n : a + i - 1 \in Area(a, n)
  BY <1>1 DEF Area
<1> QED
  BY <1>2, <1>3, <1>4

\* A numeral outside of an area stands, whatever is done inside.
LEMMA OutsideStands ==
  ASSUME CallsInv, NEW area, NEW m, \A c \in Addresses \ area : m[c] = memory[c]
  PROVE  \A note \in Outside(area) : note \in Note /\ Stands(m, note)
<1> SUFFICES ASSUME NEW note \in Outside(area) PROVE note \in Note /\ Stands(m, note)
  OBVIOUS
<1> DEFINE str == itoa(note.number, note.base)
<1>1. note \in Note /\ Stands(memory, note) /\ Numeral(note) \cap area = {}
  BY DEF CallsInv, Outside
<1>2. /\ note.at \in Addresses /\ note.number \in 0 .. WordSpan - 1 /\ note.base \in 2 .. MaxBase
      /\ Len(str) \in Nat
  BY <1>1, ItoaBytes DEF Note
<1>3. Numeral(note) = Area(note.at, Len(str)) /\ Numeral(note) \subseteq Addresses
  BY <1>1 DEF Numeral, Stands
<1>4. \A i \in 1 .. Len(str) : memory[note.at + i - 1] = str[i]
  BY <1>1 DEF Stands
<1> HIDE DEF str
<1>5. \A i \in 1 .. Len(str) : note.at + i - 1 \in Addresses \ area
  BY <1>1, <1>2, <1>3, Areas
<1>6. \A i \in 1 .. Len(str) : m[note.at + i - 1] = str[i]
  BY <1>4, <1>5
<1> QED
  BY <1>1, <1>3, <1>6 DEF Stands, str

LEMMA CallsStart == CallsInit => CallsInv
<1> SUFFICES ASSUME CallsInit PROVE CallsInv
  OBVIOUS
<1>1. memory = [a \in Addresses |-> NUL] /\ notes = {} /\ MemorySize - 1 \in Addresses
  BY Places DEF CallsInit
<1>2. NUL \in Bytes
  BY DEF NUL, Bytes
<1>3. memory \in Contents
  BY <1>1, <1>2 DEF Contents
<1> QED
  BY <1>1, <1>3 DEF CallsInv

\* What is stored is a memory's contents.
LEMMA Stored ==
  ASSUME NEW m \in [Addresses -> Bytes], Store(m)
  PROVE  memory' = m /\ memory' \in Contents
BY DEF Store, Contents

LEMMA FillKeeps ==
  ASSUME CallsInv, NEW a \in Addresses, NEW n \in 0 .. MemorySize, NEW val \in Fills,
         Fill(a, val, n)
  PROVE  CallsInv'
<1> DEFINE m == memset(memory, a, val, n)
<1>1. memory \in [Addresses -> Bytes] /\ val \in Bytes
  BY CallsAssumption, Places DEF CallsInv
<1>2. m \in [Addresses -> Bytes] /\ \A c \in Addresses \ Area(a, n) : m[c] = memory[c]
  BY <1>1 DEF memset, Area
<1>3. Store(m) /\ notes' = Outside(Area(a, n))
  BY DEF Fill
<1> HIDE DEF m
<1>4. memory' = m /\ memory' \in Contents
  BY <1>2, <1>3, Stored
<1>5. \A note \in notes' : note \in Note /\ Stands(memory', note)
  BY <1>2, <1>3, <1>4, OutsideStands
<1> QED
  BY <1>4, <1>5 DEF CallsInv

LEMMA WriteKeeps ==
  ASSUME CallsInv, NEW a \in Addresses, NEW number \in Numbers, NEW base \in Bases,
         WriteNumber(number, a, base)
  PROVE  CallsInv'
<1> DEFINE str == itoa(number, base)
           m == Written(memory, a, str)
           note == [at |-> a, number |-> number, base |-> base]
<1>1. /\ memory \in [Addresses -> Bytes] /\ number \in 0 .. WordSpan - 1 /\ base \in 0 .. MaxBase
      /\ a \in Nat
  BY CallsAssumption, Places DEF CallsInv
<1>2. /\ Area(a, Len(str)) \subseteq Addresses /\ Store(m)
      /\ notes' = Outside(Area(a, Len(str))) \cup IF base < 2 THEN {} ELSE {note}
  BY DEF WriteNumber
<1>3. str \in Seq(Bytes) /\ Len(str) \in Nat
  <2>1. CASE base < 2
    <3>1. str = <<NUL>> /\ NUL \in Bytes
      BY <2>1 DEF itoa, NUL, Bytes
    <3> HIDE DEF str
    <3> QED
      BY <3>1
  <2>2. CASE ~(base < 2)
    <3>1. base \in 2 .. MaxBase
      BY <1>1, <2>2 DEF MaxBase
    <3> QED
      BY <1>1, <3>1, ItoaBytes
  <2> QED
    BY <2>1, <2>2
<1> HIDE DEF str
<1>4. ASSUME NEW c \in Addresses, c \in Area(a, Len(str))
      PROVE  c - a + 1 \in 1 .. Len(str) /\ str[c - a + 1] \in Bytes
  <2>1. c \in Nat /\ c \in a .. a + Len(str) - 1
    BY <1>4, Places DEF Area
  <2>2. c - a + 1 \in 1 .. Len(str)
    BY <1>1, <1>3, <2>1
  <2> QED
    BY <1>3, <2>2
<1>5. m \in [Addresses -> Bytes] /\ \A c \in Addresses \ Area(a, Len(str)) : m[c] = memory[c]
  BY <1>1, <1>4 DEF Written
<1>6. \A i \in 1 .. Len(str) : m[a + i - 1] = str[i]
  <2> SUFFICES ASSUME NEW i \in 1 .. Len(str) PROVE m[a + i - 1] = str[i]
    OBVIOUS
  <2>1. a + i - 1 \in Area(a, Len(str))
    BY <1>2, <1>3, Areas
  <2> DEFINE c == a + i - 1
  <2>2. c - a + 1 = i
    BY <1>1
  <2>3. c \in Area(a, Len(str))
    BY <2>1
  <2> HIDE DEF c
  <2>4. c \in Addresses
    BY <1>2, <2>3
  <2>5. m[c] = IF c \in Area(a, Len(str)) THEN str[c - a + 1] ELSE memory[c]
    BY ONLY <2>4, m = Written(memory, a, str) DEF Written
  <2> QED
    BY <2>2, <2>3, <2>5 DEF c
<1> HIDE DEF m
<1>7. memory' = m /\ memory' \in Contents
  BY <1>2, <1>5, Stored
<1>8. \A o \in Outside(Area(a, Len(str))) : o \in Note /\ Stands(memory', o)
  BY <1>5, <1>7, OutsideStands
<1>9. ~(base < 2) => note \in Note /\ Stands(memory', note)
  <2> SUFFICES ASSUME ~(base < 2) PROVE note \in Note /\ Stands(memory', note)
    OBVIOUS
  <2>1. base \in 2 .. MaxBase
    BY <1>1 DEF MaxBase
  <2>2. note \in Note /\ note.at = a /\ itoa(note.number, note.base) = str
    BY <1>1, <2>1 DEF Note, str
  <2> HIDE DEF note
  <2> QED
    BY <1>2, <1>6, <1>7, <2>2 DEF Stands, Numeral
<1> HIDE DEF note
<1>10. \A o \in notes' : o \in Note /\ Stands(memory', o)
  BY <1>2, <1>8, <1>9
<1> QED
  BY <1>7, <1>10 DEF CallsInv

LEMMA CopyKeeps ==
  ASSUME CallsInv, NEW a \in Addresses, NEW b \in Addresses, NEW n \in 0 .. MemorySize,
         Copy(a, b, n)
  PROVE  CallsInv'
<1> DEFINE m == memcpy(memory, a, b, n)
           Moved(note) == [note EXCEPT !.at = @ - b + a]
           inside == {note \in notes : Numeral(note) \subseteq Area(b, n)}
<1>1. memory \in [Addresses -> Bytes] /\ a \in Nat /\ b \in Nat /\ n \in Nat
  BY Places DEF CallsInv
<1>2. /\ Area(a, n) \subseteq Addresses /\ Area(b, n) \subseteq Addresses
      /\ Area(a, n) \cap Area(b, n) = {} /\ Store(m)
      /\ notes' = Outside(Area(a, n)) \cup {Moved(note) : note \in inside}
  BY DEF Copy
<1>3. a + n <= MemorySize /\ b + n <= MemorySize /\ (a <= b \/ b + n <= a)
  BY <1>1, <1>2, Areas
<1>4. m = [c \in Addresses |-> IF c \in a .. a + n - 1 THEN memory[b + c - a] ELSE memory[c]]
  BY <1>1, <1>3, MemcpyRight
<1> HIDE DEF m
<1>5. \A c \in Area(a, n) : b + c - a \in Addresses
  <2> SUFFICES ASSUME NEW c \in Area(a, n) PROVE b + c - a \in Area(b, n)
    BY <1>2
  <2> QED
    BY <1>1 DEF Area
<1>6. m \in [Addresses -> Bytes] /\ \A c \in Addresses \ Area(a, n) : m[c] = memory[c]
  BY <1>1, <1>4, <1>5 DEF Area
<1>7. memory' = m /\ memory' \in Contents
  BY <1>2, <1>6, Stored
<1>8. \A note \in Outside(Area(a, n)) : note \in Note /\ Stands(memory', note)
  BY <1>6, <1>7, OutsideStands
<1>9. ASSUME NEW note \in inside PROVE Moved(note) \in Note /\ Stands(memory', Moved(note))
  <2> DEFINE str == itoa(note.number, note.base)
             to == note.at - b + a
  <2>1. note \in Note /\ Stands(memory, note) /\ Numeral(note) \subseteq Area(b, n)
    BY DEF CallsInv
  <2>2. /\ note.at \in Addresses /\ note.number \in 0 .. WordSpan - 1 /\ note.base \in 2 .. MaxBase
        /\ Len(str) \in Nat \ {0}
    BY <2>1, ItoaBytes DEF Note
  <2>3. /\ Moved(note) \in [at : {to}, number : 0 .. WordSpan - 1, base : 2 .. MaxBase]
        /\ Moved(note).at = to /\ Moved(note).number = note.number /\ Moved(note).base = note.base
    BY <2>1 DEF Note
  <2>4. Numeral(note) = Area(note.at, Len(str)) /\ Numeral(Moved(note)) = Area(to, Len(str))
    <3> HIDE DEF Moved
    <3> QED
      BY <2>3 DEF Numeral
  <2>5. \A i \in 1 .. Len(str) : memory[note.at + i - 1] = str[i]
    BY <2>1 DEF Stands
  <2> HIDE DEF str, Moved, inside
  <2>6. note.at \in Nat
    BY <2>2, Places
  <2>7. ASSUME NEW i \in 1 .. Len(str)
        PROVE  note.at + i - 1 \in b .. b + n - 1
    <3>1. note.at + i - 1 \in Area(note.at, Len(str))
      BY <2>2, <2>6 DEF Area
    <3> QED
      BY <2>1, <2>4, <3>1 DEF Area
  <2>8. ASSUME NEW i \in 1 .. Len(str)
        PROVE  /\ to + i - 1 \in Addresses /\ to + i - 1 \in a .. a + n - 1
               /\ b + (to + i - 1) - a = note.at + i - 1
    <3>1. note.at + i - 1 \in b .. b + n - 1
      BY <2>7
    <3> DEFINE at == note.at
    <3>2. at \in Nat /\ i \in Nat /\ at + i - 1 \in b .. b + n - 1 /\ to = at - b + a
      BY <2>2, <2>6, <3>1
    <3> HIDE DEF at, to
    <3>3. to + i - 1 \in a .. a + n - 1 /\ b + (to + i - 1) - a = at + i - 1
      BY <1>1, <3>2
    <3>4. to + i - 1 \in a .. a + n - 1 /\ b + (to + i - 1) - a = note.at + i - 1
      BY <3>3 DEF at
    <3> QED
      BY <1>2, <3>4 DEF Area
  <2>9. \A i \in 1 .. Len(str) : memory'[to + i - 1] = str[i]
    BY <1>4, <1>7, <2>5, <2>8
  <2>10. Area(to, Len(str)) \subseteq Addresses /\ to \in Addresses
    <3>1. to \in Int
      BY <1>1, <2>6
    <3>2. \A c \in to .. to + Len(str) - 1 : c - to + 1 \in 1 .. Len(str) /\ to + (c - to + 1) - 1 = c
      <4> HIDE DEF to
      <4> QED
        BY <2>2, <3>1
    <3>3. Area(to, Len(str)) \subseteq Addresses
      BY <2>8, <3>2 DEF Area
    <3>4. 1 \in 1 .. Len(str) /\ to + 1 - 1 = to
      BY <2>2, <3>1
    <3> QED
      BY <2>8, <3>3, <3>4
  <2>11. Moved(note) \in Note
    BY <2>3, <2>10 DEF Note
  <2> QED
    BY <2>3, <2>4, <2>9, <2>10, <2>11 DEF Stands, str
<1> HIDE DEF Moved, inside
<1>10. \A note \in notes' : note \in Note /\ Stands(memory', note)
  BY <1>2, <1>8, <1>9
<1> QED
  BY <1>7, <1>10 DEF CallsInv

LEMMA CopyStringKeeps ==
  ASSUME CallsInv, NEW a \in Addresses, NEW b \in Addresses, CopyString(a, b)
  PROVE  CallsInv'
<1> DEFINE room == Area(a, strlen(memory, b) + 1)
           m == strcpy(memory, a, b).mem
           ret == strcpy(memory, a, b).ret
<1>1. memory \in Contents /\ a \in Nat
  BY Places DEF CallsInv
<1>2. /\ m \in [Addresses -> Bytes] /\ \A c \in Addresses \ {a} : m[c] = memory[c]
      /\ ret = NULL => m = memory
  BY <1>1, StrcpyRight
<1>3. Store(m) /\ notes' = IF ret = NULL THEN notes ELSE Outside(room)
  BY DEF CopyString
<1>4. a \in room
  <2>1. PICK e : EndsAt(memory, b, e)
    BY <1>1, StringEnds
  <2>2. strlen(memory, b) = e - b
    BY <2>1, StrlenRight
  <2>3. strlen(memory, b) + 1 >= 1 /\ strlen(memory, b) \in Int
    BY <2>1, <2>2, Places DEF EndsAt
  <2> QED
    BY <1>1, <2>3 DEF Area
<1> HIDE DEF m, ret, room
<1>5. memory' = m /\ memory' \in Contents
  BY <1>2, <1>3, Stored
<1>6. CASE ret = NULL
  BY <1>2, <1>3, <1>5, <1>6 DEF CallsInv
<1>7. CASE ret # NULL
  <2>1. \A c \in Addresses \ room : m[c] = memory[c]
    BY <1>2, <1>4
  <2>2. \A note \in notes' : note \in Note /\ Stands(memory', note)
    BY <1>3, <1>5, <1>7, <2>1, OutsideStands
  <2> QED
    BY <1>5, <2>2 DEF CallsInv
<1> QED
  BY <1>6, <1>7

\* The string at a numeral's place is what itoa wrote, without the NUL.
LEMMA StandsAsString ==
  ASSUME NEW m \in Contents, NEW note \in Note, Stands(m, note)
  PROVE  String(m, note.at) = SubSeq(itoa(note.number, note.base), 1,
                                     Len(itoa(note.number, note.base)) - 1)
<1> DEFINE str == itoa(note.number, note.base)
           a == note.at
<1>1. /\ a \in Addresses /\ note.number \in 0 .. WordSpan - 1 /\ note.base \in 2 .. MaxBase
  BY DEF Note
<1>2. /\ str \in Seq(Bytes) /\ Len(str) \in Nat \ {0} /\ str[Len(str)] = NUL
      /\ \A i \in 1 .. Len(str) - 1 : str[i] # NUL
  BY <1>1, ItoaBytes
<1>3. \A i \in 1 .. Len(str) : m[a + i - 1] = str[i]
  BY DEF Stands
<1> HIDE DEF str, a
<1>4. PICK e : EndsAt(m, a, e) /\ String(m, a) = [i \in 1 .. e - a |-> m[a + i - 1]]
  BY <1>1, StringEnds
<1>5. a \in Nat /\ e \in Nat /\ a <= e /\ m[e] = NUL /\ \A c \in a .. e - 1 : m[c] # NUL
  BY <1>4, Places DEF EndsAt
<1>6. e - a = Len(str) - 1
  <2>1. ~(e - a < Len(str) - 1)
    <3> SUFFICES ASSUME e - a < Len(str) - 1 PROVE FALSE
      OBVIOUS
    <3>1. /\ e - a + 1 \in 1 .. Len(str) - 1 /\ e - a + 1 \in 1 .. Len(str)
          /\ a + (e - a + 1) - 1 = e
      BY <1>2, <1>5
    <3> QED
      BY <1>2, <1>3, <1>5, <3>1
  <2>2. ~(Len(str) - 1 < e - a)
    <3> SUFFICES ASSUME Len(str) - 1 < e - a PROVE FALSE
      OBVIOUS
    <3>1. a + Len(str) - 1 \in a .. e - 1 /\ Len(str) \in 1 .. Len(str)
      BY <1>2, <1>5
    <3> QED
      BY <1>2, <1>3, <1>5, <3>1
  <2> QED
    BY <1>2, <1>5, <2>1, <2>2
<1>7. \A i \in 1 .. Len(str) - 1 : m[a + i - 1] = str[i]
  BY <1>2, <1>3
<1>8. SubSeq(str, 1, Len(str) - 1) = [i \in 1 .. Len(str) - 1 |-> str[i]]
  BY <1>2
<1>9. String(m, a) = [i \in 1 .. Len(str) - 1 |-> str[i]]
  BY <1>4, <1>6, <1>7
<1> QED
  BY <1>8, <1>9 DEF str, a

LEMMA InvStands == CallsInv => NumbersStand
<1> SUFFICES ASSUME CallsInv PROVE NumbersStand
  OBVIOUS
<1>1. memory \in Contents /\ notes \subseteq Note /\ \A note \in notes : Stands(memory, note)
  BY DEF CallsInv
<1>2. \A a, b \in Addresses :
        /\ strlen(memory, a) = Len(String(memory, a))
        /\ strcmp(memory, a, b) <=> String(memory, a) = String(memory, b)
  BY <1>1, StringsEqual
<1>3. ASSUME NEW note \in notes
      PROVE  /\ note.at \in Addresses
             /\ String(memory, note.at) = SubSeq(itoa(note.number, note.base), 1,
                                                 Len(itoa(note.number, note.base)) - 1)
             /\ Meaning(String(memory, note.at), note.base) = note.number
             /\ note.number > 0 => String(memory, note.at)[1] # Digit(0)
             /\ \A i \in DOMAIN String(memory, note.at) :
                  Meaning(<<String(memory, note.at)[i]>>, note.base) \in 0 .. note.base - 1
  <2>1. note \in Note /\ Stands(memory, note)
    BY <1>1
  <2>2. /\ note.at \in Addresses /\ note.number \in 0 .. WordSpan - 1
        /\ note.base \in 2 .. MaxBase
    BY <2>1 DEF Note
  <2>3. String(memory, note.at) = SubSeq(itoa(note.number, note.base), 1,
                                         Len(itoa(note.number, note.base)) - 1)
    BY <1>1, <2>1, StandsAsString
  <2>4. NumeralRight(note.number, note.base)
    BY <2>2, NumeralsHold
  <2> QED
    BY <2>2, <2>3, <2>4 DEF NumeralRight
<1>4. ASSUME NEW n \in notes, NEW o \in notes, n.base = o.base
      PROVE  strcmp(memory, n.at, o.at) <=> n.number = o.number
  <2>1. strcmp(memory, n.at, o.at) <=> String(memory, n.at) = String(memory, o.at)
    BY <1>2, <1>3
  <2>2. String(memory, n.at) = String(memory, o.at) => n.number = o.number
    BY <1>3, <1>4
  <2>3. n.number = o.number => String(memory, n.at) = String(memory, o.at)
    BY <1>3, <1>4
  <2> QED
    BY <2>1, <2>2, <2>3
<1> QED
  BY <1>1, <1>2, <1>3, <1>4 DEF NumbersStand

\* What itoa wrote keeps its meaning and strcmp compares numbers, for every word
\* size, memory, number and base, whatever order the routines are called in.
THEOREM NumbersStay == CallsSpec => []NumbersStand
<1>1. ASSUME CallsInv, CallsNext PROVE CallsInv'
  <2>1. ASSUME NEW a \in Addresses, NEW n \in 0 .. MemorySize, NEW val \in Fills, Fill(a, val, n)
        PROVE  CallsInv'
    BY <1>1, <2>1, FillKeeps
  <2>2. ASSUME NEW a \in Addresses, NEW number \in Numbers, NEW base \in Bases,
               WriteNumber(number, a, base)
        PROVE  CallsInv'
    BY <1>1, <2>2, WriteKeeps
  <2>3. ASSUME NEW a \in Addresses, NEW b \in Addresses, NEW n \in 0 .. MemorySize, Copy(a, b, n)
        PROVE  CallsInv'
    BY <1>1, <2>3, CopyKeeps
  <2>4. ASSUME NEW a \in Addresses, NEW b \in Addresses, CopyString(a, b) PROVE CallsInv'
    BY <1>1, <2>4, CopyStringKeeps
  <2> QED
    BY <1>1, <2>1, <2>2, <2>3, <2>4 DEF CallsNext
<1>2. CallsInv /\ UNCHANGED callsvars => CallsInv'
  BY DEF CallsInv, callsvars, Stands, Numeral
<1> QED
  BY <1>1, <1>2, CallsStart, InvStands, PTL DEF CallsSpec
=============================================================================
