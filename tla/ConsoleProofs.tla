--------------------------- MODULE ConsoleProofs ---------------------------
(***************************************************************************)
(* Proofs about Console, for every size of screen and buffer, every set of *)
(* keys and any number of presses.                                         *)
(***************************************************************************)
EXTENDS Console, FiniteSetTheorems, SequenceTheorems, WellFoundedInduction, TLAPS

\* The thread raises input only just before it spins, and only the handler
\* lowers it; past its first test the handler runs with input still raised.
InputProtects ==
  /\ input => pc = "spin"
  /\ handler \in {"read1", "read2", "hung"} => input

\* Until a byte arrives between the two reads, requests and bytes pair up.
BytesPairUp ==
  ~refilled =>
    /\ owed = IF full \/ handler = "read2" THEN 1 ELSE 0
    /\ irr => full
    /\ handler = "read1" => full
    /\ handler = "read2" => ~full
    /\ handler \in {"read1", "read2"} => ~irr

LEMMA InputInit == Init => InputProtects
BY DEF Init, InputProtects

LEMMA InputNext == InputProtects /\ [Next]_vars => InputProtects'
<1> SUFFICES ASSUME InputProtects, [Next]_vars PROVE InputProtects'
  OBVIOUS
<1> USE DEF InputProtects
<1>1. CASE KernelThread
  BY <1>1 DEF KernelThread, PrintPrompt, MarkStop, Arm, SpinEnds, CopyLine, Echo, Thread
<1>2. CASE Ignore
  BY <1>2 DEF Ignore, thread
<1>3. CASE Enter
  BY <1>3 DEF Enter, thread
<1>4. CASE ReadScanCode
  BY <1>4 DEF ReadScanCode, thread
<1>5. CASE Act
  <2>1. UNCHANGED pc /\ handler = "read2" /\ input /\ pc = "spin"
    BY <1>5 DEF Act, thread
  <2>2. handler' = "idle" \/ (handler' = "hung" /\ scan_code = "tab" /\ out.make)
    BY <1>5 DEF Act
  <2>3. CASE NoEffect /\ (~out.make \/ scan_code \in {"shift", "ignored", "tab"})
    <3>1. input' = input
      BY <1>5, <2>3 DEF Act, NoEffect
    <3> QED
      BY <2>1, <2>2, <3>1
  <2>4. CASE PressLetter \/ PressEnter \/ PressBackspace \/ PressCapsLock
    BY <2>1, <2>2, <2>4, KeysAssumption
    DEF PressLetter, PressEnter, PressBackspace, PressCapsLock
  <2> QED
    BY <1>5, <2>3, <2>4 DEF Act
<1>6. CASE Transfer
  BY <1>6 DEF Transfer, thread
<1>7. CASE Spurious
  BY <1>7 DEF Spurious, thread
<1>8. ASSUME NEW key \in Keys, Press(key) \/ Release(key) PROVE InputProtects'
  BY <1>8 DEF Press, Release, Send, thread
<1>9. CASE UNCHANGED vars
  BY <1>9 DEF vars, thread
<1> QED
  BY <1>1, <1>2, <1>3, <1>4, <1>5, <1>6, <1>7, <1>8, <1>9 DEF Next, Interrupt

\* The flag input is enough of a lock for line buffer and cursor.
THEOREM OneOwner == Spec => []ConsoleOwnedOnce
<1>1. InputProtects => ConsoleOwnedOnce
  BY DEF InputProtects, ConsoleOwnedOnce
<1> QED
  BY <1>1, InputInit, InputNext, PTL DEF Spec

----------------------------------------------------------------------------
LEMMA PairInit == Init => BytesPairUp
BY DEF Init, BytesPairUp

LEMMA PairNext == BytesPairUp /\ [Next]_vars => BytesPairUp'
<1> SUFFICES ASSUME BytesPairUp, [Next]_vars, ~refilled' PROVE BytesPairUp'
  BY DEF BytesPairUp
<1> USE DEF BytesPairUp
<1>1. CASE KernelThread
  BY <1>1 DEF KernelThread, PrintPrompt, MarkStop, Arm, SpinEnds, CopyLine, Echo,
     device
<1>2. CASE Ignore
  BY <1>2 DEF Ignore
<1>3. CASE Enter
  BY <1>3 DEF Enter
<1>4. CASE ReadScanCode
  BY <1>4 DEF ReadScanCode
<1>5. CASE Act
  BY <1>5 DEF Act
<1>6. CASE Transfer
  <2>1. ~refilled /\ handler # "read2"
    BY <1>6 DEF Transfer
  <2>2. ~full /\ full' /\ irr' /\ owed' = owed + 1 /\ UNCHANGED handler
    BY <1>6, <2>1 DEF Transfer
  <2>3. owed = 0 /\ handler # "read1"
    BY <2>1, <2>2
  <2> QED
    BY <2>1, <2>2, <2>3
<1>7. CASE Spurious
  BY <1>7 DEF Spurious
<1>8. ASSUME NEW key \in Keys, Press(key) \/ Release(key) PROVE BytesPairUp'
  BY <1>8 DEF Press, Release, Send
<1>9. CASE UNCHANGED vars
  BY <1>9 DEF vars, device
<1> QED
  BY <1>1, <1>2, <1>3, <1>4, <1>5, <1>6, <1>7, <1>8, <1>9 DEF Next, Interrupt

\* Each byte is acted upon once as long as none arrives between the two reads.
THEOREM BytesOnce == Spec => []OncePerByte
<1>1. BytesPairUp => OncePerByte
  BY DEF BytesPairUp, OncePerByte
<1> QED
  BY <1>1, PairInit, PairNext, PTL DEF Spec

----------------------------------------------------------------------------
\* Wedged' needs a full port without a request, and only the handler drops a
\* request while the port is full, when input is false.  A wedged keyboard stays
\* wedged: no step reads the port without a request, and no request comes while
\* the port is full.
THEOREM WedgeIsFinal == Spec => OnlyDeafnessWedges
<1> DEFINE Good == (~Wedged /\ Wedged' => ~input) /\ (Wedged => Wedged')
<1>1. ASSUME InputProtects, [Next]_vars PROVE Good
  <2> USE DEF Wedged
  <2>1. CASE KernelThread
    <3>1. UNCHANGED device /\ UNCHANGED handler
      BY <2>1 DEF KernelThread, PrintPrompt, MarkStop, Arm, SpinEnds, CopyLine, Echo
    <3>2. UNCHANGED full /\ UNCHANGED irr
      BY <3>1 DEF device
    <3> QED
      BY <3>1, <3>2
  <2>2. CASE Ignore
    BY <2>2 DEF Ignore
  <2>3. CASE Enter \/ ReadScanCode \/ Act
    BY <2>3 DEF Enter, ReadScanCode, Act
  <2>4. CASE Transfer
    BY <2>4 DEF Transfer
  <2>5. CASE Spurious
    BY <2>5 DEF Spurious
  <2>6. ASSUME NEW key \in Keys, Press(key) \/ Release(key) PROVE Good
    <3>1. UNCHANGED <<full, irr, handler>>
      BY <2>6 DEF Press, Release, Send
    <3> QED
      BY <3>1
  <2>7. CASE UNCHANGED vars
    BY <2>7 DEF vars, device
  <2> QED
    BY <1>1, <2>1, <2>2, <2>3, <2>4, <2>5, <2>6, <2>7 DEF Next, Interrupt
<1>2. InputProtects /\ [Next]_vars => [Good]_vars
  BY <1>1
<1> QED
  BY <1>2, InputInit, InputNext, PTL DEF Spec, OnlyDeafnessWedges

----------------------------------------------------------------------------
(***************************************************************************)
(* The line.  While nothing spoils it, the characters typed lie in the     *)
(* ring from head on, tail is behind the last one, and the cursor is as    *)
(* many places behind the mark, counted along the rows, so that backspace  *)
(* stops exactly when the line is empty.                                   *)
(***************************************************************************)
Slot(i) == (head + i) % BufferSize

Typing == pc = "arm" \/ (pc = "spin" /\ input)
Ended == (pc = "spin" /\ ~input) \/ pc = "copy"

StopRow == terminal_stop_delete[1]
StopColumn == terminal_stop_delete[2]

LineInRing ==
  /\ head >= 0 /\ tail >= 0
  /\ Len(line) <= BufferSize
  /\ \A i \in 0 .. Len(line) - 1 : buffer[Slot(i)] = line[i + 1]

CursorBehindLine ==
  /\ vga_row >= StopRow
  /\ vga_row * Width + vga_column = StopRow * Width + StopColumn + Len(line)

Enclosed ==
  /\ Len(line) + 1 < BufferSize
  /\ tail = Slot(Len(line) + 1)
  /\ buffer[Slot(Len(line))] = Nul

Copied ==
  /\ Len(line) < BufferSize
  /\ input_buffer[Len(line)] = Nul
  /\ \A i \in 0 .. Len(line) - 1 : input_buffer[i] = line[i + 1]

LineInv ==
  /\ tail < 0 => spoilt # {}
  /\ tail >= 1 - BufferSize
  /\ pc \in {"echo", "prompt", "mark"} => head = tail
  /\ pc = "mark" => vga_column < Width
  /\ Typing => StopColumn < Width
  /\ spoilt = {} =>
       /\ Typing \/ Ended => LineInRing
       /\ Typing => tail = Slot(Len(line)) /\ CursorBehindLine
       /\ Ended => Enclosed
       /\ pc = "echo" => Copied

OwesNothing == refilled => owed = 0

ConsoleInv == TypeOK /\ InputProtects /\ BytesPairUp /\ OwesNothing /\ LineInv

----------------------------------------------------------------------------
\* Arithmetic.
LEMMA DivDef ==
  ASSUME NEW x \in Nat, NEW m \in Nat \ {0}
  PROVE  /\ x = (x \div m) * m + (x % m)
         /\ x % m \in 0 .. m - 1
         /\ x \div m \in Nat
BY SMT

LEMMA Wrapped ==
  ASSUME NEW m \in Nat \ {0}, NEW x \in 0 .. 2 * m - 1
  PROVE  x % m = IF x < m THEN x ELSE x - m
BY SMT

LEMMA CModRange ==
  ASSUME NEW x \in Int
  PROVE  /\ CMod(x, BufferSize) \in Int
         /\ x >= 0 => CMod(x, BufferSize) \in 0 .. BufferSize - 1
         /\ x < 0 => CMod(x, BufferSize) \in 1 - BufferSize .. 0 /\ CMod(x, BufferSize) >= x
<1>1. BufferSize \in Nat \ {0}
  BY SizesAssumption
<1>2. CASE x >= 0
  BY <1>1, <1>2, DivDef DEF CMod
<1>3. CASE x < 0
  <2> DEFINE y == -x
  <2>1. y \in Nat
    BY <1>3
  <2> HIDE DEF y
  <2>2. y % BufferSize \in 0 .. BufferSize - 1 /\ y % BufferSize <= y
    <3>1. /\ y = (y \div BufferSize) * BufferSize + (y % BufferSize)
          /\ y % BufferSize \in 0 .. BufferSize - 1
          /\ y \div BufferSize \in Nat
      BY <1>1, <2>1, DivDef
    <3>2. (y \div BufferSize) * BufferSize >= 0
      BY <1>1, <3>1
    <3> QED
      BY <1>1, <2>1, <3>1, <3>2
  <2>3. CMod(x, BufferSize) = -(y % BufferSize)
    BY <1>3 DEF CMod, y
  <2>4. y = -x
    BY DEF y
  <2> QED
    BY <1>1, <1>3, <2>1, <2>2, <2>3, <2>4
<1> QED
  BY <1>2, <1>3

\* Where i places behind the head is, for at most one turn of the ring.
LEMMA SlotValue ==
  ASSUME head \in 0 .. BufferSize - 1, NEW i \in 0 .. BufferSize
  PROVE  Slot(i) = IF head + i < BufferSize THEN head + i ELSE head + i - BufferSize
<1> DEFINE x == head + i
<1>1. BufferSize \in Nat \ {0} /\ x \in 0 .. 2 * BufferSize - 1
  BY SizesAssumption
<1>2. Slot(i) = x % BufferSize
  BY DEF Slot
<1>3. x % BufferSize = IF x < BufferSize THEN x ELSE x - BufferSize
  <2> HIDE DEF x
  <2> QED
    BY <1>1, Wrapped
<1> HIDE DEF x
<1>4. x = head + i
  BY DEF x
<1> QED
  BY <1>1, <1>2, <1>3, <1>4

LEMMA LinesBrokenFacts ==
  ASSUME TypeOK, NEW n \in Nat
  PROVE  /\ LinesBroken(n) \in Nat
         /\ vga_column + n - LinesBroken(n) * Width \in 0 .. Width
<1>1. Width \in Nat \ {0} /\ vga_column \in 0 .. Width
  BY SizesAssumption DEF TypeOK
<1>2. CASE n = 0
  BY <1>1, <1>2 DEF LinesBroken
<1>3. CASE n # 0
  <2> DEFINE x == vga_column + n - 1
  <2>1. x \in Nat
    BY <1>1, <1>3
  <2> HIDE DEF x
  <2>2. x = (x \div Width) * Width + (x % Width) /\ x % Width \in 0 .. Width - 1
        /\ x \div Width \in Nat
    BY <1>1, <2>1, DivDef
  <2>3. LinesBroken(n) = x \div Width
    BY <1>3 DEF LinesBroken, x
  <2>4. vga_column + n = x + 1
    BY <1>1 DEF x
  <2> QED
    BY <1>1, <2>1, <2>2, <2>3, <2>4
<1> QED
  BY <1>2, <1>3

LEMMA OneChar ==
  ASSUME TypeOK
  PROVE  LinesBroken(1) = IF vga_column = Width THEN 1 ELSE 0
<1>1. Width \in Nat \ {0} /\ vga_column \in 0 .. Width
  BY SizesAssumption DEF TypeOK
<1>2. vga_column + 1 - 1 = vga_column
  BY <1>1
<1>3. LinesBroken(1) = vga_column \div Width
  BY <1>2 DEF LinesBroken
<1> QED
  BY <1>1, <1>3, SMT

LEMMA PutCharsType ==
  ASSUME TypeOK, NEW n \in Nat, PutChars(n)
  PROVE  vga_row' \in 0 .. Height - 1 /\ vga_column' \in 0 .. Width
<1>1. LinesBroken(n) \in Nat
  BY LinesBrokenFacts
<1>2. vga_column' \in 0 .. Width
  BY LinesBrokenFacts DEF PutChars
<1>3. vga_row \in 0 .. Height - 1 /\ Height \in Nat \ {0}
  BY SizesAssumption DEF TypeOK
<1> QED
  BY <1>1, <1>2, <1>3 DEF PutChars, Smaller

\* Numbers below a bound have a lowest: the intervals 0 .. i are finite, and
\* strict inclusion among them is well founded.
LEMMA LowestOf ==
  ASSUME NEW n \in Nat, NEW S \in SUBSET (0 .. n), S # {}
  PROVE  \E i \in S : \A j \in S : i <= j
<1> DEFINE U == 0 .. n
           T == {0 .. i : i \in S}
           R == StrictSubsetOrdering(U)
<1>1. IsFiniteSet(U)
  BY FS_Interval
<1>2. IsWellFoundedOn(R, SUBSET U)
  <2> HIDE DEF U
  <2> QED
    BY <1>1, FS_FiniteSubsetsOfFinite, FS_StrictSubsetOrderingWellFounded, Zenon
<1>3. T \subseteq SUBSET U /\ T # {}
  <2> SUFFICES ASSUME NEW i \in S PROVE 0 .. i \subseteq U
    OBVIOUS
  <2> QED
    OBVIOUS
<1>4. PICK t \in T : \A u \in T : <<u, t>> \notin R
  <2> HIDE DEF T, R, U
  <2> QED
    BY <1>2, <1>3, WFMin
<1>5. PICK i \in S : t = 0 .. i
  OBVIOUS
<1>6. ASSUME NEW j \in S, ~ (i <= j)
      PROVE  FALSE
  <2>1. j \in Nat /\ i \in Nat /\ j < i
    BY <1>6
  <2>2. 0 .. j \subseteq 0 .. i /\ i \in 0 .. i /\ i \notin 0 .. j
    BY <2>1
  <2>3. 0 .. j \in T /\ 0 .. j \in SUBSET U /\ 0 .. i \in SUBSET U
    <3>1. 0 .. j \in T /\ 0 .. i \in T
      OBVIOUS
    <3> HIDE DEF T
    <3> QED
      BY <1>3, <3>1
  <2>4. <<0 .. j, 0 .. i>> \in R
    BY <2>2, <2>3 DEF StrictSubsetOrdering
  <2> QED
    BY <1>4, <1>5, <2>3, <2>4
<1> QED
  BY <1>6

\* What strlen says of input_buffer.
LEMMA CommandLengthType == CommandLength \in 0 .. BufferSize
<1>1. BufferSize \in Nat \ {0}
  BY SizesAssumption
<1>2. CASE Terminated
  <2> DEFINE S == {i \in 0 .. BufferSize - 1 : input_buffer[i] = Nul}
  <2>1. S # {} /\ S \in SUBSET (0 .. BufferSize - 1) /\ BufferSize - 1 \in Nat
    BY <1>1, <1>2 DEF Terminated
  <2>2. PICK i \in S : \A j \in S : i <= j
    <3> HIDE DEF S
    <3> QED
      BY <2>1, LowestOf
  <2>3. \A j \in 0 .. i - 1 : input_buffer[j] # Nul
    BY <1>1, <2>2
  <2> QED
    BY <1>1, <1>2, <2>2, <2>3 DEF CommandLength
<1>3. CASE ~Terminated
  BY <1>1, <1>3 DEF CommandLength
<1> QED
  BY <1>2, <1>3

----------------------------------------------------------------------------
LEMMA TypeInit == Init => TypeOK
<1> SUFFICES ASSUME Init PROVE TypeOK
  OBVIOUS
<1>1. scan_code \in Keys
  BY KeysAssumption DEF Init
<1>2. out \in Byte
  <2>1. PICK k \in Keys : TRUE
    BY KeysAssumption
  <2>2. [key |-> k, make |-> TRUE] \in Byte
    BY DEF Byte
  <2> QED
    BY <2>2 DEF Init
<1>3. wire \in Seq(Byte) /\ line \in Seq(Char)
  BY DEF Init
<1>4. BufferSize \in Nat \ {0} /\ Height \in Nat \ {0} /\ Width \in Nat \ {0} /\ MaxPresses \in Nat
  BY SizesAssumption
<1> QED
  BY <1>1, <1>2, <1>3, <1>4 DEF Init, TypeOK, MaxUnderrun, Spoilers

LEMMA ThreadType ==
  ASSUME TypeOK, KernelThread
  PROVE  TypeOK'
<1>1. BufferSize \in Nat \ {0} /\ Height \in Nat \ {0} /\ Width \in Nat \ {0}
  BY SizesAssumption
<1>2. CASE PrintPrompt
  <2>1. vga_row' \in 0 .. Height - 1 /\ vga_column' \in 0 .. Width
    BY <1>1, <1>2, SizesAssumption DEF PrintPrompt, PrintOnNewLine, Smaller, TypeOK
  <2> QED
    BY <1>2, <2>1 DEF PrintPrompt, Thread, TypeOK, ring, shift, device
<1>3. CASE MarkStop
  <2>1. line' \in Seq(Char) /\ spoilt' \subseteq Spoilers
    BY <1>3 DEF MarkStop, TypeOK
  <2> QED
    BY <1>3, <2>1 DEF MarkStop, Thread, TypeOK, ring, shift, cursor, device
<1>4. CASE Arm
  BY <1>4 DEF Arm, Thread, TypeOK, ring, shift, cursor, device
<1>5. CASE SpinEnds
  BY <1>5 DEF SpinEnds, Thread, TypeOK, ring, shift, cursor, device
<1>6. CASE CopyLine
  <2> DEFINE size == CMod(tail + BufferSize - head, BufferSize)
             from(i) == CMod(head + i, BufferSize)
  <2>1. input_buffer' = [i \in 0 .. BufferSize - 1 |->
                           IF i >= size THEN input_buffer[i]
                           ELSE IF from(i) >= 0 THEN buffer[from(i)] ELSE Junk]
    BY <1>6 DEF CopyLine
  <2>2. \A i \in 0 .. BufferSize - 1 :
          from(i) >= 0 => from(i) \in 0 .. BufferSize - 1
    <3> TAKE i \in 0 .. BufferSize - 1
    <3>1. head + i \in Int
      BY <1>1 DEF TypeOK, MaxUnderrun
    <3>2. from(i) \in Int /\ from(i) <= BufferSize - 1
      BY <1>1, <3>1, CModRange
    <3> QED
      BY <1>1, <3>2
  <2>3. input_buffer' \in [0 .. BufferSize - 1 -> Char \cup {Nul, Junk}]
    <3> HIDE DEF size, from
    <3> QED
      BY <2>1, <2>2 DEF TypeOK
  <2>4. head' \in -MaxUnderrun .. BufferSize - 1
    <3>1. tail \in Int /\ tail >= -MaxUnderrun
      BY <1>1 DEF TypeOK, MaxUnderrun
    <3>2. head' = CMod(tail, BufferSize)
      BY <1>6 DEF CopyLine
    <3> QED
      BY <1>1, <3>1, <3>2, CModRange DEF MaxUnderrun
  <2>5. UNCHANGED <<terminal_stop_delete, input, tail, buffer, shift, cursor, handler,
                    scan_code, device, line, spoilt, owed, refilled, presses>>
        /\ pc' = "echo"
    BY <1>6 DEF CopyLine, Thread
  <2> QED
    BY <2>3, <2>4, <2>5 DEF TypeOK, shift, cursor, device
<1>7. CASE Echo
  <2>1. vga_row' \in 0 .. Height - 1 /\ vga_column' \in 0 .. Width
    <3>1. CommandLength \in Nat /\ PutChars(CommandLength)
      BY <1>1, <1>7, CommandLengthType DEF Echo
    <3> QED
      BY <3>1, PutCharsType
  <2> QED
    BY <1>7, <2>1 DEF Echo, Thread, TypeOK, ring, shift, device
<1> QED
  BY <1>2, <1>3, <1>4, <1>5, <1>6, <1>7 DEF KernelThread

\* What the switch of the handler may change keeps its type.
SwitchType ==
  /\ buffer \in [0 .. BufferSize - 1 -> Char \cup {Nul}]
  /\ tail \in -MaxUnderrun .. BufferSize - 1
  /\ input \in BOOLEAN /\ caps_on \in BOOLEAN /\ caps_lock \in BOOLEAN
  /\ vga_row \in 0 .. Height - 1 /\ vga_column \in 0 .. Width
  /\ line \in Seq(Char) /\ spoilt \subseteq Spoilers

LEMMA PushType ==
  ASSUME TypeOK, NEW c \in Char \cup {Nul}, buffer_push(c), tail' >= -MaxUnderrun
  PROVE  /\ buffer' \in [0 .. BufferSize - 1 -> Char \cup {Nul}]
         /\ tail' \in -MaxUnderrun .. BufferSize - 1
<1>1. BufferSize \in Nat \ {0} /\ tail + 1 \in Int
  BY SizesAssumption DEF TypeOK, MaxUnderrun
<1>2. tail' \in Int /\ tail' <= BufferSize - 1
  BY <1>1, CModRange DEF buffer_push
<1>3. buffer' \in [0 .. BufferSize - 1 -> Char \cup {Nul}]
  BY DEF buffer_push, TypeOK
<1> QED
  BY <1>1, <1>2, <1>3 DEF MaxUnderrun

LEMMA SwitchKeepsType ==
  ASSUME TypeOK, tail' >= -MaxUnderrun, vga_row' >= 0,
         PressLetter \/ PressEnter \/ PressBackspace \/ PressCapsLock \/ NoEffect
  PROVE  SwitchType'
<1>1. BufferSize \in Nat \ {0} /\ Height \in Nat \ {0} /\ Width \in Nat \ {0}
  BY SizesAssumption
<1>2. CASE PressLetter
  <2> DEFINE char == <<scan_code, caps_on \/ caps_lock>>
  <2>1. char \in Char
    BY <1>2 DEF PressLetter, Char
  <2>2. buffer_push(char) /\ PutChars(1) /\ line' = Append(line, char)
        /\ UNCHANGED <<input, shift>>
    BY <1>2 DEF PressLetter
  <2>3. line' \in Seq(Char)
    <3> HIDE DEF char
    <3> QED
      BY <2>1, <2>2 DEF TypeOK
  <2>4. spoilt' \subseteq Spoilers
    BY <1>2 DEF PressLetter, Spoil, Spoilers, TypeOK
  <2>5. vga_row' \in 0 .. Height - 1 /\ vga_column' \in 0 .. Width
    BY <2>2, PutCharsType
  <2>6. /\ buffer' \in [0 .. BufferSize - 1 -> Char \cup {Nul}]
        /\ tail' \in -MaxUnderrun .. BufferSize - 1
    <3> HIDE DEF char
    <3> QED
      BY <2>1, <2>2, PushType
  <2> QED
    BY <2>2, <2>3, <2>4, <2>5, <2>6 DEF SwitchType, TypeOK, shift
<1>3. CASE PressEnter
  <2>1. buffer_push(Nul) /\ PrintOnNewLine(0) /\ input' = FALSE /\ UNCHANGED <<shift, line>>
    BY <1>3 DEF PressEnter
  <2>2. spoilt' \subseteq Spoilers
    BY <1>3 DEF PressEnter, Spoil, Spoilers, TypeOK
  <2>3. /\ buffer' \in [0 .. BufferSize - 1 -> Char \cup {Nul}]
        /\ tail' \in -MaxUnderrun .. BufferSize - 1
    BY <2>1, PushType
  <2>4. vga_row' \in 0 .. Height - 1 /\ vga_column' \in 0 .. Width
    BY <1>1, <2>1 DEF PrintOnNewLine, Smaller, TypeOK
  <2> QED
    BY <2>1, <2>2, <2>3, <2>4 DEF SwitchType, TypeOK, shift
<1>4. CASE PressBackspace
  <2>1. line' \in Seq(Char)
    <3>1. line \in Seq(Char)
      BY DEF TypeOK
    <3>2. CASE line = <<>>
      BY <1>4, <3>1, <3>2 DEF PressBackspace
    <3>3. CASE line # <<>>
      <4>1. line' = SubSeq(line, 1, Len(line) - 1)
        BY <1>4, <3>3 DEF PressBackspace
      <4> QED
        BY <3>1, <3>3, <4>1
    <3> QED
      BY <3>2, <3>3
  <2>2. spoilt' \subseteq Spoilers
    BY <1>4 DEF PressBackspace, Spoil, Spoilers, TypeOK
  <2>3. UNCHANGED <<buffer, input, shift>>
    BY <1>4 DEF PressBackspace, buffer_pop
  <2>4. tail' \in -MaxUnderrun .. BufferSize - 1
    <3>1. CASE tail' = CMod(tail - 1, BufferSize)
      <4>1. tail - 1 \in Int
        BY <1>1 DEF TypeOK, MaxUnderrun
      <4> QED
        BY <1>1, <3>1, <4>1, CModRange DEF MaxUnderrun
    <3> QED
      BY <1>4, <3>1 DEF PressBackspace, buffer_pop, TypeOK
  <2>5. vga_row' \in 0 .. Height - 1 /\ vga_column' \in 0 .. Width
    <3>1. CASE BackspaceCursor
      BY <1>1, <3>1 DEF BackspaceCursor, TypeOK
    <3>2. CASE UNCHANGED cursor
      BY <3>2 DEF TypeOK, cursor
    <3> QED
      BY <1>4, <3>1, <3>2 DEF PressBackspace
  <2> QED
    BY <2>1, <2>2, <2>3, <2>4, <2>5 DEF SwitchType, TypeOK, shift
<1>5. CASE PressCapsLock
  BY <1>5 DEF PressCapsLock, SwitchType, TypeOK, cursor
<1>6. CASE NoEffect
  BY <1>6 DEF NoEffect, SwitchType, TypeOK, shift, cursor
<1> QED
  BY <1>2, <1>3, <1>4, <1>5, <1>6

LEMMA ActType ==
  ASSUME TypeOK, BytesPairUp, OwesNothing, Act
  PROVE  TypeOK'
<1>1. SwitchType'
  <2>1. PressLetter \/ PressEnter \/ PressBackspace \/ PressCapsLock \/ NoEffect
    BY DEF Act
  <2>2. tail' >= -MaxUnderrun /\ vga_row' >= 0
    BY DEF Act
  <2> QED
    BY <2>1, <2>2, SwitchKeepsType
<1>2. owed' \in 0 .. 1
  BY DEF Act, BytesPairUp
<1>3. handler' \in {"idle", "hung"} /\ full' = FALSE
  BY DEF Act
<1>4. UNCHANGED <<pc, terminal_stop_delete, input_buffer, head, scan_code, down, wire, out,
                  irr, refilled, presses>>
  BY DEF Act, thread
<1> QED
  BY <1>1, <1>2, <1>3, <1>4 DEF TypeOK, SwitchType

LEMMA TypeNext ==
  ASSUME TypeOK, BytesPairUp, OwesNothing, [Next]_vars
  PROVE  TypeOK'
<1>1. CASE KernelThread
  BY <1>1, ThreadType
<1>2. CASE Ignore
  BY <1>2 DEF Ignore, TypeOK, thread, ring, shift, cursor
<1>3. CASE Enter
  BY <1>3 DEF Enter, TypeOK, thread, ring, shift, cursor
<1>4. CASE ReadScanCode
  BY <1>4 DEF ReadScanCode, TypeOK, thread, ring, shift, cursor, Byte
<1>5. CASE Act
  BY <1>5, ActType
<1>6. CASE Transfer
  <2>1. out' \in Byte /\ wire' \in Seq(Byte)
    <3>1. wire \in Seq(Byte) /\ wire # <<>>
      BY <1>6 DEF Transfer, TypeOK
    <3> QED
      BY <1>6, <3>1 DEF Transfer
  <2>2. owed' \in 0 .. 1
    BY <1>6 DEF Transfer, BytesPairUp
  <2> QED
    BY <1>6, <2>1, <2>2 DEF Transfer, TypeOK, thread, ring, shift, cursor
<1>7. CASE Spurious
  BY <1>7 DEF Spurious, TypeOK, thread, ring, shift, cursor
<1>8. ASSUME NEW key \in Keys, Press(key) \/ Release(key) PROVE TypeOK'
  <2>1. wire' \in Seq(Byte)
    <3>1. PICK make \in BOOLEAN : Send(key, make)
      BY <1>8 DEF Press, Release
    <3>2. [key |-> key, make |-> make] \in Byte
      BY DEF Byte
    <3> QED
      BY <3>1, <3>2 DEF Send, TypeOK
  <2>2. down' \in Keys \cup {"none"} /\ presses' \in 0 .. MaxPresses
    <3>1. CASE Press(key)
      BY <3>1, SizesAssumption DEF Press, TypeOK
    <3>2. CASE Release(key)
      BY <3>2 DEF Release, TypeOK
    <3> QED
      BY <1>8, <3>1, <3>2
  <2>3. UNCHANGED <<thread, input, ring, shift, cursor, handler, scan_code, out, full,
                    irr, line, spoilt, owed, refilled>>
    BY <1>8 DEF Press, Release, Send
  <2> QED
    BY <2>1, <2>2, <2>3 DEF TypeOK, thread, ring, shift, cursor
<1>9. CASE UNCHANGED vars
  BY <1>9 DEF TypeOK, vars, thread, ring, shift, cursor, device
<1> QED
  BY <1>1, <1>2, <1>3, <1>4, <1>5, <1>6, <1>7, <1>8, <1>9 DEF Next, Interrupt

LEMMA OwesInit == Init => OwesNothing
BY DEF Init, OwesNothing

LEMMA OwesNext ==
  ASSUME OwesNothing, [Next]_vars
  PROVE  OwesNothing'
<1>1. CASE KernelThread
  BY <1>1 DEF KernelThread, PrintPrompt, MarkStop, Arm, SpinEnds, CopyLine, Echo, OwesNothing
<1>2. CASE Interrupt
  BY <1>2 DEF Interrupt, Ignore, Enter, ReadScanCode, Act, OwesNothing
<1>3. CASE Transfer \/ Spurious
  BY <1>3 DEF Transfer, Spurious, OwesNothing
<1>4. ASSUME NEW key \in Keys, Press(key) \/ Release(key) PROVE OwesNothing'
  BY <1>4 DEF Press, Release, Send, OwesNothing
<1>5. CASE UNCHANGED vars
  BY <1>5 DEF vars, OwesNothing
<1> QED
  BY <1>1, <1>2, <1>3, <1>4, <1>5 DEF Next

----------------------------------------------------------------------------
\* The line: first what leaves it alone.
LEMMA LineInit == Init => LineInv
BY SizesAssumption
DEF Init, LineInv, Typing, Ended

lineState == <<pc, terminal_stop_delete, input_buffer, input, head, tail, buffer,
               vga_row, vga_column, line, spoilt>>

LEMMA LineAlone ==
  ASSUME LineInv, UNCHANGED lineState
  PROVE  LineInv'
BY DEF LineInv, lineState, Typing, Ended, StopColumn, StopRow, LineInRing, CursorBehindLine,
   Enclosed, Copied, Slot

\* The kernel thread's steps.
LEMMA MarkLine ==
  ASSUME TypeOK, LineInv, MarkStop
  PROVE  LineInv'
<1>1. BufferSize \in Nat \ {0} /\ Width \in Nat \ {0}
  BY SizesAssumption
<1>2. /\ pc' = "arm" /\ pc = "mark" /\ line' = <<>>
      /\ terminal_stop_delete' = <<vga_row, vga_column>>
      /\ spoilt' = (IF tail < 0 THEN spoilt ELSE {})
      /\ UNCHANGED <<input, head, tail, buffer, vga_row, vga_column>>
  BY DEF MarkStop, Thread, ring, cursor
<1>3. head = tail /\ vga_column < Width /\ (tail < 0 => spoilt # {}) /\ tail >= 1 - BufferSize
  BY <1>2 DEF LineInv
<1>4. tail < 0 => spoilt' # {}
  BY <1>2, <1>3
<1>5. ASSUME spoilt' = {}
      PROVE  LineInRing' /\ (tail = Slot(Len(line)))' /\ CursorBehindLine'
  <2>1. tail \in 0 .. BufferSize - 1 /\ head = tail
    BY <1>1, <1>3, <1>4, <1>5 DEF TypeOK, MaxUnderrun
  <2>2. Len(line') = 0
    BY <1>2
  <2>3. (head' + 0) % BufferSize = tail'
    BY <1>1, <1>2, <2>1, Wrapped
  <2>4. LineInRing'
    BY <1>1, <1>2, <2>1, <2>2 DEF LineInRing
  <2>5. CursorBehindLine'
    BY <1>1, <1>2, <2>2 DEF CursorBehindLine, StopRow, StopColumn, TypeOK
  <2> QED
    BY <2>2, <2>3, <2>4, <2>5 DEF Slot
<1> QED
  BY <1>2, <1>3, <1>4, <1>5 DEF LineInv, Typing, Ended, StopColumn

LEMMA CopiedLine ==
  ASSUME TypeOK, LineInv, CopyLine
  PROVE  LineInv'
<1>1. BufferSize \in Nat \ {0}
  BY SizesAssumption
<1> DEFINE size == CMod(tail + BufferSize - head, BufferSize)
           from(i) == CMod(head + i, BufferSize)
<1>2. /\ pc = "copy" /\ pc' = "echo" /\ head' = CMod(tail, BufferSize)
      /\ input_buffer' = [i \in 0 .. BufferSize - 1 |->
                           IF i >= size THEN input_buffer[i]
                           ELSE IF from(i) >= 0 THEN buffer[from(i)] ELSE Junk]
      /\ UNCHANGED <<tail, line, spoilt>>
  BY DEF CopyLine, Thread
<1>3. (tail < 0 => spoilt # {}) /\ tail >= 1 - BufferSize /\ (spoilt = {} => LineInRing /\ Enclosed)
  BY <1>2 DEF LineInv, Ended
<1>4. head' = tail
  <2>1. tail \in Int /\ tail < BufferSize
    BY <1>1 DEF TypeOK, MaxUnderrun
  <2>2. CASE tail >= 0
    <3>1. tail \in 0 .. 2 * BufferSize - 1
      BY <1>1, <2>1, <2>2
    <3>2. tail % BufferSize = tail
      BY <1>1, <2>1, <3>1, Wrapped
    <3> QED
      BY <1>2, <2>2, <3>2 DEF CMod
  <2>3. CASE tail < 0
    <3> DEFINE y == -tail
    <3>2. y \in 0 .. 2 * BufferSize - 1 /\ y < BufferSize
      BY <1>1, <1>3, <2>1, <2>3
    <3>3. head' = -(y % BufferSize)
      BY <1>2, <2>1, <2>3 DEF CMod
    <3>4. tail = -y
      BY <2>1
    <3> HIDE DEF y
    <3>5. y % BufferSize = y
      BY <1>1, <3>2, Wrapped
    <3> QED
      BY <3>3, <3>4, <3>5
  <2> QED
    BY <2>1, <2>2, <2>3
<1>5. ASSUME spoilt = {}
      PROVE  Copied'
  <2> DEFINE n == Len(line)
  <2>1. n \in Nat /\ n + 1 < BufferSize
    BY <1>3, <1>5 DEF Enclosed, TypeOK
  <2>2. head \in 0 .. BufferSize - 1 /\ tail \in 0 .. BufferSize - 1
    BY <1>1, <1>3, <1>5 DEF LineInRing, TypeOK, MaxUnderrun
  <2> HIDE DEF n
  <2>3. size = n + 1
    <3>1. tail = IF head + (n + 1) < BufferSize THEN head + (n + 1)
                 ELSE head + (n + 1) - BufferSize
      <4>1. tail = Slot(n + 1)
        BY <1>3, <1>5 DEF Enclosed, n
      <4>2. n + 1 \in 0 .. BufferSize
        BY <1>1, <2>1
      <4> QED
        BY <2>2, <4>1, <4>2, SlotValue
    <3> DEFINE x == tail + BufferSize - head
    <3>2. x = n + 1 \/ x = n + 1 + BufferSize
      BY <1>1, <2>1, <2>2, <3>1
    <3>3. x \in 0 .. 2 * BufferSize - 1 /\ x >= 0
      BY <1>1, <2>1, <3>2
    <3>4. size = x % BufferSize
      BY <3>3 DEF CMod
    <3> HIDE DEF x, size
    <3>5. x % BufferSize = IF x < BufferSize THEN x ELSE x - BufferSize
      BY <1>1, <3>3, Wrapped
    <3> QED
      BY <1>1, <2>1, <3>2, <3>4, <3>5
  <2>4. \A i \in 0 .. n : from(i) = Slot(i) /\ from(i) >= 0
    <3> TAKE i \in 0 .. n
    <3>1. head + i >= 0 /\ i \in 0 .. BufferSize
      BY <1>1, <2>1, <2>2
    <3>2. from(i) = Slot(i)
      BY <3>1 DEF CMod, Slot
    <3>3. Slot(i) >= 0
      BY <1>1, <2>1, <2>2, <3>1, SlotValue
    <3> QED
      BY <3>2, <3>3
  <2>5. \A i \in 0 .. n : input_buffer'[i] = buffer[Slot(i)]
    <3> HIDE DEF size, from
    <3> QED
      BY <1>1, <1>2, <2>1, <2>3, <2>4
  <2>6. buffer[Slot(n)] = Nul /\ \A i \in 0 .. n - 1 : buffer[Slot(i)] = line[i + 1]
    BY <1>3, <1>5 DEF Enclosed, LineInRing, n
  <2>7. n' = n
    BY <1>2 DEF n
  <2> HIDE DEF size, from
  <2>8. /\ n < BufferSize
        /\ input_buffer'[n] = Nul
        /\ \A i \in 0 .. n - 1 : input_buffer'[i] = line[i + 1]
    BY <1>1, <2>1, <2>5, <2>6
  <2> QED
    BY <1>2, <2>7, <2>8 DEF Copied, n
<1> HIDE DEF size, from
<1> QED
  BY <1>2, <1>3, <1>4, <1>5 DEF LineInv, Typing, Ended

LEMMA ThreadLine ==
  ASSUME TypeOK, InputProtects, LineInv, KernelThread
  PROVE  LineInv'
<1>1. CASE PrintPrompt
  BY <1>1, SizesAssumption
  DEF PrintPrompt, PrintOnNewLine, Thread, ring, LineInv, Typing, Ended
<1>2. CASE Arm
  <2>1. /\ Typing /\ Typing' /\ ~Ended' /\ pc' = "spin"
        /\ UNCHANGED <<terminal_stop_delete, head, tail, buffer, vga_row, vga_column, line, spoilt>>
    BY <1>2 DEF Arm, Thread, ring, cursor, Typing, Ended
  <2> QED
    BY <2>1 DEF LineInv, StopColumn, StopRow, LineInRing, CursorBehindLine, Slot
<1>3. CASE SpinEnds
  <2>1. /\ Ended /\ Ended' /\ ~Typing' /\ pc' = "copy"
        /\ UNCHANGED <<terminal_stop_delete, head, tail, buffer, vga_row, vga_column, line, spoilt>>
    BY <1>3 DEF SpinEnds, Thread, ring, cursor, Typing, Ended
  <2> QED
    BY <2>1 DEF LineInv, LineInRing, Enclosed, Slot
<1>4. CASE Echo
  BY <1>4 DEF Echo, Thread, ring, LineInv, Typing, Ended
<1> QED
  BY <1>1, <1>2, <1>3, <1>4, MarkLine, CopiedLine DEF KernelThread

----------------------------------------------------------------------------
\* The handler's.  A push never takes tail below 0, and where it was below it
\* brings it closer.
LEMMA PushAboveBelow ==
  ASSUME TypeOK, tail < 0 => spoilt # {}, tail >= 1 - BufferSize,
         NEW c, buffer_push(c), spoilt \subseteq spoilt'
  PROVE  (tail' < 0 => spoilt' # {}) /\ tail' >= 1 - BufferSize
<1>1. BufferSize \in Nat \ {0} /\ tail \in Int /\ tail + 1 \in Int
  BY SizesAssumption DEF TypeOK, MaxUnderrun
<1>2. tail' = CMod(tail + 1, BufferSize)
  BY DEF buffer_push
<1>3. CASE tail + 1 >= 0
  <2>1. tail' \in 0 .. BufferSize - 1
    BY <1>1, <1>2, <1>3, CModRange
  <2> QED
    BY <1>1, <2>1
<1>4. CASE tail + 1 < 0
  <2>1. tail' \in Int /\ tail' >= tail + 1
    BY <1>1, <1>2, <1>4, CModRange
  <2>2. spoilt' # {}
    BY <1>1, <1>4
  <2> QED
    BY <1>1, <2>1, <2>2
<1> QED
  BY <1>1, <1>3, <1>4

\* A push onto a line that has room puts its byte right behind
\* the line and leaves the line where it is.
LEMMA PushBehindLine ==
  ASSUME TypeOK, LineInRing, tail = Slot(Len(line)), Len(line) < BufferSize,
         NEW c, buffer_push(c), UNCHANGED head
  PROVE  /\ tail' = Slot(Len(line) + 1) /\ tail' \in 0 .. BufferSize - 1
         /\ buffer'[Slot(Len(line))] = c
         /\ \A i \in 0 .. Len(line) - 1 : buffer'[Slot(i)] = line[i + 1]
<1> DEFINE n == Len(line)
<1>1. BufferSize \in Nat \ {0} /\ n \in 0 .. BufferSize - 1
  BY SizesAssumption DEF TypeOK
<1>2. head \in 0 .. BufferSize - 1 /\ tail \in 0 .. BufferSize - 1
  BY <1>1 DEF LineInRing, TypeOK, MaxUnderrun
<1> HIDE DEF n
<1>3. \A i \in 0 .. BufferSize :
        Slot(i) = IF head + i < BufferSize THEN head + i ELSE head + i - BufferSize
  BY <1>2, SlotValue
<1>4. tail = Slot(n)
  BY DEF n
<1>5. tail' = Slot(n + 1) /\ tail' \in 0 .. BufferSize - 1
  <2> DEFINE x == tail + 1
  <2>1. x \in 0 .. 2 * BufferSize - 1 /\ x >= 0
    BY <1>1, <1>2
  <2>2. tail' = x % BufferSize
    BY <2>1 DEF buffer_push, CMod
  <2>3. x = tail + 1
    OBVIOUS
  <2> HIDE DEF x
  <2>4. x % BufferSize = IF x < BufferSize THEN x ELSE x - BufferSize
    BY <1>1, <2>1, Wrapped
  <2>5. n + 1 \in 0 .. BufferSize /\ n \in 0 .. BufferSize
    BY <1>1
  <2>6. /\ tail = IF head + n < BufferSize THEN head + n ELSE head + n - BufferSize
        /\ Slot(n + 1) = IF head + (n + 1) < BufferSize THEN head + (n + 1)
                         ELSE head + (n + 1) - BufferSize
    BY <1>3, <1>4, <2>5
  <2>7. tail' = IF tail + 1 < BufferSize THEN tail + 1 ELSE tail + 1 - BufferSize
    BY <1>1, <1>2, <2>2, <2>3, <2>4
  <2> QED
    BY <1>1, <1>2, <2>6, <2>7
<1>6. buffer' = [buffer EXCEPT ![tail] = c]
  BY <1>2 DEF buffer_push
<1>7. \A i \in 0 .. n - 1 : Slot(i) # tail /\ Slot(i) \in 0 .. BufferSize - 1
  BY <1>1, <1>2, <1>3, <1>4
<1>8. \A i \in 0 .. n - 1 : buffer[Slot(i)] = line[i + 1]
  BY DEF LineInRing, n
<1>9. buffer'[tail] = c /\ \A i \in 0 .. n - 1 : buffer'[Slot(i)] = line[i + 1]
  BY <1>2, <1>6, <1>7, <1>8 DEF TypeOK
<1> QED
  BY <1>4, <1>5, <1>9 DEF n

LEMMA LetterLine ==
  ASSUME TypeOK, LineInv, pc = "spin", input = TRUE, PressLetter,
         UNCHANGED <<pc, terminal_stop_delete, head>>
  PROVE  LineInv'
<1> DEFINE char == <<scan_code, caps_on \/ caps_lock>>
<1>1. BufferSize \in Nat \ {0} /\ Width \in Nat \ {0}
  BY SizesAssumption
<1>2. /\ PutChars(1) /\ buffer_push(char) /\ line' = Append(line, char) /\ UNCHANGED input
      /\ spoilt' = spoilt \cup Spoil(Len(line) >= BufferSize, "overrun")
                          \cup Spoil(Scrolls(1), "scrolled")
  BY DEF PressLetter
<1> HIDE DEF char
<1>3. tail \in Int /\ tail < BufferSize /\ line \in Seq(Char) /\ Len(line) \in Nat
  BY <1>1 DEF TypeOK, MaxUnderrun
<1>5. (tail' < 0 => spoilt' # {}) /\ tail' >= 1 - BufferSize
  BY <1>2, PushAboveBelow DEF LineInv
<1>6. ASSUME spoilt' = {}
      PROVE  LineInRing' /\ (tail = Slot(Len(line)))' /\ CursorBehindLine'
  <2>1. spoilt = {} /\ Len(line) < BufferSize /\ ~Scrolls(1)
    <3>1. /\ spoilt = {} /\ Spoil(Len(line) >= BufferSize, "overrun") = {}
          /\ Spoil(Scrolls(1), "scrolled") = {}
      BY <1>2, <1>6
    <3>2. ~(Len(line) >= BufferSize) /\ ~Scrolls(1)
      BY <3>1 DEF Spoil
    <3> QED
      BY <1>1, <1>3, <3>1, <3>2
  <2>2. LineInRing /\ tail = Slot(Len(line)) /\ CursorBehindLine
    BY <2>1 DEF LineInv, Typing
  <2>3. /\ tail' = Slot(Len(line) + 1) /\ tail' \in 0 .. BufferSize - 1
        /\ buffer'[Slot(Len(line))] = char
        /\ \A i \in 0 .. Len(line) - 1 : buffer'[Slot(i)] = line[i + 1]
    BY <1>2, <2>1, <2>2, PushBehindLine
  <2>4. /\ Len(line') = Len(line) + 1 /\ line'[Len(line) + 1] = char
        /\ \A i \in 0 .. Len(line) - 1 : line'[i + 1] = line[i + 1]
    BY <1>2, <1>3
  <2>5. \A i : Slot(i)' = Slot(i)
    BY DEF Slot
  <2>6. LineInRing'
    <3>1. head' >= 0 /\ tail' >= 0 /\ Len(line') <= BufferSize
      BY <1>1, <1>3, <2>1, <2>2, <2>3, <2>4 DEF LineInRing
    <3>2. ASSUME NEW i \in 0 .. Len(line') - 1
          PROVE  buffer'[Slot(i)'] = line'[i + 1]
      <4>1. i \in 0 .. Len(line) - 1 \/ i = Len(line)
        BY <1>3, <2>4
      <4> QED
        BY <2>3, <2>4, <2>5, <4>1
    <3> QED
      BY <3>1, <3>2 DEF LineInRing
  <2>7. CursorBehindLine'
    <3>1. vga_row \in Nat /\ vga_column \in 0 .. Width /\ Height \in Nat
          /\ StopRow \in Nat /\ StopColumn \in Nat
      BY <1>1, SizesAssumption DEF TypeOK, StopRow, StopColumn
    <3>2. /\ vga_row' = vga_row + LinesBroken(1)
          /\ vga_column' = vga_column + 1 - LinesBroken(1) * Width
      <4>1. LinesBroken(1) \in Nat
        BY LinesBrokenFacts
      <4> QED
        BY <1>2, <2>1, <3>1, <4>1 DEF PutChars, Scrolls, Smaller
    <3>3. StopRow' = StopRow /\ StopColumn' = StopColumn
      BY DEF StopRow, StopColumn
    <3>6. ASSUME vga_row' >= vga_row,
                 vga_row' * Width + vga_column' = vga_row * Width + vga_column + 1
          PROVE  CursorBehindLine'
      <4>1. vga_row' \in Int
        BY <3>2, <3>1, LinesBrokenFacts
      <4>2. /\ vga_row >= StopRow
            /\ vga_row * Width + vga_column = StopRow * Width + StopColumn + Len(line)
        BY <2>2 DEF CursorBehindLine
      <4>3. vga_row' >= StopRow
        BY <3>1, <3>6, <4>1, <4>2
      <4>4. StopRow * Width \in Int
        BY <1>1, <3>1
      <4>5. vga_row' * Width + vga_column' = StopRow * Width + StopColumn + (Len(line) + 1)
        BY <1>1, <1>3, <3>1, <3>6, <4>2, <4>4
      <4> QED
        BY <2>4, <3>3, <4>3, <4>5 DEF CursorBehindLine
    <3>4. CASE vga_column = Width
      <4>1. vga_row' = vga_row + 1 /\ vga_column' = 1
        BY <1>1, <3>1, <3>2, <3>4, OneChar
      <4>2. vga_row' * Width = vga_row * Width + Width
        BY <1>1, <3>1, <4>1
      <4>3. vga_row' * Width + vga_column' = vga_row * Width + vga_column + 1
        BY <1>1, <3>1, <3>4, <4>1, <4>2
      <4> QED
        BY <3>1, <3>6, <4>1, <4>3
    <3>5. CASE vga_column # Width
      <4>1. vga_row' = vga_row /\ vga_column' = vga_column + 1
        BY <1>1, <3>1, <3>2, <3>5, OneChar
      <4>2. vga_row' * Width + vga_column' = vga_row * Width + vga_column + 1
        BY <1>1, <3>1, <4>1
      <4> QED
        BY <3>1, <3>6, <4>1, <4>2
    <3> QED
      BY <3>4, <3>5
  <2> QED
    BY <2>3, <2>4, <2>5, <2>6, <2>7
<1>7. Typing /\ Typing' /\ ~Ended' /\ StopColumn' = StopColumn /\ pc' = "spin"
  BY <1>2 DEF Typing, Ended, StopColumn
<1> QED
  BY <1>5, <1>6, <1>7 DEF LineInv

LEMMA EnterLine ==
  ASSUME TypeOK, LineInv, pc = "spin", input = TRUE, PressEnter,
         UNCHANGED <<pc, terminal_stop_delete, head>>
  PROVE  LineInv'
<1>1. BufferSize \in Nat \ {0}
  BY SizesAssumption
<1>2. /\ buffer_push(Nul) /\ input' = FALSE /\ UNCHANGED line
      /\ spoilt' = spoilt \cup Spoil(Len(line) + 1 >= BufferSize, "overrun")
  BY DEF PressEnter
<1>3. tail \in Int /\ tail < BufferSize /\ Len(line) \in Nat
  BY <1>1 DEF TypeOK, MaxUnderrun
<1>5. (tail' < 0 => spoilt' # {}) /\ tail' >= 1 - BufferSize
  BY <1>2, PushAboveBelow DEF LineInv
<1>6. ASSUME spoilt' = {}
      PROVE  LineInRing' /\ Enclosed'
  <2>1. spoilt = {} /\ Len(line) + 1 < BufferSize
    BY <1>1, <1>2, <1>3, <1>6 DEF Spoil
  <2>2. LineInRing /\ tail = Slot(Len(line))
    BY <2>1 DEF LineInv, Typing
  <2>3. /\ tail' = Slot(Len(line) + 1) /\ tail' \in 0 .. BufferSize - 1
        /\ buffer'[Slot(Len(line))] = Nul
        /\ \A i \in 0 .. Len(line) - 1 : buffer'[Slot(i)] = line[i + 1]
    BY <1>1, <1>2, <1>3, <2>1, <2>2, PushBehindLine
  <2>4. \A i : Slot(i)' = Slot(i)
    BY DEF Slot
  <2>5. Len(line') = Len(line) /\ line' = line
    BY <1>2
  <2>6. Enclosed'
    BY <2>1, <2>3, <2>4, <2>5 DEF Enclosed
  <2>7. head' >= 0 /\ tail' >= 0 /\ Len(line) <= BufferSize
    BY <1>1, <1>3, <2>1, <2>2, <2>3 DEF LineInRing
  <2> QED
    BY <2>3, <2>4, <2>5, <2>6, <2>7 DEF LineInRing
<1>7. Ended' /\ ~Typing' /\ pc' = "spin"
  BY <1>2 DEF Typing, Ended
<1> QED
  BY <1>5, <1>6, <1>7 DEF LineInv

\* The cursor is at the mark exactly when the line is empty.
LEMMA AtMarkIffEmpty ==
  ASSUME TypeOK, CursorBehindLine, StopColumn < Width
  PROVE  /\ <<vga_row, vga_column>> = terminal_stop_delete <=> Len(line) = 0
         /\ vga_column = 0 /\ Len(line) > 0 => vga_row > StopRow
<1>1. /\ vga_row \in Nat /\ vga_column \in 0 .. Width /\ StopRow \in Nat /\ StopColumn \in Nat
      /\ Width \in Nat \ {0} /\ Len(line) \in Nat
      /\ terminal_stop_delete = <<StopRow, StopColumn>>
  BY SizesAssumption DEF TypeOK, StopRow, StopColumn
<1>2. /\ vga_row >= StopRow
      /\ vga_row * Width + vga_column = StopRow * Width + StopColumn + Len(line)
  BY DEF CursorBehindLine
<1>3. CASE vga_row = StopRow
  BY <1>1, <1>2, <1>3
<1>4. CASE vga_row > StopRow
  <2> DEFINE above == vga_row - StopRow
  <2>1. above \in Nat \ {0} /\ vga_row = StopRow + above
    BY <1>1, <1>4
  <2> HIDE DEF above
  <2>2. above * Width >= Width
    BY <1>1, <2>1, SMT
  <2>3. vga_row * Width = StopRow * Width + above * Width
    BY <1>1, <2>1
  <2>4. StopRow * Width \in Int /\ above * Width \in Int
    BY <1>1, <2>1
  <2>5. Len(line) > 0
    BY <1>1, <1>2, <2>2, <2>3, <2>4
  <2> QED
    BY <1>1, <1>4, <2>5
<1> QED
  BY <1>1, <1>2, <1>3, <1>4

LEMMA BackspaceLine ==
  ASSUME TypeOK, LineInv, pc = "spin", input = TRUE, PressBackspace,
         UNCHANGED <<pc, terminal_stop_delete, head>>
  PROVE  LineInv'
<1>1. BufferSize \in Nat \ {0} /\ Width \in Nat \ {0}
  BY SizesAssumption
<1>2. UNCHANGED input /\ line' = IF line = <<>> THEN line ELSE SubSeq(line, 1, Len(line) - 1)
  BY DEF PressBackspace
<1>3. tail \in Int /\ tail < BufferSize /\ line \in Seq(Char) /\ Len(line) \in Nat
  BY <1>1 DEF TypeOK, MaxUnderrun
<1>4. Typing /\ Typing' /\ ~Ended' /\ pc' = "spin" /\ StopColumn' = StopColumn /\ StopRow' = StopRow
  BY <1>2 DEF Typing, Ended, StopColumn, StopRow
<1>5. StopColumn < Width /\ (tail < 0 => spoilt # {}) /\ tail >= 1 - BufferSize
      /\ (spoilt = {} => LineInRing /\ tail = Slot(Len(line)) /\ CursorBehindLine)
  BY <1>4 DEF LineInv
<1>6. \A i : Slot(i)' = Slot(i)
  BY DEF Slot
<1>7. CASE <<vga_row, vga_column>> = terminal_stop_delete
  <2>1. UNCHANGED <<cursor, tail, buffer, spoilt>>
    BY <1>7 DEF PressBackspace
  <2>2. ASSUME spoilt = {} PROVE line' = line
    BY <1>2, <1>3, <1>5, <1>7, <2>2, AtMarkIffEmpty
  <2>3. ASSUME spoilt' = {}
        PROVE  LineInRing' /\ (tail = Slot(Len(line)))' /\ CursorBehindLine'
    <3>1. LineInRing /\ tail = Slot(Len(line)) /\ CursorBehindLine /\ line' = line
      BY <1>5, <2>1, <2>2, <2>3
    <3> QED
      BY <1>4, <1>6, <2>1, <3>1 DEF LineInRing, CursorBehindLine, cursor
  <2> QED
    BY <1>4, <1>5, <2>1, <2>3 DEF LineInv
<1>8. CASE <<vga_row, vga_column>> # terminal_stop_delete
  <2>1. BackspaceCursor /\ tail' = CMod(tail - 1, BufferSize) /\ UNCHANGED buffer
        /\ spoilt' = spoilt \cup Spoil(tail <= 0, "underflow")
    BY <1>8 DEF PressBackspace, buffer_pop
  <2>2. tail' \in Int /\ (tail > 0 => tail' = tail - 1) /\ tail' >= 1 - BufferSize
    <3>1. tail - 1 \in Int
      BY <1>3
    <3>2. CASE tail > 0
      <4>1. tail - 1 \in 0 .. 2 * BufferSize - 1 /\ tail - 1 >= 0 /\ tail - 1 < BufferSize
        BY <1>1, <1>3, <3>2
      <4>2. (tail - 1) % BufferSize = tail - 1
        BY <1>1, <4>1, Wrapped
      <4>3. tail' = tail - 1
        BY <2>1, <4>1, <4>2 DEF CMod
      <4> QED
        BY <1>1, <4>1, <4>3
    <3>3. CASE ~(tail > 0)
      <4>1. tail - 1 < 0
        BY <1>3, <3>3
      <4>2. tail' \in 1 - BufferSize .. 0
        BY <2>1, <3>1, <4>1, CModRange
      <4> QED
        BY <1>1, <3>3, <4>2
    <3> QED
      BY <3>2, <3>3
  <2>3. ASSUME spoilt' = {}
        PROVE  LineInRing' /\ (tail = Slot(Len(line)))' /\ CursorBehindLine' /\ tail' >= 0
    <3>1. spoilt = {} /\ tail > 0
      BY <1>3, <2>1, <2>3 DEF Spoil
    <3>2. LineInRing /\ tail = Slot(Len(line)) /\ CursorBehindLine
      BY <1>5, <3>1
    <3>3. Len(line) > 0 /\ (vga_column = 0 => vga_row > StopRow)
      BY <1>3, <1>5, <1>8, <3>2, AtMarkIffEmpty
    <3>4. /\ Len(line') = Len(line) - 1
          /\ \A i \in 0 .. Len(line) - 2 : line'[i + 1] = line[i + 1]
      <4>1. line' = SubSeq(line, 1, Len(line) - 1)
        BY <1>2, <1>3, <3>3
      <4> QED
        <5>1. \A i \in 1 .. Len(line) - 1 : line[i] \in Char
          BY <1>3
        <5>2. /\ Len(line') = IF 1 <= Len(line) - 1 THEN Len(line) - 1 - 1 + 1 ELSE 0
              /\ \A i \in 1 .. Len(line) - 1 - 1 + 1 : line'[i] = line[1 + i - 1]
          BY <1>3, <4>1, <5>1, SubSeqProperties
        <5>3. \A i \in 1 .. Len(line) - 1 : line'[i] = line[i]
          BY <1>3, <5>2
        <5>4. Len(line') = Len(line) - 1
          <6> DEFINE n == Len(line)
          <6>1. n \in Nat /\ n > 0
            BY <1>3, <3>3
          <6>2. (IF 1 <= n - 1 THEN n - 1 - 1 + 1 ELSE 0) = n - 1
            <7> HIDE DEF n
            <7> QED
              BY <6>1
          <6> QED
            BY <5>2, <6>2
        <5>5. \A i \in 0 .. Len(line) - 2 : i + 1 \in 1 .. Len(line) - 1
          BY <1>3
        <5> QED
          BY <5>3, <5>4, <5>5
    <3>5. tail' = tail - 1
      BY <2>2, <3>1
    <3>6. LineInRing'
      <4>1. head' >= 0 /\ tail' >= 0 /\ Len(line') <= BufferSize
        BY <1>1, <1>3, <3>1, <3>2, <3>4, <3>5 DEF LineInRing
      <4>2. \A i \in 0 .. Len(line') - 1 : i \in 0 .. Len(line) - 2 /\ i \in 0 .. Len(line) - 1
        BY <1>3, <3>3, <3>4
      <4>3. \A i \in 0 .. Len(line') - 1 : buffer'[Slot(i)'] = line'[i + 1]
        BY <1>6, <2>1, <3>2, <3>4, <4>2 DEF LineInRing
      <4> QED
        BY <4>1, <4>3 DEF LineInRing
    <3>7. tail - 1 = Slot(Len(line) - 1)
      <4>1. head \in 0 .. BufferSize - 1 /\ Len(line) \in 0 .. BufferSize
            /\ Len(line) - 1 \in 0 .. BufferSize
        BY <1>1, <1>3, <3>2, <3>3 DEF LineInRing, TypeOK, MaxUnderrun
      <4>2. /\ tail = IF head + Len(line) < BufferSize THEN head + Len(line)
                       ELSE head + Len(line) - BufferSize
            /\ Slot(Len(line) - 1) = IF head + (Len(line) - 1) < BufferSize
                                      THEN head + (Len(line) - 1)
                                      ELSE head + (Len(line) - 1) - BufferSize
        BY <3>2, <4>1, SlotValue
      <4> QED
        BY <1>1, <1>3, <3>1, <3>3, <4>1, <4>2
    <3>8. CursorBehindLine'
      <4>1. vga_row \in Nat /\ vga_column \in 0 .. Width /\ StopRow \in Nat /\ StopColumn \in Nat
        BY <1>1 DEF TypeOK, StopRow, StopColumn
      <4>2. CASE vga_column = 0
        <5>1. vga_row' = vga_row - 1 /\ vga_column' = Width - 1 /\ vga_row > StopRow
          BY <2>1, <3>3, <4>2 DEF BackspaceCursor
        <5>2. (vga_row - 1) * Width = vga_row * Width - Width
          BY <1>1, <4>1
        <5> QED
          BY <1>1, <1>3, <1>4, <3>2, <3>4, <4>1, <4>2, <5>1, <5>2 DEF CursorBehindLine
      <4>3. CASE vga_column # 0
        <5>1. vga_row' = vga_row /\ vga_column' = vga_column - 1
          BY <2>1, <4>3 DEF BackspaceCursor
        <5> QED
          BY <1>1, <1>3, <1>4, <3>2, <3>4, <4>1, <5>1 DEF CursorBehindLine
      <4> QED
        BY <4>2, <4>3
    <3> QED
      BY <1>3, <1>6, <3>1, <3>4, <3>5, <3>6, <3>7, <3>8
  <2>4. tail' < 0 => spoilt' # {}
    BY <2>2, <2>3
  <2> QED
    BY <1>4, <1>5, <2>2, <2>3, <2>4 DEF LineInv
<1> QED
  BY <1>7, <1>8

LEMMA ActLine ==
  ASSUME TypeOK, InputProtects, LineInv, Act
  PROVE  LineInv'
<1>1. pc = "spin" /\ input = TRUE
  BY DEF Act, InputProtects, TypeOK
<1>2. UNCHANGED <<pc, terminal_stop_delete, head>> /\ UNCHANGED input_buffer
  BY DEF Act, thread
<1>3. CASE NoEffect \/ PressCapsLock
  <2>1. UNCHANGED lineState
    BY <1>2, <1>3 DEF NoEffect, PressCapsLock, cursor, lineState
  <2> QED
    BY <2>1, LineAlone
<1> QED
  BY <1>1, <1>2, <1>3, LetterLine, EnterLine, BackspaceLine DEF Act

LEMMA LineNext ==
  ASSUME TypeOK, InputProtects, LineInv, [Next]_vars
  PROVE  LineInv'
<1>1. ASSUME UNCHANGED <<thread, input, ring, cursor, line, spoilt>> PROVE LineInv'
  <2>1. UNCHANGED lineState
    BY <1>1 DEF thread, ring, cursor, lineState
  <2> QED
    BY <2>1, LineAlone
<1>2. CASE Ignore \/ Enter \/ ReadScanCode \/ Transfer \/ Spurious
  BY <1>1, <1>2 DEF Ignore, Enter, ReadScanCode, Transfer, Spurious
<1>3. ASSUME NEW key \in Keys, Press(key) \/ Release(key) PROVE LineInv'
  BY <1>1, <1>3 DEF Press, Release, Send
<1>4. CASE UNCHANGED vars
  BY <1>1, <1>4 DEF vars
<1> QED
  BY <1>2, <1>3, <1>4, ThreadLine, ActLine DEF Next, Interrupt

----------------------------------------------------------------------------
\* The line is the string at input_buffer: the typed characters are no NULs.
LEMMA CopiedIsCommand ==
  ASSUME TypeOK, Copied
  PROVE  Command = line
<1> DEFINE n == Len(line)
<1>1. n \in 0 .. BufferSize - 1 /\ input_buffer[n] = Nul
  BY SizesAssumption DEF Copied, TypeOK
<1>2. \A i \in 0 .. n - 1 : input_buffer[i] = line[i + 1] /\ line[i + 1] \in Char
  BY DEF Copied, TypeOK
<1>3. Nul \notin Char
  BY KeysAssumption DEF Nul, Char
<1>4. Terminated
  BY <1>1 DEF Terminated
<1> HIDE DEF n
<1>5. \A j \in 0 .. n - 1 : input_buffer[j] # Nul
  BY <1>2, <1>3
<1>6. CommandLength = n
  <2> DEFINE First(i) == input_buffer[i] = Nul /\ \A j \in 0 .. i - 1 : input_buffer[j] # Nul
  <2>1. First(n)
    BY <1>1, <1>5
  <2>2. ASSUME NEW i \in 0 .. BufferSize - 1, First(i) PROVE i = n
    BY <1>1, <1>5, <2>2, SizesAssumption
  <2>3. CommandLength = CHOOSE i \in 0 .. BufferSize - 1 : First(i)
    BY <1>4 DEF CommandLength
  <2> HIDE DEF First
  <2> QED
    BY <1>1, <2>1, <2>2, <2>3
<1>7. \A i \in 1 .. n : input_buffer[i - 1] = line[i]
  <2> TAKE i \in 1 .. n
  <2>1. i - 1 \in 0 .. n - 1 /\ (i - 1) + 1 = i
    BY <1>1
  <2> QED
    BY <1>2, <2>1
<1>8. Command = [i \in 1 .. n |-> line[i]]
  BY <1>6, <1>7 DEF Command
<1> QED
  BY <1>8 DEF TypeOK, n

\* The invariant of the console as a whole.
THEOREM ConsoleInvariance == Spec => []ConsoleInv
<1>1. Init => ConsoleInv
  BY TypeInit, InputInit, PairInit, OwesInit, LineInit DEF ConsoleInv
<1>2. ConsoleInv /\ [Next]_vars => ConsoleInv'
  BY TypeNext, InputNext, PairNext, OwesNext, LineNext DEF ConsoleInv
<1> QED
  BY <1>1, <1>2, PTL DEF Spec

\* wait_keyboard_input returns the line as it was typed and edited, for every
\* size of buffer and screen and any number of lines, unless the ring is full,
\* tail went below 0 or the screen scrolled under the mark.
THEOREM LinesFaithful == Spec => []LineFaithful
<1>1. ConsoleInv => LineFaithful
  BY CopiedIsCommand DEF ConsoleInv, LineInv, LineFaithful
<1> QED
  BY <1>1, ConsoleInvariance, PTL
=============================================================================
