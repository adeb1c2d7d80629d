----------------------------- MODULE StringCalls -----------------------------
(***************************************************************************)
(* Callers of src/std/string on one memory: they fill parts of it, write   *)
(* numbers, copy parts to others and strings over others, in any order.    *)
(* Each keeps to what string.h asks of it: areas lie in memory and, where  *)
(* the arguments are restrict or one is copied to the other, apart.        *)
(***************************************************************************)
EXTENDS Strings

CONSTANTS
  Numbers, Bases, \* bound: what itoa is asked for
  Fills           \* bound: the bytes that memset writes

ASSUME CallsAssumption ==
  Numbers \subseteq 0 .. WordSpan - 1 /\ Bases \subseteq 0 .. MaxBase /\ Fills \subseteq Bytes

VARIABLES
  memory,  \* address |-> byte
  notes    \* ghost: the numerals that callers know of: where, of what number and base

callsvars == <<memory, notes>>

Note == [at : Addresses, number : 0 .. WordSpan - 1, base : 2 .. MaxBase]

Area(a, n) == a .. a + n - 1
Numeral(note) == Area(note.at, Len(itoa(note.number, note.base)))   \* with its NUL
Outside(area) == {note \in notes : Numeral(note) \cap area = {}}

\* Memory is clear at first, and callers leave the NUL alone that ends it.
CallsInit == memory = [a \in Addresses |-> NUL] /\ notes = {}
Store(mem) == mem[MemorySize - 1] = NUL /\ memory' = mem

----------------------------------------------------------------------------
Fill(a, val, n) ==
  /\ Area(a, n) \subseteq Addresses
  /\ Store(memset(memory, a, val, n))
  /\ notes' = Outside(Area(a, n))

Written(mem, a, str) == [c \in Addresses |-> IF c \in Area(a, Len(str)) THEN str[c - a + 1] ELSE mem[c]]

\* A base below 2 has no numerals: itoa writes an empty string.
WriteNumber(number, a, base) ==
  LET str == itoa(number, base)
  IN  /\ Area(a, Len(str)) \subseteq Addresses
      /\ Store(Written(memory, a, str))
      /\ notes' = Outside(Area(a, Len(str))) \cup
                    IF base < 2 THEN {} ELSE {[at |-> a, number |-> number, base |-> base]}

\* Numerals go with the bytes when all of theirs are copied.
Copy(a, b, n) ==
  /\ Area(a, n) \subseteq Addresses /\ Area(b, n) \subseteq Addresses
  /\ Area(a, n) \cap Area(b, n) = {}
  /\ Store(memcpy(memory, a, b, n))
  /\ notes' = Outside(Area(a, n)) \cup
                {[note EXCEPT !.at = @ - b + a] :
                   note \in {note \in notes : Numeral(note) \subseteq Area(b, n)}}

\* The caller gives up what is at a, as much as the string at b and its NUL need.
CopyString(a, b) ==
  LET room   == Area(a, strlen(memory, b) + 1)
      result == strcpy(memory, a, b)
  IN  /\ room \subseteq Addresses /\ room \cap Area(b, strlen(memory, b) + 1) = {}
      /\ Store(result.mem)
      /\ notes' = IF result.ret = NULL THEN notes ELSE Outside(room)

CallsNext ==
  \/ \E a \in Addresses, n \in 0 .. MemorySize, val \in Fills : Fill(a, val, n)
  \/ \E a \in Addresses, number \in Numbers, base \in Bases : WriteNumber(number, a, base)
  \/ \E a, b \in Addresses, n \in 0 .. MemorySize : Copy(a, b, n)
  \/ \E a, b \in Addresses : CopyString(a, b)

CallsSpec == CallsInit /\ [][CallsNext]_callsvars

----------------------------------------------------------------------------
\* What itoa wrote for a number means that number, in its base's digits and
\* without leading zeros, wherever it has been copied to since and whatever the
\* calls did to the memory around it; strlen and strcmp tell the length and the
\* equality of all strings there are, so that strcmp finds two numerals of a
\* base equal exactly when they are of one number.
NumbersStand ==
  /\ memory \in Contents /\ notes \subseteq Note
  /\ \A a, b \in Addresses :
       /\ strlen(memory, a) = Len(String(memory, a))
       /\ strcmp(memory, a, b) <=> String(memory, a) = String(memory, b)
  /\ \A note \in notes :
       LET numeral == String(memory, note.at)
       IN  /\ Meaning(numeral, note.base) = note.number
           /\ note.number > 0 => numeral[1] # Digit(0)
           /\ \A i \in DOMAIN numeral : Meaning(<<numeral[i]>>, note.base) \in 0 .. note.base - 1
  /\ \A n, o \in notes :
       n.base = o.base => (strcmp(memory, n.at, o.at) <=> n.number = o.number)
=============================================================================
