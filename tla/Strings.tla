------------------------------ MODULE Strings ------------------------------
(***************************************************************************)
(* The routines of src/std/string and src/std/math, as functions of the    *)
(* memory they are called on.  A loop is a recursive function of its turns.*)
(***************************************************************************)
EXTENDS Integers, Sequences

CONSTANTS
  WordSpan,   \* 2^32: values of an unsigned long
  MemorySize  \* bound: bytes of the memory

ASSUME StringsAssumption == WordSpan \in Nat \ {0} /\ MemorySize \in Nat \ {0}

Bytes == 0 .. 255
MaxBase == 201   \* the last base whose digits each fit in a byte
NUL == 0
NULL == -1       \* no address
Addresses == 0 .. MemorySize - 1

----------------------------------------------------------------------------
\* Numbers.

pow(number, degree) ==
  LET P[d \in 0 .. degree] ==
        IF number = 0 \/ d = 0 THEN 1 ELSE (number * P[d - 1]) % WordSpan
  IN  P[degree]

\* Slip: while (number >= base), the last digit is not counted.
get_digits_UpToBase(number, base) ==
  LET D[n \in 0 .. number] == IF n < base THEN 0 ELSE 1 + D[n \div base]
  IN  D[number]

get_digits(number, base) ==
  LET D[n \in 0 .. number] == IF n = 0 THEN 0 ELSE 1 + D[n \div base]
  IN  D[number]

\* '0' is 48, and 'A' 65.
Digit(digit) == IF digit < 10 THEN digit + 48 ELSE digit + 65 - 10

\* The string itoa writes; number is unsigned, so that there is never a sign.
itoa(number, base) ==
  LET digits == get_digits(number, base)
      After[t \in 0 .. digits] ==
        IF t = 0 THEN [num |-> number, str |-> <<>>]
        ELSE LET was == After[t - 1]
                 p == pow(base, digits - t)
             IN  [num |-> was.num % p, str |-> Append(was.str, Digit(was.num \div p))]
  IN  IF base < 2 THEN <<NUL>>
      ELSE IF number = 0 THEN <<Digit(0), NUL>>
      ELSE Append(After[digits].str, NUL)

----------------------------------------------------------------------------
\* Memory.

memset(mem, dest, val, count) ==
  [a \in DOMAIN mem |-> IF a \in dest .. dest + count - 1 THEN val ELSE mem[a]]

\* Byte by byte, from the front.
memcpy(mem, dst, src, size) ==
  LET After[i \in 0 .. size] ==
        IF i = 0 THEN mem ELSE [After[i - 1] EXCEPT ![dst + i - 1] = After[i - 1][src + i - 1]]
  IN  After[size]

strlen(mem, string) ==
  LET Length[a \in DOMAIN mem] == IF mem[a] = NUL THEN 0 ELSE 1 + Length[a + 1]
  IN  Length[string]

\* The loop tests the pointer str2, and needs not test what it points to.
strcmp(mem, str1, str2) ==
  LET Stop[i \in 0 .. strlen(mem, str1)] ==
        IF mem[str1 + i] # NUL /\ mem[str1 + i] = mem[str2 + i] THEN Stop[i + 1] ELSE i
  IN  mem[str1 + Stop[0]] = mem[str2 + Stop[0]]

\* destptr stays where it is, and the NUL is not copied, although string.h:18
\* says that the contents of the source are.  The loop ends before as many
\* turns as the memory has bytes.
strcpy(mem, dest, src) ==
  LET After[t \in 0 .. MemorySize] ==
        IF t = 0 THEN [mem |-> mem, src |-> src]
        ELSE LET was == After[t - 1]
             IN  IF was.mem[was.src] = NUL THEN was
                 ELSE [mem |-> [was.mem EXCEPT ![dest] = was.mem[was.src]], src |-> was.src + 1]
  IN  IF strlen(mem, dest) < strlen(mem, src) THEN [mem |-> mem, ret |-> NULL]
      ELSE [mem |-> After[MemorySize].mem, ret |-> dest]

----------------------------------------------------------------------------
\* Reference definitions: what a numeral means, and which string starts at a.
Meaning(str, base) ==
  LET Worth(ch) == IF ch >= 65 THEN ch - 55 ELSE ch - 48
      M[n \in 0 .. Len(str)] == IF n = 0 THEN 0 ELSE M[n - 1] * base + Worth(str[n])
  IN  M[Len(str)]

Contents == {m \in [Addresses -> Bytes] : m[MemorySize - 1] = NUL}

Ends(m, a) == {b \in Addresses : b >= a /\ m[b] = NUL}
String(m, a) ==
  LET end == CHOOSE e \in Ends(m, a) : \A f \in Ends(m, a) : e <= f
  IN  [i \in 1 .. end - a |-> m[a + i - 1]]
=============================================================================
