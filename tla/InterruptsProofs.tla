--------------------------- MODULE InterruptsProofs ---------------------------
(***************************************************************************)
(* Proofs about Interrupts, for any devices, faults, system calls and size *)
(* of the stack.                                                           *)
(***************************************************************************)
EXTENDS Interrupts, SequenceTheorems, TLAPS

----------------------------------------------------------------------------
\* The words of a frame.

Fields == {"regs", "cr2", "ds", "edi", "esi", "ebp", "esp", "ebx", "edx", "ecx",
           "eax", "int_no", "err_code", "eip", "csm", "eflags"}

\* struct int_regs has fifteen fields, and the pointer to it one word more.
LEMMA IntRegsFields ==
  Len(IntRegs) = 15 /\ FrameWords = 16 /\ {"regs"} \cup Range(IntRegs) = Fields
<1>1. Len(IntRegs) = 15
  BY DEF IntRegs
<1>2. \A f : f \in Range(IntRegs) <=> \E i \in 1 .. 15 : IntRegs[i] = f
  BY DEF Range, IntRegs
<1>3. Range(IntRegs) \subseteq Fields
  BY <1>2 DEF Fields, IntRegs
<1>4. Fields \subseteq {"regs"} \cup Range(IntRegs)
  <2>1. \A i \in 1 .. 15 : IntRegs[i] \in Range(IntRegs)
    BY <1>2
  <2> QED BY <2>1 DEF Fields, IntRegs
<1> QED BY <1>1, <1>3, <1>4 DEF FrameWords, Fields

Phases == {"thread", "stub", "isr", "halted", "reset", "syscall", "irq", "eoi_second",
           "eoi_first", "return"}
Stages == {"idt_init", "pit_init", "keyboard_init", "paging_init", "run"}
ThreadPcs == {"thread"} \X Stages
Results == CallNumbers \cup {0, -1}
Words == [field : Fields, value : Int \cup BOOLEAN \cup Results
                                  \cup (Phases \X (Stages \cup Vectors))]

\* What a stub pushes: the pointer, cr2 and ds, the registers with eax last, the
\* vector and, for those the stub takes to have none, an error code.
StubFrame(w, v, value) ==
  LET n == IF v \in ErrorCodeStubs THEN 12 ELSE 13
  IN  /\ w \in Seq(Words) /\ Len(w) = n
      /\ w[1].field = "regs"
      /\ \A i \in 1 .. (n - 1) : w[i + 1].field = IntRegs[i]
      /\ w[11].value = value /\ w[12].value = v

LEMMA StubWordsAre ==
  ASSUME NEW v \in Vectors, NEW value \in Results
  PROVE  StubFrame(StubWords(v, value), v, value)
<1> DEFINE A == <<Word("regs", 0), Word("cr2", 0), Word("ds", 16), Word("edi", 0),
                  Word("esi", 0), Word("ebp", 0), Word("esp", 0), Word("ebx", 0),
                  Word("edx", 0), Word("ecx", 0), Word("eax", value), Word("int_no", v)>>
           D == StubCode(v)
           w == StubWords(v, value)
           n == IF v \in ErrorCodeStubs THEN 12 ELSE 13
<1>1. A \in Seq(Words) /\ Len(A) = 12
  <2>1. v \in Int
    BY DEF Vectors, SyscallVector
  <2>2. \A i \in 1 .. 12 : A[i] \in Words
    BY <2>1 DEF Word, Words, Fields
  <2>3. A \in [1 .. 12 -> Words]
    BY <2>2
  <2>4. Len(A) = 12
    OBVIOUS
  <2> HIDE DEF A
  <2> QED BY <2>3, <2>4, SeqDef
<1>2. D \in Seq(Words) /\ Len(D) = n - 12 /\ (n = 13 => D[1].field = "err_code")
  <2>1. Word("err_code", 0) \in Words /\ Word("err_code", 0).field = "err_code"
    BY DEF Word, Words, Fields
  <2> QED BY <2>1 DEF StubCode
<1>3. /\ w \in Seq(Words) /\ Len(w) = n
      /\ \A i \in 1 .. 12 : w[i] = A[i]
      /\ n = 13 => w[13].field = "err_code"
  <2>1. w = A \o D
    BY DEF StubWords
  <2>2. n \in {12, 13}
    OBVIOUS
  <2> HIDE DEF A, D, w, n
  <2>3. /\ A \o D \in Seq(Words) /\ Len(A \o D) = Len(A) + Len(D)
        /\ \A i \in 1 .. Len(A) + Len(D) :
             (A \o D)[i] = IF i <= Len(A) THEN A[i] ELSE D[i - Len(A)]
    BY <1>1, <1>2, ConcatProperties
  <2> QED BY <1>1, <1>2, <2>1, <2>2, <2>3
<1>4. A[1].field = "regs" /\ A[11].value = value /\ A[12].value = v
  BY DEF Word
<1>5. \A i \in 1 .. 11 : A[i + 1].field = IntRegs[i]
  BY DEF Word, IntRegs
<1>6. IntRegs[12] = "err_code"
  BY DEF IntRegs
<1> QED
  <2>1. n \in {12, 13}
    OBVIOUS
  <2>2. \A i \in 1 .. (n - 1) : w[i + 1].field = IntRegs[i]
    <3> HIDE DEF A, w, n
    <3> QED BY <2>1, <1>3, <1>5, <1>6
  <2>3. w[1].field = "regs" /\ w[11].value = value /\ w[12].value = v
    <3> HIDE DEF A, w, n
    <3> QED BY <1>3, <1>4
  <2> QED BY <2>2, <2>3, <1>3 DEF StubFrame

\* A function on 1 .. n is a sequence of length n.
LEMMA AsSequence ==
  ASSUME NEW S, NEW n \in Nat, NEW t \in [1 .. n -> S]
  PROVE  t \in Seq(S) /\ Len(t) = n
<1>1. t \in Seq(S)
  BY SeqDef
<1> DEFINE k == Len(t)
<1>2. k \in Nat /\ \A i : i \in 1 .. k <=> i \in 1 .. n
  BY <1>1, LenProperties
<1> HIDE DEF k
<1>3. (k \in 1 .. k <=> k \in 1 .. n) /\ (n \in 1 .. k <=> n \in 1 .. n)
  BY <1>2
<1>4. k = n
  BY <1>2, <1>3
<1> QED BY <1>1, <1>4 DEF k

\* Words pushed onto the stack lie on top of what it held.
LEMMA Pushed ==
  ASSUME NEW words \in Seq(Words), stack \in Seq(Words), Push(words)
  PROVE  /\ stack' \in Seq(Words) /\ Len(stack') = Len(words) + Len(stack)
         /\ \A i \in 1 .. Len(words) : stack'[i] = words[i]
         /\ \A i \in 1 .. Len(stack) : stack'[Len(words) + i] = stack[i]
<1>1. Len(words) \in Nat /\ Len(stack) \in Nat
  BY LenProperties
<1>2. /\ stack' \in Seq(Words) /\ Len(stack') = Len(words) + Len(stack)
      /\ \A i \in 1 .. Len(words) + Len(stack) :
           stack'[i] = IF i <= Len(words) THEN words[i] ELSE stack[i - Len(words)]
  BY ConcatProperties DEF Push
<1>3. ASSUME NEW i \in 1 .. Len(stack) PROVE stack'[Len(words) + i] = stack[i]
  <2>1. /\ Len(words) + i \in 1 .. Len(words) + Len(stack)
        /\ ~ (Len(words) + i <= Len(words)) /\ Len(words) + i - Len(words) = i
    BY <1>1
  <2> QED BY <1>2, <2>1
<1>4. ASSUME NEW i \in 1 .. Len(words) PROVE stack'[i] = words[i]
  <2>1. i \in 1 .. Len(words) + Len(stack) /\ i <= Len(words)
    BY <1>1
  <2> QED BY <1>2, <2>1
<1> QED BY <1>2, <1>3, <1>4

----------------------------------------------------------------------------
\* The inductive invariant.

\* The vector of a running handler is one the handler is called for.
Running ==
  /\ pc = <<Phase, Vector>>
  /\ \/ Phase = "thread" /\ Vector \in Stages
     \/ Phase \in {"stub", "reset"} /\ Vector \in Vectors
     \/ Phase \in {"isr", "halted"} /\ Vector \in 0 .. 31
     \/ Phase \in {"irq", "eoi_first", "return"} /\ Vector \in 32 .. 47
     \/ Phase = "eoi_second" /\ Vector \in 40 .. 47
     \/ Phase \in {"syscall", "return"} /\ Vector = SyscallVector

Types ==
  /\ Running
  /\ interrupts \in BOOLEAN /\ (Phase # "thread" => ~interrupts)
  /\ stack \in Seq(Words) /\ Len(stack) <= StackWords
  /\ eax \in Results
  /\ resume \in [pc : ThreadPcs, interrupts : BOOLEAN, eax : Results]

\* Nothing is delivered through a gate that is not there and closes nothing.
Gates ==
  \/ \A v \in Vectors : idt_entries[v] = "interrupt"
  \/ /\ \A v \in Vectors : idt_entries[v] = "absent"
     /\ pc = <<"thread", "idt_init">> \/ Phase = "reset"

\* What the processor pushed for vector v.
ProcessorFrame(v) ==
  LET n == IF v \in CpuErrorCodes THEN 1 ELSE 0
  IN  /\ Len(stack) >= 3 + n /\ Len(stack) + 13 <= StackWords
      /\ n = 1 => stack[1].field = "err_code"
      /\ stack[n + 1].field = "eip" /\ stack[n + 2].field = "csm"
      /\ stack[n + 3].field = "eflags"

\* What a handler of vector v finds, the pointer first.
HandlerFrame(v) ==
  LET known == v \in 8 .. 14 \/ v \notin CpuErrorCodes
  IN  /\ Len(stack) >= 16 /\ stack[1].field = "regs"
      /\ \A i \in 1 .. (IF known THEN 15 ELSE 12) : stack[i + 1].field = IntRegs[i]
      /\ stack[12].value = v

Returned ==
  IF Phase = "return" /\ Vector = SyscallVector /\ resume.eax \notin Calls
  THEN -1 ELSE resume.eax

Handling == Phase \in {"syscall", "irq", "eoi_second", "eoi_first", "return"}

Frames ==
  /\ Phase = "thread" => stack = <<>>
  /\ Phase = "stub" => ProcessorFrame(Vector)
  /\ Phase = "stub" /\ Vector >= 32 =>
       /\ Len(stack) = 3 /\ eax = resume.eax
       /\ stack[1].value = resume.pc /\ stack[3].value = resume.interrupts
  /\ Phase = "isr" => HandlerFrame(Vector)
  /\ Handling =>
       /\ HandlerFrame(Vector) /\ Len(stack) = 16
       /\ stack[11].value = Returned
       /\ stack[14].value = resume.pc /\ stack[16].value = resume.interrupts

Machine == Types /\ Gates /\ Frames

LEMMA VectorSets ==
  /\ 0 .. 31 \subseteq Vectors /\ 32 .. 47 \subseteq Vectors
  /\ SyscallVector \in Vectors /\ Vectors \subseteq Nat
  /\ \A v \in Vectors : v < 32 => v \in 0 .. 31
  /\ \A v \in Vectors : v >= 32 /\ v # SyscallVector => v \in 32 .. 47
BY DEF Vectors, SyscallVector

\* What runs can be pushed as a word.
LEMMA PcIsAValue ==
  ASSUME Running
  PROVE  pc \in Phases \X (Stages \cup Vectors)
<1>1. pc = <<Phase, Vector>>
  BY DEF Running
<1>2. Phase \in Phases
  <2> HIDE DEF Phase, Vector
  <2> QED BY DEF Running, Phases
<1>3. Vector \in Stages \cup Vectors
  <2> HIDE DEF Phase, Vector
  <2> QED BY VectorSets DEF Running
<1> QED BY <1>1, <1>2, <1>3

\* A delivery builds the processor's frame, or resets the machine.
LEMMA DeliverKeeps ==
  ASSUME Machine, NEW v \in Vectors, NEW number \in Results,
         v >= 32 => Phase = "thread",
         v < 32 => number = eax,
         Deliver(v, IF v \in CpuErrorCodes THEN <<Word("err_code", v)>> ELSE <<>>),
         Remember(number), eax' = number, UNCHANGED idt_entries
  PROVE  /\ Machine' /\ pc' \in {<<"stub", v>>, <<"reset", v>>} /\ ~interrupts'
         /\ pc' = <<"stub", v>> => \A u \in Vectors : idt_entries[u] = "interrupt"
<1> DEFINE codes == IF v \in CpuErrorCodes THEN <<Word("err_code", v)>> ELSE <<>>
           n == IF v \in CpuErrorCodes THEN 1 ELSE 0
           frame == <<Word("eip", pc), Word("csm", 8), Word("eflags", interrupts)>>
           lost == Len(stack) + FrameWords >= StackWords \/ idt_entries[v] = "absent"
<1>1. Len(stack) \in Nat /\ StackWords \in Nat /\ v \in Nat
  BY LenProperties, InterruptsAssumption, VectorSets DEF Machine, Types
<1>2. resume' \in [pc : ThreadPcs, interrupts : BOOLEAN, eax : Results]
  <2>1. Phase = "thread" => pc \in ThreadPcs
    BY DEF Machine, Types, Running, ThreadPcs
  <2> QED BY <2>1 DEF Machine, Types, Remember
<1>3. CASE lost
  <2>1. /\ pc' = <<"reset", v>> /\ ~interrupts' /\ stack' = stack
        /\ Phase' = "reset" /\ Vector' = v /\ interrupts' \in BOOLEAN
    <3>1. pc' = <<"reset", v>> /\ interrupts' = FALSE /\ stack' = stack
      BY <1>3 DEF Deliver
    <3> QED BY <3>1 DEF Phase, Vector
  <2>2. Types'
    BY <1>2, <2>1 DEF Machine, Types, Running
  <2>3. Gates'
    BY <2>1 DEF Machine, Gates
  <2>4. Frames'
    BY <2>1 DEF Frames, Handling
  <2> QED BY <2>1, <2>2, <2>3, <2>4 DEF Machine
<1>4. CASE ~ lost
  <2>1. /\ Push(codes \o frame) /\ pc' = <<"stub", v>>
        /\ Phase' = "stub" /\ Vector' = v
        /\ interrupts' = (interrupts /\ idt_entries[v] = "trap")
    BY <1>4 DEF Deliver, Phase, Vector
  <2>2. \A u \in Vectors : idt_entries[u] = "interrupt"
    BY <1>4 DEF Machine, Gates
  <2>3. interrupts' = FALSE
    BY <2>1, <2>2 DEF Machine, Types
  <2>4. codes \in Seq(Words) /\ Len(codes) = n /\ (n = 1 => codes[1].field = "err_code")
    <3>1. Word("err_code", v) \in Words
      BY <1>1 DEF Word, Words, Fields
    <3>2. <<Word("err_code", v)>>[1].field = "err_code"
      BY DEF Word
    <3> QED BY <3>1, <3>2
  <2>5. frame \in Seq(Words) /\ Len(frame) = 3
    <3>1. pc \in Phases \X (Stages \cup Vectors)
      BY PcIsAValue DEF Machine, Types
    <3>2. /\ Word("eip", pc) \in Words /\ Word("csm", 8) \in Words
          /\ Word("eflags", interrupts) \in Words
      BY <3>1 DEF Machine, Types, Word, Words, Fields
    <3> QED BY <3>2
  <2>6. /\ frame[1].field = "eip" /\ frame[2].field = "csm" /\ frame[3].field = "eflags"
        /\ frame[1].value = pc /\ frame[3].value = interrupts
    BY DEF Word
  <2>7. n \in {0, 1}
    OBVIOUS
  <2> HIDE DEF codes, frame, n
  <2> DEFINE words == codes \o frame
  <2>8. /\ words \in Seq(Words) /\ Len(words) = n + 3
        /\ n = 1 => words[1] = codes[1]
        /\ words[n + 1] = frame[1] /\ words[n + 2] = frame[2] /\ words[n + 3] = frame[3]
    <3>1. /\ words \in Seq(Words) /\ Len(words) = Len(codes) + Len(frame)
          /\ \A i \in 1 .. Len(codes) + Len(frame) :
               words[i] = IF i <= Len(codes) THEN codes[i] ELSE frame[i - Len(codes)]
      BY <2>4, <2>5, ConcatProperties
    <3> HIDE DEF words
    <3>2. /\ words \in Seq(Words) /\ Len(words) = n + 3
          /\ \A i \in 1 .. n + 3 : words[i] = IF i <= n THEN codes[i] ELSE frame[i - n]
      BY <3>1, <2>4, <2>5
    <3>3. CASE n = 0
      BY <3>2, <3>3
    <3>4. CASE n = 1
      BY <3>2, <3>4
    <3> QED BY <3>3, <3>4, <2>7
  <2>9. /\ stack' \in Seq(Words) /\ Len(stack') = n + 3 + Len(stack)
        /\ \A i \in 1 .. n + 3 : stack'[i] = words[i]
    <3> HIDE DEF words
    <3>1. stack \in Seq(Words)
      BY DEF Machine, Types
    <3>2. Push(words)
      BY <2>1 DEF words
    <3> QED BY <2>8, <3>1, <3>2, Pushed
  <2> HIDE DEF words
  <2>10. Len(stack) + 16 < StackWords
    BY <1>4, IntRegsFields, <1>1
  <2>11. Types'
    BY <1>1, <1>2, <2>1, <2>3, <2>7, <2>9, <2>10 DEF Machine, Types, Running
  <2>12. Gates'
    BY <2>2 DEF Gates
  <2>13. ProcessorFrame(v)'
    <3>1. /\ Len(stack') >= 3 + n /\ Len(stack') + 13 <= StackWords
          /\ n = 1 => stack'[1].field = "err_code"
          /\ stack'[n + 1].field = "eip" /\ stack'[n + 2].field = "csm"
          /\ stack'[n + 3].field = "eflags"
      <4>1. Len(stack') \in Nat /\ Len(stack') = n + 3 + Len(stack)
        BY <1>1, <2>7, <2>9
      <4>2. \A i \in 1 .. n + 3 : stack'[i] = words[i]
        BY <2>9
      <4>3. CASE n = 0
        BY <1>1, <2>6, <2>8, <2>10, <4>1, <4>2, <4>3
      <4>4. CASE n = 1
        BY <1>1, <2>4, <2>6, <2>8, <2>10, <4>1, <4>2, <4>4
      <4> QED BY <2>7, <4>3, <4>4
    <3> QED BY <3>1 DEF ProcessorFrame, n
  <2>14. ASSUME v >= 32
         PROVE  /\ Len(stack') = 3 /\ eax' = resume'.eax
                /\ stack'[1].value = resume'.pc /\ stack'[3].value = resume'.interrupts
    <3>1. Phase = "thread" /\ stack = <<>>
      BY <2>14 DEF Machine, Frames
    <3>2. n = 0
      BY <2>14, <1>1, InterruptsAssumption DEF n
    <3>3. resume' = [pc |-> pc, interrupts |-> interrupts, eax |-> number]
      BY <3>1 DEF Remember
    <3> QED BY <3>1, <3>2, <3>3, <2>6, <2>8, <2>9
  <2>15. Frames'
    BY <2>1, <2>13, <2>14 DEF Frames, Handling
  <2> QED BY <2>1, <2>2, <2>3, <2>11, <2>12, <2>15 DEF Machine
<1> QED BY <1>3, <1>4

\* What a handler's regs points to.
LEMMA RegsAre ==
  ASSUME stack \in Seq(Words), Len(stack) >= 16
  PROVE  \A i \in 1 .. Len(stack) - 1 : Regs[i] = stack[i + 1]
<1>1. stack # <<>>
  BY EmptySeq
<1> QED BY <1>1, HeadTailProperties DEF Regs

\* A stub builds the frame of its handler on the processor's.
LEMMA StubKeeps ==
  ASSUME Machine, Stub
  PROVE  Machine' /\ pc' = <<HandlerOf(Vector), Vector>>
<1> SUFFICES ASSUME NEW v \in Vectors, NEW e \in Results, v = Vector, e = eax
             PROVE  Machine' /\ pc' = <<HandlerOf(v), v>>
  <2>1. Vector \in Vectors /\ eax \in Results
    BY DEF Stub, Machine, Types, Running
  <2> QED BY <2>1
<1> DEFINE w == StubWords(v, e)
           n == IF v \in ErrorCodeStubs THEN 12 ELSE 13
           m == IF v \in CpuErrorCodes THEN 1 ELSE 0
<1>1. /\ Phase = "stub" /\ v \in Vectors /\ eax \in Results /\ stack \in Seq(Words)
      /\ ProcessorFrame(v)
  BY DEF Stub, Machine, Types, Running, Frames
<1>2. /\ pc' = <<HandlerOf(v), v>> /\ interrupts' = FALSE /\ Push(w)
      /\ UNCHANGED <<eax, idt_entries, resume>>
  BY DEF Stub, tables
<1>3. Phase' = HandlerOf(v) /\ Vector' = v
  BY <1>2 DEF Phase, Vector
<1>4. /\ w \in Seq(Words) /\ Len(w) = n
      /\ w[1].field = "regs"
      /\ \A i \in 1 .. (n - 1) : w[i + 1].field = IntRegs[i]
      /\ w[11].value = e /\ w[12].value = v
  <2>1. StubFrame(w, v, e)
    BY StubWordsAre
  <2> HIDE DEF w
  <2> QED BY <2>1 DEF StubFrame
<1>5. n \in {12, 13} /\ m \in {0, 1} /\ Len(stack) \in Nat
  BY <1>1, LenProperties
<1>6. /\ stack' \in Seq(Words) /\ Len(stack') = n + Len(stack)
      /\ \A i \in 1 .. n : stack'[i] = w[i]
      /\ \A i \in 1 .. Len(stack) : stack'[n + i] = stack[i]
  <2> HIDE DEF w, n
  <2> QED BY <1>1, <1>2, <1>4, Pushed
<1>7. /\ Len(stack) >= 3 + m /\ Len(stack) + 13 <= StackWords
      /\ m = 1 => stack[1].field = "err_code"
      /\ stack[m + 1].field = "eip" /\ stack[m + 2].field = "csm"
      /\ stack[m + 3].field = "eflags"
  BY <1>1 DEF ProcessorFrame
<1>8. v \in 8 .. 14 \/ v \notin CpuErrorCodes => n + m = 13
  <2>1. v \in ErrorCodeStubs => v \in CpuErrorCodes
    BY InterruptsAssumption DEF ErrorCodeStubs
  <2>2. v \in CpuErrorCodes /\ v \in 8 .. 14 => v \in ErrorCodeStubs
    BY InterruptsAssumption DEF ErrorCodeStubs
  <2> QED BY <2>1, <2>2
<1>9. v >= 32 => n = 13 /\ m = 0
  <2>1. v >= 32 => v \notin CpuErrorCodes /\ v \notin ErrorCodeStubs
    <3>1. v \in Nat
      BY <1>1, VectorSets
    <3> QED BY <3>1, InterruptsAssumption DEF ErrorCodeStubs
  <2> QED BY <2>1
<1>10. \/ HandlerOf(v) = "isr" /\ v \in 0 .. 31
       \/ HandlerOf(v) = "irq" /\ v \in 32 .. 47
       \/ HandlerOf(v) = "syscall" /\ v = SyscallVector
  <2>1. v \in Nat
    BY VectorSets
  <2>2. CASE v < 32
    BY <2>2, VectorSets DEF HandlerOf
  <2>3. CASE v = SyscallVector
    BY <2>3 DEF HandlerOf, SyscallVector
  <2>4. CASE v >= 32 /\ v # SyscallVector
    BY <2>1, <2>4, VectorSets DEF HandlerOf
  <2> QED BY <2>1, <2>2, <2>3, <2>4
<1> HIDE DEF w, n, m
<1>11. Types'
  <2>1. Running'
    BY <1>2, <1>3, <1>10 DEF Running
  <2>2. Len(stack') <= StackWords
    BY <1>5, <1>6, <1>7, InterruptsAssumption
  <2> QED BY <2>1, <2>2, <1>2, <1>6 DEF Machine, Types
<1>12. Gates'
  <2>1. pc # <<"thread", "idt_init">> /\ Phase # "reset"
    BY <1>1 DEF Phase
  <2> QED BY <2>1, <1>2 DEF Machine, Gates
<1>13. HandlerFrame(v)'
  <2>1. n = 12 => m = 1
    <3>1. n = 12 => v \in 8 .. 14
      BY DEF n, ErrorCodeStubs
    <3> QED BY <3>1, <1>5, <1>8
  <2>2. Len(stack') >= 16
    BY <2>1, <1>5, <1>6, <1>7
  <2>3. stack'[1].field = "regs" /\ stack'[12].value = v
    BY <1>4, <1>5, <1>6
  <2>4. \A i \in 1 .. (n - 1) : stack'[i + 1].field = IntRegs[i]
    BY <1>4, <1>5, <1>6
  <2>5. n = 13 => \A i \in 1 .. 12 : stack'[i + 1].field = IntRegs[i]
    BY <2>4
  <2>6. ASSUME v \in 8 .. 14 \/ v \notin CpuErrorCodes
        PROVE  \A i \in 1 .. 15 : stack'[i + 1].field = IntRegs[i]
    <3>1. n + m = 13
      BY <2>6, <1>8
    <3>2. stack'[14] = stack[m + 1] /\ stack'[15] = stack[m + 2] /\ stack'[16] = stack[m + 3]
      <4>1. CASE m = 0
        BY <4>1, <3>1, <1>5, <1>6, <1>7
      <4>2. CASE m = 1
        BY <4>2, <3>1, <1>5, <1>6, <1>7
      <4> QED BY <4>1, <4>2, <1>5
    <3>3. m = 1 => stack'[13].field = "err_code"
      BY <3>1, <1>5, <1>6, <1>7
    <3>4. \A i \in 1 .. 11 : stack'[i + 1].field = IntRegs[i]
      BY <2>4, <1>5
    <3>5. stack'[13].field = IntRegs[12]
      <4>1. IntRegs[12] = "err_code"
        BY DEF IntRegs
      <4>2. CASE m = 0
        BY <4>2, <3>1, <2>5, <1>5
      <4>3. CASE m = 1
        BY <4>1, <4>3, <3>3
      <4> QED BY <4>2, <4>3, <1>5
    <3>6. /\ stack'[14].field = IntRegs[13] /\ stack'[15].field = IntRegs[14]
          /\ stack'[16].field = IntRegs[15]
      BY <3>2, <1>7 DEF IntRegs
    <3> QED BY <3>4, <3>5, <3>6
  <2>7. ASSUME ~ (v \in 8 .. 14 \/ v \notin CpuErrorCodes)
        PROVE  \A i \in 1 .. 12 : stack'[i + 1].field = IntRegs[i]
    <3>1. n = 13
      BY <2>7 DEF n, ErrorCodeStubs
    <3> QED BY <3>1, <2>5
  <2> QED BY <2>2, <2>3, <2>6, <2>7 DEF HandlerFrame
<1>14. ASSUME v >= 32
       PROVE  /\ Len(stack') = 16 /\ stack'[11].value = resume'.eax
              /\ stack'[14].value = resume'.pc /\ stack'[16].value = resume'.interrupts
  <2>1. /\ Len(stack) = 3 /\ eax = resume.eax
        /\ stack[1].value = resume.pc /\ stack[3].value = resume.interrupts
    BY <1>1, <1>14 DEF Machine, Frames
  <2> QED BY <2>1, <1>2, <1>4, <1>6, <1>9, <1>14
<1>15. Frames'
  <2>1. Vector' # SyscallVector \/ Phase' # "return"
    BY <1>3, <1>10
  <2>2. Returned' = resume'.eax
    BY <2>1 DEF Returned
  <2>3. Phase' # "isr" => v >= 32
    BY <1>3, <1>10 DEF SyscallVector
  <2>4. Phase' \in {"isr", "irq", "syscall"} /\ Vector' = v
    BY <1>3, <1>10
  <2>5. Phase' # "thread" /\ Phase' # "stub" /\ Phase' # "return"
    BY <2>4
  <2>6. HandlerFrame(Vector)'
    BY <2>4, <1>13
  <2> HIDE DEF Phase, Vector
  <2> QED BY <2>2, <2>3, <2>5, <2>6, <1>14 DEF Frames, Handling
<1> QED BY <1>2, <1>11, <1>12, <1>15 DEF Machine

\* A return takes the frame off and leads to where the thread was.
LEMMA ReturnKeeps ==
  ASSUME Machine, Return
  PROVE  /\ Machine' /\ Phase = "return"
         /\ pc' = resume.pc /\ interrupts' = resume.interrupts /\ stack' = <<>>
         /\ eax' = Returned /\ resume' = resume
<1> DEFINE frame == SubSeq(stack, TakenOff + 1, Len(stack))
<1>1. /\ Phase = "return" /\ Handling /\ stack \in Seq(Words) /\ Len(stack) = 16
      /\ HandlerFrame(Vector) /\ stack[11].value = Returned
      /\ stack[14].value = resume.pc /\ stack[16].value = resume.interrupts
  BY DEF Machine, Types, Frames, Handling, Return
<1>2. Vector \in Vectors /\ (Vector \in 32 .. 47 \/ Vector = SyscallVector)
  BY <1>1, VectorSets DEF Machine, Types, Running
<1>3. stack[14].field = "eip" /\ stack[16].field = "eflags"
  <2>1. Vector \notin CpuErrorCodes
    BY <1>2, InterruptsAssumption DEF SyscallVector
  <2>2. \A i \in 1 .. 15 : stack[i + 1].field = IntRegs[i]
    BY <1>1, <2>1 DEF HandlerFrame
  <2>3. stack[14].field = IntRegs[13] /\ stack[16].field = IntRegs[15]
    BY <2>2
  <2> QED BY <2>3 DEF IntRegs
<1>4. /\ frame \in Seq(Words) /\ Len(frame) = 3
      /\ frame[1] = stack[14] /\ frame[3] = stack[16]
  <2>1. \A i \in 14 .. 16 : stack[i] \in Words
    <3>1. stack \in [1 .. 16 -> Words]
      BY <1>1, LenProperties
    <3> QED BY <3>1
  <2>2. frame = SubSeq(stack, 14, 16)
    BY <1>1 DEF TakenOff
  <2>3. /\ SubSeq(stack, 14, 16) \in Seq(Words) /\ Len(SubSeq(stack, 14, 16)) = 3
        /\ \A i \in 1 .. 3 : SubSeq(stack, 14, 16)[i] = stack[14 + i - 1]
    BY <2>1, SubSeqProperties
  <2>4. SubSeq(stack, 14, 16)[1] = stack[14] /\ SubSeq(stack, 14, 16)[3] = stack[16]
    <3> DEFINE f == SubSeq(stack, 14, 16)
    <3>1. \A i \in 1 .. 3 : f[i] = stack[14 + i - 1]
      BY <2>3
    <3> HIDE DEF f
    <3>2. f[1] = stack[14] /\ f[3] = stack[16]
      BY <3>1
    <3> QED BY <3>2 DEF f
  <2> HIDE DEF frame
  <2> QED BY <2>2, <2>3, <2>4
<1> HIDE DEF frame
<1>5. /\ pc' = frame[1].value /\ interrupts' = frame[3].value
      /\ stack' = SubSeq(frame, 4, Len(frame))
      /\ eax' = stack[11].value
      /\ UNCHANGED <<idt_entries, resume>>
  BY <1>1, <1>3, <1>4 DEF Return, frame, tables
<1>6. stack' = <<>>
  BY <1>4, <1>5, SubSeqEmpty
<1>7. /\ pc' = resume.pc /\ interrupts' = resume.interrupts /\ eax' = Returned
      /\ resume' = resume
  BY <1>1, <1>4, <1>5
<1>8. resume.pc \in ThreadPcs /\ resume.interrupts \in BOOLEAN /\ resume.eax \in Results
  BY DEF Machine, Types
<1>9. Phase' = "thread" /\ Vector' \in Stages /\ pc' = <<Phase', Vector'>>
  BY <1>7, <1>8 DEF Phase, Vector, ThreadPcs
<1>10. Types'
  <2>1. stack' \in Seq(Words) /\ Len(stack') = 0
    BY <1>6, EmptySeq
  <2>2. eax' \in Results
    BY <1>7, <1>8 DEF Returned, Results
  <2> QED BY <2>1, <2>2, <1>7, <1>8, <1>9, InterruptsAssumption
          DEF Machine, Types, Running
<1>11. Gates'
  <2>1. pc # <<"thread", "idt_init">> /\ Phase # "reset"
    BY <1>1 DEF Phase
  <2> QED BY <2>1, <1>5 DEF Machine, Gates
<1>12. Frames'
  BY <1>6, <1>9 DEF Frames, Handling
<1> QED BY <1>1, <1>6, <1>7, <1>10, <1>11, <1>12 DEF Machine

\* While a handler runs, its registers say which vector it is for.
LEMMA HandlerKnows ==
  ASSUME Machine, Handling \/ Phase = "isr"
  PROVE  /\ IntNo = Vector /\ Regs[10] = stack[11]
         /\ stack \in Seq(Words) /\ Len(stack) >= 16
<1>1. stack \in Seq(Words) /\ HandlerFrame(Vector)
  BY DEF Machine, Types, Frames
<1>2. Len(stack) >= 16 /\ stack[12].value = Vector /\ Len(stack) \in Nat
  BY <1>1, LenProperties DEF HandlerFrame
<1>3. Regs[11] = stack[12] /\ Regs[10] = stack[11]
  <2>1. 11 \in 1 .. Len(stack) - 1 /\ 10 \in 1 .. Len(stack) - 1
    BY <1>2
  <2> HIDE DEF Regs
  <2>2. Regs[11] = stack[11 + 1] /\ Regs[10] = stack[10 + 1]
    BY <1>1, <1>2, <2>1, RegsAre
  <2> QED BY <2>2
<1> QED BY <1>1, <1>2, <1>3 DEF IntNo

\* A handler goes on with its frame as it is, and returns nothing of its own.
LEMMA GoesOn ==
  ASSUME Machine, Handling, NEW phase \in {"eoi_second", "eoi_first", "return"},
         Goto(phase), stack' = stack,
         phase = "return" => Vector # SyscallVector \/ resume.eax \in Calls,
         Vector \in 32 .. 47 \/ phase = "return",
         phase = "eoi_second" => Vector \in 40 .. 47,
         Phase # "return"
  PROVE  Machine'
<1>1. /\ pc' = <<phase, Vector>> /\ UNCHANGED <<interrupts, eax, idt_entries, resume, stack>>
  BY DEF Goto, tables
<1>2. Phase' = phase /\ Vector' = Vector
  BY <1>1 DEF Phase, Vector
<1>3. Vector \in 32 .. 47 \/ Vector = SyscallVector
  BY DEF Machine, Types, Running, Handling
<1>4. /\ Types /\ Phase # "thread" /\ Gates
      /\ HandlerFrame(Vector) /\ Len(stack) = 16 /\ stack[11].value = resume.eax
      /\ stack[14].value = resume.pc /\ stack[16].value = resume.interrupts
  BY DEF Machine, Frames, Handling, Returned
<1>5. pc # <<"thread", "idt_init">> /\ Phase # "reset"
  BY DEF Phase, Handling
<1> HIDE DEF Phase, Vector
<1>6. Running'
  BY <1>1, <1>2, <1>3 DEF Running
<1>7. Types'
  BY <1>1, <1>2, <1>4, <1>6 DEF Types
<1>8. Gates'
  BY <1>1, <1>4, <1>5 DEF Gates
<1>9. HandlerFrame(Vector)' /\ Returned' = resume.eax
  BY <1>1, <1>2, <1>4 DEF HandlerFrame, Returned
<1>10. Frames'
  BY <1>1, <1>2, <1>4, <1>9 DEF Frames, Handling
<1> QED BY <1>7, <1>8, <1>10 DEF Machine

\* kernel_main's set-up goes from stage to stage with nothing on the stack.
LEMMA SetUpKeeps ==
  ASSUME Machine, idt_init \/ pit_init \/ keyboard_init \/ paging_init
  PROVE  Machine'
<1>1. /\ Phase = "thread" /\ pc' \in ThreadPcs /\ UNCHANGED <<stack, eax, resume>>
      /\ interrupts' \in BOOLEAN
      /\ \/ idt_entries' = [v \in Vectors |-> GateOf(238)]
         \/ idt_entries' = idt_entries /\ pc # <<"thread", "idt_init">>
  <2>1. interrupts \in BOOLEAN
    BY DEF Machine, Types
  <2>2. \A stage \in Stages : Stage(stage) => Phase = "thread"
    BY DEF Stage, Phase
  <2>3. \A stage \in Stages : <<"thread", stage>> \in ThreadPcs
    BY DEF ThreadPcs
  <2>4. {"idt_init", "pit_init", "keyboard_init", "paging_init", "run"} = Stages
    BY DEF Stages
  <2>5. CASE idt_init
    BY <2>2, <2>3, <2>4, <2>5 DEF idt_init
  <2>6. CASE pit_init
    BY <2>1, <2>2, <2>3, <2>4, <2>6 DEF pit_init, Stage
  <2>7. CASE keyboard_init
    BY <2>1, <2>2, <2>3, <2>4, <2>7 DEF keyboard_init, Stage
  <2>8. CASE paging_init
    BY <2>1, <2>2, <2>3, <2>4, <2>8 DEF paging_init, Stage
  <2> QED BY <2>5, <2>6, <2>7, <2>8
<1>2. Phase' = "thread" /\ Vector' \in Stages /\ pc' = <<Phase', Vector'>>
  BY <1>1 DEF Phase, Vector, ThreadPcs
<1>3. Types'
  BY <1>1, <1>2 DEF Machine, Types, Running
<1>4. Gates'
  <2>1. GateOf(238) = "interrupt"
    BY DEF GateOf
  <2> QED BY <1>1, <2>1 DEF Machine, Gates
<1>5. Frames'
  BY <1>1, <1>2 DEF Machine, Frames, Handling
<1> QED BY <1>3, <1>4, <1>5 DEF Machine

\* isr_handler stops the machine.
LEMMA isr_handlerKeeps ==
  ASSUME Machine, isr_handler
  PROVE  Machine' /\ Phase' = "halted"
<1>1. Phase = "isr" /\ Vector \in 0 .. 31
  BY DEF Machine, Types, Running, isr_handler
<1>2. IntNo = Vector
  BY <1>1, HandlerKnows
<1>3. pc' = <<"halted", Vector>> /\ UNCHANGED <<interrupts, eax, idt_entries, resume, stack>>
  BY <1>1, <1>2 DEF isr_handler, Goto, tables
<1>4. Phase' = "halted" /\ Vector' = Vector
  BY <1>3 DEF Phase, Vector
<1>5. pc # <<"thread", "idt_init">> /\ Phase # "reset"
  BY <1>1 DEF Phase
<1> HIDE DEF Phase, Vector
<1>6. Types'
  BY <1>1, <1>3, <1>4 DEF Machine, Types, Running
<1>7. Gates'
  BY <1>3, <1>5 DEF Machine, Gates
<1>8. Frames'
  BY <1>4 DEF Frames, Handling
<1> QED BY <1>4, <1>6, <1>7, <1>8 DEF Machine

\* A system call changes no word of its frame but the eax it returns.
LEMMA syscall_handlerKeeps ==
  ASSUME Machine, syscall_handler
  PROVE  Machine'
<1>1. Phase = "syscall" /\ Handling /\ Vector = SyscallVector
  BY DEF Machine, Types, Running, syscall_handler, Handling
<1>2. /\ stack \in Seq(Words) /\ Regs[10] = stack[11] /\ Len(stack) = 16
      /\ stack[11].value = resume.eax
  BY <1>1, HandlerKnows DEF Machine, Frames, Returned
<1>3. /\ Goto("return")
      /\ stack' = IF resume.eax \in Calls THEN stack
                  ELSE [stack EXCEPT ![11].value = -1]
  BY <1>1, <1>2 DEF syscall_handler
<1>4. CASE resume.eax \in Calls
  BY <1>1, <1>3, <1>4, GoesOn
<1>5. CASE resume.eax \notin Calls
  <2>1. /\ pc' = <<"return", Vector>> /\ UNCHANGED <<interrupts, eax, idt_entries, resume>>
        /\ stack' = [stack EXCEPT ![11].value = -1]
    BY <1>3, <1>5 DEF Goto, tables
  <2>2. Phase' = "return" /\ Vector' = Vector
    BY <2>1 DEF Phase, Vector
  <2>3. /\ stack' \in Seq(Words) /\ Len(stack') = 16
        /\ \A i \in 1 .. 16 : stack'[i].field = stack[i].field
        /\ \A i \in 1 .. 16 : i # 11 => stack'[i] = stack[i]
        /\ stack'[11].value = -1
    <3> DEFINE word == [stack[11] EXCEPT !.value = -1]
    <3>1. stack \in [1 .. 16 -> Words]
      BY <1>2, LenProperties
    <3>2. stack[11] \in Words
      BY <3>1
    <3>3. word \in Words /\ word.field = stack[11].field /\ word.value = -1
      BY <3>2 DEF Words
    <3>4. stack' = [stack EXCEPT ![11] = word]
      BY <2>1
    <3> HIDE DEF word
    <3>5. stack' \in Seq(Words) /\ Len(stack') = 16
      <4>1. stack' \in [1 .. 16 -> Words]
        BY <3>1, <3>3, <3>4
      <4> QED BY <4>1, AsSequence
    <3>6. \A i \in 1 .. 16 : stack'[i] = IF i = 11 THEN word ELSE stack[i]
      BY <3>1, <3>4
    <3>7. \A i \in 1 .. 16 : i # 11 => stack'[i] = stack[i]
      BY <3>6
    <3>8. stack'[11] = word
      BY <3>6
    <3> QED BY <3>3, <3>5, <3>7, <3>8
  <2>4. HandlerFrame(Vector)'
    <3>1. HandlerFrame(Vector)
      BY <1>1 DEF Machine, Frames
    <3> HIDE DEF Vector
    <3>2. /\ Len(stack') >= 16 /\ stack'[1].field = "regs" /\ stack'[12].value = Vector
      <4>1. stack'[1].field = stack[1].field /\ stack'[12] = stack[12]
        BY <2>3
      <4>2. stack[1].field = "regs" /\ stack[12].value = Vector
        BY <3>1 DEF HandlerFrame
      <4> QED BY <2>3, <4>1, <4>2
    <3>3. \A i \in 1 .. 15 : stack'[i + 1].field = stack[i + 1].field
      <4> SUFFICES ASSUME NEW i \in 1 .. 15
                   PROVE  stack'[i + 1].field = stack[i + 1].field
        OBVIOUS
      <4>1. i + 1 \in 1 .. 16
        OBVIOUS
      <4>2. \A j \in 1 .. 16 : stack'[j].field = stack[j].field
        BY <2>3
      <4> QED BY <4>1, <4>2
    <3>4. \A i \in 1 .. (IF Vector \in 8 .. 14 \/ Vector \notin CpuErrorCodes THEN 15 ELSE 12) :
             stack'[i + 1].field = IntRegs[i]
      <4> DEFINE k == IF Vector \in 8 .. 14 \/ Vector \notin CpuErrorCodes THEN 15 ELSE 12
      <4>1. \A i \in 1 .. k : stack[i + 1].field = IntRegs[i]
        BY <3>1 DEF HandlerFrame
      <4>2. k \in {12, 15}
        OBVIOUS
      <4> HIDE DEF k
      <4>3. \A i \in 1 .. k : stack'[i + 1].field = IntRegs[i]
        BY <3>3, <4>1, <4>2
      <4> QED BY <4>3 DEF k
    <3> QED BY <2>2, <3>2, <3>4 DEF HandlerFrame
  <2>5. pc # <<"thread", "idt_init">> /\ Phase # "reset"
    BY <1>1 DEF Phase
  <2>6. Returned' = -1
    BY <1>1, <1>5, <2>1, <2>2 DEF Returned
  <2>7. /\ stack'[14].value = resume.pc /\ stack'[16].value = resume.interrupts
    BY <1>1, <2>3 DEF Machine, Frames
  <2> HIDE DEF Phase, Vector
  <2>8. Types'
    BY <1>1, <1>2, <2>1, <2>2, <2>3 DEF Machine, Types, Running
  <2>9. Gates'
    BY <2>1, <2>5 DEF Machine, Gates
  <2>10. Frames'
    BY <2>1, <2>2, <2>3, <2>4, <2>6, <2>7 DEF Frames, Handling
  <2> QED BY <2>8, <2>9, <2>10 DEF Machine
<1> QED BY <1>4, <1>5

----------------------------------------------------------------------------
\* What the controllers and the keyboard's port hold.

\* In service is at most what a handler has still to end.
InService ==
  /\ requested \subseteq 0 .. 15 /\ in_service \subseteq 0 .. 15
  /\ Phase \in {"thread", "syscall", "return"} => in_service = {}
  /\ Phase = "stub" /\ Vector = SyscallVector => in_service = {}
  /\ Phase \in {"stub", "irq", "eoi_second"} /\ Vector \in 32 .. 47 =>
       in_service \subseteq {Vector - 32} \cup {l \in {2} : Vector >= 40}
  /\ Phase = "eoi_first" =>
       in_service \subseteq {IF Vector >= 40 THEN 2 ELSE Vector - 32}

\* Where the thread is, or was when it was interrupted.
At == IF Phase = "thread" THEN pc ELSE resume.pc

\* A byte in the port is announced; after the handler's read, by another request.
Announced ==
  /\ full \in BOOLEAN /\ unheard \in BOOLEAN /\ video \in BOOLEAN
  /\ irq_routines \in [0 .. 15 -> {"none", "on_irq0", "keyboard_handler"}]
  /\ At \in {<<"thread", "paging_init">>, <<"thread", "run">>} =>
       irq_routines[1] = "keyboard_handler"
  /\ full /\ ~Excepted => unheard \/ 1 \in requested \cup in_service
  /\ full /\ Phase \in {"eoi_second", "eoi_first"} => unheard \/ 1 \in requested

Inv == Machine /\ InService /\ Announced

LEMMA InvInit == Init => Inv
<1> SUFFICES ASSUME Init PROVE Inv
  OBVIOUS
<1>1. /\ pc = <<"thread", "idt_init">> /\ interrupts = FALSE /\ stack = <<>> /\ eax = 0
      /\ idt_entries = [v \in Vectors |-> "absent"]
      /\ resume = [pc |-> pc, interrupts |-> FALSE, eax |-> 0]
  BY DEF Init
<1>2. Phase = "thread" /\ Vector = "idt_init" /\ pc = <<Phase, Vector>>
  BY <1>1 DEF Phase, Vector
<1>3. stack \in Seq(Words) /\ Len(stack) = 0
  BY <1>1, EmptySeq
<1>4. Types
  <2>1. pc \in ThreadPcs /\ Vector \in Stages
    BY <1>1, <1>2 DEF ThreadPcs, Stages
  <2>2. eax \in Results
    BY <1>1 DEF Results
  <2>3. resume \in [pc : ThreadPcs, interrupts : BOOLEAN, eax : Results]
    BY <1>1, <2>1, <2>2
  <2>4. Running
    BY <1>2, <2>1 DEF Running
  <2>5. interrupts \in BOOLEAN /\ (Phase # "thread" => ~interrupts)
    BY <1>1
  <2>6. Len(stack) <= StackWords
    BY <1>3, InterruptsAssumption
  <2> QED BY <1>3, <2>2, <2>3, <2>4, <2>5, <2>6 DEF Types
<1>5. Gates
  BY <1>1 DEF Gates
<1>6. Frames
  BY <1>1, <1>2 DEF Frames, Handling
<1>7. InService
  BY <1>2 DEF Init, InService
<1>8. Announced
  <2>1. At = <<"thread", "idt_init">>
    BY <1>1, <1>2 DEF At
  <2>2. At \notin {<<"thread", "paging_init">>, <<"thread", "run">>}
    BY <2>1
  <2>3. ~ (Phase \in {"eoi_second", "eoi_first"})
    BY <1>2
  <2> HIDE DEF Phase
  <2> QED BY <2>2, <2>3 DEF Init, Announced
<1> QED BY <1>4, <1>5, <1>6, <1>7, <1>8 DEF Inv, Machine

\* An exception stops the machine for good, wherever it comes.
LEMMA ExceptionKeeps ==
  ASSUME Inv, NEW v \in 0 .. 31, RaiseException(v)
  PROVE  Inv' /\ Excepted' /\ ~interrupts'
<1>1. /\ Deliver(v, IF v \in CpuErrorCodes THEN <<Word("err_code", v)>> ELSE <<>>)
      /\ Remember(eax)
      /\ UNCHANGED <<eax, idt_entries, irq_routines, video, requested, in_service,
                     full, unheard>>
  BY DEF RaiseException, tables, controllers, keyboard
<1>2. v \in Vectors /\ v < 32 /\ eax \in Results /\ v # SyscallVector
  <2>1. v \in Vectors /\ v < 32 /\ v # SyscallVector
    BY VectorSets DEF SyscallVector
  <2> QED BY <2>1 DEF Inv, Machine, Types
<1>3. Machine' /\ pc' \in {<<"stub", v>>, <<"reset", v>>} /\ ~interrupts'
  BY <1>1, <1>2, DeliverKeeps DEF Inv
<1>4. Phase' \in {"stub", "reset"} /\ Vector' = v
  BY <1>3 DEF Phase, Vector
<1>5. Excepted'
  BY <1>2, <1>4 DEF Excepted
<1>6. InService'
  <2> HIDE DEF Phase, Vector
  <2> QED BY <1>1, <1>2, <1>4 DEF Inv, InService
<1>7. At' = At
  BY <1>1, <1>4 DEF At, Remember
<1>8. Announced'
  <2> HIDE DEF Phase, Vector
  <2> QED BY <1>1, <1>4, <1>5, <1>7 DEF Inv, Announced
<1> QED BY <1>3, <1>5, <1>6, <1>8 DEF Inv

\* Only the thread is interrupted; its interrupt is all there is in service.
LEMMA InterruptKeeps ==
  ASSUME Inv, NEW l \in 0 .. 15, interrupts, Deliver(32 + l, <<>>), Remember(eax),
         UNCHANGED <<eax, tables, keyboard>>,
         requested' \subseteq 0 .. 15, in_service' \subseteq {l} \cup {m \in {2} : l >= 8},
         1 \in requested \cup in_service => 1 \in requested' \cup in_service'
  PROVE  Inv' /\ pc' # pc /\ Phase = "thread"
<1> DEFINE v == 32 + l
<1>1. v \in 32 .. 47 /\ v \in Vectors /\ ~ (v < 32) /\ v # SyscallVector /\ v \notin CpuErrorCodes
  BY InterruptsAssumption DEF Vectors, SyscallVector
<1>2. Phase = "thread" /\ eax \in Results
  BY DEF Inv, Machine, Types
<1>3. Deliver(v, IF v \in CpuErrorCodes THEN <<Word("err_code", v)>> ELSE <<>>)
  <2>1. (IF v \in CpuErrorCodes THEN <<Word("err_code", v)>> ELSE <<>>) = <<>>
    BY <1>1
  <2> QED BY <2>1
<1>4. UNCHANGED <<eax, idt_entries, irq_routines, video, full, unheard>>
  BY DEF tables, keyboard
<1>5. v - 32 = l
  OBVIOUS
<1> HIDE DEF v
<1>6. Machine' /\ pc' \in {<<"stub", v>>, <<"reset", v>>}
  BY <1>1, <1>2, <1>3, <1>4, DeliverKeeps DEF Inv
<1>7. Phase' \in {"stub", "reset"} /\ Vector' = v
  BY <1>6 DEF Phase, Vector
<1>8. pc' # pc
  BY <1>2, <1>6 DEF Phase
<1>9. At' = At
  BY <1>2, <1>7 DEF At, Remember
<1>10. InService'
  <2>1. in_service' \subseteq 0 .. 15
    OBVIOUS
  <2>2. in_service' \subseteq {v - 32} \cup {m \in {2} : v >= 40}
    BY <1>5, <1>1 DEF v
  <2> HIDE DEF Phase, Vector
  <2> QED BY <1>1, <1>7, <2>1, <2>2 DEF InService
<1>11. Announced'
  <2>1. ~ (Phase' \in {"eoi_second", "eoi_first"})
    BY <1>7
  <2>2. full /\ ~Excepted => unheard \/ 1 \in requested \cup in_service
    BY DEF Inv, Announced
  <2>3. ~Excepted
    BY <1>2 DEF Excepted
  <2> HIDE DEF Phase, Vector, Excepted
  <2> QED BY <1>4, <1>9, <2>1, <2>2, <2>3 DEF Inv, Announced
<1> QED BY <1>2, <1>6, <1>8, <1>10, <1>11 DEF Inv

LEMMA AcceptKeeps ==
  ASSUME Inv, Accept
  PROVE  Inv' /\ pc' # pc /\ Phase = "thread"
<1>1. PICK l \in Presented : /\ requested' = requested \ {l}
                            /\ in_service' = in_service \cup {l} \cup {m \in {2} : l >= 8}
                            /\ Deliver(32 + l, <<>>)
  BY DEF Accept
<1>2. l \in requested /\ requested \subseteq 0 .. 15
  BY DEF Presented, Highest, Inv, InService
<1>3. interrupts /\ Remember(eax) /\ UNCHANGED <<eax, tables, keyboard>>
  BY DEF Accept
<1>4. in_service = {}
  BY <1>3 DEF Inv, Machine, Types, InService
<1> QED BY <1>1, <1>2, <1>3, <1>4, InterruptKeeps

LEMMA SpuriousKeeps ==
  ASSUME Inv, NEW l \in {7, 15}, Spurious(l)
  PROVE  Inv' /\ pc' # pc /\ Phase = "thread"
<1>1. /\ interrupts /\ Deliver(32 + l, <<>>) /\ Remember(eax) /\ in_service = {}
      /\ in_service' = {m \in {2} : l >= 8} /\ requested' = requested
      /\ UNCHANGED <<eax, tables, keyboard>>
  BY DEF Spurious
<1>2. requested \subseteq 0 .. 15 /\ l \in 0 .. 15
  BY DEF Inv, InService
<1> QED BY <1>1, <1>2, InterruptKeeps

LEMMA CallKeeps ==
  ASSUME Inv, syscall_dbg
  PROVE  Inv' /\ Phase = "thread"
<1> DEFINE v == SyscallVector
<1>1. PICK number \in CallNumbers : eax' = number /\ Remember(number)
  BY DEF syscall_dbg
<1>2. /\ Phase = "thread" /\ Deliver(v, <<>>)
      /\ UNCHANGED <<idt_entries, irq_routines, video, requested, in_service, full, unheard>>
  BY DEF syscall_dbg, Stage, Phase, tables, controllers, keyboard
<1>3. v \in Vectors /\ v >= 32 /\ ~ (v < 32) /\ v \notin CpuErrorCodes /\ v \notin 32 .. 47
  BY InterruptsAssumption DEF Vectors, SyscallVector
<1>4. Deliver(v, IF v \in CpuErrorCodes THEN <<Word("err_code", v)>> ELSE <<>>)
  <2>1. (IF v \in CpuErrorCodes THEN <<Word("err_code", v)>> ELSE <<>>) = <<>>
    BY <1>3
  <2> QED BY <1>2, <2>1
<1> HIDE DEF v
<1>5. Machine' /\ pc' \in {<<"stub", v>>, <<"reset", v>>}
  <2>1. number \in Results
    BY DEF Results
  <2> QED BY <1>1, <1>2, <1>3, <1>4, <2>1, DeliverKeeps DEF Inv
<1>6. Phase' \in {"stub", "reset"} /\ Vector' = v
  BY <1>5 DEF Phase, Vector
<1>7. At' = At
  BY <1>1, <1>2, <1>6 DEF At, Remember
<1>8. InService'
  <2> HIDE DEF Phase, Vector
  <2> QED BY <1>2, <1>3, <1>6 DEF Inv, InService
<1>9. Announced'
  <2>1. ~Excepted
    BY <1>2 DEF Excepted
  <2>2. ~ (Phase' \in {"eoi_second", "eoi_first"})
    BY <1>6
  <2> HIDE DEF Phase, Vector, Excepted
  <2> QED BY <1>2, <1>7, <2>1, <2>2 DEF Inv, Announced
<1> QED BY <1>2, <1>5, <1>8, <1>9 DEF Inv

LEMMA RequestKeeps ==
  ASSUME Inv, NEW l \in Devices, Request(l)
  PROVE  Inv' /\ ~Excepted /\ UNCHANGED <<pc, interrupts>>
<1>1. /\ ~Excepted /\ (l = 1 => ~full) /\ full' = (full \/ l = 1)
      /\ requested' = requested \cup {l}
      /\ UNCHANGED <<pc, interrupts, stack, eax, idt_entries, irq_routines, video,
                     in_service, resume, unheard>>
  BY DEF Request, tables
<1>2. l \in 0 .. 15
  BY InterruptsAssumption
<1>3. Phase' = Phase /\ Vector' = Vector /\ (Excepted' <=> Excepted) /\ At' = At
      /\ Returned' = Returned
  BY <1>1 DEF Phase, Vector, Excepted, At, Returned
<1>4. Machine'
  <2> HIDE DEF Phase, Vector
  <2> QED BY <1>1, <1>3 DEF Inv, Machine, Types, Running, Gates, Frames, Handling,
                            ProcessorFrame, HandlerFrame
<1>5. InService'
  <2> HIDE DEF Phase, Vector
  <2> QED BY <1>1, <1>2, <1>3 DEF Inv, InService
<1>6. Announced'
  <2> HIDE DEF Phase, Vector, Excepted, At
  <2> QED BY <1>1, <1>3 DEF Inv, Announced
<1> QED BY <1>1, <1>4, <1>5, <1>6 DEF Inv

\* The set-up requests nothing; the byte the PICs forget is unheard.
LEMMA SetUpStep ==
  ASSUME Inv, idt_init \/ pit_init \/ keyboard_init \/ paging_init
  PROVE  Inv' /\ Phase = "thread"
<1>1. Machine'
  BY SetUpKeeps DEF Inv
<1>2. Phase = "thread" /\ Phase' = "thread"
  BY DEF idt_init, pit_init, keyboard_init, paging_init, Stage, Phase
<1>3. At = pc /\ At' = pc'
  BY <1>2 DEF At
<1>4. ~ Excepted
  BY <1>2 DEF Excepted
<1>5. in_service = {} /\ requested \subseteq 0 .. 15
  BY <1>2 DEF Inv, InService
<1> DEFINE known == {"none", "on_irq0", "keyboard_handler"}
<1>6. /\ full \in BOOLEAN /\ unheard \in BOOLEAN /\ video \in BOOLEAN
      /\ irq_routines \in [0 .. 15 -> known]
      /\ full => unheard \/ 1 \in requested
      /\ pc \in {<<"thread", "paging_init">>, <<"thread", "run">>} =>
           irq_routines[1] = "keyboard_handler"
  BY <1>3, <1>4, <1>5 DEF Inv, Announced
<1>7. /\ in_service' = {} /\ requested' \subseteq 0 .. 15
      /\ full' \in BOOLEAN /\ unheard' \in BOOLEAN /\ video' \in BOOLEAN
      /\ irq_routines' \in [0 .. 15 -> known]
      /\ full' => unheard' \/ 1 \in requested'
      /\ pc' \in {<<"thread", "paging_init">>, <<"thread", "run">>} =>
           irq_routines'[1] = "keyboard_handler"
  <2>1. CASE idt_init
    BY <1>6, <2>1 DEF idt_init
  <2>2. CASE pit_init
    BY <1>5, <1>6, <2>2 DEF pit_init, irq_install_handler, controllers, keyboard
  <2>3. CASE keyboard_init
    BY <1>5, <1>6, <2>3 DEF keyboard_init, irq_install_handler, controllers, keyboard
  <2>4. CASE paging_init
    BY <1>5, <1>6, <2>4 DEF paging_init, Stage, controllers, keyboard
  <2> QED BY <2>1, <2>2, <2>3, <2>4
<1>8. InService'
  <2> HIDE DEF Phase, Vector
  <2> QED BY <1>2, <1>7 DEF InService
<1>9. Announced'
  <2> HIDE DEF Phase, Vector, Excepted, At
  <2> QED BY <1>2, <1>3, <1>7 DEF Announced
<1> QED BY <1>1, <1>2, <1>8, <1>9 DEF Inv

LEMMA StubStep ==
  ASSUME Inv, Stub
  PROVE  Inv' /\ Phase = "stub" /\ (Excepted => Excepted') /\ pc' # pc
<1>1. Machine' /\ pc' = <<HandlerOf(Vector), Vector>>
  BY StubKeeps DEF Inv
<1>2. Phase = "stub" /\ Vector \in Vectors
  BY DEF Stub, Inv, Machine, Types, Running
<1>3. UNCHANGED <<irq_routines, video, requested, in_service, resume, full, unheard>>
  BY DEF Stub, tables, controllers, keyboard
<1>4. Phase' = HandlerOf(Vector) /\ Vector' = Vector
  BY <1>1 DEF Phase, Vector
<1>5. /\ Vector < 32 => Phase' = "isr"
      /\ ~ (Vector < 32) /\ Vector # SyscallVector => Phase' = "irq" /\ Vector \in 32 .. 47
      /\ ~ (Vector < 32) /\ Vector = SyscallVector => Phase' = "syscall"
  <2> HIDE DEF Vector
  <2>1. Vector \in Nat
    BY <1>2, VectorSets
  <2> QED BY <1>2, <1>4, <2>1, VectorSets DEF HandlerOf
<1>6. At' = At
  BY <1>2, <1>3, <1>4, <1>5 DEF At
<1>7. Excepted' <=> Excepted
  BY <1>2, <1>4, <1>5 DEF Excepted
<1>8. InService'
  <2> HIDE DEF Phase, Vector
  <2> QED BY <1>2, <1>3, <1>4, <1>5 DEF Inv, InService
<1>9. Announced'
  <2>1. ~ (Phase' \in {"eoi_second", "eoi_first"})
    BY <1>5
  <2> HIDE DEF Phase, Vector, Excepted, At
  <2> QED BY <1>3, <1>6, <1>7, <2>1 DEF Inv, Announced
<1>10. pc' # pc
  <2>1. Phase' # Phase
    BY <1>2, <1>4, <1>5
  <2> QED BY <2>1 DEF Phase
<1> QED BY <1>1, <1>2, <1>7, <1>8, <1>9, <1>10 DEF Inv

LEMMA ReturnStep ==
  ASSUME Inv, Return
  PROVE  Inv'
<1>1. /\ Machine' /\ Phase = "return" /\ pc' = resume.pc /\ resume' = resume
  BY ReturnKeeps DEF Inv
<1>2. UNCHANGED <<irq_routines, video, requested, in_service, full, unheard>>
  BY DEF Return, tables, controllers, keyboard
<1>3. Phase' = "thread"
  BY <1>1 DEF Inv, Machine, Types, ThreadPcs, Phase
<1>4. At' = At
  BY <1>1, <1>3 DEF At
<1>5. ~Excepted
  BY <1>1 DEF Excepted
<1>6. InService'
  <2> HIDE DEF Phase, Vector
  <2> QED BY <1>1, <1>2, <1>3 DEF Inv, InService
<1>7. Announced'
  <2> HIDE DEF Phase, Vector, Excepted, At
  <2> QED BY <1>2, <1>3, <1>4, <1>5 DEF Inv, Announced
<1> QED BY <1>1, <1>6, <1>7 DEF Inv

LEMMA isr_handlerStep ==
  ASSUME Inv, isr_handler
  PROVE  Inv' /\ Excepted'
<1>1. Machine' /\ Phase' = "halted"
  BY isr_handlerKeeps DEF Inv
<1>2. Phase = "isr" /\ UNCHANGED <<irq_routines, video, resume, requested, in_service, full, unheard>>
  BY DEF isr_handler, Goto, tables, controllers, keyboard
<1>3. At' = At /\ Excepted'
  BY <1>1, <1>2 DEF At, Excepted
<1>4. InService'
  <2> HIDE DEF Phase, Vector
  <2> QED BY <1>1, <1>2 DEF Inv, InService
<1>5. Announced'
  <2> HIDE DEF Phase, Vector, Excepted, At
  <2> QED BY <1>1, <1>2, <1>3 DEF Inv, Announced
<1> QED BY <1>1, <1>3, <1>4, <1>5 DEF Inv

LEMMA syscall_handlerStep ==
  ASSUME Inv, syscall_handler
  PROVE  Inv' /\ Phase = "syscall"
<1>1. Machine'
  BY syscall_handlerKeeps DEF Inv
<1>2. /\ Phase = "syscall" /\ pc' = <<"return", Vector>>
      /\ UNCHANGED <<irq_routines, video, resume, requested, in_service, full, unheard>>
  BY DEF syscall_handler, Goto, tables, controllers, keyboard
<1>3. Phase' = "return" /\ Vector' = Vector
  BY <1>2 DEF Phase, Vector
<1>4. At' = At /\ ~Excepted
  BY <1>2, <1>3 DEF At, Excepted
<1>5. InService'
  <2> HIDE DEF Phase, Vector
  <2> QED BY <1>2, <1>3 DEF Inv, InService
<1>6. Announced'
  <2> HIDE DEF Phase, Vector, Excepted, At
  <2> QED BY <1>2, <1>3, <1>4 DEF Inv, Announced
<1> QED BY <1>1, <1>2, <1>5, <1>6 DEF Inv

\* irq_handler: the byte is read, or its interrupt came to nobody.
LEMMA irq_handlerStep ==
  ASSUME Inv, irq_handler
  PROVE  Inv' /\ Phase = "irq"
<1>1. Phase = "irq" /\ Handling /\ Vector \in 32 .. 47 /\ IntNo = Vector
  <2>1. Phase = "irq" /\ Handling
    BY DEF irq_handler, Handling
  <2> QED BY <2>1, HandlerKnows DEF Inv, Machine, Types, Running
<1>2. PICK input \in {FALSE, resume.pc = <<"thread", "run">>} :
        /\ full' = (full /\ ~(input /\ irq_routines[Vector - 32] = "keyboard_handler"))
        /\ unheard' = (full' /\ (unheard \/ (Vector = 33 /\ ~input)))
  BY <1>1 DEF irq_handler
<1>3. /\ Goto(IF OnSecond(Vector) THEN "eoi_second" ELSE "eoi_first")
      /\ UNCHANGED <<stack, requested, in_service, irq_routines, video, resume>>
  BY <1>1 DEF irq_handler, controllers, Goto, tables
<1> DEFINE phase == IF Vector >= 40 THEN "eoi_second" ELSE "eoi_first"
<1>4. Goto(phase) /\ phase \in {"eoi_second", "eoi_first"}
      /\ (phase = "eoi_second" => Vector \in 40 .. 47)
  BY <1>1, <1>3 DEF OnSecond
<1>5. Phase' = phase /\ Vector' = Vector
  BY <1>4 DEF Goto, Phase, Vector
<1>6. Machine'
  <2> HIDE DEF phase
  <2> QED BY <1>1, <1>3, <1>4, GoesOn DEF Inv
<1>7. At' = At /\ At = resume.pc /\ ~Excepted
  BY <1>1, <1>3, <1>5 DEF At, Excepted
<1>8. InService'
  <2>1. in_service \subseteq {Vector - 32} \cup {l \in {2} : Vector >= 40}
    BY <1>1 DEF Inv, InService
  <2>2. requested \subseteq 0 .. 15 /\ in_service \subseteq 0 .. 15
    BY DEF Inv, InService
  <2>3. CASE Vector >= 40
    <3> HIDE DEF Phase, Vector
    <3> QED BY <1>1, <1>3, <1>5, <2>1, <2>2, <2>3 DEF InService
  <2>4. CASE ~ (Vector >= 40)
    <3> HIDE DEF Phase, Vector
    <3> QED BY <1>1, <1>3, <1>5, <2>1, <2>2, <2>4 DEF InService
  <2> QED BY <2>3, <2>4
<1>9. full' => unheard' \/ 1 \in requested'
  <2> SUFFICES ASSUME full', ~unheard' PROVE 1 \in requested
    BY <1>3
  <2>1. full /\ ~unheard /\ ~ (Vector = 33 /\ ~input)
    BY <1>2 DEF Inv, Announced
  <2>2. 1 \in requested \cup in_service
    BY <1>7, <2>1 DEF Inv, Announced
  <2>3. CASE Vector = 33
    <3>1. input = TRUE /\ resume.pc = <<"thread", "run">>
      BY <2>1, <2>3
    <3>2. irq_routines[1] = "keyboard_handler"
      BY <1>7, <3>1 DEF Inv, Announced
    <3>3. Vector - 32 = 1
      BY <2>3
    <3>4. input /\ irq_routines[Vector - 32] = "keyboard_handler"
      BY <3>1, <3>2, <3>3
    <3> QED BY <1>2, <3>4, Zenon
  <2>4. CASE Vector # 33
    <3>1. in_service \subseteq {Vector - 32} \cup {l \in {2} : Vector >= 40}
      BY <1>1 DEF Inv, InService
    <3>2. 1 \notin in_service
      BY <1>1, <2>4, <3>1
    <3> QED BY <2>2, <3>2
  <2> QED BY <2>3, <2>4
<1>10. Announced'
  <2>1. full' \in BOOLEAN /\ unheard' \in BOOLEAN
    BY <1>2 DEF Inv, Announced
  <2> HIDE DEF Phase, Vector, Excepted, At
  <2> QED BY <1>3, <1>7, <1>9, <2>1 DEF Inv, Announced
<1> QED BY <1>1, <1>6, <1>8, <1>10 DEF Inv

\* The end of interrupt takes off what the handler's line put into service.
LEMMA EndSecondStep ==
  ASSUME Inv, EndSecond
  PROVE  Inv' /\ Phase = "eoi_second"
<1>1. Phase = "eoi_second" /\ Handling /\ Vector \in 40 .. 47
  BY DEF EndSecond, Handling, Inv, Machine, Types, Running
<1>2. /\ Goto("eoi_first") /\ EndOfInterrupt(8 .. 15)
      /\ UNCHANGED <<stack, requested, full, unheard, irq_routines, video, resume>>
  BY DEF EndSecond, Goto, tables, keyboard
<1>3. Phase' = "eoi_first" /\ Vector' = Vector
  BY <1>2 DEF Goto, Phase, Vector
<1>4. Machine'
  <2>1. Vector \in 32 .. 47 /\ Phase # "return"
    BY <1>1
  <2> QED BY <1>1, <1>2, <2>1, GoesOn DEF Inv
<1>5. At' = At /\ ~Excepted
  BY <1>1, <1>2, <1>3 DEF At, Excepted
<1>6. in_service' \subseteq {2} /\ in_service' \subseteq in_service
  <2>1. in_service \subseteq {Vector - 32} \cup {2}
    BY <1>1 DEF Inv, InService
  <2>2. \A l \in in_service \cap 8 .. 15 : l = Vector - 32
    BY <2>1
  <2>3. \A l \in in_service \cap 8 .. 15 : l \in Highest(in_service \cap 8 .. 15)
    <3> SUFFICES ASSUME NEW l \in in_service \cap 8 .. 15, NEW k \in in_service \cap 8 .. 15
                 PROVE  Rank(l) <= Rank(k)
      BY DEF Highest
    <3>1. l = k /\ l \in 8 .. 15
      BY <2>2
    <3> QED BY <3>1 DEF Rank
  <2>4. in_service' = in_service \ Highest(in_service \cap 8 .. 15)
    BY <1>2 DEF EndOfInterrupt
  <2>5. Vector - 32 \in 8 .. 15
    BY <1>1
  <2> HIDE DEF Vector
  <2> QED BY <2>1, <2>3, <2>4, <2>5
<1>7. InService'
  <2>1. requested \subseteq 0 .. 15 /\ in_service \subseteq 0 .. 15
    BY DEF Inv, InService
  <2> HIDE DEF Phase, Vector
  <2> QED BY <1>1, <1>2, <1>3, <1>6, <2>1 DEF InService
<1>8. Announced'
  <2>1. full' => unheard' \/ 1 \in requested'
    BY <1>1, <1>2 DEF Inv, Announced
  <2> HIDE DEF Phase, Vector, Excepted, At
  <2> QED BY <1>2, <1>5, <2>1 DEF Inv, Announced
<1> QED BY <1>1, <1>4, <1>7, <1>8 DEF Inv

LEMMA EndFirstStep ==
  ASSUME Inv, EndFirst
  PROVE  Inv' /\ Phase = "eoi_first"
<1>1. Phase = "eoi_first" /\ Handling /\ Vector \in 32 .. 47
  BY DEF EndFirst, Handling, Inv, Machine, Types, Running
<1>2. /\ Goto("return") /\ EndOfInterrupt(0 .. 7)
      /\ UNCHANGED <<stack, requested, full, unheard, irq_routines, video, resume>>
  BY DEF EndFirst, Goto, tables, keyboard
<1>3. Phase' = "return" /\ Vector' = Vector
  BY <1>2 DEF Goto, Phase, Vector
<1>4. Machine'
  <2>1. Vector # SyscallVector /\ Phase # "return"
    BY <1>1 DEF SyscallVector
  <2> QED BY <1>1, <1>2, <2>1, GoesOn DEF Inv
<1>5. At' = At /\ ~Excepted
  BY <1>1, <1>2, <1>3 DEF At, Excepted
<1>6. in_service' = {}
  <2> DEFINE line == IF Vector >= 40 THEN 2 ELSE Vector - 32
  <2>1. in_service \subseteq {line} /\ line \in 0 .. 7
    BY <1>1 DEF Inv, InService
  <2>2. in_service' = in_service \ Highest(in_service \cap 0 .. 7)
    BY <1>2 DEF EndOfInterrupt
  <2> HIDE DEF line
  <2>3. line \in in_service => line \in Highest(in_service \cap 0 .. 7)
    <3> SUFFICES ASSUME line \in in_service, NEW k \in in_service \cap 0 .. 7
                 PROVE  Rank(line) <= Rank(k)
      BY <2>1 DEF Highest
    <3>1. line = k
      BY <2>1
    <3> QED BY <2>1, <3>1 DEF Rank
  <2> QED BY <2>1, <2>2, <2>3
<1>7. InService'
  <2>1. requested \subseteq 0 .. 15
    BY DEF Inv, InService
  <2> HIDE DEF Phase, Vector
  <2> QED BY <1>1, <1>2, <1>3, <1>6, <2>1 DEF InService
<1>8. Announced'
  <2>1. full' => unheard' \/ 1 \in requested'
    BY <1>1, <1>2 DEF Inv, Announced
  <2>2. ~ (Phase' \in {"eoi_second", "eoi_first"})
    BY <1>3
  <2> HIDE DEF Phase, Vector, Excepted, At
  <2> QED BY <1>2, <1>5, <2>1, <2>2 DEF Inv, Announced
<1> QED BY <1>1, <1>4, <1>7, <1>8 DEF Inv

LEMMA StepKeeps == Inv /\ [Next]_vars => Inv'
<1> SUFFICES ASSUME Inv, [Next]_vars PROVE Inv'
  OBVIOUS
<1>1. CASE idt_init \/ pit_init \/ keyboard_init \/ paging_init
  BY <1>1, SetUpStep
<1>2. CASE Stub
  BY <1>2, StubStep
<1>3. CASE Return
  BY <1>3, ReturnStep
<1>4. CASE isr_handler
  BY <1>4, isr_handlerStep
<1>5. CASE syscall_handler
  BY <1>5, syscall_handlerStep
<1>6. CASE PrintFaults
  BY <1>6, ExceptionKeeps DEF PrintFaults
<1>7. CASE irq_handler
  BY <1>7, irq_handlerStep
<1>8. CASE EndSecond
  BY <1>8, EndSecondStep
<1>9. CASE EndFirst
  BY <1>9, EndFirstStep
<1>10. CASE syscall_dbg
  BY <1>10, CallKeeps
<1>11. CASE Accept
  BY <1>11, AcceptKeeps
<1>12. ASSUME NEW v \in Faults, Fault(v) PROVE Inv'
  BY <1>12, ExceptionKeeps, InterruptsAssumption DEF Fault
<1>13. ASSUME NEW l \in Devices, Request(l) PROVE Inv'
  BY <1>13, RequestKeeps
<1>14. ASSUME NEW l \in {7, 15}, Spurious(l) PROVE Inv'
  BY <1>14, SpuriousKeeps
<1>15. CASE UNCHANGED vars
  <2>1. UNCHANGED <<pc, interrupts, stack, eax, idt_entries, irq_routines, requested,
                    in_service, video, full, resume, unheard>>
    BY <1>15 DEF vars
  <2>2. Phase' = Phase /\ Vector' = Vector /\ (Excepted' <=> Excepted) /\ At' = At
        /\ Returned' = Returned
    BY <2>1 DEF Phase, Vector, Excepted, At, Returned
  <2> HIDE DEF Phase, Vector, Excepted, At, Returned
  <2>3. Machine'
    BY <2>1, <2>2 DEF Inv, Machine, Types, Running, Gates, Frames, Handling,
                      ProcessorFrame, HandlerFrame
  <2>4. InService' /\ Announced'
    BY <2>1, <2>2 DEF Inv, InService, Announced
  <2> QED BY <2>3, <2>4 DEF Inv
<1> QED BY <1>1, <1>2, <1>3, <1>4, <1>5, <1>6, <1>7, <1>8, <1>9, <1>10, <1>11, <1>12,
           <1>13, <1>14, <1>15 DEF Next, Code, Spin

THEOREM Invariance == Spec => []Inv
BY InvInit, StepKeeps, PTL DEF Spec

----------------------------------------------------------------------------
\* The theorems.

\* Handlers find the fields of struct int_regs where they look for them, and no
\* interrupt has another one's frame below its own (idt_s.asm:8-67).
THEOREM FramesFit == Spec => []HandlersReadTheirFrame
<1>1. ASSUME Inv PROVE HandlersReadTheirFrame
  <2>1. Types /\ Frames /\ InService /\ Announced
    BY <1>1 DEF Inv, Machine
  <2>2. TypeOK
    <3>1. Phase \in {"thread", "stub", "isr", "syscall", "irq", "eoi_second",
                     "eoi_first", "return", "halted", "reset"}
      <4> HIDE DEF Phase, Vector
      <4> QED BY <2>1 DEF Types, Running
    <3>2. \A i \in DOMAIN stack : stack[i].field \in {"regs"} \cup Range(IntRegs)
      <4>1. stack \in [1 .. Len(stack) -> Words] /\ DOMAIN stack = 1 .. Len(stack)
        BY <2>1, LenProperties DEF Types
      <4>2. \A i \in DOMAIN stack : stack[i] \in Words
        BY <4>1
      <4> QED BY <4>2, IntRegsFields DEF Words
    <3> HIDE DEF Phase
    <3> QED BY <2>1, <3>1, <3>2 DEF Types, InService, Announced, Results, TypeOK
  <2>3. Unnested
    <3>1. Len(<<>>) = 0 /\ FrameWords = 16
      BY IntRegsFields
    <3>2. Phase \in {"syscall", "irq", "eoi_second", "eoi_first", "return"} => Handling
      BY DEF Handling
    <3> HIDE DEF Phase, Vector
    <3> QED BY <2>1, <3>1, <3>2 DEF Frames, Unnested
  <2>4. ASSUME Phase \in {"isr", "syscall", "irq", "eoi_second", "eoi_first"}
        PROVE  LET known == Vector \in 8 .. 14 \/ Vector \notin CpuErrorCodes
                   fields == IF known THEN Len(IntRegs) ELSE 12
               IN  /\ Len(Regs) >= Len(IntRegs)
                   /\ \A i \in 1 .. fields : Regs[i].field = IntRegs[i]
                   /\ IntNo = Vector
    <3> DEFINE k == IF Vector \in 8 .. 14 \/ Vector \notin CpuErrorCodes THEN 15 ELSE 12
    <3>1. Handling \/ Phase = "isr"
      BY <2>4 DEF Handling
    <3>2. HandlerFrame(Vector)
      BY <2>1, <3>1 DEF Frames
    <3>3. IntNo = Vector /\ stack \in Seq(Words) /\ Len(stack) >= 16
      BY <1>1, <3>1, HandlerKnows DEF Inv
    <3>4. Len(stack) \in Nat /\ Len(Regs) = Len(stack) - 1
      BY <3>3, LenProperties, EmptySeq, HeadTailProperties DEF Regs
    <3>5. \A i \in 1 .. Len(stack) - 1 : Regs[i] = stack[i + 1]
      BY <3>3, RegsAre
    <3>6. \A i \in 1 .. k : stack[i + 1].field = IntRegs[i]
      BY <3>2 DEF HandlerFrame
    <3>7. k \in {12, 15}
      OBVIOUS
    <3>8. Len(IntRegs) = 15
      BY IntRegsFields
    <3> HIDE DEF k, Regs
    <3>9. \A i \in 1 .. k : Regs[i].field = IntRegs[i]
      BY <3>3, <3>4, <3>5, <3>6, <3>7
    <3>10. Len(Regs) >= 15
      BY <3>3, <3>4
    <3> QED BY <3>3, <3>8, <3>9, <3>10 DEF k
  <2> QED BY <2>2, <2>3, <2>4 DEF HandlersReadTheirFrame
<1> QED BY <1>1, Invariance, PTL

\* The controllers have in service what the code is about to end, and nothing
\* while the thread runs (idt.c:160-163).
THEOREM ControllersInStep == Spec => []ServiceMatches
<1>1. ASSUME Inv PROVE ServiceMatches
  <2>1. Running /\ InService
    BY <1>1 DEF Inv, Machine, Types
  <2>2. Phase \in {"irq", "eoi_second", "eoi_first"} => Vector \in 32 .. 47
    <3> HIDE DEF Phase, Vector
    <3> QED BY <2>1 DEF Running
  <2> HIDE DEF Phase, Vector
  <2> QED BY <2>1, <2>2 DEF InService, ServiceMatches
<1> QED BY <1>1, Invariance, PTL

\* A byte in the port is announced by an interrupt still to come, or was when
\* nobody waited (idt.c:155-159, keyboard.c:103-112).
THEOREM NoByteUnannounced == Spec => []KeyboardHeard
<1>1. Inv => KeyboardHeard
  BY DEF Inv, Announced, KeyboardHeard
<1> QED BY <1>1, Invariance, PTL

\* The thread goes on where it was interrupted, with what it had; nothing goes
\* on after an exception (idt_s.asm:115-142, idt.c:131-137).
THEOREM Transparent == Spec => ResumesWhereLeft
<1> DEFINE Resumes ==
      /\ Phase = "return" /\ pc' # pc /\ ~Excepted' =>
           /\ pc' = resume.pc /\ interrupts' = resume.interrupts /\ stack' = <<>>
           /\ eax' = IF Vector = SyscallVector /\ resume.eax \notin Calls
                     THEN -1 ELSE resume.eax
      /\ Excepted => Excepted' /\ ~interrupts'
<1>1. ASSUME Inv, [Next]_vars PROVE [Resumes]_vars
  <2>0. Excepted => Phase # "thread" /\ ~interrupts
    BY <1>1 DEF Excepted, Inv, Machine, Types
  <2>1. CASE idt_init \/ pit_init \/ keyboard_init \/ paging_init
    BY <1>1, <2>0, <2>1, SetUpStep
  <2>2. CASE Stub
    BY <1>1, <2>2, StubStep DEF Stub
  <2>3. CASE Return
    <3>1. /\ Phase = "return" /\ pc' = resume.pc /\ interrupts' = resume.interrupts
          /\ stack' = <<>> /\ eax' = Returned
      BY <1>1, <2>3, ReturnKeeps DEF Inv
    <3>2. ~Excepted
      BY <3>1 DEF Excepted
    <3> QED BY <3>1, <3>2 DEF Returned
  <2>4. CASE isr_handler
    <3>1. Phase # "return" /\ Excepted' /\ interrupts' = interrupts
      BY <1>1, <2>4, isr_handlerStep DEF isr_handler, Goto
    <3> QED BY <2>0, <3>1
  <2>5. CASE syscall_handler \/ irq_handler \/ EndSecond \/ EndFirst
    <3>1. Phase \in {"syscall", "irq", "eoi_second", "eoi_first"}
      BY <2>5 DEF syscall_handler, irq_handler, EndSecond, EndFirst
    <3>2. ~Excepted
      BY <3>1 DEF Excepted
    <3> QED BY <3>1, <3>2
  <2>6. ASSUME NEW v \in 0 .. 31, RaiseException(v) PROVE Resumes
    BY <1>1, <2>6, ExceptionKeeps
  <2>7. CASE syscall_dbg \/ Accept \/ \E l \in {7, 15} : Spurious(l)
    <3>1. Phase = "thread"
      BY <1>1, <2>7, CallKeeps, AcceptKeeps, SpuriousKeeps
    <3> QED BY <2>0, <3>1
  <2>8. ASSUME NEW l \in Devices, Request(l) PROVE Resumes
    BY <1>1, <2>8, RequestKeeps
  <2>9. CASE UNCHANGED vars
    BY <2>9
  <2>10. CASE PrintFaults
    BY <2>6, <2>10 DEF PrintFaults
  <2>11. ASSUME NEW v \in Faults, Fault(v) PROVE Resumes
    BY <2>6, <2>11, InterruptsAssumption DEF Fault
  <2> HIDE DEF Resumes
  <2> QED BY <1>1, <2>1, <2>2, <2>3, <2>4, <2>5, <2>7, <2>8, <2>9, <2>10, <2>11
          DEF Next, Code, Spin
<1> QED BY <1>1, Invariance, PTL DEF Spec, ResumesWhereLeft
=============================================================================
