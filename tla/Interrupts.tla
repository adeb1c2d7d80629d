----------------------------- MODULE Interrupts -----------------------------
(***************************************************************************)
(* Interrupts: the gates and controllers idt_init sets up, the stubs of    *)
(* idt_s.asm and syscall_handler_s.asm that build and take down a struct   *)
(* int_regs on the stack, and the handlers they call, on one processor     *)
(* with two cascaded 8259 controllers, while requests, faults and NMIs     *)
(* come at any moment.                                                     *)
(*                                                                         *)
(* A word of the stack is the field it was pushed as and its value; only   *)
(* the values of eax, int_no, eip and eflags matter.  What the routines    *)
(* do with their devices is left out (Console has the keyboard's), and so  *)
(* are the call's return address and the stack of other functions: kernel  *)
(* code is one step between two interrupts.  There is no user mode, so the *)
(* processor never pushes useresp and ss.                                  *)
(***************************************************************************)
EXTENDS Integers, Sequences, Functions

CONSTANTS
  Devices,        \* the lines that raise requests, of 0 .. 15
  Faults,         \* the exceptions the kernel's code may raise, of 0 .. 31
  CpuErrorCodes,  \* exceptions for which the processor pushes an error code
  CallNumbers,    \* what the thread has in eax when it does int 0x80
  StackWords      \* bound: the words the stack has room for

ASSUME InterruptsAssumption ==
  /\ Devices \subseteq 0 .. 15
  /\ Faults \subseteq 0 .. 31
  /\ CpuErrorCodes \subseteq 0 .. 31
  /\ CpuErrorCodes \cap 8 .. 14 = {8, 10, 11, 12, 13, 14}
  /\ StackWords \in Nat

SyscallVector == 128
Vectors == 0 .. 47 \cup {SyscallVector}

VARIABLES
  pc,            \* what runs: <<phase, vector or stage of kernel_main>>
  interrupts,    \* the interrupt flag
  stack,         \* words, the last pushed first
  eax,
  idt_entries,   \* vector |-> the kind of its gate
  irq_routines,  \* line |-> the routine installed
  requested,     \* lines with a request, in both controllers
  in_service,    \* lines in service, in both controllers
  video,         \* vga_buffer is mapped
  full,          \* a scan code waits in port 0x60
  \* Ghosts.
  resume,        \* where the thread was interrupted, and with what
  unheard        \* the scan code's request came while nobody waited for input

vars == <<pc, interrupts, stack, eax, idt_entries, irq_routines, requested,
          in_service, video, full, resume, unheard>>
controllers == <<requested, in_service>>
tables == <<idt_entries, irq_routines, video>>
keyboard == <<full, unheard>>

Word(field, value) == [field |-> field, value |-> value]

\* struct int_regs, the lowest address first.
IntRegs == <<"cr2", "ds", "edi", "esi", "ebp", "esp", "ebx", "edx", "ecx", "eax",
             "int_no", "err_code", "eip", "csm", "eflags">>
FrameWords == Len(IntRegs) + 1

Phase == pc[1]
Vector == pc[2]
Stage(s) == pc = <<"thread", s>>
Excepted ==
  \/ Phase \in {"isr", "halted", "reset", "wild"}
  \/ Phase = "stub" /\ Vector < 32
Stopped == Phase \in {"halted", "reset", "wild"}

Init ==
  /\ pc = <<"thread", "idt_init">>
  /\ interrupts = FALSE /\ stack = <<>> /\ eax = 0
  /\ idt_entries = [v \in Vectors |-> "absent"]
  /\ irq_routines = [l \in 0 .. 15 |-> "none"]
  /\ full \in BOOLEAN /\ unheard = FALSE
  /\ requested = {l \in {1} : full} /\ in_service = {}
  /\ video = TRUE
  /\ resume = [pc |-> pc, interrupts |-> FALSE, eax |-> 0]

----------------------------------------------------------------------------
\* The thread: kernel_main's calls that touch interrupts, and system calls.

\* Of the flags 0x8E | 0x60, the type: 0xE closes the interrupt flag.
GateOf(flags) == IF flags % 16 = 14 THEN "interrupt" ELSE "trap"

\* Nothing interrupts this: the flag is set last, by idt_flush.
idt_init ==
  /\ Stage("idt_init")
  /\ idt_entries' = [v \in Vectors |-> GateOf(238)]
  /\ requested' = {} /\ in_service' = {}   \* ICW1 to both controllers
  /\ unheard' = full
  /\ interrupts' = TRUE
  /\ pc' = <<"thread", "pit_init">>
  /\ UNCHANGED <<stack, eax, irq_routines, video, full, resume>>

\* Slip: lines counted from 1.
irq_install_handler_FromOne(line, routine) ==
  irq_routines' = [irq_routines EXCEPT ![line + 1] = routine]

irq_install_handler(line, routine) ==
  irq_routines' = [irq_routines EXCEPT ![line] = routine]

pit_init ==
  /\ Stage("pit_init")
  /\ irq_install_handler(0, "on_irq0")
  /\ pc' = <<"thread", "keyboard_init">>
  /\ UNCHANGED <<interrupts, stack, eax, idt_entries, controllers, video, resume,
                 keyboard>>

keyboard_init ==
  /\ Stage("keyboard_init")
  /\ irq_install_handler(1, "keyboard_handler")
  /\ pc' = <<"thread", "paging_init">>
  /\ UNCHANGED <<interrupts, stack, eax, idt_entries, controllers, video, resume,
                 keyboard>>

\* Boot shows that the page of vga_buffer is lost; both cases are kept.
paging_init ==
  /\ Stage("paging_init")
  /\ video' \in BOOLEAN
  /\ pc' = <<"thread", "run">>
  /\ UNCHANGED <<interrupts, stack, eax, idt_entries, irq_routines, controllers, resume,
                 keyboard>>

----------------------------------------------------------------------------
\* The processor (external): it pushes a frame and goes through the gate.

Push(words) == stack' = words \o stack

Remember(number) ==
  resume' = IF Phase = "thread"
            THEN [pc |-> pc, interrupts |-> interrupts, eax |-> number]
            ELSE resume

\* With no room for a frame the pushes end in unmapped memory: a triple fault.
Deliver(v, codes) ==
  IF Len(stack) + FrameWords >= StackWords \/ idt_entries[v] = "absent"
  THEN /\ pc' = <<"reset", v>> /\ interrupts' = FALSE
       /\ UNCHANGED stack
  ELSE /\ Push(codes \o <<Word("eip", pc), Word("csm", 8), Word("eflags", interrupts)>>)
       /\ pc' = <<"stub", v>>
       /\ interrupts' = (interrupts /\ idt_entries[v] = "trap")

\* int 0x80 with the number in eax.
syscall_dbg ==
  /\ Stage("run")
  /\ \E number \in CallNumbers : eax' = number /\ Remember(number)
  /\ Deliver(SyscallVector, <<>>)
  /\ UNCHANGED <<tables, controllers, keyboard>>

RaiseException(v) ==
  /\ Deliver(v, IF v \in CpuErrorCodes THEN <<Word("err_code", v)>> ELSE <<>>)
  /\ Remember(eax)
  /\ UNCHANGED <<eax, tables, controllers, keyboard>>

\* A fault of the code, or an NMI.  In isr_handler only the printing faults.
Fault(v) == ~Excepted /\ RaiseException(v)

----------------------------------------------------------------------------
\* The two 8259s (external).  The second one's lines come in by line 2.

Rank(l) == IF l < 8 THEN 16 * l ELSE 32 + l - 7
Highest(S) == {l \in S : \A k \in S : Rank(l) <= Rank(k)}
Presented == Highest({l \in requested : \A s \in in_service : Rank(l) < Rank(s)})

\* The keyboard's line rises only when its port fills.
Request(l) ==
  /\ ~Excepted   \* later ones change nothing
  /\ l = 1 => ~full
  /\ full' = (full \/ l = 1)
  /\ requested' = requested \cup {l}
  /\ UNCHANGED <<pc, interrupts, stack, eax, tables, in_service, resume, unheard>>

Accept ==
  /\ interrupts /\ ~Stopped
  /\ \E l \in Presented :
       /\ requested' = requested \ {l}
       /\ in_service' = in_service \cup {l} \cup {m \in {2} : l >= 8}
       /\ Deliver(32 + l, <<>>)
  /\ Remember(eax)
  /\ UNCHANGED <<eax, tables, keyboard>>

\* The request is gone when the processor asks for it: line 7 is reported by
\* the first controller, line 15 by the second; neither is in service.
Spurious(l) ==
  /\ interrupts /\ ~Stopped /\ in_service = {}
  /\ in_service' = {m \in {2} : l >= 8}
  /\ Deliver(32 + l, <<>>)
  /\ Remember(eax)
  /\ UNCHANGED <<eax, tables, requested, keyboard>>

\* Slip: the end of interrupt does not reach the first controller.
EndOfInterrupt_Second(lines) == in_service' = in_service \ Highest(in_service \cap lines \cap 8 .. 15)

\* A non-specific end of interrupt: the highest line in service is done.
EndOfInterrupt(lines) == in_service' = in_service \ Highest(in_service \cap lines)

----------------------------------------------------------------------------
\* The stubs.

\* ISR_ERRCODE: the stubs that push no error code of their own.
\* Slip: the page fault's is not among them.
ErrorCodeStubs_ToThirteen == {8, 10, 11, 12, 13}

ErrorCodeStubs == {8, 10, 11, 12, 13, 14}

StubCode(v) == IF v \in ErrorCodeStubs THEN <<>> ELSE <<Word("err_code", 0)>>

HandlerOf(v) ==
  IF v < 32 THEN "isr" ELSE IF v = SyscallVector THEN "syscall" ELSE "irq"

\* What a stub pushes, up to the pointer to struct int_regs.
StubWords(v, value) ==
  <<Word("regs", 0), Word("cr2", 0), Word("ds", 16), Word("edi", 0), Word("esi", 0),
    Word("ebp", 0), Word("esp", 0), Word("ebx", 0), Word("edx", 0), Word("ecx", 0),
    Word("eax", value), Word("int_no", v)>> \o StubCode(v)

\* cli, the pushes, the call.
Stub ==
  /\ Phase = "stub"
  /\ interrupts' = FALSE
  /\ Push(StubWords(Vector, eax))
  /\ pc' = <<HandlerOf(Vector), Vector>>
  /\ UNCHANGED <<eax, tables, controllers, resume,
                 keyboard>>

TakenOff == 13

\* A return through words that are no frame goes anywhere.
Return ==
  /\ Phase = "return"
  /\ LET frame == SubSeq(stack, TakenOff + 1, Len(stack))
         right == /\ Len(frame) >= 3
                  /\ frame[1].field = "eip" /\ frame[3].field = "eflags"
     IN  IF right
         THEN /\ pc' = frame[1].value
              /\ interrupts' = frame[3].value
              /\ stack' = SubSeq(frame, 4, Len(frame))
         ELSE pc' = <<"wild", 0>> /\ UNCHANGED <<interrupts, stack>>
  /\ eax' = stack[11].value
  /\ UNCHANGED <<tables, controllers, resume,
                 keyboard>>

----------------------------------------------------------------------------
\* The handlers.  regs points to the words under the pointer pushed last.

Regs == Tail(stack)
IntNo == Regs[11].value

Goto(phase) ==
  /\ pc' = <<phase, Vector>>
  /\ UNCHANGED <<interrupts, eax, tables, resume>>

\* It prints, then loops for ever with the interrupt flag closed.
isr_handler ==
  /\ Phase = "isr" /\ video
  /\ Goto(IF IntNo < 32 THEN "halted" ELSE "return")
  /\ UNCHANGED <<stack, controllers, keyboard>>

Calls == 1 .. 6 \cup {11, 19, 20, 37, 39, 195}

\* Slip: every call fails.
syscall_handler_AllFail ==
  /\ Phase = "syscall" /\ video
  /\ stack' = [stack EXCEPT ![11].value = -1]
  /\ Goto("return")
  /\ UNCHANGED <<controllers, keyboard>>

\* Every call prints; what it returns is dropped.
syscall_handler ==
  /\ Phase = "syscall" /\ video
  /\ stack' = IF Regs[10].value \in Calls THEN stack
              ELSE [stack EXCEPT ![11].value = -1]
  /\ Goto("return")
  /\ UNCHANGED <<controllers, keyboard>>

\* isr_handler and the system calls print at once; with the screen unmapped
\* that is a page fault.
PrintFaults ==
  /\ Phase \in {"isr", "syscall"} /\ ~video
  /\ RaiseException(14)

\* Slip: > for >=.
OnSecond_Above(n) == n > 40

OnSecond(n) == n >= 40

\* The routine, if there is one, then the ends of interrupt in turn.
\* keyboard_handler empties the port if a program waits for input, as one may
\* once kernel_main is past its set-up (Console has when it does); on_irq0
\* counts what nobody reads.
irq_handler ==
  /\ Phase = "irq"
  /\ \E input \in {FALSE, resume.pc = <<"thread", "run">>} :
       /\ full' = (full /\ ~(input /\ irq_routines[IntNo - 32] = "keyboard_handler"))
       /\ unheard' = (full' /\ (unheard \/ (IntNo = 33 /\ ~input)))
  /\ Goto(IF OnSecond(IntNo) THEN "eoi_second" ELSE "eoi_first")
  /\ UNCHANGED <<stack, controllers>>

EndSecond ==
  /\ Phase = "eoi_second"
  /\ EndOfInterrupt(8 .. 15)
  /\ Goto("eoi_first")
  /\ UNCHANGED <<stack, requested, keyboard>>

EndFirst ==
  /\ Phase = "eoi_first"
  /\ EndOfInterrupt(0 .. 7)
  /\ Goto("return")
  /\ UNCHANGED <<stack, requested, keyboard>>

\* while (1), or a machine that is gone.
Spin == Stopped /\ UNCHANGED vars

Code ==
  \/ idt_init \/ pit_init \/ keyboard_init \/ paging_init
  \/ Stub \/ Return
  \/ isr_handler \/ syscall_handler \/ PrintFaults
  \/ irq_handler \/ EndSecond \/ EndFirst

Next ==
  \/ Code
  \/ syscall_dbg
  \/ Accept
  \/ \E v \in Faults : Fault(v)
  \/ \E l \in Devices : Request(l)
  \/ \E l \in {7, 15} : Spurious(l)
  \/ Spin

Spec == Init /\ [][Next]_vars

\* The processor runs the code, and looks for requests after every instruction.
FairSpec == Spec /\ WF_vars(Code) /\ SF_vars(Accept)

----------------------------------------------------------------------------
\* Properties.

\* A step keeps the types of its state, and never returns through words that
\* are not a frame (idt_s.asm:86-142).
TypeOK ==
  /\ Phase \in {"thread", "stub", "isr", "syscall", "irq", "eoi_second",
                "eoi_first", "return", "halted", "reset"}
  /\ interrupts \in BOOLEAN /\ video \in BOOLEAN
  /\ full \in BOOLEAN /\ unheard \in BOOLEAN
  /\ Len(stack) <= StackWords
  /\ \A i \in DOMAIN stack : stack[i].field \in {"regs"} \cup Range(IntRegs)
  /\ eax \in CallNumbers \cup {0, -1}
  /\ requested \subseteq 0 .. 15 /\ in_service \subseteq 0 .. 15

\* Interrupts and system calls do not nest: each has the stack to itself,
\* though every stub ends in sti (idt_s.asm:141, idt.c:93).
Unnested ==
  /\ Phase = "thread" => stack = <<>>
  /\ Phase = "stub" /\ Vector >= 32 => Len(stack) = 3
  /\ Phase \in {"syscall", "irq", "eoi_second", "eoi_first", "return"} =>
       Len(stack) = FrameWords

\* A handler finds under its pointer the fields of struct int_regs in their
\* places, int_no the vector that was raised; but for the exceptions whose
\* error code the stubs do not know of (17 and later), where the fields past
\* err_code are one word off (idt_s.asm:8-67, util.h:30-36).  No interrupt or
\* system call finds another one's frame below its own.
HandlersReadTheirFrame ==
  /\ TypeOK /\ Unnested
  /\ Phase \in {"isr", "syscall", "irq", "eoi_second", "eoi_first"} =>
       LET known == Vector \in 8 .. 14 \/ Vector \notin CpuErrorCodes
           fields == IF known THEN Len(IntRegs) ELSE 12
       IN  /\ Len(Regs) >= Len(IntRegs)
           /\ \A i \in 1 .. fields : Regs[i].field = IntRegs[i]
           /\ IntNo = Vector

\* An interrupt is transparent: the thread goes on where it was, with its
\* interrupt flag and its eax, -1 only after a system call nobody knows
\* (idt_s.asm:115-142, syscall_handler.c:20-23).  After an exception nothing
\* goes on: the thread is never resumed and no interrupt is taken; the machine
\* halts, or resets when it cannot print (idt.c:131-137).
ResumesWhereLeft ==
  [][/\ Phase = "return" /\ pc' # pc /\ ~Excepted' =>
          /\ pc' = resume.pc /\ interrupts' = resume.interrupts /\ stack' = <<>>
          /\ eax' = IF Vector = SyscallVector /\ resume.eax \notin Calls
                    THEN -1 ELSE resume.eax
     /\ Excepted => Excepted' /\ ~interrupts']_vars

\* The controllers agree with the code: in the thread nothing is in service,
\* in irq_handler at most the interrupt it handles, with line 2 for the second
\* controller's (idt.c:160-163).
ServiceMatches ==
  /\ Phase \in {"thread", "syscall", "return"} => in_service = {}
  /\ Phase \in {"irq", "eoi_second", "eoi_first"} =>
       in_service \subseteq {Vector - 32} \cup {l \in {2} : Vector >= 40}

\* A scan code in the port has its interrupt still to come, or had it while
\* nobody waited for input, when the interrupt ends with the code unread and
\* the keyboard is mute from then on (idt.c:155-159, keyboard.c:103-112).
KeyboardHeard ==
  full /\ ~Excepted => unheard \/ 1 \in requested \cup in_service

\* A request is taken, unless an exception stopped the machine or requests of
\* higher lines never end (idt.c:152-164).
Higher(l) == {h \in Devices : Rank(h) < Rank(l)}
RequestsTaken ==
  \A l \in Devices :
    \/ []<>(in_service \cap Higher(l) # {})
    \/ (l \in requested ~> l \notin requested \/ Excepted)
=============================================================================
