------------------------------ MODULE Console ------------------------------
(***************************************************************************)
(* The console: the terminal loop of src/terminal/terminal.c on the kernel *)
(* thread, the keyboard interrupt handler of src/drivers/keyboard/         *)
(* keyboard.c and the line buffer they share, the cursor of src/vga/vga.c, *)
(* and, as far as the code sees them, the 8042 keyboard controller and the *)
(* request latch of the interrupt controller.                              *)
(*                                                                         *)
(* There is one CPU: while the handler runs (handler # "idle") the thread  *)
(* does not.  The keyboard and its controller go on at any time.  Screen   *)
(* contents are left out, only the cursor is kept.                         *)
(***************************************************************************)
EXTENDS Integers, Sequences

CONSTANTS
  BufferSize,    \* KEYBOARD_BUFFER_SIZE: 128
  Width, Height, \* VGA_WIDTH and VGA_HEIGHT: 80 and 25
  PromptLength,  \* "$ " is 2
  Letters,       \* keys with a printable entry in lowercase and uppercase
  OtherKeys,     \* keys on the board among enter, backspace, ...
  MaxPresses,    \* bound: key presses in a behaviour
  WireSize       \* bound: bytes waiting in the keyboard

Keys == Letters \cup OtherKeys

ASSUME SizesAssumption ==
  /\ BufferSize \in Nat \ {0} /\ Height \in Nat \ {0}
  /\ PromptLength \in Nat /\ Width \in Nat /\ PromptLength < Width
  /\ MaxPresses \in Nat /\ WireSize \in Nat

\* A key prints a character of its own, never the NUL that ends a line.
ASSUME KeysAssumption ==
  /\ OtherKeys \subseteq {"enter", "backspace", "caps_lock", "shift", "tab", "ignored"}
  /\ "nul" \notin Letters /\ Keys # {}

VARIABLES
  \* The kernel thread, in terminal_init and wait_keyboard_input.
  pc, terminal_stop_delete, input_buffer,
  \* Shared with the handler.
  input, head, tail, buffer,
  caps_on, caps_lock, vga_row, vga_column,
  \* The interrupt handler: where it is and what its first read returned.
  handler, scan_code,
  \* Keyboard, controller and interrupt latch.
  down, wire, out, full, irr,
  \* Ghosts: the line as its typist sees it, what spoils it, the bytes handed
  \* to the controller's port and not acted upon, whether a byte arrived
  \* between the handler's two reads, and the presses so far.
  line, spoilt, owed, refilled, presses

thread == <<pc, terminal_stop_delete, input_buffer>>
ring == <<head, tail, buffer>>
shift == <<caps_on, caps_lock>>
cursor == <<vga_row, vga_column>>
device == <<down, wire, out, full, irr>>
vars == <<thread, input, ring, shift, cursor, handler, scan_code, device,
          line, spoilt, owed, refilled, presses>>

Byte == [key : Keys, make : BOOLEAN]
Char == Letters \X BOOLEAN    \* a letter, and whether it is upper case
Nul == <<"nul", FALSE>>
Junk == <<"junk", FALSE>>     \* a byte of the counters in front of the buffer

\* How far below 0 the buffer's tail may go: bytes of tail itself, the lowest
\* excepted, lie there.  Bound on the input.
MaxUnderrun == 3

(***************************************************************************)
(* What keeps wait_keyboard_input from returning the line that was typed:  *)
(*  "overrun"    the line and its NUL fill the buffer;                     *)
(*  "underflow"  a backspace met tail = 0, and % made it negative;         *)
(*  "scrolled"   the screen scrolled under terminal_stop_delete.           *)
(***************************************************************************)
Spoilers == {"overrun", "underflow", "scrolled"}

----------------------------------------------------------------------------
\* Helpers.

\* C's %, which keeps the sign of the dividend.
CMod(x, n) == IF x >= 0 THEN x % n ELSE -((-x) % n)

Smaller(a, b) == IF a < b THEN a ELSE b

\* Cursor and scrolling after n printable characters: a character that finds
\* the column at Width goes to the next line first.
LinesBroken(n) == IF n = 0 THEN 0 ELSE (vga_column + n - 1) \div Width
PutChars(n) ==
  /\ vga_row' = Smaller(vga_row + LinesBroken(n), Height - 1)
  /\ vga_column' = vga_column + n - LinesBroken(n) * Width
Scrolls(n) == vga_row + LinesBroken(n) > Height - 1

\* Cursor after "\n" and n characters.
PrintOnNewLine(n) ==
  /\ vga_row' = Smaller(vga_row + 1, Height - 1)
  /\ vga_column' = n

\* Cursor after '\b'; at row and column 0 it would wrap below 0.
BackspaceCursor ==
  IF vga_column = 0
  THEN vga_row' = vga_row - 1 /\ vga_column' = Width - 1
  ELSE vga_row' = vga_row /\ vga_column' = vga_column - 1

\* A push below 0 overwrites a high byte of tail itself: the character is
\* lost, and the low bits of tail still go up by one.
buffer_push(data) ==
  /\ buffer' = IF tail >= 0 THEN [buffer EXCEPT ![tail] = data] ELSE buffer
  /\ tail' = CMod(tail + 1, BufferSize)

buffer_pop == tail' = CMod(tail - 1, BufferSize) /\ UNCHANGED buffer

Init ==
  /\ pc = "prompt" /\ terminal_stop_delete = <<0, 0>>
  /\ input_buffer = [i \in 0 .. BufferSize - 1 |-> Nul]
  /\ input = FALSE /\ head = 0 /\ tail = 0
  /\ buffer = [i \in 0 .. BufferSize - 1 |-> Nul]
  /\ caps_on = FALSE /\ caps_lock = FALSE
  /\ vga_row \in 0 .. Height - 1 /\ vga_column = 0
  /\ handler = "idle" /\ scan_code = CHOOSE k \in Keys : TRUE
  /\ down = "none" /\ wire = <<>> /\ out = (CHOOSE b \in Byte : TRUE) /\ full = FALSE /\ irr = FALSE
  /\ line = <<>> /\ spoilt = {} /\ owed = 0 /\ refilled = FALSE /\ presses = 0

----------------------------------------------------------------------------
\* The kernel thread.

Thread(from, to) == handler = "idle" /\ pc = from /\ pc' = to

\* terminal_init prints a new line and the prompt
PrintPrompt ==
  /\ Thread("prompt", "mark")
  /\ PrintOnNewLine(PromptLength)
  /\ UNCHANGED <<terminal_stop_delete, input_buffer, input, ring, shift, handler,
                 scan_code, device, line, spoilt, owed, refilled, presses>>

\* ... and notes where the line starts.
MarkStop ==
  /\ Thread("mark", "arm")
  /\ terminal_stop_delete' = <<vga_row, vga_column>>
  /\ line' = <<>>
  /\ spoilt' = IF tail < 0 THEN spoilt ELSE {}
  /\ UNCHANGED <<input_buffer, input, ring, shift, cursor, handler, scan_code,
                 device, owed, refilled, presses>>

\* wait_keyboard_input: input = true
Arm ==
  /\ Thread("arm", "spin")
  /\ input' = TRUE
  /\ UNCHANGED <<terminal_stop_delete, input_buffer, ring, shift, cursor, handler,
                 scan_code, device, line, spoilt, owed, refilled, presses>>

\* while (input);
SpinEnds ==
  /\ Thread("spin", "copy")
  /\ ~input
  /\ UNCHANGED <<terminal_stop_delete, input_buffer, input, ring, shift, cursor,
                 handler, scan_code, device, line, spoilt, owed, refilled, presses>>

\* Slip: the head stays where the line began.
CopyLine_KeepsHead ==
  LET size == CMod(tail + BufferSize - head, BufferSize)
      from(i) == CMod(head + i, BufferSize)
  IN  /\ Thread("copy", "echo")
      /\ input_buffer' =
           [i \in 0 .. BufferSize - 1 |->
              IF i < size THEN buffer[from(i)] ELSE input_buffer[i]]
      /\ UNCHANGED <<terminal_stop_delete, input, ring, shift, cursor, handler,
                     scan_code, device, line, spoilt, owed, refilled, presses>>

CopyLine ==
  LET size == CMod(tail + BufferSize - head, BufferSize)
      from(i) == CMod(head + i, BufferSize)
  IN  /\ Thread("copy", "echo")
      /\ input_buffer' =
           [i \in 0 .. BufferSize - 1 |->
              IF i >= size THEN input_buffer[i]
              ELSE IF from(i) >= 0 THEN buffer[from(i)] ELSE Junk]
      /\ head' = CMod(tail, BufferSize)
      /\ UNCHANGED <<terminal_stop_delete, input, tail, buffer, shift, cursor, handler,
                     scan_code, device, line, spoilt, owed, refilled, presses>>

\* The string at input_buffer; with no NUL it ends somewhere past the buffer.
Terminated == \E i \in 0 .. BufferSize - 1 : input_buffer[i] = Nul
CommandLength ==
  IF Terminated
  THEN CHOOSE i \in 0 .. BufferSize - 1 :
         /\ input_buffer[i] = Nul
         /\ \A j \in 0 .. i - 1 : input_buffer[j] # Nul
  ELSE BufferSize
Command == [i \in 1 .. CommandLength |-> input_buffer[i - 1]]

Echo ==
  /\ Thread("echo", "prompt")
  /\ PutChars(CommandLength)
  /\ UNCHANGED <<terminal_stop_delete, input_buffer, input, ring, shift, handler,
                 scan_code, device, line, spoilt, owed, refilled, presses>>

KernelThread == PrintPrompt \/ MarkStop \/ Arm \/ SpinEnds \/ CopyLine \/ Echo

----------------------------------------------------------------------------
\* The keyboard and its controller (external).

Send(key, make) ==
  /\ Len(wire) < WireSize
  /\ wire' = Append(wire, [key |-> key, make |-> make])
  /\ UNCHANGED <<thread, input, ring, shift, cursor, handler, scan_code, out, full,
                 irr, line, spoilt, owed, refilled>>

\* A key goes down, or repeats while it is down.  Bound: one key at a time.
Press(key) ==
  /\ down \in {"none", key} /\ presses < MaxPresses
  /\ down' = key /\ presses' = presses + 1
  /\ Send(key, TRUE)

Release(key) ==
  /\ down = key
  /\ down' = "none" /\ UNCHANGED presses
  /\ Send(key, FALSE)

\* The controller presents the next byte once the port has been read; the
\* edge latches the interrupt request.
Transfer ==
  /\ ~full /\ wire # <<>>
  /\ out' = Head(wire) /\ wire' = Tail(wire)
  /\ full' = TRUE /\ irr' = TRUE
  /\ owed' = IF refilled \/ handler = "read2" THEN 0 ELSE owed + 1
  /\ refilled' = (refilled \/ handler = "read2")
  /\ UNCHANGED <<thread, input, ring, shift, cursor, handler, scan_code, down, line,
                 spoilt, presses>>

\* A request whose byte is gone may come as the spurious vector, which has no
\* handler.
Spurious ==
  /\ handler = "idle" /\ irr /\ ~full
  /\ irr' = FALSE
  /\ UNCHANGED <<thread, input, ring, shift, cursor, handler, scan_code, down, wire,
                 out, full, line, spoilt, owed, refilled, presses>>

----------------------------------------------------------------------------
\* The interrupt handler.  irq_handler ends every call with the EOI.

\* Slip: the handler never looks at the byte.
Ignore_Always ==
  /\ handler = "idle" /\ irr
  /\ irr' = FALSE
  /\ UNCHANGED <<thread, input, ring, shift, cursor, handler, scan_code, down, wire,
                 out, full, line, spoilt, owed, refilled, presses>>

\* Nobody waits for input: the handler returns and leaves the byte in the port.
Ignore ==
  /\ handler = "idle" /\ irr /\ ~input
  /\ irr' = FALSE
  /\ UNCHANGED <<thread, input, ring, shift, cursor, handler, scan_code, down, wire,
                 out, full, line, spoilt, owed, refilled, presses>>

\* Slips: input is not tested, or the request stays latched.
Enter_Untested ==
  /\ handler = "idle" /\ irr
  /\ irr' = FALSE
  /\ handler' = "read1"
  /\ UNCHANGED <<thread, input, ring, shift, cursor, scan_code, down, wire, out, full, line,
                 spoilt, owed, refilled, presses>>

Enter_Latched ==
  /\ handler = "idle" /\ irr /\ input
  /\ handler' = "read1"
  /\ UNCHANGED <<thread, input, ring, shift, cursor, scan_code, device, line,
                 spoilt, owed, refilled, presses>>

Enter ==
  /\ handler = "idle" /\ irr /\ input
  /\ irr' = FALSE
  /\ handler' = "read1"
  /\ UNCHANGED <<thread, input, ring, shift, cursor, scan_code, down, wire, out, full, line,
                 spoilt, owed, refilled, presses>>

\* Slip: the handler reads on until it gets a press.
ReadScanCode_UntilPress ==
  /\ handler = "read1" /\ handler' = IF out.make THEN "read2" ELSE "read1"
  /\ scan_code' = out.key
  /\ full' = FALSE
  /\ UNCHANGED <<thread, input, ring, shift, cursor, down, wire, out, irr, line, spoilt, owed,
                 refilled, presses>>

\* scan_code = in_port_b(0x60) & 0x7F
ReadScanCode ==
  /\ handler = "read1" /\ handler' = "read2"
  /\ scan_code' = out.key
  /\ full' = FALSE
  /\ UNCHANGED <<thread, input, ring, shift, cursor, down, wire, out, irr, line, spoilt, owed,
                 refilled, presses>>

\* One typed character, as its typist sees it.
Spoil(cond, kind) == IF cond THEN {kind} ELSE {}

PressLetter ==
  LET char == <<scan_code, caps_on \/ caps_lock>>
  IN  /\ scan_code \in Letters
      /\ PutChars(1)
      /\ buffer_push(char)
      /\ line' = Append(line, char)
      /\ spoilt' = spoilt \cup Spoil(Len(line) >= BufferSize, "overrun")
                          \cup Spoil(Scrolls(1), "scrolled")
      /\ UNCHANGED <<input, shift>>

PressEnter ==
  /\ scan_code = "enter"
  /\ PrintOnNewLine(0)
  /\ buffer_push(Nul)
  /\ input' = FALSE
  /\ spoilt' = spoilt \cup Spoil(Len(line) + 1 >= BufferSize, "overrun")
  /\ UNCHANGED <<shift, line>>

PressBackspace ==
  /\ scan_code = "backspace"
  /\ IF <<vga_row, vga_column>> # terminal_stop_delete
     THEN /\ BackspaceCursor
          /\ buffer_pop
          /\ spoilt' = spoilt \cup Spoil(tail <= 0, "underflow")
     ELSE UNCHANGED <<cursor, tail, buffer, spoilt>>
  /\ line' = IF line = <<>> THEN line ELSE SubSeq(line, 1, Len(line) - 1)
  /\ UNCHANGED <<input, shift>>

PressCapsLock ==
  /\ scan_code = "caps_lock"
  /\ caps_lock' = ~caps_lock
  /\ UNCHANGED <<input, tail, buffer, caps_on, cursor, line, spoilt>>

\* Shift compares where it means to assign; the other keys do nothing.
NoEffect == UNCHANGED <<input, tail, buffer, shift, cursor, line, spoilt>>

\* press = in_port_b(0x60) & 0x80, the switch, and the return; vga_put_char
\* never comes back from '\t'.
Act ==
  /\ handler = "read2"
  /\ full' = FALSE
  /\ IF out.make
     THEN \/ PressLetter \/ PressEnter \/ PressBackspace \/ PressCapsLock
          \/ scan_code \in {"shift", "ignored", "tab"} /\ NoEffect
     ELSE NoEffect
  /\ handler' = IF out.make /\ scan_code = "tab" THEN "hung" ELSE "idle"
  /\ owed' = IF refilled THEN 0 ELSE owed - 1
  \* The bounds on the input.
  /\ tail' >= -MaxUnderrun /\ vga_row' >= 0
  /\ UNCHANGED <<thread, head, scan_code, down, wire, out, irr, refilled, presses>>

Interrupt == Ignore \/ Enter \/ ReadScanCode \/ Act

Next ==
  \/ KernelThread
  \/ Interrupt
  \/ Transfer
  \/ Spurious
  \/ \E key \in Keys : Press(key) \/ Release(key)

Spec == Init /\ [][Next]_vars

\* The CPU runs the thread and takes interrupts, the controller presents
\* bytes; nobody has to type.
FairSpec ==
  Spec /\ WF_vars(KernelThread) /\ WF_vars(Interrupt \/ Spurious) /\ WF_vars(Transfer)

----------------------------------------------------------------------------
TypeOK ==
  /\ pc \in {"prompt", "mark", "arm", "spin", "copy", "echo"}
  /\ terminal_stop_delete \in (0 .. Height - 1) \X (0 .. Width)
  /\ input_buffer \in [0 .. BufferSize - 1 -> Char \cup {Nul, Junk}]
  /\ input \in BOOLEAN
  /\ head \in -MaxUnderrun .. BufferSize - 1
  /\ tail \in -MaxUnderrun .. BufferSize - 1
  /\ buffer \in [0 .. BufferSize - 1 -> Char \cup {Nul}]
  /\ caps_on \in BOOLEAN /\ caps_lock \in BOOLEAN
  /\ vga_row \in 0 .. Height - 1 /\ vga_column \in 0 .. Width
  /\ handler \in {"idle", "read1", "read2", "hung"}
  /\ scan_code \in Keys
  /\ down \in Keys \cup {"none"} /\ wire \in Seq(Byte) /\ out \in Byte
  /\ full \in BOOLEAN /\ irr \in BOOLEAN
  /\ line \in Seq(Char) /\ spoilt \subseteq Spoilers
  /\ owed \in 0 .. 1 /\ refilled \in BOOLEAN
  /\ presses \in 0 .. MaxPresses

\* The line buffer, the cursor and the case flags have no lock: the flag input
\* is what keeps the handler off them while terminal_init prints and copies.
\* Past its first test the handler runs only while the thread spins.
ConsoleOwnedOnce ==
  handler \in {"read1", "read2", "hung"} => pc = "spin"

\* wait_keyboard_input returns the line as typed and edited at the prompt,
\* unless one of the Spoilers happened; there is no fourth way to lose it,
\* whatever the ring's position when the line began.
LineFaithful ==
  /\ TypeOK
  /\ pc = "echo" /\ spoilt = {} => Command = line

\* While nothing arrives between the handler's two reads of port 0x60, every
\* byte the controller presents is acted upon once: none is skipped, none is
\* read twice.
OncePerByte ==
  ~refilled => owed = IF full \/ handler = "read2" THEN 1 ELSE 0

\* A byte is in the port, the controller will present no other, and no
\* interrupt will come for it.
Wedged == full /\ ~irr /\ handler = "idle"

\* Only a key event while nobody waits for input wedges the keyboard: the
\* handler then returns without reading the port.  Nothing the kernel does
\* afterwards, not even the next prompt, brings the keyboard back.
OnlyDeafnessWedges ==
  [][/\ ~Wedged /\ Wedged' => ~input
     /\ Wedged => Wedged']_vars

\* A byte that reached the keyboard's output is acted upon, and the handler
\* returns, unless the keyboard is wedged or the handler caught in the tab loop.
BytesGetThrough ==
  wire # <<>> \/ full
    ~> (wire = <<>> /\ ~full /\ handler = "idle") \/ Wedged \/ handler = "hung"
=============================================================================
