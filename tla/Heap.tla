-------------------------------- MODULE Heap --------------------------------
(***************************************************************************)
(* The heap of src/std/mem/mem.c: a list of headers in the pages that      *)
(* heap_create allocates, and malloc and free on it, with callers that     *)
(* clear their blocks and set a heap_t they have kept.                     *)
(*                                                                         *)
(* A split puts the new header right behind the old one, so that all       *)
(* headers lie at multiples of their size: a place is such a multiple,     *)
(* counted from heap_start, and the block of header p starts at place      *)
(* p + 1.  Sizes are in words of four bytes, of which alloc_t's fields     *)
(* have one each.  One step of malloc is one turn of its loops.            *)
(***************************************************************************)
EXTENDS Integers, FiniteSets

CONSTANTS
  PageWords,  \* words of a page: 1024
  HeapPages,  \* what heap_create was asked for
  Sizes,      \* what callers ask malloc for, in words
  MaxPlace,   \* bound: calls go on while the list's headers lie below it
  MaxSize,    \* bound: and no block is said to be larger than that
  MaxGrowth   \* bound: and grow_heap has moved the end that often at most

HeaderWords == 4   \* size, used, next, prev, in this order

ASSUME HeapAssumption ==
  /\ PageWords \in Nat /\ PageWords > HeaderWords
  /\ HeapPages \in Nat \ {0} /\ Sizes \subseteq Nat
  /\ {MaxPlace, MaxSize, MaxGrowth} \subseteq Nat \ {0}

Places == 0 .. MaxPlace + 1
NULL == -1   \* reading it is a page fault

VARIABLES
  memory,    \* place |-> the header that was written there last
  cur_heap,  \* last_alloc_loc and heap_end of the current heap
  saved,     \* the heap_t that the caller keeps
  pc,        \* "idle", "malloc" or "halted"
  size, cur_alloc,   \* malloc's argument and variable
  blocks,    \* ghost: place |-> the sizes of the blocks that callers hold there
  breach     \* ghost: which of the Breaches have happened

vars == <<memory, cur_heap, saved, pc, size, cur_alloc, blocks, breach>>

(***************************************************************************)
(* What tears the list:                                                    *)
(*  "written"  a caller cleared his block, which starts with a header;     *)
(*  "overrun"  a split put its header over one that is on the list;        *)
(*  "skipped"  free merged with a prev that had left the list;             *)
(*  "stale"    the heap_t that was set is not as malloc left the heap;     *)
(*  "unobtained"  alloc_page gave heap_create no page.                     *)
(***************************************************************************)
Breaches == {"written", "overrun", "skipped", "stale", "unobtained"}

Header(s, u, n, p) == [size |-> s, used |-> u, next |-> n, prev |-> p]

\* heap_create, whose size counts from the header, and set_current_heap.  It
\* does not test what alloc_page returns: a header at NULL is a page fault.
Init ==
  /\ memory = [p \in Places |->
                 Header(IF p = 0 THEN HeapPages * PageWords ELSE 0, FALSE, NULL, NULL)]
  /\ cur_heap = [last |-> 0, end |-> 0]
  /\ saved = cur_heap
  /\ size = 0 /\ cur_alloc = 0
  /\ blocks = [p \in Places |-> {}]
  /\ \/ pc = "idle" /\ breach = {}
     \/ pc = "halted" /\ breach = {"unobtained"}

\* The headers that malloc's walk can come to.
List ==
  LET Reach[n \in 0 .. MaxPlace + 1] ==
        IF n = 0 THEN {0}
        ELSE Reach[n - 1] \cup ({memory[p].next : p \in Reach[n - 1]} \ {NULL})
  IN  Reach[MaxPlace + 1]

\* Bounds: see the constants; once the list is torn, only malloc is still called.
InBounds ==
  /\ \A p \in List : p < MaxPlace /\ memory[p].size <= MaxSize
  /\ cur_heap.last < MaxPlace /\ cur_heap.end <= MaxGrowth * PageWords
Whole == breach = {}

----------------------------------------------------------------------------
Malloc(s) ==
  /\ pc = "idle" /\ InBounds
  /\ pc' = "malloc" /\ size' = s /\ cur_alloc' = 0
  /\ UNCHANGED <<memory, cur_heap, saved, blocks, breach>>

Cur == memory[cur_alloc]
AtLast == cur_alloc = cur_heap.last

WalkOn ==
  /\ pc = "malloc" /\ Cur.used
  /\ IF Cur.next = NULL
     THEN pc' = "halted" /\ UNCHANGED cur_alloc   \* NULL->used: isr_handler never returns
     ELSE cur_alloc' = Cur.next /\ UNCHANGED pc
  /\ UNCHANGED <<memory, cur_heap, saved, size, blocks, breach>>

\* grow_heap: the end moves on, and is compared, in bytes, with a number of pages.
Grown(heap) == [heap EXCEPT !.end = @ + PageWords]
GrowWorks == Grown(cur_heap).end * 4 < HeapPages

\* return (void *)(cur_alloc) + sizeof(alloc_t)
Return ==
  /\ pc' = "idle"
  /\ blocks' = [blocks EXCEPT ![cur_alloc + 1] = @ \cup {size}]
  /\ size' = 0 /\ cur_alloc' = 0 /\ UNCHANGED saved

ReturnNULL ==
  /\ pc' = "idle"
  /\ cur_heap' = Grown(cur_heap)
  /\ size' = 0 /\ cur_alloc' = 0
  /\ UNCHANGED <<memory, saved, blocks, breach>>

\* The block itself: its size is right, or too small for a split.
Tight(s) == s > size /\ s < size + HeaderWords
HandOut ==
  /\ pc = "malloc" /\ ~Cur.used /\ ~AtLast
  /\ Cur.size = size \/ Tight(Cur.size)
  /\ memory' = [memory EXCEPT ![cur_alloc].used = TRUE]
  /\ Return
  /\ UNCHANGED <<cur_heap, breach>>

\* Slip: last_alloc_loc stays.
Split_KeepsLast(s, heap) ==
  LET new == cur_alloc + 1
  IN /\ memory' = [memory EXCEPT
                     ![new] = Header(s - HeaderWords, FALSE, Cur.next, cur_alloc),
                     ![cur_alloc] = Header(size, TRUE, new, @.prev)]
     /\ cur_heap' = heap
     /\ breach' = IF new \in List THEN breach \cup {"overrun"} ELSE breach
     /\ Return

\* From a block of s words, to which the last may just have grown.
Split(s, heap) ==
  LET new == cur_alloc + 1
  IN /\ memory' = [memory EXCEPT
                     ![new] = Header(s - HeaderWords, FALSE, Cur.next, cur_alloc),
                     ![cur_alloc] = Header(size, TRUE, new, @.prev)]
     /\ cur_heap' = IF Cur.next = NULL THEN [heap EXCEPT !.last = new] ELSE heap
     /\ breach' = IF new \in List THEN breach \cup {"overrun"} ELSE breach
     /\ Return

\* A page's growth is added whether or not grow_heap allows it, if the size is tight.
Divide ==
  /\ pc = "malloc" /\ ~Cur.used
  /\ \/ /\ Cur.size >= size + HeaderWords
        /\ Split(Cur.size, cur_heap)
     \/ /\ AtLast
        /\ Tight(Cur.size) \/ (Cur.size = size /\ GrowWorks)
        /\ Split(Cur.size + PageWords, Grown(cur_heap))

Enlarge ==
  /\ pc = "malloc" /\ ~Cur.used /\ AtLast /\ Cur.size < size /\ GrowWorks
  /\ cur_heap' = Grown(cur_heap)
  /\ memory' = [memory EXCEPT ![cur_alloc].size = @ + PageWords]
  /\ UNCHANGED <<saved, pc, size, cur_alloc, blocks, breach>>

\* Slip: a block of the right size is not given up.
GiveUp_Smaller ==
  /\ pc = "malloc" /\ ~Cur.used /\ AtLast /\ Cur.size < size /\ ~GrowWorks
  /\ ReturnNULL

GiveUp ==
  /\ pc = "malloc" /\ ~Cur.used /\ AtLast /\ Cur.size <= size /\ ~GrowWorks
  /\ ReturnNULL

\* No branch of the loop is for a free block, not the last, that is too small.
Wedged == ~Cur.used /\ ~AtLast /\ Cur.size < size

MallocStep == WalkOn \/ HandOut \/ Divide \/ Enlarge \/ GiveUp

----------------------------------------------------------------------------
\* free: with the block behind, whose own next's prev goes on naming it, ...
MergedNext(m, c) ==
  LET n == m[c].next
  IN  IF n = NULL \/ m[n].used THEN m
      ELSE [m EXCEPT ![c].next = m[n].next, ![c].size = @ + m[n].size + HeaderWords]

\* ... and then with the block in front, if prev still is that.
MergedPrev(m, c) ==
  LET p == m[c].prev
  IN  IF p = NULL \/ m[p].used THEN m
      ELSE [m EXCEPT ![p].next = m[c].next, ![p].size = @ + m[c].size + HeaderWords]

Free(b, s) ==
  LET c  == b - 1
      m0 == [memory EXCEPT ![c].used = FALSE]
      m1 == MergedNext(m0, c)
      m2 == MergedPrev(m1, c)
      p  == memory[c].prev
  IN /\ pc = "idle" /\ Whole /\ s \in blocks[b]
     /\ memory' = m2
     /\ cur_heap' = [cur_heap EXCEPT !.last =
                       IF m2 # m1 /\ m2[p].next = NULL THEN p
                       ELSE IF m1 # m0 /\ m1[c].next = NULL THEN c ELSE @]
     /\ blocks' = [blocks EXCEPT ![b] = @ \ {s}]
     /\ breach' = IF m2 # m1 /\ p \notin List THEN breach \cup {"skipped"} ELSE breach
     /\ UNCHANGED <<saved, pc, size, cur_alloc>>

----------------------------------------------------------------------------
\* A caller's memset of a block of his, and with it of the headers that lie in it.
Cleared(h, n) ==
  Header(IF n > 0 THEN 0 ELSE h.size, n <= 1 /\ h.used,
         IF n > 2 THEN NULL ELSE h.next, IF n > 3 THEN NULL ELSE h.prev)

Clear(b, s) ==
  /\ pc = "idle" /\ Whole /\ s \in blocks[b]
  /\ memory' = [p \in Places |->
                  IF p < b THEN memory[p] ELSE Cleared(memory[p], s - (p - b) * HeaderWords)]
  /\ breach' = {"written"}
  /\ UNCHANGED <<cur_heap, saved, pc, size, cur_alloc, blocks>>

Keep ==   \* get_current_heap
  /\ pc = "idle" /\ Whole
  /\ saved' = cur_heap
  /\ UNCHANGED <<memory, cur_heap, pc, size, cur_alloc, blocks, breach>>

SetBack ==   \* set_current_heap, of the heap_t kept
  /\ pc = "idle" /\ Whole
  /\ cur_heap' = saved
  /\ breach' = IF saved.last # cur_heap.last THEN breach \cup {"stale"} ELSE breach
  /\ UNCHANGED <<memory, saved, pc, size, cur_alloc, blocks>>

Held == {h \in Places \X Sizes : h[2] \in blocks[h[1]]}

Next ==
  \/ MallocStep
  \/ \E s \in Sizes : Malloc(s)
  \/ \E h \in Held : Free(h[1], h[2]) \/ Clear(h[1], h[2])
  \/ Keep
  \/ SetBack

\* The fairness: malloc is plain code on the only processor.
Spec == Init /\ [][Next]_vars /\ WF_vars(MallocStep)

----------------------------------------------------------------------------
TypeOK ==
  /\ memory \in [Places -> [size : Nat, used : BOOLEAN, next : Places \cup {NULL},
                            prev : Places \cup {NULL}]]
  /\ {cur_heap, saved} \subseteq [last : Places, end : Nat]
  /\ pc \in {"idle", "malloc", "halted"} /\ size \in Nat /\ cur_alloc \in Places
  /\ DOMAIN blocks = Places /\ breach \subseteq Breaches

(***************************************************************************)
(* While nothing has torn the list, malloc and free keep it: it goes from  *)
(* the first header, without meeting one twice, to the last, which is the  *)
(* one cur_heap knows and is free; every block that a caller holds is the  *)
(* only one at its place and has its header on the list, in use, with the  *)
(* size that was asked for or, too tight to be split, a little more; and   *)
(* malloc never reads through NULL.                                        *)
(***************************************************************************)
ListWhole ==
  /\ TypeOK
  /\ breach = {} =>
       /\ pc # "halted"
       /\ cur_heap.last \in List
       /\ \A p \in List : (memory[p].next = NULL) <=> (p = cur_heap.last)
       /\ \A p, q \in List : memory[p].next = memory[q].next => p = q
       /\ \A p \in List : memory[p].next # 0
       /\ ~memory[cur_heap.last].used
       /\ \A p \in List : memory[p].used <=> (p + 1 \in Places /\ blocks[p + 1] # {})
       /\ \A p \in Places : blocks[p] # {} =>
            /\ Cardinality(blocks[p]) = 1 /\ p - 1 \in List
            /\ \A s \in blocks[p] : memory[p - 1].size \in s .. s + HeaderWords - 1

(***************************************************************************)
(* malloc comes to an end, with a block or with NULL, unless it stands     *)
(* before a free block that is too small and is not the last, or a split   *)
(* has put a header over one on the list, which closes the list to a       *)
(* circle.                                                                 *)
(***************************************************************************)
MallocReturns == pc = "malloc" ~> (pc # "malloc" \/ Wedged \/ "overrun" \in breach)
=============================================================================
