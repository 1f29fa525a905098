----------------------------- MODULE PageFrames -----------------------------
(***************************************************************************)
(* The page arithmetic of kernel/pmm.c.  The bitmap lies at the end of the *)
(* kernel image, the pages it stands for begin behind it.  kalloc() and    *)
(* kfree() each compute where: kalloc() from the number of pages up to     *)
(* PHYSTOP, kfree() from the number up to MAXVA.                           *)
(***************************************************************************)
EXTENDS Integers

CONSTANTS
    PGESIZE,     \* bytes of a page
    mem_end,     \* end of the kernel image
    PHYSTOP,     \* end of the memory
    MAXVA        \* the largest address of the machine

ASSUME FramesAssumption ==
    /\ PGESIZE \in Nat \ {0}
    /\ mem_end \in Nat /\ PHYSTOP \in Nat /\ MAXVA \in Nat
    /\ mem_end + PGESIZE <= PHYSTOP /\ PHYSTOP <= MAXVA + 1

PGROUNDUP(x) == ((x + PGESIZE - 1) \div PGESIZE) * PGESIZE

start_addr == PGROUNDUP(mem_end)
num_pages == (PHYSTOP - start_addr) \div PGESIZE
Frames == 0 .. num_pages - 1

\* alloc_start of kalloc(), the page of a bit, and the pages.
AllocStart == PGROUNDUP(mem_end + num_pages)
Page(i) == AllocStart + i * PGESIZE
Pages == {Page(i) : i \in Frames}

\* alloc_start of kfree(), and the bit of a page in 32-bit arithmetic.
FreeStart == PGROUNDUP(mem_end + (MAXVA - mem_end) \div PGESIZE)
FreeIndex(ptr) == ((ptr - FreeStart) % (MAXVA + 1)) \div PGESIZE

\* The address of the word with a bit: eight bits to a word of four bytes.
WordOf(i) == start_addr + (i \div 8) * 4

\* The bit kalloc() takes.
Clear(bits) == Frames \ bits
FirstClear(bits) == CHOOSE i \in Clear(bits) : \A j \in Clear(bits) : i <= j
=============================================================================
