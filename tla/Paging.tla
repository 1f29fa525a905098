------------------------------- MODULE Paging -------------------------------
(***************************************************************************)
(* The address spaces of kernel/paging.c and the calls of kernel/process.c *)
(* and kernel/sysfile.c that make, grow, copy, replace and free them.      *)
(*                                                                         *)
(* Physical memory is a record: the bits of the allocator, what the page   *)
(* tables hold, the panic that stopped the kernel, the result of the last  *)
(* function, and as history the pages that kalloc() has handed out and     *)
(* kfree() not been given.  A function of the code is an operator from one *)
(* such record to the next, so that a call is a composition of them.  A    *)
(* call is one step: an address space is touched only by its own process,  *)
(* or by the parent once it is a zombie, so that calls interfere only in   *)
(* which pages they get.  There one call can get between another one's     *)
(* critical section in kalloc() and its use of alloc_start (see Pmm): late *)
(* says in which of its calls of kalloc() that happens.                    *)
(*                                                                         *)
(* kalloc() and kfree() count pages from different starts, so that kfree() *)
(* clears the bit of another page, or a bit behind the bitmap.  A page in  *)
(* use is then handed out again, or changed.  The module follows the code  *)
(* up to that point, where it stops with Corrupt: until then it shows what *)
(* paging.c and the calls do with the pages they are given.                *)
(***************************************************************************)
EXTENDS PageFrames, Sequences, FiniteSets, SequencesExt

CONSTANTS
    Procs,
    VPN,         \* entries of a page table
    KernelPages, \* pages taken at boot for the kernel's page table and stacks
    Images,      \* program files exec() may meet
    Increments,  \* arguments of sbrk()
    MaxSize,     \* bound: bytes a process may have
    MaxLate,     \* bound: the calls of kalloc() after which another process may free
    Turns        \* bound: calls in a behaviour

ASSUME PagingAssumption ==
    /\ VPN \in Nat /\ VPN > 1
    /\ MAXVA + 1 = VPN * VPN * PGESIZE
    /\ KernelPages \in Nat /\ KernelPages <= num_pages
    /\ MaxSize \in Nat /\ MaxLate \in Nat /\ Turns \in Nat

VARIABLES
    phys,        \* physical memory
    proc,        \* a process: state, page table, trapframe and mem_size
    shrunk,      \* history: the processes whose break went back by two pages or more
    turn         \* calls that may still be made

vars == <<phys, proc, shrunk, turn>>

NoPte == [pa |-> 0, leaf |-> FALSE, user |-> FALSE]
Leaf(pa, user) == [pa |-> pa, leaf |-> TRUE, user |-> user]
Table(pa) == [pa |-> pa, leaf |-> FALSE, user |-> FALSE]
Cleared == [k \in 0 .. VPN - 1 |-> NoPte]

Valid(pte) == pte # NoPte
uvec == 1                                     \* the trampoline's page, in the kernel image
USERVEC == MAXVA - PGESIZE + 1
TRAPFRAME == USERVEC - PGESIZE

\* Addresses from lo to hi, a page apart.
PageSeq(lo, hi) ==
    [k \in 1 .. (IF hi < lo THEN 0 ELSE (hi - lo) \div PGESIZE + 1) |-> lo + (k - 1) * PGESIZE]

PGROUNDDOWN(x) == (x \div PGESIZE) * PGESIZE
Word(x) == x % (MAXVA + 1)

(***************************************************************************)
(* After a panic nothing happens any more.                                 *)
(***************************************************************************)

Ok(s) == s.panic = ""
Panic(s, why) == IF Ok(s) THEN [s EXCEPT !.panic = why] ELSE s
Return(s, v) == [s EXCEPT !.ret = v]

\* A page in use, or an address behind the last page, is handed out or changed.
Corrupt(s) == Panic(s, "a page in use is handed out or changed")

\* kalloc(): the lowest clear bit, and the page from alloc_start, which is that
\* of kfree() if another process has freed a page in between.  The page counts
\* as cleared: every caller clears it, or writes it before reading.
Handed(s, i) == (IF s.late = 1 THEN FreeStart ELSE AllocStart) + i * PGESIZE
HandOut(s, i, pg) ==
    IF pg \in s.held \/ pg \notin Pages THEN Corrupt(s)
    ELSE [s EXCEPT !.bits = @ \cup {i}, !.held = @ \cup {pg}, !.mem[pg] = Cleared, !.ret = pg,
                   !.late = IF @ = 0 THEN 0 ELSE @ - 1]
kalloc(s) ==
    IF ~Ok(s) THEN s
    ELSE IF Clear(s.bits) = {} THEN Panic(s, "no more memory, kalloc")
    ELSE HandOut(s, FirstClear(s.bits), Handed(s, FirstClear(s.bits)))

\* kfree(): the bit is that of another page, or lies in a word behind the bitmap,
\* maybe in a page in use.  What a page holds after it was freed is never read.
Behind(s, i) ==
    i \notin Frames /\ \E pg \in s.held : pg <= WordOf(i) /\ WordOf(i) < pg + PGESIZE
Free(s, i, pg) ==
    IF Behind(s, i) THEN Corrupt(s)
    ELSE [s EXCEPT !.bits = @ \ {i}, !.mem[pg] = Cleared]
kfree(s, pg) ==
    IF ~Ok(s) THEN s ELSE Free([s EXCEPT !.held = @ \ {pg}], FreeIndex(pg), pg)

(***************************************************************************)
(* Two levels of tables.  walk() without allocation finds the second, or 0; *)
(* with allocation it makes one if there is none.                           *)
(***************************************************************************)

L1(va) == (va \div PGESIZE) \div VPN
L0(va) == (va \div PGESIZE) % VPN

Found(s, pagetable, va) == s.mem[pagetable][L1(va)].pa

\* The entry for an address, NoPte if there is no table for it.
Pte(s, pagetable, va) ==
    IF Found(s, pagetable, va) = 0 THEN NoPte ELSE s.mem[Found(s, pagetable, va)][L0(va)]

AddTable(s, pagetable, va) ==
    IF Ok(s) THEN [s EXCEPT !.mem[pagetable][L1(va)] = Table(s.ret)] ELSE s

walk(s, pagetable, va) ==
    IF Ok(s) /\ Found(s, pagetable, va) # 0 THEN Return(s, Found(s, pagetable, va))
    ELSE AddTable(kalloc(s), pagetable, va)

\* map_pages() of one page, in the table walk() has returned.
SetPte(s, va, pte) ==
    IF ~Ok(s) THEN s
    ELSE IF Valid(s.mem[s.ret][L0(va)]) THEN Panic(s, "map_pages, PTE_V and pte")
    ELSE [s EXCEPT !.mem[s.ret][L0(va)] = pte]

map_pages(s, pagetable, va, pa, user) == SetPte(walk(s, pagetable, va), va, Leaf(pa, user))

\* The entry is not cleared.
unmap_kept(s, pagetable, a, free) ==
    IF ~Ok(s) THEN s
    ELSE IF ~Valid(Pte(s, pagetable, a)) THEN Panic(s, "uvmunmap: not mapped")
    ELSE IF free THEN kfree(s, Pte(s, pagetable, a).pa) ELSE s

\* The body of the loop in uvmunmap().
unmap(s, pagetable, a, free) ==
    IF ~Ok(s) THEN s
    ELSE IF ~Valid(Pte(s, pagetable, a)) THEN Panic(s, "uvmunmap: not mapped")
    ELSE [(IF free THEN kfree(s, Pte(s, pagetable, a).pa) ELSE s)
            EXCEPT !.mem[Found(s, pagetable, a)][L0(a)] = NoPte]

\* The count is taken for bytes.
uvmunmap(s, pagetable, va, num_bytes, free) ==
    FoldLeft(LAMBDA t, a : unmap(t, pagetable, a, free),
             s, PageSeq(va, PGROUNDDOWN(va + num_bytes - 1)))

(***************************************************************************)
(* Sizes.                                                                  *)
(***************************************************************************)

\* A page that kalloc() has just returned is mapped.
MapNew(s, pagetable, a, user) == map_pages(s, pagetable, a, s.ret, user)
NewPage(s, pagetable, a) == MapNew(kalloc(s), pagetable, a, TRUE)

\* The old size is not rounded up.
uvmalloc_unrounded(s, pagetable, oldsize, newsize) ==
    IF newsize < oldsize THEN Return(s, oldsize)
    ELSE Return(FoldLeft(LAMBDA t, a : NewPage(t, pagetable, PGROUNDDOWN(a)),
                         s, PageSeq(oldsize, newsize - 1)),
                newsize)

uvmalloc(s, pagetable, oldsize, newsize) ==
    IF newsize < oldsize THEN Return(s, oldsize)
    ELSE Return(FoldLeft(LAMBDA t, a : NewPage(t, pagetable, a),
                         s, PageSeq(PGROUNDUP(oldsize), newsize - 1)),
                newsize)

\* uvmunmap() is given a number of pages.
uvmdealloc(s, pagetable, oldsize, newsize) ==
    LET num == (PGROUNDUP(oldsize) - PGROUNDUP(newsize)) \div PGESIZE
    IN  IF newsize >= oldsize THEN Return(s, oldsize)
        ELSE Return(IF num > 0 THEN uvmunmap(s, pagetable, PGROUNDUP(newsize), num, TRUE) ELSE s,
                    newsize)

uvmclear(s, pagetable, va) ==
    IF ~Ok(s) THEN s
    ELSE [s EXCEPT !.mem[Found(s, pagetable, va)][L0(va)].user = FALSE]

\* The last page is not copied.
uvmcopy_short(s, old, new, size) ==
    FoldLeft(LAMBDA t, a : NewPage(t, new, a), s, PageSeq(0, size - PGESIZE - 1))

CopyPage(s, old, new, a) ==
    IF ~Ok(s) THEN s
    ELSE IF ~Valid(Pte(s, old, a)) THEN Panic(s, "uvmcopy: page not present")
    ELSE MapNew(kalloc(s), new, a, Pte(s, old, a).user)

uvmcopy(s, old, new, size) ==
    FoldLeft(LAMBDA t, a : CopyPage(t, old, new, a), s, PageSeq(0, size - 1))

\* freewalk() of a second-level table: the first half of its entries.
freetable(s, table) ==
    IF ~Ok(s) THEN s
    ELSE IF \E k \in 0 .. VPN \div 2 - 1 : Valid(s.mem[table][k]) THEN Panic(s, "freewalk, leaf")
    ELSE kfree(s, table)

\* freewalk() of a root: the tables in the first half of its entries.
freewalk(s, pagetable) ==
    LET tables == SelectSeq([k \in 1 .. VPN \div 2 |-> s.mem[pagetable][k - 1]], Valid)
    IN  IF ~Ok(s) THEN s
        ELSE kfree(FoldLeft(LAMBDA u, pte : freetable(u, pte.pa), s, tables), pagetable)

uvmfree(s, pagetable, size) ==
    freewalk(IF size > 0 THEN uvmunmap(s, pagetable, 0, size, TRUE) ELSE s, pagetable)

(***************************************************************************)
(* Copies to and from a process.  0 is the answer for an address that is   *)
(* not the process's.                                                      *)
(***************************************************************************)

fetch_pa_addr(s, pagetable, va) ==
    IF va < MAXVA /\ Pte(s, pagetable, va).user THEN Pte(s, pagetable, va).pa ELSE 0

\* copyout(), copyto() and copyinstr() reach every page of the range or fail.
copyout(s, pagetable, va, len) ==
    \A k \in DOMAIN PageSeq(PGROUNDDOWN(va), va + len - 1) :
        fetch_pa_addr(s, pagetable, PageSeq(PGROUNDDOWN(va), va + len - 1)[k]) # 0

(***************************************************************************)
(* Processes.                                                              *)
(***************************************************************************)

\* upaging_create() and the two pages above user memory.
MapKernel(s, pagetable, trapframe) ==
    Return(map_pages(map_pages(s, pagetable, USERVEC, uvec, FALSE),
                     pagetable, TRAPFRAME, trapframe, FALSE), pagetable)
proc_pagetable(s, trapframe) == MapKernel(kalloc(s), kalloc(s).ret, trapframe)

proc_freepagetable(s, pagetable, size) ==
    LET t == uvmunmap(uvmunmap(s, pagetable, USERVEC, 1, FALSE), pagetable, TRAPFRAME, 1, FALSE)
    IN  IF size > 0 THEN uvmfree(t, pagetable, size) ELSE t


freeproc(s, pr) == proc_freepagetable(kfree(s, pr.trapframe), pr.pagetable, pr.size)

UNUSED == [state |-> "UNUSED", pagetable |-> 0, trapframe |-> 0, size |-> 0]
Process(pagetable, trapframe, size) ==
    [state |-> "RUNNABLE", pagetable |-> pagetable, trapframe |-> trapframe, size |-> size]

\* kpage_init() and process_init() take the first pages and keep them.
Kernel == {Page(i) : i \in 0 .. KernelPages - 1}

\* init_user(): the first process has one page.
Boot ==
    LET s == kalloc([bits |-> 0 .. KernelPages - 1, held |-> Kernel, mem |-> [pg \in Pages |-> Cleared],
                     panic |-> "", ret |-> 0, late |-> 0])
        t == proc_pagetable(s, s.ret)
    IN  [phys |-> Return(NewPage(t, t.ret, 0), 0), proc |-> Process(t.ret, s.ret, PGESIZE)]

initproc == CHOOSE p \in Procs : TRUE

Init ==
    /\ phys = Boot.phys
    /\ proc = [p \in Procs |-> IF p = initproc THEN Boot.proc ELSE UNUSED]
    /\ shrunk = {}
    /\ turn = Turns

\* Physical memory as a call begins, and as it ends.
Begin(late) == [phys EXCEPT !.late = late]
End(s) == [s EXCEPT !.ret = 0, !.late = 0]

\* Only another process can free a page meanwhile.
Lates(p) == {k \in 0 .. MaxLate : k > 0 => \E q \in Procs \ {p} : proc[q].state = "RUNNABLE"}

Call(p) ==
    /\ Ok(phys) /\ proc[p].state = "RUNNABLE"
    /\ turn > 0 /\ turn' = turn - 1

growproc(p, n, late) ==
    LET oldsize == proc[p].size
        newsize == Word(oldsize + n)
        s == IF n > 0 THEN uvmalloc(Begin(late), proc[p].pagetable, oldsize, newsize)
             ELSE uvmdealloc(phys, proc[p].pagetable, oldsize, newsize)
    IN
    /\ Call(p)
    /\ n > 0 => oldsize + n <= MaxSize
    /\ phys' = End(s)
    /\ proc' = [proc EXCEPT ![p].size = s.ret]
    /\ shrunk' = IF PGROUNDUP(oldsize) > PGROUNDUP(s.ret) + PGESIZE THEN shrunk \cup {p} ELSE shrunk

\* fork() and alloc_process().
fork(p, q, late) ==
    LET s == kalloc(Begin(late))
        t == proc_pagetable(s, s.ret)
        u == uvmcopy(t, proc[p].pagetable, t.ret, proc[p].size)
    IN
    /\ Call(p) /\ proc[q] = UNUSED
    /\ phys' = End(u)
    /\ proc' = [proc EXCEPT ![q] = Process(t.ret, s.ret, proc[p].size)]
    /\ UNCHANGED shrunk

\* One program header: its faults are found before or after the allocation.
loadseg(s, pagetable, end) ==
    IF Ok(s) /\ ~copyout(s, pagetable, 0, end) THEN Panic(s, "loadseg: address should exist") ELSE s

Loaded(t, s, seg) ==
    [t EXCEPT !.s = loadseg(s, t.pagetable, seg.end), !.size = s.ret,
              !.bad = s.ret = 0 \/ seg.fault = "load"]

Segment(t, seg) ==
    IF t.bad THEN t
    ELSE IF seg.fault = "header" THEN [t EXCEPT !.bad = TRUE]
    ELSE Loaded(t, uvmalloc(t.s, t.pagetable, t.size, seg.end), seg)

\* A guard page and a stack, onto which the arguments are copied.
Guard(s, pagetable) == uvmclear(s, pagetable, s.ret - 2 * PGESIZE)

Stacked(t, s, args) ==
    [t EXCEPT !.s = s, !.size = s.ret,
              !.bad = Ok(s) /\ (args > PGESIZE \/ ~copyout(s, t.pagetable, s.ret - args, args))]

Stack(t, args) ==
    IF t.bad THEN t
    ELSE Stacked(t, Guard(uvmalloc(t.s, t.pagetable, PGROUNDUP(t.size), PGROUNDUP(t.size) + 2 * PGESIZE),
                          t.pagetable), args)

NewSpace(s, image) ==
    Stack(FoldLeft(Segment, [s |-> s, pagetable |-> s.ret, size |-> 0, bad |-> FALSE], image.segments),
          image.args)

\* sys_exec() and exec(): a page for the argument string, a new address space;
\* the old one, or the new one if something was wrong, is freed at the end.
exec(p, image, late) ==
    LET argv == kalloc(Begin(late)) IN
    /\ Call(p)
    /\ IF ~image.magic
       THEN phys' = End(kfree(argv, argv.ret)) /\ UNCHANGED <<proc, shrunk>>
       ELSE \E t \in {NewSpace(proc_pagetable(argv, proc[p].trapframe), image)} :
              LET freed == IF t.bad THEN t ELSE proc[p]
              IN  /\ phys' = End(kfree(proc_freepagetable(t.s, freed.pagetable, freed.size), argv.ret))
                  /\ IF t.bad THEN UNCHANGED <<proc, shrunk>>
                     ELSE /\ proc' = [proc EXCEPT ![p].pagetable = t.pagetable, ![p].size = t.size]
                          /\ shrunk' = IF Ok(phys') THEN shrunk \ {p} ELSE shrunk

\* init never exits.
exit(p) ==
    /\ Call(p) /\ p # initproc
    /\ proc' = [proc EXCEPT ![p].state = "ZOMBIE"]
    /\ UNCHANGED <<phys, shrunk>>

\* wait() frees a zombie.
wait(p, q) ==
    /\ Call(p) /\ proc[q].state = "ZOMBIE"
    /\ phys' = End(freeproc(phys, proc[q]))
    /\ proc' = [proc EXCEPT ![q] = UNUSED]
    /\ shrunk' = IF Ok(phys') THEN shrunk \ {q} ELSE shrunk

Finished == (turn = 0 \/ ~Ok(phys)) /\ UNCHANGED vars

Next ==
    \/ \E p \in Procs :
        \/ \E late \in Lates(p) :
            \/ \E n \in Increments : growproc(p, n, late)
            \/ \E q \in Procs : fork(p, q, late)
            \/ \E image \in Images : exec(p, image, late)
        \/ \E q \in Procs : wait(p, q)
        \/ exit(p)
    \/ Finished

Spec == Init /\ [][Next]_vars

(***************************************************************************)
(* Properties.                                                             *)
(***************************************************************************)

Live == {p \in Procs : proc[p] # UNUSED}

\* The tables below the root of a process, its user addresses that are mapped,
\* and the pages it holds: its page tables, its memory and its trapframe.
Children(p) == {k \in 0 .. VPN - 1 : Valid(phys.mem[proc[p].pagetable][k])}
Mapped(p) ==
    UNION {{(k * VPN + j) * PGESIZE : j \in {x \in 0 .. VPN - 1 :
        Valid(phys.mem[phys.mem[proc[p].pagetable][k].pa][x])}} : k \in Children(p)}
      \ {USERVEC, TRAPFRAME}
Tables(p) == {proc[p].pagetable} \cup {phys.mem[proc[p].pagetable][k].pa : k \in Children(p)}
Memory(p) == {Pte(phys, proc[p].pagetable, va).pa : va \in Mapped(p)}
Owned(p) == Tables(p) \cup Memory(p) \cup {proc[p].trapframe}

\* Pages that kalloc() handed out, that no process has, and kfree() never got.
Lost == phys.held \ (Kernel \cup UNION {Owned(p) : p \in Live})

\* Until kalloc() hands out a page that is in use, a page has one use: tables,
\* memory and trapframes of all processes are distinct pages, none of them the
\* kernel's, and none of them has been given to kfree(), after any sequence of sbrk(), fork(), exec(),
\* exit() and wait().  So the page tables never add a second use of their own,
\* whichever pages the allocator picks; it does not say that the allocator
\* never does, which is false of kfree().
PageOneUse == Ok(phys) =>
    /\ \A p \in Live :
        /\ Cardinality(Owned(p)) = 2 + Cardinality(Children(p)) + Cardinality(Mapped(p))
        /\ Owned(p) \subseteq phys.held \ Kernel
    /\ \A p, q \in Live : p # q => Owned(p) \cap Owned(q) = {}

\* mem_size tells what is mapped: every page below it, and no other unless
\* sbrk() took the size back by more than one page; uvmdealloc() passes a
\* number of pages where uvmunmap() expects bytes.
SizeMapped == Ok(phys) =>
    \A p \in Live :
        LET below == ToSet(PageSeq(0, proc[p].size - 1))
        IN  /\ below \subseteq Mapped(p)
            /\ p \notin shrunk => Mapped(p) = below

\* Up to the first page in use that the allocator hands out or changes, the
\* kernel stops only when the memory is used up, or when a process that took
\* its size back by more than one page grows again or is freed: the other
\* panics of uvmunmap(), uvmcopy(), freewalk() and loadseg() never come.
PanicsExplained ==
    \/ phys.panic \in {"", "no more memory, kalloc", "a page in use is handed out or changed"}
    \/ phys.panic \in {"map_pages, PTE_V and pte", "freewalk, leaf"} /\ shrunk # {}

=============================================================================
