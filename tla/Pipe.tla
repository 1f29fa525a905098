-------------------------------- MODULE Pipe --------------------------------
(***************************************************************************)
(* A pipe: kernel/pipes.c, with the calls of file.c that reach it. One     *)
(* action is one region under the pipe's lock: pipewrite() copies bytes    *)
(* until it is done or the ring is full, piperead() until it is done or    *)
(* the ring is empty. The counters are unsigned and wrap.                  *)
(*                                                                         *)
(* A process holds an end as long as it has a descriptor for it, so it     *)
(* cannot close an end it is using.                                        *)
(*                                                                         *)
(* pipewrite() drops the lock when it finds the reading end closed or the  *)
(* process killed, and goes on without it: the points bare to stored are   *)
(* that one more turn of its loop, with interrupts on. What comes next is  *)
(* release_lock(), which panics.                                           *)
(***************************************************************************)
EXTENDS Integers, Sequences, FiniteSetsExt

CONSTANTS
    Procs,
    Readers,    \* processes that start with the reading end
    Writers,    \* processes that start with the writing end
    PIPESIZE,
    Turns,      \* 2^32 / PIPESIZE: the counters wrap after so many rings
    Bytes,
    MaxCount,   \* bound: the n of a call
    MayKill     \* bound: the processes kill() is called for

ASSUME PipeAssumption ==
    /\ Readers \subseteq Procs
    /\ Writers \subseteq Procs
    /\ PIPESIZE \in Nat \ {0}
    /\ Turns \in Nat \ {0, 1}
    /\ MaxCount \in Nat
    /\ MayKill \subseteq Procs

VARIABLES
    data, num_read, num_write, read_open, write_open,   \* struct pipe
    freed,      \* the page is back in the free list
    rd, wr,     \* who holds the two ends
    pc,         \* per process, where it is
    left,       \* n - i of its call, 0 outside of one
    loaded,     \* num_write as a writer without the lock has read it
    killed,
    ret,        \* the bytes the last piperead() delivered
    halted      \* panic() with interrupts off

ring == <<data, num_read, num_write>>
ends == <<read_open, write_open, freed, rd, wr>>
vars == <<data, num_read, num_write, read_open, write_open, freed, rd, wr, pc,
          left, loaded, killed, ret, halted>>

Bare == {"bare", "copied", "loaded", "counted", "stored"}
Points == {"idle", "write", "wsleep", "read", "rsleep", "panic"} \cup Bare

-----------------------------------------------------------------------------
\* pipealloc()
Init ==
    /\ \E b \in Bytes : data = [i \in 0 .. PIPESIZE - 1 |-> b]
    /\ num_read = 0
    /\ num_write = 0
    /\ read_open = TRUE
    /\ write_open = TRUE
    /\ freed = FALSE
    /\ rd = Readers
    /\ wr = Writers
    /\ pc = [p \in Procs |-> "idle"]
    /\ left = [p \in Procs |-> 0]
    /\ loaded = [p \in Procs |-> 0]
    /\ killed = [p \in Procs |-> FALSE]
    /\ ret = <<>>
    /\ halted = FALSE

\* Faulty variant: a counter that does not wrap at a multiple of PIPESIZE.
Wrap_odd(x) == x % (PIPESIZE * Turns - 1)

Wrap(x) == x % (PIPESIZE * Turns)

Used == Wrap(num_write - num_read)
Full == num_write = Wrap(num_read + PIPESIZE)
Room == Wrap(num_read + PIPESIZE - num_write)   \* bytes until it is Full

At(p, point) == ~halted /\ pc[p] = point

\* wakeup() of one of the two channels, &num_read and &num_write.
wake_readers(st) == [q \in Procs |-> IF st[q] = "rsleep" THEN "read" ELSE st[q]]
wake_writers(st) == [q \in Procs |-> IF st[q] = "wsleep" THEN "write" ELSE st[q]]

-----------------------------------------------------------------------------
\* write_file() and read_file() get to pipewrite() and piperead(). They pass
\* the user's address as n and n as the address: any n may arrive here.
sys_write(p, n) ==
    /\ At(p, "idle")
    /\ p \in wr
    /\ ~killed[p]
    /\ pc' = [pc EXCEPT ![p] = "write"]
    /\ left' = [left EXCEPT ![p] = n]
    /\ UNCHANGED <<ring, ends, loaded, killed, ret, halted>>

sys_read(p, n) ==
    /\ At(p, "idle")
    /\ p \in rd
    /\ ~killed[p]
    /\ pc' = [pc EXCEPT ![p] = "read"]
    /\ left' = [left EXCEPT ![p] = n]
    /\ UNCHANGED <<ring, ends, loaded, killed, ret, halted>>

\* The loop body of pipewrite(), once for each byte of bs.
Put(bs) ==
    /\ data' = [i \in DOMAIN data |->
                  LET at == {k \in DOMAIN bs : (num_write + k - 1) % PIPESIZE = i}
                  IN  IF at = {} THEN data[i] ELSE bs[Max(at)]]
    /\ num_write' = Wrap(num_write + Len(bs))
    /\ UNCHANGED <<num_read, ends, loaded, killed, ret, halted>>

Refused(p) == ~read_open \/ killed[p]

\* The ring is full before the call is done: wake the readers and sleep.
pipewrite_sleep(p, bs) ==
    /\ At(p, "write")
    /\ ~Refused(p)
    /\ Room < left[p]
    /\ Len(bs) = Room
    /\ Put(bs)
    /\ left' = [left EXCEPT ![p] = @ - Room]
    /\ pc' = [wake_readers(pc) EXCEPT ![p] = "wsleep"]

\* Faulty variant: the readers are not told.
pipewrite_done_silent(p, bs) ==
    /\ At(p, "write")
    /\ left[p] = 0 \/ ~Refused(p)
    /\ left[p] <= Room
    /\ Len(bs) = left[p]
    /\ Put(bs)
    /\ left' = [left EXCEPT ![p] = 0]
    /\ pc' = [pc EXCEPT ![p] = "idle"]

pipewrite_done(p, bs) ==
    /\ At(p, "write")
    /\ left[p] = 0 \/ ~Refused(p)
    /\ left[p] <= Room
    /\ Len(bs) = left[p]
    /\ Put(bs)
    /\ left' = [left EXCEPT ![p] = 0]
    /\ pc' = [wake_readers(pc) EXCEPT ![p] = "idle"]

\* copyto() fails after some bytes.
pipewrite_fault(p, bs) ==
    /\ At(p, "write")
    /\ ~Refused(p)
    /\ Len(bs) < left[p]
    /\ Len(bs) < Room
    /\ Put(bs)
    /\ left' = [left EXCEPT ![p] = 0]
    /\ pc' = [wake_readers(pc) EXCEPT ![p] = "idle"]

\* release_lock() without a return.
pipewrite_refused(p) ==
    /\ At(p, "write")
    /\ left[p] > 0
    /\ Refused(p)
    /\ pc' = [pc EXCEPT ![p] = "bare"]
    /\ UNCHANGED <<ring, ends, left, loaded, killed, ret, halted>>

\* sleep() takes the process's lock and releases one that nobody holds.
bare_sleep(p) ==
    /\ At(p, "bare")
    /\ Full
    /\ pc' = [wake_readers(pc) EXCEPT ![p] = "panic"]
    /\ halted' = TRUE
    /\ UNCHANGED <<ring, ends, left, loaded, killed, ret>>

bare_fault(p) ==
    /\ At(p, "bare")
    /\ ~Full
    /\ pc' = [wake_readers(pc) EXCEPT ![p] = "panic"]
    /\ UNCHANGED <<ring, ends, left, loaded, killed, ret, halted>>

bare_copy(p) ==
    /\ At(p, "bare")
    /\ ~Full
    /\ pc' = [pc EXCEPT ![p] = "copied"]
    /\ UNCHANGED <<ring, ends, left, loaded, killed, ret, halted>>

bare_load(p) ==
    /\ At(p, "copied")
    /\ loaded' = [loaded EXCEPT ![p] = num_write]
    /\ pc' = [pc EXCEPT ![p] = "loaded"]
    /\ UNCHANGED <<ring, ends, left, killed, ret, halted>>

\* After the two stores of the byte and the counter: wakeup() only if this
\* was the last byte, then release_lock().
BareDone(p) ==
    pc' = [(IF left[p] = 1 THEN wake_readers(pc) ELSE pc) EXCEPT ![p] = "panic"]

bare_count(p) ==
    /\ \/ At(p, "loaded") /\ pc' = [pc EXCEPT ![p] = "counted"]
       \/ At(p, "stored") /\ BareDone(p)
    /\ num_write' = Wrap(loaded[p] + 1)
    /\ UNCHANGED <<data, num_read, ends, left, loaded, killed, ret, halted>>

bare_store(p, b) ==
    /\ \/ At(p, "loaded") /\ pc' = [pc EXCEPT ![p] = "stored"]
       \/ At(p, "counted") /\ BareDone(p)
    /\ data' = [data EXCEPT ![loaded[p] % PIPESIZE] = b]
    /\ UNCHANGED <<num_read, num_write, ends, left, loaded, killed, ret, halted>>

-----------------------------------------------------------------------------
Min2(a, b) == IF a <= b THEN a ELSE b

\* The bytes from num_read on.
Oldest(k) == [i \in 1 .. k |-> data[(num_read + i - 1) % PIPESIZE]]

MustWait == num_read = num_write /\ write_open

piperead_sleep(p) ==
    /\ At(p, "read")
    /\ MustWait
    /\ ~killed[p]
    /\ pc' = [pc EXCEPT ![p] = "rsleep"]
    /\ UNCHANGED <<ring, ends, left, loaded, killed, ret, halted>>

piperead_killed(p) ==
    /\ At(p, "read")
    /\ MustWait
    /\ killed[p]
    /\ pc' = [pc EXCEPT ![p] = "idle"]
    /\ left' = [left EXCEPT ![p] = 0]
    /\ UNCHANGED <<ring, ends, loaded, killed, ret, halted>>

\* lost: the byte whose copyout() failed has been taken from the ring.
Take(p, k, lost) ==
    /\ At(p, "read")
    /\ ~MustWait
    /\ ret' = Oldest(k)
    /\ num_read' = Wrap(num_read + k + lost)
    /\ pc' = [wake_writers(pc) EXCEPT ![p] = "idle"]
    /\ left' = [left EXCEPT ![p] = 0]
    /\ UNCHANGED <<data, num_write, ends, loaded, killed, halted>>

piperead(p) == Take(p, Min2(left[p], Used), 0)

piperead_fault(p, k) == k < Min2(left[p], Used) /\ Take(p, k, 1)

-----------------------------------------------------------------------------
\* Faulty variants: closing does not wake, or one end frees the page.
pipe_close_silent(writable) ==
    /\ IF writable THEN write_open' = FALSE /\ UNCHANGED read_open
                   ELSE read_open' = FALSE /\ UNCHANGED write_open
    /\ freed' = ~(read_open' \/ write_open')
    /\ UNCHANGED pc
pipe_close_early(writable) ==
    /\ IF writable THEN write_open' = FALSE /\ UNCHANGED read_open
                   ELSE read_open' = FALSE /\ UNCHANGED write_open
    /\ freed' = ~(read_open' /\ write_open')
    /\ pc' = IF writable THEN wake_readers(pc) ELSE wake_writers(pc)

pipe_close(writable) ==
    /\ IF writable THEN write_open' = FALSE /\ UNCHANGED read_open
                   ELSE read_open' = FALSE /\ UNCHANGED write_open
    /\ freed' = ~(read_open' \/ write_open')
    /\ pc' = IF writable THEN wake_readers(pc) ELSE wake_writers(pc)

\* file_close() of an end, by close() or by exit(): the last reference to it
\* closes it.
file_close(p, writable) ==
    /\ At(p, "idle")
    /\ p \in IF writable THEN wr ELSE rd
    /\ wr' = IF writable THEN wr \ {p} ELSE wr
    /\ rd' = IF writable THEN rd ELSE rd \ {p}
    /\ IF (IF writable THEN wr' ELSE rd') = {}
       THEN pipe_close(writable)
       ELSE UNCHANGED <<pc, write_open, read_open, freed>>
    /\ UNCHANGED <<ring, left, loaded, killed, ret, halted>>

\* kill() marks the process and ends its sleep.
kill(p) ==
    /\ ~halted
    /\ ~killed[p]
    /\ killed' = [killed EXCEPT ![p] = TRUE]
    /\ pc' = [pc EXCEPT ![p] = CASE @ = "rsleep" -> "read"
                                 [] @ = "wsleep" -> "write"
                                 [] OTHER -> @]
    /\ UNCHANGED <<ring, ends, left, loaded, ret, halted>>

-----------------------------------------------------------------------------
Strings == UNION {[1 .. n -> Bytes] : n \in 0 .. MaxCount}

WriteStep(p) ==
    /\ At(p, "write")
    /\ \/ \E bs \in Strings : \/ pipewrite_sleep(p, bs)
                              \/ pipewrite_done(p, bs)
                              \/ pipewrite_fault(p, bs)
       \/ pipewrite_refused(p)

BareStep(p) ==
    \/ bare_sleep(p) \/ bare_fault(p) \/ bare_copy(p) \/ bare_load(p)
    \/ bare_count(p) \/ \E b \in Bytes : bare_store(p, b)

ReadStep(p) ==
    /\ At(p, "read")
    /\ \/ piperead_sleep(p) \/ piperead_killed(p) \/ piperead(p)
       \/ \E k \in 0 .. PIPESIZE : piperead_fault(p, k)

Next ==
    \E p \in Procs :
        \/ \E n \in 0 .. MaxCount : sys_write(p, n) \/ sys_read(p, n)
        \/ WriteStep(p) \/ BareStep(p) \/ ReadStep(p)
        \/ \E writable \in BOOLEAN : file_close(p, writable)
        \/ p \in MayKill /\ kill(p)

Spec == Init /\ [][Next]_vars

\* A process in the kernel gets the hart again and again (module Process).
Fairness ==
    \A p \in Procs : WF_vars(WriteStep(p) \/ BareStep(p) \/ ReadStep(p))

FairSpec == Spec /\ Fairness

-----------------------------------------------------------------------------
\* Types of the pipe, its holders and the calls under way.
TypeOK ==
    /\ data \in [0 .. PIPESIZE - 1 -> Bytes]
    /\ num_read \in 0 .. PIPESIZE * Turns - 1
    /\ num_write \in 0 .. PIPESIZE * Turns - 1
    /\ read_open \in BOOLEAN
    /\ write_open \in BOOLEAN
    /\ freed \in BOOLEAN
    /\ rd \subseteq Procs
    /\ wr \subseteq Procs
    /\ pc \in [Procs -> Points]
    /\ left \in [Procs -> Nat]
    /\ loaded \in [Procs -> 0 .. PIPESIZE * Turns - 1]
    /\ killed \in [Procs -> BOOLEAN]
    /\ ret \in Seq(Bytes)
    /\ halted \in BOOLEAN

\* Some writer has gone on without the lock.
Broken == halted \/ \E p \in Procs : pc[p] \in Bare \cup {"panic"}

\* Refinement: the ring with its wrapping counters is a bounded queue. The
\* bytes a read delivers are the oldest ones, each once, in order, whatever
\* reads, writes, faults, kills and closes interleave.
Ch == INSTANCE Channel WITH Capacity <- PIPESIZE, queue <- Oldest(Used),
                            last <- ret, wopen <- write_open, broken <- Broken
ImplementsChannel == Ch!CSpec

\* No wakeup is lost: a sleeping writer faces a full ring and an open reading
\* end, a sleeping reader an empty ring and an open writing end, and neither
\* has been killed. Hence they never sleep on each other.
SleepersBlocked ==
    ~Broken => \A p \in Procs :
        /\ pc[p] = "wsleep" => Full /\ read_open /\ ~killed[p]
        /\ pc[p] = "rsleep" => num_read = num_write /\ write_open /\ ~killed[p]

\* pipe_close() gives the page back only when nobody is inside a call, and
\* nobody can enter one.
FreedUnused ==
    freed => rd = {} /\ wr = {} /\ \A p \in Procs : pc[p] = "idle"

\* A reader comes back once the last writer has closed, or it was killed.
ReadersReturn ==
    \A p \in Procs :
        (pc[p] \in {"read", "rsleep"} /\ (~write_open \/ killed[p]))
        ~> (pc[p] = "idle" \/ halted)

(***************************************************************************)
(* What the check of the lock expects and pipewrite() does not do; the     *)
(* counterexample is in README.md.                                         *)
(***************************************************************************)

\* "If current cpu doesn't have the lock, panic" (release_lock): pipewrite()
\* never releases a lock it does not hold.
ReleasesOnlyHeld == ~halted /\ \A p \in Procs : pc[p] # "panic"

=============================================================================
