------------------------------ MODULE Console ------------------------------
(***************************************************************************)
(* The console and the UART under it: console.c, uart.c and the part of    *)
(* kprintf.c that prints numbers. Keys reach the receive register and are  *)
(* put in the input buffer by the interrupt handler; readers sleep until a *)
(* line is complete. Characters are sent in two ways: console_putc waits   *)
(* for the transmit register, and uart_putc (used for numbers only) puts   *)
(* them in a ring that later interrupts drain.                             *)
(*                                                                         *)
(* One hart runs all of this. It is Free when it holds no spinlock, so     *)
(* that it can take an interrupt or run another process. The device        *)
(* proceeds at any time. What is sent is left out; that something is being *)
(* sent (busy) is kept.                                                    *)
(***************************************************************************)
EXTENDS Integers, Sequences, FiniteSets, SequencesExt

CONSTANTS
    Readers, Writers, \* the processes reading, and those writing or printing
    MayKill,          \* the readers that may be killed
    INPUT_BUF,        \* size of the input buffer
    UART_TX_BUF_SIZE, \* size of the output ring
    Range32,          \* the counters are unsigned and wrap here (2^32 in the code)
    Starts,           \* the counters' common value when the console has been idle for a while
    Keys,             \* the keys that are typed
    Counts,           \* lengths of reads and writes
    NumDump,          \* processes listed by procdump
    MaxKeys, Turns,   \* bounds: keys typed, system calls of a process
    None

ASSUME ConsoleAssumption ==
    /\ MayKill \subseteq Readers /\ Readers \cap Writers = {}
    /\ Counts \subseteq Nat \ {0} /\ {INPUT_BUF, UART_TX_BUF_SIZE, Range32} \subseteq Nat \ {0}
    /\ Range32 % INPUT_BUF = 0 /\ Range32 > INPUT_BUF /\ Range32 > UART_TX_BUF_SIZE

VARIABLES
    buf, read, write, edit,   \* struct console
    holder,                   \* the reader holding console.lock
    tx_w, tx_r,               \* counters of the output ring
    busy,                     \* the device's transmitter is in use
    inintr,                   \* uart_intr is running
    out,                      \* what the current kprintf has still to print
    pc, left, target, killed, \* readers and writers
    keys, turns,
    panicked

Procs == Readers \cup Writers

input == <<buf, read, write, edit>>
ring == <<tx_w, tx_r>>
calls == <<pc, left, target>>
vars == <<buf, read, write, edit, holder, tx_w, tx_r, busy, inintr, out,
          pc, left, target, killed, keys, turns, panicked>>

Plus(a, b) == (a + b) % Range32
Minus(a, b) == (a - b) % Range32
At(i) == buf[i % INPUT_BUF]

Init ==
    /\ buf = [i \in 0 .. INPUT_BUF - 1 |-> "zero"]
    /\ read \in Starts /\ write = read /\ edit = read
    /\ holder = None /\ tx_w = 0 /\ tx_r = 0
    /\ busy = FALSE /\ inintr = FALSE /\ out = <<>>
    /\ pc = [p \in Procs |-> "user"] /\ left = [p \in Procs |-> 0] /\ target = [p \in Procs |-> 0]
    /\ killed = [p \in Procs |-> FALSE] /\ keys = 0 /\ turns = [p \in Procs |-> 0]
    /\ panicked = FALSE

Free == holder = None /\ ~inintr /\ out = <<>> /\ ~panicked

(***************************************************************************)
(* The device: the transmitter has sent its character. A key that arrives  *)
(* while the hart takes no interrupts is one that arrives just after; the  *)
(* same holds for sent, which readers do not observe.                      *)
(***************************************************************************)
sent ==
    /\ busy /\ holder = None
    /\ busy' = FALSE
    /\ UNCHANGED <<input, holder, ring, inintr, out, calls, killed, keys, turns, panicked>>

(***************************************************************************)
(* Sending. console_putc spins, with interrupts off, until the transmitter *)
(* is idle. uart_start empties the ring for as long as it finds it idle.   *)
(***************************************************************************)
console_putc == busy' = TRUE

uart_start(w) ==
    IF w = tx_r \/ busy
      THEN UNCHANGED <<tx_r, busy>>
      ELSE /\ busy' = TRUE
           /\ \E n \in 1 .. Minus(w, tx_r) : tx_r' = Plus(tx_r, n)

uart_full == tx_w = Plus(tx_r, UART_TX_BUF_SIZE)

(* With the ring full uart_putc sleeps. Every caller holds the print lock,  *)
(* so that scheduler() finds the wrong lock depth and panics.               *)
uart_putc ==
    \/ /\ uart_full
       /\ panicked' = TRUE
       /\ UNCHANGED <<ring, busy>>
    \/ /\ ~uart_full
       /\ tx_w' = Plus(tx_w, 1)
       /\ uart_start(tx_w')
       /\ UNCHANGED panicked

(* kprintf: a number by uart_putc, all the rest by console_putc.            *)
kprintf ==
    /\ out # <<>> /\ ~panicked
    /\ out' = Tail(out)
    /\ IF Head(out) = "digit"
         THEN uart_putc
         ELSE console_putc /\ UNCHANGED <<ring, panicked>>
    /\ UNCHANGED <<input, holder, inintr, calls, killed, keys, turns>>

procdump == <<"char">> \o FlattenSeq([i \in 1 .. NumDump |-> <<"digit", "char">>])

(***************************************************************************)
(* The interrupt handler.                                                  *)
(***************************************************************************)
wakeup_readers_one ==
    IF \A p \in Readers : pc[p] # "asleep"
      THEN pc
      ELSE [pc EXCEPT ![CHOOSE p \in Readers : pc[p] = "asleep"] = "woken"]

wakeup_readers == [p \in Procs |-> IF pc[p] = "asleep" THEN "woken" ELSE pc[p]]

(* ^U takes characters back to the last newline, or to the committed ones.  *)
KillLine_read == Minus(edit, read)

KillLine ==
    LET n == Minus(edit, write)
        stop(k) == k = n \/ At(Minus(edit, k + 1)) = "newline"
    IN  CHOOSE k \in 0 .. n : stop(k) /\ \A j \in 0 .. k - 1 : ~stop(j)

erase_back(n) ==
    /\ edit' = Minus(edit, n)
    /\ IF n > 0 THEN console_putc ELSE UNCHANGED busy
    /\ UNCHANGED <<buf, read, write, pc, out>>

store(k) ==
    LET c == IF k = "return" THEN "newline" ELSE k
        e == Plus(edit, 1)
        whole == c \in {"newline", "eof"} \/ e = Plus(read, INPUT_BUF)
    IN  /\ console_putc
        /\ buf' = [buf EXCEPT ![edit % INPUT_BUF] = c]
        /\ edit' = e
        /\ write' = IF whole THEN e ELSE write
        /\ pc' = IF whole THEN wakeup_readers ELSE pc
        /\ UNCHANGED <<read, out>>

console_intr(c) ==
    CASE c = "dump" -> out' = procdump /\ UNCHANGED <<input, busy, pc>>
      [] c = "kill" -> erase_back(KillLine)
      [] c = "delete" -> erase_back(IF edit # write THEN 1 ELSE 0)
      [] OTHER -> IF c # "zero" /\ Minus(edit, read) < INPUT_BUF
                    THEN store(c)
                    ELSE UNCHANGED <<input, busy, pc, out>>

uart_getc(c) ==
    /\ keys < MaxKeys
    /\ keys' = keys + 1
    /\ console_intr(c)

uart_intr_rx ==
    /\ Free \/ (inintr /\ out = <<>> /\ ~panicked)
    /\ \E c \in Keys : uart_getc(c)
    /\ inintr' = TRUE
    /\ UNCHANGED <<holder, ring, left, target, killed, turns, panicked>>

uart_intr_tx ==
    /\ Free /\ ~busy /\ tx_w # tx_r
    /\ inintr' = TRUE
    /\ UNCHANGED <<input, holder, ring, busy, out, calls, killed, keys, turns, panicked>>

uart_intr_end_unsent ==
    /\ inintr /\ out = <<>> /\ ~panicked
    /\ inintr' = FALSE
    /\ UNCHANGED <<input, holder, ring, busy, out, calls, killed, keys, turns, panicked>>

uart_intr_end ==
    /\ inintr /\ out = <<>> /\ ~panicked
    /\ inintr' = FALSE
    /\ uart_start(tx_w)
    /\ UNCHANGED <<input, holder, tx_w, out, calls, killed, keys, turns, panicked>>

(***************************************************************************)
(* Readers. The loop runs with console.lock held, one character a step.    *)
(***************************************************************************)
console_read(p, n) ==
    /\ Free /\ pc[p] = "user" /\ turns[p] < Turns /\ ~killed[p]
    /\ pc' = [pc EXCEPT ![p] = "read"] /\ holder' = p
    /\ left' = [left EXCEPT ![p] = n] /\ target' = [target EXCEPT ![p] = n]
    /\ turns' = [turns EXCEPT ![p] = @ + 1]
    /\ UNCHANGED <<input, ring, busy, inintr, out, killed, keys, panicked>>

rest == <<buf, write, edit, ring, busy, inintr, out, killed, keys, turns, panicked>>

return(p) ==
    /\ pc' = [pc EXCEPT ![p] = "user"] /\ holder' = None
    /\ left' = [left EXCEPT ![p] = 0] /\ target' = [target EXCEPT ![p] = 0]

read_wait(p) ==
    /\ holder = p /\ left[p] > 0 /\ read = write
    /\ IF killed[p]
         THEN return(p)
         ELSE pc' = [pc EXCEPT ![p] = "asleep"] /\ holder' = None /\ UNCHANGED <<left, target>>
    /\ UNCHANGED <<rest, read>>

read_resume(p) ==
    /\ Free /\ pc[p] = "woken"
    /\ pc' = [pc EXCEPT ![p] = "read"] /\ holder' = p
    /\ UNCHANGED <<rest, read, left, target>>

read_eof(p) ==
    /\ holder = p /\ left[p] > 0 /\ read # write /\ At(read) = "eof"
    /\ read' = IF left[p] < target[p] THEN read ELSE Plus(read, 1)
    /\ return(p)
    /\ UNCHANGED rest

(* The character is gone whether or not it could be copied out.             *)
read_char(p, copied) ==
    /\ holder = p /\ left[p] > 0 /\ read # write /\ At(read) # "eof"
    /\ read' = Plus(read, 1)
    /\ IF ~copied \/ At(read) = "newline" \/ left[p] = 1
         THEN return(p)
         ELSE left' = [left EXCEPT ![p] = @ - 1] /\ UNCHANGED <<pc, holder, target>>
    /\ UNCHANGED rest

(***************************************************************************)
(* Writers hold no lock between two characters. A system call with an      *)
(* unknown number prints the process and the call.                         *)
(***************************************************************************)
console_write(p, n) ==
    /\ Free /\ pc[p] = "user" /\ turns[p] < Turns /\ ~killed[p]
    /\ pc' = [pc EXCEPT ![p] = "write"] /\ left' = [left EXCEPT ![p] = n]
    /\ turns' = [turns EXCEPT ![p] = @ + 1]
    /\ UNCHANGED <<input, holder, ring, busy, inintr, out, target, killed, keys, panicked>>

write_char(p, copied) ==
    /\ Free /\ pc[p] = "write"
    /\ IF copied THEN console_putc ELSE UNCHANGED busy
    /\ left' = [left EXCEPT ![p] = IF copied THEN @ - 1 ELSE 0]
    /\ pc' = [pc EXCEPT ![p] = IF left'[p] = 0 THEN "user" ELSE @]
    /\ UNCHANGED <<input, holder, ring, inintr, out, target, killed, keys, turns, panicked>>

syscall_unknown(p) ==
    /\ Free /\ pc[p] = "user" /\ turns[p] < Turns /\ ~killed[p]
    /\ out' = <<"char", "digit", "char", "digit">>
    /\ turns' = [turns EXCEPT ![p] = @ + 1]
    /\ UNCHANGED <<input, holder, ring, busy, inintr, calls, killed, keys, panicked>>

kill(p) ==
    /\ Free /\ ~killed[p]
    /\ killed' = [killed EXCEPT ![p] = TRUE]
    /\ pc' = [pc EXCEPT ![p] = IF @ = "asleep" THEN "woken" ELSE @]
    /\ UNCHANGED <<input, holder, ring, busy, inintr, out, left, target, keys, turns, panicked>>

Handler == uart_intr_rx \/ uart_intr_tx \/ uart_intr_end \/ kprintf

Proceed(p) ==
    \/ read_wait(p) \/ read_resume(p) \/ read_eof(p)
    \/ \E copied \in BOOLEAN : read_char(p, copied) \/ write_char(p, copied)

Call(p) ==
    \/ p \in Readers /\ \E n \in Counts : console_read(p, n)
    \/ p \in Writers /\ (syscall_unknown(p) \/ \E n \in Counts : console_write(p, n))
    \/ p \in MayKill /\ kill(p)

(* Nothing is under way: the console waits for keys and for callers.        *)
Quiet ==
    /\ \/ panicked
       \/ Free /\ tx_w = tx_r /\ \A p \in Procs : pc[p] \in {"user", "asleep"}
    /\ ~busy
    /\ UNCHANGED vars

Next == sent \/ Handler \/ (\E p \in Procs : Proceed(p) \/ Call(p)) \/ Quiet

Spec == Init /\ [][Next]_vars

(* A character being sent is sent at last; the hart takes a pending         *)
(* interrupt, finishes what it began, and runs a process that can go on.    *)
FairSpec ==
    /\ Spec
    /\ WF_vars(sent) /\ WF_vars(uart_intr_tx) /\ WF_vars(uart_intr_end \/ kprintf)
    /\ \A p \in Procs : WF_vars(Proceed(p))

(***************************************************************************)
(* Properties.                                                             *)
(***************************************************************************)

(* The characters between two counters, oldest first.                       *)
Between(a, b) == [i \in 1 .. Minus(b, a) |-> At(Plus(a, i - 1))]

Abstract == INSTANCE Terminal WITH
    Room <- INPUT_BUF, Chars <- (Keys \ {"dump", "kill", "delete", "zero", "return"}) \cup {"newline"},
    ready <- Between(read, write), line <- Between(write, edit)

(* However keys, edits, interrupts and readers interleave, and when the    *)
(* counters wrap, the buffer of console_intr and console_read is a line    *)
(* editor followed by a queue: nothing is lost, repeated or reordered      *)
(* after it was committed, and editing never reaches a committed line.     *)
ImplementsTerminal == Abstract!TSpec

(* Committed input reaches those who wait for it: a reader sleeping in     *)
(* console_read while there is something to read is woken and goes on,     *)
(* unless another reader was faster or the kernel panicked.                *)
InputDelivered ==
    \A p \in Procs :
        (pc[p] \in {"asleep", "woken"} /\ read # write)
            ~> (pc[p] \notin {"asleep", "woken"} \/ read = write \/ panicked)

(* The output ring is always drained: its last character needs the         *)
(* transmit interrupt, which echoes and writes (they use the transmitter   *)
(* without looking at the ring) must not cause to be missed.               *)
OutputDrains == (tx_w # tx_r) ~> (tx_w = tx_r \/ panicked)
=============================================================================
