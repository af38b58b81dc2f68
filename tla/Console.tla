------------------------------ MODULE Console ------------------------------
(***************************************************************************)
(* The console and what may interrupt it: printf, vprintf and _putchar of  *)
(* utils/screen.c under scr_lock, panic_raw of kernel/debug.c, the timer   *)
(* interrupt and the exceptions of arch/x86_64/interrupt, on every CPU.    *)
(* scr_lock is the lock of SpinLock.  A message is one number conversion   *)
(* with its newline; characters are digits and the marks below.            *)
(***************************************************************************)
EXTENDS SpinLock, Integers, Sequences

CONSTANTS BSP,          \* the CPU that runs kernel_main
          BASE, W,      \* base of the numbers, digits of the longest
          COLUMNS, LINES,
          Args,         \* conversions: x, width, precision, padding
          EXP_PRINTS,   \* messages of exp_handler
          MaxExp        \* bound: exceptions in all

ASSUME ConsoleAssumption ==
    /\ BSP \in CPU
    /\ BASE \in Nat \ {0, 1} /\ W \in Nat \ {0}
    /\ COLUMNS \in Nat \ {0} /\ LINES \in Nat \ {0}
    /\ EXP_PRINTS \in Nat \ {0} /\ MaxExp \in Nat
    /\ \A a \in Args : a.x < BASE ^ W /\ a.x > -(BASE ^ W)

SPACE == -1
NL    == -2
MINUS == -3

VARIABLES main,     \* main[c]: where the interrupted program is
          in,       \* in[c]: "main", "isr" (isr_handler), "exp" (exp_handler)
          IF_,      \* the interrupt flag
          lapic,    \* lapic[c]: off, on; irr, isr: pending and in service
          pit,      \* the timer's entry of the IOAPIC is not masked
          virt_start,
          prints,   \* printf calls c has still to make where it is
          arg,      \* the conversion c prints
          todo,     \* what c's vprintf has still to put
          out,      \* what was put by the printf that holds scr_lock
          cursor,   \* xpos, ypos
          stuck     \* CPUs whose handler waits for a printf it interrupted

cvars == <<main, in, IF_, lapic, pit, virt_start, prints, arg, todo, out, cursor, stuck>>
all   == <<vars, cvars>>

Plain == [x |-> 1, width |-> 0, precision |-> 0, padding |-> SPACE]

ConsoleInit ==
    /\ Init
    /\ main = [c \in CPU |-> IF c = BSP THEN "start" ELSE "init"]
    /\ in = [c \in CPU |-> "main"]
    /\ IF_ = [c \in CPU |-> FALSE]
    /\ lapic = [c \in CPU |-> [on |-> FALSE, irr |-> FALSE, isr |-> FALSE]]
    /\ pit = FALSE
    /\ virt_start = FALSE
    /\ prints = [c \in CPU |-> 0]
    /\ arg = [c \in CPU |-> Plain]
    /\ todo = [c \in CPU |-> <<>>]
    /\ out = <<>>
    /\ cursor = [x |-> 0, y |-> 0]
    /\ stuck = {}

-----------------------------------------------------------------------------
(* vprintf: the conversions %u, %d and %X                                  *)

\* Digit i of x, from the left, of W.
Digit(x, i) == (x \div BASE ^ (W - 1 - i)) % BASE

\* Mutant of HANDLE_OPTIONS: a zero in front of the last digit is padding
\* although the precision asks for it.
HANDLE_OPTIONS_no_precision(a, s, q, i) ==
    LET digits  == s.digits \/ q # 0 \/ i = W - 1
        padding == s.padding
                   \/ (q = 0 /\ ~digits /\ a.width <= W /\ i >= W - a.width)
    IN  [digits |-> digits, padding |-> padding,
         text |-> s.text \o IF digits THEN <<q>>
                            ELSE IF padding THEN <<a.padding>> ELSE <<>>]

\* One round of the loop.  The differences are unsigned: a width or precision
\* above the number of digits wraps and is never reached.
HANDLE_OPTIONS(a, s, q, i) ==
    LET first   == s.digits \/ q # 0 \/ i = W - 1
        padding == s.padding
                   \/ (q = 0 /\ ~first /\ a.width <= W /\ i >= W - a.width)
        digits  == first
                   \/ (q = 0 /\ a.precision <= W /\ i >= W - a.precision)
    IN  [digits |-> digits, padding |-> padding,
         text |-> s.text \o IF digits THEN <<q>>
                            ELSE IF padding THEN <<a.padding>> ELSE <<>>]

AbsValue(x) == IF x < 0 THEN -x ELSE x

\* The state of the loop after i rounds.
vprintf(a) ==
    LET round[i \in 0 .. W] ==
            IF i = 0 THEN [digits |-> FALSE, padding |-> FALSE,
                           text |-> IF a.x < 0 THEN <<MINUS>> ELSE <<>>]
            ELSE HANDLE_OPTIONS(a, round[i - 1], Digit(AbsValue(a.x), i - 1), i - 1)
    IN  round[W].text \o <<NL>>

Text == [a \in Args \cup {Plain} |-> vprintf(a)]

-----------------------------------------------------------------------------
(* printf                                                                  *)

Running(c) == main[c] # "halt" /\ c \notin stuck

printf_lock(c) ==
    /\ Running(c) /\ prints[c] > 0
    /\ spin_lock(c)
    /\ todo' = [todo EXCEPT ![c] = Text[arg[c]]]
    /\ UNCHANGED <<main, in, IF_, lapic, pit, virt_start, prints, arg, out,
                   cursor, stuck>>

printf_locked(c) ==
    /\ Running(c)
    /\ spin_acquired(c)
    /\ UNCHANGED <<main, in, IF_, lapic, pit, virt_start, prints, arg, todo,
                   out, cursor, stuck>>

NewLine == [x |-> 0, y |-> IF cursor.y + 1 >= LINES THEN 0 ELSE cursor.y + 1]

Advance(ch) ==
    IF ch = NL \/ cursor.x + 1 >= COLUMNS THEN NewLine
    ELSE [cursor EXCEPT !.x = @ + 1]

putchar(c) ==
    /\ Running(c) /\ pc[c] = "crit" /\ todo[c] # <<>>
    /\ out' = Append(out, Head(todo[c]))
    /\ todo' = [todo EXCEPT ![c] = Tail(@)]
    /\ cursor' = Advance(Head(todo[c]))
    /\ UNCHANGED <<vars, main, in, IF_, lapic, pit, virt_start, prints, arg,
                   stuck>>

printf_unlock(c) ==
    /\ Running(c) /\ todo[c] = <<>>
    /\ spin_unlock(c)
    /\ prints' = [prints EXCEPT ![c] = @ - 1]
    /\ arg' = [arg EXCEPT ![c] = Plain]
    /\ out' = <<>>
    /\ UNCHANGED <<main, in, IF_, lapic, pit, virt_start, todo, cursor, stuck>>

-----------------------------------------------------------------------------
(* The program: kernel_main and ap_main                                    *)

\* c is in its program, between two calls of printf.
AtMain(c, where) ==
    Running(c) /\ in[c] = "main" /\ main[c] = where /\ prints[c] = 0

lapic_init(c) ==
    /\ AtMain(c, "init")
    /\ c # BSP => pit
    /\ lapic' = [lapic EXCEPT ![c].on = TRUE]
    /\ main' = [main EXCEPT ![c] = IF c = BSP THEN "on" ELSE "run"]
    /\ UNCHANGED <<vars, in, IF_, pit, virt_start, prints, arg, todo, out,
                   cursor, stuck>>

\* The entry of the timer is the only one that is unmasked.
ioapic_init ==
    /\ AtMain(BSP, "on")
    /\ pit' = TRUE
    /\ main' = [main EXCEPT ![BSP] = "run"]
    /\ UNCHANGED <<vars, in, IF_, lapic, virt_start, prints, arg, todo, out,
                   cursor,
                   stuck>>

printf_call(c, next_, a) ==
    /\ main' = [main EXCEPT ![c] = next_]
    /\ prints' = [prints EXCEPT ![c] = 1]
    /\ arg' = [arg EXCEPT ![c] = a]
    /\ UNCHANGED <<vars, in, IF_, lapic, pit, virt_start, todo, out, cursor,
                   stuck>>

\* A message of the BSP before the APs are started.
boot_message ==
    /\ AtMain(BSP, "start")
    /\ \E a \in Args : printf_call(BSP, "init", a)

\* The APs are let go, then the BSP starts its VM.
start_virt ==
    /\ AtMain(BSP, "run") /\ ~virt_start
    /\ virt_start' = TRUE
    /\ UNCHANGED <<vars, main, in, IF_, lapic, pit, prints, arg, todo, out,
                   cursor,
                   stuck>>

\* virt_percpu_init returns if no VM is assigned; "BSP %u: %u cores".
last_message ==
    /\ AtMain(BSP, "run") /\ virt_start
    /\ printf_call(BSP, "said", Plain)

\* vmlaunch; the guest takes its interrupts itself.
vmlaunch ==
    /\ AtMain(BSP, "run") /\ virt_start
    /\ main' = [main EXCEPT ![BSP] = "guest"]
    /\ UNCHANGED <<vars, in, IF_, lapic, pit, virt_start, prints, arg, todo,
                   out, cursor,
                   stuck>>

\* virt_main: what virt_diagnose prints, then the panic
virt_main ==
    /\ AtMain(BSP, "guest")
    /\ main' = [main EXCEPT ![BSP] = "panic"]
    /\ prints' = [prints EXCEPT ![BSP] = 2]
    /\ UNCHANGED <<vars, in, IF_, lapic, pit, virt_start, arg, todo, out,
                   cursor, stuck>>

panic_raw(c) ==
    /\ AtMain(c, "run")
    /\ main' = [main EXCEPT ![c] = "panic"]
    /\ IF_' = [IF_ EXCEPT ![c] = FALSE]
    /\ prints' = [prints EXCEPT ![c] = 1]
    /\ UNCHANGED <<vars, in, lapic, pit, virt_start, arg, todo, out, cursor,
                   stuck>>

\* Mutant of halt: the CPU stops before printf has released the lock.
halt_locked(c) ==
    /\ Running(c) /\ in[c] = "main" /\ main[c] = "panic" /\ pc[c] = "crit"
    /\ main' = [main EXCEPT ![c] = "halt"]
    /\ UNCHANGED <<vars, in, IF_, lapic, pit, virt_start, prints, arg, todo,
                   out, cursor,
                   stuck>>

halt(c) ==
    /\ AtMain(c, "panic")
    /\ main' = [main EXCEPT ![c] = "halt"]
    /\ UNCHANGED <<vars, in, IF_, lapic, pit, virt_start, prints, arg, todo,
                   out, cursor, stuck>>

\* Mutant of interrupt_enable: sti comes before the BSP's message.
interrupt_enable_early(c) ==
    /\ Running(c) /\ in[c] = "main" /\ virt_start
    /\ main[c] = IF c = BSP THEN "said" ELSE "run"
    /\ IF_' = [IF_ EXCEPT ![c] = TRUE]
    /\ main' = [main EXCEPT ![c] = IF prints[c] = 0 THEN "idle" ELSE @]
    /\ UNCHANGED <<vars, in, lapic, pit, virt_start, prints, arg, todo, out,
                   cursor, stuck>>

\* An AP waits for virt_start; then sti and "while(1);"
interrupt_enable(c) ==
    /\ AtMain(c, IF c = BSP THEN "said" ELSE "run") /\ virt_start
    /\ IF_' = [IF_ EXCEPT ![c] = TRUE]
    /\ main' = [main EXCEPT ![c] = "idle"]
    /\ UNCHANGED <<vars, in, lapic, pit, virt_start, prints, arg, todo, out,
                   cursor, stuck>>

-----------------------------------------------------------------------------
(* Interrupts and exceptions                                               *)

\* The 8254 ticks; the entry is a broadcast.
pit_tick ==
    /\ pit
    /\ \E c \in CPU : lapic[c].on /\ ~lapic[c].irr
    /\ lapic' = [c \in CPU |-> [lapic[c] EXCEPT !.irr = @ \/ lapic[c].on]]
    /\ UNCHANGED <<vars, main, in, IF_, pit, virt_start, prints, arg, todo,
                   out, cursor, stuck>>

\* The handler interrupts a printf: its own printf waits for it forever.  The
\* ticket that nobody will serve is left out.
Enter(c, handler, n) ==
    /\ in' = [in EXCEPT ![c] = handler]
    /\ IF_' = [IF_ EXCEPT ![c] = FALSE]
    /\ stuck' = IF pc[c] = "idle" THEN stuck ELSE stuck \cup {c}
    /\ prints' = [prints EXCEPT ![c] = n]
    /\ arg' = [arg EXCEPT ![c] = IF pc[c] = "idle" THEN Plain ELSE @]
    /\ UNCHANGED <<vars, main, pit, virt_start, todo, out, cursor>>

\* isr20 through an interrupt gate, which clears the flag.
isr_handler(c) ==
    /\ Running(c) /\ IF_[c] /\ lapic[c].irr /\ ~lapic[c].isr
    /\ lapic' = [lapic EXCEPT ![c].irr = FALSE, ![c].isr = TRUE]
    /\ Enter(c, "isr", 1)

\* Mutant of lapic_eoi: the interrupt is not acknowledged.
lapic_eoi_forgotten(c) ==
    /\ Running(c) /\ in[c] = "isr" /\ prints[c] = 0
    /\ in' = [in EXCEPT ![c] = "main"]
    /\ IF_' = [IF_ EXCEPT ![c] = TRUE]
    /\ UNCHANGED <<vars, main, lapic, pit, virt_start, prints, arg, todo, out,
                   cursor, stuck>>

\* lapic_eoi and iretq, which restores the flag
lapic_eoi(c) ==
    /\ Running(c) /\ in[c] = "isr" /\ prints[c] = 0
    /\ lapic' = [lapic EXCEPT ![c].isr = FALSE]
    /\ in' = [in EXCEPT ![c] = "main"]
    /\ IF_' = [IF_ EXCEPT ![c] = TRUE]
    /\ UNCHANGED <<vars, main, pit, virt_start, prints, arg, todo, out,
                   cursor, stuck>>

\* A fault, an NMI or the spurious vector 0xF; exp_handler does not return.
exp_handler(c) ==
    /\ Cardinality({d \in CPU : in[d] = "exp"}) < MaxExp
    /\ Running(c) /\ in[c] # "exp" /\ main[c] # "guest"
    /\ c # BSP => pit
    /\ UNCHANGED lapic
    /\ Enter(c, "exp", EXP_PRINTS)

-----------------------------------------------------------------------------
Step(c) ==
    \/ printf_lock(c) \/ printf_locked(c) \/ putchar(c) \/ printf_unlock(c)
    \/ c = BSP /\ (boot_message \/ ioapic_init \/ start_virt \/ last_message)
    \/ lapic_init(c) \/ interrupt_enable(c) \/ halt(c)
    \/ isr_handler(c) \/ lapic_eoi(c)

ConsoleNext ==
    \/ pit_tick \/ vmlaunch \/ virt_main
    \/ \E c \in CPU : Step(c) \/ panic_raw(c) \/ exp_handler(c)

\* Every CPU goes on, and takes an interrupt that is pending and enabled.
ConsoleFairness == \A c \in CPU : WF_all(Step(c))

ConsoleSpec == ConsoleInit /\ [][ConsoleNext]_all /\ ConsoleFairness

-----------------------------------------------------------------------------
(* Properties                                                              *)

\* The numeral of x with the asked precision and width, as one formula; what
\* is asked beyond W does not count.
Larger(m, n) == IF m > n THEN m ELSE n
Asked(n)     == IF n <= W THEN n ELSE 0

Numeral(a) ==
    LET x      == AbsValue(a.x)
        own    == CHOOSE k \in 1 .. W : x < BASE ^ k /\ (k = 1 \/ x >= BASE ^ (k - 1))
        digits == Larger(own, Asked(a.precision))
        length == Larger(digits, Asked(a.width))
    IN  (IF a.x < 0 THEN <<MINUS>> ELSE <<>>)
        \o [k \in 1 .. length |-> IF k <= length - digits THEN a.padding
                                  ELSE (x \div BASE ^ (length - k)) % BASE]

Message == [a \in Args \cup {Plain} |-> Numeral(a) \o <<NL>>]

\* The loop of vprintf puts the numeral that the formula gives.
ConversionsRight ==
    \A a \in Args \cup {Plain} : Text[a] = Message[a] /\ Text[a] \in Seq(Int)

\* What printf puts between taking and releasing scr_lock is one message: the
\* numeral with its padding and newline, with no character of another CPU in
\* it, and it stays inside the frame buffer.
PrintsWhole ==
    /\ \A c \in CPU : pc[c] = "crit" => out \o todo[c] = Message[arg[c]]
    /\ cursor.x \in 0 .. COLUMNS - 1 /\ cursor.y \in 0 .. LINES - 1

\* No interrupt handler waits for a printf that it interrupted: interrupts are
\* enabled only where no printf is on the way.
NoSelfDeadlock == \A c \in stuck : in[c] = "exp"

\* A CPU that asks for scr_lock gets it, whatever panics and exceptions happen
\* elsewhere, unless an exception struck inside a printf.
PrintEnds ==
    \A c \in CPU : pc[c] = "spin" ~> (pc[c] = "crit" \/ stuck # {})

\* A tick that reaches an idle CPU is served and acknowledged, so that the next
\* one is served too.
TickServed ==
    \A c \in CPU :
        main[c] = "idle" /\ lapic[c].irr
            ~> (~lapic[c].irr \/ in[c] = "exp" \/ stuck # {})
=============================================================================
