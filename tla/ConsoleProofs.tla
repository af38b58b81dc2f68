---------------------------- MODULE ConsoleProofs ----------------------------
(***************************************************************************)
(* Proofs about Console for every number of CPUs, every set of messages    *)
(* and every order of interrupts, exceptions and panics.                   *)
(***************************************************************************)
EXTENDS Console, SpinLockProofs

-----------------------------------------------------------------------------
(* Interrupts                                                              *)

\* Every step of the console is a step of its lock or leaves it alone.
LEMMA LockSteps == [ConsoleNext]_all => [Next]_vars
<1> SUFFICES ASSUME [ConsoleNext]_all PROVE [Next]_vars
  OBVIOUS
<1>1. CASE \E c \in CPU : printf_lock(c) \/ printf_locked(c) \/ printf_unlock(c)
  BY <1>1 DEF printf_lock, printf_locked, printf_unlock, Next
<1>2. CASE UNCHANGED vars
  BY <1>2
<1> QED
  BY <1>1, <1>2 DEF ConsoleNext, Step, all, putchar, boot_message, ioapic_init,
     start_virt, last_message, printf_call, lapic_init, interrupt_enable, halt,
     isr_handler, lapic_eoi, pit_tick, vmlaunch, virt_main, panic_raw,
     exp_handler, Enter

QuietTypeOK ==
    /\ main \in [CPU -> {"start", "init", "on", "run", "said", "guest", "panic",
                        "halt", "idle"}]
    /\ in \in [CPU -> {"main", "isr", "exp"}]
    /\ IF_ \in [CPU -> BOOLEAN]
    /\ prints \in [CPU -> Nat]
    /\ stuck \subseteq CPU

\* A CPU is in printf only while it has a message to print; interrupts are
\* enabled only in the idle loop, which prints nothing; the timer interrupts
\* only the idle loop, and only an exception waits for a printf of its own CPU.
Quiet ==
    \A c \in CPU :
        /\ c \notin stuck /\ pc[c] # "idle" => prints[c] > 0
        /\ IF_[c] => in[c] = "main" /\ main[c] = "idle"
        /\ in[c] = "isr" => main[c] = "idle"
        /\ in[c] = "main" /\ main[c] = "idle" => prints[c] = 0
        /\ c \in stuck => in[c] = "exp"

QuietInv == IInv /\ QuietTypeOK /\ Quiet

LEMMA InitQuiet == ConsoleInit => QuietInv
<1> SUFFICES ASSUME ConsoleInit PROVE QuietInv
  OBVIOUS
<1>1. IInv
  BY InitIInv DEF ConsoleInit
<1>2. QuietTypeOK
  BY DEF ConsoleInit, QuietTypeOK
<1>3. Quiet
  BY DEF ConsoleInit, Init, Quiet
<1> QED
  BY <1>1, <1>2, <1>3 DEF QuietInv

LEMMA NextQuiet == QuietInv /\ [ConsoleNext]_all => QuietInv'
<1> SUFFICES ASSUME QuietInv, [ConsoleNext]_all PROVE QuietInv'
  OBVIOUS
<1>1. IInv'
  BY LockSteps, NextIInv DEF QuietInv
<1>2. /\ pc \in [CPU -> {"idle", "spin", "crit"}] /\ QuietTypeOK /\ Quiet
      /\ EXP_PRINTS \in Nat
  BY ConsoleAssumption DEF QuietInv, IInv, TypeOK
<1> SUFFICES QuietTypeOK' /\ Quiet'
  BY <1>1 DEF QuietInv
<1>3. ASSUME NEW c \in CPU, printf_lock(c) \/ printf_locked(c) PROVE QuietTypeOK' /\ Quiet'
  BY <1>2, <1>3 DEF printf_lock, printf_locked, spin_lock, spin_acquired,
     QuietTypeOK, Quiet, Running
<1>4. ASSUME NEW c \in CPU, putchar(c) PROVE QuietTypeOK' /\ Quiet'
  BY <1>2, <1>4 DEF putchar, vars, QuietTypeOK, Quiet
<1>5. ASSUME NEW c \in CPU, printf_unlock(c) PROVE QuietTypeOK' /\ Quiet'
  <2>1. prints[c] > 0 /\ prints[c] \in Nat
    BY <1>2, <1>5 DEF printf_unlock, spin_unlock, Running, Quiet, QuietTypeOK
  <2> QED
    BY <2>1, <1>2, <1>5 DEF printf_unlock, spin_unlock, QuietTypeOK, Quiet,
       Running
<1>6. CASE boot_message \/ last_message
  <2>1. QuietTypeOK'
    BY <1>2, <1>6, ConsoleAssumption DEF boot_message, last_message,
       printf_call, AtMain, Running, vars, QuietTypeOK
  <2>2. Quiet'
    BY <1>2, <1>6, ConsoleAssumption DEF boot_message, last_message,
       printf_call, AtMain, Running, vars, QuietTypeOK, Quiet
  <2> QED
    BY <2>1, <2>2
<1>7. CASE ioapic_init \/ vmlaunch \/ start_virt
  <2>1. QuietTypeOK'
    BY <1>2, <1>7, ConsoleAssumption DEF ioapic_init, vmlaunch, start_virt,
       AtMain, Running, vars, QuietTypeOK
  <2>2. Quiet'
    BY <1>2, <1>7, ConsoleAssumption DEF ioapic_init, vmlaunch, start_virt,
       AtMain, Running, vars, QuietTypeOK, Quiet
  <2> QED
    BY <2>1, <2>2
<1>8. ASSUME NEW c \in CPU, lapic_init(c) \/ halt(c) PROVE QuietTypeOK' /\ Quiet'
  <2>1. QuietTypeOK'
    BY <1>2, <1>8 DEF lapic_init, halt, AtMain, Running, vars, QuietTypeOK
  <2>2. Quiet'
    BY <1>2, <1>8 DEF lapic_init, halt, AtMain, Running, vars, QuietTypeOK,
       Quiet
  <2> QED
    BY <2>1, <2>2
<1>9. ASSUME NEW c \in CPU, interrupt_enable(c) PROVE QuietTypeOK' /\ Quiet'
  <2>1. QuietTypeOK'
    BY <1>2, <1>9 DEF interrupt_enable, AtMain, Running, vars, QuietTypeOK
  <2>2. Quiet'
    BY <1>2, <1>9 DEF interrupt_enable, AtMain, Running, vars, QuietTypeOK,
       Quiet
  <2> QED
    BY <2>1, <2>2
<1>10. ASSUME NEW c \in CPU, isr_handler(c) PROVE QuietTypeOK' /\ Quiet'
  BY <1>2, <1>10 DEF isr_handler, Enter, Running, vars, QuietTypeOK, Quiet
<1>11. ASSUME NEW c \in CPU, lapic_eoi(c) PROVE QuietTypeOK' /\ Quiet'
  <2>1. QuietTypeOK'
    BY <1>2, <1>11 DEF lapic_eoi, Running, vars, QuietTypeOK
  <2>2. Quiet'
    BY <1>2, <1>11 DEF lapic_eoi, Running, vars, QuietTypeOK, Quiet
  <2> QED
    BY <2>1, <2>2
<1>12. ASSUME NEW c \in CPU, panic_raw(c) PROVE QuietTypeOK' /\ Quiet'
  BY <1>2, <1>12 DEF panic_raw, AtMain, Running, vars, QuietTypeOK, Quiet
<1>13. ASSUME NEW c \in CPU, exp_handler(c) PROVE QuietTypeOK' /\ Quiet'
  <2>1. QuietTypeOK'
    BY <1>2, <1>13 DEF exp_handler, Enter, Running, vars, QuietTypeOK
  <2>2. Quiet'
    BY <1>2, <1>13 DEF exp_handler, Enter, Running, vars, QuietTypeOK, Quiet
  <2> QED
    BY <2>1, <2>2
<1>14. CASE virt_main
  BY <1>2, <1>14, ConsoleAssumption DEF virt_main, AtMain, Running, vars,
     QuietTypeOK, Quiet
<1>15. CASE pit_tick
  BY <1>2, <1>15 DEF pit_tick, vars, QuietTypeOK, Quiet
<1>16. CASE UNCHANGED all
  BY <1>2, <1>16 DEF all, cvars, vars, QuietTypeOK, Quiet
<1> QED
  BY <1>3, <1>4, <1>5, <1>6, <1>7, <1>8, <1>9, <1>10, <1>11, <1>12, <1>13,
     <1>14,
     <1>15, <1>16 DEF ConsoleNext, Step

\* No interrupt handler ever waits for a printf that it interrupted, for any
\* number of CPUs, ticks and messages: interrupt_enable comes after the last
\* printf of kernel_main, and the idle loop prints nothing.
THEOREM ConsoleNoSelfDeadlock == ConsoleSpec => []NoSelfDeadlock
<1>1. QuietInv => NoSelfDeadlock
  BY DEF QuietInv, QuietTypeOK, Quiet, NoSelfDeadlock
<1> QED
  BY <1>1, InitQuiet, NextQuiet, PTL DEF ConsoleSpec

-----------------------------------------------------------------------------
(* Messages                                                                *)

PrintTypeOK ==
    /\ arg \in [CPU -> Args \cup {Plain}]
    /\ todo \in [CPU -> Seq(Int)]
    /\ out \in Seq(Int)
    /\ cursor \in [x : 0 .. COLUMNS - 1, y : 0 .. LINES - 1]

\* A CPU that waits for scr_lock has its whole message to put; what the holder
\* has put and has still to put is its message; nothing is put by others.
Printing ==
    /\ \A c \in CPU : /\ pc[c] = "spin" => todo[c] = Text[arg[c]]
                      /\ pc[c] = "crit" => out \o todo[c] = Text[arg[c]]
    /\ (\A c \in CPU : pc[c] # "crit") => out = <<>>

PrintInv == QuietInv /\ PrintTypeOK /\ Printing

\* Moving the first character from one sequence to the end of another.
LEMMA MoveHead ==
    ASSUME NEW s \in Seq(Int), NEW t \in Seq(Int), t # <<>>
    PROVE  /\ Append(s, Head(t)) \in Seq(Int) /\ Tail(t) \in Seq(Int)
           /\ Append(s, Head(t)) \o Tail(t) = s \o t
<1>1. Head(t) \in Int /\ Tail(t) \in Seq(Int) /\ Len(t) \in Nat \ {0}
      /\ Head(t) = t[1] /\ Len(Tail(t)) = Len(t) - 1
      /\ \A i \in 1 .. Len(t) - 1 : Tail(t)[i] = t[i + 1]
  OBVIOUS
<1>2. PICK h \in Int : h = Head(t)
  BY <1>1
<1>3. PICK r \in Seq(Int) : r = Tail(t)
  BY <1>1
<1>4. Append(s, h) \in Seq(Int) /\ Len(Append(s, h)) = Len(s) + 1
  OBVIOUS
<1>5. /\ Append(s, h) \o r \in Seq(Int) /\ s \o t \in Seq(Int)
      /\ Len(Append(s, h) \o r) = Len(s) + 1 + Len(r)
      /\ Len(s \o t) = Len(s) + Len(t)
  BY <1>4
<1>6. Len(Append(s, h) \o r) = Len(s \o t)
  BY <1>1, <1>3, <1>5
<1>7. ASSUME NEW i \in 1 .. Len(s \o t)
      PROVE  (Append(s, h) \o r)[i] = (s \o t)[i]
  <2>1. CASE i <= Len(s)
    BY <2>1, <1>4, <1>5
  <2>2. CASE i = Len(s) + 1
    BY <2>2, <1>1, <1>2, <1>4, <1>5
  <2>3. CASE i > Len(s) + 1
    <3>1. (Append(s, h) \o r)[i] = r[i - (Len(s) + 1)]
      BY <2>3, <1>4, <1>5, <1>6
    <3>2. (s \o t)[i] = t[i - Len(s)]
      BY <2>3, <1>5
    <3>3. i - (Len(s) + 1) \in 1 .. Len(t) - 1
      BY <2>3, <1>5
    <3>4. r[i - (Len(s) + 1)] = t[i - (Len(s) + 1) + 1]
      BY <3>3, <1>1, <1>3
    <3>5. i - (Len(s) + 1) + 1 = i - Len(s)
      BY <1>5
    <3> QED
      BY <3>1, <3>2, <3>4, <3>5
  <2>4. i <= Len(s) \/ i = Len(s) + 1 \/ i > Len(s) + 1
    OBVIOUS
  <2> QED
    BY <2>1, <2>2, <2>3, <2>4, Zenon
<1>8. Append(s, h) \o r = s \o t
  BY <1>5, <1>6, <1>7, SeqEqual
<1> QED
  BY <1>1, <1>2, <1>3, <1>4, <1>8

LEMMA EmptyFirst ==
    ASSUME NEW t \in Seq(Int)
    PROVE  <<>> \o t = t
OBVIOUS

LEMMA InitPrint == ConsoleInit => PrintInv
<1> SUFFICES ASSUME ConsoleInit PROVE PrintInv
  OBVIOUS
<1>1. PrintTypeOK
  BY ConsoleAssumption DEF ConsoleInit, PrintTypeOK
<1>2. Printing
  BY DEF ConsoleInit, Init, Printing
<1> QED
  BY <1>1, <1>2, InitQuiet DEF PrintInv

\* Every step keeps the message that is being put whole.
LEMMA NextPrint ==
    ASSUME ConversionsRight, PrintInv, [ConsoleNext]_all
    PROVE  PrintInv'
<1>1. QuietInv' /\ QuietInv
  BY NextQuiet DEF PrintInv
<1>2. /\ pc \in [CPU -> {"idle", "spin", "crit"}] /\ MutualExclusion
      /\ PrintTypeOK /\ Printing /\ QuietTypeOK /\ Quiet
  BY <1>1 DEF PrintInv, QuietInv, IInv, TypeOK, TicketWindow, MutualExclusion, Active
<1>3. \A a \in Args \cup {Plain} : Text[a] \in Seq(Int)
  BY DEF ConversionsRight
<1> SUFFICES PrintTypeOK' /\ Printing'
  BY <1>1 DEF PrintInv
<1>4. CASE UNCHANGED <<pc, arg, todo, out, cursor>>
  BY <1>2, <1>4 DEF PrintTypeOK, Printing
<1>5. ASSUME NEW c \in CPU, printf_lock(c) PROVE PrintTypeOK' /\ Printing'
  <2>1. Text[arg[c]] \in Seq(Int)
    BY <1>2, <1>3 DEF PrintTypeOK
  <2>2. /\ pc[c] = "idle" /\ pc' = [pc EXCEPT ![c] = "spin"]
        /\ todo' = [todo EXCEPT ![c] = Text[arg[c]]]
        /\ UNCHANGED <<arg, out, cursor>>
    BY <1>5 DEF printf_lock, spin_lock
  <2>3. PrintTypeOK'
    BY <1>2, <2>1, <2>2 DEF PrintTypeOK
  <2>4. Printing'
    BY <1>2, <2>2 DEF PrintTypeOK, Printing
  <2> QED
    BY <2>3, <2>4
<1>6. ASSUME NEW c \in CPU, printf_locked(c) PROVE PrintTypeOK' /\ Printing'
  <2>1. /\ pc[c] = "spin" /\ pc' = [pc EXCEPT ![c] = "crit"]
        /\ UNCHANGED <<arg, out, cursor, todo>>
    BY <1>6 DEF printf_locked, spin_acquired
  <2>2. MutualExclusion'
    BY <1>1 DEF QuietInv, IInv, TypeOK, TicketWindow, MutualExclusion, Active
  <2>3. \A d \in CPU : pc[d] # "crit"
    BY <1>2, <2>1, <2>2 DEF MutualExclusion
  <2>4. out = <<>> /\ todo[c] = Text[arg[c]] /\ todo[c] \in Seq(Int)
    BY <1>2, <2>1, <2>3 DEF Printing, PrintTypeOK
  <2>5. out \o todo[c] = Text[arg[c]]
    BY <2>4, EmptyFirst
  <2>6. PrintTypeOK'
    BY <1>2, <2>1 DEF PrintTypeOK
  <2>7. Printing'
    BY <1>2, <2>1, <2>3, <2>5 DEF Printing
  <2> QED
    BY <2>6, <2>7
<1>7. ASSUME NEW c \in CPU, putchar(c) PROVE PrintTypeOK' /\ Printing'
  <2>1. /\ pc[c] = "crit" /\ todo[c] # <<>> /\ todo[c] \in Seq(Int) /\ out \in Seq(Int)
        /\ out' = Append(out, Head(todo[c]))
        /\ todo' = [todo EXCEPT ![c] = Tail(todo[c])]
        /\ cursor' = Advance(Head(todo[c]))
        /\ UNCHANGED <<pc, arg>>
    BY <1>2, <1>7 DEF putchar, vars, PrintTypeOK
  <2>2. out' \in Seq(Int) /\ Tail(todo[c]) \in Seq(Int) /\ out' \o Tail(todo[c]) = out \o todo[c]
    BY <2>1, MoveHead
  <2>3. cursor' \in [x : 0 .. COLUMNS - 1, y : 0 .. LINES - 1]
    <3>1. /\ cursor.x \in 0 .. COLUMNS - 1 /\ cursor.y \in 0 .. LINES - 1
          /\ cursor = [x |-> cursor.x, y |-> cursor.y]
          /\ COLUMNS \in Nat \ {0} /\ LINES \in Nat \ {0}
      BY <1>2, ConsoleAssumption DEF PrintTypeOK
    <3>2. NewLine \in [x : 0 .. COLUMNS - 1, y : 0 .. LINES - 1]
      BY <3>1 DEF NewLine
    <3>3. cursor.x + 1 < COLUMNS =>
          [cursor EXCEPT !.x = @ + 1] \in [x : 0 .. COLUMNS - 1, y : 0 .. LINES - 1]
      BY <3>1
    <3>4. \/ cursor' = NewLine
          \/ /\ ~(cursor.x + 1 >= COLUMNS)
             /\ cursor' = [cursor EXCEPT !.x = @ + 1]
      BY <2>1 DEF Advance
    <3> QED
      BY <3>1, <3>2, <3>3, <3>4
  <2>4. PrintTypeOK'
    BY <1>2, <2>1, <2>2, <2>3 DEF PrintTypeOK
  <2>5. \A d \in CPU : pc[d] = "crit" => d = c
    BY <1>2, <2>1 DEF MutualExclusion
  <2>6. todo'[c] = Tail(todo[c]) /\ \A d \in CPU : d # c => todo'[d] = todo[d]
    BY <1>2, <2>1 DEF PrintTypeOK
  <2>7. Printing'
    BY <1>2, <2>1, <2>2, <2>5, <2>6 DEF Printing
  <2> QED
    BY <2>4, <2>7
<1>8. ASSUME NEW c \in CPU, printf_unlock(c) PROVE PrintTypeOK' /\ Printing'
  <2>1. /\ pc[c] = "crit" /\ pc' = [pc EXCEPT ![c] = "idle"]
        /\ arg' = [arg EXCEPT ![c] = Plain]
        /\ out' = <<>>
        /\ UNCHANGED <<todo, cursor>>
    BY <1>8 DEF printf_unlock, spin_unlock
  <2>2. \A d \in CPU : pc[d] = "crit" => d = c
    BY <1>2, <2>1 DEF MutualExclusion
  <2>3. PrintTypeOK'
    BY <1>2, <2>1 DEF PrintTypeOK
  <2>4. Printing'
    BY <1>2, <2>1, <2>2 DEF Printing, PrintTypeOK
  <2> QED
    BY <2>3, <2>4
<1>9. ASSUME NEW c \in CPU, pc[c] = "idle", NEW a \in Args \cup {Plain},
             arg' = [arg EXCEPT ![c] = a], UNCHANGED <<pc, todo, out, cursor>>
      PROVE  PrintTypeOK' /\ Printing'
  <2>1. PrintTypeOK'
    BY <1>2, <1>9 DEF PrintTypeOK
  <2>2. Printing'
    BY <1>2, <1>9 DEF Printing, PrintTypeOK
  <2> QED
    BY <2>1, <2>2
<1>10. CASE boot_message \/ last_message
  <2>1. PICK a \in Args \cup {Plain} :
            arg' = [arg EXCEPT ![BSP] = a] /\ UNCHANGED <<pc, todo, out, cursor>>
    BY <1>10 DEF boot_message, last_message, printf_call, vars
  <2>2. BSP \in CPU /\ BSP \notin stuck /\ prints[BSP] = 0
    BY <1>10, ConsoleAssumption DEF boot_message, last_message, AtMain, Running
  <2>3. pc[BSP] = "idle"
    BY <2>2, <1>2 DEF Quiet
  <2> QED
    BY <2>1, <2>2, <2>3, <1>9
<1>11. ASSUME NEW c \in CPU, isr_handler(c) \/ exp_handler(c)
       PROVE  PrintTypeOK' /\ Printing'
  <2>1. /\ UNCHANGED <<pc, todo, out, cursor>>
        /\ arg' = [arg EXCEPT ![c] = IF pc[c] = "idle" THEN Plain ELSE arg[c]]
    BY <1>11 DEF isr_handler, exp_handler, Enter, vars
  <2>2. CASE pc[c] = "idle"
    BY <2>1, <2>2, <1>9
  <2>3. CASE pc[c] # "idle"
    <3>1. arg' = arg
      BY <2>1, <2>3, <1>2 DEF PrintTypeOK
    <3> QED
      BY <2>1, <3>1, <1>4
  <2> QED
    BY <2>2, <2>3
<1>12. CASE ioapic_init \/ start_virt \/ pit_tick \/ vmlaunch \/ virt_main
  BY <1>4, <1>12 DEF ioapic_init, start_virt, pit_tick, vmlaunch, virt_main, vars
<1>13. ASSUME NEW c \in CPU,
              lapic_init(c) \/ interrupt_enable(c) \/ halt(c) \/ lapic_eoi(c) \/ panic_raw(c)
       PROVE  PrintTypeOK' /\ Printing'
  BY <1>4, <1>13 DEF lapic_init, interrupt_enable, halt, lapic_eoi, panic_raw, vars
<1>14. CASE UNCHANGED all
  BY <1>4, <1>14 DEF all, cvars, vars
<1> QED
  BY <1>5, <1>6, <1>7, <1>8, <1>10, <1>11, <1>12, <1>13, <1>14 DEF ConsoleNext, Step

\* Every message comes out whole, for any number of CPUs, messages, panics and
\* exceptions: no character of another CPU gets between those of the holder of
\* scr_lock, none is lost, and the cursor stays on the screen.  What the loop
\* of vprintf makes of one conversion is a hypothesis.
THEOREM ConsolePrintsWhole ==
    ASSUME ConversionsRight
    PROVE  ConsoleSpec => []PrintsWhole
<1>1. PrintInv => PrintsWhole
  BY DEF PrintInv, PrintTypeOK, Printing, PrintsWhole, ConversionsRight
<1>2. PrintInv /\ [ConsoleNext]_all => PrintInv'
  BY NextPrint
<1> QED
  BY <1>1, <1>2, InitPrint, PTL DEF ConsoleSpec
=============================================================================
