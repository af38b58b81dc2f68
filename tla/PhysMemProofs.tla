--------------------------- MODULE PhysMemProofs ---------------------------
(***************************************************************************)
(* Proofs about PhysMem for every page size, entry width, memory map and   *)
(* number of outstanding allocations.                                      *)
(***************************************************************************)
EXTENDS PhysMem, WellFoundedInduction, TLAPS

\* Nothing is handed out before kernel_main has set the table up: the ranges
\* it takes are then never ranges that someone holds.
BootFirst == boot.phase # "run" => held = {} /\ op = Idle

\* kernel_main's mem_limit stays where the table can describe it.
MemLimitBound == boot.mem_limit <= ((MM_TABLE_MAX - 1) * WORD) * PG_SIZE

\* The inductive invariants: one for the types, one for the frames.
TypeInv == TypeOK /\ MemLimitBound

IInv == TypeInv /\ BootFirst /\ FramesApart

-----------------------------------------------------------------------------
(* Arithmetic of pages and entries                                         *)

\* What division and remainder are.
LEMMA DivMod ==
    ASSUME NEW a \in Nat, NEW b \in Nat \ {0}
    PROVE  /\ a \div b \in Nat /\ a % b \in Nat /\ a % b < b
           /\ a = b * (a \div b) + (a % b)
OBVIOUS

\* Multiplication is monotonic.
LEMMA MulLe ==
    ASSUME NEW a \in Int, NEW b \in Int, NEW c \in Nat, a <= b
    PROVE  c * a <= c * b
OBVIOUS

\* Rounding up: a bytes are covered by k units of b bytes if a <= k * b.
LEMMA CeilBound ==
    ASSUME NEW a \in Nat, NEW b \in Nat \ {0}, NEW k \in Nat, a <= k * b
    PROVE  (a \div b) + (IF a % b > 0 THEN 1 ELSE 0) <= k
<1> DEFINE q == a \div b
           r == a % b
<1>1. q \in Nat /\ r \in Nat /\ r < b /\ a = b * q + r
    BY DivMod
<1> HIDE DEF q, r
<1>2. ~(q >= k + 1)
    <2> SUFFICES ASSUME q >= k + 1 PROVE FALSE
        OBVIOUS
    <2>1. b * (k + 1) <= b * q
        BY <1>1, MulLe
    <2>2. b * (k + 1) = k * b + b
        OBVIOUS
    <2> QED BY <2>1, <2>2, <1>1
<1>3. ~(q = k /\ r > 0)
    <2> SUFFICES ASSUME q = k, r > 0 PROVE FALSE
        OBVIOUS
    <2>1. a = b * k + r /\ b * k = k * b
        BY <1>1
    <2> QED BY <2>1, <1>1
<1>4. q + (IF r > 0 THEN 1 ELSE 0) <= k
    BY <1>1, <1>2, <1>3
<1> QED BY <1>4 DEF q, r

\* Division is monotonic.
LEMMA DivMono ==
    ASSUME NEW a \in Nat, NEW c \in Nat, NEW b \in Nat \ {0}, a <= c
    PROVE  a \div b <= c \div b
<1> DEFINE q == a \div b
           r == a % b
           u == c \div b
           v == c % b
<1>1. q \in Nat /\ r \in Nat /\ r < b /\ a = b * q + r
    BY DivMod
<1>2. u \in Nat /\ v \in Nat /\ v < b /\ c = b * u + v
    BY DivMod
<1> HIDE DEF q, r, u, v
<1>3. SUFFICES ASSUME q >= u + 1 PROVE FALSE
    BY <1>1, <1>2 DEF q, u
<1>4. b * (u + 1) <= b * q
    BY <1>1, <1>2, <1>3, MulLe
<1>5. b * (u + 1) = b * u + b
    BY <1>2
<1> QED BY <1>1, <1>2, <1>4, <1>5

\* A range that starts on a page boundary: its end is as far into a page as
\* its length.
LEMMA AlignedEndRemain ==
    ASSUME NEW begin \in Nat, NEW length \in Nat, NEW b \in Nat \ {0},
           begin % b = 0
    PROVE  (begin + length) % b <= length
<1> DEFINE q == begin \div b
           u == (begin + length) \div b
           v == (begin + length) % b
<1>1. q \in Nat /\ begin = b * q
    BY DivMod
<1>2. u \in Nat /\ v \in Nat /\ v < b /\ begin + length = b * u + v
    BY DivMod
<1>3. q <= u
    BY DivMono
<1> HIDE DEF q, u, v
<1>4. b * q <= b * u
    BY <1>1, <1>2, <1>3, MulLe
<1>5. v <= length
    BY <1>1, <1>2, <1>4
<1> QED BY <1>5 DEF v

-----------------------------------------------------------------------------
(* What the searches find                                                  *)

\* A search never stops outside the set it looks in.
LEMMA LeastMember ==
    ASSUME NEW S, NEW x \in Least(S)
    PROVE  x \in S /\ \A y \in S : x <= y
BY DEF Least

\* The inner loop of alloc_phys_frames counts num pages only when all of them
\* are free.
LEMMA FullRunIsFree ==
    ASSUME NEW p \in Nat, NEW num \in Nat, NEW cur \in RunEnd(p, num),
           cur = p + num
    PROVE  Bits(p, num) \subseteq mm_table
<1> SUFFICES ASSUME NEW q \in Bits(p, num), q \notin mm_table
             PROVE  FALSE
    OBVIOUS
<1>1. q \in p .. p + num /\ q < p + num
    BY DEF Bits
<1>2. cur <= q
    BY <1>1, LeastMember DEF RunEnd
<1> QED BY <1>1, <1>2

\* The same for alloc_phys_frames_aligned, whose loop also stops at mm_limit.
LEMMA FullAlignedRunIsFree ==
    ASSUME NEW p \in Nat, NEW num \in Nat, NEW cur \in AlignedEnd(p, num),
           cur = p + num
    PROVE  Bits(p, num) \subseteq mm_table
<1> SUFFICES ASSUME NEW q \in Bits(p, num), q \notin mm_table
             PROVE  FALSE
    OBVIOUS
<1>1. q \in p .. p + num /\ q < p + num
    BY DEF Bits
<1>2. cur <= q
    BY <1>1, LeastMember DEF AlignedEnd
<1> QED BY <1>1, <1>2

\* Taking free frames and recording them as handed out keeps both apart.
LEMMA TakeKeepsApart ==
    ASSUME TypeOK, FramesApart,
           NEW p \in Nat, NEW num \in Nat \ {0},
           Bits(p, num) \subseteq mm_table,
           Take(p, num), reserved' = reserved
    PROVE  /\ FramesApart'
           /\ mm_table' \subseteq Nat
           /\ held' \subseteq [base : Nat, num : Nat \ {0}]
<1> DEFINE new == [base |-> p, num |-> num]
<1>1. Pages(new) = Bits(p, num)
    BY DEF Pages
<1>2. held' = held \cup {new} /\ mm_table' = mm_table \ Pages(new)
    BY <1>1 DEF Take
<1>3. HeldPages' = HeldPages \cup Pages(new)
    BY <1>2 DEF HeldPages, Pages, Bits
<1>4. Pages(new) \cap HeldPages = {} /\ Pages(new) \cap reserved = {}
    BY <1>1 DEF FramesApart
<1>5. \A a \in held : Pages(a) \subseteq HeldPages
    BY DEF HeldPages
<1>6. \A a, b \in held' : a # b => Pages(a) \cap Pages(b) = {}
    BY <1>2, <1>4, <1>5 DEF FramesApart
<1>7. (\A a, b \in held : a # b => Pages(a) \cap Pages(b) = {})'
    BY <1>6 DEF Pages, Bits
<1>8. FramesApart'
    BY <1>2, <1>3, <1>4, <1>7 DEF FramesApart
<1>9. new \in [base : Nat, num : Nat \ {0}]
    OBVIOUS
<1> QED BY <1>2, <1>8, <1>9 DEF TypeOK

-----------------------------------------------------------------------------
(* The ranges kernel_main and virt_setup_linux pass                        *)

\* Both range operations touch page numbers only.
LEMMA RangeBits ==
    ASSUME NEW begin \in Nat, NEW length \in Nat
    PROVE  free_bits(begin, length) \subseteq Nat
           /\ take_bits(begin, length) \subseteq Nat
<1> USE PhysAssumption
<1>1. \A x \in Nat, n \in Nat : Bits(x, n) \subseteq Nat
    BY DEF Bits
<1>2. \A a, b \in Int : Sub(a, b) \in Nat
    BY DEF Sub
<1>3. \A a \in Nat : a \div PG_SIZE \in Nat /\ a % PG_SIZE \in Nat
                     /\ a % PG_SIZE < PG_SIZE
    BY DivMod
<1>4. free_bits(begin, length) \subseteq Nat
    <2> DEFINE remain     == begin % PG_SIZE
               end_remain == (begin + length) % PG_SIZE
    <2>1. begin \div PG_SIZE \in Nat /\ (begin \div PG_SIZE) + 1 \in Nat
          /\ remain \in Nat /\ end_remain \in Nat
        BY <1>3
    <2>2. Sub(length, end_remain) \in Nat
          /\ Sub(Sub(length, PG_SIZE - remain), end_remain) \in Nat
        BY <1>2, <2>1
    <2>3. Sub(length, end_remain) \div PG_SIZE \in Nat
          /\ Sub(Sub(length, PG_SIZE - remain), end_remain) \div PG_SIZE \in Nat
        BY <1>3, <2>2
    <2> QED BY <1>1, <2>1, <2>3 DEF free_bits
<1>5. take_bits(begin, length) \subseteq Nat
    <2> DEFINE remain     == begin % PG_SIZE
               end_remain == (begin + length) % PG_SIZE
    <2>1. begin \div PG_SIZE \in Nat /\ remain \in Nat /\ end_remain \in Nat
          /\ end_remain < PG_SIZE
        BY <1>3
    <2>2. length + remain \in Nat
          /\ length + remain + PG_SIZE - end_remain \in Nat
        BY <2>1
    <2>3. (length + remain) \div PG_SIZE \in Nat
          /\ (length + remain + PG_SIZE - end_remain) \div PG_SIZE \in Nat
        BY <1>3, <2>2
    <2> QED BY <1>1, <2>1, <2>3 DEF take_bits
<1> QED BY <1>4, <1>5

\* What physical_free_range gives back of a range that starts on a page
\* boundary was taken by physical_take_range of the same range: rounding
\* inwards on the way out never frees a neighbour's page.
LEMMA FreeWithinTake ==
    ASSUME NEW begin \in Nat, NEW length \in Nat, begin % PG_SIZE = 0
    PROVE  free_bits(begin, length) \subseteq take_bits(begin, length)
<1> USE PhysAssumption
<1> DEFINE first      == begin \div PG_SIZE
           end_remain == (begin + length) % PG_SIZE
           short      == Sub(length, end_remain)
           long       == IF end_remain = 0 THEN length
                         ELSE length + PG_SIZE - end_remain
<1>1. first \in Nat /\ end_remain \in Nat /\ end_remain < PG_SIZE
    BY DivMod
<1>2. end_remain <= length
    BY AlignedEndRemain
<1>3. short \in Nat /\ short <= length
    <2> HIDE DEF end_remain
    <2>1. length - end_remain \in Nat
        BY <1>1, <1>2
    <2>2. (length - end_remain) % ADDR <= length - end_remain
          /\ (length - end_remain) % ADDR \in Nat
        <3> DEFINE d == length - end_remain
                   q == d \div ADDR
                   r == d % ADDR
        <3>1. q \in Nat /\ r \in Nat /\ d = ADDR * q + r
            BY <2>1, DivMod
        <3> HIDE DEF q, r, d
        <3>2. ADDR * q >= 0
            BY <3>1
        <3>3. r <= d /\ r \in Nat
            BY <3>1, <3>2
        <3> QED BY <3>3 DEF r, d
    <2> QED BY <1>1, <2>2 DEF Sub
<1>4. long \in Nat /\ length <= long
    BY <1>1, <1>2
<1>5. short \div PG_SIZE <= long \div PG_SIZE
      /\ short \div PG_SIZE \in Nat /\ long \div PG_SIZE \in Nat
    <2> HIDE DEF short, long
    <2>1. short <= long
        BY <1>3, <1>4
    <2> QED BY <1>3, <1>4, <2>1, DivMono, DivMod
<1>6. free_bits(begin, length) = Bits(first, short \div PG_SIZE)
    BY DEF free_bits
<1>7. take_bits(begin, length) = Bits(first, long \div PG_SIZE)
    BY DEF take_bits
<1> HIDE DEF first, short, long
<1> QED BY <1>1, <1>5, <1>6, <1>7 DEF Bits

-----------------------------------------------------------------------------
(* The type invariant                                                      *)

\* kernel_main starts with a table that has the right types.
LEMMA InitTypeInv == Init => TypeInv
<1> SUFFICES ASSUME Init PROVE TypeInv
    OBVIOUS
<1> USE PhysAssumption
<1>1. op \in NoSearch
    BY DEF Init, Idle, NoSearch
<1>2. 0 \in 0 .. MM_TABLE_MAX - 1
    OBVIOUS
<1>3. TypeOK
    BY <1>1, <1>2 DEF Init, TypeOK, Boot
<1>4. ((MM_TABLE_MAX - 1) * WORD) * PG_SIZE \in Nat
    <2>1. (MM_TABLE_MAX - 1) * WORD \in Nat
        OBVIOUS
    <2> QED BY <2>1
<1>5. MemLimitBound
    BY <1>4 DEF Init, MemLimitBound
<1> QED BY <1>3, <1>5 DEF TypeInv

\* Taking a found frame or run keeps the types.
LEMMA TakeKeepsType ==
    ASSUME TypeOK, NEW p \in Nat, NEW num \in Nat \ {0}, Take(p, num),
           UNCHANGED <<mm_limit, entry_end, reserved, machine, boot>>,
           op' = Idle
    PROVE  TypeOK'
<1>1. op' \in NoSearch
    BY DEF Idle, NoSearch
<1>2. [base |-> p, num |-> num] \in [base : Nat, num : Nat \ {0}]
    OBVIOUS
<1>3. held' \subseteq [base : Nat, num : Nat \ {0}] /\ mm_table' \subseteq Nat
    BY <1>2 DEF TypeOK, Take
<1> QED BY <1>1, <1>3 DEF TypeOK

\* Every operation keeps the types, and entry_end stays an index of mm_table.
LEMMA NextTypeInv == TypeInv /\ [Next]_vars => TypeInv'
<1> SUFFICES ASSUME TypeInv, [Next]_vars PROVE TypeInv'
    OBVIOUS
<1> USE PhysAssumption
<1>t. TypeOK /\ MemLimitBound
    BY DEF TypeInv
<1>1. CASE boot_map_entry
    <2> DEFINE e == machine.map[boot.index]
    <2>1. boot.index \in 1 .. Len(machine.map)
        BY <1>1, <1>t, MachineAssumption DEF boot_map_entry, TypeOK, Boot
    <2>2. /\ e.addr \in Nat /\ e.len \in Nat
          /\ e.addr + e.len <= ((MM_TABLE_MAX - 1) * WORD) * PG_SIZE
        BY <2>1, <1>t, MachineAssumption DEF TypeOK, ByteRange
    <2>3. free_bits(e.addr, e.len) \subseteq Nat
        BY <2>2, RangeBits
    <2>4. mm_table' \subseteq Nat /\ reserved' \subseteq Nat
        BY <1>1, <1>t, <2>3 DEF boot_map_entry, physical_free_range, TypeOK
    <2>5. boot' \in Boot
        <3>1. boot \in Boot /\ boot.index + 1 \in Nat \ {0}
            BY <1>t DEF TypeOK, Boot
        <3>2. PICK limit \in Nat :
                  boot' = [boot EXCEPT !.index = boot.index + 1,
                                       !.mem_limit = limit]
            <4>1. CASE e.available
                <5> DEFINE l == IF e.addr + e.len > boot.mem_limit
                                THEN e.addr + e.len ELSE boot.mem_limit
                <5>1. boot' = [boot EXCEPT !.index = boot.index + 1,
                                           !.mem_limit = l]
                    BY <1>1, <4>1 DEF boot_map_entry
                <5>2. l \in Nat
                    BY <2>2, <3>1 DEF Boot
                <5> QED BY <5>1, <5>2
            <4>2. CASE ~e.available
                <5>1. boot' = [boot EXCEPT !.index = boot.index + 1]
                    BY <1>1, <4>2 DEF boot_map_entry
                <5>2. boot' = [boot EXCEPT !.index = boot.index + 1,
                                           !.mem_limit = boot.mem_limit]
                    BY <5>1, <3>1 DEF Boot
                <5> QED BY <5>2, <3>1 DEF Boot
            <4> QED BY <4>1, <4>2
        <3> QED BY <3>1, <3>2 DEF Boot
    <2>6. boot'.mem_limit = boot.mem_limit \/ boot'.mem_limit = e.addr + e.len
        BY <1>1, <1>t DEF boot_map_entry, TypeOK, Boot
    <2>7. MemLimitBound'
        BY <1>t, <2>2, <2>6 DEF MemLimitBound
    <2>8. TypeOK'
        BY <1>1, <1>t, <2>4, <2>5 DEF boot_map_entry, TypeOK
    <2> QED BY <2>7, <2>8 DEF TypeInv
<1>2. CASE boot_limit
    <2> DEFINE pages == boot.mem_limit \div PG_SIZE
    <2>1. boot.mem_limit \in Nat /\ (MM_TABLE_MAX - 1) * WORD \in Nat
          /\ MM_TABLE_MAX - 1 \in Nat
        BY <1>t DEF TypeOK, Boot
    <2>2. pages \in Nat /\ boot.mem_limit % PG_SIZE \in Nat
        BY <2>1, DivMod
    <2>3. pages <= (MM_TABLE_MAX - 1) * WORD
        <3>1. pages + (IF boot.mem_limit % PG_SIZE > 0 THEN 1 ELSE 0)
                  <= (MM_TABLE_MAX - 1) * WORD
            BY <1>t, <2>1, CeilBound DEF MemLimitBound
        <3> QED BY <2>1, <2>2, <3>1
    <2> HIDE DEF pages
    <2>4. (pages \div WORD) + (IF pages % WORD > 0 THEN 1 ELSE 0)
              <= MM_TABLE_MAX - 1
        BY <2>1, <2>2, <2>3, CeilBound
    <2>5. pages \div WORD \in Nat /\ pages % WORD \in Nat
        BY <2>2, DivMod
    <2>6. mm_limit' = pages
        BY <1>2 DEF boot_limit, physical_set_limit, pages
    <2>7. entry_end' = (pages \div WORD) + (IF pages % WORD > 0 THEN 1 ELSE 0)
        BY <1>2, <2>6 DEF boot_limit, physical_set_limit
    <2>8. mm_limit' \in Nat /\ entry_end' \in 0 .. MM_TABLE_MAX - 1
        BY <2>1, <2>2, <2>4, <2>5, <2>6, <2>7
    <2>9. boot' \in Boot /\ boot'.mem_limit = boot.mem_limit
        BY <1>2, <1>t DEF boot_limit, TypeOK, Boot
    <2> QED BY <1>2, <1>t, <2>8, <2>9
            DEF boot_limit, TypeInv, TypeOK, MemLimitBound
<1>3. CASE boot_take_zero
    <2>1. take_bits(0, PG_SIZE) \subseteq Nat
        BY RangeBits
    <2>2. mm_table' \subseteq Nat /\ reserved' \subseteq Nat
        BY <1>3, <1>t, <2>1 DEF boot_take_zero, physical_take_range, TypeOK
    <2>8. boot' \in Boot /\ boot'.mem_limit = boot.mem_limit
        BY <1>3, <1>t DEF boot_take_zero, TypeOK, Boot
    <2> QED BY <1>3, <1>t, <2>2, <2>8
            DEF boot_take_zero, TypeInv, TypeOK, MemLimitBound
<1>4. CASE boot_take_kernel
    <2>1. take_bits(machine.kernel.addr, machine.kernel.len) \subseteq Nat
        BY <1>t, MachineAssumption, RangeBits DEF TypeOK, ByteRange
    <2>2. mm_table' \subseteq Nat /\ reserved' \subseteq Nat
        BY <1>4, <1>t, <2>1 DEF boot_take_kernel, physical_take_range, TypeOK
    <2>8. boot' \in Boot /\ boot'.mem_limit = boot.mem_limit
        <3>1. boot \in Boot /\ boot' = [boot EXCEPT !.phase = "mods", !.index = 1]
            BY <1>4, <1>t DEF boot_take_kernel, TypeOK
        <3>2. boot'.phase = "mods" /\ boot'.index = 1
              /\ boot'.mem_limit = boot.mem_limit
            BY <3>1 DEF Boot
        <3>3. boot' = [phase |-> "mods", index |-> 1,
                       mem_limit |-> boot.mem_limit]
            BY <3>1 DEF Boot
        <3> QED BY <3>1, <3>2, <3>3 DEF Boot
    <2> QED BY <1>4, <1>t, <2>2, <2>8
            DEF boot_take_kernel, TypeInv, TypeOK, MemLimitBound
<1>5. CASE boot_take_module
    <2> DEFINE mod == machine.mods[boot.index]
    <2>1. boot.index \in 1 .. Len(machine.mods)
        BY <1>5, <1>t, MachineAssumption DEF boot_take_module, TypeOK, Boot
    <2>2. mod.addr \in Nat /\ mod.len \in Nat
        BY <2>1, <1>t, MachineAssumption DEF TypeOK, ByteRange
    <2>3. take_bits(mod.addr, mod.len) \subseteq Nat
        BY <2>2, RangeBits
    <2>4. mm_table' \subseteq Nat /\ reserved' \subseteq Nat
        BY <1>5, <1>t, <2>3 DEF boot_take_module, physical_take_range, TypeOK
    <2>8. boot' \in Boot /\ boot'.mem_limit = boot.mem_limit
        BY <1>5, <1>t DEF boot_take_module, TypeOK, Boot
    <2> QED BY <1>5, <1>t, <2>4, <2>8
            DEF boot_take_module, TypeInv, TypeOK, MemLimitBound
<1>6. CASE boot_done
    BY <1>6, <1>t DEF boot_done, TypeInv, TypeOK, MemLimitBound, Boot
<1> DEFINE FrameTaken ==
        /\ UNCHANGED <<mm_limit, entry_end, op, reserved, machine, boot>>
        /\ \E p \in mm_table : Take(p, 1)
<1>a. ASSUME FrameTaken PROVE TypeInv'
    <2>1. PICK p \in mm_table : Take(p, 1)
        BY <1>a
    <2>2. [base |-> p, num |-> 1] \in [base : Nat, num : Nat \ {0}]
        BY <1>t DEF TypeOK
    <2>3. held' \subseteq [base : Nat, num : Nat \ {0}] /\ mm_table' \subseteq Nat
        BY <1>t, <2>1, <2>2 DEF TypeOK, Take
    <2> QED BY <1>a, <1>t, <2>3 DEF TypeInv, TypeOK, MemLimitBound
<1>7. CASE alloc_phys_frame
    <2>1. FirstFrame(LOWMEM, entry_end) \subseteq mm_table
        BY LeastMember DEF FirstFrame
    <2>2. FrameTaken
        BY <1>7, <2>1 DEF alloc_phys_frame
    <2> QED BY <1>a, <2>2
<1>8. CASE alloc_phys_frame_lowmem
    <2>1. FirstFrame(0, LOWMEM) \subseteq mm_table
        BY LeastMember DEF FirstFrame
    <2>2. FrameTaken
        BY <1>8, <2>1 DEF alloc_phys_frame_lowmem
    <2> QED BY <1>a, <2>2
<1>9. CASE \E b \in held : free_phys_frames(b)
    <2>1. PICK b \in held : free_phys_frames(b)
        BY <1>9
    <2>2. Pages(b) \subseteq Nat
        BY <1>t DEF TypeOK, Pages, Bits
    <2>3. mm_table' \subseteq Nat /\ held' \subseteq held
        BY <1>t, <2>1, <2>2 DEF free_phys_frames, TypeOK
    <2> QED BY <1>t, <2>1, <2>3
            DEF free_phys_frames, TypeInv, TypeOK, MemLimitBound
<1>10. CASE \E k \in 1 .. Len(machine.mods) : free_module(k)
    <2>1. PICK k \in 1 .. Len(machine.mods) : free_module(k)
        BY <1>10
    <2>2. free_bits(machine.mods[k].addr, machine.mods[k].len) \subseteq Nat
        BY <1>t, MachineAssumption, RangeBits DEF TypeOK, ByteRange
    <2>3. mm_table' \subseteq Nat /\ reserved' \subseteq Nat
        BY <1>t, <2>1, <2>2 DEF free_module, physical_free_range, TypeOK
    <2> QED BY <1>t, <2>1, <2>3
            DEF free_module, TypeInv, TypeOK, MemLimitBound
<1>p. \A a \in Nat : a \div WORD \in Nat
    BY DivMod
<1>11. CASE \E n \in Sizes : alloc_phys_frames(n)
    <2>1. PICK n \in Sizes : alloc_phys_frames(n)
        BY <1>11
    <2>2. n \in Nat \ {0} /\ LOWMEM \in Nat /\ LOWMEM * WORD \in Nat
        OBVIOUS
    <2>3. op' \in Search
        BY <2>1, <2>2 DEF alloc_phys_frames, Search
    <2> QED BY <1>t, <2>1, <2>3
            DEF alloc_phys_frames, TypeInv, TypeOK, MemLimitBound
<1>12. CASE \E n \in Sizes : alloc_phys_frames_aligned(n * LARGE_PG)
    <2>1. PICK n \in Sizes : alloc_phys_frames_aligned(n * LARGE_PG)
        BY <1>12
    <2>2. n * LARGE_PG \in Nat \ {0}
        OBVIOUS
    <2>3. LARGE_PG \div WORD \in Nat
        BY <1>p
    <2>4. AlignedStart \in Nat
        BY <2>3 DEF AlignedStart
    <2>5. op' \in Search
        BY <1>p, <2>1, <2>2, <2>4 DEF alloc_phys_frames_aligned, Search
    <2> QED BY <1>t, <2>1, <2>5
            DEF alloc_phys_frames_aligned, TypeInv, TypeOK, MemLimitBound
<1> DEFINE OpOnly ==
        UNCHANGED <<mm_table, mm_limit, entry_end, held, reserved, machine, boot>>
<1>b. ASSUME OpOnly, op' = Idle PROVE TypeInv'
    <2>1. op' \in NoSearch
        BY <1>b DEF Idle, NoSearch
    <2> QED BY <1>b, <1>t, <2>1 DEF TypeInv, TypeOK, MemLimitBound
<1>c. ASSUME op \in Search, NEW i \in Nat, NEW pos \in Nat, OpOnly,
             op' = [op EXCEPT !.i = i, !.pos = pos]
      PROVE  TypeInv'
    <2>1. op' \in Search
        BY <1>c DEF Search
    <2> QED BY <1>c, <1>t, <2>1 DEF TypeInv, TypeOK, MemLimitBound
<1>s. op.kind \in {"frames", "aligned"} =>
          /\ op \in Search /\ op.num \in Nat \ {0}
          /\ op.i \in Nat /\ op.pos \in Nat
    BY <1>t DEF TypeOK, NoSearch, Search
<1>13. CASE frames_fail \/ aligned_fail
    BY <1>13, <1>b DEF frames_fail, aligned_fail
<1>14. CASE frames_skip_entry
    <2>1. op \in Search /\ op.i + 1 \in Nat /\ op.pos + WORD \in Nat
        BY <1>14, <1>s DEF frames_skip_entry
    <2>2. op' = [op EXCEPT !.i = op.i + 1, !.pos = op.pos + WORD]
        BY <1>14 DEF frames_skip_entry
    <2>3. OpOnly
        BY <1>14 DEF frames_skip_entry
    <2> QED BY <1>c, <2>1, <2>2, <2>3
<1>15. CASE frames_try
    <2>1. op.kind = "frames" /\ op \in Search /\ op.num \in Nat \ {0}
        BY <1>15, <1>s DEF frames_try
    <2>2. PICK p \in NextFreeFrom(op.pos) : \E cur \in RunEnd(p, op.num) :
              \/ Take(p, op.num) /\ op' = Idle
              \/ /\ op' = [op EXCEPT !.pos = cur + 1, !.i = (cur + 1) \div WORD]
                 /\ UNCHANGED <<mm_table, held>>
        BY <1>15 DEF frames_try
    <2>3. PICK cur \in RunEnd(p, op.num) :
              \/ Take(p, op.num) /\ op' = Idle
              \/ /\ op' = [op EXCEPT !.pos = cur + 1, !.i = (cur + 1) \div WORD]
                 /\ UNCHANGED <<mm_table, held>>
        BY <2>2
    <2>4. p \in Nat
        <3>1. p \in mm_table
            BY LeastMember DEF NextFreeFrom
        <3> QED BY <1>t, <3>1 DEF TypeOK
    <2>5. cur + 1 \in Nat
        BY <2>1, <2>4, LeastMember DEF RunEnd
    <2>6. UNCHANGED <<mm_limit, entry_end, reserved, machine, boot>>
        BY <1>15 DEF frames_try
    <2>7. CASE Take(p, op.num) /\ op' = Idle
        <3>1. TypeOK'
            BY <1>t, <2>1, <2>4, <2>6, <2>7, TakeKeepsType
        <3> QED BY <1>t, <2>6, <3>1 DEF TypeInv, MemLimitBound
    <2>8. CASE /\ op' = [op EXCEPT !.pos = cur + 1, !.i = (cur + 1) \div WORD]
               /\ UNCHANGED <<mm_table, held>>
        <3>1. op' = [op EXCEPT !.i = (cur + 1) \div WORD, !.pos = cur + 1]
            BY <2>1, <2>8 DEF Search
        <3>2. OpOnly
            BY <2>6, <2>8
        <3>3. (cur + 1) \div WORD \in Nat
            BY <1>p, <2>5
        <3> QED BY <1>c, <2>1, <2>5, <3>1, <3>2, <3>3
    <2> QED BY <2>3, <2>7, <2>8
<1>16. CASE frames_overrun
    <2>1. op' \in NoSearch
        BY <1>16 DEF frames_overrun, NoSearch
    <2> QED BY <1>16, <1>t, <2>1
            DEF frames_overrun, TypeInv, TypeOK, MemLimitBound
<1>17. CASE aligned_skip_entry
    <2>1. op \in Search /\ op.i \in Nat /\ op.pos \in Nat
        BY <1>17, <1>s DEF aligned_skip_entry
    <2>2. LARGE_PG \div WORD \in Nat
        BY <1>p
    <2>3. PICK i \in Nat, pos \in Nat : op' = [op EXCEPT !.i = i, !.pos = pos]
        <3>1. CASE LARGE_PG \div WORD > 0
            <4>1. op.i + (LARGE_PG \div WORD) \in Nat /\ op.pos + LARGE_PG \in Nat
                BY <2>1, <2>2
            <4> QED BY <1>17, <3>1, <4>1 DEF aligned_skip_entry
        <3>2. CASE ~(LARGE_PG \div WORD > 0)
            <4>1. op.i + 1 \in Nat /\ op.pos + WORD \in Nat
                BY <2>1
            <4> QED BY <1>17, <3>2, <4>1 DEF aligned_skip_entry
        <3> QED BY <3>1, <3>2
    <2>4. OpOnly
        BY <1>17 DEF aligned_skip_entry
    <2> QED BY <1>c, <2>1, <2>3, <2>4
<1>18. CASE aligned_try
    <2> DEFINE Again(cur) ==
            /\ op' = [op EXCEPT !.pos = RoundUp(cur + 1, LARGE_PG),
                                !.i = RoundUp(cur + 1, LARGE_PG) \div WORD]
            /\ UNCHANGED <<mm_table, held>>
    <2>1. op.kind = "aligned" /\ op \in Search /\ op.num \in Nat \ {0}
          /\ op.pos \in Nat
        BY <1>18, <1>s DEF aligned_try
    <2>0. PICK p \in AlignedCandidate(op.pos) :
              \E cur \in AlignedEnd(p, op.num) :
                 (Take(p, op.num) /\ op' = Idle) \/ Again(cur)
        BY <1>18 DEF aligned_try
    <2>2. PICK cur \in AlignedEnd(p, op.num) :
              (Take(p, op.num) /\ op' = Idle) \/ Again(cur)
        BY <2>0
    <2>3. p \in Nat
        <3>1. p \in op.pos .. RoundUp(op.pos + mm_limit, LARGE_PG)
            BY LeastMember DEF AlignedCandidate
        <3> QED BY <2>1, <3>1
    <2>4. cur \in Nat
        BY <2>1, <2>3, LeastMember DEF AlignedEnd
    <2>5. RoundUp(cur + 1, LARGE_PG) \in Nat
        <3>1. cur + 1 + LARGE_PG - 1 \in Nat
            BY <2>4
        <3>2. (cur + 1 + LARGE_PG - 1) \div LARGE_PG \in Nat
            BY <3>1, DivMod
        <3> QED BY <3>2 DEF RoundUp
    <2>6. UNCHANGED <<mm_limit, entry_end, reserved, machine, boot>>
        BY <1>18 DEF aligned_try
    <2>7. CASE Take(p, op.num) /\ op' = Idle
        <3>1. TypeOK'
            BY <1>t, <2>1, <2>3, <2>6, <2>7, TakeKeepsType
        <3> QED BY <1>t, <2>6, <3>1 DEF TypeInv, MemLimitBound
    <2>8. CASE Again(cur)
        <3> DEFINE pos == RoundUp(cur + 1, LARGE_PG)
        <3>1. op' = [op EXCEPT !.i = pos \div WORD, !.pos = pos]
            BY <2>1, <2>8 DEF Search
        <3>2. OpOnly
            BY <2>6, <2>8
        <3>3. pos \div WORD \in Nat
            BY <1>p, <2>5
        <3> QED BY <1>c, <2>1, <2>5, <3>1, <3>2, <3>3
    <2> QED BY <2>2, <2>7, <2>8
<1>19. CASE overrun_spin \/ UNCHANGED vars
    BY <1>19, <1>t DEF overrun_spin, vars, TypeInv, TypeOK, MemLimitBound
<1> QED BY <1>1, <1>2, <1>3, <1>4, <1>5, <1>6, <1>7, <1>8, <1>9, <1>10, <1>11,
           <1>12, <1>13, <1>14, <1>15, <1>16, <1>17, <1>18, <1>19 DEF Next

-----------------------------------------------------------------------------
(* Frames in use and free frames                                           *)

\* kernel_main starts with nothing handed out.
LEMMA InitIInv == Init => IInv
<1> SUFFICES ASSUME Init PROVE IInv
    OBVIOUS
<1>1. TypeInv
    BY InitTypeInv
<1>2. held = {} /\ mm_table = {} /\ op = Idle
    BY DEF Init
<1>3. HeldPages = {}
    BY <1>2 DEF HeldPages
<1>4. FramesApart
    BY <1>2, <1>3 DEF FramesApart
<1> QED BY <1>1, <1>2, <1>4 DEF IInv, BootFirst

\* physical_free_range and physical_take_range keep the table and the reserved
\* pages apart while nothing of the range is handed out.
LEMMA RangeKeepsApart ==
    ASSUME FramesApart, held' = held, NEW S,
           \/ mm_table' = mm_table \cup S /\ reserved' = reserved \ S
           \/ mm_table' = mm_table \ S /\ reserved' = reserved \cup S,
           S \cap HeldPages = {}
    PROVE  FramesApart'
<1>1. HeldPages' = HeldPages
    BY DEF HeldPages, Pages, Bits
<1>2. (\A a, b \in held : a # b => Pages(a) \cap Pages(b) = {})'
    BY DEF FramesApart, Pages, Bits
<1>3. HeldPages' \cap mm_table' = {}
    BY <1>1 DEF FramesApart
<1>4. reserved' \cap mm_table' = {} /\ reserved' \cap HeldPages' = {}
    BY <1>1 DEF FramesApart
<1> QED BY <1>2, <1>3, <1>4 DEF FramesApart

\* Giving frames back keeps the table and what is handed out apart.
LEMMA FreeKeepsApart ==
    ASSUME FramesApart, NEW b \in held, mm_table' = mm_table \cup Pages(b),
           held' = held \ {b}, reserved' = reserved
    PROVE  FramesApart'
<1>1. HeldPages' = UNION {Pages(a) : a \in held \ {b}}
    BY DEF HeldPages, Pages, Bits
<1>2. HeldPages' \subseteq HeldPages /\ Pages(b) \subseteq HeldPages
    BY <1>1 DEF HeldPages
<1>3. HeldPages' \cap Pages(b) = {}
    BY <1>1 DEF FramesApart
<1>4. (\A a, c \in held : a # c => Pages(a) \cap Pages(c) = {})'
    BY DEF FramesApart, Pages, Bits
<1>5. HeldPages' \cap mm_table' = {}
    BY <1>2, <1>3 DEF FramesApart
<1>6. reserved' \cap mm_table' = {} /\ reserved' \cap HeldPages' = {}
    BY <1>2 DEF FramesApart
<1> QED BY <1>4, <1>5, <1>6 DEF FramesApart

\* The steps of allocations and searches: what is neither kernel_main filling
\* the table nor a free.
AllocStep ==
    \/ alloc_phys_frame \/ alloc_phys_frame_lowmem
    \/ \E n \in Sizes : alloc_phys_frames(n)
    \/ frames_fail \/ frames_skip_entry \/ frames_try
    \/ frames_overrun \/ overrun_spin
    \/ \E n \in Sizes : alloc_phys_frames_aligned(n * LARGE_PG)
    \/ aligned_fail \/ aligned_skip_entry \/ aligned_try

\* Such a step hands out a run of free frames, or changes nothing in the table.
LEMMA AllocTakesFree ==
    ASSUME TypeOK, AllocStep
    PROVE  /\ UNCHANGED <<mm_limit, entry_end, reserved, machine, boot>>
           /\ \/ UNCHANGED <<mm_table, held>>
              \/ \E p \in Nat, num \in Nat \ {0} :
                    Bits(p, num) \subseteq mm_table /\ Take(p, num)
<1> USE PhysAssumption
<1>1. UNCHANGED <<mm_limit, entry_end, reserved, machine, boot>>
    BY DEF AllocStep, alloc_phys_frame, alloc_phys_frame_lowmem,
           alloc_phys_frames, frames_fail, frames_skip_entry, frames_try,
           frames_overrun, overrun_spin, vars, alloc_phys_frames_aligned,
           aligned_fail, aligned_skip_entry, aligned_try
<1> DEFINE Found == \E p \in Nat, num \in Nat \ {0} :
                        Bits(p, num) \subseteq mm_table /\ Take(p, num)
<1>2. CASE alloc_phys_frame \/ alloc_phys_frame_lowmem
    <2>1. FirstFrame(LOWMEM, entry_end) \subseteq mm_table
          /\ FirstFrame(0, LOWMEM) \subseteq mm_table
        BY LeastMember DEF FirstFrame
    <2>2. PICK p \in mm_table : Take(p, 1)
        BY <1>2, <2>1 DEF alloc_phys_frame, alloc_phys_frame_lowmem
    <2>3. p \in Nat /\ 1 \in Nat \ {0}
        BY DEF TypeOK
    <2>4. Bits(p, 1) \subseteq mm_table
        BY <2>3 DEF Bits
    <2>5. Found
        BY <2>2, <2>3, <2>4
    <2> QED BY <1>1, <2>5
<1>3. CASE \/ \E n \in Sizes : alloc_phys_frames(n)
           \/ \E n \in Sizes : alloc_phys_frames_aligned(n * LARGE_PG)
           \/ frames_fail \/ frames_skip_entry \/ frames_overrun
           \/ overrun_spin \/ aligned_fail \/ aligned_skip_entry
    BY <1>1, <1>3
    DEF alloc_phys_frames, frames_fail, frames_skip_entry, frames_overrun,
        overrun_spin, vars, alloc_phys_frames_aligned, aligned_fail,
        aligned_skip_entry
<1>n. op.kind \in {"frames", "aligned"} =>
          op.num \in Nat \ {0} /\ op.pos \in Nat
    BY DEF TypeOK, NoSearch, Search
<1>4. CASE frames_try
    <2>1. op.num \in Nat \ {0}
        BY <1>4, <1>n DEF frames_try
    <2>2. PICK p \in NextFreeFrom(op.pos) : \E cur \in RunEnd(p, op.num) :
              \/ cur = p + op.num /\ Take(p, op.num)
              \/ UNCHANGED <<mm_table, held>>
        BY <1>4 DEF frames_try
    <2>3. p \in Nat
        <3>1. p \in mm_table
            BY LeastMember DEF NextFreeFrom
        <3> QED BY <3>1 DEF TypeOK
    <2>4. CASE \E cur \in RunEnd(p, op.num) :
                   cur = p + op.num /\ Take(p, op.num)
        <3>1. Bits(p, op.num) \subseteq mm_table
            BY <2>1, <2>3, <2>4, FullRunIsFree
        <3>2. Found
            BY <2>1, <2>3, <2>4, <3>1
        <3> QED BY <1>1, <3>2
    <2> QED BY <1>1, <2>2, <2>4
<1>5. CASE aligned_try
    <2>1. op.num \in Nat \ {0} /\ op.pos \in Nat
        BY <1>5, <1>n DEF aligned_try
    <2>2. PICK p \in AlignedCandidate(op.pos) :
              \E cur \in AlignedEnd(p, op.num) :
                 \/ cur = p + op.num /\ Take(p, op.num)
                 \/ UNCHANGED <<mm_table, held>>
        BY <1>5 DEF aligned_try
    <2>3. p \in Nat
        <3>1. p \in op.pos .. RoundUp(op.pos + mm_limit, LARGE_PG)
            BY LeastMember DEF AlignedCandidate
        <3> QED BY <2>1, <3>1
    <2>4. CASE \E cur \in AlignedEnd(p, op.num) :
                   cur = p + op.num /\ Take(p, op.num)
        <3>1. Bits(p, op.num) \subseteq mm_table
            BY <2>1, <2>3, <2>4, FullAlignedRunIsFree
        <3>2. Found
            BY <2>1, <2>3, <2>4, <3>1
        <3> QED BY <1>1, <3>2
    <2> QED BY <1>1, <2>2, <2>4
<1> QED BY <1>2, <1>3, <1>4, <1>5 DEF AllocStep

\* Every operation keeps the frames apart.
LEMMA NextIInv == IInv /\ [Next]_vars => IInv'
<1> SUFFICES ASSUME IInv, [Next]_vars PROVE IInv'
    OBVIOUS
<1> USE PhysAssumption
<1>t. TypeOK /\ BootFirst /\ FramesApart /\ TypeInv'
    BY NextTypeInv DEF IInv, TypeInv
<1>r. ASSUME boot.phase # "run", held' = held, op' = op,
             NEW S,
             \/ mm_table' = mm_table \cup S /\ reserved' = reserved \ S
             \/ mm_table' = mm_table \ S /\ reserved' = reserved \cup S
      PROVE  IInv'
    <2>1. held = {} /\ op = Idle
        BY <1>t, <1>r DEF BootFirst
    <2>2. S \cap HeldPages = {}
        BY <2>1 DEF HeldPages
    <2>3. FramesApart'
        BY <1>t, <1>r, <2>2, RangeKeepsApart
    <2>4. BootFirst'
        BY <1>r, <2>1 DEF BootFirst, Idle
    <2> QED BY <1>t, <2>3, <2>4 DEF IInv
<1>1. CASE boot_map_entry
    <2> DEFINE e == machine.map[boot.index]
    <2>1. boot.phase # "run" /\ held' = held /\ op' = op
        BY <1>1 DEF boot_map_entry
    <2>2. CASE e.available
        <3>1. /\ mm_table' = mm_table \cup free_bits(e.addr, e.len)
              /\ reserved' = reserved \ free_bits(e.addr, e.len)
            BY <1>1, <2>2 DEF boot_map_entry, physical_free_range
        <3> QED BY <1>r, <2>1, <3>1
    <2>3. CASE ~e.available
        <3>1. mm_table' = mm_table \cup {} /\ reserved' = reserved \ {}
            BY <1>1, <2>3 DEF boot_map_entry
        <3> QED BY <1>r, <2>1, <3>1
    <2> QED BY <2>2, <2>3
<1>2. CASE boot_limit \/ boot_done
    <2>1. boot.phase # "run" /\ held' = held /\ op' = op
        BY <1>2 DEF boot_limit, boot_done
    <2>2. mm_table' = mm_table \cup {} /\ reserved' = reserved \ {}
        BY <1>2 DEF boot_limit, boot_done
    <2> QED BY <1>r, <2>1, <2>2
<1>3. CASE boot_take_zero
    BY <1>3, <1>r DEF boot_take_zero, physical_take_range
<1>4. CASE boot_take_kernel
    BY <1>4, <1>r DEF boot_take_kernel, physical_take_range
<1>5. CASE boot_take_module
    BY <1>5, <1>r DEF boot_take_module, physical_take_range
<1>f. ASSUME boot.phase = "run", boot' = boot, reserved' = reserved,
             NEW p \in Nat, NEW num \in Nat \ {0},
             Bits(p, num) \subseteq mm_table, Take(p, num)
      PROVE  IInv'
    <2>1. FramesApart'
        BY <1>t, <1>f, TakeKeepsApart
    <2>2. BootFirst'
        BY <1>f DEF BootFirst
    <2> QED BY <1>t, <2>1, <2>2 DEF IInv
<1>9. CASE \E b \in held : free_phys_frames(b)
    <2>1. PICK b \in held : free_phys_frames(b)
        BY <1>9
    <2>2. FramesApart'
        BY <1>t, <2>1, FreeKeepsApart DEF free_phys_frames
    <2>3. BootFirst'
        BY <2>1 DEF free_phys_frames, Ready, BootFirst
    <2> QED BY <1>t, <2>2, <2>3 DEF IInv
<1>10. CASE \E k \in 1 .. Len(machine.mods) : free_module(k)
    <2>1. PICK k \in 1 .. Len(machine.mods) : free_module(k)
        BY <1>10
    <2> DEFINE mod == machine.mods[k]
    <2>2. mod.addr \in Nat /\ mod.len \in Nat /\ mod.addr % PG_SIZE = 0
        BY <1>t, MachineAssumption DEF TypeOK, ByteRange
    <2>3. free_bits(mod.addr, mod.len) \subseteq reserved
        <3>1. free_bits(mod.addr, mod.len) \subseteq take_bits(mod.addr, mod.len)
            BY <2>2, FreeWithinTake
        <3> QED BY <2>1, <3>1 DEF free_module
    <2>4. free_bits(mod.addr, mod.len) \cap HeldPages = {}
        BY <1>t, <2>3 DEF FramesApart
    <2>5. /\ mm_table' = mm_table \cup free_bits(mod.addr, mod.len)
          /\ reserved' = reserved \ free_bits(mod.addr, mod.len)
          /\ held' = held
        BY <2>1 DEF free_module, physical_free_range
    <2>6. FramesApart'
        BY <1>t, <2>4, <2>5, RangeKeepsApart
    <2>7. BootFirst'
        BY <2>1 DEF free_module, Ready, BootFirst
    <2> QED BY <1>t, <2>6, <2>7 DEF IInv
<1>11. CASE AllocStep
    <2>1. boot.phase = "run"
        <3>1. CASE op = Idle
            BY <1>11, <3>1
            DEF AllocStep, alloc_phys_frame, alloc_phys_frame_lowmem,
                alloc_phys_frames, frames_fail, frames_skip_entry, frames_try,
                frames_overrun, overrun_spin, alloc_phys_frames_aligned,
                aligned_fail, aligned_skip_entry, aligned_try, Ready, Idle
        <3> QED BY <1>t, <3>1 DEF BootFirst
    <2>2. UNCHANGED <<reserved, boot>>
        BY <1>t, <1>11, AllocTakesFree
    <2>3. CASE UNCHANGED <<mm_table, held>>
        <3>1. FramesApart'
            BY <1>t, <2>2, <2>3 DEF FramesApart, HeldPages, Pages, Bits
        <3>2. BootFirst'
            BY <2>1, <2>2 DEF BootFirst
        <3> QED BY <1>t, <3>1, <3>2 DEF IInv
    <2>4. CASE \E p \in Nat, num \in Nat \ {0} :
                   Bits(p, num) \subseteq mm_table /\ Take(p, num)
        BY <1>f, <2>1, <2>2, <2>4
    <2> QED BY <1>t, <1>11, <2>3, <2>4, AllocTakesFree
<1>16. CASE UNCHANGED vars
    <2>1. FramesApart'
        BY <1>t, <1>16 DEF vars, FramesApart, HeldPages, Pages, Bits
    <2>2. BootFirst'
        BY <1>t, <1>16 DEF vars, BootFirst, Idle
    <2> QED BY <1>t, <2>1, <2>2 DEF IInv
<1> QED BY <1>1, <1>2, <1>3, <1>4, <1>5, <1>9, <1>10, <1>11, <1>16
        DEF Next, AllocStep

-----------------------------------------------------------------------------
(* Which frames are usable                                                 *)

\* Multiplication by a positive number can be undone.
LEMMA ExactDiv ==
    ASSUME NEW k \in Nat, NEW b \in Nat \ {0}
    PROVE  (b * k) \div b = k
<1> DEFINE q == (b * k) \div b
           r == (b * k) % b
<1>1. b * k \in Nat
    OBVIOUS
<1>2. q \in Nat /\ r \in Nat /\ r < b /\ b * k = b * q + r
    BY <1>1, DivMod
<1> HIDE DEF q, r
<1>3. ~(q >= k + 1)
    <2> SUFFICES ASSUME q >= k + 1 PROVE FALSE
        OBVIOUS
    <2>1. b * (k + 1) <= b * q
        BY <1>2, MulLe
    <2> QED BY <1>2, <2>1
<1>4. ~(k >= q + 1)
    <2> SUFFICES ASSUME k >= q + 1 PROVE FALSE
        OBVIOUS
    <2>1. b * (q + 1) <= b * k /\ b * (q + 1) = b * q + b
        BY <1>2, MulLe
    <2> QED BY <1>2, <2>1
<1>5. q = k
    BY <1>2, <1>3, <1>4
<1> QED BY <1>5 DEF q

\* A difference that does not underflow is the difference.
LEMMA SubExact ==
    ASSUME NEW a \in Nat, NEW b \in Nat, b <= a, a < ADDR
    PROVE  Sub(a, b) = a - b
<1> USE PhysAssumption
<1> DEFINE d == a - b
           q == d \div ADDR
           r == d % ADDR
<1>1. d \in Nat /\ d < ADDR
    OBVIOUS
<1>2. q \in Nat /\ r \in Nat /\ d = ADDR * q + r
    BY <1>1, DivMod
<1> HIDE DEF q, r
<1>3. ~(q >= 1)
    <2> SUFFICES ASSUME q >= 1 PROVE FALSE
        OBVIOUS
    <2>1. ADDR * 1 <= ADDR * q
        BY <1>2, MulLe
    <2> QED BY <1>1, <1>2, <2>1
<1>4. r = d
    BY <1>2, <1>3
<1> QED BY <1>4 DEF r, Sub

\* The pages that physical_free_range marks free lie wholly inside the range,
\* unless the range begins and ends inside one page; no other page does.
LEMMA FreeIsInside ==
    ASSUME NEW r, ByteRange(r),
           r.addr + r.len <= ((MM_TABLE_MAX - 1) * WORD) * PG_SIZE,
           ((MM_TABLE_MAX - 1) * WORD) * PG_SIZE < ADDR,
           \/ r.addr % PG_SIZE = 0
           \/ (r.addr \div PG_SIZE + 1) * PG_SIZE <= r.addr + r.len
    PROVE  /\ free_bits(r.addr, r.len) \subseteq Inside(r)
           /\ Inside(r) \subseteq free_bits(r.addr, r.len)
<1> USE PhysAssumption
<1> DEFINE a   == r.addr
           l   == r.len
           lim == (MM_TABLE_MAX - 1) * WORD
           q   == a \div PG_SIZE
           rem == a % PG_SIZE
           u   == (a + l) \div PG_SIZE
           er  == (a + l) % PG_SIZE
           s   == IF rem = 0 THEN q ELSE q + 1
<1>1. a \in Nat /\ l \in Nat /\ a + l \in Nat /\ lim \in Nat
      /\ a + l <= lim * PG_SIZE /\ a + l < ADDR
    <2>1. lim \in Nat /\ a \in Nat /\ l \in Nat
        BY DEF ByteRange
    <2>2. lim * PG_SIZE \in Nat
        BY <2>1
    <2> QED BY <2>1, <2>2
<1>2. q \in Nat /\ rem \in Nat /\ rem < PG_SIZE /\ a = PG_SIZE * q + rem
    BY <1>1, DivMod
<1>3. u \in Nat /\ er \in Nat /\ er < PG_SIZE /\ a + l = PG_SIZE * u + er
    BY <1>1, DivMod
<1>4. rem = 0 \/ (q + 1) * PG_SIZE <= a + l
    OBVIOUS
<1>5. free_bits(a, l) =
          IF rem = 0 THEN Bits(q, Sub(l, er) \div PG_SIZE)
          ELSE Bits(q + 1, Sub(Sub(l, PG_SIZE - rem), er) \div PG_SIZE)
    BY DEF free_bits
<1> HIDE DEF a, l, lim, q, rem, u, er
<1>6. s \in Nat /\ a <= PG_SIZE * s /\ PG_SIZE * s <= a + l
    <2>1. CASE rem = 0
        BY <1>1, <1>2, <2>1
    <2>2. CASE rem # 0
        <3>1. PG_SIZE * (q + 1) = PG_SIZE * q + PG_SIZE
              /\ (q + 1) * PG_SIZE = PG_SIZE * q + PG_SIZE
            BY <1>2
        <3> QED BY <1>1, <1>2, <1>4, <2>2, <3>1
    <2> QED BY <2>1, <2>2
<1>7. s <= u
    <2> SUFFICES ASSUME s >= u + 1 PROVE FALSE
        BY <1>2, <1>3
    <2>1. PG_SIZE * (u + 1) <= PG_SIZE * s /\ PG_SIZE * (u + 1) = PG_SIZE * u + PG_SIZE
        BY <1>2, <1>3, <1>6, MulLe
    <2> HIDE DEF s
    <2> QED BY <1>3, <1>6, <2>1
<1>8. PG_SIZE * (u - s) = PG_SIZE * u - PG_SIZE * s /\ u - s \in Nat
      /\ PG_SIZE * s <= PG_SIZE * u
    <2> HIDE DEF s
    <2> QED BY <1>3, <1>6, <1>7, MulLe
<1>9. free_bits(a, l) = Bits(s, u - s)
    <2>1. CASE rem = 0
        <3>1. s = q /\ a = PG_SIZE * s
            BY <1>2, <2>1
        <3> HIDE DEF s
        <3>2. er <= l /\ l < ADDR /\ l - er = PG_SIZE * (u - s)
            BY <1>1, <1>3, <1>6, <1>8, <3>1
        <3>3. Sub(l, er) = PG_SIZE * (u - s)
            BY <1>1, <1>3, <3>2, SubExact
        <3>4. Sub(l, er) \div PG_SIZE = u - s
            BY <1>8, <3>3, ExactDiv
        <3> QED BY <1>5, <2>1, <3>1, <3>4
    <2>2. CASE rem # 0
        <3> DEFINE m == PG_SIZE - rem
        <3>1. s = q + 1 /\ m \in Nat /\ PG_SIZE * s = PG_SIZE * q + PG_SIZE
            BY <1>2, <2>2
        <3>2. PG_SIZE * s = a + m
            BY <1>2, <3>1
        <3> HIDE DEF s, m
        <3>3. m <= l /\ l < ADDR
            BY <1>1, <1>6, <3>1, <3>2
        <3>4. Sub(l, m) = l - m /\ l - m \in Nat /\ l - m < ADDR
            BY <1>1, <3>1, <3>3, SubExact
        <3>5. er <= l - m /\ (l - m) - er = PG_SIZE * (u - s)
            BY <1>1, <1>3, <1>6, <1>8, <3>1, <3>2
        <3>6. Sub(l - m, er) = PG_SIZE * (u - s)
            BY <1>3, <3>4, <3>5, SubExact
        <3>7. Sub(Sub(l, m), er) \div PG_SIZE = u - s
            BY <1>8, <3>4, <3>6, ExactDiv
        <3>8. free_bits(a, l) = Bits(q + 1, Sub(Sub(l, m), er) \div PG_SIZE)
            BY <1>5, <2>2 DEF m
        <3> QED BY <3>1, <3>7, <3>8
    <2> QED BY <2>1, <2>2
<1>10. ASSUME NEW p \in Bits(s, u - s)
       PROVE  /\ p \in 0 .. MM_TABLE_MAX * WORD - 1
              /\ a <= p * PG_SIZE
              /\ (p + 1) * PG_SIZE <= a + l
    <2> HIDE DEF s
    <2>1. p \in Nat /\ s <= p /\ p + 1 <= u
        BY <1>3, <1>6, <1>8 DEF Bits
    <2>2. PG_SIZE * s <= PG_SIZE * p /\ PG_SIZE * (p + 1) <= PG_SIZE * u
        BY <1>3, <1>6, <2>1, MulLe
    <2>3. p * PG_SIZE = PG_SIZE * p /\ (p + 1) * PG_SIZE = PG_SIZE * (p + 1)
        BY <2>1
    <2>4. a <= p * PG_SIZE
        BY <1>1, <1>6, <2>1, <2>2, <2>3
    <2>5. (p + 1) * PG_SIZE <= a + l
        BY <1>1, <1>3, <2>1, <2>2, <2>3
    <2>6. p + 1 <= lim
        <3> SUFFICES ASSUME lim <= p PROVE FALSE
            BY <1>1, <2>1
        <3>1. PG_SIZE * lim <= PG_SIZE * p /\ PG_SIZE * lim = lim * PG_SIZE
            BY <1>1, <2>1, MulLe
        <3>2. PG_SIZE * (p + 1) = PG_SIZE * p + PG_SIZE
            BY <2>1
        <3> QED BY <1>1, <2>1, <2>3, <2>5, <3>1, <3>2
    <2>7. lim <= MM_TABLE_MAX * WORD
        <3>1. WORD * (MM_TABLE_MAX - 1) <= WORD * MM_TABLE_MAX
            BY MulLe
        <3> QED BY <3>1 DEF lim
    <2>8. MM_TABLE_MAX * WORD \in Nat
        OBVIOUS
    <2> QED BY <1>1, <2>1, <2>4, <2>5, <2>6, <2>7, <2>8
<1>11. s = 0 \/ PG_SIZE * (s - 1) < a
    <2>1. CASE rem = 0
        <3>1. s = q /\ a = PG_SIZE * q /\ PG_SIZE * (q - 1) = PG_SIZE * q - PG_SIZE
            BY <1>2, <2>1
        <3> QED BY <1>1, <3>1
    <2>2. CASE rem # 0
        <3>1. s - 1 = q /\ PG_SIZE * q \in Nat
            BY <1>2, <2>2
        <3> QED BY <1>1, <1>2, <2>2, <3>1
    <2> QED BY <2>1, <2>2
<1>12. ASSUME NEW p \in Nat, a <= p * PG_SIZE, (p + 1) * PG_SIZE <= a + l
       PROVE  p \in Bits(s, u - s)
    <2> HIDE DEF s
    <2>1. PG_SIZE * p = p * PG_SIZE /\ PG_SIZE * (p + 1) = (p + 1) * PG_SIZE
          /\ PG_SIZE * p \in Nat /\ PG_SIZE * (p + 1) \in Nat
        OBVIOUS
    <2>2. s <= p
        <3> SUFFICES ASSUME p + 1 <= s PROVE FALSE
            BY <1>6
        <3>1. PG_SIZE * p <= PG_SIZE * (s - 1) /\ PG_SIZE * (s - 1) \in Nat
            BY <1>6, MulLe
        <3> QED BY <1>1, <1>6, <1>11, <1>12, <2>1, <3>1
    <2>3. p + 1 <= u
        <3> SUFFICES ASSUME u <= p PROVE FALSE
            BY <1>3
        <3>1. PG_SIZE * (u + 1) <= PG_SIZE * (p + 1)
              /\ PG_SIZE * (u + 1) = PG_SIZE * u + PG_SIZE /\ PG_SIZE * u \in Nat
            BY <1>3, MulLe
        <3> QED BY <1>1, <1>3, <1>12, <2>1, <3>1
    <2> QED BY <1>3, <1>6, <2>2, <2>3 DEF Bits
<1>13. Inside(r) \subseteq Bits(s, u - s)
    BY <1>12 DEF Inside, a, l
<1> QED BY <1>9, <1>10, <1>13 DEF Inside, a, l

\* The pages that physical_take_range marks in use are at least those that
\* the range touches.
LEMMA TakeCovers ==
    ASSUME NEW r, ByteRange(r)
    PROVE  Touched(r) \subseteq take_bits(r.addr, r.len)
<1> USE PhysAssumption
<1> DEFINE a   == r.addr
           l   == r.len
           q   == a \div PG_SIZE
           rem == a % PG_SIZE
           u   == (a + l) \div PG_SIZE
           er  == (a + l) % PG_SIZE
           e   == IF er = 0 THEN u ELSE u + 1
<1>1. a \in Nat /\ l \in Nat /\ a + l \in Nat
    BY DEF ByteRange
<1>2. q \in Nat /\ rem \in Nat /\ rem < PG_SIZE /\ a = PG_SIZE * q + rem
    BY <1>1, DivMod
<1>3. u \in Nat /\ er \in Nat /\ er < PG_SIZE /\ a + l = PG_SIZE * u + er
    BY <1>1, DivMod
<1>4. q <= u
    BY <1>1, DivMono
<1>5. take_bits(a, l) =
          IF er = 0 THEN Bits(q, (l + rem) \div PG_SIZE)
          ELSE Bits(q, (l + rem + PG_SIZE - er) \div PG_SIZE)
    BY DEF take_bits
<1> HIDE DEF a, l, q, rem, u, er
<1>6. e \in Nat /\ e - q \in Nat /\ a + l <= PG_SIZE * e
      /\ PG_SIZE * (e - q) = PG_SIZE * e - PG_SIZE * q
    <2>1. e \in Nat /\ e - q \in Nat
        BY <1>2, <1>3, <1>4
    <2>2. PG_SIZE * (u + 1) = PG_SIZE * u + PG_SIZE
        BY <1>3
    <2>3. a + l <= PG_SIZE * e
        BY <1>1, <1>3, <2>2
    <2> HIDE DEF e
    <2> QED BY <1>2, <2>1, <2>3
<1>7. take_bits(a, l) = Bits(q, e - q)
    <2>1. CASE er = 0
        <3>1. e = u /\ l + rem = PG_SIZE * (e - q)
            BY <1>1, <1>2, <1>3, <1>6, <2>1
        <3>2. (l + rem) \div PG_SIZE = e - q
            BY <1>6, <3>1, ExactDiv
        <3> QED BY <1>5, <2>1, <3>2
    <2>2. CASE er # 0
        <3>1. e = u + 1 /\ PG_SIZE * e = PG_SIZE * u + PG_SIZE
            BY <1>3, <2>2
        <3>2. l + rem + PG_SIZE - er = PG_SIZE * (e - q)
            <4> HIDE DEF e
            <4> QED BY <1>1, <1>2, <1>3, <1>6, <3>1
        <3>3. (l + rem + PG_SIZE - er) \div PG_SIZE = e - q
            BY <1>6, <3>2, ExactDiv
        <3> QED BY <1>5, <2>2, <3>3
    <2> QED BY <2>1, <2>2
<1> HIDE DEF e
<1>8. ASSUME NEW p \in Nat, p * PG_SIZE < a + l, a < (p + 1) * PG_SIZE
      PROVE  p \in Bits(q, e - q)
    <2>1. q <= p
        <3> SUFFICES ASSUME q >= p + 1 PROVE FALSE
            BY <1>2
        <3>1. PG_SIZE * (p + 1) <= PG_SIZE * q
              /\ PG_SIZE * (p + 1) = (p + 1) * PG_SIZE
            BY <1>2, MulLe
        <3> QED BY <1>1, <1>2, <1>8, <3>1
    <2>2. p < e
        <3> SUFFICES ASSUME e <= p PROVE FALSE
            BY <1>6
        <3>1. PG_SIZE * e <= PG_SIZE * p /\ PG_SIZE * p = p * PG_SIZE
            BY <1>6, MulLe
        <3> QED BY <1>1, <1>6, <1>8, <3>1
    <2> QED BY <1>2, <1>6, <2>1, <2>2 DEF Bits
<1>9. \A p \in Touched(r) :
          p \in Nat /\ p * PG_SIZE < a + l /\ a < (p + 1) * PG_SIZE
    BY DEF Touched, a, l
<1> QED BY <1>7, <1>8, <1>9 DEF a, l

\* Every free or handed out frame is memory; page 0, the kernel image and the
\* last, partial page of every module stay reserved once they are taken.
UsableInv ==
    /\ mm_table \cup HeldPages \subseteq MapPages(machine)
    /\ boot.phase \in {"kernel", "mods", "run"} => 0 \in reserved
    /\ boot.phase \in {"mods", "run"} => Touched(machine.kernel) \subseteq reserved
    /\ \A k \in 1 .. Len(machine.mods) :
          boot.phase = "run" \/ (boot.phase = "mods" /\ k < boot.index) =>
              Touched(machine.mods[k]) \ Inside(machine.mods[k]) \subseteq reserved

\* A page inside a range is touched by it.
LEMMA InsideTouched ==
    ASSUME NEW r, ByteRange(r)
    PROVE  Inside(r) \subseteq Touched(r)
<1> USE PhysAssumption
<1> SUFFICES ASSUME NEW p \in Inside(r) PROVE p \in Touched(r)
    OBVIOUS
<1>1. p \in Nat /\ r.addr <= p * PG_SIZE /\ (p + 1) * PG_SIZE <= r.addr + r.len
      /\ p \in 0 .. MM_TABLE_MAX * WORD - 1
    BY DEF Inside
<1>2. (p + 1) * PG_SIZE = p * PG_SIZE + PG_SIZE /\ p * PG_SIZE \in Nat
    BY <1>1
<1>3. r.addr \in Nat /\ r.len \in Nat
    BY DEF ByteRange
<1>4. p * PG_SIZE < r.addr + r.len /\ r.addr < (p + 1) * PG_SIZE
    BY <1>1, <1>2, <1>3
<1> QED BY <1>1, <1>4 DEF Touched

\* On the machines the claim is about, every operation keeps UsableInv.
LEMMA NextUsable ==
    ASSUME \A m \in Machines : SoundMachine(m)
    PROVE  IInv /\ UsableInv /\ [Next]_vars => UsableInv'
<1> SUFFICES ASSUME IInv, UsableInv, [Next]_vars PROVE UsableInv'
    OBVIOUS
<1> USE PhysAssumption
<1>t. TypeOK /\ BootFirst /\ machine \in Machines /\ SoundMachine(machine)
    BY DEF IInv, TypeInv, TypeOK
<1>m. machine' = machine
    <2>1. AllocStep => machine' = machine
        BY <1>t, AllocTakesFree
    <2> QED BY <2>1
            DEF Next, AllocStep, vars, boot_map_entry, boot_limit,
                boot_take_zero, boot_take_kernel, boot_take_module, boot_done,
                free_phys_frames, free_module
<1>b. held' = held => HeldPages' = HeldPages
    BY DEF HeldPages, Pages, Bits
<1>h. boot.phase # "run" => HeldPages = {}
    BY <1>t DEF BootFirst, HeldPages
\* Every operation keeps the usable frames inside the memory map.
<1>1. (mm_table \cup HeldPages \subseteq MapPages(machine))'
    <2> SUFFICES mm_table' \cup HeldPages' \subseteq MapPages(machine)
        BY <1>m DEF MapPages, Inside
    <2>1. CASE boot_map_entry
        <3> DEFINE e == machine.map[boot.index]
        <3>1. boot.index \in 1 .. Len(machine.map)
            BY <1>t, <2>1, MachineAssumption DEF boot_map_entry, TypeOK, Boot
        <3>2. HeldPages' = HeldPages
            BY <1>b, <2>1 DEF boot_map_entry
        <3>3. CASE e.available
            <4>1. mm_table' = mm_table \cup free_bits(e.addr, e.len)
                BY <2>1, <3>3 DEF boot_map_entry, physical_free_range
            <4>2. ByteRange(e)
                  /\ e.addr + e.len <= ((MM_TABLE_MAX - 1) * WORD) * PG_SIZE
                BY <1>t, <3>1, MachineAssumption
            <4>3. /\ ((MM_TABLE_MAX - 1) * WORD) * PG_SIZE < ADDR
                  /\ \/ e.addr % PG_SIZE = 0
                     \/ (e.addr \div PG_SIZE + 1) * PG_SIZE <= e.addr + e.len
                BY <1>t, <3>1, <3>3 DEF SoundMachine
            <4>4. free_bits(e.addr, e.len) \subseteq Inside(e)
                BY <4>2, <4>3, FreeIsInside
            <4>5. Inside(e) \subseteq MapPages(machine)
                BY <3>1, <3>3 DEF MapPages
            <4> QED BY <3>2, <4>1, <4>4, <4>5 DEF UsableInv
        <3>4. CASE ~e.available
            BY <2>1, <3>2, <3>4 DEF boot_map_entry, UsableInv
        <3> QED BY <3>3, <3>4
    <2>2. CASE \/ boot_limit \/ boot_take_zero \/ boot_take_kernel
               \/ boot_take_module \/ boot_done \/ UNCHANGED vars
        <3>1. mm_table' \subseteq mm_table /\ held' = held
            BY <2>2 DEF boot_limit, boot_take_zero, boot_take_kernel,
                        boot_take_module, boot_done, physical_take_range, vars
        <3> QED BY <1>b, <3>1 DEF UsableInv
    <2>3. CASE AllocStep
        <3>1. CASE UNCHANGED <<mm_table, held>>
            BY <1>b, <3>1 DEF UsableInv
        <3>2. CASE \E p \in Nat, num \in Nat \ {0} :
                       Bits(p, num) \subseteq mm_table /\ Take(p, num)
            <4>1. PICK p \in Nat, num \in Nat \ {0} :
                       Bits(p, num) \subseteq mm_table /\ Take(p, num)
                BY <3>2
            <4> DEFINE new == [base |-> p, num |-> num]
            <4>2. held' = held \cup {new} /\ mm_table' \subseteq mm_table
                  /\ Pages(new) \subseteq mm_table
                BY <4>1 DEF Take, Pages
            <4>3. HeldPages' = HeldPages \cup Pages(new)
                BY <4>2 DEF HeldPages, Pages, Bits
            <4> QED BY <4>2, <4>3 DEF UsableInv
        <3> QED BY <1>t, <2>3, <3>1, <3>2, AllocTakesFree
    <2>4. CASE \E b \in held : free_phys_frames(b)
        <3>1. PICK b \in held : free_phys_frames(b)
            BY <2>4
        <3>2. mm_table' = mm_table \cup Pages(b) /\ held' = held \ {b}
            BY <3>1 DEF free_phys_frames
        <3>3. HeldPages' = UNION {Pages(a) : a \in held \ {b}}
            BY <3>2 DEF HeldPages, Pages, Bits
        <3>4. HeldPages' \subseteq HeldPages /\ Pages(b) \subseteq HeldPages
            BY <3>3 DEF HeldPages
        <3> QED BY <3>2, <3>4 DEF UsableInv
    <2>5. CASE \E k \in 1 .. Len(machine.mods) : free_module(k)
        <3>1. PICK k \in 1 .. Len(machine.mods) : free_module(k)
            BY <2>5
        <3> DEFINE r == machine.mods[k]
        <3>2. mm_table' = mm_table \cup free_bits(r.addr, r.len) /\ held' = held
            BY <3>1 DEF free_module, physical_free_range
        <3>3. ByteRange(r) /\ r.addr % PG_SIZE = 0
            BY <1>t, MachineAssumption
        <3>4. /\ ((MM_TABLE_MAX - 1) * WORD) * PG_SIZE < ADDR
              /\ r.addr + r.len <= ((MM_TABLE_MAX - 1) * WORD) * PG_SIZE
              /\ Inside(r) \subseteq MapPages(machine)
            BY <1>t DEF SoundMachine
        <3>5. free_bits(r.addr, r.len) \subseteq Inside(r)
            BY <3>3, <3>4, FreeIsInside
        <3> QED BY <1>b, <3>2, <3>4, <3>5 DEF UsableInv
    <2> QED BY <2>1, <2>2, <2>3, <2>4, <2>5 DEF Next, AllocStep
\* What kernel_main reserved stays reserved until its module is given back.
<1>2. CASE boot_map_entry \/ boot_limit
    <2>1. boot'.phase \in {"map", "zero"}
        BY <1>t, <1>2 DEF boot_map_entry, boot_limit, TypeOK, Boot
    <2> QED BY <1>1, <2>1 DEF UsableInv
<1>3. CASE boot_take_zero
    <2>1. boot'.phase = "kernel" /\ reserved' = reserved \cup take_bits(0, PG_SIZE)
        BY <1>t, <1>3 DEF boot_take_zero, physical_take_range, TypeOK, Boot
    <2>2. 0 \in take_bits(0, PG_SIZE)
        <3> DEFINE r == [addr |-> 0, len |-> PG_SIZE]
        <3>1. ByteRange(r)
            BY DEF ByteRange
        <3>2. MM_TABLE_MAX * WORD \in Nat \ {0}
            OBVIOUS
        <3>3. 0 \in Touched(r)
            BY <3>2 DEF Touched
        <3>4. Touched(r) \subseteq take_bits(r.addr, r.len)
            BY <3>1, TakeCovers
        <3> QED BY <3>3, <3>4
    <2> QED BY <1>1, <2>1, <2>2 DEF UsableInv
<1>4. CASE boot_take_kernel
    <2> DEFINE r == machine.kernel
    <2>1. boot.phase = "kernel" /\ boot'.phase = "mods" /\ boot'.index = 1
          /\ reserved' = reserved \cup take_bits(r.addr, r.len)
        BY <1>t, <1>4 DEF boot_take_kernel, physical_take_range, TypeOK, Boot
    <2>2. Touched(r) \subseteq take_bits(r.addr, r.len)
        BY <1>t, MachineAssumption, TakeCovers
    <2>3. \A k \in 1 .. Len(machine.mods) : ~(k < 1)
        OBVIOUS
    <2> QED BY <1>1, <1>m, <2>1, <2>2, <2>3 DEF UsableInv, Touched
<1>5. CASE boot_take_module
    <2> DEFINE r == machine.mods[boot.index]
    <2>1. boot.phase = "mods" /\ boot'.phase = "mods"
          /\ boot'.index = boot.index + 1 /\ boot.index \in 1 .. Len(machine.mods)
          /\ reserved' = reserved \cup take_bits(r.addr, r.len)
        BY <1>t, <1>5, MachineAssumption
        DEF boot_take_module, physical_take_range, TypeOK, Boot
    <2>2. Touched(r) \subseteq take_bits(r.addr, r.len)
        BY <1>t, <2>1, MachineAssumption, TakeCovers
    <2>3. ASSUME NEW k \in 1 .. Len(machine.mods), k < boot.index + 1
          PROVE  Touched(machine.mods[k]) \ Inside(machine.mods[k])
                     \subseteq reserved'
        <3>1. k = boot.index \/ k < boot.index
            BY <2>1, <2>3, <1>t, MachineAssumption DEF TypeOK
        <3> QED BY <2>1, <2>2, <3>1 DEF UsableInv
    <2>4. 0 \in reserved' /\ Touched(machine.kernel) \subseteq reserved'
        BY <2>1 DEF UsableInv
    <2> QED BY <1>1, <1>m, <2>1, <2>3, <2>4 DEF UsableInv, Touched, Inside
<1>6. CASE boot_done
    <2>1. boot.phase = "mods" /\ boot'.phase = "run" /\ reserved' = reserved
          /\ boot.index > Len(machine.mods)
        BY <1>t, <1>6 DEF boot_done, TypeOK, Boot
    <2>2. \A k \in 1 .. Len(machine.mods) : k < boot.index
        BY <1>t, <2>1, MachineAssumption DEF TypeOK, Boot
    <2> QED BY <1>1, <1>m, <2>1, <2>2 DEF UsableInv, Touched, Inside
<1>7. CASE AllocStep \/ (\E b \in held : free_phys_frames(b)) \/ UNCHANGED vars
    <2>1. reserved' = reserved /\ boot' = boot
        BY <1>t, <1>7, AllocTakesFree DEF free_phys_frames, vars
    <2> QED BY <1>1, <1>m, <2>1 DEF UsableInv, Touched, Inside
<1>8. CASE \E k \in 1 .. Len(machine.mods) : free_module(k)
    <2>1. PICK k \in 1 .. Len(machine.mods) : free_module(k)
        BY <1>8
    <2> DEFINE r == machine.mods[k]
    <2>2. reserved' = reserved \ free_bits(r.addr, r.len) /\ boot' = boot
        BY <2>1 DEF free_module, physical_free_range
    <2>3. ByteRange(r) /\ r.addr % PG_SIZE = 0
        BY <1>t, MachineAssumption
    <2>4. /\ ((MM_TABLE_MAX - 1) * WORD) * PG_SIZE < ADDR
          /\ r.addr + r.len <= ((MM_TABLE_MAX - 1) * WORD) * PG_SIZE
          /\ Touched(r) \cap ({0} \cup Touched(machine.kernel)) = {}
          /\ \A j \in 1 .. Len(machine.mods) \ {k} :
                Touched(r) \cap Touched(machine.mods[j]) = {}
        BY <1>t DEF SoundMachine
    <2>5. free_bits(r.addr, r.len) \subseteq Inside(r)
          /\ Inside(r) \subseteq Touched(r)
        BY <2>3, <2>4, FreeIsInside, InsideTouched
    <2>6. boot.phase = "run"
        BY <2>1 DEF free_module, Ready
    <2>7. 0 \in reserved' /\ Touched(machine.kernel) \subseteq reserved'
        BY <2>2, <2>4, <2>5, <2>6 DEF UsableInv
    <2>8. ASSUME NEW j \in 1 .. Len(machine.mods)
          PROVE  Touched(machine.mods[j]) \ Inside(machine.mods[j])
                     \subseteq reserved'
        <3>1. Touched(machine.mods[j]) \ Inside(machine.mods[j]) \subseteq reserved
            BY <2>6 DEF UsableInv
        <3>2. CASE j = k
            BY <2>2, <2>5, <3>1, <3>2
        <3>3. CASE j # k
            <4>1. Touched(r) \cap Touched(machine.mods[j]) = {}
                BY <2>4, <3>3
            <4> QED BY <2>2, <2>5, <3>1, <4>1
        <3> QED BY <3>2, <3>3
    <2> QED BY <1>1, <1>m, <2>2, <2>7, <2>8 DEF UsableInv, Touched, Inside
<1> QED BY <1>2, <1>3, <1>4, <1>5, <1>6, <1>7, <1>8 DEF Next, AllocStep

-----------------------------------------------------------------------------
(* The searches: what they may pass over                                   *)

\* Every set of natural numbers that has a member has a least one.
LEMMA LeastNat ==
    ASSUME NEW T, T \subseteq Nat, T # {}
    PROVE  \E x \in T : \A y \in T : x <= y
<1> DEFINE R == OpToRel(<, Nat)
<1>1. IsWellFoundedOn(R, Nat)
    BY NatLessThanWellFounded, Zenon
<1>2. R = {ss \in Nat \X Nat : ss[1] < ss[2]}
    BY DEF OpToRel
<1> HIDE DEF R
<1>3. PICK x \in T : \A y \in T : ~(<<y, x>> \in R)
    BY <1>1, WFMin
<1>4. ASSUME NEW y \in T PROVE x <= y
    <2>1. ~(<<y, x>> \in R) /\ x \in Nat /\ y \in Nat
        BY <1>3
    <2> QED BY <2>1, <1>2
<1> QED BY <1>4

\* The position pos lies in entry i of the table.
InEntry(i, pos) == i * WORD <= pos /\ pos < i * WORD + WORD

LEMMA DivInEntry ==
    ASSUME NEW pos \in Nat
    PROVE  InEntry(pos \div WORD, pos)
<1> USE PhysAssumption
<1> DEFINE q == pos \div WORD
<1>1. q \in Nat /\ pos % WORD \in Nat /\ pos % WORD < WORD
      /\ pos = WORD * q + (pos % WORD)
    BY DivMod
<1> HIDE DEF q
<1>2. q * WORD = WORD * q
    BY <1>1
<1> QED BY <1>1, <1>2 DEF InEntry, q

\* The next entry, at the same offset.
LEMMA NextInEntry ==
    ASSUME NEW i \in Nat, NEW pos \in Nat, InEntry(i, pos)
    PROVE  InEntry(i + 1, pos + WORD)
<1> USE PhysAssumption
<1>1. (i + 1) * WORD = i * WORD + WORD /\ i * WORD \in Nat
    OBVIOUS
<1> QED BY <1>1 DEF InEntry

\* Every page of an entry of zeros is in use.
LEMMA ZeroEntry ==
    ASSUME NEW i \in Nat, WordIsZero(i), NEW p \in Nat, InEntry(i, p)
    PROVE  p \notin mm_table
<1> USE PhysAssumption
<1>1. (i + 1) * WORD = i * WORD + WORD /\ i * WORD \in Nat
    OBVIOUS
<1>2. p \in i * WORD .. (i + 1) * WORD - 1
    BY <1>1 DEF InEntry
<1> QED BY <1>2 DEF WordIsZero

\* A position in an entry past the last one is past every page of the table.
LEMMA PastTable ==
    ASSUME NEW i \in Nat, NEW pos \in Nat, InEntry(i, pos), i >= entry_end,
           entry_end \in Nat
    PROVE  entry_end * WORD <= pos
<1> USE PhysAssumption
<1>1. WORD * entry_end <= WORD * i
    BY MulLe
<1>2. WORD * entry_end = entry_end * WORD /\ WORD * i = i * WORD
      /\ i * WORD \in Nat /\ entry_end * WORD \in Nat
    OBVIOUS
<1> QED BY <1>1, <1>2 DEF InEntry

\* The first pages of the free runs that are so wide that alloc_phys_frames
\* must find num frames in them.
WideRuns(num) ==
    {p \in Nat : /\ LOWMEM * WORD <= p
                 /\ Bits(p, num + WORD - 1) \subseteq mm_table}

\* alloc_phys_frames has not gone so far into a wide run that the rest is too
\* short: less than an entry of it lies behind pos.
FramesSearch ==
    op.kind = "frames" =>
        /\ InEntry(op.i, op.pos)
        /\ \A p \in WideRuns(op.num) : op.pos <= p + WORD - 1

\* A wide run that the search has not gone past holds a free page at or after
\* pos; that page is p or pos.
LEMMA WideRunAhead ==
    ASSUME NEW num \in Nat \ {0}, NEW pos \in Nat, NEW p \in WideRuns(num),
           pos <= p + WORD - 1
    PROVE  /\ \A q \in p .. p + num + WORD - 2 : q \in mm_table
           /\ pos <= p => p \in mm_table
           /\ pos > p => pos \in mm_table
<1> USE PhysAssumption
<1>1. p \in Nat /\ Bits(p, num + WORD - 1) \subseteq mm_table
    BY DEF WideRuns
<1>2. \A q \in p .. p + num + WORD - 2 : q \in mm_table
    BY <1>1 DEF Bits
<1> QED BY <1>1, <1>2

LEMMA NextFrames == IInv /\ FramesSearch /\ [Next]_vars => FramesSearch'
<1> SUFFICES ASSUME IInv, FramesSearch, [Next]_vars, op'.kind = "frames"
             PROVE  FramesSearch'
    BY DEF FramesSearch
<1> USE PhysAssumption
<1>t. TypeOK /\ BootFirst
    BY DEF IInv, TypeInv
<1>s. op.kind = "frames" => /\ op \in Search /\ op.num \in Nat \ {0}
                            /\ op.i \in Nat /\ op.pos \in Nat
    BY <1>t DEF TypeOK, NoSearch, Search
<1>i. Idle.kind = "idle"
    BY DEF Idle
<1>1. CASE \E n \in Sizes : alloc_phys_frames(n)
    <2>1. PICK n \in Sizes : alloc_phys_frames(n)
        BY <1>1
    <2>2. op'.num = n /\ op'.i = LOWMEM /\ op'.pos = LOWMEM * WORD
        BY <2>1 DEF alloc_phys_frames
    <2>3. LOWMEM * WORD \in Nat
        OBVIOUS
    <2>4. InEntry(LOWMEM, LOWMEM * WORD)
        BY <2>3 DEF InEntry
    <2>5. \A p \in WideRuns(n)' : LOWMEM * WORD <= p + WORD - 1
        BY <2>3 DEF WideRuns
    <2> QED BY <2>2, <2>4, <2>5 DEF FramesSearch, InEntry, WideRuns
<1>2. CASE frames_skip_entry
    <2>1. op.kind = "frames" /\ WordIsZero(op.i) /\ mm_table' = mm_table
          /\ op' = [op EXCEPT !.i = op.i + 1, !.pos = op.pos + WORD]
        BY <1>2 DEF frames_skip_entry
    <2>2. op'.num = op.num /\ op'.i = op.i + 1 /\ op'.pos = op.pos + WORD
        BY <1>s, <2>1 DEF Search
    <2>3. InEntry(op.i, op.pos)
        BY <2>1 DEF FramesSearch
    <2>4. InEntry(op.i + 1, op.pos + WORD)
        BY <1>s, <2>1, <2>3, NextInEntry
    <2>5. ASSUME NEW p \in WideRuns(op.num)
          PROVE  op.pos + WORD <= p + WORD - 1
        <3> DEFINE b == op.i * WORD
        <3>1. b \in Nat /\ b <= op.pos /\ op.pos < b + WORD
            BY <1>s, <2>1, <2>3 DEF InEntry
        <3>2. op.pos <= p + WORD - 1 /\ p \in Nat
            BY <2>1 DEF FramesSearch, WideRuns
        <3>3. \A q \in p .. p + op.num + WORD - 2 : q \in mm_table
            BY <1>s, <2>1, <3>2, WideRunAhead
        <3>4. \A q \in b .. b + WORD - 1 : q \notin mm_table
            BY <1>s, <2>1, <3>1, ZeroEntry DEF InEntry
        <3> HIDE DEF b
        <3>5. ~(p < b)
            <4> SUFFICES ASSUME p < b PROVE FALSE
                OBVIOUS
            <4>1. b \in p .. p + op.num + WORD - 2 /\ b \in b .. b + WORD - 1
                BY <1>s, <2>1, <3>1, <3>2
            <4> QED BY <3>3, <3>4, <4>1
        <3>6. ~(p \in b .. b + WORD - 1)
            <4>1. p \in p .. p + op.num + WORD - 2
                BY <1>s, <2>1, <3>2
            <4> QED BY <3>3, <3>4, <4>1
        <3> QED BY <1>s, <2>1, <3>1, <3>2, <3>5, <3>6
    <2> QED BY <2>1, <2>2, <2>4, <2>5 DEF FramesSearch, InEntry, WideRuns
<1>3. CASE frames_try
    <2>1. op.kind = "frames" /\ op' # Idle
        BY <1>3, <1>i DEF frames_try
    <2>2. PICK f \in NextFreeFrom(op.pos) : \E cur \in RunEnd(f, op.num) :
              /\ cur # f + op.num
              /\ op' = [op EXCEPT !.pos = cur + 1, !.i = (cur + 1) \div WORD]
              /\ mm_table' = mm_table
        BY <1>3, <2>1 DEF frames_try
    <2>3. PICK cur \in RunEnd(f, op.num) :
              /\ cur # f + op.num
              /\ op' = [op EXCEPT !.pos = cur + 1, !.i = (cur + 1) \div WORD]
              /\ mm_table' = mm_table
        BY <2>2
    <2>4. f \in Nat /\ op.pos <= f /\ \A y \in mm_table : y >= op.pos => f <= y
        <3>1. f \in {p \in mm_table : p >= op.pos}
              /\ \A y \in {p \in mm_table : p >= op.pos} : f <= y
            BY LeastMember DEF NextFreeFrom
        <3> QED BY <1>t, <1>s, <2>1, <3>1 DEF TypeOK
    <2>5. cur \in Nat /\ f <= cur /\ cur < f + op.num /\ cur \notin mm_table
        <3>1. cur \in {q \in f .. f + op.num : q = f + op.num \/ q \notin mm_table}
            BY LeastMember DEF RunEnd
        <3> QED BY <1>s, <2>1, <2>3, <2>4, <3>1
    <2>6. op'.num = op.num /\ op'.i = (cur + 1) \div WORD /\ op'.pos = cur + 1
        BY <1>s, <2>1, <2>3 DEF Search
    <2>7. InEntry((cur + 1) \div WORD, cur + 1)
        BY <2>5, DivInEntry
    <2>8. ASSUME NEW p \in WideRuns(op.num)
          PROVE  cur + 1 <= p + WORD - 1
        <3>1. op.pos <= p + WORD - 1 /\ p \in Nat
            BY <2>1 DEF FramesSearch, WideRuns
        <3>2. /\ \A q \in p .. p + op.num + WORD - 2 : q \in mm_table
              /\ op.pos <= p => p \in mm_table
              /\ op.pos > p => op.pos \in mm_table
            BY <1>s, <2>1, <3>1, WideRunAhead
        <3>3. ~(cur \in p .. p + op.num + WORD - 2)
            BY <2>5, <3>2
        <3>4. CASE op.pos <= p
            <4>1. f <= p
                BY <2>4, <3>1, <3>2, <3>4
            <4> QED BY <1>s, <2>1, <2>4, <2>5, <3>1, <3>3, <4>1
        <3>5. CASE op.pos > p
            <4>1. f <= op.pos
                BY <1>s, <2>1, <2>4, <3>2, <3>5
            <4>2. cur \in p .. p + op.num + WORD - 2
                BY <1>s, <2>1, <2>4, <2>5, <3>1, <3>5, <4>1
            <4> QED BY <3>3, <4>2
        <3> QED BY <1>s, <2>1, <3>1, <3>4, <3>5
    <2> QED BY <2>3, <2>6, <2>7, <2>8 DEF FramesSearch, InEntry, WideRuns
<1>4. CASE \/ frames_fail \/ frames_overrun \/ aligned_fail
           \/ \E n \in Sizes : alloc_phys_frames_aligned(n * LARGE_PG)
    BY <1>4, <1>i DEF frames_fail, frames_overrun, aligned_fail,
                      alloc_phys_frames_aligned
<1>5. CASE aligned_skip_entry
    <2>1. op \in Search /\ op.kind = "aligned"
        BY <1>5, <1>t DEF aligned_skip_entry, TypeOK, NoSearch
    <2>2. op'.kind = "aligned"
        BY <1>5, <2>1 DEF aligned_skip_entry, Search
    <2> QED BY <2>2
<1>6. CASE aligned_try
    <2>1. op \in Search /\ op.kind = "aligned"
        BY <1>6, <1>t DEF aligned_try, TypeOK, NoSearch
    <2>2. op' = Idle \/ \E i, pos : op' = [op EXCEPT !.pos = pos, !.i = i]
        BY <1>6 DEF aligned_try
    <2>3. op'.kind \in {"aligned", "idle"}
        BY <1>i, <2>1, <2>2 DEF Search
    <2> QED BY <2>3
<1>7. CASE \/ boot_map_entry \/ boot_limit \/ boot_take_zero
           \/ boot_take_kernel \/ boot_take_module \/ boot_done
    <2>1. op' = op /\ boot.phase # "run"
        BY <1>7 DEF boot_map_entry, boot_limit, boot_take_zero,
                    boot_take_kernel, boot_take_module, boot_done
    <2> QED BY <1>i, <1>t, <2>1 DEF BootFirst
<1>8. CASE \/ alloc_phys_frame \/ alloc_phys_frame_lowmem
           \/ \E b \in held : free_phys_frames(b)
           \/ \E k \in 1 .. Len(machine.mods) : free_module(k)
    BY <1>8, <1>i DEF alloc_phys_frame, alloc_phys_frame_lowmem,
                      free_phys_frames, free_module, Ready
<1>9. CASE overrun_spin \/ UNCHANGED vars
    BY <1>9 DEF overrun_spin, vars, FramesSearch, WideRuns, InEntry
<1> QED BY <1>1, <1>2, <1>3, <1>4, <1>5, <1>6, <1>7, <1>8, <1>9 DEF Next

\* What the aligned search takes for granted of the constants: a large page is
\* a whole number of entries, and the search starts at a large page (512 pages
\* in entries of 64, from page 512 on).
LargePagesFit == LARGE_PG % WORD = 0 /\ AlignedStart % LARGE_PG = 0

\* A multiple is some number of times the divisor, and conversely.
LEMMA Multiple ==
    ASSUME NEW x \in Nat, NEW b \in Nat \ {0}
    PROVE  /\ x % b = 0 => x \div b \in Nat /\ x = b * (x \div b)
           /\ \A k \in Nat : x = b * k => x % b = 0
<1>1. x % b = 0 => x \div b \in Nat /\ x = b * (x \div b)
    BY DivMod
<1>2. ASSUME NEW k \in Nat, x = b * k PROVE x % b = 0
    <2> DEFINE q == x \div b
    <2>1. q = k
        BY <1>2, ExactDiv
    <2>2. x = b * q + (x % b) /\ x % b \in Nat
        BY DivMod
    <2>3. b * k \in Nat
        OBVIOUS
    <2> QED BY <1>2, <2>1, <2>2, <2>3
<1> QED BY <1>1, <1>2

\* The multiples of b after x are at least b away.
LEMMA NextMultiple ==
    ASSUME NEW x \in Nat, NEW y \in Nat, NEW b \in Nat \ {0},
           x % b = 0, y % b = 0, x < y
    PROVE  x + b <= y
<1> DEFINE i == x \div b
           j == y \div b
<1>1. i \in Nat /\ j \in Nat /\ x = b * i /\ y = b * j
    BY Multiple
<1> HIDE DEF i, j
<1>2. i + 1 <= j
    <2> SUFFICES ASSUME j <= i PROVE FALSE
        BY <1>1
    <2>1. b * j <= b * i
        BY <1>1, MulLe
    <2> QED BY <1>1, <2>1
<1>3. b * (i + 1) <= b * j /\ b * (i + 1) = b * i + b
    BY <1>1, <1>2, MulLe
<1> QED BY <1>1, <1>3

\* Sums and differences of multiples are multiples.
LEMMA SumMultiple ==
    ASSUME NEW x \in Nat, NEW y \in Nat, NEW b \in Nat \ {0}, x % b = 0
    PROVE  (y % b = 0) <=> ((x + y) % b = 0)
<1> DEFINE i == x \div b
<1>1. i \in Nat /\ x = b * i
    BY Multiple
<1> HIDE DEF i
<1>2. ASSUME y % b = 0 PROVE (x + y) % b = 0
    <2> DEFINE j == y \div b
    <2>1. j \in Nat /\ y = b * j
        BY <1>2, Multiple
    <2> HIDE DEF j
    <2>2. x + y = b * (i + j) /\ i + j \in Nat /\ x + y \in Nat
        BY <1>1, <2>1
    <2> QED BY <2>2, Multiple
<1>3. ASSUME (x + y) % b = 0 PROVE y % b = 0
    <2> DEFINE k == (x + y) \div b
    <2>1. k \in Nat /\ x + y = b * k
        BY <1>3, Multiple
    <2> HIDE DEF k
    <2>2. i <= k
        <3> SUFFICES ASSUME k + 1 <= i PROVE FALSE
            BY <1>1, <2>1
        <3>1. b * (k + 1) <= b * i /\ b * (k + 1) = b * k + b
            BY <1>1, <2>1, MulLe
        <3> QED BY <1>1, <2>1, <3>1
    <2>3. y = b * (k - i) /\ k - i \in Nat
        <3>1. b * (k - i) = b * k - b * i
            BY <1>1, <2>1
        <3> QED BY <1>1, <2>1, <2>2, <3>1
    <2> QED BY <2>3, Multiple
<1> QED BY <1>2, <1>3

\* RoundUp is the least multiple that is not smaller.
LEMMA RoundUpIs ==
    ASSUME NEW x \in Nat, NEW b \in Nat \ {0}
    PROVE  /\ RoundUp(x, b) \in Nat
           /\ RoundUp(x, b) % b = 0
           /\ x <= RoundUp(x, b)
           /\ \A y \in Nat : y % b = 0 /\ x <= y => RoundUp(x, b) <= y
<1> DEFINE q == (x + b - 1) \div b
           r == (x + b - 1) % b
<1>1. q \in Nat /\ r \in Nat /\ r < b /\ x + b - 1 = b * q + r
    <2>1. x + b - 1 \in Nat
        OBVIOUS
    <2> QED BY <2>1, DivMod
<1>2. RoundUp(x, b) = q * b
    BY DEF RoundUp
<1> HIDE DEF q, r
<1>3. q * b = b * q /\ b * q \in Nat
    BY <1>1
<1>4. (b * q) % b = 0
    BY <1>1, <1>3, Multiple
<1>5. ASSUME NEW y \in Nat, y % b = 0, x <= y PROVE b * q <= y
    <2> DEFINE j == y \div b
    <2>1. j \in Nat /\ y = b * j
        BY <1>5, Multiple
    <2> HIDE DEF j
    <2>2. q <= j
        <3> SUFFICES ASSUME j + 1 <= q PROVE FALSE
            BY <1>1, <2>1
        <3>1. b * (j + 1) <= b * q /\ b * (j + 1) = b * j + b
            BY <1>1, <2>1, MulLe
        <3> QED BY <1>1, <1>3, <1>5, <2>1, <3>1
    <2> QED BY <1>1, <2>1, <2>2, MulLe
<1> QED BY <1>1, <1>2, <1>3, <1>4, <1>5

\* The memory that the table describes ends in the last entry in use.
LimitInv == boot.phase # "map" => mm_limit <= entry_end * WORD

\* alloc_phys_frames_aligned is at a large page and has passed over no free
\* run that begins at one.
AlignedSearch ==
    op.kind = "aligned" =>
        /\ InEntry(op.i, op.pos)
        /\ op.pos % LARGE_PG = 0
        /\ AlignedStart <= op.pos
        /\ \A p \in AlignedRun(op.num) : op.pos <= p

LEMMA NextLimit == IInv /\ LimitInv /\ [Next]_vars => LimitInv'
<1> SUFFICES ASSUME IInv, LimitInv, [Next]_vars PROVE LimitInv'
    OBVIOUS
<1> USE PhysAssumption
<1>t. TypeOK
    BY DEF IInv, TypeInv
<1>1. CASE boot_limit
    <2> DEFINE l == boot.mem_limit \div PG_SIZE
               q == l \div WORD
    <2>1. boot.mem_limit \in Nat
        BY <1>t DEF TypeOK, Boot
    <2>2. l \in Nat
        BY <2>1, DivMod
    <2>3. mm_limit' = l /\ entry_end' = q + (IF l % WORD > 0 THEN 1 ELSE 0)
        BY <1>1 DEF boot_limit, physical_set_limit
    <2> HIDE DEF l
    <2>4. q \in Nat /\ l % WORD \in Nat /\ l % WORD < WORD
          /\ l = WORD * q + (l % WORD)
        BY <2>2, DivMod
    <2> HIDE DEF q
    <2>5. q * WORD = WORD * q /\ (q + 1) * WORD = WORD * q + WORD
        BY <2>4
    <2>6. mm_limit' <= entry_end' * WORD
        <3>1. CASE l % WORD > 0
            BY <2>2, <2>3, <2>4, <2>5, <3>1
        <3>2. CASE ~(l % WORD > 0)
            <4>1. entry_end' = q /\ l = WORD * q
                BY <2>3, <2>4, <3>2
            <4> QED BY <2>3, <2>4, <2>5, <4>1
        <3> QED BY <3>1, <3>2
    <2> QED BY <2>6 DEF LimitInv
<1>2. CASE boot_map_entry
    <2>1. boot'.phase = "map"
        BY <1>2, <1>t DEF boot_map_entry, TypeOK, Boot
    <2> QED BY <2>1 DEF LimitInv
<1>3. CASE boot_take_zero \/ boot_take_kernel \/ boot_take_module \/ boot_done
    BY <1>3 DEF boot_take_zero, boot_take_kernel, boot_take_module, boot_done,
                LimitInv
<1>4. CASE AllocStep
    <2>1. UNCHANGED <<mm_limit, entry_end, boot>>
        BY <1>t, <1>4, AllocTakesFree
    <2> QED BY <2>1 DEF LimitInv
<1>5. CASE \/ \E b \in held : free_phys_frames(b)
           \/ \E k \in 1 .. Len(machine.mods) : free_module(k)
           \/ UNCHANGED vars
    BY <1>5 DEF free_phys_frames, free_module, vars, LimitInv
<1> QED BY <1>1, <1>2, <1>3, <1>4, <1>5 DEF Next, AllocStep

\* What a pass of the aligned search finds: the candidate is a large page at
\* or after pos, no free run begins before it, and the run is cut short only
\* by the end of memory or by a page in use.
LEMMA AlignedPass ==
    ASSUME TypeOK, AlignedSearch, op.kind = "aligned",
           NEW p \in AlignedCandidate(op.pos), NEW cur \in AlignedEnd(p, op.num)
    PROVE  /\ p \in Nat /\ cur \in Nat
           /\ p % LARGE_PG = 0 /\ AlignedStart <= p
           /\ p <= cur /\ cur <= p + op.num
           /\ \A r \in AlignedRun(op.num) : r \in Nat /\ p <= r
           /\ cur = p + op.num => p \in AlignedRun(op.num)
           /\ cur # p + op.num => AlignedRun(op.num) \cap 0 .. cur = {}
           /\ cur # p + op.num /\ cur >= mm_limit => AlignedRun(op.num) = {}
<1> USE PhysAssumption
<1>1. op.num \in Nat \ {0} /\ op.pos \in Nat /\ mm_limit \in Nat
    BY DEF TypeOK, NoSearch, Search
<1>2. op.pos % LARGE_PG = 0 /\ AlignedStart <= op.pos
      /\ \A r \in AlignedRun(op.num) : op.pos <= r
    BY DEF AlignedSearch
<1>3. AlignedStart \in Nat
    <2>1. LARGE_PG \div WORD \in Nat
        BY DivMod
    <2> QED BY <2>1 DEF AlignedStart
<1> DEFINE C == {q \in op.pos .. RoundUp(op.pos + mm_limit, LARGE_PG) :
                    /\ (q - op.pos) % LARGE_PG = 0
                    /\ q >= mm_limit \/ q \in mm_table}
           E == {q \in p .. p + op.num :
                    q = p + op.num \/ q >= mm_limit \/ q \notin mm_table}
<1>4. p \in C /\ \A y \in C : p <= y
    BY LeastMember DEF AlignedCandidate
<1>5. p \in Nat /\ op.pos <= p /\ (p - op.pos) % LARGE_PG = 0
      /\ (p >= mm_limit \/ p \in mm_table)
    BY <1>1, <1>4
<1>6. p % LARGE_PG = 0 /\ AlignedStart <= p
    <2>1. p - op.pos \in Nat /\ op.pos + (p - op.pos) = p
        BY <1>1, <1>5
    <2>2. (op.pos + (p - op.pos)) % LARGE_PG = 0
        BY <1>1, <1>2, <1>5, <2>1, SumMultiple
    <2> QED BY <1>1, <1>2, <1>3, <1>5, <2>1, <2>2
<1>7. cur \in E /\ \A y \in E : cur <= y
    BY LeastMember DEF AlignedEnd
<1>8. cur \in Nat /\ p <= cur /\ cur <= p + op.num
      /\ (cur = p + op.num \/ cur >= mm_limit \/ cur \notin mm_table)
    BY <1>1, <1>5, <1>7
<1>9. ASSUME NEW r \in AlignedRun(op.num)
      PROVE  /\ r \in Nat /\ r % LARGE_PG = 0 /\ r + op.num <= mm_limit
             /\ \A q \in r .. r + op.num - 1 : q \in mm_table
             /\ p <= r
    <2>1. r \in AlignedStart .. mm_limit - op.num /\ r % LARGE_PG = 0
          /\ Bits(r, op.num) \subseteq mm_table
        BY DEF AlignedRun
    <2>2. r \in Nat /\ r + op.num <= mm_limit
          /\ \A q \in r .. r + op.num - 1 : q \in mm_table
        BY <1>1, <1>3, <2>1 DEF Bits
    <2>3. op.pos <= r
        BY <1>2
    <2>4. r - op.pos \in Nat /\ op.pos + (r - op.pos) = r
        BY <1>1, <2>2, <2>3
    <2>5. (r - op.pos) % LARGE_PG = 0
        <3>1. (op.pos + (r - op.pos)) % LARGE_PG = 0
            BY <2>1, <2>4
        <3> QED BY <1>1, <1>2, <2>4, <3>1, SumMultiple
    <2>6. r <= RoundUp(op.pos + mm_limit, LARGE_PG)
          /\ RoundUp(op.pos + mm_limit, LARGE_PG) \in Nat
        <3>1. op.pos + mm_limit <= RoundUp(op.pos + mm_limit, LARGE_PG)
              /\ RoundUp(op.pos + mm_limit, LARGE_PG) \in Nat
            BY <1>1, RoundUpIs
        <3> QED BY <1>1, <2>2, <3>1
    <2>7. r \in mm_table
        BY <1>1, <2>2
    <2>8. r \in C
        BY <1>1, <2>2, <2>3, <2>5, <2>6, <2>7
    <2> QED BY <1>4, <2>1, <2>2, <2>8
<1>10. ASSUME cur = p + op.num PROVE p \in AlignedRun(op.num)
    <2>1. \A q \in p .. p + op.num - 1 : q \in mm_table /\ q < mm_limit
        <3> SUFFICES ASSUME NEW q \in p .. p + op.num - 1,
                            ~(q \in mm_table /\ q < mm_limit)
                     PROVE  FALSE
            OBVIOUS
        <3>1. q \in E
            BY <1>1, <1>5
        <3>2. cur <= q
            BY <1>7, <3>1
        <3> QED BY <1>1, <1>5, <1>10, <3>2
    <2>2. p + op.num <= mm_limit
        <3>1. p + op.num - 1 \in p .. p + op.num - 1
            BY <1>1, <1>5
        <3>2. p + op.num - 1 < mm_limit
            BY <2>1, <3>1
        <3> QED BY <1>1, <1>5, <3>2
    <2>3. p \in AlignedStart .. mm_limit - op.num
        BY <1>1, <1>3, <1>5, <1>6, <2>2
    <2>4. Bits(p, op.num) \subseteq mm_table
        BY <2>1 DEF Bits
    <2> QED BY <1>6, <2>3, <2>4 DEF AlignedRun
<1>11. ASSUME cur # p + op.num, NEW r \in AlignedRun(op.num), r <= cur
       PROVE  FALSE
    <2>1. r \in Nat /\ r + op.num <= mm_limit /\ p <= r
          /\ \A q \in r .. r + op.num - 1 : q \in mm_table
        BY <1>9
    <2>2. cur \in r .. r + op.num - 1
        BY <1>1, <1>5, <1>8, <1>11, <2>1
    <2>3. cur \in mm_table /\ cur < mm_limit
        BY <1>1, <2>1, <2>2
    <2> QED BY <1>1, <1>8, <1>11, <2>3
<1>12. ASSUME cur # p + op.num, cur >= mm_limit, NEW r \in AlignedRun(op.num)
       PROVE  FALSE
    <2>1. r \in Nat /\ r + op.num <= mm_limit
        BY <1>9
    <2>2. r <= cur
        BY <1>1, <1>8, <1>12, <2>1
    <2> QED BY <1>11, <1>12, <2>2
<1>13. cur # p + op.num => AlignedRun(op.num) \cap 0 .. cur = {}
    <2> SUFFICES ASSUME cur # p + op.num, NEW r \in AlignedRun(op.num),
                        r \in 0 .. cur
                 PROVE  FALSE
        OBVIOUS
    <2>1. r <= cur
        BY <1>8
    <2> QED BY <1>11, <2>1
<1>14. cur # p + op.num /\ cur >= mm_limit => AlignedRun(op.num) = {}
    BY <1>12
<1> QED BY <1>5, <1>6, <1>8, <1>9, <1>10, <1>13, <1>14

LEMMA NextAligned ==
    ASSUME LargePagesFit
    PROVE  IInv /\ AlignedSearch /\ [Next]_vars => AlignedSearch'
<1> SUFFICES ASSUME IInv, AlignedSearch, [Next]_vars, op'.kind = "aligned"
             PROVE  AlignedSearch'
    BY DEF AlignedSearch
<1> USE PhysAssumption
<1>t. TypeOK /\ BootFirst
    BY DEF IInv, TypeInv
<1>s. op.kind = "aligned" => /\ op \in Search /\ op.num \in Nat \ {0}
                             /\ op.i \in Nat /\ op.pos \in Nat
    BY <1>t DEF TypeOK, NoSearch, Search
<1>i. Idle.kind = "idle"
    BY DEF Idle
<1>a. AlignedStart \in Nat
    <2>1. LARGE_PG \div WORD \in Nat
        BY DivMod
    <2> QED BY <2>1 DEF AlignedStart
\* The step leaves the table alone and goes on at pos, past no free run.
<1>g. ASSUME op.kind = "aligned", UNCHANGED <<mm_table, mm_limit>>,
             op'.num = op.num, op'.pos \in Nat,
             InEntry(op'.i, op'.pos), op'.pos % LARGE_PG = 0,
             AlignedStart <= op'.pos,
             \A r \in AlignedRun(op.num) : op'.pos <= r
      PROVE  AlignedSearch'
    <2>1. AlignedRun(op.num)' = AlignedRun(op.num)
        BY <1>g DEF AlignedRun, AlignedStart
    <2> QED BY <1>g, <2>1 DEF AlignedSearch, InEntry, AlignedStart
<1>1. CASE \E n \in Sizes : alloc_phys_frames_aligned(n * LARGE_PG)
    <2>1. PICK n \in Sizes : alloc_phys_frames_aligned(n * LARGE_PG)
        BY <1>1
    <2>2. op'.num = n * LARGE_PG /\ op'.i = AlignedStart \div WORD
          /\ op'.pos = AlignedStart
        BY <2>1 DEF alloc_phys_frames_aligned
    <2>3. InEntry(AlignedStart \div WORD, AlignedStart)
        BY <1>a, DivInEntry
    <2>4. mm_limit \in Nat /\ n \in Nat /\ n * LARGE_PG \in Nat
          /\ mm_limit' = mm_limit
        BY <1>t, <2>1 DEF TypeOK, alloc_phys_frames_aligned
    <2>5. \A r \in AlignedRun(op.num)' : AlignedStart <= r
        BY <1>a, <2>2, <2>4 DEF AlignedRun
    <2> QED BY <1>a, <2>2, <2>3, <2>5
            DEF AlignedSearch, LargePagesFit, InEntry, AlignedStart
<1>2. CASE aligned_skip_entry
    <2> DEFINE w == LARGE_PG \div WORD
    <2>1. op.kind = "aligned" /\ WordIsZero(op.i)
          /\ UNCHANGED <<mm_table, mm_limit>>
        BY <1>2 DEF aligned_skip_entry
    <2>2. w \in Nat \ {0} /\ LARGE_PG = WORD * w
        <3>1. w \in Nat /\ LARGE_PG = WORD * w
            BY Multiple DEF LargePagesFit
        <3> QED BY <3>1
    <2>3. op' = [op EXCEPT !.i = op.i + w, !.pos = op.pos + LARGE_PG]
        BY <1>2, <2>2 DEF aligned_skip_entry
    <2>4. op'.num = op.num /\ op'.i = op.i + w /\ op'.pos = op.pos + LARGE_PG
        BY <1>s, <2>1, <2>3 DEF Search
    <2>5. InEntry(op.i, op.pos) /\ op.pos % LARGE_PG = 0
          /\ AlignedStart <= op.pos
        BY <2>1 DEF AlignedSearch
    <2>6. InEntry(op.i + w, op.pos + LARGE_PG)
        <3> HIDE DEF w
        <3>1. (op.i + w) * WORD = op.i * WORD + LARGE_PG /\ op.i * WORD \in Nat
            BY <1>s, <2>1, <2>2
        <3> QED BY <1>s, <2>1, <2>5, <3>1 DEF InEntry
    <2>7. (op.pos + LARGE_PG) % LARGE_PG = 0
        <3>1. LARGE_PG = LARGE_PG * 1
            OBVIOUS
        <3>2. LARGE_PG % LARGE_PG = 0
            BY <3>1, Multiple
        <3> QED BY <1>s, <2>1, <2>5, <3>2, SumMultiple
    <2>8. ASSUME NEW r \in AlignedRun(op.num)
          PROVE  op.pos + LARGE_PG <= r
        <3>1. op.pos <= r /\ r % LARGE_PG = 0 /\ r \in mm_table /\ r \in Nat
            <4>1. r \in AlignedStart .. mm_limit - op.num /\ r % LARGE_PG = 0
                  /\ Bits(r, op.num) \subseteq mm_table
                BY DEF AlignedRun
            <4>2. mm_limit \in Nat
                BY <1>t DEF TypeOK
            <4>3. r \in Nat
                BY <1>a, <1>s, <2>1, <4>1, <4>2
            <4>4. r \in Bits(r, op.num)
                BY <1>s, <2>1, <4>3 DEF Bits
            <4> QED BY <2>1, <4>1, <4>3, <4>4 DEF AlignedSearch
        <3>2. op.pos # r
            BY <1>s, <2>1, <2>5, <3>1, ZeroEntry
        <3>3. op.pos < r
            BY <1>s, <2>1, <3>1, <3>2
        <3> QED BY <1>s, <2>1, <2>5, <3>1, <3>3, NextMultiple
    <2>9. op.pos + LARGE_PG \in Nat /\ AlignedStart <= op.pos + LARGE_PG
        BY <1>a, <1>s, <2>1, <2>5
    <2> QED BY <1>g, <2>1, <2>4, <2>6, <2>7, <2>8, <2>9
<1>3. CASE aligned_try
    <2> DEFINE up(c) == RoundUp(c + 1, LARGE_PG)
    <2>1. op.kind = "aligned" /\ op' # Idle /\ mm_limit' = mm_limit
        BY <1>3, <1>i DEF aligned_try
    <2>2. PICK p \in AlignedCandidate(op.pos) :
              \E cur \in AlignedEnd(p, op.num) :
                 /\ cur # p + op.num
                 /\ op' = [op EXCEPT !.pos = up(cur), !.i = up(cur) \div WORD]
                 /\ mm_table' = mm_table
        BY <1>3, <2>1 DEF aligned_try
    <2>3. PICK cur \in AlignedEnd(p, op.num) :
                 /\ cur # p + op.num
                 /\ op' = [op EXCEPT !.pos = up(cur), !.i = up(cur) \div WORD]
                 /\ mm_table' = mm_table
        BY <2>2
    <2>4. /\ p \in Nat /\ cur \in Nat /\ AlignedStart <= p /\ p <= cur
          /\ \A r \in AlignedRun(op.num) : r \in Nat
          /\ AlignedRun(op.num) \cap 0 .. cur = {}
        BY <1>t, <2>1, <2>3, AlignedPass
    <2>5. op'.num = op.num /\ op'.pos = up(cur) /\ op'.i = up(cur) \div WORD
        BY <1>s, <2>1, <2>3 DEF Search
    <2>6. /\ up(cur) \in Nat /\ up(cur) % LARGE_PG = 0 /\ cur + 1 <= up(cur)
          /\ \A y \in Nat : y % LARGE_PG = 0 /\ cur + 1 <= y => up(cur) <= y
        <3>1. cur + 1 \in Nat
            BY <2>4
        <3> QED BY <3>1, RoundUpIs
    <2> HIDE DEF up
    <2>7. InEntry(up(cur) \div WORD, up(cur))
        BY <2>6, DivInEntry
    <2>8. ASSUME NEW r \in AlignedRun(op.num) PROVE up(cur) <= r
        <3>1. r \in Nat /\ r % LARGE_PG = 0 /\ ~(r \in 0 .. cur)
            BY <2>4 DEF AlignedRun
        <3>2. cur + 1 <= r
            BY <2>4, <3>1
        <3> QED BY <2>6, <3>1, <3>2
    <2>9. AlignedStart <= up(cur)
        BY <1>a, <2>4, <2>6
    <2> QED BY <1>g, <2>1, <2>3, <2>5, <2>6, <2>7, <2>8, <2>9
<1>4. CASE \/ frames_fail \/ frames_overrun \/ aligned_fail
           \/ \E n \in Sizes : alloc_phys_frames(n)
    BY <1>4, <1>i DEF frames_fail, frames_overrun, aligned_fail,
                      alloc_phys_frames
<1>5. CASE frames_skip_entry \/ frames_try
    <2>1. op \in Search /\ op.kind = "frames"
        BY <1>5, <1>t DEF frames_skip_entry, frames_try, TypeOK, NoSearch
    <2>2. op' = Idle \/ \E i, pos : \/ op' = [op EXCEPT !.pos = pos, !.i = i]
                                    \/ op' = [op EXCEPT !.i = i, !.pos = pos]
        BY <1>5 DEF frames_skip_entry, frames_try
    <2>3. op'.kind \in {"frames", "idle"}
        BY <1>i, <2>1, <2>2 DEF Search
    <2> QED BY <2>3
<1>6. CASE \/ boot_map_entry \/ boot_limit \/ boot_take_zero
           \/ boot_take_kernel \/ boot_take_module \/ boot_done
    <2>1. op' = op /\ boot.phase # "run"
        BY <1>6 DEF boot_map_entry, boot_limit, boot_take_zero,
                    boot_take_kernel, boot_take_module, boot_done
    <2> QED BY <1>i, <1>t, <2>1 DEF BootFirst
<1>7. CASE \/ alloc_phys_frame \/ alloc_phys_frame_lowmem
           \/ \E b \in held : free_phys_frames(b)
           \/ \E k \in 1 .. Len(machine.mods) : free_module(k)
    BY <1>7, <1>i DEF alloc_phys_frame, alloc_phys_frame_lowmem,
                      free_phys_frames, free_module, Ready
<1>8. CASE overrun_spin \/ UNCHANGED vars
    <2>1. UNCHANGED <<op, mm_table, mm_limit>>
        BY <1>8 DEF overrun_spin, vars
    <2> QED BY <1>g, <1>s, <2>1 DEF AlignedSearch
<1> QED BY <1>1, <1>2, <1>3, <1>4, <1>5, <1>6, <1>7, <1>8 DEF Next

-----------------------------------------------------------------------------
(* physical_next_free_range                                                *)

\* What the least and the greatest element are.
LEMMA MinIs ==
    ASSUME NEW S, S \subseteq Int, NEW x \in S, \A y \in S : x <= y
    PROVE  Min(S) = x
<1> DEFINE m == Min(S)
<1>1. m \in S /\ \A y \in S : m <= y
    BY DEF Min
<1> HIDE DEF m
<1>2. m \in Int /\ x \in Int /\ m <= x /\ x <= m
    BY <1>1
<1>3. m = x
    BY <1>2
<1> QED BY <1>3 DEF m

LEMMA MinFound ==
    ASSUME NEW S, S \subseteq Nat, S # {}
    PROVE  Min(S) \in S /\ \A y \in S : Min(S) <= y
<1>1. PICK x \in S : \A y \in S : x <= y
    BY LeastNat
<1>2. S \subseteq Int
    OBVIOUS
<1>3. Min(S) = x
    BY <1>1, <1>2, MinIs
<1> QED BY <1>1, <1>3

LEMMA MaxIs ==
    ASSUME NEW a \in Nat, NEW b \in Nat
    PROVE  Max({a, b}) = IF a >= b THEN a ELSE b
<1> DEFINE S == {a, b}
           m == Max(S)
           x == IF a >= b THEN a ELSE b
<1>1. x \in S /\ \A y \in S : x >= y
    OBVIOUS
<1>2. m \in S /\ \A y \in S : m >= y
    BY <1>1 DEF Max
<1>3. m \in Nat /\ x \in Nat /\ m >= x /\ x >= m
    BY <1>1, <1>2
<1> HIDE DEF m, x
<1>4. m = x
    BY <1>3
<1> QED BY <1>4 DEF m, x

\* The pages from a up to, not including, b are free.
FreeRun(a, b) == \A p \in a .. b - 1 : p \in mm_table

\* What the bit loop counts: the first run of free pages in lo .. hi - 1, up
\* to hi.
LEMMA ScanBitsIs ==
    ASSUME mm_table \subseteq Nat, NEW lo \in Nat, NEW hi \in Nat
    PROVE  \/ /\ \A p \in lo .. hi - 1 : p \notin mm_table
              /\ ScanBits(lo, hi) = <<hi, 0, FALSE>>
           \/ \E s \in lo .. hi - 1, stop \in lo .. hi :
                 /\ s < stop /\ FreeRun(s, stop)
                 /\ \A p \in lo .. s - 1 : p \notin mm_table
                 /\ stop = hi \/ stop \notin mm_table
                 /\ ScanBits(lo, hi) = <<s, stop - s, stop < hi>>
<1> DEFINE ones == {b \in mm_table : lo <= b /\ b < hi}
           s    == Min(ones)
           T    == {b \in s .. hi : b = hi \/ b \notin mm_table}
           stop == Min(T)
<1>1. CASE ones = {}
    <2>1. ScanBits(lo, hi) = <<hi, 0, FALSE>>
        BY <1>1 DEF ScanBits
    <2>2. \A p \in lo .. hi - 1 : p \notin mm_table
        BY <1>1
    <2> QED BY <2>1, <2>2
<1>2. CASE ones # {}
    <2>1. ScanBits(lo, hi) = <<s, stop - s, stop < hi>>
        BY <1>2 DEF ScanBits
    <2>2. ones \subseteq Nat
        OBVIOUS
    <2>3. s \in ones /\ \A y \in ones : s <= y
        BY <1>2, <2>2, MinFound
    <2> HIDE DEF s
    <2>4. s \in lo .. hi - 1 /\ s \in Nat /\ s \in mm_table
        BY <2>3
    <2>5. \A p \in lo .. s - 1 : p \notin mm_table
        BY <2>3, <2>4
    <2>6. T \subseteq Nat /\ hi \in T
        BY <2>4
    <2>7. stop \in T /\ \A y \in T : stop <= y
        BY <2>6, MinFound
    <2> HIDE DEF stop
    <2>8. stop \in lo .. hi /\ s < stop /\ (stop = hi \/ stop \notin mm_table)
        BY <2>4, <2>7
    <2>9. FreeRun(s, stop)
        <3> SUFFICES ASSUME NEW p \in s .. stop - 1, p \notin mm_table
                     PROVE  FALSE
            BY DEF FreeRun
        <3>1. p \in T /\ p < stop
            BY <2>4, <2>8
        <3> QED BY <2>4, <2>7, <2>8, <3>1
    <2> QED BY <2>1, <2>4, <2>5, <2>8, <2>9
<1> QED BY <1>1, <1>2

\* The table describes nothing past the last entry in use.
TableEnds == mm_table \subseteq 0 .. entry_end * WORD - 1

\* What the last loop adds to count free pages before entry i: the rest of the
\* run, over as many entries as it takes.
LEMMA ScanEntriesIs ==
    ASSUME TableEnds, entry_end \in Nat, NEW i \in 0 .. entry_end,
           NEW count \in Nat, count <= i * WORD,
           FreeRun(i * WORD - count, i * WORD)
    PROVE  \E stop \in i * WORD .. entry_end * WORD :
              /\ stop \notin mm_table
              /\ FreeRun(i * WORD - count, stop)
              /\ ScanEntries(i, count) =
                     <<i * WORD - count, stop - (i * WORD - count)>>
<1> USE PhysAssumption
<1> DEFINE K    == {k \in i .. entry_end - 1 :
                       ~(Bits(k * WORD, WORD) \subseteq mm_table)}
           j    == Min({entry_end} \cup K)
           T    == {k \in 0 .. WORD : j * WORD + k \notin mm_table}
           tail == IF j = entry_end THEN 0 ELSE Min(T)
           stop == j * WORD + tail
           a    == i * WORD
           e    == entry_end * WORD
<1>1. ScanEntries(i, count) = <<a - count, count + (j - i) * WORD + tail>>
    <2>1. Max({i, entry_end}) = entry_end
        BY MaxIs
    <2> QED BY <2>1 DEF ScanEntries
<1>2. j \in {entry_end} \cup K /\ \A y \in {entry_end} \cup K : j <= y
    <2>1. {entry_end} \cup K \subseteq Nat
        OBVIOUS
    <2> QED BY <2>1, MinFound
<1> HIDE DEF j
<1>3. j \in i .. entry_end /\ j \in Nat
    BY <1>2
<1>4. \A k \in i .. j - 1 : Bits(k * WORD, WORD) \subseteq mm_table
    BY <1>2, <1>3
<1>5. a \in Nat /\ e \in Nat /\ j * WORD \in Nat
      /\ (j - i) * WORD = j * WORD - a
    BY <1>3
<1>6. a <= j * WORD /\ j * WORD <= e
    <2>1. WORD * i <= WORD * j /\ WORD * j <= WORD * entry_end
        BY <1>3, MulLe
    <2>2. WORD * i = a /\ WORD * j = j * WORD /\ WORD * entry_end = e
        BY <1>3
    <2> QED BY <2>1, <2>2
<1>7. FreeRun(a, j * WORD)
    <2> SUFFICES ASSUME NEW p \in a .. j * WORD - 1 PROVE p \in mm_table
        BY DEF FreeRun
    <2> DEFINE k == p \div WORD
    <2>1. p \in Nat
        BY <1>5
    <2>2. k \in Nat /\ InEntry(k, p)
        BY <2>1, DivMod, DivInEntry
    <2> HIDE DEF k
    <2>3. k * WORD \in Nat /\ k * WORD <= p /\ p < k * WORD + WORD
        BY <2>2 DEF InEntry
    <2>4. p \in Bits(k * WORD, WORD)
        BY <2>1, <2>3 DEF Bits
    <2>5. i <= k
        <3> SUFFICES ASSUME k + 1 <= i PROVE FALSE
            BY <2>2
        <3>1. WORD * (k + 1) <= WORD * i /\ WORD * i = a
              /\ WORD * (k + 1) = k * WORD + WORD
            BY <2>2, MulLe
        <3> HIDE DEF a
        <3> QED BY <1>5, <2>1, <2>3, <3>1
    <2>6. k < j
        <3> SUFFICES ASSUME j <= k PROVE FALSE
            BY <1>3, <2>2
        <3>1. WORD * j <= WORD * k /\ WORD * j = j * WORD /\ WORD * k = k * WORD
            BY <1>3, <2>2, MulLe
        <3> QED BY <1>5, <2>1, <2>3, <3>1
    <2>7. k \in i .. j - 1
        BY <1>3, <2>2, <2>5, <2>6
    <2> QED BY <1>4, <2>4, <2>7
<1>8. tail \in Nat /\ stop \notin mm_table /\ stop <= e
      /\ FreeRun(j * WORD, stop)
    <2>1. CASE j = entry_end
        <3>1. tail = 0 /\ stop = e
            BY <1>5, <2>1
        <3>2. e \notin mm_table
            BY <1>5 DEF TableEnds
        <3>3. FreeRun(j * WORD, stop)
            BY <1>5, <2>1, <3>1 DEF FreeRun
        <3> QED BY <1>5, <3>1, <3>2, <3>3
    <2>2. CASE j # entry_end
        <3>1. j \in K /\ tail = Min(T)
            BY <1>2, <2>2
        <3>2. T # {} /\ T \subseteq Nat
            <4>1. PICK p \in Bits(j * WORD, WORD) : p \notin mm_table
                BY <3>1
            <4>2. p - j * WORD \in 0 .. WORD /\ j * WORD + (p - j * WORD) = p
                BY <1>5, <4>1 DEF Bits
            <4>3. p - j * WORD \in T
                BY <4>1, <4>2
            <4> QED BY <4>3
        <3>3. tail \in T /\ \A y \in T : tail <= y
            BY <3>1, <3>2, MinFound
        <3> HIDE DEF tail
        <3>4. tail \in 0 .. WORD /\ stop \notin mm_table
            BY <3>3
        <3>5. stop <= e
            <4>1. WORD * (j + 1) <= WORD * entry_end /\ j + 1 <= entry_end
                BY <1>3, <2>2, MulLe
            <4>2. WORD * (j + 1) = j * WORD + WORD /\ WORD * entry_end = e
                BY <1>3
            <4> QED BY <1>5, <3>4, <4>1, <4>2
        <3>6. FreeRun(j * WORD, stop)
            <4> SUFFICES ASSUME NEW p \in j * WORD .. stop - 1,
                                p \notin mm_table
                         PROVE  FALSE
                BY DEF FreeRun
            <4>1. p - j * WORD \in 0 .. WORD /\ j * WORD + (p - j * WORD) = p
                  /\ p - j * WORD < tail
                BY <1>5, <3>4
            <4>2. p - j * WORD \in T
                BY <4>1
            <4> QED BY <3>3, <3>4, <4>1, <4>2
        <3> QED BY <3>4, <3>5, <3>6
    <2> QED BY <2>1, <2>2
<1> HIDE DEF tail
<1>9. stop \in a .. e
    BY <1>5, <1>6, <1>8
<1>10. FreeRun(a - count, stop)
    BY <1>5, <1>6, <1>7, <1>8, <1>9 DEF FreeRun
<1>11. count + (j - i) * WORD + tail = stop - (a - count)
    BY <1>5, <1>8
<1>12. ScanEntries(i, count) = <<a - count, stop - (a - count)>>
    BY <1>1, <1>11
<1> QED BY <1>8, <1>9, <1>10, <1>12

\* What physical_next_free_range returns: nothing when no page from bit on is
\* free, otherwise the first maximal run of free pages.
FirstRun(bit, s, stop) ==
    /\ bit <= s /\ s < stop /\ stop <= entry_end * WORD
    /\ FreeRun(s, stop) /\ stop \notin mm_table
    /\ \A p \in bit .. s - 1 : p \notin mm_table

LEMMA NextFreeRangeIs ==
    ASSUME TableEnds, entry_end \in Nat, NEW bit \in Nat
    PROVE  \/ /\ \A p \in mm_table : p < bit
              /\ next_free_range(bit) = <<0, 0>>
           \/ \E s \in Nat, stop \in Nat :
                 /\ FirstRun(bit, s, stop)
                 /\ next_free_range(bit) = <<s, stop - s>>
<1> USE PhysAssumption
<1> DEFINE end    == RoundUp(bit, WORD)
           first  == ScanBits(bit, end)
           I      == {k \in end \div WORD .. entry_end : ~WordIsZero(k)}
           i      == Min({entry_end} \cup I)
           second == ScanBits(i * WORD, (i + 1) * WORD)
           n      == entry_end * WORD
           w      == end \div WORD
           result == IF first[3] THEN <<first[1], first[2]>>
                     ELSE IF first[2] > 0 THEN ScanEntries(w, first[2])
                     ELSE IF second[3] THEN <<second[1], second[2]>>
                     ELSE ScanEntries(i + 1, second[2])
<1>1. next_free_range(bit) = IF bit \div WORD >= entry_end \/ result[2] = 0
                             THEN <<0, 0>> ELSE result
    BY DEF next_free_range
<1>2. n \in Nat /\ mm_table \subseteq Nat /\ \A p \in mm_table : p < n
    <2>1. n \in Nat
        OBVIOUS
    <2> QED BY <2>1 DEF TableEnds
<1>3. CASE bit \div WORD >= entry_end
    <2>1. bit \div WORD \in Nat /\ InEntry(bit \div WORD, bit)
        BY DivMod, DivInEntry
    <2>2. n <= bit
        BY <1>3, <2>1, PastTable
    <2>3. \A p \in mm_table : p < bit
        BY <1>2, <2>2
    <2> QED BY <1>1, <1>3, <2>3
<1>4. CASE ~(bit \div WORD >= entry_end)
    <2>1. end \in Nat /\ end % WORD = 0 /\ bit <= end
          /\ \A y \in Nat : y % WORD = 0 /\ bit <= y => end <= y
        BY RoundUpIs
    <2>2. w \in Nat /\ end = WORD * w /\ w * WORD = end
        <3>1. w \in Nat /\ end = WORD * w
            BY <2>1, Multiple
        <3> HIDE DEF w, end
        <3> QED BY <3>1
    <2>3. bit < n /\ end <= n
        <3> DEFINE b == bit \div WORD
        <3>1. b \in Nat /\ InEntry(b, bit)
            BY DivMod, DivInEntry
        <3> HIDE DEF b
        <3>2. b + 1 <= entry_end
            BY <1>4, <3>1 DEF b
        <3>3. WORD * (b + 1) <= WORD * entry_end
              /\ WORD * (b + 1) = b * WORD + WORD /\ WORD * entry_end = n
            BY <3>1, <3>2, MulLe
        <3>4. bit < n
            BY <1>2, <3>1, <3>3 DEF InEntry
        <3>5. n % WORD = 0
            BY <1>2, <3>3, Multiple
        <3> QED BY <1>2, <2>1, <3>4, <3>5
    <2>4. w \in 0 .. entry_end
        <3> HIDE DEF w, end
        <3> SUFFICES ASSUME entry_end + 1 <= w PROVE FALSE
            BY <2>2
        <3>1. WORD * (entry_end + 1) <= WORD * w
              /\ WORD * (entry_end + 1) = n + WORD
            BY <2>2, MulLe
        <3> QED BY <1>2, <2>1, <2>2, <2>3, <3>1
    <2>5. next_free_range(bit) = IF result[2] = 0 THEN <<0, 0>> ELSE result
        BY <1>1, <1>4
    <2> HIDE DEF end, w, n
    \* A run that reaches the end of its entry goes on in the next ones.
    <2>6. ASSUME NEW s \in Nat, NEW k \in 0 .. entry_end, s < k * WORD,
                 FreeRun(s, k * WORD), bit <= s,
                 \A p \in bit .. s - 1 : p \notin mm_table,
                 result = ScanEntries(k, k * WORD - s)
          PROVE  \E stop \in Nat : /\ FirstRun(bit, s, stop)
                                   /\ next_free_range(bit) = <<s, stop - s>>
        <3> HIDE DEF result
        <3> DEFINE count == k * WORD - s
        <3>1. k * WORD \in Nat
            OBVIOUS
        <3>2. count \in Nat /\ count <= k * WORD /\ k * WORD - count = s
            BY <2>6, <3>1
        <3> HIDE DEF count
        <3>3. FreeRun(k * WORD - count, k * WORD)
            BY <2>6, <3>2
        <3>4. PICK stop \in k * WORD .. entry_end * WORD :
                 /\ stop \notin mm_table
                 /\ FreeRun(k * WORD - count, stop)
                 /\ ScanEntries(k, count) =
                        <<k * WORD - count, stop - (k * WORD - count)>>
            BY <3>2, <3>3, ScanEntriesIs
        <3>5. stop \in Nat /\ s < stop /\ stop <= entry_end * WORD
            BY <1>2, <2>6, <3>1, <3>4 DEF n
        <3>6. FreeRun(s, stop) /\ result = <<s, stop - s>>
            BY <2>6, <3>2, <3>4 DEF count
        <3>7. FirstRun(bit, s, stop)
            BY <2>6, <3>4, <3>5, <3>6 DEF FirstRun
        <3>8. result[2] # 0
            <4>1. result[2] = stop - s
                BY <3>6
            <4> QED BY <3>5, <4>1
        <3> QED BY <2>5, <3>5, <3>6, <3>7, <3>8
    \* A run that ends before its entry does.
    <2>7. ASSUME NEW s \in Nat, NEW stop \in Nat, s < stop, stop < n,
                 FreeRun(s, stop), stop \notin mm_table, bit <= s,
                 \A p \in bit .. s - 1 : p \notin mm_table,
                 result = <<s, stop - s>>
          PROVE  /\ FirstRun(bit, s, stop)
                 /\ next_free_range(bit) = <<s, stop - s>>
        <3> HIDE DEF result
        <3>1. result[2] # 0
            <4>1. result[2] = stop - s
                BY <2>7
            <4> QED BY <2>7, <4>1
        <3>2. stop <= entry_end * WORD
            BY <1>2, <2>7 DEF n
        <3> QED BY <2>5, <2>7, <3>1, <3>2 DEF FirstRun
    <2>8. CASE \E s \in bit .. end - 1, stop \in bit .. end :
                 /\ s < stop /\ FreeRun(s, stop)
                 /\ \A p \in bit .. s - 1 : p \notin mm_table
                 /\ stop = end \/ stop \notin mm_table
                 /\ first = <<s, stop - s, stop < end>>
        <3>1. PICK s \in bit .. end - 1, stop \in bit .. end :
                 /\ s < stop /\ FreeRun(s, stop)
                 /\ \A p \in bit .. s - 1 : p \notin mm_table
                 /\ stop = end \/ stop \notin mm_table
                 /\ first = <<s, stop - s, stop < end>>
            BY <2>8
        <3>2. s \in Nat /\ stop \in Nat /\ bit <= s /\ stop - s \in Nat
              /\ stop - s > 0
            BY <2>1, <3>1
        <3>3. CASE stop < end
            <4>0. first[1] = s /\ first[2] = stop - s /\ first[3] = TRUE
                <5> HIDE DEF first
                <5>1. first = <<s, stop - s, TRUE>>
                    BY <3>1, <3>3, Zenon
                <5> QED BY <5>1
            <4>1. result = <<s, stop - s>>
                <5> HIDE DEF first
                <5> QED BY <4>0
            <4>2. stop < n /\ stop \notin mm_table
                BY <1>2, <2>1, <2>3, <3>1, <3>2, <3>3
            <4> HIDE DEF result
            <4> QED BY <2>7, <3>1, <3>2, <4>1, <4>2
        <3>4. CASE ~(stop < end)
            <4>1. stop = end
                BY <2>1, <3>1, <3>2, <3>4
            <4>0. first[2] = end - s /\ first[2] > 0 /\ first[3] = FALSE
                <5> HIDE DEF first
                <5>1. first = <<s, stop - s, FALSE>>
                    <6>1. (stop < end) = FALSE
                        BY <3>4
                    <6> QED BY <3>1, <6>1, Zenon
                <5> QED BY <3>2, <4>1, <5>1
            <4>2. result = ScanEntries(w, end - s)
                <5> HIDE DEF first
                <5> QED BY <4>0
            <4>3. s < w * WORD /\ FreeRun(s, w * WORD) /\ w * WORD = end
                BY <2>2, <3>1, <4>1
            <4> HIDE DEF result
            <4> QED BY <2>4, <2>6, <3>1, <3>2, <4>2, <4>3
        <3> QED BY <3>3, <3>4
    <2>9. CASE /\ \A p \in bit .. end - 1 : p \notin mm_table
               /\ first = <<end, 0, FALSE>>
        <3>1. result = IF second[3] THEN <<second[1], second[2]>>
                       ELSE ScanEntries(i + 1, second[2])
            <4>1. first[3] = FALSE /\ first[2] = 0
                BY <2>9
            <4> HIDE DEF first
            <4> QED BY <4>1
        <3> HIDE DEF first, result
        <3>2. i \in {entry_end} \cup I /\ \A y \in {entry_end} \cup I : i <= y
            <4>1. {entry_end} \cup I \subseteq Nat
                BY <2>2 DEF w
            <4> QED BY <4>1, MinFound
        <3> HIDE DEF i
        <3>3. i \in w .. entry_end /\ i \in Nat
              /\ \A k \in w .. i - 1 : WordIsZero(k)
            BY <2>2, <2>4, <3>2 DEF w
        <3>4. i * WORD \in Nat /\ (i + 1) * WORD = i * WORD + WORD
              /\ end <= i * WORD
            <4>1. WORD * w <= WORD * i /\ WORD * i = i * WORD
                BY <2>2, <3>3, MulLe
            <4> QED BY <2>2, <3>3, <4>1
        <3>5. \A p \in bit .. i * WORD - 1 : p \notin mm_table
            <4> SUFFICES ASSUME NEW p \in bit .. i * WORD - 1, end <= p
                         PROVE  p \notin mm_table
                BY <2>1, <2>9
            <4> DEFINE k == p \div WORD
            <4>1. p \in Nat
                OBVIOUS
            <4>2. k \in Nat /\ InEntry(k, p)
                BY <4>1, DivMod, DivInEntry
            <4> HIDE DEF k
            <4>3. k * WORD \in Nat /\ k * WORD <= p /\ p < k * WORD + WORD
                BY <4>2 DEF InEntry
            <4>4. w <= k
                <5> SUFFICES ASSUME k + 1 <= w PROVE FALSE
                    BY <2>2, <4>2
                <5>1. WORD * (k + 1) <= WORD * w
                      /\ WORD * (k + 1) = k * WORD + WORD
                    BY <2>2, <4>2, MulLe
                <5> QED BY <2>2, <4>1, <4>3, <5>1
            <4>5. k < i
                <5> SUFFICES ASSUME i <= k PROVE FALSE
                    BY <3>3, <4>2
                <5>1. WORD * i <= WORD * k /\ WORD * i = i * WORD
                      /\ WORD * k = k * WORD
                    BY <3>3, <4>2, MulLe
                <5> QED BY <3>4, <4>1, <4>3, <5>1
            <4>6. WordIsZero(k)
                BY <2>2, <3>3, <4>2, <4>4, <4>5
            <4> QED BY <4>1, <4>2, <4>6, ZeroEntry
        <3> DEFINE lo == i * WORD
                   hi == (i + 1) * WORD
        <3>6. lo \in Nat /\ hi \in Nat /\ hi = lo + WORD
              /\ second = ScanBits(lo, hi)
            BY <3>4
        <3> HIDE DEF second
        <3>7. CASE i = entry_end
            <4>1. lo = n
                BY <3>7 DEF n
            <4>2. \A p \in mm_table : p < bit
                BY <1>2, <3>5, <4>1
            <4>3. \A p \in lo .. hi - 1 : p \notin mm_table
                BY <1>2, <3>6, <4>1
            <4>5. second = <<hi, 0, FALSE>>
                <5>1. ASSUME NEW p \in lo .. hi - 1, NEW stop \in lo .. hi,
                             p < stop, FreeRun(p, stop)
                      PROVE  FALSE
                    <6>1. p \in p .. stop - 1
                        BY <3>6, <5>1
                    <6> QED BY <4>3, <5>1, <6>1 DEF FreeRun
                <5> HIDE DEF lo, hi
                <5> QED BY <1>2, <3>6, <5>1, ScanBitsIs
            <4>6. result = ScanEntries(entry_end + 1, 0)
                BY <3>1, <3>7, <4>5
            <4>7. ScanEntries(entry_end + 1, 0)[2] = 0
                <5> DEFINE e == entry_end + 1
                           K == {k \in e .. entry_end - 1 :
                                    ~(Bits(k * WORD, WORD) \subseteq mm_table)}
                           T(j) == {k \in 0 .. WORD : j * WORD + k \notin mm_table}
                <5>1. Max({e, entry_end}) = e
                    BY MaxIs
                <5>2. K = {} /\ {e} \cup K = {e}
                    OBVIOUS
                <5>3. Min({e} \cup K) = e
                    BY <5>2, MinIs
                <5>4. ScanEntries(e, 0) =
                        <<e * WORD - 0,
                          0 + (Min({e} \cup K) - e) * WORD
                            + (IF Min({e} \cup K) = e THEN 0
                               ELSE Min(T(Min({e} \cup K))))>>
                    BY <5>1 DEF ScanEntries
                <5>5. ScanEntries(e, 0) = <<e * WORD - 0, 0 + (e - e) * WORD + 0>>
                    BY <5>3, <5>4
                <5>6. 0 + (e - e) * WORD + 0 = 0
                    OBVIOUS
                <5> QED BY <5>5, <5>6
            <4> QED BY <2>5, <4>2, <4>6, <4>7
        <3>8. CASE i # entry_end
            <4>1. i + 1 \in 0 .. entry_end /\ ~WordIsZero(i)
                BY <3>2, <3>3, <3>8
            <4>2. PICK p0 \in lo .. hi - 1 : p0 \in mm_table
                BY <4>1 DEF WordIsZero
            <4>3. hi <= n
                <5>1. WORD * (i + 1) <= WORD * entry_end
                      /\ WORD * (i + 1) = hi /\ WORD * entry_end = n
                    BY <3>3, <4>1, MulLe DEF n
                <5> QED BY <5>1
            <4>4. PICK s \in lo .. hi - 1, stop \in lo .. hi :
                     /\ s < stop /\ FreeRun(s, stop)
                     /\ \A p \in lo .. s - 1 : p \notin mm_table
                     /\ stop = hi \/ stop \notin mm_table
                     /\ second = <<s, stop - s, stop < hi>>
                <5> HIDE DEF lo, hi
                <5>1. ~(\A p \in lo .. hi - 1 : p \notin mm_table)
                    BY <4>2
                <5>2. \/ /\ \A p \in lo .. hi - 1 : p \notin mm_table
                         /\ ScanBits(lo, hi) = <<hi, 0, FALSE>>
                      \/ \E s \in lo .. hi - 1, stop \in lo .. hi :
                            /\ s < stop /\ FreeRun(s, stop)
                            /\ \A p \in lo .. s - 1 : p \notin mm_table
                            /\ stop = hi \/ stop \notin mm_table
                            /\ ScanBits(lo, hi) = <<s, stop - s, stop < hi>>
                    BY <1>2, <3>6, ScanBitsIs
                <5> QED BY <3>6, <5>1, <5>2, Zenon
            <4>5. s \in Nat /\ stop \in Nat /\ bit <= s /\ lo <= s
                BY <2>1, <3>4, <3>6, <4>4
            <4>6. \A p \in bit .. s - 1 : p \notin mm_table
                <5> HIDE DEF hi
                <5> QED BY <3>5, <3>6, <4>4, <4>5
            <4>7. CASE stop < hi
                <5>1. result = <<s, stop - s>>
                    BY <3>1, <4>4, <4>7
                <5>2. stop < n /\ stop \notin mm_table
                    BY <1>2, <3>6, <4>3, <4>4, <4>5, <4>7
                <5> QED BY <2>7, <4>4, <4>5, <4>6, <5>1, <5>2
            <4>8. CASE ~(stop < hi)
                <5>1. stop = hi
                    BY <3>6, <4>4, <4>5, <4>8
                <5>2. result = ScanEntries(i + 1, (i + 1) * WORD - s)
                    BY <3>1, <4>4, <4>8, <5>1
                <5>3. s < (i + 1) * WORD /\ FreeRun(s, (i + 1) * WORD)
                    BY <4>4, <5>1
                <5> QED BY <2>6, <4>1, <4>5, <4>6, <5>2, <5>3
            <4> QED BY <4>7, <4>8
        <3> QED BY <3>7, <3>8
    <2> QED
        BY <1>2, <2>1, <2>8, <2>9, ScanBitsIs
<1> QED BY <1>3, <1>4

\* kernel_main's mem_limit is the end of the regions it has seen, and becomes
\* mm_limit.
MapLimit ==
    /\ boot.phase # "map" => mm_limit = boot.mem_limit \div PG_SIZE
    /\ \A k \in 1 .. Len(machine.map) :
          machine.map[k].available /\ (boot.phase # "map" \/ k < boot.index) =>
              machine.map[k].addr + machine.map[k].len <= boot.mem_limit

LEMMA NextMapLimit == IInv /\ MapLimit /\ [Next]_vars => MapLimit'
<1> SUFFICES ASSUME IInv, MapLimit, [Next]_vars PROVE MapLimit'
    OBVIOUS
<1> USE PhysAssumption
<1>t. TypeOK /\ boot \in Boot /\ boot.mem_limit \in Nat /\ boot.index \in Nat
      /\ machine \in Machines
    BY DEF IInv, TypeInv, TypeOK, Boot
<1>1. CASE boot_map_entry
    <2> DEFINE e == machine.map[boot.index]
    <2>1. boot.phase = "map" /\ boot'.phase = "map"
          /\ boot'.index = boot.index + 1 /\ machine' = machine
        BY <1>1, <1>t DEF boot_map_entry, Boot
    <2>2. boot'.mem_limit = IF e.available /\ e.addr + e.len > boot.mem_limit
                            THEN e.addr + e.len ELSE boot.mem_limit
        <3>1. CASE e.available
            BY <1>1, <1>t, <3>1 DEF boot_map_entry, Boot
        <3>2. CASE ~e.available
            BY <1>1, <1>t, <3>2 DEF boot_map_entry, Boot
        <3> QED BY <3>1, <3>2
    <2>3. \A k \in 1 .. Len(machine.map) :
              machine.map[k].addr \in Nat /\ machine.map[k].len \in Nat
        BY <1>t, MachineAssumption DEF ByteRange
    <2>4. boot.index \in 1 .. Len(machine.map)
        BY <1>1, <1>t, MachineAssumption DEF boot_map_entry, Boot
    <2>5. boot.mem_limit <= boot'.mem_limit /\ boot'.mem_limit \in Nat
          /\ (e.available => e.addr + e.len <= boot'.mem_limit)
        <3>1. e.addr \in Nat /\ e.len \in Nat
            BY <2>3, <2>4
        <3> HIDE DEF e
        <3> QED BY <1>t, <2>2, <3>1
    <2>6. ASSUME NEW k \in 1 .. Len(machine.map), machine.map[k].available,
                 k < boot.index + 1
          PROVE  machine.map[k].addr + machine.map[k].len <= boot'.mem_limit
        <3>1. CASE k = boot.index
            BY <2>5, <2>6, <3>1
        <3>2. CASE k < boot.index
            <4>1. machine.map[k].addr + machine.map[k].len <= boot.mem_limit
                BY <2>6, <3>2 DEF MapLimit
            <4> QED BY <1>t, <2>3, <2>5, <4>1
        <3>3. k = boot.index \/ k < boot.index
            BY <1>t, <2>6, MachineAssumption
        <3> QED BY <3>1, <3>2, <3>3
    <2> QED BY <2>1, <2>6 DEF MapLimit
<1>2. CASE boot_limit
    <2>1. boot.phase = "map" /\ boot.index > Len(machine.map)
          /\ boot'.mem_limit = boot.mem_limit /\ machine' = machine
          /\ mm_limit' = boot.mem_limit \div PG_SIZE
        BY <1>2, <1>t DEF boot_limit, physical_set_limit, Boot
    <2>2. \A k \in 1 .. Len(machine.map) : k < boot.index
        BY <1>t, <2>1, MachineAssumption
    <2> QED BY <2>1, <2>2 DEF MapLimit
<1>3. CASE boot_take_zero \/ boot_take_kernel \/ boot_take_module \/ boot_done
    <2>1. boot.phase # "map" /\ boot'.mem_limit = boot.mem_limit
          /\ machine' = machine /\ mm_limit' = mm_limit
        BY <1>3, <1>t DEF boot_take_zero, boot_take_kernel, boot_take_module,
                          boot_done, Boot
    <2> QED BY <2>1 DEF MapLimit
<1>4. CASE AllocStep
    <2>1. UNCHANGED <<mm_limit, machine, boot>>
        BY <1>t, <1>4, AllocTakesFree
    <2> QED BY <2>1 DEF MapLimit
<1>5. CASE \/ \E b \in held : free_phys_frames(b)
           \/ \E k \in 1 .. Len(machine.mods) : free_module(k)
           \/ UNCHANGED vars
    <2>1. UNCHANGED <<mm_limit, machine, boot>>
        BY <1>5 DEF free_phys_frames, free_module, vars
    <2> QED BY <2>1 DEF MapLimit
<1> QED BY <1>1, <1>2, <1>3, <1>4, <1>5 DEF Next, AllocStep

\* The entries in use describe all memory.
LEMMA MapEndsInRun ==
    ASSUME IInv, LimitInv, MapLimit, boot.phase = "run"
    PROVE  MapPages(machine) \subseteq 0 .. entry_end * WORD - 1
<1> USE PhysAssumption
<1>1. entry_end \in Nat /\ mm_limit \in Nat /\ boot.mem_limit \in Nat
      /\ machine \in Machines /\ mm_table \subseteq Nat
    BY DEF IInv, TypeInv, TypeOK, Boot
<1>2. mm_limit <= entry_end * WORD /\ mm_limit = boot.mem_limit \div PG_SIZE
      /\ entry_end * WORD \in Nat
    BY <1>1 DEF LimitInv, MapLimit
<1> SUFFICES ASSUME NEW p \in MapPages(machine) PROVE p \in 0 .. entry_end * WORD - 1
    OBVIOUS
<1>4. PICK k \in 1 .. Len(machine.map) :
          machine.map[k].available /\ p \in Inside(machine.map[k])
    BY DEF MapPages
<1>3. p \in Nat
    BY <1>4 DEF Inside
<1>5. (p + 1) * PG_SIZE <= machine.map[k].addr + machine.map[k].len
    BY <1>4 DEF Inside
<1>6. machine.map[k].addr + machine.map[k].len <= boot.mem_limit
      /\ machine.map[k].addr + machine.map[k].len \in Nat
    BY <1>1, <1>4, MachineAssumption DEF MapLimit, ByteRange
<1>7. p \in Nat /\ (p + 1) * PG_SIZE <= boot.mem_limit
    <2>1. p \in Nat /\ (p + 1) * PG_SIZE \in Nat
        BY <1>3
    <2> QED BY <1>1, <1>5, <1>6, <2>1
<1> DEFINE q == boot.mem_limit \div PG_SIZE
           r == boot.mem_limit % PG_SIZE
<1>8. q \in Nat /\ r \in Nat /\ r < PG_SIZE
      /\ boot.mem_limit = PG_SIZE * q + r
    BY <1>1, DivMod
<1> HIDE DEF q, r
<1>9. p + 1 <= q
    <2> SUFFICES ASSUME q <= p PROVE FALSE
        BY <1>7, <1>8
    <2>1. PG_SIZE * (q + 1) <= PG_SIZE * (p + 1)
          /\ PG_SIZE * (q + 1) = PG_SIZE * q + PG_SIZE
          /\ PG_SIZE * (p + 1) = (p + 1) * PG_SIZE
          /\ PG_SIZE * q \in Nat
        BY <1>7, <1>8, MulLe
    <2>2. (p + 1) * PG_SIZE \in Nat
        BY <1>7
    <2> QED BY <1>1, <1>7, <1>8, <2>1, <2>2
<1> QED BY <1>1, <1>2, <1>7, <1>8, <1>9 DEF q

\* Once the system is up no bit past the last entry in use is set.
LEMMA TableEndsInRun ==
    ASSUME IInv, UsableInv, LimitInv, MapLimit, boot.phase = "run"
    PROVE  TableEnds /\ entry_end \in Nat
<1>1. entry_end \in Nat /\ mm_table \subseteq MapPages(machine)
    BY DEF IInv, TypeInv, TypeOK, UsableInv
<1> QED BY <1>1, MapEndsInRun DEF TableEnds

-----------------------------------------------------------------------------
(* Theorems                                                                *)

\* Over every boot and every sequence of allocations and frees the table's
\* entries in use stay inside mm_table, whatever memory map below 64 GB
\* kernel_main is given, and every frame handed out is a page number.
THEOREM PhysTypeCorrect == Spec => []TypeOK
<1>1. Init => TypeInv
    BY InitTypeInv
<1>2. TypeInv /\ [Next]_vars => TypeInv'
    BY NextTypeInv
<1>3. TypeInv => TypeOK
    BY DEF TypeInv
<1> QED BY <1>1, <1>2, <1>3, PTL DEF Spec

\* No operation of physical.c ever hands out a frame that someone holds or
\* that is reserved, nor frees one into the table while it is in use.
THEOREM PhysFramesApart == Spec => []FramesApart
<1>1. Init => IInv
    BY InitIInv
<1>2. IInv /\ [Next]_vars => IInv'
    BY NextIInv
<1>3. IInv => FramesApart
    BY DEF IInv
<1> QED BY <1>1, <1>2, <1>3, PTL DEF Spec

\* On every machine whose available regions reach a page boundary and whose
\* modules share no page with anything else, physical.c only ever hands out
\* memory: never page 0, the kernel image, a hole of the memory map, nor the
\* part of a module's last page that was not given back.
THEOREM PhysOnlyUsableFrames ==
    ASSUME \A m \in Machines : SoundMachine(m)
    PROVE  Spec => []OnlyUsableFrames
<1>1. Init => UsableInv
    BY DEF Init, UsableInv, HeldPages
<1>2. IInv /\ UsableInv => OnlyUsableFrames
    <2> SUFFICES ASSUME IInv, UsableInv, boot.phase = "run"
                 PROVE  OnlyUsableFrames
        BY DEF OnlyUsableFrames
    <2>1. reserved \cap (HeldPages \cup mm_table) = {}
        BY DEF IInv, FramesApart
    <2> QED BY <2>1 DEF UsableInv, OnlyUsableFrames
<1> QED BY <1>1, <1>2, InitIInv, NextIInv, NextUsable, PTL DEF Spec

\* alloc_phys_frames returns 0, or runs off the table, only when no free run
\* above the first MB is an entry longer than what was asked for: the pages it
\* passes over are never enough to miss such a run.
THEOREM PhysWideRunFound == Spec => WideRunFound
<1>1. Init => FramesSearch
    BY DEF Init, Idle, FramesSearch
<1>2. ASSUME IInv, FramesSearch, frames_fail \/ frames_overrun,
             NEW p \in LOWMEM * WORD .. entry_end * WORD - (op.num + WORD - 1),
             Bits(p, op.num + WORD - 1) \subseteq mm_table
      PROVE  FALSE
    <2> USE PhysAssumption
    <2>1. TypeOK /\ op.kind = "frames"
        BY <1>2 DEF IInv, TypeInv, frames_fail, frames_overrun
    <2>2. /\ op.num \in Nat \ {0} /\ op.i \in Nat /\ op.pos \in Nat
          /\ entry_end \in Nat
        BY <2>1 DEF TypeOK, NoSearch, Search
    <2>3. LOWMEM * WORD \in Nat /\ entry_end * WORD \in Nat
        BY <2>2
    <2>4. p \in WideRuns(op.num)
          /\ p <= entry_end * WORD - (op.num + WORD - 1)
        BY <1>2, <2>2, <2>3 DEF WideRuns
    <2>5. op.pos <= p + WORD - 1 /\ InEntry(op.i, op.pos)
        BY <1>2, <2>1, <2>4 DEF FramesSearch
    <2>6. CASE frames_fail
        <3>1. entry_end * WORD <= op.pos
            BY <2>2, <2>5, <2>6, PastTable DEF frames_fail
        <3> QED BY <2>2, <2>3, <2>4, <2>5, <3>1
    <2>7. CASE frames_overrun
        <3> DEFINE T == {q \in mm_table : q >= op.pos}
        <3>1. /\ op.pos <= p => p \in mm_table
              /\ op.pos > p => op.pos \in mm_table
            BY <2>2, <2>4, <2>5, WideRunAhead
        <3>2. T # {} /\ T \subseteq Nat
            <4>1. p \in Nat /\ mm_table \subseteq Nat
                BY <2>1, <2>4 DEF TypeOK, WideRuns
            <4>2. (op.pos <= p /\ p \in T) \/ op.pos \in T
                BY <2>2, <3>1, <4>1
            <4> QED BY <4>1, <4>2
        <3>3. PICK x \in T : \A y \in T : x <= y
            BY <3>2, LeastNat
        <3>4. x \in NextFreeFrom(op.pos)
            BY <3>3 DEF NextFreeFrom, Least
        <3> QED BY <2>7, <3>4 DEF frames_overrun
    <2> QED BY <1>2, <2>6, <2>7
<1>3. IInv /\ FramesSearch =>
          (frames_fail \/ frames_overrun =>
              LET n == op.num + WORD - 1
              IN  ~\E p \in LOWMEM * WORD .. entry_end * WORD - n :
                      Bits(p, n) \subseteq mm_table)
    BY <1>2
<1> QED BY <1>1, <1>3, InitIInv, NextIInv, NextFrames, PTL
        DEF Spec, WideRunFound

\* With large pages that are whole entries, alloc_phys_frames_aligned returns
\* 0 only when no aligned run is free, and otherwise the lowest one, for every
\* memory size and every mix of earlier allocations and frees.
THEOREM PhysAlignedFindsLowest ==
    ASSUME LargePagesFit
    PROVE  Spec => AlignedFindsLowest
<1> DEFINE Lowest ==
        /\ aligned_fail => AlignedRun(op.num) = {}
        /\ (op.kind = "aligned" /\ held' # held) =>
               held' \ held = {[base |-> Min(AlignedRun(op.num)), num |-> op.num]}
<1>1. Init => AlignedSearch /\ LimitInv
    BY DEF Init, Idle, AlignedSearch, LimitInv
<1>2. IInv /\ AlignedSearch /\ LimitInv /\ [Next]_vars => Lowest
    <2> SUFFICES ASSUME IInv, AlignedSearch, LimitInv, [Next]_vars
                 PROVE  Lowest
        OBVIOUS
    <2> USE PhysAssumption
    <2>t. TypeOK /\ BootFirst
        BY DEF IInv, TypeInv
    <2>s. op.kind = "aligned" => /\ op \in Search /\ op.num \in Nat \ {0}
                                 /\ op.i \in Nat /\ op.pos \in Nat
                                 /\ op # Idle
        BY <2>t DEF TypeOK, NoSearch, Search, Idle
    <2>1. ASSUME aligned_fail PROVE AlignedRun(op.num) = {}
        <3>1. op.kind = "aligned"
            BY <2>1 DEF aligned_fail
        <3>2. CASE op.i >= entry_end
            <4>1. entry_end \in Nat /\ mm_limit \in Nat
                BY <2>t DEF TypeOK
            <4>2. entry_end * WORD <= op.pos
                BY <2>s, <3>1, <3>2, <4>1, PastTable DEF AlignedSearch
            <4>3. mm_limit <= entry_end * WORD /\ entry_end * WORD \in Nat
                BY <2>t, <2>s, <3>1, <4>1 DEF LimitInv, BootFirst
            <4> SUFFICES ASSUME NEW r \in AlignedRun(op.num) PROVE FALSE
                OBVIOUS
            <4>4. op.pos <= r /\ r \in AlignedStart .. mm_limit - op.num
                BY <3>1 DEF AlignedSearch, AlignedRun
            <4> QED BY <2>s, <3>1, <4>1, <4>2, <4>3, <4>4
        <3>3. CASE \E p \in AlignedCandidate(op.pos) :
                   \E cur \in AlignedEnd(p, op.num) :
                      cur # p + op.num /\ cur >= mm_limit
            BY <2>t, <3>1, <3>3, AlignedPass
        <3> QED BY <2>1, <3>2, <3>3 DEF aligned_fail
    <2>2. ASSUME op.kind = "aligned", held' # held
          PROVE  held' \ held =
                     {[base |-> Min(AlignedRun(op.num)), num |-> op.num]}
        <3>1. boot.phase = "run" /\ ~Ready
            BY <2>t, <2>s, <2>2 DEF BootFirst, Ready
        <3>2. aligned_try
            BY <2>2, <3>1
            DEF Next, vars, boot_map_entry, boot_limit, boot_take_zero,
                boot_take_kernel, boot_take_module, boot_done,
                alloc_phys_frame, alloc_phys_frame_lowmem, free_phys_frames,
                free_module, alloc_phys_frames, frames_fail,
                frames_skip_entry, frames_try, frames_overrun, overrun_spin,
                alloc_phys_frames_aligned, aligned_fail, aligned_skip_entry
        <3>3. PICK p \in AlignedCandidate(op.pos) :
              \E cur \in AlignedEnd(p, op.num) :
                 cur = p + op.num /\ Take(p, op.num)
            BY <2>2, <3>2 DEF aligned_try
        <3>4. /\ p \in AlignedRun(op.num) /\ p \in Nat
              /\ \A r \in AlignedRun(op.num) : r \in Nat /\ p <= r
            BY <2>t, <2>2, <3>3, AlignedPass
        <3>5. Min(AlignedRun(op.num)) = p
            <4> DEFINE R == AlignedRun(op.num)
                       m == Min(R)
            <4>1. \E x \in R : \A y \in R : x <= y
                BY <3>4
            <4> HIDE DEF R
            <4>2. m \in R /\ \A y \in R : m <= y
                BY <4>1 DEF Min
            <4> HIDE DEF m
            <4>3. m \in Nat /\ p \in Nat /\ m <= p /\ p <= m
                BY <3>4, <4>2 DEF R
            <4>4. m = p
                BY <4>3
            <4> QED BY <4>4 DEF m, R
        <3>6. held' = held \cup {[base |-> p, num |-> op.num]}
            BY <3>3 DEF Take
        <3> QED BY <2>2, <3>5, <3>6
    <2> QED BY <2>1, <2>2
<1>3. Init /\ [][Next]_vars => [](IInv /\ AlignedSearch /\ LimitInv)
    BY <1>1, InitIInv, NextIInv, NextAligned, NextLimit, PTL
<1>4. IInv /\ AlignedSearch /\ LimitInv /\ [Next]_vars => [Lowest]_vars
    BY <1>2
<1> QED BY <1>3, <1>4, PTL DEF Spec, AlignedFindsLowest

\* On the same machines physical_next_free_range returns the first maximal run
\* of free pages at or after the page it is given, for every entry width and
\* every table: no run is cut at the end of an entry, none is passed over.
THEOREM PhysNextFreeRangeCorrect ==
    ASSUME \A m \in Machines : SoundMachine(m)
    PROVE  Spec => []NextFreeRangeCorrect
<1> DEFINE J == IInv /\ UsableInv /\ LimitInv /\ MapLimit
<1>1. Init => UsableInv /\ LimitInv /\ MapLimit
    <2> SUFFICES ASSUME Init PROVE UsableInv /\ LimitInv /\ MapLimit
        OBVIOUS
    <2>1. UsableInv /\ LimitInv
        BY DEF Init, UsableInv, HeldPages, LimitInv
    <2>2. \A k \in 1 .. Len(machine.map) : ~(k < 1)
        OBVIOUS
    <2> QED BY <2>1, <2>2 DEF Init, MapLimit
<1>2. J => NextFreeRangeCorrect
    <2> SUFFICES ASSUME J, Ready, NEW bit \in 0 .. (entry_end + 1) * WORD
                 PROVE  LET rest == {p \in mm_table : p >= bit}
                            s    == Min(rest)
                            stop == Min({p \in s .. (entry_end + 2) * WORD :
                                             p \notin mm_table})
                        IN  next_free_range(bit) =
                                IF rest = {} THEN <<0, 0>> ELSE <<s, stop - s>>
        BY DEF NextFreeRangeCorrect
    <2> USE PhysAssumption
    <2> DEFINE rest == {p \in mm_table : p >= bit}
               used(s) == {p \in s .. (entry_end + 2) * WORD : p \notin mm_table}
    <2>1. TableEnds /\ entry_end \in Nat
        BY TableEndsInRun DEF Ready
    <2>2. entry_end * WORD \in Nat /\ mm_table \subseteq Nat /\ bit \in Nat
          /\ (entry_end + 2) * WORD = entry_end * WORD + 2 * WORD
        BY <2>1 DEF IInv, TypeInv, TypeOK
    <2>3. CASE /\ \A p \in mm_table : p < bit
               /\ next_free_range(bit) = <<0, 0>>
        <3>1. rest = {}
            <4> SUFFICES ASSUME NEW p \in mm_table, p >= bit PROVE FALSE
                OBVIOUS
            <4>1. p \in Nat /\ p < bit
                BY <2>2, <2>3
            <4> QED BY <2>2, <4>1
        <3> QED BY <2>3, <3>1
    <2>4. CASE \E s \in Nat, stop \in Nat :
                 /\ FirstRun(bit, s, stop)
                 /\ next_free_range(bit) = <<s, stop - s>>
        <3>1. PICK s \in Nat, stop \in Nat :
                 /\ FirstRun(bit, s, stop)
                 /\ next_free_range(bit) = <<s, stop - s>>
            BY <2>4
        <3>2. /\ bit <= s /\ s < stop /\ stop <= entry_end * WORD
              /\ stop \notin mm_table
              /\ \A p \in s .. stop - 1 : p \in mm_table
              /\ \A p \in bit .. s - 1 : p \notin mm_table
            BY <3>1 DEF FirstRun, FreeRun
        <3>3. s \in rest /\ rest \subseteq Int /\ \A y \in rest : s <= y
            <4>1. s \in mm_table /\ s >= bit
                BY <2>2, <3>2
            <4>2. ASSUME NEW y \in mm_table, y >= bit PROVE y \in Nat /\ s <= y
                <5>1. y \in Nat
                    BY <2>2
                <5>2. ~(y \in bit .. s - 1)
                    BY <3>2, <4>2
                <5> QED BY <2>2, <4>2, <5>1, <5>2
            <4>3. \A y \in rest : y \in Nat /\ s <= y
                BY <4>2
            <4>4. s \in rest /\ rest \subseteq Nat
                BY <4>1, <4>3
            <4> HIDE DEF rest
            <4> QED BY <4>3, <4>4
        <3>4. Min(rest) = s /\ rest # {}
            BY <3>3, MinIs
        <3>5. stop \in used(s) /\ used(s) \subseteq Int
              /\ \A y \in used(s) : stop <= y
            BY <2>2, <3>2
        <3>6. Min(used(s)) = stop
            BY <3>5, MinIs
        <3> QED BY <3>1, <3>4, <3>6
    <2> QED BY <2>1, <2>2, <2>3, <2>4, NextFreeRangeIs
<1> QED BY <1>1, <1>2, InitIInv, NextIInv, NextUsable, NextLimit, NextMapLimit,
           PTL DEF Spec
=============================================================================
