------------------------------- MODULE PhysMem -------------------------------
(***************************************************************************)
(* The physical frame allocator: kernel/mm/physical.c on the bitmap        *)
(* routines of utils/bits.c, and the part of kernel_main                   *)
(* (arch/x86_64/boot/init.c) that fills the table.                         *)
(*                                                                         *)
(* mm_table is the set of the indices of its 1 bits, so a page number is a *)
(* bit index and a 1 bit is a free frame.  Every operation runs from       *)
(* spin_lock(&phy_lock) to spin_unlock(&phy_lock); module SpinLock shows   *)
(* what that lock gives, so an operation whose search is short is one      *)
(* step.  The two searches for contiguous frames are loops whose progress  *)
(* is the point: they are steps on the locals kept in op, and no other     *)
(* operation can start while op is not idle.                               *)
(***************************************************************************)
EXTENDS Integers, Sequences, FiniteSetsExt

CONSTANTS PG_SIZE,      \* bytes in a page
          WORD,         \* bits in an entry of mm_table, 64 in the code
          LOWMEM,       \* entries of mm_table that describe the first MB, 4
          MM_TABLE_MAX, \* entries of mm_table
          ADDR,         \* number of values of a uint64_t
          LARGE_PG,     \* pages in a large page, 512
          Machines,     \* memory maps, kernel ranges and modules to boot with
          Sizes,        \* page counts asked of alloc_phys_frames
          MaxHeld       \* bound: allocations outstanding at a time

ASSUME PhysAssumption ==
    /\ PG_SIZE \in Nat \ {0} /\ WORD \in Nat \ {0} /\ MM_TABLE_MAX \in Nat \ {0}
    /\ LOWMEM \in Nat \ {0} /\ ADDR \in Nat \ {0} /\ LARGE_PG \in Nat \ {0}
    /\ Sizes \subseteq Nat \ {0} /\ MaxHeld \in Nat

Boot == [phase : {"map", "zero", "kernel", "mods", "run"},
         index : Nat \ {0}, mem_limit : Nat]

ByteRange(r) == r.addr \in Nat /\ r.len \in Nat

\* The ranges the boot loader passes.  Modules start on a page boundary: the
\* code panics over one that does not (boot_info.c, mem.c).  Nothing in
\* kernel_main checks that memory ends below MM_PHYSICAL_MAX (64 GB), and a
\* search may read the entry after the last one in use.
ASSUME MachineAssumption ==
    \A m \in Machines :
        /\ \A k \in 1 .. Len(m.map) :
              /\ ByteRange(m.map[k])
              /\ m.map[k].addr + m.map[k].len
                     <= ((MM_TABLE_MAX - 1) * WORD) * PG_SIZE
        /\ Len(m.map) \in Nat /\ Len(m.mods) \in Nat
        /\ ByteRange(m.kernel)
        /\ \A k \in 1 .. Len(m.mods) :
              ByteRange(m.mods[k]) /\ m.mods[k].addr % PG_SIZE = 0

VARIABLES mm_table,     \* the set bits: free frames
          mm_limit,     \* last available page + 1
          entry_end,    \* entries of mm_table in use
          op,           \* the search under way and its locals
          held,         \* frames handed out and not freed, as [base, num]
          reserved,     \* pages taken by physical_take_range and not freed
          machine,      \* the member of Machines booted on
          boot          \* how far kernel_main is, and its mem_limit

vars == <<mm_table, mm_limit, entry_end, op, held, reserved, machine, boot>>

Idle == [kind |-> "idle"]

\* No search, one that ran off the table, and a search with its locals.
NoSearch == [kind : {"idle", "fault", "garbage"}]
Search   == [kind : {"frames", "aligned"}, num : Nat \ {0}, i : Nat, pos : Nat]

\* bitmap64_get, bitmap64_check_bit and a test of a whole entry
WordIsZero(i) == \A b \in i * WORD .. (i + 1) * WORD - 1 : b \notin mm_table

\* bitmap64_set_range / bitmap64_clear_range: bits begin .. begin + length - 1
Bits(begin, length) == begin .. begin + length - 1

Pages(block) == Bits(block.base, block.num)
HeldPages == UNION {Pages(b) : b \in held}

\* The least element of a set of numbers, as a set: what a loop that goes
\* upwards stops at, empty when it stops nowhere.
Least(S) == {x \in S : \A y \in S : x <= y}

Sub(a, b) == (a - b) % ADDR

-----------------------------------------------------------------------------
(* physical_free_range and physical_take_range: byte range to bit range    *)

\* The pages physical_free_range marks free.
free_bits(begin, length) ==
    LET remain     == begin % PG_SIZE
        end_remain == (begin + length) % PG_SIZE
    IN  IF remain = 0
        THEN Bits(begin \div PG_SIZE, Sub(length, end_remain) \div PG_SIZE)
        ELSE Bits((begin \div PG_SIZE) + 1,
                  Sub(Sub(length, PG_SIZE - remain), end_remain)
                      \div PG_SIZE)

\* Mutant of take_bits: the partial last page is left out.
take_bits_inward(begin, length) ==
    Bits(begin \div PG_SIZE, (length + (begin % PG_SIZE)) \div PG_SIZE)

\* The pages physical_take_range marks in use.
take_bits(begin, length) ==
    LET remain     == begin % PG_SIZE
        end_remain == (begin + length) % PG_SIZE
    IN  IF end_remain = 0
        THEN Bits(begin \div PG_SIZE, (length + remain) \div PG_SIZE)
        ELSE Bits(begin \div PG_SIZE,
                  (length + remain + PG_SIZE - end_remain) \div PG_SIZE)

physical_free_range(begin, length) ==
    /\ mm_table' = mm_table \cup free_bits(begin, length)
    /\ reserved' = reserved \ free_bits(begin, length)

physical_take_range(begin, length) ==
    /\ mm_table' = mm_table \ take_bits(begin, length)
    /\ reserved' = reserved \cup take_bits(begin, length)

-----------------------------------------------------------------------------
(* kernel_main: the memory map, the limit, the ranges in use               *)

Init ==
    /\ mm_table = {}
    /\ mm_limit = 0
    /\ entry_end = 0
    /\ op = Idle
    /\ held = {}
    /\ reserved = {}
    /\ machine \in Machines
    /\ boot = [phase |-> "map", index |-> 1, mem_limit |-> 0]

\* One entry of the multiboot memory map.
boot_map_entry ==
    /\ boot.phase = "map"
    /\ boot.index <= Len(machine.map)
    /\ LET e       == machine.map[boot.index]
           mem_end == e.addr + e.len
       IN  IF e.available
           THEN /\ physical_free_range(e.addr, e.len)
                /\ boot' = [boot EXCEPT
                              !.index = boot.index + 1,
                              !.mem_limit = IF mem_end > boot.mem_limit
                                            THEN mem_end ELSE boot.mem_limit]
           ELSE /\ boot' = [boot EXCEPT !.index = boot.index + 1]
                /\ UNCHANGED <<mm_table, reserved>>
    /\ UNCHANGED <<mm_limit, entry_end, op, held, machine>>

\* Mutant of physical_set_limit: an entry is added in every case.
physical_set_limit_plus_one(limit) ==
    /\ mm_limit' = limit \div PG_SIZE
    /\ entry_end' = (mm_limit' \div WORD) + 1

physical_set_limit(limit) ==
    /\ mm_limit' = limit \div PG_SIZE
    /\ entry_end' = (mm_limit' \div WORD)
                    + (IF mm_limit' % WORD > 0 THEN 1 ELSE 0)

boot_limit ==
    /\ boot.phase = "map"
    /\ boot.index > Len(machine.map)
    /\ physical_set_limit(boot.mem_limit)
    /\ boot' = [boot EXCEPT !.phase = "zero"]
    /\ UNCHANGED <<mm_table, op, held, reserved, machine>>

\* avoid page at address 0
boot_take_zero ==
    /\ boot.phase = "zero"
    /\ physical_take_range(0, PG_SIZE)
    /\ boot' = [boot EXCEPT !.phase = "kernel"]
    /\ UNCHANGED <<mm_limit, entry_end, op, held, machine>>

\* mark kernel image
boot_take_kernel ==
    /\ boot.phase = "kernel"
    /\ physical_take_range(machine.kernel.addr, machine.kernel.len)
    /\ boot' = [boot EXCEPT !.phase = "mods", !.index = 1]
    /\ UNCHANGED <<mm_limit, entry_end, op, held, machine>>

\* mark modules
boot_take_module ==
    /\ boot.phase = "mods"
    /\ boot.index <= Len(machine.mods)
    /\ LET mod == machine.mods[boot.index]
       IN  physical_take_range(mod.addr, mod.len)
    /\ boot' = [boot EXCEPT !.index = boot.index + 1]
    /\ UNCHANGED <<mm_limit, entry_end, op, held, machine>>

boot_done ==
    /\ boot.phase = "mods"
    /\ boot.index > Len(machine.mods)
    /\ boot' = [boot EXCEPT !.phase = "run"]
    /\ UNCHANGED <<mm_table, mm_limit, entry_end, op, held, reserved, machine>>

-----------------------------------------------------------------------------
(* Single frames                                                           *)

\* The system is up, phy_lock is free.
Ready == boot.phase = "run" /\ op = Idle

Take(base, num) ==
    /\ mm_table' = mm_table \ Bits(base, num)
    /\ held' = held \cup {[base |-> base, num |-> num]}

\* The frame the entry-by-entry search of alloc_phys_frame and
\* alloc_phys_frame_lowmem finds: the lowest bit of the first entry in
\* lo .. hi - 1 that is not 0.  Empty when the function returns 0.
FirstFrame(lo, hi) == Least({p \in mm_table : lo * WORD <= p /\ p < hi * WORD})

\* Mutant of alloc_phys_frame: the first 1MB is not skipped.
alloc_phys_frame_any ==
    /\ Ready
    /\ Cardinality(held) < MaxHeld
    /\ \E p \in FirstFrame(0, entry_end) : Take(p, 1)
    /\ UNCHANGED <<mm_limit, entry_end, op, reserved, machine, boot>>

\* skip the first 1MB.  When it returns 0 nothing changes.
alloc_phys_frame ==
    /\ Ready
    /\ Cardinality(held) < MaxHeld
    /\ \E p \in FirstFrame(LOWMEM, entry_end) : Take(p, 1)
    /\ UNCHANGED <<mm_limit, entry_end, op, reserved, machine, boot>>

alloc_phys_frame_lowmem ==
    /\ Ready
    /\ Cardinality(held) < MaxHeld
    /\ \E p \in FirstFrame(0, LOWMEM) : Take(p, 1)
    /\ UNCHANGED <<mm_limit, entry_end, op, reserved, machine, boot>>

\* free_phys_frame and free_phys_frames of what an allocation returned.
free_phys_frames(b) ==
    /\ Ready
    /\ b \in held
    /\ mm_table' = mm_table \cup Pages(b)
    /\ held' = held \ {b}
    /\ UNCHANGED <<mm_limit, entry_end, op, reserved, machine, boot>>

\* virt_setup_linux: free the original kernel or ramdisk after relocating it.
free_module(k) ==
    /\ Ready
    /\ k \in 1 .. Len(machine.mods)
    /\ take_bits(machine.mods[k].addr, machine.mods[k].len) \subseteq reserved
    /\ physical_free_range(machine.mods[k].addr, machine.mods[k].len)
    /\ UNCHANGED <<mm_limit, entry_end, op, held, machine, boot>>

-----------------------------------------------------------------------------
(* alloc_phys_frames                                                       *)

\* The value of cur after the inner while loop of alloc_phys_frames: the end
\* of the wanted run, or the first page in it that is in use.
RunEnd(p, num) ==
    Least({q \in p .. p + num : q = p + num \/ q \notin mm_table})

alloc_phys_frames(num) ==
    /\ Ready
    /\ Cardinality(held) < MaxHeld
    /\ op' = [kind |-> "frames", num |-> num, i |-> LOWMEM,
              pos |-> LOWMEM * WORD]
    /\ UNCHANGED <<mm_table, mm_limit, entry_end, held, reserved, machine,
                   boot>>

frames_fail ==
    /\ op.kind = "frames"
    /\ op.i >= entry_end
    /\ op' = Idle
    /\ UNCHANGED <<mm_table, mm_limit, entry_end, held, reserved, machine,
                   boot>>

\* Mutant of frames_skip_entry: the position moves two entries on.
frames_skip_entry_twice ==
    /\ op.kind = "frames"
    /\ op.i < entry_end
    /\ WordIsZero(op.i)
    /\ op' = [op EXCEPT !.i = op.i + 1, !.pos = op.pos + 2 * WORD]
    /\ UNCHANGED <<mm_table, mm_limit, entry_end, held, reserved, machine,
                   boot>>

frames_skip_entry ==
    /\ op.kind = "frames"
    /\ op.i < entry_end
    /\ WordIsZero(op.i)
    /\ op' = [op EXCEPT !.i = op.i + 1, !.pos = op.pos + WORD]
    /\ UNCHANGED <<mm_table, mm_limit, entry_end, held, reserved, machine,
                   boot>>

\* The first free page at or after pos, if it is in the table.
NextFreeFrom(pos) == Least({p \in mm_table : p >= pos})

\* Mutant of frames_try: the run is not compared with num.
frames_try_short ==
    /\ op.kind = "frames"
    /\ op.i < entry_end
    /\ ~WordIsZero(op.i)
    /\ \E p \in NextFreeFrom(op.pos) : Take(p, op.num)
    /\ op' = Idle
    /\ UNCHANGED <<mm_limit, entry_end, reserved, machine, boot>>

\* The entry is not 0: advance to a free page, count the run, take it or go
\* on after the page that ends it.
frames_try ==
    /\ op.kind = "frames"
    /\ op.i < entry_end
    /\ ~WordIsZero(op.i)
    /\ \E p \in NextFreeFrom(op.pos) : \E cur \in RunEnd(p, op.num) :
          \/ /\ cur = p + op.num
             /\ Take(p, op.num)
             /\ op' = Idle
          \/ /\ cur # p + op.num
             /\ op' = [op EXCEPT !.pos = cur + 1, !.i = (cur + 1) \div WORD]
             /\ UNCHANGED <<mm_table, held>>
    /\ UNCHANGED <<mm_limit, entry_end, reserved, machine, boot>>

\* "while (bitmap64_get(mm_table, pos) == 0) pos++" has no bound: with no
\* free page at or after pos it leaves the array.  It then meets a page that
\* is not mapped, or a 1 bit that belongs to other data of the kernel.
frames_overrun ==
    /\ op.kind = "frames"
    /\ op.i < entry_end
    /\ ~WordIsZero(op.i)
    /\ NextFreeFrom(op.pos) = {}
    /\ op' \in {[kind |-> "fault"], [kind |-> "garbage"]}
    /\ UNCHANGED <<mm_table, mm_limit, entry_end, held, reserved, machine,
                   boot>>

\* exp_handler never returns and phy_lock is never released; after a
\* garbage bit the table is corrupt and nothing more is claimed.
overrun_spin ==
    /\ op.kind \in {"fault", "garbage"}
    /\ UNCHANGED vars

-----------------------------------------------------------------------------
(* alloc_phys_frames_aligned: align is LARGE_PG_SIZE in every call          *)

RoundUp(p, inc) == ((p + inc - 1) \div inc) * inc

AlignedStart ==
    (IF LARGE_PG \div WORD <= LOWMEM THEN LOWMEM ELSE LARGE_PG \div WORD) * WORD

alloc_phys_frames_aligned(num) ==
    /\ Ready
    /\ Cardinality(held) < MaxHeld
    /\ op' = [kind |-> "aligned", num |-> num,
              i |-> AlignedStart \div WORD, pos |-> AlignedStart]
    /\ UNCHANGED <<mm_table, mm_limit, entry_end, held, reserved, machine,
                   boot>>

\* The while loop that steps over used positions, pos_inc at a time.
AlignedCandidate(pos) ==
    Least({q \in pos .. RoundUp(pos + mm_limit, LARGE_PG) :
              /\ (q - pos) % LARGE_PG = 0
              /\ q >= mm_limit \/ q \in mm_table})

\* cur after the inner while loop, which stops at mm_limit too.
AlignedEnd(p, num) ==
    Least({q \in p .. p + num :
              q = p + num \/ q >= mm_limit \/ q \notin mm_table})

\* Both ways out that return 0: the table is exhausted, or the run reaches
\* the end of memory.
aligned_fail ==
    /\ op.kind = "aligned"
    /\ \/ op.i >= entry_end
       \/ /\ ~WordIsZero(op.i)
          /\ \E p \in AlignedCandidate(op.pos) :
             \E cur \in AlignedEnd(p, op.num) :
                cur # p + op.num /\ cur >= mm_limit
    /\ op' = Idle
    /\ UNCHANGED <<mm_table, mm_limit, entry_end, held, reserved, machine,
                   boot>>

\* Mutant of aligned_skip_entry: the position is not advanced with i.
aligned_skip_entry_stuck ==
    /\ op.kind = "aligned"
    /\ op.i < entry_end
    /\ WordIsZero(op.i)
    /\ UNCHANGED vars

aligned_skip_entry ==
    /\ op.kind = "aligned"
    /\ op.i < entry_end
    /\ WordIsZero(op.i)
    /\ op' = IF LARGE_PG \div WORD > 0
             THEN [op EXCEPT !.i = op.i + LARGE_PG \div WORD,
                             !.pos = op.pos + LARGE_PG]
             ELSE [op EXCEPT !.i = op.i + 1, !.pos = op.pos + WORD]
    /\ UNCHANGED <<mm_table, mm_limit, entry_end, held, reserved, machine,
                   boot>>

\* Mutant of aligned_try: after a short run the search skips an extra
\* large page.
aligned_try_skips ==
    /\ op.kind = "aligned"
    /\ op.i < entry_end
    /\ ~WordIsZero(op.i)
    /\ \E p \in AlignedCandidate(op.pos) : \E cur \in AlignedEnd(p, op.num) :
          \/ /\ cur = p + op.num
             /\ Take(p, op.num)
             /\ op' = Idle
          \/ /\ cur # p + op.num
             /\ cur < mm_limit
             /\ LET pos == RoundUp(cur + 1, LARGE_PG) + LARGE_PG
                IN  op' = [op EXCEPT !.pos = pos, !.i = pos \div WORD]
             /\ UNCHANGED <<mm_table, held>>
    /\ UNCHANGED <<mm_limit, entry_end, reserved, machine, boot>>

\* The entry is not 0: advance to an aligned free page, count the run, take it
\* or go on at the next aligned position.
aligned_try ==
    /\ op.kind = "aligned"
    /\ op.i < entry_end
    /\ ~WordIsZero(op.i)
    /\ \E p \in AlignedCandidate(op.pos) : \E cur \in AlignedEnd(p, op.num) :
          \/ /\ cur = p + op.num
             /\ Take(p, op.num)
             /\ op' = Idle
          \/ /\ cur # p + op.num
             /\ cur < mm_limit
             /\ LET pos == RoundUp(cur + 1, LARGE_PG)
                IN  op' = [op EXCEPT !.pos = pos, !.i = pos \div WORD]
             /\ UNCHANGED <<mm_table, held>>
    /\ UNCHANGED <<mm_limit, entry_end, reserved, machine, boot>>

-----------------------------------------------------------------------------
(* physical_next_free_range, in pages: <<start, size>>                     *)

\* A loop over the bits lo .. hi - 1 that counts the first run of 1 bits:
\* <<first bit, length, ended before hi>>; length 0 when there is none.
ScanBits(lo, hi) ==
    LET ones == {b \in mm_table : lo <= b /\ b < hi}
        s    == Min(ones)
        stop == Min({b \in s .. hi : b = hi \/ b \notin mm_table})
    IN  IF ones = {} THEN <<hi, 0, FALSE>> ELSE <<s, stop - s, stop < hi>>

\* The last loop: entries that are all 1 bits extend the run, the trailing
\* 1 bits of the next one end it.  count pages precede entry i.
ScanEntries(i, count) ==
    LET last == Max({i, entry_end})
        j    == Min({last} \cup {k \in i .. entry_end - 1 :
                                    ~(Bits(k * WORD, WORD) \subseteq mm_table)})
        tail == IF j = last THEN 0
                ELSE Min({k \in 0 .. WORD : j * WORD + k \notin mm_table})
    IN  <<i * WORD - count, count + (j - i) * WORD + tail>>

\* Mutant of next_free_range: the run is not continued into the next entry.
next_free_range_one_entry(bit) ==
    LET first == ScanBits(bit, RoundUp(bit, WORD))
        s     == Least({b \in mm_table : b >= RoundUp(bit, WORD)})
    IN  IF bit \div WORD >= entry_end THEN <<0, 0>>
        ELSE IF first[2] > 0 THEN <<first[1], first[2]>>
        ELSE IF s = {} THEN <<0, 0>>
        ELSE LET second == ScanBits(Min(s), (Min(s) \div WORD + 1) * WORD)
             IN  <<second[1], second[2]>>

\* The start that comes with size 0 is not the range's and is left out.
next_free_range(bit) ==
    LET end    == RoundUp(bit, WORD)
        first  == ScanBits(bit, end)
        \* the first entry from end on that is not 0, or entry_end
        i      == Min({entry_end} \cup
                      {j \in end \div WORD .. entry_end : ~WordIsZero(j)})
        second == ScanBits(i * WORD, (i + 1) * WORD)
        result == IF first[3] THEN <<first[1], first[2]>>
                  ELSE IF first[2] > 0 THEN ScanEntries(end \div WORD, first[2])
                  ELSE IF second[3] THEN <<second[1], second[2]>>
                  ELSE ScanEntries(i + 1, second[2])
    IN  IF bit \div WORD >= entry_end \/ result[2] = 0
        THEN <<0, 0>>
        ELSE result

-----------------------------------------------------------------------------
Next ==
    \/ boot_map_entry \/ boot_limit \/ boot_take_zero \/ boot_take_kernel
    \/ boot_take_module \/ boot_done
    \/ alloc_phys_frame \/ alloc_phys_frame_lowmem
    \/ \E b \in held : free_phys_frames(b)
    \/ \E k \in 1 .. Len(machine.mods) : free_module(k)
    \/ \E n \in Sizes : alloc_phys_frames(n)
    \/ frames_fail \/ frames_skip_entry \/ frames_try
    \/ frames_overrun \/ overrun_spin
    \/ \E n \in Sizes : alloc_phys_frames_aligned(n * LARGE_PG)
    \/ aligned_fail \/ aligned_skip_entry \/ aligned_try

\* A CPU inside a search keeps executing it.
Fairness ==
    WF_vars(frames_fail \/ frames_skip_entry \/ frames_try \/ frames_overrun
            \/ aligned_fail \/ aligned_skip_entry \/ aligned_try)

Spec == Init /\ [][Next]_vars /\ Fairness

-----------------------------------------------------------------------------
(* Properties                                                              *)

\* The pages wholly inside a byte range, and those that it touches: what the
\* rounding of the two range operations is meant to compute.
Inside(r)  == {p \in 0 .. MM_TABLE_MAX * WORD - 1 :
                  /\ r.addr <= p * PG_SIZE
                  /\ (p + 1) * PG_SIZE <= r.addr + r.len}
Touched(r) == {p \in 0 .. MM_TABLE_MAX * WORD - 1 :
                  p * PG_SIZE < r.addr + r.len /\ r.addr < (p + 1) * PG_SIZE}

\* entry_end stays inside mm_table, the locals of a search and the state of
\* kernel_main stay in their types.
TypeOK ==
    /\ mm_table \subseteq Nat
    /\ mm_limit \in Nat
    /\ entry_end \in 0 .. MM_TABLE_MAX - 1
    /\ op \in NoSearch \cup Search
    /\ held \subseteq [base : Nat, num : Nat \ {0}]
    /\ reserved \subseteq Nat
    /\ machine \in Machines
    /\ boot \in Boot

\* No frame is handed out twice, none is free while it is handed out or
\* reserved: alloc_phys_frame(s) and the free operations keep the bitmap and
\* the frames in use apart over every sequence of calls.
FramesApart ==
    /\ \A a, b \in held : a # b => Pages(a) \cap Pages(b) = {}
    /\ HeldPages \cap mm_table = {}
    /\ reserved \cap mm_table = {}
    /\ reserved \cap HeldPages = {}

\* The pages of machine m's memory: those wholly inside an available region.
MapPages(m) ==
    UNION {Inside(m.map[k]) : k \in {j \in 1 .. Len(m.map) :
                                        m.map[j].available}}

\* Whatever alloc_phys_frame, alloc_phys_frames, alloc_phys_frames_aligned or
\* alloc_phys_frame_lowmem returns is memory: not page 0 (0 means failure),
\* wholly inside available regions of the memory map, not part of the kernel
\* image, nor of the inside of a module that is still needed.
OnlyUsableFrames ==
    boot.phase = "run" =>
        LET usable == HeldPages \cup mm_table
        IN  /\ 0 \notin usable
            /\ usable \subseteq MapPages(machine)
            /\ usable \cap Touched(machine.kernel) = {}
            /\ \A k \in 1 .. Len(machine.mods) :
                   Touched(machine.mods[k]) \subseteq reserved
                   \/ usable \cap Touched(machine.mods[k])
                          \subseteq Inside(machine.mods[k])

\* The machines OnlyUsableFrames holds on.  No available region begins and
\* ends inside one page: physical_free_range would subtract more than it has
\* and free almost every bit of the table.  The modules are in memory and
\* share no page with each other, with the kernel image or with page 0, so
\* giving one back gives nothing else back.  All of it lies below 2^64.
SoundMachine(m) ==
    /\ ((MM_TABLE_MAX - 1) * WORD) * PG_SIZE < ADDR
    /\ \A k \in 1 .. Len(m.map) :
          LET r == m.map[k]
          IN  \/ ~r.available
              \/ r.addr % PG_SIZE = 0
              \/ (r.addr \div PG_SIZE + 1) * PG_SIZE <= r.addr + r.len
    /\ \A k \in 1 .. Len(m.mods) :
          LET r == m.mods[k]
          IN  /\ r.addr + r.len <= ((MM_TABLE_MAX - 1) * WORD) * PG_SIZE
              /\ Inside(r) \subseteq MapPages(m)
              /\ Touched(r) \cap ({0} \cup Touched(m.kernel)) = {}
              /\ \A j \in 1 .. Len(m.mods) \ {k} :
                    Touched(r) \cap Touched(m.mods[j]) = {}

\* The aligned run alloc_phys_frames_aligned looks for.
AlignedRun(num) ==
    {p \in AlignedStart .. mm_limit - num :
        p % LARGE_PG = 0 /\ Bits(p, num) \subseteq mm_table}

\* alloc_phys_frames_aligned returns 0 only when no aligned run is free, and
\* otherwise the lowest one.
AlignedFindsLowest ==
    [][/\ aligned_fail => AlignedRun(op.num) = {}
       /\ (op.kind = "aligned" /\ held' # held) =>
              held' \ held =
                  {[base |-> Min(AlignedRun(op.num)), num |-> op.num]}
      ]_vars

\* physical_next_free_range returns the first maximal run of free pages at or
\* after the page it is given, however runs and entries are aligned.
NextFreeRangeCorrect ==
    Ready =>
        \A bit \in 0 .. (entry_end + 1) * WORD :
            LET rest == {p \in mm_table : p >= bit}
                s    == Min(rest)
                stop == Min({p \in s .. (entry_end + 2) * WORD :
                                 p \notin mm_table})
            IN  next_free_range(bit) =
                    IF rest = {} THEN <<0, 0>> ELSE <<s, stop - s>>

\* The loop of alloc_phys_frames_aligned ends: it holds phy_lock, so every
\* other CPU depends on it.
AlignedReturns == op.kind = "aligned" ~> op.kind = "idle"

\* alloc_phys_frames never looks outside mm_table.
ScanStaysInTable == op.kind \notin {"fault", "garbage"}

\* alloc_phys_frames finds num frames if a run of num + WORD - 1 frames is
\* free.  A run of num alone may be missed: when an entry of zeros is skipped
\* pos keeps its offset in the entry and i does not, so the search may enter
\* the next entry up to WORD - 1 pages late.
WideRunFound ==
    [][frames_fail \/ frames_overrun =>
          LET n == op.num + WORD - 1
          IN  ~\E p \in LOWMEM * WORD .. entry_end * WORD - n :
                  Bits(p, n) \subseteq mm_table]_vars
=============================================================================
