--------------------------- MODULE KernelMapProofs ---------------------------
(***************************************************************************)
(* Proofs about KernelMap for every table size, window, set of callers'    *)
(* sizes and frames, number of mappings and number of CPUs.                *)
(***************************************************************************)
EXTENDS KernelMap, WellFoundedInduction, TLAPS

\* The loop bound LG_PG_LIMIT - num + 1 of vm_map_large_pages is unsigned: a
\* caller that asks for more large pages than this makes it wrap, and the
\* search leaves the window.  Nothing in vm.c checks it; it is a hypothesis of
\* the theorems, not an assumption about the callers.
BoundNeverWraps == \A n \in LargeNums : n <= LG_LIMIT + 1

-----------------------------------------------------------------------------
(* The inductive invariant                                                 *)

Mapping == [win : Window, slot : Nat, num : Nat \ {0}, frame : Nat \ {0},
            users : SUBSET CPU]

Search == [kind : {"search"}, win : Window, num : Nat \ {0},
           frame : Nat \ {0}, users : SUBSET CPU, i : Nat]

\* The types of the state.  A search is for a number of pages that callers ask
\* for, and starts at the first entry of its window.
MapTypeOK ==
    /\ table \in [Window -> [Slot -> Int]]
    /\ mapped \subseteq Mapping
    /\ tlb \in [CPU -> SUBSET (Window \X Slot \X Int)]
    /\ up \in BOOLEAN
    /\ op = Idle \/ /\ op \in Search
                    /\ op.num \in Nums(op.win)
                    /\ First(op.win) <= op.i

\* vm_init is the first operation.
InitFirst == ~up => mapped = {} /\ op = Idle

\* Mappings are inside their windows, and an entry of a window is present
\* exactly if it belongs to one.
InWindow ==
    \A m \in mapped : Slots(m) \subseteq First(m.win) .. Limit(m.win) - 1

Accounted ==
    up => \A w \in Window : \A s \in First(w) .. Limit(w) - 1 :
             table[w][s] # 0 <=> \E m \in mapped : m.win = w /\ s \in Slots(m)

\* The directory below the window holds what the kernel put there.
BelowWindow == \A s \in 0 .. LG_BASE - 1 : table.pdt[s] \in {0, Kernel, Pool}

\* A cached translation belongs to a mapping that its CPU may use now, because
\* the only user of a mapping is the one that removes it.
Cached ==
    \A c \in CPU : \A e \in tlb[c] : \E m \in mapped :
        /\ c \in m.users
        /\ e[1] = m.win
        /\ e[2] \in Slots(m)
        /\ e[3] = m.frame + (e[2] - m.slot)

\* The search has passed over no run of num + 1 free entries but the one that
\* it is at.
Unpassed ==
    op # Idle =>
        \A s \in First(op.win) .. Limit(op.win) - op.num - 1 :
            (\A t \in Run(s, op.num + 1) : table[op.win][t] = 0) => op.i <= s + 1

MapInv ==
    /\ MapTypeOK /\ InitFirst /\ InWindow /\ Accounted /\ BelowWindow
    /\ MappingsIntact /\ Cached /\ Unpassed

-----------------------------------------------------------------------------
(* The windows and the search                                              *)

\* Every set of natural numbers that has a member has a least one.
LEMMA LeastNat ==
    ASSUME NEW T, T \subseteq Nat, T # {}
    PROVE  \E x \in T : \A y \in T : x <= y
<1> DEFINE R == OpToRel(<, Nat)
<1>1. IsWellFoundedOn(R, Nat)
  BY NatLessThanWellFounded, Zenon
<1>2. R = {ss \in Nat \X Nat : ss[1] < ss[2]}
  BY DEF OpToRel
<1> HIDE DEF R
<1>3. PICK x \in T : \A y \in T : ~(<<y, x>> \in R)
  BY <1>1, WFMin
<1>4. ASSUME NEW y \in T PROVE x <= y
  <2>1. ~(<<y, x>> \in R)
    BY <1>3
  <2>2. x \in Nat /\ y \in Nat
    OBVIOUS
  <2>3. ~(y < x)
    BY <2>1, <2>2, <1>2
  <2> QED
    BY <2>2, <2>3
<1> QED
  BY <1>4

\* A window is a part of its table.
LEMMA WindowInTable ==
    ASSUME NEW w \in Window
    PROVE  /\ First(w) \in Nat /\ Limit(w) \in Nat
           /\ First(w) .. Limit(w) - 1 \subseteq Slot
           /\ Limit(w) <= PG_TABLE_ENTRIES
BY KernelMapAssumption DEF Window, First, Limit, Slot

\* The bound of the search is the one meant, and every run that starts below
\* it ends inside the window.
LEMMA BoundMeant ==
    ASSUME BoundNeverWraps, MapTypeOK, op # Idle
    PROVE  /\ Bound = Limit(op.win) - op.num + 1
           /\ op.i < Bound =>
                 Run(op.i, op.num) \subseteq First(op.win) .. Limit(op.win) - 1
<1>1. /\ op.win \in Window /\ op.num \in Nat \ {0} /\ op.i \in Nat
      /\ op.num \in Nums(op.win) /\ First(op.win) <= op.i
  BY DEF MapTypeOK, Search
<1>2. op.num <= Limit(op.win) + 1 /\ Limit(op.win) \in Nat
  BY <1>1, KernelMapAssumption
  DEF BoundNeverWraps, Nums, Limit, Window, Slot
<1>3. Limit(op.win) - op.num + 1 \in 0 .. U64 - 1 /\ U64 \in Nat
  BY <1>1, <1>2, WindowInTable, KernelMapAssumption DEF Slot
<1>4. (Limit(op.win) - op.num + 1) % U64 = Limit(op.win) - op.num + 1
  BY <1>3
<1> QED
  BY <1>1, <1>2, <1>4, WindowInTable DEF Bound, Run

\* The inner loop stops at the first present entry or at the end of the run.
LEMMA RunEndFound ==
    ASSUME MapTypeOK, op # Idle
    PROVE  /\ RunEnd \in op.i + 1 .. op.i + op.num
           /\ RunEnd = op.i + op.num \/ table[op.win][RunEnd] # 0
           /\ \A k \in op.i + 1 .. RunEnd - 1 : table[op.win][k] = 0
<1> DEFINE last == op.i + op.num
           T    == {j \in op.i + 1 .. last : j = last \/ table[op.win][j] # 0}
<1>1. op.i \in Nat /\ op.num \in Nat \ {0}
  BY DEF MapTypeOK, Search
<1>2. T \subseteq Nat /\ last \in T
  BY <1>1
<1>3. PICK j \in T : \A k \in T : j <= k
  BY <1>2, LeastNat
<1>4. \A k \in op.i + 1 .. j - 1 : table[op.win][k] = 0
  BY <1>1, <1>3
<1>5. \E jj \in op.i + 1 .. op.i + op.num :
          /\ jj = op.i + op.num \/ table[op.win][jj] # 0
          /\ \A k \in op.i + 1 .. jj - 1 : table[op.win][k] = 0
  BY <1>3, <1>4
<1> QED
  BY <1>5 DEF RunEnd

-----------------------------------------------------------------------------
(* The steps keep the invariant                                            *)

LEMMA InitMapInv == Init => MapInv
<1> SUFFICES ASSUME Init PROVE MapInv
  OBVIOUS
<1>1. table \in [Window -> [Slot -> Int]]
  BY DEF Init, Window, Kernel, Garbage
<1>2. BelowWindow
  BY KernelMapAssumption DEF Init, BelowWindow, Slot
<1>3. tlb \in [CPU -> SUBSET (Window \X Slot \X Int)] /\ Cached
  BY DEF Init, Cached
<1> QED
  BY <1>1, <1>2, <1>3
  DEF Init, MapInv, MapTypeOK, InitFirst, InWindow, Accounted, MappingsIntact,
      Unpassed

\* Entering a run of free entries of a window keeps everything that is said of
\* the tables.
LEMMA EnterKeeps ==
    ASSUME MapInv, up, UNCHANGED <<tlb, up>>,
           NEW w \in Window, NEW s \in Nat, NEW num \in Nat \ {0},
           NEW frame \in Nat \ {0}, NEW users \in SUBSET CPU,
           Run(s, num) \subseteq First(w) .. Limit(w) - 1,
           \A t \in Run(s, num) : table[w][t] = 0,
           Enter(w, s, num, frame, users)
    PROVE  /\ table' \in [Window -> [Slot -> Int]]
           /\ mapped' \subseteq Mapping
           /\ InWindow' /\ Accounted' /\ BelowWindow' /\ MappingsIntact'
           /\ Cached'
<1> DEFINE new == [win |-> w, slot |-> s, num |-> num, frame |-> frame,
                   users |-> users]
<1>1. /\ table \in [Window -> [Slot -> Int]] /\ mapped \subseteq Mapping
      /\ InWindow /\ Accounted /\ BelowWindow /\ MappingsIntact /\ Cached
  BY DEF MapInv, MapTypeOK
<1>2. new \in Mapping /\ mapped' = mapped \cup {new}
  BY DEF Enter, Mapping
<1>3. /\ new.win = w /\ new.slot = s /\ new.num = num /\ new.frame = frame
      /\ Slots(new) = Run(s, num)
  BY DEF Slots
<1> HIDE DEF new
<1>4. Run(s, num) \subseteq Slot
  BY WindowInTable
<1>5. /\ table' \in [Window -> [Slot -> Int]]
      /\ \A v \in Window \ {w} : table'[v] = table[v]
      /\ \A t \in Slot : table'[w][t] = IF t \in Run(s, num) THEN frame + (t - s)
                                        ELSE table[w][t]
  <2> DEFINE row == [t \in Slot |-> IF t \in Run(s, num) THEN frame + (t - s)
                                   ELSE table[w][t]]
  <2>1. table' = [table EXCEPT ![w] = row]
    BY DEF Enter
  <2>2. (\A t \in Slot : t \in Int) /\ \A t \in Slot : table[w][t] \in Int
    <3>1. \A t \in Slot : t \in Int
      BY DEF Slot
    <3> QED
      BY <1>1, <3>1
  <2>3. row \in [Slot -> Int]
    BY <2>2
  <2>4. \A t \in Slot : row[t] = IF t \in Run(s, num) THEN frame + (t - s)
                                 ELSE table[w][t]
    OBVIOUS
  <2> HIDE DEF row
  <2>5. table'[w] = row /\ \A v \in Window \ {w} : table'[v] = table[v]
    BY <1>1, <2>1
  <2>6. table' \in [Window -> [Slot -> Int]]
    BY <1>1, <2>1, <2>3
  <2> QED
    BY <2>4, <2>5, <2>6
<1>6. s \in Run(s, num) /\ \A t \in Run(s, num) : t \in Int /\ frame + (t - s) # 0
  BY DEF Run
<1>7. \A m \in mapped : /\ m.win \in Window
                        /\ Slots(m) \subseteq First(m.win) .. Limit(m.win) - 1
                        /\ Slots(m) \subseteq Slot
  BY <1>1, WindowInTable DEF InWindow, Mapping
<1>8. ASSUME NEW m \in mapped, m.win = w
      PROVE  Slots(m) \cap Run(s, num) = {}
  <2> SUFFICES ASSUME NEW t \in Slots(m), t \in Run(s, num) PROVE FALSE
    OBVIOUS
  <2>1. table[w][t] = 0 /\ t \in First(w) .. Limit(w) - 1
    OBVIOUS
  <2> QED
    BY <2>1, <1>1, <1>8 DEF Accounted
<1>9. InWindow'
  BY <1>1, <1>2, <1>3 DEF InWindow, Slots
<1>10. Accounted'
  <2> SUFFICES ASSUME NEW v \in Window, NEW t \in First(v) .. Limit(v) - 1
               PROVE  table'[v][t] # 0 <=>
                         \E m \in mapped' : m.win = v /\ t \in Slots(m)
    BY DEF Accounted, Slots
  <2>1. t \in Slot /\ (table[v][t] # 0 <=>
                         \E m \in mapped : m.win = v /\ t \in Slots(m))
    BY <1>1, WindowInTable DEF Accounted
  <2>2. CASE v = w /\ t \in Run(s, num)
    <3>1. table'[v][t] # 0
      BY <1>5, <1>6, <2>1, <2>2
    <3>2. new \in mapped' /\ new.win = v /\ t \in Slots(new)
      BY <1>2, <1>3, <2>2
    <3> QED
      BY <3>1, <3>2
  <2>3. CASE ~(v = w /\ t \in Run(s, num))
    <3>1. table'[v][t] = table[v][t]
      BY <1>5, <2>1, <2>3
    <3> QED
      BY <3>1, <2>1, <2>3, <1>2, <1>3
  <2> QED
    BY <2>2, <2>3
<1>11. BelowWindow'
  <2> SUFFICES ASSUME NEW t \in 0 .. LG_BASE - 1
               PROVE  table'["pdt"][t] \in {0, Kernel, Pool}
    BY DEF BelowWindow
  <2>1. t \in Slot /\ "pdt" \in Window /\ table["pdt"][t] \in {0, Kernel, Pool}
    BY <1>1, KernelMapAssumption DEF BelowWindow, Slot, Window
  <2>2. w = "pdt" => t \notin Run(s, num)
    BY KernelMapAssumption DEF First, Slot
  <2> QED
    BY <2>1, <2>2, <1>5
<1>12. MappingsIntact'
  <2> SUFFICES ASSUME NEW m \in mapped'
               PROVE  /\ \A t \in Slots(m) :
                            table'[m.win][t] = m.frame + (t - m.slot)
                      /\ \A n \in mapped' : n # m /\ n.win = m.win
                                               => Slots(m) \cap Slots(n) = {}
    BY DEF MappingsIntact, Slots
  <2>1. CASE m = new
    <3>1. \A t \in Slots(m) : table'[m.win][t] = m.frame + (t - m.slot)
      BY <2>1, <1>3, <1>4, <1>5
    <3> QED
      BY <3>1, <2>1, <1>2, <1>3, <1>8
  <2>2. CASE m \in mapped
    <3>1. ASSUME NEW t \in Slots(m)
          PROVE  table'[m.win][t] = m.frame + (t - m.slot)
      <4>1. table[m.win][t] = m.frame + (t - m.slot)
        BY <1>1, <2>2 DEF MappingsIntact
      <4>2. t \in Slot /\ m.win \in Window
        BY <1>7, <2>2
      <4>3. m.win = w => t \notin Run(s, num)
        BY <1>8, <2>2
      <4> QED
        BY <4>1, <4>2, <4>3, <1>5
    <3>2. ASSUME NEW n \in mapped', n # m, n.win = m.win
          PROVE  Slots(m) \cap Slots(n) = {}
      BY <3>2, <2>2, <1>1, <1>2, <1>3, <1>8 DEF MappingsIntact
    <3> QED
      BY <3>1, <3>2
  <2> QED
    BY <2>1, <2>2, <1>2
<1>13. Cached'
  BY <1>1, <1>2 DEF Cached, Slots
<1> QED
  BY <1>2, <1>5, <1>9, <1>10, <1>11, <1>12, <1>13, <1>1

\* Removing a mapping, on the CPU that alone uses it, takes its entries and
\* that CPU's translations away and leaves the others.
LEMMA RemoveKeeps ==
    ASSUME MapInv, NEW c \in CPU, NEW m \in mapped, Removable(c, m), Remove(c, m)
    PROVE  MapInv'
<1>1. /\ table \in [Window -> [Slot -> Int]] /\ mapped \subseteq Mapping
      /\ tlb \in [CPU -> SUBSET (Window \X Slot \X Int)]
      /\ InWindow /\ Accounted /\ BelowWindow /\ MappingsIntact /\ Cached
  BY DEF MapInv, MapTypeOK
<1>2. up /\ op = Idle /\ m.users = {c}
  BY DEF Removable, Ready
<1>3. up' = up /\ op' = op /\ mapped' = mapped \ {m}
  BY DEF Remove
<1>4. \A n \in mapped : /\ n.win \in Window
                        /\ Slots(n) \subseteq First(n.win) .. Limit(n.win) - 1
                        /\ Slots(n) \subseteq Slot
  BY <1>1, WindowInTable DEF InWindow, Mapping
<1>5. /\ table' \in [Window -> [Slot -> Int]]
      /\ \A v \in Window \ {m.win} : table'[v] = table[v]
      /\ \A t \in Slot : table'[m.win][t] = IF t \in Slots(m) THEN 0
                                            ELSE table[m.win][t]
  <2> DEFINE row == [t \in Slot |-> IF t \in Slots(m) THEN 0
                                    ELSE table[m.win][t]]
  <2>1. table' = [table EXCEPT ![m.win] = row]
    BY DEF Remove
  <2>2. m.win \in Window /\ row \in [Slot -> Int]
    BY <1>1, <1>4
  <2>3. \A t \in Slot : row[t] = IF t \in Slots(m) THEN 0 ELSE table[m.win][t]
    OBVIOUS
  <2> HIDE DEF row
  <2>4. table'[m.win] = row /\ \A v \in Window \ {m.win} : table'[v] = table[v]
    BY <1>1, <2>1, <2>2
  <2>5. table' \in [Window -> [Slot -> Int]]
    BY <1>1, <2>1, <2>2
  <2> QED
    BY <2>3, <2>4, <2>5
<1>6. ASSUME NEW n \in mapped', n.win = m.win
      PROVE  Slots(n) \cap Slots(m) = {}
  BY <1>1, <1>3, <1>6 DEF MappingsIntact
<1>7. InWindow'
  BY <1>1, <1>3 DEF InWindow, Slots
<1>8. Accounted'
  <2> SUFFICES ASSUME NEW v \in Window, NEW t \in First(v) .. Limit(v) - 1
               PROVE  table'[v][t] # 0 <=>
                         \E n \in mapped' : n.win = v /\ t \in Slots(n)
    BY DEF Accounted, Slots
  <2>1. t \in Slot /\ (table[v][t] # 0 <=>
                         \E n \in mapped : n.win = v /\ t \in Slots(n))
    BY <1>1, <1>2, WindowInTable DEF Accounted
  <2>2. CASE v = m.win /\ t \in Slots(m)
    BY <2>1, <2>2, <1>5, <1>6
  <2>3. CASE ~(v = m.win /\ t \in Slots(m))
    <3>1. table'[v][t] = table[v][t]
      BY <1>5, <2>1, <2>3
    <3> QED
      BY <3>1, <2>1, <2>3, <1>3
  <2> QED
    BY <2>2, <2>3
<1>9. BelowWindow'
  <2> SUFFICES ASSUME NEW t \in 0 .. LG_BASE - 1
               PROVE  table'["pdt"][t] \in {0, Kernel, Pool}
    BY DEF BelowWindow
  <2>1. t \in Slot /\ "pdt" \in Window /\ table["pdt"][t] \in {0, Kernel, Pool}
    BY <1>1, KernelMapAssumption DEF BelowWindow, Slot, Window
  <2> QED
    BY <2>1, <1>5
<1>10. MappingsIntact'
  <2> SUFFICES ASSUME NEW n \in mapped'
               PROVE  /\ \A t \in Slots(n) :
                            table'[n.win][t] = n.frame + (t - n.slot)
                      /\ \A k \in mapped' : k # n /\ k.win = n.win
                                               => Slots(n) \cap Slots(k) = {}
    BY DEF MappingsIntact, Slots
  <2>1. n \in mapped
    BY <1>3
  <2>2. ASSUME NEW t \in Slots(n)
        PROVE  table'[n.win][t] = n.frame + (t - n.slot)
    <3>1. table[n.win][t] = n.frame + (t - n.slot)
      BY <1>1, <2>1 DEF MappingsIntact
    <3>2. t \in Slot /\ n.win \in Window
      BY <1>4, <2>1
    <3>3. n.win = m.win => t \notin Slots(m)
      BY <1>6
    <3> QED
      BY <3>1, <3>2, <3>3, <1>5
  <2> QED
    BY <2>1, <2>2, <1>1, <1>3 DEF MappingsIntact
<1>11. /\ tlb' \in [CPU -> SUBSET (Window \X Slot \X Int)]
       /\ \A d \in CPU \ {c} : tlb'[d] = tlb[d]
       /\ tlb'[c] = {e \in tlb[c] : ~(e[1] = m.win /\ e[2] \in Slots(m))}
  BY <1>1 DEF Remove
<1>12. Cached'
  <2> SUFFICES ASSUME NEW d \in CPU, NEW e \in tlb'[d]
               PROVE  \E n \in mapped' : /\ d \in n.users
                                         /\ e[1] = n.win
                                         /\ e[2] \in Slots(n)
                                         /\ e[3] = n.frame + (e[2] - n.slot)
    BY DEF Cached, Slots
  <2>1. e \in tlb[d]
    BY <1>11
  <2>2. PICK n \in mapped : /\ d \in n.users /\ e[1] = n.win
                            /\ e[2] \in Slots(n)
                            /\ e[3] = n.frame + (e[2] - n.slot)
    BY <2>1, <1>1 DEF Cached
  <2>3. n # m
    BY <2>2, <1>2, <1>11
  <2> QED
    BY <2>2, <2>3, <1>3
<1> QED
  BY <1>1, <1>2, <1>3, <1>5, <1>7, <1>8, <1>9, <1>10, <1>11, <1>12
  DEF MapInv, MapTypeOK, InitFirst, Unpassed

\* What vm_init clears, and what malloc_init's mappings change, is outside
\* every mapping.
LEMMA InitKeeps == MapInv /\ vm_init => MapInv'
<1> SUFFICES ASSUME MapInv, vm_init PROVE MapInv'
  OBVIOUS
<1>1. /\ mapped = {} /\ op = Idle /\ mapped' = mapped /\ op' = op
      /\ tlb' = tlb /\ up'
  BY DEF MapInv, InitFirst, vm_init
<1>2. /\ table \in [Window -> [Slot -> Int]] /\ BelowWindow
      /\ tlb \in [CPU -> SUBSET (Window \X Slot \X Int)] /\ Cached
  BY DEF MapInv, MapTypeOK
<1>3. /\ \A s \in Slot : table'["pt"][s] = 0
      /\ \A s \in Slot : table'["pdt"][s] =
            IF s = PT_SLOT THEN Kernel
            ELSE IF s >= LG_BASE /\ s < LG_LIMIT THEN 0
            ELSE table["pdt"][s]
  BY DEF vm_init
<1>4. table' \in [Window -> [Slot -> Int]]
  BY <1>2 DEF vm_init, Window, Kernel
<1>5. BelowWindow'
  <2> SUFFICES ASSUME NEW t \in 0 .. LG_BASE - 1
               PROVE  table'["pdt"][t] \in {0, Kernel, Pool}
    BY DEF BelowWindow
  <2>1. t \in Slot /\ t < LG_BASE /\ table["pdt"][t] \in {0, Kernel, Pool}
    BY <1>2, KernelMapAssumption DEF BelowWindow, Slot
  <2> QED
    BY <2>1, <1>3, KernelMapAssumption
<1>6. Accounted'
  <2> SUFFICES ASSUME NEW w \in Window, NEW s \in First(w) .. Limit(w) - 1
               PROVE  table'[w][s] = 0
    BY <1>1 DEF Accounted
  <2> QED
    BY <1>3, KernelMapAssumption DEF Window, First, Limit, Slot
<1> QED
  BY <1>1, <1>2, <1>4, <1>5, <1>6
  DEF MapInv, MapTypeOK, InitFirst, InWindow, MappingsIntact, Cached, Unpassed

LEMMA PoolKeeps ==
    ASSUME MapInv, NEW c \in CPU, NEW s \in MALLOC_SLOTS,
           vm_map_large_page_unrestricted(c, s)
    PROVE  MapInv'
<1>1. /\ table \in [Window -> [Slot -> Int]] /\ mapped \subseteq Mapping
      /\ InWindow /\ Accounted /\ BelowWindow /\ MappingsIntact
  BY DEF MapInv, MapTypeOK
<1>2. op = Idle /\ UNCHANGED <<mapped, tlb, op, up>>
  BY DEF vm_map_large_page_unrestricted, Ready
<1>3. s \in Slot /\ s < LG_BASE
  BY KernelMapAssumption DEF Slot
<1>4. /\ table' \in [Window -> [Slot -> Int]]
      /\ table'["pt"] = table["pt"]
      /\ \A t \in Slot : table'["pdt"][t] = IF t = s THEN Pool
                                            ELSE table["pdt"][t]
  BY <1>1, <1>3 DEF vm_map_large_page_unrestricted, Window, Pool
<1>5. \A w \in Window : \A t \in First(w) .. Limit(w) - 1 :
          table'[w][t] = table[w][t]
  BY <1>3, <1>4, KernelMapAssumption DEF Window, First, Limit, Slot
<1>6. Accounted'
  BY <1>1, <1>2, <1>5 DEF Accounted, Slots
<1>7. BelowWindow'
  <2> SUFFICES ASSUME NEW t \in 0 .. LG_BASE - 1
               PROVE  table'["pdt"][t] \in {0, Kernel, Pool}
    BY DEF BelowWindow
  <2>1. t \in Slot /\ t < LG_BASE /\ table["pdt"][t] \in {0, Kernel, Pool}
    BY <1>1, KernelMapAssumption DEF BelowWindow, Slot
  <2> QED
    BY <2>1, <1>4, KernelMapAssumption
<1>8. MappingsIntact'
  <2>1. \A m \in mapped : \A t \in Slots(m) : table'[m.win][t] = table[m.win][t]
    BY <1>1, <1>5 DEF InWindow, Mapping
  <2> QED
    BY <1>1, <1>2, <2>1 DEF MappingsIntact, Slots
<1> QED
  BY <1>1, <1>2, <1>4, <1>6, <1>7, <1>8
  DEF MapInv, MapTypeOK, InitFirst, InWindow, Slots, Cached, Unpassed

\* vm_map_page and vm_map_large_page take an entry that is not present.
LEMMA MapOneKeeps ==
    ASSUME MapInv, Ready, NEW w \in Window, NEW s \in FirstFreeSlot(w),
           NEW frame \in Frames, NEW users \in SUBSET CPU,
           Enter(w, s, 1, frame, users), UNCHANGED <<tlb, op, up>>
    PROVE  MapInv'
<1>1. /\ s \in Nat /\ Run(s, 1) = {s} /\ table[w][s] = 0
      /\ s \in First(w) .. Limit(w) - 1
  BY WindowInTable DEF FirstFreeSlot, Run, Slot
<1>2. up /\ op = Idle /\ frame \in Nat \ {0}
  BY KernelMapAssumption DEF Ready
<1>3. /\ table' \in [Window -> [Slot -> Int]] /\ mapped' \subseteq Mapping
      /\ InWindow' /\ Accounted' /\ BelowWindow' /\ MappingsIntact' /\ Cached'
  BY <1>1, <1>2, EnterKeeps
<1> QED
  BY <1>2, <1>3 DEF MapInv, MapTypeOK, InitFirst, Unpassed

\* The start of a search.
LEMMA SearchFromKeeps ==
    ASSUME MapInv, NEW w \in Window, NEW num \in Nums(w), NEW frame \in Frames,
           NEW c \in CPU, NEW keep \in BOOLEAN, SearchFrom(w, num, frame, c, keep)
    PROVE  MapInv'
<1>1. op'.i = First(w) /\ op'.num = num /\ op'.win = w /\ op' \in Search
  <2>1. num \in Nat \ {0}
    BY KernelMapAssumption DEF Nums
  <2>2. First(w) \in Nat /\ frame \in Nat \ {0} /\ Users(c, keep) \in SUBSET CPU
    BY WindowInTable, KernelMapAssumption DEF Users
  <2> QED
    BY <2>1, <2>2 DEF SearchFrom, Search
<1>2. Unpassed'
  <2>1. \A s \in First(w) .. Limit(w) - num - 1 : First(w) <= s + 1
    BY WindowInTable
  <2> QED
    BY <1>1, <2>1 DEF Unpassed
<1>3. UNCHANGED <<table, mapped, tlb, up>> /\ up /\ First(w) <= op'.i
  BY <1>1, WindowInTable DEF SearchFrom, Ready
<1>4. MapTypeOK'
  BY <1>1, <1>3 DEF MapInv, MapTypeOK
<1> QED
  BY <1>2, <1>3, <1>4
  DEF MapInv, InitFirst, InWindow, Accounted, BelowWindow, MappingsIntact,
      Cached, Slots

\* A search that goes on has passed over no wide gap: it goes past an entry
\* only if that is present, past a run only to the entry after the present one
\* that cut it short.
LEMMA SearchGoesOn ==
    ASSUME MapInv, search_next \/ search_skip
    PROVE  MapInv'
<1>2. op # Idle
  BY DEF search_next, search_skip, Looking, Idle
<1>3. /\ op \in Search /\ op.num \in Nums(op.win) /\ First(op.win) <= op.i
      /\ op.win \in Window /\ op.i \in Nat /\ op.num \in Nat \ {0}
  BY <1>2 DEF MapInv, MapTypeOK, Search
<1>4. UNCHANGED <<table, mapped, tlb, up>>
  BY DEF search_next, search_skip
<1>5. /\ RunEnd \in op.i + 1 .. op.i + op.num
      /\ RunEnd = op.i + op.num \/ table[op.win][RunEnd] # 0
  BY <1>2, RunEndFound DEF MapInv
<1> DEFINE to == op'.i
<1>6. /\ to \in Nat /\ op.i <= to /\ op' = [op EXCEPT !.i = to]
      /\ \/ to = op.i + 1 /\ table[op.win][op.i] # 0
         \/ to = RunEnd + 2 /\ RunEnd # op.i + op.num
  BY <1>3, <1>5 DEF search_next, search_skip, Search
<1>7. op' \in Search /\ op'.num = op.num /\ op'.win = op.win /\ First(op.win) <= to
  BY <1>3, <1>6, WindowInTable DEF Search
<1> HIDE DEF to
<1>8. ASSUME NEW s \in First(op.win) .. Limit(op.win) - op.num - 1,
             \A t \in Run(s, op.num + 1) : table[op.win][t] = 0
      PROVE  to <= s + 1
  <2>1. op.i <= s + 1 /\ s \in Nat
    BY <1>2, <1>3, <1>8, WindowInTable DEF MapInv, Unpassed
  <2>2. \A t \in Int : s <= t /\ t <= s + op.num => table[op.win][t] = 0
    BY <1>3, <1>8, <2>1 DEF Run
  <2>3. CASE to = op.i + 1 /\ table[op.win][op.i] # 0
    BY <2>1, <2>2, <2>3, <1>3
  <2>4. CASE to = RunEnd + 2 /\ RunEnd # op.i + op.num
    BY <2>1, <2>2, <2>4, <1>3, <1>5
  <2> QED
    BY <1>6, <2>3, <2>4
<1>9. Unpassed'
  BY <1>4, <1>7, <1>8 DEF Unpassed, Run, to
<1>10. up /\ MapTypeOK'
  BY <1>2, <1>3, <1>4, <1>7 DEF MapInv, MapTypeOK, InitFirst, to
<1> QED
  BY <1>4, <1>9, <1>10
  DEF MapInv, InitFirst, InWindow, Accounted, BelowWindow, MappingsIntact,
      Cached, Slots

\* A search that ends with a run enters free entries of the window.
LEMMA SearchTakes ==
    ASSUME BoundNeverWraps, MapInv, search_take
    PROVE  MapInv'
<1>1. op # Idle /\ op.i < Bound /\ table[op.win][op.i] = 0 /\ RunEnd = op.i + op.num
  BY DEF search_take, Looking, Idle
<1>2. /\ op.win \in Window /\ op.i \in Nat /\ op.num \in Nat \ {0}
      /\ op.frame \in Nat \ {0} /\ op.users \in SUBSET CPU
  BY <1>1 DEF MapInv, MapTypeOK, Search
<1>3. Run(op.i, op.num) \subseteq First(op.win) .. Limit(op.win) - 1
  BY <1>1, BoundMeant DEF MapInv
<1>4. \A t \in Run(op.i, op.num) : table[op.win][t] = 0
  <2>1. \A k \in op.i + 1 .. RunEnd - 1 : table[op.win][k] = 0
    BY <1>1, RunEndFound DEF MapInv
  <2> QED
    BY <1>1, <1>2, <2>1 DEF Run
<1>5. /\ up /\ UNCHANGED <<tlb, up>> /\ op' = Idle
      /\ Enter(op.win, op.i, op.num, op.frame, op.users)
  BY <1>1 DEF MapInv, MapTypeOK, InitFirst, search_take
<1>6. /\ table' \in [Window -> [Slot -> Int]] /\ mapped' \subseteq Mapping
      /\ InWindow' /\ Accounted' /\ BelowWindow' /\ MappingsIntact' /\ Cached'
  BY <1>2, <1>3, <1>4, <1>5, EnterKeeps
<1> QED
  BY <1>5, <1>6 DEF MapInv, MapTypeOK, InitFirst, Unpassed

\* A CPU that walks the tables for a mapping it uses caches that mapping's
\* frame.
LEMMA AccessKeeps ==
    ASSUME MapInv, NEW c \in CPU, NEW m \in mapped, NEW s \in Slots(m),
           access(c, m, s)
    PROVE  MapInv'
<1> DEFINE new == <<m.win, s, table[m.win][s]>>
<1>1. /\ UNCHANGED <<table, mapped, op, up>> /\ c \in m.users
      /\ tlb' = [tlb EXCEPT ![c] = @ \cup {new}]
  BY DEF access
<1>2. /\ table \in [Window -> [Slot -> Int]] /\ mapped \subseteq Mapping
      /\ tlb \in [CPU -> SUBSET (Window \X Slot \X Int)] /\ Cached /\ InWindow
  BY DEF MapInv, MapTypeOK
<1>3. m.win \in Window /\ s \in Slot
  BY <1>2, WindowInTable DEF InWindow, Mapping
<1>4. table[m.win][s] = m.frame + (s - m.slot)
  BY DEF MapInv, MappingsIntact
<1>5. new \in Window \X Slot \X Int
  BY <1>2, <1>3
<1>6. new[1] = m.win /\ new[2] = s /\ new[3] = m.frame + (s - m.slot)
  BY <1>4
<1> HIDE DEF new
<1>7. /\ tlb' \in [CPU -> SUBSET (Window \X Slot \X Int)]
      /\ \A d \in CPU : \A e \in tlb'[d] : e \in tlb[d] \/ (d = c /\ e = new)
  BY <1>1, <1>2, <1>5
<1>8. Cached'
  <2> SUFFICES ASSUME NEW d \in CPU, NEW e \in tlb'[d]
               PROVE  \E n \in mapped : /\ d \in n.users
                                        /\ e[1] = n.win
                                        /\ e[2] \in Slots(n)
                                        /\ e[3] = n.frame + (e[2] - n.slot)
    BY <1>1 DEF Cached, Slots
  <2>1. CASE e \in tlb[d]
    BY <2>1, <1>2 DEF Cached
  <2>2. CASE d = c /\ e = new
    BY <2>2, <1>1, <1>6
  <2> QED
    BY <2>1, <2>2, <1>7
<1>9. MapTypeOK'
  BY <1>1, <1>7 DEF MapInv, MapTypeOK
<1> QED
  BY <1>1, <1>8, <1>9
  DEF MapInv, InitFirst, InWindow, Accounted, BelowWindow, MappingsIntact,
      Unpassed, Slots

\* Every step keeps the invariant, if the bound of the search does not wrap.
LEMMA NextMapInv ==
    ASSUME BoundNeverWraps
    PROVE  MapInv /\ [Next]_vars => MapInv'
<1> SUFFICES ASSUME MapInv, [Next]_vars PROVE MapInv'
  OBVIOUS
<1>1. CASE vm_init
  BY <1>1, InitKeeps
<1>2. ASSUME NEW c \in CPU, NEW f \in Frames, NEW keep \in BOOLEAN,
             vm_map_page(c, f, keep)
      PROVE  MapInv'
  BY <1>2, MapOneKeeps DEF vm_map_page, Users, Window
<1>3. ASSUME NEW c \in CPU, NEW f \in Frames, NEW keep \in BOOLEAN,
             vm_map_large_page(c, f, keep)
      PROVE  MapInv'
  BY <1>3, MapOneKeeps DEF vm_map_large_page, Users, Window
<1>4. ASSUME NEW c \in CPU, NEW f \in Frames, NEW keep \in BOOLEAN,
             NEW n \in PageNums, vm_map_pages(c, n, f, keep)
      PROVE  MapInv'
  BY <1>4, SearchFromKeeps DEF vm_map_pages, Nums, Window
<1>5. ASSUME NEW c \in CPU, NEW f \in Frames, NEW keep \in BOOLEAN,
             NEW n \in LargeNums, vm_map_large_pages(c, n, f, keep)
      PROVE  MapInv'
  BY <1>5, SearchFromKeeps DEF vm_map_large_pages, Nums, Window
<1>6. ASSUME NEW c \in CPU, NEW s \in MALLOC_SLOTS,
             vm_map_large_page_unrestricted(c, s)
      PROVE  MapInv'
  BY <1>6, PoolKeeps
<1>7. CASE search_next \/ search_skip
  BY <1>7, SearchGoesOn
<1>8. CASE search_take
  BY <1>8, SearchTakes
<1>9. CASE search_fail
  BY <1>9
  DEF search_fail, MapInv, MapTypeOK, InitFirst, InWindow, Accounted,
      BelowWindow, MappingsIntact, Cached, Unpassed, Slots
<1>10. ASSUME NEW c \in CPU, NEW m \in mapped,
              \/ vm_unmap_page(c, m) \/ vm_unmap_pages(c, m)
              \/ vm_unmap_large_page(c, m) \/ vm_unmap_large_pages(c, m)
       PROVE  MapInv'
  BY <1>10, RemoveKeeps
  DEF vm_unmap_page, vm_unmap_pages, vm_unmap_large_page, vm_unmap_large_pages
<1>11. ASSUME NEW c \in CPU, NEW m \in mapped, NEW s \in Slots(m), access(c, m, s)
       PROVE  MapInv'
  BY <1>11, AccessKeeps
<1>12. CASE UNCHANGED vars
  BY <1>12
  DEF vars, MapInv, MapTypeOK, InitFirst, InWindow, Accounted, BelowWindow,
      MappingsIntact, Cached, Unpassed, Slots
<1> QED
  BY <1>1, <1>2, <1>3, <1>4, <1>5, <1>6, <1>7, <1>8, <1>9, <1>10, <1>11, <1>12
  DEF Next, SearchStep

-----------------------------------------------------------------------------
\* Whatever is mapped, unmapped and searched for, a mapping keeps its frames
\* and shares no entry with another.
THEOREM MapMappingsIntact ==
    ASSUME BoundNeverWraps
    PROVE  Spec => []MappingsIntact
<1>1. MapInv => MappingsIntact
  BY DEF MapInv
<1> QED
  BY <1>1, InitMapInv, NextMapInv, PTL DEF Spec

\* The tables hold what callers mapped and nothing else, and no search leaves
\* its window.
THEOREM MapWindowAccounted ==
    ASSUME BoundNeverWraps
    PROVE  Spec => []WindowAccounted
<1>1. MapInv => WindowAccounted
  <2> SUFFICES ASSUME MapInv PROVE WindowAccounted
    OBVIOUS
  <2>1. op # Idle /\ op.i < Bound => Run(op.i, op.num) \subseteq Slot
    <3> SUFFICES ASSUME op # Idle, op.i < Bound
                 PROVE  Run(op.i, op.num) \subseteq Slot
      OBVIOUS
    <3>1. Run(op.i, op.num) \subseteq First(op.win) .. Limit(op.win) - 1
      BY BoundMeant DEF MapInv
    <3>2. op.win \in Window
      BY DEF MapInv, MapTypeOK, Search
    <3> QED
      BY <3>1, <3>2, WindowInTable
  <2> QED
    BY <2>1 DEF MapInv, InWindow, Accounted, BelowWindow, WindowAccounted
<1> QED
  BY <1>1, InitMapInv, NextMapInv, PTL DEF Spec

\* No CPU reaches a frame through a translation that an earlier mapping left,
\* although invlpg is executed on the unmapping CPU alone.
THEOREM MapNoStaleTranslation ==
    ASSUME BoundNeverWraps
    PROVE  Spec => []NoStaleTranslation
<1>1. MapInv => NoStaleTranslation
  <2> SUFFICES ASSUME MapInv, NEW c \in CPU, NEW m \in mapped, c \in m.users,
                      NEW e \in tlb[c], e[1] = m.win, e[2] \in Slots(m)
               PROVE  e[3] = m.frame + (e[2] - m.slot)
    BY DEF NoStaleTranslation
  <2>1. PICK n \in mapped : /\ e[1] = n.win /\ e[2] \in Slots(n)
                            /\ e[3] = n.frame + (e[2] - n.slot)
    BY DEF MapInv, Cached
  <2>2. n = m
    BY <2>1 DEF MapInv, MappingsIntact
  <2> QED
    BY <2>1, <2>2
<1> QED
  BY <1>1, InitMapInv, NextMapInv, PTL DEF Spec

\* A search that returns NULL has met no run of free entries one longer than
\* what was asked for.
THEOREM MapWideGapFound ==
    ASSUME BoundNeverWraps
    PROVE  Spec => WideGapFound
<1>1. MapInv /\ [Next]_vars =>
          [search_fail =>
             ~\E s \in First(op.win) .. Limit(op.win) - op.num - 1 :
                 \A t \in Run(s, op.num + 1) : table[op.win][t] = 0]_vars
  <2> SUFFICES ASSUME MapInv, search_fail,
                      NEW s \in First(op.win) .. Limit(op.win) - op.num - 1,
                      \A t \in Run(s, op.num + 1) : table[op.win][t] = 0
               PROVE  FALSE
    OBVIOUS
  <2>1. op # Idle /\ op.i >= Bound
    BY DEF search_fail, Idle
  <2>2. op.win \in Window /\ op.num \in Nat /\ op.i \in Nat
    BY <2>1 DEF MapInv, MapTypeOK, Search
  <2>3. Bound = Limit(op.win) - op.num + 1
    BY <2>1, BoundMeant DEF MapInv
  <2>4. op.i <= s + 1
    BY <2>1 DEF MapInv, Unpassed
  <2> QED
    BY <2>1, <2>2, <2>3, <2>4, WindowInTable
<1> QED
  BY <1>1, InitMapInv, NextMapInv, PTL DEF Spec, WideGapFound
=============================================================================
