-------------------------- MODULE MemTrack_proofs --------------------------
(***************************************************************************)
(* The properties of MemTrack hold for any threads, addresses, entries and *)
(* sizes.                                                                  *)
(*                                                                         *)
(* Between two critical sections the hash, the sum and the heap disagree   *)
(* about the block an operation works on; BInv says how far, for each      *)
(* control point, and is kept by every step.  The difficult case is        *)
(* realloc: once the C library has moved a block, its old address may be   *)
(* handed out again while the old entry is still in the hash, and only the *)
(* order of the entries keeps a search from finding it (OrderInv).  Every  *)
(* step changes total_mem_size with the bytes of one entry; the last       *)
(* section counts them.                                                    *)
(***************************************************************************)
EXTENDS MemTrack, FiniteSetTheorems, TLAPS

\* Thread t works on the entry of a block.
Busy(t) == th[t].info # NoInfo

\* The block thread t holds: the one it was given by the C library, or the one
\* its caller gave up.
Hold(t) == IF th[t].pc \in {"m_size", "m_enter", "r_size", "r_store", "r_out", "r_enter"}
           THEN th[t].addr ELSE th[t].ptr

\* realloc has moved the block, and its entry still carries the old address.
Moved(t) == th[t].pc \in {"r_size", "r_out"} /\ th[t].addr # th[t].ptr

\* Entry x belongs to a block that a caller holds.
Standing(x) == info[x].addr # NoAddr /\ \A t \in Threads : th[t].info # x

InHash(x) == \E k \in DOMAIN hash : hash[k] = x

\* What a thread in the middle of an operation knows of its block and entry.
LocalInv(t) ==
    LET x == th[t].info IN
    /\ th[t].pc # "unknown"
    /\ th[t].pc = "idle" <=> th[t] = Idle
    /\ th[t].pc = "idle" <=> ~Busy(t)
    /\ Busy(t) =>
        /\ Hold(t) \in heap /\ live[Hold(t)] = 0
        /\ info[x].addr = IF Moved(t) THEN th[t].ptr ELSE Hold(t)
        /\ info[x].addr \in Addrs
        /\ InHash(x) <=> th[t].pc \notin {"m_size", "m_enter", "z_size", "release", "r_enter"}
        /\ th[t].pc \in {"m_size", "m_enter", "r_enter"} => info[x].size = th[t].size
        /\ th[t].pc \in {"r_call", "r_size", "r_store", "r_out", "m_size", "m_enter", "r_enter"} => th[t].size # 0
        /\ th[t].pc = "r_store" => th[t].addr = th[t].ptr
        /\ th[t].pc = "r_out" => th[t].addr # th[t].ptr

\* No two threads work on the same block or entry.
Apart == \A t, u \in Threads : Busy(t) /\ Busy(u) /\ t # u =>
            th[t].info # th[u].info /\ Hold(t) # Hold(u)

\* The entry of a block that a caller holds is in the hash and right.
EntryInv ==
    \A x \in Infos :
        /\ info[x].addr = NoAddr => ~InHash(x) /\ info[x].size = 0
        /\ Standing(x) => /\ InHash(x) /\ info[x].addr \in heap
                          /\ info[x].size # 0 /\ live[info[x].addr] = info[x].size

\* Every block is a caller's, with an entry of its own, or a thread's.
BlockInv ==
    /\ \A a \in heap : \/ \E t \in Threads : Busy(t) /\ Hold(t) = a
                       \/ live[a] # 0
    /\ \A a \in Addrs : live[a] # 0 => \E x \in Infos : Standing(x) /\ info[x].addr = a
    /\ \A t \in Threads : ~Busy(t) \/ th[t].info \in Infos

\* The hash holds no entry twice, and an entry is before all others with its
\* address, except those of moved blocks.
OrderInv ==
    /\ \A j, k \in DOMAIN hash : hash[j] = hash[k] => j = k
    /\ \A j, k \in DOMAIN hash :
          /\ j # k /\ info[hash[j]].addr = info[hash[k]].addr
          /\ \A t \in Threads : Moved(t) => th[t].info # hash[j]
          => j < k

\* The part of total_mem_size that stands for the block thread t works on.
Counted(t) == CASE th[t].pc \in {"m_size", "f_out", "release"} -> 0
                [] th[t].pc \in {"f_size", "z_out", "z_size", "r_call", "r_size"} -> info[th[t].info].size
                [] th[t].pc \in {"m_enter", "r_store", "r_out", "r_enter"} -> th[t].size

\* The bytes that total_mem_size stands for, those of an entry numbered from 1.
Bytes == {b \in Infos \X (Nat \ {0}) :
            \/ \E t \in Threads : th[t].info = b[1] /\ b[2] <= Counted(t)
            \/ Standing(b[1]) /\ b[2] <= info[b[1]].size}

\* TypeOK, but for the sign of total_mem_size.
Locals == [pc : PCs, ptr : Addrs \cup {NoAddr}, addr : Addrs \cup {NoAddr},
           size : Nat, info : Infos \cup {NoInfo}]
Shape == /\ heap \subseteq Addrs
         /\ info \in [Infos -> [addr : Addrs \cup {NoAddr}, size : Nat]]
         /\ hash \in Seq(Infos)
         /\ total_mem_size \in Int
         /\ th \in [Threads -> Locals]
         /\ live \in [Addrs -> Nat]

\* The inductive invariant of the blocks and the entries.
BInv == Shape /\ Apart /\ EntryInv /\ BlockInv /\ OrderInv /\ \A t \in Threads : LocalInv(t)

-----------------------------------------------------------------------------
(* The hash. *)

\* _enter_hash puts an entry before all others; the entries with the same
\* address must be those of moved blocks.
LEMMA EnterOrder ==
    ASSUME hash \in Seq(Infos), OrderInv, NEW x \in Infos, ~InHash(x), _enter_hash(x), info' = info,
           \A t \in Threads : Moved(t) => Moved(t)' /\ th'[t].info = th[t].info,
           \A k \in DOMAIN hash : info[hash[k]].addr = info[x].addr =>
              \E t \in Threads : Moved(t) /\ th[t].info = hash[k]
    PROVE  /\ hash' \in Seq(Infos)
           /\ OrderInv'
           /\ \A y \in Infos : InHash(y)' <=> InHash(y) \/ y = x
<1>1. /\ hash' \in Seq(Infos) /\ Len(hash) \in Nat
      /\ Len(hash') = Len(hash) + 1
      /\ DOMAIN hash = 1..Len(hash) /\ DOMAIN hash' = 1..(Len(hash) + 1)
      /\ hash'[1] = x
      /\ \A k \in 2..(Len(hash) + 1) : hash'[k] = hash[k - 1]
  BY DEF _enter_hash
<1>2. \A j \in DOMAIN hash' : j = 1 \/ (j - 1 \in DOMAIN hash /\ hash'[j] = hash[j - 1])
  BY <1>1
<1>3. \A k \in DOMAIN hash : k + 1 \in DOMAIN hash' /\ hash'[k + 1] = hash[k]
  BY <1>1
<1>4. \A k \in DOMAIN hash : hash[k] # x
  BY Zenon DEF InHash
<1>5. \A j, k \in DOMAIN hash' : hash'[j] = hash'[k] => j = k
  BY <1>1, <1>2, <1>4 DEF OrderInv
<1>6. ASSUME NEW j \in DOMAIN hash', NEW k \in DOMAIN hash', j # k,
             info[hash'[j]].addr = info[hash'[k]].addr,
             \A t \in Threads : Moved(t)' => th'[t].info # hash'[j]
      PROVE  j < k
  <2>1. \A t \in Threads : Moved(t) => th[t].info # hash'[j]
    BY <1>6, Zenon
  <2>2. CASE j = 1
    BY <1>1, <1>6, <2>2
  <2>3. CASE j # 1 /\ k = 1
    BY <1>1, <1>2, <1>6, <2>1, <2>3
  <2>4. CASE j # 1 /\ k # 1
    <3>1. j - 1 \in DOMAIN hash /\ k - 1 \in DOMAIN hash /\ hash'[j] = hash[j - 1] /\ hash'[k] = hash[k - 1]
      BY <1>2, <1>6, <2>4, Zenon
    <3>2. PICK p \in DOMAIN hash, q \in DOMAIN hash : p = j - 1 /\ q = k - 1
      BY <3>1, Zenon
    <3>3. p # q
      BY <1>1, <1>6, <3>2
    <3>4. info[hash[p]].addr = info[hash[q]].addr /\ \A t \in Threads : Moved(t) => th[t].info # hash[p]
      BY <1>6, <2>1, <3>1, <3>2, Zenon
    <3>5. p < q
      BY <3>3, <3>4, Zenon DEF OrderInv
    <3>. QED  BY <1>1, <3>2, <3>5
  <2>. QED  BY <2>2, <2>3, <2>4, Zenon
<1>7. OrderInv'
  BY <1>5, <1>6, Zenon DEF OrderInv
<1>8. ASSUME NEW y \in Infos  PROVE InHash(y)' <=> InHash(y) \/ y = x
  <2>1. InHash(y)' => InHash(y) \/ y = x
    BY <1>1, <1>2 DEF InHash
  <2>2. InHash(y) => InHash(y)'
    BY <1>3, Zenon DEF InHash
  <2>3. 1 \in DOMAIN hash'
    BY <1>1
  <2>4. InHash(x)'
    BY <1>1, <2>3, Zenon DEF InHash
  <2>. QED  BY <2>1, <2>2, <2>4, Zenon
<1>9. QED
  BY <1>1, <1>7, <1>8, Zenon

\* _out_hash takes one entry out and keeps the order of the others.
LEMMA OutOrder ==
    ASSUME hash \in Seq(Infos), OrderInv, NEW x \in Infos, InHash(x), _out_hash(x),
           \A y \in Infos \ {x} : info'[y].addr = info[y].addr,
           \A t \in Threads : Moved(t) /\ th[t].info # x => Moved(t)' /\ th'[t].info = th[t].info
    PROVE  /\ hash' \in Seq(Infos)
           /\ OrderInv'
           /\ \A y \in Infos : InHash(y)' <=> InHash(y) /\ y # x
<1> DEFINE p == CHOOSE k \in DOMAIN hash : hash[k] = x
           Up(j) == IF j < p THEN j ELSE j + 1
<1>1. p \in DOMAIN hash /\ hash[p] = x
  BY Zenon DEF InHash
<1>2. Len(hash) \in Nat /\ DOMAIN hash = 1..Len(hash) /\ \A k \in DOMAIN hash : hash[k] \in Infos
  OBVIOUS
<1>3. hash' = [j \in 1..(Len(hash) - 1) |-> hash[Up(j)]]
  BY Zenon DEF _out_hash
<1> HIDE DEF p
<1>4. \A j \in 1..(Len(hash) - 1) : Up(j) \in DOMAIN hash /\ Up(j) # p
  BY <1>1, <1>2
<1>5. Len(hash) - 1 \in Nat /\ hash' \in [1..(Len(hash) - 1) -> Infos]
  BY <1>1, <1>2, <1>3, <1>4
<1>6. hash' \in Seq(Infos) /\ DOMAIN hash' = 1..(Len(hash) - 1)
  BY <1>5
<1>7. \A j \in DOMAIN hash' : Up(j) \in DOMAIN hash /\ Up(j) # p /\ hash'[j] = hash[Up(j)] /\ hash'[j] # x
  BY <1>1, <1>3, <1>4, <1>6, Zenon DEF OrderInv
<1>8. \A j, k \in DOMAIN hash' : (Up(j) = Up(k) => j = k) /\ (Up(j) < Up(k) => j < k)
  BY <1>1, <1>2, <1>6
<1>9. \A k \in DOMAIN hash : k # p => \E j \in DOMAIN hash' : Up(j) = k
  <2> SUFFICES ASSUME NEW k \in DOMAIN hash, k # p  PROVE \E j \in DOMAIN hash' : Up(j) = k
    BY Zenon
  <2>1. CASE k < p
    BY <1>1, <1>2, <1>6, <2>1
  <2>2. CASE k > p
    <3>1. k - 1 \in DOMAIN hash' /\ Up(k - 1) = k
      BY <1>1, <1>2, <1>6, <2>2
    <3>. QED  BY <3>1, Zenon
  <2>. QED  BY <1>1, <1>2, <2>1, <2>2
<1> HIDE DEF Up
<1>10. \A j, k \in DOMAIN hash' : hash'[j] = hash'[k] => j = k
  BY <1>7, <1>8, Zenon DEF OrderInv
<1>11. ASSUME NEW j \in DOMAIN hash', NEW k \in DOMAIN hash', j # k,
              info'[hash'[j]].addr = info'[hash'[k]].addr,
              \A t \in Threads : Moved(t)' => th'[t].info # hash'[j]
       PROVE  j < k
  <2>1. hash'[j] \in Infos \ {x} /\ hash'[k] \in Infos \ {x}
    BY <1>5, <1>6, <1>7, Zenon
  <2>2. info[hash[Up(j)]].addr = info[hash[Up(k)]].addr /\ Up(j) # Up(k)
    BY <1>7, <1>8, <1>11, <2>1, Zenon
  <2>3. \A t \in Threads : Moved(t) => th[t].info # hash[Up(j)]
    BY <1>7, <1>11, <2>1, Zenon
  <2>4. Up(j) < Up(k)
    BY <1>7, <2>2, <2>3, Zenon DEF OrderInv
  <2>. QED  BY <1>8, <2>4, Zenon
<1>12. OrderInv'
  BY <1>10, <1>11, Zenon DEF OrderInv
<1>13. ASSUME NEW y \in Infos  PROVE InHash(y)' <=> InHash(y) /\ y # x
  <2>1. InHash(y)' => InHash(y) /\ y # x
    BY <1>7, Zenon DEF InHash
  <2>2. InHash(y) /\ y # x => InHash(y)'
    BY <1>1, <1>7, <1>9 DEF InHash
  <2>. QED  BY <2>1, <2>2, Zenon
<1>14. QED
  BY <1>6, <1>12, <1>13, Zenon

\* While the hash stays as it is, more entries may be those of moved blocks.
LEMMA SameOrder ==
    ASSUME OrderInv, hash' = hash,
           \A k \in DOMAIN hash : info'[hash[k]].addr = info[hash[k]].addr,
           \A t \in Threads : Moved(t) => Moved(t)' /\ th'[t].info = th[t].info
    PROVE  OrderInv' /\ \A y \in Infos : InHash(y)' <=> InHash(y)
<1>1. \A y \in Infos : InHash(y)' <=> InHash(y)
  BY Zenon DEF InHash
<1>2. OrderInv'
  BY DEF OrderInv
<1>3. QED
  BY <1>1, <1>2, Zenon

\* A search finds the entry of an address that is not the old one of a moved
\* block.
LEMMA FindsEntry ==
    ASSUME hash \in Seq(Infos), OrderInv, NEW x \in Infos, InHash(x),
           \A t \in Threads : Moved(t) => th[t].info # x
    PROVE  _find_hash(info[x].addr) = x
<1> DEFINE a == info[x].addr
           hits == {k \in DOMAIN hash : info[hash[k]].addr = a}
<1>1. PICK p \in DOMAIN hash : hash[p] = x
  BY Zenon DEF InHash
<1>2. DOMAIN hash = 1..Len(hash) /\ Len(hash) \in Nat
  OBVIOUS
<1>3. p \in hits /\ \A k \in hits : p <= k
  BY <1>1, <1>2 DEF OrderInv
<1>4. hits \subseteq Int
  BY <1>2
<1> HIDE DEF hits
<1>5. Min(hits) = p
  BY <1>3, <1>4 DEF Min
<1>6. _find_hash(a) = hash[p]
  BY <1>3, <1>5, Zenon DEF _find_hash, hits
<1>7. QED
  BY <1>1, <1>6, Zenon

-----------------------------------------------------------------------------
(* What an entry adds to total_mem_size. *)

\* What entry x adds to total_mem_size is n.
Charge(x, n) == \A k \in Nat \ {0} : <<x, k>> \in Bytes <=> k <= n

\* What a busy thread's entry adds.
LEMMA ChargeBusy ==
    ASSUME Apart, NEW t \in Threads, Busy(t), th[t].info \in Infos, Counted(t) \in Nat
    PROVE  Charge(th[t].info, Counted(t))
<1>1. \A u \in Threads : th[u].info = th[t].info => u = t
  BY Zenon DEF Apart, Busy
<1>2. ~Standing(th[t].info)
  BY Zenon DEF Standing
<1>3. QED
  BY <1>1, <1>2, Zenon DEF Charge, Bytes

\* The same after a step.
LEMMA ChargeBusyNext ==
    ASSUME Apart', NEW t \in Threads, Busy(t)', th'[t].info \in Infos, NEW n \in Nat, Counted(t)' = n
    PROVE  \A x \in Infos : x = th'[t].info => Charge(x, n)'
<1> SUFFICES ASSUME NEW x \in Infos, x = th'[t].info  PROVE Charge(x, n)'
  BY Zenon
<1>1. \A u \in Threads : th'[u].info = x => u = t
  BY Zenon DEF Apart, Busy
<1>2. ~Standing(x)'
  BY Zenon DEF Standing
<1>3. QED
  BY <1>1, <1>2, Zenon DEF Charge, Bytes

\* What the entry of a caller's block adds.
LEMMA ChargeStanding ==
    ASSUME NEW x \in Infos, Standing(x)
    PROVE  Charge(x, info[x].size)
BY Zenon DEF Charge, Bytes, Standing

\* An unused entry adds nothing.
LEMMA ChargeUnused ==
    ASSUME NEW x \in Infos, info[x].addr = NoAddr, \A t \in Threads : th[t].info # x
    PROVE  Charge(x, 0)
<1>1. ~Standing(x)
  BY Zenon DEF Standing
<1>2. \A k \in Nat \ {0} : ~(k <= 0)
  OBVIOUS
<1>3. QED
  BY <1>1, <1>2, Zenon DEF Charge, Bytes

\* The same after a step.
LEMMA ChargeStandingNext ==
    ASSUME NEW x \in Infos, Standing(x)', NEW n \in Nat, info'[x].size = n
    PROVE  Charge(x, n)'
BY Zenon DEF Charge, Bytes, Standing

\* The same after a step.
LEMMA ChargeUnusedNext ==
    ASSUME NEW x \in Infos, info'[x].addr = NoAddr, \A t \in Threads : th'[t].info # x
    PROVE  Charge(x, 0)'
<1>1. ~Standing(x)'
  BY Zenon DEF Standing
<1>2. \A k \in Nat \ {0} : ~(k <= 0)
  OBVIOUS
<1>3. QED
  BY <1>1, <1>2, Zenon DEF Charge, Bytes

\* A step changes total_mem_size by as much as the bytes of one entry x.
Booked == \E x \in Infos, m, n \in Nat :
             /\ Charge(x, m) /\ Charge(x, n)'
             /\ \A y \in Infos \ {x}, k \in Nat \ {0} : <<y, k>> \in Bytes' <=> <<y, k>> \in Bytes
             /\ total_mem_size' = total_mem_size - m + n

\* The change is booked if the bytes of one entry x, and no others, go from m to n.
LEMMA Books ==
    ASSUME Shape, NEW x \in Infos, NEW m \in Nat, NEW n \in Nat, Charge(x, m), Charge(x, n)',
           \A y \in Infos \ {x}, k \in Nat \ {0} : <<y, k>> \in Bytes' <=> <<y, k>> \in Bytes,
           total_mem_size' = total_mem_size - m + n
    PROVE  Booked /\ total_mem_size' \in Int
<1>1. total_mem_size \in Int
  BY Zenon DEF Shape
<1>2. total_mem_size' \in Int
  BY <1>1
<1>3. Booked
  BY Zenon DEF Booked
<1>. QED  BY <1>2, <1>3, Zenon

\* A thread that is at another control point than "idle" is not idle.
LEMMA NotIdle ==
    ASSUME NEW u, u.pc # "idle"
    PROVE  u # Idle
  BY DEF Idle

-----------------------------------------------------------------------------
(* A step of thread t touches at most one entry x. *)

Frame(t, x) ==
    /\ \A u \in Threads \ {t} : th'[u] = th[u]
    /\ \A y \in Infos \ {x} : info'[y] = info[y]
    /\ th[t].info \in {x, NoInfo} /\ th'[t].info \in {x, NoInfo}

\* The other entries stay where they are and add what they added.
LEMMA FrameBytes ==
    ASSUME MemAssumption, NEW t \in Threads, NEW x \in Infos, Frame(t, x)
    PROVE  /\ \A y \in Infos \ {x} : Standing(y)' <=> Standing(y)
           /\ \A y \in Infos \ {x}, k \in Nat \ {0} : <<y, k>> \in Bytes' <=> <<y, k>> \in Bytes
<1>1. \A y \in Infos \ {x} : Standing(y)' <=> Standing(y)
  BY DEF Frame, Standing, MemAssumption
<1>2. ASSUME NEW y \in Infos \ {x}, NEW k \in Nat \ {0}
      PROVE  <<y, k>> \in Bytes' <=> <<y, k>> \in Bytes
  <2>1. \A u \in Threads : th[u].info = y \/ th'[u].info = y => u # t
    BY DEF Frame, MemAssumption
  <2>2. \A u \in Threads : th'[u].info = y <=> th[u].info = y
    BY <2>1, Zenon DEF Frame
  <2>3. \A u \in Threads : th[u].info = y => Counted(u)' = Counted(u)
    <3> SUFFICES ASSUME NEW u \in Threads, th[u].info = y  PROVE Counted(u)' = Counted(u)
      BY Zenon
    <3>1. th'[u] = th[u] /\ info'[th[u].info] = info[th[u].info]
      BY <2>1, Zenon DEF Frame
    <3>. QED  BY <3>1, Zenon DEF Counted
  <2>. QED  BY <1>1, <2>2, <2>3 DEF Bytes, Frame
<1>3. QED
  BY <1>1, <1>2, Zenon

\* Another thread's knowledge survives while its block and entry do.
LEMMA FrameLocal ==
    ASSUME NEW t \in Threads, NEW x \in Infos, Frame(t, x),
           NEW u \in Threads \ {t}, LocalInv(u),
           Busy(u) => /\ th[u].info \in Infos \ {x}
                      /\ Hold(u) \in heap' /\ live'[Hold(u)] = 0
                      /\ InHash(th[u].info)' <=> InHash(th[u].info)
    PROVE  LocalInv(u)' /\ (Busy(u)' <=> Busy(u)) /\ Hold(u)' = Hold(u) /\ (Moved(u)' <=> Moved(u))
<1>1. th'[u] = th[u]
  BY Zenon DEF Frame
<1>2. Hold(u)' = Hold(u) /\ (Busy(u)' <=> Busy(u)) /\ (Moved(u)' <=> Moved(u))
  BY <1>1, Zenon DEF Hold, Busy, Moved
<1>3. CASE ~Busy(u)
  BY <1>1, <1>2, <1>3, Zenon DEF LocalInv
<1>4. CASE Busy(u)
  <2>1. info'[th[u].info] = info[th[u].info]
    BY <1>4, Zenon DEF Frame
  <2>. QED  BY <1>1, <1>2, <1>4, <2>1 DEF LocalInv
<1>5. QED
  BY <1>2, <1>3, <1>4, Zenon

-----------------------------------------------------------------------------
(* What a step does to the blocks and entries of the others, by what happens *)
(* to the block of the thread that takes it.                                 *)

\* Two entries of blocks that callers hold have two addresses.
LEMMA StandingApart ==
    ASSUME BInv, NEW x \in Infos, NEW y \in Infos, Standing(x), Standing(y), info[x].addr = info[y].addr
    PROVE  x = y
<1>1. PICK j \in DOMAIN hash : hash[j] = x
  BY Zenon DEF BInv, EntryInv, InHash
<1>2. PICK k \in DOMAIN hash : hash[k] = y
  BY Zenon DEF BInv, EntryInv, InHash
<1>3. j \in Int /\ k \in Int
  BY DEF BInv, Shape
<1>4. j # k => j < k /\ k < j
  BY <1>1, <1>2, Zenon DEF BInv, OrderInv, Standing
<1>5. QED
  BY <1>1, <1>2, <1>3, <1>4

\* A busy thread's entry is an entry, and no caller's block is its block.
LEMMA BusyFacts ==
    ASSUME MemAssumption, BInv, NEW t \in Threads
    PROVE  /\ Busy(t) => /\ th[t].info \in Infos /\ Hold(t) \in heap /\ Hold(t) \in Addrs
                         /\ live[Hold(t)] = 0 /\ info[th[t].info].addr \in Addrs
                         /\ info[th[t].info].addr # NoAddr
           /\ ~Busy(t) => th[t].info = NoInfo /\ th[t] = Idle /\ th[t].info \notin Infos
BY Zenon DEF BInv, Shape, BlockInv, LocalInv, Busy, MemAssumption

\* Thread t keeps its block.
LEMMA KeepsBlock ==
    ASSUME MemAssumption, BInv, NEW t \in Threads, NEW x \in Infos, Frame(t, x),
           \A y \in Infos \ {x} : InHash(y)' <=> InHash(y),
           th[t].info = x, th'[t].info = x, Hold(t)' = Hold(t),
           heap' = heap, live' = live, info'[x].addr \in Addrs
    PROVE  /\ Apart' /\ EntryInv' /\ BlockInv'
           /\ \A u \in Threads \ {t} : LocalInv(u)'
<1>1. Busy(t) /\ Busy(t)'
  BY Zenon DEF Busy, MemAssumption
<1>2. \A u \in Threads \ {t} : Busy(u) => th[u].info \in Infos \ {x} /\ Hold(u) # Hold(t)
  BY <1>1, BusyFacts, Zenon DEF BInv, Apart
<1>3. \A u \in Threads \ {t} : LocalInv(u)' /\ (Busy(u)' <=> Busy(u)) /\ Hold(u)' = Hold(u)
  <2> SUFFICES ASSUME NEW u \in Threads \ {t}
               PROVE  LocalInv(u)' /\ (Busy(u)' <=> Busy(u)) /\ Hold(u)' = Hold(u)
    BY Zenon
  <2>1. LocalInv(u)
    BY Zenon DEF BInv
  <2>2. Busy(u) => /\ th[u].info \in Infos \ {x}
                   /\ Hold(u) \in heap' /\ live'[Hold(u)] = 0
                   /\ InHash(th[u].info)' <=> InHash(th[u].info)
    BY <1>2, BusyFacts, Zenon DEF Frame
  <2>. QED  BY <2>1, <2>2, FrameLocal, Zenon
<1>4. Apart'
  BY <1>1, <1>2, <1>3 DEF Apart, Frame, BInv
<1>5. ~Standing(x)' /\ ~Standing(x) /\ info'[x].addr # NoAddr
  BY Zenon DEF Standing, MemAssumption
<1>6. \A y \in Infos \ {x} : Standing(y)' <=> Standing(y)
  BY FrameBytes, Zenon
<1>7. EntryInv'
  BY <1>5, <1>6 DEF EntryInv, BInv, Frame
<1>8. BlockInv'
  <2>1. \A a \in heap' : (\E u \in Threads : Busy(u)' /\ Hold(u)' = a) \/ live'[a] # 0
    BY <1>1, <1>3, Zenon DEF BlockInv, BInv
  <2>2. \A a \in Addrs : live'[a] # 0 => \E y \in Infos : Standing(y)' /\ info'[y].addr = a
    BY <1>5, <1>6 DEF BlockInv, BInv, Frame
  <2>3. \A u \in Threads : ~Busy(u)' \/ th'[u].info \in Infos
    BY Zenon DEF BlockInv, BInv, Frame, Busy
  <2>. QED  BY <2>1, <2>2, <2>3, Zenon DEF BlockInv
<1>9. QED
  BY <1>3, <1>4, <1>7, <1>8, Zenon

\* Thread t gets block a from the C library, with an unused entry.
LEMMA GetsBlock ==
    ASSUME MemAssumption, BInv, NEW t \in Threads, NEW x \in Infos, NEW a \in Addrs, Frame(t, x),
           \A y \in Infos : InHash(y)' <=> InHash(y),
           th[t].info = NoInfo, th'[t].info = x, Hold(t)' = a,
           a \notin heap, heap' = heap \cup {a}, live' = live,
           info[x].addr = NoAddr, info'[x].addr = a
    PROVE  /\ Apart' /\ EntryInv' /\ BlockInv'
           /\ \A u \in Threads \ {t} : LocalInv(u)'
<1>1. ~Busy(t) /\ Busy(t)'
  BY Zenon DEF Busy, MemAssumption
<1>2. \A u \in Threads : Busy(u) => u # t /\ th[u].info \in Infos \ {x} /\ Hold(u) # a
  BY <1>1, BusyFacts, Zenon
<1>3. \A u \in Threads \ {t} : LocalInv(u)' /\ (Busy(u)' <=> Busy(u)) /\ Hold(u)' = Hold(u)
  <2> SUFFICES ASSUME NEW u \in Threads \ {t}
               PROVE  LocalInv(u)' /\ (Busy(u)' <=> Busy(u)) /\ Hold(u)' = Hold(u)
    BY Zenon
  <2>1. LocalInv(u)
    BY Zenon DEF BInv
  <2>2. Busy(u) => /\ th[u].info \in Infos \ {x}
                   /\ Hold(u) \in heap' /\ live'[Hold(u)] = 0
                   /\ InHash(th[u].info)' <=> InHash(th[u].info)
    BY <1>2, BusyFacts, Zenon DEF Frame
  <2>. QED  BY <2>1, <2>2, FrameLocal, Zenon
<1>4. Apart'
  BY <1>1, <1>2, <1>3 DEF Apart, Frame, BInv
<1>5. ~Standing(x)' /\ ~Standing(x) /\ info'[x].addr # NoAddr
  BY Zenon DEF Standing, MemAssumption
<1>6. \A y \in Infos \ {x} : Standing(y)' <=> Standing(y)
  BY FrameBytes, Zenon
<1>7. EntryInv'
  BY <1>5, <1>6 DEF EntryInv, BInv, Frame
<1>8. BlockInv'
  <2>1. \A b \in heap' : (\E u \in Threads : Busy(u)' /\ Hold(u)' = b) \/ live'[b] # 0
    BY <1>1, <1>2, <1>3 DEF BlockInv, BInv
  <2>2. \A b \in Addrs : live'[b] # 0 => \E y \in Infos : Standing(y)' /\ info'[y].addr = b
    BY <1>5, <1>6 DEF BlockInv, BInv, Frame
  <2>3. \A u \in Threads : ~Busy(u)' \/ th'[u].info \in Infos
    BY DEF BlockInv, BInv, Frame, Busy
  <2>. QED  BY <2>1, <2>2, <2>3, Zenon DEF BlockInv
<1>9. QED
  BY <1>3, <1>4, <1>7, <1>8, Zenon

\* realloc moves thread t's block to b.
LEMMA MovesBlock ==
    ASSUME MemAssumption, BInv, NEW t \in Threads, NEW x \in Infos, NEW b \in Addrs, Frame(t, x),
           \A y \in Infos : InHash(y)' <=> InHash(y),
           th[t].info = x, th'[t].info = x, Hold(t)' = b,
           b \notin heap, heap' = (heap \ {Hold(t)}) \cup {b}, live' = live,
           info' = info
    PROVE  /\ Apart' /\ EntryInv' /\ BlockInv'
           /\ \A u \in Threads \ {t} : LocalInv(u)'
<1>1. Busy(t) /\ Busy(t)'
  BY Zenon DEF Busy, MemAssumption
<1>2. \A u \in Threads \ {t} : Busy(u) => /\ th[u].info \in Infos \ {x} /\ Hold(u) \in heap
                                          /\ Hold(u) # Hold(t) /\ Hold(u) # b
  BY <1>1, BusyFacts, Zenon DEF BInv, Apart
<1>3. \A u \in Threads \ {t} : LocalInv(u)' /\ (Busy(u)' <=> Busy(u)) /\ Hold(u)' = Hold(u)
  <2> SUFFICES ASSUME NEW u \in Threads \ {t}
               PROVE  LocalInv(u)' /\ (Busy(u)' <=> Busy(u)) /\ Hold(u)' = Hold(u)
    BY Zenon
  <2>1. LocalInv(u)
    BY Zenon DEF BInv
  <2>2. Busy(u) => /\ th[u].info \in Infos \ {x}
                   /\ Hold(u) \in heap' /\ live'[Hold(u)] = 0
                   /\ InHash(th[u].info)' <=> InHash(th[u].info)
    BY <1>2, BusyFacts, Zenon DEF Frame
  <2>. QED  BY <2>1, <2>2, FrameLocal, Zenon
<1>4. Apart'
  BY <1>1, <1>2, <1>3 DEF Apart, Frame, BInv
<1>5. ~Standing(x)' /\ ~Standing(x) /\ info'[x].addr # NoAddr
  BY <1>1, BusyFacts, Zenon DEF Standing, MemAssumption
<1>6. \A y \in Infos \ {x} : Standing(y)' <=> Standing(y)
  BY FrameBytes, Zenon
<1>7. live[Hold(t)] = 0
  BY <1>1, BusyFacts, Zenon
<1>8. EntryInv'
  BY <1>5, <1>6, <1>7 DEF EntryInv, BInv, Frame
<1>9. BlockInv'
  <2>1. \A a \in heap' : (\E u \in Threads : Busy(u)' /\ Hold(u)' = a) \/ live'[a] # 0
    BY <1>1, <1>2, <1>3 DEF BlockInv, BInv
  <2>2. \A a \in Addrs : live'[a] # 0 => \E y \in Infos : Standing(y)' /\ info'[y].addr = a
    BY <1>5, <1>6, Zenon DEF BlockInv, BInv, Frame
  <2>3. \A u \in Threads : ~Busy(u)' \/ th'[u].info \in Infos
    BY Zenon DEF BlockInv, BInv, Frame, Busy
  <2>. QED  BY <2>1, <2>2, <2>3, Zenon DEF BlockInv
<1>10. QED
  BY <1>3, <1>4, <1>8, <1>9, Zenon

\* Thread t takes over block a, with entry x, from its caller.
LEMMA TakesBlock ==
    ASSUME MemAssumption, BInv, NEW t \in Threads, NEW x \in Infos, Frame(t, x),
           \A y \in Infos : InHash(y)' <=> InHash(y),
           th[t].info = NoInfo, th'[t].info = x, Standing(x), Hold(t)' = info[x].addr,
           heap' = heap, live' = [live EXCEPT ![info[x].addr] = 0], info' = info
    PROVE  /\ Apart' /\ EntryInv' /\ BlockInv'
           /\ \A u \in Threads \ {t} : LocalInv(u)'
<1> DEFINE a == info[x].addr
<1>1. ~Busy(t) /\ Busy(t)'
  BY Zenon DEF Busy, MemAssumption
<1>2. a \in heap /\ a \in Addrs /\ live[a] # 0 /\ live'[a] = 0 /\ a # NoAddr
  BY DEF BInv, Shape, EntryInv, Standing
<1>3. \A b \in Addrs \ {a} : live'[b] = live[b]
  BY Zenon DEF BInv, Shape
<1> HIDE DEF a
<1>4. \A u \in Threads : Busy(u) => u # t /\ th[u].info \in Infos \ {x} /\ Hold(u) # a
  BY <1>1, <1>2, BusyFacts, Zenon DEF Standing
<1>5. \A u \in Threads \ {t} : LocalInv(u)' /\ (Busy(u)' <=> Busy(u)) /\ Hold(u)' = Hold(u)
  <2> SUFFICES ASSUME NEW u \in Threads \ {t}
               PROVE  LocalInv(u)' /\ (Busy(u)' <=> Busy(u)) /\ Hold(u)' = Hold(u)
    BY Zenon
  <2>1. LocalInv(u)
    BY Zenon DEF BInv
  <2>2. Busy(u) => /\ th[u].info \in Infos \ {x}
                   /\ Hold(u) \in heap' /\ live'[Hold(u)] = 0
                   /\ InHash(th[u].info)' <=> InHash(th[u].info)
    BY <1>3, <1>4, BusyFacts DEF Frame
  <2>. QED  BY <2>1, <2>2, FrameLocal, Zenon
<1>6. Apart'
  BY <1>1, <1>4, <1>5 DEF Apart, Frame, BInv, a
<1>7. ~Standing(x)' /\ info'[x].addr # NoAddr
  BY <1>2, Zenon DEF Standing, a
<1>8. \A y \in Infos \ {x} : Standing(y)' <=> Standing(y)
  BY FrameBytes, Zenon
<1>9. \A y \in Infos \ {x} : Standing(y) => info[y].addr \in Addrs \ {a}
  BY StandingApart, Zenon DEF BInv, Shape, EntryInv, a
<1>10. EntryInv'
  BY <1>3, <1>7, <1>8, <1>9 DEF EntryInv, BInv, Frame
<1>11. BlockInv'
  <2>1. \A b \in heap' : (\E u \in Threads : Busy(u)' /\ Hold(u)' = b) \/ live'[b] # 0
    BY <1>1, <1>3, <1>4, <1>5 DEF BlockInv, BInv, Shape, a
  <2>2. \A b \in Addrs : live'[b] # 0 => \E y \in Infos : Standing(y)' /\ info'[y].addr = b
    BY <1>2, <1>3, <1>7, <1>8 DEF BlockInv, BInv, Frame, a
  <2>3. \A u \in Threads : ~Busy(u)' \/ th'[u].info \in Infos
    BY DEF BlockInv, BInv, Frame, Busy
  <2>. QED  BY <2>1, <2>2, <2>3, Zenon DEF BlockInv
<1>12. QED
  BY <1>5, <1>6, <1>10, <1>11, Zenon

\* Thread t hands its block to its caller.
LEMMA GivesBlock ==
    ASSUME MemAssumption, BInv, NEW t \in Threads, NEW x \in Infos, NEW n \in Nat \ {0}, Frame(t, x),
           \A y \in Infos \ {x} : InHash(y)' <=> InHash(y), InHash(x)',
           th[t].info = x, th'[t].info = NoInfo,
           heap' = heap, live' = [live EXCEPT ![Hold(t)] = n],
           info'[x].addr = Hold(t), info'[x].size = n
    PROVE  /\ Apart' /\ EntryInv' /\ BlockInv'
           /\ \A u \in Threads \ {t} : LocalInv(u)'
<1> DEFINE a == Hold(t)
<1>1. Busy(t) /\ ~Busy(t)'
  BY Zenon DEF Busy, MemAssumption
<1>2. a \in heap /\ a \in Addrs /\ live[a] = 0 /\ a # NoAddr
  BY <1>1, BusyFacts, Zenon DEF MemAssumption
<1>3. live'[a] = n /\ \A b \in Addrs \ {a} : live'[b] = live[b]
  BY <1>2, Zenon DEF BInv, Shape
<1> HIDE DEF a
<1>4. \A u \in Threads \ {t} : Busy(u) => th[u].info \in Infos \ {x} /\ Hold(u) \in Addrs \ {a}
  BY <1>1, <1>2, BusyFacts, Zenon DEF BInv, Apart, a
<1>5. \A u \in Threads \ {t} : LocalInv(u)' /\ (Busy(u)' <=> Busy(u)) /\ Hold(u)' = Hold(u)
  <2> SUFFICES ASSUME NEW u \in Threads \ {t}
               PROVE  LocalInv(u)' /\ (Busy(u)' <=> Busy(u)) /\ Hold(u)' = Hold(u)
    BY Zenon
  <2>1. LocalInv(u)
    BY Zenon DEF BInv
  <2>2. Busy(u) => /\ th[u].info \in Infos \ {x}
                   /\ Hold(u) \in heap' /\ live'[Hold(u)] = 0
                   /\ InHash(th[u].info)' <=> InHash(th[u].info)
    BY <1>3, <1>4, BusyFacts, Zenon DEF Frame
  <2>. QED  BY <2>1, <2>2, FrameLocal, Zenon
<1>6. Apart'
  BY <1>1, <1>4, <1>5 DEF Apart, Frame, BInv
<1>7. Standing(x)' /\ ~Standing(x) /\ info'[x].addr # NoAddr
  <2>1. \A u \in Threads \ {t} : th'[u].info # x
    BY <1>4, ZenonT(30) DEF Frame, Busy, MemAssumption
  <2>2. th'[t].info # x
    BY Zenon DEF MemAssumption
  <2>. QED  BY <1>2, <2>1, <2>2, Zenon DEF Standing, a
<1>8. \A y \in Infos \ {x} : Standing(y)' <=> Standing(y)
  BY FrameBytes, Zenon
<1>9. \A y \in Infos \ {x} : Standing(y) => info[y].addr \in Addrs \ {a}
  BY <1>2, Zenon DEF BInv, Shape, EntryInv
<1>10. EntryInv'
  BY <1>2, <1>3, <1>7, <1>8, <1>9 DEF EntryInv, BInv, Frame, a
<1>11. BlockInv'
  <2>1. \A b \in heap' : (\E u \in Threads : Busy(u)' /\ Hold(u)' = b) \/ live'[b] # 0
    <3> SUFFICES ASSUME NEW b \in heap, b # a
                 PROVE  (\E u \in Threads : Busy(u)' /\ Hold(u)' = b) \/ live'[b] # 0
      BY <1>3, Zenon
    <3>1. (\E u \in Threads : Busy(u) /\ Hold(u) = b) \/ live[b] # 0
      BY Zenon DEF BlockInv, BInv
    <3>. QED  BY <1>3, <1>5, <3>1, ZenonT(30) DEF BInv, Shape, a
  <2>2. \A b \in Addrs : live'[b] # 0 => \E y \in Infos : Standing(y)' /\ info'[y].addr = b
    <3> SUFFICES ASSUME NEW b \in Addrs, live'[b] # 0
                 PROVE  \E y \in Infos : Standing(y)' /\ info'[y].addr = b
      BY Zenon
    <3>1. CASE b = a
      BY <1>7, <3>1, Zenon DEF a
    <3>2. CASE b # a
      BY <1>3, <1>7, <1>8, <3>2 DEF BlockInv, BInv, Frame
    <3>. QED  BY <3>1, <3>2, Zenon
  <2>3. \A u \in Threads : ~Busy(u)' \/ th'[u].info \in Infos
    BY DEF BlockInv, BInv, Frame, Busy
  <2>. QED  BY <2>1, <2>2, <2>3, Zenon DEF BlockInv
<1>12. QED
  BY <1>5, <1>6, <1>10, <1>11, Zenon

\* Thread t gives its block and its entry back to the C library.
LEMMA DropsBlock ==
    ASSUME MemAssumption, BInv, NEW t \in Threads, NEW x \in Infos, Frame(t, x),
           \A y \in Infos : InHash(y)' <=> InHash(y), ~InHash(x),
           th[t].info = x, th'[t].info = NoInfo,
           heap' = heap \ {Hold(t)}, live' = live,
           info'[x].addr = NoAddr, info'[x].size = 0
    PROVE  /\ Apart' /\ EntryInv' /\ BlockInv'
           /\ \A u \in Threads \ {t} : LocalInv(u)'
<1>1. Busy(t) /\ ~Busy(t)'
  BY Zenon DEF Busy, MemAssumption
<1>2. live[Hold(t)] = 0
  BY <1>1, BusyFacts, Zenon
<1>3. \A u \in Threads \ {t} : Busy(u) => th[u].info \in Infos \ {x} /\ Hold(u) \in heap /\ Hold(u) # Hold(t)
  BY <1>1, BusyFacts, Zenon DEF BInv, Apart
<1>4. \A u \in Threads \ {t} : LocalInv(u)' /\ (Busy(u)' <=> Busy(u)) /\ Hold(u)' = Hold(u)
  <2> SUFFICES ASSUME NEW u \in Threads \ {t}
               PROVE  LocalInv(u)' /\ (Busy(u)' <=> Busy(u)) /\ Hold(u)' = Hold(u)
    BY Zenon
  <2>1. LocalInv(u)
    BY Zenon DEF BInv
  <2>2. Busy(u) => /\ th[u].info \in Infos \ {x}
                   /\ Hold(u) \in heap' /\ live'[Hold(u)] = 0
                   /\ InHash(th[u].info)' <=> InHash(th[u].info)
    BY <1>3, BusyFacts, Zenon DEF Frame
  <2>. QED  BY <2>1, <2>2, FrameLocal, Zenon
<1>5. Apart'
  BY <1>1, <1>3, <1>4 DEF Apart, Frame, BInv
<1>6. ~Standing(x)' /\ ~Standing(x)
  BY Zenon DEF Standing
<1>7. \A y \in Infos \ {x} : Standing(y)' <=> Standing(y)
  BY FrameBytes, Zenon
<1>8. EntryInv'
  BY <1>2, <1>6, <1>7 DEF EntryInv, BInv, Frame
<1>9. BlockInv'
  <2>1. \A a \in heap' : (\E u \in Threads : Busy(u)' /\ Hold(u)' = a) \/ live'[a] # 0
    BY <1>4 DEF BlockInv, BInv
  <2>2. \A a \in Addrs : live'[a] # 0 => \E y \in Infos : Standing(y)' /\ info'[y].addr = a
    BY <1>6, <1>7 DEF BlockInv, BInv, Frame
  <2>3. \A u \in Threads : ~Busy(u)' \/ th'[u].info \in Infos
    BY DEF BlockInv, BInv, Frame, Busy
  <2>. QED  BY <2>1, <2>2, <2>3, Zenon DEF BlockInv
<1>10. QED
  BY <1>4, <1>5, <1>8, <1>9, Zenon

-----------------------------------------------------------------------------
(* What a step does to the locals of the thread that takes it. *)

\* A step to the next control point leaves the locals alone.
LEMMA GotoFacts ==
    ASSUME Shape, NEW t \in Threads, NEW from, NEW to \in PCs, Goto(t, from, to)
    PROVE  /\ th[t].pc = from /\ th' \in [Threads -> Locals]
           /\ th'[t].pc = to /\ th'[t].ptr = th[t].ptr /\ th'[t].addr = th[t].addr
           /\ th'[t].size = th[t].size /\ th'[t].info = th[t].info
           /\ \A u \in Threads \ {t} : th'[u] = th[u]
BY Zenon DEF Shape, Goto, Locals

\* A search that found entry x starts an operation on block a.
LEMMA BeginFacts ==
    ASSUME MemAssumption, Shape, NEW t \in Threads, NEW a \in Addrs, NEW n \in Nat,
           NEW x \in Infos, NEW first \in PCs, Begin(t, a, n, x, first)
    PROVE  /\ th' \in [Threads -> Locals]
           /\ th'[t].pc = first /\ th'[t].ptr = a /\ th'[t].addr = NoAddr
           /\ th'[t].size = n /\ th'[t].info = x
           /\ \A u \in Threads \ {t} : th'[u] = th[u]
BY Zenon DEF Shape, Begin, Locals, Idle, MemAssumption

\* A finished operation leaves nothing behind in the locals.
LEMMA IdleFacts ==
    ASSUME MemAssumption, Shape, NEW t \in Threads, th' = [th EXCEPT ![t] = Idle]
    PROVE  /\ th' \in [Threads -> Locals]
           /\ th'[t] = Idle /\ th'[t].info = NoInfo /\ th'[t].pc = "idle"
           /\ \A u \in Threads \ {t} : th'[u] = th[u]
           /\ LocalInv(t)'
<1>1. /\ th' \in [Threads -> Locals]
      /\ th'[t] = Idle /\ th'[t].info = NoInfo /\ th'[t].pc = "idle"
      /\ \A u \in Threads \ {t} : th'[u] = th[u]
  BY Zenon DEF Shape, Locals, Idle, PCs
<1>2. QED
  BY <1>1, Zenon DEF LocalInv, Busy

\* What a busy thread's entry adds to total_mem_size is a number.
LEMMA CountedType ==
    ASSUME MemAssumption, BInv, NEW t \in Threads, Busy(t)
    PROVE  Counted(t) \in Nat /\ info[th[t].info].size \in Nat /\ th[t].size \in Nat
<1>1. th[t].info \in Infos /\ th[t].pc \in PCs \ {"idle", "unknown"} /\ th[t].size \in Nat
  BY DEF BInv, Shape, Locals, LocalInv, Busy
<1>2. info[th[t].info].size \in Nat
  BY <1>1, Zenon DEF BInv, Shape
<1>3. QED
  BY <1>1, <1>2, Zenon DEF Counted, PCs

-----------------------------------------------------------------------------
(* The steps of _malloc. *)

\* malloc hands out a block and an unused entry, which is not in the hash yet.
LEMMA MallocCallStep ==
    ASSUME MemAssumption, BInv, NEW t \in Threads, NEW a \in Addrs, NEW x \in Infos, NEW n \in Sizes,
           malloc_call(t, a, x, n)
    PROVE  BInv' /\ Booked
<1>1. /\ th[t].pc = "idle" /\ a \notin heap /\ info[x].addr = NoAddr /\ heap' = heap \cup {a}
      /\ hash' = hash /\ total_mem_size' = total_mem_size /\ live' = live
      /\ n \in Nat \ {0}
  BY Zenon DEF malloc_call, Unused, MemAssumption
<1>2. ~Busy(t) /\ th[t].info = NoInfo
  BY <1>1, BusyFacts, Zenon DEF BInv, LocalInv
<1>3. /\ th' \in [Threads -> Locals]
      /\ th'[t].pc = "m_size" /\ th'[t].addr = a /\ th'[t].ptr = NoAddr /\ th'[t].size = n /\ th'[t].info = x
      /\ \A u \in Threads \ {t} : th'[u] = th[u]
  BY <1>1, Zenon DEF BInv, Shape, malloc_call, Idle, Locals, PCs
<1>4. /\ info' \in [Infos -> [addr : Addrs \cup {NoAddr}, size : Nat]]
      /\ info'[x].addr = a /\ info'[x].size = n /\ \A y \in Infos \ {x} : info'[y] = info[y]
  BY <1>1, Zenon DEF BInv, Shape, malloc_call
<1>5. Frame(t, x)
  BY <1>2, <1>3, <1>4, Zenon DEF Frame
<1>6. ~InHash(x)
  BY <1>1, Zenon DEF BInv, EntryInv
<1>7. OrderInv' /\ \A y \in Infos : InHash(y)' <=> InHash(y)
  <2>1. \A k \in DOMAIN hash : info'[hash[k]].addr = info[hash[k]].addr
    BY <1>4, <1>6 DEF BInv, Shape, InHash
  <2>2. \A u \in Threads : Moved(u) => Moved(u)' /\ th'[u].info = th[u].info
    BY <1>1, <1>3, Zenon DEF Moved
  <2>. QED  BY <1>1, <2>1, <2>2, SameOrder, Zenon DEF BInv
<1>8. Hold(t)' = a
  BY <1>3, Zenon DEF Hold
<1>9. Apart' /\ EntryInv' /\ BlockInv' /\ \A u \in Threads \ {t} : LocalInv(u)'
  BY <1>1, <1>2, <1>3, <1>4, <1>5, <1>7, <1>8, GetsBlock, Zenon
<1>10. Busy(t)' /\ ~Moved(t)'
  BY <1>3, Zenon DEF Busy, Moved, MemAssumption
<1>11. live[a] = 0
  BY <1>1 DEF BInv, BlockInv, EntryInv
<1>12. LocalInv(t)'
  <2>1. th'[t].pc = "m_size" /\ th'[t] # Idle /\ n # 0
    BY <1>1, <1>3, NotIdle, Zenon
  <2>2. a \in heap' /\ live'[a] = 0 /\ ~InHash(x)'
    BY <1>1, <1>6, <1>7, <1>11, Zenon
  <2>. QED  BY <1>3, <1>4, <1>8, <1>10, <2>1, <2>2, ZenonT(30) DEF LocalInv
<1>13. Booked /\ total_mem_size' \in Int
  <2>1. \A u \in Threads : th[u].info # x
    BY <1>1, BusyFacts, Zenon DEF Busy, MemAssumption
  <2>2. Charge(x, 0)
    BY <1>1, <2>1, ChargeUnused, Zenon
  <2>3. Counted(t)' = 0
    BY <1>3, Zenon DEF Counted
  <2>4. Charge(x, 0)'
    BY <1>3, <1>9, <1>10, <2>3, ChargeBusyNext
  <2>. QED
    <3>1. total_mem_size' = total_mem_size - 0 + 0
      BY <1>1 DEF BInv, Shape
    <3>2. \A y \in Infos \ {x}, k \in Nat \ {0} : <<y, k>> \in Bytes' <=> <<y, k>> \in Bytes
      BY <1>5, FrameBytes, Zenon
    <3>. QED  BY <2>2, <2>4, <3>1, <3>2, Books, ZenonT(30) DEF BInv
<1>14. Shape'
  BY <1>1, <1>3, <1>4, <1>13, Zenon DEF BInv, Shape
<1>15. QED
  BY <1>7, <1>9, <1>12, <1>13, <1>14, Zenon DEF BInv

\* A step that only changes total_mem_size, and moves thread t on: its block,
\* its entry and the hash stay as they are.
LEMMA SizeStep ==
    ASSUME MemAssumption, BInv, NEW t \in Threads, NEW from, NEW to \in PCs \ {"idle"}, Goto(t, from, to),
           Busy(t), heap' = heap, info' = info, hash' = hash, live' = live,
           Hold(t)' = Hold(t), Moved(t)' <=> Moved(t), LocalInv(t)',
           Counted(t)' \in Nat, total_mem_size' = total_mem_size - Counted(t) + Counted(t)'
    PROVE  BInv' /\ Booked
<1>1. PICK x \in Infos : th[t].info = x /\ info[x].addr \in Addrs
  BY BusyFacts, Zenon
<1>2. /\ th' \in [Threads -> Locals]
      /\ th'[t].info = x
      /\ \A u \in Threads \ {t} : th'[u] = th[u]
  BY <1>1, GotoFacts, Zenon DEF BInv
<1>3. Frame(t, x)
  BY <1>1, <1>2, Zenon DEF Frame
<1>4. OrderInv' /\ \A y \in Infos : InHash(y)' <=> InHash(y)
  <2>1. \A u \in Threads : Moved(u) => Moved(u)' /\ th'[u].info = th[u].info
    BY <1>1, <1>2, Zenon DEF Moved
  <2>. QED  BY <2>1, SameOrder, Zenon DEF BInv
<1>5. Apart' /\ EntryInv' /\ BlockInv' /\ \A u \in Threads \ {t} : LocalInv(u)'
  BY <1>1, <1>2, <1>3, <1>4, KeepsBlock, Zenon
<1>6. Booked /\ total_mem_size' \in Int
  <2>1. PICK m \in Nat : m = Counted(t)
    BY CountedType, Zenon
  <2>2. PICK n \in Nat : n = Counted(t)'
    BY Zenon
  <2>3. Charge(x, m)
    BY <1>1, <2>1, ChargeBusy, Zenon DEF BInv
  <2>4. Busy(t)'
    BY <1>2, Zenon DEF Busy, MemAssumption
  <2>5. Charge(x, n)'
    BY <1>2, <1>5, <2>2, <2>4, ChargeBusyNext, Zenon
  <2>6. \A y \in Infos \ {x}, k \in Nat \ {0} : <<y, k>> \in Bytes' <=> <<y, k>> \in Bytes
    BY <1>3, FrameBytes, Zenon
  <2>. QED
    BY <2>1, <2>2, <2>3, <2>5, <2>6, Books, ZenonT(30) DEF BInv
<1>7. Shape'
  BY <1>2, <1>6, Zenon DEF BInv, Shape
<1>8. QED
  BY <1>4, <1>5, <1>6, <1>7, Zenon DEF BInv

\* A step that takes thread t's entry out of the hash: everything but what
\* thread t knows afterwards.
LEMMA OutStep ==
    ASSUME MemAssumption, BInv, NEW t \in Threads, NEW x \in Infos, Frame(t, x),
           th[t].info = x, th'[t].info = x, th' \in [Threads -> Locals],
           info' \in [Infos -> [addr : Addrs \cup {NoAddr}, size : Nat]],
           InHash(x), _out_hash(x), heap' = heap, live' = live, total_mem_size' = total_mem_size,
           Hold(t)' = Hold(t), info'[x].addr \in Addrs, Counted(t)' = Counted(t)
    PROVE  /\ Shape' /\ OrderInv' /\ Apart' /\ EntryInv' /\ BlockInv' /\ Booked
           /\ \A u \in Threads \ {t} : LocalInv(u)'
           /\ ~InHash(x)'
<1>1. hash' \in Seq(Infos) /\ OrderInv' /\ \A y \in Infos : InHash(y)' <=> InHash(y) /\ y # x
  <2>1. \A y \in Infos \ {x} : info'[y].addr = info[y].addr
    BY Zenon DEF Frame
  <2>2. \A u \in Threads : Moved(u) /\ th[u].info # x => Moved(u)' /\ th'[u].info = th[u].info
    BY Zenon DEF Frame, Moved
  <2>. QED  BY <2>1, <2>2, OutOrder, Zenon DEF BInv, Shape
<1>2. Apart' /\ EntryInv' /\ BlockInv' /\ \A u \in Threads \ {t} : LocalInv(u)'
  BY <1>1, KeepsBlock, Zenon
<1>3. Busy(t) /\ Busy(t)'
  BY Zenon DEF Busy, MemAssumption
<1>4. Booked /\ total_mem_size' \in Int
  <2>1. PICK m \in Nat : m = Counted(t)
    BY <1>3, CountedType, Zenon
  <2>2. Charge(x, m)
    BY <1>3, <2>1, ChargeBusy, Zenon DEF BInv
  <2>3. Charge(x, m)'
    BY <1>2, <1>3, <2>1, ChargeBusyNext, Zenon
  <2>4. \A y \in Infos \ {x}, k \in Nat \ {0} : <<y, k>> \in Bytes' <=> <<y, k>> \in Bytes
    BY FrameBytes, Zenon
  <2>5. total_mem_size' = total_mem_size - m + m
    BY DEF BInv, Shape
  <2>. QED  BY <2>2, <2>3, <2>4, <2>5, Books, ZenonT(30) DEF BInv
<1>5. Shape'
  BY <1>1, <1>4, Zenon DEF BInv, Shape
<1>6. QED
  BY <1>1, <1>2, <1>4, <1>5, Zenon

\* A step that enters thread t's entry and hands its block to the caller.
LEMMA EnterStep ==
    ASSUME MemAssumption, BInv, NEW t \in Threads, NEW x \in Infos, NEW n \in Nat \ {0},
           th[t].info = x, ~InHash(x), _enter_hash(x), info' = info, ~Moved(t),
           info[x].addr = Hold(t), info[x].size = n, Counted(t) = n,
           th' = [th EXCEPT ![t] = Idle], heap' = heap, total_mem_size' = total_mem_size,
           live' = [live EXCEPT ![Hold(t)] = n]
    PROVE  BInv' /\ Booked
<1>1. Busy(t) /\ Hold(t) \in Addrs /\ live[Hold(t)] = 0
  BY BusyFacts, Zenon DEF Busy, MemAssumption
<1>2. /\ th' \in [Threads -> Locals] /\ th'[t].info = NoInfo
      /\ \A u \in Threads \ {t} : th'[u] = th[u]
      /\ LocalInv(t)'
  BY IdleFacts, Zenon DEF BInv
<1>3. Frame(t, x)
  BY <1>2, Zenon DEF Frame
<1>4. hash' \in Seq(Infos) /\ OrderInv' /\ \A y \in Infos : InHash(y)' <=> InHash(y) \/ y = x
  <2>1. \A u \in Threads : Moved(u) => Moved(u)' /\ th'[u].info = th[u].info
    BY <1>2, Zenon DEF Moved
  <2>2. ASSUME NEW k \in DOMAIN hash, info[hash[k]].addr = info[x].addr
        PROVE  \E u \in Threads : Moved(u) /\ th[u].info = hash[k]
    <3>1. hash[k] \in Infos /\ hash[k] # x
      BY DEF BInv, Shape, InHash
    <3>2. info[hash[k]].addr # NoAddr
      BY <1>1, <2>2, Zenon DEF MemAssumption
    <3>3. ~Standing(hash[k])
      BY <1>1, <2>2, <3>1, Zenon DEF BInv, EntryInv
    <3>4. PICK u \in Threads : th[u].info = hash[k]
      BY <3>2, <3>3, Zenon DEF Standing
    <3>5. Busy(u) /\ u # t
      BY <3>1, <3>4, Zenon DEF Busy, MemAssumption
    <3>6. Hold(u) # Hold(t)
      BY <1>1, <3>5, Zenon DEF BInv, Apart
    <3>7. Moved(u)
      BY <2>2, <3>4, <3>5, <3>6, Zenon DEF BInv, LocalInv
    <3>. QED  BY <3>4, <3>7, Zenon
  <2>3. hash \in Seq(Infos) /\ OrderInv
    BY Zenon DEF BInv, Shape
  <2>. QED  BY <2>1, <2>2, <2>3, EnterOrder, ZenonT(30)
<1>5. Apart' /\ EntryInv' /\ BlockInv' /\ \A u \in Threads \ {t} : LocalInv(u)'
  BY <1>2, <1>3, <1>4, GivesBlock, Zenon
<1>6. Booked /\ total_mem_size' \in Int
  <2>1. Charge(x, n)
    BY <1>1, ChargeBusy, Zenon DEF BInv
  <2>2. Standing(x)'
    <3>1. \A u \in Threads \ {t} : th[u].info # x
      BY <1>1, Zenon DEF BInv, Apart, Busy
    <3>. QED  BY <1>1, <1>2, <3>1, Zenon DEF Standing, MemAssumption
  <2>3. Charge(x, n)'
    BY <2>2, ChargeStandingNext, Zenon
  <2>4. \A y \in Infos \ {x}, k \in Nat \ {0} : <<y, k>> \in Bytes' <=> <<y, k>> \in Bytes
    BY <1>3, FrameBytes, Zenon
  <2>5. total_mem_size' = total_mem_size - n + n
    BY DEF BInv, Shape
  <2>. QED  BY <2>1, <2>3, <2>4, <2>5, Books, ZenonT(30) DEF BInv
<1>7. Shape'
  BY <1>1, <1>2, <1>4, <1>6, Zenon DEF BInv, Shape
<1>8. QED
  BY <1>2, <1>4, <1>5, <1>6, <1>7, Zenon DEF BInv

\* A caller's block is found under its own entry, which no thread works on.
LEMMA Found ==
    ASSUME MemAssumption, BInv, NEW a \in Addrs, live[a] # 0
    PROVE  \E x \in Infos : /\ _find_hash(a) = x /\ Standing(x) /\ InHash(x)
                            /\ info[x].addr = a /\ info[x].size = live[a]
<1>1. PICK x \in Infos : Standing(x) /\ info[x].addr = a
  BY Zenon DEF BInv, BlockInv
<1>2. InHash(x) /\ info[x].size = live[a]
  BY <1>1, Zenon DEF BInv, EntryInv
<1>3. _find_hash(a) = x
  BY <1>1, <1>2, FindsEntry, Zenon DEF BInv, Shape, Standing
<1>4. QED
  BY <1>1, <1>2, <1>3, Zenon

\* A step that looks up the block its caller gives up.
LEMMA FindStep ==
    ASSUME MemAssumption, BInv, NEW t \in Threads, NEW a \in Addrs, NEW n \in Nat,
           NEW first \in {"f_size", "z_out", "r_call"}, first = "r_call" => n # 0,
           th[t].pc = "idle", live[a] # 0, Begin(t, a, n, _find_hash(a), first),
           live' = [live EXCEPT ![a] = 0], heap' = heap, info' = info, hash' = hash,
           total_mem_size' = total_mem_size
    PROVE  BInv' /\ Booked
<1>1. PICK x \in Infos : /\ _find_hash(a) = x /\ Standing(x) /\ InHash(x)
                         /\ info[x].addr = a /\ info[x].size = live[a]
  BY Found, Zenon
<1>2. ~Busy(t) /\ th[t].info = NoInfo
  BY BusyFacts, Zenon DEF BInv, LocalInv
<1>3. /\ th' \in [Threads -> Locals]
      /\ th'[t].pc = first /\ th'[t].ptr = a /\ th'[t].addr = NoAddr
      /\ th'[t].size = n /\ th'[t].info = x
      /\ \A u \in Threads \ {t} : th'[u] = th[u]
  <2>1. first \in PCs
    BY Zenon DEF PCs
  <2>2. Shape /\ Begin(t, a, n, x, first)
    BY <1>1, Zenon DEF BInv
  <2>. QED  BY <2>1, <2>2, BeginFacts, Zenon
<1>4. Frame(t, x)
  BY <1>2, <1>3, Zenon DEF Frame
<1>5. OrderInv' /\ \A y \in Infos : InHash(y)' <=> InHash(y)
  <2>1. \A u \in Threads : Moved(u) => Moved(u)' /\ th'[u].info = th[u].info
    BY <1>3, Zenon DEF Moved
  <2>. QED  BY <2>1, SameOrder, Zenon DEF BInv
<1>6. Hold(t)' = a
  BY <1>3, Zenon DEF Hold
<1>7. Apart' /\ EntryInv' /\ BlockInv' /\ \A u \in Threads \ {t} : LocalInv(u)'
  BY <1>1, <1>2, <1>3, <1>4, <1>5, <1>6, TakesBlock, Zenon
<1>8. Busy(t)' /\ ~Moved(t)'
  BY <1>3, ZenonT(30) DEF Busy, Moved, MemAssumption
<1>9. LocalInv(t)'
  <2>1. a \in heap' /\ live'[a] = 0
    BY <1>1, Zenon DEF BInv, EntryInv, Shape
  <2>2. first # "idle" /\ th'[t] # Idle
    BY <1>3, NotIdle, Zenon
  <2>. QED  BY <1>1, <1>3, <1>5, <1>6, <1>8, <2>1, <2>2, ZenonT(30) DEF LocalInv
<1>10. Booked /\ total_mem_size' \in Int
  <2>1. PICK m \in Nat : m = info[x].size
    BY Zenon DEF BInv, Shape
  <2>2. Charge(x, m)
    BY <1>1, <2>1, ChargeStanding, Zenon
  <2>3. Counted(t)' = m
    BY <1>3, <2>1, Zenon DEF Counted
  <2>4. Charge(x, m)'
    BY <1>3, <1>7, <1>8, <2>3, ChargeBusyNext, Zenon
  <2>5. \A y \in Infos \ {x}, k \in Nat \ {0} : <<y, k>> \in Bytes' <=> <<y, k>> \in Bytes
    BY <1>4, FrameBytes, Zenon
  <2>6. total_mem_size' = total_mem_size - m + m
    BY DEF BInv, Shape
  <2>. QED  BY <2>2, <2>4, <2>5, <2>6, Books, ZenonT(30) DEF BInv
<1>11. Shape'
  BY <1>3, <1>10, Zenon DEF BInv, Shape
<1>12. QED
  BY <1>5, <1>7, <1>9, <1>10, <1>11, Zenon DEF BInv

\* _malloc adds the size before it enters the entry.
LEMMA MallocSizeStep ==
    ASSUME MemAssumption, BInv, NEW t \in Threads, malloc_size(t)
    PROVE  BInv' /\ Booked
<1>1. /\ Goto(t, "m_size", "m_enter") /\ "m_enter" \in PCs \ {"idle"}
      /\ heap' = heap /\ info' = info /\ hash' = hash /\ live' = live
  BY Zenon DEF malloc_size, PCs
<1>2. Busy(t)
  BY <1>1, ZenonT(30) DEF Goto, BInv, LocalInv
<1>3. /\ th[t].pc = "m_size" /\ th'[t].pc = "m_enter" /\ th'[t].ptr = th[t].ptr /\ th'[t].addr = th[t].addr
      /\ th'[t].size = th[t].size /\ th'[t].info = th[t].info
  <2>1. Shape
    BY Zenon DEF BInv
  <2>. QED
    BY <1>1, <2>1, GotoFacts
<1>4. Hold(t)' = Hold(t) /\ ~Moved(t) /\ ~Moved(t)' /\ Busy(t)'
  BY <1>2, <1>3, ZenonT(30) DEF Hold, Moved, Busy
<1>5. LocalInv(t)'
  <2>1. InHash(th[t].info)' <=> InHash(th[t].info)
    BY <1>1, <1>3, Zenon DEF InHash
  <2>2. Idle.pc # "m_enter"
    BY DEF Idle
  <2>3. th'[t].pc = "m_enter" /\ th'[t] # Idle
    BY <1>3, <2>2, Zenon
  <2>4. LocalInv(t)
    BY Zenon DEF BInv
  <2>. QED  BY <1>1, <1>2, <1>3, <1>4, <2>1, <2>3, <2>4, ZenonT(30) DEF LocalInv
<1>6. /\ Counted(t)' \in Nat
      /\ total_mem_size' = total_mem_size - Counted(t) + Counted(t)'
  BY <1>1, <1>2, <1>3, CountedType DEF malloc_size, Counted, BInv, Shape
<1>7. QED
  BY <1>1, <1>2, <1>4, <1>5, <1>6, SizeStep, Zenon

\* _enter_hash puts the new entry before any other with its address.
LEMMA MallocEnterStep ==
    ASSUME MemAssumption, BInv, NEW t \in Threads, malloc_enter(t)
    PROVE  BInv' /\ Booked
<1>1. th[t].pc = "m_enter" /\ Busy(t)
  BY Zenon DEF malloc_enter, BInv, LocalInv
<1>2. PICK x \in Infos : th[t].info = x
  BY <1>1, BusyFacts, Zenon
<1>3. PICK n \in Nat \ {0} : n = th[t].size
  BY <1>1, CountedType, Zenon DEF BInv, LocalInv
<1>4. /\ ~Moved(t) /\ Hold(t) = th[t].addr /\ Counted(t) = n
  BY <1>1, <1>3, Zenon DEF Moved, Hold, Counted
<1>5. /\ ~InHash(x) /\ info[x].addr = Hold(t) /\ info[x].size = n
  BY <1>1, <1>2, <1>3, <1>4, Zenon DEF BInv, LocalInv
<1>6. QED
  BY <1>1, <1>2, <1>3, <1>4, <1>5, EnterStep, Zenon DEF malloc_enter

-----------------------------------------------------------------------------
(* The steps of _free and of _realloc to size 0. *)

\* _free finds the entry of the block that its caller gives up.
LEMMA FreeFindStep ==
    ASSUME MemAssumption, BInv, NEW t \in Threads, NEW a \in Addrs, free_find(t, a)
    PROVE  BInv' /\ Booked
BY FindStep, Zenon DEF free_find

\* _realloc to size 0 finds the entry of the block that its caller gives up.
LEMMA ZeroFindStep ==
    ASSUME MemAssumption, BInv, NEW t \in Threads, NEW a \in Addrs, zero_find(t, a)
    PROVE  BInv' /\ Booked
BY FindStep, Zenon DEF zero_find

\* _free takes the size off.
LEMMA FreeSizeStep ==
    ASSUME MemAssumption, BInv, NEW t \in Threads, free_size(t)
    PROVE  BInv' /\ Booked
<1>1. /\ Goto(t, "f_size", "f_out") /\ "f_out" \in PCs \ {"idle"}
      /\ heap' = heap /\ info' = info /\ hash' = hash /\ live' = live
  BY Zenon DEF free_size, PCs
<1>2. Busy(t)
  BY <1>1, Zenon DEF Goto, BInv, LocalInv
<1>3. /\ th[t].pc = "f_size" /\ th'[t].pc = "f_out" /\ th'[t].ptr = th[t].ptr /\ th'[t].addr = th[t].addr
      /\ th'[t].size = th[t].size /\ th'[t].info = th[t].info
  <2>1. Shape
    BY Zenon DEF BInv
  <2>. QED
    BY <1>1, <2>1, GotoFacts
<1>4. Hold(t)' = Hold(t) /\ ~Moved(t) /\ ~Moved(t)' /\ Busy(t)'
  BY <1>2, <1>3, ZenonT(30) DEF Hold, Moved, Busy
<1>5. LocalInv(t)'
  <2>1. InHash(th[t].info)' <=> InHash(th[t].info)
    BY <1>1, <1>3, Zenon DEF InHash
  <2>2. Idle.pc # "f_out"
    BY DEF Idle
  <2>3. th'[t].pc = "f_out" /\ th'[t] # Idle
    BY <1>3, <2>2, Zenon
  <2>4. LocalInv(t)
    BY Zenon DEF BInv
  <2>. QED  BY <1>1, <1>2, <1>3, <1>4, <2>1, <2>3, <2>4, ZenonT(30) DEF LocalInv
<1>6. /\ Counted(t)' \in Nat
      /\ total_mem_size' = total_mem_size - Counted(t) + Counted(t)'
  BY <1>1, <1>2, <1>3, CountedType DEF free_size, Counted, BInv, Shape
<1>7. QED
  BY <1>1, <1>2, <1>4, <1>5, <1>6, SizeStep, Zenon

\* _free takes the entry out.
LEMMA FreeOutStep ==
    ASSUME MemAssumption, BInv, NEW t \in Threads, free_out(t)
    PROVE  BInv' /\ Booked
<1>1. /\ Goto(t, "f_out", "release") /\ "release" \in PCs \ {"idle"}
      /\ heap' = heap /\ info' = info /\ total_mem_size' = total_mem_size /\ live' = live
  BY Zenon DEF free_out, PCs
<1>2. Busy(t)
  BY <1>1, Zenon DEF Goto, BInv, LocalInv
<1>3. PICK x \in Infos : th[t].info = x
  BY <1>2, BusyFacts, Zenon
<1>4. /\ th' \in [Threads -> Locals]
      /\ th[t].pc = "f_out" /\ th'[t].pc = "release" /\ th'[t].ptr = th[t].ptr /\ th'[t].addr = th[t].addr
      /\ th'[t].size = th[t].size /\ th'[t].info = x
      /\ \A u \in Threads \ {t} : th'[u] = th[u]
  <2>1. Shape
    BY Zenon DEF BInv
  <2>. QED
    BY <1>1, <1>3, <2>1, GotoFacts
<1>5. Frame(t, x)
  BY <1>1, <1>3, <1>4, Zenon DEF Frame
<1>6. InHash(x) /\ info[x].addr \in Addrs
  BY <1>2, <1>3, <1>4, Zenon DEF BInv, LocalInv
<1>7. Hold(t)' = Hold(t) /\ ~Moved(t) /\ ~Moved(t)' /\ Busy(t)' /\ Counted(t)' = Counted(t)
  BY <1>1, <1>2, <1>3, <1>4, Zenon DEF Hold, Moved, Busy, Counted
<1>8. _out_hash(x)
  BY <1>3, Zenon DEF free_out
<1>9. /\ Shape' /\ OrderInv' /\ Apart' /\ EntryInv' /\ BlockInv' /\ Booked
      /\ \A u \in Threads \ {t} : LocalInv(u)'
      /\ ~InHash(x)'
  BY <1>1, <1>3, <1>4, <1>5, <1>6, <1>7, <1>8, OutStep, ZenonT(30) DEF BInv, Shape
<1>10. LocalInv(t)'
  <2>1. th'[t].pc = "release" /\ th'[t] # Idle
    BY <1>4 DEF Idle
  <2>2. Hold(t)' \in heap' /\ live'[Hold(t)'] = 0
    BY <1>1, <1>2, <1>7, BusyFacts, Zenon
  <2>3. info'[x].addr = Hold(t)' /\ info'[x].addr \in Addrs
    BY <1>1, <1>2, <1>3, <1>6, <1>7, Zenon DEF BInv, LocalInv
  <2>. QED  BY <1>4, <1>7, <1>9, <2>1, <2>2, <2>3, ZenonT(30) DEF LocalInv
<1>11. QED
  BY <1>9, <1>10, Zenon DEF BInv

\* _realloc to size 0, or without memory, takes the entry out.
LEMMA ZeroOutStep ==
    ASSUME MemAssumption, BInv, NEW t \in Threads, zero_out(t)
    PROVE  BInv' /\ Booked
<1>1. /\ Goto(t, "z_out", "z_size") /\ "z_size" \in PCs \ {"idle"}
      /\ heap' = heap /\ info' = info /\ total_mem_size' = total_mem_size /\ live' = live
  BY Zenon DEF zero_out, PCs
<1>2. Busy(t)
  BY <1>1, Zenon DEF Goto, BInv, LocalInv
<1>3. PICK x \in Infos : th[t].info = x
  BY <1>2, BusyFacts, Zenon
<1>4. /\ th' \in [Threads -> Locals]
      /\ th[t].pc = "z_out" /\ th'[t].pc = "z_size" /\ th'[t].ptr = th[t].ptr /\ th'[t].addr = th[t].addr
      /\ th'[t].size = th[t].size /\ th'[t].info = x
      /\ \A u \in Threads \ {t} : th'[u] = th[u]
  <2>1. Shape
    BY Zenon DEF BInv
  <2>. QED
    BY <1>1, <1>3, <2>1, GotoFacts
<1>5. Frame(t, x)
  BY <1>1, <1>3, <1>4, Zenon DEF Frame
<1>6. InHash(x) /\ info[x].addr \in Addrs
  BY <1>2, <1>3, <1>4, Zenon DEF BInv, LocalInv
<1>7. Hold(t)' = Hold(t) /\ ~Moved(t) /\ ~Moved(t)' /\ Busy(t)' /\ Counted(t)' = Counted(t)
  BY <1>1, <1>2, <1>3, <1>4, Zenon DEF Hold, Moved, Busy, Counted
<1>8. _out_hash(x)
  BY <1>3, Zenon DEF zero_out
<1>9. /\ Shape' /\ OrderInv' /\ Apart' /\ EntryInv' /\ BlockInv' /\ Booked
      /\ \A u \in Threads \ {t} : LocalInv(u)'
      /\ ~InHash(x)'
  BY <1>1, <1>3, <1>4, <1>5, <1>6, <1>7, <1>8, OutStep, ZenonT(30) DEF BInv, Shape
<1>10. LocalInv(t)'
  <2>1. th'[t].pc = "z_size" /\ th'[t] # Idle
    BY <1>4 DEF Idle
  <2>2. Hold(t)' \in heap' /\ live'[Hold(t)'] = 0
    BY <1>1, <1>2, <1>7, BusyFacts, Zenon
  <2>3. info'[x].addr = Hold(t)' /\ info'[x].addr \in Addrs
    BY <1>1, <1>2, <1>3, <1>6, <1>7, Zenon DEF BInv, LocalInv
  <2>. QED  BY <1>4, <1>7, <1>9, <2>1, <2>2, <2>3, ZenonT(30) DEF LocalInv
<1>11. QED
  BY <1>9, <1>10, Zenon DEF BInv

\* _realloc to size 0, or without memory, takes the size off.
LEMMA ZeroSizeStep ==
    ASSUME MemAssumption, BInv, NEW t \in Threads, zero_size(t)
    PROVE  BInv' /\ Booked
<1>1. /\ Goto(t, "z_size", "release") /\ "release" \in PCs \ {"idle"}
      /\ heap' = heap /\ info' = info /\ hash' = hash /\ live' = live
  BY Zenon DEF zero_size, PCs
<1>2. Busy(t)
  BY <1>1, Zenon DEF Goto, BInv, LocalInv
<1>3. /\ th[t].pc = "z_size" /\ th'[t].pc = "release" /\ th'[t].ptr = th[t].ptr /\ th'[t].addr = th[t].addr
      /\ th'[t].size = th[t].size /\ th'[t].info = th[t].info
  <2>1. Shape
    BY Zenon DEF BInv
  <2>. QED
    BY <1>1, <2>1, GotoFacts
<1>4. Hold(t)' = Hold(t) /\ ~Moved(t) /\ ~Moved(t)' /\ Busy(t)'
  BY <1>2, <1>3, ZenonT(30) DEF Hold, Moved, Busy
<1>5. LocalInv(t)'
  <2>1. InHash(th[t].info)' <=> InHash(th[t].info)
    BY <1>1, <1>3, Zenon DEF InHash
  <2>2. Idle.pc # "release"
    BY DEF Idle
  <2>3. th'[t].pc = "release" /\ th'[t] # Idle
    BY <1>3, <2>2, Zenon
  <2>4. LocalInv(t)
    BY Zenon DEF BInv
  <2>. QED  BY <1>1, <1>2, <1>3, <1>4, <2>1, <2>3, <2>4, ZenonT(30) DEF LocalInv
<1>6. /\ Counted(t)' \in Nat
      /\ total_mem_size' = total_mem_size - Counted(t) + Counted(t)'
  BY <1>1, <1>2, <1>3, CountedType DEF zero_size, Counted, BInv, Shape
<1>7. QED
  BY <1>1, <1>2, <1>4, <1>5, <1>6, SizeStep, Zenon

\* The block and its entry go back to the C library; nothing refers to them.
LEMMA ReleaseStep ==
    ASSUME MemAssumption, BInv, NEW t \in Threads, release(t)
    PROVE  BInv' /\ Booked
<1>1. /\ th[t].pc = "release" /\ Busy(t) /\ hash' = hash /\ live' = live /\ total_mem_size' = total_mem_size
  BY Zenon DEF release, BInv, LocalInv
<1>2. PICK x \in Infos : th[t].info = x
  BY <1>1, BusyFacts, Zenon
<1>3. /\ info' \in [Infos -> [addr : Addrs \cup {NoAddr}, size : Nat]]
      /\ info'[x].addr = NoAddr /\ info'[x].size = 0 /\ \A y \in Infos \ {x} : info'[y] = info[y]
  BY <1>2, Zenon DEF release, BInv, Shape
<1>4. /\ th' \in [Threads -> Locals] /\ th'[t].info = NoInfo
      /\ \A u \in Threads \ {t} : th'[u] = th[u]
      /\ LocalInv(t)'
  BY IdleFacts, Zenon DEF BInv, release
<1>5. Frame(t, x)
  BY <1>2, <1>3, <1>4, Zenon DEF Frame
<1>6. ~InHash(x) /\ ~Moved(t) /\ Hold(t) = th[t].ptr /\ Counted(t) = 0
  BY <1>1, <1>2, Zenon DEF BInv, LocalInv, Moved, Hold, Counted
<1>7. OrderInv' /\ \A y \in Infos : InHash(y)' <=> InHash(y)
  <2>1. \A k \in DOMAIN hash : info'[hash[k]].addr = info[hash[k]].addr
    BY <1>3, <1>6 DEF BInv, Shape, InHash
  <2>2. \A u \in Threads : Moved(u) => Moved(u)' /\ th'[u].info = th[u].info
    BY <1>4, <1>6, Zenon DEF Moved
  <2>. QED  BY <1>1, <2>1, <2>2, SameOrder, Zenon DEF BInv
<1>8. heap' = heap \ {Hold(t)}
  BY <1>6, Zenon DEF release
<1>9. Apart' /\ EntryInv' /\ BlockInv' /\ \A u \in Threads \ {t} : LocalInv(u)'
  BY <1>1, <1>2, <1>3, <1>4, <1>5, <1>6, <1>7, <1>8, DropsBlock, Zenon
<1>10. Booked /\ total_mem_size' \in Int
  <2>1. Charge(x, 0)
    BY <1>1, <1>2, <1>6, ChargeBusy DEF BInv
  <2>2. \A u \in Threads : th'[u].info # x
    BY <1>1, <1>2, <1>4, Zenon DEF BInv, Apart, Busy, MemAssumption
  <2>3. Charge(x, 0)'
    BY <1>3, <2>2, ChargeUnusedNext, Zenon
  <2>4. \A y \in Infos \ {x}, k \in Nat \ {0} : <<y, k>> \in Bytes' <=> <<y, k>> \in Bytes
    BY <1>5, FrameBytes, Zenon
  <2>5. total_mem_size' = total_mem_size - 0 + 0
    BY <1>1 DEF BInv, Shape
  <2>. QED  BY <2>1, <2>3, <2>4, <2>5, Books, ZenonT(30) DEF BInv
<1>11. Shape'
  BY <1>1, <1>3, <1>4, <1>8, <1>10, Zenon DEF BInv, Shape
<1>12. QED
  BY <1>4, <1>7, <1>9, <1>10, <1>11, Zenon DEF BInv

-----------------------------------------------------------------------------
(* The steps of _realloc to another size. *)

\* _realloc finds the entry of the block that its caller gives up.
LEMMA ReallocFindStep ==
    ASSUME MemAssumption, BInv, NEW t \in Threads, NEW a \in Addrs, NEW n \in Sizes, realloc_find(t, a, n)
    PROVE  BInv' /\ Booked
<1>1. n \in Nat /\ n # 0
  BY Zenon DEF MemAssumption
<1>2. QED
  BY <1>1, FindStep, Zenon DEF realloc_find

\* realloc keeps the block in place, or moves it and frees its old address.
LEMMA ReallocCallStep ==
    ASSUME MemAssumption, BInv, NEW t \in Threads, NEW b \in Addrs, realloc_call(t, b)
    PROVE  BInv' /\ Booked
<1>1. /\ th[t].pc = "r_call" /\ Busy(t) /\ info' = info /\ hash' = hash /\ live' = live
      /\ total_mem_size' = total_mem_size
      /\ b = th[t].ptr \/ b \notin heap
      /\ heap' = (heap \ {th[t].ptr}) \cup {b}
  BY Zenon DEF realloc_call, BInv, LocalInv
<1>2. PICK x \in Infos : th[t].info = x
  BY <1>1, BusyFacts, Zenon
<1>3. /\ th' \in [Threads -> Locals]
      /\ th'[t].pc = "r_size" /\ th'[t].addr = b /\ th'[t].ptr = th[t].ptr
      /\ th'[t].size = th[t].size /\ th'[t].info = x
      /\ \A u \in Threads \ {t} : th'[u] = th[u]
  <2>1. th' = [th EXCEPT ![t] = [th[t] EXCEPT !.pc = "r_size", !.addr = b]]
    BY Zenon DEF realloc_call, BInv, Shape
  <2>2. th[t] \in Locals /\ th \in [Threads -> Locals]
    BY Zenon DEF BInv, Shape
  <2>3. [th[t] EXCEPT !.pc = "r_size", !.addr = b] \in Locals
    BY <2>2, Zenon DEF Locals, PCs
  <2>. QED  BY <1>2, <2>1, <2>2, <2>3 DEF Locals
<1>4. Frame(t, x)
  BY <1>1, <1>2, <1>3, Zenon DEF Frame
<1>5. /\ ~Moved(t) /\ Hold(t) = th[t].ptr /\ Hold(t)' = b /\ (Moved(t)' <=> b # th[t].ptr)
      /\ Counted(t) = info[x].size /\ Counted(t)' = info[x].size
  BY <1>1, <1>2, <1>3, Zenon DEF Moved, Hold, Counted
<1>6. OrderInv' /\ \A y \in Infos : InHash(y)' <=> InHash(y)
  <2>1. \A u \in Threads : Moved(u) => Moved(u)' /\ th'[u].info = th[u].info
    BY <1>3, <1>5, Zenon DEF Moved
  <2>. QED  BY <1>1, <2>1, SameOrder, Zenon DEF BInv
<1>7. Hold(t) \in heap /\ info[x].addr = th[t].ptr /\ info[x].addr \in Addrs /\ InHash(x) /\ th[t].size # 0
  BY <1>1, <1>2, <1>5, Zenon DEF BInv, LocalInv
<1>8. Apart' /\ EntryInv' /\ BlockInv' /\ \A u \in Threads \ {t} : LocalInv(u)'
  <2>1. CASE b = th[t].ptr
    <3>1. heap' = heap /\ Hold(t)' = Hold(t)
      BY <1>1, <1>5, <1>7, <2>1, Zenon
    <3>. QED  BY <1>1, <1>2, <1>3, <1>4, <1>6, <1>7, <3>1, KeepsBlock, Zenon
  <2>2. CASE b \notin heap
    BY <1>1, <1>2, <1>3, <1>4, <1>5, <1>6, <2>2, MovesBlock, Zenon
  <2>. QED  BY <1>1, <2>1, <2>2, Zenon
<1>9. Busy(t)'
  BY <1>3, ZenonT(30) DEF Busy, MemAssumption
<1>10. LocalInv(t)'
  <2>1. live'[b] = 0
    <3>1. CASE b = th[t].ptr
      BY <1>1, <1>5, <3>1, BusyFacts, ZenonT(30)
    <3>2. CASE b \notin heap
      BY <1>1, <3>2 DEF BInv, BlockInv, EntryInv
    <3>. QED  BY <1>1, <3>1, <3>2, Zenon
  <2>2. th'[t].pc = "r_size" /\ th'[t] # Idle
    BY <1>3, NotIdle, Zenon
  <2>3. b \in heap' /\ InHash(x)' /\ info' = info
    BY <1>1, <1>6, <1>7, Zenon
  <2>. QED  BY <1>3, <1>5, <1>7, <1>9, <2>1, <2>2, <2>3, ZenonT(30) DEF LocalInv
<1>11. Booked /\ total_mem_size' \in Int
  <2>1. PICK m \in Nat : m = info[x].size
    BY Zenon DEF BInv, Shape
  <2>2. Charge(x, m)
    BY <1>1, <1>2, <1>5, <2>1, ChargeBusy, Zenon DEF BInv
  <2>3. Charge(x, m)'
    BY <1>3, <1>5, <1>8, <1>9, <2>1, ChargeBusyNext, Zenon
  <2>4. \A y \in Infos \ {x}, k \in Nat \ {0} : <<y, k>> \in Bytes' <=> <<y, k>> \in Bytes
    BY <1>4, FrameBytes, Zenon
  <2>5. total_mem_size' = total_mem_size - m + m
    BY <1>1 DEF BInv, Shape
  <2>. QED  BY <2>2, <2>3, <2>4, <2>5, Books, ZenonT(30) DEF BInv
<1>12. Shape'
  BY <1>1, <1>3, <1>11, Zenon DEF BInv, Shape
<1>13. QED
  BY <1>6, <1>8, <1>10, <1>11, <1>12, Zenon DEF BInv

\* Without memory the second search finds the block's own entry again.
LEMMA ReallocNomemStep ==
    ASSUME MemAssumption, BInv, NEW t \in Threads, realloc_nomem(t)
    PROVE  BInv' /\ Booked
<1>1. /\ th[t].pc = "r_call" /\ Busy(t) /\ heap' = heap /\ info' = info /\ hash' = hash /\ live' = live
      /\ total_mem_size' = total_mem_size
  BY Zenon DEF realloc_nomem, BInv, LocalInv
<1>2. PICK x \in Infos : th[t].info = x
  BY <1>1, BusyFacts, Zenon
<1>3. /\ ~Moved(t) /\ Hold(t) = th[t].ptr /\ Counted(t) = info[x].size
  BY <1>1, <1>2, Zenon DEF Moved, Hold, Counted
<1>4. /\ info[x].addr = th[t].ptr /\ info[x].addr \in Addrs /\ InHash(x)
      /\ Hold(t) \in heap /\ live[Hold(t)] = 0
  BY <1>1, <1>2, <1>3, Zenon DEF BInv, LocalInv
<1>5. _find_hash(th[t].ptr) = x
  <2>1. \A u \in Threads : Moved(u) => th[u].info # x
    <3>1. \A u \in Threads : th[u].info = x => u = t
      BY <1>1, <1>2, Zenon DEF BInv, Apart, Busy, MemAssumption
    <3>. QED  BY <1>3, <3>1, Zenon
  <2>. QED  BY <1>4, <2>1, FindsEntry, Zenon DEF BInv, Shape
<1>6. /\ th' \in [Threads -> Locals]
      /\ th'[t].pc = "z_out" /\ th'[t].ptr = th[t].ptr /\ th'[t].addr = NoAddr
      /\ th'[t].size = 0 /\ th'[t].info = x
      /\ \A u \in Threads \ {t} : th'[u] = th[u]
  <2>1. "z_out" \in PCs /\ th[t].ptr \in Addrs
    BY <1>4, Zenon DEF PCs
  <2>2. Begin(t, th[t].ptr, 0, x, "z_out")
    BY <1>5, Zenon DEF realloc_nomem
  <2>. QED  BY <2>1, <2>2, BeginFacts, Zenon DEF BInv
<1>7. Frame(t, x)
  BY <1>1, <1>2, <1>6, Zenon DEF Frame
<1>8. ~Moved(t)' /\ Hold(t)' = Hold(t) /\ Counted(t)' = info[x].size /\ Busy(t)'
  BY <1>1, <1>3, <1>6, Zenon DEF Moved, Hold, Counted, Busy, MemAssumption
<1>9. OrderInv' /\ \A y \in Infos : InHash(y)' <=> InHash(y)
  <2>1. \A u \in Threads : Moved(u) => Moved(u)' /\ th'[u].info = th[u].info
    BY <1>3, <1>6, Zenon DEF Moved
  <2>. QED  BY <1>1, <2>1, SameOrder, Zenon DEF BInv
<1>10. Apart' /\ EntryInv' /\ BlockInv' /\ \A u \in Threads \ {t} : LocalInv(u)'
  BY <1>1, <1>2, <1>4, <1>6, <1>7, <1>8, <1>9, KeepsBlock, ZenonT(30)
<1>11. LocalInv(t)'
  <2>1. th'[t].pc = "z_out" /\ th'[t] # Idle
    BY <1>6, NotIdle, Zenon
  <2>. QED  BY <1>1, <1>3, <1>4, <1>6, <1>8, <1>9, <2>1, ZenonT(30) DEF LocalInv
<1>12. Booked /\ total_mem_size' \in Int
  <2>1. PICK m \in Nat : m = info[x].size
    BY Zenon DEF BInv, Shape
  <2>2. Charge(x, m)
    BY <1>1, <1>2, <1>3, <2>1, ChargeBusy, Zenon DEF BInv
  <2>3. Charge(x, m)'
    BY <1>6, <1>8, <1>10, <2>1, ChargeBusyNext, Zenon
  <2>4. \A y \in Infos \ {x}, k \in Nat \ {0} : <<y, k>> \in Bytes' <=> <<y, k>> \in Bytes
    BY <1>7, FrameBytes, Zenon
  <2>5. total_mem_size' = total_mem_size - m + m
    BY <1>1 DEF BInv, Shape
  <2>. QED  BY <2>2, <2>3, <2>4, <2>5, Books, ZenonT(30) DEF BInv
<1>13. Shape'
  BY <1>1, <1>6, <1>12, Zenon DEF BInv, Shape
<1>14. QED
  BY <1>9, <1>10, <1>11, <1>12, <1>13, Zenon DEF BInv

\* _realloc adds the difference of the sizes.
LEMMA ReallocSizeStep ==
    ASSUME MemAssumption, BInv, NEW t \in Threads, realloc_size(t)
    PROVE  BInv' /\ Booked
<1> DEFINE to == IF th[t].addr = th[t].ptr THEN "r_store" ELSE "r_out"
<1>1. /\ Goto(t, "r_size", to) /\ to \in PCs \ {"idle"}
      /\ heap' = heap /\ info' = info /\ hash' = hash /\ live' = live
  BY Zenon DEF realloc_size, PCs
<1>2. PICK next \in {"r_store", "r_out"} : next = to
  BY Zenon
<1> HIDE DEF to
<1>3. Busy(t)
  BY <1>1, Zenon DEF Goto, BInv, LocalInv
<1>4. /\ th[t].pc = "r_size" /\ th'[t].pc = next /\ th'[t].ptr = th[t].ptr /\ th'[t].addr = th[t].addr
      /\ th'[t].size = th[t].size /\ th'[t].info = th[t].info
  <2>1. Shape
    BY Zenon DEF BInv
  <2>. QED
    BY <1>1, <1>2, <2>1, GotoFacts
<1>5. Hold(t)' = Hold(t) /\ (Moved(t)' <=> Moved(t)) /\ Busy(t)'
  BY <1>2, <1>3, <1>4, ZenonT(30) DEF Hold, Moved, Busy, to
<1>6. LocalInv(t)'
  <2>1. InHash(th[t].info)' <=> InHash(th[t].info)
    BY <1>1, <1>4, Zenon DEF InHash
  <2>2. Idle.pc # "r_store" /\ Idle.pc # "r_out"
    BY DEF Idle
  <2>3. th'[t].pc \in {"r_store", "r_out"} /\ th'[t] # Idle
    BY <1>2, <1>4, <2>2, Zenon
  <2>4. LocalInv(t)
    BY Zenon DEF BInv
  <2>5. th'[t].pc = "r_store" <=> th[t].addr = th[t].ptr
    BY <1>2, <1>4 DEF to
  <2>. QED  BY <1>1, <1>3, <1>4, <1>5, <2>1, <2>3, <2>4, <2>5, ZenonT(30) DEF LocalInv
<1>7. /\ Counted(t)' \in Nat
      /\ total_mem_size' = total_mem_size - Counted(t) + Counted(t)'
  <2>1. Counted(t) = info[th[t].info].size /\ Counted(t)' = th[t].size
    BY <1>2, <1>4, Zenon DEF Counted
  <2>2. info[th[t].info].size \in Nat /\ th[t].size \in Nat /\ total_mem_size \in Int
    BY <1>3, CountedType, Zenon DEF BInv, Shape
  <2>3. total_mem_size' = total_mem_size + th[t].size - info[th[t].info].size
    BY Zenon DEF realloc_size
  <2>. QED  BY <2>1, <2>2, <2>3
<1>8. QED
  BY <1>1, <1>3, <1>5, <1>6, <1>7, SizeStep, Zenon

\* A block that stayed in place keeps its entry, with the new size.
LEMMA ReallocStoreStep ==
    ASSUME MemAssumption, BInv, NEW t \in Threads, realloc_store(t)
    PROVE  BInv' /\ Booked
<1>1. /\ th[t].pc = "r_store" /\ Busy(t) /\ heap' = heap /\ hash' = hash /\ total_mem_size' = total_mem_size
  BY Zenon DEF realloc_store, BInv, LocalInv
<1>2. PICK x \in Infos : th[t].info = x
  BY <1>1, BusyFacts, Zenon
<1>3. PICK n \in Nat \ {0} : n = th[t].size
  BY <1>1, CountedType, Zenon DEF BInv, LocalInv
<1>4. /\ ~Moved(t) /\ Hold(t) = th[t].addr /\ Counted(t) = n
  BY <1>1, <1>3, Zenon DEF Moved, Hold, Counted
<1>5. /\ InHash(x) /\ info[x].addr = Hold(t) /\ Hold(t) \in Addrs
  BY <1>1, <1>2, <1>4, Zenon DEF BInv, LocalInv
<1>6. /\ info' \in [Infos -> [addr : Addrs \cup {NoAddr}, size : Nat]]
      /\ info'[x].addr = Hold(t) /\ info'[x].size = n /\ \A y \in Infos \ {x} : info'[y] = info[y]
  <2>1. info' = [info EXCEPT ![x] = [info[x] EXCEPT !.size = n]]
    BY <1>2, <1>3 DEF realloc_store, BInv, Shape
  <2>2. info \in [Infos -> [addr : Addrs \cup {NoAddr}, size : Nat]]
    BY Zenon DEF BInv, Shape
  <2>. QED  BY <1>5, <2>1, <2>2
<1>7. /\ th' \in [Threads -> Locals] /\ th'[t].info = NoInfo
      /\ \A u \in Threads \ {t} : th'[u] = th[u]
      /\ LocalInv(t)'
  BY IdleFacts, Zenon DEF BInv, realloc_store
<1>8. Frame(t, x)
  BY <1>2, <1>6, <1>7, Zenon DEF Frame
<1>9. live' = [live EXCEPT ![Hold(t)] = n]
  BY <1>3, <1>4, Zenon DEF realloc_store
<1>10. OrderInv' /\ \A y \in Infos : InHash(y)' <=> InHash(y)
  <2>1. \A k \in DOMAIN hash : info'[hash[k]].addr = info[hash[k]].addr
    <3>1. \A y \in Infos : info'[y].addr = info[y].addr
      BY <1>5, <1>6, Zenon
    <3>2. \A k \in DOMAIN hash : hash[k] \in Infos
      BY DEF BInv, Shape
    <3>. QED  BY <3>1, <3>2, Zenon
  <2>2. \A u \in Threads : Moved(u) => Moved(u)' /\ th'[u].info = th[u].info
    BY <1>4, <1>7, Zenon DEF Moved
  <2>. QED  BY <1>1, <2>1, <2>2, SameOrder, Zenon DEF BInv
<1>11. Apart' /\ EntryInv' /\ BlockInv' /\ \A u \in Threads \ {t} : LocalInv(u)'
  BY <1>1, <1>2, <1>5, <1>6, <1>7, <1>8, <1>9, <1>10, GivesBlock, Zenon
<1>12. Booked /\ total_mem_size' \in Int
  <2>1. Charge(x, n)
    BY <1>1, <1>2, <1>4, ChargeBusy, Zenon DEF BInv
  <2>2. Standing(x)'
    <3>1. \A u \in Threads \ {t} : th[u].info # x
      BY <1>1, <1>2, Zenon DEF BInv, Apart, Busy
    <3>. QED  BY <1>5, <1>6, <1>7, <3>1, Zenon DEF Standing, MemAssumption
  <2>3. Charge(x, n)'
    BY <1>6, <2>2, ChargeStandingNext, Zenon
  <2>4. \A y \in Infos \ {x}, k \in Nat \ {0} : <<y, k>> \in Bytes' <=> <<y, k>> \in Bytes
    BY <1>8, FrameBytes, Zenon
  <2>5. total_mem_size' = total_mem_size - n + n
    BY <1>1 DEF BInv, Shape
  <2>. QED  BY <2>1, <2>3, <2>4, <2>5, Books, ZenonT(30) DEF BInv
<1>13. Shape'
  BY <1>1, <1>5, <1>6, <1>7, <1>9, <1>12, Zenon DEF BInv, Shape
<1>14. QED
  BY <1>7, <1>10, <1>11, <1>12, <1>13, Zenon DEF BInv

\* The entry of a moved block leaves the hash before its address changes.
LEMMA ReallocOutStep ==
    ASSUME MemAssumption, BInv, NEW t \in Threads, realloc_out(t)
    PROVE  BInv' /\ Booked
<1>1. /\ Goto(t, "r_out", "r_enter") /\ "r_enter" \in PCs
      /\ heap' = heap /\ total_mem_size' = total_mem_size /\ live' = live
  BY Zenon DEF realloc_out, PCs
<1>2. Busy(t)
  BY <1>1, Zenon DEF Goto, BInv, LocalInv
<1>3. PICK x \in Infos : th[t].info = x
  BY <1>2, BusyFacts, Zenon
<1>4. /\ th' \in [Threads -> Locals]
      /\ th[t].pc = "r_out" /\ th'[t].pc = "r_enter" /\ th'[t].ptr = th[t].ptr /\ th'[t].addr = th[t].addr
      /\ th'[t].size = th[t].size /\ th'[t].info = x
      /\ \A u \in Threads \ {t} : th'[u] = th[u]
  <2>1. Shape
    BY Zenon DEF BInv
  <2>. QED
    BY <1>1, <1>3, <2>1, GotoFacts
<1>5. /\ Hold(t) = th[t].addr /\ Hold(t)' = Hold(t) /\ ~Moved(t)' /\ Busy(t)'
      /\ Counted(t)' = Counted(t)
  BY <1>2, <1>3, <1>4, Zenon DEF Hold, Moved, Busy, Counted
<1>6. InHash(x) /\ Hold(t) \in heap /\ Hold(t) \in Addrs /\ live[Hold(t)] = 0 /\ th[t].size # 0
  BY <1>2, <1>3, <1>4, BusyFacts, Zenon DEF BInv, LocalInv
<1>7. /\ info' \in [Infos -> [addr : Addrs \cup {NoAddr}, size : Nat]]
      /\ info'[x].addr = Hold(t) /\ info'[x].size = th[t].size /\ \A y \in Infos \ {x} : info'[y] = info[y]
  BY <1>2, <1>3, <1>5, <1>6, CountedType, Zenon DEF realloc_out, BInv, Shape
<1>8. Frame(t, x)
  BY <1>3, <1>4, <1>7, Zenon DEF Frame
<1>9. _out_hash(x)
  BY <1>3, ZenonT(30) DEF realloc_out
<1>10. /\ Shape' /\ OrderInv' /\ Apart' /\ EntryInv' /\ BlockInv' /\ Booked
       /\ \A u \in Threads \ {t} : LocalInv(u)'
       /\ ~InHash(x)'
  BY <1>1, <1>3, <1>4, <1>5, <1>6, <1>7, <1>8, <1>9, OutStep, ZenonT(30)
<1>11. LocalInv(t)'
  <2>0. Idle.pc # "r_enter"
    BY DEF Idle
  <2>1. th'[t].pc = "r_enter" /\ th'[t].size # 0 /\ Busy(t)' /\ th'[t] # Idle
    BY <1>4, <1>5, <1>6, <2>0, Zenon
  <2>2. Hold(t)' \in heap' /\ live'[Hold(t)'] = 0
    BY <1>1, <1>5, <1>6, Zenon
  <2>3. info'[x].addr = Hold(t)' /\ info'[x].addr \in Addrs /\ info'[x].size = th'[t].size
    BY <1>4, <1>5, <1>6, <1>7, ZenonT(30)
  <2>. QED  BY <1>4, <1>5, <1>10, <2>1, <2>2, <2>3, ZenonT(30) DEF LocalInv
<1>12. QED
  BY <1>10, <1>11, Zenon DEF BInv

\* The entry of a moved block enters the hash again, before all others.
LEMMA ReallocEnterStep ==
    ASSUME MemAssumption, BInv, NEW t \in Threads, realloc_enter(t)
    PROVE  BInv' /\ Booked
<1>1. th[t].pc = "r_enter" /\ Busy(t)
  BY Zenon DEF realloc_enter, BInv, LocalInv
<1>2. PICK x \in Infos : th[t].info = x
  BY <1>1, BusyFacts, Zenon
<1>3. PICK n \in Nat \ {0} : n = th[t].size
  BY <1>1, CountedType, Zenon DEF BInv, LocalInv
<1>4. /\ ~Moved(t) /\ Hold(t) = th[t].addr /\ Counted(t) = n
  BY <1>1, <1>3, Zenon DEF Moved, Hold, Counted
<1>5. /\ ~InHash(x) /\ info[x].addr = Hold(t) /\ info[x].size = n
  BY <1>1, <1>2, <1>3, <1>4, Zenon DEF BInv, LocalInv
<1>6. QED
  BY <1>1, <1>2, <1>3, <1>4, <1>5, EnterStep, ZenonT(30) DEF realloc_enter

-----------------------------------------------------------------------------
(* The first state and the whole of Next. *)

\* The tracker starts with no block, no entry in the hash and no bytes counted.
LEMMA InitInv ==
    ASSUME MemAssumption, wys_mem_init
    PROVE  BInv /\ Bytes = {}
<1>1. Shape
  BY DEF wys_mem_init, Shape, Idle, PCs, Locals
<1>2. \A t \in Threads : th[t] = Idle /\ th[t].pc = "idle" /\ th[t].info = NoInfo /\ ~Busy(t)
  BY Zenon DEF wys_mem_init, Idle, Busy
<1>3. DOMAIN hash = {} /\ \A x \in Infos : info[x].addr = NoAddr /\ info[x].size = 0 /\ ~InHash(x)
  BY DEF wys_mem_init, InHash
<1>4. Apart /\ BlockInv /\ OrderInv
  BY <1>2, <1>3, Zenon DEF Apart, BlockInv, OrderInv, wys_mem_init
<1>5. \A x \in Infos : ~Standing(x)
  BY <1>3, Zenon DEF Standing
<1>6. EntryInv
  BY <1>3, <1>5, Zenon DEF EntryInv
<1>7. Bytes = {}
  BY <1>2, <1>5 DEF Bytes, MemAssumption
<1>8. \A t \in Threads : LocalInv(t)
  BY <1>2, Zenon DEF LocalInv
<1>9. QED
  BY <1>1, <1>4, <1>6, <1>7, <1>8, Zenon DEF BInv

\* A step that changes nothing keeps the invariant.
LEMMA StutterInv ==
    ASSUME BInv, UNCHANGED vars
    PROVE  BInv' /\ Bytes' = Bytes
<1>1. /\ heap' = heap /\ info' = info /\ hash' = hash /\ total_mem_size' = total_mem_size
      /\ th' = th /\ live' = live
  BY ZenonT(30) DEF vars
<1>2. Shape' /\ OrderInv' /\ Apart' /\ EntryInv' /\ BlockInv'
  <2>0. Shape'
    BY <1>1, Zenon DEF BInv, Shape
  <2>1. OrderInv'
    BY <1>1 DEF BInv, OrderInv, Moved
  <2>2. Apart' /\ EntryInv'
    BY <1>1, ZenonT(30) DEF BInv, Apart, Busy, Hold, EntryInv, Standing, InHash
  <2>3. BlockInv'
    BY <1>1, ZenonT(30) DEF BInv, BlockInv, Busy, Hold, Standing
  <2>. QED  BY <2>0, <2>1, <2>2, <2>3, Zenon
<1>3. Bytes' = Bytes
  BY <1>1, ZenonT(30) DEF Bytes, Counted, Standing
<1>4. \A t \in Threads : LocalInv(t)'
  BY <1>1, ZenonT(30) DEF BInv, LocalInv, Busy, Hold, Moved, InHash
<1>5. QED
  BY <1>2, <1>3, <1>4, Zenon DEF BInv

\* Every step keeps the blocks and entries in order, and the sum with them.
LEMMA NextInv ==
    ASSUME BInv, Next
    PROVE  BInv' /\ Booked
<1>1. ASSUME NEW t \in Threads, NEW a \in Addrs, NEW x \in Infos, NEW n \in Sizes, malloc_call(t, a, x, n)
      PROVE  BInv' /\ Booked
  BY <1>1, MallocCallStep, MemAssumption, Zenon
<1>2. ASSUME NEW t \in Threads, malloc_size(t) \/ malloc_enter(t)  PROVE BInv' /\ Booked
  BY <1>2, MallocSizeStep, MallocEnterStep, MemAssumption, Zenon
<1>3. ASSUME NEW t \in Threads, NEW a \in Addrs, free_find(t, a) \/ zero_find(t, a)  PROVE BInv' /\ Booked
  BY <1>3, FreeFindStep, ZeroFindStep, MemAssumption, Zenon
<1>4. ASSUME NEW t \in Threads,
             free_size(t) \/ free_out(t) \/ release(t) \/ zero_out(t) \/ zero_size(t)
      PROVE  BInv' /\ Booked
  BY <1>4, FreeSizeStep, FreeOutStep, ReleaseStep, ZeroOutStep, ZeroSizeStep, MemAssumption, Zenon
<1>5. ASSUME NEW t \in Threads, NEW a \in Addrs, NEW n \in Sizes, realloc_find(t, a, n)  PROVE BInv' /\ Booked
  BY <1>5, ReallocFindStep, MemAssumption, Zenon
<1>6. ASSUME NEW t \in Threads, NEW b \in Addrs, realloc_call(t, b)  PROVE BInv' /\ Booked
  BY <1>6, ReallocCallStep, MemAssumption, Zenon
<1>7. ASSUME NEW t \in Threads,
             \/ realloc_nomem(t) \/ realloc_size(t) \/ realloc_store(t)
             \/ realloc_out(t) \/ realloc_enter(t)
      PROVE  BInv' /\ Booked
  BY <1>7, ReallocNomemStep, ReallocSizeStep, ReallocStoreStep, ReallocOutStep, ReallocEnterStep,
     MemAssumption, Zenon
<1>. QED
  BY <1>1, <1>2, <1>3, <1>4, <1>5, <1>6, <1>7, Zenon DEF Next

-----------------------------------------------------------------------------
(* total_mem_size as a number of bytes. *)

\* total_mem_size is the number of bytes that it stands for.
SumInv == IsFiniteSet(Bytes) /\ total_mem_size = Cardinality(Bytes)

\* The inductive invariant.
IInv == BInv /\ SumInv

\* total_mem_size follows the bytes when those of one entry x change from m to n.
LEMMA SumStep ==
    ASSUME SumInv, NEW x \in Infos, NEW m \in Nat, NEW n \in Nat,
           Charge(x, m), Charge(x, n)',
           \A y \in Infos \ {x}, k \in Nat \ {0} : <<y, k>> \in Bytes' <=> <<y, k>> \in Bytes,
           total_mem_size' = total_mem_size - m + n
    PROVE  SumInv' /\ total_mem_size' \in Nat
<1> DEFINE Old == {x} \X (1..m)
           New == {x} \X (1..n)
           Rest == Bytes \ Old
<1>1. Bytes \subseteq Infos \X (Nat \ {0}) /\ Bytes' \subseteq Infos \X (Nat \ {0})
  BY Zenon DEF Bytes
<1>2. Old \subseteq Bytes
  BY DEF Charge
<1>3. Bytes' = Rest \cup New
  <2>1. ASSUME NEW y \in Infos, NEW k \in Nat \ {0}
        PROVE  <<y, k>> \in Bytes' <=> <<y, k>> \in Rest \cup New
    <3>1. CASE y = x
      <4>1. <<x, k>> \in Bytes' <=> k <= n
        BY Zenon DEF Charge
      <4>2. <<x, k>> \in Bytes <=> k <= m
        BY Zenon DEF Charge
      <4>3. <<x, k>> \in Old <=> k <= m
        OBVIOUS
      <4>4. <<x, k>> \in New <=> k <= n
        OBVIOUS
      <4>. QED  BY <3>1, <4>1, <4>2, <4>3, <4>4, Zenon
    <3>2. CASE y # x
      <4>1. <<y, k>> \notin Old /\ <<y, k>> \notin New
        BY <3>2, Zenon
      <4>2. <<y, k>> \in Bytes' <=> <<y, k>> \in Bytes
        BY <3>2, Zenon
      <4>. QED  BY <4>1, <4>2, Zenon
    <3>. QED  BY <3>1, <3>2, Zenon
  <2>2. Rest \cup New \subseteq Infos \X (Nat \ {0})
    BY <1>1
  <2> HIDE DEF Old, New, Rest
  <2>. QED  BY <1>1, <2>1, <2>2
<1>4. Rest \cap New = {}
  BY <1>1 DEF Charge
<1>5. /\ IsFiniteSet(Old) /\ Cardinality(Old) = m
      /\ IsFiniteSet(New) /\ Cardinality(New) = n
  <2>1. \A q \in Nat : IsFiniteSet(1..q) /\ Cardinality(1..q) = q
    BY FS_Interval
  <2>2. IsFiniteSet({x}) /\ Cardinality({x}) = 1
    BY FS_Singleton, Zenon
  <2>3. \A q \in Nat : IsFiniteSet({x} \X (1..q)) /\ Cardinality({x} \X (1..q)) = 1 * q
    <3> SUFFICES ASSUME NEW q \in Nat
                 PROVE  IsFiniteSet({x} \X (1..q)) /\ Cardinality({x} \X (1..q)) = 1 * q
      BY Zenon
    <3>1. IsFiniteSet(1..q) /\ Cardinality(1..q) = q
      BY <2>1, Zenon
    <3>. QED  BY <2>2, <3>1, FS_Product, SMTT(30)
  <2>. QED  BY <2>3
<1> HIDE DEF Old, New
<1>6. IsFiniteSet(Rest) /\ Cardinality(Rest) = Cardinality(Bytes) - Cardinality(Bytes \cap Old)
  BY FS_Difference, Zenon DEF SumInv
<1>7. Bytes \cap Old = Old
  BY <1>2, Zenon
<1>8. /\ IsFiniteSet(Rest \cup New)
      /\ Cardinality(Rest \cup New) = Cardinality(Rest) + Cardinality(New) - Cardinality(Rest \cap New)
  BY <1>5, <1>6, FS_Union, Zenon
<1>9. Cardinality(Rest \cap New) = 0
  BY <1>4, FS_EmptySet, Zenon
<1>10. Cardinality(Rest) \in Nat /\ Cardinality(Bytes) \in Nat /\ Cardinality(Rest \cup New) \in Nat
  BY <1>6, <1>8, FS_CardinalityType, Zenon DEF SumInv
<1> HIDE DEF Rest
<1>11. total_mem_size' = Cardinality(Rest \cup New)
  <2>1. total_mem_size = Cardinality(Bytes) /\ Cardinality(Bytes) \in Nat
    BY <1>10, Zenon DEF SumInv
  <2>2. Cardinality(Rest) = Cardinality(Bytes) - m
    BY <1>5, <1>6, <1>7, Zenon
  <2>3. Cardinality(Rest \cup New) = Cardinality(Rest) + n
    BY <1>5, <1>8, <1>9, <1>10, SMTT(30)
  <2>. QED  BY <1>10, <2>1, <2>2, <2>3, Zenon
<1>12. QED
  BY <1>3, <1>8, <1>10, <1>11, Zenon DEF SumInv

\* The tracker keeps its inductive invariant: each thread's entry and block are
\* its own, the others are in the hash, and total_mem_size stands for the bytes
\* of both.
THEOREM Invariance == Spec => []IInv
<1>1. wys_mem_init => IInv
  BY InitInv, MemAssumption, FS_EmptySet, ZenonT(30) DEF IInv, SumInv, wys_mem_init
<1>2. IInv /\ [Next]_vars => IInv'
  <2> SUFFICES ASSUME IInv, [Next]_vars  PROVE IInv'
    OBVIOUS
  <2>1. CASE Next
    <3>1. BInv' /\ Booked
      BY <2>1, NextInv DEF IInv
    <3>2. SumInv'
      <4>1. PICK x \in Infos, m \in Nat, n \in Nat :
                    /\ Charge(x, m) /\ Charge(x, n)'
                    /\ \A y \in Infos \ {x}, k \in Nat \ {0} : <<y, k>> \in Bytes' <=> <<y, k>> \in Bytes
                    /\ total_mem_size' = total_mem_size - m + n
        BY <3>1, Zenon DEF Booked
      <4>. QED  BY <4>1, SumStep DEF IInv
    <3>. QED  BY <3>1, <3>2 DEF IInv
  <2>2. CASE UNCHANGED vars
    <3>1. BInv' /\ Bytes' = Bytes /\ total_mem_size' = total_mem_size
      BY <2>2, StutterInv DEF IInv, vars
    <3>. QED  BY <3>1 DEF IInv, SumInv
  <2>. QED  BY <2>1, <2>2
<1>3. QED
  BY <1>1, <1>2, PTL DEF Spec

\* The variables keep their types; in particular no order of the steps of
\* _malloc, _free and _realloc takes total_mem_size below zero.
THEOREM TypeCorrect == Spec => []TypeOK
<1>1. IInv => TypeOK
  <2> SUFFICES ASSUME IInv  PROVE TypeOK
    OBVIOUS
  <2>1. total_mem_size \in Nat
    BY FS_CardinalityType, ZenonT(30) DEF IInv, SumInv
  <2>. QED  BY <2>1 DEF IInv, BInv, Shape, Locals, TypeOK
<1>2. QED
  BY <1>1, Invariance, PTL

\* For any threads and any number of blocks, _find_hash finds the entry of a
\* caller's block and never another's, also while the entry of a block that
\* realloc moved still carries an address that is in use again.
THEOREM OwnEntryFound == Spec => []FindsOwnEntry
<1>1. IInv => FindsOwnEntry
  <2> SUFFICES ASSUME BInv  PROVE FindsOwnEntry
    BY Zenon DEF IInv
  <2>1. \A t \in Threads : th[t].pc # "unknown"
    BY Zenon DEF BInv, LocalInv
  <2>2. ASSUME NEW a \in Addrs, live[a] # 0
        PROVE  /\ _find_hash(a) # NoInfo
               /\ info[_find_hash(a)].size = live[a]
               /\ \A t \in Threads : th[t].info # _find_hash(a)
    <3>1. PICK x \in Infos : /\ _find_hash(a) = x /\ Standing(x) /\ InHash(x)
                             /\ info[x].addr = a /\ info[x].size = live[a]
      BY <2>2, Found, MemAssumption, Zenon
    <3>. QED  BY <3>1, MemAssumption, Zenon DEF Standing, MemAssumption
  <2>. QED  BY <2>1, <2>2, Zenon DEF FindsOwnEntry
<1>2. QED
  BY <1>1, Invariance, PTL

\* When no thread is inside the tracker, the bytes of the entries are as many
\* as the bytes that callers hold.
LEMMA IdleBytes ==
    ASSUME BInv, SumInv, \A t \in Threads : th[t].pc = "idle"
    PROVE  Cardinality(Bytes) = Cardinality(UNION {{a} \X (1..live[a]) : a \in Addrs})
<1> DEFINE Held == UNION {{a} \X (1..live[a]) : a \in Addrs}
           f == [b \in Bytes |-> <<info[b[1]].addr, b[2]>>]
<1>1. \A t \in Threads : th[t].info = NoInfo
  BY BusyFacts, MemAssumption, Zenon DEF BInv, LocalInv
<1>2. \A x \in Infos, k \in Nat \ {0} : <<x, k>> \in Bytes <=> Standing(x) /\ k <= info[x].size
  BY <1>1, MemAssumption, Zenon DEF Bytes, MemAssumption
<1>3. \A x \in Infos : Standing(x) => info[x].addr \in Addrs /\ live[info[x].addr] = info[x].size
  BY Zenon DEF BInv, Shape, EntryInv
<1>4. Bytes \subseteq Infos \X (Nat \ {0})
  BY Zenon DEF Bytes
<1>5. \A a, k : <<a, k>> \in Held <=> a \in Addrs /\ k \in 1..live[a]
  OBVIOUS
<1>6. f \in [Bytes -> Held]
  <2>1. ASSUME NEW b \in Bytes  PROVE <<info[b[1]].addr, b[2]>> \in Held
    <3>1. b[1] \in Infos /\ b[2] \in Nat \ {0} /\ b = <<b[1], b[2]>>
      BY <1>4
    <3>2. Standing(b[1]) /\ b[2] <= info[b[1]].size
      BY <1>2, <3>1, Zenon
    <3>3. b[2] \in 1..live[info[b[1]].addr]
      BY <1>3, <3>1, <3>2 DEF BInv, Shape
    <3>. QED  BY <1>3, <1>5, <3>1, <3>2, <3>3, Zenon
  <2>. QED  BY <2>1, Zenon
<1>7. \A b, c \in Bytes : f[b] = f[c] => b = c
  <2> SUFFICES ASSUME NEW b \in Bytes, NEW c \in Bytes, f[b] = f[c]  PROVE b = c
    BY Zenon
  <2>1. /\ b[1] \in Infos /\ b[2] \in Nat \ {0} /\ b = <<b[1], b[2]>>
        /\ c[1] \in Infos /\ c[2] \in Nat \ {0} /\ c = <<c[1], c[2]>>
    BY <1>4
  <2>2. Standing(b[1]) /\ Standing(c[1])
    BY <1>2, <2>1, Zenon
  <2>3. info[b[1]].addr = info[c[1]].addr /\ b[2] = c[2]
    BY Zenon
  <2>4. b[1] = c[1]
    BY <2>1, <2>2, <2>3, StandingApart, Zenon
  <2>. QED  BY <2>1, <2>3, <2>4, Zenon
<1>8. \A h \in Held : \E b \in Bytes : f[b] = h
  <2> SUFFICES ASSUME NEW h \in Held  PROVE \E b \in Bytes : f[b] = h
    BY Zenon
  <2>1. PICK a \in Addrs : h \in {a} \X (1..live[a])
    BY Zenon
  <2>2. PICK k \in 1..live[a] : h = <<a, k>>
    BY <2>1
  <2>3. live[a] \in Nat /\ k \in Nat \ {0} /\ live[a] # 0 /\ k <= live[a]
    BY DEF BInv, Shape
  <2>4. PICK x \in Infos : Standing(x) /\ info[x].addr = a
    BY <2>3, Zenon DEF BInv, BlockInv
  <2>5. <<x, k>> \in Bytes
    BY <1>2, <1>3, <2>3, <2>4, Zenon
  <2>6. f[<<x, k>>] = h
    BY <2>2, <2>4, <2>5, Zenon
  <2>. QED  BY <2>5, <2>6, Zenon
<1>9. f \in Bijection(Bytes, Held)
  BY <1>6, <1>7, <1>8, Zenon DEF Bijection, Injection, Surjection, IsInjective
<1>10. ExistsBijection(Bytes, Held)
  BY <1>9, Zenon DEF ExistsBijection
<1>11. QED
  BY <1>10, FS_Bijection, Zenon DEF SumInv

\* When no operation is under way, what wys_show_mem_info prints is exact: one
\* entry per block that a caller holds, and total_mem_size is the number of
\* bytes in them.
THEOREM Report == Spec => []ReportExact
<1>1. IInv => ReportExact
  <2> SUFFICES ASSUME BInv, SumInv, \A t \in Threads : th[t].pc = "idle"
               PROVE  /\ \A a \in Addrs : Cardinality({k \in DOMAIN hash : info[hash[k]].addr = a})
                                            = (IF live[a] # 0 THEN 1 ELSE 0)
                      /\ heap = {a \in Addrs : live[a] # 0}
                      /\ total_mem_size = Cardinality(UNION {{a} \X (1..live[a]) : a \in Addrs})
    BY Zenon DEF IInv, ReportExact
  <2>1. \A t \in Threads : th[t].info = NoInfo /\ ~Busy(t) /\ ~Moved(t)
    BY BusyFacts, MemAssumption, Zenon DEF BInv, LocalInv, Moved
  <2>2. \A k \in DOMAIN hash : hash[k] \in Infos /\ Standing(hash[k])
    <3>1. \A k \in DOMAIN hash : hash[k] \in Infos /\ InHash(hash[k])
      BY DEF BInv, Shape, InHash
    <3>2. \A k \in DOMAIN hash : info[hash[k]].addr # NoAddr
      BY <3>1, Zenon DEF BInv, EntryInv
    <3>. QED  BY <2>1, <3>1, <3>2, MemAssumption, Zenon DEF Standing, MemAssumption
  <2>3. ASSUME NEW a \in Addrs
        PROVE  Cardinality({k \in DOMAIN hash : info[hash[k]].addr = a})
                 = (IF live[a] # 0 THEN 1 ELSE 0)
    <3> DEFINE hits == {k \in DOMAIN hash : info[hash[k]].addr = a}
    <3>1. CASE live[a] = 0
      <4>1. hits = {}
        BY <2>2, <3>1, Zenon DEF BInv, EntryInv
      <4>. QED  BY <3>1, <4>1, FS_EmptySet, Zenon
    <3>2. CASE live[a] # 0
      <4>1. PICK x \in Infos : Standing(x) /\ info[x].addr = a
        BY <3>2, Zenon DEF BInv, BlockInv
      <4>2. PICK p \in DOMAIN hash : hash[p] = x
        BY <4>1, Zenon DEF BInv, EntryInv, InHash
      <4>3. \A k \in hits : hash[k] = x
        BY <2>2, <4>1, StandingApart, Zenon
      <4>4. hits = {p}
        BY <4>1, <4>2, <4>3, Zenon DEF BInv, OrderInv
      <4> HIDE DEF hits
      <4>5. Cardinality(hits) = 1
        BY <4>4, FS_Singleton, Zenon
      <4>. QED  BY <3>2, <4>5, Zenon DEF hits
    <3>. QED  BY <3>1, <3>2, Zenon
  <2>4. heap = {a \in Addrs : live[a] # 0}
    BY <2>1 DEF BInv, Shape, BlockInv, EntryInv
  <2>5. total_mem_size = Cardinality(UNION {{a} \X (1..live[a]) : a \in Addrs})
    BY IdleBytes, Zenon DEF SumInv
  <2>. QED  BY <2>3, <2>4, <2>5, Zenon
<1>2. QED
  BY <1>1, Invariance, PTL
=============================================================================
