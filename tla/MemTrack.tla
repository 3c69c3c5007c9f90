----------------------------- MODULE MemTrack -----------------------------
(***************************************************************************)
(* The allocation tracker of TCP_C/mem.c (TCP_SERVER/src/x-memory.c is a   *)
(* near copy): wys_malloc, wys_realloc and wys_free wrap the C library and *)
(* keep one mem_info_t per block in a hash, and the sum of the sizes in    *)
(* total_mem_size.  The hash and the sum have a lock each, and no lock     *)
(* covers a whole operation, so one action is one critical section or one  *)
(* call of the C library.                                                  *)
(*                                                                         *)
(* A bucket is a list with new entries at its head, and a search compares  *)
(* addresses, so the hash is one sequence of entries, newest first.        *)
(***************************************************************************)
EXTENDS Integers, Sequences, FiniteSets, FiniteSetsExt

CONSTANTS Threads, Addrs, Infos, Sizes, NoInfo, NoAddr

ASSUME MemAssumption ==
    /\ NoInfo \notin Infos /\ NoAddr \notin Addrs
    /\ Sizes \subseteq Nat \ {0}

VARIABLES heap,            \* the addresses the C library has handed out
          info,            \* addr and size of every mem_info_t
          hash,            \* the entries of wys_meminfo_hash, newest first
          total_mem_size,
          th,              \* each thread: control point and locals
          live             \* size of every block a caller holds, else 0

vars == <<heap, info, hash, total_mem_size, th, live>>

Idle == [pc |-> "idle", ptr |-> NoAddr, addr |-> NoAddr, size |-> 0, info |-> NoInfo]

Unused(x) == info[x].addr = NoAddr

\* wys_mem_init
wys_mem_init ==
    /\ heap = {}
    /\ info = [x \in Infos |-> [addr |-> NoAddr, size |-> 0]]
    /\ hash = <<>>
    /\ total_mem_size = 0
    /\ th = [t \in Threads |-> Idle]
    /\ live = [a \in Addrs |-> 0]

\* _find_hash: the first entry with the address, or NULL.
_find_hash(a) ==
    LET hits == {k \in DOMAIN hash : info[hash[k]].addr = a}
    IN  IF hits = {} THEN NoInfo ELSE hash[Min(hits)]

EnterAtTail(x) == hash' = Append(hash, x)

\* _enter_hash and _out_hash.
_enter_hash(x) == hash' = <<x>> \o hash
_out_hash(x) ==
    LET p == CHOOSE k \in DOMAIN hash : hash[k] = x
    IN  hash' = [k \in 1..(Len(hash) - 1) |-> IF k < p THEN hash[k] ELSE hash[k + 1]]

\* Thread t moves from one control point to the next.
Goto(t, from, to) == th[t].pc = from /\ th' = [th EXCEPT ![t].pc = to]

-----------------------------------------------------------------------------
(* _malloc.  Without memory it undoes what it did and returns NULL. *)

malloc_call(t, a, x, n) ==
    /\ th[t].pc = "idle"
    /\ a \notin heap /\ Unused(x)
    /\ heap' = heap \cup {a}
    /\ info' = [info EXCEPT ![x] = [addr |-> a, size |-> n]]
    /\ th' = [th EXCEPT ![t] = [Idle EXCEPT !.pc = "m_size", !.addr = a, !.size = n, !.info = x]]
    /\ UNCHANGED <<hash, total_mem_size, live>>

malloc_size(t) ==
    /\ Goto(t, "m_size", "m_enter")
    /\ total_mem_size' = total_mem_size + th[t].size
    /\ UNCHANGED <<heap, info, hash, live>>

malloc_enter(t) ==
    /\ th[t].pc = "m_enter"
    /\ _enter_hash(th[t].info)
    /\ live' = [live EXCEPT ![th[t].addr] = th[t].size]
    /\ th' = [th EXCEPT ![t] = Idle]
    /\ UNCHANGED <<heap, info, total_mem_size>>

-----------------------------------------------------------------------------
(* _free, the size 0 of _realloc, and its path without memory: they take   *)
(* the entry out and the size off in one order or the other.               *)

\* The caller gives up block a; an unknown address is only reported.
Begin(t, a, n, found, first) ==
    th' = [th EXCEPT ![t] =
             IF found = NoInfo THEN [Idle EXCEPT !.pc = "unknown"]
             ELSE [Idle EXCEPT !.pc = first, !.ptr = a, !.size = n, !.info = found]]

free_find(t, a) ==
    /\ th[t].pc = "idle" /\ live[a] # 0
    /\ Begin(t, a, 0, _find_hash(a), "f_size")
    /\ live' = [live EXCEPT ![a] = 0]
    /\ UNCHANGED <<heap, info, hash, total_mem_size>>

FreeCountsTwice(t) ==
    /\ Goto(t, "f_size", "f_out")
    /\ total_mem_size' = total_mem_size - 2 * info[th[t].info].size
    /\ UNCHANGED <<heap, info, hash, live>>

free_size(t) ==
    /\ Goto(t, "f_size", "f_out")
    /\ total_mem_size' = total_mem_size - info[th[t].info].size
    /\ UNCHANGED <<heap, info, hash, live>>

free_out(t) ==
    /\ Goto(t, "f_out", "release")
    /\ _out_hash(th[t].info)
    /\ UNCHANGED <<heap, info, total_mem_size, live>>

\* free(info) and free(ptr).
release(t) ==
    /\ th[t].pc = "release"
    /\ heap' = heap \ {th[t].ptr}
    /\ info' = [info EXCEPT ![th[t].info] = [addr |-> NoAddr, size |-> 0]]
    /\ th' = [th EXCEPT ![t] = Idle]
    /\ UNCHANGED <<hash, total_mem_size, live>>

zero_find(t, a) ==
    /\ th[t].pc = "idle" /\ live[a] # 0
    /\ Begin(t, a, 0, _find_hash(a), "z_out")
    /\ live' = [live EXCEPT ![a] = 0]
    /\ UNCHANGED <<heap, info, hash, total_mem_size>>

zero_out(t) ==
    /\ Goto(t, "z_out", "z_size")
    /\ _out_hash(th[t].info)
    /\ UNCHANGED <<heap, info, total_mem_size, live>>

zero_size(t) ==
    /\ Goto(t, "z_size", "release")
    /\ total_mem_size' = total_mem_size - info[th[t].info].size
    /\ UNCHANGED <<heap, info, hash, live>>

-----------------------------------------------------------------------------
(* _realloc to another size.  The same size returns at once and changes    *)
(* nothing; a smaller one is only reported.                                *)

realloc_find(t, a, n) ==
    /\ th[t].pc = "idle" /\ live[a] # 0
    /\ _find_hash(a) # NoInfo => info[_find_hash(a)].size # n
    /\ Begin(t, a, n, _find_hash(a), "r_call")
    /\ live' = [live EXCEPT ![a] = 0]
    /\ UNCHANGED <<heap, info, hash, total_mem_size>>

\* realloc(ptr, size): in place, or moved to b, which frees ptr at once while
\* its entry is still in the hash.
realloc_call(t, b) ==
    /\ th[t].pc = "r_call"
    /\ b = th[t].ptr \/ b \notin heap
    /\ heap' = (heap \ {th[t].ptr}) \cup {b}
    /\ th' = [th EXCEPT ![t].pc = "r_size", ![t].addr = b]
    /\ UNCHANGED <<info, hash, total_mem_size, live>>

\* No memory: the entry is looked up again and the old block is freed.
realloc_nomem(t) ==
    /\ th[t].pc = "r_call"
    /\ Begin(t, th[t].ptr, 0, _find_hash(th[t].ptr), "z_out")
    /\ UNCHANGED <<heap, info, hash, total_mem_size, live>>

ReallocAddsWhole(t) ==
    /\ Goto(t, "r_size", IF th[t].addr = th[t].ptr THEN "r_store" ELSE "r_out")
    /\ total_mem_size' = total_mem_size + th[t].size
    /\ UNCHANGED <<heap, info, hash, live>>

realloc_size(t) ==
    /\ Goto(t, "r_size", IF th[t].addr = th[t].ptr THEN "r_store" ELSE "r_out")
    /\ total_mem_size' = total_mem_size + th[t].size - info[th[t].info].size
    /\ UNCHANGED <<heap, info, hash, live>>

realloc_store(t) ==
    /\ th[t].pc = "r_store"
    /\ info' = [info EXCEPT ![th[t].info].size = th[t].size]
    /\ live' = [live EXCEPT ![th[t].addr] = th[t].size]
    /\ th' = [th EXCEPT ![t] = Idle]
    /\ UNCHANGED <<heap, hash, total_mem_size>>

\* The entry leaves the hash before its address changes.
realloc_out(t) ==
    /\ Goto(t, "r_out", "r_enter")
    /\ _out_hash(th[t].info)
    /\ info' = [info EXCEPT ![th[t].info] = [addr |-> th[t].addr, size |-> th[t].size]]
    /\ UNCHANGED <<heap, total_mem_size, live>>

realloc_enter(t) ==
    /\ th[t].pc = "r_enter"
    /\ _enter_hash(th[t].info)
    /\ live' = [live EXCEPT ![th[t].addr] = th[t].size]
    /\ th' = [th EXCEPT ![t] = Idle]
    /\ UNCHANGED <<heap, info, total_mem_size>>

Next ==
    \E t \in Threads :
        \/ \E a \in Addrs, x \in Infos, n \in Sizes : malloc_call(t, a, x, n)
        \/ malloc_size(t) \/ malloc_enter(t)
        \/ \E a \in Addrs : free_find(t, a) \/ zero_find(t, a)
        \/ free_size(t) \/ free_out(t) \/ release(t) \/ zero_out(t) \/ zero_size(t)
        \/ \E a \in Addrs, n \in Sizes : realloc_find(t, a, n)
        \/ \E b \in Addrs : realloc_call(t, b)
        \/ realloc_nomem(t) \/ realloc_size(t) \/ realloc_store(t)
        \/ realloc_out(t) \/ realloc_enter(t)

Spec == wys_mem_init /\ [][Next]_vars

-----------------------------------------------------------------------------
(* Properties. *)

PCs == {"idle", "m_size", "m_enter", "f_size", "f_out", "release", "z_out",
        "z_size", "r_call", "r_size", "r_store", "r_out", "r_enter", "unknown"}

\* Every variable keeps its type; the sum of sizes never goes below zero.
TypeOK ==
    /\ heap \subseteq Addrs
    /\ info \in [Infos -> [addr : Addrs \cup {NoAddr}, size : Nat]]
    /\ hash \in Seq(Infos)
    /\ total_mem_size \in Nat
    /\ th \in [Threads -> [pc : PCs, ptr : Addrs \cup {NoAddr}, addr : Addrs \cup {NoAddr},
                          size : Nat, info : Infos \cup {NoInfo}]]
    /\ live \in [Addrs -> Nat]

\* The entry a caller's block is found under is the block's own, also in the
\* window in which a block moved by realloc has left its address to another
\* thread but its entry still carries that address: a search never returns
\* another block's entry, and none ends in "Double Free!".
FindsOwnEntry ==
    /\ \A t \in Threads : th[t].pc # "unknown"
    /\ \A a \in Addrs : live[a] # 0 =>
          /\ _find_hash(a) # NoInfo
          /\ info[_find_hash(a)].size = live[a]
          /\ \A t \in Threads : th[t].info # _find_hash(a)

\* When no operation is under way the report of wys_show_mem_info is exact:
\* one entry per block held, and total_mem_size is the number of bytes held.
ReportExact ==
    (\A t \in Threads : th[t].pc = "idle") =>
        /\ \A a \in Addrs : Cardinality({k \in DOMAIN hash : info[hash[k]].addr = a})
                              = (IF live[a] # 0 THEN 1 ELSE 0)
        /\ heap = {a \in Addrs : live[a] # 0}
        /\ total_mem_size = Cardinality(UNION {{a} \X (1..live[a]) : a \in Addrs})

=============================================================================
