--------------------------- MODULE DbPool_proofs ---------------------------
(***************************************************************************)
(* The safety invariants of DbPool hold for every finite number of threads *)
(* and any number of attempts, requests and pieces of a reply.             *)
(***************************************************************************)
EXTENDS DbPool, FiniteSetTheorems, TLAPS

\* The threads that use a connection, and those that use or will create one.
Holders  == {t \in Threads : conn[t] # NoConn}
Claimers == {t \in Threads : conn[t] # NoConn \/ pc[t] = "new"}

\* pool_count is the free connections and those in use.
PoolCounted ==
    /\ IsFiniteSet(pool) /\ pool_count = Cardinality(pool)
    /\ pool_count = Len(free) + Cardinality(Holders)

\* A connection is created only for a thread that found the list empty: what
\* is free, in use or about to be created never exceeds the threads.
ClaimsBounded == Len(free) + Cardinality(Claimers) <= Cardinality(Threads)

\* Nothing is under way on a connection.
Quiet(c) == asked[c] = <<>> /\ reply[c] = <<>>

\* What is under way on the connection of a waiting thread is its request, or
\* the pieces of the reply to it, the last of which is marked.
Awaits(t) ==
    /\ \/ asked[conn[t]] = <<>>
       \/ asked[conn[t]] = <<<<t, num[t]>>>> /\ reply[conn[t]] = <<>>
    /\ \A k \in DOMAIN reply[conn[t]] :
         /\ reply[conn[t]][k].req = <<t, num[t]>>
         /\ reply[conn[t]][k].last <=> k = Len(reply[conn[t]])

\* What is under way on a connection belongs to the call that uses it; a
\* connection that is free, or about to be used or returned, is quiet.
WireMatches ==
    /\ \A c \in Conns : link[c] = "closed" => Quiet(c)
    /\ \A k \in 1..Len(free) : Quiet(free[k])
    /\ \A t \in Threads : pc[t] \in {"send", "push"} => Quiet(conn[t])
    /\ \A t \in Threads : pc[t] = "recv" => Awaits(t)

\* Every connection of the pool is free, once, or used by one thread.  This is
\* OneHolder without its counters, element by element.
Exclusive ==
    /\ free_count = Len(free)
    /\ \A c \in Conns : c \in pool <=> link[c] # "closed"
    /\ \A j, k \in 1..Len(free) : j # k => free[j] # free[k]
    /\ \A t, u \in Threads : t # u /\ conn[t] # NoConn => conn[t] # conn[u]
    /\ \A t \in Threads, k \in 1..Len(free) : conn[t] # free[k]
    /\ \A k \in 1..Len(free) : free[k] \in pool
    /\ \A t \in Threads : conn[t] # NoConn => conn[t] \in pool
    /\ \A c \in pool : \/ \E k \in 1..Len(free) : free[k] = c
                       \/ \E t \in Threads : conn[t] = c

\* The inductive invariant.
IInv == TypeOK /\ Exclusive /\ PoolCounted /\ ClaimsBounded /\ WireMatches /\ RepliesMatch

\* Nothing sent and nothing received are sequences, too.
LEMMA NothingIsSeq == \A S : <<>> \in Seq(S)
OBVIOUS

\* A sequence of length 0 is nothing.
LEMMA LengthZero ==
  ASSUME NEW S, NEW s \in Seq(S), Len(s) = 0
  PROVE  s = <<>>
OBVIOUS

-----------------------------------------------------------------------------
\* The invariant gives the property the runs check.
LEMMA ExclusiveOneHolder == TypeOK /\ Exclusive /\ PoolCounted => OneHolder
<1> SUFFICES ASSUME TypeOK, Exclusive, PoolCounted PROVE OneHolder
  BY Zenon
<1>0. free \in Seq(Conns) /\ conn \in [Threads -> Conns \cup {NoConn}]
      /\ pool \subseteq Conns
  BY Zenon DEF TypeOK
<1>1. DOMAIN free = 1..Len(free)
  BY <1>0
<1>2. pool = {c \in Conns : link[c] # "closed"}
  BY <1>0, Zenon DEF Exclusive
<1>3. pool \subseteq {free[k] : k \in DOMAIN free} \cup ({conn[t] : t \in Threads} \ {NoConn})
  BY <1>0, <1>1, DbAssumption, ZenonT(30) DEF Exclusive
<1>4. {free[k] : k \in DOMAIN free} \cup ({conn[t] : t \in Threads} \ {NoConn}) \subseteq pool
  BY <1>0, <1>1 DEF Exclusive
<1> QED
  BY <1>1, <1>2, <1>3, <1>4, Zenon DEF OneHolder, Exclusive, PoolCounted

\* A step that leaves the list, the pool and who holds what alone.
LEMMA ExclusiveStays ==
  ASSUME Exclusive, UNCHANGED <<free, free_count, pool, conn, link>>
  PROVE  Exclusive'
BY ZenonT(30) DEF Exclusive

\* A step that moves no connection keeps the count.
LEMMA CountStays ==
  ASSUME PoolCounted, UNCHANGED <<free, pool, pool_count, conn>>
  PROVE  PoolCounted'
<1>1. Holders' = Holders
  BY Zenon DEF Holders
<1> QED
  BY <1>1, Zenon DEF PoolCounted

\* A step after which no further thread claims a connection.
LEMMA ClaimsStay ==
  ASSUME ClaimsBounded, free \in Seq(Conns), UNCHANGED free, Claimers' \subseteq Claimers
  PROVE  ClaimsBounded'
<1>1. IsFiniteSet(Claimers) /\ Claimers \subseteq Threads
  BY DbAssumption, FS_Subset, Zenon DEF Claimers
<1>2. Cardinality(Claimers') <= Cardinality(Claimers) /\ Cardinality(Claimers') \in Nat
  BY <1>1, FS_Subset, FS_CardinalityType, Zenon
<1>3. Cardinality(Claimers) \in Nat /\ Cardinality(Threads) \in Nat
  BY <1>1, DbAssumption, FS_CardinalityType, Zenon
<1>4. Len(free) \in Nat /\ Len(free') = Len(free)
  OBVIOUS
<1> QED
  BY <1>2, <1>3, <1>4 DEF ClaimsBounded

\* A step after which no further thread relies on its connection.
LEMMA WireStays ==
  ASSUME WireMatches, UNCHANGED <<free, conn, link, asked, reply>>,
         \A u \in Threads : pc'[u] \in {"send", "push", "recv"} => pc'[u] = pc[u] /\ num'[u] = num[u]
  PROVE  WireMatches'
BY ZenonT(30) DEF WireMatches, Quiet, Awaits

\* A step that touches the wire of one thread's connection only.
LEMMA WireElsewhere ==
  ASSUME TypeOK, Exclusive, WireMatches, NEW t \in Threads, conn[t] \in Conns,
         UNCHANGED <<free, conn, link, num>>,
         \A c \in Conns \ {conn[t]} : asked'[c] = asked[c] /\ reply'[c] = reply[c],
         \A u \in Threads \ {t} : pc'[u] = pc[u],
         pc'[t] \in {"send", "push"} => Quiet(conn[t])',
         pc'[t] = "recv" => Awaits(t)'
  PROVE  WireMatches'
<1>1. /\ link[conn[t]] # "closed"
      /\ \A u \in Threads \ {t} : conn[u] # conn[t]
      /\ \A k \in 1..Len(free) : free[k] # conn[t] /\ free[k] \in Conns
  BY DbAssumption DEF TypeOK, Exclusive
<1>2. \A u \in Threads : pc[u] \in {"send", "push", "recv"} => conn[u] \in Conns
  BY DEF TypeOK
<1>3. \A c \in Conns \ {conn[t]} : Quiet(c)' <=> Quiet(c)
  BY Zenon DEF Quiet
<1>4. \A u \in Threads \ {t} : pc[u] = "recv" => (Awaits(u)' <=> Awaits(u))
  BY <1>1, <1>2, SMTT(30) DEF Awaits
<1>5. (\A c \in Conns : link[c] = "closed" => Quiet(c))'
  BY <1>1, <1>3, Zenon DEF WireMatches
<1>6. (\A k \in 1..Len(free) : Quiet(free[k]))'
  <2> SUFFICES ASSUME NEW k \in 1..Len(free) PROVE Quiet(free[k])'
    BY Zenon
  <2> QED
    BY <1>1 DEF WireMatches, Quiet
<1>7. (\A u \in Threads : pc[u] \in {"send", "push"} => Quiet(conn[u]))'
  <2> SUFFICES ASSUME NEW u \in Threads, pc'[u] \in {"send", "push"} PROVE Quiet(conn[u])'
    BY Zenon
  <2> QED
    BY <1>1, <1>2 DEF WireMatches, Quiet
<1>8. (\A u \in Threads : pc[u] = "recv" => Awaits(u))'
  BY <1>4, Zenon DEF WireMatches
<1> QED
  BY <1>5, <1>6, <1>7, <1>8, Zenon DEF WireMatches

-----------------------------------------------------------------------------
(* The actions that move no connection. *)

\* A new call of _dbcmd resets what the thread has read and asked.
LEMMA dbcmd_IInv ==
  ASSUME IInv, NEW t \in Threads, _dbcmd(t)
  PROVE  IInv'
<1> USE DbAssumption
<1>1. TypeOK'
  BY SMTT(20) DEF IInv, TypeOK, _dbcmd, poolVars, callVars, wire, PC, RNO
<1>2. Exclusive'
  BY ExclusiveStays, Zenon DEF IInv, _dbcmd, poolVars, callVars, wire
<1>3. PoolCounted'
  BY CountStays, Zenon DEF IInv, _dbcmd, poolVars, callVars, wire
<1>4. Claimers' \subseteq Claimers
  BY Zenon DEF Claimers, IInv, TypeOK, _dbcmd, poolVars, callVars, wire
<1>5. ClaimsBounded'
  BY <1>4, ClaimsStay, Zenon DEF IInv, TypeOK, _dbcmd, poolVars, callVars, wire
<1>6. WireMatches'
  <2>1. \A u \in Threads : pc'[u] \in {"send", "push", "recv"} => pc'[u] = pc[u] /\ num'[u] = num[u]
    BY Zenon DEF IInv, TypeOK, _dbcmd, poolVars, callVars, wire
  <2> QED
    BY <2>1, WireStays, Zenon DEF IInv, _dbcmd, poolVars, callVars, wire
<1>7. RepliesMatch'
  BY SMTT(30) DEF RepliesMatch, IInv, TypeOK, _dbcmd, poolVars, callVars, wire
<1> QED
  BY <1>1, <1>2, <1>3, <1>5, <1>6, <1>7, Zenon DEF IInv

\* REDO only counts the attempt.
LEMMA redo_IInv ==
  ASSUME IInv, NEW t \in Threads, redo(t)
  PROVE  IInv'
<1> USE DbAssumption
<1>1. TypeOK'
  BY SMTT(20) DEF IInv, TypeOK, redo, poolVars, callVars, wire, PC, RNO
<1>2. Exclusive'
  BY ExclusiveStays, Zenon DEF IInv, redo, poolVars, callVars, wire
<1>3. PoolCounted'
  BY CountStays, Zenon DEF IInv, redo, poolVars, callVars, wire
<1>4. Claimers' \subseteq Claimers
  BY Zenon DEF Claimers, IInv, TypeOK, redo, poolVars, callVars, wire
<1>5. ClaimsBounded'
  BY <1>4, ClaimsStay, Zenon DEF IInv, TypeOK, redo, poolVars, callVars, wire
<1>6. WireMatches'
  <2>1. \A u \in Threads : pc'[u] \in {"send", "push", "recv"} => pc'[u] = pc[u] /\ num'[u] = num[u]
    BY Zenon DEF IInv, TypeOK, redo, poolVars, callVars, wire
  <2> QED
    BY <2>1, WireStays, Zenon DEF IInv, redo, poolVars, callVars, wire
<1>7. RepliesMatch'
  BY Zenon DEF RepliesMatch, IInv, TypeOK, redo, poolVars, callVars, wire
<1> QED
  BY <1>1, <1>2, <1>3, <1>5, <1>6, <1>7, Zenon DEF IInv

\* A call that cannot connect returns without a connection.
LEMMA connect_fails_IInv ==
  ASSUME IInv, NEW t \in Threads, connect_fails(t)
  PROVE  IInv'
<1> USE DbAssumption
<1>1. TypeOK'
  BY SMTT(20) DEF IInv, TypeOK, connect_fails, poolVars, callVars, wire, PC, RNO
<1>2. Exclusive'
  BY ExclusiveStays, Zenon DEF IInv, connect_fails, poolVars, callVars, wire
<1>3. PoolCounted'
  BY CountStays, Zenon DEF IInv, connect_fails, poolVars, callVars, wire
<1>4. Claimers' \subseteq Claimers
  BY Zenon DEF Claimers, IInv, TypeOK, connect_fails, poolVars, callVars, wire
<1>5. ClaimsBounded'
  BY <1>4, ClaimsStay, Zenon DEF IInv, TypeOK, connect_fails, poolVars, callVars, wire
<1>6. WireMatches'
  <2>1. \A u \in Threads : pc'[u] \in {"send", "push", "recv"} => pc'[u] = pc[u] /\ num'[u] = num[u]
    BY Zenon DEF IInv, TypeOK, connect_fails, poolVars, callVars, wire
  <2> QED
    BY <2>1, WireStays, Zenon DEF IInv, connect_fails, poolVars, callVars, wire
<1>7. RepliesMatch'
  BY Zenon DEF RepliesMatch, IInv, TypeOK, connect_fails, poolVars, callVars, wire
<1> QED
  BY <1>1, <1>2, <1>3, <1>5, <1>6, <1>7, Zenon DEF IInv

\* A call whose connection is gone turns to destroy it.
LEMMA broken_IInv ==
  ASSUME IInv, NEW t \in Threads, broken(t)
  PROVE  IInv'
<1> USE DbAssumption
<1>1. TypeOK'
  BY SMTT(20) DEF IInv, TypeOK, broken, Failed, poolVars, callVars, wire, PC, RNO
<1>2. Exclusive'
  BY ExclusiveStays, Zenon DEF IInv, broken, Failed, poolVars, callVars, wire
<1>3. PoolCounted'
  BY CountStays, Zenon DEF IInv, broken, Failed, poolVars, callVars, wire
<1>4. Claimers' \subseteq Claimers
  BY Zenon DEF Claimers, IInv, TypeOK, broken, Failed, poolVars, callVars, wire
<1>5. ClaimsBounded'
  BY <1>4, ClaimsStay, Zenon DEF IInv, TypeOK, broken, Failed, poolVars, callVars, wire
<1>6. WireMatches'
  <2>1. \A u \in Threads : pc'[u] \in {"send", "push", "recv"} => pc'[u] = pc[u] /\ num'[u] = num[u]
    BY Zenon DEF IInv, TypeOK, broken, Failed, poolVars, callVars, wire
  <2> QED
    BY <2>1, WireStays, Zenon DEF IInv, broken, Failed, poolVars, callVars, wire
<1>7. RepliesMatch'
  BY SMTT(30) DEF RepliesMatch, IInv, TypeOK, broken, Failed, poolVars, callVars, wire
<1> QED
  BY <1>1, <1>2, <1>3, <1>5, <1>6, <1>7, Zenon DEF IInv

\* SIGPIPE ends every thread where it is.
LEMMA sigpipe_IInv ==
  ASSUME IInv, NEW t \in Threads, sigpipe(t)
  PROVE  IInv'
<1> USE DbAssumption
<1>1. TypeOK'
  BY Zenon DEF IInv, TypeOK, sigpipe, poolVars, callVars, wire, PC, RNO
<1>2. Exclusive'
  BY ExclusiveStays, Zenon DEF IInv, sigpipe, poolVars, callVars, wire
<1>3. PoolCounted'
  BY CountStays, Zenon DEF IInv, sigpipe, poolVars, callVars, wire
<1>4. Claimers' \subseteq Claimers
  BY Zenon DEF Claimers, IInv, TypeOK, sigpipe, poolVars, callVars, wire
<1>5. ClaimsBounded'
  BY <1>4, ClaimsStay, Zenon DEF IInv, TypeOK, sigpipe, poolVars, callVars, wire
<1>6. WireMatches'
  <2>1. \A u \in Threads : pc'[u] \in {"send", "push", "recv"} => pc'[u] = pc[u] /\ num'[u] = num[u]
    BY Zenon DEF IInv, TypeOK, sigpipe, poolVars, callVars, wire
  <2> QED
    BY <2>1, WireStays, Zenon DEF IInv, sigpipe, poolVars, callVars, wire
<1>7. RepliesMatch'
  BY Zenon DEF RepliesMatch, IInv, TypeOK, sigpipe, poolVars, callVars, wire
<1> QED
  BY <1>1, <1>2, <1>3, <1>5, <1>6, <1>7, Zenon DEF IInv

\* A call that times out turns to destroy its connection.
LEMMA timeout_IInv ==
  ASSUME IInv, NEW t \in Threads, timeout(t)
  PROVE  IInv'
<1> USE DbAssumption
<1>1. TypeOK'
  BY SMTT(20) DEF IInv, TypeOK, timeout, Failed, poolVars, callVars, wire, PC, RNO
<1>2. Exclusive'
  BY ExclusiveStays, Zenon DEF IInv, timeout, Failed, poolVars, callVars, wire
<1>3. PoolCounted'
  BY CountStays, Zenon DEF IInv, timeout, Failed, poolVars, callVars, wire
<1>4. Claimers' \subseteq Claimers
  BY Zenon DEF Claimers, IInv, TypeOK, timeout, Failed, poolVars, callVars, wire
<1>5. ClaimsBounded'
  BY <1>4, ClaimsStay, Zenon DEF IInv, TypeOK, timeout, Failed, poolVars, callVars, wire
<1>6. WireMatches'
  <2>1. \A u \in Threads : pc'[u] \in {"send", "push", "recv"} => pc'[u] = pc[u] /\ num'[u] = num[u]
    BY Zenon DEF IInv, TypeOK, timeout, Failed, poolVars, callVars, wire
  <2> QED
    BY <2>1, WireStays, Zenon DEF IInv, timeout, Failed, poolVars, callVars, wire
<1>7. RepliesMatch'
  BY SMTT(30) DEF RepliesMatch, IInv, TypeOK, timeout, Failed, poolVars, callVars, wire
<1> QED
  BY <1>1, <1>2, <1>3, <1>5, <1>6, <1>7, Zenon DEF IInv

\* The database comes back: no connection is affected.
LEMMA db_start_IInv ==
  ASSUME IInv, db_start
  PROVE  IInv'
<1> USE DbAssumption
<1>1. TypeOK'
  BY Zenon DEF IInv, TypeOK, db_start, poolVars, callVars, wire, PC, RNO
<1>2. Exclusive'
  BY ExclusiveStays, Zenon DEF IInv, db_start, poolVars, callVars, wire
<1>3. PoolCounted'
  BY CountStays, Zenon DEF IInv, db_start, poolVars, callVars, wire
<1>4. Claimers' \subseteq Claimers
  BY Zenon DEF Claimers, IInv, TypeOK, db_start, poolVars, callVars, wire
<1>5. ClaimsBounded'
  BY <1>4, ClaimsStay, Zenon DEF IInv, TypeOK, db_start, poolVars, callVars, wire
<1>6. WireMatches'
  <2>1. \A u \in Threads : pc'[u] \in {"send", "push", "recv"} => pc'[u] = pc[u] /\ num'[u] = num[u]
    BY Zenon DEF IInv, TypeOK, db_start, poolVars, callVars, wire
  <2> QED
    BY <2>1, WireStays, Zenon DEF IInv, db_start, poolVars, callVars, wire
<1>7. RepliesMatch'
  BY Zenon DEF RepliesMatch, IInv, TypeOK, db_start, poolVars, callVars, wire
<1> QED
  BY <1>1, <1>2, <1>3, <1>5, <1>6, <1>7, Zenon DEF IInv

-----------------------------------------------------------------------------
(* The wire. *)

\* The request goes out on a quiet connection, so it is alone there.
LEMMA dbsend_IInv ==
  ASSUME IInv, NEW t \in Threads, _dbsend(t)
  PROVE  IInv'
<1> USE DbAssumption
<1>1. TypeOK'
  BY SMTT(20) DEF IInv, TypeOK, _dbsend, poolVars, callVars, wire, PC, RNO, Request
<1>2. Exclusive'
  BY ExclusiveStays, Zenon DEF IInv, _dbsend, poolVars, callVars, wire
<1>3. PoolCounted'
  BY CountStays, Zenon DEF IInv, _dbsend, poolVars, callVars, wire
<1>4. Claimers' \subseteq Claimers
  BY Zenon DEF Claimers, IInv, TypeOK, _dbsend, poolVars, callVars, wire
<1>5. ClaimsBounded'
  BY <1>4, ClaimsStay, Zenon DEF IInv, TypeOK, _dbsend, poolVars, callVars, wire
<1>6. WireMatches'
  <2>1. conn[t] \in Conns
    BY Zenon DEF IInv, TypeOK, _dbsend
  <2>2. asked[conn[t]] = <<>> /\ reply[conn[t]] = <<>>
    BY Zenon DEF IInv, WireMatches, Quiet, _dbsend
  <2>3. /\ asked'[conn[t]] \in {<<>>, <<<<t, num[t]>>>>}
        /\ \A c \in Conns \ {conn[t]} : asked'[c] = asked[c]
        /\ \A u \in Threads \ {t} : pc'[u] = pc[u]
        /\ pc'[t] = "recv"
        /\ UNCHANGED <<free, conn, link, reply, num>>
    BY <2>1, <2>2 DEF IInv, TypeOK, _dbsend, poolVars
  <2>4. Awaits(t)'
    BY <2>2, <2>3 DEF Awaits
  <2> QED
    BY <2>1, <2>3, <2>4, WireElsewhere, Zenon DEF IInv
<1>7. RepliesMatch'
  BY Zenon DEF RepliesMatch, IInv, TypeOK, _dbsend, poolVars, callVars, wire
<1> QED
  BY <1>1, <1>2, <1>3, <1>5, <1>6, <1>7, Zenon DEF IInv

\* The piece read belongs to the call; the last one leaves the connection quiet.
LEMMA dbrecv_IInv ==
  ASSUME IInv, NEW t \in Threads, _dbrecv(t)
  PROVE  IInv'
<1> USE DbAssumption
<1> DEFINE p == Head(reply[conn[t]])
<1>0. /\ conn[t] \in Conns /\ link[conn[t]] # "closed"
      /\ reply[conn[t]] \in Seq(Piece) /\ reply[conn[t]] # <<>>
      /\ \A u \in Threads \ {t} : conn[u] # conn[t]
      /\ \A k \in 1..Len(free) : free[k] # conn[t]
  BY Zenon DEF IInv, TypeOK, Exclusive, _dbrecv
<1>a. p \in Piece /\ p = reply[conn[t]][1] /\ 1 \in DOMAIN reply[conn[t]]
  BY <1>0
<1>b. /\ buf' = [buf EXCEPT ![t] = Append(@, p)]
      /\ pc' = [pc EXCEPT ![t] = IF p.last THEN "push" ELSE "recv"]
      /\ pc[t] = "recv"
      /\ reply' = [reply EXCEPT ![conn[t]] = Tail(@)]
      /\ UNCHANGED <<poolVars, conn, trycnt, rno, num, excuse, link, asked, db>>
  BY Zenon DEF _dbrecv
<1>d. Awaits(t)
  BY <1>b, Zenon DEF IInv, WireMatches
<1>c. p.req = <<t, num[t]>> /\ asked[conn[t]] = <<>> /\ (p.last <=> 1 = Len(reply[conn[t]]))
  BY <1>0, <1>a, <1>d, Zenon DEF Awaits
<1> HIDE DEF p
<1>1. TypeOK'
  <2>1. buf' \in [Threads -> Seq(Piece)]
    BY <1>a, <1>b DEF IInv, TypeOK
  <2>2. reply' \in [Conns -> Seq(Piece)]
    BY <1>0, <1>b DEF IInv, TypeOK
  <2> QED
    BY <2>1, <2>2, <1>b, Zenon DEF IInv, TypeOK, poolVars, PC
<1>2. Exclusive'
  BY <1>b, ExclusiveStays, Zenon DEF IInv, poolVars
<1>3. PoolCounted'
  BY <1>b, CountStays, Zenon DEF IInv, poolVars
<1>4. Claimers' \subseteq Claimers
  BY <1>b, Zenon DEF Claimers, IInv, TypeOK
<1>5. ClaimsBounded'
  BY <1>b, <1>4, ClaimsStay, Zenon DEF IInv, TypeOK, poolVars
<1>6. WireMatches'
  <2>1. /\ \A c \in Conns \ {conn[t]} : reply'[c] = reply[c]
        /\ \A u \in Threads \ {t} : pc'[u] = pc[u]
        /\ UNCHANGED <<free, conn, link, asked, num>>
    BY <1>b, Zenon DEF IInv, TypeOK, poolVars
  <2>2. reply'[conn[t]] = Tail(reply[conn[t]])
    BY <1>0, <1>b, Zenon DEF IInv, TypeOK
  <2>5. pc'[t] = "push" => Quiet(conn[t])'
    <3> SUFFICES ASSUME pc'[t] = "push" PROVE Quiet(conn[t])'
      BY Zenon
    <3>1. p.last
      BY <1>b, Zenon DEF IInv, TypeOK
    <3>2. Len(reply[conn[t]]) = 1
      BY <3>1, <1>c, Zenon
    <3>3. Tail(reply[conn[t]]) \in Seq(Piece) /\ Len(Tail(reply[conn[t]])) = 0
      BY <1>0, <3>2
    <3>4. Tail(reply[conn[t]]) = <<>>
      BY <3>3, LengthZero, Zenon
    <3> QED
      BY <1>c, <3>4, <2>1, <2>2, Zenon DEF Quiet
  <2>6. \A k \in DOMAIN reply'[conn[t]] :
           /\ reply'[conn[t]][k].req = <<t, num[t]>>
           /\ reply'[conn[t]][k].last <=> k = Len(reply'[conn[t]])
    <3> DEFINE r == reply[conn[t]]
    <3>1. /\ DOMAIN Tail(r) = 1..Len(r)-1 /\ Len(Tail(r)) = Len(r) - 1 /\ Len(r) \in Nat
          /\ \A k \in 1..Len(r)-1 : Tail(r)[k] = r[k+1] /\ k + 1 \in DOMAIN r
      BY <1>0
    <3>2. \A k \in DOMAIN r : r[k].req = <<t, num[t]>> /\ (r[k].last <=> k = Len(r))
      BY <1>d, Zenon DEF Awaits
    <3> HIDE DEF r
    <3> SUFFICES ASSUME NEW k \in DOMAIN Tail(r)
                 PROVE  /\ Tail(r)[k].req = <<t, num[t]>>
                        /\ Tail(r)[k].last <=> k = Len(Tail(r))
      BY <2>2, Zenon DEF r
    <3>3. r[k+1].req = <<t, num[t]>> /\ (r[k+1].last <=> k + 1 = Len(r))
      BY <3>1, <3>2, Zenon
    <3>4. k + 1 = Len(r) <=> k = Len(Tail(r))
      BY <3>1
    <3> QED
      BY <3>1, <3>3, <3>4, Zenon
  <2>7. pc'[t] \in {"push", "recv"}
    BY <1>b, Zenon DEF IInv, TypeOK
  <2> QED
    <3>1. Awaits(t)'
      BY <1>c, <2>1, <2>6, Zenon DEF Awaits
    <3> QED
      BY <1>0, <2>1, <2>5, <2>7, <3>1, WireElsewhere, Zenon DEF IInv
<1>7. RepliesMatch'
  <2>1. \A u \in Threads \ {t} : buf'[u] = buf[u]
    BY <1>b, Zenon DEF IInv, TypeOK
  <2>2. buf[t] \in Seq(Piece) /\ buf'[t] = Append(buf[t], p)
    BY <1>b, Zenon DEF IInv, TypeOK
  <2>3. \A k \in DOMAIN buf'[t] : buf'[t][k] = p \/ (k \in DOMAIN buf[t] /\ buf'[t][k] = buf[t][k])
    BY <1>a, <2>2
  <2> QED
    BY <1>b, <1>c, <2>1, <2>3 DEF IInv, RepliesMatch
<1> QED
  BY <1>1, <1>2, <1>3, <1>5, <1>6, <1>7, Zenon DEF IInv

\* The database answers the one request of the thread that waits, if one waits.
LEMMA db_answer_IInv ==
  ASSUME IInv, NEW c \in Conns, db_answer(c)
  PROVE  IInv'
<1> USE DbAssumption
<1>1. PICK n \in 1..MaxPieces :
         reply' = [reply EXCEPT ![c] = @ \o [k \in 1..n |->
                     [req |-> Head(asked[c]), last |-> k = n]]]
  BY Zenon DEF db_answer
<1> DEFINE r == [k \in 1..n |-> [req |-> Head(asked[c]), last |-> k = n]]
<1>2. /\ asked[c] \in Seq(Request) /\ asked[c] # <<>> /\ link[c] = "up"
      /\ asked' = [asked EXCEPT ![c] = Tail(@)]
      /\ UNCHANGED <<poolVars, callVars, link, db>>
  BY Zenon DEF db_answer, IInv, TypeOK
<1>3. Head(asked[c]) \in Request /\ Tail(asked[c]) \in Seq(Request)
  BY <1>2
<1>4. r \in Seq(Piece) /\ Len(r) = n /\ DOMAIN r = 1..n
  <2>1. \A k \in 1..n : [req |-> Head(asked[c]), last |-> k = n] \in Piece
    BY <1>3, Zenon DEF Piece
  <2>2. n \in Nat
    OBVIOUS
  <2> QED
    BY <2>1, <2>2
<1>5. \A k \in 1..n : r[k].req = Head(asked[c]) /\ (r[k].last <=> k = n)
  BY Zenon
<1>6. reply' = [reply EXCEPT ![c] = @ \o r]
  BY <1>1, Zenon
<1> HIDE DEF r
<1>7. TypeOK'
  <2>1. reply' \in [Conns -> Seq(Piece)]
    BY <1>4, <1>6 DEF IInv, TypeOK
  <2>2. asked' \in [Conns -> Seq(Request)]
    BY <1>2, <1>3, Zenon DEF IInv, TypeOK
  <2> QED
    BY <2>1, <2>2, <1>2, Zenon DEF IInv, TypeOK, poolVars, callVars
<1>8. Exclusive'
  BY <1>2, ExclusiveStays, Zenon DEF IInv, poolVars, callVars
<1>9. PoolCounted'
  BY <1>2, CountStays, Zenon DEF IInv, poolVars, callVars
<1>10. Claimers' = Claimers
  BY <1>2, Zenon DEF Claimers, callVars
<1>11. ClaimsBounded'
  BY <1>2, <1>10, ClaimsStay, Zenon DEF IInv, TypeOK, poolVars
<1>12. RepliesMatch'
  BY <1>2, Zenon DEF IInv, RepliesMatch, callVars
<1>13. PICK t \in Threads : conn[t] = c /\ pc[t] \notin {"send", "push"}
  <2>1. c \in pool
    BY <1>2, Zenon DEF IInv, Exclusive
  <2>2. ~ Quiet(c)
    BY <1>2, Zenon DEF Quiet
  <2>3. PICK t \in Threads : conn[t] = c
    BY <2>1, <2>2, Zenon DEF IInv, Exclusive, WireMatches
  <2> QED
    BY <2>2, <2>3, Zenon DEF IInv, WireMatches
<1>14. pc[t] = "recv" => Awaits(t)'
  <2> SUFFICES ASSUME pc[t] = "recv" PROVE Awaits(t)'
    BY Zenon
  <2>1. asked[c] = <<<<t, num[t]>>>> /\ reply[c] = <<>>
    BY <1>2, <1>13, Zenon DEF IInv, WireMatches, Awaits
  <2>2. asked'[c] = <<>>
    BY <1>2, <2>1 DEF IInv, TypeOK
  <2>3. reply'[c] = r
    BY <1>4, <1>6, <2>1 DEF IInv, TypeOK
  <2>4. Head(asked[c]) = <<t, num[t]>>
    BY <2>1
  <2> QED
    BY <1>2, <1>4, <1>5, <1>13, <2>2, <2>3, <2>4, Zenon DEF Awaits, callVars
<1>15. /\ UNCHANGED <<free, conn, link, num, pc>>
       /\ \A d \in Conns \ {conn[t]} : asked'[d] = asked[d] /\ reply'[d] = reply[d]
  BY <1>2, <1>6, <1>13, Zenon DEF IInv, TypeOK, poolVars, callVars
<1>16. WireMatches'
  BY <1>13, <1>14, <1>15, WireElsewhere, Zenon DEF IInv
<1> QED
  BY <1>7, <1>8, <1>9, <1>11, <1>12, <1>16, Zenon DEF IInv

\* The database stops: requests are lost, what it had sent stays readable.
LEMMA db_stop_IInv ==
  ASSUME IInv, db_stop
  PROVE  IInv'
<1> USE DbAssumption
<1>0. /\ UNCHANGED <<poolVars, pc, conn, num, buf, reply>>
      /\ \A c \in Conns : (link'[c] = "closed" <=> link[c] = "closed") /\ asked'[c] = <<>>
  BY Zenon DEF IInv, TypeOK, db_stop
<1>1. TypeOK'
  <2>1. excuse' \in [Threads -> BOOLEAN]
    BY Zenon DEF IInv, TypeOK, db_stop
  <2> QED
    BY <2>1 DEF IInv, TypeOK, db_stop, poolVars
<1>2. Exclusive'
  BY <1>0, SMTT(30) DEF IInv, Exclusive, poolVars
<1>3. PoolCounted'
  BY <1>0, CountStays, Zenon DEF IInv, poolVars
<1>4. Claimers' = Claimers
  BY <1>0, Zenon DEF Claimers
<1>5. ClaimsBounded'
  BY <1>0, <1>4, ClaimsStay, Zenon DEF IInv, TypeOK, poolVars
<1>6. WireMatches'
  <2>1. \A u \in Threads : pc[u] \in {"send", "push", "recv"} => conn[u] \in Conns
    BY Zenon DEF IInv, TypeOK
  <2>2. \A k \in 1..Len(free) : free[k] \in Conns
    BY DEF IInv, TypeOK
  <2>3. \A c \in Conns : Quiet(c) => Quiet(c)'
    BY <1>0, Zenon DEF Quiet
  <2>4. \A u \in Threads : pc[u] = "recv" /\ Awaits(u) => Awaits(u)'
    BY <1>0, <2>1, Zenon DEF Awaits
  <2> QED
    BY <1>0, <2>1, <2>2, <2>3, <2>4, Zenon DEF IInv, WireMatches, Quiet, poolVars
<1>7. RepliesMatch'
  BY <1>0, Zenon DEF IInv, RepliesMatch
<1> QED
  BY <1>1, <1>2, <1>3, <1>5, <1>6, <1>7, Zenon DEF IInv

-----------------------------------------------------------------------------
(* The actions that move a connection. *)

\* The threads are finite, and so are the sets of them that are counted.
LEMMA SetsFinite ==
  /\ IsFiniteSet(Holders) /\ IsFiniteSet(Claimers)
  /\ Cardinality(Holders) \in Nat /\ Cardinality(Claimers) \in Nat
  /\ Cardinality(Threads) \in Nat
<1>1. Holders \in SUBSET Threads /\ Claimers \in SUBSET Threads
  BY Zenon DEF Holders, Claimers
<1> QED
  BY <1>1, DbAssumption, FS_Subset, FS_CardinalityType, Zenon

\* A waiting thread whose connection is not touched goes on waiting.
LEMMA AwaitsStays ==
  ASSUME NEW u \in Threads, Awaits(u), num'[u] = num[u],
         asked'[conn'[u]] = asked[conn[u]], reply'[conn'[u]] = reply[conn[u]]
  PROVE  Awaits(u)'
BY Zenon DEF Awaits

\* One thread takes or returns a quiet connection.
LEMMA WireMoves ==
  ASSUME WireMatches, UNCHANGED <<asked, reply, num>>, NEW t \in Threads,
         \A d \in Conns : link'[d] = "closed" => link[d] = "closed",
         \A k \in 1..Len(free') : Quiet(free'[k]),
         \A u \in Threads \ {t} : pc'[u] = pc[u] /\ conn'[u] = conn[u],
         pc'[t] # "recv", pc'[t] \in {"send", "push"} => Quiet(conn'[t])
  PROVE  WireMatches'
<1>1. (\A d \in Conns : link[d] = "closed" => Quiet(d))'
  BY Zenon DEF WireMatches, Quiet
<1>2. (\A k \in 1..Len(free) : Quiet(free[k]))'
  BY Zenon DEF Quiet
<1>3. (\A u \in Threads : pc[u] \in {"send", "push"} => Quiet(conn[u]))'
  BY DEF WireMatches, Quiet
<1>4. (\A u \in Threads : pc[u] = "recv" => Awaits(u))'
  BY AwaitsStays, Zenon DEF WireMatches
<1> QED
  BY <1>1, <1>2, <1>3, <1>4, Zenon DEF WireMatches

\* The connection a thread is about to destroy or return is its own.
LEMMA HeldConn ==
  ASSUME IInv, NEW t \in Threads, pc[t] \in {"destroy", "push"}
  PROVE  /\ conn[t] \in Conns /\ conn[t] \in pool
         /\ \A u \in Threads \ {t} : conn[u] # conn[t]
         /\ \A k \in 1..Len(free) : free[k] # conn[t]
BY Zenon DEF IInv, TypeOK, Exclusive

\* The connection of a failed call leaves the pool with all that is under way on it.
LEMMA destory_IInv ==
  ASSUME IInv, NEW t \in Threads, _db_conn_destory(t)
  PROVE  IInv'
<1> USE DbAssumption
<1>c. PICK c : c = conn[t]
  BY Zenon
<1>0. /\ c \in Conns /\ c \in pool /\ t \in Holders /\ t \in Claimers
      /\ \A u \in Threads \ {t} : conn[u] # c
      /\ \A k \in 1..Len(free) : free[k] # c
  BY <1>c, HeldConn, Zenon DEF _db_conn_destory, Holders, Claimers
<1>a. /\ pool' = pool \ {c} /\ pool_count' = pool_count - 1
      /\ link' = [link EXCEPT ![c] = "closed"]
      /\ asked' = [asked EXCEPT ![c] = <<>>]
      /\ reply' = [reply EXCEPT ![c] = <<>>]
      /\ conn' = [conn EXCEPT ![t] = NoConn]
      /\ pc' = [pc EXCEPT ![t] = "redo"]
      /\ UNCHANGED <<free, free_count, trycnt, rno, num, buf, excuse, db>>
  BY <1>c, Zenon DEF _db_conn_destory
<1>b. free \in Seq(Conns) /\ Len(free) \in Nat
  BY DEF IInv, TypeOK
<1>3. PoolCounted'
  <2>1. Holders' = Holders \ {t}
    BY <1>a, Zenon DEF Holders, IInv, TypeOK
  <2>2. Cardinality(Holders') = Cardinality(Holders) - 1
    BY <1>0, <2>1, SetsFinite, FS_RemoveElement, Zenon
  <2>3. IsFiniteSet(pool') /\ Cardinality(pool') = Cardinality(pool) - 1
    BY <1>0, <1>a, FS_RemoveElement, Zenon DEF IInv, PoolCounted
  <2> QED
    BY <1>a, <1>b, <2>2, <2>3, SetsFinite DEF IInv, PoolCounted
<1>1. TypeOK'
  <2>1. pool_count' \in Nat
    BY <1>3, FS_CardinalityType, Zenon DEF PoolCounted
  <2>2. asked' \in [Conns -> Seq(Request)] /\ reply' \in [Conns -> Seq(Piece)]
    BY <1>a, NothingIsSeq, Zenon DEF IInv, TypeOK
  <2> QED
    BY <1>0, <1>a, <2>1, <2>2, ZenonT(30) DEF IInv, TypeOK, PC
<1>2. Exclusive'
  <2>1. /\ conn'[t] = NoConn /\ \A u \in Threads \ {t} : conn'[u] = conn[u]
        /\ link'[c] = "closed" /\ \A d \in Conns \ {c} : link'[d] = link[d]
        /\ \A k \in 1..Len(free) : free[k] \in Conns
    BY <1>0, <1>a, <1>b, SMTT(30) DEF IInv, TypeOK
  <2>2. (\A d \in Conns : d \in pool <=> link[d] # "closed")'
    BY <1>a, <2>1, ZenonT(30) DEF IInv, Exclusive
  <2>3. (\A u \in Threads, k \in 1..Len(free) : conn[u] # free[k])'
    BY <1>a, <2>1, SMTT(30) DEF IInv, Exclusive
  <2>4. (\A u \in Threads : conn[u] # NoConn => conn[u] \in pool)'
    BY <1>0, <1>a, <2>1 DEF IInv, Exclusive
  <2>5. (\A d \in pool : \/ \E k \in 1..Len(free) : free[k] = d
                        \/ \E u \in Threads : conn[u] = d)'
    BY <1>a, <1>c, <2>1 DEF IInv, Exclusive
  <2>6. (\A u, v \in Threads : u # v /\ conn[u] # NoConn => conn[u] # conn[v])'
    BY <2>1 DEF IInv, Exclusive
  <2> QED
    BY <1>0, <1>a, <2>2, <2>3, <2>4, <2>5, <2>6, SMTT(30) DEF IInv, Exclusive
<1>4. Claimers' \subseteq Claimers
  BY <1>a, Zenon DEF Claimers, IInv, TypeOK
<1>5. ClaimsBounded'
  BY <1>4, <1>a, <1>b, ClaimsStay, Zenon DEF IInv
<1>6. WireMatches'
  <2>1. \A u \in Threads : pc'[u] \in {"send", "push", "recv"} =>
           u # t /\ pc[u] = pc'[u] /\ conn'[u] = conn[u] /\ conn[u] \in Conns \ {c}
    BY <1>0, <1>a, Zenon DEF IInv, TypeOK
  <2>2. \A k \in 1..Len(free) : free[k] \in Conns \ {c}
    BY <1>0, <1>b
  <2>3. \A d \in Conns \ {c} : asked'[d] = asked[d] /\ reply'[d] = reply[d] /\ link'[d] = link[d]
    BY <1>a, Zenon DEF IInv, TypeOK
  <2>4. Quiet(c)'
    BY <1>0, <1>a, Zenon DEF IInv, TypeOK, Quiet
  <2>5. (\A d \in Conns : link[d] = "closed" => Quiet(d))'
    BY <2>3, <2>4, Zenon DEF IInv, WireMatches, Quiet
  <2>6. (\A k \in 1..Len(free) : Quiet(free[k]))'
    BY <1>a, <2>2, <2>3 DEF IInv, WireMatches, Quiet
  <2>7. (\A u \in Threads : pc[u] \in {"send", "push"} => Quiet(conn[u]))'
    BY <2>1, <2>3, SMTT(30) DEF IInv, WireMatches, Quiet
  <2>8. (\A u \in Threads : pc[u] = "recv" => Awaits(u))'
    BY <1>a, <2>1, <2>3, AwaitsStays DEF IInv, WireMatches
  <2> QED
    BY <2>5, <2>6, <2>7, <2>8, Zenon DEF WireMatches
<1>7. RepliesMatch'
  BY <1>a, Zenon DEF IInv, RepliesMatch
<1> QED
  BY <1>1, <1>2, <1>3, <1>5, <1>6, <1>7, Zenon DEF IInv

\* A call that has its whole reply returns a quiet connection to the list.
LEMMA conn_free_IInv ==
  ASSUME IInv, NEW t \in Threads, _db_conn_free(t)
  PROVE  IInv'
<1> USE DbAssumption
<1>c. PICK c : c = conn[t]
  BY Zenon
<1>0. /\ c \in Conns /\ c \in pool /\ t \in Holders /\ t \in Claimers
      /\ \A u \in Threads \ {t} : conn[u] # c
      /\ \A k \in 1..Len(free) : free[k] # c
  BY <1>c, HeldConn, Zenon DEF _db_conn_free, Holders, Claimers
<1>a. /\ free' = Append(free, c) /\ free_count' = free_count + 1
      /\ conn' = [conn EXCEPT ![t] = NoConn]
      /\ pc[t] = "push" /\ pc' = [pc EXCEPT ![t] = "idle"]
      /\ UNCHANGED <<pool, pool_count, num, buf, excuse, wire>>
  BY <1>c, Zenon DEF _db_conn_free
<1>b. /\ free \in Seq(Conns) /\ Len(free) \in Nat
      /\ free' \in Seq(Conns) /\ Len(free') = Len(free) + 1 /\ free'[Len(free) + 1] = c
      /\ \A k \in 1..Len(free) : free'[k] = free[k]
  BY <1>0, <1>a, SMTT(30) DEF IInv, TypeOK
<1>d. /\ conn'[t] = NoConn /\ \A u \in Threads \ {t} : conn'[u] = conn[u]
      /\ pc'[t] = "idle" /\ \A u \in Threads \ {t} : pc'[u] = pc[u]
  BY <1>a, Zenon DEF IInv, TypeOK
<1>1. TypeOK'
  <2>1. rno' \in [Threads -> RNO] /\ trycnt' \in [Threads -> 0..Tries]
    BY DEF IInv, TypeOK, _db_conn_free, RNO
  <2>2. free_count' \in Nat /\ UNCHANGED <<pool, pool_count, num, buf, excuse, link, asked, reply, db>>
    BY <1>a DEF IInv, TypeOK, wire
  <2>3. pc' \in [Threads -> PC] /\ conn' \in [Threads -> Conns \cup {NoConn}]
    BY <1>a, Zenon DEF IInv, TypeOK, PC
  <2>4. \A u \in Threads : pc'[u] # "dead" =>
           (conn'[u] # NoConn <=> pc'[u] \in {"destroy", "send", "recv", "push"})
    BY <1>d, ZenonT(30) DEF IInv, TypeOK
  <2> QED
    BY <1>b, <2>1, <2>2, <2>3, <2>4, Zenon DEF IInv, TypeOK
<1>2. Exclusive'
  <2>0. \A k \in 1..Len(free') : k \in 1..Len(free) \/ k = Len(free) + 1
    BY <1>b, SMTT(30)
  <2>1. (\A j, k \in 1..Len(free) : j # k => free[j] # free[k])'
    BY <1>0, <1>b, <2>0 DEF IInv, Exclusive
  <2>2. (\A u, v \in Threads : u # v /\ conn[u] # NoConn => conn[u] # conn[v])'
    BY <1>d, SMTT(30) DEF IInv, Exclusive
  <2>3. (\A u \in Threads, k \in 1..Len(free) : conn[u] # free[k])'
    BY <1>0, <1>b, <1>d, <2>0, SMTT(30) DEF IInv, Exclusive
  <2>4. (\A k \in 1..Len(free) : free[k] \in pool)'
    BY <1>0, <1>a, <1>b, <2>0, SMTT(30) DEF IInv, Exclusive
  <2>5. (\A u \in Threads : conn[u] # NoConn => conn[u] \in pool)'
    BY <1>a, <1>d DEF IInv, Exclusive
  <2>6. (\A d \in pool : \/ \E k \in 1..Len(free) : free[k] = d
                         \/ \E u \in Threads : conn[u] = d)'
    <3> SUFFICES ASSUME NEW d \in pool
                 PROVE  \/ \E k \in 1..Len(free') : free'[k] = d
                        \/ \E u \in Threads : conn'[u] = d
      BY <1>a, Zenon
    <3>1. CASE d = c
      BY <3>1, <1>b, SMTT(30)
    <3>2. CASE d # c
      <4>1. 1..Len(free) \subseteq 1..Len(free')
        BY <1>b
      <4> QED
        BY <3>2, <4>1, <1>b, <1>c, <1>d, SMTT(30) DEF IInv, Exclusive
    <3> QED
      BY <3>1, <3>2, Zenon
  <2>7. free_count' = Len(free')
    BY <1>a, <1>b, Zenon DEF IInv, Exclusive
  <2>8. (\A d \in Conns : d \in pool <=> link[d] # "closed")'
    BY <1>a, Zenon DEF IInv, Exclusive, wire
  <2> QED
    BY <2>1, <2>2, <2>3, <2>4, <2>5, <2>6, <2>7, <2>8, Zenon DEF Exclusive
<1>3. PoolCounted'
  <2>1. Holders' = Holders \ {t}
    BY <1>d, Zenon DEF Holders
  <2>2. Cardinality(Holders') = Cardinality(Holders) - 1
    BY <1>0, <2>1, SetsFinite, FS_RemoveElement, Zenon
  <2>3. Len(free') + Cardinality(Holders') = Len(free) + Cardinality(Holders)
    BY <1>b, <2>2, SetsFinite
  <2>4. UNCHANGED <<pool, pool_count>>
    BY <1>a, Zenon
  <2> QED
    BY <2>3, <2>4, Zenon DEF IInv, PoolCounted
<1>5. ClaimsBounded'
  <2>1. Claimers' = Claimers \ {t}
    BY <1>d, Zenon DEF Claimers
  <2>2. Cardinality(Claimers') = Cardinality(Claimers) - 1
    BY <1>0, <2>1, SetsFinite, FS_RemoveElement, Zenon
  <2> QED
    BY <1>b, <2>2, SetsFinite DEF IInv, ClaimsBounded
<1>6. WireMatches'
  <2>1. Quiet(c)
    BY <1>a, <1>c, Zenon DEF IInv, WireMatches
  <2>2. \A k \in 1..Len(free') : Quiet(free'[k])
    BY <2>1, <1>b DEF IInv, WireMatches
  <2> QED
    BY <2>2, <1>a, <1>d, WireMoves, Zenon DEF IInv, wire
<1>7. RepliesMatch'
  BY <1>a, Zenon DEF IInv, RepliesMatch
<1> QED
  BY <1>1, <1>2, <1>3, <1>5, <1>6, <1>7, Zenon DEF IInv

\* A new connection is quiet and nobody else's.
LEMMA new_conn_IInv ==
  ASSUME IInv, NEW t \in Threads, _db_new_conn(t)
  PROVE  IInv'
<1> USE DbAssumption
<1>a. PICK c \in Conns :
         /\ link[c] = "closed"
         /\ link' = [link EXCEPT ![c] = "up"]
         /\ pool' = pool \cup {c} /\ pool_count' = pool_count + 1
         /\ conn' = [conn EXCEPT ![t] = c]
  BY Zenon DEF _db_new_conn
<1>b. /\ pc[t] = "new" /\ pc' = [pc EXCEPT ![t] = "send"]
      /\ UNCHANGED <<free, free_count, trycnt, rno, num, buf, excuse, asked, reply, db>>
  BY Zenon DEF _db_new_conn
<1>0. /\ c \notin pool /\ t \notin Holders /\ t \in Claimers
      /\ \A u \in Threads : conn[u] # c
      /\ \A k \in 1..Len(free) : free[k] # c
  BY <1>a, <1>b, ZenonT(40) DEF IInv, TypeOK, Exclusive, Holders, Claimers
<1>d. /\ conn'[t] = c /\ \A u \in Threads \ {t} : conn'[u] = conn[u]
      /\ pc'[t] = "send" /\ \A u \in Threads \ {t} : pc'[u] = pc[u]
      /\ link'[c] = "up" /\ \A d \in Conns \ {c} : link'[d] = link[d]
      /\ conn[t] = NoConn
  BY <1>a, <1>b, Zenon DEF IInv, TypeOK
<1>1. TypeOK'
  <2>1. /\ pool' \subseteq Conns /\ pool_count' \in Nat
        /\ link' \in [Conns -> {"closed", "up", "broken"}]
    BY <1>a DEF IInv, TypeOK
  <2>2. pc' \in [Threads -> PC] /\ conn' \in [Threads -> Conns \cup {NoConn}]
    BY <1>a, <1>b, Zenon DEF IInv, TypeOK, PC
  <2>3. \A u \in Threads : pc'[u] # "dead" =>
           (conn'[u] # NoConn <=> pc'[u] \in {"destroy", "send", "recv", "push"})
    <3>1. c # NoConn
      BY <1>a, Zenon
    <3>2. \A u \in Threads : pc[u] # "dead" =>
             (conn[u] # NoConn <=> pc[u] \in {"destroy", "send", "recv", "push"})
      BY Zenon DEF IInv, TypeOK
    <3> QED
      BY <3>1, <3>2, <1>d
  <2> QED
    BY <1>b, <2>1, <2>2, <2>3, Zenon DEF IInv, TypeOK
<1>2. Exclusive'
  <2>1. (\A d \in Conns : d \in pool <=> link[d] # "closed")'
    BY <1>a, <1>d, SMTT(30) DEF IInv, Exclusive
  <2>2. (\A u, v \in Threads : u # v /\ conn[u] # NoConn => conn[u] # conn[v])'
    BY <1>0, <1>d, SMTT(30) DEF IInv, Exclusive
  <2>3. (\A u \in Threads, k \in 1..Len(free) : conn[u] # free[k])'
    BY <1>0, <1>b, <1>d, SMTT(30) DEF IInv, Exclusive
  <2>4. (\A k \in 1..Len(free) : free[k] \in pool)'
    BY <1>a, <1>b, ZenonT(30) DEF IInv, Exclusive
  <2>5. (\A u \in Threads : conn[u] # NoConn => conn[u] \in pool)'
    BY <1>a, <1>d, SMTT(30) DEF IInv, Exclusive
  <2>6. (\A d \in pool : \/ \E k \in 1..Len(free) : free[k] = d
                         \/ \E u \in Threads : conn[u] = d)'
    <3> SUFFICES ASSUME NEW d \in pool \cup {c}
                 PROVE  \/ \E k \in 1..Len(free) : free[k] = d
                        \/ \E u \in Threads : conn'[u] = d
      BY <1>a, <1>b, Zenon
    <3>1. CASE d = c
      BY <3>1, <1>d, Zenon
    <3>2. CASE d \in pool
      <4>1. d # NoConn
        BY <3>2, Zenon DEF IInv, TypeOK
      <4> QED
        BY <3>2, <4>1, <1>d DEF IInv, Exclusive
    <3> QED
      BY <3>1, <3>2, Zenon
  <2> QED
    BY <1>b, <2>1, <2>2, <2>3, <2>4, <2>5, <2>6, SMTT(30) DEF IInv, Exclusive
<1>3. PoolCounted'
  <2>1. Holders' = Holders \cup {t}
    BY <1>d DEF Holders
  <2>2. Cardinality(Holders') = Cardinality(Holders) + 1
    BY <1>0, <2>1, SetsFinite, FS_AddElement, Zenon
  <2>3. IsFiniteSet(pool') /\ Cardinality(pool') = Cardinality(pool) + 1
    BY <1>0, <1>a, FS_AddElement, Zenon DEF IInv, PoolCounted
  <2>4. Len(free) \in Nat /\ Len(free') = Len(free)
    BY <1>b DEF IInv, TypeOK
  <2> QED
    BY <1>a, <2>2, <2>3, <2>4, SetsFinite, SMTT(30) DEF IInv, PoolCounted
<1>5. ClaimsBounded'
  <2>1. Claimers' = Claimers
    BY <1>b, <1>d, Zenon DEF Claimers
  <2> QED
    BY <2>1, <1>b, ClaimsStay, Zenon DEF IInv, TypeOK
<1>6. WireMatches'
  <2>1. Quiet(c)
    BY <1>a, Zenon DEF IInv, WireMatches
  <2>2. \A k \in 1..Len(free') : Quiet(free'[k])
    BY <1>b, Zenon DEF IInv, WireMatches
  <2>3. \A d \in Conns : link'[d] = "closed" => link[d] = "closed"
    BY <1>d, Zenon
  <2> QED
    BY <2>1, <2>2, <2>3, <1>b, <1>d, WireMoves, Zenon DEF IInv
<1>7. RepliesMatch'
  BY <1>b, Zenon DEF IInv, RepliesMatch
<1> QED
  BY <1>1, <1>2, <1>3, <1>5, <1>6, <1>7, Zenon DEF IInv

\* _db_get_conn takes the first free connection from the list; when there is
\* none, fewer threads than there are claim a connection, so one more may.
LEMMA get_conn_IInv ==
  ASSUME IInv, NEW t \in Threads, _db_get_conn(t)
  PROVE  IInv'
<1> USE DbAssumption
<1>a. /\ pc[t] = "get" /\ conn[t] = NoConn
      /\ UNCHANGED <<pool, pool_count, trycnt, rno, num, buf, excuse, wire>>
      /\ free \in Seq(Conns) /\ Len(free) \in Nat /\ free_count = Len(free)
  BY Zenon DEF _db_get_conn, IInv, TypeOK, Exclusive
<1>r. RepliesMatch'
  BY <1>a, Zenon DEF IInv, RepliesMatch
<1>1. CASE free_count = 0
  <2>0. pc' = [pc EXCEPT ![t] = "new"] /\ UNCHANGED <<free, free_count, conn>>
    BY <1>1, Zenon DEF _db_get_conn
  <2>1. TypeOK'
    BY <1>a, <2>0, Zenon DEF IInv, TypeOK, PC, wire
  <2>2. Exclusive'
    BY <1>a, <2>0, ExclusiveStays, Zenon DEF IInv, wire
  <2>3. PoolCounted'
    BY <1>a, <2>0, CountStays, Zenon DEF IInv
  <2>4. ClaimsBounded'
    <3>1. Claimers' = Claimers \cup {t} /\ t \notin Claimers
      BY <1>a, <2>0 DEF Claimers, IInv, TypeOK
    <3>2. Claimers' \in SUBSET Threads
      BY Zenon DEF Claimers
    <3>3. Cardinality(Claimers') <= Cardinality(Threads) /\ Cardinality(Claimers') \in Nat
      BY <3>2, FS_Subset, FS_CardinalityType, Zenon
    <3>4. Len(free') = 0
      BY <1>1, <1>a, <2>0, Zenon
    <3> QED
      BY <3>3, <3>4, SetsFinite DEF ClaimsBounded
  <2>5. WireMatches'
    <3>1. \A u \in Threads : pc'[u] \in {"send", "push", "recv"} => pc'[u] = pc[u] /\ num'[u] = num[u]
      BY <1>a, <2>0, Zenon DEF IInv, TypeOK
    <3> QED
      BY <1>a, <2>0, <3>1, WireStays, Zenon DEF IInv, wire
  <2> QED
    BY <1>r, <2>1, <2>2, <2>3, <2>4, <2>5, Zenon DEF IInv
<1>2. CASE free_count # 0
  <2>c. PICK c : c = Head(free)
    BY Zenon
  <2>0. /\ conn' = [conn EXCEPT ![t] = c] /\ pc' = [pc EXCEPT ![t] = "send"]
        /\ free' = Tail(free) /\ free_count' = free_count - 1
    BY <1>2, <2>c, Zenon DEF _db_get_conn
  <2>a. free # <<>> /\ Len(free) # 0
    BY <1>2, <1>a
  <2>b. /\ c = free[1] /\ c \in Conns /\ 1 \in 1..Len(free)
        /\ free' \in Seq(Conns) /\ Len(free') = Len(free) - 1
        /\ \A k \in 1..Len(free') : free'[k] = free[k+1] /\ k + 1 \in 1..Len(free) /\ k + 1 # 1
    BY <1>a, <2>0, <2>a, <2>c
  <2>d. /\ conn'[t] = c /\ \A u \in Threads \ {t} : conn'[u] = conn[u]
        /\ pc'[t] = "send" /\ \A u \in Threads \ {t} : pc'[u] = pc[u]
    BY <2>0, ZenonT(30) DEF IInv, TypeOK
  <2>e. /\ c \in pool /\ c # NoConn /\ t \notin Holders /\ t \notin Claimers
        /\ \A u \in Threads : conn[u] # c
        /\ \A k \in 1..Len(free') : free'[k] # c
    BY <1>a, <2>b, SMTT(30) DEF IInv, Exclusive, Holders, Claimers
  <2>1. TypeOK'
    <3>1. free_count' \in Nat
      BY <1>a, <1>2, <2>0
    <3>2. pc' \in [Threads -> PC] /\ conn' \in [Threads -> Conns \cup {NoConn}]
      BY <2>0, <2>b, Zenon DEF IInv, TypeOK, PC
    <3>3. \A u \in Threads : pc'[u] # "dead" =>
             (conn'[u] # NoConn <=> pc'[u] \in {"destroy", "send", "recv", "push"})
      BY <2>d, <2>e, ZenonT(30) DEF IInv, TypeOK
    <3> QED
      BY <1>a, <2>b, <3>1, <3>2, <3>3, Zenon DEF IInv, TypeOK, wire
  <2>2. Exclusive'
    <3>1. free_count' = Len(free')
      BY <1>a, <2>0, <2>b, Zenon
    <3>2. (\A d \in Conns : d \in pool <=> link[d] # "closed")'
      BY <1>a, Zenon DEF IInv, Exclusive, wire
    <3>3. (\A j, k \in 1..Len(free) : j # k => free[j] # free[k])'
      <4> SUFFICES ASSUME NEW j \in 1..Len(free'), NEW k \in 1..Len(free'), j # k
                   PROVE  free'[j] # free'[k]
        BY Zenon
      <4>1. j + 1 # k + 1
        OBVIOUS
      <4> QED
        BY <4>1, <2>b, SMTT(30) DEF IInv, Exclusive
    <3>4. (\A u, v \in Threads : u # v /\ conn[u] # NoConn => conn[u] # conn[v])'
      BY <2>d, <2>e, SMTT(30) DEF IInv, Exclusive
    <3>5. (\A u \in Threads, k \in 1..Len(free) : conn[u] # free[k])'
      BY <2>b, <2>d, <2>e, SMTT(30) DEF IInv, Exclusive
    <3>6. (\A k \in 1..Len(free) : free[k] \in pool)'
      BY <1>a, <2>b, ZenonT(30) DEF IInv, Exclusive
    <3>7. (\A u \in Threads : conn[u] # NoConn => conn[u] \in pool)'
      BY <1>a, <2>d, <2>e, Zenon DEF IInv, Exclusive
    <3>8. (\A d \in pool : \/ \E k \in 1..Len(free) : free[k] = d
                           \/ \E u \in Threads : conn[u] = d)'
      <4> SUFFICES ASSUME NEW d \in pool
                   PROVE  \/ \E k \in 1..Len(free') : free'[k] = d
                          \/ \E u \in Threads : conn'[u] = d
        BY <1>a, Zenon
      <4>1. CASE \E k \in 1..Len(free) : free[k] = d
        <5>1. PICK k \in 1..Len(free) : free[k] = d
          BY <4>1, Zenon
        <5>2. CASE k = 1
          BY <5>1, <5>2, <2>b, <2>d, Zenon
        <5>3. CASE k # 1
          <6>1. k - 1 \in 1..Len(free') /\ (k - 1) + 1 = k
            BY <5>1, <5>3, <1>a, <2>b
          <6> QED
            BY <5>1, <6>1, <2>b, Zenon
        <5> QED
          BY <5>2, <5>3, Zenon
      <4>2. CASE \E u \in Threads : conn[u] = d
        <5>1. d # NoConn
          BY Zenon DEF IInv, TypeOK
        <5> QED
          BY <4>2, <5>1, <1>a, <2>d, Zenon
      <4> QED
        BY <4>1, <4>2, Zenon DEF IInv, Exclusive
    <3> QED
      BY <3>1, <3>2, <3>3, <3>4, <3>5, <3>6, <3>7, <3>8, Zenon DEF Exclusive
  <2>3. PoolCounted'
    <3>1. Holders' = Holders \cup {t}
      BY <2>d, <2>e, Zenon DEF Holders
    <3>2. Cardinality(Holders') = Cardinality(Holders) + 1
      BY <2>e, <3>1, SetsFinite, FS_AddElement, Zenon
    <3>3. Len(free') + Cardinality(Holders') = Len(free) + Cardinality(Holders)
      BY <1>a, <2>b, <3>2, SetsFinite
    <3>4. UNCHANGED <<pool, pool_count>>
      BY <1>a, Zenon
    <3> QED
      BY <3>3, <3>4, Zenon DEF IInv, PoolCounted
  <2>4. ClaimsBounded'
    <3>1. Claimers' = Claimers \cup {t}
      BY <2>d, <2>e, Zenon DEF Claimers
    <3>2. Cardinality(Claimers') = Cardinality(Claimers) + 1
      BY <2>e, <3>1, SetsFinite, FS_AddElement, Zenon
    <3>3. Len(free') + Cardinality(Claimers') = Len(free) + Cardinality(Claimers)
      BY <1>a, <2>b, <3>2, SetsFinite
    <3> QED
      BY <3>3, Zenon DEF IInv, ClaimsBounded
  <2>5. WireMatches'
    <3>1. Quiet(c)
      BY <2>b, Zenon DEF IInv, WireMatches
    <3>2. \A k \in 1..Len(free') : Quiet(free'[k])
      BY <2>b, Zenon DEF IInv, WireMatches
    <3> QED
      BY <3>1, <3>2, <1>a, <2>d, WireMoves, Zenon DEF IInv, wire
  <2> QED
    BY <1>r, <2>1, <2>2, <2>3, <2>4, <2>5, Zenon DEF IInv
<1> QED
  BY <1>1, <1>2, Zenon

-----------------------------------------------------------------------------
\* dbinit establishes the invariant.
LEMMA InitIInv == dbinit => IInv
<1> USE DbAssumption
<1> SUFFICES ASSUME dbinit PROVE IInv
  BY Zenon
<1>1. TypeOK
  BY NothingIsSeq DEF dbinit, TypeOK, PC, RNO
<1>2. Exclusive
  BY DEF dbinit, Exclusive
<1>3. Holders = {} /\ Claimers = {}
  BY Zenon DEF dbinit, Holders, Claimers
<1>4. PoolCounted
  BY <1>3, FS_EmptySet DEF dbinit, PoolCounted
<1>5. ClaimsBounded
  BY <1>3, FS_EmptySet, SetsFinite DEF dbinit, ClaimsBounded
<1>6. WireMatches
  BY DEF dbinit, WireMatches, Quiet
<1>7. RepliesMatch
  BY DEF dbinit, RepliesMatch
<1> QED
  BY <1>1, <1>2, <1>4, <1>5, <1>6, <1>7, Zenon DEF IInv

\* Every step preserves it.
LEMMA NextIInv == IInv /\ [Next]_vars => IInv'
<1> SUFFICES ASSUME IInv, [Next]_vars PROVE IInv'
  BY Zenon
<1>1. CASE UNCHANGED vars
  <2>1. UNCHANGED <<poolVars, callVars, wire>>
    BY <1>1, Zenon DEF vars
  <2>2. TypeOK'
    BY <2>1, Zenon DEF IInv, TypeOK, poolVars, callVars, wire
  <2>3. Exclusive' /\ PoolCounted'
    BY <2>1, ExclusiveStays, CountStays, Zenon DEF IInv, poolVars, callVars, wire
  <2>4. Claimers' = Claimers
    BY <2>1, Zenon DEF Claimers, callVars
  <2>5. ClaimsBounded'
    BY <2>1, <2>4, ClaimsStay, Zenon DEF IInv, TypeOK, poolVars
  <2>6. WireMatches'
    BY <2>1, WireStays, Zenon DEF IInv, poolVars, callVars, wire
  <2>7. RepliesMatch'
    BY <2>1, Zenon DEF IInv, RepliesMatch, callVars
  <2> QED
    BY <2>2, <2>3, <2>5, <2>6, <2>7, Zenon DEF IInv
<1>2. ASSUME NEW t \in Threads, _dbcmd(t) PROVE IInv'
  BY <1>2, dbcmd_IInv, Zenon
<1>3. ASSUME NEW t \in Threads, Call(t) PROVE IInv'
  BY ZenonT(30), <1>3, redo_IInv, destory_IInv, get_conn_IInv, new_conn_IInv, connect_fails_IInv,
     dbsend_IInv, broken_IInv, sigpipe_IInv, timeout_IInv, dbrecv_IInv, conn_free_IInv, SMTT(20) DEF Call
<1>4. ASSUME NEW c \in Conns, db_answer(c) PROVE IInv'
  BY <1>4, db_answer_IInv, Zenon
<1>5. CASE db_stop \/ db_start
  BY <1>5, db_stop_IInv, db_start_IInv, Zenon
<1> QED
  BY <1>1, <1>2, <1>3, <1>4, <1>5, Zenon DEF Next

-----------------------------------------------------------------------------
(* What a call that fails has met. *)

\* The claims bound the pool: a connection in use is claimed.
LEMMA IInvPoolBounded == IInv => PoolBounded
<1> SUFFICES ASSUME IInv PROVE PoolBounded
  BY Zenon
<1>1. Holders \in SUBSET Claimers
  BY Zenon DEF Holders, Claimers
<1>2. Cardinality(Holders) <= Cardinality(Claimers)
  BY <1>1, SetsFinite, FS_Subset, Zenon
<1>3. Len(free) \in Nat
  BY DEF IInv, TypeOK
<1> QED
  BY <1>2, <1>3, SetsFinite DEF IInv, PoolCounted, ClaimsBounded, PoolBounded

\* The connections that broke and have not been destroyed yet.
Broken == {c \in Conns : link[c] = "broken"}

\* Where an attempt of _dbdo is under way.
Trying == {"get", "new", "send", "recv", "push", "destroy"}

\* A call that has met nothing itself used a connection that had broken before
\* for every attempt that failed, and has destroyed it: the failed attempts and
\* the broken connections that are left are at most as many as the threads.
Caused(t) ==
    /\ pc[t] = "idle" => trycnt[t] = 0
    /\ excuse[t] = FALSE =>
         /\ pc[t] = "idle" => rno[t] # "connect_err"
         /\ pc[t] = "redo" => trycnt[t] + Cardinality(Broken) <= Cardinality(Threads)
         /\ pc[t] \in Trying => trycnt[t] + Cardinality(Broken) <= Cardinality(Threads) + 1
         /\ pc[t] = "destroy" => link[conn[t]] = "broken"

\* The invariant behind ErrorsHaveACause.
FailuresCaused == Cardinality(Threads) < Tries => \A t \in Threads : Caused(t)

\* What the step of thread t leaves alone: the other calls and the connections
\* they are about to destroy; and it breaks no connection.
Elsewhere(t) ==
    /\ Broken' \subseteq Broken
    /\ \A u \in Threads \ {t} :
         /\ pc'[u] = pc[u] /\ trycnt'[u] = trycnt[u] /\ rno'[u] = rno[u]
         /\ excuse'[u] = excuse[u]
         /\ pc[u] = "destroy" => link'[conn'[u]] = link[conn[u]]

\* At most as many connections are broken as there are threads.
LEMMA BrokenBounded ==
  ASSUME IInv
  PROVE  /\ IsFiniteSet(Broken) /\ Cardinality(Broken) \in Nat
         /\ Cardinality(Broken) <= Cardinality(Threads)
<1>1. Broken \in SUBSET pool /\ IsFiniteSet(pool)
  BY Zenon DEF Broken, IInv, Exclusive, PoolCounted
<1>2. Cardinality(Broken) <= Cardinality(pool) /\ IsFiniteSet(Broken)
  BY <1>1, FS_Subset, Zenon
<1>3. Cardinality(Broken) \in Nat /\ Cardinality(pool) \in Nat
  BY <1>1, <1>2, FS_CardinalityType, Zenon
<1>4. Cardinality(pool) <= Cardinality(Threads)
  BY IInvPoolBounded, Zenon DEF PoolBounded
<1> QED
  BY <1>2, <1>3, <1>4, SetsFinite

\* Without a restart the broken connections only become fewer.
LEMMA FewerBroken ==
  ASSUME IInv, Broken' \subseteq Broken
  PROVE  /\ Cardinality(Broken') \in Nat
         /\ Cardinality(Broken') <= Cardinality(Broken)
<1>1. Broken' \in SUBSET Broken /\ IsFiniteSet(Broken)
  BY BrokenBounded, Zenon
<1> QED
  BY <1>1, FS_Subset, FS_CardinalityType, Zenon

\* The number of attempts is a natural number.
LEMMA TriesTyped ==
  ASSUME IInv, NEW u \in Threads
  PROVE  trycnt[u] \in 0..Tries /\ excuse[u] \in BOOLEAN /\ pc[u] \in PC
BY Zenon DEF IInv, TypeOK

\* A call goes on unaffected by what another does.
LEMMA OthersCaused ==
  ASSUME IInv, NEW t \in Threads, Elsewhere(t), \A u \in Threads : Caused(u), Caused(t)'
  PROVE  \A u \in Threads : Caused(u)'
<1> SUFFICES ASSUME NEW u \in Threads, u # t PROVE Caused(u)'
  BY Zenon
<1>1. /\ Cardinality(Broken') \in Nat /\ Cardinality(Broken) \in Nat
      /\ Cardinality(Broken') <= Cardinality(Broken) /\ Cardinality(Threads) \in Nat
  BY FewerBroken, BrokenBounded, SetsFinite, Zenon DEF Elsewhere
<1>2. trycnt[u] \in Nat
  BY TriesTyped, DbAssumption, SMTT(30)
<1>3. /\ pc'[u] = pc[u] /\ trycnt'[u] = trycnt[u] /\ rno'[u] = rno[u]
      /\ excuse'[u] = excuse[u]
      /\ pc[u] = "destroy" => link'[conn'[u]] = link[conn[u]]
  BY Zenon DEF Elsewhere
<1>4. Caused(u)
  BY Zenon
<1>5. /\ trycnt[u] + Cardinality(Broken) <= Cardinality(Threads)
           => trycnt[u] + Cardinality(Broken') <= Cardinality(Threads)
      /\ trycnt[u] + Cardinality(Broken) <= Cardinality(Threads) + 1
           => trycnt[u] + Cardinality(Broken') <= Cardinality(Threads) + 1
  BY <1>1, <1>2
<1> QED
  BY <1>3, <1>4, <1>5, Zenon DEF Caused

\* An attempt that goes on breaks no connection and counts none twice.
LEMMA GoesOn ==
  ASSUME IInv, NEW t \in Threads, Caused(t), Broken' \subseteq Broken,
         pc[t] \in Trying, pc'[t] \in Trying \ {"destroy"},
         excuse'[t] = excuse[t], trycnt'[t] = trycnt[t]
  PROVE  Caused(t)'
<1>1. /\ Cardinality(Broken') \in Nat /\ Cardinality(Broken) \in Nat
      /\ Cardinality(Broken') <= Cardinality(Broken) /\ Cardinality(Threads) \in Nat
  BY FewerBroken, BrokenBounded, SetsFinite, Zenon
<1>2. trycnt[t] \in Nat
  BY TriesTyped, DbAssumption
<1>3. trycnt[t] + Cardinality(Broken) <= Cardinality(Threads) + 1
           => trycnt[t] + Cardinality(Broken') <= Cardinality(Threads) + 1
  BY <1>1, <1>2
<1>4. pc'[t] # "idle" /\ pc'[t] # "redo" /\ pc'[t] # "destroy"
  BY DEF Trying
<1> QED
  BY <1>3, <1>4, Zenon DEF Caused

\* A new call has no failed attempt yet.
LEMMA dbcmd_Caused ==
  ASSUME IInv, Cardinality(Threads) < Tries, \A u \in Threads : Caused(u),
         NEW t \in Threads, _dbcmd(t)
  PROVE  \A u \in Threads : Caused(u)'
<1>1. Elsewhere(t)
  BY Zenon DEF Elsewhere, Broken, _dbcmd, IInv, TypeOK, poolVars, wire
<1>2. Caused(t)'
  <2>1. pc'[t] = "redo" /\ trycnt'[t] = 0 /\ Broken' = Broken
    BY Zenon DEF Caused, Broken, _dbcmd, IInv, TypeOK, wire
  <2>2. 0 + Cardinality(Broken) <= Cardinality(Threads)
    BY BrokenBounded
  <2>3. pc'[t] \notin Trying /\ pc'[t] # "idle" /\ pc'[t] # "destroy"
    BY <2>1 DEF Trying
  <2> QED
    BY <2>1, <2>2, <2>3, Zenon DEF Caused
<1> QED
  BY <1>1, <1>2, OthersCaused, Zenon

\* A call that has met nothing does not give up: fewer connections were broken
\* than it has attempts.
LEMMA redo_Caused ==
  ASSUME IInv, Cardinality(Threads) < Tries, \A u \in Threads : Caused(u),
         NEW t \in Threads, redo(t)
  PROVE  \A u \in Threads : Caused(u)'
<1>1. Elsewhere(t)
  BY Zenon DEF Elsewhere, Broken, redo, IInv, TypeOK, poolVars, wire
<1>2. Caused(t)'
  <2>1. /\ pc[t] = "redo" /\ excuse'[t] = excuse[t] /\ Broken' = Broken
        /\ trycnt'[t] = IF trycnt[t] > Tries - 1 THEN 0 ELSE trycnt[t] + 1
        /\ pc'[t] = IF trycnt[t] > Tries - 1 THEN "idle" ELSE "get"
    BY Zenon DEF Broken, redo, IInv, TypeOK, wire
  <2>2. trycnt[t] \in Nat /\ Tries \in Nat /\ Cardinality(Threads) \in Nat
        /\ Cardinality(Broken) \in Nat
    BY TriesTyped, DbAssumption, SetsFinite, BrokenBounded
  <2>3. CASE excuse[t] = FALSE
    <3>1. trycnt[t] + Cardinality(Broken) <= Cardinality(Threads)
      BY <2>1, <2>3, Zenon DEF Caused
    <3>2. ~(trycnt[t] > Tries - 1)
      BY <2>2, <3>1
    <3>3. pc'[t] = "get" /\ trycnt'[t] = trycnt[t] + 1
      BY <2>1, <3>2, Zenon
    <3>4. trycnt'[t] + Cardinality(Broken') <= Cardinality(Threads) + 1
      BY <2>1, <2>2, <3>1, <3>3, SMTT(30)
    <3>5. pc'[t] # "idle" /\ pc'[t] # "redo" /\ pc'[t] # "destroy"
      BY <3>3
    <3> QED
      BY <3>4, <3>5, Zenon DEF Caused
  <2>4. CASE excuse[t] # FALSE
    <3>1. pc'[t] = "idle" => trycnt'[t] = 0
      BY <2>1
    <3> QED
      BY <2>1, <2>4, <3>1, Zenon DEF Caused
  <2> QED
    BY <2>3, <2>4, Zenon
<1> QED
  BY <1>1, <1>2, OthersCaused, Zenon

\* A failed attempt has taken its broken connection out of the world.
LEMMA destory_Caused ==
  ASSUME IInv, Cardinality(Threads) < Tries, \A u \in Threads : Caused(u),
         NEW t \in Threads, _db_conn_destory(t)
  PROVE  \A u \in Threads : Caused(u)'
<1>1. Elsewhere(t)
  <2>1. \A u \in Threads \ {t} : conn[u] # conn[t] /\ conn'[u] = conn[u]
    BY HeldConn, Zenon DEF _db_conn_destory, IInv, TypeOK
  <2>2. Broken' \subseteq Broken
    BY DEF Broken, _db_conn_destory, IInv, TypeOK
  <2>3. \A u \in Threads \ {t} : pc[u] = "destroy" => conn[u] \in Conns
    BY HeldConn, Zenon
  <2>4. \A u \in Threads \ {t} : pc[u] = "destroy" => link'[conn'[u]] = link[conn[u]]
    BY <2>1, <2>3 DEF _db_conn_destory, IInv, TypeOK
  <2> QED
    BY <2>2, <2>4, Zenon DEF Elsewhere, _db_conn_destory, IInv, TypeOK
<1>2. Caused(t)'
  <2>1. /\ pc[t] = "destroy" /\ conn[t] \in Conns
        /\ link' = [link EXCEPT ![conn[t]] = "closed"]
        /\ pc'[t] = "redo" /\ trycnt'[t] = trycnt[t] /\ excuse'[t] = excuse[t]
    BY HeldConn, Zenon DEF _db_conn_destory, IInv, TypeOK
  <2>2. pc'[t] \notin Trying /\ pc'[t] # "idle" /\ pc'[t] # "destroy" /\ pc[t] \in Trying
    BY <2>1 DEF Trying
  <2>3. CASE excuse[t] = FALSE
    <3>1. /\ link[conn[t]] = "broken"
          /\ trycnt[t] + Cardinality(Broken) <= Cardinality(Threads) + 1
      BY <2>1, <2>2, <2>3, ZenonT(30) DEF Caused
    <3>2. Broken' = Broken \ {conn[t]} /\ conn[t] \in Broken
      BY <2>1, <3>1 DEF Broken, IInv, TypeOK
    <3>3. Cardinality(Broken') = Cardinality(Broken) - 1
      BY <3>2, BrokenBounded, FS_RemoveElement, Zenon
    <3>4. trycnt[t] \in Nat /\ Cardinality(Threads) \in Nat /\ Cardinality(Broken) \in Nat
      BY TriesTyped, DbAssumption, SetsFinite, BrokenBounded, SMTT(30)
    <3>5. trycnt'[t] + Cardinality(Broken') <= Cardinality(Threads)
      BY <2>1, <3>1, <3>3, <3>4
    <3> QED
      BY <2>2, <3>5, Zenon DEF Caused
  <2>4. CASE excuse[t] # FALSE
    BY <2>1, <2>2, <2>4, Zenon DEF Caused
  <2> QED
    BY <2>3, <2>4, Zenon
<1> QED
  BY <1>1, <1>2, OthersCaused, Zenon

\* Taking a connection, broken or not, is part of the attempt.
LEMMA get_conn_Caused ==
  ASSUME IInv, Cardinality(Threads) < Tries, \A u \in Threads : Caused(u),
         NEW t \in Threads, _db_get_conn(t)
  PROVE  \A u \in Threads : Caused(u)'
<1>1. Elsewhere(t)
  <2>1. \A u \in Threads \ {t} : conn'[u] = conn[u] /\ pc'[u] = pc[u]
    BY DEF _db_get_conn, IInv, TypeOK
  <2> QED
    BY <2>1, Zenon DEF Elsewhere, Broken, _db_get_conn, poolVars, wire
<1>2. Caused(t)'
  <2>1. /\ pc[t] \in Trying /\ pc'[t] \in Trying \ {"destroy"}
        /\ excuse'[t] = excuse[t] /\ trycnt'[t] = trycnt[t]
    BY DEF Trying, _db_get_conn, IInv, TypeOK
  <2> QED
    BY <1>1, <2>1, GoesOn, Zenon DEF Elsewhere
<1> QED
  BY <1>1, <1>2, OthersCaused, Zenon

\* A new connection is not a broken one.
LEMMA new_conn_Caused ==
  ASSUME IInv, Cardinality(Threads) < Tries, \A u \in Threads : Caused(u),
         NEW t \in Threads, _db_new_conn(t)
  PROVE  \A u \in Threads : Caused(u)'
<1>1. Elsewhere(t)
  <2>1. PICK c \in Conns : /\ link[c] = "closed"
                           /\ link' = [link EXCEPT ![c] = "up"]
                           /\ conn' = [conn EXCEPT ![t] = c]
    BY Zenon DEF _db_new_conn
  <2>2. Broken' \subseteq Broken
    BY <2>1 DEF Broken, IInv, TypeOK
  <2>3. \A u \in Threads \ {t} : pc[u] = "destroy" => conn[u] \in Conns /\ conn[u] # c
    BY <2>1, HeldConn, Zenon DEF IInv, Exclusive
  <2>4. \A u \in Threads \ {t} : pc[u] = "destroy" => link'[conn'[u]] = link[conn[u]]
    BY <2>1, <2>3, ZenonT(30) DEF IInv, TypeOK
  <2> QED
    BY <2>2, <2>4, Zenon DEF Elsewhere, _db_new_conn, IInv, TypeOK
<1>2. Caused(t)'
  <2>1. /\ pc[t] \in Trying /\ pc'[t] \in Trying \ {"destroy"}
        /\ excuse'[t] = excuse[t] /\ trycnt'[t] = trycnt[t]
    BY DEF Trying, _db_new_conn, IInv, TypeOK
  <2> QED
    BY <1>1, <2>1, GoesOn, Zenon DEF Elsewhere
<1> QED
  BY <1>1, <1>2, OthersCaused, Zenon

\* A refused connection is a cause.
LEMMA connect_fails_Caused ==
  ASSUME IInv, Cardinality(Threads) < Tries, \A u \in Threads : Caused(u),
         NEW t \in Threads, connect_fails(t)
  PROVE  \A u \in Threads : Caused(u)'
<1>1. Elsewhere(t)
  BY Zenon DEF Elsewhere, Broken, connect_fails, IInv, TypeOK, poolVars, wire
<1>2. Caused(t)'
  <2>1. pc'[t] = "idle" /\ trycnt'[t] = 0 /\ excuse'[t] = TRUE
    BY Zenon DEF connect_fails, IInv, TypeOK
  <2> QED
    BY <2>1, Zenon DEF Caused
<1> QED
  BY <1>1, <1>2, OthersCaused, Zenon

\* Sending is part of the attempt.
LEMMA dbsend_Caused ==
  ASSUME IInv, Cardinality(Threads) < Tries, \A u \in Threads : Caused(u),
         NEW t \in Threads, _dbsend(t)
  PROVE  \A u \in Threads : Caused(u)'
<1>1. Elsewhere(t)
  BY Zenon DEF Elsewhere, Broken, _dbsend, IInv, TypeOK, poolVars, wire
<1>2. Caused(t)'
  <2>1. /\ pc[t] \in Trying /\ pc'[t] \in Trying \ {"destroy"}
        /\ excuse'[t] = excuse[t] /\ trycnt'[t] = trycnt[t]
    BY DEF Trying, _dbsend, IInv, TypeOK
  <2> QED
    BY <1>1, <2>1, GoesOn, Zenon DEF Elsewhere
<1> QED
  BY <1>1, <1>2, OthersCaused, Zenon

\* An attempt fails without a cause of its own only on a broken connection.
LEMMA broken_Caused ==
  ASSUME IInv, Cardinality(Threads) < Tries, \A u \in Threads : Caused(u),
         NEW t \in Threads, broken(t)
  PROVE  \A u \in Threads : Caused(u)'
<1>1. Elsewhere(t)
  BY Zenon DEF Elsewhere, Broken, broken, Failed, IInv, TypeOK, poolVars, wire
<1>2. Caused(t)'
  <2>1. /\ pc[t] \in {"send", "recv"} /\ pc'[t] = "destroy" /\ link[conn[t]] = "broken"
        /\ excuse'[t] = excuse[t] /\ trycnt'[t] = trycnt[t] /\ link' = link /\ conn' = conn
        /\ Broken' = Broken
    BY Zenon DEF broken, Failed, Broken, IInv, TypeOK, wire
  <2>2. pc[t] \in Trying /\ pc'[t] # "idle" /\ pc'[t] # "redo"
    BY <2>1 DEF Trying
  <2> QED
    BY <2>1, <2>2, Zenon DEF Caused
<1> QED
  BY <1>1, <1>2, OthersCaused, Zenon

\* A timeout is a cause.
LEMMA timeout_Caused ==
  ASSUME IInv, Cardinality(Threads) < Tries, \A u \in Threads : Caused(u),
         NEW t \in Threads, timeout(t)
  PROVE  \A u \in Threads : Caused(u)'
<1>1. Elsewhere(t)
  BY Zenon DEF Elsewhere, Broken, timeout, Failed, IInv, TypeOK, poolVars, wire
<1>2. Caused(t)'
  <2>1. pc'[t] = "destroy" /\ excuse'[t] = TRUE
    BY ZenonT(30) DEF timeout, Failed, IInv, TypeOK
  <2>2. pc'[t] # "idle"
    BY <2>1
  <2> QED
    BY <2>1, <2>2, Zenon DEF Caused
<1> QED
  BY <1>1, <1>2, OthersCaused, Zenon

\* Reading a piece of the reply is part of the attempt.
LEMMA dbrecv_Caused ==
  ASSUME IInv, Cardinality(Threads) < Tries, \A u \in Threads : Caused(u),
         NEW t \in Threads, _dbrecv(t)
  PROVE  \A u \in Threads : Caused(u)'
<1>1. Elsewhere(t)
  BY Zenon DEF Elsewhere, Broken, _dbrecv, IInv, TypeOK, poolVars
<1>2. Caused(t)'
  <2>1. pc[t] = "recv" /\ pc'[t] \in {"push", "recv"}
    BY Zenon DEF _dbrecv, IInv, TypeOK
  <2>2. excuse'[t] = excuse[t] /\ trycnt'[t] = trycnt[t]
    BY Zenon DEF _dbrecv
  <2>3. pc[t] \in Trying /\ pc'[t] \in Trying \ {"destroy"}
    BY <2>1 DEF Trying
  <2> QED
    BY <1>1, <2>2, <2>3, GoesOn, Zenon DEF Elsewhere
<1> QED
  BY <1>1, <1>2, OthersCaused, Zenon

\* A call with a reply does not report an error.
LEMMA conn_free_Caused ==
  ASSUME IInv, Cardinality(Threads) < Tries, \A u \in Threads : Caused(u),
         NEW t \in Threads, _db_conn_free(t)
  PROVE  \A u \in Threads : Caused(u)'
<1>1. Elsewhere(t)
  BY Zenon DEF Elsewhere, Broken, _db_conn_free, IInv, TypeOK, poolVars, wire
<1>2. Caused(t)'
  <2>1. pc'[t] = "idle" /\ trycnt'[t] = 0 /\ rno'[t] = "reply"
    BY ZenonT(30) DEF _db_conn_free, IInv, TypeOK
  <2>2. pc'[t] \notin Trying /\ pc'[t] # "redo" /\ pc'[t] # "destroy" /\ rno'[t] # "connect_err"
    BY <2>1 DEF Trying
  <2> QED
    BY <2>1, <2>2, Zenon DEF Caused
<1> QED
  BY <1>1, <1>2, OthersCaused, Zenon

\* A restart is a cause for every call under way.
LEMMA db_stop_Caused ==
  ASSUME IInv, \A u \in Threads : Caused(u), db_stop
  PROVE  \A u \in Threads : Caused(u)'
<1> SUFFICES ASSUME NEW u \in Threads PROVE Caused(u)'
  BY Zenon
<1>1. /\ pc'[u] = pc[u] /\ trycnt'[u] = trycnt[u] /\ rno'[u] = rno[u]
      /\ excuse'[u] = (pc[u] \notin {"idle", "dead"} \/ excuse[u])
  BY Zenon DEF db_stop
<1>2. CASE pc[u] = "idle"
  <2>1. excuse'[u] = excuse[u]
    BY <1>1, <1>2, TriesTyped, Zenon
  <2>2. pc[u] \notin Trying /\ pc[u] # "redo" /\ pc[u] # "destroy"
    BY <1>2 DEF Trying
  <2> QED
    BY <1>1, <2>1, <2>2, Zenon DEF Caused
<1>3. CASE pc[u] = "dead"
  <2>1. pc[u] \notin Trying /\ pc[u] # "redo" /\ pc[u] # "destroy" /\ pc[u] # "idle"
    BY <1>3 DEF Trying
  <2> QED
    BY <1>1, <2>1, Zenon DEF Caused
<1>4. CASE pc[u] \notin {"idle", "dead"}
  <2>1. excuse'[u] = TRUE /\ pc'[u] # "idle"
    BY <1>1, <1>4, Zenon
  <2> QED
    BY <2>1, Zenon DEF Caused
<1> QED
  BY <1>2, <1>3, <1>4, Zenon

\* Where nothing a call depends on changes, its failures stay caused.
LEMMA CausedStays ==
  ASSUME \A u \in Threads : Caused(u), UNCHANGED <<pc, conn, trycnt, rno, excuse, link>>
  PROVE  \A u \in Threads : Caused(u)'
<1>1. Broken' = Broken
  BY Zenon DEF Broken
<1> QED
  BY <1>1, Zenon DEF Caused

\* Every step keeps the failures caused.
LEMMA NextCaused == IInv /\ FailuresCaused /\ [Next]_vars => FailuresCaused'
<1> SUFFICES ASSUME IInv, [Next]_vars, Cardinality(Threads) < Tries,
                    \A u \in Threads : Caused(u)
             PROVE  \A u \in Threads : Caused(u)'
  BY Zenon DEF FailuresCaused
<1>1. CASE UNCHANGED vars
  BY <1>1, CausedStays, Zenon DEF vars, callVars, wire
<1>2. ASSUME NEW t \in Threads, _dbcmd(t) PROVE \A u \in Threads : Caused(u)'
  BY <1>2, dbcmd_Caused, Zenon
<1>3. ASSUME NEW t \in Threads, sigpipe(t) PROVE \A u \in Threads : Caused(u)'
  <2>1. \A u \in Threads : pc'[u] = "dead"
    BY <1>3, Zenon DEF sigpipe
  <2>2. \A u \in Threads : pc'[u] \notin Trying /\ pc'[u] # "redo" /\ pc'[u] # "destroy" /\ pc'[u] # "idle"
    BY <2>1 DEF Trying
  <2> QED
    BY <2>2, Zenon DEF Caused
<1>4. ASSUME NEW t \in Threads, Call(t) PROVE \A u \in Threads : Caused(u)'
  <2>1. CASE redo(t)
    BY <2>1, redo_Caused, Zenon
  <2>2. CASE _db_conn_destory(t)
    BY <2>2, destory_Caused, Zenon
  <2>3. CASE _db_get_conn(t)
    BY <2>3, get_conn_Caused, Zenon
  <2>4. CASE _db_new_conn(t)
    BY <2>4, new_conn_Caused, Zenon
  <2>5. CASE connect_fails(t)
    BY <2>5, connect_fails_Caused, Zenon
  <2>6. CASE _dbsend(t)
    BY <2>6, dbsend_Caused, Zenon
  <2>7. CASE broken(t)
    BY <2>7, broken_Caused, Zenon
  <2>8. CASE timeout(t)
    BY <2>8, timeout_Caused, Zenon
  <2>9. CASE _dbrecv(t)
    BY <2>9, dbrecv_Caused, Zenon
  <2>10. CASE _db_conn_free(t)
    BY <2>10, conn_free_Caused, Zenon
  <2> QED
    BY <1>3, <1>4, <2>1, <2>2, <2>3, <2>4, <2>5, <2>6, <2>7, <2>8, <2>9, <2>10, ZenonT(30) DEF Call
<1>5. ASSUME NEW c \in Conns, db_answer(c) PROVE \A u \in Threads : Caused(u)'
  BY <1>5, CausedStays, Zenon DEF db_answer, callVars
<1>6. CASE db_stop
  BY <1>6, db_stop_Caused, Zenon
<1>7. CASE db_start
  BY <1>7, CausedStays, Zenon DEF db_start, callVars
<1> QED
  BY <1>1, <1>2, <1>4, <1>5, <1>6, <1>7, Zenon DEF Next

-----------------------------------------------------------------------------
\* The inductive invariant holds throughout.
THEOREM Invariance == Spec => []IInv
BY InitIInv, NextIInv, PTL DEF Spec

\* The variables of _dbdo, of the lists and of the database keep their types,
\* and a thread has a connection exactly while it uses one.
THEOREM TypeHolds == Spec => []TypeOK
<1>1. IInv => TypeOK
  BY Zenon DEF IInv
<1> QED
  BY <1>1, Invariance, PTL

\* Whatever the interleaving of taking, creating, returning and destroying, a
\* connection is free once or used by one thread, and the counters are exact.
THEOREM OneHolderHolds == Spec => []OneHolder
<1>1. IInv => OneHolder
  BY ExclusiveOneHolder, Zenon DEF IInv
<1> QED
  BY <1>1, Invariance, PTL

\* The pool never holds more connections than the client has threads.
THEOREM PoolBoundedHolds == Spec => []PoolBounded
BY IInvPoolBounded, Invariance, PTL

\* A call never parses the reply to another call's request, nor to an earlier
\* request of its own.
THEOREM RepliesMatchHolds == Spec => []RepliesMatch
<1>1. IInv => RepliesMatch
  BY Zenon DEF IInv
<1> QED
  BY <1>1, Invariance, PTL

\* With fewer threads than attempts of _dbdo, a call reports DB_CONNECT_ERR only
\* after a timeout, a restart or a refused connection of its own: at most as
\* many connections are broken as there are threads, every failed attempt
\* destroys one of them, and only a restart breaks more.
THEOREM ErrorsHaveACauseHolds == Spec => []ErrorsHaveACause
<1>1. dbinit => FailuresCaused
  <2> SUFFICES ASSUME dbinit, NEW t \in Threads PROVE Caused(t)
    BY Zenon DEF FailuresCaused
  <2>1. pc[t] = "idle" /\ trycnt[t] = 0 /\ rno[t] = "none"
    BY Zenon DEF dbinit
  <2>2. pc[t] \notin Trying /\ pc[t] # "redo" /\ pc[t] # "destroy" /\ rno[t] # "connect_err"
    BY <2>1 DEF Trying
  <2> QED
    BY <2>1, <2>2, Zenon DEF Caused
<1>2. IInv /\ FailuresCaused => ErrorsHaveACause
  <2> SUFFICES ASSUME IInv, FailuresCaused, Cardinality(Threads) < Tries, NEW t \in Threads,
                      pc[t] = "idle", rno[t] = "connect_err"
               PROVE  excuse[t]
    BY Zenon DEF ErrorsHaveACause
  <2>1. excuse[t] # FALSE /\ excuse[t] \in BOOLEAN
    BY TriesTyped, Zenon DEF FailuresCaused, Caused
  <2> QED
    BY <2>1, Zenon
<1> QED
  BY <1>1, <1>2, NextCaused, Invariance, PTL DEF Spec
=============================================================================
