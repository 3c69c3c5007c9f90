------------------------------ MODULE DbPool ------------------------------
(***************************************************************************)
(* The database client of TCP_C/db.c: worker threads send one request at a *)
(* time over a connection taken from a shared list of free connections,    *)
(* wait at most a second for the reply, and on any failure destroy the     *)
(* connection and try again.  The free list and the pool hash have a lock  *)
(* each.  The database (SSDB) is external: it answers the requests of a    *)
(* connection in order, in one or more pieces, and may be restarted.       *)
(*                                                                         *)
(* A request is known by the thread that sent it and a number, which is    *)
(* also all that is kept of its reply.  Every db* function (dbget, dbset,  *)
(* dbscan, dbdel, dbexists, dbmulti_*, dbflush, dbsize) is _dbcmd around   *)
(* _dbdo with a request of its own.                                        *)
(***************************************************************************)
EXTENDS Naturals, Sequences, FiniteSets

CONSTANTS Threads, Conns, NoConn,
          Tries,       \* attempts of _dbdo (trycnt++ > 3: four)
          MaxCalls,    \* bound: request numbers, reused cyclically
          MaxPieces    \* bound: pieces of a reply

ASSUME DbAssumption ==
    /\ NoConn \notin Conns /\ IsFiniteSet(Threads)
    /\ Tries \in Nat \ {0} /\ MaxCalls \in Nat \ {0} /\ MaxPieces \in Nat \ {0}

VARIABLES free, free_count,   \* _db_free_conn_list, _db_free_conn_count
          pool, pool_count,   \* _db_pool_conn_hash, _db_pool_conn_count
          pc, conn, trycnt, rno,   \* each thread in _dbdo; trycnt is 0 outside it
          num,                \* each thread: number of its current request
          buf,                \* each thread: the reply it has read
          excuse,             \* history: this call met a timeout, a restart or
                              \* a refused connection
          link,               \* each connection: "closed", "up" or "broken"
          asked, reply,       \* requests the database has not answered, and
                              \* the pieces of replies not yet received
          db                  \* is the database accepting connections

poolVars == <<free, free_count, pool, pool_count>>
callVars == <<pc, conn, trycnt, rno, num, buf, excuse>>
wire     == <<link, asked, reply, db>>
vars     == <<poolVars, callVars, wire>>

Request == Threads \X (1..MaxCalls)
Piece   == [req : Request, last : BOOLEAN]
RNO     == {"none", "reply", "connect_err"}
PC      == {"idle", "redo", "destroy", "get", "new", "send", "recv", "push", "dead"}

\* dbinit
dbinit ==
    /\ free = <<>> /\ free_count = 0
    /\ pool = {} /\ pool_count = 0
    /\ pc = [t \in Threads |-> "idle"]
    /\ conn = [t \in Threads |-> NoConn]
    /\ trycnt = [t \in Threads |-> 0]
    /\ rno = [t \in Threads |-> "none"]
    /\ num = [t \in Threads |-> 1]
    /\ buf = [t \in Threads |-> <<>>]
    /\ excuse = [t \in Threads |-> FALSE]
    /\ link = [c \in Conns |-> "closed"]
    /\ asked = [c \in Conns |-> <<>>]
    /\ reply = [c \in Conns |-> <<>>]
    /\ db = "up"

\* _dbcmd enters _dbdo with a new request.
_dbcmd(t) ==
    /\ pc[t] = "idle"
    /\ pc' = [pc EXCEPT ![t] = "redo"]
    /\ num' = [num EXCEPT ![t] = (@ % MaxCalls) + 1]
    /\ rno' = [rno EXCEPT ![t] = "none"]
    /\ buf' = [buf EXCEPT ![t] = <<>>]
    /\ excuse' = [excuse EXCEPT ![t] = FALSE]
    /\ UNCHANGED <<poolVars, conn, trycnt, wire>>

GivesUpEarly(t) ==
    /\ pc[t] = "redo"
    /\ trycnt' = [trycnt EXCEPT ![t] = IF @ > 0 THEN 0 ELSE @ + 1]
    /\ pc' = [pc EXCEPT ![t] = IF trycnt[t] > 0 THEN "idle" ELSE "get"]
    /\ UNCHANGED <<poolVars, conn, rno, num, buf, excuse, wire>>

\* The label REDO, without the connection of a failed attempt: at most Tries
\* attempts are made, and the last failure stands.
redo(t) ==
    /\ pc[t] = "redo"
    /\ trycnt' = [trycnt EXCEPT ![t] = IF @ > Tries - 1 THEN 0 ELSE @ + 1]
    /\ pc' = [pc EXCEPT ![t] = IF trycnt[t] > Tries - 1 THEN "idle" ELSE "get"]
    /\ UNCHANGED <<poolVars, conn, rno, num, buf, excuse, wire>>

ForgetsToDestroy(t) ==
    /\ pc[t] = "destroy"
    /\ free' = Append(free, conn[t]) /\ free_count' = free_count + 1
    /\ conn' = [conn EXCEPT ![t] = NoConn]
    /\ pc' = [pc EXCEPT ![t] = "redo"]
    /\ UNCHANGED <<pool, pool_count, trycnt, rno, num, buf, excuse, wire>>

\* _db_conn_destory: out of the hash, then closed; what was under way is lost.
_db_conn_destory(t) ==
    /\ pc[t] = "destroy"
    /\ pool' = pool \ {conn[t]} /\ pool_count' = pool_count - 1
    /\ link' = [link EXCEPT ![conn[t]] = "closed"]
    /\ asked' = [asked EXCEPT ![conn[t]] = <<>>]
    /\ reply' = [reply EXCEPT ![conn[t]] = <<>>]
    /\ conn' = [conn EXCEPT ![t] = NoConn]
    /\ pc' = [pc EXCEPT ![t] = "redo"]
    /\ UNCHANGED <<free, free_count, trycnt, rno, num, buf, excuse, db>>

AlwaysNew(t) ==
    /\ pc[t] = "get"
    /\ pc' = [pc EXCEPT ![t] = "new"]
    /\ UNCHANGED <<poolVars, conn, trycnt, rno, num, buf, excuse, wire>>

PeeksFreeConn(t) ==
    /\ pc[t] = "get"
    /\ \/ /\ free_count = 0
          /\ pc' = [pc EXCEPT ![t] = "new"]
          /\ UNCHANGED <<free, free_count, conn>>
       \/ /\ free_count # 0
          /\ conn' = [conn EXCEPT ![t] = Head(free)]
          /\ free' = free
          /\ free_count' = free_count - 1
          /\ pc' = [pc EXCEPT ![t] = "send"]
    /\ UNCHANGED <<pool, pool_count, trycnt, rno, num, buf, excuse, wire>>

\* _db_get_conn under DB_FREE_WR_LOCK: the first free connection, whatever
\* has become of it meanwhile (keepalive is never tested), or a new one.
_db_get_conn(t) ==
    /\ pc[t] = "get"
    /\ \/ /\ free_count = 0
          /\ pc' = [pc EXCEPT ![t] = "new"]
          /\ UNCHANGED <<free, free_count, conn>>
       \/ /\ free_count # 0
          /\ conn' = [conn EXCEPT ![t] = Head(free)]
          /\ free' = Tail(free)
          /\ free_count' = free_count - 1
          /\ pc' = [pc EXCEPT ![t] = "send"]
    /\ UNCHANGED <<pool, pool_count, trycnt, rno, num, buf, excuse, wire>>

\* _db_new_conn after the lock is released.
_db_new_conn(t) ==
    /\ pc[t] = "new" /\ db = "up"
    /\ \E c \in Conns :
         /\ link[c] = "closed"
         /\ link' = [link EXCEPT ![c] = "up"]
         /\ pool' = pool \cup {c} /\ pool_count' = pool_count + 1
         /\ conn' = [conn EXCEPT ![t] = c]
    /\ pc' = [pc EXCEPT ![t] = "send"]
    /\ UNCHANGED <<free, free_count, trycnt, rno, num, buf, excuse, asked, reply, db>>

SendsWithoutConn(t) ==
    /\ pc[t] = "new"
    /\ rno' = [rno EXCEPT ![t] = "connect_err"]
    /\ excuse' = [excuse EXCEPT ![t] = TRUE]
    /\ pc' = [pc EXCEPT ![t] = "send"]
    /\ UNCHANGED <<poolVars, conn, trycnt, num, buf, wire>>

\* connect is refused, or there is no memory or descriptor for a connection:
\* _dbdo does not try again.
connect_fails(t) ==
    /\ pc[t] = "new"
    /\ rno' = [rno EXCEPT ![t] = "connect_err"]
    /\ excuse' = [excuse EXCEPT ![t] = TRUE]
    /\ trycnt' = [trycnt EXCEPT ![t] = 0]
    /\ pc' = [pc EXCEPT ![t] = "idle"]
    /\ UNCHANGED <<poolVars, conn, num, buf, wire>>

\* _dbsend; over a broken connection it may still appear to work.
_dbsend(t) ==
    /\ pc[t] = "send"
    /\ asked' = [asked EXCEPT ![conn[t]] =
                   IF link[conn[t]] = "up" THEN Append(@, <<t, num[t]>>) ELSE @]
    /\ pc' = [pc EXCEPT ![t] = "recv"]
    /\ UNCHANGED <<poolVars, conn, trycnt, rno, num, buf, excuse, link, reply, db>>

Failed(t) ==
    /\ rno' = [rno EXCEPT ![t] = "connect_err"]
    /\ buf' = [buf EXCEPT ![t] = <<>>]
    /\ pc' = [pc EXCEPT ![t] = "destroy"]

\* send or recv reports a connection that is gone.
broken(t) ==
    /\ pc[t] \in {"send", "recv"} /\ link[conn[t]] = "broken"
    /\ Failed(t)
    /\ UNCHANGED <<poolVars, conn, trycnt, num, excuse, wire>>

\* send on a broken connection raises SIGPIPE, for which an_signals_init installs
\* a struct sigaction it never fills in: the signal is ignored, or handled and
\* send fails (broken), or it ends the process.
sigpipe(t) ==
    /\ pc[t] = "send" /\ link[conn[t]] = "broken"
    /\ pc' = [u \in Threads |-> "dead"]
    /\ UNCHANGED <<poolVars, conn, trycnt, rno, num, buf, excuse, wire>>

NoRecvTimeout(t) ==
    /\ pc[t] = "send" /\ link[conn[t]] = "up"
    /\ Failed(t)
    /\ excuse' = [excuse EXCEPT ![t] = TRUE]
    /\ UNCHANGED <<poolVars, conn, trycnt, num, wire>>

\* SO_SNDTIMEO or SO_RCVTIMEO, or no memory for the reply: the request may be
\* answered later.
timeout(t) ==
    /\ pc[t] \in {"send", "recv"} /\ link[conn[t]] = "up"
    /\ Failed(t)
    /\ excuse' = [excuse EXCEPT ![t] = TRUE]
    /\ UNCHANGED <<poolVars, conn, trycnt, num, wire>>

\* _dbrecv with _dbcheck: the reply is complete when what has been read so far
\* ends in two line feeds.  Only its last piece is taken to end so, which holds
\* unless a value has an empty line just where a segment ends.
_dbrecv(t) ==
    /\ pc[t] = "recv" /\ reply[conn[t]] # <<>>
    /\ LET p == Head(reply[conn[t]]) IN
         /\ buf' = [buf EXCEPT ![t] = Append(@, p)]
         /\ pc' = [pc EXCEPT ![t] = IF p.last THEN "push" ELSE "recv"]
    /\ reply' = [reply EXCEPT ![conn[t]] = Tail(@)]
    /\ UNCHANGED <<poolVars, conn, trycnt, rno, num, excuse, link, asked, db>>

\* _db_conn_free, then _dbphrase on the reply read.
_db_conn_free(t) ==
    /\ pc[t] = "push"
    /\ free' = Append(free, conn[t]) /\ free_count' = free_count + 1
    /\ conn' = [conn EXCEPT ![t] = NoConn]
    /\ rno' = [rno EXCEPT ![t] = "reply"]
    /\ trycnt' = [trycnt EXCEPT ![t] = 0]
    /\ pc' = [pc EXCEPT ![t] = "idle"]
    /\ UNCHANGED <<pool, pool_count, num, buf, excuse, wire>>

-----------------------------------------------------------------------------
(* The database. *)

\* It answers the oldest request of a connection, in up to MaxPieces pieces.
db_answer(c) ==
    /\ link[c] = "up" /\ asked[c] # <<>>
    /\ \E n \in 1..MaxPieces :
         reply' = [reply EXCEPT ![c] = @ \o [k \in 1..n |->
                     [req |-> Head(asked[c]), last |-> k = n]]]
    /\ asked' = [asked EXCEPT ![c] = Tail(@)]
    /\ UNCHANGED <<poolVars, callVars, link, db>>

\* It stops: every connection breaks, used or free.  What it had sent may still
\* be read.
db_stop ==
    /\ db = "up"
    /\ db' = "down"
    /\ link' = [c \in Conns |-> IF link[c] = "up" THEN "broken" ELSE link[c]]
    /\ asked' = [c \in Conns |-> <<>>]
    /\ excuse' = [t \in Threads |-> pc[t] \notin {"idle", "dead"} \/ excuse[t]]
    /\ UNCHANGED <<poolVars, pc, conn, trycnt, rno, num, buf, reply>>

db_start ==
    /\ db = "down"
    /\ db' = "up"
    /\ UNCHANGED <<poolVars, callVars, link, asked, reply>>

Call(t) == \/ redo(t) \/ _db_conn_destory(t) \/ _db_get_conn(t) \/ _db_new_conn(t)
           \/ connect_fails(t) \/ _dbsend(t) \/ broken(t) \/ sigpipe(t) \/ timeout(t)
           \/ _dbrecv(t) \/ _db_conn_free(t)

Next == \/ \E t \in Threads : _dbcmd(t) \/ Call(t)
        \/ \E c \in Conns : db_answer(c)
        \/ db_stop \/ db_start

Spec == dbinit /\ [][Next]_vars

\* A thread in a call runs on: connect, send and recv all return, the last two
\* within a second.
FairSpec == Spec /\ \A t \in Threads : WF_vars(Call(t))

-----------------------------------------------------------------------------
(* Properties. *)

\* Every variable keeps its type; a thread has a connection exactly while it
\* uses one.
TypeOK ==
    /\ free \in Seq(Conns) /\ free_count \in Nat
    /\ pool \subseteq Conns /\ pool_count \in Nat
    /\ pc \in [Threads -> PC]
    /\ conn \in [Threads -> Conns \cup {NoConn}]
    /\ trycnt \in [Threads -> 0..Tries]
    /\ rno \in [Threads -> RNO]
    /\ num \in [Threads -> 1..MaxCalls]
    /\ buf \in [Threads -> Seq(Piece)]
    /\ excuse \in [Threads -> BOOLEAN]
    /\ link \in [Conns -> {"closed", "up", "broken"}]
    /\ asked \in [Conns -> Seq(Request)]
    /\ reply \in [Conns -> Seq(Piece)]
    /\ db \in {"up", "down"}
    /\ \A t \in Threads : pc[t] # "dead" =>
         (conn[t] # NoConn <=> pc[t] \in {"destroy", "send", "recv", "push"})

\* The counters say what the lists hold, which is what the assertions of
\* _db_get_conn rely on; and a connection of the pool is either once in the
\* free list or in use by one thread, never both, although taking, creating,
\* returning and destroying run under different locks.
OneHolder ==
    /\ free_count = Len(free)
    /\ pool_count = Cardinality(pool)
    /\ pool = {c \in Conns : link[c] # "closed"}
    /\ \A j, k \in DOMAIN free : j # k => free[j] # free[k]
    /\ \A t, u \in Threads : t # u /\ conn[t] # NoConn => conn[t] # conn[u]
    /\ pool = {free[k] : k \in DOMAIN free} \cup ({conn[t] : t \in Threads} \ {NoConn})
    /\ \A t \in Threads, k \in DOMAIN free : conn[t] # free[k]

\* The client never holds more connections than it has threads, although a
\* thread that found the free list empty creates one after unlocking it.
PoolBounded == Cardinality(pool) <= Cardinality(Threads)

\* A reply that is parsed answers the request of that very call: a late answer
\* to a request that timed out reaches nobody, because its connection is
\* destroyed before the retry.
RepliesMatch ==
    \A t \in Threads : \A k \in DOMAIN buf[t] : buf[t][k].req = <<t, num[t]>>

\* With fewer threads than attempts a call reports DB_CONNECT_ERR only if it
\* met a timeout, a restart or a refused connection itself: connections that
\* broke while they were free are used up by the retries.
ErrorsHaveACause ==
    Cardinality(Threads) < Tries =>
        \A t \in Threads : pc[t] = "idle" /\ rno[t] = "connect_err" => excuse[t]

\* Every call returns, whatever the database does, unless SIGPIPE ends the
\* process.
CallsReturn == \A t \in Threads : []<>(pc[t] \in {"idle", "dead"})

=============================================================================
