-------------------------- MODULE Analyzer_proofs --------------------------
(***************************************************************************)
(* The steps of Analyzer, for a table of any size and any set of           *)
(* connections and packets:                                                *)
(*                                                                         *)
(* - the array an_conn_array, its bound an_curfds and the hash             *)
(*   an_sock_hash agree, whatever an_split_rcv_buf_to_json makes of what   *)
(*   is received;                                                          *)
(* - the bytes of a call stay in the order of its packet (Streams);        *)
(* - a framed packet is handed on whole and once (Whole);                  *)
(* - a call that waits keeps the slot that its task remembers (Askers).    *)
(*                                                                         *)
(* The last three need to know what an_split_rcv_buf_to_json does with a   *)
(* buffer.  Splits says it; Analyzer_split proves Splits, and from it and  *)
(* the lemmas of this module the theorems.                                 *)
(***************************************************************************)
EXTENDS Analyzer, TLAPS

\* The fields of an an_socket_t, whatever they hold.
Fields == {"rcv", "short", "send"}

\* The types of the variables that the table depends on.
Shape ==
    /\ up \in {"up", "exit", "dead", "overrun"}
    /\ pc \in {"poll", "accept", "scan"}
    /\ i \in 0..(AN_POLL_MAX - 1) /\ (pc # "poll" => i \in Slots)
    /\ fd \in [Slots -> Conns \cup {NoFd}]
    /\ an_curfds \in 1..AN_POLL_MAX
    /\ DOMAIN sock = Slots
    /\ \A s \in Slots : sock[s] = NoSock \/ DOMAIN sock[s] = Fields
    /\ tasks \subseteq [index : Slots, from : Conns]
    /\ conn \in [Conns -> {"free", "backlog", "open", "leaked"}]
    /\ backlog \in Seq(Conns)

\* The connections that wait for accept are in the backlog once, and an_poll
\* calls accept only when there is one.
Queued ==
    /\ \A j \in 1..Len(backlog) : conn[backlog[j]] = "backlog"
    /\ \A j, k \in 1..Len(backlog) : j # k => backlog[j] # backlog[k]
    /\ pc = "accept" => backlog # <<>>

\* TableMatchesHash, element by element.
Matches ==
    /\ \A s, t \in Slots : fd[s] = fd[t] /\ fd[s] # NoFd => s = t
    /\ \A s \in Slots : fd[s] # NoFd => conn[fd[s]] = "open"
    /\ \A c \in Conns : conn[c] = "open" => \E s \in Slots : fd[s] = c
    /\ \A s \in Slots : sock[s] # NoSock => fd[s] # NoFd
    /\ ~MemoryMayFail => \A s \in Slots : fd[s] # NoFd => sock[s] # NoSock

\* The inductive invariant.
IInv == Shape /\ Matches /\ CurfdsCoversTable /\ Queued

\* The control point of an_poll and the index of its scan.
Cursor ==
    /\ up \in {"up", "exit", "dead", "overrun"}
    /\ pc \in {"poll", "accept", "scan"}
    /\ i \in 0..(AN_POLL_MAX - 1) /\ (pc # "poll" => i \in Slots)

\* A step that leaves the table, the hash and the backlog alone.
LEMMA TableStays ==
  ASSUME IInv, UNCHANGED <<fd, an_curfds, sock, conn, backlog>>,
         Cursor', pc' = "accept" => backlog # <<>>, tasks' \subseteq [index : Slots, from : Conns]
  PROVE  IInv'
<1>1. Shape'
  BY Zenon DEF IInv, Shape, Cursor
<1>2. Matches' /\ CurfdsCoversTable'
  BY Zenon DEF IInv, Matches, CurfdsCoversTable
<1>3. Queued'
  BY Zenon DEF IInv, Queued
<1> QED
  BY <1>1, <1>2, <1>3, Zenon DEF IInv

\* The scan stays below an_curfds, also when the step has lowered it.
LEMMA NextSlotCursor ==
  ASSUME IInv, up = "up", up' = up, pc = "scan", an_curfds' \in 1..AN_POLL_MAX, NextSlot
  PROVE  Cursor' /\ pc' # "accept"
<1> USE AnalyzerAssumption
<1>1. CASE i + 1 >= an_curfds'
  BY <1>1 DEF NextSlot, PassOver, Cursor
<1>2. CASE ~(i + 1 >= an_curfds')
  <2>1. i' = i + 1 /\ pc' = pc
    BY <1>2 DEF NextSlot
  <2>2. i' \in Slots
    BY <1>2, <2>1 DEF IInv, Shape, Slots
  <2> QED
    BY <2>1, <2>2 DEF Cursor, Slots
<1> QED
  BY <1>1, <1>2

\* an_sock_poll_del finds the slot the scan is at: no other holds its descriptor.
LEMMA SlotFound ==
  ASSUME IInv, NEW s \in Slots, fd[s] # NoFd
  PROVE  SlotOf(fd[s]) = s
<1>1. \A t \in Slots : fd[t] = fd[s] => t = s
  BY Zenon DEF IInv, Matches
<1>2. \A t \in 1..(s - 1) : fd[t] # fd[s]
  BY <1>1, AnalyzerAssumption DEF Slots
<1> QED
  BY <1>1, <1>2, Zenon DEF SlotOf

\* an_sock_destory takes one connection out of the array, the hash and the
\* range of an_curfds together.
LEMMA Destroys ==
  ASSUME IInv, up = "up", pc = "scan", fd[i] # NoFd, an_sock_destory(i),
         backlog' = backlog, tasks' \subseteq [index : Slots, from : Conns]
  PROVE  /\ an_curfds' \in 1..AN_POLL_MAX
         /\ Cursor' /\ pc' # "accept" => IInv'
<1> USE AnalyzerAssumption
<1>1. PICK s \in Slots : s = i
  BY Zenon DEF IInv, Shape
<1>2. PICK c \in Conns : c = fd[s]
  BY <1>1, Zenon DEF IInv, Shape
<1>3. SlotOf(c) = s
  BY <1>1, <1>2, SlotFound, Zenon
<1>4. /\ conn' = [conn EXCEPT ![c] = "free"]
      /\ sock' = [sock EXCEPT ![s] = NoSock]
      /\ fd' = [fd EXCEPT ![s] = NoFd]
      /\ an_curfds' = IF s = an_curfds - 1 THEN an_curfds - 1 ELSE an_curfds
  BY <1>1, <1>2, <1>3, Zenon DEF an_sock_destory, an_socket_t_del, an_sock_poll_del
<1>5. /\ fd'[s] = NoFd /\ \A t \in Slots : t # s => fd'[t] = fd[t]
      /\ sock'[s] = NoSock /\ \A t \in Slots : t # s => sock'[t] = sock[t]
      /\ conn'[c] = "free" /\ \A d \in Conns : d # c => conn'[d] = conn[d]
  BY <1>4 DEF IInv, Shape
<1>6. an_curfds \in 1..AN_POLL_MAX /\ s < an_curfds /\ s >= 1
  BY <1>1, <1>2 DEF IInv, Shape, CurfdsCoversTable, Slots
<1>7. an_curfds' \in 1..AN_POLL_MAX
  BY <1>4, <1>6 DEF Slots
<1>8. CurfdsCoversTable'
  <2> SUFFICES ASSUME NEW t \in Slots, fd'[t] # NoFd PROVE t < an_curfds'
    BY Zenon DEF CurfdsCoversTable
  <2>1. t # s /\ t < an_curfds
    BY <1>5 DEF IInv, CurfdsCoversTable
  <2> QED
    BY <1>4, <1>6, <2>1 DEF Slots
<1>9. \A t \in Slots : t # s /\ fd[t] # NoFd => fd[t] # c /\ fd[t] \in Conns
  BY <1>2 DEF IInv, Matches, Shape
<1>10. Matches'
  <2>1. (\A t, u \in Slots : fd[t] = fd[u] /\ fd[t] # NoFd => t = u)'
    BY <1>5 DEF IInv, Matches
  <2>2. (\A t \in Slots : fd[t] # NoFd => conn[fd[t]] = "open")'
    BY <1>5, <1>9 DEF IInv, Matches
  <2>3. (\A d \in Conns : conn[d] = "open" => \E t \in Slots : fd[t] = d)'
    <3> SUFFICES ASSUME NEW d \in Conns, conn'[d] = "open" PROVE \E t \in Slots : fd'[t] = d
      BY Zenon
    <3>1. d # c /\ conn[d] = "open"
      BY <1>5
    <3>2. PICK t \in Slots : fd[t] = d
      BY <3>1, Zenon DEF IInv, Matches
    <3>3. fd'[t] = d
      BY <1>2, <1>5, <3>1, <3>2, Zenon
    <3> QED
      BY <3>3, Zenon
  <2>4. (\A t \in Slots : sock[t] # NoSock => fd[t] # NoFd)'
    BY <1>5 DEF IInv, Matches
  <2>5. (~MemoryMayFail => \A t \in Slots : fd[t] # NoFd => sock[t] # NoSock)'
    BY <1>5, Zenon DEF IInv, Matches
  <2> QED
    BY <2>1, <2>2, <2>3, <2>4, <2>5, Zenon DEF Matches
<1>11. ASSUME pc' # "accept" PROVE Queued'
  <2>1. ASSUME NEW j \in 1..Len(backlog) PROVE conn'[backlog[j]] = "backlog"
    <3>1. backlog[j] \in Conns /\ conn[backlog[j]] = "backlog" /\ conn[c] = "open"
      BY <1>2 DEF IInv, Shape, Queued, Matches
    <3> QED
      BY <1>5, <3>1
  <2> QED
    BY <1>11, <2>1, Zenon DEF IInv, Queued
<1>12. ASSUME Cursor' PROVE Shape'
  <2>1. fd' \in [Slots -> Conns \cup {NoFd}] /\ conn' \in [Conns -> {"free", "backlog", "open", "leaked"}]
    BY <1>4 DEF IInv, Shape
  <2>2. DOMAIN sock' = Slots /\ \A t \in Slots : sock'[t] = NoSock \/ DOMAIN sock'[t] = Fields
    BY <1>4, <1>5 DEF IInv, Shape
  <2> QED
    BY <1>7, <1>12, <2>1, <2>2, Zenon DEF Shape, Cursor, IInv
<1> QED
  BY <1>7, <1>8, <1>10, <1>11, <1>12, Zenon DEF IInv

-----------------------------------------------------------------------------
(* The loop. *)

\* poll only looks.
LEMMA poll_IInv ==
  ASSUME IInv, poll
  PROVE  IInv'
<1>1. Cursor' /\ (pc' = "accept" => backlog # <<>>)
  BY AnalyzerAssumption DEF IInv, Shape, poll, Cursor, Slots
<1> QED
  BY <1>1, TableStays, Zenon DEF poll, table, IInv, Shape

\* A new connection gets the first free slot, which an_curfds reaches.
LEMMA accept_IInv ==
  ASSUME IInv, accept
  PROVE  IInv'
<1> USE AnalyzerAssumption
<1>1. PICK s \in Slots : an_sock_poll_add(Head(backlog), s)
  BY Zenon DEF accept
<1>2. up = "up" /\ pc = "accept" /\ backlog' = Tail(backlog) /\ up' = up /\ tasks' = tasks
      /\ backlog # <<>> /\ backlog \in Seq(Conns)
  BY Zenon DEF accept, IInv, Shape, Queued
<1>3. PICK c \in Conns : c = Head(backlog) /\ c = backlog[1] /\ 1 \in 1..Len(backlog)
  BY <1>2
<1>4. /\ fd[s] = NoFd /\ \A t \in 1..(s - 1) : fd[t] # NoFd
      /\ fd' = [fd EXCEPT ![s] = c]
      /\ conn' = [conn EXCEPT ![c] = "open"]
      /\ an_curfds' = IF s = an_curfds THEN an_curfds + 1 ELSE an_curfds
      /\ \/ an_socket_t_create(s) /\ pc' = "scan" /\ i' = i
         \/ MemoryMayFail /\ sock' = sock /\ pc' = "poll" /\ i' = 0
  BY <1>1, <1>3, Zenon DEF an_sock_poll_add, IsFirstFree, PassOver
<1>5. /\ fd'[s] = c /\ \A t \in Slots : t # s => fd'[t] = fd[t]
      /\ conn'[c] = "open" /\ \A d \in Conns : d # c => conn'[d] = conn[d]
      /\ conn[c] = "backlog"
  BY <1>3, <1>4 DEF IInv, Shape, Queued
<1>6. /\ DOMAIN sock' = Slots /\ \A t \in Slots : t # s => sock'[t] = sock[t]
      /\ \/ DOMAIN sock'[s] = Fields /\ sock'[s] # NoSock
         \/ MemoryMayFail /\ sock'[s] = sock[s]
  <2>1. CASE an_socket_t_create(s)
    <3> DEFINE new == [rcv |-> <<>>, short |-> 0, send |-> NoReply]
    <3>1. DOMAIN new = Fields /\ new # NoSock
      BY DEF Fields, NoSock
    <3>2. sock' = [sock EXCEPT ![s] = new]
      BY <2>1, Zenon DEF an_socket_t_create
    <3> HIDE DEF new
    <3> QED
      BY <3>1, <3>2 DEF IInv, Shape
  <2>2. CASE MemoryMayFail /\ sock' = sock
    BY <2>2, Zenon DEF IInv, Shape
  <2> QED
    BY <1>4, <2>1, <2>2, Zenon
<1>7. s <= an_curfds /\ an_curfds \in 1..AN_POLL_MAX
  <2>1. CASE s = 1
    BY <2>1 DEF IInv, Shape
  <2>2. CASE s # 1
    <3>1. s - 1 \in Slots /\ s - 1 \in 1..(s - 1)
      BY <2>2 DEF Slots
    <3>2. s - 1 < an_curfds
      BY <1>4, <3>1 DEF IInv, CurfdsCoversTable
    <3> QED
      BY <3>1, <3>2 DEF IInv, Shape, Slots
  <2> QED
    BY <2>1, <2>2
<1>8. an_curfds' \in 1..AN_POLL_MAX /\ s < an_curfds' /\ an_curfds <= an_curfds'
  BY <1>4, <1>7 DEF Slots
<1>9. CurfdsCoversTable'
  <2> SUFFICES ASSUME NEW t \in Slots, fd'[t] # NoFd PROVE t < an_curfds'
    BY Zenon DEF CurfdsCoversTable
  <2>1. t # s => t < an_curfds
    BY <1>5 DEF IInv, CurfdsCoversTable
  <2> QED
    BY <1>7, <1>8, <2>1 DEF Slots
<1>10. \A t \in Slots : fd[t] # NoFd => fd[t] # c /\ fd[t] \in Conns
  BY <1>5 DEF IInv, Matches, Shape
<1>11. Matches'
  <2>1. (\A t, u \in Slots : fd[t] = fd[u] /\ fd[t] # NoFd => t = u)'
    BY <1>5, <1>10 DEF IInv, Matches
  <2>2. (\A t \in Slots : fd[t] # NoFd => conn[fd[t]] = "open")'
    BY <1>5, <1>10 DEF IInv, Matches
  <2>3. (\A d \in Conns : conn[d] = "open" => \E t \in Slots : fd[t] = d)'
    <3> SUFFICES ASSUME NEW d \in Conns, conn'[d] = "open" PROVE \E t \in Slots : fd'[t] = d
      BY Zenon
    <3>1. CASE d = c
      BY <1>5, <3>1, Zenon
    <3>2. CASE d # c
      <4>1. PICK t \in Slots : fd[t] = d
        BY <1>5, <3>2, Zenon DEF IInv, Matches
      <4>2. fd'[t] = d
        BY <1>4, <1>5, <4>1
      <4> QED
        BY <4>2, Zenon
    <3> QED
      BY <3>1, <3>2, Zenon
  <2>4. (\A t \in Slots : sock[t] # NoSock => fd[t] # NoFd)'
    BY <1>5, <1>6 DEF IInv, Matches
  <2>5. (~MemoryMayFail => \A t \in Slots : fd[t] # NoFd => sock[t] # NoSock)'
    BY <1>5, <1>6, Zenon DEF IInv, Matches
  <2> QED
    BY <2>1, <2>2, <2>3, <2>4, <2>5, Zenon DEF Matches
<1>12. backlog' \in Seq(Conns) /\ Len(backlog') = Len(backlog) - 1
       /\ \A j \in 1..Len(backlog') : backlog'[j] = backlog[j + 1] /\ j + 1 \in 1..Len(backlog) /\ j + 1 # 1
  BY <1>2, <1>3
<1>13. Queued'
  <2>1. ASSUME NEW j \in 1..Len(backlog') PROVE conn'[backlog'[j]] = "backlog"
    <3>1. backlog'[j] # c /\ conn[backlog'[j]] = "backlog"
      BY <1>3, <1>12, SMTT(30) DEF IInv, Queued
    <3>2. backlog'[j] \in Conns
      BY <1>12
    <3> QED
      BY <1>5, <3>1, <3>2, Zenon
  <2>2. ASSUME NEW j \in 1..Len(backlog'), NEW k \in 1..Len(backlog'), j # k
        PROVE  backlog'[j] # backlog'[k]
    <3>1. j + 1 # k + 1
      BY <1>12, <2>2
    <3> QED
      BY <1>12, <3>1 DEF IInv, Queued
  <2>3. pc' # "accept"
    BY <1>4
  <2> QED
    BY <2>1, <2>2, <2>3, Zenon DEF Queued
<1>14. Shape'
  <2>1. Cursor'
    BY <1>2, <1>4 DEF IInv, Shape, Cursor, Slots
  <2>2. fd' \in [Slots -> Conns \cup {NoFd}] /\ conn' \in [Conns -> {"free", "backlog", "open", "leaked"}]
    BY <1>4 DEF IInv, Shape
  <2>3. \A t \in Slots : sock'[t] = NoSock \/ DOMAIN sock'[t] = Fields
    BY <1>6, Zenon DEF IInv, Shape
  <2> QED
    BY <1>2, <1>6, <1>8, <1>12, <2>1, <2>2, <2>3, Zenon DEF Shape, Cursor, IInv
<1> QED
  BY <1>9, <1>11, <1>13, <1>14, Zenon DEF IInv

\* A connection without a slot leaves the backlog and is in no slot.
LEMMA accept_full_IInv ==
  ASSUME IInv, accept_full
  PROVE  IInv'
<1> USE AnalyzerAssumption
<1>1. /\ up = "up" /\ up' = up /\ backlog' = Tail(backlog) /\ pc' = "poll" /\ i' = 0
      /\ UNCHANGED <<fd, an_curfds, sock, tasks>>
      /\ backlog # <<>> /\ backlog \in Seq(Conns)
  BY Zenon DEF accept_full, PassOver, table, IInv, Shape, Queued
<1>2. PICK c \in Conns : c = Head(backlog) /\ c = backlog[1] /\ 1 \in 1..Len(backlog)
  BY <1>1
<1>3. conn' = [conn EXCEPT ![c] = "leaked"]
  BY <1>2, Zenon DEF accept_full
<1>4. /\ conn'[c] = "leaked" /\ \A d \in Conns : d # c => conn'[d] = conn[d]
      /\ conn[c] = "backlog"
  BY <1>2, <1>3 DEF IInv, Shape, Queued
<1>5. Matches'
  <2>1. (\A t \in Slots : fd[t] # NoFd => conn[fd[t]] = "open")'
    BY <1>1, <1>4 DEF IInv, Shape, Matches
  <2>2. (\A d \in Conns : conn[d] = "open" => \E t \in Slots : fd[t] = d)'
    BY <1>1, <1>4 DEF IInv, Matches
  <2> QED
    BY <1>1, <2>1, <2>2, Zenon DEF IInv, Matches
<1>6. backlog' \in Seq(Conns) /\ Len(backlog') = Len(backlog) - 1
       /\ \A j \in 1..Len(backlog') : backlog'[j] = backlog[j + 1] /\ j + 1 \in 1..Len(backlog) /\ j + 1 # 1
  BY <1>1, <1>2
<1>7. Queued'
  <2>1. ASSUME NEW j \in 1..Len(backlog') PROVE conn'[backlog'[j]] = "backlog"
    <3>1. backlog'[j] # c /\ conn[backlog'[j]] = "backlog"
      BY <1>2, <1>6 DEF IInv, Queued
    <3>2. backlog'[j] \in Conns
      BY <1>6
    <3> QED
      BY <1>4, <3>1, <3>2, Zenon
  <2>2. ASSUME NEW j \in 1..Len(backlog'), NEW k \in 1..Len(backlog'), j # k
        PROVE  backlog'[j] # backlog'[k]
    <3>1. j + 1 # k + 1
      BY <1>6, <2>2
    <3> QED
      BY <1>6, <3>1 DEF IInv, Queued
  <2>3. pc' # "accept"
    BY <1>1
  <2> QED
    BY <2>1, <2>2, <2>3, Zenon DEF Queued
<1>8. Shape'
  <2>1. Cursor'
    BY <1>1 DEF Cursor
  <2>2. conn' \in [Conns -> {"free", "backlog", "open", "leaked"}]
    BY <1>3 DEF IInv, Shape
  <2> QED
    BY <1>1, <1>6, <2>1, <2>2, Zenon DEF Shape, Cursor, IInv
<1>9. CurfdsCoversTable'
  BY <1>1, Zenon DEF IInv, CurfdsCoversTable
<1> QED
  BY <1>5, <1>7, <1>8, <1>9, Zenon DEF IInv

\* Without a descriptor from accept the table is as it was.
LEMMA accept_fails_IInv ==
  ASSUME IInv, accept_fails
  PROVE  IInv'
<1>1. Cursor' /\ pc' # "accept"
  BY AnalyzerAssumption DEF IInv, Shape, accept_fails, PassOver, Cursor, Slots
<1> QED
  BY <1>1, TableStays, Zenon DEF accept_fails, table, IInv, Shape

\* A slot without an event is passed over.
LEMMA scan_skip_IInv ==
  ASSUME IInv, scan_skip
  PROVE  IInv'
<1>1. /\ up = "up" /\ pc = "scan" /\ up' = up /\ NextSlot
      /\ UNCHANGED <<fd, an_curfds, sock, conn, backlog, tasks>>
      /\ an_curfds' \in 1..AN_POLL_MAX /\ tasks' \subseteq [index : Slots, from : Conns]
  BY Zenon DEF scan_skip, table, IInv, Shape
<1>2. Cursor' /\ pc' # "accept"
  BY <1>1, NextSlotCursor, Zenon
<1> QED
  BY <1>1, <1>2, TableStays, Zenon

\* POLLERR destroys the connection and ends the process.
LEMMA events_err_IInv ==
  ASSUME IInv, events_err
  PROVE  IInv'
<1>1. /\ up = "up" /\ pc = "scan" /\ fd[i] # NoFd /\ an_sock_destory(i) /\ up' = "exit"
      /\ UNCHANGED <<pc, i, backlog, tasks>> /\ tasks' \subseteq [index : Slots, from : Conns]
  BY Zenon DEF events_err, Scanning, IInv, Shape
<1>2. Cursor' /\ pc' # "accept"
  BY <1>1 DEF IInv, Shape, Cursor
<1> QED
  BY <1>1, <1>2, Destroys, Zenon

\* A step of the scan that closes the connection it is at.
LEMMA Closes ==
  ASSUME IInv, up = "up", up' = up, pc = "scan", fd[i] # NoFd, an_sock_destory(i), NextSlot,
         backlog' = backlog, tasks' \subseteq [index : Slots, from : Conns]
  PROVE  IInv'
<1>1. an_curfds' \in 1..AN_POLL_MAX
  BY Destroys, Zenon
<1>2. Cursor' /\ pc' # "accept"
  BY <1>1, NextSlotCursor, Zenon
<1> QED
  BY <1>2, Destroys, Zenon

\* The connection is closed once its reply is sent, or could not be.
LEMMA an_tcp_send_IInv ==
  ASSUME IInv, an_tcp_send
  PROVE  IInv'
<1>1. /\ up = "up" /\ pc = "scan" /\ fd[i] # NoFd /\ an_sock_destory(i) /\ up' = up /\ NextSlot
      /\ backlog' = backlog /\ tasks' \subseteq [index : Slots, from : Conns]
  BY Zenon DEF an_tcp_send, Scanning, IInv, Shape
<1> QED
  BY <1>1, Closes, Zenon

\* SIGPIPE ends the process where it is.
LEMMA sigpipe_IInv ==
  ASSUME IInv, sigpipe
  PROVE  IInv'
<1>1. /\ UNCHANGED <<pc, i, fd, an_curfds, sock, conn, backlog, tasks>> /\ up' = "dead"
      /\ pc = "scan" /\ tasks' \subseteq [index : Slots, from : Conns]
  BY Zenon DEF sigpipe, Scanning, table, IInv, Shape
<1>2. Cursor' /\ pc' # "accept"
  BY <1>1 DEF IInv, Shape, Cursor
<1> QED
  BY <1>1, <1>2, TableStays, Zenon

\* A connection from which nothing can be received is closed.
LEMMA recv_fails_IInv ==
  ASSUME IInv, recv_fails
  PROVE  IInv'
<1>1. /\ up = "up" /\ pc = "scan" /\ fd[i] # NoFd /\ an_sock_destory(i) /\ up' = up /\ NextSlot
      /\ backlog' = backlog /\ tasks' \subseteq [index : Slots, from : Conns]
  BY Zenon DEF recv_fails, Readable, Scanning, IInv, Shape
<1> QED
  BY <1>1, Closes, Zenon

\* Filling in fields of an an_socket_t leaves it where it is.
LEMMA FillsSock ==
  ASSUME IInv, NEW s \in Slots, sock[s] # NoSock, DOMAIN sock' = Slots,
         \A t \in Slots : t # s => sock'[t] = sock[t], DOMAIN sock'[s] = DOMAIN sock[s],
         UNCHANGED <<fd, an_curfds, conn, backlog>>,
         Cursor', pc' = "accept" => backlog # <<>>, tasks' \subseteq [index : Slots, from : Conns]
  PROVE  IInv'
<1>1. DOMAIN sock'[s] = Fields
  BY Zenon DEF IInv, Shape
<1>2. sock'[s] # NoSock
  BY <1>1 DEF NoSock, Fields
<1>3. \A t \in Slots : sock'[t] = NoSock <=> sock[t] = NoSock
  BY <1>2, Zenon
<1>4. Shape'
  BY <1>1, Zenon DEF IInv, Shape, Cursor
<1>5. Matches' /\ CurfdsCoversTable'
  BY <1>3, Zenon DEF IInv, Matches, CurfdsCoversTable
<1>6. Queued'
  BY Zenon DEF IInv, Queued
<1> QED
  BY <1>4, <1>5, <1>6, Zenon DEF IInv

\* What is received changes the an_socket_t of the slot, or closes the
\* connection, whatever the packets in it are.
LEMMA an_tcp_recv_IInv ==
  ASSUME IInv, an_tcp_recv
  PROVE  IInv'
<1> DEFINE typed == tasks' \subseteq [index : Slots, from : Conns]
<1>1. /\ up = "up" /\ pc = "scan" /\ fd[i] # NoFd /\ fd[i] \in Conns /\ i \in Slots
      /\ sock[i] # NoSock /\ backlog' = backlog
  BY ZenonT(30) DEF an_tcp_recv, Readable, Scanning, IInv, Shape
<1>2. PICK o : \/ /\ up' = "overrun"
                  /\ UNCHANGED <<pc, i, table, revents, tasks, conn, handed>>
               \/ /\ al_allocate_task(fd[i], o.handed)
                  /\ \/ an_sock_destory(i)
                     \/ /\ sock' = [sock EXCEPT ![i].rcv = o.rest,
                                      ![i].short = IF o.end = "short" THEN 1 ELSE 0]
                        /\ UNCHANGED <<fd, write, an_curfds, conn>>
                  /\ NextSlot
                  /\ up' = up
  BY DEF an_tcp_recv
<1>3. CASE up' = "overrun" /\ UNCHANGED <<pc, i, table, revents, tasks, conn, handed>>
  <2>1. Cursor' /\ pc' # "accept"
    BY <1>1, <1>3 DEF IInv, Shape, Cursor
  <2> QED
    BY <1>1, <1>3, <2>1, TableStays, Zenon DEF table, IInv, Shape
<1>4. CASE /\ al_allocate_task(fd[i], o.handed)
           /\ \/ an_sock_destory(i)
              \/ /\ sock' = [sock EXCEPT ![i].rcv = o.rest,
                               ![i].short = IF o.end = "short" THEN 1 ELSE 0]
                 /\ UNCHANGED <<fd, write, an_curfds, conn>>
           /\ NextSlot
           /\ up' = up
  <2>1. typed
    BY <1>1, <1>4 DEF al_allocate_task, IInv, Shape
  <2>2. CASE an_sock_destory(i)
    BY <1>1, <1>4, <2>1, <2>2, Closes, Zenon
  <2>3. CASE /\ sock' = [sock EXCEPT ![i].rcv = o.rest,
                                     ![i].short = IF o.end = "short" THEN 1 ELSE 0]
             /\ UNCHANGED <<fd, write, an_curfds, conn>>
    <3>1. an_curfds' \in 1..AN_POLL_MAX
      BY <2>3, Zenon DEF IInv, Shape
    <3>2. Cursor' /\ pc' # "accept"
      BY <1>1, <1>4, <3>1, NextSlotCursor, Zenon
    <3>3. /\ DOMAIN sock' = Slots /\ DOMAIN sock'[i] = DOMAIN sock[i]
          /\ \A t \in Slots : t # i => sock'[t] = sock[t]
      BY <1>1, <2>3 DEF IInv, Shape
    <3> HIDE DEF typed
    <3>4. PICK s \in Slots : s = i
      BY <1>1, Zenon
    <3>5. sock[s] # NoSock /\ DOMAIN sock'[s] = DOMAIN sock[s]
          /\ \A t \in Slots : t # s => sock'[t] = sock[t]
      BY <1>1, <3>3, <3>4, Zenon
    <3> QED
      BY <1>1, <2>1, <2>3, <3>2, <3>3, <3>5, FillsSock, Zenon DEF typed
  <2> QED
    BY <1>4, <2>2, <2>3, Zenon
<1> QED
  BY <1>2, <1>3, <1>4, Zenon

-----------------------------------------------------------------------------
(* The workers and the clients. *)

\* A worker fills in whatever the slot of its task holds by then.
LEMMA worker_reply_IInv ==
  ASSUME IInv, NEW t \in tasks, worker_reply(t)
  PROVE  IInv'
<1>1. /\ UNCHANGED <<up, pc, i, fd, an_curfds, conn, backlog>>
      /\ t.index \in Slots /\ tasks' \subseteq [index : Slots, from : Conns]
      /\ Cursor' /\ (pc' = "accept" => backlog # <<>>)
  BY DEF worker_reply, IInv, Shape, Queued, Cursor
<1>2. CASE sock[t.index] = NoSock
  BY <1>1, <1>2, TableStays, Zenon DEF worker_reply
<1>3. CASE sock[t.index] # NoSock
  <2>1. PICK s \in Slots : s = t.index
    BY <1>1, Zenon
  <2>2. sock' = [sock EXCEPT ![s].send = t.from]
    BY <1>3, <2>1, Zenon DEF worker_reply
  <2>3. /\ DOMAIN sock' = Slots /\ DOMAIN sock'[s] = DOMAIN sock[s]
        /\ \A u \in Slots : u # s => sock'[u] = sock[u]
    BY <2>2 DEF IInv, Shape
  <2> QED
    BY <1>1, <1>3, <2>1, <2>3, FillsSock, Zenon
<1> QED
  BY <1>2, <1>3, Zenon

\* A new call joins the backlog; its descriptor is in no slot and not waiting.
LEMMA toserver_connect_IInv ==
  ASSUME IInv, NEW c \in Conns, toserver_connect(c)
  PROVE  IInv'
<1> USE AnalyzerAssumption
<1>1. /\ UNCHANGED <<up, pc, i, fd, an_curfds, sock, tasks>>
      /\ conn[c] = "free" /\ conn' = [conn EXCEPT ![c] = "backlog"]
      /\ backlog' = Append(backlog, c) /\ backlog \in Seq(Conns)
  BY Zenon DEF toserver_connect, Unused, table, IInv, Shape
<1>2. conn'[c] = "backlog" /\ \A d \in Conns : d # c => conn'[d] = conn[d]
  BY <1>1 DEF IInv, Shape
<1>3. Matches'
  <2>1. (\A t \in Slots : fd[t] # NoFd => conn[fd[t]] = "open")'
    BY <1>1, <1>2 DEF IInv, Shape, Matches
  <2>2. (\A d \in Conns : conn[d] = "open" => \E t \in Slots : fd[t] = d)'
    BY <1>1, <1>2 DEF IInv, Matches
  <2> QED
    BY <1>1, <2>1, <2>2, ZenonT(30) DEF IInv, Matches
<1>4. /\ backlog' \in Seq(Conns) /\ Len(backlog') = Len(backlog) + 1 /\ Len(backlog) \in Nat
      /\ backlog'[Len(backlog) + 1] = c
      /\ \A j \in 1..Len(backlog) : backlog'[j] = backlog[j] /\ backlog[j] \in Conns
  BY <1>1
<1>5. \A j \in 1..Len(backlog') : j = Len(backlog) + 1 \/ j \in 1..Len(backlog)
  BY <1>4
<1>6. \A j \in 1..Len(backlog) : backlog[j] # c
  BY <1>1 DEF IInv, Queued
<1>7. Queued'
  <2>1. ASSUME NEW j \in 1..Len(backlog') PROVE conn'[backlog'[j]] = "backlog"
    <3>1. CASE j = Len(backlog) + 1
      BY <1>2, <1>4, <3>1
    <3>2. CASE j \in 1..Len(backlog)
      <4>1. conn[backlog[j]] = "backlog"
        BY <3>2, Zenon DEF IInv, Queued
      <4>2. backlog'[j] = backlog[j] /\ backlog[j] \in Conns /\ backlog[j] # c
        BY <1>4, <1>6, <3>2, Zenon
      <4> QED
        BY <1>2, <4>1, <4>2, Zenon
    <3> QED
      BY <1>5, <3>1, <3>2, Zenon
  <2>2. \A j, k \in 1..Len(backlog') : j # k => backlog'[j] # backlog'[k]
    BY <1>4, <1>5, <1>6, Zenon DEF IInv, Queued
  <2>3. backlog' # <<>>
    BY <1>4
  <2> QED
    BY <2>1, <2>2, <2>3, Zenon DEF Queued
<1>8. Shape'
  <2>1. conn' \in [Conns -> {"free", "backlog", "open", "leaked"}]
    BY <1>1 DEF IInv, Shape
  <2> QED
    BY <1>1, <1>4, <2>1, Zenon DEF Shape, IInv
<1>9. CurfdsCoversTable'
  BY <1>1, Zenon DEF IInv, CurfdsCoversTable
<1> QED
  BY <1>3, <1>7, <1>8, <1>9, Zenon DEF IInv

\* The other steps of a call do not reach the analyzer's table.
LEMMA toserver_IInv ==
  ASSUME IInv, NEW c \in Conns,
         toserver_send(c) \/ toserver_timeout(c) \/ toserver_return(c)
  PROVE  IInv'
<1>1. UNCHANGED <<up, pc, i, fd, an_curfds, sock, conn, backlog, tasks>>
  BY Zenon DEF toserver_send, toserver_timeout, toserver_return, table
<1>2. Cursor' /\ (pc' = "accept" => backlog # <<>>)
  BY <1>1, Zenon DEF IInv, Shape, Queued, Cursor
<1> QED
  BY <1>1, <1>2, TableStays, Zenon DEF IInv, Shape

-----------------------------------------------------------------------------
\* The table is empty at first.
LEMMA InitIInv == Init => IInv
<1> USE AnalyzerAssumption
<1> SUFFICES ASSUME Init PROVE IInv
  BY Zenon
<1>1. /\ \A s \in Slots : fd[s] = NoFd /\ sock[s] = NoSock
      /\ \A c \in Conns : conn[c] = "free"
      /\ backlog = <<>> /\ pc = "poll" /\ i = 0 /\ up = "up" /\ an_curfds = 1 /\ tasks = {}
  BY DEF Init, an_poll_init
<1>2. Shape
  BY <1>1 DEF Init, an_poll_init, Shape
<1>3. Matches
  BY <1>1 DEF Matches
<1>4. Queued /\ CurfdsCoversTable
  BY <1>1 DEF Queued, CurfdsCoversTable
<1> QED
  BY <1>2, <1>3, <1>4, Zenon DEF IInv

\* Every step preserves the invariant.
LEMMA NextIInv == IInv /\ [Next]_vars => IInv'
<1> SUFFICES ASSUME IInv, [Next]_vars PROVE IInv'
  BY Zenon
<1>1. CASE UNCHANGED vars
  <2>1. UNCHANGED <<up, pc, i, fd, an_curfds, sock, conn, backlog, tasks>>
    BY <1>1, Zenon DEF vars, table
  <2>2. Cursor' /\ (pc' = "accept" => backlog # <<>>)
    BY <2>1, Zenon DEF IInv, Shape, Queued, Cursor
  <2> QED
    BY <2>1, <2>2, TableStays, Zenon DEF IInv, Shape
<1>2. CASE Loop
  BY <1>2, poll_IInv, accept_IInv, accept_full_IInv, accept_fails_IInv, scan_skip_IInv,
     events_err_IInv, an_tcp_send_IInv, sigpipe_IInv, recv_fails_IInv, an_tcp_recv_IInv, Zenon DEF Loop
<1>3. ASSUME NEW t \in tasks, worker_reply(t) PROVE IInv'
  BY <1>3, worker_reply_IInv, Zenon
<1>4. ASSUME NEW c \in Conns, toserver_connect(c) PROVE IInv'
  BY <1>4, toserver_connect_IInv, Zenon
<1>5. ASSUME NEW c \in Conns, toserver_send(c) \/ toserver_timeout(c) \/ toserver_return(c)
      PROVE  IInv'
  BY <1>5, toserver_IInv, Zenon
<1> QED
  BY <1>1, <1>2, <1>3, <1>4, <1>5, Zenon DEF Next

\* The inductive invariant holds throughout.
THEOREM Invariance == Spec => []IInv
BY InitIInv, NextIInv, PTL DEF Spec

\* an_sock_poll_add, an_sock_poll_del and an_sock_destory keep the array and the
\* hash in step, although one is searched by descriptor and the other by index.
THEOREM TableMatchesHashHolds == Spec => []TableMatchesHash
<1>1. IInv => TableMatchesHash
  <2> SUFFICES ASSUME IInv PROVE TableMatchesHash
    BY Zenon
  <2>1. {c \in Conns : conn[c] = "open"} \subseteq {fd[s] : s \in Slots} \ {NoFd}
    <3> SUFFICES ASSUME NEW c \in Conns, conn[c] = "open"
                 PROVE  c # NoFd /\ \E s \in Slots : c = fd[s]
      BY Zenon
    <3>1. PICK s \in Slots : fd[s] = c
      BY Zenon DEF IInv, Matches
    <3> QED
      BY <3>1, AnalyzerAssumption, Zenon
  <2>2. {fd[s] : s \in Slots} \ {NoFd} \subseteq {c \in Conns : conn[c] = "open"}
    BY DEF IInv, Matches, Shape
  <2> QED
    BY <2>1, <2>2, Zenon DEF IInv, Matches, TableMatchesHash
<1> QED
  BY <1>1, Invariance, PTL

\* No connection of the table lies beyond an_curfds, where poll() and the scan
\* would not see it.
THEOREM CurfdsCoversTableHolds == Spec => []CurfdsCoversTable
<1>1. IInv => CurfdsCoversTable
  BY Zenon DEF IInv
<1> QED
  BY <1>1, Invariance, PTL

-----------------------------------------------------------------------------
(* Sequences. *)

\* The elements of a sequence.
LEMMA SeqElement ==
  ASSUME NEW S, NEW s \in Seq(S), NEW n \in 1..Len(s)
  PROVE  s[n] \in S
OBVIOUS

\* A sequence as a function.
LEMMA SeqLen ==
  ASSUME NEW S, NEW s \in Seq(S)
  PROVE  Len(s) \in Nat /\ s \in [1..Len(s) -> S] /\ DOMAIN s = 1..Len(s)
OBVIOUS

\* Sequences with the same elements are equal.
LEMMA SeqSame ==
  ASSUME NEW S, NEW s \in Seq(S), NEW t \in Seq(S),
         Len(s) = Len(t), \A j \in 1..Len(s) : s[j] = t[j]
  PROVE  s = t
OBVIOUS

\* The empty sequence, and the others.
LEMMA SeqEmpty ==
  ASSUME NEW S
  PROVE  /\ << >> \in Seq(S) /\ Len(<< >>) = 0
         /\ \A s \in Seq(S) : s # << >> => Len(s) \in Nat \ {0}
OBVIOUS

\* Two sequences, one behind the other.
LEMMA SeqConcat ==
  ASSUME NEW S, NEW s \in Seq(S), NEW t \in Seq(S)
  PROVE  /\ s \o t \in Seq(S)
         /\ Len(s \o t) = Len(s) + Len(t)
         /\ \A j \in 1..(Len(s) + Len(t)) :
               (s \o t)[j] = IF j <= Len(s) THEN s[j] ELSE t[j - Len(s)]
OBVIOUS

\* A part of a sequence.
LEMMA SeqPart ==
  ASSUME NEW S, NEW s, NEW m \in Int, NEW n \in Int, \A j \in m..n : s[j] \in S
  PROVE  /\ SubSeq(s, m, n) \in Seq(S)
         /\ Len(SubSeq(s, m, n)) = IF m <= n THEN n - m + 1 ELSE 0
         /\ \A j \in 1..(n - m + 1) : SubSeq(s, m, n)[j] = s[m + j - 1]
OBVIOUS

\* A part that ends before it begins.
LEMMA SeqNoPart ==
  ASSUME NEW s, NEW m \in Int, NEW n \in Int, n < m
  PROVE  SubSeq(s, m, n) = << >>
OBVIOUS

\* The first element and the others.
LEMMA SeqHeadTail ==
  ASSUME NEW S, NEW s \in Seq(S), s # << >>
  PROVE  /\ Head(s) \in S
         /\ Tail(s) \in Seq(S)
         /\ Len(Tail(s)) = Len(s) - 1
         /\ \A j \in 1..Len(Tail(s)) : Tail(s)[j] = s[j + 1]
OBVIOUS

\* One element more.
LEMMA SeqAppend ==
  ASSUME NEW S, NEW s \in Seq(S), NEW e \in S
  PROVE  /\ Append(s, e) \in Seq(S)
         /\ Len(Append(s, e)) = Len(s) + 1
         /\ \A j \in 1..Len(s) : Append(s, e)[j] = s[j]
         /\ Append(s, e)[Len(s) + 1] = e
OBVIOUS

\* A function on 1..n is a sequence.
LEMMA SeqOfFunction ==
  ASSUME NEW S, NEW n \in Nat, NEW f \in [1..n -> S]
  PROVE  f \in Seq(S) /\ Len(f) = n
OBVIOUS

\* What one recv takes of m waiting bytes: at least one.
LEMMA Shorter ==
  ASSUME NEW m \in Nat \ {0}, NEW b \in Nat \ {0}, NEW n, n = IF m < b THEN m ELSE b
  PROVE  n \in 1..m /\ (n = m \/ n = b)
OBVIOUS

\* All of a sequence.
LEMMA SeqAll ==
  ASSUME NEW S, NEW s \in Seq(S)
  PROVE  SubSeq(s, 1, Len(s)) = s
<1>1. \A j \in 1..Len(s) : s[j] \in S
  BY SeqElement
<1>2. /\ SubSeq(s, 1, Len(s)) \in Seq(S) /\ Len(SubSeq(s, 1, Len(s))) = Len(s)
      /\ \A j \in 1..Len(s) : SubSeq(s, 1, Len(s))[j] = s[j]
  BY <1>1, SeqPart
<1> QED
  BY <1>2, SeqSame

\* Two parts, one behind the other.
LEMMA SeqParts ==
  ASSUME NEW S, NEW s \in Seq(S), NEW m \in 1..(Len(s) + 1), NEW k \in (m - 1)..Len(s),
         NEW n \in k..Len(s)
  PROVE  SubSeq(s, m, k) \o SubSeq(s, k + 1, n) = SubSeq(s, m, n)
<1> DEFINE u == SubSeq(s, m, k)
           v == SubSeq(s, k + 1, n)
           w == SubSeq(s, m, n)
<1>1. \A j \in 1..Len(s) : s[j] \in S
  BY SeqElement
<1>2. Len(s) \in Nat
  BY SeqLen
<1>3. /\ u \in Seq(S) /\ Len(u) = k - m + 1 /\ \A j \in 1..(k - m + 1) : u[j] = s[m + j - 1]
  BY <1>1, <1>2, SeqPart
<1>4. /\ v \in Seq(S) /\ Len(v) = n - k /\ \A j \in 1..(n - k) : v[j] = s[k + j]
  BY <1>1, <1>2, SeqPart
<1>5. /\ w \in Seq(S) /\ Len(w) = n - m + 1 /\ \A j \in 1..(n - m + 1) : w[j] = s[m + j - 1]
  BY <1>1, <1>2, SeqPart
<1> HIDE DEF u, v, w
<1>6. /\ u \o v \in Seq(S) /\ Len(u \o v) = n - m + 1
      /\ \A j \in 1..(n - m + 1) : (u \o v)[j] = IF j <= k - m + 1 THEN u[j] ELSE v[j - (k - m + 1)]
  <2>1. /\ u \o v \in Seq(S) /\ Len(u \o v) = Len(u) + Len(v)
        /\ \A j \in 1..(Len(u) + Len(v)) : (u \o v)[j] = IF j <= Len(u) THEN u[j] ELSE v[j - Len(u)]
    BY <1>3, <1>4, SeqConcat, Zenon
  <2>2. Len(u) + Len(v) = n - m + 1
    BY <1>2, <1>3, <1>4
  <2> QED
    BY <1>3, <2>1, <2>2, Zenon
<1>7. ASSUME NEW j \in 1..(n - m + 1) PROVE (u \o v)[j] = w[j]
  <2>1. CASE j <= k - m + 1
    BY <1>2, <1>3, <1>5, <1>6, <1>7, <2>1
  <2>2. CASE ~(j <= k - m + 1)
    <3>1. j - (k - m + 1) \in 1..(n - k) /\ k + (j - (k - m + 1)) = m + j - 1
      BY <1>2, <1>7, <2>2
    <3>2. v[j - (k - m + 1)] = s[m + j - 1]
      BY <1>4, <3>1
    <3> QED
      BY <1>5, <1>6, <1>7, <2>2, <3>2
  <2> QED
    BY <2>1, <2>2
<1>8. u \o v = w
  BY <1>5, <1>6, <1>7, SeqSame
<1> QED
  BY <1>8 DEF u, v, w

\* A part of a part.
LEMMA PartOfPart ==
  ASSUME NEW S, NEW s \in Seq(S), NEW a \in Nat \ {0}, NEW b \in Nat, b <= Len(s),
         NEW m \in Nat \ {0}, NEW n \in Nat, a + n - 1 <= b
  PROVE  SubSeq(SubSeq(s, a, b), m, n) = SubSeq(s, a + m - 1, a + n - 1)
<1> DEFINE t == SubSeq(s, a, b)
           u == SubSeq(t, m, n)
           v == SubSeq(s, a + m - 1, a + n - 1)
<1>1. \A k \in a..b : s[k] \in S
  BY SeqElement, SeqLen
<1>2. /\ t \in Seq(S) /\ Len(t) = IF a <= b THEN b - a + 1 ELSE 0
      /\ \A k \in 1..(b - a + 1) : t[k] = s[a + k - 1]
  BY <1>1, SeqPart
<1>3. \A k \in m..n : t[k] = s[a + k - 1] /\ s[a + k - 1] \in S
  BY <1>1, <1>2
<1> HIDE DEF t
<1>4. /\ u \in Seq(S) /\ Len(u) = IF m <= n THEN n - m + 1 ELSE 0
      /\ \A k \in 1..(n - m + 1) : u[k] = t[m + k - 1]
  BY <1>3, SeqPart
<1>5. \A k \in (a + m - 1)..(a + n - 1) : s[k] \in S
  BY <1>1
<1>6. /\ v \in Seq(S) /\ Len(v) = IF a + m - 1 <= a + n - 1 THEN (a + n - 1) - (a + m - 1) + 1 ELSE 0
      /\ \A k \in 1..((a + n - 1) - (a + m - 1) + 1) : v[k] = s[(a + m - 1) + k - 1]
  BY <1>5, SeqPart
<1> HIDE DEF u, v
<1>7. Len(u) = Len(v)
  BY <1>4, <1>6
<1>8. ASSUME NEW k \in 1..Len(u) PROVE u[k] = v[k]
  <2>1. m <= n /\ k \in 1..(n - m + 1) /\ k \in 1..((a + n - 1) - (a + m - 1) + 1)
    BY <1>4, <1>8
  <2>2. m + k - 1 \in m..n
    BY <2>1
  <2>3. u[k] = s[a + (m + k - 1) - 1]
    BY <1>3, <1>4, <2>1, <2>2
  <2>4. v[k] = s[(a + m - 1) + k - 1] /\ (a + m - 1) + k - 1 = a + (m + k - 1) - 1
    BY <1>6, <2>1
  <2> QED
    BY <2>3, <2>4
<1>9. u = v
  BY <1>4, <1>6, <1>7, <1>8, SeqSame
<1> QED
  BY <1>9 DEF u, v, t

\* What follows of a sequence from some place on.
Suffixes(s) == {SubSeq(s, m, Len(s)) : m \in 1..(Len(s) + 1)}

\* The length and the type of a suffix.
LEMMA SuffixTyped ==
  ASSUME NEW S, NEW s \in Seq(S), NEW m \in 1..(Len(s) + 1)
  PROVE  SubSeq(s, m, Len(s)) \in Seq(S) /\ Len(SubSeq(s, m, Len(s))) = Len(s) - m + 1
<1>1. \A k \in m..Len(s) : s[k] \in S
  BY SeqElement, SeqLen
<1>2. Len(s) \in Nat
  BY SeqLen
<1> QED
  BY <1>1, <1>2, SeqPart

\* A suffix of a suffix is one.
LEMMA SuffixesTyped ==
  ASSUME NEW S, NEW s \in Seq(S), NEW r \in Suffixes(s)
  PROVE  r \in Seq(S)
<1>1. PICK m \in 1..(Len(s) + 1) : r = SubSeq(s, m, Len(s))
  BY Zenon DEF Suffixes
<1> QED
  BY <1>1, SuffixTyped

-----------------------------------------------------------------------------
(* What is used of an_split_rcv_buf_to_json. *)

\* The result r for the buffer buf: its end is left, and the texts handed over
\* are sequences of bytes.
Shaped(buf, r) ==
    /\ r.rest \in Suffixes(buf) /\ r.handed \in Seq(Seq(Byte))
    /\ r.end \in {"wait", "fail", "short", "crash"}

\* The result r for the first n bytes of p: they stay in the buffer until the
\* packet is complete; then its text is handed on.
Delivers(p, n, r) ==
    /\ r.end = "wait"
    /\ n < Len(p) => r.rest = SubSeq(p, 1, n) /\ r.handed = <<>>
    /\ n = Len(p) => r.rest = <<>> /\ r.handed = <<Tail(p)>>

\* What an_split_rcv_buf_to_json does with any buffer, and with the first
\* bytes of a framed packet when the byte behind them is neither a line feed
\* nor a closing brace.  Analyzer_split proves it by induction over the loops
\* of the function; here the steps of the server are proved from it.
Splits ==
    \A behind \in Byte :
        /\ \A buf \in Seq(Byte) : Shaped(buf, an_split_rcv_buf_to_json(buf, behind))
        /\ behind # "nl" /\ Brace(behind) \in 0..1 =>
              \A p \in Seq(Byte) : Framed(p) =>
                  \A n \in 2..Len(p) :
                      Delivers(p, n, an_split_rcv_buf_to_json(SubSeq(p, 1, n), behind))

-----------------------------------------------------------------------------
(* The bytes of one packet, between its client and the receive buffer. *)

\* Of packet p, the receive buffer holds rcv, x has been sent and not
\* received, and l is still to be sent.
Flows(p, rcv, x, l) ==
    \E r, a, b \in 0..Len(p) :
        /\ r <= a /\ a <= b
        /\ rcv = SubSeq(p, r + 1, a)
        /\ x = SubSeq(p, a + 1, b)
        /\ l = SubSeq(p, b + 1, Len(p))

\* Nothing of p has been handed over, and no first segment of one byte was
\* sent or received.
Awaited(p, rcv, x, l) ==
    \E a, b \in 0..Len(p) :
        /\ a # 1 /\ b # 1 /\ a < Len(p) /\ a <= b
        /\ rcv = SubSeq(p, 1, a)
        /\ x = SubSeq(p, a + 1, b)
        /\ l = SubSeq(p, b + 1, Len(p))

\* The type and the length of a part.
LEMMA PartTyped ==
  ASSUME NEW S, NEW p \in Seq(S), NEW a \in 0..Len(p), NEW b \in 0..Len(p), a <= b
  PROVE  SubSeq(p, a + 1, b) \in Seq(S) /\ Len(SubSeq(p, a + 1, b)) = b - a
<1>1. Len(p) \in Nat
  BY SeqLen
<1>2. \A k \in (a + 1)..b : p[k] \in S
  BY <1>1, SeqElement
<1> QED
  BY <1>1, <1>2, SeqPart

\* Adjacent parts, and the two halves of a part.
LEMMA Adjacent ==
  ASSUME NEW S, NEW p \in Seq(S), NEW a \in 0..Len(p), NEW b \in 0..Len(p), NEW c \in 0..Len(p),
         a <= b, b <= c
  PROVE  /\ SubSeq(p, a + 1, b) \o SubSeq(p, b + 1, c) = SubSeq(p, a + 1, c)
         /\ SubSeq(SubSeq(p, a + 1, c), 1, b - a) = SubSeq(p, a + 1, b)
         /\ SubSeq(SubSeq(p, a + 1, c), (b - a) + 1, c - a) = SubSeq(p, b + 1, c)
<1>1. Len(p) \in Nat
  BY SeqLen
<1>2. a + 1 \in 1..(Len(p) + 1) /\ b \in ((a + 1) - 1)..Len(p) /\ c \in b..Len(p)
  BY <1>1
<1>3. SubSeq(p, a + 1, b) \o SubSeq(p, b + 1, c) = SubSeq(p, a + 1, c)
  BY <1>2, SeqParts
<1>4. SubSeq(SubSeq(p, a + 1, c), 1, b - a) = SubSeq(p, (a + 1) + 1 - 1, (a + 1) + (b - a) - 1)
  <2>1. a + 1 \in Nat \ {0} /\ c \in Nat /\ c <= Len(p) /\ 1 \in Nat \ {0} /\ b - a \in Nat
        /\ (a + 1) + (b - a) - 1 <= c
    BY <1>1
  <2> QED
    BY <2>1, PartOfPart
<1>5. SubSeq(SubSeq(p, a + 1, c), (b - a) + 1, c - a)
        = SubSeq(p, (a + 1) + ((b - a) + 1) - 1, (a + 1) + (c - a) - 1)
  <2>1. a + 1 \in Nat \ {0} /\ c \in Nat /\ c <= Len(p) /\ (b - a) + 1 \in Nat \ {0} /\ c - a \in Nat
        /\ (a + 1) + (c - a) - 1 <= c
    BY <1>1
  <2> QED
    BY <2>1, PartOfPart
<1>6. /\ (a + 1) + 1 - 1 = a + 1 /\ (a + 1) + (b - a) - 1 = b
      /\ (a + 1) + ((b - a) + 1) - 1 = b + 1 /\ (a + 1) + (c - a) - 1 = c
  BY <1>1
<1> QED
  BY <1>3, <1>4, <1>5, <1>6, Zenon

\* A segment of n bytes is sent.
LEMMA SendsPart ==
  ASSUME NEW S, NEW p \in Seq(S), NEW a \in 0..Len(p), NEW b \in 0..Len(p), a <= b,
         NEW n \in 1..Len(SubSeq(p, b + 1, Len(p)))
  PROVE  /\ b + n \in 0..Len(p) /\ a <= b + n
         /\ SubSeq(p, a + 1, b) \o SubSeq(SubSeq(p, b + 1, Len(p)), 1, n) = SubSeq(p, a + 1, b + n)
         /\ SubSeq(SubSeq(p, b + 1, Len(p)), n + 1, Len(SubSeq(p, b + 1, Len(p))))
              = SubSeq(p, (b + n) + 1, Len(p))
<1>1. Len(p) \in Nat /\ Len(p) \in 0..Len(p) /\ b <= Len(p)
  BY SeqLen
<1>2. Len(SubSeq(p, b + 1, Len(p))) = Len(p) - b
  BY <1>1, PartTyped
<1>3. PICK e \in 0..Len(p) : e = b + n /\ b <= e /\ e <= Len(p) /\ a <= e
  BY <1>1, <1>2
<1>4. /\ SubSeq(SubSeq(p, b + 1, Len(p)), 1, e - b) = SubSeq(p, b + 1, e)
      /\ SubSeq(SubSeq(p, b + 1, Len(p)), (e - b) + 1, Len(p) - b) = SubSeq(p, e + 1, Len(p))
  BY <1>1, <1>3, Adjacent
<1>5. SubSeq(p, a + 1, b) \o SubSeq(p, b + 1, e) = SubSeq(p, a + 1, e)
  BY <1>3, Adjacent
<1>6. e - b = n
  BY <1>1, <1>2, <1>3
<1> QED
  BY <1>2, <1>3, <1>4, <1>5, <1>6, Zenon

\* The client sends n bytes.
LEMMA FlowsSend ==
  ASSUME NEW S, NEW p \in Seq(S), NEW rcv, NEW x, NEW l, Flows(p, rcv, x, l), NEW n \in 1..Len(l)
  PROVE  Flows(p, rcv, x \o SubSeq(l, 1, n), SubSeq(l, n + 1, Len(l)))
<1>1. PICK r \in 0..Len(p), a \in 0..Len(p), b \in 0..Len(p) :
        /\ r <= a /\ a <= b
        /\ rcv = SubSeq(p, r + 1, a)
        /\ x = SubSeq(p, a + 1, b)
        /\ l = SubSeq(p, b + 1, Len(p))
  BY Zenon DEF Flows
<1>2. /\ b + n \in 0..Len(p) /\ a <= b + n
      /\ x \o SubSeq(l, 1, n) = SubSeq(p, a + 1, b + n)
      /\ SubSeq(l, n + 1, Len(l)) = SubSeq(p, (b + n) + 1, Len(p))
  <2>1. a <= b /\ n \in 1..Len(SubSeq(p, b + 1, Len(p)))
    BY <1>1, Zenon
  <2>2. /\ b + n \in 0..Len(p) /\ a <= b + n
        /\ SubSeq(p, a + 1, b) \o SubSeq(SubSeq(p, b + 1, Len(p)), 1, n) = SubSeq(p, a + 1, b + n)
        /\ SubSeq(SubSeq(p, b + 1, Len(p)), n + 1, Len(SubSeq(p, b + 1, Len(p))))
              = SubSeq(p, (b + n) + 1, Len(p))
    BY <2>1, SendsPart, Zenon
  <2> QED
    BY <1>1, <2>2, Zenon
<1> QED
  BY <1>1, <1>2, Zenon DEF Flows

\* The parts of a packet.
Cuts(p) == {SubSeq(p, m, n) : m, n \in 1..Len(p)}

\* The server receives n bytes: the receive buffer then holds a part of p, and
\* still does when the splitter has taken bytes from its front.
LEMMA FlowsRecv ==
  ASSUME NEW S, NEW p \in Seq(S), NEW rcv, NEW x, NEW l, Flows(p, rcv, x, l), NEW n \in 1..Len(x)
  PROVE  /\ rcv \o SubSeq(x, 1, n) \in Cuts(p) /\ rcv \o SubSeq(x, 1, n) \in Seq(S)
         /\ \A q \in Suffixes(rcv \o SubSeq(x, 1, n)) : Flows(p, q, SubSeq(x, n + 1, Len(x)), l)
<1>0. PICK buf : buf = rcv \o SubSeq(x, 1, n)
  BY Zenon
<1>1. PICK r \in 0..Len(p), a \in 0..Len(p), b \in 0..Len(p) :
        /\ r <= a /\ a <= b
        /\ rcv = SubSeq(p, r + 1, a)
        /\ x = SubSeq(p, a + 1, b)
        /\ l = SubSeq(p, b + 1, Len(p))
  BY Zenon DEF Flows
<1>2. Len(p) \in Nat /\ Len(x) = b - a
  BY <1>1, PartTyped, SeqLen
<1>3. PICK e \in 0..Len(p) : e = a + n /\ a <= e /\ e <= b /\ r <= e /\ r < e
  BY <1>1, <1>2
<1>4. e - a = n
  BY <1>2, <1>3
<1>5. SubSeq(x, 1, n) = SubSeq(p, a + 1, e) /\ SubSeq(x, n + 1, Len(x)) = SubSeq(p, e + 1, b)
  <2>1. /\ SubSeq(SubSeq(p, a + 1, b), 1, e - a) = SubSeq(p, a + 1, e)
        /\ SubSeq(SubSeq(p, a + 1, b), (e - a) + 1, b - a) = SubSeq(p, e + 1, b)
    BY <1>3, Adjacent
  <2> QED
    BY <1>1, <1>2, <1>4, <2>1, Zenon
<1>6. buf = SubSeq(p, r + 1, e)
  <2>1. SubSeq(p, r + 1, a) \o SubSeq(p, a + 1, e) = SubSeq(p, r + 1, e)
    <3>1. r <= a /\ a <= e
      BY <1>1, <1>3, Zenon
    <3> QED
      BY <3>1, Adjacent
  <2> QED
    BY <1>0, <1>1, <1>5, <2>1, Zenon
<1>7. r + 1 \in 1..Len(p) /\ e \in 1..Len(p)
  BY <1>2, <1>3
<1>8. ASSUME NEW q \in Suffixes(buf) PROVE Flows(p, q, SubSeq(x, n + 1, Len(x)), l)
  <2>1. Len(buf) = e - r
    BY <1>3, <1>6, PartTyped
  <2>2. PICK m \in 1..((e - r) + 1) : q = SubSeq(buf, m, e - r)
    BY <2>1, Zenon DEF Suffixes
  <2>3. PICK t \in 0..Len(p) : t = r + m - 1 /\ r <= t /\ t <= e
    BY <1>2, <1>3, <2>2
  <2>4. (t - r) + 1 = m
    BY <1>2, <2>2, <2>3
  <2>5. q = SubSeq(p, t + 1, e)
    BY <1>6, <2>2, <2>3, <2>4, Adjacent
  <2> QED
    BY <1>1, <1>3, <1>5, <2>3, <2>5, Zenon DEF Flows
<1>9. buf \in Cuts(p)
  BY <1>6, <1>7 DEF Cuts
<1>10. buf \in Seq(S)
  BY <1>3, <1>6, PartTyped
<1> QED
  BY <1>0, <1>8, <1>9, <1>10, Zenon

\* The client sends n bytes, at least two of them at first.
LEMMA AwaitedSend ==
  ASSUME NEW S, NEW p \in Seq(S), NEW rcv, NEW x, NEW l, Awaited(p, rcv, x, l),
         NEW n \in 1..Len(l), l = p => n > 1
  PROVE  Awaited(p, rcv, x \o SubSeq(l, 1, n), SubSeq(l, n + 1, Len(l)))
<1>1. PICK a \in 0..Len(p), b \in 0..Len(p) :
        /\ a # 1 /\ b # 1 /\ a < Len(p) /\ a <= b
        /\ rcv = SubSeq(p, 1, a)
        /\ x = SubSeq(p, a + 1, b)
        /\ l = SubSeq(p, b + 1, Len(p))
  BY Zenon DEF Awaited
<1>2. Len(p) \in Nat
  BY SeqLen
<1>3. /\ b + n \in 0..Len(p) /\ a <= b + n
      /\ x \o SubSeq(l, 1, n) = SubSeq(p, a + 1, b + n)
      /\ SubSeq(l, n + 1, Len(l)) = SubSeq(p, (b + n) + 1, Len(p))
  <2>1. a <= b /\ n \in 1..Len(SubSeq(p, b + 1, Len(p)))
    BY <1>1, Zenon
  <2>2. /\ b + n \in 0..Len(p) /\ a <= b + n
        /\ SubSeq(p, a + 1, b) \o SubSeq(SubSeq(p, b + 1, Len(p)), 1, n) = SubSeq(p, a + 1, b + n)
        /\ SubSeq(SubSeq(p, b + 1, Len(p)), n + 1, Len(SubSeq(p, b + 1, Len(p))))
              = SubSeq(p, (b + n) + 1, Len(p))
    BY <2>1, SendsPart, Zenon
  <2> QED
    BY <1>1, <2>2, Zenon
<1>4. b = 0 => l = p
  BY <1>1, SeqAll
<1>5. b + n # 1
  BY <1>1, <1>2, <1>4
<1> QED
  BY <1>1, <1>3, <1>5, Zenon DEF Awaited

\* With buf the server has the first m bytes of p.
Reaches(p, m, buf, x, l) ==
    /\ buf = SubSeq(p, 1, m)
    /\ m < Len(p) => Awaited(p, buf, x, l)
    /\ m = Len(p) => x = <<>> /\ l = <<>>

\* The server receives up to B bytes: it then holds the beginning of the
\* packet, and all of it if nothing is left.
LEMMA AwaitedRecv ==
  ASSUME NEW S, NEW p \in Seq(S), NEW rcv, NEW x, NEW l, Awaited(p, rcv, x, l),
         NEW n \in 1..Len(x), n = Len(x) \/ n > 1
  PROVE  \E m \in 2..Len(p) : Reaches(p, m, rcv \o SubSeq(x, 1, n), SubSeq(x, n + 1, Len(x)), l)
<1>1. PICK a \in 0..Len(p), b \in 0..Len(p) :
        /\ a # 1 /\ b # 1 /\ a < Len(p) /\ a <= b
        /\ rcv = SubSeq(p, 1, a)
        /\ x = SubSeq(p, a + 1, b)
        /\ l = SubSeq(p, b + 1, Len(p))
  BY Zenon DEF Awaited
<1>2. Len(p) \in Nat /\ Len(x) = b - a /\ x \in Seq(S)
  BY <1>1, PartTyped, SeqLen
<1>3. Len(x) # 0
  BY <1>2
<1>4. PICK m \in 2..Len(p) : m = a + n /\ a <= m /\ m <= b
  <2>1. PICK k \in Nat : k = Len(x) /\ k = b - a /\ k # 0
    BY <1>1, <1>2, <1>3
  <2>2. n \in Nat /\ n <= k /\ n > 0 /\ (n = k \/ n > 1)
    BY <2>1
  <2> QED
    <3>1. a # 1 /\ b # 1 /\ a < Len(p) /\ a <= b
      BY <1>1, Zenon
    <3>2. a + n \in 2..Len(p) /\ a <= a + n /\ a + n <= b
      BY <1>2, <2>1, <2>2, <3>1
    <3> QED
      BY <3>2, Zenon
<1>5. m - a = n /\ m \in 0..Len(p) /\ 0 \in 0..Len(p) /\ 0 <= a /\ 0 <= m /\ 0 + 1 = 1 /\ m # 1
  <2>1. n \in Nat
    BY <1>2
  <2> QED
    BY <1>2, <1>4, <2>1
<1>6. SubSeq(x, 1, n) = SubSeq(p, a + 1, m) /\ SubSeq(x, n + 1, Len(x)) = SubSeq(p, m + 1, b)
  <2>1. /\ SubSeq(SubSeq(p, a + 1, b), 1, m - a) = SubSeq(p, a + 1, m)
        /\ SubSeq(SubSeq(p, a + 1, b), (m - a) + 1, b - a) = SubSeq(p, m + 1, b)
    <3>1. a <= m /\ m <= b
      BY <1>4, Zenon
    <3> QED
      BY <1>5, <3>1, Adjacent
  <2> QED
    BY <1>1, <1>2, <1>5, <2>1, Zenon
<1>7. rcv \o SubSeq(p, a + 1, m) = SubSeq(p, 1, m)
  <2>1. SubSeq(p, 0 + 1, a) \o SubSeq(p, a + 1, m) = SubSeq(p, 0 + 1, m)
    <3>1. PICK z \in 0..Len(p) : z = 0 /\ z <= a
      BY <1>5, Zenon
    <3>2. SubSeq(p, z + 1, a) \o SubSeq(p, a + 1, m) = SubSeq(p, z + 1, m)
      <4>1. z <= a /\ a <= m /\ m \in 0..Len(p)
        BY <1>4, <1>5, <3>1, Zenon
      <4> QED
        BY <4>1, Adjacent
    <3> QED
      BY <3>1, <3>2, Zenon
  <2> QED
    BY <1>1, <1>5, <2>1, Zenon
<1>8. ASSUME m = Len(p) PROVE SubSeq(x, n + 1, Len(x)) = <<>> /\ l = <<>>
  <2>1. b = Len(p)
    BY <1>2, <1>4, <1>8
  <2>2. SubSeq(p, m + 1, b) = <<>> /\ SubSeq(p, b + 1, Len(p)) = <<>>
    BY <1>2, <1>8, <2>1, SeqNoPart
  <2> QED
    BY <1>1, <1>6, <2>2, Zenon
<1>9. ASSUME m < Len(p) PROVE Awaited(p, SubSeq(p, 1, m), SubSeq(x, n + 1, Len(x)), l)
  BY <1>1, <1>4, <1>5, <1>6, <1>9, Zenon DEF Awaited
<1>10. rcv \o SubSeq(x, 1, n) = SubSeq(p, 1, m)
  BY <1>6, <1>7, Zenon
<1> QED
  BY <1>8, <1>9, <1>10, Zenon DEF Reaches

-----------------------------------------------------------------------------
(* The bytes stay in order: type correctness. *)

\* The types of the variables that Shape leaves out.
Types ==
    /\ write \in [Slots -> BOOLEAN]
    /\ revents \in [Slots -> SUBSET {"IN", "OUT", "ERR"}]
    /\ sock \in [Slots -> Sock \cup {NoSock}]
    /\ peer \in [Conns -> {"idle", "sending", "waiting", "done", "gone", "reset"}]
    /\ left \in [Conns -> Seq(Byte)] /\ inbox \in [Conns -> Seq(Byte)]
    /\ packet \in [Conns -> Packets \cup {<<>>}]
    /\ handed \in [Conns -> Seq(Seq(Byte))]
    /\ got \in [Conns -> Conns \cup {NoReply}]

\* Nothing is left of a call that has returned.
Blank(c) == /\ conn[c] = "free" /\ packet[c] = <<>> /\ left[c] = <<>> /\ inbox[c] = <<>>
            /\ handed[c] = <<>> /\ got[c] = NoReply

\* The bytes of each call lie in its packet's order in the receive buffer of
\* its slot, on the way, and with the client.
Streams == up = "up" =>
    /\ \A c \in Conns : peer[c] = "idle" => Blank(c)
    /\ \A c \in Conns : conn[c] = "backlog" => Flows(packet[c], <<>>, inbox[c], left[c])
    /\ \A s \in Slots : sock[s] # NoSock /\ sock[s].short = 0 =>
          Flows(packet[fd[s]], sock[s].rcv, inbox[fd[s]], left[fd[s]])

\* A step that moves no byte.
Aside ==
    /\ up = "up"
    /\ UNCHANGED <<packet, left, inbox, handed>>
    /\ \A c \in Conns : conn'[c] = conn[c] \/ (conn[c] # "free" /\ conn'[c] # "backlog")
                        \/ conn'[c] = "free"
    /\ \A c \in Conns : peer'[c] = "idle" => peer[c] = "idle" /\ got'[c] = got[c]
    /\ \A s \in Slots : sock'[s] # NoSock =>
          /\ sock[s] # NoSock /\ fd'[s] = fd[s]
          /\ sock'[s].rcv = sock[s].rcv /\ sock'[s].short = sock[s].short

\* Such a step leaves the streams as they are.
LEMMA AsideStreams ==
  ASSUME Streams, Aside
  PROVE  Streams'
<1>1. ASSUME NEW c \in Conns, peer'[c] = "idle" PROVE Blank(c)'
  BY <1>1 DEF Streams, Aside, Blank
<1>2. ASSUME NEW c \in Conns, conn'[c] = "backlog"
      PROVE  Flows(packet'[c], <<>>, inbox'[c], left'[c])
  BY <1>2 DEF Streams, Aside
<1>3. ASSUME NEW s \in Slots, sock'[s] # NoSock, sock'[s].short = 0
      PROVE  Flows(packet'[fd'[s]], sock'[s].rcv, inbox'[fd'[s]], left'[fd'[s]])
  BY <1>3, Zenon DEF Streams, Aside
<1> QED
  BY <1>1, <1>2, <1>3, Zenon DEF Streams

\* What an_sock_destory changes.
LEMMA DestroysFacts ==
  ASSUME IInv, pc = "scan", fd[i] # NoFd, an_sock_destory(i)
  PROVE  /\ i \in Slots /\ fd[i] \in Conns /\ conn[fd[i]] = "open"
         /\ fd' = [fd EXCEPT ![i] = NoFd] /\ sock' = [sock EXCEPT ![i] = NoSock]
         /\ conn' = [conn EXCEPT ![fd[i]] = "free"] /\ write' = [write EXCEPT ![i] = FALSE]
         /\ sock'[i] = NoSock /\ \A s \in Slots : s # i => sock'[s] = sock[s] /\ fd'[s] = fd[s]
         /\ conn'[fd[i]] = "free" /\ \A c \in Conns : c # fd[i] => conn'[c] = conn[c]
<1>1. i \in Slots /\ fd[i] \in Conns
  BY Zenon DEF IInv, Shape
<1>2. SlotOf(fd[i]) = i
  BY <1>1, SlotFound, Zenon
<1>3. /\ fd' = [fd EXCEPT ![i] = NoFd] /\ sock' = [sock EXCEPT ![i] = NoSock]
      /\ conn' = [conn EXCEPT ![fd[i]] = "free"] /\ write' = [write EXCEPT ![i] = FALSE]
  BY <1>1, <1>2, Zenon DEF an_sock_destory, an_socket_t_del, an_sock_poll_del
<1>4. conn[fd[i]] = "open"
  BY <1>1, Zenon DEF IInv, Matches
<1>5. sock'[i] = NoSock /\ \A s \in Slots : s # i => sock'[s] = sock[s] /\ fd'[s] = fd[s]
  BY <1>1, <1>3 DEF IInv, Shape
<1>6. conn'[fd[i]] = "free" /\ \A c \in Conns : c # fd[i] => conn'[c] = conn[c]
  BY <1>1, <1>3 DEF IInv, Shape
<1> QED
  BY <1>1, <1>3, <1>4, <1>5, <1>6, Zenon

\* PassOver and NextSlot leave revents a table of events.
LEMMA EventsTyped ==
  ASSUME Types, PassOver \/ NextSlot \/ revents' = revents
  PROVE  revents' \in [Slots -> SUBSET {"IN", "OUT", "ERR"}]
<1>1. Quiet \in [Slots -> SUBSET {"IN", "OUT", "ERR"}]
  BY DEF Quiet
<1>2. revents' = Quiet \/ revents' = revents
  BY Zenon DEF PassOver, NextSlot
<1> QED
  BY <1>1, <1>2, Zenon DEF Types

\* The steps that only look.
LEMMA LooksAside ==
  ASSUME IInv, Types, poll \/ accept_fails \/ scan_skip \/ sigpipe
  PROVE  Types' /\ Aside
<1>1. /\ UNCHANGED <<fd, write, an_curfds, sock, tasks, conn, backlog,
                       peer, left, packet, inbox, handed, got>>
      /\ up = "up"
  BY Zenon DEF poll, Scanning, accept_fails, scan_skip, sigpipe, table, clients
<1>2. revents' \in [Slots -> SUBSET {"IN", "OUT", "ERR"}]
  <2>1. CASE poll
    <3>1. \A s \in Slots : Ready(s) \subseteq {"IN", "OUT", "ERR"}
      BY DEF Ready
    <3> QED
      BY <2>1, <3>1 DEF poll
  <2>2. CASE accept_fails \/ scan_skip \/ sigpipe
    <3>1. PassOver \/ NextSlot \/ revents' = revents
      BY <2>2, Zenon DEF accept_fails, scan_skip, sigpipe
    <3> QED
      BY <3>1, EventsTyped, Zenon
  <2> QED
    BY <2>1, <2>2, Zenon
<1>3. Types'
  BY <1>1, <1>2, Zenon DEF Types
<1>4. Aside
  BY <1>1, Zenon DEF Aside
<1> QED
  BY <1>3, <1>4, Zenon

\* A connection gets a slot with an empty receive buffer, or none at all.
LEMMA accept_Streams ==
  ASSUME IInv, Types, Streams, accept
  PROVE  Types' /\ Streams'
<1>1. PICK s \in Slots : an_sock_poll_add(Head(backlog), s)
  BY Zenon DEF accept
<1>2. backlog # <<>> /\ backlog \in Seq(Conns)
  BY Zenon DEF accept, IInv, Shape, Queued
<1>3. PICK c \in Conns : c = Head(backlog) /\ conn[c] = "backlog"
  <2>1. Head(backlog) \in Conns /\ Head(backlog) = backlog[1] /\ 1 \in 1..Len(backlog)
    BY <1>2
  <2> QED
    BY <2>1, Zenon DEF IInv, Queued
<1>4. /\ UNCHANGED <<write, tasks, peer, left, packet, inbox, handed, got>>
      /\ fd' = [fd EXCEPT ![s] = c] /\ conn' = [conn EXCEPT ![c] = "open"]
      /\ \/ sock' = [sock EXCEPT ![s] = [rcv |-> <<>>, short |-> 0, send |-> NoReply]]
            /\ revents' = [revents EXCEPT ![s] = {"IN"}]
         \/ sock' = sock /\ revents' = Quiet
      /\ fd[s] = NoFd /\ up = "up"
  BY <1>1, <1>3, Zenon DEF accept, an_sock_poll_add, an_socket_t_create, PassOver, IsFirstFree, clients
<1>5. PICK k \in Sock : k = [rcv |-> <<>>, short |-> 0, send |-> NoReply]
  <2>1. <<>> \in Seq(Byte)
    BY SeqEmpty
  <2>2. [rcv |-> <<>>, short |-> 0, send |-> NoReply] \in Sock
    BY <2>1 DEF Sock
  <2> QED
    BY <2>2, Zenon
<1>6. Types'
  <2>1. sock' \in [Slots -> Sock \cup {NoSock}]
    BY <1>4, <1>5, Zenon DEF Types
  <2>2. revents' \in [Slots -> SUBSET {"IN", "OUT", "ERR"}]
    <3>1. {"IN"} \in SUBSET {"IN", "OUT", "ERR"} /\ Quiet \in [Slots -> SUBSET {"IN", "OUT", "ERR"}]
      BY DEF Quiet
    <3> QED
      BY <1>4, <3>1, Zenon DEF Types
  <2> QED
    BY <1>4, <2>1, <2>2, Zenon DEF Types
<1>7. /\ fd'[s] = c /\ \A t \in Slots : t # s => fd'[t] = fd[t] /\ sock'[t] = sock[t]
      /\ conn'[c] = "open" /\ \A d \in Conns : d # c => conn'[d] = conn[d]
      /\ sock'[s] = k \/ sock'[s] = sock[s]
  BY <1>4, <1>5 DEF IInv, Shape
<1>8. sock[s] = NoSock
  BY <1>4, Zenon DEF IInv, Matches
<1>9. ASSUME NEW d \in Conns, peer'[d] = "idle" PROVE Blank(d)'
  <2>1. peer[d] = "idle" /\ Blank(d)
    BY <1>4, <1>9, Zenon DEF Streams
  <2>2. d # c
    BY <1>3, <2>1 DEF Blank
  <2> QED
    BY <1>4, <1>7, <2>1, <2>2, Zenon DEF Blank
<1>10. ASSUME NEW d \in Conns, conn'[d] = "backlog" PROVE Flows(packet'[d], <<>>, inbox'[d], left'[d])
  <2>1. conn[d] = "backlog"
    BY <1>7, <1>10
  <2> QED
    BY <1>4, <2>1, Zenon DEF Streams
<1>11. ASSUME NEW t \in Slots, sock'[t] # NoSock, sock'[t].short = 0
      PROVE  Flows(packet'[fd'[t]], sock'[t].rcv, inbox'[fd'[t]], left'[fd'[t]])
  <2>1. CASE t = s
    <3>1. sock'[t] = k /\ k.rcv = <<>>
      BY <1>5, <1>7, <1>8, <1>11, <2>1
    <3>2. Flows(packet[c], <<>>, inbox[c], left[c])
      BY <1>3, <1>4, Zenon DEF Streams
    <3> QED
      BY <1>4, <1>7, <2>1, <3>1, <3>2, Zenon
  <2>2. CASE t # s
    BY <1>4, <1>7, <1>11, <2>2, Zenon DEF Streams
  <2> QED
    BY <2>1, <2>2, Zenon
<1> QED
  BY <1>6, <1>9, <1>10, <1>11, Zenon DEF Streams

\* Without a slot its bytes are never read.
LEMMA accept_full_Aside ==
  ASSUME IInv, Types, accept_full
  PROVE  Types' /\ Aside
<1>1. /\ UNCHANGED <<fd, write, sock, tasks, peer, left, packet, inbox, handed, got>>
      /\ conn' = [conn EXCEPT ![Head(backlog)] = "leaked"]
      /\ backlog # <<>> /\ backlog \in Seq(Conns) /\ up = "up"
  BY Zenon DEF accept_full, table, clients, IInv, Shape, Queued
<1>2. revents' \in [Slots -> SUBSET {"IN", "OUT", "ERR"}]
  BY EventsTyped, Zenon DEF accept_full
<1>3. Types'
  BY <1>1, <1>2, Zenon DEF Types
<1>4. PICK c \in Conns : c = Head(backlog) /\ conn[c] = "backlog"
  <2>1. Head(backlog) \in Conns /\ Head(backlog) = backlog[1] /\ 1 \in 1..Len(backlog)
    BY <1>1
  <2> QED
    BY <2>1, Zenon DEF IInv, Queued
<1>5. \A d \in Conns : conn'[d] = conn[d] \/ (conn[d] # "free" /\ conn'[d] # "backlog")
  BY <1>1, <1>4 DEF IInv, Shape
<1>6. Aside
  BY <1>1, <1>5, Zenon DEF Aside
<1> QED
  BY <1>3, <1>6, Zenon

\* Closing a connection: no byte moves.
LEMMA ClosesAside ==
  ASSUME IInv, Types, events_err \/ an_tcp_send \/ recv_fails
  PROVE  Types' /\ Aside
<1>1. /\ up = "up" /\ pc = "scan" /\ fd[i] # NoFd /\ an_sock_destory(i)
      /\ UNCHANGED <<tasks, backlog, left, packet, inbox, handed>>
      /\ PassOver \/ NextSlot \/ revents' = revents
  BY Zenon DEF events_err, an_tcp_send, recv_fails, Readable, Scanning, clients
<1>2. /\ i \in Slots /\ fd[i] \in Conns /\ conn[fd[i]] = "open"
      /\ sock' = [sock EXCEPT ![i] = NoSock] /\ write' = [write EXCEPT ![i] = FALSE]
      /\ sock'[i] = NoSock /\ \A s \in Slots : s # i => sock'[s] = sock[s] /\ fd'[s] = fd[s]
      /\ conn'[fd[i]] = "free" /\ \A c \in Conns : c # fd[i] => conn'[c] = conn[c]
  BY <1>1, DestroysFacts, Zenon
<1>3. /\ got' \in [Conns -> Conns \cup {NoReply}]
      /\ peer' \in [Conns -> {"idle", "sending", "waiting", "done", "gone", "reset"}]
      /\ \A c \in Conns : peer'[c] = "idle" => peer[c] = "idle" /\ got'[c] = got[c]
  <2>1. CASE UNCHANGED <<got, peer>>
    BY <2>1, Zenon DEF Types
  <2>2. CASE ~UNCHANGED <<got, peer>>
    <3>1. /\ sock[i] # NoSock /\ sock[i].send # NoReply
          /\ got' = [got EXCEPT ![fd[i]] = sock[i].send] /\ peer' = [peer EXCEPT ![fd[i]] = "done"]
      BY <2>2, Zenon DEF events_err, an_tcp_send, recv_fails, clients, an_socket_t_find_by_index
    <3>2. sock[i].send \in Conns
      BY <1>2, <3>1 DEF Types, Sock
    <3>3. got' \in [Conns -> Conns \cup {NoReply}]
      BY <3>1, <3>2, Zenon DEF Types
    <3>4. peer' \in [Conns -> {"idle", "sending", "waiting", "done", "gone", "reset"}]
      BY <1>2, <3>1 DEF Types
    <3>5. \A c \in Conns : peer'[c] = "idle" => peer[c] = "idle" /\ got'[c] = got[c]
      BY <1>2, <3>1 DEF Types
    <3> QED
      BY <3>3, <3>4, <3>5, Zenon
  <2> QED
    BY <2>1, <2>2, Zenon
<1>4. revents' \in [Slots -> SUBSET {"IN", "OUT", "ERR"}]
  BY <1>1, EventsTyped, Zenon
<1>5. /\ sock' \in [Slots -> Sock \cup {NoSock}]
      /\ write' \in [Slots -> BOOLEAN]
  BY <1>2, Zenon DEF Types
<1>6. Types'
  BY <1>1, <1>3, <1>4, <1>5, Zenon DEF Types
<1>7. \A c \in Conns : conn'[c] = conn[c] \/ conn'[c] = "free"
  BY <1>2, Zenon
<1>8. Aside
  BY <1>1, <1>2, <1>3, <1>7, Zenon DEF Aside
<1> QED
  BY <1>6, <1>8, Zenon

\* A reply in the send buffer leaves the receive buffer as it is.
LEMMA worker_reply_Aside ==
  ASSUME IInv, Types, NEW t \in tasks, worker_reply(t)
  PROVE  Types' /\ Aside
<1>1. /\ up = "up" /\ UNCHANGED <<fd, revents, conn, backlog, peer, left, packet, inbox, handed, got>>
  BY Zenon DEF worker_reply, clients
<1>2. t.index \in Slots /\ t.from \in Conns
  BY DEF IInv, Shape
<1>3. CASE UNCHANGED <<sock, write>>
  <2>1. Types'
    BY <1>1, <1>3, Zenon DEF Types
  <2>2. Aside
    BY <1>1, <1>3, Zenon DEF Aside
  <2> QED
    BY <2>1, <2>2, Zenon
<1>4. CASE ~UNCHANGED <<sock, write>>
  <2>1. /\ sock[t.index] # NoSock /\ write' = [write EXCEPT ![t.index] = TRUE]
        /\ sock' = [sock EXCEPT ![t.index].send = t.from]
    BY <1>4, Zenon DEF worker_reply
  <2>2. sock[t.index] \in Sock
    BY <1>2, <2>1, Zenon DEF Types
  <2>3. PICK k \in Sock : /\ k = [sock[t.index] EXCEPT !.send = t.from]
                          /\ k.rcv = sock[t.index].rcv /\ k.short = sock[t.index].short
    <3>1. [sock[t.index] EXCEPT !.send = t.from] \in Sock
      BY <1>2, <2>2 DEF Sock
    <3>2. [sock[t.index] EXCEPT !.send = t.from].rcv = sock[t.index].rcv
      BY <2>2 DEF Sock
    <3>3. [sock[t.index] EXCEPT !.send = t.from].short = sock[t.index].short
      BY <2>2 DEF Sock
    <3> QED
      BY <3>1, <3>2, <3>3, Zenon
  <2>4. sock' = [sock EXCEPT ![t.index] = k]
    BY <2>1, <2>3, Zenon
  <2>5. sock' \in [Slots -> Sock \cup {NoSock}] /\ write' \in [Slots -> BOOLEAN]
    <3>1. k \in Sock \cup {NoSock}
      BY Zenon
    <3>2. sock' \in [Slots -> Sock \cup {NoSock}]
      BY <2>4, <3>1, Zenon DEF Types
    <3>3. write' \in [Slots -> BOOLEAN]
      BY <2>1, Zenon DEF Types
    <3> QED
      BY <3>2, <3>3, Zenon
  <2>6. sock'[t.index] = k /\ \A s \in Slots : s # t.index => sock'[s] = sock[s]
    BY <1>2, <2>4 DEF Types
  <2>7. Types'
    BY <1>1, <2>5, Zenon DEF Types
  <2>8. Aside
    BY <1>1, <2>1, <2>3, <2>6, Zenon DEF Aside
  <2> QED
    BY <2>7, <2>8, Zenon
<1> QED
  BY <1>3, <1>4, Zenon

\* A call that gives up sends nothing more.
LEMMA toserver_timeout_Aside ==
  ASSUME IInv, Types, NEW c \in Conns, toserver_timeout(c)
  PROVE  Types' /\ Aside
<1>1. PICK e \in {"gone", "reset"} : peer' = [peer EXCEPT ![c] = e]
  BY Zenon DEF toserver_timeout
<1>2. up = "up" /\ UNCHANGED <<table, revents, conn, left, packet, inbox, handed, got>>
  BY Zenon DEF toserver_timeout
<1>3. peer' \in [Conns -> {"idle", "sending", "waiting", "done", "gone", "reset"}]
  BY <1>1 DEF Types
<1>4. \A d \in Conns : peer'[d] = "idle" => peer[d] = "idle"
  BY <1>1 DEF Types
<1>5. Types'
  BY <1>2, <1>3, Zenon DEF Types, table
<1>6. Aside
  BY <1>2, <1>4, Zenon DEF Aside, table
<1> QED
  BY <1>5, <1>6, Zenon

\* The bytes of a call.
LEMMA BytesTyped ==
  ASSUME Types, NEW c \in Conns
  PROVE  /\ left[c] \in Seq(Byte) /\ inbox[c] \in Seq(Byte) /\ packet[c] \in Seq(Byte)
         /\ packet[c] \in Packets \cup {<<>>}
<1>1. left[c] \in Seq(Byte) /\ inbox[c] \in Seq(Byte) /\ packet[c] \in Packets \cup {<<>>}
  BY Zenon DEF Types
<1>2. <<>> \in Seq(Byte) /\ \A p \in Packets : p \in Seq(Byte)
  BY AnalyzerAssumption, SeqEmpty
<1>3. packet[c] \in Seq(Byte)
  BY <1>1, <1>2, Zenon
<1> QED
  BY <1>1, <1>3, Zenon

\* A slot with an an_socket_t has an open connection.
LEMMA SlotConn ==
  ASSUME IInv, NEW s \in Slots, sock[s] # NoSock
  PROVE  fd[s] \in Conns /\ conn[fd[s]] = "open"
<1>1. fd[s] # NoFd
  BY Zenon DEF IInv, Matches
<1>2. conn[fd[s]] = "open"
  BY <1>1, Zenon DEF IInv, Matches
<1>3. fd[s] \in Conns
  BY <1>1, Zenon DEF IInv, Shape
<1> QED
  BY <1>2, <1>3, Zenon

\* A new call has its packet before it.
LEMMA toserver_connect_Streams ==
  ASSUME IInv, Types, Streams, NEW c \in Conns, toserver_connect(c)
  PROVE  Types' /\ Streams'
<1>1. PICK p \in Packets : packet' = [packet EXCEPT ![c] = p] /\ left' = [left EXCEPT ![c] = p]
  BY Zenon DEF toserver_connect
<1>2. /\ up = "up" /\ conn[c] = "free" /\ peer[c] = "idle"
      /\ peer' = [peer EXCEPT ![c] = "sending"] /\ conn' = [conn EXCEPT ![c] = "backlog"]
      /\ UNCHANGED <<table, revents, inbox, handed, got>>
  BY Zenon DEF toserver_connect, Unused
<1>3. p \in Seq(Byte)
  BY AnalyzerAssumption
<1>4. Types'
  <2>1. left' \in [Conns -> Seq(Byte)] /\ packet' \in [Conns -> Packets \cup {<<>>}]
    BY <1>1, <1>3, Zenon DEF Types
  <2>2. peer' \in [Conns -> {"idle", "sending", "waiting", "done", "gone", "reset"}]
    BY <1>2 DEF Types
  <2> QED
    BY <1>2, <2>1, <2>2, Zenon DEF Types, table
<1>5. /\ packet'[c] = p /\ left'[c] = p /\ peer'[c] = "sending" /\ conn'[c] = "backlog"
      /\ \A d \in Conns : d # c => /\ packet'[d] = packet[d] /\ left'[d] = left[d]
                                   /\ peer'[d] = peer[d] /\ conn'[d] = conn[d]
  BY <1>1, <1>2 DEF Types, IInv, Shape
<1>6. inbox[c] = <<>>
  BY <1>2, Zenon DEF Streams, Blank
<1>7. Flows(p, <<>>, <<>>, p)
  <2>1. Len(p) \in Nat /\ 0 \in 0..Len(p)
    BY <1>3
  <2>2. <<>> = SubSeq(p, 0 + 1, 0) /\ p = SubSeq(p, 0 + 1, Len(p))
    BY <1>3
  <2> QED
    BY <2>1, <2>2 DEF Flows
<1>8. ASSUME NEW d \in Conns, peer'[d] = "idle" PROVE Blank(d)'
  <2>1. d # c
    BY <1>5, <1>8
  <2>2. Blank(d)
    BY <1>2, <1>5, <1>8, <2>1, Zenon DEF Streams
  <2>3. /\ conn'[d] = conn[d] /\ packet'[d] = packet[d] /\ left'[d] = left[d]
        /\ inbox' = inbox /\ handed' = handed /\ got' = got
    BY <1>2, <1>5, <2>1, Zenon
  <2> QED
    BY <2>2, <2>3, Zenon DEF Blank
<1>9. ASSUME NEW d \in Conns, conn'[d] = "backlog" PROVE Flows(packet'[d], <<>>, inbox'[d], left'[d])
  <2>1. CASE d = c
    BY <1>2, <1>5, <1>6, <1>7, <2>1, Zenon
  <2>2. CASE d # c
    BY <1>2, <1>5, <1>9, <2>2, Zenon DEF Streams
  <2> QED
    BY <2>1, <2>2, Zenon
<1>10. ASSUME NEW s \in Slots, sock'[s] # NoSock, sock'[s].short = 0
      PROVE  Flows(packet'[fd'[s]], sock'[s].rcv, inbox'[fd'[s]], left'[fd'[s]])
  <2>1. sock' = sock /\ fd' = fd /\ inbox' = inbox
    BY <1>2, Zenon DEF table
  <2>2. fd[s] \in Conns /\ fd[s] # c
    <3>1. fd[s] \in Conns /\ conn[fd[s]] = "open"
      BY <1>10, <2>1, SlotConn, Zenon
    <3> QED
      BY <1>2, <3>1
  <2> QED
    BY <1>2, <1>5, <1>10, <2>1, <2>2, Zenon DEF Streams
<1> QED
  BY <1>8, <1>9, <1>10, <1>4, Zenon DEF Streams

\* A segment moves from the client to the way.
LEMMA toserver_send_Streams ==
  ASSUME IInv, Types, Streams, NEW c \in Conns, toserver_send(c)
  PROVE  Types' /\ Streams'
<1>1. PICK n \in 1..Len(left[c]) :
        /\ inbox' = [inbox EXCEPT ![c] = @ \o SubSeq(left[c], 1, n)]
        /\ left' = [left EXCEPT ![c] = SubSeq(@, n + 1, Len(@))]
        /\ peer' = [peer EXCEPT ![c] = IF n = Len(left[c]) THEN "waiting" ELSE @]
  BY Zenon DEF toserver_send
<1>2. /\ up = "up" /\ peer[c] = "sending"
      /\ UNCHANGED <<table, revents, conn, packet, handed, got>>
  BY Zenon DEF toserver_send
<1>3. left[c] \in Seq(Byte) /\ inbox[c] \in Seq(Byte) /\ packet[c] \in Seq(Byte)
  BY BytesTyped, Zenon
<1>4. PICK x \in Seq(Byte), l \in Seq(Byte) :
         x = inbox[c] \o SubSeq(left[c], 1, n) /\ l = SubSeq(left[c], n + 1, Len(left[c]))
  <2>1. inbox[c] \o SubSeq(left[c], 1, n) \in Seq(Byte)
    BY <1>3
  <2>2. SubSeq(left[c], n + 1, Len(left[c])) \in Seq(Byte)
    BY <1>3
  <2> QED
    BY <2>1, <2>2, Zenon
<1>5. inbox' = [inbox EXCEPT ![c] = x] /\ left' = [left EXCEPT ![c] = l]
  BY <1>1, <1>4, Zenon
<1>6. Types'
  <2>1. left' \in [Conns -> Seq(Byte)] /\ inbox' \in [Conns -> Seq(Byte)]
    BY <1>5, Zenon DEF Types
  <2>2. peer' \in [Conns -> {"idle", "sending", "waiting", "done", "gone", "reset"}]
    BY <1>1 DEF Types
  <2> QED
    BY <1>2, <2>1, <2>2, Zenon DEF Types, table
<1>7. /\ inbox'[c] = x /\ left'[c] = l /\ peer'[c] # "idle"
      /\ \A d \in Conns : d # c => inbox'[d] = inbox[d] /\ left'[d] = left[d] /\ peer'[d] = peer[d]
  BY <1>1, <1>2, <1>5 DEF Types
<1>8. ASSUME NEW d \in Conns, NEW rcv, Flows(packet[d], rcv, inbox[d], left[d])
      PROVE  Flows(packet'[d], rcv, inbox'[d], left'[d])
  <2>1. CASE d = c
    <3>1. Flows(packet[c], rcv, x, l)
      BY <1>3, <1>4, <1>8, <2>1, FlowsSend
    <3> QED
      BY <1>2, <1>7, <2>1, <3>1, Zenon
  <2>2. CASE d # c
    BY <1>2, <1>7, <1>8, <2>2, Zenon
  <2> QED
    BY <2>1, <2>2, Zenon
<1>9. ASSUME NEW d \in Conns, peer'[d] = "idle" PROVE Blank(d)'
  <2>1. d # c /\ peer[d] = "idle"
    BY <1>7, <1>9, Zenon
  <2> QED
    BY <1>2, <1>7, <2>1, Zenon DEF Streams, Blank
<1>10. ASSUME NEW d \in Conns, conn'[d] = "backlog" PROVE Flows(packet'[d], <<>>, inbox'[d], left'[d])
  BY <1>2, <1>8, <1>10, Zenon DEF Streams
<1>11. ASSUME NEW s \in Slots, sock'[s] # NoSock, sock'[s].short = 0
      PROVE  Flows(packet'[fd'[s]], sock'[s].rcv, inbox'[fd'[s]], left'[fd'[s]])
  <2>1. sock' = sock /\ fd' = fd
    BY <1>2, Zenon DEF table
  <2>2. fd[s] \in Conns
    BY <1>11, <2>1 DEF IInv, Shape, Matches
  <2> QED
    BY <1>2, <1>8, <1>11, <2>1, <2>2, Zenon DEF Streams
<1> QED
  BY <1>6, <1>9, <1>10, <1>11, Zenon DEF Streams

\* Nothing is left of a call that returns.
LEMMA toserver_return_Streams ==
  ASSUME IInv, Types, Streams, NEW c \in Conns, toserver_return(c)
  PROVE  Types' /\ Streams'
<1>1. /\ up = "up" /\ conn[c] = "free" /\ UNCHANGED <<table, revents, conn>>
      /\ peer' = [peer EXCEPT ![c] = "idle"]
      /\ left' = [left EXCEPT ![c] = <<>>] /\ packet' = [packet EXCEPT ![c] = <<>>]
      /\ inbox' = [inbox EXCEPT ![c] = <<>>] /\ handed' = [handed EXCEPT ![c] = <<>>]
      /\ got' = [got EXCEPT ![c] = NoReply]
  BY Zenon DEF toserver_return
<1>2. Types'
  <2>1. <<>> \in Seq(Byte) /\ <<>> \in Seq(Seq(Byte))
    BY SeqEmpty
  <2>2. /\ left' \in [Conns -> Seq(Byte)] /\ inbox' \in [Conns -> Seq(Byte)]
        /\ packet' \in [Conns -> Packets \cup {<<>>}] /\ handed' \in [Conns -> Seq(Seq(Byte))]
        /\ got' \in [Conns -> Conns \cup {NoReply}]
    BY <1>1, <2>1, Zenon DEF Types
  <2>3. peer' \in [Conns -> {"idle", "sending", "waiting", "done", "gone", "reset"}]
    BY <1>1 DEF Types
  <2> QED
    BY <1>1, <2>2, <2>3, Zenon DEF Types, table
<1>3. /\ packet'[c] = <<>> /\ left'[c] = <<>> /\ inbox'[c] = <<>> /\ handed'[c] = <<>>
      /\ got'[c] = NoReply
  BY <1>1 DEF Types
<1>4. \A d \in Conns : d # c =>
        /\ packet'[d] = packet[d] /\ left'[d] = left[d] /\ inbox'[d] = inbox[d]
        /\ handed'[d] = handed[d] /\ got'[d] = got[d] /\ peer'[d] = peer[d]
  BY <1>1 DEF Types
<1>5. ASSUME NEW d \in Conns, peer'[d] = "idle" PROVE Blank(d)'
  <2>1. CASE d = c
    BY <1>1, <1>3, <2>1, Zenon DEF Blank
  <2>2. CASE d # c
    BY <1>1, <1>4, <1>5, <2>2, Zenon DEF Blank, Streams
  <2> QED
    BY <2>1, <2>2, Zenon
<1>6. ASSUME NEW d \in Conns, conn'[d] = "backlog" PROVE Flows(packet'[d], <<>>, inbox'[d], left'[d])
  <2>1. d # c
    BY <1>1, <1>6
  <2> QED
    BY <1>1, <1>4, <1>6, <2>1, Zenon DEF Streams
<1>7. ASSUME NEW s \in Slots, sock'[s] # NoSock, sock'[s].short = 0
      PROVE  Flows(packet'[fd'[s]], sock'[s].rcv, inbox'[fd'[s]], left'[fd'[s]])
  <2>1. sock' = sock /\ fd' = fd
    BY <1>1, Zenon DEF table
  <2>2. fd[s] \in Conns /\ fd[s] # c
    <3>1. fd[s] \in Conns /\ conn[fd[s]] = "open"
      BY <1>7, <2>1, SlotConn, Zenon
    <3> QED
      BY <1>1, <3>1
  <2>3. Flows(packet[fd[s]], sock[s].rcv, inbox[fd[s]], left[fd[s]])
    BY <1>1, <1>7, <2>1, Zenon DEF Streams
  <2> QED
    BY <1>4, <2>1, <2>2, <2>3, Zenon
<1> QED
  BY <1>2, <1>5, <1>6, <1>7, Zenon DEF Streams

\* Split holds what an_split_rcv_buf_to_json makes of a part of a packet.
LEMMA SplitIs ==
  ASSUME NEW buf \in Parts, NEW behind \in Behind
  PROVE  Split[buf][behind] = an_split_rcv_buf_to_json(buf, behind)
BY Zenon DEF Split

\* What an_tcp_recv reads lies in the packet of its call, with what it leaves.
LEMMA RecvFlows ==
  ASSUME IInv, Types, Streams, up = "up", NEW s \in Slots, sock[s] # NoSock, sock[s].short = 0,
         NEW n \in 1..Len(inbox[fd[s]])
  PROVE  /\ sock[s].rcv \o SubSeq(inbox[fd[s]], 1, n) \in Parts
         /\ sock[s].rcv \o SubSeq(inbox[fd[s]], 1, n) \in Seq(Byte)
         /\ \A q \in Suffixes(sock[s].rcv \o SubSeq(inbox[fd[s]], 1, n)) :
              Flows(packet[fd[s]], q, SubSeq(inbox[fd[s]], n + 1, Len(inbox[fd[s]])), left[fd[s]])
<1>1. PICK c \in Conns : c = fd[s]
  <2>1. fd[s] # NoFd
    BY Zenon DEF IInv, Matches
  <2> QED
    BY <2>1, Zenon DEF IInv, Shape
<1>2. packet[c] \in Packets \cup {<<>>} /\ packet[c] \in Seq(Byte)
  BY BytesTyped, Zenon
<1>3. Flows(packet[c], sock[s].rcv, inbox[c], left[c]) /\ n \in 1..Len(inbox[c])
  BY <1>1, Zenon DEF Streams
<1>4. /\ sock[s].rcv \o SubSeq(inbox[c], 1, n) \in Cuts(packet[c])
      /\ sock[s].rcv \o SubSeq(inbox[c], 1, n) \in Seq(Byte)
      /\ \A q \in Suffixes(sock[s].rcv \o SubSeq(inbox[c], 1, n)) :
           Flows(packet[c], q, SubSeq(inbox[c], n + 1, Len(inbox[c])), left[c])
  BY <1>2, <1>3, FlowsRecv, Zenon
<1>5. Cuts(<<>>) = {}
  BY DEF Cuts
<1>6. packet[c] \in Packets
  BY <1>2, <1>4, <1>5, Zenon
<1>7. Cuts(packet[c]) \subseteq Parts
  BY <1>6 DEF Parts, Cuts
<1> QED
  BY <1>1, <1>4, <1>7, Zenon

\* What an_tcp_recv does with what it has read.
Takes(c, n, o) ==
    /\ inbox' = [inbox EXCEPT ![c] = SubSeq(@, n + 1, Len(@))]
    /\ IF sock[i].short = 1 \/ o.end = "crash"
       THEN /\ up' = "overrun"
            /\ UNCHANGED <<pc, i, table, revents, tasks, conn, handed>>
       ELSE /\ handed' = [handed EXCEPT ![c] = @ \o o.handed]
            /\ al_allocate_task(c, o.handed)
            /\ \/ o.end = "fail" /\ an_sock_destory(i)
               \/ /\ o.end # "fail"
                  /\ sock' = [sock EXCEPT ![i].rcv = o.rest,
                                ![i].short = IF o.end = "short" THEN 1 ELSE 0]
                  /\ UNCHANGED <<fd, write, an_curfds, conn>>
            /\ NextSlot
            /\ up' = up

\* The step with its result named.
LEMMA RecvTakes ==
  ASSUME an_tcp_recv
  PROVE  \E behind \in Behind : \E c, n, o :
           /\ c = fd[i]
           /\ n = IF Len(inbox[c]) < AN_TCP_BUF_LEN THEN Len(inbox[c]) ELSE AN_TCP_BUF_LEN
           /\ o = Split[sock[i].rcv \o SubSeq(inbox[c], 1, n)][behind]
           /\ Takes(c, n, o)
<1> DEFINE n == IF Len(inbox[fd[i]]) < AN_TCP_BUF_LEN THEN Len(inbox[fd[i]]) ELSE AN_TCP_BUF_LEN
           o(b) == Split[sock[i].rcv \o SubSeq(inbox[fd[i]], 1, n)][b]
<1>1. PICK behind \in Behind : Takes(fd[i], n, o(behind))
  BY Zenon DEF an_tcp_recv, Takes
<1> HIDE DEF Takes
<1> QED
  BY <1>1, Zenon

\* The two fields that an_tcp_recv fills.
Refill(k, rcv, short) == [[k EXCEPT !.rcv = rcv] EXCEPT !.short = short]

\* The others stay.
LEMMA Refills ==
  ASSUME NEW k \in Sock, NEW rcv \in Seq(Byte), NEW short \in 0..1
  PROVE  /\ Refill(k, rcv, short) \in Sock /\ Refill(k, rcv, short).rcv = rcv
         /\ Refill(k, rcv, short).short = short /\ Refill(k, rcv, short).send = k.send
<1>1. /\ [k EXCEPT !.rcv = rcv] \in Sock
      /\ [k EXCEPT !.rcv = rcv].rcv = rcv /\ [k EXCEPT !.rcv = rcv].send = k.send
  BY DEF Sock
<1>2. PICK j \in Sock : j = [k EXCEPT !.rcv = rcv] /\ j.rcv = rcv /\ j.send = k.send
  BY <1>1, Zenon
<1>3. [j EXCEPT !.short = short] \in Sock
  BY DEF Sock
<1>4. /\ [j EXCEPT !.short = short].rcv = rcv /\ [j EXCEPT !.short = short].short = short
      /\ [j EXCEPT !.short = short].send = k.send
  BY <1>2 DEF Sock
<1>5. Refill(k, rcv, short) = [j EXCEPT !.short = short]
  BY <1>2, Zenon DEF Refill
<1> QED
  BY <1>3, <1>4, <1>5, Zenon

\* What is received goes to the receive buffer or to the allocator, and what
\* stays in the buffer is the end of what it held.
LEMMA an_tcp_recv_Streams ==
  ASSUME Splits, IInv, Types, Streams, an_tcp_recv
  PROVE  Types' /\ Streams'
<1>1. PICK behind \in Behind : \E c, n, o :
           /\ c = fd[i]
           /\ n = IF Len(inbox[c]) < AN_TCP_BUF_LEN THEN Len(inbox[c]) ELSE AN_TCP_BUF_LEN
           /\ o = Split[sock[i].rcv \o SubSeq(inbox[c], 1, n)][behind]
           /\ Takes(c, n, o)
  BY RecvTakes, Zenon
<1>2. PICK c, n, o :
           /\ c = fd[i]
           /\ n = IF Len(inbox[c]) < AN_TCP_BUF_LEN THEN Len(inbox[c]) ELSE AN_TCP_BUF_LEN
           /\ o = Split[sock[i].rcv \o SubSeq(inbox[c], 1, n)][behind]
           /\ Takes(c, n, o)
  BY <1>1, Zenon
<1>3. /\ Readable /\ sock[i] # NoSock /\ inbox[c] # <<>>
      /\ UNCHANGED <<backlog, peer, left, packet, got>>
  BY <1>2, Zenon DEF an_tcp_recv, clients
<1>4. i \in Slots /\ c \in Conns /\ up = "up" /\ pc = "scan" /\ fd[i] # NoFd
  BY <1>2, <1>3, Zenon DEF Readable, Scanning, IInv, Shape
<1>5. PICK k \in Sock : k = sock[i]
  BY <1>3, <1>4, Zenon DEF Types
<1>6. PICK x \in Seq(Byte) : x = SubSeq(inbox[c], n + 1, Len(inbox[c])) /\ n \in 1..Len(inbox[c])
  <2>1. inbox[c] \in Seq(Byte) /\ n \in Nat /\ n \in 1..Len(inbox[c])
    <3>1. inbox[c] \in Seq(Byte)
      BY <1>4, BytesTyped, Zenon
    <3>2. Len(inbox[c]) \in Nat \ {0}
      BY <1>3, <3>1, SeqEmpty
    <3>3. AN_TCP_BUF_LEN \in Nat \ {0}
      BY AnalyzerAssumption
    <3>4. n \in 1..Len(inbox[c])
      BY <1>2, <3>2, <3>3, Shorter, Zenon
    <3> QED
      BY <3>1, <3>4
  <2>2. SubSeq(inbox[c], n + 1, Len(inbox[c])) \in Seq(Byte)
    BY <2>1
  <2> QED
    BY <2>1, <2>2, Zenon
<1>7. inbox' = [inbox EXCEPT ![c] = x]
  BY <1>2, <1>6, Zenon DEF Takes
<1>8. inbox' \in [Conns -> Seq(Byte)] /\ inbox'[c] = x /\ \A d \in Conns : d # c => inbox'[d] = inbox[d]
  BY <1>4, <1>7 DEF Types
<1>9. CASE k.short = 1 \/ o.end = "crash"
  <2>1. up' = "overrun" /\ UNCHANGED <<table, revents, handed>>
    BY <1>2, <1>5, <1>9, Zenon DEF Takes
  <2>2. Types'
    BY <1>3, <1>8, <2>1, Zenon DEF Types, table
  <2> QED
    BY <2>1, <2>2 DEF Streams
<1>10. CASE k.short # 1 /\ o.end # "crash"
  <2>1. k.short = 0
    BY <1>10 DEF Sock
  <2>2. PICK buf : buf = sock[i].rcv \o SubSeq(inbox[c], 1, n)
    BY Zenon
  <2>3. /\ buf \in Parts /\ buf \in Seq(Byte)
        /\ \A q \in Suffixes(buf) : Flows(packet[c], q, x, left[c])
    BY <1>2, <1>3, <1>4, <1>5, <1>6, <2>1, <2>2, RecvFlows, Zenon
  <2>4. o = an_split_rcv_buf_to_json(buf, behind)
    BY <1>2, <2>2, <2>3, SplitIs, Zenon
  <2>5. /\ o.rest \in Suffixes(buf) /\ o.handed \in Seq(Seq(Byte))
        /\ o.end \in {"wait", "fail", "short", "crash"}
    <3>1. behind \in Byte
      BY AnalyzerAssumption, Zenon
    <3> QED
      BY <2>3, <2>4, <3>1, Zenon DEF Splits, Shaped
  <2>6. o.rest \in Seq(Byte) /\ Flows(packet[c], o.rest, x, left[c])
    BY <2>3, <2>5, SuffixesTyped, Zenon
  <2>7. /\ handed' = [handed EXCEPT ![c] = @ \o o.handed] /\ NextSlot /\ up' = "up"
        /\ \/ an_sock_destory(i)
           \/ /\ sock' = [sock EXCEPT ![i].rcv = o.rest,
                                ![i].short = IF o.end = "short" THEN 1 ELSE 0]
              /\ UNCHANGED <<fd, write, an_curfds, conn>>
    BY <1>2, <1>4, <1>5, <1>10, Zenon DEF Takes
  <2>8. /\ handed' \in [Conns -> Seq(Seq(Byte))] /\ \A d \in Conns : d # c => handed'[d] = handed[d]
    <3>1. PICK h \in Seq(Seq(Byte)) : h = handed[c] \o o.handed
      <4>1. handed[c] \in Seq(Seq(Byte))
        BY <1>4, Zenon DEF Types
      <4>2. handed[c] \o o.handed \in Seq(Seq(Byte))
        BY <2>5, <4>1, SeqConcat
      <4> QED
        BY <4>2, Zenon
    <3>2. handed' = [handed EXCEPT ![c] = h]
      BY <2>7, <3>1, Zenon
    <3> QED
      BY <1>4, <3>2 DEF Types
  <2>9. revents' \in [Slots -> SUBSET {"IN", "OUT", "ERR"}]
    BY <2>7, EventsTyped, Zenon
  <2>10. conn[c] = "open"
    BY <1>2, <1>4, Zenon DEF IInv, Matches
  <2>11. \A d \in Conns : peer[d] = "idle" => d # c
    BY <1>4, <2>10 DEF Streams, Blank
  <2>12. \A s \in Slots : s # i /\ sock[s] # NoSock => fd[s] # c /\ fd[s] \in Conns
    <3>1. \A s \in Slots : sock[s] # NoSock => fd[s] # NoFd
      BY Zenon DEF IInv, Matches
    <3>2. \A s \in Slots : fd[s] # NoFd => fd[s] \in Conns
      BY Zenon DEF IInv, Shape
    <3>3. \A s \in Slots : fd[s] = fd[i] /\ fd[s] # NoFd => s = i
      BY <1>4, Zenon DEF IInv, Matches
    <3> QED
      BY <1>2, <3>1, <3>2, <3>3, Zenon
  <2>13. CASE an_sock_destory(i)
    <3>1. /\ sock' = [sock EXCEPT ![i] = NoSock] /\ write' = [write EXCEPT ![i] = FALSE]
          /\ sock'[i] = NoSock /\ \A s \in Slots : s # i => sock'[s] = sock[s] /\ fd'[s] = fd[s]
          /\ conn'[c] = "free" /\ \A d \in Conns : d # c => conn'[d] = conn[d]
      BY <1>2, <1>4, <2>13, DestroysFacts, Zenon
    <3>2. sock' \in [Slots -> Sock \cup {NoSock}] /\ write' \in [Slots -> BOOLEAN]
      BY <3>1, Zenon DEF Types
    <3>3. Types'
      BY <1>3, <1>8, <2>8, <2>9, <3>2, Zenon DEF Types
    <3>4. ASSUME NEW d \in Conns, peer'[d] = "idle" PROVE Blank(d)'
      BY <1>3, <1>4, <1>8, <2>8, <2>11, <3>1, <3>4, Zenon DEF Streams, Blank
    <3>5. ASSUME NEW d \in Conns, conn'[d] = "backlog"
          PROVE  Flows(packet'[d], <<>>, inbox'[d], left'[d])
      <4>1. d # c
        BY <3>1, <3>5
      <4> QED
        BY <1>3, <1>4, <1>8, <3>1, <3>5, <4>1, Zenon DEF Streams
    <3>6. ASSUME NEW s \in Slots, sock'[s] # NoSock, sock'[s].short = 0
          PROVE  Flows(packet'[fd'[s]], sock'[s].rcv, inbox'[fd'[s]], left'[fd'[s]])
      <4>1. s # i /\ sock'[s] = sock[s] /\ fd'[s] = fd[s] /\ fd[s] # c /\ fd[s] \in Conns
        BY <2>12, <3>1, <3>6, Zenon
      <4> QED
        BY <1>3, <1>4, <1>8, <3>6, <4>1, Zenon DEF Streams
    <3> QED
      BY <3>3, <3>4, <3>5, <3>6, Zenon DEF Streams
  <2>14. CASE /\ sock' = [sock EXCEPT ![i].rcv = o.rest,
                                ![i].short = IF o.end = "short" THEN 1 ELSE 0]
              /\ UNCHANGED <<fd, write, an_curfds, conn>>
    <3>1. PICK e \in Sock : /\ sock' = [sock EXCEPT ![i] = e] /\ e.rcv = o.rest
      <4>1. PICK sh \in 0..1 : sh = IF o.end = "short" THEN 1 ELSE 0
        BY SMT
      <4>2. Refill(k, o.rest, sh) \in Sock /\ Refill(k, o.rest, sh).rcv = o.rest
        BY <2>6, Refills, Zenon
      <4>3. sock' = [[sock EXCEPT ![i].rcv = o.rest] EXCEPT ![i].short = sh]
        BY <2>14, <4>1, Zenon
      <4>4. [sock EXCEPT ![i].rcv = o.rest] = [sock EXCEPT ![i] = [k EXCEPT !.rcv = o.rest]]
        BY <1>5, Zenon
      <4>5. sock' = [sock EXCEPT ![i] = Refill(k, o.rest, sh)]
        BY <1>4, <4>3, <4>4 DEF Types, Refill
      <4> QED
        BY <4>2, <4>5, Zenon
    <3>2. sock' \in [Slots -> Sock \cup {NoSock}]
      BY <3>1, Zenon DEF Types
    <3>3. sock'[i] = e /\ \A s \in Slots : s # i => sock'[s] = sock[s]
      BY <1>4, <3>1 DEF Types
    <3>4. Types'
      BY <1>3, <1>8, <2>8, <2>9, <2>14, <3>2, Zenon DEF Types
    <3>5. ASSUME NEW d \in Conns, peer'[d] = "idle" PROVE Blank(d)'
      BY <1>3, <1>4, <1>8, <2>8, <2>11, <2>14, <3>5, Zenon DEF Streams, Blank
    <3>6. ASSUME NEW d \in Conns, conn'[d] = "backlog"
          PROVE  Flows(packet'[d], <<>>, inbox'[d], left'[d])
      <4>1. d # c
        BY <2>10, <2>14, <3>6
      <4> QED
        BY <1>3, <1>4, <1>8, <2>14, <3>6, <4>1, Zenon DEF Streams
    <3>7. ASSUME NEW s \in Slots, sock'[s] # NoSock, sock'[s].short = 0
          PROVE  Flows(packet'[fd'[s]], sock'[s].rcv, inbox'[fd'[s]], left'[fd'[s]])
      <4>1. CASE s = i
        BY <1>2, <1>3, <1>8, <2>6, <2>14, <3>1, <3>3, <4>1, Zenon
      <4>2. CASE s # i
        <5>1. sock'[s] = sock[s] /\ fd'[s] = fd[s] /\ fd[s] # c /\ fd[s] \in Conns
          BY <2>12, <2>14, <3>3, <3>7, <4>2, Zenon
        <5> QED
          BY <1>3, <1>4, <1>8, <3>7, <5>1, Zenon DEF Streams
      <4> QED
        BY <4>1, <4>2, Zenon
    <3> QED
      BY <3>4, <3>5, <3>6, <3>7, Zenon DEF Streams
  <2> QED
    BY <2>7, <2>13, <2>14, Zenon
<1> QED
  BY <1>9, <1>10, Zenon

\* The steps that move no byte.
LEMMA AsideSteps ==
  ASSUME IInv, Types,
         \/ poll \/ accept_full \/ accept_fails \/ scan_skip \/ sigpipe
         \/ events_err \/ an_tcp_send \/ recv_fails
         \/ \E t \in tasks : worker_reply(t)
         \/ \E c \in Conns : toserver_timeout(c)
  PROVE  Types' /\ Aside
BY LooksAside, accept_full_Aside, ClosesAside, worker_reply_Aside, toserver_timeout_Aside, Zenon

\* The streams hold at the start.
LEMMA InitStreams == Init => Types /\ Streams
<1> SUFFICES ASSUME Init PROVE Types /\ Streams
  OBVIOUS
<1>1. <<>> \in Seq(Byte) /\ <<>> \in Seq(Seq(Byte))
  BY SeqEmpty
<1>2. write \in [Slots -> BOOLEAN] /\ revents \in [Slots -> SUBSET {"IN", "OUT", "ERR"}]
  BY DEF Init, an_poll_init, Quiet
<1>3. /\ sock \in [Slots -> Sock \cup {NoSock}] /\ \A s \in Slots : sock[s] = NoSock
      /\ left \in [Conns -> Seq(Byte)] /\ inbox \in [Conns -> Seq(Byte)]
      /\ packet \in [Conns -> Packets \cup {<<>>}] /\ handed \in [Conns -> Seq(Seq(Byte))]
      /\ got \in [Conns -> Conns \cup {NoReply}]
  BY <1>1, Zenon DEF Init
<1>4. peer \in [Conns -> {"idle", "sending", "waiting", "done", "gone", "reset"}]
  BY DEF Init
<1>5. \A c \in Conns : Blank(c) /\ conn[c] # "backlog"
  BY DEF Init, Blank
<1> QED
  BY <1>2, <1>3, <1>4, <1>5, Zenon DEF Types, Streams

\* Every step keeps them.
LEMMA NextStreams ==
  ASSUME Splits, IInv, Types, Streams, [Next]_vars
  PROVE  Types' /\ Streams'
<1>1. CASE Types' /\ Aside
  BY <1>1, AsideStreams, Zenon
<1>2. CASE \/ poll \/ accept_full \/ accept_fails \/ scan_skip \/ sigpipe
           \/ events_err \/ an_tcp_send \/ recv_fails
           \/ \E t \in tasks : worker_reply(t)
           \/ \E c \in Conns : toserver_timeout(c)
  BY <1>1, <1>2, AsideSteps, Zenon
<1>3. CASE accept \/ an_tcp_recv
  BY <1>3, accept_Streams, an_tcp_recv_Streams, Zenon
<1>4. CASE UNCHANGED vars
  <2>1. /\ UNCHANGED <<up, fd, write, sock, revents, conn, peer, left, packet, inbox, handed, got>>
    BY <1>4, Zenon DEF vars, table, clients
  <2>2. Types'
    BY <2>1, Zenon DEF Types
  <2>3. Streams'
    BY <2>1, Zenon DEF Streams, Blank
  <2> QED
    BY <2>2, <2>3, Zenon
<1>5. CASE \E c \in Conns : toserver_connect(c) \/ toserver_send(c) \/ toserver_return(c)
  BY <1>5, toserver_connect_Streams, toserver_send_Streams, toserver_return_Streams, Zenon
<1> QED
  BY <1>2, <1>3, <1>4, <1>5, Zenon DEF Next, Loop

-----------------------------------------------------------------------------
(* Framed packets are handed on whole and once. *)

\* Connection c with receive state k has handed on its packet, or waits for
\* the rest of it.
Due(c, k) ==
    /\ k.short = 0
    /\ \/ handed[c] # <<>> /\ k.rcv = <<>> /\ inbox[c] = <<>> /\ left[c] = <<>>
       \/ handed[c] = <<>> /\ Awaited(packet[c], k.rcv, inbox[c], left[c])

\* Every packet is handed on whole and once, or all of it is still to be
\* handed on.
Whole ==
    /\ PacketsIntact /\ up # "overrun"
    /\ \A c \in Conns : conn[c] = "backlog" =>
          handed[c] = <<>> /\ Awaited(packet[c], <<>>, inbox[c], left[c])
    /\ \A s \in Slots : sock[s] # NoSock => Due(fd[s], sock[s])

\* A step that moves no byte.
LEMMA AsideWhole ==
  ASSUME Whole, Aside, up' # "overrun"
  PROVE  Whole'
<1>1. PacketsIntact'
  BY Zenon DEF Whole, Aside, PacketsIntact
<1>2. ASSUME NEW c \in Conns, conn'[c] = "backlog"
      PROVE  handed'[c] = <<>> /\ Awaited(packet'[c], <<>>, inbox'[c], left'[c])
  BY <1>2 DEF Whole, Aside
<1>3. ASSUME NEW s \in Slots, sock'[s] # NoSock PROVE Due(fd[s], sock[s])'
  <2>1. /\ sock[s] # NoSock /\ fd'[s] = fd[s] /\ UNCHANGED <<packet, left, inbox, handed>>
        /\ sock'[s].rcv = sock[s].rcv /\ sock'[s].short = sock[s].short
    BY <1>3, Zenon DEF Aside
  <2>2. Due(fd[s], sock[s])
    BY <2>1, Zenon DEF Whole
  <2> QED
    BY <2>1, <2>2, Zenon DEF Due
<1> QED
  BY <1>1, <1>2, <1>3, Zenon DEF Whole

\* No byte of a connection has been read when it gets its slot.
LEMMA accept_Whole ==
  ASSUME IInv, Types, Whole, accept
  PROVE  Whole'
<1>1. PICK s \in Slots : an_sock_poll_add(Head(backlog), s)
  BY Zenon DEF accept
<1>2. backlog # <<>> /\ backlog \in Seq(Conns)
  BY Zenon DEF accept, IInv, Shape, Queued
<1>3. PICK c \in Conns : c = Head(backlog) /\ conn[c] = "backlog"
  <2>1. Head(backlog) \in Conns /\ Head(backlog) = backlog[1] /\ 1 \in 1..Len(backlog)
    BY <1>2
  <2> QED
    BY <2>1, Zenon DEF IInv, Queued
<1>4. /\ UNCHANGED <<up, left, packet, inbox, handed>> /\ up = "up"
      /\ fd' = [fd EXCEPT ![s] = c] /\ conn' = [conn EXCEPT ![c] = "open"] /\ fd[s] = NoFd
      /\ \/ sock' = [sock EXCEPT ![s] = [rcv |-> <<>>, short |-> 0, send |-> NoReply]]
         \/ sock' = sock
  BY <1>1, <1>3, Zenon DEF accept, an_sock_poll_add, an_socket_t_create, IsFirstFree, clients
<1>5. PICK k : k = [rcv |-> <<>>, short |-> 0, send |-> NoReply] /\ k.rcv = <<>> /\ k.short = 0
  <2>1. /\ [rcv |-> <<>>, short |-> 0, send |-> NoReply].rcv = <<>>
        /\ [rcv |-> <<>>, short |-> 0, send |-> NoReply].short = 0
    OBVIOUS
  <2> QED
    BY <2>1, Zenon
<1>6. /\ fd'[s] = c /\ \A t \in Slots : t # s => fd'[t] = fd[t] /\ sock'[t] = sock[t]
      /\ conn'[c] = "open" /\ \A d \in Conns : d # c => conn'[d] = conn[d]
      /\ sock'[s] = k \/ sock'[s] = sock[s]
  BY <1>4, <1>5 DEF IInv, Shape
<1>7. sock[s] = NoSock
  BY <1>4, Zenon DEF IInv, Matches
<1>8. PacketsIntact'
  BY <1>4, Zenon DEF Whole, PacketsIntact
<1>9. ASSUME NEW d \in Conns, conn'[d] = "backlog"
      PROVE  handed'[d] = <<>> /\ Awaited(packet'[d], <<>>, inbox'[d], left'[d])
  <2>1. conn[d] = "backlog"
    BY <1>6, <1>9
  <2> QED
    BY <1>4, <2>1, Zenon DEF Whole
<1>10. ASSUME NEW t \in Slots, sock'[t] # NoSock PROVE Due(fd[t], sock[t])'
  <2>1. CASE t = s
    <3>1. sock'[t] = k
      BY <1>6, <1>7, <1>10, <2>1, Zenon
    <3>2. handed[c] = <<>> /\ Awaited(packet[c], <<>>, inbox[c], left[c])
      BY <1>3, Zenon DEF Whole
    <3>3. Due(c, k)
      BY <1>5, <3>2, Zenon DEF Due
    <3> QED
      BY <1>4, <1>6, <2>1, <3>1, <3>3, Zenon DEF Due
  <2>2. CASE t # s
    <3>1. Due(fd[t], sock[t])
      BY <1>6, <1>10, <2>2, Zenon DEF Whole
    <3> QED
      BY <1>4, <1>6, <2>2, <3>1, Zenon DEF Due
  <2> QED
    BY <2>1, <2>2, Zenon
<1>11. up' # "overrun"
  BY <1>4
<1> QED
  BY <1>8, <1>9, <1>10, <1>11, Zenon DEF Whole

\* Of a new call nothing has been handed on.
LEMMA toserver_connect_Whole ==
  ASSUME Framing, IInv, Types, Streams, Whole, NEW c \in Conns, toserver_connect(c)
  PROVE  Whole'
<1>1. PICK p \in Packets : packet' = [packet EXCEPT ![c] = p] /\ left' = [left EXCEPT ![c] = p]
  BY Zenon DEF toserver_connect
<1>2. /\ up = "up" /\ up' = up /\ conn[c] = "free" /\ peer[c] = "idle"
      /\ conn' = [conn EXCEPT ![c] = "backlog"]
      /\ UNCHANGED <<table, inbox, handed>>
  BY Zenon DEF toserver_connect, Unused
<1>3. p \in Seq(Byte) /\ Len(p) > 1
  BY AnalyzerAssumption DEF Framing, Framed
<1>4. /\ packet'[c] = p /\ left'[c] = p
      /\ \A d \in Conns : d # c =>
            packet'[d] = packet[d] /\ left'[d] = left[d] /\ conn'[d] = conn[d]
  BY <1>1, <1>2 DEF Types, IInv, Shape
<1>5. inbox[c] = <<>> /\ handed[c] = <<>>
  BY <1>2, Zenon DEF Streams, Blank
<1>6. Awaited(p, <<>>, <<>>, p)
  <2>1. Len(p) \in Nat /\ 0 \in 0..Len(p) /\ 0 # 1 /\ 0 < Len(p) /\ 0 <= 0
    BY <1>3
  <2>2. <<>> = SubSeq(p, 1, 0) /\ <<>> = SubSeq(p, 0 + 1, 0) /\ p = SubSeq(p, 0 + 1, Len(p))
    BY <1>3
  <2> QED
    BY <2>1, <2>2, Zenon DEF Awaited
<1>7. PacketsIntact'
  <2> SUFFICES ASSUME NEW d \in Conns, handed'[d] # <<>> PROVE handed'[d] = <<Tail(packet'[d])>>
    BY Zenon DEF PacketsIntact
  <2>1. handed'[d] = handed[d] /\ d # c
    BY <1>2, <1>5
  <2> QED
    BY <1>4, <2>1, Zenon DEF Whole, PacketsIntact
<1>8. ASSUME NEW d \in Conns, conn'[d] = "backlog"
      PROVE  handed'[d] = <<>> /\ Awaited(packet'[d], <<>>, inbox'[d], left'[d])
  <2>1. CASE d = c
    BY <1>2, <1>4, <1>5, <1>6, <2>1, Zenon
  <2>2. CASE d # c
    BY <1>2, <1>4, <1>8, <2>2, Zenon DEF Whole
  <2> QED
    BY <2>1, <2>2, Zenon
<1>9. ASSUME NEW s \in Slots, sock'[s] # NoSock PROVE Due(fd[s], sock[s])'
  <2>1. sock' = sock /\ fd' = fd /\ inbox' = inbox /\ handed' = handed
    BY <1>2, Zenon DEF table
  <2>2. fd[s] \in Conns /\ fd[s] # c
    BY <1>2, <1>9, <2>1 DEF IInv, Shape, Matches
  <2>3. Due(fd[s], sock[s])
    BY <1>9, <2>1, Zenon DEF Whole
  <2> QED
    BY <1>4, <2>1, <2>2, <2>3, Zenon DEF Due
<1>10. up' # "overrun"
  BY <1>2
<1> QED
  BY <1>7, <1>8, <1>9, <1>10, Zenon DEF Whole

\* A call that has sent all of its packet sends no more; a first segment of
\* one byte would leave the server with the line feed alone.
LEMMA toserver_send_Whole ==
  ASSUME Framing, IInv, Types, Whole, NEW c \in Conns, toserver_send(c)
  PROVE  Whole'
<1>1. PICK n \in 1..Len(left[c]) :
        /\ left[c] = packet[c] => n >= FirstSegment
        /\ inbox' = [inbox EXCEPT ![c] = @ \o SubSeq(left[c], 1, n)]
        /\ left' = [left EXCEPT ![c] = SubSeq(@, n + 1, Len(@))]
  BY Zenon DEF toserver_send
<1>2. /\ up = "up" /\ up' = up /\ UNCHANGED <<table, conn, packet, handed>>
  BY Zenon DEF toserver_send
<1>3. left[c] \in Seq(Byte) /\ inbox[c] \in Seq(Byte) /\ packet[c] \in Seq(Byte)
  BY BytesTyped, Zenon
<1>4. left[c] # <<>> /\ (left[c] = packet[c] => n > 1)
  BY <1>1, <1>3, AnalyzerAssumption DEF Framing
<1>5. PICK x, l : x = inbox[c] \o SubSeq(left[c], 1, n) /\ l = SubSeq(left[c], n + 1, Len(left[c]))
  BY Zenon
<1>6. /\ inbox'[c] = x /\ left'[c] = l
      /\ \A d \in Conns : d # c => inbox'[d] = inbox[d] /\ left'[d] = left[d]
  BY <1>1, <1>5 DEF Types
<1>7. ASSUME NEW d \in Conns, NEW rcv, Awaited(packet[d], rcv, inbox[d], left[d])
      PROVE  Awaited(packet'[d], rcv, inbox'[d], left'[d])
  <2>1. CASE d = c
    <3>1. Awaited(packet[c], rcv, x, l)
      BY <1>3, <1>4, <1>5, <1>7, <2>1, AwaitedSend
    <3> QED
      BY <1>2, <1>6, <2>1, <3>1, Zenon
  <2>2. CASE d # c
    BY <1>2, <1>6, <1>7, <2>2, Zenon
  <2> QED
    BY <2>1, <2>2, Zenon
<1>8. PacketsIntact'
  BY <1>2, Zenon DEF Whole, PacketsIntact
<1>9. ASSUME NEW d \in Conns, conn'[d] = "backlog"
      PROVE  handed'[d] = <<>> /\ Awaited(packet'[d], <<>>, inbox'[d], left'[d])
  BY <1>2, <1>7, <1>9, Zenon DEF Whole
<1>10. ASSUME NEW s \in Slots, sock'[s] # NoSock PROVE Due(fd[s], sock[s])'
  <2>1. sock' = sock /\ fd' = fd /\ handed' = handed
    BY <1>2, Zenon DEF table
  <2>2. fd[s] \in Conns
    BY <1>10, <2>1 DEF IInv, Shape, Matches
  <2>3. Due(fd[s], sock[s])
    BY <1>10, <2>1, Zenon DEF Whole
  <2>4. CASE handed[fd[s]] # <<>>
    <3>1. fd[s] # c /\ sock[s].short = 0 /\ sock[s].rcv = <<>> /\ inbox[fd[s]] = <<>> /\ left[fd[s]] = <<>>
      BY <1>4, <2>3, <2>4, Zenon DEF Due
    <3> QED
      BY <1>6, <2>1, <2>2, <2>4, <3>1, Zenon DEF Due
  <2>5. CASE handed[fd[s]] = <<>>
    <3>1. sock[s].short = 0 /\ Awaited(packet[fd[s]], sock[s].rcv, inbox[fd[s]], left[fd[s]])
      BY <2>3, <2>5, Zenon DEF Due
    <3> QED
      BY <1>7, <2>1, <2>2, <2>5, <3>1, Zenon DEF Due
  <2> QED
    BY <2>4, <2>5, Zenon
<1>11. up' # "overrun"
  BY <1>2
<1> QED
  BY <1>8, <1>9, <1>10, <1>11, Zenon DEF Whole

\* A call that has returned has no slot.
LEMMA toserver_return_Whole ==
  ASSUME IInv, Types, Whole, NEW c \in Conns, toserver_return(c)
  PROVE  Whole'
<1>1. /\ up = "up" /\ up' = up /\ conn[c] = "free" /\ UNCHANGED <<table, conn>>
      /\ left' = [left EXCEPT ![c] = <<>>] /\ packet' = [packet EXCEPT ![c] = <<>>]
      /\ inbox' = [inbox EXCEPT ![c] = <<>>] /\ handed' = [handed EXCEPT ![c] = <<>>]
  BY Zenon DEF toserver_return
<1>2. /\ handed'[c] = <<>>
      /\ \A d \in Conns : d # c =>
           /\ packet'[d] = packet[d] /\ left'[d] = left[d] /\ inbox'[d] = inbox[d]
           /\ handed'[d] = handed[d]
  BY <1>1 DEF Types
<1>3. PacketsIntact'
  <2> SUFFICES ASSUME NEW d \in Conns, handed'[d] # <<>> PROVE handed'[d] = <<Tail(packet'[d])>>
    BY Zenon DEF PacketsIntact
  <2>1. d # c
    BY <1>2
  <2> QED
    BY <1>2, <2>1, Zenon DEF Whole, PacketsIntact
<1>4. ASSUME NEW d \in Conns, conn'[d] = "backlog"
      PROVE  handed'[d] = <<>> /\ Awaited(packet'[d], <<>>, inbox'[d], left'[d])
  <2>1. d # c
    BY <1>1, <1>4
  <2> QED
    BY <1>1, <1>2, <1>4, <2>1, Zenon DEF Whole
<1>5. ASSUME NEW s \in Slots, sock'[s] # NoSock PROVE Due(fd[s], sock[s])'
  <2>1. sock' = sock /\ fd' = fd
    BY <1>1, Zenon DEF table
  <2>2. fd[s] \in Conns /\ fd[s] # c
    BY <1>1, <1>5, <2>1 DEF IInv, Shape, Matches
  <2>3. Due(fd[s], sock[s])
    BY <1>5, <2>1, Zenon DEF Whole
  <2> QED
    BY <1>2, <2>1, <2>2, <2>3, Zenon DEF Due
<1>6. up' # "overrun"
  BY <1>1
<1> QED
  BY <1>3, <1>4, <1>5, <1>6, Zenon DEF Whole

\* What a receive of a framed packet comes to: either all of it so far stays
\* in the receive buffer, or the packet is complete and is handed on.
LEMMA RecvWhole ==
  ASSUME Splits, Framing, IInv, Types, Streams, Whole, an_tcp_recv
  PROVE  /\ i \in Slots /\ fd[i] \in Conns /\ up = "up" /\ pc = "scan" /\ up' = "up"
         /\ sock[i] # NoSock /\ handed[fd[i]] = <<>> /\ conn[fd[i]] = "open"
         /\ UNCHANGED <<backlog, peer, left, packet, got, fd, write, an_curfds, conn>> /\ NextSlot
         /\ \A d \in Conns : d # fd[i] => inbox'[d] = inbox[d] /\ handed'[d] = handed[d]
         /\ \E e \in Sock : /\ sock'[i] = e /\ e.send = sock[i].send
                            /\ \A s \in Slots : s = i => Due(fd[s], sock[s])'
                            /\ \A s \in Slots : s # i => sock'[s] = sock[s]
         /\ handed'[fd[i]] # <<>> => handed'[fd[i]] = <<Tail(packet[fd[i]])>>
         /\ \/ tasks' = tasks
            \/ handed'[fd[i]] # <<>> /\ tasks' = tasks \cup {[index |-> i, from |-> fd[i]]}
<1>1. PICK behind \in Behind : \E c, n, o :
           /\ c = fd[i]
           /\ n = IF Len(inbox[c]) < AN_TCP_BUF_LEN THEN Len(inbox[c]) ELSE AN_TCP_BUF_LEN
           /\ o = Split[sock[i].rcv \o SubSeq(inbox[c], 1, n)][behind]
           /\ Takes(c, n, o)
  BY RecvTakes, Zenon
<1>2. PICK c, n, o :
           /\ c = fd[i]
           /\ n = IF Len(inbox[c]) < AN_TCP_BUF_LEN THEN Len(inbox[c]) ELSE AN_TCP_BUF_LEN
           /\ o = Split[sock[i].rcv \o SubSeq(inbox[c], 1, n)][behind]
           /\ Takes(c, n, o)
  BY <1>1, Zenon
<1>3. /\ Readable /\ sock[i] # NoSock /\ inbox[c] # <<>>
      /\ UNCHANGED <<backlog, peer, left, packet, got>>
  BY <1>2, Zenon DEF an_tcp_recv, clients
<1>4. i \in Slots /\ c \in Conns /\ up = "up" /\ pc = "scan" /\ fd[i] # NoFd /\ conn[c] = "open"
  <2>1. i \in Slots /\ c \in Conns /\ up = "up" /\ pc = "scan" /\ fd[i] # NoFd
    BY <1>2, <1>3, Zenon DEF Readable, Scanning, IInv, Shape
  <2> QED
    BY <1>2, <2>1, Zenon DEF IInv, Matches
<1>5. PICK k \in Sock : k = sock[i]
  BY <1>3, <1>4, Zenon DEF Types
<1>6. k.short = 0 /\ handed[c] = <<>> /\ Awaited(packet[c], k.rcv, inbox[c], left[c])
  BY <1>2, <1>3, <1>4, <1>5, Zenon DEF Whole, Due
<1>7. packet[c] \in Seq(Byte) /\ inbox[c] \in Seq(Byte) /\ packet[c] \in Packets \cup {<<>>}
  BY <1>4, BytesTyped, Zenon
<1>8. AN_TCP_BUF_LEN \in Nat /\ AN_TCP_BUF_LEN > 1
  BY AnalyzerAssumption DEF Framing
<1>9. n \in 1..Len(inbox[c]) /\ (n = Len(inbox[c]) \/ n > 1)
  <2>1. Len(inbox[c]) \in Nat \ {0}
    BY <1>3, <1>7, SeqEmpty
  <2> QED
    BY <1>2, <1>8, <2>1, Shorter
<1>10. PICK x : x = SubSeq(inbox[c], n + 1, Len(inbox[c]))
  BY Zenon
<1>11. PICK m \in 2..Len(packet[c]) :
           /\ k.rcv \o SubSeq(inbox[c], 1, n) = SubSeq(packet[c], 1, m)
           /\ m < Len(packet[c]) => Awaited(packet[c], SubSeq(packet[c], 1, m), x, left[c])
           /\ m = Len(packet[c]) => x = <<>> /\ left[c] = <<>>
  <2>1. \E m \in 2..Len(packet[c]) :
          Reaches(packet[c], m, k.rcv \o SubSeq(inbox[c], 1, n),
                  SubSeq(inbox[c], n + 1, Len(inbox[c])), left[c])
    BY <1>6, <1>7, <1>9, AwaitedRecv, Zenon
  <2>2. PICK m \in 2..Len(packet[c]) : Reaches(packet[c], m, k.rcv \o SubSeq(inbox[c], 1, n), x, left[c])
    BY <1>10, <2>1, Zenon
  <2>3. /\ k.rcv \o SubSeq(inbox[c], 1, n) = SubSeq(packet[c], 1, m)
        /\ m < Len(packet[c]) => Awaited(packet[c], k.rcv \o SubSeq(inbox[c], 1, n), x, left[c])
        /\ m = Len(packet[c]) => x = <<>> /\ left[c] = <<>>
    BY <2>2, Zenon DEF Reaches
  <2>4. m < Len(packet[c]) => Awaited(packet[c], SubSeq(packet[c], 1, m), x, left[c])
    BY <2>3, Zenon
  <2> QED
    BY <2>3, <2>4, Zenon
<1>12. m < Len(packet[c]) \/ m = Len(packet[c])
  BY <1>7
<1>13. packet[c] \in Packets /\ Framed(packet[c])
  <2>1. packet[c] # <<>>
    BY <1>11, <1>7
  <2> QED
    BY <1>7, <2>1, Zenon DEF Framing
<1>14. behind \in Byte /\ behind # "nl" /\ Brace(behind) \in 0..1
  <2>1. behind \in Byte
    BY AnalyzerAssumption, Zenon
  <2>2. behind # "nl" /\ Brace(behind) # -1
    BY Zenon DEF Framing
  <2>3. Brace(behind) \in {-1, 0, 1}
    BY Zenon DEF Brace
  <2> QED
    BY <2>1, <2>2, <2>3
<1>15. o = an_split_rcv_buf_to_json(SubSeq(packet[c], 1, m), behind)
  <2>1. k.rcv \o SubSeq(inbox[c], 1, n) \in Parts
    BY <1>2, <1>3, <1>4, <1>5, <1>6, <1>9, RecvFlows, Zenon
  <2> QED
    BY <1>2, <1>5, <1>11, <2>1, SplitIs, Zenon
<1>16. /\ o.end = "wait"
       /\ m < Len(packet[c]) => o.rest = SubSeq(packet[c], 1, m) /\ o.handed = <<>>
       /\ m = Len(packet[c]) => o.rest = <<>> /\ o.handed = <<Tail(packet[c])>>
  <2>1. Delivers(packet[c], m, an_split_rcv_buf_to_json(SubSeq(packet[c], 1, m), behind))
    BY <1>7, <1>13, <1>14, Zenon DEF Splits
  <2>2. Delivers(packet[c], m, o)
    BY <1>15, <2>1, Zenon
  <2> QED
    BY <2>2, Zenon DEF Delivers
<1>17. /\ k.short # 1 /\ o.end # "crash" /\ o.end # "fail" /\ o.end # "short"
  BY <1>6, <1>16
<1>18. /\ inbox' = [inbox EXCEPT ![c] = SubSeq(@, n + 1, Len(@))]
       /\ handed' = [handed EXCEPT ![c] = @ \o o.handed] /\ al_allocate_task(c, o.handed)
       /\ sock' = [sock EXCEPT ![i].rcv = o.rest,
                               ![i].short = IF o.end = "short" THEN 1 ELSE 0]
       /\ UNCHANGED <<fd, write, an_curfds, conn>>
       /\ NextSlot /\ up' = up
  BY <1>2, <1>5, <1>17, Zenon DEF Takes
<1>19. /\ inbox'[c] = x /\ handed'[c] = handed[c] \o o.handed
       /\ \A d \in Conns : d # c => inbox'[d] = inbox[d] /\ handed'[d] = handed[d]
  BY <1>4, <1>10, <1>18 DEF Types
<1>20. /\ m < Len(packet[c]) => handed'[c] = <<>>
       /\ m = Len(packet[c]) => handed'[c] = <<Tail(packet[c])>> /\ handed'[c] # <<>>
  <2>1. <<>> \o <<>> = <<>> /\ \A z : <<>> \o <<z>> = <<z>> /\ <<z>> # <<>>
    OBVIOUS
  <2> QED
    BY <1>6, <1>16, <1>19, <2>1, Zenon
<1>21. PICK rest \in Seq(Byte) : rest = o.rest
  <2>1. SubSeq(packet[c], 1, m) \in Seq(Byte) /\ <<>> \in Seq(Byte)
    BY <1>7
  <2> QED
    BY <1>12, <1>16, <2>1, Zenon
<1>22. Refill(k, rest, 0) \in Sock /\ Refill(k, rest, 0).rcv = rest
       /\ Refill(k, rest, 0).short = 0 /\ Refill(k, rest, 0).send = k.send
  <2>1. PICK sh \in 0..1 : sh = 0
    OBVIOUS
  <2>2. Refill(k, rest, sh) \in Sock /\ Refill(k, rest, sh).rcv = rest
        /\ Refill(k, rest, sh).short = sh /\ Refill(k, rest, sh).send = k.send
    BY Refills
  <2> QED
    BY <2>1, <2>2, Zenon
<1>23. sock' = [sock EXCEPT ![i] = Refill(k, rest, 0)]
  <2>1. sock' = [[sock EXCEPT ![i].rcv = rest] EXCEPT ![i].short = 0]
    BY <1>17, <1>18, <1>21, Zenon
  <2>2. [sock EXCEPT ![i].rcv = rest] = [sock EXCEPT ![i] = [k EXCEPT !.rcv = rest]]
    BY <1>5, Zenon
  <2> QED
    BY <1>4, <2>1, <2>2 DEF Types, Refill
<1>24. PICK e \in Sock : e = Refill(k, rest, 0) /\ e.rcv = o.rest /\ e.short = 0 /\ e.send = sock[i].send
  BY <1>5, <1>21, <1>22, Zenon
<1>25. sock'[i] = e /\ \A s \in Slots : s # i => sock'[s] = sock[s]
  BY <1>4, <1>23, <1>24 DEF Types
<1>26. Due(c, e)'
  <2>1. left'[c] = left[c] /\ packet'[c] = packet[c] /\ e.short = 0 /\ e.rcv = o.rest
    BY <1>3, <1>24, Zenon
  <2>2. CASE m < Len(packet[c])
    <3>1. handed'[c] = <<>> /\ Awaited(packet'[c], e.rcv, inbox'[c], left'[c])
      BY <1>11, <1>16, <1>19, <1>20, <2>1, <2>2, Zenon
    <3> QED
      BY <2>1, <3>1, Zenon DEF Due
  <2>3. CASE m = Len(packet[c])
    <3>1. handed'[c] # <<>> /\ e.rcv = <<>> /\ inbox'[c] = <<>> /\ left'[c] = <<>>
      BY <1>11, <1>16, <1>19, <1>20, <2>1, <2>3, Zenon
    <3> QED
      BY <2>1, <3>1, Zenon DEF Due
  <2> QED
    BY <1>12, <2>2, <2>3, Zenon
<1>27. handed'[c] # <<>> => handed'[c] = <<Tail(packet[c])>>
  BY <1>12, <1>20, Zenon
<1>28. \/ tasks' = tasks
       \/ handed'[c] # <<>> /\ tasks' = tasks \cup {[index |-> i, from |-> c]}
  <2>1. PICK N \in SUBSET DOMAIN o.handed :
          tasks' = tasks \/ tasks' = tasks \cup {[index |-> i, from |-> c] : j \in N}
    BY <1>18, Zenon DEF al_allocate_task
  <2>2. CASE N = {}
    <3>1. {[index |-> i, from |-> c] : j \in {}} = {}
      BY Zenon
    <3> QED
      BY <2>1, <2>2, <3>1, Zenon
  <2>3. CASE N # {}
    <3>1. {[index |-> i, from |-> c] : j \in N} = {[index |-> i, from |-> c]}
      BY <2>3, Zenon
    <3>2. m = Len(packet[c])
      <4>1. o.handed # <<>>
        <5>1. DOMAIN <<>> = {}
          OBVIOUS
        <5> QED
          BY <2>1, <2>3, <5>1, Zenon
      <4> QED
        BY <1>12, <1>16, <4>1, Zenon
    <3> QED
      BY <1>20, <2>1, <3>1, <3>2, Zenon
  <2> QED
    BY <2>2, <2>3, Zenon
<1>29. \E f \in Sock : /\ sock'[i] = f /\ f.send = sock[i].send
                       /\ \A s \in Slots : s = i => Due(fd[s], sock[s])'
                       /\ \A s \in Slots : s # i => sock'[s] = sock[s]
  <2>1. fd'[i] = c
    BY <1>2, <1>18, Zenon
  <2>2. \A s \in Slots : s = i => Due(fd[s], sock[s])'
    BY <1>25, <1>26, <2>1, Zenon DEF Due
  <2> QED
    BY <1>24, <1>25, <2>2, Zenon
<1>30. up' = "up"
  BY <1>4, <1>18, Zenon
<1> QED
  BY <1>2, <1>3, <1>4, <1>6, <1>18, <1>19, <1>27, <1>28, <1>29, <1>30, Zenon

\* an_tcp_recv hands on the packet it completes.
LEMMA an_tcp_recv_Whole ==
  ASSUME Splits, Framing, IInv, Types, Streams, Whole, an_tcp_recv
  PROVE  Whole'
<1>1. /\ i \in Slots /\ fd[i] \in Conns /\ up' = "up" /\ conn[fd[i]] = "open"
      /\ UNCHANGED <<left, packet, fd, conn>>
      /\ \A d \in Conns : d # fd[i] => inbox'[d] = inbox[d] /\ handed'[d] = handed[d]
      /\ \E e \in Sock : /\ sock'[i] = e /\ (\A s \in Slots : s = i => Due(fd[s], sock[s])')
                         /\ \A s \in Slots : s # i => sock'[s] = sock[s]
      /\ handed'[fd[i]] # <<>> => handed'[fd[i]] = <<Tail(packet[fd[i]])>>
  BY RecvWhole, Zenon
<1>2. PICK e \in Sock : /\ sock'[i] = e /\ (\A s \in Slots : s = i => Due(fd[s], sock[s])')
                        /\ \A s \in Slots : s # i => sock'[s] = sock[s]
  BY <1>1, Zenon
<1>3. PacketsIntact'
  BY <1>1, Zenon DEF Whole, PacketsIntact
<1>4. ASSUME NEW d \in Conns, conn'[d] = "backlog"
      PROVE  handed'[d] = <<>> /\ Awaited(packet'[d], <<>>, inbox'[d], left'[d])
  <2>1. d # fd[i]
    BY <1>1, <1>4
  <2> QED
    BY <1>1, <1>4, <2>1, Zenon DEF Whole
<1>5. ASSUME NEW s \in Slots, sock'[s] # NoSock PROVE Due(fd[s], sock[s])'
  <2>1. CASE s = i
    BY <1>2, <2>1, Zenon
  <2>2. CASE s # i
    <3>1. sock'[s] = sock[s] /\ fd'[s] = fd[s] /\ Due(fd[s], sock[s])
      BY <1>1, <1>2, <1>5, <2>2, Zenon DEF Whole
    <3>2. fd[s] \in Conns /\ fd[s] # fd[i]
      <4>1. fd[s] # NoFd
        BY <1>5, <3>1, Zenon DEF IInv, Matches
      <4>2. fd[s] \in Conns
        BY <4>1, Zenon DEF IInv, Shape
      <4> QED
        BY <1>1, <2>2, <4>1, <4>2, Zenon DEF IInv, Matches
    <3> QED
      BY <1>1, <3>1, <3>2, Zenon DEF Due
  <2> QED
    BY <2>1, <2>2, Zenon
<1>6. up' # "overrun"
  BY <1>1
<1> QED
  BY <1>3, <1>4, <1>5, <1>6, Zenon DEF Whole

\* Nothing has been sent at the start.
LEMMA InitWhole == Init => Whole
<1> SUFFICES ASSUME Init PROVE Whole
  OBVIOUS
<1>1. \A c \in Conns : handed[c] = <<>> /\ conn[c] # "backlog"
  BY DEF Init
<1>2. \A s \in Slots : sock[s] = NoSock
  BY Zenon DEF Init
<1>3. up # "overrun"
  BY DEF Init
<1> QED
  BY <1>1, <1>2, <1>3, Zenon DEF Whole, PacketsIntact

\* Every step keeps the packets whole.
LEMMA NextWhole ==
  ASSUME Splits, Framing, IInv, Types, Streams, Whole, [Next]_vars
  PROVE  Whole'
<1>1. CASE \/ poll \/ accept_full \/ accept_fails \/ scan_skip \/ sigpipe
           \/ events_err \/ an_tcp_send \/ recv_fails
           \/ \E t \in tasks : worker_reply(t)
           \/ \E c \in Conns : toserver_timeout(c)
  <2>1. up' \in {"up", "exit", "dead"}
    <3>1. up = "up" /\ (up' = up \/ up' = "exit" \/ up' = "dead")
      BY <1>1, Zenon DEF poll, accept_full, accept_fails, scan_skip, sigpipe, events_err, an_tcp_send,
         recv_fails, worker_reply, toserver_timeout, Scanning, Readable
    <3> QED
      BY <3>1
  <2>2. up' # "overrun"
    BY <2>1
  <2> QED
    BY <1>1, <2>2, AsideSteps, AsideWhole, Zenon
<1>2. CASE accept \/ an_tcp_recv
  BY <1>2, accept_Whole, an_tcp_recv_Whole, Zenon
<1>3. CASE \E c \in Conns : toserver_connect(c) \/ toserver_send(c) \/ toserver_return(c)
  BY <1>3, toserver_connect_Whole, toserver_send_Whole, toserver_return_Whole, Zenon
<1>4. CASE UNCHANGED vars
  <2>1. /\ UNCHANGED <<up, fd, sock, conn, left, packet, inbox, handed>>
    BY <1>4, Zenon DEF vars, table, clients
  <2> QED
    BY <2>1, Zenon DEF Whole, PacketsIntact, Due
<1> QED
  BY <1>1, <1>2, <1>3, <1>4, Zenon DEF Next, Loop

-----------------------------------------------------------------------------
(* Replies. *)

\* A call that waits for its answer.
Live(c) == peer[c] \in {"sending", "waiting"}

\* A task of a call that waits finds that call in the slot it remembers; the
\* send buffer of a slot holds the reply of the call in that slot or of one
\* that has given up; and POLLOUT is asked for, and seen, only with a reply.
Askers == up = "up" =>
    /\ \A t \in tasks : Live(t.from) =>
          fd[t.index] = t.from /\ sock[t.index] # NoSock /\ handed[t.from] # <<>>
    /\ \A s \in Slots : sock[s] # NoSock /\ sock[s].send # NoReply /\ sock[s].send # fd[s] =>
          ~Live(sock[s].send)
    /\ \A s \in Slots : write[s] => sock[s] # NoSock /\ sock[s].send # NoReply
    /\ \A s \in Slots : pc # "poll" /\ i <= s /\ "OUT" \in revents[s] /\ fd[s] # NoFd => write[s]

\* POLLOUT is seen of no slot that it was not seen of before.
Seen == \A s \in Slots : pc' # "poll" /\ i' <= s /\ "OUT" \in revents'[s] =>
                             pc # "poll" /\ i <= s /\ "OUT" \in revents[s]

\* A step after which no call waits that did not wait before, and which leaves
\* the slots of those with a task alone.
Keeps ==
    /\ up = "up" /\ Seen /\ tasks' \subseteq tasks
    /\ \A c \in Conns : Live(c)' => Live(c) /\ handed'[c] = handed[c]
    /\ \A t \in tasks : Live(t.from)' => fd'[t.index] = fd[t.index] /\ sock'[t.index] = sock[t.index]
    /\ \A s \in Slots : \/ fd'[s] = fd[s] /\ sock'[s] = sock[s] /\ write'[s] = write[s]
                        \/ fd'[s] = NoFd /\ sock'[s] = NoSock /\ write'[s] = FALSE
    /\ \A c \in Conns : got'[c] = got[c] \/ got'[c] = NoReply

\* Such a step keeps the invariant.
LEMMA KeepsAskers ==
  ASSUME IInv, Types, Askers, StrayRepliesAreLate, Keeps
  PROVE  Askers' /\ StrayRepliesAreLate'
<1>1. ASSUME NEW t \in tasks', Live(t.from)'
      PROVE  fd'[t.index] = t.from /\ sock'[t.index] # NoSock /\ handed'[t.from] # <<>>
  <2>1. t \in tasks /\ t.from \in Conns
    BY DEF Keeps, IInv, Shape
  <2> QED
    BY <1>1, <2>1, Zenon DEF Keeps, Askers
<1>2. ASSUME NEW s \in Slots, sock'[s] # NoSock, sock'[s].send # NoReply, sock'[s].send # fd'[s],
             Live(sock[s].send)'
      PROVE  FALSE
  <2>1. sock'[s] = sock[s] /\ fd'[s] = fd[s]
    BY <1>2, Zenon DEF Keeps
  <2>2. sock[s] \in Sock
    BY <1>2, <2>1, Zenon DEF Types
  <2>3. sock[s].send \in Conns
    BY <1>2, <2>1, <2>2 DEF Sock
  <2>4. Live(sock[s].send)
    BY <1>2, <2>1, <2>3, Zenon DEF Keeps, Live
  <2> QED
    BY <1>2, <2>1, <2>4, Zenon DEF Keeps, Askers
<1>3. ASSUME NEW s \in Slots, write'[s] PROVE sock'[s] # NoSock /\ sock'[s].send # NoReply
  BY <1>3, Zenon DEF Keeps, Askers
<1>4. ASSUME NEW s \in Slots, pc' # "poll", i' <= s, "OUT" \in revents'[s], fd'[s] # NoFd
      PROVE  write'[s]
  BY <1>4, Zenon DEF Keeps, Seen, Askers
<1>5. ASSUME NEW c \in Conns, got'[c] \notin {c, NoReply}
      PROVE  peer'[got'[c]] \notin {"sending", "waiting"}
  <2>1. got'[c] = got[c] /\ got[c] \notin {c, NoReply} /\ got[c] \in Conns
    BY <1>5 DEF Keeps, Types
  <2> QED
    BY <2>1, Zenon DEF Keeps, Live, StrayRepliesAreLate
<1>6. Askers'
  BY <1>1, <1>2, <1>3, <1>4, Zenon DEF Askers
<1>7. StrayRepliesAreLate'
  BY <1>5, Zenon DEF StrayRepliesAreLate
<1> QED
  BY <1>6, <1>7, Zenon

\* The scan goes forward.
LEMMA SlotsSeen ==
  ASSUME IInv, pc = "scan", PassOver \/ NextSlot \/ UNCHANGED <<pc, i, revents>>
  PROVE  Seen
<1>1. \/ pc' = "poll"
      \/ pc' = pc /\ revents' = revents /\ (i' = i \/ i' = i + 1)
  BY Zenon DEF NextSlot, PassOver
<1>2. i \in Int
  BY DEF IInv, Shape, Slots
<1>3. pc # "poll" /\ (pc' # "poll" => \A s \in Slots : i' <= s => i <= s)
  BY <1>1, <1>2, AnalyzerAssumption DEF Slots
<1> QED
  BY <1>1, <1>3, Zenon DEF Seen

\* The steps that leave the table, the tasks and the replies alone.
LEMMA StaysAskers ==
  ASSUME IInv, Types, Askers, StrayRepliesAreLate,
         \/ accept_full \/ accept_fails \/ scan_skip \/ sigpipe
         \/ \E c \in Conns : toserver_timeout(c) \/ toserver_send(c) \/ toserver_return(c)
  PROVE  Askers' /\ StrayRepliesAreLate'
<1>1. up = "up" /\ UNCHANGED <<fd, write, sock, tasks>>
  BY Zenon DEF accept_full, accept_fails, scan_skip, sigpipe, toserver_timeout, toserver_send,
     toserver_return, table, Scanning
<1>2. Seen
  <2>1. CASE accept_full
    BY <2>1, Zenon DEF accept_full, PassOver, Seen
  <2>2. CASE accept_fails
    <3>1. PassOver \/ (pc = "accept" /\ pc' = "scan" /\ UNCHANGED <<i, revents>>)
      BY <2>2, Zenon DEF accept_fails
    <3>2. pc' = "poll" \/ (pc # "poll" /\ UNCHANGED <<i, revents>>)
      BY <3>1 DEF PassOver
    <3> QED
      BY <3>2, Zenon DEF Seen
  <2>3. CASE scan_skip \/ sigpipe
    BY <2>3, SlotsSeen, Zenon DEF scan_skip, sigpipe, Scanning
  <2>4. CASE \E c \in Conns : toserver_timeout(c) \/ toserver_send(c) \/ toserver_return(c)
    <3>1. UNCHANGED <<pc, i, revents>>
      BY <2>4, Zenon DEF toserver_timeout, toserver_send, toserver_return
    <3> QED
      BY <3>1, Zenon DEF Seen
  <2> QED
    BY <2>1, <2>2, <2>3, <2>4, Zenon
<1>3. CASE accept_full \/ accept_fails \/ scan_skip \/ sigpipe
  <2>1. UNCHANGED <<peer, handed, got>>
    BY <1>3, Zenon DEF accept_full, accept_fails, scan_skip, sigpipe, clients
  <2>2. Keeps
    BY <1>1, <1>2, <2>1, Zenon DEF Keeps, Live
  <2> QED
    BY <2>2, KeepsAskers, Zenon
<1>4. ASSUME NEW c \in Conns, toserver_timeout(c) \/ toserver_send(c) \/ toserver_return(c)
      PROVE  Keeps
  <2>1. \A d \in Conns : d # c => peer'[d] = peer[d] /\ handed'[d] = handed[d] /\ got'[d] = got[d]
    <3>1. CASE toserver_timeout(c)
      BY <3>1 DEF toserver_timeout, Types
    <3>2. CASE toserver_send(c)
      BY <3>2 DEF toserver_send, Types
    <3>3. CASE toserver_return(c)
      <4>1. /\ peer' = [peer EXCEPT ![c] = "idle"] /\ handed' = [handed EXCEPT ![c] = <<>>]
            /\ got' = [got EXCEPT ![c] = NoReply]
        BY <3>3, Zenon DEF toserver_return
      <4> QED
        BY <4>1 DEF Types
    <3> QED
      BY <1>4, <3>1, <3>2, <3>3, Zenon
  <2>2. /\ Live(c)' => Live(c) /\ handed'[c] = handed[c]
        /\ got'[c] = got[c] \/ got'[c] = NoReply
    <3>1. CASE toserver_timeout(c)
      BY <3>1 DEF toserver_timeout, Types, Live
    <3>2. CASE toserver_send(c)
      BY <3>2 DEF toserver_send, Types, Live
    <3>3. CASE toserver_return(c)
      <4>1. peer'[c] = "idle" /\ got'[c] = NoReply
        <5>1. peer' = [peer EXCEPT ![c] = "idle"] /\ got' = [got EXCEPT ![c] = NoReply]
          BY <3>3, Zenon DEF toserver_return
        <5>2. DOMAIN peer = Conns /\ DOMAIN got = Conns
          BY Zenon DEF Types
        <5> QED
          BY <5>1, <5>2
      <4> QED
        BY <4>1 DEF Live
    <3> QED
      BY <1>4, <3>1, <3>2, <3>3, Zenon
  <2>3. \A d \in Conns : /\ Live(d)' => Live(d) /\ handed'[d] = handed[d]
                         /\ got'[d] = got[d] \/ got'[d] = NoReply
    BY <2>1, <2>2, Zenon DEF Live
  <2> QED
    BY <1>1, <1>2, <2>3, Zenon DEF Keeps
<1> QED
  BY <1>3, <1>4, KeepsAskers, Zenon

\* poll reports POLLOUT where it is asked for.
LEMMA poll_Askers ==
  ASSUME IInv, Types, Askers, StrayRepliesAreLate, poll
  PROVE  Askers' /\ StrayRepliesAreLate'
<1>1. /\ up = "up" /\ up' = up /\ UNCHANGED <<fd, write, sock, tasks, peer, handed, got>>
      /\ revents' = [s \in Slots |-> IF s >= an_curfds \/ fd[s] = NoFd THEN {} ELSE Ready(s)]
  BY Zenon DEF poll, table, clients
<1>2. ASSUME NEW s \in Slots, "OUT" \in revents'[s] PROVE write'[s]
  <2>1. "OUT" \in Ready(s)
    BY <1>1, <1>2, Zenon
  <2> QED
    BY <1>1, <2>1 DEF Ready
<1>3. Askers'
  BY <1>1, <1>2, Zenon DEF Askers, Live
<1> QED
  BY <1>1, <1>3, Zenon DEF StrayRepliesAreLate

\* A slot that is taken has no reply and no task of a call that waits.
LEMMA accept_Askers ==
  ASSUME IInv, Types, Askers, StrayRepliesAreLate, accept
  PROVE  Askers' /\ StrayRepliesAreLate'
<1>1. PICK s \in Slots : an_sock_poll_add(Head(backlog), s)
  BY Zenon DEF accept
<1>2. /\ up = "up" /\ up' = up /\ pc = "accept" /\ UNCHANGED <<write, tasks, peer, handed, got>>
      /\ fd' = [fd EXCEPT ![s] = Head(backlog)] /\ fd[s] = NoFd
      /\ \/ sock' = [sock EXCEPT ![s] = [rcv |-> <<>>, short |-> 0, send |-> NoReply]]
            /\ revents' = [revents EXCEPT ![s] = {"IN"}] /\ i' = i
         \/ sock' = sock /\ pc' = "poll"
  BY <1>1, Zenon DEF accept, an_sock_poll_add, an_socket_t_create, PassOver, IsFirstFree, clients
<1>3. sock[s] = NoSock
  BY <1>2, Zenon DEF IInv, Matches
<1>4. /\ \A t \in Slots : t # s => fd'[t] = fd[t] /\ sock'[t] = sock[t]
      /\ sock'[s] # NoSock => sock'[s].send = NoReply
      /\ pc' # "poll" => i' = i /\ "OUT" \notin revents'[s]
                         /\ \A t \in Slots : t # s => revents'[t] = revents[t]
  <2>1. /\ fd \in [Slots -> Conns \cup {NoFd}] /\ DOMAIN sock = Slots
        /\ revents \in [Slots -> SUBSET {"IN", "OUT", "ERR"}]
    BY Zenon DEF IInv, Shape, Types
  <2>2. \A t \in Slots : t # s => fd'[t] = fd[t]
    BY <1>2, <2>1
  <2>3. CASE sock' = sock /\ pc' = "poll"
    BY <1>3, <2>2, <2>3, Zenon
  <2>4. CASE /\ sock' = [sock EXCEPT ![s] = [rcv |-> <<>>, short |-> 0, send |-> NoReply]]
             /\ revents' = [revents EXCEPT ![s] = {"IN"}] /\ i' = i
    <3>1. \A t \in Slots : t # s => sock'[t] = sock[t]
      BY <2>1, <2>4
    <3>2. sock'[s].send = NoReply
      BY <2>1, <2>4
    <3>3. "OUT" \notin revents'[s] /\ \A t \in Slots : t # s => revents'[t] = revents[t]
      BY <2>1, <2>4
    <3> QED
      BY <2>2, <2>4, <3>1, <3>2, <3>3, Zenon
  <2> QED
    BY <1>2, <2>3, <2>4, Zenon
<1>5. ~write[s]
  BY <1>2, <1>3, Zenon DEF Askers
<1>6. ASSUME NEW t \in tasks', Live(t.from)'
      PROVE  fd'[t.index] = t.from /\ sock'[t.index] # NoSock /\ handed'[t.from] # <<>>
  <2>1. t.index \in Slots /\ t.from \in Conns
    BY <1>2 DEF IInv, Shape
  <2>2. fd[t.index] = t.from /\ sock[t.index] # NoSock /\ handed[t.from] # <<>>
    BY <1>2, <1>6, Zenon DEF Askers, Live
  <2> QED
    BY <1>2, <1>3, <1>4, <2>1, <2>2, Zenon
<1>7. ASSUME NEW t \in Slots, sock'[t] # NoSock, sock'[t].send # NoReply, sock'[t].send # fd'[t]
      PROVE  ~Live(sock[t].send)'
  BY <1>2, <1>4, <1>7, Zenon DEF Askers, Live
<1>8. ASSUME NEW t \in Slots, write'[t] PROVE sock'[t] # NoSock /\ sock'[t].send # NoReply
  BY <1>2, <1>4, <1>5, <1>8, Zenon DEF Askers
<1>9. ASSUME NEW t \in Slots, pc' # "poll", i' <= t, "OUT" \in revents'[t], fd'[t] # NoFd
      PROVE  write'[t]
  <2>1. t # s /\ pc # "poll"
    BY <1>2, <1>4, <1>9
  <2> QED
    BY <1>2, <1>4, <1>9, <2>1, Zenon DEF Askers
<1>10. Askers'
  BY <1>6, <1>7, <1>8, <1>9, Zenon DEF Askers
<1> QED
  BY <1>2, <1>10, Zenon DEF StrayRepliesAreLate

\* A connection whose call still waits for an answer is closed unanswered only
\* before its packet was complete, and then it has no task.
LEMMA ClosesAskers ==
  ASSUME IInv, Types, Whole, Askers, StrayRepliesAreLate, events_err \/ recv_fails
  PROVE  Askers' /\ StrayRepliesAreLate'
<1>1. /\ up = "up" /\ pc = "scan" /\ fd[i] # NoFd /\ an_sock_destory(i)
      /\ UNCHANGED <<tasks, peer, handed, got>>
  BY Zenon DEF events_err, recv_fails, Readable, Scanning, clients
<1>2. /\ i \in Slots /\ fd[i] \in Conns
      /\ fd' = [fd EXCEPT ![i] = NoFd] /\ write' = [write EXCEPT ![i] = FALSE]
      /\ sock'[i] = NoSock /\ \A s \in Slots : s # i => sock'[s] = sock[s] /\ fd'[s] = fd[s]
  BY <1>1, DestroysFacts, Zenon
<1>3. CASE events_err
  <2>1. up' # "up"
    BY <1>3 DEF events_err
  <2> QED
    BY <1>1, <2>1, Zenon DEF Askers, StrayRepliesAreLate
<1>4. CASE recv_fails
  <2>1. Seen
    BY <1>1, <1>4, SlotsSeen, Zenon DEF recv_fails
  <2>2. \A s \in Slots : \/ fd'[s] = fd[s] /\ sock'[s] = sock[s] /\ write'[s] = write[s]
                         \/ fd'[s] = NoFd /\ sock'[s] = NoSock /\ write'[s] = FALSE
    BY <1>2 DEF IInv, Shape, Types
  <2>3. ASSUME NEW t \in tasks, Live(t.from)' PROVE t.index \in Slots /\ t.index # i
    <3>1. t.index \in Slots /\ t.from \in Conns
      BY DEF IInv, Shape
    <3>2. /\ Live(t.from) /\ fd[t.index] = t.from /\ sock[t.index] # NoSock
          /\ handed[t.from] # <<>>
      BY <1>1, <2>3, Zenon DEF Askers, Live
    <3>3. Due(fd[t.index], sock[t.index])
      BY <3>1, <3>2, Zenon DEF Whole
    <3>4. inbox[t.from] = <<>>
      BY <3>2, <3>3, Zenon DEF Due
    <3>5. ~Over(t.from) /\ peer[t.from] # "reset"
      BY <3>2 DEF Live, Over
    <3> QED
      BY <1>4, <3>1, <3>2, <3>4, <3>5, Zenon DEF recv_fails
  <2>4. Keeps
    BY <1>1, <1>2, <2>1, <2>2, <2>3, Zenon DEF Keeps, Live
  <2> QED
    BY <2>4, KeepsAskers, Zenon
<1> QED
  BY <1>3, <1>4, Zenon

\* POLLOUT is seen only with a reply in the send buffer: the call in the slot
\* gets it, or has given up.
LEMMA an_tcp_send_Askers ==
  ASSUME IInv, Types, Askers, StrayRepliesAreLate, an_tcp_send
  PROVE  Askers' /\ StrayRepliesAreLate'
<1>1. /\ up = "up" /\ pc = "scan" /\ fd[i] # NoFd /\ an_sock_destory(i) /\ "OUT" \in revents[i]
      /\ UNCHANGED <<up, tasks, handed>> /\ NextSlot
  BY Zenon DEF an_tcp_send, Scanning
<1>2. /\ i \in Slots /\ fd[i] \in Conns
      /\ fd' = [fd EXCEPT ![i] = NoFd] /\ write' = [write EXCEPT ![i] = FALSE]
      /\ sock'[i] = NoSock /\ \A s \in Slots : s # i => sock'[s] = sock[s] /\ fd'[s] = fd[s]
  BY <1>1, DestroysFacts, Zenon
<1>3. PICK c \in Conns : c = fd[i]
  BY <1>2, Zenon
<1>4. sock[i] # NoSock /\ sock[i].send # NoReply
  <2>1. i <= i /\ pc # "poll"
    BY <1>1, <1>2 DEF Slots
  <2>2. write[i]
    BY <1>1, <1>2, <2>1, Zenon DEF Askers
  <2> QED
    BY <1>1, <1>2, <2>2, Zenon DEF Askers
<1>5. PICK d \in Conns : d = sock[i].send
  <2>1. sock[i] \in Sock
    BY <1>2, <1>4, Zenon DEF Types
  <2>2. sock[i].send \in Conns
    BY <1>4, <2>1 DEF Sock
  <2> QED
    BY <2>2, Zenon
<1>6. /\ ~Live(c)' /\ \A a \in Conns : a # c => peer'[a] = peer[a] /\ got'[a] = got[a]
      /\ got'[c] = got[c] \/ got'[c] = d
  <2>1. CASE ~Over(c)
    <3>1. got' = [got EXCEPT ![c] = d] /\ peer' = [peer EXCEPT ![c] = "done"]
      BY <1>3, <1>4, <1>5, <2>1, Zenon DEF an_tcp_send, an_socket_t_find_by_index
    <3> QED
      BY <3>1 DEF Types, Live
  <2>2. CASE Over(c)
    <3>1. got' = got /\ peer' = peer
      BY <1>3, <2>2, Zenon DEF an_tcp_send, an_socket_t_find_by_index
    <3>2. ~Live(c)
      BY <2>2 DEF Over, Live
    <3> QED
      BY <3>1, <3>2, Zenon DEF Live
  <2> QED
    BY <2>1, <2>2, Zenon
<1>7. \A a \in Conns : Live(a)' => Live(a) /\ a # c
  BY <1>6, Zenon DEF Live
<1>8. Seen
  BY <1>1, SlotsSeen, Zenon
<1>9. /\ ~write'[i] /\ fd'[i] = NoFd /\ \A s \in Slots : s # i => write'[s] = write[s]
  BY <1>2 DEF IInv, Shape, Types
<1>10. ASSUME NEW t \in tasks', Live(t.from)'
       PROVE  fd'[t.index] = t.from /\ sock'[t.index] # NoSock /\ handed'[t.from] # <<>>
  <2>1. t.index \in Slots /\ t.from \in Conns /\ t \in tasks
    BY <1>1 DEF IInv, Shape
  <2>2. /\ fd[t.index] = t.from /\ sock[t.index] # NoSock /\ handed[t.from] # <<>> /\ t.from # c
    BY <1>1, <1>7, <1>10, <2>1, Zenon DEF Askers
  <2>3. t.index # i
    BY <1>3, <2>2, Zenon
  <2> QED
    BY <1>1, <1>2, <2>1, <2>2, <2>3, Zenon
<1>11. ASSUME NEW s \in Slots, sock'[s] # NoSock, sock'[s].send # NoReply, sock'[s].send # fd'[s],
              Live(sock[s].send)'
       PROVE  FALSE
  <2>1. sock'[s] = sock[s] /\ fd'[s] = fd[s]
    BY <1>2, <1>11, Zenon
  <2>2. sock[s] \in Sock
    BY <1>11, <2>1, Zenon DEF Types
  <2>3. sock[s].send \in Conns
    BY <1>11, <2>1, <2>2 DEF Sock
  <2>4. Live(sock[s].send)
    BY <1>7, <1>11, <2>1, <2>3, Zenon DEF Live
  <2> QED
    BY <1>1, <1>11, <2>1, <2>4, Zenon DEF Askers
<1>12. ASSUME NEW s \in Slots, write'[s] PROVE sock'[s] # NoSock /\ sock'[s].send # NoReply
  <2>1. s # i /\ write[s] /\ sock'[s] = sock[s]
    BY <1>2, <1>9, <1>12
  <2> QED
    BY <1>1, <2>1, Zenon DEF Askers
<1>13. ASSUME NEW s \in Slots, pc' # "poll", i' <= s, "OUT" \in revents'[s], fd'[s] # NoFd
       PROVE  write'[s]
  BY <1>1, <1>2, <1>8, <1>9, <1>13, Zenon DEF Seen, Askers
<1>14. ASSUME NEW a \in Conns, got'[a] \notin {a, NoReply}
       PROVE  peer'[got'[a]] \notin {"sending", "waiting"}
  <2>1. CASE got'[a] = got[a]
    <3>1. got[a] \in Conns /\ got[a] \notin {a, NoReply}
      BY <1>14, <2>1 DEF Types
    <3> QED
      BY <1>7, <2>1, <3>1, Zenon DEF Live, StrayRepliesAreLate
  <2>2. CASE got'[a] # got[a]
    <3>1. a = c /\ got'[a] = d /\ d # c
      BY <1>6, <1>14, <2>2
    <3>2. ~Live(d)
      BY <1>1, <1>2, <1>3, <1>4, <1>5, <3>1, Zenon DEF Askers
    <3> QED
      BY <1>7, <3>1, <3>2, Zenon DEF Live
  <2> QED
    BY <2>1, <2>2, Zenon
<1>15. Askers'
  BY <1>10, <1>11, <1>12, <1>13, Zenon DEF Askers
<1>16. StrayRepliesAreLate'
  BY <1>14, Zenon DEF StrayRepliesAreLate
<1> QED
  BY <1>15, <1>16, Zenon

\* The fields of an an_socket_t make it one.
LEMMA SockIs ==
  ASSUME NEW k \in Sock
  PROVE  k # NoSock
BY DEF Sock, NoSock

\* A new task remembers the slot of its call, whose packet is complete.
LEMMA an_tcp_recv_Askers ==
  ASSUME Splits, Framing, IInv, Types, Streams, Whole, Askers, StrayRepliesAreLate, an_tcp_recv
  PROVE  Askers' /\ StrayRepliesAreLate'
<1>1. /\ i \in Slots /\ fd[i] \in Conns /\ up = "up" /\ pc = "scan"
      /\ sock[i] # NoSock /\ handed[fd[i]] = <<>>
      /\ UNCHANGED <<peer, got, fd, write>> /\ NextSlot
      /\ \A d \in Conns : d # fd[i] => handed'[d] = handed[d]
      /\ \E e \in Sock : /\ sock'[i] = e /\ e.send = sock[i].send
                         /\ \A s \in Slots : s # i => sock'[s] = sock[s]
      /\ \/ tasks' = tasks
         \/ handed'[fd[i]] # <<>> /\ tasks' = tasks \cup {[index |-> i, from |-> fd[i]]}
  BY RecvWhole, Zenon
<1>2. /\ sock'[i] # NoSock /\ sock'[i].send = sock[i].send
      /\ \A s \in Slots : s # i => sock'[s] = sock[s]
  BY <1>1, SockIs, Zenon
<1>3. Seen
  BY <1>1, SlotsSeen, Zenon
<1>4. \A s \in Slots : sock'[s] # NoSock => sock[s] # NoSock /\ sock'[s].send = sock[s].send
  BY <1>1, <1>2, Zenon
<1>5. \A s \in Slots : sock[s] # NoSock => sock'[s] # NoSock /\ sock'[s].send = sock[s].send
  BY <1>2, Zenon
<1>6. ASSUME NEW t \in tasks', Live(t.from)'
      PROVE  fd'[t.index] = t.from /\ sock'[t.index] # NoSock /\ handed'[t.from] # <<>>
  <2>1. CASE t \in tasks
    <3>1. t.index \in Slots /\ t.from \in Conns
      BY <2>1 DEF IInv, Shape
    <3>2. fd[t.index] = t.from /\ sock[t.index] # NoSock /\ handed[t.from] # <<>>
      BY <1>1, <1>6, <2>1, Zenon DEF Askers, Live
    <3>3. t.from # fd[i]
      BY <1>1, <3>2, Zenon
    <3> QED
      BY <1>1, <1>5, <3>1, <3>2, <3>3, Zenon
  <2>2. CASE t \notin tasks
    <3>1. handed'[fd[i]] # <<>> /\ t = [index |-> i, from |-> fd[i]]
      BY <1>1, <2>2, Zenon
    <3>2. t.index = i /\ t.from = fd[i]
      BY <3>1
    <3> QED
      BY <1>1, <1>2, <3>1, <3>2, Zenon
  <2> QED
    BY <2>1, <2>2, Zenon
<1>7. ASSUME NEW s \in Slots, sock'[s] # NoSock, sock'[s].send # NoReply, sock'[s].send # fd'[s],
             Live(sock[s].send)'
      PROVE  FALSE
  BY <1>1, <1>4, <1>7, Zenon DEF Askers, Live
<1>8. ASSUME NEW s \in Slots, write'[s] PROVE sock'[s] # NoSock /\ sock'[s].send # NoReply
  BY <1>1, <1>5, <1>8, Zenon DEF Askers
<1>9. ASSUME NEW s \in Slots, pc' # "poll", i' <= s, "OUT" \in revents'[s], fd'[s] # NoFd
      PROVE  write'[s]
  BY <1>1, <1>3, <1>9, Zenon DEF Seen, Askers
<1>10. Askers'
  BY <1>6, <1>7, <1>8, <1>9, Zenon DEF Askers
<1> QED
  BY <1>1, <1>10, Zenon DEF StrayRepliesAreLate

\* The worker finds the slot it remembers with its call, or with another when
\* its call has given up.
LEMMA worker_reply_Askers ==
  ASSUME IInv, Types, Askers, StrayRepliesAreLate, NEW t \in tasks, worker_reply(t)
  PROVE  Askers' /\ StrayRepliesAreLate'
<1>1. /\ up = "up" /\ tasks' = tasks \ {t} /\ UNCHANGED <<pc, i, fd, revents, peer, handed, got>>
  BY Zenon DEF worker_reply, clients
<1>2. t.index \in Slots /\ t.from \in Conns
  BY DEF IInv, Shape
<1>3. CASE UNCHANGED <<sock, write>>
  <2>1. tasks' \subseteq tasks
    BY <1>1, Zenon
  <2> QED
    BY <1>1, <1>3, <2>1, Zenon DEF Askers, StrayRepliesAreLate, Live
<1>4. CASE ~UNCHANGED <<sock, write>>
  <2>1. /\ sock[t.index] # NoSock /\ write' = [write EXCEPT ![t.index] = TRUE]
        /\ sock' = [sock EXCEPT ![t.index].send = t.from]
    BY <1>4, Zenon DEF worker_reply
  <2>2. sock[t.index] \in Sock
    BY <1>2, <2>1, Zenon DEF Types
  <2>3. PICK k \in Sock : k = [sock[t.index] EXCEPT !.send = t.from] /\ k.send = t.from
    <3>1. [sock[t.index] EXCEPT !.send = t.from] \in Sock
      BY <1>2, <2>2 DEF Sock
    <3>2. [sock[t.index] EXCEPT !.send = t.from].send = t.from
      BY <2>2 DEF Sock
    <3> QED
      BY <3>1, <3>2, Zenon
  <2>4. sock' = [sock EXCEPT ![t.index] = k]
    BY <2>1, <2>3, Zenon
  <2>5. /\ sock'[t.index] = k /\ \A s \in Slots : s # t.index => sock'[s] = sock[s]
        /\ write'[t.index] /\ \A s \in Slots : s # t.index => write'[s] = write[s]
    BY <1>2, <2>1, <2>4 DEF Types
  <2>6. k # NoSock /\ k.send = t.from /\ t.from # NoReply
    BY <1>2, <2>3, SockIs, AnalyzerAssumption
  <2>7. ASSUME NEW u \in tasks', Live(u.from)'
        PROVE  fd'[u.index] = u.from /\ sock'[u.index] # NoSock /\ handed'[u.from] # <<>>
    <3>1. u \in tasks /\ u.index \in Slots
      BY <1>1 DEF IInv, Shape
    <3>2. fd[u.index] = u.from /\ sock[u.index] # NoSock /\ handed[u.from] # <<>>
      BY <1>1, <2>7, <3>1, Zenon DEF Askers, Live
    <3> QED
      BY <1>1, <2>5, <2>6, <3>1, <3>2, Zenon
  <2>8. ASSUME NEW s \in Slots, sock'[s] # NoSock, sock'[s].send # NoReply, sock'[s].send # fd'[s],
               Live(sock[s].send)'
        PROVE  FALSE
    <3>1. CASE s = t.index
      <4>1. sock'[s].send = t.from /\ Live(t.from)
        BY <1>1, <2>5, <2>6, <2>8, <3>1, Zenon DEF Live
      <4> QED
        BY <1>1, <2>8, <3>1, <4>1, Zenon DEF Askers
    <3>2. CASE s # t.index
      BY <1>1, <2>5, <2>8, <3>2, Zenon DEF Askers, Live
    <3> QED
      BY <3>1, <3>2, Zenon
  <2>9. ASSUME NEW s \in Slots, write'[s] PROVE sock'[s] # NoSock /\ sock'[s].send # NoReply
    BY <1>1, <2>5, <2>6, <2>9, Zenon DEF Askers
  <2>10. ASSUME NEW s \in Slots, pc' # "poll", i' <= s, "OUT" \in revents'[s], fd'[s] # NoFd
         PROVE  write'[s]
    BY <1>1, <2>5, <2>10, Zenon DEF Askers
  <2>11. Askers'
    BY <2>7, <2>8, <2>9, <2>10, Zenon DEF Askers
  <2> QED
    BY <1>1, <2>11, Zenon DEF StrayRepliesAreLate
<1> QED
  BY <1>3, <1>4, Zenon

\* Nothing is left of the last call that had the descriptor of a new one.
LEMMA toserver_connect_Askers ==
  ASSUME IInv, Types, Askers, StrayRepliesAreLate, NEW c \in Conns, toserver_connect(c)
  PROVE  Askers' /\ StrayRepliesAreLate'
<1>1. /\ up = "up" /\ UNCHANGED <<pc, i, fd, write, sock, revents, tasks, handed, got>>
      /\ \A t \in tasks : t.from # c
      /\ \A s \in Slots : sock[s] # NoSock => sock[s].send # c
      /\ \A d \in Conns : got[d] # c
      /\ peer' = [peer EXCEPT ![c] = "sending"]
  BY Zenon DEF toserver_connect, Unused, table
<1>2. \A x : x \in Conns /\ x # c => peer'[x] = peer[x]
  BY <1>1 DEF Types
<1>3. \A t \in tasks : Live(t.from)' => Live(t.from)
  <2>1. \A t \in tasks : t.from \in Conns
    BY DEF IInv, Shape
  <2> QED
    BY <1>1, <1>2, <2>1, Zenon DEF Live
<1>4. ASSUME NEW s \in Slots, sock[s] # NoSock, sock[s].send # NoReply, Live(sock[s].send)'
      PROVE  Live(sock[s].send)
  <2>1. sock[s] \in Sock
    BY <1>4, Zenon DEF Types
  <2>2. sock[s].send \in Conns
    BY <1>4, <2>1 DEF Sock
  <2> QED
    BY <1>1, <1>2, <1>4, <2>2, Zenon DEF Live
<1>5. \A d \in Conns : got[d] # NoReply => peer'[got[d]] = peer[got[d]]
  BY <1>1, <1>2 DEF Types
<1>6. Askers'
  BY <1>1, <1>3, <1>4, Zenon DEF Askers
<1>7. StrayRepliesAreLate'
  <2> SUFFICES ASSUME NEW d \in Conns, got'[d] \notin {d, NoReply}
               PROVE  peer'[got'[d]] \notin {"sending", "waiting"}
    BY Zenon DEF StrayRepliesAreLate
  <2>1. got'[d] = got[d] /\ got[d] # NoReply /\ got[d] \notin {d, NoReply}
    BY <1>1
  <2> QED
    BY <1>5, <2>1, Zenon DEF StrayRepliesAreLate
<1> QED
  BY <1>6, <1>7, Zenon

\* Every step keeps the invariant.
LEMMA NextAskers ==
  ASSUME Splits, Framing, IInv, Types, Streams, Whole, Askers, StrayRepliesAreLate, [Next]_vars
  PROVE  Askers' /\ StrayRepliesAreLate'
<1>1. CASE Loop
  BY <1>1, poll_Askers, accept_Askers, StaysAskers, ClosesAskers, an_tcp_send_Askers,
     an_tcp_recv_Askers, Zenon DEF Loop
<1>2. CASE \E t \in tasks : worker_reply(t)
  BY <1>2, worker_reply_Askers, Zenon
<1>3. CASE \E c \in Conns : \/ toserver_connect(c) \/ toserver_send(c)
                            \/ toserver_timeout(c) \/ toserver_return(c)
  BY <1>3, toserver_connect_Askers, StaysAskers, Zenon
<1>4. CASE UNCHANGED vars
  <2>1. /\ UNCHANGED <<up, pc, i, fd, write, sock, revents, tasks, peer, handed, got>>
    BY <1>4, Zenon DEF vars, table, clients
  <2> QED
    BY <2>1, Zenon DEF Askers, StrayRepliesAreLate, Live
<1> QED
  BY <1>1, <1>2, <1>3, <1>4, Zenon DEF Next

=============================================================================
