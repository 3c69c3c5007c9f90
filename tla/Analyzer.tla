------------------------------ MODULE Analyzer ------------------------------
(***************************************************************************)
(* The analyzer of TCP_C/main.c and its clients.  One thread polls a table *)
(* of sockets, cuts what it receives into JSON packets and hands each to a *)
(* worker with the index of the slot it came from; the worker puts its     *)
(* reply into whatever the slot holds by then, and the loop sends it and   *)
(* closes the connection.  The clients are the calls of toserver in        *)
(* TCP_SERVER/lua/fun.lua: one packet per connection, three seconds for    *)
(* the answer.                                                             *)
(*                                                                         *)
(* The accepted sockets are blocking: recv on one without data stops the   *)
(* loop until its peer acts.  worker.c is not part of the repository; the  *)
(* worker is modelled from the interface main.c, hash.c and head.h keep    *)
(* for it.                                                                 *)
(***************************************************************************)
EXTENDS Integers, Sequences, FiniteSets

CONSTANTS Conns,           \* connections, known by their descriptors
          NoFd,            \* -1
          NoReply,
          AN_POLL_MAX,     \* 1024
          AN_TCP_BUF_LEN,  \* 1024
          Packets,         \* the packets clients send
          FirstSegment,    \* least number of bytes of a packet's first segment
          Behind,          \* bytes that may lie behind the received ones
          Impatient,       \* the calls that may give up (a bound of the runs)
          MemoryMayFail    \* allocations and accept may fail

Byte == {"nl", "{", "}", "x"}

ASSUME AnalyzerAssumption ==
    /\ NoFd \notin Conns /\ NoReply \notin Conns
    /\ AN_POLL_MAX \in Nat /\ AN_POLL_MAX > 1
    /\ AN_TCP_BUF_LEN \in Nat \ {0}
    /\ Packets \subseteq Seq(Byte) \ {<<>>}
    /\ FirstSegment \in Nat \ {0}
    /\ Behind \subseteq Byte /\ Behind # {}
    /\ Impatient \subseteq Conns
    /\ MemoryMayFail \in BOOLEAN

Slots == 1..(AN_POLL_MAX - 1)

VARIABLES up,               \* "up", or how the process ended
          pc, i,            \* control point of an_poll; the index of its scan
          fd, write, revents, an_curfds,   \* an_conn_array; write: POLLOUT asked for
          sock,             \* an_sock_hash: the an_socket_t of each slot
          tasks,            \* tasks given to the workers
          conn, backlog,    \* server side of each connection; those not accepted
          peer, left, inbox,  \* each call: its state, the bytes it has not sent,
                            \* and the sent bytes the server has not received
          packet, handed, got  \* history: each call's packet, what was handed to
                            \* the allocator for it, and whose reply it received

table   == <<fd, write, an_curfds, sock>>
clients == <<peer, left, packet>>
vars    == <<up, pc, i, table, revents, tasks, conn, backlog, clients, inbox, handed, got>>

-----------------------------------------------------------------------------
(* an_split_rcv_buf_to_json *)

\* What comes before the first line feed is dropped.
Cut(buf) ==
    LET k == CHOOSE n \in 1..(Len(buf) + 1) :
                 /\ n = Len(buf) + 1 \/ buf[n] = "nl"
                 /\ \A m \in 1..(n - 1) : buf[m] # "nl"
    IN  SubSeq(buf, k, Len(buf))

At(buf, behind, p) == IF p <= Len(buf) THEN buf[p] ELSE behind

\* What a byte adds to start_flag.
Brace(c) == IF c = "{" THEN 1 ELSE IF c = "}" THEN -1 ELSE 0

PassCountsFeed(buf, behind, s) ==
    LET c == At(buf, behind, s.end_p)
        f == s.start_flag + Brace(c)
    IN  IF s.complete \/ s.packet_flag > 1 \/ s.json_len >= Len(buf) THEN s
        ELSE IF c = "nl"
        THEN [s EXCEPT !.end_p = @ + 1, !.start_p = s.end_p + 1, !.packet_flag = @ + 1,
                       !.json_len = @ + 1]
        ELSE [s EXCEPT !.end_p = @ + 1, !.json_len = @ + 1, !.start_flag = f,
                       !.complete = f = 0 /\ s.packet_flag = 1]

\* A pass of the loop after REDO, for as long as it goes on.  It counts the
\* bytes of the packet but not the line feed, and so may look at the byte
\* behind the buffer.
Pass(buf, behind, s) ==
    LET c == At(buf, behind, s.end_p)
        f == s.start_flag + Brace(c)
    IN  IF s.complete \/ s.packet_flag > 1 \/ s.json_len >= Len(buf) THEN s
        ELSE IF c = "nl"
        THEN [s EXCEPT !.end_p = @ + 1, !.start_p = s.end_p + 1, !.packet_flag = @ + 1]
        ELSE [s EXCEPT !.end_p = @ + 1, !.json_len = @ + 1, !.start_flag = f,
                       !.complete = f = 0 /\ s.packet_flag = 1]

\* The loop, with json_len as the previous round has left it.
Scan(buf, behind, json_len) ==
    LET st[k \in 0..(Len(buf) + 2)] ==
            IF k = 0
            THEN [end_p |-> 1, start_p |-> 1, json_len |-> json_len,
                  start_flag |-> 0, packet_flag |-> 0, complete |-> FALSE]
            ELSE Pass(buf, behind, st[k - 1])
    IN  st[Len(buf) + 2]

TextWithFeed(buf, behind, start_p, json_len) ==
    [k \in 1..json_len |-> At(buf, behind, k)]

Text(buf, behind, start_p, json_len) ==
    [k \in 1..json_len |-> At(buf, behind, start_p + k - 1)]

\* One round from REDO on.  end: "redo" and "wait" (for more data) go on;
\* "fail" closes the connection; with "short" rcv_len has become negative;
\* with "crash" so has the length given to memmove.
Round(o, behind) ==
    LET buf  == o.rest
        s    == Scan(buf, behind, o.json_len)
        rest == Len(buf) - (s.json_len + 1)
    IN  IF o.end # "redo" THEN o
        ELSE IF s.packet_flag > 1 THEN [o EXCEPT !.end = "fail"]
        ELSE IF s.start_flag # 0 \/ s.json_len = 0 THEN [o EXCEPT !.end = "wait"]
        ELSE [rest     |-> SubSeq(buf, s.json_len + 2, Len(buf)),
              json_len |-> s.json_len,
              handed   |-> Append(o.handed, Text(buf, behind, s.start_p, s.json_len)),
              end      |-> IF rest < -2 THEN "crash" ELSE IF rest < 0 THEN "short"
                           ELSE IF rest = 0 THEN "wait" ELSE "redo"]

an_split_rcv_buf_to_json(buf, behind) ==
    LET cut == Cut(buf)
        o[k \in 0..(Len(cut) + 1)] ==
            IF k = 0 THEN [rest |-> cut, json_len |-> 0, handed |-> <<>>, end |-> "redo"]
            ELSE Round(o[k - 1], behind)
    IN  o[Len(cut) + 1]

\* Its results, for the parts of packets that a receive buffer can hold.
Parts == UNION {{SubSeq(p, m, n) : m, n \in 1..Len(p)} : p \in Packets}

Split == [buf \in Parts |-> [behind \in Behind |-> an_split_rcv_buf_to_json(buf, behind)]]

-----------------------------------------------------------------------------
(* The table and the hash. *)

\* No an_socket_t (NULL): not a record.
NoSock == <<>>

Sock == [rcv : Seq(Byte), short : 0..1, send : Conns \cup {NoReply}]

Quiet == [s \in Slots |-> {}]

an_poll_init ==
    /\ fd = [s \in Slots |-> NoFd]
    /\ write = [s \in Slots |-> FALSE]
    /\ revents = Quiet
    /\ an_curfds = 1

\* an_socket_t_create and its entry in an_sock_hash, for slot s.
an_socket_t_create(s) ==
    sock' = [sock EXCEPT ![s] = [rcv |-> <<>>, short |-> 0, send |-> NoReply]]

an_socket_t_find_by_index(s) == sock[s]

DelKeepsSock(s) == sock' = sock

an_socket_t_del(s) == sock' = [sock EXCEPT ![s] = NoSock]

\* The first slot that holds f.
SlotOf(f) == CHOOSE s \in Slots : fd[s] = f /\ \A t \in 1..(s - 1) : fd[t] # f

DelShrinksTooFar(f) ==
    LET s == SlotOf(f) IN
    /\ fd' = [fd EXCEPT ![s] = NoFd]
    /\ write' = [write EXCEPT ![s] = FALSE]
    /\ an_curfds' = an_curfds - 1

an_sock_poll_del(f) ==
    LET s == SlotOf(f) IN
    /\ fd' = [fd EXCEPT ![s] = NoFd]
    /\ write' = [write EXCEPT ![s] = FALSE]
    /\ an_curfds' = IF s = an_curfds - 1 THEN an_curfds - 1 ELSE an_curfds

an_sock_destory(s) ==
    /\ conn' = [conn EXCEPT ![fd[s]] = "free"]
    /\ an_socket_t_del(s)
    /\ an_sock_poll_del(fd[s])

Init ==
    /\ up = "up" /\ pc = "poll" /\ i = 0
    /\ an_poll_init
    /\ sock = [s \in Slots |-> NoSock]
    /\ tasks = {}
    /\ conn = [c \in Conns |-> "free"]
    /\ backlog = <<>>
    /\ peer = [c \in Conns |-> "idle"]
    /\ left = [c \in Conns |-> <<>>]
    /\ inbox = [c \in Conns |-> <<>>]
    /\ packet = [c \in Conns |-> <<>>]
    /\ handed = [c \in Conns |-> <<>>]
    /\ got = [c \in Conns |-> NoReply]

-----------------------------------------------------------------------------
(* an_poll. *)

Over(c) == peer[c] \in {"gone", "reset"}

Ready(s) ==
    (IF peer[fd[s]] = "reset" THEN {"ERR"} ELSE {}) \cup
    (IF inbox[fd[s]] # <<>> \/ Over(fd[s]) THEN {"IN"} ELSE {}) \cup
    (IF write[s] THEN {"OUT"} ELSE {})

poll ==
    /\ up = "up" /\ pc = "poll"
    /\ revents' = [s \in Slots |->
                     IF s >= an_curfds \/ fd[s] = NoFd THEN {} ELSE Ready(s)]
    /\ backlog # <<>> \/ revents' # Quiet
    /\ pc' = IF backlog # <<>> THEN "accept" ELSE "scan"
    /\ i' = 1
    /\ UNCHANGED <<up, table, tasks, conn, backlog, clients, inbox, handed, got>>

\* The next poll overwrites every revents that the scan may read.
PassOver == pc' = "poll" /\ i' = 0 /\ revents' = Quiet

IsFirstFree(s) == fd[s] = NoFd /\ \A t \in 1..(s - 1) : fd[t] # NoFd

\* an_sock_poll_add for a table with a free slot.  The new socket is marked
\* readable, so that the scan reads from it at once.  Without memory for an
\* an_socket_t the slot is kept and the pass ends.
an_sock_poll_add(c, s) ==
    /\ IsFirstFree(s)
    /\ fd' = [fd EXCEPT ![s] = c]
    /\ conn' = [conn EXCEPT ![c] = "open"]
    /\ an_curfds' = IF s = an_curfds THEN an_curfds + 1 ELSE an_curfds
    /\ \/ /\ an_socket_t_create(s)
          /\ revents' = [revents EXCEPT ![s] = {"IN"}] /\ pc' = "scan" /\ i' = i
       \/ MemoryMayFail /\ sock' = sock /\ PassOver

accept ==
    /\ up = "up" /\ pc = "accept"
    /\ \E s \in Slots : an_sock_poll_add(Head(backlog), s)
    /\ backlog' = Tail(backlog)
    /\ UNCHANGED <<up, write, tasks, clients, inbox, handed, got>>

\* No slot is left: the accepted socket is neither kept nor closed, and the
\* pass ends.
accept_full ==
    /\ up = "up" /\ pc = "accept"
    /\ \A s \in Slots : fd[s] # NoFd
    /\ conn' = [conn EXCEPT ![Head(backlog)] = "leaked"]
    /\ backlog' = Tail(backlog)
    /\ PassOver
    /\ UNCHANGED <<up, table, tasks, clients, inbox, handed, got>>

\* accept returns no descriptor: the pass goes on.
accept_fails ==
    /\ up = "up" /\ pc = "accept" /\ MemoryMayFail
    /\ \/ an_curfds = 1 /\ PassOver
       \/ an_curfds > 1 /\ pc' = "scan" /\ UNCHANGED <<i, revents>>
    /\ UNCHANGED <<up, table, tasks, conn, backlog, clients, inbox, handed, got>>

ScanTooFar == IF i + 1 > an_curfds' THEN PassOver
              ELSE i' = i + 1 /\ UNCHANGED <<pc, revents>>

StaysInSlot == UNCHANGED <<pc, i, revents>>

\* The next round of the scan.
NextSlot == IF i + 1 >= an_curfds' THEN PassOver
            ELSE i' = i + 1 /\ UNCHANGED <<pc, revents>>

scan_skip ==
    /\ up = "up" /\ pc = "scan"
    /\ fd[i] = NoFd \/ revents[i] = {}
    /\ UNCHANGED <<up, table, tasks, conn, backlog, clients, inbox, handed, got>>
    /\ NextSlot

Scanning(ev) == up = "up" /\ pc = "scan" /\ fd[i] # NoFd /\ ev \in revents[i]

\* an_tcp_events_do: POLLERR on one connection makes an_poll call an_exit.
events_err ==
    /\ Scanning("ERR")
    /\ an_sock_destory(i)
    /\ up' = "exit"
    /\ UNCHANGED <<pc, i, revents, tasks, backlog, clients, inbox, handed, got>>

\* POLLOUT, with an_tcp_send: the socket is blocking, so send takes all or
\* fails, and the connection is closed either way.
an_tcp_send ==
    /\ Scanning("OUT") /\ "ERR" \notin revents[i]
    /\ LET c == fd[i]
           k == an_socket_t_find_by_index(i)
       IN  IF k # NoSock /\ k.send # NoReply /\ ~Over(c)
           THEN /\ got' = [got EXCEPT ![c] = k.send]
                /\ peer' = [peer EXCEPT ![c] = "done"]
           ELSE UNCHANGED <<got, peer>>
    /\ an_sock_destory(i)
    /\ NextSlot
    /\ UNCHANGED <<up, tasks, backlog, left, packet, inbox, handed>>

\* send on a connection that was reset raises SIGPIPE, for which an_signals_init
\* installs a struct sigaction it never fills in: it may end the process.
sigpipe ==
    /\ Scanning("OUT") /\ "ERR" \notin revents[i]
    /\ sock[i] # NoSock /\ sock[i].send # NoReply /\ peer[fd[i]] = "reset"
    /\ up' = "dead"
    /\ UNCHANGED <<pc, i, table, revents, tasks, conn, backlog, clients, inbox, handed, got>>

Readable == Scanning("IN") /\ revents[i] = {"IN"}

\* an_tcp_recv without an an_socket_t, on a connection that is over, or
\* without memory for what was received: the connection is closed.
recv_fails ==
    /\ Readable
    /\ \/ sock[i] = NoSock
       \/ peer[fd[i]] = "reset"
       \/ inbox[fd[i]] = <<>> /\ Over(fd[i])
       \/ inbox[fd[i]] # <<>> /\ MemoryMayFail
    /\ an_sock_destory(i)
    /\ NextSlot
    /\ UNCHANGED <<up, tasks, backlog, clients, inbox, handed, got>>

\* cJSON_Parse accepts the packets that clients send, and no part of one.
cJSON_Parse(text) == \E p \in Packets : text = Tail(p)

TaskWithoutIndex(c, texts) ==
    \/ tasks' = tasks \cup {[index |-> 1, from |-> c] :
                               k \in {n \in DOMAIN texts : cJSON_Parse(texts[n])}}
    \/ MemoryMayFail /\ tasks' = tasks

\* al_allocate_task: the task remembers the slot; wk_add_task queues it.
al_allocate_task(c, texts) ==
    \/ tasks' = tasks \cup {[index |-> i, from |-> c] :
                               k \in {n \in DOMAIN texts : cJSON_Parse(texts[n])}}
    \/ MemoryMayFail /\ tasks' = tasks

\* an_tcp_recv: it reads up to AN_TCP_BUF_LEN bytes behind those it has, and
\* splits.  With rcv_len negative the bytes go in front of the buffer.
an_tcp_recv ==
    /\ Readable /\ sock[i] # NoSock /\ inbox[fd[i]] # <<>>
    /\ \E behind \in Behind :
       LET c == fd[i]
           n == IF Len(inbox[c]) < AN_TCP_BUF_LEN THEN Len(inbox[c]) ELSE AN_TCP_BUF_LEN
           o == Split[sock[i].rcv \o SubSeq(inbox[c], 1, n)][behind]
       IN  /\ inbox' = [inbox EXCEPT ![c] = SubSeq(@, n + 1, Len(@))]
           /\ IF sock[i].short = 1 \/ o.end = "crash"
              THEN /\ up' = "overrun"
                   /\ UNCHANGED <<pc, i, table, revents, tasks, conn, handed>>
              ELSE /\ handed' = [handed EXCEPT ![c] = @ \o o.handed]
                   /\ al_allocate_task(c, o.handed)
                   /\ \/ o.end = "fail" /\ an_sock_destory(i)
                      \/ /\ o.end # "fail"
                         /\ sock' = [sock EXCEPT ![i].rcv = o.rest,
                                       ![i].short = IF o.end = "short" THEN 1 ELSE 0]
                         /\ UNCHANGED <<fd, write, an_curfds, conn>>
                   /\ NextSlot
                   /\ up' = up
    /\ UNCHANGED <<backlog, clients, got>>

-----------------------------------------------------------------------------
(* The workers and the clients. *)

\* A worker has finished task t: it looks up the an_socket_t of the slot the
\* task remembers, fills its send buffer and asks for POLLOUT.
worker_reply(t) ==
    /\ up = "up" /\ t \in tasks
    /\ tasks' = tasks \ {t}
    /\ IF sock[t.index] = NoSock THEN UNCHANGED <<sock, write>>
       ELSE /\ sock' = [sock EXCEPT ![t.index].send = t.from]
            /\ write' = [write EXCEPT ![t.index] = TRUE]
    /\ UNCHANGED <<up, pc, i, fd, an_curfds, revents, conn, backlog, clients,
                   inbox, handed, got>>

\* A descriptor is given to a new call only when nothing is left of the last
\* call that had it, so that it also names the call.
Unused(c) ==
    /\ conn[c] = "free" /\ peer[c] = "idle"
    /\ \A t \in tasks : t.from # c
    /\ \A s \in Slots : sock[s] # NoSock => sock[s].send # c
    /\ \A d \in Conns : got[d] # c

\* toserver: connect, send, receive and close.
toserver_connect(c) ==
    /\ up = "up" /\ Unused(c)
    /\ \E p \in Packets :
         /\ packet' = [packet EXCEPT ![c] = p]
         /\ left' = [left EXCEPT ![c] = p]
    /\ peer' = [peer EXCEPT ![c] = "sending"]
    /\ conn' = [conn EXCEPT ![c] = "backlog"]
    /\ backlog' = Append(backlog, c)
    /\ UNCHANGED <<up, pc, i, table, revents, tasks, inbox, handed, got>>

\* The next segment of the packet arrives.
toserver_send(c) ==
    /\ up = "up" /\ peer[c] = "sending" /\ conn[c] # "free"
    /\ \E n \in 1..Len(left[c]) :
         /\ left[c] = packet[c] => n >= FirstSegment
         /\ inbox' = [inbox EXCEPT ![c] = @ \o SubSeq(left[c], 1, n)]
         /\ left' = [left EXCEPT ![c] = SubSeq(@, n + 1, Len(@))]
         /\ peer' = [peer EXCEPT ![c] = IF n = Len(left[c]) THEN "waiting" ELSE @]
    /\ UNCHANGED <<up, pc, i, table, revents, tasks, conn, backlog, packet, handed, got>>

\* settimeout: the call gives up and closes; or its process dies and the
\* connection is reset.
toserver_timeout(c) ==
    /\ up = "up" /\ c \in Impatient /\ peer[c] \in {"sending", "waiting"}
    /\ \E e \in {"gone", "reset"} : peer' = [peer EXCEPT ![c] = e]
    /\ UNCHANGED <<up, pc, i, table, revents, tasks, conn, backlog, left, packet,
                   inbox, handed, got>>

\* Both ends are closed: the call has returned.
toserver_return(c) ==
    /\ up = "up" /\ peer[c] # "idle" /\ conn[c] = "free"
    /\ peer' = [peer EXCEPT ![c] = "idle"]
    /\ left' = [left EXCEPT ![c] = <<>>]
    /\ packet' = [packet EXCEPT ![c] = <<>>]
    /\ inbox' = [inbox EXCEPT ![c] = <<>>]
    /\ handed' = [handed EXCEPT ![c] = <<>>]
    /\ got' = [got EXCEPT ![c] = NoReply]
    /\ UNCHANGED <<up, pc, i, table, revents, tasks, conn, backlog>>

Loop == \/ poll \/ accept \/ accept_full \/ accept_fails
        \/ scan_skip \/ events_err \/ an_tcp_send \/ sigpipe \/ recv_fails \/ an_tcp_recv

Next == \/ Loop
        \/ \E t \in tasks : worker_reply(t)
        \/ \E c \in Conns : \/ toserver_connect(c) \/ toserver_send(c)
                             \/ toserver_timeout(c) \/ toserver_return(c)

Spec == Init /\ [][Next]_vars

\* The loop takes its steps, and a call that has connected sends its packet
\* or gives up.
FairSpec ==
    /\ Spec
    /\ WF_vars(Loop)
    /\ WF_vars(\E c \in Conns : toserver_send(c))

-----------------------------------------------------------------------------
(* The packets that an_split_rcv_buf_to_json can frame. *)

\* A packet starts with a line feed and has no other; its braces, those in
\* strings included, match, and the last byte closes the first.
Framed(p) ==
    /\ Len(p) > 1
    /\ \A k \in 1..Len(p) : p[k] = "nl" <=> k = 1
    /\ \E d \in [1..Len(p) -> 0..Len(p)] :
         /\ d[1] = 0
         /\ \A k \in 2..Len(p) : d[k] = d[k - 1] + Brace(p[k]) /\ (d[k] = 0 <=> k = Len(p))

\* What the framing relies on.  The first segment of a packet is more than its
\* line feed, and the byte behind the received ones, at which the loop may
\* look, neither starts a packet nor closes an object.
Framing ==
    /\ \A p \in Packets : Framed(p)
    /\ \A b \in Behind : b # "nl" /\ Brace(b) # -1
    /\ FirstSegment > 1 /\ AN_TCP_BUF_LEN > 1

-----------------------------------------------------------------------------
(* Properties. *)

\* Every variable keeps its type; an_curfds stays within the table although it
\* is decremented while the scan is under way.
TypeOK ==
    /\ up \in {"up", "exit", "dead", "overrun"}
    /\ pc \in {"poll", "accept", "scan"}
    /\ i \in 0..(AN_POLL_MAX - 1) /\ (pc # "poll" => i \in Slots)
    /\ fd \in [Slots -> Conns \cup {NoFd}]
    /\ write \in [Slots -> BOOLEAN]
    /\ revents \in [Slots -> SUBSET {"IN", "OUT", "ERR"}]
    /\ an_curfds \in 1..AN_POLL_MAX
    /\ sock \in [Slots -> Sock \cup {NoSock}]
    /\ tasks \subseteq [index : Slots, from : Conns]
    /\ conn \in [Conns -> {"free", "backlog", "open", "leaked"}]
    /\ backlog \in Seq(Conns)
    /\ peer \in [Conns -> {"idle", "sending", "waiting", "done", "gone", "reset"}]
    /\ left \in [Conns -> Seq(Byte)] /\ inbox \in [Conns -> Seq(Byte)]
    /\ packet \in [Conns -> Packets \cup {<<>>}]
    /\ handed \in [Conns -> Seq(Seq(Byte))]
    /\ got \in [Conns -> Conns \cup {NoReply}]

\* The array and the hash agree: the open connections are those in the table,
\* each in one slot, and a slot has an an_socket_t exactly if it is in use,
\* except for one that found no memory for it.  an_sock_destory deletes by
\* index from the hash and by descriptor from the array.
TableMatchesHash ==
    /\ \A s, t \in Slots : fd[s] = fd[t] /\ fd[s] # NoFd => s = t
    /\ {c \in Conns : conn[c] = "open"} = {fd[s] : s \in Slots} \ {NoFd}
    /\ \A s \in Slots : sock[s] # NoSock => fd[s] # NoFd
    /\ ~MemoryMayFail => \A s \in Slots : fd[s] # NoFd => sock[s] # NoSock

\* poll() and the scan reach every connection: none lies beyond an_curfds,
\* which an_sock_poll_del lowers by one at most.
CurfdsCoversTable == \A s \in Slots : fd[s] # NoFd => s < an_curfds

\* The allocator gets the JSON text of each packet whole and once, however
\* the packet was cut into segments ("each packet starts with a line feed,
\* after which comes the complete JSON", main.c:450).
PacketsIntact ==
    \A c \in Conns : handed[c] # <<>> => handed[c] = <<Tail(packet[c])>>

\* What an_split_rcv_buf_to_json leaves in rcv_len and gives to memmove is
\* never negative, so that an_tcp_recv copies behind what the buffer holds
\* and never in front of it.
RcvLenNotNegative ==
    /\ up # "overrun"
    /\ \A s \in Slots : sock[s] # NoSock => sock[s].short = 0

\* A reply goes to the call that asked for it, or else that call has already
\* given up: only then can its slot have passed to another connection.
StrayRepliesAreLate ==
    \A c \in Conns : got[c] \notin {c, NoReply} =>
        peer[got[c]] \notin {"sending", "waiting"}

\* Every pass of the loop ends: recv on a connection just accepted blocks the
\* whole analyzer, but no longer than until its client sends or gives up.
LoopGoesOn == []<>(pc = "poll" \/ up # "up")

=============================================================================
