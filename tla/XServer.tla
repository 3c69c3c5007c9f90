------------------------------ MODULE XServer ------------------------------
(***************************************************************************)
(* The HTTP server of TCP_SERVER: one thread that polls a table of sockets *)
(* (x-poll.c), keeps one session per connection (x-session.c) and has a    *)
(* Lua script build the response (x-lua.c).  poll_process_run is split at  *)
(* its system calls, where the peers can act: poll(), each accept(), and   *)
(* each slot of the scan.  What one slot's handler does is one action.     *)
(*                                                                         *)
(* The table has POLL_MAX cells.  Cell 0, the listening socket, is left    *)
(* out; cell POLL_MAX is the memory behind the array, which the scan reads *)
(* once poll_curfds has passed the end of the table.                       *)
(***************************************************************************)
EXTENDS Integers, FiniteSets

CONSTANTS Fds,            \* descriptors accept() can return
          NoFd,           \* fd of a free slot (-1)
          Stray,          \* a descriptor found in the memory behind the table
          NoSession,
          POLL_MAX,       \* poll_max_size (1024)
          U32,            \* 2^32, the range of session->pid
          BUF,            \* sizeof(rcv_buf) in ses_recv (10240)
          ReqLen,         \* bytes of a request up to and with its blank line
          RespLens,       \* lengths of the responses Lua can return
          ErrSize,        \* buffer of the 500 page (1024)
          ErrLen,         \* length of the 500 page
          NoBlockMayFail, \* can fcntl(O_NONBLOCK) fail on an accepted socket
          MemoryMayFail,  \* can wys_malloc fail for a new session
          MaxIn,          \* bound: bytes a peer has under way on a connection
          MaxBacklog      \* bound: connections waiting for accept()

ASSUME ServerAssumption ==
    /\ {NoFd, Stray} \cap Fds = {} /\ NoFd # Stray
    /\ POLL_MAX \in Nat /\ POLL_MAX > 1
    /\ U32 \in Nat /\ U32 > POLL_MAX + 1
    /\ BUF \in Nat \ {0} /\ ReqLen \in Nat \ {0}
    /\ RespLens \subseteq Nat \ {0}
    /\ ErrSize \in Nat /\ ErrLen \in 1..ErrSize
    /\ NoBlockMayFail \in BOOLEAN /\ MemoryMayFail \in BOOLEAN
    /\ MaxIn \in Nat /\ MaxBacklog \in Nat

Slots == 1..(POLL_MAX - 1)
Cells == 1..POLL_MAX

Session == [pid : 0..(U32 - 1), lua_error : 0..1, rcv_len : Nat,
            snd_size : Nat, snd_len : Nat]
ASSUME NoSessionAssumption == NoSession \notin Session

VARIABLES up,           \* "up", or how the process ended
          pc, i,        \* control point of poll_process_run; its index i
          nready,
          fd, events, revents,   \* poll_fds
          poll_curfds,
          leaked,       \* history: a slot was left to a closed descriptor
          ses,          \* ses_fid_hash: the hashed session of each descriptor
          listening, backlog,    \* http_svr_fd and the connections it holds
          conn, inbox   \* each socket, and the bytes it has not yet returned

loop  == <<pc, i, nready>>
table == <<fd, events, poll_curfds, leaked>>
net   == <<listening, backlog, conn, inbox>>
vars  == <<up, loop, table, revents, ses, net>>

Ends == {"abort139", "abort157", "abort209", "crash", "overrun"}

Quiet == [c \in Cells |-> {}]

-----------------------------------------------------------------------------
(* x-poll.c: the table. *)

\* poll_init, ses_session_init and the zeroed memory of wys_malloc.
poll_init ==
    /\ fd = [c \in Cells |-> NoFd]
    /\ events = [c \in Cells |-> {"IN"}]
    /\ revents = Quiet
    /\ poll_curfds = 1
    /\ leaked = 0

ses_session_init == ses = [f \in Fds |-> NoSession]

\* The free slot poll_add takes: the lowest, or none (it returns -1 and its
\* index has run to POLL_MAX).
IsFirstFree(s) ==
    /\ fd[s] = NoFd
    /\ \A t \in Slots : t < s => fd[t] # NoFd
TableFull == \A s \in Slots : fd[s] # NoFd

PollAddCountsNever(f, s) ==
    /\ \/ s \in Slots /\ IsFirstFree(s)
       \/ s = POLL_MAX /\ TableFull
    /\ fd' = [fd EXCEPT ![s] = IF s \in Slots THEN f ELSE @]
    /\ events' = [events EXCEPT ![s] = {"IN"}]
    /\ poll_curfds' = IF s > poll_curfds THEN poll_curfds + 1 ELSE poll_curfds

PollAddCountsAlways(f, s) ==
    /\ \/ s \in Slots /\ IsFirstFree(s)
       \/ s = POLL_MAX /\ TableFull
    /\ fd' = [fd EXCEPT ![s] = IF s \in Slots THEN f ELSE @]
    /\ events' = [events EXCEPT ![s] = {"IN"}]
    /\ poll_curfds' = poll_curfds + 1

\* s is the final value of the loop index of poll_add.
poll_add(f, s) ==
    /\ \/ s \in Slots /\ IsFirstFree(s)
       \/ s = POLL_MAX /\ TableFull
    /\ fd' = [fd EXCEPT ![s] = IF s \in Slots THEN f ELSE @]
    /\ events' = [events EXCEPT ![s] = {"IN"}]
    /\ poll_curfds' = IF s = poll_curfds THEN poll_curfds + 1 ELSE poll_curfds

\* What poll_add returns, as ses_create_new_session stores it in a _u32.
PidOf(s) == IF s \in Slots THEN s ELSE (-1) % U32

-----------------------------------------------------------------------------
(* x-session.c and x-lua.c: what a handler does to its session, as the set *)
(* of possible outcomes: [end, r, in, out].  end is "keep", "release" (the *)
(* handler failed or the response is complete) or one of Ends; r is the    *)
(* session, in the bytes left in the socket, and out what becomes of       *)
(* POLLOUT in the slot session->pid: "set", "clear" or "same".             *)

Outcome(end, r, in, out) == [end |-> end, r |-> r, in |-> in, out |-> out]

SendClearsPollout(r, in) ==
    IF r.snd_len = 0
    THEN {Outcome("keep", r, in, "clear")}
    ELSE {Outcome("release", r, in, "same")} \cup
         {Outcome("keep", [r EXCEPT !.snd_len = @ - n], in, "clear") :
             n \in 1..(r.snd_len - 1)}

\* ses_send, then ses_check_send_state: a send that empties the buffer sets
\* SEND_FINISH, and poll_events_handler then releases the session.
ses_send(r, in) ==
    IF r.snd_len = 0
    THEN {Outcome("keep", r, in, "clear")}
    ELSE {Outcome("release", r, in, "same")} \cup
         {Outcome("keep", [r EXCEPT !.snd_len = @ - n], in, "same") :
             n \in 1..(r.snd_len - 1)}

\* wys_realloc(session->snd_buf, size) and what is written at offset: it
\* asserts that a block never shrinks, and may run out of memory.
GrowSendBuffer(r, in, size, offset, len) ==
    IF r.snd_size > size THEN {Outcome("abort157", r, in, "same")}
    ELSE {Outcome("release", [r EXCEPT !.snd_size = 0], in, "same"),
          Outcome(IF offset + len > size \/ r.snd_len + len > size
                  THEN "overrun" ELSE "keep",
                  [r EXCEPT !.snd_size = size, !.snd_len = @ + len], in, "set")}

\* ses_send_error_info: the 500 page is written at the start of the buffer.
ses_send_error_info(r, in) == GrowSendBuffer(r, in, ErrSize, 0, ErrLen)

\* lua_access and ses_send_http_data.  A script that cannot be loaded leaves
\* the request in place; one that fails has consumed it.
\* SESSION_STAT_LUA_ERROR is never cleared.
ses_http_procotol_handler(r, in) ==
    LET taken == [r EXCEPT !.rcv_len = 0]
        good  == UNION {GrowSendBuffer(taken, in, d, r.snd_len, d) : d \in RespLens}
    IN  (UNION {ses_send_error_info([s EXCEPT !.lua_error = 1], in) : s \in {r, taken}})
        \cup (UNION {IF o.end = "keep" /\ o.r.lua_error = 1
                     THEN ses_send_error_info(o.r, in) ELSE {o} : o \in good})

\* ses_recv.  It reads BUF bytes at a time until a read is short, so a read
\* that ends on a multiple of BUF is followed by one that returns no data and
\* fails, as does every read at the end of the stream.  strstr looks for the
\* blank line past the end of the unterminated buffer, so it may find one in
\* an incomplete request.
ses_recv(r, in) ==
    LET got == [r EXCEPT !.rcv_len = @ + in]
    IN  {Outcome("release", r, 0, "same")} \cup
        IF in % BUF = 0 THEN {}
        ELSE ses_http_procotol_handler(got, 0) \cup
             (IF got.rcv_len < ReqLen THEN {Outcome("keep", got, 0, "same")} ELSE {})

\* poll_events_handler for a slot whose descriptor has a session.
poll_events_handler(r, in, ev) ==
    IF "ERR" \in ev THEN {Outcome("release", r, in, "same")}
    ELSE LET sent == IF "OUT" \in ev THEN ses_send(r, in)
                     ELSE {Outcome("keep", r, in, "same")}
         IN  UNION {IF o.end = "keep" /\ "IN" \in ev
                    THEN {IF p.out = "same" THEN [p EXCEPT !.out = o.out] ELSE p :
                              p \in ses_recv(o.r, o.in)}
                    ELSE {o} : o \in sent}

-----------------------------------------------------------------------------
(* x-http.c and x-core.c: start-up. *)

Init ==
    /\ up = "up" /\ pc = "start" /\ i = 0 /\ nready = 0
    /\ poll_init
    /\ ses_session_init
    /\ listening = "none" /\ backlog = 0
    /\ conn = [f \in Fds |-> "closed"]
    /\ inbox = [f \in Fds |-> 0]

\* http_server_init: no socket, a socket that never listens, or a listening
\* one; main ignores the result, and poll_init asserts that there is a socket.
http_server_init ==
    /\ up = "up" /\ pc = "start"
    /\ listening' \in {"none", "unbound", "bound"}
    /\ up' = IF listening' = "none" THEN "abort209" ELSE "up"
    /\ pc' = "poll"
    /\ UNCHANGED <<i, nready, table, revents, ses, backlog, conn, inbox>>

-----------------------------------------------------------------------------
(* poll_process_run. *)

Pending == listening = "bound" /\ backlog > 0

\* What poll() reports for descriptor f.
ReadyEvents(f, wanted, writable) ==
    (IF conn[f] = "reset" THEN {"ERR"} ELSE {}) \cup
    (IF inbox[f] > 0 \/ conn[f] \in {"fin", "reset"} THEN {"IN"} ELSE {}) \cup
    (wanted \cap {"OUT"} \cap (IF f \in writable THEN {"OUT"} ELSE {}))

\* The cells as poll() sees them, g being what lies behind the table.
Seen(g) == IF poll_curfds > POLL_MAX THEN [fd EXCEPT ![POLL_MAX] = g] ELSE fd

\* What poll() reports for the first poll_curfds cells; ge for a stray one.  A
\* closed descriptor reports POLLNVAL, which counts as ready but which no
\* handler tests.
Reported(cells, ge, writable) ==
    [c \in Cells |-> IF c >= poll_curfds \/ cells[c] = NoFd THEN {}
                     ELSE IF cells[c] = Stray THEN ge
                     ELSE IF conn[cells[c]] = "closed" THEN {"NVAL"}
                     ELSE ReadyEvents(cells[c], events[c], writable)]

poll ==
    /\ up = "up" /\ pc = "poll"
    /\ \E g \in {NoFd, Stray}, ge \in {{}, {"IN"}, {"OUT"}}, writable \in SUBSET Fds :
         /\ fd' = Seen(g)
         /\ revents' = Reported(Seen(g), ge, writable)
    /\ nready' = Cardinality({c \in Cells : revents'[c] # {}}) + (IF Pending THEN 1 ELSE 0)
    /\ nready' > 0
    /\ pc' = IF Pending THEN "accept" ELSE "scan"
    /\ i' = 1
    /\ UNCHANGED <<up, events, poll_curfds, leaked, ses, net>>

PassOver == pc' = "poll" /\ i' = 0 /\ nready' = 0 /\ revents' = Quiet

\* One round of the accept loop: ses_create_new_session, and close() if it
\* fails.  Without memory for a session nothing is kept; if the socket cannot
\* be made non-blocking the slot keeps the closed descriptor.
accept ==
    /\ up = "up" /\ pc = "accept" /\ backlog > 0
    /\ backlog' = backlog - 1
    /\ UNCHANGED <<up, loop, revents, listening, inbox>>
    /\ \/ MemoryMayFail /\ UNCHANGED <<table, ses, conn>>
       \/ \E f \in Fds, s \in Cells :
            /\ conn[f] = "closed"
            /\ poll_add(f, s)
            /\ \/ /\ ses' = [ses EXCEPT ![f] = [pid |-> PidOf(s), lua_error |-> 0,
                                 rcv_len |-> 0, snd_size |-> 0, snd_len |-> 0]]
                  /\ conn' = [conn EXCEPT ![f] = "open"]
                  /\ leaked' = leaked
               \/ NoBlockMayFail /\ leaked' = 1 /\ UNCHANGED <<ses, conn>>

AcceptEndsPass ==
    /\ up = "up" /\ pc = "accept"
    /\ backlog = 0 \/ \A f \in Fds : conn[f] # "closed"
    /\ PassOver
    /\ UNCHANGED <<up, table, ses, net>>

\* accept() fails: no connection is left, or no descriptor.
accept_end ==
    /\ up = "up" /\ pc = "accept"
    /\ backlog = 0 \/ \A f \in Fds : conn[f] # "closed"
    /\ IF nready - 1 <= 0 THEN PassOver
       ELSE pc' = "scan" /\ nready' = nready - 1 /\ UNCHANGED <<i, revents>>
    /\ UNCHANGED <<up, table, ses, net>>

\* The next round of the scan, with n ready slots to come.
Advance(n) ==
    IF n <= 0 \/ i + 1 >= poll_curfds THEN PassOver
    ELSE i' = i + 1 /\ nready' = n /\ UNCHANGED <<pc, revents>>

scan_free ==
    /\ up = "up" /\ pc = "scan" /\ fd[i] = NoFd
    /\ Advance(nready)
    /\ UNCHANGED <<up, table, ses, net>>

\* An open slot without events: nready is decremented all the same.
scan_idle ==
    /\ up = "up" /\ pc = "scan" /\ fd[i] # NoFd
    /\ revents[i] \cap {"IN", "OUT", "ERR"} = {}
    /\ Advance(nready - 1)
    /\ UNCHANGED <<up, table, ses, net>>

ReleaseKeepsSession(f, s) ==
    /\ ses' = ses
    /\ fd' = [fd EXCEPT ![s] = NoFd]
    /\ events' = [events EXCEPT ![s] = {"IN"}]
    /\ conn' = [conn EXCEPT ![f] = "closed"]
    /\ inbox' = [inbox EXCEPT ![f] = 0]

ReleaseKeepsSlot(f, s) ==
    /\ ses' = [ses EXCEPT ![f] = NoSession]
    /\ fd' = fd
    /\ events' = [events EXCEPT ![s] = {"IN"}]
    /\ conn' = [conn EXCEPT ![f] = "closed"]
    /\ inbox' = [inbox EXCEPT ![f] = 0]

\* ses_release_session(f, s) on a session that is found, with poll_del.
ses_release_session(f, s) ==
    /\ ses' = [ses EXCEPT ![f] = NoSession]
    /\ fd' = [fd EXCEPT ![s] = NoFd]
    /\ events' = [events EXCEPT ![s] = {"IN"}]
    /\ conn' = [conn EXCEPT ![f] = "closed"]
    /\ inbox' = [inbox EXCEPT ![f] = 0]

\* poll_add_write and poll_del_write on the slot the session remembers.
ArmSlot(p, out) ==
    events' = [c \in Cells |-> IF c # p \/ out = "same" THEN events[c]
                               ELSE IF out = "set" THEN {"IN", "OUT"} ELSE {"IN"}]

scan_handle ==
    /\ up = "up" /\ pc = "scan" /\ fd[i] \in Fds
    /\ revents[i] \cap {"IN", "OUT", "ERR"} # {}
    /\ ses[fd[i]] # NoSession
    /\ LET f == fd[i] IN
       \E o \in poll_events_handler(ses[f], inbox[f], revents[i]) :
         \/ o.end = "release" /\ up' = "up" /\ ses_release_session(f, i)
         \/ /\ o.end # "release"
            /\ up' = IF o.end # "keep" THEN o.end
                     ELSE IF o.out # "same" /\ o.r.pid \notin Slots THEN "overrun"
                     ELSE "up"
            /\ ses' = [ses EXCEPT ![f] = o.r]
            /\ inbox' = [inbox EXCEPT ![f] = o.in]
            /\ ArmSlot(o.r.pid, o.out)
            /\ UNCHANGED <<fd, conn>>
    /\ Advance(nready - 1)
    /\ UNCHANGED <<poll_curfds, leaked, listening, backlog>>

\* A slot whose descriptor has no session: ses_send dereferences NULL, every
\* other path ends at the assertion of ses_release_session.
scan_no_session ==
    /\ up = "up" /\ pc = "scan" /\ fd[i] # NoFd
    /\ revents[i] \cap {"IN", "OUT", "ERR"} # {}
    /\ fd[i] \in Fds => ses[fd[i]] = NoSession
    /\ up' = IF "OUT" \in revents[i] /\ "ERR" \notin revents[i]
             THEN "crash" ELSE "abort139"
    /\ UNCHANGED <<loop, table, revents, ses, net>>

-----------------------------------------------------------------------------
(* The peers. *)

client_connect ==
    /\ up = "up" /\ listening = "bound" /\ backlog < MaxBacklog
    /\ backlog' = backlog + 1
    /\ UNCHANGED <<up, loop, table, revents, ses, listening, conn, inbox>>

client_send(f) ==
    /\ up = "up" /\ conn[f] = "open"
    /\ \E n \in 1..MaxIn :
         /\ inbox[f] + n + (IF ses[f] = NoSession THEN 0 ELSE ses[f].rcv_len) <= MaxIn
         /\ inbox' = [inbox EXCEPT ![f] = @ + n]
    /\ UNCHANGED <<up, loop, table, revents, ses, listening, backlog, conn>>

client_close(f) ==
    /\ up = "up" /\ conn[f] = "open"
    /\ \E c \in {"fin", "reset"} : conn' = [conn EXCEPT ![f] = c]
    /\ UNCHANGED <<up, loop, table, revents, ses, listening, backlog, inbox>>

Server == \/ http_server_init \/ poll \/ accept \/ accept_end
          \/ scan_free \/ scan_idle \/ scan_handle \/ scan_no_session

Peers == \/ client_connect
         \/ \E f \in Fds : client_send(f) \/ client_close(f)

Next == Server \/ Peers

Spec == Init /\ [][Next]_vars

\* The server loop is a single thread that never blocks for good: poll()
\* returns when a socket is ready, accept() and recv() are non-blocking.
FairSpec == Spec /\ WF_vars(Server)

-----------------------------------------------------------------------------
(* Properties. *)

\* Every variable keeps the type of the C object it stands for; poll_curfds
\* goes at most one past the table.
TypeOK ==
    /\ up \in {"up"} \cup Ends
    /\ pc \in {"start", "poll", "accept", "scan"}
    /\ i \in 0..(POLL_MAX + 1)
    /\ nready \in Int
    /\ fd \in [Cells -> Fds \cup {NoFd, Stray}]
    /\ events \in [Cells -> SUBSET {"IN", "OUT"}]
    /\ revents \in [Cells -> SUBSET {"IN", "OUT", "ERR", "NVAL"}]
    /\ poll_curfds \in 1..(POLL_MAX + 1)
    /\ leaked \in 0..1
    /\ ses \in [Fds -> Session \cup {NoSession}]
    /\ listening \in {"none", "unbound", "bound"}
    /\ backlog \in Nat
    /\ conn \in [Fds -> {"closed", "open", "fin", "reset"}]
    /\ inbox \in [Fds -> Nat]

\* No session is lost: one that names a slot is the one the slot holds, and
\* exactly the open sockets have a session, whatever fails while a connection
\* is set up.  poll_add, ses_create_new_session and ses_release_session change
\* the table and the hash separately.
SessionsHaveSlots ==
    /\ \A f \in Fds : ses[f] # NoSession /\ ses[f].pid \in Slots => fd[ses[f].pid] = f
    /\ \A f \in Fds : ses[f] = NoSession <=> conn[f] = "closed"

\* The other direction, until a socket cannot be made non-blocking and leaves
\* its slot behind: the descriptor of a slot has a session that names that slot,
\* so no descriptor is in two slots.
SlotsMatchSessions ==
    leaked = 0 =>
        \A s \in Slots : fd[s] # NoFd =>
            /\ fd[s] \in Fds
            /\ ses[fd[s]] # NoSession
            /\ ses[fd[s]].pid = s

\* poll() and the scan look at the first poll_curfds cells only: no occupied
\* slot lies beyond them, although poll_curfds never shrinks and grows only
\* when poll_add happens to stop at it.
CurfdsCoversTable == \A s \in Slots : fd[s] # NoFd => s < poll_curfds

\* While the server runs, a session with unsent bytes is polled for POLLOUT,
\* and one that holds a complete request has a response under way: no request
\* is left waiting for an event that is not asked for.
NoStalledResponse ==
    up = "up" =>
        \A f \in Fds : ses[f] # NoSession /\ ses[f].pid \in Slots =>
            /\ ses[f].snd_len > 0 => "OUT" \in events[ses[f].pid]
            /\ ses[f].rcv_len >= ReqLen => ses[f].snd_len > 0

\* The scan always serves the first slot: a connection in slot 1 that has
\* data is eventually handled, provided the accept loop comes to an end (it
\* goes on while connections keep coming and cannot be set up).  Later slots
\* have no such promise, because idle slots before them use up nready.
FirstSlotServed ==
    []<>(pc # "accept") =>
        \A f \in Fds : []<>~(up = "up" /\ fd[1] = f /\ inbox[f] > 0)

\* assert(session != NULL) in ses_release_session (x-session.c:139).
ReleaseFindsSession == up # "abort139"

\* ASSERT((info->size <= size)) in _realloc (x-memory.c:157).
ReallocNeverShrinks == up # "abort157"

=============================================================================
