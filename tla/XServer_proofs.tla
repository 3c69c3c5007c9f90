--------------------------- MODULE XServer_proofs ---------------------------
(* The poll table and the session hash of the HTTP server agree, for any   *)
(* number of slots, descriptors and bytes.                                 *)
EXTENDS XServer, FiniteSetTheorems, TLAPS

Outcomes == [end : {"keep", "release"} \cup Ends, r : Session, in : Nat,
             out : {"set", "clear", "same"}]

\* What the table proof needs to know of a handler: it returns outcomes whose
\* session still names the same slot.
KeepsPid(S, r) == \A o \in S : o \in Outcomes /\ o.r.pid = r.pid

\* Outcome builds outcomes.
LEMMA OutcomeTyped ==
    ASSUME NEW e \in {"keep", "release"} \cup Ends, NEW r \in Session, NEW in \in Nat,
           NEW out \in {"set", "clear", "same"}
    PROVE  Outcome(e, r, in, out) \in Outcomes /\ Outcome(e, r, in, out).r = r
BY Zenon DEF Outcome, Outcomes

\* ses_send keeps the slot of its session.
LEMMA SendKeepsPid ==
    ASSUME NEW r \in Session, NEW in \in Nat
    PROVE  KeepsPid(ses_send(r, in), r)
<1>1. CASE r.snd_len = 0
  BY <1>1 DEF ses_send, KeepsPid, Outcome, Outcomes, Session
<1>2. CASE r.snd_len # 0
  <2>1. ASSUME NEW n \in 1..(r.snd_len - 1)
        PROVE  [r EXCEPT !.snd_len = @ - n] \in Session
               /\ [r EXCEPT !.snd_len = @ - n].pid = r.pid
    BY DEF Session
  <2>2. ASSUME NEW o \in ses_send(r, in)
        PROVE  o \in Outcomes /\ o.r.pid = r.pid
    <3>1. CASE o = Outcome("release", r, in, "same")
      BY <3>1, Zenon DEF Outcome, Outcomes
    <3>2. CASE \E n \in 1..(r.snd_len - 1) :
                 o = Outcome("keep", [r EXCEPT !.snd_len = @ - n], in, "same")
      <4>1. PICK n \in 1..(r.snd_len - 1) :
                 o = Outcome("keep", [r EXCEPT !.snd_len = @ - n], in, "same")
        BY <3>2, Zenon
      <4> DEFINE rest == [r EXCEPT !.snd_len = @ - n]
      <4>2. rest \in Session /\ rest.pid = r.pid /\ o = Outcome("keep", rest, in, "same")
        BY <2>1, <4>1, Zenon
      <4> HIDE DEF rest
      <4>3. QED
        BY <4>2, OutcomeTyped, Zenon
    <3>3. QED
      BY <1>2, <3>1, <3>2, Zenon DEF ses_send
  <2>3. QED
    BY <2>2, Zenon DEF KeepsPid
<1>3. QED
  BY <1>1, <1>2, Zenon

\* wys_realloc of the send buffer keeps the slot of the session.
LEMMA GrowKeepsPid ==
    ASSUME NEW r \in Session, NEW in \in Nat, NEW size \in Nat, NEW offset \in Nat,
           NEW len \in Nat
    PROVE  KeepsPid(GrowSendBuffer(r, in, size, offset, len), r)
<1> DEFINE freed == [r EXCEPT !.snd_size = 0]
<1>1. freed \in Session /\ freed.pid = r.pid
  BY Zenon DEF Session
<1> DEFINE grown == [r EXCEPT !.snd_size = size, !.snd_len = @ + len]
<1>2. grown \in Session /\ grown.pid = r.pid
  <2>1. r.snd_len + len \in Nat
    BY DEF Session
  <2> DEFINE sized == [r EXCEPT !.snd_size = size]
  <2>2. sized \in Session /\ sized.pid = r.pid /\ sized.snd_len = r.snd_len
    BY Zenon DEF Session
  <2>3. grown = [sized EXCEPT !.snd_len = r.snd_len + len]
    BY Zenon DEF Session
  <2> HIDE DEF sized, grown
  <2>4. QED
    BY <2>1, <2>2, <2>3, Zenon DEF Session
<1>3. CASE r.snd_size > size
  BY <1>3 DEF GrowSendBuffer, KeepsPid, Outcome, Outcomes, Ends
<1>4. CASE ~(r.snd_size > size)
  <2> HIDE DEF freed, grown
  <2>1. ASSUME NEW e \in {"keep", "overrun"}
        PROVE  KeepsPid({Outcome(e, grown, in, "set")}, r)
    BY <1>2, OutcomeTyped DEF KeepsPid, Ends
  <2>2. KeepsPid({Outcome("release", freed, in, "same")}, r)
    BY <1>1, OutcomeTyped DEF KeepsPid
  <2>3. PICK e \in {"keep", "overrun"} : GrowSendBuffer(r, in, size, offset, len) =
               {Outcome("release", freed, in, "same"),
                Outcome(e, grown, in, "set")}
    BY <1>4, Zenon DEF GrowSendBuffer, freed, grown
  <2>4. QED
    BY <2>1, <2>2, <2>3, Zenon DEF KeepsPid
<1>5. QED
  BY <1>3, <1>4, Zenon

\* ses_send_error_info keeps the slot of its session.
LEMMA ErrorKeepsPid ==
    ASSUME NEW r \in Session, NEW in \in Nat
    PROVE  KeepsPid(ses_send_error_info(r, in), r)
<1>1. ErrSize \in Nat /\ ErrLen \in Nat
  BY ServerAssumption
<1>2. QED
  BY <1>1, GrowKeepsPid, Zenon DEF ses_send_error_info

\* The Lua handler keeps the slot of its session.
LEMMA HandlerKeepsPid ==
    ASSUME NEW r \in Session, NEW in \in Nat
    PROVE  KeepsPid(ses_http_procotol_handler(r, in), r)
<1> DEFINE taken == [r EXCEPT !.rcv_len = 0]
           good  == UNION {GrowSendBuffer(taken, in, d, r.snd_len, d) : d \in RespLens}
           errs  == UNION {ses_send_error_info([s EXCEPT !.lua_error = 1], in) : s \in {r, taken}}
<1>1. taken \in Session /\ taken.pid = r.pid
  BY Zenon DEF Session
<1>2. KeepsPid(good, r)
  <2>1. ASSUME NEW d \in RespLens
        PROVE  KeepsPid(GrowSendBuffer(taken, in, d, r.snd_len, d), r)
    <3>1. d \in Nat /\ r.snd_len \in Nat
      BY ServerAssumption, Zenon DEF Session
    <3>2. KeepsPid(GrowSendBuffer(taken, in, d, r.snd_len, d), taken)
      BY <1>1, <3>1, GrowKeepsPid, Zenon
    <3>3. QED
      BY <1>1, <3>2, Zenon DEF KeepsPid
  <2>2. QED
    BY <2>1, Zenon DEF KeepsPid
<1>3. KeepsPid(errs, r)
  <2>1. ASSUME NEW s \in {r, taken}
        PROVE  KeepsPid(ses_send_error_info([s EXCEPT !.lua_error = 1], in), r)
    <3>1. s \in Session /\ s.pid = r.pid
      BY <1>1, Zenon
    <3>2. /\ [s EXCEPT !.lua_error = 1] \in Session
          /\ [s EXCEPT !.lua_error = 1].pid = r.pid
      BY <3>1 DEF Session
    <3>3. KeepsPid(ses_send_error_info([s EXCEPT !.lua_error = 1], in),
                   [s EXCEPT !.lua_error = 1])
      BY <3>2, ErrorKeepsPid, Zenon
    <3>4. QED
      BY <3>2, <3>3, Zenon DEF KeepsPid
  <2>2. QED
    BY <2>1, Zenon DEF KeepsPid
<1>4. ASSUME NEW o \in good
      PROVE  KeepsPid(IF o.end = "keep" /\ o.r.lua_error = 1
                      THEN ses_send_error_info(o.r, in) ELSE {o}, r)
  <2>1. o \in Outcomes /\ o.r.pid = r.pid /\ o.r \in Session
    BY <1>2, Zenon DEF KeepsPid, Outcomes
  <2>2. KeepsPid(ses_send_error_info(o.r, in), o.r)
    BY <2>1, ErrorKeepsPid, Zenon
  <2>3. QED
    BY <2>1, <2>2, Zenon DEF KeepsPid
<1>5. KeepsPid(UNION {IF o.end = "keep" /\ o.r.lua_error = 1
                      THEN ses_send_error_info(o.r, in) ELSE {o} : o \in good}, r)
  BY <1>4, Zenon DEF KeepsPid
<1> DEFINE both == UNION {IF o.end = "keep" /\ o.r.lua_error = 1
                          THEN ses_send_error_info(o.r, in) ELSE {o} : o \in good}
<1>6. ses_http_procotol_handler(r, in) = errs \cup both
  BY Zenon DEF ses_http_procotol_handler
<1> HIDE DEF errs, both
<1>7. KeepsPid(both, r)
  BY <1>5, Zenon DEF both
<1>8. QED
  BY <1>3, <1>6, <1>7, Zenon DEF KeepsPid

\* ses_recv keeps the slot of its session.
LEMMA RecvKeepsPid ==
    ASSUME NEW r \in Session, NEW in \in Nat
    PROVE  KeepsPid(ses_recv(r, in), r)
<1> DEFINE got == [r EXCEPT !.rcv_len = @ + in]
<1>1. got \in Session /\ got.pid = r.pid
  BY DEF Session
<1>2. KeepsPid(ses_http_procotol_handler(got, 0), got)
  BY <1>1, HandlerKeepsPid, Zenon
<1>3. KeepsPid({Outcome("release", r, 0, "same")}, r)
  BY DEF KeepsPid, Outcome, Outcomes
<1> HIDE DEF got
<1>4. KeepsPid(IF got.rcv_len < ReqLen THEN {Outcome("keep", got, 0, "same")} ELSE {}, r)
  BY <1>1, OutcomeTyped DEF KeepsPid
<1>5. KeepsPid(ses_http_procotol_handler(got, 0), r)
  BY <1>1, <1>2, Zenon DEF KeepsPid
<1>6. QED
  BY <1>3, <1>4, <1>5, Zenon DEF ses_recv, KeepsPid, got

\* poll_events_handler keeps the slot of its session.
LEMMA EventsKeepPid ==
    ASSUME NEW r \in Session, NEW in \in Nat, NEW ev
    PROVE  KeepsPid(poll_events_handler(r, in, ev), r)
<1> DEFINE sent == IF "OUT" \in ev THEN ses_send(r, in) ELSE {Outcome("keep", r, in, "same")}
           next(o) == IF o.end = "keep" /\ "IN" \in ev
                      THEN {IF p.out = "same" THEN [p EXCEPT !.out = o.out] ELSE p :
                                p \in ses_recv(o.r, o.in)}
                      ELSE {o}
<1>1. KeepsPid({Outcome("release", r, in, "same")}, r)
  BY DEF KeepsPid, Outcome, Outcomes
<1>2. KeepsPid(sent, r)
  <2>1. KeepsPid({Outcome("keep", r, in, "same")}, r)
    BY DEF KeepsPid, Outcome, Outcomes
  <2>2. QED
    BY <2>1, SendKeepsPid, Zenon
<1>3. ASSUME NEW o \in sent
      PROVE  KeepsPid(next(o), r)
  <2>1. o \in Outcomes /\ o.r.pid = r.pid
    BY <1>2, Zenon DEF KeepsPid
  <2>2. o.r \in Session /\ o.in \in Nat /\ o.out \in {"set", "clear", "same"}
    BY <2>1, Zenon DEF Outcomes
  <2>3. KeepsPid(ses_recv(o.r, o.in), o.r)
    BY <2>2, RecvKeepsPid, Zenon
  <2>4. ASSUME NEW p \in ses_recv(o.r, o.in)
        PROVE  /\ [p EXCEPT !.out = o.out] \in Outcomes
               /\ [p EXCEPT !.out = o.out].r.pid = r.pid
               /\ p \in Outcomes /\ p.r.pid = r.pid
    BY <2>1, <2>2, <2>3, Zenon DEF KeepsPid, Outcomes
  <2>5. QED
    BY <2>1, <2>4, Zenon DEF KeepsPid
<1> HIDE DEF sent, next
<1>4. KeepsPid(UNION {next(o) : o \in sent}, r)
  BY <1>3, Zenon DEF KeepsPid
<1>5. QED
  BY <1>1, <1>4, Zenon DEF poll_events_handler, sent, next

-----------------------------------------------------------------------------
(* What a handler promises about a response.                               *)

\* A session that holds a complete request has a response under way.
Fed(r) == r.rcv_len >= ReqLen => r.snd_len > 0

\* Whenever the handler keeps the session r, the session is served, and what
\* becomes of POLLOUT goes with what is left to send.
Serves(S, r) == \A o \in S : o.end = "keep" =>
    /\ Fed(o.r)
    /\ o.out = "set" => o.r.snd_len > 0
    /\ o.out = "clear" => o.r.snd_len = 0
    /\ o.out = "same" => (o.r.snd_len > 0 => r.snd_len > 0)

\* Whenever a handler that builds a response keeps the session, the response
\* is in the send buffer and POLLOUT is set.
Answers(S) == \A o \in S : o.end = "keep" => o.out = "set" /\ o.r.snd_len > 0

\* ses_send leaves POLLOUT set until the buffer is empty.
LEMMA SendServes ==
    ASSUME NEW r \in Session, NEW in \in Nat, Fed(r)
    PROVE  Serves(ses_send(r, in), r)
<1>1. CASE r.snd_len = 0
  BY <1>1 DEF ses_send, Serves, Outcome
<1>2. CASE r.snd_len # 0
  <2>1. ASSUME NEW o \in ses_send(r, in), o.end = "keep"
        PROVE  o.out = "same" /\ o.r.snd_len > 0 /\ r.snd_len > 0
    <3>1. o # Outcome("release", r, in, "same")
      BY <2>1 DEF Outcome
    <3>2. PICK n \in 1..(r.snd_len - 1) :
                 o = Outcome("keep", [r EXCEPT !.snd_len = @ - n], in, "same")
      BY <1>2, <3>1, Zenon DEF ses_send
    <3>3. [r EXCEPT !.snd_len = @ - n].snd_len > 0 /\ r.snd_len > 0
      BY DEF Session
    <3> DEFINE rest == [r EXCEPT !.snd_len = @ - n]
    <3> HIDE DEF rest
    <3>4. o.r = rest /\ o.out = "same"
      BY <3>2, Zenon DEF Outcome, rest
    <3>5. QED
      BY <3>3, <3>4, Zenon DEF rest
  <2>2. QED
    BY <2>1, Zenon DEF Serves, Fed
<1>3. QED
  BY <1>1, <1>2, Zenon

\* What is written to the send buffer is not empty, and POLLOUT is set for it.
LEMMA GrowAnswers ==
    ASSUME NEW r \in Session, NEW in \in Nat, NEW size \in Nat, NEW offset \in Nat,
           NEW len \in Nat \ {0}
    PROVE  Answers(GrowSendBuffer(r, in, size, offset, len))
<1> DEFINE freed == [r EXCEPT !.snd_size = 0]
           grown == [r EXCEPT !.snd_size = size, !.snd_len = @ + len]
<1>1. grown.snd_len > 0
  <2>1. grown.snd_len = r.snd_len + len
    BY Zenon DEF Session
  <2>2. QED
    BY <2>1 DEF Session
<1> HIDE DEF freed, grown
<1>2. CASE r.snd_size > size
  BY <1>2 DEF GrowSendBuffer, Answers, Outcome
<1>3. CASE ~(r.snd_size > size)
  <2>1. PICK e \in {"keep", "overrun"} : GrowSendBuffer(r, in, size, offset, len) =
               {Outcome("release", freed, in, "same"),
                Outcome(e, grown, in, "set")}
    BY <1>3, Zenon DEF GrowSendBuffer, freed, grown
  <2>2. QED
    BY <1>1, <2>1 DEF Answers, Outcome
<1>4. QED
  BY <1>2, <1>3, Zenon

\* So does the 500 page.
LEMMA ErrorAnswers ==
    ASSUME NEW r \in Session, NEW in \in Nat
    PROVE  Answers(ses_send_error_info(r, in))
<1>1. ErrSize \in Nat /\ ErrLen \in Nat \ {0}
  BY ServerAssumption
<1>2. QED
  BY <1>1, GrowAnswers, Zenon DEF ses_send_error_info

\* Whatever Lua does with a request, a session that is kept is answered.
LEMMA HandlerAnswers ==
    ASSUME NEW r \in Session, NEW in \in Nat
    PROVE  Answers(ses_http_procotol_handler(r, in))
<1> DEFINE taken == [r EXCEPT !.rcv_len = 0]
           good  == UNION {GrowSendBuffer(taken, in, d, r.snd_len, d) : d \in RespLens}
           errs  == UNION {ses_send_error_info([s EXCEPT !.lua_error = 1], in) : s \in {r, taken}}
           both  == UNION {IF o.end = "keep" /\ o.r.lua_error = 1
                           THEN ses_send_error_info(o.r, in) ELSE {o} : o \in good}
<1>1. taken \in Session
  BY Zenon DEF Session
<1>2. Answers(good) /\ \A o \in good : o.r \in Session
  <2>1. ASSUME NEW d \in RespLens
        PROVE  /\ Answers(GrowSendBuffer(taken, in, d, r.snd_len, d))
               /\ \A o \in GrowSendBuffer(taken, in, d, r.snd_len, d) : o.r \in Session
    <3>1. d \in Nat \ {0} /\ r.snd_len \in Nat
      BY ServerAssumption, Zenon DEF Session
    <3>2. KeepsPid(GrowSendBuffer(taken, in, d, r.snd_len, d), taken)
      BY <1>1, <3>1, GrowKeepsPid, Zenon
    <3>3. QED
      BY <1>1, <3>1, <3>2, GrowAnswers, Zenon DEF KeepsPid, Outcomes
  <2>2. QED
    BY <2>1, Zenon DEF Answers
<1>3. Answers(errs)
  <2>1. ASSUME NEW s \in {r, taken}
        PROVE  Answers(ses_send_error_info([s EXCEPT !.lua_error = 1], in))
    <3>1. s \in Session
      BY <1>1, Zenon
    <3>2. [s EXCEPT !.lua_error = 1] \in Session
      BY <3>1 DEF Session
    <3>3. QED
      BY <3>2, ErrorAnswers, Zenon
  <2>2. QED
    BY <2>1, Zenon DEF Answers
<1>4. Answers(both)
  <2>1. ASSUME NEW o \in good
        PROVE  Answers(IF o.end = "keep" /\ o.r.lua_error = 1
                       THEN ses_send_error_info(o.r, in) ELSE {o})
    <3>1. Answers(ses_send_error_info(o.r, in))
      BY <1>2, ErrorAnswers, Zenon
    <3>2. Answers({o})
      BY <1>2, Zenon DEF Answers
    <3>3. QED
      BY <3>1, <3>2, Zenon
  <2>2. QED
    BY <2>1, Zenon DEF Answers
<1>5. ses_http_procotol_handler(r, in) = errs \cup both
  BY Zenon DEF ses_http_procotol_handler
<1> HIDE DEF errs, both
<1>6. QED
  BY <1>3, <1>4, <1>5, Zenon DEF Answers

\* ses_recv leaves a complete request only with a response.
LEMMA RecvServes ==
    ASSUME NEW r \in Session, NEW in \in Nat
    PROVE  Serves(ses_recv(r, in), r)
<1> DEFINE got == [r EXCEPT !.rcv_len = @ + in]
<1>1. got \in Session /\ got.snd_len = r.snd_len
  BY DEF Session
<1>2. Answers(ses_http_procotol_handler(got, 0))
  BY <1>1, HandlerAnswers, Zenon
<1>3. KeepsPid(ses_http_procotol_handler(got, 0), got)
  BY <1>1, HandlerKeepsPid, Zenon
<1> HIDE DEF got
<1>4. Serves(ses_http_procotol_handler(got, 0), r)
  BY <1>2, Zenon DEF Answers, Serves, Fed
<1>5. Serves({Outcome("release", r, 0, "same")}, r)
  BY DEF Serves, Outcome
<1>6. Serves(IF got.rcv_len < ReqLen THEN {Outcome("keep", got, 0, "same")} ELSE {}, r)
  <2>1. got.rcv_len < ReqLen => Fed(got)
    BY <1>1, ServerAssumption DEF Fed, Session
  <2>2. QED
    BY <1>1, <2>1 DEF Serves, Outcome
<1>7. QED
  BY <1>4, <1>5, <1>6, Zenon DEF ses_recv, Serves, got

\* poll_events_handler serves its session.
LEMMA EventsServe ==
    ASSUME NEW r \in Session, NEW in \in Nat, NEW ev, Fed(r)
    PROVE  Serves(poll_events_handler(r, in, ev), r)
<1> DEFINE sent == IF "OUT" \in ev THEN ses_send(r, in) ELSE {Outcome("keep", r, in, "same")}
           next(o) == IF o.end = "keep" /\ "IN" \in ev
                      THEN {IF p.out = "same" THEN [p EXCEPT !.out = o.out] ELSE p :
                                p \in ses_recv(o.r, o.in)}
                      ELSE {o}
<1>1. Serves({Outcome("release", r, in, "same")}, r)
  BY DEF Serves, Outcome
<1>2. Serves(sent, r) /\ KeepsPid(sent, r)
  <2>1. KeepsPid({Outcome("keep", r, in, "same")}, r)
    BY DEF KeepsPid, Outcome, Outcomes
  <2>2. Serves({Outcome("keep", r, in, "same")}, r)
    BY DEF Serves, Outcome
  <2>3. QED
    BY <2>1, <2>2, SendKeepsPid, SendServes, Zenon
<1>3. ASSUME NEW o \in sent
      PROVE  Serves(next(o), r)
  <2>1. o \in Outcomes /\ o.r \in Session /\ o.in \in Nat /\ o.out \in {"set", "clear", "same"}
    BY <1>2, Zenon DEF KeepsPid, Outcomes
  <2>2. CASE o.end = "keep" /\ "IN" \in ev
    <3>1. Serves(ses_recv(o.r, o.in), o.r) /\ KeepsPid(ses_recv(o.r, o.in), o.r)
      BY <2>1, RecvServes, RecvKeepsPid, Zenon
    <3>2. /\ o.out = "set" => o.r.snd_len > 0
          /\ o.out = "clear" => o.r.snd_len = 0
          /\ o.out = "same" => (o.r.snd_len > 0 => r.snd_len > 0)
          /\ o.out # "set"
      <4>1. o.out # "set"
        BY DEF ses_send, Outcome
      <4>2. QED
        BY <1>2, <2>2, <4>1, Zenon DEF Serves
    <3>3. ASSUME NEW p \in ses_recv(o.r, o.in), NEW q,
                 q = IF p.out = "same" THEN [p EXCEPT !.out = o.out] ELSE p,
                 q.end = "keep"
          PROVE  /\ Fed(q.r)
                 /\ q.out = "set" => q.r.snd_len > 0
                 /\ q.out = "clear" => q.r.snd_len = 0
                 /\ q.out = "same" => (q.r.snd_len > 0 => r.snd_len > 0)
      <4>1. p \in Outcomes /\ p.r \in Session
        BY <3>1, Zenon DEF KeepsPid, Outcomes
      <4>2. q.end = p.end /\ q.r = p.r /\ q.out = (IF p.out = "same" THEN o.out ELSE p.out)
        BY <2>1, <3>3, <4>1, Zenon DEF Outcomes
      <4>3. /\ Fed(p.r)
            /\ p.out = "set" => p.r.snd_len > 0
            /\ p.out = "clear" => p.r.snd_len = 0
            /\ p.out = "same" => (p.r.snd_len > 0 => o.r.snd_len > 0)
        BY <3>1, <3>3, <4>2, Zenon DEF Serves
      <4>4. p.r.snd_len \in Nat /\ o.r.snd_len \in Nat
        BY <2>1, <4>1, Zenon DEF Session
      <4>5. CASE p.out = "same"
        BY <3>2, <4>2, <4>3, <4>4, <4>5
      <4>6. CASE p.out # "same"
        BY <4>2, <4>3, <4>6, Zenon
      <4>7. QED
        BY <4>5, <4>6, Zenon
    <3>4. QED
      BY <2>2, <3>3, Zenon DEF Serves
  <2>3. CASE ~(o.end = "keep" /\ "IN" \in ev)
    BY <1>2, <2>3, Zenon DEF Serves
  <2>4. QED
    BY <2>2, <2>3, Zenon
<1> HIDE DEF sent, next
<1>4. Serves(UNION {next(o) : o \in sent}, r)
  BY <1>3, Zenon DEF Serves
<1>5. QED
  BY <1>1, <1>4, Zenon DEF poll_events_handler, sent, next

-----------------------------------------------------------------------------
\* The inductive invariant: the three properties of the table, that the scan
\* stays within the cells, and that the memory behind the table never holds
\* one of the server's own descriptors.
IInv == /\ TypeOK
        /\ SessionsHaveSlots
        /\ SlotsMatchSessions
        /\ CurfdsCoversTable
        /\ pc \in {"accept", "scan"} => i \in Cells
        /\ fd[POLL_MAX] \notin Fds

\* The initial states satisfy the invariant.
LEMMA InitIInv == Init => IInv
<1> SUFFICES ASSUME Init PROVE IInv
  BY Zenon
<1> USE ServerAssumption, NoSessionAssumption DEF Init, poll_init, ses_session_init
<1>1. TypeOK
  BY DEF TypeOK, Quiet, Cells
<1>2. SessionsHaveSlots
  BY Zenon DEF SessionsHaveSlots
<1>3. SlotsMatchSessions
  BY DEF SlotsMatchSessions, Slots, Cells
<1>4. CurfdsCoversTable
  BY DEF CurfdsCoversTable, Slots, Cells
<1>5. POLL_MAX \in Cells
  BY DEF Cells
<1>6. fd[POLL_MAX] \notin Fds
  BY <1>5, Zenon
<1>7. QED
  BY <1>1, <1>2, <1>3, <1>4, <1>6, Zenon DEF IInv

\* The number of ready cells is a natural number.
LEMMA ReadyCount ==
    ASSUME NEW S, S \subseteq Cells
    PROVE  Cardinality(S) \in Nat
<1>1. IsFiniteSet(1..POLL_MAX)
  BY ServerAssumption, FS_Interval
<1>2. QED
  BY <1>1, FS_Subset, FS_CardinalityType, Zenon DEF Cells

\* The slot poll_add takes is at most poll_curfds: every lower slot is
\* occupied, and the occupied ones are all covered.
LEMMA FreeSlotCovered ==
    ASSUME TypeOK, CurfdsCoversTable, NEW s \in Cells,
           \/ s \in Slots /\ IsFirstFree(s)
           \/ s = POLL_MAX /\ TableFull
    PROVE  s <= poll_curfds
<1> USE ServerAssumption
<1>1. CASE s = 1
  BY <1>1 DEF TypeOK
<1>2. CASE s # 1
  <2>1. s - 1 \in Slots /\ s - 1 < s
    BY <1>2 DEF Slots, Cells
  <2>2. fd[s - 1] # NoFd
    BY <2>1, Zenon DEF IsFirstFree, TableFull
  <2>3. s - 1 < poll_curfds
    BY <2>1, <2>2, Zenon DEF CurfdsCoversTable
  <2>4. QED
    BY <2>3 DEF TypeOK, Cells
<1>3. QED
  BY <1>1, <1>2, Zenon

-----------------------------------------------------------------------------
\* poll() only reports; the cell behind the table may show a stray descriptor.
LEMMA PollIInv == IInv /\ poll => IInv'
<1> SUFFICES ASSUME IInv, poll PROVE IInv'
  BY Zenon
<1> USE ServerAssumption DEF table, net, loop
<1>1. PICK g \in {NoFd, Stray}, ge \in {{}, {"IN"}, {"OUT"}}, writable \in SUBSET Fds :
        fd' = Seen(g) /\ revents' = Reported(Seen(g), ge, writable)
  BY Zenon DEF poll
<1> DEFINE rest == /\ up' = up /\ pc' \in {"accept", "scan"} /\ i' = 1
                   /\ UNCHANGED <<events, poll_curfds, leaked, ses, net>>
<1>0. rest
  BY Zenon DEF poll
<1>2. fd' \in [Cells -> Fds \cup {NoFd, Stray}]
  BY <1>1, Zenon DEF Seen, IInv, TypeOK
<1>3. revents' \in [Cells -> SUBSET {"IN", "OUT", "ERR", "NVAL"}]
  BY <1>1, <1>2, Zenon DEF Reported, ReadyEvents, IInv, TypeOK
<1>4. nready' \in Int
  <2>1. Cardinality({c \in Cells : revents'[c] # {}}) \in Nat
    BY ReadyCount, Zenon
  <2>2. QED
    BY <2>1 DEF poll
<1>5. TypeOK'
  BY <1>0, <1>2, <1>3, <1>4 DEF IInv, TypeOK
<1>6. \A s \in Slots : fd'[s] = fd[s]
  BY <1>1 DEF Seen, Slots, IInv, TypeOK, Cells
<1>7. SessionsHaveSlots'
  BY <1>0, <1>6, Zenon DEF IInv, SessionsHaveSlots
<1>8. SlotsMatchSessions'
  BY <1>0, <1>6, Zenon DEF IInv, SlotsMatchSessions
<1>9. CurfdsCoversTable'
  BY <1>0, <1>6, Zenon DEF IInv, CurfdsCoversTable
<1>10. (pc \in {"accept", "scan"} => i \in Cells)'
  BY <1>0 DEF Cells
<1>11. fd'[POLL_MAX] \notin Fds
  <2>1. POLL_MAX \in Cells
    BY DEF Cells
  <2>2. QED
    BY <1>1, <2>1, Zenon DEF Seen, IInv, TypeOK
<1>12. QED
  BY <1>5, <1>7, <1>8, <1>9, <1>10, <1>11, Zenon DEF IInv

\* A new connection takes a free slot and a descriptor without a session, so
\* neither the table nor the hash loses an entry.
LEMMA AcceptIInv == IInv /\ accept => IInv'
<1> SUFFICES ASSUME IInv, accept PROVE IInv'
  BY Zenon
<1> USE ServerAssumption, NoSessionAssumption DEF table, net, loop
<1>1. backlog' \in Nat
  BY DEF accept, IInv, TypeOK
<1>2. CASE UNCHANGED <<table, ses, conn>>
  <2>1. TypeOK'
    BY <1>1, <1>2, Zenon DEF accept, IInv, TypeOK
  <2>2. QED
    BY <1>2, <2>1, Zenon DEF accept, IInv, SessionsHaveSlots, SlotsMatchSessions,
                      CurfdsCoversTable
<1>3. ASSUME NEW f \in Fds, NEW s \in Cells, conn[f] = "closed", poll_add(f, s),
             \/ /\ ses' = [ses EXCEPT ![f] = [pid |-> PidOf(s), lua_error |-> 0,
                              rcv_len |-> 0, snd_size |-> 0, snd_len |-> 0]]
                /\ conn' = [conn EXCEPT ![f] = "open"]
                /\ leaked' = leaked
             \/ NoBlockMayFail /\ leaked' = 1 /\ UNCHANGED <<ses, conn>>
      PROVE  IInv'
  <2> DEFINE new == [pid |-> PidOf(s), lua_error |-> 0,
                     rcv_len |-> 0, snd_size |-> 0, snd_len |-> 0]
  <2>1. s <= poll_curfds
    BY <1>3, FreeSlotCovered, Zenon DEF poll_add, IInv
  <2>2. new \in Session /\ new.pid = PidOf(s) /\ PidOf(s) \in 0..(U32 - 1)
        /\ (PidOf(s) \in Slots => PidOf(s) = s /\ s \in Slots)
    <3>1. (-1) % U32 = U32 - 1
      OBVIOUS
    <3>2. PidOf(s) \in 0..(U32 - 1)
      BY <3>1 DEF PidOf, Slots
    <3>3. PidOf(s) \in Slots => PidOf(s) = s /\ s \in Slots
      BY <3>1 DEF PidOf, Slots
    <3>4. QED
      BY <3>2, <3>3 DEF Session
  <2> HIDE DEF new
  <2>3. ses[f] = NoSession
    BY <1>3, Zenon DEF IInv, SessionsHaveSlots
  <2>4. TypeOK'
    <3>1. fd' \in [Cells -> Fds \cup {NoFd, Stray}]
      BY <1>3, Zenon DEF poll_add, IInv, TypeOK
    <3>2. events' \in [Cells -> SUBSET {"IN", "OUT"}]
      BY <1>3, Zenon DEF poll_add, IInv, TypeOK
    <3>3. poll_curfds' \in 1..(POLL_MAX + 1)
      BY <1>3 DEF poll_add, IInv, TypeOK, Cells
    <3>4. ses' \in [Fds -> Session \cup {NoSession}]
          /\ conn' \in [Fds -> {"closed", "open", "fin", "reset"}]
      BY <1>3, <2>2 DEF new, IInv, TypeOK
    <3>5. QED
      BY <1>1, <3>1, <3>2, <3>3, <3>4 DEF accept, IInv, TypeOK
  <2>5. \A t \in Slots : t # s => fd'[t] = fd[t]
    BY <1>3 DEF poll_add, IInv, TypeOK, Slots, Cells
  <2>6. s \in Slots => fd[s] = NoFd /\ fd'[s] = f
    BY <1>3 DEF poll_add, IsFirstFree, IInv, TypeOK, Slots, Cells
  <2>7. SessionsHaveSlots'
    <3>1. ASSUME NEW g \in Fds, g # f, ses[g] # NoSession, ses[g].pid \in Slots
          PROVE  fd'[ses[g].pid] = g
      BY <2>5, <2>6, <3>1, Zenon DEF IInv, SessionsHaveSlots
    <3>2. \A g \in Fds : g # f => ses'[g] = ses[g] /\ conn'[g] = conn[g]
      BY <1>3, Zenon DEF IInv, TypeOK
    <3>3. \/ ses'[f] = new /\ conn'[f] = "open"
          \/ ses'[f] = NoSession /\ conn'[f] = "closed"
      BY <1>3, <2>3, Zenon DEF new, IInv, TypeOK
    <3>4. ses'[f] # NoSession /\ ses'[f].pid \in Slots => fd'[ses'[f].pid] = f
      BY <2>2, <2>6, <3>3, Zenon
    <3>5. new # NoSession
      BY <2>2, Zenon
    <3>6. QED
      BY <3>1, <3>2, <3>3, <3>4, <3>5, Zenon DEF IInv, SessionsHaveSlots
  <2>8. SlotsMatchSessions'
    <3>1. SUFFICES ASSUME leaked' = 0, NEW t \in Slots, fd'[t] # NoFd
                   PROVE  fd'[t] \in Fds /\ ses'[fd'[t]] # NoSession /\ ses'[fd'[t]].pid = t
      BY Zenon DEF SlotsMatchSessions
    <3>2. ses'[f] = new /\ \A g \in Fds : g # f => ses'[g] = ses[g]
      BY <1>3, <3>1 DEF new, IInv, TypeOK
    <3>3. CASE t = s
      BY <2>2, <2>6, <3>2, <3>3, Zenon DEF PidOf
    <3>4. CASE t # s
      BY <1>3, <2>3, <2>5, <3>1, <3>2, <3>4 DEF IInv, SlotsMatchSessions
    <3>5. QED
      BY <3>3, <3>4, Zenon
  <2>9. CurfdsCoversTable'
    <3>1. SUFFICES ASSUME NEW t \in Slots, fd'[t] # NoFd PROVE t < poll_curfds'
      BY Zenon DEF CurfdsCoversTable
    <3>2. poll_curfds' >= poll_curfds /\ poll_curfds' > s
      BY <1>3, <2>1 DEF poll_add, IInv, TypeOK, Cells
    <3>3. CASE t = s
      BY <3>2, <3>3, Zenon
    <3>4. CASE t # s
      <4>1. t < poll_curfds
        BY <2>5, <3>1, <3>4, Zenon DEF IInv, CurfdsCoversTable
      <4>2. QED
        BY <3>2, <4>1, <2>4 DEF IInv, TypeOK, Slots
    <3>5. QED
      BY <3>3, <3>4, Zenon
  <2>10. fd'[POLL_MAX] \notin Fds
    BY <1>3 DEF poll_add, IInv, TypeOK, Slots, Cells
  <2>11. QED
    BY <2>4, <2>7, <2>8, <2>9, <2>10, Zenon DEF accept, IInv
<1>4. QED
  BY <1>2, <1>3, Zenon DEF accept

\* Going on to the next cell, or back to poll(), stays within the cells.
LEMMA AdvanceBounds ==
    ASSUME IInv, pc = "scan", NEW n \in Int, Advance(n)
    PROVE  /\ pc' \in {"poll", "scan"} /\ i' \in 0..(POLL_MAX + 1) /\ nready' \in Int
           /\ revents' \in [Cells -> SUBSET {"IN", "OUT", "ERR", "NVAL"}]
           /\ pc' \in {"accept", "scan"} => i' \in Cells
<1> USE ServerAssumption
<1>1. CASE PassOver
  BY <1>1 DEF PassOver, Quiet, Cells
<1>2. CASE i + 1 < poll_curfds /\ i' = i + 1 /\ nready' = n /\ UNCHANGED <<pc, revents>>
  BY <1>2 DEF IInv, TypeOK, Cells
<1>3. QED
  BY <1>1, <1>2 DEF Advance, IInv, TypeOK, Cells

\* The cell the loop handles is a slot of an open connection with a session.
LEMMA HandledCell ==
    ASSUME IInv, scan_handle
    PROVE  /\ fd[i] \in Fds /\ i \in Slots /\ pc = "scan" /\ up = "up"
           /\ ses[fd[i]] \in Session /\ inbox[fd[i]] \in Nat
<1>1. /\ fd[i] \in Fds /\ ses[fd[i]] # NoSession /\ pc = "scan" /\ up = "up"
      /\ i \in Cells /\ fd[POLL_MAX] \notin Fds
  BY DEF scan_handle, IInv
<1>2. i \in Slots
  BY <1>1, ServerAssumption DEF Cells, Slots
<1>3. QED
  BY <1>1, <1>2 DEF IInv, TypeOK

\* Handling a cell: a release frees the slot and the session together, and no
\* other session names that slot.
LEMMA HandleIInv == IInv /\ scan_handle => IInv'
<1> SUFFICES ASSUME IInv, scan_handle PROVE IInv'
  BY Zenon
<1> USE ServerAssumption, NoSessionAssumption DEF table, net, loop
<1> DEFINE f == fd[i]
<1>1. f \in Fds /\ i \in Slots /\ ses[f] \in Session /\ inbox[f] \in Nat /\ pc = "scan"
  BY HandledCell
<1>2. /\ pc' \in {"poll", "scan"} /\ i' \in 0..(POLL_MAX + 1) /\ nready' \in Int
      /\ revents' \in [Cells -> SUBSET {"IN", "OUT", "ERR", "NVAL"}]
      /\ pc' \in {"accept", "scan"} => i' \in Cells
  <2>1. nready - 1 \in Int /\ Advance(nready - 1)
    BY DEF scan_handle, IInv, TypeOK
  <2>2. QED
    BY <1>1, <2>1, AdvanceBounds, Zenon
<1>3. UNCHANGED <<poll_curfds, leaked, listening, backlog>>
  BY Zenon DEF scan_handle
<1>4. PICK o \in poll_events_handler(ses[f], inbox[f], revents[i]) :
         \/ o.end = "release" /\ up' = "up" /\ ses_release_session(f, i)
         \/ /\ o.end # "release"
            /\ up' = IF o.end # "keep" THEN o.end
                     ELSE IF o.out # "same" /\ o.r.pid \notin Slots THEN "overrun"
                     ELSE "up"
            /\ ses' = [ses EXCEPT ![f] = o.r]
            /\ inbox' = [inbox EXCEPT ![f] = o.in]
            /\ ArmSlot(o.r.pid, o.out)
            /\ UNCHANGED <<fd, conn>>
  BY Zenon DEF scan_handle
<1>5. o \in Outcomes /\ o.r.pid = ses[f].pid
  <2>1. KeepsPid(poll_events_handler(ses[f], inbox[f], revents[i]), ses[f])
    BY <1>1, EventsKeepPid, Zenon
  <2>2. QED
    BY <2>1, Zenon DEF KeepsPid
<1>6. o.r \in Session /\ o.in \in Nat /\ o.end \in {"keep", "release"} \cup Ends
  BY <1>5, Zenon DEF Outcomes
<1>7. CASE ses_release_session(f, i) /\ up' = "up"
  <2>1. TypeOK'
    BY <1>1, <1>2, <1>3, <1>7, Zenon DEF ses_release_session, IInv, TypeOK
  <2>2. /\ \A t \in Slots : t # i => fd'[t] = fd[t]
        /\ fd'[i] = NoFd
        /\ \A g \in Fds : g # f => ses'[g] = ses[g] /\ conn'[g] = conn[g]
        /\ ses'[f] = NoSession /\ conn'[f] = "closed"
    BY <1>1, <1>7 DEF ses_release_session, IInv, TypeOK, Slots, Cells
  <2>3. SessionsHaveSlots'
    <3>1. ASSUME NEW g \in Fds, ses'[g] # NoSession, ses'[g].pid \in Slots
          PROVE  fd'[ses'[g].pid] = g
      <4>1. g # f /\ ses'[g] = ses[g]
        BY <2>2, <3>1, Zenon
      <4>2. fd[ses[g].pid] = g /\ ses[g].pid # i
        BY <1>1, <3>1, <4>1, Zenon DEF IInv, SessionsHaveSlots
      <4>3. QED
        BY <2>2, <3>1, <4>1, <4>2, Zenon
    <3>2. ASSUME NEW g \in Fds
          PROVE  ses'[g] = NoSession <=> conn'[g] = "closed"
      BY <2>2, Zenon DEF IInv, SessionsHaveSlots
    <3>3. QED
      BY <3>1, <3>2, Zenon DEF SessionsHaveSlots
  <2>4. SlotsMatchSessions'
    <3>1. SUFFICES ASSUME leaked' = 0, NEW t \in Slots, fd'[t] # NoFd
                   PROVE  fd'[t] \in Fds /\ ses'[fd'[t]] # NoSession /\ ses'[fd'[t]].pid = t
      BY Zenon DEF SlotsMatchSessions
    <3>2. t # i /\ fd'[t] = fd[t]
      BY <2>2, <3>1, Zenon
    <3>3. fd[t] \in Fds /\ ses[fd[t]] # NoSession /\ ses[fd[t]].pid = t
      BY <1>3, <3>1, <3>2, Zenon DEF IInv, SlotsMatchSessions
    <3>4. ses[f].pid = i
      BY <1>1, <1>3, <3>1, Zenon DEF IInv, SlotsMatchSessions
    <3>5. QED
      BY <2>2, <3>2, <3>3, <3>4, Zenon
  <2>5. CurfdsCoversTable'
    BY <1>1, <1>3, <2>2, Zenon DEF IInv, CurfdsCoversTable
  <2>6. fd'[POLL_MAX] \notin Fds
    BY <1>1, <1>7 DEF ses_release_session, IInv, TypeOK, Slots, Cells
  <2>7. QED
    BY <1>2, <2>1, <2>3, <2>4, <2>5, <2>6, Zenon DEF IInv
<1>8. CASE /\ ses' = [ses EXCEPT ![f] = o.r]
           /\ inbox' = [inbox EXCEPT ![f] = o.in]
           /\ up' \in {"up"} \cup Ends
           /\ ArmSlot(o.r.pid, o.out)
           /\ UNCHANGED <<fd, conn>>
  <2>1. events' \in [Cells -> SUBSET {"IN", "OUT"}]
    BY <1>8, Zenon DEF ArmSlot, IInv, TypeOK
  <2>2. TypeOK'
    BY <1>1, <1>2, <1>3, <1>6, <1>8, <2>1, Zenon DEF IInv, TypeOK
  <2>3. /\ \A g \in Fds : g # f => ses'[g] = ses[g]
        /\ ses'[f] = o.r /\ o.r # NoSession /\ ses[f] # NoSession
    BY <1>1, <1>6, <1>8, Zenon DEF IInv, TypeOK
  <2>4. SessionsHaveSlots'
    BY <1>1, <1>5, <1>8, <2>3, SMTT(30) DEF IInv, SessionsHaveSlots
  <2>5. SlotsMatchSessions'
    BY <1>1, <1>3, <1>5, <1>8, <2>3, SMTT(30) DEF IInv, SlotsMatchSessions
  <2>6. CurfdsCoversTable'
    BY <1>3, <1>8, Zenon DEF IInv, CurfdsCoversTable
  <2>7. QED
    BY <1>2, <1>8, <2>2, <2>4, <2>5, <2>6, Zenon DEF IInv
<1>9. QED
  BY <1>4, <1>6, <1>7, <1>8, Zenon DEF Ends

-----------------------------------------------------------------------------
\* Every step keeps the invariant.
LEMMA NextIInv == IInv /\ [Next]_vars => IInv'
<1> SUFFICES ASSUME IInv, [Next]_vars PROVE IInv'
  BY Zenon
<1> USE ServerAssumption, NoSessionAssumption DEF table, net, loop
<1>1. CASE http_server_init
  <2>1. TypeOK'
    BY <1>1, Zenon DEF http_server_init, IInv, TypeOK, Ends
  <2>2. QED
    BY <1>1, <2>1, Zenon DEF http_server_init, IInv, SessionsHaveSlots, SlotsMatchSessions,
                      CurfdsCoversTable
<1>2. CASE poll
  BY <1>2, PollIInv, Zenon
<1>3. CASE accept
  BY <1>3, AcceptIInv, Zenon
<1>4. CASE accept_end
  <2>1. /\ pc' \in {"poll", "scan"} /\ i' \in 0..(POLL_MAX + 1) /\ nready' \in Int
        /\ revents' \in [Cells -> SUBSET {"IN", "OUT", "ERR", "NVAL"}]
        /\ pc' \in {"accept", "scan"} => i' \in Cells
    BY <1>4 DEF accept_end, PassOver, Quiet, IInv, TypeOK, Cells
  <2>2. UNCHANGED <<up, table, ses, net>>
    BY <1>4, Zenon DEF accept_end
  <2>3. TypeOK'
    BY <2>1, <2>2, Zenon DEF IInv, TypeOK
  <2>4. QED
    BY <2>1, <2>2, <2>3, Zenon DEF IInv, SessionsHaveSlots, SlotsMatchSessions, CurfdsCoversTable
<1>5. CASE scan_free \/ scan_idle
  <2>1. PICK n \in {nready, nready - 1} : pc = "scan" /\ Advance(n)
    BY <1>5, Zenon DEF scan_free, scan_idle
  <2>2. /\ pc' \in {"poll", "scan"} /\ i' \in 0..(POLL_MAX + 1) /\ nready' \in Int
        /\ revents' \in [Cells -> SUBSET {"IN", "OUT", "ERR", "NVAL"}]
        /\ pc' \in {"accept", "scan"} => i' \in Cells
    <3>1. n \in Int
      BY <2>1 DEF IInv, TypeOK
    <3>2. QED
      BY <2>1, <3>1, AdvanceBounds, Zenon
  <2>3. UNCHANGED <<up, table, ses, net>>
    BY <1>5, Zenon DEF scan_free, scan_idle
  <2>4. TypeOK'
    BY <2>2, <2>3, Zenon DEF IInv, TypeOK
  <2>5. QED
    BY <2>2, <2>3, <2>4, Zenon DEF IInv, SessionsHaveSlots, SlotsMatchSessions, CurfdsCoversTable
<1>6. CASE scan_handle
  BY <1>6, HandleIInv, Zenon
<1>7. CASE scan_no_session
  <2>1. TypeOK'
    BY <1>7, Zenon DEF scan_no_session, IInv, TypeOK, Ends
  <2>2. QED
    BY <1>7, <2>1, Zenon DEF scan_no_session, IInv, SessionsHaveSlots, SlotsMatchSessions,
                      CurfdsCoversTable
<1>8. CASE client_connect
  <2>1. TypeOK'
    BY <1>8 DEF client_connect, IInv, TypeOK
  <2>2. QED
    BY <1>8, <2>1, Zenon DEF client_connect, IInv, SessionsHaveSlots, SlotsMatchSessions,
                      CurfdsCoversTable
<1>9. ASSUME NEW f \in Fds, client_send(f)
      PROVE  IInv'
  <2>1. inbox' \in [Fds -> Nat]
    BY <1>9 DEF client_send, IInv, TypeOK
  <2>2. UNCHANGED <<up, loop, table, revents, ses, listening, backlog, conn>>
    BY <1>9, Zenon DEF client_send
  <2>3. TypeOK'
    BY <2>1, <2>2, Zenon DEF IInv, TypeOK
  <2>4. QED
    BY <2>2, <2>3, Zenon DEF IInv, SessionsHaveSlots, SlotsMatchSessions, CurfdsCoversTable
<1>10. ASSUME NEW f \in Fds, client_close(f)
       PROVE  IInv'
  <2>1. TypeOK'
    BY <1>10, Zenon DEF client_close, IInv, TypeOK
  <2>2. \A g \in Fds : conn'[g] = "closed" <=> conn[g] = "closed"
    BY <1>10, Zenon DEF client_close, IInv, TypeOK
  <2>3. SessionsHaveSlots'
    BY <1>10, <2>2, Zenon DEF client_close, IInv, SessionsHaveSlots
  <2>4. QED
    BY <1>10, <2>1, <2>3, Zenon DEF client_close, IInv, SlotsMatchSessions, CurfdsCoversTable
<1>11. CASE UNCHANGED vars
  BY <1>11, Zenon DEF vars, IInv, TypeOK, SessionsHaveSlots, SlotsMatchSessions, CurfdsCoversTable
<1>12. QED
  BY <1>1, <1>2, <1>3, <1>4, <1>5, <1>6, <1>7, <1>8, <1>9, <1>10, <1>11, Zenon
     DEF Next, Server, Peers

-----------------------------------------------------------------------------
(* No request is left waiting.                                             *)

\* A new connection has nothing to send, and takes no slot from a session.
LEMMA AcceptStalled ==
    ASSUME IInv, NoStalledResponse, accept
    PROVE  NoStalledResponse'
<1> USE ServerAssumption, NoSessionAssumption
<1>1. up' = up /\ up = "up"
  BY Zenon DEF accept
<1>2. CASE UNCHANGED <<table, ses, conn>>
  BY <1>1, <1>2, Zenon DEF NoStalledResponse, table
<1>3. ASSUME NEW f \in Fds, NEW s \in Cells, conn[f] = "closed", poll_add(f, s),
             \/ ses' = [ses EXCEPT ![f] = [pid |-> PidOf(s), lua_error |-> 0,
                           rcv_len |-> 0, snd_size |-> 0, snd_len |-> 0]]
             \/ ses' = ses
      PROVE  NoStalledResponse'
  <2>1. ses[f] = NoSession
    BY <1>3, Zenon DEF IInv, SessionsHaveSlots
  <2>2. \/ ses'[f] = NoSession
        \/ ses'[f].rcv_len = 0 /\ ses'[f].snd_len = 0
    BY <1>3, <2>1 DEF IInv, TypeOK
  <2>3. \A g \in Fds : g # f => ses'[g] = ses[g]
    BY <1>3, Zenon DEF IInv, TypeOK
  <2>4. \A c \in Cells : c # s => events'[c] = events[c]
    BY <1>3, Zenon DEF poll_add, IInv, TypeOK
  <2>5. s \in Slots => fd[s] = NoFd
    BY <1>3 DEF poll_add, IsFirstFree, Slots
  <2>6. ASSUME NEW g \in Fds, ses'[g] # NoSession, ses'[g].pid \in Slots
        PROVE  /\ ses'[g].snd_len > 0 => "OUT" \in events'[ses'[g].pid]
               /\ ses'[g].rcv_len >= ReqLen => ses'[g].snd_len > 0
    <3>1. CASE g = f
      BY <2>2, <2>6, <3>1
    <3>2. CASE g # f
      <4>1. ses'[g] = ses[g] /\ ses[g] # NoSession /\ ses[g].pid \in Slots
        BY <2>3, <2>6, <3>2, Zenon
      <4>2. fd[ses[g].pid] = g
        BY <4>1, Zenon DEF IInv, SessionsHaveSlots
      <4>3. ses[g].pid # s
        BY <2>5, <4>1, <4>2, Zenon
      <4>4. events'[ses[g].pid] = events[ses[g].pid]
        BY <2>4, <4>1, <4>3 DEF Slots, Cells
      <4>5. QED
        BY <1>1, <4>1, <4>4, Zenon DEF NoStalledResponse
    <3>3. QED
      BY <3>1, <3>2, Zenon
  <2>7. QED
    BY <2>6, Zenon DEF NoStalledResponse
<1>4. QED
  BY <1>2, <1>3, Zenon DEF accept

\* The handler of one session leaves the slot of every other alone.
LEMMA HandleStalled ==
    ASSUME IInv, NoStalledResponse, scan_handle
    PROVE  NoStalledResponse'
<1> USE ServerAssumption, NoSessionAssumption
<1>1. PICK f \in Fds : f = fd[i]
  BY Zenon DEF scan_handle
<1>2. i \in Slots /\ ses[f] \in Session /\ inbox[f] \in Nat /\ up = "up"
  BY <1>1, HandledCell
<1>3. PICK o \in poll_events_handler(ses[f], inbox[f], revents[i]) :
         \/ o.end = "release" /\ up' = "up" /\ ses_release_session(f, i)
         \/ /\ o.end # "release"
            /\ up' = IF o.end # "keep" THEN o.end
                     ELSE IF o.out # "same" /\ o.r.pid \notin Slots THEN "overrun"
                     ELSE "up"
            /\ ses' = [ses EXCEPT ![f] = o.r]
            /\ inbox' = [inbox EXCEPT ![f] = o.in]
            /\ ArmSlot(o.r.pid, o.out)
            /\ UNCHANGED <<fd, conn>>
  BY <1>1, Zenon DEF scan_handle
<1>4. o \in Outcomes /\ o.r \in Session /\ o.r.pid = ses[f].pid
  <2>1. KeepsPid(poll_events_handler(ses[f], inbox[f], revents[i]), ses[f])
    BY <1>2, EventsKeepPid, Zenon
  <2>2. QED
    BY <2>1, Zenon DEF KeepsPid, Outcomes
<1>5. ASSUME NEW g \in Fds, g # f, ses'[g] = ses[g], ses[g] # NoSession, ses[g].pid \in Slots,
             \A c \in Slots : c = i \/ c = ses[f].pid \/ events'[c] = events[c],
             \A c \in Slots : c = i /\ c # ses[f].pid => events'[c] = events[c] \/ ses'[f] = NoSession,
             \A c \in Slots : c # i /\ c = ses[f].pid => events'[c] = events[c] \/ ses'[f] # NoSession
      PROVE  /\ ses'[g].snd_len > 0 => "OUT" \in events'[ses'[g].pid]
             /\ ses'[g].rcv_len >= ReqLen => ses'[g].snd_len > 0
  <2>1. fd[ses[g].pid] = g /\ (ses[f].pid \in Slots => fd[ses[f].pid] = f)
    BY <1>2, <1>5, Zenon DEF IInv, SessionsHaveSlots
  <2>2. ses[g].pid # i /\ ses[g].pid # ses[f].pid
    BY <1>1, <1>5, <2>1, Zenon
  <2>3. events'[ses[g].pid] = events[ses[g].pid]
    BY <1>5, <2>2, Zenon
  <2>4. QED
    BY <1>2, <1>5, <2>3, Zenon DEF NoStalledResponse
<1>6. CASE o.end = "release" /\ ses_release_session(f, i)
  <2>1. /\ \A g \in Fds : g # f => ses'[g] = ses[g]
        /\ ses'[f] = NoSession
        /\ \A c \in Slots : c # i => events'[c] = events[c]
    BY <1>2, <1>6 DEF ses_release_session, IInv, TypeOK, Slots, Cells
  <2>2. QED
    BY <1>5, <2>1, Zenon DEF NoStalledResponse
<1>7. CASE /\ o.end = "keep"
           /\ ses' = [ses EXCEPT ![f] = o.r]
           /\ ArmSlot(o.r.pid, o.out)
  <2>1. /\ \A g \in Fds : g # f => ses'[g] = ses[g]
        /\ ses'[f] = o.r /\ ses'[f] # NoSession
        /\ \A c \in Slots : c # ses[f].pid => events'[c] = events[c]
    BY <1>4, <1>7 DEF ArmSlot, IInv, TypeOK, Slots, Cells
  <2>2. ASSUME ses[f].pid \in Slots
        PROVE  /\ o.r.snd_len > 0 => "OUT" \in events'[o.r.pid]
               /\ o.r.rcv_len >= ReqLen => o.r.snd_len > 0
    <3>1. (ses[f].snd_len > 0 => "OUT" \in events[ses[f].pid]) /\ Fed(ses[f])
      BY <1>2, <2>2, Zenon DEF NoStalledResponse, Fed
    <3>2. Serves(poll_events_handler(ses[f], inbox[f], revents[i]), ses[f])
      BY <1>2, <3>1, EventsServe, Zenon
    <3>3. /\ Fed(o.r)
          /\ o.out = "set" => o.r.snd_len > 0
          /\ o.out = "clear" => o.r.snd_len = 0
          /\ o.out = "same" => (o.r.snd_len > 0 => ses[f].snd_len > 0)
      BY <1>7, <3>2, ZenonT(30) DEF Serves
    <3>4. events'[o.r.pid] = IF o.out = "same" THEN events[o.r.pid]
                             ELSE IF o.out = "set" THEN {"IN", "OUT"} ELSE {"IN"}
      BY <1>4, <1>7, <2>2, SMTT(30) DEF ArmSlot, Slots, Cells
    <3>5. o.out \in {"set", "clear", "same"}
      BY <1>4, Zenon DEF Outcomes
    <3>6. o.r.snd_len > 0 => "OUT" \in events'[o.r.pid]
      BY <1>4, <3>1, <3>3, <3>4, <3>5, SMTT(30)
    <3>7. QED
      BY <3>3, <3>6, Zenon DEF Fed
  <2>3. QED
    BY <1>4, <1>5, <2>1, <2>2, Zenon DEF NoStalledResponse
<1>8. CASE up' # "up"
  BY <1>8, Zenon DEF NoStalledResponse
<1>9. o.end \in {"keep", "release"} \cup Ends
  BY <1>4, Zenon DEF Outcomes
<1>10. CASE o.end \notin {"keep", "release"}
  <2>1. up' = o.end
    BY <1>3, <1>10, Zenon
  <2>2. QED
    BY <1>8, <1>9, <1>10, <2>1, Zenon DEF Ends
<1>11. QED
  BY <1>3, <1>6, <1>7, <1>10, Zenon

\* Every step keeps the promise of NoStalledResponse.
LEMMA NextStalled == IInv /\ NoStalledResponse /\ [Next]_vars => NoStalledResponse'
<1> SUFFICES ASSUME IInv, NoStalledResponse, [Next]_vars PROVE NoStalledResponse'
  BY Zenon
<1> USE DEF table, net, loop
<1>1. CASE accept
  BY <1>1, AcceptStalled, Zenon
<1>2. CASE scan_handle
  BY <1>2, HandleStalled, Zenon
<1>3. CASE UNCHANGED <<ses, events>> /\ up = "up"
  BY <1>3, Zenon DEF NoStalledResponse
<1>4. CASE UNCHANGED vars
  BY <1>4, Zenon DEF vars, NoStalledResponse
<1>5. http_server_init \/ poll \/ accept_end \/ scan_free \/ scan_idle \/ scan_no_session
        => UNCHANGED <<ses, events>> /\ up = "up"
  BY Zenon DEF http_server_init, poll, accept_end, scan_free, scan_idle, scan_no_session
<1>6. client_connect \/ (\E f \in Fds : client_send(f) \/ client_close(f))
        => UNCHANGED <<ses, events>> /\ up = "up"
  BY Zenon DEF client_connect, client_send, client_close
<1>7. QED
  BY <1>1, <1>2, <1>3, <1>4, <1>5, <1>6, Zenon DEF Next, Server, Peers

\* Every reachable state satisfies the invariant.
THEOREM IInvHolds == Spec => []IInv
BY InitIInv, NextIInv, PTL DEF Spec

\* The variables keep their types, for any number of slots and connections:
\* poll_curfds goes at most one past the table, even when it is full.
THEOREM TypeHolds == Spec => []TypeOK
BY IInvHolds, PTL DEF IInv

\* No session of the server is lost by poll_add, ses_create_new_session and
\* ses_release_session, whatever fails while a connection is set up.
THEOREM SessionsHaveSlotsHolds == Spec => []SessionsHaveSlots
BY IInvHolds, PTL DEF IInv

\* As long as every accepted socket could be made non-blocking, every occupied
\* slot of the poll table belongs to exactly one session.
THEOREM SlotsMatchSessionsHolds == Spec => []SlotsMatchSessions
BY IInvHolds, PTL DEF IInv

\* poll() and the scan reach every occupied slot of the table.
THEOREM CurfdsCoversTableHolds == Spec => []CurfdsCoversTable
BY IInvHolds, PTL DEF IInv

\* While the server runs, no session with a slot waits for an event that is not
\* asked for: ses_recv and ses_send set and clear POLLOUT in step with the send
\* buffer, for any lengths of requests and responses and any sizes of reads.
THEOREM NoStalledResponseHolds == Spec => []NoStalledResponse
<1>1. Init => NoStalledResponse
  BY Zenon DEF Init, ses_session_init, NoStalledResponse
<1>2. QED
  BY <1>1, NextStalled, IInvHolds, PTL DEF Spec

=============================================================================
