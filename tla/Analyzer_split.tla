--------------------------- MODULE Analyzer_split ---------------------------
(***************************************************************************)
(* an_split_rcv_buf_to_json, by induction over its two loops: whatever it  *)
(* is given, it stops with the end of the buffer and texts of bytes, and   *)
(* of a framed packet it keeps the first bytes until the rest has come and *)
(* then hands over the whole packet (SplitFrames).  With the steps of the  *)
(* server proved in Analyzer_proofs this gives, for a table of any size    *)
(* and any set of connections and packets,                                 *)
(*                                                                         *)
(* - that every variable keeps its type, because the bytes of each call    *)
(*   stay in the order of its packet;                                      *)
(* - that framed packets are handed on whole and once, that rcv_len is     *)
(*   never negative, and that a reply reaches the call that asked for it   *)
(*   or finds that it has given up.                                        *)
(***************************************************************************)
EXTENDS Analyzer_proofs, WellFoundedInduction

-----------------------------------------------------------------------------
(* Induction, and what the loop of an_split_rcv_buf_to_json comes to. *)

\* The least element of a set of naturals.
LEMMA Least ==
  ASSUME NEW S, S \subseteq Nat, S # {}
  PROVE  \E n \in S : \A m \in S : n <= m
<1>1. PICK n \in S : \A m \in S : ~(<<m, n>> \in OpToRel(<, Nat))
  BY NatLessThanWellFounded, WFMin, Zenon
<1>2. \A x, y \in Nat : <<x, y>> \in OpToRel(<, Nat) <=> x < y
  BY DEF OpToRel
<1>3. \A m \in S : ~(m < n)
  BY <1>1, <1>2, Zenon
<1> QED
  BY <1>3

\* Induction, for sets of naturals.
LEMMA Induction ==
  ASSUME NEW S, 0 \in S, \A n \in Nat : n \in S => n + 1 \in S
  PROVE  \A n \in Nat : n \in S
<1> DEFINE Out == Nat \ S
<1>1. SUFFICES ASSUME Out # {} PROVE FALSE
  BY Zenon
<1>2. Out \subseteq Nat
  BY Zenon
<1>3. PICK n \in Out : \A m \in Out : n <= m
  BY <1>1, <1>2, Least, Zenon
<1>4. n \in Nat /\ n # 0 /\ n \notin S
  BY <1>3, Zenon
<1>5. n - 1 \in Nat /\ n = (n - 1) + 1 /\ ~(n <= n - 1)
  BY <1>4
<1>6. n - 1 \in S
  BY <1>3, <1>5, Zenon
<1> QED
  BY <1>4, <1>5, <1>6, Zenon

\* st records n steps of F from a on.
Steps(st, n, F, a) == st[0] = a /\ \A k \in 1..n : st[k] = F[st[k - 1]]

\* A function on T can be iterated any number of times.
LEMMA Iterates ==
  ASSUME NEW T, NEW F \in [T -> T], NEW a \in T
  PROVE  \A n \in Nat : \E st \in [0..n -> T] : Steps(st, n, F, a)
<1> DEFINE S == {n \in Nat : \E st \in [0..n -> T] : Steps(st, n, F, a)}
<1>1. 0 \in S
  <2>1. [k \in 0..0 |-> a] \in [0..0 -> T] /\ Steps([k \in 0..0 |-> a], 0, F, a)
    BY DEF Steps
  <2> QED
    BY <2>1
<1>2. ASSUME NEW n \in Nat, n \in S PROVE n + 1 \in S
  <2>1. PICK st \in [0..n -> T] : Steps(st, n, F, a)
    BY <1>2, Zenon
  <2> DEFINE tt == [k \in 0..(n + 1) |-> IF k = n + 1 THEN F[st[n]] ELSE st[k]]
  <2>2. tt \in [0..(n + 1) -> T] /\ tt[0] = a
    BY <2>1 DEF Steps
  <2>3. ASSUME NEW k \in 1..(n + 1) PROVE tt[k] = F[tt[k - 1]]
    <3>1. k - 1 \in 0..n /\ k - 1 # n + 1 /\ k \in 0..(n + 1) /\ k - 1 \in 0..(n + 1)
      OBVIOUS
    <3>2. tt[k - 1] = st[k - 1]
      BY <3>1, Zenon
    <3>3. CASE k = n + 1
      BY <3>1, <3>2, <3>3
    <3>4. CASE k # n + 1
      <4>1. k \in 1..n
        BY <3>4
      <4> QED
        BY <2>1, <3>1, <3>2, <3>4, <4>1, Zenon DEF Steps
    <3> QED
      BY <3>3, <3>4, Zenon
  <2>4. Steps(tt, n + 1, F, a)
    BY <2>2, <2>3, Zenon DEF Steps
  <2> HIDE DEF tt
  <2> QED
    BY <2>2, <2>4
<1> HIDE DEF S
<1>3. \A n \in Nat : n \in S
  BY <1>1, <1>2, Induction, Zenon
<1> QED
  BY <1>3, Zenon DEF S

\* The local variables of an_split_rcv_buf_to_json in the loop after REDO.
ScanState == [end_p : Nat \ {0}, start_p : Nat \ {0}, json_len : Nat,
              start_flag : Int, packet_flag : 0..2, complete : BOOLEAN]

\* Their values at REDO.
ScanStart(json_len) ==
    [end_p |-> 1, start_p |-> 1, json_len |-> json_len,
     start_flag |-> 0, packet_flag |-> 0, complete |-> FALSE]

\* st records n passes of the loop over buf.
Passes(st, n, buf, behind, json_len) ==
    /\ st \in [0..n -> ScanState] /\ st[0] = ScanStart(json_len)
    /\ \A k \in 1..n : st[k] = Pass(buf, behind, st[k - 1])

\* The loop is left.
Ended(buf, s) == s.complete \/ s.packet_flag > 1 \/ s.json_len >= Len(buf)

\* start_flag changes by one at most.
LEMMA BraceInt ==
  ASSUME NEW c
  PROVE  Brace(c) \in -1..1
<1>1. 1 \in -1..1 /\ -1 \in -1..1 /\ 0 \in -1..1
  OBVIOUS
<1> QED
  BY <1>1, Zenon DEF Brace

\* A pass after the loop has been left.
LEMMA PassStays ==
  ASSUME NEW buf, NEW behind, NEW s, Ended(buf, s)
  PROVE  Pass(buf, behind, s) = s
BY Zenon DEF Pass, Ended

\* The state after a pass over a line feed, and over another byte c.
Fed(s, t) ==
    /\ t.end_p = s.end_p + 1 /\ t.start_p = s.end_p + 1 /\ t.json_len = s.json_len
    /\ t.start_flag = s.start_flag /\ t.packet_flag = s.packet_flag + 1 /\ ~t.complete

Counted(s, t, c) ==
    /\ t.end_p = s.end_p + 1 /\ t.start_p = s.start_p /\ t.json_len = s.json_len + 1
    /\ t.start_flag = s.start_flag + Brace(c) /\ t.packet_flag = s.packet_flag
    /\ t.complete <=> t.start_flag = 0 /\ s.packet_flag = 1

\* A pass over a line feed.
LEMMA PassFeed ==
  ASSUME NEW buf, NEW behind, NEW s \in ScanState, ~Ended(buf, s),
         At(buf, behind, s.end_p) = "nl"
  PROVE  Pass(buf, behind, s) \in ScanState /\ Fed(s, Pass(buf, behind, s))
<1>1. PICK t : t = Pass(buf, behind, s)
  BY Zenon
<1>2. t = [s EXCEPT !.end_p = @ + 1, !.start_p = s.end_p + 1, !.packet_flag = @ + 1]
  BY <1>1, Zenon DEF Pass, Ended
<1>3. s.packet_flag + 1 \in 0..2 /\ s.complete = FALSE
  BY DEF Ended, ScanState
<1>4. t = [end_p |-> s.end_p + 1, start_p |-> s.end_p + 1, json_len |-> s.json_len,
           start_flag |-> s.start_flag, packet_flag |-> s.packet_flag + 1, complete |-> FALSE]
  BY <1>2, <1>3 DEF ScanState
<1>5. t \in ScanState /\ Fed(s, t)
  BY <1>3, <1>4 DEF ScanState, Fed
<1> QED
  BY <1>1, <1>5, Zenon

\* A pass over another byte.
LEMMA PassByte ==
  ASSUME NEW buf, NEW behind, NEW s \in ScanState, ~Ended(buf, s),
         NEW c, c = At(buf, behind, s.end_p), c # "nl"
  PROVE  Pass(buf, behind, s) \in ScanState /\ Counted(s, Pass(buf, behind, s), c)
<1>1. PICK f \in Int : f = s.start_flag + Brace(c)
  BY BraceInt DEF ScanState
<1>2. PICK b \in BOOLEAN : b = (f = 0 /\ s.packet_flag = 1)
  BY Zenon
<1>3. PICK t : t = Pass(buf, behind, s)
  BY Zenon
<1>4. t = [s EXCEPT !.end_p = @ + 1, !.json_len = @ + 1, !.start_flag = f, !.complete = b]
  BY <1>1, <1>2, <1>3, Zenon DEF Pass, Ended
<1>5. t = [end_p |-> s.end_p + 1, start_p |-> s.start_p, json_len |-> s.json_len + 1,
           start_flag |-> f, packet_flag |-> s.packet_flag, complete |-> b]
  BY <1>4 DEF ScanState
<1>6. /\ t \in ScanState
      /\ t.end_p = s.end_p + 1 /\ t.start_p = s.start_p /\ t.json_len = s.json_len + 1
      /\ t.start_flag = f /\ t.packet_flag = s.packet_flag /\ t.complete = b
  BY <1>5 DEF ScanState
<1> QED
  BY <1>1, <1>2, <1>3, <1>6, Zenon DEF Counted

\* The local variables keep their types.
LEMMA PassTyped ==
  ASSUME NEW buf, NEW behind, NEW s \in ScanState
  PROVE  Pass(buf, behind, s) \in ScanState
<1>1. PICK c : c = At(buf, behind, s.end_p)
  BY Zenon
<1> QED
  BY <1>1, PassStays, PassFeed, PassByte, Zenon

\* Scan is what its passes end in.
LEMMA ScanPasses ==
  ASSUME NEW buf, Len(buf) \in Nat, NEW behind, NEW j \in Nat
  PROVE  \E st : /\ Passes(st, Len(buf) + 2, buf, behind, j)
                 /\ Scan(buf, behind, j) = st[Len(buf) + 2]
<1> DEFINE N == Len(buf) + 2
           F == [s \in ScanState |-> Pass(buf, behind, s)]
           Def(g) == [k \in 0..N |-> IF k = 0 THEN ScanStart(j) ELSE Pass(buf, behind, g[k - 1])]
           f == CHOOSE g : g = Def(g)
<1>1. N \in Nat
  OBVIOUS
<1>2. ScanStart(j) \in ScanState
  BY DEF ScanStart, ScanState
<1>3. F \in [ScanState -> ScanState]
  BY PassTyped
<1>4. PICK g \in [0..N -> ScanState] :
           Steps(g, N, F, ScanStart(j))
  <2> HIDE DEF F, N
  <2> QED
    BY <1>1, <1>2, <1>3, Iterates
<1>5. /\ \A k \in 1..N : k - 1 \in 0..N /\ k \in 0..N
      /\ \A k \in 0..N : k = 0 \/ k \in 1..N
  BY <1>1
<1>6. g[0] = ScanStart(j) /\ \A k \in 1..N : g[k] = Pass(buf, behind, g[k - 1])
  BY <1>4, <1>5, Zenon DEF Steps
<1>7. g = Def(g)
  <2> HIDE DEF N
  <2> QED
    BY <1>4, <1>5, <1>6
<1>8. f = Def(f)
  <2> HIDE DEF Def
  <2> QED
    BY <1>7, Zenon
<1>9. Scan(buf, behind, j) = f[N]
  BY Zenon DEF Scan, ScanStart
<1> HIDE DEF f
<1>10. /\ f[0] = ScanStart(j) /\ \A k \in 1..N : f[k] = Pass(buf, behind, f[k - 1])
       /\ f = [k \in 0..N |-> f[k]]
  <2>1. \A k \in 1..N : k \in 0..N /\ k # 0
    BY <1>1
  <2>2. 0 \in 0..N
    BY <1>1
  <2> HIDE DEF N
  <2>3. f[0] = ScanStart(j) /\ DOMAIN f = 0..N
    BY <1>8, <2>2
  <2>4. \A k \in 1..N : f[k] = Pass(buf, behind, f[k - 1])
    BY <1>8, <2>1
  <2>5. f = [k \in 0..N |-> f[k]]
    BY <1>8
  <2> QED
    BY <2>3, <2>4, <2>5, Zenon
<1>11. ASSUME NEW k \in 0..N PROVE f[k] \in ScanState
  <2> DEFINE S == {m \in Nat : m \in 0..N => f[m] \in ScanState}
  <2>1. 0 \in S
    BY <1>2, <1>10
  <2>2. ASSUME NEW m \in Nat, m \in S PROVE m + 1 \in S
    <3> SUFFICES ASSUME m + 1 \in 0..N PROVE f[m + 1] \in ScanState
      OBVIOUS
    <3>1. m \in 0..N /\ m + 1 \in 1..N /\ (m + 1) - 1 = m
      BY <1>1
    <3>2. f[m] \in ScanState /\ f[m + 1] = Pass(buf, behind, f[m])
      BY <2>2, <3>1, <1>10
    <3> QED
      BY <3>2, PassTyped
  <2> HIDE DEF S
  <2>3. \A m \in Nat : m \in S
    BY <2>1, <2>2, Induction, Zenon
  <2> QED
    BY <1>1, <2>3 DEF S
<1>12. f \in [0..N -> ScanState]
  BY <1>10, <1>11, Zenon
<1>13. Passes(f, N, buf, behind, j)
  BY <1>10, <1>12, Zenon DEF Passes
<1> QED
  BY <1>9, <1>13, Zenon
\* Len(buf) + 2 passes are enough: each counts a byte or a line feed.
LEMMA ScanEnds ==
  ASSUME NEW buf, Len(buf) \in Nat, NEW behind, NEW j \in Nat
  PROVE  Scan(buf, behind, j) \in ScanState /\ Ended(buf, Scan(buf, behind, j))
<1> DEFINE N == Len(buf) + 2
<1>1. PICK st : Passes(st, N, buf, behind, j) /\ Scan(buf, behind, j) = st[N]
  BY ScanPasses, Zenon
<1> DEFINE Far(k) == Ended(buf, st[k]) \/ st[k].json_len + st[k].packet_flag >= j + k
           S == {k \in Nat : k \in 0..N => Far(k)}
<1>2. 0 \in S
  BY <1>1 DEF Passes, ScanStart
<1>3. ASSUME NEW k \in Nat, k \in S PROVE k + 1 \in S
  <2> SUFFICES ASSUME k + 1 \in 0..N PROVE Far(k + 1)
    <3>1. k + 1 \in Nat
      OBVIOUS
    <3> QED
      BY <3>1, Zenon
  <2>1. k \in 0..N /\ k + 1 \in 1..N /\ (k + 1) - 1 = k
    OBVIOUS
  <2>2. PICK s \in ScanState : s = st[k] /\ st[k + 1] = Pass(buf, behind, s)
    BY <1>1, <2>1 DEF Passes
  <2>3. Far(k)
    BY <1>3, <2>1, Zenon
  <2>4. PICK c : c = At(buf, behind, s.end_p)
    BY Zenon
  <2>5. CASE Ended(buf, s)
    BY <2>2, <2>5, PassStays, Zenon
  <2>6. CASE ~Ended(buf, s)
    <3>1. s.json_len + s.packet_flag >= j + k /\ s.json_len \in Nat /\ s.packet_flag \in Nat
      BY <2>2, <2>3, <2>6 DEF ScanState
    <3>2. \/ st[k + 1].json_len = s.json_len /\ st[k + 1].packet_flag = s.packet_flag + 1
          \/ st[k + 1].json_len = s.json_len + 1 /\ st[k + 1].packet_flag = s.packet_flag
      <4>1. Fed(s, st[k + 1]) \/ Counted(s, st[k + 1], c)
        <5>1. CASE c = "nl"
          BY <2>2, <2>4, <2>6, <5>1, PassFeed, Zenon
        <5>2. CASE c # "nl"
          BY <2>2, <2>4, <2>6, <5>2, PassByte, Zenon
        <5> QED
          BY <5>1, <5>2, Zenon
      <4> QED
        BY <4>1, Zenon DEF Fed, Counted
    <3>3. st[k + 1].json_len + st[k + 1].packet_flag = s.json_len + s.packet_flag + 1
      <4>1. CASE st[k + 1].json_len = s.json_len /\ st[k + 1].packet_flag = s.packet_flag + 1
        BY <3>1, <4>1
      <4>2. CASE st[k + 1].json_len = s.json_len + 1 /\ st[k + 1].packet_flag = s.packet_flag
        BY <3>1, <4>2
      <4> QED
        BY <3>2, <4>1, <4>2, Zenon
    <3>4. s.json_len + s.packet_flag + 1 >= j + (k + 1)
      BY <3>1
    <3> QED
      BY <3>3, <3>4, Zenon
  <2> QED
    BY <2>5, <2>6, Zenon
<1> HIDE DEF S
<1>4. \A k \in Nat : k \in S
  BY <1>2, <1>3, Induction, Zenon
<1>5. Far(N) /\ st[N] \in ScanState
  BY <1>1, <1>4 DEF S, Passes
<1>6. Ended(buf, st[N])
  BY <1>5 DEF Ended, ScanState
<1> QED
  BY <1>1, <1>5, <1>6, Zenon

-----------------------------------------------------------------------------
(* Parts of sequences. *)

\* The first bytes of a sequence.
LEMMA PrefixTyped ==
  ASSUME NEW S, NEW s \in Seq(S), NEW n \in 0..Len(s)
  PROVE  /\ SubSeq(s, 1, n) \in Seq(S) /\ Len(SubSeq(s, 1, n)) = n
         /\ \A k \in 1..n : SubSeq(s, 1, n)[k] = s[k]
<1>1. Len(s) \in Nat /\ n \in Nat /\ n <= Len(s)
  BY SeqLen
<1>2. \A k \in 1..n : s[k] \in S
  BY <1>1, SeqElement
<1> QED
  BY <1>1, <1>2, SeqPart

\* And of its ends again.
LEMMA SuffixOfSuffix ==
  ASSUME NEW S, NEW s \in Seq(S), NEW r \in Suffixes(s), NEW k \in Nat \ {0}
  PROVE  SubSeq(r, k, Len(r)) \in Suffixes(s)
<1>1. PICK m \in 1..(Len(s) + 1) : r = SubSeq(s, m, Len(s))
  BY Zenon DEF Suffixes
<1>2. Len(s) \in Nat /\ r \in Seq(S) /\ Len(r) = Len(s) - m + 1
  BY <1>1, SuffixTyped, SeqLen
<1>3. SubSeq(r, k, Len(r)) = SubSeq(s, m + k - 1, m + Len(r) - 1)
  BY <1>1, <1>2, PartOfPart
<1>4. m + Len(r) - 1 = Len(s)
  BY <1>1, <1>2
<1>5. CASE m + k - 1 <= Len(s) + 1
  <2>1. m + k - 1 \in 1..(Len(s) + 1)
    BY <1>2, <1>5
  <2> QED
    BY <1>3, <1>4, <2>1 DEF Suffixes
<1>6. CASE ~(m + k - 1 <= Len(s) + 1)
  <2>1. SubSeq(s, m + k - 1, Len(s)) = <<>> /\ SubSeq(s, Len(s) + 1, Len(s)) = <<>>
    BY <1>2, <1>6, SeqNoPart
  <2>2. Len(s) + 1 \in 1..(Len(s) + 1)
    BY <1>2
  <2> QED
    BY <1>3, <1>4, <2>1, <2>2 DEF Suffixes
<1> QED
  BY <1>5, <1>6

-----------------------------------------------------------------------------
(* The rounds of an_split_rcv_buf_to_json. *)

\* What a round leaves behind.
RoundState(cut) == [rest : Suffixes(cut), json_len : Nat, handed : Seq(Seq(Byte)),
                    end : {"redo", "wait", "fail", "short", "crash"}]

\* The text of a packet consists of bytes, one behind the buffer included.
LEMMA TextTyped ==
  ASSUME NEW buf \in Seq(Byte), NEW behind \in Byte, NEW a \in Nat \ {0}, NEW n \in Nat
  PROVE  Text(buf, behind, a, n) \in Seq(Byte) /\ Len(Text(buf, behind, a, n)) = n
<1>1. ASSUME NEW k \in 1..n PROVE At(buf, behind, a + k - 1) \in Byte
  <2>1. a + k - 1 \in Nat \ {0} /\ Len(buf) \in Nat
    BY SeqLen
  <2> QED
    BY <2>1, SeqElement DEF At
<1>2. Text(buf, behind, a, n) \in [1..n -> Byte]
  BY <1>1 DEF Text
<1>3. Text(buf, behind, a, n) \in Seq(Byte)
  BY <1>2, SeqOfFunction
<1> QED
  BY <1>2, <1>3, SeqLen

\* A round keeps the types, and another follows only when bytes were consumed.
LEMMA RoundTyped ==
  ASSUME NEW cut \in Seq(Byte), NEW behind \in Byte, NEW o \in RoundState(cut)
  PROVE  /\ Round(o, behind) \in RoundState(cut)
         /\ o.end # "redo" => Round(o, behind) = o
         /\ o.end = "redo" /\ Round(o, behind).end = "redo" =>
              Len(Round(o, behind).rest) < Len(o.rest)
<1>1. CASE o.end # "redo"
  BY <1>1, Zenon DEF Round
<1>2. CASE o.end = "redo"
  <2>1. PICK buf \in Suffixes(cut) : buf = o.rest
    BY DEF RoundState
  <2>2. buf \in Seq(Byte) /\ Len(buf) \in Nat
    <3>1. buf \in Seq(Byte)
      BY SuffixesTyped, Zenon
    <3> QED
      BY <3>1, SeqLen, Zenon
  <2>3. PICK s \in ScanState : s = Scan(buf, behind, o.json_len)
    <3>1. o.json_len \in Nat
      BY DEF RoundState
    <3> QED
      BY <2>2, <3>1, ScanEnds
  <2>4. CASE s.packet_flag > 1
    <3>1. Round(o, behind) = [o EXCEPT !.end = "fail"]
      BY <1>2, <2>1, <2>3, <2>4, Zenon DEF Round
    <3> QED
      BY <1>2, <3>1 DEF RoundState
  <2>5. CASE ~(s.packet_flag > 1) /\ (s.start_flag # 0 \/ s.json_len = 0)
    <3>1. Round(o, behind) = [o EXCEPT !.end = "wait"]
      BY <1>2, <2>1, <2>3, <2>5, Zenon DEF Round
    <3> QED
      BY <1>2, <3>1 DEF RoundState
  <2>6. CASE ~(s.packet_flag > 1) /\ ~(s.start_flag # 0 \/ s.json_len = 0)
    <3> DEFINE rest == Len(buf) - (s.json_len + 1)
               e == IF rest < -2 THEN "crash" ELSE IF rest < 0 THEN "short"
                           ELSE IF rest = 0 THEN "wait" ELSE "redo"
               r == SubSeq(buf, s.json_len + 2, Len(buf))
               h == Append(o.handed, Text(buf, behind, s.start_p, s.json_len))
    <3>1. Round(o, behind) = [rest |-> r, json_len |-> s.json_len, handed |-> h, end |-> e]
      BY <1>2, <2>1, <2>3, <2>6, Zenon DEF Round
    <3>2. s.json_len \in Nat /\ s.start_p \in Nat \ {0}
      BY DEF ScanState
    <3>3. r \in Suffixes(cut)
      <4>1. s.json_len + 2 \in Nat \ {0}
        BY <3>2
      <4> QED
        BY <2>1, <4>1, SuffixOfSuffix, Zenon
    <3>4. h \in Seq(Seq(Byte))
      <4>1. Text(buf, behind, s.start_p, s.json_len) \in Seq(Byte) /\ o.handed \in Seq(Seq(Byte))
        BY <2>2, <3>2, TextTyped DEF RoundState
      <4> QED
        BY <4>1, SeqAppend
    <3>5. e \in {"redo", "wait", "fail", "short", "crash"}
      BY Zenon
    <3>6. ASSUME e = "redo" PROVE Len(r) < Len(buf)
      <4>1. rest > 0
        BY <2>2, <3>2, <3>6
      <4>2. s.json_len + 2 \in 1..(Len(buf) + 1)
        BY <2>2, <3>2, <4>1
      <4>3. Len(r) = Len(buf) - (s.json_len + 2) + 1
        BY <2>2, <4>2, SuffixTyped
      <4> QED
        BY <2>2, <3>2, <4>3
    <3> HIDE DEF e, r, h
    <3>7. Round(o, behind) \in RoundState(cut)
      BY <3>1, <3>2, <3>3, <3>4, <3>5 DEF RoundState
    <3>8. Round(o, behind).rest = r /\ Round(o, behind).end = e
      BY <3>1
    <3> QED
      BY <1>2, <2>1, <3>6, <3>7, <3>8, Zenon
  <2> QED
    BY <2>4, <2>5, <2>6, Zenon
<1> QED
  BY <1>1, <1>2, Zenon

\* What is left of a buffer when the bytes before the first line feed are
\* dropped; a buffer that starts with one loses nothing.
LEMMA CutIsSuffix ==
  ASSUME NEW buf \in Seq(Byte)
  PROVE  /\ Cut(buf) \in Suffixes(buf)
         /\ buf # <<>> /\ buf[1] = "nl" => Cut(buf) = buf
<1> DEFINE F(n) == /\ n = Len(buf) + 1 \/ buf[n] = "nl"
                   /\ \A m \in 1..(n - 1) : buf[m] # "nl"
           N == {n \in 1..(Len(buf) + 1) : n = Len(buf) + 1 \/ buf[n] = "nl"}
           k == CHOOSE n \in 1..(Len(buf) + 1) : F(n)
<1>1. Len(buf) \in Nat
  BY SeqLen
<1>2. \E n \in 1..(Len(buf) + 1) : F(n)
  <2>1. N \subseteq Nat /\ N # {}
    BY <1>1
  <2>2. PICK n \in N : \A m \in N : n <= m
    BY <2>1, Least
  <2>3. \A m \in 1..(n - 1) : buf[m] # "nl"
    BY <1>1, <2>2
  <2> QED
    BY <2>2, <2>3, Zenon
<1>3. k \in 1..(Len(buf) + 1) /\ F(k)
  BY <1>2, Zenon
<1>4. Cut(buf) = SubSeq(buf, k, Len(buf))
  BY Zenon DEF Cut
<1> HIDE DEF k
<1>5. ASSUME buf # <<>>, buf[1] = "nl" PROVE Cut(buf) = buf
  <2>1. k = 1
    BY <1>1, <1>3, <1>5
  <2> QED
    BY <1>4, <2>1, SeqAll
<1> QED
  BY <1>3, <1>4, <1>5, Zenon DEF Suffixes

\* Before the first round.
RoundStart(cut) == [rest |-> cut, json_len |-> 0, handed |-> <<>>, end |-> "redo"]

\* o records n rounds from RoundStart(cut) on.
Rounds(o, n, cut, behind) ==
    /\ o \in [0..n -> RoundState(cut)] /\ o[0] = RoundStart(cut)
    /\ \A k \in 1..n : o[k] = Round(o[k - 1], behind)

\* an_split_rcv_buf_to_json is what its rounds end in.
LEMMA SplitRounds ==
  ASSUME NEW buf \in Seq(Byte), NEW behind \in Byte, NEW cut \in Seq(Byte), cut = Cut(buf)
  PROVE  \E o : /\ Rounds(o, Len(cut) + 1, cut, behind)
                /\ an_split_rcv_buf_to_json(buf, behind) = o[Len(cut) + 1]
<1> DEFINE N == Len(cut) + 1
           T == RoundState(cut)
           F == [o \in T |-> Round(o, behind)]
           Def(g) == [k \in 0..N |-> IF k = 0 THEN RoundStart(cut) ELSE Round(g[k - 1], behind)]
           f == CHOOSE g : g = Def(g)
<1>1. N \in Nat
  BY SeqLen
<1>2. RoundStart(cut) \in T
  <2>1. cut \in Suffixes(cut)
    <3>1. 1 \in 1..(Len(cut) + 1) /\ cut = SubSeq(cut, 1, Len(cut))
      BY <1>1, SeqAll, SeqLen
    <3> QED
      BY <3>1, Zenon DEF Suffixes
  <2>2. <<>> \in Seq(Seq(Byte))
    BY SeqEmpty
  <2> QED
    BY <2>1, <2>2 DEF RoundStart, RoundState
<1>3. F \in [T -> T]
  BY RoundTyped
<1>4. PICK g \in [0..N -> T] : Steps(g, N, F, RoundStart(cut))
  <2> HIDE DEF F, N, T
  <2> QED
    BY <1>1, <1>2, <1>3, Iterates
<1>5. /\ \A k \in 1..N : k - 1 \in 0..N /\ k \in 0..N /\ k # 0
      /\ \A k \in 0..N : k = 0 \/ k \in 1..N
      /\ 0 \in 0..N
  BY <1>1
<1>6. g[0] = RoundStart(cut) /\ \A k \in 1..N : g[k] = Round(g[k - 1], behind)
  BY <1>4, <1>5, Zenon DEF Steps
<1>7. g = Def(g)
  <2> HIDE DEF N, T
  <2> QED
    BY <1>4, <1>5, <1>6
<1>8. f = Def(f)
  <2> HIDE DEF Def
  <2> QED
    BY <1>7, Zenon
<1>9. an_split_rcv_buf_to_json(buf, behind) = f[N]
  BY Zenon DEF an_split_rcv_buf_to_json, RoundStart
<1> HIDE DEF f
<1>10. /\ f[0] = RoundStart(cut) /\ \A k \in 1..N : f[k] = Round(f[k - 1], behind)
       /\ f = [k \in 0..N |-> f[k]]
  <2> HIDE DEF N
  <2>1. f[0] = RoundStart(cut)
    BY <1>5, <1>8
  <2>2. \A k \in 1..N : f[k] = Round(f[k - 1], behind)
    BY <1>5, <1>8
  <2>3. f = [k \in 0..N |-> f[k]]
    BY <1>8
  <2> QED
    BY <2>1, <2>2, <2>3, Zenon
<1>11. ASSUME NEW k \in 0..N PROVE f[k] \in T
  <2> DEFINE S == {m \in Nat : m \in 0..N => f[m] \in T}
  <2> HIDE DEF T
  <2>1. 0 \in S
    BY <1>2, <1>10
  <2>2. ASSUME NEW m \in Nat, m \in S PROVE m + 1 \in S
    <3> SUFFICES ASSUME m + 1 \in 0..N PROVE f[m + 1] \in T
      OBVIOUS
    <3>1. m \in 0..N /\ m + 1 \in 1..N /\ (m + 1) - 1 = m
      BY <1>1
    <3>2. f[m] \in T /\ f[m + 1] = Round(f[m], behind)
      BY <2>2, <3>1, <1>10
    <3> QED
      BY <3>2, RoundTyped DEF T
  <2> HIDE DEF S
  <2>3. \A m \in Nat : m \in S
    BY <2>1, <2>2, Induction, Zenon
  <2> QED
    BY <1>1, <2>3 DEF S
<1>12. f \in [0..N -> T]
  BY <1>10, <1>11, Zenon
<1>13. Rounds(f, N, cut, behind)
  BY <1>10, <1>12, Zenon DEF Rounds
<1> QED
  BY <1>9, <1>13, Zenon

\* The rounds come to an end, since each consumes bytes: what is left in the
\* receive buffer is the end of what was there, and the texts handed over are
\* sequences of bytes.
LEMMA SplitTyped ==
  ASSUME NEW buf \in Seq(Byte), NEW behind \in Byte, NEW r, r = an_split_rcv_buf_to_json(buf, behind)
  PROVE  /\ r.rest \in Suffixes(buf) /\ r.handed \in Seq(Seq(Byte))
         /\ r.end \in {"wait", "fail", "short", "crash"}
<1>1. PICK m \in 1..(Len(buf) + 1) : Cut(buf) = SubSeq(buf, m, Len(buf))
  BY CutIsSuffix, Zenon DEF Suffixes
<1>2. PICK cut \in Seq(Byte) : cut = Cut(buf)
  BY <1>1, SuffixTyped
<1> DEFINE N == Len(cut) + 1
<1>3. PICK o : Rounds(o, N, cut, behind) /\ r = o[N]
  <2>1. \E o : /\ Rounds(o, Len(cut) + 1, cut, behind)
               /\ an_split_rcv_buf_to_json(buf, behind) = o[Len(cut) + 1]
    BY <1>2, SplitRounds, Zenon
  <2> QED
    BY <2>1, Zenon
<1>4. Len(cut) \in Nat
  BY SeqLen
<1> DEFINE Far(k) == o[k].end # "redo" \/ Len(o[k].rest) + k <= Len(cut)
           S == {k \in Nat : k \in 0..N => Far(k)}
<1>5. 0 \in S
  BY <1>3, <1>4 DEF Rounds, RoundStart
<1>6. ASSUME NEW k \in Nat, k \in S PROVE k + 1 \in S
  <2> SUFFICES ASSUME k + 1 \in 0..N PROVE Far(k + 1)
    <3>1. k + 1 \in Nat
      OBVIOUS
    <3> QED
      BY <3>1, Zenon
  <2>1. k \in 0..N /\ k + 1 \in 1..N /\ (k + 1) - 1 = k
    BY <1>4
  <2>2. PICK a \in RoundState(cut) : a = o[k] /\ o[k + 1] = Round(a, behind)
    BY <1>3, <2>1 DEF Rounds
  <2>3. Far(k)
    BY <1>6, <2>1, Zenon
  <2>4. CASE a.end # "redo"
    BY <2>2, <2>4, RoundTyped, Zenon
  <2>5. CASE a.end = "redo" /\ o[k + 1].end = "redo"
    <3>1. Len(a.rest) + k <= Len(cut)
      BY <2>2, <2>3, <2>5, Zenon
    <3>2. Len(o[k + 1].rest) < Len(a.rest) /\ o[k + 1] \in RoundState(cut)
      <4>1. Round(a, behind).end = "redo"
        BY <2>2, <2>5, Zenon
      <4>2. Len(Round(a, behind).rest) < Len(a.rest) /\ Round(a, behind) \in RoundState(cut)
        BY <2>5, <4>1, RoundTyped, Zenon
      <4> QED
        BY <2>2, <4>2, Zenon
    <3>3. o[k + 1].rest \in Suffixes(cut) /\ a.rest \in Suffixes(cut)
      BY <3>2 DEF RoundState
    <3>4. Len(o[k + 1].rest) \in Nat /\ Len(a.rest) \in Nat
      BY <3>3, SuffixTyped, SeqLen DEF Suffixes
    <3>5. Len(o[k + 1].rest) + (k + 1) <= Len(cut)
      <4>1. PICK x \in Nat, y \in Nat, z \in Nat :
                x = Len(o[k + 1].rest) /\ y = Len(a.rest) /\ z = Len(cut)
        BY <1>4, <3>4, Zenon
      <4>2. x < y /\ y + k <= z
        BY <3>1, <3>2, <4>1, Zenon
      <4>3. x + (k + 1) <= z
        BY <4>2
      <4> QED
        BY <4>1, <4>3, Zenon
    <3> QED
      BY <3>5, Zenon
  <2> QED
    BY <2>4, <2>5, Zenon
<1> HIDE DEF S
<1>7. \A k \in Nat : k \in S
  BY <1>5, <1>6, Induction, Zenon
<1>8. Far(N) /\ o[N] \in RoundState(cut)
  <2>1. N \in Nat /\ N \in 0..N
    BY <1>4
  <2> QED
    BY <1>3, <1>7, <2>1, Zenon DEF S, Rounds
<1>9. r.rest \in Suffixes(cut) /\ r.handed \in Seq(Seq(Byte))
      /\ r.end \in {"redo", "wait", "fail", "short", "crash"}
  BY <1>3, <1>8 DEF RoundState
<1>10. r.end # "redo"
  <2>1. Len(r.rest) \in Nat
    BY <1>9, SuffixTyped, SeqLen DEF Suffixes
  <2>2. ~(Len(r.rest) + N <= Len(cut))
    <3>1. PICK x \in Nat, z \in Nat : x = Len(r.rest) /\ z = Len(cut)
      BY <1>4, <2>1, Zenon
    <3>2. ~(x + (z + 1) <= z)
      OBVIOUS
    <3> QED
      BY <3>1, <3>2, Zenon
  <2> QED
    BY <1>3, <1>8, <2>2, Zenon
<1>11. r.rest \in Suffixes(buf)
  <2>1. PICK n \in 1..(Len(cut) + 1) : r.rest = SubSeq(cut, n, Len(cut))
    BY <1>9, Zenon DEF Suffixes
  <2>2. cut \in Suffixes(buf) /\ n \in Nat \ {0}
    BY <1>2, <1>4, CutIsSuffix
  <2> QED
    BY <2>1, <2>2, SuffixOfSuffix, Zenon
<1> QED
  BY <1>9, <1>10, <1>11, Zenon

-----------------------------------------------------------------------------
(* Packets that the splitter can frame. *)

\* The loop over the first n bytes of a framed packet.
LEMMA FramedScan ==
  ASSUME NEW p \in Seq(Byte), Framed(p), NEW n \in 2..Len(p), NEW behind,
         behind # "nl", Brace(behind) \in 0..1, NEW s, s = Scan(SubSeq(p, 1, n), behind, 0)
  PROVE  /\ s.packet_flag = 1
         /\ n < Len(p) => s.start_flag # 0
         /\ n = Len(p) => s.start_flag = 0 /\ s.json_len = n - 1 /\ s.start_p = 2
<1> DEFINE buf == SubSeq(p, 1, n)
           N == n + 2
<1>1. Len(p) \in Nat /\ Len(p) > 1 /\ n \in Nat /\ n >= 2 /\ n <= Len(p)
  BY SeqLen DEF Framed
<1>2. Len(buf) = n /\ \A k \in 1..n : buf[k] = p[k]
  <2>1. \A k \in 1..n : p[k] \in Byte
    BY <1>1, SeqElement
  <2> QED
    BY <1>1, <2>1, SeqPart
<1>3. PICK st : Passes(st, N, buf, behind, 0) /\ s = st[N]
  <2>1. Len(buf) + 2 = N /\ Len(buf) \in Nat /\ 0 \in Nat
    BY <1>1, <1>2
  <2> HIDE DEF buf, N
  <2>2. \E st : Passes(st, Len(buf) + 2, buf, behind, 0) /\ Scan(buf, behind, 0) = st[Len(buf) + 2]
    BY <2>1, ScanPasses
  <2> QED
    BY <2>1, <2>2 DEF buf
<1>4. PICK d \in [1..Len(p) -> 0..Len(p)] :
         /\ d[1] = 0
         /\ \A k \in 2..Len(p) : d[k] = d[k - 1] + Brace(p[k]) /\ (d[k] = 0 <=> k = Len(p))
  BY Zenon DEF Framed
<1> HIDE DEF buf
<1>5. ASSUME NEW k \in 0..(N - 1)
      PROVE  /\ st[k] \in ScanState /\ st[k + 1] = Pass(buf, behind, st[k]) /\ Len(buf) \in Nat
  <2>1. k \in 0..N /\ k + 1 \in 1..N /\ (k + 1) - 1 = k
    BY <1>1
  <2> QED
    BY <1>1, <1>2, <1>3, <2>1 DEF Passes
<1> DEFINE Where(k) == /\ st[k].end_p = k + 1 /\ st[k].start_p = 2 /\ st[k].json_len = k - 1
                       /\ st[k].start_flag = d[k] /\ st[k].packet_flag = 1
                       /\ st[k].complete <=> k = Len(p)
           S == {k \in Nat : k \in 1..n => Where(k)}
<1>6. Where(1)
  <2>1. 0 \in 0..(N - 1) /\ 0 + 1 = 1
    BY <1>1
  <2>2. st[0] \in ScanState /\ st[1] = Pass(buf, behind, st[0]) /\ st[0] = ScanStart(0)
    BY <1>3, <1>5, <2>1 DEF Passes
  <2>3. /\ st[0].end_p = 1 /\ st[0].start_p = 1 /\ st[0].json_len = 0
        /\ st[0].start_flag = 0 /\ st[0].packet_flag = 0 /\ ~st[0].complete
    BY <2>2 DEF ScanStart
  <2>4. At(buf, behind, st[0].end_p) = "nl" /\ ~Ended(buf, st[0])
    BY <1>1, <1>2, <2>3 DEF At, Ended, Framed
  <2>5. /\ st[1].end_p = 2 /\ st[1].start_p = 2 /\ st[1].json_len = 0
        /\ st[1].start_flag = 0 /\ st[1].packet_flag = 1 /\ ~st[1].complete
    BY <2>2, <2>3, <2>4, PassFeed DEF Fed
  <2> QED
    BY <1>1, <1>4, <2>5
<1>7. ASSUME NEW k \in Nat, k \in S PROVE k + 1 \in S
  <2> SUFFICES ASSUME k + 1 \in 1..n PROVE Where(k + 1)
    <3>1. k + 1 \in Nat
      OBVIOUS
    <3> QED
      BY <3>1, Zenon
  <2>1. CASE k = 0
    BY <1>6, <2>1
  <2>2. CASE k # 0
    <3>1. k \in 1..n /\ k \in 0..(N - 1) /\ k < n
      BY <1>1, <2>2
    <3>2. Where(k)
      BY <1>7, <3>1, Zenon
    <3>3. st[k] \in ScanState /\ st[k + 1] = Pass(buf, behind, st[k])
      BY <1>5, <3>1, Zenon
    <3>4. PICK c : c = At(buf, behind, st[k].end_p)
      BY Zenon
    <3>5. c = p[k + 1] /\ c # "nl"
      <4>1. c = buf[k + 1]
        BY <1>2, <3>1, <3>2, <3>4 DEF At
      <4>2. k + 1 \in 1..Len(p) /\ k + 1 # 1
        BY <1>1, <2>2
      <4> QED
        BY <1>2, <4>1, <4>2 DEF Framed
    <3>6. ~Ended(buf, st[k])
      <4>1. k # Len(p) /\ ~(st[k].json_len >= Len(buf)) /\ ~(st[k].packet_flag > 1)
        BY <1>1, <1>2, <3>1, <3>2
      <4> QED
        BY <3>2, <4>1, Zenon DEF Ended
    <3>7. /\ st[k + 1].end_p = st[k].end_p + 1 /\ st[k + 1].start_p = st[k].start_p
          /\ st[k + 1].json_len = st[k].json_len + 1
          /\ st[k + 1].start_flag = st[k].start_flag + Brace(c)
          /\ st[k + 1].packet_flag = st[k].packet_flag
          /\ st[k + 1].complete <=> st[k + 1].start_flag = 0 /\ st[k].packet_flag = 1
      <4>1. Counted(st[k], st[k + 1], c)
        BY <3>3, <3>4, <3>5, <3>6, PassByte
      <4> QED
        BY <4>1, Zenon DEF Counted
    <3>8. k + 1 \in 2..Len(p) /\ (k + 1) - 1 = k
      BY <1>1, <2>2
    <3>9. st[k + 1].start_flag = d[k + 1] /\ (d[k + 1] = 0 <=> k + 1 = Len(p))
      BY <1>4, <3>2, <3>5, <3>7, <3>8
    <3>10. st[k + 1].complete <=> k + 1 = Len(p)
      BY <3>2, <3>7, <3>9, Zenon
    <3>11. st[k + 1].end_p = (k + 1) + 1 /\ st[k + 1].json_len = (k + 1) - 1
      BY <3>2, <3>7
    <3> QED
      BY <3>2, <3>7, <3>9, <3>10, <3>11, Zenon
  <2> QED
    BY <2>1, <2>2, Zenon
<1> HIDE DEF S
<1>8. \A k \in Nat : k \in S
  <2>1. 0 \in S
    BY DEF S
  <2> QED
    BY <1>7, <2>1, Induction, Zenon
<1>9. Where(n)
  <2>1. n \in 1..n
    BY <1>1
  <2> QED
    BY <1>1, <1>8, <2>1, Zenon DEF S
<1>10. n \in 0..(N - 1) /\ n + 1 \in 0..(N - 1) /\ (n + 1) + 1 = N
  BY <1>1
<1>11. CASE n = Len(p)
  <2>1. Ended(buf, st[n])
    BY <1>9, <1>11, Zenon DEF Ended
  <2>2. st[n + 1] = st[n]
    BY <1>5, <1>10, <2>1, PassStays, Zenon
  <2>3. st[N] = Pass(buf, behind, st[n])
    BY <1>5, <1>10, <2>2
  <2>4. st[N] = st[n]
    BY <2>1, <2>3, PassStays, Zenon
  <2>5. d[n] = 0
    BY <1>1, <1>4, <1>11
  <2> QED
    BY <1>1, <1>3, <1>9, <1>11, <2>4, <2>5
<1>12. CASE n < Len(p)
  <2>1. ~Ended(buf, st[n])
    <3>1. n # Len(p) /\ ~(st[n].json_len >= Len(buf)) /\ ~(st[n].packet_flag > 1)
      BY <1>1, <1>2, <1>9, <1>12
    <3> QED
      BY <1>9, <3>1, Zenon DEF Ended
  <2>2. behind = At(buf, behind, st[n].end_p)
    BY <1>1, <1>2, <1>9 DEF At
  <2>3. /\ st[n + 1].json_len = st[n].json_len + 1
        /\ st[n + 1].start_flag = st[n].start_flag + Brace(behind)
        /\ st[n + 1].packet_flag = st[n].packet_flag
    <3>1. Counted(st[n], st[n + 1], behind)
      BY <1>5, <1>10, <2>1, <2>2, PassByte
    <3> QED
      BY <3>1, Zenon DEF Counted
  <2>4. st[n + 1].start_flag # 0
    <3>1. d[n] \in Nat /\ d[n] # 0
      BY <1>1, <1>4, <1>12
    <3> QED
      BY <1>9, <2>3, <3>1
  <2>5. Ended(buf, st[n + 1])
    BY <1>1, <1>2, <1>9, <2>3 DEF Ended
  <2>6. st[N] = Pass(buf, behind, st[n + 1])
    BY <1>5, <1>10
  <2>7. st[N] = st[n + 1]
    BY <2>5, <2>6, PassStays, Zenon
  <2> QED
    BY <1>1, <1>3, <1>9, <1>12, <2>3, <2>4, <2>7
<1> QED
  BY <1>1, <1>11, <1>12

\* an_split_rcv_buf_to_json keeps a part of a framed packet until the rest
\* comes, and hands over the whole packet without its line feed.
THEOREM SplitFrames ==
  ASSUME NEW p \in Seq(Byte), Framed(p), NEW n \in 2..Len(p), NEW behind \in Byte,
         behind # "nl", Brace(behind) \in 0..1
  PROVE  Delivers(p, n, an_split_rcv_buf_to_json(SubSeq(p, 1, n), behind))
<1>0. PICK r : r = an_split_rcv_buf_to_json(SubSeq(p, 1, n), behind)
  BY Zenon
<1>1. Len(p) \in Nat /\ Len(p) > 1 /\ n \in Nat /\ n >= 2 /\ n <= Len(p)
  BY SeqLen DEF Framed
<1>2. PICK buf \in Seq(Byte) : buf = SubSeq(p, 1, n) /\ Len(buf) = n /\ \A k \in 1..n : buf[k] = p[k]
  <2>1. n \in 0..Len(p)
    BY <1>1
  <2>2. /\ SubSeq(p, 1, n) \in Seq(Byte) /\ Len(SubSeq(p, 1, n)) = n
        /\ \A k \in 1..n : SubSeq(p, 1, n)[k] = p[k]
    BY <2>1, PrefixTyped, Zenon
  <2> QED
    BY <2>2, Zenon
<1>3. buf = Cut(buf)
  <2>1. buf # <<>> /\ buf[1] = "nl"
    BY <1>1, <1>2 DEF Framed
  <2> QED
    BY <2>1, CutIsSuffix, Zenon
<1> DEFINE N == n + 1
<1>4. PICK o : Rounds(o, N, buf, behind) /\ r = o[N]
  <2>1. \E o : /\ Rounds(o, Len(buf) + 1, buf, behind)
               /\ an_split_rcv_buf_to_json(buf, behind) = o[Len(buf) + 1]
    BY <1>3, SplitRounds, Zenon
  <2> QED
    BY <1>0, <1>2, <2>1, Zenon
<1>5. /\ o[0] = RoundStart(buf) /\ o[1] = Round(o[0], behind) /\ o[1] \in RoundState(buf)
  <2>1. 1 \in 1..N /\ 1 - 1 = 0 /\ 1 \in 0..N
    BY <1>1
  <2> QED
    BY <1>4, <2>1 DEF Rounds
<1>6. PICK s : s = Scan(buf, behind, 0)
  BY Zenon
<1>7. /\ s.packet_flag = 1
      /\ n < Len(p) => s.start_flag # 0
      /\ n = Len(p) => s.start_flag = 0 /\ s.json_len = n - 1 /\ s.start_p = 2
  BY <1>2, <1>6, FramedScan
<1>8. o[0].end = "redo" /\ o[0].rest = buf /\ o[0].json_len = 0 /\ o[0].handed = <<>>
  BY <1>5 DEF RoundStart
<1>9. ~(s.packet_flag > 1)
  BY <1>7
<1>10. /\ o[1].end = "wait"
       /\ n < Len(p) => o[1].rest = SubSeq(p, 1, n) /\ o[1].handed = <<>>
       /\ n = Len(p) => o[1].rest = <<>> /\ o[1].handed = <<Tail(p)>>
  <2>1. CASE n < Len(p)
    <3>1. s.start_flag # 0
      BY <1>7, <2>1, Zenon
    <3>2. o[1] = [o[0] EXCEPT !.end = "wait"]
      BY <1>5, <1>6, <1>8, <1>9, <3>1, Zenon DEF Round
    <3>3. o[1].end = "wait" /\ o[1].rest = buf /\ o[1].handed = <<>>
      BY <1>5, <3>2 DEF RoundStart
    <3> QED
      BY <1>2, <2>1, <3>3
  <2>2. CASE n = Len(p)
    <3>1. s.start_flag = 0 /\ s.json_len = n - 1 /\ s.json_len # 0 /\ s.start_p = 2
      BY <1>1, <1>7, <2>2
    <3>2. o[1] = [rest     |-> SubSeq(buf, s.json_len + 2, Len(buf)),
                  json_len |-> s.json_len,
                  handed   |-> Append(o[0].handed, Text(buf, behind, s.start_p, s.json_len)),
                  end      |-> LET rest == Len(buf) - (s.json_len + 1) IN
                               IF rest < -2 THEN "crash" ELSE IF rest < 0 THEN "short"
                               ELSE IF rest = 0 THEN "wait" ELSE "redo"]
      BY <1>5, <1>6, <1>8, <1>9, <3>1, Zenon DEF Round
    <3>3. Len(buf) - (s.json_len + 1) = 0 /\ s.json_len + 2 = n + 1 /\ Len(buf) = n
      BY <1>1, <1>2, <3>1
    <3>4. o[1].end = "wait" /\ o[1].rest = SubSeq(buf, n + 1, n)
          /\ o[1].handed = Append(<<>>, Text(buf, behind, 2, n - 1))
      BY <1>8, <3>1, <3>2, <3>3
    <3>5. SubSeq(buf, n + 1, n) = <<>>
      BY <1>1, SeqNoPart
    <3>6. Text(buf, behind, 2, n - 1) = Tail(p)
      <4>1. PICK t : t = Text(buf, behind, 2, n - 1)
        BY Zenon
      <4>2. t \in Seq(Byte) /\ Len(t) = n - 1
        <5>1. 2 \in Nat \ {0} /\ n - 1 \in Nat
          BY <1>1
        <5> QED
          BY <4>1, <5>1, TextTyped, Zenon
      <4>3. p # <<>> /\ Tail(p) \in Seq(Byte) /\ Len(Tail(p)) = n - 1
            /\ \A k \in 1..(n - 1) : Tail(p)[k] = p[k + 1]
        BY <1>1, <2>2, SeqHeadTail
      <4>4. ASSUME NEW k \in 1..(n - 1) PROVE t[k] = Tail(p)[k]
        <5>1. t[k] = At(buf, behind, 2 + k - 1)
          BY <4>1 DEF Text
        <5>2. 2 + k - 1 = k + 1 /\ k + 1 \in 1..n /\ k + 1 <= Len(buf)
          BY <1>1, <1>2
        <5>3. t[k] = p[k + 1]
          BY <1>2, <5>1, <5>2 DEF At
        <5> QED
          BY <4>3, <5>3
      <4> QED
        BY <4>1, <4>2, <4>3, <4>4, SeqSame
    <3>7. Append(<<>>, Tail(p)) = <<Tail(p)>>
      OBVIOUS
    <3> QED
      BY <1>1, <2>2, <3>4, <3>5, <3>6, <3>7
  <2> QED
    BY <1>1, <2>1, <2>2
<1>11. ASSUME NEW k \in 1..N PROVE o[k] = o[1]
  <2> DEFINE S == {m \in Nat : m \in 1..N => o[m] = o[1]}
  <2>1. 0 \in S
    OBVIOUS
  <2>2. ASSUME NEW m \in Nat, m \in S PROVE m + 1 \in S
    <3> SUFFICES ASSUME m + 1 \in 1..N, m # 0 PROVE o[m + 1] = o[1]
      OBVIOUS
    <3>1. m \in 1..N /\ (m + 1) - 1 = m
      BY <1>1
    <3>2. o[m] = o[1] /\ o[m + 1] = Round(o[m], behind)
      BY <1>4, <2>2, <3>1 DEF Rounds
    <3>3. o[1].end # "redo"
      BY <1>10
    <3> QED
      BY <3>2, <3>3, Zenon DEF Round
  <2> HIDE DEF S
  <2>3. \A m \in Nat : m \in S
    BY <2>1, <2>2, Induction, Zenon
  <2> QED
    BY <1>1, <2>3 DEF S
<1>12. r = o[1]
  <2>1. N \in 1..N
    BY <1>1
  <2> QED
    BY <1>4, <1>11, <2>1, Zenon
<1> QED
  BY <1>0, <1>10, <1>12, Zenon DEF Delivers

-----------------------------------------------------------------------------
(* The theorems. *)

\* an_split_rcv_buf_to_json does what the steps of the server were proved from.
LEMMA SplitsHolds == Splits
<1>1. ASSUME NEW behind \in Byte, NEW buf \in Seq(Byte)
      PROVE  Shaped(buf, an_split_rcv_buf_to_json(buf, behind))
  BY SplitTyped, Zenon DEF Shaped
<1>2. ASSUME NEW behind \in Byte, behind # "nl" /\ Brace(behind) \in 0..1,
             NEW p \in Seq(Byte), Framed(p), NEW n \in 2..Len(p)
      PROVE  Delivers(p, n, an_split_rcv_buf_to_json(SubSeq(p, 1, n), behind))
  BY <1>2, SplitFrames, Zenon
<1> QED
  BY <1>1, <1>2, Zenon DEF Splits

\* Every variable keeps its type.
THEOREM TypeCorrect == Spec => []TypeOK
<1>1. Init => IInv /\ Types /\ Streams
  BY InitIInv, InitStreams
<1>2. (IInv /\ Types /\ Streams) /\ [Next]_vars => (IInv /\ Types /\ Streams)'
  BY NextIInv, NextStreams, SplitsHolds, Zenon
<1>3. IInv /\ Types /\ Streams => TypeOK
  BY Zenon DEF IInv, Shape, Types, TypeOK
<1> QED
  BY <1>1, <1>2, <1>3, PTL DEF Spec

\* With framed packets the packets stay whole.
LEMMA WholeHolds ==
  ASSUME Framing
  PROVE  Spec => [](IInv /\ Types /\ Streams /\ Whole)
<1>1. Init => IInv /\ Types /\ Streams /\ Whole
  BY InitIInv, InitStreams, InitWhole
<1>2. (IInv /\ Types /\ Streams /\ Whole) /\ [Next]_vars => (IInv /\ Types /\ Streams /\ Whole)'
  BY NextIInv, NextStreams, NextWhole, SplitsHolds, Zenon
<1> QED
  BY <1>1, <1>2, PTL DEF Spec

\* The allocator gets every framed packet whole and once, however the packet
\* was cut into segments and into calls of recv.
THEOREM PacketsIntactHolds ==
  ASSUME Framing
  PROVE  Spec => []PacketsIntact
<1>1. Whole => PacketsIntact
  BY Zenon DEF Whole
<1> QED
  BY <1>1, WholeHolds, PTL

\* With framed packets rcv_len and the length given to memmove are never
\* negative.
THEOREM RcvLenNotNegativeHolds ==
  ASSUME Framing
  PROVE  Spec => []RcvLenNotNegative
<1>1. Whole => RcvLenNotNegative
  BY Zenon DEF Whole, Due, RcvLenNotNegative
<1> QED
  BY <1>1, WholeHolds, PTL

\* A reply reaches the call that asked for it, or that call has given up:
\* with framed packets no slot changes hands while a call waits.
THEOREM StrayRepliesAreLateHolds ==
  ASSUME Framing
  PROVE  Spec => []StrayRepliesAreLate
<1>1. Init => Askers /\ StrayRepliesAreLate
  <2> SUFFICES ASSUME Init PROVE Askers /\ StrayRepliesAreLate
    OBVIOUS
  <2>1. /\ tasks = {} /\ pc = "poll" /\ \A s \in Slots : sock[s] = NoSock /\ ~write[s]
        /\ \A c \in Conns : got[c] = NoReply
    BY DEF Init, an_poll_init
  <2> QED
    BY <2>1 DEF Askers, StrayRepliesAreLate
<1>2. (IInv /\ Types /\ Streams /\ Whole) /\ (Askers /\ StrayRepliesAreLate) /\ [Next]_vars
        => (Askers /\ StrayRepliesAreLate)'
  BY NextAskers, SplitsHolds, Zenon
<1> QED
  BY <1>1, <1>2, WholeHolds, PTL DEF Spec

=============================================================================
