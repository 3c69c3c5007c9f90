-------------------------- MODULE DataSave_proofs ---------------------------
(***************************************************************************)
(* The safety properties of DataSave hold for any finite sets of users and *)
(* groups, any number of days, records and crashes, and any keeping time.  *)
(* First the inductive invariant and the facts its steps share, then the   *)
(* steps of the world, of the program between two saves, of the start-up   *)
(* check and of the save at 3 o'clock, and at the end the theorems.        *)
(***************************************************************************)
EXTENDS DataSave, TLAPS

\* The groups the program knew when the model starts, and the group of all users.
OG == Range(OldGroups) \cup {0}

\* Everything group g should have counted for day d, it has.
InSum(g, d) == \A u \in Users : g \in {group_of[u], 0} /\ user_calc[u][d] # NotCounted
                                => group_calc[g][d][u] = user_calc[u][d]

\* Who worked yesterday has that day in the summary.
Done == \A u \in Users : logged[u][today - 1] > 0 => user_calc[u][today - 1] = logged[u][today - 1]

\* The list holds every record of its day.
Filled == \A u \in Users : logged[u][list_day] > 0 => list[u] = logged[u][list_day]

Checking == {"check_user", "out_user", "out_group", "out_all", "split"}
Saving   == {"save_user", "save_group", "del_raw", "del_old", "reload"}

\* The raw log: nothing of today is missing, and only known users write.
LogInv ==
    /\ \A u \in Users, d \in Days : raw[u][d] <= logged[u][d]
    /\ \A u \in Users, d \in Days : d >= today => raw[u][d] = logged[u][d]
    /\ \A u \in Users, d \in Days : logged[u][d] > 0 => d <= today /\ u \in Existing
    /\ Range(OldGroups) \subseteq Range(an_group_list)

\* The users' summaries: a stored time of yesterday means yesterday is complete,
\* and yesterday's records are deleted only under such a time.
CalcInv ==
    /\ \A u \in Users, d \in Days : user_calc[u][d] <= logged[u][d]
    /\ \A u \in Users, d \in Days : d >= today => user_calc[u][d] = NotCounted
    /\ \A u \in Users : user_time[u] = NotFound \/ user_time[u] >= Rev(today - 1)
    /\ \A u \in Users : user_time[u] = Rev(today - 1) =>
                          user_calc[u][today - 1] = logged[u][today - 1]
    /\ \A u \in Users : raw[u][today - 1] < logged[u][today - 1] =>
                          user_time[u] = Rev(today - 1)

\* Days before yesterday are settled.
PastInv ==
    /\ \A u \in Users, d \in Days :
         d < today - 1 /\ logged[u][d] > 0 =>
             d \in skipped \/ ~Kept(d) \/ user_calc[u][d] = logged[u][d]
    /\ present => Done

\* The list and the day it is for.
ListInv ==
    /\ \A u \in Users : list[u] <= logged[u][list_day]
    /\ pc \notin {"run"} \cup Saving => list = NoList /\ mday = 0
    /\ pc \notin Saving => sums = NoSums
    /\ pc = "run" =>
         /\ list_day \in {today - 1, today} /\ mday \in {0, list_day}
         /\ mday = 0 => list_day = today /\ ~ticked
         /\ list_day = today => Done
         /\ list_day = today - 1 => phase = "night" \/ ~ticked
         /\ list_day = today - 1 =>
              /\ \A u \in Users : raw[u][today - 1] = logged[u][today - 1]
              /\ \A u \in Users : user_calc[u][today - 1] = NotCounted
              /\ \A g \in OG : group_time[g] > Rev(today - 1)
              /\ ticked \/ phase = "day" => Filled
    /\ pc \in Saving => phase = "day" /\ list_day = today - 1 /\ Filled

\* The check of the users.
CheckInv ==
    /\ pc \in Checking =>
         /\ Range(todo) \subseteq Existing
         /\ \A u \in Existing \ Range(todo) :
              logged[u][today - 1] > 0 => user_calc[u][today - 1] = logged[u][today - 1]
    /\ pc \in {"out_user", "out_group", "out_all", "split"} => todo # <<>>
    /\ pc \in {"check_group", "resave_group", "load"} => Done

\* The record that is being cut has been credited as far as the check has come.
CreditInv ==
    /\ CrossingCredited
    /\ pc \in {"out_group", "out_all", "split"} => out[Head(todo)][today - 1]["user"] > 0
    /\ pc \in {"out_all", "split"} => out[Head(todo)][today - 1]["group"] > 0
    /\ pc = "split" => out[Head(todo)][today - 1]["all"] > 0

\* The groups' stored times.
GroupInv ==
    /\ GroupUpToDate
    /\ \A g \in Gids : group_time[g] \in {NotFound, 0} \/ group_time[g] >= Rev(today - 1)
    /\ \A g \in OG : group_time[g] # NotFound
    /\ \A g \in OG : group_time[g] = 0 => \A d \in Days : Kept(d) => InSum(g, d)

\* Where every group has counted everything.
CountedInv ==
    /\ pc \in {"load", "run", "save_user"} => \A g \in OG : group_time[g] # 0
    /\ pc \in {"load", "run", "del_raw", "del_old", "reload"} =>
         \A g \in OG, d \in Days : Kept(d) => InSum(g, d)

\* The check of the groups.
RecountInv ==
    /\ pc \in {"check_group", "resave_group"} =>
         /\ Range(todo) \subseteq Gids
         /\ \A g \in OG \ Range(todo) : group_time[g] = Rev(today - 1)
    /\ pc = "resave_group" =>
         /\ todo # <<>> /\ histroy >= Rev(today - 1)
         /\ Head(todo) \in OG =>
              /\ \A d \in Days : Kept(d) /\ Rev(d) >= histroy => InSum(Head(todo), d)
              /\ histroy = Rev(today - 1) => group_time[Head(todo)] = Rev(today - 1)

\* The save at 3 o'clock.
SaveInv ==
    /\ pc \in {"save_user", "save_group", "del_raw"} =>
         \A u \in Users : raw[u][today - 1] = logged[u][today - 1]
    /\ pc \in {"save_user", "save_group"} =>
         /\ \A u \in Users \ Listed : user_calc[u][today - 1] = NotCounted
         /\ \A g \in Gids, u \in Users : sums[g][u] # NotCounted =>
              sums[g][u] = list[u] /\ g \in {group_of[u], 0}
         /\ \A g \in OG, d \in Days : Kept(d) /\ d # today - 1 => InSum(g, d)
    /\ pc = "save_user" =>
         /\ Range(todo) \subseteq Listed
         /\ \A u \in Listed \ Range(todo) :
              /\ user_calc[u][today - 1] = list[u] /\ user_time[u] = Rev(today - 1)
              /\ \A g \in {group_of[u], 0} : sums[g][u] = list[u]
         /\ \A g \in OG : group_time[g] > Rev(today - 1)
    /\ pc \in Saving \ {"save_user"} =>
         /\ \A u \in Listed : user_calc[u][today - 1] = list[u] /\ user_time[u] = Rev(today - 1)
         /\ \A g \in OG : group_time[g] = 0 => Listed = {}
    /\ pc = "save_group" =>
         /\ Range(todo) \subseteq Gids
         /\ \A g \in Range(todo) : g = 0 \/ \E u \in Users : sums[g][u] # NotCounted
         /\ \A u \in Listed : \A g \in {group_of[u], 0} : sums[g][u] = list[u]
         /\ \A g \in OG : InSum(g, today - 1)
                          \/ (g \in Range(todo) /\ group_time[g] > Rev(today - 1))
    /\ pc = "reload" => Listed # {}

\* The inductive invariant.
IInv == /\ TypeOK /\ LogInv /\ CalcInv /\ PastInv /\ ListInv /\ CheckInv
        /\ CreditInv /\ GroupInv /\ CountedInv /\ RecountInv /\ SaveInv

-----------------------------------------------------------------------------
(* Sequences, days and types. *)

\* Taking the first element of a sequence off.
LEMMA TakeHead ==
  ASSUME NEW S, NEW s \in Seq(S), s # <<>>
  PROVE  /\ Head(s) \in S /\ Head(s) \in Range(s) /\ Tail(s) \in Seq(S)
         /\ Range(Tail(s)) \subseteq Range(s)
         /\ \A x \in Range(s) : x = Head(s) \/ x \in Range(Tail(s))
<1>1. /\ Len(s) \in Nat /\ Len(s) # 0 /\ DOMAIN s = 1..Len(s) /\ Head(s) = s[1] /\ 1 \in DOMAIN s
      /\ Tail(s) \in Seq(S) /\ DOMAIN Tail(s) = 1..Len(s)-1
      /\ \A k \in 1..Len(s)-1 : Tail(s)[k] = s[k+1]
  OBVIOUS
<1>2. \A k \in 1..Len(s)-1 : k + 1 \in DOMAIN s
  BY <1>1
<1>3. \A k \in DOMAIN s : k = 1 \/ (k - 1 \in 1..Len(s)-1 /\ s[k] = Tail(s)[k - 1])
  BY <1>1
<1> QED
  BY <1>1, <1>2, <1>3 DEF Range

\* Nothing is left in the empty sequence.
LEMMA RangeEmpty == Range(<<>>) = {}
BY DEF Range

\* Appending an element.
LEMMA RangeAppend ==
  ASSUME NEW S, NEW s \in Seq(S), NEW x
  PROVE  Range(Append(s, x)) = Range(s) \cup {x}
<1>1. /\ Len(s) \in Nat /\ DOMAIN s = 1..Len(s) /\ DOMAIN Append(s, x) = 1..Len(s)+1
      /\ Append(s, x)[Len(s)+1] = x /\ \A k \in 1..Len(s) : Append(s, x)[k] = s[k]
  OBVIOUS
<1>2. \A k \in 1..Len(s)+1 : k = Len(s)+1 \/ k \in 1..Len(s)
  BY <1>1
<1>3. 1..Len(s) \subseteq 1..Len(s)+1 /\ Len(s)+1 \in 1..Len(s)+1
  BY <1>1
<1>4. Range(Append(s, x)) \subseteq Range(s) \cup {x}
  BY <1>1, <1>2, Zenon DEF Range
<1>5. Range(s) \cup {x} \subseteq Range(Append(s, x))
  BY <1>1, <1>3, Zenon DEF Range
<1> QED
  BY <1>4, <1>5, Zenon

\* An order of a set is a sequence of all its members.
LEMMA OrdersAre ==
  ASSUME NEW S, NEW s \in Orders(S)
  PROVE  s \in Seq(S) /\ Range(s) = S
<1>1. PICK n \in 0..Cardinality(S) : s \in [1..n -> S]
  BY Zenon DEF Orders
<1>2. n \in Nat
  BY <1>1
<1> QED
  BY <1>1, <1>2 DEF Orders

\* Changing one entry of a table.
LEMMA Except2 ==
  ASSUME NEW A, NEW B, NEW C, NEW f \in [A -> [B -> C]], NEW a \in A, NEW b \in B, NEW c \in C,
         NEW h, h = [f EXCEPT ![a][b] = c]
  PROVE  /\ h \in [A -> [B -> C]]
         /\ h[a][b] = c
         /\ \A x \in A, y \in B : x # a \/ y # b => h[x][y] = f[x][y]
BY Zenon

\* Existing users and listed users are users.
LEMMA UsersAre == Existing \subseteq Users /\ Listed \subseteq Users
BY Zenon DEF Existing, Listed

\* The types, element by element.
Typed ==
    /\ today \in Days /\ today \in Nat /\ today - 1 \in Days /\ today - 1 \in Nat
    /\ GMT_REVERS_MASK \in Nat /\ KeepDays \in Nat \ {0}
    /\ Rev(today - 1) \in Nat /\ Rev(today - 1) > 0
    /\ \A d \in Days : d \in Nat /\ Rev(d) \in Nat /\ Rev(d) > 0
    /\ \A u \in Users, d \in Days :
         /\ raw[u][d] \in Nat /\ logged[u][d] \in Nat /\ user_calc[u][d] \in Int
         /\ user_calc[u][d] >= -1
    /\ \A u \in Users : list[u] \in Int /\ list[u] >= -1 /\ user_time[u] \in Int
    /\ \A g \in Gids : group_time[g] \in Int
    /\ OG \subseteq Gids

\* They follow from the type invariant.
LEMMA Types == TypeOK => Typed
<1> SUFFICES ASSUME TypeOK PROVE Typed
  BY Zenon
<1>1. /\ today \in Days /\ today \in Nat /\ today - 1 \in Days /\ today - 1 \in Nat
      /\ GMT_REVERS_MASK \in Nat /\ KeepDays \in Nat \ {0}
      /\ Rev(today - 1) \in Nat /\ Rev(today - 1) > 0
      /\ \A d \in Days : d \in Nat /\ Rev(d) \in Nat /\ Rev(d) > 0
  BY ConstantsAssumption DEF TypeOK, Days, Rev
<1>2. \A u \in Users, d \in Days :
              /\ raw[u][d] \in Nat /\ logged[u][d] \in Nat /\ user_calc[u][d] \in Int
              /\ user_calc[u][d] >= -1
  BY ConstantsAssumption DEF TypeOK, NotCounted
<1>3. \A u \in Users : list[u] \in Int /\ list[u] >= -1 /\ user_time[u] \in Int
  BY <1>1, ConstantsAssumption, SMTT(30) DEF TypeOK, NotCounted, NotFound
<1>4. \A g \in Gids : group_time[g] \in Int
  <2>1. \A x \in {Rev(d) : d \in -1..LastDay} : x \in Int
    BY ConstantsAssumption DEF Rev
  <2>2. \A g \in Gids : group_time[g] \in {NotFound, 0} \cup {Rev(d) : d \in -1..LastDay}
    BY Zenon DEF TypeOK
  <2> QED
    BY <2>1, <2>2 DEF NotFound
<1>5. OG \subseteq Gids
  BY ConstantsAssumption DEF OG, Gids, Range
<1> QED
  BY <1>1, <1>2, <1>3, <1>4, <1>5, Zenon DEF Typed

\* Reversed times around today.
LEMMA RevToday ==
  ASSUME TypeOK
  PROVE  /\ today \in Nat /\ today \in Days /\ 1 <= today /\ today <= LastDay /\ LastDay \in Nat
         /\ GMT_REVERS_MASK \in Nat /\ Rev(today) \in Nat /\ Rev(today) > 0
         /\ Rev(today - 1) = Rev(today) + 1 /\ Rev(today) + 2 <= GMT_REVERS_MASK + 1
<1>1. today \in 1..LastDay /\ today \in Days
  BY ConstantsAssumption DEF TypeOK, Days
<1> QED
  BY <1>1, ConstantsAssumption DEF Rev

\* What is past its keeping time is older than yesterday.
LEMMA PastKeeping ==
  ASSUME TypeOK
  PROVE  /\ Kept(today - 1)
         /\ \A d \in Days : d < today - KeepDays => ~Kept(d) /\ d < today - 1
<1>1. today \in Nat /\ KeepDays \in Nat \ {0} /\ \A d \in Days : d \in Nat
  BY RevToday, ConstantsAssumption DEF Days
<1> QED
  BY <1>1 DEF Kept

-----------------------------------------------------------------------------
(* What stays when its variables do. *)

\* The raw log is not touched.
LEMMA LogStays ==
  ASSUME LogInv, UNCHANGED <<raw, logged, today, an_group_list>>
  PROVE  LogInv'
BY Zenon DEF LogInv, Existing

\* The users' summaries and times are not touched.
LEMMA CalcStays ==
  ASSUME CalcInv, UNCHANGED <<raw, logged, user_calc, user_time, today>>
  PROVE  CalcInv'
BY Zenon DEF CalcInv

\* Whether yesterday is done depends on the log and the summaries only.
LEMMA DoneStays ==
  ASSUME UNCHANGED <<logged, user_calc, today>>
  PROVE  Done' <=> Done
BY Zenon DEF Done

\* Settled days stay settled.
LEMMA PastStays ==
  ASSUME PastInv, UNCHANGED <<logged, user_calc, today, skipped>>, present' => present \/ Done
  PROVE  PastInv'
BY DoneStays, Zenon DEF PastInv, Kept

\* Whether a group has counted a day depends on the two summaries only.
LEMMA SumStays ==
  ASSUME UNCHANGED <<user_calc, group_calc>>
  PROVE  \A g, d : InSum(g, d)' <=> InSum(g, d)
BY Zenon DEF InSum

\* The summaries and the groups' times are not touched.
LEMMA GroupStays ==
  ASSUME GroupInv, UNCHANGED <<user_calc, group_calc, group_time, today>>
  PROVE  GroupInv'
BY SumStays, Zenon DEF GroupInv, GroupUpToDate, Kept

\* Nothing that the recount depends on is touched.
LEMMA RecountStays ==
  ASSUME RecountInv, UNCHANGED <<pc, todo, histroy, today, group_time, user_calc, group_calc>>
  PROVE  RecountInv'
BY SumStays, Zenon DEF RecountInv, Kept

\* Nothing that the save depends on is touched: of the raw log, yesterday.
LEMMA SaveStays ==
  ASSUME SaveInv,
         UNCHANGED <<pc, todo, today, user_calc, user_time, list, sums, group_time, group_calc>>,
         \A u \in Users : raw'[u][today - 1] = raw[u][today - 1]
                         /\ logged'[u][today - 1] = logged[u][today - 1]
  PROVE  SaveInv'
<1>1. Listed' = Listed
  BY Zenon DEF Listed
<1>2. \A g \in OG, d \in Days : Kept(d)' /\ d # today' - 1 => (Kept(d) /\ d # today - 1)
  BY Zenon DEF Kept
<1>3. pc' \in {"save_user", "save_group"} => \A g \in OG, d \in Days : Kept(d)' /\ d # today' - 1 => InSum(g, d)'
  BY <1>2, SumStays, Zenon DEF SaveInv
<1>4. pc' = "save_group" => \A g \in OG : InSum(g, today - 1)'
                                      \/ (g \in Range(todo') /\ group_time'[g] > Rev(today' - 1))
  BY SumStays, Zenon DEF SaveInv
<1>5. pc' \in {"save_user", "save_group", "del_raw"} =>
        \A u \in Users : raw'[u][today' - 1] = logged'[u][today' - 1]
  BY Zenon DEF SaveInv
<1>6. pc' \in {"save_user", "save_group"} =>
        /\ \A u \in Users \ Listed' : user_calc'[u][today' - 1] = NotCounted
        /\ \A g \in Gids, u \in Users : sums'[g][u] # NotCounted =>
             sums'[g][u] = list'[u] /\ g \in {group_of[u], 0}
  BY <1>1, Zenon DEF SaveInv
<1>7. pc' = "save_user" =>
        /\ Range(todo') \subseteq Listed'
        /\ \A u \in Listed' \ Range(todo') :
             /\ user_calc'[u][today' - 1] = list'[u] /\ user_time'[u] = Rev(today' - 1)
             /\ \A g \in {group_of[u], 0} : sums'[g][u] = list'[u]
        /\ \A g \in OG : group_time'[g] > Rev(today' - 1)
  BY <1>1, Zenon DEF SaveInv
<1>8. pc' \in Saving \ {"save_user"} =>
        /\ \A u \in Listed' : user_calc'[u][today' - 1] = list'[u] /\ user_time'[u] = Rev(today' - 1)
        /\ \A g \in OG : group_time'[g] = 0 => Listed' = {}
  BY <1>1, Zenon DEF SaveInv
<1>9. pc' = "save_group" =>
        /\ Range(todo') \subseteq Gids
        /\ \A g \in Range(todo') : g = 0 \/ \E u \in Users : sums'[g][u] # NotCounted
        /\ \A u \in Listed' : \A g \in {group_of[u], 0} : sums'[g][u] = list'[u]
  BY <1>1, Zenon DEF SaveInv
<1>10. pc' = "reload" => Listed' # {}
  BY <1>1, Zenon DEF SaveInv
<1> QED
  BY <1>3, <1>4, <1>5, <1>6, <1>7, <1>8, <1>9, <1>10, Zenon DEF SaveInv

\* The same, at a place where the groups need not have counted everything.
LEMMA CountedStays ==
  ASSUME CountedInv, UNCHANGED <<user_calc, group_calc, group_time, today>>,
         pc' = pc \/ pc' \notin {"load", "run", "save_user", "del_raw", "del_old", "reload"}
  PROVE  CountedInv'
BY SumStays, Zenon DEF CountedInv, Kept

-----------------------------------------------------------------------------
(* What exits, counts and lists. *)

\* What a program that is not running leaves to be shown.
LEMMA Exited ==
  ASSUME TypeOK, an_exit, UNCHANGED <<logged, cross, out>>, CreditInv
  PROVE  ListInv' /\ CheckInv' /\ CreditInv' /\ CountedInv' /\ RecountInv' /\ SaveInv'
<1>0. pc' = "down" /\ list' = NoList /\ list_day' = 0 /\ sums' = NoSums /\ mday' = 0
  BY Zenon DEF an_exit
<1>1. \A u \in Users : list'[u] = -1
  BY <1>0, Zenon DEF NoList, NotCounted
<1>2. \A u \in Users : logged[u][0] \in Nat
  <2>1. 0 \in Days
    BY ConstantsAssumption DEF Days
  <2> QED
    BY <2>1, Types, Zenon DEF Typed
<1>3. \A u \in Users : list'[u] <= logged'[u][list_day']
  BY <1>0, <1>1, <1>2
<1>4. ListInv'
  BY <1>0, <1>3, Zenon DEF ListInv, Saving
<1>5. CreditInv'
  BY <1>0, Zenon DEF CreditInv, CrossingCredited
<1> QED
  BY <1>0, <1>4, <1>5, Zenon DEF CheckInv, CountedInv, RecountInv, SaveInv, Checking, Saving

\* What the program keeps in memory has its type after it has exited.
LEMMA ExitTypes ==
  ASSUME an_exit
  PROVE  /\ pc' = "down" /\ todo' \in Seq(Users \cup Gids) /\ histroy' \in 0..GMT_REVERS_MASK + 1
         /\ list' \in [Users -> NotCounted..MaxLog] /\ list_day' \in Days
         /\ sums' \in [Gids -> [Users -> NotCounted..MaxLog]] /\ mday' \in Days
BY ConstantsAssumption DEF an_exit, NoList, NoSums, NotCounted, Days

\* Counting the records of day d into the list.
LEMMA CountedIs ==
  ASSUME TypeOK, NEW d \in Days, NEW S \in SUBSET Users, NEW h, h = Counted(d, S)
  PROVE  /\ h \in [Users -> NotCounted..MaxLog]
         /\ \A u \in Users : h[u] \in {list[u], raw[u][d]}
         /\ \A u \in Existing : raw[u][d] > 0 => h[u] >= raw[u][d]
         /\ \A u \in Users : list[u] >= raw[u][d] => h[u] = list[u]
         /\ \A u \in Users : u \notin S /\ raw[u][d] = 0 => h[u] = list[u]
<1>1. /\ raw \in [Users -> [Days -> 0..MaxLog]] /\ list \in [Users -> NotCounted..MaxLog]
      /\ \A u \in Users : raw[u][d] \in NotCounted..MaxLog /\ raw[u][d] \in Nat /\ list[u] \in Int
  <2>1. raw \in [Users -> [Days -> 0..MaxLog]] /\ list \in [Users -> NotCounted..MaxLog]
    BY Zenon DEF TypeOK
  <2>2. \A u \in Users : raw[u][d] \in 0..MaxLog /\ list[u] \in NotCounted..MaxLog
    BY <2>1, Zenon
  <2> QED
    BY <2>1, <2>2, ConstantsAssumption DEF NotCounted
<1>2. \A u \in Users : h[u] = IF u \in S \cup Active(d) /\ raw[u][d] > list[u]
                              THEN raw[u][d] ELSE list[u]
  BY Zenon DEF Counted
<1>3. h \in [Users -> NotCounted..MaxLog]
  BY <1>1, Zenon DEF Counted
<1>4. \A u \in Existing : u \in Users /\ (raw[u][d] > 0 => u \in Active(d))
  BY UsersAre, Zenon DEF Active
<1>5. \A u \in Active(d) : raw[u][d] > 0
  BY Zenon DEF Active
<1> QED
  BY <1>1, <1>2, <1>3, <1>4, <1>5

\* A listed user's entry is what was logged on the day of the list.
LEMMA ListedIs ==
  ASSUME IInv, pc \in Saving, NEW u \in Listed
  PROVE  /\ u \in Users /\ list[u] = logged[u][today - 1] /\ list[u] # NotCounted
         /\ list[u] \in NotCounted..MaxLog
<1>a. TypeOK /\ Typed /\ ListInv /\ list_day = today - 1 /\ Filled /\ u \in Users
      /\ list[u] # NotCounted
  BY Types, UsersAre, Zenon DEF IInv, ListInv, Listed
<1>b. /\ list[u] <= logged[u][today - 1] /\ list[u] \in Int /\ list[u] >= -1 /\ list[u] # -1
      /\ logged[u][today - 1] \in Nat
      /\ logged[u][today - 1] > 0 => list[u] = logged[u][today - 1]
  BY <1>a, Zenon DEF ListInv, Typed, Filled, NotCounted
<1>c. list[u] \in NotCounted..MaxLog
  BY <1>a, Zenon DEF TypeOK
<1> QED
  BY <1>a, <1>b, <1>c

-----------------------------------------------------------------------------
(* The initial state. *)

\* Day 0 is summarised, day 1 begins.
LEMMA InitIInv == Init => IInv
<1> SUFFICES ASSUME Init PROVE IInv
  BY Zenon
<1> USE ConstantsAssumption
<1>0. 0 \in Days /\ 1 \in Days /\ Rev(0) = GMT_REVERS_MASK /\ NotFound = -1 /\ NotCounted = -1
  BY DEF Days, Rev, NotFound, NotCounted
<1>1. TypeOK
  <2>1. /\ an_group_list \in Seq(Groups) /\ todo \in Seq(Users \cup Gids)
        /\ today \in Days \ {0} /\ phase \in {"night", "day"}
        /\ list_day \in Days /\ mday \in Days /\ histroy \in 0..GMT_REVERS_MASK + 1
        /\ skipped \subseteq Days /\ crashes \in 0..MaxCrashes
    BY <1>0 DEF Init
  <2>10. ticked \in BOOLEAN /\ present \in BOOLEAN
    BY Zenon DEF Init
  <2>2. raw \in [Users -> [Days -> 0..MaxLog]] /\ logged \in [Users -> [Days -> 0..MaxLog]]
    BY DEF Init
  <2>3. /\ cross \in [Users -> [Days -> {"none", "open", "split"}]]
        /\ out \in [Users -> [Days -> [{"user", "group", "all"} -> Nat]]]
    BY DEF Init
  <2>4. user_calc \in [Users -> [Days -> NotCounted..MaxLog]]
    BY <1>0 DEF Init
  <2>5. user_time \in [Users -> {NotFound} \cup {Rev(d) : d \in Days}]
    BY <1>0, Zenon DEF Init
  <2>6. group_calc \in [Gids -> [Days -> [Users -> NotCounted..MaxLog]]]
    BY <1>0 DEF Init
  <2>7. group_time \in [Gids -> {NotFound, 0} \cup {Rev(d) : d \in -1..LastDay}]
    BY <1>0 DEF Init
  <2>8. list \in [Users -> NotCounted..MaxLog] /\ sums \in [Gids -> [Users -> NotCounted..MaxLog]]
    BY <1>0 DEF Init, NoList, NoSums
  <2>9. pc = "down"
    BY Zenon DEF Init
  <2> QED
    BY <2>1, <2>2, <2>3, <2>4, <2>5, <2>6, <2>7, <2>8, <2>9, <2>10, Zenon DEF TypeOK
<1>2. /\ today = 1 /\ pc = "down" /\ skipped = {}
      /\ \A u \in Users, d \in Days : raw[u][d] = 0 /\ logged[u][d] = 0 /\ cross[u][d] = "none"
      /\ \A u \in Users, d \in Days : user_calc[u][d] = IF d = 0 /\ u \in Existing THEN 0 ELSE -1
      /\ \A u \in Users : user_time[u] \in {Rev(0), NotFound}
      /\ \A u \in Users : user_time[u] = Rev(0) => u \in Existing
      /\ \A g \in Gids : group_time[g] \in {Rev(0), NotFound}
      /\ \A g \in OG : group_time[g] = Rev(0)
      /\ \A g \in Gids, d \in Days, u \in Users :
           group_calc[g][d][u] = IF d = 0 /\ u \in Existing /\ g \in {group_of[u], 0} THEN 0 ELSE -1
      /\ an_group_list = OldGroups /\ list = NoList /\ sums = NoSums /\ mday = 0
  <2>1. OG \subseteq Gids
    BY DEF OG, Gids, Range
  <2> QED
    BY <1>0, <2>1 DEF Init, OG
<1>3. LogInv
  BY <1>2 DEF LogInv, Days
<1>4. CalcInv
  BY <1>0, <1>2, SMTT(30) DEF CalcInv
<1>5. PastInv
  BY <1>0, <1>2 DEF PastInv, Done, Days
<1>6. ListInv
  BY <1>0, <1>2, <1>1 DEF ListInv, Saving, NoList, TypeOK
<1>7. CheckInv /\ CreditInv /\ CountedInv /\ RecountInv /\ SaveInv
  BY <1>2, Zenon DEF CheckInv, CreditInv, CountedInv, RecountInv, SaveInv, Checking, Saving, CrossingCredited
<1>8. GroupInv
  <2>1. \A u \in Users : group_of[u] \in Gids
    BY Zenon DEF Gids
  <2>2. 0 \in Gids
    BY Zenon DEF Gids
  <2>3. GroupUpToDate
    BY <1>0, <1>2, <2>1, <2>2 DEF GroupUpToDate
  <2> QED
    BY <1>0, <1>2, <2>3 DEF GroupInv
<1> QED
  BY <1>1, <1>3, <1>4, <1>5, <1>6, <1>7, <1>8, Zenon DEF IInv

-----------------------------------------------------------------------------
(* The world. *)

\* A record is added to today's log only; yesterday's summaries stay complete.
LEMMA log_IInv ==
  ASSUME IInv, NEW u \in Users, log(u)
  PROVE  IInv'
<1>0. /\ u \in Existing /\ raw[u][today] < MaxLog
      /\ raw' = [raw EXCEPT ![u][today] = @ + 1]
      /\ logged' = [logged EXCEPT ![u][today] = @ + 1]
      /\ \/ cross' = cross
         \/ cross' = [cross EXCEPT ![u][today] = "open"]
      /\ UNCHANGED <<today, phase, ticked, an_group_list, out, user_calc, user_time,
                     group_calc, group_time, pc, todo, histroy, list, list_day, sums,
                     mday, present, skipped, crashes>>
  BY Zenon DEF log, clock, memory
<1>a. TypeOK /\ Typed /\ LogInv
  BY Types, Zenon DEF IInv
<1>t. /\ raw \in [Users -> [Days -> 0..MaxLog]] /\ logged \in [Users -> [Days -> 0..MaxLog]]
      /\ list_day \in Days
  BY <1>a, Zenon DEF TypeOK
<1>u. today \in Days /\ today \in Nat /\ today - 1 \in Days /\ today - 1 # today
  BY <1>a DEF Typed
<1>e. raw[u][today] = logged[u][today]
  BY <1>a, <1>t, <1>u DEF LogInv
<1>f. raw[u][today] + 1 \in 0..MaxLog /\ logged[u][today] + 1 \in 0..MaxLog
  <2>1. raw[u][today] \in 0..MaxLog /\ raw[u][today] < MaxLog
    BY <1>0, <1>t, <1>u, Zenon
  <2> QED
    BY <1>e, <2>1, ConstantsAssumption
<1>v. /\ raw' = [raw EXCEPT ![u][today] = raw[u][today] + 1]
      /\ logged' = [logged EXCEPT ![u][today] = logged[u][today] + 1]
  BY <1>0, Zenon
<1>g. /\ \A v \in Users, d \in Days : d # today \/ v # u => raw'[v][d] = raw[v][d]
      /\ raw'[u][today] = raw[u][today] + 1
      /\ raw' \in [Users -> [Days -> 0..MaxLog]]
  BY <1>v, <1>t, <1>u, <1>f, Except2
<1>h. /\ \A v \in Users, d \in Days : d # today \/ v # u => logged'[v][d] = logged[v][d]
      /\ logged'[u][today] = logged[u][today] + 1
      /\ logged' \in [Users -> [Days -> 0..MaxLog]]
  BY <1>v, <1>t, <1>u, <1>f, Except2
<1>c. Existing' = Existing /\ Listed' = Listed
  BY <1>0, Zenon DEF Existing, Listed
<1>y. \A v \in Users : raw'[v][today - 1] = raw[v][today - 1] /\ logged'[v][today - 1] = logged[v][today - 1]
  BY <1>g, <1>h, <1>t, <1>u, Zenon
<1>d. Done' <=> Done
  BY <1>0, <1>y DEF Done
<1>1. TypeOK'
  <2>2. cross' \in [Users -> [Days -> {"none", "open", "split"}]]
    <3>1. cross \in [Users -> [Days -> {"none", "open", "split"}]]
      BY <1>a, Zenon DEF TypeOK
    <3>2. cross' = cross \/ cross' = [cross EXCEPT ![u][today] = "open"]
      BY <1>0, Zenon
    <3> QED
      BY <3>1, <3>2, <1>u, Except2
  <2> QED
    BY <1>0, <1>a, <1>g, <1>h, <2>2, Zenon DEF TypeOK
<1>2. LogInv'
  <2>1. \A v \in Users, d \in Days : raw[v][d] \in Nat /\ logged[v][d] \in Nat /\ d \in Nat
    BY <1>a, Zenon DEF Typed
  <2> QED
    <3>1. \A v \in Users, d \in Days : raw'[v][d] <= logged'[v][d] /\ (d >= today => raw'[v][d] = logged'[v][d])
      <4> SUFFICES ASSUME NEW v \in Users, NEW d \in Days
                   PROVE  raw'[v][d] <= logged'[v][d] /\ (d >= today => raw'[v][d] = logged'[v][d])
        BY Zenon
      <4>1. CASE v = u /\ d = today
        BY <4>1, <1>e, <1>g, <1>h, <2>1
      <4>2. CASE v # u \/ d # today
        BY <4>2, <1>a, <1>g, <1>h, SMTT(30) DEF LogInv
      <4> QED
        BY <4>1, <4>2, Zenon
    <3>2. \A v \in Users, d \in Days : logged'[v][d] > 0 => d <= today /\ v \in Existing
      BY <1>0, <1>a, <1>h, <1>u, <2>1 DEF LogInv
    <3> QED
      BY <1>0, <1>a, <1>c, <3>1, <3>2, Zenon DEF LogInv
<1>3. CalcInv'
  <2>1. \A v \in Users, d \in Days : logged[v][d] \in Nat /\ user_calc[v][d] \in Int
    BY <1>a, Zenon DEF Typed
  <2>2. \A v \in Users, d \in Days : user_calc[v][d] <= logged'[v][d]
    BY <2>1, <1>h DEF IInv, CalcInv
  <2> QED
    BY <1>0, <1>y, <2>2, SMTT(30) DEF IInv, CalcInv
<1>4. PastInv'
  <2>1. \A v \in Users, d \in Days : d < today - 1 => logged'[v][d] = logged[v][d]
    BY <1>h, <1>t, <1>u, SMTT(30) DEF Days
  <2> QED
    BY <1>0, <1>d, <2>1 DEF IInv, PastInv, Kept
<1>5. ListInv'
  <2>1. list_day # today => (Filled' <=> Filled)
    BY <1>0, <1>h, <1>t, <1>u DEF Filled
  <2>2. \A v \in Users : list'[v] <= logged'[v][list_day']
    <3>1. \A v \in Users : list[v] <= logged[v][list_day] /\ list[v] \in Int /\ logged[v][list_day] \in Nat
      BY <1>a, <1>t, <1>u, Zenon DEF IInv, ListInv, Typed
    <3>2. UNCHANGED <<list, list_day>>
      BY <1>0, Zenon
    <3>3. \A v \in Users : logged[v][list_day] <= logged'[v][list_day]
      BY <1>h, <1>t, <1>u, <3>1
    <3>4. \A v \in Users : logged'[v][list_day] \in Nat
      BY <1>h, <1>t
    <3> QED
      BY <3>1, <3>2, <3>3, <3>4
  <2>3. pc \in Saving => list_day # today
    BY <1>t, <1>u, Zenon DEF IInv, ListInv
  <2> QED
    BY <1>0, <1>d, <1>t, <1>u, <1>y, <2>1, <2>2, <2>3, ZenonT(30) DEF IInv, ListInv
<1>6. CheckInv'
  BY <1>0, <1>c, <1>d, <1>y, UsersAre DEF IInv, CheckInv
<1>7. CreditInv'
  <2>1. \A v \in Users, d \in Days : cross'[v][d] = "split" => cross[v][d] = "split"
    <3>1. cross \in [Users -> [Days -> {"none", "open", "split"}]]
      BY <1>a, Zenon DEF TypeOK
    <3>2. cross' = cross \/ cross' = [cross EXCEPT ![u][today] = "open"]
      BY <1>0, Zenon
    <3> QED
      BY <3>1, <3>2, <1>u, Except2
  <2> QED
    BY <1>0, <2>1, Zenon DEF IInv, CreditInv, CrossingCredited
<1>8. GroupInv' /\ CountedInv'
  BY <1>0, GroupStays, CountedStays, Zenon DEF IInv
<1>9. RecountInv'
  BY <1>0, RecountStays, Zenon DEF IInv
<1>10. SaveInv'
  BY <1>0, <1>y, SaveStays, Zenon DEF IInv
<1> QED
  BY <1>1, <1>2, <1>3, <1>4, <1>5, <1>6, <1>7, <1>8, <1>9, <1>10, Zenon DEF IInv

\* 3 o'clock finds a running program with a list that holds all of its day.
LEMMA three_o_clock_IInv ==
  ASSUME IInv, three_o_clock
  PROVE  IInv'
<1>0. /\ phase = "night" /\ phase' = "day" /\ ticked' = FALSE
      /\ pc = "run" => ticked \/ mday = 0
      /\ UNCHANGED <<today, an_group_list, raw, cross, out, user_calc, user_time, group_calc,
                     group_time, pc, todo, histroy, list, list_day, sums, mday, logged,
                     present, skipped, crashes>>
  BY Zenon DEF three_o_clock, store, memory, history
<1>a. Existing' = Existing /\ Listed' = Listed
  BY <1>0, Zenon DEF Existing, Listed
<1>b. Done' <=> Done
  BY <1>0, DoneStays, Zenon
<1>c. Filled' <=> Filled
  BY <1>0, Zenon DEF Filled
<1>d. today - 1 # today
  BY Types DEF IInv, Typed
<1>1. TypeOK'
  <2>1. ticked' \in BOOLEAN
    BY <1>0, Zenon
  <2> QED
    BY <1>0, <2>1, Zenon DEF IInv, TypeOK
<1>2. LogInv' /\ CalcInv' /\ PastInv' /\ GroupInv' /\ CountedInv'
  BY <1>0, LogStays, CalcStays, PastStays, GroupStays, CountedStays, Zenon DEF IInv
<1>3. ListInv'
  BY <1>0, <1>b, <1>c, <1>d, Zenon DEF IInv, ListInv, Saving
<1>4. CheckInv' /\ CreditInv'
  BY <1>0, <1>a, <1>b, ZenonT(30) DEF IInv, CheckInv, CreditInv, CrossingCredited
<1>5. RecountInv' /\ SaveInv'
  BY <1>0, RecountStays, SaveStays, Zenon DEF IInv
<1> QED
  BY <1>1, <1>2, <1>3, <1>4, <1>5, Zenon DEF IInv

\* A new day begins: yesterday is settled if the program was there, and no
\* summary of the day that has just ended exists yet.
LEMMA midnight_IInv ==
  ASSUME IInv, midnight
  PROVE  IInv'
<1>0. /\ phase = "day" /\ today < LastDay /\ pc \in {"down", "run"} /\ (pc = "run" => ticked)
      /\ today' = today + 1 /\ phase' = "night" /\ ticked' = FALSE /\ present' = FALSE
      /\ skipped' = IF present THEN skipped ELSE skipped \cup {today - 1}
      /\ UNCHANGED <<an_group_list, raw, cross, out, user_calc, user_time, group_calc,
                     group_time, pc, todo, histroy, list, list_day, sums, mday, logged, crashes>>
  BY Zenon DEF midnight, store, memory
<1>a. TypeOK /\ Typed /\ LogInv /\ CalcInv /\ PastInv /\ ListInv /\ GroupInv /\ CountedInv
  BY Types, Zenon DEF IInv
<1>b. /\ today \in Nat /\ today \in Days /\ today' - 1 = today /\ today' \in Days \ {0}
      /\ today - 1 \in Days /\ KeepDays \in Nat
      /\ Rev(today') \in Int /\ Rev(today) < Rev(today - 1) /\ Rev(today) \in Nat /\ Rev(today - 1) \in Nat
  BY <1>0, <1>a, ConstantsAssumption, SMTT(30) DEF Typed, Days, Rev
<1>c. Existing' = Existing
  BY <1>0, Zenon DEF Existing
<1>d. \A d \in Days : d \in Nat /\ (Kept(d)' => Kept(d))
  BY <1>0, <1>b DEF Kept, Days
<1>1. TypeOK'
  <2>1. ticked' \in BOOLEAN /\ present' \in BOOLEAN
    BY <1>0, Zenon
  <2>2. skipped' \subseteq Days
    BY <1>0, <1>a, <1>b, Zenon DEF TypeOK
  <2> QED
    BY <1>0, <1>a, <1>b, <2>1, <2>2, Zenon DEF TypeOK
<1>2. LogInv'
  <2>1. \A d \in Days : (d >= today' => d >= today) /\ (d <= today => d <= today')
    BY <1>0, <1>b, <1>d, SMTT(30)
  <2> QED
    BY <1>0, <1>a, <1>c, <2>1, Zenon DEF LogInv
<1>3. CalcInv'
  <2>1. \A u \in Users : user_time[u] = NotFound \/ (user_time[u] > Rev(today) /\ user_time[u] \in Int)
    BY <1>a, <1>b, SMTT(30) DEF CalcInv, Typed
  <2>2. NotFound # Rev(today)
    BY <1>b DEF NotFound
  <2>3. \A u \in Users : raw[u][today] = logged[u][today] /\ raw[u][today] \in Nat
    BY <1>a, <1>b DEF LogInv, Typed
  <2>4. \A u \in Users : user_time[u] = NotFound \/ user_time[u] >= Rev(today)
    BY <1>b, <2>1
  <2>5. \A u \in Users, d \in Days : d >= today' => user_calc[u][d] = NotCounted
    BY <1>0, <1>a, <1>b, <1>d DEF CalcInv
  <2> QED
    BY <1>0, <1>a, <1>b, <2>1, <2>2, <2>3, <2>4, <2>5, SMTT(30) DEF CalcInv
<1>4. PastInv'
  <2> SUFFICES ASSUME NEW u \in Users, NEW d \in Days, d < today, logged[u][d] > 0
               PROVE  d \in skipped' \/ ~Kept(d)' \/ user_calc[u][d] = logged[u][d]
    BY <1>0, <1>b, Zenon DEF PastInv
  <2>1. CASE d < today - 1
    BY <2>1, <1>0, <1>a, <1>d, Zenon DEF PastInv
  <2>2. CASE d = today - 1
    BY <2>2, <1>0, <1>a, Zenon DEF PastInv, Done
  <2> QED
    BY <2>1, <2>2, <1>b, <1>d
<1>5. ListInv'
  <2>1. pc = "run" => list_day = today /\ mday = list_day
    BY <1>0, <1>a, <1>b, Zenon DEF ListInv
  <2>2. \A u \in Users : raw[u][today] = logged[u][today] /\ user_calc[u][today] = NotCounted
    BY <1>a, <1>b DEF LogInv, CalcInv
  <2>3. pc = "run" => \A g \in OG : group_time[g] > Rev(today)
    <3>1. \A g \in OG : /\ group_time[g] \in Int /\ group_time[g] # NotFound
                        /\ group_time[g] \in {NotFound, 0} \/ group_time[g] >= Rev(today - 1)
      BY <1>a, Zenon DEF GroupInv, Typed
    <3>2. pc = "run" => \A g \in OG : group_time[g] # 0
      BY <1>a, Zenon DEF CountedInv
    <3> QED
      BY <1>b, <3>1, <3>2
  <2>4. today' # today
    BY <1>0, <1>b
  <2> QED
    BY <1>0, <1>a, <1>b, <2>1, <2>2, <2>3, <2>4, Zenon DEF ListInv, Saving
<1>6. CheckInv' /\ RecountInv' /\ SaveInv'
  BY <1>0, Zenon DEF CheckInv, RecountInv, SaveInv, Checking, Saving
<1>7. CreditInv'
  BY <1>0, Zenon DEF IInv, CreditInv, CrossingCredited
<1>8. GroupInv'
  <2>1. \A g \in Gids : group_time[g] \in {NotFound, 0} \/ group_time[g] >= Rev(today)
    BY <1>a, <1>b DEF GroupInv, Typed
  <2>2. GroupUpToDate'
    BY <1>0, <1>a, <1>d, Zenon DEF GroupInv, GroupUpToDate
  <2> QED
    BY <1>0, <1>a, <1>b, <1>d, <2>1, <2>2, SumStays, Zenon DEF GroupInv
<1>9. CountedInv'
  BY <1>0, <1>a, <1>d, SumStays, Zenon DEF CountedInv
<1> QED
  BY <1>1, <1>2, <1>3, <1>4, <1>5, <1>6, <1>7, <1>8, <1>9, Zenon DEF IInv

\* A new group's users have no records yet.
LEMMA add_IInv ==
  ASSUME IInv, NEW g \in Groups, wk_user_group_add_cmd_do(g)
  PROVE  IInv'
<1>0. /\ pc \in {"run", "save_user", "save_group", "del_raw", "del_old", "reload"}
      /\ an_group_list' = Append(an_group_list, g)
      /\ UNCHANGED <<today, phase, ticked, raw, cross, out, user_calc, user_time, group_calc,
                     group_time, pc, todo, histroy, list, list_day, sums, mday, logged,
                     present, skipped, crashes>>
  BY Zenon DEF wk_user_group_add_cmd_do, clock, memory, history
<1>a. an_group_list \in Seq(Groups)
  BY Zenon DEF IInv, TypeOK
<1>b. an_group_list' \in Seq(Groups) /\ Range(an_group_list) \subseteq Range(an_group_list')
  BY <1>0, <1>a, RangeAppend
<1>c. Existing \subseteq Existing' /\ Listed' = Listed
  BY <1>0, <1>b, Zenon DEF Existing, Listed
<1>d. (Done' <=> Done) /\ (Filled' <=> Filled)
  BY <1>0, Zenon DEF Done, Filled
<1>1. TypeOK'
  BY <1>0, <1>b, Zenon DEF IInv, TypeOK
<1>2. LogInv'
  BY <1>0, <1>b, <1>c, Zenon DEF IInv, LogInv
<1>3. CalcInv' /\ PastInv' /\ GroupInv' /\ CountedInv'
  BY <1>0, CalcStays, PastStays, GroupStays, CountedStays, Zenon DEF IInv
<1>4. ListInv'
  BY <1>0, <1>d, Zenon DEF IInv, ListInv
<1>5. CheckInv' /\ RecountInv'
  BY <1>0, Zenon DEF CheckInv, RecountInv, Checking
<1>6. CreditInv'
  BY <1>0, ZenonT(30) DEF IInv, CreditInv, CrossingCredited
<1>7. SaveInv'
  BY <1>0, SaveStays, Zenon DEF IInv
<1> QED
  BY <1>1, <1>2, <1>3, <1>4, <1>5, <1>6, <1>7, Zenon DEF IInv

\* Killed at any point, the program leaves the database as it was.
LEMMA crash_IInv ==
  ASSUME IInv, crash
  PROVE  IInv'
<1>0. /\ an_exit /\ crashes < MaxCrashes /\ crashes' = crashes + 1
      /\ UNCHANGED <<today, phase, ticked, an_group_list, raw, cross, out, user_calc, user_time,
                     group_calc, group_time, logged, present, skipped>>
  BY Zenon DEF crash, clock, store
<1>1. TypeOK'
  <2>1. crashes' \in 0..MaxCrashes
    BY <1>0, ConstantsAssumption DEF IInv, TypeOK
  <2> QED
    BY <1>0, <2>1, ExitTypes, Zenon DEF IInv, TypeOK
<1>2. LogInv' /\ CalcInv' /\ PastInv' /\ GroupInv'
  BY <1>0, LogStays, CalcStays, PastStays, GroupStays, Zenon DEF IInv
<1>3. ListInv' /\ CheckInv' /\ CreditInv' /\ CountedInv' /\ RecountInv' /\ SaveInv'
  BY <1>0, Exited, Zenon DEF IInv
<1> QED
  BY <1>1, <1>2, <1>3, Zenon DEF IInv

-----------------------------------------------------------------------------
(* The ten-minute task when there is nothing to save. *)

\* Nothing changes.
LEMMA Stutters ==
  ASSUME IInv, UNCHANGED vars
  PROVE  IInv'
<1>0. UNCHANGED <<today, phase, ticked, an_group_list, raw, cross, out, user_calc, user_time,
                  group_calc, group_time, pc, todo, histroy, list, list_day, sums, mday, logged,
                  present, skipped, crashes>>
  BY Zenon DEF vars, clock, store, memory, history
<1>a. Existing' = Existing /\ Listed' = Listed /\ (Done' <=> Done) /\ (Filled' <=> Filled)
  BY <1>0, Zenon DEF Existing, Listed, Done, Filled
<1>1. TypeOK'
  BY <1>0, Zenon DEF IInv, TypeOK
<1>2. LogInv' /\ CalcInv' /\ PastInv' /\ GroupInv' /\ CountedInv'
  BY <1>0, LogStays, CalcStays, PastStays, GroupStays, CountedStays, Zenon DEF IInv
<1>3. ListInv'
  BY <1>0, <1>a, Zenon DEF IInv, ListInv
<1>4. CheckInv' /\ CreditInv'
  BY <1>0, <1>a, ZenonT(30) DEF IInv, CheckInv, CreditInv, CrossingCredited
<1>5. RecountInv' /\ SaveInv'
  BY <1>0, RecountStays, SaveStays, Zenon DEF IInv
<1> QED
  BY <1>1, <1>2, <1>3, <1>4, <1>5, Zenon DEF IInv

\* Counting again never takes a record out of the list, and finds every record
\* of a day that has all its raw records.
LEMMA CountAgain ==
  ASSUME IInv, NEW h, h = Counted(list_day, {})
  PROVE  /\ h \in [Users -> NotCounted..MaxLog]
         /\ \A u \in Users : h[u] <= logged[u][list_day]
         /\ Filled => h = list
         /\ (\A u \in Users : raw[u][list_day] = logged[u][list_day]) =>
              \A u \in Users : logged[u][list_day] > 0 => h[u] = logged[u][list_day]
<1>a. TypeOK /\ Typed /\ LogInv /\ ListInv /\ list_day \in Days
  BY Types, Zenon DEF IInv, TypeOK
<1>b. \A u \in Users : /\ raw[u][list_day] <= logged[u][list_day] /\ list[u] <= logged[u][list_day]
                       /\ raw[u][list_day] \in Nat /\ logged[u][list_day] \in Nat /\ list[u] \in Int
                       /\ logged[u][list_day] > 0 => u \in Existing
  BY <1>a, Zenon DEF LogInv, ListInv, Typed
<1>c. {} \in SUBSET Users
  BY Zenon
<1>d. /\ h \in [Users -> NotCounted..MaxLog]
      /\ \A u \in Users : h[u] \in {list[u], raw[u][list_day]}
      /\ \A u \in Existing : raw[u][list_day] > 0 => h[u] >= raw[u][list_day]
      /\ \A u \in Users : list[u] >= raw[u][list_day] => h[u] = list[u]
      /\ \A u \in Users : u \notin {} /\ raw[u][list_day] = 0 => h[u] = list[u]
  BY <1>a, <1>c, CountedIs
<1>1. \A u \in Users : h[u] <= logged[u][list_day]
  BY <1>b, <1>d, Zenon
<1>2. ASSUME Filled PROVE h = list
  <2>1. \A u \in Users : h[u] = list[u]
    <3> SUFFICES ASSUME NEW u \in Users PROVE h[u] = list[u]
      BY Zenon
    <3>1. CASE logged[u][list_day] > 0
      BY <1>2, <1>b, <1>d, <3>1, Zenon DEF Filled
    <3>2. CASE logged[u][list_day] = 0
      BY <1>b, <1>d, <3>2
    <3> QED
      BY <1>b, <3>1, <3>2
  <2>2. list \in [Users -> NotCounted..MaxLog]
    BY <1>a, Zenon DEF TypeOK
  <2> QED
    BY <1>d, <2>1, <2>2
<1>3. ASSUME \A u \in Users : raw[u][list_day] = logged[u][list_day],
             NEW u \in Users, logged[u][list_day] > 0
      PROVE  h[u] = logged[u][list_day]
  <2>1. h[u] >= raw[u][list_day] /\ h[u] \in Int
    BY <1>3, <1>b, <1>d, SMTT(30)
  <2> QED
    BY <1>1, <1>3, <1>b, <2>1, SMTT(30)
<1> QED
  BY <1>d, <1>1, <1>2, <1>3, Zenon

\* The task leaves a list that holds every record of the day that has ended.
LEMMA update_IInv ==
  ASSUME IInv, an_auto_data_save_update
  PROVE  IInv'
<1>0. /\ pc = "run" /\ pc' = "run" /\ ~NewDay
      /\ mday' = IF mday = 0 THEN today ELSE mday
      /\ list' = Counted(list_day, {}) /\ ticked' = TRUE
      /\ present' = IF phase = "day" THEN TRUE ELSE present
      /\ UNCHANGED <<today, phase, an_group_list, raw, cross, out, user_calc, user_time,
                     group_calc, group_time, todo, histroy, list_day, sums, logged,
                     skipped, crashes>>
  BY Zenon DEF an_auto_data_save_update, store
<1>a. TypeOK /\ Typed /\ ListInv
  BY Types, Zenon DEF IInv
<1>b. today \in Nat /\ today \in Days /\ 1 <= today /\ today # today - 1 /\ today > today - 1
  BY <1>a, RevToday
<1>c. /\ list_day \in {today - 1, today} /\ mday \in {0, list_day}
      /\ mday = 0 => list_day = today
      /\ list_day = today => Done
      /\ list_day = today - 1 =>
           /\ \A u \in Users : raw[u][today - 1] = logged[u][today - 1]
           /\ \A u \in Users : user_calc[u][today - 1] = NotCounted
           /\ \A g \in OG : group_time[g] > Rev(today - 1)
  BY <1>0, <1>a, Zenon DEF ListInv
<1>d. phase = "day" => list_day = today
  BY <1>0, <1>b, <1>c, Zenon DEF NewDay
<1>e. mday' = list_day /\ mday' # 0
  BY <1>0, <1>b, <1>c
<1>f. /\ list' \in [Users -> NotCounted..MaxLog]
      /\ \A u \in Users : list'[u] <= logged[u][list_day]
      /\ (\A u \in Users : raw[u][list_day] = logged[u][list_day]) =>
           \A u \in Users : logged[u][list_day] > 0 => list'[u] = logged[u][list_day]
  BY <1>0, CountAgain, Zenon
<1>1. TypeOK'
  <2>1. ticked' \in BOOLEAN /\ present' \in BOOLEAN
    BY <1>0, <1>a, Zenon DEF TypeOK
  <2>2. mday' \in Days
    BY <1>a, <1>e, Zenon DEF TypeOK
  <2> QED
    BY <1>0, <1>a, <1>f, <2>1, <2>2, Zenon DEF TypeOK
<1>2. LogInv' /\ CalcInv' /\ GroupInv' /\ CountedInv'
  BY <1>0, LogStays, CalcStays, GroupStays, CountedStays, Zenon DEF IInv
<1>3. PastInv'
  <2>1. present' => present \/ Done
    BY <1>0, <1>c, <1>d, Zenon
  <2> QED
    BY <1>0, <2>1, PastStays, Zenon DEF IInv
<1>4. ListInv'
  <2>1. list_day = today - 1 => Filled'
    BY <1>0, <1>c, <1>f, Zenon DEF Filled
  <2>2. Done' <=> Done
    BY <1>0, DoneStays, Zenon
  <2>3. phase \in {"night", "day"} /\ sums = NoSums
    BY <1>0, <1>a, Zenon DEF TypeOK, ListInv, Saving
  <2>4. phase' = phase /\ today' = today /\ list_day' = list_day /\ logged' = logged /\ raw' = raw
        /\ user_calc' = user_calc /\ group_time' = group_time /\ sums' = sums /\ pc' = "run"
    BY <1>0, Zenon
  <2>5. "run" \notin Saving
    BY Zenon DEF Saving
  <2> QED
    BY <1>b, <1>c, <1>d, <1>e, <1>f, <2>1, <2>2, <2>3, <2>4, <2>5, Zenon DEF ListInv
<1>5. CheckInv' /\ RecountInv' /\ SaveInv'
  BY <1>0, Zenon DEF CheckInv, RecountInv, SaveInv, Checking, Saving
<1>6. CreditInv'
  BY <1>0, Zenon DEF IInv, CreditInv, CrossingCredited
<1> QED
  BY <1>1, <1>2, <1>3, <1>4, <1>5, <1>6, Zenon DEF IInv

\* While the task saves, the list is full and a request finds nothing to add.
LEMMA parse_IInv ==
  ASSUME IInv, al_parse_value_to_wk_task
  PROVE  IInv'
<1>0. /\ pc \in {"run", "save_user", "save_group"} /\ list' = Counted(list_day, {})
      /\ UNCHANGED <<today, phase, ticked, an_group_list, raw, cross, out, user_calc, user_time,
                     group_calc, group_time, pc, todo, histroy, list_day, sums, mday, logged,
                     present, skipped, crashes>>
  BY Zenon DEF al_parse_value_to_wk_task, clock, store, history
<1>a. /\ list' \in [Users -> NotCounted..MaxLog]
      /\ \A u \in Users : list'[u] <= logged[u][list_day]
      /\ Filled => list' = list
  BY <1>0, CountAgain, Zenon
<1>1. CASE Filled
  <2>1. UNCHANGED vars
    BY <1>0, <1>1, <1>a, Zenon DEF vars, clock, store, memory, history
  <2> QED
    BY <2>1, Stutters, Zenon
<1>2. CASE ~Filled
  <2>0. pc = "run" /\ pc' = "run"
    BY <1>0, <1>2, Zenon DEF IInv, ListInv, Saving
  <2>1. TypeOK'
    BY <1>0, <1>a, Zenon DEF IInv, TypeOK
  <2>2. LogInv' /\ CalcInv' /\ PastInv' /\ GroupInv' /\ CountedInv'
    BY <1>0, LogStays, CalcStays, PastStays, GroupStays, CountedStays, Zenon DEF IInv
  <2>3. ListInv'
    <3>1. Done' <=> Done
      BY <1>0, DoneStays, Zenon
    <3>2. list_day = today - 1 => ~(ticked \/ phase = "day")
      BY <1>2, <2>0, Zenon DEF IInv, ListInv
    <3>3. ListInv
      BY Zenon DEF IInv
    <3> QED
      BY <1>0, <1>a, <2>0, <3>1, <3>2, <3>3, Zenon DEF ListInv, Saving
  <2>4. CheckInv' /\ RecountInv' /\ SaveInv'
    BY <2>0, Zenon DEF CheckInv, RecountInv, SaveInv, Checking, Saving
  <2>5. CreditInv'
    BY <1>0, Zenon DEF IInv, CreditInv, CrossingCredited
  <2> QED
    BY <2>1, <2>2, <2>3, <2>4, <2>5, Zenon DEF IInv
<1> QED
  BY <1>1, <1>2, Zenon

\* The save of yesterday begins with every record of yesterday in the list.
LEMMA begin_IInv ==
  ASSUME IInv, an_auto_data_save_begin
  PROVE  IInv'
<1>0. /\ pc = "run" /\ NewDay /\ pc' = "save_user" /\ todo' \in Orders(Listed)
      /\ UNCHANGED <<today, phase, ticked, an_group_list, raw, cross, out, user_calc, user_time,
                     group_calc, group_time, histroy, list, list_day, sums, mday, logged,
                     present, skipped, crashes>>
  BY Zenon DEF an_auto_data_save_begin, clock, store, history
<1>a. TypeOK /\ Typed /\ ListInv /\ CountedInv
  BY Types, Zenon DEF IInv
<1>b. phase = "day" /\ list_day = today - 1
  BY <1>0, <1>a, Zenon DEF NewDay, ListInv
<1>c. /\ \A u \in Users : raw[u][today - 1] = logged[u][today - 1]
      /\ \A u \in Users : user_calc[u][today - 1] = NotCounted
      /\ \A g \in OG : group_time[g] > Rev(today - 1)
      /\ Filled /\ sums = NoSums
  BY <1>0, <1>a, <1>b, Zenon DEF ListInv, Saving
<1>d. todo' \in Seq(Listed) /\ Range(todo') = Listed
  BY <1>0, OrdersAre, UsersAre, Zenon
<1>e. todo' \in Seq(Users \cup Gids)
  BY <1>d, UsersAre
<1>f. Listed' = Listed /\ (Filled' <=> Filled)
  BY <1>0, Zenon DEF Listed, Filled
<1>1. TypeOK'
  BY <1>0, <1>a, <1>e, Zenon DEF TypeOK
<1>2. LogInv' /\ CalcInv' /\ PastInv' /\ GroupInv'
  BY <1>0, LogStays, CalcStays, PastStays, GroupStays, Zenon DEF IInv
<1>3. ListInv'
  BY <1>0, <1>a, <1>b, <1>c, <1>f, Zenon DEF ListInv, Saving
<1>4. CheckInv' /\ RecountInv'
  BY <1>0, Zenon DEF CheckInv, RecountInv, Checking
<1>5. CreditInv'
  BY <1>0, Zenon DEF IInv, CreditInv, CrossingCredited
<1>6. CountedInv'
  BY <1>0, <1>a, Zenon DEF CountedInv
<1>7. SaveInv'
  <2>1. \A g \in Gids, u \in Users : sums[g][u] = NotCounted
    BY <1>c, Zenon DEF NoSums, NoList
  <2>2. \A g \in OG, d \in Days : Kept(d) => InSum(g, d)
    BY <1>0, <1>a, Zenon DEF CountedInv
  <2> QED
    BY <1>0, <1>c, <1>d, <1>f, <2>1, <2>2, SumStays, Zenon DEF SaveInv, Saving, Kept
<1> QED
  BY <1>1, <1>2, <1>3, <1>4, <1>5, <1>6, <1>7, Zenon DEF IInv

-----------------------------------------------------------------------------
(* The start-up check. *)

\* The check is to visit every existing user.
LEMMA start_IInv ==
  ASSUME IInv, start
  PROVE  IInv'
<1>0. /\ pc = "down" /\ pc' = "check_user" /\ todo' \in Orders(Existing)
      /\ UNCHANGED <<today, phase, ticked, an_group_list, raw, cross, out, user_calc, user_time,
                     group_calc, group_time, histroy, list, list_day, sums, mday, logged,
                     present, skipped, crashes>>
  BY Zenon DEF start, clock, store, history
<1>a. todo' \in Seq(Existing) /\ Range(todo') = Existing
  BY <1>0, OrdersAre, UsersAre, Zenon
<1>b. todo' \in Seq(Users \cup Gids)
  BY <1>a, UsersAre
<1>c. Existing' = Existing /\ Listed' = Listed
  BY <1>0, Zenon DEF Existing, Listed
<1>1. TypeOK'
  BY <1>0, <1>b, Zenon DEF IInv, TypeOK
<1>2. LogInv' /\ CalcInv' /\ PastInv' /\ GroupInv' /\ CountedInv'
  BY <1>0, LogStays, CalcStays, PastStays, GroupStays, CountedStays, Zenon DEF IInv
<1>3. ListInv'
  BY <1>0, Zenon DEF IInv, ListInv, Saving
<1>4. CheckInv'
  BY <1>0, <1>a, <1>c, Zenon DEF CheckInv, Checking
<1>5. CreditInv'
  BY <1>0, Zenon DEF IInv, CreditInv, CrossingCredited
<1>6. RecountInv' /\ SaveInv'
  BY <1>0, Zenon DEF RecountInv, SaveInv, Saving
<1> QED
  BY <1>1, <1>2, <1>3, <1>4, <1>5, <1>6, Zenon DEF IInv

\* A user whose stored time is yesterday's, the only one the check leaves alone,
\* has a complete summary; one that is counted again still has its raw records.
LEMMA Resaved ==
  ASSUME IInv, NEW u \in Users
  PROVE  /\ ~NeedsResave(u) => user_calc[u][today - 1] = logged[u][today - 1]
         /\ NeedsResave(u) => raw[u][today - 1] = logged[u][today - 1]
<1>1. Typed /\ CalcInv /\ LogInv
  BY Types, Zenon DEF IInv
<1>2. Rev(today) + 1 = Rev(today - 1) /\ Rev(today) \in Int /\ Rev(today - 1) \in Nat
  BY <1>1 DEF Typed, Rev
<1>3. user_time[u] \in Int /\ (user_time[u] = NotFound \/ user_time[u] >= Rev(today - 1))
  BY <1>1, Zenon DEF Typed, CalcInv
<1>4. ~NeedsResave(u) => user_time[u] = Rev(today - 1)
  BY <1>2, <1>3 DEF NeedsResave
<1>5. NeedsResave(u) => user_time[u] # Rev(today - 1)
  BY <1>2, <1>3 DEF NeedsResave, NotFound
<1>6. raw[u][today - 1] <= logged[u][today - 1] /\ raw[u][today - 1] \in Nat /\ logged[u][today - 1] \in Nat
  BY <1>1, Zenon DEF Typed, LogInv
<1> QED
  BY <1>1, <1>4, <1>5, <1>6 DEF CalcInv

\* Saving yesterday's summary of one user again keeps what is said of the
\* summaries and of the groups, because the groups' times are put back.
LEMMA save_user_calc ==
  ASSUME IInv, NEW u \in Users, NeedsResave(u), ww_save_user_calc_act_to_db(u, today - 1),
         UNCHANGED <<today, logged, skipped, present>>
  PROVE  /\ LogInv' /\ CalcInv' /\ PastInv' /\ GroupInv'
         /\ user_calc' \in [Users -> [Days -> NotCounted..MaxLog]]
         /\ user_time' \in [Users -> {NotFound} \cup {Rev(d) : d \in Days}]
         /\ group_time' \in [Gids -> {NotFound, 0} \cup {Rev(d) : d \in -1..LastDay}]
         /\ user_calc'[u][today - 1] = logged[u][today - 1]
         /\ \A v \in Users \ {u} : user_calc'[v][today - 1] = user_calc[v][today - 1]
<1> DEFINE y == today - 1
<1>0. /\ user_calc' = [user_calc EXCEPT ![u][y] = raw[u][y]]
      /\ user_time' = [user_time EXCEPT ![u] = Rev(y)]
      /\ group_time' = [g \in Gids |->
                        IF g \in {group_of[u], 0} /\ group_time[g] <= Rev(y)
                        THEN Rev(y) + 1 ELSE group_time[g]]
      /\ UNCHANGED <<raw, cross, out, group_calc, an_group_list>>
  BY Zenon DEF ww_save_user_calc_act_to_db
<1>a. TypeOK /\ Typed /\ LogInv /\ CalcInv /\ PastInv /\ GroupInv
  BY Types, Zenon DEF IInv
<1>b. raw[u][y] = logged[u][y]
  BY Resaved, Zenon
<1>c. /\ y \in Days /\ y \in Nat /\ today \in Nat /\ Rev(y) \in Nat /\ Rev(y) > 0
      /\ \A d \in Days : d \in Nat /\ Rev(d) \in Nat
      /\ y # today /\ y < today
  BY <1>a DEF Typed
<1>d. y' = y
  BY Zenon
<1>e. raw[u][y] \in NotCounted..MaxLog /\ user_calc \in [Users -> [Days -> NotCounted..MaxLog]]
  <2>1. raw \in [Users -> [Days -> 0..MaxLog]] /\ user_calc \in [Users -> [Days -> NotCounted..MaxLog]]
    BY <1>a, Zenon DEF TypeOK
  <2> QED
    BY <1>c, <2>1, ConstantsAssumption DEF NotCounted
<1> HIDE DEF y
<1>f. /\ user_calc' \in [Users -> [Days -> NotCounted..MaxLog]]
      /\ user_calc'[u][y] = logged[u][y]
      /\ \A v \in Users, d \in Days : v # u \/ d # y => user_calc'[v][d] = user_calc[v][d]
  BY <1>0, <1>b, <1>c, <1>e, Except2, Zenon
<1>g. /\ user_time'[u] = Rev(y) /\ \A v \in Users \ {u} : user_time'[v] = user_time[v]
      /\ user_time' \in [Users -> {NotFound} \cup {Rev(d) : d \in Days}]
  <2>1. user_time \in [Users -> {NotFound} \cup {Rev(d) : d \in Days}]
    BY <1>a, Zenon DEF TypeOK
  <2> QED
    BY <1>0, <1>c, <2>1, Zenon
<1>h. \A g \in Gids : group_time'[g] = IF g \in {group_of[u], 0} /\ group_time[g] <= Rev(y)
                                       THEN Rev(y) + 1 ELSE group_time[g]
  BY <1>0, Zenon
<1>1. LogInv'
  BY <1>0, <1>a, LogStays, Zenon
<1>2. CalcInv'
  <2>1. \A v \in Users, d \in Days : user_calc'[v][d] <= logged[v][d]
    <3>1. \A v \in Users, d \in Days : user_calc[v][d] <= logged[v][d]
      BY <1>a, Zenon DEF CalcInv
    <3>2. logged[u][y] \in Nat
      BY <1>a, <1>c, Zenon DEF Typed
    <3> QED
      BY <1>f, <3>1, <3>2
  <2>2. \A v \in Users, d \in Days : d >= today => user_calc'[v][d] = NotCounted
    BY <1>a, <1>c, <1>f, SMTT(30) DEF CalcInv
  <2>3. \A v \in Users : user_time'[v] = NotFound \/ user_time'[v] >= Rev(y)
    BY <1>a, <1>c, <1>g, SMTT(30) DEF CalcInv, y
  <2>4. \A v \in Users : user_time'[v] = Rev(y) => user_calc'[v][y] = logged[v][y]
    BY <1>a, <1>c, <1>f, <1>g, Zenon DEF CalcInv, y
  <2>5. \A v \in Users : raw[v][y] < logged[v][y] => user_time'[v] = Rev(y)
    BY <1>a, <1>g, ZenonT(30) DEF CalcInv, y
  <2> QED
    BY <1>0, <2>1, <2>2, <2>3, <2>4, <2>5, Zenon DEF CalcInv, y
<1>3. PastInv'
  <2>1. Done => Done'
    BY <1>c, <1>f, Zenon DEF Done, y
  <2>2. \A v \in Users, d \in Days : d < y => user_calc'[v][d] = user_calc[v][d]
    <3>1. \A d \in Days : d < y => d # y
      BY <1>c
    <3> QED
      BY <1>f, <3>1, Zenon
  <2> QED
    BY <1>a, <2>1, <2>2 DEF PastInv, Kept, y
<1>4. GroupInv'
  <2>1. \A g \in Gids : group_time[g] \in Int
    BY <1>a, Zenon DEF Typed
  <2>2. \A g \in Gids : group_time'[g] # group_time[g] =>
           /\ g \in {group_of[u], 0} /\ group_time[g] <= Rev(y) /\ group_time'[g] = Rev(y) + 1
    BY <1>h, Zenon
  <2>3. \A g \in {group_of[u], 0} : g \in Gids /\ group_time'[g] \in Int /\ group_time'[g] > Rev(y)
    <3>1. group_of[u] \in Gids /\ 0 \in Gids
      BY ConstantsAssumption, Zenon DEF Gids
    <3> QED
      BY <1>c, <1>h, <2>1, <3>1
  <2>4. \A v \in Users : \A g \in {group_of[v], 0} : g \in Gids
    BY ConstantsAssumption, ZenonT(30) DEF Gids
  <2>5. \A g \in OG : group_time[g] <= Rev(y) => group_time[g] \in {0, Rev(y)}
    BY <1>a, <1>c, <2>1 DEF GroupInv, Typed, y
  <2>6. \A g \in OG, d \in Days : Kept(d) /\ group_time[g] = 0 => InSum(g, d)
    BY <1>a, Zenon DEF GroupInv
  <2>7. GroupUpToDate'
    <3> SUFFICES ASSUME NEW v \in Users, NEW d \in Days, NEW g \in {group_of[v], 0},
                        Kept(d), g \in OG, group_time'[g] > 0, group_time'[g] <= Rev(d),
                        user_calc'[v][d] # NotCounted
                 PROVE  group_calc[g][d][v] = user_calc'[v][d]
      BY <1>0, Zenon DEF GroupUpToDate, Kept, OG
    <3>0. g \in Gids
      BY <2>4, Zenon
    <3>1. v # u \/ d # y
      BY <2>3, <1>c
    <3>2. user_calc'[v][d] = user_calc[v][d]
      BY <3>1, <1>f, Zenon
    <3>3. CASE group_time'[g] = group_time[g]
      BY <3>2, <3>3, <1>a, Zenon DEF GroupInv, GroupUpToDate, OG
    <3>4. CASE group_time'[g] # group_time[g]
      <4>1. group_time[g] \in {0, Rev(y)} /\ group_time'[g] = Rev(y) + 1
        BY <3>0, <3>4, <2>2, <2>5, Zenon
      <4>2. CASE group_time[g] = 0
        BY <4>2, <3>2, <2>6, Zenon DEF InSum
      <4>3. CASE group_time[g] = Rev(y)
        <5>0. Rev(y) \in Nat /\ Rev(y) > 0 /\ Rev(d) \in Nat
          BY <1>a, <1>c, ZenonT(30) DEF Typed
        <5>1. Rev(y) > 0 /\ Rev(y) <= Rev(d)
          BY <4>1, <5>0, SMTT(30)
        <5> QED
          BY <4>3, <5>1, <3>2, <1>a, Zenon DEF GroupInv, GroupUpToDate, OG
      <4> QED
        BY <4>1, <4>2, <4>3, Zenon
    <3> QED
      BY <3>3, <3>4, Zenon
  <2>8. \A g \in Gids : group_time'[g] \in {NotFound, 0} \/ group_time'[g] >= Rev(y)
    BY <1>a, <1>c, <2>2, SMTT(30) DEF GroupInv, y
  <2>9. \A g \in OG : g \in Gids /\ group_time'[g] # NotFound
    BY <1>a, <1>c, <2>2, SMTT(30) DEF GroupInv, Typed, NotFound
  <2>10. \A g \in OG : group_time'[g] = 0 => \A d \in Days : Kept(d) => InSum(g, d)'
    <3> SUFFICES ASSUME NEW g \in OG, group_time'[g] = 0, NEW d \in Days, Kept(d)
                 PROVE  InSum(g, d)'
      BY Zenon
    <3>1. group_time[g] = 0
      BY <1>c, <2>2, <2>9
    <3>2. g \notin {group_of[u], 0}
      BY <1>c, <2>3
    <3>3. InSum(g, d)
      BY <2>6, <3>1, Zenon
    <3> QED
      BY <1>0, <1>f, <3>2, <3>3, Zenon DEF InSum
  <2>11. \A d \in Days : Kept(d)' <=> Kept(d)
    BY Zenon DEF Kept
  <2> QED
    BY <2>7, <2>8, <2>9, <2>10, <2>11, Zenon DEF GroupInv, y
<1>5. group_time' \in [Gids -> {NotFound, 0} \cup {Rev(d) : d \in -1..LastDay}]
  <2>1. group_time \in [Gids -> {NotFound, 0} \cup {Rev(d) : d \in -1..LastDay}]
    BY <1>a, Zenon DEF TypeOK
  <2>2. y - 1 \in -1..LastDay /\ Rev(y) + 1 = Rev(y - 1)
    BY <1>c, ConstantsAssumption DEF Days, Rev
  <2>3. \A g \in Gids : group_time'[g] \in {NotFound, 0} \cup {Rev(d) : d \in -1..LastDay}
    BY <1>h, <2>1, <2>2, Zenon
  <2>4. group_time' = [g \in Gids |-> group_time'[g]]
    BY <1>0, Zenon
  <2> QED
    BY <2>3, <2>4, Zenon
<1> QED
  BY <1>1, <1>2, <1>3, <1>4, <1>5, <1>c, <1>f, <1>g, Zenon DEF y

\* One step of the loop over the users; at its end yesterday is done.
LEMMA user_check_IInv ==
  ASSUME IInv, ww_user_calc_action_save_check
  PROVE  IInv'
<1> DEFINE u == Head(todo)
<1>0. /\ pc = "check_user"
      /\ UNCHANGED <<today, phase, ticked, histroy, list, list_day, sums, mday, logged,
                     present, skipped, crashes>>
  BY Zenon DEF ww_user_calc_action_save_check, clock, history
<1>a. /\ TypeOK /\ Typed /\ Listed' = Listed /\ todo \in Seq(Users \cup Gids)
      /\ an_group_list \in Seq(Groups)
      /\ Range(todo) \subseteq Existing /\ Existing \subseteq Users
      /\ \A v \in Existing \ Range(todo) :
           logged[v][today - 1] > 0 => user_calc[v][today - 1] = logged[v][today - 1]
  BY <1>0, Types, UsersAre, Zenon DEF IInv, TypeOK, Listed, CheckInv, Checking
<1>1. CASE todo = <<>> /\ pc' = "check_group" /\ todo' = Append(an_group_list, 0) /\ UNCHANGED store
  <2>0. UNCHANGED <<an_group_list, raw, cross, out, user_calc, user_time, group_calc, group_time>>
    BY <1>1, Zenon DEF store
  <2>1. Done
    <3>1. \A v \in Users : logged[v][today - 1] > 0 => v \in Existing
      BY <1>a, Zenon DEF IInv, LogInv, Typed
    <3>2. Range(todo) = {}
      BY <1>1, RangeEmpty, Zenon
    <3> QED
      BY <1>a, <3>1, <3>2, Zenon DEF Done
  <2>2. Range(todo') = Range(an_group_list) \cup {0} /\ todo' \in Seq(Users \cup Gids)
    <3>1. an_group_list \in Seq(Users \cup Gids) /\ 0 \in Users \cup Gids
      BY <1>a DEF Gids
    <3> QED
      BY <1>1, <1>a, <3>1, RangeAppend
  <2>3. TypeOK'
    BY <1>0, <1>1, <1>a, <2>0, <2>2, Zenon DEF TypeOK
  <2>4. LogInv' /\ CalcInv' /\ PastInv' /\ GroupInv' /\ CountedInv'
    BY <1>0, <1>1, <2>0, LogStays, CalcStays, PastStays, GroupStays, CountedStays, Zenon DEF IInv
  <2>5. ListInv'
    BY <1>0, <1>1, Zenon DEF IInv, ListInv, Saving
  <2>6. CheckInv'
    BY <1>0, <1>1, <2>0, <2>1, DoneStays, Zenon DEF CheckInv, Checking
  <2>7. CreditInv'
    BY <1>1, <2>0, Zenon DEF IInv, CreditInv, CrossingCredited
  <2>8. RecountInv'
    <3>1. OG \subseteq Range(todo')
      BY <2>2, Zenon DEF IInv, LogInv, OG
    <3>2. Range(an_group_list) \subseteq Groups
      BY <1>a DEF Range
    <3>3. Range(todo') \subseteq Gids
      BY <2>2, <3>2, Zenon DEF Gids
    <3> QED
      BY <1>1, <3>1, <3>3, Zenon DEF RecountInv
  <2>9. SaveInv'
    BY <1>1, Zenon DEF SaveInv, Saving
  <2> QED
    BY <2>3, <2>4, <2>5, <2>6, <2>7, <2>8, <2>9, Zenon DEF IInv
<1>2. CASE todo # <<>> /\ todo' = Tail(todo) /\ pc' = pc
           /\ \/ ~NeedsResave(u) /\ UNCHANGED store
              \/ NeedsResave(u) /\ ww_save_user_calc_act_to_db(u, today - 1)
  <2>0. UNCHANGED <<an_group_list, raw, cross, out, group_calc>> /\ Existing' = Existing
    BY <1>2, Zenon DEF store, ww_save_user_calc_act_to_db, Existing
  <2>1. /\ u \in Existing /\ u \in Users /\ todo' \in Seq(Users \cup Gids)
        /\ Range(todo') \subseteq Range(todo)
        /\ \A x \in Range(todo) : x = u \/ x \in Range(todo')
    BY <1>2, <1>a, TakeHead, Zenon
  <2> HIDE DEF u
  <2>2. /\ LogInv' /\ CalcInv' /\ PastInv' /\ GroupInv'
        /\ user_calc' \in [Users -> [Days -> NotCounted..MaxLog]]
        /\ user_time' \in [Users -> {NotFound} \cup {Rev(d) : d \in Days}]
        /\ group_time' \in [Gids -> {NotFound, 0} \cup {Rev(d) : d \in -1..LastDay}]
        /\ user_calc'[u][today - 1] = logged[u][today - 1]
        /\ \A v \in Users \ {u} : user_calc'[v][today - 1] = user_calc[v][today - 1]
    <3>1. CASE ~NeedsResave(u) /\ UNCHANGED store
      <4>1. UNCHANGED <<an_group_list, raw, user_calc, user_time, group_calc, group_time>>
        BY <3>1, Zenon DEF store
      <4>2. LogInv' /\ CalcInv' /\ PastInv' /\ GroupInv'
        BY <1>0, <4>1, LogStays, CalcStays, PastStays, GroupStays, Zenon DEF IInv
      <4>3. user_calc[u][today - 1] = logged[u][today - 1]
        BY <2>1, <3>1, Resaved, Zenon
      <4>4. /\ user_calc \in [Users -> [Days -> NotCounted..MaxLog]]
            /\ user_time \in [Users -> {NotFound} \cup {Rev(d) : d \in Days}]
            /\ group_time \in [Gids -> {NotFound, 0} \cup {Rev(d) : d \in -1..LastDay}]
        BY <1>a, Zenon DEF TypeOK
      <4> QED
        BY <4>1, <4>2, <4>3, <4>4, Zenon
    <3>2. CASE NeedsResave(u) /\ ww_save_user_calc_act_to_db(u, today - 1)
      BY <1>0, <2>1, <3>2, save_user_calc, Zenon
    <3> QED
      BY <1>2, <3>1, <3>2, Zenon
  <2>3. TypeOK'
    BY <1>0, <1>2, <1>a, <2>0, <2>1, <2>2, Zenon DEF TypeOK
  <2>4. ListInv' /\ CountedInv'
    BY <1>0, <1>2, Zenon DEF IInv, ListInv, CountedInv, Saving
  <2>5. CheckInv'
    BY <1>0, <1>2, <1>a, <2>0, <2>1, <2>2, Zenon DEF CheckInv, Checking
  <2>6. CreditInv'
    BY <1>0, <1>2, <2>0, Zenon DEF IInv, CreditInv, CrossingCredited
  <2>7. RecountInv' /\ SaveInv'
    BY <1>0, <1>2, Zenon DEF RecountInv, SaveInv, Saving
  <2> QED
    BY <2>2, <2>3, <2>4, <2>5, <2>6, <2>7, Zenon DEF IInv
<1>3. CASE todo # <<>> /\ pc' = "out_user" /\ todo' = todo /\ UNCHANGED store
  <2>0. UNCHANGED <<an_group_list, raw, cross, out, user_calc, user_time, group_calc, group_time>>
    BY <1>3, Zenon DEF store
  <2>1. TypeOK'
    BY <1>0, <1>3, <1>a, <2>0, Zenon DEF TypeOK
  <2>2. LogInv' /\ CalcInv' /\ PastInv' /\ GroupInv' /\ CountedInv'
    BY <1>0, <1>3, <2>0, LogStays, CalcStays, PastStays, GroupStays, CountedStays, Zenon DEF IInv
  <2>3. ListInv'
    BY <1>0, <1>3, Zenon DEF IInv, ListInv, Saving
  <2>4. Existing' = Existing
    BY <2>0, Zenon DEF Existing
  <2>5. CheckInv'
    BY <1>0, <1>3, <1>a, <2>0, <2>4, Zenon DEF CheckInv, Checking
  <2>6. CreditInv'
    BY <1>3, <2>0, Zenon DEF IInv, CreditInv, CrossingCredited
  <2>7. RecountInv' /\ SaveInv'
    BY <1>3, Zenon DEF RecountInv, SaveInv, Saving
  <2> QED
    BY <2>1, <2>2, <2>3, <2>5, <2>6, <2>7, Zenon DEF IInv
<1> QED
  BY <1>1, <1>2, <1>3, Zenon DEF ww_user_calc_action_save_check

\* The record is cut only after the third credit.
LEMMA out_time_IInv ==
  ASSUME IInv, resave_out_time
  PROVE  IInv'
<1> DEFINE u == Head(todo)
<1> DEFINE y == today - 1
<1>0. /\ \/ pc = "out_user" /\ Credit("user") /\ pc' = "out_group" /\ cross' = cross
         \/ pc = "out_group" /\ Credit("group") /\ pc' = "out_all" /\ cross' = cross
         \/ pc = "out_all" /\ Credit("all") /\ pc' = "split" /\ cross' = cross
         \/ /\ pc = "split" /\ pc' = "check_user" /\ out' = out
            /\ cross' = [cross EXCEPT ![u][y] = "split"]
      /\ UNCHANGED <<today, phase, ticked, an_group_list, raw, user_calc, user_time, group_calc,
                     group_time, todo, histroy, list, list_day, sums, mday, logged,
                     present, skipped, crashes>>
  BY Zenon DEF resave_out_time, clock, history
<1>a. TypeOK /\ Typed /\ CreditInv /\ todo \in Seq(Users \cup Gids) /\ todo # <<>>
      /\ Range(todo) \subseteq Existing /\ Existing' = Existing
  BY <1>0, Types, Zenon DEF IInv, TypeOK, CheckInv, Checking, Existing
<1>b. u \in Users /\ y \in Days
  BY <1>a, TakeHead, UsersAre, Zenon DEF Typed
<1>c. /\ cross \in [Users -> [Days -> {"none", "open", "split"}]]
      /\ out \in [Users -> [Days -> [{"user", "group", "all"} -> Nat]]]
  BY <1>a, Zenon DEF TypeOK
<1>d. u' = u /\ y' = y
  BY <1>0, Zenon
<1>1. /\ cross' \in [Users -> [Days -> {"none", "open", "split"}]]
      /\ \A v \in Users, d \in Days :
           cross'[v][d] = "split" => cross[v][d] = "split" \/ (pc = "split" /\ v = u /\ d = y)
  <2>1. cross' = cross \/ (pc = "split" /\ cross' = [cross EXCEPT ![u][y] = "split"])
    BY <1>0, Zenon
  <2>2. CASE cross' = cross
    BY <2>2, <1>c, Zenon
  <2>3. CASE pc = "split" /\ cross' = [cross EXCEPT ![u][y] = "split"]
    <3>1. /\ cross' \in [Users -> [Days -> {"none", "open", "split"}]]
          /\ \A v \in Users, d \in Days : v # u \/ d # y => cross'[v][d] = cross[v][d]
      BY <2>3, <1>b, <1>c, Except2, ZenonT(30)
    <3> QED
      BY <2>3, <3>1, Zenon
  <2> QED
    BY <2>1, <2>2, <2>3, Zenon
<1>2. ASSUME NEW whom \in {"user", "group", "all"}, Credit(whom)
      PROVE  /\ out' \in [Users -> [Days -> [{"user", "group", "all"} -> Nat]]]
             /\ out'[u][y][whom] > 0
             /\ \A v \in Users, d \in Days, w \in {"user", "group", "all"} :
                  out[v][d][w] > 0 => out'[v][d][w] > 0
  <2>1. out' = [out EXCEPT ![u][y][whom] = out[u][y][whom] + 1]
    BY <1>2, Zenon DEF Credit
  <2>2. out[u][y] \in [{"user", "group", "all"} -> Nat]
    BY <1>b, <1>c, Zenon
  <2>3. PICK h : h = [out[u][y] EXCEPT ![whom] = out[u][y][whom] + 1]
    BY ZenonT(30)
  <2>4. /\ h \in [{"user", "group", "all"} -> Nat] /\ h[whom] > 0
        /\ \A w \in {"user", "group", "all"} : out[u][y][w] > 0 => h[w] > 0
    BY <2>2, <2>3, <1>2, SMTT(30)
  <2>5. out' = [out EXCEPT ![u][y] = h]
    BY <2>1, <2>3, ZenonT(30)
  <2>6. /\ out' \in [Users -> [Days -> [{"user", "group", "all"} -> Nat]]] /\ out'[u][y] = h
        /\ \A v \in Users, d \in Days : v # u \/ d # y => out'[v][d] = out[v][d]
    BY <2>4, <2>5, <1>b, <1>c, Except2, SMTT(30)
  <2> QED
    BY <2>4, <2>6, Zenon
<1>3. /\ out' \in [Users -> [Days -> [{"user", "group", "all"} -> Nat]]]
      /\ \A v \in Users, d \in Days, w \in {"user", "group", "all"} :
           out[v][d][w] > 0 => out'[v][d][w] > 0
      /\ pc = "out_user" => out'[u][y]["user"] > 0
      /\ pc = "out_group" => out'[u][y]["group"] > 0
      /\ pc = "out_all" => out'[u][y]["all"] > 0
  BY <1>0, <1>2, <1>c, Zenon
<1>4. TypeOK'
  BY <1>0, <1>1, <1>3, <1>a, Zenon DEF TypeOK
<1>5. LogInv' /\ CalcInv' /\ PastInv' /\ GroupInv' /\ CountedInv'
  BY <1>0, LogStays, CalcStays, PastStays, GroupStays, CountedStays, Zenon DEF IInv
<1>6. ListInv'
  BY <1>0, Zenon DEF IInv, ListInv, Saving
<1>7. CheckInv'
  BY <1>0, <1>a, Zenon DEF IInv, CheckInv, Checking
<1> HIDE DEF u, y
<1>8. CreditInv'
  <2>1. /\ pc \in {"out_group", "out_all", "split"} => out[u][y]["user"] > 0
        /\ pc \in {"out_all", "split"} => out[u][y]["group"] > 0
        /\ pc = "split" => out[u][y]["all"] > 0
    BY <1>a, Zenon DEF CreditInv, u, y
  <2>2. CrossingCredited'
    BY <1>1, <1>3, <1>a, <1>b, <2>1, ZenonT(30) DEF CreditInv, CrossingCredited
  <2>3. /\ pc' \in {"out_group", "out_all", "split"} => out'[u][y]["user"] > 0
        /\ pc' \in {"out_all", "split"} => out'[u][y]["group"] > 0
        /\ pc' = "split" => out'[u][y]["all"] > 0
    BY <1>0, <1>3, <1>b, <2>1, Zenon
  <2>4. u = Head(todo') /\ y = today' - 1
    BY <1>0, Zenon DEF u, y
  <2> QED
    BY <2>2, <2>3, <2>4, Zenon DEF CreditInv
<1>9. RecountInv' /\ SaveInv'
  BY <1>0, Zenon DEF RecountInv, SaveInv, Saving
<1> QED
  BY <1>4, <1>5, <1>6, <1>7, <1>8, <1>9, Zenon DEF IInv

\* One step of the loop over the groups; at its end every old group has counted
\* everything its users have.
LEMMA group_check_IInv ==
  ASSUME IInv, ww_usergroup_calc_action_save_check
  PROVE  IInv'
<1>p. PICK g : g = Head(todo)
  BY Zenon
<1>0. /\ pc = "check_group"
      /\ UNCHANGED <<today, phase, ticked, an_group_list, raw, cross, out, user_calc, user_time,
                     group_calc, group_time, todo, list, list_day, sums, mday, logged,
                     present, skipped, crashes>>
      /\ \/ todo = <<>> /\ pc' = "load" /\ histroy' = histroy
         \/ /\ todo # <<>> /\ pc' = "resave_group"
            /\ histroy' = IF FromTime(g) <= Rev(today) THEN Rev(today) + 2 ELSE FromTime(g)
  BY <1>p, Zenon DEF ww_usergroup_calc_action_save_check, clock, store, history
<1>a. /\ TypeOK /\ Typed /\ GroupInv /\ RecountInv /\ CalcInv /\ todo \in Seq(Users \cup Gids)
      /\ histroy \in 0..GMT_REVERS_MASK + 1
  BY Types, Zenon DEF IInv, TypeOK
<1>b. /\ Rev(today - 1) = Rev(today) + 1 /\ Rev(today) \in Nat /\ Rev(today) > 0
      /\ GMT_REVERS_MASK \in Nat /\ Rev(today) + 2 <= GMT_REVERS_MASK + 1
  BY <1>a, RevToday, Zenon
<1>c. Range(todo) \subseteq Gids /\ \A h \in OG \ Range(todo) : group_time[h] = Rev(today - 1)
  BY <1>0, <1>a, Zenon DEF RecountInv
<1>d. LogInv' /\ CalcInv' /\ PastInv' /\ GroupInv'
  BY <1>0, LogStays, CalcStays, PastStays, GroupStays, Zenon DEF IInv
<1>e. ListInv' /\ CheckInv' /\ SaveInv'
  BY <1>0, DoneStays, Zenon DEF IInv, ListInv, CheckInv, SaveInv, Saving, Checking
<1>f. CreditInv'
  BY <1>0, Zenon DEF IInv, CreditInv, CrossingCredited
<1>1. CASE todo = <<>>
  <2>0. pc' = "load" /\ histroy' = histroy
    BY <1>0, <1>1, Zenon
  <2>1. \A h \in OG : group_time[h] = Rev(today - 1)
    BY <1>1, <1>c, RangeEmpty, Zenon
  <2>2. TypeOK'
    BY <1>0, <1>a, <2>0, Zenon DEF TypeOK
  <2>3. \A h \in OG, d \in Days : Kept(d) => InSum(h, d)
    <3> SUFFICES ASSUME NEW h \in OG, NEW d \in Days, Kept(d), NEW u \in Users,
                        h \in {group_of[u], 0}, user_calc[u][d] # NotCounted
                 PROVE  group_calc[h][d][u] = user_calc[u][d]
      BY Zenon DEF InSum
    <3>1. d < today
      BY <1>a, SMTT(30) DEF CalcInv, Typed
    <3>2. Rev(d) >= Rev(today - 1) /\ Rev(today - 1) > 0
      BY <1>a, <3>1, SMTT(30) DEF Typed, Rev
    <3> QED
      BY <1>a, <2>1, <3>2, Zenon DEF GroupInv, GroupUpToDate, OG
  <2>4. \A h \in OG : group_time[h] # 0
    BY <1>b, <2>1
  <2>5. CountedInv'
    BY <1>0, <2>0, <2>3, <2>4, SumStays, Zenon DEF CountedInv, Kept
  <2>6. RecountInv'
    BY <2>0, Zenon DEF RecountInv
  <2> QED
    BY <1>d, <1>e, <1>f, <2>2, <2>5, <2>6, Zenon DEF IInv
<1>2. CASE todo # <<>>
  <2>0. /\ pc' = "resave_group"
        /\ histroy' = IF FromTime(g) <= Rev(today) THEN Rev(today) + 2 ELSE FromTime(g)
    BY <1>0, <1>2, Zenon
  <2>1. g \in Range(todo) /\ g \in Gids
    BY <1>2, <1>a, <1>c, <1>p, TakeHead, Zenon
  <2>2. group_time[g] \in Int /\ group_time[g] <= GMT_REVERS_MASK + 1
    <3>1. group_time[g] \in {NotFound, 0} \cup {Rev(d) : d \in -1..LastDay}
      BY <1>a, <2>1, Zenon DEF TypeOK
    <3>2. \A d \in -1..LastDay : Rev(d) \in Int /\ Rev(d) <= GMT_REVERS_MASK + 1
      BY <1>b, ConstantsAssumption DEF Rev
    <3> QED
      BY <1>b, <3>1, <3>2 DEF NotFound
  <2>3. FromTime(g) \in Int /\ FromTime(g) <= GMT_REVERS_MASK + 1
    BY <1>a, <1>b, <2>2 DEF FromTime
  <2>4. histroy' \in 0..GMT_REVERS_MASK + 1 /\ histroy' >= Rev(today - 1)
    BY <1>b, <2>0, <2>3
  <2>5. TypeOK'
    BY <1>0, <1>a, <2>0, <2>4, Zenon DEF TypeOK
  <2>6. CountedInv'
    BY <2>0, Zenon DEF CountedInv
  <2>7. RecountInv'
    <3>1. g \in OG => /\ group_time[g] # NotFound
                      /\ group_time[g] = 0 => \A d \in Days : Kept(d) => InSum(g, d)
                      /\ group_time[g] = 0 \/ group_time[g] >= Rev(today - 1)
      BY <1>a, <2>1, Zenon DEF GroupInv
    <3>2. g \in OG => \/ group_time[g] = 0 /\ histroy' = Rev(today) + 2
                      \/ group_time[g] >= Rev(today - 1) /\ histroy' = group_time[g]
      BY <1>b, <2>0, <2>2, <3>1 DEF FromTime
    <3>3. g \in OG => (histroy' = Rev(today - 1) => group_time[g] = Rev(today - 1))
      BY <1>b, <3>2
    <3>4. ASSUME g \in OG, NEW d \in Days, Kept(d), Rev(d) >= histroy'
          PROVE  InSum(g, d)
      <4>1. CASE group_time[g] = 0
        BY <3>1, <3>4, <4>1, Zenon
      <4>2. CASE group_time[g] >= Rev(today - 1) /\ histroy' = group_time[g]
        <5>1. group_time[g] > 0 /\ group_time[g] <= Rev(d)
          BY <1>b, <2>2, <3>4, <4>2
        <5> QED
          BY <1>a, <3>4, <5>1, Zenon DEF GroupInv, GroupUpToDate, InSum, OG
      <4> QED
        BY <3>2, <3>4, <4>1, <4>2, Zenon
    <3>5. g = Head(todo')
      BY <1>0, <1>p, Zenon
    <3>6. \A d \in Days : Kept(d)' => Kept(d)
      BY <1>0, Zenon DEF Kept
    <3>7. g \in OG => \A d \in Days : Kept(d)' /\ Rev(d) >= histroy' => InSum(g, d)'
      BY <1>0, <3>4, <3>6, SumStays, Zenon
    <3>8. Range(todo') \subseteq Gids /\ \A h \in OG \ Range(todo') : group_time'[h] = Rev(today' - 1)
      BY <1>0, <1>c, Zenon
    <3>9. todo' # <<>> /\ today' = today /\ group_time' = group_time
      BY <1>0, <1>2, Zenon
    <3> QED
      BY <2>0, <2>4, <3>3, <3>5, <3>7, <3>8, <3>9, Zenon DEF RecountInv
  <2> QED
    BY <1>d, <1>e, <1>f, <2>5, <2>6, <2>7, Zenon DEF IInv
<1> QED
  BY <1>1, <1>2, Zenon

\* Counting one day of a group again completes the days down to it.
LEMMA group_resave_IInv ==
  ASSUME IInv, resave_usergroup_calc_action
  PROVE  IInv'
<1>p. PICK g : g = Head(todo)
  BY Zenon
<1>q. PICK x : x = Rev(histroy - 1)
  BY Zenon
<1>0. /\ pc = "resave_group"
      /\ UNCHANGED <<today, phase, ticked, an_group_list, raw, cross, out, user_calc, user_time,
                     list, list_day, sums, mday, logged, present, skipped, crashes>>
  BY Zenon DEF resave_usergroup_calc_action, clock, history
<1>a. /\ TypeOK /\ Typed /\ GroupInv /\ RecountInv /\ todo \in Seq(Users \cup Gids) /\ todo # <<>>
      /\ histroy \in 0..GMT_REVERS_MASK + 1
  BY <1>0, Types, Zenon DEF IInv, TypeOK, RecountInv
<1>b. /\ Rev(today - 1) = Rev(today) + 1 /\ Rev(today) \in Nat /\ Rev(today) > 0
      /\ GMT_REVERS_MASK \in Nat /\ today \in Nat /\ today \in Days /\ today <= LastDay /\ LastDay \in Nat
  BY <1>a, RevToday, Zenon
<1>c. /\ Range(todo) \subseteq Gids /\ \A h \in OG \ Range(todo) : group_time[h] = Rev(today - 1)
      /\ histroy >= Rev(today - 1)
      /\ g \in OG => /\ \A d \in Days : Kept(d) /\ Rev(d) >= histroy => InSum(g, d)
                     /\ histroy = Rev(today - 1) => group_time[g] = Rev(today - 1)
  BY <1>0, <1>a, <1>p, Zenon DEF RecountInv
<1>d. LogInv' /\ CalcInv' /\ PastInv'
  BY <1>0, LogStays, CalcStays, PastStays, Zenon DEF IInv
<1>g. /\ g \in Range(todo) /\ g \in Gids /\ Tail(todo) \in Seq(Users \cup Gids)
      /\ Range(Tail(todo)) \subseteq Range(todo)
      /\ \A h \in Range(todo) : h = g \/ h \in Range(Tail(todo))
  BY <1>a, <1>c, <1>p, TakeHead, Zenon
<1>1. CASE /\ histroy - Rev(today) > 1 /\ histroy' = histroy - 1
           /\ group_calc' = [group_calc EXCEPT ![g][x] = GroupSum(g, x)]
           /\ group_time' = [group_time EXCEPT ![g] = histroy - 1]
           /\ pc' = pc /\ todo' = todo
  <2>1. /\ histroy - 1 \in 0..GMT_REVERS_MASK + 1 /\ histroy - 1 >= Rev(today - 1)
        /\ x \in Days /\ histroy - 1 = Rev(x) /\ Rev(x) > 0
    <3>1. histroy \in Nat /\ histroy <= GMT_REVERS_MASK + 1 /\ histroy > Rev(today) + 1
      BY <1>1, <1>a, <1>b
    <3>2. x = GMT_REVERS_MASK - (histroy - 1) /\ Rev(x) = GMT_REVERS_MASK - x
      BY <1>q, Zenon DEF Rev
    <3>3. Rev(today) = GMT_REVERS_MASK - today
      BY Zenon DEF Rev
    <3> QED
      BY <1>b, <3>1, <3>2, <3>3 DEF Days
  <2>4. GroupSum(g, x) \in [Users -> NotCounted..MaxLog]
    <3>1. user_calc \in [Users -> [Days -> NotCounted..MaxLog]]
      BY <1>a, Zenon DEF TypeOK
    <3>2. NotCounted \in NotCounted..MaxLog
      BY ConstantsAssumption DEF NotCounted
    <3> QED
      BY <2>1, <3>1, <3>2, Zenon DEF GroupSum
  <2>5. /\ group_calc' \in [Gids -> [Days -> [Users -> NotCounted..MaxLog]]]
        /\ group_calc'[g][x] = GroupSum(g, x)
        /\ \A h \in Gids, d \in Days : h # g \/ d # x => group_calc'[h][d] = group_calc[h][d]
    <3>1. group_calc \in [Gids -> [Days -> [Users -> NotCounted..MaxLog]]]
      BY <1>a, Zenon DEF TypeOK
    <3> QED
      BY <1>1, <1>g, <2>1, <2>4, <3>1, Except2, ZenonT(30)
  <2>6. /\ group_time' \in [Gids -> {NotFound, 0} \cup {Rev(d) : d \in -1..LastDay}]
        /\ group_time'[g] = histroy' /\ \A h \in Gids \ {g} : group_time'[h] = group_time[h]
    <3>1. group_time \in [Gids -> {NotFound, 0} \cup {Rev(d) : d \in -1..LastDay}]
      BY <1>a, Zenon DEF TypeOK
    <3>2. x \in -1..LastDay
      BY <2>1, ConstantsAssumption DEF Days
    <3> QED
      BY <1>1, <1>g, <2>1, <3>1, <3>2, Zenon
  <2>7. TypeOK'
    BY <1>0, <1>1, <1>a, <2>1, <2>5, <2>6, Zenon DEF TypeOK
  <2>8. \A h \in OG, d \in Days : h # g \/ d # x => (InSum(h, d)' <=> InSum(h, d))
    <3>1. OG \subseteq Gids
      BY <1>a, Zenon DEF Typed
    <3> QED
      BY <1>0, <2>5, <3>1, Zenon DEF InSum
  <2>9. InSum(g, x)'
    BY <1>0, <2>5, Zenon DEF InSum, GroupSum
  <2>10. ASSUME g \in OG, NEW d \in Days, Kept(d), Rev(d) >= histroy'
         PROVE  InSum(g, d)'
    <3>1. CASE d = x
      BY <2>9, <3>1, Zenon
    <3>2. CASE d # x
      <4>0. d \in Nat /\ x \in Nat
        BY <1>a, <2>1, Zenon DEF Typed
      <4>1. Rev(d) >= histroy - 1 /\ Rev(d) # Rev(x) /\ Rev(d) \in Int
        BY <1>1, <1>b, <2>10, <3>2, <4>0 DEF Rev
      <4>2. Rev(d) >= histroy
        BY <1>a, <2>1, <4>1
      <4> QED
        BY <1>c, <2>8, <2>10, <3>2, <4>2, Zenon
    <3> QED
      BY <3>1, <3>2, Zenon
  <2>11. GroupInv'
    <3>1. \A h \in Gids : group_time'[h] \in {NotFound, 0} \/ group_time'[h] >= Rev(today - 1)
      BY <1>1, <1>a, <2>1, <2>6, Zenon DEF GroupInv
    <3>2. group_time'[g] # NotFound /\ group_time'[g] # 0
      BY <1>1, <2>1, <2>6 DEF NotFound
    <3>3. \A h \in OG : group_time'[h] # NotFound
      BY <1>a, <2>6, <3>2, Zenon DEF GroupInv, Typed
    <3>4. \A h \in OG : group_time'[h] = 0 => \A d \in Days : Kept(d) => InSum(h, d)'
      BY <1>a, <2>6, <2>8, <3>2, Zenon DEF GroupInv, Typed
    <3>5. ASSUME NEW h \in OG, NEW d \in Days, Kept(d), group_time'[h] > 0, group_time'[h] <= Rev(d)
          PROVE  InSum(h, d)'
      <4>1. CASE h = g
        <5>1. histroy' \in Int /\ Rev(d) \in Int
          BY <1>1, <1>a, SMTT(30) DEF Typed
        <5> QED
          BY <2>6, <2>10, <3>5, <4>1, <5>1, Zenon
      <4>2. CASE h # g
        <5>1. group_time[h] > 0 /\ group_time[h] <= Rev(d)
          BY <1>a, <2>6, <3>5, <4>2, Zenon DEF Typed
        <5>2. InSum(h, d)
          BY <1>a, <3>5, <5>1, Zenon DEF GroupInv, GroupUpToDate, InSum, OG
        <5> QED
          BY <2>8, <4>2, <5>2, Zenon
      <4> QED
        BY <4>1, <4>2, Zenon
    <3>6. \A d \in Days : Kept(d)' => Kept(d)
      BY <1>0, Zenon DEF Kept
    <3>7. GroupUpToDate'
      BY <1>0, <3>5, <3>6, Zenon DEF GroupUpToDate, InSum, OG
    <3> QED
      BY <1>0, <3>1, <3>3, <3>4, <3>6, <3>7, Zenon DEF GroupInv
  <2>12. ListInv' /\ CheckInv' /\ CountedInv' /\ SaveInv'
    BY <1>0, <1>1, DoneStays, Zenon DEF IInv, ListInv, CheckInv, CountedInv, SaveInv, Saving, Checking
  <2>13. CreditInv'
    BY <1>0, <1>1, Zenon DEF IInv, CreditInv, CrossingCredited
  <2>14. RecountInv'
    <3>1. \A h \in OG \ Range(todo) : group_time'[h] = Rev(today - 1)
      BY <1>a, <1>c, <1>g, <2>6, Zenon DEF Typed
    <3>2. \A d \in Days : Kept(d)' => Kept(d)
      BY <1>0, Zenon DEF Kept
    <3>3. g = Head(todo')
      BY <1>1, <1>p, Zenon
    <3>4. histroy' >= Rev(today - 1)
      BY <1>1, <2>1, Zenon
    <3>5. Range(todo') \subseteq Gids /\ todo' # <<>> /\ Range(todo') = Range(todo)
      BY <1>1, <1>a, <1>c, Zenon
    <3>6. g \in OG => \A d \in Days : Kept(d)' /\ Rev(d) >= histroy' => InSum(g, d)'
      BY <2>10, <3>2, Zenon
    <3>7. today' = today /\ (histroy' = Rev(today - 1) => group_time'[g] = Rev(today - 1))
      BY <1>0, <2>6, Zenon
    <3> QED
      BY <3>1, <3>3, <3>4, <3>5, <3>6, <3>7, Zenon DEF RecountInv
  <2> QED
    BY <1>d, <2>7, <2>11, <2>12, <2>13, <2>14, Zenon DEF IInv
<1>2. CASE /\ histroy - Rev(today) <= 1 /\ todo' = Tail(todo) /\ pc' = "check_group"
           /\ UNCHANGED <<histroy, group_calc, group_time>>
  <2>1. TypeOK'
    BY <1>0, <1>2, <1>a, <1>g, Zenon DEF TypeOK
  <2>2. GroupInv'
    BY <1>0, <1>2, <1>a, GroupStays, Zenon
  <2>3. ListInv' /\ CheckInv' /\ CountedInv' /\ SaveInv'
    BY <1>0, <1>2, DoneStays, Zenon DEF IInv, ListInv, CheckInv, CountedInv, SaveInv, Saving, Checking
  <2>4. CreditInv'
    BY <1>0, <1>2, Zenon DEF IInv, CreditInv, CrossingCredited
  <2>5. RecountInv'
    <3>1. histroy = Rev(today - 1)
      BY <1>2, <1>a, <1>b, <1>c
    <3>2. \A h \in OG \ Range(todo') : group_time[h] = Rev(today - 1)
      BY <1>2, <1>c, <1>g, <3>1, Zenon
    <3> QED
      BY <1>0, <1>2, <1>c, <1>g, <3>2, Zenon DEF RecountInv
  <2> QED
    BY <1>d, <2>1, <2>2, <2>3, <2>4, <2>5, Zenon DEF IInv
<1> QED
  BY <1>1, <1>2, <1>p, <1>q, Zenon DEF resave_usergroup_calc_action

\* The lists start with today.
LEMMA load_IInv ==
  ASSUME IInv, wk_init
  PROVE  IInv'
<1>0. /\ pc = "load" /\ pc' = "run" /\ list_day' = today /\ histroy' = 0
      /\ present' = TRUE /\ ticked' = FALSE
      /\ UNCHANGED <<today, phase, an_group_list, raw, cross, out, user_calc, user_time,
                     group_calc, group_time, todo, sums, mday, logged, skipped, crashes>>
  BY Zenon DEF wk_init, store
<1>a. TypeOK /\ Typed /\ LogInv /\ ListInv /\ Done
  BY <1>0, Types, Zenon DEF IInv, CheckInv
<1>b. PICK S \in SUBSET Users : list' = Counted(today, S)
  BY UsersAre, Zenon DEF wk_init
<1>c. list' \in [Users -> NotCounted..MaxLog] /\ \A u \in Users : list'[u] \in {list[u], raw[u][today]}
  BY <1>a, <1>b, CountedIs, Zenon DEF Typed
<1>d. list = NoList /\ mday = 0 /\ sums = NoSums
  BY <1>0, <1>a, Zenon DEF ListInv, Saving
<1>1. TypeOK'
  <2>1. ticked' \in BOOLEAN /\ present' \in BOOLEAN
    BY <1>0, Zenon
  <2>2. histroy' \in 0..GMT_REVERS_MASK + 1 /\ list_day' \in Days
    BY <1>0, <1>a, RevToday
  <2> QED
    BY <1>0, <1>a, <1>c, <2>1, <2>2, Zenon DEF TypeOK
<1>2. LogInv' /\ CalcInv' /\ PastInv' /\ GroupInv'
  BY <1>0, <1>a, LogStays, CalcStays, PastStays, GroupStays, Zenon DEF IInv
<1>3. ListInv'
  <2>1. \A u \in Users : list[u] = -1
    BY <1>d, Zenon DEF NoList, NotCounted
  <2>2. \A u \in Users : raw[u][today] = logged[u][today] /\ logged[u][today] \in Nat
    BY <1>a, SMTT(30) DEF LogInv, Typed
  <2>3. \A u \in Users : list'[u] <= logged[u][today]
    BY <1>c, <2>1, <2>2
  <2>4. Done'
    BY <1>0, <1>a, DoneStays, Zenon
  <2>5. today # today - 1
    BY <1>a DEF Typed
  <2> QED
    BY <1>0, <1>d, <2>3, <2>4, <2>5, Zenon DEF ListInv, Saving
<1>4. CheckInv' /\ RecountInv' /\ SaveInv'
  BY <1>0, Zenon DEF CheckInv, RecountInv, SaveInv, Checking, Saving
<1>5. CreditInv'
  BY <1>0, Zenon DEF IInv, CreditInv, CrossingCredited
<1>6. CountedInv'
  BY <1>0, SumStays, Zenon DEF IInv, CountedInv, Kept
<1> QED
  BY <1>1, <1>2, <1>3, <1>4, <1>5, <1>6, Zenon DEF IInv

-----------------------------------------------------------------------------
(* The save at 3 o'clock. *)

\* The order of the groups: all users first, then the groups with an entry.
LEMMA GroupOrder ==
  ASSUME NEW G \in SUBSET Groups, NEW s \in Orders(G)
  PROVE  /\ <<0>> \o s \in Seq(Users \cup Gids)
         /\ Range(<<0>> \o s) = {0} \cup G
<1>2. s \in Seq(G) /\ Range(s) = G
  BY OrdersAre, Zenon
<1>3. <<0>> \in Seq(Gids) /\ s \in Seq(Gids)
  BY <1>2 DEF Gids
<1>4. PICK t : t = <<0>> \o s
  BY Zenon
<1>5. t \in Seq(Gids) /\ Len(s) \in Nat /\ DOMAIN s = 1..Len(s) /\ DOMAIN t = 1..Len(s)+1
  BY <1>3, <1>4
<1>6. t[1] = 0 /\ \A k \in 1..Len(s) : t[k + 1] = s[k]
  BY <1>3, <1>4
<1>7. Range(t) \subseteq {0} \cup G
  <2>1. \A k \in 1..Len(s)+1 : k = 1 \/ (k - 1 \in 1..Len(s) /\ t[k] = s[k - 1])
    BY <1>5, <1>6
  <2>2. \A k \in 1..Len(s) : s[k] \in G
    BY <1>2, <1>5, Zenon DEF Range
  <2>3. \A k \in 1..Len(s)+1 : t[k] \in {0} \cup G
    BY <1>6, <2>1, <2>2, Zenon
  <2> QED
    BY <1>5, <2>3, Zenon DEF Range
<1>8. {0} \cup G \subseteq Range(t)
  <2>1. 1 \in 1..Len(s)+1 /\ \A k \in 1..Len(s) : k + 1 \in 1..Len(s)+1
    BY <1>5
  <2>2. 0 \in Range(t)
    BY <1>5, <1>6, <2>1, Zenon DEF Range
  <2>3. ASSUME NEW h \in G PROVE h \in Range(t)
    <3>1. PICK k \in 1..Len(s) : h = s[k]
      BY <1>2, <1>5, Zenon DEF Range
    <3>2. k + 1 \in DOMAIN t /\ t[k + 1] = h
      BY <1>5, <1>6, <2>1, <3>1, Zenon
    <3> QED
      BY <3>2, Zenon DEF Range
  <2> QED
    BY <2>2, <2>3, Zenon
<1> QED
  BY <1>4, <1>5, <1>7, <1>8

\* Saving a listed user completes its summary; no group's time reaches yesterday yet.
LEMMA save_user_IInv ==
  ASSUME IInv, ww_save_all_user_calc_act_to_db
  PROVE  IInv'
<1>p. PICK u : u = Head(todo)
  BY Zenon
<1>q. PICK y : y = today - 1
  BY Zenon
<1>0. /\ pc = "save_user"
      /\ UNCHANGED <<today, phase, ticked, an_group_list, raw, cross, out, group_calc, group_time,
                     histroy, list, list_day, mday, logged, present, skipped, crashes>>
  BY Zenon DEF ww_save_all_user_calc_act_to_db, clock, history
<1>a. TypeOK /\ Typed /\ CalcInv /\ PastInv /\ ListInv /\ GroupInv /\ CountedInv /\ SaveInv
  BY Types, Zenon DEF IInv
<1>b. /\ phase = "day" /\ list_day = y /\ Filled /\ pc \in Saving
      /\ todo \in Seq(Users \cup Gids) /\ sums \in [Gids -> [Users -> NotCounted..MaxLog]]
  BY <1>0, <1>a, <1>q, Zenon DEF ListInv, Saving, TypeOK
<1>c. /\ \A v \in Users : raw[v][y] = logged[v][y]
      /\ \A v \in Users \ Listed : user_calc[v][y] = NotCounted
      /\ \A g \in Gids, v \in Users : sums[g][v] # NotCounted => sums[g][v] = list[v] /\ g \in {group_of[v], 0}
      /\ \A g \in OG, d \in Days : Kept(d) /\ d # y => InSum(g, d)
      /\ Range(todo) \subseteq Listed
      /\ \A v \in Listed \ Range(todo) :
              /\ user_calc[v][y] = list[v] /\ user_time[v] = Rev(y)
              /\ \A g \in {group_of[v], 0} : sums[g][v] = list[v]
      /\ \A g \in OG : group_time[g] > Rev(y)
  BY <1>0, <1>a, <1>q, Zenon DEF SaveInv
<1>d. /\ y \in Days /\ y \in Nat /\ today \in Nat /\ y < today /\ Rev(y) \in Nat /\ Rev(y) > 0
      /\ today' - 1 = y /\ today' = today
  BY <1>0, <1>a, <1>q, SMTT(30) DEF Typed
<1>e. Listed' = Listed /\ (Filled' <=> Filled) /\ Listed \subseteq Users
  BY <1>0, UsersAre, Zenon DEF Listed, Filled
<1>f. LogInv'
  BY <1>0, LogStays, ZenonT(30) DEF IInv
<1>g. \A g \in OG : group_time[g] # 0 /\ group_time[g] \in Int /\ ~(group_time[g] <= Rev(y))
  BY <1>a, <1>c, <1>d, SMTT(30) DEF Typed
<1>1. CASE /\ todo = <<>> /\ pc' = "save_group"
           /\ \E s \in Orders({g \in Groups : \E v \in Users : sums[g][v] # NotCounted}) :
                todo' = <<0>> \o s
           /\ UNCHANGED <<sums, user_calc, user_time>>
  <2>1. /\ todo' \in Seq(Users \cup Gids)
        /\ Range(todo') = {0} \cup {g \in Groups : \E v \in Users : sums[g][v] # NotCounted}
    BY <1>1, GroupOrder, Zenon
  <2>2. Range(todo) = {}
    BY <1>1, RangeEmpty, Zenon
  <2>3. TypeOK'
    BY <1>0, <1>1, <1>a, <2>1, Zenon DEF TypeOK
  <2>4. CalcInv' /\ PastInv' /\ GroupInv'
    BY <1>0, <1>1, <1>a, CalcStays, PastStays, GroupStays, Zenon
  <2>5. ListInv'
    BY <1>0, <1>1, <1>a, <1>b, <1>d, <1>e, <1>q, Zenon DEF ListInv, Saving
  <2>6. CheckInv' /\ CountedInv' /\ RecountInv'
    BY <1>1, Zenon DEF CheckInv, CountedInv, RecountInv, Checking
  <2>7. CreditInv'
    BY <1>0, <1>1, ZenonT(30) DEF IInv, CreditInv, CrossingCredited
  <2>8. SaveInv'
    <3>1. \A v \in Listed : /\ user_calc[v][y] = list[v] /\ user_time[v] = Rev(y)
                            /\ \A g \in {group_of[v], 0} : sums[g][v] = list[v]
      BY <1>c, <2>2, Zenon
    <3>2. ASSUME NEW g \in OG PROVE InSum(g, y) \/ g \in Range(todo')
      <4> SUFFICES ASSUME g \notin Range(todo'), NEW v \in Users,
                          g \in {group_of[v], 0}, user_calc[v][y] # NotCounted
                   PROVE  FALSE
        BY Zenon DEF InSum
      <4>1. v \in Listed
        BY <1>c, Zenon
      <4>2. sums[g][v] # NotCounted
        BY <3>1, <4>1, Zenon DEF Listed
      <4>3. g \in Groups
        BY <1>a, <2>1, Zenon DEF Typed, Gids
      <4> QED
        BY <2>1, <4>2, <4>3, Zenon
    <3>3. Range(todo') \subseteq Gids
      BY <2>1, Zenon DEF Gids
    <3>4. \A g \in Range(todo') : g = 0 \/ \E v \in Users : sums[g][v] # NotCounted
      BY <2>1, Zenon
    <3>5. /\ \A g \in OG, d \in Days : Kept(d)' /\ d # y => InSum(g, d)'
          /\ \A g \in OG : InSum(g, y)' \/ g \in Range(todo')
      BY <1>0, <1>1, <1>c, <3>2, SumStays, Zenon DEF Kept
    <3>6. sums' = sums /\ user_calc' = user_calc /\ user_time' = user_time /\ raw' = raw
          /\ logged' = logged /\ list' = list /\ group_time' = group_time
      BY <1>0, <1>1, ZenonT(30)
    <3>7. /\ pc' = "save_group" /\ pc' \notin {"save_user", "del_raw", "reload"}
          /\ \A g \in OG : group_time'[g] # 0 /\ group_time'[g] > Rev(y)
      BY <1>1, <1>c, <1>g, <3>6, ZenonT(30)
    <3> QED
      BY <1>c, <1>d, <1>e, <3>1, <3>3, <3>4, <3>5, <3>6, <3>7, ZenonT(30) DEF SaveInv, Saving
  <2> QED
    BY <1>1, <1>f, <2>3, <2>4, <2>5, <2>6, <2>7, <2>8, Zenon DEF IInv
<1>2. CASE /\ todo # <<>> /\ todo' = Tail(todo) /\ pc' = pc
           /\ sums' = [g \in Gids |-> IF g \in {group_of[u], 0}
                                      THEN [sums[g] EXCEPT ![u] = list[u]] ELSE sums[g]]
           /\ user_calc' = [user_calc EXCEPT ![u][list_day] = list[u]]
           /\ user_time' = [user_time EXCEPT ![u] = Rev(list_day)]
  <2>1. /\ u \in Listed /\ todo' \in Seq(Users \cup Gids) /\ Range(todo') \subseteq Range(todo)
        /\ \A x \in Range(todo) : x = u \/ x \in Range(todo')
    BY <1>2, <1>b, <1>c, <1>p, TakeHead, Zenon
  <2>2. u \in Users /\ list[u] = logged[u][y] /\ list[u] # NotCounted /\ list[u] \in NotCounted..MaxLog
    BY <1>b, <1>q, <2>1, ListedIs, Zenon
  <2>3. /\ user_calc' \in [Users -> [Days -> NotCounted..MaxLog]]
        /\ user_calc'[u][y] = list[u]
        /\ \A v \in Users, d \in Days : v # u \/ d # y => user_calc'[v][d] = user_calc[v][d]
    <3>1. user_calc \in [Users -> [Days -> NotCounted..MaxLog]]
      BY <1>a, Zenon DEF TypeOK
    <3> QED
      BY <1>2, <1>b, <1>d, <2>2, <3>1, Except2, Zenon
  <2>4. /\ user_time' \in [Users -> {NotFound} \cup {Rev(d) : d \in Days}]
        /\ user_time'[u] = Rev(y) /\ \A v \in Users \ {u} : user_time'[v] = user_time[v]
    <3>1. user_time \in [Users -> {NotFound} \cup {Rev(d) : d \in Days}]
      BY <1>a, Zenon DEF TypeOK
    <3> QED
      BY <1>2, <1>b, <1>d, <2>2, <3>1, Zenon
  <2>5. /\ sums' \in [Gids -> [Users -> NotCounted..MaxLog]]
        /\ \A g \in Gids, v \in Users : v # u => sums'[g][v] = sums[g][v]
        /\ \A g \in Gids : sums'[g][u] = IF g \in {group_of[u], 0} THEN list[u] ELSE sums[g][u]
    BY <1>2, <1>b, <2>2, Zenon
  <2>6. \A v \in Users : group_of[v] \in Gids /\ 0 \in Gids
    BY ConstantsAssumption, Zenon DEF Gids
  <2>7. TypeOK'
    BY <1>0, <1>2, <1>a, <2>1, <2>3, <2>4, <2>5, Zenon DEF TypeOK
  <2>8. CalcInv'
    <3>1. \A v \in Users, d \in Days : user_calc'[v][d] <= logged[v][d]
      <4>1. logged[u][y] \in Nat
        BY <1>a, <1>d, <2>2, Zenon DEF Typed
      <4>2. \A v \in Users, d \in Days : user_calc[v][d] <= logged[v][d]
        BY <1>a, Zenon DEF CalcInv
      <4> QED
        BY <2>2, <2>3, <4>1, <4>2, SMTT(30)
    <3>2. \A d \in Days : d >= today => d # y
      BY <1>a, <1>d, SMTT(30) DEF Typed
    <3>3. \A v \in Users, d \in Days : d >= today => user_calc'[v][d] = NotCounted
      BY <1>a, <2>3, <3>2, ZenonT(30) DEF CalcInv
    <3>4. \A v \in Users : user_time'[v] = NotFound \/ user_time'[v] >= Rev(y)
      BY <1>a, <1>d, <1>q, <2>4, SMTT(30) DEF CalcInv
    <3>5. \A v \in Users : user_time'[v] = Rev(y) => user_calc'[v][y] = logged[v][y]
      BY <1>a, <1>d, <1>q, <2>2, <2>3, <2>4, SMTT(30) DEF CalcInv
    <3>6. \A v \in Users : ~(raw[v][y] < logged[v][y])
      BY <1>a, <1>c, <1>d, SMTT(30) DEF Typed
    <3>7. raw' = raw /\ logged' = logged
      BY <1>0, Zenon
    <3> QED
      BY <1>d, <3>1, <3>3, <3>4, <3>5, <3>6, <3>7, ZenonT(30) DEF CalcInv
  <2>9. PastInv'
    <3>1. \A d \in Days : d < y => d # y
      BY <1>a, <1>d, SMTT(30) DEF Typed
    <3>2. Done => Done'
      BY <1>0, <1>d, <1>q, <2>2, <2>3, ZenonT(30) DEF Done
    <3>3. \A d \in Days : Kept(d)' => Kept(d)
      BY <1>0, Zenon DEF Kept
    <3>4. \A v \in Users, d \in Days : d < y => user_calc'[v][d] = user_calc[v][d]
      BY <2>3, <3>1, Zenon
    <3>5. logged' = logged /\ skipped' = skipped /\ present' = present
      BY <1>0, Zenon
    <3> QED
      BY <1>a, <1>d, <1>q, <3>2, <3>3, <3>4, <3>5, ZenonT(30) DEF PastInv
  <2>10. ListInv'
    BY <1>0, <1>2, <1>a, <1>b, <1>d, <1>e, <1>q, Zenon DEF ListInv, Saving
  <2>11. \A g \in OG, d \in Days : d # y => (InSum(g, d)' <=> InSum(g, d))
    <3>1. group_calc' = group_calc
      BY <1>0, Zenon
    <3>2. \A v \in Users, d \in Days : d # y => user_calc'[v][d] = user_calc[v][d]
      BY <2>3, Zenon
    <3> QED
      BY <3>1, <3>2, Zenon DEF InSum
  <2>12. GroupInv'
    <3>1. GroupUpToDate'
      <4>1. \A v \in Users, d \in Days : d # y => user_calc'[v][d] = user_calc[v][d]
        BY <2>3, Zenon
      <4>2. group_calc' = group_calc /\ group_time' = group_time
        BY <1>0, Zenon
      <4>3. \A d \in Days : Kept(d)' => Kept(d)
        BY <1>0, Zenon DEF Kept
      <4> SUFFICES ASSUME NEW v \in Users, NEW d \in Days, NEW g \in {group_of[v], 0},
                          Kept(d), g \in OG, group_time[g] > 0, group_time[g] <= Rev(d),
                          user_calc'[v][d] # NotCounted
                   PROVE  group_calc[g][d][v] = user_calc'[v][d]
        BY <4>2, <4>3, Zenon DEF GroupUpToDate, OG
      <4>4. d # y
        BY <1>g, Zenon
      <4> QED
        BY <1>a, <4>1, <4>4, SMTT(30) DEF GroupInv, GroupUpToDate, OG
    <3>2. group_time' = group_time
      BY <1>0, Zenon
    <3> QED
      BY <1>a, <1>d, <1>g, <3>1, <3>2, ZenonT(30) DEF GroupInv
  <2>13. CheckInv' /\ CountedInv' /\ RecountInv'
    BY <1>0, <1>2, <1>a, Zenon DEF CheckInv, CountedInv, RecountInv, Checking
  <2>14. CreditInv'
    BY <1>0, <1>2, Zenon DEF IInv, CreditInv, CrossingCredited
  <2>15. SaveInv'
    <3>1. \A v \in Users \ Listed : user_calc'[v][y] = NotCounted
      BY <1>c, <1>d, <2>1, <2>3, ZenonT(30)
    <3>2. \A g \in Gids, v \in Users : sums'[g][v] # NotCounted => sums'[g][v] = list[v] /\ g \in {group_of[v], 0}
      <4> SUFFICES ASSUME NEW g \in Gids, NEW v \in Users, sums'[g][v] # NotCounted
                   PROVE  sums'[g][v] = list[v] /\ g \in {group_of[v], 0}
        BY Zenon
      <4>1. CASE v = u
        <5>1. g \in {group_of[u], 0} \/ (sums[g][u] # NotCounted /\ sums'[g][u] = sums[g][u])
          BY <2>5, <4>1, Zenon
        <5> QED
          BY <1>c, <2>2, <2>5, <4>1, <5>1, Zenon
      <4>2. CASE v # u
        <5>1. sums'[g][v] = sums[g][v]
          BY <2>5, <4>2, Zenon
        <5> QED
          BY <1>c, <5>1, Zenon
      <4> QED
        BY <4>1, <4>2, Zenon
    <3>3. \A g \in OG, d \in Days : Kept(d)' /\ d # y => InSum(g, d)'
      BY <1>0, <1>c, <2>11, Zenon DEF Kept
    <3>4. ASSUME NEW v \in Listed \ Range(todo')
          PROVE  /\ user_calc'[v][y] = list[v] /\ user_time'[v] = Rev(y)
                 /\ \A g \in {group_of[v], 0} : sums'[g][v] = list[v]
      <4>1. CASE v = u
        BY <2>2, <2>3, <2>4, <2>5, <2>6, <4>1, ZenonT(30)
      <4>2. CASE v # u
        <5>1. v \in Listed \ Range(todo) /\ v \in Users
          BY <1>e, <2>1, <3>4, <4>2, Zenon
        <5>2. /\ user_calc[v][y] = list[v] /\ user_time[v] = Rev(y)
              /\ \A g \in {group_of[v], 0} : sums[g][v] = list[v]
          BY <1>c, <5>1, Zenon
        <5> QED
          BY <1>d, <2>3, <2>4, <2>5, <2>6, <4>2, <5>1, <5>2, SMTT(30)
      <4> QED
        BY <4>1, <4>2, Zenon
    <3>5. raw' = raw /\ logged' = logged /\ list' = list /\ group_time' = group_time /\ pc' = "save_user"
      BY <1>0, <1>2, Zenon
    <3>6. Range(todo') \subseteq Listed
      BY <1>c, <2>1, Zenon
    <3> QED
      BY <1>c, <1>d, <1>e, <3>1, <3>2, <3>3, <3>4, <3>5, <3>6, Zenon DEF SaveInv, Saving
  <2> QED
    BY <1>f, <2>7, <2>8, <2>9, <2>10, <2>12, <2>13, <2>14, <2>15, Zenon DEF IInv
<1> QED
  BY <1>1, <1>2, <1>p, Zenon DEF ww_save_all_user_calc_act_to_db

\* Saving a group completes its summary of yesterday; only with an empty list
\* the time of all users becomes 0.
LEMMA save_group_IInv ==
  ASSUME IInv, ww_save_all_group_calc_act_to_db
  PROVE  IInv'
<1>p. PICK g : g = Head(todo)
  BY Zenon
<1>q. PICK y : y = today - 1
  BY Zenon
<1>0. /\ pc = "save_group"
      /\ UNCHANGED <<today, phase, ticked, an_group_list, raw, cross, out, user_calc, user_time,
                     histroy, list, list_day, sums, mday, logged, present, skipped, crashes>>
  BY Zenon DEF ww_save_all_group_calc_act_to_db, clock, history
<1>a. TypeOK /\ Typed /\ CalcInv /\ ListInv /\ GroupInv /\ SaveInv
  BY Types, Zenon DEF IInv
<1>b. /\ list_day = y /\ todo \in Seq(Users \cup Gids)
      /\ sums \in [Gids -> [Users -> NotCounted..MaxLog]]
      /\ group_calc \in [Gids -> [Days -> [Users -> NotCounted..MaxLog]]]
      /\ group_time \in [Gids -> {NotFound, 0} \cup {Rev(d) : d \in -1..LastDay}]
  BY <1>0, <1>a, <1>q, Zenon DEF ListInv, Saving, TypeOK
<1>c. /\ \A v \in Users \ Listed : user_calc[v][y] = NotCounted
      /\ \A h \in OG, d \in Days : Kept(d) /\ d # y => InSum(h, d)
      /\ \A v \in Listed : user_calc[v][y] = list[v] /\ user_time[v] = Rev(y)
      /\ \A h \in OG : group_time[h] = 0 => Listed = {}
      /\ Range(todo) \subseteq Gids
      /\ \A h \in Range(todo) : h = 0 \/ \E v \in Users : sums[h][v] # NotCounted
      /\ \A v \in Listed : \A h \in {group_of[v], 0} : sums[h][v] = list[v]
      /\ \A h \in OG : InSum(h, y) \/ (h \in Range(todo) /\ group_time[h] > Rev(y))
  BY <1>0, <1>a, <1>q, Zenon DEF SaveInv, Saving
<1>d. /\ y \in Days /\ y \in Nat /\ today \in Nat /\ Rev(y) \in Nat /\ Rev(y) > 0
      /\ today' - 1 = y /\ today' = today
  BY <1>0, <1>a, <1>q, Zenon DEF Typed
<1>e. Listed' = Listed /\ (Filled' <=> Filled) /\ Listed \subseteq Users
  BY <1>0, UsersAre, Zenon DEF Listed, Filled
<1>f. LogInv' /\ CalcInv' /\ PastInv'
  BY <1>0, LogStays, CalcStays, PastStays, Zenon DEF IInv
<1>g. \A d \in Days : Kept(d)' <=> Kept(d)
  BY <1>0, Zenon DEF Kept
<1>h. \A v \in Listed : list[v] # NotCounted
  BY Zenon DEF Listed
<1>1. CASE todo = <<>> /\ pc' = "del_raw" /\ UNCHANGED <<todo, group_calc, group_time>>
  <2>1. TypeOK'
    BY <1>0, <1>1, <1>a, Zenon DEF TypeOK
  <2>2. GroupInv'
    BY <1>0, <1>1, <1>a, GroupStays, Zenon
  <2>3. ListInv'
    BY <1>0, <1>1, <1>a, <1>b, <1>d, <1>e, <1>q, Zenon DEF ListInv, Saving
  <2>4. CheckInv' /\ RecountInv'
    BY <1>1, Zenon DEF CheckInv, RecountInv, Checking
  <2>5. CreditInv'
    BY <1>0, <1>1, Zenon DEF IInv, CreditInv, CrossingCredited
  <2>6. CountedInv'
    <3>1. Range(todo) = {}
      BY <1>1, RangeEmpty, Zenon
    <3>2. \A h \in OG, d \in Days : Kept(d) => InSum(h, d)
      BY <1>c, <3>1, Zenon
    <3>3. \A h \in OG, d \in Days : Kept(d)' => InSum(h, d)'
      BY <1>0, <1>1, <1>g, <3>2, SumStays, Zenon
    <3> QED
      BY <1>1, <3>3, Zenon DEF CountedInv
  <2>7. SaveInv'
    <3>1. \A v \in Users : raw[v][y] = logged[v][y]
      BY <1>0, <1>a, <1>q, Zenon DEF SaveInv
    <3>2. raw' = raw /\ logged' = logged /\ list' = list /\ group_time' = group_time
          /\ user_calc' = user_calc /\ user_time' = user_time
      BY <1>0, <1>1, Zenon
    <3> QED
      BY <1>1, <1>c, <1>d, <1>e, <3>1, <3>2, Zenon DEF SaveInv, Saving
  <2> QED
    BY <1>f, <2>1, <2>2, <2>3, <2>4, <2>5, <2>6, <2>7, Zenon DEF IInv
<1>2. CASE /\ todo # <<>> /\ todo' = Tail(todo) /\ pc' = pc
           /\ IF \E v \in Users : sums[g][v] # NotCounted
              THEN /\ group_calc' = [group_calc EXCEPT ![g][list_day] = sums[g]]
                   /\ group_time' = [group_time EXCEPT ![g] = Rev(list_day)]
              ELSE /\ group_time' = [group_time EXCEPT ![g] = 0]
                   /\ UNCHANGED group_calc
  <2>1. /\ g \in Gids /\ g \in Range(todo) /\ todo' \in Seq(Users \cup Gids)
        /\ Range(todo') \subseteq Range(todo)
        /\ \A h \in Range(todo) : h = g \/ h \in Range(todo')
    BY <1>2, <1>b, <1>c, <1>p, TakeHead, Zenon
  <2>2. ASSUME NEW v \in Users, g \in {group_of[v], 0}, user_calc[v][y] # NotCounted
        PROVE  sums[g][v] = user_calc[v][y]
    <3>1. v \in Listed
      BY <1>c, <2>2, Zenon
    <3> QED
      BY <1>c, <2>2, <3>1, Zenon
  <2>3. /\ group_calc' \in [Gids -> [Days -> [Users -> NotCounted..MaxLog]]]
        /\ \A h \in Gids, d \in Days : h # g \/ d # y => group_calc'[h][d] = group_calc[h][d]
        /\ \A v \in Users : g \in {group_of[v], 0} /\ user_calc[v][y] # NotCounted
                            => group_calc'[g][y][v] = user_calc[v][y]
    <3>1. CASE \E v \in Users : sums[g][v] # NotCounted
      <4>1. group_calc' = [group_calc EXCEPT ![g][y] = sums[g]]
        BY <1>2, <1>b, <3>1, Zenon
      <4>2. sums[g] \in [Users -> NotCounted..MaxLog]
        BY <1>b, <2>1, ZenonT(30)
      <4>3. /\ group_calc' \in [Gids -> [Days -> [Users -> NotCounted..MaxLog]]]
            /\ group_calc'[g][y] = sums[g]
            /\ \A h \in Gids, d \in Days : h # g \/ d # y => group_calc'[h][d] = group_calc[h][d]
        BY <1>b, <1>d, <2>1, <4>1, <4>2, Except2, SMTT(30)
      <4> QED
        BY <2>2, <4>3, Zenon
    <3>2. CASE ~ \E v \in Users : sums[g][v] # NotCounted
      <4>1. group_calc' = group_calc
        BY <1>2, <3>2, Zenon
      <4>2. \A v \in Users : sums[g][v] = NotCounted
        BY <3>2, Zenon
      <4> QED
        BY <1>b, <2>2, <4>1, <4>2, Zenon
    <3> QED
      BY <3>1, <3>2, Zenon
  <2>4. /\ group_time' \in [Gids -> {NotFound, 0} \cup {Rev(d) : d \in -1..LastDay}]
        /\ \A h \in Gids \ {g} : group_time'[h] = group_time[h]
        /\ group_time'[g] \in {0, Rev(y)}
        /\ group_time'[g] = 0 => Listed = {}
    <3>0. y \in -1..LastDay /\ 0 # Rev(y)
      BY <1>d, ConstantsAssumption DEF Days
    <3>1. CASE \E v \in Users : sums[g][v] # NotCounted
      <4>1. group_time' = [group_time EXCEPT ![g] = Rev(y)]
        BY <1>2, <1>b, <3>1, Zenon
      <4> QED
        BY <1>b, <2>1, <3>0, <4>1, Zenon
    <3>2. CASE ~ \E v \in Users : sums[g][v] # NotCounted
      <4>1. group_time' = [group_time EXCEPT ![g] = 0]
        BY <1>2, <3>2, Zenon
      <4>2. g = 0
        BY <1>c, <2>1, <3>2, Zenon
      <4>3. Listed = {}
        BY <1>c, <1>e, <1>h, <3>2, <4>2, Zenon
      <4> QED
        BY <1>b, <2>1, <4>1, <4>3, Zenon
    <3> QED
      BY <3>1, <3>2, Zenon
  <2>5. TypeOK'
    BY <1>0, <1>2, <1>a, <2>1, <2>3, <2>4, ZenonT(30) DEF TypeOK
  <2>6. /\ \A h \in OG, d \in Days : h # g \/ d # y => (InSum(h, d)' <=> InSum(h, d))
        /\ InSum(g, y)'
    <3>1. user_calc' = user_calc
      BY <1>0, Zenon
    <3> QED
      BY <1>a, <2>3, <3>1, SMTT(30) DEF InSum, Typed
  <2>7. \A h \in OG, d \in Days : Kept(d) /\ (d # y \/ h = g) => InSum(h, d)'
    BY <1>c, <2>6, Zenon
  <2>8. GroupInv'
    <3>1. \A h \in Gids : group_time'[h] \in {NotFound, 0} \/ group_time'[h] >= Rev(y)
      BY <1>a, <1>d, <1>q, <2>4, SMTT(30) DEF GroupInv
    <3>2. \A h \in OG : group_time'[h] # NotFound
      <4>1. NotFound # 0 /\ NotFound # Rev(y)
        BY <1>d DEF NotFound
      <4> QED
        BY <1>a, <2>4, <4>1, Zenon DEF GroupInv, Typed
    <3>3. \A h \in OG : group_time'[h] = 0 => \A d \in Days : Kept(d) => InSum(h, d)'
      BY <1>a, <2>4, <2>6, <2>7, Zenon DEF GroupInv, Typed
    <3>4. ASSUME NEW h \in OG, NEW d \in Days, Kept(d), group_time'[h] > 0, group_time'[h] <= Rev(d)
          PROVE  InSum(h, d)'
      <4>1. CASE h = g
        BY <2>7, <3>4, <4>1, Zenon
      <4>2. CASE h # g
        <5>1. group_time[h] > 0 /\ group_time[h] <= Rev(d)
          BY <1>a, <2>4, <3>4, <4>2, Zenon DEF Typed
        <5>2. InSum(h, d)
          BY <1>a, <3>4, <5>1, Zenon DEF GroupInv, GroupUpToDate, InSum, OG
        <5> QED
          BY <2>6, <4>2, <5>2, Zenon
      <4> QED
        BY <4>1, <4>2, Zenon
    <3>5. GroupUpToDate'
      BY <1>g, <3>4, Zenon DEF GroupUpToDate, InSum, OG
    <3> QED
      BY <1>d, <1>g, <3>1, <3>2, <3>3, <3>5, ZenonT(30) DEF GroupInv
  <2>9. ListInv'
    BY <1>0, <1>2, <1>a, <1>b, <1>d, <1>e, <1>q, Zenon DEF ListInv, Saving
  <2>10. CheckInv' /\ CountedInv' /\ RecountInv'
    BY <1>0, <1>2, Zenon DEF CheckInv, CountedInv, RecountInv, Checking
  <2>11. CreditInv'
    BY <1>0, <1>2, ZenonT(30) DEF IInv, CreditInv, CrossingCredited
  <2>12. SaveInv'
    <3>1. /\ \A v \in Users : raw[v][y] = logged[v][y]
          /\ \A h \in Gids, v \in Users : sums[h][v] # NotCounted => sums[h][v] = list[v] /\ h \in {group_of[v], 0}
      BY <1>0, <1>a, <1>q, Zenon DEF SaveInv
    <3>2. raw' = raw /\ logged' = logged /\ list' = list /\ sums' = sums
          /\ user_calc' = user_calc /\ user_time' = user_time /\ pc' = "save_group"
      BY <1>0, <1>2, Zenon
    <3>3. \A h \in OG, d \in Days : Kept(d)' /\ d # y => InSum(h, d)'
      BY <1>g, <2>7, Zenon
    <3>4. \A h \in OG : group_time'[h] = 0 => Listed = {}
      BY <1>a, <1>c, <2>4, Zenon DEF Typed
    <3>5. \A h \in OG : InSum(h, y)' \/ (h \in Range(todo') /\ group_time'[h] > Rev(y))
      BY <1>a, <1>c, <1>d, <2>1, <2>4, <2>6, Zenon DEF Typed
    <3>6. /\ Range(todo') \subseteq Gids
          /\ \A h \in Range(todo') : h = 0 \/ \E v \in Users : sums[h][v] # NotCounted
      BY <1>c, <2>1, Zenon
    <3> QED
      BY <1>c, <1>d, <1>e, <3>1, <3>2, <3>3, <3>4, <3>5, <3>6, ZenonT(30) DEF SaveInv, Saving
  <2> QED
    BY <1>f, <2>5, <2>8, <2>9, <2>10, <2>11, <2>12, Zenon DEF IInv
<1> QED
  BY <1>1, <1>2, <1>p, Zenon DEF ww_save_all_group_calc_act_to_db

\* Only records of saved users and days are deleted.
LEMMA del_raw_IInv ==
  ASSUME IInv, ww_del_all_dynamic_data
  PROVE  IInv'
<1>0. /\ pc = "del_raw" /\ pc' = "del_old"
      /\ UNCHANGED <<today, phase, ticked, an_group_list, cross, out, user_calc, user_time,
                     group_calc, group_time, todo, histroy, list, list_day, sums, mday, logged,
                     present, skipped, crashes>>
  BY Zenon DEF ww_del_all_dynamic_data, clock, history
<1>a. TypeOK /\ Typed /\ LogInv /\ CalcInv /\ SaveInv /\ raw \in [Users -> [Days -> 0..MaxLog]]
  BY Types, Zenon DEF IInv, TypeOK
<1>b. PICK kept : raw' = [u \in Users |-> [d \in Days |->
                            IF u \in Listed /\ d < today /\ <<u, d>> \notin kept
                            THEN 0 ELSE raw[u][d]]]
  BY Zenon DEF ww_del_all_dynamic_data
<1>c. \A u \in Users, d \in Days : raw'[u][d] = raw[u][d] \/ (raw'[u][d] = 0 /\ u \in Listed /\ d < today)
  BY <1>b, Zenon
<1>d. raw' \in [Users -> [Days -> 0..MaxLog]]
  <2>1. 0 \in 0..MaxLog
    BY ConstantsAssumption
  <2> QED
    BY <1>a, <1>b, <2>1, Zenon
<1>e. Existing' = Existing /\ Listed' = Listed /\ (Filled' <=> Filled)
  BY <1>0, Zenon DEF Existing, Listed, Filled
<1>1. TypeOK'
  BY <1>0, <1>a, <1>d, Zenon DEF TypeOK
<1>2. LogInv'
  <2>1. \A u \in Users, d \in Days : raw[u][d] \in Nat /\ logged[u][d] \in Nat /\ raw[u][d] <= logged[u][d]
    BY <1>a, Zenon DEF LogInv, Typed
  <2>2. \A u \in Users, d \in Days : raw'[u][d] <= logged[u][d]
    BY <1>c, <2>1
  <2>3. \A d \in Days : d >= today => ~(d < today)
    <3>1. today \in Nat /\ \A d \in Days : d \in Nat
      BY <1>a, Zenon DEF Typed
    <3> QED
      BY <3>1
  <2>4. \A u \in Users, d \in Days : d >= today => raw'[u][d] = logged[u][d]
    BY <1>a, <1>c, <2>3, Zenon DEF LogInv
  <2> QED
    BY <1>0, <1>a, <1>e, <2>2, <2>4, Zenon DEF LogInv
<1>3. CalcInv'
  <2>1. \A u \in Listed : user_time[u] = Rev(today - 1)
    BY <1>0, <1>a, Zenon DEF SaveInv, Saving
  <2>2. \A u \in Users : raw'[u][today - 1] < logged[u][today - 1] => user_time[u] = Rev(today - 1)
    BY <1>a, <1>c, <2>1, Zenon DEF CalcInv, Typed
  <2> QED
    BY <1>0, <1>a, <2>2, Zenon DEF CalcInv
<1>4. PastInv' /\ GroupInv'
  BY <1>0, PastStays, GroupStays, Zenon DEF IInv
<1>5. ListInv'
  BY <1>0, <1>e, Zenon DEF IInv, ListInv, Saving
<1>6. CheckInv' /\ RecountInv'
  BY <1>0, Zenon DEF CheckInv, RecountInv, Checking
<1>7. CreditInv'
  BY <1>0, Zenon DEF IInv, CreditInv, CrossingCredited
<1>8. CountedInv'
  BY <1>0, SumStays, Zenon DEF IInv, CountedInv, Kept
<1>9. SaveInv'
  BY <1>0, <1>a, <1>e, Zenon DEF SaveInv, Saving
<1> QED
  BY <1>1, <1>2, <1>3, <1>4, <1>5, <1>6, <1>7, <1>8, <1>9, Zenon DEF IInv

\* Only summaries past their keeping time are deleted; with an empty list the
\* program ends here.
LEMMA del_old_IInv ==
  ASSUME IInv, ww_del_all_analyzer_data
  PROVE  IInv'
<1>0. /\ pc = "del_old"
      /\ UNCHANGED <<today, phase, ticked, an_group_list, raw, cross, out, user_time, group_time,
                     logged, present, skipped, crashes>>
  BY Zenon DEF ww_del_all_analyzer_data, clock, history
<1>a. /\ TypeOK /\ Typed /\ CalcInv /\ PastInv /\ GroupInv
      /\ user_calc \in [Users -> [Days -> NotCounted..MaxLog]]
      /\ group_calc \in [Gids -> [Days -> [Users -> NotCounted..MaxLog]]]
  BY Types, Zenon DEF IInv, TypeOK
<1>b. PICK gone \in SUBSET {r \in Listed \X Days : r[2] < today - KeepDays} :
         user_calc' = [u \in Users |-> [d \in Days |->
                         IF <<u, d>> \in gone THEN NotCounted ELSE user_calc[u][d]]]
  BY Zenon DEF ww_del_all_analyzer_data
<1>c. PICK ggone \in SUBSET {r \in (Range(an_group_list) \cup {0}) \X Days :
                             r[2] < today - KeepDays} :
         group_calc' = [g \in Gids |-> [d \in Days |->
                          IF <<g, d>> \in ggone THEN NoList ELSE group_calc[g][d]]]
  BY Zenon DEF ww_del_all_analyzer_data
<1>d. \A d \in Days : d < today - KeepDays => ~Kept(d) /\ d < today - 1
  BY <1>a, PastKeeping, Zenon
<1>e. /\ NotCounted \in NotCounted..MaxLog /\ NoList \in [Users -> NotCounted..MaxLog]
  <2>1. NotCounted \in NotCounted..MaxLog
    BY ConstantsAssumption DEF NotCounted
  <2> QED
    BY <2>1, Zenon DEF NoList
<1>1. /\ user_calc' \in [Users -> [Days -> NotCounted..MaxLog]]
      /\ \A u \in Users, d \in Days :
           user_calc'[u][d] = user_calc[u][d] \/ (user_calc'[u][d] = NotCounted /\ d < today - KeepDays)
  BY <1>a, <1>b, <1>e, Zenon
<1>2. /\ group_calc' \in [Gids -> [Days -> [Users -> NotCounted..MaxLog]]]
      /\ \A g \in Gids, d \in Days :
           group_calc'[g][d] = group_calc[g][d] \/ d < today - KeepDays
  BY <1>a, <1>c, <1>e, Zenon
<1>3. \A u \in Users, d \in Days : Kept(d) => user_calc'[u][d] = user_calc[u][d]
  BY <1>1, <1>d, Zenon
<1>4. \A g \in Gids, d \in Days : Kept(d) => group_calc'[g][d] = group_calc[g][d]
  BY <1>2, <1>d, Zenon
<1>5. Kept(today - 1) /\ today - 1 \in Days /\ today' = today
  BY <1>0, <1>a, PastKeeping, Zenon DEF Typed
<1>6. \A d \in Days : Kept(d)' <=> Kept(d)
  BY <1>0, Zenon DEF Kept
<1>7. LogInv'
  BY <1>0, LogStays, Zenon DEF IInv
<1>8. CalcInv'
  <2>1. \A u \in Users, d \in Days : user_calc'[u][d] <= logged[u][d]
    <3>1. \A u \in Users, d \in Days : user_calc[u][d] <= logged[u][d] /\ logged[u][d] \in Nat
      BY <1>a, Zenon DEF CalcInv, Typed
    <3> QED
      BY <1>1, <3>1, SMTT(30) DEF NotCounted
  <2>2. \A u \in Users, d \in Days : d >= today => user_calc'[u][d] = NotCounted
    BY <1>1, <1>a, Zenon DEF CalcInv
  <2>3. \A u \in Users : user_calc'[u][today - 1] = user_calc[u][today - 1]
    BY <1>3, <1>5, Zenon
  <2> QED
    BY <1>0, <1>a, <2>1, <2>2, <2>3, Zenon DEF CalcInv
<1>9. Done' <=> Done
  BY <1>0, <1>3, <1>5, ZenonT(30) DEF Done
<1>10. PastInv'
  BY <1>0, <1>3, <1>6, <1>9, <1>a, ZenonT(30) DEF PastInv
<1>11. \A g \in OG, d \in Days : Kept(d) => (InSum(g, d)' <=> InSum(g, d))
  <2>1. OG \subseteq Gids
    BY <1>a, Zenon DEF Typed
  <2> QED
    BY <1>3, <1>4, <2>1, ZenonT(30) DEF InSum
<1>12. GroupInv'
  <2>1. \A u \in Users : group_of[u] \in Gids /\ 0 \in Gids
    BY ConstantsAssumption, Zenon DEF Gids
  <2>2. GroupUpToDate'
    <3>1. group_time' = group_time
      BY <1>0, Zenon
    <3> SUFFICES ASSUME NEW u \in Users, NEW d \in Days, NEW g \in {group_of[u], 0},
                        Kept(d), g \in Range(OldGroups) \cup {0},
                        group_time[g] > 0, group_time[g] <= Rev(d), user_calc'[u][d] # NotCounted
                 PROVE  group_calc'[g][d][u] = user_calc'[u][d]
      BY <1>6, <3>1, Zenon DEF GroupUpToDate
    <3>2. user_calc'[u][d] = user_calc[u][d] /\ group_calc'[g][d] = group_calc[g][d]
      BY <1>3, <1>4, <2>1, Zenon
    <3>3. group_calc[g][d][u] = user_calc[u][d]
      BY <1>a, <3>2, Zenon DEF GroupInv, GroupUpToDate
    <3> QED
      BY <3>2, <3>3, Zenon
  <2> QED
    BY <1>0, <1>6, <1>11, <1>a, <2>2, Zenon DEF GroupInv
<1>13. CASE Listed = {} /\ an_exit
  <2>1. TypeOK'
    BY <1>0, <1>1, <1>2, <1>13, <1>a, ExitTypes, Zenon DEF TypeOK
  <2>2. ListInv' /\ CheckInv' /\ CreditInv' /\ CountedInv' /\ RecountInv' /\ SaveInv'
    BY <1>0, <1>13, <1>a, Exited, Zenon DEF IInv
  <2> QED
    BY <1>7, <1>8, <1>10, <1>12, <2>1, <2>2, Zenon DEF IInv
<1>14. CASE Listed # {} /\ pc' = "reload" /\ UNCHANGED <<todo, histroy, list, list_day, sums, mday>>
  <2>0. Listed' = Listed /\ (Filled' <=> Filled) /\ Listed \subseteq Users
    BY <1>0, <1>14, UsersAre, Zenon DEF Listed, Filled
  <2>1. TypeOK'
    BY <1>0, <1>1, <1>2, <1>14, <1>a, Zenon DEF TypeOK
  <2>2. ListInv'
    BY <1>0, <1>14, <2>0, Zenon DEF IInv, ListInv, Saving
  <2>3. CheckInv' /\ RecountInv'
    BY <1>14, Zenon DEF CheckInv, RecountInv, Checking
  <2>4. CreditInv'
    BY <1>0, <1>14, Zenon DEF IInv, CreditInv, CrossingCredited
  <2>5. CountedInv'
    BY <1>0, <1>6, <1>11, <1>14, Zenon DEF IInv, CountedInv
  <2>6. SaveInv'
    <3>1. /\ \A u \in Listed : user_calc[u][today - 1] = list[u] /\ user_time[u] = Rev(today - 1)
          /\ \A g \in OG : group_time[g] = 0 => Listed = {}
      BY <1>0, Zenon DEF IInv, SaveInv, Saving
    <3>2. \A u \in Listed : user_calc'[u][today - 1] = user_calc[u][today - 1]
      BY <1>3, <1>5, <2>0, Zenon
    <3> QED
      BY <1>0, <1>14, <2>0, <3>1, <3>2, Zenon DEF SaveInv, Saving
  <2> QED
    BY <1>7, <1>8, <1>10, <1>12, <2>1, <2>2, <2>3, <2>4, <2>5, <2>6, Zenon DEF IInv
<1> QED
  BY <1>13, <1>14, Zenon DEF ww_del_all_analyzer_data

\* The save is over: yesterday is done and the lists begin with today.
LEMMA end_IInv ==
  ASSUME IInv, an_auto_data_save_end
  PROVE  IInv'
<1>0. /\ pc = "reload" /\ pc' = "run" /\ list_day' = today /\ sums' = NoSums /\ mday' = today
      /\ ticked' = TRUE /\ present' = TRUE
      /\ UNCHANGED <<today, phase, an_group_list, raw, cross, out, user_calc, user_time,
                     group_calc, group_time, todo, histroy, logged, skipped, crashes>>
  BY Zenon DEF an_auto_data_save_end, store
<1>a. TypeOK /\ Typed /\ LogInv /\ ListInv /\ SaveInv /\ CountedInv /\ pc \in Saving
  BY <1>0, Types, Zenon DEF IInv, Saving
<1>b. PICK S \in SUBSET Users :
        list' = [u \in Users |-> IF u \in S \cup Active(today) THEN raw[u][today] ELSE NotCounted]
  BY UsersAre, Zenon DEF an_auto_data_save_end
<1>c. today \in Nat /\ today \in Days /\ 1 <= today /\ today # today - 1
  BY <1>a, RevToday, SMTT(30)
<1>d. \A u \in Users : /\ raw[u][today] = logged[u][today] /\ logged[u][today] \in Nat
                       /\ raw[u][today] \in NotCounted..MaxLog
  <2>1. \A u \in Users : raw[u][today] = logged[u][today] /\ logged[u][today] \in Nat
    BY <1>a, <1>c, SMTT(30) DEF LogInv, Typed
  <2>2. \A u \in Users : raw[u][today] \in 0..MaxLog
    BY <1>a, <1>c DEF TypeOK
  <2> QED
    BY <2>1, <2>2, ConstantsAssumption, SMTT(30) DEF NotCounted
<1>e. NotCounted \in NotCounted..MaxLog /\ NotCounted = -1
  BY ConstantsAssumption, SMTT(30) DEF NotCounted
<1>f. list' \in [Users -> NotCounted..MaxLog] /\ \A u \in Users : list'[u] <= logged[u][today]
  BY <1>b, <1>d, <1>e, SMTT(30)
<1>g. Done
  <2>1. list_day = today - 1 /\ Filled
    BY <1>a, Zenon DEF ListInv
  <2> SUFFICES ASSUME NEW u \in Users, logged[u][today - 1] > 0
               PROVE  user_calc[u][today - 1] = logged[u][today - 1]
    BY Zenon DEF Done
  <2>2. list[u] = logged[u][today - 1] /\ logged[u][today - 1] \in Nat
    BY <1>a, <2>1, Zenon DEF Filled, Typed
  <2>3. u \in Listed
    BY <1>e, <2>2 DEF Listed
  <2> QED
    BY <1>0, <1>a, <2>2, <2>3, Zenon DEF SaveInv, Saving
<1>1. TypeOK'
  <2>1. ticked' \in BOOLEAN /\ present' \in BOOLEAN
    BY <1>0, Zenon
  <2>2. NoSums \in [Gids -> [Users -> NotCounted..MaxLog]]
    BY <1>e, Zenon DEF NoSums, NoList
  <2> QED
    BY <1>0, <1>a, <1>c, <1>f, <2>1, <2>2, Zenon DEF TypeOK
<1>2. LogInv' /\ CalcInv' /\ PastInv' /\ GroupInv'
  BY <1>0, <1>g, LogStays, CalcStays, PastStays, GroupStays, ZenonT(30) DEF IInv
<1>3. ListInv'
  <2>1. Done'
    BY <1>0, <1>g, DoneStays, Zenon
  <2> QED
    BY <1>0, <1>c, <1>f, <2>1, SMTT(30) DEF ListInv, Saving
<1>4. CheckInv' /\ RecountInv' /\ SaveInv'
  BY <1>0, Zenon DEF CheckInv, RecountInv, SaveInv, Checking, Saving
<1>5. CreditInv'
  BY <1>0, Zenon DEF IInv, CreditInv, CrossingCredited
<1>6. CountedInv'
  <2>1. \A g \in OG : group_time[g] # 0
    BY <1>0, <1>a, Zenon DEF SaveInv, Saving
  <2> QED
    BY <1>0, <1>a, <2>1, SumStays, Zenon DEF CountedInv, Kept
<1> QED
  BY <1>1, <1>2, <1>3, <1>4, <1>5, <1>6, Zenon DEF IInv

-----------------------------------------------------------------------------
(* The theorems. *)

\* Every step keeps the invariant.
LEMMA NextIInv == IInv /\ [Next]_vars => IInv'
<1> SUFFICES ASSUME IInv, [Next]_vars PROVE IInv'
  BY Zenon
<1>1. CASE \E u \in Users : log(u)
  BY <1>1, log_IInv, Zenon
<1>2. CASE \E g \in Groups : wk_user_group_add_cmd_do(g)
  BY <1>2, add_IInv, Zenon
<1>3. CASE midnight \/ three_o_clock \/ crash \/ al_parse_value_to_wk_task
  BY <1>3, midnight_IInv, three_o_clock_IInv, crash_IInv, parse_IInv, Zenon
<1>4. CASE startup
  BY <1>4, start_IInv, user_check_IInv, out_time_IInv, group_check_IInv, group_resave_IInv,
     load_IInv, Zenon DEF startup
<1>5. CASE an_auto_data_save
  BY <1>5, update_IInv, begin_IInv, save_user_IInv, save_group_IInv, del_raw_IInv, del_old_IInv,
     end_IInv, Zenon DEF an_auto_data_save
<1>6. CASE UNCHANGED vars
  BY <1>6, Stutters, Zenon
<1> QED
  BY <1>1, <1>2, <1>3, <1>4, <1>5, <1>6, Zenon DEF Next

\* The invariant of the daily statistics holds in every reachable state.
THEOREM Invariance == Spec => []IInv
BY InitIInv, NextIInv, PTL DEF Spec

\* Type correctness; in particular the times the check puts back stay within
\* one day of yesterday (ww_save_user_calc_act_to_db).
THEOREM TypeHolds == Spec => []TypeOK
<1>1. IInv => TypeOK
  BY Zenon DEF IInv
<1> QED
  BY <1>1, Invariance, PTL

\* ww_del_all_dynamic_data deletes a raw record only after the summary of its
\* user and day holds everything logged, whatever crashed before.
THEOREM SavedBeforeDeletedHolds == Spec => []SavedBeforeDeleted
<1>1. IInv => SavedBeforeDeleted
  <2> SUFFICES ASSUME IInv, NEW u \in Users, NEW d \in Days, raw[u][d] < logged[u][d]
               PROVE  d \in skipped \/ ~Kept(d) \/ user_calc[u][d] = logged[u][d]
    BY Zenon DEF SavedBeforeDeleted
  <2>a. Typed /\ LogInv /\ CalcInv /\ PastInv
    BY Types, Zenon DEF IInv
  <2>b. raw[u][d] \in Nat /\ logged[u][d] \in Nat /\ d \in Nat /\ today \in Nat
    BY <2>a, Zenon DEF Typed
  <2>1. logged[u][d] > 0
    BY <2>b, SMTT(30)
  <2>2. d < today
    BY <2>a, <2>b DEF LogInv
  <2>3. CASE d = today - 1
    BY <2>a, <2>3, Zenon DEF CalcInv
  <2>4. CASE d < today - 1
    BY <2>a, <2>1, <2>4, Zenon DEF PastInv
  <2> QED
    BY <2>b, <2>2, <2>3, <2>4, SMTT(30)
<1> QED
  BY <1>1, Invariance, PTL

\* A group known from the start whose stored time says a day is counted has
\* counted every summary its users have for that day.
THEOREM GroupUpToDateHolds == Spec => []GroupUpToDate
<1>1. IInv => GroupUpToDate
  BY Zenon DEF IInv, GroupInv
<1> QED
  BY <1>1, Invariance, PTL

\* A record is cut at midnight only after all three credits of resave_out_time.
THEOREM CrossingCreditedHolds == Spec => []CrossingCredited
<1>1. IInv => CrossingCredited
  BY Zenon DEF IInv, CreditInv
<1> QED
  BY <1>1, Invariance, PTL

\* No step lowers a summary that is still kept.
LEMMA NeverShrinksStep ==
  ASSUME IInv, [Next]_vars, NEW u \in Users, NEW d \in Days, Kept(d)
  PROVE  user_calc'[u][d] >= user_calc[u][d]
<1>a. TypeOK /\ Typed /\ CalcInv /\ ListInv /\ SaveInv
  BY Types, Zenon DEF IInv
<1>b. /\ user_calc[u][d] \in Int /\ user_calc[u][d] <= logged[u][d] /\ logged[u][d] \in Nat
      /\ user_calc \in [Users -> [Days -> NotCounted..MaxLog]]
      /\ today - 1 \in Days
  BY <1>a, Zenon DEF Typed, CalcInv, TypeOK
<1> SUFFICES user_calc'[u][d] = user_calc[u][d] \/ user_calc'[u][d] = logged[u][d]
  BY <1>b
<1>1. CASE user_calc' = user_calc
  BY <1>1, Zenon
<1>2. CASE ww_user_calc_action_save_check
  <2>p. PICK v : v = Head(todo)
    BY Zenon
  <2>0. pc = "check_user" /\ UNCHANGED <<today, logged, skipped, present>>
    BY <1>2, Zenon DEF ww_user_calc_action_save_check, clock, history
  <2>1. CASE user_calc' = user_calc
    BY <2>1, Zenon
  <2>2. CASE todo # <<>> /\ NeedsResave(v) /\ ww_save_user_calc_act_to_db(v, today - 1)
    <3>1. v \in Users
      BY <1>a, <2>0, <2>2, <2>p, TakeHead, UsersAre, Zenon DEF IInv, TypeOK, CheckInv, Checking
    <3>2. /\ user_calc'[v][today - 1] = logged[v][today - 1]
          /\ user_calc' = [user_calc EXCEPT ![v][today - 1] = raw[v][today - 1]]
      BY <2>0, <2>2, <3>1, save_user_calc, Zenon DEF ww_save_user_calc_act_to_db
    <3>3. u # v \/ d # today - 1 => user_calc'[u][d] = user_calc[u][d]
      BY <1>b, <3>1, <3>2, Zenon
    <3> QED
      BY <3>2, <3>3, Zenon
  <2> QED
    BY <1>2, <2>1, <2>2, <2>p, Zenon DEF ww_user_calc_action_save_check, store
<1>3. CASE ww_save_all_user_calc_act_to_db
  <2>p. PICK v : v = Head(todo)
    BY Zenon
  <2>0. pc = "save_user" /\ pc \in Saving
    BY <1>3, Zenon DEF ww_save_all_user_calc_act_to_db, Saving
  <2>1. CASE user_calc' = user_calc
    BY <2>1, Zenon
  <2>2. CASE todo # <<>> /\ user_calc' = [user_calc EXCEPT ![v][list_day] = list[v]]
    <3>0. todo \in Seq(Users \cup Gids) /\ Range(todo) \subseteq Listed /\ list_day = today - 1
      BY <1>a, <2>0, Zenon DEF TypeOK, SaveInv, ListInv
    <3>1. v \in Listed
      BY <2>2, <2>p, <3>0, TakeHead, Zenon
    <3>2. v \in Users /\ list[v] = logged[v][today - 1]
      BY <2>0, <3>1, ListedIs, Zenon
    <3>3. user_calc' = [user_calc EXCEPT ![v][today - 1] = logged[v][today - 1]]
      BY <2>2, <3>0, <3>2, Zenon
    <3> QED
      BY <1>b, <3>2, <3>3, Zenon
  <2> QED
    BY <1>3, <2>1, <2>2, <2>p, Zenon DEF ww_save_all_user_calc_act_to_db
<1>4. CASE ww_del_all_analyzer_data
  <2>1. PICK gone \in SUBSET {r \in Listed \X Days : r[2] < today - KeepDays} :
         user_calc' = [v \in Users |-> [e \in Days |->
                         IF <<v, e>> \in gone THEN NotCounted ELSE user_calc[v][e]]]
    BY <1>4, Zenon DEF ww_del_all_analyzer_data
  <2>2. <<u, d>> \notin gone
    <3>1. ~(d < today - KeepDays)
      BY <1>a, PastKeeping, Zenon
    <3> QED
      BY <3>1, Zenon
  <2> QED
    BY <2>1, <2>2, Zenon
<1>5. \/ user_calc' = user_calc
      \/ ww_user_calc_action_save_check
      \/ ww_save_all_user_calc_act_to_db
      \/ ww_del_all_analyzer_data
  <2>1. CASE \E v \in Users : log(v)
    BY <2>1, Zenon DEF log
  <2>2. CASE \E g \in Groups : wk_user_group_add_cmd_do(g)
    BY <2>2, Zenon DEF wk_user_group_add_cmd_do
  <2>3. CASE midnight \/ three_o_clock \/ crash \/ al_parse_value_to_wk_task
    BY <2>3, Zenon DEF midnight, three_o_clock, crash, al_parse_value_to_wk_task, store
  <2>4. CASE startup
    BY <2>4, Zenon DEF startup, start, resave_out_time, ww_usergroup_calc_action_save_check,
       resave_usergroup_calc_action, wk_init, store
  <2>5. CASE an_auto_data_save
    BY <2>5, Zenon DEF an_auto_data_save, an_auto_data_save_update, an_auto_data_save_begin,
       ww_save_all_group_calc_act_to_db, ww_del_all_dynamic_data, an_auto_data_save_end, store
  <2>6. CASE UNCHANGED vars
    BY <2>6, Zenon DEF vars, store
  <2> QED
    BY <2>1, <2>2, <2>3, <2>4, <2>5, <2>6, Zenon DEF Next
<1> QED
  BY <1>1, <1>2, <1>3, <1>4, <1>5, Zenon

\* Neither the 3 o'clock save nor the start-up check ever replaces a kept
\* summary by one that counts less.
THEOREM SummaryNeverShrinksHolds == Spec => SummaryNeverShrinks
<1>1. IInv /\ [Next]_vars => [\A u \in Users, d \in Days :
                                 Kept(d) => user_calc'[u][d] >= user_calc[u][d]]_vars
  BY NeverShrinksStep, Zenon
<1> QED
  BY <1>1, Invariance, PTL DEF Spec, SummaryNeverShrinks

=============================================================================
