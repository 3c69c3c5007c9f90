------------------------------ MODULE DataSave ------------------------------
(***************************************************************************)
(* The analyzer's daily statistics (TCP_C/auto_data_save.c): the raw log   *)
(* of every user is counted into a summary per user and day and a summary  *)
(* per group and day, at 3 o'clock by the ten-minute task and, after a     *)
(* restart, by the start-up check.  Everything in memory is lost when the  *)
(* program exits; the database survives.                                   *)
(*                                                                         *)
(* Times are stored reversed (GMT_REVERS_MASK - gmt), here in whole days,  *)
(* so a smaller stored time is a later day.  A record of the raw log, and  *)
(* what a summary counted of it, is abstracted to its number.              *)
(***************************************************************************)
EXTENDS Integers, Sequences, FiniteSets, Functions

CONSTANTS
    Users,             \* all users
    Groups,            \* the user groups (gid 0 stands for all users)
    group_of,          \* PRE_USER_GROUP: the group of each user
    OldGroups,         \* an_group_list when the model starts
    CrossRecords,      \* bound: the users and days whose first record may have
                       \* begun the day before
    GMT_REVERS_MASK,   \* in days
    KeepDays,          \* how long summaries are kept (180 days in the code)
    LastDay,           \* bound: the last day the model looks at
    MaxLog,            \* bound: records a user logs on one day
    MaxCrashes         \* bound: how often the program dies

Gids == Groups \cup {0}
Days == 0..LastDay
NotFound == -1         \* no such key in the database
NotCounted == -1       \* a summary, or a cached list, without the user
Rev(d) == GMT_REVERS_MASK - d

ASSUME ConstantsAssumption ==
    /\ IsFiniteSet(Users) /\ IsFiniteSet(Groups)
    /\ group_of \in [Users -> Groups]
    /\ 0 \notin Groups
    /\ OldGroups \in Seq(Groups)
    /\ CrossRecords \subseteq Users \X Days
    /\ LastDay \in Nat \ {0} /\ MaxLog \in Nat /\ MaxCrashes \in Nat
    /\ KeepDays \in Nat \ {0}
    /\ GMT_REVERS_MASK \in Nat /\ GMT_REVERS_MASK > LastDay + 2

VARIABLES
    today, phase,      \* the clock: the day; "night" is before 3 o'clock
    ticked,            \* a ten-minute task has run in this phase
    an_group_list,     \* the groups that exist
    raw,               \* PRE_USER_ACTION records by user and day
    cross,             \* the record that began the day before: none, open, split
    out,               \* how often the part before midnight was credited
    user_calc,         \* PRE_USER_CALC_ACTION by user and day
    user_time,         \* PRE_USER_CALC_ACTTIME by user
    group_calc,        \* PRE_USERGROUP_CALC_ACTION by group, day and user counted
    group_time,        \* PRE_USERGROUP_CALC_ACTTIME by group
    pc,                \* what the program is doing, "down" when it is not running
    todo,              \* the users or groups its current loop has still to visit
    histroy,           \* histroy_u64 of the group check
    list, list_day,    \* ww_user_list: records counted by user, and their day
    sums,              \* auto_save_user_group_list
    mday,              \* data_save->mday and day_time, 0 before the first task
    logged,            \* history: records ever logged by user and day
    present,           \* history: the program came up, or ran a task after 3, today
    skipped,           \* history: days whose next day passed without that
    crashes            \* bound: how often the program has died

clock == <<today, phase, ticked>>
store == <<an_group_list, raw, cross, out, user_calc, user_time, group_calc, group_time>>
memory == <<pc, todo, histroy, list, list_day, sums, mday>>
history == <<logged, present, skipped, crashes>>
vars == <<clock, store, memory, history>>

Existing == {u \in Users : group_of[u] \in Range(an_group_list)}
Listed == {u \in Users : list[u] # NotCounted}
NoList == [u \in Users |-> NotCounted]
NoSums == [g \in Gids |-> NoList]

\* The orders in which a loop may meet the members of S: the order of the
\* database's keys, or that of a list in memory.
Orders(S) == {s \in UNION {[1..n -> S] : n \in 0..Cardinality(S)} : Range(s) = S}

TypeOK ==
    /\ today \in Days \ {0} /\ phase \in {"night", "day"} /\ ticked \in BOOLEAN
    /\ an_group_list \in Seq(Groups)
    /\ raw \in [Users -> [Days -> 0..MaxLog]]
    /\ cross \in [Users -> [Days -> {"none", "open", "split"}]]
    /\ out \in [Users -> [Days -> [{"user", "group", "all"} -> Nat]]]
    /\ user_calc \in [Users -> [Days -> NotCounted..MaxLog]]
    /\ user_time \in [Users -> {NotFound} \cup {Rev(d) : d \in Days}]
    /\ group_calc \in [Gids -> [Days -> [Users -> NotCounted..MaxLog]]]
    /\ group_time \in [Gids -> {NotFound, 0} \cup {Rev(d) : d \in -1..LastDay}]
    /\ pc \in {"down", "check_user", "out_user", "out_group", "out_all", "split",
               "check_group", "resave_group", "load", "run", "save_user",
               "save_group", "del_raw", "del_old", "reload"}
    /\ todo \in Seq(Users \cup Gids)
    /\ histroy \in 0..GMT_REVERS_MASK + 1
    /\ list \in [Users -> NotCounted..MaxLog] /\ list_day \in Days
    /\ sums \in [Gids -> [Users -> NotCounted..MaxLog]]
    /\ mday \in Days
    /\ logged \in [Users -> [Days -> 0..MaxLog]]
    /\ present \in BOOLEAN /\ skipped \subseteq Days
    /\ crashes \in 0..MaxCrashes

\* Day 0 has been summarised, nobody worked on it; day 1 begins.
Init ==
    /\ today = 1 /\ phase = "night" /\ ticked = FALSE
    /\ an_group_list = OldGroups
    /\ raw = [u \in Users |-> [d \in Days |-> 0]]
    /\ cross = [u \in Users |-> [d \in Days |-> "none"]]
    /\ out = [u \in Users |-> [d \in Days |-> [user |-> 0, group |-> 0, all |-> 0]]]
    /\ user_calc = [u \in Users |-> [d \in Days |->
                      IF d = 0 /\ u \in Existing THEN 0 ELSE NotCounted]]
    /\ user_time = [u \in Users |-> IF u \in Existing THEN Rev(0) ELSE NotFound]
    /\ group_calc = [g \in Gids |-> [d \in Days |-> [u \in Users |->
                      IF d = 0 /\ u \in Existing /\ g \in {group_of[u], 0}
                      THEN 0 ELSE NotCounted]]]
    /\ group_time = [g \in Gids |-> IF g \in Range(OldGroups) \cup {0}
                                    THEN Rev(0) ELSE NotFound]
    /\ pc = "down" /\ todo = <<>> /\ histroy = 0
    /\ list = NoList /\ list_day = 0 /\ sums = NoSums /\ mday = 0
    /\ logged = raw
    /\ present = TRUE /\ skipped = {} /\ crashes = 0

-----------------------------------------------------------------------------
(* The world: users work, time passes, groups are added, the program dies. *)

\* The log server stores a record of user u; the first record of a day may
\* have begun the day before.
log(u) ==
    /\ u \in Existing /\ raw[u][today] < MaxLog
    /\ raw' = [raw EXCEPT ![u][today] = @ + 1]
    /\ logged' = [logged EXCEPT ![u][today] = @ + 1]
    /\ \/ cross' = cross
       \/ /\ <<u, today>> \in CrossRecords /\ logged[u][today] = 0 /\ phase = "night"
          /\ cross' = [cross EXCEPT ![u][today] = "open"]
    /\ UNCHANGED <<clock, an_group_list, out, user_calc, user_time, group_calc,
                   group_time, memory, present, skipped, crashes>>

\* Midnight finds a running program past its first task of this day: start-up
\* and first task, a minute apart, are taken to fall on one day.
midnight ==
    /\ phase = "day" /\ today < LastDay
    /\ pc \in {"down", "run"} /\ (pc = "run" => ticked)
    /\ today' = today + 1 /\ phase' = "night" /\ ticked' = FALSE
    /\ present' = FALSE
    /\ skipped' = IF present THEN skipped ELSE skipped \cup {today - 1}
    /\ UNCHANGED <<store, memory, logged, crashes>>

\* The timer's ten minutes fit many times into the night.
three_o_clock ==
    /\ phase = "night"
    /\ pc = "run" => ticked \/ mday = 0
    /\ phase' = "day" /\ ticked' = FALSE
    /\ UNCHANGED <<today, store, memory, history>>

\* A worker adds a group; its users start to work.
wk_user_group_add_cmd_do(g) ==
    /\ pc \in {"run", "save_user", "save_group", "del_raw", "del_old", "reload"}
    /\ g \notin Range(an_group_list)
    /\ an_group_list' = Append(an_group_list, g)
    /\ UNCHANGED <<clock, raw, cross, out, user_calc, user_time, group_calc,
                   group_time, memory, history>>

an_exit ==
    /\ pc' = "down" /\ todo' = <<>> /\ histroy' = 0
    /\ list' = NoList /\ list_day' = 0 /\ sums' = NoSums /\ mday' = 0

\* The program is killed, or a database call fails and it exits by itself:
\* every failed call of the check and of the saves ends in an_exit.
crash ==
    /\ pc # "down" /\ crashes < MaxCrashes
    /\ an_exit
    /\ crashes' = crashes + 1
    /\ UNCHANGED <<clock, store, logged, present, skipped>>

-----------------------------------------------------------------------------
(* The start-up check of yesterday's summaries. *)

start ==
    /\ pc = "down"
    /\ pc' = "check_user"
    /\ todo' \in Orders(Existing)
    /\ UNCHANGED <<clock, store, histroy, list, list_day, sums, mday, history>>

\* The stored time is missing, earlier than yesterday or later than today.
NeedsResave(u) ==
    \/ user_time[u] = NotFound
    \/ user_time[u] > Rev(today) + 1
    \/ user_time[u] < Rev(today)

\* As the next, with the group's time compared one day off.
PutsBackTooLate(u, d) ==
    /\ user_calc' = [user_calc EXCEPT ![u][d] = raw[u][d]]
    /\ user_time' = [user_time EXCEPT ![u] = Rev(d)]
    /\ group_time' = [g \in Gids |->
                        IF g \in {group_of[u], 0} /\ group_time[g] < Rev(d)
                        THEN Rev(d) + 1 ELSE group_time[g]]
    /\ UNCHANGED <<raw, cross, out, group_calc, an_group_list>>

\* As the next, with the group's time put back two days.
PutsBackTooFar(u, d) ==
    /\ user_calc' = [user_calc EXCEPT ![u][d] = raw[u][d]]
    /\ user_time' = [user_time EXCEPT ![u] = Rev(d)]
    /\ group_time' = [g \in Gids |->
                        IF g \in {group_of[u], 0} /\ group_time[g] <= Rev(d)
                        THEN Rev(d) + 2 ELSE group_time[g]]
    /\ UNCHANGED <<raw, cross, out, group_calc, an_group_list>>

\* One multi_set: the user's summary, its time, and the times of its group and
\* of all users put back, so that those are counted again.
ww_save_user_calc_act_to_db(u, d) ==
    /\ user_calc' = [user_calc EXCEPT ![u][d] = raw[u][d]]
    /\ user_time' = [user_time EXCEPT ![u] = Rev(d)]
    /\ group_time' = [g \in Gids |->
                        IF g \in {group_of[u], 0} /\ group_time[g] <= Rev(d)
                        THEN Rev(d) + 1 ELSE group_time[g]]
    /\ UNCHANGED <<raw, cross, out, group_calc, an_group_list>>

ww_user_calc_action_save_check ==
    /\ pc = "check_user"
    /\ \/ /\ todo = <<>>
          /\ pc' = "check_group" /\ todo' = Append(an_group_list, 0)
          /\ UNCHANGED store
       \/ /\ todo # <<>> /\ ~NeedsResave(Head(todo))
          /\ todo' = Tail(todo)
          /\ UNCHANGED <<pc, store>>
       \/ /\ todo # <<>> /\ NeedsResave(Head(todo))
          /\ cross[Head(todo)][today - 1] # "open"
          /\ ww_save_user_calc_act_to_db(Head(todo), today - 1)
          /\ todo' = Tail(todo)
          /\ UNCHANGED pc
       \/ /\ todo # <<>> /\ NeedsResave(Head(todo))
          /\ cross[Head(todo)][today - 1] = "open"
          /\ pc' = "out_user"
          /\ UNCHANGED <<todo, store>>
    /\ UNCHANGED <<clock, histroy, list, list_day, sums, mday, history>>

\* The part before midnight is added to the day before, for the user, for its
\* group and for all users, and only then the record is cut at midnight.
Credit(whom) == out' = [out EXCEPT ![Head(todo)][today - 1][whom] = @ + 1]

\* As the next, cutting the record first.
SplitsFirst ==
    /\ \/ /\ pc = "out_user" /\ pc' = "out_group"
          /\ cross' = [cross EXCEPT ![Head(todo)][today - 1] = "split"]
          /\ UNCHANGED out
       \/ pc = "out_group" /\ Credit("user") /\ pc' = "out_all" /\ UNCHANGED cross
       \/ pc = "out_all" /\ Credit("group") /\ pc' = "split" /\ UNCHANGED cross
       \/ pc = "split" /\ Credit("all") /\ pc' = "check_user" /\ UNCHANGED cross
    /\ UNCHANGED <<clock, an_group_list, raw, user_calc, user_time, group_calc,
                   group_time, todo, histroy, list, list_day, sums, mday, history>>

resave_out_time ==
    /\ \/ pc = "out_user" /\ Credit("user") /\ pc' = "out_group" /\ UNCHANGED cross
       \/ pc = "out_group" /\ Credit("group") /\ pc' = "out_all" /\ UNCHANGED cross
       \/ pc = "out_all" /\ Credit("all") /\ pc' = "split" /\ UNCHANGED cross
       \/ /\ pc = "split" /\ pc' = "check_user"
          /\ cross' = [cross EXCEPT ![Head(todo)][today - 1] = "split"]
          /\ UNCHANGED out
    /\ UNCHANGED <<clock, an_group_list, raw, user_calc, user_time, group_calc,
                   group_time, todo, histroy, list, list_day, sums, mday, history>>

\* The day from which group g is counted again; without a stored time
\* histroy_u64 still holds what the group before left in it.
FromTime(g) == IF group_time[g] # NotFound THEN group_time[g] ELSE histroy

ww_usergroup_calc_action_save_check ==
    /\ pc = "check_group"
    /\ \/ /\ todo = <<>>
          /\ pc' = "load"
          /\ UNCHANGED histroy
       \/ /\ todo # <<>>
          /\ histroy' = IF FromTime(Head(todo)) <= Rev(today) THEN Rev(today) + 2
                        ELSE FromTime(Head(todo))
          /\ pc' = "resave_group"
    /\ UNCHANGED <<clock, store, todo, list, list_day, sums, mday, history>>

\* The summary of group g for day d, from the users' summaries.
GroupSum(g, d) == [u \in Users |-> IF g \in {group_of[u], 0} THEN user_calc[u][d]
                                   ELSE NotCounted]

resave_usergroup_calc_action ==
    /\ pc = "resave_group"
    /\ \/ /\ histroy - Rev(today) > 1
          /\ histroy' = histroy - 1
          /\ group_calc' = [group_calc EXCEPT ![Head(todo)][Rev(histroy - 1)] =
                              GroupSum(Head(todo), Rev(histroy - 1))]
          /\ group_time' = [group_time EXCEPT ![Head(todo)] = histroy - 1]
          /\ UNCHANGED <<pc, todo>>
       \/ /\ histroy - Rev(today) <= 1
          /\ todo' = Tail(todo) /\ pc' = "check_group"
          /\ UNCHANGED <<histroy, group_calc, group_time>>
    /\ UNCHANGED <<clock, an_group_list, raw, cross, out, user_calc, user_time,
                   list, list_day, sums, mday, history>>

-----------------------------------------------------------------------------
(* The ten-minute task. *)

\* ww_add_or_init_calc_behavior_to_list: the records of day d are counted into
\* the list.  Whether users without a record are listed is left open.
Active(d) == {u \in Existing : raw[u][d] > 0}
Counted(d, S) == [u \in Users |->
                    IF u \in S \cup Active(d) /\ raw[u][d] > list[u]
                    THEN raw[u][d] ELSE list[u]]

\* The rest of wk_init after the check: the lists of today are filled.
wk_init ==
    /\ pc = "load"
    /\ \E S \in {{}, Existing} : list' = Counted(today, S)
    /\ list_day' = today
    /\ pc' = "run" /\ histroy' = 0
    /\ present' = TRUE /\ ticked' = FALSE
    /\ UNCHANGED <<today, phase, store, todo, sums, mday, logged, skipped, crashes>>

\* As NewDay, comparing the day one off.
NewDayLate == mday # 0 /\ phase = "day" /\ mday # today /\ today > mday + 1

\* data_save holds an earlier day and it is past 3 o'clock.
NewDay == mday # 0 /\ phase = "day" /\ mday # today /\ today > mday

\* The task on any other call: the lists are brought up to date.
an_auto_data_save_update ==
    /\ pc = "run" /\ ~NewDay
    /\ mday' = IF mday = 0 THEN today ELSE mday
    /\ list' = Counted(list_day, {})
    /\ ticked' = TRUE /\ present' = IF phase = "day" THEN TRUE ELSE present
    /\ UNCHANGED <<today, phase, store, pc, todo, histroy, list_day, sums,
                   logged, skipped, crashes>>

\* A request for statistics also brings the list up to date, in the main
\* thread, whatever the task is doing.
al_parse_value_to_wk_task ==
    /\ pc \in {"run", "save_user", "save_group"}
    /\ list' = Counted(list_day, {})
    /\ UNCHANGED <<clock, store, pc, todo, histroy, list_day, sums, mday, history>>

\* The task on the first call after 3 o'clock of a new day.
an_auto_data_save_begin ==
    /\ pc = "run" /\ NewDay
    /\ pc' = "save_user"
    /\ todo' \in Orders(Listed)
    /\ UNCHANGED <<clock, store, histroy, list, list_day, sums, mday, history>>

\* Each user is added to its group and to all users, and saved with its time.
ww_save_all_user_calc_act_to_db ==
    /\ pc = "save_user"
    /\ \/ /\ todo = <<>>
          /\ pc' = "save_group"
          /\ \E s \in Orders({g \in Groups : \E u \in Users : sums[g][u] # NotCounted}) :
               todo' = <<0>> \o s
          /\ UNCHANGED <<sums, user_calc, user_time>>
       \/ /\ todo # <<>>
          /\ LET u == Head(todo) IN
               /\ sums' = [g \in Gids |-> IF g \in {group_of[u], 0}
                                          THEN [sums[g] EXCEPT ![u] = list[u]]
                                          ELSE sums[g]]
               /\ user_calc' = [user_calc EXCEPT ![u][list_day] = list[u]]
               /\ user_time' = [user_time EXCEPT ![u] = Rev(list_day)]
          /\ todo' = Tail(todo)
          /\ UNCHANGED pc
    /\ UNCHANGED <<clock, an_group_list, raw, cross, out, group_calc, group_time,
                   histroy, list, list_day, mday, history>>

\* Each group is saved with its time; with no user listed the record of all
\* users keeps day_time 0.
ww_save_all_group_calc_act_to_db ==
    /\ pc = "save_group"
    /\ \/ /\ todo = <<>>
          /\ pc' = "del_raw"
          /\ UNCHANGED <<todo, group_calc, group_time>>
       \/ /\ todo # <<>>
          /\ LET g == Head(todo) IN
               IF \E u \in Users : sums[g][u] # NotCounted
               THEN /\ group_calc' = [group_calc EXCEPT ![g][list_day] = sums[g]]
                    /\ group_time' = [group_time EXCEPT ![g] = Rev(list_day)]
               ELSE /\ group_time' = [group_time EXCEPT ![g] = 0]
                    /\ UNCHANGED group_calc
          /\ todo' = Tail(todo)
          /\ UNCHANGED pc
    /\ UNCHANGED <<clock, an_group_list, raw, cross, out, user_calc, user_time,
                   histroy, list, list_day, sums, mday, history>>

\* As the next, deleting up to and including today.
DeletesToday ==
    /\ pc = "del_raw"
    /\ raw' = [u \in Users |-> [d \in Days |->
                 IF u \in Listed /\ d <= today THEN 0 ELSE raw[u][d]]]
    /\ pc' = "del_old"
    /\ UNCHANGED <<clock, an_group_list, cross, out, user_calc, user_time, group_calc,
                   group_time, todo, histroy, list, list_day, sums, mday, history>>

\* The listed users' records from before today are deleted; a failed scan or
\* delete is ignored and leaves some behind.
ww_del_all_dynamic_data ==
    /\ pc = "del_raw"
    /\ \E kept \in SUBSET {r \in Listed \X Days : r[2] < today /\ raw[r[1]][r[2]] > 0} :
         raw' = [u \in Users |-> [d \in Days |->
                   IF u \in Listed /\ d < today /\ <<u, d>> \notin kept
                   THEN 0 ELSE raw[u][d]]]
    /\ pc' = "del_old"
    /\ UNCHANGED <<clock, an_group_list, cross, out, user_calc, user_time, group_calc,
                   group_time, todo, histroy, list, list_day, sums, mday, history>>

\* As the next, with the limit one day off.
DeletesADayTooMany ==
    /\ pc = "del_old"
    /\ user_calc' = [u \in Users |-> [d \in Days |->
                       IF u \in Listed /\ d <= today - KeepDays THEN NotCounted
                       ELSE user_calc[u][d]]]
    /\ IF Listed = {} THEN an_exit
       ELSE pc' = "reload" /\ UNCHANGED <<todo, histroy, list, list_day, sums, mday>>
    /\ UNCHANGED <<clock, an_group_list, raw, cross, out, user_time, group_calc,
                   group_time, history>>

\* Summaries older than KeepDays are deleted, again as far as the calls
\* succeed.  The last call reads the loop's user: with no user listed the
\* program dies on the null pointer.
ww_del_all_analyzer_data ==
    /\ pc = "del_old"
    /\ \E gone \in SUBSET {r \in Listed \X Days : r[2] < today - KeepDays} :
         user_calc' = [u \in Users |-> [d \in Days |->
                         IF <<u, d>> \in gone THEN NotCounted ELSE user_calc[u][d]]]
    /\ \E gone \in SUBSET {r \in (Range(an_group_list) \cup {0}) \X Days :
                             r[2] < today - KeepDays} :
         group_calc' = [g \in Gids |-> [d \in Days |->
                          IF <<g, d>> \in gone THEN NoList ELSE group_calc[g][d]]]
    /\ IF Listed = {} THEN an_exit
       ELSE pc' = "reload" /\ UNCHANGED <<todo, histroy, list, list_day, sums, mday>>
    /\ UNCHANGED <<clock, an_group_list, raw, cross, out, user_time, group_time, history>>

\* The lists are cleared and filled with today's records; the day is done.
an_auto_data_save_end ==
    /\ pc = "reload"
    /\ \E S \in {{}, Existing} :
         list' = [u \in Users |-> IF u \in S \cup Active(today) THEN raw[u][today]
                                  ELSE NotCounted]
    /\ list_day' = today /\ sums' = NoSums /\ mday' = today
    /\ pc' = "run" /\ ticked' = TRUE /\ present' = TRUE
    /\ UNCHANGED <<today, phase, store, todo, histroy, logged, skipped, crashes>>

an_auto_data_save ==
    \/ an_auto_data_save_update
    \/ an_auto_data_save_begin
    \/ ww_save_all_user_calc_act_to_db
    \/ ww_save_all_group_calc_act_to_db
    \/ ww_del_all_dynamic_data
    \/ ww_del_all_analyzer_data
    \/ an_auto_data_save_end

startup ==
    \/ start
    \/ ww_user_calc_action_save_check
    \/ resave_out_time
    \/ ww_usergroup_calc_action_save_check
    \/ resave_usergroup_calc_action
    \/ wk_init

Next ==
    \/ \E u \in Users : log(u)
    \/ \E g \in Groups : wk_user_group_add_cmd_do(g)
    \/ midnight
    \/ three_o_clock
    \/ crash
    \/ al_parse_value_to_wk_task
    \/ startup
    \/ an_auto_data_save

Spec == Init /\ [][Next]_vars

\* Time passes; the guardian restarts the program; the timer goes on firing
\* and a worker thread runs the task to its end.
FairSpec ==
    /\ Spec
    /\ WF_vars(midnight) /\ WF_vars(three_o_clock)
    /\ WF_vars(startup) /\ WF_vars(an_auto_data_save)

-----------------------------------------------------------------------------
(* Properties *)

Kept(d) == d >= today - KeepDays

\* "成功后删除之前的dyua 及 dyuq等记录": a raw record is deleted only when the
\* summary of its user and day has counted every record logged then, through
\* crashes and failed calls at any point; days the program slept through and
\* summaries past their keeping time excepted.
SavedBeforeDeleted ==
    \A u \in Users, d \in Days :
        raw[u][d] < logged[u][d] =>
            d \in skipped \/ ~Kept(d) \/ user_calc[u][d] = logged[u][d]

\* A group whose stored time says it is counted up to day d has counted every
\* summary its users have for day d, with the value it has now: each save of a
\* user either comes before the save of its group or puts the group's time back.
\* (A group that never had a stored time is outside this promise, see
\* CheckCoversGroups.)
GroupUpToDate ==
    \A u \in Users, d \in Days : \A g \in {group_of[u], 0} :
        /\ Kept(d) /\ g \in Range(OldGroups) \cup {0}
        /\ group_time[g] > 0 /\ group_time[g] <= Rev(d)
        /\ user_calc[u][d] # NotCounted
        => group_calc[g][d][u] = user_calc[u][d]

\* A record is cut at midnight only after the part before midnight has been
\* credited to the user, to its group and to all users: a crash in between may
\* credit it twice, never not at all.
CrossingCredited ==
    \A u \in Users, d \in Days :
        cross[u][d] = "split" => \A whom \in {"user", "group", "all"} : out[u][d][whom] > 0

\* No save and no resave ever replaces a summary by one that counts less, in
\* particular the check never counts a day again whose raw records are gone.
SummaryNeverShrinks ==
    [][\A u \in Users, d \in Days :
         Kept(d) => user_calc'[u][d] >= user_calc[u][d]]_vars

\* Every day some user worked on is in that user's summary in the end, unless
\* the program slept through the whole day after it.
EveryDaySaved ==
    <>[](\A u \in Users, d \in 0..LastDay - 1 :
           logged[u][d] > 0 =>
               d \in skipped \/ ~Kept(d) \/ user_calc[u][d] = logged[u][d])

\* "检查用户组是否需要重新同步某天数据": once the start-up check is over, what the
\* users' summaries of yesterday hold is in the summary of their group.
CheckCoversGroups ==
    pc = "load" => \A u \in Users : \A g \in {group_of[u], 0} :
        user_calc[u][today - 1] # NotCounted =>
            group_calc[g][today - 1][u] = user_calc[u][today - 1]

=============================================================================
