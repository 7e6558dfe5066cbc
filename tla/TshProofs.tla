------------------------------- MODULE TshProofs -------------------------------
(***************************************************************************)
(* For any number of jobs, children and keystrokes: the shell's state has  *)
(* the types of TypeOK, at most one job is in the foreground, the list     *)
(* holds exactly the children (if it has room for all), and it shows which *)
(* of them are stopped.                                                    *)
(*                                                                         *)
(* A job is in the foreground only while the loop is on its way into, or   *)
(* in, waitfg for that very job; that is what makes the invariant          *)
(* inductive, and it needs that no pid is listed twice.                    *)
(***************************************************************************)
EXTENDS Tsh, TLAPS, WellFoundedInduction, FiniteSetTheorems

LEMMA LeastNat ==
    ASSUME NEW T \in SUBSET Nat, T # {}
    PROVE  \E x \in T : \A y \in T : x <= y
<1>1. IsWellFoundedOn(OpToRel(<, Nat), Nat)
  BY NatLessThanWellFounded
<1>2. PICK x \in T : \A y \in T : <<y, x>> \notin OpToRel(<, Nat)
  BY <1>1, WFMin
<1>3. \A y \in T : ~(y < x)
  BY <1>2 DEF OpToRel
<1> QED BY <1>3

(* The searches for a slot return a slot they look for. *)
LEMMA LeastIsMember ==
    ASSUME NEW S \in SUBSET Slots, S # {}
    PROVE  Least(S) \in S
<1>1. S \in SUBSET Nat
  BY ShellAssumption DEF Slots
<1>2. \E s \in S : \A t \in S : s <= t
  BY <1>1, LeastNat
<1> QED BY <1>2 DEF Least

(* The numbers of a job list have an upper bound: otherwise there is a     *)
(* least prefix of the list without one.                                   *)
LEMMA JidsBounded ==
    ASSUME NEW f \in [Slots -> Nat]
    PROVE  \E b \in Nat : \A s \in Slots : f[s] <= b
<1> DEFINE Bounded(k) == \E b \in Nat : \A s \in Slots : s <= k => f[s] <= b
           T == {k \in Nat : ~Bounded(k)}
<1>1. ASSUME T # {} PROVE FALSE
  <2>1. PICK k \in T : \A j \in T : k <= j
    BY <1>1, LeastNat
  <2>2. Bounded(0)
    <3>1. \A s \in Slots : ~(s <= 0)
      BY ShellAssumption DEF Slots
    <3> QED BY <3>1
  <2>3. k \in Nat /\ ~Bounded(k) /\ k # 0
    BY <2>1, <2>2
  <2>4. Bounded(k - 1)
    <3>1. k - 1 \in Nat /\ ~(k <= k - 1)
      BY <2>3
    <3> QED BY <3>1, <2>1
  <2>5. PICK b \in Nat : \A s \in Slots : s <= k - 1 => f[s] <= b
    BY <2>4
  <2>6. \A s \in Slots : s \in Nat /\ f[s] \in Nat
    <3>1. \A s \in Slots : s \in Nat
      BY ShellAssumption DEF Slots
    <3> QED BY <3>1
  <2>7. CASE k \in Slots
    <3>1. f[k] \in Nat
      BY <2>6, <2>7
    <3>2. \A s \in Slots : s <= k => f[s] <= b + f[k]
      BY <2>3, <2>5, <2>6, <3>1
    <3> QED BY <2>3, <3>1, <3>2
  <2>8. CASE k \notin Slots
    <3>1. \A s \in Slots : s <= k => f[s] <= b
      BY <2>3, <2>5, <2>6, <2>8
    <3> QED BY <2>3, <3>1
  <2> QED BY <2>7, <2>8
<1>2. Bounded(MAXJOBS)
  BY <1>1, ShellAssumption
<1>3. \A s \in Slots : s <= MAXJOBS
  BY ShellAssumption DEF Slots
<1> QED BY <1>2, <1>3

(* ... and therefore a greatest element, which maxjid returns. *)
LEMMA MaxjidIsNat ==
    ASSUME NEW js, \A s \in Slots : js[s].jid \in Nat
    PROVE  maxjid(js) \in Nat
<1> DEFINE f == [s \in Slots |-> js[s].jid]
           T == {js[s].jid : s \in Slots}
           U == {b \in Nat : \A t \in T : t <= b}
<1>1. T \in SUBSET Nat /\ T # {}
  <2>1. 1 \in Slots
    BY ShellAssumption DEF Slots
  <2> QED BY <2>1
<1>2. U # {}
  <2>1. f \in [Slots -> Nat]
    OBVIOUS
  <2>2. PICK b \in Nat : \A s \in Slots : f[s] <= b
    BY <2>1, JidsBounded
  <2> QED BY <2>2
<1>3. PICK b \in U : \A c \in U : b <= c
  <2>1. U \in SUBSET Nat
    OBVIOUS
  <2> HIDE DEF U
  <2> QED BY <1>2, <2>1, LeastNat
<1> HIDE DEF T
<1>4. b \in T
  <2> SUFFICES ASSUME b \notin T PROVE FALSE
    OBVIOUS
  <2>1. b \in Nat /\ \A t \in T : t < b /\ t \in Nat
    BY <1>1
  <2>2. b - 1 \in Nat /\ \A t \in T : t <= b - 1
    <3>1. PICK t0 \in T : TRUE
      BY <1>1
    <3>2. t0 \in Nat /\ t0 < b
      BY <2>1
    <3>3. ASSUME NEW t \in T PROVE t <= b - 1
      <4>1. t \in Nat /\ t < b /\ b \in Nat
        BY <2>1
      <4> QED BY <4>1
    <3> QED BY <2>1, <3>2, <3>3
  <2>3. b - 1 \in U /\ ~(b <= b - 1)
    BY <2>1, <2>2
  <2> QED BY <2>3, <1>3
<1>5. \E t \in T : \A u \in T : u <= t
  BY <1>4
<1>6. Greatest(T) \in T
  BY <1>5 DEF Greatest
<1> QED BY <1>1, <1>6 DEF maxjid, T

-----------------------------------------------------------------------------
(* Types. *)

JobRec == [pid : Pid \cup {0}, jid : Nat, state : {"UNDEF", "FG", "BG", "ST"}]

LEMMA AddKeepsType ==
    ASSUME TypeOK, NEW p \in Pid \cup {0}, NEW st \in {"FG", "BG"}, addjob(p, st)
    PROVE  jobs' \in [Slots -> JobRec] /\ nextjid' \in Nat
<1>1. jobs \in [Slots -> JobRec] /\ nextjid \in Nat
  BY DEF TypeOK, JobRec
<1>2. CASE Free = {}
  BY <1>1, <1>2 DEF addjob, jobList
<1>3. CASE Free # {}
  <2>1. [pid |-> p, jid |-> nextjid, state |-> st] \in JobRec
    BY <1>1 DEF JobRec
  <2> QED BY <1>1, <1>3, <2>1 DEF addjob
<1> QED BY <1>2, <1>3

LEMMA DeleteKeepsType ==
    ASSUME TypeOK, NEW p \in Pid \cup {0}, deletejob(p)
    PROVE  jobs' \in [Slots -> JobRec] /\ nextjid' \in Nat
<1>1. jobs \in [Slots -> JobRec] /\ nextjid \in Nat
  BY DEF TypeOK, JobRec
<1>2. CASE SlotsOf(p) = {}
  BY <1>1, <1>2 DEF deletejob, jobList
<1>3. CASE SlotsOf(p) # {}
  <2>1. NoJob \in JobRec
    BY DEF NoJob, JobRec
  <2>2. jobs' \in [Slots -> JobRec]
    BY <1>1, <1>3, <2>1 DEF deletejob
  <2>3. \A s \in Slots : jobs'[s].jid \in Nat
    BY <2>2 DEF JobRec
  <2>4. maxjid(jobs') \in Nat
    BY <2>3, MaxjidIsNat
  <2> QED BY <1>3, <2>2, <2>4 DEF deletejob
<1> QED BY <1>2, <1>3

LEMMA SetKeepsType ==
    ASSUME TypeOK, NEW s \in Slots, NEW st \in {"FG", "BG", "ST"}, setstate(s, st)
    PROVE  jobs' \in [Slots -> JobRec] /\ nextjid' \in Nat
BY DEF TypeOK, JobRec, setstate

LEMMA Getjobpid ==
    ASSUME NEW p
    PROVE  /\ getjobpid(p) \in Slots \cup {0}
           /\ getjobpid(p) # 0 => getjobpid(p) \in SlotsOf(p)
           /\ SlotsOf(p) # {} => getjobpid(p) \in SlotsOf(p)
<1>1. SlotsOf(p) \in SUBSET Slots
  BY DEF SlotsOf
<1>2. CASE SlotsOf(p) = {}
  BY <1>2 DEF getjobpid
<1>3. CASE SlotsOf(p) # {}
  BY <1>1, <1>3, LeastIsMember DEF getjobpid
<1> QED BY <1>2, <1>3

LEMMA NamedIsSlot ==
    ASSUME NEW s \in Slots
    PROVE  Named(s) \subseteq Slots
<1> DEFINE S == {t \in Slots : jobs[t].jid = jobs[s].jid}
<1>1. S \in SUBSET Slots /\ S # {}
  OBVIOUS
<1>2. Least(S) \in S
  <2> HIDE DEF S
  <2> QED BY <1>1, LeastIsMember
<1> QED BY <1>2 DEF Named, getjobjid

(* The foreground job is 0 or a pid. *)
LEMMA FgpidType ==
    ASSUME TypeOK
    PROVE  fgpid \in Pid \cup {0}
<1> DEFINE fgs == {s \in Slots : jobs[s].state = "FG"}
<1>1. ASSUME fgs # {} PROVE Least(fgs) \in Slots
  <2>1. fgs \in SUBSET Slots
    OBVIOUS
  <2> HIDE DEF fgs
  <2> QED BY <1>1, <2>1, LeastIsMember
<1>2. \A s \in Slots : jobs[s].pid \in Pid \cup {0}
  BY DEF TypeOK
<1> QED BY <1>1, <1>2 DEF fgpid

(* Every step keeps the types. *)
LEMMA TypeStep == TypeOK /\ [Next]_vars => TypeOK'
<1> SUFFICES ASSUME TypeOK, [Next]_vars PROVE TypeOK'
  OBVIOUS
<1> USE DEF jobList, loop, children, Dead
<1>0. jobs \in [Slots -> JobRec] /\ nextjid \in Nat
  BY DEF TypeOK, JobRec
<1>1. CASE UNCHANGED vars
  BY <1>1 DEF TypeOK, vars
<1>2. CASE AddJob
  <2>1. /\ pid \in Pid \cup {0}
        /\ addjob(pid, IF cmd = "bg" THEN "BG" ELSE "FG")
        /\ (IF cmd = "bg" THEN "BG" ELSE "FG") \in {"FG", "BG"}
    BY <1>2 DEF TypeOK, AddJob
  <2>2. jobs' \in [Slots -> JobRec] /\ nextjid' \in Nat
    BY <2>1, AddKeepsType
  <2> QED BY <1>2, <2>2 DEF TypeOK, AddJob, At, JobRec
<1>3. CASE WaitFg
  BY <1>3, Getjobpid DEF TypeOK, WaitFg, At
<1>4. CASE WaitFgReturns
  BY <1>4 DEF TypeOK, WaitFgReturns, At
<1>5. CASE ReadPid
  <2>1. jobs[slot].pid \in Pid \cup {0}
    BY <1>5 DEF TypeOK, ReadPid, At
  <2> QED BY <1>5, <2>1 DEF TypeOK, ReadPid, At
<1>6. CASE Continue
  BY <1>6 DEF TypeOK, Continue, At, SendCONT, HasGroup
<1>7. CASE SetState
  <2>1. /\ slot \in Slots
        /\ setstate(slot, IF cmd = "bg" THEN "BG" ELSE "FG")
        /\ (IF cmd = "bg" THEN "BG" ELSE "FG") \in {"FG", "BG", "ST"}
        /\ jobs[slot].pid \in Pid \cup {0}
    BY <1>7 DEF TypeOK, SetState, At
  <2>2. jobs' \in [Slots -> JobRec] /\ nextjid' \in Nat
    BY <2>1, SetKeepsType
  <2> QED BY <1>7, <2>1, <2>2 DEF TypeOK, SetState, At, JobRec
<1>8. CASE DeliverCHLD
  BY <1>8 DEF TypeOK, DeliverCHLD, Idle
<1>9. CASE WaitPid
  <2>1. CASE Reportable = {}
    <3>1. /\ chld' = Idle /\ UNCHANGED <<jobList, loop, children, pending, own, keys>>
          /\ Idle \in [pc : {"off", "wait", "act"}, pid : Pid \cup {0}, ended : BOOLEAN]
      BY <1>9, <2>1 DEF WaitPid, Idle
    <3> QED BY <3>1 DEF TypeOK
  <2>2. ASSUME NEW p \in Reportable,
               chld' = [pc |-> "act", pid |-> p, ended |-> proc[p] = "zombie"],
               proc' = [proc EXCEPT ![p] = IF @ = "zombie" THEN "gone" ELSE @],
               told' = IF proc[p] = "stopped" THEN told \cup {p} ELSE told,
               UNCHANGED <<held, lost>>
        PROVE  TypeOK'
    <3>1. p \in Pid
      BY DEF Reportable
    <3> QED BY <1>9, <2>2, <3>1 DEF TypeOK, WaitPid
  <2> QED BY <1>9, <2>1, <2>2 DEF WaitPid
<1>10. CASE Record
  <2>1. chld.pid \in Pid \cup {0} /\ NextRound \in [pc : {"off", "wait", "act"}, pid : Pid \cup {0}, ended : BOOLEAN]
    BY DEF TypeOK, NextRound, Idle
  <2>2. jobs' \in [Slots -> JobRec] /\ nextjid' \in Nat /\ pc' \in {pc, "segv"}
    <3>1. CASE chld.ended
      BY <1>10, <2>1, <3>1, DeleteKeepsType DEF Record
    <3>2. CASE ~chld.ended /\ getjobpid(chld.pid) # 0
      <4>1. getjobpid(chld.pid) \in Slots
        BY <3>2, Getjobpid
      <4> QED BY <1>10, <3>2, <4>1, SetKeepsType DEF Record
    <3>3. CASE ~chld.ended /\ getjobpid(chld.pid) = 0
      BY <1>10, <3>3, <1>0 DEF Record, TypeOK
    <3> QED BY <3>1, <3>2, <3>3
  <2>3. lost' \subseteq Pid
    <3>1. CASE chld.ended
      BY <1>10, <3>1 DEF TypeOK, Record
    <3>2. CASE ~chld.ended /\ getjobpid(chld.pid) # 0
      <4>1. /\ getjobpid(chld.pid) \in SlotsOf(chld.pid)
            /\ lost' \in {lost, lost \cup {chld.pid}}
        BY <1>10, <3>2, Getjobpid DEF Record
      <4>2. chld.pid \in Pid
        BY <2>1, <4>1 DEF SlotsOf
      <4> QED BY <4>1, <4>2 DEF TypeOK
    <3>3. CASE ~chld.ended /\ getjobpid(chld.pid) = 0
      BY <1>10, <3>3 DEF TypeOK, Record
    <3> QED BY <3>1, <3>2, <3>3
  <2>4. UNCHANGED <<cmd, pid, slot, proc, held, told, pending, own, keys>> /\ chld' = NextRound
    BY <1>10 DEF Record
  <2>5. pc \in {"sleep", "found", "kill", "set"} \/ pc' \notin {"sleep", "found", "kill", "set"}
    BY <2>2
  <2> QED BY <2>1, <2>2, <2>3, <2>4, <2>5 DEF TypeOK, JobRec
<1>11. ASSUME NEW sig \in {"INT", "TSTP"}, KeyHandler(sig) PROVE TypeOK'
  <2>1. CASE fgpid = 0
    <3>1. /\ own' = own \cup {sig} /\ pending' = pending \ {sig}
          /\ UNCHANGED <<jobList, loop, children, chld, keys>>
      BY <1>11, <2>1 DEF KeyHandler
    <3> QED BY <3>1 DEF TypeOK
  <2>2. CASE fgpid # 0 /\ HasGroup(fgpid)
    <3>1. fgpid \in Pid
      BY <2>2, FgpidType
    <3>2. /\ proc' \in [Pid -> {"unborn", "forked", "running", "stopped", "zombie", "gone"}]
          /\ held' \subseteq Pid /\ told' \subseteq Pid /\ lost' \subseteq Pid
      BY <1>11, <2>2, <3>1 DEF TypeOK, KeyHandler, SendINT, SendTSTP
    <3>3. /\ own' = own \ {sig} /\ pending' \subseteq pending \cup {"CHLD"}
          /\ UNCHANGED <<jobList, loop, chld, keys>>
      BY <1>11, <2>2 DEF KeyHandler
    <3> QED BY <3>2, <3>3 DEF TypeOK
  <2>3. CASE fgpid # 0 /\ ~HasGroup(fgpid)
    <3>1. /\ own' = own \ {sig} /\ pending' = pending \ {sig} /\ pc' = "exit1"
          /\ UNCHANGED <<jobList, cmd, pid, slot, children, chld, keys>>
      BY <1>11, <2>3 DEF KeyHandler
    <3> QED BY <3>1 DEF TypeOK
  <2> QED BY <2>1, <2>2, <2>3
<1>12. ASSUME NEW c \in {"fg", "bg"}, NEW p \in Pid, Fork(p, c) PROVE TypeOK'
  BY <1>12 DEF TypeOK, Fork, At
<1>13. ASSUME NEW c \in {"fg", "bg"}, NEW s \in Slots, FindJob(c, s) PROVE TypeOK'
  BY <1>13, NamedIsSlot DEF TypeOK, FindJob, At
<1>14. CASE Quit
  BY <1>14 DEF TypeOK, Quit, At
<1>15. ASSUME NEW p \in Pid, SetPgid(p) \/ Ends(p) \/ Stops(p) PROVE TypeOK'
  <2>1. CASE SetPgid(p)
    BY <2>1 DEF TypeOK, SetPgid
  <2>2. CASE Ends(p)
    BY <2>2 DEF TypeOK, Ends
  <2>3. CASE Stops(p)
    BY <2>3 DEF TypeOK, Stops
  <2> QED BY <1>15, <2>1, <2>2, <2>3
<1>16. ASSUME NEW sig \in {"INT", "TSTP"}, Key(sig) PROVE TypeOK'
  BY <1>16 DEF TypeOK, Key
<1>17. CASE SigQuit
  BY <1>17 DEF TypeOK, SigQuit
<1> QED
  BY <1>1, <1>2, <1>3, <1>4, <1>5, <1>6, <1>7, <1>8, <1>9, <1>10, <1>11, <1>12,
     <1>13, <1>14, <1>15, <1>16, <1>17 DEF Next, Loop, Handlers, Commands, Child, User

-----------------------------------------------------------------------------
(* The inductive invariant. *)

(* No pid is listed twice; what is listed, or about to be, was forked; and *)
(* what is about to be listed is not listed yet.                           *)
PidsDistinct ==
    \A s, t \in Slots : jobs[s].pid = jobs[t].pid /\ jobs[s].pid # 0 => s = t
ListedForked ==
    /\ \A s \in Slots : jobs[s].pid # 0 => proc[jobs[s].pid] # "unborn"
    /\ pc = "add" => /\ pid \in Pid
                      /\ proc[pid] # "unborn"
                      /\ \A s \in Slots : jobs[s].pid # pid

(* A foreground job is the one the loop waits for, or is about to wait for.*)
FgIsWaited ==
    \A s \in Slots : jobs[s].state = "FG" =>
        /\ pc \in {"wait", "sleep"} \cup Dead
        /\ pc = "wait" => jobs[s].pid = pid
        /\ pc = "sleep" => s = slot

ListInv ==
    TypeOK /\ PidsDistinct /\ ListedForked /\ FgIsWaited /\ OneForeground

THEOREM InitInv == Init => ListInv
<1> SUFFICES ASSUME Init PROVE ListInv
  OBVIOUS
<1>1. TypeOK
  BY DEF Init, TypeOK, NoJob, Idle
<1>2. \A s \in Slots : jobs[s].pid = 0 /\ jobs[s].state = "UNDEF"
  BY DEF Init, NoJob
<1> QED BY <1>1, <1>2
     DEF Init, ListInv, PidsDistinct, ListedForked, FgIsWaited, OneForeground

(* What the steps that touch the job list do to it, slot by slot. *)
LEMMA AddEffect ==
    ASSUME TypeOK, NEW p \in Pid, NEW st \in {"FG", "BG"}, addjob(p, st)
    PROVE  \/ jobs' = jobs
           \/ \E x \in Slots :
                /\ jobs'[x].pid = p /\ jobs'[x].state = st
                /\ \A s \in Slots : s # x => jobs'[s] = jobs[s]
<1>1. CASE Free = {}
  BY <1>1 DEF addjob, jobList
<1>2. CASE Free # {}
  <2>1. Free \in SUBSET Slots
    BY DEF Free
  <2>2. Least(Free) \in Slots
    BY <1>2, <2>1, LeastIsMember
  <2> QED BY <1>2, <2>2 DEF addjob, TypeOK
<1> QED BY <1>1, <1>2

LEMMA DeleteEffect ==
    ASSUME TypeOK, NEW p, deletejob(p)
    PROVE  \/ jobs' = jobs
           \/ \E x \in Slots :
                /\ jobs'[x].pid = 0 /\ jobs'[x].state = "UNDEF"
                /\ \A s \in Slots : s # x => jobs'[s] = jobs[s]
<1>1. CASE SlotsOf(p) = {}
  BY <1>1 DEF deletejob, jobList
<1>2. CASE SlotsOf(p) # {}
  <2>1. SlotsOf(p) \in SUBSET Slots
    BY DEF SlotsOf
  <2>2. Least(SlotsOf(p)) \in Slots
    BY <1>2, <2>1, LeastIsMember
  <2> QED BY <1>2, <2>2 DEF deletejob, TypeOK, NoJob
<1> QED BY <1>1, <1>2

LEMMA SetEffect ==
    ASSUME TypeOK, NEW x \in Slots, NEW st, setstate(x, st)
    PROVE  /\ jobs'[x].pid = jobs[x].pid /\ jobs'[x].state = st
           /\ \A s \in Slots : s # x => jobs'[s] = jobs[s]
BY DEF setstate, TypeOK

(* A step that leaves the list and the loop's variables alone, but for     *)
(* ending the shell, keeps the invariant: no child becomes unborn.         *)
LEMMA OthersKeepInv ==
    ASSUME ListInv, TypeOK', UNCHANGED <<jobs, pid, slot>>,
           pc' = pc \/ pc' \in Dead,
           \A p \in Pid : proc[p] # "unborn" => proc'[p] # "unborn"
    PROVE  ListInv'
<1>1. \A s \in Slots : jobs[s].pid \in Pid \cup {0}
  BY DEF ListInv, TypeOK
<1>2. PidsDistinct' /\ OneForeground' /\ FgIsWaited'
  BY DEF ListInv, PidsDistinct, OneForeground, FgIsWaited, Dead
<1>3. ListedForked'
  BY <1>1 DEF ListInv, ListedForked, Dead
<1> QED BY <1>2, <1>3 DEF ListInv

LEMMA AddJobKeepsInv == ListInv /\ TypeOK' /\ AddJob => ListInv'
<1> SUFFICES ASSUME ListInv, TypeOK', AddJob PROVE ListInv'
  OBVIOUS
<1> DEFINE st == IF cmd = "bg" THEN "BG" ELSE "FG"
<1>1. /\ TypeOK /\ pid \in Pid /\ addjob(pid, st) /\ st \in {"FG", "BG"}
      /\ pc = "add" /\ pid' = pid /\ proc' = proc
      /\ pc' = IF cmd = "bg" THEN "prompt" ELSE "wait"
  BY DEF AddJob, At, ListInv, ListedForked, children
<1>2. proc[pid] # "unborn" /\ \A s \in Slots : jobs[s].pid # pid /\ jobs[s].state # "FG"
  BY <1>1 DEF ListInv, ListedForked, FgIsWaited, Dead
<1>3. CASE jobs' = jobs
  BY <1>1, <1>2, <1>3 DEF ListInv, PidsDistinct, ListedForked, FgIsWaited, OneForeground, Dead
<1>4. ASSUME NEW x \in Slots, jobs'[x].pid = pid, jobs'[x].state = st,
             \A s \in Slots : s # x => jobs'[s] = jobs[s]
      PROVE  ListInv'
  <2>1. PidsDistinct'
    BY <1>2, <1>4 DEF PidsDistinct, ListInv
  <2>2. ListedForked'
    BY <1>1, <1>2, <1>4 DEF ListedForked, ListInv
  <2>3. FgIsWaited' /\ OneForeground'
    BY <1>1, <1>2, <1>4 DEF FgIsWaited, OneForeground, Dead
  <2> QED BY <2>1, <2>2, <2>3 DEF ListInv
<1>5. \/ jobs' = jobs
      \/ \E x \in Slots : /\ jobs'[x].pid = pid /\ jobs'[x].state = st
                          /\ \A s \in Slots : s # x => jobs'[s] = jobs[s]
  <2> HIDE DEF st
  <2> QED BY <1>1, AddEffect
<1> QED BY <1>3, <1>4, <1>5

LEMMA WaitFgKeepsInv == ListInv /\ TypeOK' /\ WaitFg => ListInv'
<1> SUFFICES ASSUME ListInv, TypeOK', WaitFg PROVE ListInv'
  OBVIOUS
<1>1. /\ UNCHANGED <<jobs, pid, proc>> /\ pc = "wait"
      /\ slot' = getjobpid(pid) /\ pc' = IF slot' = 0 THEN "segv" ELSE "sleep"
  BY DEF WaitFg, At, jobList, children
<1>2. ASSUME NEW s \in Slots, jobs[s].state = "FG", pc' = "sleep" PROVE s = slot'
  <2>1. slot' \in SlotsOf(pid)
    BY <1>1, <1>2, Getjobpid
  <2>2. slot' \in Slots /\ pid >= 1 /\ jobs[slot'].pid = pid
    BY <2>1 DEF SlotsOf
  <2>3. jobs[s].pid = pid
    BY <1>1, <1>2 DEF ListInv, FgIsWaited, Dead
  <2>4. pid # 0
    BY <2>2
  <2> QED BY <1>2, <2>2, <2>3, <2>4 DEF ListInv, PidsDistinct
<1>3. PidsDistinct' /\ OneForeground' /\ ListedForked'
  BY <1>1 DEF ListInv, PidsDistinct, OneForeground, ListedForked
<1>4. FgIsWaited'
  BY <1>1, <1>2 DEF FgIsWaited, Dead
<1> QED BY <1>3, <1>4 DEF ListInv

LEMMA SetStateKeepsInv == ListInv /\ TypeOK' /\ SetState => ListInv'
<1> SUFFICES ASSUME ListInv, TypeOK', SetState PROVE ListInv'
  OBVIOUS
<1> DEFINE st == IF cmd = "bg" THEN "BG" ELSE "FG"
<1>1. /\ TypeOK /\ slot \in Slots /\ setstate(slot, st) /\ pc = "set"
      /\ pid' = jobs[slot].pid /\ proc' = proc
      /\ pc' = IF cmd = "bg" THEN "prompt" ELSE "wait"
  BY DEF SetState, At, ListInv, TypeOK, children
<1>2. /\ jobs'[slot].pid = jobs[slot].pid /\ jobs'[slot].state = st
      /\ \A s \in Slots : s # slot => jobs'[s] = jobs[s]
  BY <1>1, SetEffect
<1>3. \A s \in Slots : jobs[s].state # "FG"
  BY <1>1 DEF ListInv, FgIsWaited, Dead
<1>4. \A s \in Slots : jobs'[s].pid = jobs[s].pid
  BY <1>2
<1>5. PidsDistinct' /\ ListedForked'
  BY <1>1, <1>4 DEF ListInv, PidsDistinct, ListedForked
<1>6. FgIsWaited' /\ OneForeground'
  BY <1>1, <1>2, <1>3 DEF FgIsWaited, OneForeground, Dead
<1> QED BY <1>5, <1>6 DEF ListInv

LEMMA RecordKeepsInv == ListInv /\ TypeOK' /\ Record => ListInv'
<1> SUFFICES ASSUME ListInv, TypeOK', Record PROVE ListInv'
  OBVIOUS
<1>1. TypeOK /\ UNCHANGED <<pid, slot, proc>>
  BY DEF Record, ListInv, children
<1>2. CASE jobs' = jobs /\ pc' \in {pc, "segv"}
  BY <1>1, <1>2, OthersKeepInv DEF Dead
<1>3. ASSUME NEW x \in Slots, jobs'[x].pid \in {0, jobs[x].pid}, jobs'[x].state # "FG",
             \A s \in Slots : s # x => jobs'[s] = jobs[s], pc' = pc
      PROVE  ListInv'
  <2>1. \A s \in Slots : /\ jobs'[s].pid \in {0, jobs[s].pid}
                         /\ jobs'[s].state = "FG" =>
                                jobs[s].state = "FG" /\ jobs'[s].pid = jobs[s].pid
    BY <1>3
  <2>2. PidsDistinct' /\ OneForeground'
    BY <2>1 DEF ListInv, PidsDistinct, OneForeground
  <2>3. ListedForked'
    <3>1. pid \in Pid => pid # 0
      BY ShellAssumption
    <3> QED BY <1>1, <1>3, <2>1, <3>1 DEF ListInv, ListedForked
  <2>4. FgIsWaited'
    BY <1>1, <1>3, <2>1 DEF ListInv, FgIsWaited, Dead
  <2> QED BY <2>2, <2>3, <2>4 DEF ListInv
<1>4. CASE chld.ended
  BY <1>1, <1>2, <1>3, <1>4, DeleteEffect DEF Record
<1>5. CASE ~chld.ended /\ getjobpid(chld.pid) # 0
  <2>1. getjobpid(chld.pid) \in Slots
    BY <1>5, Getjobpid
  <2> QED BY <1>1, <1>3, <1>5, <2>1, SetEffect DEF Record
<1>6. CASE ~chld.ended /\ getjobpid(chld.pid) = 0
  BY <1>2, <1>6 DEF Record, jobList
<1> QED BY <1>4, <1>5, <1>6

LEMMA ForkKeepsInv ==
    ASSUME ListInv, TypeOK', NEW p \in Pid, NEW c \in {"fg", "bg"}, Fork(p, c)
    PROVE  ListInv'
<1>1. /\ TypeOK /\ pc = "prompt" /\ proc[p] = "unborn" /\ jobs' = jobs
      /\ proc' = [proc EXCEPT ![p] = "forked"] /\ pc' = "add" /\ pid' = p
  BY DEF Fork, At, ListInv, jobList
<1>2. \A q \in Pid : proc'[q] = IF q = p THEN "forked" ELSE proc[q]
  BY <1>1 DEF TypeOK
<1>3. \A s \in Slots : jobs[s].pid \in Pid \cup {0} /\ jobs[s].state # "FG"
  BY <1>1 DEF ListInv, TypeOK, FgIsWaited, Dead
<1>4. \A s \in Slots : jobs[s].pid # p
  BY <1>1, ShellAssumption DEF ListInv, ListedForked
<1>5. ListedForked'
  BY <1>1, <1>2, <1>3, <1>4 DEF ListInv, ListedForked
<1> QED BY <1>1, <1>3, <1>5 DEF ListInv, PidsDistinct, FgIsWaited, OneForeground, Dead

(* The steps of the loop in which no job is in the foreground afterwards   *)
(* and the list stays as it is.                                            *)
LEMMA LoopKeepsInv ==
    ASSUME ListInv, TypeOK', jobs' = jobs, pc' # "add",
           \A p \in Pid : proc[p] # "unborn" => proc'[p] # "unborn",
           \A s \in Slots : jobs[s].state # "FG"
    PROVE  ListInv'
<1>1. \A s \in Slots : jobs[s].pid \in Pid \cup {0}
  BY DEF ListInv, TypeOK
<1> QED BY <1>1 DEF ListInv, PidsDistinct, ListedForked, FgIsWaited, OneForeground, Dead

THEOREM NextInv == ListInv /\ [Next]_vars => ListInv'
<1> SUFFICES ASSUME ListInv, [Next]_vars PROVE ListInv'
  OBVIOUS
<1> USE DEF jobList, loop, children, Dead
<1>0. TypeOK /\ TypeOK'
  BY TypeStep DEF ListInv
<1>1. CASE UNCHANGED vars
  BY <1>0, <1>1, OthersKeepInv DEF vars
<1>2. CASE AddJob
  BY <1>0, <1>2, AddJobKeepsInv
<1>3. CASE WaitFg
  BY <1>0, <1>3, WaitFgKeepsInv
<1>4. CASE WaitFgReturns
  <2>1. \A s \in Slots : jobs[s].state # "FG"
    BY <1>4 DEF WaitFgReturns, At, ListInv, FgIsWaited, Dead
  <2> QED BY <1>0, <1>4, <2>1, LoopKeepsInv DEF WaitFgReturns
<1>5. CASE ReadPid \/ Quit
  <2>1. \A s \in Slots : jobs[s].state # "FG"
    BY <1>5 DEF ReadPid, Quit, At, ListInv, FgIsWaited, Dead
  <2> QED BY <1>0, <1>5, <2>1, LoopKeepsInv DEF ReadPid, Quit
<1>6. CASE Continue
  <2>1. \A s \in Slots : jobs[s].state # "FG"
    BY <1>6 DEF Continue, At, ListInv, FgIsWaited, Dead
  <2>2. \A p \in Pid : proc[p] # "unborn" => proc'[p] # "unborn"
    BY <1>0, <1>6 DEF Continue, SendCONT, TypeOK
  <2> QED BY <1>0, <1>6, <2>1, <2>2, LoopKeepsInv DEF Continue
<1>7. CASE SetState
  BY <1>0, <1>7, SetStateKeepsInv
<1>8. CASE DeliverCHLD
  BY <1>0, <1>8, OthersKeepInv DEF DeliverCHLD
<1>9. CASE WaitPid
  <2>1. \A p \in Pid : proc[p] # "unborn" => proc'[p] # "unborn"
    BY <1>0, <1>9 DEF WaitPid, TypeOK
  <2> QED BY <1>0, <1>9, <2>1, OthersKeepInv DEF WaitPid
<1>10. CASE Record
  BY <1>0, <1>10, RecordKeepsInv
<1>11. ASSUME NEW sig \in {"INT", "TSTP"}, KeyHandler(sig) PROVE ListInv'
  <2>1. \A p \in Pid : proc[p] # "unborn" => proc'[p] # "unborn"
    BY <1>0, <1>11 DEF KeyHandler, SendINT, SendTSTP, TypeOK
  <2> QED BY <1>0, <1>11, <2>1, OthersKeepInv DEF KeyHandler
<1>12. ASSUME NEW c \in {"fg", "bg"}, NEW p \in Pid, Fork(p, c) PROVE ListInv'
  BY <1>0, <1>12, ForkKeepsInv
<1>13. ASSUME NEW c \in {"fg", "bg"}, NEW s \in Slots, FindJob(c, s) PROVE ListInv'
  <2>1. \A t \in Slots : jobs[t].state # "FG"
    BY <1>13 DEF FindJob, At, ListInv, FgIsWaited, Dead
  <2> QED BY <1>0, <1>13, <2>1, LoopKeepsInv DEF FindJob
<1>14. ASSUME NEW p \in Pid, SetPgid(p) \/ Ends(p) \/ Stops(p) PROVE ListInv'
  <2>1. \A q \in Pid : proc[q] # "unborn" => proc'[q] # "unborn"
    BY <1>0, <1>14 DEF SetPgid, Ends, Stops, TypeOK
  <2> QED BY <1>0, <1>14, <2>1, OthersKeepInv DEF SetPgid, Ends, Stops
<1>15. ASSUME NEW sig \in {"INT", "TSTP"}, Key(sig) PROVE ListInv'
  BY <1>0, <1>15, OthersKeepInv DEF Key
<1>16. CASE SigQuit
  BY <1>0, <1>16, OthersKeepInv DEF SigQuit
<1> QED
  BY <1>1, <1>2, <1>3, <1>4, <1>5, <1>6, <1>7, <1>8, <1>9, <1>10, <1>11, <1>12,
     <1>13, <1>14, <1>15, <1>16 DEF Next, Loop, Handlers, Commands, Child, User

(* The variables keep their types, and a slot is only used where one has   *)
(* been found (TypeOK).                                                    *)
THEOREM TypeCorrect == Spec => []TypeOK
<1>1. ListInv => TypeOK
  BY DEF ListInv
<1> QED BY InitInv, NextInv, <1>1, PTL DEF Spec

(* At most one job is in the foreground (tsh.c:36), for any length of the  *)
(* list, any number of children, and every interleaving with the handlers. *)
THEOREM AtMostOneForeground == Spec => []OneForeground
<1>1. ListInv => OneForeground
  BY DEF ListInv
<1> QED BY InitInv, NextInv, <1>1, PTL DEF Spec

-----------------------------------------------------------------------------
(* The job list and the children, when the list cannot be full.            *)

RoomForAll == IsFiniteSet(Pid) /\ Cardinality(Pid) <= MAXJOBS

IsListed(p) == \E s \in Slots : jobs[s].pid = p
Expected(p) ==
    /\ proc[p] \notin {"unborn", "gone"} \/ (chld.pc = "act" /\ chld.pid = p)
    /\ ~(pc = "add" /\ pid = p)

(* What makes JobsAreChildren inductive: the handler cannot run while a    *)
(* job is being added, and it deletes exactly the child it has reaped.     *)
HandlerInv ==
    /\ pc = "add" => chld.pc = "off" /\ proc[pid] \notin {"unborn", "gone"}
    /\ chld.pc = "act" => chld.pid \in Pid /\ (chld.ended <=> proc[chld.pid] = "gone")
                          /\ proc[chld.pid] # "unborn"
    /\ \A p \in Pid : IsListed(p) <=> Expected(p)

TableInv == Alive => HandlerInv

(* The invariant and the property say the same of the list. *)
LEMMA TableIsJobsAreChildren ==
    ASSUME ListInv, TableInv
    PROVE  JobsAreChildren
<1> SUFFICES ASSUME Alive PROVE JobsAreChildren
  BY DEF JobsAreChildren
<1>1. HandlerInv
  BY DEF TableInv
<1>2. \A s \in Slots : jobs[s].pid \in Pid \cup {0}
  BY DEF ListInv, TypeOK
<1>3. 0 \notin Pid
  BY ShellAssumption
<1>4. \A p \in Pid : p \in Listed <=> IsListed(p)
  BY <1>3 DEF Listed, IsListed
<1>5. Listed \subseteq Pid
  BY <1>2 DEF Listed
<1>6. Listed = (Unreaped \cup (IF chld.pc = "act" THEN {chld.pid} ELSE {}))
                  \ (IF pc = "add" THEN {pid} ELSE {})
  BY <1>1, <1>4, <1>5 DEF HandlerInv, Expected, Unreaped
<1>7. \A s, t \in Slots : jobs[s].pid = jobs[t].pid /\ s # t => jobs[s].pid = 0
  BY DEF ListInv, PidsDistinct
<1> QED BY <1>6, <1>7 DEF JobsAreChildren

(* Some slot is free when a child that is not listed is to be added. *)
LEMMA SlotIsFree ==
    ASSUME RoomForAll, TypeOK, PidsDistinct, NEW p \in Pid,
           \A s \in Slots : jobs[s].pid # p
    PROVE  Free # {}
<1> SUFFICES ASSUME Free = {} PROVE FALSE
  OBVIOUS
<1> DEFINE f == [s \in Slots |-> jobs[s].pid]
           T == Pid \ {p}
<1>1. \A s \in Slots : jobs[s].pid \in T
  BY DEF Free, TypeOK
<1>2. f \in [Slots -> T]
  BY <1>1
<1>3. IsFiniteSet(T) /\ Cardinality(T) = Cardinality(Pid) - 1
  BY FS_RemoveElement DEF RoomForAll
<1>4. IsFiniteSet(Slots) /\ Cardinality(Slots) = MAXJOBS
  <2>1. MAXJOBS \in Int /\ 1 \in Int /\ ~(1 > MAXJOBS)
    BY ShellAssumption
  <2> QED BY <2>1, FS_Interval, ShellAssumption DEF Slots
<1>5. Cardinality(T) < Cardinality(Slots)
  <2>1. Cardinality(Pid) \in Nat /\ MAXJOBS \in Nat
    BY FS_CardinalityType, ShellAssumption DEF RoomForAll
  <2> QED BY <1>3, <1>4, <2>1 DEF RoomForAll
<1> HIDE DEF T, f
<1>6. PICK x, y \in Slots : x # y /\ f[x] = f[y]
  BY <1>2, <1>3, <1>4, <1>5, FS_PigeonHole
<1>7. jobs[x].pid = jobs[y].pid
  BY <1>6 DEF f
<1>8. jobs[x].pid # 0
  BY DEF Free
<1> QED BY <1>6, <1>7, <1>8 DEF PidsDistinct

(* A step that keeps the listed pids and reaps or creates no child. *)
LEMMA OthersKeepTable ==
    ASSUME ListInv, TableInv, Alive' => Alive, chld' = chld,
           \A s \in Slots : jobs'[s].pid = jobs[s].pid,
           Alive' => (pc' = "add" <=> pc = "add"), pc = "add" => pid' = pid,
           \A p \in Pid : /\ proc'[p] = "unborn" <=> proc[p] = "unborn"
                          /\ proc'[p] = "gone" <=> proc[p] = "gone"
    PROVE  TableInv'
<1> SUFFICES ASSUME Alive' PROVE HandlerInv'
  BY DEF TableInv
<1>1. HandlerInv /\ (pc' = "add" <=> pc = "add")
  BY DEF TableInv
<1>2. \A p \in Pid : IsListed(p)' <=> IsListed(p)
  BY DEF IsListed
<1>3. \A p \in Pid : Expected(p)' <=> Expected(p)
  BY <1>1 DEF Expected
<1>4. pc = "add" => pid \in Pid
  BY DEF ListInv, ListedForked
<1>5. chld.pc = "act" => chld.pid \in Pid
  BY <1>1 DEF HandlerInv
<1>6. /\ pc' = "add" => chld'.pc = "off" /\ proc'[pid'] \notin {"unborn", "gone"}
      /\ chld'.pc = "act" => chld'.pid \in Pid
            /\ (chld'.ended <=> proc'[chld'.pid] = "gone") /\ proc'[chld'.pid] # "unborn"
  BY <1>1, <1>4, <1>5 DEF HandlerInv
<1> QED BY <1>1, <1>2, <1>3, <1>6 DEF HandlerInv

LEMMA ForkKeepsTable ==
    ASSUME ListInv, TableInv, NEW p \in Pid, NEW c, Fork(p, c)
    PROVE  TableInv'
<1>1. /\ pc = "prompt" /\ chld.pc = "off" /\ proc[p] = "unborn" /\ jobs' = jobs
      /\ pc' = "add" /\ pid' = p /\ chld' = chld
  BY DEF Fork, At, jobList
<1>2. \A q \in Pid : proc'[q] = IF q = p THEN "forked" ELSE proc[q]
  BY DEF Fork, ListInv, TypeOK
<1>3. HandlerInv
  BY <1>1 DEF TableInv, Alive, Dead
<1>4. \A q \in Pid : IsListed(q)' <=> IsListed(q)
  BY <1>1 DEF IsListed
<1>5. ~Expected(p) /\ ~Expected(p)'
  BY <1>1 DEF Expected
<1>6. \A q \in Pid : q # p => (Expected(q)' <=> Expected(q))
  BY <1>1, <1>2 DEF Expected
<1>7. HandlerInv'
  BY <1>1, <1>2, <1>3, <1>4, <1>5, <1>6 DEF HandlerInv
<1> QED BY <1>7 DEF TableInv

LEMMA AddJobKeepsTable ==
    ASSUME RoomForAll, ListInv, TableInv, AddJob
    PROVE  TableInv'
<1> DEFINE st == IF cmd = "bg" THEN "BG" ELSE "FG"
<1>1. /\ pc = "add" /\ chld.pc = "off" /\ addjob(pid, st) /\ pid \in Pid
      /\ pc' # "add" /\ pid' = pid /\ chld' = chld /\ proc' = proc
      /\ proc[pid] # "unborn" /\ \A s \in Slots : jobs[s].pid # pid
  BY DEF AddJob, At, ListInv, ListedForked, children
<1>2. Free # {}
  BY <1>1, SlotIsFree DEF ListInv
<1>3. Least(Free) \in Slots /\ jobs[Least(Free)].pid = 0
  <2>1. Free \in SUBSET Slots
    BY DEF Free
  <2>2. Least(Free) \in Free
    BY <1>2, <2>1, LeastIsMember
  <2> QED BY <2>2 DEF Free
<1>4. \A s \in Slots : jobs'[s].pid = IF s = Least(Free) THEN pid ELSE jobs[s].pid
  BY <1>1, <1>2, <1>3 DEF addjob, ListInv, TypeOK
<1>5. HandlerInv
  BY <1>1 DEF TableInv, Alive, Dead
<1>6. \A q \in Pid : q # 0
  BY ShellAssumption
<1>7. \A q \in Pid : IsListed(q)' <=> IsListed(q) \/ q = pid
  BY <1>3, <1>4, <1>6 DEF IsListed
<1>8. Expected(pid)'
  BY <1>1, <1>5 DEF Expected, HandlerInv
<1>9. \A q \in Pid : q # pid => (Expected(q)' <=> Expected(q))
  BY <1>1 DEF Expected
<1>10. HandlerInv'
  BY <1>1, <1>5, <1>7, <1>8, <1>9 DEF HandlerInv
<1> QED BY <1>10 DEF TableInv

LEMMA WaitPidKeepsTable ==
    ASSUME ListInv, TableInv, WaitPid
    PROVE  TableInv'
<1> SUFFICES ASSUME Alive' PROVE HandlerInv'
  BY DEF TableInv
<1>1. /\ chld.pc = "wait" /\ jobs' = jobs /\ pc' = pc /\ pid' = pid /\ HandlerInv
  BY DEF WaitPid, TableInv, jobList, loop
<1>2. pc # "add"
  BY <1>1 DEF HandlerInv
<1>3. \A q \in Pid : IsListed(q)' <=> IsListed(q)
  BY <1>1 DEF IsListed
<1>4. CASE Reportable = {}
  <2>1. proc' = proc /\ chld'.pc = "off"
    BY <1>4 DEF WaitPid, Idle, children
  <2>2. \A q \in Pid : Expected(q)' <=> Expected(q)
    BY <1>1, <2>1 DEF Expected
  <2> QED BY <1>1, <1>2, <1>3, <2>1, <2>2 DEF HandlerInv
<1>5. ASSUME NEW p \in Reportable,
             chld' = [pc |-> "act", pid |-> p, ended |-> proc[p] = "zombie"],
             proc' = [proc EXCEPT ![p] = IF @ = "zombie" THEN "gone" ELSE @]
      PROVE  HandlerInv'
  <2>1. /\ p \in Pid /\ proc[p] \in {"zombie", "stopped"}
        /\ chld'.pc = "act" /\ chld'.pid = p /\ chld'.ended = (proc[p] = "zombie")
    BY <1>5 DEF Reportable
  <2>2. \A q \in Pid : proc'[q] = IF q = p /\ proc[p] = "zombie" THEN "gone" ELSE proc[q]
    BY <1>5, <2>1 DEF ListInv, TypeOK
  <2>3. \A q \in Pid : Expected(q)' <=> Expected(q)
    BY <1>1, <1>2, <2>1, <2>2 DEF Expected
  <2>4. chld'.ended <=> proc'[p] = "gone"
    BY <2>1, <2>2
  <2> QED BY <1>1, <1>2, <1>3, <2>1, <2>2, <2>3, <2>4 DEF HandlerInv
<1> QED BY <1>4, <1>5 DEF WaitPid

LEMMA RecordKeepsTable ==
    ASSUME ListInv, TableInv, Record
    PROVE  TableInv'
<1> SUFFICES ASSUME Alive' PROVE HandlerInv'
  BY DEF TableInv
<1>0. PICK p : p = chld.pid
  OBVIOUS
<1>1. /\ chld.pc = "act" /\ HandlerInv /\ proc' = proc /\ pid' = pid
      /\ chld'.pc = "wait"
  BY DEF Record, TableInv, children, NextRound, Idle
<1>2. /\ pc # "add" /\ p \in Pid /\ p >= 1
      /\ (chld.ended <=> proc[p] = "gone") /\ proc[p] # "unborn"
  <2>1. p \in Pid /\ pc # "add"
    BY <1>0, <1>1 DEF HandlerInv
  <2>2. p >= 1
    BY <2>1, ShellAssumption
  <2> QED BY <1>0, <1>1, <2>1, <2>2 DEF HandlerInv
<1>3. SlotsOf(p) = {s \in Slots : jobs[s].pid = p}
  BY <1>2 DEF SlotsOf
<1>4. pc' = pc
  BY DEF Record, Alive, Dead
<1>5. \A q \in Pid : q # p => (Expected(q)' <=> Expected(q))
  BY <1>0, <1>1, <1>2, <1>4 DEF Expected
<1>6. CASE chld.ended
  <2>1. ~Expected(p)'
    BY <1>0, <1>1, <1>2, <1>6 DEF Expected
  <2>2. Expected(p)
    BY <1>0, <1>1, <1>2 DEF Expected
  <2>3. IsListed(p)
    BY <1>1, <1>2, <2>2 DEF HandlerInv
  <2>4. SlotsOf(p) # {} /\ SlotsOf(p) \in SUBSET Slots
    BY <1>3, <2>3 DEF IsListed
  <2>5. PICK x \in Slots : jobs[x].pid = p /\ jobs' = [jobs EXCEPT ![x] = NoJob]
    BY <1>0, <1>3, <1>6, <2>4, LeastIsMember DEF Record, deletejob
  <2>6. \A s \in Slots : jobs'[s].pid = IF s = x THEN 0 ELSE jobs[s].pid
    BY <2>5 DEF ListInv, TypeOK, NoJob
  <2>7. \A q \in Pid : q # 0
    BY ShellAssumption
  <2>8. ~IsListed(p)' /\ \A q \in Pid : q # p => (IsListed(q)' <=> IsListed(q))
    BY <1>2, <2>5, <2>6, <2>7 DEF IsListed, ListInv, PidsDistinct
  <2> QED BY <1>1, <1>2, <1>4, <1>5, <2>1, <2>8 DEF HandlerInv
<1>7. CASE ~chld.ended
  <2>1. Expected(p)' <=> Expected(p)
    BY <1>0, <1>1, <1>2, <1>4, <1>7 DEF Expected
  <2>2. PICK x \in Slots : setstate(x, "ST")
    BY <1>4, <1>7, Getjobpid DEF Record, Alive, Dead
  <2>3. \A s \in Slots : jobs'[s].pid = jobs[s].pid
    BY <2>2, SetEffect DEF ListInv
  <2>4. \A q \in Pid : IsListed(q)' <=> IsListed(q)
    BY <2>3 DEF IsListed
  <2> QED BY <1>1, <1>2, <1>4, <1>5, <2>1, <2>4 DEF HandlerInv
<1> QED BY <1>6, <1>7

LEMMA TableInit == ListInv /\ Init => TableInv
<1> SUFFICES ASSUME ListInv, Init PROVE HandlerInv
  BY DEF TableInv
<1>1. /\ pc = "prompt" /\ chld.pc = "off" /\ \A s \in Slots : jobs[s].pid = 0
      /\ \A p \in Pid : proc[p] = "unborn" /\ p # 0
  BY ShellAssumption DEF Init, Idle, NoJob
<1> QED BY <1>1 DEF HandlerInv, IsListed, Expected

LEMMA TableStep == RoomForAll /\ ListInv /\ TableInv /\ [Next]_vars => TableInv'
<1> SUFFICES ASSUME RoomForAll, ListInv, TableInv, [Next]_vars PROVE TableInv'
  OBVIOUS
<1> USE DEF jobList, loop, children
<1>0. TypeOK
  BY DEF ListInv
<1>1. CASE UNCHANGED vars
  BY <1>1, OthersKeepTable DEF vars, Alive, Dead
<1>2. CASE AddJob
  BY <1>2, AddJobKeepsTable
<1>3. CASE WaitFg \/ WaitFgReturns \/ ReadPid \/ Quit \/ SigQuit
  BY <1>3, OthersKeepTable
     DEF WaitFg, WaitFgReturns, ReadPid, Quit, SigQuit, At, Alive, Dead
<1>4. CASE Continue
  <2>1. \A p \in Pid : /\ proc'[p] = "unborn" <=> proc[p] = "unborn"
                       /\ proc'[p] = "gone" <=> proc[p] = "gone"
    BY <1>0, <1>4 DEF Continue, SendCONT, TypeOK
  <2> QED BY <1>4, <2>1, OthersKeepTable DEF Continue, At, Alive, Dead
<1>5. CASE SetState
  <2>1. \A s \in Slots : jobs'[s].pid = jobs[s].pid
    BY <1>0, <1>5, SetEffect DEF SetState, At, TypeOK
  <2> QED BY <1>5, <2>1, OthersKeepTable DEF SetState, At, Alive, Dead
<1>6. CASE DeliverCHLD
  <2>1. /\ chld.pc = "off" /\ chld'.pc = "wait" /\ UNCHANGED <<jobs, pc, pid, proc>>
        /\ pc # "add"
    BY <1>6 DEF DeliverCHLD, Blocked, Idle
  <2>2. \A p \in Pid : /\ IsListed(p)' <=> IsListed(p)
                       /\ Expected(p)' <=> Expected(p)
    BY <2>1 DEF IsListed, Expected
  <2> QED BY <2>1, <2>2 DEF TableInv, HandlerInv, Alive
<1>7. CASE WaitPid
  BY <1>7, WaitPidKeepsTable
<1>8. CASE Record
  BY <1>8, RecordKeepsTable
<1>9. ASSUME NEW sig \in {"INT", "TSTP"}, KeyHandler(sig) PROVE TableInv'
  <2>1. \A p \in Pid : /\ proc'[p] = "unborn" <=> proc[p] = "unborn"
                       /\ proc'[p] = "gone" <=> proc[p] = "gone"
    BY <1>0, <1>9 DEF KeyHandler, SendINT, SendTSTP, TypeOK
  <2>2. pc' = pc \/ pc' = "exit1"
    BY <1>9 DEF KeyHandler
  <2> QED BY <1>9, <2>1, <2>2, OthersKeepTable DEF KeyHandler, Alive, Dead
<1>10. ASSUME NEW c \in {"fg", "bg"}, NEW p \in Pid, Fork(p, c) PROVE TableInv'
  BY <1>10, ForkKeepsTable
<1>11. ASSUME NEW c \in {"fg", "bg"}, NEW s \in Slots, FindJob(c, s) PROVE TableInv'
  BY <1>11, OthersKeepTable DEF FindJob, At, Alive, Dead
<1>12. ASSUME NEW p \in Pid, SetPgid(p) \/ Ends(p) \/ Stops(p) PROVE TableInv'
  <2>1. \A q \in Pid : /\ proc'[q] = "unborn" <=> proc[q] = "unborn"
                       /\ proc'[q] = "gone" <=> proc[q] = "gone"
    BY <1>0, <1>12 DEF SetPgid, Ends, Stops, TypeOK
  <2> QED BY <1>12, <2>1, OthersKeepTable DEF SetPgid, Ends, Stops, Alive, Dead
<1>13. ASSUME NEW sig \in {"INT", "TSTP"}, Key(sig) PROVE TableInv'
  BY <1>13, OthersKeepTable DEF Key, Alive, Dead
<1> QED
  BY <1>1, <1>2, <1>3, <1>4, <1>5, <1>6, <1>7, <1>8, <1>9, <1>10, <1>11, <1>12,
     <1>13 DEF Next, Loop, Handlers, Commands, Child, User

(* As long as the list cannot be full, it holds every child that has not   *)
(* been reaped, once, and nothing else (eval, sigchld_handler).            *)
THEOREM ListIsChildren ==
    ASSUME RoomForAll
    PROVE  Spec => []JobsAreChildren
<1>1. Init => ListInv /\ TableInv
  BY InitInv, TableInit
<1>2. ListInv /\ TableInv /\ [Next]_vars => (ListInv /\ TableInv)'
  BY NextInv, TableStep
<1>3. ListInv /\ TableInv => JobsAreChildren
  BY TableIsJobsAreChildren
<1> QED BY <1>1, <1>2, <1>3, PTL DEF Spec

-----------------------------------------------------------------------------
(* The states of the jobs and of the children.                             *)

(* The handler is running or will run. *)
Watched == "CHLD" \in pending \/ chld.pc # "off"

(* What the handler has learnt is true, and has not been overtaken: only   *)
(* SIGCONT ends a stop, and fg and bg do not run between waitpid and the   *)
(* update.                                                                 *)
Learnt ==
    /\ \A p \in told : proc[p] = "stopped"
    /\ chld.pc = "act" => /\ chld.pid \in Pid
                          /\ IF chld.ended THEN proc[chld.pid] = "gone"
                                           ELSE chld.pid \in told
(* A stop it has not learnt of is going to be reported. *)
Noticed == \A p \in Pid : proc[p] = "stopped" /\ p \notin told => Watched
(* A stop it has learnt of is in the list, or lost, or is the update it is *)
(* about to make ...                                                       *)
ShownStopped ==
    \A s \in Slots : jobs[s].pid \in told =>
        \/ jobs[s].state = "ST"
        \/ jobs[s].pid \in lost
        \/ chld.pc = "act" /\ ~chld.ended /\ chld.pid = jobs[s].pid
(* ... and nothing else is shown stopped, but the job fg or bg has just    *)
(* continued and is about to update.                                       *)
ReallyStopped ==
    \A s \in Slots : jobs[s].pid # 0 /\ jobs[s].state = "ST" =>
        proc[jobs[s].pid] = "stopped" \/ (pc = "set" /\ s = slot)

(* Where the loop is: a job it adds has not been reported; the pid it      *)
(* continues is still the job's, or has gone; and the job whose state it   *)
(* sets has been continued, and a stop of it reported since is lost.       *)
AddingInv == pc = "add" => chld.pc = "off" /\ pid \notin told
KillingInv == pc = "kill" => jobs[slot].pid = pid \/ (pid \in Pid /\ proc[pid] = "gone")
SettingInv ==
    pc = "set" /\ jobs[slot].pid \in told =>
        \/ jobs[slot].pid \in lost
        \/ chld.pc = "act" /\ ~chld.ended /\ chld.pid = jobs[slot].pid

Shown ==
    /\ Learnt /\ Noticed /\ ShownStopped /\ ReallyStopped
    /\ AddingInv /\ KillingInv /\ SettingInv
ShownInv == Alive => Shown

LEMMA ShownInit == Init => ShownInv
<1> SUFFICES ASSUME Init PROVE Shown
  BY DEF ShownInv
<1>1. /\ pc = "prompt" /\ chld.pc = "off" /\ told = {}
      /\ \A s \in Slots : jobs[s].pid = 0
      /\ \A p \in Pid : proc[p] = "unborn"
  BY DEF Init, Idle, NoJob
<1> QED
  BY <1>1 DEF Shown, Learnt, Noticed, ShownStopped, ReallyStopped, AddingInv,
              KillingInv, SettingInv

LEMMA ShownIsStatesMatch ==
    ASSUME ListInv, ShownInv
    PROVE  StatesMatch
<1> SUFFICES ASSUME pc = "prompt", chld.pc = "off", "CHLD" \notin pending,
                    NEW s \in Slots, jobs[s].pid # 0, jobs[s].pid \notin lost
             PROVE  jobs[s].state = "ST" <=> proc[jobs[s].pid] = "stopped"
  BY DEF StatesMatch
<1>1. Learnt /\ Noticed /\ ShownStopped /\ ReallyStopped
  BY DEF ShownInv, Shown, Alive, Dead
<1>2. jobs[s].pid \in Pid
  BY DEF ListInv, TypeOK
<1>3. ASSUME jobs[s].state = "ST" PROVE proc[jobs[s].pid] = "stopped"
  BY <1>1, <1>3 DEF ReallyStopped
<1>4. ASSUME proc[jobs[s].pid] = "stopped" PROVE jobs[s].state = "ST"
  <2>1. jobs[s].pid \in told
    BY <1>1, <1>2, <1>4 DEF Noticed, Watched
  <2> QED BY <1>1, <2>1 DEF ShownStopped
<1> QED BY <1>3, <1>4

(* A step that leaves the list and the handler alone and continues no      *)
(* child; where it stops one, the handler is told.                         *)
LEMMA OthersKeepShown ==
    ASSUME ListInv, ShownInv, Alive' => Alive, UNCHANGED <<jobs, told, lost, chld>>,
           "CHLD" \in pending => "CHLD" \in pending',
           \A p \in Pid : /\ proc[p] = "stopped" => proc'[p] = "stopped"
                          /\ proc[p] = "gone" => proc'[p] = "gone"
                          /\ proc'[p] = "stopped" /\ proc[p] # "stopped" =>
                                "CHLD" \in pending',
           Alive' => (pc' = "set" <=> pc = "set"), pc = "set" => slot' = slot,
           Alive' => AddingInv' /\ KillingInv'
    PROVE  ShownInv'
<1> SUFFICES ASSUME Alive' PROVE Shown'
  BY DEF ShownInv
<1>1. Shown
  BY DEF ShownInv
<1>2. /\ told \subseteq Pid
      /\ \A s \in Slots : jobs[s].pid \in Pid \cup {0}
      /\ chld.pid \in Pid \cup {0}
  BY DEF ListInv, TypeOK
<1>3. Learnt'
  <2>1. \A p \in told' : proc'[p] = "stopped"
    BY <1>1, <1>2 DEF Shown, Learnt
  <2>2. ASSUME chld'.pc = "act", chld'.ended PROVE proc'[chld'.pid] = "gone"
    <3>1. proc[chld.pid] = "gone" /\ chld.pid \in Pid
      BY <1>1, <2>2 DEF Shown, Learnt
    <3> QED BY <3>1
  <2>3. ASSUME chld'.pc = "act", ~chld'.ended PROVE chld'.pid \in told'
    BY <1>1, <2>3 DEF Shown, Learnt
  <2> QED BY <1>1, <2>1, <2>2, <2>3 DEF Shown, Learnt
<1>4. Noticed'
  BY <1>1 DEF Shown, Noticed, Watched
<1>5. ShownStopped'
  BY <1>1 DEF Shown, ShownStopped
<1>6. ReallyStopped'
  BY <1>1, <1>2 DEF Shown, ReallyStopped
<1>7. SettingInv'
  BY <1>1 DEF Shown, SettingInv
<1> QED BY <1>3, <1>4, <1>5, <1>6, <1>7 DEF Shown

LEMMA AddJobKeepsShown ==
    ASSUME ListInv, ShownInv, AddJob
    PROVE  ShownInv'
<1> DEFINE st == IF cmd = "bg" THEN "BG" ELSE "FG"
<1>1. /\ TypeOK /\ pid \in Pid /\ addjob(pid, st) /\ st \in {"FG", "BG"}
      /\ pc = "add" /\ pc' \in {"prompt", "wait"}
      /\ UNCHANGED <<chld, told, lost, proc, pending>>
  BY DEF AddJob, At, ListInv, ListedForked, children
<1>2. Shown
  BY <1>1 DEF ShownInv, Alive, Dead
<1>3. chld.pc = "off" /\ pid \notin told
  BY <1>1, <1>2 DEF Shown, AddingInv
<1>4. \/ jobs' = jobs
      \/ \E x \in Slots : /\ jobs'[x].pid = pid /\ jobs'[x].state = st
                          /\ \A s \in Slots : s # x => jobs'[s] = jobs[s]
  <2> HIDE DEF st
  <2> QED BY <1>1, AddEffect
<1>5. \A s \in Slots : \/ jobs'[s] = jobs[s]
                       \/ jobs'[s].pid = pid /\ jobs'[s].state # "ST"
  BY <1>1, <1>4
<1>6. Learnt' /\ Noticed'
  BY <1>1, <1>2 DEF Shown, Learnt, Noticed, Watched
<1>7. ShownStopped'
  BY <1>1, <1>2, <1>3, <1>5 DEF Shown, ShownStopped
<1>8. ReallyStopped'
  BY <1>1, <1>2, <1>5 DEF Shown, ReallyStopped
<1>9. AddingInv' /\ KillingInv' /\ SettingInv'
  BY <1>1 DEF AddingInv, KillingInv, SettingInv
<1> QED BY <1>6, <1>7, <1>8, <1>9 DEF ShownInv, Shown

(* fg or bg continues the very job it has found, so no other job changes,  *)
(* and that one is no longer stopped.                                      *)
LEMMA ContinueKeepsShown ==
    ASSUME ListInv, ShownInv, Continue
    PROVE  ShownInv'
<1> SUFFICES ASSUME Alive' PROVE Shown'
  BY DEF ShownInv
<1>1. /\ pc = "kill" /\ pc' = "set" /\ chld.pc = "off" /\ slot' = slot /\ slot \in Slots
      /\ UNCHANGED <<jobs, chld>> /\ pid \in Pid \cup {0}
  BY DEF Continue, At, Alive, Dead, ListInv, TypeOK, jobList
<1>2. Shown
  BY <1>1 DEF ShownInv, Alive, Dead
<1>3. \A s \in Slots : jobs[s].pid \in Pid \cup {0}
  BY DEF ListInv, TypeOK
<1>4. told \subseteq Pid /\ 0 \notin Pid
  BY ShellAssumption DEF ListInv, TypeOK
<1>5. AddingInv' /\ KillingInv'
  BY <1>1 DEF AddingInv, KillingInv
<1>6. CASE UNCHANGED <<children, pending>> /\ (pid # 0 => pid \in Pid /\ proc[pid] # "stopped" /\ proc[pid] # "gone")
  <2>1. UNCHANGED <<proc, told, lost, pending>>
    BY <1>6 DEF children
  <2>2. jobs[slot].pid = pid
    BY <1>1, <1>2, <1>4, <1>6 DEF Shown, KillingInv
  <2>3. Learnt' /\ Noticed' /\ ShownStopped'
    BY <1>1, <1>2, <2>1 DEF Shown, Learnt, Noticed, Watched, ShownStopped
  <2>4. ReallyStopped'
    BY <1>1, <1>2, <2>1 DEF Shown, ReallyStopped
  <2>5. SettingInv'
    <3>1. pid \notin told
      BY <1>2, <1>4, <1>6 DEF Shown, Learnt
    <3> QED BY <1>1, <2>1, <2>2, <3>1 DEF SettingInv
  <2> QED BY <1>5, <2>3, <2>4, <2>5 DEF Shown
<1>7. CASE pid \in Pid /\ proc[pid] = "stopped" /\ SendCONT(pid)
  <2>1. /\ \A p \in Pid : p # pid => proc'[p] = proc[p]
        /\ proc'[pid] # "stopped" /\ "CHLD" \in pending'
        /\ told' = told \ {pid} /\ lost' = lost \ {pid}
    BY <1>7 DEF SendCONT, ListInv, TypeOK
  <2>2. jobs[slot].pid = pid
    BY <1>1, <1>2, <1>7 DEF Shown, KillingInv
  <2>3. Learnt'
    BY <1>1, <1>2, <1>4, <2>1 DEF Shown, Learnt
  <2>4. Noticed'
    BY <2>1 DEF Noticed, Watched
  <2>5. ShownStopped'
    BY <1>1, <1>2, <2>1 DEF Shown, ShownStopped
  <2>6. \A s \in Slots : jobs[s].pid = pid => s = slot
    BY <1>1, <1>4, <1>7, <2>2 DEF ListInv, PidsDistinct
  <2>7. ReallyStopped'
    BY <1>1, <1>2, <1>3, <2>1, <2>6 DEF Shown, ReallyStopped
  <2>8. SettingInv'
    BY <1>1, <2>1, <2>2 DEF SettingInv
  <2> QED BY <1>5, <2>3, <2>4, <2>5, <2>7, <2>8 DEF Shown
<1>8. CASE pid = 0
  BY <1>6, <1>8 DEF Continue
<1>9. CASE pid \in Pid /\ HasGroup(pid) /\ proc[pid] # "stopped"
  <2>1. UNCHANGED <<children, pending>>
    BY <1>4, <1>9 DEF Continue, SendCONT
  <2> QED BY <1>6, <1>9, <2>1 DEF HasGroup
<1>10. CASE pid \in Pid /\ HasGroup(pid) /\ proc[pid] = "stopped"
  BY <1>4, <1>7, <1>10 DEF Continue
<1>11. CASE pid \in Pid /\ ~HasGroup(pid)
  BY <1>1, <1>4, <1>11 DEF Continue
<1> QED BY <1>1, <1>8, <1>9, <1>10, <1>11

LEMMA SetStateKeepsShown ==
    ASSUME ListInv, ShownInv, SetState
    PROVE  ShownInv'
<1> DEFINE st == IF cmd = "bg" THEN "BG" ELSE "FG"
<1>1. /\ TypeOK /\ slot \in Slots /\ setstate(slot, st) /\ pc = "set" /\ st # "ST"
      /\ pc' \in {"prompt", "wait"} /\ chld.pc = "off"
      /\ UNCHANGED <<chld, told, lost, proc, pending>>
  BY DEF SetState, At, ListInv, TypeOK, children
<1>2. Shown
  BY <1>1 DEF ShownInv, Alive, Dead
<1>3. /\ jobs'[slot].pid = jobs[slot].pid /\ jobs'[slot].state = st
      /\ \A s \in Slots : s # slot => jobs'[s] = jobs[s]
  <2> HIDE DEF st
  <2> QED BY <1>1, SetEffect
<1>4. Learnt' /\ Noticed'
  BY <1>1, <1>2 DEF Shown, Learnt, Noticed, Watched
<1>5. jobs[slot].pid \in told => jobs[slot].pid \in lost
  BY <1>1, <1>2 DEF Shown, SettingInv
<1>6. ShownStopped'
  BY <1>1, <1>2, <1>3, <1>5 DEF Shown, ShownStopped
<1>7. ReallyStopped'
  BY <1>1, <1>2, <1>3 DEF Shown, ReallyStopped
<1>8. AddingInv' /\ KillingInv' /\ SettingInv'
  BY <1>1 DEF AddingInv, KillingInv, SettingInv
<1> QED BY <1>4, <1>6, <1>7, <1>8 DEF ShownInv, Shown

LEMMA DeliverKeepsShown ==
    ASSUME ListInv, ShownInv, DeliverCHLD
    PROVE  ShownInv'
<1>1. /\ Shown /\ pc # "add" /\ chld.pc = "off" /\ chld'.pc = "wait"
      /\ UNCHANGED <<jobs, pc, pid, slot, proc, told, lost>>
  BY DEF DeliverCHLD, ShownInv, Blocked, Idle, jobList, loop, children
<1> QED
  BY <1>1 DEF ShownInv, Shown, Learnt, Noticed, Watched, ShownStopped, ReallyStopped,
              AddingInv, KillingInv, SettingInv

(* waitpid reports a stop, which the list does not show yet, or reaps a    *)
(* child; without either, no stop is left to be noticed.                   *)
LEMMA WaitPidKeepsShown ==
    ASSUME ListInv, ShownInv, WaitPid
    PROVE  ShownInv'
<1>1. /\ Shown /\ chld.pc = "wait" /\ pc # "add"
      /\ UNCHANGED <<jobs, pc, pid, slot, pending>>
  BY DEF WaitPid, ShownInv, Shown, AddingInv, jobList, loop
<1>2. CASE Reportable = {}
  <2>1. chld'.pc = "off" /\ UNCHANGED <<proc, told, lost>>
    BY <1>2 DEF WaitPid, Idle, children
  <2>2. \A p \in Pid : proc[p] = "stopped" => p \in told
    BY <1>2 DEF Reportable
  <2> QED
    BY <1>1, <2>1, <2>2
       DEF ShownInv, Shown, Learnt, Noticed, ShownStopped, ReallyStopped,
           AddingInv, KillingInv, SettingInv
<1>3. ASSUME NEW p \in Reportable,
             chld' = [pc |-> "act", pid |-> p, ended |-> proc[p] = "zombie"],
             proc' = [proc EXCEPT ![p] = IF @ = "zombie" THEN "gone" ELSE @],
             told' = IF proc[p] = "stopped" THEN told \cup {p} ELSE told,
             lost' = lost
      PROVE  ShownInv'
  <2>1. /\ p \in Pid /\ proc[p] \in {"zombie", "stopped"}
        /\ chld'.pc = "act" /\ chld'.pid = p /\ chld'.ended = (proc[p] = "zombie")
    BY <1>3 DEF Reportable
  <2>2. \A q \in Pid : proc'[q] = IF q = p /\ proc[p] = "zombie" THEN "gone" ELSE proc[q]
    BY <1>3, <2>1 DEF ListInv, TypeOK
  <2>3. told \subseteq Pid /\ \A s \in Slots : jobs[s].pid \in Pid \cup {0}
    BY DEF ListInv, TypeOK
  <2>4. Learnt'
    <3>1. \A q \in told' : q \in told \/ (q = p /\ proc[p] = "stopped")
      BY <1>3
    <3>2. \A q \in told : q \in Pid /\ proc[q] = "stopped"
      BY <1>1, <2>3 DEF Shown, Learnt
    <3>3. \A q \in told' : proc'[q] = "stopped"
      BY ONLY <2>1, <2>2, <3>1, <3>2
    <3>4. proc[p] = "stopped" => p \in told'
      BY <1>3
    <3>5. IF chld'.ended THEN proc'[chld'.pid] = "gone" ELSE chld'.pid \in told'
      BY ONLY <2>1, <2>2, <3>4
    <3> QED BY ONLY <2>1, <3>3, <3>5 DEF Learnt
  <2>5. Noticed'
    BY <2>1 DEF Noticed, Watched
  <2>6. ShownStopped'
    BY <1>1, <1>3, <2>1 DEF Shown, ShownStopped
  <2>7. ReallyStopped'
    BY <1>1, <2>1, <2>2, <2>3 DEF Shown, ReallyStopped
  <2>8. AddingInv' /\ KillingInv'
    BY <1>1, <2>2 DEF Shown, AddingInv, KillingInv
  <2>9. SettingInv'
    <3>1. \A q \in told' : q \in told \/ (q = p /\ proc[p] = "stopped")
      BY <1>3
    <3> QED BY <1>1, <1>3, <2>1, <3>1 DEF Shown, SettingInv
  <2> QED BY <2>4, <2>5, <2>6, <2>7, <2>8, <2>9 DEF ShownInv, Shown
<1> QED BY <1>2, <1>3 DEF WaitPid

(* The handler makes the update it has learnt of. *)
LEMMA RecordKeepsShown ==
    ASSUME ListInv, ShownInv, Record
    PROVE  ShownInv'
<1> SUFFICES ASSUME Alive' PROVE Shown'
  BY DEF ShownInv
<1>0. PICK p : p = chld.pid
  OBVIOUS
<1>1. /\ TypeOK /\ Shown /\ chld.pc = "act" /\ chld'.pc = "wait" /\ pc # "add" /\ pc' = pc
      /\ UNCHANGED <<pid, slot, proc, told, pending>>
  BY DEF Record, ShownInv, Shown, AddingInv, Alive, Dead, ListInv, children, NextRound, Idle
<1>2. p \in Pid /\ p >= 1 /\ 0 \notin Pid /\ told \subseteq Pid
  BY <1>0, <1>1, ShellAssumption DEF Shown, Learnt, TypeOK
<1>3. \A s \in Slots : jobs[s].pid \in Pid \cup {0}
  BY <1>1 DEF TypeOK
<1>4. SlotsOf(p) = {s \in Slots : jobs[s].pid = p}
  BY <1>2 DEF SlotsOf
<1>5. Learnt' /\ Noticed' /\ AddingInv'
  BY <1>1 DEF Shown, Learnt, Noticed, Watched, AddingInv
<1>6. pc \in {"kill", "set"} => slot \in Slots
  BY <1>1 DEF TypeOK
<1>7. CASE chld.ended
  <2>1. proc[p] = "gone" /\ deletejob(p)
    BY <1>0, <1>1, <1>7 DEF Shown, Learnt, Record
  <2>2. \A s \in Slots : \/ jobs'[s] = jobs[s]
                         \/ jobs[s].pid = p /\ jobs'[s].pid = 0
    <3>1. CASE SlotsOf(p) = {}
      BY <2>1, <3>1 DEF deletejob, jobList
    <3>2. CASE SlotsOf(p) # {}
      <4>1. PICK x \in Slots : jobs[x].pid = p /\ jobs' = [jobs EXCEPT ![x] = NoJob]
        BY <1>4, <2>1, <3>2, LeastIsMember DEF deletejob
      <4> QED BY <1>1, <4>1 DEF TypeOK, NoJob
    <3> QED BY <3>1, <3>2
  <2>0. lost' = lost
    BY <1>7 DEF Record
  <2>3. ShownStopped'
    BY <1>1, <1>2, <1>7, <2>0, <2>2 DEF Shown, ShownStopped
  <2>4. ReallyStopped'
    BY <1>1, <2>2 DEF Shown, ReallyStopped
  <2>5. KillingInv' /\ SettingInv'
    BY <1>1, <1>2, <1>6, <1>7, <2>0, <2>1, <2>2 DEF Shown, KillingInv, SettingInv
  <2> QED BY <1>5, <2>3, <2>4, <2>5 DEF Shown
<1>8. CASE ~chld.ended
  <2>1. p \in told /\ proc[p] = "stopped"
    BY <1>0, <1>1, <1>8 DEF Shown, Learnt
  <2>2. getjobpid(p) \in SlotsOf(p) /\ setstate(getjobpid(p), "ST")
    BY <1>0, <1>8, Getjobpid DEF Record, Alive, Dead
  <2>3. PICK x \in Slots : jobs[x].pid = p /\ setstate(x, "ST")
    BY <1>4, <2>2
  <2>4. /\ jobs'[x].pid = p /\ jobs'[x].state = "ST"
        /\ \A s \in Slots : s # x => jobs'[s] = jobs[s]
    BY <1>1, <2>3, SetEffect
  <2>5. \A s \in Slots : s # x => jobs[s].pid # p
    BY <1>2, <2>3 DEF ListInv, PidsDistinct
  <2>6. x = getjobpid(p) /\ lost' = IF pc = "set" /\ slot = x THEN lost \cup {p} ELSE lost
    <3>1. getjobpid(p) \in SlotsOf(p) /\ getjobpid(p) # 0
      BY <2>2, ShellAssumption DEF SlotsOf, Slots
    <3>2. x = getjobpid(p)
      BY <1>4, <2>5, <3>1
    <3> QED BY <1>0, <1>8, <3>1, <3>2 DEF Record
  <2>7. ShownStopped'
    BY <1>0, <1>1, <2>4, <2>5, <2>6 DEF Shown, ShownStopped
  <2>8. ReallyStopped'
    BY <1>1, <2>1, <2>4 DEF Shown, ReallyStopped
  <2>9. \A s \in Slots : jobs'[s].pid = jobs[s].pid
    BY <2>3, <2>4
  <2>10. KillingInv'
    BY <1>1, <1>6, <2>9 DEF Shown, KillingInv
  <2>11. SettingInv'
    BY <1>0, <1>1, <1>6, <2>3, <2>5, <2>6, <2>9 DEF Shown, SettingInv
  <2> QED BY <1>5, <2>7, <2>8, <2>10, <2>11 DEF Shown
<1> QED BY <1>7, <1>8

LEMMA ShownStep == ListInv /\ ShownInv /\ [Next]_vars => ShownInv'
<1> SUFFICES ASSUME ListInv, ShownInv, [Next]_vars PROVE ShownInv'
  OBVIOUS
<1> USE DEF jobList, loop, children
<1>0. TypeOK
  BY DEF ListInv
<1>1. Alive => KillingInv /\ AddingInv
  BY DEF ShownInv, Shown
<1>2. CASE UNCHANGED vars
  BY <1>1, <1>2, OthersKeepShown DEF vars, Alive, Dead, KillingInv, AddingInv
<1>3. CASE WaitFg \/ WaitFgReturns \/ Quit \/ SigQuit
  <2>1. pc' \notin {"add", "kill", "set"} /\ Alive
    BY <1>3 DEF WaitFg, WaitFgReturns, Quit, SigQuit, At, Alive, Dead
  <2>2. Alive' => pc # "set"
    BY <1>3 DEF WaitFg, WaitFgReturns, Quit, SigQuit, At, Alive, Dead
  <2>3. AddingInv' /\ KillingInv'
    BY <2>1 DEF AddingInv, KillingInv
  <2>4. /\ UNCHANGED <<jobs, told, lost, chld, pending, proc>>
        /\ pc = "set" => slot' = slot
    BY <1>3 DEF WaitFg, WaitFgReturns, Quit, SigQuit, At
  <2> QED BY <2>1, <2>2, <2>3, <2>4, OthersKeepShown
<1>4. CASE ReadPid
  <2>1. /\ UNCHANGED <<jobs, slot, told, lost, chld, pending, proc>>
        /\ pc = "found" /\ pc' = "kill" /\ pid' = jobs[slot].pid
    BY <1>4 DEF ReadPid, At
  <2> QED BY <2>1, OthersKeepShown DEF Alive, Dead, KillingInv, AddingInv
<1>5. ASSUME NEW c \in {"fg", "bg"}, NEW s \in Slots, FindJob(c, s) PROVE ShownInv'
  <2>1. /\ UNCHANGED <<jobs, told, lost, chld, pending, proc>>
        /\ pc = "prompt" /\ pc' = "found"
    BY <1>5 DEF FindJob, At
  <2> QED BY <2>1, OthersKeepShown DEF Alive, Dead, KillingInv, AddingInv
<1>6. ASSUME NEW c \in {"fg", "bg"}, NEW p \in Pid, Fork(p, c) PROVE ShownInv'
  <2>1. /\ UNCHANGED <<jobs, slot, told, lost, chld, pending>> /\ chld.pc = "off"
        /\ pc = "prompt" /\ pc' = "add" /\ pid' = p /\ proc[p] = "unborn"
    BY <1>6 DEF Fork, At
  <2>2. \A q \in Pid : proc'[q] = IF q = p THEN "forked" ELSE proc[q]
    BY <1>0, <1>6 DEF Fork, TypeOK
  <2>3. p \notin told
    BY <2>1 DEF ShownInv, Shown, Learnt, Alive, Dead
  <2> QED BY <2>1, <2>2, <2>3, OthersKeepShown DEF Alive, Dead, KillingInv, AddingInv
<1>7. ASSUME NEW p \in Pid, SetPgid(p) \/ Ends(p) \/ Stops(p) PROVE ShownInv'
  <2>1. /\ UNCHANGED <<jobs, pc, pid, slot, told, lost, chld>> /\ pending \subseteq pending'
        /\ \A q \in Pid : /\ proc[q] = "stopped" => proc'[q] = "stopped"
                          /\ proc[q] = "gone" => proc'[q] = "gone"
        /\ proc[p] # "gone"
    BY <1>0, <1>7 DEF SetPgid, Ends, Stops, TypeOK
  <2>2. ASSUME NEW q \in Pid, proc'[q] = "stopped", proc[q] # "stopped"
        PROVE  "CHLD" \in pending'
    BY <1>0, <1>7, <2>2 DEF SetPgid, Ends, Stops, TypeOK
  <2>3. Alive' => Alive /\ AddingInv' /\ KillingInv'
    BY <1>1, <2>1 DEF Alive, KillingInv, AddingInv
  <2> QED BY <2>1, <2>2, <2>3, OthersKeepShown
<1>8. ASSUME NEW sig \in {"INT", "TSTP"}, Key(sig) PROVE ShownInv'
  BY <1>1, <1>8, OthersKeepShown DEF Key, Alive, Dead, KillingInv, AddingInv
<1>9. ASSUME NEW sig \in {"INT", "TSTP"}, KeyHandler(sig) PROVE ShownInv'
  <2>1. /\ UNCHANGED <<jobs, pid, slot, told, lost, chld>>
        /\ "CHLD" \in pending => "CHLD" \in pending'
        /\ \A q \in Pid : /\ proc[q] = "stopped" => proc'[q] = "stopped"
                          /\ proc[q] = "gone" => proc'[q] = "gone"
        /\ pc' = pc \/ pc' = "exit1"
    BY <1>0, <1>9 DEF KeyHandler, SendINT, SendTSTP, TypeOK
  <2>2. ASSUME NEW q \in Pid, proc'[q] = "stopped", proc[q] # "stopped"
        PROVE  "CHLD" \in pending'
    BY <1>0, <1>9, <2>2, FgpidType DEF KeyHandler, SendINT, SendTSTP, TypeOK
  <2>3. Alive' => Alive /\ pc' = pc
    BY <2>1 DEF Alive, Dead
  <2>4. Alive' => AddingInv' /\ KillingInv'
    BY <1>1, <2>1, <2>3 DEF KillingInv, AddingInv
  <2> QED BY <2>1, <2>2, <2>3, <2>4, OthersKeepShown
<1>10. CASE AddJob \/ Continue \/ SetState
  BY <1>10, AddJobKeepsShown, ContinueKeepsShown, SetStateKeepsShown
<1>11. CASE DeliverCHLD \/ WaitPid \/ Record
  BY <1>11, DeliverKeepsShown, WaitPidKeepsShown, RecordKeepsShown
<1> QED
  BY <1>2, <1>3, <1>4, <1>5, <1>6, <1>7, <1>8, <1>9, <1>10, <1>11
     DEF Next, Loop, Handlers, Commands, Child, User

(* When nothing is left to be handled, the list shows a job stopped        *)
(* exactly when it is (sigchld_handler, do_bgfg), whatever the length of   *)
(* the list and the order of the steps, but for stops that bg or fg has    *)
(* written over.                                                           *)
THEOREM ListShowsStops == Spec => []StatesMatch
<1>1. Init => ListInv /\ ShownInv
  BY InitInv, ShownInit
<1>2. ListInv /\ ShownInv /\ [Next]_vars => (ListInv /\ ShownInv)'
  BY NextInv, ShownStep
<1>3. ListInv /\ ShownInv => StatesMatch
  BY ShownIsStatesMatch
<1> QED BY <1>1, <1>2, <1>3, PTL DEF Spec
=============================================================================
