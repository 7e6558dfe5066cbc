--------------------------------- MODULE Tsh ---------------------------------
(***************************************************************************)
(* The shell of icslabs/lab4/tsh.c: the read/eval loop, its job list, its  *)
(* three signal handlers, and what the kernel does for them.               *)
(*                                                                         *)
(* The loop and the handlers share the job list, so the loop is cut into   *)
(* steps wherever a handler can run between two accesses of that list.     *)
(* What runs with every signal blocked is one step: the SIGINT and SIGTSTP *)
(* handlers, and each round of the SIGCHLD handler after its waitpid.      *)
(*                                                                         *)
(* Abstractions: a job is one process, which does not catch SIGINT or      *)
(* SIGTSTP; pids are not reused; command lines and what is printed are     *)
(* left out, so the built-in command jobs is no step.  A keystroke is a    *)
(* signal to the shell, as sdriver.pl sends it.                            *)
(***************************************************************************)
EXTENDS Integers, FiniteSets

CONSTANTS Pid,          \* pids of the children
          MAXJOBS,      \* length of the job list (code: 16)
          MaxKeys       \* bound: number of ctrl-c and ctrl-z typed

ASSUME ShellAssumption ==
    Pid \subseteq Nat \ {0} /\ MAXJOBS \in Nat \ {0} /\ MaxKeys \in Nat

VARIABLES
    jobs,       \* the job list: [slot -> [pid, jid, state]]
    nextjid,
    \* the read/eval loop
    pc, cmd,    \* where it is; what it was asked to do
    pid, slot,  \* its local variables pid and jobp (or waitfg's jobpid)
    \* the SIGCHLD handler
    chld,       \* [pc, pid, ended]
    \* the kernel
    proc,       \* [pid -> state of the process]
    held,       \* stopped processes with a SIGINT to take when they continue
    told,       \* stopped processes waitpid has already reported
    lost,       \* history: ... between the SIGCONT of a bg or fg and its assignment
    pending,    \* signals pending for the shell
    own,        \* ... those the shell has sent to itself
    keys        \* keystrokes so far

jobList == <<jobs, nextjid>>
loop == <<pc, cmd, pid, slot>>
children == <<proc, held, told, lost>>
vars == <<jobList, loop, chld, children, pending, own, keys>>

Slots == 1 .. MAXJOBS
NoJob == [pid |-> 0, jid |-> 0, state |-> "UNDEF"]      \* clearjob

Least(S) == CHOOSE s \in S : \A t \in S : s <= t
Greatest(S) == CHOOSE s \in S : \A t \in S : t <= s

-----------------------------------------------------------------------------
(* The job list. *)

SlotsOf(p) == {s \in Slots : p >= 1 /\ jobs[s].pid = p}
Free == {s \in Slots : jobs[s].pid = 0}

getjobpid(p) == IF SlotsOf(p) = {} THEN 0 ELSE Least(SlotsOf(p))    \* 0: NULL

(* What `fg' and `bg' find for the argument of a job: the job itself for a *)
(* pid, the first job with its number for %jid.                            *)
getjobjid(jid) == Least({s \in Slots : jobs[s].jid = jid})
Named(s) == {s, getjobjid(jobs[s].jid)}

maxjid(js) == Greatest({js[s].jid : s \in Slots})

fgpid ==
    LET fgs == {s \in Slots : jobs[s].state = "FG"}
    IN  IF fgs = {} THEN 0 ELSE jobs[Least(fgs)].pid

addjob(p, state) ==
    IF Free = {}
    THEN UNCHANGED jobList          \* "Tried to create too many jobs"
    ELSE /\ jobs' = [jobs EXCEPT ![Least(Free)] =
                        [pid |-> p, jid |-> nextjid, state |-> state]]
         /\ nextjid' = IF nextjid + 1 > MAXJOBS THEN 1 ELSE nextjid + 1

deletejob(p) ==
    IF SlotsOf(p) = {}
    THEN UNCHANGED jobList
    ELSE /\ jobs' = [jobs EXCEPT ![Least(SlotsOf(p))] = NoJob]
         /\ nextjid' = maxjid(jobs') + 1

setstate(s, state) ==
    /\ jobs' = [jobs EXCEPT ![s].state = state]
    /\ UNCHANGED nextjid

-----------------------------------------------------------------------------
(* Sending a signal to the process group of a job.  A child that has not   *)
(* yet called setpgid, or has been reaped, has no group.                   *)

HasGroup(p) == proc[p] \in {"running", "stopped", "zombie"}

SendCONT(p) ==
    IF proc[p] = "stopped"
    THEN /\ proc' = [proc EXCEPT ![p] = IF p \in held THEN "zombie" ELSE "running"]
         /\ held' = held \ {p}
         /\ told' = told \ {p} /\ lost' = lost \ {p}
         /\ pending' = pending \cup {"CHLD"}
    ELSE UNCHANGED <<children, pending>>

SendINT(p) ==
    /\ proc' = [proc EXCEPT ![p] = IF @ = "running" THEN "zombie" ELSE @]
    /\ held' = IF proc[p] = "stopped" THEN held \cup {p} ELSE held
    /\ UNCHANGED <<told, lost>>
SendTSTP(p) ==
    /\ proc' = [proc EXCEPT ![p] = IF @ = "running" THEN "stopped" ELSE @]
    /\ UNCHANGED <<held, told, lost>>

-----------------------------------------------------------------------------
Idle == [pc |-> "off", pid |-> 0, ended |-> FALSE]

Init ==
    /\ jobs = [s \in Slots |-> NoJob]
    /\ nextjid = 1
    /\ pc = "prompt" /\ cmd = "bg" /\ pid = 0 /\ slot = 0
    /\ chld = Idle
    /\ proc = [p \in Pid |-> "unborn"]
    /\ held = {} /\ told = {} /\ lost = {}
    /\ pending = {} /\ own = {}
    /\ keys = 0

Dead == {"done", "exit1", "segv"}
Alive == pc \notin Dead

(* Mutant: eval does not block the signals. *)
NothingBlocked == FALSE
(* eval blocks the three signals from before fork until after addjob. *)
Blocked == pc = "add"

(* The loop takes a step: no handler is running, and no signal the shell   *)
(* has sent to itself is waiting (it is delivered before anything else).   *)
At(l) == pc = l /\ chld.pc = "off" /\ own = {}

(* eval: fork a job in the foreground or the background. *)
Fork(p, c) ==
    /\ At("prompt")
    /\ proc[p] = "unborn"
    /\ proc' = [proc EXCEPT ![p] = "forked"]
    /\ pc' = "add" /\ cmd' = c /\ pid' = p
    /\ UNCHANGED <<jobList, slot, chld, held, told, lost, pending, own, keys>>

AddJob ==
    /\ At("add")
    /\ addjob(pid, IF cmd = "bg" THEN "BG" ELSE "FG")
    /\ pc' = IF cmd = "bg" THEN "prompt" ELSE "wait"
    /\ UNCHANGED <<cmd, pid, slot, chld, children, pending, own, keys>>

(* waitfg: the job may have gone already, and jobpid is then NULL.         *)
WaitFg ==
    /\ At("wait")
    /\ slot' = getjobpid(pid)
    /\ pc' = IF slot' = 0 THEN "segv" ELSE "sleep"
    /\ UNCHANGED <<jobList, cmd, pid, chld, children, pending, own, keys>>

WaitFgReturns ==
    /\ At("sleep")
    /\ jobs[slot].state # "FG"
    /\ pc' = "prompt"
    /\ UNCHANGED <<jobList, cmd, pid, slot, chld, children, pending, own, keys>>

(* Mutant: do_bgfg does not look whether it has found the job. *)
FindJobUnchecked(c, s) ==
    /\ At("prompt")
    /\ slot' \in {s, getjobpid(jobs[s].pid)}
    /\ pc' = "found" /\ cmd' = c
    /\ UNCHANGED <<jobList, pid, chld, children, pending, own, keys>>
(* do_bgfg: find the job ... *)
FindJob(c, s) ==
    /\ At("prompt")
    /\ jobs[s].pid # 0
    /\ slot' \in Named(s)
    /\ pc' = "found" /\ cmd' = c
    /\ UNCHANGED <<jobList, pid, chld, children, pending, own, keys>>

(* ... read its pid (0 if the job has just ended) ... *)
ReadPid ==
    /\ At("found")
    /\ pid' = jobs[slot].pid
    /\ pc' = "kill"
    /\ UNCHANGED <<jobList, cmd, slot, chld, children, pending, own, keys>>

(* Mutant: bg and fg set the state and send no signal. *)
ContinueUnsent ==
    /\ At("kill")
    /\ pc' = "set"
    /\ UNCHANGED <<jobList, cmd, pid, slot, chld, children, pending, own, keys>>
(* ... continue its group (with 0 the shell's own, which ignores it) ... *)
Continue ==
    /\ At("kill")
    /\ IF pid = 0 THEN pc' = "set" /\ UNCHANGED <<children, pending>>
       ELSE IF HasGroup(pid) THEN pc' = "set" /\ SendCONT(pid)
       ELSE pc' = "exit1" /\ UNCHANGED <<children, pending>>
    /\ UNCHANGED <<jobList, cmd, pid, slot, chld, own, keys>>

(* ... and set its state; fg then waits for it.                            *)
(* Mutant: fg does not wait.                                               *)
SetStateNoWait ==
    /\ At("set")
    /\ setstate(slot, IF cmd = "bg" THEN "BG" ELSE "FG")
    /\ pid' = jobs[slot].pid
    /\ pc' = "prompt"
    /\ UNCHANGED <<cmd, slot, chld, children, pending, own, keys>>
SetState ==
    /\ At("set")
    /\ setstate(slot, IF cmd = "bg" THEN "BG" ELSE "FG")
    /\ pid' = jobs[slot].pid
    /\ pc' = IF cmd = "bg" THEN "prompt" ELSE "wait"
    /\ UNCHANGED <<cmd, slot, chld, children, pending, own, keys>>

Quit ==
    /\ At("prompt")
    /\ pc' = "done"
    /\ UNCHANGED <<jobList, cmd, pid, slot, chld, children, pending, own, keys>>

-----------------------------------------------------------------------------
(* sigchld_handler *)

DeliverCHLD ==
    /\ Alive /\ ~Blocked
    /\ "CHLD" \in pending /\ chld.pc = "off"
    /\ pending' = pending \ {"CHLD"}
    /\ chld' = [Idle EXCEPT !.pc = "wait"]
    /\ UNCHANGED <<jobList, loop, children, own, keys>>

Reportable == {p \in Pid : proc[p] = "zombie" \/ (proc[p] = "stopped" /\ p \notin told)}

(* waitpid: reap a child that has ended or learn of one that has stopped,  *)
(* in any order; the handler returns when there is none.                   *)
WaitPid ==
    /\ Alive /\ chld.pc = "wait"
    /\ IF Reportable = {}
       THEN chld' = Idle /\ UNCHANGED children
       ELSE \E p \in Reportable :
              /\ chld' = [pc |-> "act", pid |-> p, ended |-> proc[p] = "zombie"]
              /\ proc' = [proc EXCEPT ![p] = IF @ = "zombie" THEN "gone" ELSE @]
              /\ told' = IF proc[p] = "stopped" THEN told \cup {p} ELSE told
              /\ UNCHANGED <<held, lost>>
    /\ UNCHANGED <<jobList, loop, pending, own, keys>>

(* Mutant: the handler takes one child for each signal. *)
NextRoundOnce == Idle
NextRound == [Idle EXCEPT !.pc = "wait"]

(* A stop recorded where bg or fg has continued the job but not yet set    *)
(* its state is about to be written over.                                  *)
Record ==
    /\ Alive /\ chld.pc = "act"
    /\ IF chld.ended
       THEN deletejob(chld.pid) /\ UNCHANGED <<pc, lost>>
       ELSE IF getjobpid(chld.pid) # 0
       THEN /\ setstate(getjobpid(chld.pid), "ST") /\ UNCHANGED pc
            /\ lost' = IF pc = "set" /\ slot = getjobpid(chld.pid)
                       THEN lost \cup {chld.pid} ELSE lost
       ELSE pc' = "segv" /\ UNCHANGED <<jobList, lost>>
    /\ chld' = NextRound
    /\ UNCHANGED <<cmd, pid, slot, proc, held, told, pending, own, keys>>

(* sigint_handler, sigtstp_handler: pass the signal on to the foreground   *)
(* job.  Without one, kill(0) sends it to the shell's own group.           *)
KeyHandler(sig) ==
    /\ Alive /\ ~Blocked
    /\ sig \in pending \cup own
    /\ IF fgpid = 0
       THEN /\ own' = own \cup {sig}
            /\ pending' = pending \ {sig}
            /\ UNCHANGED <<pc, children>>
       ELSE /\ own' = own \ {sig}
            /\ IF HasGroup(fgpid)
               THEN /\ IF sig = "INT" THEN SendINT(fgpid) ELSE SendTSTP(fgpid)
                    /\ pending' = (pending \ {sig}) \cup
                            (IF proc[fgpid] = "running" THEN {"CHLD"} ELSE {})
                    /\ UNCHANGED pc
               ELSE /\ pc' = "exit1"
                    /\ pending' = pending \ {sig}
                    /\ UNCHANGED children
    /\ UNCHANGED <<jobList, cmd, pid, slot, chld, keys>>

-----------------------------------------------------------------------------
(* The children and the user. *)

SetPgid(p) ==       \* ... and execve
    /\ proc[p] = "forked"
    /\ proc' = [proc EXCEPT ![p] = "running"]
    /\ UNCHANGED <<jobList, loop, chld, held, told, lost, pending, own, keys>>

Ends(p) ==
    /\ proc[p] = "running"
    /\ proc' = [proc EXCEPT ![p] = "zombie"]
    /\ pending' = pending \cup {"CHLD"}
    /\ UNCHANGED <<jobList, loop, chld, held, told, lost, own, keys>>

Stops(p) ==         \* mystop.c sends SIGTSTP to itself
    /\ proc[p] = "running"
    /\ proc' = [proc EXCEPT ![p] = "stopped"]
    /\ pending' = pending \cup {"CHLD"}
    /\ UNCHANGED <<jobList, loop, chld, held, told, lost, own, keys>>

Key(sig) ==
    /\ Alive /\ keys < MaxKeys
    /\ keys' = keys + 1
    /\ pending' = pending \cup {sig}
    /\ UNCHANGED <<jobList, loop, chld, children, own>>

(* sigquit_handler: the driver ends the shell, wherever it is. *)
SigQuit ==
    /\ Alive
    /\ pc' = "done"
    /\ UNCHANGED <<jobList, cmd, pid, slot, chld, children, pending, own, keys>>

-----------------------------------------------------------------------------
Loop == \/ AddJob \/ WaitFg \/ WaitFgReturns \/ ReadPid \/ Continue \/ SetState
Handlers == DeliverCHLD \/ WaitPid \/ Record \/ \E sig \in {"INT", "TSTP"} : KeyHandler(sig)
Commands ==
    \/ \E c \in {"fg", "bg"} : \/ \E p \in Pid : Fork(p, c)
                               \/ \E s \in Slots : FindJob(c, s)
    \/ Quit
Child == \E p \in Pid : SetPgid(p) \/ Ends(p) \/ Stops(p)
User == SigQuit \/ \E sig \in {"INT", "TSTP"} : Key(sig)

Next == Loop \/ Handlers \/ Commands \/ Child \/ User

Spec == Init /\ [][Next]_vars

(* The shell runs and signals are delivered; nothing obliges a child to    *)
(* end or the user to type.                                                *)
Fairness ==
    /\ WF_vars(Loop) /\ WF_vars(DeliverCHLD) /\ WF_vars(WaitPid) /\ WF_vars(Record)
    /\ \A sig \in {"INT", "TSTP"} : WF_vars(KeyHandler(sig))
FairSpec == Spec /\ Fairness

-----------------------------------------------------------------------------
TypeOK ==
    /\ jobs \in [Slots -> [pid : Pid \cup {0}, jid : Nat,
                           state : {"UNDEF", "FG", "BG", "ST"}]]
    /\ nextjid \in Nat
    /\ pc \in {"prompt", "add", "wait", "sleep", "found", "kill", "set"} \cup Dead
    /\ cmd \in {"fg", "bg"} /\ pid \in Pid \cup {0} /\ slot \in Slots \cup {0}
    /\ pc \in {"sleep", "found", "kill", "set"} => slot \in Slots
    /\ chld \in [pc : {"off", "wait", "act"}, pid : Pid \cup {0}, ended : BOOLEAN]
    /\ proc \in [Pid -> {"unborn", "forked", "running", "stopped", "zombie", "gone"}]
    /\ held \subseteq Pid /\ told \subseteq Pid /\ lost \subseteq Pid
    /\ pending \subseteq {"INT", "TSTP", "CHLD"} /\ own \subseteq {"INT", "TSTP"}
    /\ keys \in Nat

(* At most one job is in the foreground (tsh.c:36), whatever handlers run  *)
(* between the steps of fg, eval and waitfg.                               *)
OneForeground ==
    \A s, t \in Slots : jobs[s].state = "FG" /\ jobs[t].state = "FG" => s = t

(* The job list holds every child that has not been reaped, once, and      *)
(* nothing else, apart from the child the loop is adding and the one the   *)
(* handler is removing (eval, sigchld_handler); the list must not be full. *)
Listed == {jobs[s].pid : s \in Slots} \ {0}
Unreaped == {p \in Pid : proc[p] \notin {"unborn", "gone"}}
JobsAreChildren ==
    Alive =>
      /\ Listed = (Unreaped \cup (IF chld.pc = "act" THEN {chld.pid} ELSE {}))
                      \ (IF pc = "add" THEN {pid} ELSE {})
      /\ \A s, t \in Slots : jobs[s].pid = jobs[t].pid /\ s # t => jobs[s].pid = 0

(* When nothing is left to be handled the list says what the children do:  *)
(* a job is shown stopped exactly when it is (sigchld_handler, do_bgfg).   *)
(* The only stop it does not show is a lost one: recorded after the        *)
(* SIGCONT of bg or fg and written over by their assignment (354-363).     *)
StatesMatch ==
    pc = "prompt" /\ chld.pc = "off" /\ "CHLD" \notin pending =>
        \A s \in Slots : jobs[s].pid # 0 =>
            \/ jobs[s].state = "ST" <=> proc[jobs[s].pid] = "stopped"
            \/ jobs[s].pid \in lost

(* waitfg returns when its job has ended or stopped, although signals of   *)
(* several children merge (sigchld_handler, waitfg), unless a keystroke    *)
(* has found no foreground job.  A lost stop is waited for for ever: that  *)
(* order of fg's two steps and the handler is the only one to hang it.     *)
FgEnds ==
    pc = "sleep" /\ proc[pid] \notin {"forked", "running"}
        ~> pc # "sleep" \/ own # {} \/ pid \in lost

(* A ctrl-c or ctrl-z typed while the shell waits ends the waiting, again  *)
(* unless a second one finds no foreground job (sigint_handler), or the    *)
(* job's stop is lost: it then takes the signal only when continued.       *)
KeyEndsWait ==
    pc = "sleep" /\ pending \cap {"INT", "TSTP"} # {}
        ~> pc # "sleep" \/ own # {} \/ pid \in lost

(* The shell comes back from waiting, by the job's end or by a keystroke,  *)
(* whatever the order of its steps, the handlers' and the children's,      *)
(* unless a stop is lost.                                                  *)
WaitingEnds == FgEnds /\ KeyEndsWait

-----------------------------------------------------------------------------
(* What the comments of tsh.c say and the code does not do. *)

(* "Block until process pid is no longer the foreground process" (373-374):*)
(* waitfg finds the job it is to wait for.                                 *)
WaitfgFindsJob == pc = "wait" => getjobpid(pid) # 0

(* "Catch it and send it along to the foreground job" (440-443): never to  *)
(* the shell itself, ...                                                   *)
KeyReachesJob == own = {}

(* ... and without ending the shell.                                       *)
KeyKeepsShell == [][\A sig \in {"INT", "TSTP"} : KeyHandler(sig) => pc' # "exit1"]_vars

(* "Find a job (by JID) on the job list" (593): a job number names one job.*)
JidsUnique ==
    \A s, t \in Slots : jobs[s].jid = jobs[t].jid /\ s # t => jobs[s].jid = 0
=============================================================================
