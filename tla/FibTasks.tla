------------------------------ MODULE FibTasks -------------------------------
(***************************************************************************)
(* hw9/main.cpp: fibonacci_task computes a Fibonacci number with a thread  *)
(* for the one half and the caller for the other, as long as a shared      *)
(* counter of main says that there are fewer than maxThreads of them.  A   *)
(* call is the path from the first one to it: 1 for the half that std::    *)
(* async starts, 2 for the half the caller computes itself.                *)
(***************************************************************************)
EXTENDS Integers, Sequences, FiniteSets

CONSTANTS N, maxThreads     \* what main asks for: 40 and 16

VARIABLES pc,               \* [call made -> where it is]
          n,                \* [call made -> its argument]
          val,              \* [call made -> what it returns, once done]
          currentThreads    \* the counter, a local variable of main

vars == <<pc, n, val, currentThreads>>

fibonacci[m \in Nat] == IF m <= 1 THEN m ELSE fibonacci[m - 1] + fibonacci[m - 2]

Calls == DOMAIN pc
Async(c) == Append(c, 1)
Own(c) == Append(c, 2)
Root == <<>>

Goes(c, place) == pc' = [pc EXCEPT ![c] = place] /\ UNCHANGED n
Returns(c, v) == Goes(c, "done") /\ val' = [val EXCEPT ![c] = v]

Init ==
    /\ pc = [c \in {Root} |-> "enter"] /\ n = [c \in {Root} |-> N] /\ val = [c \in {Root} |-> 0]
    /\ currentThreads = 0

-----------------------------------------------------------------------------
(* The counter is read here and counted up in the next step: two calls can *)
(* both find room for one.                                                 *)
Enter(c) ==
    /\ pc[c] = "enter"
    /\ \/ n[c] <= 1 /\ Returns(c, n[c])
       \/ n[c] > 1 /\ currentThreads < maxThreads /\ Goes(c, "room") /\ UNCHANGED val
       \/ n[c] > 1 /\ currentThreads >= maxThreads /\ Returns(c, fibonacci[n[c]])
    /\ UNCHANGED currentThreads

CountUp(c) ==
    /\ pc[c] = "room"
    /\ currentThreads' = currentThreads + 1
    /\ Goes(c, "async") /\ UNCHANGED val

(* std::async starts the thread, and the caller goes on with its half. *)
Start(c) ==
    /\ pc[c] = "async"
    /\ LET All == Calls \cup {Async(c), Own(c)}
       IN  /\ pc' = [d \in All |-> IF d = c THEN "own" ELSE IF d \in Calls THEN pc[d] ELSE "enter"]
           /\ n' = [d \in All |-> IF d \in Calls THEN n[d]
                                  ELSE IF d = Async(c) THEN n[c] - 1 ELSE n[c] - 2]
           /\ val' = [d \in All |-> IF d \in Calls THEN val[d] ELSE 0]
    /\ UNCHANGED currentThreads

(* The caller's half is done: the counter goes down before the thread has  *)
(* ended, f1.get() waits for it.                                           *)
CountDown(c) ==
    /\ pc[c] = "own" /\ pc[Own(c)] = "done"
    /\ currentThreads' = currentThreads - 1
    /\ Goes(c, "get") /\ UNCHANGED val

(* Mutant: the sum is returned without waiting for the thread's half.      *)
GetAtOnce(c) ==
    /\ pc[c] = "get"
    /\ Returns(c, val[Async(c)] + val[Own(c)])
    /\ UNCHANGED currentThreads

Get(c) ==
    /\ pc[c] = "get" /\ pc[Async(c)] = "done"
    /\ Returns(c, val[Async(c)] + val[Own(c)])
    /\ UNCHANGED currentThreads

Step(c) == Enter(c) \/ CountUp(c) \/ Start(c) \/ CountDown(c) \/ Get(c)
Next == \E c \in Calls : Step(c)

Spec == Init /\ [][Next]_vars

-----------------------------------------------------------------------------
Ended == pc[Root] = "done"

(* When the first call returns, it returns the number, no call it caused   *)
(* still runs (the counter they use is on main's stack and goes with it),  *)
(* and the counter is back at 0.                                           *)
ResultRight ==
    Ended => /\ val[Root] = fibonacci[N]
             /\ \A c \in Calls : pc[c] = "done"
             /\ currentThreads = 0

(* maxThreads bounds the threads that run at one time ("limit the number   *)
(* of threads", main.cpp:12).                                              *)
Running == {c \in Calls : c # Root /\ c[Len(c)] = 1 /\ pc[c] # "done"}
ThreadsLimited == Cardinality(Running) <= maxThreads
=============================================================================
