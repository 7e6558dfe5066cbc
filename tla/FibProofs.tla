------------------------------ MODULE FibProofs ------------------------------
(***************************************************************************)
(* Proofs about FibTasks, for any number asked for, any maxThreads and any *)
(* interleaving of the threads.  The inductive invariant says of the tree  *)
(* of calls that a call has its two halves from the moment it has started  *)
(* them and is done only after both, and of the counter that it counts the *)
(* calls between their two changes of it.                                  *)
(***************************************************************************)
EXTENDS FibTasks, TLAPS, FiniteSetTheorems, SequenceTheorems, WellFoundedInduction

(* A set of natural numbers that is not empty has a least member.         *)
LEMMA LeastNat ==
    ASSUME NEW T \in SUBSET Nat, T # {}
    PROVE  \E x \in T : \A y \in T : x <= y
<1>1. PICK x \in T : \A y \in T : <<y, x>> \notin OpToRel(<, Nat)
  BY NatLessThanWellFounded, WFMin
<1>2. \A y \in T : ~(y < x)
  BY <1>1 DEF OpToRel
<1> QED BY <1>2

-----------------------------------------------------------------------------
(* fibonacci is the function its recursive definition describes: every     *)
(* initial part of it exists, and two of them agree where both are defined.*)
Follows(f, m) == f[m] = IF m <= 1 THEN m ELSE f[m - 1] + f[m - 2]
Part(k) == {f \in [0 .. k -> Nat] : \A m \in 0 .. k : Follows(f, m)}

(* A shortest part that did not exist would be the next of one that does.  *)
LEMMA PartExists == \A k \in Nat : Part(k) # {}
<1> DEFINE T == {k \in Nat : Part(k) = {}}
<1> SUFFICES ASSUME T # {} PROVE FALSE
  OBVIOUS
<1>1. PICK k \in T : \A j \in T : k <= j
  BY LeastNat
<1>2. CASE k = 0
  <2> DEFINE f == [m \in 0 .. 0 |-> m]
  <2>1. f \in [0 .. 0 -> Nat] /\ \A m \in 0 .. 0 : Follows(f, m)
    BY DEF Follows
  <2>2. f \in Part(0)
    BY <2>1 DEF Part
  <2> QED BY <1>2, <2>2
<1>3. CASE k > 0
  <2>1. k \in Nat /\ k - 1 \in Nat /\ k - 1 \notin T
    BY <1>1, <1>3
  <2>2. PICK f \in Part(k - 1) : TRUE
    BY <2>1
  <2>3. f \in [0 .. k - 1 -> Nat] /\ \A m \in 0 .. k - 1 : Follows(f, m)
    BY <2>2 DEF Part
  <2> DEFINE v == IF k <= 1 THEN k ELSE f[k - 1] + f[k - 2]
             g == [m \in 0 .. k |-> IF m = k THEN v ELSE f[m]]
  <2>4. v \in Nat
    BY <2>1, <2>3
  <2> HIDE DEF v
  <2>5. g \in [0 .. k -> Nat]
    BY <2>1, <2>3, <2>4
  <2>6. g[k] = v /\ \A m \in 0 .. k - 1 : g[m] = f[m]
    BY <2>1
  <2> HIDE DEF g
  <2>7. Follows(g, k)
    BY <2>1, <2>6 DEF Follows, v
  <2>8. \A m \in 0 .. k - 1 : Follows(g, m)
    BY <2>1, <2>3, <2>6 DEF Follows
  <2>9. g \in Part(k)
    BY <2>1, <2>5, <2>7, <2>8 DEF Part
  <2> QED BY <1>1, <2>9
<1> QED BY <1>1, <1>2, <1>3

(* The first number two parts differ at would follow from equal ones.      *)
LEMMA PartsAgree ==
    ASSUME NEW j \in Nat, NEW k \in Nat, j <= k, NEW f \in Part(j), NEW g \in Part(k)
    PROVE  \A m \in 0 .. j : f[m] = g[m]
<1> DEFINE T == {m \in 0 .. j : f[m] # g[m]}
<1> SUFFICES ASSUME T # {} PROVE FALSE
  OBVIOUS
<1>0. T \in SUBSET Nat
  OBVIOUS
<1>1. PICK m \in T : \A i \in T : m <= i
  BY <1>0, LeastNat
<1>2. Follows(f, m) /\ Follows(g, m)
  BY <1>1 DEF Part
<1>3. m <= 1 \/ (f[m - 1] = g[m - 1] /\ f[m - 2] = g[m - 2])
  BY <1>1
<1> QED BY <1>1, <1>2, <1>3 DEF Follows

(* So the recursive definition of FibTasks defines what it says.           *)
LEMMA FibonacciFollows == \A m \in Nat : Follows(fibonacci, m)
<1> DEFINE P(m) == CHOOSE f \in Part(m) : TRUE
           F == [m \in Nat |-> P(m)[m]]
<1>1. \A m \in Nat : P(m) \in Part(m)
  BY PartExists
<1> HIDE DEF P
<1>2. ASSUME NEW m \in Nat PROVE Follows(F, m)
  <2>1. Follows(P(m), m)
    BY <1>1 DEF Part
  <2>2. CASE m <= 1
    BY <2>1, <2>2 DEF Follows
  <2>3. CASE m > 1
    <3>1. m - 1 \in Nat /\ m - 2 \in Nat
      BY <2>3
    <3>2. P(m - 1)[m - 1] = P(m)[m - 1] /\ P(m - 2)[m - 2] = P(m)[m - 2]
      BY <1>1, <3>1, PartsAgree
    <3> QED BY <2>1, <2>3, <3>1, <3>2 DEF Follows
  <2> QED BY <2>2, <2>3
<1>3. F = [m \in Nat |-> IF m <= 1 THEN m ELSE F[m - 1] + F[m - 2]]
  BY <1>2 DEF Follows
<1> HIDE DEF F
<1>4. fibonacci = [m \in Nat |-> IF m <= 1 THEN m ELSE fibonacci[m - 1] + fibonacci[m - 2]]
  BY <1>3 DEF fibonacci
<1> QED BY <1>4 DEF Follows

-----------------------------------------------------------------------------
(* Paths: a half's path is its caller's and one number more.               *)
Path == Seq({1, 2})

(* The halves of different calls are different.                           *)
LEMMA Halves ==
    ASSUME NEW c \in Path
    PROVE  /\ Async(c) \in Path /\ Own(c) \in Path
           /\ Async(c) # Root /\ Own(c) # Root /\ Async(c) # Own(c)
           /\ Async(c) # c /\ Own(c) # c
           /\ Len(Async(c)) = Len(c) + 1 /\ Len(Own(c)) = Len(c) + 1
           /\ \A d \in Path : /\ Async(d) = Async(c) => d = c
                              /\ Own(d) = Own(c) => d = c
                              /\ Async(d) # Own(c)
BY AppendProperties DEF Path, Async, Own, Root

(* Every path but the first call's is a half of another.                   *)
LEMMA Caller ==
    ASSUME NEW c \in Path, c # Root
    PROVE  \E d \in Path : (c = Async(d) \/ c = Own(d)) /\ Len(c) = Len(d) + 1
<1>1. PICK d \in Path, e \in {1, 2} : c = Append(d, e)
  BY SequenceEmptyOrAppend DEF Path, Root
<1>2. c = Async(d) \/ c = Own(d)
  BY <1>1 DEF Async, Own
<1> QED BY <1>2, Halves

-----------------------------------------------------------------------------
(* The invariant. *)

Types ==
    /\ Root \in Calls /\ Calls \in SUBSET Path
    /\ pc \in [Calls -> {"enter", "room", "async", "own", "get", "done"}]
    /\ n \in [Calls -> Nat] /\ n[Root] = N
    /\ DOMAIN val = Calls /\ val = [c \in Calls |-> val[c]]

(* The shape of the tree of calls. *)
Alone(c) == Async(c) \notin Calls /\ Own(c) \notin Calls
Both(c) == /\ Async(c) \in Calls /\ Own(c) \in Calls
           /\ n[Async(c)] = n[c] - 1 /\ n[Own(c)] = n[c] - 2

Tree ==
    /\ \A c \in Path : Async(c) \in Calls \/ Own(c) \in Calls => c \in Calls
    /\ \A c \in Calls : Alone(c) \/ Both(c)
    /\ \A c \in Calls : pc[c] \in {"enter", "room", "async"} => Alone(c)
    /\ \A c \in Calls : pc[c] \in {"own", "get"} => Both(c)
    /\ \A c \in Calls : pc[c] \in {"room", "async", "own", "get"} => n[c] > 1

(* A call has waited for its halves: for its own before it counts down, for*)
(* the thread's before it returns.                                         *)
Waits ==
    /\ \A c \in Calls : pc[c] = "get" => pc[Own(c)] = "done"
    /\ \A c \in Calls : pc[c] = "done" /\ Both(c) => pc[Own(c)] = "done" /\ pc[Async(c)] = "done"

(* What a call that has returned has returned.                             *)
Values == \A c \in Calls : pc[c] = "done" => val[c] = fibonacci[n[c]]

Counted == {c \in Calls : pc[c] \in {"async", "own"}}
Counter == IsFiniteSet(Counted) /\ currentThreads = Cardinality(Counted)

IInv == Types /\ Tree /\ Waits /\ Values /\ Counter

(* The invariant holds of the one call main makes.                         *)
LEMMA InitInv == ASSUME N \in Nat, Init PROVE IInv
<1>1. Root \in Path
  BY DEF Root, Path
<1>2. Calls = {Root}
  BY DEF Init, Calls
<1>3. Types
  BY <1>1, <1>2 DEF Init, Types
<1>4. \A c \in Path : Async(c) \notin Calls /\ Own(c) \notin Calls
  BY <1>2, Halves
<1>5. pc[Root] = "enter"
  BY DEF Init
<1>6. Tree /\ Waits /\ Values
  BY <1>1, <1>2, <1>4, <1>5 DEF Tree, Waits, Values, Alone, Both
<1>7. Counted = {}
  BY <1>2, <1>5 DEF Counted
<1>8. Counter
  BY <1>7, FS_EmptySet DEF Counter, Init
<1> QED BY <1>3, <1>6, <1>8 DEF IInv

-----------------------------------------------------------------------------
(* A step that moves one call, and makes none. *)
LEMMA Moves ==
    ASSUME Types, NEW c \in Calls, NEW place, Goes(c, place),
           place \in {"enter", "room", "async", "own", "get", "done"}
    PROVE  /\ Calls' = Calls /\ n' = n
           /\ pc'[c] = place /\ \A d \in Calls \ {c} : pc'[d] = pc[d]
           /\ pc' \in [Calls -> {"enter", "room", "async", "own", "get", "done"}]
           /\ \A d \in Calls : Both(d)' = Both(d) /\ Alone(d)' = Alone(d)
BY DEF Types, Goes, Calls, Both, Alone

(* The calls between the two changes of the counter, in a step that moves  *)
(* one call.                                                               *)
LEMMA CountedAfter ==
    ASSUME Counter, NEW c, NEW S, S = Counted',
           \/ S = Counted /\ currentThreads' = currentThreads
           \/ c \notin Counted /\ S = Counted \cup {c} /\ currentThreads' = currentThreads + 1
           \/ c \in Counted /\ S = Counted \ {c} /\ currentThreads' = currentThreads - 1
    PROVE  Counter'
BY FS_AddElement, FS_RemoveElement, FS_CardinalityType DEF Counter

-----------------------------------------------------------------------------
(* Every step of a call keeps each part of it.                             *)
LEMMA TypesStep == ASSUME IInv, NEW c \in Calls, Step(c) PROVE Types'
<1> USE DEF IInv
<1>1. CASE Start(c)
  <2> DEFINE All == Calls \cup {Async(c), Own(c)}
  <2>1. Calls' = All /\ All \in SUBSET Path
    BY <1>1, Halves DEF Start, Calls, Types
  <2>2. n[c] > 1 /\ n[c] \in Nat
    BY <1>1 DEF Start, Types, Tree
  <2>3. n' \in [All -> Nat] /\ n'[Root] = N
    <3>1. n' = [d \in All |-> IF d \in Calls THEN n[d]
                              ELSE IF d = Async(c) THEN n[c] - 1 ELSE n[c] - 2]
      BY <1>1 DEF Start
    <3>2. n[c] - 1 \in Nat /\ n[c] - 2 \in Nat
      BY ONLY <2>2
    <3> QED BY <3>1, <3>2 DEF Types
  <2>4. pc' \in [All -> {"enter", "room", "async", "own", "get", "done"}]
    BY <1>1 DEF Start, Types
  <2>5. DOMAIN val' = All /\ val' = [d \in All |-> val'[d]]
    BY <1>1 DEF Start
  <2> QED BY <2>1, <2>3, <2>4, <2>5 DEF Types
<1>2. CASE Enter(c) \/ CountUp(c) \/ CountDown(c) \/ Get(c)
  <2>1. PICK place \in {"room", "async", "get", "done"} : Goes(c, place)
    BY <1>2 DEF Enter, CountUp, CountDown, Get, Returns
  <2>2. UNCHANGED val \/ \E v : val' = [val EXCEPT ![c] = v]
    BY <1>2 DEF Enter, CountUp, CountDown, Get, Returns
  <2>3. DOMAIN val' = Calls /\ val' = [d \in Calls |-> val'[d]]
    BY <2>2 DEF Types
  <2> QED BY <2>1, <2>3, Moves DEF Types
<1> QED BY <1>1, <1>2 DEF Step

(* Start makes the two halves of a call that had none; every other step    *)
(* moves one call, and only once its halves are where that needs them.     *)
LEMMA TreeStep == ASSUME IInv, NEW c \in Calls, Step(c) PROVE Tree' /\ Waits' /\ Values'
<1> USE DEF IInv
<1>1. CASE Start(c)
  <2> DEFINE All == Calls \cup {Async(c), Own(c)}
  <2>1. Calls' = All /\ Calls \in SUBSET Path /\ c \in Path
    BY <1>1 DEF Start, Calls, Types
  <2>2. Alone(c) /\ n[c] > 1 /\ n[c] \in Nat /\ pc[c] = "async"
    BY <1>1 DEF Start, Types, Tree
  <2>3. /\ \A d \in Calls : n'[d] = n[d]
        /\ n'[Async(c)] = n[c] - 1 /\ n'[Own(c)] = n[c] - 2
    BY <1>1, <2>1, <2>2, Halves DEF Start, Alone
  <2>4. /\ pc'[c] = "own" /\ pc'[Async(c)] = "enter" /\ pc'[Own(c)] = "enter"
        /\ \A d \in Calls \ {c} : pc'[d] = pc[d]
    BY <1>1, <2>1, <2>2, Halves DEF Start, Alone
  <2>5. \A d \in {Async(c), Own(c)} : Async(d) \notin All /\ Own(d) \notin All
    <3> SUFFICES ASSUME NEW d \in {Async(c), Own(c)}
                 PROVE  Async(d) \notin All /\ Own(d) \notin All
      OBVIOUS
    <3>1. d \in Path /\ d \notin Calls /\ d # c
      BY <2>1, <2>2, Halves DEF Alone
    <3>2. Async(d) \notin Calls /\ Own(d) \notin Calls
      BY <3>1 DEF Tree
    <3> QED BY <2>1, <3>1, <3>2, Halves
  <2>6. \A d \in Calls \ {c} : (Alone(d) => Alone(d)') /\ (Both(d) => Both(d)')
    BY <2>1, <2>3, Halves DEF Alone, Both
  <2>7. Both(c)'
    BY <2>1, <2>3 DEF Both
  <2>8. Alone(Async(c))' /\ Alone(Own(c))'
    BY <2>1, <2>5 DEF Alone
  <2>9. \A d \in Path : Async(d) \in All \/ Own(d) \in All => d \in All
    BY <2>1, Halves DEF Tree
  <2>10. Tree'
    <3>1. \A d \in All : Alone(d)' \/ Both(d)'
      BY <2>6, <2>7, <2>8 DEF Tree
    <3>2. \A d \in All : pc'[d] \in {"enter", "room", "async"} => Alone(d)'
      BY <2>4, <2>6, <2>8 DEF Tree
    <3>3. \A d \in All : pc'[d] \in {"own", "get"} => Both(d)'
      BY <2>4, <2>6, <2>7 DEF Tree
    <3>4. \A d \in All : pc'[d] \in {"room", "async", "own", "get"} => n'[d] > 1
      BY <2>2, <2>3, <2>4 DEF Tree
    <3> QED BY <2>1, <2>9, <3>1, <3>2, <3>3, <3>4 DEF Tree
  <2>11. Waits' /\ Values'
    <3>1. \A d \in Calls \ {c} : Own(d) # c /\ Async(d) # c => pc'[d] = pc[d]
      BY <2>4
    <3>2. \A d \in Calls : pc[d] # "done" \/ d # c
      BY <2>2
    <3>3. \A d \in All : pc'[d] = "get" => pc'[Own(d)] = "done"
      BY <2>1, <2>2, <2>4 DEF Waits, Tree, Both
    <3>4. ASSUME NEW d \in All, pc'[d] = "done", Both(d)'
          PROVE  pc'[Own(d)] = "done" /\ pc'[Async(d)] = "done"
      <4>1. d \in Calls \ {c} /\ pc[d] = "done"
        BY <2>4, <3>4
      <4>2. ~ Alone(d)
        BY <2>1, <2>6, <3>4, <4>1 DEF Alone, Both
      <4>3. Both(d)
        BY <4>1, <4>2 DEF Tree
      <4>4. pc[Own(d)] = "done" /\ pc[Async(d)] = "done" /\ Own(d) \in Calls /\ Async(d) \in Calls
        BY <4>1, <4>3 DEF Waits, Both
      <4> QED BY <2>2, <2>4, <4>4
    <3>5. \A d \in All : pc'[d] = "done" => val'[d] = fibonacci[n'[d]]
      BY <1>1, <2>1, <2>3, <2>4 DEF Values, Start
    <3> QED BY <2>1, <3>3, <3>4, <3>5 DEF Waits, Values
  <2> QED BY <2>10, <2>11
<1>2. CASE Enter(c) \/ CountUp(c) \/ CountDown(c) \/ Get(c)
  <2>1. PICK place \in {"room", "async", "get", "done"} : Goes(c, place)
    BY <1>2 DEF Enter, CountUp, CountDown, Get, Returns
  <2>2. /\ Calls' = Calls /\ n' = n /\ pc'[c] = place
        /\ \A d \in Calls \ {c} : pc'[d] = pc[d]
        /\ \A d \in Calls : Both(d)' = Both(d) /\ Alone(d)' = Alone(d)
    BY <2>1, Moves
  <2>3. pc[c] # "done" /\ n[c] \in Nat
    BY <1>2 DEF Enter, CountUp, CountDown, Get, Types
  <2>4. /\ Enter(c) => pc[c] = "enter" /\ (place = "done" \/ (place = "room" /\ n[c] > 1))
        /\ CountUp(c) => pc[c] = "room" /\ place = "async"
        /\ CountDown(c) => pc[c] = "own" /\ pc[Own(c)] = "done" /\ place = "get"
        /\ Get(c) => pc[c] = "get" /\ pc[Async(c)] = "done" /\ place = "done"
    <3>1. \A q : Goes(c, q) => place = q
      BY <2>1 DEF Goes, Types
    <3> QED BY <3>1 DEF Enter, CountUp, CountDown, Get, Returns
  <2>5. /\ pc[c] \in {"enter", "room"} => Alone(c)
        /\ pc[c] = "own" => Both(c)
        /\ pc[c] \in {"room", "own", "get"} => n[c] > 1
    BY DEF Tree
  <2>6. pc[c] = "get" => pc[Own(c)] = "done"
    BY DEF Waits
  <2>7. /\ place \in {"room", "async"} => Alone(c) /\ n[c] > 1
        /\ place = "get" => Both(c) /\ n[c] > 1 /\ pc[Own(c)] = "done"
    BY <1>2, <2>4, <2>5
  <2>8. place = "done" => Alone(c) \/ (pc[Own(c)] = "done" /\ pc[Async(c)] = "done")
    BY <1>2, <2>4, <2>5, <2>6
  <2>9. Tree'
    BY <2>2, <2>7 DEF Tree
  <2>10. \A d \in Calls : pc[d] = "done" => pc'[d] = "done"
    BY <2>2, <2>3
  <2>11. Waits'
    BY <2>2, <2>7, <2>8, <2>10 DEF Waits, Tree, Alone, Both
  <2>12. \A d \in Calls \ {c} : val'[d] = val[d]
    BY <1>2 DEF Enter, CountUp, CountDown, Get, Returns, Types
  <2>13. place = "done" => val'[c] = fibonacci[n[c]]
    <3>1. CASE Enter(c)
      <4>1. \A v : val' = [val EXCEPT ![c] = v] => val'[c] = v
        BY DEF Types
      <4>2. n[c] <= 1 => fibonacci[n[c]] = n[c]
        BY <2>3, FibonacciFollows DEF Follows
      <4>3. place = "done" => (val'[c] = n[c] /\ n[c] <= 1) \/ val'[c] = fibonacci[n[c]]
        <5>1. CASE n[c] <= 1 /\ Returns(c, n[c])
          BY <4>1, <5>1 DEF Returns
        <5>2. CASE Goes(c, "room")
          BY <2>1, <5>2 DEF Goes, Types
        <5>3. CASE Returns(c, fibonacci[n[c]])
          BY <4>1, <5>3 DEF Returns
        <5> QED BY <3>1, <5>1, <5>2, <5>3 DEF Enter
      <4> QED BY <4>2, <4>3
    <3>2. CASE Get(c)
      <4>1. Both(c) /\ n[c] > 1 /\ pc[Own(c)] = "done" /\ pc[Async(c)] = "done"
        BY <3>2 DEF Get, Tree, Waits
      <4>2. /\ val[Own(c)] = fibonacci[n[c] - 2]
            /\ val[Async(c)] = fibonacci[n[c] - 1]
        BY <4>1 DEF Values, Both
      <4>3. val'[c] = fibonacci[n[c] - 1] + fibonacci[n[c] - 2]
        BY <3>2, <4>2 DEF Get, Returns, Types
      <4> QED BY <2>3, <4>1, <4>3, FibonacciFollows DEF Follows
    <3>3. CASE CountUp(c) \/ CountDown(c)
      BY <2>4, <3>3
    <3> QED BY <1>2, <3>1, <3>2, <3>3
  <2>14. Values'
    BY <2>2, <2>12, <2>13 DEF Values
  <2> QED BY <2>9, <2>11, <2>14
<1> QED BY <1>1, <1>2 DEF Step

(* CountUp brings a call between the two changes, CountDown takes it out.  *)
LEMMA CounterStep == ASSUME IInv, NEW c \in Calls, Step(c) PROVE Counter'
<1> USE DEF IInv
<1>1. CASE Start(c)
  <2>1. /\ c \in Counted /\ currentThreads' = currentThreads
        /\ Calls' = Calls \cup {Async(c), Own(c)}
        /\ Async(c) \notin Calls /\ Own(c) \notin Calls
    BY <1>1 DEF Start, Counted, Calls, Tree, Alone
  <2>2. /\ pc'[c] = "own" /\ pc'[Async(c)] = "enter" /\ pc'[Own(c)] = "enter"
        /\ \A d \in Calls \ {c} : pc'[d] = pc[d]
    BY <1>1, <2>1 DEF Start
  <2>3. Counted' = Counted
    BY <2>1, <2>2 DEF Counted
  <2> QED BY <2>1, <2>3 DEF Counter
<1>2. CASE Enter(c) \/ CountUp(c) \/ CountDown(c) \/ Get(c)
  <2>1. PICK place \in {"room", "async", "get", "done"} : Goes(c, place)
    BY <1>2 DEF Enter, CountUp, CountDown, Get, Returns
  <2>2. /\ Calls' = Calls /\ pc'[c] = place /\ \A d \in Calls \ {c} : pc'[d] = pc[d]
    BY <2>1, Moves
  <2>3. CASE Enter(c) \/ Get(c)
    <3>1. c \notin Counted /\ c \notin Counted' /\ currentThreads' = currentThreads
      BY <2>2, <2>3 DEF Enter, Get, Counted, Returns, Goes, Types
    <3>2. Counted' = Counted
      BY <2>2, <3>1 DEF Counted
    <3> QED BY <3>1, <3>2 DEF Counter
  <2>4. CASE CountUp(c)
    <3>1. c \notin Counted /\ c \in Counted' /\ currentThreads' = currentThreads + 1
      BY <2>2, <2>4 DEF CountUp, Counted, Goes, Types
    <3>2. Counted' = Counted \cup {c}
      BY <2>2, <3>1 DEF Counted
    <3> QED BY <3>1, <3>2, CountedAfter
  <2>5. CASE CountDown(c)
    <3>1. c \in Counted /\ c \notin Counted' /\ currentThreads' = currentThreads - 1
      BY <2>2, <2>5 DEF CountDown, Counted, Goes, Types
    <3>2. Counted' = Counted \ {c}
      BY <2>2, <3>1 DEF Counted
    <3> QED BY <3>1, <3>2, CountedAfter
  <2> QED BY <1>2, <2>3, <2>4, <2>5
<1> QED BY <1>1, <1>2 DEF Step

(* All of them together.                                                   *)
LEMMA NextInv == ASSUME IInv, [Next]_vars PROVE IInv'
<1>1. CASE Next
  <2>1. PICK c \in Calls : Step(c)
    BY <1>1 DEF Next
  <2>2. Types' /\ Tree' /\ Waits' /\ Values' /\ Counter'
    BY <2>1, TypesStep, TreeStep, CounterStep
  <2> QED BY <2>2 DEF IInv
<1>2. CASE UNCHANGED vars
  BY <1>2 DEF vars, IInv, Types, Tree, Waits, Values, Counter, Counted, Calls, Alone, Both
<1> QED BY <1>1, <1>2

-----------------------------------------------------------------------------
(* When the first call has returned, so has every other: of those that had *)
(* not, one with the shortest path would have a caller that has returned,  *)
(* and that one has waited for it.                                         *)
LEMMA NoneLeftBehind == ASSUME IInv, Ended PROVE \A c \in Calls : pc[c] = "done"
<1> USE DEF IInv
<1> DEFINE Late == {c \in Calls : pc[c] # "done"}
           T == {Len(c) : c \in Late}
<1> SUFFICES ASSUME Late # {} PROVE FALSE
  OBVIOUS
<1>1. \A c \in Late : c \in Path /\ Len(c) \in Nat
  BY DEF Types, Path
<1>2. T \in SUBSET Nat /\ T # {}
  BY <1>1
<1>3. PICK x \in T : \A y \in T : x <= y
  BY <1>2, LeastNat
<1>4. PICK c \in Late : \A d \in Late : Len(c) <= Len(d)
  BY <1>3
<1>5. c \in Path /\ c # Root
  BY <1>1, <1>4 DEF Ended
<1>6. PICK d \in Path : (c = Async(d) \/ c = Own(d)) /\ Len(c) = Len(d) + 1
  BY <1>5, Caller
<1>7. d \in Calls
  BY <1>4, <1>6 DEF Tree
<1>8. pc[d] = "done"
  BY <1>4, <1>6, <1>7 DEF Path
<1>9. Both(d)
  BY <1>4, <1>6, <1>7 DEF Tree, Alone
<1> QED BY <1>4, <1>6, <1>7, <1>8, <1>9 DEF Waits

(* So the invariant gives all that is claimed of the end.                  *)
LEMMA InvResult == ASSUME IInv PROVE ResultRight
<1> SUFFICES ASSUME Ended
             PROVE  /\ val[Root] = fibonacci[N]
                    /\ \A c \in Calls : pc[c] = "done"
                    /\ currentThreads = 0
  BY DEF ResultRight
<1>1. val[Root] = fibonacci[N]
  BY DEF IInv, Types, Values, Ended
<1>2. \A c \in Calls : pc[c] = "done"
  BY NoneLeftBehind
<1>3. Counted = {}
  BY <1>2 DEF Counted
<1>4. currentThreads = 0
  BY <1>3, FS_EmptySet DEF IInv, Counter
<1> QED BY <1>1, <1>2, <1>4

(* Whatever number main asks for and however many threads it allows: when  *)
(* fibonacci_task's first call returns, the number is the one it was asked *)
(* for, no thread it caused still runs, and the counter, which is on main's*)
(* stack, is back at 0.                                                    *)
THEOREM NumberIsRight ==
    ASSUME N \in Nat
    PROVE  Spec => []ResultRight
<1>1. Init => IInv
  BY InitInv
<1>2. IInv /\ [Next]_vars => IInv'
  BY NextInv
<1>3. IInv => ResultRight
  BY InvResult
<1> QED BY <1>1, <1>2, <1>3, PTL DEF Spec
=============================================================================
