----------------------------- MODULE Y86Proofs ------------------------------
(***************************************************************************)
(* Four results, whatever the word size, the memory, the program and the  *)
(* limit.  First, the control logic of both pipelines never asks for a     *)
(* register to be stalled and bubbled at once: in pipe-std the requests    *)
(* exclude each other by the instruction in E; in pipe-full they do only   *)
(* because the registers behind a ret that waits for its address are empty,*)
(* which is the inductive invariant there.  Second, the sequential         *)
(* processor implements the instruction set, which rests on the types of   *)
(* what the assemblers write and on the arithmetic of words.  Third, the   *)
(* student's simulator goes with it until it meets what it does otherwise. *)
(* Fourth, the assemblers agree on the image, and it is what the program   *)
(* says.                                                                   *)
(***************************************************************************)
EXTENDS Y86, TLAPS, FiniteSetTheorems, SequenceTheorems

(* The instruction in a stage moves to the register in front of the next.  *)
Moves ==
    /\ nxt.E.icode = cur.D.icode
    /\ nxt.M.icode = cur.E.icode
    /\ nxt.W.icode = cur.M.icode

(* What the control logic asked for in the last cycle. *)
Requests ==
    /\ op.D \in {"LOAD", "STALL", "BUBBLE"}
    /\ op.E \in {"LOAD", "BUBBLE"}
    /\ op.M = IF nxt.W.status \in Bad \/ cur.W.status \in Bad THEN "BUBBLE" ELSE "LOAD"
    /\ op.W = IF cur.W.status \in Bad THEN "STALL" ELSE "LOAD"
    /\ op.F \in {"LOAD", "STALL"}
    /\ full /\ SlowReturn(cur.D, cur.E) => "BUBBLE" \in {op.D, op.E}

(* Nothing follows a ret in E or in M that waits for its return address.   *)
RetFollowedByNothing ==
    full => /\ pstat = "AOK" /\ SlowReturn(cur.E, cur.M) => cur.D.icode = I_NOP
            /\ SlowReturn(cur.M, cur.W) => cur.E.icode = I_NOP

PipeInv == Moves /\ Requests /\ RetFollowedByNothing /\ pstat = gen_Stat(cur.W)

-----------------------------------------------------------------------------
LEMMA InitPipeInv == Init => PipeInv
  BY DEF Init, PipeInit, PipeInv, Moves, Requests, RetFollowedByNothing, bubble,
         SlowReturn, gen_Stat, Bad, Stages, I_NOP, I_RET, I_PUSHQ

(* What one cycle does to the registers, in terms of what was requested.   *)
LEMMA CycleMoves ==
  ASSUME Cycle
  PROVE  /\ pstat = "AOK" /\ hcl' = hcl
         /\ cur'.D = Updated("D") /\ cur'.E = Updated("E")
         /\ cur'.M = Updated("M") /\ cur'.W = Updated("W")
         /\ Moves'
         /\ pstat' = gen_Stat(cur'.W)
         /\ op' = do_stall_check(cur.D, cur.E, cur.M, cur.W, nxt.E, nxt.M, nxt.W)'
<1>1. pstat = "AOK" /\ hcl' = hcl /\ sim_step_pipe(MaxInstr - icount)
  BY DEF Cycle, Running
<1>2. /\ cur'.D = Updated("D") /\ cur'.E = Updated("E")
      /\ cur'.M = Updated("M") /\ cur'.W = Updated("W")
  BY <1>1 DEF sim_step_pipe
<1>3. Moves'
  BY <1>1, <1>2 DEF sim_step_pipe, do_id_stage, do_ex_stage, do_mem_stage, Moves
<1>4. pstat' = gen_Stat(cur'.W)
  BY <1>1, <1>2 DEF sim_step_pipe
<1>5. op' = do_stall_check(cur'.D, cur'.E, cur'.M, cur'.W, nxt'.E, nxt'.M, nxt'.W)
  BY <1>1, <1>2 DEF sim_step_pipe
<1>6. full' = full
  BY <1>1 DEF full
<1> QED  BY <1>1, <1>2, <1>3, <1>4, <1>5, <1>6 DEF do_stall_check

(* Where the instruction codes come from. *)
LEMMA UpdatedCodes ==
  ASSUME Requests, pstat = "AOK", pstat = gen_Stat(cur.W)
  PROVE  /\ Updated("D").icode \in {nxt.D.icode, cur.D.icode, I_NOP}
         /\ op.D = "BUBBLE" => Updated("D").icode = I_NOP
         /\ Updated("E").icode \in {nxt.E.icode, I_NOP}
         /\ op.E = "BUBBLE" => Updated("E").icode = I_NOP
         /\ Updated("M").icode = IF nxt.W.status \in Bad THEN I_NOP ELSE nxt.M.icode
         /\ Updated("W") = nxt.W
<1>1. cur.W.status \notin Bad
  BY DEF gen_Stat, Bad
<1>2. op.W = "LOAD" /\ op.M = IF nxt.W.status \in Bad THEN "BUBBLE" ELSE "LOAD"
  BY <1>1 DEF Requests
<1>3. Updated("W") = nxt.W
  BY <1>2 DEF Updated
<1>4. Updated("M").icode = IF nxt.W.status \in Bad THEN I_NOP ELSE nxt.M.icode
  BY <1>2 DEF Updated, bubble
<1>5. /\ Updated("E").icode \in {nxt.E.icode, I_NOP}
      /\ op.E = "BUBBLE" => Updated("E").icode = I_NOP
  BY DEF Requests, Updated, bubble
<1>6. /\ Updated("D").icode \in {nxt.D.icode, cur.D.icode, I_NOP}
      /\ op.D = "BUBBLE" => Updated("D").icode = I_NOP
  BY DEF Requests, Updated, bubble
<1> QED  BY <1>3, <1>4, <1>5, <1>6

LEMMA CycleRet ==
  ASSUME PipeInv, Cycle
  PROVE  RetFollowedByNothing'
<1> USE CycleMoves, UpdatedCodes DEF PipeInv
<1>1. full' = full
  BY DEF full
<1>2. ASSUME full, pstat' = "AOK", SlowReturn(cur.E, cur.M)'
      PROVE  cur'.D.icode = I_NOP
  <2>1. nxt.W.status \notin Bad
    BY <1>2 DEF gen_Stat, Bad
  <2>2. op.E # "BUBBLE" /\ nxt.E.icode = I_RET
    BY <1>2 DEF SlowReturn, I_RET, I_NOP
  <2>3. SlowReturn(cur.D, cur.E)
    BY <1>2, <2>1, <2>2 DEF SlowReturn, Moves
  <2> QED  BY <1>2, <2>2, <2>3 DEF Requests
<1>3. ASSUME full, SlowReturn(cur.M, cur.W)'
      PROVE  cur'.E.icode = I_NOP
  <2>1. nxt.W.status \notin Bad
    BY <1>3 DEF SlowReturn, I_RET, I_NOP
  <2>2. SlowReturn(cur.E, cur.M)
    BY <1>3, <2>1 DEF SlowReturn, Moves
  <2> QED  BY <1>3, <2>2 DEF RetFollowedByNothing, Moves
<1> QED  BY <1>1, <1>2, <1>3 DEF RetFollowedByNothing

(* A load in E excludes every reason to bubble D. *)
LEMMA NoConflict ==
  ASSUME RetFollowedByNothing,
         IF full THEN full_D_stall(cur.D, cur.E, nxt.E) ELSE gen_D_stall(cur.E, nxt.E)
  PROVE  ~ IF full THEN full_D_bubble(cur.D, cur.E, cur.M, cur.W, nxt.E, nxt.M)
           ELSE gen_D_bubble(cur.D, cur.E, cur.M, nxt.E, nxt.M)
<1>1. cur.E.icode \in {I_MRMOVQ, I_POPQ}
  BY DEF full_D_stall, gen_D_stall, FullLoadUse, LoadUse, Loads
<1>2. ~Mispredicted(cur.E, nxt.M)
  BY <1>1 DEF Mispredicted, I_MRMOVQ, I_POPQ, I_JMP
<1>3. CASE full
  <2>1. ~SlowReturn(cur.E, cur.M)
    BY <1>1 DEF SlowReturn, I_MRMOVQ, I_POPQ, I_RET
  <2>2. ~SlowReturn(cur.M, cur.W)
    BY <1>1, <1>3 DEF RetFollowedByNothing, I_MRMOVQ, I_POPQ, I_NOP
  <2> QED  BY <1>2, <1>3, <2>1, <2>2 DEF full_D_bubble, full_D_stall, LaterReturns
<1>4. CASE ~full
  BY <1>2, <1>4 DEF gen_D_bubble, gen_D_stall
<1> QED  BY <1>3, <1>4

LEMMA CycleRequests ==
  ASSUME PipeInv, Cycle
  PROVE  Requests'
<1> DEFINE stall == IF full THEN full_D_stall(cur.D, cur.E, nxt.E)
                    ELSE gen_D_stall(cur.E, nxt.E)
           bub == IF full THEN full_D_bubble(cur.D, cur.E, cur.M, cur.W, nxt.E, nxt.M)
                  ELSE gen_D_bubble(cur.D, cur.E, cur.M, nxt.E, nxt.M)
           empty == IF full THEN full_E_bubble(cur.D, cur.E, nxt.E, nxt.M)
                    ELSE gen_E_bubble(cur.E, nxt.E, nxt.M)
<1>1. op' = do_stall_check(cur.D, cur.E, cur.M, cur.W, nxt.E, nxt.M, nxt.W)'
  BY CycleMoves
<1>2. /\ op'.D = pipe_cntl(stall', bub')
      /\ op'.E = pipe_cntl(FALSE, empty')
      /\ op'.M = pipe_cntl(FALSE, gen_M_bubble(cur.W, nxt.W)')
      /\ op'.W = pipe_cntl(gen_W_stall(cur.W)', FALSE)
      /\ op'.F \in {"LOAD", "STALL"}
  BY <1>1 DEF do_stall_check, pipe_cntl
<1>3. stall' => ~bub'
  <2>1. RetFollowedByNothing'
    BY CycleRet
  <2> QED  BY <2>1, NoConflict, PTL
<1>4. op'.D \in {"LOAD", "STALL", "BUBBLE"} /\ op'.E \in {"LOAD", "BUBBLE"}
  BY <1>2, <1>3 DEF pipe_cntl
<1>5. ASSUME full', SlowReturn(cur.D, cur.E)'
      PROVE  "BUBBLE" \in {op'.D, op'.E}
  <2>1. CASE stall'
    <3>1. empty'
      BY <1>5, <2>1 DEF full_D_stall, full_E_bubble
    <3> QED  BY <1>2, <3>1 DEF pipe_cntl
  <2>2. CASE ~stall'
    <3>1. bub'
      BY <1>5, <2>2 DEF full_D_stall, full_D_bubble
    <3> QED  BY <1>2, <2>2, <3>1 DEF pipe_cntl
  <2> QED  BY <2>1, <2>2
<1> QED  BY <1>2, <1>4, <1>5 DEF Requests, pipe_cntl, gen_M_bubble, gen_W_stall

-----------------------------------------------------------------------------
LEMMA Outside ==
  ASSUME PipeInv, UNCHANGED <<hcl, cur, nxt, op, pstat>>
  PROVE  PipeInv'
  BY DEF PipeInv, Moves, Requests, RetFollowedByNothing, full

LEMMA NextPipeInv ==
  ASSUME PipeInv, [Next]_vars
  PROVE  PipeInv'
<1>1. CASE Read
  BY <1>1, Outside DEF Read, machines, pvars
<1>2. CASE Assemble
  BY <1>2, Outside DEF Assemble, machines, pvars
<1>3. CASE Load
  BY <1>3, Outside DEF Load
<1>4. CASE Run
  <2>1. Cycle
    BY <1>4 DEF Run
  <2> QED  BY <2>1, CycleMoves, CycleRet, CycleRequests DEF PipeInv
<1>5. CASE UNCHANGED vars
  BY <1>5, Outside DEF vars, pvars
<1> QED  BY <1>1, <1>2, <1>3, <1>4, <1>5 DEF Next

(* No pipeline register is ever stalled and bubbled at once: pipe_cntl     *)
(* never reports conflicting control signals and no status becomes PIP.    *)
THEOREM PipelineControl == Spec => []NoPipeError
<1>1. PipeInv => NoPipeError
  BY DEF PipeInv, Requests, NoPipeError, Stages
<1> QED  BY <1>1, InitPipeInv, NextPipeInv, PTL DEF Spec

-----------------------------------------------------------------------------
(* Numbers: powers, and what is put together from digits.                  *)

LEMMA LeastNat ==
  ASSUME NEW T \in SUBSET Nat, T # {}
  PROVE  \E x \in T : \A y \in T : x <= y
<1>1. PICK x \in T : \A y \in T : <<y, x>> \notin OpToRel(<, Nat)
  BY NatLessThanWellFounded, WFMin
<1>2. \A y \in T : ~(y < x)
  BY <1>1 DEF OpToRel
<1> QED  BY <1>2

(* What is bounded and not empty has a greatest and a least element.       *)
LEMMA MaxBounded ==
  ASSUME NEW T \in SUBSET Nat, T # {}, NEW b \in Nat, \A t \in T : t <= b
  PROVE  Max(T) \in T /\ \A t \in T : t <= Max(T)
<1>1. \E x \in T : \A y \in T : x >= y
  <2> DEFINE D == {d \in Nat : b - d \in T}
  <2>1. PICK t \in T : TRUE
    OBVIOUS
  <2>2. b - t \in D /\ D \in SUBSET Nat
    BY <2>1
  <2>3. PICK d \in D : \A e \in D : d <= e
    BY <2>2, LeastNat
  <2>4. \A u \in T : b - u \in D
    OBVIOUS
  <2>5. b - d \in T /\ \A u \in T : b - d >= u
    BY <2>3, <2>4
  <2> QED  BY <2>5
<1>2. Max(T) \in T /\ \A y \in T : Max(T) >= y
  BY <1>1 DEF Max
<1> QED  BY <1>2

LEMMA MinMember == ASSUME NEW T \in SUBSET Nat, T # {} PROVE Min(T) \in T
<1>1. PICK x \in T : \A y \in T : x <= y
  BY LeastNat
<1> QED  BY <1>1 DEF Min

(* Induction up to n over a set. *)
LEMMA Induction ==
  ASSUME NEW n \in Nat, NEW S, 0 \in S,
         \A k \in 0 .. n : k < n /\ k \in S => k + 1 \in S
  PROVE  \A k \in 0 .. n : k \in S
<1> DEFINE T == {k \in 0 .. n : k \notin S}
<1> SUFFICES ASSUME T # {} PROVE FALSE
  OBVIOUS
<1>1. PICK k \in T : \A j \in T : k <= j
  <2> T \in SUBSET Nat
    OBVIOUS
  <2> QED  BY LeastNat
<1>2. k # 0
  OBVIOUS
<1>3. k - 1 \in 0 .. n /\ k - 1 \in S
  BY <1>1, <1>2
<1> QED  BY <1>1, <1>3

(* A function that is computed step by step over 0 .. n exists.            *)
Steps(n, S) == [1 .. n -> [S -> S]]
Runs(f, n, S, c, step) ==
    /\ f \in [0 .. n -> S] /\ f[0] = c
    /\ \A k \in 1 .. n : f[k] = step[k][f[k - 1]]

LEMMA Recursion ==
  ASSUME NEW n \in Nat, NEW S, NEW c \in S, NEW step \in Steps(n, S)
  PROVE  \E f : Runs(f, n, S, c, step)
<1> DEFINE Upto(g, m) == g \in [0 .. m -> S] /\ g[0] = c
                         /\ \A j \in 1 .. m : g[j] = step[j][g[j - 1]]
           Reached == {m \in 0 .. n : \E g : Upto(g, m)}
<1>1. 0 \in Reached
  <2>1. Upto([j \in 0 .. 0 |-> c], 0)
    OBVIOUS
  <2> HIDE DEF Upto
  <2> QED  BY <2>1
<1>2. ASSUME NEW m \in 0 .. n, m < n, m \in Reached PROVE m + 1 \in Reached
  <2>1. PICK g : Upto(g, m)
    BY <1>2
  <2> DEFINE h == [j \in 0 .. m + 1 |-> IF j = m + 1 THEN step[m + 1][g[m]] ELSE g[j]]
  <2>2. m + 1 \in 1 .. n /\ m \in 0 .. m /\ m + 1 \in 0 .. n
    BY <1>2
  <2>3. g[m] \in S /\ step[m + 1] \in [S -> S]
    BY <2>1, <2>2 DEF Steps
  <2>4. step[m + 1][g[m]] \in S
    BY <2>3
  <2>5. \A j \in 0 .. m + 1 : j # m + 1 => j \in 0 .. m
    OBVIOUS
  <2>6. \A j \in 0 .. m + 1 : h[j] \in S
    BY <2>1, <2>4, <2>5
  <2>7. ASSUME NEW j \in 1 .. m + 1 PROVE h[j] = step[j][h[j - 1]]
    <3>1. CASE j = m + 1
      <4>1. h[m] = g[m] /\ j - 1 = m /\ j \in 0 .. m + 1
        BY <2>2, <3>1
      <4> QED  BY <3>1, <4>1
    <3>2. CASE j # m + 1
      <4>1. j \in 1 .. m /\ j - 1 \in 0 .. m /\ j \in 0 .. m + 1 /\ j - 1 \in 0 .. m + 1
            /\ j - 1 # m + 1
        BY <3>2
      <4>2. h[j] = g[j] /\ h[j - 1] = g[j - 1]
        BY <3>2, <4>1
      <4> QED  BY <2>1, <4>1, <4>2
    <3> QED  BY <3>1, <3>2
  <2>8. h[0] = c
    BY <2>1, <2>2
  <2>9. Upto(h, m + 1)
    BY <2>6, <2>7, <2>8
  <2> HIDE DEF h, Upto
  <2> QED  BY <2>2, <2>9
<1>3. \A m \in 0 .. n : m \in Reached
  <2> HIDE DEF Reached
  <2> QED  BY <1>1, <1>2, Induction
<1>4. PICK f : Upto(f, n)
  <2> HIDE DEF Upto
  <2>1. n \in Reached
    BY <1>3
  <2> QED  BY <2>1
<1> QED  BY <1>4 DEF Runs

LEMMA Powers256 ==
  /\ \A k \in 0 .. WordBytes + 1 : 256 ^ k \in Nat \ {0}
  /\ \A k \in 0 .. WordBytes : 256 ^ (k + 1) = 256 * 256 ^ k
<1> USE WordAssumption, PowerAssumption
<1>1. 256 ^ 0 = 1 /\ \A k \in 0 .. WordBytes : 256 ^ (k + 1) = 256 * 256 ^ k
  BY DEF PowerAssumption
<1> DEFINE S == {k \in 0 .. WordBytes + 1 : 256 ^ k \in Nat \ {0}}
<1>2. 0 \in S
  BY <1>1
<1>3. ASSUME NEW k \in 0 .. WordBytes + 1, k < WordBytes + 1, k \in S
      PROVE  k + 1 \in S
  <2>1. k \in 0 .. WordBytes /\ k + 1 \in 0 .. WordBytes + 1
    BY <1>3
  <2>2. 256 ^ k \in Nat \ {0} /\ 256 ^ (k + 1) = 256 * 256 ^ k
    BY <1>1, <1>3, <2>1
  <2> QED  BY <2>1, <2>2
<1>4. WordBytes + 1 \in Nat
  OBVIOUS
<1>5. \A k \in 0 .. WordBytes + 1 : k \in S
  <2> HIDE DEF S
  <2> QED  BY <1>2, <1>3, <1>4, Induction
<1> QED  BY <1>1, <1>5

LEMMA Powers2 ==
  /\ \A k \in 0 .. 8 * WordBytes : 2 ^ k \in Nat \ {0}
  /\ \A k \in 0 .. 8 * WordBytes : 2 ^ (k + 1) = 2 * 2 ^ k
<1> USE WordAssumption, PowerAssumption
<1>1. 2 ^ 0 = 1 /\ \A k \in 0 .. 8 * WordBytes : 2 ^ (k + 1) = 2 * 2 ^ k
  BY DEF PowerAssumption
<1> DEFINE S == {k \in 0 .. 8 * WordBytes : 2 ^ k \in Nat \ {0}}
<1>2. 0 \in S
  BY <1>1
<1>3. ASSUME NEW k \in 0 .. 8 * WordBytes, k < 8 * WordBytes, k \in S
      PROVE  k + 1 \in S
  <2>1. k + 1 \in 0 .. 8 * WordBytes
    BY <1>3
  <2>2. 2 ^ k \in Nat \ {0} /\ 2 ^ (k + 1) = 2 * 2 ^ k
    BY <1>1, <1>3
  <2> QED  BY <2>1, <2>2
<1>4. 8 * WordBytes \in Nat
  OBVIOUS
<1>5. \A k \in 0 .. 8 * WordBytes : k \in S
  <2> HIDE DEF S
  <2> QED  BY <1>2, <1>3, <1>4, Induction
<1> QED  BY <1>1, <1>5

(* The bits of a word are those of its bytes. *)
LEMMA EightBits == 2 ^ (8 * WordBytes) = Modulus
<1> USE WordAssumption
<1>1. 256 ^ 0 = 1 /\ 2 ^ 0 = 1
  BY PowerAssumption DEF PowerAssumption
<1> DEFINE S == {k \in 0 .. WordBytes : 2 ^ (8 * k) = 256 ^ k}
<1>2. 0 \in S
  BY <1>1
<1>3. ASSUME NEW k \in 0 .. WordBytes, k < WordBytes, k \in S
      PROVE  k + 1 \in S
  <2> DEFINE b == 8 * k
  <2>1. b \in Nat /\ b + 7 <= 8 * WordBytes /\ 8 * (k + 1) = b + 8
    BY <1>3
  <2>2. 2 ^ b \in Nat /\ 2 ^ b = 256 ^ k /\ 256 ^ (k + 1) = 256 * 256 ^ k
    BY <1>3, <2>1, Powers2, Powers256
  <2> HIDE DEF b
  <2>3. 2 ^ (b + 1) = 2 * 2 ^ b
    BY <2>1, Powers2
  <2>4. 2 ^ (b + 1 + 1) = 2 * 2 ^ (b + 1)
    BY <2>1, Powers2
  <2>5. 2 ^ (b + 2 + 1) = 2 * 2 ^ (b + 2)
    BY <2>1, Powers2
  <2>6. 2 ^ (b + 3 + 1) = 2 * 2 ^ (b + 3)
    BY <2>1, Powers2
  <2>7. 2 ^ (b + 4 + 1) = 2 * 2 ^ (b + 4)
    BY <2>1, Powers2
  <2>8. 2 ^ (b + 5 + 1) = 2 * 2 ^ (b + 5)
    BY <2>1, Powers2
  <2>9. 2 ^ (b + 6 + 1) = 2 * 2 ^ (b + 6)
    BY <2>1, Powers2
  <2>10. 2 ^ (b + 7 + 1) = 2 * 2 ^ (b + 7)
    BY <2>1, Powers2
  <2>11. /\ b + 1 + 1 = b + 2 /\ b + 2 + 1 = b + 3 /\ b + 3 + 1 = b + 4 /\ b + 4 + 1 = b + 5
         /\ b + 5 + 1 = b + 6 /\ b + 6 + 1 = b + 7 /\ b + 7 + 1 = b + 8
    BY <2>1
  <2>12. 2 ^ (b + 8) = 256 * 2 ^ b
    BY <2>2, <2>3, <2>4, <2>5, <2>6, <2>7, <2>8, <2>9, <2>10, <2>11
  <2> QED  BY <1>3, <2>1, <2>2, <2>12
<1>4. \A k \in 0 .. WordBytes : k \in S
  <2> HIDE DEF S
  <2> QED  BY <1>2, <1>3, Induction
<1> QED  BY <1>4 DEF Modulus

(* Partial sums exist. *)
Adds(f, n, t) ==
    /\ f = [k \in 0 .. n |-> f[k]] /\ f[0] = 0
    /\ \A k \in 1 .. n : f[k] = f[k - 1] + t[k]

LEMMA Summation ==
  ASSUME NEW n \in Nat, NEW t, \A k \in 1 .. n : t[k] \in Nat
  PROVE  \E f : Adds(f, n, t)
<1> DEFINE S == Int
           step == [k \in 1 .. n |-> [x \in S |-> x + t[k]]]
<1>1. step \in Steps(n, S) /\ 0 \in S
  <2>1. \A k \in 1 .. n : [x \in S |-> x + t[k]] \in [S -> S]
    OBVIOUS
  <2>2. step \in [1 .. n -> [S -> S]]
    BY <2>1, Zenon
  <2> QED  BY <2>2 DEF Steps
<1>2. PICK f : Runs(f, n, S, 0, step)
  <2> HIDE DEF step, S
  <2> QED  BY <1>1, Recursion
<1>3. \A k \in 1 .. n : step[k][f[k - 1]] = f[k - 1] + t[k]
  <2>1. ASSUME NEW k \in 1 .. n PROVE f[k - 1] \in S
    <3>1. k - 1 \in 0 .. n
      OBVIOUS
    <3> QED  BY <1>2, <3>1 DEF Runs
  <2> QED  BY <2>1
<1> HIDE DEF step, S
<1>4. f = [k \in 0 .. n |-> f[k]] /\ f[0] = 0 /\ \A k \in 1 .. n : f[k] = step[k][f[k - 1]]
  BY <1>2 DEF Runs
<1> QED  BY <1>3, <1>4 DEF Adds

(* A digit moved up by a power, and the powers it lies between. *)
LEMMA DigitBelow ==
  ASSUME NEW base \in {2, 256}, NEW d \in 0 .. base - 1, NEW p \in Nat
  PROVE  d * p \in Nat /\ d * p <= base * p - p /\ base * p \in Nat
<1>1. \A a, b \in Nat : a * b \in Nat
  OBVIOUS
<1>2. (base - 1 - d) * p \in Nat /\ d * p \in Nat /\ base * p \in Nat
  <2>1. base - 1 - d \in Nat /\ d \in Nat /\ base \in Nat
    OBVIOUS
  <2> QED  BY <1>1, <2>1
<1>3. (base - 1 - d) * p = base * p - p - d * p
  OBVIOUS
<1> DEFINE a == d * p
           q == base * p
<1>4. a \in Nat /\ q \in Nat /\ q - p - a \in Nat
  BY <1>2, <1>3
<1> HIDE DEF a, q
<1>5. a <= q - p
  BY <1>4
<1> QED  BY <1>4, <1>5 DEF a, q

(* Sums of terms of which each fills the room between two bounds.          *)
LEMMA SumBelow ==
  ASSUME NEW n \in Nat, NEW t, NEW power, power[0] = 1,
         \A k \in 1 .. n : /\ t[k] \in Nat /\ power[k] \in Nat /\ power[k - 1] \in Nat
                           /\ t[k] <= power[k] - power[k - 1],
         NEW f, Adds(f, n, t)
  PROVE  f[n] \in 0 .. power[n] - 1
<1>0. f[0] = 0 /\ \A k \in 1 .. n : f[k] = f[k - 1] + t[k]
  BY DEF Adds
<1> DEFINE S == {k \in 0 .. n : f[k] \in 0 .. power[k] - 1}
<1>1. 0 \in S
  BY <1>0
<1>2. ASSUME NEW k \in 0 .. n, k < n, k \in S PROVE k + 1 \in S
  <2>1. k + 1 \in 1 .. n /\ k + 1 - 1 = k /\ k + 1 \in 0 .. n
    BY <1>2
  <2>2. f[k + 1] = f[k] + t[k + 1] /\ t[k + 1] <= power[k + 1] - power[k]
    BY <1>0, <2>1
  <2>3. t[k + 1] \in Nat /\ power[k + 1] \in Nat /\ power[k] \in Nat
    BY <2>1
  <2>4. f[k] \in 0 .. power[k] - 1
    BY <1>2
  <2>5. \A u, v, p, q \in Int : 0 <= u /\ u < p /\ 0 <= v /\ v <= q - p => u + v \in 0 .. q - 1
    OBVIOUS
  <2>6. f[k + 1] \in 0 .. power[k + 1] - 1
    BY <2>2, <2>3, <2>4, <2>5
  <2> QED  BY <2>1, <2>6
<1>3. \A k \in 0 .. n : k \in S
  <2> HIDE DEF S
  <2> QED  BY <1>1, <1>2, Induction
<1> QED  BY <1>3

LEMMA NumberBelow ==
  ASSUME NEW base \in {2, 256}, NEW n \in Nat, NEW d,
         \A k \in 0 .. n - 1 : d[k] \in 0 .. base - 1,
         base ^ 0 = 1,
         \A k \in 0 .. n : base ^ k \in Nat,
         \A k \in 0 .. n - 1 : base ^ (k + 1) = base * base ^ k
  PROVE  Number(base, d, n) \in 0 .. base ^ n - 1
<1> DEFINE t == [k \in 1 .. n |-> d[k - 1] * base ^ (k - 1)]
           power == [k \in 0 .. n |-> base ^ k]
           Eq(f) == f = [k \in 0 .. n |-> IF k = 0 THEN 0
                                         ELSE f[k - 1] + d[k - 1] * base ^ (k - 1)]
           val == CHOOSE f : Eq(f)
<1>1. Number(base, d, n) = val[n]
  BY DEF Number
<1>2. ASSUME NEW k \in 1 .. n
      PROVE  /\ t[k] = d[k - 1] * base ^ (k - 1) /\ t[k] \in Nat
             /\ power[k] \in Nat /\ power[k - 1] \in Nat
             /\ t[k] <= power[k] - power[k - 1]
  <2> DEFINE p == base ^ (k - 1)
             e == d[k - 1]
  <2>1. k - 1 \in 0 .. n - 1 /\ k - 1 \in 0 .. n /\ k - 1 + 1 = k /\ k \in 0 .. n
    OBVIOUS
  <2>2. power[k] = base ^ k /\ power[k - 1] = p /\ t[k] = e * p
    BY <2>1
  <2> HIDE DEF t, power
  <2>3. e \in 0 .. base - 1 /\ p \in Nat /\ base ^ k = base * p /\ base ^ k \in Nat
    BY <2>1
  <2>4. t[k] = d[k - 1] * base ^ (k - 1)
    BY <2>2
  <2> HIDE DEF e, p
  <2>5. e * p \in Nat /\ e * p <= base * p - p
    BY <2>3, DigitBelow
  <2> QED  BY <2>2, <2>3, <2>4, <2>5
<1>3. power[0] = 1 /\ power[n] = base ^ n
  OBVIOUS
<1> HIDE DEF t, power
<1>4. PICK f : Adds(f, n, t)
  BY <1>2, Summation
<1>5. Eq(f)
  <2>0. f[0] = 0 /\ \A k \in 1 .. n : f[k] = f[k - 1] + t[k]
    BY <1>4 DEF Adds
  <2>1. ASSUME NEW k \in 0 .. n
        PROVE  f[k] = IF k = 0 THEN 0 ELSE f[k - 1] + d[k - 1] * base ^ (k - 1)
    <3>1. k # 0 => k \in 1 .. n
      OBVIOUS
    <3> QED  BY <1>2, <2>0, <3>1
  <2>2. f = [k \in 0 .. n |-> f[k]]
    BY <1>4 DEF Adds
  <2> QED  BY <2>1, <2>2, Zenon
<1>6. Eq(val)
  <2> HIDE DEF Eq
  <2> QED  BY <1>5
<1> HIDE DEF val
<1>7. Adds(val, n, t)
  <2>1. ASSUME NEW k \in 0 .. n
        PROVE  val[k] = IF k = 0 THEN 0 ELSE val[k - 1] + d[k - 1] * base ^ (k - 1)
    BY <1>6
  <2>2. val = [k \in 0 .. n |-> val[k]]
    BY <1>6
  <2>3. val[0] = 0
    <3>1. 0 \in 0 .. n
      OBVIOUS
    <3> QED  BY <2>1, <3>1
  <2>4. ASSUME NEW k \in 1 .. n PROVE val[k] = val[k - 1] + t[k]
    <3>1. k \in 0 .. n /\ k # 0
      OBVIOUS
    <3> HIDE DEF Eq
    <3> QED  BY <1>2, <2>1, <3>1
  <2> HIDE DEF Eq
  <2> QED  BY <2>2, <2>3, <2>4 DEF Adds
<1> HIDE DEF Eq
<1>8. val[n] \in 0 .. power[n] - 1
  BY <1>2, <1>3, <1>7, SumBelow
<1> QED  BY <1>1, <1>3, <1>8

-----------------------------------------------------------------------------
(* Words. *)
LEMMA Words ==
  /\ Modulus \in Nat /\ Modulus >= 256
  /\ 0 \in Word /\ WordBytes \in Nat \ {0} /\ MemLen \in Nat \ {0}
<1>1. WordBytes - 1 \in 0 .. WordBytes /\ WordBytes \in 0 .. WordBytes + 1
      /\ WordBytes - 1 + 1 = WordBytes /\ WordBytes - 1 \in 0 .. WordBytes + 1
  BY WordAssumption
<1>2. 256 ^ WordBytes = 256 * 256 ^ (WordBytes - 1) /\ 256 ^ (WordBytes - 1) \in Nat \ {0}
      /\ 256 ^ WordBytes \in Nat
  BY <1>1, Powers256
<1> QED  BY <1>2, WordAssumption DEF Modulus, Word

LEMMA WordsAreInt == \A w \in Word : w \in Nat /\ w \in Int
  BY Words DEF Word

LEMMA DivMod ==
  ASSUME NEW m \in Nat \ {0}, NEW a \in Int
  PROVE  a % m \in 0 .. m - 1 /\ a \div m \in Int /\ a = m * (a \div m) + (a % m)
  OBVIOUS

LEMMA NoMultiple ==
  ASSUME NEW m \in Nat \ {0}, NEW q \in Int, -m < m * q, m * q < m
  PROVE  q = 0
<1>1. CASE q >= 1
  <2>1. q - 1 \in Nat
    BY <1>1
  <2>2. m * (q - 1) \in Nat
    <3>1. \A a, b \in Nat : a * b \in Nat
      OBVIOUS
    <3> QED BY <2>1, <3>1
  <2>3. m * (q - 1) = m * q - m
    OBVIOUS
  <2> QED  BY <2>2, <2>3
<1>2. CASE q <= -1
  <2>1. -1 - q \in Nat
    BY <1>2
  <2>2. m * (-1 - q) \in Nat
    <3>1. \A a, b \in Nat : a * b \in Nat
      OBVIOUS
    <3> QED BY <2>1, <3>1
  <2>3. m * (-1 - q) = -m - m * q
    OBVIOUS
  <2> QED  BY <2>2, <2>3
<1> QED  BY <1>1, <1>2

LEMMA RemainderUnique ==
  ASSUME NEW m \in Nat \ {0}, NEW a \in Int, NEW q \in Int, NEW r \in 0 .. m - 1,
         a = m * q + r
  PROVE  a % m = r
<1> DEFINE q2 == a \div m
           r2 == a % m
<1>1. r2 \in 0 .. m - 1 /\ q2 \in Int /\ a = m * q2 + r2
  BY DivMod
<1> HIDE DEF q2, r2
<1>2. m * (q - q2) = m * q - m * q2
  BY <1>1
<1>3. m * q \in Int /\ m * q2 \in Int
  BY <1>1
<1>4. m * (q - q2) = r2 - r
  BY <1>1, <1>2, <1>3
<1>5. q - q2 \in Int /\ -m < m * (q - q2) /\ m * (q - q2) < m
  BY <1>1, <1>4
<1>6. q - q2 = 0
  BY <1>5, NoMultiple
<1>7. r2 = r
  BY <1>1, <1>6, <1>4
<1> QED  BY <1>7 DEF r2

LEMMA WrapIsWord ==
  ASSUME NEW n \in Int
  PROVE  Wrap(n) \in Word /\ (n \in Word => Wrap(n) = n)
<1>1. Modulus \in Nat \ {0}
  BY Words
<1>2. n % Modulus \in 0 .. Modulus - 1
  BY <1>1, DivMod
<1>3. ASSUME n \in Word PROVE n % Modulus = n
  <2>1. n \in 0 .. Modulus - 1 /\ n = Modulus * 0 + n
    BY <1>1, <1>3 DEF Word
  <2> QED  BY <1>1, <2>1, RemainderUnique
<1> QED  BY <1>2, <1>3 DEF Wrap, Word

LEMMA WrapSum ==
  ASSUME NEW a \in Int, NEW b \in Int
  PROVE  Wrap(Wrap(a) + b) = Wrap(a + b)
<1> DEFINE m == Modulus
           q == a \div m
           r == a % m
           p == (r + b) \div m
           s == (r + b) % m
<1>1. m \in Nat \ {0}
  BY Words
<1> HIDE DEF m
<1>2. q \in Int /\ r \in Int /\ a = m * q + r
  BY <1>1, DivMod
<1> HIDE DEF q, r
<1>3. p \in Int /\ s \in 0 .. m - 1 /\ r + b = m * p + s
  <2>1. r + b \in Int
    BY <1>2
  <2> QED  BY <1>1, <2>1, DivMod
<1> HIDE DEF p, s
<1>4. m * (q + p) = m * q + m * p
  BY <1>1, <1>2, <1>3
<1>5. m * q \in Int /\ m * p \in Int /\ q + p \in Int
  BY <1>1, <1>2, <1>3
<1>6. a + b = m * (q + p) + s
  BY <1>2, <1>3, <1>4, <1>5
<1>7. (a + b) % m = s
  BY <1>1, <1>3, <1>5, <1>6, RemainderUnique
<1> QED  BY <1>7 DEF m, r, s, Wrap

-----------------------------------------------------------------------------
(* Bytes, words in memory, registers and the ALU. *)
LEMMA Nibbles == ASSUME NEW b \in Byte PROVE HI4(b) \in 0 .. 15 /\ LO4(b) \in 0 .. 15
  BY DEF Byte, HI4, LO4

LEMMA ByteAddress ==
  ASSUME NEW pos \in Word, get_byte_ok(pos)
  PROVE  pos \in 0 .. MemLen - 1 /\ 2 * pos < Modulus
  BY Words DEF get_byte_ok, Accessible, Signed, Word

LEMMA WordAddress ==
  ASSUME NEW pos \in Word, get_word_ok(pos)
  PROVE  /\ pos + WordBytes <= MemLen /\ 2 * pos < Modulus
         /\ \A i \in 0 .. WordBytes - 1 : pos + i \in 0 .. MemLen - 1
<1>1. pos \in Nat /\ pos + WordBytes <= MemLen /\ 2 * pos < Modulus
  BY Words DEF get_word_ok, Accessible, Signed, Word
<1> QED  BY <1>1, Words

LEMMA WordRead ==
  ASSUME NEW m \in Mem, NEW pos \in Word, get_word_ok(pos)
  PROVE  get_word_val(m, pos) \in Word
<1> DEFINE d == [i \in 0 .. WordBytes - 1 |-> m[pos + i]]
<1>1. \A i \in 0 .. WordBytes - 1 : d[i] \in 0 .. 256 - 1
  BY WordAddress DEF Mem, Byte
<1>2. WordBytes \in Nat /\ 256 \in {2, 256} /\ 256 ^ 0 = 1
  BY Words, PowerAssumption DEF PowerAssumption
<1>3. /\ \A k \in 0 .. WordBytes : 256 ^ k \in Nat
      /\ \A k \in 0 .. WordBytes - 1 : 256 ^ (k + 1) = 256 * 256 ^ k
  BY <1>2, Powers256
<1> HIDE DEF d
<1>4. Number(256, d, WordBytes) \in 0 .. 256 ^ WordBytes - 1
  BY <1>1, <1>2, <1>3, NumberBelow
<1> QED  BY <1>4 DEF get_word_val, Word, Modulus, d

LEMMA WordWritten ==
  ASSUME NEW m \in Mem, NEW pos \in Word, NEW val \in Word
  PROVE  set_word_val(m, pos, val) \in Mem
<1>1. ASSUME NEW a \in 0 .. MemLen - 1, a \in pos .. pos + WordBytes - 1
      PROVE  (val \div 256 ^ (a - pos)) % 256 \in Byte
  <2>1. a - pos \in 0 .. WordBytes + 1
    BY <1>1, Words DEF Word
  <2>2. 256 ^ (a - pos) \in Nat \ {0}
    BY <2>1, Powers256
  <2>3. val \div 256 ^ (a - pos) \in Int
    BY <2>2, DivMod DEF Word
  <2> QED  BY <2>3 DEF Byte
<1> QED  BY <1>1 DEF set_word_val, Mem

LEMMA RegisterRead ==
  ASSUME NEW r \in Regs, NEW id \in 0 .. REG_NONE
  PROVE  get_reg_val(r, id) \in Word
  BY Words DEF get_reg_val, reg_valid, Regs, REG_NONE

LEMMA RegisterWritten ==
  ASSUME NEW r \in Regs, NEW id, NEW val \in Word
  PROVE  set_reg_val(r, id, val) \in Regs
  BY DEF set_reg_val, Regs

LEMMA BitsAreWord ==
  ASSUME NEW d, \A i \in BitIndex : d[i] \in 0 .. 1
  PROVE  FromBits(d) \in Word
<1> DEFINE n == 8 * WordBytes
<1>1. n \in Nat /\ 2 \in {2, 256} /\ 2 ^ 0 = 1
  BY Words, PowerAssumption DEF PowerAssumption
<1>2. \A i \in 0 .. n - 1 : d[i] \in 0 .. 2 - 1
  BY DEF BitIndex
<1>3. /\ \A k \in 0 .. n : 2 ^ k \in Nat
      /\ \A k \in 0 .. n - 1 : 2 ^ (k + 1) = 2 * 2 ^ k
  BY <1>1, Powers2
<1> HIDE DEF n
<1>4. Number(2, d, n) \in 0 .. 2 ^ n - 1
  BY <1>1, <1>2, <1>3, NumberBelow
<1> QED  BY <1>4, EightBits DEF FromBits, Word, n

LEMMA BitIsBit == ASSUME NEW w \in Word, NEW i \in BitIndex PROVE Bit(w, i) \in 0 .. 1
<1>1. 2 ^ i \in Nat \ {0}
  BY Powers2, Words DEF BitIndex
<1>2. w \div 2 ^ i \in Int
  BY <1>1, DivMod DEF Word
<1> QED  BY <1>2 DEF Bit

LEMMA AluIsWord ==
  ASSUME NEW fun, NEW a \in Word, NEW b \in Word
  PROVE  compute_alu(fun, a, b) \in Word
<1>1. a \in Int /\ b \in Int
  BY Words DEF Word
<1>2. Wrap(a + b) \in Word /\ Wrap(b - a) \in Word
  BY <1>1, WrapIsWord
<1>3. FromBits([i \in BitIndex |-> Bit(a, i) * Bit(b, i)]) \in Word
  <2> DEFINE d == [i \in BitIndex |-> Bit(a, i) * Bit(b, i)]
  <2>1. \A i \in BitIndex : d[i] \in 0 .. 1
    BY BitIsBit
  <2> HIDE DEF d
  <2>2. FromBits(d) \in Word
    BY <2>1, BitsAreWord
  <2> QED  BY <2>2 DEF d
<1>4. FromBits([i \in BitIndex |-> (Bit(a, i) + Bit(b, i)) % 2]) \in Word
  <2> DEFINE d == [i \in BitIndex |-> (Bit(a, i) + Bit(b, i)) % 2]
  <2>1. \A i \in BitIndex : d[i] \in 0 .. 1
    BY BitIsBit
  <2> HIDE DEF d
  <2>2. FromBits(d) \in Word
    BY <2>1, BitsAreWord
  <2> QED  BY <2>2 DEF d
<1>5. 0 \in Word
  BY Words
<1> QED  BY <1>2, <1>3, <1>4, <1>5 DEF compute_alu

-----------------------------------------------------------------------------
(* What the assemblers write is bytes. *)
Codes == [0 .. WordBytes + 1 -> Byte] \cup {<<>>}
Line == {l \in [addr : Int, bytes : 0 .. WordBytes + 2, codes : Codes] :
            l.bytes > 0 => l.codes \in [0 .. WordBytes + 1 -> Byte]}

AsmTypes ==
    /\ hcl \in DOMAIN Body
    /\ vmaddr \in Int
    /\ \A l \in DOMAIN symtab : symtab[l] \in Int
    /\ lines \in Seq(Line)
    /\ source \in Seq(ProgramText(hcl))
    /\ image \in Mem

LEMMA ByteOfValue ==
  ASSUME NEW value \in Int, NEW k \in 0 .. WordBytes + 1
  PROVE  (value \div 256 ^ k) % 256 \in Byte
<1>1. 256 ^ k \in Nat \ {0}
  BY Powers256
<1>2. value \div 256 ^ k \in Int
  BY <1>1, DivMod
<1> QED  BY <1>2 DEF Byte

LEMMA ValueStored ==
  ASSUME NEW codes \in Codes, NEW from \in 0 .. 2, NEW value \in Int
  PROVE  /\ StoreValue(codes, from, value) \in Codes
         /\ codes \in [0 .. WordBytes + 1 -> Byte] =>
                StoreValue(codes, from, value) \in [0 .. WordBytes + 1 -> Byte]
<1>1. CASE codes \in [0 .. WordBytes + 1 -> Byte]
  <2>1. ASSUME NEW i \in 0 .. WordBytes + 1, i >= from
        PROVE  (value \div 256 ^ (i - from)) % 256 \in Byte
    <3>1. i - from \in 0 .. WordBytes + 1
      BY <2>1, Words
    <3> QED  BY <3>1, ByteOfValue
  <2> QED  BY <1>1, <2>1 DEF StoreValue, Codes
<1>2. CASE codes = <<>>
  <2>1. DOMAIN codes = {}
    BY <1>2
  <2>2. StoreValue(codes, from, value) = <<>>
    BY <1>2, <2>1 DEF StoreValue
  <2>3. codes \notin [0 .. WordBytes + 1 -> Byte]
    <3>1. 0 \in 0 .. WordBytes + 1
      BY Words
    <3> QED  BY <2>1, <3>1
  <2> QED  BY <2>2, <2>3 DEF Codes
<1> QED  BY <1>1, <1>2 DEF Codes

LEMMA OperandPlace == ASSUME NEW code PROVE OperandAt(code) \in 0 .. 2
  BY DEF OperandAt

LEMMA OpcodesAreBytes ==
  ASSUME NEW s, IsStatement(s), s.code \in Byte
  PROVE  Opcodes(s) \in [0 .. WordBytes + 1 -> Byte]
<1>1. s.regs # NoLabel => s.regs \in Byte
  BY DEF IsStatement
<1> QED  BY <1>1 DEF Opcodes, Byte

LEMMA NextStatementsAreText ==
  ASSUME AsmTypes, NEW s \in NextStatements
  PROVE  s \in ProgramText(hcl) /\ IsStatement(s) /\ (IsIaddq(s) => hcl = "full")
<1> DEFINE n == Len(source) + 1
           j == n - Len(Prelude) - BodyLen
<1>1. n \in Nat \ {0} /\ hcl \in DOMAIN Body
      /\ Len(Prelude) \in Nat /\ BodyLen \in Nat /\ Len(Trailer) \in Nat
  BY LenProperties, ProgramAssumption DEF AsmTypes, ProgramAssumption
<1>2. \/ Before(n) /\ s = Prelude[n]
      \/ ~Before(n) /\ Within(n) /\ s \in Body[hcl]
      \/ ~Before(n) /\ ~Within(n) /\ j <= Len(Trailer) /\ s = Trailer[j]
  BY DEF NextStatements
<1> HIDE DEF n
<1>3. s \in ProgramText(hcl)
  <2>1. CASE Before(n) /\ s = Prelude[n]
    <3>1. n \in 1 .. Len(Prelude)
      BY <1>1, <2>1 DEF Before
    <3>2. s \in {Prelude[i] : i \in 1 .. Len(Prelude)}
      BY <2>1, <3>1
    <3> QED  BY <3>2 DEF ProgramText
  <2>2. CASE s \in Body[hcl]
    BY <1>1, <2>2 DEF ProgramText
  <2>3. CASE ~Before(n) /\ ~Within(n) /\ j <= Len(Trailer) /\ s = Trailer[j]
    <3>1. j \in 1 .. Len(Trailer)
      BY <1>1, <2>3 DEF Before, Within
    <3> HIDE DEF j
    <3>2. s \in {Trailer[i] : i \in 1 .. Len(Trailer)}
      BY <2>3, <3>1
    <3> QED  BY <3>2 DEF ProgramText
  <2> QED  BY <1>2, <2>1, <2>2, <2>3
<1> QED  BY <1>1, <1>3, ProgramAssumption DEF ProgramAssumption

LEMMA AsmInitTypes == Init => AsmTypes
<1>1. \A a \in 0 .. MemLen - 1 : 0 \in Byte
  BY DEF Byte
<1> QED  BY <1>1, EmptySeq DEF Init, AsmInit, AsmTypes, Mem

(* A line the assembler adds. *)
LEMMA Emitted ==
  ASSUME AsmTypes, NEW line \in Line, NEW next \in Int, NEW s \in ProgramText(hcl),
         Emit(line, next), source' = Append(source, s), hcl' = hcl,
         \A l \in DOMAIN symtab' : symtab'[l] \in Int
  PROVE  AsmTypes'
<1>1. lines' \in Seq(Line) /\ source' \in Seq(ProgramText(hcl))
  BY AppendProperties DEF Emit, AsmTypes
<1> QED  BY <1>1 DEF Emit, AsmTypes

LEMMA LabelledTypes ==
  ASSUME NEW tab, NEW s, vmaddr \in Int, \A l \in DOMAIN tab : tab[l] \in Int
  PROVE  \A l \in DOMAIN Labelled(tab, s) : Labelled(tab, s)[l] \in Int
  BY DEF Labelled, Added

LEMMA ParseLineTypes ==
  ASSUME AsmTypes, NEW s \in ProgramText(hcl), IsStatement(s), ParseLine(s), hcl' = hcl
  PROVE  AsmTypes'
<1> DEFINE known == Labelled(symtab, s)
           direct == s.operand = "none" \/ s.operand = "number" \/ s.value \in DOMAIN known
           value == IF s.operand = "label" THEN known[s.value] ELSE s.value
           aligned == vmaddr + ((value - (vmaddr % value)) % value)
<1>1. \A l \in DOMAIN known : known[l] \in Int
  BY LabelledTypes DEF AsmTypes
<1>2. source' = Append(source, s) /\ vmaddr \in Int
  BY DEF ParseLine, AsmTypes
<1> HIDE DEF known
<1>3. CASE Fail
  <2>1. source' \in Seq(ProgramText(hcl))
    BY <1>2, AppendProperties DEF AsmTypes
  <2> QED  BY <1>3, <2>1 DEF Fail, AsmTypes
<1>4. ASSUME symtab' = known, NEW addr \in Int, Place(addr)
      PROVE  AsmTypes'
  <2>1. [addr |-> addr, bytes |-> 0, codes |-> <<>>] \in Line
    BY Words DEF Line, Codes
  <2> QED  BY <1>1, <1>2, <1>4, <2>1, Emitted DEF Place
<1>5. ASSUME s.code = D_POS \/ s.code = D_ALIGN, s.operand # "label"
      PROVE  value \in Int /\ (s.code = D_ALIGN => value > 0)
  BY <1>5, WordsAreInt DEF IsStatement
<1>6. CASE s.code = D_POS /\ s.operand # "label" /\ symtab' = known /\ Place(value)
  <2>1. value \in Int
    BY <1>5, <1>6
  <2> HIDE DEF value
  <2> QED  BY <1>4, <1>6, <2>1
<1>7. CASE s.code = D_ALIGN /\ s.operand # "label" /\ symtab' = known /\ Place(aligned)
  <2>1. value \in Nat \ {0}
    BY <1>5, <1>7
  <2> HIDE DEF value
  <2>2. vmaddr % value \in Int
    BY <1>2, <2>1, DivMod
  <2>3. (value - (vmaddr % value)) % value \in Int
    BY <2>1, <2>2, DivMod
  <2>4. aligned \in Int
    BY <1>2, <2>3
  <2> HIDE DEF aligned
  <2> QED  BY <1>4, <1>7, <2>4
<1>8. ASSUME s.code \notin {BAD, LABEL_ONLY}, symtab' = known,
             Emit([addr |-> vmaddr, bytes |-> s.bytes,
                   codes |-> IF direct /\ s.operand # "none"
                             THEN StoreValue(Opcodes(s), OperandAt(s.code), value)
                             ELSE Opcodes(s)],
                  vmaddr + s.bytes)
      PROVE  AsmTypes'
  <2> DEFINE codes == IF direct /\ s.operand # "none"
                      THEN StoreValue(Opcodes(s), OperandAt(s.code), value)
                      ELSE Opcodes(s)
  <2>1. s.code \in Byte /\ s.bytes \in 0 .. WordBytes + 2
    BY <1>8 DEF IsStatement
  <2>2. Opcodes(s) \in [0 .. WordBytes + 1 -> Byte]
    BY <2>1, OpcodesAreBytes
  <2>3. direct /\ s.operand # "none" => value \in Int
    BY <1>1, WordsAreInt DEF IsStatement
  <2> HIDE DEF direct, value
  <2>4. codes \in [0 .. WordBytes + 1 -> Byte]
    <3>1. Opcodes(s) \in Codes
      BY <2>2 DEF Codes
    <3> QED  BY <2>2, <2>3, <3>1, ValueStored, OperandPlace
  <2> HIDE DEF codes
  <2>5. [addr |-> vmaddr, bytes |-> s.bytes, codes |-> codes] \in Line
    BY <1>2, <2>1, <2>4 DEF Line, Codes
  <2>6. vmaddr + s.bytes \in Int
    BY <1>2, <2>1
  <2>7. Emit([addr |-> vmaddr, bytes |-> s.bytes, codes |-> codes], vmaddr + s.bytes)
    BY <1>8 DEF codes
  <2> QED  BY <1>1, <1>2, <1>8, <2>5, <2>6, <2>7, Emitted
<1> QED
  <2>1. CASE Rejected(s)
    BY <1>3, <2>1 DEF ParseLine
  <2>2. CASE ~Rejected(s)
    <3>1. symtab' = known /\ s.code # BAD
      BY <2>2 DEF ParseLine, known, Rejected
    <3>2. s.code \in {D_POS, D_ALIGN} => s.operand # "label"
      BY <2>2 DEF Rejected
    <3>3. CASE s.code = LABEL_ONLY
      BY <1>2, <1>4, <2>2, <3>1, <3>3 DEF ParseLine
    <3>4. CASE s.code = D_POS /\ s.code # LABEL_ONLY
      <4>1. Place(value)
        BY <2>2, <3>4 DEF ParseLine, known
      <4> QED  BY <1>6, <3>1, <3>2, <3>4, <4>1
    <3>5. CASE s.code = D_ALIGN /\ s.code \notin {LABEL_ONLY, D_POS}
      <4>1. Place(aligned)
        BY <2>2, <3>5 DEF ParseLine, known
      <4> QED  BY <1>7, <3>1, <3>2, <3>5, <4>1
    <3>6. CASE s.code \notin {LABEL_ONLY, D_POS, D_ALIGN}
      BY <1>8, <2>2, <3>1, <3>6 DEF ParseLine, known
    <3> QED  BY <3>3, <3>4, <3>5, <3>6
  <2> QED  BY <2>1, <2>2

(* What the passes over the lines put in the image is bytes. *)
LEMMA Statements ==
  ASSUME AsmTypes, NEW i \in DOMAIN source
  PROVE  IsStatement(source[i]) /\ (IsIaddq(source[i]) => hcl = "full")
<1>1. source[i] \in ProgramText(hcl)
  <2>1. source \in [1 .. Len(source) -> ProgramText(hcl)]
    BY LenProperties DEF AsmTypes
  <2> QED  BY <2>1
<1>2. hcl \in DOMAIN Body
  BY DEF AsmTypes
<1> QED  BY <1>1, <1>2, ProgramAssumption DEF ProgramAssumption

LEMMA RelocateTypes ==
  ASSUME AsmTypes, Relocate, hcl' = hcl
  PROVE  AsmTypes'
<1> DEFINE use == Last(reltab)
           codes == StoreValue(lines[use[1]].codes, OperandAt(lines[use[1]].codes[0]),
                               symtab[use[2]])
<1>1. CASE lines' = lines
  BY <1>1 DEF Relocate, AsmTypes
<1>2. CASE use[2] \in DOMAIN symtab /\ lines' = [lines EXCEPT ![use[1]].codes = codes]
  <2>1. lines \in [1 .. Len(lines) -> Line] /\ Len(lines) \in Nat
    BY LenProperties DEF AsmTypes
  <2>2. symtab[use[2]] \in Int
    BY <1>2 DEF AsmTypes
  <2>3. ASSUME use[1] \in 1 .. Len(lines)
        PROVE  [lines[use[1]] EXCEPT !.codes = codes] \in Line
    <3>1. lines[use[1]] \in Line
      BY <2>1, <2>3
    <3> DEFINE l == lines[use[1]]
    <3>2. l.codes \in Codes /\ l \in [addr : Int, bytes : 0 .. WordBytes + 2, codes : Codes]
          /\ (l.bytes > 0 => l.codes \in [0 .. WordBytes + 1 -> Byte])
      BY <3>1 DEF Line
    <3>3. /\ codes \in Codes
          /\ l.codes \in [0 .. WordBytes + 1 -> Byte] => codes \in [0 .. WordBytes + 1 -> Byte]
      BY <2>2, <3>2, ValueStored, OperandPlace
    <3> HIDE DEF codes, l
    <3>4. [l EXCEPT !.codes = codes] \in Line
      BY <3>2, <3>3 DEF Line
    <3> QED  BY <3>4 DEF l
  <2> HIDE DEF codes
  <2>4. lines' \in [1 .. Len(lines) -> Line]
    BY <1>2, <2>1, <2>3
  <2>5. lines' \in Seq(Line)
    BY <2>1, <2>4, SeqDef
  <2> QED  BY <2>5 DEF Relocate, AsmTypes
<1> QED  BY <1>1, <1>2 DEF Relocate

LEMMA BinfileTypes ==
  ASSUME AsmTypes, Binfile, hcl' = hcl
  PROVE  AsmTypes'
<1>1. lines \in [1 .. Len(lines) -> Line] /\ Len(lines) \in Nat
  BY LenProperties DEF AsmTypes
<1>2. ASSUME NEW a \in 0 .. MemLen - 1, Covering(a) # {}
      PROVE  LET line == lines[Max(Covering(a))] IN line.codes[a - line.addr] \in Byte
  <2> DEFINE i == Max(Covering(a))
  <2>1. Covering(a) \in SUBSET Nat /\ \A t \in Covering(a) : t <= Len(lines)
    BY <1>1 DEF Covering
  <2>2. i \in Covering(a)
    BY <1>1, <1>2, <2>1, MaxBounded
  <2> HIDE DEF i
  <2>3. lines[i] \in Line /\ a \in lines[i].addr .. lines[i].addr + lines[i].bytes - 1
    BY <1>1, <2>2 DEF Covering
  <2>4. lines[i].bytes \in 0 .. WordBytes + 2 /\ lines[i].addr \in Int
    BY <2>3 DEF Line
  <2>5. lines[i].bytes > 0 /\ a - lines[i].addr \in 0 .. WordBytes + 1
    BY <2>3, <2>4, Words
  <2>6. lines[i].codes \in [0 .. WordBytes + 1 -> Byte]
    BY <2>3, <2>5 DEF Line
  <2>7. lines[i].codes[a - lines[i].addr] \in Byte
    BY <2>5, <2>6
  <2> QED  BY <2>7 DEF i
<1>3. 0 \in Byte
  BY DEF Byte
<1>4. image' \in Mem
  BY <1>2, <1>3 DEF Binfile, Mem, AsmTypes
<1> QED  BY <1>4 DEF Binfile, AsmTypes

LEMMA BehindInt ==
  ASSUME NEW pos \in Int, NEW s, IsStatement(s), ~Fails(s)
  PROVE  Behind(pos, s) \in Int
<1>1. CASE s.code = D_POS
  <2>1. s.value \in Int
    BY <1>1, WordsAreInt DEF IsStatement, Fails
  <2>2. s.code # D_ALIGN
    BY <1>1 DEF D_POS, D_ALIGN, HPACK
  <2> QED  BY <1>1, <2>1, <2>2 DEF Behind
<1>2. CASE s.code = D_ALIGN
  <2>1. s.value \in Nat \ {0}
    BY <1>2, WordsAreInt DEF IsStatement, Fails
  <2>2. s.code # D_POS
    BY <1>2 DEF D_POS, D_ALIGN, HPACK
  <2> DEFINE a == s.value
             q == (pos + a - 1) \div a
  <2>3. q \in Int /\ a \in Int
    BY <2>1, DivMod
  <2> HIDE DEF q
  <2>4. q * a \in Int
    BY <2>3
  <2>5. Behind(pos, s) = Aligned(pos, a)
    BY <1>2, <2>2 DEF Behind
  <2>6. Aligned(pos, a) = q * a
    BY DEF Aligned, q
  <2> QED  BY <2>4, <2>5, <2>6
<1>3. CASE s.code \notin {D_POS, D_ALIGN}
  <2>1. s.bytes \in Int
    BY DEF IsStatement
  <2> QED  BY <1>3, <2>1 DEF Behind
<1> QED  BY <1>1, <1>2, <1>3

LEMMA BytePosInt ==
  ASSUME AsmTypes, ~hit_error
  PROVE  \A i \in 1 .. Len(source) : bytepos[i] \in Int
<1> DEFINE n == Len(source)
           step == [k \in 1 .. n |-> [x \in Int |-> Behind(x, source[k])]]
           Eq(g) == g = [i \in 1 .. n + 1 |-> IF i = 1 THEN 0 ELSE Behind(g[i - 1], source[i - 1])]
           val == CHOOSE g : Eq(g)
<1>1. bytepos = val
  BY DEF bytepos
<1>2. n \in Nat /\ DOMAIN source = 1 .. n
  BY LenProperties DEF AsmTypes
<1> HIDE DEF n
<1>3. ASSUME NEW k \in 1 .. n, NEW x \in Int PROVE Behind(x, source[k]) \in Int
  BY <1>2, Statements, BehindInt DEF hit_error
<1>4. step \in Steps(n, Int) /\ 0 \in Int
  BY <1>3 DEF Steps
<1>5. \A k \in 1 .. n, x \in Int : step[k][x] = Behind(x, source[k])
  OBVIOUS
<1> HIDE DEF step
<1>6. PICK f : Runs(f, n, Int, 0, step)
  BY <1>2, <1>4, Recursion
<1> DEFINE g == [i \in 1 .. n + 1 |-> f[i - 1]]
<1>7. Eq(g)
  <2>1. ASSUME NEW i \in 1 .. n + 1
        PROVE  g[i] = IF i = 1 THEN 0 ELSE Behind(g[i - 1], source[i - 1])
    <3>1. CASE i = 1
      BY <3>1, <1>6 DEF Runs
    <3>2. CASE i # 1
      <4>1. i - 1 \in 1 .. n /\ i - 1 \in 1 .. n + 1 /\ i - 1 - 1 \in 0 .. n
        BY <1>2, <3>2
      <4>2. f[i - 1 - 1] \in Int /\ f[i - 1] = step[i - 1][f[i - 1 - 1]]
        BY <1>6, <4>1 DEF Runs
      <4>3. g[i - 1] = f[i - 1 - 1] /\ g[i] = f[i - 1]
        BY <4>1
      <4> HIDE DEF g
      <4> QED  BY <1>5, <3>2, <4>1, <4>2, <4>3
    <3> QED  BY <3>1, <3>2
  <2>2. g = [i \in 1 .. n + 1 |-> g[i]]
    OBVIOUS
  <2> HIDE DEF g
  <2> QED  BY <2>1, <2>2, Zenon
<1>8. Eq(val)
  <2> HIDE DEF Eq, g
  <2> QED  BY <1>7
<1> HIDE DEF val, g
<1> DEFINE S == {k \in 0 .. n : val[k + 1] \in Int}
<1>9. 0 \in S
  <2>1. 1 \in 1 .. n + 1
    BY <1>2
  <2>2. val[1] = 0
    BY <1>8, <2>1
  <2> HIDE DEF Eq
  <2> QED  BY <1>2, <2>2
<1>10. ASSUME NEW k \in 0 .. n, k < n, k \in S PROVE k + 1 \in S
  <2>1. k + 1 \in 1 .. n /\ k + 1 + 1 \in 1 .. n + 1 /\ k + 1 + 1 # 1 /\ k + 1 + 1 - 1 = k + 1
        /\ k + 1 \in 0 .. n
    BY <1>2, <1>10
  <2> DEFINE i == k + 1 + 1
  <2> HIDE DEF i
  <2>2. val[i] = Behind(val[i - 1], source[i - 1])
    <3>1. i \in 1 .. n + 1 /\ i # 1
      BY <2>1 DEF i
    <3>2. val[i] = IF i = 1 THEN 0 ELSE Behind(val[i - 1], source[i - 1])
      BY <1>8, <3>1
    <3> HIDE DEF Eq
    <3> QED  BY <3>1, <3>2
  <2> HIDE DEF Eq
  <2>3. val[k + 1] \in Int
    BY <1>10
  <2>4. Behind(val[k + 1], source[k + 1]) \in Int
    BY <1>3, <2>1, <2>3
  <2> QED  BY <2>1, <2>2, <2>4 DEF i
<1>11. \A k \in 0 .. n : k \in S
  <2> HIDE DEF S, Eq
  <2> QED  BY <1>2, <1>9, <1>10, Induction
<1>12. ASSUME NEW i \in 1 .. n PROVE bytepos[i] \in Int
  <2>1. i - 1 \in 0 .. n /\ i - 1 + 1 = i
    BY <1>2
  <2>2. i - 1 \in S
    BY <1>11, <2>1
  <2> QED  BY <1>1, <2>1, <2>2
<1> QED  BY <1>12 DEF n

LEMMA CodeByteIsByte ==
  ASSUME AsmTypes, ~hit_error, NEW n \in DOMAIN source, HasCode(n),
         NEW i \in 0 .. source[n].bytes - 1
  PROVE  CodeByte(source[n], i) \in Byte
<1> DEFINE s == source[n]
           from == IF s.regs # NoLabel THEN 2 ELSE OperandAt(s.code)
<1>1. IsStatement(s) /\ ~Fails(s)
  BY Statements DEF hit_error
<1>2. s.code \in Byte /\ s.bytes \in 0 .. WordBytes + 2
  BY <1>1 DEF IsStatement, Fails, HasCode
<1>3. i \in 0 .. WordBytes + 1
  BY <1>2, Words
<1>4. CASE s.operand # "none" /\ i >= from
  <2>1. Value(s) \in Int
    <3>1. CASE s.operand = "label"
      <4> DEFINE D == Defining(s.value)
      <4>1. D # {}
        BY <1>1, <3>1 DEF Fails
      <4>2. DOMAIN source = 1 .. Len(source) /\ Len(source) \in Nat
        BY LenProperties DEF AsmTypes
      <4>3. D \in SUBSET Nat /\ D \subseteq DOMAIN source
        BY <4>2 DEF Defining
      <4> HIDE DEF D
      <4>4. Min(D) \in 1 .. Len(source)
        BY <4>1, <4>2, <4>3, MinMember
      <4>5. bytepos[Min(D)] \in Int
        BY <4>4, BytePosInt
      <4> QED  BY <3>1, <4>5 DEF Value, find_symbol, D
    <3>2. CASE s.operand # "label"
      BY <1>1, <3>2, WordsAreInt DEF Value, IsStatement
    <3> QED  BY <3>1, <3>2
  <2>2. from \in 0 .. 2
    BY OperandPlace
  <2> HIDE DEF from
  <2>3. i - from \in 0 .. WordBytes + 1
    BY <1>3, <1>4, <2>2, Words
  <2>4. (Value(s) \div 256 ^ (i - from)) % 256 \in Byte
    <3> DEFINE v == Value(s)
               k == i - from
    <3>1. v \in Int /\ k \in 0 .. WordBytes + 1
      BY <2>1, <2>3
    <3> HIDE DEF v, k
    <3>2. (v \div 256 ^ k) % 256 \in Byte
      BY <3>1, ByteOfValue
    <3> QED  BY <3>2, Zenon DEF v, k
  <2>5. CodeByte(s, i) = (Value(s) \div 256 ^ (i - from)) % 256
    BY <1>4, Zenon DEF CodeByte, from
  <2> HIDE DEF s
  <2>6. CodeByte(s, i) \in Byte
    BY <2>4, <2>5
  <2> QED  BY <2>6 DEF s
<1>5. CASE ~(s.operand # "none" /\ i >= from)
  <2>1. i = 0 \/ s.regs # NoLabel
    <3>1. ASSUME s.regs = NoLabel PROVE i = 0
      <4>1. s.bytes <= 1 \/ (s.operand # "none" /\ OperandAt(s.code) < 2)
        BY <1>1, <3>1 DEF IsStatement
      <4>2. OperandAt(s.code) \in 0 .. 2
        BY OperandPlace
      <4> QED  BY <1>2, <1>3, <1>5, <3>1, <4>1, <4>2
    <3> QED  BY <3>1
  <2>2. s.regs # NoLabel => s.regs \in Byte
    BY <1>1 DEF IsStatement
  <2> QED  BY <1>2, <1>5, <2>1, <2>2 DEF CodeByte
<1> QED  BY <1>4, <1>5

LEMMA ExitTypes ==
  ASSUME AsmTypes, Exit, hcl' = hcl
  PROVE  AsmTypes'
<1>1. DOMAIN source = 1 .. Len(source) /\ Len(source) \in Nat
  BY LenProperties DEF AsmTypes
<1>2. ~hit_error
  BY DEF Exit
<1>3. ASSUME NEW a \in 0 .. MemLen - 1, LinesAt(a) # {}
      PROVE  CodeByte(source[Max(LinesAt(a))], a - bytepos[Max(LinesAt(a))]) \in Byte
  <2> DEFINE i == Max(LinesAt(a))
  <2>1. LinesAt(a) \in SUBSET Nat /\ \A t \in LinesAt(a) : t <= Len(source)
    BY <1>1 DEF LinesAt
  <2>2. i \in LinesAt(a)
    BY <1>1, <1>3, <2>1, MaxBounded
  <2> HIDE DEF i
  <2>3. i \in DOMAIN source /\ HasCode(i)
        /\ a \in bytepos[i] .. bytepos[i] + source[i].bytes - 1
    BY <2>2 DEF LinesAt
  <2>4. bytepos[i] \in Int
    BY <1>1, <1>2, <2>3, BytePosInt
  <2>5. source[i].bytes \in Int
    BY <2>3, Statements DEF IsStatement
  <2>6. a - bytepos[i] \in 0 .. source[i].bytes - 1
    BY <2>3, <2>4, <2>5
  <2>7. CodeByte(source[i], a - bytepos[i]) \in Byte
    BY <1>2, <2>3, <2>6, CodeByteIsByte
  <2> QED  BY <2>7 DEF i
<1>4. 0 \in Byte
  BY DEF Byte
<1>5. yo_image \in Mem
  BY <1>3, <1>4 DEF yo_image, Mem
<1> QED  BY <1>5, EmptySeq DEF Exit, AsmTypes

LEMMA NextAsmTypes ==
  ASSUME AsmTypes, [Next]_vars
  PROVE  AsmTypes'
<1>1. CASE Read
  <2>1. hcl' = hcl
    BY <1>1 DEF Read, machines, pvars
  <2>2. PICK s \in NextStatements : IF hcl = "full" THEN NextLine(s) ELSE ParseLine(s)
    BY <1>1 DEF Read
  <2>3. s \in ProgramText(hcl) /\ IsStatement(s)
    BY NextStatementsAreText
  <2>4. CASE NextLine(s)
    <3>1. source' \in Seq(ProgramText(hcl))
      BY <2>3, <2>4, AppendProperties DEF NextLine, AsmTypes
    <3> QED  BY <2>1, <2>4, <3>1 DEF NextLine, AsmTypes
  <2>5. CASE ParseLine(s)
    BY <2>1, <2>3, <2>5, ParseLineTypes
  <2> QED  BY <2>2, <2>4, <2>5
<1>2. CASE Assemble
  <2>1. hcl' = hcl
    BY <1>2 DEF Assemble, machines, pvars
  <2>2. CASE EndOfSource \/ Relocated
    BY <2>1, <2>2 DEF EndOfSource, Relocated, AsmTypes
  <2> QED  BY <1>2, <2>1, <2>2, RelocateTypes, BinfileTypes DEF Assemble, Assembled
<1>3. CASE Load
  <2>1. hcl' = hcl
    BY <1>3 DEF Load
  <2>2. CASE finit
    BY <2>1, <2>2, EmptySeq DEF finit, AsmTypes
  <2> QED  BY <1>3, <2>1, <2>2, ExitTypes DEF Load
<1>4. CASE Run
  BY <1>4 DEF Run, avars, AsmTypes, Cycle
<1>5. CASE UNCHANGED vars
  BY <1>5 DEF vars, avars, pvars, AsmTypes
<1> QED  BY <1>1, <1>2, <1>3, <1>4, <1>5 DEF Next

-----------------------------------------------------------------------------
(* The sequential processor. *)

SeqTypes ==
    /\ spc \in Word /\ sreg \in Regs /\ smem \in Mem
    /\ spend.pc \in Word /\ spend.vale \in Word /\ spend.valm \in Word
    /\ spend.mem_addr \in Word /\ spend.mem_data \in Word

LEMMA InitSeqTypes == Init => SeqTypes
<1>1. 0 \in Byte
  BY DEF Byte
<1> QED  BY <1>1, Words DEF Init, SeqInit, SeqTypes, Mem, Regs, REG_NONE

LEMMA PendingTypes ==
  ASSUME SeqTypes
  PROVE  PendingRegs \in Regs /\ PendingMem \in Mem
<1>1. set_reg_val(sreg, spend.destE, spend.vale) \in Regs
  BY RegisterWritten DEF SeqTypes
<1>2. PendingRegs \in Regs
  <2> DEFINE r == set_reg_val(sreg, spend.destE, spend.vale)
  <2> HIDE DEF r
  <2>1. set_reg_val(r, spend.destM, spend.valm) \in Regs
    BY <1>1, RegisterWritten DEF SeqTypes, r
  <2> QED  BY <2>1 DEF PendingRegs, r
<1>3. PendingMem \in Mem
  BY WordWritten DEF SeqTypes, PendingMem
<1> QED  BY <1>2, <1>3

(* The fetched instruction. *)
LEMMA FetchedTypes ==
  ASSUME NEW mem \in Mem, NEW pc \in Word
  PROVE  LET i == Fetched(mem, pc) IN
         /\ i.icode \in 0 .. 15 /\ i.ra \in 0 .. REG_NONE /\ i.rb \in 0 .. REG_NONE
         /\ i.valc \in Word /\ i.valp \in Word
<1> DEFINE i == Fetched(mem, pc)
           valpc == IF seq_need_regids(i.icode) THEN Wrap(pc + 2) ELSE Wrap(pc + 1)
<1>1. pc \in Int /\ WordBytes \in Int /\ 0 \in Word /\ Word \subseteq Int
  BY Words DEF Word
<1>2. ASSUME NEW a \in Word, get_byte_ok(a) PROVE HI4(mem[a]) \in 0 .. 15 /\ LO4(mem[a]) \in 0 .. 15
  <2>1. mem[a] \in Byte
    BY <1>2, ByteAddress DEF Mem
  <2> QED  BY <2>1, Nibbles
<1>3. i.icode = IF ~get_byte_ok(pc) THEN I_NOP ELSE HI4(mem[pc])
  BY DEF Fetched
<1>4. i.icode \in 0 .. 15
  BY <1>2, <1>3 DEF I_NOP
<1>5. Wrap(pc + 1) \in Word /\ valpc \in Word
  BY <1>1, WrapIsWord
<1>6. /\ i.ra = IF seq_need_regids(i.icode) /\ get_byte_ok(Wrap(pc + 1))
                THEN HI4(mem[Wrap(pc + 1)]) ELSE REG_NONE
      /\ i.rb = IF seq_need_regids(i.icode) /\ get_byte_ok(Wrap(pc + 1))
                THEN LO4(mem[Wrap(pc + 1)]) ELSE REG_NONE
      /\ i.valc = IF seq_need_valC(i.icode) /\ get_word_ok(valpc)
                  THEN get_word_val(mem, valpc) ELSE 0
      /\ i.valp = IF seq_need_valC(i.icode) THEN Wrap(valpc + WordBytes) ELSE valpc
  BY DEF Fetched
<1> HIDE DEF i, valpc
<1>7. i.ra \in 0 .. REG_NONE /\ i.rb \in 0 .. REG_NONE
  BY <1>2, <1>5, <1>6 DEF REG_NONE
<1>8. i.valc \in Word
  BY <1>1, <1>5, <1>6, WordRead
<1>9. i.valp \in Word
  <2>1. valpc + WordBytes \in Int
    BY <1>1, <1>5
  <2> QED  BY <1>5, <1>6, <2>1, WrapIsWord
<1> QED  BY <1>4, <1>7, <1>8, <1>9 DEF i

(* What sim_step computes, by name. *)
Now == Fetched(PendingMem, spend.pc)
NowA == get_reg_val(PendingRegs, seq_srcA(Now))
NowB == get_reg_val(PendingRegs, seq_srcB(Now))
NowCond == cond_holds(spend.cc, Now.ifun)
NowE == compute_alu(seq_alufun(Now), seq_aluA(Now, NowA), seq_aluB(Now, NowB))
NowAddr == seq_mem_addr(Now, NowA, NowE)
NowError == (seq_mem_read(Now) \/ seq_mem_write(Now)) /\ ~get_word_ok(NowAddr)
NowM == IF ~seq_mem_read(Now) THEN 0
        ELSE IF NowError THEN spend.valm ELSE get_word_val(PendingMem, NowAddr)

LEMMA SimStep ==
  ASSUME sim_step
  PROVE  /\ sstat = "AOK" /\ sstat' = seq_Stat(Now, NowError)
         /\ spc' = spend.pc /\ sreg' = PendingRegs /\ smem' = PendingMem /\ scc' = spend.cc
         /\ spend' = [pc |-> seq_new_pc(Now, NowCond, NowM),
                      cc |-> IF seq_set_cc(Now)
                             THEN compute_cc(seq_alufun(Now), seq_aluA(Now, NowA),
                                             seq_aluB(Now, NowB))
                             ELSE spend.cc,
                      destE |-> seq_dstE(Now, NowCond), vale |-> NowE,
                      destM |-> seq_dstM(Now), valm |-> NowM,
                      mem_write |-> seq_mem_write(Now), mem_addr |-> NowAddr,
                      mem_data |-> seq_mem_data(Now, NowA)]
  BY Zenon DEF sim_step, Now, NowA, NowB, NowCond, NowE, NowAddr, NowError, NowM

LEMMA NowTypes ==
  ASSUME SeqTypes
  PROVE  /\ Now.icode \in 0 .. 15 /\ Now.ra \in 0 .. REG_NONE /\ Now.rb \in 0 .. REG_NONE
         /\ Now.valc \in Word /\ Now.valp \in Word
         /\ NowA \in Word /\ NowB \in Word /\ NowE \in Word
         /\ NowAddr \in Word /\ NowM \in Word
<1>1. PendingRegs \in Regs /\ PendingMem \in Mem /\ spend.pc \in Word /\ spend.valm \in Word
  BY PendingTypes DEF SeqTypes
<1>2. /\ Now.icode \in 0 .. 15 /\ Now.ra \in 0 .. REG_NONE /\ Now.rb \in 0 .. REG_NONE
      /\ Now.valc \in Word /\ Now.valp \in Word
  BY <1>1, FetchedTypes DEF Now
<1>3. seq_srcA(Now) \in 0 .. REG_NONE /\ seq_srcB(Now) \in 0 .. REG_NONE
  BY <1>2 DEF seq_srcA, seq_srcB, REG_NONE, REG_RSP
<1>4. NowA \in Word /\ NowB \in Word
  BY <1>1, <1>3, RegisterRead DEF NowA, NowB
<1>5. 0 \in Word /\ WordBytes \in Int /\ Word \subseteq Int
  BY Words DEF Word
<1>6. NowE \in Word
  <2>1. CASE Now.icode = I_ALU
    <3>1. seq_aluA(Now, NowA) = NowA /\ seq_aluB(Now, NowB) = NowB
      BY <2>1 DEF seq_aluA, seq_aluB
    <3> QED  BY <1>4, <3>1, AluIsWord DEF NowE
  <2>2. CASE Now.icode # I_ALU
    <3>1. seq_alufun(Now) = A_ADD
      BY <2>2 DEF seq_alufun
    <3>2. seq_aluA(Now, NowA) \in Int
      <4>1. Wrap(-WordBytes) \in Word
        BY <1>5, WrapIsWord
      <4> QED  BY <1>2, <1>4, <1>5, <4>1 DEF seq_aluA
    <3>3. seq_aluB(Now, NowB) \in Int
      BY <1>4, <1>5 DEF seq_aluB
    <3> DEFINE a == seq_aluA(Now, NowA)
               b == seq_aluB(Now, NowB)
    <3> HIDE DEF a, b
    <3>4. compute_alu(A_ADD, a, b) = Wrap(a + b)
      BY DEF compute_alu, A_ADD, A_SUB, A_AND, A_XOR
    <3>5. Wrap(a + b) \in Word
      BY <3>2, <3>3, WrapIsWord DEF a, b
    <3> QED  BY <3>1, <3>4, <3>5 DEF NowE, a, b
  <2> QED  BY <2>1, <2>2
<1>7. NowAddr \in Word
  BY <1>4, <1>5, <1>6 DEF NowAddr, seq_mem_addr
<1>8. NowM \in Word
  <2>1. CASE seq_mem_read(Now) /\ ~NowError
    <3>1. get_word_ok(NowAddr)
      BY <2>1 DEF NowError
    <3>2. get_word_val(PendingMem, NowAddr) \in Word
      BY <1>1, <1>7, <3>1, WordRead
    <3> QED  BY <2>1, <3>2 DEF NowM
  <2>2. CASE ~(seq_mem_read(Now) /\ ~NowError)
    BY <1>1, <1>5, <2>2 DEF NowM
  <2> QED  BY <2>1, <2>2
<1> QED  BY <1>2, <1>4, <1>6, <1>7, <1>8

LEMMA SimStepTypes ==
  ASSUME SeqTypes, sim_step
  PROVE  SeqTypes'
<1>1. PendingRegs \in Regs /\ PendingMem \in Mem /\ spend.pc \in Word
  BY PendingTypes DEF SeqTypes
<1>2. seq_new_pc(Now, NowCond, NowM) \in Word
  BY NowTypes DEF seq_new_pc
<1>3. seq_mem_data(Now, NowA) \in Word
  BY NowTypes, Words DEF seq_mem_data
<1> QED  BY <1>1, <1>2, <1>3, SimStep, NowTypes DEF SeqTypes

Types == AsmTypes /\ SeqTypes

LEMMA NextTypes ==
  ASSUME Types, [Next]_vars
  PROVE  Types'
<1>1. AsmTypes'
  BY NextAsmTypes DEF Types
<1>2. SeqTypes'
  <2>1. ASSUME UNCHANGED svars PROVE SeqTypes'
    BY <2>1 DEF svars, SeqTypes, Types
  <2>2. CASE Read \/ Assemble
    BY <2>1, <2>2 DEF Read, Assemble, machines
  <2>3. CASE Load
    BY <1>1, <2>3 DEF Load, AsmTypes, SeqTypes, Types
  <2>4. CASE Run
    <3>1. sim_step \/ UNCHANGED svars
      BY <2>4 DEF Run
    <3>2. SeqTypes
      BY DEF Types
    <3> QED  BY <2>1, <3>1, <3>2, SimStepTypes
  <2>5. CASE UNCHANGED vars
    BY <2>1, <2>5 DEF vars
  <2> QED  BY <2>2, <2>3, <2>4, <2>5 DEF Next
<1> QED  BY <1>1, <1>2 DEF Types

-----------------------------------------------------------------------------
(* Isa's copies of the operators it shares with the other machines. *)
LEMMA SharedCodes ==
  /\ SeqIsa!I_HALT = 0 /\ SeqIsa!I_NOP = 1 /\ SeqIsa!I_RRMOVQ = 2 /\ SeqIsa!I_IRMOVQ = 3
  /\ SeqIsa!I_RMMOVQ = 4 /\ SeqIsa!I_MRMOVQ = 5 /\ SeqIsa!I_ALU = 6 /\ SeqIsa!I_JMP = 7
  /\ SeqIsa!I_CALL = 8 /\ SeqIsa!I_RET = 9 /\ SeqIsa!I_PUSHQ = 10 /\ SeqIsa!I_POPQ = 11
  /\ SeqIsa!I_IADDQ = 12 /\ SeqIsa!REG_RSP = 4 /\ SeqIsa!REG_NONE = 15 /\ SeqIsa!A_ADD = 0
  BY DEF SeqIsa!I_HALT, SeqIsa!I_NOP, SeqIsa!I_RRMOVQ, SeqIsa!I_IRMOVQ, SeqIsa!I_RMMOVQ,
         SeqIsa!I_MRMOVQ, SeqIsa!I_ALU, SeqIsa!I_JMP, SeqIsa!I_CALL, SeqIsa!I_RET,
         SeqIsa!I_PUSHQ, SeqIsa!I_POPQ, SeqIsa!I_IADDQ, SeqIsa!REG_RSP, SeqIsa!REG_NONE,
         SeqIsa!A_ADD

LEMMA SharedCodesHere ==
  /\ I_HALT = 0 /\ I_NOP = 1 /\ I_RRMOVQ = 2 /\ I_IRMOVQ = 3 /\ I_RMMOVQ = 4 /\ I_MRMOVQ = 5
  /\ I_ALU = 6 /\ I_JMP = 7 /\ I_CALL = 8 /\ I_RET = 9 /\ I_PUSHQ = 10 /\ I_POPQ = 11
  /\ I_IADDQ = 12 /\ REG_RSP = 4 /\ REG_NONE = 15 /\ A_ADD = 0
  BY DEF I_HALT, I_NOP, I_RRMOVQ, I_IRMOVQ, I_RMMOVQ, I_MRMOVQ, I_ALU, I_JMP, I_CALL, I_RET,
         I_PUSHQ, I_POPQ, I_IADDQ, REG_RSP, REG_NONE, A_ADD

LEMMA SharedNumbers ==
  /\ SeqIsa!Modulus = Modulus
  /\ \A n : SeqIsa!Wrap(n) = Wrap(n)
  /\ \A w : SeqIsa!Signed(w) = Signed(w)
  /\ \A b : SeqIsa!HI4(b) = HI4(b) /\ SeqIsa!LO4(b) = LO4(b)
<1>1. SeqIsa!Modulus = Modulus
  BY DEF SeqIsa!Modulus, Modulus
<1> QED  BY <1>1 DEF SeqIsa!Wrap, Wrap, SeqIsa!Signed, Signed, SeqIsa!HI4, HI4, SeqIsa!LO4, LO4

LEMMA SharedMemory ==
  /\ \A pos : SeqIsa!get_byte_ok(pos) <=> get_byte_ok(pos)
  /\ \A pos : SeqIsa!get_word_ok(pos) <=> get_word_ok(pos)
  /\ \A base, digits, n : SeqIsa!Number(base, digits, n) = Number(base, digits, n)
  /\ \A mem, pos : SeqIsa!get_word_val(mem, pos) = get_word_val(mem, pos)
  /\ \A mem, pos, val : SeqIsa!set_word_val(mem, pos, val) = set_word_val(mem, pos, val)
<1>1. \A pos, n : SeqIsa!Accessible(pos, n) <=> Accessible(pos, n)
  BY SharedNumbers DEF SeqIsa!Accessible, Accessible
<1>2. /\ \A pos : SeqIsa!get_byte_ok(pos) <=> get_byte_ok(pos)
      /\ \A pos : SeqIsa!get_word_ok(pos) <=> get_word_ok(pos)
  BY <1>1 DEF SeqIsa!get_byte_ok, SeqIsa!get_word_ok, get_byte_ok, get_word_ok
<1>3. \A base, digits, n : SeqIsa!Number(base, digits, n) = Number(base, digits, n)
  BY Zenon DEF SeqIsa!Number, Number
<1>4. \A mem, pos : SeqIsa!get_word_val(mem, pos) = get_word_val(mem, pos)
  BY <1>3, Zenon DEF SeqIsa!get_word_val, get_word_val
<1>5. \A mem, pos, val : SeqIsa!set_word_val(mem, pos, val) = set_word_val(mem, pos, val)
  BY Zenon DEF SeqIsa!set_word_val, set_word_val
<1> QED  BY <1>2, <1>3, <1>4, <1>5

LEMMA SharedRegisters ==
  /\ \A id : SeqIsa!reg_valid(id) <=> reg_valid(id)
  /\ \A r, id : SeqIsa!get_reg_val(r, id) = get_reg_val(r, id)
  /\ \A r, id, val : SeqIsa!set_reg_val(r, id, val) = set_reg_val(r, id, val)
<1>1. \A id : SeqIsa!reg_valid(id) <=> reg_valid(id)
  BY DEF SeqIsa!reg_valid, reg_valid, SeqIsa!REG_NONE, REG_NONE
<1> QED  BY <1>1, Zenon DEF SeqIsa!get_reg_val, get_reg_val, SeqIsa!set_reg_val, set_reg_val

LEMMA SharedAlu ==
  /\ \A fun, a, b : SeqIsa!compute_alu(fun, a, b) = compute_alu(fun, a, b)
  /\ \A fun, a, b : SeqIsa!compute_cc(fun, a, b) = compute_cc(fun, a, b)
  /\ \A c, bcond : SeqIsa!cond_holds(c, bcond) <=> cond_holds(c, bcond)
<1>1. \A bits : SeqIsa!FromBits(bits) = FromBits(bits)
  BY SharedMemory, Zenon DEF SeqIsa!FromBits, FromBits
<1>2. \A w, i : SeqIsa!Bit(w, i) = Bit(w, i)
  BY Zenon DEF SeqIsa!Bit, Bit
<1>3. SeqIsa!BitIndex = BitIndex
  BY DEF SeqIsa!BitIndex, BitIndex
<1>4. SeqIsa!A_ADD = A_ADD /\ SeqIsa!A_SUB = A_SUB /\ SeqIsa!A_AND = A_AND /\ SeqIsa!A_XOR = A_XOR
  BY DEF SeqIsa!A_ADD, SeqIsa!A_SUB, SeqIsa!A_AND, SeqIsa!A_XOR, A_ADD, A_SUB, A_AND, A_XOR
<1>5. ASSUME NEW fun, NEW a, NEW b PROVE SeqIsa!compute_alu(fun, a, b) = compute_alu(fun, a, b)
  <2>1. [i \in BitIndex |-> SeqIsa!Bit(a, i) * SeqIsa!Bit(b, i)]
            = [i \in BitIndex |-> Bit(a, i) * Bit(b, i)]
    BY <1>2, Zenon
  <2>2. [i \in BitIndex |-> (SeqIsa!Bit(a, i) + SeqIsa!Bit(b, i)) % 2]
            = [i \in BitIndex |-> (Bit(a, i) + Bit(b, i)) % 2]
    BY <1>2, Zenon
  <2> QED  BY <1>1, <1>3, <1>4, <2>1, <2>2, SharedNumbers DEF SeqIsa!compute_alu, compute_alu
<1>6. ASSUME NEW fun, NEW a, NEW b PROVE SeqIsa!compute_cc(fun, a, b) = compute_cc(fun, a, b)
  BY <1>4, <1>5, SharedNumbers DEF SeqIsa!compute_cc, compute_cc
<1>7. ASSUME NEW c, NEW bcond PROVE SeqIsa!cond_holds(c, bcond) <=> cond_holds(c, bcond)
  BY DEF SeqIsa!cond_holds, cond_holds, C_YES, C_LE, C_L, C_E, C_NE, C_GE, C_G,
     SeqIsa!C_YES, SeqIsa!C_LE, SeqIsa!C_L, SeqIsa!C_E, SeqIsa!C_NE, SeqIsa!C_GE, SeqIsa!C_G
<1> QED  BY <1>5, <1>6, <1>7

(* Every instruction the program reaches is complete and names registers   *)
(* that exist.                                                             *)
ProperCode ==
    sstat = "AOK" /\ SeqIsa!get_byte_ok(SeqPc) /\ SeqIsa!hi0 \in I_NOP .. I_IADDQ
        => SeqIsa!ok1 /\ SeqIsa!okc /\ ~SeqIsa!BadReg

LEMMA StateNow ==
  ASSUME sstat = "AOK"
  PROVE  /\ SeqPc = spend.pc /\ SeqRegs = PendingRegs /\ SeqMem = PendingMem /\ SeqCC = spend.cc
  BY DEF SeqPc, SeqRegs, SeqMem, SeqCC, SeqDone

LEMMA StateNext ==
  ASSUME sim_step
  PROVE  LET done == sstat' = "AOK" IN
         /\ SeqPc' = IF done THEN seq_new_pc(Now, NowCond, NowM) ELSE SeqPc
         /\ SeqRegs' = IF done THEN set_reg_val(set_reg_val(SeqRegs, seq_dstE(Now, NowCond), NowE),
                                                seq_dstM(Now), NowM)
                       ELSE SeqRegs
         /\ SeqMem' = IF done /\ seq_mem_write(Now)
                      THEN set_word_val(SeqMem, NowAddr, seq_mem_data(Now, NowA))
                      ELSE SeqMem
         /\ SeqCC' = IF done /\ seq_set_cc(Now)
                     THEN compute_cc(seq_alufun(Now), seq_aluA(Now, NowA), seq_aluB(Now, NowB))
                     ELSE SeqCC
<1>1. /\ SeqPc = spend.pc /\ SeqRegs = PendingRegs /\ SeqMem = PendingMem /\ SeqCC = spend.cc
  BY SimStep, StateNow
<1>2. PendingRegs' = set_reg_val(set_reg_val(PendingRegs, seq_dstE(Now, NowCond), NowE),
                                 seq_dstM(Now), NowM)
  BY SimStep DEF PendingRegs
<1>3. PendingMem' = IF seq_mem_write(Now)
                    THEN set_word_val(PendingMem, NowAddr, seq_mem_data(Now, NowA))
                    ELSE PendingMem
  BY SimStep DEF PendingMem
<1>4. /\ spend'.pc = seq_new_pc(Now, NowCond, NowM)
      /\ spend'.cc = IF seq_set_cc(Now)
                     THEN compute_cc(seq_alufun(Now), seq_aluA(Now, NowA), seq_aluB(Now, NowB))
                     ELSE spend.cc
      /\ spc' = spend.pc /\ sreg' = PendingRegs /\ smem' = PendingMem /\ scc' = spend.cc
  BY SimStep
<1> QED  BY <1>1, <1>2, <1>3, <1>4 DEF SeqPc, SeqRegs, SeqMem, SeqCC, SeqDone

(* The two fetches, of an instruction that is in memory. *)
LEMMA FirstByte ==
  ASSUME SeqTypes, sstat = "AOK", get_byte_ok(spend.pc)
  PROVE  /\ Now.icode = SeqIsa!hi0 /\ Now.ifun = SeqIsa!lo0 /\ ~Now.imem_error
         /\ SeqIsa!hi0 \in 0 .. 15
<1>1. Now.icode = SeqIsa!hi0 /\ Now.ifun = SeqIsa!lo0 /\ ~Now.imem_error
  BY StateNow, SharedNumbers DEF SeqIsa!hi0, SeqIsa!lo0, Now, Fetched
<1> QED  BY <1>1, NowTypes

LEMMA NextAddress ==
  ASSUME NEW pos \in Word, get_byte_ok(pos)
  PROVE  Wrap(pos + 1) = pos + 1
<1>1. pos + 1 \in Word
  BY ByteAddress, Words DEF Word
<1>2. pos + 1 \in Int
  BY ByteAddress, Words DEF Word
<1> QED  BY <1>1, <1>2, WrapIsWord

LEMMA WholeInstruction ==
  ASSUME SeqTypes, sstat = "AOK", get_byte_ok(spend.pc), SeqIsa!ok1, SeqIsa!okc
  PROVE  /\ Now.valp = SeqIsa!ftpc
         /\ Now.icode \in {2, 3, 4, 5, 6, 10, 11, 12} => Now.ra = SeqIsa!hi1 /\ Now.rb = SeqIsa!lo1
         /\ Now.icode \in {3, 4, 5, 7, 8, 12} => Now.valc = SeqIsa!cval
<1> DEFINE pc == spend.pc
           regs == Now.icode \in {2, 3, 4, 5, 6, 10, 11, 12}
           immed == Now.icode \in {3, 4, 5, 7, 8, 12}
           valpc == IF regs THEN Wrap(pc + 2) ELSE Wrap(pc + 1)
<1>0. pc \in Word /\ pc \in Int /\ WordBytes \in Int
  BY Words DEF SeqTypes, Word
<1>1. SeqPc = pc /\ SeqMem = PendingMem
  BY StateNow
<1>2. /\ SeqIsa!need_regids <=> regs
      /\ SeqIsa!need_imm <=> immed
  BY FirstByte, SharedCodes DEF SeqIsa!need_regids, SeqIsa!need_imm
<1>3. /\ seq_need_regids(Now.icode) <=> regs
      /\ seq_need_valC(Now.icode) <=> immed
  BY SharedCodesHere DEF seq_need_regids, seq_need_valC
<1>4. SeqIsa!immpc = valpc
  BY <1>1, <1>2, SharedNumbers DEF SeqIsa!immpc
<1>5. SeqIsa!ftpc = IF immed THEN Wrap(valpc + WordBytes) ELSE Wrap(valpc + 0)
  BY <1>2, <1>4, SharedNumbers DEF SeqIsa!ftpc
<1>6. valpc \in Word /\ valpc \in Int
  <2>1. Wrap(pc + 2) \in Word /\ Wrap(pc + 1) \in Word
    BY <1>0, WrapIsWord
  <2> QED  BY <2>1, Words DEF Word
<1>7. Wrap(valpc + 0) = valpc
  <2> HIDE DEF valpc
  <2> QED  BY <1>6, WrapIsWord
<1>8. Now.valp = IF immed THEN Wrap(valpc + WordBytes) ELSE valpc
  BY <1>3 DEF Now, Fetched
<1>9. ASSUME regs PROVE Now.ra = SeqIsa!hi1 /\ Now.rb = SeqIsa!lo1
  <2>1. Wrap(pc + 1) = pc + 1
    BY <1>0, NextAddress
  <2>2. get_byte_ok(Wrap(pc + 1))
    BY <1>1, <1>2, <1>9, SharedNumbers, SharedMemory DEF SeqIsa!ok1
  <2>3. /\ Now.ra = HI4(PendingMem[Wrap(pc + 1)])
        /\ Now.rb = LO4(PendingMem[Wrap(pc + 1)])
    BY <1>3, <1>9, <2>2 DEF Now, Fetched
  <2> QED  BY <1>1, <2>1, <2>3, SharedNumbers DEF SeqIsa!hi1, SeqIsa!lo1
<1>10. ASSUME immed PROVE Now.valc = SeqIsa!cval
  <2>1. get_word_ok(valpc)
    BY <1>2, <1>4, <1>10, SharedMemory DEF SeqIsa!okc
  <2>2. Now.valc = get_word_val(PendingMem, valpc)
    BY <1>3, <1>10, <2>1 DEF Now, Fetched
  <2> QED  BY <1>1, <1>4, <2>2, SharedMemory DEF SeqIsa!cval
<1>11. Now.valp = SeqIsa!ftpc
  BY <1>5, <1>7, <1>8
<1> QED  BY <1>9, <1>10, <1>11

(* An instruction that is fetched whole and names registers that exist.    *)
Legal ==
    /\ SeqTypes /\ sstat = "AOK" /\ get_byte_ok(spend.pc) /\ Now.icode \in 1 .. 12
    /\ SeqIsa!ok1 /\ SeqIsa!okc /\ ~SeqIsa!BadReg

LEMMA LegalFetch ==
  ASSUME Legal
  PROVE  /\ sstat = "AOK" /\ SeqIsa!hi0 = Now.icode /\ SeqIsa!lo0 = Now.ifun
         /\ Now.icode \in 1 .. 12 /\ ~Now.imem_error
         /\ Now.valp = SeqIsa!ftpc
         /\ Now.icode \in {2, 3, 4, 5, 6, 10, 11, 12} => Now.ra = SeqIsa!hi1 /\ Now.rb = SeqIsa!lo1
         /\ Now.icode \in {3, 4, 5, 7, 8, 12} => Now.valc = SeqIsa!cval
         /\ Now.icode \in {2, 4, 5, 10, 11} => reg_valid(Now.ra)
         /\ Now.icode \in {2, 3, 12} => reg_valid(Now.rb)
<1>1. /\ sstat = "AOK" /\ SeqIsa!hi0 = Now.icode /\ SeqIsa!lo0 = Now.ifun
      /\ Now.icode \in 1 .. 12 /\ ~Now.imem_error
  BY FirstByte DEF Legal
<1>2. /\ Now.valp = SeqIsa!ftpc
      /\ Now.icode \in {2, 3, 4, 5, 6, 10, 11, 12} => Now.ra = SeqIsa!hi1 /\ Now.rb = SeqIsa!lo1
      /\ Now.icode \in {3, 4, 5, 7, 8, 12} => Now.valc = SeqIsa!cval
  BY WholeInstruction DEF Legal
<1>3. ~SeqIsa!BadReg
  BY DEF Legal
<1>4. Now.icode \in {2, 4, 5, 10, 11} => reg_valid(Now.ra)
  BY <1>1, <1>2, <1>3, SharedCodes, SharedRegisters DEF SeqIsa!BadReg
<1>5. Now.icode \in {2, 3, 12} => reg_valid(Now.rb)
  BY <1>1, <1>2, <1>3, SharedCodes, SharedRegisters DEF SeqIsa!BadReg
<1> QED  BY <1>1, <1>2, <1>4, <1>5

LEMMA LegalTypes ==
  ASSUME Legal
  PROVE  /\ NowA \in Word /\ NowB \in Word /\ Now.valc \in Word /\ SeqRegs \in Regs
         /\ NowA \in Int /\ NowB \in Int /\ Now.valc \in Int /\ WordBytes \in Int
         /\ Now.ra \in 0 .. 15 /\ Now.rb \in 0 .. 15 /\ SeqIsa!rsp = SeqRegs[4]
         /\ SeqIsa!rsp \in Int
<1>1. SeqTypes /\ sstat = "AOK"
  BY DEF Legal
<1>2. NowA \in Word /\ NowB \in Word /\ Now.valc \in Word /\ SeqRegs \in Regs
      /\ Now.ra \in 0 .. 15 /\ Now.rb \in 0 .. 15
  BY <1>1, NowTypes, PendingTypes, StateNow, SharedCodesHere
<1>3. SeqIsa!rsp = SeqRegs[4]
  BY SharedCodes DEF SeqIsa!rsp
<1>4. SeqRegs[4] \in Word
  BY <1>2 DEF Regs, REG_NONE
<1> QED  BY <1>2, <1>3, <1>4, Words DEF Word

(* What is read from the registers, and what the ALU makes of it.          *)
LEMMA Operands ==
  ASSUME Legal
  PROVE  /\ Now.icode \in {2, 4, 6, 10} => NowA = get_reg_val(SeqRegs, SeqIsa!hi1)
         /\ Now.icode \in {2, 4, 10} => NowA = SeqRegs[SeqIsa!hi1]
         /\ Now.icode \in {9, 11} => NowA = SeqIsa!rsp
         /\ Now.icode \in {4, 5, 6, 12} => NowB = get_reg_val(SeqRegs, SeqIsa!lo1)
         /\ Now.icode = 12 => NowB = SeqRegs[SeqIsa!lo1]
         /\ Now.icode \in {8, 9, 10, 11} => NowB = SeqIsa!rsp
<1>1. SeqRegs = PendingRegs
  BY StateNow DEF Legal
<1>2. get_reg_val(SeqRegs, 4) = SeqIsa!rsp
  BY LegalTypes, SharedCodesHere DEF get_reg_val, reg_valid
<1>3. /\ Now.icode \in {2, 4, 6, 10} => NowA = get_reg_val(SeqRegs, SeqIsa!hi1)
      /\ Now.icode \in {9, 11} => NowA = SeqIsa!rsp
  BY <1>1, <1>2, LegalFetch, SharedCodesHere DEF NowA, seq_srcA
<1>4. /\ Now.icode \in {4, 5, 6, 12} => NowB = get_reg_val(SeqRegs, SeqIsa!lo1)
      /\ Now.icode \in {8, 9, 10, 11} => NowB = SeqIsa!rsp
  BY <1>1, <1>2, LegalFetch, SharedCodesHere DEF NowB, seq_srcB
<1>5. Now.icode \in {2, 4, 10} => NowA = SeqRegs[SeqIsa!hi1]
  BY <1>3, LegalFetch DEF get_reg_val
<1>6. Now.icode = 12 => NowB = SeqRegs[SeqIsa!lo1]
  BY <1>4, LegalFetch DEF get_reg_val
<1> QED  BY <1>3, <1>4, <1>5, <1>6

LEMMA SumIsWrapped == ASSUME NEW a, NEW b PROVE compute_alu(A_ADD, a, b) = Wrap(a + b)
  BY DEF compute_alu, A_ADD, A_SUB, A_AND, A_XOR

LEMMA Results ==
  ASSUME Legal
  PROVE  /\ Now.icode = 2 => NowE = NowA
         /\ Now.icode = 3 => NowE = SeqIsa!cval
         /\ Now.icode \in {4, 5} => NowE = SeqIsa!base
         /\ Now.icode = 6 => NowE = compute_alu(Now.ifun, NowA, NowB)
         /\ Now.icode \in {8, 10} => NowE = SeqIsa!below
         /\ Now.icode \in {9, 11} => NowE = Wrap(SeqIsa!rsp + WordBytes)
         /\ Now.icode = 12 => NowE = compute_alu(A_ADD, SeqIsa!cval, NowB)
<1> USE SharedCodesHere
<1>1. ASSUME Now.icode = 2 PROVE NowE = NowA
  <2>1. NowE = compute_alu(A_ADD, NowA, 0)
    BY <1>1 DEF NowE, seq_alufun, seq_aluA, seq_aluB
  <2>2. NowA + 0 = NowA
    BY LegalTypes
  <2> QED  BY <2>1, <2>2, SumIsWrapped, LegalTypes, WrapIsWord
<1>2. ASSUME Now.icode = 3 PROVE NowE = SeqIsa!cval
  <2>1. NowE = compute_alu(A_ADD, Now.valc, 0)
    BY <1>2 DEF NowE, seq_alufun, seq_aluA, seq_aluB
  <2>2. Now.valc + 0 = Now.valc
    BY LegalTypes
  <2>3. NowE = Now.valc
    BY <2>1, <2>2, SumIsWrapped, LegalTypes, WrapIsWord
  <2> QED  BY <1>2, <2>3, LegalFetch
<1>3. ASSUME Now.icode \in {4, 5} PROVE NowE = SeqIsa!base
  <2>1. NowE = compute_alu(A_ADD, Now.valc, NowB)
    BY <1>3 DEF NowE, seq_alufun, seq_aluA, seq_aluB
  <2>2. NowE = Wrap(SeqIsa!cval + get_reg_val(SeqRegs, SeqIsa!lo1))
    BY <1>3, <2>1, SumIsWrapped, LegalFetch, Operands
  <2> QED  BY <2>2, SharedNumbers, SharedRegisters DEF SeqIsa!base
<1>4. ASSUME Now.icode = 6 PROVE NowE = compute_alu(Now.ifun, NowA, NowB)
  BY <1>4 DEF NowE, seq_alufun, seq_aluA, seq_aluB
<1>5. ASSUME Now.icode \in {8, 10} PROVE NowE = SeqIsa!below
  <2>1. NowE = compute_alu(A_ADD, Wrap(-WordBytes), NowB)
    BY <1>5 DEF NowE, seq_alufun, seq_aluA, seq_aluB
  <2>2. NowE = Wrap(Wrap(-WordBytes) + SeqIsa!rsp)
    BY <1>5, <2>1, SumIsWrapped, Operands
  <2>3. -WordBytes \in Int /\ SeqIsa!rsp \in Int /\ -WordBytes + SeqIsa!rsp = SeqIsa!rsp - WordBytes
    BY LegalTypes
  <2>4. NowE = Wrap(SeqIsa!rsp - WordBytes)
    BY <2>2, <2>3, WrapSum
  <2> QED  BY <2>4, SharedNumbers DEF SeqIsa!below
<1>6. ASSUME Now.icode \in {9, 11} PROVE NowE = Wrap(SeqIsa!rsp + WordBytes)
  <2>1. NowE = compute_alu(A_ADD, WordBytes, NowB)
    BY <1>6 DEF NowE, seq_alufun, seq_aluA, seq_aluB
  <2>2. NowE = Wrap(WordBytes + SeqIsa!rsp)
    BY <1>6, <2>1, SumIsWrapped, Operands
  <2>3. WordBytes + SeqIsa!rsp = SeqIsa!rsp + WordBytes
    BY LegalTypes
  <2> QED  BY <2>2, <2>3
<1>7. ASSUME Now.icode = 12 PROVE NowE = compute_alu(A_ADD, SeqIsa!cval, NowB)
  <2>1. NowE = compute_alu(A_ADD, Now.valc, NowB)
    BY <1>7 DEF NowE, seq_alufun, seq_aluA, seq_aluB
  <2> QED  BY <1>7, <2>1, LegalFetch
<1> QED  BY <1>1, <1>2, <1>3, <1>4, <1>5, <1>6, <1>7

(* The word of memory the instruction uses. *)
LEMMA DataAddresses ==
  ASSUME Legal
  PROVE  /\ Now.icode \in {4, 5, 8, 9, 10, 11} => NowAddr = SeqIsa!DataAddress
         /\ NowError <=> SeqIsa!BadData
<1> USE SharedCodesHere
<1>1. Now.icode \in {4, 5, 8, 9, 10, 11} => NowAddr = SeqIsa!DataAddress
  BY Results, Operands, LegalFetch, SharedCodes
     DEF NowAddr, seq_mem_addr, SeqIsa!DataAddress, SeqIsa!Stacking
<1>2. seq_mem_read(Now) \/ seq_mem_write(Now) <=> Now.icode \in {4, 5, 8, 9, 10, 11}
  BY DEF seq_mem_read, seq_mem_write
<1> QED  BY <1>1, <1>2, LegalFetch, SharedCodes, SharedMemory DEF NowError, SeqIsa!BadData

LEMMA Status ==
  ASSUME Legal, sim_step
  PROVE  /\ SeqIsa!Refusal = IF SeqIsa!BadData THEN "ADR" ELSE "AOK"
         /\ sstat' = SeqIsa!Refusal
<1>1. SeqIsa!get_byte_ok(SeqPc)
  BY SharedMemory, StateNow DEF Legal
<1>2. SeqIsa!Refusal = IF SeqIsa!BadData THEN "ADR" ELSE "AOK"
  BY <1>1, LegalFetch, SharedCodes DEF SeqIsa!Refusal, Legal
<1>3. sstat' = IF NowError THEN "ADR" ELSE "AOK"
  BY SimStep, LegalFetch, SharedCodesHere DEF seq_Stat, seq_instr_valid
<1> QED  BY <1>2, <1>3, DataAddresses

-----------------------------------------------------------------------------
(* An instruction that is executed. *)
LEMMA Executed ==
  ASSUME Legal, sim_step, ~SeqIsa!BadData
  PROVE  /\ \A icode : icode = Now.icode => SeqIsa!Executes(icode)
         /\ sstat' = sstat
         /\ SeqPc' = seq_new_pc(Now, NowCond, NowM)
         /\ SeqRegs' = set_reg_val(set_reg_val(SeqRegs, seq_dstE(Now, NowCond), NowE),
                                   seq_dstM(Now), NowM)
         /\ SeqMem' = IF seq_mem_write(Now)
                      THEN set_word_val(SeqMem, NowAddr, seq_mem_data(Now, NowA))
                      ELSE SeqMem
         /\ SeqCC' = IF seq_set_cc(Now)
                     THEN compute_cc(seq_alufun(Now), seq_aluA(Now, NowA), seq_aluB(Now, NowB))
                     ELSE SeqCC
         /\ NowCond = cond_holds(SeqCC, SeqIsa!lo0)
         /\ Now.icode \in {5, 9, 11} => NowM = get_word_val(SeqMem, NowAddr)
<1>1. SeqIsa!Refusal = "AOK" /\ sstat' = "AOK" /\ sstat = "AOK"
  BY Status, LegalFetch
<1>2. \A icode : icode = Now.icode => SeqIsa!Executes(icode)
  BY <1>1, LegalFetch DEF SeqIsa!Executes
<1>3. SeqMem = PendingMem /\ SeqCC = spend.cc
  BY <1>1, StateNow
<1>4. NowCond = cond_holds(SeqCC, SeqIsa!lo0)
  BY <1>3, LegalFetch DEF NowCond
<1>5. Now.icode \in {5, 9, 11} => NowM = get_word_val(SeqMem, NowAddr)
  BY <1>3, DataAddresses, SharedCodesHere DEF NowM, seq_mem_read
<1> QED  BY <1>1, <1>2, <1>4, <1>5, StateNext

LEMMA RegisterNames == ~reg_valid(15) /\ reg_valid(4)
  BY SharedCodesHere DEF reg_valid

LEMMA NopStep ==
  ASSUME Legal, sim_step, ~SeqIsa!BadData, Now.icode = 1 PROVE SeqIsa!Nop
  BY Executed, RegisterNames, LegalFetch, SharedCodes, SharedCodesHere
     DEF set_reg_val, SeqIsa!Nop, seq_new_pc, seq_dstE, seq_dstM, seq_mem_write, seq_set_cc

LEMMA RrmovqStep ==
  ASSUME Legal, sim_step, ~SeqIsa!BadData, Now.icode = 2 PROVE SeqIsa!Rrmovq
<1>1. SeqRegs' = set_reg_val(set_reg_val(SeqRegs, IF NowCond THEN SeqIsa!lo1 ELSE 15, NowE),
                             15, NowM)
  BY Executed, LegalFetch, SharedCodesHere DEF seq_dstE, seq_dstM
<1>2. SeqRegs' = IF NowCond THEN [SeqRegs EXCEPT ![SeqIsa!lo1] = NowE] ELSE SeqRegs
  <2>1. reg_valid(SeqIsa!lo1)
    BY LegalFetch
  <2> QED  BY <1>1, <2>1, RegisterNames DEF set_reg_val
<1>3. NowE = SeqRegs[SeqIsa!hi1]
  BY Operands, Results
<1>4. SeqPc' = SeqIsa!ftpc /\ SeqMem' = SeqMem /\ SeqCC' = SeqCC /\ sstat' = sstat
      /\ SeqIsa!Executes(2) /\ (NowCond <=> SeqIsa!cond_holds(SeqCC, SeqIsa!lo0))
  BY Executed, LegalFetch, SharedCodesHere, SharedAlu DEF seq_new_pc, seq_mem_write, seq_set_cc
<1> QED  BY <1>2, <1>3, <1>4, SharedCodes DEF SeqIsa!Rrmovq

LEMMA IrmovqStep ==
  ASSUME Legal, sim_step, ~SeqIsa!BadData, Now.icode = 3 PROVE SeqIsa!Irmovq
<1>1. SeqRegs' = set_reg_val(set_reg_val(SeqRegs, SeqIsa!lo1, NowE), 15, NowM)
  BY Executed, LegalFetch, SharedCodesHere DEF seq_dstE, seq_dstM
<1>2. SeqRegs' = [SeqRegs EXCEPT ![SeqIsa!lo1] = SeqIsa!cval]
  <2>1. reg_valid(SeqIsa!lo1) /\ NowE = SeqIsa!cval
    BY LegalFetch, Results
  <2> QED  BY <1>1, <2>1, RegisterNames DEF set_reg_val
<1>3. SeqPc' = SeqIsa!ftpc /\ SeqMem' = SeqMem /\ SeqCC' = SeqCC /\ sstat' = sstat
      /\ SeqIsa!Executes(3)
  BY Executed, LegalFetch, SharedCodesHere DEF seq_new_pc, seq_mem_write, seq_set_cc
<1> QED  BY <1>2, <1>3, SharedCodes DEF SeqIsa!Irmovq

LEMMA RmmovqStep ==
  ASSUME Legal, sim_step, ~SeqIsa!BadData, Now.icode = 4 PROVE SeqIsa!Rmmovq
  BY Executed, RegisterNames, LegalFetch, Operands, Results, SharedCodes, SharedCodesHere,
     SharedMemory
     DEF set_reg_val, SeqIsa!Rmmovq, seq_new_pc, seq_dstE, seq_dstM, seq_mem_write, seq_set_cc,
         NowAddr, seq_mem_addr, seq_mem_data

LEMMA MrmovqStep ==
  ASSUME Legal, sim_step, ~SeqIsa!BadData, Now.icode = 5 PROVE SeqIsa!Mrmovq
<1>1. SeqRegs' = set_reg_val(set_reg_val(SeqRegs, 15, NowE), SeqIsa!hi1, NowM)
  BY Executed, LegalFetch, SharedCodesHere DEF seq_dstE, seq_dstM
<1>2. SeqRegs' = [SeqRegs EXCEPT ![SeqIsa!hi1] = NowM]
  <2>1. reg_valid(SeqIsa!hi1)
    BY LegalFetch
  <2> QED  BY <1>1, <2>1, RegisterNames DEF set_reg_val
<1>3. NowM = SeqIsa!get_word_val(SeqMem, SeqIsa!base)
  BY Executed, Results, SharedCodesHere, SharedMemory DEF NowAddr, seq_mem_addr
<1>4. SeqPc' = SeqIsa!ftpc /\ SeqMem' = SeqMem /\ SeqCC' = SeqCC /\ sstat' = sstat
      /\ SeqIsa!Executes(5)
  BY Executed, LegalFetch, SharedCodesHere DEF seq_new_pc, seq_mem_write, seq_set_cc
<1> QED  BY <1>2, <1>3, <1>4, SharedCodes DEF SeqIsa!Mrmovq

LEMMA AluStep ==
  ASSUME Legal, sim_step, ~SeqIsa!BadData, Now.icode = 6 PROVE SeqIsa!Alu
<1>1. /\ NowA = SeqIsa!get_reg_val(SeqRegs, SeqIsa!hi1)
      /\ NowB = SeqIsa!get_reg_val(SeqRegs, SeqIsa!lo1)
  BY Operands, SharedRegisters
<1>2. SeqCC' = compute_cc(SeqIsa!lo0, NowA, NowB)
  BY Executed, LegalFetch, SharedCodesHere DEF seq_set_cc, seq_alufun, seq_aluA, seq_aluB
<1>3. SeqRegs' = set_reg_val(SeqRegs, SeqIsa!lo1, compute_alu(SeqIsa!lo0, NowA, NowB))
  BY Executed, RegisterNames, LegalFetch, Results, SharedCodesHere
     DEF set_reg_val, seq_dstE, seq_dstM
<1>4. SeqPc' = SeqIsa!ftpc /\ SeqMem' = SeqMem /\ sstat' = sstat /\ SeqIsa!Executes(6)
  BY Executed, LegalFetch, SharedCodesHere DEF seq_new_pc, seq_mem_write
<1> QED  BY <1>1, <1>2, <1>3, <1>4, SharedCodes, SharedRegisters, SharedAlu DEF SeqIsa!Alu

LEMMA JmpStep ==
  ASSUME Legal, sim_step, ~SeqIsa!BadData, Now.icode = 7 PROVE SeqIsa!Jmp
  BY Executed, RegisterNames, LegalFetch, SharedCodes, SharedCodesHere, SharedAlu
     DEF set_reg_val, SeqIsa!Jmp, seq_new_pc, seq_dstE, seq_dstM, seq_mem_write, seq_set_cc

LEMMA CallStep ==
  ASSUME Legal, sim_step, ~SeqIsa!BadData, Now.icode = 8 PROVE SeqIsa!Call
  BY Executed, RegisterNames, LegalFetch, Results, SharedCodes, SharedCodesHere, SharedMemory
     DEF set_reg_val, SeqIsa!Call, seq_new_pc, seq_dstE, seq_dstM, seq_mem_write, seq_set_cc,
         NowAddr, seq_mem_addr, seq_mem_data

LEMMA RetStep ==
  ASSUME Legal, sim_step, ~SeqIsa!BadData, Now.icode = 9 PROVE SeqIsa!Ret
  BY Executed, RegisterNames, LegalFetch, Operands, Results, SharedCodes, SharedCodesHere,
     SharedMemory, SharedNumbers
     DEF set_reg_val, SeqIsa!Ret, seq_new_pc, seq_dstE, seq_dstM, seq_mem_write, seq_set_cc,
         NowAddr, seq_mem_addr

LEMMA PushqStep ==
  ASSUME Legal, sim_step, ~SeqIsa!BadData, Now.icode = 10 PROVE SeqIsa!Pushq
  BY Executed, RegisterNames, LegalFetch, Operands, Results, SharedCodes, SharedCodesHere,
     SharedMemory
     DEF set_reg_val, SeqIsa!Pushq, seq_new_pc, seq_dstE, seq_dstM, seq_mem_write, seq_set_cc,
         NowAddr, seq_mem_addr, seq_mem_data

LEMMA PopqStep ==
  ASSUME Legal, sim_step, ~SeqIsa!BadData, Now.icode = 11 PROVE SeqIsa!Popq
<1>1. NowE = Wrap(SeqIsa!rsp + WordBytes) /\ NowM = get_word_val(SeqMem, SeqIsa!rsp)
  BY Executed, Operands, Results, SharedCodesHere DEF NowAddr, seq_mem_addr
<1>2. SeqRegs' = set_reg_val(set_reg_val(SeqRegs, 4, NowE), SeqIsa!hi1, NowM)
  BY Executed, LegalFetch, SharedCodesHere DEF seq_dstE, seq_dstM
<1>3. SeqRegs' = [SeqRegs EXCEPT ![4] = NowE, ![SeqIsa!hi1] = NowM]
  <2> DEFINE r == set_reg_val(SeqRegs, 4, NowE)
  <2> HIDE DEF r
  <2>1. reg_valid(SeqIsa!hi1)
    BY LegalFetch
  <2>2. SeqRegs' = [r EXCEPT ![SeqIsa!hi1] = NowM]
    BY <1>2, <2>1 DEF set_reg_val, r
  <2>3. r = [SeqRegs EXCEPT ![4] = NowE]
    BY RegisterNames DEF set_reg_val, r
  <2> QED  BY <2>2, <2>3
<1>4. SeqPc' = SeqIsa!ftpc /\ SeqMem' = SeqMem /\ SeqCC' = SeqCC /\ sstat' = sstat
      /\ SeqIsa!Executes(11)
  BY Executed, LegalFetch, SharedCodesHere DEF seq_new_pc, seq_mem_write, seq_set_cc
<1> QED  BY <1>1, <1>3, <1>4, SharedCodes, SharedMemory, SharedNumbers DEF SeqIsa!Popq

LEMMA IaddqStep ==
  ASSUME Legal, sim_step, ~SeqIsa!BadData, Now.icode = 12 PROVE SeqIsa!Iaddq
<1>1. NowE = compute_alu(A_ADD, SeqIsa!cval, NowB) /\ NowB = SeqRegs[SeqIsa!lo1]
  BY Results, Operands
<1>2. SeqRegs' = [SeqRegs EXCEPT ![SeqIsa!lo1] = NowE]
  <2>1. SeqRegs' = set_reg_val(set_reg_val(SeqRegs, SeqIsa!lo1, NowE), 15, NowM)
    BY Executed, LegalFetch, SharedCodesHere DEF seq_dstE, seq_dstM
  <2>2. reg_valid(SeqIsa!lo1)
    BY LegalFetch
  <2> QED  BY <2>1, <2>2, RegisterNames DEF set_reg_val
<1>3. SeqCC' = compute_cc(A_ADD, SeqIsa!cval, NowB)
  BY Executed, LegalFetch, SharedCodesHere DEF seq_set_cc, seq_alufun, seq_aluA, seq_aluB
<1>4. SeqPc' = SeqIsa!ftpc /\ SeqMem' = SeqMem /\ sstat' = sstat /\ SeqIsa!Executes(12)
  BY Executed, LegalFetch, SharedCodesHere DEF seq_new_pc, seq_mem_write
<1> QED  BY <1>1, <1>2, <1>3, <1>4, SharedCodes, SharedCodesHere, SharedAlu DEF SeqIsa!Iaddq

(* One that its use of memory stops. *)
LEMMA DataFault ==
  ASSUME Legal, sim_step, SeqIsa!BadData
  PROVE  IsaStep /\ sstat' = "ADR" /\ UNCHANGED <<SeqPc, SeqRegs, SeqMem, SeqCC>>
<1>1. SeqIsa!Refusal = "ADR" /\ sstat' = "ADR" /\ sstat = "AOK"
  BY Status, LegalFetch
<1>2. UNCHANGED <<SeqPc, SeqRegs, SeqMem, SeqCC>>
  BY <1>1, StateNext
<1>3. IsaStep
  <2>1. CASE SeqIsa!StackFault
    BY <1>1, <1>2, <2>1 DEF IsaStep
  <2>2. CASE ~SeqIsa!StackFault
    <3>1. SeqIsa!Stop
      BY <1>1, <1>2, <2>2 DEF SeqIsa!Stop
    <3> QED  BY <3>1 DEF IsaStep, SeqIsa!step_state
  <2> QED  BY <2>1, <2>2
<1> QED  BY <1>1, <1>2, <1>3

(* One that is refused at its first byte. *)
LEMMA FetchFault ==
  ASSUME SeqTypes, sim_step, ~(get_byte_ok(spend.pc) /\ Now.icode \in 1 .. 12)
  PROVE  /\ IsaStep
         /\ sstat' = IF ~get_byte_ok(SeqPc) THEN "ADR"
                     ELSE IF SeqIsa!hi0 = 0 THEN "HLT" ELSE "INS"
         /\ UNCHANGED <<SeqPc, SeqRegs, SeqMem, SeqCC>>
<1> USE SharedCodes, SharedCodesHere, SharedMemory
<1>0. sstat = "AOK" /\ SeqPc = spend.pc
  BY SimStep, StateNow
<1>1. sstat' = SeqIsa!Refusal /\ sstat' # "AOK" /\ ~SeqIsa!StackFault
  <2>1. CASE ~get_byte_ok(spend.pc)
    <3>1. Now.imem_error
      BY <2>1 DEF Now, Fetched
    <3> QED  BY <1>0, <2>1, <3>1, SimStep DEF seq_Stat, SeqIsa!Refusal, SeqIsa!StackFault
  <2>2. CASE get_byte_ok(spend.pc) /\ Now.icode \notin 1 .. 12
    <3>1. Now.icode = SeqIsa!hi0 /\ ~Now.imem_error /\ Now.icode \in 0 .. 15
      BY <1>0, <2>2, FirstByte
    <3>2. ~NowError
      BY <2>2 DEF NowError, seq_mem_read, seq_mem_write
    <3>3. sstat' = IF Now.icode > 12 THEN "INS" ELSE "HLT"
      BY <2>2, <3>1, <3>2, SimStep DEF seq_Stat, seq_instr_valid
    <3>4. SeqIsa!Refusal = IF SeqIsa!hi0 = 0 THEN "HLT" ELSE "INS"
      BY <1>0, <2>2, <3>1 DEF SeqIsa!Refusal
    <3>5. ~SeqIsa!StackFault
      BY <2>2, <3>1 DEF SeqIsa!StackFault, SeqIsa!Stacking
    <3> QED  BY <2>2, <3>1, <3>3, <3>4, <3>5
  <2> QED  BY <2>1, <2>2
<1>2. UNCHANGED <<SeqPc, SeqRegs, SeqMem, SeqCC>>
  BY <1>1, StateNext
<1>3. SeqIsa!Stop
  BY <1>0, <1>1, <1>2 DEF SeqIsa!Stop
<1>4. SeqIsa!Refusal = IF ~get_byte_ok(SeqPc) THEN "ADR"
                       ELSE IF SeqIsa!hi0 = 0 THEN "HLT" ELSE "INS"
  <2>1. get_byte_ok(spend.pc) => SeqIsa!hi0 = Now.icode /\ Now.icode \in 0 .. 15
    BY <1>0, FirstByte
  <2> QED  BY <1>0, <2>1 DEF SeqIsa!Refusal
<1> QED  BY <1>1, <1>2, <1>3, <1>4 DEF IsaStep, SeqIsa!step_state

(* Every step of the sequential processor is one of the instruction set's. *)
LEMMA ProperIsLegal ==
  ASSUME SeqTypes, ProperCode, sim_step, get_byte_ok(spend.pc), Now.icode \in 1 .. 12
  PROVE  Legal
<1>1. sstat = "AOK" /\ SeqPc = spend.pc
  BY SimStep, StateNow
<1>2. SeqIsa!get_byte_ok(SeqPc) /\ SeqIsa!hi0 \in I_NOP .. I_IADDQ
  BY <1>1, FirstByte, SharedMemory, SharedCodesHere
<1> QED  BY <1>1, <1>2 DEF Legal, ProperCode

LEMMA SeqSimulates ==
  ASSUME SeqTypes, ProperCode, sim_step
  PROVE  IsaStep
<1>1. CASE get_byte_ok(spend.pc) /\ Now.icode \in 1 .. 12
  <2>1. Legal
    BY <1>1, ProperIsLegal
  <2>2. CASE SeqIsa!BadData
    BY <2>1, <2>2, DataFault
  <2>3. CASE ~SeqIsa!BadData
    <3>1. Now.icode \in {1, 2, 3, 4, 5, 6, 7, 8, 9, 10, 11, 12}
      BY <1>1
    <3>2. SeqIsa!step_state
      BY <2>1, <2>3, <3>1, NopStep, RrmovqStep, IrmovqStep, RmmovqStep, MrmovqStep, AluStep,
         JmpStep, CallStep, RetStep, PushqStep, PopqStep, IaddqStep DEF SeqIsa!step_state
    <3> QED  BY <3>2 DEF IsaStep
  <2> QED  BY <2>2, <2>3
<1>2. CASE ~(get_byte_ok(spend.pc) /\ Now.icode \in 1 .. 12)
  BY <1>2, FetchFault
<1> QED  BY <1>1, <1>2

(* What the assemblers write to the image are bytes, and the registers, the*)
(* memory and the pending writes of the sequential processor are words and *)
(* bytes, for every program of well-formed statements.                     *)
THEOREM TypesHold == Spec => []Types
  BY AsmInitTypes, InitSeqTypes, NextTypes, PTL DEF Types, Spec

(* The sequential processor, which hcl2c makes from seq-full.hcl, implements *)
(* the instruction set of isa.c: each of its steps is a step_state, but for *)
(* the stack pointer when a stack access fails, as long as every instruction*)
(* the program reaches is complete and names registers that exist.  Of those*)
(* that are not it drops the status (seq_Stat sees imem_error only), so they*)
(* do differ.                                                              *)
THEOREM SeqRefinesIsa ==
  Spec /\ [](loaded => ProperCode) => SeqImplementsIsa
<1> DEFINE view == <<SeqPc, SeqRegs, SeqMem, SeqCC, sstat>>
<1>1. Spec => []Types
  BY TypesHold
<1>2. ASSUME Types, loaded => ProperCode, [Next]_vars
      PROVE  [loaded => IsaStep]_view
  <2>1. ASSUME UNCHANGED svars PROVE UNCHANGED view
    BY <2>1 DEF svars, SeqPc, SeqRegs, SeqMem, SeqCC, SeqDone, PendingRegs, PendingMem
  <2>2. CASE Read \/ Assemble
    BY <2>1, <2>2 DEF Read, Assemble, machines
  <2>3. CASE Load
    BY <2>3 DEF Load
  <2>4. CASE Run
    <3>1. loaded /\ (sim_step \/ UNCHANGED svars)
      BY <2>4 DEF Run
    <3>2. SeqTypes
      BY <1>2 DEF Types
    <3> HIDE DEF view
    <3> QED  BY <1>2, <2>1, <3>1, <3>2, SeqSimulates
  <2>5. CASE UNCHANGED vars
    BY <2>1, <2>5 DEF vars
  <2> QED  BY <1>2, <2>2, <2>3, <2>4, <2>5 DEF Next
<1> QED  BY <1>1, <1>2, PTL DEF Spec, SeqImplementsIsa

-----------------------------------------------------------------------------
(* The student's simulator beside the sequential processor.                *)

(* Both are about to execute the same instruction in the same state.       *)
Together ==
    /\ ystat = "AOK" /\ sstat = "AOK" /\ ypc = SeqPc /\ ym = SeqMem /\ ycc = SeqCC
    /\ yr = SeqRegs

LEMMA YFirstByte ==
  ASSUME Together
  PROVE  y_icode = SeqIsa!hi0 /\ y_ifun = SeqIsa!lo0
  BY SharedNumbers DEF Together, y_icode, y_ifun, SeqIsa!hi0, SeqIsa!lo0

LEMMA YFetch ==
  ASSUME Together, SeqIsa!hi0 # 12
  PROVE  /\ Fetches <=> get_byte_ok(SeqPc) /\ SeqIsa!ok1 /\ SeqIsa!okc
         /\ next_pc = SeqIsa!ftpc /\ imm = SeqIsa!cval
         /\ regAid = SeqIsa!hi1 /\ regBid = SeqIsa!lo1
         /\ valA = get_reg_val(SeqRegs, SeqIsa!hi1) /\ valB = get_reg_val(SeqRegs, SeqIsa!lo1)
         /\ top = SeqIsa!rsp /\ pushed = SeqIsa!below /\ popped = Wrap(SeqIsa!rsp + WordBytes)
<1> USE DEF Together
<1>1. (y_regs <=> SeqIsa!need_regids) /\ (y_has_imm <=> SeqIsa!need_imm)
  BY YFirstByte, SharedCodes, SharedCodesHere
     DEF y_regs, y_has_imm, SeqIsa!need_regids, SeqIsa!need_imm
<1>2. y_immpc = SeqIsa!immpc
  BY <1>1, SharedNumbers DEF y_immpc, SeqIsa!immpc
<1>3. next_pc = SeqIsa!ftpc
  BY <1>1, <1>2, SharedNumbers DEF next_pc, SeqIsa!ftpc
<1>4. Fetches <=> get_byte_ok(SeqPc) /\ SeqIsa!ok1 /\ SeqIsa!okc
  BY <1>1, <1>2, SharedNumbers, SharedMemory DEF Fetches, SeqIsa!ok1, SeqIsa!okc
<1>5. imm = SeqIsa!cval
  BY <1>2, SharedMemory DEF imm, SeqIsa!cval
<1>6. regAid = SeqIsa!hi1 /\ regBid = SeqIsa!lo1
  BY SharedNumbers DEF regAid, regBid, SeqIsa!hi1, SeqIsa!lo1
<1>7. valA = get_reg_val(SeqRegs, SeqIsa!hi1) /\ valB = get_reg_val(SeqRegs, SeqIsa!lo1)
  BY <1>6 DEF valA, valB
<1>8. top = SeqIsa!rsp
  BY SharedCodes, SharedCodesHere DEF top, SeqIsa!rsp
<1>9. pushed = SeqIsa!below /\ popped = Wrap(SeqIsa!rsp + WordBytes)
  BY <1>8, SharedNumbers DEF pushed, popped, SeqIsa!below
<1> QED  BY <1>3, <1>4, <1>5, <1>6, <1>7, <1>8, <1>9

(* The conditions, as long as nothing overflows. *)
LEMMA SameCondition ==
  ASSUME NEW c, c.of = FALSE, c.sf \in BOOLEAN, NEW bcond
  PROVE  cond_doit(c, bcond) <=> cond_holds(c, bcond)
  BY DEF cond_doit, cond_holds, C_YES, C_LE, C_L, C_E, C_NE, C_GE, C_G

(* The lower half of a word. *)
LEMMA Halves ==
  /\ HalfModulus \in Nat \ {0} /\ Modulus = HalfModulus * HalfModulus
  /\ \E h \in Nat : HalfModulus = 2 * h
<1>0. WordBytes \in Nat \ {0}
  BY Words
<1> DEFINE n == 4 * WordBytes
<1>1. n \in Nat \ {0} /\ 8 * WordBytes = n + n
  BY <1>0
<1>2. Modulus = 2 ^ (n + n)
  BY <1>1, EightBits
<1>3. /\ \A k \in 0 .. n + n : 2 ^ k \in Nat \ {0}
      /\ \A k \in 0 .. n + n : 2 ^ (k + 1) = 2 * 2 ^ k
      /\ 2 ^ 0 = 1
  BY <1>1, Powers2, PowerAssumption DEF PowerAssumption
<1>4. HalfModulus = 2 ^ n
  BY DEF HalfModulus
<1> HIDE DEF n
<1> DEFINE half == 2 ^ n
<1>5. half \in Nat \ {0}
  BY <1>1, <1>3
<1> HIDE DEF half
<1> DEFINE S == {k \in 0 .. n : 2 ^ (n + k) = half * 2 ^ k}
<1>6. 0 \in S
  <2>1. half * 1 = half /\ n + 0 = n
    BY <1>1, <1>5
  <2> QED  BY <1>1, <1>3, <2>1 DEF half
<1>7. ASSUME NEW k \in 0 .. n, k < n, k \in S PROVE k + 1 \in S
  <2>1. k \in 0 .. n + n /\ n + k \in 0 .. n + n /\ n + (k + 1) = (n + k) + 1 /\ k + 1 \in 0 .. n
    BY <1>1, <1>7
  <2> DEFINE p == 2 ^ k
             q == 2 ^ (n + k)
  <2>2. p \in Nat /\ 2 ^ (k + 1) = 2 * p /\ 2 ^ (n + (k + 1)) = 2 * q /\ q = half * p
    BY <1>3, <1>7, <2>1
  <2> HIDE DEF p, q
  <2>3. 2 * (half * p) = half * (2 * p)
    BY <1>5, <2>2
  <2>4. 2 ^ (n + (k + 1)) = half * 2 ^ (k + 1)
    BY <2>2, <2>3
  <2> QED  BY <2>1, <2>4
<1>8. \A k \in 0 .. n : k \in S
  <2> HIDE DEF S
  <2> QED  BY <1>1, <1>6, <1>7, Induction
<1>9. 2 ^ (n + n) = half * half
  <2>1. n \in S
    BY <1>1, <1>8
  <2> QED  BY <2>1 DEF half
<1>10. \E h \in Nat : half = 2 * h
  <2>1. n - 1 \in 0 .. n + n /\ (n - 1) + 1 = n
    BY <1>1
  <2>2. 2 ^ n = 2 * 2 ^ (n - 1) /\ 2 ^ (n - 1) \in Nat
    BY <1>3, <2>1
  <2> QED  BY <2>2 DEF half
<1> QED  BY <1>2, <1>4, <1>5, <1>9, <1>10 DEF half

(* A word that the lower half represents has the sign of its lower half.   *)
LEMMA SameSign ==
  ASSUME NEW w \in Word, 2 * Signed(w) < HalfModulus, 2 * Signed(w) >= -HalfModulus
  PROVE  2 * (w % HalfModulus) >= HalfModulus <=> Signed(w) < 0
<1> DEFINE H == HalfModulus
           N == Modulus
<1>1. H \in Nat \ {0} /\ N = H * H /\ N \in Nat /\ w \in 0 .. N - 1
  BY Halves, Words DEF Word
<1>2. Signed(w) = IF 2 * w >= N THEN w - N ELSE w
  BY DEF Signed
<1>3. 2 * Signed(w) < H /\ 2 * Signed(w) >= -H
  OBVIOUS
<1>4. PICK h \in Nat : H = 2 * h
  BY Halves
<1> HIDE DEF H, N
<1>5. h \in Nat \ {0}
  BY <1>1, <1>4
<1>6. CASE 2 * w < N
  <2>1. w < h /\ w \in 0 .. H - 1 /\ w = H * 0 + w
    BY <1>1, <1>2, <1>3, <1>4, <1>6
  <2>2. w % H = w
    BY <1>1, <2>1, RemainderUnique
  <2> QED  BY <1>1, <1>2, <1>4, <1>6, <2>1, <2>2 DEF H
<1>7. CASE 2 * w >= N
  <2> DEFINE r == w - N + H
  <2>1. r \in 0 .. H - 1 /\ r >= h /\ w - N < 0
    BY <1>1, <1>2, <1>3, <1>4, <1>7
  <2>2. H * (H - 1) = H * H - H
    BY <1>1
  <2>3. w = H * (H - 1) + r
    BY <1>1, <2>2
  <2> HIDE DEF r
  <2>4. w % H = r
    <3>1. H - 1 \in Int
      BY <1>1
    <3> QED  BY <1>1, <2>1, <2>3, <3>1, RemainderUnique
  <2>5. 2 * (w % H) >= H
    BY <1>4, <1>5, <2>1, <2>4
  <2> QED  BY <1>1, <1>2, <1>7, <2>1, <2>5 DEF H
<1> QED  BY <1>1, <1>6, <1>7

LEMMA SameFlags ==
  ASSUME NEW fun, NEW a \in Word, NEW b \in Word,
         LET val == Signed(compute_alu(fun, a, b)) IN
             ~(compute_cc(fun, a, b).of \/ 2 * val >= HalfModulus \/ 2 * val < -HalfModulus)
  PROVE  /\ y_compute_cc(fun, a, b, compute_alu(fun, a, b)) = compute_cc(fun, a, b)
         /\ compute_cc(fun, a, b).of = FALSE
         /\ compute_cc(fun, a, b).sf \in BOOLEAN
<1> DEFINE val == compute_alu(fun, a, b)
           c == compute_cc(fun, a, b)
           y == y_compute_cc(fun, a, b, val)
<1>1. val \in Word
  BY AluIsWord
<1>2. Signed(val) \in Int /\ HalfModulus \in Int /\ Signed(a) \in Int /\ Signed(b) \in Int
  BY <1>1, Halves, Words DEF Signed, Word
<1>3. 2 * Signed(val) < HalfModulus /\ 2 * Signed(val) >= -HalfModulus
  BY <1>2
<1>4. 2 * (val % HalfModulus) >= HalfModulus <=> Signed(val) < 0
  BY <1>1, <1>3, SameSign
<1> HIDE DEF val
<1>5. c = [zf |-> val = 0, sf |-> Signed(val) < 0, of |-> c.of]
  BY DEF compute_cc, val
<1>6. c.of = FALSE
  <2>1. c.of \in BOOLEAN
    BY DEF compute_cc
  <2> HIDE DEF c
  <2> QED  BY <2>1 DEF c
<1>7. y = [zf |-> val = 0, sf |-> 2 * (val % HalfModulus) >= HalfModulus, of |-> y.of]
  BY DEF y_compute_cc
<1>8. y.of = FALSE
  BY <1>2, <1>6 DEF y_compute_cc, compute_cc, val, A_ADD, A_SUB
<1> QED
  <2>1. y = c
    <3>1. (2 * (val % HalfModulus) >= HalfModulus) = (Signed(val) < 0)
      BY <1>4
    <3> HIDE DEF y, c
    <3>2. c = [zf |-> val = 0, sf |-> Signed(val) < 0, of |-> FALSE]
      BY <1>5, <1>6, Zenon
    <3>3. y = [zf |-> val = 0, sf |-> 2 * (val % HalfModulus) >= HalfModulus, of |-> FALSE]
      BY <1>7, <1>8, Zenon
    <3> QED  BY <3>1, <3>2, <3>3, Zenon
  <2>2. c.sf \in BOOLEAN
    BY DEF compute_cc
  <2> QED  BY <1>6, <2>1, <2>2 DEF val

(* What an instruction leaves behind in both. *)
Apart == ystat' = "ADR" /\ sstat' = "ADR" /\ ypc' = SeqPc' /\ ym' = SeqMem' /\ ycc' = SeqCC'
Alike == ystat' = sstat' /\ ypc' = SeqPc' /\ ym' = SeqMem' /\ ycc' = SeqCC' /\ yr' = SeqRegs'

Flags(c) == c.of = FALSE /\ c.sf \in BOOLEAN

(* The one action an instruction enables. *)
LEMMA YAction ==
  ASSUME nexti, Fetches
  PROVE  /\ y_icode = 0 => YStop /\ ystat' = "HLT"
         /\ y_icode = 1 => YNop
         /\ y_icode = 2 => YRrmovq
         /\ y_icode = 3 => YIrmovq
         /\ y_icode = 4 => YRmmovq \/ (YStop /\ ystat' = "ADR" /\ ~get_word_ok(Wrap(imm + valB)))
         /\ y_icode = 5 => YMrmovq \/ (YStop /\ ystat' = "ADR" /\ ~get_word_ok(Wrap(imm + valB)))
         /\ y_icode = 6 => YAlu
         /\ y_icode = 7 => YJmp
         /\ y_icode = 8 => YCall
         /\ y_icode = 9 => YRet
         /\ y_icode = 10 => YPushq
         /\ y_icode = 11 => YPopq
         /\ y_icode \in 13 .. 15 => YStop /\ ystat' = "INS"
  BY SharedCodesHere
     DEF nexti, YNop, YRrmovq, YIrmovq, YRmmovq, YMrmovq, YAlu, YJmp, YCall, YRet, YPushq,
         YPopq, YStop, Does

(* What is refused. *)
LEMMA YFetchFault ==
  ASSUME Together, SeqTypes, sim_step, nexti,
         ~(get_byte_ok(spend.pc) /\ Now.icode \in 1 .. 12)
  PROVE  Alike
<1>1. SeqPc = spend.pc
  BY StateNow DEF Together
<1>2. CASE ~get_byte_ok(SeqPc)
  <2>1. ~Fetches
    BY <1>2 DEF Fetches, Together
  <2>2. ystat' = "ADR" /\ UNCHANGED <<ypc, yr, ym, ycc>>
    BY <2>1 DEF nexti, YNop, YRrmovq, YIrmovq, YRmmovq, YMrmovq, YAlu, YJmp, YCall, YRet,
       YPushq, YPopq, YStop, Does
  <2> QED  BY <1>2, <2>2, FetchFault DEF Together, Alike
<1>3. CASE get_byte_ok(SeqPc)
  <2>1. Now.icode = SeqIsa!hi0 /\ SeqIsa!hi0 \in 0 .. 15
    BY <1>1, <1>3, FirstByte DEF Together
  <2>2. SeqIsa!hi0 = 0 \/ SeqIsa!hi0 \in 13 .. 15
    BY <1>1, <1>3, <2>1
  <2>3. Fetches
    <3>1. SeqIsa!ok1 /\ SeqIsa!okc
      BY <2>2, SharedCodes DEF SeqIsa!ok1, SeqIsa!okc, SeqIsa!need_regids, SeqIsa!need_imm
    <3> QED  BY <1>3, <2>2, <3>1, YFetch
  <2>4. YStop /\ ystat' = IF SeqIsa!hi0 = 0 THEN "HLT" ELSE "INS"
    BY <2>2, <2>3, YAction, YFirstByte
  <2>5. sstat' = IF SeqIsa!hi0 = 0 THEN "HLT" ELSE "INS"
    BY <1>3, FetchFault
  <2>6. UNCHANGED <<SeqPc, SeqRegs, SeqMem, SeqCC>>
    BY FetchFault
  <2> QED  BY <2>4, <2>5, <2>6 DEF Together, Alike, YStop
<1> QED  BY <1>2, <1>3

LEMMA YDataFault ==
  ASSUME Together, Legal, sim_step, nexti, SeqIsa!BadData, Now.icode # 12
  PROVE  Apart
<1>1. Now.icode = SeqIsa!hi0 /\ Now.icode \in {1, 2, 3, 4, 5, 6, 7, 8, 9, 10, 11}
  BY LegalFetch
<1>2. Fetches
  BY <1>1, YFetch, StateNow DEF Legal
<1>3. ~get_word_ok(SeqIsa!DataAddress) /\ Now.icode \in {4, 5, 8, 9, 10, 11}
  BY <1>1, SharedCodes, SharedMemory DEF SeqIsa!BadData
<1>4. SeqIsa!base = Wrap(imm + valB)
  BY <1>1, YFetch, SharedNumbers, SharedRegisters DEF SeqIsa!base
<1>5. ystat' = "ADR" /\ UNCHANGED <<ypc, ym, ycc>>
  <2>1. CASE Now.icode \in {4, 5}
    <3>1. ~get_word_ok(Wrap(imm + valB))
      BY <1>1, <1>3, <1>4, <2>1, SharedCodes DEF SeqIsa!DataAddress
    <3> QED  BY <1>1, <1>2, <2>1, <3>1, YAction, YFirstByte DEF YRmmovq, YMrmovq, YStop
  <2>2. CASE Now.icode \in {8, 10}
    <3>1. ~get_word_ok(pushed)
      BY <1>1, <1>3, <2>2, YFetch, SharedCodes DEF SeqIsa!DataAddress, SeqIsa!Stacking
    <3> QED  BY <1>1, <1>2, <2>2, <3>1, YAction, YFirstByte DEF YCall, YPushq
  <2>3. CASE Now.icode \in {9, 11}
    <3>1. ~get_word_ok(top)
      BY <1>1, <1>3, <2>3, YFetch, SharedCodes DEF SeqIsa!DataAddress, SeqIsa!Stacking
    <3> QED  BY <1>1, <1>2, <2>3, <3>1, YAction, YFirstByte DEF YRet, YPopq
  <2> QED  BY <1>3, <2>1, <2>2, <2>3
<1>6. sstat' = "ADR" /\ UNCHANGED <<SeqPc, SeqMem, SeqCC>>
  BY DataFault
<1> QED  BY <1>5, <1>6 DEF Together, Apart

(* What is executed by both, instruction by instruction. *)
LEMMA YExecuted ==
  ASSUME Together, Legal, sim_step, nexti, ~SeqIsa!BadData, Now.icode # 12
  PROVE  /\ Now.icode = SeqIsa!hi0 /\ y_icode = Now.icode /\ y_ifun = SeqIsa!lo0 /\ Fetches
         /\ Now.icode \in {1, 2, 3, 4, 5, 6, 7, 8, 9, 10, 11}
         /\ sstat' = "AOK" /\ ystat = "AOK"
         /\ Now.icode \in {4, 5} => get_word_ok(Wrap(imm + valB)) /\ SeqIsa!base = Wrap(imm + valB)
         /\ Now.icode \in {8, 10} => get_word_ok(pushed)
         /\ Now.icode \in {9, 11} => get_word_ok(top)
         /\ Now.icode \in {2, 4, 10} => valA = SeqRegs[SeqIsa!hi1]
<1>1. Now.icode = SeqIsa!hi0 /\ Now.icode \in {1, 2, 3, 4, 5, 6, 7, 8, 9, 10, 11}
  BY LegalFetch
<1>2. Fetches /\ y_icode = Now.icode /\ y_ifun = SeqIsa!lo0
  BY <1>1, YFetch, YFirstByte, StateNow DEF Legal
<1>3. Now.icode \in {4, 5, 8, 9, 10, 11} => get_word_ok(SeqIsa!DataAddress)
  BY <1>1, SharedCodes, SharedMemory DEF SeqIsa!BadData
<1>4. SeqIsa!base = Wrap(imm + valB)
  BY <1>1, YFetch, SharedNumbers, SharedRegisters DEF SeqIsa!base
<1>5. Now.icode \in {4, 5} => get_word_ok(Wrap(imm + valB))
  BY <1>1, <1>3, <1>4, SharedCodes DEF SeqIsa!DataAddress
<1>6. Now.icode \in {8, 10} => get_word_ok(pushed)
  BY <1>1, <1>3, YFetch, SharedCodes DEF SeqIsa!DataAddress, SeqIsa!Stacking
<1>7. Now.icode \in {9, 11} => get_word_ok(top)
  BY <1>1, <1>3, YFetch, SharedCodes DEF SeqIsa!DataAddress, SeqIsa!Stacking
<1>8. Now.icode \in {2, 4, 10} => valA = SeqRegs[SeqIsa!hi1]
  BY <1>1, YFetch, LegalFetch DEF get_reg_val
<1>9. sstat' = "AOK"
  BY Status
<1> QED  BY <1>1, <1>2, <1>4, <1>5, <1>6, <1>7, <1>8, <1>9 DEF Together

LEMMA YStep ==
  ASSUME Together, Legal, sim_step, nexti, ~SeqIsa!BadData, Now.icode # 12, Flags(SeqCC),
         Now.icode # 6
  PROVE  Alike /\ SeqCC' = SeqCC
<1> USE YExecuted
<1>0. SeqCC' = SeqCC
  BY Executed, SharedCodesHere DEF seq_set_cc
<1>1. CASE Now.icode = 1
  <2>1. YNop /\ SeqIsa!Nop
    BY <1>1, YAction, NopStep
  <2> QED  BY <1>0, <1>1, <2>1, YFetch DEF YNop, SeqIsa!Nop, Together, Alike
<1>2. CASE Now.icode = 2
  <2>1. YRrmovq /\ SeqIsa!Rrmovq
    BY <1>2, YAction, RrmovqStep
  <2>2. cond_doit(ycc, y_ifun) <=> SeqIsa!cond_holds(SeqCC, SeqIsa!lo0)
    BY SameCondition, SharedAlu DEF Together, Flags
  <2>3. reg_valid(regBid)
    BY <1>2, LegalFetch, YFetch
  <2>4. set_reg_val(yr, regBid, valA) = [SeqRegs EXCEPT ![SeqIsa!lo1] = SeqRegs[SeqIsa!hi1]]
    BY <1>2, <2>3, YFetch DEF set_reg_val, Together
  <2> QED  BY <1>0, <1>2, <2>1, <2>2, <2>4, YFetch DEF YRrmovq, SeqIsa!Rrmovq, Together, Alike
<1>3. CASE Now.icode = 3
  <2>1. YIrmovq /\ SeqIsa!Irmovq
    BY <1>3, YAction, IrmovqStep
  <2>2. reg_valid(regBid)
    BY <1>3, LegalFetch, YFetch
  <2>3. set_reg_val(yr, regBid, imm) = [SeqRegs EXCEPT ![SeqIsa!lo1] = SeqIsa!cval]
    BY <1>3, <2>2, YFetch DEF set_reg_val, Together
  <2> QED  BY <1>0, <1>3, <2>1, <2>3, YFetch DEF YIrmovq, SeqIsa!Irmovq, Together, Alike
<1>4. CASE Now.icode = 4
  <2>1. YRmmovq /\ SeqIsa!Rmmovq
    BY <1>4, YAction, RmmovqStep
  <2> QED  BY <1>0, <1>4, <2>1, YFetch, SharedMemory DEF YRmmovq, SeqIsa!Rmmovq, Together, Alike
<1>5. CASE Now.icode = 5
  <2>1. YMrmovq /\ SeqIsa!Mrmovq
    BY <1>5, YAction, MrmovqStep
  <2>2. reg_valid(regAid)
    BY <1>5, LegalFetch, YFetch
  <2>3. set_reg_val(yr, regAid, get_word_val(ym, Wrap(imm + valB)))
            = [SeqRegs EXCEPT ![SeqIsa!hi1] = SeqIsa!get_word_val(SeqMem, SeqIsa!base)]
    BY <1>5, <2>2, YFetch, SharedMemory DEF set_reg_val, Together
  <2> QED  BY <1>0, <1>5, <2>1, <2>3, YFetch DEF YMrmovq, SeqIsa!Mrmovq, Together, Alike
<1>6. CASE Now.icode = 7
  <2>1. YJmp /\ SeqIsa!Jmp
    BY <1>6, YAction, JmpStep
  <2>2. cond_doit(ycc, y_ifun) <=> SeqIsa!cond_holds(SeqCC, SeqIsa!lo0)
    BY SameCondition, SharedAlu DEF Together, Flags
  <2> QED  BY <1>0, <1>6, <2>1, <2>2, YFetch DEF YJmp, SeqIsa!Jmp, Together, Alike
<1>7. CASE Now.icode = 8
  <2>1. YCall /\ SeqIsa!Call
    BY <1>7, YAction, CallStep
  <2> QED  BY <1>0, <1>7, <2>1, YFetch, SharedMemory, SharedCodes, SharedCodesHere
           DEF YCall, SeqIsa!Call, Together, Alike
<1>8. CASE Now.icode = 9
  <2>1. YRet /\ SeqIsa!Ret
    BY <1>8, YAction, RetStep
  <2> QED  BY <1>0, <1>8, <2>1, YFetch, SharedMemory, SharedNumbers, SharedCodes, SharedCodesHere
           DEF YRet, SeqIsa!Ret, Together, Alike
<1>9. CASE Now.icode = 10
  <2>1. YPushq /\ SeqIsa!Pushq
    BY <1>9, YAction, PushqStep
  <2> QED  BY <1>0, <1>9, <2>1, YFetch, SharedMemory, SharedCodes, SharedCodesHere
           DEF YPushq, SeqIsa!Pushq, Together, Alike
<1>10. CASE Now.icode = 11
  <2>1. YPopq /\ SeqIsa!Popq
    BY <1>10, YAction, PopqStep
  <2>2. reg_valid(regAid)
    BY <1>10, LegalFetch, YFetch
  <2> DEFINE r == [yr EXCEPT ![4] = popped]
  <2>3. set_reg_val(r, regAid, get_word_val(ym, top)) = [r EXCEPT ![regAid] = get_word_val(ym, top)]
    <3> HIDE DEF r
    <3> QED  BY <2>2 DEF set_reg_val
  <2>4. yr' = [r EXCEPT ![regAid] = get_word_val(ym, top)]
    BY <1>10, <2>1, <2>3, SharedCodesHere DEF YPopq
  <2>5. SeqRegs' = [r EXCEPT ![regAid] = get_word_val(ym, top)]
    BY <1>10, <2>1, YFetch, SharedMemory, SharedNumbers, SharedCodes DEF SeqIsa!Popq, Together
  <2>6. ypc' = next_pc /\ ystat' = ystat /\ UNCHANGED <<ym, ycc>>
    BY <1>10, <2>1 DEF YPopq
  <2>7. SeqPc' = SeqIsa!ftpc /\ UNCHANGED SeqMem
    BY <2>1 DEF SeqIsa!Popq
  <2> QED  BY <1>0, <1>10, <2>4, <2>5, <2>6, <2>7, YFetch DEF Together, Alike
<1> QED  BY <1>1, <1>2, <1>3, <1>4, <1>5, <1>6, <1>7, <1>8, <1>9, <1>10

LEMMA YAluStep ==
  ASSUME Together, Legal, sim_step, nexti, ~SeqIsa!BadData, Now.icode = 6, ~WideResult
  PROVE  Alike /\ Flags(SeqCC')
<1> USE YExecuted
<1>1. YAlu /\ SeqIsa!Alu
  BY YAction, AluStep
<1>2. valA \in Word /\ valB \in Word
  BY YFetch, LegalTypes, RegisterRead, LegalFetch, SharedCodesHere
<1> DEFINE val == compute_alu(y_ifun, valA, valB)
           c == compute_cc(y_ifun, valA, valB)
<1>3. Does(I_ALU)
  BY SharedCodesHere DEF Does
<1>4. y_compute_cc(y_ifun, valA, valB, val) = c /\ Flags(c)
  <2>1. LET v == Signed(val) IN ~(c.of \/ 2 * v >= HalfModulus \/ 2 * v < -HalfModulus)
    BY <1>3 DEF WideResult
  <2> QED  BY <1>2, <2>1, SameFlags DEF Flags
<1>5. SeqCC' = c /\ SeqRegs' = set_reg_val(SeqRegs, SeqIsa!lo1, val)
      /\ SeqPc' = SeqIsa!ftpc /\ SeqMem' = SeqMem
  BY <1>1, YFetch, SharedAlu, SharedRegisters DEF SeqIsa!Alu
<1>6. ycc' = c /\ yr' = set_reg_val(SeqRegs, SeqIsa!lo1, val) /\ ypc' = SeqIsa!ftpc
      /\ ym' = SeqMem /\ ystat' = "AOK"
  BY <1>1, <1>4, YFetch DEF YAlu, Together
<1> HIDE DEF val, c
<1> QED  BY <1>4, <1>5, <1>6 DEF Alike

Agree ==
    /\ ystat = sstat /\ ypc = SeqPc /\ ym = SeqMem /\ ycc = SeqCC
    /\ yr = SeqRegs \/ ystat = "ADR"

LEMMA YSimulates ==
  ASSUME SeqTypes, ProperCode, Agree, Flags(SeqCC), sim_step, nexti,
         ~ExtraInstruction, ~WideResult
  PROVE  Agree' /\ Flags(SeqCC')
<1>1. Together
  BY SimStep DEF Agree, Together
<1>2. SeqPc = spend.pc
  BY <1>1, StateNow DEF Together
<1>3. CASE ~(get_byte_ok(spend.pc) /\ Now.icode \in 1 .. 12)
  <2>1. Alike
    BY <1>1, <1>3, YFetchFault
  <2>2. SeqCC' = SeqCC
    BY <1>3, FetchFault
  <2> QED  BY <2>1, <2>2 DEF Alike, Agree, Flags
<1>4. CASE get_byte_ok(spend.pc) /\ Now.icode \in 1 .. 12
  <2>1. Legal
    BY <1>4, ProperIsLegal
  <2>2. Now.icode # 12
    <3>1. get_byte_ok(ypc) /\ y_icode = Now.icode
      BY <1>1, <1>2, <1>4, <2>1, YFirstByte, LegalFetch DEF Together
    <3> QED  BY <3>1, SharedCodesHere DEF ExtraInstruction
  <2>3. CASE SeqIsa!BadData
    <3>1. Apart
      BY <1>1, <2>1, <2>2, <2>3, YDataFault
    <3>2. SeqCC' = SeqCC
      BY <2>1, <2>3, DataFault
    <3> QED  BY <3>1, <3>2 DEF Apart, Agree, Flags
  <2>4. CASE ~SeqIsa!BadData
    <3>1. Alike /\ Flags(SeqCC')
      <4>1. CASE Now.icode = 6
        BY <1>1, <2>1, <2>4, <4>1, YAluStep
      <4>2. CASE Now.icode # 6
        BY <1>1, <2>1, <2>2, <2>4, <4>2, YStep DEF Flags
      <4> QED  BY <4>1, <4>2
    <3> QED  BY <3>1 DEF Alike, Agree
  <2> QED  BY <2>3, <2>4
<1> QED  BY <1>3, <1>4

(* The flags matter because the student's conditions never look at OF; a   *)
(* machine that has not been started has nothing to write.                 *)
YInv ==
    /\ ~loaded => sstat = "AOK" /\ spend.mem_write = FALSE
    /\ plain => Agree /\ Flags(SeqCC)

LEMMA InitYInv == Init => YInv
<1> SUFFICES ASSUME Init PROVE YInv
  OBVIOUS
<1>1. sstat = "AOK" /\ spend.mem_write = FALSE /\ ystat = "AOK" /\ ypc = 0 /\ spend.pc = 0
      /\ ycc = DEFAULT_CC /\ spend.cc = DEFAULT_CC
      /\ ym = smem /\ yr = sreg /\ spend.destE = REG_NONE /\ spend.destM = REG_NONE
  BY Zenon DEF Init, SeqInit, Y64Init
<1>2. PendingRegs = sreg /\ PendingMem = smem
  BY <1>1, SharedCodesHere DEF PendingRegs, PendingMem, set_reg_val, reg_valid
<1>3. Flags(DEFAULT_CC)
  BY DEF Flags, DEFAULT_CC
<1> QED  BY <1>1, <1>2, <1>3, StateNow DEF YInv, Agree

LEMMA NextYInv ==
  ASSUME Types, YInv, loaded => ProperCode, [Next]_vars
  PROVE  YInv'
<1>1. ASSUME UNCHANGED <<svars, yvars, loaded, plain>> PROVE YInv'
  <2>1. UNCHANGED <<SeqPc, SeqRegs, SeqMem, SeqCC>>
    BY <1>1 DEF svars, SeqPc, SeqRegs, SeqMem, SeqCC, SeqDone, PendingRegs, PendingMem
  <2> QED  BY <1>1, <2>1 DEF svars, yvars, YInv, Agree, Flags
<1>2. CASE Read \/ Assemble
  BY <1>1, <1>2 DEF Read, Assemble, machines
<1>3. CASE Load
  <2>1. /\ ~loaded /\ loaded' /\ smem' = image' /\ ym' = image'
        /\ UNCHANGED <<spc, sreg, scc, spend, sstat, ypc, yr, ycc, ystat, plain>>
    BY <1>3 DEF Load
  <2>2. sstat = "AOK" /\ spend.mem_write = FALSE
    BY <2>1 DEF YInv
  <2>3. UNCHANGED <<SeqPc, SeqRegs, SeqCC>>
    BY <2>1, <2>2 DEF SeqPc, SeqRegs, SeqCC, SeqDone, PendingRegs
  <2>4. SeqMem' = image'
    BY <2>1, <2>2 DEF SeqMem, SeqDone, PendingMem
  <2> QED  BY <2>1, <2>3, <2>4 DEF YInv, Agree, Flags
<1>4. CASE Run
  <2>1. CASE UNCHANGED <<svars, yvars, plain, lost, due>>
    BY <1>1, <1>4, <2>1 DEF Run
  <2>2. CASE /\ sim_step /\ (IF ystat = "AOK" THEN nexti ELSE UNCHANGED yvars)
             /\ plain' = (plain /\ ~ExtraInstruction /\ ~WideResult)
    <3>1. loaded /\ loaded'
      BY <1>4 DEF Run
    <3>2. ASSUME plain' PROVE Agree' /\ Flags(SeqCC')
      <4>1. plain /\ ~ExtraInstruction /\ ~WideResult
        BY <2>2, <3>2
      <4>2. Agree /\ Flags(SeqCC) /\ SeqTypes /\ ProperCode
        BY <3>1, <4>1 DEF YInv, Types
      <4>3. nexti
        BY <2>2, <4>2, SimStep DEF Agree
      <4> QED  BY <2>2, <4>1, <4>2, <4>3, YSimulates
    <3> QED  BY <3>1, <3>2 DEF YInv
  <2> QED  BY <1>4, <2>1, <2>2 DEF Run
<1>5. CASE UNCHANGED vars
  BY <1>1, <1>5 DEF vars
<1> QED  BY <1>2, <1>3, <1>4, <1>5 DEF Next

(* The student's simulator goes with the sequential processor through every*)
(* program, instruction by instruction, up to the first iaddq, the first   *)
(* overflow, with a result of either sign, and the first result outside the*)
(* lower half of a word, with or without an overflow (plain).              *)
THEOREM StudentSimulatorMatches ==
  Spec /\ [](loaded => ProperCode) => []Y64SimMatches
<1>1. Spec => []Types
  BY TypesHold
<1>2. YInv => Y64SimMatches
  BY DEF YInv, Agree, Y64SimMatches
<1> QED  BY <1>1, <1>2, InitYInv, NextYInv, PTL DEF Spec

-----------------------------------------------------------------------------
(* The assembler of lab6.  A line stands behind the line before it, a label *)
(* is the place where its line begins, and the code of a line has its       *)
(* operand, but for the uses of labels that are still to be patched.        *)
Accepted(s) ==
    /\ s.code # BAD
    /\ s.code \in {D_POS, D_ALIGN} => s.operand # "label"

Placed(i) ==
    /\ Begin(i + 1) = Behind(Begin(i), source[i])
    /\ lines[i].addr \in Nat
    /\ IF HasCode(i) THEN lines[i].addr = Begin(i) /\ lines[i].bytes = source[i].bytes
       ELSE lines[i].bytes = 0

Operand(s) == IF s.operand = "label" THEN symtab[s.value] ELSE s.value

Encoded(s, v) ==
    IF s.operand = "none" THEN Opcodes(s) ELSE StoreValue(Opcodes(s), OperandAt(s.code), v)

ToPatch(i) == \E k \in DOMAIN reltab : reltab[k][1] = i

Written(i) ==
    HasCode(i) => IF ToPatch(i) THEN lines[i].codes = Opcodes(source[i])
                  ELSE /\ source[i].operand = "label" => source[i].value \in DOMAIN symtab
                       /\ lines[i].codes = Encoded(source[i], Operand(source[i]))

Labels ==
    /\ \A l \in DOMAIN symtab : l # NoLabel /\ \E i \in DOMAIN source : source[i].label = l
    /\ \A i \in DOMAIN source : source[i].label # NoLabel =>
          /\ source[i].label \in DOMAIN symtab
          /\ symtab[source[i].label] = Begin(i)
          /\ \A j \in DOMAIN source : source[j].label = source[i].label => j = i

Uses ==
    /\ reltab \in Seq(Nat \X {s.value : s \in ProgramText(hcl)})
    /\ \A k \in DOMAIN reltab :
          LET i == reltab[k][1] IN
          /\ i \in DOMAIN source /\ HasCode(i)
          /\ source[i].operand = "label" /\ reltab[k][2] = source[i].value
          /\ \A l \in DOMAIN reltab : reltab[l][1] = i => l = k

Shape ==
    /\ Len(lines) = Len(source)
    /\ vmaddr \in Nat /\ vmaddr = Begin(Len(source) + 1)
    /\ \A i \in DOMAIN source : Accepted(source[i]) /\ Placed(i) /\ Written(i)
    /\ Labels
    /\ Uses

AsmInv ==
    /\ hcl = "full" => aphase \in {"assemble", "exited"}
    /\ aphase = "error" => hit_error \/ OnlyY64Refuses
    /\ hcl # "full" /\ aphase \in {"assemble", "relocate", "binfile", "done"} => Shape
    /\ aphase \in {"binfile", "done"} => reltab = <<>>
    /\ aphase = "done" =>
          /\ maxaddr < MemLen
          /\ image = [a \in 0 .. MemLen - 1 |->
                        IF Covering(a) = {} THEN 0
                        ELSE LET line == lines[Max(Covering(a))]
                             IN  line.codes[a - line.addr]]

(* No data line has the value 0, for which y64asm leaves the code of the    *)
(* directive in the line.                                                   *)
DataNotZero ==
    \A i \in DOMAIN source : source[i].code = D_DATA => Value(source[i]) # 0

LEMMA AlignAgree ==
  ASSUME NEW pos \in Nat, NEW a \in Nat \ {0}
  PROVE  pos + ((a - (pos % a)) % a) = Aligned(pos, a) /\ Aligned(pos, a) \in Nat
<1> DEFINE q == pos \div a
           r == pos % a
           t == pos + a - 1
           p == t \div a
<1>1. q \in Int /\ r \in 0 .. a - 1 /\ pos = a * q + r
  BY DivMod
<1>2. p \in Int /\ t \in Int /\ t = a * p + (t % a) /\ t % a \in 0 .. a - 1
  <2>1. t \in Int
    OBVIOUS
  <2> HIDE DEF t
  <2> QED  BY <2>1, DivMod
<1>3. Aligned(pos, a) = p * a
  BY DEF Aligned
<1>7. t = pos + a - 1
  OBVIOUS
<1> HIDE DEF q, p, r, t
<1>4. a * q \in Int /\ p * a = a * p
  BY <1>1, <1>2
<1>5. CASE r = 0
  <2>1. a - r = a * 1 + 0
    BY <1>5
  <2>2. (a - r) % a = 0
    BY <1>1, <2>1, RemainderUnique
  <2>3. t = a * q + (a - 1) /\ a - 1 \in 0 .. a - 1
    BY <1>1, <1>4, <1>5, <1>7
  <2>4. t % a = a - 1
    BY <1>1, <1>2, <2>3, RemainderUnique
  <2>5. a * p \in Int /\ a * p = pos
    BY <1>1, <1>2, <1>5, <1>7, <2>4
  <2> QED  BY <1>3, <1>4, <2>2, <2>5 DEF r
<1>6. CASE r # 0
  <2>1. a - r \in 0 .. a - 1 /\ a - r = a * 0 + (a - r) /\ r - 1 \in 0 .. a - 1
    BY <1>1, <1>6
  <2>2. (a - r) % a = a - r
    BY <2>1, RemainderUnique
  <2>3. a * (q + 1) = a * q + a
    BY <1>1
  <2>4. t = a * (q + 1) + (r - 1) /\ q + 1 \in Int
    BY <1>1, <1>4, <1>7, <2>3
  <2>5. t % a = r - 1
    BY <1>2, <2>1, <2>4, RemainderUnique
  <2>6. a * p \in Int /\ a * p = pos + a - r
    BY <1>1, <1>2, <1>7, <2>5
  <2> QED  BY <1>1, <1>3, <1>4, <2>2, <2>6 DEF r
<1> QED  BY <1>5, <1>6

(* The line that parse_line makes of a statement. *)
Coding(s) == s.code \notin {LABEL_ONLY, D_POS, D_ALIGN}
Resolved(s) == s.operand # "label" \/ s.value \in DOMAIN symtab

NewLine(s, line) ==
    /\ lines' = Append(lines, line)
    /\ line.addr \in Nat
    /\ vmaddr' \in Nat /\ vmaddr' = line.addr + line.bytes /\ vmaddr' = Behind(vmaddr, s)
    /\ IF Coding(s)
       THEN /\ line.addr = vmaddr /\ line.bytes = s.bytes
            /\ line.codes = IF Resolved(s)' THEN Encoded(s, Operand(s)') ELSE Opcodes(s)
            /\ reltab' = IF Resolved(s)' THEN reltab
                         ELSE Append(reltab, <<Len(lines) + 1, s.value>>)
       ELSE line.bytes = 0 /\ reltab' = reltab

LEMMA Parsed ==
  ASSUME AsmTypes, vmaddr \in Nat, NEW s, IsStatement(s), ParseLine(s), ~Rejected(s)
  PROVE  /\ source' = Append(source, s) /\ symtab' = Labelled(symtab, s)
         /\ aphase' = aphase /\ aphase = "assemble"
         /\ \E line \in Line : NewLine(s, line)
<1> DEFINE known == Labelled(symtab, s)
           direct == s.operand = "none" \/ s.operand = "number" \/ s.value \in DOMAIN known
           value == IF s.operand = "label" THEN known[s.value] ELSE s.value
           aligned == vmaddr + ((value - (vmaddr % value)) % value)
           codes == IF direct /\ s.operand # "none"
                    THEN StoreValue(Opcodes(s), OperandAt(s.code), value)
                    ELSE Opcodes(s)
<1>1. symtab' = known /\ source' = Append(source, s) /\ aphase = "assemble"
  BY DEF ParseLine
<1>2. s.code \in {D_POS, D_ALIGN} => s.operand # "label"
  BY DEF Rejected
<1>3. s.operand \in {"none", "number", "label"} /\ s.bytes \in Nat
  BY DEF IsStatement
<1>4. (direct <=> Resolved(s)') /\ value = Operand(s)'
  BY <1>1, <1>3 DEF Resolved, Operand
<1>5. D_POS # D_ALIGN /\ LABEL_ONLY \notin {D_POS, D_ALIGN}
  BY DEF D_POS, D_ALIGN, HPACK, LABEL_ONLY
<1> HIDE DEF known
<1>6. ASSUME NEW addr \in Nat, Place(addr), addr = Behind(vmaddr, s), ~Coding(s)
      PROVE  aphase' = aphase /\ NewLine(s, [addr |-> addr, bytes |-> 0, codes |-> <<>>])
             /\ [addr |-> addr, bytes |-> 0, codes |-> <<>>] \in Line
  <2>1. [addr |-> addr, bytes |-> 0, codes |-> <<>>] \in Line
    BY Words DEF Line, Codes
  <2> QED  BY <1>6, <2>1 DEF Place, Emit, NewLine
<1>7. CASE s.code = LABEL_ONLY
  <2>1. Place(vmaddr)
    BY <1>7 DEF ParseLine
  <2>2. Behind(vmaddr, s) = vmaddr
    BY <1>5, <1>7 DEF Behind, IsStatement
  <2> QED  BY <1>1, <1>6, <1>7, <2>1, <2>2 DEF Coding, known
<1>8. CASE s.code = D_POS
  <2>1. Place(value)
    BY <1>5, <1>8 DEF ParseLine, known
  <2>2. value \in Nat
    BY <1>2, <1>8, WordsAreInt DEF IsStatement
  <2>3. Behind(vmaddr, s) = value
    BY <1>2, <1>5, <1>8 DEF Behind
  <2> HIDE DEF value
  <2> QED  BY <1>1, <1>6, <1>8, <2>1, <2>2, <2>3 DEF Coding, known
<1>9. CASE s.code = D_ALIGN
  <2>1. Place(aligned)
    BY <1>5, <1>9 DEF ParseLine, known
  <2>2. value \in Nat \ {0} /\ value = s.value
    BY <1>2, <1>9, WordsAreInt DEF IsStatement
  <2>3. Behind(vmaddr, s) = Aligned(vmaddr, value)
    BY <1>5, <1>9, <2>2 DEF Behind
  <2> HIDE DEF value
  <2>4. aligned = Aligned(vmaddr, value) /\ aligned \in Nat
    BY <2>2, AlignAgree
  <2> HIDE DEF aligned
  <2> QED  BY <1>1, <1>6, <1>9, <2>1, <2>3, <2>4 DEF Coding, known
<1>10. CASE Coding(s)
  <2> DEFINE line == [addr |-> vmaddr, bytes |-> s.bytes, codes |-> codes]
  <2>1. /\ Emit(line, vmaddr + s.bytes)
        /\ reltab' = IF direct THEN reltab ELSE Append(reltab, <<Len(lines) + 1, s.value>>)
    BY <1>10 DEF ParseLine, Coding, known
  <2>2. Behind(vmaddr, s) = vmaddr + s.bytes
    BY <1>10 DEF Behind, Coding
  <2>3. s.code \in Byte
    BY <1>10 DEF IsStatement, Rejected, Coding
  <2>4. codes = IF Resolved(s)' THEN Encoded(s, Operand(s)') ELSE Opcodes(s)
    BY <1>3, <1>4 DEF Encoded
  <2>5. codes \in [0 .. WordBytes + 1 -> Byte]
    <3>1. Opcodes(s) \in [0 .. WordBytes + 1 -> Byte]
      BY <2>3, OpcodesAreBytes
    <3>2. direct /\ s.operand # "none" => value \in Int
      <4>1. \A l \in DOMAIN known : known[l] \in Int
        BY LabelledTypes DEF AsmTypes, known
      <4> QED  BY <1>3, <4>1, WordsAreInt DEF IsStatement
    <3>3. Opcodes(s) \in Codes
      BY <3>1 DEF Codes
    <3> HIDE DEF direct, value
    <3> QED  BY <3>1, <3>2, <3>3, ValueStored, OperandPlace
  <2> HIDE DEF codes, direct
  <2>6. line \in Line
    BY <1>3, <2>5 DEF Line, Codes, IsStatement
  <2>7. NewLine(s, line) /\ aphase' = aphase
    BY <1>3, <1>4, <1>10, <2>1, <2>2, <2>4 DEF NewLine, Emit
  <2> HIDE DEF line
  <2> QED  BY <1>1, <2>6, <2>7 DEF known
<1> QED  BY <1>7, <1>8, <1>9, <1>10 DEF Coding

LEMMA Lengths ==
  ASSUME AsmTypes, Shape
  PROVE  /\ Len(source) \in Nat /\ Len(lines) = Len(source)
         /\ DOMAIN source = 1 .. Len(source) /\ DOMAIN lines = 1 .. Len(source)
         /\ \A i \in 1 .. Len(source) : lines[i] \in Line
<1>1. source \in Seq(ProgramText(hcl)) /\ lines \in Seq(Line) /\ Len(lines) = Len(source)
  BY DEF AsmTypes, Shape
<1> QED  BY <1>1, LenProperties

LEMMA ParseLineShape ==
  ASSUME AsmTypes, Shape, NEW s \in ProgramText(hcl), IsStatement(s),
         ParseLine(s), ~Rejected(s), hcl' = hcl,
         NEW n \in Nat, n = Len(source)
  PROVE  Shape'
<1>1. /\ DOMAIN source = 1 .. n /\ DOMAIN lines = 1 .. n /\ Len(lines) = n
      /\ n + 1 \in 1 .. n + 1
  BY Lengths
<1>2. /\ source' = Append(source, s) /\ symtab' = Labelled(symtab, s)
      /\ \E line \in Line : NewLine(s, line)
  BY Parsed DEF Shape
<1>3. PICK line \in Line : NewLine(s, line)
  BY <1>2
<1>4. /\ Len(source') = n + 1 /\ DOMAIN source' = 1 .. n + 1
      /\ source'[n + 1] = s /\ \A i \in 1 .. n : source'[i] = source[i]
  <2>1. source \in Seq(ProgramText(hcl))
    BY DEF AsmTypes
  <2> QED  BY <1>2, <2>1, AppendProperties, LenProperties
<1>5. /\ Len(lines') = n + 1
      /\ lines'[n + 1] = line /\ \A i \in 1 .. n : lines'[i] = lines[i]
  <2>1. lines \in Seq(Line) /\ lines' = Append(lines, line)
    BY <1>3 DEF AsmTypes, NewLine
  <2> QED  BY <1>1, <2>1, AppendProperties, LenProperties
<1>6. /\ \A i \in 1 .. n + 1 : Begin(i)' = Begin(i)
      /\ Begin(n + 1) = vmaddr /\ Begin(n + 2)' = vmaddr'
  <2>1. ASSUME NEW i \in 1 .. n + 1 PROVE Begin(i)' = Begin(i)
    <3>1. i # 1 => i - 1 \in 1 .. n
      BY <1>1
    <3> QED  BY <1>5, <3>1 DEF Begin
  <2>2. n + 2 # 1 /\ n + 2 - 1 = n + 1
    OBVIOUS
  <2>3. Begin(n + 2)' = vmaddr'
    BY <1>3, <1>5, <2>2 DEF Begin, NewLine
  <2>4. Begin(n + 1) = vmaddr
    BY DEF Shape
  <2> QED  BY <2>1, <2>3, <2>4
<1>7. /\ \A l \in DOMAIN symtab : l \in DOMAIN symtab' /\ symtab'[l] = symtab[l]
      /\ \A l \in DOMAIN symtab' : l \in DOMAIN symtab \/ (l # NoLabel /\ l = s.label)
      /\ s.label # NoLabel => s.label \in DOMAIN symtab' /\ symtab'[s.label] = vmaddr
      /\ s.label \notin DOMAIN symtab
  BY <1>2 DEF Labelled, Added, Rejected
<1>8. Labels'
  <2>1. Labels
    BY DEF Shape
  <2>2. ASSUME NEW l \in DOMAIN symtab'
        PROVE  l # NoLabel /\ \E i \in 1 .. n + 1 : source'[i].label = l
    <3>1. CASE l \in DOMAIN symtab
      <4>1. l # NoLabel /\ \E i \in 1 .. n : source[i].label = l
        BY <1>1, <2>1, <3>1 DEF Labels
      <4>2. \A i \in 1 .. n : i \in 1 .. n + 1
        BY <1>1
      <4> QED  BY <1>4, <4>1, <4>2
    <3>2. CASE l # NoLabel /\ l = s.label
      BY <1>1, <1>4, <3>2
    <3> QED  BY <1>7, <2>2, <3>1, <3>2
  <2>3. ASSUME NEW i \in 1 .. n + 1, source'[i].label # NoLabel
        PROVE  /\ source'[i].label \in DOMAIN symtab'
               /\ symtab'[source'[i].label] = Begin(i)'
               /\ \A j \in 1 .. n + 1 : source'[j].label = source'[i].label => j = i
    <3>0. \A j \in 1 .. n + 1 : j \in 1 .. n \/ j = n + 1
      BY <1>1
    <3>1. ASSUME NEW j \in 1 .. n, source[j].label # NoLabel
          PROVE  /\ source[j].label \in DOMAIN symtab /\ symtab[source[j].label] = Begin(j)
                 /\ \A k \in 1 .. n : source[k].label = source[j].label => k = j
      BY <1>1, <2>1, <3>1 DEF Labels
    <3>2. CASE i \in 1 .. n
      <4>1. /\ source[i].label \in DOMAIN symtab /\ symtab[source[i].label] = Begin(i)
            /\ \A k \in 1 .. n : source[k].label = source[i].label => k = i
            /\ source'[i] = source[i]
        BY <1>4, <2>3, <3>1, <3>2
      <4>2. source[i].label # s.label
        BY <1>7, <4>1
      <4> QED  BY <1>4, <1>6, <1>7, <3>0, <4>1, <4>2
    <3>3. CASE i = n + 1
      <4>1. s.label # NoLabel
        BY <1>4, <2>3, <3>3
      <4>2. ASSUME NEW j \in 1 .. n PROVE source[j].label # s.label
        BY <1>7, <3>1, <4>1
      <4> QED  BY <1>1, <1>4, <1>6, <1>7, <3>0, <3>3, <4>1, <4>2
    <3> QED  BY <3>0, <3>2, <3>3
  <2> QED  BY <1>4, <2>2, <2>3 DEF Labels
<1> DEFINE T == Nat \X {t.value : t \in ProgramText(hcl)}
           patched == Coding(s) /\ ~Resolved(s)'
           m == Len(reltab)
<1>9. /\ reltab \in Seq(T) /\ m \in Nat /\ DOMAIN reltab = 1 .. m
      /\ \A k \in 1 .. m : reltab[k] \in T
  BY LenProperties DEF Shape, Uses
<1>10. /\ reltab' \in Seq(T)
       /\ \A k \in 1 .. m : k \in DOMAIN reltab' /\ reltab'[k] = reltab[k]
       /\ \A k \in DOMAIN reltab' : k \in 1 .. m \/ (patched /\ k = m + 1)
       /\ patched => m + 1 \in DOMAIN reltab' /\ reltab'[m + 1] = <<n + 1, s.value>>
  <2>1. CASE ~patched
    BY <1>3, <1>9, <2>1 DEF NewLine
  <2>2. CASE patched
    <3>1. <<n + 1, s.value>> \in T
      BY <1>1
    <3>2. reltab' = Append(reltab, <<n + 1, s.value>>)
      BY <1>1, <1>3, <2>2 DEF NewLine
    <3> HIDE DEF T, m
    <3>3. /\ reltab' \in Seq(T) /\ Len(reltab') = m + 1 /\ reltab'[m + 1] = <<n + 1, s.value>>
          /\ \A k \in 1 .. m : reltab'[k] = reltab[k]
      BY <1>9, <3>1, <3>2, AppendProperties DEF m
    <3>4. DOMAIN reltab' = 1 .. m + 1
      BY <3>3, LenProperties
    <3>5. /\ \A k \in 1 .. m + 1 : k \in 1 .. m \/ k = m + 1
          /\ \A k \in 1 .. m : k \in 1 .. m + 1
          /\ m + 1 \in 1 .. m + 1
      BY <1>9
    <3> QED  BY <2>2, <3>3, <3>4, <3>5
  <2> QED  BY <2>1, <2>2
<1> HIDE DEF T, m
<1>11. \A k \in 1 .. m :
          /\ reltab[k][1] \in 1 .. n /\ HasCode(reltab[k][1])
          /\ source[reltab[k][1]].operand = "label" /\ reltab[k][2] = source[reltab[k][1]].value
          /\ \A l \in 1 .. m : reltab[l][1] = reltab[k][1] => l = k
  BY <1>1, <1>9 DEF Shape, Uses
<1>12. \A i \in 1 .. n : i \in 1 .. n + 1 /\ i # n + 1
  BY <1>1
<1>13. /\ \A i \in 1 .. n : HasCode(i)' <=> HasCode(i)
       /\ HasCode(n + 1)' <=> Coding(s)
  BY <1>4 DEF HasCode, Coding
<1>14. patched => s.operand = "label"
  BY DEF Resolved
<1> HIDE DEF patched
<1>15. Uses'
  <2>1. ASSUME NEW k \in DOMAIN reltab'
        PROVE  /\ reltab'[k][1] \in 1 .. n + 1 /\ HasCode(reltab[k][1])'
               /\ source'[reltab'[k][1]].operand = "label"
               /\ reltab'[k][2] = source'[reltab'[k][1]].value
               /\ \A l \in DOMAIN reltab' : reltab'[l][1] = reltab'[k][1] => l = k
    <3>1. CASE k \in 1 .. m
      <4>0. PICK i : i = reltab[k][1]
        OBVIOUS
      <4>1. /\ i \in 1 .. n /\ HasCode(i) /\ source[i].operand = "label"
            /\ reltab[k][2] = source[i].value
            /\ \A l \in 1 .. m : reltab[l][1] = i => l = k
        BY <1>11, <3>1, <4>0
      <4>2. reltab'[k] = reltab[k]
        BY <1>10, <3>1
      <4>3. ASSUME NEW l \in DOMAIN reltab', reltab'[l][1] = i PROVE l = k
        <5>1. CASE l \in 1 .. m
          BY <1>10, <4>1, <4>3, <5>1
        <5>2. CASE patched /\ l = m + 1
          <6>1. reltab'[l][1] = n + 1
            BY <1>10, <5>2
          <6> QED  BY <1>12, <4>1, <4>3, <6>1
        <5> QED  BY <1>10, <5>1, <5>2
      <4>4. HasCode(i)' /\ source'[i] = source[i] /\ i \in 1 .. n + 1
        BY <1>4, <1>12, <1>13, <4>1
      <4>5. reltab'[k][1] = i /\ reltab'[k][2] = reltab[k][2]
        BY <4>0, <4>2
      <4>6. HasCode(reltab[k][1])'
        BY <4>4, <4>5 DEF HasCode
      <4> QED  BY <4>1, <4>3, <4>4, <4>5, <4>6
    <3>2. CASE patched /\ k = m + 1
      <4>1. reltab'[k][1] = n + 1 /\ reltab'[k][2] = s.value
        BY <1>10, <3>2
      <4>2. Coding(s)
        BY <3>2 DEF patched
      <4>3. HasCode(reltab[k][1])'
        BY <1>13, <4>1, <4>2 DEF HasCode
      <4>4. ASSUME NEW l \in DOMAIN reltab', reltab'[l][1] = n + 1 PROVE l = k
        <5>1. CASE l \in 1 .. m
          <6>1. reltab'[l][1] \in 1 .. n
            BY <1>10, <1>11, <5>1
          <6> QED  BY <1>12, <4>4, <6>1
        <5> QED  BY <1>10, <3>2, <5>1
      <4> QED  BY <1>1, <1>4, <1>14, <3>2, <4>1, <4>3, <4>4
    <3> QED  BY <1>10, <3>1, <3>2
  <2> QED  BY <1>4, <1>10, <2>1 DEF Uses, T
<1>16. /\ \A i \in 1 .. n : ToPatch(i)' <=> ToPatch(i)
       /\ ToPatch(n + 1)' <=> patched
  <2>1. ASSUME NEW i \in 1 .. n PROVE ToPatch(i)' <=> ToPatch(i)
    <3>1. patched => reltab'[m + 1][1] # i
      BY <1>10, <1>12
    <3>2. ToPatch(i)' <=> \E k \in DOMAIN reltab' : reltab'[k][1] = i
      BY DEF ToPatch
    <3>3. ToPatch(i) <=> \E k \in 1 .. m : reltab[k][1] = i
      BY <1>9 DEF ToPatch
    <3>4. ASSUME NEW k \in DOMAIN reltab', reltab'[k][1] = i
          PROVE  k \in 1 .. m /\ reltab[k][1] = i
      BY <1>10, <3>1, <3>4
    <3>5. ASSUME NEW k \in 1 .. m, reltab[k][1] = i
          PROVE  k \in DOMAIN reltab' /\ reltab'[k][1] = i
      BY <1>10, <3>5
    <3> QED  BY <3>2, <3>3, <3>4, <3>5
  <2>2. ASSUME NEW k \in DOMAIN reltab', reltab'[k][1] = n + 1 PROVE patched
    <3>1. CASE k \in 1 .. m
      <4>1. reltab'[k][1] \in 1 .. n
        BY <1>10, <1>11, <3>1
      <4> QED  BY <1>12, <2>2, <4>1
    <3> QED  BY <1>10, <3>1
  <2>3. patched => m + 1 \in DOMAIN reltab' /\ reltab'[m + 1][1] = n + 1
    BY <1>10
  <2> QED  BY <2>1, <2>2, <2>3 DEF ToPatch
<1>17. ASSUME NEW i \in 1 .. n PROVE (Accepted(source[i]) /\ Placed(i) /\ Written(i))'
  <2>1. /\ source'[i] = source[i] /\ lines'[i] = lines[i]
        /\ Begin(i)' = Begin(i) /\ Begin(i + 1)' = Begin(i + 1)
        /\ HasCode(i)' <=> HasCode(i)
        /\ ToPatch(i)' <=> ToPatch(i)
    <3>1. i + 1 \in 1 .. n + 1
      BY <1>1
    <3> QED  BY <1>4, <1>5, <1>6, <1>12, <1>13, <1>16, <3>1
  <2>2. Accepted(source[i]) /\ Placed(i) /\ Written(i)
    BY <1>1 DEF Shape
  <2>3. Accepted(source[i])'
    BY <2>1, <2>2 DEF Accepted
  <2>4. Placed(i)'
    BY <2>1, <2>2 DEF Placed, Behind
  <2>5. Written(i)'
    <3>1. ASSUME HasCode(i), ~ToPatch(i)
          PROVE  /\ source[i].operand = "label" => source[i].value \in DOMAIN symtab'
                 /\ lines[i].codes = Encoded(source[i], Operand(source[i])')
      <4>1. /\ source[i].operand = "label" => source[i].value \in DOMAIN symtab
            /\ lines[i].codes = Encoded(source[i], Operand(source[i]))
        BY <2>2, <3>1 DEF Written
      <4>2. PICK t : t = source[i]
        OBVIOUS
      <4>3. t.operand = "label" => symtab'[t.value] = symtab[t.value]
        BY <1>7, <4>1, <4>2
      <4>4. Operand(t)' = Operand(t)
        BY <4>3 DEF Operand
      <4>5. Operand(source[i])' = Operand(source[i])
        BY <2>1, <4>2, <4>4 DEF Operand
      <4> QED  BY <1>7, <4>1, <4>5
    <3>2. HasCode(i) /\ ToPatch(i) => lines[i].codes = Opcodes(source[i])
      BY <2>2 DEF Written
    <3> QED  BY <2>1, <3>1, <3>2 DEF Written, Encoded, Opcodes, StoreValue
  <2> QED  BY <2>3, <2>4, <2>5
<1>18. (Accepted(source[n + 1]) /\ Placed(n + 1) /\ Written(n + 1))'
  <2>1. Accepted(s)
    BY DEF Accepted, Rejected
  <2>2. Placed(n + 1)'
    <3>1. n + 1 + 1 = n + 2
      BY <1>1
    <3>2. Begin(n + 1 + 1)' = Behind(Begin(n + 1)', s)
      BY <1>3, <1>6, <1>12, <1>1, <3>1 DEF NewLine
    <3>3. Begin(n + 1)' = vmaddr
      BY <1>1, <1>6
    <3> QED  BY <1>3, <1>4, <1>5, <1>13, <3>2, <3>3 DEF Placed, NewLine, Behind
  <2>3. Written(n + 1)'
    <3>1. Coding(s) /\ patched => line.codes = Opcodes(s)
      BY <1>3 DEF NewLine, patched
    <3>2. Coding(s) /\ ~patched => /\ line.codes = Encoded(s, Operand(s)')
                                   /\ s.operand = "label" => s.value \in DOMAIN symtab'
      BY <1>3 DEF NewLine, patched, Resolved
    <3>3. Operand(source[n + 1])' = Operand(s)'
      BY <1>4 DEF Operand
    <3> QED  BY <1>4, <1>5, <1>13, <1>16, <3>1, <3>2, <3>3
             DEF Written, Encoded, Opcodes, StoreValue
  <2> QED  BY <1>4, <2>1, <2>2, <2>3 DEF Accepted
<1>19. vmaddr' \in Nat /\ vmaddr' = Begin(Len(source) + 1)' /\ (Len(lines) = Len(source))'
  <2>1. Len(source') + 1 = n + 2
    BY <1>1, <1>4
  <2>2. Begin(Len(source) + 1)' = Begin(n + 2)'
    BY <2>1 DEF Begin
  <2> QED  BY <1>3, <1>4, <1>5, <1>6, <2>2 DEF NewLine
<1>20. ASSUME NEW i \in 1 .. n + 1 PROVE (Accepted(source[i]) /\ Placed(i) /\ Written(i))'
  <2>1. i \in 1 .. n \/ i = n + 1
    BY <1>1
  <2>2. CASE i = n + 1
    BY <1>18, <2>2
  <2> QED  BY <1>17, <2>1, <2>2
<1> QED  BY <1>4, <1>8, <1>15, <1>19, <1>20 DEF Shape

LEMMA Patched ==
  ASSUME AsmTypes, Shape, Relocate,
         NEW n \in Nat, n = Len(source), NEW m \in Nat, m = Len(reltab)
  PROVE  /\ m > 0 /\ DOMAIN reltab = 1 .. m /\ DOMAIN source = 1 .. n
         /\ reltab[m][1] \in 1 .. n /\ HasCode(reltab[m][1])
         /\ source[reltab[m][1]].operand = "label"
         /\ source[reltab[m][1]].value = reltab[m][2]
         /\ Last(reltab) = reltab[m]
<1>1. DOMAIN source = 1 .. n
  BY Lengths
<1>2. DOMAIN reltab = 1 .. m /\ m > 0
  BY LenProperties, EmptySeq DEF Relocate, Shape, Uses
<1>3. m \in DOMAIN reltab
  BY <1>2
<1>4. /\ reltab[m][1] \in DOMAIN source /\ HasCode(reltab[m][1])
      /\ source[reltab[m][1]].operand = "label"
      /\ reltab[m][2] = source[reltab[m][1]].value
  BY <1>3 DEF Shape, Uses
<1> QED  BY <1>1, <1>2, <1>4 DEF Last

LEMMA RelocateShape ==
  ASSUME AsmTypes, Shape, Relocate, aphase' = aphase, hcl' = hcl,
         NEW n \in Nat, n = Len(source), NEW m \in Nat, m = Len(reltab)
  PROVE  Shape'
<1>1. /\ m > 0 /\ DOMAIN reltab = 1 .. m /\ DOMAIN source = 1 .. n
      /\ reltab[m][1] \in 1 .. n /\ HasCode(reltab[m][1])
      /\ source[reltab[m][1]].operand = "label"
      /\ source[reltab[m][1]].value = reltab[m][2]
      /\ Last(reltab) = reltab[m]
  BY Patched
<1>2. PICK p : p = reltab[m][1]
  OBVIOUS
<1>3. PICK s : s = source[p]
  OBVIOUS
<1>4. /\ p \in 1 .. n /\ HasCode(p) /\ s.operand = "label" /\ s.value = reltab[m][2]
  BY <1>1, <1>2, <1>3
<1>5. /\ UNCHANGED <<vmaddr, symtab, source>>
      /\ s.value \in DOMAIN symtab
      /\ lines' = [lines EXCEPT ![p].codes = StoreValue(@, OperandAt(lines[p].codes[0]),
                                                        symtab[s.value])]
      /\ reltab' = SubSeq(reltab, 1, m - 1)
  BY <1>1, <1>2, <1>4 DEF Relocate, Front
<1>6. /\ DOMAIN lines = 1 .. n /\ Len(lines) = n /\ \A i \in 1 .. n : lines[i] \in Line
  BY Lengths
<1>7. DOMAIN lines' = 1 .. n /\ Len(lines') = n
  <2>1. lines' \in Seq(Line)
    BY RelocateTypes DEF AsmTypes
  <2>2. DOMAIN lines' = 1 .. n
    BY <1>5, <1>6
  <2>3. Len(lines') \in Nat /\ DOMAIN lines' = 1 .. Len(lines')
    BY <2>1, LenProperties
  <2> QED  BY <2>2, <2>3
<1>8. \A i \in 1 .. n : lines'[i].addr = lines[i].addr /\ lines'[i].bytes = lines[i].bytes
  <2>1. ASSUME NEW i \in 1 .. n
        PROVE  lines'[i].addr = lines[i].addr /\ lines'[i].bytes = lines[i].bytes
    <3>1. lines[i] \in Line
      BY <1>6
    <3>2. i # p => lines'[i] = lines[i]
      BY <1>5, <1>6
    <3>3. lines'[p] = [lines[p] EXCEPT !.codes = StoreValue(lines[p].codes,
                                 OperandAt(lines[p].codes[0]), symtab[s.value])]
      BY <1>4, <1>5, <1>6
    <3> QED  BY <3>1, <3>2, <3>3 DEF Line
  <2> QED  BY <2>1
<1>9. \A i \in 1 .. n + 1 : Begin(i)' = Begin(i)
  <2>1. ASSUME NEW i \in 1 .. n + 1 PROVE Begin(i)' = Begin(i)
    <3>1. i # 1 => i - 1 \in 1 .. n
      OBVIOUS
    <3> QED  BY <1>8, <3>1 DEF Begin
  <2> QED  BY <2>1
<1> DEFINE T == Nat \X {t.value : t \in ProgramText(hcl)}
<1>10. /\ reltab' \in Seq(T) /\ DOMAIN reltab' = 1 .. m - 1
       /\ \A k \in 1 .. m - 1 : reltab'[k] = reltab[k]
  <2>1. reltab \in Seq(T)
    BY DEF Shape, Uses
  <2>2. 1 <= m - 1 + 1 /\ m - 1 <= m /\ m - 1 \in Int /\ m \in 1 .. m
    BY <1>1
  <2> HIDE DEF T
  <2>3. \A k \in 1 .. m - 1 : k \in 1 .. m
    OBVIOUS
  <2>4. \A k \in 1 .. m : reltab[k] \in T
    BY <1>1, <2>1, LenProperties
  <2>5. reltab' = [k \in 1 .. m - 1 |-> reltab[k]]
    BY <1>5, <2>1
  <2>6. m - 1 \in Nat
    BY <1>1
  <2>7. reltab' \in [1 .. m - 1 -> T]
    BY <2>3, <2>4, <2>5
  <2> QED  BY <2>5, <2>6, <2>7, SeqDef
<1> HIDE DEF T
<1>11. \A k \in 1 .. m :
          /\ reltab[k][1] \in 1 .. n /\ HasCode(reltab[k][1])
          /\ source[reltab[k][1]].operand = "label" /\ reltab[k][2] = source[reltab[k][1]].value
          /\ \A l \in 1 .. m : reltab[l][1] = reltab[k][1] => l = k
  BY <1>1 DEF Shape, Uses
<1>12. /\ \A k \in 1 .. m - 1 : k \in 1 .. m /\ k # m
       /\ \A k \in 1 .. m : k # m => k \in 1 .. m - 1
       /\ m \in 1 .. m
  BY <1>1
<1>13. \A i \in 1 .. n : ToPatch(i)' <=> (ToPatch(i) /\ i # p)
  <2>1. ASSUME NEW i \in 1 .. n PROVE ToPatch(i)' <=> (ToPatch(i) /\ i # p)
    <3>1. ToPatch(i)' <=> \E k \in 1 .. m - 1 : reltab[k][1] = i
      BY <1>10 DEF ToPatch
    <3>2. ToPatch(i) <=> \E k \in 1 .. m : reltab[k][1] = i
      BY <1>1 DEF ToPatch
    <3>3. \A k \in 1 .. m : reltab[k][1] = p => k = m
      BY <1>2, <1>11, <1>12
    <3> QED  BY <1>2, <1>12, <3>1, <3>2, <3>3
  <2> QED  BY <2>1
<1>14. Uses'
  <2>1. ASSUME NEW k \in 1 .. m - 1
        PROVE  /\ reltab'[k][1] \in 1 .. n /\ HasCode(reltab[k][1])'
               /\ source'[reltab'[k][1]].operand = "label"
               /\ reltab'[k][2] = source'[reltab'[k][1]].value
               /\ \A l \in 1 .. m - 1 : reltab'[l][1] = reltab'[k][1] => l = k
    BY <1>5, <1>10, <1>11, <1>12 DEF HasCode
  <2> QED  BY <1>1, <1>5, <1>10, <2>1 DEF Uses, T
<1>15. Labels'
  <2>1. Labels
    BY DEF Shape
  <2>2. \A i \in 1 .. n : i \in 1 .. n + 1
    OBVIOUS
  <2> QED  BY <1>1, <1>5, <1>9, <2>1, <2>2 DEF Labels
<1>16. ASSUME NEW i \in 1 .. n PROVE (Accepted(source[i]) /\ Placed(i) /\ Written(i))'
  <2>1. Accepted(source[i]) /\ Placed(i) /\ Written(i)
    BY <1>1 DEF Shape
  <2>2. i \in 1 .. n + 1 /\ i + 1 \in 1 .. n + 1
    OBVIOUS
  <2>3. HasCode(i)' <=> HasCode(i)
    BY <1>5 DEF HasCode
  <2>4. (Accepted(source[i]) /\ Placed(i))'
    BY <1>5, <1>8, <1>9, <2>1, <2>2, <2>3 DEF Accepted, Placed, Behind
  <2>5. CASE i # p
    <3>1. lines'[i] = lines[i] /\ (ToPatch(i)' <=> ToPatch(i))
      BY <1>5, <1>6, <1>13, <2>5
    <3>2. Operand(source[i])' = Operand(source[i]) /\ source'[i] = source[i]
      BY <1>5 DEF Operand
    <3>3. Encoded(source[i], Operand(source[i]))' = Encoded(source[i], Operand(source[i]))
      BY <3>2 DEF Encoded, Opcodes, StoreValue
    <3>4. Opcodes(source[i])' = Opcodes(source[i])
      BY <3>2 DEF Opcodes
    <3>5. Written(i)'
      BY <1>5, <2>1, <2>3, <3>1, <3>2, <3>3, <3>4 DEF Written
    <3> QED  BY <2>4, <3>5
  <2>6. CASE i = p
    <3>1. ToPatch(p)
      BY <1>1, <1>2, <1>12 DEF ToPatch
    <3>2. lines[p].codes = Opcodes(s)
      BY <1>3, <1>4, <2>1, <2>6, <3>1 DEF Written
    <3>3. Opcodes(s)[0] = s.code
      <4>1. 0 \in 0 .. WordBytes + 1
        BY Words
      <4> QED  BY <4>1 DEF Opcodes
    <3>4. lines'[p].codes = StoreValue(Opcodes(s), OperandAt(s.code), symtab[s.value])
      <4>1. lines[p] \in [addr : Int, bytes : 0 .. WordBytes + 2, codes : Codes]
        BY <1>4, <1>6 DEF Line
      <4> DEFINE c == StoreValue(lines[p].codes, OperandAt(lines[p].codes[0]), symtab[s.value])
      <4>2. lines'[p] = [lines[p] EXCEPT !.codes = c]
        BY <1>4, <1>5, <1>6
      <4> HIDE DEF c
      <4>3. lines'[p].codes = c
        BY <4>1, <4>2
      <4> QED  BY <3>2, <3>3, <4>3 DEF c
    <3>5. Encoded(s, Operand(s)) = StoreValue(Opcodes(s), OperandAt(s.code), symtab[s.value])
      BY <1>4 DEF Encoded, Operand
    <3>6. Operand(s)' = Operand(s)
      BY <1>5 DEF Operand
    <3>7. lines'[p].codes = Encoded(s, Operand(s)')
      BY <3>4, <3>5, <3>6
    <3>8. ~ToPatch(p)'
      BY <1>4, <1>13
    <3>9. source'[p] = s /\ s.value \in DOMAIN symtab'
      BY <1>3, <1>5
    <3>10. Operand(source[p])' = Operand(s)'
      BY <3>9 DEF Operand
    <3>11. Encoded(source[p], Operand(source[p]))' = Encoded(s, Operand(s)')
      BY <3>9, <3>10 DEF Encoded, Opcodes, StoreValue
    <3>12. Written(p)'
      BY <3>7, <3>8, <3>9, <3>11 DEF Written
    <3> QED  BY <2>4, <2>6, <3>12
  <2> QED  BY <2>5, <2>6
<1>17. vmaddr' \in Nat /\ vmaddr' = Begin(Len(source) + 1)' /\ (Len(lines) = Len(source))'
  <2>1. n + 1 \in 1 .. n + 1
    OBVIOUS
  <2>2. Begin(Len(source) + 1)' = Begin(n + 1)'
    BY <1>5 DEF Begin
  <2>3. vmaddr \in Nat /\ vmaddr = Begin(n + 1)
    BY DEF Shape
  <2> QED  BY <1>5, <1>7, <1>9, <2>1, <2>2, <2>3
<1> QED  BY <1>1, <1>5, <1>14, <1>15, <1>16, <1>17 DEF Shape

LEMMA RelocateRefuses ==
  ASSUME AsmTypes, Shape, Relocate, aphase' # aphase
  PROVE  hit_error'
<1>1. PICK n \in Nat : n = Len(source)
  BY Lengths
<1>2. PICK m \in Nat : m = Len(reltab)
  BY LenProperties DEF Shape, Uses
<1>3. /\ m > 0 /\ DOMAIN source = 1 .. n
      /\ reltab[m][1] \in 1 .. n
      /\ source[reltab[m][1]].operand = "label"
      /\ source[reltab[m][1]].value = reltab[m][2]
      /\ Last(reltab) = reltab[m]
  BY <1>1, <1>2, Patched
<1>4. PICK p : p = reltab[m][1]
  OBVIOUS
<1>5. source[p].operand = "label" /\ source[p].value \notin DOMAIN symtab /\ source' = source
      /\ p \in DOMAIN source
  BY <1>3, <1>4 DEF Relocate
<1>6. source[p].value # NoLabel
  BY <1>5, Statements DEF IsStatement
<1>7. ASSUME NEW j \in DOMAIN source PROVE source[j].label # source[p].value
  BY <1>5, <1>6 DEF Shape, Labels
<1>8. Defining(source[p].value) = {}
  BY <1>7 DEF Defining
<1>9. Fails(source[p])
  BY <1>5, <1>8 DEF Fails
<1>10. hit_error
  BY <1>5, <1>9 DEF hit_error
<1> QED  BY <1>5, <1>10 DEF hit_error, Fails, Defining

LEMMA ParseLineRefuses ==
  ASSUME AsmTypes, Shape, NEW s \in ProgramText(hcl), IsStatement(s), ParseLine(s), Rejected(s),
         NEW n \in Nat, n = Len(source)
  PROVE  hit_error' \/ OnlyY64Refuses'
<1>1. source' = Append(source, s) /\ source \in Seq(ProgramText(hcl))
  BY DEF ParseLine, AsmTypes
<1>2. /\ DOMAIN source' = 1 .. n + 1 /\ source'[n + 1] = s
      /\ \A i \in 1 .. n : source'[i] = source[i] /\ i \in 1 .. n + 1 /\ i # n + 1
      /\ n + 1 \in 1 .. n + 1 /\ DOMAIN source = 1 .. n
  BY <1>1, AppendProperties, LenProperties
<1>3. CASE s.code = BAD \/ (s.code \in {D_POS, D_ALIGN} /\ s.operand = "label")
  <2>1. Fails(s)'
    BY <1>3 DEF Fails
  <2>2. \E i \in DOMAIN source' : Fails(source[i])'
    BY <1>2, <2>1 DEF Fails, Defining
  <2> QED  BY <2>2 DEF hit_error
<1>4. CASE s.label \in DOMAIN symtab
  <2>1. PICK i \in 1 .. n : source[i].label = s.label /\ s.label # NoLabel
    BY <1>2, <1>4 DEF Shape, Labels
  <2> QED  BY <1>2, <2>1 DEF OnlyY64Refuses
<1>5. CASE HI4(s.code) \in {I_JMP, I_CALL} /\ s.operand = "number"
  BY <1>2, <1>5 DEF OnlyY64Refuses
<1>6. CASE HI4(s.code) \in {I_RMMOVQ, I_MRMOVQ} /\ s.operand = "label"
  BY <1>2, <1>6 DEF OnlyY64Refuses
<1> QED  BY <1>3, <1>4, <1>5, <1>6 DEF Rejected

(* What the lines fill is bounded, and maxaddr is its end. *)
LEMMA MaxAddrBounds ==
  ASSUME AsmTypes, Shape
  PROVE  /\ maxaddr \in Int
         /\ \A i \in DOMAIN lines : lines[i].bytes > 0 =>
               lines[i].addr + lines[i].bytes <= maxaddr
<1>1. PICK n \in Nat : n = Len(source)
  BY Lengths
<1>2. DOMAIN lines = 1 .. n /\ DOMAIN source = 1 .. n
  BY <1>1, Lengths
<1> DEFINE end(i) == lines[i].addr + lines[i].bytes
<1>3. \A i \in 1 .. n : end(i) \in Nat
  <2>1. ASSUME NEW i \in 1 .. n PROVE end(i) \in Nat
    <3>1. lines[i] \in Line /\ lines[i].addr \in Nat
      BY <1>1, <1>2, Lengths DEF Shape, Placed
    <3>2. lines[i].bytes \in Nat
      BY <3>1, Words DEF Line
    <3> QED  BY <3>1, <3>2
  <2> QED  BY <2>1
<1> HIDE DEF end
<1> DEFINE S == {k \in 0 .. n : \E b \in Nat : \A i \in 1 .. k : end(i) <= b}
<1>4. 0 \in S
  OBVIOUS
<1>5. ASSUME NEW k \in 0 .. n, k < n, k \in S PROVE k + 1 \in S
  <2>1. PICK b \in Nat : \A i \in 1 .. k : end(i) <= b
    BY <1>5
  <2>2. PICK c \in Nat : c = end(k + 1)
    BY <1>3, <1>5
  <2>3. b + c \in Nat /\ \A i \in 1 .. k + 1 : end(i) <= b + c
    <3>1. ASSUME NEW i \in 1 .. k + 1 PROVE end(i) <= b + c
      <4>1. i \in 1 .. k \/ i = k + 1
        OBVIOUS
      <4>2. end(i) \in Nat
        BY <1>3, <1>5
      <4> QED  BY <2>1, <2>2, <4>1, <4>2
    <3> QED  BY <3>1
  <2> QED  BY <1>5, <2>3
<1>6. n \in S
  <2> HIDE DEF S
  <2>1. n \in 0 .. n
    OBVIOUS
  <2> QED  BY <1>4, <1>5, <2>1, Induction
<1>7. PICK b \in Nat : \A i \in 1 .. n : end(i) <= b
  BY <1>6
<1> DEFINE Ends == {lines[i].addr + lines[i].bytes :
                        i \in {j \in DOMAIN lines : lines[j].bytes > 0}} \cup {0}
<1>8. Ends \in SUBSET Nat /\ Ends # {} /\ \A t \in Ends : t <= b
  BY <1>2, <1>3, <1>7 DEF end
<1>9. maxaddr = Max(Ends)
  BY DEF maxaddr
<1> HIDE DEF Ends
<1>10. Max(Ends) \in Ends /\ \A t \in Ends : t <= Max(Ends)
  BY <1>8, MaxBounded
<1>11. ASSUME NEW i \in DOMAIN lines, lines[i].bytes > 0
       PROVE  lines[i].addr + lines[i].bytes \in Ends
  BY <1>11 DEF Ends
<1>12. ASSUME NEW i \in DOMAIN lines, lines[i].bytes > 0
       PROVE  lines[i].addr + lines[i].bytes <= maxaddr
  BY <1>9, <1>10, <1>11, <1>12
<1>13. maxaddr \in Int
  <2>1. \A x \in Ends : x \in Int
    BY <1>8
  <2>2. maxaddr \in Ends
    BY <1>9, <1>10
  <2> QED  BY <2>1, <2>2
<1> QED  BY <1>12, <1>13

LEMMA ShapeStays ==
  ASSUME Shape, UNCHANGED <<vmaddr, symtab, reltab, lines, source>>, hcl' = hcl
  PROVE  Shape'
<1>1. Labels' /\ Uses'
  <2>1. Labels /\ Uses
    BY DEF Shape
  <2> QED  BY <2>1 DEF Labels, Uses, Begin, HasCode
<1>2. ASSUME NEW i \in DOMAIN source PROVE (Accepted(source[i]) /\ Placed(i) /\ Written(i))'
  <2>1. Accepted(source[i]) /\ Placed(i) /\ Written(i)
    BY DEF Shape
  <2>2. /\ Begin(i)' = Begin(i) /\ Begin(i + 1)' = Begin(i + 1)
        /\ HasCode(i)' <=> HasCode(i)
        /\ ToPatch(i)' <=> ToPatch(i)
        /\ Operand(source[i])' = Operand(source[i])
        /\ Opcodes(source[i])' = Opcodes(source[i])
    BY DEF Begin, HasCode, ToPatch, Operand, Opcodes
  <2>3. Encoded(source[i], Operand(source[i]))' = Encoded(source[i], Operand(source[i]))
    BY <2>2 DEF Encoded, StoreValue
  <2>4. (Accepted(source[i]) /\ Placed(i))'
    BY <2>1, <2>2 DEF Accepted, Placed, Behind
  <2>5. Written(i)'
    BY <2>1, <2>2, <2>3 DEF Written
  <2> QED  BY <2>4, <2>5
<1>3. (Begin(Len(source) + 1))' = Begin(Len(source) + 1)
  BY DEF Begin
<1> QED  BY <1>1, <1>2, <1>3 DEF Shape

LEMMA CoverStays ==
  ASSUME lines' = lines
  PROVE  maxaddr' = maxaddr /\ \A a : Covering(a)' = Covering(a)
  BY DEF maxaddr, Covering

LEMMA ErrorStays ==
  ASSUME hit_error \/ OnlyY64Refuses, UNCHANGED <<lines, source>>
  PROVE  hit_error' \/ OnlyY64Refuses'
<1>1. maxaddr' = maxaddr
  BY CoverStays
<1>2. CASE hit_error
  BY <1>2 DEF hit_error, Fails, Defining
<1>3. CASE OnlyY64Refuses
  BY <1>1, <1>3 DEF OnlyY64Refuses
<1> QED  BY <1>2, <1>3

LEMMA AsmInvStays ==
  ASSUME AsmInv, UNCHANGED avars, hcl' = hcl
  PROVE  AsmInv'
<1>1. UNCHANGED <<vmaddr, symtab, reltab, lines, source, aphase, image>>
  BY DEF avars
<1>2. hcl # "full" /\ aphase \in {"assemble", "relocate", "binfile", "done"} => Shape'
  BY <1>1, ShapeStays DEF AsmInv
<1>3. aphase = "error" => hit_error' \/ OnlyY64Refuses'
  BY <1>1, ErrorStays DEF AsmInv
<1> QED  BY <1>1, <1>2, <1>3, CoverStays DEF AsmInv

LEMMA InitAsmInv == Init => AsmInv
<1> SUFFICES ASSUME Init PROVE AsmInv
  OBVIOUS
<1>1. /\ vmaddr = 0 /\ symtab = [l \in {} |-> 0] /\ reltab = <<>> /\ lines = <<>> /\ source = <<>>
      /\ aphase = "assemble"
  BY DEF Init, AsmInit
<1>2. DOMAIN source = {} /\ DOMAIN reltab = {} /\ DOMAIN symtab = {} /\ Len(source) = 0
      /\ Len(lines) = 0
  BY <1>1
<1>3. Begin(Len(source) + 1) = 0
  BY <1>2 DEF Begin
<1>4. Shape
  BY <1>1, <1>2, <1>3, EmptySeq DEF Shape, Labels, Uses
<1> QED  BY <1>1, <1>4 DEF AsmInv

LEMMA NextAsmInv ==
  ASSUME AsmTypes, AsmInv, [Next]_vars
  PROVE  AsmInv'
<1>1. CASE Read
  <2>1. hcl' = hcl
    BY <1>1 DEF Read, machines, pvars
  <2>2. PICK s \in NextStatements : IF hcl = "full" THEN NextLine(s) ELSE ParseLine(s)
    BY <1>1 DEF Read
  <2>3. s \in ProgramText(hcl) /\ IsStatement(s)
    BY NextStatementsAreText
  <2>4. CASE hcl = "full"
    BY <2>1, <2>2, <2>4 DEF NextLine, AsmInv
  <2>5. CASE hcl # "full"
    <3>1. ParseLine(s) /\ aphase = "assemble"
      BY <2>2, <2>5 DEF ParseLine
    <3>2. Shape
      BY <2>5, <3>1 DEF AsmInv
    <3>3. PICK n \in Nat : n = Len(source)
      BY <3>2, Lengths
    <3>4. CASE Rejected(s)
      <4>1. aphase' = "error"
        BY <3>1, <3>4 DEF ParseLine, Fail
      <4>2. hit_error' \/ OnlyY64Refuses'
        BY <2>3, <3>1, <3>2, <3>3, <3>4, ParseLineRefuses
      <4> QED  BY <2>1, <2>5, <4>1, <4>2 DEF AsmInv
    <3>5. CASE ~Rejected(s)
      <4>1. aphase' = "assemble"
        BY <2>3, <3>1, <3>2, <3>5, Parsed DEF Shape
      <4>2. Shape'
        BY <2>1, <2>3, <3>1, <3>2, <3>3, <3>5, ParseLineShape
      <4> QED  BY <2>1, <2>5, <4>1, <4>2 DEF AsmInv
    <3> QED  BY <3>4, <3>5
  <2> QED  BY <2>4, <2>5
<1>2. CASE Assemble
  <2>1. hcl' = hcl /\ hcl # "full" /\ Assembled
    BY <1>2 DEF Assemble, machines, pvars
  <2>2. CASE EndOfSource \/ Relocated
    <3>1. Shape /\ UNCHANGED <<vmaddr, symtab, reltab, lines, source>>
      BY <2>1, <2>2 DEF AsmInv, EndOfSource, Relocated
    <3>2. Shape'
      BY <2>1, <3>1, ShapeStays
    <3> QED  BY <2>1, <2>2, <3>2 DEF AsmInv, EndOfSource, Relocated
  <2>3. CASE Relocate
    <3>1. Shape /\ aphase = "relocate"
      BY <2>1, <2>3 DEF AsmInv, Relocate
    <3>2. CASE aphase' = aphase
      <4>1. PICK n \in Nat : n = Len(source)
        BY <3>1, Lengths
      <4>2. PICK m \in Nat : m = Len(reltab)
        BY <3>1, LenProperties DEF Shape, Uses
      <4>3. Shape'
        BY <2>1, <2>3, <3>1, <3>2, <4>1, <4>2, RelocateShape
      <4> QED  BY <2>1, <3>1, <3>2, <4>3 DEF AsmInv
    <3>3. CASE aphase' # aphase
      <4>1. aphase' = "error"
        BY <2>3, <3>3 DEF Relocate
      <4>2. hit_error'
        BY <2>3, <3>1, <3>3, RelocateRefuses
      <4> QED  BY <2>1, <4>1, <4>2 DEF AsmInv
    <3> QED  BY <3>2, <3>3
  <2>4. CASE Binfile
    <3>1. Shape /\ reltab = <<>> /\ UNCHANGED <<vmaddr, symtab, reltab, lines, source>>
      BY <2>1, <2>4 DEF AsmInv, Binfile
    <3>2. Shape'
      BY <2>1, <3>1, ShapeStays
    <3>3. maxaddr' = maxaddr /\ \A a : Covering(a)' = Covering(a)
      BY <3>1, CoverStays
    <3>4. CASE maxaddr >= MemLen
      <4>1. OnlyY64Refuses'
        BY <3>3, <3>4 DEF OnlyY64Refuses
      <4> QED  BY <2>1, <2>4, <3>4, <4>1 DEF AsmInv, Binfile
    <3>5. CASE ~(maxaddr >= MemLen)
      <4>1. maxaddr < MemLen
        <5>1. maxaddr \in Int
          BY <3>1, MaxAddrBounds
        <5> QED  BY <3>5, <5>1, Words
      <4>2. /\ aphase' = "done"
            /\ image' = [a \in 0 .. MemLen - 1 |->
                            IF Covering(a) = {} THEN 0
                            ELSE LET line == lines[Max(Covering(a))]
                                 IN  line.codes[a - line.addr]]
        BY <2>4, <3>5 DEF Binfile
      <4> QED  BY <2>1, <3>1, <3>2, <3>3, <4>1, <4>2 DEF AsmInv
    <3> QED  BY <3>4, <3>5
  <2> QED  BY <2>1, <2>2, <2>3, <2>4 DEF Assembled
<1>3. CASE Load
  <2>1. hcl' = hcl /\ aphase' = "exited"
    BY <1>3 DEF Load, finit, Exit
  <2> QED  BY <2>1 DEF AsmInv
<1>4. CASE Run
  <2>1. hcl' = hcl /\ UNCHANGED avars
    BY <1>4 DEF Run, Cycle
  <2> QED  BY <2>1, AsmInvStays
<1>5. CASE UNCHANGED vars
  <2>1. hcl' = hcl /\ UNCHANGED avars
    BY <1>5 DEF vars, pvars
  <2> QED  BY <2>1, AsmInvStays
<1> QED  BY <1>1, <1>2, <1>3, <1>4, <1>5 DEF Next

(* The code that is written is the code that is meant. *)
LEMMA EncodedAsMeant ==
  ASSUME NEW s, IsStatement(s), Coding(s), s.code # BAD, ~IsIaddq(s), NEW v \in Nat,
         s.operand # "none" => (s.code = D_DATA => v # 0),
         NEW k \in 0 .. s.bytes - 1
  PROVE  /\ s.operand # "none" /\ k >= OperandAt(s.code) =>
              /\ k <= OperandAt(s.code) + WordBytes - 1
              /\ Encoded(s, v)[k] = (v \div 256 ^ (k - OperandAt(s.code))) % 256
         /\ ~(s.operand # "none" /\ k >= OperandAt(s.code)) =>
              /\ Encoded(s, v)[k] = Opcodes(s)[k]
              /\ Opcodes(s)[k] = IF k = 0 THEN s.code ELSE s.regs
         /\ s.regs # NoLabel => OperandAt(s.code) = 2
<1> DEFINE from == OperandAt(s.code)
<1>1. from \in 0 .. 2 /\ (from = 0 <=> s.code = D_DATA)
  BY DEF OperandAt
<1>2. /\ s.bytes \in 0 .. WordBytes + 2
      /\ s.regs # NoLabel => from = 2
      /\ s.regs = NoLabel => s.bytes <= 1 \/ (s.operand # "none" /\ from < 2)
      /\ s.operand = "none" => s.bytes <= 2
      /\ s.operand # "none" /\ s.regs = NoLabel => s.bytes <= from + WordBytes
  BY DEF IsStatement, IsIaddq
<1>3. WordBytes \in Nat \ {0} /\ k \in 0 .. WordBytes + 1
  BY <1>2, Words
<1>4. Opcodes(s) = [i \in 0 .. WordBytes + 1 |->
                       IF i = 0 THEN s.code ELSE IF i = 1 /\ s.regs # NoLabel THEN s.regs ELSE 0]
  BY DEF Opcodes
<1> HIDE DEF from
<1>5. CASE s.operand # "none" /\ k >= from
  <2> DEFINE w == 256 ^ (k - from)
  <2>1. k - from \in 0 .. WordBytes + 1
    BY <1>1, <1>3, <1>5
  <2>2. w \in Nat \ {0}
    BY <2>1, Powers256
  <2>3. k <= from + WordBytes - 1
    BY <1>1, <1>2, <1>3, <1>5
  <2>4. Encoded(s, v)[k] = IF v >= w THEN (v \div w) % 256 ELSE Opcodes(s)[k]
    <3>1. k \in DOMAIN Opcodes(s)
      BY <1>3, <1>4
    <3> QED  BY <1>5, <3>1 DEF Encoded, StoreValue, from
  <2>5. CASE v >= w
    BY <2>3, <2>4, <2>5, <1>2, <1>5 DEF from
  <2>6. CASE ~(v >= w)
    <3>1. (v \div w) % 256 = 0
      <4> HIDE DEF w
      <4>1. v \div w = 0
        BY <2>2, <2>6
      <4> QED  BY <4>1
    <3>2. k # 0
      <4>1. ASSUME k = 0 PROVE FALSE
        <5>1. from = 0 /\ k - from = 0
          BY <1>1, <1>5, <4>1
        <5>2. w = 1
          BY <5>1, PowerAssumption DEF PowerAssumption
        <5> QED  BY <1>1, <1>5, <2>6, <5>1, <5>2
      <4> QED  BY <4>1
    <3>3. k = 1 => s.regs = NoLabel
      BY <1>1, <1>2, <1>5
    <3>4. Opcodes(s)[k] = 0
      BY <1>3, <1>4, <3>2, <3>3
    <3> QED  BY <1>2, <1>5, <2>3, <2>4, <2>6, <3>1, <3>4 DEF from
  <2> QED  BY <2>5, <2>6
<1>6. CASE ~(s.operand # "none" /\ k >= from)
  <2>1. Encoded(s, v)[k] = Opcodes(s)[k]
    <3>1. k \in DOMAIN Opcodes(s)
      BY <1>3, <1>4
    <3> QED  BY <1>6, <3>1 DEF Encoded, StoreValue, from
  <2>2. k # 0 => k = 1 /\ s.regs # NoLabel
    BY <1>1, <1>2, <1>3, <1>6
  <2>3. Opcodes(s)[k] = IF k = 0 THEN s.code ELSE s.regs
    BY <1>3, <1>4, <2>2
  <2> QED  BY <1>2, <1>6, <2>1, <2>3 DEF from
<1> QED  BY <1>5, <1>6

(* yas counts the same places. *)
LEMMA SamePlaces ==
  ASSUME AsmTypes, Shape, NEW n \in Nat, n = Len(source)
  PROVE  \A i \in 1 .. n + 1 : bytepos[i] = Begin(i)
<1> DEFINE Eq(g) == g = [i \in 1 .. n + 1 |-> IF i = 1 THEN 0 ELSE Behind(g[i - 1], source[i - 1])]
           val == CHOOSE g : Eq(g)
           f == [i \in 1 .. n + 1 |-> Begin(i)]
<1>1. bytepos = val
  BY DEF bytepos
<1>2. Begin(1) = 0 /\ \A i \in 1 .. n : Begin(i + 1) = Behind(Begin(i), source[i])
  <2>1. \A i \in 1 .. n : Placed(i)
    BY Lengths DEF Shape
  <2> QED  BY <2>1 DEF Placed, Begin
<1>3. \A i \in 1 .. n + 1 : i # 1 => i - 1 \in 1 .. n /\ i - 1 + 1 = i /\ i - 1 \in 1 .. n + 1
  OBVIOUS
<1>4. Eq(f)
  <2>1. \A i \in 1 .. n + 1 : f[i] = IF i = 1 THEN 0 ELSE Behind(f[i - 1], source[i - 1])
    <3>1. ASSUME NEW i \in 1 .. n + 1
          PROVE  f[i] = IF i = 1 THEN 0 ELSE Behind(f[i - 1], source[i - 1])
      <4>1. CASE i = 1
        BY <1>2, <4>1
      <4>2. CASE i # 1
        <5>1. f[i] = Begin(i) /\ f[i - 1] = Begin(i - 1)
          BY <1>3, <4>2
        <5> HIDE DEF f
        <5>2. Begin(i - 1 + 1) = Behind(Begin(i - 1), source[i - 1])
          BY <1>2, <1>3, <4>2
        <5>3. i - 1 + 1 = i
          BY <1>3, <4>2
        <5> QED  BY <4>2, <5>1, <5>2, <5>3
      <4> QED  BY <4>1, <4>2
    <3> QED  BY <3>1
  <2>2. f = [i \in 1 .. n + 1 |-> f[i]]
    OBVIOUS
  <2> HIDE DEF f
  <2> QED  BY <2>1, <2>2, Zenon
<1>5. Eq(val)
  <2> HIDE DEF Eq, f
  <2> QED  BY <1>4
<1> HIDE DEF val, f
<1>6. \A i \in 1 .. n + 1 : val[i] = IF i = 1 THEN 0 ELSE Behind(val[i - 1], source[i - 1])
  BY <1>5
<1> HIDE DEF Eq
<1> DEFINE S == {k \in 0 .. n : val[k + 1] = Begin(k + 1)}
<1>7. 0 \in S
  <2>1. 1 \in 1 .. n + 1
    OBVIOUS
  <2> QED  BY <1>2, <1>6, <2>1
<1>8. ASSUME NEW k \in 0 .. n, k < n, k \in S PROVE k + 1 \in S
  <2>1. /\ k + 1 \in 1 .. n /\ k + 2 \in 1 .. n + 1 /\ k + 2 # 1 /\ k + 2 - 1 = k + 1
        /\ k + 1 \in 0 .. n /\ k + 1 + 1 = k + 2
    BY <1>8
  <2>2. val[k + 2] = Behind(val[k + 1], source[k + 1])
    BY <1>6, <2>1
  <2>3. val[k + 1] = Begin(k + 1)
    BY <1>8
  <2>4. Begin(k + 1 + 1) = Behind(Begin(k + 1), source[k + 1])
    BY <1>2, <2>1
  <2> QED  BY <2>1, <2>2, <2>3, <2>4
<1>9. \A k \in 0 .. n : k \in S
  <2> HIDE DEF S
  <2> QED  BY <1>7, <1>8, Induction
<1>10. ASSUME NEW i \in 1 .. n + 1 PROVE bytepos[i] = Begin(i)
  <2>1. i - 1 \in 0 .. n /\ i - 1 + 1 = i
    OBVIOUS
  <2>2. i - 1 \in S
    BY <1>9, <2>1
  <2> QED  BY <1>1, <2>1, <2>2
<1> QED  BY <1>10

(* Everything is patched: what the image holds. *)
LEMMA Settled ==
  ASSUME AsmTypes, AsmInv, hcl # "full", aphase = "done", DataNotZero,
         NEW n \in Nat, n = Len(source), NEW i \in 1 .. n, HasCode(i)
  PROVE  /\ Operand(source[i]) \in Nat /\ Value(source[i]) = Operand(source[i])
         /\ source[i].operand = "label" =>
               \E j \in 1 .. n : /\ source[j].label = source[i].value
                                 /\ \A h \in 1 .. n : source[h].label = source[i].value => h = j
                                 /\ Operand(source[i]) = Begin(j)
         /\ lines[i].codes = Encoded(source[i], Operand(source[i]))
         /\ lines[i].addr = Begin(i) /\ lines[i].bytes = source[i].bytes
         /\ bytepos[i] = Begin(i)
         /\ \A k \in 0 .. source[i].bytes - 1 :
               /\ source[i].operand # "none" /\ k >= OperandAt(source[i].code) =>
                    /\ k <= OperandAt(source[i].code) + WordBytes - 1
                    /\ lines[i].codes[k] = (Operand(source[i])
                                              \div 256 ^ (k - OperandAt(source[i].code))) % 256
               /\ ~(source[i].operand # "none" /\ k >= OperandAt(source[i].code)) =>
                    /\ lines[i].codes[k] = Opcodes(source[i])[k]
                    /\ Opcodes(source[i])[k] = IF k = 0 THEN source[i].code ELSE source[i].regs
         /\ source[i].regs # NoLabel => OperandAt(source[i].code) = 2
<1>1. Shape /\ reltab = <<>>
  BY DEF AsmInv
<1>2. DOMAIN source = 1 .. n /\ i \in 1 .. n + 1
  BY <1>1, Lengths
<1>3. IsStatement(source[i]) /\ ~IsIaddq(source[i])
  BY <1>2, Statements
<1>4. /\ Accepted(source[i]) /\ Placed(i) /\ Written(i) /\ Labels
  BY <1>1, <1>2 DEF Shape
<1>5. ~ToPatch(i)
  BY <1>1 DEF ToPatch
<1>6. /\ source[i].operand = "label" => source[i].value \in DOMAIN symtab
      /\ lines[i].codes = Encoded(source[i], Operand(source[i]))
  BY <1>4, <1>5 DEF Written
<1>7. lines[i].addr = Begin(i) /\ lines[i].bytes = source[i].bytes
  BY <1>4 DEF Placed
<1>8. bytepos[i] = Begin(i)
  BY <1>1, <1>2, SamePlaces
<1>9. ASSUME source[i].operand = "label"
      PROVE  /\ Operand(source[i]) \in Nat /\ Value(source[i]) = Operand(source[i])
             /\ \E j \in 1 .. n : /\ source[j].label = source[i].value
                                  /\ \A h \in 1 .. n : source[h].label = source[i].value => h = j
                                  /\ Operand(source[i]) = Begin(j)
  <2>1. PICK x : x = source[i].value
    OBVIOUS
  <2>2. x \in DOMAIN symtab
    BY <1>6, <1>9, <2>1
  <2>3. PICK j \in 1 .. n : source[j].label = x /\ x # NoLabel
    BY <1>2, <1>4, <2>2 DEF Labels
  <2>4. symtab[x] = Begin(j) /\ \A h \in 1 .. n : source[h].label = x => h = j
    BY <1>2, <1>4, <2>3 DEF Labels
  <2>5. Operand(source[i]) = Begin(j)
    BY <1>9, <2>1, <2>4 DEF Operand
  <2>6. Begin(j) \in Nat
    <3>1. CASE j = 1
      BY <3>1 DEF Begin
    <3>2. CASE j # 1
      <4>1. j - 1 \in 1 .. n
        BY <3>2
      <4>2. lines[j - 1] \in Line /\ lines[j - 1].addr \in Nat
        BY <1>1, <1>2, <4>1, Lengths DEF Shape, Placed
      <4>3. lines[j - 1].bytes \in Nat
        BY <4>2, Words DEF Line
      <4> QED  BY <3>2, <4>2, <4>3 DEF Begin
    <3> QED  BY <3>1, <3>2
  <2>7. Defining(x) = {j}
    BY <1>2, <2>3, <2>4 DEF Defining
  <2>8. Min({j}) = j
    <3>1. {j} \in SUBSET Nat /\ {j} # {}
      OBVIOUS
    <3>2. Min({j}) \in {j}
      BY <3>1, MinMember
    <3> QED  BY <3>2
  <2>9. find_symbol(x) = bytepos[j]
    BY <2>7, <2>8 DEF find_symbol
  <2>10. bytepos[j] = Begin(j)
    <3>1. j \in 1 .. n + 1
      OBVIOUS
    <3> QED  BY <1>1, <3>1, SamePlaces
  <2> QED  BY <1>9, <2>1, <2>3, <2>4, <2>5, <2>6, <2>9, <2>10 DEF Value
<1>10. source[i].operand # "label" =>
          Operand(source[i]) \in Nat /\ Value(source[i]) = Operand(source[i])
  BY <1>3, WordsAreInt DEF Operand, Value, IsStatement
<1>11. Operand(source[i]) \in Nat /\ Value(source[i]) = Operand(source[i])
  BY <1>9, <1>10
<1>12. source[i].code = D_DATA => Operand(source[i]) # 0
  BY <1>2, <1>11 DEF DataNotZero
<1>13. Coding(source[i]) /\ source[i].code # BAD
  BY <1>4 DEF Accepted, Coding, HasCode
<1>14. source[i].regs # NoLabel => OperandAt(source[i].code) = 2
  BY <1>3 DEF IsStatement, IsIaddq
<1>15. ASSUME NEW k \in 0 .. source[i].bytes - 1
       PROVE  /\ source[i].operand # "none" /\ k >= OperandAt(source[i].code) =>
                    /\ k <= OperandAt(source[i].code) + WordBytes - 1
                    /\ lines[i].codes[k] = (Operand(source[i])
                                              \div 256 ^ (k - OperandAt(source[i].code))) % 256
              /\ ~(source[i].operand # "none" /\ k >= OperandAt(source[i].code)) =>
                    /\ lines[i].codes[k] = Opcodes(source[i])[k]
                    /\ Opcodes(source[i])[k] = IF k = 0 THEN source[i].code ELSE source[i].regs
  BY <1>3, <1>6, <1>11, <1>12, <1>13, <1>15, EncodedAsMeant
<1> QED  BY <1>6, <1>7, <1>8, <1>9, <1>11, <1>14, <1>15

LEMMA WrittenAsMeant ==
  ASSUME AsmTypes, AsmInv, hcl # "full", DataNotZero
  PROVE  AssembledAsWritten
<1> SUFFICES ASSUME aphase = "done", NEW i \in DOMAIN source
             PROVE  /\ \A j \in 1 .. i - 1 :
                          source[i].label = NoLabel \/ source[i].label # source[j].label
                    /\ \A k \in 0 .. lines[i].bytes - 1 :
                          LET a == lines[i].addr + k
                          IN  Max(Covering(a)) = i => image[a] = Expected(source[i], k)
  BY DEF AssembledAsWritten
<1>1. Shape
  BY DEF AsmInv
<1>2. PICK n \in Nat : n = Len(source)
  BY <1>1, Lengths
<1>3. DOMAIN source = 1 .. n /\ DOMAIN lines = 1 .. n /\ i \in 1 .. n
  BY <1>1, <1>2, Lengths
<1>4. ASSUME NEW j \in 1 .. i - 1, source[i].label # NoLabel
      PROVE  source[i].label # source[j].label
  <2>1. j \in 1 .. n /\ j # i
    BY <1>3
  <2> QED  BY <1>1, <1>3, <1>4, <2>1 DEF Shape, Labels
<1>5. ASSUME NEW k \in 0 .. lines[i].bytes - 1, Max(Covering(lines[i].addr + k)) = i
      PROVE  image[lines[i].addr + k] = Expected(source[i], k)
  <2>1. Placed(i) /\ lines[i] \in Line
    BY <1>1, <1>2, <1>3, Lengths DEF Shape
  <2>2. lines[i].bytes \in Nat /\ lines[i].addr \in Nat
    BY <2>1, Words DEF Line, Placed
  <2>3. PICK a : a = lines[i].addr + k
    OBVIOUS
  <2>4. lines[i].bytes > 0 /\ k \in Nat /\ a - lines[i].addr = k /\ a \in Nat
        /\ a < lines[i].addr + lines[i].bytes
    BY <1>5, <2>2, <2>3
  <2>5. HasCode(i)
    BY <2>1, <2>4 DEF Placed
  <2>6. Covering(a) # {}
    <3>1. a \in lines[i].addr .. lines[i].addr + lines[i].bytes - 1
      BY <2>2, <2>4
    <3> QED  BY <1>3, <3>1 DEF Covering
  <2>7. a \in 0 .. MemLen - 1
    <3>1. lines[i].addr + lines[i].bytes <= maxaddr /\ maxaddr \in Int /\ maxaddr < MemLen
      BY <1>1, <1>3, <2>4, MaxAddrBounds DEF AsmInv
    <3> QED  BY <2>2, <2>4, <3>1, Words
  <2>8. image[a] = lines[i].codes[k]
    <3>1. image = [x \in 0 .. MemLen - 1 |->
                     IF Covering(x) = {} THEN 0
                     ELSE LET line == lines[Max(Covering(x))] IN line.codes[x - line.addr]]
      BY DEF AsmInv
    <3>2. image[a] = lines[Max(Covering(a))].codes[a - lines[Max(Covering(a))].addr]
      BY <2>6, <2>7, <3>1
    <3>3. Max(Covering(a)) = i
      BY <1>5, <2>3
    <3> QED  BY <2>4, <3>2, <3>3
  <2> DEFINE s == source[i]
             from == OperandAt(s.code)
  <2>9. k \in 0 .. s.bytes - 1
    BY <1>2, <1>3, <2>5, Settled
  <2>10. /\ s.operand # "none" /\ k >= from =>
              /\ k <= from + WordBytes - 1
              /\ lines[i].codes[k] = (Operand(s) \div 256 ^ (k - from)) % 256
         /\ ~(s.operand # "none" /\ k >= from) => lines[i].codes[k] = Opcodes(s)[k]
    BY <1>2, <1>3, <2>5, <2>9, Settled
  <2>11. Operand(s) = IF s.operand = "label" THEN Begin(LineOf(s.value)) ELSE s.value
    <3>1. CASE s.operand = "label"
      <4>1. PICK j \in 1 .. n : /\ source[j].label = s.value
                                /\ \A h \in 1 .. n : source[h].label = s.value => h = j
                                /\ Operand(s) = Begin(j)
        BY <1>2, <1>3, <2>5, <3>1, Settled
      <4>2. LineOf(s.value) = j
        BY <1>3, <4>1 DEF LineOf
      <4> QED  BY <3>1, <4>1, <4>2
    <3>2. CASE s.operand # "label"
      BY <3>2 DEF Operand
    <3> QED  BY <3>1, <3>2
  <2>12. from \in 0 .. 2 /\ WordBytes \in Nat
    BY OperandPlace, Words
  <2> DEFINE v == IF s.operand = "label" THEN Begin(LineOf(s.value)) ELSE s.value
  <2>13. Expected(s, k) = IF s.operand # "none" /\ k \in from .. from + WordBytes - 1
                          THEN (v \div 256 ^ (k - from)) % 256 ELSE Opcodes(s)[k]
    BY DEF Expected
  <2>14. v = Operand(s)
    BY <2>11
  <2> HIDE DEF v, from, s
  <2>15. k \in from .. from + WordBytes - 1 <=> (k >= from /\ k <= from + WordBytes - 1)
    BY <2>4, <2>12
  <2>16. lines[i].codes[k] = Expected(s, k)
    BY <2>10, <2>13, <2>14, <2>15
  <2> QED  BY <2>3, <2>8, <2>16 DEF s
<1> QED  BY <1>4, <1>5

LEMMA BothAgree ==
  ASSUME AsmTypes, AsmInv, hcl # "full", aphase = "done", DataNotZero
  PROVE  ~hit_error /\ yo_image = image
<1>1. Shape
  BY DEF AsmInv
<1>2. PICK n \in Nat : n = Len(source)
  BY <1>1, Lengths
<1>3. DOMAIN source = 1 .. n /\ DOMAIN lines = 1 .. n
  BY <1>1, <1>2, Lengths
<1>4. ASSUME NEW i \in 1 .. n PROVE ~Fails(source[i])
  <2>1. Accepted(source[i]) /\ IsStatement(source[i])
    BY <1>1, <1>3, Statements DEF Shape
  <2>2. ASSUME source[i].operand = "label" PROVE Defining(source[i].value) # {}
    <3>1. HasCode(i)
      BY <2>1, <2>2 DEF HasCode, Accepted, IsStatement
    <3>2. \E j \in 1 .. n : source[j].label = source[i].value
      BY <1>2, <2>2, <3>1, Settled
    <3> QED  BY <1>3, <3>2 DEF Defining
  <2> QED  BY <2>1, <2>2 DEF Fails, Accepted
<1>5. ASSUME NEW a \in 0 .. MemLen - 1 PROVE LinesAt(a) = Covering(a)
  <2>1. ASSUME NEW i \in 1 .. n
        PROVE  (HasCode(i) /\ a \in bytepos[i] .. bytepos[i] + source[i].bytes - 1)
                  <=> a \in lines[i].addr .. lines[i].addr + lines[i].bytes - 1
    <3>1. CASE HasCode(i)
      <4>1. lines[i].addr = Begin(i) /\ lines[i].bytes = source[i].bytes /\ bytepos[i] = Begin(i)
        BY <1>2, <3>1, Settled
      <4> QED  BY <3>1, <4>1
    <3>2. CASE ~HasCode(i)
      <4>1. lines[i].bytes = 0 /\ lines[i].addr \in Nat
        BY <1>1, <1>3, <3>2 DEF Shape, Placed
      <4> QED  BY <3>2, <4>1
    <3> QED  BY <3>1, <3>2
  <2> QED  BY <1>3, <2>1 DEF LinesAt, Covering
<1>6. ASSUME NEW a \in 0 .. MemLen - 1, Covering(a) # {}, NEW i, i = Max(Covering(a))
      PROVE  CodeByte(source[i], a - bytepos[i]) = lines[i].codes[a - lines[i].addr]
  <2>1. i \in Covering(a)
    <3>1. Covering(a) \in SUBSET Nat /\ \A t \in Covering(a) : t <= n
      BY <1>3 DEF Covering
    <3> QED  BY <1>6, <3>1, MaxBounded
  <2>2. i \in 1 .. n /\ a \in lines[i].addr .. lines[i].addr + lines[i].bytes - 1
    BY <1>3, <2>1 DEF Covering
  <2>3. Placed(i) /\ lines[i] \in Line
    BY <1>1, <1>2, <1>3, <2>2, Lengths DEF Shape
  <2>4. lines[i].bytes \in Nat /\ lines[i].addr \in Nat
    BY <2>3, Words DEF Line, Placed
  <2>5. HasCode(i)
    BY <2>2, <2>3, <2>4 DEF Placed
  <2>6. /\ lines[i].addr = Begin(i) /\ lines[i].bytes = source[i].bytes /\ bytepos[i] = Begin(i)
        /\ Value(source[i]) = Operand(source[i])
        /\ source[i].regs # NoLabel => OperandAt(source[i].code) = 2
    BY <1>2, <2>2, <2>5, Settled
  <2>7. PICK k : k = a - lines[i].addr
    OBVIOUS
  <2>8. k \in 0 .. source[i].bytes - 1 /\ a - bytepos[i] = k
    BY <2>2, <2>4, <2>6, <2>7
  <2>9. PICK s : s = source[i]
    OBVIOUS
  <2>10. /\ s.operand # "none" /\ k >= OperandAt(s.code) =>
              lines[i].codes[k] = (Value(s) \div 256 ^ (k - OperandAt(s.code))) % 256
         /\ ~(s.operand # "none" /\ k >= OperandAt(s.code)) =>
              lines[i].codes[k] = IF k = 0 THEN s.code ELSE s.regs
    BY <1>2, <2>2, <2>5, <2>6, <2>8, <2>9, Settled
  <2>11. (IF s.regs # NoLabel THEN 2 ELSE OperandAt(s.code)) = OperandAt(s.code)
    BY <2>6, <2>9
  <2>12. CodeByte(s, k) = IF s.operand # "none" /\ k >= OperandAt(s.code)
                          THEN (Value(s) \div 256 ^ (k - OperandAt(s.code))) % 256
                          ELSE IF k = 0 THEN s.code ELSE s.regs
    BY <2>11 DEF CodeByte
  <2>13. CodeByte(s, k) = lines[i].codes[k]
    BY <2>10, <2>12
  <2> QED  BY <2>7, <2>8, <2>9, <2>13
<1>7. image = [a \in 0 .. MemLen - 1 |->
                 IF Covering(a) = {} THEN 0
                 ELSE LET line == lines[Max(Covering(a))] IN line.codes[a - line.addr]]
  BY DEF AsmInv
<1>8. ASSUME NEW a \in 0 .. MemLen - 1
      PROVE  (IF LinesAt(a) = {} THEN 0
              ELSE LET i == Max(LinesAt(a)) IN CodeByte(source[i], a - bytepos[i]))
             = (IF Covering(a) = {} THEN 0
                ELSE LET line == lines[Max(Covering(a))] IN line.codes[a - line.addr])
  <2>1. LinesAt(a) = Covering(a)
    BY <1>5
  <2>2. PICK i : i = Max(Covering(a))
    OBVIOUS
  <2>3. Covering(a) # {} =>
          CodeByte(source[i], a - bytepos[i]) = lines[i].codes[a - lines[i].addr]
    BY <1>6, <2>2
  <2> QED  BY <2>1, <2>2, <2>3
<1>9. yo_image = image
  BY <1>7, <1>8 DEF yo_image
<1> QED  BY <1>3, <1>4, <1>9 DEF hit_error

LEMMA RightNow ==
  ASSUME AsmTypes, AsmInv, aphase = "done" => DataNotZero
  PROVE  AssembledRight
<1>1. CASE aphase = "done"
  <2>1. hcl # "full"
    BY <1>1 DEF AsmInv
  <2> QED  BY <1>1, <2>1, WrittenAsMeant, BothAgree DEF AssembledRight, AssemblersAgree
<1>2. CASE aphase # "done"
  BY <1>2 DEF AssembledRight, AssembledAsWritten, AssemblersAgree, AsmInv
<1> QED  BY <1>1, <1>2

(* The assembler of lab6 makes of every program what it says, wherever its  *)
(* labels are defined and used, and yas makes the same image and refuses    *)
(* the same programs, as long as no data line has the value 0: there lab6   *)
(* leaves the code of the directive.                                        *)
THEOREM AssemblersAreRight ==
  Spec /\ [](aphase = "done" => DataNotZero) => []AssembledRight
<1>1. Spec => []Types
  BY TypesHold
<1>2. ASSUME Types, AsmInv, [Next]_vars PROVE AsmInv'
  BY <1>2, NextAsmInv DEF Types
<1>3. ASSUME Types, AsmInv, aphase = "done" => DataNotZero PROVE AssembledRight
  BY <1>3, RightNow DEF Types
<1> QED  BY <1>1, <1>2, <1>3, InitAsmInv, PTL DEF Spec
=============================================================================
