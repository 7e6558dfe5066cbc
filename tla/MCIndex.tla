------------------------------ MODULE MCIndex --------------------------------
(***************************************************************************)
(* The data structures and small programs side by side, each driven as its *)
(* own caller drives it: the skip list, the red-black tree, the three trees*)
(* that share an interface, the two kinds of files of the store, the index *)
(* of nearest neighbours, the tasks, the Huffman coder, selection.  which  *)
(* chooses the one that runs; the others stay as they are.                 *)
(***************************************************************************)
EXTENDS SkipList

CONSTANTS Data, Guarded,                \* of the red-black tree
          TreeValue, MaxLen, Uninit,    \* of the trees of lab1
          TableKey,                     \* of a table file
          Lens, Chunks, MaxHead, MaxKills,      \* of the value log
          Tasks, maxThreads,            \* of the tasks
          Char, MaxText,                \* of the Huffman coder
          Item, Size                    \* of selection

VARIABLES which,
          root, color, parent, child, f, pc, pt, turns,
          kind, tree, members,
          list, bits, written, file, opened, behind,
          log, data, entry, current, mem, tail, head, at, end, tailIn, map, kills,
          level, edges, entrance, seq, par, hpc, query, found, added, raced,
          tpc, asked, result, currentThreads,
          text, option, codingTable, loaded, coded,
          A, before, last_call, kth, answer

(* A word as int32_t. *)
Signed(word) == IF word < 2 ^ (MaxLen - 1) THEN word ELSE word - 2 ^ MaxLen

RB == INSTANCE RBTree
T == INSTANCE TreeSet WITH Value <- {Signed(word) : word \in TreeValue}
F == INSTANCE TableFile WITH Hash <- [k \in TableKey |-> {k, (5 * k) % 16}], Mod <- 16,
                             HeadSize <- 2, EntrySize <- 3, FilterByte <- 2, PageSize <- 4
V == INSTANCE VLogFile WITH Key <- {1, 2}, MAX_NUM <- 2, PAGE_SIZE <- 4, HEAD_LEN <- 2,
                            pc <- at, last <- end
H == INSTANCE Hnsw WITH Base <- <<0, 1, 4, 9, 11>>, Query <- <<3, 8, 12>>, m_L <- 3,
                        M <- 2, M_max <- 2, ef_construction <- 3, ef_search <- 3, K <- 3,
                        threadNum <- 2, pc <- hpc, next <- query
P == INSTANCE FibTasks WITH N <- Tasks, n <- asked, pc <- tpc, val <- result
C == INSTANCE Huffman WITH ByteBits <- 4, file <- coded
S == INSTANCE Select WITH Q <- 2, last <- last_call, k <- kth, result <- answer

rb_vars == <<root, color, parent, child, f, pc, pt, turns>>
tree_vars == <<kind, tree, members>>
file_vars == <<list, bits, written, file, opened, behind>>
log_vars == <<log, data, entry, current, mem, tail, head, at, end, tailIn, map, kills>>

hnsw_vars == <<level, edges, entrance, seq, par, hpc, query, found, added, raced>>
task_vars == <<tpc, asked, result, currentThreads>>
text_vars == <<text, option, codingTable, loaded, coded>>
array_vars == <<A, before, last_call, kth, answer>>

structures == <<vars, rb_vars, tree_vars, file_vars, log_vars>>
programs == <<hnsw_vars, task_vars, text_vars, array_vars>>

IndexInit ==
    /\ which \in {"list", "rbtree", "trees", "table", "log", "hnsw", "tasks", "text", "array"}
    /\ Init /\ RB!Init /\ T!Init /\ F!Init /\ V!Init /\ H!Init /\ P!Init /\ C!Init
    /\ IF which = "array" THEN S!Init ELSE S!Blank
    /\ which # "trees" => kind = "Set"

Structures ==
    /\ UNCHANGED programs
    /\ \/ which = "list" /\ Next /\ UNCHANGED <<rb_vars, tree_vars, file_vars, log_vars>>
       \/ which = "rbtree" /\ RB!Next /\ UNCHANGED <<vars, tree_vars, file_vars, log_vars>>
       \/ which = "trees" /\ T!Next /\ UNCHANGED <<vars, rb_vars, file_vars, log_vars>>
       \/ which = "table" /\ F!Next /\ UNCHANGED <<vars, rb_vars, tree_vars, log_vars>>
       \/ which = "log" /\ V!Next /\ UNCHANGED <<vars, rb_vars, tree_vars, file_vars>>

Programs ==
    /\ UNCHANGED structures
    /\ \/ which = "hnsw" /\ H!Next /\ UNCHANGED <<task_vars, text_vars, array_vars>>
       \/ which = "tasks" /\ P!Next /\ UNCHANGED <<hnsw_vars, text_vars, array_vars>>
       \/ which = "text" /\ C!Next /\ UNCHANGED <<hnsw_vars, task_vars, array_vars>>
       \/ which = "array" /\ S!Next /\ UNCHANGED <<hnsw_vars, task_vars, text_vars>>

IndexNext == UNCHANGED which /\ (Structures \/ Programs)

IndexSpec == /\ IndexInit
             /\ [][IndexNext]_<<which, structures, programs>>
             /\ WF_vars(Step)
             /\ WF_task_vars(which = "tasks" /\ P!Next)

(* RBTree: at every turn of a repair the tree keeps its numbers in order   *)
(* and the red-black conditions, but where the loop stands; it follows no  *)
(* parent that is not there, and ends after two rotations at most.         *)
RBNoNullFollowed == RB!NoNullFollowed
RBSound == RB!Ordered /\ RB!Balanced /\ RB!FewRotations /\ RBNoNullFollowed

(* TreeSet: find is true of what has been inserted and not removed since,  *)
(* of the compressed tree for values that are not negative only; and       *)
(* balance, compression and counters are right after every call.           *)
TreesRight == T!FindsMembers /\ T!ShapeKept

(* TreeSet: so it is for every int32_t.                                    *)
TreeFindsAll == T!FindsAll

(* TreeSet: the height that is told is the height of the tree.             *)
TreeHeightTold == T!HeightTold

(* TreeSet: no write goes outside the children of a node.                  *)
TreeInBounds == T!InBounds

(* TableFile: a table finds the keys it holds, and no others.              *)
TableAnswersRight == F!AnswersRight

(* TableFile: so it does wherever its writer was killed.                   *)
TableSurvivesKill == F!SurvivesKill

(* VLogFile: tail is where the log begins, after a restart too, and a scan *)
(* of a log that is not one hole stays in its mapping.                     *)
LogSound == V!TailIsFirst /\ V!ScansStayMapped

(* VLogFile: no scan leaves its mapping.                                   *)
LogNeverFaults == V!NeverFaults

(* The files of the store, whoever was killed.                             *)
FilesSound == TableAnswersRight /\ LogSound

(* Hnsw: the graph keeps its degrees and levels; a query answers with K    *)
(* items, and the threads with what the queries one by one had answered,   *)
(* because none of them writes to the graph; the answers all arrive unless *)
(* two threads store theirs at one time.  Select: the k-th smallest, of    *)
(* quickSelect only where it has lost no element.                          *)
AnswersRight ==
    /\ H!GraphSound /\ H!AnswersFull /\ H!GraphLeftAlone /\ H!SameAnswers
    /\ S!SelectsRight

(* Huffman: a text comes back from the file, in as few bits as any code    *)
(* needs.  FibTasks: the number is right, and nothing runs on behind it.   *)
ProgramsRight == C!RoundTrip /\ C!CodeOptimal /\ P!ResultRight

(* Hnsw: no two threads write their answers at one time.                   *)
StoresAlone == H!StoresAlone

(* Hnsw: no answer of a thread is lost.                                    *)
AllStored == H!AllStored

(* FibTasks: there are never more threads than maxThreads.                 *)
ThreadsLimited == P!ThreadsLimited

(* Huffman: compress finds every symbol of the text.                       *)
EveryTextEncodes == C!EveryTextEncodes

(* Select: quickSelect answers with the k-th smallest, ...                 *)
QuickSelectsRight == S!QuickSelectsRight

(* ... and loses no element.                                               *)
QuickKeepsElements == S!QuickKeepsElements

(* A call of the skip list comes back, and so does the first of the tasks. *)
CallsEnd == CallsReturn /\ (which = "tasks" ~> P!Ended)
=============================================================================
