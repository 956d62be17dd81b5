--------------------------- MODULE FileTreeProofs ---------------------------
(***************************************************************************)
(* Proofs about FileTree, for any tree, any number of processes and any    *)
(* stack with room for the longest path:                                   *)
(*   - what a remove deletes lies in its tree or where a link in it leads, *)
(*     whatever others do to the tree meanwhile;                           *)
(*   - processes that make directories and paths in the same places never  *)
(*     make each other throw;                                              *)
(*   - the recursion of remove and of make_path ends before the stack does;*)
(*   - processes that remove the same tree, or make the same FIFO, never   *)
(*     all throw;                                                          *)
(*   - what a call made is there when it returns, as it was asked for.     *)
(*                                                                         *)
(* An invariant each: FileInv says what frames a call has, and that they   *)
(* and the children they have still to look at lie within reach.  PathInv  *)
(* says that the way to the path of a call stays open.  NestInv says how   *)
(* the paths of a stack lie in each other, which bounds their number.      *)
(* RemoveInv and FifoInv say what each frame knows of the tree, however    *)
(* old that is, and that some process finds what it needs.  MadeInv says   *)
(* that what a frame has found or made stays.                              *)
(***************************************************************************)
EXTENDS FileTree, SequenceTheorems, FiniteSetTheorems, TLAPS

\* The places of a remove.
RemovePlaces == {"is_directory", "directory", "next", "rmdir", "unlink"}

\* The frames that the call c may have on its stack.
FramesOf(c) ==
    {f \in Frame :
        IF c.op = "remove"
        THEN /\ f.at \in RemovePlaces
             /\ f.file \in Reach[c.file]
             /\ f.childs \subseteq Reach[c.file]
        ELSE /\ f.at \notin RemovePlaces
             /\ f.at = "father" => f.file # Root}

\* A process in a call has a stack, made of the frames of that call.
StackInv ==
    /\ outcome \in [Procs -> {"none", "running", "returned", "threw", "crashed"}]
    /\ call \in [Procs -> Calls \cup {NoCall}]
    /\ stack = [p \in Procs |-> stack[p]]
    /\ \A p \in Procs :
        IF outcome[p] = "running"
        THEN /\ call[p] \in Calls
             /\ stack[p] \in Seq(FramesOf(call[p]))
             /\ stack[p] # <<>>
        ELSE stack[p] = <<>>

\* The root stays, and links stay where they may be.
TreeInv ==
    /\ kind \in [Nodes -> Kinds]
    /\ mode \in [Nodes -> SUBSET Rights]
    /\ harm \in [Procs -> SUBSET Harms]
    /\ kind[Root] = "dir"
    /\ \A n \in Nodes : kind[n] = "link" => n \in DOMAIN Target

\* Only a remove has deleted anything, and nothing out of its reach.
RemovedInv ==
    /\ removed \in [Procs -> SUBSET Nodes]
    /\ fit \in [Procs -> BOOLEAN]
    /\ \A p \in Procs :
        /\ outcome[p] = "none" => removed[p] = {}
        /\ removed[p] # {} => removed[p] \subseteq Reach[call[p].file]

\* The first invariant.
FileInv == StackInv /\ TreeInv /\ RemovedInv

-----------------------------------------------------------------------------
(* The tree *)

\* The root lies in no directory.
LEMMA AboveRoot == Above[Root] = {}
  <1>1. ASSUME NEW m \in Above[Root]  PROVE FALSE
    BY <1>1, TreeAssumption, {} \in SUBSET Nodes DEF Above
  <1> QED  BY <1>1

\* Hence the root can always be looked at.
LEMMA RootStat ==
  ASSUME TreeInv
  PROVE  Stat(Root)
  BY AboveRoot DEF TreeInv, Stat, Access, Follow

\* Reach is closed under what lies in a directory and where a link leads.
LEMMA ReachClosed ==
  ASSUME NEW r \in Nodes
  PROVE  /\ Reach[r] \subseteq Nodes
         /\ r \in Reach[r]
         /\ \A m \in Nodes \ {Root} : Up[m] \in Reach[r] => m \in Reach[r]
         /\ \A m \in Reach[r] \cap DOMAIN Target : Target[m] \in Reach[r]
  <1> DEFINE Closed(S) == /\ r \in S
                          /\ \A m \in Nodes \ {Root} : Up[m] \in S => m \in S
                          /\ \A m \in S \cap DOMAIN Target : Target[m] \in S
  <1>1. Reach[r] = {n \in Nodes : \A S \in SUBSET Nodes : Closed(S) => n \in S}
    BY DEF Reach
  <1> HIDE DEF Closed
  <1>2. r \in Reach[r]
    BY <1>1 DEF Closed
  <1>3. ASSUME NEW m \in Nodes \ {Root}, Up[m] \in Reach[r]
        PROVE  m \in Reach[r]
    <2>1. \A S \in SUBSET Nodes : Closed(S) => Up[m] \in S
      BY <1>1, <1>3
    <2> QED  BY <1>1, <2>1 DEF Closed
  <1>4. ASSUME NEW m \in Reach[r] \cap DOMAIN Target
        PROVE  Target[m] \in Reach[r]
    <2>1. m \in Nodes /\ Target[m] \in Nodes
      BY <1>1, LinkAssumption
    <2>2. \A S \in SUBSET Nodes : Closed(S) => m \in S
      BY <1>1
    <2> QED  BY <1>1, <2>1, <2>2 DEF Closed
  <1> QED  BY <1>1, <1>2, <1>3, <1>4

\* A link leads to a path, and the copy of a File within reach is within reach.
LEMMA NamesInReach ==
  ASSUME TreeInv, NEW n \in Nodes
  PROVE  /\ Follow(n) \in Nodes
         /\ set_name(n) \in Nodes
         /\ \A r \in Nodes : n \in Reach[r] => /\ Follow(n) \in Reach[r]
                                               /\ set_name(n) \in Reach[r]
  <1>1. kind[n] = "link" => n \in DOMAIN Target /\ Target[n] \in Nodes
    BY LinkAssumption DEF TreeInv
  <1> QED  BY <1>1, ReachClosed DEF Follow, set_name

\* What a directory within reach holds is within reach.
LEMMA ListingInReach ==
  ASSUME TreeInv, NEW r \in Nodes, NEW n \in Nodes, n \in Reach[r]
  PROVE  Listing(n) \subseteq Reach[r]
  <1>1. Follow(n) \in Reach[r]
    BY NamesInReach
  <1>2. ASSUME NEW c \in Children(Follow(n))  PROVE set_name(c) \in Reach[r]
    <2>1. c \in Nodes \ {Root} /\ Up[c] = Follow(n)
      BY DEF Children
    <2>2. c \in Reach[r]
      BY <1>1, <2>1, ReachClosed
    <2> QED  BY <2>1, <2>2, NamesInReach
  <1> QED  BY <1>2 DEF Listing

-----------------------------------------------------------------------------
(* Stacks *)

\* What the operations on a stack of frames from any set S yield.
LEMMA StackOperations ==
  ASSUME NEW S, NEW s \in Seq(S), s # <<>>
  PROVE  /\ Head(s) \in S
         /\ Tail(s) \in Seq(S)
         /\ \A f \in S : <<f>> \o Tail(s) \in Seq(S) /\ <<f>> \o Tail(s) # <<>>
         /\ \A f, g \in S : <<g, f>> \o Tail(s) \in Seq(S) /\ <<g, f>> \o Tail(s) # <<>>
  <1>1. Head(s) \in S /\ Tail(s) \in Seq(S) /\ Len(Tail(s)) \in Nat
    BY HeadTailProperties, LenProperties
  <1>2. ASSUME NEW f \in S
        PROVE  <<f>> \o Tail(s) \in Seq(S) /\ <<f>> \o Tail(s) # <<>>
    <2>1. <<f>> \in Seq(S) /\ Len(<<f>>) = 1
      OBVIOUS
    <2> QED  BY <1>1, <2>1, ConcatProperties, EmptySeq
  <1>3. ASSUME NEW f \in S, NEW g \in S
        PROVE  <<g, f>> \o Tail(s) \in Seq(S) /\ <<g, f>> \o Tail(s) # <<>>
    <2>1. <<g, f>> \in Seq(S) /\ Len(<<g, f>>) = 2
      OBVIOUS
    <2> QED  BY <1>1, <2>1, ConcatProperties, EmptySeq
  <1> QED  BY <1>1, <1>2, <1>3

\* A process that takes a step of its call has a stack of frames of the call.
LEMMA TopFrame ==
  ASSUME StackInv, NEW p \in Procs, stack[p] # <<>>
  PROVE  /\ outcome[p] = "running"
         /\ call[p] \in Calls
         /\ stack[p] \in Seq(FramesOf(call[p]))
         /\ Top(p) \in FramesOf(call[p])
  <1>1. /\ outcome[p] = "running" /\ call[p] \in Calls
        /\ stack[p] \in Seq(FramesOf(call[p]))
    BY DEF StackInv
  <1> QED  BY <1>1, StackOperations DEF Top

\* The four ways to go on keep the invariant of the stacks.
LEMMA StepsKeepStackInv ==
  ASSUME StackInv, NEW p \in Procs, stack[p] # <<>>, UNCHANGED call,
         NEW f \in FramesOf(call[p]), NEW g \in FramesOf(call[p]),
         Continue(p, f) \/ Recurse(p, f, g) \/ Return(p) \/ Throw(p)
  PROVE  /\ StackInv'
         /\ \A q \in Procs : outcome'[q] = "none" => outcome[q] = "none"
  <1>1. /\ outcome[p] = "running"
        /\ call[p] \in Calls
        /\ stack[p] \in Seq(FramesOf(call[p]))
    BY TopFrame
  <1> DEFINE S == FramesOf(call[p])
             s == stack[p]
             Stays(t) == stack' = [stack EXCEPT ![p] = t]
  <1>2. /\ Tail(s) \in Seq(S)
        /\ <<f>> \o Tail(s) \in Seq(S) /\ <<f>> \o Tail(s) # <<>>
        /\ <<g, f>> \o Tail(s) \in Seq(S) /\ <<g, f>> \o Tail(s) # <<>>
    BY <1>1, StackOperations
  <1>3. FramesOf(call[p])' = FramesOf(call[p]) /\ \A q \in Procs : FramesOf(call[q])' = FramesOf(call[q])
    BY DEF FramesOf
  <1> HIDE DEF S, s
  <1>4. \E t : /\ stack' = [stack EXCEPT ![p] = t]
               /\ \/ t \in Seq(S) /\ t # <<>> /\ outcome' = outcome
                  \/ t = <<>> /\ \E o \in {"returned", "threw", "crashed"} :
                                    outcome' = [outcome EXCEPT ![p] = o]
    <2>1. CASE Continue(p, f)
      BY <2>1, <1>2 DEF Continue, s
    <2>2. CASE Recurse(p, f, g)
      BY <2>2, <1>2 DEF Recurse, s
    <2>3. CASE Return(p)
      <3>1. CASE Tail(stack[p]) = <<>>
        BY <2>3, <3>1 DEF Return
      <3>2. CASE Tail(stack[p]) # <<>>
        <4>1. outcome' = outcome
          BY <2>3, <3>2 DEF Return, StackInv
        <4> QED  BY <2>3, <3>2, <4>1, <1>2 DEF Return, s
      <3> QED  BY <3>1, <3>2
    <2>4. CASE Throw(p)
      BY <2>4 DEF Throw
    <2> QED  BY <2>1, <2>2, <2>3, <2>4
  <1>5. PICK t : /\ stack' = [stack EXCEPT ![p] = t]
                 /\ \/ t \in Seq(S) /\ t # <<>> /\ outcome' = outcome
                    \/ t = <<>> /\ \E o \in {"returned", "threw", "crashed"} :
                                      outcome' = [outcome EXCEPT ![p] = o]
    BY <1>4
  <1>6. CASE t \in Seq(S) /\ t # <<>> /\ outcome' = outcome
    BY <1>1, <1>3, <1>5, <1>6 DEF StackInv, S
  <1>7. CASE t = <<>> /\ \E o \in {"returned", "threw", "crashed"} :
                            outcome' = [outcome EXCEPT ![p] = o]
    BY <1>1, <1>3, <1>5, <1>7 DEF StackInv
  <1> QED  BY <1>5, <1>6, <1>7

-----------------------------------------------------------------------------
(* Steps *)

\* A step that only looks at the tree keeps the invariant.
LEMMA LooksKeepsInv ==
  ASSUME FileInv, NEW p \in Procs, stack[p] # <<>>, Looks,
         NEW f \in FramesOf(call[p]), NEW g \in FramesOf(call[p]),
         Continue(p, f) \/ Recurse(p, f, g) \/ Return(p) \/ Throw(p)
  PROVE  FileInv'
  <1>1. StackInv' /\ \A q \in Procs : outcome'[q] = "none" => outcome[q] = "none"
    BY StepsKeepStackInv DEF FileInv, Looks, callVars
  <1>2. TreeInv'
    BY DEF FileInv, TreeInv, Looks, treeVars
  <1>3. RemovedInv'
    BY <1>1 DEF FileInv, RemovedInv, Looks, callVars
  <1> QED  BY <1>1, <1>2, <1>3 DEF FileInv

\* The tree keeps its root when something else changes.
LEMMA ChangeKeepsTreeInv ==
  ASSUME TreeInv, NEW p \in Procs, NEW n \in Nodes, NEW k \in Kinds,
         NEW m \in SUBSET Rights, NEW what \in SUBSET Harms,
         n = Root => k = "dir",
         k = "link" => n \in DOMAIN Target,
         Change(p, n, k, m, what)
  PROVE  TreeInv'
  <1>1. kind' \in [Nodes -> Kinds] /\ mode' \in [Nodes -> SUBSET Rights]
    BY DEF TreeInv, Change
  <1>2. harm' \in [Procs -> SUBSET Harms]
    <2>1. (IF k = "dir" /\ "owner" \notin m THEN {"shut"} ELSE {}) \subseteq Harms
      BY DEF Harms
    <2> QED  BY <2>1 DEF TreeInv, Change
  <1>3. kind'[Root] = "dir" /\ \A x \in Nodes : kind'[x] = "link" => x \in DOMAIN Target
    BY DEF TreeInv, Change
  <1> QED  BY <1>1, <1>2, <1>3 DEF TreeInv

\* A step of a remove keeps the invariant.
LEMMA RemoveKeepsInv ==
  ASSUME FileInv, NEW p \in Procs, RemoveStep(p)
  PROVE  FileInv'
  <1> DEFINE f == Top(p)
             r == call[p].file
  <1>1. stack[p] # <<>> /\ f.at \in RemovePlaces
    BY DEF RemoveStep, IsDirectoryOf, Directory, NextChild, Rmdir, Unlink, At, RemovePlaces
  <1>2. call[p] \in Calls /\ f \in FramesOf(call[p]) /\ outcome[p] = "running"
    BY <1>1, TopFrame DEF FileInv
  <1>3. /\ f \in Frame /\ call[p].op = "remove" /\ r \in Nodes
        /\ f.file \in Reach[r] /\ f.childs \subseteq Reach[r] /\ Reach[r] \subseteq Nodes
    BY <1>1, <1>2, CallsAssumption, ReachClosed DEF FramesOf
  <1>4. ASSUME NEW q \in RemovePlaces
        PROVE  [f EXCEPT !.at = q] \in FramesOf(call[p])
    BY <1>3 DEF FramesOf, Frame, Places, RemovePlaces
  <1>5. ASSUME NEW q \in RemovePlaces, NEW S \in SUBSET Reach[r]
        PROVE  [f EXCEPT !.at = q, !.childs = S] \in FramesOf(call[p])
    BY <1>3 DEF FramesOf, Frame, Places, RemovePlaces
  <1>6. ASSUME NEW n \in Reach[r]
        PROVE  NewFrame("is_directory", n, {}) \in FramesOf(call[p])
    BY <1>3 DEF FramesOf, Frame, Places, RemovePlaces, NewFrame
  <1> HIDE DEF f, r
  <1>7. CASE IsDirectoryOf(p)
    <2>1. Looks /\ (Throw(p) \/ Goto(p, "directory") \/ Goto(p, "unlink"))
      BY <1>7 DEF IsDirectoryOf
    <2>2. /\ [f EXCEPT !.at = "directory"] \in FramesOf(call[p])
          /\ [f EXCEPT !.at = "unlink"] \in FramesOf(call[p])
      BY <1>4 DEF RemovePlaces
    <2> QED  BY <1>1, <1>2, <2>1, <2>2, LooksKeepsInv DEF Goto, f
  <1>8. CASE Directory(p)
    <2>1. Listing(f.file) \subseteq Reach[r]
      BY <1>3, ListingInReach DEF FileInv
    <2>2. [f EXCEPT !.at = "next", !.childs = Listing(f.file)] \in FramesOf(call[p])
      BY <1>5, <2>1 DEF RemovePlaces
    <2>3. Looks /\ (Throw(p) \/ Continue(p, [f EXCEPT !.at = "next", !.childs = Listing(f.file)]))
      BY <1>8 DEF Directory, f
    <2> QED  BY <1>1, <1>2, <2>2, <2>3, LooksKeepsInv
  <1>9. CASE NextChild(p)
    <2>1. Looks /\ f.at = "next"
      BY <1>9 DEF NextChild, At, f
    <2>2. CASE f.childs = {}
      <3>1. Goto(p, "rmdir")
        BY <1>9, <2>2 DEF NextChild, f
      <3>2. [f EXCEPT !.at = "rmdir"] \in FramesOf(call[p])
        BY <1>4 DEF RemovePlaces
      <3> QED  BY <1>1, <1>2, <2>1, <3>1, <3>2, LooksKeepsInv DEF Goto, f
    <2>3. CASE f.childs # {}
      <3>1. PICK c \in f.childs :
              LET rest == [f EXCEPT !.childs = @ \ {c}] IN
              \/ Recurse(p, rest, NewFrame("is_directory", set_name(c), {}))
              \/ Continue(p, rest)
        BY <1>9, <2>3 DEF NextChild, f
      <3>2. set_name(c) \in Reach[r]
        BY <1>3, NamesInReach DEF FileInv
      <3>3. NewFrame("is_directory", set_name(c), {}) \in FramesOf(call[p])
        BY <1>6, <3>2
      <3>4. [f EXCEPT !.childs = @ \ {c}] \in FramesOf(call[p])
        BY <1>2, <1>3 DEF FramesOf, Frame
      <3> QED  BY <1>1, <2>1, <3>1, <3>3, <3>4, LooksKeepsInv
    <2> QED  BY <2>2, <2>3
  <1>10. ASSUME Delete(p), f.file # Root
         PROVE  FileInv'
    <2>1. /\ Change(p, f.file, "none", {}, {"removed"})
          /\ removed' = [removed EXCEPT ![p] = @ \cup {f.file}]
          /\ Return(p) /\ UNCHANGED callVars
      BY <1>10 DEF Delete, f
    <2>2. StackInv' /\ \A q \in Procs : outcome'[q] = "none" => outcome[q] = "none"
      BY <1>1, <1>2, <2>1, StepsKeepStackInv DEF FileInv, callVars
    <2>3. TreeInv'
      <3>1. "none" \in Kinds /\ {} \in SUBSET Rights /\ {"removed"} \in SUBSET Harms
        BY DEF Kinds, Harms
      <3> QED  BY <1>3, <1>10, <2>1, <3>1, ChangeKeepsTreeInv DEF FileInv
    <2>4. RemovedInv'
      <3>1. removed' \in [Procs -> SUBSET Nodes] /\ fit' \in [Procs -> BOOLEAN]
        BY <1>3, <2>1 DEF FileInv, RemovedInv, callVars
      <3>2. \A q \in Procs : outcome'[q] = "none" => removed'[q] = {}
        BY <1>2, <2>1, <2>2 DEF FileInv, RemovedInv, StackInv, Return
      <3>3. \A q \in Procs : removed'[q] # {} => removed'[q] \subseteq Reach[call'[q].file]
        BY <1>3, <2>1 DEF FileInv, RemovedInv, callVars, r
      <3> QED  BY <3>1, <3>2, <3>3 DEF RemovedInv
    <2> QED  BY <2>2, <2>3, <2>4 DEF FileInv
  <1>11. CASE Rmdir(p)
    <2>1. (Delete(p) /\ f.file # Root) \/ (Throw(p) /\ Looks)
      BY <1>11 DEF Rmdir, f
    <2> QED  BY <1>1, <1>2, <1>10, <2>1, LooksKeepsInv
  <1>12. CASE Unlink(p)
    <2>1. (Delete(p) /\ kind[f.file] # "dir") \/ (Throw(p) /\ Looks)
      BY <1>12 DEF Unlink, f
    <2>2. kind[Root] = "dir"
      BY DEF FileInv, TreeInv
    <2> QED  BY <1>1, <1>2, <1>10, <2>1, <2>2, LooksKeepsInv
  <1> QED  BY <1>7, <1>8, <1>9, <1>11, <1>12 DEF RemoveStep

\* A step of make_dir, make_path or make_fifo keeps the invariant.
LEMMA MakeKeepsInv ==
  ASSUME FileInv, NEW p \in Procs, MakeStep(p)
  PROVE  FileInv'
  <1> DEFINE f == Top(p)
             MakePlaces == Places \ RemovePlaces
  <1>1. stack[p] # <<>> /\ f.at \in MakePlaces
    BY DEF MakeStep, Father, Mkdir, Exists, IsADirectory, FifoExists, IsFifo, Compare,
           Mkfifo, Permissions, Chmod, At, Places, RemovePlaces
  <1>2. call[p] \in Calls /\ f \in FramesOf(call[p]) /\ outcome[p] = "running"
    BY <1>1, TopFrame DEF FileInv
  <1>3. f \in Frame /\ call[p].op # "remove" /\ (f.at = "father" => f.file # Root)
    BY <1>1, <1>2 DEF FramesOf
  <1>4. ASSUME NEW q \in MakePlaces \ {"father"}
        PROVE  /\ [f EXCEPT !.at = q] \in FramesOf(call[p])
               /\ [f EXCEPT !.at = q, !.ignore = TRUE] \in FramesOf(call[p])
    BY <1>3 DEF FramesOf, Frame
  <1>5. {"mkdir", "exists", "is_a_directory", "is_fifo", "compare", "mkfifo",
         "permissions", "chmod"} \subseteq MakePlaces \ {"father"}
    BY DEF Places, RemovePlaces
  <1>6. f.file \in Nodes /\ f.perm \in SUBSET Rights
    BY <1>3 DEF Frame
  <1> HIDE DEF f, MakePlaces
  <1>7. ASSUME Looks,
               \/ Throw(p) \/ Return(p)
               \/ \E q \in MakePlaces \ {"father"} :
                    Goto(p, q) \/ Continue(p, [f EXCEPT !.at = q, !.ignore = TRUE])
        PROVE  FileInv'
    <2>1. CASE Throw(p) \/ Return(p)
      BY <1>1, <1>2, <1>7, <2>1, LooksKeepsInv
    <2>2. CASE \E q \in MakePlaces \ {"father"} :
                  Goto(p, q) \/ Continue(p, [f EXCEPT !.at = q, !.ignore = TRUE])
      BY <1>1, <1>4, <1>7, <2>2, LooksKeepsInv DEF Goto, f
    <2> QED  BY <1>7, <2>1, <2>2
  <1>8. CASE Father(p)
    <2>1. Looks /\ f.at = "father"
      BY <1>8 DEF Father, At, f
    <2>2. f.file # Root /\ Up[f.file] \in Nodes
      BY <1>3, <1>6, <2>1, TreeAssumption
    <2>3. CASE Stat(Up[f.file])
      BY <1>5, <1>7, <1>8, <2>1, <2>3 DEF Father, f
    <2>4. CASE ~ Stat(Up[f.file])
      <3>1. Recurse(p, [f EXCEPT !.at = "mkdir"],
                       NewFrame("father", Up[f.file], FatherRights(f.perm)))
        BY <1>8, <2>4 DEF Father, f
      <3>2. Up[f.file] # Root
        BY <2>4, RootStat DEF FileInv
      <3>3. NewFrame("father", Up[f.file], FatherRights(f.perm)) \in FramesOf(call[p])
        BY <1>3, <1>6, <2>2, <3>2
           DEF NewFrame, FatherRights, FramesOf, Frame, Places, RemovePlaces, Rights
      <3>4. [f EXCEPT !.at = "mkdir"] \in FramesOf(call[p])
        BY <1>4, <1>5
      <3> QED  BY <1>1, <2>1, <3>1, <3>3, <3>4, LooksKeepsInv
    <2> QED  BY <2>3, <2>4
  <1>9. ASSUME NEW k \in {"dir", "fifo"}, NEW what \in SUBSET Harms, Create(p, k, what),
               MayCreate(f.file)
        PROVE  FileInv'
    <2>1. /\ Change(p, f.file, k, f.perm \ Umask, what)
          /\ Continue(p, [f EXCEPT !.at = "permissions"])
          /\ UNCHANGED <<callVars, removed>>
      BY <1>9 DEF Create, Goto, f
    <2>2. [f EXCEPT !.at = "permissions"] \in FramesOf(call[p])
      BY <1>4, <1>5
    <2>3. StackInv' /\ \A q \in Procs : outcome'[q] = "none" => outcome[q] = "none"
      BY <1>1, <2>1, <2>2, StepsKeepStackInv DEF FileInv, callVars
    <2>4. TreeInv'
      <3>1. k \in Kinds /\ k # "link" /\ f.perm \ Umask \in SUBSET Rights
        BY <1>6 DEF Kinds
      <3>2. f.file # Root
        BY <1>9 DEF MayCreate, FileInv, TreeInv
      <3> QED  BY <1>6, <2>1, <3>1, <3>2, ChangeKeepsTreeInv DEF FileInv
    <2>5. RemovedInv'
      BY <2>1, <2>3 DEF FileInv, RemovedInv, callVars
    <2> QED  BY <2>3, <2>4, <2>5 DEF FileInv
  <1>10. CASE Mkdir(p)
    <2>1. \/ Create(p, "dir", {"made"}) /\ MayCreate(f.file)
          \/ Goto(p, "exists") /\ Looks
      BY <1>10 DEF Mkdir, f
    <2>2. {"made"} \in SUBSET Harms
      BY DEF Harms
    <2> QED  BY <1>5, <1>7, <1>9, <2>1, <2>2
  <1>11. CASE Exists(p)
    BY <1>5, <1>7, <1>11 DEF Exists
  <1>12. CASE IsADirectory(p)
    <2>1. /\ Looks
          /\ \/ Throw(p) \/ Return(p)
             \/ Continue(p, [f EXCEPT !.at = "permissions", !.ignore = TRUE])
      BY <1>12 DEF IsADirectory, f
    <2> QED  BY <1>5, <1>7, <2>1
  <1>13. CASE FifoExists(p)
    <2>1. Looks /\ (Goto(p, "is_fifo") \/ Goto(p, "mkfifo"))
      BY <1>13 DEF FifoExists
    <2> QED  BY <1>5, <1>7, <2>1
  <1>14. CASE IsFifo(p)
    <2>1. Looks /\ (Throw(p) \/ Goto(p, "compare") \/ Goto(p, "mkfifo"))
      BY <1>14 DEF IsFifo
    <2> QED  BY <1>5, <1>7, <2>1
  <1>15. CASE Compare(p)
    <2>1. Looks /\ (Throw(p) \/ Return(p) \/ Goto(p, "permissions"))
      BY <1>15 DEF Compare
    <2> QED  BY <1>5, <1>7, <2>1
  <1>16. CASE Mkfifo(p)
    <2>1. \/ Create(p, "fifo", {"fifo"}) /\ MayCreate(f.file)
          \/ Throw(p) /\ Looks
      BY <1>16 DEF Mkfifo, f
    <2>2. {"fifo"} \in SUBSET Harms
      BY DEF Harms
    <2> QED  BY <1>7, <1>9, <2>1, <2>2
  <1>17. CASE Permissions(p)
    <2>1. Looks /\ (Throw(p) \/ Return(p) \/ Goto(p, "chmod"))
      BY <1>17 DEF Permissions, PermissionsFail
    <2> QED  BY <1>5, <1>7, <2>1
  <1>18. CASE Chmod(p)
    <2>1. CASE ~ Stat(f.file)
      BY <1>7, <1>18, <2>1 DEF Chmod, PermissionsFail, f
    <2>2. CASE Stat(f.file)
      <3> DEFINE n == Follow(f.file)
      <3>1. /\ Change(p, n, kind[n], f.perm, {"chmod"})
            /\ Return(p) /\ UNCHANGED <<callVars, removed>>
        BY <1>18, <2>2 DEF Chmod, f
      <3>2. n \in Nodes
        BY <1>6, NamesInReach DEF FileInv
      <3>3. StackInv' /\ \A q \in Procs : outcome'[q] = "none" => outcome[q] = "none"
        BY <1>1, <1>2, <3>1, StepsKeepStackInv DEF FileInv, callVars
      <3>4. TreeInv'
        <4>1. kind[n] \in Kinds /\ (n = Root => kind[n] = "dir")
              /\ (kind[n] = "link" => n \in DOMAIN Target) /\ {"chmod"} \in SUBSET Harms
          BY <3>2 DEF FileInv, TreeInv, Harms
        <4> QED  BY <1>6, <3>1, <3>2, <4>1, ChangeKeepsTreeInv DEF FileInv
      <3>5. RemovedInv'
        BY <3>1, <3>3 DEF FileInv, RemovedInv, callVars
      <3> QED  BY <3>3, <3>4, <3>5 DEF FileInv
    <2> QED  BY <2>1, <2>2
  <1> QED  BY <1>8, <1>10, <1>11, <1>12, <1>13, <1>14, <1>15, <1>16, <1>17, <1>18 DEF MakeStep

\* A call that begins keeps the invariant.
LEMMA BeginKeepsInv ==
  ASSUME FileInv, NEW p \in Procs, Begin(p)
  PROVE  FileInv'
  <1>1. PICK c \in Calls :
          /\ set_name(c.file) # Root
          /\ call' = [call EXCEPT ![p] = c]
          /\ fit' = [fit EXCEPT ![p] = Fit(c)]
          /\ stack' = [stack EXCEPT ![p] =
                         <<NewFrame(FirstStep(c.op), set_name(c.file), c.perm)>>]
    BY CallsAssumption DEF Begin
  <1>2. /\ outcome[p] = "none" /\ outcome' = [outcome EXCEPT ![p] = "running"]
        /\ UNCHANGED <<treeVars, removed>>
    BY DEF Begin
  <1>3. /\ c.op \in {"remove", "make_dir", "make_path", "make_fifo"}
        /\ c.file \in Nodes /\ c.perm \in SUBSET Rights
    BY CallsAssumption
  <1> DEFINE g == NewFrame(FirstStep(c.op), set_name(c.file), c.perm)
  <1>4. g \in FramesOf(c)
    <2>1. set_name(c.file) \in Nodes /\ set_name(c.file) \in Reach[c.file]
      BY <1>3, NamesInReach, ReachClosed DEF FileInv
    <2> QED  BY <1>1, <1>3, <2>1
             DEF FramesOf, Frame, NewFrame, FirstStep, Places, RemovePlaces
  <1>5. <<g>> \in Seq(FramesOf(c)) /\ <<g>> # <<>>
    BY <1>4
  <1>6. \A q \in Procs : FramesOf(call[q])' = FramesOf(call'[q])
    BY DEF FramesOf
  <1> HIDE DEF g
  <1>7. StackInv'
    <2>1. stack' = [stack EXCEPT ![p] = <<g>>]
      BY <1>1 DEF g
    <2>2. /\ outcome' \in [Procs -> {"none", "running", "returned", "threw", "crashed"}]
          /\ call' \in [Procs -> Calls \cup {NoCall}] /\ stack' = [q \in Procs |-> stack'[q]]
      BY <1>1, <1>2, <2>1 DEF FileInv, StackInv
    <2>3. ASSUME NEW q \in Procs
          PROVE  IF outcome'[q] = "running"
                 THEN /\ call'[q] \in Calls
                      /\ stack'[q] \in Seq(FramesOf(call'[q]))
                      /\ stack'[q] # <<>>
                 ELSE stack'[q] = <<>>
      <3>1. CASE q = p
        BY <1>1, <1>2, <1>5, <2>1, <3>1 DEF FileInv, StackInv
      <3>2. CASE q # p
        BY <1>1, <1>2, <2>1, <3>2 DEF FileInv, StackInv
      <3> QED  BY <3>1, <3>2
    <2> QED  BY <1>6, <2>2, <2>3 DEF StackInv
  <1>8. TreeInv'
    BY <1>2 DEF FileInv, TreeInv, treeVars
  <1>9. RemovedInv'
    <2>1. Fit(c) \in BOOLEAN
      BY DEF Fit
    <2>2. fit' \in [Procs -> BOOLEAN]
      BY <1>1, <2>1 DEF FileInv, RemovedInv
    <2>3. ASSUME NEW q \in Procs
          PROVE  /\ outcome'[q] = "none" => removed'[q] = {}
                 /\ removed'[q] # {} => removed'[q] \subseteq Reach[call'[q].file]
      BY <1>1, <1>2, <2>3 DEF FileInv, RemovedInv, StackInv
    <2> QED  BY <1>2, <2>2, <2>3 DEF FileInv, RemovedInv
  <1> QED  BY <1>7, <1>8, <1>9 DEF FileInv

-----------------------------------------------------------------------------
(* The theorems *)

\* The tree any process finds satisfies the invariant.
LEMMA FileInit == Init => FileInv
  <1> SUFFICES ASSUME Init  PROVE FileInv
    OBVIOUS
  <1>1. StackInv
    BY DEF Init, StackInv
  <1>2. TreeInv
    <2>1. kind \in [Nodes -> Kinds] /\ kind[Root] = "dir"
          /\ \A n \in Nodes : kind[n] = "link" => n \in DOMAIN Target
      BY TreesAssumption DEF Init
    <2> QED  BY <2>1 DEF Init, TreeInv
  <1>3. RemovedInv
    BY DEF Init, RemovedInv
  <1> QED  BY <1>1, <1>2, <1>3 DEF FileInv

\* Every step keeps the invariant.
LEMMA FileStep == FileInv /\ [Next]_vars => FileInv'
  <1> SUFFICES ASSUME FileInv, [Next]_vars  PROVE FileInv'
    OBVIOUS
  <1>1. CASE UNCHANGED vars
    <2>1. StackInv'
      BY <1>1 DEF FileInv, StackInv, FramesOf, vars, procVars, callVars
    <2>2. TreeInv' /\ RemovedInv'
      BY <1>1 DEF FileInv, TreeInv, RemovedInv, vars, treeVars, procVars, callVars
    <2> QED  BY <2>1, <2>2 DEF FileInv
  <1>2. ASSUME NEW p \in Procs, Begin(p)  PROVE FileInv'
    BY <1>2, BeginKeepsInv
  <1>3. ASSUME NEW p \in Procs, Step(p)  PROVE FileInv'
    BY <1>3, RemoveKeepsInv, MakeKeepsInv DEF Step
  <1> QED  BY <1>1, <1>2, <1>3 DEF Next

\* The invariant of processes at work on one tree.
THEOREM FileInvariance == Spec => []FileInv
  <1> QED  BY FileInit, FileStep, PTL DEF Spec

\* Every variable keeps its type: every path a frame works on is in the tree.
THEOREM FileTypeCorrect == Spec => []TypeOK
  <1>1. FileInv => TypeOK
    <2> SUFFICES ASSUME FileInv  PROVE TypeOK
      OBVIOUS
    <2>1. stack \in [Procs -> Seq(Frame)]
      <3>1. ASSUME NEW p \in Procs  PROVE stack[p] \in Seq(Frame)
        <4>1. CASE outcome[p] = "running"
          <5>1. stack[p] \in Seq(FramesOf(call[p])) /\ FramesOf(call[p]) \subseteq Frame
            BY <4>1 DEF FileInv, StackInv, FramesOf
          <5> HIDE DEF FramesOf
          <5> QED  BY <5>1, SeqMonotonic
        <4>2. CASE outcome[p] # "running"
          <5>1. stack[p] = <<>>
            BY <4>2 DEF FileInv, StackInv
          <5> QED  BY <5>1
        <4> QED  BY <4>1, <4>2
      <3>2. stack = [p \in Procs |-> stack[p]]
        BY DEF FileInv, StackInv
      <3> QED  BY <3>1, <3>2
    <2>2. \A p \in Procs : outcome[p] = "running" <=> stack[p] # <<>>
      BY DEF FileInv, StackInv
    <2> QED  BY <2>1, <2>2 DEF FileInv, StackInv, TreeInv, RemovedInv, TypeOK
  <1> QED  BY <1>1, FileInvariance, PTL

\* A remove deletes nothing but what lies in its tree and what the links in it
\* lead to, whatever others do meanwhile (File::remove, File::directory).
THEOREM RemovesStayInReach == Spec => []RemovesWhatItReaches
  <1>1. FileInv => RemovesWhatItReaches
    BY DEF FileInv, RemovedInv, RemovesWhatItReaches
  <1> QED  BY <1>1, FileInvariance, PTL

-----------------------------------------------------------------------------
(* The ways to paths *)

\* What lies above a path is the directory it lies in and what lies above that.
LEMMA AboveSteps ==
  ASSUME NEW n \in Nodes
  PROVE  /\ Above[n] \subseteq Nodes
         /\ n # Root => /\ Up[n] \in Above[n]
                        /\ Above[n] \subseteq {Up[n]} \cup Above[Up[n]]
         /\ \A m \in Above[n] : Above[m] \subseteq Above[n]
         /\ \A m \in Above[n] \ {Root} : Up[m] \in Above[n]
  <1> USE TreeAssumption
  <1> DEFINE Closed(S, k) == /\ k = Root \/ Up[k] \in S
                             /\ \A x \in S \ {Root} : Up[x] \in S
  <1>1. \A k \in Nodes : \A m : m \in Above[k] <=>
          m \in Nodes /\ \A S \in SUBSET Nodes : Closed(S, k) => m \in S
    BY DEF Above
  <1>2. \A k \in Nodes : \A S \in SUBSET Nodes : Closed(S, k) => Above[k] \subseteq S
    BY <1>1
  <1>3. \A k \in Nodes : Above[k] \subseteq Nodes
    BY <1>1
  <1>4. \A k \in Nodes \ {Root} : Up[k] \in Above[k]
    BY <1>1
  <1>5. \A k \in Nodes : \A m \in Above[k] \ {Root} : Up[m] \in Above[k]
    BY <1>1
  <1>6. n # Root => Above[n] \subseteq {Up[n]} \cup Above[Up[n]]
    <2>1. SUFFICES ASSUME n # Root PROVE Above[n] \subseteq {Up[n]} \cup Above[Up[n]]
      OBVIOUS
    <2>2. PICK u \in Nodes : u = Up[n]
      BY <2>1
    <2>3. Closed({u} \cup Above[u], n)
      BY <1>4, <1>5, <2>2
    <2>4. {u} \cup Above[u] \in SUBSET Nodes
      BY <1>3, <2>2
    <2>5. Above[n] \subseteq {u} \cup Above[u]
      <3> HIDE DEF Closed
      <3> QED  BY <1>2, <2>3, <2>4
    <2> QED
      BY <2>2, <2>5
  <1>7. ASSUME NEW m \in Above[n] PROVE Above[m] \subseteq Above[n]
    <2>1. m \in Nodes /\ Closed(Above[n], m)
      BY <1>1, <1>3, <1>5
    <2> QED
      BY <1>2, <1>3, <2>1
  <1> QED
    BY <1>3, <1>4, <1>5, <1>6, <1>7

\* The places of a call that makes directories.
PathPlaces == {"father", "mkdir", "exists", "is_a_directory", "permissions", "chmod"}

\* The call of p suits the tree, and others only make and open directories.
Undisturbed(p) ==
    /\ call[p] # NoCall /\ call[p].op \in {"make_dir", "make_path"}
    /\ fit[p] /\ harm[p] \subseteq {"made", "chmod"}

\* What is there on the way to n can be passed.
Way(n) ==
    /\ \A a \in Above[n] : kind[a] = "none" \/ (kind[a] = "dir" /\ "owner" \in mode[a])
    /\ kind[n] \in {"none", "dir"}

\* A frame works on a directory on the way to n, which it leaves open, or on n.
OnWay(f, n) ==
    /\ f.at \in PathPlaces
    /\ f.file \in Above[n] \cup {n}
    /\ f.file # n => "owner" \in f.perm

\* Every frame but the innermost waits for the directory its own lies in.
Chain(s) ==
    \A i \in 2 .. Len(s) :
        s[i].at = "mkdir" /\ s[i].file # Root /\ s[i - 1].file = Up[s[i].file]

\* What the innermost frame has found or made.
Reached(f) ==
    /\ f.at # "father" => \A a \in Above[f.file] : kind[a] = "dir"
    /\ f.at \notin {"father", "mkdir"} => kind[f.file] = "dir"

\* Hence nothing can make the call throw.
PathOf(p) ==
    /\ outcome[p] # "threw"
    /\ outcome[p] = "running" =>
          /\ Way(call[p].file)
          /\ \A i \in 1 .. Len(stack[p]) : OnWay(stack[p][i], call[p].file)
          /\ Chain(stack[p])
          /\ Reached(stack[p][1])

\* The second invariant.
PathInv == \A p \in Procs : Undisturbed(p) => PathOf(p)

-----------------------------------------------------------------------------
\* The frames of a stack after each of the ways to go on.
LEMMA StackFrames ==
  ASSUME NEW S, NEW s \in Seq(S), s # <<>>, NEW f \in S, NEW g \in S
  PROVE  /\ Len(s) \in Nat \ {0} /\ Head(s) = s[1]
         /\ Len(Tail(s)) = Len(s) - 1
         /\ \A i \in 1 .. Len(s) - 1 : Tail(s)[i] = s[i + 1]
         /\ Len(<<f>> \o Tail(s)) = Len(s)
         /\ (<<f>> \o Tail(s))[1] = f
         /\ \A i \in 2 .. Len(s) : (<<f>> \o Tail(s))[i] = s[i]
         /\ Len(<<g, f>> \o Tail(s)) = Len(s) + 1
         /\ (<<g, f>> \o Tail(s))[1] = g /\ (<<g, f>> \o Tail(s))[2] = f
         /\ \A i \in 3 .. Len(s) + 1 : (<<g, f>> \o Tail(s))[i] = s[i - 1]
  <1>1. /\ Len(s) \in Nat \ {0} /\ Head(s) = s[1]
        /\ Tail(s) \in Seq(S) /\ Len(Tail(s)) = Len(s) - 1
        /\ \A i \in 1 .. Len(s) - 1 : Tail(s)[i] = s[i + 1]
    BY HeadTailProperties, LenProperties, EmptySeq
  <1>2. /\ <<f>> \in Seq(S) /\ Len(<<f>>) = 1 /\ <<f>>[1] = f
        /\ <<g, f>> \in Seq(S) /\ Len(<<g, f>>) = 2 /\ <<g, f>>[1] = g /\ <<g, f>>[2] = f
    OBVIOUS
  <1> DEFINE F == <<f>>
             G == <<g, f>>
             r == Tail(s)
  <1> HIDE DEF F, G, r
  <1>3. /\ Len(F \o r) = Len(F) + Len(r)
        /\ \A i \in 1 .. Len(F) + Len(r) : (F \o r)[i] = IF i <= Len(F) THEN F[i] ELSE r[i - Len(F)]
    BY <1>1, <1>2, ConcatProperties DEF F, r
  <1>4. /\ Len(G \o r) = Len(G) + Len(r)
        /\ \A i \in 1 .. Len(G) + Len(r) : (G \o r)[i] = IF i <= Len(G) THEN G[i] ELSE r[i - Len(G)]
    BY <1>1, <1>2, ConcatProperties DEF G, r
  <1>5. /\ Len(F \o r) = Len(s) /\ (F \o r)[1] = f
        /\ \A i \in 2 .. Len(s) : (F \o r)[i] = s[i]
    BY <1>1, <1>2, <1>3 DEF F, r
  <1>6. /\ Len(G \o r) = Len(s) + 1 /\ (G \o r)[1] = g /\ (G \o r)[2] = f
        /\ \A i \in 3 .. Len(s) + 1 : (G \o r)[i] = s[i - 1]
    BY <1>1, <1>2, <1>4 DEF G, r
  <1> QED
    BY <1>1, <1>5, <1>6 DEF F, G, r

\* The innermost frame of a process in a call.
LEMMA FirstFrame ==
  ASSUME StackInv, NEW p \in Procs, stack[p] # <<>>
  PROVE  /\ stack[p] \in Seq(Frame)
         /\ Len(stack[p]) \in Nat \ {0}
         /\ Top(p) = stack[p][1] /\ Top(p) \in Frame
  <1>1. stack[p] \in Seq(FramesOf(call[p])) /\ Top(p) \in FramesOf(call[p])
    BY TopFrame
  <1>2. FramesOf(call[p]) \subseteq Frame
    BY DEF FramesOf
  <1> HIDE DEF FramesOf
  <1>3. stack[p] \in Seq(Frame)
    BY <1>1, <1>2, SeqMonotonic
  <1>4. Len(stack[p]) \in Nat \ {0} /\ Head(stack[p]) = stack[p][1]
    BY <1>3, HeadTailProperties, LenProperties, EmptySeq
  <1> QED  BY <1>1, <1>2, <1>3, <1>4 DEF Top

-----------------------------------------------------------------------------
(* What a step of one process does to the others *)

\* The changes of the tree, and what is told of them.
Noticed(n, k, m, what) ==
    \/ /\ what = {"removed"} /\ k = "none" /\ m = {}
       /\ n # Root /\ Access(n) /\ kind[n] # "none"
       /\ kind[n] = "dir" => Children(n) = {}
    \/ what = {"made"} /\ k = "dir" /\ Access(n) /\ kind[n] = "none"
    \/ what = {"fifo"} /\ k = "fifo" /\ Access(n) /\ kind[n] = "none"
    \/ what = {"chmod"} /\ k = kind[n] /\ Stat(n)

\* A step looks at the tree, or changes one path as the others are told, and
\* leaves their stacks alone.
LEMMA StepsOfOthers ==
  ASSUME FileInv, NEW q \in Procs, Step(q)
  PROVE  /\ UNCHANGED callVars
         /\ \A p \in Procs \ {q} : stack'[p] = stack[p] /\ outcome'[p] = outcome[p]
         /\ \/ UNCHANGED treeVars
            \/ \E n \in Nodes, k \in Kinds, m \in SUBSET Rights, what \in SUBSET Harms :
                  Change(q, n, k, m, what) /\ Noticed(n, k, m, what)
  <1> DEFINE Mine == \A p \in Procs \ {q} : stack'[p] = stack[p] /\ outcome'[p] = outcome[p]
             Tells == \E n \in Nodes, k \in Kinds, m \in SUBSET Rights, what \in SUBSET Harms :
                         Change(q, n, k, m, what) /\ Noticed(n, k, m, what)
  <1>1. stack = [p \in Procs |-> stack[p]] /\ outcome = [p \in Procs |-> outcome[p]]
    BY DEF FileInv, StackInv
  <1>2. ASSUME NEW f, Continue(q, f)  PROVE Mine
    BY <1>1, <1>2 DEF Continue
  <1>3. ASSUME NEW f, NEW g, Recurse(q, f, g)  PROVE Mine
    BY <1>1, <1>3 DEF Recurse
  <1>4. ASSUME Return(q)  PROVE Mine
    BY <1>1, <1>4 DEF Return
  <1>5. ASSUME Throw(q)  PROVE Mine
    BY <1>1, <1>5 DEF Throw
  <1>6. ASSUME Looks  PROVE UNCHANGED callVars /\ UNCHANGED treeVars
    BY <1>6 DEF Looks
  <1>7. stack[q] # <<>>
    BY DEF Step, RemoveStep, MakeStep, IsDirectoryOf, Directory, NextChild, Rmdir, Unlink, Father,
           Mkdir, Exists, IsADirectory, FifoExists, IsFifo, Compare, Mkfifo, Permissions, Chmod, At
  <1>8. Top(q).file \in Nodes /\ Top(q).perm \in SUBSET Rights
    BY <1>7, TopFrame DEF FileInv, FramesOf, Frame
  <1>9. ASSUME Delete(q), Top(q).file # Root, Access(Top(q).file), kind[Top(q).file] # "none",
               kind[Top(q).file] = "dir" => Children(Top(q).file) = {}
        PROVE  Mine /\ UNCHANGED callVars /\ Tells
    <2>1. "none" \in Kinds /\ {} \in SUBSET Rights /\ {"removed"} \in SUBSET Harms
      BY DEF Kinds, Harms
    <2>2. Change(q, Top(q).file, "none", {}, {"removed"}) /\ Return(q) /\ UNCHANGED callVars
      BY <1>9 DEF Delete
    <2>3. Noticed(Top(q).file, "none", {}, {"removed"})
      BY <1>9 DEF Noticed
    <2> QED  BY <1>4, <1>8, <2>1, <2>2, <2>3
  <1>10. ASSUME NEW k \in {"dir", "fifo"}, NEW what, Create(q, k, what),
                (what = {"made"} /\ k = "dir") \/ (what = {"fifo"} /\ k = "fifo"),
                MayCreate(Top(q).file)
         PROVE  Mine /\ UNCHANGED callVars /\ Tells
    <2>1. k \in Kinds /\ Top(q).perm \ Umask \in SUBSET Rights /\ what \in SUBSET Harms
      BY <1>8, <1>10 DEF Kinds, Harms
    <2>2. /\ Change(q, Top(q).file, k, Top(q).perm \ Umask, what)
          /\ Goto(q, "permissions") /\ UNCHANGED callVars
      BY <1>10 DEF Create
    <2>3. Noticed(Top(q).file, k, Top(q).perm \ Umask, what)
      BY <1>10 DEF Noticed, MayCreate
    <2> QED  BY <1>2, <1>8, <2>1, <2>2, <2>3 DEF Goto
  <1> HIDE DEF Mine, Tells
  <1>11. CASE RemoveStep(q)
    <2>1. CASE IsDirectoryOf(q)
      BY <1>2, <1>5, <1>6, <2>1 DEF IsDirectoryOf, Goto, Mine
    <2>2. CASE Directory(q)
      BY <1>2, <1>5, <1>6, <2>2 DEF Directory, Mine
    <2>3. CASE NextChild(q)
      BY <1>2, <1>3, <1>6, <2>3 DEF NextChild, Goto, Mine
    <2>4. CASE Rmdir(q)
      BY <1>5, <1>6, <1>9, <2>4 DEF Rmdir, Mine, Tells
    <2>5. CASE Unlink(q)
      BY <1>5, <1>6, <1>9, <2>5 DEF Unlink, Mine, Tells, FileInv, TreeInv
    <2> QED  BY <1>11, <2>1, <2>2, <2>3, <2>4, <2>5 DEF RemoveStep
  <1>12. CASE MakeStep(q)
    <2>1. CASE Father(q)
      BY <1>2, <1>3, <1>6, <2>1 DEF Father, Goto, Mine
    <2>2. CASE Mkdir(q)
      <3>1. CASE MayCreate(Top(q).file)
        BY <1>10, <2>2, <3>1 DEF Mkdir, Mine, Tells
      <3>2. CASE ~ MayCreate(Top(q).file)
        BY <1>2, <1>6, <2>2, <3>2 DEF Mkdir, Goto, Mine
      <3> QED  BY <3>1, <3>2
    <2>3. CASE Exists(q)
      BY <1>2, <1>5, <1>6, <2>3 DEF Exists, Goto, Mine
    <2>4. CASE IsADirectory(q)
      BY <1>2, <1>4, <1>5, <1>6, <2>4 DEF IsADirectory, Mine
    <2>5. CASE FifoExists(q)
      BY <1>2, <1>6, <2>5 DEF FifoExists, Goto, Mine
    <2>6. CASE IsFifo(q)
      BY <1>2, <1>5, <1>6, <2>6 DEF IsFifo, Goto, Mine
    <2>7. CASE Compare(q)
      BY <1>2, <1>4, <1>5, <1>6, <2>7 DEF Compare, Goto, Mine
    <2>8. CASE Mkfifo(q)
      BY <1>5, <1>6, <1>10, <2>8 DEF Mkfifo, Mine, Tells
    <2>9. CASE Permissions(q)
      BY <1>2, <1>4, <1>5, <1>6, <2>9 DEF Permissions, PermissionsFail, Goto, Mine
    <2>10. CASE Chmod(q)
      <3>1. CASE ~ Stat(Top(q).file)
        BY <1>4, <1>5, <1>6, <2>10, <3>1 DEF Chmod, PermissionsFail, Mine
      <3>2. CASE Stat(Top(q).file)
        <4> DEFINE n == Follow(Top(q).file)
        <4>1. /\ Change(q, n, kind[n], Top(q).perm, {"chmod"})
              /\ Return(q) /\ UNCHANGED callVars
          BY <2>10, <3>2 DEF Chmod
        <4>2. n \in Nodes /\ kind[n] \in Kinds /\ {"chmod"} \in SUBSET Harms
          BY <1>8, NamesInReach DEF FileInv, TreeInv, Harms
        <4>3. Noticed(n, kind[n], Top(q).perm, {"chmod"})
          BY <1>8, <3>2, LinkAssumption DEF Noticed, Stat, Follow, FileInv, TreeInv
        <4> HIDE DEF n
        <4>4. Tells
          BY <1>8, <4>1, <4>2, <4>3 DEF Tells
        <4> QED  BY <1>4, <4>1, <4>4 DEF Mine, Tells
      <3> QED  BY <3>1, <3>2
    <2> QED  BY <1>12, <2>1, <2>2, <2>3, <2>4, <2>5, <2>6, <2>7, <2>8, <2>9, <2>10 DEF MakeStep
  <1> QED  BY <1>11, <1>12 DEF Step

\* Others that leave a call undisturbed close no way and remove no directory.
LEMMA OthersKeepPath ==
  ASSUME FileInv, PathInv, NEW q \in Procs, Step(q), NEW p \in Procs \ {q}, Undisturbed(p)'
  PROVE  PathOf(p)'
  <1>1. /\ UNCHANGED callVars /\ stack'[p] = stack[p] /\ outcome'[p] = outcome[p]
        /\ \/ UNCHANGED treeVars
           \/ \E n \in Nodes, k \in Kinds, m \in SUBSET Rights, what \in SUBSET Harms :
                 Change(q, n, k, m, what) /\ Noticed(n, k, m, what)
    BY StepsOfOthers
  <1>2. harm[p] \subseteq harm'[p]
    BY <1>1 DEF FileInv, TreeInv, treeVars, Change
  <1>3. Undisturbed(p) /\ PathOf(p)
    BY <1>1, <1>2 DEF Undisturbed, PathInv, callVars
  <1>4. CASE outcome[p] # "running"
    BY <1>1, <1>3, <1>4 DEF PathOf
  <1>5. CASE outcome[p] = "running"
    <2>1. \A n \in Nodes : /\ kind[n] = "dir" => kind'[n] = "dir"
                           /\ kind[n] \in {"none", "dir"} => kind'[n] \in {"none", "dir"}
                           /\ kind[n] = "none" \/ (kind[n] = "dir" /\ "owner" \in mode[n])
                              => kind'[n] = "none" \/ (kind'[n] = "dir" /\ "owner" \in mode'[n])
      <3>1. CASE UNCHANGED treeVars
        BY <3>1 DEF treeVars
      <3>2. ASSUME NEW x \in Nodes, NEW k \in Kinds, NEW m \in SUBSET Rights,
                   NEW what \in SUBSET Harms, Change(q, x, k, m, what), Noticed(x, k, m, what)
            PROVE  \A n \in Nodes :
                           /\ kind[n] = "dir" => kind'[n] = "dir"
                           /\ kind[n] \in {"none", "dir"} => kind'[n] \in {"none", "dir"}
                           /\ kind[n] = "none" \/ (kind[n] = "dir" /\ "owner" \in mode[n])
                              => kind'[n] = "none" \/ (kind'[n] = "dir" /\ "owner" \in mode'[n])
        <4>1. harm'[p] = harm[p] \cup what \cup
                         (IF k = "dir" /\ "owner" \notin m THEN {"shut"} ELSE {})
          BY <1>5, <3>2 DEF Change
        <4>2. what \subseteq {"made", "chmod"} /\ (k = "dir" => "owner" \in m)
          BY <4>1 DEF Undisturbed
        <4>3. what # {"removed"} /\ what # {"fifo"}
          BY <4>2
        <4>4. (kind[x] = "none" /\ k = "dir") \/ k = kind[x]
          BY <3>2, <4>3 DEF Noticed
        <4>5. kind' = [kind EXCEPT ![x] = k] /\ mode' = [mode EXCEPT ![x] = m]
          BY <3>2 DEF Change
        <4>6. kind \in [Nodes -> Kinds] /\ mode \in [Nodes -> SUBSET Rights]
          BY DEF FileInv, TreeInv
        <4> QED  BY <4>2, <4>4, <4>5, <4>6
      <3> QED  BY <1>1, <3>1, <3>2
    <2>2. call[p].file \in Nodes /\ call'[p] = call[p]
      BY <1>1, <1>5, CallsAssumption DEF FileInv, StackInv, callVars
    <2>3. Way(call[p].file)'
      <3> DEFINE n == call[p].file
      <3>1. n \in Nodes /\ Above[n] \subseteq Nodes /\ call'[p].file = n
        BY <2>2, AboveSteps
      <3>2. Way(n)
        BY <1>3, <1>5 DEF PathOf
      <3> HIDE DEF n
      <3>3. /\ \A a \in Above[n] : kind'[a] = "none" \/ (kind'[a] = "dir" /\ "owner" \in mode'[a])
            /\ kind'[n] \in {"none", "dir"}
        BY <2>1, <3>1, <3>2 DEF Way
      <3> QED  BY <3>1, <3>3 DEF Way
    <2>4. Reached(stack[p][1])'
      <3> DEFINE f == stack[p][1]
      <3>1. f \in Frame
        BY <1>5, FirstFrame DEF FileInv, StackInv
      <3>2. f.file \in Nodes /\ Above[f.file] \subseteq Nodes
        BY <3>1, AboveSteps DEF Frame
      <3>3. Reached(f)
        BY <1>3, <1>5 DEF PathOf
      <3>4. stack'[p][1] = f
        BY <1>1
      <3> HIDE DEF f
      <3>5. /\ f.at # "father" => \A a \in Above[f.file] : kind'[a] = "dir"
            /\ f.at \notin {"father", "mkdir"} => kind'[f.file] = "dir"
        BY <2>1, <3>2, <3>3 DEF Reached
      <3> QED  BY <3>4, <3>5 DEF Reached
    <2>5. /\ \A i \in 1 .. Len(stack'[p]) : OnWay(stack'[p][i], call'[p].file)
          /\ Chain(stack[p])'
      BY <1>1, <1>3, <1>5, <2>2 DEF PathOf, OnWay, Chain
    <2> QED  BY <1>1, <1>5, <2>2, <2>3, <2>4, <2>5 DEF PathOf
  <1> QED  BY <1>4, <1>5

-----------------------------------------------------------------------------
(* What a step of the call itself does *)

\* A path that can be passed, with nothing but a directory at its end.
LEMMA PassedStat ==
  ASSUME TreeInv, NEW n \in Nodes, kind[n] # "link"
  PROVE  /\ Follow(n) = n
         /\ Stat(n) <=> Access(n) /\ kind[n] # "none"
  BY DEF Follow, Stat

\* The innermost frame and the tree, when the way to n can be passed.
LEMMA OnTheWay ==
  ASSUME FileInv, NEW n \in Nodes, Way(n), NEW f \in Frame, OnWay(f, n), Reached(f)
  PROVE  /\ f.file \in Nodes /\ Above[f.file] \subseteq Above[n]
         /\ kind[f.file] \in {"none", "dir"}
         /\ f.at # "father" => Access(f.file)
         /\ f.at \notin {"father", "mkdir"} =>
               Stat(f.file) /\ Follow(f.file) = f.file /\ IsDirectory(f.file)
  <1>1. f.file \in Nodes /\ f.file \in Above[n] \cup {n}
    BY DEF OnWay, Frame
  <1>2. Above[f.file] \subseteq Above[n]
    BY <1>1, AboveSteps
  <1>3. kind[f.file] \in {"none", "dir"}
    BY <1>1 DEF Way
  <1>4. f.at # "father" => Access(f.file)
    BY <1>2 DEF Reached, Way, Access
  <1>5. ASSUME f.at \notin {"father", "mkdir"}
        PROVE  Stat(f.file) /\ Follow(f.file) = f.file /\ IsDirectory(f.file)
    BY <1>1, <1>4, <1>5, PassedStat DEF FileInv, Reached, IsDirectory
  <1> QED  BY <1>1, <1>2, <1>3, <1>4, <1>5

\* The call goes on in its innermost frame f, in a frame g that f waits for, or in
\* the frame that waits for it: the ways stay as they were.
LEMMA FramesKeepPath ==
  ASSUME FileInv, NEW p \in Procs, stack[p] # <<>>, UNCHANGED call, PathOf(p),
         Way(call[p].file)',
         NEW f \in Frame, OnWay(f, call[p].file), f.file = Top(p).file,
         NEW g \in Frame,
         \/ Continue(p, f) /\ Reached(f)'
         \/ /\ Recurse(p, f, g) /\ OnWay(g, call[p].file) /\ Reached(g)'
            /\ f.at = "mkdir" /\ f.file # Root /\ g.file = Up[f.file]
         \/ /\ Return(p)
            /\ \A a \in Above[f.file] \cup {f.file} : kind'[a] = "dir"
  PROVE  PathOf(p)'
  <1> DEFINE s == stack[p]
             n == call[p].file
             Found(x) == /\ x.at # "father" => \A a \in Above[x.file] : kind'[a] = "dir"
                         /\ x.at \notin {"father", "mkdir"} => kind'[x.file] = "dir"
  <1>1. /\ s \in Seq(Frame) /\ s # <<>> /\ Len(s) \in Nat \ {0} /\ s[1] = Top(p)
        /\ outcome[p] = "running"
    BY FirstFrame, TopFrame DEF FileInv
  <1>2. /\ \A i \in 1 .. Len(s) : OnWay(s[i], n)
        /\ Chain(s)
    BY <1>1 DEF PathOf
  <1>3. stack = [q \in Procs |-> stack[q]] /\ outcome = [q \in Procs |-> outcome[q]]
    BY DEF FileInv, StackInv
  <1>4. call'[p].file = n
    OBVIOUS
  <1>5. ASSUME NEW t, t = stack'[p], outcome'[p] = "running",
               \A i \in 1 .. Len(t) : OnWay(t[i], n), Chain(t), Found(t[1])
        PROVE  PathOf(p)'
    <2>1. Chain(stack[p])' /\ Reached(stack[p][1])'
      BY <1>5 DEF Chain, Reached, Found
    <2>2. \A i \in 1 .. Len(stack'[p]) : OnWay(stack'[p][i], call'[p].file)
      BY <1>4, <1>5
    <2> QED  BY <1>5, <2>1, <2>2 DEF PathOf, OnWay
  <1>6. /\ Len(Tail(s)) = Len(s) - 1
        /\ \A i \in 1 .. Len(s) - 1 : Tail(s)[i] = s[i + 1]
        /\ Len(<<f>> \o Tail(s)) = Len(s)
        /\ (<<f>> \o Tail(s))[1] = f
        /\ \A i \in 2 .. Len(s) : (<<f>> \o Tail(s))[i] = s[i]
        /\ Len(<<g, f>> \o Tail(s)) = Len(s) + 1
        /\ (<<g, f>> \o Tail(s))[1] = g /\ (<<g, f>> \o Tail(s))[2] = f
        /\ \A i \in 3 .. Len(s) + 1 : (<<g, f>> \o Tail(s))[i] = s[i - 1]
    BY <1>1, StackFrames
  <1> HIDE DEF n, Found
  <1>7. CASE Continue(p, f) /\ Reached(f)'
    <2> DEFINE t == <<f>> \o Tail(s)
    <2>1. stack'[p] = t /\ outcome'[p] = "running"
      BY <1>1, <1>3, <1>7 DEF Continue
    <2>2. Len(t) = Len(s) /\ t[1] = f /\ \A i \in 2 .. Len(s) : t[i] = s[i]
      BY <1>6
    <2> HIDE DEF t, s
    <2>3. \A i \in 1 .. Len(t) : OnWay(t[i], n)
      <3>1. \A i \in 1 .. Len(s) : i = 1 \/ i \in 2 .. Len(s)
        BY <1>1
      <3> QED  BY <1>2, <2>2, <3>1 DEF n
    <2>4. Chain(t)
      <3> SUFFICES ASSUME NEW i \in 2 .. Len(t)
                   PROVE  t[i].at = "mkdir" /\ t[i].file # Root /\ t[i - 1].file = Up[t[i].file]
        BY DEF Chain
      <3>1. s[i].at = "mkdir" /\ s[i].file # Root /\ s[i - 1].file = Up[s[i].file]
        BY <1>2, <2>2 DEF Chain
      <3>2. t[i] = s[i] /\ t[i - 1].file = s[i - 1].file
        <4>1. CASE i = 2
          BY <1>1, <2>2, <4>1
        <4>2. CASE i # 2
          BY <1>1, <2>2, <4>2
        <4> QED  BY <4>1, <4>2
      <3> QED  BY <3>1, <3>2
    <2>5. Found(t[1])
      BY <1>7, <2>2 DEF Reached, Found
    <2> QED  BY <1>5, <2>1, <2>3, <2>4, <2>5
  <1>8. CASE /\ Recurse(p, f, g) /\ OnWay(g, n) /\ Reached(g)'
             /\ f.at = "mkdir" /\ f.file # Root /\ g.file = Up[f.file]
    <2>1. CASE ~ (Len(s) < MaxDepth)
      <3>1. outcome'[p] = "crashed"
        BY <1>1, <1>3, <1>8, <2>1 DEF Recurse, FileInv, StackInv
      <3> QED  BY <3>1 DEF PathOf
    <2>2. CASE Len(s) < MaxDepth
      <3> DEFINE t == <<g, f>> \o Tail(s)
      <3>1. stack'[p] = t /\ outcome'[p] = "running"
        BY <1>1, <1>3, <1>8, <2>2 DEF Recurse
      <3>2. /\ Len(t) = Len(s) + 1 /\ t[1] = g /\ t[2] = f
            /\ \A i \in 3 .. Len(s) + 1 : t[i] = s[i - 1]
        BY <1>6
      <3> HIDE DEF t, s
      <3>3. \A i \in 1 .. Len(t) : OnWay(t[i], n)
        <4>1. \A i \in 1 .. Len(t) :
                \/ i = 1 \/ i = 2 \/ (i \in 3 .. Len(s) + 1 /\ i - 1 \in 1 .. Len(s))
          BY <1>1, <3>2
        <4> QED  BY <1>2, <1>8, <3>2, <4>1 DEF n
      <3>4. Chain(t)
        <4> SUFFICES ASSUME NEW i \in 2 .. Len(t)
                     PROVE  t[i].at = "mkdir" /\ t[i].file # Root /\ t[i - 1].file = Up[t[i].file]
          BY DEF Chain
        <4>1. CASE i = 2
          BY <1>8, <3>2, <4>1
        <4>2. CASE i # 2
          <5>1. i - 1 \in 2 .. Len(s) /\ i \in 3 .. Len(s) + 1
            BY <1>1, <3>2, <4>2
          <5>2. /\ s[i - 1].at = "mkdir" /\ s[i - 1].file # Root
                /\ s[(i - 1) - 1].file = Up[s[i - 1].file]
            BY <1>2, <5>1 DEF Chain
          <5>3. t[i] = s[i - 1]
            BY <3>2, <5>1
          <5>4. t[i - 1].file = s[(i - 1) - 1].file
            <6>1. CASE i = 3
              BY <1>1, <3>2, <6>1
            <6>2. CASE i # 3
              BY <1>1, <3>2, <4>2, <6>2
            <6> QED  BY <6>1, <6>2
          <5> QED  BY <5>2, <5>3, <5>4
        <4> QED  BY <4>1, <4>2
      <3>5. Found(t[1])
        BY <1>8, <3>2 DEF Reached, Found
      <3> QED  BY <1>5, <3>1, <3>3, <3>4, <3>5
    <2> QED  BY <2>1, <2>2
  <1>9. CASE Return(p) /\ \A a \in Above[f.file] \cup {f.file} : kind'[a] = "dir"
    <2> DEFINE t == Tail(s)
    <2>1. CASE t = <<>>
      <3>1. outcome'[p] = "returned"
        BY <1>3, <1>9, <2>1 DEF Return, FileInv, StackInv
      <3> QED  BY <3>1 DEF PathOf
    <2>2. CASE t # <<>>
      <3>1. stack'[p] = t /\ outcome'[p] = "running"
        BY <1>1, <1>3, <1>9, <2>2 DEF Return, FileInv, StackInv
      <3>2. /\ t \in Seq(Frame) /\ Len(t) = Len(s) - 1
            /\ \A i \in 1 .. Len(s) - 1 : t[i] = s[i + 1]
        BY <1>1, <1>6, StackOperations
      <3>3. Len(s) >= 2 /\ t[1] = s[2]
        <4>1. Len(t) # 0
          BY <2>2, <3>2, EmptySeq
        <4> HIDE DEF t, s
        <4>2. Len(s) >= 2 /\ 1 \in 1 .. Len(s) - 1 /\ 1 + 1 = 2
          BY <1>1, <3>2, <4>1
        <4> QED  BY <3>2, <4>2
      <3> HIDE DEF t, s
      <3>4. \A i \in 1 .. Len(t) : OnWay(t[i], n)
        BY <1>1, <1>2, <3>2 DEF n
      <3>5. Chain(t)
        <4> SUFFICES ASSUME NEW i \in 2 .. Len(t)
                     PROVE  t[i].at = "mkdir" /\ t[i].file # Root /\ t[i - 1].file = Up[t[i].file]
          BY DEF Chain
        <4>1. /\ i + 1 \in 2 .. Len(s) /\ i \in 1 .. Len(s) - 1 /\ i - 1 \in 1 .. Len(s) - 1
              /\ (i + 1) - 1 = i /\ (i - 1) + 1 = i
          BY <1>1, <3>2
        <4>2. s[i + 1].at = "mkdir" /\ s[i + 1].file # Root /\ s[i].file = Up[s[i + 1].file]
          BY <1>2, <4>1 DEF Chain
        <4> QED  BY <3>2, <4>1, <4>2
      <3>6. Found(t[1])
        <4>1. s[2].at = "mkdir" /\ s[2].file # Root /\ f.file = Up[s[2].file]
          <5>1. 2 \in 2 .. Len(s) /\ 2 - 1 = 1
            BY <1>1, <3>3
          <5>2. s[1].file = f.file
            BY <1>1
          <5> QED  BY <1>2, <5>1, <5>2 DEF Chain
        <4>2. s[2].file \in Nodes
          <5>1. s[2] \in Frame
            BY <1>1, <3>3, ElementOfSeq
          <5> QED  BY <5>1 DEF Frame
        <4>3. Above[s[2].file] \subseteq {f.file} \cup Above[f.file]
          BY <4>1, <4>2, AboveSteps
        <4> QED  BY <1>9, <3>3, <4>1, <4>3 DEF Found
      <3> QED  BY <1>5, <3>1, <3>4, <3>5, <3>6
    <2> QED  BY <2>1, <2>2
  <1> QED  BY <1>7, <1>8, <1>9 DEF n

\* A step of an undisturbed call finds its way open and leaves it so.
LEMMA OwnStepKeepsPath ==
  ASSUME FileInv, NEW p \in Procs, Step(p), Undisturbed(p), PathOf(p)
  PROVE  PathOf(p)'
  <1> DEFINE n == call[p].file
             f == Top(p)
  <1>1. stack[p] # <<>>
    BY DEF Step, RemoveStep, MakeStep, IsDirectoryOf, Directory, NextChild, Rmdir, Unlink, Father,
           Mkdir, Exists, IsADirectory, FifoExists, IsFifo, Compare, Mkfifo, Permissions, Chmod, At
  <1>2. /\ outcome[p] = "running" /\ f = stack[p][1] /\ f \in Frame /\ n \in Nodes
        /\ Len(stack[p]) \in Nat \ {0}
    BY <1>1, TopFrame, FirstFrame, CallsAssumption DEF FileInv
  <1>3. Way(n) /\ OnWay(f, n) /\ Reached(f)
    <2>1. 1 \in 1 .. Len(stack[p])
      BY <1>2
    <2> QED  BY <1>2, <2>1 DEF PathOf
  <1>4. /\ f.at \in PathPlaces /\ f.file \in Nodes /\ f.perm \in SUBSET Rights
        /\ f.file \in Above[n] \cup {n} /\ (f.file # n => "owner" \in f.perm)
    BY <1>2, <1>3 DEF OnWay, Frame
  <1>5. /\ Above[f.file] \subseteq Above[n]
        /\ kind[f.file] \in {"none", "dir"}
        /\ f.at # "father" => Access(f.file)
        /\ f.at \notin {"father", "mkdir"} =>
              Stat(f.file) /\ Follow(f.file) = f.file /\ IsDirectory(f.file)
    BY <1>2, <1>3, OnTheWay
  <1>6. \A at \in PathPlaces : \A i \in BOOLEAN :
          /\ [f EXCEPT !.at = at] \in Frame
          /\ [f EXCEPT !.at = at, !.ignore = i] \in Frame
          /\ OnWay([f EXCEPT !.at = at], n)
          /\ OnWay([f EXCEPT !.at = at, !.ignore = i], n)
          /\ [f EXCEPT !.at = at].file = f.file /\ [f EXCEPT !.at = at].at = at
          /\ [f EXCEPT !.at = at, !.ignore = i].file = f.file
          /\ [f EXCEPT !.at = at, !.ignore = i].at = at
    BY <1>2, <1>4 DEF OnWay, Frame, PathPlaces, Places
  <1> HIDE DEF f, n
  <1>7. ASSUME UNCHANGED callVars,
               \A a \in Above[n] : kind'[a] = "none" \/ (kind'[a] = "dir" /\ "owner" \in mode'[a]),
               kind'[n] \in {"none", "dir"}
        PROVE  UNCHANGED call /\ Way(call[p].file)'
    BY <1>7 DEF Way, callVars, n
  <1>8. ASSUME Looks
        PROVE  UNCHANGED call /\ kind' = kind /\ Way(call[p].file)'
    BY <1>3, <1>7, <1>8 DEF Way, Looks, treeVars
  <1>9. ASSUME Looks, NEW at \in PathPlaces \ {"father"}, NEW i \in BOOLEAN,
               \/ Continue(p, [f EXCEPT !.at = at])
               \/ Continue(p, [f EXCEPT !.at = at, !.ignore = i]),
               \A a \in Above[f.file] : kind[a] = "dir",
               at # "mkdir" => kind[f.file] = "dir"
        PROVE  PathOf(p)'
    <2>1. ASSUME NEW g \in Frame, OnWay(g, n), g.file = f.file, g.at = at, Continue(p, g)
          PROVE  PathOf(p)'
      <3>1. Reached(g)'
        BY <1>8, <1>9, <2>1 DEF Reached
      <3> QED  BY <1>1, <1>8, <1>9, <2>1, <3>1, FramesKeepPath DEF f, n
    <2> QED  BY <1>6, <1>9, <2>1
  <1>10. ASSUME UNCHANGED call, Way(call[p].file)', Return(p),
                \A a \in Above[f.file] \cup {f.file} : kind'[a] = "dir"
         PROVE  PathOf(p)'
    BY <1>1, <1>2, <1>3, <1>10, FramesKeepPath DEF f, n
  <1>11. /\ f.at # "father" => \A a \in Above[f.file] : kind[a] = "dir"
         /\ f.at \notin {"father", "mkdir"} => kind[f.file] = "dir"
    BY <1>3 DEF Reached
  <1>12. CASE RemoveStep(p) \/ FifoExists(p) \/ IsFifo(p) \/ Compare(p) \/ Mkfifo(p)
    BY <1>4, <1>12 DEF RemoveStep, IsDirectoryOf, Directory, NextChild, Rmdir, Unlink,
                       FifoExists, IsFifo, Compare, Mkfifo, At, PathPlaces, f
  <1>13. CASE Father(p)
    <2>1. Looks /\ f.at = "father"
      BY <1>13 DEF Father, At, f
    <2>2. f.file # Root
      BY <1>1, <2>1, TopFrame DEF FileInv, FramesOf, RemovePlaces, f
    <2> DEFINE u == Up[f.file]
    <2>3. /\ u \in Nodes /\ u \in Above[f.file] /\ Above[f.file] \subseteq {u} \cup Above[u]
          /\ u \in Above[n]
      BY <1>4, <1>5, <2>2, AboveSteps, TreeAssumption
    <2>4. CASE Stat(u)
      <3>1. kind[u] = "none" \/ (kind[u] = "dir" /\ "owner" \in mode[u])
        BY <1>3, <2>3 DEF Way
      <3>2. kind[u] = "dir" /\ Access(u)
        BY <2>3, <2>4, <3>1, PassedStat DEF FileInv
      <3>3. \A a \in Above[f.file] : kind[a] = "dir"
        BY <2>3, <3>2 DEF Access
      <3>4. Continue(p, [f EXCEPT !.at = "mkdir"])
        BY <1>13, <2>4 DEF Father, Goto, f
      <3> QED  BY <1>9, <2>1, <3>3, <3>4 DEF PathPlaces
    <2>5. CASE ~ Stat(u)
      <3> DEFINE g == NewFrame("father", u, FatherRights(f.perm))
      <3>1. Recurse(p, [f EXCEPT !.at = "mkdir"], g)
        BY <1>13, <2>5 DEF Father, f
      <3>2. g \in Frame /\ g.file = u /\ g.at = "father" /\ "owner" \in g.perm
        BY <1>4, <2>3 DEF NewFrame, Frame, FatherRights, Places, Rights
      <3>3. /\ [f EXCEPT !.at = "mkdir"] \in Frame /\ OnWay([f EXCEPT !.at = "mkdir"], n)
            /\ [f EXCEPT !.at = "mkdir"].file = f.file /\ [f EXCEPT !.at = "mkdir"].at = "mkdir"
        BY <1>6 DEF PathPlaces
      <3>4. UNCHANGED call /\ Way(call[p].file)'
        BY <1>8, <2>1
      <3>5. ASSUME NEW x \in Frame, NEW y \in Frame, OnWay(x, n), x.file = f.file,
                   x.at = "mkdir", y.file = Up[f.file], y.at = "father", "owner" \in y.perm,
                   Recurse(p, x, y)
            PROVE  PathOf(p)'
        <4>1. OnWay(y, n)
          BY <2>3, <3>5 DEF OnWay, PathPlaces
        <4>2. Reached(y)'
          BY <3>5 DEF Reached
        <4> QED  BY <1>1, <2>2, <3>4, <3>5, <4>1, <4>2, FramesKeepPath DEF f, n
      <3> HIDE DEF g
      <3> QED  BY <3>1, <3>2, <3>3, <3>5
    <2> QED  BY <2>4, <2>5
  <1>14. CASE Mkdir(p)
    <2>1. f.at = "mkdir" /\ Access(f.file)
      BY <1>5, <1>14 DEF Mkdir, At, f
    <2>2. CASE kind[f.file] = "none"
      <3>1. Create(p, "dir", {"made"})
        BY <1>14, <2>1, <2>2 DEF Mkdir, MayCreate, f
      <3>2. /\ kind' = [kind EXCEPT ![f.file] = "dir"]
            /\ mode' = [mode EXCEPT ![f.file] = f.perm \ Umask]
            /\ Continue(p, [f EXCEPT !.at = "permissions"])
            /\ UNCHANGED callVars
        BY <3>1 DEF Create, Change, Goto, f
      <3>3. kind \in [Nodes -> Kinds] /\ mode \in [Nodes -> SUBSET Rights]
        BY DEF FileInv, TreeInv
      <3>4. f.file # n => "owner" \in f.perm \ Umask
        BY <1>4, UmaskAssumption
      <3>5. f.file \in Above[n] => f.file # n
        BY <1>4, PathAssumption
      <3>6. /\ \A a \in Above[n] : kind'[a] = "none" \/ (kind'[a] = "dir" /\ "owner" \in mode'[a])
            /\ kind'[n] \in {"none", "dir"}
        <4>1. n \in Nodes /\ Above[n] \subseteq Nodes
          BY <1>2, AboveSteps DEF n
        <4> QED  BY <1>3, <3>2, <3>3, <3>4, <3>5, <4>1 DEF Way
      <3> DEFINE g == [f EXCEPT !.at = "permissions"]
      <3>7. g \in Frame /\ OnWay(g, n) /\ g.file = f.file
        BY <1>6 DEF PathPlaces
      <3>8. kind'[f.file] = "dir" /\ \A a \in Above[f.file] : kind'[a] = "dir"
        <4>1. Above[f.file] \subseteq Nodes
          BY <1>4, AboveSteps
        <4> QED  BY <1>4, <1>11, <2>1, <3>2, <3>3, <4>1
      <3>9. ASSUME NEW x \in Frame, OnWay(x, n), x.file = f.file, Continue(p, x)
            PROVE  PathOf(p)'
        <4>1. Reached(x)'
          BY <3>8, <3>9 DEF Reached
        <4>2. UNCHANGED call /\ Way(call[p].file)'
          BY <1>7, <3>2, <3>6
        <4> QED  BY <1>1, <3>9, <4>1, <4>2, FramesKeepPath DEF f, n
      <3> HIDE DEF g
      <3> QED  BY <3>2, <3>7, <3>9 DEF g
    <2>3. CASE kind[f.file] # "none"
      <3>1. Looks /\ Continue(p, [f EXCEPT !.at = "exists"])
        BY <1>14, <2>3 DEF Mkdir, MayCreate, Goto, f
      <3> QED  BY <1>5, <1>9, <1>11, <2>1, <2>3, <3>1 DEF PathPlaces
    <2> QED  BY <2>2, <2>3
  <1>15. CASE Exists(p)
    <2>1. f.at = "exists"
      BY <1>15 DEF Exists, At, f
    <2>2. Looks /\ Continue(p, [f EXCEPT !.at = "is_a_directory"])
      BY <1>5, <1>15, <2>1 DEF Exists, Goto, f
    <2> QED  BY <1>9, <1>11, <2>1, <2>2 DEF PathPlaces
  <1>16. CASE IsADirectory(p)
    <2>1. f.at = "is_a_directory"
      BY <1>16 DEF IsADirectory, At, f
    <2>2. Looks /\ Continue(p, [f EXCEPT !.at = "permissions", !.ignore = TRUE])
      BY <1>5, <1>16, <2>1 DEF IsADirectory, f
    <2> QED  BY <1>9, <1>11, <2>1, <2>2 DEF PathPlaces
  <1>17. CASE Permissions(p)
    <2>1. f.at = "permissions" /\ Looks
      BY <1>5, <1>17 DEF Permissions, PermissionsFail, At, f
    <2>2. Return(p) \/ Continue(p, [f EXCEPT !.at = "chmod"])
      BY <1>5, <1>17, <2>1 DEF Permissions, Goto, f
    <2>3. CASE Return(p)
      BY <1>8, <1>10, <1>11, <2>1, <2>3
    <2>4. CASE Continue(p, [f EXCEPT !.at = "chmod"])
      BY <1>9, <1>11, <2>1, <2>4 DEF PathPlaces
    <2> QED  BY <2>2, <2>3, <2>4
  <1>18. CASE Chmod(p)
    <2>1. f.at = "chmod"
      BY <1>18 DEF Chmod, At, f
    <2>2. /\ kind' = [kind EXCEPT ![f.file] = kind[f.file]]
          /\ mode' = [mode EXCEPT ![f.file] = f.perm]
          /\ Return(p) /\ UNCHANGED callVars
      BY <1>5, <1>18, <2>1 DEF Chmod, Change, f
    <2>3. kind \in [Nodes -> Kinds] /\ mode \in [Nodes -> SUBSET Rights]
      BY DEF FileInv, TreeInv
    <2>4. kind' = kind
      BY <2>2, <2>3
    <2>5. f.file \in Above[n] => "owner" \in f.perm
      BY <1>2, <1>4, PathAssumption DEF n
    <2>6. \A a \in Above[n] : kind'[a] = "none" \/ (kind'[a] = "dir" /\ "owner" \in mode'[a])
      <3>1. Above[n] \subseteq Nodes
        BY <1>2, AboveSteps DEF n
      <3> QED  BY <1>3, <2>2, <2>3, <2>4, <2>5, <3>1 DEF Way
    <2>7. kind'[n] \in {"none", "dir"}
      BY <1>3, <2>4 DEF Way
    <2>8. UNCHANGED call /\ Way(call[p].file)'
      BY <1>7, <2>2, <2>6, <2>7
    <2> QED  BY <1>10, <1>11, <2>1, <2>2, <2>4, <2>8
  <1> QED  BY <1>12, <1>13, <1>14, <1>15, <1>16, <1>17, <1>18 DEF Step, MakeStep

\* A call that suits the tree begins with its way open.
LEMMA BeginHasPath ==
  ASSUME FileInv, NEW p \in Procs, Begin(p), Undisturbed(p)'
  PROVE  PathOf(p)'
  <1>1. PICK c \in Calls :
          /\ call' = [call EXCEPT ![p] = c]
          /\ fit' = [fit EXCEPT ![p] = Fit(c)]
          /\ stack' = [stack EXCEPT ![p] =
                         <<NewFrame(FirstStep(c.op), set_name(c.file), c.perm)>>]
    BY CallsAssumption DEF Begin
  <1>2. outcome' = [outcome EXCEPT ![p] = "running"] /\ kind' = kind /\ mode' = mode
    BY DEF Begin, treeVars
  <1>3. /\ call'[p] = c /\ fit'[p] = Fit(c) /\ outcome'[p] = "running"
        /\ stack'[p] = <<NewFrame(FirstStep(c.op), set_name(c.file), c.perm)>>
    BY <1>1, <1>2 DEF FileInv, StackInv, RemovedInv
  <1>4. Fit(c) /\ c.op \in {"make_dir", "make_path"}
    BY <1>3 DEF Undisturbed
  <1>5. c.file \in Nodes /\ c.perm \in SUBSET Rights
    BY CallsAssumption
  <1>6. Way(c.file) /\ (c.op = "make_dir" => Access(c.file))
    BY <1>4 DEF Fit, Way, Access
  <1>7. set_name(c.file) = c.file
    BY <1>6 DEF Way, set_name, Follow
  <1> DEFINE f == NewFrame(FirstStep(c.op), c.file, c.perm)
  <1>8. /\ f.file = c.file /\ f.at \in {"father", "mkdir"}
        /\ c.op = "make_path" => f.at = "father"
    BY <1>4 DEF NewFrame, FirstStep
  <1>9. OnWay(f, c.file)
    BY <1>8 DEF OnWay, PathPlaces
  <1>10. f.at # "father" => \A a \in Above[f.file] : kind[a] = "dir"
    BY <1>4, <1>6, <1>8 DEF Access
  <1>11. stack'[p] = <<f>>
    BY <1>3, <1>7
  <1> HIDE DEF f
  <1>12. Len(stack'[p]) = 1 /\ stack'[p][1] = f
    BY <1>11
  <1>13. Way(call[p].file)'
    BY <1>2, <1>3, <1>6 DEF Way
  <1>14. \A i \in 1 .. Len(stack'[p]) : OnWay(stack'[p][i], call'[p].file)
    BY <1>3, <1>9, <1>12
  <1>15. Chain(stack[p])' /\ Reached(stack[p][1])'
    BY <1>2, <1>8, <1>10, <1>12 DEF Chain, Reached
  <1> QED  BY <1>3, <1>13, <1>14, <1>15 DEF PathOf, OnWay

\* Nobody is called when the system starts.
LEMMA PathInit == Init => PathInv
  BY DEF Init, PathInv, Undisturbed

\* Every step keeps the ways open that it should.
LEMMA PathStep == FileInv /\ PathInv /\ [Next]_vars => PathInv'
  <1> SUFFICES ASSUME FileInv, PathInv, [Next]_vars, NEW p \in Procs, Undisturbed(p)'
               PROVE  PathOf(p)'
    BY DEF PathInv
  <1>1. CASE UNCHANGED vars
    <2>1. Undisturbed(p) /\ PathOf(p)
      BY <1>1 DEF Undisturbed, PathInv, vars, treeVars, callVars
    <2> QED  BY <1>1, <2>1 DEF PathOf, Way, OnWay, Chain, Reached, vars, treeVars, procVars, callVars
  <1>2. ASSUME NEW q \in Procs, Begin(q)  PROVE PathOf(p)'
    <2>1. CASE q = p
      BY <1>2, <2>1, BeginHasPath
    <2>2. CASE q # p
      <3>1. /\ call'[p] = call[p] /\ fit'[p] = fit[p] /\ outcome'[p] = outcome[p]
            /\ stack'[p] = stack[p] /\ kind' = kind /\ mode' = mode /\ harm' = harm
        BY <1>2, <2>2 DEF Begin, treeVars, FileInv, StackInv, RemovedInv
      <3>2. Undisturbed(p) /\ PathOf(p)
        BY <3>1 DEF Undisturbed, PathInv
      <3> QED  BY <3>1, <3>2 DEF PathOf, Way, OnWay, Chain, Reached
    <2> QED  BY <2>1, <2>2
  <1>3. ASSUME NEW q \in Procs, Step(q)  PROVE PathOf(p)'
    <2>1. CASE q = p
      <3>1. UNCHANGED callVars /\ harm'[p] = harm[p]
        <4>1. /\ UNCHANGED callVars
              /\ \/ UNCHANGED treeVars
                 \/ \E n \in Nodes, k \in Kinds, m \in SUBSET Rights, what \in SUBSET Harms :
                       Change(p, n, k, m, what)
          BY <1>3, <2>1, StepsOfOthers
        <4> QED  BY <4>1 DEF treeVars, Change, FileInv, TreeInv
      <3>2. Undisturbed(p) /\ PathOf(p)
        BY <3>1 DEF Undisturbed, PathInv, callVars
      <3> QED  BY <1>3, <2>1, <3>2, OwnStepKeepsPath
    <2>2. CASE q # p
      BY <1>3, <2>2, OthersKeepPath
    <2> QED  BY <2>1, <2>2
  <1> QED  BY <1>1, <1>2, <1>3 DEF Next

\* Processes that make directories and paths in the same places never make each
\* other throw, for any tree and any number of them, unless one of them shuts a
\* directory to its owner (File::make_dir, File::make_path).
THEOREM PathsDoNotCollide == Spec => []PathsNeverCollide
  <1>1. PathInv => PathsNeverCollide
    BY DEF PathInv, PathOf, Undisturbed, PathsNeverCollide
  <1> QED  BY FileInit, FileStep, PathInit, PathStep, <1>1, PTL DEF Spec

-----------------------------------------------------------------------------
(* How deep calls call themselves *)

\* The places of a call that makes a FIFO.
FifoPlaces == {"fifo_exists", "is_fifo", "compare", "mkfifo", "permissions", "chmod"}

\* Every frame is in R with those that wait for it, and in A with the one that
\* called it.
Shape(s, A, R) ==
    \A i, j \in 1 .. Len(s) : i < j =>
        /\ <<s[i], s[j]>> \in R
        /\ j = i + 1 => <<s[i], s[j]>> \in A

\* Nothing in the tree of r leads out of it, or looks like a directory and is none.
Plain(r) == \A n \in Below(r) : kind[n] \notin {"link", "socket"}

\* A remove of a plain tree works on a path of it with a list of its sons; the
\* frame that called it deals with the directory the path lies in.
DescentFrames(r) ==
    {f \in Frame : /\ f.file \in Below(r) \ {Root}
                   /\ \A x \in f.childs : x # Root /\ Up[x] = f.file}
DescentCalls == {c \in Frame \X Frame : c[2].at = "next" /\ c[2].file = Up[c[1].file]}
DescentOrder == {c \in Frame \X Frame : c[2].file \in Above[c[1].file]}

\* The stacks of a remove of the plain tree r.
Descent(r, s) == s \in Seq(DescentFrames(r)) /\ Shape(s, DescentCalls, DescentOrder)

\* make_path works on a directory, and the frame that called it on one that lies
\* there; the outermost is the call's own, and the only one of the other calls.
ClimbPlaces == [make_path |-> PathPlaces,
                make_dir  |-> PathPlaces \ {"father"},
                make_fifo |-> FifoPlaces]
ClimbFrames(op) ==
    {f \in Frame : f.at \in ClimbPlaces[op] /\ (op = "make_fifo" => ~ f.ignore)}
\* A frame of make_path waits for one that makes the directory its path lies in.
ClimbCalls ==
    {c \in Frame \X Frame :
        c[2].at = "mkdir" /\ c[2].file # Root /\ c[1].file = Up[c[2].file]}
ClimbOrder == {c \in Frame \X Frame : c[1].file \in Above[c[2].file]}

\* The stacks of the call c when it makes something.
Climb(c, s) ==
    /\ s \in Seq(ClimbFrames(c.op)) /\ Shape(s, ClimbCalls, ClimbOrder)
    /\ c.op # "make_path" => Len(s) = 1
    /\ s[Len(s)].perm = c.perm

\* A call has the stack that its recursion builds, and only a remove that did not
\* suit the tree runs out of it.
NestOf(p) ==
    /\ outcome[p] = "running" =>
          IF call[p].op = "remove"
          THEN fit[p] => Plain(call[p].file) /\ Descent(call[p].file, stack[p])
          ELSE /\ Climb(call[p], stack[p])
               /\ fit[p] => stack[p][Len(stack[p])].file = call[p].file
    /\ outcome[p] = "crashed" => call[p].op = "remove" /\ ~ fit[p]

\* The third invariant.
NestInv == \A p \in Procs : NestOf(p)

-----------------------------------------------------------------------------
\* What the ways to go on do to the shape of a stack.
LEMMA ShapeSteps ==
  ASSUME NEW F, NEW A, NEW R, NEW s \in Seq(F), s # <<>>, Shape(s, A, R),
         NEW f \in F, NEW g \in F,
         \A x \in F : /\ <<s[1], x>> \in A => <<f, x>> \in A
                      /\ <<s[1], x>> \in R => <<f, x>> \in R
  PROVE  /\ Shape(<<f>> \o Tail(s), A, R)
         /\ Shape(Tail(s), A, R)
         /\ (<<g, f>> \in A \cap R /\ \A i \in 2 .. Len(s) : <<g, s[i]>> \in R)
            => Shape(<<g, f>> \o Tail(s), A, R)
  <1>1. /\ Len(s) \in Nat \ {0}
        /\ Len(Tail(s)) = Len(s) - 1
        /\ \A i \in 1 .. Len(s) - 1 : Tail(s)[i] = s[i + 1]
        /\ Len(<<f>> \o Tail(s)) = Len(s)
        /\ (<<f>> \o Tail(s))[1] = f
        /\ \A i \in 2 .. Len(s) : (<<f>> \o Tail(s))[i] = s[i]
        /\ Len(<<g, f>> \o Tail(s)) = Len(s) + 1
        /\ (<<g, f>> \o Tail(s))[1] = g /\ (<<g, f>> \o Tail(s))[2] = f
        /\ \A i \in 3 .. Len(s) + 1 : (<<g, f>> \o Tail(s))[i] = s[i - 1]
    BY StackFrames
  <1>2. \A i \in 1 .. Len(s) : s[i] \in F
    BY ElementOfSeq
  <1> DEFINE t == Tail(s)
             c == <<f>> \o Tail(s)
             d == <<g, f>> \o Tail(s)
             n == Len(s)
  <1>3. \A i, j \in 1 .. n : i < j => <<s[i], s[j]>> \in R /\ (j = i + 1 => <<s[i], s[j]>> \in A)
    BY DEF Shape
  <1>4. /\ n \in Nat \ {0}
        /\ Len(t) = n - 1 /\ \A i \in 1 .. n - 1 : t[i] = s[i + 1]
        /\ Len(c) = n /\ c[1] = f /\ \A i \in 2 .. n : c[i] = s[i]
        /\ Len(d) = n + 1 /\ d[1] = g /\ d[2] = f /\ \A i \in 3 .. n + 1 : d[i] = s[i - 1]
    BY <1>1
  <1> HIDE DEF t, c, d, n
  <1>5. Shape(t, A, R)
    <2> SUFFICES ASSUME NEW i \in 1 .. Len(t), NEW j \in 1 .. Len(t), i < j
                 PROVE  <<t[i], t[j]>> \in R /\ (j = i + 1 => <<t[i], t[j]>> \in A)
      BY DEF Shape
    <2>1. /\ i + 1 \in 1 .. n /\ j + 1 \in 1 .. n /\ i + 1 < j + 1
          /\ i \in 1 .. n - 1 /\ j \in 1 .. n - 1
          /\ j = i + 1 => j + 1 = (i + 1) + 1
      BY <1>4
    <2> QED  BY <1>3, <1>4, <2>1
  <1>6. Shape(c, A, R)
    <2> SUFFICES ASSUME NEW i \in 1 .. Len(c), NEW j \in 1 .. Len(c), i < j
                 PROVE  <<c[i], c[j]>> \in R /\ (j = i + 1 => <<c[i], c[j]>> \in A)
      BY DEF Shape
    <2>1. j \in 2 .. n /\ i \in 1 .. n /\ (i = 1 \/ i \in 2 .. n) /\ j \in 1 .. n
      BY <1>4
    <2>2. <<s[i], s[j]>> \in R /\ (j = i + 1 => <<s[i], s[j]>> \in A) /\ s[j] \in F
      BY <1>2, <1>3, <2>1 DEF n
    <2> QED  BY <1>4, <2>1, <2>2
  <1>7. ASSUME <<g, f>> \in A \cap R, \A i \in 2 .. n : <<g, s[i]>> \in R
        PROVE  Shape(d, A, R)
    <2> SUFFICES ASSUME NEW i \in 1 .. Len(d), NEW j \in 1 .. Len(d), i < j
                 PROVE  <<d[i], d[j]>> \in R /\ (j = i + 1 => <<d[i], d[j]>> \in A)
      BY DEF Shape
    <2>1. CASE j = 2
      <3>1. i = 1
        BY <1>4, <2>1
      <3> QED  BY <1>4, <1>7, <2>1, <3>1
    <2>2. CASE j # 2
      <3>1. j \in 3 .. n + 1 /\ j - 1 \in 2 .. n /\ j - 1 \in 1 .. n /\ 1 \in 1 .. n
        BY <1>4, <2>2
      <3>2. d[j] = s[j - 1] /\ s[j - 1] \in F
        BY <1>2, <1>4, <3>1 DEF n
      <3>3. CASE i = 1
        <4>1. j # i + 1
          BY <2>2, <3>3
        <4> QED  BY <1>4, <1>7, <3>1, <3>2, <3>3, <4>1
      <3>4. CASE i = 2
        <4>1. <<s[1], s[j - 1]>> \in R /\ (j - 1 = 1 + 1 => <<s[1], s[j - 1]>> \in A)
          BY <1>3, <3>1
        <4>2. j = i + 1 => j - 1 = 1 + 1
          BY <3>1, <3>4
        <4> QED  BY <1>4, <3>2, <3>4, <4>1, <4>2
      <3>5. CASE i # 1 /\ i # 2
        <4>1. /\ i \in 3 .. n + 1 /\ i - 1 \in 1 .. n /\ i - 1 < j - 1
              /\ j = i + 1 => j - 1 = (i - 1) + 1
          BY <1>4, <3>1, <3>5
        <4>2. d[i] = s[i - 1]
          BY <1>4, <4>1
        <4>3. <<s[i - 1], s[j - 1]>> \in R /\ (j - 1 = (i - 1) + 1 => <<s[i - 1], s[j - 1]>> \in A)
          BY <1>3, <3>1, <4>1
        <4> QED  BY <3>2, <4>1, <4>2, <4>3
      <3> QED  BY <3>3, <3>4, <3>5
    <2> QED  BY <2>1, <2>2
  <1> QED  BY <1>5, <1>6, <1>7 DEF c, d, t, n

\* Different paths above one path are fewer than the stack has room for.
LEMMA PathsHaveRoom ==
  ASSUME NEW x \in Nodes, NEW n \in Nat, NEW h \in [1 .. n -> Above[x]],
         \A i, j \in 1 .. n : i < j => h[i] # h[j]
  PROVE  n < MaxDepth
  <1>1. /\ IsFiniteSet(Above[x]) /\ Cardinality(Above[x]) \in Nat
        /\ Cardinality(Above[x]) < MaxDepth /\ MaxDepth \in Nat
    BY RoomAssumption, DepthAssumption, FS_CardinalityType
  <1>2. IsFiniteSet(1 .. n) /\ Cardinality(1 .. n) = n
    BY FS_Interval
  <1>3. ASSUME ~ (n < MaxDepth)  PROVE FALSE
    <2>1. Cardinality(Above[x]) < Cardinality(1 .. n)
      BY <1>1, <1>2, <1>3
    <2>2. PICK i, j \in 1 .. n : i # j /\ h[i] = h[j]
      BY <1>1, <1>2, <2>1, FS_PigeonHole
    <2>3. i < j \/ j < i
      BY <2>2
    <2> QED  BY <2>2, <2>3
  <1> QED  BY <1>3

\* A remove that comes to a son of the path it is at has room for one more frame.
LEMMA DescentHasRoom ==
  ASSUME NEW r \in Nodes, NEW s, Descent(r, s), s # <<>>, NEW x \in Nodes \ {Root},
         Up[x] = s[1].file
  PROVE  /\ Len(s) < MaxDepth
         /\ \A i \in 1 .. Len(s) : s[i].file \in Above[x]
  <1>1. s \in Seq(DescentFrames(r)) /\ Shape(s, DescentCalls, DescentOrder)
    BY DEF Descent
  <1>2. Len(s) \in Nat \ {0} /\ \A i \in 1 .. Len(s) : s[i] \in Frame
    BY <1>1, ElementOfSeq, LenProperties, EmptySeq DEF DescentFrames
  <1>3. \A i \in 1 .. Len(s) : s[i].file \in Nodes
    BY <1>2 DEF Frame
  <1>4. 1 \in 1 .. Len(s) /\ s[1].file \in Above[x] /\ Above[s[1].file] \subseteq Above[x]
    BY <1>2, AboveSteps
  <1>5. \A i, j \in 1 .. Len(s) : i < j => s[j].file \in Above[s[i].file]
    BY <1>1, <1>2 DEF Shape, DescentOrder
  <1>6. \A i \in 1 .. Len(s) : i = 1 \/ 1 < i
    BY <1>2
  <1>7. \A i \in 1 .. Len(s) : s[i].file \in Above[x]
    BY <1>4, <1>5, <1>6
  <1> DEFINE h == [i \in 1 .. Len(s) |-> s[i].file]
  <1>8. h \in [1 .. Len(s) -> Above[x]]
    BY <1>7
  <1>9. \A i, j \in 1 .. Len(s) : i < j => h[i] # h[j]
    BY <1>3, <1>5, PathAssumption
  <1> HIDE DEF h
  <1> QED  BY <1>2, <1>7, <1>8, <1>9, PathsHaveRoom

\* A make_path whose directory has to be made has room for one more frame.
LEMMA ClimbHasRoom ==
  ASSUME NEW F \in SUBSET Frame, NEW s \in Seq(F), Shape(s, ClimbCalls, ClimbOrder), s # <<>>,
         s[1].file # Root
  PROVE  /\ Len(s) < MaxDepth
         /\ \A i \in 1 .. Len(s) : Up[s[1].file] \in Above[s[i].file]
  <1>1. Len(s) \in Nat \ {0} /\ \A i \in 1 .. Len(s) : s[i] \in Frame
    BY ElementOfSeq, LenProperties, EmptySeq
  <1>2. \A i \in 1 .. Len(s) : s[i].file \in Nodes
    BY <1>1 DEF Frame
  <1> DEFINE n == Len(s)
             u == Up[s[1].file]
  <1>3. \A i, j \in 1 .. n : i < j => s[i].file \in Above[s[j].file]
    BY <1>1 DEF Shape, ClimbOrder
  <1> HIDE DEF n
  <1>4. n \in Nat \ {0} /\ 1 \in 1 .. n /\ n \in 1 .. n
    BY <1>1 DEF n
  <1>5. u \in Above[s[1].file] /\ u \in Nodes
    BY <1>2, <1>4, AboveSteps, TreeAssumption DEF n
  <1>6. \A i \in 1 .. n : u \in Above[s[i].file]
    <2> SUFFICES ASSUME NEW i \in 1 .. n, 1 < i  PROVE u \in Above[s[i].file]
      BY <1>4, <1>5
    <2>1. s[1].file \in Above[s[i].file] /\ s[i].file \in Nodes
      BY <1>2, <1>3, <1>4 DEF n
    <2>2. Above[s[1].file] \subseteq Above[s[i].file]
      BY <2>1, AboveSteps
    <2> QED  BY <1>5, <2>2
  <1> DEFINE h == [i \in 1 .. n |-> IF i = 1 THEN u ELSE s[i - 1].file]
  <1>7. h \in [1 .. n -> Above[s[n].file]]
    <2> SUFFICES ASSUME NEW i \in 1 .. n  PROVE h[i] \in Above[s[n].file]
      OBVIOUS
    <2>1. CASE i = 1
      BY <1>4, <1>6, <2>1
    <2>2. CASE i # 1
      <3>1. i - 1 \in 1 .. n /\ i - 1 < n
        BY <1>4, <2>2
      <3> QED  BY <1>3, <1>4, <2>2, <3>1
    <2> QED  BY <2>1, <2>2
  <1>8. ASSUME NEW i \in 1 .. n, NEW j \in 1 .. n, i < j  PROVE h[i] # h[j]
    <2>1. j - 1 \in 1 .. n /\ j # 1 /\ s[j - 1].file \in Nodes
      BY <1>2, <1>4, <1>8 DEF n
    <2>2. CASE i = 1
      <3>1. u \in Above[s[j - 1].file]
        BY <1>6, <2>1
      <3> QED  BY <2>1, <2>2, <3>1, PathAssumption
    <2>3. CASE i # 1
      <3>1. i - 1 \in 1 .. n /\ i - 1 < j - 1
        BY <1>4, <1>8, <2>1, <2>3
      <3>2. s[i - 1].file \in Above[s[j - 1].file]
        BY <1>3, <2>1, <3>1
      <3> QED  BY <2>1, <2>3, <3>2, PathAssumption
    <2> QED  BY <2>2, <2>3
  <1> HIDE DEF h
  <1>9. s[n].file \in Nodes
    BY <1>2, <1>4 DEF n
  <1>10. n < MaxDepth
    BY <1>4, <1>7, <1>8, <1>9, PathsHaveRoom
  <1> QED  BY <1>6, <1>10 DEF n

\* The stack of a remove after each of the ways to go on.
LEMMA DescentSteps ==
  ASSUME NEW r \in Nodes, NEW s, Descent(r, s), s # <<>>,
         NEW f \in DescentFrames(r), f.file = s[1].file
  PROVE  /\ Descent(r, <<f>> \o Tail(s))
         /\ Descent(r, Tail(s))
         /\ \A g \in DescentFrames(r) :
               f.at = "next" /\ f.file = Up[g.file] =>
                  Len(s) < MaxDepth /\ Descent(r, <<g, f>> \o Tail(s))
  <1> DEFINE F == DescentFrames(r)
  <1>1. s \in Seq(F) /\ Shape(s, DescentCalls, DescentOrder) /\ f \in F
    BY DEF Descent
  <1>2. F \subseteq Frame /\ \A x \in F : x.file \in Nodes \ {Root}
    BY DEF DescentFrames, Frame
  <1> HIDE DEF F
  <1>3. Len(s) \in Nat \ {0} /\ \A i \in 1 .. Len(s) : s[i] \in F
    BY <1>1, ElementOfSeq, LenProperties, EmptySeq
  <1>4. s[1] \in F
    BY <1>3
  <1>5. \A x \in F : /\ <<s[1], x>> \in DescentCalls => <<f, x>> \in DescentCalls
                     /\ <<s[1], x>> \in DescentOrder => <<f, x>> \in DescentOrder
    BY <1>1, <1>2, <1>4 DEF DescentCalls, DescentOrder
  <1>6. Shape(<<f>> \o Tail(s), DescentCalls, DescentOrder) /\ Shape(Tail(s), DescentCalls, DescentOrder)
    BY <1>1, <1>5, ShapeSteps
  <1>7. Tail(s) \in Seq(F) /\ <<f>> \o Tail(s) \in Seq(F)
    BY <1>1, StackOperations
  <1>8. ASSUME NEW g \in F, f.at = "next", f.file = Up[g.file]
        PROVE  Len(s) < MaxDepth /\ Descent(r, <<g, f>> \o Tail(s))
    <2>1. g.file \in Nodes \ {Root} /\ Up[g.file] = s[1].file
      BY <1>2, <1>8
    <2>2. /\ Len(s) < MaxDepth
          /\ \A i \in 1 .. Len(s) : s[i].file \in Above[g.file]
      BY <2>1, DescentHasRoom
    <2>3. \A i \in 1 .. Len(s) : <<g, s[i]>> \in DescentOrder
      BY <1>2, <1>3, <2>2 DEF DescentOrder
    <2>4. f.file \in Above[g.file]
      BY <1>3, <2>2
    <2>5. <<g, f>> \in DescentCalls \cap DescentOrder
      BY <1>1, <1>2, <1>8, <2>4 DEF DescentCalls, DescentOrder
    <2>6. \A i \in 2 .. Len(s) : <<g, s[i]>> \in DescentOrder
      BY <2>3
    <2>7. Shape(<<g, f>> \o Tail(s), DescentCalls, DescentOrder)
      BY <1>1, <1>5, <2>5, <2>6, ShapeSteps
    <2>8. <<g, f>> \o Tail(s) \in Seq(F)
      BY <1>1, StackOperations
    <2> QED  BY <2>2, <2>7, <2>8 DEF Descent, F
  <1> QED  BY <1>6, <1>7, <1>8 DEF Descent, F

\* The stack of a call that creates after each of the ways to go on; the frame of
\* the call itself stays the outermost, with its path and its permissions.
LEMMA ClimbSteps ==
  ASSUME NEW c \in Calls, c.op # "remove", NEW s, Climb(c, s), s # <<>>,
         NEW f \in ClimbFrames(c.op), f.file = s[1].file, f.perm = s[1].perm
  PROVE  /\ Climb(c, <<f>> \o Tail(s))
         /\ LET t == <<f>> \o Tail(s) IN t[Len(t)].file = s[Len(s)].file
         /\ Tail(s) # <<>> =>
               Climb(c, Tail(s)) /\ Tail(s)[Len(Tail(s))].file = s[Len(s)].file
         /\ \A g \in ClimbFrames(c.op) :
               c.op = "make_path" /\ f.at = "mkdir" /\ f.file # Root /\ g.file = Up[f.file] =>
                  LET t == <<g, f>> \o Tail(s) IN
                  /\ Len(s) < MaxDepth
                  /\ Climb(c, t) /\ t[Len(t)].file = s[Len(s)].file
  <1> DEFINE F == ClimbFrames(c.op)
  <1>1. /\ s \in Seq(F) /\ Shape(s, ClimbCalls, ClimbOrder) /\ f \in F
        /\ c.op # "make_path" => Len(s) = 1
        /\ s[Len(s)].perm = c.perm
    BY DEF Climb
  <1>2. F \subseteq Frame /\ \A x \in F : x.file \in Nodes
    BY DEF ClimbFrames, Frame
  <1> HIDE DEF F
  <1>3. Len(s) \in Nat \ {0} /\ \A i \in 1 .. Len(s) : s[i] \in F
    BY <1>1, ElementOfSeq, LenProperties, EmptySeq
  <1>4. s[1] \in F /\ Len(s) \in Nat \ {0}
    BY <1>3
  <1>5. \A x \in F : /\ <<s[1], x>> \in ClimbCalls => <<f, x>> \in ClimbCalls
                     /\ <<s[1], x>> \in ClimbOrder => <<f, x>> \in ClimbOrder
    BY <1>1, <1>2, <1>4 DEF ClimbCalls, ClimbOrder
  <1>6. Shape(<<f>> \o Tail(s), ClimbCalls, ClimbOrder) /\ Shape(Tail(s), ClimbCalls, ClimbOrder)
    BY <1>1, <1>5, ShapeSteps
  <1>7. Tail(s) \in Seq(F) /\ <<f>> \o Tail(s) \in Seq(F)
    BY <1>1, StackOperations
  <1>8. /\ Len(Tail(s)) = Len(s) - 1
        /\ \A i \in 1 .. Len(s) - 1 : Tail(s)[i] = s[i + 1]
        /\ Len(<<f>> \o Tail(s)) = Len(s)
        /\ (<<f>> \o Tail(s))[1] = f
        /\ \A i \in 2 .. Len(s) : (<<f>> \o Tail(s))[i] = s[i]
    BY <1>1, StackFrames
  <1> DEFINE t == <<f>> \o Tail(s)
  <1>9. Climb(c, t) /\ t[Len(t)].file = s[Len(s)].file
    <2>1. Len(t) = Len(s) /\ t[1] = f /\ \A i \in 2 .. Len(s) : t[i] = s[i]
      BY <1>8
    <2> HIDE DEF t
    <2>2. t[Len(t)].file = s[Len(s)].file /\ t[Len(t)].perm = c.perm
      <3>1. CASE Len(s) = 1
        BY <1>1, <2>1, <3>1
      <3>2. CASE Len(s) # 1
        <4>1. ASSUME NEW n \in Nat \ {0}, n # 1  PROVE n \in 2 .. n
          BY <4>1
        <4>2. Len(s) \in 2 .. Len(s)
          BY <1>4, <3>2, <4>1
        <4>3. t[Len(t)] = s[Len(s)]
          BY <2>1, <4>2
        <4> QED  BY <1>1, <4>3
      <3> QED  BY <3>1, <3>2
    <2> QED  BY <1>1, <1>6, <1>7, <2>1, <2>2 DEF Climb, F, t
  <1>10. ASSUME Tail(s) # <<>>
         PROVE  Climb(c, Tail(s)) /\ Tail(s)[Len(Tail(s))].file = s[Len(s)].file
    <2> DEFINE r == Tail(s)
    <2>1. /\ Len(r) = Len(s) - 1 /\ Len(r) # 0 /\ r \in Seq(F)
          /\ \A i \in 1 .. Len(s) - 1 : r[i] = s[i + 1]
      BY <1>7, <1>8, <1>10, EmptySeq
    <2> HIDE DEF r
    <2>2. Len(s) - 1 \in 1 .. Len(s) - 1 /\ (Len(s) - 1) + 1 = Len(s) /\ Len(s) # 1
      BY <1>3, <2>1
    <2>3. r[Len(r)] = s[Len(s)]
      BY <2>1, <2>2
    <2> QED  BY <1>1, <1>6, <2>1, <2>2, <2>3 DEF Climb, F, r
  <1>11. ASSUME NEW g \in F, c.op = "make_path", f.at = "mkdir", f.file # Root, g.file = Up[f.file]
         PROVE  LET d == <<g, f>> \o Tail(s) IN
                Len(s) < MaxDepth /\ Climb(c, d) /\ d[Len(d)].file = s[Len(s)].file
    <2>1. s[1].file # Root /\ g.file = Up[s[1].file]
      BY <1>11
    <2>2. /\ Len(s) < MaxDepth
          /\ \A i \in 1 .. Len(s) : g.file \in Above[s[i].file]
      BY <1>1, <1>2, <2>1, ClimbHasRoom
    <2>3. \A i \in 1 .. Len(s) : <<g, s[i]>> \in ClimbOrder
      BY <1>2, <1>3, <2>2 DEF ClimbOrder
    <2>4. g.file \in Above[f.file]
      BY <1>3, <2>2
    <2>5. <<g, f>> \in ClimbCalls \cap ClimbOrder
      BY <1>1, <1>2, <1>11, <2>4 DEF ClimbCalls, ClimbOrder
    <2>6. \A i \in 2 .. Len(s) : <<g, s[i]>> \in ClimbOrder
      BY <2>3
    <2>7. Shape(<<g, f>> \o Tail(s), ClimbCalls, ClimbOrder)
      BY <1>1, <1>5, <2>5, <2>6, ShapeSteps
    <2>8. <<g, f>> \o Tail(s) \in Seq(F)
      BY <1>1, StackOperations
    <2> DEFINE d == <<g, f>> \o Tail(s)
    <2>9. /\ Len(d) = Len(s) + 1 /\ d[2] = f
          /\ \A i \in 3 .. Len(s) + 1 : d[i] = s[i - 1]
      BY <1>1, StackFrames
    <2> HIDE DEF d
    <2>10. d[Len(d)].file = s[Len(s)].file /\ d[Len(d)].perm = c.perm
      <3>1. CASE Len(s) = 1
        BY <1>1, <2>9, <3>1
      <3>2. CASE Len(s) # 1
        <4>1. ASSUME NEW n \in Nat \ {0}, n # 1  PROVE n + 1 \in 3 .. n + 1 /\ (n + 1) - 1 = n
          BY <4>1
        <4>2. Len(s) + 1 \in 3 .. Len(s) + 1 /\ (Len(s) + 1) - 1 = Len(s)
          BY <1>4, <3>2, <4>1
        <4>3. d[Len(d)] = s[Len(s)]
          BY <2>9, <4>2
        <4> QED  BY <1>1, <4>3
      <3> QED  BY <3>1, <3>2
    <2> QED  BY <1>11, <2>2, <2>7, <2>8, <2>10 DEF Climb, F, d
  <1> QED  BY <1>9, <1>10, <1>11 DEF F

-----------------------------------------------------------------------------
\* What lies in a directory of a tree belongs to the tree.
LEMMA BelowSons ==
  ASSUME NEW r \in Nodes
  PROVE  /\ r \in Below(r) /\ Below(r) \subseteq Nodes
         /\ \A x \in Nodes \ {Root} : Up[x] \in Below(r) => x \in Below(r)
  <1>1. ASSUME NEW x \in Nodes \ {Root}, Up[x] \in Below(r)  PROVE x \in Below(r)
    <2>1. Up[x] \in Above[x] /\ Above[Up[x]] \subseteq Above[x]
      BY AboveSteps
    <2> QED  BY <1>1, <2>1 DEF Below
  <1> QED  BY <1>1 DEF Below

\* In a plain tree a path is what it looks like, and so are those it holds.
LEMMA PlainPaths ==
  ASSUME TreeInv, NEW r \in Nodes, Plain(r), NEW n \in Below(r)
  PROVE  /\ n \in Nodes /\ set_name(n) = n /\ Follow(n) = n
         /\ Stat(n) <=> Access(n) /\ kind[n] # "none"
         /\ IsDirectory(n) <=> kind[n] = "dir"
         /\ Listing(n) = Children(n)
         /\ Children(n) \subseteq Below(r) \ {Root}
         /\ \A x \in Children(n) : Up[x] = n
  <1>1. ASSUME NEW m \in Below(r)
        PROVE  /\ m \in Nodes /\ set_name(m) = m /\ Follow(m) = m
               /\ kind[m] \notin {"link", "socket"}
    BY BelowSons DEF Plain, set_name, Follow
  <1>2. Children(n) \subseteq Below(r) \ {Root} /\ \A x \in Children(n) : Up[x] = n
    BY BelowSons DEF Children
  <1>3. Listing(n) = Children(n)
    <2>1. \A x \in Children(n) : set_name(x) = x
      BY <1>1, <1>2
    <2>2. Follow(n) = n
      BY <1>1
    <2> HIDE DEF Children
    <2> QED  BY <2>1, <2>2 DEF Listing
  <1> QED  BY <1>1, <1>2, <1>3 DEF Stat, IsDirectory

\* A remove of a plain tree goes on in its innermost frame, in one for a son of its
\* path, for which there is room, or in the frame that waits for it.
LEMMA DescentGoesOn ==
  ASSUME FileInv, NEW p \in Procs, stack[p] # <<>>, UNCHANGED callVars,
         call[p].op = "remove", Descent(call[p].file, stack[p]), Plain(call[p].file)',
         NEW f \in DescentFrames(call[p].file), f.file = Top(p).file,
         NEW g \in DescentFrames(call[p].file),
         \/ Continue(p, f) \/ Return(p) \/ Throw(p)
         \/ Recurse(p, f, g) /\ f.at = "next" /\ f.file = Up[g.file]
  PROVE  NestOf(p)'
  <1> DEFINE s == stack[p]
             r == call[p].file
  <1>1. outcome[p] = "running" /\ s[1] = Top(p) /\ r \in Nodes
    BY TopFrame, FirstFrame, CallsAssumption DEF FileInv
  <1>2. stack = [q \in Procs |-> stack[q]] /\ outcome = [q \in Procs |-> outcome[q]]
    BY DEF FileInv, StackInv
  <1>3. /\ Descent(r, <<f>> \o Tail(s)) /\ Descent(r, Tail(s))
        /\ f.at = "next" /\ f.file = Up[g.file] =>
              Len(s) < MaxDepth /\ Descent(r, <<g, f>> \o Tail(s))
    BY <1>1, DescentSteps
  <1>4. call'[p] = call[p] /\ call'[p].file = r /\ call'[p].op = "remove"
    BY DEF callVars
  <1>5. outcome'[p] # "crashed" /\ (outcome'[p] = "running" => Descent(r, stack'[p]))
    <2>1. CASE Continue(p, f)
      BY <1>1, <1>2, <1>3, <2>1 DEF Continue
    <2>2. CASE Return(p)
      BY <1>1, <1>2, <1>3, <2>2 DEF Return
    <2>3. CASE Throw(p)
      BY <1>2, <2>3 DEF Throw
    <2>4. CASE Recurse(p, f, g) /\ f.at = "next" /\ f.file = Up[g.file]
      BY <1>1, <1>2, <1>3, <2>4 DEF Recurse
    <2> QED  BY <2>1, <2>2, <2>3, <2>4
  <1>6. outcome'[p] = "running" => Descent(call[p].file, stack[p])'
    BY <1>4, <1>5 DEF Descent, Shape, DescentFrames, Below
  <1> HIDE DEF s, r
  <1>7. Plain(call[p].file)'
    OBVIOUS
  <1> QED  BY <1>4, <1>5, <1>6, <1>7 DEF NestOf

\* So does a call that creates.
LEMMA ClimbGoesOn ==
  ASSUME FileInv, NEW p \in Procs, stack[p] # <<>>, UNCHANGED callVars,
         call[p].op # "remove", NestOf(p),
         NEW f \in ClimbFrames(call[p].op), f.file = Top(p).file, f.perm = Top(p).perm,
         NEW g \in ClimbFrames(call[p].op),
         \/ Continue(p, f) \/ Return(p) \/ Throw(p)
         \/ /\ Recurse(p, f, g) /\ call[p].op = "make_path"
            /\ f.at = "mkdir" /\ f.file # Root /\ g.file = Up[f.file]
  PROVE  NestOf(p)'
  <1> DEFINE s == stack[p]
             c == call[p]
             Same(t) == Climb(c, t) /\ t[Len(t)].file = s[Len(s)].file
  <1>1. outcome[p] = "running" /\ s[1] = Top(p) /\ c \in Calls
    BY TopFrame, FirstFrame, CallsAssumption DEF FileInv
  <1>2. stack = [q \in Procs |-> stack[q]] /\ outcome = [q \in Procs |-> outcome[q]]
    BY DEF FileInv, StackInv
  <1>3. Climb(c, s) /\ (fit[p] => s[Len(s)].file = c.file)
    BY <1>1 DEF NestOf
  <1>4. /\ Same(<<f>> \o Tail(s)) /\ (Tail(s) # <<>> => Same(Tail(s)))
        /\ c.op = "make_path" /\ f.at = "mkdir" /\ f.file # Root /\ g.file = Up[f.file] =>
              Len(s) < MaxDepth /\ Same(<<g, f>> \o Tail(s))
    BY <1>1, <1>3, ClimbSteps
  <1>5. call'[p] = c /\ fit'[p] = fit[p]
    BY DEF callVars
  <1> HIDE DEF Same
  <1>6. outcome'[p] # "crashed" /\ (outcome'[p] = "running" => Same(stack'[p]))
    <2>1. CASE Continue(p, f)
      BY <1>1, <1>2, <1>4, <2>1 DEF Continue
    <2>2. CASE Return(p)
      BY <1>1, <1>2, <1>4, <2>2 DEF Return
    <2>3. CASE Throw(p)
      BY <1>2, <2>3 DEF Throw
    <2>4. CASE /\ Recurse(p, f, g) /\ c.op = "make_path"
               /\ f.at = "mkdir" /\ f.file # Root /\ g.file = Up[f.file]
      BY <1>1, <1>2, <1>4, <2>4 DEF Recurse
    <2> QED  BY <2>1, <2>2, <2>3, <2>4
  <1>7. outcome'[p] = "running" =>
          Climb(call[p], stack[p])' /\ (fit'[p] => stack'[p][Len(stack'[p])].file = c.file)
    BY <1>3, <1>5, <1>6 DEF Same, Climb, Shape
  <1> QED  BY <1>5, <1>6, <1>7 DEF NestOf

\* No step makes a link or a socket.
LEMMA PlainStays ==
  ASSUME FileInv, NEW q \in Procs, Step(q), NEW r \in Nodes, Plain(r)
  PROVE  Plain(r)'
  <1>1. kind \in [Nodes -> Kinds] /\ Below(r) \subseteq Nodes
    BY BelowSons DEF FileInv, TreeInv
  <1>2. ASSUME NEW n \in Nodes, NEW k \in Kinds, NEW m \in SUBSET Rights, NEW what,
               Change(q, n, k, m, what), Noticed(n, k, m, what)
        PROVE  \A x \in Below(r) : kind'[x] \notin {"link", "socket"}
    BY <1>1, <1>2 DEF Change, Noticed, Plain
  <1>3. UNCHANGED treeVars \/ \A x \in Below(r) : kind'[x] \notin {"link", "socket"}
    BY <1>2, StepsOfOthers
  <1> QED  BY <1>3 DEF Plain, Below, treeVars

\* A step of a process leaves the stacks of the others as they are.
LEMMA OthersKeepNest ==
  ASSUME FileInv, NEW q \in Procs, Step(q), NEW p \in Procs \ {q}, NestOf(p)
  PROVE  NestOf(p)'
  <1>1. UNCHANGED callVars /\ stack'[p] = stack[p] /\ outcome'[p] = outcome[p]
    BY StepsOfOthers
  <1>2. outcome[p] = "running" => call[p].file \in Nodes
    BY CallsAssumption DEF FileInv, StackInv
  <1>3. outcome[p] = "running" /\ Plain(call[p].file) => Plain(call[p].file)'
    BY <1>1, <1>2, PlainStays DEF callVars, Plain, Below
  <1> QED  BY <1>1, <1>3 DEF NestOf, callVars, Descent, Climb, Shape

\* A step of a remove.
LEMMA RemoveKeepsNest ==
  ASSUME FileInv, NEW p \in Procs, RemoveStep(p), NestOf(p)
  PROVE  NestOf(p)'
  <1> DEFINE f == Top(p)
             r == call[p].file
             F == DescentFrames(r)
  <1>1. stack[p] # <<>> /\ f.at \in RemovePlaces
    BY DEF RemoveStep, IsDirectoryOf, Directory, NextChild, Rmdir, Unlink, At, RemovePlaces
  <1>2. /\ outcome[p] = "running" /\ call[p].op = "remove" /\ r \in Nodes
        /\ f = stack[p][1] /\ Len(stack[p]) \in Nat \ {0}
    BY <1>1, TopFrame, FirstFrame, CallsAssumption DEF FileInv, FramesOf
  <1>3. UNCHANGED callVars
    BY StepsOfOthers DEF Step
  <1>4. CASE ~ fit[p]
    BY <1>2, <1>3, <1>4 DEF NestOf, callVars
  <1>5. CASE fit[p]
    <2>1. Plain(r) /\ Descent(r, stack[p])
      BY <1>2, <1>5 DEF NestOf
    <2>2. f \in F
      <3>1. 1 \in 1 .. Len(stack[p])
        BY <1>2
      <3> QED  BY <1>2, <2>1, <3>1, ElementOfSeq DEF Descent
    <2>3. Plain(call[p].file)'
      <3>1. \A x \in Nodes : Plain(x) => Plain(x)'
        BY PlainStays DEF Step
      <3>2. call'[p].file = call[p].file
        BY <1>3 DEF callVars
      <3> QED  BY <1>2, <2>1, <3>1, <3>2 DEF Plain
    <2>4. /\ f.file \in Below(r) \ {Root} /\ f.file \in Nodes
          /\ \A x \in f.childs : x \in Nodes \ {Root} /\ Up[x] = f.file
      BY <2>2, BelowSons, <1>2 DEF DescentFrames, Frame
    <2>5. ASSUME NEW at \in RemovePlaces, NEW S \in SUBSET Nodes,
                 \A x \in S : x # Root /\ Up[x] = f.file
          PROVE  LET h == [f EXCEPT !.at = at, !.childs = S] IN
                 h \in F /\ h.file = f.file /\ h.at = at
      BY <2>2, <2>5 DEF DescentFrames, Frame, RemovePlaces, Places
    <2>6. ASSUME NEW at \in RemovePlaces
          PROVE  LET h == [f EXCEPT !.at = at] IN h \in F /\ h.file = f.file /\ h.at = at
      BY <2>2, <2>6 DEF DescentFrames, Frame, RemovePlaces, Places
    <2>7. ASSUME NEW n \in Below(r) \ {Root}
          PROVE  LET h == NewFrame("is_directory", n, {}) IN h \in F /\ h.file = n
      BY <1>2, <2>7, BelowSons DEF DescentFrames, Frame, NewFrame, Places
    <2> HIDE DEF f, r, F
    <2>8. ASSUME NEW h \in F, h.file = f.file, Continue(p, h) \/ Return(p) \/ Throw(p)
          PROVE  NestOf(p)'
      BY <1>1, <1>2, <1>3, <2>1, <2>3, <2>8, DescentGoesOn DEF f, r, F
    <2>9. CASE IsDirectoryOf(p)
      <3>1. Throw(p) \/ \E at \in RemovePlaces : Continue(p, [f EXCEPT !.at = at])
        BY <2>9 DEF IsDirectoryOf, Goto, RemovePlaces, f
      <3> QED  BY <2>2, <2>6, <2>8, <3>1
    <2>10. CASE Directory(p)
      <3>1. Listing(f.file) \subseteq Nodes \ {Root} /\ \A x \in Listing(f.file) : Up[x] = f.file
        BY <1>2, <2>1, <2>4, PlainPaths, BelowSons DEF FileInv
      <3>2. Throw(p) \/ Continue(p, [f EXCEPT !.at = "next", !.childs = Listing(f.file)])
        BY <2>10 DEF Directory, f
      <3>3. LET h == [f EXCEPT !.at = "next", !.childs = Listing(f.file)] IN
            h \in F /\ h.file = f.file
        BY <2>5, <3>1 DEF RemovePlaces
      <3> QED  BY <2>2, <2>8, <3>2, <3>3
    <2>11. CASE NextChild(p)
      <3>1. f.at = "next"
        BY <2>11 DEF NextChild, At, f
      <3>2. CASE f.childs = {}
        <4>1. Continue(p, [f EXCEPT !.at = "rmdir"])
          BY <2>11, <3>2 DEF NextChild, Goto, f
        <4> QED  BY <2>6, <2>8, <4>1 DEF RemovePlaces
      <3>3. CASE f.childs # {}
        <4>1. PICK c \in f.childs :
                LET rest == [f EXCEPT !.childs = @ \ {c}] IN
                \/ Recurse(p, rest, NewFrame("is_directory", set_name(c), {}))
                \/ Continue(p, rest)
          BY <2>11, <3>3 DEF NextChild, f
        <4>2. c \in Nodes \ {Root} /\ Up[c] = f.file /\ c \in Below(r) \ {Root}
          BY <1>2, <2>4, BelowSons
        <4>3. set_name(c) = c
          BY <1>2, <2>1, <4>2, PlainPaths DEF FileInv
        <4> DEFINE rest == [f EXCEPT !.childs = @ \ {c}]
                   g == NewFrame("is_directory", c, {})
        <4>4. rest \in F /\ rest.file = f.file /\ rest.at = "next"
          BY <2>2, <3>1 DEF F, DescentFrames, Frame
        <4>5. g \in F /\ g.file = c
          BY <2>7, <4>2
        <4>6. Recurse(p, rest, g) \/ Continue(p, rest)
          BY <4>1, <4>3
        <4> HIDE DEF rest, g
        <4> QED  BY <1>1, <1>2, <1>3, <2>1, <2>3, <4>2, <4>4, <4>5, <4>6, DescentGoesOn
                 DEF f, r, F
      <3> QED  BY <3>2, <3>3
    <2>12. CASE Rmdir(p)
      BY <2>2, <2>8, <2>12 DEF Rmdir, Delete
    <2>13. CASE Unlink(p)
      BY <2>2, <2>8, <2>13 DEF Unlink, Delete
    <2> QED  BY <2>9, <2>10, <2>11, <2>12, <2>13 DEF RemoveStep
  <1> QED  BY <1>4, <1>5

\* A step of a call that creates.
LEMMA MakeKeepsNest ==
  ASSUME FileInv, NEW p \in Procs, MakeStep(p), NestOf(p)
  PROVE  NestOf(p)'
  <1> DEFINE f == Top(p)
             op == call[p].op
             F == ClimbFrames(op)
  <1>1. stack[p] # <<>> /\ f.at \notin RemovePlaces
    BY DEF MakeStep, Father, Mkdir, Exists, IsADirectory, FifoExists, IsFifo, Compare, Mkfifo,
           Permissions, Chmod, At, RemovePlaces
  <1>2. /\ outcome[p] = "running" /\ op \in {"make_dir", "make_path", "make_fifo"}
        /\ f = stack[p][1] /\ Len(stack[p]) \in Nat \ {0}
        /\ f \in Frame /\ (f.at = "father" => f.file # Root)
    BY <1>1, TopFrame, FirstFrame, CallsAssumption DEF FileInv, FramesOf
  <1>3. UNCHANGED callVars
    BY StepsOfOthers DEF Step
  <1>4. f \in F
    <2>1. 1 \in 1 .. Len(stack[p]) /\ stack[p] \in Seq(F)
      BY <1>2 DEF NestOf, Climb
    <2> QED  BY <1>2, <2>1, ElementOfSeq
  <1>5. /\ f.at \in ClimbPlaces[op] /\ (op = "make_fifo" => ~ f.ignore)
        /\ f.file \in Nodes /\ f.perm \in SUBSET Rights
    BY <1>2, <1>4 DEF ClimbFrames, Frame
  <1>6. ASSUME NEW at \in ClimbPlaces[op]
        PROVE  LET h == [f EXCEPT !.at = at] IN
               h \in F /\ h.file = f.file /\ h.perm = f.perm /\ h.at = at
    <2>1. at \in Places
      BY <1>2, <1>6 DEF ClimbPlaces, PathPlaces, FifoPlaces, Places
    <2> QED  BY <1>2, <1>5, <1>6, <2>1 DEF ClimbFrames, Frame
  <1> HIDE DEF f, F, op
  <1>7. ASSUME NEW h \in F, h.file = f.file, h.perm = f.perm,
               Continue(p, h) \/ Return(p) \/ Throw(p)
        PROVE  NestOf(p)'
    BY <1>1, <1>2, <1>3, <1>7, ClimbGoesOn DEF f, F, op
  <1>8. ASSUME Return(p) \/ Throw(p) \/ \E at \in ClimbPlaces[op] : Goto(p, at)
        PROVE  NestOf(p)'
    <2>1. ASSUME NEW at \in ClimbPlaces[op], Goto(p, at)  PROVE NestOf(p)'
      BY <1>6, <1>7, <2>1 DEF Goto, f
    <2> QED  BY <1>4, <1>7, <1>8, <2>1
  <1>9. /\ op = "make_path" => ClimbPlaces[op] = PathPlaces
        /\ op = "make_dir"  => ClimbPlaces[op] = PathPlaces \ {"father"}
        /\ op = "make_fifo" => ClimbPlaces[op] = FifoPlaces
    BY DEF ClimbPlaces
  <1>10. CASE Father(p)
    <2>1. f.at = "father" /\ f.file # Root /\ op = "make_path"
      BY <1>2, <1>5, <1>9, <1>10 DEF Father, At, f, FifoPlaces
    <2>2. CASE Stat(Up[f.file])
      BY <1>8, <1>9, <1>10, <2>1, <2>2 DEF Father, f, PathPlaces
    <2>3. CASE ~ Stat(Up[f.file])
      <3> DEFINE h == [f EXCEPT !.at = "mkdir"]
                 g == NewFrame("father", Up[f.file], FatherRights(f.perm))
      <3>1. Recurse(p, h, g)
        BY <1>10, <2>3 DEF Father, f
      <3>2. h \in F /\ h.file = f.file /\ h.perm = f.perm /\ h.at = "mkdir"
        BY <1>6, <1>9, <2>1 DEF PathPlaces
      <3>3. g \in F /\ g.file = Up[f.file]
        BY <1>5, <1>9, <2>1, TreeAssumption
           DEF F, ClimbFrames, NewFrame, FatherRights, Frame, Places, Rights, PathPlaces
      <3> HIDE DEF h, g
      <3> QED  BY <1>1, <1>2, <1>3, <2>1, <3>1, <3>2, <3>3, ClimbGoesOn DEF f, F, op
    <2> QED  BY <2>2, <2>3
  <1>11. CASE Mkdir(p)
    <2>1. f.at = "mkdir"
      BY <1>11 DEF Mkdir, At, f
    <2>2. {"permissions", "exists"} \subseteq ClimbPlaces[op]
      BY <1>2, <1>5, <1>9, <2>1 DEF PathPlaces, FifoPlaces
    <2> QED  BY <1>8, <1>11, <2>2 DEF Mkdir, Create
  <1>12. CASE Exists(p)
    <2>1. f.at = "exists"
      BY <1>12 DEF Exists, At, f
    <2>2. {"is_a_directory"} \subseteq ClimbPlaces[op]
      BY <1>2, <1>5, <1>9, <2>1 DEF PathPlaces, FifoPlaces
    <2> QED  BY <1>8, <1>12, <2>2 DEF Exists
  <1>13. CASE IsADirectory(p)
    <2>1. f.at = "is_a_directory" /\ op # "make_fifo"
      BY <1>5, <1>9, <1>13 DEF IsADirectory, At, f, FifoPlaces
    <2>2. \/ Throw(p) \/ Return(p)
          \/ Continue(p, [f EXCEPT !.at = "permissions", !.ignore = TRUE])
      BY <1>13 DEF IsADirectory, f
    <2>3. LET h == [f EXCEPT !.at = "permissions", !.ignore = TRUE] IN
          h \in F /\ h.file = f.file /\ h.perm = f.perm
      BY <1>2, <1>9, <2>1 DEF F, ClimbFrames, Frame, PathPlaces, Places
    <2> QED  BY <1>7, <1>8, <2>2, <2>3
  <1>14. CASE FifoExists(p)
    <2>1. f.at = "fifo_exists"
      BY <1>14 DEF FifoExists, At, f
    <2>2. {"is_fifo", "mkfifo"} \subseteq ClimbPlaces[op]
      BY <1>2, <1>5, <1>9, <2>1 DEF PathPlaces, FifoPlaces
    <2> QED  BY <1>8, <1>14, <2>2 DEF FifoExists
  <1>15. CASE IsFifo(p)
    <2>1. f.at = "is_fifo"
      BY <1>15 DEF IsFifo, At, f
    <2>2. {"compare", "mkfifo"} \subseteq ClimbPlaces[op]
      BY <1>2, <1>5, <1>9, <2>1 DEF PathPlaces, FifoPlaces
    <2> QED  BY <1>8, <1>15, <2>2 DEF IsFifo
  <1>16. "permissions" \in ClimbPlaces[op] /\ "chmod" \in ClimbPlaces[op]
    BY <1>2, <1>9 DEF PathPlaces, FifoPlaces
  <1>17. CASE Compare(p)
    BY <1>8, <1>16, <1>17 DEF Compare
  <1>18. CASE Mkfifo(p)
    BY <1>8, <1>16, <1>18 DEF Mkfifo, Create
  <1>19. CASE Permissions(p)
    BY <1>8, <1>16, <1>19 DEF Permissions, PermissionsFail
  <1>20. CASE Chmod(p)
    BY <1>8, <1>20 DEF Chmod, PermissionsFail
  <1> QED  BY <1>10, <1>11, <1>12, <1>13, <1>14, <1>15, <1>17, <1>18, <1>19, <1>20 DEF MakeStep

\* A call has one frame when it begins, with the path it was given if the tree
\* suits it.
LEMMA BeginHasNest ==
  ASSUME FileInv, NEW p \in Procs, Begin(p)
  PROVE  NestOf(p)'
  <1>1. PICK c \in Calls :
          /\ set_name(c.file) # Root
          /\ call' = [call EXCEPT ![p] = c]
          /\ fit' = [fit EXCEPT ![p] = Fit(c)]
          /\ stack' = [stack EXCEPT ![p] =
                         <<NewFrame(FirstStep(c.op), set_name(c.file), c.perm)>>]
    BY CallsAssumption DEF Begin
  <1>2. outcome' = [outcome EXCEPT ![p] = "running"] /\ kind' = kind
    BY DEF Begin, treeVars
  <1> DEFINE f == NewFrame(FirstStep(c.op), set_name(c.file), c.perm)
  <1>3. /\ call'[p] = c /\ fit'[p] = Fit(c) /\ outcome'[p] = "running" /\ stack'[p] = <<f>>
    BY <1>1, <1>2 DEF FileInv, StackInv, RemovedInv
  <1>4. /\ c.op \in {"remove", "make_dir", "make_path", "make_fifo"}
        /\ c.file \in Nodes \ {Root} /\ c.perm \in SUBSET Rights
        /\ set_name(c.file) \in Nodes
    BY CallsAssumption, NamesInReach DEF FileInv
  <1>5. f \in Frame /\ f.at = FirstStep(c.op) /\ f.file = set_name(c.file) /\ f.perm = c.perm
        /\ f.childs = {} /\ f.ignore = FALSE
    BY <1>4 DEF NewFrame, Frame, FirstStep, Places
  <1>6. Fit(c) => set_name(c.file) = c.file
    <2>1. Fit(c) /\ c.op # "remove" => kind[c.file] # "link"
      BY DEF Fit
    <2>2. Fit(c) /\ c.op = "remove" => kind[c.file] # "link"
      BY <1>4, BelowSons DEF Fit
    <2> QED  BY <2>1, <2>2 DEF set_name, Follow
  <1> HIDE DEF f
  <1>7. Len(<<f>>) = 1 /\ <<f>>[1] = f /\ \A A, R : Shape(<<f>>, A, R)
    BY DEF Shape
  <1>8. CASE c.op = "remove"
    <2>1. Fit(c) => Plain(c.file)
      BY <1>8 DEF Fit, Plain
    <2>2. Fit(c) => Descent(c.file, <<f>>)
      <3>1. Fit(c) => f \in DescentFrames(c.file)
        BY <1>4, <1>5, <1>6, BelowSons DEF DescentFrames
      <3> QED  BY <1>7, <3>1 DEF Descent
    <2> QED  BY <1>2, <1>3, <1>8, <2>1, <2>2 DEF NestOf, Plain
  <1>9. CASE c.op # "remove"
    <2>1. f \in ClimbFrames(c.op)
      BY <1>4, <1>5, <1>9 DEF ClimbFrames, ClimbPlaces, FirstStep, PathPlaces, FifoPlaces
    <2>2. Climb(c, <<f>>)
      BY <1>5, <1>7, <2>1 DEF Climb
    <2> QED  BY <1>3, <1>5, <1>6, <1>7, <1>9, <2>2 DEF NestOf
  <1> QED  BY <1>8, <1>9

\* Every stack is such as the recursion builds.
LEMMA NestStep == FileInv /\ NestInv /\ [Next]_vars => NestInv'
  <1> SUFFICES ASSUME FileInv, NestInv, [Next]_vars, NEW p \in Procs  PROVE NestOf(p)'
    BY DEF NestInv
  <1>1. NestOf(p)
    BY DEF NestInv
  <1>2. CASE UNCHANGED vars
    BY <1>1, <1>2 DEF NestOf, Plain, vars, treeVars, procVars, callVars
  <1>3. ASSUME NEW q \in Procs, Begin(q)  PROVE NestOf(p)'
    <2>1. CASE q = p
      BY <1>3, <2>1, BeginHasNest
    <2>2. CASE q # p
      <3>1. /\ call'[p] = call[p] /\ fit'[p] = fit[p] /\ outcome'[p] = outcome[p]
            /\ stack'[p] = stack[p] /\ kind' = kind
        BY <1>3, <2>2 DEF Begin, treeVars, FileInv, StackInv, RemovedInv
      <3> QED  BY <1>1, <3>1 DEF NestOf, Plain
    <2> QED  BY <2>1, <2>2
  <1>4. ASSUME NEW q \in Procs, Step(q)  PROVE NestOf(p)'
    <2>1. CASE q = p
      BY <1>1, <1>4, <2>1, RemoveKeepsNest, MakeKeepsNest DEF Step
    <2>2. CASE q # p
      BY <1>1, <1>4, <2>2, OthersKeepNest
    <2> QED  BY <2>1, <2>2
  <1> QED  BY <1>2, <1>3, <1>4 DEF Next

\* The stacks of all calls, for any tree.
THEOREM NestInvariance == Spec => []NestInv
  <1>1. Init => NestInv
    BY DEF Init, NestInv, NestOf
  <1> QED  BY <1>1, FileInit, FileStep, NestStep, PTL DEF Spec

\* However deep the tree and whatever others do in it, a remove of a tree without
\* links and a make_path end before the stack does, which has room for the longest
\* path (File::remove, File::make_path).
THEOREM RecursionAlwaysEnds == Spec => []RecursionEnds
  <1>1. NestInv => RecursionEnds
    BY DEF NestInv, NestOf, RecursionEnds
  <1> QED  BY <1>1, NestInvariance, PTL

-----------------------------------------------------------------------------
(* Processes that remove the same tree *)

\* The processes that have made their call.
Started == {p \in Procs : outcome[p] # "none"}
\* All of them are calls of op that suited the tree.
Only(op) == \A p \in Started : call[p].op = op /\ fit[p]

\* A frame of a remove knows what its path is and what is left in it, given what
\* the frame it waits for works on; and what is there can be reached.
Knows(f, rest) ==
    /\ kind[f.file] # "none" => Access(f.file)
    /\ f.at \in {"directory", "next", "rmdir"} => kind[f.file] \in {"none", "dir"}
    /\ f.at = "unlink" => kind[f.file] # "dir"
    /\ f.at = "rmdir" => f.childs = {}
    /\ f.at \in {"next", "rmdir"} /\ kind[f.file] # "none" =>
          Children(f.file) \subseteq f.childs \cup rest

\* A remove has rights on all of its tree, and its frames know what they should.
Kept(p) ==
    /\ \A n \in Below(call[p].file) : kind[n] = "dir" => "owner" \in mode[n]
    /\ \A i \in 1 .. Len(stack[p]) :
          Knows(stack[p][i], IF i = 1 THEN {} ELSE {stack[p][i - 1].file})

\* What a remove is at is there, so that the remove will delete it if nobody does.
Alive(p) ==
    \/ outcome[p] = "returned"
    \/ outcome[p] = "running" /\ kind[Top(p).file] # "none"

\* As long as there are only removes, all of them are so, and one is alive.
RemoveInv ==
    Only("remove") =>
        /\ \A p \in Procs : outcome[p] = "running" => Kept(p)
        /\ Started # {} => \E p \in Started : Alive(p)

\* An empty directory or a file has been deleted.
Gone(n) ==
    /\ n \in Nodes \ {Root} /\ kind[n] # "none" /\ (kind[n] = "dir" => Children(n) = {})
    /\ kind' = [kind EXCEPT ![n] = "none"]
    /\ mode' = [mode EXCEPT ![n] = {}]

\* A directory above a path holds that path or another one above it.
LEMMA AboveHolds ==
  ASSUME NEW n \in Nodes, NEW a \in Above[n]
  PROVE  \E x \in ({n} \cup Above[n]) \ {Root} : Up[x] = a
  <1> DEFINE W == ({n} \cup Above[n]) \ {Root}
             S == {Up[x] : x \in W}
  <1>1. W \subseteq Nodes \ {Root} /\ \A x \in W : Up[x] \in Above[n]
    BY AboveSteps
  <1>2. S \in SUBSET Nodes
    BY <1>1, TreeAssumption
  <1>3. n = Root \/ Up[n] \in S
    OBVIOUS
  <1>4. \A x \in S \ {Root} : Up[x] \in S
    BY <1>1
  <1> HIDE DEF S
  <1>5. a \in S
    BY <1>2, <1>3, <1>4 DEF Above
  <1> QED  BY <1>5 DEF S

\* What is still there after that can be reached as before.
LEMMA GoneKeepsAccess ==
  ASSUME TreeInv, NEW n, Gone(n), NEW x \in Nodes, kind'[x] # "none", Access(x)
  PROVE  \A a \in Above[x] : kind'[a] = "dir" /\ "owner" \in mode'[a]
  <1>1. kind \in [Nodes -> Kinds] /\ mode \in [Nodes -> SUBSET Rights] /\ Above[x] \subseteq Nodes
    BY AboveSteps DEF TreeInv
  <1>2. n \notin Above[x]
    <2> SUFFICES ASSUME n \in Above[x]  PROVE FALSE
      OBVIOUS
    <2>1. PICK y \in ({x} \cup Above[x]) \ {Root} : Up[y] = n
      BY AboveHolds
    <2>2. kind[n] = "dir" /\ kind[y] # "none" /\ y \in Nodes
      BY <1>1 DEF Access, Gone
    <2>3. y \in Children(n)
      BY <2>1, <2>2 DEF Children
    <2> QED  BY <2>2, <2>3 DEF Gone
  <1> QED  BY <1>1, <1>2 DEF Gone, Access

\* A frame still knows what is left.
LEMMA GoneKeepsKnows ==
  ASSUME TreeInv, NEW n, Gone(n), NEW f \in Frame, NEW rest, Knows(f, rest),
         NEW left, rest \ {n} \subseteq left
  PROVE  Knows(f, left)'
  <1>1. f.file \in Nodes /\ kind \in [Nodes -> Kinds]
    BY DEF Frame, TreeInv
  <1>2. kind' = [kind EXCEPT ![n] = "none"] /\ n \in Nodes
    BY DEF Gone
  <1>3. kind'[f.file] # "none" => Access(f.file)'
    BY <1>1, <1>2, GoneKeepsAccess DEF Knows, Access
  <1>4. /\ f.at \in {"directory", "next", "rmdir"} => kind'[f.file] \in {"none", "dir"}
        /\ f.at = "unlink" => kind'[f.file] # "dir"
        /\ f.at = "rmdir" => f.childs = {}
    BY <1>1, <1>2 DEF Knows
  <1>5. Children(f.file)' \subseteq Children(f.file) \ {n}
    BY <1>1, <1>2 DEF Children
  <1>6. f.at \in {"next", "rmdir"} /\ kind'[f.file] # "none" =>
          Children(f.file)' \subseteq f.childs \cup left
    BY <1>1, <1>2, <1>5 DEF Knows
  <1> QED  BY <1>3, <1>4, <1>6 DEF Knows

\* A step of a remove looks or deletes.
LEMMA RemoveLooksOrDeletes ==
  ASSUME FileInv, NEW p \in Procs, RemoveStep(p)
  PROVE  \/ UNCHANGED <<kind, mode>>
         \/ Gone(Top(p).file) /\ Return(p)
  <1>1. stack[p] # <<>>
    BY DEF RemoveStep, IsDirectoryOf, Directory, NextChild, Rmdir, Unlink, At
  <1>2. Top(p).file \in Nodes
    BY <1>1, FirstFrame DEF FileInv, Frame
  <1>3. CASE Rmdir(p)
    BY <1>2, <1>3 DEF Rmdir, Delete, Change, Gone, Looks, treeVars
  <1>4. CASE Unlink(p)
    BY <1>2, <1>4 DEF Unlink, Delete, Change, Gone, Looks, treeVars, FileInv, TreeInv
  <1>5. CASE IsDirectoryOf(p) \/ Directory(p) \/ NextChild(p)
    BY <1>5 DEF IsDirectoryOf, Directory, NextChild, Looks, treeVars
  <1> QED  BY <1>3, <1>4, <1>5 DEF RemoveStep

\* What Kept says of the next state.
LEMMA KeptNext ==
  ASSUME NEW p \in Procs, NEW t, t = stack'[p], NEW r, r = call'[p].file,
         \A n \in Below(r) : kind'[n] = "dir" => "owner" \in mode'[n],
         \A i \in 1 .. Len(t) : Knows(t[i], IF i = 1 THEN {} ELSE {t[i - 1].file})'
  PROVE  Kept(p)'
  BY DEF Kept, Knows, Access, Children, Below

\* A remove leaves the others what they know.
LEMMA OthersKeepKept ==
  ASSUME FileInv, NEW q \in Procs, RemoveStep(q), NEW p \in Procs \ {q},
         outcome[p] = "running", Kept(p)
  PROVE  Kept(p)'
  <1>1. UNCHANGED callVars /\ stack'[p] = stack[p]
    BY StepsOfOthers DEF Step
  <1>2. CASE UNCHANGED <<kind, mode>>
    BY <1>1, <1>2 DEF callVars, Kept, Knows, Access, Children, Below
  <1>3. CASE Gone(Top(q).file)
    <2>1. PICK n, s, r : n = Top(q).file /\ s = stack[p] /\ r = call[p].file
      OBVIOUS
    <2>2. s \in Seq(Frame) /\ r \in Nodes /\ Below(r) \subseteq Nodes
      BY <2>1, TopFrame, FirstFrame, CallsAssumption, BelowSons DEF FileInv, StackInv
    <2>3. TreeInv /\ Gone(n)
      BY <1>3, <2>1 DEF FileInv
    <2>4. \A x \in Below(r) : kind'[x] = "dir" => "owner" \in mode'[x]
      BY <2>1, <2>2, <2>3 DEF Kept, Gone, TreeInv
    <2>5. ASSUME NEW i \in 1 .. Len(s)
          PROVE  Knows(s[i], IF i = 1 THEN {} ELSE {s[i - 1].file})'
      <3>1. PICK f, rest : f = s[i] /\ rest = IF i = 1 THEN {} ELSE {s[i - 1].file}
        OBVIOUS
      <3>2. f \in Frame
        BY <2>2, <3>1, ElementOfSeq
      <3>3. Knows(f, rest)
        BY <2>1, <3>1 DEF Kept
      <3>4. Knows(f, rest)'
        BY <2>3, <3>2, <3>3, GoneKeepsKnows
      <3> QED  BY <3>1, <3>4
    <2>6. s = stack'[p] /\ r = call'[p].file
      BY <1>1, <2>1 DEF callVars
    <2> QED  BY <2>4, <2>5, <2>6, KeptNext
  <1> QED  BY <1>2, <1>3, RemoveLooksOrDeletes

\* A step of a remove of a plain tree: it learns what is there, and if what it is at
\* is there still, it goes on, since nothing can make it throw; nothing is deleted
\* but by a remove that is there to see it return.
LEMMA OwnStepKeepsKept ==
  ASSUME FileInv, NEW p \in Procs, RemoveStep(p), NestOf(p), fit[p], Kept(p)
  PROVE  /\ outcome'[p] = "running" => Kept(p)'
         /\ Alive(p)' \/ (~ Alive(p) /\ UNCHANGED <<kind, mode>>)
  <1>1. PICK f, s, r : f = Top(p) /\ s = stack[p] /\ r = call[p].file
    OBVIOUS
  <1>2. s # <<>> /\ f.at \in RemovePlaces
    BY <1>1 DEF RemoveStep, IsDirectoryOf, Directory, NextChild, Rmdir, Unlink, At, RemovePlaces
  <1>3. /\ outcome[p] = "running" /\ call[p].op = "remove" /\ r \in Nodes
        /\ f = s[1] /\ f \in Frame /\ s \in Seq(Frame) /\ Len(s) \in Nat \ {0}
    BY <1>1, <1>2, TopFrame, FirstFrame, CallsAssumption DEF FileInv, FramesOf
  <1>4. /\ UNCHANGED call /\ TreeInv
        /\ stack = [x \in Procs |-> stack[x]] /\ outcome = [x \in Procs |-> outcome[x]]
    BY StepsOfOthers DEF Step, callVars, FileInv, StackInv
  <1>5. Plain(r) /\ Descent(r, s)
    BY <1>1, <1>3 DEF NestOf
  <1>6. \A i \in 1 .. Len(s) : s[i] \in DescentFrames(r) /\ s[i] \in Frame
    BY <1>3, <1>5, ElementOfSeq DEF Descent
  <1>7. f \in DescentFrames(r) /\ f.file \in Nodes \ {Root} /\ f.file \in Below(r)
    BY <1>3, <1>6, BelowSons DEF DescentFrames
  <1>8. /\ Follow(f.file) = f.file /\ Listing(f.file) = Children(f.file)
        /\ Stat(f.file) <=> Access(f.file) /\ kind[f.file] # "none"
        /\ IsDirectory(f.file) <=> kind[f.file] = "dir"
    BY <1>3, <1>4, <1>5, <1>7, PlainPaths
  <1>9. \A n \in Below(r) : kind[n] = "dir" => "owner" \in mode[n]
    BY <1>1 DEF Kept
  <1>10. \A i \in 1 .. Len(s) : Knows(s[i], IF i = 1 THEN {} ELSE {s[i - 1].file})
    BY <1>1 DEF Kept
  <1>11. Knows(f, {})
    <2>1. 1 \in 1 .. Len(s)
      BY <1>3
    <2>2. Knows(s[1], IF 1 = 1 THEN {} ELSE {s[1 - 1].file})
      BY <1>10, <2>1
    <2> QED  BY <1>3, <2>2
  <1>12. Alive(p) <=> kind[f.file] # "none"
    BY <1>1, <1>3 DEF Alive
  <1>13. ASSUME NEW t, t = stack'[p],
                \A i \in 1 .. Len(t) : Knows(t[i], IF i = 1 THEN {} ELSE {t[i - 1].file})'
         PROVE  Kept(p)'
    <2>1. \A n \in Below(r) : kind'[n] = "dir" => "owner" \in mode'[n]
      <3>1. Below(r) \subseteq Nodes
        BY <1>3, BelowSons
      <3> QED  BY <1>4, <1>9, <3>1, RemoveLooksOrDeletes DEF Gone, TreeInv
    <2>2. r = call'[p].file
      BY <1>1, <1>4
    <2> QED  BY <1>13, <2>1, <2>2, KeptNext
  <1>14. ASSUME UNCHANGED <<kind, mode>>, NEW x, NEW y, Knows(x, y)  PROVE Knows(x, y)'
    BY <1>14 DEF Knows, Access, Children
  <1>15. ASSUME NEW h \in Frame, NEW g \in Frame
         PROVE  /\ \A i \in 1 .. Len(s) - 1 : Tail(s)[i] = s[i + 1]
                /\ Len(Tail(s)) = Len(s) - 1
                /\ Len(<<h>> \o Tail(s)) = Len(s)
                /\ (<<h>> \o Tail(s))[1] = h
                /\ \A i \in 2 .. Len(s) : (<<h>> \o Tail(s))[i] = s[i]
                /\ Len(<<g, h>> \o Tail(s)) = Len(s) + 1
                /\ (<<g, h>> \o Tail(s))[1] = g /\ (<<g, h>> \o Tail(s))[2] = h
                /\ \A i \in 3 .. Len(s) + 1 : (<<g, h>> \o Tail(s))[i] = s[i - 1]
    BY <1>2, <1>3, StackFrames
  <1>16. ASSUME UNCHANGED <<kind, mode>>, NEW h \in Frame, Continue(p, h), h.file = f.file,
                Knows(h, {})
         PROVE  Kept(p)' /\ (Alive(p)' <=> Alive(p))
    <2>1. PICK t : t = <<h>> \o Tail(s)
      OBVIOUS
    <2>2. t = stack'[p] /\ outcome'[p] = "running"
      BY <1>1, <1>3, <1>4, <1>16, <2>1 DEF Continue
    <2>3. Len(t) = Len(s) /\ t[1] = h /\ \A i \in 2 .. Len(s) : t[i] = s[i]
      BY <1>15, <1>16, <2>1
    <2>4. ASSUME NEW i \in 1 .. Len(t)
          PROVE  Knows(t[i], IF i = 1 THEN {} ELSE {t[i - 1].file})
      <3>1. CASE i = 1
        BY <1>16, <2>3, <3>1
      <3>2. CASE i # 1
        <4>1. i \in 2 .. Len(s) /\ i \in 1 .. Len(s)
          BY <1>3, <2>3, <3>2
        <4>2. t[i - 1].file = s[i - 1].file
          <5>1. CASE i = 2
            BY <1>3, <1>16, <2>3, <5>1
          <5>2. CASE i # 2
            BY <1>3, <2>3, <4>1, <5>2
          <5> QED  BY <5>1, <5>2
        <4>3. Knows(s[i], {s[i - 1].file})
          BY <1>10, <3>2, <4>1
        <4> QED  BY <2>3, <3>2, <4>1, <4>2, <4>3
      <3> QED  BY <3>1, <3>2
    <2>5. Kept(p)'
      BY <1>13, <1>14, <1>16, <2>2, <2>4
    <2>6. Head(stack'[p]) = h
      BY <1>3, <2>2, <2>3
    <2> QED  BY <1>12, <1>16, <2>2, <2>5, <2>6 DEF Alive, Top
  <1>17. ASSUME UNCHANGED <<kind, mode>>, NEW h \in DescentFrames(r), NEW g \in DescentFrames(r),
                Recurse(p, h, g), h.file = f.file, h.at = "next", h.file = Up[g.file],
                kind[g.file] # "none", Knows(g, {}), Knows(h, {g.file})
         PROVE  Kept(p)' /\ Alive(p)'
    <2>1. PICK t : t = <<g, h>> \o Tail(s)
      OBVIOUS
    <2>2. Len(s) < MaxDepth /\ h \in Frame /\ g \in Frame
      BY <1>2, <1>3, <1>5, <1>17, DescentSteps DEF DescentFrames
    <2>3. t = stack'[p] /\ outcome'[p] = "running"
      BY <1>1, <1>3, <1>4, <1>17, <2>1, <2>2 DEF Recurse
    <2>4. /\ Len(t) = Len(s) + 1 /\ t[1] = g /\ t[2] = h
          /\ \A i \in 3 .. Len(s) + 1 : t[i] = s[i - 1]
      BY <1>2, <1>3, <2>1, <2>2, StackFrames
    <2>5. ASSUME NEW i \in 1 .. Len(t)
          PROVE  Knows(t[i], IF i = 1 THEN {} ELSE {t[i - 1].file})
      <3>1. CASE i = 1
        BY <1>17, <2>4, <3>1
      <3>2. CASE i = 2
        <4>1. i # 1 /\ i - 1 = 1
          BY <3>2
        <4> QED  BY <1>17, <2>4, <3>2, <4>1
      <3>3. CASE i # 1 /\ i # 2
        <4>1. i \in 3 .. Len(s) + 1 /\ i - 1 \in 1 .. Len(s) /\ i - 1 # 1
          BY <1>3, <2>4, <3>3
        <4>2. t[i - 1].file = s[(i - 1) - 1].file
          <5>1. CASE i = 3
            <6>1. i - 1 = 2 /\ (i - 1) - 1 = 1
              BY <5>1
            <6> QED  BY <1>3, <1>17, <2>4, <6>1
          <5>2. CASE i # 3
            BY <1>3, <2>4, <4>1, <5>2
          <5> QED  BY <5>1, <5>2
        <4>3. Knows(s[i - 1], {s[(i - 1) - 1].file})
          BY <1>10, <4>1
        <4> QED  BY <2>4, <3>3, <4>1, <4>2, <4>3
      <3> QED  BY <3>1, <3>2, <3>3
    <2>6. Kept(p)'
      BY <1>13, <1>14, <1>17, <2>3, <2>5
    <2>7. Head(stack'[p]) = g
      BY <1>3, <2>3, <2>4
    <2> QED  BY <1>17, <2>3, <2>6, <2>7 DEF Alive, Top
  <1>18. ASSUME Gone(f.file), Return(p)
         PROVE  (outcome'[p] = "running" => Kept(p)') /\ Alive(p)'
    <2>1. PICK t : t = Tail(s)
      OBVIOUS
    <2>2. CASE t = <<>>
      BY <1>1, <1>3, <1>4, <1>18, <2>1, <2>2 DEF Return, Alive
    <2>3. CASE t # <<>>
      <3>1. t = stack'[p] /\ outcome'[p] = "running"
        BY <1>1, <1>3, <1>4, <1>18, <2>1, <2>3 DEF Return
      <3>2. /\ Len(t) = Len(s) - 1 /\ \A i \in 1 .. Len(s) - 1 : t[i] = s[i + 1]
            /\ t \in Seq(Frame) /\ Len(t) # 0
        BY <1>2, <1>3, <1>15, <2>1, <2>3, StackOperations, EmptySeq
      <3>3. ASSUME NEW i \in 1 .. Len(t)
            PROVE  Knows(t[i], IF i = 1 THEN {} ELSE {t[i - 1].file})'
        <4>1. i + 1 \in 1 .. Len(s) /\ i + 1 # 1 /\ (i + 1) - 1 = i /\ i \in 1 .. Len(s) - 1
          BY <1>3, <3>2
        <4>2. PICK x, rest, left : /\ x = t[i] /\ rest = {s[i].file}
                                   /\ left = IF i = 1 THEN {} ELSE {t[i - 1].file}
          OBVIOUS
        <4>3. x \in Frame /\ Knows(x, rest)
          BY <1>6, <1>10, <3>2, <4>1, <4>2
        <4>4. rest \ {f.file} \subseteq left
          <5>1. CASE i = 1
            BY <1>3, <4>2, <5>1
          <5>2. CASE i # 1
            <6>1. i - 1 \in 1 .. Len(s) - 1 /\ (i - 1) + 1 = i
              BY <1>3, <4>1, <5>2
            <6> QED  BY <3>2, <4>2, <5>2, <6>1
          <5> QED  BY <5>1, <5>2
        <4>5. Knows(x, left)'
          BY <1>4, <1>18, <4>3, <4>4, GoneKeepsKnows
        <4> QED  BY <4>2, <4>5
      <3>4. Kept(p)'
        BY <1>13, <3>1, <3>3
      <3>5. Head(stack'[p]).file = Up[f.file]
        <4>1. 1 \in 1 .. Len(s) /\ 2 \in 1 .. Len(s) /\ 2 = 1 + 1 /\ 1 \in 1 .. Len(s) - 1
          BY <1>3, <3>2
        <4>2. <<s[1], s[2]>> \in DescentCalls
          BY <1>5, <4>1 DEF Descent, Shape
        <4>3. s[2].file = Up[s[1].file]
          BY <4>2 DEF DescentCalls
        <4>4. Head(t) = s[2]
          BY <3>2, <4>1
        <4> QED  BY <1>3, <3>1, <4>3, <4>4
      <3>6. Up[f.file] \in Above[f.file] /\ Up[f.file] \in Nodes /\ Up[f.file] # f.file
        BY <1>7, AboveSteps, PathAssumption
      <3>7. kind'[Up[f.file]] = "dir"
        BY <1>4, <1>11, <1>18, <3>6 DEF Knows, Access, Gone, TreeInv
      <3> QED  BY <3>1, <3>4, <3>5, <3>7 DEF Alive, Top
    <2> QED  BY <2>2, <2>3
  <1>19. ASSUME Throw(p), Looks, kind[f.file] = "none"
         PROVE  /\ outcome'[p] = "running" => Kept(p)'
                /\ ~ Alive(p) /\ UNCHANGED <<kind, mode>>
    BY <1>4, <1>12, <1>19 DEF Throw, Looks, treeVars
  <1>20. ASSUME NEW at \in RemovePlaces
         PROVE  LET h == [f EXCEPT !.at = at] IN
                h \in Frame /\ h.file = f.file /\ h.at = at /\ h.childs = f.childs
    BY <1>3, <1>20 DEF Frame, RemovePlaces, Places
  <1>21. ASSUME NEW S \in SUBSET Nodes
         PROVE  LET h == [f EXCEPT !.at = "next", !.childs = S] IN
                h \in Frame /\ h.file = f.file /\ h.at = "next" /\ h.childs = S
    BY <1>3, <1>21 DEF Frame, Places
  <1>22. kind[f.file] # "none" => Access(f.file) /\ Stat(f.file)
    BY <1>8, <1>11 DEF Knows
  <1>23. CASE IsDirectoryOf(p)
    <2>1. Looks /\ UNCHANGED <<kind, mode>>
      BY <1>23 DEF IsDirectoryOf, Looks, treeVars
    <2>2. CASE ~ Stat(f.file)
      <3>1. kind[f.file] = "none" /\ Throw(p)
        BY <1>1, <1>22, <1>23, <2>2 DEF IsDirectoryOf
      <3> QED  BY <1>19, <2>1, <3>1
    <2>3. CASE Stat(f.file) /\ kind[f.file] = "dir"
      <3>1. Continue(p, [f EXCEPT !.at = "directory"])
        BY <1>1, <1>8, <1>23, <2>3 DEF IsDirectoryOf, Goto
      <3>2. ASSUME NEW h \in Frame, h.file = f.file, h.at = "directory", Continue(p, h)
            PROVE  Kept(p)' /\ (Alive(p)' <=> Alive(p))
        <4>1. Knows(h, {})
          BY <1>22, <2>3, <3>2 DEF Knows
        <4> QED  BY <1>16, <2>1, <3>2, <4>1
      <3>3. Kept(p)' /\ (Alive(p)' <=> Alive(p))
        BY <1>20, <3>1, <3>2 DEF RemovePlaces
      <3> QED  BY <1>12, <2>3, <3>3
    <2>4. CASE Stat(f.file) /\ kind[f.file] # "dir"
      <3>1. Continue(p, [f EXCEPT !.at = "unlink"])
        BY <1>1, <1>8, <1>23, <2>4 DEF IsDirectoryOf, Goto
      <3>2. ASSUME NEW h \in Frame, h.file = f.file, h.at = "unlink", Continue(p, h)
            PROVE  Kept(p)' /\ (Alive(p)' <=> Alive(p))
        <4>1. Knows(h, {})
          BY <1>22, <2>4, <3>2 DEF Knows
        <4> QED  BY <1>16, <2>1, <3>2, <4>1
      <3>3. Kept(p)' /\ (Alive(p)' <=> Alive(p))
        BY <1>20, <3>1, <3>2 DEF RemovePlaces
      <3> QED  BY <1>8, <1>12, <2>4, <3>3
    <2> QED  BY <2>2, <2>3, <2>4
  <1>24. CASE Directory(p)
    <2>1. Looks /\ UNCHANGED <<kind, mode>> /\ f.at = "directory"
      BY <1>1, <1>24 DEF Directory, Looks, treeVars, At
    <2>2. CASE kind[f.file] = "none"
      <3>1. Throw(p)
        BY <1>1, <1>8, <1>24, <2>2 DEF Directory
      <3> QED  BY <1>19, <2>1, <2>2, <3>1
    <2>3. CASE kind[f.file] # "none"
      <3>1. kind[f.file] = "dir" /\ "owner" \in mode[f.file] /\ Stat(f.file)
        BY <1>7, <1>9, <1>11, <1>22, <2>1, <2>3 DEF Knows
      <3>2. Continue(p, [f EXCEPT !.at = "next", !.childs = Children(f.file)])
        BY <1>1, <1>8, <1>24, <3>1 DEF Directory
      <3>3. ASSUME NEW h \in Frame, h.file = f.file, h.at = "next", h.childs = Children(f.file),
                   Continue(p, h)
            PROVE  Kept(p)' /\ (Alive(p)' <=> Alive(p))
        <4>1. Knows(h, {})
          BY <1>22, <3>1, <3>3 DEF Knows
        <4> QED  BY <1>16, <2>1, <3>3, <4>1
      <3>4. Children(f.file) \in SUBSET Nodes
        BY DEF Children
      <3>5. Kept(p)' /\ (Alive(p)' <=> Alive(p))
        BY <1>21, <3>2, <3>3, <3>4
      <3> QED  BY <1>12, <2>3, <3>5
    <2> QED  BY <2>2, <2>3
  <1>25. CASE NextChild(p)
    <2>1. Looks /\ UNCHANGED <<kind, mode>> /\ f.at = "next"
      BY <1>1, <1>25 DEF NextChild, Looks, treeVars, At
    <2>2. CASE f.childs = {}
      <3>1. Continue(p, [f EXCEPT !.at = "rmdir"])
        BY <1>1, <1>25, <2>2 DEF NextChild, Goto
      <3>2. ASSUME NEW h \in Frame, h.file = f.file, h.at = "rmdir", h.childs = f.childs,
                   Continue(p, h)
            PROVE  Kept(p)' /\ (Alive(p)' <=> Alive(p))
        <4>1. Knows(h, {})
          BY <1>11, <2>1, <2>2, <3>2 DEF Knows
        <4> QED  BY <1>16, <2>1, <3>2, <4>1
      <3>3. Kept(p)' /\ (Alive(p)' <=> Alive(p))
        BY <1>20, <3>1, <3>2 DEF RemovePlaces
      <3> QED  BY <2>1, <3>3
    <2>3. CASE f.childs # {}
      <3>1. PICK c \in f.childs :
              LET h == [f EXCEPT !.childs = @ \ {c}]
                  g == NewFrame("is_directory", set_name(c), {}) IN
              IF Stat(set_name(c)) THEN Recurse(p, h, g) ELSE Continue(p, h)
        BY <1>1, <1>25, <2>3 DEF NextChild
      <3>2. c \in Nodes \ {Root} /\ Up[c] = f.file /\ c \in Below(r)
        BY <1>3, <1>7, BelowSons DEF DescentFrames, Frame
      <3>3. set_name(c) = c /\ (Stat(c) <=> Access(c) /\ kind[c] # "none")
        BY <1>3, <1>4, <1>5, <3>2, PlainPaths
      <3> DEFINE h == [f EXCEPT !.childs = @ \ {c}]
                 g == NewFrame("is_directory", c, {})
      <3>4. /\ h \in Frame /\ h \in DescentFrames(r) /\ h.file = f.file /\ h.at = "next"
            /\ h.childs = f.childs \ {c}
        BY <1>3, <1>7, <2>1 DEF DescentFrames, Frame
      <3>5. /\ g \in DescentFrames(r) /\ g.file = c /\ g.at = "is_directory"
        BY <3>2 DEF DescentFrames, Frame, NewFrame, Places
      <3> HIDE DEF h, g
      <3>6. CASE Stat(c)
        <4>1. Recurse(p, h, g)
          BY <3>1, <3>3, <3>6 DEF h, g
        <4>2. Knows(g, {})
          BY <3>3, <3>5, <3>6 DEF Knows
        <4>3. Knows(h, {g.file})
          BY <1>11, <2>1, <3>4, <3>5 DEF Knows
        <4> QED  BY <1>17, <2>1, <3>2, <3>3, <3>4, <3>5, <3>6, <4>1, <4>2, <4>3
      <3>7. CASE ~ Stat(c)
        <4>1. Continue(p, h)
          BY <3>1, <3>3, <3>7 DEF h, g
        <4>2. kind[f.file] # "none" => c \notin Children(f.file)
          <5> SUFFICES ASSUME kind[f.file] # "none", kind[c] # "none"  PROVE FALSE
            BY DEF Children
          <5>1. kind[f.file] = "dir" /\ "owner" \in mode[f.file] /\ Access(f.file)
            BY <1>7, <1>9, <1>11, <2>1 DEF Knows
          <5>2. Above[c] \subseteq {f.file} \cup Above[f.file]
            BY <3>2, AboveSteps
          <5> QED  BY <3>3, <3>7, <5>1, <5>2 DEF Access
        <4>3. Knows(h, {})
          BY <1>11, <2>1, <3>4, <4>2 DEF Knows
        <4> QED  BY <1>16, <2>1, <3>4, <4>1, <4>3
      <3> QED  BY <3>6, <3>7
    <2> QED  BY <2>2, <2>3
  <1>26. CASE Rmdir(p)
    <2>1. f.at = "rmdir"
      BY <1>1, <1>26 DEF Rmdir, At
    <2>2. CASE kind[f.file] = "none"
      BY <1>1, <1>19, <1>26, <2>2 DEF Rmdir
    <2>3. CASE kind[f.file] # "none"
      <3>1. kind[f.file] = "dir" /\ Children(f.file) = {}
        BY <1>11, <2>1, <2>3 DEF Knows
      <3>2. Delete(p)
        BY <1>1, <1>7, <1>22, <1>26, <3>1 DEF Rmdir
      <3>3. Gone(f.file)
        BY <1>1, <1>7, <2>3, <3>1, <3>2 DEF Delete, Change, Gone
      <3> QED  BY <1>18, <3>2, <3>3 DEF Delete
    <2> QED  BY <2>2, <2>3
  <1>27. CASE Unlink(p)
    <2>1. f.at = "unlink"
      BY <1>1, <1>27 DEF Unlink, At
    <2>2. CASE kind[f.file] = "none"
      BY <1>1, <1>19, <1>27, <2>2 DEF Unlink
    <2>3. CASE kind[f.file] # "none"
      <3>1. kind[f.file] # "dir"
        BY <1>11, <2>1 DEF Knows
      <3>2. Delete(p)
        BY <1>1, <1>22, <1>27, <2>3, <3>1 DEF Unlink
      <3>3. Gone(f.file)
        BY <1>1, <1>7, <2>3, <3>1, <3>2 DEF Delete, Change, Gone
      <3> QED  BY <1>18, <3>2, <3>3 DEF Delete
    <2> QED  BY <2>2, <2>3
  <1> QED  BY <1>23, <1>24, <1>25, <1>26, <1>27 DEF RemoveStep

-----------------------------------------------------------------------------
\* Every step of a call goes on in one of four ways.
LEMMA WaysToGoOn ==
  ASSUME NEW p \in Procs, Step(p)
  PROVE  /\ stack[p] # <<>>
         /\ \/ UNCHANGED outcome
            \/ \E o \in {"returned", "threw", "crashed"} : outcome' = [outcome EXCEPT ![p] = o]
            \/ Return(p)
  <1>1. stack[p] # <<>>
    BY DEF Step, RemoveStep, MakeStep, IsDirectoryOf, Directory, NextChild, Rmdir, Unlink, Father,
           Mkdir, Exists, IsADirectory, FifoExists, IsFifo, Compare, Mkfifo, Permissions, Chmod, At
  <1>2. CASE RemoveStep(p)
    <2>1. CASE IsDirectoryOf(p)
      BY <1>1, <2>1 DEF IsDirectoryOf, Goto, Continue, Throw
    <2>2. CASE Directory(p)
      BY <1>1, <2>2 DEF Directory, Continue, Throw
    <2>3. CASE NextChild(p)
      BY <1>1, <2>3 DEF NextChild, Goto, Continue, Recurse
    <2>4. CASE Rmdir(p)
      BY <1>1, <2>4 DEF Rmdir, Delete, Throw
    <2>5. CASE Unlink(p)
      BY <1>1, <2>5 DEF Unlink, Delete, Throw
    <2> QED  BY <1>2, <2>1, <2>2, <2>3, <2>4, <2>5 DEF RemoveStep
  <1>3. CASE MakeStep(p)
    <2>1. CASE Father(p)
      BY <1>1, <2>1 DEF Father, Goto, Continue, Recurse
    <2>2. CASE Mkdir(p)
      BY <1>1, <2>2 DEF Mkdir, Create, Goto, Continue
    <2>3. CASE Exists(p)
      BY <1>1, <2>3 DEF Exists, Goto, Continue, Throw
    <2>4. CASE IsADirectory(p)
      BY <1>1, <2>4 DEF IsADirectory, Continue, Throw
    <2>5. CASE FifoExists(p)
      BY <1>1, <2>5 DEF FifoExists, Goto, Continue
    <2>6. CASE IsFifo(p)
      BY <1>1, <2>6 DEF IsFifo, Goto, Continue, Throw
    <2>7. CASE Compare(p)
      BY <1>1, <2>7 DEF Compare, Goto, Continue, Throw
    <2>8. CASE Mkfifo(p)
      BY <1>1, <2>8 DEF Mkfifo, Create, Goto, Continue, Throw
    <2>9. CASE Permissions(p)
      BY <1>1, <2>9 DEF Permissions, PermissionsFail, Goto, Continue, Throw
    <2>10. CASE Chmod(p)
      BY <1>1, <2>10 DEF Chmod, PermissionsFail, Throw
    <2> QED  BY <1>3, <2>1, <2>2, <2>3, <2>4, <2>5, <2>6, <2>7, <2>8, <2>9, <2>10 DEF MakeStep
  <1> QED  BY <1>1, <1>2, <1>3 DEF Step

\* A call that has begun stays one that has.
LEMMA StartedStep ==
  ASSUME FileInv, NEW p \in Procs, Step(p)
  PROVE  p \in Started /\ outcome[p] = "running" /\ Started' = Started
  <1>1. outcome[p] = "running"
    BY WaysToGoOn, TopFrame DEF FileInv
  <1>2. outcome = [q \in Procs |-> outcome[q]]
    BY DEF FileInv, StackInv
  <1> QED  BY <1>1, <1>2, WaysToGoOn DEF Started, Return

\* If all calls are of one kind they have always been.
LEMMA OnlyBefore ==
  ASSUME FileInv, [Next]_vars, NEW op, Only(op)'
  PROVE  Only(op)
  <1>1. CASE UNCHANGED vars
    BY <1>1 DEF Only, Started, vars, procVars, callVars
  <1>2. ASSUME NEW q \in Procs, Begin(q)  PROVE Only(op)
    BY <1>2 DEF Only, Started, Begin, FileInv, StackInv, RemovedInv
  <1>3. ASSUME NEW q \in Procs, Step(q)  PROVE Only(op)
    <2>1. UNCHANGED callVars /\ Started' = Started
      BY <1>3, StartedStep, StepsOfOthers
    <2> QED  BY <2>1 DEF Only, callVars
  <1> QED  BY <1>1, <1>2, <1>3 DEF Next

\* A remove of a tree that suits it begins with what it needs to know.
LEMMA BeginHasKept ==
  ASSUME FileInv, NEW p \in Procs, Begin(p), fit'[p], call'[p].op = "remove"
  PROVE  Kept(p)' /\ Alive(p)'
  <1>1. PICK c \in Calls :
          /\ call' = [call EXCEPT ![p] = c]
          /\ fit' = [fit EXCEPT ![p] = Fit(c)]
          /\ stack' = [stack EXCEPT ![p] =
                         <<NewFrame(FirstStep(c.op), set_name(c.file), c.perm)>>]
    BY CallsAssumption DEF Begin
  <1>2. outcome' = [outcome EXCEPT ![p] = "running"] /\ kind' = kind /\ mode' = mode
    BY DEF Begin, treeVars
  <1>3. PICK f : f = NewFrame("is_directory", c.file, c.perm)
    OBVIOUS
  <1>4. f.file = c.file /\ f.at = "is_directory"
    BY <1>3 DEF NewFrame
  <1>5. c.file \in Nodes /\ call'[p] = c /\ fit'[p] = Fit(c) /\ outcome'[p] = "running"
    BY <1>1, <1>2, CallsAssumption DEF FileInv, StackInv, RemovedInv
  <1>6. /\ Stat(c.file) /\ c.op = "remove"
        /\ \A n \in Below(c.file) : /\ kind[n] \notin {"link", "socket"}
                                    /\ kind[n] = "dir" => "owner" \in mode[n]
    BY <1>5 DEF Fit
  <1>7. set_name(c.file) = c.file /\ kind[c.file] # "none" /\ Access(c.file)
    BY <1>5, <1>6, BelowSons DEF set_name, Follow, Stat
  <1>8. PICK t : t = <<f>>
    OBVIOUS
  <1>9. t = stack'[p] /\ Len(t) = 1 /\ t[1] = f /\ Head(t) = f
    BY <1>1, <1>3, <1>6, <1>7, <1>8 DEF FirstStep, FileInv, StackInv
  <1>10. Knows(f, {})'
    BY <1>2, <1>4, <1>7 DEF Knows, Access
  <1>11. \A i \in 1 .. Len(t) : Knows(t[i], IF i = 1 THEN {} ELSE {t[i - 1].file})'
    BY <1>9, <1>10
  <1>12. \A n \in Below(c.file) : kind'[n] = "dir" => "owner" \in mode'[n]
    BY <1>2, <1>6
  <1>13. Kept(p)'
    <2>1. PICK r : r = c.file
      OBVIOUS
    <2> QED  BY <1>5, <1>9, <1>11, <1>12, <2>1, KeptNext
  <1>14. Alive(p)'
    BY <1>2, <1>4, <1>5, <1>7, <1>9 DEF Alive, Top
  <1> QED  BY <1>13, <1>14

\* When all calls are removes, what they know stays true and one of them is alive.
LEMMA RemoveInvStep == FileInv /\ NestInv /\ RemoveInv /\ [Next]_vars => RemoveInv'
  <1> SUFFICES ASSUME FileInv, NestInv, RemoveInv, [Next]_vars, Only("remove")'
               PROVE  /\ \A p \in Procs : outcome'[p] = "running" => Kept(p)'
                      /\ Started' # {} => \E p \in Started' : Alive(p)'
    BY DEF RemoveInv
  <1>1. Only("remove")
    BY OnlyBefore
  <1>2. /\ \A p \in Procs : outcome[p] = "running" => Kept(p)
        /\ Started # {} => \E p \in Started : Alive(p)
    BY <1>1 DEF RemoveInv
  <1>3. CASE UNCHANGED vars
    BY <1>2, <1>3 DEF Started, Alive, Top, Kept, Knows, Access, Children,
                      vars, treeVars, procVars, callVars
  <1>4. ASSUME NEW q \in Procs, Begin(q)
        PROVE  /\ \A p \in Procs : outcome'[p] = "running" => Kept(p)'
               /\ Started' # {} => \E p \in Started' : Alive(p)'
    <2>1. outcome'[q] = "running" /\ q \in Started'
      BY <1>4 DEF Begin, Started, FileInv, StackInv
    <2>2. Kept(q)' /\ Alive(q)'
      BY <1>4, <2>1, BeginHasKept DEF Only
    <2>3. ASSUME NEW p \in Procs \ {q}, outcome'[p] = "running"  PROVE Kept(p)'
      <3>1. /\ outcome'[p] = outcome[p] /\ stack'[p] = stack[p] /\ call'[p] = call[p]
            /\ kind' = kind /\ mode' = mode
        BY <1>4 DEF Begin, treeVars, FileInv, StackInv
      <3>2. Kept(p)
        BY <1>2, <2>3, <3>1
      <3> QED  BY <3>1, <3>2 DEF Kept, Knows, Access, Children
    <2> QED  BY <2>1, <2>2, <2>3
  <1>5. ASSUME NEW q \in Procs, Step(q)
        PROVE  /\ \A p \in Procs : outcome'[p] = "running" => Kept(p)'
               /\ Started' # {} => \E p \in Started' : Alive(p)'
    <2>1. /\ q \in Started /\ outcome[q] = "running" /\ Started' = Started
          /\ call[q].op = "remove" /\ fit[q]
      BY <1>1, <1>5, StartedStep DEF Only
    <2>2. RemoveStep(q)
      <3>1. Top(q).at \in RemovePlaces
        BY <1>5, <2>1, WaysToGoOn, TopFrame DEF FileInv, FramesOf
      <3> QED  BY <1>5, <3>1
               DEF Step, MakeStep, Father, Mkdir, Exists, IsADirectory, FifoExists, IsFifo,
                   Compare, Mkfifo, Permissions, Chmod, At, RemovePlaces
    <2>3. /\ outcome'[q] = "running" => Kept(q)'
          /\ Alive(q)' \/ (~ Alive(q) /\ UNCHANGED <<kind, mode>>)
      BY <1>2, <2>1, <2>2, OwnStepKeepsKept DEF NestInv
    <2>4. \A p \in Procs \ {q} : stack'[p] = stack[p] /\ outcome'[p] = outcome[p]
      BY <1>5, StepsOfOthers
    <2>5. \A p \in Procs : outcome'[p] = "running" => Kept(p)'
      BY <1>2, <2>2, <2>3, <2>4, OthersKeepKept
    <2>6. \E p \in Started : Alive(p)'
      <3>1. CASE Alive(q)'
        BY <2>1, <3>1
      <3>2. CASE ~ Alive(q) /\ UNCHANGED <<kind, mode>>
        <4>1. PICK p \in Started : Alive(p)
          BY <1>2, <2>1
        <4>2. p \in Procs \ {q}
          BY <3>2, <4>1 DEF Started
        <4>3. Alive(p)'
          BY <2>4, <3>2, <4>1, <4>2 DEF Alive, Top
        <4> QED  BY <4>3
      <3> QED  BY <2>3, <3>1, <3>2
    <2> QED  BY <2>1, <2>5, <2>6
  <1> QED  BY <1>3, <1>4, <1>5 DEF Next

-----------------------------------------------------------------------------
(* Processes that make the same FIFO *)

\* There will be a FIFO for a call that has found one, and none yet for a call that
\* comes to make it first.
Sure(p) ==
    \/ outcome[p] = "returned"
    \/ /\ outcome[p] = "running"
       /\ Top(p).at = "mkfifo" => kind[call[p].file] = "none"

\* What a make_fifo needs, and what it has found.
FifoOf(p) ==
    /\ Access(call[p].file)
    /\ kind[call[p].file] \in {"none", "fifo"}
    /\ Top(p).at \in {"is_fifo", "compare", "permissions", "chmod"} =>
          kind[call[p].file] = "fifo"

\* As long as there are only calls of make_fifo, one of them is sure of its FIFO.
FifoInv ==
    Only("make_fifo") =>
        /\ \A p \in Procs : outcome[p] = "running" => FifoOf(p)
        /\ Started # {} => \E p \in Started : Sure(p)

\* A FIFO has been made, or its permissions changed.
Piped(n) ==
    /\ n \in Nodes /\ kind[n] \in {"none", "fifo"}
    /\ kind' = [kind EXCEPT ![n] = "fifo"]
    /\ \E m \in SUBSET Rights : mode' = [mode EXCEPT ![n] = m]

\* That closes no way, and removes no FIFO.
LEMMA PipedKeeps ==
  ASSUME TreeInv, NEW n, Piped(n), NEW x \in Nodes
  PROVE  /\ Access(x) => \A a \in Above[x] : kind'[a] = "dir" /\ "owner" \in mode'[a]
         /\ kind[x] \in {"none", "fifo"} => kind'[x] \in {"none", "fifo"}
         /\ kind[x] = "fifo" => kind'[x] = "fifo"
  <1>1. kind \in [Nodes -> Kinds] /\ mode \in [Nodes -> SUBSET Rights] /\ Above[x] \subseteq Nodes
    BY AboveSteps DEF TreeInv
  <1>2. Access(x) => n \notin Above[x]
    BY DEF Access, Piped
  <1> QED  BY <1>1, <1>2 DEF Access, Piped

\* A make_fifo leaves the others what they have found.
LEMMA PipedKeepsFifo ==
  ASSUME FileInv, NEW p \in Procs, outcome[p] = "running", FifoOf(p),
         UNCHANGED <<kind, mode>> \/ \E n : Piped(n),
         call'[p] = call[p], stack'[p] = stack[p]
  PROVE  FifoOf(p)'
  <1>1. PICK x \in Nodes : x = call[p].file
    BY CallsAssumption DEF FileInv, StackInv
  <1>2. /\ \A a \in Above[x] : kind'[a] = "dir" /\ "owner" \in mode'[a]
        /\ kind'[x] \in {"none", "fifo"}
        /\ kind[x] = "fifo" => kind'[x] = "fifo"
    BY <1>1, PipedKeeps DEF FileInv, FifoOf, Access
  <1> QED  BY <1>1, <1>2 DEF FifoOf, Access, Top

\* A step of a make_fifo: unless another was faster, it goes on.
LEMMA FifoStep ==
  ASSUME FileInv, NEW p \in Procs, Step(p), NestOf(p), call[p].op = "make_fifo", fit[p], FifoOf(p)
  PROVE  /\ UNCHANGED <<kind, mode>> \/ \E n : Piped(n)
         /\ outcome'[p] = "running" => FifoOf(p)'
         /\ Sure(p)' \/ (~ Sure(p) /\ UNCHANGED <<kind, mode>>)
  <1>1. PICK f, s, c, n : f = Top(p) /\ s = stack[p] /\ c = call[p] /\ n = c.file
    OBVIOUS
  <1>2. /\ s # <<>> /\ outcome[p] = "running" /\ c \in Calls /\ n \in Nodes
        /\ f = s[1] /\ f \in Frame /\ Len(s) \in Nat \ {0} /\ s \in Seq(Frame)
    BY <1>1, WaysToGoOn, TopFrame, FirstFrame, CallsAssumption DEF FileInv
  <1>3. /\ UNCHANGED call /\ TreeInv
        /\ stack = [x \in Procs |-> stack[x]] /\ outcome = [x \in Procs |-> outcome[x]]
    BY StepsOfOthers DEF callVars, FileInv, StackInv
  <1>4. Climb(c, s) /\ s[Len(s)].file = n
    BY <1>1, <1>2 DEF NestOf
  <1>5. /\ Len(s) = 1 /\ f.file = n
        /\ f.at \in FifoPlaces /\ ~ f.ignore
    <2>1. Len(s) = 1 /\ s \in Seq(ClimbFrames("make_fifo"))
      BY <1>1, <1>4 DEF Climb
    <2>2. s[1] \in ClimbFrames("make_fifo")
      <3>1. 1 \in 1 .. Len(s)
        BY <2>1
      <3> QED  BY <2>1, <3>1, ElementOfSeq
    <2> QED  BY <1>2, <1>4, <2>1, <2>2 DEF ClimbFrames, ClimbPlaces
  <1>6. Tail(s) = <<>>
    <2>1. Tail(s) \in Seq(Frame) /\ Len(Tail(s)) = 0
      BY <1>2, <1>5, HeadTailProperties, EmptySeq
    <2> QED  BY <2>1, EmptySeq
  <1>7. /\ Access(n) /\ kind[n] \in {"none", "fifo"}
        /\ f.at \in {"is_fifo", "compare", "permissions", "chmod"} => kind[n] = "fifo"
    BY <1>1 DEF FifoOf
  <1>8. Follow(n) = n /\ (Stat(n) <=> kind[n] = "fifo")
    BY <1>7 DEF Stat, Follow
  <1>9. Sure(p) <=> (f.at = "mkfifo" => kind[n] = "none")
    BY <1>1, <1>2 DEF Sure
  <1>10. ASSUME UNCHANGED <<kind, mode>> \/ Piped(n)
         PROVE  /\ \A a \in Above[n] : kind'[a] = "dir" /\ "owner" \in mode'[a]
                /\ kind'[n] \in {"none", "fifo"}
                /\ kind[n] = "fifo" => kind'[n] = "fifo"
    BY <1>2, <1>3, <1>7, <1>10, PipedKeeps DEF Access
  <1>11. ASSUME UNCHANGED <<kind, mode>> \/ Piped(n), Return(p)
         PROVE  outcome'[p] = "returned" /\ Sure(p)'
    BY <1>1, <1>3, <1>6, <1>11 DEF Return, Sure
  <1>12. ASSUME UNCHANGED <<kind, mode>> \/ Piped(n), NEW at \in FifoPlaces, Goto(p, at),
                at = "mkfifo" => kind'[n] = "none",
                at \in {"is_fifo", "compare", "permissions", "chmod"} => kind'[n] = "fifo"
         PROVE  FifoOf(p)' /\ Sure(p)'
    <2>1. PICK h : h = [f EXCEPT !.at = at]
      OBVIOUS
    <2>2. h.at = at /\ stack'[p] = <<h>> \o Tail(s) /\ outcome'[p] = "running"
      BY <1>1, <1>2, <1>3, <1>12, <2>1 DEF Goto, Continue, Frame
    <2>3. Head(stack'[p]) = h
      BY <1>6, <2>2
    <2>4. call'[p].file = n
      BY <1>1, <1>3
    <2> QED  BY <1>10, <1>12, <2>2, <2>3, <2>4 DEF FifoOf, Sure, Access, Top
  <1>13. Looks => UNCHANGED <<kind, mode>>
    BY DEF Looks, treeVars
  <1>14. Throw(p) => outcome'[p] # "running"
    BY <1>3 DEF Throw
  <1>15. CASE FifoExists(p)
    <2>1. Looks /\ Goto(p, IF Stat(n) THEN "is_fifo" ELSE "mkfifo")
      BY <1>1, <1>5, <1>15 DEF FifoExists
    <2> QED  BY <1>7, <1>8, <1>12, <1>13, <2>1 DEF FifoPlaces
  <1>16. CASE IsFifo(p)
    <2>1. f.at = "is_fifo"
      BY <1>1, <1>16 DEF IsFifo, At
    <2>2. Looks /\ Goto(p, "compare")
      BY <1>1, <1>5, <1>7, <1>8, <1>16, <2>1 DEF IsFifo
    <2> QED  BY <1>7, <1>12, <1>13, <2>1, <2>2 DEF FifoPlaces
  <1>17. CASE Compare(p) \/ Permissions(p)
    <2>1. f.at = "compare" \/ f.at = "permissions"
      BY <1>1, <1>17 DEF Compare, Permissions, At
    <2>2. Looks /\ (Return(p) \/ Goto(p, "permissions") \/ Goto(p, "chmod"))
      BY <1>1, <1>5, <1>7, <1>8, <1>17, <2>1 DEF Compare, Permissions
    <2> QED  BY <1>7, <1>11, <1>12, <1>13, <2>1, <2>2 DEF FifoPlaces
  <1>18. CASE Mkfifo(p)
    <2>1. f.at = "mkfifo"
      BY <1>1, <1>18 DEF Mkfifo, At
    <2>2. CASE kind[n] = "none"
      <3>1. Create(p, "fifo", {"fifo"})
        BY <1>1, <1>5, <1>7, <1>18, <2>2 DEF Mkfifo, MayCreate
      <3>2. /\ Change(p, n, "fifo", f.perm \ Umask, {"fifo"})
            /\ Goto(p, "permissions")
        BY <1>1, <1>5, <3>1 DEF Create
      <3>3. Piped(n)
        BY <1>2, <2>2, <3>2 DEF Piped, Change, Frame
      <3>4. kind'[n] = "fifo"
        BY <1>2, <1>3, <3>3 DEF Piped, TreeInv
      <3> QED  BY <1>12, <3>2, <3>3, <3>4 DEF FifoPlaces
    <2>3. CASE kind[n] # "none"
      <3>1. Throw(p) /\ Looks
        BY <1>1, <1>5, <1>18, <2>3 DEF Mkfifo, MayCreate
      <3> QED  BY <1>9, <1>13, <1>14, <2>1, <2>3, <3>1
    <2> QED  BY <2>2, <2>3
  <1>19. CASE Chmod(p)
    <2>1. f.at = "chmod" /\ kind[n] = "fifo"
      BY <1>1, <1>7, <1>19 DEF Chmod, At
    <2>2. /\ Change(p, n, kind[n], f.perm, {"chmod"})
          /\ Return(p)
      BY <1>1, <1>5, <1>8, <1>19, <2>1 DEF Chmod
    <2>3. Piped(n)
      BY <1>2, <2>1, <2>2 DEF Piped, Change, Frame
    <2> QED  BY <1>11, <2>2, <2>3
  <1>20. CASE RemoveStep(p) \/ Father(p) \/ Mkdir(p) \/ Exists(p) \/ IsADirectory(p)
    BY <1>1, <1>5, <1>20 DEF RemoveStep, IsDirectoryOf, Directory, NextChild, Rmdir, Unlink,
                             Father, Mkdir, Exists, IsADirectory, At, FifoPlaces
  <1> QED  BY <1>15, <1>16, <1>17, <1>18, <1>19, <1>20 DEF Step, MakeStep

\* A make_fifo that suits the tree begins with what it needs.
LEMMA BeginHasFifo ==
  ASSUME FileInv, NEW p \in Procs, Begin(p), fit'[p], call'[p].op = "make_fifo"
  PROVE  FifoOf(p)' /\ Sure(p)'
  <1>1. PICK c \in Calls :
          /\ call' = [call EXCEPT ![p] = c]
          /\ fit' = [fit EXCEPT ![p] = Fit(c)]
          /\ stack' = [stack EXCEPT ![p] =
                         <<NewFrame(FirstStep(c.op), set_name(c.file), c.perm)>>]
    BY CallsAssumption DEF Begin
  <1>2. outcome' = [outcome EXCEPT ![p] = "running"] /\ kind' = kind /\ mode' = mode
    BY DEF Begin, treeVars
  <1>3. call'[p] = c /\ fit'[p] = Fit(c) /\ outcome'[p] = "running" /\ c.op = "make_fifo"
    BY <1>1, <1>2 DEF FileInv, StackInv, RemovedInv
  <1>4. Access(c.file) /\ kind[c.file] \in {"none", "fifo"}
    BY <1>3 DEF Fit
  <1>5. Top(p)'.at = "fifo_exists"
    BY <1>1, <1>3 DEF Top, NewFrame, FirstStep, FileInv, StackInv
  <1> QED  BY <1>2, <1>3, <1>4, <1>5 DEF FifoOf, Sure, Access

\* When all calls make FIFOs, one of them has no reason to throw.
LEMMA FifoInvStep == FileInv /\ NestInv /\ FifoInv /\ [Next]_vars => FifoInv'
  <1> SUFFICES ASSUME FileInv, NestInv, FifoInv, [Next]_vars, Only("make_fifo")'
               PROVE  /\ \A p \in Procs : outcome'[p] = "running" => FifoOf(p)'
                      /\ Started' # {} => \E p \in Started' : Sure(p)'
    BY DEF FifoInv
  <1>1. Only("make_fifo")
    BY OnlyBefore
  <1>2. /\ \A p \in Procs : outcome[p] = "running" => FifoOf(p)
        /\ Started # {} => \E p \in Started : Sure(p)
    BY <1>1 DEF FifoInv
  <1>3. CASE UNCHANGED vars
    BY <1>2, <1>3 DEF Started, Sure, Top, FifoOf, Access, vars, treeVars, procVars, callVars
  <1>4. ASSUME NEW q \in Procs, Begin(q)
        PROVE  /\ \A p \in Procs : outcome'[p] = "running" => FifoOf(p)'
               /\ Started' # {} => \E p \in Started' : Sure(p)'
    <2>1. outcome'[q] = "running" /\ q \in Started'
      BY <1>4 DEF Begin, Started, FileInv, StackInv
    <2>2. FifoOf(q)' /\ Sure(q)'
      BY <1>4, <2>1, BeginHasFifo DEF Only
    <2>3. ASSUME NEW p \in Procs \ {q}, outcome'[p] = "running"  PROVE FifoOf(p)'
      <3>1. /\ outcome'[p] = outcome[p] /\ stack'[p] = stack[p] /\ call'[p] = call[p]
            /\ kind' = kind /\ mode' = mode
        BY <1>4 DEF Begin, treeVars, FileInv, StackInv
      <3> QED  BY <1>2, <2>3, <3>1, PipedKeepsFifo
    <2> QED  BY <2>1, <2>2, <2>3
  <1>5. ASSUME NEW q \in Procs, Step(q)
        PROVE  /\ \A p \in Procs : outcome'[p] = "running" => FifoOf(p)'
               /\ Started' # {} => \E p \in Started' : Sure(p)'
    <2>1. /\ q \in Started /\ outcome[q] = "running" /\ Started' = Started
          /\ call[q].op = "make_fifo" /\ fit[q]
      BY <1>1, <1>5, StartedStep DEF Only
    <2>2. /\ UNCHANGED <<kind, mode>> \/ \E n : Piped(n)
          /\ outcome'[q] = "running" => FifoOf(q)'
          /\ Sure(q)' \/ (~ Sure(q) /\ UNCHANGED <<kind, mode>>)
      BY <1>2, <1>5, <2>1, FifoStep DEF NestInv
    <2>3. /\ UNCHANGED callVars
          /\ \A p \in Procs \ {q} : stack'[p] = stack[p] /\ outcome'[p] = outcome[p]
      BY <1>5, StepsOfOthers
    <2>4. ASSUME NEW p \in Procs \ {q}, outcome'[p] = "running"  PROVE FifoOf(p)'
      BY <1>2, <2>2, <2>3, <2>4, PipedKeepsFifo DEF callVars
    <2>5. \E p \in Started : Sure(p)'
      <3>1. CASE Sure(q)'
        BY <2>1, <3>1
      <3>2. CASE ~ Sure(q) /\ UNCHANGED <<kind, mode>>
        <4>1. PICK p \in Started : Sure(p)
          BY <1>2, <2>1
        <4>2. p \in Procs \ {q}
          BY <3>2, <4>1 DEF Started
        <4>3. Sure(p)'
          BY <2>3, <3>2, <4>1, <4>2 DEF Sure, Top, callVars
        <4> QED  BY <4>3
      <3> QED  BY <2>2, <3>1, <3>2
    <2> QED  BY <2>1, <2>2, <2>4, <2>5
  <1> QED  BY <1>3, <1>4, <1>5 DEF Next

\* Of any number of processes that remove the same tree, or parts of it, and of any
\* number that make the same FIFO, some go on or have done their work
\* (File::remove, File::make_fifo).
THEOREM SomebodyAlwaysSucceeds == Spec => []SomebodySucceeds
  <1>1. Init => RemoveInv /\ FifoInv
    BY DEF Init, RemoveInv, FifoInv, Started
  <1>2. RemoveInv /\ FifoInv => SomebodySucceeds
    BY DEF RemoveInv, FifoInv, SomebodySucceeds, Started, Only, Alive, Sure
  <1> QED  BY <1>1, <1>2, FileInvariance, NestInvariance, RemoveInvStep, FifoInvStep, PTL DEF Spec

-----------------------------------------------------------------------------
(* What has been made *)

\* What takes the name of what a call is to make.
Taken(op) == IF op = "make_fifo" THEN "made" ELSE "fifo"

\* The call of p suits the tree, and nobody removes anything or takes a name.
Spared(p) ==
    /\ call[p] # NoCall /\ call[p].op # "remove" /\ fit[p]
    /\ harm[p] \cap {"removed", Taken(call[p].op)} = {}

\* The names on the way are free or taken by what is to be made, and what a frame
\* has found or made is there.
MadeOf(p) ==
    LET c == call[p]
        f == Top(p) IN
    /\ kind[c.file] \in {"none", Made[c.op]}
    /\ c.op # "make_fifo" => \A a \in Above[c.file] : kind[a] \in {"none", "dir"}
    /\ f.at \in {"is_a_directory", "compare", "permissions", "chmod"} =>
          kind[f.file] = Made[c.op]

\* This holds of every call that others spare.
MadeInv == \A p \in Procs : outcome[p] = "running" /\ Spared(p) => MadeOf(p)

\* What is made.
LEMMA MadeKinds ==
  /\ Made["make_fifo"] = "fifo"
  /\ \A op \in {"make_dir", "make_path"} : Made[op] = "dir"
  BY DEF Made

\* Every frame of a call works on its path or a directory on the way there.
LEMMA ClimbOnWay ==
  ASSUME NEW c \in Calls, NEW s, s # <<>>, Climb(c, s), s[Len(s)].file = c.file
  PROVE  /\ s[1] \in ClimbFrames(c.op)
         /\ s[1].file \in {c.file} \cup Above[c.file]
         /\ Len(s) = 1 => s[1].file = c.file /\ s[1].perm = c.perm
         /\ Tail(s) # <<>> => Head(Tail(s)).at = "mkdir"
  <1>1. /\ s \in Seq(ClimbFrames(c.op)) /\ Shape(s, ClimbCalls, ClimbOrder)
        /\ s[Len(s)].perm = c.perm
    BY DEF Climb
  <1>2. Len(s) \in Nat \ {0}
    BY <1>1, LenProperties, EmptySeq
  <1>3. s[1] \in ClimbFrames(c.op)
    <2>1. 1 \in 1 .. Len(s)
      BY <1>2
    <2> QED  BY <1>1, <2>1, ElementOfSeq
  <1>4. CASE Len(s) = 1
    <2>1. Tail(s) \in Seq(ClimbFrames(c.op)) /\ Len(Tail(s)) = 0
      BY <1>1, <1>4, HeadTailProperties, EmptySeq
    <2>2. Tail(s) = <<>>
      BY <2>1, EmptySeq
    <2> QED  BY <1>1, <1>3, <1>4, <2>2
  <1>5. CASE Len(s) # 1
    <2>1. PICK n \in Nat \ {0} : n = Len(s)
      BY <1>2
    <2>2. /\ 1 \in 1 .. Len(s) /\ 2 \in 1 .. Len(s) /\ Len(s) \in 1 .. Len(s) /\ 1 < Len(s)
          /\ 1 \in 1 .. Len(s) - 1 /\ 1 + 1 = 2
      BY <1>2, <1>5, <2>1
    <2>3. <<s[1], s[Len(s)]>> \in ClimbOrder /\ <<s[1], s[2]>> \in ClimbCalls
      BY <1>1, <2>2 DEF Shape
    <2>4. s[1].file \in Above[c.file] /\ s[2].at = "mkdir"
      BY <2>3 DEF ClimbOrder, ClimbCalls
    <2>5. /\ Tail(s) \in Seq(ClimbFrames(c.op)) /\ Len(Tail(s)) = Len(s) - 1
          /\ Tail(s)[1] = s[2]
      BY <1>1, <2>2, HeadTailProperties, EmptySeq
    <2>6. Tail(s) # <<>> => Head(Tail(s)) = s[2]
      BY <2>5
    <2> QED  BY <1>3, <1>5, <2>4, <2>6
  <1> QED  BY <1>4, <1>5

\* Others that spare a call only add directories to the way of a make_path, and FIFOs
\* to that of a make_fifo.
LEMMA OthersKeepMade ==
  ASSUME FileInv, NEW q \in Procs, Step(q), NEW p \in Procs \ {q}, outcome[p] = "running",
         Spared(p)', MadeOf(p)
  PROVE  MadeOf(p)'
  <1>1. PICK c : c = call[p]
    OBVIOUS
  <1>2. /\ call'[p] = c /\ stack'[p] = stack[p] /\ c \in Calls
        /\ \/ UNCHANGED treeVars
           \/ \E n \in Nodes, k \in Kinds, m \in SUBSET Rights, what \in SUBSET Harms :
                 Change(q, n, k, m, what) /\ Noticed(n, k, m, what)
    BY <1>1, StepsOfOthers DEF callVars, FileInv, StackInv
  <1>3. /\ c.file \in Nodes /\ Above[c.file] \subseteq Nodes /\ Top(p).file \in Nodes
        /\ c.op \in {"make_dir", "make_path", "make_fifo"}
    <2>1. stack[p] # <<>>
      BY DEF FileInv, StackInv
    <2>2. Top(p) \in Frame
      BY <2>1, FirstFrame DEF FileInv
    <2>3. c.op # "remove"
      BY <1>2 DEF Spared
    <2> QED  BY <1>2, <2>2, <2>3, CallsAssumption, AboveSteps DEF Frame
  <1>4. \A x \in Nodes : kind'[x] = kind[x] \/ (kind[x] = "none" /\ kind'[x] = Made[c.op])
    <2>1. CASE UNCHANGED treeVars
      BY <2>1 DEF treeVars
    <2>2. ASSUME NEW n \in Nodes, NEW k \in Kinds, NEW m \in SUBSET Rights,
                 NEW what \in SUBSET Harms, Change(q, n, k, m, what), Noticed(n, k, m, what)
          PROVE  \A x \in Nodes : kind'[x] = kind[x] \/ (kind[x] = "none" /\ kind'[x] = Made[c.op])
      <3>1. what \subseteq harm'[p]
        BY <2>2 DEF Change
      <3>2. what # {"removed"} /\ what # {Taken(c.op)}
        BY <1>2, <3>1 DEF Spared
      <3>3. k = kind[n] \/ (kind[n] = "none" /\ k = Made[c.op])
        BY <1>3, <2>2, <3>2, MadeKinds DEF Noticed, Taken
      <3> QED  BY <2>2, <3>3 DEF Change, FileInv, TreeInv
    <2> QED  BY <1>2, <2>1, <2>2
  <1>5. Top(p)' = Top(p)
    BY <1>2 DEF Top
  <1>6. \A x \in Nodes : /\ kind[x] \in {"none", Made[c.op]} => kind'[x] \in {"none", Made[c.op]}
                         /\ kind[x] = Made[c.op] => kind'[x] = Made[c.op]
    BY <1>4
  <1>7. c.op # "make_fifo" => Made[c.op] = "dir"
    BY <1>3, MadeKinds
  <1> QED  BY <1>1, <1>2, <1>3, <1>5, <1>6, <1>7 DEF MadeOf

\* A step of a call that is spared leaves what it has made; and when the call returns
\* it is there, with the permissions that were asked for if others did nothing.
LEMMA OwnStepMakes ==
  ASSUME FileInv, NEW p \in Procs, Step(p), NestOf(p), Spared(p), MadeOf(p)
  PROVE  /\ outcome'[p] = "running" => MadeOf(p)'
         /\ outcome'[p] = "returned" =>
               /\ kind'[call[p].file] = Made[call[p].op]
               /\ (Undisturbed(p) => PathOf(p)) /\ harm[p] = {} =>
                     mode'[call[p].file] = call[p].perm
  <1>1. PICK f, s, c, n : f = Top(p) /\ s = stack[p] /\ c = call[p] /\ n = c.file
    OBVIOUS
  <1>2. /\ s # <<>> /\ outcome[p] = "running" /\ c \in Calls /\ n \in Nodes /\ c.op # "remove"
        /\ f = s[1] /\ f \in Frame /\ Len(s) \in Nat \ {0} /\ s \in Seq(Frame) /\ fit[p]
    BY <1>1, WaysToGoOn, TopFrame, FirstFrame, CallsAssumption DEF FileInv, Spared
  <1>3. /\ UNCHANGED call /\ TreeInv
        /\ stack = [x \in Procs |-> stack[x]] /\ outcome = [x \in Procs |-> outcome[x]]
    BY StepsOfOthers DEF callVars, FileInv, StackInv
  <1>4. Climb(c, s) /\ s[Len(s)].file = c.file
    BY <1>1, <1>2 DEF NestOf
  <1>5. /\ f \in ClimbFrames(c.op) /\ f.file \in {n} \cup Above[n]
        /\ Len(s) = 1 => f.file = n /\ f.perm = c.perm
        /\ Tail(s) # <<>> => Head(Tail(s)).at = "mkdir"
        /\ c.op # "make_path" => Len(s) = 1
    BY <1>1, <1>2, <1>4, ClimbOnWay DEF Climb
  <1>6. /\ c.op \in {"make_dir", "make_path", "make_fifo"}
        /\ c.op \in {"make_dir", "make_path"} => f.at \in PathPlaces /\ Made[c.op] = "dir"
        /\ c.op = "make_fifo" => f.at \in FifoPlaces /\ ~ f.ignore /\ Made[c.op] = "fifo"
    <2>1. c.op \in {"make_dir", "make_path", "make_fifo"}
      BY <1>2, CallsAssumption
    <2> QED  BY <1>5, <2>1, MadeKinds DEF ClimbFrames, ClimbPlaces
  <1>7. f.file \in Nodes /\ Above[n] \subseteq Nodes /\ kind \in [Nodes -> Kinds]
        /\ mode \in [Nodes -> SUBSET Rights]
    BY <1>2, <1>3, AboveSteps DEF Frame, TreeInv
  <1>8. /\ kind[n] \in {"none", Made[c.op]}
        /\ c.op # "make_fifo" => \A a \in Above[n] : kind[a] \in {"none", "dir"}
        /\ f.at \in {"is_a_directory", "compare", "permissions", "chmod"} =>
              kind[f.file] = Made[c.op]
    BY <1>1 DEF MadeOf
  <1>9. kind[f.file] \in {"none", Made[c.op]}
    BY <1>5, <1>6, <1>8
  <1>10. /\ Follow(f.file) = f.file
         /\ Stat(f.file) <=> Access(f.file) /\ kind[f.file] # "none"
         /\ IsDirectory(f.file) <=> kind[f.file] = "dir"
    BY <1>3, <1>6, <1>7, <1>9, PassedStat DEF IsDirectory
  <1> DEFINE Kind == kind' = kind \/ (kind[f.file] = "none" /\ kind' = [kind EXCEPT ![f.file] = Made[c.op]])
  <1>11. ASSUME Kind
         PROVE  /\ kind'[n] \in {"none", Made[c.op]}
                /\ c.op # "make_fifo" => \A a \in Above[n] : kind'[a] \in {"none", "dir"}
    BY <1>2, <1>6, <1>7, <1>8, <1>11
  <1>12. ASSUME Kind, NEW h, Head(stack'[p]) = h,
                h.at \in {"is_a_directory", "compare", "permissions", "chmod"} =>
                   kind'[h.file] = Made[c.op]
         PROVE  MadeOf(p)'
    BY <1>1, <1>3, <1>11, <1>12 DEF MadeOf, Top
  <1>13. ASSUME Kind, NEW h \in Frame, Continue(p, h),
                h.at \in {"is_a_directory", "compare", "permissions", "chmod"} =>
                   kind'[h.file] = Made[c.op]
         PROVE  outcome'[p] = "running" /\ MadeOf(p)'
    <2>1. stack'[p] = <<h>> \o Tail(s) /\ outcome'[p] = "running"
      BY <1>1, <1>2, <1>3, <1>13 DEF Continue
    <2>2. Head(stack'[p]) = h
      <3>1. Tail(s) \in Seq(Frame)
        BY <1>2, StackOperations
      <3> QED  BY <2>1, <3>1
    <2> QED  BY <1>12, <1>13, <2>1, <2>2
  <1>14. ASSUME Kind, Return(p)
         PROVE  \/ outcome'[p] = "running" /\ MadeOf(p)'
                \/ outcome'[p] = "returned" /\ Len(s) = 1
    <2>1. CASE Tail(s) = <<>>
      <3>1. Len(s) = 1
        <4>1. Len(Tail(s)) = 0 /\ Len(Tail(s)) = Len(s) - 1
          BY <1>2, <2>1, HeadTailProperties
        <4> QED  BY <1>2, <4>1
      <3> QED  BY <1>1, <1>2, <1>3, <1>14, <2>1, <3>1 DEF Return
    <2>2. CASE Tail(s) # <<>>
      <3>1. stack'[p] = Tail(s) /\ outcome'[p] = "running"
        BY <1>1, <1>2, <1>3, <1>14, <2>2 DEF Return
      <3>2. Head(stack'[p]).at = "mkdir"
        BY <1>5, <2>2, <3>1
      <3> QED  BY <1>12, <1>14, <3>1, <3>2
    <2> QED  BY <2>1, <2>2
  <1>15. Looks => kind' = kind /\ mode' = mode
    BY DEF Looks, treeVars
  <1>16. Throw(p) => outcome'[p] = "threw"
    BY <1>3 DEF Throw
  <1>17. ASSUME NEW at \in Places
         PROVE  LET h == [f EXCEPT !.at = at] IN h \in Frame /\ h.file = f.file /\ h.at = at
    BY <1>2, <1>17 DEF Frame
  <1>18. ASSUME Kind, NEW at \in Places, Goto(p, at),
                at \in {"is_a_directory", "compare", "permissions", "chmod"} =>
                   kind'[f.file] = Made[c.op]
         PROVE  outcome'[p] = "running" /\ MadeOf(p)'
    <2>1. Continue(p, [f EXCEPT !.at = at])
      BY <1>1, <1>18 DEF Goto
    <2>2. ASSUME NEW h \in Frame, h.file = f.file, h.at = at, Continue(p, h)
          PROVE  outcome'[p] = "running" /\ MadeOf(p)'
      BY <1>13, <1>18, <2>2
    <2> QED  BY <1>17, <2>1, <2>2
  <1>19. f.at \in {"permissions", "chmod"} /\ f.ignore /\ Undisturbed(p) /\ PathOf(p) => Stat(f.file)
    <2> SUFFICES ASSUME f.at \in {"permissions", "chmod"}, f.ignore, Undisturbed(p), PathOf(p)
                 PROVE  Stat(f.file)
      OBVIOUS
    <2>1. Way(n) /\ OnWay(f, n) /\ Reached(f)
      <3>1. 1 \in 1 .. Len(s)
        BY <1>2
      <3> QED  BY <1>1, <1>2, <3>1 DEF PathOf
    <2> QED  BY <1>2, <2>1, OnTheWay
  <1>20. harm[p] = {} /\ f.ignore => Undisturbed(p)
    BY <1>1, <1>2, <1>6 DEF Undisturbed, Spared
  <1> HIDE DEF Kind
  <1>21. ASSUME Looks  PROVE Kind
    BY <1>15, <1>21 DEF Kind
  <1> DEFINE Goal == /\ outcome'[p] = "running" => MadeOf(p)'
                     /\ outcome'[p] = "returned" =>
                           /\ kind'[n] = Made[c.op]
                           /\ (Undisturbed(p) => PathOf(p)) /\ harm[p] = {} => mode'[n] = c.perm
  <1>22. CASE Father(p)
    <2>1. Looks /\ (Goto(p, "mkdir") \/ \E h : Recurse(p, h, NewFrame("father", Up[f.file], FatherRights(f.perm))))
      BY <1>1, <1>22 DEF Father
    <2>2. ASSUME NEW h, NEW g, Recurse(p, h, g), g.at = "father"
          PROVE  Goal
      <3>1. CASE Len(s) < MaxDepth
        <4>1. Head(stack'[p]) = g /\ outcome'[p] = "running"
          BY <1>1, <1>2, <1>3, <2>2, <3>1 DEF Recurse
        <4> QED  BY <1>12, <1>21, <2>1, <2>2, <4>1
      <3>2. CASE ~ (Len(s) < MaxDepth)
        BY <1>1, <1>3, <2>2, <3>2 DEF Recurse
      <3> QED  BY <3>1, <3>2
    <2>3. NewFrame("father", Up[f.file], FatherRights(f.perm)).at = "father"
      BY DEF NewFrame
    <2>4. CASE Goto(p, "mkdir")
      BY <1>18, <1>21, <2>1, <2>4 DEF Places
    <2> QED  BY <1>1, <2>1, <2>2, <2>3, <2>4
  <1>23. CASE Mkdir(p)
    <2>1. f.at = "mkdir" /\ Made[c.op] = "dir"
      BY <1>1, <1>6, <1>23 DEF Mkdir, At, FifoPlaces
    <2>2. CASE MayCreate(f.file)
      <3>1. Change(p, f.file, "dir", f.perm \ Umask, {"made"}) /\ Goto(p, "permissions")
        BY <1>1, <1>23, <2>2 DEF Mkdir, Create
      <3>2. Kind /\ kind'[f.file] = "dir"
        BY <1>7, <2>1, <2>2, <3>1 DEF Change, MayCreate, Kind
      <3> QED  BY <1>1, <1>18, <2>1, <3>1, <3>2 DEF Places
    <2>3. CASE ~ MayCreate(f.file)
      <3>1. Goto(p, "exists") /\ Looks
        BY <1>1, <1>23, <2>3 DEF Mkdir
      <3> QED  BY <1>1, <1>18, <1>21, <3>1 DEF Places
    <2> QED  BY <2>2, <2>3
  <1>24. CASE Exists(p)
    <2>1. Looks /\ (Throw(p) \/ (Stat(f.file) /\ Goto(p, "is_a_directory")))
      BY <1>1, <1>24 DEF Exists
    <2>2. Stat(f.file) => kind'[f.file] = Made[c.op]
      BY <1>9, <1>10, <1>15, <2>1
    <2> QED  BY <1>1, <1>16, <1>18, <1>21, <2>1, <2>2 DEF Places
  <1>25. CASE IsADirectory(p)
    <2>1. f.at = "is_a_directory" /\ kind[f.file] = "dir" /\ Made[c.op] = "dir"
      BY <1>1, <1>6, <1>8, <1>25 DEF IsADirectory, At, FifoPlaces
    <2>2. Looks /\ (Throw(p) \/ Continue(p, [f EXCEPT !.at = "permissions", !.ignore = TRUE]))
      BY <1>1, <1>10, <1>25, <2>1 DEF IsADirectory
    <2>3. PICK h : h = [f EXCEPT !.at = "permissions", !.ignore = TRUE]
      OBVIOUS
    <2>4. h \in Frame /\ h.file = f.file
      BY <1>2, <2>3 DEF Frame, Places
    <2>5. Looks /\ (Throw(p) \/ Continue(p, h)) /\ kind'[h.file] = Made[c.op]
      BY <1>15, <2>1, <2>2, <2>3, <2>4
    <2> QED  BY <1>1, <1>13, <1>16, <1>21, <2>4, <2>5
  <1>26. CASE FifoExists(p)
    <2>1. Looks /\ (Goto(p, "is_fifo") \/ Goto(p, "mkfifo"))
      BY <1>26 DEF FifoExists
    <2> QED  BY <1>1, <1>18, <1>21, <2>1 DEF Places
  <1>27. CASE IsFifo(p)
    <2>1. /\ Looks
          /\ \/ Throw(p) \/ Goto(p, "mkfifo")
             \/ kind[f.file] = "fifo" /\ Goto(p, "compare")
      BY <1>1, <1>10, <1>27 DEF IsFifo
    <2>2. kind[f.file] = "fifo" => kind'[f.file] = Made[c.op]
      BY <1>9, <1>15, <2>1
    <2> QED  BY <1>1, <1>16, <1>18, <1>21, <2>1, <2>2 DEF Places
  <1>28. CASE Mkfifo(p)
    <2>1. f.at = "mkfifo" /\ Made[c.op] = "fifo"
      BY <1>1, <1>6, <1>28 DEF Mkfifo, At, PathPlaces
    <2>2. CASE MayCreate(f.file)
      <3>1. Change(p, f.file, "fifo", f.perm \ Umask, {"fifo"}) /\ Goto(p, "permissions")
        BY <1>1, <1>28, <2>2 DEF Mkfifo, Create
      <3>2. Kind /\ kind'[f.file] = "fifo"
        BY <1>7, <2>1, <2>2, <3>1 DEF Change, MayCreate, Kind
      <3> QED  BY <1>1, <1>18, <2>1, <3>1, <3>2 DEF Places
    <2>3. CASE ~ MayCreate(f.file)
      BY <1>1, <1>16, <1>28, <2>3 DEF Mkfifo
    <2> QED  BY <2>2, <2>3
  <1>29. CASE Compare(p) \/ Permissions(p)
    <2>1. f.at \in {"compare", "permissions"} /\ kind[f.file] = Made[c.op]
          /\ (f.at = "compare" <=> Compare(p))
      BY <1>1, <1>8, <1>29 DEF Compare, Permissions, At
    <2>2. /\ Looks
          /\ \/ Throw(p) \/ Goto(p, "permissions") \/ Goto(p, "chmod")
             \/ /\ Return(p)
                /\ mode[f.file] = f.perm \/ (f.ignore /\ ~ Stat(f.file) /\ f.at = "permissions")
      BY <1>1, <1>10, <1>29, <2>1 DEF Compare, Permissions, PermissionsFail, At
    <2>3. kind' = kind /\ mode' = mode /\ Kind
      BY <1>15, <1>21, <2>2
    <2>4. CASE /\ Return(p)
               /\ mode[f.file] = f.perm \/ (f.ignore /\ ~ Stat(f.file) /\ f.at = "permissions")
      <3>1. \/ outcome'[p] = "running" /\ MadeOf(p)'
            \/ outcome'[p] = "returned" /\ f.file = n /\ f.perm = c.perm
        BY <1>5, <1>14, <2>3, <2>4
      <3>2. ASSUME Undisturbed(p) => PathOf(p), harm[p] = {}  PROVE mode[f.file] = f.perm
        BY <1>19, <1>20, <2>4, <3>2
      <3> QED  BY <1>1, <2>1, <2>3, <3>1, <3>2
    <2>5. CASE Throw(p)
      BY <1>16, <2>5
    <2>6. CASE Goto(p, "permissions") \/ Goto(p, "chmod")
      BY <1>1, <1>18, <2>1, <2>3, <2>6 DEF Places
    <2> QED  BY <2>2, <2>4, <2>5, <2>6
  <1>30. CASE Chmod(p)
    <2>1. f.at = "chmod" /\ kind[f.file] = Made[c.op]
      BY <1>1, <1>8, <1>30 DEF Chmod, At
    <2>2. CASE Stat(f.file)
      <3>1. Change(p, f.file, kind[f.file], f.perm, {"chmod"}) /\ Return(p)
        BY <1>1, <1>10, <1>30, <2>2 DEF Chmod
      <3>2. kind' = kind /\ mode'[f.file] = f.perm
        BY <1>7, <3>1 DEF Change
      <3>3. \/ outcome'[p] = "running" /\ MadeOf(p)'
            \/ outcome'[p] = "returned" /\ f.file = n /\ f.perm = c.perm
        BY <1>5, <1>14, <3>1, <3>2 DEF Kind
      <3> QED  BY <1>1, <2>1, <3>2, <3>3
    <2>3. CASE ~ Stat(f.file)
      <3>1. Looks /\ (Throw(p) \/ (f.ignore /\ Return(p)))
        BY <1>1, <1>30, <2>3 DEF Chmod, PermissionsFail
      <3>2. CASE Throw(p)
        BY <1>16, <3>2
      <3>3. CASE f.ignore /\ Return(p)
        <4>1. \/ outcome'[p] = "running" /\ MadeOf(p)'
              \/ outcome'[p] = "returned" /\ f.file = n
          BY <1>5, <1>14, <1>21, <3>1, <3>3
        <4>2. ~ ((Undisturbed(p) => PathOf(p)) /\ harm[p] = {})
          BY <1>19, <1>20, <2>1, <2>3, <3>3
        <4> QED  BY <1>1, <1>15, <2>1, <3>1, <4>1, <4>2
      <3> QED  BY <3>1, <3>2, <3>3
    <2> QED  BY <2>2, <2>3
  <1>31. CASE RemoveStep(p)
    <2>1. f.at \in RemovePlaces
      BY <1>1, <1>31 DEF RemoveStep, IsDirectoryOf, Directory, NextChild, Rmdir, Unlink, At, RemovePlaces
    <2> QED  BY <1>6, <2>1 DEF RemovePlaces, PathPlaces, FifoPlaces
  <1> QED  BY <1>22, <1>23, <1>24, <1>25, <1>26, <1>27, <1>28, <1>29, <1>30, <1>31 DEF Step, MakeStep

\* A call that suits the tree begins with its names free, or taken by what it is to
\* make.
LEMMA BeginHasMade ==
  ASSUME FileInv, NEW p \in Procs, Begin(p), Spared(p)'
  PROVE  MadeOf(p)'
  <1>1. PICK c \in Calls :
          /\ call' = [call EXCEPT ![p] = c]
          /\ fit' = [fit EXCEPT ![p] = Fit(c)]
          /\ stack' = [stack EXCEPT ![p] =
                         <<NewFrame(FirstStep(c.op), set_name(c.file), c.perm)>>]
    BY CallsAssumption DEF Begin
  <1>2. kind' = kind
    BY DEF Begin, treeVars
  <1>3. call'[p] = c /\ fit'[p] = Fit(c)
    BY <1>1 DEF FileInv, StackInv, RemovedInv
  <1>4. Fit(c) /\ c.op \in {"make_dir", "make_path", "make_fifo"}
    BY <1>3, CallsAssumption DEF Spared
  <1>5. /\ kind[c.file] \in {"none", Made[c.op]}
        /\ c.op # "make_fifo" => \A a \in Above[c.file] : kind[a] \in {"none", "dir"}
    BY <1>4, MadeKinds DEF Fit, Access
  <1>6. Top(p)'.at = FirstStep(c.op)
    BY <1>1 DEF Top, NewFrame, FileInv, StackInv
  <1>7. Top(p)'.at \in {"mkdir", "father", "fifo_exists"}
    BY <1>4, <1>6 DEF FirstStep
  <1> QED  BY <1>2, <1>3, <1>5, <1>7 DEF MadeOf

\* Every step leaves what calls have made that are spared.
LEMMA MadeStep == FileInv /\ NestInv /\ MadeInv /\ [Next]_vars => MadeInv'
  <1> SUFFICES ASSUME FileInv, NestInv, MadeInv, [Next]_vars, NEW p \in Procs,
                      outcome'[p] = "running", Spared(p)'
               PROVE  MadeOf(p)'
    BY DEF MadeInv
  <1>1. CASE UNCHANGED vars
    <2>1. outcome[p] = "running" /\ Spared(p)
      BY <1>1 DEF Spared, vars, treeVars, procVars, callVars
    <2> QED  BY <1>1, <2>1 DEF MadeInv, MadeOf, Top, vars, treeVars, procVars, callVars
  <1>2. ASSUME NEW q \in Procs, Begin(q)  PROVE MadeOf(p)'
    <2>1. CASE q = p
      BY <1>2, <2>1, BeginHasMade
    <2>2. CASE q # p
      <3>1. /\ call'[p] = call[p] /\ fit'[p] = fit[p] /\ outcome'[p] = outcome[p]
            /\ stack'[p] = stack[p] /\ kind' = kind /\ harm' = harm
        BY <1>2, <2>2 DEF Begin, treeVars, FileInv, StackInv, RemovedInv
      <3>2. MadeOf(p)
        BY <3>1 DEF Spared, MadeInv
      <3> QED  BY <3>1, <3>2 DEF MadeOf, Top
    <2> QED  BY <2>1, <2>2
  <1>3. ASSUME NEW q \in Procs, Step(q)  PROVE MadeOf(p)'
    <2>1. /\ UNCHANGED callVars /\ harm[p] \subseteq harm'[p]
          /\ outcome[p] = "running"
      <3>1. /\ UNCHANGED callVars
            /\ \A x \in Procs \ {q} : outcome'[x] = outcome[x]
            /\ \/ UNCHANGED treeVars
               \/ \E n \in Nodes, k \in Kinds, m \in SUBSET Rights, what \in SUBSET Harms :
                     Change(q, n, k, m, what)
        BY <1>3, StepsOfOthers
      <3>2. harm[p] \subseteq harm'[p]
        BY <3>1 DEF FileInv, TreeInv, treeVars, Change
      <3> QED  BY <1>3, <3>1, <3>2, StartedStep
    <2>2. Spared(p) /\ MadeOf(p)
      BY <2>1 DEF Spared, MadeInv, callVars
    <2>3. CASE q = p
      BY <1>3, <2>2, <2>3, OwnStepMakes DEF NestInv
    <2>4. CASE q # p
      BY <1>3, <2>1, <2>2, <2>4, OthersKeepMade
    <2> QED  BY <2>3, <2>4
  <1> QED  BY <1>1, <1>2, <1>3 DEF Next

\* A call returns in a step of its own.
LEMMA ReturnStep ==
  ASSUME FileInv, NestInv, PathInv, MadeInv, [Next]_vars,
         NEW p \in Procs, outcome[p] = "running", outcome'[p] = "returned",
         call[p].op # "remove", fit[p]
  PROVE  /\ harm[p] \cap {"removed", Taken(call[p].op)} = {} =>
               kind'[call[p].file] = Made[call[p].op]
         /\ harm[p] = {} => mode'[call[p].file] = call[p].perm
  <1>1. PICK q \in Procs : Begin(q) \/ Step(q)
    BY DEF Next, vars, procVars
  <1>2. ~ Begin(q)
    BY DEF Begin, FileInv, StackInv
  <1>3. q = p
    BY <1>1, <1>2, StepsOfOthers
  <1>4. call[p] # NoCall
    BY CallsAssumption DEF FileInv, StackInv
  <1>5. (Undisturbed(p) => PathOf(p)) /\ NestOf(p)
    BY DEF PathInv, NestInv
  <1>6. ASSUME harm[p] \cap {"removed", Taken(call[p].op)} = {}
        PROVE  /\ kind'[call[p].file] = Made[call[p].op]
               /\ harm[p] = {} => mode'[call[p].file] = call[p].perm
    <2>1. Spared(p) /\ MadeOf(p)
      BY <1>4, <1>6 DEF Spared, MadeInv
    <2> QED  BY <1>1, <1>2, <1>3, <1>5, <2>1, OwnStepMakes
  <1> QED  BY <1>6

\* What a call has made is there when it returns, for any tree and any number of
\* processes, unless others removed it or took its name; and it has the permissions
\* that were asked for if they left the tree alone (File::make_dir, File::make_path,
\* File::make_fifo, File::permissions).
THEOREM MadeAsAskedAlways == Spec => MadeAsAsked
  <1>1. Init => MadeInv
    BY DEF Init, MadeInv
  <1> DEFINE A == \A p \in Procs :
        LET c == call[p] IN
        (/\ outcome[p] = "running" /\ outcome'[p] = "returned"
         /\ c.op # "remove" /\ fit[p]) =>
        /\ harm[p] \cap {"removed", IF c.op = "make_fifo" THEN "made" ELSE "fifo"} = {}
           => kind'[c.file] = Made[c.op]
        /\ harm[p] = {} => mode'[c.file] = c.perm
  <1>2. FileInv /\ NestInv /\ PathInv /\ MadeInv /\ [Next]_vars => [A]_vars
    <2> SUFFICES ASSUME FileInv, NestInv, PathInv, MadeInv, [Next]_vars  PROVE A
      OBVIOUS
    <2> QED  BY ReturnStep DEF Taken
  <1>3. MadeAsAsked <=> [][A]_vars
    BY PTL DEF MadeAsAsked
  <1> HIDE DEF A
  <1> QED  BY <1>1, <1>2, <1>3, FileInvariance, NestInvariance, PathInit, PathStep, MadeStep, PTL
           DEF Spec
=============================================================================
