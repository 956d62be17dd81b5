----------------------------- MODULE FileTree -----------------------------
(***************************************************************************)
(* Processes that create and delete files and directories of one tree with *)
(* the calls of File (File.cpp): remove, make_dir, make_path, ensure_path  *)
(* and make_fifo.                                                          *)
(*                                                                         *)
(* Every call is a sequence of system calls, each of them one step here,   *)
(* and looks at the tree before it changes it: another process may change  *)
(* it in between.  remove and make_path call themselves, so that a process *)
(* has a stack of frames, the innermost first.  An exception unwinds it.   *)
(*                                                                         *)
(* A File is a path that realpath has made canonical, every time the File  *)
(* was copied: what stands for a symbolic link is the file it leads to.    *)
(* The tree's names are fixed, what they hold is not.  The caller is an    *)
(* ordinary user who owns every file.                                      *)
(***************************************************************************)
EXTENDS Naturals, Sequences, FiniteSets

CONSTANTS
    Procs,      \* the processes, each of which makes one call
    Nodes,      \* the paths of the tree
    Root,       \* the directory at its top, which no call names
    Up,         \* Up[n]: the directory n lies in
    Target,     \* Target[n]: where n leads whenever it is a symbolic link
    Trees,      \* what the paths may hold at first
    Calls,      \* the calls that may be made
    Umask,      \* the rights that mkdir and mkfifo withhold
    MaxDepth,   \* how many frames a stack has room for
    NoCall

Kinds  == {"none", "dir", "file", "fifo", "socket", "link"}
Rights == {"owner", "others"}   \* S_IRWXU, and the rights of everybody else
Places == {"is_directory", "directory", "next", "rmdir", "unlink", "father",
           "mkdir", "exists", "is_a_directory", "fifo_exists", "is_fifo",
           "compare", "mkfifo", "permissions", "chmod"}

ASSUME TreeAssumption == Root \in Nodes /\ Up \in [Nodes \ {Root} -> Nodes]
ASSUME LinkAssumption ==
    /\ DOMAIN Target \subseteq Nodes \ {Root}
    /\ Target \in [DOMAIN Target -> Nodes \ DOMAIN Target]
ASSUME TreesAssumption ==
    \A t \in Trees : /\ t \in [Nodes -> Kinds]
                     /\ t[Root] = "dir"
                     /\ \A n \in Nodes : t[n] = "link" => n \in DOMAIN Target
ASSUME CallsAssumption ==
    /\ Calls \subseteq [op   : {"remove", "make_dir", "make_path", "make_fifo"},
                        file : Nodes \ {Root},
                        perm : SUBSET Rights]
    /\ NoCall \notin Calls
ASSUME UmaskAssumption == Umask \subseteq {"others"}
ASSUME DepthAssumption == MaxDepth \in Nat \ {0}

VARIABLES
    kind,       \* kind[n]: what the path n holds
    mode,       \* mode[n]: its permissions
    stack,      \* stack[p]: the frames of the call of p
    call,       \* call[p]: the call p makes
    outcome,    \* outcome[p]: how it ended
    removed,    \* history: the paths the call of p deleted
    fit,        \* history: did the tree suit the call when it began?
    harm        \* history: what others have done to the tree since

treeVars == <<kind, mode, harm>>
procVars == <<stack, outcome>>
callVars == <<call, fit>>
vars == <<treeVars, procVars, callVars, removed>>

Frame == [at : Places, file : Nodes, perm : SUBSET Rights,
          childs : SUBSET Nodes,    \* what remove has still to look at
          ignore : BOOLEAN]         \* does make_dir ignore what permissions throws?
Harms == {"removed", "made", "fifo", "chmod", "shut"}

TypeOK ==
    /\ kind    \in [Nodes -> Kinds]
    /\ mode    \in [Nodes -> SUBSET Rights]
    /\ stack   \in [Procs -> Seq(Frame)]
    /\ call    \in [Procs -> Calls \cup {NoCall}]
    /\ outcome \in [Procs -> {"none", "running", "returned", "threw", "crashed"}]
    /\ \A p \in Procs : outcome[p] = "running" <=> stack[p] # <<>>
    /\ removed \in [Procs -> SUBSET Nodes]
    /\ fit     \in [Procs -> BOOLEAN]
    /\ harm    \in [Procs -> SUBSET Harms]

Init ==
    /\ kind \in Trees
    /\ mode    = [n \in Nodes |-> IF kind[n] = "none" THEN {} ELSE Rights]
    /\ stack   = [p \in Procs |-> <<>>]
    /\ call    = [p \in Procs |-> NoCall]
    /\ outcome = [p \in Procs |-> "none"]
    /\ removed = [p \in Procs |-> {}]
    /\ fit     = [p \in Procs |-> FALSE]
    /\ harm    = [p \in Procs |-> {}]

-----------------------------------------------------------------------------
(* The file system *)

\* The directories on the way to n: the least set with Up[n] and, with a
\* path, the directory that path lies in.
Above == [n \in Nodes |-> {m \in Nodes :
    \A S \in SUBSET Nodes :
        /\ n = Root \/ Up[n] \in S
        /\ \A x \in S \ {Root} : Up[x] \in S
        => m \in S}]

\* A path is longer than those of the directories it lies in, and the stack has
\* room for a frame for it and one for each of them.
ASSUME PathAssumption == \A n \in Nodes : n \notin Above[n]
ASSUME RoomAssumption ==
    \A n \in Nodes : IsFiniteSet(Above[n]) /\ Cardinality(Above[n]) < MaxDepth

Below(n) == {m \in Nodes : m = n \/ n \in Above[m]}

Children(n) == {c \in Nodes \ {Root} : Up[c] = n /\ kind[c] # "none"}

\* Every directory on the way to n may be searched and written.
Access(n) == \A a \in Above[n] : kind[a] = "dir" /\ "owner" \in mode[a]

Follow(n) == IF kind[n] = "link" THEN Target[n] ELSE n

\* stat succeeds: what exists answers.
Stat(n) ==
    /\ Access(n)
    /\ Access(Follow(n))
    /\ kind[Follow(n)] # "none"

\* The name a File made or copied from n has: realpath, or n where it fails.
set_name(n) == IF Stat(n) THEN Follow(n) ELSE n

\* is_directory tests the bit S_IFDIR, which the types of a socket and of a block
\* device have too: "socket" stands for both.
IsDirectory(n) == kind[Follow(n)] \in {"dir", "socket"}

\* The tree changes: n holds k with mode m, which the others may notice.
Change(p, n, k, m, what) ==
    /\ kind' = [kind EXCEPT ![n] = k]
    /\ mode' = [mode EXCEPT ![n] = m]
    /\ harm' = [q \in Procs |-> IF q # p /\ outcome[q] = "running"
                                THEN harm[q] \cup what \cup
                                     (IF k = "dir" /\ "owner" \notin m THEN {"shut"} ELSE {})
                                ELSE harm[q]]

-----------------------------------------------------------------------------
(* Frames *)

\* A frame of a call at its first step.
NewFrame(at, n, perm) ==
    [at |-> at, file |-> n, perm |-> perm, childs |-> {}, ignore |-> FALSE]

Top(p)   == Head(stack[p])
At(p, q) == stack[p] # <<>> /\ Top(p).at = q

\* The innermost frame becomes f, or calls with a frame g of its own.
Continue(p, f) ==
    /\ stack' = [stack EXCEPT ![p] = <<f>> \o Tail(@)]
    /\ UNCHANGED outcome
Goto(p, q) == Continue(p, [Top(p) EXCEPT !.at = q])

\* A stack that has no room left ends the process.
Recurse(p, f, g) ==
    IF Len(stack[p]) < MaxDepth
    THEN /\ stack' = [stack EXCEPT ![p] = <<g, f>> \o Tail(@)]
         /\ UNCHANGED outcome
    ELSE /\ stack'   = [stack EXCEPT ![p] = <<>>]
         /\ outcome' = [outcome EXCEPT ![p] = "crashed"]

Return(p) ==
    /\ stack'   = [stack EXCEPT ![p] = Tail(@)]
    /\ outcome' = [outcome EXCEPT ![p] = IF Tail(stack[p]) = <<>> THEN "returned" ELSE @]

\* Mutant of Throw: the caller goes on after an exception.
ThrowOneFrame(p) ==
    /\ stack'   = [stack EXCEPT ![p] = Tail(@)]
    /\ outcome' = [outcome EXCEPT ![p] = "threw"]

Throw(p) ==
    /\ stack'   = [stack EXCEPT ![p] = <<>>]
    /\ outcome' = [outcome EXCEPT ![p] = "threw"]

Looks == UNCHANGED <<treeVars, callVars, removed>>  \* a step that only looks

-----------------------------------------------------------------------------
(* remove *)

IsDirectoryOf(p) ==
    /\ At(p, "is_directory")
    /\ IF ~ Stat(Top(p).file) THEN Throw(p)
       ELSE IF IsDirectory(Top(p).file) THEN Goto(p, "directory")
       ELSE Goto(p, "unlink")
    /\ Looks

\* Mutants of Listing: "." or ".." is not left out.
ListingWithItself(n) == {set_name(c) : c \in Children(Follow(n)) \cup {n}}
ListingWithParent(n) == {set_name(c) : c \in Children(Follow(n)) \cup
                                             (IF n = Root THEN {} ELSE {Up[n]})}

\* The Files of what a directory holds, "." and ".." left out.
Listing(n) == {set_name(c) : c \in Children(Follow(n))}

Directory(p) ==
    LET f == Top(p) IN
    /\ At(p, "directory")
    /\ IF Stat(f.file) /\ kind[Follow(f.file)] = "dir" /\ "owner" \in mode[Follow(f.file)]
       THEN Continue(p, [f EXCEPT !.at = "next", !.childs = Listing(f.file)])
       ELSE Throw(p)
    /\ Looks

\* Mutant of NextChild: exists is not asked.
NextChildUnchecked(p) ==
    LET f == Top(p) IN
    /\ At(p, "next")
    /\ IF f.childs = {} THEN Goto(p, "rmdir")
       ELSE \E c \in f.childs :
            Recurse(p, [f EXCEPT !.childs = @ \ {c}], NewFrame("is_directory", set_name(c), {}))
    /\ Looks

\* Mutant of NextChild: the same child again.
NextChildStays(p) ==
    LET f == Top(p) IN
    /\ At(p, "next")
    /\ IF f.childs = {} THEN Goto(p, "rmdir")
       ELSE \E c \in f.childs :
            IF Stat(set_name(c))
            THEN Recurse(p, f, NewFrame("is_directory", set_name(c), {}))
            ELSE Continue(p, f)
    /\ Looks

\* The next child is copied, which resolves its name anew, and deleted if
\* there is such a file.
NextChild(p) ==
    LET f == Top(p) IN
    /\ At(p, "next")
    /\ IF f.childs = {} THEN Goto(p, "rmdir")
       ELSE \E c \in f.childs :
            LET rest == [f EXCEPT !.childs = @ \ {c}] IN
            IF Stat(set_name(c))
            THEN Recurse(p, rest, NewFrame("is_directory", set_name(c), {}))
            ELSE Continue(p, rest)
    /\ Looks

Delete(p) ==
    LET n == Top(p).file IN
    /\ Change(p, n, "none", {}, {"removed"})
    /\ removed' = [removed EXCEPT ![p] = @ \cup {n}]
    /\ Return(p)
    /\ UNCHANGED callVars

Rmdir(p) ==
    LET n == Top(p).file IN
    /\ At(p, "rmdir")
    /\ IF n # Root /\ Access(n) /\ kind[n] = "dir" /\ Children(n) = {}
       THEN Delete(p)
       ELSE Throw(p) /\ Looks

Unlink(p) ==
    LET n == Top(p).file IN
    /\ At(p, "unlink")
    /\ IF Access(n) /\ kind[n] \notin {"none", "dir"}
       THEN Delete(p)
       ELSE Throw(p) /\ Looks

-----------------------------------------------------------------------------
(* make_dir, make_path and make_fifo *)

Create(p, k, what) ==
    LET f == Top(p) IN
    /\ Change(p, f.file, k, f.perm \ Umask, what)
    /\ Goto(p, "permissions")
    /\ UNCHANGED <<callVars, removed>>

\* A name can be created where there is none, not even a link without target.
MayCreate(n) == Access(n) /\ kind[n] = "none"

\* Mutant of FatherRights: the rights of the last directory for all of them.
SameRights(perm) == perm
\* perm | S_IRWXU
FatherRights(perm) == perm \cup {"owner"}

Father(p) ==
    LET f == Top(p) IN
    /\ At(p, "father")
    /\ IF Stat(Up[f.file]) THEN Goto(p, "mkdir")
       ELSE Recurse(p, [f EXCEPT !.at = "mkdir"],
                    NewFrame("father", Up[f.file], FatherRights(f.perm)))
    /\ Looks

\* Mutant of Mkdir: an error of mkdir is thrown at once.
MkdirOrThrow(p) ==
    /\ At(p, "mkdir")
    /\ IF MayCreate(Top(p).file) THEN Create(p, "dir", {"made"})
       ELSE Throw(p) /\ Looks

Mkdir(p) ==
    /\ At(p, "mkdir")
    /\ IF MayCreate(Top(p).file) THEN Create(p, "dir", {"made"})
       ELSE Goto(p, "exists") /\ Looks

Exists(p) ==
    /\ At(p, "exists")
    /\ IF Stat(Top(p).file) THEN Goto(p, "is_a_directory") ELSE Throw(p)
    /\ Looks

\* What exists but is no directory is left as it is, and make_dir returns.
IsADirectory(p) ==
    LET f == Top(p) IN
    /\ At(p, "is_a_directory")
    /\ IF ~ Stat(f.file) THEN Throw(p)
       ELSE IF IsDirectory(f.file)
            THEN Continue(p, [f EXCEPT !.at = "permissions", !.ignore = TRUE])
       ELSE Return(p)
    /\ Looks

FifoExists(p) ==
    /\ At(p, "fifo_exists")
    /\ Goto(p, IF Stat(Top(p).file) THEN "is_fifo" ELSE "mkfifo")
    /\ Looks

IsFifo(p) ==
    LET n == Top(p).file IN
    /\ At(p, "is_fifo")
    /\ IF ~ Stat(n) THEN Throw(p)
       ELSE Goto(p, IF kind[Follow(n)] = "fifo" THEN "compare" ELSE "mkfifo")
    /\ Looks

\* make_fifo compares the permissions before permissions does.
Compare(p) ==
    LET f == Top(p) IN
    /\ At(p, "compare")
    /\ IF ~ Stat(f.file) THEN Throw(p)
       ELSE IF mode[Follow(f.file)] = f.perm THEN Return(p)
       ELSE Goto(p, "permissions")
    /\ Looks

Mkfifo(p) ==
    /\ At(p, "mkfifo")
    /\ IF MayCreate(Top(p).file) THEN Create(p, "fifo", {"fifo"})
       ELSE Throw(p) /\ Looks

\* Only make_dir of a directory that was there ignores a failure.
PermissionsFail(p) == (IF Top(p).ignore THEN Return(p) ELSE Throw(p)) /\ Looks

\* Mutant of Permissions: nothing to do.
PermissionsOnly(p) == At(p, "permissions") /\ Return(p) /\ Looks

Permissions(p) ==
    LET f == Top(p) IN
    /\ At(p, "permissions")
    /\ IF ~ Stat(f.file) THEN PermissionsFail(p)
       ELSE /\ IF mode[Follow(f.file)] = f.perm THEN Return(p) ELSE Goto(p, "chmod")
            /\ Looks

Chmod(p) ==
    LET f == Top(p)
        n == Follow(f.file) IN
    /\ At(p, "chmod")
    /\ IF ~ Stat(f.file) THEN PermissionsFail(p)
       ELSE /\ Change(p, n, kind[n], f.perm, {"chmod"})
            /\ Return(p)
            /\ UNCHANGED <<callVars, removed>>

-----------------------------------------------------------------------------
(* Calls *)

\* The tree is such that the call should do its work if nobody interferes.
Fit(c) ==
    \/ /\ c.op = "remove"
       /\ Stat(c.file)
       /\ \A n \in Below(c.file) : /\ kind[n] \notin {"link", "socket"}
                                   /\ kind[n] = "dir" => "owner" \in mode[n]
    \/ /\ c.op = "make_dir"
       /\ Access(c.file)
       /\ kind[c.file] \in {"none", "dir"}
    \/ /\ c.op = "make_path"
       /\ \A a \in Above[c.file] : \/ kind[a] = "none"
                                   \/ kind[a] = "dir" /\ "owner" \in mode[a]
       /\ kind[c.file] \in {"none", "dir"}
    \/ /\ c.op = "make_fifo"
       /\ Access(c.file)
       /\ kind[c.file] \in {"none", "fifo"}

FirstStep(op) ==
    CASE op = "remove"    -> "is_directory"
      [] op = "make_dir"  -> "mkdir"
      [] op = "make_path" -> "father"
      [] op = "make_fifo" -> "fifo_exists"

\* A File is made of a name and called.  ensure_path is a make_path of the
\* directory the name lies in.
Begin(p) ==
    /\ outcome[p] = "none"
    /\ \E c \in Calls :
        LET d == [c EXCEPT !.file = set_name(@)] IN
        /\ d.file # Root
        /\ call'  = [call EXCEPT ![p] = c]
        /\ fit'   = [fit EXCEPT ![p] = Fit(c)]
        /\ stack' = [stack EXCEPT ![p] = <<NewFrame(FirstStep(c.op), d.file, c.perm)>>]
    /\ outcome' = [outcome EXCEPT ![p] = "running"]
    /\ UNCHANGED <<treeVars, removed>>

RemoveStep(p) == IsDirectoryOf(p) \/ Directory(p) \/ NextChild(p) \/ Rmdir(p) \/ Unlink(p)
MakeStep(p) ==
    \/ Father(p) \/ Mkdir(p) \/ Exists(p) \/ IsADirectory(p)
    \/ FifoExists(p) \/ IsFifo(p) \/ Compare(p) \/ Mkfifo(p)
    \/ Permissions(p) \/ Chmod(p)
Step(p) == RemoveStep(p) \/ MakeStep(p)

Next == \E p \in Procs : Begin(p) \/ Step(p)

\* A process in a call goes on with it.
Spec == Init /\ [][Next]_vars /\ \A p \in Procs : WF_vars(Step(p))

-----------------------------------------------------------------------------
(* Properties *)

\* What lies below r, what the links there lead to, and so on: the least set
\* that holds r and is closed under both.
Reach == [r \in Nodes |-> {n \in Nodes :
    \A S \in SUBSET Nodes :
        /\ r \in S
        /\ \A m \in Nodes \ {Root} : Up[m] \in S => m \in S
        /\ \A m \in S \cap DOMAIN Target : Target[m] \in S
        => n \in S}]

\* A remove deletes nothing but what lies in its tree and what the links in
\* it lead to, whatever other processes do to the tree meanwhile
\* (File::remove, File::directory, which must leave out "." and "..").
RemovesWhatItReaches ==
    \A p \in Procs : removed[p] # {} => removed[p] \subseteq Reach[call[p].file]

\* A remove deletes nothing but what lies in its tree: "If the file is a
\* directory, all its child are deleted recursively" (File::remove).
RemovesOnlyBelow ==
    \A p \in Procs : removed[p] # {} => removed[p] \subseteq Below(call[p].file)

\* A remove of a tree without links ends before the stack does, although
\* others create and delete files in it meanwhile; and so does a make_path
\* (File::remove, File::make_path).
RecursionEnds == \A p \in Procs : fit[p] => outcome[p] # "crashed"

\* Processes that remove the same tree, or parts of it, may make each other
\* throw, since what one finds another deletes; but never all of them, so
\* that the tree goes.  The same for processes that create one FIFO
\* (File::remove between exists and unlink, File::make_fifo).
SomebodySucceeds ==
    LET Started == {p \in Procs : outcome[p] # "none"} IN
    \A op \in {"remove", "make_fifo"} :
        Started # {} /\ (\A p \in Started : call[p].op = op /\ fit[p])
        => \E p \in Started : outcome[p] \in {"running", "returned"}

\* Processes that make paths and directories in the same places, and leave
\* them open to their owner, never make each other throw: what mkdir
\* refuses because another was faster is accepted, and fathers are made with
\* the rights their sons need (File::make_dir, File::make_path).
PathsNeverCollide ==
    \A p \in Procs :
        /\ call[p] # NoCall /\ call[p].op \in {"make_dir", "make_path"}
        /\ fit[p] /\ harm[p] \subseteq {"made", "chmod"}
        => outcome[p] # "threw"

Made == [make_dir |-> "dir", make_path |-> "dir", make_fifo |-> "fifo"]

\* What has been made is there when the call returns, unless others removed
\* it or had taken its name, and has the permissions that were asked for,
\* the umask notwithstanding, unless others touched the tree
\* (File::permissions, File::make_dir, File::make_fifo).
MadeAsAsked ==
    [][\A p \in Procs :
        LET c == call[p] IN
        (/\ outcome[p] = "running" /\ outcome'[p] = "returned"
         /\ c.op # "remove" /\ fit[p]) =>
        /\ harm[p] \cap {"removed", IF c.op = "make_fifo" THEN "made" ELSE "fifo"} = {}
           => kind'[c.file] = Made[c.op]
        /\ harm[p] = {} => mode'[c.file] = c.perm
      ]_vars

\* Every call ends, however others change the tree under it (File::remove
\* works on a list it made once; File::make_path goes up to the root).
CallsEnd == \A p \in Procs : outcome[p] = "running" ~> outcome[p] # "running"
=============================================================================
