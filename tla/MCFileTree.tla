---------------------------- MODULE MCFileTree ----------------------------
(* A tree of six names, two of which may be links: /top, /top/sub,         *)
(* /top/sub/leaf, the link /top/back to /top, the link /top/away to        *)
(* /other, and /other.                                                     *)
EXTENDS FileTree, TLC

CONSTANTS root, top, sub, leaf, back, away, other

MCNodes  == {root, top, sub, leaf, back, away, other}
MCUp     == top :> root @@ sub :> top @@ leaf :> sub @@ back :> top @@ away :> top @@ other :> root
MCTarget == back :> top @@ away :> other

\* Trees in which what exists lies in a directory.
WellFormed(t) == \A n \in MCNodes \ {root} : t[n] # "none" => t[MCUp[n]] = "dir"

MCTrees ==
    {t \in [MCNodes -> Kinds] :
        /\ t[root] = "dir" /\ t[other] = "file"
        /\ t[top] \in {"none", "dir"}
        /\ t[sub] \in {"none", "dir", "fifo", "socket"}
        /\ t[leaf] \in {"none", "file"}
        /\ t[back] \in {"none", "file", "link"} /\ t[away] \in {"none", "link"}
        /\ t[back] = "link" => t[sub] = "none"
        /\ WellFormed(t)}

MCCalls ==
    [op : {"remove"}, file : {top, sub}, perm : {{}}]
    \cup [op : {"make_dir"}, file : {top, sub}, perm : {{}, Rights}]
    \cup [op : {"make_fifo"}, file : {sub}, perm : {{}, Rights}]
    \cup [op : {"make_path"}, file : {leaf}, perm : {{}, Rights}]
=============================================================================
