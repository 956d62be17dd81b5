------------------------------ MODULE MapFile ------------------------------
(***************************************************************************)
(* The memory mapped files of one process (MapFile.cpp) and the file       *)
(* descriptors they are mapped through (Descriptor.cpp).                   *)
(*                                                                         *)
(* map opens a descriptor and maps the file; unmap unmaps it and closes    *)
(* the descriptor; the destructor closes a descriptor that is still there. *)
(* Each system call may fail, and map and unmap then throw half way.       *)
(* Descriptors and addresses are the kernel's: the same number is given    *)
(* out again once it is free, to whichever object asks.                    *)
(*                                                                         *)
(* An object serves one thread at a time.  Its owner maps it when          *)
(* is_mapped says that it is not mapped.  It unmaps it when is_mapped says *)
(* that it is, or after a map that threw, to give back what map had taken  *)
(* so far.                                                                 *)
(***************************************************************************)
EXTENDS Integers

CONSTANTS
    Files,      \* the MapFile objects
    Fds,        \* descriptor numbers
    Addresses,  \* where the kernel may map a file
    Null,       \* the null pointer, or nobody
    MAP_FAILED  \* the result of mmap when it fails

ASSUME FilesAssumption   == Null \notin Files
ASSUME FdsAssumption     == Null \notin Fds
ASSUME AddressAssumption == /\ {Null, MAP_FAILED} \cap Addresses = {}
                            /\ MAP_FAILED # Null

VARIABLES
    \* the objects
    m_map_descriptor,   \* the Descriptor of each, as its number, or Null
    m_map_address,      \* where it is mapped
    m_is_mapped,        \* what is_mapped answers
    pc,                 \* where it is in a call; "idle", or "gone" for good
    remapped,           \* history: objects mapped again after a failed mmap
    \* the kernel
    fdOf,       \* fdOf[d]: the object that opened d, or Null if d is free
    memoryOf,   \* memoryOf[a]: the object that mapped a, or Null
    \* the process
    closeFailed,    \* history: has a close failed?
    aborted         \* has an exception left a destructor?

objectVars  == <<m_map_descriptor, m_map_address, m_is_mapped>>
kernelVars  == <<fdOf, memoryOf>>
processVars == <<closeFailed, aborted>>
vars == <<objectVars, pc, remapped, kernelVars, processVars>>

TypeOK ==
    /\ m_map_descriptor \in [Files -> Fds \cup {Null}]
    /\ m_map_address    \in [Files -> Addresses \cup {Null, MAP_FAILED}]
    /\ m_is_mapped      \in [Files -> BOOLEAN]
    /\ pc               \in [Files -> {"idle", "map_mem", "close_fd", "gone"}]
    /\ remapped         \in SUBSET Files
    /\ fdOf             \in [Fds -> Files \cup {Null}]
    /\ memoryOf         \in [Addresses -> Files \cup {Null}]
    /\ closeFailed      \in BOOLEAN
    /\ aborted          \in BOOLEAN

Init ==
    /\ m_map_descriptor = [f \in Files |-> Null]
    /\ m_map_address    = [f \in Files |-> Null]
    /\ m_is_mapped      = [f \in Files |-> FALSE]
    /\ pc               = [f \in Files |-> "idle"]
    /\ remapped         = {}
    /\ fdOf             = [d \in Fds |-> Null]
    /\ memoryOf         = [a \in Addresses |-> Null]
    /\ closeFailed      = FALSE
    /\ aborted          = FALSE

\* The call of f is at q; nothing happens in a process that is terminated.
At(f, q)   == ~aborted /\ pc[f] = q
Goto(f, q) == pc' = [pc EXCEPT ![f] = q]

-----------------------------------------------------------------------------
(* map *)

\* Mutant of OpenFd: that open failed goes unnoticed.
OpenUnchecked(f) ==
    /\ At(f, "idle") /\ ~m_is_mapped[f]
    /\ \E d \in Fds \cup {-1} :
          /\ d \in Fds => fdOf[d] = Null
          /\ fdOf' = [e \in Fds |-> IF e = d THEN f ELSE fdOf[e]]
          /\ m_map_descriptor' = [m_map_descriptor EXCEPT ![f] = d]
    /\ remapped' = IF m_map_descriptor[f] # Null THEN remapped \cup {f}
                   ELSE remapped
    /\ Goto(f, "map_mem")
    /\ UNCHANGED <<m_map_address, m_is_mapped, memoryOf, processVars>>

\* open_fd; when open fails nothing has changed and map throws.
OpenFd(f) ==
    /\ At(f, "idle") /\ ~m_is_mapped[f]
    /\ \E d \in Fds :
          /\ fdOf[d] = Null
          /\ fdOf' = [fdOf EXCEPT ![d] = f]
          /\ m_map_descriptor' = [m_map_descriptor EXCEPT ![f] = d]
    /\ remapped' = IF m_map_descriptor[f] # Null THEN remapped \cup {f}
                   ELSE remapped
    /\ Goto(f, "map_mem")
    /\ UNCHANGED <<m_map_address, m_is_mapped, memoryOf, processVars>>

\* Mutant of MapMem: m_is_mapped is not set.
MapMemForgets(f) ==
    /\ At(f, "map_mem")
    /\ \E a \in Addresses :
          /\ memoryOf[a] = Null
          /\ memoryOf' = [memoryOf EXCEPT ![a] = f]
          /\ m_map_address' = [m_map_address EXCEPT ![f] = a]
    /\ Goto(f, "idle")
    /\ UNCHANGED <<m_map_descriptor, m_is_mapped, remapped, fdOf, processVars>>

\* map_mem
MapMem(f) ==
    /\ At(f, "map_mem")
    /\ \E a \in Addresses :
          /\ memoryOf[a] = Null
          /\ memoryOf' = [memoryOf EXCEPT ![a] = f]
          /\ m_map_address' = [m_map_address EXCEPT ![f] = a]
    /\ m_is_mapped' = [m_is_mapped EXCEPT ![f] = TRUE]
    /\ Goto(f, "idle")
    /\ UNCHANGED <<m_map_descriptor, remapped, fdOf, processVars>>

\* mmap fails: map throws, and leaves the descriptor open.
MapMemFails(f) ==
    /\ At(f, "map_mem")
    /\ m_map_address' = [m_map_address EXCEPT ![f] = MAP_FAILED]
    /\ m_is_mapped' = [m_is_mapped EXCEPT ![f] = FALSE]
    /\ Goto(f, "idle")
    /\ UNCHANGED <<m_map_descriptor, remapped, kernelVars, processVars>>

-----------------------------------------------------------------------------
(* unmap and the destructor *)

MayUnmap(f) == At(f, "idle") /\ (m_is_mapped[f] \/ m_map_address[f] = MAP_FAILED)

\* Mutant of UnmapMem: m_is_mapped is not reset.
UnmapMemForgets(f) ==
    /\ MayUnmap(f)
    /\ m_map_address[f] \in Addresses
    /\ memoryOf' = [memoryOf EXCEPT ![m_map_address[f]] = Null]
    /\ Goto(f, "close_fd")
    /\ UNCHANGED <<objectVars, remapped, fdOf, processVars>>

\* unmap_mem: munmap frees the address whoever has it now; m_map_address stays.
UnmapMem(f) ==
    /\ MayUnmap(f)
    /\ m_map_address[f] \in Addresses
    /\ memoryOf' = [memoryOf EXCEPT ![m_map_address[f]] = Null]
    /\ m_is_mapped' = [m_is_mapped EXCEPT ![f] = FALSE]
    /\ Goto(f, "close_fd")
    /\ UNCHANGED <<m_map_descriptor, m_map_address, remapped, fdOf, processVars>>

\* munmap fails, as it does for MAP_FAILED: unmap takes the file for mapped.
UnmapMemFails(f) ==
    /\ MayUnmap(f)
    /\ m_map_address[f] = MAP_FAILED
    /\ m_is_mapped' = [m_is_mapped EXCEPT ![f] = TRUE]
    /\ UNCHANGED <<m_map_descriptor, m_map_address, pc, remapped, kernelVars,
                   processVars>>

\* ::close(m_fd) frees the number, whoever has it now, also when it reports an
\* error; it must report one if the number is free already.
Release(d) == fdOf' = [fdOf EXCEPT ![d] = Null]
Close(d)   == fdOf[d] # Null /\ Release(d)

\* Mutant of CloseFd: the pointer to the deleted Descriptor stays.
CloseFdDangling(f) ==
    /\ At(f, "close_fd")
    /\ Close(m_map_descriptor[f])
    /\ Goto(f, "idle")
    /\ UNCHANGED <<objectVars, remapped, memoryOf, processVars>>

\* close_fd, in unmap.
CloseFd(f) ==
    /\ At(f, "close_fd")
    /\ Close(m_map_descriptor[f])
    /\ m_map_descriptor' = [m_map_descriptor EXCEPT ![f] = Null]
    /\ Goto(f, "idle")
    /\ UNCHANGED <<m_map_address, m_is_mapped, remapped, memoryOf, processVars>>

\* It throws before it resets anything.
CloseFdFails(f) ==
    /\ At(f, "close_fd")
    /\ Release(m_map_descriptor[f])
    /\ closeFailed' = TRUE
    /\ Goto(f, "idle")
    /\ UNCHANGED <<objectVars, remapped, memoryOf, aborted>>

\* Mutant of Destroy: the descriptor is not closed.
DestroyNothing(f) ==
    /\ At(f, "idle")
    /\ Goto(f, "gone")
    /\ UNCHANGED <<objectVars, remapped, kernelVars, processVars>>

\* ~MapFile closes the descriptor of a file that has one, mapped or not.
Destroy(f) ==
    /\ At(f, "idle")
    /\ IF m_map_descriptor[f] = Null THEN UNCHANGED fdOf
       ELSE Close(m_map_descriptor[f])
    /\ Goto(f, "gone")
    /\ UNCHANGED <<objectVars, remapped, memoryOf, processVars>>

\* The exception of close_fd leaves the destructor: the process is terminated.
DestroyThrows(f) ==
    /\ At(f, "idle") /\ m_map_descriptor[f] # Null
    /\ Release(m_map_descriptor[f])
    /\ aborted' = TRUE
    /\ Goto(f, "gone")
    /\ UNCHANGED <<objectVars, remapped, memoryOf, closeFailed>>

-----------------------------------------------------------------------------
Map(f)   == OpenFd(f) \/ MapMem(f) \/ MapMemFails(f)
Unmap(f) == \/ UnmapMem(f) \/ UnmapMemFails(f)
            \/ CloseFd(f) \/ CloseFdFails(f)

Next == \E f \in Files : Map(f) \/ Unmap(f) \/ Destroy(f) \/ DestroyThrows(f)

Spec == Init /\ [][Next]_vars

-----------------------------------------------------------------------------
(* Properties. *)

\* "Returns if the file is mapped or not in memory", says the comment of
\* is_mapped.  Between calls it is true exactly of the objects that have memory,
\* and they have it to themselves, whatever failed before; except that it is true
\* too after a munmap of MAP_FAILED has failed.
MappedMeansMapped ==
    \A f \in Files : pc[f] = "idle" /\ m_map_address[f] # MAP_FAILED =>
        \A a \in Addresses :
            memoryOf[a] = f <=> m_is_mapped[f] /\ m_map_address[f] = a

\* As long as no close has failed, no object holds the number of a descriptor
\* that another one has opened since: nothing closes what is not its own.
DescriptorsOwn ==
    ~closeFailed /\ ~aborted =>
        \A f \in Files : pc[f] # "gone" /\ m_map_descriptor[f] # Null =>
            fdOf[m_map_descriptor[f]] = f

\* A destroyed object leaves a descriptor open only if it was mapped again after
\* a map that had thrown.
DescriptorsClosed ==
    \A f \in Files : pc[f] = "gone" /\ f \notin remapped =>
        \A d \in Fds : fdOf[d] # f
=============================================================================
