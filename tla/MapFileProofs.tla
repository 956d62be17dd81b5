--------------------------- MODULE MapFileProofs ---------------------------
(***************************************************************************)
(* Proofs about MapFile: what is_mapped, the addresses and the descriptors *)
(* of any number of objects say about each other, in every interleaving of *)
(* their calls and with every system call that fails.                      *)
(*                                                                         *)
(* The invariant adds to the properties what an object has in the middle   *)
(* of a call: a descriptor, and no memory.                                 *)
(***************************************************************************)
EXTENDS MapFile, TLAPS

\* In the middle of map and unmap nothing is mapped, and there is a descriptor
\* to map through or to close; so there is when unmap may be called.
CallInv ==
    \A f \in Files :
        /\ pc[f] \in {"map_mem", "close_fd"} => ~m_is_mapped[f]
        /\ pc[f] = "close_fd" => m_map_address[f] \in Addresses
        /\ \/ pc[f] \in {"map_mem", "close_fd"}
           \/ pc[f] = "idle" /\ m_is_mapped[f]
           \/ pc[f] = "idle" /\ m_map_address[f] = MAP_FAILED
           => m_map_descriptor[f] # Null

\* Memory belongs to an object that says so, unless it is gone; and an object
\* that says so has it.
MemoryInv ==
    /\ \A a \in Addresses : memoryOf[a] # Null /\ pc[memoryOf[a]] # "gone" =>
          m_is_mapped[memoryOf[a]] /\ m_map_address[memoryOf[a]] = a
    /\ \A f \in Files : m_is_mapped[f] /\ m_map_address[f] # MAP_FAILED =>
          m_map_address[f] \in Addresses /\ memoryOf[m_map_address[f]] = f

\* An object that was not mapped again after a failure has opened at most the
\* descriptor it holds.
DescriptorInv ==
    \A f \in Files \ remapped : \A d \in Fds : fdOf[d] = f =>
        m_map_descriptor[f] = d /\ pc[f] # "gone"

MapInv == TypeOK /\ CallInv /\ MemoryInv /\ DescriptorsOwn /\ DescriptorInv

-----------------------------------------------------------------------------
\* A process without mapped files satisfies the invariant.
LEMMA InitMap == Init => MapInv
  BY FilesAssumption, FdsAssumption, AddressAssumption
     DEF Init, MapInv, TypeOK, CallInv, MemoryInv, DescriptorsOwn, DescriptorInv

\* Every step keeps the types.
LEMMA TypeStep == MapInv /\ [Next]_vars => TypeOK'
<1> SUFFICES ASSUME MapInv PROVE [Next]_vars => TypeOK'
  OBVIOUS
<1> USE FilesAssumption, FdsAssumption, AddressAssumption
        DEF MapInv, TypeOK, CallInv
<1> USE DEF objectVars, kernelVars, processVars, At
<1>1. ASSUME NEW f \in Files, OpenFd(f)
      PROVE  TypeOK'
  BY <1>1 DEF OpenFd, Goto
<1>2. ASSUME NEW f \in Files, MapMem(f)
      PROVE  TypeOK'
  BY <1>2 DEF MapMem, Goto
<1>3. ASSUME NEW f \in Files, MapMemFails(f)
      PROVE  TypeOK'
  BY <1>3 DEF MapMemFails, Goto
<1>4. ASSUME NEW f \in Files, UnmapMem(f)
      PROVE  TypeOK'
  BY <1>4 DEF UnmapMem, MayUnmap, Goto
<1>5. ASSUME NEW f \in Files, UnmapMemFails(f)
      PROVE  TypeOK'
  BY <1>5 DEF UnmapMemFails, MayUnmap
<1>6. ASSUME NEW f \in Files, CloseFd(f)
      PROVE  TypeOK'
  BY <1>6 DEF CloseFd, Close, Release, Goto
<1>7. ASSUME NEW f \in Files, CloseFdFails(f)
      PROVE  TypeOK'
  BY <1>7 DEF CloseFdFails, Release, Goto
<1>8. ASSUME NEW f \in Files, Destroy(f)
      PROVE  TypeOK'
  BY <1>8 DEF Destroy, Close, Release, Goto
<1>9. ASSUME NEW f \in Files, DestroyThrows(f)
      PROVE  TypeOK'
  BY <1>9 DEF DestroyThrows, Release, Goto
<1>10. ASSUME UNCHANGED vars PROVE TypeOK'
  BY <1>10 DEF vars
<1> QED
  BY <1>1, <1>2, <1>3, <1>4, <1>5, <1>6, <1>7, <1>8, <1>9, <1>10
     DEF Next, Map, Unmap

\* Every step keeps what an object has in the middle of a call.
LEMMA CallStep == MapInv /\ [Next]_vars => CallInv'
<1> SUFFICES ASSUME MapInv PROVE [Next]_vars => CallInv'
  OBVIOUS
<1> USE FilesAssumption, FdsAssumption, AddressAssumption
        DEF MapInv, TypeOK, CallInv
<1> USE DEF objectVars, kernelVars, processVars, At
<1>1. ASSUME NEW f \in Files, OpenFd(f)
      PROVE  CallInv'
  BY <1>1 DEF OpenFd, Goto
<1>2. ASSUME NEW f \in Files, MapMem(f)
      PROVE  CallInv'
  BY <1>2 DEF MapMem, Goto
<1>3. ASSUME NEW f \in Files, MapMemFails(f)
      PROVE  CallInv'
  BY <1>3 DEF MapMemFails, Goto
<1>4. ASSUME NEW f \in Files, UnmapMem(f)
      PROVE  CallInv'
  BY <1>4 DEF UnmapMem, MayUnmap, Goto
<1>5. ASSUME NEW f \in Files, UnmapMemFails(f)
      PROVE  CallInv'
  BY <1>5 DEF UnmapMemFails, MayUnmap
<1>6. ASSUME NEW f \in Files, CloseFd(f)
      PROVE  CallInv'
  BY <1>6 DEF CloseFd, Close, Release, Goto
<1>7. ASSUME NEW f \in Files, CloseFdFails(f)
      PROVE  CallInv'
  BY <1>7 DEF CloseFdFails, Release, Goto
<1>8. ASSUME NEW f \in Files, Destroy(f)
      PROVE  CallInv'
  BY <1>8 DEF Destroy, Close, Release, Goto
<1>9. ASSUME NEW f \in Files, DestroyThrows(f)
      PROVE  CallInv'
  BY <1>9 DEF DestroyThrows, Release, Goto
<1>10. ASSUME UNCHANGED vars PROVE CallInv'
  BY <1>10 DEF vars
<1> QED
  BY <1>1, <1>2, <1>3, <1>4, <1>5, <1>6, <1>7, <1>8, <1>9, <1>10
     DEF Next, Map, Unmap

\* Every step keeps the memory with the object that says it has it.
LEMMA MemoryStep == MapInv /\ [Next]_vars => MemoryInv'
<1> SUFFICES ASSUME MapInv PROVE [Next]_vars => MemoryInv'
  OBVIOUS
<1> USE FilesAssumption, FdsAssumption, AddressAssumption
        DEF MapInv, TypeOK, CallInv, MemoryInv
<1> USE DEF objectVars, kernelVars, processVars, At
<1>1. ASSUME NEW f \in Files, OpenFd(f)
      PROVE  MemoryInv'
  BY <1>1 DEF OpenFd, Goto
<1>2. ASSUME NEW f \in Files, MapMem(f)
      PROVE  MemoryInv'
  BY <1>2 DEF MapMem, Goto
<1>3. ASSUME NEW f \in Files, MapMemFails(f)
      PROVE  MemoryInv'
  BY <1>3 DEF MapMemFails, Goto
<1>4. ASSUME NEW f \in Files, UnmapMem(f)
      PROVE  MemoryInv'
  BY <1>4 DEF UnmapMem, MayUnmap, Goto
<1>5. ASSUME NEW f \in Files, UnmapMemFails(f)
      PROVE  MemoryInv'
  BY <1>5 DEF UnmapMemFails, MayUnmap
<1>6. ASSUME NEW f \in Files, CloseFd(f)
      PROVE  MemoryInv'
  BY <1>6 DEF CloseFd, Close, Release, Goto
<1>7. ASSUME NEW f \in Files, CloseFdFails(f)
      PROVE  MemoryInv'
  BY <1>7 DEF CloseFdFails, Release, Goto
<1>8. ASSUME NEW f \in Files, Destroy(f)
      PROVE  MemoryInv'
  BY <1>8 DEF Destroy, Close, Release, Goto
<1>9. ASSUME NEW f \in Files, DestroyThrows(f)
      PROVE  MemoryInv'
  BY <1>9 DEF DestroyThrows, Release, Goto
<1>10. ASSUME UNCHANGED vars PROVE MemoryInv'
  BY <1>10 DEF vars
<1> QED
  BY <1>1, <1>2, <1>3, <1>4, <1>5, <1>6, <1>7, <1>8, <1>9, <1>10
     DEF Next, Map, Unmap

\* Every step keeps the descriptors with their objects.
LEMMA OwnStep == MapInv /\ [Next]_vars => DescriptorsOwn'
<1> SUFFICES ASSUME MapInv PROVE [Next]_vars => DescriptorsOwn'
  OBVIOUS
<1> USE FilesAssumption, FdsAssumption, AddressAssumption
        DEF MapInv, TypeOK, CallInv, DescriptorsOwn
<1> USE DEF objectVars, kernelVars, processVars, At
<1>1. ASSUME NEW f \in Files, OpenFd(f)
      PROVE  DescriptorsOwn'
  BY <1>1 DEF OpenFd, Goto
<1>2. ASSUME NEW f \in Files, MapMem(f)
      PROVE  DescriptorsOwn'
  BY <1>2 DEF MapMem, Goto
<1>3. ASSUME NEW f \in Files, MapMemFails(f)
      PROVE  DescriptorsOwn'
  BY <1>3 DEF MapMemFails, Goto
<1>4. ASSUME NEW f \in Files, UnmapMem(f)
      PROVE  DescriptorsOwn'
  BY <1>4 DEF UnmapMem, MayUnmap, Goto
<1>5. ASSUME NEW f \in Files, UnmapMemFails(f)
      PROVE  DescriptorsOwn'
  BY <1>5 DEF UnmapMemFails, MayUnmap
<1>6. ASSUME NEW f \in Files, CloseFd(f)
      PROVE  DescriptorsOwn'
  BY <1>6 DEF CloseFd, Close, Release, Goto
<1>7. ASSUME NEW f \in Files, CloseFdFails(f)
      PROVE  DescriptorsOwn'
  BY <1>7 DEF CloseFdFails, Release, Goto
<1>8. ASSUME NEW f \in Files, Destroy(f)
      PROVE  DescriptorsOwn'
  BY <1>8 DEF Destroy, Close, Release, Goto
<1>9. ASSUME NEW f \in Files, DestroyThrows(f)
      PROVE  DescriptorsOwn'
  BY <1>9 DEF DestroyThrows, Release, Goto
<1>10. ASSUME UNCHANGED vars PROVE DescriptorsOwn'
  BY <1>10 DEF vars
<1> QED
  BY <1>1, <1>2, <1>3, <1>4, <1>5, <1>6, <1>7, <1>8, <1>9, <1>10
     DEF Next, Map, Unmap

\* Every step keeps an object from losing track of a descriptor.
LEMMA DescriptorStep == MapInv /\ [Next]_vars => DescriptorInv'
<1> SUFFICES ASSUME MapInv PROVE [Next]_vars => DescriptorInv'
  OBVIOUS
<1> USE FilesAssumption, FdsAssumption, AddressAssumption
        DEF MapInv, TypeOK, CallInv, DescriptorInv
<1> USE DEF objectVars, kernelVars, processVars, At
<1>1. ASSUME NEW f \in Files, OpenFd(f)
      PROVE  DescriptorInv'
  BY <1>1 DEF OpenFd, Goto
<1>2. ASSUME NEW f \in Files, MapMem(f)
      PROVE  DescriptorInv'
  BY <1>2 DEF MapMem, Goto
<1>3. ASSUME NEW f \in Files, MapMemFails(f)
      PROVE  DescriptorInv'
  BY <1>3 DEF MapMemFails, Goto
<1>4. ASSUME NEW f \in Files, UnmapMem(f)
      PROVE  DescriptorInv'
  BY <1>4 DEF UnmapMem, MayUnmap, Goto
<1>5. ASSUME NEW f \in Files, UnmapMemFails(f)
      PROVE  DescriptorInv'
  BY <1>5 DEF UnmapMemFails, MayUnmap
<1>6. ASSUME NEW f \in Files, CloseFd(f)
      PROVE  DescriptorInv'
  BY <1>6 DEF CloseFd, Close, Release, Goto
<1>7. ASSUME NEW f \in Files, CloseFdFails(f)
      PROVE  DescriptorInv'
  BY <1>7 DEF CloseFdFails, Release, Goto
<1>8. ASSUME NEW f \in Files, Destroy(f)
      PROVE  DescriptorInv'
  BY <1>8 DEF Destroy, Close, Release, Goto
<1>9. ASSUME NEW f \in Files, DestroyThrows(f)
      PROVE  DescriptorInv'
  BY <1>9 DEF DestroyThrows, Release, Goto
<1>10. ASSUME UNCHANGED vars PROVE DescriptorInv'
  BY <1>10 DEF vars
<1> QED
  BY <1>1, <1>2, <1>3, <1>4, <1>5, <1>6, <1>7, <1>8, <1>9, <1>10
     DEF Next, Map, Unmap

\* The invariant holds of every behaviour.
THEOREM MapInvariance == Spec => []MapInv
<1>1. MapInv /\ [Next]_vars => MapInv'
  BY TypeStep, CallStep, MemoryStep, OwnStep, DescriptorStep DEF MapInv
<1> QED
  BY InitMap, <1>1, PTL DEF Spec

-----------------------------------------------------------------------------
\* The variables have their types.
THEOREM MapTypeCorrect == Spec => []TypeOK
<1>1. MapInv => TypeOK
  BY DEF MapInv
<1> QED
  BY <1>1, MapInvariance, PTL

\* An object is_mapped when it has memory, which it then has to itself, unless
\* mmap failed for it.
THEOREM MappedIsTrue == Spec => []MappedMeansMapped
<1>1. MapInv => MappedMeansMapped
  BY FilesAssumption DEF MapInv, MemoryInv, MappedMeansMapped
<1> QED
  BY <1>1, MapInvariance, PTL

\* No object holds a descriptor number that is another one's by now, as long as
\* every close succeeds.
THEOREM NoForeignClose == Spec => []DescriptorsOwn
<1>1. MapInv => DescriptorsOwn
  BY DEF MapInv
<1> QED
  BY <1>1, MapInvariance, PTL

\* A destroyed object leaves no descriptor behind, unless it was mapped again
\* after a map that threw.
THEOREM NoDescriptorLeft == Spec => []DescriptorsClosed
<1>1. MapInv => DescriptorsClosed
  BY DEF MapInv, DescriptorInv, DescriptorsClosed
<1> QED
  BY <1>1, MapInvariance, PTL
=============================================================================
