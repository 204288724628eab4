--------------------------- MODULE RundownLayout ---------------------------
(***************************************************************************)
(* The memory of a cache-aware run-down reference: how                     *)
(* ntoskrnl/ex/rundown.c allocates the master structure and the words, or  *)
(* lays them out in a buffer of its caller's, and frees them.  The pool is *)
(* external: an allocation fails or returns memory nobody else has, of     *)
(* which only the alignment matters.  RundownObject puts the module        *)
(* together with the use of the words, RundownCacheAware.                  *)
(***************************************************************************)
EXTENDS Integers, FiniteSets

CONSTANTS Processors,   \* the values of KeNumberProcessors
          Stride,       \* bound: the distance between blocks of the pool
          RefSize,      \* sizeof(EX_RUNDOWN_REF)
          MasterSize,   \* sizeof(EX_RUNDOWN_REF_CACHE_AWARE)
          Align         \* KeGetRecommendedSharedDataAlignment()

ASSUME LayoutAssumption ==
    /\ Processors \subseteq Nat \ {0} /\ Align \in Nat \ {0}
    /\ Stride \in Nat /\ Stride % Align = 0
    /\ \A n \in Processors : MasterSize + (n + 2) * Align <= Stride
    /\ RefSize \in Nat \ {0} /\ MasterSize \in Nat \ {0}
    /\ RefSize <= Align

VARIABLES np,           \* KeNumberProcessors
          heap,         \* the allocations, [addr, size]
          stage,        \* where the call is, or what became of it
          master,       \* RunRefCacheAware
          pool,         \* PoolToFree
          words         \* RunRefs, RunRefSize and Number

layoutVars == <<np, heap, stage, master, pool, words>>

Null == 0
Unset == [runRefs |-> Null, runRefSize |-> 0, number |-> 0]

Bytes(b) == b.addr .. b.addr + b.size - 1

(* ExAllocatePoolWithTag: the blocks it can return; it can also fail. *)
FreeBlocks(h, size) ==
    {[addr |-> (Cardinality(h) + 1) * Stride + off, size |-> size] : off \in 0 .. Align - 1}

(* ExFreePoolWithTag *)
Without(h, p) == {b \in h : b.addr # p}

AlignUp(p) == ((p + Align - 1) \div Align) * Align

LayoutInit ==
    /\ np \in Processors
    /\ heap = {} /\ stage = "Start"
    /\ master = Null /\ pool = Null /\ words = Unset

-----------------------------------------------------------------------------
(* ExAllocateCacheAwareRundownProtection: the master structure. *)
AllocateMaster ==
    /\ stage = "Start"
    /\ \/ \E b \in FreeBlocks(heap, MasterSize) :
             /\ heap' = heap \cup {b} /\ master' = b.addr
             /\ stage' = "AllocRefs"
       \/ stage' = "Null" /\ UNCHANGED <<heap, master>>
    /\ UNCHANGED <<np, pool, words>>

RunRefSize == IF np <= 1 THEN RefSize ELSE Align

(* Mutant: the master structure is not freed. *)
GiveUpLeaking(h) == stage' = "Null" /\ heap' = h /\ UNCHANGED <<pool, words>>

(* A later allocation failed: the master structure is freed. *)
GiveUp(h) ==
    /\ stage' = "Null" /\ heap' = Without(h, master)
    /\ UNCHANGED <<pool, words>>

(* The structure is filled in and every word initialized. *)
Filled(p, refs) ==
    /\ stage' = "Ready" /\ pool' = p
    /\ words' = [runRefs |-> refs, runRefSize |-> RunRefSize, number |-> np]

(* The words; on several processors a misaligned block is given back. *)
AllocateRefs ==
    /\ stage = "AllocRefs"
    /\ \/ \E b \in FreeBlocks(heap, RunRefSize * np) :
             \/ /\ np > 1 /\ b.addr % Align # 0
                /\ stage' = "AllocBigger"
                /\ UNCHANGED <<heap, pool, words>>
             \/ /\ np <= 1 \/ b.addr % Align = 0
                /\ heap' = heap \cup {b}
                /\ Filled(b.addr, b.addr)
       \/ GiveUp(heap)
    /\ UNCHANGED <<np, master>>

(* One more, so that the words can be aligned in the block. *)
AllocateBigger ==
    /\ stage = "AllocBigger"
    /\ \/ \E b \in FreeBlocks(heap, RunRefSize * (np + 1)) :
             heap' = heap \cup {b} /\ Filled(b.addr, AlignUp(b.addr))
       \/ GiveUp(heap)
    /\ UNCHANGED <<np, master>>

(* ExFreeCacheAwareRundownProtection *)
Free ==
    /\ stage = "Ready"
    /\ heap' = Without(Without(heap, pool), master)
    /\ stage' = "Freed"
    /\ UNCHANGED <<np, master, pool, words>>

-----------------------------------------------------------------------------
(* ExSizeOfRundownProtectionCacheAware *)
SizeOf == MasterSize + IF np <= 1 THEN RefSize ELSE (np + 1) * Align

(* Mutant: the words are not aligned up, so the first shares its line. *)
LayoutUnaligned(p, size) ==
    IF size = MasterSize + RefSize
    THEN [runRefs |-> p + MasterSize, runRefSize |-> RefSize, number |-> 1]
    ELSE [runRefs |-> p + MasterSize, runRefSize |-> Align,
          number |-> ((size - MasterSize) \div Align) - 1]

(* ExInitializeRundownProtectionCacheAware, in size bytes at p *)
Layout(p, size) ==
    IF size = MasterSize + RefSize
    THEN [runRefs |-> p + MasterSize, runRefSize |-> RefSize, number |-> 1]
    ELSE [runRefs |-> AlignUp(p + MasterSize), runRefSize |-> Align,
          number |-> ((size - MasterSize) \div Align) - 1]

(* The caller allocates what ExSizeOf... says, as the class driver does for *)
(* its remove lock (class.c 8954 and 9093).                                 *)
InitializeCacheAware ==
    /\ stage = "Start"
    /\ \E b \in FreeBlocks(heap, SizeOf) :
          /\ heap' = heap \cup {b} /\ master' = b.addr
          /\ words' = Layout(b.addr, b.size)
    /\ stage' = "Initialized"
    /\ UNCHANGED <<np, pool>>

Allocate ==
    AllocateMaster \/ AllocateRefs \/ AllocateBigger \/ InitializeCacheAware

-----------------------------------------------------------------------------
(* ExGetRunRefForGivenProcessor *)
RunRef(p) == words.runRefs + words.runRefSize * (p % words.number)

Cpus == 0 .. np - 1

(* However the allocations fall out, a failed call leaves nothing behind,   *)
(* and freeing gives back all of it.                                        *)
NoLeak == stage \in {"Null", "Freed"} => heap = {}

(* Every processor has its own word, in memory that belongs to the object   *)
(* and is not the master structure.                                         *)
WordsFit ==
    stage \in {"Ready", "Initialized"} =>
        /\ \A p \in Cpus : \E b \in heap :
              /\ RunRef(p) .. RunRef(p) + RefSize - 1 \subseteq Bytes(b)
              /\ RunRef(p) .. RunRef(p) + RefSize - 1
                    \cap (master .. master + MasterSize - 1) = {}
        /\ \A p, q \in Cpus : p # q => RunRef(p) # RunRef(q)

(* That, and on several processors no two words, and no word and anything   *)
(* else of the pool, share a cache line: what the structure is for          *)
(* (ex/rundown.c, lines 612-646 and 700-744).                               *)
OwnLine ==
    /\ WordsFit
    /\ stage \in {"Ready", "Initialized"} /\ np > 1 =>
        \A p \in Cpus : \E b \in heap :
            /\ RunRef(p) % Align = 0
            /\ RunRef(p) .. RunRef(p) + Align - 1 \subseteq Bytes(b)
=============================================================================
