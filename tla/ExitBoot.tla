------------------------------ MODULE ExitBoot ------------------------------
(***************************************************************************)
(* The end of boot services: the loader's ExitBootServices against the     *)
(* firmware's memory map.  The loader asks for the size of the map with a  *)
(* buffer that is too small, allocates a buffer with room for two more     *)
(* descriptors, fetches the map and exits with the key it came with.  The  *)
(* firmware's map, and with it the key, changes under the pool calls and   *)
(* under timer events that run between any two of the calls.               *)
(*                                                                         *)
(* A map is a number of descriptors of descBytes bytes; its contents are   *)
(* stood for by the key the firmware gave them.                            *)
(***************************************************************************)
EXTENDS Integers

CONSTANTS
  StartDescs,            \* descriptors the map may have when the call starts
  DescriptorSizes,       \* sizes of a descriptor in bytes
  MaxGrowth,             \* bound: descriptors the map gains during the call
  MaxEvents,             \* bound: timer events that run during the call
  PoolMayFail            \* AllocatePool may run out of memory

ASSUME ExitBootAssumption ==
  /\ StartDescs \subseteq Nat \ {0}
  /\ DescriptorSizes \subseteq Nat \ {0, 1}
  /\ MaxGrowth \in Nat /\ MaxEvents \in Nat
  /\ PoolMayFail \in BOOLEAN

VARIABLES
  \* The firmware
  descs, key, descBytes, services, grown, events,
  \* The locals of the loader's ExitBootServices
  pc, buffer, held, memoryMapSize, mapKey, descriptorSize,
  raced                  \* history: an event ran after the map was fetched

firmware == <<descs, key, descBytes, services, grown, events>>
locals == <<pc, buffer, held, memoryMapSize, mapKey, descriptorSize>>
vars == <<firmware, locals, raced>>

Steps == {"AllocProbe", "GetMapProbe", "FreeProbe", "AllocMap", "GetMap",
          "Exit", "Returned"}

\* The buffer holds no memory map.
NoMap == [key |-> 0, descs |-> 0]

MapBytes == descs * descBytes

-----------------------------------------------------------------------------
(* The firmware *)

\* The map becomes another one, with a new key and up to MaxGrowth more
\* descriptors than it gained so far.
MapChanges ==
  /\ \E d \in 1 .. descs + MaxGrowth - grown :
       /\ descs' = d
       /\ grown' = IF d > descs THEN grown + d - descs ELSE grown
  /\ key' = key + 1
  /\ UNCHANGED <<descBytes, services>>

\* A pool call takes or returns memory of pages the pool has already, or
\* changes the map.
PoolCall ==
  /\ UNCHANGED events
  /\ MapChanges \/ UNCHANGED <<descs, key, descBytes, services, grown>>

\* An event handler of the firmware allocates or frees memory.
Event ==
  /\ services /\ pc # "Returned"
  /\ events < MaxEvents
  /\ events' = events + 1
  /\ MapChanges
  /\ raced' = (raced \/ pc = "Exit")
  /\ UNCHANGED locals

-----------------------------------------------------------------------------
(* The loader's calls, in their order *)

Init ==
  /\ descs \in StartDescs /\ descBytes \in DescriptorSizes
  /\ key = 1 /\ services = TRUE /\ grown = 0 /\ events = 0
  /\ pc = "AllocProbe"
  /\ buffer = 0 /\ held = NoMap
  /\ memoryMapSize = 1 /\ mapKey = 0 /\ descriptorSize = 0
  /\ raced = FALSE

\* AllocatePool stores the buffer, buffer being its size in bytes, or fails,
\* its status ignored, and leaves a pointer that is good for nothing.
AllocatePool(size) ==
  \/ PoolCall /\ buffer' = size
  \/ PoolMayFail /\ buffer' = 0 /\ UNCHANGED firmware

\* GetMemoryMap stores the sizes in any case.  It writes the map if the caller
\* has room for it; if not, whether it stores the key is up to the firmware.
GetMemoryMap ==
  /\ memoryMapSize' = MapBytes
  /\ descriptorSize' = descBytes
  /\ \/ /\ buffer # 0 /\ memoryMapSize >= MapBytes
        /\ mapKey' = key
        /\ held' = [key |-> key, descs |-> descs]
     \/ /\ ~(buffer # 0 /\ memoryMapSize >= MapBytes)
        /\ mapKey' \in {mapKey, key}
        /\ UNCHANGED held
  /\ UNCHANGED <<buffer, firmware>>

AllocProbe ==
  /\ pc = "AllocProbe" /\ pc' = "GetMapProbe"
  /\ AllocatePool(1)
  /\ UNCHANGED <<held, memoryMapSize, mapKey, descriptorSize, raced>>

GetMapProbe ==
  /\ pc = "GetMapProbe" /\ pc' = "FreeProbe"
  /\ GetMemoryMap
  /\ UNCHANGED raced

FreeProbe ==
  /\ pc = "FreeProbe" /\ pc' = "AllocMap"
  /\ IF buffer = 0 THEN UNCHANGED firmware ELSE PoolCall
  /\ buffer' = 0 /\ held' = NoMap
  /\ UNCHANGED <<memoryMapSize, mapKey, descriptorSize, raced>>

\* Mutants: the margin is subtracted; it is one descriptor.
MapSizeLessTwo == memoryMapSize - 2 * descriptorSize
MapSizePlusOne == memoryMapSize + descriptorSize

\* Room for the map and the descriptors that allocating it may add.
MapSizePlusTwo == memoryMapSize + 2 * descriptorSize

\* Mutant: the size grows after the buffer is allocated.
AllocMapThenGrow ==
  /\ pc = "AllocMap" /\ pc' = "GetMap"
  /\ memoryMapSize' = MapSizePlusTwo
  /\ AllocatePool(memoryMapSize)
  /\ UNCHANGED <<held, mapKey, descriptorSize, raced>>

AllocMap ==
  /\ pc = "AllocMap" /\ pc' = "GetMap"
  /\ memoryMapSize' = MapSizePlusTwo
  /\ AllocatePool(memoryMapSize')
  /\ UNCHANGED <<held, mapKey, descriptorSize, raced>>

\* Mutant: the key of the first GetMemoryMap is kept.
GetMapOldKey ==
  /\ pc = "GetMap" /\ pc' = "Exit"
  /\ IF buffer # 0 /\ memoryMapSize >= MapBytes
     THEN held' = [key |-> key, descs |-> descs] ELSE UNCHANGED held
  /\ memoryMapSize' = MapBytes
  /\ UNCHANGED <<buffer, firmware, mapKey, descriptorSize>>
  /\ UNCHANGED raced

\* The second GetMemoryMap; its status goes into a variable nobody reads.
GetMap ==
  /\ pc = "GetMap" /\ pc' = "Exit"
  /\ GetMemoryMap
  /\ UNCHANGED raced

\* The firmware's ExitBootServices refuses a key that is not the current one;
\* the loader ignores its status and returns the map.
Exit ==
  /\ pc = "Exit" /\ pc' = "Returned"
  /\ services' = (mapKey # key)
  /\ UNCHANGED <<descs, key, descBytes, grown, events>>
  /\ UNCHANGED <<buffer, held, memoryMapSize, mapKey, descriptorSize, raced>>

Next == \/ AllocProbe \/ GetMapProbe \/ FreeProbe \/ AllocMap \/ GetMap \/ Exit
        \/ Event

Spec == Init /\ [][Next]_vars

-----------------------------------------------------------------------------
(* Properties *)

TypeOK ==
  /\ descs \in Nat \ {0} /\ key \in Nat \ {0}
  /\ descBytes \in Nat \ {0, 1}
  /\ services \in BOOLEAN
  /\ grown \in 0 .. MaxGrowth /\ events \in 0 .. MaxEvents
  /\ pc \in Steps
  /\ buffer \in Nat
  /\ held \in [key : Nat, descs : Nat]
  /\ memoryMapSize \in Nat /\ mapKey \in Nat /\ descriptorSize \in Nat
  /\ raced \in BOOLEAN

\* The firmware writes no more bytes than the loader's buffer has: the size
\* it is told is that of the buffer, which was allocated for the size it
\* asked for before the map grew.
MapInBuffer == held # NoMap => held.descs * descBytes <= buffer

\* If boot services end, the map the loader got is the one they ended with,
\* complete and of the size returned, unless there was no memory for it.  It
\* holds as long as the map gains at most the two descriptors the loader
\* leaves room for.
MapAtExit ==
  pc = "Returned" /\ ~services /\ buffer # 0 =>
    /\ held = [key |-> key, descs |-> descs]
    /\ memoryMapSize = MapBytes /\ descriptorSize = descBytes

\* Boot services are left running only if an event changed the map between
\* GetMemoryMap and ExitBootServices, or there was no memory for the map.
ExitsUnlessRaced == pc = "Returned" /\ services => raced \/ buffer = 0

\* "Exits UEFI Boot services": what the comment of ExitBootServices says,
\* and its caller relies on when it jumps to the kernel.
Exits == pc = "Returned" => ~services

=============================================================================
