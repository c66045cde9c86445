--------------------------- MODULE ExitBootProofs ---------------------------
(***************************************************************************)
(* Proofs about ExitBoot for every size of the map and of a descriptor and *)
(* any number of events.                                                   *)
(***************************************************************************)
EXTENDS ExitBoot, TLAPS

\* The two facts that the firmware's changes of the map must not disturb,
\* whichever step of the handshake they fall on: the size the loader asked
\* for falls short of the map by no more than what the map has gained, and
\* after the second GetMemoryMap a key that is still current belongs to a map
\* that still is.
GrownBytes == grown * descBytes

Margin ==
  /\ pc \in {"FreeProbe", "AllocMap"} =>
       /\ descriptorSize = descBytes
       /\ MapBytes <= memoryMapSize + GrownBytes
  /\ pc = "GetMap" =>
       /\ descriptorSize = descBytes
       /\ MapBytes + 2 * descBytes <= memoryMapSize + GrownBytes

Fetched ==
  pc \in {"Exit", "Returned"} =>
    /\ descriptorSize = descBytes
    /\ buffer # 0 /\ mapKey = key =>
         /\ held = [key |-> key, descs |-> descs]
         /\ memoryMapSize = MapBytes
    /\ buffer # 0 /\ ~raced => mapKey = key

\* Where the buffer and the map in it come from.
Buffers ==
  /\ pc \in {"AllocProbe", "GetMapProbe", "FreeProbe", "AllocMap", "GetMap"} =>
       held = NoMap
  /\ pc = "AllocProbe" => buffer = 0
  /\ pc \in {"AllocProbe", "GetMapProbe"} => memoryMapSize = 1
  /\ pc = "GetMap" => buffer \in {0, memoryMapSize}
  /\ mapKey <= key
  /\ pc = "Returned" => services = (mapKey # key)

\* The invariant that holds whatever the firmware does, and the one that
\* needs the map to gain no more than two descriptors.
SafeInv == TypeOK /\ Buffers /\ MapInBuffer
MarginInv == SafeInv /\ Margin /\ Fetched

-----------------------------------------------------------------------------
(* The firmware *)

\* What a change of the map does to the quantities of the invariant.
LEMMA MapChangesFacts ==
  ASSUME TypeOK, MapChanges
  PROVE  /\ descs' \in Nat \ {0} /\ key' = key + 1
         /\ descBytes' = descBytes /\ services' = services
         /\ grown' \in grown .. MaxGrowth
         /\ MapBytes' - grown' * descBytes <= MapBytes - grown * descBytes
<1>1. PICK d \in 1 .. descs + MaxGrowth - grown :
        /\ descs' = d
        /\ grown' = IF d > descs THEN grown + d - descs ELSE grown
  BY DEF MapChanges
<1>2. /\ descs \in Nat \ {0} /\ grown \in 0 .. MaxGrowth /\ MaxGrowth \in Nat
      /\ descBytes \in Nat \ {0, 1} /\ d \in Nat \ {0}
  BY <1>1, ExitBootAssumption DEF TypeOK
<1>3. grown' \in grown .. MaxGrowth
  BY <1>1, <1>2
<1>4. d - grown' <= descs - grown
  BY <1>1, <1>2
<1>5. /\ (d - grown') * descBytes = d * descBytes - grown' * descBytes
      /\ (descs - grown) * descBytes = descs * descBytes - grown * descBytes
  BY <1>2, <1>3
<1>6. (d - grown') * descBytes <= (descs - grown) * descBytes
  <2>1. \A a, b \in Int, c \in Nat : a <= b => (b - a) * c >= 0
    OBVIOUS
  <2>2. \A a, b \in Int, c \in Nat : (b - a) * c = b * c - a * c
    OBVIOUS
  <2>3. \A a, b \in Int, c \in Nat : a <= b => a * c <= b * c
    BY <2>1, <2>2
  <2>4. d - grown' \in Int /\ descs - grown \in Int /\ descBytes \in Nat
    BY <1>2, <1>3
  <2>5. QED
    BY <1>4, <2>3, <2>4
<1>7. /\ key' = key + 1 /\ descBytes' = descBytes /\ services' = services
      /\ MapBytes' = d * descBytes /\ MapBytes = descs * descBytes
  BY <1>1 DEF MapChanges, MapBytes
<1>8. /\ d * descBytes \in Int /\ descs * descBytes \in Int
      /\ grown' * descBytes \in Int /\ grown * descBytes \in Int
  BY <1>2, <1>3
<1>9. MapBytes' - grown' * descBytes <= MapBytes - grown * descBytes
  BY <1>5, <1>6, <1>7, <1>8
<1>10. QED
  BY <1>1, <1>2, <1>3, <1>7, <1>9

\* The same for a pool call, which may leave the map alone.
LEMMA PoolCallFacts ==
  ASSUME TypeOK, PoolCall \/ UNCHANGED firmware
  PROVE  /\ descs' \in Nat \ {0} /\ key' \in {key, key + 1}
         /\ descBytes' = descBytes /\ services' = services
         /\ grown' \in grown .. MaxGrowth
         /\ events' = events
         /\ MapBytes' - grown' * descBytes <= MapBytes - grown * descBytes
<1>1. CASE MapChanges /\ PoolCall
  BY <1>1, MapChangesFacts DEF PoolCall
<1>2. CASE UNCHANGED <<descs, key, descBytes, services, grown, events>>
  <2>1. MapBytes' = MapBytes /\ MapBytes \in Nat /\ grown * descBytes \in Nat
    BY <1>2 DEF MapBytes, TypeOK
  <2>2. grown \in grown .. MaxGrowth
    BY ExitBootAssumption DEF TypeOK
  <2>3. QED
    BY <1>2, <2>1, <2>2 DEF TypeOK
<1>3. QED
  BY <1>1, <1>2 DEF PoolCall, firmware

-----------------------------------------------------------------------------
(* Types and buffers *)

\* Before the first call there is no buffer to run over.
LEMMA InitSafe == Init => SafeInv
<1> SUFFICES ASSUME Init PROVE SafeInv
  OBVIOUS
<1>1. TypeOK
  <2>1. services \in BOOLEAN /\ raced \in BOOLEAN /\ pc \in Steps
    BY DEF Init, Steps
  <2>2. held \in [key : Nat, descs : Nat]
    BY DEF Init, NoMap
  <2>3. descs \in Nat \ {0} /\ descBytes \in Nat \ {0, 1}
    BY ExitBootAssumption DEF Init
  <2>4. grown \in 0 .. MaxGrowth /\ events \in 0 .. MaxEvents
    BY ExitBootAssumption DEF Init
  <2>5. QED
    BY <2>1, <2>2, <2>3, <2>4 DEF Init, TypeOK
<1>2. Buffers /\ MapInBuffer
  BY DEF Init, Buffers, MapInBuffer
<1>3. QED
  BY <1>1, <1>2 DEF SafeInv

\* GetMemoryMap writes only what fits in the buffer it was told of.
LEMMA GetMemoryMapFacts ==
  ASSUME TypeOK, GetMemoryMap, buffer \in {0, memoryMapSize} \/ memoryMapSize < MapBytes
  PROVE  /\ memoryMapSize' = MapBytes /\ descriptorSize' = descBytes
         /\ MapBytes \in Nat
         /\ UNCHANGED <<buffer, firmware>>
         /\ \/ /\ memoryMapSize >= MapBytes /\ buffer = memoryMapSize
               /\ buffer # 0
               /\ mapKey' = key
               /\ held' = [key |-> key, descs |-> descs]
            \/ /\ buffer = 0 \/ memoryMapSize < MapBytes
               /\ mapKey' \in {mapKey, key}
               /\ held' = held
<1>1. MapBytes \in Nat
  BY DEF MapBytes, TypeOK
<1>2. QED
  BY <1>1 DEF GetMemoryMap, TypeOK

\* No call and no event breaks what SafeInv says of buffer and size.
LEMMA NextSafe == SafeInv /\ [Next]_vars => SafeInv'
<1> SUFFICES ASSUME SafeInv, [Next]_vars PROVE SafeInv'
  OBVIOUS
<1>1. TypeOK /\ Buffers /\ MapInBuffer
  BY DEF SafeInv
<1>2. CASE AllocProbe
  <2>1. PoolCall \/ UNCHANGED firmware
    BY <1>2 DEF AllocProbe, AllocatePool
  <2>2. buffer' \in {0, 1} /\ held' = NoMap
    BY <1>1, <1>2 DEF AllocProbe, AllocatePool, Buffers
  <2>3. QED
    BY <1>1, <1>2, <2>1, <2>2, PoolCallFacts
    DEF AllocProbe, SafeInv, TypeOK, Buffers, MapInBuffer, NoMap, Steps
<1>3. CASE GetMapProbe
  <2>1. memoryMapSize < MapBytes
    <3>1. \A m \in Nat \ {0}, n \in Nat \ {0, 1} : m * n > 1
      OBVIOUS
    <3>2. QED
      BY <1>1, <1>3, <3>1 DEF GetMapProbe, Buffers, TypeOK, MapBytes
  <2>2. held' = NoMap /\ mapKey' \in {mapKey, key} /\ UNCHANGED <<buffer, firmware>>
        /\ memoryMapSize' \in Nat /\ descriptorSize' \in Nat
    BY <1>1, <1>3, <2>1, GetMemoryMapFacts DEF GetMapProbe, Buffers, TypeOK
  <2>3. QED
    BY <1>1, <1>3, <2>2
    DEF GetMapProbe, SafeInv, TypeOK, Buffers, MapInBuffer, NoMap, Steps, firmware
<1>4. CASE FreeProbe
  <2>1. PoolCall \/ UNCHANGED firmware
    BY <1>4 DEF FreeProbe
  <2>2. QED
    BY <1>1, <1>4, <2>1, PoolCallFacts
    DEF FreeProbe, SafeInv, TypeOK, Buffers, MapInBuffer, NoMap, Steps
<1>5. CASE AllocMap
  <2>1. PoolCall \/ UNCHANGED firmware
    BY <1>5 DEF AllocMap, AllocatePool
  <2>2. buffer' \in {0, memoryMapSize'} /\ memoryMapSize' \in Nat
    BY <1>1, <1>5 DEF AllocMap, MapSizePlusTwo, AllocatePool, TypeOK
  <2>3. QED
    BY <1>1, <1>5, <2>1, <2>2, PoolCallFacts
    DEF AllocMap, SafeInv, TypeOK, Buffers, MapInBuffer, NoMap, Steps
<1>6. CASE GetMap
  <2>1. buffer \in {0, memoryMapSize}
    BY <1>1, <1>6 DEF GetMap, Buffers
  <2>2. held' = NoMap \/ held'.descs * descBytes <= buffer
    BY <1>1, <1>6, <2>1, GetMemoryMapFacts DEF GetMap, Buffers, MapBytes
  <2>3. /\ held' \in [key : Nat, descs : Nat]
        /\ mapKey' \in {mapKey, key} /\ UNCHANGED <<buffer, firmware>>
        /\ memoryMapSize' \in Nat /\ descriptorSize' \in Nat
    BY <1>1, <1>6, <2>1, GetMemoryMapFacts DEF GetMap, TypeOK
  <2>4. QED
    BY <1>1, <1>6, <2>2, <2>3
    DEF GetMap, SafeInv, TypeOK, Buffers, MapInBuffer, Steps, firmware
<1>7. CASE Exit
  BY <1>1, <1>7 DEF Exit, SafeInv, TypeOK, Buffers, MapInBuffer, Steps
<1>8. CASE Event
  <2>1. MapChanges /\ UNCHANGED locals /\ pc # "Returned"
        /\ events' \in 0 .. MaxEvents /\ raced' \in BOOLEAN
    BY <1>1, <1>8, ExitBootAssumption DEF Event, TypeOK
  <2>2. TypeOK'
    BY <1>1, <2>1, MapChangesFacts, ExitBootAssumption DEF TypeOK, locals
  <2>3. Buffers' /\ MapInBuffer'
    BY <1>1, <2>1, MapChangesFacts DEF TypeOK, Buffers, MapInBuffer, locals
  <2>4. QED
    BY <2>2, <2>3 DEF SafeInv
<1>9. CASE UNCHANGED vars
  BY <1>1, <1>9 DEF vars, firmware, locals, SafeInv, TypeOK, Buffers, MapInBuffer
<1>10. QED
  BY <1>2, <1>3, <1>4, <1>5, <1>6, <1>7, <1>8, <1>9 DEF Next

\* However much the map grows and however many events run, GetMemoryMap writes
\* within the pool the loader allocated for it.
THEOREM MapStaysInBuffer == Spec => [](TypeOK /\ MapInBuffer)
<1>1. SafeInv => TypeOK /\ MapInBuffer
  BY DEF SafeInv
<1>2. QED
  BY <1>1, InitSafe, NextSafe, PTL DEF Spec

-----------------------------------------------------------------------------
(* The margin of two descriptors *)

\* What the loader asked for still covers the map after it changed.
LEMMA MarginUnderChange ==
  ASSUME TypeOK, MapChanges \/ PoolCall \/ UNCHANGED firmware
  PROVE  /\ MapBytes \in Nat /\ MapBytes' \in Nat
         /\ GrownBytes \in Nat /\ GrownBytes' \in Nat
         /\ descBytes' = descBytes /\ descBytes \in Nat
         /\ MapBytes' - GrownBytes' <= MapBytes - GrownBytes
<1>1. /\ descs' \in Nat \ {0} /\ grown' \in grown .. MaxGrowth
      /\ descBytes' = descBytes
      /\ MapBytes' - grown' * descBytes <= MapBytes - grown * descBytes
  BY MapChangesFacts, PoolCallFacts
<1>2. /\ grown \in Nat /\ grown' \in Nat
      /\ descs \in Nat /\ descs' \in Nat /\ descBytes \in Nat
  BY <1>1, ExitBootAssumption DEF TypeOK
<1>3. \A m, n \in Nat : m * n \in Nat
  OBVIOUS
<1>4. MapBytes \in Nat /\ MapBytes' \in Nat
  BY <1>1, <1>2, <1>3 DEF MapBytes
<1>5. GrownBytes' = grown' * descBytes /\ GrownBytes = grown * descBytes
  BY <1>1 DEF GrownBytes
<1>6. GrownBytes \in Nat /\ GrownBytes' \in Nat
  BY <1>2, <1>3, <1>5
<1>7. QED
  BY <1>1, <1>2, <1>4, <1>5, <1>6

\* Nor, while the map gains at most two descriptors, what is left of the margin.
LEMMA NextMargin ==
  ASSUME MaxGrowth <= 2
  PROVE  MarginInv /\ [Next]_vars => MarginInv'
<1> SUFFICES ASSUME MarginInv, [Next]_vars PROVE Margin' /\ Fetched'
  BY NextSafe DEF MarginInv
<1>1. TypeOK /\ Buffers /\ Margin /\ Fetched /\ TypeOK'
  BY NextSafe DEF MarginInv, SafeInv
<1>2. CASE AllocProbe
  BY <1>2 DEF AllocProbe, Margin, Fetched
<1>3. CASE GetMapProbe
  <2>1. memoryMapSize' = MapBytes /\ descriptorSize' = descBytes
        /\ UNCHANGED firmware /\ pc' = "FreeProbe"
    BY <1>3 DEF GetMapProbe, GetMemoryMap
  <2>2. MapBytes \in Nat /\ GrownBytes \in Nat
    BY <1>1, <2>1, MarginUnderChange
  <2>3. MapBytes' = MapBytes /\ GrownBytes' = GrownBytes /\ descBytes' = descBytes
    BY <2>1 DEF MapBytes, GrownBytes, firmware
  <2>4. QED
    BY <2>1, <2>2, <2>3 DEF Margin, Fetched
<1>4. CASE FreeProbe
  <2>1. PoolCall \/ UNCHANGED firmware
    BY <1>4 DEF FreeProbe
  <2>2. /\ pc = "FreeProbe" /\ pc' = "AllocMap"
        /\ memoryMapSize' = memoryMapSize /\ descriptorSize' = descriptorSize
    BY <1>4 DEF FreeProbe
  <2>3. QED
    <3>1. memoryMapSize \in Nat
      BY <1>1 DEF TypeOK
    <3>2. QED
      BY <1>1, <2>1, <2>2, <3>1, MarginUnderChange DEF Margin, Fetched
<1>5. CASE AllocMap
  <2>1. PoolCall \/ UNCHANGED firmware
    BY <1>5 DEF AllocMap, AllocatePool
  <2>2. /\ pc = "AllocMap" /\ pc' = "GetMap"
        /\ memoryMapSize' = memoryMapSize + 2 * descriptorSize
        /\ descriptorSize' = descriptorSize
    BY <1>5 DEF AllocMap, MapSizePlusTwo
  <2>3. QED
    <3>1. memoryMapSize \in Nat
      BY <1>1 DEF TypeOK
    <3>2. QED
      BY <1>1, <2>1, <2>2, <3>1, MarginUnderChange DEF Margin, Fetched
<1>6. CASE GetMap
  <2>1. GrownBytes <= 2 * descBytes /\ GrownBytes \in Nat /\ descBytes \in Nat
    <3>1. grown \in Nat /\ grown <= 2 /\ descBytes \in Nat
      BY <1>1, ExitBootAssumption DEF TypeOK
    <3>2. grown = 0 \/ grown = 1 \/ grown = 2
      BY <3>1
    <3>3. QED
      BY <3>1, <3>2 DEF GrownBytes
  <2>2. MapBytes <= memoryMapSize /\ descriptorSize = descBytes
    <3>1. MapBytes \in Nat /\ memoryMapSize \in Nat
      BY <1>1 DEF TypeOK, MapBytes
    <3>2. QED
      BY <1>1, <1>6, <2>1, <3>1 DEF GetMap, Margin
  <2>3. /\ memoryMapSize' = MapBytes /\ descriptorSize' = descBytes
        /\ UNCHANGED <<buffer, firmware>>
        /\ buffer # 0 => /\ mapKey' = key
                         /\ held' = [key |-> key, descs |-> descs]
    BY <1>1, <1>6, <2>2 DEF GetMap, GetMemoryMap, TypeOK, MapBytes
  <2>4. pc' = "Exit" /\ MapBytes' = MapBytes
    BY <1>6, <2>3 DEF GetMap, MapBytes, firmware
  <2>5. QED
    BY <2>3, <2>4 DEF Margin, Fetched, firmware
<1>7. CASE Exit
  <2>1. /\ pc = "Exit" /\ pc' = "Returned"
        /\ UNCHANGED <<descs, key, descBytes, buffer, held, memoryMapSize,
                       mapKey, descriptorSize, raced>>
    BY <1>7 DEF Exit
  <2>2. MapBytes' = MapBytes
    BY <2>1 DEF MapBytes
  <2>3. QED
    BY <1>1, <2>1, <2>2 DEF Margin, Fetched
<1>8. CASE Event
  <2>1. /\ MapChanges /\ UNCHANGED locals /\ pc # "Returned"
        /\ raced' = (raced \/ pc = "Exit")
    BY <1>8 DEF Event
  <2>2. Margin'
    <3>1. UNCHANGED <<pc, memoryMapSize, descriptorSize>>
      BY <2>1 DEF locals
    <3>2. memoryMapSize \in Nat
      BY <1>1 DEF TypeOK
    <3>3. QED
      BY <1>1, <2>1, <3>1, <3>2, MarginUnderChange DEF Margin
  <2>3. Fetched'
    <3>1. key' = key + 1 /\ descBytes' = descBytes /\ mapKey' = mapKey
          /\ mapKey <= key
      BY <1>1, <2>1, MapChangesFacts DEF locals, Buffers
    <3>2. mapKey' # key'
      BY <1>1, <3>1 DEF TypeOK
    <3>3. pc = "Exit" => raced'
      BY <2>1
    <3>4. QED
      BY <1>1, <2>1, <3>1, <3>2, <3>3 DEF Fetched, locals
  <2>4. QED
    BY <2>2, <2>3
<1>9. CASE UNCHANGED vars
  <2>1. MapBytes' = MapBytes /\ GrownBytes' = GrownBytes
    BY <1>9 DEF vars, firmware, MapBytes, GrownBytes
  <2>2. QED
    BY <1>1, <1>9, <2>1 DEF vars, firmware, locals, Margin, Fetched
<1>10. QED
  BY <1>2, <1>3, <1>4, <1>5, <1>6, <1>7, <1>8, <1>9 DEF Next

\* If the map gains at most two descriptors while the loader is at it, the two
\* for which it leaves room, then a successful exit leaves the loader with
\* the map of that moment, and only an event between GetMemoryMap and the
\* exit, or memory running out, keeps boot services alive.
THEOREM TwoDescriptorsSuffice ==
  ASSUME MaxGrowth <= 2
  PROVE  Spec => [](MapAtExit /\ ExitsUnlessRaced)
<1>1. Init => MarginInv
  BY InitSafe DEF Init, MarginInv, Margin, Fetched
<1>2. MarginInv /\ [Next]_vars => MarginInv'
  BY NextMargin
<1>3. MarginInv => MapAtExit /\ ExitsUnlessRaced
  BY DEF MarginInv, SafeInv, Buffers, Fetched, MapAtExit, ExitsUnlessRaced
<1>4. QED
  BY <1>1, <1>2, <1>3, PTL DEF Spec

\* The types of the loader's variables and of the firmware's map.
THEOREM TypesHold == Spec => []TypeOK
BY MapStaysInBuffer, PTL

\* Without an event after the second GetMemoryMap, and with memory for the
\* map, ExitBootServices ends boot services.
THEOREM OnlyRacesKeepServices ==
  ASSUME MaxGrowth <= 2
  PROVE  Spec => []ExitsUnlessRaced
BY TwoDescriptorsSuffice, PTL

=============================================================================
