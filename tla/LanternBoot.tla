---------------------------- MODULE LanternBoot ----------------------------
(***************************************************************************)
(* The whole boot: the loader of BhavaLoader, which at its end runs        *)
(* ExitBootServices call by call against the firmware's memory map, as     *)
(* ExitBoot has it, and the start of kmain, which calls the constructors   *)
(* the loader found.  Boot services are the variable they share.           *)
(***************************************************************************)
EXTENDS BhavaLoader

CONSTANTS StartDescs, DescriptorSizes, MaxGrowth, MaxEvents, PoolMayFail

VARIABLES
  \* ExitBoot
  descs, key, descBytes, grown, events,
  exitPc, buffer, held, memoryMapSize, mapKey, descriptorSize, raced,
  \* kmain
  called                 \* the functions CallGlobalConstructors called

Exit == INSTANCE ExitBoot WITH pc <- exitPc

exitVars == <<descs, key, descBytes, grown, events, exitPc, buffer, held,
              memoryMapSize, mapKey, descriptorSize, raced>>
loaderLocals == <<machine, after, keyboard, opened, freePages, kernelVars, fontVars,
                  videoVars, history>>
bootVars == <<vars, exitVars, called>>

BootInit == Init /\ Exit!Init /\ called = <<>>

-----------------------------------------------------------------------------

\* The steps of the loader before it leaves boot services; the user may go on
\* typing.
Load ==
  /\ (pc # "exit_boot" /\ Loader) \/ Type
  /\ UNCHANGED <<exitVars, called>>

CloseProtocol ==
  /\ pc = "exit_boot" /\ "image" \in opened
  /\ opened' = opened \ {"image"}
  /\ UNCHANGED <<machine, pc, after, keyboard, freePages, services, kernelVars,
                 fontVars, videoVars, history, exitVars, called>>

\* Mutant: the protocol of the image is left open.
LeaveUnclosed ==
  /\ pc = "exit_boot"
  /\ Exit!Next
  /\ UNCHANGED <<pc, loaderLocals, called>>

\* The calls of ExitBootServices and the events between them.  What happens to
\* the memory map before is in the maps it may start with.
Leave ==
  /\ pc = "exit_boot" /\ "image" \notin opened
  /\ Exit!Next
  /\ UNCHANGED <<pc, loaderLocals, called>>

\* Mutant: kmain is called by a loader that still asks for the map.
CallKmainEarly ==
  /\ pc = "exit_boot" /\ exitPc = "Exit"
  /\ Goto("kernel")
  /\ UNCHANGED <<machine, keyboard, files, services, kernelVars, fontVars, videoVars,
                 history, exitVars, called>>

\* The result of ExitBootServices, the memory map, is passed to nobody.
CallKmain ==
  /\ pc = "exit_boot" /\ exitPc = "Returned"
  /\ Goto("kernel")
  /\ UNCHANGED <<machine, keyboard, files, services, kernelVars, fontVars, videoVars,
                 history, exitVars, called>>

\* What kmain calls is determined: its code and its tables are those of the file.
\* Otherwise the processor runs what the pages held, and the model ends here.
KernelThere ==
  /\ HeadersIntact /\ image # NoImage /\ image.read = image.size
  /\ globalObjCtorDtor # Uninitialised

\* Mutant: the constructors are called from the last to the first.
CallLastConstructor ==
  /\ pc = "kernel" /\ KernelThere
  /\ Len(called) < Len(globalObjCtorDtor.ctors)
  /\ called' = Append(called, globalObjCtorDtor.ctors
                                [Len(globalObjCtorDtor.ctors) - Len(called)])
  /\ UNCHANGED <<vars, exitVars>>

\* Mutant: the loop runs once more, on what is behind the table.
CallOneMore ==
  /\ pc = "kernel" /\ KernelThere
  /\ Len(called) <= Len(globalObjCtorDtor.ctors)
  /\ called' = Append(called, IF Len(called) < Len(globalObjCtorDtor.ctors)
                              THEN globalObjCtorDtor.ctors[Len(called) + 1]
                              ELSE Uninitialised)
  /\ UNCHANGED <<vars, exitVars>>

\* CallGlobalConstructors.
CallConstructor ==
  /\ pc = "kernel" /\ KernelThere
  /\ Len(called) < Len(globalObjCtorDtor.ctors)
  /\ called' = Append(called, globalObjCtorDtor.ctors[Len(called) + 1])
  /\ UNCHANGED <<vars, exitVars>>

\* All are called: kmain makes its terminal.
ConstructorsDone ==
  /\ pc = "kernel" /\ KernelThere
  /\ Len(called) = Len(globalObjCtorDtor.ctors)
  /\ Goto("terminal")
  /\ UNCHANGED <<machine, keyboard, files, services, kernelVars, fontVars, videoVars,
                 history, exitVars, called>>

BootNext ==
  \/ Load \/ CloseProtocol \/ Leave
  \/ CallKmain \/ CallConstructor \/ ConstructorsDone

BootSpec == BootInit /\ [][BootNext]_bootVars

-----------------------------------------------------------------------------
(* The boot implements the loader of BhavaLoader: what ExitBootServices does
   is one step of it, in which it fails if boot services are still there. *)

Entered == pc \in {"kernel", "terminal"}

L == INSTANCE BhavaLoader WITH
  pc <- IF Entered THEN "kernel" ELSE pc,
  opened <- IF pc = "exit_boot" THEN opened \cup {"image"} ELSE opened,
  services <- IF Entered THEN services ELSE TRUE,
  failed <- IF Entered /\ services THEN failed \cup {"exit"} ELSE failed

\* The loader of BhavaLoader is what the loader does call by call.
ImplementsLoader == L!Spec

-----------------------------------------------------------------------------
(* Properties *)

BootTypeOK ==
  /\ Exit!TypeOK
  /\ pc \in Stages \cup {"terminal"}
  /\ opened \subseteq {"image", "sfs", "root", "kernel", "font"}
  /\ Len(called) > 0 => Entered /\ Len(called) <= Len(globalObjCtorDtor.ctors)

\* The kernel runs beside boot services, whose event handlers own the timer
\* and may change memory under it, only if the firmware's map changed between
\* the loader's last two calls or there was no memory for the map; otherwise
\* the loader's map was the last one (if it gained at most two descriptors).
KernelAlone ==
  Entered =>
    /\ services => raced \/ buffer = 0
    /\ ~ services /\ buffer # 0 => held = [key |-> key, descs |-> descs]

\* A kernel that was read calls the functions in the last .init_array of its
\* file, each at its place in the image and in the order of the table, and has
\* called all of them when it makes its terminal; unless its section headers
\* could not be read or there was no memory for the table.
ConstructorsInOrder ==
  Entered /\ machine.kernel.elf /\ HeadersIntact /\ image.read = image.size
          /\ failed \cap {"section_headers", "pool"} = {} =>
    LET tables == {n \in DOMAIN machine.kernel.sections :
                     machine.kernel.sections[n].type = "init"}
        loaded == {n \in DOMAIN machine.kernel.phs : machine.kernel.phs[n].load}
        table == IF tables = {} THEN <<>>
                 ELSE machine.kernel.sections[Max(tables)].table
    IN  /\ Len(called) <= Len(table)
        /\ \A n \in DOMAIN called :
             called[n] - image.base
               = table[n] - machine.kernel.phs[Max(loaded)].vaddr
        /\ pc = "terminal" => Len(called) = Len(table)

=============================================================================
