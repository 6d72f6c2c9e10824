---------------------------- MODULE DriverProofs ----------------------------
(***************************************************************************)
(* Proofs about Driver for every number of endpoints and processes.        *)
(***************************************************************************)
EXTENDS Driver, TLAPS

(* The steps of init_module before the interrupt can be requested, and those
   after PCI_readBAR succeeded. *)
BeforeBars == {"find", "region", "cdev", "bar"}
AfterBars  == {"enable", "inbound", "dspirq", "irq", "unit", "fill", "table", "boot"}

(* A ProcessorUnitDev_t that is being filled has a field to store. *)
FillInv == initPc = "fill" => unitDev[chipIndex] \in 1 .. 4

(* The handler can only be called once the BARs of its chip are mapped. *)
IrqInv ==
  /\ \A c \in irq : mapped[c] = Bars
  /\ initPc \in BeforeBars => irq = {}
  /\ initPc \in AfterBars => mapped[chipIndex] = Bars
  /\ IsrFindsRegisters

IInv == TypeOK /\ FillInv /\ IrqInv

(* How far init_module is, ... *)
ProgressInv ==
  /\ chipIndex = 0
  /\ initPc \in BeforeBars => irq = {}
  /\ initPc \in AfterBars => barReg = Chips /\ mapped[0] = Bars
  /\ initPc \in {"irq", "unit", "fill", "table", "boot"} => enabled[0] = LegacyIrqs
  /\ initPc = "fill" => unitDev[0] \in 1 .. 4
  /\ initPc \in {"table", "boot"} => unitDev[0] = 5
  /\ initPc = "boot" => 0 \in table
  /\ initPc \in {"region", "cdev", "bar"} => barReg = Chips
  /\ initPc \in {"find", "region"} => charDev = {}
  /\ charDev \subseteq {0}
  /\ module = "loading" <=> initPc # "returned"
  /\ module = "live" => /\ 0 \in booted /\ 0 \in table /\ unitDev[0] = 5
                        /\ barReg = Chips /\ mapped[0] = Bars
                        /\ enabled[0] = LegacyIrqs
  /\ \A c \in irq : mapped[c] = Bars

(* ... and what a process that opened in order has found. *)
ProcInv(p) ==
  p \in orderly /\ at[p] # "closed" =>
    /\ module = "live"
    /\ minor[p] = 0 /\ unit[p] = 0 /\ found[p] = "set"
    /\ at[p] \in {"opening", "open", "down"}
    /\ at[p] \in {"open", "down"} => handle[p] = "set"

OInv == TypeOK /\ ProgressInv /\ (\A p \in Procs : ProcInv(p)) /\ NoOops

LEMMA Units ==
  Len(UnitStores) = 5 /\ 0 .. Len(UnitStores) = 0 .. 5 /\ UnitStores[4] = "pPciBarReg"
BY DEF UnitStores

(* A command or an mmap that takes a step waits in down(), or finds something not
   set. *)
Missing(p) == handle[p] = "NULL" \/ unit[p] \notin barReg \/ "reg" \notin mapped[unit[p]]

LEMMA CommandSteps ==
  ASSUME NEW p \in Procs, Ioctl(p) \/ MmapTable(p)
  PROVE  \/ IoctlDown(p)
         \/ Fails(p, "type")
         \/ (Missing(p) /\ Fails(p, Blame(p)))
<1>1. CASE MmapTable(p)
  BY <1>1 DEF MmapTable, Missing
<1>2. CASE Ioctl(p)
  BY <1>2, Zenon DEF Ioctl, IoctlWait, IoctlChange, IoctlInterrupt, Missing
<1> QED
  BY <1>1, <1>2

LEMMA ZeroIsAChip == 0 \in Chips /\ PciDevCount \in Nat
BY DriverAssumption DEF Chips

-----------------------------------------------------------------------------
LEMMA InitModuleType ==
  ASSUME TypeOK, FillInv, InitModule
  PROVE  TypeOK'
<1> USE ZeroIsAChip, Units
<1>1. CASE FindPciDevices
  BY <1>1 DEF TypeOK, FindPciDevices, InitAt, InitReturns, isrVars, procVars, InitBound, Chips, Bars
<1>2. CASE AllocRegion
  BY <1>2 DEF TypeOK, AllocRegion, pcieDevNum, InitAt, InitReturns, isrVars, procVars, InitBound, Chips, Bars
<1>3. CASE AddCharDev
  BY <1>3 DEF TypeOK, AddCharDev, InitAt, InitReturns, isrVars, procVars, InitBound, Chips, Bars
<1>4. CASE ReadBar
  BY <1>4 DEF TypeOK, ReadBar, InitAt, InitReturns, isrVars, procVars, InitBound, Chips, Bars
<1>5. CASE SetMaster
  BY <1>5 DEF TypeOK, SetMaster, InitAt, InitReturns, isrVars, procVars, InitBound, Chips, Bars
<1>11. CASE SetInBound
  BY <1>11 DEF TypeOK, SetInBound, UsesRegisters, InitAt, InitReturns, isrVars, procVars, InitBound, Chips, Bars
<1>12. CASE EnableDspInterrupt
  BY <1>12 DEF TypeOK, EnableDspInterrupt, UsesRegisters, InitAt, InitReturns, isrVars, procVars, InitBound, Chips, Bars
<1>6. CASE RequestIrq
  BY <1>6 DEF TypeOK, RequestIrq, InitAt, InitReturns, isrVars, procVars, InitBound, Chips, Bars
<1>7. CASE AllocUnit
  BY <1>7 DEF TypeOK, AllocUnit, InitAt, InitReturns, isrVars, procVars, InitBound, Chips, Bars
<1>8. CASE FillUnit
  BY <1>8 DEF TypeOK, FillInv, FillUnit, InitAt, InitReturns, isrVars, procVars, InitBound, Chips, Bars
<1>9. CASE BootSetsTable
  BY <1>9 DEF TypeOK, BootSetsTable, InitAt, InitReturns, isrVars, procVars, InitBound, Chips, Bars
<1>10. CASE BootReturns
  BY <1>10 DEF TypeOK, BootReturns, InitAt, InitReturns, isrVars, procVars, InitBound, Chips, Bars
<1> QED
  BY <1>1, <1>2, <1>3, <1>4, <1>5, <1>6, <1>7, <1>8, <1>9, <1>10, <1>11, <1>12 DEF InitModule

(* What processes leave alone keeps its type. *)
KernelType ==
  /\ module \in {"loading", "live", "gone"}
  /\ initPc \in {"find", "region", "cdev", "bar", "enable", "inbound", "dspirq", "irq",
                 "unit", "fill", "table", "boot", "returned"}
  /\ chipIndex \in Chips
  /\ retValue \in {0, -1, -2, -3, -4}
  /\ barReg \subseteq Chips /\ charDev \subseteq Chips /\ irq \subseteq Chips
  /\ table \subseteq Chips /\ booted \subseteq Chips
  /\ mapped \in [Chips -> SUBSET Bars]
  /\ unitDev \in [Chips -> 0 .. Len(UnitStores)]
  /\ enabled \in [Chips -> SUBSET LegacyIrqs]
  /\ isr \in [Chips -> {"idle", "checked"}]
  /\ pending \in [Chips -> BOOLEAN]
  /\ left \in BOOLEAN

ProcType ==
  /\ at \in [Procs -> {"closed", "opening", "open", "down", "stale"}]
  /\ orderly \subseteq Procs
  /\ minor \in [Procs -> Chips] /\ unit \in [Procs -> Chips]
  /\ found \in [Procs -> {"NULL", "set"}] /\ handle \in [Procs -> {"NULL", "set"}]
  /\ oops \in {"none", "init", "orderly", "early", "type", "isr", "freed code"}

LEMMA TypeParts == TypeOK <=> KernelType /\ ProcType
BY Zenon DEF TypeOK, KernelType, ProcType

LEMMA KernelSame ==
  ASSUME KernelType, UNCHANGED <<initVars, isrVars>>
  PROVE  KernelType'
<1>1. /\ module' = module /\ initPc' = initPc /\ chipIndex' = chipIndex
      /\ retValue' = retValue /\ barReg' = barReg /\ mapped' = mapped
      /\ charDev' = charDev /\ irq' = irq /\ unitDev' = unitDev /\ table' = table
      /\ booted' = booted /\ left' = left
      /\ enabled' = enabled /\ isr' = isr /\ pending' = pending
  BY DEF initVars, isrVars
<1> QED
  BY <1>1, Zenon DEF KernelType

LEMMA UsesType ==
  ASSUME TypeOK, NEW p \in Procs, Uses(p)
  PROVE  TypeOK'
<1>0. KernelType /\ ProcType
  BY TypeParts
<1>1. UNCHANGED <<initVars, isrVars>>
  BY CommandSteps DEF Uses, OpenLinkLayer, OpenNoMemory, Fails, IoctlDown, Close
<1>2. KernelType'
  BY <1>0, <1>1, KernelSame
<1>3. TypeOK' <=> KernelType' /\ ProcType'
  BY Zenon DEF TypeOK, KernelType, ProcType
<1> SUFFICES ProcType'
  BY <1>2, <1>3
<1>4. CASE OpenLinkLayer(p)
  <2>1. UNCHANGED <<orderly, minor, unit, found>>
    BY <1>4 DEF OpenLinkLayer
  <2>2. CASE UnitIsThere(p)
    BY <1>0, <1>4, <2>1, <2>2 DEF ProcType, OpenLinkLayer, Opened
  <2>3. CASE ~ UnitIsThere(p)
    <3>1. at' = at /\ handle' = handle /\ oops' = Blame(p)
      BY <1>4, <2>3 DEF OpenLinkLayer
    <3> QED
      BY <1>0, <2>1, <3>1 DEF ProcType, Blame
  <2> QED
    BY <2>2, <2>3
<1>5. ASSUME NEW who \in {"orderly", "early", "type"}, Fails(p, who)
      PROVE  ProcType'
  BY <1>0, <1>5 DEF ProcType, Fails, procVars
<1>6. Fails(p, Blame(p)) => ProcType'
  BY <1>5 DEF Blame
<1>7. CASE IoctlDown(p) \/ OpenNoMemory(p) \/ Close(p)
  <2>1. UNCHANGED <<orderly, minor, unit, found, handle, oops>>
    BY <1>7 DEF IoctlDown, OpenNoMemory, Close
  <2>2. at' \in [Procs -> {"closed", "opening", "open", "down", "stale"}]
    BY <1>0, <1>7 DEF ProcType, IoctlDown, OpenNoMemory, Close
  <2> QED
    BY <1>0, <2>1, <2>2 DEF ProcType
<1>8. CASE Ioctl(p) \/ MmapTable(p)
  <2>1. Fails(p, "type") => ProcType'
    BY <1>5
  <2> QED
    BY <1>6, <1>7, <1>8, <2>1, CommandSteps
<1> QED
  BY <1>4, <1>7, <1>8 DEF Uses

LEMMA OpenType ==
  ASSUME TypeOK, NEW p \in Procs, NEW c \in Chips, NEW u \in Chips, OpenFindsUnit(p, c, u)
  PROVE  TypeOK'
BY DEF TypeOK, OpenFindsUnit, Running, initVars, isrVars

LEMMA IsrType ==
  ASSUME TypeOK, NEW c \in Chips, IsrChecks(c) \/ IsrClears(c) \/ DspRaises(c)
  PROVE  TypeOK'
<1>1. CASE IsrChecks(c)
  BY <1>1 DEF TypeOK, IsrChecks, CanCheckInterrupt, Running, initVars, procVars
<1>2. CASE IsrClears(c)
  <2>1. pending' \in [Chips -> BOOLEAN]
    BY <1>2, Zenon DEF TypeOK, IsrClears, ClearDspInterrupt
  <2> QED
    BY <1>2, <2>1 DEF TypeOK, IsrClears, ClearDspInterrupt, Running, initVars, procVars
<1>3. CASE DspRaises(c)
  <2>1. pending' \in [Chips -> BOOLEAN]
    BY <1>3, Zenon DEF TypeOK, DspRaises
  <2> QED
    BY <1>3, <2>1 DEF TypeOK, DspRaises, initVars, procVars
<1> QED
  BY <1>1, <1>2, <1>3

LEMMA EndsType ==
  ASSUME TypeOK, CleanupModule \/ FreedCode \/ Reload
  PROVE  TypeOK'
<1>1. pending' \in [Chips -> BOOLEAN]
  BY Zenon DEF TypeOK, CleanupModule, FreedCode, Reload, isrVars
<1>2. left' \in BOOLEAN
  BY Zenon DEF TypeOK, CleanupModule, FreedCode, Reload, initVars
<1>3. CASE CleanupModule
  BY <1>1, <1>2, <1>3 DEF TypeOK, CleanupModule, isrVars, procVars
<1>4. CASE FreedCode
  BY <1>1, <1>2, <1>4 DEF TypeOK, FreedCode, initVars, isrVars, procVars
<1>5. CASE Reload
  <2>1. at' \in [Procs -> {"closed", "opening", "open", "down", "stale"}]
    BY <1>5 DEF Reload
  <2> QED
    BY <1>1, <1>2, <1>5, <2>1, ZeroIsAChip DEF TypeOK, Reload
<1> QED
  BY <1>3, <1>4, <1>5

LEMMA StutterType ==
  ASSUME TypeOK, UNCHANGED vars
  PROVE  TypeOK'
<1>1. UNCHANGED <<initVars, isrVars>>
  BY DEF vars, initVars, isrVars
<1>2. KernelType'
  BY <1>1, TypeParts, KernelSame
<1>3. /\ at' = at /\ orderly' = orderly /\ minor' = minor /\ unit' = unit
      /\ found' = found /\ handle' = handle /\ oops' = oops
  BY DEF vars
<1>4. ProcType'
  BY <1>3, TypeParts, Zenon DEF ProcType
<1>5. TypeOK' <=> KernelType' /\ ProcType'
  BY Zenon DEF TypeOK, KernelType, ProcType
<1> QED
  BY <1>2, <1>4, <1>5

-----------------------------------------------------------------------------
(* The handler. *)
LEMMA InitIInv == Init => IInv
<1> SUFFICES ASSUME Init PROVE IInv
  OBVIOUS
<1> USE ZeroIsAChip
<1>0. unitDev \in [Chips -> 0 .. Len(UnitStores)]
  BY Units DEF Init
<1>1. TypeOK
  BY <1>0 DEF Init, TypeOK
<1>2. IrqInv
  BY DEF Init, IrqInv, IsrFindsRegisters, BeforeBars, AfterBars
<1> QED
  BY <1>1, <1>2 DEF Init, FillInv, IInv

LEMMA InitModuleIrq ==
  ASSUME TypeOK, IrqInv, InitModule
  PROVE  IrqInv'
<1> USE DEF IrqInv, IsrFindsRegisters, BeforeBars, AfterBars, TypeOK
<1>1. CASE FindPciDevices
  BY <1>1, ZeroIsAChip DEF FindPciDevices, InitAt, InitReturns, isrVars, procVars, InitBound, Chips
<1>2. CASE AllocRegion
  BY <1>2, ZeroIsAChip DEF AllocRegion, pcieDevNum, InitAt, InitReturns, isrVars, procVars, InitBound, Chips
<1>3. CASE AddCharDev
  BY <1>3, ZeroIsAChip DEF AddCharDev, InitAt, InitReturns, isrVars, procVars, InitBound, Chips
<1>4. CASE ReadBar
  BY <1>4, ZeroIsAChip DEF ReadBar, InitAt, InitReturns, isrVars, procVars, InitBound, Chips
<1>5. CASE SetMaster
  BY <1>5, ZeroIsAChip DEF SetMaster, InitAt, InitReturns, isrVars, procVars, InitBound, Chips
<1>11. CASE SetInBound
  BY <1>11, ZeroIsAChip DEF SetInBound, UsesRegisters, InitAt, InitReturns, isrVars, procVars, InitBound, Chips
<1>12. CASE EnableDspInterrupt
  BY <1>12, ZeroIsAChip DEF EnableDspInterrupt, UsesRegisters, InitAt, InitReturns, isrVars, procVars, InitBound, Chips
<1>6. CASE RequestIrq
  BY <1>6, ZeroIsAChip DEF RequestIrq, InitAt, InitReturns, isrVars, procVars, InitBound, Chips
<1>7. CASE AllocUnit
  BY <1>7, ZeroIsAChip DEF AllocUnit, InitAt, InitReturns, isrVars, procVars, InitBound, Chips
<1>8. CASE FillUnit
  BY <1>8, ZeroIsAChip DEF FillUnit, InitAt, InitReturns, isrVars, procVars, InitBound, Chips
<1>9. CASE BootSetsTable
  BY <1>9, ZeroIsAChip DEF BootSetsTable, InitAt, InitReturns, isrVars, procVars, InitBound, Chips
<1>10. CASE BootReturns
  BY <1>10, ZeroIsAChip DEF BootReturns, InitAt, InitReturns, isrVars, procVars, InitBound, Chips
<1> QED
  BY <1>1, <1>2, <1>3, <1>4, <1>5, <1>6, <1>7, <1>8, <1>9, <1>10, <1>11, <1>12 DEF InitModule

LEMMA IsrIrq ==
  ASSUME TypeOK, IrqInv, NEW c \in Chips, IsrChecks(c) \/ IsrClears(c) \/ DspRaises(c)
  PROVE  IrqInv'
<1> USE DEF IrqInv, IsrFindsRegisters
<1>1. CASE IsrChecks(c)
  BY <1>1 DEF IsrChecks, CanCheckInterrupt, initVars, Bars
<1>2. CASE IsrClears(c) \/ DspRaises(c)
  BY <1>2 DEF IsrClears, DspRaises, initVars
<1> QED
  BY <1>1, <1>2

LEMMA OthersIrq ==
  ASSUME IrqInv,
         \/ CleanupModule \/ FreedCode \/ Reload
         \/ \E p \in Procs : Uses(p) \/ \E c, u \in Chips : OpenFindsUnit(p, c, u)
  PROVE  IrqInv'
<1> USE DEF IrqInv, IsrFindsRegisters
<1>1. CASE CleanupModule \/ FreedCode
  BY <1>1 DEF CleanupModule, FreedCode, initVars
<1>2. ASSUME NEW p \in Procs, Uses(p)
      PROVE  IrqInv'
  BY <1>2, CommandSteps DEF Uses, OpenLinkLayer, OpenNoMemory, Fails, Blame, IoctlDown, Close, initVars
<1>3. ASSUME NEW p \in Procs, NEW c \in Chips, NEW u \in Chips, OpenFindsUnit(p, c, u)
      PROVE  IrqInv'
  BY <1>3 DEF OpenFindsUnit, initVars
<1>4. CASE Reload
  BY <1>4 DEF Reload, AfterBars
<1> QED
  BY <1>1, <1>2, <1>3, <1>4

(* Only init_module, and another insmod, fill a unit. *)
LEMMA InitModuleFill ==
  ASSUME TypeOK, FillInv, InitModule
  PROVE  FillInv'
<1>1. CASE AllocUnit
  <2>1. chipIndex' = chipIndex /\ unitDev'[chipIndex] = 1
    BY <1>1 DEF AllocUnit, TypeOK
  <2> QED
    BY <2>1 DEF FillInv
<1>2. CASE FillUnit
  BY <1>2, Units DEF FillUnit, FillInv, TypeOK, InitAt
<1>3. CASE ~ AllocUnit /\ ~ FillUnit
  <2>1. initPc' # "fill"
    BY <1>3 DEF InitModule, FindPciDevices, AllocRegion, AddCharDev, ReadBar, SetMaster, SetInBound,
       EnableDspInterrupt, UsesRegisters, RequestIrq, BootSetsTable, BootReturns, InitReturns, InitAt
  <2> QED
    BY <2>1 DEF FillInv
<1> QED
  BY <1>1, <1>2, <1>3

LEMMA OthersFill ==
  ASSUME FillInv, Reload \/ UNCHANGED <<initPc, chipIndex, unitDev>>
  PROVE  FillInv'
BY DEF FillInv, Reload

LEMMA OthersLeaveInit ==
  ASSUME \/ CleanupModule \/ FreedCode
         \/ \E c \in Chips : IsrChecks(c) \/ IsrClears(c) \/ DspRaises(c)
         \/ \E p \in Procs : Uses(p) \/ \E c, u \in Chips : OpenFindsUnit(p, c, u)
  PROVE  UNCHANGED <<initPc, chipIndex, unitDev>>
<1>1. ASSUME NEW p \in Procs, Uses(p)
      PROVE  UNCHANGED <<initPc, chipIndex, unitDev>>
  BY <1>1, CommandSteps DEF Uses, OpenLinkLayer, OpenNoMemory, Fails, IoctlDown, Close, initVars
<1> QED
  BY <1>1 DEF CleanupModule, FreedCode, IsrChecks, IsrClears, DspRaises, OpenFindsUnit, initVars

LEMMA StepIInv == IInv /\ [Next]_vars => IInv'
<1> SUFFICES ASSUME IInv, [Next]_vars PROVE IInv'
  OBVIOUS
<1>0. TypeOK /\ FillInv /\ IrqInv
  BY DEF IInv
<1>1. CASE InitModule
  BY <1>0, <1>1, InitModuleType, InitModuleFill, InitModuleIrq DEF IInv
<1>2. CASE CleanupModule \/ FreedCode \/ Reload
  BY <1>0, <1>2, EndsType, OthersFill, OthersLeaveInit, OthersIrq DEF IInv
<1>3. ASSUME NEW c \in Chips, IsrChecks(c) \/ IsrClears(c) \/ DspRaises(c)
      PROVE  IInv'
  BY <1>0, <1>3, IsrType, OthersFill, OthersLeaveInit, IsrIrq DEF IInv
<1>4. ASSUME NEW p \in Procs, Uses(p)
      PROVE  IInv'
  BY <1>0, <1>4, UsesType, OthersFill, OthersLeaveInit, OthersIrq DEF IInv
<1>5. ASSUME NEW p \in Procs, NEW c \in Chips, NEW u \in Chips, OpenFindsUnit(p, c, u)
      PROVE  IInv'
  BY <1>0, <1>5, OpenType, OthersFill, OthersLeaveInit, OthersIrq DEF IInv
<1>6. CASE UNCHANGED vars
  <2>1. TypeOK'
    BY <1>0, <1>6, StutterType
  <2>2. IrqInv'
    BY <1>0, <1>6 DEF IrqInv, IsrFindsRegisters, vars
  <2>3. FillInv'
    BY <1>0, <1>6 DEF FillInv, vars
  <2> QED
    BY <2>1, <2>2, <2>3 DEF IInv
<1> QED
  BY <1>1, <1>2, <1>3, <1>4, <1>5, <1>6 DEF Next, Isr

(* Type correctness of the driver's pointers and of the threads that use them. *)
THEOREM TypeCorrect == Spec => []TypeOK
<1>1. IInv => TypeOK
  BY DEF IInv
<1> QED
  BY <1>1, InitIInv, StepIInv, PTL DEF Spec

(* ISR_handler finds the registers of its chip mapped, whenever it is called
   and whatever init_module fails at, as long as its code is there. *)
THEOREM IsrFindsRegistersHolds == Spec => []IsrFindsRegisters
<1>1. IInv => IsrFindsRegisters
  BY DEF IInv, IrqInv
<1> QED
  BY <1>1, InitIInv, StepIInv, PTL DEF Spec

-----------------------------------------------------------------------------
(* Processes that open in order. *)
LEMMA InitOInv == Init => OInv
<1> SUFFICES ASSUME Init PROVE OInv
  OBVIOUS
<1> USE ZeroIsAChip
<1>0. unitDev \in [Chips -> 0 .. Len(UnitStores)]
  BY Units DEF Init
<1>1. TypeOK
  BY <1>0 DEF Init, TypeOK
<1>2. ProgressInv
  BY DEF Init, ProgressInv, BeforeBars, AfterBars
<1>3. (\A p \in Procs : ProcInv(p)) /\ NoOops
  BY DEF Init, ProcInv, NoOops
<1> QED
  BY <1>1, <1>2, <1>3 DEF OInv

LEMMA InitModuleProgress ==
  ASSUME TypeOK, ProgressInv, NoOops, InitModule
  PROVE  ProgressInv' /\ NoOops'
<1> USE DEF ProgressInv, NoOops, BeforeBars, AfterBars, TypeOK
<1>1. CASE FindPciDevices
  BY <1>1, ZeroIsAChip DEF FindPciDevices, InitAt, InitReturns, isrVars, procVars, InitBound, Bars
<1>2. CASE AllocRegion
  BY <1>2, ZeroIsAChip DEF AllocRegion, pcieDevNum, InitAt, InitReturns, isrVars, procVars, InitBound, Bars
<1>3. CASE AddCharDev
  BY <1>3, ZeroIsAChip DEF AddCharDev, InitAt, InitReturns, isrVars, procVars, InitBound, Bars
<1>4. CASE ReadBar
  BY <1>4, ZeroIsAChip DEF ReadBar, InitAt, InitReturns, isrVars, procVars, InitBound, Bars
<1>5. CASE SetMaster
  BY <1>5, ZeroIsAChip DEF SetMaster, InitAt, InitReturns, isrVars, procVars, InitBound, Bars
<1>11. CASE SetInBound
  BY <1>11, ZeroIsAChip DEF SetInBound, UsesRegisters, InitAt, InitReturns, isrVars, procVars, InitBound, Bars
<1>12. CASE EnableDspInterrupt
  BY <1>12, ZeroIsAChip DEF EnableDspInterrupt, UsesRegisters, InitAt, InitReturns, isrVars, procVars, InitBound, Bars
<1>6. CASE RequestIrq
  BY <1>6, ZeroIsAChip DEF RequestIrq, InitAt, InitReturns, isrVars, procVars, InitBound, Bars
<1>7. CASE AllocUnit
  BY <1>7, ZeroIsAChip DEF AllocUnit, InitAt, InitReturns, isrVars, procVars, InitBound, Bars
<1>8. CASE FillUnit
  BY <1>8, ZeroIsAChip, Units DEF FillUnit, InitAt, InitReturns, isrVars, procVars, InitBound, Bars
<1>9. CASE BootSetsTable
  BY <1>9, ZeroIsAChip DEF BootSetsTable, InitAt, InitReturns, isrVars, procVars, InitBound, Bars
<1>10. CASE BootReturns
  BY <1>10, ZeroIsAChip DEF BootReturns, InitAt, InitReturns, isrVars, procVars, InitBound, Bars
<1> QED
  BY <1>1, <1>2, <1>3, <1>4, <1>5, <1>6, <1>7, <1>8, <1>9, <1>10, <1>11, <1>12 DEF InitModule

(* No process has a node open while init_module runs. *)
LEMMA InitModuleProc ==
  ASSUME ProgressInv, NEW p \in Procs, ProcInv(p), InitModule
  PROVE  ProcInv(p)'
<1>1. module = "loading" /\ UNCHANGED procVars
  BY DEF InitModule, FindPciDevices, AllocRegion, AddCharDev, ReadBar, SetMaster,
         SetInBound, EnableDspInterrupt, UsesRegisters, RequestIrq, AllocUnit, FillUnit, BootSetsTable, BootReturns, InitAt
<1> QED
  BY <1>1 DEF ProcInv, procVars

LEMMA UsesOrderly ==
  ASSUME OInv, NEW p \in Procs, Uses(p)
  PROVE  ProgressInv' /\ NoOops' /\ \A q \in Procs : ProcInv(q)'
<1>0. TypeOK /\ ProgressInv /\ NoOops /\ ProcInv(p) /\ \A q \in Procs : ProcInv(q)
  BY DEF OInv
<1>1. UNCHANGED <<initVars, enabled, orderly, minor, unit, found>>
  BY CommandSteps DEF Uses, OpenLinkLayer, OpenNoMemory, Fails, IoctlDown, Close, isrVars, procVars
<1>2. ProgressInv'
  BY <1>0, <1>1 DEF ProgressInv, initVars
<1>3. CASE OpenLinkLayer(p)
  <2>1. p \in orderly => UnitIsThere(p) /\ minor[p] = 0 /\ 0 \in table
    BY <1>0, <1>3, Units DEF OpenLinkLayer, ProcInv, ProgressInv, UnitIsThere
  <2>2. NoOops'
    BY <1>0, <1>3, <2>1 DEF OpenLinkLayer, NoOops, Blame
  <2>3. /\ at' = at \/ at' = [at EXCEPT ![p] = "open"]
        /\ p \in orderly => /\ at' = [at EXCEPT ![p] = "open"]
                            /\ handle' = [handle EXCEPT ![p] = "set"]
        /\ \A q \in Procs \ {p} : handle'[q] = handle[q] /\ at'[q] = at[q]
    BY <1>0, <1>3, <2>1 DEF OpenLinkLayer, Opened, TypeOK
  <2>4. at[p] # "closed"
    BY <1>3 DEF OpenLinkLayer
  <2>5. ASSUME NEW q \in Procs PROVE ProcInv(q)'
    <3>1. CASE q = p
      BY <1>0, <1>1, <2>3, <2>4, <3>1 DEF ProcInv, initVars, TypeOK
    <3>2. CASE q # p
      BY <1>0, <1>1, <2>3, <3>2 DEF ProcInv, initVars
    <3> QED
      BY <3>1, <3>2
  <2> QED
    BY <1>2, <2>2, <2>5
<1>4. CASE Fails(p, "type") \/ (Missing(p) /\ Fails(p, Blame(p)))
  <2>1. UNCHANGED procVars /\ at[p] = "open"
    BY <1>4 DEF Fails
  <2>2. p \in orderly => ~ Missing(p)
    BY <1>0, <2>1, ZeroIsAChip DEF ProcInv, ProgressInv, Bars, Missing
  <2>3. NoOops'
    BY <1>0, <1>4, <2>2 DEF Fails, Blame, NoOops
  <2>4. module' = module
    BY <1>1 DEF initVars
  <2>5. \A q \in Procs : ProcInv(q)'
    BY <1>0, <2>1, <2>4 DEF ProcInv, procVars
  <2> QED
    BY <1>2, <2>3, <2>5
<1>5. CASE IoctlDown(p)
  <2>1. /\ at[p] = "open" /\ at' = [at EXCEPT ![p] = "down"]
        /\ UNCHANGED <<module, orderly, minor, unit, found, handle, oops>>
    BY <1>5 DEF IoctlDown, initVars
  <2>2. \A q \in Procs : at'[q] = at[q] \/ (at[q] = "open" /\ at'[q] = "down")
    BY <1>0, <2>1 DEF TypeOK
  <2>3. \A q \in Procs : ProcInv(q)'
    BY <1>0, <2>1, <2>2 DEF ProcInv
  <2> QED
    BY <1>0, <1>2, <2>1, <2>3 DEF NoOops
<1>6. CASE Close(p) \/ OpenNoMemory(p)
  <2>1. /\ at' = [at EXCEPT ![p] = "closed"]
        /\ UNCHANGED <<module, orderly, minor, unit, found, handle, oops>>
    BY <1>6 DEF Close, OpenNoMemory, initVars
  <2>2. \A q \in Procs : at'[q] # "closed" => at'[q] = at[q]
    BY <1>0, <2>1 DEF TypeOK
  <2>3. \A q \in Procs : ProcInv(q)'
    BY <1>0, <2>1, <2>2 DEF ProcInv
  <2> QED
    BY <1>0, <1>2, <2>1, <2>3 DEF NoOops
<1>7. CASE Ioctl(p) \/ MmapTable(p)
  <2>1. IoctlDown(p) \/ Fails(p, "type") \/ (Missing(p) /\ Fails(p, Blame(p)))
    BY <1>7, CommandSteps
  <2> QED
    BY <1>4, <1>5, <2>1
<1> QED
  BY <1>3, <1>6, <1>7 DEF Uses

LEMMA OpenOrderly ==
  ASSUME OInv, NEW p \in Procs, NEW c \in Chips, NEW u \in Chips, OpenFindsUnit(p, c, u)
  PROVE  ProgressInv' /\ NoOops' /\ \A q \in Procs : ProcInv(q)'
<1>0. TypeOK /\ ProgressInv /\ NoOops /\ \A q \in Procs : ProcInv(q)
  BY DEF OInv
<1>1. UNCHANGED <<initVars, enabled, handle, oops>>
  BY DEF OpenFindsUnit, isrVars
<1>2. ProgressInv' /\ NoOops'
  BY <1>0, <1>1 DEF ProgressInv, NoOops, initVars
<1>3. c = 0
  <2>1. c \in charDev /\ charDev \subseteq {0}
    BY <1>0 DEF OpenFindsUnit, ProgressInv
  <2> QED
    BY <2>1
<1>4. p \in orderly' => /\ module = "live" /\ u = 0
                        /\ found' = [found EXCEPT ![p] = "set"]
  <2>1. module = "live" => unitDev[c] = 5
    BY <1>0, <1>3 DEF ProgressInv
  <2>2. p \in orderly' => module = "live" /\ u = c
    BY DEF OpenFindsUnit
  <2>3. found' = [found EXCEPT ![p] = IF unitDev[c] = 0 THEN "NULL" ELSE "set"]
    BY DEF OpenFindsUnit
  <2>4. unitDev[c] = 5 => found' = [found EXCEPT ![p] = "set"]
    BY <2>3
  <2> QED
    BY <1>3, <2>1, <2>2, <2>4
<1>5. /\ at' = [at EXCEPT ![p] = "opening"] /\ minor' = [minor EXCEPT ![p] = 0]
      /\ unit' = [unit EXCEPT ![p] = u]
      /\ \A q \in Procs \ {p} : found'[q] = found[q] /\ (q \in orderly' <=> q \in orderly)
  BY <1>0, <1>3 DEF OpenFindsUnit, TypeOK
<1>6. ProcInv(p)'
  BY <1>0, <1>1, <1>4, <1>5 DEF ProcInv, initVars, TypeOK
<1>7. ASSUME NEW q \in Procs, q # p PROVE ProcInv(q)'
  BY <1>0, <1>1, <1>5, <1>7 DEF ProcInv, initVars, TypeOK
<1> QED
  BY <1>2, <1>6, <1>7

(* When the module goes or comes no process that opened in order is inside. *)
LEMMA EndsOrderly ==
  ASSUME OInv, CleanupModule \/ FreedCode \/ Reload
  PROVE  ProgressInv' /\ NoOops' /\ \A q \in Procs : ProcInv(q)'
<1>0. TypeOK /\ ProgressInv /\ NoOops /\ \A q \in Procs : ProcInv(q)
  BY DEF OInv
<1>1. CASE CleanupModule
  BY <1>0, <1>1, ZeroIsAChip DEF CleanupModule, ProgressInv, ProcInv, NoOops, isrVars, procVars
<1>2. CASE FreedCode
  BY <1>0, <1>2 DEF FreedCode, ProgressInv, ProcInv, NoOops, initVars, isrVars, procVars
<1>3. CASE Reload
  <2>1. ProgressInv' /\ NoOops'
    BY <1>0, <1>3 DEF Reload, ProgressInv, NoOops, BeforeBars, AfterBars
  <2>2. ASSUME NEW q \in Procs PROVE ProcInv(q)'
    BY <1>0, <1>3, <2>2 DEF Reload, ProcInv
  <2> QED
    BY <2>1, <2>2
<1> QED
  BY <1>1, <1>2, <1>3

LEMMA IsrOrderly ==
  ASSUME OInv, NEW c \in Chips, IsrChecks(c) \/ IsrClears(c) \/ DspRaises(c)
  PROVE  ProgressInv' /\ NoOops' /\ \A q \in Procs : ProcInv(q)'
<1>0. ProgressInv /\ NoOops /\ \A q \in Procs : ProcInv(q)
  BY DEF OInv
<1>1. UNCHANGED <<initVars, enabled, procVars>>
  BY DEF IsrChecks, IsrClears, DspRaises
<1>2. NoOops'
  BY <1>0 DEF IsrChecks, CanCheckInterrupt, IsrClears, DspRaises, NoOops, ProgressInv, Bars
<1> QED
  BY <1>0, <1>1, <1>2 DEF ProgressInv, ProcInv, initVars, procVars

LEMMA StepOInv == OInv /\ [Next]_vars => OInv'
<1> SUFFICES ASSUME OInv, [Next]_vars PROVE OInv'
  OBVIOUS
<1>0. TypeOK /\ ProgressInv /\ NoOops /\ \A p \in Procs : ProcInv(p)
  BY DEF OInv
<1>1. CASE InitModule
  <2>1. \A p \in Procs : ProcInv(p)'
    BY <1>0, <1>1, InitModuleProc
  <2>2. FillInv
    BY <1>0 DEF FillInv, ProgressInv
  <2> QED
    BY <1>0, <1>1, <2>1, <2>2, InitModuleType, InitModuleProgress DEF OInv
<1>2. ASSUME NEW c \in Chips, IsrChecks(c) \/ IsrClears(c) \/ DspRaises(c)
      PROVE  OInv'
  BY <1>0, <1>2, IsrType, IsrOrderly DEF OInv
<1>3. ASSUME NEW p \in Procs, Uses(p)
      PROVE  OInv'
  BY <1>0, <1>3, UsesType, UsesOrderly DEF OInv
<1>4. ASSUME NEW p \in Procs, NEW c \in Chips, NEW u \in Chips, OpenFindsUnit(p, c, u)
      PROVE  OInv'
  BY <1>0, <1>4, OpenType, OpenOrderly DEF OInv
<1>5. CASE CleanupModule \/ FreedCode \/ Reload
  BY <1>0, <1>5, EndsType, EndsOrderly DEF OInv
<1>6. CASE UNCHANGED vars
  <2>1. TypeOK'
    BY <1>0, <1>6, StutterType
  <2>2. ProgressInv' /\ NoOops' /\ \A p \in Procs : ProcInv(p)'
    BY <1>0, <1>6 DEF ProgressInv, ProcInv, NoOops, vars
  <2> QED
    BY <2>1, <2>2 DEF OInv
<1> QED
  BY <1>1, <1>2, <1>3, <1>4, <1>5, <1>6 DEF Next, Isr

(* Neither init_module nor a process that opened in order uses a pointer that is
   not set, whatever init_module fails at, whoever else opens what and when, and
   however often the module is loaded. *)
THEOREM NoOopsHolds == Spec => []NoOops
<1>1. OInv => NoOops
  BY DEF OInv
<1> QED
  BY <1>1, InitOInv, StepOInv, PTL DEF Spec

(* A process that has the device open in order talks to a DSP that this load
   booted and that may interrupt the host, through the register table bootLoader
   set. *)
THEOREM OpenMeansBootedHolds == Spec => []OpenMeansBooted
<1>1. OInv => OpenMeansBooted
  BY DEF OInv, OpenMeansBooted, ProcInv, ProgressInv, TypeOK
<1> QED
  BY <1>1, InitOInv, StepOInv, PTL DEF Spec
=============================================================================
