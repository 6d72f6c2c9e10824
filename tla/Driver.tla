------------------------------- MODULE Driver -------------------------------
(***************************************************************************)
(* The life of the driver: src/src/entry.c with the parts of pcie.c,       *)
(* bootLoader.c and LinkLayer.c it calls.                                  *)
(*                                                                         *)
(* Three kinds of threads run it at once: the one that loads and unloads   *)
(* the module, the processes that open a device node and issue ioctl       *)
(* commands, and the interrupt handler, whose line is shared with other    *)
(* devices and may run as soon as it is requested.  The module follows     *)
(* which pointers each of them finds set.                                  *)
(*                                                                         *)
(* bootLoader() is reduced to the pointer it sets and the results it can   *)
(* return; BootStart and BootLoader have the rest.                         *)
(***************************************************************************)
EXTENDS Integers, Sequences

CONSTANTS
  PciDevCount,  \* endpoints on the bus
  Procs         \* processes

ASSUME DriverAssumption == PciDevCount \in 1 .. 4

Chips == 0 .. PciDevCount - 1
Bars  == {"reg", "mem", "msmc", "ddr"}

(* pcieDevNum, once PCI_FindPciDevices has counted. *)
pcieDevNum == [minor_first |-> 0, count |-> PciDevCount]

(* The legacy interrupts of the DSP, each with its own enable register. *)
LegacyIrqs == {"A", "B"}

(* The memory of a ProcessorUnitDev_t, which the pointer is set to, and its
   fields, in the order init_module stores them. *)
UnitStores == <<"memory", "devMinor", "pCharDev", "pPciBarReg", "pPciDev">>

(* LINKLAYER_IO_TYPE, and those LinkLayer_WaitBufferReady knows. *)
IoTypes ==
  {"RESERVER", "WRITE_RESET", "WRITE_QRESET", "WRITE_FIN", "WRITE_QFIN",
   "READ_RESET", "READ_QRESET", "READ_FIN", "READ_QFIN"}
WaitTypes == {"WRITE_QRESET", "WRITE_QFIN", "READ_QRESET", "READ_QFIN"}

(* What a wait is asked for: of DPUDriver_WaitBufferReadyParam, the type. *)
WaitParams == [waitType : IoTypes]

(* The commands of DPU_ioctl.  Those that are compiled out end where an unknown
   command does, which returns 0. *)
IgnoredCommands == {"CONFIRM", "CHECKDPMALLOVER"}
Commands ==
  {"WAITBUFFERREADY", "CHANGEBUFFERSTATUS", "INTERRUPT", "WAITDPM", "WRITE_TIMEOUT",
   "READ_TIMEOUT", "WAITDPMSTART", "CHANGEREG", "CHANGOVERREG"} \cup IgnoredCommands

VARIABLES
  module,     \* "loading", "live", or "gone": unloaded, or refused by the kernel
  initPc,     \* where init_module is
  chipIndex,  \* its loop variable
  retValue,   \* its result so far
  barReg,     \* g_pPcieBarReg[c]: NULL until allocated
  mapped,     \* the BARs of g_pPcieBarReg[c] that are mapped
  charDev,    \* chips whose character device is registered
  irq,        \* chips whose interrupt is requested
  unitDev,    \* g_pProcessorUnitDev[c]: how many of UnitStores are made, 0 while NULL
  table,      \* gpRegisterTable[c]: NULL or set
  booted,     \* history: chips for which bootLoader returned 0
  enabled,    \* the interrupts each DSP may raise; nothing disables them again
  isr,        \* the handler of each chip: "idle" or "checked"
  pending,    \* the interrupt of each DSP
  left,       \* an earlier load left something registered that leads into its code
  at,         \* each process: "closed", "opening", "open" or "down", or "stale": it
              \* has a device of an earlier load open
  orderly,    \* history: processes whose last open came after insmod had succeeded
              \* and used the node that belongs to the chip
  minor,      \* the device it opened
  unit,       \* the number in the name of the node it opened, chipUnit%d
  found,      \* what DPU_open found in g_pProcessorUnitDev
  handle,     \* pRegisterTable of its handle, read once at open
  oops        \* "none", or who used a pointer that is not set: init_module, a
              \* process that opened in order or one that did not, a process that
              \* waits with an unknown type, the handler, or code that is gone

initVars == <<module, initPc, chipIndex, retValue, barReg, mapped, charDev, irq,
              unitDev, table, booted, left>>
isrVars  == <<enabled, isr, pending>>
procVars == <<at, orderly, minor, unit, found, handle>>
vars == <<module, initPc, chipIndex, retValue, barReg, mapped, charDev, irq, unitDev,
          table, booted, left, enabled, isr, pending, at, orderly, minor, unit, found, handle, oops>>

Init ==
  /\ module = "loading" /\ initPc = "find" /\ chipIndex = 0 /\ retValue = 0
  /\ barReg = {} /\ mapped = [c \in Chips |-> {}]
  /\ charDev = {} /\ irq = {}
  /\ unitDev = [c \in Chips |-> 0] /\ table = {} /\ booted = {} /\ left = FALSE
  /\ enabled = [c \in Chips |-> {}]
  /\ isr = [c \in Chips |-> "idle"] /\ pending = [c \in Chips |-> FALSE]
  /\ at = [p \in Procs |-> "closed"] /\ orderly = {}
  /\ minor = [p \in Procs |-> 0] /\ unit = [p \in Procs |-> 0]
  /\ found = [p \in Procs |-> "NULL"] /\ handle = [p \in Procs |-> "NULL"]
  /\ oops = "none"

-----------------------------------------------------------------------------
(* init_module. *)

InitAt(here) == module = "loading" /\ initPc = here /\ oops = "none"

(* A return with an error: the kernel discards the module; nothing that was
   registered is taken back. *)
InitReturns(rv) ==
  /\ retValue' = rv
  /\ initPc' = "returned"
  /\ module' = IF rv = 0 THEN "live" ELSE "gone"

(* PCI_FindPciDevices finds the endpoints, or none. *)
FindPciDevices ==
  /\ InitAt("find")
  /\ \/ InitReturns(-1) /\ UNCHANGED barReg
     \/ /\ initPc' = "region"
        /\ barReg' = Chips
        /\ UNCHANGED <<module, retValue>>
  /\ UNCHANGED <<chipIndex, mapped, charDev, irq, unitDev, table, booted, left, isrVars, procVars, oops>>

(* alloc_chrdev_region, and the start of the loop over the chips. *)
AllocRegion ==
  /\ InitAt("region")
  /\ \/ InitReturns(-1) /\ UNCHANGED chipIndex
     \/ /\ chipIndex' = pcieDevNum.minor_first
        /\ initPc' = "cdev"
        /\ UNCHANGED <<module, retValue>>
  /\ UNCHANGED <<barReg, mapped, charDev, irq, unitDev, table, booted,
                 left, isrVars, procVars, oops>>

(* Fault: the interrupt is requested along with the character device. *)
AddCharDevAndIrq ==
  /\ InitAt("cdev")
  /\ charDev' = charDev \cup {chipIndex}
  /\ irq' = irq \cup {chipIndex}
  /\ initPc' = "bar"
  /\ UNCHANGED <<module, chipIndex, retValue, barReg, mapped, unitDev, table, booted,
                 left, isrVars, procVars, oops>>

(* cdev_alloc, cdev_init, cdev_add: from here on the device can be opened. *)
AddCharDev ==
  /\ InitAt("cdev")
  /\ charDev' = charDev \cup {chipIndex}
  /\ initPc' = "bar"
  /\ UNCHANGED <<module, chipIndex, retValue, barReg, mapped, irq, unitDev, table, booted,
                 left, isrVars, procVars, oops>>

(* Fault: the result of PCI_readBAR is not looked at. *)
ReadBarUnchecked ==
  /\ InitAt("bar")
  /\ \E present \in SUBSET Bars : mapped' = [mapped EXCEPT ![chipIndex] = present]
  /\ initPc' = "enable"
  /\ UNCHANGED <<module, chipIndex, retValue, barReg, charDev, irq, unitDev, table, booted,
                 left, isrVars, procVars, oops>>

(* PCI_readBAR maps the BARs that are present; -1 to -4 names the last one that
   is not. *)
ReadBar ==
  /\ InitAt("bar")
  /\ \E present \in SUBSET Bars :
       /\ mapped' = [mapped EXCEPT ![chipIndex] = present]
       /\ \/ /\ present = Bars
             /\ initPc' = "enable"
             /\ UNCHANGED <<module, retValue>>
          \/ /\ "ddr" \notin present /\ InitReturns(-4)
          \/ /\ "ddr" \in present /\ "msmc" \notin present /\ InitReturns(-3)
          \/ /\ {"ddr", "msmc"} \subseteq present /\ "mem" \notin present /\ InitReturns(-2)
          \/ /\ present = Bars \ {"reg"} /\ InitReturns(-1)
  /\ UNCHANGED <<chipIndex, barReg, charDev, irq, unitDev, table, booted, left, isrVars, procVars, oops>>

(* PCI_setMaster may fail; its result is overwritten. *)
SetMaster ==
  /\ InitAt("enable")
  /\ retValue' \in {0, -1}
  /\ initPc' = "inbound"
  /\ UNCHANGED <<module, chipIndex, barReg, mapped, charDev, irq, unitDev, table, booted,
                 left, isrVars, procVars, oops>>

(* A step of init_module that uses the registers of BAR 0. *)
UsesRegisters(next) ==
  /\ IF "reg" \in mapped[chipIndex]
     THEN initPc' = next /\ UNCHANGED oops
     ELSE oops' = "init" /\ UNCHANGED initPc
  /\ UNCHANGED <<module, chipIndex, retValue, barReg, mapped, charDev, irq, unitDev, table,
                 booted, left, isr, pending, procVars>>

(* What the registers are set to is in BootStart. *)
SetInBound == InitAt("inbound") /\ UsesRegisters("dspirq") /\ UNCHANGED enabled

EnableDspInterrupt ==
  /\ InitAt("dspirq") /\ UsesRegisters("irq")
  /\ enabled' = IF "reg" \in mapped[chipIndex]
                THEN [enabled EXCEPT ![chipIndex] = @ \cup LegacyIrqs] ELSE enabled

(* request_irq, whose result is not looked at. *)
RequestIrq ==
  /\ InitAt("irq")
  /\ irq' \in {irq, irq \cup {chipIndex}}
  /\ initPc' = "unit"
  /\ UNCHANGED <<module, chipIndex, retValue, barReg, mapped, charDev, unitDev, table, booted,
                 left, isrVars, procVars, oops>>

(* The pointer is set first, to zeroed memory, ... *)
AllocUnit ==
  /\ InitAt("unit")
  /\ unitDev' = [unitDev EXCEPT ![chipIndex] = 1]
  /\ initPc' = "fill"
  /\ UNCHANGED <<module, chipIndex, retValue, barReg, mapped, charDev, irq, table, booted,
                 left, isrVars, procVars, oops>>

(* ... then what it points to, field by field. *)
FillUnit ==
  /\ InitAt("fill")
  /\ unitDev' = [unitDev EXCEPT ![chipIndex] = @ + 1]
  /\ initPc' = IF unitDev[chipIndex] + 1 = Len(UnitStores) THEN "table" ELSE "fill"
  /\ UNCHANGED <<module, chipIndex, retValue, barReg, mapped, charDev, irq, table, booted,
                 left, isrVars, procVars, oops>>

(* bootLoader() sets gpRegisterTable, ... *)
BootSetsTable ==
  /\ InitAt("table")
  /\ table' = table \cup {chipIndex}
  /\ initPc' = "boot"
  /\ UNCHANGED <<module, chipIndex, retValue, barReg, mapped, charDev, irq, unitDev, booted,
                 left, isrVars, procVars, oops>>

(* Faults: a loop over the chips that runs once too often, and the one over all
   of them that is commented out. *)
InitBoundTooFar == pcieDevNum.count + 1
InitBoundAll == pcieDevNum.count

(* for (chipIndex = pcieDevNum.minor_first; chipIndex < 1; chipIndex++) *)
InitBound == 1

(* ... and returns.  A failure goes on with the next chip; init_module returns
   the result for the last one. *)
BootReturns ==
  /\ InitAt("boot")
  /\ \E rv \in {0, -2, -4} :
       /\ booted' = IF rv = 0 THEN booted \cup {chipIndex} ELSE booted
       /\ IF chipIndex + 1 < InitBound
          THEN /\ chipIndex' = chipIndex + 1
               /\ retValue' = rv /\ initPc' = "cdev" /\ UNCHANGED module
          ELSE InitReturns(rv) /\ UNCHANGED chipIndex
  /\ UNCHANGED <<barReg, mapped, charDev, irq, unitDev, table, left, isrVars, procVars, oops>>

InitModule ==
  \/ FindPciDevices \/ AllocRegion \/ AddCharDev \/ ReadBar
  \/ SetMaster \/ SetInBound \/ EnableDspInterrupt \/ RequestIrq
  \/ AllocUnit \/ FillUnit \/ BootSetsTable \/ BootReturns

(* rmmod: cleanup_module does nothing.  The kernel refuses it while a process
   has the device open. *)
CleanupModule ==
  /\ module = "live" /\ oops = "none"
  /\ \A p \in Procs : at[p] \in {"closed", "stale"}
  /\ module' = "gone"
  /\ UNCHANGED <<initPc, chipIndex, retValue, barReg, mapped, charDev, irq, unitDev, table,
                 booted, left, isrVars, procVars, oops>>

(* Another insmod: the variables of the module are fresh, what the last load
   registered stays, and so do the processes that were inside when it failed. *)
Reload ==
  /\ module = "gone" /\ oops = "none"
  /\ module' = "loading" /\ initPc' = "find" /\ chipIndex' = 0 /\ retValue' = 0
  /\ barReg' = {} /\ mapped' = [c \in Chips |-> {}]
  /\ charDev' = {} /\ irq' = {}
  /\ unitDev' = [c \in Chips |-> 0] /\ table' = {} /\ booted' = {}
  /\ left' = (left \/ charDev # {} \/ irq # {})
  /\ isr' = [c \in Chips |-> "idle"]
  /\ at' = [p \in Procs |-> IF at[p] = "closed" THEN "closed" ELSE "stale"]
  /\ UNCHANGED <<enabled, pending, orderly, minor, unit, found, handle, oops>>

-----------------------------------------------------------------------------
(* The processes. *)

Running == module # "gone" /\ oops = "none"

(* DPU_open reads g_pProcessorUnitDev of the minor number, ... *)
OpenFindsUnit(p, c, u) ==
  /\ at[p] = "closed" /\ Running
  /\ c \in charDev
  /\ minor' = [minor EXCEPT ![p] = c]
  /\ unit' = [unit EXCEPT ![p] = u]
  /\ found' = [found EXCEPT ![p] = IF unitDev[c] = 0 THEN "NULL" ELSE "set"]
  /\ at' = [at EXCEPT ![p] = "opening"]
  /\ orderly' = IF module = "live" /\ u = c THEN orderly \cup {p} ELSE orderly \ {p}
  /\ UNCHANGED <<initVars, isrVars, handle, oops>>

(* ... kmalloc finds no room for a handle, ... *)
OpenNoMemory(p) ==
  /\ at[p] = "opening" /\ Running
  /\ at' = [at EXCEPT ![p] = "closed"]
  /\ UNCHANGED <<initVars, isrVars, orderly, minor, unit, found, handle, oops>>

Blame(p) == IF p \in orderly THEN "orderly" ELSE "early"

(* LinkLayer_Open finds the memory, and in it the pointer to the BARs, which it
   follows to BAR 0. *)
UnitIsThere(p) ==
  found[p] = "set" /\ \E k \in 1 .. unitDev[minor[p]] : UnitStores[k] = "pPciBarReg"

(* ... or it gets one, which is the process's from here on. *)
Opened(p, registerTable) ==
  /\ handle' = [handle EXCEPT ![p] = registerTable]
  /\ at' = [at EXCEPT ![p] = "open"]

(* LinkLayer_Open reads gpRegisterTable. *)
OpenLinkLayer(p) ==
  /\ at[p] = "opening" /\ Running
  /\ \/ /\ UnitIsThere(p)
        /\ Opened(p, IF minor[p] \in table THEN "set" ELSE "NULL")
        /\ UNCHANGED oops
     \/ /\ ~ UnitIsThere(p)
        /\ oops' = Blame(p) /\ UNCHANGED <<handle, at>>
  /\ UNCHANGED <<initVars, isrVars, orderly, minor, unit, found>>

(* Commands that find all they use leave the state alone and are no steps. *)
Fails(p, who) ==
  /\ at[p] = "open" /\ Running
  /\ oops' = who
  /\ UNCHANGED <<initVars, isrVars, procVars>>

(* The waits poll a register of the table; the address of the register is NULL
   if LinkLayer_WaitBufferReady does not know the type. *)
IoctlWait(p, param) ==
  \/ param.waitType \in WaitTypes /\ handle[p] = "NULL" /\ Fails(p, Blame(p))
  \/ param.waitType \notin WaitTypes /\ Fails(p, "type")

(* The stores go to the table the handle has; an unknown type stores nothing. *)
IoctlChange(p) == handle[p] = "NULL" /\ Fails(p, Blame(p))

(* DPU_IO_CMD_INTERRUPT takes the chip from the name of the node. *)
IoctlInterrupt(p) ==
  /\ unit[p] \notin barReg \/ "reg" \notin mapped[unit[p]]
  /\ Fails(p, Blame(p))

(* down() on a semaphore initialised to 0. *)
IoctlDown(p) ==
  /\ at[p] = "open" /\ Running
  /\ at' = [at EXCEPT ![p] = "down"]
  /\ UNCHANGED <<initVars, isrVars, orderly, minor, unit, found, handle, oops>>

(* DPU_ioctl. *)
Ioctl(p) ==
  \E cmd \in Commands \ IgnoredCommands :
    \/ /\ cmd \in {"WAITBUFFERREADY", "WAITDPMSTART"}
       /\ \E param \in WaitParams : IoctlWait(p, param)
    \/ cmd \in {"CHANGEBUFFERSTATUS", "CHANGEREG", "CHANGOVERREG"} /\ IoctlChange(p)
    \/ cmd = "INTERRUPT" /\ IoctlInterrupt(p)
    \/ cmd \in {"WAITDPM", "WRITE_TIMEOUT", "READ_TIMEOUT"} /\ IoctlDown(p)

(* DPU_mmap takes the page of the table for one to map, also of none. *)
MmapTable(p) == handle[p] = "NULL" /\ Fails(p, Blame(p))

Close(p) ==
  /\ at[p] = "open" /\ Running
  /\ at' = [at EXCEPT ![p] = "closed"]
  /\ UNCHANGED <<initVars, isrVars, orderly, minor, unit, found, handle, oops>>

-----------------------------------------------------------------------------
(* Interrupts. *)

(* The DSP raises its interrupt (external). *)
DspRaises(c) ==
  /\ c \in booted /\ enabled[c] # {} /\ oops = "none"
  /\ pending' = [pending EXCEPT ![c] = TRUE]
  /\ UNCHANGED <<initVars, enabled, isr, procVars, oops>>

(* HAL_CheckPciInterrupt needs the registers of BAR 0 to read EP_IRQ_STATUS, ... *)
CanCheckInterrupt(c) == "reg" \in mapped[c]

(* ... and PCI_ClearDspInterrupt clears what it found, and what came since. *)
ClearDspInterrupt(c) == pending' = [pending EXCEPT ![c] = FALSE]

(* The line is shared: the handler may be called at any time.  It reads the
   status, which it only prints, ... *)
IsrChecks(c) ==
  /\ c \in irq /\ isr[c] = "idle" /\ Running
  /\ IF CanCheckInterrupt(c)
     THEN isr' = [isr EXCEPT ![c] = "checked"] /\ UNCHANGED oops
     ELSE oops' = "isr" /\ UNCHANGED isr
  /\ UNCHANGED <<initVars, enabled, pending, procVars>>

(* ... and clears it, whatever it was.  Nothing is woken: the call of
   LinkLayer_CheckStatus is compiled out. *)
IsrClears(c) ==
  /\ isr[c] = "checked" /\ Running
  /\ ClearDspInterrupt(c)
  /\ isr' = [isr EXCEPT ![c] = "idle"]
  /\ UNCHANGED <<initVars, enabled, procVars, oops>>

Isr == \E c \in Chips : IsrChecks(c) \/ IsrClears(c)

(* What a load left registered leads into code that is gone: an open, a process
   that was inside, or an interrupt. *)
FreedCode ==
  /\ oops = "none"
  /\ \/ module = "gone" /\ (charDev # {} \/ irq # {})
     \/ left
  /\ oops' = "freed code"
  /\ UNCHANGED <<initVars, isrVars, procVars>>

-----------------------------------------------------------------------------
Uses(p) == OpenLinkLayer(p) \/ OpenNoMemory(p) \/ Ioctl(p) \/ MmapTable(p) \/ Close(p)

(* Processes may open any node at any time. *)
Next ==
  \/ InitModule \/ CleanupModule \/ Reload \/ Isr \/ FreedCode
  \/ \E c \in Chips : DspRaises(c)
  \/ \E p \in Procs : Uses(p) \/ \E c, u \in Chips : OpenFindsUnit(p, c, u)
Spec == Init /\ [][Next]_vars

(* One load that is not undone, and nodes that are opened after it succeeded,
   each by the name that belongs to its minor number. *)
OrderlyNext ==
  \/ InitModule \/ Isr
  \/ \E c \in Chips : DspRaises(c)
  \/ \E p \in Procs :
       \/ Uses(p)
       \/ module = "live" /\ \E c \in Chips : OpenFindsUnit(p, c, c)
OrderlySpec == Init /\ [][OrderlyNext]_vars

(* The DSP raises its interrupt again and again and the handler is called. *)
FairSpec ==
  /\ OrderlySpec
  /\ WF_vars(InitModule)
  /\ \A c \in Chips : WF_vars(DspRaises(c)) /\ WF_vars(IsrChecks(c)) /\ WF_vars(IsrClears(c))
  /\ \A p \in Procs : WF_vars(Uses(p))

-----------------------------------------------------------------------------
(* Properties. *)

TypeOK ==
  /\ module \in {"loading", "live", "gone"}
  /\ initPc \in {"find", "region", "cdev", "bar", "enable", "inbound", "dspirq", "irq",
                 "unit", "fill", "table", "boot", "returned"}
  /\ chipIndex \in Chips
  /\ retValue \in {0, -1, -2, -3, -4}
  /\ barReg \subseteq Chips /\ charDev \subseteq Chips /\ irq \subseteq Chips
  /\ table \subseteq Chips /\ booted \subseteq Chips
  /\ mapped \in [Chips -> SUBSET Bars]
  /\ unitDev \in [Chips -> 0 .. Len(UnitStores)]
  /\ enabled \in [Chips -> SUBSET LegacyIrqs]
  /\ isr \in [Chips -> {"idle", "checked"}]
  /\ pending \in [Chips -> BOOLEAN]
  /\ left \in BOOLEAN
  /\ at \in [Procs -> {"closed", "opening", "open", "down", "stale"}]
  /\ orderly \subseteq Procs
  /\ minor \in [Procs -> Chips] /\ unit \in [Procs -> Chips]
  /\ found \in [Procs -> {"NULL", "set"}] /\ handle \in [Procs -> {"NULL", "set"}]
  /\ oops \in {"none", "init", "orderly", "early", "type", "isr", "freed code"}

(* The handler, which a shared line may call as soon as it is requested, finds
   the registers mapped as long as its code is there. *)
IsrFindsRegisters == oops # "isr"

(* Neither init_module nor a process that opened in order uses a pointer that is
   not set, whatever init_module finds missing, whatever other processes open too
   early or by the wrong name, and however often the module is loaded again. *)
NoOops == oops \notin {"init", "orderly"}

(* A process that opened in order talks to a DSP that this load booted and that
   may interrupt the host, through a register table that is there, and the module
   stays while it does. *)
OpenMeansBooted ==
  \A p \in orderly :
    at[p] \in {"open", "down"} =>
      /\ module = "live" /\ handle[p] = "set"
      /\ minor[p] \in booted /\ enabled[minor[p]] = LegacyIrqs

(* entry.c:598, "poll write timeout,we start to use interrupt for pc": a
   process that turned to the interrupt is woken when the DSP keeps raising
   it.  The run Driver_interrupt shows that it is not. *)
InterruptWakes == \A p \in Procs : at[p] = "down" ~> at[p] # "down"
=============================================================================
