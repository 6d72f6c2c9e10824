----------------------------- MODULE DspMemory ------------------------------
(***************************************************************************)
(* The memory of a DSP as the code addresses it (src/inc/DPURegs.h).       *)
(* Addresses count words of 4 bytes: 0x80000000 is 2^29 here.              *)
(***************************************************************************)
EXTENDS Integers

LL2_START  == 2097152     \* 0x00800000: L2, as each core sees its own
MSMC_START == 50331648    \* 0x0C000000: memory shared by the cores
DDR_START  == 536870912   \* 0x80000000
MAGIC_ADDR == 2228223     \* 0x0087FFFC: the last word of L2
Segment    == 4194304     \* 16 MB: what the upper byte of an address counts
PCIE_BASE_ADDRESS == 140509184  \* 0x21800000: the PCIe registers

BLOCK_TRANSFER_SIZE == 256

(* What the BARs lead to, and how far (PCI_setInBound, PCI_readBAR). *)
GlobalL2 == LL2_START + 67108864   \* + (1 << 28): core 0's L2, for everyone
RegWords  == 1024
L2Words   == 131072
MsmcWords == 1048576
DdrWords  == 4194304

(* The page of 4096 bytes an address lies in. *)
Page(addr) == addr \div 1024
=============================================================================
