------------------------------- MODULE Devices -------------------------------
(* Memory and devices of the simulator (paddr.cpp, device/): what one access  *)
(* of the simulated core or of the debugger does.  Addresses are small        *)
(* numbers; a device answers at an interval of them.                          *)
EXTENDS Integers, FiniteSets

CONSTANTS PMem,         \* addresses of memory
          Devs,         \* the registered devices: "serial", "rtc", "keyboard"
          Low, High     \* of each of them, first and last address

in_pmem(addr) == addr \in PMem

map_inside(d, addr) == Low[d] <= addr /\ addr <= High[d]

(* add_mmio_map panics for an interval that touches memory or another device. *)
add_mmio_map_accepts(d, before) ==
    /\ Low[d] \notin PMem /\ High[d] \notin PMem
    /\ \A e \in before : High[d] < Low[e] \/ High[e] < Low[d]

(* find_mapid_by_addr; finding a device tells difftest to skip an instruction.*)
Mapped(addr) == {d \in Devs : map_inside(d, addr)}

(* The handlers' assertions: what a device lets through.                      *)
serial_io_handler(offset, len, is_write)    == len = 1 /\ offset = 0 /\ is_write
rtc_io_handler(offset, len, is_write)       == offset \in {0, 4}
i8042_data_io_handler(offset, len, is_write) == ~is_write /\ offset = 0

Handled(d, offset, len, is_write) ==
    CASE d = "serial"   -> serial_io_handler(offset, len, is_write)
      [] d = "rtc"      -> rtc_io_handler(offset, len, is_write)
      [] d = "keyboard" -> i8042_data_io_handler(offset, len, is_write)

(* map_read and map_write behind pmem_r and pmem_w.                           *)
Survives(addr, len, is_write) ==
    in_pmem(addr) \/ \E d \in Mapped(addr) : Handled(d, addr - Low[d], len, is_write)

RaisesSkip(addr) == ~in_pmem(addr) /\ Mapped(addr) # {}

(* The debugger's "x words addr": words of four bytes, one behind another.    *)
Scanned(addr, words) == {addr + 4 * k : k \in 0 .. words - 1}
ScanSurvives(addr, words) == \A a \in Scanned(addr, words) : Survives(a, 4, FALSE)
ScanRaisesSkip(addr, words) == \E a \in Scanned(addr, words) : RaisesSkip(a)
==============================================================================
