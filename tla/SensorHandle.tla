---------------------------- MODULE SensorHandle ----------------------------
(***************************************************************************)
(* Sensor handles of the multi-HAL (src/sensors/HalProxy.cpp): a signed    *)
(* integer whose upper bits hold the index of the sub-HAL and whose lower  *)
(* bits hold the handle the sub-HAL itself uses.                           *)
(***************************************************************************)
EXTENDS Integers

CONSTANTS
  LocalSize,    \* how many local handles there are, 2^kBitsAfterSubHalIndex = 2^24
  IndexSize     \* how many values the bits of the sub-HAL index have, 2^8

ASSUME SizesAssumption ==
  /\ LocalSize \in Nat \ {0}
  /\ IndexSize \in Nat \ {0} /\ IndexSize % 2 = 0

HandleSize == IndexSize * LocalSize

Handles == -(HandleSize \div 2) .. (HandleSize \div 2 - 1)
LocalHandles == 0 .. (LocalSize - 1)

(* a handle of the width of int32_t *)
Wrapped(n) == ((n + HandleSize \div 2) % HandleSize) - HandleSize \div 2

(* the bitwise or of the shifted index, for a handle whose index is clear *)
MutantSetSubHalIndex(h, i) == h + i * HandleSize    \* shifted too far
SetSubHalIndex(h, i) == Wrapped(h + i * LocalSize)

(* an arithmetic shift, and a conversion to an unsigned type *)
ExtractSubHalIndex(h) ==
  LET i == h \div LocalSize IN IF i < 0 THEN i + HandleSize ELSE i

ClearSubHalIndex(h) == h % LocalSize

SubHalIndexIsClear(h) == h \in LocalHandles
=============================================================================
