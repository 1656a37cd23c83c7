--------------------------- MODULE FrameAddresses ---------------------------
(***************************************************************************)
(* One integer names a cell of any storage area of the stack machine.      *)
(* Addresses from 0 up are cells of the global memory.  The negative ones  *)
(* are frame slots: FrameBase..-1 slots of the running frame, and below    *)
(* FrameBase bands of LevelStride addresses, one per lexical level, for    *)
(* the frame the display holds at that level.  The generator encodes and   *)
(* the executor decodes.                                                   *)
(***************************************************************************)
EXTENDS Integers

CONSTANTS FrameBase,      \* IC_FRAME_ADDRESS_BASE
          LevelStride,    \* IC_FRAME_ADDRESS_LEVEL_STRIDE
          MaxDisplay      \* STACK_MACHINE_MAX_DISPLAY

ASSUME FrameAddressAssumption ==
    /\ FrameBase \in Int /\ FrameBase < 0
    /\ LevelStride \in Nat \ {0}
    /\ MaxDisplay \in Nat /\ MaxDisplay > 1

Levels == 1..(MaxDisplay - 1)      \* the lexical levels that have a frame

\* The lexical level decodeFrameAddress gives to an address of FrameBase..-1.
RunningFrame == -1

FrameAddress(level, offset) == FrameBase - level * LevelStride + offset

LevelOf(address) == (FrameBase - address + LevelStride - 1) \div LevelStride

IsFrameAddress(address) ==
    \/ FrameBase <= address /\ address < 0
    \/ address < FrameBase /\ LevelOf(address) \in Levels

DecodedLevel(address) ==
    IF FrameBase <= address THEN RunningFrame ELSE LevelOf(address)

DecodedOffset(address) ==
    IF FrameBase <= address
    THEN address - FrameBase
    ELSE LevelOf(address) * LevelStride - (FrameBase - address)
=============================================================================
