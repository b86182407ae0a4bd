----------------------------- MODULE MCPlatform -----------------------------
(* The platform driver for TLC: devices and threads are interchangeable.    *)
EXTENDS PlatformDriver, TLC

DeviceSymmetry == Permutations(Devices) \cup Permutations(Workers)
=============================================================================
