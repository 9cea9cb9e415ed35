------------------------------ MODULE KeyReports ------------------------------
(***************************************************************************)
(* What the rotary encoder promises the user interface about its push      *)
(* button (rot_enc.h 41-53): a key that is down is reported as pressed for *)
(* a short, a long and a very long time, in this order, and it may come up *)
(* at any moment.                                                          *)
(***************************************************************************)
VARIABLE told  \* the last key message to the user interface

Stages == {"up", "down", "short", "long", "longlong"}

KeyInit == told = "up"

KeyUp == told' = "up"
KeyDown == told = "up" /\ told' = "down"
Short == told = "down" /\ told' = "short"
Long == told = "short" /\ told' = "long"
LongLong == told = "long" /\ told' = "longlong"

KeyNext == KeyUp \/ KeyDown \/ Short \/ Long \/ LongLong

KeySpec == KeyInit /\ [][KeyNext]_told
===============================================================================
