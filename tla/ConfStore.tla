------------------------------- MODULE ConfStore ------------------------------
(***************************************************************************)
(* What the configuration promises its users.  In the store one key        *)
(* changes at a time, and as a whole, wherever the power fails: to what    *)
(* the user gave for it, or to its default if there was nothing usable.    *)
(* What is in use after a boot is what the store holds then.               *)
(***************************************************************************)
CONSTANTS Keys, Settable,   \* the keys, and those the user may set
          Live,             \* those whose new value is used at once
          Given, Usable,    \* what the user may give, and what can be used
          Default

VARIABLES store,   \* what a loss of power leaves
          up,      \* the configuration is loaded
          inUse

Defaults == [k \in Keys |-> Default]
Effective(s) == [k \in Keys |-> IF s[k] \in Usable THEN s[k] ELSE Default]

StoreInit == up = FALSE /\ inUse = Defaults

SetByUser ==
  up /\ \E k \in Settable : \E v \in Given : store' = [store EXCEPT ![k] = v]
Repair ==
  /\ ~up
  /\ \E k \in Keys : store[k] \notin Usable /\ store' = [store EXCEPT ![k] = Default]

Write == (SetByUser \/ Repair) /\ UNCHANGED <<up, inUse>>
Apply ==
  /\ up /\ UNCHANGED <<store, up>>
  /\ \E k \in Live : store[k] \in Usable /\ inUse' = [inUse EXCEPT ![k] = store[k]]
Load == ~up /\ up' = TRUE /\ inUse' = Effective(store') /\ (Repair \/ UNCHANGED store)
Crash == up' = FALSE /\ inUse' = Defaults /\ (SetByUser \/ Repair \/ UNCHANGED store)

StoreNext == Write \/ Apply \/ Load \/ Crash

StoreSpec == StoreInit /\ [][StoreNext]_<<store, up, inUse>>
===============================================================================
