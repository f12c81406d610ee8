---------------------------- MODULE SecretVault ----------------------------
(***************************************************************************)
(* What the store of a supplier's secret promises of every version it was  *)
(* given, without rows, files, journals or deaths: a version that was put  *)
(* stays usable until it is deleted as the current one or somebody damages *)
(* its file, even when newer versions replace it; what was given up or     *)
(* deleted never comes back; and the supplier points at the newest version *)
(* put, or after its deletion at none.                                     *)
(***************************************************************************)
EXTENDS Naturals

CONSTANT Versions   \* natural numbers, in the order they are given out

VARIABLES current,   \* the version the supplier points at, 0 for none
          life       \* "unborn", "held", "spoiled" or "gone"

vaultVars == <<current, life>>

VaultInit == current = 0 /\ life = [v \in Versions |-> "unborn"]

\* Versions are put in the order of their ids; the ones before it stay.
Put(v) ==
    /\ life[v] = "unborn"
    /\ \A u \in Versions : u > v => life[u] = "unborn"
    /\ life' = [life EXCEPT ![v] = "held"]
    /\ current' = v

\* A replacement that failed or died before it took effect.
GiveUp(v) ==
    /\ life[v] = "unborn"
    /\ life' = [life EXCEPT ![v] = "gone"]
    /\ UNCHANGED current

Delete ==
    /\ current # 0
    /\ life' = [life EXCEPT ![current] = "gone"]
    /\ current' = 0

\* Somebody else's hand.
Spoil(v) ==
    /\ life[v] = "held"
    /\ life' = [life EXCEPT ![v] = "spoiled"]
    /\ UNCHANGED current

VaultNext == Delete \/ \E v \in Versions : Put(v) \/ GiveUp(v) \/ Spoil(v)

VaultSpec == VaultInit /\ [][VaultNext]_vaultVars

=============================================================================
