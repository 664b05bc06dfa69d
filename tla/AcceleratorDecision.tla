------------------------- MODULE AcceleratorDecision -------------------------
(***************************************************************************)
(* The runtime decision of registerOpenCL.cpp: every accelerator collects  *)
(* a chance, and the best one runs the next kernel.  Chances are floats in *)
(* the code; here they are integers in hundredths, which is exact for the  *)
(* two decimals the code uses.                                             *)
(***************************************************************************)
EXTENDS Integers

Devices      == {"MCPU", "GPU", "MIC"}
Accelerators == Devices \cup {"LEG"}

Chances == [Accelerators -> Int]

(* A chance from the four values the code keeps in four globals. *)
Chance(leg, cpu, gpu, mic) ==
  [a \in Accelerators |-> CASE a = "LEG" -> leg [] a = "MCPU" -> cpu
                            [] a = "GPU" -> gpu [] a = "MIC"  -> mic]

initChance == Chance(0, 5, 15, 10)

(* The bonus of a call whose arguments need more than THRESHOLD elements.  *)
bonusBigData(big) ==
  IF big THEN Chance(-20, 10, 20, 15) ELSE Chance(20, -10, -20, -15)

(* Mutant: no bonus for staying. *)
bonusLastAcceleratorDropped(last) == Chance(0, 0, 0, 0)

bonusLastAccelerator(last) == [a \in Accelerators |-> IF a = last THEN 50 ELSE 0]

(* Mutant: a buffer on the GPU counts for the MIC. *)
bonusIfOnDeviceMisplaced(held) ==
  Chance(0, 30 * held["MCPU"], 30 * held["MIC"], 30 * held["GPU"])

(* held[d] arguments of the call have a buffer on device d. *)
bonusIfOnDevice(held) ==
  [a \in Accelerators |-> IF a = "LEG" THEN 0 ELSE 30 * held[a]]

(* Devices that are not built in have no isAvailable to ask. *)
bonusIfAvailable(unavailable) ==
  [a \in Accelerators |-> IF a \in unavailable THEN -300 ELSE 0]

calculateBonus(last, held, big, unavailable) ==
  [a \in Accelerators |->
     initChance[a] + bonusIfOnDevice(held)[a] + bonusBigData(big)[a]
       + bonusLastAccelerator(last)[a] + bonusIfAvailable(unavailable)[a]]

decideWhichAccelerator(chance) ==
  CASE \A d \in Devices : chance["LEG"] > chance[d] -> "LEG"
    [] OTHER ->
       CASE \A d \in {"GPU", "MIC"} : chance["MCPU"] > chance[d] -> "MCPU"
         [] OTHER -> IF chance["GPU"] > chance["MIC"] THEN "GPU" ELSE "MIC"
=============================================================================
