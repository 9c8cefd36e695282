-------------------------------- MODULE Slots --------------------------------
(***************************************************************************)
(* Variables for a module of runs that checks several components side by   *)
(* side: a behaviour belongs to the part it starts with, whose variables   *)
(* are the first slots.  A slot the part has no use for is "off".          *)
(***************************************************************************)
VARIABLES part, v1, v2, v3, v4, v5, v6, v7, v8, v9, v10, v11, v12, v13, v14, v15,
          v16, v17
slots == <<v1, v2, v3, v4, v5, v6, v7, v8, v9, v10, v11, v12, v13, v14, v15,
           v16, v17>>
allSlots == <<part, slots>>

\* The slots from the n-th on are not used.
Off17 == v17 = "off"
Off16 == v16 = "off" /\ Off17
Off15 == v15 = "off" /\ Off16
Off14 == v14 = "off" /\ Off15
Off13 == v13 = "off" /\ Off14
Off12 == v12 = "off" /\ Off13
Off11 == v11 = "off" /\ Off12
Off10 == v10 = "off" /\ Off11
Off9 == v9 = "off" /\ Off10
Off8 == v8 = "off" /\ Off9
Off7 == v7 = "off" /\ Off8
Off6 == v6 = "off" /\ Off7
Off5 == v5 = "off" /\ Off6
Off4 == v4 = "off" /\ Off5
Off3 == v3 = "off" /\ Off4
Off2 == v2 = "off" /\ Off3
Off1 == v1 = "off" /\ Off2

\* They stay as they are.
Keep17 == UNCHANGED v17
Keep16 == UNCHANGED v16 /\ Keep17
Keep15 == UNCHANGED v15 /\ Keep16
Keep14 == UNCHANGED v14 /\ Keep15
Keep13 == UNCHANGED v13 /\ Keep14
Keep12 == UNCHANGED v12 /\ Keep13
Keep11 == UNCHANGED v11 /\ Keep12
Keep10 == UNCHANGED v10 /\ Keep11
Keep9 == UNCHANGED v9 /\ Keep10
Keep8 == UNCHANGED v8 /\ Keep9
Keep7 == UNCHANGED v7 /\ Keep8
Keep6 == UNCHANGED v6 /\ Keep7
Keep5 == UNCHANGED v5 /\ Keep6
Keep4 == UNCHANGED v4 /\ Keep5
Keep3 == UNCHANGED v3 /\ Keep4
Keep2 == UNCHANGED v2 /\ Keep3
Keep1 == UNCHANGED v1 /\ Keep2
==============================================================================
