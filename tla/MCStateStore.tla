---------------------------- MODULE MCStateStore ----------------------------
(***************************************************************************)
(* The store alone, fed with AMS lists whose entries may lack an id.       *)
(***************************************************************************)
EXTENDS StateStore

mc_AmsIds == {0, 1}
mc_UnitModel == [u \in {0, 1} |-> "AMS 2 Pro"]
mc_Lists == {<<[id |-> i, dry |-> d, slots |-> 0], [id |-> j, dry |-> e, slots |-> 0]>> :
                i \in {0, None}, j \in {1, None}, d \in {0, 9}, e \in {9, Missing}}
mc_Reports == {[delta |-> FALSE, body |-> [ams |-> TRUE, units |-> l]] : l \in mc_Lists}
=============================================================================
