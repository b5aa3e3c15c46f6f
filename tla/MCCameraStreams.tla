--------------------------- MODULE MCCameraStreams --------------------------
(***************************************************************************)
(* Small instances of CameraStreams.                                       *)
(***************************************************************************)
EXTENDS CameraStreams, TLC

mc_Symmetry == Permutations(Streams) \cup Permutations(Closers) \cup
               Permutations(Sessions) \cup Permutations(Printers)

\* A closer is let loose on one printer and session, several of them are used without:
\* the states of the two add up and do not multiply.
mc_Bindings == {grants[i] : i \in DOMAIN grants} \cup
               {<<stream[st].printer, stream[st].session>> : st \in Streams}
mc_Used(all, current, bound) ==
    (all \ current) \cup (all \cap (bound \cup {closer[c].aim : c \in Closers}))

mc_OneTopic ==
    (\E c \in Closers : closer[c].pc # "idle") =>
        /\ Cardinality(mc_Used(Printers, ready, {b[1] : b \in mc_Bindings})) <= 1
        /\ Cardinality(mc_Used(Sessions, valid, {b[2] : b \in mc_Bindings})) <= 1
=============================================================================
