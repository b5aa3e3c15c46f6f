--------------------------- MODULE MCCommandPath ----------------------------
(***************************************************************************)
(* Small instances of CommandPath: one AMS unit with at most two slots,    *)
(* and the payloads and calls that make the cases of interest happen.      *)
(***************************************************************************)
EXTENDS CommandPath, TLC

mc_Symmetry == Permutations(Requests)

Call(name) == [name |-> name, unit |-> 0, valid |-> TRUE, hot |-> FALSE, ack |-> TRUE,
               slot |-> 0]
Unit(id, dry, n) == [id |-> id, dry |-> dry, slots |-> n]
Push(body) == [delta |-> FALSE, body |-> body]

mc_AmsIds == {0}
mc_UnitModel == [u \in {0} |-> "AMS 2 Pro"]
mc_Statuses == {"unknown", "idle", "running", "pause"}

\* Drying: a full state without a running dryer, one with a running dryer that leaves
\* the Developer LAN flag out, a list without dry_time, and a loss of the other flags.
mc_StartStop == {Call("start_drying"), Call("stop_drying")}
mc_MixedCalls == mc_StartStop \cup
    {[Call("start_drying") EXCEPT !.hot = TRUE], Call("light"), Call("resume")}
FullDry(status, dry) ==
    [status |-> status, lan |-> TRUE, lights |-> FALSE, rest |-> TRUE, risk |-> FALSE,
     ams |-> TRUE, units |-> <<Unit(0, dry, 0)>>]
Without(body, f) == [g \in DOMAIN body \ {f} |-> body[g]]
mc_DryingReports == {Push(FullDry("idle", 0)), Push(Without(FullDry("running", 9), "lan")),
                     Push([ams |-> TRUE, units |-> <<Unit(0, Missing, 0)>>]),
                     Push([lan |-> FALSE, risk |-> TRUE])}
mc_MixedReports == mc_DryingReports \cup
    {[Push(FullDry("pause", 0)) EXCEPT !.delta = TRUE]}

\* Print control and RFID over two slots.
mc_PrintCalls == {Call("pause"), Call("refresh_rfid")}
FullPrint(status) ==
    [status |-> status, lan |-> TRUE, lights |-> TRUE, rest |-> TRUE, risk |-> TRUE,
     ams |-> TRUE, units |-> <<Unit(0, Missing, 2)>>]
mc_PrintReports == {Push(FullPrint("running"))}

\* A command that waits for the lock, the answer and the confirmation.
mc_StopOnly == {Call("stop_drying")}
mc_StopReports == {Push(FullDry("running", 0))}

mc_StartOnly == {Call("start_drying")}

\* Two requests that are both about drying, or both about the print.  The constraint keeps
\* the two apart: their states add up and do not multiply.
mc_BothCalls == mc_StartStop \cup mc_PrintCalls
mc_BothReports == mc_DryingReports \cup mc_PrintReports

mc_Asks(names) == \E r \in Requests : pc[r] # "idle" /\ call[r].name \in names
mc_Pushes(print) ==
    \E i \in DOMAIN wire : wire[i].kind = "push_status" /\
                           (wire[i].report \in mc_PrintReports) = print

mc_AboutPrint ==
    \/ drops > 0 \/ raw.lights
    \/ mc_Asks({"pause", "refresh_rfid"}) \/ mc_Pushes(TRUE)
mc_AboutDrying ==
    \/ epoch > 0 /\ ~raw.lights
    \/ mc_Asks(DRYING_COMMANDS) \/ mc_Pushes(FALSE)

mc_OneTopic == mc_AboutPrint => traffic <= 1 /\ ~mc_AboutDrying
=============================================================================
