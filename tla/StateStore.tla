----------------------------- MODULE StateStore -----------------------------
(***************************************************************************)
(* app/state.py, class StateStore: what the service believes about ONE     *)
(* printer.  The class keeps every field per printer id and no operation   *)
(* of one printer reads the fields of another, so a single slice is        *)
(* modelled.  Every method body runs under the store's one lock and is a   *)
(* single action.                                                          *)
(*                                                                         *)
(* Data is kept only as far as a decision of the service depends on it:    *)
(*  - a push_status report is a partial function from the fields below to  *)
(*    their values (a field it does not carry is not in its domain);       *)
(*  - "ipcam" says what its section shows of a camera and of the           *)
(*    resolution a command asks for, "lights" whether lights_report names  *)
(*    the light node a command asks for;                                   *)
(*  - "risk" is the verdict of ams_operation_risk on the AMS section;      *)
(*  - "ams" stands for the key of the AMS section, "units" for the list in *)
(*    it, "rest" for the other groups of FULL_STATUS_FIELD_GROUPS, which   *)
(*    no command reads;                                                    *)
(*  - an entry of the AMS list has an id, or None when the printer leaves  *)
(*    it out, a dry_time and the number of its filament slots.             *)
(* The wall clock is the flag "stale": more than stale_after_seconds have  *)
(* passed since the last report, or there was none.                        *)
(***************************************************************************)
EXTENDS Integers, Sequences, FiniteSets

CONSTANTS
    AmsIds,       \* AMS unit ids that commands address
    UnitModel,    \* the hardware behind each id, as get_version names it
    Statuses,     \* values of gcode_state, "unknown" among them
    MaxSlots,     \* filament slots of a unit
    Reports,      \* the push_status payloads the printer may send
    MaxReports    \* bound on the payloads of one behaviour

None == -1        \* a value _integer() could not read
Missing == -2     \* a key that is not in the payload

Fields == {"status", "lan", "ipcam", "lights", "ams", "risk", "units", "rest"}
Capabilities == {"camera", "resolution"}
FULL_STATUS_FIELD_GROUPS == {"status", "ams", "lights", "rest"}
HardwareModels == {"AMS", "AMS Lite", "AMS 2 Pro", "AMS HT"}
UnitEntry == [id : Nat \cup {None}, dry : Nat \cup {None, Missing}, slots : 0 .. MaxSlots]
RawReports == [status : Statuses, lan : BOOLEAN, ipcam : SUBSET Capabilities,
               lights : BOOLEAN, risk : BOOLEAN, units : Seq(UnitEntry)]

\* A payload: "delta" when its msg field is present and not 0.
IsPayload(m) ==
    /\ m.delta \in BOOLEAN
    /\ DOMAIN m.body \subseteq Fields
    /\ "status" \in DOMAIN m.body => m.body["status"] \in Statuses
    /\ "lan" \in DOMAIN m.body => m.body["lan"] \in BOOLEAN
    /\ "ipcam" \in DOMAIN m.body => m.body["ipcam"] \in SUBSET Capabilities
    /\ "lights" \in DOMAIN m.body => m.body["lights"] \in BOOLEAN
    /\ "risk" \in DOMAIN m.body => m.body["risk"] \in BOOLEAN
    /\ "units" \in DOMAIN m.body => m.body["units"] \in Seq(UnitEntry)
    /\ "units" \in DOMAIN m.body => "ams" \in DOMAIN m.body

ASSUME StoreAssumption ==
    /\ AmsIds \subseteq Nat
    /\ UnitModel \in [AmsIds -> HardwareModels]
    /\ "unknown" \in Statuses
    /\ MaxSlots \in Nat
    /\ MaxReports \in Nat
    /\ \A m \in Reports : IsPayload(m)

VARIABLES
    connection,   \* _connection
    complete,     \* _complete: a full report was merged on this connection
    stale,        \* last_seen is missing or too old
    raw,          \* _raw, the merged report
    models,       \* _ams_models
    generation,   \* _ams_dry_generation
    epoch,        \* history: push_status reports merged so far
    unitsAt       \* history: epoch of the report that brought raw.units

storeVars == <<connection, complete, stale, raw, models, generation, epoch, unitsAt>>

ConnectionStates == {"starting", "connecting", "online", "offline", "error", "stopped"}

(***************************************************************************)
(* Reading a report.                                                       *)
(***************************************************************************)
\* deep_merge: keys the report carries win, the AMS list as one value.
Merged(body, f) == IF f \in DOMAIN body THEN body[f] ELSE raw[f]

deep_merge(body) ==
    [status |-> Merged(body, "status"), lan |-> Merged(body, "lan"),
     ipcam |-> Merged(body, "ipcam"), lights |-> Merged(body, "lights"),
     risk |-> Merged(body, "risk"), units |-> Merged(body, "units")]

\* A report counts as the full state when it has a key of every group, whatever
\* else it leaves out: the Developer LAN flag, the camera, the AMS list itself.
is_full_status(m) == ~m.delta /\ FULL_STATUS_FIELD_GROUPS \subseteq DOMAIN m.body

\* The id under which an entry of the AMS list is filed: its own or its index.
KeyOf(list, i) == IF list[i].id = None THEN i - 1 ELSE list[i].id

\* How many entries of the report carry a dry_time for unit u.
DryEntries(body, u) ==
    IF "units" \notin DOMAIN body THEN 0
    ELSE Cardinality({i \in DOMAIN body["units"] :
                        /\ body["units"][i].dry # Missing
                        /\ KeyOf(body["units"], i) = u})

First(S) == CHOOSE i \in S : \A j \in S : i <= j

(***************************************************************************)
(* What a snapshot shows of the connection and of one AMS unit.            *)
(***************************************************************************)
Online == connection = "online" /\ ~stale
Partial == connection = "online" /\ ~complete

Shown(u) == {i \in DOMAIN raw.units : KeyOf(raw.units, i) = u}
ShownUnit(u) == raw.units[First(Shown(u))]
ShownDry(u) == LET d == ShownUnit(u).dry IN IF d < 0 THEN None ELSE d
DryCapable(u) == models[u] \in {"AMS 2 Pro", "AMS HT"}

\* Mutation: the report that was counted before the command confirms it.
ReachedByOld(u, active, after) ==
    LET named == {i \in DOMAIN raw.units : raw.units[i].id = u} IN
    /\ generation[u] >= after
    /\ named # {}
    /\ LET d == raw.units[First(named)].dry
       IN IF active THEN d > 0 ELSE d = 0

\* wait_for_ams_drying_state's test: the first entry whose OWN id is u.
Named(u) == {i \in DOMAIN raw.units : raw.units[i].id = u}
DryingReached(u, active, after) ==
    /\ generation[u] > after
    /\ Named(u) # {}
    /\ LET d == raw.units[First(Named(u))].dry
       IN IF active THEN d > 0 ELSE d = 0

(***************************************************************************)
(* Operations.                                                             *)
(***************************************************************************)
StoreInit ==
    /\ connection = "starting"
    /\ complete = FALSE
    /\ stale = TRUE
    /\ raw = [status |-> "unknown", lan |-> FALSE, ipcam |-> {}, lights |-> FALSE,
              risk |-> TRUE, units |-> <<>>]
    /\ models = [u \in AmsIds |-> "unknown"]
    /\ generation = [u \in AmsIds |-> 0]
    /\ epoch = 0
    /\ unitsAt = 0

\* Mutation: a lost connection keeps the complete state.
mark_without_reset(state) ==
    /\ connection' = state
    /\ UNCHANGED <<complete, stale, raw, models, generation, epoch, unitsAt>>

mark_connection(state) ==
    /\ connection' = state
    /\ complete' = IF state = "online" THEN complete ELSE FALSE
    /\ UNCHANGED <<stale, raw, models, generation, epoch, unitsAt>>

\* apply_report for a print section whose command is push_status.
apply_report(m) ==
    /\ generation' = [u \in AmsIds |-> generation[u] + DryEntries(m.body, u)]
    /\ raw' = deep_merge(m.body)
    /\ complete' = (complete \/ is_full_status(m))
    /\ stale' = FALSE
    /\ connection' = "online"
    /\ epoch' = epoch + 1
    /\ unitsAt' = IF "units" \in DOMAIN m.body THEN epoch + 1 ELSE unitsAt
    /\ UNCHANGED models

\* apply_report for an info section: get_version named the units in ids.
apply_version(ids) ==
    /\ models' = [u \in AmsIds |-> IF u \in ids THEN UnitModel[u] ELSE models[u]]
    /\ UNCHANGED <<connection, complete, stale, raw, generation, epoch, unitsAt>>

\* stale_after_seconds pass without a report.
BecomesStale ==
    /\ ~stale
    /\ stale' = TRUE
    /\ UNCHANGED <<connection, complete, raw, models, generation, epoch, unitsAt>>

StoreNext ==
    \/ \E m \in Reports : epoch < MaxReports /\ apply_report(m)
    \/ \E ids \in SUBSET AmsIds : apply_version(ids)
    \/ \E state \in ConnectionStates : mark_connection(state)
    \/ BecomesStale

StoreSpec == StoreInit /\ [][StoreNext]_storeVars

-----------------------------------------------------------------------------
\* Every field has its type; the ghost epoch of the list lies in the past.
StoreTypeOK ==
    /\ connection \in ConnectionStates
    /\ complete \in BOOLEAN
    /\ stale \in BOOLEAN
    /\ raw \in RawReports
    /\ models \in [AmsIds -> HardwareModels \cup {"unknown"}]
    /\ generation \in [AmsIds -> Nat]
    /\ epoch \in Nat
    /\ unitsAt \in 0 .. epoch

\* "confirmed by state" (README.md:198): a unit that a counted report shows as
\* drying passes the test by which send_command confirms start_drying.
ShownDryingConfirms ==
    \A u \in AmsIds :
        (generation[u] > 0 /\ Shown(u) # {} /\ ShownDry(u) > 0) => DryingReached(u, TRUE, 0)
=============================================================================
