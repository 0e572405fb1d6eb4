------------------------------ MODULE CallTable ------------------------------
(***************************************************************************)
(* The table of live calls that CallObjectManager keeps in                 *)
(* callObjectPtrList_, and the operators every other part of the call      *)
(* manager uses to look calls up, count them and move them between states. *)
(*                                                                         *)
(* A table is a function from the ids of the live calls to their records.  *)
(* Ids come from one increasing counter and a call is appended when it is  *)
(* created, so the list order is the order of the ids: "the first match"   *)
(* of a forward search is the least id, "the last match" of a reverse      *)
(* search the greatest.  Only carrier calls (CS, IMS) are in the table     *)
(* here; the filters on CallType::TYPE_VOIP and TYPE_BLUETOOTH therefore   *)
(* select everything.                                                      *)
(***************************************************************************)
EXTENDS Integers, FiniteSets

CONSTANTS
    Slots,     \* the SIM slots
    Requests,  \* the dial requests clients may issue; also the number dialled
    MaxIdx,    \* greatest call index a modem hands out on one slot
    AsWritten  \* which statements are taken literally, see AddOneCallObject
               \* and IsNewCallAllowedCreate: a subset of {"list", "mutex"}

ASSUME TableAssumption ==
    /\ Slots # {} /\ Requests # {} /\ "none" \notin Requests
    /\ MaxIdx \in Nat \ {0}
    /\ AsWritten \subseteq {"list", "mutex"}

NoRequest == "none"  \* parameters nobody filled in yet
NoId == 0        \* stands for a null call pointer and for the id -1
InitIndex == 0   \* INIT_INDEX: the index of a call the modem has not numbered

\* TelCallState, as far as carrier calls use it.
TelStates == {"DIALING", "ALERTING", "INCOMING", "WAITING", "ACTIVE", "HOLDING",
              "DISCONNECTING", "DISCONNECTED"}
\* CallRunningState.
RunStates == {"CREATE", "CONNECTING", "DIALING", "RINGING", "ACTIVE", "HOLD",
              "ENDING", "ENDED"}

\* One CallBase object: its two states, its place at the modem, the two DSDA
\* switches, the number it was created for, and the request whose parameters
\* (isEcc, extras) were in the single hand-over slot when it was created.
CallRec == [tel: TelStates, run: RunStates, idx: 0..MaxIdx, slot: Slots,
            canUnHold: BOOLEAN, canSwitch: BOOLEAN, num: Requests,
            src: Requests \cup {NoRequest}]

IsTable(t) == /\ DOMAIN t \subseteq Nat \ {NoId}
              /\ t \in [DOMAIN t -> CallRec]

EmptyTable == [i \in {} |-> NoId]
-----------------------------------------------------------------------------
(* State changes of one call *)

\* Mutant: the external state's name is stored in place of the running state.
RunningOfByName(tel) == tel

\* StateChangesTo...: the running state each external state maps to.
RunningOf(tel) ==
    CASE tel \in {"DIALING", "ALERTING"}    -> "DIALING"
      [] tel \in {"INCOMING", "WAITING"}    -> "RINGING"
      [] tel = "ACTIVE"                     -> "ACTIVE"
      [] tel = "HOLDING"                    -> "HOLD"
      [] tel = "DISCONNECTING"              -> "ENDING"
      [] tel = "DISCONNECTED"               -> "ENDED"

\* A repeated state is refused unless the call is still in CREATE or the
\* state is DIALING; any other next state is accepted, whatever the present.
SetTelCallState(call, next) ==
    IF call.run # "CREATE" /\ call.tel = next /\ next # "DIALING"
    THEN call
    ELSE [call EXCEPT !.tel = next, !.run = RunningOf(next)]

\* UpdateCallState: the object and the table's entry are the same object.
UpdateCallState(t, id, next) == [t EXCEPT ![id] = SetTelCallState(@, next)]
-----------------------------------------------------------------------------
(* Searches and counts *)

\* The least and the greatest id of a set, NoId when there is none.
First(ids) == LET least == {i \in ids : \A j \in ids : i <= j}
              IN IF least = {} THEN NoId ELSE CHOOSE i \in least : TRUE
Last(ids) == LET greatest == {i \in ids : \A j \in ids : j <= i}
             IN IF greatest = {} THEN NoId ELSE CHOOSE i \in greatest : TRUE

InTel(t, tel) == {i \in DOMAIN t : t[i].tel = tel}
InRun(t, run) == {i \in DOMAIN t : t[i].run = run}
AtIndex(t, idx) == {i \in DOMAIN t : t[i].idx = idx}
AtPlace(t, idx, slot) == {i \in AtIndex(t, idx) : t[i].slot = slot}

GetOneCallObject(t, run) == Last(InRun(t, run))
GetOneCallObjectByIndex(t, idx) == First(AtIndex(t, idx))
GetOneCallObjectByIndexAndSlotId(t, idx, slot) == First(AtPlace(t, idx, slot))
GetCallNum(t, tel) == Cardinality(InTel(t, tel))
GetCurrentCallNum(t) == Cardinality(DOMAIN t)
IsExistCallOtherSlot(t, slot) ==
    GetCurrentCallNum(t) > 1 /\ \E i \in DOMAIN t : t[i].slot # slot

\* The first loop of IsNewCallAllowedCreate: a call is still being set up.
SetupInProgress(t) ==
    \E i \in DOMAIN t : t[i].run \in {"CREATE", "CONNECTING", "DIALING", "RINGING"}

\* Its second half counts calls by functions that lock listMutex_ again,
\* while the function itself still holds it.
RelocksListMutex(t) == "mutex" \in AsWritten /\ ~SetupInProgress(t)

IsNewCallAllowedCreate(t) == ~SetupInProgress(t) /\ GetCurrentCallNum(t) < 2

\* CallRequestProcess::GetDialingCall
GetDialingCall(t) ==
    IF InRun(t, "CREATE") # {} THEN GetOneCallObject(t, "CREATE")
    ELSE IF InRun(t, "CONNECTING") # {} THEN GetOneCallObject(t, "CONNECTING")
    ELSE GetOneCallObject(t, "DIALING")
-----------------------------------------------------------------------------
(* Insertion, removal, and the policies that guard the requests *)

\* Taken literally ("list"), AddOneCallObject checks the list and signals its
\* waiters but never puts the call into it; otherwise the call is appended.
AddOneCallObject(t, id, call) ==
    IF "list" \in AsWritten \/ id \in DOMAIN t
    THEN t
    ELSE [i \in DOMAIN t \cup {id} |-> IF i = id THEN call ELSE t[i]]

\* The condition under which AddOneCallObject wakes HandleDialFail.
FirstDialAdded(t) ==
    GetCurrentCallNum(t) = 1 /\ \A i \in DOMAIN t : t[i].tel = "DIALING"

DeleteOneCallObject(t, id) == [i \in DOMAIN t \ {id} |-> t[i]]

HangUpPolicy(t, id) ==
    id \in DOMAIN t /\ t[id].tel \notin {"DISCONNECTING", "DISCONNECTED"}
=============================================================================
