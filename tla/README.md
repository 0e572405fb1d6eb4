# TLA+ specification of the call manager

The call manager is the telephony service that sits between the clients that
dial, answer and hang up (the dialler, Bluetooth, the car, settings) and
`cellular_call`, which drives the modems of the SIM slots. These modules describe
its call control: which requests it accepts, what it asks of the modems, how it
follows their reports, and what it may never do on the way.

All paths below are relative to the repository root; `services/call/src` is
abbreviated to `call/`.

## 1. The system

### 1.1 How it runs

* **Clients.** An IPC request runs on a binder thread of its own through
  `CallManagerService` into `CallControlManager` and `CallRequestProcess`. Several
  may be inside at once; nothing serialises them but the mutexes of the objects they touch.
* **The report queue.** `ReportCallInfoHandler` puts every report of
  `cellular_call` (a call's state, a list of calls, a failure event) on the serial
  queue `report_call_info_queue`. `CallStatusManager` handles them one at a time, and
  `CallRequestProcess` puts reports of its own on the same queue.
* **Timers.** Delayed ffrt tasks: the 3 s gate timer, the 1 s wait in `HandleDialFail`,
  the 30 s hang-up protection, the tenth of a second before `ClearAllCalls`, the second before a ringtone is retried.
* **Tasks.** `AnswerRequest` and the start of a fraud detection run in ffrt tasks of their own; the audio
  scene machine has a queue of its own; the anti-fraud service calls back on its threads.
* **Modems.** A request to `cellular_call` returns at once (accepted or not); its
  outcome arrives later as a report.

The state shared by these is not guarded by one lock. `callObjectPtrList_` has
`listMutex_`; the flags of a dial (`isDialingCallProcessing_`, `pendingMo_`,
`pendingHangup_`) have one mutex each; the parameters of a dial (`dialSrcInfo_`,
`extras_`) are a single slot; `needWaitHold_` and `dialCallInfo_` have none. What makes
the code hard is that a decision is spread over several of these.

### 1.2 Components

| Component | State | Operations | Talks to | What makes it correct |
|---|---|---|---|---|
| Call table (`CallObjectManager`, `CallBase`) | `callObjectPtrList_`, per call: external and running state, index, slot, DSDA switches | add, delete, look up, count, change state | everything | a call is in it exactly while it lives; lookups by slot and index find the right one |
| Dial path (`DialCall`, `CarrierDialProcess`, `CallRequestEventHandlerHelper`) | `dialSrcInfo_`, `isDialingCallProcessing_` and its timer, `needWaitHold_`, `dialCallInfo_`, `isFirstDialCallAdded_` | package, gate, check, hold, report, send, fail | table, report queue, modem | every dial is sent once or failed; the gate opens again; no dial into an active call of another slot |
| Report queue and handlers (`ReportCallInfoHandler`, `CallStatusManager`) | the queue | one handler per state, failure events, lists of calls | table, modem, audio, listeners | when all is answered the table equals the modems |
| Hang-up path (`HangUpCall`, `HangUpRequest`, protect task) | `pendingMo_`, `pendingHangup_`, `pendingHangupHandle_` | hang up, postpone, protect | table, modem | a postponed hang-up is carried out, and only for its own call |
| DSDA arbitration (`AnswerRequestForDsda`, `AutoHandleForDsda`) | per call: `autoAnswerState_`, `canUnHoldState_`, `canSwitchCallState_` | answer while another slot is busy, automatic answer and unhold | table, modem | one call owns the audio; what was held for another call is resumed |
| Call details (`HandleCallsReportInfo`) | `callDetailsInfo_` per slot | diff of two lists of calls | report handlers | a live call is never reported gone, a dead one always |
| Conference (`ConferenceBase`, `ImsConference`, `CsConference`) | state, main call, members, `beginTime_` | create, join, hold, leave, separate | table, `CallPolicy` | members are live calls; the main call is a member |
| Audio (`AudioControlManager`, `AudioSceneProcessor`, `CallStateProcessor`, `AudioDeviceManager`) | scene state, sets of call ids per state, device, tones | state switches per call event, device events | listeners of the table | the scene is that of the most important live call |
| Video (`VideoCallState`, `VideoControlManager`) | negotiation state per call | request, response, cancel | modem | an answer belongs to the request it answers |
| Anti-fraud (`AntiFraudService`) | one slot and index under detection | start, stop, result | report handlers, an external service | at most one detection, released at the call's end |
| Call UI (`CallConnectAbility`) | connected flags | connect, delayed disconnect | table | not disconnected while a call lives |
| Distributed calls | sessions, devices | switch a call's audio to another device | audio, softbus | one session at a time; the audio returns to the device when the session drops |
| Observers, notifications, records | - | follow state changes | listener | every state change is delivered once, in order |
| Spam filter, incoming policy | pending queries | query with a time limit | external services | an incoming call is shown in the end |
| Service shell (IPC, NAPI, broadcasts, settings) | - | marshal, check permissions | all | arguments arrive as sent; no call control of its own |

### 1.3 What is hard to test here

`PROJECT.json` lists the hazards at their lines. They fall into groups:

1. *A decision over several critical sections*: the gate is checked and closed in two
   (`call/call_request_process.cpp:824`), its timer posted in a third; postponing a hang-up takes
   four (`call/call_control_manager.cpp:487-490`).
2. *A promise to another thread*: a dial left to `HandleDialWhenHolding` depends on a
   report that is certain to come and finds `needWaitHold_` set and `dialCallInfo_` filled.
3. *Order of reports*: the modem's index may come with DIALING, ALERTING, ACTIVE or DISCONNECTED; a
   failure event may overtake the DIALING report the client thread queued.
4. *Singletons*: one hand-over slot, one latch, one waiting dial, one postponed hang-up.
5. *Partial failure*: a refusal after the gate was closed, a dial that fails after its call was reported.
6. *What is remembered is compared later*: the last list of calls, the sets of calls the audio scene is chosen
   from, the mark of a call to be answered, the slot and index a detection was started for.
7. *A crash of `cellular_call`*: its calls are gone, the table's are not, and indices are used again.

## 2. Modules

| Module | Models | Lines of the source |
|---|---|---|
| `CallTable` | the table and its operators, no behaviour | `call/call_object_manager.cpp`, `call/call_base.cpp`, `call/call_policy.cpp` |
| `DialPipeline` | dial path, report handlers, hang-up path, timers, and the modems around them | `call/call_control_manager.cpp`, `call/call_request_process.cpp`, `call/call_status_manager.cpp`, `call/call_request_event_handler_helper.cpp` |
| `MCDialPipeline` | values of the constants for TLC | |
| `DialPipelineProofs` | theorems about `DialPipeline` | |
| `Ascending`, `AscendingProofs` | the positions a loop picks from a container, in order; that each is picked once | |
| `CallMirror` | abstract: how lists of calls are followed | |
| `AntiFraud` | operators of fraud detection: latch, tasks, verdicts | `call/call_status_manager.cpp`, `services/antifraud/src/antifraud_service.cpp` |
| `CallLists` | lists of calls, their comparison, the handlers it calls, crash of `cellular_call`; extends `AntiFraud`, implements `CallMirror` | `call/call_status_manager.cpp`, `services/telephony_interaction/src` |
| `CallListsProofs` | theorems about `CallLists` and `AntiFraud` | |
| `CallMirrorProofs`, on `ListReportsProofs` | that `CallLists` implements `CallMirror` | |
| `CallQuietProofs`, on `CallMirrorProofs` | what is left when every report is worked off | |
| `DsdaArbitration` | answering, rejecting, holding and swapping calls of two slots | `call/call_request_process.cpp`, `call/call_status_manager.cpp` |
| `DsdaArbitrationProofs` | theorems about `DsdaArbitration` | |
| `AudioScene` | call sets, scene machine, ring and tones | `services/audio/src` |
| `AudioSceneProofs` | theorems about `AudioScene` | |
| `MCCallLists`, `MCDsdaArbitration`, `MCAudioScene` | the instances for TLC | |

### 2.1 Correspondence

* A call table is a function from call ids to records. Ids increase and calls are appended, so the
  list order is the order of ids; "first" and "last" matches become least and greatest id.
* A **client thread** inside `DialCall` is a value of `pc`. It takes *one step per access to state it
  shares* with the report queue or the timers: packaging, taking the parameters back, checking the gate,
  closing it, posting the timer, the checks and the hold, setting the latch, reporting,
  sending, storing the waiting dial; and separately the three statements a refused dial leaves by.
* **One report is one step**, as the queue is serial: `ProcessReport` composes the handlers. The
  handlers call one another, so each is an operator from the manager's state, as a record
  (`Manager`), to the state it leaves behind; `Become` turns the result into primed
  variables. One statement is split off: `DialingHandle` reopens the gate and *then* removes
  the timer, and a dial may enter in between, so `HandlerRemovesTask` is an action of its own.
* `listMutex_` is not recursive. A thread that would lock it twice moves to `"blocked"`, and every step
  that needs the lock then has a false guard (`ListMutexFree`).
* The **modem** is not in the repository; it is modelled from the requests and reports the code exchanges
  with it (`external` in the map). It serves the requests of a slot in order, numbers calls with
  the least free index, may fail what `ModemFaults` lists, and announces an end by
  DISCONNECTING or not. Its first report of a dialled call may already be ALERTING. The network
  alerts, answers and ends calls at any time.

* **`CallLists`** has calls by slot and index, as the lists do. The task that works off a list is split at every call
  (`HandleCallsReportInfo`, `HandleListedCall`, `FinishCallsReportInfo`), because fraud detection's threads run in between. `num`
  is which call of the outside world a table entry stands for: properties compare it, the code's decisions do
  not read it. `details` is `callDetailsInfo_`. A refused incoming call is one free choice and is remembered in the history
  variable `screened`. cellular_call may die (`OnRemoveSystemAbility`), come back, and be told to end the calls it has lost. It names an
  ended call in a list once more as DISCONNECTED, or leaves it out while other calls remain: the stub refuses empty lists.
* **`AntiFraud`** splits `TriggerAntiFraud` where it has looked the call up and has not yet marked it, and where it has found the call
  ACTIVE and not yet set it ACTIVE (`HandleCeliaCall` likewise; a handler may hold or end the call in between). The start task has
  three steps: it reads the latch (`StartAntiFraudService`, `antifraud_service.cpp:217`), starts the service whatever has become of the
  latch since (`AntiFraudStartDetect`, `:230`), and announces the start under `fraudMutex_` (`AnnounceStart`, `:236`). A call object that a thread holds across
  steps is a place with the call's number and type (`Held`); a removed or replaced object is no longer there (`StillThere`).
* **`DsdaArbitration`** gives `AnswerRequest`'s task one step per other call, and the handlers of HOLDING and DISCONNECTED two
  steps: the counts are taken in the first (`Room`) and used in the second (`HandleRoom`). All operators map a record of the
  table and the requests sent to the next one. A hold lets the modem connect the call that waits on the same
  slot, as the comment at `call/call_status_manager.cpp:1724` presupposes.
* **`AudioScene`** follows a notification through `AudioControlManager` on the reporting thread, with ANSWERED notified on the
  client's thread, and the scene machine that works off its queue later. A SWITCH event chooses the scene from the sets at the time it
  is processed. Ringing and muting take the steps their locks leave apart: a thread decides to ring (`PlayRingtone`), starts the player
  (`StartRing` under `ringMutex_`, or `RetryRing` without it), and only then looks whether the call is to be muted (`PostProcessRingtone`); an answer tests the
  ringer (`PreHandleAnswerdState`) and then leaves its note or mutes (`AnswerMutesRinger`). A client's own `MuteRinger` may have tested the ringer at
  any earlier time; the call it notes is the latest ringing one then.

### 2.2 Two literal readings

`AddOneCallObject` (`call/call_object_manager.cpp:56-84`) as it stands never puts a call into
`callObjectPtrList_`, and `IsNewCallAllowedCreate` (`:309-350`) calls, under `listMutex_`,
functions that lock it again. Either makes every other question moot: no call is ever found, or
the first dial blocks its thread for ever. The constant `AsWritten` chooses the reading:

* `"list"` and `"mutex"` in `AsWritten`: the code to the letter. Runs `ListAsWritten` and `MutexAsWritten`
  show what follows.
* otherwise: the call is appended, the counts do not lock again. This is what the other functions, the unit tests and
  `docs/agents/boundaries.md` presuppose, and what all other runs use.

### 2.3 Orders of events

Some interleavings need a thread to sleep for seconds, or two users at once. The
constant `Races` admits them by name, so that a run says which it includes:

| In `Races` | Admits | Properties that then fail |
|---|---|---|
| `"dialers"` | two clients inside `DialCall` at once | `DialedOnce`: the slot is overwritten between packaging and taking it back, and one request is dialled by both threads |
| `"hold"` | the HOLDING report handled before the thread that asked for the hold has set the latch and stored the dial | `NoStrandedDial`: nobody is left to release the dial; `DialedOnce`: with three dials, the one stored before is sent again |
| `"timeouts"` | the 1 s, 3 s and 30 s limits expire although their report is queued | `NoStrandedDial`: `HandleDialFail` finds no call yet, and the call created later is never failed |
| `"hangup"` | a report handled between the steps of postponing a hang-up | `PendingHangupIsLive`, `TableMatchesModems`: the hang-up waits for a call that was just numbered or removed |

Without them these are the schedules the code is written for: the modem's answer takes longer than a few
statements, a queued report is handled before a timer of seconds expires. `GateHasOwner` and
`PendingMoIsUnplaced` hold with *every* subset, by proof.

The other modules name the orders they leave out in the same way. Each was tried: TLC finds the property named
here violated as soon as the order is allowed.

| Module, in `Races` | Admits | Then fails |
|---|---|---|
| `CallLists` `"screened"` | `cellular_call` dies while a refused call is listed: the table is empty, nothing is cleared, `callDetailsInfo_` still has the call | `QuietTableMatches`: a new call there in the same state is ignored |
| `"reconnect"` | a request finds `cellular_call` again first (`ReConnectService`), so that `OnAddSystemAbility` returns early (`services/telephony_interaction/src/cellular_call_connection.cpp:936-939`): `ClearAllCalls` is not called | `RestartEndsOldCalls`, `DialIsOwedAnAnswer`, `QuietTableMatches`, `FollowsTheLists`: the calls of before stay, a lost dial among them |
| `"revive"` | fraud detection sets a call ACTIVE that was ACTIVE when it looked (`call/call_status_manager.cpp:1309-1318`, `:1227-1232`) | `QuietTableMatches`: a held or disconnecting call is shown as active. The run `FraudDetection` *includes* it |
| `"late"`, `"gap"` | `cellular_call` is back before its old lists are worked off; a call comes before `ClearAllCalls` | `QuietTableMatches`: index reuse |
| `"empty"` | the end of the last call is announced by an empty list | `QuietTableMatches`: the stub drops it, the call stays |
| `"glare"` | a dial given up for an incoming call is accepted all the same and first listed as ALERTING | `QuietTableMatches`: an outgoing call nobody shows |
| `ClearReport = "single"` | `ClearAllCalls` answered by single reports | `QuietTableMatches`: `callDetailsInfo_` is stale |
| `DsdaArbitration` `"hasty"` | a second user request before the first has settled, or a hold or resume while another call rings | `OneVoice`, `AcceptedIsConnected` |
| `"crossing"` | a call comes in while another is being answered or a request is under way | `OneVoice`: the modem connects the newcomer with the hold |
| `"connect"` | a dialled call connects during the arbitration (`call/call_request_process.cpp:298`) | `OneVoice`: the count of active calls is stale |
| `"quick"` | a hang-up is reported before `SetAutoAnswerState(true)` that follows it (`:142-143`, `:155-156`) | `AcceptedIsConnected` |
| `"crowd"` | in mode V3 two calls ring; or a CRS call and another ring beside a third call | `AcceptedIsConnected`: only some of the calls in the way are ended |

`AudioScene` records such orders in the history variable `odd` instead, and the properties except them: `"overlap"` (a second call is
reported active before the first is reported held), `"stale"` (ANSWERED notified for a call that no longer rings), `"late"` (the ring
retried after the call was answered), `"behind"` (a call changes while two or more audio events are queued: a SWITCH event raised for
the first is then processed with the sets of a later moment, and the events that follow assume the scene it should have
chosen), `"crossed"` (`MuteRinger` found the ringer stopped, the ring began and looked for a note, and only then was the note left:
`services/audio/src/audio_control_manager.cpp:1413-1418` is not under `ringMutex_`). Without its exception `AnsweredIsMuted` fails in ten
states: a call rings in, its answer tests the ringer, the audio queue starts the player and finds no note, the answer leaves it; the call rings on aloud.

Three merged steps decide something and are named here. `StopAntiFraudDetect` and `PauseAntiFraudDetect` stop the service, free the latch and write the
call's state in three sections; `FinishTrigger` frees the latch and marks the call in two; `RecordDetectResult` tests and clears the stopped marker
under `fraudMutex_`, which the stops do not take. Each is one step of the model. `VerdictSticks` depends on that: a verdict given
while the same call's detection is being stopped is marked and then overwritten by the stop. What the other three properties of the run `FraudDetection` say of the latch
and the table does not speak of the moments inside these sections.

### 2.4 Left out of the modelled parts

`DialPipeline`: emergency, MMI, OTT, VoIP, Bluetooth and satellite dials; incoming and waiting calls, and with them
automatic answer; conferences; reports in lists; the change of a call between CS and IMS; audio, UI,
notifications and records, which follow state changes and decide nothing here. `SetCanUnHoldState` is kept where the
modelled decisions read it. The dial policies (airplane mode, SIM state, privacy) are a
precondition of `PackageDialInformation`. `CarrierDialProcess` has one more exit: when
`UpdateCallReportInfo` rejects an over-long number (`call/call_request_process.cpp:848-853`) it returns with the
gate closed and leaves the reopening to the timer; `NumberLegalityCheck` has rejected such a number
earlier, so the exit is not modelled.

`CallLists`: conference members in lists (`tmpCallDetailsInfo_` serves `GetConferenceCallList` only); video states; the reads of
`callDetailsInfo_` by `TriggerAntiFraud` on another thread, which are not locked; requests, whose effect on the modem
is one of its free changes. `IsRingOnceCall` waits on the report queue for a DISCONNECTED report that only the same queue
could handle, so it always times out; the wait itself is not modelled. What decides that a call is refused or listened to (lists,
settings, contacts) is a free choice.

`DsdaArbitration`: conferences, VoIP, calls being changed from voice to video, `NOT_SUPPORT_MULTICALL`, and dials that
wait for a hold, which are `DialPipeline`'s. A dial starts at the modem.

`AudioScene`: the output device beyond active or not, volumes, vibrator, CRS and video ring, VoIP, microphone mute, distributed sinks.

### 2.5 Coverage

Nearly half of the repository's lines are headers, bindings (NAPI, ETS), IPC proxies and stubs, and their callbacks, which
marshal arguments; much of the rest is distributed audio, notifications, records, settings, wearables and Bluetooth. These hold no call-control
state of their own. The modules cover the parts that do: the call table, dialling, reports, hang-up,
arbitration, lists, detection and the audio scene. The share of *all* lines they map is therefore small.

## 3. Runs

`tlc -config X.cfg M`, with `M` the MC module of the run's first column. Times are for two workers.

| Run | Instance | Shows | States, time |
|---|---|---|---|
| **`MCDialPipeline`** | | | |
| `DialSingleSlot` | one slot, dials `a1` `a2`, two hang-ups, two indices, dials that fail at once or later | the types hold; a postponed hang-up waits only for a live call; when everything is answered no call lacks an index, no latch is set and the table equals the modem; the gate always opens again | 84 thousand, 40 s |
| `DialDsda` | two slots in DSDA mode, one dial each, two hang-ups, dials that fail later | a dial is sent at most once, never while another slot has an active call, and never forgotten; index 1 on both slots is not confused; a postponed hang-up is always resolved | 86 thousand, 40 s |
| `DialRaces` | one slot, `Races = {"dialers", "timeouts", "hangup"}` | the gate has an owner, and `pendingMoCallId_` names an unplaced call, in every order | 1.26 million, 1 to 2 min |
| `ListAsWritten` | one dial, `AsWritten = {"list"}` | violated: a call the modem has is not in the table | seconds |
| `MutexAsWritten` | one dial, `AsWritten = {"mutex"}` | violated: the thread waits for its own lock | seconds |
| `DsdaHoldFails` | DSDA, the hold may be refused | violated: the dial is neither sent nor failed | seconds |
| `DialSlotOverwritten` | two dials, one after the other | violated: the call of `a1` carries the parameters of `a2` | seconds |
| **`MCCallLists`** | | | |
| `CallLists` | two slots, two indices, three calls, one dial, one crash, detection off | the table implements `CallMirror`; when all is quiet it has exactly the modem's calls, and no dial without an answer; calls from before a restart leave the table | 387 thousand, 110 s |
| `FraudDetection` | one slot, two indices, detection on, every answer of the service | the latch names a live call; a detection that runs is the latch's; a RISK verdict is not overwritten; detection's late writes to the table show at worst a held or disconnecting call as active | 2.00 million, 130 s |
| **`MCDsdaArbitration`** | | | |
| `DsdaArbitration` | two slots, modes V2, V3, V5; voice, video, CRS; three calls, five requests | once all reports are handled the table is as the modems are; an answered call is connected or gone, a resumed one not left held, no mark is left over, and never are two calls active | 2.70 million, 100 s |
| **`MCAudioScene`** | | | |
| `AudioScene` | a CS and an IMS call, an audio queue of two, one thread in `AnswerCall` at a time | the call sets are exact; scene, device, ring and tones belong to calls that exist; an answered call does not ring aloud | 3.54 million, 110 s |
| `DisconnectedLock` | one call | violated: the running lock is not released by the code | seconds |

**Bounds.** `IsNewCallAllowedCreate` admits two calls, so two requests fill the table, and a third could only
be refused, or dialled after an end; one call each on two slots is the least DSDA needs, and
it has the calls of both slots on index 1. Two indices let an active call be held behind a new
one. Two hang-ups let one be postponed and the other hit the call it waits for, or the
other call. Ids and the queue are not bounded: both are finite because requests, hang-ups and the
network's steps are. `MaxIdx = 1` in `DialRaces` and `DsdaHoldFails` leaves the one-call cases, with a modem
that refuses a second call.

In `CallLists` two indices let an index be used again while another call is there, and three calls let that happen to a call on each
slot; one crash is followed by everything that can follow it (a second one is named in `RestartEndsOldCalls` and ends the claim). In `DsdaArbitration` three calls
are an active, a held and a ringing one, or two ringing ones beside one of these; that is every pair of situations the four
`HandleCallWaiting...` functions tell apart, except two WAITING calls at once, which need four calls. **With four calls** TLC finds two more
ways to go wrong, listed in 3.2. A modem has at most two calls (`MaxPerSlot`). In `AudioScene` two calls are what `IsNewCallAllowedCreate` and
call waiting make of the sets' interplay; the queue of two lets each call's event lag behind the other's, and `MaxAnswers = 1` has one client at a time between
finding the ringing call and notifying (with two, and without the view below, there are 7.5 million states, and the same seven invariants hold). A
queue of two never reaches `"behind"`; with a queue of three TLC finds `SceneFollowsCalls` violated if `"behind"` is not excepted, and
nothing with it excepted in the first ten million states (the whole was too large for a standing run). The cfg's view
`Sounding` counts states as one that differ in the sound stream and the disconnected lock alone: no step reads either. `TypeOK` does, which
`AudioSceneProofs` shows for every state, and `LockReleased` is checked by `DisconnectedLock`, without the view.

**Deadlock** is not checked: a system whose calls have ended and whose users want nothing more is meant
to stop. What must not stop is covered by the properties over `AtRest` and by the liveness properties.

**At rest.** `NoStrandedDial` and `TableMatchesModems` speak of the states in which no thread is on its way,
queue and modems are drained and no protect task is armed. They are the states in which nothing but a new
request or the network could still change anything, so what is left behind there is left behind for good.

**Fairness** is weak, on each dialling thread, the hang-up thread, the report queue, the removal of the
task, both timers and each modem: threads that run are scheduled, ffrt tasks are executed, `cellular_call`
answers every request by a report or a failure event. In `CallLists` it is weak fairness of the report queue and of the delayed
`ClearAllCalls`. `DsdaArbitration` and `AudioScene` check safety only: what must happen in the end is stated of the states in which everything
has settled (`Quiet`). Clients and the network owe nothing. The report queue's fairness is
written out (`[]<>~ReportDue \/ []<><<ReportQueue>>_vars`); `ReportDue` is its guard.

### 3.1 What the code does otherwise than its documents say

* **`ListAsWritten`**, `call/call_object_manager.cpp:56`. `docs/agents/code-map.md:92` calls the list the
  global call object table; a unit test (`test/unittest/call_manager_special_test/src/special_branch0_test.cpp:1009-1014`)
  adds a call to the cleared list and asserts that it is found. Nothing adds it.
* **`MutexAsWritten`**, `:312`: `IsNewCallAllowedCreate` calls `GetCarrierCallList` and `GetOneCallObject` under the lock they take. `docs/agents/boundaries.md:266` forbids calling what locks `listMutex_` again, because
  the mutex is not recursive.
* **`DsdaHoldFails`**, `call/call_status_manager.cpp:431`. `docs/agents/boundaries.md:186-189`: once `needWaitHold_` is set a
  transition that is certain to come must clear it, or the waiting dial hangs for ever. The failure event of the
  hold clears it and fails the call that is DIALING. If it is handled before the client's DIALING report
  there is none; the thread has by then stored the dial in `dialCallInfo_`, the report creates the call, and nothing refers to either again.
* **`DialSlotOverwritten`**, `:2333`. `docs/agents/boundaries.md:112`: one dial request submitted and not consumed. The
  thread consumes the slot early, but `PackParaInfo` reads it again when the DIALING report is handled.

* **`DisconnectedLock`**, `services/audio/src/audio_scene_processor.cpp:67`. `call/call_status_manager.cpp:1491`: the lock taken when the remote
  party hangs up will be released after `StopSoundtone`. If the call ends before the scene machine has entered its scene, no SWITCH
  event follows, and neither is called.

### 3.2 Seen while modelling, not in a standing run

* Four calls, one of them answered while two wait: `g_flagForDsda` (`call/call_request_process.cpp:427`) stays set when a report overtakes the
  arbitration, and the next arbitration holds a call of the other slot where it should end it; the modem then connects that
  slot's waiting call, and two calls are active.
* Two WAITING calls left alone by the end of the active one: `HandleCallWaitingNumTwo` answers neither.
* A swap with `canSwitchCallState_` cleared during which the held call ends: the flag stays false, and a later swap of the surviving call
  is refused (`call/call_request_process.cpp:666`). If the active call ends instead, the held one stays held.
* Two held calls on two slots: `UnHoldRequest` finds no active call to hold and does nothing. With three connected calls a swap across slots
  resumes the held call of the *same* slot.
* A verdict that arrives for a stopped detection frees the latch of another one when the single stopped marker has been
  overwritten; that detection is then not stopped at the call's end (`af.abandoned`). The same becomes of a detection whose latch a handler frees after
  the start task has read it and before the service has started: it runs, nobody stops it, and the start is announced for whatever the latch then names.
* Within the bounds of `FraudDetection` `QuietTableMatches` holds without `"revive"` (298 thousand states) and fails with it: a HOLDING
  report handled between the test for ACTIVE and the write is overwritten, and no later list reports the held call again. `TableSurvivesDetection` says what
  remains true: the write reaches no other call, brings none back, and does no other harm.

* Three calls, the audio queue lagging by one event: the scene stays INCOMING, and the audio device on, after the last call is over. A third
  call rings beside two held ones and ends; a held one becomes ACTIVE before `NO_MORE_INCOMING` is handled, which is therefore skipped
  (`services/audio/src/call_state_processor.cpp:172`), and ends before its `NEW_CS` event is handled, which then finds no active call
  (`:161`). The scene INCOMING ignores `NO_MORE_ACTIVE` and `NO_MORE_HOLDING`. TLC finds this as a violation of `SilentWhenIdle` (47 steps, `MaxQueue = 2`).

* With three requests in DSDA mode, a dial refused at `call/call_request_process.cpp:836` clears the latch of
  another dial that waits.
* A failure event of a hold or a hang-up also fails whatever call is DIALING
  (`call/call_status_manager.cpp:404-431`); with these in `ModemFaults`, `TableMatchesModems` fails.
* When the released dial fails at once, `HandleDialWhenHolding` (`call/call_status_manager.cpp:2515`) reports the end of the *held*
  call. This is why `DialDsda` has `SyncResults = {TRUE}`.

## 4. Proofs

| Module | Theorems | Of | Checked in |
|---|---|---|---|
| `DialPipelineProofs` | `TypeCorrect`, `GateOwned`, `MoUnplaced`, `HangupLive`, `SentOnce` | `TypeOK`, `GateHasOwner`, `PendingMoIsUnplaced`, `PendingHangupIsLive`, `DialedOnce` | 140 s |
| `CallListsProofs` | `ListsInvariant`, `TypeCorrect`, `LatchHeld`, `DetectionOwned`, `VerdictStays` | the inductive invariant; `TypeOK`, `LatchHasCall`, `DetectionIsOwned`, `VerdictSticks` | 180 s |
| `AudioSceneProofs` | `AudioInvariant`, `TypeCorrect`, `SetsMatch`, `RingCaused`, `TonesCaused`, `AnsweredMuted` | the inductive invariant; `TypeOK`, `SetsMatchCalls`, `RingHasCause`, `TonesHaveCause`, `AnsweredIsMuted` | 90 s |
| `CallMirrorProofs` | `ListsFit`, `ListsFollowed` | the invariant of the refinement; `FollowsTheLists` | about 320 s |
| `ListReportsProofs` | lemmas for the above | queued lists of one call; what a report handler does to the table | 200 s |
| `CallQuietProofs` | `SettledInvariant`, `TableSettles`, `DialsSettle` | the invariant that ties lists to modems; `QuietTableMatches`, `DialIsOwedAnAnswer` | 350 s |
| `DsdaArbitrationProofs` | `DsdaInvariant`, `TypeCorrect`, `TableShown` | the inductive invariant; `TypeOK`, `TableShowsModems` | 200 s |
| `AscendingProofs` | lemmas for the above | the operator `Ascending` | 10 s |

`tlapm M.tla` checks a module. Every theorem is for all values of the constants that satisfy the module's named assumptions
(`TableAssumption` and `PipelineAssumption`, `ListsAssumption`, `AudioAssumption`, `ArbitrationAssumption`) and nothing else, except where said.

### 4.1 `DialPipelineProofs`

For every non-empty set of slots and requests, every assignment of requests to slots, every bound, every choice of faults, synchronous
results and `Races`:

* `TypeCorrect`: `Spec => []TypeOK`.
* `GateOwned`: `Spec => []GateHasOwner`. While `isDialingCallProcessing_` keeps dials out, a thread that has closed
  the gate and not yet reported or been refused, or an unnumbered DIALING report in the queue, will reopen it.
* `MoUnplaced`: `Spec => []PendingMoIsUnplaced`, assuming `"list" \notin AsWritten`. (With the literal
  `AddOneCallObject` the id is recorded and the call is not in the table.)
* `HangupLive`: `Spec => []PendingHangupIsLive`, assuming `"list" \notin AsWritten` and `"hangup" \notin Races`. (With that order of events
  TLC shows the hang-up waiting for a call that a report has just removed, 2.3.)
* `SentOnce`: `Spec => []DialedOnce`, assuming `"dialers" \notin Races` and `"hold" \notin Races`. (With two clients at once TLC finds
  one request dialled by both threads; and with `"hold"` and three dials on two slots, a HOLDING report that finds the latch
  set and the *previous* dial still stored, and dials that one again.) It holds in DSDA mode and without, with every timer, fault and hang-up.

**The invariant.** `IInv == TypeInv /\ GateHasOwner /\ MarkInv`. `TypeOK` is not inductive: a thread past
`DialRequest` must be known to hold a real request, and the slot to be filled. `PendingMoIsUnplaced` is not either,
because `UpdateDialingCallInfo` numbers a call and `ClearPendingState` clears the mark only if the ids agree;
and a new call must not have the id of one already marked. `MarkInv` adds that no id is ahead of `callId_`,
and that a call whose hang-up waits is not the marked one: the mark is cleared before the hang-up is
claimed, also by a client thread that is between the two. `GateHasOwner` is inductive over the types.

`KnownInv` adds to `PendingHangupIsLive` that the call a client is about to postpone the hang-up of is in the table too. `OnceInv` is about
the dials: at most one is inside `DialCall`; what it finds in `dialSrcInfo_` and then in its own copy is its own request; a request in
`dialCallInfo_` has left `DialCall`; and while the latch `needWaitHold_` is set the stored dial was not sent, unless another dial has set the latch and is about to
overwrite it. That last exception is why `DialedOnce` alone is not inductive: between the two assignments the latch and an old stored dial coexist.

**The argument.** The handlers are operators on the manager's state, so what a handler keeps is a
relation `Good(m, n)` between the states before and after it: types are kept, the gate is not closed, reports
are not lost, the marks stay right (`Fine`), a waiting hang-up's call stays in the table, and a dial is sent only with the latch
being taken (`Serves`). Both parts are transitive. Each handler is shown to satisfy it from the
handlers it calls, bottom-up in the order of the module (`GoodClearPendingState`, ..., `GoodHandleCallReportInfo`); each
action is then one `Step` lemma, and `NextIInv` is the case split over `Next`. The report queue is the only step
that can remove the gate's last owner, and `CreateDialing`, which an unnumbered DIALING report always reaches,
opens the gate as it does so.

### 4.2 `CallListsProofs`

For any slots, indexes, calls, crashes, and every set of `Races`, fraud detection on or off:

* `TypeCorrect`, with the fact the handlers rely on that a queued report which names no call is a DISCONNECTED one, and that only a
  dial is reported under index 0 (`SoundReports`).
* `LatchHeld` (`LatchHasCall`): `antiFraudSlotId_` and `antiFraudIndex_` never outlive the call they name.
* `DetectionOwned` (`DetectionIsOwned`): a detection that runs is the latch's, but for the abandoned ones: a late verdict freed its latch, a handler freed it
  between the start task's look and the start, or the service refused to stop. The three are what the code leaves open; the theorem says there is no fourth.
* `VerdictStays` (`VerdictSticks`, an action property): a RISK verdict is not overwritten while the call is the same object.

**The invariant.** `ListsInv` is the types, `FraudInv` and, between the steps of a list, that the queue's head is that list. `FraudInv`
is stronger than the properties. `VerdictSticks` breaks if the call the latch names, or the one a trigger in progress is about to mark,
already has a warning: the end of a trigger would overwrite it, and `FinishTrigger` frees the latch with any verdict. A call under index 0
must not have one either, since a list gives it another place. What is known of the call a trigger has found is said of its *place*, whichever call has
it by now. Threads about to set a call ACTIVE change no verdict, and exist only with `"revive"`.

**The argument.** Handlers and callbacks map the manager's state to another. They are shown `Good` one by one (types, `FraudInv`, no warning lost,
the queue changed at its end only), `Good` composes, and `ReportHandled` is what the actions need. The reports made from a list come
from `Ascending`, which `AscendingProofs` characterises; the recursion inside is reasoned about with an induction over *sets* (`LeastMember`: a
non-empty set of naturals has a least member), because the library's induction rule cannot be applied here.

### 4.3 `CallMirrorProofs`: `CallLists` implements `CallMirror`

`ListsFollowed` says `Spec => FollowsTheLists` for any slots, indexes, calls, dials, crashes, any queue, with fraud detection on or off. It
assumes `Races = {}` and `ClearReport = "list"`, as the run `CallLists` does (so that neither `"reconnect"` nor `"revive"` is admitted): each of the orders named there lets a report find the table in a
state its handler was not made for, and TLC shows for each what then goes wrong (2.3). These are promises of `cellular_call` and the modem,
which are outside the repository, except for `"reconnect"` and `"revive"`, which are this repository's own code: the theorems of 4.3 and 4.4 say what holds when
`ClearAllCalls` is made after a crash and no late write hits a call that has changed.

**The invariant.** That handling a report brings a call to what the list says is not true in every state: `RefreshOldCall` and
`UpdateDialingCallInfo` leave a known call's state alone, `HoldingHandle` and `DisconnectingHandle` do nothing for an unknown call, and
`RefreshDialingStateByOtherState` takes the dial under index 0 for it. It is true because reports come in the order of a call's life. `Following`
therefore follows every *place* (slot and index) through the system:

* `Agrees`: the table has what was handled last of it, `callDetailsInfo_` or, behind the current report, the list at work; or the call was refused.
* `Ordered`: `callDetailsInfo_`, the queued lists that name the slot (the place's `View`) and the modem's call succeed one another by `StepOK`;
  a call that rings in a list goes on ringing unless the table shows it (`RingOK`: nobody answers what is not shown), which needs that
  the table's call and the modem's are told apart by number (`NumOK`, `UsedOK`). Unless the service is dead or the place about to be
  cleared, the last list and the modem agree whether there is a call (`LastOK`).
* `ScreenOK`: a refused call is still listed, as ringing, and not in the table.
* `WorkOK`: the reports in `work` say what the list at the head of the queue says, each of another call.
* `FirstAlert`: a dial that is ALERTING in its first list is alone new in it, so the dial is still under index 0 when its report is handled.

**The argument.** `ListReportsProofs` begins with one place and knows nothing of actions: `Ordered` survives one more list at the end (`ExtendOrdered`), a
modem that changes unheard (`SilentMove`), the first list's report being handled (`HandleOrdered`), and the first list being remembered and taken off
(`ShiftOrdered`). It then says what each handler does to the table (`Does`, `DoesRing`) and what the queue's changes do to views
and to the mirror's inbox. `CallMirrorProofs` has one `Follow...` lemma per action: it keeps `Following`, and is a step of the mirror or a
stutter (`Mirrored`). `FollowListedCall` is the heart: the report at the head of `work` brings its call to the list's entry because `Handling` shows
that `StepOK` from what the table shows excludes the cases above.

### 4.4 `CallQuietProofs`: what is left when every report is worked off

Under the same two assumptions:

* `TableSettles` (`QuietTableMatches`): when no report is queued and none is owed, the table has exactly the calls the modems have, but for
  refused ones: the same state, type and *number*, so an index used again is not taken for the call that had it before.
* `DialsSettle` (`DialIsOwedAnAnswer`): a call under index 0 then is a dial the modem still has to answer. A crash loses what was asked of the modem; what takes
  the dial out is `ClearAllCalls`, so with `"reconnect"` this is false.

**The invariant.** `ListsFit` relates the table to the lists and their order. It does not say that the last list is true, nor whose call a listed one is.
`Settled == Truth /\ Dialled`, inductive relative to `ListsInv` and `Following`, does:

* `Truth`, place by place: what was told last (the last queued list of the slot, or `callDetailsInfo_`) looks as the modem's call does
  (`LastSays`); a call that is in every list from some point on is the modem's (`NumFits`); and if it is in all of them, the number the table knows it
  by is the modem's (`ChainNum`). Nothing is claimed of a slot between the restart of cellular_call and its first list, when `callDetailsInfo_` is of calls that
  died with it.
* `Dialled`, slot by slot. The report that brings a dialled call out of index 0 does not carry a number: the table's call keeps
  the one it had under index 0, whichever that is. So there is *one dial at a time*, in the queue as its DIALING report or in
  the table under index 0; its number is the one the modem was asked for, and that of the call a later list begins (`Matches`). Something behind it
  takes it out of index 0 (`Owed`): the modem's answer, a report of its end, a list that has it, or the clearing after the service's death.

Neither property alone is inductive: `DialIsOwedAnAnswer` speaks of an empty queue only, and `QuietTableMatches` is lost when a dial whose number was not
followed from the start gets its index. TLC checked `Settled` on the instance of the run `CallLists` before it was proved.

**The argument.** One lemma per action and conjunct. The report queue's steps move the same facts from a list to `callDetailsInfo_` and the table; a modem's
move (`ModemMoves`) adds a list that says what it then has; a crash takes back what was said of every slot (`reported`). `SettledStep` is the case split over `Next`; the two theorems follow from
`Settled` and `Following` by emptying the queue.

### 4.5 `AudioSceneProofs`

For any number of calls, any split in CS and IMS, any bound of the audio queue:

* `SetsMatch` (`SetsMatchCalls`): between notifications `CallStateProcessor`'s sets are exactly the calls in the states they stand
  for, unless ANSWERED was notified for a call that no longer rang.
* `RingCaused`, `TonesCaused`: at rest whatever rings or sounds has a call that causes it.
* `AnsweredMuted` (`AnsweredIsMuted`): a single call does not ring aloud once its answer is past `MuteRinger`, whatever the audio queue, the retry task and a muting client do,
  except between the start of the player and its look for the note, and after `"crossed"`.

**The invariant.** `AudioInv == TypeOK /\ SetsInv /\ SoundInv /\ MuteInv`. `SetsInv` says where each call is while a notification is half done. `AddCall`
only adds; the old set loses the call in `HandlePriorState`, or in `PreHandleAnswerdState` when it was answered. So only the call of the current
notification may be in one set too many, or in none while its answer is between its two steps. `SoundInv` removes "at rest" from
the properties: a ring, a tone, a queued event that will start one, a thread about to start the player, has its call, *or* an event behind it in the
queue will stop it, *or* the notification that will announce the call's leaving is half done. `MuteInv` follows the only call from its first
notification to the answer: only the audio queue's thread rings for it, and it starts on a stopped ringer (`OneRinger`); and once the answer is past
`MuteRinger` a ring decided on or just begun will find the note, or the order was `"crossed"` (`NoteInv`). The property alone is not inductive
because it does not see a ring that is only decided upon.

### 4.6 `DsdaArbitrationProofs`

For any number of calls and requests, any modes and kinds of calls, and *every* set of `Races`, those that break the arbitration
included:

* `TypeCorrect` (`TypeOK`): in particular no call is kept as DISCONNECTED, and nothing is written to a call that is gone.
* `TableShown` (`TableShowsModems`): whenever the report queue is empty the table shows each call as its modem has it. Whatever goes wrong in
  the arbitration (2.3), it is what is *asked* of the modems that is wrong, never what the table says of them.

**The invariant.** `TableShowsModems` says nothing while reports are queued. `Accounts` does: every report is of a call in the table or behind
the report that introduces it; a call's DISCONNECTED is its last report; the last report of a living call, or failing one the table, tells its
state, and so does every report behind one that does; an ended call is gone, or its end is in the queue; call numbers not yet given out
occur nowhere. A report may thus be handled for a state that the modem has long left, but another one that says so is behind it.

**The argument.** Everything but the first half of a report handler is shown `Tidy`: it may set marks and send requests but changes no call's state
(`AnswerTidy`, `ArbitrateSettles` through the four `HandleCallWaiting...` functions, `RoomTidy` through `AutoUnHoldForDsda`,
`DsdaInfoTidy`), whatever stale counts it was called with; it leaves `Accounts` alone (`TidyAccounts`). The first half of a handler `Puts` one state, that of its report, which
is what taking the report off the queue needs (`TailAccounts`). What a modem does is `Reported`, and extends the queue (`ExtendAccounts`).

### 4.7 Only model-checked

* Liveness (`GateOpensAgain`, `HangupHonoured`, `RestartEndsOldCalls`): the prover does not reason about fairness.
* `DialPipeline`: `DialsIntoSilence`, and what holds at rest (`NoStrandedDial`, `TableMatchesModems`); their invariants must follow every report
  from modem to table.
* `AudioScene`: `SceneFollowsCalls` and `SilentWhenIdle` hold for the two calls of the standing instance and are false with three (3.2), so there
  is no theorem for every value of the constants.
* `DsdaArbitration`: `AcceptedIsConnected`, `OneVoice`, `SwapCompletes` and `MarksAreSpent`. They are false with four calls (3.2) and with most of
  `Races`, so what an inductive invariant would have to say holds of the standing instance's bounds only.

## 5. Plan

Done: `DialPipeline`, `CallLists` with `AntiFraud` and `CallMirror`, `DsdaArbitration`, `AudioScene`. What is left, in this order:

1. Theorems. `DialPipeline`: `NoStrandedDial` and `TableMatchesModems`, with an invariant that follows every report from modem to table, as `Settled` does
   for lists.
2. `Conference`: the CS and IMS conference objects and the policies that read them: members are live calls.
3. `VideoCallState` and `CallConnectAbility`: small machines.
4. The choice of the audio device.

The service shell, observers and notifications stay out: they marshal and forward, and keep no call-control state. Distributed
calls depend on softbus sessions outside the repository.
