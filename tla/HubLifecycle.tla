----------------------------- MODULE HubLifecycle -----------------------------
(***************************************************************************)
(* One config entry from setup to unload (__init__.py), with the hub's     *)
(* background tasks (hub.py): the two ways a parameter refresh loop comes  *)
(* to be, the shadow loop, the expiry of availability, the poller; with    *)
(* the identities the controller reports and with what the entities show.  *)
(*                                                                         *)
(* Time is not counted: a proof of availability expires at any moment, and *)
(* the expiry task, which sleeps as long as the proof lasts from a moment  *)
(* no earlier, wakes after it.  A read ends well, in vain (a               *)
(* TmtCommandError) or by an OSError of the connection.                    *)
(***************************************************************************)
EXTENDS ControllerProfile

CONSTANTS Entries,     \* config entries to try, see Entry
          MaxReports,  \* reports of the Shadow
          MaxFaults    \* connections that break, reads that fail

ASSUME BoundsAssumption == MaxReports \in Nat /\ MaxFaults \in Nat

\* What a config entry holds: the type of the account, the type the board
\* reports, whether the identifier has 20 characters, the vendor's transport
\* type, whether the stored proposal fits, and the PIN.
Entry ==
  [configured : Controller, live : Controller, uid20 : BOOLEAN, uuidType : {"0", "1"},
   proposal : BOOLEAN, pin : {"missing", "invalid", "valid"}]

ASSUME EntriesAssumption == Entries \subseteq Entry

VARIABLES
  entry,       \* the config entry
  setup,       \* where async_setup_entry and async_unload_entry are
  stopping,    \* the hub's _stopping
  profile,     \* what _set_controller_type has set
  movable,     \* gate control is enabled
  mqtt,        \* "off", "connecting", "up", "down"
  poller,      \* "none", "ready", "running", "stopped"
  loops,       \* the refresh loops, by who created them
  refreshTask, \* _refresh_task: the creator of the loop it refers to
  bootstrap,   \* the one read started with a loop of a report
  shadowLoop,  \* the task of _shadow_refresh_loop
  asked,       \* a Shadow get is out
  expiry,      \* the task that tells the entities of the end of availability
  online,      \* device_online
  synced,      \* _state_synchronized
  shadowFresh, \* the last report is younger than the grace period
  nativeFresh, \* the last native status proves availability
  entities,    \* what the platforms have created
  shown,       \* availability as the entities show it
  reports,
  faults

tasks == <<loops, refreshTask, bootstrap, shadowLoop, expiry>>
proofs == <<online, synced, shadowFresh, nativeFresh>>
control == <<setup, stopping, movable, poller>>
bounds == <<reports, faults>>
vars == <<entry, control, profile, mqtt, tasks, asked, proofs, entities, shown, bounds>>

NoEntities == [cover |-> FALSE, button |-> FALSE, layout |-> None]
Creators == {"start", "report"}
Alive == {"sleeping", "reading"}
NoLoops == [c \in Creators |-> "none"]

Probe == MayProbe(entry.configured, profile)

Available ==
  \/ nativeFresh
  \/ online # "no" /\ (shadowFresh \/ (mqtt = "up" /\ synced))

\* The listeners of the entities, which exist while the entry runs.
Notify == shown' = IF setup' = "running" THEN Available' ELSE shown
Unnotified == shown' = shown

Fault == faults < MaxFaults /\ faults' = faults + 1

Init ==
  /\ entry \in Entries
  /\ setup = "idle" /\ stopping = FALSE /\ movable = TRUE
  /\ profile = Profile(entry.configured, entry.configured)
  /\ mqtt = "off" /\ poller = "none"
  /\ loops = NoLoops /\ refreshTask = None /\ bootstrap = "none"
  /\ shadowLoop = "none" /\ asked = FALSE /\ expiry = "none"
  /\ online = "unknown" /\ synced = FALSE /\ shadowFresh = FALSE /\ nativeFresh = FALSE
  /\ entities = NoEntities /\ shown = FALSE /\ reports = 0 /\ faults = 0

-----------------------------------------------------------------------------
(* async_setup_entry *)

Ps19001Route == entry.configured = "PS19001" /\ entry.uid20
Ps17062Route == entry.configured = "PS17062" /\ entry.uid20 /\ entry.uuidType = "1"
Ps25142Route ==
  /\ entry.configured = "PS25142" /\ entry.uid20 /\ entry.uuidType = "1"
  /\ entry.proposal
NativeRoute == entry.pin = "valid" /\ (Ps19001Route \/ Ps17062Route \/ Ps25142Route)

\* The hub is built, locked if its type needs a native profile that is not
\* there, and its MQTT client started.
SetupBegins ==
  /\ setup = "idle"
  /\ setup' = "connecting"
  /\ movable' = (entry.configured \in {"PS25142", "PS17062"} => NativeRoute)
  /\ poller' = IF NativeRoute THEN "ready" ELSE "none"
  /\ mqtt' = "connecting"
  /\ UNCHANGED <<entry, stopping, profile, tasks, asked, proofs, entities, shown, bounds>>

\* MqttError: the hub is given up and Home Assistant will try again.
ConnectTimesOut ==
  /\ setup = "connecting"
  /\ Fault
  /\ setup' = "notready" /\ mqtt' = "off"
  /\ poller' = IF poller = "ready" THEN "stopped" ELSE poller
  /\ UNCHANGED <<entry, stopping, movable, profile, tasks, asked, proofs, entities, shown,
                 reports>>

Retry ==
  /\ setup = "notready"
  /\ setup' = "idle" /\ poller' = "none"
  /\ UNCHANGED <<entry, stopping, movable, profile, mqtt, tasks, asked, proofs, entities,
                 shown, bounds>>

\* async_start creates its loop whatever _refresh_task refers to by now.
LoopOfStart ==
  /\ loops' = [loops EXCEPT !["start"] = "sleeping"]
  /\ refreshTask' = "start"
  /\ shadowLoop' = "sleeping"

Started ==
  /\ setup = "started"
  /\ IF Probe
       THEN setup' = "probing" /\ UNCHANGED tasks
       ELSE /\ setup' = "frontend" /\ shadowLoop' = "sleeping"
            /\ UNCHANGED <<loops, refreshTask, bootstrap, expiry>>
  /\ UNCHANGED <<entry, stopping, movable, poller, profile, mqtt, asked, proofs, entities, shown,
                 bounds>>

\* The first read of the parameters has ended, well or with a TmtCommandError.
FirstReadEnds ==
  /\ setup = "probing"
  /\ setup' = "frontend"
  /\ LoopOfStart
  /\ UNCHANGED <<entry, stopping, movable, poller, profile, mqtt, bootstrap, expiry, asked,
                 proofs, entities, bounds>>
  /\ Notify

\* An OSError leaves async_setup_entry: the hub runs on and nobody owns it.
FirstReadBreaks ==
  /\ setup = "probing" /\ poller = "none"
  /\ Fault
  /\ setup' = "failed"
  /\ UNCHANGED <<entry, stopping, movable, poller, profile, mqtt, tasks, asked, proofs, entities,
                 shown, reports>>

\* Services and frontend are registered, the poller is started.
FrontendReady ==
  /\ setup = "frontend"
  /\ setup' = "platforms"
  /\ poller' = IF poller = "ready" THEN "running" ELSE poller
  /\ UNCHANGED <<entry, stopping, movable, profile, mqtt, tasks, asked, proofs, entities, shown,
                 bounds>>

\* The platforms create their entities from the profile of this moment.
PlatformsReady ==
  /\ setup = "platforms"
  /\ setup' = "running"
  /\ entities' =
       [cover |-> HasCover(profile),
        button |-> HasPedestrianButton(entry.configured, profile, TRUE),
        layout |-> EntityLayout(entry.configured, profile)]
  /\ UNCHANGED <<entry, stopping, movable, poller, profile, mqtt, tasks, asked, proofs, bounds>>
  /\ Notify

-----------------------------------------------------------------------------
(* MQTT: _mqtt_state_changed and _async_message *)

\* Mutant: the expiry is cancelled and no Shadow is asked for.
ConnectsSilently ==
  /\ mqtt \in {"connecting", "down"}
  /\ mqtt' = "up" /\ synced' = FALSE
  /\ expiry' = "none" /\ asked' = asked
  /\ setup' = IF setup = "connecting" THEN "started" ELSE setup
  /\ UNCHANGED <<entry, stopping, movable, poller, profile, loops, refreshTask, bootstrap,
                 shadowLoop, online, shadowFresh, nativeFresh, entities, bounds>>
  /\ Notify

Connects ==
  /\ mqtt \in {"connecting", "down"}
  /\ mqtt' = "up" /\ synced' = FALSE
  /\ expiry' = "none" /\ asked' = TRUE
  /\ setup' = IF setup = "connecting" THEN "started" ELSE setup
  /\ UNCHANGED <<entry, stopping, movable, poller, profile, loops, refreshTask, bootstrap,
                 shadowLoop, online, shadowFresh, nativeFresh, entities, bounds>>
  /\ Notify

\* Mutant: a disconnection during the stop starts the expiry all the same.
ExpiresAlways == "sleeping"

ExpiresUnlessStopping == IF stopping THEN expiry ELSE "sleeping"

Disconnects ==
  /\ mqtt = "up"
  /\ Fault
  /\ mqtt' = "down" /\ asked' = FALSE
  /\ expiry' = ExpiresUnlessStopping
  /\ setup' = setup
  /\ UNCHANGED <<entry, stopping, movable, poller, profile, loops, refreshTask, bootstrap,
                 shadowLoop, proofs, entities, reports>>
  /\ Notify

\* Mutant: a report starts a loop only for the identity of the account.
LoopForAccountOnly(new) ==
  /\ new.type = entry.configured
  /\ MayProbe(entry.configured, new)
  /\ refreshTask = None /\ ~stopping

\* A new identity that has parameters gets a loop unless one is referred to.
LoopFor(new) ==
  /\ new.type # profile.type
  /\ MayProbe(entry.configured, new)
  /\ refreshTask = None /\ ~stopping

Identified(live) ==
  LET new == Profile(entry.configured, live)
  IN /\ profile' = new
     /\ IF LoopFor(new)
          THEN /\ loops' = [loops EXCEPT !["report"] = "sleeping"]
               /\ refreshTask' = "report" /\ bootstrap' = "reading"
          ELSE UNCHANGED <<loops, refreshTask, bootstrap>>

\* _apply_reported: the answer to a get, or an update of the controller's own;
\* it may carry connected, and dev info with the identity.
ShadowArrives ==
  /\ mqtt = "up"
  /\ asked \/ reports < MaxReports
  /\ reports' = IF asked THEN reports ELSE reports + 1
  /\ asked' = FALSE
  /\ synced' = TRUE /\ shadowFresh' = TRUE
  /\ \E now \in {"yes", "no", online} : online' = now
  /\ \/ Identified(entry.live)
     \/ UNCHANGED <<profile, loops, refreshTask, bootstrap>>
  /\ setup' = setup
  /\ UNCHANGED <<entry, stopping, movable, poller, mqtt, shadowLoop, expiry, nativeFresh,
                 entities, faults>>
  /\ Notify

-----------------------------------------------------------------------------
(* The background tasks *)

LoopWakes(c) ==
  /\ loops[c] = "sleeping" /\ Available /\ Probe
  /\ loops' = [loops EXCEPT ![c] = "reading"]
  /\ UNCHANGED <<entry, control, profile, mqtt, refreshTask, bootstrap, shadowLoop, expiry, asked,
                 proofs, entities, shown, bounds>>

LoopReads(c) ==
  /\ loops[c] = "reading"
  /\ loops' = [loops EXCEPT ![c] = "sleeping"]
  /\ setup' = setup
  /\ UNCHANGED <<entry, stopping, movable, poller, profile, mqtt, refreshTask, bootstrap,
                 shadowLoop, expiry, asked, proofs, entities, bounds>>
  /\ Notify

\* Only TmtCommandError is caught: an OSError of the MQTT connection ends the loop.
LoopDies(c) ==
  /\ loops[c] = "reading" /\ poller = "none"
  /\ Fault
  /\ loops' = [loops EXCEPT ![c] = "dead"]
  /\ UNCHANGED <<entry, control, profile, mqtt, refreshTask, bootstrap, shadowLoop, expiry, asked,
                 proofs, entities, shown, reports>>

BootstrapEnds ==
  /\ bootstrap = "reading"
  /\ bootstrap' = "done"
  /\ setup' = setup
  /\ UNCHANGED <<entry, stopping, movable, poller, profile, mqtt, loops, refreshTask, shadowLoop,
                 expiry, asked, proofs, entities, bounds>>
  /\ Notify

ShadowLoopWakes ==
  /\ shadowLoop = "sleeping" /\ mqtt = "up" /\ ~asked
  /\ asked' = TRUE
  /\ UNCHANGED <<entry, control, profile, mqtt, tasks, proofs, entities, shown, bounds>>

ShadowLoopDies ==
  /\ shadowLoop = "sleeping" /\ mqtt = "up"
  /\ Fault
  /\ shadowLoop' = "dead"
  /\ UNCHANGED <<entry, control, profile, mqtt, loops, refreshTask, bootstrap, expiry, asked,
                 proofs, entities, shown, reports>>

ExpiryWakes ==
  /\ expiry = "sleeping" /\ ~shadowFresh
  /\ expiry' = "none"
  /\ setup' = setup
  /\ UNCHANGED <<entry, stopping, movable, poller, profile, mqtt, loops, refreshTask, bootstrap,
                 shadowLoop, asked, proofs, entities, bounds>>
  /\ Notify

\* One round of the poller: a status that was read, or a failure; the
\* entities are told of both.
Polls(read) ==
  /\ poller = "running"
  /\ nativeFresh' = (read \/ nativeFresh)
  /\ setup' = setup
  /\ UNCHANGED <<entry, stopping, movable, poller, profile, mqtt, tasks, asked, online, synced,
                 shadowFresh, entities, bounds>>
  /\ Notify

ShadowExpires ==
  /\ shadowFresh /\ shadowFresh' = FALSE
  /\ Unnotified
  /\ UNCHANGED <<entry, control, profile, mqtt, tasks, asked, online, synced, nativeFresh,
                 entities, bounds>>

NativeExpires ==
  /\ nativeFresh /\ nativeFresh' = FALSE
  /\ Unnotified
  /\ UNCHANGED <<entry, control, profile, mqtt, tasks, asked, online, synced, shadowFresh,
                 entities, bounds>>

-----------------------------------------------------------------------------
(* async_unload_entry and async_stop, from one await to the next *)

UnloadBegins ==
  /\ setup = "running"
  /\ setup' = "unloading"
  /\ entities' = NoEntities
  /\ UNCHANGED <<entry, stopping, movable, profile, mqtt, poller, tasks, asked, proofs, shown,
                 bounds>>

\* The hub stops once the poller has: _stopping, and the loop referred to is
\* cancelled and awaited.  A loop that died raises here, and nothing more is stopped.
StopRefresh ==
  /\ setup = "unloading"
  /\ poller' = IF poller = "running" THEN "stopped" ELSE poller
  /\ stopping' = TRUE
  /\ IF refreshTask # None /\ loops[refreshTask] = "dead"
       THEN setup' = "raised" /\ UNCHANGED <<loops, refreshTask>>
       ELSE /\ setup' = "stopping_shadow"
            /\ loops' = [c \in Creators |-> IF c = refreshTask THEN "ended" ELSE loops[c]]
            /\ refreshTask' = None
  /\ UNCHANGED <<entry, movable, profile, mqtt, bootstrap, shadowLoop, expiry, asked, proofs,
                 entities, shown, bounds>>

StopShadow ==
  /\ setup = "stopping_shadow"
  /\ IF shadowLoop = "dead"
       THEN setup' = "raised" /\ UNCHANGED <<shadowLoop, expiry>>
       ELSE setup' = "stopping_mqtt" /\ shadowLoop' = "ended" /\ expiry' = "none"
  /\ UNCHANGED <<entry, stopping, movable, poller, profile, mqtt, loops, refreshTask, bootstrap,
                 asked, proofs, entities, shown, bounds>>

\* The waiters are cancelled: a task that waits for an answer ends with its
\* waiter, one that still waits for the transaction lock does not.
StopMqtt ==
  /\ setup = "stopping_mqtt"
  /\ setup' = "unloaded" /\ mqtt' = "off" /\ asked' = FALSE
  /\ \/ UNCHANGED <<loops, bootstrap>>
     \/ /\ "reading" \in {loops["report"], bootstrap}
        /\ loops' = [c \in Creators |-> IF loops[c] = "reading" THEN "ended" ELSE loops[c]]
        /\ bootstrap' = IF bootstrap = "reading" THEN "done" ELSE bootstrap
  /\ UNCHANGED <<entry, stopping, movable, poller, profile, refreshTask, shadowLoop, expiry,
                 proofs, entities, shown, bounds>>

-----------------------------------------------------------------------------
Setup == SetupBegins \/ Started \/ FirstReadEnds \/ FrontendReady \/ PlatformsReady
Unload == StopRefresh \/ StopShadow \/ StopMqtt
Task ==
  \/ \E c \in Creators : LoopWakes(c) \/ LoopReads(c) \/ LoopDies(c)
  \/ BootstrapEnds \/ ShadowLoopWakes \/ ShadowLoopDies \/ ExpiryWakes
  \/ \E read \in BOOLEAN : Polls(read)
Clock == ShadowExpires \/ NativeExpires

Next ==
  \/ Setup \/ ConnectTimesOut \/ Retry \/ FirstReadBreaks
  \/ Connects \/ Disconnects \/ ShadowArrives
  \/ Task \/ Clock \/ UnloadBegins \/ Unload

\* Tasks run, sleeps end, reads time out, time passes, and the broker answers a
\* get while the connection lasts.  Nothing else has to happen.
Fairness ==
  /\ WF_vars(Setup) /\ WF_vars(Unload)
  /\ WF_vars(asked /\ ShadowArrives) /\ WF_vars(ExpiryWakes)
  /\ WF_vars(\E read \in BOOLEAN : Polls(read))
  /\ WF_vars(ShadowExpires)

Spec == Init /\ [][Next]_vars /\ Fairness

-----------------------------------------------------------------------------
\* What the five chains of conditions make of an identity fits together, for
\* every identity the controller reports (hub.py, ps21050d_hub.py, select.py).
FrameFits == Consistent(entry.configured, profile)

\* While an entry runs whose controller has a readable profile, a loop reads
\* it: the start, or the report that brought the identity, created one
\* (async_start, _apply_reported).  A loop that an OSError ended is not replaced.
ParametersWatched ==
  setup = "running" /\ Probe =>
    \E c \in Creators : loops[c] \in Alive \cup {"dead"}

\* A complete unload leaves nothing of the hub running but a loop of a report
\* that async_start overwrote while it ran (async_start, async_stop).
UnloadedIsQuiet ==
  setup = "unloaded" =>
    /\ mqtt = "off" /\ expiry = "none" /\ poller # "running"
    /\ shadowLoop \notin Alive /\ loops["start"] \notin Alive
    /\ loops["report"] \in Alive => loops["start"] # "none"

\* While the entry runs the entities come back to what the hub knows of its
\* availability: every expiry of a proof is announced by the expiry task, by
\* the answer of the Shadow or by the poller.
AvailabilityShown == <>[](setup = "running") => []<>(shown = Available)

=============================================================================
