--------------------------- MODULE HubLifecycleProofs ---------------------------
(***************************************************************************)
(* Proofs about HubLifecycle for any config entries, any number of reports *)
(* and of failures: a readable controller is watched, an unload leaves     *)
(* nothing running, and no end of availability is without an announcer.    *)
(***************************************************************************)
EXTENDS HubLifecycle, TLAPS

(***************************************************************************)
(* The inductive invariant                                                 *)
(***************************************************************************)

\* The profile is that of an identity the hub has heard of.
Identity ==
  /\ entry \in Entry
  /\ profile \in {Profile(entry.configured, t) : t \in {entry.configured, entry.live}}

\* Until the hub stops, a loop that runs is the one referred to, or one of a
\* report that the start has overwritten.
LoopsInv ==
  /\ loops \in [Creators -> {"none", "ended", "dead"} \cup Alive]
  /\ refreshTask \in Creators \cup {None}
  /\ refreshTask # None => loops[refreshTask] \in Alive \cup {"dead"}
  /\ loops["start"] \in Alive => refreshTask = "start"
  /\ loops["report"] \in Alive => refreshTask # None \/ loops["start"] # "none"

Settled == setup \in {"frontend", "platforms", "running"}

\* Once the start has looked, a readable profile has its loop.
Watched == Settled /\ Probe => refreshTask # None

\* What each step of the stop has ended stays ended.
Stopped ==
  /\ setup \in {"idle", "connecting", "notready", "started", "probing", "frontend", "platforms",
                "running"} => ~stopping
  /\ setup \in {"stopping_shadow", "stopping_mqtt", "unloaded"} =>
       stopping /\ refreshTask = None /\ poller # "running"
  /\ setup \in {"stopping_mqtt", "unloaded"} => shadowLoop \notin Alive /\ expiry = "none"
  /\ setup = "unloaded" => mqtt = "off"

IInv == Identity /\ LoopsInv /\ Watched /\ Stopped

(***************************************************************************)
(* Identities                                                              *)
(***************************************************************************)

\* What the first of the two hubs makes of an identity.
LEMMA BaseFields ==
  ASSUME NEW c \in Controller, NEW t \in Controller
  PROVE  /\ BaseProfile(c, t).type = t
         /\ c = "PS25007" /\ t \in {"PS25007", "PS25007A"} =>
              BaseProfile(c, t).model = "PS25007A" /\ BaseProfile(c, t).schema = "PS21053"
         /\ t \in {"PS25142", "PS21050D"} \cup AppModels => BaseProfile(c, t).model = t
         /\ t \in AppModels => BaseProfile(c, t).schema = AppSchema(t)
         /\ (t \notin AppModels \cup {"PS25142", "PS21050D"}
             /\ ~(c = "PS25007" /\ t \in {"PS25007", "PS25007A"})) =>
              IF c \in AppModels
              THEN BaseProfile(c, t).model = c /\ BaseProfile(c, t).schema = AppSchema(c)
              ELSE BaseProfile(c, t).model = None /\ BaseProfile(c, t).schema = None
<1>1. "PS25142" \notin AppModels /\ "PS21050D" \notin AppModels
      /\ "PS25007" \notin AppModels /\ "PS25007A" \notin AppModels
  BY DEF AppModels, Sliding, Swing, Garage
<1> QED
  BY <1>1 DEF BaseProfile, Own

Fields == {"type", "family", "capabilities", "model", "source", "schema"}

LEMMA VerifiedFields ==
  ASSUME NEW b, DOMAIN b = Fields, b.type \in {"PS19001", "PS22027"} => b.model = b.type
  PROVE  LET p == VerifiedSchema(b)
         IN  /\ p.type = b.type /\ p.model = b.model
             /\ b.type = "PS19001" => p.schema = "PS19001Wire"
             /\ b.type = "PS22027" =>
                  p.schema = "PS22027Wire" /\ p.source = "ps22027_wire20_verified"
             /\ b.type \notin {"PS19001", "PS22027"} => p.schema = b.schema
<1>1. CASE b.type = "PS19001"
  <2>1. VerifiedSchema(b) = [b EXCEPT !.schema = "PS19001Wire",
                                      !.source = "ps19001_wire19_verified"]
    BY <1>1 DEF VerifiedSchema
  <2> QED
    BY <1>1, <2>1 DEF Fields
<1>2. CASE b.type = "PS22027"
  <2>1. VerifiedSchema(b) = [b EXCEPT !.schema = "PS22027Wire",
                                      !.source = "ps22027_wire20_verified"]
    BY <1>2 DEF VerifiedSchema
  <2> QED
    BY <1>2, <2>1 DEF Fields
<1>3. CASE b.type = "PS20005A"
  <2>1. VerifiedSchema(b) = [b EXCEPT !.family = ControllerFamily("PS20005"),
                                      !.capabilities = ControllerCapabilities("PS20005")]
    BY <1>3 DEF VerifiedSchema
  <2> QED
    BY <1>3, <2>1 DEF Fields
<1>4. CASE b.type \notin {"PS19001", "PS22027", "PS20005A"}
  <2>1. VerifiedSchema(b) = b
    BY <1>4 DEF VerifiedSchema
  <2> QED
    BY <1>4, <2>1
<1> QED
  BY <1>1, <1>2, <1>3, <1>4

LEMMA BaseVerified ==
  ASSUME NEW c \in Controller, NEW t \in Controller
  PROVE  LET b == BaseProfile(c, t)
             p == VerifiedSchema(b)
         IN  /\ p.type = t /\ p.model = b.model
             /\ t = "PS19001" => p.schema = "PS19001Wire"
             /\ t = "PS22027" => p.schema = "PS22027Wire" /\ p.source = "ps22027_wire20_verified"
             /\ t \notin {"PS19001", "PS22027"} => p.schema = b.schema
<1>1. DOMAIN BaseProfile(c, t) = Fields
  BY DEF BaseProfile, Own, Fields
<1>2. BaseProfile(c, t).type = t /\ (t \in {"PS19001", "PS22027"} => BaseProfile(c, t).model = t)
  BY BaseFields DEF AppModels, Swing
<1> QED
  BY <1>1, <1>2, VerifiedFields

\* A profile is named for the identity it was made of.
LEMMA ProfileType ==
  ASSUME NEW c \in Controller, NEW t \in Controller
  PROVE  Profile(c, t).type = t
BY BaseVerified DEF Profile

\* The fields that decide how frames are read and written, by identity.
LEMMA ProfileFields ==
  ASSUME NEW c \in Controller, NEW t \in Controller
  PROVE  LET p == Profile(c, t)
             Alias24118 == c = "PS24118" /\ t \in {"PS24118", "PS24118C"}
             Board22087 == c = "PS22087" /\ t \in {"PS22087", "PS22087B"}
             Alias20040 == c = "PS20040" /\ t = "PS20040D"
             Alias21050 == c = "PS21050" /\ t \in {"PS21050C", "PS21050D"}
             b == BaseProfile(c, t)
         IN  /\ Alias24118 => p.model = None /\ p.schema = None
             /\ Board22087 /\ t = "PS22087" => p.model = None /\ p.schema = None
             /\ Board22087 /\ t = "PS22087B" =>
                  /\ p.model = "PS22087B" /\ p.schema = "PS22087B"
                  /\ p.source = "ps22087b_wire15_verified"
             /\ Alias20040 => p.model = "PS20040" /\ p.schema = "PS20040"
             /\ Alias21050 => p.model = "PS21050D" /\ p.schema = "PS21050Wire"
             /\ ~Alias24118 /\ ~Board22087 /\ ~Alias20040 /\ ~Alias21050 =>
                  p = VerifiedSchema(b)
<1>1. ASSUME c = "PS20040", t = "PS20040D"
      PROVE  BaseProfile(c, t).model = "PS20040" /\ BaseProfile(c, t).schema = "PS20040"
  BY <1>1, BaseFields DEF AppModels, AppSchema, Sliding, Swing, Garage
<1> QED
  BY <1>1 DEF Profile

LEMMA AppSchemas ==
  /\ \A m \in AppModels : AppSchema(m) \in Layout \ {"PS21050Raw"} /\ AppSchema(m) # None
  /\ None \notin AppModels
BY DEF AppModels, Sliding, Swing, Garage, AppSchema, Layout, Slots, None

LEMMA Agreement ==
  ASSUME NEW c, NEW p, NEW layout \in Layout \ {"PS21050Raw"},
         FrameLayout(c, p) = layout,
         MayWrite(c, p) => EntityLayout(c, p) = layout,
         ParameterTransport(c, p) = IF p.model \in Uart0 THEN "READ FUNCTION" ELSE "RP,1"
  PROVE  Consistent(c, p)
BY DEF Consistent, None

LEMMA Layouts == {"PS22087B", "PS20040", "PS21050Wire", "PS21053", "PS25142"}
                 \subseteq Layout \ {"PS21050Raw"}
BY DEF Layout, Slots

\* Transport, decoder and entities agree on every pair of identities.
LEMMA IdentitiesFit ==
  ASSUME NEW c \in Controller, NEW t \in Controller
  PROVE  Consistent(c, Profile(c, t))
<1> DEFINE p == Profile(c, t)
           b == BaseProfile(c, t)
<1>1. p.type = t
  BY ProfileType
<1>2. CASE c = "PS24118" /\ t \in {"PS24118", "PS24118C"}
  <2>1. p.model = None /\ p.schema = None
    BY <1>2, ProfileFields
  <2> HIDE DEF p
  <2>2. Consistent(c, p)
    BY <1>1, <1>2, <2>1, AppSchemas
       DEF None, Consistent, MayWrite, MayProbe, IsPs25007aProfile, IsPs22087bAlias,
           IsPs22027Verified
  <2> QED
    BY <2>2 DEF p
<1>3. CASE c = "PS22087" /\ t = "PS22087"
  <2>1. p.model = None /\ p.schema = None
    BY <1>3, ProfileFields
  <2> HIDE DEF p
  <2>2. Consistent(c, p)
    BY <1>1, <1>3, <2>1, AppSchemas
       DEF None, Consistent, MayWrite, MayProbe, IsPs25007aProfile, IsPs22087bAlias,
           IsPs22027Verified
  <2> QED
    BY <2>2 DEF p
<1>4. CASE c = "PS22087" /\ t = "PS22087B"
  <2>1. /\ p.model = "PS22087B" /\ p.schema = "PS22087B"
        /\ p.source = "ps22087b_wire15_verified"
    BY <1>4, ProfileFields
  <2> HIDE DEF p
  <2>2. IsPs22087bAlias(c, p)
    BY <1>1, <1>4, <2>1 DEF IsPs22087bAlias
  <2>6. ~IsPs22027Verified(p) /\ ~IsPs25007aProfile(c, p)
    BY <1>1, <1>4 DEF IsPs22027Verified, IsPs25007aProfile
  <2>3. ParameterTransport(c, p) = "RP,1" /\ FrameLayout(c, p) = "PS22087B"
    <3>1. ParameterTransport(c, p) = "RP,1"
      BY <2>2 DEF ParameterTransport
    <3>2. FrameLayout(c, p) = "PS22087B"
      BY <2>1, <2>2, <2>6 DEF FrameLayout
    <3> QED
      BY <3>1, <3>2
  <2>4. EntityLayout(c, p) = "PS22087B"
    BY <2>1, <2>2 DEF EntityLayout, MayWrite
  <2>5. Consistent(c, p)
    BY <2>1, <2>3, <2>4, Agreement, Layouts DEF Uart0
  <2> QED
    BY <2>5 DEF p
<1>5. CASE c = "PS20040" /\ t = "PS20040D"
  <2>1. p.model = "PS20040" /\ p.schema = "PS20040"
    BY <1>5, ProfileFields
  <2> HIDE DEF p
  <2>2. ~IsPs22087bAlias(c, p) /\ ~IsPs25007aProfile(c, p) /\ ~IsPs22027Verified(p)
    BY <1>1, <1>5 DEF IsPs22087bAlias, IsPs25007aProfile, IsPs22027Verified
  <2>3. "PS20040" \in AppModels /\ AppSchema("PS20040") = "PS20040"
    BY DEF AppModels, Sliding, AppSchema
  <2>4. ParameterTransport(c, p) = "RP,1" /\ FrameLayout(c, p) = "PS20040"
    BY <2>1, <2>2, <2>3 DEF ParameterTransport, FrameLayout, Uart0, None
  <2>6. MayWrite(c, p) => EntityLayout(c, p) = "PS20040"
    BY <2>1 DEF EntityLayout
  <2>7. Consistent(c, p)
    BY <2>1, <2>4, <2>6, Agreement, Layouts DEF Uart0
  <2> QED
    BY <2>7 DEF p
<1>6. CASE c = "PS21050" /\ t \in {"PS21050C", "PS21050D"}
  <2>1. p.model = "PS21050D" /\ p.schema = "PS21050Wire"
    BY <1>6, ProfileFields
  <2> HIDE DEF p
  <2>2. ~IsPs22087bAlias(c, p) /\ ~IsPs25007aProfile(c, p) /\ ~IsPs22027Verified(p)
    BY <1>1, <1>6 DEF IsPs22087bAlias, IsPs25007aProfile, IsPs22027Verified
  <2>3. ParameterTransport(c, p) = "RP,1" /\ FrameLayout(c, p) = "PS21050Wire"
    BY <2>1, <2>2 DEF ParameterTransport, FrameLayout
  <2>4. MayWrite(c, p) => EntityLayout(c, p) = "PS21050Wire"
    BY <2>1 DEF EntityLayout
  <2>5. Consistent(c, p)
    BY <2>1, <2>3, <2>4, Agreement, Layouts DEF Uart0
  <2> QED
    BY <2>5 DEF p
<1>7. CASE /\ ~(c = "PS24118" /\ t \in {"PS24118", "PS24118C"})
           /\ ~(c = "PS22087" /\ t \in {"PS22087", "PS22087B"})
           /\ ~(c = "PS20040" /\ t = "PS20040D")
           /\ ~(c = "PS21050" /\ t \in {"PS21050C", "PS21050D"})
  <2>1. /\ p.model = b.model
        /\ t = "PS19001" => p.schema = "PS19001Wire"
        /\ t = "PS22027" => p.schema = "PS22027Wire" /\ p.source = "ps22027_wire20_verified"
        /\ t \notin {"PS19001", "PS22027"} => p.schema = b.schema
    <3>1. p = VerifiedSchema(b)
      BY <1>7, ProfileFields
    <3> QED
      BY <3>1, BaseVerified
  <2>2. ~IsPs22087bAlias(c, p) /\ ~IsAlias(c, p)
    BY <1>1, <1>7 DEF IsPs22087bAlias, IsAlias
  <2>3. CASE c = "PS25007" /\ t \in {"PS25007", "PS25007A"}
    <3>1. p.model = "PS25007A" /\ p.schema = "PS21053"
      BY <2>1, <2>3, BaseFields
    <3> HIDE DEF p
    <3>2. IsPs25007aProfile(c, p) /\ ~IsPs22027Verified(p)
      BY <1>1, <2>3, <3>1 DEF IsPs25007aProfile, IsPs22027Verified
    <3>3. ParameterTransport(c, p) = "RP,1" /\ FrameLayout(c, p) = "PS21053"
      BY <2>2, <3>1, <3>2 DEF ParameterTransport, FrameLayout
    <3>4. MayWrite(c, p) => EntityLayout(c, p) = "PS21053"
      BY <3>1 DEF EntityLayout
    <3>5. Consistent(c, p)
      BY <3>1, <3>3, <3>4, Agreement, Layouts DEF Uart0
    <3> QED
      BY <3>5 DEF p
  <2>4. CASE t = "PS25142"
    <3>1. p.model = "PS25142"
      BY <2>1, <2>4, BaseFields
    <3> HIDE DEF p
    <3>2. ~IsPs25007aProfile(c, p) /\ ~IsPs22027Verified(p)
      BY <3>1 DEF IsPs25007aProfile, IsPs22027Verified
    <3>3. ParameterTransport(c, p) = "RP,1" /\ FrameLayout(c, p) = "PS25142"
      BY <2>2, <3>1, <3>2 DEF ParameterTransport, FrameLayout
    <3>4. MayWrite(c, p) => EntityLayout(c, p) = "PS25142"
      BY <3>1 DEF EntityLayout
    <3>5. Consistent(c, p)
      BY <3>1, <3>3, <3>4, Agreement, Layouts DEF Uart0
    <3> QED
      BY <3>5 DEF p
  <2>5. CASE t = "PS21050D"
    <3>1. p.model = "PS21050D"
      BY <2>1, <2>5, BaseFields
    <3> HIDE DEF p
    <3>2. ~MayWrite(c, p)
      BY <1>1, <2>2, <2>5, <3>1 DEF MayWrite, IsPs25007aProfile, IsPs22027Verified
    <3> QED
      BY <3>2 DEF Consistent, p
  <2>6. CASE t \in AppModels
    <3>1. p.model = t /\ (t \notin {"PS19001", "PS22027"} => p.schema = AppSchema(t))
      BY <2>1, <2>6, BaseFields
    <3> DEFINE layout == CASE t = "PS19001" -> "PS19001Wire" [] t = "PS22027" -> "PS22027Wire"
                           [] OTHER -> AppSchema(t)
    <3>2. p.schema = layout /\ layout \in Layout \ {"PS21050Raw"} /\ layout # None
      BY <2>1, <2>6, <3>1, AppSchemas DEF Layout, Slots, None
    <3>3. /\ t \notin {"PS25142", "PS21050D", "PS25007A"}
          /\ t = "PS22027" => IsPs22027Verified(p)
          /\ t # "PS22027" => ~IsPs22027Verified(p)
          /\ ~IsPs25007aProfile(c, p)
      BY <1>1, <2>1, <2>6, <3>1
         DEF AppModels, Sliding, Swing, Garage, IsPs22027Verified, IsPs25007aProfile
    <3> HIDE DEF p, layout
    <3>4. FrameLayout(c, p) = layout
      BY <2>2, <3>1, <3>3 DEF FrameLayout, layout
    <3>5. EntityLayout(c, p) = layout \/ ~MayWrite(c, p)
      BY <3>1, <3>2, <3>3 DEF EntityLayout
    <3>6. ParameterTransport(c, p) = IF t \in Uart0 THEN "READ FUNCTION" ELSE "RP,1"
      BY <2>2, <2>6, <3>1, <3>2, <3>3 DEF ParameterTransport
    <3>7. Consistent(c, p)
      BY <3>1, <3>2, <3>4, <3>5, <3>6, Agreement
    <3> QED
      BY <3>7 DEF p
  <2>7. CASE /\ t \notin AppModels \cup {"PS25142", "PS21050D"}
             /\ ~(c = "PS25007" /\ t \in {"PS25007", "PS25007A"})
    <3>1. \/ p.model = c /\ c \in AppModels
          \/ p.model = None
      BY <2>1, <2>7, BaseFields
    <3>2. p.model # None => t \notin {"PS22027", "PS25142"} /\ p.model # t
      BY <2>7, <3>1 DEF AppModels, Swing
    <3> HIDE DEF p
    <3>3. ~MayWrite(c, p)
      <4>1. ~IsPs22027Verified(p) /\ ~IsPs25007aProfile(c, p)
        BY <1>1, <2>7, <3>1 DEF IsPs22027Verified, IsPs25007aProfile, AppModels, Swing
      <4> QED
        BY <1>1, <2>2, <3>1, <3>2, <4>1 DEF MayWrite
    <3> QED
      BY <3>3 DEF Consistent, p
  <2> QED
    BY <2>3, <2>4, <2>5, <2>6, <2>7
<1> QED
  BY <1>2, <1>3, <1>4, <1>5, <1>6, <1>7

(***************************************************************************)
(* The invariant                                                           *)
(***************************************************************************)

LEMMA InitInv == Init => IInv
BY EntriesAssumption DEF Init, IInv, Identity, LoopsInv, Watched, Settled, Stopped, NoLoops,
                         Creators, None, Alive

LEMMA NextInv == IInv /\ [Next]_vars => IInv'
<1> SUFFICES ASSUME IInv, [Next]_vars PROVE IInv'
  OBVIOUS
<1> USE DEF IInv, LoopsInv, Creators, None
<1> USE DEF Alive
<1> DEFINE Kept == UNCHANGED <<entry, profile>>
\* A step that leaves loops, identity and what is stopped alone.
<1>0. ASSUME Kept, UNCHANGED <<loops, refreshTask>>,
             Settled' => Settled \/ (Probe => refreshTask # None), Stopped'
      PROVE  IInv'
  BY <1>0 DEF Identity, Watched, Probe
<1>1. CASE SetupBegins
  BY <1>0, <1>1 DEF SetupBegins, tasks, Stopped, Settled
<1>2. CASE ConnectTimesOut
  BY <1>0, <1>2 DEF ConnectTimesOut, tasks, Stopped, Settled
<1>3. CASE Retry
  BY <1>0, <1>3 DEF Retry, tasks, Stopped, Settled
<1>4. CASE Started
  BY <1>0, <1>4 DEF Started, tasks, Stopped, Settled
<1>5. CASE FirstReadEnds
  BY <1>5 DEF FirstReadEnds, LoopOfStart, Identity, Watched, Stopped
<1>6. CASE FirstReadBreaks
  BY <1>0, <1>6 DEF FirstReadBreaks, tasks, Stopped, Settled
<1>7. CASE FrontendReady
  BY <1>0, <1>7 DEF FrontendReady, tasks, Stopped, Settled
<1>8. CASE PlatformsReady
  BY <1>0, <1>8 DEF PlatformsReady, tasks, Stopped, Settled
<1>9. CASE Connects
  BY <1>0, <1>9 DEF Connects, Stopped, Settled
<1>10. CASE Disconnects
  BY <1>0, <1>10 DEF Disconnects, ExpiresUnlessStopping, Stopped, Settled
<1>11. CASE ShadowArrives
  <2>1. UNCHANGED <<entry, setup, stopping, mqtt, poller, shadowLoop, expiry>>
    BY <1>11 DEF ShadowArrives
  <2>5. Identified(entry.live) \/ UNCHANGED <<profile, loops, refreshTask>>
    BY <1>11 DEF ShadowArrives
  <2>2. Stopped'
    <3>1. refreshTask' = refreshTask \/ ~stopping
      BY <2>5 DEF Identified, LoopFor
    <3> QED
      BY <2>1, <3>1 DEF Stopped
  <2>3. CASE UNCHANGED <<profile, loops, refreshTask>>
    BY <1>0, <2>1, <2>2, <2>3 DEF Settled
  <2>4. CASE Identified(entry.live)
    <3> DEFINE new == Profile(entry.configured, entry.live)
    <3>1. entry \in Entry /\ entry.configured \in Controller /\ entry.live \in Controller
      BY DEF Identity, Entry
    <3>2. profile' = new /\ Identity'
      BY <2>1, <2>4, <3>1 DEF Identified, Identity
    <3>3. new.type = profile.type => new = profile
      <4>1. PICK t \in {entry.configured, entry.live} : profile = Profile(entry.configured, t)
        BY DEF Identity
      <4>2. new.type = entry.live /\ profile.type = t
        BY <3>1, <4>1, ProfileType
      <4> QED
        BY <4>1, <4>2
    <3> HIDE DEF new
    <3>4. CASE LoopFor(new)
      <4>1. loops' = [loops EXCEPT !["report"] = "sleeping"] /\ refreshTask' = "report"
        BY <2>4, <3>4 DEF Identified, new
      <4>2. refreshTask = None
        BY <3>4 DEF LoopFor
      <4> QED
        BY <2>2, <3>2, <4>1, <4>2 DEF Watched
    <3>5. CASE ~LoopFor(new)
      <4>1. UNCHANGED <<loops, refreshTask>>
        BY <2>4, <3>5 DEF Identified, new
      <4>2. Settled => ~stopping
        BY DEF Settled, Stopped
      <4>3. Watched'
        BY <2>1, <3>2, <3>3, <3>5, <4>1, <4>2 DEF LoopFor, Watched, Settled, Probe
      <4> QED
        BY <2>2, <3>2, <4>1, <4>3
    <3> QED
      BY <3>4, <3>5
  <2> QED
    BY <2>3, <2>4, <2>5
<1>12. ASSUME NEW c \in Creators, LoopWakes(c) \/ LoopReads(c) \/ LoopDies(c)
       PROVE  IInv'
  <2>1. /\ UNCHANGED <<entry, profile, setup, stopping, mqtt, poller, refreshTask, shadowLoop,
                       expiry>>
        /\ loops[c] \in Alive
        /\ \E s \in Alive \cup {"dead"} : loops' = [loops EXCEPT ![c] = s]
    BY <1>12 DEF LoopWakes, LoopReads, LoopDies, control
  <2>2. LoopsInv'
    BY <2>1
  <2> QED
    BY <2>1, <2>2 DEF Identity, Watched, Settled, Probe, Stopped
<1>13. CASE BootstrapEnds \/ ShadowLoopWakes \/ ShadowLoopDies \/ ExpiryWakes
  BY <1>0, <1>13
     DEF BootstrapEnds, ShadowLoopWakes, ShadowLoopDies, ExpiryWakes, control, tasks, Stopped,
         Settled
<1>14. CASE \E read \in BOOLEAN : Polls(read)
  BY <1>0, <1>14 DEF Polls, tasks, Stopped, Settled
<1>15. CASE Clock
  BY <1>0, <1>15 DEF Clock, ShadowExpires, NativeExpires, control, tasks, Stopped, Settled
<1>16. CASE UnloadBegins
  BY <1>0, <1>16 DEF UnloadBegins, tasks, Stopped, Settled
<1>17. CASE StopRefresh
  <2>1. LoopsInv'
    BY <1>17 DEF StopRefresh
  <2>2. Identity' /\ Watched'
    BY <1>17 DEF StopRefresh, Identity, Watched, Settled
  <2>3. Stopped'
    BY <1>17 DEF StopRefresh, Stopped
  <2> QED
    BY <2>1, <2>2, <2>3
<1>18. CASE StopShadow
  BY <1>0, <1>18 DEF StopShadow, Stopped, Settled
<1>19. CASE StopMqtt
  <2>1. refreshTask = None /\ refreshTask' = None
    BY <1>19 DEF StopMqtt, Stopped
  <2>2. LoopsInv'
    BY <1>19, <2>1 DEF StopMqtt
  <2>3. Identity' /\ Watched' /\ Stopped'
    BY <1>19, <2>1 DEF StopMqtt, Identity, Watched, Settled, Stopped
  <2> QED
    BY <2>2, <2>3
<1>20. CASE UNCHANGED vars
  BY <1>0, <1>20 DEF vars, control, tasks, Stopped, Settled
<1> QED
  BY <1>1, <1>2, <1>3, <1>4, <1>5, <1>6, <1>7, <1>8, <1>9, <1>10, <1>11, <1>12, <1>13, <1>14,
     <1>15, <1>16, <1>17, <1>18, <1>19, <1>20
     DEF Next, Setup, Unload, Task

LEMMA Invariance == Spec => []IInv
BY InitInv, NextInv, PTL DEF Spec

(***************************************************************************)
(* The theorems                                                            *)
(***************************************************************************)

\* For every pair of identities a hub meets, the transport, the decoder and
\* the entities speak of the same layout (_set_controller_type and the chains
\* of conditions of the two hubs and of select.py and number.py).
THEOREM ProfilesFit == Spec => []FrameFits
<1>1. IInv => FrameFits
  <2> SUFFICES ASSUME IInv PROVE FrameFits
    OBVIOUS
  <2>1. entry.configured \in Controller /\ entry.live \in Controller
    BY DEF IInv, Identity, Entry
  <2>2. PICK t \in {entry.configured, entry.live} : profile = Profile(entry.configured, t)
    BY DEF IInv, Identity
  <2> QED
    BY <2>1, <2>2, IdentitiesFit DEF FrameFits
<1> QED
  BY <1>1, Invariance, PTL

\* However reports, breaks and the start interleave, a running entry whose
\* profile can be read has a loop that reads it, or had one that an OSError
\* ended (async_start, _apply_reported).
THEOREM ReadableIsWatched == Spec => []ParametersWatched
<1>1. IInv => ParametersWatched
  BY DEF IInv, LoopsInv, Watched, Settled, ParametersWatched, Creators, None
<1> QED
  BY <1>1, Invariance, PTL

\* An unload that runs to its end stops the client, the poller, the loops and
\* the expiry, but for a loop that async_start overwrote (async_stop).
THEOREM UnloadStopsAll == Spec => []UnloadedIsQuiet
<1>1. IInv => UnloadedIsQuiet
  BY DEF IInv, LoopsInv, Stopped, UnloadedIsQuiet, Creators, None, Alive
<1> QED
  BY <1>1, Invariance, PTL

(***************************************************************************)
(* Availability.  It is lost without a word when a proof expires; then     *)
(* someone is on the way who will announce it.                             *)
(***************************************************************************)
Before == {"idle", "connecting", "notready"}
Online == {"started", "probing", "frontend", "platforms", "running"}

\* A connection on which nothing was heard yet has asked for the Shadow.
Asks == mqtt = "up" => synced \/ asked

\* A proof of the Shadow that outlives its connection has an expiry task.
Wakes == mqtt = "down" /\ ~stopping => expiry = "sleeping" \/ ~shadowFresh

\* A native proof has a poller, or one that a stop ended.
Polled ==
  /\ setup \in Before => poller # "running" /\ ~nativeFresh
  /\ nativeFresh => poller \in {"running", "stopped"}
  /\ setup \in Online \cup {"connecting"} => poller # "stopped"
  /\ setup \in Online => mqtt \in {"up", "down"}

Answers == Asks /\ Wakes /\ Polled

\* While the entry runs the entities never show less than what is known, and if
\* they show more, a step that tells them is possible or a broker has been asked.
Announced ==
  setup = "running" =>
    /\ Available => shown
    /\ shown /\ ~Available =>
         \/ poller = "running"
         \/ mqtt = "up" /\ asked
         \/ mqtt = "down" /\ expiry = "sleeping" /\ ~shadowFresh

LEMMA Told == ASSUME Notify PROVE Announced'
<1> SUFFICES ASSUME setup' = "running" PROVE Available' <=> shown'
  BY DEF Announced
<1> QED
  BY Zenon DEF Notify

LEMMA AsksStep == ASSUME Asks, [Next]_vars PROVE Asks'
<1>1. ASSUME UNCHANGED <<mqtt, synced, asked>> PROVE Asks'
  BY <1>1, Zenon DEF Asks
<1>2. ASSUME mqtt' # "up" PROVE Asks'
  BY <1>2 DEF Asks
<1>3. ASSUME asked' PROVE Asks'
  BY <1>3 DEF Asks
<1>4. ASSUME synced' PROVE Asks'
  BY <1>4 DEF Asks
<1>5. CASE SetupBegins \/ ConnectTimesOut \/ Disconnects \/ StopMqtt
  BY <1>2, <1>5 DEF SetupBegins, ConnectTimesOut, Disconnects, StopMqtt
<1>6. CASE Connects \/ ShadowLoopWakes
  BY <1>3, <1>6 DEF Connects, ShadowLoopWakes
<1>7. CASE ShadowArrives
  BY <1>4, <1>7 DEF ShadowArrives
<1>8. CASE Started \/ FirstReadEnds \/ FirstReadBreaks \/ FrontendReady \/ PlatformsReady
           \/ Retry \/ UnloadBegins \/ StopRefresh \/ StopShadow
  BY <1>1, <1>8 DEF Started, FirstReadEnds, FirstReadBreaks, FrontendReady, PlatformsReady, Retry,
                    UnloadBegins, StopRefresh, StopShadow, proofs
<1>9. CASE Task /\ ~ShadowLoopWakes
  BY <1>1, <1>9 DEF Task, LoopWakes, LoopReads, LoopDies, BootstrapEnds, ShadowLoopDies,
                    ExpiryWakes, Polls, proofs
<1>10. CASE Clock \/ UNCHANGED vars
  BY <1>1, <1>10 DEF Clock, ShadowExpires, NativeExpires, vars, proofs
<1> QED
  BY <1>5, <1>6, <1>7, <1>8, <1>9, <1>10 DEF Next, Setup, Unload

LEMMA WakesStep == ASSUME Stopped, Wakes, [Next]_vars PROVE Wakes'
<1>1. ASSUME UNCHANGED <<mqtt, stopping, expiry, shadowFresh>> PROVE Wakes'
  BY <1>1, Zenon DEF Wakes
<1>2. ASSUME mqtt' # "down" PROVE Wakes'
  BY <1>2 DEF Wakes
<1>3. ASSUME stopping' PROVE Wakes'
  BY <1>3 DEF Wakes
<1>4. ASSUME ~shadowFresh' PROVE Wakes'
  BY <1>4 DEF Wakes
<1>5. CASE SetupBegins \/ ConnectTimesOut \/ Connects \/ ShadowArrives \/ StopMqtt
  BY <1>2, <1>5 DEF SetupBegins, ConnectTimesOut, Connects, ShadowArrives, StopMqtt
<1>6. CASE StopRefresh \/ StopShadow
  <2>1. CASE StopRefresh
    BY <1>3, <2>1 DEF StopRefresh
  <2>2. CASE StopShadow
    <3>1. stopping /\ stopping' = stopping
      BY <2>2 DEF StopShadow, Stopped
    <3> QED
      BY <1>3, <3>1
  <2> QED
    BY <1>6, <2>1, <2>2
<1>7. CASE ShadowExpires \/ ExpiryWakes
  <2>1. CASE ShadowExpires
    BY <1>4, <2>1 DEF ShadowExpires
  <2>2. CASE ExpiryWakes
    <3>1. ~shadowFresh /\ shadowFresh' = shadowFresh
      BY <2>2 DEF ExpiryWakes, proofs
    <3> QED
      BY <1>4, <3>1
  <2> QED
    BY <1>7, <2>1, <2>2
<1>8. CASE Disconnects
  <2>1. stopping' = stopping /\ (expiry' = "sleeping" \/ stopping)
    BY <1>8 DEF Disconnects, ExpiresUnlessStopping
  <2>2. CASE stopping
    BY <1>3, <2>1, <2>2
  <2> QED
    BY <2>1, <2>2 DEF Wakes
<1>9. CASE Started \/ FirstReadEnds \/ FirstReadBreaks \/ FrontendReady \/ PlatformsReady
           \/ Retry \/ UnloadBegins
  BY <1>1, <1>9 DEF Started, FirstReadEnds, FirstReadBreaks, FrontendReady, PlatformsReady, Retry,
                    UnloadBegins, LoopOfStart, tasks, proofs
<1>10. CASE Task /\ ~ExpiryWakes
  BY <1>1, <1>10 DEF Task, LoopWakes, LoopReads, LoopDies, BootstrapEnds, ShadowLoopWakes,
                     ShadowLoopDies, Polls, control, tasks, proofs
<1>11. CASE NativeExpires \/ UNCHANGED vars
  BY <1>1, <1>11 DEF NativeExpires, vars, control, tasks, proofs
<1> QED
  BY <1>5, <1>6, <1>7, <1>8, <1>9, <1>10, <1>11 DEF Next, Setup, Unload, Clock

LEMMA PolledStep == ASSUME Polled, [Next]_vars PROVE Polled'
<1>1. ASSUME UNCHANGED <<setup, poller, nativeFresh, mqtt>> PROVE Polled'
  BY <1>1, Zenon DEF Polled
<1> USE DEF Polled, Before, Online
<1>2. ASSUME nativeFresh' = nativeFresh, poller' = poller, mqtt' \in {"up", "down"},
             setup' # setup => setup \in Online \cup {"connecting"} /\ setup' \in Online
      PROVE  Polled'
  BY <1>2
<1>3. CASE SetupBegins \/ ConnectTimesOut \/ Retry
  <2>1. setup' \in Before /\ poller' # "running" /\ nativeFresh' = nativeFresh /\ ~nativeFresh
        /\ (setup' = "connecting" => poller' # "stopped")
    BY <1>3 DEF SetupBegins, ConnectTimesOut, Retry, proofs
  <2> QED
    BY <2>1
<1>4. CASE Connects \/ Disconnects \/ ShadowArrives
  BY <1>2, <1>4 DEF Connects, Disconnects, ShadowArrives, proofs
<1>5. CASE Started \/ FirstReadEnds \/ PlatformsReady
  BY <1>2, <1>5 DEF Started, FirstReadEnds, PlatformsReady, proofs
<1>6. CASE FrontendReady
  <2>1. /\ UNCHANGED <<mqtt, nativeFresh>> /\ setup = "frontend" /\ setup' = "platforms"
        /\ poller' = IF poller = "ready" THEN "running" ELSE poller
    BY <1>6 DEF FrontendReady, proofs
  <2>2. nativeFresh => poller = "running"
    BY <2>1
  <2> QED
    BY <2>1, <2>2
<1>7. CASE FirstReadBreaks \/ UnloadBegins \/ StopRefresh \/ StopShadow \/ StopMqtt
  <2>1. /\ setup' \notin Before \cup Online
        /\ nativeFresh' = nativeFresh
        /\ poller' = poller \/ poller' = "stopped"
    BY <1>7 DEF FirstReadBreaks, UnloadBegins, StopRefresh, StopShadow, StopMqtt, proofs
  <2> QED
    BY <2>1
<1>8. CASE \E read \in BOOLEAN : Polls(read)
  <2>1. UNCHANGED <<setup, poller, mqtt>> /\ poller = "running"
    BY <1>8 DEF Polls
  <2> QED
    BY <2>1
<1>9. CASE NativeExpires
  <2>1. UNCHANGED <<setup, poller, mqtt>> /\ ~nativeFresh'
    BY <1>9 DEF NativeExpires, control
  <2> QED
    BY <2>1
<1>10. CASE Task /\ ~\E read \in BOOLEAN : Polls(read)
  BY <1>1, <1>10 DEF Task, LoopWakes, LoopReads, LoopDies, BootstrapEnds, ShadowLoopWakes,
                     ShadowLoopDies, ExpiryWakes, control, proofs
<1>11. CASE ShadowExpires \/ UNCHANGED vars
  BY <1>1, <1>11 DEF ShadowExpires, vars, control, proofs
<1> QED
  BY <1>3, <1>4, <1>5, <1>6, <1>7, <1>8, <1>9, <1>10, <1>11 DEF Next, Setup, Unload, Clock

\* What the entities show changes only with what they are told.
LEMMA AnnouncedStep == ASSUME IInv, Answers, Announced, [Next]_vars PROVE Announced'
<1> USE DEF Answers
<1>1. ASSUME setup' # "running" PROVE Announced'
  BY <1>1 DEF Announced
<1>2. ASSUME Notify PROVE Announced'
  BY <1>2, Told
<1>3. ASSUME UNCHANGED <<setup, poller, mqtt, expiry, asked, proofs, shown>> PROVE Announced'
  <2>1. Available' = Available
    BY <1>3, Zenon DEF proofs, Available
  <2> QED
    BY <1>3, <2>1, Zenon DEF proofs, Announced
<1>4. CASE ShadowLoopWakes
  <2>1. UNCHANGED <<setup, poller, mqtt, expiry, proofs, shown>> /\ mqtt = "up" /\ asked'
    BY <1>4 DEF ShadowLoopWakes, control, tasks
  <2>2. Available' = Available
    BY <2>1, Zenon DEF proofs, Available
  <2>3. setup' = "running" /\ Available' => shown'
    BY <2>1, <2>2, Zenon DEF Announced
  <2> QED
    BY <2>1, <2>3 DEF Announced
<1>5. CASE ShadowExpires
  <2>1. /\ UNCHANGED <<setup, mqtt, asked, expiry, poller, online, synced, nativeFresh, shown>>
        /\ shadowFresh /\ ~shadowFresh'
    BY <1>5 DEF ShadowExpires, Unnotified, control, tasks
  <2>2. Available' => Available
    BY <2>1, Zenon DEF Available
  <2>3. setup' = "running" /\ Available' => shown'
    BY <2>1, <2>2, Zenon DEF Announced
  <2>4. CASE Available
    <3>1. CASE mqtt = "down" /\ setup = "running"
      <4>1. expiry = "sleeping"
        BY <2>1, <3>1 DEF Wakes, IInv, Stopped
      <4> QED
        BY <2>1, <2>3, <3>1, <4>1 DEF Announced
    <3>2. CASE mqtt = "up" /\ setup = "running"
      <4>1. CASE asked
        <5>1. asked' /\ mqtt' = "up"
          BY <2>1, <3>2, <4>1
        <5> QED
          BY <2>3, <5>1 DEF Announced
      <4>2. CASE ~asked
        <5>1. synced
          BY <3>2, <4>2 DEF Asks
        <5>2. Available'
          <6>1. synced' /\ mqtt' = "up" /\ online' = online /\ nativeFresh' = nativeFresh
            BY <2>1, <3>2, <5>1
          <6>2. online # "no" \/ nativeFresh
            BY <2>4 DEF Available
          <6> QED
            BY <6>1, <6>2 DEF Available
        <5> QED
          BY <2>3, <5>2 DEF Announced
      <4> QED
        BY <4>1, <4>2
    <3>3. setup = "running" => mqtt \in {"up", "down"}
      BY DEF Polled, Online
    <3> QED
      BY <1>1, <2>1, <3>1, <3>2, <3>3
  <2>5. CASE ~Available
    <3>1. setup' = "running" /\ shown' =>
            poller' = "running" \/ (mqtt' = "up" /\ asked') \/ (mqtt' = "down" /\ expiry' = "sleeping")
      <4> SUFFICES ASSUME setup' = "running", shown'
                   PROVE  \/ poller' = "running"
                          \/ mqtt' = "up" /\ asked'
                          \/ mqtt' = "down" /\ expiry' = "sleeping"
        OBVIOUS
      <4>1. setup = "running" /\ shown
        BY <2>1
      <4>2. poller = "running" \/ (mqtt = "up" /\ asked) \/ (mqtt = "down" /\ expiry = "sleeping")
        BY <2>5, <4>1 DEF Announced
      <4> QED
        BY <2>1, <4>2
    <3> QED
      BY <2>1, <2>3, <3>1 DEF Announced
  <2> QED
    BY <2>4, <2>5
<1>6. CASE NativeExpires
  <2>1. /\ UNCHANGED <<setup, poller, mqtt, online, synced, shadowFresh, shown>>
        /\ nativeFresh /\ ~nativeFresh'
    BY <1>6 DEF NativeExpires, Unnotified, control
  <2>2. setup = "running" => poller' = "running"
    BY <2>1 DEF Polled, Online
  <2>3. Available' => Available
    BY <2>1, Zenon DEF Available
  <2>4. setup' = "running" /\ Available' => shown'
    BY <2>1, <2>3, Zenon DEF Announced
  <2> QED
    BY <2>1, <2>2, <2>4 DEF Announced
<1>7. CASE \/ SetupBegins \/ ConnectTimesOut \/ Retry \/ Started \/ FirstReadBreaks
           \/ FrontendReady \/ UnloadBegins \/ StopRefresh \/ StopShadow \/ StopMqtt
  BY <1>1, <1>7 DEF SetupBegins, ConnectTimesOut, Retry, Started, FirstReadBreaks, FrontendReady,
                    UnloadBegins, StopRefresh, StopShadow, StopMqtt
<1>8. CASE \/ FirstReadEnds \/ PlatformsReady \/ Connects \/ Disconnects \/ ShadowArrives
           \/ BootstrapEnds \/ ExpiryWakes \/ \E read \in BOOLEAN : Polls(read)
           \/ \E c \in Creators : LoopReads(c)
  BY <1>2, <1>8 DEF FirstReadEnds, PlatformsReady, Connects, Disconnects, ShadowArrives,
                    BootstrapEnds, ExpiryWakes, Polls, LoopReads
<1>9. CASE \/ ShadowLoopDies \/ UNCHANGED vars
           \/ \E c \in Creators : LoopWakes(c) \/ LoopDies(c)
  BY <1>3, <1>9 DEF LoopWakes, LoopDies, ShadowLoopDies, vars, control, tasks
<1> QED
  BY <1>4, <1>5, <1>6, <1>7, <1>8, <1>9 DEF Next, Setup, Unload, Task, Clock

\* No expiry of a proof goes unannounced for want of somebody to announce it, and the
\* entities are never shown unavailable while the hub is available: what is left to
\* AvailabilityShown is that those who will speak get to (_mqtt_state_changed,
\* _expire_availability_after_grace, _shadow_refresh_loop, the poller's rounds).
THEOREM ExpiryIsAnnounced == Spec => []Announced
<1>1. Init => Answers /\ Announced
  BY DEF Init, Answers, Asks, Wakes, Polled, Before, Online, Announced
<1>2. IInv /\ Answers /\ Announced /\ [Next]_vars => (Answers /\ Announced)'
  BY AsksStep, WakesStep, PolledStep, AnnouncedStep DEF Answers, IInv
<1> QED
  BY <1>1, <1>2, Invariance, PTL DEF Spec

=============================================================================
