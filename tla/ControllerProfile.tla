--------------------------- MODULE ControllerProfile ---------------------------
(***************************************************************************)
(* What the hub makes of a controller's identity: the type of the account  *)
(* (configured) and the type the controller reports itself (live) select   *)
(* family, capabilities, parameter model and schema, and from these five   *)
(* chains of conditions, in two classes and in the entity platforms,       *)
(* select transport, decoder, entities and what may be written.            *)
(*                                                                         *)
(* The vendor tables are carried by the types the code names and by one    *)
(* type of each other kind.  A frame layout is named for its schema.       *)
(***************************************************************************)
EXTENDS Integers

None == "none"

-----------------------------------------------------------------------------
(* The vendor tables *)

Sliding == {"PS20040", "PS21053", "PS21053C", "PS25142"}

Swing == {"P190U", "PS17062", "PS19001", "PS20005", "PS21050", "PS22027"}

Garage == {"PS22087"}

NonGate == {"AOK1", "CHOWHUB", "TUYA"}

\* Types in no table of the application: most of them are seen live only.
Unlisted == {"PS20005A", "PS20040D", "PS21050C", "PS21050D", "PS22087B",
             "PS24118", "PS24118C", "PS25007", "PS25007A"}

Controller == Sliding \cup Swing \cup Garage \cup NonGate \cup Unlisted

PedestrianControllers ==
  {"P190U", "PS17062", "PS19001", "PS20005", "PS20040", "PS21050", "PS21053",
   "PS21053C", "PS22027"}

ExternalControllers == {"PS21053", "PS21053C", "PS22087"}

LightControllers == {"PS22087"}

\* Types with a schema and a codec in the generated tables.
AppModels == (Sliding \ {"PS25142"}) \cup Swing \cup Garage

\* parameter_schema_for: PS21053C has the layout of PS21053.
AppSchema(t) == CASE t \notin AppModels -> None
                  [] t = "PS21053C" -> "PS21053"
                  [] OTHER -> t

\* Number of values of a layout.
Slots == [PS20040 |-> 9, PS21053 |-> 17, P190U |-> 23, PS17062 |-> 23,
          PS19001 |-> 23, PS20005 |-> 19, PS21050 |-> 24, PS22027 |-> 22,
          PS22087 |-> 15, PS25142 |-> 18, PS22087B |-> 15,
          PS19001Wire |-> 19, PS21050Wire |-> 20, PS22027Wire |-> 20,
          PS21050Raw |-> 20]

Layout == DOMAIN Slots

\* The types of the first UART generation, whose frames are labelled.
Uart0 == {"P190U", "PS17062", "PS19001"}

ControllerFamily(t) ==
  CASE t \in Sliding -> "sliding"
    [] t \in Swing -> "swing"
    [] t \in Garage -> "garage"
    [] t \in NonGate -> "other"
    [] OTHER -> None

ControllerCapabilities(t) ==
  {c \in {"pedestrian", "external", "light"} :
     \/ c = "pedestrian" /\ t \in PedestrianControllers
     \/ c = "external" /\ t \in ExternalControllers
     \/ c = "light" /\ t \in LightControllers}

-----------------------------------------------------------------------------
(* _set_controller_type: of the base hub, then of the hub of the aliases *)

Own(t) ==
  [type |-> t, family |-> ControllerFamily(t), capabilities |-> ControllerCapabilities(t),
   model |-> None, source |-> None, schema |-> None]

BaseProfile(configured, live) ==
  CASE configured = "PS25007" /\ live \in {"PS25007", "PS25007A"} ->
         [type |-> live, family |-> "sliding", model |-> "PS25007A", schema |-> "PS21053",
          capabilities |-> {"external"} \cup {c \in {"pedestrian"} : live = "PS25007A"},
          source |-> IF live = "PS25007A" THEN "ps25007a_verified" ELSE "ps25007_pending_live"]
    [] live = "PS25142" -> [Own(live) EXCEPT !.model = live, !.source = "ps25142_proposal_b"]
    [] live = "PS21050D" ->
         [Own(live) EXCEPT !.model = live, !.source = "live_raw_read_only", !.schema = "PS21050Raw"]
    [] live \in AppModels ->
         [Own(live) EXCEPT !.model = live, !.source = "controller", !.schema = AppSchema(live)]
    [] /\ live \notin AppModels \cup {"PS25142", "PS21050D"}
       /\ ~(configured = "PS25007" /\ live \in {"PS25007", "PS25007A"}) ->
         IF configured \in AppModels
           THEN [Own(live) EXCEPT !.model = configured, !.source = "configured_fallback",
                                  !.schema = AppSchema(configured)]
           ELSE Own(live)

\* Mutant: the schema of a type verified live stays the one of the application.
VerifiedSchemaOfApp(p) ==
  IF p.type = p.model /\ p.model \in {"PS19001", "PS22027"}
    THEN [p EXCEPT !.source = "wire_verified"]
    ELSE p

VerifiedSchema(p) ==
  CASE p.type = "PS19001" /\ p.model = "PS19001" ->
         [p EXCEPT !.schema = "PS19001Wire", !.source = "ps19001_wire19_verified"]
    [] p.type = "PS22027" /\ p.model = "PS22027" ->
         [p EXCEPT !.schema = "PS22027Wire", !.source = "ps22027_wire20_verified"]
    [] p.type = "PS20005A" ->
         [p EXCEPT !.family = ControllerFamily("PS20005"),
                   !.capabilities = ControllerCapabilities("PS20005")]
    [] p.type \notin {"PS19001", "PS22027", "PS20005A"} -> p

\* The profile of a pair of identities.  Every branch sets every field: the
\* profile does not depend on those before it.
Profile(configured, live) ==
  LET base == BaseProfile(configured, live)
      as(app, model, source, schema) ==
        [type |-> live, family |-> ControllerFamily(app), model |-> model, source |-> source,
         capabilities |-> ControllerCapabilities(app), schema |-> schema]
  IN CASE configured = "PS24118" /\ live \in {"PS24118", "PS24118C"} ->
            as("P190U", None, "ps24118_p190u_capability_alias", None)
       [] configured = "PS22087" /\ live = "PS22087" ->
            as("PS22087", None, "ps22087_waiting", None)
       [] configured = "PS22087" /\ live = "PS22087B" ->
            as("PS22087", "PS22087B", "ps22087b_wire15_verified", "PS22087B")
       [] configured = "PS20040" /\ live = "PS20040D" ->
            as("PS20040", base.model, "apk_ps20040_alias", base.schema)
       [] configured = "PS21050" /\ live \in {"PS21050C", "PS21050D"} ->
            as("PS21050", "PS21050D", "apk_ps21050_alias", "PS21050Wire")
       [] /\ ~(configured = "PS24118" /\ live \in {"PS24118", "PS24118C"})
          /\ ~(configured = "PS22087" /\ live \in {"PS22087", "PS22087B"})
          /\ ~(configured = "PS20040" /\ live = "PS20040D")
          /\ ~(configured = "PS21050" /\ live \in {"PS21050C", "PS21050D"}) ->
            VerifiedSchema(base)

-----------------------------------------------------------------------------
(* The predicates of a hub with this account type and this profile *)

IsPs25007aProfile(configured, p) ==
  configured = "PS25007" /\ p.model = "PS25007A" /\ p.type \in {"PS25007", "PS25007A"}

IsPs22087bAlias(configured, p) ==
  /\ configured = "PS22087" /\ p.type = "PS22087B" /\ p.model = "PS22087B"
  /\ p.source = "ps22087b_wire15_verified"

IsPs22027Verified(p) ==
  p.type = "PS22027" /\ p.model = "PS22027" /\ p.source = "ps22027_wire20_verified"

IsAlias(configured, p) ==
  \/ configured = "PS21050" /\ p.type \in {"PS21050C", "PS21050D"}
  \/ configured = "PS20040" /\ p.type = "PS20040D"

\* parameter_schema_verified, which is also may_probe_parameters.
MayProbe(configured, p) ==
  \/ IsPs22087bAlias(configured, p)
  \/ IF IsPs25007aProfile(configured, p) THEN p.schema # None /\ Slots[p.schema] = 17
     ELSE \/ p.model = "PS25142" /\ p.type = "PS25142"
          \/ p.schema # None /\ (p.model = "PS21050D" \/ p.model \in AppModels)

\* parameter_write_schema_verified, which is also supports_parameters.
MayWrite(configured, p) ==
  \/ IsPs22027Verified(p)
  \/ IsPs22087bAlias(configured, p)
  \/ /\ MayProbe(configured, p)
     /\ IF IsPs25007aProfile(configured, p) THEN p.type = "PS25007A"
        ELSE \/ IsAlias(configured, p)
             \/ p.model # None /\ p.model = p.type /\ p.type # "PS21050D"

\* The commands and acknowledgements of a read and a write; None is an error.
ParameterTransport(configured, p) ==
  IF \/ IsPs22087bAlias(configured, p) \/ IsPs25007aProfile(configured, p)
     \/ p.model \in {"PS25142", "PS21050D"}
    THEN "RP,1"
    ELSE IF p.schema = None \/ p.model \notin AppModels THEN None
    ELSE IF p.model \in Uart0 THEN "READ FUNCTION" ELSE "RP,1"

\* The layout of the frames _decode_parameter_response accepts.
FrameLayout(configured, p) ==
  CASE IsPs22087bAlias(configured, p) -> "PS22087B"
    [] p.model = "PS19001" -> "PS19001Wire"
    [] IsPs22027Verified(p) -> "PS22027Wire"
    [] p.model = "PS25142" -> "PS25142"
    [] IsPs25007aProfile(configured, p) -> "PS21053"
    [] p.model = "PS21050D" -> "PS21050Wire"
    [] /\ ~IsPs22087bAlias(configured, p) /\ ~IsPs22027Verified(p)
       /\ ~IsPs25007aProfile(configured, p)
       /\ p.model \notin {"PS19001", "PS25142", "PS21050D"} -> AppSchema(p.model)

\* pedestrian_strategy; tagged: the hub knows the source tag of the account.
PedestrianStrategy(configured, p, tagged) ==
  IF \/ /\ IsPs25007aProfile(configured, p) /\ p.type = "PS25007A" /\ tagged
     \/ /\ p.type # "PS25007A" /\ "pedestrian" \in p.capabilities
    THEN "ped_open" ELSE None

-----------------------------------------------------------------------------
(* The entities the platforms create from the profile they find *)

\* The layout by whose indexes the select and number entities read and write.
EntityLayout(configured, p) ==
  IF ~MayWrite(configured, p) THEN None
  ELSE IF p.model = "PS25142" THEN "PS25142"
  ELSE p.schema

HasCover(p) == p.type \notin NonGate

HasPedestrianButton(configured, p, tagged) ==
  PedestrianStrategy(configured, p, tagged) # None

-----------------------------------------------------------------------------
(* A profile whose parameters may be written has a transport, reads frames of *)
(* exactly the layout its entities index, and is not read-only by layout.     *)
Consistent(configured, p) ==
  MayWrite(configured, p) =>
    /\ ParameterTransport(configured, p) # None
    /\ EntityLayout(configured, p) \in Layout \ {"PS21050Raw"}
    /\ FrameLayout(configured, p) = EntityLayout(configured, p)
    /\ ParameterTransport(configured, p) = "READ FUNCTION" <=> p.model \in Uart0
=============================================================================
